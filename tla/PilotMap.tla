------------------------------ MODULE PilotMap ------------------------------
(***************************************************************************)
(* The map of PDA ids to desktop uids that every conduit for              *)
(* evolution-data-server keeps (conduits/evolution-data-server/            *)
(* e-pilot-map.c): two hash tables, by PDA id and by uid, and the file      *)
(* that outlives the session.  The operations are operators that return    *)
(* the new map.                                                             *)
(*                                                                         *)
(* An entry for PDA id 0 is an entry by uid only: "no PDA record".          *)
(***************************************************************************)
EXTENDS Naturals

CONSTANTS Pids,   \* ids of PDA records; 0 is none
          Uids    \* uids of desktop objects

ASSUME PidsAssumption == Pids \subseteq Nat \ {0}

PidNode == [uid: Uids, archived: BOOLEAN, touched: BOOLEAN]
UidNode == [pid: Pids \cup {0}, archived: BOOLEAN, touched: BOOLEAN]

(* The two hash tables: functions over the keys that are present.           *)
Tables == [pids: UNION {[S -> PidNode] : S \in SUBSET Pids},
           uids: UNION {[S -> UidNode] : S \in SUBSET Uids},
           touchedOnly: BOOLEAN]

(* What the file keeps of an entry.                                         *)
Entry == [pid: Pids \cup {0}, archived: BOOLEAN]
Files == UNION {[S -> Entry] : S \in SUBSET Uids}

Put(f, x, v) == [y \in DOMAIN f \cup {x} |-> IF y = x THEN v ELSE f[y]]
Without(f, x) == [y \in DOMAIN f \ {x} |-> f[y]]
NoEntries == [x \in {} |-> x]

EmptyMap == [pids |-> NoEntries, uids |-> NoEntries, touchedOnly |-> FALSE]

RealInsert(m, pid, uid, archived, touch) ==
  [m EXCEPT
    !.pids = IF pid = 0 THEN @
             ELSE Put(@, pid, [uid |-> uid, archived |-> archived, touched |-> touch]),
    !.uids = Put(@, uid, [pid |-> pid, archived |-> archived, touched |-> touch])]

(* Whatever the id and the uid were paired with before is forgotten.        *)
RemoveByPid(m, pid) ==
  IF pid \notin DOMAIN m.pids THEN m
  ELSE [m EXCEPT !.uids = Without(@, m.pids[pid].uid), !.pids = Without(@, pid)]

RemoveByUid(m, uid) ==
  IF uid \notin DOMAIN m.uids THEN m
  ELSE [m EXCEPT !.pids = Without(@, m.uids[uid].pid), !.uids = Without(@, uid)]

InsertForgetsPid(m, pid, uid, archived) ==
  RealInsert(RemoveByPid(m, pid), pid, uid, archived, TRUE)

Insert(m, pid, uid, archived) ==
  RealInsert(RemoveByUid(RemoveByPid(m, pid), uid), pid, uid, archived, TRUE)

(* A look-up touches the entry in both tables.                              *)
Touch(m, pid, uid) ==
  [m EXCEPT
    !.pids = [p \in DOMAIN @ |-> IF p = pid THEN [@[p] EXCEPT !.touched = TRUE] ELSE @[p]],
    !.uids = [u \in DOMAIN @ |-> IF u = uid THEN [@[u] EXCEPT !.touched = TRUE] ELSE @[u]]]

LookupPid(m, uid) == IF uid \in DOMAIN m.uids THEN m.uids[uid].pid ELSE 0
TouchByUid(m, uid) ==
  IF uid \in DOMAIN m.uids THEN Touch(m, m.uids[uid].pid, uid) ELSE m

TouchByPid(m, pid) ==
  IF pid \in DOMAIN m.pids THEN Touch(m, pid, m.pids[pid].uid) ELSE m

UidIsArchived(m, uid) == uid \in DOMAIN m.uids /\ m.uids[uid].archived

Clear(m) == [m EXCEPT !.pids = NoEntries, !.uids = NoEntries]

(* The file of a map.  An archived entry loses its PDA id.                  *)
Written(m) == {u \in DOMAIN m.uids : m.touchedOnly => m.uids[u].touched}
WriteMap(m) == [u \in Written(m) |->
  [pid |-> IF m.uids[u].archived THEN 0 ELSE m.uids[u].pid,
   archived |-> m.uids[u].archived]]

(* Reading it: an entry without a PDA id that is not archived is refused.   *)
(* The file of a map names no PDA id twice (FileInjective), so the order in *)
(* which its entries are inserted does not matter.                          *)
AcceptedWithId(f) == {u \in DOMAIN f : f[u].pid # 0}
Accepted(f) == {u \in DOMAIN f : f[u].pid # 0 \/ f[u].archived}
ReadMap(f) ==
  [pids |-> [p \in {f[u].pid : u \in Accepted(f)} \ {0} |->
              LET u == CHOOSE u \in Accepted(f) : f[u].pid = p
              IN [uid |-> u, archived |-> f[u].archived, touched |-> FALSE]],
   uids |-> [u \in Accepted(f) |->
              [pid |-> f[u].pid, archived |-> f[u].archived, touched |-> FALSE]],
   touchedOnly |-> FALSE]

---------------------------------------------------------------------------
(* The two tables describe one relation: an id leads to a uid exactly if    *)
(* the uid leads back to the id, with the same marks.                       *)
InverseTables(m) ==
  /\ \A p \in DOMAIN m.pids :
       /\ m.pids[p].uid \in DOMAIN m.uids
       /\ m.uids[m.pids[p].uid] = [pid |-> p, archived |-> m.pids[p].archived,
                                   touched |-> m.pids[p].touched]
  /\ \A u \in DOMAIN m.uids :
       m.uids[u].pid # 0 => /\ m.uids[u].pid \in DOMAIN m.pids
                            /\ m.pids[m.uids[u].pid].uid = u

FileInjective(f) ==
  \A u, v \in DOMAIN f : f[u].pid = f[v].pid /\ f[u].pid # 0 => u = v
=============================================================================
