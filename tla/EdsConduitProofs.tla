--------------------------- MODULE EdsConduitProofs ---------------------------
(***************************************************************************)
(* An EDS conduit, for any number of items and any sets of ids, uids and     *)
(* sources.                                                                  *)
(*                                                                           *)
(* The first part: the two tables of the map stay inverse (TablesInverse of  *)
(* EdsConduit).  The lemmas say of every operation of e-pilot-map.c that it  *)
(* keeps a map whose tables are inverse that way, and of writing and reading *)
(* the file that an injective file and an inverse map come of each other.    *)
(*                                                                           *)
(* The second part: the types of what a conduit keeps and of what a session  *)
(* holds (TypeOK).  Ids and uids are handed out in order and nobody holds a  *)
(* later one (Handed); every callback is shown to take one of a few forms    *)
(* (Lesser, Added, SentNew), which EdsPairingProofs argues by, too.          *)
(***************************************************************************)
EXTENDS EdsConduit, FiniteSetTheorems, TLAPS

(* A map as the operations expect it.                                       *)
PidTable(f) == /\ DOMAIN f \subseteq Pids
               /\ f \in [DOMAIN f -> PidNode]
UidTable(f) == /\ DOMAIN f \subseteq Uids
               /\ f \in [DOMAIN f -> UidNode]
GoodMap(m) ==
  /\ m = [pids |-> m.pids, uids |-> m.uids, touchedOnly |-> m.touchedOnly]
  /\ PidTable(m.pids)
  /\ UidTable(m.uids)
  /\ InverseTables(m)

(* An id of 0 belongs to no PDA record.                                     *)
LEMMA NoPidIsZero == 0 \notin Pids
BY PidsAssumption

(* A map given new tables has them.                                        *)
LEMMA NewTables ==
  ASSUME NEW m, m = [pids |-> m.pids, uids |-> m.uids, touchedOnly |-> m.touchedOnly],
         NEW P, NEW U, NEW r, r = [m EXCEPT !.pids = P, !.uids = U]
  PROVE  r = [pids |-> P, uids |-> U, touchedOnly |-> m.touchedOnly]
OBVIOUS

(* What the two tables being inverse means for one entry.                   *)
LEMMA InverseFacts ==
  ASSUME NEW m, GoodMap(m)
  PROVE  /\ \A p \in DOMAIN m.pids :
              /\ p \in Pids /\ p # 0
              /\ m.pids[p].uid \in DOMAIN m.uids
              /\ m.uids[m.pids[p].uid].pid = p
              /\ m.uids[m.pids[p].uid].archived = m.pids[p].archived
              /\ m.uids[m.pids[p].uid].touched = m.pids[p].touched
         /\ \A u \in DOMAIN m.uids :
              /\ u \in Uids /\ m.uids[u] \in UidNode
              /\ m.uids[u].pid # 0 => /\ m.uids[u].pid \in DOMAIN m.pids
                                      /\ m.pids[m.uids[u].pid].uid = u
<1>1. ASSUME NEW p \in DOMAIN m.pids
      PROVE  /\ p \in Pids /\ p # 0
             /\ m.pids[p].uid \in DOMAIN m.uids
             /\ m.uids[m.pids[p].uid].pid = p
             /\ m.uids[m.pids[p].uid].archived = m.pids[p].archived
             /\ m.uids[m.pids[p].uid].touched = m.pids[p].touched
  <2>1. m.uids[m.pids[p].uid] = [pid |-> p, archived |-> m.pids[p].archived,
                                 touched |-> m.pids[p].touched]
    BY DEF GoodMap, InverseTables
  <2>2. p \in Pids /\ p # 0 /\ m.pids[p].uid \in DOMAIN m.uids
    BY NoPidIsZero DEF GoodMap, PidTable, InverseTables
  <2> QED BY <2>1, <2>2
<1>2. ASSUME NEW u \in DOMAIN m.uids
      PROVE  /\ u \in Uids /\ m.uids[u] \in UidNode
             /\ m.uids[u].pid # 0 => /\ m.uids[u].pid \in DOMAIN m.pids
                                     /\ m.pids[m.uids[u].pid].uid = u
  BY DEF GoodMap, UidTable, InverseTables
<1> QED BY <1>1, <1>2

(* An id that is in the map leads back to its uid.                          *)
LEMMA PairedBack ==
  ASSUME NEW m, GoodMap(m)
  PROVE  \A v \in DOMAIN m.uids :
           m.uids[v].pid # 0 => /\ m.uids[v].pid \in DOMAIN m.pids
                                /\ m.pids[m.uids[v].pid].uid = v
BY InverseFacts

(* A uid that is in the map under an id leads back to it.                   *)
LEMMA UidBack ==
  ASSUME NEW m, GoodMap(m)
  PROVE  \A q \in DOMAIN m.pids :
           q # 0 /\ m.pids[q].uid \in DOMAIN m.uids /\ m.uids[m.pids[q].uid].pid = q
BY InverseFacts

(* No other uid is in the map under the id.                                 *)
LEMMA OnlyPartner ==
  ASSUME NEW m, GoodMap(m), NEW p \in DOMAIN m.pids, NEW w, w = m.pids[p].uid
  PROVE  \A u \in DOMAIN m.uids \ {w} : m.uids[u].pid # p
<1>1. p # 0 /\ m.pids[p].uid = w
  BY UidBack
<1> QED BY <1>1, PairedBack

(* What the two tables say of a pair agrees.                                *)
LEMMA TablesAgree ==
  ASSUME NEW m, GoodMap(m)
  PROVE  \A q \in DOMAIN m.pids :
           /\ m.pids[q].uid \in DOMAIN m.uids
           /\ m.uids[m.pids[q].uid].pid = q
           /\ m.uids[m.pids[q].uid].archived = m.pids[q].archived
           /\ m.uids[m.pids[q].uid].touched = m.pids[q].touched
<1> SUFFICES ASSUME NEW q \in DOMAIN m.pids
             PROVE  /\ m.pids[q].uid \in DOMAIN m.uids
                    /\ m.uids[m.pids[q].uid].pid = q
                    /\ m.uids[m.pids[q].uid].archived = m.pids[q].archived
                    /\ m.uids[m.pids[q].uid].touched = m.pids[q].touched
  OBVIOUS
<1>1. /\ m.pids[q].uid \in DOMAIN m.uids
      /\ m.uids[m.pids[q].uid] = [pid |-> q, archived |-> m.pids[q].archived,
                                  touched |-> m.pids[q].touched]
  BY DEF GoodMap, InverseTables
<1> QED BY <1>1

(* Whether the tables are inverse depends on nothing but them.             *)
LEMMA InverseIfFields ==
  ASSUME NEW m, PidTable(m.pids), UidTable(m.uids),
         \A p \in DOMAIN m.pids :
            /\ m.pids[p].uid \in DOMAIN m.uids
            /\ m.uids[m.pids[p].uid].pid = p
            /\ m.uids[m.pids[p].uid].archived = m.pids[p].archived
            /\ m.uids[m.pids[p].uid].touched = m.pids[p].touched,
         \A u \in DOMAIN m.uids :
            m.uids[u].pid # 0 => /\ m.uids[u].pid \in DOMAIN m.pids
                                 /\ m.pids[m.uids[u].pid].uid = u
  PROVE  InverseTables(m)
<1>1. ASSUME NEW p \in DOMAIN m.pids
      PROVE  m.uids[m.pids[p].uid] = [pid |-> p, archived |-> m.pids[p].archived,
                                      touched |-> m.pids[p].touched]
  <2>1. m.uids[m.pids[p].uid] \in UidNode
    BY DEF UidTable
  <2> QED BY <2>1 DEF UidNode
<1> QED BY <1>1 DEF InverseTables

LEMMA SameTables ==
  ASSUME NEW m, NEW n, n.pids = m.pids, n.uids = m.uids, InverseTables(m)
  PROVE  InverseTables(n)
BY Zenon DEF InverseTables

(* The empty map is one.                                                    *)
LEMMA EmptyMapGood == GoodMap(EmptyMap)
BY DEF GoodMap, PidTable, UidTable, InverseTables, EmptyMap, NoEntries

(* What a table holds after an entry was put in or taken out.               *)
LEMMA PutPid ==
  ASSUME NEW f, PidTable(f), NEW p \in Pids, NEW n \in PidNode
  PROVE  /\ PidTable(Put(f, p, n))
         /\ DOMAIN Put(f, p, n) = DOMAIN f \cup {p}
         /\ Put(f, p, n)[p] = n
         /\ \A q \in DOMAIN f : q # p => Put(f, p, n)[q] = f[q]
BY DEF PidTable, Put

LEMMA PutUid ==
  ASSUME NEW f, UidTable(f), NEW u \in Uids, NEW n \in UidNode
  PROVE  /\ UidTable(Put(f, u, n))
         /\ DOMAIN Put(f, u, n) = DOMAIN f \cup {u}
         /\ Put(f, u, n)[u] = n
         /\ \A v \in DOMAIN f : v # u => Put(f, u, n)[v] = f[v]
BY DEF UidTable, Put

LEMMA WithoutPid ==
  ASSUME NEW f, PidTable(f), NEW p
  PROVE  /\ PidTable(Without(f, p))
         /\ DOMAIN Without(f, p) = DOMAIN f \ {p}
         /\ \A q \in DOMAIN f \ {p} : Without(f, p)[q] = f[q]
BY DEF PidTable, Without

LEMMA WithoutUid ==
  ASSUME NEW f, UidTable(f), NEW u
  PROVE  /\ UidTable(Without(f, u))
         /\ DOMAIN Without(f, u) = DOMAIN f \ {u}
         /\ \A v \in DOMAIN f \ {u} : Without(f, u)[v] = f[v]
BY DEF UidTable, Without

(* remove_by_pid: the id is gone, and the uid it was paired with.           *)
LEMMA RemoveByPidGood ==
  ASSUME NEW m, GoodMap(m), NEW p
  PROVE  /\ GoodMap(RemoveByPid(m, p))
         /\ p \notin DOMAIN RemoveByPid(m, p).pids
         /\ p # 0 => \A u \in DOMAIN RemoveByPid(m, p).uids : RemoveByPid(m, p).uids[u].pid # p
<1>1. CASE p \notin DOMAIN m.pids
  BY <1>1 DEF RemoveByPid, GoodMap, InverseTables
<1>2. CASE p \in DOMAIN m.pids
  <2> DEFINE r == RemoveByPid(m, p)
             uid == m.pids[p].uid
  <2>1. r = [pids |-> Without(m.pids, p), uids |-> Without(m.uids, uid),
             touchedOnly |-> m.touchedOnly]
    BY <1>2 DEF RemoveByPid, GoodMap
  <2>2. /\ PidTable(r.pids) /\ DOMAIN r.pids = DOMAIN m.pids \ {p}
        /\ \A q \in DOMAIN r.pids : r.pids[q] = m.pids[q]
    <3>1. PidTable(m.pids) /\ r.pids = Without(m.pids, p)
      BY <2>1 DEF GoodMap
    <3> HIDE DEF r
    <3>2. /\ PidTable(Without(m.pids, p))
          /\ DOMAIN Without(m.pids, p) = DOMAIN m.pids \ {p}
          /\ \A q \in DOMAIN m.pids \ {p} : Without(m.pids, p)[q] = m.pids[q]
      BY <3>1, WithoutPid
    <3> QED BY <3>1, <3>2
  <2>3. /\ UidTable(r.uids) /\ DOMAIN r.uids = DOMAIN m.uids \ {uid}
        /\ \A v \in DOMAIN r.uids : r.uids[v] = m.uids[v]
    <3>1. UidTable(m.uids) /\ r.uids = Without(m.uids, uid)
      BY <2>1 DEF GoodMap
    <3> HIDE DEF r, uid
    <3>2. /\ UidTable(Without(m.uids, uid))
          /\ DOMAIN Without(m.uids, uid) = DOMAIN m.uids \ {uid}
          /\ \A v \in DOMAIN m.uids \ {uid} : Without(m.uids, uid)[v] = m.uids[v]
      BY <3>1, WithoutUid
    <3> QED BY <3>1, <3>2
  <2> HIDE DEF r
  <2>4. InverseTables(r)
    <3>1. \A q \in DOMAIN r.pids : m.pids[q].uid # uid
      BY <1>2, <2>2, UidBack
    <3>2. \A v \in DOMAIN r.uids : m.uids[v].pid # p
      BY <1>2, <2>3, NoPidIsZero DEF GoodMap, InverseTables, PidTable
    <3>3. ASSUME NEW q \in DOMAIN r.pids
          PROVE  /\ r.pids[q].uid \in DOMAIN r.uids
                 /\ r.uids[r.pids[q].uid] = m.uids[m.pids[q].uid]
                 /\ r.pids[q] = m.pids[q] /\ q \in DOMAIN m.pids
      <4>1. m.pids[q].uid \in DOMAIN m.uids
        BY <2>2, TablesAgree
      <4> QED BY <2>2, <2>3, <3>1, <4>1
    <3>4. \A q \in DOMAIN r.pids :
             /\ r.pids[q].uid \in DOMAIN r.uids
             /\ r.uids[r.pids[q].uid].pid = q
             /\ r.uids[r.pids[q].uid].archived = r.pids[q].archived
             /\ r.uids[r.pids[q].uid].touched = r.pids[q].touched
      <4> SUFFICES ASSUME NEW q \in DOMAIN r.pids
                   PROVE  /\ r.pids[q].uid \in DOMAIN r.uids
                          /\ r.uids[r.pids[q].uid].pid = q
                          /\ r.uids[r.pids[q].uid].archived = r.pids[q].archived
                          /\ r.uids[r.pids[q].uid].touched = r.pids[q].touched
        OBVIOUS
      <4>1. /\ m.uids[m.pids[q].uid].pid = q
            /\ m.uids[m.pids[q].uid].archived = m.pids[q].archived
            /\ m.uids[m.pids[q].uid].touched = m.pids[q].touched
        BY <3>3, TablesAgree
      <4>2. /\ r.pids[q].uid \in DOMAIN r.uids
            /\ r.uids[r.pids[q].uid] = m.uids[m.pids[q].uid]
            /\ r.pids[q] = m.pids[q]
        BY <3>3
      <4> QED BY ONLY <4>1, <4>2
    <3>5. ASSUME NEW v \in DOMAIN r.uids, r.uids[v].pid # 0
          PROVE  r.uids[v].pid \in DOMAIN r.pids /\ r.pids[r.uids[v].pid].uid = v
      <4>1. m.uids[v].pid \in DOMAIN m.pids /\ m.pids[m.uids[v].pid].uid = v
        BY <2>3, <3>5, PairedBack
      <4> QED BY <2>2, <2>3, <3>2, <4>1
    <3>6. PidTable(r.pids) /\ UidTable(r.uids)
      BY <2>2, <2>3
    <3> QED BY ONLY <3>4, <3>5, <3>6, InverseIfFields
  <2>5. \A v \in DOMAIN r.uids : r.uids[v].pid # p
    BY <1>2, <2>3, NoPidIsZero DEF GoodMap, InverseTables, PidTable
  <2> QED BY <2>1, <2>2, <2>3, <2>4, <2>5 DEF GoodMap, r
<1> QED BY <1>1, <1>2

(* remove_by_uid, of which remove_by_pid is the mirror image.               *)
LEMMA RemoveByUidGood ==
  ASSUME NEW m, GoodMap(m), NEW u
  PROVE  /\ GoodMap(RemoveByUid(m, u))
         /\ u \notin DOMAIN RemoveByUid(m, u).uids
         /\ DOMAIN RemoveByUid(m, u).pids \subseteq DOMAIN m.pids
<1>1. CASE u \notin DOMAIN m.uids
  BY <1>1 DEF RemoveByUid
<1>2. CASE u \in DOMAIN m.uids
  <2> DEFINE r == RemoveByUid(m, u)
             pid == m.uids[u].pid
  <2>1. r = [pids |-> Without(m.pids, pid), uids |-> Without(m.uids, u),
             touchedOnly |-> m.touchedOnly]
    BY <1>2 DEF RemoveByUid, GoodMap
  <2>2. /\ PidTable(r.pids) /\ DOMAIN r.pids = DOMAIN m.pids \ {pid}
        /\ \A q \in DOMAIN r.pids : r.pids[q] = m.pids[q]
    <3>1. PidTable(m.pids) /\ r.pids = Without(m.pids, pid)
      BY <2>1 DEF GoodMap
    <3> HIDE DEF r, pid
    <3>2. /\ PidTable(Without(m.pids, pid))
          /\ DOMAIN Without(m.pids, pid) = DOMAIN m.pids \ {pid}
          /\ \A q \in DOMAIN m.pids \ {pid} : Without(m.pids, pid)[q] = m.pids[q]
      BY <3>1, WithoutPid
    <3> QED BY <3>1, <3>2
  <2>3. /\ UidTable(r.uids) /\ DOMAIN r.uids = DOMAIN m.uids \ {u}
        /\ \A v \in DOMAIN r.uids : r.uids[v] = m.uids[v]
    <3>1. UidTable(m.uids) /\ r.uids = Without(m.uids, u)
      BY <2>1 DEF GoodMap
    <3> HIDE DEF r
    <3>2. /\ UidTable(Without(m.uids, u))
          /\ DOMAIN Without(m.uids, u) = DOMAIN m.uids \ {u}
          /\ \A v \in DOMAIN m.uids \ {u} : Without(m.uids, u)[v] = m.uids[v]
      BY <3>1, WithoutUid
    <3> QED BY <3>1, <3>2
  <2> HIDE DEF r
  <2>4. InverseTables(r)
    <3>1. \A q \in DOMAIN r.pids : m.pids[q].uid # u
      BY <1>2, <2>2, UidBack
    <3>2. \A v \in DOMAIN r.uids : m.uids[v].pid # pid \/ m.uids[v].pid = 0
      BY <1>2, <2>3, PairedBack
    <3>3. ASSUME NEW q \in DOMAIN r.pids
          PROVE  /\ r.pids[q].uid \in DOMAIN r.uids
                 /\ r.uids[r.pids[q].uid] = m.uids[m.pids[q].uid]
                 /\ r.pids[q] = m.pids[q] /\ q \in DOMAIN m.pids
      <4>1. m.pids[q].uid \in DOMAIN m.uids
        BY <2>2, UidBack
      <4> QED BY <2>2, <2>3, <3>1, <4>1
    <3>4. \A q \in DOMAIN m.pids :
             /\ m.uids[m.pids[q].uid].pid = q
             /\ m.uids[m.pids[q].uid].archived = m.pids[q].archived
             /\ m.uids[m.pids[q].uid].touched = m.pids[q].touched
      BY TablesAgree
    <3>5. ASSUME NEW v \in DOMAIN r.uids, r.uids[v].pid # 0
          PROVE  r.uids[v].pid \in DOMAIN r.pids /\ r.pids[r.uids[v].pid].uid = v
      <4>1. m.uids[v].pid \in DOMAIN m.pids /\ m.pids[m.uids[v].pid].uid = v
        BY <2>3, <3>5, PairedBack
      <4> QED BY <2>2, <2>3, <3>2, <3>5, <4>1
    <3>6. \A q \in DOMAIN r.pids :
             /\ r.pids[q].uid \in DOMAIN r.uids
             /\ r.uids[r.pids[q].uid].pid = q
             /\ r.uids[r.pids[q].uid].archived = r.pids[q].archived
             /\ r.uids[r.pids[q].uid].touched = r.pids[q].touched
      BY ONLY <3>3, <3>4
    <3>7. PidTable(r.pids) /\ UidTable(r.uids)
      BY <2>2, <2>3
    <3> QED BY ONLY <3>5, <3>6, <3>7, InverseIfFields
  <2> QED BY <2>1, <2>2, <2>3, <2>4 DEF GoodMap, r
<1> QED BY <1>1, <1>2

(* real_e_pilot_map_insert, of an id and a uid that have no partner.        *)
LEMMA RealInsertGood ==
  ASSUME NEW m, GoodMap(m), NEW p \in Pids \cup {0}, NEW u \in Uids,
         NEW a \in BOOLEAN, NEW t \in BOOLEAN,
         p \notin DOMAIN m.pids, u \notin DOMAIN m.uids
  PROVE  GoodMap(RealInsert(m, p, u, a, t))
<1> DEFINE r == RealInsert(m, p, u, a, t)
           pidNode == [uid |-> u, archived |-> a, touched |-> t]
           uidNode == [pid |-> p, archived |-> a, touched |-> t]
<1>1. pidNode \in PidNode /\ uidNode \in UidNode
  BY DEF PidNode, UidNode
<1>2. r = [pids |-> IF p = 0 THEN m.pids ELSE Put(m.pids, p, pidNode),
           uids |-> Put(m.uids, u, uidNode), touchedOnly |-> m.touchedOnly]
  <2>1. m = [pids |-> m.pids, uids |-> m.uids, touchedOnly |-> m.touchedOnly]
    BY DEF GoodMap
  <2> HIDE DEF GoodMap
  <2>2. \A P, U, x : x = [m EXCEPT !.pids = P, !.uids = U] =>
                     x = [pids |-> P, uids |-> U, touchedOnly |-> m.touchedOnly]
    BY <2>1, NewTables
  <2>3. r = [m EXCEPT !.pids = IF p = 0 THEN m.pids ELSE Put(m.pids, p, pidNode),
                      !.uids = Put(m.uids, u, uidNode)]
    BY Zenon DEF RealInsert
  <2> HIDE DEF r, pidNode, uidNode
  <2> QED BY <2>2, <2>3, Zenon
<1>3. PidTable(m.pids) /\ UidTable(m.uids)
  BY DEF GoodMap
<1> HIDE DEF r, pidNode, uidNode
<1>4. /\ UidTable(r.uids) /\ DOMAIN r.uids = DOMAIN m.uids \cup {u}
      /\ \A v \in DOMAIN r.uids : r.uids[v] = IF v = u THEN uidNode ELSE m.uids[v]
  BY <1>1, <1>2, <1>3, PutUid
<1>5. CASE p = 0
  <2>1. r.pids = m.pids
    BY <1>2, <1>5
  <2>2. InverseTables(r)
    <3>1. \A v \in DOMAIN m.uids : r.uids[v] = m.uids[v]
      BY <1>4
    <3>2. r.uids[u].pid = 0 /\ u \in DOMAIN r.uids
      BY <1>4, <1>5 DEF uidNode
    <3>3. \A q \in DOMAIN r.pids :
             /\ r.pids[q].uid \in DOMAIN r.uids
             /\ r.uids[r.pids[q].uid].pid = q
             /\ r.uids[r.pids[q].uid].archived = r.pids[q].archived
             /\ r.uids[r.pids[q].uid].touched = r.pids[q].touched
      <4>1. ASSUME NEW q \in DOMAIN m.pids
            PROVE  /\ r.pids[q] = m.pids[q] /\ m.pids[q].uid \in DOMAIN r.uids
                   /\ r.uids[m.pids[q].uid] = m.uids[m.pids[q].uid]
        <5>1. m.pids[q].uid \in DOMAIN m.uids
          BY UidBack
        <5> QED BY <1>4, <2>1, <3>1, <5>1
      <4>2. \A q \in DOMAIN m.pids :
               /\ m.uids[m.pids[q].uid].pid = q
               /\ m.uids[m.pids[q].uid].archived = m.pids[q].archived
               /\ m.uids[m.pids[q].uid].touched = m.pids[q].touched
        BY TablesAgree
      <4>3. \A q \in DOMAIN m.pids :
               /\ r.pids[q].uid \in DOMAIN r.uids
               /\ r.uids[r.pids[q].uid].pid = q
               /\ r.uids[r.pids[q].uid].archived = r.pids[q].archived
               /\ r.uids[r.pids[q].uid].touched = r.pids[q].touched
        <5> SUFFICES ASSUME NEW q \in DOMAIN m.pids
                     PROVE  /\ r.pids[q].uid \in DOMAIN r.uids
                            /\ r.uids[r.pids[q].uid].pid = q
                            /\ r.uids[r.pids[q].uid].archived = r.pids[q].archived
                            /\ r.uids[r.pids[q].uid].touched = r.pids[q].touched
          OBVIOUS
        <5>1. /\ r.pids[q] = m.pids[q] /\ m.pids[q].uid \in DOMAIN r.uids
              /\ r.uids[m.pids[q].uid] = m.uids[m.pids[q].uid]
          BY <4>1
        <5> QED BY ONLY <4>2, <5>1, q \in DOMAIN m.pids
      <4> QED BY ONLY <2>1, <4>3
    <3>4. \A v \in DOMAIN r.uids :
             r.uids[v].pid # 0 => /\ r.uids[v].pid \in DOMAIN r.pids
                                  /\ r.pids[r.uids[v].pid].uid = v
      BY <1>4, <2>1, <3>1, <3>2, PairedBack
    <3> QED BY ONLY <1>3, <1>4, <2>1, <3>3, <3>4, InverseIfFields
  <2> QED BY <1>2, <1>3, <1>4, <2>1, <2>2 DEF GoodMap, r
<1>6. CASE p # 0
  <2>1. /\ PidTable(r.pids) /\ DOMAIN r.pids = DOMAIN m.pids \cup {p}
        /\ \A q \in DOMAIN r.pids : r.pids[q] = IF q = p THEN pidNode ELSE m.pids[q]
    <3>1. p \in Pids /\ r.pids = Put(m.pids, p, pidNode)
      BY <1>2, <1>6
    <3>2. \A P, R : PidTable(P) /\ R = Put(P, p, pidNode) =>
             /\ PidTable(R) /\ DOMAIN R = DOMAIN P \cup {p}
             /\ R[p] = pidNode
             /\ \A q \in DOMAIN P : q # p => R[q] = P[q]
      BY <1>1, <3>1, PutPid
    <3>3. /\ PidTable(r.pids) /\ DOMAIN r.pids = DOMAIN m.pids \cup {p}
          /\ r.pids[p] = pidNode
          /\ \A q \in DOMAIN m.pids : q # p => r.pids[q] = m.pids[q]
      BY <1>3, <3>1, <3>2
    <3> QED BY <3>3
  <2>2. InverseTables(r)
    <3>1. \A q \in DOMAIN m.pids : m.pids[q].uid # u
      BY UidBack
    <3>2. \A v \in DOMAIN m.uids : m.uids[v].pid # p
      BY <1>6, PairedBack
    <3>3. /\ \A v \in DOMAIN m.uids : r.uids[v] = m.uids[v]
          /\ \A q \in DOMAIN m.pids : r.pids[q] = m.pids[q]
      BY <1>4, <2>1
    <3>4. /\ u \in DOMAIN r.uids /\ r.uids[u].pid = p
          /\ r.uids[u].archived = a /\ r.uids[u].touched = t
      BY <1>4 DEF uidNode
    <3>5. /\ p \in DOMAIN r.pids /\ r.pids[p].uid = u
          /\ r.pids[p].archived = a /\ r.pids[p].touched = t
      BY <2>1 DEF pidNode
    <3>6. \A q \in DOMAIN r.pids :
             /\ r.pids[q].uid \in DOMAIN r.uids
             /\ r.uids[r.pids[q].uid].pid = q
             /\ r.uids[r.pids[q].uid].archived = r.pids[q].archived
             /\ r.uids[r.pids[q].uid].touched = r.pids[q].touched
      <4>1. CASE \A q \in DOMAIN r.pids : q = p \/ q \in DOMAIN m.pids
        <5> SUFFICES ASSUME NEW q \in DOMAIN m.pids
                     PROVE  /\ r.pids[q].uid \in DOMAIN r.uids
                            /\ r.uids[r.pids[q].uid].pid = q
                            /\ r.uids[r.pids[q].uid].archived = r.pids[q].archived
                            /\ r.uids[r.pids[q].uid].touched = r.pids[q].touched
          BY <3>4, <3>5, <4>1
        <5>1. m.pids[q].uid \in DOMAIN m.uids /\ r.pids[q] = m.pids[q]
          BY <3>3, TablesAgree
        <5>2. m.pids[q].uid \in DOMAIN r.uids /\ r.uids[m.pids[q].uid] = m.uids[m.pids[q].uid]
          BY <1>4, <3>3, <5>1
        <5>3. /\ m.uids[m.pids[q].uid].pid = q
              /\ m.uids[m.pids[q].uid].archived = m.pids[q].archived
              /\ m.uids[m.pids[q].uid].touched = m.pids[q].touched
          BY TablesAgree
        <5> QED BY ONLY <5>1, <5>2, <5>3
      <4> QED BY <2>1, <4>1
    <3>7. \A v \in DOMAIN r.uids :
             r.uids[v].pid # 0 => /\ r.uids[v].pid \in DOMAIN r.pids
                                  /\ r.pids[r.uids[v].pid].uid = v
      <4>1. ASSUME NEW v \in DOMAIN m.uids, r.uids[v].pid # 0
            PROVE  r.uids[v].pid \in DOMAIN r.pids /\ r.pids[r.uids[v].pid].uid = v
        BY <2>1, <3>3, <4>1, PairedBack
      <4>2. \A v \in DOMAIN r.uids : v = u \/ v \in DOMAIN m.uids
        BY <1>4
      <4> QED BY <3>4, <3>5, <4>1, <4>2
    <3> QED BY ONLY <1>4, <2>1, <3>6, <3>7, InverseIfFields
  <2> QED BY <1>2, <1>3, <1>4, <2>1, <2>2 DEF GoodMap, r
<1> QED BY <1>5, <1>6

(* e_pilot_map_insert                                                       *)
LEMMA InsertGood ==
  ASSUME NEW m, GoodMap(m), NEW p \in Pids \cup {0}, NEW u \in Uids, NEW a \in BOOLEAN
  PROVE  GoodMap(Insert(m, p, u, a))
<1> DEFINE first == RemoveByPid(m, p)
           second == RemoveByUid(first, u)
<1>1. GoodMap(first) /\ p \notin DOMAIN first.pids
  BY RemoveByPidGood
<1>2. GoodMap(second) /\ u \notin DOMAIN second.uids /\ p \notin DOMAIN second.pids
  BY <1>1, RemoveByUidGood
<1> HIDE DEF first, second
<1>3. GoodMap(RealInsert(second, p, u, a, TRUE))
  BY <1>2, RealInsertGood
<1> QED BY <1>3 DEF Insert, first, second

(* A look-up touches both entries of a pair, or the one of a uid without a  *)
(* PDA id.                                                                  *)
LEMMA TouchGood ==
  ASSUME NEW m, GoodMap(m), NEW p, NEW u \in DOMAIN m.uids, m.uids[u].pid = p
  PROVE  GoodMap(Touch(m, p, u))
<1> DEFINE r == Touch(m, p, u)
<1>1. r = [pids |-> [q \in DOMAIN m.pids |-> IF q = p THEN [m.pids[q] EXCEPT !.touched = TRUE]
                                             ELSE m.pids[q]],
           uids |-> [v \in DOMAIN m.uids |-> IF v = u THEN [m.uids[v] EXCEPT !.touched = TRUE]
                                             ELSE m.uids[v]],
           touchedOnly |-> m.touchedOnly]
  BY NewTables, Zenon DEF Touch, GoodMap
<1>2. PidTable(m.pids) /\ UidTable(m.uids)
  BY DEF GoodMap
<1>3. /\ DOMAIN r.pids = DOMAIN m.pids /\ PidTable(r.pids)
      /\ \A q \in DOMAIN m.pids :
           /\ r.pids[q].uid = m.pids[q].uid
           /\ r.pids[q].archived = m.pids[q].archived
           /\ r.pids[q].touched = IF q = p THEN TRUE ELSE m.pids[q].touched
  <2>1. /\ DOMAIN r.pids = DOMAIN m.pids
        /\ r.pids = [q \in DOMAIN m.pids |-> r.pids[q]]
        /\ \A q \in DOMAIN m.pids :
             r.pids[q] = IF q = p THEN [m.pids[q] EXCEPT !.touched = TRUE] ELSE m.pids[q]
    BY <1>1
  <2> HIDE DEF r
  <2>2. ASSUME NEW q \in DOMAIN m.pids
        PROVE  /\ r.pids[q].uid = m.pids[q].uid
               /\ r.pids[q].archived = m.pids[q].archived
               /\ r.pids[q].touched = IF q = p THEN TRUE ELSE m.pids[q].touched
               /\ r.pids[q] \in PidNode
    <3>1. m.pids[q] \in PidNode
      BY <1>2 DEF PidTable
    <3> QED BY <2>1, <3>1 DEF PidNode
  <2> QED BY <1>2, <2>1, <2>2 DEF PidTable
<1>4. /\ DOMAIN r.uids = DOMAIN m.uids /\ UidTable(r.uids)
      /\ \A v \in DOMAIN m.uids :
           /\ r.uids[v].pid = m.uids[v].pid
           /\ r.uids[v].archived = m.uids[v].archived
           /\ r.uids[v].touched = IF v = u THEN TRUE ELSE m.uids[v].touched
  <2>1. /\ DOMAIN r.uids = DOMAIN m.uids
        /\ r.uids = [v \in DOMAIN m.uids |-> r.uids[v]]
        /\ \A v \in DOMAIN m.uids :
             r.uids[v] = IF v = u THEN [m.uids[v] EXCEPT !.touched = TRUE] ELSE m.uids[v]
    BY <1>1
  <2> HIDE DEF r
  <2>2. ASSUME NEW v \in DOMAIN m.uids
        PROVE  /\ r.uids[v].pid = m.uids[v].pid
               /\ r.uids[v].archived = m.uids[v].archived
               /\ r.uids[v].touched = IF v = u THEN TRUE ELSE m.uids[v].touched
               /\ r.uids[v] \in UidNode
    <3>1. m.uids[v] \in UidNode
      BY <1>2 DEF UidTable
    <3> QED BY <2>1, <3>1 DEF UidNode
  <2> QED BY <1>2, <2>1, <2>2 DEF UidTable
<1> HIDE DEF r
<1>5. \A q \in DOMAIN m.pids : (q = p) <=> (m.pids[q].uid = u)
  BY UidBack, PairedBack
<1>6. InverseTables(r)
  <2>1. ASSUME NEW q \in DOMAIN r.pids
        PROVE  /\ r.pids[q].uid \in DOMAIN r.uids
               /\ r.uids[r.pids[q].uid].pid = q
               /\ r.uids[r.pids[q].uid].archived = r.pids[q].archived
               /\ r.uids[r.pids[q].uid].touched = r.pids[q].touched
    <3>1. q \in DOMAIN m.pids /\ r.pids[q].uid = m.pids[q].uid
      BY <1>3
    <3>2. /\ m.pids[q].uid \in DOMAIN m.uids
          /\ m.uids[m.pids[q].uid].pid = q
          /\ m.uids[m.pids[q].uid].archived = m.pids[q].archived
          /\ m.uids[m.pids[q].uid].touched = m.pids[q].touched
      BY <3>1, InverseFacts
    <3>3. (q = p) <=> (m.pids[q].uid = u)
      BY <1>5, <3>1
    <3>4. /\ r.pids[q].archived = m.pids[q].archived
          /\ r.pids[q].touched = IF q = p THEN TRUE ELSE m.pids[q].touched
      BY <1>3, <3>1
    <3>5. /\ r.uids[m.pids[q].uid].pid = q
          /\ r.uids[m.pids[q].uid].archived = m.pids[q].archived
          /\ r.uids[m.pids[q].uid].touched =
               IF m.pids[q].uid = u THEN TRUE ELSE m.uids[m.pids[q].uid].touched
      BY <1>4, <3>2
    <3>6. m.pids[q].uid \in DOMAIN r.uids
      BY <1>4, <3>2
    <3> QED BY <3>1, <3>2, <3>3, <3>4, <3>5, <3>6
  <2>2. ASSUME NEW v \in DOMAIN r.uids, r.uids[v].pid # 0
        PROVE  /\ r.uids[v].pid \in DOMAIN r.pids
               /\ r.pids[r.uids[v].pid].uid = v
    <3>1. v \in DOMAIN m.uids /\ r.uids[v].pid = m.uids[v].pid /\ m.uids[v].pid # 0
      BY <1>4, <2>2
    <3>2. m.uids[v].pid \in DOMAIN m.pids /\ m.pids[m.uids[v].pid].uid = v
      BY <3>1, PairedBack
    <3>3. \A q \in DOMAIN m.pids : q \in DOMAIN r.pids /\ r.pids[q].uid = m.pids[q].uid
      BY <1>3
    <3> QED BY ONLY <3>1, <3>2, <3>3
  <2>3. PidTable(r.pids) /\ UidTable(r.uids)
    BY <1>3, <1>4
  <2> QED BY ONLY <2>1, <2>2, <2>3, InverseIfFields
<1>7. r = [pids |-> r.pids, uids |-> r.uids, touchedOnly |-> r.touchedOnly]
  BY <1>1
<1> QED BY <1>3, <1>4, <1>6, <1>7 DEF GoodMap, r

LEMMA TouchByUidGood ==
  ASSUME NEW m, GoodMap(m), NEW u
  PROVE  GoodMap(TouchByUid(m, u))
BY TouchGood DEF TouchByUid

LEMMA TouchByPidGood ==
  ASSUME NEW m, GoodMap(m), NEW p
  PROVE  GoodMap(TouchByPid(m, p))
<1>1. CASE p \in DOMAIN m.pids
  <2>1. m.pids[p].uid \in DOMAIN m.uids /\ m.uids[m.pids[p].uid].pid = p
    BY <1>1, UidBack
  <2>2. GoodMap(Touch(m, p, m.pids[p].uid))
    BY <2>1, TouchGood
  <2> QED BY <1>1, <2>2 DEF TouchByPid
<1> QED BY <1>1 DEF TouchByPid

(* The calendar forgets archived objects it has split.                      *)
LEMMA ForgetArchivedGood ==
  ASSUME NEW m, GoodMap(m), NEW gone \in SUBSET DOMAIN m.uids
  PROVE  GoodMap(ForgetArchived(m, gone))
<1> DEFINE r == ForgetArchived(m, gone)
           old == {u \in gone : m.uids[u].archived}
           oldPids == {m.uids[u].pid : u \in old}
<1>1. r = [pids |-> [p \in DOMAIN m.pids \ oldPids |-> m.pids[p]],
           uids |-> [u \in DOMAIN m.uids \ old |-> m.uids[u]],
           touchedOnly |-> m.touchedOnly]
  <2>1. m = [pids |-> m.pids, uids |-> m.uids, touchedOnly |-> m.touchedOnly]
    BY DEF GoodMap
  <2>2. \A P, U, x : x = [m EXCEPT !.uids = U, !.pids = P] =>
                     x = [pids |-> P, uids |-> U, touchedOnly |-> m.touchedOnly]
    <3> TAKE P, U, x
    <3> HAVE x = [m EXCEPT !.uids = U, !.pids = P]
    <3> QED BY <2>1
  <2>3. r = [m EXCEPT !.uids = [u \in DOMAIN m.uids \ old |-> m.uids[u]],
                      !.pids = [p \in DOMAIN m.pids \ oldPids |-> m.pids[p]]]
    BY Zenon DEF ForgetArchived
  <2> HIDE DEF r, old, oldPids
  <2> QED BY <2>2, <2>3, Zenon
<1>2. PidTable(m.pids) /\ UidTable(m.uids)
  BY DEF GoodMap
<1>3. \A u \in old : u \in DOMAIN m.uids /\ m.uids[u].pid \in oldPids
  OBVIOUS
<1>4. \A p \in oldPids : \E u \in old : m.uids[u].pid = p
  OBVIOUS
<1> HIDE DEF old, oldPids
<1>5. /\ DOMAIN r.pids = DOMAIN m.pids \ oldPids /\ PidTable(r.pids)
      /\ \A q \in DOMAIN r.pids : r.pids[q] = m.pids[q]
  BY <1>1, <1>2 DEF PidTable
<1>6. /\ DOMAIN r.uids = DOMAIN m.uids \ old /\ UidTable(r.uids)
      /\ \A v \in DOMAIN r.uids : r.uids[v] = m.uids[v]
  BY <1>1, <1>2 DEF UidTable
<1>7. r = [pids |-> r.pids, uids |-> r.uids, touchedOnly |-> r.touchedOnly]
  BY <1>1
<1> HIDE DEF r
<1>8. \A q \in DOMAIN r.pids : m.pids[q].uid \notin old
  BY <1>3, <1>5, UidBack
<1>9. \A v \in DOMAIN r.uids : m.uids[v].pid # 0 => m.uids[v].pid \notin oldPids
  BY <1>3, <1>4, <1>6, PairedBack
<1>10. InverseTables(r)
  <2>1. ASSUME NEW q \in DOMAIN r.pids
        PROVE  /\ r.pids[q].uid \in DOMAIN r.uids
               /\ r.uids[r.pids[q].uid] = m.uids[m.pids[q].uid]
               /\ r.pids[q] = m.pids[q] /\ q \in DOMAIN m.pids
    <3>1. m.pids[q].uid \in DOMAIN m.uids
      BY <1>5, UidBack
    <3> QED BY <1>5, <1>6, <1>8, <3>1
  <2>2. \A q \in DOMAIN m.pids :
           /\ m.uids[m.pids[q].uid].pid = q
           /\ m.uids[m.pids[q].uid].archived = m.pids[q].archived
           /\ m.uids[m.pids[q].uid].touched = m.pids[q].touched
    BY TablesAgree
  <2>3. ASSUME NEW v \in DOMAIN r.uids, r.uids[v].pid # 0
        PROVE  r.uids[v].pid \in DOMAIN r.pids /\ r.pids[r.uids[v].pid].uid = v
    <3>1. m.uids[v].pid \in DOMAIN m.pids /\ m.pids[m.uids[v].pid].uid = v
      BY <1>6, <2>3, PairedBack
    <3> QED BY <1>5, <1>6, <1>9, <2>3, <3>1
  <2> QED BY ONLY <1>5, <1>6, <2>1, <2>2, <2>3, InverseIfFields
<1> QED BY <1>5, <1>6, <1>7, <1>10 DEF GoodMap, r

---------------------------------------------------------------------------

(* A map file as it is read: no PDA id is named twice.                      *)
GoodFile(f) ==
  /\ DOMAIN f \subseteq Uids
  /\ f \in [DOMAIN f -> Entry]
  /\ FileInjective(f)

(* e_pilot_map_write: what is written of a map is such a file.              *)
LEMMA WriteMapGood ==
  ASSUME NEW m, GoodMap(m)
  PROVE  GoodFile(WriteMap(m))
<1> DEFINE f == WriteMap(m)
<1>1. Written(m) \subseteq DOMAIN m.uids
  BY DEF Written
<1>2. /\ DOMAIN f = Written(m)
      /\ \A u \in Written(m) :
           f[u] = [pid |-> IF m.uids[u].archived THEN 0 ELSE m.uids[u].pid,
                   archived |-> m.uids[u].archived]
  BY DEF WriteMap
<1>3. \A u \in Written(m) : /\ f[u] \in Entry
                            /\ f[u].pid \in {0, m.uids[u].pid}
  <2> SUFFICES ASSUME NEW u \in Written(m)
               PROVE  f[u] \in Entry /\ f[u].pid \in {0, m.uids[u].pid}
    OBVIOUS
  <2>1. m.uids[u] \in UidNode
    BY <1>1, InverseFacts
  <2>2. m.uids[u].pid \in Pids \cup {0} /\ m.uids[u].archived \in BOOLEAN
    BY <2>1 DEF UidNode
  <2> QED BY <1>2, <2>2 DEF Entry
<1>4. f = [u \in DOMAIN f |-> f[u]]
  BY DEF WriteMap
<1> HIDE DEF f
<1>5. FileInjective(f)
  <2> SUFFICES ASSUME NEW u \in Written(m), NEW v \in Written(m),
                      f[u].pid = f[v].pid, f[u].pid # 0
               PROVE  u = v
    BY <1>2 DEF FileInjective
  <2>1. m.uids[u].pid = m.uids[v].pid /\ m.uids[u].pid # 0
    BY <1>3
  <2> QED BY <1>1, <2>1, PairedBack
<1>6. DOMAIN f \subseteq Uids
  BY <1>1, <1>2, InverseFacts
<1>7. f \in [DOMAIN f -> Entry]
  BY <1>2, <1>3, <1>4
<1> QED BY <1>5, <1>6, <1>7 DEF GoodFile, f

(* e_pilot_map_read: such a file gives a map with inverse tables.           *)
LEMMA ReadMapGood ==
  ASSUME NEW f, GoodFile(f)
  PROVE  GoodMap(ReadMap(f))
<1> DEFINE r == ReadMap(f)
           named == {f[u].pid : u \in Accepted(f)} \ {0}
           Owner(p) == CHOOSE u \in Accepted(f) : f[u].pid = p
<1>1. r = [pids |-> [p \in named |-> [uid |-> Owner(p), archived |-> f[Owner(p)].archived,
                                      touched |-> FALSE]],
           uids |-> [u \in Accepted(f) |-> [pid |-> f[u].pid, archived |-> f[u].archived,
                                           touched |-> FALSE]],
           touchedOnly |-> FALSE]
  BY DEF ReadMap
<1>2. Accepted(f) \subseteq DOMAIN f /\ DOMAIN f \subseteq Uids
  BY DEF Accepted, GoodFile
<1>3. \A p \in named : Owner(p) \in Accepted(f) /\ f[Owner(p)].pid = p
  OBVIOUS
<1>4. \A u \in DOMAIN f : f[u].pid \in Pids \cup {0} /\ f[u].archived \in BOOLEAN
  <2>1. \A u \in DOMAIN f : f[u] \in Entry
    BY DEF GoodFile
  <2> QED BY <2>1 DEF Entry
<1>5. named \subseteq Pids
  BY <1>2, <1>4
<1>6. \A u \in Accepted(f) : f[u].pid # 0 => f[u].pid \in named /\ Owner(f[u].pid) = u
  <2> SUFFICES ASSUME NEW u \in Accepted(f), f[u].pid # 0
               PROVE  f[u].pid \in named /\ Owner(f[u].pid) = u
    OBVIOUS
  <2>1. f[u].pid \in named
    OBVIOUS
  <2>2. Owner(f[u].pid) \in Accepted(f) /\ f[Owner(f[u].pid)].pid = f[u].pid
    BY <1>3, <2>1
  <2> HIDE DEF Owner, named
  <2> QED BY <1>2, <2>1, <2>2 DEF GoodFile, FileInjective
<1>7. \A p \in named : p # 0
  OBVIOUS
<1> HIDE DEF named, Owner
<1>8. /\ DOMAIN r.pids = named
      /\ \A p \in named : r.pids[p] = [uid |-> Owner(p), archived |-> f[Owner(p)].archived,
                                       touched |-> FALSE]
      /\ r.pids = [p \in named |-> r.pids[p]]
  BY <1>1
<1>9. /\ DOMAIN r.uids = Accepted(f)
      /\ \A u \in Accepted(f) : r.uids[u] = [pid |-> f[u].pid, archived |-> f[u].archived,
                                             touched |-> FALSE]
      /\ r.uids = [u \in Accepted(f) |-> r.uids[u]]
  BY <1>1
<1>10. r = [pids |-> r.pids, uids |-> r.uids, touchedOnly |-> r.touchedOnly]
  BY <1>1
<1> HIDE DEF r
<1>11. PidTable(r.pids)
  <2>1. \A p \in named : r.pids[p] \in PidNode
    <3> SUFFICES ASSUME NEW p \in named PROVE r.pids[p] \in PidNode
      OBVIOUS
    <3>1. Owner(p) \in DOMAIN f /\ Owner(p) \in Uids
      BY <1>2, <1>3
    <3>2. f[Owner(p)].archived \in BOOLEAN
      BY <1>4, <3>1
    <3>3. [uid |-> Owner(p), archived |-> f[Owner(p)].archived, touched |-> FALSE] \in PidNode
      BY <3>1, <3>2 DEF PidNode
    <3> QED BY <1>8, <3>3
  <2> QED BY <1>5, <1>8, <2>1 DEF PidTable
<1>12. UidTable(r.uids)
  <2>1. \A u \in Accepted(f) : r.uids[u] \in UidNode
    <3> SUFFICES ASSUME NEW u \in Accepted(f) PROVE r.uids[u] \in UidNode
      OBVIOUS
    <3>1. f[u].pid \in Pids \cup {0} /\ f[u].archived \in BOOLEAN
      BY <1>2, <1>4
    <3>2. [pid |-> f[u].pid, archived |-> f[u].archived, touched |-> FALSE] \in UidNode
      BY <3>1 DEF UidNode
    <3> QED BY <1>9, <3>2
  <2> QED BY <1>2, <1>9, <2>1 DEF UidTable
<1>13. \A p \in named : /\ r.pids[p].uid = Owner(p)
                         /\ r.pids[p].archived = f[Owner(p)].archived
                         /\ r.pids[p].touched = FALSE
  <2> SUFFICES ASSUME NEW p \in named
               PROVE  /\ r.pids[p].uid = Owner(p)
                      /\ r.pids[p].archived = f[Owner(p)].archived
                      /\ r.pids[p].touched = FALSE
    OBVIOUS
  <2>1. r.pids[p] = [uid |-> Owner(p), archived |-> f[Owner(p)].archived, touched |-> FALSE]
    BY <1>8
  <2> QED BY <2>1
<1>14. \A u \in Accepted(f) : /\ r.uids[u].pid = f[u].pid
                              /\ r.uids[u].archived = f[u].archived
                              /\ r.uids[u].touched = FALSE
  <2> SUFFICES ASSUME NEW u \in Accepted(f)
               PROVE  /\ r.uids[u].pid = f[u].pid
                      /\ r.uids[u].archived = f[u].archived
                      /\ r.uids[u].touched = FALSE
    OBVIOUS
  <2>1. r.uids[u] = [pid |-> f[u].pid, archived |-> f[u].archived, touched |-> FALSE]
    BY <1>9
  <2> QED BY <2>1
<1>15. InverseTables(r)
  <2>1. ASSUME NEW p \in DOMAIN r.pids
        PROVE  /\ r.pids[p].uid \in DOMAIN r.uids
               /\ r.uids[r.pids[p].uid].pid = p
               /\ r.uids[r.pids[p].uid].archived = r.pids[p].archived
               /\ r.uids[r.pids[p].uid].touched = r.pids[p].touched
    <3>1. p \in named /\ Owner(p) \in Accepted(f) /\ f[Owner(p)].pid = p
      BY <1>3, <1>8
    <3> QED BY <1>9, <1>13, <1>14, <3>1
  <2>2. ASSUME NEW u \in DOMAIN r.uids, r.uids[u].pid # 0
        PROVE  /\ r.uids[u].pid \in DOMAIN r.pids
               /\ r.pids[r.uids[u].pid].uid = u
    <3>1. u \in Accepted(f) /\ r.uids[u].pid = f[u].pid /\ f[u].pid # 0
      BY <1>9, <1>14, <2>2
    <3>2. f[u].pid \in named /\ Owner(f[u].pid) = u
      BY <1>6, <3>1
    <3> QED BY <1>8, <1>13, <3>1, <3>2
  <2> QED BY <1>11, <1>12, <2>1, <2>2, InverseIfFields
<1> QED BY <1>10, <1>11, <1>12, <1>15 DEF GoodMap, r

---------------------------------------------------------------------------

(* The records of the PDA: their ids and flags.                             *)
GoodRecords(r) ==
  /\ DOMAIN r \subseteq Pids
  /\ \A p \in DOMAIN r : "flag" \in DOMAIN r[p] /\ r[p].flag \in Flags

(* What a session holds while it runs; P: records that are on the PDA.      *)
GoodSession(s, P) ==
  /\ {"map", "todo", "queue", "changed"} \subseteq DOMAIN s
  /\ GoodMap(s.map)
  /\ s.todo \subseteq P

(* The inductive invariant: the tables are inverse and hold ids and uids    *)
(* only, and so does what is still to be entered into them.                 *)
IInv ==
  /\ GoodRecords(pda)
  /\ GoodFile(file)
  /\ phase # "idle" => GoodSession(ses, DOMAIN pda)

(* A handler changes one field of the session at a time.                    *)
LEMMA SessionFields ==
  ASSUME NEW P, NEW s, GoodSession(s, P), NEW x
  PROVE  /\ GoodSession([s EXCEPT !.queue = x], P)
         /\ GoodSession([s EXCEPT !.changed = x], P)
         /\ x \subseteq P => GoodSession([s EXCEPT !.todo = x], P)
         /\ GoodMap(x) => GoodSession([s EXCEPT !.map = x], P)
BY DEF GoodSession

(* The handlers of single records.                                          *)
LEMMA ClearedGood ==
  ASSUME NEW P, NEW s, GoodSession(s, P), NEW u
  PROVE  GoodSession(Cleared(s, u), P)
BY SessionFields DEF Cleared

LEMMA SetPilotIdGood ==
  ASSUME NEW P, NEW s, GoodSession(s, P), NEW u \in Uids, NEW id \in Pids
  PROVE  GoodSession(SetPilotId(s, u, id), P)
<1>1. GoodMap(Insert(s.map, id, u, FALSE))
  BY InsertGood DEF GoodSession
<1> QED BY <1>1, SessionFields DEF SetPilotId

LEMMA ArchiveRecordGood ==
  ASSUME NEW P, NEW s, GoodSession(s, P), NEW u \in Uids
  PROVE  GoodSession(ArchiveRecord(s, u), P)
<1>1. GoodMap(s.map)
  BY DEF GoodSession
<1>2. LookupPid(s.map, u) \in Pids \cup {0}
  <2>1. CASE u \in DOMAIN s.map.uids
    <3>1. s.map.uids[u] \in UidNode
      BY <1>1, <2>1, InverseFacts
    <3> QED BY <2>1, <3>1 DEF LookupPid, UidNode
  <2> QED BY <2>1 DEF LookupPid
<1>3. GoodMap(Insert(s.map, LookupPid(s.map, u), u, TRUE))
  BY <1>1, <1>2, InsertGood
<1> QED BY <1>3, SessionFields DEF ArchiveRecord

LEMMA MatchGood ==
  ASSUME NEW P, NEW s, GoodSession(s, P), NEW p
  PROVE  GoodSession(Match(s, p), P)
<1>1. GoodMap(TouchByPid(s.map, p))
  BY TouchByPidGood DEF GoodSession
<1> QED BY <1>1, SessionFields DEF Match

LEMMA LocalRecordGood ==
  ASSUME NEW P, NEW s, GoodSession(s, P), NEW u
  PROVE  GoodSession(LocalRecord(s, u), P)
<1>1. GoodMap(TouchByUid(s.map, u))
  BY TouchByUidGood DEF GoodSession
<1> QED BY <1>1, SessionFields DEF LocalRecord

LEMMA AddRecordGood ==
  ASSUME NEW P, NEW s, GoodSession(s, P), NEW p \in Pids, AddRecord(s, p)
  PROVE  GoodSession(ses', P)
<1>1. GoodMap(Insert(s.map, p, NewUid, FALSE))
  BY InsertGood DEF GoodSession, AddRecord
<1> QED BY <1>1, SessionFields DEF AddRecord

LEMMA DeleteRecordGood ==
  ASSUME NEW P, NEW s, GoodSession(s, P), NEW u, DeleteRecord(s, u)
  PROVE  GoodSession(ses', P)
<1>1. GoodMap(RemoveByUid(s.map, u))
  BY RemoveByUidGood DEF GoodSession
<1> QED BY <1>1, SessionFields DEF DeleteRecord

---------------------------------------------------------------------------

LEMMA InitIInv == Init => IInv
BY DEF Init, IInv, GoodFile, FileInjective, NoEntries, GoodRecords

(* pre_sync, whatever the conduit: the map was read from the file.          *)
LEMMA BeginGood ==
  ASSUME IInv, phase = "loaded", NEW m, GoodMap(m), NEW comps, NEW changes,
         Begin(m, comps, changes)
  PROVE  GoodSession(ses', DOMAIN pda)
<1> DEFINE checked == CheckForSlow(m)
<1>1. GoodMap(checked.map)
  <2> DEFINE base == IF OtherSource(ses.cfg) THEN Clear(m) ELSE m
  <2>1. GoodMap(Clear(m))
    <3>1. Clear(m) = [m EXCEPT !.pids = NoEntries, !.uids = NoEntries]
      BY Zenon DEF Clear
    <3>2. m = [pids |-> m.pids, uids |-> m.uids, touchedOnly |-> m.touchedOnly]
      BY DEF GoodMap
    <3>3. Clear(m) = [pids |-> NoEntries, uids |-> NoEntries, touchedOnly |-> m.touchedOnly]
      BY <3>1, <3>2, NewTables
    <3> QED BY <3>3 DEF GoodMap, PidTable, UidTable, InverseTables, NoEntries
  <2>2. GoodMap(base)
    BY <2>1
  <2>3. \E b : checked.map = [base EXCEPT !.touchedOnly = b]
    BY DEF CheckForSlow
  <2> HIDE DEF base, checked
  <2>4. PICK b : checked.map = [base EXCEPT !.touchedOnly = b]
    BY <2>3
  <2>5. checked.map = [pids |-> base.pids, uids |-> base.uids, touchedOnly |-> b]
    BY <2>2, <2>4 DEF GoodMap
  <2>6. checked.map.pids = base.pids /\ checked.map.uids = base.uids
    BY <2>5
  <2>7. InverseTables(checked.map)
    BY <2>2, <2>6, SameTables DEF GoodMap
  <2> QED BY <2>2, <2>5, <2>6, <2>7 DEF GoodMap
<1>2. RecordsToTreat(checked.slow) \subseteq DOMAIN pda
  BY DEF RecordsToTreat
<1>3. GoodSession(ses, DOMAIN pda)
  BY DEF IInv
<1>4. ses' = [ses EXCEPT
          !.map = checked.map, !.slow = checked.slow,
          !.changed = ChangedHash(m, changes), !.listed = comps,
          !.queue = ObjectsToTreat(comps, changes),
          !.todo = RecordsToTreat(checked.slow)]
  BY DEF Begin
<1> HIDE DEF checked
<1> QED BY <1>1, <1>2, <1>3, <1>4 DEF GoodSession

LEMMA PreSyncIInv ==
  ASSUME IInv, PreSync
  PROVE  IInv'
<1>1. GoodMap(ReadMap(file))
  BY ReadMapGood DEF IInv
<1>2. phase = "loaded" /\ UNCHANGED <<pda, file>>
  BY DEF PreSync, MemoPreSync, TodoPreSync, AddressPreSync, CalendarPreSync, Begin
<1>3. GoodSession(ses', DOMAIN pda)
  <2>1. CASE MemoPreSync \/ TodoPreSync \/ AddressPreSync
    BY <1>1, <1>2, <2>1, BeginGood DEF MemoPreSync, TodoPreSync, AddressPreSync
  <2>2. CASE CalendarPreSync
    <3> DEFINE m == ReadMap(file)
               changes == SplitChanges(m)
               gone == {u \in DOMAIN changes \cap DOMAIN m.uids : changes[u] = "deleted"}
    <3>1. GoodMap(ForgetArchived(m, gone))
      <4>1. gone \in SUBSET DOMAIN m.uids
        OBVIOUS
      <4> HIDE DEF gone, m
      <4>2. GoodMap(m)
        BY <1>1 DEF m
      <4> QED BY <4>1, <4>2, ForgetArchivedGood
    <3>2. Begin(ForgetArchived(m, gone), Over(Clones, Objects), changes)
      BY <2>2, Zenon DEF CalendarPreSync
    <3> HIDE DEF m, changes, gone
    <3> QED BY <1>2, <3>1, <3>2, BeginGood
  <2> QED BY <2>1, <2>2 DEF PreSync
<1> QED BY <1>2, <1>3 DEF IInv

LEMMA RemoteRecordIInv ==
  ASSUME IInv, NEW p \in Pids, RemoteRecord(p)
  PROVE  IInv'
<1> DEFINE s == [ses EXCEPT !.todo = @ \ {p}]
<1>1. UNCHANGED <<pda, file, phase>> /\ phase = "running"
  BY DEF RemoteRecord
<1>2. GoodSession(ses, DOMAIN pda)
  BY <1>1 DEF IInv
<1>3. GoodSession(s, DOMAIN pda)
  BY <1>2, SessionFields DEF GoodSession
<1>4. IF p \in DOMAIN ses.map.pids
      THEN Matched(Match(s, p), p, MatchedUid(p)) ELSE Unmatched(s, p)
  BY DEF RemoteRecord
<1>5. p \in Pids /\ pda[p].flag \in Flags
  BY <1>2 DEF RemoteRecord, GoodSession, IInv, GoodRecords
<1> HIDE DEF s
<1>6. GoodSession(ses', DOMAIN pda)
  <2>1. CASE p \notin DOMAIN ses.map.pids
    BY <1>3, <1>4, <2>1, AddRecordGood DEF Unmatched, Leave
  <2>2. CASE p \in DOMAIN ses.map.pids
    <3> DEFINE u == MatchedUid(p)
               t == Match(s, p)
    <3>1. u \in Uids
      BY <1>2, <2>2, InverseFacts DEF MatchedUid, GoodSession
    <3>2. GoodSession(t, DOMAIN pda) /\ GoodSession(Cleared(t, u), DOMAIN pda)
      BY <1>3, MatchGood, ClearedGood
    <3>3. Matched(t, p, u)
      BY <1>4, <2>2
    <3> HIDE DEF u, t
    <3>4. GoodSession(ArchiveRecord(Cleared(t, u), u), DOMAIN pda)
      BY <3>1, <3>2, ArchiveRecordGood
    <3>5. \/ Leave(t) \/ Leave(Cleared(t, u))
          \/ DeleteRecord(Cleared(t, u), u)
          \/ Leave(ArchiveRecord(Cleared(t, u), u))
      BY <1>5, <3>3 DEF Matched, Flags
    <3> QED BY <3>2, <3>4, <3>5, DeleteRecordGood DEF Leave
  <2> QED BY <2>1, <2>2
<1> QED BY <1>1, <1>6 DEF IInv

LEMMA CopyIInv ==
  ASSUME IInv, CopyFromPilot \/ CopyToPilot
  PROVE  IInv'
<1>1. phase = "running" /\ UNCHANGED <<file, phase>> /\ GoodSession(ses, DOMAIN pda)
  BY DEF CopyFromPilot, CopyToPilot, IInv
<1>2. CASE CopyFromPilot
  <2>1. \A u : GoodSession([ses EXCEPT !.queue = @ \ {u}], DOMAIN pda)
    BY <1>1, SessionFields
  <2>2. \A p : GoodSession([ses EXCEPT !.todo = @ \ {p}], DOMAIN pda)
    BY <1>1, SessionFields DEF GoodSession
  <2>3. \A p \in ses.todo : p \in Pids
    BY <1>1 DEF GoodSession, IInv, GoodRecords
  <2>4. \/ \E u \in ses.queue : DeleteRecord([ses EXCEPT !.queue = @ \ {u}], u)
        \/ \E p \in ses.todo : AddRecord([ses EXCEPT !.todo = @ \ {p}], p)
    BY <1>2 DEF CopyFromPilot
  <2>5. GoodSession(ses', DOMAIN pda)
    BY <2>1, <2>2, <2>3, <2>4, DeleteRecordGood, AddRecordGood
  <2> QED BY <1>1, <1>2, <2>5 DEF IInv, CopyFromPilot
<1>3. CASE CopyToPilot
  <2>1. PICK p \in ses.todo : pda' = Without(pda, p) /\ ses' = [ses EXCEPT !.todo = @ \ {p}]
    BY <1>3 DEF CopyToPilot
  <2>2. DOMAIN pda' = DOMAIN pda \ {p} /\ GoodRecords(pda')
    BY <2>1 DEF IInv, Without, GoodRecords
  <2>3. GoodSession(ses, DOMAIN pda) /\ ses.todo \ {p} \subseteq DOMAIN pda'
    BY <1>1, <2>2 DEF GoodSession
  <2>4. GoodSession(ses', DOMAIN pda')
    BY <2>1, <2>3 DEF GoodSession
  <2> QED BY <1>1, <2>2, <2>4 DEF IInv
<1> QED BY <1>2, <1>3

LEMMA LocalObjectIInv ==
  ASSUME IInv, NEW u \in Uids, LocalObject(u)
  PROVE  IInv'
<1> DEFINE s == LocalRecord([ses EXCEPT !.queue = @ \ {u}], u)
           id == LookupPid(ses.map, u)
<1>1. phase = "running" /\ UNCHANGED <<file, phase>> /\ GoodSession(ses, {})
  BY DEF LocalObject, RemoteDone, IInv, GoodSession
<1>2. GoodSession(s, {})
  BY <1>1, SessionFields, LocalRecordGood
<1>3. SendDeletion(s, u, id) \/ SendNew(s, u, id) \/ SendChanged(s, u, id)
  BY Zenon DEF LocalObject
<1> HIDE DEF s, id
<1>4. GoodSession(Cleared(s, u), {})
  BY <1>2, ClearedGood
<1>5. GoodRecords(pda)
  BY DEF IInv
<1>6. GoodSession(ses', {}) /\ GoodRecords(pda')
  <2>1. CASE SendDeletion(s, u, id)
    BY <1>4, <1>5, <2>1, DeleteRecordGood DEF SendDeletion, Without, GoodRecords
  <2>2. CASE SendNew(s, u, id)
    <3>1. NewPid \in Pids
      BY <2>2 DEF SendNew
    <3>2. GoodSession(Cleared(SetPilotId(s, u, NewPid), u), {})
      BY <1>2, <3>1, SetPilotIdGood, ClearedGood
    <3> QED BY <1>5, <2>2, <3>1, <3>2 DEF SendNew, Leave, Put, GoodRecords, Flags
  <2>3. CASE SendChanged(s, u, id)
    BY <1>4, <1>5, <2>3 DEF SendChanged, Leave, GoodRecords, Flags
  <2> QED BY <1>3, <2>1, <2>2, <2>3
<1> QED BY <1>1, <1>6 DEF IInv, GoodSession

(* What the users do, and the settings window, leaves map and file alone.   *)
LEMMA UsersIInv ==
  ASSUME IInv, Users \/ Settings
  PROVE  IInv'
<1>1. UNCHANGED <<file, phase, ses>>
  BY DEF Users, Settings, NewObject, DropObject, NewRecord, EditRecord,
         OpenSettings, SaveSettings, RevertSettings, CloseSettings
<1>2. GoodRecords(pda') /\ DOMAIN pda \subseteq DOMAIN pda'
  <2>1. CASE NewRecord
    BY <2>1 DEF IInv, NewRecord, Put, GoodRecords, Flags
  <2>2. ASSUME NEW p \in DOMAIN pda, NEW f \in Flags \ {"none"}, EditRecord(p, f)
        PROVE  GoodRecords(pda') /\ DOMAIN pda \subseteq DOMAIN pda'
    BY <2>2 DEF IInv, EditRecord, GoodRecords
  <2>3. CASE UNCHANGED pda
    BY <2>3 DEF IInv
  <2> QED BY <2>1, <2>2, <2>3 DEF Users, Settings, NewObject, DropObject,
         OpenSettings, SaveSettings, RevertSettings, CloseSettings
<1> QED BY <1>1, <1>2 DEF IInv, GoodSession

(* Beginning and end of a session.                                          *)
LEMMA SessionBoundsIInv ==
  ASSUME IInv,
         \/ \E op \in Ops : Load(op)
         \/ \E p \in Pids : ReplaceFails(p)
         \/ PostSync \/ WriteMapFile \/ CleanUp \/ Break
  PROVE  IInv'
<1>1. CASE \E op \in Ops : Load(op)
  <2>1. PICK op \in Ops, slow \in BOOLEAN :
          ses' = [op |-> op, slow |-> slow, cfg |-> conf, map |-> EmptyMap,
                  changed |-> NoEntries, listed |-> NoEntries, queue |-> {}, todo |-> {}]
    BY <1>1 DEF Load, SlowAtStart
  <2>2. GoodSession(ses', DOMAIN pda')
    BY <2>1, EmptyMapGood DEF GoodSession
  <2> QED BY <1>1, <2>2 DEF IInv, Load
<1>2. CASE \E p \in Pids : ReplaceFails(p)
  BY <1>2 DEF IInv, ReplaceFails
<1>3. CASE PostSync
  BY <1>3 DEF IInv, PostSync
<1>4. CASE WriteMapFile
  <2>1. GoodFile(WriteMap(ses.map))
    BY <1>4, WriteMapGood DEF IInv, WriteMapFile, GoodSession
  <2>2. file' \in {file, WriteMap(ses.map)} /\ UNCHANGED <<pda, ses>> /\ phase = "save"
    BY <1>4 DEF WriteMapFile
  <2> QED BY <2>1, <2>2 DEF IInv
<1>5. CASE CleanUp
  <2>1. GoodRecords(pda')
    BY <1>5 DEF CleanUp, IInv, GoodRecords, Flags
  <2> QED BY <1>5, <2>1 DEF IInv, CleanUp
<1>6. CASE Break
  BY <1>6 DEF IInv, Break
<1> QED BY <1>1, <1>2, <1>3, <1>4, <1>5, <1>6

LEMMA NextIInv == IInv /\ [Next]_vars => IInv'
<1> SUFFICES ASSUME IInv, [Next]_vars
             PROVE  IInv'
  OBVIOUS
<1>1. CASE Users \/ Settings
  BY <1>1, UsersIInv
<1>2. CASE (\E op \in Ops : Load(op)) \/ Break
  BY <1>2, SessionBoundsIInv
<1>3. CASE SessionStep
  <2>1. CASE PreSync
    BY <2>1, PreSyncIInv
  <2>2. CASE \E p \in Pids : RemoteRecord(p)
    BY <2>2, RemoteRecordIInv
  <2>3. CASE (\E p \in Pids : ReplaceFails(p)) \/ PostSync \/ WriteMapFile \/ CleanUp
    BY <2>3, SessionBoundsIInv
  <2>4. CASE CopyFromPilot \/ CopyToPilot
    BY <2>4, CopyIInv
  <2>5. CASE \E u \in Uids : LocalObject(u)
    BY <2>5, LocalObjectIInv
  <2> QED BY <1>3, <2>1, <2>2, <2>3, <2>4, <2>5 DEF SessionStep
<1>4. CASE UNCHANGED vars
  BY <1>4 DEF vars, IInv
<1> QED BY <1>1, <1>2, <1>3, <1>4 DEF Next

(* TablesInverse of EdsConduit: whatever happens to a conduit, an id of the *)
(* PDA and a uid of the desktop lead to each other, in the map and through  *)
(* its file.                                                                *)
THEOREM MapsStayInverse == Spec => []TablesInverse
<1>1. IInv => TablesInverse
  BY DEF IInv, TablesInverse, GoodFile, GoodSession, GoodMap
<1> QED BY <1>1, InitIInv, NextIInv, PTL DEF Spec

-------------------------------------------------------------------------------
(* The second part: maps, sessions and stores by uid.                       *)

(* What an operation leaves of a map outside of the uid w: m becomes M, and  *)
(* whatever was paired with the id p is forgotten.                          *)
Beyond(M, m, w, p) ==
  /\ GoodMap(M) /\ M.touchedOnly = m.touchedOnly
  /\ \A v : v # w => (v \in DOMAIN M.uids
                      <=> v \in DOMAIN m.uids /\ (p = 0 \/ m.uids[v].pid # p))
  /\ \A v \in DOMAIN M.uids \ {w} :
       /\ M.uids[v].pid = m.uids[v].pid
       /\ M.uids[v].archived = m.uids[v].archived
       /\ m.uids[v].touched => M.uids[v].touched

(* g_hash_table_remove of the table of ids, as the insertion uses it: by    *)
(* uid, what was paired with p is forgotten, and nothing else.              *)
LEMMA RemoveByPidUids ==
  ASSUME NEW m, GoodMap(m), NEW p \in Pids \cup {0}, NEW r, r = RemoveByPid(m, p)
  PROVE  /\ GoodMap(r) /\ r.touchedOnly = m.touchedOnly
         /\ \A v : v \in DOMAIN r.uids
                   <=> v \in DOMAIN m.uids /\ (p = 0 \/ m.uids[v].pid # p)
         /\ \A v \in DOMAIN r.uids : r.uids[v] = m.uids[v]
<1>1. GoodMap(r)
  BY RemoveByPidGood
<1>2. CASE p \notin DOMAIN m.pids
  BY <1>1, <1>2, PairedBack DEF RemoveByPid
<1>3. CASE p \in DOMAIN m.pids
  <2> DEFINE uid == m.pids[p].uid
  <2>1. r.uids = Without(m.uids, uid) /\ r.touchedOnly = m.touchedOnly
    <3>1. r = [pids |-> Without(m.pids, p), uids |-> Without(m.uids, uid),
               touchedOnly |-> m.touchedOnly]
      BY <1>3 DEF RemoveByPid, GoodMap
    <3> QED BY <3>1
  <2>2. \A v : v \in DOMAIN m.uids => (v = uid <=> m.uids[v].pid = p)
    <3>1. m.uids[uid].pid = p /\ p # 0
      BY <1>3, UidBack, NoPidIsZero DEF GoodMap, PidTable
    <3> QED BY <3>1, PairedBack
  <2>3. p # 0
    BY <1>3, UidBack
  <2> HIDE DEF uid
  <2>4. /\ DOMAIN r.uids = DOMAIN m.uids \ {uid}
        /\ \A v \in DOMAIN r.uids : r.uids[v] = m.uids[v]
    BY <2>1 DEF Without
  <2> QED BY <1>1, <2>1, <2>2, <2>3, <2>4
<1> QED BY <1>2, <1>3

(* e_pilot_map_remove_by_uid, by uid: only u is forgotten.                  *)
LEMMA RemoveByUidUids ==
  ASSUME NEW m, GoodMap(m), NEW u, NEW r, r = RemoveByUid(m, u)
  PROVE  /\ GoodMap(r) /\ r.touchedOnly = m.touchedOnly
         /\ DOMAIN r.uids = DOMAIN m.uids \ {u}
         /\ \A v \in DOMAIN r.uids : r.uids[v] = m.uids[v]
<1>1. GoodMap(r)
  BY RemoveByUidGood
<1>2. CASE u \notin DOMAIN m.uids
  BY <1>1, <1>2 DEF RemoveByUid
<1>3. CASE u \in DOMAIN m.uids
  <2>1. r = [pids |-> Without(m.pids, m.uids[u].pid), uids |-> Without(m.uids, u),
             touchedOnly |-> m.touchedOnly]
    BY <1>3 DEF RemoveByUid, GoodMap
  <2> QED BY <1>1, <2>1 DEF Without
<1> QED BY <1>2, <1>3

(* e_pilot_map_insert, by uid.                                              *)
LEMMA InsertUids ==
  ASSUME NEW m, GoodMap(m), NEW p \in Pids \cup {0}, NEW u \in Uids, NEW a \in BOOLEAN,
         NEW r, r = Insert(m, p, u, a)
  PROVE  /\ Beyond(r, m, u, p)
         /\ u \in DOMAIN r.uids
         /\ r.uids[u] = [pid |-> p, archived |-> a, touched |-> TRUE]
<1> DEFINE first == RemoveByPid(m, p)
           second == RemoveByUid(first, u)
<1>1. /\ GoodMap(first) /\ first.touchedOnly = m.touchedOnly
      /\ \A v : v \in DOMAIN first.uids
                <=> v \in DOMAIN m.uids /\ (p = 0 \/ m.uids[v].pid # p)
      /\ \A v \in DOMAIN first.uids : first.uids[v] = m.uids[v]
  BY RemoveByPidUids
<1>2. /\ GoodMap(second) /\ second.touchedOnly = first.touchedOnly
      /\ DOMAIN second.uids = DOMAIN first.uids \ {u}
      /\ \A v \in DOMAIN second.uids : second.uids[v] = first.uids[v]
  <2> HIDE DEF first
  <2> QED BY <1>1, RemoveByUidUids
<1>3. GoodMap(r)
  BY InsertGood
<1>4. /\ r.uids = Put(second.uids, u, [pid |-> p, archived |-> a, touched |-> TRUE])
      /\ r.touchedOnly = second.touchedOnly
  <2>1. r = RealInsert(second, p, u, a, TRUE)
    BY Zenon DEF Insert
  <2> HIDE DEF second, first
  <2>2. r = [second EXCEPT
               !.pids = IF p = 0 THEN second.pids
                        ELSE Put(second.pids, p, [uid |-> u, archived |-> a, touched |-> TRUE]),
               !.uids = Put(second.uids, u, [pid |-> p, archived |-> a, touched |-> TRUE])]
    BY <2>1, Zenon DEF RealInsert
  <2>3. second = [pids |-> second.pids, uids |-> second.uids, touchedOnly |-> second.touchedOnly]
    BY <1>2 DEF GoodMap
  <2> QED BY <2>2, <2>3
<1> HIDE DEF first, second
<1>5. /\ DOMAIN r.uids = DOMAIN second.uids \cup {u}
      /\ r.uids[u] = [pid |-> p, archived |-> a, touched |-> TRUE]
      /\ \A v \in DOMAIN r.uids : v # u => r.uids[v] = second.uids[v]
  BY <1>4 DEF Put
<1> QED BY <1>1, <1>2, <1>3, <1>4, <1>5 DEF Beyond

(* A look-up, by uid.                                                       *)
LEMMA TouchUids ==
  ASSUME NEW m, GoodMap(m), NEW u \in DOMAIN m.uids, NEW r,
         r = Touch(m, m.uids[u].pid, u)
  PROVE  /\ Beyond(r, m, u, 0)
         /\ u \in DOMAIN r.uids
         /\ r.uids[u] = [pid |-> m.uids[u].pid, archived |-> m.uids[u].archived, touched |-> TRUE]
<1>1. GoodMap(r)
  BY TouchGood
<1>2. r = [pids |-> [q \in DOMAIN m.pids |->
                       IF q = m.uids[u].pid THEN [m.pids[q] EXCEPT !.touched = TRUE]
                       ELSE m.pids[q]],
           uids |-> [v \in DOMAIN m.uids |-> IF v = u THEN [m.uids[v] EXCEPT !.touched = TRUE]
                                             ELSE m.uids[v]],
           touchedOnly |-> m.touchedOnly]
  BY NewTables, Zenon DEF Touch, GoodMap
<1>3. /\ r.uids = [v \in DOMAIN m.uids |-> IF v = u THEN [m.uids[v] EXCEPT !.touched = TRUE]
                                           ELSE m.uids[v]]
      /\ r.touchedOnly = m.touchedOnly
  BY <1>2
<1>4. m.uids[u] \in UidNode
  BY InverseFacts
<1>5. r.uids[u] = [pid |-> m.uids[u].pid, archived |-> m.uids[u].archived, touched |-> TRUE]
  BY <1>3, <1>4 DEF UidNode
<1> QED BY <1>1, <1>3, <1>5 DEF Beyond

(* A map is what it is to its own operations.                               *)
LEMMA BeyondItself ==
  ASSUME NEW m, GoodMap(m), NEW w
  PROVE  Beyond(m, m, w, 0)
BY DEF Beyond

(* Two operations about the same uid, the first of which forgets nothing    *)
(* else.                                                                    *)
LEMMA BeyondTwice ==
  ASSUME NEW m, NEW n, NEW r, NEW w, NEW p, Beyond(n, m, w, 0), Beyond(r, n, w, p)
  PROVE  Beyond(r, m, w, p)
BY DEF Beyond

(* Looking up a uid marks its entry touched and changes no other.           *)
LEMMA TouchByUidUids ==
  ASSUME NEW m, GoodMap(m), NEW u, NEW r, r = TouchByUid(m, u)
  PROVE  /\ Beyond(r, m, u, 0)
         /\ u \in DOMAIN r.uids <=> u \in DOMAIN m.uids
         /\ u \in DOMAIN m.uids =>
              r.uids[u] = [pid |-> m.uids[u].pid, archived |-> m.uids[u].archived, touched |-> TRUE]
BY TouchUids, BeyondItself DEF TouchByUid

(* Looking up an id marks the entry of its uid touched and changes no       *)
(* other.                                                                   *)
LEMMA TouchByPidUids ==
  ASSUME NEW m, GoodMap(m), NEW p \in DOMAIN m.pids, NEW u, u = m.pids[p].uid,
         NEW r, r = TouchByPid(m, p)
  PROVE  /\ Beyond(r, m, u, 0)
         /\ u \in Uids
         /\ u \in DOMAIN m.uids /\ m.uids[u].pid = p
         /\ u \in DOMAIN r.uids
         /\ r.uids[u] = [pid |-> p, archived |-> m.uids[u].archived, touched |-> TRUE]
<1>1. u \in DOMAIN m.uids /\ m.uids[u].pid = p
  BY UidBack
<1>2. r = Touch(m, m.uids[u].pid, u)
  BY <1>1 DEF TouchByPid
<1>3. /\ Beyond(r, m, u, 0) /\ u \in DOMAIN r.uids
      /\ r.uids[u] = [pid |-> m.uids[u].pid, archived |-> m.uids[u].archived, touched |-> TRUE]
  BY <1>1, <1>2, TouchUids
<1>4. u \in Uids
  BY <1>1, InverseFacts
<1> QED BY <1>1, <1>3, <1>4

(* Reading the file, and forgetting what was split.                         *)
ReadGives(f, m) ==
  /\ GoodMap(m) /\ m.touchedOnly = FALSE
  /\ DOMAIN m.uids = Accepted(f) /\ Accepted(f) \subseteq DOMAIN f
  /\ \A u \in Accepted(f) : m.uids[u].pid = f[u].pid /\ m.uids[u].archived = f[u].archived
  /\ \A u \in DOMAIN f : f[u].archived => u \in Accepted(f)
  /\ \A u \in DOMAIN f : f[u].pid # 0 => u \in Accepted(f)

LEMMA ReadMapUids ==
  ASSUME NEW f, GoodFile(f), NEW m, m = ReadMap(f)
  PROVE  ReadGives(f, m)
BY ReadMapGood DEF ReadGives, ReadMap, Accepted

(* The calendar forgets, of the events it has split, those that the map has *)
(* archived.                                                                *)
LEMMA ForgetArchivedUids ==
  ASSUME NEW m, GoodMap(m), NEW gone \in SUBSET DOMAIN m.uids, NEW r, r = ForgetArchived(m, gone)
  PROVE  /\ GoodMap(r) /\ r.touchedOnly = m.touchedOnly
         /\ DOMAIN r.uids = DOMAIN m.uids \ {u \in gone : m.uids[u].archived}
         /\ \A u \in DOMAIN r.uids : r.uids[u] = m.uids[u]
<1>1. GoodMap(r)
  BY ForgetArchivedGood
<1>2. r = [m EXCEPT !.uids = [u \in DOMAIN @ \ {u \in gone : m.uids[u].archived} |-> @[u]],
            !.pids = [p \in DOMAIN @ \ {m.uids[u].pid : u \in {u \in gone : m.uids[u].archived}} |-> @[p]]]
  BY Zenon DEF ForgetArchived
<1>3. m = [pids |-> m.pids, uids |-> m.uids, touchedOnly |-> m.touchedOnly]
  BY DEF GoodMap
<1>4. /\ r.uids = [u \in DOMAIN m.uids \ {u \in gone : m.uids[u].archived} |-> m.uids[u]]
      /\ r.touchedOnly = m.touchedOnly
  BY <1>2, <1>3
<1> QED BY <1>1, <1>4

(* Tables with keys in D and values in V.                                   *)
Partial(D, V) == UNION {[S -> V] : S \in SUBSET D}

(* Such a table by its domain and its values.                               *)
LEMMA PartialFacts ==
  ASSUME NEW D, NEW V, NEW f
  PROVE  f \in Partial(D, V) <=>
           DOMAIN f \subseteq D /\ f = [x \in DOMAIN f |-> f[x]] /\ \A x \in DOMAIN f : f[x] \in V
BY DEF Partial

(* An entry of these keys and values may be set ...                         *)
LEMMA PartialPut ==
  ASSUME NEW D, NEW V, NEW f \in Partial(D, V), NEW x \in D, NEW v \in V
  PROVE  Put(f, x, v) \in Partial(D, V)
BY PartialFacts DEF Put

(* ... or taken out ...                                                     *)
LEMMA PartialWithout ==
  ASSUME NEW D, NEW V, NEW f \in Partial(D, V), NEW x
  PROVE  Without(f, x) \in Partial(D, V)
BY PartialFacts DEF Without

(* ... and two tables may be laid over each other.                          *)
LEMMA PartialOver ==
  ASSUME NEW D, NEW V, NEW f \in Partial(D, V), NEW g \in Partial(D, V)
  PROVE  Over(f, g) \in Partial(D, V)
BY PartialFacts DEF Over

(* The empty table is one of them.                                          *)
LEMMA PartialEmpty ==
  ASSUME NEW D, NEW V
  PROVE  NoEntries \in Partial(D, V)
<1>1. NoEntries \in [{} -> V]
  BY DEF NoEntries
<1> QED BY <1>1 DEF Partial

(* The types in these terms.                                                *)
LEMMA TypesArePartial ==
  /\ Content = Partial(Uids, Things)
  /\ Files = Partial(Uids, Entry)
  /\ Tables = [pids: Partial(Pids, PidNode), uids: Partial(Uids, UidNode), touchedOnly: BOOLEAN]
  /\ Session = [op: Ops, slow: BOOLEAN, cfg: Conf, map: Tables,
                changed: Partial(Uids, Changes), listed: Content,
                queue: SUBSET Uids, todo: SUBSET Pids]
  /\ UNION {[S -> [item: Things, flag: Flags]] : S \in SUBSET Pids}
       = Partial(Pids, [item: Things, flag: Flags])
BY Zenon DEF Partial, Content, Files, Tables, Session

(* A map whose tables are inverse is of the type of maps.                   *)
LEMMA GoodMapIsTables ==
  ASSUME NEW m, GoodMap(m), m.touchedOnly \in BOOLEAN
  PROVE  m \in Tables
<1>1. m.pids \in Partial(Pids, PidNode) /\ m.uids \in Partial(Uids, UidNode)
  BY PartialFacts DEF GoodMap, PidTable, UidTable
<1>2. m = [pids |-> m.pids, uids |-> m.uids, touchedOnly |-> m.touchedOnly]
  BY DEF GoodMap
<1> HIDE DEF GoodMap
<1> QED BY <1>1, <1>2, TypesArePartial

(* A file in which no two uids have the same id is of the type of files.    *)
LEMMA GoodFileIsFiles ==
  ASSUME NEW f, GoodFile(f)
  PROVE  f \in Files
BY PartialFacts, TypesArePartial DEF GoodFile

(* What has been entered holds an item, or a day of a long one.             *)
LEMMA ThingsFacts ==
  /\ \A i \in Items : Whole(i) \in Things
  /\ \A i \in Long : Days(i) \subseteq Things
  /\ \A x \in LongThings : x[1] \in Long /\ x = Whole(x[1])
  /\ \A i : \A x \in Days(i) : x[1] = i /\ x # Whole(i)
  /\ \A i, j : Whole(i) = Whole(j) => i = j
  /\ \A i : Whole(i)[1] = i
BY DEF Things, Whole, Days, LongThings

(* The items are numbers that are entered in order.                         *)
LEMMA ItemCount ==
  /\ Cardinality(Items) \in Nat
  /\ \A i : i \in Items <=> i \in 1 .. Cardinality(Items)
BY ItemsAssumption, FS_CardinalityType

---------------------------------------------------------------------------
(* Ids and uids are handed out one after the other, and nobody holds one    *)
(* that was not.                                                            *)
Handed ==
  /\ \A p \in DOMAIN pda : p <= pidsUsed
  /\ \A s \in Sources : \A u \in DOMAIN store[s] : u <= uidsUsed
  /\ \A s, t \in Sources : \A u : u \in DOMAIN store[s] /\ u \in DOMAIN store[t] => s = t
  /\ \A u \in DOMAIN file : u <= uidsUsed /\ file[u].pid <= pidsUsed
  /\ phase # "idle" =>
       /\ \A u \in DOMAIN ses.map.uids : u <= uidsUsed /\ ses.map.uids[u].pid <= pidsUsed
       /\ \A u \in DOMAIN ses.listed : u <= uidsUsed
       /\ ses.queue \subseteq DOMAIN ses.listed
       /\ DOMAIN ses.changed \subseteq DOMAIN ses.listed

TInv == IInv /\ TypeOK /\ Handed

(* Uids and ids are handed out in the order of the numbers.                 *)
LEMMA Counters ==
  ASSUME TypeOK
  PROVE  /\ uidsUsed \in Nat /\ pidsUsed \in Nat
         /\ NewUid = uidsUsed + 1 /\ NewPid = pidsUsed + 1
         /\ \A u \in Uids : u \in Nat /\ u # 0
         /\ \A p \in Pids : p \in Nat /\ p # 0
BY PidsAssumption, UidsAssumption DEF TypeOK, NewUid, NewPid

(* What a source holds.                                                     *)
LEMMA StoreFacts ==
  ASSUME TypeOK, NEW s \in Sources
  PROVE  /\ store[s] \in Content
         /\ DOMAIN store[s] \subseteq Uids
         /\ \A u \in DOMAIN store[s] : store[s][u] \in Things
BY PartialFacts, TypesArePartial DEF TypeOK

(* What the PDA holds.                                                      *)
LEMMA PdaFacts ==
  ASSUME TypeOK
  PROVE  /\ DOMAIN pda \subseteq Pids
         /\ \A p \in DOMAIN pda : /\ pda[p] = [item |-> pda[p].item, flag |-> pda[p].flag]
                                  /\ pda[p].item \in Things /\ pda[p].flag \in Flags
<1> DEFINE V == [item: Things, flag: Flags]
<1>1. pda \in Partial(Pids, V)
  BY TypesArePartial DEF TypeOK
<1>2. DOMAIN pda \subseteq Pids /\ \A p \in DOMAIN pda : pda[p] \in V
  <2> HIDE DEF V
  <2> QED BY <1>1, PartialFacts
<1> QED BY <1>2

(* What a session holds, field by field.                                    *)
LEMMA SessionFacts ==
  ASSUME TypeOK, phase # "idle"
  PROVE  /\ ses \in Session
         /\ ses = [op |-> ses.op, slow |-> ses.slow, cfg |-> ses.cfg, map |-> ses.map,
                   changed |-> ses.changed, listed |-> ses.listed,
                   queue |-> ses.queue, todo |-> ses.todo]
         /\ ses.op \in Ops /\ ses.slow \in BOOLEAN
         /\ ses.cfg \in Conf /\ ses.cfg.source \in Sources
         /\ ses.map \in Tables /\ ses.map.touchedOnly \in BOOLEAN
         /\ ses.changed \in Partial(Uids, Changes)
         /\ DOMAIN ses.changed \subseteq Uids
         /\ \A u \in DOMAIN ses.changed : ses.changed[u] \in Changes
         /\ ses.listed \in Content
         /\ DOMAIN ses.listed \subseteq Uids
         /\ \A u \in DOMAIN ses.listed : ses.listed[u] \in Things
         /\ ses.queue \subseteq Uids /\ ses.todo \subseteq Pids
<1>1. ses \in Session
  BY DEF TypeOK
<1>2. ses \in [op: Ops, slow: BOOLEAN, cfg: Conf, map: Tables,
                changed: Partial(Uids, Changes), listed: Content,
                queue: SUBSET Uids, todo: SUBSET Pids]
  BY <1>1, TypesArePartial
<1>3. ses.map.touchedOnly \in BOOLEAN
  <2>1. ses.map \in Tables
    BY <1>2
  <2> QED BY <2>1, TypesArePartial
<1>4. ses.listed \in Partial(Uids, Things)
  BY <1>2, TypesArePartial
<1>5. ses.cfg.source \in Sources
  BY <1>2 DEF Conf
<1> QED BY <1>1, <1>2, <1>3, <1>4, <1>5, PartialFacts

(* The events that the calendar makes of those it splits: two new uids each, *)
(* one for every day.                                                       *)
LEMMA ClonesFacts ==
  ASSUME TInv, phase = "loaded"
  PROVE  /\ DOMAIN Clones \subseteq Uids => uidsUsed + Cardinality(DOMAIN Clones) \in Uids \cup {0}
         /\ uidsUsed + Cardinality(DOMAIN Clones) \in Nat
         /\ \A c \in DOMAIN Clones : /\ c \in Nat /\ uidsUsed < c
                                     /\ c <= uidsUsed + Cardinality(DOMAIN Clones)
         /\ \A c \in DOMAIN Clones : \E u \in ToSplit :
              /\ c \in {FirstClone(u), FirstClone(u) + 1}
              /\ Clones[c] = <<Objects[u][1], c - FirstClone(u) + 1>>
              /\ Clones[c] \in Days(Objects[u][1])
         /\ Clones = [c \in DOMAIN Clones |-> Clones[c]]
         /\ ToSplit \subseteq DOMAIN Objects
         /\ \A u \in ToSplit : FirstClone(u) \in Nat /\ Objects[u] \in LongThings
<1> DEFINE k == Cardinality(ToSplit)
           Before(u) == {v \in ToSplit : v < u}
<1>1. /\ uidsUsed \in Nat /\ ToSplit \subseteq DOMAIN Objects
      /\ \A u \in ToSplit : u \in Nat /\ u <= uidsUsed /\ Objects[u] \in LongThings
  <2>1. ses.cfg.source \in Sources
    BY SessionFacts DEF TInv
  <2>2. /\ DOMAIN Objects \subseteq Uids /\ \A u \in DOMAIN Objects : u <= uidsUsed
    BY <2>1, StoreFacts DEF TInv, Handed, Objects
  <2>3. ToSplit \subseteq Spanning
    BY DEF ToSplit
  <2> QED BY <2>2, <2>3, Counters DEF TInv, Spanning
<1>2. IsFiniteSet(ToSplit) /\ k \in Nat
  <2>1. ToSplit \in SUBSET Nat
    BY <1>1
  <2>2. \A s \in ToSplit : s <= uidsUsed
    BY <1>1
  <2>3. IsFiniteSet(ToSplit)
    BY <1>1, <2>1, <2>2, FS_BoundedSetOfNaturals, Zenon
  <2> QED BY <2>3, FS_CardinalityType
<1>3. \A u \in ToSplit : Cardinality(Before(u)) \in 0 .. k - 1
  <2> SUFFICES ASSUME NEW u \in ToSplit
               PROVE  Cardinality(Before(u)) \in 0 .. k - 1
    OBVIOUS
  <2>1. Before(u) \subseteq ToSplit \ {u}
    BY <1>1
  <2>2. IsFiniteSet(ToSplit \ {u}) /\ Cardinality(ToSplit \ {u}) = k - 1
    BY <1>2, FS_RemoveElement
  <2> HIDE DEF Before, k
  <2>3. IsFiniteSet(Before(u)) /\ Cardinality(Before(u)) <= k - 1
    BY <2>1, <2>2, FS_Subset
  <2> QED BY <1>2, <2>3, FS_CardinalityType
<1>4. \A u, v \in ToSplit : u < v => Cardinality(Before(u)) < Cardinality(Before(v))
  <2> SUFFICES ASSUME NEW u \in ToSplit, NEW v \in ToSplit, u < v
               PROVE  Cardinality(Before(u)) < Cardinality(Before(v))
    OBVIOUS
  <2>1. Before(u) \subseteq Before(v) \ {u} /\ u \in Before(v)
    BY <1>1
  <2>2. Before(v) \subseteq ToSplit
    OBVIOUS
  <2> HIDE DEF Before
  <2>3. IsFiniteSet(Before(v)) /\ Cardinality(Before(v)) \in Nat
    BY <1>2, <2>2, FS_Subset, FS_CardinalityType
  <2>4. IsFiniteSet(Before(v) \ {u}) /\ Cardinality(Before(v) \ {u}) = Cardinality(Before(v)) - 1
    BY <2>1, <2>3, FS_RemoveElement
  <2>5. IsFiniteSet(Before(u)) /\ Cardinality(Before(u)) <= Cardinality(Before(v)) - 1
    BY <2>1, <2>4, FS_Subset
  <2>6. Cardinality(Before(u)) \in Nat
    BY <2>5, FS_CardinalityType
  <2> QED BY <2>3, <2>5, <2>6
<1> DEFINE rank == [u \in ToSplit |-> Cardinality(Before(u))]
<1>5. \A u, v \in ToSplit : rank[u] = rank[v] => u = v
  <2> SUFFICES ASSUME NEW u \in ToSplit, NEW v \in ToSplit, rank[u] = rank[v], u # v
               PROVE  FALSE
    OBVIOUS
  <2>1. u < v \/ v < u
    BY <1>1
  <2>2. Cardinality(Before(u)) = Cardinality(Before(v))
    OBVIOUS
  <2>3. Cardinality(Before(u)) \in Nat /\ Cardinality(Before(v)) \in Nat
    BY <1>3
  <2> HIDE DEF Before, rank
  <2> QED BY <1>4, <2>1, <2>2, <2>3
<1>6. \A r \in 0 .. k - 1 : \E u \in ToSplit : rank[u] = r
  <2>1. rank \in [ToSplit -> 0 .. k - 1]
    BY <1>3
  <2> HIDE DEF rank
  <2>2. rank \in Injection(ToSplit, 0 .. k - 1)
    BY <1>5, <2>1 DEF Injection, IsInjective
  <2>3. IsFiniteSet(0 .. k - 1) /\ Cardinality(0 .. k - 1) = k
    BY <1>2, FS_Interval
  <2>4. rank \in Surjection(ToSplit, 0 .. k - 1)
    BY <2>2, <2>3, FS_Injection
  <2> QED BY <2>4 DEF Surjection
<1>7. \A u \in ToSplit : FirstClone(u) = uidsUsed + 2 * rank[u] + 1 /\ rank[u] \in 0 .. k - 1
  BY <1>3 DEF FirstClone
<1>8. DOMAIN Clones = uidsUsed + 1 .. uidsUsed + 2 * k
  BY DEF Clones
<1> HIDE DEF rank, Before
<1>9. IsFiniteSet(DOMAIN Clones) /\ Cardinality(DOMAIN Clones) = 2 * k
  <2> DEFINE low == uidsUsed + 1
             high == uidsUsed + 2 * k
  <2>1. low \in Int /\ high \in Int
    BY <1>1, <1>2
  <2>2. IF low > high THEN 0 = 2 * k ELSE high - low + 1 = 2 * k
    BY <1>1, <1>2
  <2>3. DOMAIN Clones = low .. high
    BY <1>8
  <2> HIDE DEF low, high
  <2>4. /\ IsFiniteSet(low .. high)
        /\ Cardinality(low .. high) = IF low > high THEN 0 ELSE high - low + 1
    BY ONLY <2>1, FS_Interval
  <2> QED BY ONLY <2>2, <2>3, <2>4
<1>10. ASSUME NEW c \in DOMAIN Clones
       PROVE  \E u \in ToSplit :
              /\ c \in {FirstClone(u), FirstClone(u) + 1}
              /\ Clones[c] = <<Objects[u][1], c - FirstClone(u) + 1>>
              /\ Clones[c] \in Days(Objects[u][1])
  <2> DEFINE u == CHOOSE u \in ToSplit : c \in {FirstClone(u), FirstClone(u) + 1}
  <2>1. \E w \in ToSplit : c \in {FirstClone(w), FirstClone(w) + 1}
    <3>1. c \in Nat /\ uidsUsed + 1 <= c /\ c <= uidsUsed + 2 * k
      BY <1>1, <1>2, <1>8
    <3>2. \E r \in 0 .. k - 1 : c = uidsUsed + 2 * r + 1 \/ c = uidsUsed + 2 * r + 2
      <4> DEFINE d == c - uidsUsed - 1
      <4>1. d \in Nat /\ d <= 2 * k - 1
        BY <1>1, <1>2, <3>1
      <4>2. \E r \in Nat : d = 2 * r \/ d = 2 * r + 1
        <5> HIDE DEF d
        <5>1. d \div 2 \in Nat /\ d % 2 \in {0, 1} /\ d = 2 * (d \div 2) + (d % 2)
          BY <4>1
        <5> QED BY <4>1, <5>1
      <4>3. PICK r \in Nat : d = 2 * r \/ d = 2 * r + 1
        BY <4>2
      <4>4. r \in 0 .. k - 1
        BY <1>2, <4>1, <4>3
      <4> QED BY <1>1, <3>1, <4>3, <4>4
    <3>3. PICK r \in 0 .. k - 1 : c = uidsUsed + 2 * r + 1 \/ c = uidsUsed + 2 * r + 2
      BY <3>2
    <3>4. PICK w \in ToSplit : rank[w] = r
      BY <1>6
    <3> QED BY <1>1, <1>2, <1>7, <3>3, <3>4
  <2>2. u \in ToSplit /\ c \in {FirstClone(u), FirstClone(u) + 1}
    BY <2>1
  <2>3. Clones[c] = <<Objects[u][1], c - FirstClone(u) + 1>>
    BY Zenon DEF Clones
  <2> HIDE DEF u
  <2>4. c - FirstClone(u) + 1 \in {1, 2}
    BY <1>1, <1>2, <1>7, <2>2
  <2> QED BY <2>2, <2>3, <2>4 DEF Days
<1>11. \A c \in DOMAIN Clones : c \in Nat /\ uidsUsed < c /\ c <= uidsUsed + 2 * k
  BY <1>1, <1>2, <1>8
<1>12. DOMAIN Clones \subseteq Uids => uidsUsed + 2 * k \in Uids \cup {0}
  <2>1. CASE k = 0
    BY <2>1, <1>1 DEF TInv, TypeOK
  <2>2. CASE k # 0
    BY <1>1, <1>2, <1>8, <2>2
  <2> QED BY <2>1, <2>2
<1>13. Clones = [c \in DOMAIN Clones |-> Clones[c]]
  <2> DEFINE Body(c) == LET u == CHOOSE u \in ToSplit : c \in {FirstClone(u), FirstClone(u) + 1}
                        IN <<Objects[u][1], c - FirstClone(u) + 1>>
  <2>1. Clones = [c \in uidsUsed + 1 .. uidsUsed + 2 * Cardinality(ToSplit) |-> Body(c)]
    BY Zenon DEF Clones
  <2> HIDE DEF Body
  <2> QED BY <2>1, Zenon
<1>14. \A u \in ToSplit : FirstClone(u) \in Nat
  BY <1>1, <1>2, <1>7
<1>15. uidsUsed + 2 * k \in Nat
  BY <1>1, <1>2
<1> HIDE DEF k
<1> QED BY <1>1, <1>9, <1>10, <1>11, <1>12, <1>13, <1>14, <1>15

-------------------------------------------------------------------------------
(* The forms that the handlers take.                                        *)

(* What a handler leaves of the session.                                    *)
Holding(M, C, Q, T) ==
  [op |-> ses.op, slow |-> ses.slow, cfg |-> ses.cfg, map |-> M,
   changed |-> C, listed |-> ses.listed, queue |-> Q, todo |-> T]
Hands(M, C, Q, T) == ses' = Holding(M, C, Q, T)

(* A session by the fields that its handlers change.                        *)
LEMMA SessionHolds ==
  ASSUME TypeOK, phase # "idle"
  PROVE  ses = Holding(ses.map, ses.changed, ses.queue, ses.todo)
BY SessionFacts DEF Holding

(* What a handler hands on, field by field; it is a session again if the    *)
(* parts are of their types.                                                *)
LEMMA HandsFields ==
  ASSUME TypeOK, phase # "idle", NEW M, NEW C, NEW Q, NEW T, Hands(M, C, Q, T)
  PROVE  /\ ses'.op = ses.op /\ ses'.slow = ses.slow /\ ses'.cfg = ses.cfg
         /\ ses'.listed = ses.listed
         /\ ses'.map = M /\ ses'.changed = C /\ ses'.queue = Q /\ ses'.todo = T
         /\ Objects' = store'[ses.cfg.source]
         /\ M \in Tables /\ C \in Partial(Uids, Changes) /\ Q \in SUBSET Uids /\ T \in SUBSET Pids
              => ses' \in Session
<1>1. ses' = [op |-> ses.op, slow |-> ses.slow, cfg |-> ses.cfg, map |-> M,
              changed |-> C, listed |-> ses.listed, queue |-> Q, todo |-> T]
  BY DEF Hands, Holding
<1>2. M \in Tables /\ C \in Partial(Uids, Changes) /\ Q \in SUBSET Uids /\ T \in SUBSET Pids
        => ses' \in [op: Ops, slow: BOOLEAN, cfg: Conf, map: Tables,
                changed: Partial(Uids, Changes), listed: Content,
                queue: SUBSET Uids, todo: SUBSET Pids]
  BY <1>1, SessionFacts
<1> QED BY <1>1, <1>2, TypesArePartial DEF Objects

(* What a handler does to the store and to the PDA.                         *)
StoreStays == UNCHANGED <<store, uidsUsed>>
StoreGains(x) ==
  /\ NewUid \in Uids
  /\ store' = [store EXCEPT ![ses.cfg.source] = Put(@, NewUid, x)]
  /\ uidsUsed' = NewUid
StoreLoses(u) ==
  /\ store' = [store EXCEPT ![ses.cfg.source] = Without(@, u)]
  /\ uidsUsed' = uidsUsed
PdaStays == UNCHANGED <<pda, pidsUsed>>
PdaGains(x) ==
  /\ NewPid \in Pids
  /\ pda' = Put(pda, NewPid, [item |-> x, flag |-> "none"])
  /\ pidsUsed' = NewPid
PdaLoses(p) == pda' = Without(pda, p) /\ pidsUsed' = pidsUsed
PdaChanges(p, x) == /\ pda' = [pda EXCEPT ![p] = [item |-> x, flag |-> "none"]]
                    /\ pidsUsed' = pidsUsed

(* The forms a handler of a single record takes: w is the uid it is about,  *)
(* M the map it leaves.                                                     *)
InHandler == phase = "running" /\ UNCHANGED <<kind, file, conf, gui, phase, left, wounds>>

Ignored(p) ==
  /\ p \notin DOMAIN ses.map.pids /\ pda[p].flag = "deleted"
  /\ StoreStays /\ PdaStays
  /\ Hands(ses.map, ses.changed, ses.queue, ses.todo \ {p})

Added(p, M, Q) ==
  /\ StoreGains(pda[p].item) /\ PdaStays
  /\ Beyond(M, ses.map, NewUid, p)
  /\ NewUid \in DOMAIN M.uids /\ M.uids[NewUid] = [pid |-> p, archived |-> FALSE, touched |-> TRUE]
  /\ Hands(M, ses.changed, Q, ses.todo \ {p})

Settled(p, w, M, C, a) ==
  /\ p \in DOMAIN ses.map.pids /\ w = MatchedUid(p)
  /\ StoreStays /\ PdaStays
  /\ Beyond(M, ses.map, w, 0)
  /\ w \in DOMAIN ses.map.uids /\ ses.map.uids[w].pid = p
  /\ w \in DOMAIN M.uids /\ M.uids[w] = [pid |-> p, archived |-> a, touched |-> TRUE]
  /\ \/ C = ses.changed /\ a = ses.map.uids[w].archived
     \/ /\ C = Without(ses.changed, w) /\ a = ses.map.uids[w].archived
        /\ w \in DOMAIN Objects /\ pda[p].flag = "dirty"
     \/ C = Without(ses.changed, w) /\ a = TRUE /\ pda[p].flag = "archived"
  /\ Hands(M, C, ses.queue, ses.todo \ {p})

Removed(p, w, M) ==
  /\ p \in DOMAIN ses.map.pids /\ w = MatchedUid(p) /\ pda[p].flag = "deleted"
  /\ StoreLoses(w) /\ PdaStays
  /\ Beyond(M, ses.map, w, 0)
  /\ w \in DOMAIN ses.map.uids /\ ses.map.uids[w].pid = p
  /\ w \notin DOMAIN M.uids
  /\ Hands(M, Without(ses.changed, w), ses.queue, ses.todo \ {p})

RemoteForm(p) ==
  \/ Ignored(p)
  \/ p \notin DOMAIN ses.map.pids /\ pda[p].flag # "deleted" /\ \E M : Added(p, M, ses.queue)
  \/ \E w, M : w \in Uids /\ Removed(p, w, M)
  \/ \E w, M, C, a : w \in Uids /\ a \in BOOLEAN /\ Settled(p, w, M, C, a)

(* A map with no other uid paired with p forgets nothing.                   *)
LEMMA BeyondUnpaired ==
  ASSUME NEW m, NEW M, NEW w, NEW p, Beyond(M, m, w, p),
         \A v \in DOMAIN m.uids \ {w} : m.uids[v].pid # p
  PROVE  Beyond(M, m, w, 0)
BY DEF Beyond

(* Marking a paired object archived, by uid: the entry keeps its id.        *)
LEMMA ArchivedUids ==
  ASSUME NEW t, GoodMap(t), NEW u \in DOMAIN t.uids, NEW r,
         r = Insert(t, LookupPid(t, u), u, TRUE)
  PROVE  /\ Beyond(r, t, u, 0)
         /\ u \in DOMAIN r.uids
         /\ r.uids[u] = [pid |-> t.uids[u].pid, archived |-> TRUE, touched |-> TRUE]
<1> DEFINE p == t.uids[u].pid
<1>1. u \in Uids /\ p \in Pids \cup {0}
  <2>1. t.uids[u] \in UidNode /\ u \in Uids
    BY InverseFacts
  <2> QED BY <2>1 DEF UidNode
<1>2. r = Insert(t, p, u, TRUE)
  BY DEF LookupPid
<1>3. /\ Beyond(r, t, u, p)
      /\ u \in DOMAIN r.uids
      /\ r.uids[u] = [pid |-> p, archived |-> TRUE, touched |-> TRUE]
  <2> HIDE DEF p
  <2>1. PICK a \in BOOLEAN : a = TRUE
    OBVIOUS
  <2>2. r = Insert(t, p, u, a)
    BY <1>2, <2>1, Zenon
  <2>3. /\ Beyond(r, t, u, p)
        /\ u \in DOMAIN r.uids
        /\ r.uids[u] = [pid |-> p, archived |-> a, touched |-> TRUE]
    BY ONLY GoodMap(t), <1>1, <2>1, <2>2, InsertUids
  <2> QED BY <2>1, <2>3
<1>4. p # 0 => \A v \in DOMAIN t.uids \ {u} : t.uids[v].pid # p
  BY PairedBack
<1>5. Beyond(r, t, u, 0)
  BY <1>3, <1>4, BeyondUnpaired
<1> QED BY <1>3, <1>5

(* Each callback of a record of the PDA takes one of these forms.           *)
LEMMA RemoteForms ==
  ASSUME IInv, TypeOK, NEW p \in Pids, RemoteRecord(p)
  PROVE  /\ InHandler /\ p \in ses.todo /\ p \in DOMAIN pda
         /\ ses.op \in {"synchronize", "merge from"}
         /\ RemoteForm(p)
<1> DEFINE s == [ses EXCEPT !.todo = @ \ {p}]
           m == ses.map
<1>1. /\ InHandler /\ PdaStays /\ p \in ses.todo /\ p \in DOMAIN pda
      /\ ses.op \in {"synchronize", "merge from"}
      /\ phase # "idle"
  BY DEF RemoteRecord, InHandler, PdaStays, IInv, GoodSession
<1>2. IF p \in DOMAIN m.pids
      THEN Matched(Match(s, p), p, MatchedUid(p)) ELSE Unmatched(s, p)
  BY DEF RemoteRecord
<1>3. GoodMap(m)
  BY <1>1 DEF IInv, GoodSession
<1>4. /\ ses = Holding(m, ses.changed, ses.queue, ses.todo)
  BY <1>1, SessionHolds
<1>5. s = Holding(m, ses.changed, ses.queue, ses.todo \ {p})
  BY <1>4 DEF Holding
<1> HIDE DEF s, m
<1>7. CASE p \notin DOMAIN m.pids
  <2>1. CASE pda[p].flag = "deleted"
    <3>1. ses' = s /\ StoreStays
      BY <1>2, <1>7, <2>1 DEF Unmatched, Leave, StoreStays
    <3>2. Hands(ses.map, ses.changed, ses.queue, ses.todo \ {p})
      BY <1>4, <1>5, <3>1 DEF m, Hands, Holding
    <3>3. PdaStays /\ p \notin DOMAIN ses.map.pids
      BY <1>1, <1>7 DEF m
    <3>4. Ignored(p)
      BY ONLY <2>1, <3>1, <3>2, <3>3 DEF Ignored
    <3>5. RemoteForm(p)
      BY ONLY <3>4, Zenon DEF RemoteForm
    <3> QED BY <1>1, <3>5
  <2>2. CASE pda[p].flag # "deleted"
    <3> DEFINE M == Insert(m, p, NewUid, FALSE)
    <3>1. AddRecord(s, p)
      BY <1>2, <1>7, <2>2 DEF Unmatched
    <3>2. /\ NewUid \in Uids /\ StoreGains(pda[p].item)
          /\ ses' = [s EXCEPT !.map = M] /\ s.map = m
      BY <1>5, <3>1 DEF AddRecord, StoreGains, Holding
    <3>3. /\ Beyond(M, m, NewUid, p)
          /\ NewUid \in DOMAIN M.uids
          /\ M.uids[NewUid] = [pid |-> p, archived |-> FALSE, touched |-> TRUE]
      <4>1. NewUid \in Uids /\ GoodMap(m) /\ p \in Pids \cup {0} /\ FALSE \in BOOLEAN
        BY <1>3, <3>2
      <4> QED BY ONLY <4>1, InsertUids
    <3> HIDE DEF M
    <3>4. Hands(M, ses.changed, ses.queue, ses.todo \ {p})
      BY <1>4, <1>5, <3>2 DEF Holding, Hands
    <3>5. Added(p, M, ses.queue)
      BY <1>1, <3>2, <3>3, <3>4 DEF Added, m
    <3> QED BY <1>1, <1>7, <2>2, <3>5 DEF RemoteForm, m
  <2> QED BY <2>1, <2>2
<1>8. CASE p \in DOMAIN m.pids
  <2> DEFINE w == MatchedUid(p)
             t == TouchByPid(m, p)
             x == Match(s, p)
  <2>1. w = m.pids[p].uid
    BY DEF MatchedUid, m
  <2>2. /\ Beyond(t, m, w, 0)
        /\ w \in Uids
        /\ w \in DOMAIN m.uids /\ m.uids[w].pid = p
        /\ w \in DOMAIN t.uids
        /\ t.uids[w] = [pid |-> p, archived |-> m.uids[w].archived, touched |-> TRUE]
    BY <1>3, <1>8, <2>1, TouchByPidUids
  <2>3. x = Holding(t, ses.changed, ses.queue, ses.todo \ {p})
    BY <1>5 DEF Match, Holding
  <2>4. Cleared(x, w) = Holding(t, Without(ses.changed, w), ses.queue, ses.todo \ {p})
    <3> HIDE DEF x, w, t
    <3> QED BY <2>3 DEF Cleared, Holding
  <2>5. m.uids[w].archived \in BOOLEAN
    BY <1>3, <2>2, InverseFacts DEF UidNode
  <2>6. GoodMap(t)
    BY <2>2 DEF Beyond
  <2>7. Matched(x, p, w)
    BY <1>2, <1>8
  <2> HIDE DEF w, t, x
  <2>13. \A M, C, a : a \in BOOLEAN /\ Settled(p, w, M, C, a) => RemoteForm(p)
    BY <2>2, Zenon DEF RemoteForm
  <2>14. \A M : Removed(p, w, M) => RemoteForm(p)
    BY <2>2, Zenon DEF RemoteForm
  <2>8. CASE pda[p].flag \in {"none", "dirty", "deleted"} /\ ses' = x /\ StoreStays
    <3>1. Hands(t, ses.changed, ses.queue, ses.todo \ {p})
      BY <1>4, <2>3, <2>8 DEF Hands, Holding
    <3>2. Settled(p, w, t, ses.changed, m.uids[w].archived)
      BY <1>1, <1>8, <2>2, <2>8, <3>1 DEF Settled, m, w
    <3> QED BY <1>1, <2>5, <2>13, <3>2
  <2>9. CASE pda[p].flag = "dirty" /\ w \in DOMAIN Objects /\ ses' = Cleared(x, w) /\ StoreStays
    <3>1. Hands(t, Without(ses.changed, w), ses.queue, ses.todo \ {p})
      BY <1>4, <2>4, <2>9 DEF Hands, Holding
    <3>2. Settled(p, w, t, Without(ses.changed, w), m.uids[w].archived)
      BY <1>1, <1>8, <2>2, <2>9, <3>1 DEF Settled, m, w
    <3> QED BY <1>1, <2>5, <2>13, <3>2
  <2>10. CASE pda[p].flag = "deleted" /\ DeleteRecord(Cleared(x, w), w)
    <3> DEFINE M == RemoveByUid(t, w)
    <3>1. ses' = [Cleared(x, w) EXCEPT !.map = M] /\ StoreLoses(w)
      BY <2>4, <2>10 DEF DeleteRecord, StoreLoses, Holding
    <3>2. Beyond(M, t, w, 0) /\ w \notin DOMAIN M.uids
      BY <2>6, RemoveByUidUids DEF Beyond
    <3> HIDE DEF M
    <3>3. Beyond(M, m, w, 0)
      BY <2>2, <3>2, BeyondTwice
    <3>4. Hands(M, Without(ses.changed, w), ses.queue, ses.todo \ {p})
      BY <1>4, <2>4, <3>1 DEF Holding, Hands
    <3>5. Removed(p, w, M)
      BY <1>1, <1>8, <2>2, <2>10, <3>1, <3>2, <3>3, <3>4 DEF Removed, m, w
    <3> QED BY <1>1, <2>13, <2>14, <3>5
  <2>11. CASE pda[p].flag = "archived" /\ ses' = ArchiveRecord(Cleared(x, w), w) /\ StoreStays
    <3> DEFINE M == Insert(t, LookupPid(t, w), w, TRUE)
    <3>1. ses' = [Cleared(x, w) EXCEPT !.map = M]
      BY <2>4, <2>11 DEF ArchiveRecord, Holding
    <3>2. /\ Beyond(M, t, w, 0)
          /\ w \in DOMAIN M.uids
          /\ M.uids[w] = [pid |-> p, archived |-> TRUE, touched |-> TRUE]
      <4>1. /\ Beyond(M, t, w, 0)
            /\ w \in DOMAIN M.uids
            /\ M.uids[w] = [pid |-> t.uids[w].pid, archived |-> TRUE, touched |-> TRUE]
        BY <2>2, <2>6, ArchivedUids
      <4> HIDE DEF M
      <4> QED BY <2>2, <4>1
    <3> HIDE DEF M
    <3>3. Beyond(M, m, w, 0)
      BY <2>2, <3>2, BeyondTwice
    <3>4. Hands(M, Without(ses.changed, w), ses.queue, ses.todo \ {p})
      BY <1>4, <2>4, <3>1 DEF Holding, Hands
    <3>5. Settled(p, w, M, Without(ses.changed, w), TRUE)
      BY <1>1, <1>8, <2>2, <2>11, <3>2, <3>3, <3>4 DEF Settled, m, w
    <3> QED BY <1>1, <2>13, <2>14, <3>5
  <2>12. pda[p].flag \in Flags
    BY <1>1, PdaFacts
  <2> QED BY <2>7, <2>8, <2>9, <2>10, <2>11, <2>12
          DEF Matched, Leave, StoreStays, Replaceable, Flags
<1> QED BY <1>7, <1>8

---------------------------------------------------------------------------
(* The forms of the callbacks for the objects.                              *)
SentDeletion(u, M) ==
  /\ u \in DOMAIN ses.changed /\ ses.changed[u] = "deleted" /\ ses.op # "copy to"
  /\ PdaLoses(LookupPid(ses.map, u)) /\ StoreLoses(u)
  /\ Beyond(M, ses.map, u, 0) /\ u \notin DOMAIN M.uids
  /\ Hands(M, Without(ses.changed, u), ses.queue \ {u}, ses.todo)

SentNew(u, M) ==
  /\ Status(u) # "deleted" \/ ses.op = "copy to"
  /\ LookupPid(ses.map, u) \notin DOMAIN pda
  /\ PdaGains(ses.listed[u]) /\ StoreStays
  /\ Beyond(M, ses.map, u, NewPid)
  /\ u \in DOMAIN M.uids /\ M.uids[u] = [pid |-> NewPid, archived |-> FALSE, touched |-> TRUE]
  /\ Hands(M, Without(ses.changed, u), ses.queue \ {u}, ses.todo)

SentChanged(u, p, M) ==
  /\ Status(u) # "deleted"
  /\ u \in DOMAIN ses.map.uids /\ p = ses.map.uids[u].pid /\ p \in DOMAIN pda
  /\ PdaChanges(p, ses.listed[u]) /\ StoreStays
  /\ Beyond(M, ses.map, u, 0)
  /\ u \in DOMAIN M.uids
  /\ M.uids[u] = [pid |-> p, archived |-> ses.map.uids[u].archived, touched |-> TRUE]
  /\ Hands(M, Without(ses.changed, u), ses.queue \ {u}, ses.todo)

LocalForm(u) ==
  \/ \E M : SentDeletion(u, M)
  \/ \E M : SentNew(u, M)
  \/ \E p, M : SentChanged(u, p, M)

(* Each callback of an object of the desktop takes one of these forms.      *)
LEMMA LocalForms ==
  ASSUME IInv, TypeOK, NEW u \in Uids, LocalObject(u)
  PROVE  /\ InHandler /\ u \in ses.queue /\ RemoteDone
         /\ u \in DOMAIN ses.changed \/ ses.op = "copy to"
         /\ LocalForm(u)
<1> DEFINE r == [ses EXCEPT !.queue = @ \ {u}]
           m == ses.map
           t == TouchByUid(m, u)
           s == LocalRecord(r, u)
           id == LookupPid(m, u)
<1>1. /\ InHandler /\ phase # "idle" /\ u \in ses.queue /\ RemoteDone
      /\ u \in DOMAIN ses.changed \/ ses.op = "copy to"
  BY DEF LocalObject, InHandler, NextItems, Offered
<1>2. SendDeletion(s, u, id) \/ SendNew(s, u, id) \/ SendChanged(s, u, id)
  BY Zenon DEF LocalObject
<1>3. GoodMap(m)
  BY <1>1 DEF IInv, GoodSession
<1>4. /\ ses = Holding(m, ses.changed, ses.queue, ses.todo)
  BY <1>1, SessionHolds
<1>5. s = Holding(t, ses.changed, ses.queue \ {u}, ses.todo)
  <2>1. r = Holding(m, ses.changed, ses.queue \ {u}, ses.todo)
    BY <1>4 DEF Holding
  <2> HIDE DEF r, m
  <2> QED BY <2>1 DEF LocalRecord, Holding
<1>7. /\ Beyond(t, m, u, 0)
      /\ u \in DOMAIN t.uids <=> u \in DOMAIN m.uids
      /\ u \in DOMAIN m.uids =>
           t.uids[u] = [pid |-> m.uids[u].pid, archived |-> m.uids[u].archived, touched |-> TRUE]
  BY <1>3, TouchByUidUids
<1>8. GoodMap(t)
  BY <1>7 DEF Beyond
<1>9. id = LookupPid(ses.map, u)
  OBVIOUS
<1> HIDE DEF r, t, s, id, m
<1>10. Cleared(s, u) = Holding(t, Without(ses.changed, u), ses.queue \ {u}, ses.todo)
  BY <1>5 DEF Cleared, Holding
<1>11. CASE SendDeletion(s, u, id)
  <2> DEFINE M == RemoveByUid(t, u)
  <2>1. /\ u \in DOMAIN ses.changed /\ ses.changed[u] = "deleted" /\ ses.op # "copy to"
        /\ PdaLoses(id) /\ DeleteRecord(Cleared(s, u), u)
    BY <1>11 DEF SendDeletion, Status, PdaLoses
  <2>2. ses' = [Cleared(s, u) EXCEPT !.map = M] /\ StoreLoses(u)
    <3>1. Cleared(s, u).map = t
      BY <1>10 DEF Holding
    <3> QED BY <2>1, <3>1 DEF DeleteRecord, StoreLoses
  <2>3. Beyond(M, t, u, 0) /\ u \notin DOMAIN M.uids
    BY <1>8, RemoveByUidUids DEF Beyond
  <2> HIDE DEF M
  <2>4. Beyond(M, m, u, 0)
    BY <1>7, <2>3, BeyondTwice
  <2>5. Hands(M, Without(ses.changed, u), ses.queue \ {u}, ses.todo)
    BY <1>4, <1>10, <2>2 DEF Holding, Hands
  <2>6. SentDeletion(u, M)
    BY <1>9, <2>1, <2>2, <2>3, <2>4, <2>5 DEF SentDeletion, m
  <2> QED BY <1>1, <2>6 DEF LocalForm
<1>12. CASE SendNew(s, u, id)
  <2> DEFINE M == Insert(t, NewPid, u, FALSE)
  <2>1. /\ Status(u) # "deleted" \/ ses.op = "copy to"
        /\ id \notin DOMAIN pda /\ NewPid \in Pids
        /\ PdaGains(ses.listed[u]) /\ StoreStays
        /\ ses' = Cleared(SetPilotId(s, u, NewPid), u)
    BY <1>5, <1>12 DEF SendNew, PdaGains, Leave, StoreStays, Holding
  <2>2. ses' = Holding(M, Without(ses.changed, u), ses.queue \ {u}, ses.todo)
    <3>1. SetPilotId(s, u, NewPid) = Holding(M, ses.changed, ses.queue \ {u}, ses.todo)
      <4>1. s.map = t
        BY <1>5 DEF Holding
      <4>2. SetPilotId(s, u, NewPid) = [s EXCEPT !.map = M]
        BY <4>1, Zenon DEF SetPilotId
      <4> HIDE DEF M
      <4> QED BY <1>5, <4>2 DEF Holding
    <3> HIDE DEF M
    <3>2. \A y : y = Holding(M, ses.changed, ses.queue \ {u}, ses.todo) =>
             Cleared(y, u) = Holding(M, Without(ses.changed, u), ses.queue \ {u}, ses.todo)
      BY DEF Cleared, Holding
    <3>3. Cleared(SetPilotId(s, u, NewPid), u)
            = Holding(M, Without(ses.changed, u), ses.queue \ {u}, ses.todo)
      BY <3>1, <3>2, Zenon
    <3> QED BY <2>1, <3>3
  <2>3. /\ Beyond(M, t, u, NewPid)
        /\ u \in DOMAIN M.uids /\ M.uids[u] = [pid |-> NewPid, archived |-> FALSE, touched |-> TRUE]
    <3>1. NewPid \in Pids \cup {0}
      BY <2>1
    <3> QED BY <1>8, <3>1, InsertUids
  <2> HIDE DEF M
  <2>4. Beyond(M, m, u, NewPid)
    BY <1>7, <2>3, BeyondTwice
  <2>5. Hands(M, Without(ses.changed, u), ses.queue \ {u}, ses.todo)
    BY <1>4, <2>2 DEF Hands, Holding
  <2>6. SentNew(u, M)
    BY <1>9, <2>1, <2>3, <2>4, <2>5 DEF SentNew, m
  <2> QED BY <1>1, <2>6 DEF LocalForm
<1>13. CASE SendChanged(s, u, id)
  <2>1. /\ Status(u) # "deleted" /\ id \in DOMAIN pda
        /\ PdaChanges(id, ses.listed[u]) /\ StoreStays
        /\ ses' = Cleared(s, u)
    BY <1>5, <1>13 DEF SendChanged, PdaChanges, Leave, StoreStays, Holding
  <2>2. id # 0
    BY <2>1, PdaFacts, NoPidIsZero
  <2>3. u \in DOMAIN m.uids /\ id = m.uids[u].pid
    BY <2>2 DEF LookupPid, id
  <2>4. Hands(t, Without(ses.changed, u), ses.queue \ {u}, ses.todo)
    BY <1>4, <1>10, <2>1 DEF Hands, Holding
  <2>5. SentChanged(u, id, t)
    BY <1>7, <2>1, <2>3, <2>4 DEF SentChanged, m
  <2> QED BY <1>1, <2>5 DEF LocalForm
<1> QED BY <1>2, <1>11, <1>12, <1>13

---------------------------------------------------------------------------
(* The steps of the copying operations.                                     *)
Deleted(u, M) ==
  /\ u \in ses.queue /\ StoreLoses(u) /\ PdaStays
  /\ Beyond(M, ses.map, u, 0) /\ u \notin DOMAIN M.uids
  /\ Hands(M, ses.changed, ses.queue \ {u}, ses.todo)
Dropped(p) ==
  /\ StoreStays /\ PdaLoses(p)
  /\ Hands(ses.map, ses.changed, ses.queue, ses.todo \ {p})

(* So do the two loops of copying.                                          *)
LEMMA CopyForms ==
  ASSUME IInv, TypeOK, CopyFromPilot \/ CopyToPilot
  PROVE  /\ InHandler /\ ses.op \in {"copy from", "copy to"}
         /\ \/ \E u, M : u \in Uids /\ Deleted(u, M)
            \/ \E p, M : p \in DOMAIN pda /\ p \in ses.todo /\ Added(p, M, ses.queue)
            \/ \E p \in DOMAIN pda : p \in ses.todo /\ Dropped(p)
<1> DEFINE m == ses.map
<1>1. InHandler /\ phase # "idle" /\ ses.op \in {"copy from", "copy to"}
  BY DEF CopyFromPilot, CopyToPilot, InHandler
<1>2. GoodMap(m) /\ ses.queue \subseteq Uids /\ ses.todo \subseteq DOMAIN pda /\ ses.todo \subseteq Pids
  BY <1>1, SessionFacts DEF IInv, GoodSession
<1>4. ses = [op |-> ses.op, slow |-> ses.slow, cfg |-> ses.cfg, map |-> ses.map,
             changed |-> ses.changed, listed |-> ses.listed,
             queue |-> ses.queue, todo |-> ses.todo]
  BY <1>1, SessionFacts
<1>5. CASE CopyToPilot
  <2>1. PICK p \in ses.todo : pda' = Without(pda, p) /\ ses' = [ses EXCEPT !.todo = @ \ {p}]
    BY <1>5 DEF CopyToPilot
  <2>2. StoreStays /\ PdaLoses(p)
    BY <1>5, <2>1 DEF CopyToPilot, StoreStays, PdaLoses
  <2>3. Hands(ses.map, ses.changed, ses.queue, ses.todo \ {p})
    BY <1>4, <2>1 DEF Hands, Holding
  <2> QED BY <1>1, <1>2, <2>2, <2>3 DEF Dropped
<1>6. CASE CopyFromPilot /\ ses.queue # {}
  <2>1. PICK u \in ses.queue : DeleteRecord([ses EXCEPT !.queue = @ \ {u}], u)
    BY <1>6 DEF CopyFromPilot
  <2> DEFINE M == RemoveByUid(m, u)
  <2>2. /\ StoreLoses(u) /\ PdaStays
        /\ ses' = [[ses EXCEPT !.queue = @ \ {u}] EXCEPT !.map = M]
    BY <1>4, <1>6, <2>1 DEF DeleteRecord, StoreLoses, PdaStays, CopyFromPilot
  <2>3. Beyond(M, m, u, 0) /\ u \notin DOMAIN M.uids
    BY <1>2, RemoveByUidUids DEF Beyond
  <2> HIDE DEF M
  <2>4. Hands(M, ses.changed, ses.queue \ {u}, ses.todo)
    BY <1>4, <2>2 DEF Hands, Holding
  <2>5. Deleted(u, M)
    BY <2>2, <2>3, <2>4 DEF Deleted
  <2> QED BY <1>1, <1>2, <2>5
<1>7. CASE CopyFromPilot /\ ses.queue = {}
  <2>1. PICK p \in ses.todo : AddRecord([ses EXCEPT !.todo = @ \ {p}], p)
    BY <1>7 DEF CopyFromPilot
  <2> DEFINE M == Insert(m, p, NewUid, FALSE)
  <2>2. /\ StoreGains(pda[p].item) /\ PdaStays
        /\ ses' = [[ses EXCEPT !.todo = @ \ {p}] EXCEPT !.map = M]
    BY <1>4, <1>7, <2>1 DEF AddRecord, StoreGains, PdaStays, CopyFromPilot
  <2>3. /\ Beyond(M, m, NewUid, p)
        /\ NewUid \in DOMAIN M.uids
        /\ M.uids[NewUid] = [pid |-> p, archived |-> FALSE, touched |-> TRUE]
    <3>1. NewUid \in Uids /\ GoodMap(m) /\ p \in Pids \cup {0} /\ FALSE \in BOOLEAN
      BY <1>2, <2>2 DEF StoreGains
    <3> QED BY ONLY <3>1, InsertUids
  <2> HIDE DEF M
  <2>4. Hands(M, ses.changed, ses.queue, ses.todo \ {p})
    BY <1>4, <2>2 DEF Hands, Holding
  <2>5. Added(p, M, ses.queue)
    BY <2>2, <2>3, <2>4 DEF Added
  <2> QED BY <1>1, <1>2, <2>5
<1> QED BY <1>5, <1>6, <1>7

(* What the store and the PDA hold after such a change.                     *)
LEMMA StoreLess ==
  ASSUME TypeOK, phase # "idle", NEW w, StoreStays \/ StoreLoses(w)
  PROVE  /\ store' \in [Sources -> Content] /\ uidsUsed' = uidsUsed
         /\ \A s \in Sources : /\ DOMAIN store'[s] \subseteq DOMAIN store[s]
                               /\ \A v \in DOMAIN store'[s] : store'[s][v] = store[s][v]
                               /\ \A v \in DOMAIN store[s] : v # w => v \in DOMAIN store'[s]
<1>1. ses.cfg.source \in Sources /\ store \in [Sources -> Content]
  BY SessionFacts DEF TypeOK
<1>2. CASE StoreStays
  BY <1>1, <1>2 DEF StoreStays
<1>3. CASE StoreLoses(w)
  <2> DEFINE src == ses.cfg.source
             rest == Without(store[src], w)
  <2>1. store' = [store EXCEPT ![src] = rest] /\ uidsUsed' = uidsUsed
    BY <1>3 DEF StoreLoses
  <2>2. rest \in Content
    BY <1>1, PartialWithout, TypesArePartial
  <2>3. /\ DOMAIN rest = DOMAIN store[src] \ {w}
        /\ \A v \in DOMAIN rest : rest[v] = store[src][v]
    BY DEF Without
  <2> HIDE DEF rest
  <2> QED BY <1>1, <2>1, <2>2, <2>3
<1> QED BY <1>2, <1>3

(* An object that is removed is in its source no more.                      *)
LEMMA StoreLost ==
  ASSUME TypeOK, phase # "idle", NEW w, StoreLoses(w)
  PROVE  w \notin DOMAIN store'[ses.cfg.source]
<1>1. ses.cfg.source \in Sources /\ store \in [Sources -> Content]
  BY SessionFacts DEF TypeOK
<1> QED BY <1>1 DEF StoreLoses, Without

(* An object that is made of a record gets the next uid.                    *)
LEMMA StoreMore ==
  ASSUME TypeOK, phase # "idle", NEW x \in Things, StoreGains(x)
  PROVE  /\ store' \in [Sources -> Content] /\ uidsUsed' = NewUid /\ NewUid \in Uids
         /\ \A s \in Sources :
              /\ \A v : v \in DOMAIN store'[s]
                   <=> v \in DOMAIN store[s] \/ (v = NewUid /\ s = ses.cfg.source)
              /\ \A v \in DOMAIN store[s] :
                   v # NewUid => store'[s][v] = store[s][v]
         /\ ses.cfg.source \in Sources
         /\ store'[ses.cfg.source][NewUid] = x
<1>1. ses.cfg.source \in Sources /\ store \in [Sources -> Content]
  BY SessionFacts DEF TypeOK
<1> DEFINE src == ses.cfg.source
           more == Put(store[src], NewUid, x)
<1>2. store' = [store EXCEPT ![src] = more] /\ uidsUsed' = NewUid /\ NewUid \in Uids
  BY DEF StoreGains
<1>3. more \in Content
  BY <1>1, <1>2, PartialPut, TypesArePartial
<1>4. /\ \A v : v \in DOMAIN more <=> v \in DOMAIN store[src] \/ v = NewUid
      /\ \A v \in DOMAIN store[src] : v # NewUid => more[v] = store[src][v]
      /\ more[NewUid] = x
  BY DEF Put
<1> HIDE DEF more
<1> QED BY <1>1, <1>2, <1>3, <1>4

(* A record that is deleted leaves the others as they are.                  *)
LEMMA PdaLess ==
  ASSUME TypeOK, NEW p, PdaStays \/ PdaLoses(p)
  PROVE  /\ pda' \in Partial(Pids, [item: Things, flag: Flags]) /\ pidsUsed' = pidsUsed
         /\ DOMAIN pda' \subseteq DOMAIN pda
         /\ \A q \in DOMAIN pda' : pda'[q] = pda[q]
         /\ \A q \in DOMAIN pda : q # p => q \in DOMAIN pda'
         /\ PdaLoses(p) => p \notin DOMAIN pda'
<1> DEFINE V == [item: Things, flag: Flags]
<1>1. pda \in Partial(Pids, V)
  BY TypesArePartial DEF TypeOK
<1> HIDE DEF V
<1>2. CASE PdaStays
  BY <1>1, <1>2 DEF PdaStays, V, PdaLoses, Without
<1>3. CASE PdaLoses(p)
  BY <1>1, <1>3, PartialWithout DEF PdaLoses, Without, V
<1> QED BY <1>2, <1>3

(* A record that is made of an object gets the next id.                     *)
LEMMA PdaMore ==
  ASSUME TypeOK, NEW x \in Things, PdaGains(x)
  PROVE  /\ pda' \in Partial(Pids, [item: Things, flag: Flags])
         /\ pidsUsed' = NewPid /\ NewPid \in Pids
         /\ DOMAIN pda' = DOMAIN pda \cup {NewPid}
         /\ \A q \in DOMAIN pda : q # NewPid => pda'[q] = pda[q]
         /\ pda'[NewPid] = [item |-> x, flag |-> "none"]
<1> DEFINE V == [item: Things, flag: Flags]
           r == [item |-> x, flag |-> "none"]
<1>1. pda \in Partial(Pids, V)
  BY TypesArePartial DEF TypeOK
<1>2. r \in V
  BY DEF Flags
<1>3. pda' = Put(pda, NewPid, r) /\ pidsUsed' = NewPid /\ NewPid \in Pids
  BY DEF PdaGains
<1> HIDE DEF V, r
<1>4. pda' \in Partial(Pids, V)
  BY <1>1, <1>2, <1>3, PartialPut
<1>5. /\ DOMAIN pda' = DOMAIN pda \cup {NewPid}
      /\ \A q \in DOMAIN pda : q # NewPid => pda'[q] = pda[q]
      /\ pda'[NewPid] = r
  BY <1>3 DEF Put
<1> QED BY <1>3, <1>4, <1>5 DEF V, r

(* A record that is written over keeps its id.                              *)
LEMMA PdaOverwritten ==
  ASSUME TypeOK, NEW p \in DOMAIN pda, NEW x \in Things, PdaChanges(p, x)
  PROVE  /\ pda' \in Partial(Pids, [item: Things, flag: Flags]) /\ pidsUsed' = pidsUsed
         /\ DOMAIN pda' = DOMAIN pda
         /\ \A q \in DOMAIN pda : q # p => pda'[q] = pda[q]
         /\ pda'[p] = [item |-> x, flag |-> "none"]
<1> DEFINE V == [item: Things, flag: Flags]
           r == [item |-> x, flag |-> "none"]
<1>1. pda \in Partial(Pids, V)
  BY TypesArePartial DEF TypeOK
<1>2. r \in V
  BY DEF Flags
<1>3. pda' = [pda EXCEPT ![p] = r] /\ pidsUsed' = pidsUsed
  BY DEF PdaChanges
<1> HIDE DEF V, r
<1>4. /\ DOMAIN pda' = DOMAIN pda
      /\ \A q \in DOMAIN pda : q # p => pda'[q] = pda[q]
      /\ pda'[p] = r
      /\ pda' = [q \in DOMAIN pda' |-> pda'[q]]
  BY <1>3
<1>5. pda' \in Partial(Pids, V)
  BY <1>1, <1>2, <1>4, PartialFacts
<1> QED BY <1>3, <1>4, <1>5 DEF V, r

---------------------------------------------------------------------------
(* In all a handler does one of three things: nothing comes to be that was  *)
(* not there, an object is made of a record, or a record of an object.      *)
Lesser(w, M, C, Q, T) ==
  /\ Hands(M, C, Q, T)
  /\ C \in {ses.changed, Without(ses.changed, w)}
  /\ Q \subseteq ses.queue /\ T \subseteq ses.todo
  /\ GoodMap(M) /\ M.touchedOnly = ses.map.touchedOnly
  /\ \A v \in DOMAIN M.uids : v \in DOMAIN ses.map.uids /\ M.uids[v].pid = ses.map.uids[v].pid
  /\ StoreStays \/ StoreLoses(w)
  /\ \/ PdaStays
     \/ \E p : PdaLoses(p)
     \/ /\ w \in ses.queue
        /\ w \in DOMAIN ses.map.uids /\ ses.map.uids[w].pid \in DOMAIN pda
        /\ PdaChanges(ses.map.uids[w].pid, ses.listed[w])

Handler ==
  /\ InHandler
  /\ \/ \E w, M, C, Q, T : Lesser(w, M, C, Q, T)
     \/ \E p, M : p \in DOMAIN pda /\ Added(p, M, ses.queue)
     \/ \E u, M : u \in ses.queue /\ SentNew(u, M)

(* The entry of a record that was made of an object.                        *)
LEMMA SentEntry ==
  ASSUME NEW u, NEW M, SentNew(u, M)
  PROVE  /\ u \in DOMAIN M.uids
         /\ M.uids[u].pid = NewPid /\ ~M.uids[u].archived /\ M.uids[u].touched
<1>1. /\ u \in DOMAIN M.uids
      /\ M.uids[u] = [pid |-> NewPid, archived |-> FALSE, touched |-> TRUE]
  BY Zenon DEF SentNew
<1> QED BY ONLY <1>1

(* A change about one uid that pairs it with nothing new brings nothing new *)
(* into the map.                                                            *)
LEMMA BeyondIsLess ==
  ASSUME NEW m, NEW M, NEW w, Beyond(M, m, w, 0),
         w \in DOMAIN M.uids => w \in DOMAIN m.uids /\ M.uids[w].pid = m.uids[w].pid
  PROVE  /\ GoodMap(M) /\ M.touchedOnly = m.touchedOnly
         /\ \A v \in DOMAIN M.uids : v \in DOMAIN m.uids /\ M.uids[v].pid = m.uids[v].pid
BY DEF Beyond

(* All callbacks and loops of a session together.                           *)
LEMMA HandlerForms ==
  ASSUME IInv, TypeOK,
         \/ \E p \in Pids : RemoteRecord(p)
         \/ CopyFromPilot \/ CopyToPilot
         \/ \E u \in Uids : LocalObject(u)
  PROVE  Handler
<1>1. phase # "idle" => GoodMap(ses.map)
  BY DEF IInv, GoodSession
<1>2. ASSUME NEW p, Ignored(p), phase # "idle"
      PROVE  Lesser(0, ses.map, ses.changed, ses.queue, ses.todo \ {p})
  BY <1>1, <1>2 DEF Ignored, Lesser
<1>3. ASSUME NEW p, Dropped(p), phase # "idle"
      PROVE  Lesser(0, ses.map, ses.changed, ses.queue, ses.todo \ {p})
  BY <1>1, <1>3 DEF Dropped, Lesser
<1>4. ASSUME NEW p, NEW w, NEW M, Removed(p, w, M)
      PROVE  Lesser(w, M, Without(ses.changed, w), ses.queue, ses.todo \ {p})
  <2>1. Beyond(M, ses.map, w, 0) /\ w \notin DOMAIN M.uids
    BY <1>4 DEF Removed
  <2>2. /\ GoodMap(M) /\ M.touchedOnly = ses.map.touchedOnly
        /\ \A v \in DOMAIN M.uids : v \in DOMAIN ses.map.uids /\ M.uids[v].pid = ses.map.uids[v].pid
    BY <2>1, BeyondIsLess
  <2> QED BY <1>4, <2>2 DEF Removed, Lesser
<1>5. ASSUME NEW p, NEW w, NEW M, NEW C, NEW a, Settled(p, w, M, C, a)
      PROVE  Lesser(w, M, C, ses.queue, ses.todo \ {p})
  BY <1>5, BeyondIsLess DEF Settled, Lesser
<1>6. ASSUME NEW u, NEW M, Deleted(u, M)
      PROVE  Lesser(u, M, ses.changed, ses.queue \ {u}, ses.todo)
  BY <1>6, BeyondIsLess DEF Deleted, Lesser
<1>7. ASSUME NEW u, NEW M, SentDeletion(u, M)
      PROVE  Lesser(u, M, Without(ses.changed, u), ses.queue \ {u}, ses.todo)
  BY <1>7, BeyondIsLess DEF SentDeletion, Lesser
<1>8. ASSUME NEW u \in ses.queue, NEW p, NEW M, SentChanged(u, p, M)
      PROVE  Lesser(u, M, Without(ses.changed, u), ses.queue \ {u}, ses.todo)
  <2>1. Beyond(M, ses.map, u, 0) /\ u \in DOMAIN ses.map.uids /\ M.uids[u].pid = ses.map.uids[u].pid
    BY <1>8 DEF SentChanged
  <2>2. /\ GoodMap(M) /\ M.touchedOnly = ses.map.touchedOnly
        /\ \A v \in DOMAIN M.uids : v \in DOMAIN ses.map.uids /\ M.uids[v].pid = ses.map.uids[v].pid
    BY <2>1, BeyondIsLess
  <2> QED BY <1>8, <2>2 DEF SentChanged, Lesser
<1>9. CASE \E p \in Pids : RemoteRecord(p)
  <2>1. PICK p \in Pids : RemoteRecord(p)
    BY <1>9
  <2>2. InHandler /\ phase # "idle" /\ p \in DOMAIN pda /\ RemoteForm(p)
    BY <2>1, RemoteForms DEF InHandler
  <2>3. CASE Ignored(p)
    BY <1>2, <2>2, <2>3 DEF Handler
  <2>4. CASE \E M : Added(p, M, ses.queue)
    BY <2>2, <2>4 DEF Handler
  <2>5. CASE \E w, M : Removed(p, w, M)
    BY <1>4, <2>2, <2>5 DEF Handler
  <2>6. CASE \E w, M, C, a : Settled(p, w, M, C, a)
    BY <1>5, <2>2, <2>6 DEF Handler
  <2> QED BY <2>2, <2>3, <2>4, <2>5, <2>6 DEF RemoteForm
<1>10. CASE CopyFromPilot \/ CopyToPilot
  <2>1. /\ InHandler /\ phase # "idle"
        /\ \/ \E u, M : u \in Uids /\ Deleted(u, M)
           \/ \E p, M : p \in DOMAIN pda /\ p \in ses.todo /\ Added(p, M, ses.queue)
           \/ \E p \in DOMAIN pda : p \in ses.todo /\ Dropped(p)
    BY <1>10, CopyForms DEF InHandler
  <2> QED BY <1>3, <1>6, <2>1 DEF Handler
<1>11. CASE \E u \in Uids : LocalObject(u)
  <2>1. PICK u \in Uids : LocalObject(u)
    BY <1>11
  <2>2. InHandler /\ u \in ses.queue /\ LocalForm(u)
    BY <2>1, LocalForms
  <2> QED BY <1>7, <1>8, <2>2 DEF LocalForm, Handler
<1> QED BY <1>9, <1>10, <1>11

---------------------------------------------------------------------------
(* Types, and what has been handed out, under the handlers.                 *)
LEMMA SessionTyped ==
  ASSUME TypeOK, phase # "idle", NEW w, NEW M, NEW C, NEW Q, NEW T, Hands(M, C, Q, T),
         C \in {ses.changed, Without(ses.changed, w)},
         Q \subseteq ses.queue, T \subseteq ses.todo,
         GoodMap(M), M.touchedOnly = ses.map.touchedOnly
  PROVE  ses' \in Session /\ DOMAIN ses'.changed \subseteq DOMAIN ses.changed
<1>1. M \in Tables
  BY SessionFacts, GoodMapIsTables
<1>2. C \in Partial(Uids, Changes) /\ DOMAIN C \subseteq DOMAIN ses.changed
  BY SessionFacts, PartialWithout DEF Without
<1> QED BY <1>1, <1>2, SessionFacts, HandsFields

(* A handler that brings in nothing new leaves the PDA of its type.         *)
LEMMA LesserPda ==
  ASSUME TInv, phase # "idle", NEW w, NEW M, NEW C, NEW Q, NEW T, Lesser(w, M, C, Q, T)
  PROVE  /\ pda' \in Partial(Pids, [item: Things, flag: Flags]) /\ pidsUsed' = pidsUsed
         /\ DOMAIN pda' \subseteq DOMAIN pda
<1>1. CASE PdaStays \/ \E p : PdaLoses(p)
  BY <1>1, PdaLess DEF TInv
<1>2. CASE /\ w \in ses.queue /\ w \in DOMAIN ses.map.uids /\ ses.map.uids[w].pid \in DOMAIN pda
           /\ PdaChanges(ses.map.uids[w].pid, ses.listed[w])
  <2>1. ses.listed[w] \in Things
    BY <1>2, SessionFacts DEF TInv, Handed
  <2> QED BY <1>2, <2>1, PdaOverwritten DEF TInv
<1> QED BY <1>1, <1>2 DEF Lesser

(* Such a handler keeps the types, and what has been handed out.            *)
LEMMA LesserTyped ==
  ASSUME TInv, InHandler, NEW w, NEW M, NEW C, NEW Q, NEW T, Lesser(w, M, C, Q, T)
  PROVE  TypeOK' /\ Handed'
<1>1. phase # "idle" /\ phase' # "idle" /\ TypeOK
  BY DEF InHandler, TInv
<1>2. /\ ses' \in Session /\ DOMAIN ses'.changed \subseteq DOMAIN ses.changed
      /\ ses'.listed = ses.listed /\ ses'.map = M /\ ses'.queue = Q
  BY <1>1, SessionTyped, HandsFields DEF Lesser
<1>3. /\ pda' \in Partial(Pids, [item: Things, flag: Flags]) /\ pidsUsed' = pidsUsed
      /\ DOMAIN pda' \subseteq DOMAIN pda
  BY <1>1, LesserPda
<1>4. /\ store' \in [Sources -> Content] /\ uidsUsed' = uidsUsed
      /\ \A s \in Sources : DOMAIN store'[s] \subseteq DOMAIN store[s]
  BY <1>1, StoreLess DEF Lesser
<1>5. TypeOK'
  BY <1>1, <1>2, <1>3, <1>4, TypesArePartial DEF TypeOK, InHandler
<1>6. Handed'
  BY <1>1, <1>2, <1>3, <1>4 DEF TInv, Handed, InHandler, Lesser
<1> QED BY <1>5, <1>6

(* So does one that makes an object of a record ...                         *)
LEMMA AddedTyped ==
  ASSUME TInv, InHandler, NEW p \in DOMAIN pda, NEW M, Added(p, M, ses.queue)
  PROVE  TypeOK' /\ Handed'
<1>1. phase # "idle" /\ phase' # "idle" /\ TypeOK
  BY DEF InHandler, TInv
<1>2. /\ ses' \in Session /\ DOMAIN ses'.changed \subseteq DOMAIN ses.changed
      /\ ses'.listed = ses.listed /\ ses'.map = M /\ ses'.queue = ses.queue
  <2>1. /\ Hands(M, ses.changed, ses.queue, ses.todo \ {p})
        /\ GoodMap(M) /\ M.touchedOnly = ses.map.touchedOnly
    BY DEF Added, Beyond
  <2> QED BY <1>1, <2>1, SessionTyped, HandsFields
<1>3. pda[p].item \in Things /\ UNCHANGED <<pda, pidsUsed>>
  BY <1>1, PdaFacts DEF Added, PdaStays
<1>4. /\ store' \in [Sources -> Content] /\ uidsUsed' = NewUid /\ NewUid \in Uids
      /\ \A s \in Sources : \A v : v \in DOMAIN store'[s]
           <=> v \in DOMAIN store[s] \/ (v = NewUid /\ s = ses.cfg.source)
  BY <1>1, <1>3, StoreMore DEF Added
<1>5. TypeOK'
  BY <1>1, <1>2, <1>3, <1>4 DEF TypeOK, InHandler
<1>6. /\ uidsUsed \in Nat /\ NewUid = uidsUsed + 1
      /\ \A u \in Uids : u \in Nat
  BY <1>1, Counters
<1>7. ASSUME NEW s \in Sources, NEW u \in DOMAIN store[s]
      PROVE  u \in Nat /\ u # NewUid
  BY <1>1, <1>6, StoreFacts DEF TInv, Handed
<1>8. ASSUME NEW u \in DOMAIN M.uids
      PROVE  u <= NewUid /\ M.uids[u].pid <= pidsUsed
  <2>1. CASE u = NewUid
    <3>1. p <= pidsUsed
      BY DEF TInv, Handed
    <3> QED BY <1>6, <2>1, <3>1 DEF Added
  <2>2. CASE u # NewUid
    <3>1. u \in DOMAIN ses.map.uids /\ M.uids[u].pid = ses.map.uids[u].pid
      BY <1>8, <2>2 DEF Added, Beyond
    <3>2. u \in Nat
      BY <1>1, <1>6, <3>1, InverseFacts DEF TInv, IInv, GoodSession
    <3> QED BY <1>1, <1>6, <3>1, <3>2 DEF TInv, Handed
  <2> QED BY <2>1, <2>2
<1>9. /\ \A u \in DOMAIN file : u \in Nat
      /\ \A u \in DOMAIN ses.listed : u \in Nat
  BY <1>1, <1>6, SessionFacts DEF TInv, IInv, GoodFile
<1>10. Handed'
  BY <1>1, <1>2, <1>3, <1>4, <1>6, <1>7, <1>8, <1>9 DEF TInv, Handed, InHandler
<1> QED BY <1>5, <1>10

(* ... and one that makes a record of an object.                            *)
LEMMA SentTyped ==
  ASSUME TInv, InHandler, NEW u \in ses.queue, NEW M, SentNew(u, M)
  PROVE  TypeOK' /\ Handed'
<1>1. phase # "idle" /\ phase' # "idle" /\ TypeOK
  BY DEF InHandler, TInv
<1>2. /\ ses' \in Session /\ DOMAIN ses'.changed \subseteq DOMAIN ses.changed
      /\ ses'.listed = ses.listed /\ ses'.map = M /\ ses'.queue = ses.queue \ {u}
  <2>1. /\ Hands(M, Without(ses.changed, u), ses.queue \ {u}, ses.todo)
        /\ GoodMap(M) /\ M.touchedOnly = ses.map.touchedOnly
    BY DEF SentNew, Beyond
  <2> QED BY <1>1, <2>1, SessionTyped, HandsFields
<1>3. ses.listed[u] \in Things /\ u \in DOMAIN ses.listed /\ u <= uidsUsed
  BY <1>1, SessionFacts DEF TInv, Handed
<1>4. UNCHANGED <<store, uidsUsed>>
  BY DEF SentNew, StoreStays
<1>5. /\ pda' \in Partial(Pids, [item: Things, flag: Flags])
      /\ pidsUsed' = NewPid /\ NewPid \in Pids
      /\ DOMAIN pda' = DOMAIN pda \cup {NewPid}
  BY <1>1, <1>3, PdaMore DEF SentNew
<1>6. TypeOK'
  BY <1>1, <1>2, <1>4, <1>5, TypesArePartial DEF TypeOK, InHandler
<1>7. /\ pidsUsed \in Nat /\ NewPid = pidsUsed + 1
      /\ \A q \in Pids : q \in Nat
  BY <1>1, Counters
<1>8. ASSUME NEW v \in DOMAIN M.uids
      PROVE  v <= uidsUsed /\ M.uids[v].pid <= NewPid
  <2>1. CASE v = u
    <3>1. M.uids[u].pid = NewPid
      BY SentEntry
    <3> QED BY <1>3, <1>7, <2>1, <3>1
  <2>2. CASE v # u
    <3>1. v \in DOMAIN ses.map.uids /\ M.uids[v].pid = ses.map.uids[v].pid
      BY <1>8, <2>2 DEF SentNew, Beyond
    <3>2. ses.map.uids[v].pid \in Nat
      <4>1. GoodMap(ses.map)
        BY <1>1 DEF TInv, IInv, GoodSession
      <4>2. ses.map.uids[v] \in UidNode
        BY ONLY <3>1, <4>1, InverseFacts
      <4>3. ses.map.uids[v].pid \in Pids \cup {0}
        BY ONLY <4>2 DEF UidNode
      <4> QED BY ONLY <1>7, <4>3
    <3> QED BY <1>1, <1>7, <3>1, <3>2 DEF TInv, Handed
  <2> QED BY <2>1, <2>2
<1>9. /\ \A q \in DOMAIN pda : q \in Nat
      /\ \A v \in DOMAIN file : file[v].pid \in Nat
  <2>1. \A v \in DOMAIN file : file[v] \in Entry
    BY DEF TInv, IInv, GoodFile
  <2> QED BY <1>1, <1>7, <2>1, PdaFacts DEF Entry
<1>10. Handed'
  BY <1>1, <1>2, <1>4, <1>5, <1>7, <1>8, <1>9 DEF TInv, Handed, InHandler
<1> QED BY <1>6, <1>10

-------------------------------------------------------------------------------
(* The begin of a session.                                                  *)

(* A function, and a record with the fields of a session.                   *)
IsTable(f) == f = [x \in DOMAIN f |-> f[x]]
IsSession(s) ==
  s = [op |-> s.op, slow |-> s.slow, cfg |-> s.cfg, map |-> s.map,
       changed |-> s.changed, listed |-> s.listed, queue |-> s.queue, todo |-> s.todo]

(* What is left of the changes when those of archived objects are gone.     *)
Restricts(C, changes, m) ==
  /\ \A u : u \in DOMAIN C <=> u \in DOMAIN changes /\ ~UidIsArchived(m, u)
  /\ \A u \in DOMAIN C : C[u] = changes[u]
  /\ IsTable(C)

(* What a session begins with.                                              *)
LEMMA BeginFacts ==
  ASSUME TypeOK, phase = "loaded", NEW m, GoodMap(m), NEW comps, NEW changes,
         Begin(m, comps, changes)
  PROVE  /\ phase' = "running" /\ UNCHANGED <<kind, pda, file, conf, gui, pidsUsed, left>>
         /\ ses'.op = ses.op /\ ses'.cfg = ses.cfg /\ ses'.listed = comps
         /\ (ses'.slow <=> ses.slow \/ DOMAIN m.pids = {} \/ OtherSource(ses.cfg))
         /\ ses'.slow \in BOOLEAN
         /\ GoodMap(ses'.map)
         /\ (ses'.map.touchedOnly <=> ses'.slow \/ ses.op \in {"copy to", "copy from"})
         /\ ses'.map.touchedOnly \in BOOLEAN
         /\ ses'.map.uids = IF OtherSource(ses.cfg) THEN NoEntries ELSE m.uids
         /\ Restricts(ses'.changed, changes, m)
         /\ ses'.queue = ObjectsToTreat(comps, changes)
         /\ ses'.todo = RecordsToTreat(ses'.slow)
         /\ IsSession(ses')
         /\ wounds' = IF OtherSource(ses.cfg) /\ DOMAIN m.uids # {}
                      THEN wounds \cup {"unfinished"} ELSE wounds
<1> DEFINE slow == ses.slow \/ DOMAIN m.pids = {} \/ OtherSource(ses.cfg)
           base == IF OtherSource(ses.cfg) THEN Clear(m) ELSE m
           touched == slow \/ ses.op \in {"copy to", "copy from"}
           map == [base EXCEPT !.touchedOnly = touched]
<1>1. CheckForSlow(m) = [slow |-> slow, map |-> map]
  BY Zenon DEF CheckForSlow
<1>2. /\ GoodMap(base) /\ base.uids = IF OtherSource(ses.cfg) THEN NoEntries ELSE m.uids
  <2>1. CASE OtherSource(ses.cfg)
    <3>1. Clear(m) = [m EXCEPT !.pids = NoEntries, !.uids = NoEntries]
      BY Zenon DEF Clear
    <3>2. m = [pids |-> m.pids, uids |-> m.uids, touchedOnly |-> m.touchedOnly]
      BY DEF GoodMap
    <3>3. Clear(m) = [pids |-> NoEntries, uids |-> NoEntries, touchedOnly |-> m.touchedOnly]
      BY <3>1, <3>2, NewTables
    <3>4. GoodMap(Clear(m))
      BY <3>3 DEF GoodMap, PidTable, UidTable, InverseTables, NoEntries
    <3> QED BY <2>1, <3>3, <3>4
  <2> QED BY <2>1
<1>3. ses = Holding(ses.map, ses.changed, ses.queue, ses.todo) /\ ses.slow \in BOOLEAN
  BY SessionHolds, SessionFacts
<1>4. ses' = [ses EXCEPT
          !.map = map, !.slow = slow,
          !.changed = ChangedHash(m, changes), !.listed = comps,
          !.queue = ObjectsToTreat(comps, changes),
          !.todo = RecordsToTreat(slow)]
  <2>1. /\ ses' = [ses EXCEPT
          !.map = CheckForSlow(m).map, !.slow = CheckForSlow(m).slow,
          !.changed = ChangedHash(m, changes), !.listed = comps,
          !.queue = ObjectsToTreat(comps, changes),
          !.todo = RecordsToTreat(CheckForSlow(m).slow)]
    BY Zenon DEF Begin
  <2> HIDE DEF map, slow
  <2>2. CheckForSlow(m).map = map /\ CheckForSlow(m).slow = slow
    BY <1>1
  <2> QED BY <2>1, <2>2, Zenon
<1>5. slow \in BOOLEAN /\ touched \in BOOLEAN
  BY <1>3
<1>6. base = [pids |-> base.pids, uids |-> base.uids, touchedOnly |-> base.touchedOnly]
  BY <1>2 DEF GoodMap
<1>7. /\ UNCHANGED <<kind, pda, file, conf, gui, pidsUsed, left>> /\ phase' = "running"
      /\ wounds' = IF OtherSource(ses.cfg) /\ DOMAIN m.uids # {}
                   THEN wounds \cup {"unfinished"} ELSE wounds
  BY Zenon DEF Begin
<1> DEFINE C == ChangedHash(m, changes)
<1>8. Restricts(C, changes, m)
  BY DEF ChangedHash, IsTable, Restricts
<1>9. slow = (ses.slow \/ DOMAIN m.pids = {} \/ OtherSource(ses.cfg))
  OBVIOUS
<1>10. touched = (slow \/ ses.op \in {"copy to", "copy from"})
  OBVIOUS
<1> HIDE DEF slow, base, touched, C
<1>11. map = [pids |-> base.pids, uids |-> base.uids, touchedOnly |-> touched]
  BY <1>6
<1>12. GoodMap(map) /\ map.uids = base.uids /\ map.touchedOnly = touched
  <2> HIDE DEF map
  <2>1. map.pids = base.pids /\ map.uids = base.uids /\ map.touchedOnly = touched
    BY <1>11
  <2> QED BY <1>2, <1>11, <2>1 DEF GoodMap, InverseTables
<1> HIDE DEF map
<1>13. ses' = [op |-> ses.op, slow |-> slow, cfg |-> ses.cfg, map |-> map,
               changed |-> C, listed |-> comps,
               queue |-> ObjectsToTreat(comps, changes), todo |-> RecordsToTreat(slow)]
  BY <1>3, <1>4 DEF Holding, C
<1>14. /\ ses'.op = ses.op /\ ses'.slow = slow /\ ses'.cfg = ses.cfg /\ ses'.map = map
       /\ ses'.changed = C /\ ses'.listed = comps
       /\ ses'.queue = ObjectsToTreat(comps, changes) /\ ses'.todo = RecordsToTreat(slow)
  BY <1>13
<1>15. (ses'.slow <=> ses.slow \/ DOMAIN m.pids = {} \/ OtherSource(ses.cfg)) /\ ses'.slow \in BOOLEAN
  BY <1>5, <1>9, <1>14, Zenon
<1>16. /\ (ses'.map.touchedOnly <=> ses'.slow \/ ses.op \in {"copy to", "copy from"})
       /\ ses'.map.touchedOnly \in BOOLEAN
  BY <1>5, <1>10, <1>12, <1>14, Zenon
<1>17. IsSession(ses')
  BY <1>13, <1>14, Zenon DEF IsSession
<1>18. /\ GoodMap(ses'.map)
       /\ ses'.map.uids = IF OtherSource(ses.cfg) THEN NoEntries ELSE m.uids
  BY <1>2, <1>12, <1>14, Zenon
<1>19. Restricts(ses'.changed, changes, m)
  BY <1>8, <1>14, Zenon
<1>20. ses'.todo = RecordsToTreat(ses'.slow)
  BY <1>14, Zenon
<1> QED BY <1>7, <1>14, <1>15, <1>16, <1>17, <1>18, <1>19, <1>20, Zenon

(* The session is of the type, and knows only what it was given.            *)
LEMMA BeginTyped ==
  ASSUME TInv, phase = "loaded", NEW m, GoodMap(m), NEW comps \in Content,
         NEW changes \in Partial(Uids, Changes), DOMAIN changes \subseteq DOMAIN comps,
         Begin(m, comps, changes)
  PROVE  /\ ses' \in Session
         /\ ses'.queue \subseteq DOMAIN comps /\ DOMAIN ses'.changed \subseteq DOMAIN comps
         /\ DOMAIN ses'.map.uids \subseteq DOMAIN m.uids
         /\ \A u \in DOMAIN ses'.map.uids : ses'.map.uids[u] = m.uids[u]
<1>1. TypeOK /\ phase # "idle"
  BY DEF TInv
<1>2. DOMAIN comps \subseteq Uids
  BY PartialFacts, TypesArePartial
<1>3. /\ GoodMap(ses'.map) /\ ses'.map.touchedOnly \in BOOLEAN /\ ses'.slow \in BOOLEAN
      /\ ses'.map.uids = IF OtherSource(ses.cfg) THEN NoEntries ELSE m.uids
      /\ ses'.op = ses.op /\ ses'.cfg = ses.cfg /\ ses'.listed = comps
      /\ ses'.queue = ObjectsToTreat(comps, changes)
      /\ ses'.todo = RecordsToTreat(ses'.slow)
      /\ \A u : u \in DOMAIN ses'.changed <=> u \in DOMAIN changes /\ ~UidIsArchived(m, u)
      /\ \A u \in DOMAIN ses'.changed : ses'.changed[u] = changes[u]
      /\ IsTable(ses'.changed)
      /\ IsSession(ses')
  <2>1. /\ GoodMap(ses'.map) /\ ses'.map.touchedOnly \in BOOLEAN /\ ses'.slow \in BOOLEAN
    BY <1>1, BeginFacts
  <2>2. ses'.map.uids = IF OtherSource(ses.cfg) THEN NoEntries ELSE m.uids
    BY <1>1, BeginFacts
  <2>3. ses'.op = ses.op /\ ses'.cfg = ses.cfg /\ ses'.listed = comps
    BY <1>1, BeginFacts
  <2>4. ses'.queue = ObjectsToTreat(comps, changes)
    BY <1>1, BeginFacts
  <2>5. ses'.todo = RecordsToTreat(ses'.slow)
    BY <1>1, BeginFacts, Zenon
  <2>6. Restricts(ses'.changed, changes, m)
    BY <1>1, BeginFacts
  <2>7. /\ \A u : u \in DOMAIN ses'.changed <=> u \in DOMAIN changes /\ ~UidIsArchived(m, u)
        /\ \A u \in DOMAIN ses'.changed : ses'.changed[u] = changes[u]
        /\ IsTable(ses'.changed)
    BY ONLY <2>6 DEF Restricts
  <2>8. IsSession(ses')
    BY <1>1, BeginFacts
  <2> QED BY <2>1, <2>2, <2>3, <2>4, <2>5, <2>7, <2>8
<1>4. ses'.queue \subseteq DOMAIN comps
  BY <1>3 DEF ObjectsToTreat
<1>5. ses'.todo \subseteq Pids
  BY <1>1, <1>3, PdaFacts DEF RecordsToTreat
<1>6. ses'.changed \in Partial(Uids, Changes) /\ DOMAIN ses'.changed \subseteq DOMAIN comps
  BY <1>3, PartialFacts DEF IsTable
<1>7. ses'.map \in Tables
  BY <1>3, GoodMapIsTables
<1>8. ses.op \in Ops /\ ses.cfg \in Conf
  BY <1>1, SessionFacts
<1> DEFINE S == [op: Ops, slow: BOOLEAN, cfg: Conf, map: Tables,
                 changed: Partial(Uids, Changes), listed: Content,
                 queue: SUBSET Uids, todo: SUBSET Pids]
<1>9. ses' \in S
  <2>1. \A o \in Ops, b \in BOOLEAN, c \in Conf, t \in Tables, h \in Partial(Uids, Changes),
            l \in Content, q \in SUBSET Uids, d \in SUBSET Pids :
          [op |-> o, slow |-> b, cfg |-> c, map |-> t, changed |-> h, listed |-> l,
           queue |-> q, todo |-> d] \in S
    OBVIOUS
  <2> HIDE DEF S
  <2>2. /\ ses'.op \in Ops /\ ses'.cfg \in Conf /\ ses'.listed \in Content
        /\ ses'.queue \in SUBSET Uids /\ ses'.todo \in SUBSET Pids
    BY <1>2, <1>3, <1>4, <1>5, <1>8
  <2>3. [op |-> ses'.op, slow |-> ses'.slow, cfg |-> ses'.cfg, map |-> ses'.map,
         changed |-> ses'.changed, listed |-> ses'.listed,
         queue |-> ses'.queue, todo |-> ses'.todo] \in S
    BY <1>3, <1>6, <1>7, <2>1, <2>2, Zenon
  <2> QED BY <1>3, <2>3, Zenon DEF IsSession
<1>10. /\ DOMAIN ses'.map.uids \subseteq DOMAIN m.uids
       /\ \A u \in DOMAIN ses'.map.uids : ses'.map.uids[u] = m.uids[u]
  BY <1>3 DEF NoEntries
<1> QED BY <1>4, <1>6, <1>9, <1>10, TypesArePartial

(* The map that the file gives holds what the file holds.                   *)
LEMMA ReadTyped ==
  ASSUME TInv, NEW m, m = ReadMap(file)
  PROVE  /\ GoodMap(m)
         /\ \A u \in DOMAIN m.uids :
              /\ u \in DOMAIN file /\ u <= uidsUsed
              /\ m.uids[u].pid = file[u].pid /\ m.uids[u].pid <= pidsUsed
              /\ m.uids[u].archived = file[u].archived
<1>1. GoodFile(file) /\ \A u \in DOMAIN file : u <= uidsUsed /\ file[u].pid <= pidsUsed
  BY DEF TInv, IInv, Handed
<1>2. /\ GoodMap(m)
      /\ DOMAIN m.uids = Accepted(file) /\ Accepted(file) \subseteq DOMAIN file
      /\ \A u \in Accepted(file) : m.uids[u].pid = file[u].pid /\ m.uids[u].archived = file[u].archived
  <2>1. ReadGives(file, m)
    BY <1>1, ReadMapUids
  <2> QED BY <2>1 DEF ReadGives
<1> QED BY <1>1, <1>2

(* The three conduits that take every object as modified.                   *)
PlainPreSync == MemoPreSync \/ TodoPreSync \/ AddressPreSync

(* The contacts' and the tasks' pre_sync.                                   *)
LEMMA PlainTyped ==
  ASSUME TInv, PlainPreSync
  PROVE  TypeOK' /\ Handed'
<1> DEFINE m == ReadMap(file)
<1>1. /\ phase = "loaded" /\ Begin(m, Objects, AllModified(Objects))
      /\ UNCHANGED <<store, uidsUsed>> /\ TypeOK
  BY DEF PlainPreSync, MemoPreSync, TodoPreSync, AddressPreSync, TInv
<1>2. ses.cfg.source \in Sources
  BY <1>1, SessionFacts
<1>3. Objects \in Content /\ \A u \in DOMAIN Objects : u <= uidsUsed
  BY <1>1, <1>2, StoreFacts DEF Objects, TInv, Handed
<1>4. /\ AllModified(Objects) \in Partial(Uids, Changes)
      /\ DOMAIN AllModified(Objects) = DOMAIN Objects
  BY <1>3, PartialFacts, TypesArePartial DEF AllModified, Changes
<1>5. /\ GoodMap(m)
      /\ \A u \in DOMAIN m.uids : u <= uidsUsed /\ m.uids[u].pid <= pidsUsed
  BY ReadTyped
<1> HIDE DEF m
<1>6. /\ ses' \in Session /\ ses'.listed = Objects
      /\ ses'.queue \subseteq DOMAIN Objects /\ DOMAIN ses'.changed \subseteq DOMAIN Objects
      /\ DOMAIN ses'.map.uids \subseteq DOMAIN m.uids
      /\ \A u \in DOMAIN ses'.map.uids : ses'.map.uids[u] = m.uids[u]
  <2>1. ses'.listed = Objects
    BY <1>1, <1>5, BeginFacts
  <2> QED BY <1>1, <1>3, <1>4, <1>5, <2>1, BeginTyped
<1>7. /\ phase' = "running" /\ UNCHANGED <<kind, pda, file, conf, gui, pidsUsed, left>>
      /\ wounds' \in {wounds, wounds \cup {"unfinished"}}
  BY <1>1, <1>5, BeginFacts
<1>8. TypeOK'
  BY <1>1, <1>6, <1>7 DEF TypeOK, Phases, Wounds
<1>9. Handed'
  BY <1>1, <1>3, <1>5, <1>6, <1>7 DEF TInv, Handed
<1> QED BY <1>8, <1>9

(* The objects when the calendar has split what it splits.                  *)
Unsplit == [u \in DOMAIN Objects \ ToSplit |-> Objects[u]]
Kept(m) == DOMAIN Objects \ {u \in Spanning : LookupPid(m, u) = 0}

(* The calendar's pre_sync: it reads the map, forgets what it splits, and   *)
(* puts an event for each day in the place of each long one.                *)
LEMMA CalendarFacts ==
  ASSUME TInv, CalendarPreSync
  PROVE  /\ phase = "loaded" /\ kind = "calendar"
         /\ \E m, gone : /\ m = ReadMap(file) /\ GoodMap(m)
                         /\ gone = {u \in ToSplit \cap Kept(m) : u \in DOMAIN m.uids}
                         /\ GoodMap(ForgetArchived(m, gone))
                         /\ Begin(ForgetArchived(m, gone), Over(Clones, Objects), SplitChanges(m))
         /\ store' = [store EXCEPT ![ses.cfg.source] = Over(Clones, Unsplit)]
         /\ uidsUsed' = uidsUsed + Cardinality(DOMAIN Clones)
         /\ DOMAIN Clones \subseteq Uids
         /\ \A c \in DOMAIN Clones : c \notin DOMAIN Objects
         /\ \A m : /\ DOMAIN SplitChanges(m) = DOMAIN Clones \cup Kept(m)
                   /\ SplitChanges(m) \in Partial(Uids, Changes)
                   /\ \A c \in DOMAIN Clones : SplitChanges(m)[c] = "added"
                   /\ \A u \in Kept(m) : SplitChanges(m)[u] =
                        IF u \in ToSplit THEN "deleted" ELSE "modified"
<1>1. phase = "loaded" /\ kind = "calendar" /\ TypeOK /\ ses.cfg.source \in Sources
  BY SessionFacts DEF CalendarPreSync, TInv
<1>2. DOMAIN Clones \subseteq Uids /\ uidsUsed' = uidsUsed + Cardinality(DOMAIN Clones)
  BY Zenon DEF CalendarPreSync
<1>3. store' = [store EXCEPT ![ses.cfg.source] = Over(Clones, Unsplit)]
  BY Zenon DEF CalendarPreSync, Unsplit, Objects
<1>4. \A c \in DOMAIN Clones : c \notin DOMAIN Objects
  <2>1. \A c \in DOMAIN Clones : c \in Nat /\ uidsUsed < c
    BY <1>1, ClonesFacts
  <2>2. uidsUsed \in Nat /\ \A u \in DOMAIN Objects : u \in Nat /\ u <= uidsUsed
    BY <1>1, Counters, StoreFacts DEF Objects, TInv, Handed
  <2> QED BY <2>1, <2>2
<1>5. ASSUME NEW m
      PROVE  /\ DOMAIN SplitChanges(m) = DOMAIN Clones \cup Kept(m)
             /\ SplitChanges(m) \in Partial(Uids, Changes)
             /\ \A c \in DOMAIN Clones : SplitChanges(m)[c] = "added"
             /\ \A u \in Kept(m) : SplitChanges(m)[u] =
                  IF u \in ToSplit THEN "deleted" ELSE "modified"
  <2> DEFINE f == [c \in DOMAIN Clones |-> "added"]
             g == [u \in Kept(m) |-> IF u \in ToSplit THEN "deleted" ELSE "modified"]
  <2>1. SplitChanges(m) = Over(f, g)
    BY Zenon DEF SplitChanges, Kept
  <2>2. Kept(m) \subseteq DOMAIN Objects /\ DOMAIN Objects \subseteq Uids
    BY <1>1, StoreFacts DEF Kept, Objects
  <2>3. f \in Partial(Uids, Changes) /\ g \in Partial(Uids, Changes)
    BY <1>2, <2>2, PartialFacts DEF Changes
  <2>4. DOMAIN f = DOMAIN Clones /\ DOMAIN g = Kept(m)
    OBVIOUS
  <2>5. DOMAIN f \cap DOMAIN g = {}
    BY <1>4, <2>2, <2>4
  <2>6. /\ \A c \in DOMAIN Clones : f[c] = "added"
        /\ \A u \in Kept(m) : g[u] = IF u \in ToSplit THEN "deleted" ELSE "modified"
    OBVIOUS
  <2> HIDE DEF f, g
  <2>7. /\ DOMAIN Over(f, g) = DOMAIN f \cup DOMAIN g
        /\ \A x \in DOMAIN f : Over(f, g)[x] = f[x]
        /\ \A x \in DOMAIN g \ DOMAIN f : Over(f, g)[x] = g[x]
    BY DEF Over
  <2> QED BY <2>1, <2>3, <2>4, <2>5, <2>6, <2>7, PartialOver
<1>6. ASSUME NEW m, m = ReadMap(file)
      PROVE  \E gone : /\ GoodMap(m)
                       /\ gone = {u \in ToSplit \cap Kept(m) : u \in DOMAIN m.uids}
                       /\ GoodMap(ForgetArchived(m, gone))
                       /\ Begin(ForgetArchived(m, gone), Over(Clones, Objects), SplitChanges(m))
  <2> DEFINE gone == {u \in DOMAIN SplitChanges(m) \cap DOMAIN m.uids : SplitChanges(m)[u] = "deleted"}
  <2>1. Begin(ForgetArchived(m, gone), Over(Clones, Objects), SplitChanges(m))
    BY <1>6, Zenon DEF CalendarPreSync
  <2>2. \A u : u \in gone <=> u \in ToSplit \cap Kept(m) /\ u \in DOMAIN m.uids
    BY <1>5
  <2>3. gone \in SUBSET DOMAIN m.uids
    OBVIOUS
  <2> HIDE DEF gone
  <2>4. gone = {u \in ToSplit \cap Kept(m) : u \in DOMAIN m.uids}
    BY <2>2
  <2>5. GoodMap(m) /\ GoodMap(ForgetArchived(m, gone))
    BY <1>6, <2>3, ReadTyped, ForgetArchivedGood
  <2> QED BY <2>1, <2>4, <2>5
<1>7. \E m, gone : /\ m = ReadMap(file) /\ GoodMap(m)
                   /\ gone = {u \in ToSplit \cap Kept(m) : u \in DOMAIN m.uids}
                   /\ GoodMap(ForgetArchived(m, gone))
                   /\ Begin(ForgetArchived(m, gone), Over(Clones, Objects), SplitChanges(m))
  BY <1>6
<1> QED BY <1>1, <1>2, <1>3, <1>4, <1>5, <1>7

(* What the calendar puts in the place of what it splits.                   *)
LEMMA ClonesTyped ==
  ASSUME TInv, phase = "loaded", DOMAIN Clones \subseteq Uids
  PROVE  /\ Clones \in Content
         /\ Over(Clones, Objects) \in Content /\ Over(Clones, Unsplit) \in Content
         /\ DOMAIN Over(Clones, Objects) = DOMAIN Clones \cup DOMAIN Objects
         /\ DOMAIN Over(Clones, Unsplit) = DOMAIN Clones \cup (DOMAIN Objects \ ToSplit)
         /\ \A u \in DOMAIN Clones : /\ Over(Clones, Objects)[u] = Clones[u]
                                     /\ Over(Clones, Unsplit)[u] = Clones[u]
         /\ \A u \in DOMAIN Objects \ DOMAIN Clones : Over(Clones, Objects)[u] = Objects[u]
         /\ \A u \in DOMAIN Objects \ (DOMAIN Clones \cup ToSplit) :
              Over(Clones, Unsplit)[u] = Objects[u]
<1>1. Objects \in Content
  BY SessionFacts, StoreFacts DEF TInv, Objects
<1>2. Clones \in Content
  <2>1. \A c \in DOMAIN Clones : Clones[c] \in Things
    <3> SUFFICES ASSUME NEW c \in DOMAIN Clones PROVE Clones[c] \in Things
      OBVIOUS
    <3>1. PICK u \in ToSplit : Clones[c] \in Days(Objects[u][1])
      BY ClonesFacts
    <3>2. Objects[u] \in LongThings
      BY ClonesFacts
    <3>3. Days(Objects[u][1]) \subseteq Things
      BY <3>2, ThingsFacts
    <3> QED BY <3>1, <3>3
  <2>2. Clones = [c \in DOMAIN Clones |-> Clones[c]]
    BY ClonesFacts
  <2> QED BY <2>1, <2>2, PartialFacts, TypesArePartial
<1>3. Unsplit \in Content /\ DOMAIN Unsplit = DOMAIN Objects \ ToSplit
  BY <1>1, PartialFacts, TypesArePartial DEF Unsplit
<1>4. \A u \in DOMAIN Unsplit : Unsplit[u] = Objects[u]
  BY DEF Unsplit
<1>5. Over(Clones, Objects) \in Content /\ Over(Clones, Unsplit) \in Content
  BY <1>1, <1>2, <1>3, PartialOver, TypesArePartial
<1>6. \A f, g : /\ DOMAIN Over(f, g) = DOMAIN f \cup DOMAIN g
                /\ \A u \in DOMAIN f : Over(f, g)[u] = f[u]
                /\ \A u \in DOMAIN g \ DOMAIN f : Over(f, g)[u] = g[u]
  BY DEF Over
<1>7. /\ DOMAIN Over(Clones, Objects) = DOMAIN Clones \cup DOMAIN Objects
      /\ DOMAIN Over(Clones, Unsplit) = DOMAIN Clones \cup (DOMAIN Objects \ ToSplit)
  BY <1>3, <1>6
<1>8. \A u \in DOMAIN Clones : /\ Over(Clones, Objects)[u] = Clones[u]
                               /\ Over(Clones, Unsplit)[u] = Clones[u]
  BY <1>6
<1>9. \A u \in DOMAIN Objects \ DOMAIN Clones : Over(Clones, Objects)[u] = Objects[u]
  BY <1>6
<1>10. \A u \in DOMAIN Objects \ (DOMAIN Clones \cup ToSplit) :
         Over(Clones, Unsplit)[u] = Objects[u]
  BY <1>3, <1>4, <1>6
<1> QED BY <1>2, <1>5, <1>7, <1>8, <1>9, <1>10

(* Splitting takes uids, and gives none back.                               *)
LEMMA ClonesGrow ==
  ASSUME TInv, phase = "loaded"
  PROVE  uidsUsed <= uidsUsed + Cardinality(DOMAIN Clones)
<1>1. uidsUsed \in Nat /\ uidsUsed + Cardinality(DOMAIN Clones) \in Nat
  BY Counters, ClonesFacts DEF TInv
<1>2. IsFiniteSet(DOMAIN Clones)
  <2>1. DOMAIN Clones \in SUBSET Nat
    BY ClonesFacts
  <2>2. \A c \in DOMAIN Clones : c <= uidsUsed + Cardinality(DOMAIN Clones)
    BY ClonesFacts
  <2> QED BY <1>1, <2>1, <2>2, FS_BoundedSetOfNaturals, Zenon
<1>3. Cardinality(DOMAIN Clones) \in Nat
  BY <1>2, FS_CardinalityType
<1> QED BY <1>1, <1>3

(* The calendar's pre_sync keeps the types.                                 *)
LEMMA CalendarTyped ==
  ASSUME TInv, CalendarPreSync
  PROVE  TypeOK' /\ Handed'
<1>1. /\ phase = "loaded" /\ TypeOK /\ DOMAIN Clones \subseteq Uids
      /\ store' = [store EXCEPT ![ses.cfg.source] = Over(Clones, Unsplit)]
      /\ uidsUsed' = uidsUsed + Cardinality(DOMAIN Clones)
  BY CalendarFacts DEF TInv
<1>2. PICK m, gone : /\ m = ReadMap(file) /\ GoodMap(m)
                     /\ gone = {u \in ToSplit \cap Kept(m) : u \in DOMAIN m.uids}
                     /\ GoodMap(ForgetArchived(m, gone))
                     /\ Begin(ForgetArchived(m, gone), Over(Clones, Objects), SplitChanges(m))
  BY CalendarFacts
<1>3. /\ DOMAIN SplitChanges(m) = DOMAIN Clones \cup Kept(m)
      /\ SplitChanges(m) \in Partial(Uids, Changes)
      /\ Kept(m) \subseteq DOMAIN Objects
  BY CalendarFacts DEF Kept
<1>4. /\ Over(Clones, Objects) \in Content /\ Over(Clones, Unsplit) \in Content
      /\ DOMAIN Over(Clones, Objects) = DOMAIN Clones \cup DOMAIN Objects
      /\ DOMAIN Over(Clones, Unsplit) = DOMAIN Clones \cup (DOMAIN Objects \ ToSplit)
  BY <1>1, ClonesTyped
<1> DEFINE r == ForgetArchived(m, gone)
           comps == Over(Clones, Objects)
           changes == SplitChanges(m)
<1>5. /\ DOMAIN r.uids \subseteq DOMAIN m.uids
      /\ \A u \in DOMAIN r.uids : r.uids[u] = m.uids[u]
  <2>1. gone \in SUBSET DOMAIN m.uids
    BY <1>2
  <2> QED BY <1>2, <2>1, ForgetArchivedUids
<1>6. \A u \in DOMAIN m.uids : u <= uidsUsed /\ m.uids[u].pid <= pidsUsed
  BY <1>2, ReadTyped
<1>7. /\ GoodMap(r) /\ Begin(r, comps, changes)
      /\ comps \in Content /\ changes \in Partial(Uids, Changes)
      /\ DOMAIN changes \subseteq DOMAIN comps
      /\ DOMAIN comps = DOMAIN Clones \cup DOMAIN Objects
  BY <1>2, <1>3, <1>4
<1> HIDE DEF r, comps, changes
<1>8. /\ ses' \in Session
      /\ ses'.queue \subseteq DOMAIN comps /\ DOMAIN ses'.changed \subseteq DOMAIN comps
      /\ DOMAIN ses'.map.uids \subseteq DOMAIN r.uids
      /\ \A u \in DOMAIN ses'.map.uids : ses'.map.uids[u] = r.uids[u]
  BY <1>1, <1>7, BeginTyped
<1>9. /\ phase' = "running" /\ UNCHANGED <<kind, pda, file, conf, gui, pidsUsed, left>>
      /\ ses'.listed = comps
      /\ wounds' \in {wounds, wounds \cup {"unfinished"}}
  BY <1>1, <1>7, BeginFacts
<1>10. ses.cfg.source \in Sources /\ store \in [Sources -> Content]
  BY <1>1, SessionFacts DEF TypeOK
<1>11. /\ uidsUsed' \in Uids \cup {0} /\ uidsUsed' \in Nat /\ uidsUsed \in Nat /\ uidsUsed <= uidsUsed'
       /\ \A c \in DOMAIN Clones : c \in Nat /\ uidsUsed < c /\ c <= uidsUsed'
  <2>1. uidsUsed \in Nat
    BY <1>1, Counters
  <2>3. /\ uidsUsed' \in Uids \cup {0} /\ uidsUsed' \in Nat
        /\ \A c \in DOMAIN Clones : c \in Nat /\ uidsUsed < c /\ c <= uidsUsed'
    BY <1>1, ClonesFacts
  <2>4. uidsUsed <= uidsUsed'
    BY <1>1, ClonesGrow
  <2> QED BY <2>1, <2>3, <2>4
<1>12. /\ store' \in [Sources -> Content]
       /\ \A s \in Sources : \A u \in DOMAIN store'[s] :
            \/ u \in DOMAIN store[s]
            \/ s = ses.cfg.source /\ u \in DOMAIN Clones
  <2> DEFINE now == Over(Clones, Unsplit)
  <2>1. /\ store' = [store EXCEPT ![ses.cfg.source] = now] /\ now \in Content
        /\ \A u \in DOMAIN now : u \in DOMAIN Clones \/ u \in DOMAIN store[ses.cfg.source]
    BY <1>1, <1>4 DEF Objects
  <2> HIDE DEF now
  <2> QED BY <1>10, <2>1
<1>13. TypeOK'
  BY <1>1, <1>8, <1>9, <1>11, <1>12 DEF TypeOK, Phases, Wounds
<1>14. /\ \A s \in Sources : \A u \in DOMAIN store[s] : u \in Nat /\ u <= uidsUsed
       /\ \A u \in DOMAIN m.uids : u \in Nat
       /\ \A u \in DOMAIN file : u \in Nat
       /\ DOMAIN Objects = DOMAIN store[ses.cfg.source]
  <2>1. \A u \in DOMAIN m.uids : u \in Uids
    BY <1>2, InverseFacts
  <2>2. \A u \in DOMAIN file : u \in Uids
    BY DEF TInv, IInv, GoodFile
  <2> QED BY <1>1, <2>1, <2>2, Counters, StoreFacts DEF TInv, Handed, Objects
<1>15. \A s \in Sources : \A u \in DOMAIN store'[s] : u <= uidsUsed'
  BY <1>11, <1>12, <1>14
<1>16. \A s, t \in Sources : \A u : u \in DOMAIN store'[s] /\ u \in DOMAIN store'[t] => s = t
  <2> SUFFICES ASSUME NEW s \in Sources, NEW t \in Sources, NEW u,
                      u \in DOMAIN store'[s], u \in DOMAIN store'[t]
               PROVE  s = t
    OBVIOUS
  <2>1. CASE u \in DOMAIN store[s] /\ u \in DOMAIN store[t]
    BY <2>1 DEF TInv, Handed
  <2>2. CASE u \in DOMAIN Clones
    <3>1. u \notin DOMAIN store[s] /\ u \notin DOMAIN store[t]
      BY <1>11, <1>14, <2>2
    <3> QED BY <1>12, <3>1
  <2> QED BY <1>12, <2>1, <2>2
<1>17. \A u \in DOMAIN file : u <= uidsUsed' /\ file[u].pid <= pidsUsed
  BY <1>11, <1>14 DEF TInv, Handed
<1>18. /\ \A u \in DOMAIN ses'.map.uids : u <= uidsUsed' /\ ses'.map.uids[u].pid <= pidsUsed
       /\ \A u \in DOMAIN ses'.listed : u <= uidsUsed'
  BY <1>5, <1>6, <1>7, <1>8, <1>9, <1>10, <1>11, <1>14
<1>19. Handed'
  BY <1>8, <1>9, <1>15, <1>16, <1>17, <1>18 DEF TInv, Handed
<1> QED BY <1>13, <1>19

-------------------------------------------------------------------------------
(* The users, the settings window, and the end of a session.                *)

(* What the bounds leave.                                                   *)
LEMMA LeftFacts ==
  ASSUME TypeOK
  PROVE  LET Left == [items: 0 .. Cardinality(Items), edits: 0 .. MaxEdits, odd: 0 .. MaxOdd]
         IN /\ left \in Left
            /\ Enter => left' \in Left /\ NewItem \in Things
            /\ Edit => left' \in Left
            /\ Odd => left' \in Left
<1> DEFINE n == Cardinality(Items)
<1>1. left \in [items: 0 .. n, edits: 0 .. MaxEdits, odd: 0 .. MaxOdd]
  BY DEF TypeOK
<1>2. n \in Nat /\ MaxEdits \in Nat /\ MaxOdd \in Nat /\ \A i : i \in Items <=> i \in 1 .. n
  BY ItemCount, EdsBoundsAssumption
<1>3. Enter => NewItem \in Things
  <2>1. left.items > 0 => n - left.items + 1 \in Items
    <3> HIDE DEF n
    <3> QED BY <1>1, <1>2
  <2> QED BY <2>1, ThingsFacts DEF NewItem, Enter
<1> HIDE DEF n
<1>4. /\ Enter => left' \in [items: 0 .. n, edits: 0 .. MaxEdits, odd: 0 .. MaxOdd]
      /\ Edit => left' \in [items: 0 .. n, edits: 0 .. MaxEdits, odd: 0 .. MaxOdd]
      /\ Odd => left' \in [items: 0 .. n, edits: 0 .. MaxEdits, odd: 0 .. MaxOdd]
  BY <1>1, <1>2 DEF Enter, Edit, Odd
<1> QED BY <1>1, <1>3, <1>4 DEF n

(* What the user does to the store and to the PDA.                          *)
LEMMA NewObjectTyped ==
  ASSUME TInv, NEW s \in Sources, NewObject(s)
  PROVE  TypeOK' /\ Handed'
<1>1. /\ phase = "idle" /\ Enter /\ NewUid \in Uids /\ TypeOK
      /\ store' = [store EXCEPT ![s] = Put(store[s], NewUid, NewItem)]
      /\ uidsUsed' = NewUid
      /\ UNCHANGED <<kind, pda, file, conf, gui, phase, ses, pidsUsed, wounds>>
  BY DEF NewObject, TInv
<1> DEFINE more == Put(store[s], NewUid, NewItem)
<1>2. more \in Content /\ \A u : u \in DOMAIN more <=> u \in DOMAIN store[s] \/ u = NewUid
  <2>1. store[s] \in Content /\ NewItem \in Things
    BY <1>1, LeftFacts, StoreFacts
  <2>2. more \in Content
    BY <1>1, <2>1, PartialPut, TypesArePartial
  <2> QED BY <2>2 DEF Put
<1>3. store' = [store EXCEPT ![s] = more]
  BY <1>1
<1> HIDE DEF more
<1>4. /\ store' \in [Sources -> Content]
      /\ \A t \in Sources : \A u \in DOMAIN store'[t] :
           u \in DOMAIN store[t] \/ (u = NewUid /\ t = s)
  BY <1>1, <1>2, <1>3 DEF TypeOK
<1>5. TypeOK'
  BY <1>1, <1>4, LeftFacts DEF TypeOK
<1>6. /\ uidsUsed \in Nat /\ NewUid = uidsUsed + 1
      /\ \A t \in Sources : \A u \in DOMAIN store[t] : u \in Nat /\ u <= uidsUsed
      /\ \A u \in DOMAIN file : u \in Nat /\ u <= uidsUsed
  BY <1>1, Counters, StoreFacts DEF TInv, Handed, IInv, GoodFile
<1>7. Handed'
  BY <1>1, <1>4, <1>6 DEF TInv, Handed
<1> QED BY <1>5, <1>7

(* The desktop's user removes an object.                                    *)
LEMMA DropObjectTyped ==
  ASSUME TInv, NEW s \in Sources, NEW u \in DOMAIN store[s], DropObject(s, u)
  PROVE  TypeOK' /\ Handed'
<1>1. /\ Edit /\ TypeOK
      /\ store' = [store EXCEPT ![s] = Without(store[s], u)]
      /\ UNCHANGED <<kind, pda, file, conf, gui, phase, ses, uidsUsed, pidsUsed, wounds>>
  BY DEF DropObject, TInv
<1> DEFINE rest == Without(store[s], u)
<1>2. rest \in Content /\ DOMAIN rest \subseteq DOMAIN store[s]
  <2>1. store[s] \in Content
    BY <1>1, StoreFacts
  <2>2. rest \in Content
    BY <1>1, <2>1, PartialWithout, TypesArePartial
  <2> QED BY <2>2 DEF Without
<1>3. store' = [store EXCEPT ![s] = rest]
  BY <1>1
<1> HIDE DEF rest
<1>4. /\ store' \in [Sources -> Content]
      /\ \A t \in Sources : DOMAIN store'[t] \subseteq DOMAIN store[t]
  BY <1>1, <1>2, <1>3 DEF TypeOK
<1>5. TypeOK'
  BY <1>1, <1>4, LeftFacts DEF TypeOK
<1>6. Handed'
  BY <1>1, <1>4 DEF TInv, Handed
<1> QED BY <1>5, <1>6

(* The PDA's user enters a record.                                          *)
LEMMA NewRecordTyped ==
  ASSUME TInv, NewRecord
  PROVE  TypeOK' /\ Handed'
<1> DEFINE r == [item |-> NewItem, flag |-> "dirty"]
           V == [item: Things, flag: Flags]
<1>1. /\ phase = "idle" /\ Enter /\ NewPid \in Pids /\ TypeOK
      /\ pda' = Put(pda, NewPid, r)
      /\ pidsUsed' = NewPid
      /\ UNCHANGED <<kind, store, file, conf, gui, phase, ses, uidsUsed, wounds>>
  BY DEF NewRecord, TInv
<1>2. r \in V
  BY <1>1, LeftFacts DEF Flags
<1>3. pda \in Partial(Pids, V)
  BY <1>1, TypesArePartial DEF TypeOK
<1> HIDE DEF r, V
<1>4. pda' \in Partial(Pids, V) /\ DOMAIN pda' = DOMAIN pda \cup {NewPid}
  <2>1. pda' \in Partial(Pids, V)
    BY <1>1, <1>2, <1>3, PartialPut
  <2> QED BY <1>1, <2>1 DEF Put
<1>5. TypeOK'
  BY <1>1, <1>4, LeftFacts, TypesArePartial DEF TypeOK, V
<1>6. /\ pidsUsed \in Nat /\ NewPid = pidsUsed + 1
      /\ \A p \in DOMAIN pda : p \in Nat /\ p <= pidsUsed
      /\ \A u \in DOMAIN file : file[u].pid \in Nat /\ file[u].pid <= pidsUsed
  <2>1. \A u \in DOMAIN file : file[u] \in Entry
    BY DEF TInv, IInv, GoodFile
  <2> QED BY <1>1, <2>1, Counters, PdaFacts DEF TInv, Handed, Entry
<1>7. Handed'
  BY <1>1, <1>4, <1>6 DEF TInv, Handed
<1> QED BY <1>5, <1>7

(* The PDA's user edits a record, deletes it or archives it.                *)
LEMMA EditRecordTyped ==
  ASSUME TInv, NEW p \in DOMAIN pda, NEW flag \in Flags, EditRecord(p, flag)
  PROVE  TypeOK' /\ Handed'
<1> DEFINE r == [item |-> pda[p].item, flag |-> flag]
           V == [item: Things, flag: Flags]
<1>1. /\ phase = "idle" /\ Edit /\ TypeOK
      /\ pda' = [pda EXCEPT ![p].flag = flag]
      /\ UNCHANGED <<kind, store, file, conf, gui, phase, ses, uidsUsed, pidsUsed, wounds>>
  BY DEF EditRecord, TInv
<1>2. r \in V /\ pda \in Partial(Pids, V) /\ pda[p] = [item |-> pda[p].item, flag |-> pda[p].flag]
  BY <1>1, PdaFacts, TypesArePartial DEF TypeOK
<1>3. pda' = [pda EXCEPT ![p] = r]
  <2>1. pda' = [pda EXCEPT ![p] = [pda[p] EXCEPT !.flag = flag]]
    BY <1>1
  <2>2. [pda[p] EXCEPT !.flag = flag] = r
    BY <1>2
  <2> QED BY <2>1, <2>2, Zenon
<1> HIDE DEF r, V
<1>4. pda' \in Partial(Pids, V) /\ DOMAIN pda' = DOMAIN pda
  <2>1. /\ DOMAIN pda' = DOMAIN pda /\ \A q \in DOMAIN pda : q # p => pda'[q] = pda[q]
        /\ pda'[p] = r /\ pda' = [q \in DOMAIN pda' |-> pda'[q]]
    BY <1>3
  <2> QED BY <1>2, <2>1, PartialFacts
<1>5. TypeOK'
  BY <1>1, <1>4, LeftFacts, TypesArePartial DEF TypeOK, V
<1>6. Handed'
  BY <1>1, <1>4 DEF TInv, Handed
<1> QED BY <1>5, <1>6

(* All that the users do.                                                   *)
LEMMA UsersTyped ==
  ASSUME TInv, Users
  PROVE  TypeOK' /\ Handed'
BY NewObjectTyped, DropObjectTyped, NewRecordTyped, EditRecordTyped DEF Users

---------------------------------------------------------------------------
(* The settings window writes a configuration of the type.                  *)
LEMMA WriteConfTyped ==
  ASSUME NEW c \in Conf, WriteConf(c), wounds \subseteq Wounds
  PROVE  /\ conf' \in Conf /\ conf'.source = c.source
         /\ conf'.last = IF c.last = "none" THEN "empty" ELSE c.last
         /\ wounds' \subseteq Wounds
BY DEF WriteConf, Saved, Conf, Last, Wounds

SettingsGood ==
  /\ gui' = Closed \/ gui' \in [cfg: Conf, new: Conf]
  /\ conf' \in Conf /\ wounds' \subseteq Wounds
  /\ Odd \/ left' = left

(* All that the settings window does.                                       *)
LEMMA SettingsTyped ==
  ASSUME TInv, Settings
  PROVE  TypeOK' /\ Handed'
<1>1. TypeOK /\ UNCHANGED <<kind, store, pda, file, phase, ses, uidsUsed, pidsUsed>>
  BY DEF TInv, Settings, OpenSettings, SaveSettings, RevertSettings, CloseSettings
<1>2. Handed'
  BY <1>1 DEF TInv, Handed
<1>3. conf \in Conf /\ wounds \subseteq Wounds /\ (gui = Closed \/ gui \in [cfg: Conf, new: Conf])
  BY <1>1 DEF TypeOK
<1>4. ASSUME OpenSettings PROVE SettingsGood
  <2>1. gui' = [cfg |-> conf, new |-> conf] /\ UNCHANGED <<conf, left, wounds>>
    BY <1>4 DEF OpenSettings
  <2> QED BY <1>3, <2>1 DEF SettingsGood
<1>5. ASSUME CloseSettings PROVE SettingsGood
  BY <1>3, <1>5 DEF CloseSettings, SettingsGood
<1>6. ASSUME RevertSettings PROVE SettingsGood
  <2>1. /\ gui \in [cfg: Conf, new: Conf] /\ Odd /\ WriteConf(gui.cfg)
        /\ gui' = [gui EXCEPT !.new = gui.cfg]
    BY <1>3, <1>6 DEF RevertSettings
  <2>2. gui' \in [cfg: Conf, new: Conf] /\ gui.cfg \in Conf
    BY <2>1
  <2> QED BY <1>3, <2>1, <2>2, WriteConfTyped DEF SettingsGood
<1>7. ASSUME \E s \in Sources : SaveSettings(s) PROVE SettingsGood
  <2>1. PICK s \in Sources : SaveSettings(s)
    BY <1>7
  <2>2. /\ gui \in [cfg: Conf, new: Conf] /\ Odd /\ WriteConf(gui'.new)
        /\ gui' = [gui EXCEPT !.new.source = s]
    BY <1>3, <2>1 DEF SaveSettings
  <2>3. gui' \in [cfg: Conf, new: Conf] /\ gui'.new \in Conf
    BY <2>2 DEF Conf
  <2> QED BY <1>3, <2>2, <2>3, WriteConfTyped DEF SettingsGood
<1>8. SettingsGood
  BY <1>4, <1>5, <1>6, <1>7 DEF Settings
<1>9. TypeOK'
  BY <1>1, <1>8, LeftFacts DEF TypeOK, SettingsGood
<1> QED BY <1>2, <1>9

---------------------------------------------------------------------------
(* A conduit that is loaded holds nothing but its configuration.            *)
LEMMA LoadFacts ==
  ASSUME TypeOK, NEW op \in Ops, Load(op)
  PROVE  /\ phase = "idle" /\ phase' = "loaded"
         /\ ses' \in Session
         /\ ses'.op = op /\ ses'.cfg = conf /\ ses'.map = EmptyMap
         /\ ses'.changed = NoEntries /\ ses'.listed = NoEntries
         /\ ses'.queue = {} /\ ses'.todo = {}
         /\ UNCHANGED <<kind, store, pda, file, conf, gui, uidsUsed, pidsUsed>>
         /\ \/ op = "synchronize" /\ UNCHANGED <<left, wounds>>
            \/ op # "synchronize" /\ Odd /\ wounds' = wounds \cup {"unfinished"}
<1>1. PICK slow \in SlowAtStart(op) :
         ses' = [op |-> op, slow |-> slow, cfg |-> conf, map |-> EmptyMap,
                 changed |-> NoEntries, listed |-> NoEntries, queue |-> {}, todo |-> {}]
  BY DEF Load
<1>2. slow \in BOOLEAN
  BY DEF SlowAtStart
<1>3. conf \in Conf
  BY DEF TypeOK
<1>4. EmptyMap \in Tables
  <2>1. GoodMap(EmptyMap) /\ EmptyMap.touchedOnly \in BOOLEAN
    BY EmptyMapGood DEF EmptyMap
  <2> QED BY <2>1, GoodMapIsTables
<1>5. NoEntries \in Content /\ NoEntries \in Partial(Uids, Changes)
  BY PartialEmpty, TypesArePartial
<1>6. ses' \in Session
  <2>1. ses' \in [op: Ops, slow: BOOLEAN, cfg: Conf, map: Tables,
                changed: Partial(Uids, Changes), listed: Content,
                queue: SUBSET Uids, todo: SUBSET Pids]
    BY <1>1, <1>2, <1>3, <1>4, <1>5
  <2> QED BY <2>1, TypesArePartial
<1>7. /\ ses'.op = op /\ ses'.cfg = conf /\ ses'.map = EmptyMap
      /\ ses'.changed = NoEntries /\ ses'.listed = NoEntries
      /\ ses'.queue = {} /\ ses'.todo = {}
  BY <1>1
<1> QED BY <1>6, <1>7 DEF Load

(* Loading a conduit keeps the types.                                       *)
LEMMA LoadTyped ==
  ASSUME TInv, NEW op \in Ops, Load(op)
  PROVE  TypeOK' /\ Handed'
<1>1. /\ phase = "idle" /\ phase' = "loaded" /\ ses' \in Session /\ TypeOK
      /\ ses'.map = EmptyMap /\ ses'.changed = NoEntries /\ ses'.listed = NoEntries
      /\ ses'.queue = {}
      /\ UNCHANGED <<kind, store, pda, file, conf, gui, uidsUsed, pidsUsed>>
      /\ \/ UNCHANGED <<left, wounds>>
         \/ Odd /\ wounds' = wounds \cup {"unfinished"}
  BY LoadFacts DEF TInv
<1>2. TypeOK'
  BY <1>1, LeftFacts DEF TypeOK, Phases, Wounds
<1>3. DOMAIN EmptyMap.uids = {} /\ DOMAIN NoEntries = {}
  BY DEF EmptyMap, NoEntries
<1>4. Handed'
  BY <1>1, <1>3 DEF TInv, Handed
<1> QED BY <1>2, <1>4

(* How a session ends.                                                      *)
Ends == PostSync \/ WriteMapFile \/ CleanUp \/ Break \/ \E p \in Pids : ReplaceFails(p)

(* e_pilot_map_write: the file holds the entries of the map, or only those  *)
(* that were touched, and an archived one without its id.                   *)
LEMMA WrittenFacts ==
  ASSUME NEW m, GoodMap(m), NEW f, f = WriteMap(m)
  PROVE  /\ f \in Files
         /\ \A u : u \in DOMAIN f <=> u \in DOMAIN m.uids /\ (m.touchedOnly => m.uids[u].touched)
         /\ \A u \in DOMAIN f : /\ f[u].archived = m.uids[u].archived
                                /\ f[u].pid = IF m.uids[u].archived THEN 0 ELSE m.uids[u].pid
BY WriteMapGood, GoodFileIsFiles DEF WriteMap, Written

(* dlp_CleanUpDatabase purges what is deleted or archived; then the flags   *)
(* are reset.                                                               *)
LEMMA CleanUpFacts ==
  ASSUME TypeOK, CleanUp
  PROVE  /\ phase = "done" /\ phase' = "idle" /\ ses' = NoSession
         /\ UNCHANGED <<kind, store, file, conf, gui, uidsUsed, pidsUsed, left, wounds>>
         /\ pda' \in Partial(Pids, [item: Things, flag: Flags])
         /\ \A p : p \in DOMAIN pda'
                     <=> p \in DOMAIN pda /\ pda[p].flag \notin {"deleted", "archived"}
         /\ \A p \in DOMAIN pda' : pda'[p].item = pda[p].item /\ pda'[p].flag = "none"
<1>1. /\ phase = "done" /\ phase' = "idle" /\ ses' = NoSession
      /\ UNCHANGED <<kind, store, file, conf, gui, uidsUsed, pidsUsed, left, wounds>>
      /\ pda' = [p \in {p \in DOMAIN pda : pda[p].flag \notin {"deleted", "archived"}} |->
                   [pda[p] EXCEPT !.flag = "none"]]
  BY DEF CleanUp
<1>2. \A p \in DOMAIN pda :
        /\ [pda[p] EXCEPT !.flag = "none"] = [item |-> pda[p].item, flag |-> "none"]
        /\ pda[p].item \in Things /\ p \in Pids
  BY PdaFacts
<1>3. /\ \A p : p \in DOMAIN pda'
                  <=> p \in DOMAIN pda /\ pda[p].flag \notin {"deleted", "archived"}
      /\ \A p \in DOMAIN pda' : pda'[p] = [item |-> pda[p].item, flag |-> "none"]
  BY <1>1, <1>2
<1>4. pda' \in Partial(Pids, [item: Things, flag: Flags])
  <2> DEFINE V == [item: Things, flag: Flags]
  <2>1. \A p \in DOMAIN pda' : p \in Pids /\ pda'[p] \in V
    <3> SUFFICES ASSUME NEW p \in DOMAIN pda' PROVE p \in Pids /\ pda'[p] \in V
      OBVIOUS
    <3>1. p \in DOMAIN pda /\ pda'[p] = [item |-> pda[p].item, flag |-> "none"]
      BY <1>3
    <3>2. pda[p].item \in Things /\ p \in Pids
      BY <1>2, <3>1
    <3> QED BY <3>1, <3>2 DEF Flags
  <2>2. pda' = [p \in DOMAIN pda' |-> pda'[p]]
    BY <1>1
  <2> HIDE DEF V
  <2> QED BY <2>1, <2>2, PartialFacts DEF V
<1> QED BY <1>1, <1>3, <1>4

(* The end of a session keeps the types, however it comes.                  *)
LEMMA EndsTyped ==
  ASSUME TInv, Ends
  PROVE  TypeOK' /\ Handed'
<1>1. TypeOK
  BY DEF TInv
<1>2. CASE PostSync
  <2>1. /\ phase = "running" /\ phase' = "save"
        /\ conf' = [ses.cfg EXCEPT !.last = ses.cfg.source]
        /\ UNCHANGED <<kind, store, pda, file, gui, ses, uidsUsed, pidsUsed, left, wounds>>
    BY <1>2 DEF PostSync
  <2>2. conf' \in Conf
    BY <1>1, <2>1, SessionFacts DEF Conf, Last
  <2>3. TypeOK'
    BY <1>1, <2>1, <2>2 DEF TypeOK, Phases
  <2> QED BY <2>1, <2>3 DEF TInv, Handed
<1>3. CASE WriteMapFile
  <2>1. /\ phase = "save" /\ phase' = "done"
        /\ \/ file' = WriteMap(ses.map) /\ UNCHANGED <<left, wounds>>
           \/ Odd /\ wounds' = wounds \cup {"half saved"} /\ UNCHANGED file
        /\ UNCHANGED <<kind, store, pda, conf, gui, ses, uidsUsed, pidsUsed>>
    BY <1>3 DEF WriteMapFile
  <2>2. GoodMap(ses.map)
    BY <2>1 DEF TInv, IInv, GoodSession
  <2>3. \/ UNCHANGED file
        \/ /\ file' \in Files
           /\ \A u \in DOMAIN file' : u \in DOMAIN ses.map.uids /\ file'[u].pid \in {0, ses.map.uids[u].pid}
    <3>1. CASE UNCHANGED file
      BY <3>1
    <3>2. CASE file' = WriteMap(ses.map)
      BY <2>2, <3>2, WrittenFacts
    <3> QED BY <2>1, <3>1, <3>2
  <2>4. TypeOK'
    BY <1>1, <2>1, <2>3, LeftFacts DEF TypeOK, Phases, Wounds
  <2>5. \A u \in DOMAIN file' : u <= uidsUsed /\ file'[u].pid <= pidsUsed
    <3>1. /\ \A u \in DOMAIN ses.map.uids : u <= uidsUsed /\ ses.map.uids[u].pid <= pidsUsed
          /\ \A u \in DOMAIN file : u <= uidsUsed /\ file[u].pid <= pidsUsed
          /\ pidsUsed \in Nat
      BY <1>1, <2>1, Counters DEF TInv, Handed
    <3>2. 0 <= pidsUsed
      BY <3>1
    <3> QED BY <2>3, <3>1, <3>2
  <2>6. Handed'
    BY <2>1, <2>5 DEF TInv, Handed
  <2> QED BY <2>4, <2>6
<1>4. CASE CleanUp
  <2>1. TypeOK'
    BY <1>1, <1>4, CleanUpFacts, TypesArePartial DEF TypeOK, Phases
  <2> QED BY <1>1, <1>4, <2>1, CleanUpFacts DEF TInv, Handed
<1>5. CASE Break \/ \E p \in Pids : ReplaceFails(p)
  <2>1. /\ phase' = "idle" /\ ses' = NoSession
        /\ wounds' \in {wounds, wounds \cup {"half saved"}, wounds \cup {"unfinished"}}
        /\ Odd \/ UNCHANGED left
        /\ UNCHANGED <<kind, store, pda, file, conf, gui, uidsUsed, pidsUsed>>
    BY <1>5 DEF Break, ReplaceFails
  <2>2. TypeOK'
    BY <1>1, <2>1, LeftFacts DEF TypeOK, Phases, Wounds
  <2> QED BY <2>1, <2>2 DEF TInv, Handed
<1> QED BY <1>2, <1>3, <1>4, <1>5 DEF Ends

---------------------------------------------------------------------------
(* Nothing has been handed out at first.                                    *)
LEMMA InitTyped == Init => TInv
<1> SUFFICES ASSUME Init PROVE TInv
  OBVIOUS
<1>1. IInv
  BY InitIInv
<1>2. NoEntries \in Content /\ NoEntries \in Files
      /\ NoEntries \in Partial(Pids, [item: Things, flag: Flags])
      /\ DOMAIN NoEntries = {}
  BY PartialEmpty, TypesArePartial DEF NoEntries
<1>3. Cardinality(Items) \in Nat /\ MaxEdits \in Nat /\ MaxOdd \in Nat
  BY ItemCount, EdsBoundsAssumption
<1>4. TypeOK
  <2>1. /\ kind \in Kinds /\ conf \in Conf
        /\ store = [s \in Sources |-> NoEntries] /\ pda = NoEntries /\ file = NoEntries
        /\ gui = Closed /\ phase = "idle" /\ ses = NoSession
        /\ uidsUsed = 0 /\ pidsUsed = 0 /\ wounds = {}
        /\ left = [items |-> Cardinality(Items), edits |-> MaxEdits, odd |-> MaxOdd]
    BY DEF Init, Conf, Last
  <2>2. left \in [items: 0 .. Cardinality(Items), edits: 0 .. MaxEdits, odd: 0 .. MaxOdd]
    BY <1>3, <2>1
  <2>3. store \in [Sources -> Content]
    BY <1>2, <2>1
  <2> QED BY <1>2, <2>1, <2>2, <2>3, TypesArePartial DEF TypeOK, Phases
<1>5. Handed
  BY <1>2 DEF Init, Handed
<1> QED BY <1>1, <1>4, <1>5 DEF TInv

(* Every step keeps the types, and hands out ids and uids in order.         *)
LEMMA NextTyped ==
  ASSUME TInv, [Next]_vars
  PROVE  TInv'
<1>1. IInv'
  BY NextIInv DEF TInv
<1>2. CASE UNCHANGED vars
  BY <1>1, <1>2 DEF vars, TInv, TypeOK, Handed
<1>3. CASE Users \/ Settings \/ (\E op \in Ops : Load(op)) \/ Ends
  BY <1>1, <1>3, UsersTyped, SettingsTyped, LoadTyped, EndsTyped DEF TInv
<1>4. CASE PreSync
  <2>1. PlainPreSync \/ CalendarPreSync
    BY <1>4 DEF PreSync, PlainPreSync
  <2> QED BY <1>1, <2>1, PlainTyped, CalendarTyped DEF TInv
<1>5. CASE \/ \E p \in Pids : RemoteRecord(p)
           \/ CopyFromPilot \/ CopyToPilot
           \/ \E u \in Uids : LocalObject(u)
  <2>1. IInv /\ TypeOK
    BY DEF TInv
  <2>2. Handler
    BY <1>5, <2>1, HandlerForms
  <2> QED BY <1>1, <2>2, LesserTyped, AddedTyped, SentTyped DEF Handler, TInv
<1> QED BY <1>2, <1>3, <1>4, <1>5 DEF Next, SessionStep, Ends

(* What a conduit keeps, and what a session holds, is of its type: the ids  *)
(* and uids are those that were given out, an entry of the changes is of an *)
(* object that is listed.                                                   *)
LEMMA TypedInvariance == Spec => []TInv
<1>1. Init => TInv
  BY InitTyped
<1>2. TInv /\ [Next]_vars => TInv'
  BY NextTyped
<1> QED BY <1>1, <1>2, PTL DEF Spec

(* The variables of an EDS conduit stay of their types (TypeOK), for any    *)
(* number of items, any sources and any bounds: pre_sync, the callbacks and *)
(* loops of a session, post_sync, the settings window and the users never   *)
(* make a table, a queue or a record of a uid or an id that nobody was      *)
(* given.                                                                   *)
THEOREM TypeCorrect == Spec => []TypeOK
<1>1. TInv => TypeOK
  BY DEF TInv
<1> QED BY <1>1, TypedInvariance, PTL

===============================================================================
