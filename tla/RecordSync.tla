----------------------------- MODULE RecordSync -----------------------------
(***************************************************************************)
(* The synchronization of one PDA database with a desktop store:           *)
(* GnomePilotConduitStandardAbs (gpilotd/gnome-pilot-conduit-standard-abs.c*)
(* ).  Both sides are edited between sessions; a session is one of the five*)
(* operations of the class, and one step of it treats one record.          *)
(*                                                                         *)
(* Two things are external, modelled from how that file uses them: the PDA *)
(* (pilot-link's dlp_* calls) and the conduit that owns the desktop store  *)
(* (the signals of the class).  A record the conduit stores is unflagged,  *)
(* and what match_record hands out is a copy.                              *)
(***************************************************************************)
EXTENDS Integers, FiniteSets

CONSTANTS
  Ids,         \* record ids of the PDA, handed out in ascending order
  Keys,        \* the places of the desktop store
  Values,      \* contents of a record
  None,        \* no record
  MaxEdits,    \* bound on the edits on either side
  MaxOther,    \* bound on the synchronizations with another PC
  MaxBreaks    \* bound on the broken links

ASSUME IdsAssumption ==
  /\ Ids \subseteq Nat \ {0} /\ IsFiniteSet(Ids)
  /\ Keys \subseteq Nat \ {0} /\ IsFiniteSet(Keys)
(* A bound: the store has a place for every record the PDA can have. *)
ASSUME PlacesAssumption == Cardinality(Ids) <= Cardinality(Keys)
ASSUME BoundsAssumption == {MaxEdits, MaxOther, MaxBreaks} \subseteq Nat

Unassigned == 0

(* PilotRecord after compute_attr_field, and LocalRecord. *)
PilotRecord == [attr: {"Nothing", "Modified", "Deleted"}, archived: BOOLEAN,
                data: Values \cup {None}]
LocalRecord == [attr: {"Nothing", "New", "Modified", "Deleted"},
                archived: BOOLEAN, id: Ids \cup {Unassigned}, data: Values \cup {None}]

ASSUME NoneAssumption == None \notin Values \cup PilotRecord \cup LocalRecord

VARIABLES
  remote,   \* the database of the PDA, by record id
  local,    \* the desktop store
  archive,  \* contents archived on the desktop
  given,    \* ids the PDA has handed out
  pcMatch,  \* lastSyncPC of the PDA is this PC
  slow,     \* the conduit asks for a slow synchronization
  phase,    \* the loop the session is in; "idle", "closed": between sessions
  session,  \* which operation the session is, and how it synchronizes
  index,    \* the last record the loop has treated
  ignore,   \* record_ids_to_ignore
  link,     \* whether the PDA still answers
  before,   \* history: both sides as the session found them
  again,    \* history: the session repeats the one before it, with no edit since
  exempt,   \* history: ids that differ by design, see FlagsSufficient
  spent     \* history: edits, other PCs and broken links so far

sides == <<remote, local, archive, given>>
vars == <<remote, local, archive, given, pcMatch, slow, phase, session, index,
          ignore, link, before, again, exempt, spent>>

TwoWay == {"FastSync", "SlowSync"}
Sessions == TwoWay \cup {"MergeToPilot", "MergeFromPilot", "CopyToPilot",
                         "CopyFromPilot"}
Phases == {"idle", "closed", "remote", "new", "modified", "deleted",
           "copyOut", "copyIn"}

TypeOK ==
  /\ remote \in [Ids -> PilotRecord \cup {None}]
  /\ local \in [Keys -> LocalRecord \cup {None}]
  /\ archive \in SUBSET (Values \cup {None})
  /\ given \in SUBSET Ids
  /\ pcMatch \in BOOLEAN
  /\ slow \in BOOLEAN
  /\ phase \in Phases
  /\ session \in Sessions
  /\ index \in Ids \cup Keys \cup {0}
  /\ ignore \in SUBSET (Ids \cup {Unassigned})
  /\ link \in {"up", "down"}
  /\ before \in [remote: [Ids -> PilotRecord \cup {None}],
                 local: [Keys -> LocalRecord \cup {None}]]
  /\ again \in BOOLEAN
  /\ exempt \in SUBSET Ids
  /\ spent \in [edits: 0 .. MaxEdits, others: 0 .. MaxOther,
                breaks: 0 .. MaxBreaks]

AtRest == phase \in {"idle", "closed"}
Least(S) == CHOOSE n \in S : \A m \in S : n <= m
AheadOrAt(S) == {n \in S : n >= index}
Ahead(S) == {n \in S : n > index}

Clean(v) == [attr |-> "Nothing", archived |-> FALSE, data |-> v]
LocalOf(id, v) == [attr |-> "Nothing", archived |-> FALSE, id |-> id, data |-> v]

(* Every record the two sides have in common has been synchronized.         *)
Init ==
  \E ids \in SUBSET Ids : \E data \in [Ids -> Values] :
    /\ ids \subseteq Keys
    /\ \A i \in ids, j \in Ids \ ids : i < j
    /\ remote = [i \in Ids |-> IF i \in ids THEN Clean(data[i]) ELSE None]
    /\ local = [k \in Keys |-> IF k \in ids THEN LocalOf(k, data[k]) ELSE None]
    /\ archive = {}
    /\ given = ids
    /\ pcMatch = TRUE
    /\ slow = FALSE
    /\ phase = "idle"
    /\ session = "FastSync"
    /\ index = 0
    /\ ignore = {}
    /\ link = "up"
    /\ before = [remote |-> remote, local |-> local]
    /\ again = FALSE
    /\ exempt = {}
    /\ spent = [edits |-> 0, others |-> 0, breaks |-> 0]

-----------------------------------------------------------------------------
(* The conduit: what its handlers of the signals do to the store.           *)

Matching(store, id) == {k \in Keys : store[k] # None /\ store[k].id = id}

StoreAppends(store, id, v) ==
  LET k == Least({j \in Keys : store[j] = None})
  IN  [store EXCEPT ![k] = LocalOf(id, v)]
StoreRemote(store, id, v) ==
  LET places == IF Matching(store, id) # {} THEN Matching(store, id)
                ELSE {Least({k \in Keys : store[k] = None})}
  IN  [k \in Keys |-> IF k \in places THEN LocalOf(id, v) ELSE store[k]]

Purge(store) ==
  [k \in Keys |-> IF store[k] # None /\ store[k].attr = "Deleted"
                  THEN None ELSE store[k]]

(* The PDA *)

Flagged(r) == r # None /\ (r.attr # "Nothing" \/ r.archived)
Dirty(v) == [attr |-> "Modified", archived |-> FALSE, data |-> v]
Deleted == [attr |-> "Deleted", archived |-> FALSE, data |-> None]

(* dlp_WriteRecord: the record of that id, or one of an id of its own.      *)
AssignedOffByOne(id) == IF id # Unassigned THEN id ELSE Cardinality(given)
AssignedId(id) == IF id # Unassigned THEN id ELSE Least(Ids \ given)

OnPilot(id) == link = "up" /\ id \in Ids /\ remote[id] # None

(* dlp_ReadRecordById into a record of zeros.                               *)
ReadRecordById(id) == IF OnPilot(id) THEN remote[id] ELSE Clean(None)

(* dlp_CleanUpDatabase and dlp_ResetSyncFlags                               *)
CleanUp(db) ==
  [i \in Ids |-> IF db[i] = None \/ db[i].attr = "Deleted" \/ db[i].archived
                 THEN None ELSE Clean(db[i].data)]

-----------------------------------------------------------------------------
(* standard_abs_sync_record: what is done to the two sides of a record, by  *)
(* the case numbers of the code.                                            *)

VerdictLocalWins(loc, rem) ==
  IF loc # None /\ loc.attr = "Modified" THEN {"add"}
  ELSE IF loc = None \/ rem.attr = "Modified" THEN {"store"} ELSE {}
Verdict(loc, rem) ==
  LET p == rem.attr
      l == loc.attr
      both == l = "Modified" /\ p = "Modified"
      same == loc.data = rem.data
  IN  IF loc = None THEN IF rem.archived THEN {"archiveRemote"}          \* 11
                         ELSE {"store"}                                  \* 1
      ELSE CASE rem.archived /\ both /\ ~same -> {"add", "store"}        \* 15
        [] rem.archived /\ both /\ same -> {"archiveRemote", "delete"}   \* 14
        [] rem.archived /\ ~both /\ l = "Modified" -> {"add"}            \* 13
        [] rem.archived /\ l \in {"Nothing", "Deleted"}
             -> {"archiveRemote"}                                        \* 11, 12
        [] ~rem.archived /\ both /\ ~same -> {"store", "add"}            \* 10, 20
        [] ~rem.archived /\ both /\ same
             -> IF loc.archived THEN {"archiveLocal", "delete"}          \* 19
                ELSE {"clear"}                                           \* 9
        [] ~rem.archived /\ p = "Modified" /\ l \in {"Nothing", "Deleted"}
             -> {"store"}                                                \* 6, 7, 18
        [] ~rem.archived /\ p # "Modified" /\ loc.archived
             -> {"archiveLocal", "delete"}                               \* 16, 17
        [] ~rem.archived /\ p # "Modified" /\ ~loc.archived /\ l = "Modified"
             -> {"add"}                                                  \* 5, 8
        [] ~rem.archived /\ ~loc.archived /\ {p, l} = {"Deleted", "Nothing"}
             -> {"delete", "markDeleted"}                                \* 3, 4
        [] OTHER -> {}

Permitted ==
  (IF session = "MergeFromPilot" THEN {} ELSE {"add", "delete"}) \cup
  (IF session = "MergeToPilot" THEN {}
   ELSE {"store", "archiveRemote", "archiveLocal", "clear", "markDeleted"})

If(cond, S) == IF cond THEN S ELSE {}

(* The operations of the verdict that the direction permits, on the record  *)
(* in place k of the store (none if k = 0) and the record id of the PDA,    *)
(* read as rem.  add_to_pilot clears the status before it writes, and       *)
(* remembers the id only of a successful write; delete_from_pilot remembers *)
(* it in any case.                                                          *)
SyncRecord(k, id, rem) ==
  LET loc == IF k = 0 THEN None ELSE local[k]
      ops == Verdict(loc, rem) \cap Permitted
      wrote == "add" \in ops /\ link = "up"
      new == AssignedId(id)
      store ==
        IF ops \cap {"archiveRemote", "archiveLocal"} # {} /\ k # 0
          THEN [local EXCEPT ![k] = None]
        ELSE IF "markDeleted" \in ops THEN [local EXCEPT ![k].attr = "Deleted"]
        ELSE IF ops \cap {"add", "clear"} # {} THEN [local EXCEPT ![k].attr = "Nothing"]
        ELSE local
  IN  /\ local' = IF "store" \in ops THEN StoreRemote(store, id, rem.data) ELSE store
      /\ archive' = archive \cup If("archiveRemote" \in ops, {rem.data})
                            \cup If("archiveLocal" \in ops, {loc.data})
      /\ remote' = IF wrote THEN [remote EXCEPT ![new] = Dirty(loc.data)]
                   ELSE IF "delete" \in ops /\ OnPilot(id)
                   THEN [remote EXCEPT ![id] = Deleted]
                   ELSE remote
      /\ given' = given \cup If(wrote, {new})
      /\ ignore' = ignore \cup If(wrote, {new}) \cup If("delete" \in ops, {id})
      /\ exempt' = exempt \cup If({"add", "store"} \subseteq ops, {id})
                          \cup If(loc = None /\ rem.attr = "Deleted", {id})

-----------------------------------------------------------------------------
(* A session *)

Unchanged == UNCHANGED <<pcMatch, slow, session, link, before, again, spent>>
LoopOf(s) == CASE s \in TwoWay \cup {"MergeFromPilot"} -> "remote"
               [] s = "MergeToPilot" -> "new"
               [] s = "CopyToPilot" -> "copyOut"
               [] s = "CopyFromPilot" -> "copyIn"
NextLoop == CASE phase = "remote" -> "new"
              [] phase = "new" -> "modified"
              [] phase = "modified" -> "deleted"
LastLoopKeepsDeleted == phase \in {"modified", "copyOut", "copyIn"} \/ session = "MergeFromPilot"
LastLoop == \/ phase \in {"deleted", "copyOut", "copyIn"}
            \/ session = "MergeFromPilot"
            \/ session = "MergeToPilot" /\ phase = "modified"

(* The daemon loads the conduit and calls the operation.  It is a slow      *)
(* synchronization if the conduit asked for it or the PDA last met another  *)
(* PC; the two copies begin by emptying the other side.                     *)
BeginSession(s) ==
  /\ AtRest
  /\ s \in TwoWay => (s = "FastSync" <=> ~slow /\ pcMatch)
  /\ session' = s
  /\ phase' = LoopOf(s)
  /\ before' = [remote |-> remote, local |-> local]
  /\ remote' = IF s = "CopyToPilot" THEN [i \in Ids |-> None] ELSE remote
  /\ local' = IF s = "CopyFromPilot" THEN [k \in Keys |-> None] ELSE local
  /\ index' = 0
  /\ ignore' = {}
  /\ again' = (phase = "closed" /\ session \in TwoWay /\ s = "FastSync")
  /\ UNCHANGED <<archive, given, pcMatch, slow, link, exempt, spent>>

(* The records the loop over the PDA reads: dlp_ReadNextModifiedRec or      *)
(* dlp_ReadRecordByIndex.                                                   *)
Readable ==
  IF link = "down" THEN {}
  ELSE {i \in Ahead(Ids) : IF session = "FastSync" THEN Flagged(remote[i])
                           ELSE remote[i] # None}

(* FastSync, SlowSync and standard_abs_merge_to_local.                      *)
ReadRemote ==
  /\ phase = "remote"
  /\ Readable # {}
  /\ LET id == Least(Readable)
         places == Matching(local, id)
         k == IF places = {} THEN 0 ELSE Least(places)
     IN  /\ index' = id
         /\ IF \/ id \in ignore
               \/ session = "MergeFromPilot" /\ remote[id].attr # "Modified"
            THEN UNCHANGED <<sides, ignore, exempt>>
            ELSE SyncRecord(k, id, remote[id])
  /\ UNCHANGED phase
  /\ Unchanged

(* iterate_specific, for the loop that is running.                          *)
AttrOf == CASE phase = "new" -> "New"
            [] phase = "modified" -> "Modified"
            [] phase = "deleted" -> "Deleted"
ToTreat == {k \in Ahead(Keys) :
              local[k] # None /\ local[k].attr = AttrOf /\ ~local[k].archived}

(* standard_abs_merge_to_remote: a new record is sent, and is given the id  *)
(* the PDA assigned, or 0 if it could not be written.                       *)
InstallNew ==
  /\ phase = "new"
  /\ ToTreat # {}
  /\ LET k == Least(ToTreat)
         new == IF link = "up" THEN AssignedId(local[k].id) ELSE Unassigned
     IN  /\ index' = k
         /\ local' = [local EXCEPT ![k].attr = "Nothing", ![k].id = new]
         /\ IF link = "up"
            THEN /\ remote' = [remote EXCEPT ![new] = Dirty(local[k].data)]
                 /\ given' = given \cup {new}
                 /\ ignore' = ignore \cup {new}
            ELSE UNCHANGED <<remote, given, ignore>>
  /\ UNCHANGED <<archive, phase, exempt>>
  /\ Unchanged

(* The loops over the modified records (standard_abs_merge_to_remote) and   *)
(* the deleted ones (standard_abs_check_locally_deleted_records).           *)
SyncLocal ==
  /\ phase \in {"modified", "deleted"}
  /\ ToTreat # {}
  /\ LET k == Least(ToTreat)
         id == local[k].id
     IN  /\ index' = k
         /\ IF id \in ignore
            THEN UNCHANGED <<sides, ignore, exempt>>
            ELSE SyncRecord(k, id, ReadRecordById(id))
  /\ UNCHANGED phase
  /\ Unchanged

(* gnome_pilot_conduit_standard_real_copy_to_pilot: one record of the store.*)
CopyLocal ==
  /\ phase = "copyOut"
  /\ Ahead({k \in Keys : local[k] # None}) # {}
  /\ LET k == Least(Ahead({j \in Keys : local[j] # None}))
         loc == local[k]
         new == AssignedId(loc.id)
         wrote == ~loc.archived /\ loc.attr # "Deleted" /\ link = "up"
     IN  /\ index' = k
         /\ archive' = archive \cup If(loc.archived, {loc.data})
         /\ local' = IF loc.archived THEN [local EXCEPT ![k] = None]
                     ELSE IF loc.attr = "Deleted" THEN local
                     ELSE [local EXCEPT ![k].attr = "Nothing",
                                        ![k].id = IF wrote THEN new ELSE @]
         /\ remote' = IF wrote THEN [remote EXCEPT ![new] = Dirty(loc.data)] ELSE remote
         /\ given' = given \cup If(wrote, {new})
  /\ UNCHANGED <<phase, ignore, exempt>>
  /\ Unchanged

(* gnome_pilot_conduit_standard_real_copy_from_pilot: one record of the PDA.*)
CopyRemote ==
  /\ phase = "copyIn"
  /\ Readable # {}
  /\ LET id == Least(Readable)
         rem == remote[id]
     IN  /\ index' = id
         /\ archive' = archive \cup If(rem.archived, {rem.data})
         /\ local' = IF rem.archived \/ rem.attr = "Deleted" THEN local
                     ELSE StoreRemote(local, id, rem.data)
  /\ UNCHANGED <<remote, given, phase, ignore, exempt>>
  /\ Unchanged

LoopDone ==
  /\ phase \in {"remote", "copyIn"} => Readable = {}
  /\ phase \in {"new", "modified", "deleted"} => ToTreat = {}
  /\ phase = "copyOut" => Ahead({k \in Keys : local[k] # None}) = {}

EndLoop ==
  /\ ~AtRest
  /\ LoopDone
  /\ ~LastLoop
  /\ phase' = NextLoop
  /\ index' = 0
  /\ UNCHANGED <<sides, ignore, exempt>>
  /\ Unchanged

(* Ids of which the two sides differ.                                       *)
Content(r) == IF r = None THEN None ELSE r.data
AgreeOn(rems, locs, id) ==
  IF rems[id] = None THEN Matching(locs, id) = {}
  ELSE \E k \in Keys : Matching(locs, id) = {k} /\ locs[k].data = rems[id].data

(* Finish, standard_abs_close_db_and_purge_local (..., TRUE), and the sync  *)
(* stamp the daemon then writes: the flags of the PDA are reset, whatever   *)
(* the session was.                                                         *)
CloseKeepsFlags ==
  /\ ~AtRest
  /\ LoopDone
  /\ LastLoop
  /\ phase' = "closed"
  /\ local' = Purge(local)
  /\ index' = 0
  /\ UNCHANGED <<remote, archive, given, pcMatch, slow, session, ignore, link, before,
                 again, exempt, spent>>
Close ==
  /\ ~AtRest
  /\ LoopDone
  /\ LastLoop
  /\ phase' = "closed"
  /\ local' = Purge(local)
  /\ remote' = IF link = "up" THEN CleanUp(remote) ELSE remote
  /\ pcMatch' = (pcMatch \/ link = "up")
  /\ slow' = (slow /\ session \notin TwoWay)
  /\ link' = "up"
  /\ index' = 0
  /\ exempt' = {id \in (IF session \in TwoWay THEN exempt ELSE Ids) :
                  ~AgreeOn(remote', local', id)}
  /\ UNCHANGED <<archive, given, session, ignore, before, again, spent>>

(* The PDA stops to answer in the middle of a session.                      *)
BreakLink ==
  /\ ~AtRest
  /\ link = "up"
  /\ spent.breaks < MaxBreaks
  /\ link' = "down"
  /\ spent' = [spent EXCEPT !.breaks = @ + 1]
  /\ UNCHANGED <<sides, pcMatch, slow, phase, session, index, ignore, before, again,
                 exempt>>

-----------------------------------------------------------------------------
(* Between the sessions *)

(* What is known of the last session is of no use any more.                 *)
Leave ==
  /\ phase' = "idle"
  /\ session' = "FastSync"
  /\ before' = [remote |-> remote, local |-> local]
  /\ again' = FALSE
  /\ ignore' = {}

Edit ==
  /\ AtRest
  /\ spent.edits < MaxEdits
  /\ spent' = [spent EXCEPT !.edits = @ + 1]
  /\ Leave
  /\ UNCHANGED <<archive, pcMatch, slow, index, link, exempt>>

(* A bound: as many records as the PDA has ids to give.  A record without   *)
(* an id is given one; one that is modified without an id is given one when *)
(* it is written, which the store does not learn, and another later.        *)
Unsent == Matching(local, Unassigned)
Resent == {k \in Unsent : local[k].attr = "Modified"}
Room == Cardinality(given) + Cardinality(Unsent) + Cardinality(Resent)
          < Cardinality(Ids)

EditRemote ==
  /\ Edit
  /\ UNCHANGED local
  /\ \/ /\ Room
        /\ \E v \in Values :
             remote' = [remote EXCEPT ![Least(Ids \ given)] = Dirty(v)]
        /\ given' = given \cup {Least(Ids \ given)}
     \/ /\ \E i \in Ids :
             /\ remote[i] # None
             /\ remote[i].attr # "Deleted" /\ ~remote[i].archived
             /\ \/ \E v \in Values : remote' = [remote EXCEPT ![i] = Dirty(v)]
                \/ remote' = [remote EXCEPT ![i] = Deleted]
                \/ remote' = [remote EXCEPT ![i].archived = TRUE]
        /\ UNCHANGED given

EditLocal ==
  /\ Edit
  /\ UNCHANGED <<remote, given>>
  /\ \/ /\ Room
        /\ \E k \in Keys, v \in Values :
             /\ local[k] = None
             /\ local' = [local EXCEPT ![k] = [LocalOf(Unassigned, v) EXCEPT !.attr = "New"]]
     \/ \E k \in Keys :
          /\ local[k] # None
          /\ local[k].attr \in {"Nothing", "Modified"} /\ ~local[k].archived
          /\ \/ /\ local[k].id = Unassigned => Room
                /\ \E v \in Values :
                  local' = [local EXCEPT ![k].attr = "Modified", ![k].data = v]
             \/ local' = [local EXCEPT ![k].attr = "Deleted"]
             \/ local' = [local EXCEPT ![k].archived = TRUE]

(* The PDA is synchronized with another PC, which resets its flags.         *)
OtherPC ==
  /\ AtRest
  /\ spent.others < MaxOther
  /\ spent' = [spent EXCEPT !.others = @ + 1]
  /\ pcMatch' = FALSE
  /\ remote' = CleanUp(remote)
  /\ exempt' = exempt \cup {i \in Ids : Flagged(remote[i])}
  /\ Leave
  /\ UNCHANGED <<local, archive, given, slow, index, link>>

(* The user asks for a slow synchronization.                                *)
SetSlow ==
  /\ AtRest
  /\ ~slow
  /\ slow' = TRUE
  /\ Leave
  /\ UNCHANGED <<sides, pcMatch, index, link, exempt, spent>>

Step == ReadRemote \/ InstallNew \/ SyncLocal \/ CopyLocal \/ CopyRemote
          \/ EndLoop \/ Close

Next ==
  \/ \E s \in Sessions : BeginSession(s)
  \/ Step
  \/ BreakLink
  \/ EditRemote
  \/ EditLocal
  \/ OtherPC
  \/ SetSlow

Spec == Init /\ [][Next]_vars

(* The daemon does nothing else while a session runs.                       *)
FairSpec == Spec /\ WF_vars(Step)

-----------------------------------------------------------------------------
(* Properties *)

StateOf(r) ==
  IF r = None THEN "None"
  ELSE IF ~r.archived THEN r.attr
  ELSE IF r.attr = "Modified" THEN "ArchivedModified" ELSE "Archived"
FoundLocal(id) ==
  LET places == Matching(before.local, id)
  IN  IF places = {} THEN None ELSE before.local[Least(places)]
Now(store, id) ==
  LET places == Matching(store, id)
  IN  IF places = {} THEN None ELSE store[Least(places)].data
ReadByLoop(r) == r # None /\ (session = "SlowSync" \/ Flagged(r))
Settled == phase = "closed" /\ session \in TwoWay /\ spent.breaks = 0

(* The table of conduit.pdf in the comment at 1106-1170: what is on the two *)
(* sides of a record afterwards, and what is in the archive, follows from   *)
(* how the session found it.  Not covered are the rows the code departs     *)
(* from: a deleted record that is unknown to the PC is stored as an empty   *)
(* one, and a record archived on the PC that the loop over the PDA does not *)
(* read (row 16).                                                           *)
AsTable(r, l, read, onPC, onPilot, archived) ==
  LET p == StateOf(r)
      c == StateOf(l)
      pv == Content(r)
      cv == Content(l)
      both(v) == onPC = v /\ onPilot = v
      (* "add the Pilot record to the PC, and the PC record to Pilot" *)
      swapped == onPC = pv /\ onPilot = cv
      archivedAs(v) == both(None) /\ v \in archived
  IN  /\ p = "Modified" /\ c \in {"None", "Nothing", "Deleted", "Archived"}
           => both(pv)                                           \* 1, 6, 7, 18
      /\ <<p, c>> \in {<<"Deleted", "Nothing">>, <<"Nothing", "Deleted">>}
           => both(None)                                         \* 3, 4
      /\ p \in {"Deleted", "Nothing", "Archived"} /\ c = "Modified"
           => both(cv)                                           \* 5, 8, 13
      /\ p = "Modified" /\ c = "Modified" => swapped             \* 9, 10
      /\ p \in {"Archived", "ArchivedModified"} /\ c \in {"None", "Nothing", "Deleted"}
           => archivedAs(pv)                                     \* 11, 12
      /\ p = "ArchivedModified" /\ c = "Modified"
           => IF pv = cv THEN archivedAs(pv) ELSE swapped        \* 14, 15
      /\ p \in {"Nothing", "Deleted"} /\ c \in {"Archived", "ArchivedModified"} /\ read
           => archivedAs(cv)                                     \* 16, 17
      /\ p = "Modified" /\ c = "ArchivedModified"
           => IF pv = cv THEN archivedAs(cv) ELSE swapped        \* 19, 20

(* A two-way session over a link that holds treats every record as the table*)
(* says.                                                                    *)
TableRespected ==
  Settled => \A id \in Ids :
    AsTable(before.remote[id], FoundLocal(id), ReadByLoop(before.remote[id]),
            Now(local, id), Content(remote[id]), archive)

AccountedFor(id) ==
  \/ AgreeOn(remote, local, id)
  \/ Flagged(remote[id])
  \/ \E k \in Matching(local, id) : local[k].attr # "Nothing" \/ local[k].archived

(* Between sessions, records that differ on the two sides are flagged on    *)
(* one of them, as FastSync requires (comment at 1622-1624): nothing a      *)
(* session does makes them drift apart in silence.  Exempt are the ids of   *)
(* conflicts, which are swapped; those a one-way session left differing;    *)
(* and those whose flags another PC reset.                                  *)
FlagsSufficient ==
  AtRest /\ spent.breaks = 0 => \A id \in Ids \ exempt : AccountedFor(id)

(* A fast synchronization repeated with no edit in between has nothing to   *)
(* do, whatever the first one had to: it left no flag behind that makes the *)
(* second one delete, store or write a record again.                        *)
RepeatedSyncIsIdle ==
  again /\ spent.breaks = 0 =>
    remote = before.remote /\ local = before.local

(* A record of the PDA never has two counterparts on the PC.                *)
OneCounterpart ==
  \A id \in Ids : \A j, k \in Matching(local, id) : j = k

(* Every session ends, although it flags records in the database it reads.  *)
SessionsEnd == ~AtRest ~> AtRest

(* A disagreement with the comments of the code.                            *)

(* A broken link included, there is a fast synchronization only where the   *)
(* flags are sufficient: "This requires that both the remote (Pilot) and    *)
(* local (PC) have consistent, accurate, and sufficient modification flags" *)
(* (1622-1623).                                                             *)
FastSyncHasFlags ==
  AtRest /\ pcMatch /\ ~slow => \A id \in Ids \ exempt : AccountedFor(id)
=============================================================================
