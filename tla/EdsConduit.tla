----------------------------- MODULE EdsConduit -----------------------------
(***************************************************************************)
(* The conduits for evolution-data-server: memo, todo, address and calendar *)
(* (conduits/evolution-data-server/<kind>-conduit.c), with the class that   *)
(* hands pilot-link's callbacks on to them                                  *)
(* (gpilotd/gnome-pilot-conduit-sync-abs.c).                                *)
(*                                                                         *)
(* A record is known by what it is a copy of: an item is whatever a user    *)
(* entered once, on either side, and every object and PDA record holds one. *)
(* The contents of a record are in the module EdsRecords.                   *)
(*                                                                         *)
(* The order in which the callbacks are called is that of pilot-link's      *)
(* sync.c, which is not in the repository: RemoteRecord and LocalObject allow*)
(* for each pair of records every treatment its flags permit.               *)
(***************************************************************************)
EXTENDS PilotMap, FiniteSets

CONSTANTS
  Kinds,          \* subset of {"plain", "calendar"}: memo, todo and address
                  \* differ in nothing but the contents of their records
  Sources,        \* EDS sources of that kind
  Items,          \* what users may enter: numbers, in this order
  Long,           \* items that last for several days
  Recurring,      \* those of Long that recur
  MultiDaySplit,  \* the calendar setting of that name
  Ops,            \* operations a synchronization may be
  MaxEdits,       \* bound on changes of a record on the PDA, and deletions
  MaxOdd          \* bound on what is out of the ordinary: settings saved,
                  \* sessions that break off or go one way only

ASSUME KindsAssumption == Kinds \subseteq {"plain", "calendar"}
ASSUME ItemsAssumption ==
  /\ IsFiniteSet(Items) /\ Items = 1 .. Cardinality(Items)
  /\ Recurring \subseteq Long /\ Long \subseteq Items
ASSUME SourcesAssumption == Sources \cap {"none", "empty"} = {}
ASSUME UidsAssumption == Uids \subseteq Nat \ {0}
ASSUME OpsAssumption ==
  Ops \subseteq {"synchronize", "merge to", "merge from", "copy to", "copy from"}
ASSUME EdsBoundsAssumption == MaxEdits \in Nat /\ MaxOdd \in Nat

(* What a record holds: an item as a whole, or a day of one that was split. *)
Whole(item) == <<item, 0>>
Days(item) == {<<item, 1>>, <<item, 2>>}
Things == {Whole(i) : i \in Items} \cup UNION {Days(i) : i \in Long}
LongThings == {Whole(i) : i \in Long}

Flags == {"none", "dirty", "deleted", "archived"}
Changes == {"modified", "added", "deleted"}

VARIABLES
  kind,      \* which kind of conduit
  store,     \* [Sources -> [uid -> item]]: the objects in EDS
  pda,       \* [id -> [item, flag]]: the records on the PDA
  file,      \* the map file
  conf,      \* the key file: source and last_uri
  gui,       \* configurations of an open settings window (cfg, new_cfg)
  phase,     \* of the session
  ses,       \* what the conduit holds in a session
  uidsUsed,  \* uids generated so far
  pidsUsed,  \* ids the PDA has given so far
  left,      \* what the bounds still allow
  wounds     \* history: what has happened to map and key file since they were
             \* last written together

vars == <<kind, store, pda, file, conf, gui, phase, ses, uidsUsed, pidsUsed, left, wounds>>

Content == UNION {[S -> Things] : S \in SUBSET Uids}
Last == Sources \cup {"none", "empty"}
Conf == [source: Sources, last: Last]
Phases == {"idle", "loaded", "running", "save", "done"}
Wounds == {"unfinished", "half saved", "settings"}

(* changed: the objects in changed_hash; listed: ctxt->comps or cards;       *)
(* queue: what for_each or for_each_modified has not yet come to;            *)
(* todo: the PDA records pilot-link has not yet treated.                     *)
Session == [op: Ops, slow: BOOLEAN, cfg: Conf, map: Tables,
            changed: UNION {[S -> Changes] : S \in SUBSET Uids},
            listed: Content, queue: SUBSET Uids, todo: SUBSET Pids]

NoSession == [op |-> "none"]
NoConf == [source |-> "none", last |-> "none"]
Closed == [cfg |-> NoConf, new |-> NoConf]

TypeOK ==
  /\ kind \in Kinds
  /\ store \in [Sources -> Content]
  /\ pda \in UNION {[S -> [item: Things, flag: Flags]] : S \in SUBSET Pids}
  /\ file \in Files
  /\ conf \in Conf
  /\ gui = Closed \/ gui \in [cfg: Conf, new: Conf]
  /\ phase \in Phases
  /\ IF phase = "idle" THEN ses = NoSession ELSE ses \in Session
  /\ uidsUsed \in Uids \cup {0} /\ pidsUsed \in Pids \cup {0}
  /\ left \in [items: 0 .. Cardinality(Items), edits: 0 .. MaxEdits, odd: 0 .. MaxOdd]
  /\ wounds \subseteq Wounds

Init ==
  /\ kind \in Kinds
  /\ store = [s \in Sources |-> NoEntries]
  /\ pda = NoEntries
  /\ file = NoEntries
  /\ conf \in [source: Sources, last: {"none"}]
  /\ gui = Closed
  /\ phase = "idle" /\ ses = NoSession
  /\ uidsUsed = 0 /\ pidsUsed = 0
  /\ left = [items |-> Cardinality(Items), edits |-> MaxEdits, odd |-> MaxOdd]
  /\ wounds = {}

NewUid == uidsUsed + 1
NewPid == pidsUsed + 1
Wound(w) == wounds' = wounds \cup {w}

(* The next item a user enters.                                             *)
NewItem == Whole(Cardinality(Items) - left.items + 1)
Enter == left.items > 0 /\ left' = [left EXCEPT !.items = @ - 1]
Edit == left.edits > 0 /\ left' = [left EXCEPT !.edits = @ - 1]
Odd == left.odd > 0 /\ left' = [left EXCEPT !.odd = @ - 1]

---------------------------------------------------------------------------
(* The users, on either side.                                               *)

(* Objects come into being between sessions, and may go at any time.        *)
NewObject(s) ==
  /\ phase = "idle"
  /\ Enter /\ NewUid \in Uids
  /\ store' = [store EXCEPT ![s] = Put(@, NewUid, NewItem)]
  /\ uidsUsed' = NewUid
  /\ UNCHANGED <<kind, pda, file, conf, gui, phase, ses, pidsUsed, wounds>>

DropObject(s, u) ==
  /\ Edit
  /\ store' = [store EXCEPT ![s] = Without(@, u)]
  /\ UNCHANGED <<kind, pda, file, conf, gui, phase, ses, uidsUsed, pidsUsed, wounds>>

NewRecord ==
  /\ phase = "idle"
  /\ Enter /\ NewPid \in Pids
  /\ pda' = Put(pda, NewPid, [item |-> NewItem, flag |-> "dirty"])
  /\ pidsUsed' = NewPid
  /\ UNCHANGED <<kind, store, file, conf, gui, phase, ses, uidsUsed, wounds>>

EditRecord(p, flag) ==
  /\ phase = "idle"
  /\ Edit
  /\ pda[p].flag \in {"none", "dirty"} /\ flag # pda[p].flag
  /\ pda' = [pda EXCEPT ![p].flag = flag]
  /\ UNCHANGED <<kind, store, file, conf, gui, phase, ses, uidsUsed, pidsUsed, wounds>>

---------------------------------------------------------------------------
(* The settings of the conduit, in the process of the capplet: it loads the *)
(* configuration when it loads the conduit, and saves all of it again.      *)

Saved(c) == [c EXCEPT !.last = IF @ = "none" THEN "empty" ELSE @]
WriteConf(c) ==
  /\ conf' = Saved(c)
  /\ wounds' = IF Saved(c).last \in {conf.last, "empty"} THEN wounds ELSE wounds \cup {"settings"}

OpenSettings ==
  /\ phase = "idle"
  /\ gui = Closed /\ left.odd > 0
  /\ gui' = [cfg |-> conf, new |-> conf]
  /\ UNCHANGED <<kind, store, pda, file, conf, phase, ses, uidsUsed, pidsUsed, left, wounds>>

SaveSettings(s) ==
  /\ gui # Closed /\ Odd
  /\ gui' = [gui EXCEPT !.new.source = s]
  /\ WriteConf(gui'.new)
  /\ UNCHANGED <<kind, store, pda, file, phase, ses, uidsUsed, pidsUsed>>

RevertSettings ==
  /\ gui # Closed /\ Odd
  /\ gui' = [gui EXCEPT !.new = gui.cfg]
  /\ WriteConf(gui.cfg)
  /\ UNCHANGED <<kind, store, pda, file, phase, ses, uidsUsed, pidsUsed>>

CloseSettings ==
  /\ gui # Closed
  /\ gui' = Closed
  /\ UNCHANGED <<kind, store, pda, file, conf, phase, ses, uidsUsed, pidsUsed, left, wounds>>

---------------------------------------------------------------------------
(* The conduit is loaded, and one of its operations is called.  A           *)
(* synchronization is a slow one if conduit or stamp say so; which, is the  *)
(* manager's business.                                                      *)

SlowAtStart(op) == IF op = "synchronize" THEN BOOLEAN ELSE {FALSE}

Load(op) ==
  /\ phase = "idle"
  /\ phase' = "loaded"
  /\ \E slow \in SlowAtStart(op) :
       ses' = [op |-> op, slow |-> slow, cfg |-> conf, map |-> EmptyMap,
               changed |-> NoEntries, listed |-> NoEntries, queue |-> {}, todo |-> {}]
  /\ IF op = "synchronize" THEN UNCHANGED <<left, wounds>>
     ELSE Odd /\ wounds' = wounds \cup {"unfinished"}
  /\ UNCHANGED <<kind, store, pda, file, conf, gui, uidsUsed, pidsUsed>>

(* The objects of the source that is synchronized.                          *)
Objects == store[ses.cfg.source]

(* changed_hash: every change but those of archived objects.                *)
ChangedHash(m, changes) ==
  [u \in {u \in DOMAIN changes : ~UidIsArchived(m, u)} |-> changes[u]]

AlwaysSameSource(cfg) == FALSE
OtherSource(cfg) == cfg.last # "none" /\ cfg.last # cfg.source

CheckForSlow(m) ==
  LET slow == ses.slow \/ DOMAIN m.pids = {} \/ OtherSource(ses.cfg)
  IN [slow |-> slow,
      map |-> [(IF OtherSource(ses.cfg) THEN Clear(m) ELSE m)
                EXCEPT !.touchedOnly = slow \/ ses.op \in {"copy to", "copy from"}]]

RecordsToTreat(slow) ==
  CASE ses.op = "merge to" -> {}
    [] ses.op = "copy to" -> DOMAIN pda
    [] ses.op = "copy from" -> {p \in DOMAIN pda : pda[p].flag # "deleted"}
    [] OTHER -> {p \in DOMAIN pda : slow \/ pda[p].flag # "none"}

ObjectsNewlyChanged(comps, changes) ==
  {u \in DOMAIN changes : u \notin DOMAIN file}
ObjectsToTreat(comps, changes) ==
  CASE ses.op = "merge from" -> {}
    [] ses.op \in {"copy to", "copy from"} -> DOMAIN comps
    [] OTHER -> DOMAIN changes

(* What all pre_sync handlers do once map, list and changes are there.      *)
Begin(m, comps, changes) ==
  LET checked == CheckForSlow(m)
  IN /\ phase' = "running"
     /\ ses' = [ses EXCEPT
          !.map = checked.map, !.slow = checked.slow,
          !.changed = ChangedHash(m, changes), !.listed = comps,
          !.queue = ObjectsToTreat(comps, changes),
          !.todo = RecordsToTreat(checked.slow)]
     /\ wounds' = IF OtherSource(ses.cfg) /\ DOMAIN m.uids # {}
                  THEN wounds \cup {"unfinished"} ELSE wounds
     /\ UNCHANGED <<kind, pda, file, conf, gui, pidsUsed, left>>

AllUnchanged(comps) == [u \in DOMAIN comps |-> "nothing"]
AllModified(comps) == [u \in DOMAIN comps |-> "modified"]

MemoPreSync ==
  /\ kind = "plain" /\ phase = "loaded"
  /\ Begin(ReadMap(file), Objects, AllModified(Objects))
  /\ UNCHANGED <<store, uidsUsed>>

TodoPreSync ==
  /\ kind = "plain" /\ phase = "loaded"
  /\ Begin(ReadMap(file), Objects, AllModified(Objects))
  /\ UNCHANGED <<store, uidsUsed>>

AddressPreSync ==
  /\ kind = "plain" /\ phase = "loaded"
  /\ Begin(ReadMap(file), Objects, AllModified(Objects))
  /\ UNCHANGED <<store, uidsUsed>>

(* The calendar first replaces what lasts for several days by an event for  *)
(* each day.  Events that it does not split (because they recur, or by the  *)
(* setting) are left out of the changes all the same if they have no PDA    *)
(* id.                                                                      *)
Spanning == {u \in DOMAIN Objects : Objects[u] \in LongThings}
ToSplit == IF MultiDaySplit THEN {u \in Spanning : Objects[u][1] \notin Recurring} ELSE {}
FirstClone(u) == uidsUsed + 2 * Cardinality({v \in ToSplit : v < u}) + 1
Clones == [c \in uidsUsed + 1 .. uidsUsed + 2 * Cardinality(ToSplit) |->
            LET u == CHOOSE u \in ToSplit : c \in {FirstClone(u), FirstClone(u) + 1}
            IN <<Objects[u][1], c - FirstClone(u) + 1>>]

Over(f, g) == [x \in DOMAIN f \cup DOMAIN g |-> IF x \in DOMAIN f THEN f[x] ELSE g[x]]

SplitChanges(m) ==
  LET kept == DOMAIN Objects \ {u \in Spanning : LookupPid(m, u) = 0}
  IN Over([c \in DOMAIN Clones |-> "added"],
          [u \in kept |-> IF u \in ToSplit THEN "deleted" ELSE "modified"])

(* An archived object whose original was split is forgotten.                *)
ForgetArchived(m, gone) ==
  [m EXCEPT !.uids = [u \in DOMAIN @ \ {u \in gone : m.uids[u].archived} |-> @[u]],
            !.pids = [p \in DOMAIN @ \ {m.uids[u].pid : u \in {u \in gone : m.uids[u].archived}} |-> @[p]]]

CalendarPreSync ==
  /\ kind = "calendar" /\ phase = "loaded"
  /\ DOMAIN Clones \subseteq Uids
  /\ LET m == ReadMap(file)
         changes == SplitChanges(m)
         gone == {u \in DOMAIN changes \cap DOMAIN m.uids : changes[u] = "deleted"}
     IN Begin(ForgetArchived(m, gone), Over(Clones, Objects), changes)
  /\ store' = [store EXCEPT ![ses.cfg.source] =
                 Over(Clones, [u \in DOMAIN @ \ ToSplit |-> @[u]])]
  /\ uidsUsed' = uidsUsed + Cardinality(DOMAIN Clones)

PreSync == MemoPreSync \/ TodoPreSync \/ AddressPreSync \/ CalendarPreSync

---------------------------------------------------------------------------
(* The handlers of single records.  Each gives the new fields of the        *)
(* session, and says what becomes of the store.                             *)

Status(u) == IF u \in DOMAIN ses.changed THEN ses.changed[u] ELSE "nothing"

(* set_status_cleared                                                       *)
Cleared(s, u) == [s EXCEPT !.changed = Without(@, u)]

(* set_pilot_id; an id of 0 separates the object from its record.           *)
SetPilotIdNot(s, u, id) == s
SetPilotId(s, u, id) == [s EXCEPT !.map = Insert(@, id, u, FALSE)]

(* archive_record: the id is that of the local record.                      *)
ArchiveRecord(s, u) ==
  [s EXCEPT !.map = Insert(@, LookupPid(@, u), u, TRUE)]

(* match, and the local record that is made of the object.                  *)
Match(s, p) == [s EXCEPT !.map = TouchByPid(@, p)]
MatchedUid(p) == ses.map.pids[p].uid
LocalRecord(s, u) == [s EXCEPT !.map = TouchByUid(@, u)]

(* add_record: a new object, with a new uid.                                *)
AddRecord(s, p) ==
  /\ NewUid \in Uids
  /\ store' = [store EXCEPT ![ses.cfg.source] = Put(@, NewUid, pda[p].item)]
  /\ uidsUsed' = NewUid
  /\ ses' = [s EXCEPT !.map = Insert(@, p, NewUid, FALSE)]

(* replace_record fails if the object is not there any more.                *)
Replaceable(u) == u \in DOMAIN Objects

(* delete_record: the map forgets the pair whether EDS removes it or not.   *)
DeleteRecord(s, u) ==
  /\ store' = [store EXCEPT ![ses.cfg.source] = Without(@, u)]
  /\ uidsUsed' = uidsUsed
  /\ ses' = [s EXCEPT !.map = RemoveByUid(@, u)]

Leave(s) == ses' = s /\ UNCHANGED <<store, uidsUsed>>

---------------------------------------------------------------------------
(* pilot-link hands over the records of the PDA.                            *)

Unmatched(s, p) ==
  IF pda[p].flag = "deleted" THEN Leave(s) ELSE AddRecord(s, p)

(* What may be done with a record that is paired: by the flags of the PDA   *)
(* record and the status of the object, a conflict decided one way or the   *)
(* other (the object's turn comes after the records).                      *)
Matched(s, p, u) ==
  CASE pda[p].flag = "none" -> Leave(s)
    [] pda[p].flag = "dirty" ->
         \/ Replaceable(u) /\ (Leave(s) \/ Leave(Cleared(s, u)))
         \/ Status(u) # "nothing" /\ Leave(s)
    [] pda[p].flag = "deleted" ->
         \/ DeleteRecord(Cleared(s, u), u)
         \/ Status(u) \in {"modified", "added"} /\ Leave(s)
    [] pda[p].flag = "archived" -> Leave(ArchiveRecord(Cleared(s, u), u))

RemoteRecord(p) ==
  /\ phase = "running" /\ ses.op \in {"synchronize", "merge from"}
  /\ p \in ses.todo
  /\ LET s == [ses EXCEPT !.todo = @ \ {p}]
     IN IF p \in DOMAIN ses.map.pids
        THEN Matched(Match(s, p), p, MatchedUid(p))
        ELSE Unmatched(s, p)
  /\ UNCHANGED <<kind, pda, file, conf, gui, phase, pidsUsed, left, wounds>>

(* copy_from_pilot deletes the objects first, copy_to_pilot the records.    *)
CopyFromPilot ==
  /\ phase = "running" /\ ses.op = "copy from"
  /\ IF ses.queue # {}
     THEN \E u \in ses.queue : DeleteRecord([ses EXCEPT !.queue = @ \ {u}], u)
     ELSE \E p \in ses.todo : AddRecord([ses EXCEPT !.todo = @ \ {p}], p)
  /\ UNCHANGED <<kind, pda, file, conf, gui, phase, pidsUsed, left, wounds>>

CopyToPilot ==
  /\ phase = "running" /\ ses.op = "copy to"
  /\ \E p \in ses.todo :
       /\ pda' = Without(pda, p)
       /\ ses' = [ses EXCEPT !.todo = @ \ {p}]
  /\ UNCHANGED <<kind, store, file, conf, gui, phase, uidsUsed, pidsUsed, left, wounds>>

RemoteDone == ses.todo = {} /\ (ses.op = "copy from" => ses.queue = {})

---------------------------------------------------------------------------
(* The conduit hands over its objects: those of changed_hash, or all when   *)
(* it copies to the PDA.                                                    *)

Offered(u) == ses.op = "copy to" \/ u \in DOMAIN ses.changed

NextItems == {u \in ses.queue : Offered(u)}

(* An object that was split, or had been deleted: its record goes, too.     *)
SendDeletion(s, u, id) ==
  /\ Status(u) = "deleted" /\ ses.op # "copy to"
  /\ pda' = Without(pda, id)
  /\ DeleteRecord(Cleared(s, u), u)
  /\ pidsUsed' = pidsUsed

(* A record the PDA does not have yet: it assigns an id.                    *)
SendNew(s, u, id) ==
  /\ Status(u) # "deleted" \/ ses.op = "copy to"
  /\ id \notin DOMAIN pda
  /\ NewPid \in Pids
  /\ pda' = Put(pda, NewPid, [item |-> s.listed[u], flag |-> "none"])
  /\ Leave(Cleared(SetPilotId(s, u, NewPid), u))
  /\ pidsUsed' = NewPid

SendChanged(s, u, id) ==
  /\ Status(u) # "deleted"
  /\ id \in DOMAIN pda
  /\ pda' = [pda EXCEPT ![id] = [item |-> s.listed[u], flag |-> "none"]]
  /\ Leave(Cleared(s, u))
  /\ pidsUsed' = pidsUsed

LocalObject(u) ==
  /\ phase = "running" /\ RemoteDone
  /\ u \in NextItems
  /\ LET s == LocalRecord([ses EXCEPT !.queue = @ \ {u}], u)
         id == LookupPid(ses.map, u)
     IN SendDeletion(s, u, id) \/ SendNew(s, u, id) \/ SendChanged(s, u, id)
  /\ UNCHANGED <<kind, file, conf, gui, phase, left, wounds>>

LocalDone == NextItems = {}

---------------------------------------------------------------------------
(* post_sync saves the configuration, and after it the map; that the map    *)
(* could not be written is not reported.                                    *)

PostSync ==
  /\ phase = "running" /\ RemoteDone /\ LocalDone
  /\ conf' = [ses.cfg EXCEPT !.last = ses.cfg.source]
  /\ phase' = "save"
  /\ UNCHANGED <<kind, store, pda, file, gui, ses, uidsUsed, pidsUsed, left, wounds>>

WriteMapFile ==
  /\ phase = "save"
  /\ \/ file' = WriteMap(ses.map) /\ UNCHANGED <<left, wounds>>
     \/ /\ Odd
        /\ wounds' = wounds \cup {"half saved"}
        /\ UNCHANGED file
  /\ phase' = "done"
  /\ UNCHANGED <<kind, store, pda, conf, gui, ses, uidsUsed, pidsUsed>>

(* The PDA drops what is deleted or archived, and resets the flags.         *)
CleanUp ==
  /\ phase = "done"
  /\ pda' = [p \in {p \in DOMAIN pda : pda[p].flag \notin {"deleted", "archived"}} |->
              [pda[p] EXCEPT !.flag = "none"]]
  /\ phase' = "idle" /\ ses' = NoSession
  /\ UNCHANGED <<kind, store, file, conf, gui, uidsUsed, pidsUsed, left, wounds>>

(* The link breaks, EDS fails, or gpilotd dies: what the conduit holds is   *)
(* gone, and post_sync is not called.                                       *)
Break ==
  /\ phase # "idle"
  /\ Odd
  /\ phase' = "idle" /\ ses' = NoSession
  /\ wounds' = CASE phase = "loaded" -> wounds
                 [] phase = "save" -> wounds \cup {"half saved"}
                 [] OTHER -> wounds \cup {"unfinished"}
  /\ UNCHANGED <<kind, store, pda, file, conf, gui, uidsUsed, pidsUsed>>

(* replace_record returns -1, and so does everything above it.              *)
ReplaceFails(p) ==
  /\ phase = "running" /\ ses.op \in {"synchronize", "merge from"}
  /\ p \in ses.todo /\ p \in DOMAIN ses.map.pids
  /\ pda[p].flag = "dirty" /\ ~Replaceable(MatchedUid(p))
  /\ Status(MatchedUid(p)) = "nothing"
  /\ phase' = "idle" /\ ses' = NoSession
  /\ wounds' = wounds \cup {"unfinished"}
  /\ UNCHANGED <<kind, store, pda, file, conf, gui, uidsUsed, pidsUsed, left>>

Users ==
  \/ \E s \in Sources : NewObject(s)
  \/ \E s \in Sources : \E u \in DOMAIN store[s] : DropObject(s, u)
  \/ NewRecord
  \/ \E p \in DOMAIN pda : \E f \in Flags \ {"none"} : EditRecord(p, f)

Settings ==
  \/ OpenSettings \/ RevertSettings \/ CloseSettings
  \/ \E s \in Sources : SaveSettings(s)

SessionStep ==
  \/ PreSync
  \/ \E p \in Pids : RemoteRecord(p)
  \/ \E p \in Pids : ReplaceFails(p)
  \/ CopyFromPilot \/ CopyToPilot
  \/ \E u \in Uids : LocalObject(u)
  \/ PostSync
  \/ WriteMapFile
  \/ CleanUp

Next ==
  \/ Users
  \/ Settings
  \/ \E op \in Ops : Load(op)
  \/ SessionStep
  \/ Break

Spec == Init /\ [][Next]_vars

---------------------------------------------------------------------------
(* The tables of the map stay inverse whatever the handlers do to them, and *)
(* the file never names a PDA id twice (e_pilot_map_insert, and reading an  *)
(* archived entry, which has lost its id).                                  *)
TablesInverse ==
  /\ phase # "idle" => InverseTables(ses.map)
  /\ FileInjective(file)

(* Without a wound nobody's item is there twice: neither as two records of  *)
(* the PDA nor as two objects of a source (the map remembers every pair).   *)
NoDuplicates ==
  wounds = {} =>
    /\ \A p, q \in DOMAIN pda : pda[p].item = pda[q].item => p = q
    /\ \A s \in Sources : \A u, v \in DOMAIN store[s] :
         store[s][u] = store[s][v] => u = v

(* When a synchronization comes to post_sync, everything in the source is   *)
(* archived or paired with a record of the PDA that holds the same item;    *)
(* except for events that last for several days and are not split.          *)
Unsent(u) ==
  \/ UidIsArchived(ses.map, u) \/ UidIsArchived(ReadMap(file), u)
  \/ kind = "calendar" /\ Objects[u] \in LongThings
EverythingPaired ==
  phase = "running" /\ RemoteDone /\ LocalDone /\ ses.op = "synchronize" =>
    \A u \in DOMAIN Objects :
      Unsent(u) \/ LET p == LookupPid(ses.map, u)
                   IN p \in DOMAIN pda /\ pda[p].item = Objects[u]

(* The map file is about the source the key file names: the conduit goes by *)
(* last_uri to know whether it may use it.  Settings saved from an older    *)
(* copy, and a death between the two files, break this.                     *)
MapOfLastSource ==
  conf.last \in Sources /\ phase # "save" /\ wounds \cap {"half saved", "settings"} = {} =>
    \A s \in Sources \ {conf.last} : DOMAIN file \cap DOMAIN store[s] = {}

(* An archived object is forgotten only in a slow synchronization or a copy *)
(* (write_touched_only); in a fast one the file keeps it.                   *)
ArchivedIsRemembered ==
  [][\A u \in DOMAIN file :
       file[u].archived /\ file' # file /\ ~ses.map.touchedOnly /\ u \in DOMAIN Objects
         => u \in DOMAIN file' /\ file'[u].archived]_vars
=============================================================================
