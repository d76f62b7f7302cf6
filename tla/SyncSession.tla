---------------------------- MODULE SyncSession ----------------------------
(***************************************************************************)
(* What a synchronization does as a whole (do_sync of gpilot-daemon.c and  *)
(* gpilotd/manager.c): the conduits are loaded with their configuration,   *)
(* the requests are served, or else the databases of the PDA are gone      *)
(* through one by one, each with its conduit and the backup conduit; then  *)
(* the PDA is given the stamp of this computer, which the next session     *)
(* relies on to be a fast one, and the conduits are unloaded.              *)
(*                                                                         *)
(* Of a database only its version is kept, which is its modification date, *)
(* too, and for one with a conduit whether the PDA has changes that this   *)
(* desktop has not got, and whether the PDA still has them flagged: a fast *)
(* synchronization only gets the flagged ones.  RecordSync has the records.*)
(***************************************************************************)
EXTENDS BackupFiles, FiniteSets

CONSTANTS
  Dbs,            \* databases of the PDA
  ConduitDbs,     \* those a standard conduit is enabled for
  Configs,        \* configurations a conduit may be given: [type, first, slow]
  BackupSettings, \* settings of the backup conduit: [updatedOnly, removeDeleted, exclude]
  MaxEvents,      \* bound on what users and other computers do
  MaxFaults       \* bound on what goes wrong in the sessions

ASSUME DbsAssumption == ConduitDbs \subseteq Dbs
ASSUME SyncBoundsAssumption == MaxEvents \in Nat /\ MaxFaults \in Nat
Types == {"NotSet", "Synchronize", "CopyToPilot", "CopyFromPilot", "MergeToPilot",
          "MergeFromPilot"}
ASSUME ConfigsAssumption == Configs \subseteq [type: Types, first: Types, slow: BOOLEAN]
ASSUME SettingsAssumption ==
  BackupSettings \subseteq [updatedOnly: BOOLEAN, removeDeleted: BOOLEAN, exclude: SUBSET Dbs]

Kinds == {"flagged", "unflagged"}
Config == [type: Types, first: Types, slow: BOOLEAN]
Requests == ConduitDbs \cup {"backup", "restore"}
NoListing == [d \in Dbs |-> 0]

VARIABLES
  pda,        \* [Dbs -> [here, ver]]
  marked,     \* databases the PDA has marked dlpDBMiscFlagExcludeFromSync
  lacks,      \* [ConduitDbs -> SUBSET Kinds], what this desktop has not got
  lastPC,     \* pu->lastSyncPC: "none", "this" or "other"
  config,     \* the key file of the conduits
  settings,   \* the key file of the backup conduit
  files,      \* the directory of the backups
  requests,   \* the conduit and restore requests in the queue
  phase,      \* "idle", "requests", "iterating", "ended"
  session,    \* what the daemon has in memory
  past,       \* history of this session: how it began and what went wrong
  kept,       \* history: databases a whole backup was made of, and failures since
  events,     \* counts what users and other computers do
  faults      \* counts what goes wrong

desktop == <<config, settings, files, requests>>
vars == <<pda, marked, lacks, lastPC, desktop, phase, session, past, kept, events, faults>>

Session == [link: {"up", "down"}, normal: BOOLEAN, config: [ConduitDbs -> Config],
            settings: BackupSettings, unmet: SUBSET Dbs, slow: SUBSET ConduitDbs,
            serving: Requests \cup {"all"}, todo: SUBSET Dbs, listed: [Dbs -> 0 .. MaxVer]]
Past == [foreign: BOOLEAN, honest: BOOLEAN, smooth: BOOLEAN, touched: SUBSET ConduitDbs,
         carriedOut: SUBSET ConduitDbs, mishap: SUBSET ConduitDbs]

TypeOK ==
  /\ pda \in [Dbs -> [here: BOOLEAN, ver: 0 .. MaxVer]]
  /\ marked \subseteq Dbs
  /\ lacks \in [ConduitDbs -> SUBSET Kinds]
  /\ lastPC \in {"none", "this", "other"}
  /\ config \in [ConduitDbs -> Config]
  /\ settings \in BackupSettings
  /\ files \in [Dbs -> Directory]
  /\ requests \subseteq Requests
  /\ phase \in {"idle", "requests", "iterating", "ended"}
  /\ session \in Session
  /\ session.todo # {} => phase = "iterating"
  /\ past \in Past
  /\ kept \in [Dbs -> [whole: BOOLEAN, failures: 0 .. NoOfBackups + 1]]
  /\ events \in 0 .. MaxEvents
  /\ faults \in 0 .. MaxFaults

(* Nothing is in memory between the sessions.                              *)
Unloaded ==
  [link |-> "up", normal |-> TRUE, config |-> CHOOSE c \in [ConduitDbs -> Configs] : TRUE,
   settings |-> CHOOSE s \in BackupSettings : TRUE, unmet |-> {}, slow |-> {},
   serving |-> "all", todo |-> {}, listed |-> NoListing]
NoPast == [foreign |-> FALSE, honest |-> FALSE, smooth |-> FALSE, touched |-> {},
           carriedOut |-> {}, mishap |-> {}]

Init ==
  /\ pda = [d \in Dbs |-> [here |-> TRUE, ver |-> 1]]
  /\ marked = {}
  /\ lacks = [d \in ConduitDbs |-> {"flagged"}]
  /\ lastPC = "none"
  /\ config \in [ConduitDbs -> Configs]
  /\ settings \in BackupSettings
  /\ files = [d \in Dbs |-> EmptyDirectory]
  /\ requests = {}
  /\ phase = "idle"
  /\ session = Unloaded
  /\ past = NoPast
  /\ kept = [d \in Dbs |-> [whole |-> FALSE, failures |-> 0]]
  /\ events = 0
  /\ faults = 0

-----------------------------------------------------------------------------
(* The users, and other computers.                                         *)
Event == events < MaxEvents /\ events' = events + 1 /\ UNCHANGED faults

(* The user of the PDA changes a database, removes it, or has it marked to *)
(* be excluded from synchronizations, or no longer.                        *)
ChangeOnPda(d) ==
  /\ phase = "idle" /\ Event
  /\ pda[d].here
  /\ \/ /\ pda[d].ver < MaxVer
        /\ pda' = [pda EXCEPT ![d].ver = @ + 1]
        /\ lacks' = [x \in ConduitDbs |-> lacks[x] \cup IF x = d THEN {"flagged"} ELSE {}]
        /\ UNCHANGED marked
     \/ /\ pda' = [pda EXCEPT ![d].here = FALSE]
        /\ lacks' = [x \in ConduitDbs |-> IF x = d THEN {} ELSE lacks[x]]
        /\ marked' = marked \ {d}
     \/ /\ marked' = IF d \in marked THEN marked \ {d} ELSE marked \cup {d}
        /\ UNCHANGED <<pda, lacks>>
  /\ UNCHANGED <<lastPC, desktop, phase, session, past, kept>>

(* The PDA is synchronized with another computer, which may change it: its *)
(* flags are reset there.                                                  *)
SyncElsewhere ==
  /\ phase = "idle" /\ Event
  /\ lastPC' = "other"
  /\ \E changed \in SUBSET {d \in Dbs : pda[d].here /\ pda[d].ver < MaxVer} :
       /\ pda' = [d \in Dbs |-> IF d \in changed THEN [pda[d] EXCEPT !.ver = @ + 1] ELSE pda[d]]
       /\ lacks' = [d \in ConduitDbs |->
                      IF d \in changed \/ lacks[d] # {} THEN {"unflagged"} ELSE {}]
  /\ UNCHANGED <<marked, desktop, phase, session, past, kept>>

(* Other programs change the configuration, during a session, too: a       *)
(* conduit is given another type, and perhaps a first synchronization.     *)
Configure(d, c) ==
  /\ phase # "ended" /\ Event
  /\ config' = [config EXCEPT ![d] = c]
  /\ past' = [past EXCEPT !.touched = @ \cup IF phase = "idle" THEN {} ELSE {d}]
  /\ UNCHANGED <<pda, marked, lacks, lastPC, settings, files, requests, phase, session, kept>>
ConfigureBackup(s) ==
  /\ phase = "idle" /\ Event
  /\ settings' = s
  /\ UNCHANGED <<pda, marked, lacks, lastPC, config, files, requests, phase, session, past, kept>>
Request(r) ==
  /\ phase = "idle" /\ Event
  /\ requests' = requests \cup {r}
  /\ UNCHANGED <<pda, marked, lacks, lastPC, config, settings, files, phase, session, past, kept>>

-----------------------------------------------------------------------------
Fault == faults < MaxFaults /\ faults' = faults + 1

(* A session goes through what the PDA has and has not marked.             *)
Synced(d) == pda[d].here /\ d \notin marked

(* Nothing the PDA has unflagged in such a database is missing here: a     *)
(* fast synchronization will get everything.                               *)
Honest == \A d \in ConduitDbs : Synced(d) => "unflagged" \notin lacks[d]

(* do_sync: gpilot_load_conduits loads every conduit with its configuration*)
(* and, for the backup conduit, the names of the files there are.          *)
Connect ==
  /\ phase = "idle"
  /\ phase' = "requests"
  /\ session' = [Unloaded EXCEPT
                   !.config = config,
                   !.settings = settings,
                   !.normal = requests = {},
                   !.unmet = {d \in Dbs : Exists(files[d].file)}]
  /\ past' = [NoPast EXCEPT !.foreign = lastPC # "this", !.honest = Honest,
                            !.smooth = requests = {}]
  /\ UNCHANGED <<pda, marked, lacks, lastPC, desktop, kept, events, faults>>

(* do_restore_foreach: each file is installed, and those that are refused  *)
(* are passed over.  Whether this desktop ever had all that is in an old   *)
(* file is not known.  What is installed anew has no mark.                 *)
Restore ==
  /\ phase = "requests"
  /\ "restore" \in requests
  /\ requests' = requests \ {"restore"}
  /\ \E restored \in SUBSET {d \in Dbs : Exists(files[d].file) /\ pda[d].ver < MaxVer} :
       /\ session.link = "down" => restored = {}
       /\ pda' = [d \in Dbs |-> IF d \in restored THEN [here |-> TRUE, ver |-> pda[d].ver + 1]
                                ELSE pda[d]]
       /\ lacks' = [d \in ConduitDbs |-> IF d \in restored THEN {"unflagged"} ELSE lacks[d]]
       /\ marked' = marked \ restored
  /\ UNCHANGED <<lastPC, config, settings, files, phase, session, past, kept, events, faults>>

(* run_conduit_sync_foreach, or gpilot_sync_default when nothing was asked *)
(* for.                                                                    *)
ToServe(what) ==
  \/ what \in requests \ {"restore"} /\ "restore" \notin requests
  \/ what = "all" /\ session.normal

(* iterate_dbs first reads the list of the databases, which is taken to    *)
(* end where dlp_ReadDBList fails.                                         *)
Iterate(what) ==
  LET onPda == {d \in Dbs : pda[d].here /\ session.link = "up"} IN
  /\ phase = "requests"
  /\ ToServe(what)
  /\ phase' = "iterating"
  /\ \E read \in SUBSET onPda :
       /\ session' = [session EXCEPT
            !.serving = what,
            !.todo = read,
            !.listed = [d \in Dbs |-> IF d \in read THEN pda[d].ver ELSE 0]]
       /\ past' = [past EXCEPT !.smooth = @ /\ read = onPda]
       /\ IF read = onPda THEN UNCHANGED faults ELSE Fault
  /\ UNCHANGED <<pda, marked, lacks, lastPC, desktop, kept, events>>

WithConduit(d) == d \in ConduitDbs /\ session.serving \in {"all", d}
WithBackup(d) == session.serving \in {"all", "backup"} /\ d \notin session.settings.exclude

(* conduit_sync_default: a first synchronization comes instead of the type *)
(* of the conduit, and is taken off the key file before it is performed,   *)
(* but not off the configuration in memory.                                *)
IsFirst(d) == session.config[d].first # "NotSet"
TypeOf(d) == IF IsFirst(d) THEN session.config[d].first ELSE session.config[d].type
SlowBy(d) == d \in session.slow \/ (IsFirst(d) /\ session.config[d].slow)

(* A synchronization is fast if the PDA bears the stamp of this computer.  *)
FastAlways(d) == ~SlowBy(d)
Fast(d) == lastPC = "this" /\ ~SlowBy(d)

(* What is still missing after a synchronization of a type, when the flags *)
(* of the PDA have been reset.                                             *)
Got(d, type) ==
  CASE type = "Synchronize"    -> IF Fast(d) THEN {"flagged"} ELSE Kinds
    [] type = "MergeFromPilot" -> {"flagged"}
    [] type = "MergeToPilot"   -> {}
    [] type \in {"CopyFromPilot", "CopyToPilot"} -> Kinds
Missing(d, type) == IF lacks[d] \ Got(d, type) = {} THEN {} ELSE {"unflagged"}
MayWrite(type) == type \in {"Synchronize", "CopyToPilot", "MergeToPilot"}

(* remove_first_sync rewrites the key file.                                *)
FirstKept(d) == config
FirstRemoved(d) == [config EXCEPT ![d].first = "NotSet"]

(* conduit_synchronize and the like: result is "done", "failed" (the flags *)
(* stay as they are), or "broken off" with the link.                       *)
Conduit(d, result, wrote) ==
  IF ~WithConduit(d) THEN
    result = "done" /\ ~wrote /\ UNCHANGED <<pda, marked, lacks, config>>
  ELSE
    /\ wrote => MayWrite(TypeOf(d)) /\ pda[d].ver < MaxVer
    /\ TypeOf(d) = "NotSet" => result = "failed" /\ ~wrote
    /\ config' = IF IsFirst(d) THEN FirstRemoved(d) ELSE config
    /\ pda' = IF wrote THEN [pda EXCEPT ![d].ver = @ + 1] ELSE pda
    /\ lacks' = IF result = "done" THEN [lacks EXCEPT ![d] = Missing(d, TypeOf(d))] ELSE lacks

(* backup_foreach, after the conduit, with the date of the list.           *)
Skipped(d) == Skips(files[d], session.settings.updatedOnly, session.listed[d])
Backup(d, link, outcome) ==
  IF ~WithBackup(d) \/ Skipped(d) THEN outcome = "whole" /\ UNCHANGED files
  ELSE /\ link = "down" => outcome \in {"not opened", "not created"}
       /\ files' = [files EXCEPT ![d] =
            BackUp(files[d], session.settings.updatedOnly, session.listed[d], pda'[d].ver, outcome)]

Count(d, outcome) ==
  IF ~WithBackup(d) \/ Skipped(d) THEN kept
  ELSE IF outcome = "whole" THEN [kept EXCEPT ![d] = [whole |-> TRUE, failures |-> 0]]
  ELSE [kept EXCEPT ![d].failures = IF @ > NoOfBackups THEN @ ELSE @ + 1]

(* One turn of the loop of iterate_dbs.                                    *)
Visit(d) ==
  /\ phase = "iterating"
  /\ session.link = "up"
  /\ d \in session.todo
  /\ d \notin marked
  /\ \E result \in {"done", "failed", "broken off"}, wrote \in BOOLEAN, outcome \in Outcomes :
       LET linkAfterConduit == IF result = "broken off" THEN "down" ELSE "up" IN
       /\ Conduit(d, result, wrote)
       /\ Backup(d, linkAfterConduit, outcome)
       /\ session' = [session EXCEPT
            !.todo = @ \ {d},
            !.link = IF outcome = "broken off" THEN "down" ELSE linkAfterConduit,
            !.unmet = IF WithBackup(d) THEN @ \ {d} ELSE @,
            !.slow = IF ~WithConduit(d) THEN @
                     ELSE IF TypeOf(d) = "Synchronize" THEN @ \ {d}
                     ELSE IF SlowBy(d) THEN @ \cup {d} ELSE @]
       /\ past' = [past EXCEPT
            !.smooth = @ /\ result = "done" /\ outcome = "whole"
                         /\ (WithConduit(d) => TypeOf(d) \notin {"MergeToPilot", "MergeFromPilot"}),
            !.carriedOut = IF WithConduit(d) /\ result = "done" THEN @ \cup {d} ELSE @,
            !.mishap = IF result # "done" THEN @ \cup {d} ELSE @]
       /\ kept' = Count(d, outcome)
       /\ IF result = "broken off" \/ outcome # "whole" \/ (result = "failed" /\ TypeOf(d) # "NotSet")
          THEN Fault ELSE UNCHANGED faults
  /\ UNCHANGED <<marked, lastPC, settings, requests, phase, events>>

(* A marked database: neither the conduit nor the backup conduit learns of *)
(* it, and the backup there may be stays among those not asked for.        *)
PassOver(d) ==
  /\ phase = "iterating"
  /\ session.link = "up"
  /\ d \in session.todo \cap marked
  /\ session' = [session EXCEPT !.todo = @ \ {d}]
  /\ UNCHANGED <<pda, marked, lacks, lastPC, desktop, phase, past, kept, events, faults>>

(* The list of the databases is dropped, and the default has been done.    *)
IterationOverListKept == [session EXCEPT !.normal = FALSE]
IterationOver == [session EXCEPT !.todo = {}, !.normal = FALSE]

(* The list is done, or dlp_OpenConduit fails: the link is gone, or the    *)
(* user cancels.  A request is completed whatever became of it.            *)
EndIteration ==
  /\ phase = "iterating"
  /\ phase' = "requests"
  /\ \E cancelled \in BOOLEAN :
       /\ cancelled => session.todo # {} /\ session.link = "up"
       /\ session.todo = {} \/ session.link = "down" \/ cancelled
       /\ past' = [past EXCEPT !.smooth = @ /\ session.todo = {}]
       /\ IF cancelled THEN Fault ELSE UNCHANGED faults
  /\ requests' = requests \ {session.serving}
  /\ session' = IterationOver
  /\ UNCHANGED <<pda, marked, lacks, lastPC, config, settings, files, kept, events>>

(* The link may also be lost between two databases.                        *)
LoseLink ==
  /\ phase \in {"requests", "iterating"}
  /\ session.link = "up"
  /\ Fault
  /\ session' = [session EXCEPT !.link = "down"]
  /\ past' = [past EXCEPT !.smooth = FALSE]
  /\ UNCHANGED <<pda, marked, lacks, lastPC, desktop, phase, kept, events>>

(* write_sync_stamp, whatever the session has come to, and                 *)
(* gpilot_unload_conduits: with remove_deleted the backup conduit moves    *)
(* away every file it was not asked to back up.                            *)
MovedNever == {}
Moved == IF session.settings.removeDeleted THEN session.unmet ELSE {}
Finish ==
  /\ phase = "requests"
  /\ requests = {}
  /\ ~session.normal
  /\ phase' = "ended"
  /\ lastPC' = IF session.link = "up" THEN "this" ELSE lastPC
  /\ files' = [d \in Dbs |-> IF d \in Moved THEN MoveToDel(files[d]) ELSE files[d]]
  /\ kept' = [d \in Dbs |-> IF d \in Moved THEN [whole |-> FALSE, failures |-> 0] ELSE kept[d]]
  /\ UNCHANGED <<pda, marked, lacks, config, settings, requests, session, past, events, faults>>

(* gpilotd dies: no stamp, and the conduits are not unloaded.              *)
Crash ==
  /\ phase \in {"requests", "iterating"}
  /\ Fault
  /\ phase' = "idle"
  /\ session' = Unloaded
  /\ past' = NoPast
  /\ UNCHANGED <<pda, marked, lacks, lastPC, desktop, kept, events>>
Rest ==
  /\ phase = "ended"
  /\ phase' = "idle"
  /\ session' = Unloaded
  /\ past' = NoPast
  /\ UNCHANGED <<pda, marked, lacks, lastPC, desktop, kept, events, faults>>

Next ==
  \/ \E d \in Dbs : ChangeOnPda(d) \/ Visit(d) \/ PassOver(d)
  \/ SyncElsewhere
  \/ \E d \in ConduitDbs, c \in Configs : Configure(d, c)
  \/ \E s \in BackupSettings : ConfigureBackup(s)
  \/ \E r \in Requests : Request(r)
  \/ Connect \/ Restore \/ EndIteration \/ LoseLink \/ Finish \/ Crash \/ Rest
  \/ \E what \in Requests \cup {"all"} : Iterate(what)

Spec == Init /\ [][Next]_vars

-----------------------------------------------------------------------------
(* The stamp may be relied on: a session that was asked for nothing, in    *)
(* which nothing failed and no conduit merged one way only, and that began *)
(* with the stamp of another computer, or with nothing forgotten, leaves no*)
(* change on the PDA that a fast synchronization would pass over.  This is *)
(* so for the databases it goes through; the stamp is given, too, although *)
(* those with the mark ExcludeFromSync were passed over, and what another  *)
(* computer left unflagged in one is forgotten when the mark is taken off. *)
StampHonest ==
  phase = "ended" /\ past.smooth /\ (past.foreign \/ past.honest) => Honest

(* After such a session there is a backup of every database without that   *)
(* mark, at most one session behind: it holds at least what the list at its*)
(* beginning showed, also if only changed databases are backed up, and else*)
(* what the PDA has now.  (A file that was broken off earlier is not       *)
(* repaired until the database changes.)                                   *)
BackupNotBehind ==
  phase = "ended" /\ past.smooth =>
    \A d \in Dbs \ session.settings.exclude : Synced(d) =>
      LET file == files[d].file IN
      /\ Exists(file)
      /\ file.whole => file.ver >= session.listed[d]
      /\ ~session.settings.updatedOnly => file.whole /\ file.ver = pda[d].ver

(* With remove_deleted, after such a session the backups are those of the  *)
(* databases the PDA has and has not marked: the backup of a marked one is *)
(* moved away like that of a database the PDA no longer has.               *)
FilesMatchPda ==
  phase = "ended" /\ past.smooth /\ session.settings.removeDeleted =>
    \A d \in Dbs \ session.settings.exclude : Exists(files[d].file) <=> Synced(d)

(* A first synchronization is off the configuration when it has been       *)
(* performed, or has failed, and not before: so long as nobody changes the *)
(* configuration meanwhile.                                                *)
FirstSyncOnce ==
  phase = "ended" =>
    \A d \in ConduitDbs \ past.touched :
      session.config[d].first # "NotSet" =>
        (config[d].first = "NotSet" <=> d \in past.carriedOut \cup past.mishap)

(* A whole backup survives as many failed attempts as there are            *)
(* generations, unless it was moved away.                                  *)
WholeSurvives ==
  \A d \in Dbs :
    kept[d].whole /\ kept[d].failures <= NoOfBackups => HasWhole(files[d])

(* "Remove local base if deleted on pilot": a backup is moved away only if *)
(* the PDA has no such database, or has marked it (FilesMatchPda).         *)
RemovedOnlyIfDeleted ==
  [][\A d \in Dbs : files'[d].del # files[d].del => ~Synced(d)]_vars

=============================================================================
