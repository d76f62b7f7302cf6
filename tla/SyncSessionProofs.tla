--------------------------- MODULE SyncSessionProofs ---------------------------
(***************************************************************************)
(* Proofs about SyncSession, for any databases, configurations and settings,*)
(* and any number of generations of backups.                               *)
(***************************************************************************)
EXTENDS SyncSession, TLAPS

(* What a session starts from is a session.  (The constants may leave no    *)
(* configuration to choose; but then there is no initial state either.)     *)
TypeInv == TypeOK /\ Unloaded \in Session

-----------------------------------------------------------------------------
(* The files of a database, after each of the operations.                  *)

LEMMA FilesAreFiles ==
  /\ NoFile \in BackupFile /\ EmptyFile \in BackupFile
  /\ ~NoFile.whole /\ ~EmptyFile.whole
  /\ EmptyFile # NoFile
BY MaxVerAssumption DEF NoFile, EmptyFile, BackupFile, Undated

(* Rotate in terms of its parts.                                           *)
LEMMA RotateParts ==
  ASSUME NEW dir \in Directory
  PROVE  /\ Rotate(dir) \in Directory
         /\ Rotate(dir).file = IF NoOfBackups = 0 THEN dir.file ELSE NoFile
         /\ \A i \in Generations :
              LET before == IF i = 0 THEN dir.file ELSE dir.older[i - 1]
              IN  Rotate(dir).older[i] =
                    IF Exists(before) THEN before
                    ELSE IF i = NoOfBackups - 1 THEN dir.older[i] ELSE NoFile
         /\ Rotate(dir).del = dir.del
<1> DEFINE before(i) == IF i = 0 THEN dir.file ELSE dir.older[i - 1]
           file == IF NoOfBackups = 0 THEN dir.file ELSE NoFile
           older == [i \in Generations |->
                       IF Exists(before(i)) THEN before(i)
                       ELSE IF i = NoOfBackups - 1 THEN dir.older[i] ELSE NoFile]
<1>1. dir.file \in BackupFile /\ dir.older \in [Generations -> BackupFile]
  BY DEF Directory
<1>2. \A i \in Generations : i # 0 => i - 1 \in Generations
  BY NoOfBackupsAssumption DEF Generations
<1>3. \A i \in Generations : before(i) \in BackupFile
  BY <1>1, <1>2
<1>4. file \in BackupFile /\ older \in [Generations -> BackupFile]
  BY <1>1, <1>3, FilesAreFiles
<1>5. Rotate(dir) = [dir EXCEPT !.file = file, !.older = older]
  BY Zenon DEF Rotate
<1>6. \A i \in Generations :
        older[i] = IF Exists(before(i)) THEN before(i)
                   ELSE IF i = NoOfBackups - 1 THEN dir.older[i] ELSE NoFile
  OBVIOUS
<1> HIDE DEF file, older
<1>7. /\ Rotate(dir) \in Directory
      /\ Rotate(dir).file = file /\ Rotate(dir).older = older /\ Rotate(dir).del = dir.del
  BY <1>4, <1>5 DEF Directory
<1> QED BY <1>6, <1>7 DEF file

(* What a backup leaves, as one fact.                                      *)
IsBackedUp(new, dir, listed, ver, outcome) ==
  /\ new \in Directory
  /\ new.older = Rotate(dir).older
  /\ outcome \in {"whole", "broken off"} => new.file.ver = ver /\ new.file.date = listed
  /\ outcome = "whole" => new.file.whole
  /\ outcome = "not opened" => new.file = EmptyFile
  /\ outcome = "not created" => new.file = Rotate(dir).file

(* The parts of a file that was written.                                  *)
LEMMA FieldsOfFile ==
  ASSUME NEW v, NEW d, NEW w, NEW f, f = [ver |-> v, date |-> d, whole |-> w]
  PROVE  f.ver = v /\ f.date = d /\ f.whole = w
OBVIOUS

LEMMA BackUpGives ==
  ASSUME NEW dir \in Directory, NEW updatedOnly \in BOOLEAN, NEW listed \in 0 .. MaxVer,
         NEW ver \in 0 .. MaxVer, NEW outcome \in Outcomes,
         ~Skips(dir, updatedOnly, listed)
  PROVE  IsBackedUp(BackUp(dir, updatedOnly, listed, ver, outcome), dir, listed, ver, outcome)
<1> SUFFICES ASSUME NEW new, new = BackUp(dir, updatedOnly, listed, ver, outcome)
             PROVE  IsBackedUp(new, dir, listed, ver, outcome)
  OBVIOUS
<1>1. Rotate(dir) \in Directory
  BY RotateParts
<1>2. Written(outcome, listed, ver) \in BackupFile
  BY FilesAreFiles DEF Written, BackupFile
<1>3. CASE outcome = "not created"
  <2>1. new = Rotate(dir)
    BY <1>3 DEF BackUp
  <2> QED BY <1>1, <1>3, <2>1 DEF IsBackedUp
<1>4. CASE outcome # "not created"
  <2>1. new = [Rotate(dir) EXCEPT !.file = Written(outcome, listed, ver)]
    BY <1>4 DEF BackUp
  <2>2. /\ new \in Directory /\ new.older = Rotate(dir).older
        /\ new.file = Written(outcome, listed, ver)
    BY <1>1, <1>2, <2>1 DEF Directory
  <2>3. CASE outcome = "not opened"
    <3>1. new.file = EmptyFile
      BY <2>2, <2>3 DEF Written
    <3> QED BY <2>2, <2>3, <3>1 DEF IsBackedUp
  <2>4. CASE outcome # "not opened"
    <3>1. new.file = [ver |-> ver, date |-> listed, whole |-> outcome = "whole"]
      BY <2>2, <2>4, Zenon DEF Written
    <3>2. new.file.ver = ver /\ new.file.date = listed /\ new.file.whole = (outcome = "whole")
      BY <3>1, FieldsOfFile
    <3> QED BY <1>4, <2>2, <2>4, <3>2 DEF IsBackedUp
  <2> QED BY <2>3, <2>4
<1> QED BY <1>3, <1>4

LEMMA MoveToDelParts ==
  ASSUME NEW dir \in Directory
  PROVE  /\ MoveToDel(dir) \in Directory
         /\ ~Exists(MoveToDel(dir).file)
BY FilesAreFiles DEF MoveToDel, Directory, Exists

-----------------------------------------------------------------------------
(* Types *)

LEMMA InitTypes == Init => TypeInv
<1> SUFFICES ASSUME Init PROVE TypeInv
  OBVIOUS
<1>1. NoListing \in [Dbs -> 0 .. MaxVer]
  BY MaxVerAssumption DEF NoListing
<1>2. config \in [ConduitDbs -> Configs] /\ settings \in BackupSettings
  BY DEF Init
<1>3. (CHOOSE c \in [ConduitDbs -> Configs] : TRUE) \in [ConduitDbs -> Configs]
  BY <1>2
<1>4. (CHOOSE s \in BackupSettings : TRUE) \in BackupSettings
  BY <1>2
<1>5. [ConduitDbs -> Configs] \subseteq [ConduitDbs -> Config]
  BY ConfigsAssumption DEF Config
<1>6. (CHOOSE c \in [ConduitDbs -> Configs] : TRUE) \in [ConduitDbs -> Config]
  BY <1>3, <1>5
<1>7. Unloaded \in Session
  BY <1>1, <1>4, <1>6 DEF Unloaded, Session
<1>8. EmptyDirectory \in Directory
  BY FilesAreFiles DEF EmptyDirectory, Directory
<1>9. files \in [Dbs -> Directory]
  BY <1>8 DEF Init
<1>10. pda \in [Dbs -> [here: BOOLEAN, ver: 0 .. MaxVer]]
  BY MaxVerAssumption DEF Init
<1>11. lacks \in [ConduitDbs -> SUBSET Kinds] /\ lastPC \in {"none", "this", "other"}
  BY DEF Init, Kinds
<1>12. config \in [ConduitDbs -> Config] /\ requests \subseteq Requests
  BY <1>2, <1>5 DEF Init
<1>13. past \in Past
  BY DEF Init, NoPast, Past
<1>14. kept \in [Dbs -> [whole: BOOLEAN, failures: 0 .. NoOfBackups + 1]]
  BY NoOfBackupsAssumption DEF Init
<1>15. events \in 0 .. MaxEvents /\ faults \in 0 .. MaxFaults
  BY SyncBoundsAssumption DEF Init
<1>16. session = Unloaded /\ session.todo = {} /\ phase = "idle" /\ marked = {}
  BY DEF Init, Unloaded
<1> QED BY <1>2, <1>7, <1>9, <1>10, <1>11, <1>12, <1>13, <1>14, <1>15, <1>16
        DEF TypeInv, TypeOK

(* A version counted up stays a version.                                   *)
LEMMA PdaTypes ==
  ASSUME TypeInv, NEW d \in Dbs, pda[d].ver < MaxVer
  PROVE  [pda EXCEPT ![d].ver = @ + 1] \in [Dbs -> [here: BOOLEAN, ver: 0 .. MaxVer]]
<1>1. pda \in [Dbs -> [here: BOOLEAN, ver: 0 .. MaxVer]]
  BY DEF TypeInv, TypeOK
<1>2. pda[d].ver + 1 \in 0 .. MaxVer
  BY <1>1, MaxVerAssumption
<1>3. [pda[d] EXCEPT !.ver = @ + 1] \in [here: BOOLEAN, ver: 0 .. MaxVer]
  BY <1>1, <1>2
<1> QED BY <1>1, <1>3

LEMMA ConduitTypes ==
  ASSUME TypeInv, NEW d \in Dbs, NEW result, NEW wrote \in BOOLEAN, Conduit(d, result, wrote)
  PROVE  /\ pda' \in [Dbs -> [here: BOOLEAN, ver: 0 .. MaxVer]]
         /\ lacks' \in [ConduitDbs -> SUBSET Kinds]
         /\ config' \in [ConduitDbs -> Config]
<1>1. /\ pda \in [Dbs -> [here: BOOLEAN, ver: 0 .. MaxVer]]
      /\ lacks \in [ConduitDbs -> SUBSET Kinds]
      /\ config \in [ConduitDbs -> Config]
  BY DEF TypeInv, TypeOK
<1>2. CASE ~WithConduit(d)
  BY <1>1, <1>2 DEF Conduit
<1>3. CASE WithConduit(d)
  <2>1. d \in ConduitDbs
    BY <1>3 DEF WithConduit
  <2>2. pda' \in [Dbs -> [here: BOOLEAN, ver: 0 .. MaxVer]]
    <3>1. CASE wrote
      BY <1>3, <3>1, PdaTypes DEF Conduit
    <3>2. CASE ~wrote
      BY <1>1, <1>3, <3>2 DEF Conduit
    <3> QED BY <3>1, <3>2
  <2>3. lacks' \in [ConduitDbs -> SUBSET Kinds]
    <3>1. Missing(d, TypeOf(d)) \in SUBSET Kinds
      BY DEF Missing, Kinds
    <3>2. CASE result = "done"
      BY <1>1, <1>3, <3>1, <3>2 DEF Conduit
    <3>3. CASE result # "done"
      BY <1>1, <1>3, <3>3 DEF Conduit
    <3> QED BY <3>2, <3>3
  <2>4. config' \in [ConduitDbs -> Config]
    <3>1. [config[d] EXCEPT !.first = "NotSet"] \in Config
      BY <1>1, <2>1 DEF Config, Types
    <3>2. FirstRemoved(d) \in [ConduitDbs -> Config]
      BY <1>1, <3>1 DEF FirstRemoved
    <3> QED BY <1>1, <1>3, <3>2 DEF Conduit
  <2> QED BY <2>2, <2>3, <2>4
<1> QED BY <1>2, <1>3

LEMMA BackupTypes ==
  ASSUME TypeInv, NEW d \in Dbs, NEW link, NEW outcome \in Outcomes,
         pda' \in [Dbs -> [here: BOOLEAN, ver: 0 .. MaxVer]],
         Backup(d, link, outcome)
  PROVE  files' \in [Dbs -> Directory]
<1>1. files \in [Dbs -> Directory] /\ session \in Session
  BY DEF TypeInv, TypeOK
<1>2. session.settings.updatedOnly \in BOOLEAN /\ session.listed[d] \in 0 .. MaxVer
  BY <1>1, SettingsAssumption DEF Session
<1>3. pda'[d].ver \in 0 .. MaxVer
  OBVIOUS
<1>4. CASE ~WithBackup(d) \/ Skipped(d)
  BY <1>1, <1>4 DEF Backup
<1>5. CASE WithBackup(d) /\ ~Skipped(d)
  <2>1. ~Skips(files[d], session.settings.updatedOnly, session.listed[d])
    BY <1>5 DEF Skipped
  <2>2. BackUp(files[d], session.settings.updatedOnly, session.listed[d], pda'[d].ver, outcome)
          \in Directory
    <3>1. files[d] \in Directory
      BY <1>1
    <3>2. IsBackedUp(BackUp(files[d], session.settings.updatedOnly, session.listed[d], pda'[d].ver, outcome),
                     files[d], session.listed[d], pda'[d].ver, outcome)
      BY ONLY <1>2, <1>3, <2>1, <3>1, outcome \in Outcomes, BackUpGives
    <3> QED BY <3>2 DEF IsBackedUp
  <2>3. files' = [files EXCEPT ![d] =
          BackUp(files[d], session.settings.updatedOnly, session.listed[d], pda'[d].ver, outcome)]
    BY <1>5 DEF Backup
  <2> QED BY <1>1, <2>2, <2>3
<1> QED BY <1>4, <1>5

(* What is counted.                                                        *)
LEMMA CountTypes ==
  ASSUME TypeInv, NEW d \in Dbs, NEW outcome
  PROVE  Count(d, outcome) \in [Dbs -> [whole: BOOLEAN, failures: 0 .. NoOfBackups + 1]]
<1>1. kept \in [Dbs -> [whole: BOOLEAN, failures: 0 .. NoOfBackups + 1]]
  BY DEF TypeInv, TypeOK
<1>2. [whole |-> TRUE, failures |-> 0] \in [whole: BOOLEAN, failures: 0 .. NoOfBackups + 1]
  BY NoOfBackupsAssumption
<1>3. CASE WithBackup(d) /\ ~Skipped(d) /\ outcome # "whole"
  <2> DEFINE failures == IF kept[d].failures > NoOfBackups THEN kept[d].failures
                         ELSE kept[d].failures + 1
  <2>1. kept[d].failures \in 0 .. NoOfBackups + 1
    BY <1>1
  <2>2. failures \in 0 .. NoOfBackups + 1
    BY <2>1, NoOfBackupsAssumption
  <2>3. Count(d, outcome) = [kept EXCEPT ![d] = [kept[d] EXCEPT !.failures = failures]]
    BY <1>1, <1>3 DEF Count
  <2> HIDE DEF failures
  <2> QED BY <1>1, <2>2, <2>3
<1>4. CASE ~WithBackup(d) \/ Skipped(d)
  BY <1>1, <1>4 DEF Count
<1>5. CASE WithBackup(d) /\ ~Skipped(d) /\ outcome = "whole"
  BY <1>1, <1>2, <1>5 DEF Count
<1> QED BY <1>3, <1>4, <1>5

LEMMA FaultTypes ==
  ASSUME TypeInv, Fault \/ UNCHANGED faults
  PROVE  faults' \in 0 .. MaxFaults
BY SyncBoundsAssumption DEF TypeInv, TypeOK, Fault

LEMMA EventTypes ==
  ASSUME TypeInv, Event
  PROVE  events' \in 0 .. MaxEvents
BY SyncBoundsAssumption DEF TypeInv, TypeOK, Event

(* What Visit(d) does when its conduit and its backup end this way.        *)
VisitGives(d, result, wrote, outcome) ==
  LET linkAfterConduit == IF result = "broken off" THEN "down" ELSE "up" IN
  /\ Conduit(d, result, wrote)
  /\ Backup(d, linkAfterConduit, outcome)
  /\ session' = [session EXCEPT
       !.todo = @ \ {d},
       !.link = IF outcome = "broken off" THEN "down" ELSE linkAfterConduit,
       !.unmet = IF WithBackup(d) THEN @ \ {d} ELSE @,
       !.slow = IF ~WithConduit(d) THEN @
                ELSE IF TypeOf(d) = "Synchronize" THEN @ \ {d}
                ELSE IF SlowBy(d) THEN @ \cup {d} ELSE @]
  /\ past' = [past EXCEPT
       !.smooth = @ /\ result = "done" /\ outcome = "whole"
                    /\ (WithConduit(d) => TypeOf(d) \notin {"MergeToPilot", "MergeFromPilot"}),
       !.carriedOut = IF WithConduit(d) /\ result = "done" THEN @ \cup {d} ELSE @,
       !.mishap = IF result # "done" THEN @ \cup {d} ELSE @]
  /\ kept' = Count(d, outcome)
  /\ IF result = "broken off" \/ outcome # "whole" \/ (result = "failed" /\ TypeOf(d) # "NotSet")
     THEN Fault ELSE UNCHANGED faults

LEMMA VisitTypes ==
  ASSUME TypeInv, NEW d \in Dbs, Visit(d)
  PROVE  TypeInv'
<1>1. PICK result \in {"done", "failed", "broken off"}, wrote \in BOOLEAN, outcome \in Outcomes :
         VisitGives(d, result, wrote, outcome)
  BY Zenon DEF Visit, VisitGives
<1>2. /\ session \in Session /\ past \in Past /\ faults \in 0 .. MaxFaults
      /\ kept \in [Dbs -> [whole: BOOLEAN, failures: 0 .. NoOfBackups + 1]]
      /\ Unloaded \in Session
  BY DEF TypeInv, TypeOK
<1>3. /\ pda' \in [Dbs -> [here: BOOLEAN, ver: 0 .. MaxVer]]
      /\ lacks' \in [ConduitDbs -> SUBSET Kinds]
      /\ config' \in [ConduitDbs -> Config]
  BY <1>1, ConduitTypes DEF VisitGives
<1>4. files' \in [Dbs -> Directory]
  BY <1>1, <1>3, BackupTypes DEF VisitGives
<1>5. session' \in Session
  <2> DEFINE link == IF outcome = "broken off" THEN "down"
                     ELSE IF result = "broken off" THEN "down" ELSE "up"
             unmet == IF WithBackup(d) THEN session.unmet \ {d} ELSE session.unmet
             slow == IF ~WithConduit(d) THEN session.slow
                     ELSE IF TypeOf(d) = "Synchronize" THEN session.slow \ {d}
                     ELSE IF SlowBy(d) THEN session.slow \cup {d} ELSE session.slow
  <2>1. link \in {"up", "down"} /\ unmet \in SUBSET Dbs
    BY <1>2 DEF Session
  <2>2. slow \in SUBSET ConduitDbs
    BY <1>2 DEF Session, WithConduit
  <2>3. session' = [session EXCEPT !.todo = session.todo \ {d}, !.link = link, !.unmet = unmet,
                                   !.slow = slow]
    BY <1>1, Zenon DEF VisitGives
  <2> HIDE DEF link, unmet, slow
  <2> QED BY <1>2, <2>1, <2>2, <2>3 DEF Session
<1>6. past' \in Past
  <2> DEFINE smooth == past.smooth /\ result = "done" /\ outcome = "whole"
                 /\ (WithConduit(d) => TypeOf(d) \notin {"MergeToPilot", "MergeFromPilot"})
             carriedOut == IF WithConduit(d) /\ result = "done" THEN past.carriedOut \cup {d}
                           ELSE past.carriedOut
             mishap == IF result # "done" THEN past.mishap \cup {d} ELSE past.mishap
  <2>1. smooth \in BOOLEAN
    BY <1>2 DEF Past
  <2>2. carriedOut \in SUBSET ConduitDbs
    BY <1>2 DEF Past, WithConduit
  <2>3. result # "done" => d \in ConduitDbs
    BY <1>1 DEF Conduit, WithConduit, VisitGives
  <2>4. mishap \in SUBSET ConduitDbs
    BY <1>2, <2>3 DEF Past
  <2>5. past' = [past EXCEPT !.smooth = smooth, !.carriedOut = carriedOut, !.mishap = mishap]
    BY <1>1, Zenon DEF VisitGives
  <2> HIDE DEF smooth, carriedOut, mishap
  <2> QED BY <1>2, <2>1, <2>2, <2>4, <2>5 DEF Past
<1>7. kept' \in [Dbs -> [whole: BOOLEAN, failures: 0 .. NoOfBackups + 1]]
  BY <1>1, CountTypes DEF VisitGives
<1>8. faults' \in 0 .. MaxFaults
  BY <1>1, FaultTypes, Zenon DEF VisitGives
<1>9. phase' = "iterating" /\ Unloaded' = Unloaded
  BY DEF Visit, Unloaded, NoListing
<1>10. UNCHANGED <<marked, lastPC, settings, requests, events>>
  BY DEF Visit
<1> QED BY <1>2, <1>3, <1>4, <1>5, <1>6, <1>7, <1>8, <1>9, <1>10 DEF TypeInv, TypeOK

LEMMA ChangeOnPdaTypes ==
  ASSUME TypeInv, NEW d \in Dbs, ChangeOnPda(d)
  PROVE  TypeInv'
<1>1. /\ pda \in [Dbs -> [here: BOOLEAN, ver: 0 .. MaxVer]]
      /\ lacks \in [ConduitDbs -> SUBSET Kinds]
  BY DEF TypeInv, TypeOK
<1>2. pda' \in [Dbs -> [here: BOOLEAN, ver: 0 .. MaxVer]]
  <2>1. CASE pda[d].ver < MaxVer /\ pda' = [pda EXCEPT ![d].ver = @ + 1]
    BY <2>1, PdaTypes
  <2>2. CASE pda' = [pda EXCEPT ![d].here = FALSE]
    BY <1>1, <2>2
  <2> QED BY <1>1, <2>1, <2>2 DEF ChangeOnPda
<1>3. lacks' \in [ConduitDbs -> SUBSET Kinds] /\ marked' \subseteq Dbs
  <2>1. marked \subseteq Dbs
    BY DEF TypeInv, TypeOK
  <2> QED BY <1>1, <2>1 DEF ChangeOnPda, Kinds
<1>4. events' \in 0 .. MaxEvents
  BY EventTypes DEF ChangeOnPda
<1>5. UNCHANGED <<lastPC, desktop, phase, session, past, kept, faults>>
  BY DEF ChangeOnPda, Event
<1>6. Unloaded' = Unloaded
  BY DEF Unloaded, NoListing
<1> QED BY <1>2, <1>3, <1>4, <1>5, <1>6 DEF TypeInv, TypeOK, desktop

LEMMA SyncElsewhereTypes == ASSUME TypeInv, SyncElsewhere PROVE TypeInv'
<1>1. /\ pda \in [Dbs -> [here: BOOLEAN, ver: 0 .. MaxVer]]
      /\ lacks \in [ConduitDbs -> SUBSET Kinds]
  BY DEF TypeInv, TypeOK
<1>2. PICK changed \in SUBSET {d \in Dbs : pda[d].here /\ pda[d].ver < MaxVer} :
       /\ pda' = [d \in Dbs |-> IF d \in changed THEN [pda[d] EXCEPT !.ver = @ + 1] ELSE pda[d]]
       /\ lacks' = [d \in ConduitDbs |->
                      IF d \in changed \/ lacks[d] # {} THEN {"unflagged"} ELSE {}]
  BY DEF SyncElsewhere
<1>3. pda' \in [Dbs -> [here: BOOLEAN, ver: 0 .. MaxVer]]
  <2>1. ASSUME NEW d \in Dbs
        PROVE  (IF d \in changed THEN [pda[d] EXCEPT !.ver = @ + 1] ELSE pda[d])
                 \in [here: BOOLEAN, ver: 0 .. MaxVer]
    <3>1. CASE d \in changed
      <4>1. pda[d].ver < MaxVer
        BY <1>2, <3>1
      <4> QED BY <1>1, <3>1, <4>1, MaxVerAssumption
    <3>2. CASE d \notin changed
      BY <1>1, <3>2
    <3> QED BY <3>1, <3>2
  <2> QED BY <1>2, <2>1
<1>4. lacks' \in [ConduitDbs -> SUBSET Kinds]
  BY <1>2 DEF Kinds
<1>5. events' \in 0 .. MaxEvents /\ lastPC' = "other"
  BY EventTypes DEF SyncElsewhere
<1>6. UNCHANGED <<marked, desktop, phase, session, past, kept, faults>>
  BY DEF SyncElsewhere, Event
<1>7. Unloaded' = Unloaded
  BY DEF Unloaded, NoListing
<1> QED BY <1>3, <1>4, <1>5, <1>6, <1>7 DEF TypeInv, TypeOK, desktop

LEMMA SettingTypes ==
  ASSUME TypeInv,
         \/ \E d \in ConduitDbs, c \in Configs : Configure(d, c)
         \/ \E s \in BackupSettings : ConfigureBackup(s)
         \/ \E r \in Requests : Request(r)
  PROVE  TypeInv'
<1>0. Unloaded' = Unloaded
  BY DEF Unloaded, NoListing
<1>1. ASSUME NEW d \in ConduitDbs, NEW c \in Configs, Configure(d, c)
      PROVE  TypeInv'
  <2>1. config \in [ConduitDbs -> Config] /\ past \in Past
    BY DEF TypeInv, TypeOK
  <2>2. c \in Config
    BY ConfigsAssumption DEF Config
  <2>3. config' \in [ConduitDbs -> Config]
    BY <1>1, <2>1, <2>2 DEF Configure
  <2>4. past' \in Past
    <3> DEFINE touched == past.touched \cup IF phase = "idle" THEN {} ELSE {d}
    <3>1. touched \in SUBSET ConduitDbs
      BY <2>1 DEF Past
    <3>2. past' = [past EXCEPT !.touched = touched]
      BY <1>1, Zenon DEF Configure
    <3> HIDE DEF touched
    <3> QED BY <2>1, <3>1, <3>2 DEF Past
  <2>5. events' \in 0 .. MaxEvents
    BY <1>1, EventTypes DEF Configure
  <2>6. UNCHANGED <<pda, marked, lacks, lastPC, settings, files, requests, phase, session, kept, faults>>
    BY <1>1 DEF Configure, Event
  <2> QED BY <1>0, <2>3, <2>4, <2>5, <2>6 DEF TypeInv, TypeOK
<1>2. ASSUME NEW s \in BackupSettings, ConfigureBackup(s)
      PROVE  TypeInv'
  <2>1. events' \in 0 .. MaxEvents
    BY <1>2, EventTypes DEF ConfigureBackup
  <2> QED BY <1>0, <1>2, <2>1 DEF TypeInv, TypeOK, ConfigureBackup, Event
<1>3. ASSUME NEW r \in Requests, Request(r)
      PROVE  TypeInv'
  <2>1. events' \in 0 .. MaxEvents
    BY <1>3, EventTypes DEF Request
  <2>2. requests' \subseteq Requests
    BY <1>3 DEF TypeInv, TypeOK, Request
  <2> QED BY <1>0, <1>3, <2>1, <2>2 DEF TypeInv, TypeOK, Request, Event
<1> QED BY <1>1, <1>2, <1>3

LEMMA ConnectTypes == ASSUME TypeInv, Connect PROVE TypeInv'
<1>1. config \in [ConduitDbs -> Config] /\ settings \in BackupSettings /\ Unloaded \in Session
  BY DEF TypeInv, TypeOK
<1>2. session' \in Session /\ session'.todo = {}
  <2>1. session' = [Unloaded EXCEPT
                      !.config = config, !.settings = settings, !.normal = requests = {},
                      !.unmet = {d \in Dbs : Exists(files[d].file)}]
    BY DEF Connect
  <2>2. Unloaded.todo = {}
    BY DEF Unloaded
  <2> QED BY <1>1, <2>1, <2>2 DEF Session
<1>3. past' \in Past
  <2>1. NoPast \in Past
    BY DEF NoPast, Past
  <2>2. Honest \in BOOLEAN
    BY DEF Honest
  <2>3. past' = [NoPast EXCEPT !.foreign = lastPC # "this", !.honest = Honest,
                               !.smooth = requests = {}]
    BY DEF Connect
  <2> QED BY <2>1, <2>2, <2>3 DEF Past
<1>4. phase' = "requests" /\ UNCHANGED <<pda, marked, lacks, lastPC, desktop, kept, events, faults>>
  BY DEF Connect
<1>5. Unloaded' = Unloaded
  BY DEF Unloaded, NoListing
<1> QED BY <1>2, <1>3, <1>4, <1>5 DEF TypeInv, TypeOK, desktop

LEMMA RestoreTypes == ASSUME TypeInv, Restore PROVE TypeInv'
<1>1. /\ pda \in [Dbs -> [here: BOOLEAN, ver: 0 .. MaxVer]]
      /\ lacks \in [ConduitDbs -> SUBSET Kinds]
      /\ requests \subseteq Requests
  BY DEF TypeInv, TypeOK
<1>2. PICK restored \in SUBSET {d \in Dbs : Exists(files[d].file) /\ pda[d].ver < MaxVer} :
       /\ pda' = [d \in Dbs |-> IF d \in restored THEN [here |-> TRUE, ver |-> pda[d].ver + 1]
                                ELSE pda[d]]
       /\ lacks' = [d \in ConduitDbs |-> IF d \in restored THEN {"unflagged"} ELSE lacks[d]]
       /\ marked' = marked \ restored
  BY DEF Restore
<1>3. pda' \in [Dbs -> [here: BOOLEAN, ver: 0 .. MaxVer]]
  <2>1. ASSUME NEW d \in Dbs
        PROVE  (IF d \in restored THEN [here |-> TRUE, ver |-> pda[d].ver + 1] ELSE pda[d])
                 \in [here: BOOLEAN, ver: 0 .. MaxVer]
    <3>1. CASE d \in restored
      <4>1. pda[d].ver < MaxVer
        BY <1>2, <3>1
      <4> QED BY <1>1, <3>1, <4>1, MaxVerAssumption
    <3>2. CASE d \notin restored
      BY <1>1, <3>2
    <3> QED BY <3>1, <3>2
  <2> QED BY <1>2, <2>1
<1>4. lacks' \in [ConduitDbs -> SUBSET Kinds] /\ marked' \subseteq Dbs
  BY <1>1, <1>2 DEF Kinds, TypeInv, TypeOK
<1>5. /\ requests' \subseteq Requests
      /\ UNCHANGED <<lastPC, config, settings, files, phase, session, past, kept, events, faults>>
  BY <1>1 DEF Restore
<1>6. Unloaded' = Unloaded
  BY DEF Unloaded, NoListing
<1> QED BY <1>3, <1>4, <1>5, <1>6 DEF TypeInv, TypeOK

(* What Iterate(what) does when the list of the databases holds those.     *)
OnPda == {d \in Dbs : pda[d].here /\ session.link = "up"}
ListOf(read) == [d \in Dbs |-> IF d \in read THEN pda[d].ver ELSE 0]
IterateGives(what, read) ==
  /\ session' = [session EXCEPT !.serving = what, !.todo = read, !.listed = ListOf(read)]
  /\ past' = [past EXCEPT !.smooth = @ /\ read = OnPda]
  /\ IF read = OnPda THEN UNCHANGED faults ELSE Fault

LEMMA IterateReads ==
  ASSUME NEW what \in Requests \cup {"all"}, Iterate(what)
  PROVE  /\ phase = "requests" /\ phase' = "iterating"
         /\ what \in requests \/ what = "all"
         /\ UNCHANGED <<pda, marked, lacks, lastPC, desktop, kept, events>>
         /\ \E read \in SUBSET OnPda : IterateGives(what, read)
<1>1. \E read \in SUBSET OnPda : IterateGives(what, read)
  BY Zenon DEF Iterate, IterateGives, OnPda, ListOf
<1> QED BY <1>1 DEF Iterate, ToServe

LEMMA IterateTypes ==
  ASSUME TypeInv, NEW what \in Requests \cup {"all"}, Iterate(what) PROVE TypeInv'
<1>1. session \in Session /\ pda \in [Dbs -> [here: BOOLEAN, ver: 0 .. MaxVer]] /\ past \in Past
  BY DEF TypeInv, TypeOK
<1>2. PICK read \in SUBSET OnPda : IterateGives(what, read)
  BY IterateReads
<1>3. read \in SUBSET Dbs /\ ListOf(read) \in [Dbs -> 0 .. MaxVer]
  BY <1>1, MaxVerAssumption DEF OnPda, ListOf
<1>4. session' \in Session
  BY <1>1, <1>2, <1>3 DEF Session, IterateGives
<1>5. past' \in Past
  <2>1. (past.smooth /\ read = OnPda) \in BOOLEAN
    OBVIOUS
  <2>2. past' = [past EXCEPT !.smooth = past.smooth /\ read = OnPda]
    BY <1>2, Zenon DEF IterateGives
  <2> QED BY <1>1, <2>1, <2>2 DEF Past
<1>6. faults' \in 0 .. MaxFaults
  BY <1>2, FaultTypes DEF IterateGives
<1>7. phase' = "iterating" /\ UNCHANGED <<pda, marked, lacks, lastPC, desktop, kept, events>>
  BY IterateReads
<1>8. Unloaded' = Unloaded
  BY DEF Unloaded, NoListing
<1> QED BY <1>4, <1>5, <1>6, <1>7, <1>8 DEF TypeInv, TypeOK, desktop

LEMMA PassOverTypes ==
  ASSUME TypeInv, NEW d \in Dbs, PassOver(d)
  PROVE  TypeInv'
<1>1. session \in Session /\ session' \in Session
  BY DEF TypeInv, TypeOK, PassOver, Session
<1>2. /\ phase = "iterating"
      /\ UNCHANGED <<pda, marked, lacks, lastPC, desktop, phase, past, kept, events, faults>>
  BY DEF PassOver
<1>3. Unloaded' = Unloaded
  BY DEF Unloaded, NoListing
<1> QED BY <1>1, <1>2, <1>3 DEF TypeInv, TypeOK, desktop

LEMMA EndingTypes ==
  ASSUME TypeInv, EndIteration \/ LoseLink \/ Crash \/ Rest
  PROVE  TypeInv'
<1>0. Unloaded' = Unloaded
  BY DEF Unloaded, NoListing
<1>1. session \in Session /\ past \in Past /\ requests \subseteq Requests
  BY DEF TypeInv, TypeOK
<1>2. CASE EndIteration
  <2>1. session' \in Session /\ session'.todo = {}
    BY <1>1, <1>2 DEF EndIteration, IterationOver, Session
  <2>2. past' \in Past
    <3>1. past' = [past EXCEPT !.smooth = past.smooth /\ session.todo = {}]
      BY <1>2, Zenon DEF EndIteration
    <3>2. (past.smooth /\ session.todo = {}) \in BOOLEAN
      OBVIOUS
    <3> QED BY <1>1, <3>1, <3>2 DEF Past
  <2>3. faults' \in 0 .. MaxFaults
    BY <1>2, FaultTypes DEF EndIteration
  <2>4. requests' \subseteq Requests
    BY <1>1, <1>2 DEF EndIteration
  <2> QED BY <1>0, <1>2, <2>1, <2>2, <2>3, <2>4 DEF EndIteration, TypeInv, TypeOK
<1>3. CASE LoseLink
  <2>1. session' \in Session /\ session'.todo = session.todo
    BY <1>1, <1>3 DEF LoseLink, Session
  <2>2. past' \in Past
    BY <1>1, <1>3 DEF LoseLink, Past
  <2>3. faults' \in 0 .. MaxFaults
    BY <1>3, FaultTypes DEF LoseLink
  <2> QED BY <1>0, <1>3, <2>1, <2>2, <2>3 DEF LoseLink, TypeInv, TypeOK, desktop
<1>4. CASE Crash \/ Rest
  <2>1. faults' \in 0 .. MaxFaults
    BY <1>4, FaultTypes DEF Crash, Rest
  <2>2. session' \in Session /\ session'.todo = {}
    <3>1. session' = Unloaded /\ Unloaded \in Session
      BY <1>4 DEF Crash, Rest, TypeInv
    <3>2. Unloaded.todo = {}
      BY DEF Unloaded
    <3> QED BY <3>1, <3>2
  <2>3. past' \in Past
    <3>1. NoPast \in Past
      BY DEF NoPast, Past
    <3> QED BY <1>4, <3>1 DEF Crash, Rest
  <2> QED BY <1>0, <1>4, <2>1, <2>2, <2>3 DEF Crash, Rest, TypeInv, TypeOK, desktop
<1> QED BY <1>2, <1>3, <1>4

LEMMA FinishTypes == ASSUME TypeInv, Finish PROVE TypeInv'
<1>1. /\ files \in [Dbs -> Directory]
      /\ kept \in [Dbs -> [whole: BOOLEAN, failures: 0 .. NoOfBackups + 1]]
      /\ session.todo # {} => phase = "iterating"
  BY DEF TypeInv, TypeOK
<1>2. files' \in [Dbs -> Directory]
  <2>1. \A d \in Dbs : MoveToDel(files[d]) \in Directory
    BY <1>1, MoveToDelParts
  <2> QED BY <1>1, <2>1 DEF Finish
<1>3. kept' \in [Dbs -> [whole: BOOLEAN, failures: 0 .. NoOfBackups + 1]]
  <2>1. [whole |-> FALSE, failures |-> 0] \in [whole: BOOLEAN, failures: 0 .. NoOfBackups + 1]
    BY NoOfBackupsAssumption
  <2> QED BY <1>1, <2>1 DEF Finish
<1>4. lastPC' \in {"none", "this", "other"} /\ phase' = "ended" /\ session.todo = {}
  BY <1>1 DEF Finish, TypeInv, TypeOK
<1>5. UNCHANGED <<pda, marked, lacks, config, settings, requests, session, past, events, faults>>
  BY DEF Finish
<1>6. Unloaded' = Unloaded
  BY DEF Unloaded, NoListing
<1> QED BY <1>2, <1>3, <1>4, <1>5, <1>6 DEF TypeInv, TypeOK

LEMMA NextTypes == TypeInv /\ [Next]_vars => TypeInv'
<1> SUFFICES ASSUME TypeInv, [Next]_vars PROVE TypeInv'
  OBVIOUS
<1>1. CASE UNCHANGED vars
  BY <1>1 DEF vars, desktop, TypeInv, TypeOK, Unloaded, NoListing
<1>2. CASE \E d \in Dbs : ChangeOnPda(d) \/ Visit(d) \/ PassOver(d)
  BY <1>2, ChangeOnPdaTypes, VisitTypes, PassOverTypes
<1>3. CASE SyncElsewhere \/ Connect \/ Restore
  BY <1>3, SyncElsewhereTypes, ConnectTypes, RestoreTypes
<1>4. CASE \/ \E d \in ConduitDbs, c \in Configs : Configure(d, c)
           \/ \E s \in BackupSettings : ConfigureBackup(s)
           \/ \E r \in Requests : Request(r)
  BY <1>4, SettingTypes
<1>5. CASE EndIteration \/ LoseLink \/ Crash \/ Rest \/ Finish
  BY <1>5, EndingTypes, FinishTypes
<1>6. CASE \E what \in Requests \cup {"all"} : Iterate(what)
  BY <1>6, IterateTypes
<1> QED BY <1>1, <1>2, <1>3, <1>4, <1>5, <1>6 DEF Next

(* The types are kept by every step (TypeOK): in particular the versions   *)
(* stay within their bound, and the list of databases is only there while  *)
(* iterate_dbs runs.                                                       *)
THEOREM TypeCorrect == Spec => []TypeOK
<1>1. TypeInv => TypeOK
  BY DEF TypeInv
<1> QED BY InitTypes, NextTypes, <1>1, PTL DEF Spec

-----------------------------------------------------------------------------
(* A whole backup survives.                                                *)

(* A whole backup is no older than the failures since it was made: each of *)
(* them has pushed it back by at most one generation.                      *)
At(dir, i) == IF i = 0 THEN dir.file ELSE dir.older[i - 1]
WholeWithin(dir, n) == \E i \in 0 .. n : i <= NoOfBackups /\ At(dir, i).whole
Survival ==
  \A d \in Dbs :
    kept[d].whole /\ kept[d].failures <= NoOfBackups => WholeWithin(files[d], kept[d].failures)

LEMMA WholeIsThere ==
  ASSUME NEW dir \in Directory, NEW n \in Nat, WholeWithin(dir, n)
  PROVE  HasWhole(dir)
<1>1. PICK i \in 0 .. n : i <= NoOfBackups /\ At(dir, i).whole
  BY DEF WholeWithin
<1>2. CASE i = 0
  BY <1>1, <1>2 DEF At, HasWhole
<1>3. CASE i # 0
  <2>1. i - 1 \in Generations
    BY <1>1, <1>3, NoOfBackupsAssumption DEF Generations
  <2> QED BY <1>1, <1>3, <2>1 DEF At, HasWhole
<1> QED BY <1>2, <1>3

(* One more failure: what was within n generations is within n + 1.        *)
LEMMA RotatedWithin ==
  ASSUME NEW dir \in Directory, NEW n \in Nat, n + 1 <= NoOfBackups, WholeWithin(dir, n),
         NEW new \in Directory, new.older = Rotate(dir).older
  PROVE  WholeWithin(new, n + 1)
<1>1. PICK i \in 0 .. n : i <= NoOfBackups /\ At(dir, i).whole
  BY DEF WholeWithin
<1>2. i \in Generations
  BY <1>1, NoOfBackupsAssumption DEF Generations
<1>3. Exists(At(dir, i))
  BY <1>1, FilesAreFiles DEF Exists
<1>4. Rotate(dir).older[i] = At(dir, i)
  BY <1>2, <1>3, RotateParts DEF At
<1>5. At(new, i + 1) = At(dir, i)
  BY <1>1, <1>4 DEF At
<1>6. i + 1 \in 0 .. n + 1 /\ i + 1 <= NoOfBackups
  BY <1>1, NoOfBackupsAssumption
<1> QED BY <1>1, <1>5, <1>6 DEF WholeWithin

LEMMA FailureCounted ==
  ASSUME TypeInv, NEW d \in Dbs, NEW failed \in [Dbs -> [whole: BOOLEAN, failures: 0 .. NoOfBackups + 1]],
         failed = [kept EXCEPT ![d].failures = IF @ > NoOfBackups THEN @ ELSE @ + 1]
  PROVE  /\ failed[d].whole = kept[d].whole
         /\ failed[d].failures <= NoOfBackups =>
              failed[d].failures = kept[d].failures + 1 /\ kept[d].failures \in Nat
         /\ \A x \in Dbs \ {d} : failed[x] = kept[x]
BY NoOfBackupsAssumption DEF TypeInv, TypeOK

LEMMA BackupSurvival ==
  ASSUME TypeInv, TypeInv', Survival, NEW d \in Dbs, NEW link, NEW outcome \in Outcomes,
         Backup(d, link, outcome), kept' = Count(d, outcome)
  PROVE  Survival'
<1>1. /\ files \in [Dbs -> Directory] /\ files' \in [Dbs -> Directory] /\ session \in Session
      /\ kept \in [Dbs -> [whole: BOOLEAN, failures: 0 .. NoOfBackups + 1]]
      /\ kept' \in [Dbs -> [whole: BOOLEAN, failures: 0 .. NoOfBackups + 1]]
      /\ pda' \in [Dbs -> [here: BOOLEAN, ver: 0 .. MaxVer]]
  BY DEF TypeInv, TypeOK
<1>2. CASE ~WithBackup(d) \/ Skipped(d)
  BY <1>2 DEF Backup, Count, Survival
<1>3. CASE WithBackup(d) /\ ~Skipped(d)
  <2> DEFINE updatedOnly == session.settings.updatedOnly
             listed == session.listed[d]
             ver == pda'[d].ver
             new == BackUp(files[d], updatedOnly, listed, ver, outcome)
  <2>1. /\ updatedOnly \in BOOLEAN /\ listed \in 0 .. MaxVer
        /\ ver \in 0 .. MaxVer /\ files[d] \in Directory
    BY <1>1, SettingsAssumption DEF Session
  <2>3. files' = [files EXCEPT ![d] = new]
    BY <1>3, Zenon DEF Backup
  <2>7. ~Skips(files[d], updatedOnly, listed)
    BY <1>3, Zenon DEF Skipped
  <2>8. new = BackUp(files[d], updatedOnly, listed, ver, outcome)
    OBVIOUS
  <2> HIDE DEF updatedOnly, listed, ver, new
  <2>2. /\ new \in Directory /\ new.older = Rotate(files[d]).older
        /\ outcome = "whole" => new.file.whole
    <3>1. IsBackedUp(new, files[d], listed, ver, outcome)
      BY <2>1, <2>7, <2>8, BackUpGives
    <3> QED BY <3>1 DEF IsBackedUp
  <2>4. files'[d] = new /\ \A x \in Dbs \ {d} : files'[x] = files[x]
    BY <1>1, <2>3
  <2>5. CASE outcome = "whole"
    <3>1. kept'[d] = [whole |-> TRUE, failures |-> 0] /\ \A x \in Dbs \ {d} : kept'[x] = kept[x]
      BY <1>1, <1>3, <2>5 DEF Count
    <3>2. new.file.whole
      BY <2>2, <2>5
    <3>3. WholeWithin(new, 0)
      BY <3>2, NoOfBackupsAssumption DEF WholeWithin, At
    <3>4. kept'[d].failures = 0
      BY <3>1
    <3> QED BY <2>4, <3>1, <3>3, <3>4 DEF Survival
  <2>6. CASE outcome # "whole"
    <3>1. kept' = [kept EXCEPT ![d].failures = IF @ > NoOfBackups THEN @ ELSE @ + 1]
      BY <1>3, <2>6 DEF Count
    <3>2. /\ kept'[d].whole = kept[d].whole
          /\ kept'[d].failures <= NoOfBackups =>
               kept'[d].failures = kept[d].failures + 1 /\ kept[d].failures \in Nat
          /\ \A x \in Dbs \ {d} : kept'[x] = kept[x]
      BY <1>1, <3>1, FailureCounted
    <3>3. ASSUME kept'[d].whole, kept'[d].failures <= NoOfBackups
          PROVE  WholeWithin(new, kept'[d].failures)
      <4>1. kept'[d].failures = kept[d].failures + 1 /\ kept[d].failures \in Nat
        BY <3>2, <3>3
      <4>2. kept[d].failures <= NoOfBackups /\ kept[d].failures + 1 <= NoOfBackups
        BY <3>3, <4>1, NoOfBackupsAssumption
      <4>3. WholeWithin(files[d], kept[d].failures)
        BY <3>2, <3>3, <4>2 DEF Survival
      <4>4. WholeWithin(new, kept[d].failures + 1)
        BY <2>1, <2>2, <4>1, <4>2, <4>3, RotatedWithin
      <4> QED BY <4>1, <4>4
    <3> QED BY <2>4, <3>2, <3>3 DEF Survival
  <2> QED BY <2>5, <2>6
<1> QED BY <1>2, <1>3

LEMMA NextSurvival == TypeInv /\ TypeInv' /\ Survival /\ [Next]_vars => Survival'
<1> SUFFICES ASSUME TypeInv, TypeInv', Survival, [Next]_vars PROVE Survival'
  OBVIOUS
<1>1. CASE UNCHANGED <<files, kept>>
  BY <1>1 DEF Survival
<1>2. ASSUME NEW d \in Dbs, Visit(d) PROVE Survival'
  <2>1. PICK result \in {"done", "failed", "broken off"}, outcome \in Outcomes :
          /\ Backup(d, IF result = "broken off" THEN "down" ELSE "up", outcome)
          /\ kept' = Count(d, outcome)
    BY <1>2, Zenon DEF Visit
  <2> QED BY <2>1, BackupSurvival
<1>3. CASE Finish
  <2>1. \A d \in Dbs : (d \in Moved => kept'[d] = [whole |-> FALSE, failures |-> 0])
                       /\ (d \notin Moved => kept'[d] = kept[d] /\ files'[d] = files[d])
    BY <1>3 DEF Finish
  <2> QED BY <2>1 DEF Survival
<1>4. CASE \/ SyncElsewhere \/ Connect \/ Restore \/ EndIteration \/ LoseLink \/ Crash \/ Rest
           \/ \E d \in Dbs : ChangeOnPda(d) \/ PassOver(d)
           \/ \E d \in ConduitDbs, c \in Configs : Configure(d, c)
           \/ \E s \in BackupSettings : ConfigureBackup(s)
           \/ \E r \in Requests : Request(r)
           \/ \E what \in Requests \cup {"all"} : Iterate(what)
  <2>1. UNCHANGED <<files, kept>>
    BY <1>4 DEF SyncElsewhere, Connect, Restore, EndIteration, LoseLink, Crash, Rest, ChangeOnPda,
                PassOver, Configure, ConfigureBackup, Request, Iterate, desktop
  <2> QED BY <1>1, <2>1
<1>5. CASE UNCHANGED vars
  BY <1>1, <1>5 DEF vars, desktop
<1> QED BY <1>2, <1>3, <1>4, <1>5 DEF Next

(* A whole backup survives as many failed attempts as there are            *)
(* generations: create_backup_of_backup pushes it back by one for each     *)
(* file that is created, and only remove_deleted takes it away.            *)
THEOREM BackupsSurvive == Spec => []WholeSurvives
<1>1. Init => Survival
  BY DEF Init, Survival
<1>2. TypeInv /\ Survival => WholeSurvives
  <2> SUFFICES ASSUME TypeInv, Survival, NEW d \in Dbs, kept[d].whole, kept[d].failures <= NoOfBackups
               PROVE  HasWhole(files[d])
    BY DEF WholeSurvives
  <2>1. files[d] \in Directory /\ kept[d].failures \in Nat
    BY NoOfBackupsAssumption DEF TypeInv, TypeOK
  <2>2. WholeWithin(files[d], kept[d].failures)
    BY DEF Survival
  <2> QED BY <2>1, <2>2, WholeIsThere
<1>3. TypeInv /\ Survival /\ [Next]_vars => TypeInv' /\ Survival'
  BY NextTypes, NextSurvival
<1> QED BY InitTypes, <1>1, <1>2, <1>3, PTL DEF Spec

-----------------------------------------------------------------------------
(* A first synchronization is performed once.                              *)

FirstDone ==
  phase # "idle" =>
    \A d \in ConduitDbs \ past.touched :
      session.config[d].first # "NotSet" =>
        (config[d].first = "NotSet" <=> d \in past.carriedOut \cup past.mishap)

LEMMA VisitFirst ==
  ASSUME TypeInv, FirstDone, NEW d \in Dbs, Visit(d)
  PROVE  FirstDone'
<1>a. PICK result \in {"done", "failed", "broken off"}, wrote \in BOOLEAN, outcome \in Outcomes :
         VisitGives(d, result, wrote, outcome)
  BY Zenon DEF Visit, VisitGives
<1>1. /\ Conduit(d, result, wrote)
      /\ session'.config = session.config
      /\ past'.touched = past.touched
      /\ past'.carriedOut = IF WithConduit(d) /\ result = "done" THEN past.carriedOut \cup {d}
                            ELSE past.carriedOut
      /\ past'.mishap = IF result # "done" THEN past.mishap \cup {d} ELSE past.mishap
  <2>1. session \in Session /\ past \in Past
    BY DEF TypeInv, TypeOK
  <2>2. session'.config = session.config
    BY <1>a, <2>1 DEF Session, VisitGives
  <2> QED BY <1>a, <2>1, <2>2 DEF Past, VisitGives
<1>2. config \in [ConduitDbs -> Config] /\ phase = "iterating"
  BY DEF TypeInv, TypeOK, Visit
<1>3. CASE ~WithConduit(d)
  BY <1>1, <1>2, <1>3 DEF FirstDone, Conduit
<1>4. CASE WithConduit(d) /\ IsFirst(d)
  <2>1. config' = FirstRemoved(d) /\ d \in ConduitDbs
    BY <1>1, <1>4 DEF Conduit, WithConduit
  <2>2. config'[d].first = "NotSet" /\ \A x \in ConduitDbs \ {d} : config'[x] = config[x]
    BY <1>2, <2>1 DEF FirstRemoved, Config
  <2>3. d \in past'.carriedOut \cup past'.mishap
    BY <1>1, <1>4
  <2>4. \A x \in ConduitDbs \ {d} : x \in past'.carriedOut \cup past'.mishap
                                      <=> x \in past.carriedOut \cup past.mishap
    BY <1>1
  <2> QED BY <1>1, <1>2, <2>2, <2>3, <2>4 DEF FirstDone
<1>5. CASE WithConduit(d) /\ ~IsFirst(d)
  <2>1. config' = config /\ session.config[d].first = "NotSet"
    BY <1>1, <1>5 DEF Conduit, IsFirst
  <2>2. \A x \in ConduitDbs \ {d} : x \in past'.carriedOut \cup past'.mishap
                                      <=> x \in past.carriedOut \cup past.mishap
    BY <1>1
  <2> QED BY <1>1, <1>2, <2>1, <2>2 DEF FirstDone
<1> QED BY <1>3, <1>4, <1>5

LEMMA NextFirst == TypeInv /\ FirstDone /\ [Next]_vars => FirstDone'
<1> SUFFICES ASSUME TypeInv, FirstDone, [Next]_vars PROVE FirstDone'
  OBVIOUS
<1>0. session \in Session /\ past \in Past /\ config \in [ConduitDbs -> Config]
  BY DEF TypeInv, TypeOK
<1>1. CASE UNCHANGED <<phase, config, session, past>>
  BY <1>1 DEF FirstDone
<1>2. ASSUME NEW d \in Dbs, Visit(d) PROVE FirstDone'
  BY <1>2, VisitFirst
<1>3. ASSUME NEW d \in ConduitDbs, NEW c \in Configs, Configure(d, c) PROVE FirstDone'
  <2>1. /\ past'.touched = past.touched \cup IF phase = "idle" THEN {} ELSE {d}
        /\ past'.carriedOut = past.carriedOut /\ past'.mishap = past.mishap
    BY <1>0, <1>3 DEF Configure, Past
  <2>2. \A x \in ConduitDbs \ {d} : config'[x] = config[x]
    BY <1>0, <1>3 DEF Configure
  <2>3. UNCHANGED <<phase, session>>
    BY <1>3 DEF Configure
  <2> QED BY <2>1, <2>2, <2>3 DEF FirstDone
<1>4. CASE Connect
  <2>1. session'.config = config /\ config' = config
    BY <1>4 DEF Connect, TypeInv, Session, desktop
  <2>2. past'.carriedOut = {} /\ past'.mishap = {}
    BY <1>4 DEF Connect, NoPast
  <2> QED BY <2>1, <2>2 DEF FirstDone
<1>5. CASE EndIteration \/ LoseLink
  <2>1. session'.config = session.config
    BY <1>0, <1>5 DEF EndIteration, IterationOver, LoseLink, Session
  <2>2. /\ past'.touched = past.touched /\ past'.carriedOut = past.carriedOut
        /\ past'.mishap = past.mishap
    BY <1>0, <1>5 DEF EndIteration, LoseLink, Past
  <2>3. config' = config /\ phase # "idle"
    BY <1>5 DEF EndIteration, LoseLink, desktop
  <2> QED BY <2>1, <2>2, <2>3 DEF FirstDone
<1>11. ASSUME NEW what \in Requests \cup {"all"}, Iterate(what) PROVE FirstDone'
  <2>1. PICK read \in SUBSET OnPda : IterateGives(what, read)
    BY <1>11, IterateReads
  <2>2. /\ session'.config = session.config
        /\ past'.touched = past.touched /\ past'.carriedOut = past.carriedOut
        /\ past'.mishap = past.mishap
    BY <1>0, <2>1 DEF IterateGives, Session, Past
  <2>3. config' = config /\ phase # "idle"
    BY <1>11, IterateReads DEF desktop
  <2> QED BY <2>2, <2>3 DEF FirstDone
<1>12. ASSUME NEW d \in Dbs, PassOver(d) PROVE FirstDone'
  <2>1. session'.config = session.config
    BY <1>0, <1>12 DEF PassOver, Session
  <2> QED BY <1>12, <2>1 DEF PassOver, FirstDone, desktop
<1>6. CASE Crash \/ Rest
  BY <1>6 DEF Crash, Rest, FirstDone
<1>7. CASE Restore
  BY <1>1, <1>7 DEF Restore
<1>8. CASE Finish
  BY <1>8 DEF Finish, FirstDone
<1>9. CASE \/ \E d \in Dbs : ChangeOnPda(d)
           \/ SyncElsewhere
           \/ \E s \in BackupSettings : ConfigureBackup(s)
           \/ \E r \in Requests : Request(r)
  BY <1>9 DEF ChangeOnPda, SyncElsewhere, ConfigureBackup, Request, FirstDone
<1>10. CASE UNCHANGED vars
  BY <1>1, <1>10 DEF vars, desktop
<1> QED BY <1>2, <1>3, <1>4, <1>5, <1>6, <1>7, <1>8, <1>9, <1>10, <1>11, <1>12 DEF Next

(* A first synchronization is off the configuration (remove_first_sync) if *)
(* and only if it has been performed, or has failed, unless the            *)
(* configuration was changed meanwhile.                                    *)
THEOREM FirstSyncCounted == Spec => []FirstSyncOnce
<1>1. Init => FirstDone
  BY DEF Init, FirstDone
<1>2. FirstDone => FirstSyncOnce
  BY DEF FirstDone, FirstSyncOnce
<1> QED BY InitTypes, NextTypes, NextFirst, <1>1, <1>2, PTL DEF Spec

-----------------------------------------------------------------------------
(* A session in which nothing goes wrong.                                  *)

Smooth == phase # "idle" /\ past.smooth

(* The PDA has it, and has not marked it, and it has been gone through.    *)
Done(d) ==
  Synced(d) /\ IF phase = "iterating" THEN d \notin session.todo ELSE ~session.normal

(* Such a session serves nothing but the default, with the link up.        *)
Quiet ==
  Smooth => /\ requests = {} /\ session.link = "up" /\ session.serving = "all"
            /\ \A d \in session.todo : pda[d].here

(* What was not forgotten at the beginning is not forgotten; and a session *)
(* on another computer's stamp reads everything that it goes through.      *)
StillHonest == Smooth /\ past.honest => Honest
Reread ==
  Smooth /\ past.foreign =>
    /\ phase # "ended" => lastPC # "this"
    /\ \A d \in ConduitDbs : Done(d) => "unflagged" \notin lacks[d]

(* A whole file holds at least what its date says; the list of the         *)
(* databases is not ahead of them.                                         *)
NotOlder == \A d \in Dbs : files[d].file.whole => files[d].file.ver >= files[d].file.date
ListBehind == phase = "iterating" => \A d \in Dbs : session.listed[d] <= pda[d].ver

Covered(d) ==
  /\ Exists(files[d].file)
  /\ files[d].file.whole => files[d].file.ver >= session.listed[d]
  /\ ~session.settings.updatedOnly => files[d].file.whole /\ files[d].file.ver = pda[d].ver
BackedUp ==
  Smooth => \A d \in Dbs \ session.settings.exclude :
    Done(d) => Covered(d) /\ d \notin session.unmet
LeftOver ==
  Smooth => \A d \in Dbs :
    ~Synced(d) /\ Exists(files[d].file) =>
      IF phase = "ended" THEN ~session.settings.removeDeleted ELSE d \in session.unmet

(* A session ends when the default, too, has been done.                    *)
Served == phase = "ended" => ~session.normal

SessionInv ==
  /\ Quiet
  /\ Served
  /\ StillHonest
  /\ Reread
  /\ NotOlder
  /\ ListBehind
  /\ BackedUp
  /\ LeftOver

LEMMA InitSession == Init => SessionInv
<1> SUFFICES ASSUME Init PROVE SessionInv
  OBVIOUS
<1>1. phase = "idle" /\ \A d \in Dbs : ~files[d].file.whole
  BY FilesAreFiles DEF Init, EmptyDirectory
<1> QED BY <1>1 DEF SessionInv, Smooth, Quiet, Served, StillHonest, Reread, NotOlder, ListBehind, BackedUp,
              LeftOver

(* Between the sessions there is only a file's date to be true.            *)
LEMMA IdleSession ==
  ASSUME SessionInv, phase' = "idle", UNCHANGED files
  PROVE  SessionInv'
BY DEF SessionInv, Smooth, Quiet, Served, StillHonest, Reread, NotOlder, ListBehind, BackedUp, LeftOver

LEMMA ConnectSession == ASSUME TypeInv, SessionInv, Connect PROVE SessionInv'
<1>1. /\ session' = [Unloaded EXCEPT
                      !.config = config, !.settings = settings, !.normal = requests = {},
                      !.unmet = {d \in Dbs : Exists(files[d].file)}]
      /\ past' = [NoPast EXCEPT !.foreign = lastPC # "this", !.honest = Honest,
                                !.smooth = requests = {}]
      /\ phase' = "requests"
      /\ UNCHANGED <<pda, marked, lacks, lastPC, config, settings, files, requests>>
  BY DEF Connect, desktop
<1>2. /\ session'.link = "up" /\ session'.serving = "all" /\ session'.todo = {}
      /\ session'.unmet = {d \in Dbs : Exists(files[d].file)}
      /\ session'.normal = (requests = {})
  BY <1>1 DEF Unloaded
<1>3. past'.smooth = (requests = {}) /\ past'.foreign = (lastPC # "this") /\ past'.honest = Honest
  BY <1>1 DEF NoPast
<1>4. Quiet' /\ LeftOver'
  BY <1>1, <1>2, <1>3 DEF Quiet, Smooth, LeftOver, Synced
<1>5. StillHonest'
  BY <1>1, <1>3 DEF StillHonest, Honest, Synced
<1>6. Reread' /\ BackedUp'
  BY <1>1, <1>2, <1>3 DEF Reread, BackedUp, Smooth, Done
<1>7. NotOlder' /\ ListBehind' /\ Served'
  BY <1>1 DEF SessionInv, NotOlder, ListBehind, Served
<1> QED BY <1>4, <1>5, <1>6, <1>7 DEF SessionInv

LEMMA RestoreSession == ASSUME TypeInv, SessionInv, Restore PROVE SessionInv'
<1>1. phase = "requests" /\ phase' = "requests" /\ past' = past /\ files' = files
  BY DEF Restore
<1>2. ~past.smooth
  BY <1>1 DEF Restore, SessionInv, Quiet, Smooth
<1> QED BY <1>1, <1>2 DEF SessionInv, Smooth, Quiet, Served, StillHonest, Reread, NotOlder, ListBehind,
              BackedUp, LeftOver

LEMMA ConfigureSession ==
  ASSUME TypeInv, SessionInv, NEW d \in ConduitDbs, NEW c \in Configs, Configure(d, c)
  PROVE  SessionInv'
<1>1. UNCHANGED <<pda, marked, lacks, lastPC, settings, files, requests, phase, session>>
  BY DEF Configure
<1>2. past'.smooth = past.smooth /\ past'.foreign = past.foreign /\ past'.honest = past.honest
  BY DEF Configure, TypeInv, TypeOK, Past
<1> QED BY <1>1, <1>2 DEF SessionInv, Smooth, Quiet, Served, StillHonest, Honest, Synced, Reread, Done,
              NotOlder, ListBehind, Covered, BackedUp, LeftOver

LEMMA IterateSession ==
  ASSUME TypeInv, SessionInv, NEW what \in Requests \cup {"all"}, Iterate(what)
  PROVE  SessionInv'
<1>1. session \in Session /\ pda \in [Dbs -> [here: BOOLEAN, ver: 0 .. MaxVer]] /\ past \in Past
  BY DEF TypeInv, TypeOK
<1>2. PICK read \in SUBSET OnPda : IterateGives(what, read)
  BY IterateReads
<1>3. \A d \in Dbs : ListOf(read)[d] <= pda[d].ver
  BY <1>1 DEF ListOf
<1>4. \A d \in read : pda[d].here
  BY DEF OnPda
<1>5. session.link = "up" /\ read = OnPda => \A d \in Dbs : pda[d].here => d \in read
  BY DEF OnPda
<1>6. /\ session'.serving = what /\ session'.todo = read /\ session'.listed = ListOf(read)
      /\ session'.link = session.link /\ session'.settings = session.settings
      /\ session'.unmet = session.unmet
      /\ past'.foreign = past.foreign /\ past'.honest = past.honest
      /\ past'.smooth => past.smooth /\ read = OnPda
  BY <1>1, <1>2 DEF Session, Past, IterateGives
<1>7. /\ phase = "requests" /\ phase' = "iterating"
      /\ UNCHANGED <<pda, marked, lacks, lastPC, config, settings, files, requests>>
      /\ what \in requests \/ what = "all"
  BY IterateReads DEF desktop
<1>8. Smooth' => Smooth /\ requests = {} /\ what = "all" /\ session.link = "up" /\ read = OnPda
  BY <1>6, <1>7 DEF Smooth, SessionInv, Quiet
<1>9. Quiet'
  BY <1>4, <1>6, <1>7, <1>8 DEF Quiet
<1>10. Smooth' => \A d \in Dbs : ~Done(d)'
  BY <1>5, <1>6, <1>7, <1>8 DEF Done, Synced
<1>11. StillHonest' /\ Reread'
  BY <1>6, <1>7, <1>8, <1>10, DbsAssumption DEF SessionInv, StillHonest, Honest, Synced, Reread
<1>12. NotOlder' /\ ListBehind' /\ Served'
  BY <1>3, <1>6, <1>7 DEF SessionInv, NotOlder, ListBehind, Served
<1>13. BackedUp' /\ LeftOver'
  BY <1>6, <1>7, <1>8, <1>10 DEF SessionInv, BackedUp, LeftOver, Synced
<1> QED BY <1>9, <1>11, <1>12, <1>13 DEF SessionInv

(* A marked database is no concern of the properties; the others are not   *)
(* touched when it is passed over.                                         *)
LEMMA PassOverSession == ASSUME TypeInv, SessionInv, NEW d \in Dbs, PassOver(d) PROVE SessionInv'
<1>1. session \in Session
  BY DEF TypeInv, TypeOK
<1>2. /\ phase = "iterating" /\ d \in marked
      /\ UNCHANGED <<pda, marked, lacks, lastPC, files, requests, phase, past>>
      /\ session' = [session EXCEPT !.todo = session.todo \ {d}]
  BY DEF PassOver, desktop
<1>3. /\ session'.todo = session.todo \ {d} /\ session'.listed = session.listed
      /\ session'.link = session.link /\ session'.settings = session.settings
      /\ session'.unmet = session.unmet /\ session'.serving = session.serving
  BY <1>1, <1>2 DEF Session
<1>4. Smooth' <=> Smooth
  BY <1>2 DEF Smooth
<1>5. \A x \in Dbs : Done(x)' <=> Done(x)
  BY <1>2, <1>3 DEF Done, Synced
<1>6. Quiet' /\ Served'
  BY <1>2, <1>3, <1>4 DEF SessionInv, Quiet, Served
<1>7. StillHonest' /\ Reread'
  BY <1>2, <1>4, <1>5, DbsAssumption DEF SessionInv, StillHonest, Honest, Synced, Reread
<1>8. NotOlder' /\ ListBehind'
  BY <1>2, <1>3 DEF SessionInv, NotOlder, ListBehind
<1>9. BackedUp' /\ LeftOver'
  BY <1>2, <1>3, <1>4, <1>5 DEF SessionInv, BackedUp, Covered, LeftOver, Synced
<1> QED BY <1>6, <1>7, <1>8, <1>9 DEF SessionInv

LEMMA EndIterationSession == ASSUME TypeInv, SessionInv, EndIteration PROVE SessionInv'
<1>1. session \in Session /\ past \in Past
  BY DEF TypeInv, TypeOK
<1>2. /\ session'.todo = {} /\ session'.normal = FALSE
      /\ session'.serving = session.serving /\ session'.listed = session.listed
      /\ session'.link = session.link /\ session'.settings = session.settings
      /\ session'.unmet = session.unmet
  BY <1>1 DEF EndIteration, IterationOver, Session
<1>3. past'.foreign = past.foreign /\ past'.honest = past.honest
  BY <1>1 DEF EndIteration, Past
<1>4. past'.smooth => past.smooth /\ session.todo = {}
  BY <1>1 DEF EndIteration, Past
<1>5. /\ phase = "iterating" /\ phase' = "requests" /\ requests' \subseteq requests
      /\ UNCHANGED <<pda, marked, lacks, lastPC, config, settings, files>>
  BY DEF EndIteration
<1>6. Smooth' => Smooth /\ session.todo = {}
  BY <1>4, <1>5 DEF Smooth
<1>7. Smooth' => \A d \in Dbs : Done(d)' => Done(d)
  BY <1>2, <1>5, <1>6 DEF Done, Synced
<1>8. Quiet'
  BY <1>2, <1>5, <1>6 DEF SessionInv, Quiet
<1>9. StillHonest' /\ Reread'
  BY <1>3, <1>5, <1>6, <1>7, DbsAssumption DEF SessionInv, StillHonest, Honest, Synced, Reread
<1>10. NotOlder' /\ ListBehind' /\ Served'
  BY <1>5 DEF SessionInv, NotOlder, ListBehind, Served
<1>11. BackedUp'
  BY <1>2, <1>5, <1>6, <1>7 DEF SessionInv, BackedUp, Covered
<1>12. LeftOver'
  BY <1>2, <1>5, <1>6 DEF SessionInv, LeftOver, Synced
<1> QED BY <1>8, <1>9, <1>10, <1>11, <1>12 DEF SessionInv

LEMMA LoseLinkSession == ASSUME TypeInv, SessionInv, LoseLink PROVE SessionInv'
<1>1. /\ past'.smooth = FALSE /\ session'.listed = session.listed /\ phase # "ended"
      /\ UNCHANGED <<pda, files, phase>>
  BY DEF LoseLink, TypeInv, TypeOK, Past, Session, desktop
<1> QED BY <1>1 DEF SessionInv, Smooth, Quiet, Served, StillHonest, Reread, NotOlder, ListBehind,
              BackedUp, LeftOver

LEMMA FinishSession == ASSUME TypeInv, SessionInv, Finish PROVE SessionInv'
<1>1. files \in [Dbs -> Directory] /\ session.todo = {}
  BY DEF TypeInv, TypeOK, Finish
<1>2. /\ phase = "requests" /\ phase' = "ended" /\ ~session.normal
      /\ UNCHANGED <<pda, marked, lacks, requests, session, past>>
  BY DEF Finish
<1>3. /\ \A d \in Dbs : d \in Moved => ~Exists(files'[d].file) /\ ~files'[d].file.whole
      /\ \A d \in Dbs : d \notin Moved => files'[d] = files[d]
  <2>1. \A d \in Dbs : files'[d] = IF d \in Moved THEN MoveToDel(files[d]) ELSE files[d]
    BY DEF Finish
  <2>2. \A d \in Dbs : ~Exists(MoveToDel(files[d]).file)
    BY <1>1, MoveToDelParts
  <2> QED BY <2>1, <2>2, FilesAreFiles DEF Exists
<1>4. Smooth' => Smooth
  BY <1>2 DEF Smooth
<1>5. \A d \in Dbs : Done(d)' <=> Done(d)
  BY <1>2 DEF Done, Synced
<1>6. Quiet' /\ StillHonest'
  BY <1>2, <1>4 DEF SessionInv, Quiet, StillHonest, Honest, Synced
<1>7. Reread'
  BY <1>2, <1>4, <1>5, DbsAssumption DEF SessionInv, Reread
<1>8. NotOlder' /\ ListBehind' /\ Served'
  BY <1>2, <1>3 DEF SessionInv, NotOlder, ListBehind, Served
<1>9. BackedUp'
  <2>1. ASSUME Smooth', NEW d \in Dbs \ session.settings.exclude, Done(d)'
        PROVE  Covered(d)' /\ d \notin session'.unmet
    <3>1. Covered(d) /\ d \notin session.unmet
      BY <1>4, <1>5, <2>1 DEF SessionInv, BackedUp
    <3>2. files'[d] = files[d]
      BY <1>3, <3>1 DEF Moved
    <3> QED BY <1>2, <3>1, <3>2 DEF Covered
  <2> QED BY <1>2, <2>1 DEF BackedUp
<1>10. LeftOver'
  <2>1. ASSUME Smooth', NEW d \in Dbs, ~Synced(d)', Exists(files'[d].file)
        PROVE  ~session.settings.removeDeleted
    <3>1. d \notin Moved /\ files'[d] = files[d]
      BY <1>3, <2>1
    <3>2. d \in session.unmet
      BY <1>2, <1>4, <2>1, <3>1 DEF SessionInv, LeftOver, Synced
    <3> QED BY <3>1, <3>2 DEF Moved
  <2> QED BY <1>2, <2>1 DEF LeftOver
<1> QED BY <1>6, <1>7, <1>8, <1>9, <1>10 DEF SessionInv

(* A conduit writes a database at most once: the versions on the PDA only  *)
(* grow, and stay ahead of the list.                                       *)
AtMostWritten(d) == pda' = pda \/ pda' = [pda EXCEPT ![d].ver = @ + 1]

LEMMA ConduitPda ==
  ASSUME NEW d \in Dbs, NEW result, NEW wrote \in BOOLEAN, Conduit(d, result, wrote)
  PROVE  AtMostWritten(d)
BY DEF Conduit, AtMostWritten

LEMMA VersionsGrow ==
  ASSUME TypeInv, NEW d \in Dbs, AtMostWritten(d)
  PROVE  /\ pda'[d].here = pda[d].here
         /\ \A x \in Dbs : pda'[x].ver >= pda[x].ver
         /\ \A x \in Dbs \ {d} : pda'[x] = pda[x]
<1>1. pda \in [Dbs -> [here: BOOLEAN, ver: 0 .. MaxVer]]
  BY DEF TypeInv, TypeOK
<1>2. CASE pda' = pda
  BY <1>1, <1>2
<1>3. CASE pda' = [pda EXCEPT ![d].ver = @ + 1]
  BY <1>1, <1>3
<1> QED BY <1>2, <1>3 DEF AtMostWritten

LEMMA ListStaysBehind ==
  ASSUME TypeInv, TypeInv', ListBehind, phase = "iterating", session'.listed = session.listed,
         \A x \in Dbs : pda'[x].ver >= pda[x].ver
  PROVE  ListBehind'
<1>1. ASSUME NEW x \in Dbs
      PROVE  session.listed[x] <= pda'[x].ver
  <2>1. session.listed[x] \in Int /\ pda[x].ver \in Int /\ pda'[x].ver \in Int
    BY DEF TypeInv, TypeOK, Session
  <2> QED BY <2>1 DEF ListBehind
<1> QED BY <1>1 DEF ListBehind

(* What going through one database with its conduit and with the backup    *)
(* leaves of the others.                                                   *)
LEMMA VisitSession == ASSUME TypeInv, TypeInv', SessionInv, NEW d \in Dbs, Visit(d) PROVE SessionInv'
<1> USE DbsAssumption
<1>1. PICK result \in {"done", "failed", "broken off"}, wrote \in BOOLEAN, outcome \in Outcomes :
         VisitGives(d, result, wrote, outcome)
  BY Zenon DEF Visit, VisitGives
<1>2. /\ pda \in [Dbs -> [here: BOOLEAN, ver: 0 .. MaxVer]]
      /\ pda' \in [Dbs -> [here: BOOLEAN, ver: 0 .. MaxVer]]
      /\ lacks \in [ConduitDbs -> SUBSET Kinds]
      /\ files \in [Dbs -> Directory] /\ files' \in [Dbs -> Directory]
      /\ session \in Session /\ past \in Past
  BY DEF TypeInv, TypeOK
<1>3. /\ phase = "iterating" /\ phase' = "iterating" /\ d \in session.todo /\ d \notin marked
      /\ UNCHANGED <<marked, lastPC, settings, requests>>
  BY DEF Visit
<1>4. /\ session'.todo = session.todo \ {d} /\ session'.listed = session.listed
      /\ session'.settings = session.settings /\ session'.serving = session.serving
      /\ session'.normal = session.normal
      /\ session'.unmet = IF WithBackup(d) THEN session.unmet \ {d} ELSE session.unmet
      /\ result # "broken off" /\ outcome # "broken off" => session'.link = "up"
  BY <1>1, <1>2 DEF Session, VisitGives
<1>5. /\ past'.foreign = past.foreign /\ past'.honest = past.honest
      /\ past'.smooth => /\ past.smooth /\ result = "done" /\ outcome = "whole"
                         /\ WithConduit(d) => TypeOf(d) \notin {"MergeToPilot", "MergeFromPilot"}
  BY <1>1, <1>2 DEF Past, VisitGives
<1>6. Smooth' => /\ Smooth /\ result = "done" /\ outcome = "whole"
                 /\ WithConduit(d) => TypeOf(d) \notin {"MergeToPilot", "MergeFromPilot"}
  BY <1>3, <1>5 DEF Smooth
<1>7. /\ pda'[d].here = pda[d].here
      /\ \A x \in Dbs : pda'[x].ver >= pda[x].ver
      /\ \A x \in Dbs \ {d} : pda'[x] = pda[x]
  <2>1. Conduit(d, result, wrote)
    BY <1>1 DEF VisitGives
  <2>2. AtMostWritten(d)
    BY <2>1, ConduitPda
  <2> QED BY <2>2, VersionsGrow
<1>b. \A x \in Dbs : Synced(x)' <=> Synced(x)
  BY <1>2, <1>3, <1>7 DEF Synced
<1>8. \A x \in ConduitDbs \ {d} : lacks'[x] = lacks[x]
  BY <1>1, <1>2 DEF Conduit, VisitGives
<1>9. \A x \in Dbs \ {d} : files'[x] = files[x]
  BY <1>1, <1>2 DEF Backup, VisitGives
<1>10. \A x \in Dbs \ {d} : Done(x)' <=> Done(x)
  BY <1>3, <1>4, <1>7 DEF Done, Synced
<1>11. Quiet'
  <2>1. Smooth' => session'.link = "up"
    BY <1>4, <1>6
  <2>2. session.todo \subseteq Dbs /\ \A x \in Dbs : pda'[x].here = pda[x].here
    BY <1>2, <1>7 DEF Session
  <2> QED BY <1>3, <1>4, <1>6, <2>1, <2>2 DEF SessionInv, Quiet
<1>12. ASSUME Smooth', d \in ConduitDbs, "unflagged" \notin lacks[d] \/ past.foreign
       PROVE  "unflagged" \notin lacks'[d]
  <2>1. WithConduit(d)
    BY <1>6, <1>12 DEF WithConduit, SessionInv, Quiet
  <2>2. lacks'[d] = Missing(d, TypeOf(d)) /\ TypeOf(d) # "NotSet"
    BY <1>1, <1>2, <1>6, <1>12, <2>1 DEF Conduit, VisitGives
  <2>3. TypeOf(d) \in {"Synchronize", "CopyToPilot", "CopyFromPilot"}
    <3>1. TypeOf(d) \in Types
      BY <1>2, <1>12 DEF TypeOf, Session, Config
    <3> QED BY <1>6, <1>12, <2>1, <2>2, <3>1 DEF Types
  <2>4. lacks[d] \subseteq Kinds
    BY <1>2, <1>12
  <2>5. CASE TypeOf(d) # "Synchronize" \/ ~Fast(d)
    <3>1. Got(d, TypeOf(d)) = Kinds
      BY <2>3, <2>5 DEF Got
    <3> QED BY <2>2, <2>4, <3>1 DEF Missing
  <2>6. CASE TypeOf(d) = "Synchronize" /\ Fast(d)
    <3>1. ~past.foreign
      BY <1>3, <1>6, <1>12, <2>6 DEF Fast, SessionInv, Reread
    <3>2. Got(d, TypeOf(d)) = {"flagged"} /\ lacks[d] \subseteq {"flagged"}
      BY <1>12, <2>4, <2>6, <3>1 DEF Got, Kinds
    <3> QED BY <2>2, <3>2 DEF Missing
  <2> QED BY <2>5, <2>6
<1>13. StillHonest'
  <2>1. ASSUME Smooth', past'.honest, NEW x \in ConduitDbs, Synced(x)'
        PROVE  "unflagged" \notin lacks'[x]
    <3>1. "unflagged" \notin lacks[x]
      BY <1>5, <1>6, <1>b, <2>1 DEF SessionInv, StillHonest, Honest
    <3>2. CASE x = d
      BY <1>12, <2>1, <3>1, <3>2
    <3>3. CASE x # d
      BY <1>8, <3>1, <3>3
    <3> QED BY <3>2, <3>3
  <2> QED BY <2>1 DEF StillHonest, Honest
<1>14. Reread'
  <2>1. ASSUME Smooth', past'.foreign, NEW x \in ConduitDbs, Done(x)'
        PROVE  "unflagged" \notin lacks'[x]
    <3>1. CASE x = d
      BY <1>5, <1>12, <2>1, <3>1
    <3>2. CASE x # d
      BY <1>5, <1>6, <1>8, <1>10, <2>1, <3>2 DEF SessionInv, Reread
    <3> QED BY <3>1, <3>2
  <2>2. Smooth' /\ past'.foreign => lastPC' # "this"
    BY <1>3, <1>5, <1>6 DEF SessionInv, Reread
  <2> QED BY <2>1, <2>2 DEF Reread
<1>15. ListBehind' /\ Served'
  BY <1>3, <1>4, <1>7, ListStaysBehind DEF SessionInv, Served
<1>16. LeftOver'
  <2>1. Synced(d) \/ ~Smooth'
    BY <1>3, <1>6 DEF SessionInv, Quiet, Synced
  <2> QED BY <1>3, <1>4, <1>6, <1>b, <1>9, <2>1 DEF SessionInv, LeftOver
<1>17. ASSUME NEW x \in Dbs \ {d}, Covered(x)
       PROVE  Covered(x)'
  BY <1>4, <1>7, <1>9, <1>17 DEF Covered
<1>18. ASSUME Smooth', NEW x \in Dbs \ session'.settings.exclude, Done(x)', x # d
       PROVE  Covered(x)' /\ x \notin session'.unmet
  <2>1. Covered(x) /\ x \notin session.unmet
    BY <1>4, <1>6, <1>10, <1>18 DEF SessionInv, BackedUp
  <2> QED BY <1>4, <1>17, <1>18, <2>1
<1>19. CASE ~WithBackup(d)
  <2>1. files' = files
    BY <1>1, <1>19 DEF Backup, VisitGives
  <2>2. Smooth' => d \in session'.settings.exclude
    BY <1>4, <1>6, <1>19 DEF WithBackup, SessionInv, Quiet
  <2>3. NotOlder' /\ BackedUp'
    BY <1>18, <2>1, <2>2 DEF SessionInv, NotOlder, BackedUp
  <2> QED BY <1>11, <1>13, <1>14, <1>15, <1>16, <2>3 DEF SessionInv
<1>20. CASE WithBackup(d) /\ Skipped(d)
  <2>1. files' = files
    BY <1>1, <1>20 DEF Backup, VisitGives
  <2>2. /\ session.settings.updatedOnly /\ Exists(files[d].file)
        /\ files[d].file.date = session.listed[d]
    BY <1>20 DEF Skipped, Skips
  <2>3. d \notin session'.unmet
    BY <1>4, <1>20
  <2>4. Covered(d)'
    BY <1>4, <2>1, <2>2 DEF Covered, SessionInv, NotOlder
  <2>5. NotOlder' /\ BackedUp'
    BY <1>18, <2>1, <2>3, <2>4 DEF SessionInv, NotOlder, BackedUp
  <2> QED BY <1>11, <1>13, <1>14, <1>15, <1>16, <2>5 DEF SessionInv
<1>21. CASE WithBackup(d) /\ ~Skipped(d)
  <2> DEFINE updatedOnly == session.settings.updatedOnly
             listed == session.listed[d]
             ver == pda'[d].ver
             new == BackUp(files[d], updatedOnly, listed, ver, outcome)
  <2>1. /\ updatedOnly \in BOOLEAN /\ listed \in 0 .. MaxVer
        /\ ver \in 0 .. MaxVer /\ files[d] \in Directory
    BY <1>2, SettingsAssumption DEF Session
  <2>2. files' = [files EXCEPT ![d] = new]
    BY <1>1, <1>21, Zenon DEF Backup, VisitGives
  <2>3. ~Skips(files[d], updatedOnly, listed)
    BY <1>21, Zenon DEF Skipped
  <2>4. new = BackUp(files[d], updatedOnly, listed, ver, outcome)
    OBVIOUS
  <2>5. listed <= ver
    BY <1>4, <1>15, <1>3 DEF ListBehind
  <2>6. ver = pda'[d].ver /\ listed = session'.listed[d]
    BY <1>4
  <2> HIDE DEF updatedOnly, listed, ver, new
  <2>7. IsBackedUp(new, files[d], listed, ver, outcome)
    BY <2>1, <2>3, <2>4, BackUpGives
  <2>8. files'[d] = new
    BY <1>2, <2>2
  <2>9. new.file.whole => new.file.ver >= new.file.date
    <3>1. CASE outcome = "not created"
      <4>1. new.file = Rotate(files[d]).file
        BY <2>7, <3>1 DEF IsBackedUp
      <4>2. new.file = IF NoOfBackups = 0 THEN files[d].file ELSE NoFile
        BY <2>1, <4>1, RotateParts
      <4> QED BY <4>2, FilesAreFiles DEF SessionInv, NotOlder
    <3>2. CASE outcome = "not opened"
      <4>1. new.file = EmptyFile
        BY <2>7, <3>2 DEF IsBackedUp
      <4> QED BY <4>1, FilesAreFiles
    <3>3. CASE outcome \in {"whole", "broken off"}
      <4>1. new.file.ver = ver /\ new.file.date = listed
        BY <2>7, <3>3 DEF IsBackedUp
      <4> QED BY <2>1, <2>5, <4>1
    <3> QED BY <3>1, <3>2, <3>3 DEF Outcomes
  <2>11. outcome = "whole" => new.file.whole /\ new.file.ver = ver
    BY <2>7 DEF IsBackedUp
  <2>12. outcome = "whole" => Covered(d)'
    BY <2>1, <2>5, <2>6, <2>8, <2>11, FilesAreFiles DEF Covered, Exists
  <2>13. d \notin session'.unmet
    BY <1>4, <1>21
  <2>14. NotOlder'
    BY <1>9, <2>8, <2>9 DEF SessionInv, NotOlder
  <2>15. BackedUp'
    BY <1>6, <1>18, <2>12, <2>13 DEF BackedUp
  <2> QED BY <1>11, <1>13, <1>14, <1>15, <1>16, <2>14, <2>15 DEF SessionInv
<1> QED BY <1>19, <1>20, <1>21

LEMMA NextSession == TypeInv /\ TypeInv' /\ SessionInv /\ [Next]_vars => SessionInv'
<1> SUFFICES ASSUME TypeInv, TypeInv', SessionInv, [Next]_vars PROVE SessionInv'
  OBVIOUS
<1>1. CASE UNCHANGED vars
  BY <1>1 DEF vars, desktop, SessionInv, Smooth, Quiet, Served, StillHonest, Honest, Synced, Reread, Done,
              NotOlder, ListBehind, Covered, BackedUp, LeftOver
<1>2. CASE \E d \in Dbs : Visit(d) \/ PassOver(d)
  BY <1>2, VisitSession, PassOverSession
<1>3. CASE Connect \/ Restore \/ EndIteration \/ LoseLink \/ Finish
  BY <1>3, ConnectSession, RestoreSession, EndIterationSession, LoseLinkSession, FinishSession
<1>4. CASE \E d \in ConduitDbs, c \in Configs : Configure(d, c)
  BY <1>4, ConfigureSession
<1>5. CASE \E what \in Requests \cup {"all"} : Iterate(what)
  BY <1>5, IterateSession
<1>6. CASE \/ SyncElsewhere \/ Crash \/ Rest
           \/ \E d \in Dbs : ChangeOnPda(d)
           \/ \E s \in BackupSettings : ConfigureBackup(s)
           \/ \E r \in Requests : Request(r)
  <2>1. phase' = "idle" /\ UNCHANGED files
    BY <1>6 DEF SyncElsewhere, Crash, Rest, ChangeOnPda, ConfigureBackup, Request, desktop
  <2> QED BY <2>1, IdleSession
<1> QED BY <1>1, <1>2, <1>3, <1>4, <1>5, <1>6 DEF Next

LEMMA SessionCorrect == Spec => [](TypeInv /\ SessionInv)
<1>1. Init => TypeInv /\ SessionInv
  BY InitTypes, InitSession
<1>2. TypeInv /\ SessionInv /\ [Next]_vars => (TypeInv /\ SessionInv)'
  BY NextTypes, NextSession
<1> QED BY <1>1, <1>2, PTL DEF Spec

(* The stamp of this computer (write_sync_stamp) may be relied on: after a *)
(* session in which nothing failed, and that was not fast on a foreign     *)
(* stamp, a fast synchronization passes over no change of the PDA in a     *)
(* database that is not marked ExcludeFromSync.                            *)
THEOREM StampIsHonest == Spec => []StampHonest
<1>1. SessionInv => StampHonest
  BY DbsAssumption DEF SessionInv, StillHonest, Reread, Served, Smooth, Done, Honest, StampHonest
<1> QED BY SessionCorrect, <1>1, PTL

(* After such a session a backup of every database that is neither excluded*)
(* by the settings nor marked ExcludeFromSync on the PDA is there, and     *)
(* holds at least what the list showed, and with updated_only off just     *)
(* what the PDA has.                                                       *)
THEOREM BackupsKeepUp == Spec => []BackupNotBehind
<1>1. SessionInv => BackupNotBehind
  BY DEF SessionInv, BackedUp, Served, Smooth, Done, Covered, BackupNotBehind
<1> QED BY SessionCorrect, <1>1, PTL

(* With remove_deleted the backups are then those of the databases the PDA *)
(* has and has not marked: destroy_configuration moves the others away.    *)
THEOREM BackupsMatchPda == Spec => []FilesMatchPda
<1>1. SessionInv => FilesMatchPda
  <2> SUFFICES ASSUME SessionInv, phase = "ended", past.smooth, session.settings.removeDeleted,
                      NEW d \in Dbs \ session.settings.exclude
               PROVE  Exists(files[d].file) <=> Synced(d)
    BY DEF FilesMatchPda
  <2>1. Smooth
    BY DEF Smooth
  <2>2. Synced(d) => Exists(files[d].file)
    BY <2>1 DEF SessionInv, BackedUp, Served, Done, Covered
  <2>3. Exists(files[d].file) => Synced(d)
    BY <2>1 DEF SessionInv, LeftOver
  <2> QED BY <2>2, <2>3
<1> QED BY SessionCorrect, <1>1, PTL
=============================================================================
