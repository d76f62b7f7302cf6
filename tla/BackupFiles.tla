---------------------------- MODULE BackupFiles ----------------------------
(***************************************************************************)
(* The files the backup conduit keeps of one database of the PDA           *)
(* (conduits/backup/backup_conduit.c): the backup itself, the directories  *)
(* 0 .. no_of_backups - 1 with the earlier ones, and the directory del.    *)
(*                                                                         *)
(* A file holds a version of the database, whole or broken off, and bears  *)
(* as its time the modification date the database list had given.  Versions*)
(* and dates are numbers that grow with every change of the database.      *)
(***************************************************************************)
EXTENDS Integers

CONSTANTS
  NoOfBackups,  \* the setting no_of_backups
  MaxVer        \* bound on the versions of a database

ASSUME NoOfBackupsAssumption == NoOfBackups \in Nat
ASSUME MaxVerAssumption == MaxVer \in Nat \ {0}

Generations == 0 .. NoOfBackups - 1

Undated == -1   \* the time of a file that utime was not called for

BackupFile == [ver: 0 .. MaxVer, date: {Undated} \cup 0 .. MaxVer, whole: BOOLEAN]
NoFile == [ver |-> 0, date |-> 0, whole |-> FALSE]
EmptyFile == [ver |-> 0, date |-> Undated, whole |-> FALSE]
Exists(file) == file # NoFile

Directory == [file: BackupFile, older: [Generations -> BackupFile], del: BackupFile]
EmptyDirectory == [file |-> NoFile, older |-> [i \in Generations |-> NoFile], del |-> NoFile]

(* What a backup may come to: read to the end, broken off by the link, not *)
(* opened (or not written to the end), or the file could not be created.   *)
Outcomes == {"whole", "broken off", "not opened", "not created"}

-----------------------------------------------------------------------------
(* create_backup_of_backup: from the oldest generation to the newest, each *)
(* file that exists takes the place of the one after it.                   *)
RotateButNewest(dir) ==
  [dir EXCEPT !.older = [i \in Generations |->
                           IF i > 0 /\ Exists(dir.older[i - 1]) THEN dir.older[i - 1]
                           ELSE IF i = NoOfBackups - 1 THEN dir.older[i] ELSE NoFile]]

Rotate(dir) ==
  LET before(i) == IF i = 0 THEN dir.file ELSE dir.older[i - 1]
  IN  [dir EXCEPT
        !.file  = IF NoOfBackups = 0 THEN @ ELSE NoFile,
        !.older = [i \in Generations |->
                     IF Exists(before(i)) THEN before(i)
                     ELSE IF i = NoOfBackups - 1 THEN dir.older[i] ELSE NoFile]]

(* Only changed databases are to be backed up, and the file bears the date *)
(* of the list.                                                            *)
SkipsUndated(dir, updatedOnly, listed) == updatedOnly /\ Exists(dir.file)
Skips(dir, updatedOnly, listed) ==
  updatedOnly /\ Exists(dir.file) /\ dir.file.date = listed

(* The file is written anew and, if it was closed well, given the date of  *)
(* the list: even when reading stopped before the last record.             *)
Written(outcome, listed, ver) ==
  IF outcome = "not opened" THEN EmptyFile
  ELSE [ver |-> ver, date |-> listed, whole |-> outcome = "whole"]

(* gnome_real_pilot_conduit_backup_backup, past exclude_files.             *)
BackUp(dir, updatedOnly, listed, ver, outcome) ==
  IF Skips(dir, updatedOnly, listed) THEN dir
  ELSE IF outcome = "not created" THEN Rotate(dir)
  ELSE [Rotate(dir) EXCEPT !.file = Written(outcome, listed, ver)]

(* destroy_configuration, for a file that is still in files_in_backup.     *)
MoveToDel(dir) ==
  IF Exists(dir.file) THEN [dir EXCEPT !.file = NoFile, !.del = dir.file] ELSE dir

HasWhole(dir) == dir.file.whole \/ \E i \in Generations : dir.older[i].whole
=============================================================================
