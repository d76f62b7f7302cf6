--------------------------- MODULE MCSyncSession ---------------------------
EXTENDS SyncSession

MCConfigs ==
  {[type |-> "Synchronize", first |-> "NotSet", slow |-> FALSE],
   [type |-> "Synchronize", first |-> "CopyFromPilot", slow |-> FALSE],
   [type |-> "MergeFromPilot", first |-> "Synchronize", slow |-> TRUE],
   [type |-> "MergeToPilot", first |-> "CopyToPilot", slow |-> FALSE]}
MCBackupSettings ==
  {[updatedOnly |-> TRUE, removeDeleted |-> TRUE, exclude |-> {}],
   [updatedOnly |-> FALSE, removeDeleted |-> FALSE, exclude |-> Dbs \ ConduitDbs]}
=============================================================================
