CONSTANTS
  Dbs = {mail, todo}
  ConduitDbs = {todo}
  Configs <- MCConfigs
  BackupSettings <- MCBackupSettings
  NoOfBackups = 1
  MaxVer = 2
  MaxEvents = 1
  MaxFaults = 0
SPECIFICATION Spec
PROPERTIES
  RemovedOnlyIfDeleted
