CONSTANTS
  Dbs = {mail, todo}
  ConduitDbs = {todo}
  Configs <- MCConfigs
  BackupSettings <- MCBackupSettings
  NoOfBackups = 1
  MaxVer = 3
  MaxEvents = 2
  MaxFaults = 1
SPECIFICATION Spec
INVARIANTS
  TypeOK
  StampHonest
  BackupNotBehind
  FilesMatchPda
  FirstSyncOnce
  WholeSurvives
