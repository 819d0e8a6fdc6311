SPECIFICATION Spec
CONSTANTS
  Names <- MCNames
  Files <- MCFiles
  Versions = {1, 2}
  BaseFiles <- MCBaseFiles
  Confs <- MCConfs
  FirstConf <- MCFirstConf
  Ldconfig <- MCLdconfig
  MaxChanges = 2
  MaxCrashes = 1
  AppVersion = "v"
  DirOrder <- MCDirOrder
  MaxLinks = 2
  Starts = {}
  Ignored = {}
INVARIANTS
  TypeOK
  RowsStaleOnlyIfMoved
  RequirementsAgree
  TreeAgreesWithList
