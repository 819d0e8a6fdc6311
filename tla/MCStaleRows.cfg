SPECIFICATION Spec
CONSTANTS
  Names <- MCNames
  Files <- MCFiles
  Versions = {1, 2}
  BaseFiles <- MCBaseFiles
  Confs <- MCConfs
  FirstConf <- MCFirstConf
  Ldconfig <- MCLdconfig
  MaxChanges = 1
  MaxCrashes = 0
  AppVersion = "v"
  DirOrder <- MCDirOrder
  MaxLinks = 2
  Starts = {}
  Ignored = {}
INVARIANT AnswersAreFresh
