SPECIFICATION MCSpec
CONSTANTS
  me = me
  other = other
  Procs <- MCProcs
  Me = me
  AppVersion <- MCAppVersion
  DirOrder <- MCDirOrder
  MaxLinks = 2
  Starts <- MCStarts
  Ignored = {}
  Size = 3
  Lists <- MCLists
  DotNew <- MCDotNew
  Piece = 2
  Loggers <- MCLoggers
  LdLines <- MCNone
  LdPath <- MCNone
  StackLimit = 7
  AdmDir <- MCAdmDir
  FullNames <- MCFullNames
  BinDirs <- MCBinDirs
  LdDirs <- MCLdDirs
  BadFiles <- MCBadFiles
  DefaultDb <- MCDefaultDb
  Ldd <- MCLdd
  Removable <- MCRemovable
  MaxRemovals = 1
INVARIANTS
  LookupComplete
  TreeIsComplete
  ZeroMeansAnswered
PROPERTIES
  CompatibleRemovedOnlyIfOvertaken
  RunEnds
