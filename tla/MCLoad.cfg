CONSTANTS
 MaxLinks = 3
 Starts <- MCStarts
 Ignored <- MCIgnored
 AdmDir <- MCAdmDir
 BinDirs <- MCBinDirs
 LdDirs <- MCLdDirs
 DotNew <- MCDotNew
 MaxRemovals = 1
 MaxListed = 2
SPECIFICATION Spec
INVARIANTS PkgTypeOK NothingMissed WalkFindsEach ThrowsOnlyIfRemoved ReadWhole PathsAreTheLinkers
PROPERTY LoadEnds
