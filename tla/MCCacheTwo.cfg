CONSTANTS
 Packages <- MCTwo
 NameOf <- MCDistinct
 Procs = {s1, s2}
 MaxTime = 1
 MaxChanges = 1
 MaxInstalls = 1
 MaxCrashes = 0
 Drops = FALSE
SPECIFICATION FairSpec
PROPERTIES
 DoubledOnlyIfOvertaken
 EventuallyInSync
