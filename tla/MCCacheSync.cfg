CONSTANTS
 Packages <- MCPackages
 NameOf <- MCNames
 Procs = {s1}
 MaxTime = 2
 MaxChanges = 2
 MaxInstalls = 3
 MaxCrashes = 1
 Drops = TRUE
SPECIFICATION Spec
INVARIANTS
 TypeOK
 OneSyncIsEnough
 SettlesInEnough
 ReinstallsAreFound
