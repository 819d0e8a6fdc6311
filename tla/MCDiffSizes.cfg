CONSTANTS
 Packages <- MCPackages
 NameOf <- MCNameOf
SPECIFICATION Spec
CHECK_DEADLOCK FALSE
INVARIANT SizesMatch
