CONSTANTS
 Packages <- MCPackages
 NameOf <- MCNameOf
SPECIFICATION Spec
CHECK_DEADLOCK FALSE
INVARIANTS
 AssertionsHoldInOrder
 TodosAreDisjoint
 TodosClearWhatTheyInstall
PROPERTY LeftOverIsReported
