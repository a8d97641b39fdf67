SPECIFICATION Spec
CONSTANTS
  Factors <- MCFactors
  Cuts <- MCCuts
INVARIANTS
  TypeOK
  NumbersKept
  PanicsOnlyOnCut
