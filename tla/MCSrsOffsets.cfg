SPECIFICATION Spec
CONSTANTS
  UE = {u1, u2, u3, u4, u5}
  StandardPeriodicity <- MCStandardPeriodicity
  StartingPeriodicity = 2
  CounterMod = 11
SYMMETRY MCSymmetry
CHECK_DEADLOCK FALSE
INVARIANTS
  TypeOK
  NoSharedSlot
  NoOffsetLost
  SrsGap
PROPERTIES
  GrowsOnlyWhenFull
