SPECIFICATION Spec
CONSTANTS
  Configs <- MCConfigs
  UE = {u1, u2}
  N2 = 1
  Sym = 4
  SrsSym = 1
  SrsTypes = {"F", "UL"}
  FixedMcsUl = FALSE
  KeepSym = 0
  Broadcast = {0, 5, 10}
  FirstUe = 6
  MaxSlot = 12
  LastUe = 7
  Ahead = 6
SYMMETRY MCSymmetry
CHECK_DEADLOCK FALSE
INVARIANTS
  TypeOK
  NoOverlap
  Counted
  UeAgrees
  CqiFindsAllocation
  DciOnce
  NoMessageLeft
