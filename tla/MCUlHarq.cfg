SPECIFICATION Spec
CONSTANTS
  UE = {u1, u2}
  NumHarq = 2
  MaxReTx = 1
  MaxSym = 2
  SymChoices = {1, 2}
  Delay = 1
SYMMETRY MCSymmetry
INVARIANTS
  TypeOK
  UsedSizeExact
  OutstandingIsCurrent
  NoFatal
PROPERTIES
  ImplementsStopAndWait
  NeverOvertaken
  TurnComes
