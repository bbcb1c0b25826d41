SPECIFICATION Spec
CONSTANTS
  UE = {u1, u2}
  NumHarq = 3
  MaxReTx = 3
  MaxSym = 2
  SymChoices = {1, 2}
  Delay = 1
INVARIANTS
  NackIsQueued
