SPECIFICATION FairSpec
CONSTANTS
  UE = {u1, u2, u3}
  NumHarq = 1
  MaxReTx = 1
  MaxSym = 2
  SymChoices = {1, 2}
  Delay = 0
PROPERTIES
  BufferedIsServed
  AbandonedIsFreed
