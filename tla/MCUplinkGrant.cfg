SPECIFICATION Spec
CONSTANTS
  MaxBuf = 2
  DciDelay = 2
  TbDelay = 3
  SrDelay = 2
  BsrPeriod = 5
  MaxReTx = 1
  NumHarq = 3
  Proactive = TRUE
INVARIANTS
  TypeOK
  WaitingIsKnown
