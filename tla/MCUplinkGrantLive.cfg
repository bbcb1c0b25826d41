SPECIFICATION FairSpec
CONSTANTS
  MaxBuf = 1
  DciDelay = 1
  TbDelay = 2
  SrDelay = 1
  BsrPeriod = 3
  MaxReTx = 1
  NumHarq = 2
  Proactive = FALSE
PROPERTIES
  FullIsServed
  GrantsCease
  SrBringsBsr
