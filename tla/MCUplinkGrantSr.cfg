SPECIFICATION FairSpec
CONSTANTS
  MaxBuf = 1
  DciDelay = 2
  TbDelay = 5
  SrDelay = 2
  BsrPeriod = 10
  MaxReTx = 0
  NumHarq = 2
  Proactive = FALSE
PROPERTIES
  SrBringsBsr
