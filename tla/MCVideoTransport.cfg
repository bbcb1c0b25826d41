SPECIFICATION FairSpec
CONSTANTS
  MaxBatch = 2
  MaxPkt = 2
  MaxFec = 1
  MaxTime = 3
  Ddl = 1
  RtoChoices = {0, 9}
  Dispersions = {0, 1}
  MinRtts = {0, 1}
INVARIANTS
  TypeOK
  NeverForgotten
  HistoryIsIndexed
  CompleteIsDecoded
  TimeoutIsLate
PROPERTIES
  RtxIsUseful
  ImplementsDelivery
  Forgotten
