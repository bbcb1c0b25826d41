--------------------------- MODULE MCSlotPipeline ---------------------------
EXTENDS SlotPipeline, TLC
MCConfigs == {
  [tdd |-> <<"F">>, primary |-> TRUE, busy |-> 9 .. 10],
  [tdd |-> <<"DL", "UL", "UL", "S", "DL">>, primary |-> TRUE, busy |-> {8, 12}],
  [tdd |-> <<"DL", "UL", "UL", "S", "DL">>, primary |-> TRUE, busy |-> 11 .. 12],
  [tdd |-> <<"DL", "UL">>, primary |-> FALSE, busy |-> 9 .. 10],
  [tdd |-> <<"F", "UL">>, primary |-> FALSE, busy |-> 9 .. 10],
  [tdd |-> <<"UL">>, primary |-> FALSE, busy |-> {9}],
  [tdd |-> <<"DL">>, primary |-> TRUE, busy |-> 9 .. 10]}
MCSymmetry == Permutations(UE)
=============================================================================
