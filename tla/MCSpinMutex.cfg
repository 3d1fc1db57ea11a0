SPECIFICATION FairSpec
CONSTANTS
  Algorithm = {"peterson", "dekker"}
  Fifo = TRUE
  MaxOps = {0, 2}
  Wrap = 4
INVARIANT MutualExclusion
INVARIANT CheckHolds
PROPERTY WaitEnds
PROPERTY ToldEnds
