SPECIFICATION Spec
CONSTANTS
  Algorithm = {"peterson"}
  Fifo = FALSE
  MaxOps = {0}
  Wrap = 4
INVARIANT CheckHolds
