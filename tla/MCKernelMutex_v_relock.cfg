\* The recursion test of test_ptzcrt.c with a second thread about, lock and unlock only.
SPECIFICATION LockOnlySpec
CONSTANTS
  Procs = {p1, p2}
  None = None
  MaxDepth = 2
INVARIANTS
  RelockNeverBlocks
CHECK_DEADLOCK FALSE
