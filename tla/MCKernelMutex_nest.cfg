\* Threads that nest locks; a thread may block on itself.
SPECIFICATION FairSpec
CONSTANTS
  Procs = {p1, p2, p3}
  None = None
  MaxDepth = 3
INVARIANTS
  IInv
  MutualExclusion
  CountOfHolder
PROPERTIES
  Implements
  WaitersEnter
CHECK_DEADLOCK FALSE
