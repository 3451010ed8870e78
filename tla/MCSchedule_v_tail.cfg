\* Two schedules of one priority on one thread, one of them deleted.
SPECIFICATION Spec
CONSTANTS
  Clients = {c1, c2}
  h1 = h1
  h2 = h2
  h3 = h3
  Handles = {h1, h2}
  ZThr = ZThr
  NoJob = NoJob
  NumPri = 2
  Calls <- SamePriority
  MaxSend = 2
  SemMax = 1
  Atomics = "interlocked"
  Quiesce = TRUE
SYMMETRY Sym
INVARIANTS
  NoAssertFails
CHECK_DEADLOCK FALSE
