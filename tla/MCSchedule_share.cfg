\* respondSch and evtSch of the ipc server: a private thread and a share of it,
\* deleted in any order while nobody sends to them.
SPECIFICATION QuietSpec
CONSTANTS
  Clients = {c1, c2}
  h1 = h1
  h2 = h2
  h3 = h3
  Handles = {h1, h2}
  ZThr = ZThr
  NoJob = NoJob
  NumPri = 2
  Calls <- PrivateAndShare
  MaxSend = 2
  SemMax = 1
  Atomics = "interlocked"
  Quiesce = TRUE
SYMMETRY Sym
INVARIANTS
  TypeOK
  JobsServed
  RefCntExact
  TailOK
  RunInOrder
PROPERTIES
  RunAtMostOnce
CHECK_DEADLOCK FALSE
