SPECIFICATION MCSpec
CONSTANTS
  Parts = {"container", "buf", "array", "mem", "registry", "shutdown", "netlink", "tlv", "parse"}
  ConMax = 5
  IdMod = 32
  NBufs = 3
  Pids = {"p1", "p2"}
  Nobody = Nobody
  SchCap = 2
  RespCap = 1
  EvtCap = 1
  Sends <- MCSends
  MaxMsgs <- MCMaxMsgs
  MaxFires = 1
  Threads = {"t1", "t2"}
  Ptrs = {1, 2, 3, 4}
  MaxSize = 2
  Shrink = FALSE
  Vals = {7, 8}
  Junk = Junk
  FirstSizes = {0, 2}
  Steps = {0, 2}
  MaxLen = 4
  Names = {"n1", "n2", "n3", "n4"}
  Comps = {"c1", "c2", "c3", "c4", "c5"}
  None = None
  NameOf <- MCNameOf
  KeyOf <- MCKeyOf
  Byte = {1, 2}
  Wrong = Wrong
  W = 4
  Chunks <- MCChunks
  Asked = {0, 1, 2, 15}
  InitLen = 3
  MaxBytes = 6
  NThrs = 3
INVARIANTS FailsOnlyWhenFull HeapSound TlvRoundTrip ParseVerdict ShutdownTellsAll 
PROPERTIES NewReturns BufIsStream RegistryIsMap
CHECK_DEADLOCK FALSE
