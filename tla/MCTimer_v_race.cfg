\* A timer is deleted while the sweep is about to run it.
SPECIFICATION Spec
CONSTANTS
  Clients = {c1}
  Nodes = {n1, n2}
  Keys = {k1}
  Periods = {0}
  Cons = {}
  ConstId = ConstId
  NoCon = NoCon
  Null = Null
  MaxCalls = 2
  DeleteAnywhere = TRUE
INVARIANTS
  NoAssertFails
CHECK_DEADLOCK FALSE
