CONSTANTS
  r1 = r1
  r2 = r2
  Entries <- MCEntries
  Shared = shared
  MaxRequests = 2
  SocksQuota = 0
  PoolSocks = 0
  MaxBuffers <- MCMaxBuffers
  MaxItems = 1
  Resends = 1
  MaxUpsets = 2
  Blocks = {"tcp", "udp"}
  CreateKinds = {"tcp", "udp", "ex"}
SYMMETRY Symmetry
SPECIFICATION Spec
INVARIANTS DispatchInsists DestroyInsists FailureHeard
PROPERTY ImplementsRequests
\* Every request comes to its end.
CHECK_DEADLOCK FALSE
