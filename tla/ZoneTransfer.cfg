CONSTANTS
  z1 = z1
  z2 = z2
  m1 = m1
  m2 = m2
  c1 = c1
  c2 = c2
  Zones <- MCZones
  Masters <- MCMasters
  Ctxs <- MCCtxs
  PerTic = 2
  Chunks = {2, 9}
  TransfersIn = 1
  PerNs = 1
  MaxSerial = 3
  AltZones = {z1}
  IxfrZones = {z1}
  RawZones = {z2}
  Scenarios <- MCScenarios
SPECIFICATION Spec
INVARIANTS IrefsExact ZoneInsists RefreshOne QuotaExact DBWhole
PROPERTY FailureTriesNext
CHECK_DEADLOCK FALSE
