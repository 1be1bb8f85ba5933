SPECIFICATION Spec
CONSTANTS
  c1 = c1
  c2 = c2
  x1 = x1
  x2 = x2
  x3 = x3
  q1 = q1
  q2 = q2
  q3 = q3
  b1 = b1
  b2 = b2
  kq = kq
  kp = kp
  kr = kr
  Owner = Owner
  Nil = Nil
  Clients = {c1, c2}
  Fctxs = {x1, x2, x3}
  Queries = {q1, q2, q3}
  Buckets = {b1, b2}
  Keys = {kq, kp, kr}
  BucketOf <- MCBucketOf
  DSKeys = {kq}
  Parent <- MCParent
  Zspill = 2
  MaxAddrs = 2
  MaxRestarts = 3
  Scenarios <- Waiting
INVARIANTS
  AddressesHeeded
CHECK_DEADLOCK FALSE
