CONSTANTS
  a1 = a1
  a2 = a2
  a3 = a3
  b1 = b1
  b2 = b2
  u1 = u1
  u2 = u2
  v1 = v1
  v2 = v2
  Threads = {a1, a2, a3, b1, b2}
  Uuids = {u1, u2, v1, v2}
  Script <- FreshScript
  Count <- FreshCount
  Wrap = 4
SPECIFICATION FairSpec
INVARIANTS
  NodeLifetime
PROPERTY
  ImplementsRendezvous
  AllReturn
