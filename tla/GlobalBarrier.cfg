CONSTANTS
  a = a
  b = b
  c = c
  None = None
  Socks = {a, b, c}
  Script <- SyncThenBar
SPECIFICATION FairSpec
INVARIANTS
  QueuesDrained
  HoldInv
  HeldBack
PROPERTY
  EverythingRuns
