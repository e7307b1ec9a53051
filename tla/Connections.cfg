CONSTANTS
  web = web
  console = console
  s1 = s1
  s2 = s2
  s3 = s3
  None = None
  Listeners = {web, console}
  StopOrder <- MCStopOrder
  Socks = {s1, s2, s3}
  MaxOpen = 1
  HalfOpen = TRUE
  MayStop = TRUE
SPECIFICATION FairSpec
INVARIANTS
  TypeOK
  OpenWithinLimit
  SlotsAccounted
  NoLostWakeup
  RegistryLive
  AllJoinedAtReturn
PROPERTIES
  DeadReleased
  ShutdownReturns
