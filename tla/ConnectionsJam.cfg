CONSTANTS
  web = web
  console = console
  s1 = s1
  s2 = s2
  s3 = s3
  None = None
  Listeners = {web, console}
  StopOrder <- MCStopOrder
  Socks = {s1, s2, s3}
  MaxOpen = 1
  HalfOpen = FALSE
  MayStop = FALSE
CHECK_DEADLOCK FALSE
SPECIFICATION FairSpec
PROPERTIES
  NoJam
