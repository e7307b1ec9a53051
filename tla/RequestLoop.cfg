CONSTANTS
  a = a
  b = b
  None = None
  Loop = Loop
  Consoles = {a, b}
  Script <- BusyShutdown
  ExternalStop = TRUE
CHECK_DEADLOCK FALSE
SPECIFICATION FairSpec
INVARIANTS
  ShellEntered
  RequestsAccounted
PROPERTIES
  ImplementsCommandQueue
  FireAndForget
  StopReturns
