CONSTANTS
  a = a
  b = b
  None = None
  Loop = Loop
  Consoles = {a, b}
  Script <- Stopping
  ExternalStop = FALSE
SPECIFICATION Spec
INVARIANT
  NoUncaughtCancel
