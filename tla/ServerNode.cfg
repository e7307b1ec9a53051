\* Four messages: two lives of the server, and one command of a client.
CONSTANTS
  MaxCalls = 4
  MaxRequests = 1
SPECIFICATION Spec
INVARIANTS PointersRight NothingLeftAfterStop RunningServes
PROPERTY StopReturns
