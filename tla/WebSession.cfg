\* Two requests, two frames, one half_ping(): a kept-alive connection with and
\* without an upgrade.  The connection ends, so TLC is not asked for deadlocks.
CONSTANTS
  Requests <- MCRequests
  MaxRequests = 2
  Frames = {"text", "ping", "pong", "close"}
  MaxFrames = 2
  MaxHalfPings = 1
SPECIFICATION Spec
INVARIANTS DeliveredExact WireWellFormed
PROPERTIES RequestDelivered PingAnswered SocketDeleted
CHECK_DEADLOCK FALSE
