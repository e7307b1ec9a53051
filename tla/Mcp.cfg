\* Three objects and fragments in up to two lines of three, or two HTTP requests.  The
\* client may stop at any time, so TLC is not asked for deadlocks.
CONSTANTS
  Transports = {"tcp", "http"}
  Messages <- MCMessages
  Blank <- MCBlank
  Fragment <- MCFragment
  MaxItems = 3
  MaxLines = 2
SPECIFICATION Spec
INVARIANTS SplitExact RepliesRight
CHECK_DEADLOCK FALSE
