--------------------------- MODULE MCConnections ---------------------------
(* A small instance of Connections for TLC: more listeners than slots. *)
EXTENDS Connections

CONSTANTS web, console,   \* two servers that share the SocketManager
          s1, s2, s3      \* at most MaxOpen + |Listeners| objects exist at once

\* serverLoop() stops the web server before the console server.
MCStopOrder == <<web, console>>
=============================================================================
