--------------------------- MODULE MCRequestLoop ---------------------------
(* Small instances of RequestLoop for TLC. *)
EXTENDS RequestLoop

CONSTANTS a, b

\* One client gives a command and an expression, and goes on in the shell;
\* another sends a blank line, asks to exit and sends the shutdown command all
\* the same.
BusyShutdown ==
  [c \in Consoles |-> IF c = a THEN <<"cmd", "expr", "cmd">>
                      ELSE <<"none", "exit", "shutdown">>]

\* One client sends a command, another the shutdown command.
Stopping == [c \in Consoles |-> IF c = a THEN <<"cmd">> ELSE <<"shutdown">>]
=============================================================================
