--------------------------- MODULE MCGenericShell ---------------------------
(* Client sessions for the model checker. *)
EXTENDS GenericShell

\* Work, an error, an interrupt amid work, and both ways out of the shell.
Mixed == {<<<<>>, "wait">>,
          <<<<"expr", "bad", "expr">>, "wait">>,
          <<<<"expr", "intr", "expr">>, "wait">>,
          <<<<"expr", "expr", "dot">>, "wait">>,
          <<<<"telnet", "dot">>, "wait">>,
          <<<<"bad", "dot">>, "wait">>,
          <<<<"expr", "bad", "expr">>, "mcp">>,
          <<<<"expr", "intr", "dot">>, "mcp">>,
          <<<<"expr", "expr">>, "top">>,
          <<<<"expr", "intr">>, "top">>}

\* `top` is started, and the client disconnects.
Top == {<<<<"expr">>, "top">>}
=============================================================================
