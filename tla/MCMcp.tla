------------------------------- MODULE MCMcp --------------------------------
(* Objects with nested braces, braces and escaped quotes inside of strings, *)
(* and one message for each kind of answer.                                 *)
EXTENDS Mcp

Msg(t, rpc, m, n, a) == [text |-> t, jsonrpc |-> rpc, method |-> m, id |-> n, arg |-> a]

MCMessages ==
  { Msg(<<"{", "{", "}", "a", "}">>, TRUE, "tools/list", 1, ""),
    Msg(<<"{", "\"", "}", "\"", "b", "}">>, TRUE, "tools/call", 2, "makeAtom"),
    Msg(<<"{", "\"", "\\", "\"", "{", "\"", "c", "}">>, TRUE, "tools/call", 3, "echo"),
    Msg(<<"{", "i", "}">>, TRUE, "tools/call", 7, "nothing"),
    Msg(<<"{", "j", "}">>, TRUE, "resources/read", 8, "bad"),
    Msg(<<"{", "d", "}">>, TRUE, "cancelled", 0, ""),
    Msg(<<"{", "e", "}">>, TRUE, "resources/read", 4, "introduction"),
    Msg(<<"{", "f", "}">>, FALSE, "ping", 5, ""),
    Msg(<<"{", "g", "}">>, TRUE, "initialized", 0, ""),
    Msg(<<"{", "h", "}">>, TRUE, "other", 6, ""),
    Msg(<<"{", "k", "}">>, TRUE, "initialize", 9, "bad") }

MCBlank == <<" ">>
MCFragment == <<"{", "\"", "x">>
=============================================================================
