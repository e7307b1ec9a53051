---------------------------- MODULE MCWebSession ----------------------------
(* Requests of every kind that handle_connection() tells apart, on one     *)
(* connection: with and without a body, upgrades, and the ones it refuses. *)
EXTENDS WebSession

Req(v, u, up, n) == [verb |-> v, url |-> u, upgrade |-> up, body |-> n]

MCRequests ==
  { Req("POST", "shell", FALSE, 1),
    Req("GET", "shell", TRUE, 0), Req("GET", "command", FALSE, 0),
    Req("GET", "command", TRUE, 0), Req("GET", "page", FALSE, 0),
    Req("PUT", "shell", FALSE, 0) }
=============================================================================
