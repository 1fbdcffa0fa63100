----------------------------- MODULE MCWaitFor -----------------------------
(* The instances of WaitFor that TLC checks. *)
EXTENDS WaitFor

CONSTANTS a, b, c1, c2

MCChannel == {a, b}
MCClient == {c1, c2}
=============================================================================
