----------------------------- MODULE MCSctpPool -----------------------------
(***************************************************************************)
(* A pool of two workers and three connections.                            *)
(***************************************************************************)
EXTENDS SctpPool

CONSTANTS c1, c2, c3, w1, w2

MCConnections == {c1, c2, c3}
MCWorkers == {w1, w2}
=============================================================================
