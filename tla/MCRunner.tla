------------------------------ MODULE MCRunner ------------------------------
(* Runner for TLC: a leader and processes it may leave behind.              *)
EXTENDS Runner
CONSTANTS l, p, q
MCProcs == {l, p, q}
=============================================================================
