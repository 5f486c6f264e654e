------------------------------ MODULE MCClient ------------------------------
(***************************************************************************)
(* ClientConnection for TLC: two blocking callers and no main loop, and    *)
(* one blocking caller with two threads that run the main loop.            *)
(***************************************************************************)
EXTENDS ClientConnection

CONSTANTS w1, w2, m1, m2

MCCallers == {w1, w2}
MCLoops == {m1, m2}
MCCasts == {{w1, w2}, {w1, m1, m2}}
=============================================================================
