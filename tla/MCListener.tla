----------------------------- MODULE MCListener -----------------------------
(* TLC instances of Listener.                                               *)
EXTENDS Listener, TLC
=============================================================================
