-------------------------- MODULE MCNexusLifecycle --------------------------
(* TLC instances of NexusLifecycle; liveness is checked, so no symmetry.     *)
EXTENDS NexusLifecycle
=============================================================================
