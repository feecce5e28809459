----------------------------- MODULE MCSendPath -----------------------------
(* TLC instances of SendPath: two Sends of one sender to one recipient, two *)
(* Flow daemons, leases of one second.                                      *)
EXTENDS SendPath, TLC

MCSenderOf == [s \in Sends |-> CHOOSE a \in Senders : TRUE]
Symmetric == Permutations(Sends) \cup Permutations(Flows)
=============================================================================
