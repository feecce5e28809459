------------------------ MODULE ConfigurationRegister ------------------------
(***************************************************************************)
(* What the lifecycle of message-nexus promises, seen from outside: one    *)
(* configuration outlives every process, at most one process serves at a   *)
(* time and runs with the configuration as it was when it began to, and    *)
(* only the process that serves changes it: at anybody's word until the    *)
(* owner has spoken, at the owner's ever after.                            *)
(***************************************************************************)
CONSTANTS
  Processes,
  Configurations,
  Seed,            \* the configuration of the first start
  None

VARIABLES
  value,    \* the configuration that is kept, None before the first start
  word,     \* the last one the owner gave, or None
  running   \* running[p]: the one p serves with, or None

vars == <<value, word, running>>

Init == value = None /\ word = None /\ running = [p \in Processes |-> None]

FirstStart ==
  /\ value = None /\ value' = Seed
  /\ UNCHANGED <<word, running>>

Serve(p) ==
  /\ value # None /\ \A q \in Processes : running[q] = None
  /\ running' = [running EXCEPT ![p] = value]
  /\ UNCHANGED <<value, word>>

Configure(p) ==
  /\ running[p] # None
  /\ value' \in Configurations
  /\ \/ word = None /\ UNCHANGED word
     \/ word' = value'
  /\ UNCHANGED running

\* It has stopped, or it was killed.
Leave(p) ==
  /\ running' = [running EXCEPT ![p] = None]
  /\ UNCHANGED <<value, word>>

Next == FirstStart \/ \E p \in Processes : Serve(p) \/ Configure(p) \/ Leave(p)

Spec == Init /\ [][Next]_vars
=============================================================================
