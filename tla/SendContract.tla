---------------------------- MODULE SendContract ----------------------------
(***************************************************************************)
(* What Message promises about a Send, without saying how: Flow takes it   *)
(* at most once, and the one thing the caller is told about it is true     *)
(* when it is said and stays true.  A "denied" Send is never taken, not    *)
(* even afterwards; a "confirmed" one was taken; told "unsure", the caller *)
(* knows nothing, and a Send whose caller is told nothing may be taken.    *)
(***************************************************************************)
EXTENDS Naturals

CONSTANT Sends

VARIABLES
  taken,  \* taken[s]: how many times Flow took s for delivery
  told    \* told[s]: what its caller was told

Verdicts == {"denied", "confirmed", "unsure"}

Init ==
  /\ taken = [s \in Sends |-> 0]
  /\ told = [s \in Sends |-> "nothing"]

\* Flow takes s for delivery, even after its caller was told "unsure".
Take(s) ==
  /\ taken[s] = 0
  /\ told[s] # "denied"
  /\ taken' = [taken EXCEPT ![s] = 1]
  /\ UNCHANGED told

\* The caller of s gets its one verdict.
Tell(s, verdict) ==
  /\ told[s] = "nothing"
  /\ verdict = "denied" => taken[s] = 0
  /\ verdict = "confirmed" => taken[s] = 1
  /\ told' = [told EXCEPT ![s] = verdict]
  /\ UNCHANGED taken

Next == \E s \in Sends : Take(s) \/ \E verdict \in Verdicts : Tell(s, verdict)

Spec == Init /\ [][Next]_<<taken, told>>
=============================================================================
