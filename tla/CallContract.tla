---------------------------- MODULE CallContract ----------------------------
(***************************************************************************)
(* What the MCP adapter promises about a request id, without saying how:   *)
(* it is refused for good or admitted once; while its call runs it writes  *)
(* at most one query to Message; a refusal, or the end of the call, comes  *)
(* once, with one final response if the client is still there to take it,  *)
(* and nothing is written for it afterwards.                               *)
(***************************************************************************)
EXTENDS Naturals

CONSTANT Calls

VARIABLES
  fate,      \* fate[c]: "fresh", "refused", "running", "ended"
  queries,   \* queries[c]: queries written to Message
  finals,    \* finals[c]: final responses written to the client
  connected  \* the client is there

vars == <<fate, queries, finals, connected>>

Init ==
  /\ fate = [c \in Calls |-> "fresh"]
  /\ queries = [c \in Calls |-> 0]
  /\ finals = [c \in Calls |-> 0]
  /\ connected = TRUE

\* The one final response, unless nobody is there to take it.
Respond(c) ==
  \/ finals' = [finals EXCEPT ![c] = 1]
  \/ ~connected /\ UNCHANGED finals

\* An id is spent, whether its call is refused ...
Refuse(c) ==
  /\ fate[c] = "fresh"
  /\ fate' = [fate EXCEPT ![c] = "refused"]
  /\ Respond(c)
  /\ UNCHANGED <<queries, connected>>

\* ... or admitted.
Admit(c) ==
  /\ fate[c] = "fresh"
  /\ fate' = [fate EXCEPT ![c] = "running"]
  /\ UNCHANGED <<queries, finals, connected>>

Query(c) ==
  /\ fate[c] = "running" /\ queries[c] = 0
  /\ queries' = [queries EXCEPT ![c] = 1]
  /\ UNCHANGED <<fate, finals, connected>>

End(c) ==
  /\ fate[c] = "running"
  /\ fate' = [fate EXCEPT ![c] = "ended"]
  /\ Respond(c)
  /\ UNCHANGED <<queries, connected>>

Disconnect ==
  /\ connected' = FALSE
  /\ UNCHANGED <<fate, queries, finals>>

Next == Disconnect \/ \E c \in Calls : Refuse(c) \/ Admit(c) \/ Query(c) \/ End(c)

Spec == Init /\ [][Next]_vars
=============================================================================
