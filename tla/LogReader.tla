----------------------------- MODULE LogReader ------------------------------
(***************************************************************************)
(* What the observer of a sender's deliveries is promised, whatever breaks *)
(* between it and Flow: it follows one history, in order, from a cursor,   *)
(* and whatever lies behind the cursor it may rely on it has been shown.   *)
(***************************************************************************)
EXTENDS Naturals, Sequences

CONSTANT Changes  \* what the history is made of

VARIABLES
  log,     \* the sender's history at Flow; a cursor is a position of it
  from,    \* where the observer began to follow it
  cursor,  \* where it may resume; 0 is the beginning
  shown    \* the positions of the changes it has been shown

vars == <<log, from, cursor, shown>>

\* The observer knows of change i: it was shown it or a later one of the delivery.
Knows(S, i) == \E j \in S : j >= i /\ log[j].delivery = log[i].delivery

Init == log = <<>> /\ from = 0 /\ cursor = 0 /\ shown = {}

Grow ==
  /\ \E change \in Changes : log' = Append(log, change)
  /\ UNCHANGED <<from, cursor, shown>>

\* A Send of the observer's own was taken at position c: it follows from there.
Begin == \E c \in 1 .. Len(log) :
  /\ from' = c /\ cursor' = c /\ shown' = shown \cup {c}
  /\ UNCHANGED log

\* Nothing between the two cursors is skipped.
Advance == \E c \in cursor + 1 .. Len(log), S \in SUBSET (1 .. Len(log)) :
  /\ \A i \in cursor + 1 .. c : Knows(S, i)
  /\ cursor' = c /\ shown' = shown \cup S
  /\ UNCHANGED <<log, from>>

\* The observer has lost its place and reads the whole history again.
Rewind ==
  /\ from' = 0 /\ cursor' = 0
  /\ UNCHANGED <<log, shown>>

Next == Grow \/ Begin \/ Advance \/ Rewind

Spec == Init /\ [][Next]_vars

\* Resuming from the cursor misses nothing: every change between the start and
\* the cursor is known.
NothingMissed == \A i \in from + 1 .. cursor : Knows(shown, i)
=============================================================================
