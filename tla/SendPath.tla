------------------------------ MODULE SendPath ------------------------------
(***************************************************************************)
(* One ordinary Send from the moment a Message worker has read it to the   *)
(* first response it hands back, with the Flow daemon it calls.            *)
(*                                                                         *)
(* A worker (crates/message-nexus/src/service.rs, accept_send) runs a      *)
(* chain of exchanges with Flow, each on a connection of its own:          *)
(*                                                                         *)
(*    identify -> lock -> (lapse check) -> deliver -> release | observe    *)
(*                                                                         *)
(* An exchange may fail before the query left (Unreachable), after it left *)
(* (Broken: time-out, closed connection, or an unexpected frame), or be    *)
(* refused.  A query whose worker has given up stays readable in Flow's    *)
(* socket: Flow may still act on it.  Many workers run at once and share   *)
(* nothing but the stored configuration, which says where Flow is.         *)
(*                                                                         *)
(* Flow is external: its leases and its deliveries are modelled from what  *)
(* the code in src/ asks of them.  A Send's sender is the address Flow     *)
(* identifies its peer process as, fixed here as SenderOf.                 *)
(***************************************************************************)
EXTENDS Naturals, FiniteSets

CONSTANTS
  Sends,        \* the Sends, one connection and one worker thread each
  Flows,        \* Flow daemons a configuration may name
  Addresses,    \* recipients
  Senders,      \* addresses Flow identifies callers as
  SenderOf,     \* [Sends -> Senders], the identity of each Send's peer
  LeaseLength,  \* seconds a lease lasts
  MaxTime,      \* bound on the clock
  None          \* no lease

ASSUME ConstantsAssumption ==
  /\ SenderOf \in [Sends -> Senders]
  /\ LeaseLength \in Nat
  /\ MaxTime \in Nat

Exchanges == {"identify", "lock", "deliver", "release"}
Steps == Exchanges \cup {"idle", "check", "observe", "done", "lost"}

Requests == [abrupt : BOOLEAN, delivery : {"Wake", "Queue"}, recipient : Addresses]

\* A lease has no identity but its fields (signal_flow Lock, as the tests
\* build it): two leases granted to one sender in one second are equal.
Locks == [sender : Senders, address : Addresses, until : Nat]

\* "Foreign" is a refusal outside the Send contract.
Refusals == {"Refused", "Foreign"}
Outcomes == {"SendAccepted", "Sent", "Failed"}
\* The slot a worker reads its answer from; "unsent" and "awaited" are not answers.
Replies == {"unsent", "awaited", "Identified", "Locked", "Released"}
             \cup Outcomes \cup Refusals

Answers == {"none", "StoreRefused", "FlowRefused", "FlowUnreachable", "NotSent",
            "ReceiptUncertain", "QueueNotPermitted", "Failed", "Sent",
            "SendAccepted", "AcceptedUnobserved"}

VARIABLES
  step,        \* step[s]: where s's worker is
  request,     \* request[s]: the Send it read
  edge,        \* edge[s]: the Flow its configuration named when it was read
  lock,        \* lock[s]: the Lock in Flow's Locked reply
  reply,       \* reply[s]: the state of s's current exchange
  answer,      \* answer[s]: the first response, fixed before any release
  wire,        \* queries written and not yet taken by Flow: <<send, exchange>>
  lease,       \* lease[f][a]: [lock, owner] that Flow f holds on a, or None
  accepted,    \* accepted[s]: how many times a Flow took s for delivery
  now,         \* unix seconds
  configured,  \* the Flow the stored configuration names
  disturbed    \* disturbed[s]: some exchange of s failed or was refused, or s lapsed

worker == <<step, reply, answer>>
flow   == <<wire, lease, accepted>>
input  == <<request, edge>>
vars   == <<step, request, edge, lock, reply, answer, wire, lease, accepted,
            now, configured, disturbed>>

TypeOK ==
  /\ step \in [Sends -> Steps]
  /\ request \in [Sends -> Requests]
  /\ edge \in [Sends -> Flows]
  /\ lock \in [Sends -> Locks]
  /\ reply \in [Sends -> Replies]
  /\ answer \in [Sends -> Answers]
  /\ wire \subseteq Sends \X Exchanges
  /\ lease \in [Flows -> [Addresses -> [lock : Locks, owner : Sends] \cup {None}]]
  /\ accepted \in [Sends -> Nat]
  /\ now \in Nat
  /\ configured \in Flows
  /\ disturbed \in [Sends -> BOOLEAN]

\* The lock Flow grants s when its lease runs out at until.
LockOf(s, until) ==
  [sender |-> SenderOf[s], address |-> request[s].recipient, until |-> until]

\* The Sends the clients will make are fixed at the start; edge and lock hold
\* a value of no meaning until the worker assigns them.
Init ==
  /\ step = [s \in Sends |-> "idle"]
  /\ request \in [Sends -> Requests]
  /\ configured \in Flows
  /\ edge = [s \in Sends |-> configured]
  /\ lock = [s \in Sends |-> LockOf(s, 0)]
  /\ reply = [s \in Sends |-> "unsent"]
  /\ answer = [s \in Sends |-> "none"]
  /\ wire = {}
  /\ lease = [f \in Flows |-> [a \in Addresses |-> None]]
  /\ accepted = [s \in Sends |-> 0]
  /\ now = 0
  /\ disturbed = [s \in Sends |-> FALSE]

-----------------------------------------------------------------------------
(* The Message worker.                                                      *)

\* The worker leaves its exchange for step st.
Goto(s, st) ==
  /\ step' = [step EXCEPT ![s] = st]
  /\ reply' = [reply EXCEPT ![s] = "unsent"]

\* Mutants: the failure leaks out unmapped; a begun Deliver is forgotten.
ForSendUnmapped(s, failure, mayHaveStarted) ==
  IF request[s].abrupt /\ failure \notin Refusals THEN "NotSent" ELSE failure

ForSendCertain(s, failure, mayHaveStarted) ==
  IF failure \in Refusals THEN "FlowRefused" ELSE "NotSent"

\* The response a failed exchange becomes; mayHaveStarted: Deliver was called.
ForSend(s, failure, mayHaveStarted) ==
  IF request[s].abrupt
    THEN CASE failure \in Refusals -> "FlowRefused"
           [] failure = "Broken" /\ mayHaveStarted -> "ReceiptUncertain"
           [] OTHER -> "NotSent"
    ELSE IF failure = "Refused" THEN "FlowRefused" ELSE "FlowUnreachable"

\* The first response is fixed and handed to the connection.
Answer(s, response) ==
  /\ answer' = [answer EXCEPT ![s] = response]
  /\ Goto(s, "done")

\* The response is fixed, the lease is given back before it is handed over.
AnswerAfterRelease(s, response) ==
  /\ answer' = [answer EXCEPT ![s] = response]
  /\ Goto(s, "release")

\* A worker has read the Send and asks the store where Flow is, once.
Receive(s) ==
  /\ step[s] = "idle"
  /\ edge' = [edge EXCEPT ![s] = configured]
  /\ \/ /\ Goto(s, "identify")
        /\ UNCHANGED answer
     \/ Answer(s, "StoreRefused")
  /\ UNCHANGED <<request, lock, flow, now, configured, disturbed>>

\* Before its query is written an exchange, or the observation, connects to Flow,
\* which has no time-out: while Flow's backlog is full it does not return.
Connecting(s) == step[s] \in Exchanges \cup {"observe"} /\ reply[s] = "unsent"

\* The exchange's query is written whole on a fresh connection.
WriteQuery(s) ==
  /\ step[s] \in Exchanges /\ reply[s] = "unsent"
  /\ wire' = wire \cup {<<s, step[s]>>}
  /\ reply' = [reply EXCEPT ![s] = "awaited"]
  /\ UNCHANGED <<step, answer, lock, input, lease, accepted, now, configured, disturbed>>

\* Mutant: a broken Deliver is tried again.
OnFailureRetry(s, failure) ==
  /\ step[s] \in {"identify", "lock", "deliver"}
  /\ IF step[s] = "deliver" /\ failure \notin Refusals
       THEN Goto(s, "deliver") /\ UNCHANGED answer
       ELSE Answer(s, ForSend(s, failure, step[s] = "deliver"))
  /\ disturbed' = [disturbed EXCEPT ![s] = TRUE]
  /\ UNCHANGED <<lock, input, flow, now, configured>>

\* What the worker does with a failed exchange.
OnFailure(s, failure) ==
  /\ \/ step[s] \in {"identify", "lock"} /\ Answer(s, ForSend(s, failure, FALSE))
     \/ /\ step[s] = "deliver" /\ failure \notin Refusals
        /\ AnswerAfterRelease(s, ForSend(s, failure, TRUE))
     \/ /\ step[s] = "deliver" /\ failure \in Refusals
        /\ Answer(s, ForSend(s, failure, TRUE))
     \/ step[s] = "release" /\ Goto(s, "done") /\ UNCHANGED answer
     \/ step[s] = "observe" /\ Answer(s, "AcceptedUnobserved")
  /\ disturbed' = [disturbed EXCEPT ![s] = TRUE]
  /\ UNCHANGED <<lock, input, flow, now, configured>>

\* Flow cannot be connected to, or the query was not written whole; Broken when
\* the new connection takes no time-out.
Unreachable(s) ==
  /\ Connecting(s)
  /\ \E failure \in {"Unreachable", "Broken"} : OnFailure(s, failure)

\* Mutant: every Wake Deliver waits without a time-out.
UnboundedWake(s) == step[s] = "deliver" /\ request[s].delivery = "Wake"

\* The one exchange that waits without a time-out: an abrupt Wake Deliver.
Unbounded(s) ==
  step[s] = "deliver" /\ request[s].abrupt /\ request[s].delivery = "Wake"

\* Two seconds passed without an answer.
TimeOut(s) ==
  /\ reply[s] = "awaited"
  /\ ~Unbounded(s)
  /\ OnFailure(s, "Broken")

\* Flow closed the connection, or wrote a frame the exchange does not expect.
Broken(s) ==
  /\ reply[s] = "awaited"
  /\ OnFailure(s, "Broken")

Refused(s) ==
  /\ reply[s] \in Refusals
  /\ OnFailure(s, reply[s])

\* An abrupt Send may not be queued; said only once the caller is identified.
Identified(s) ==
  /\ step[s] = "identify" /\ reply[s] = "Identified"
  /\ IF request[s].abrupt /\ request[s].delivery = "Queue"
       THEN Answer(s, "QueueNotPermitted")
       ELSE Goto(s, "lock") /\ UNCHANGED answer
  /\ UNCHANGED <<lock, input, flow, now, configured, disturbed>>

Locked(s) ==
  /\ step[s] = "lock" /\ reply[s] = "Locked"
  /\ Goto(s, "check")
  /\ UNCHANGED <<answer, lock, input, flow, now, configured, disturbed>>

\* The worker compares its own clock with the lease before it delivers.
CheckLease(s) ==
  /\ step[s] = "check"
  /\ IF now >= lock[s].until
       THEN /\ Answer(s, ForSend(s, "Refused", FALSE))
            /\ disturbed' = [disturbed EXCEPT ![s] = TRUE]
       ELSE /\ Goto(s, "deliver")
            /\ UNCHANGED <<answer, disturbed>>
  /\ UNCHANGED <<lock, input, flow, now, configured>>

\* Mutants: a lease is given back only after a failure; a Soft Send is
\* called accepted before it is observed to be.
DeliveredKeepingLease(s) ==
  /\ step[s] = "deliver" /\ reply[s] \in Outcomes
  /\ CASE reply[s] = "Sent" -> Answer(s, "Sent")
       [] reply[s] = "Failed" -> AnswerAfterRelease(s, "Failed")
       [] OTHER -> Goto(s, "observe") /\ UNCHANGED answer
  /\ UNCHANGED <<lock, input, flow, now, configured, disturbed>>

DeliveredOptimist(s) ==
  /\ step[s] = "deliver" /\ reply[s] \in Outcomes
  /\ IF reply[s] = "Failed" /\ request[s].abrupt
       THEN AnswerAfterRelease(s, "Failed")
       ELSE Goto(s, "observe") /\ UNCHANGED answer
  /\ UNCHANGED <<lock, input, flow, now, configured, disturbed>>

\* SendAccepted for an abrupt Send is not what was asked: its receipt is uncertain.
Delivered(s) ==
  /\ step[s] = "deliver" /\ reply[s] \in Outcomes
  /\ CASE reply[s] = "Sent" -> AnswerAfterRelease(s, "Sent")
       [] reply[s] = "Failed" -> AnswerAfterRelease(s, "Failed")
       [] reply[s] = "SendAccepted" /\ request[s].abrupt ->
            AnswerAfterRelease(s, "ReceiptUncertain")
       [] OTHER -> Goto(s, "observe") /\ UNCHANGED answer
  /\ UNCHANGED <<lock, input, flow, now, configured, disturbed>>

Released(s) ==
  /\ step[s] = "release" /\ reply[s] = "Released"
  /\ Goto(s, "done")
  /\ UNCHANGED <<answer, lock, input, flow, now, configured, disturbed>>

\* ObserveSender is written and its first frame left to the subscription.
OpenSubscription(s) ==
  /\ step[s] = "observe"
  /\ Answer(s, "SendAccepted")
  /\ UNCHANGED <<lock, input, flow, now, configured, disturbed>>

-----------------------------------------------------------------------------
(* Flow.  It answers whoever still waits; a late answer reaches nobody.      *)

Take(s, kind) == <<s, kind>> \in wire /\ wire' = wire \ {<<s, kind>>}

Reply(s, kind, response) ==
  reply' = IF step[s] = kind /\ reply[s] = "awaited"
             THEN [reply EXCEPT ![s] = response] ELSE reply

Holds(s) ==
  LET held == lease[edge[s]][lock[s].address]
  IN  held # None /\ held.lock = lock[s]

Free(s) == lease' = [lease EXCEPT ![edge[s]][lock[s].address] = None]

FlowRefuse(s) == \E kind \in Exchanges, refusal \in Refusals :
  /\ Take(s, kind) /\ Reply(s, kind, refusal)
  /\ UNCHANGED <<step, answer, lock, input, lease, accepted, now, configured, disturbed>>

FlowIdentify(s) ==
  /\ Take(s, "identify") /\ Reply(s, "identify", "Identified")
  /\ UNCHANGED <<step, answer, lock, input, lease, accepted, now, configured, disturbed>>

\* A lease is granted on an address that is free or whose lease has run out.
FlowLock(s) ==
  LET f == edge[s]
      a == request[s].recipient
      granted == LockOf(s, now + LeaseLength)
  IN  /\ Take(s, "lock") /\ Reply(s, "lock", "Locked")
      /\ lease[f][a] # None => now >= lease[f][a].lock.until
      /\ lease' = [lease EXCEPT ![f][a] = [lock |-> granted, owner |-> s]]
      /\ lock' = [lock EXCEPT ![s] = granted]
      /\ UNCHANGED <<step, answer, input, accepted, now, configured, disturbed>>

\* Flow takes the Send for delivery under its lease.  SendAccepted uses the
\* lease up; after Sent and Failed the holder gives it back.
FlowDeliver(s) ==
  /\ Take(s, "deliver")
  /\ Holds(s) /\ now < lock[s].until
  /\ \/ /\ Reply(s, "deliver", "SendAccepted") /\ Free(s)
        /\ accepted' = [accepted EXCEPT ![s] = @ + 1]
     \/ /\ Reply(s, "deliver", "Sent") /\ UNCHANGED lease
        /\ accepted' = [accepted EXCEPT ![s] = @ + 1]
     \/ /\ Reply(s, "deliver", "Failed") /\ UNCHANGED lease
        /\ \/ accepted' = [accepted EXCEPT ![s] = @ + 1]
           \/ UNCHANGED accepted
  /\ UNCHANGED <<step, answer, lock, input, now, configured, disturbed>>

FlowRelease(s) ==
  /\ Take(s, "release") /\ Holds(s)
  /\ Free(s) /\ Reply(s, "release", "Released")
  /\ UNCHANGED <<step, answer, lock, input, accepted, now, configured, disturbed>>

-----------------------------------------------------------------------------
(* The environment.                                                         *)

Tick ==
  /\ now < MaxTime
  /\ now' = now + 1
  /\ UNCHANGED <<worker, lock, input, flow, configured, disturbed>>

\* Another worker stores a configuration that names another Flow.
Configure == \E f \in Flows \ {configured} :
  /\ configured' = f
  /\ UNCHANGED <<worker, lock, input, flow, now, disturbed>>

\* message-nexus is killed: every worker and its connection is gone.  What
\* it wrote to Flow is not.
Crash ==
  LET live == {s \in Sends : step[s] \notin {"idle", "done", "lost"}}
  IN  /\ live # {}
      /\ step' = [s \in Sends |-> IF s \in live THEN "lost" ELSE step[s]]
      /\ reply' = [s \in Sends |-> IF s \in live THEN "unsent" ELSE reply[s]]
      /\ UNCHANGED <<answer, lock, input, flow, now, configured, disturbed>>

WorkerStep(s) ==
  \/ Receive(s) \/ WriteQuery(s) \/ Unreachable(s) \/ TimeOut(s) \/ Broken(s) \/ Refused(s)
  \/ Identified(s) \/ Locked(s) \/ CheckLease(s) \/ Delivered(s) \/ Released(s)
  \/ OpenSubscription(s)

FlowStep(s) ==
  \/ FlowRefuse(s) \/ FlowIdentify(s) \/ FlowLock(s) \/ FlowDeliver(s) \/ FlowRelease(s)

Next ==
  \/ \E s \in Sends : WorkerStep(s) \/ FlowStep(s)
  \/ Tick \/ Configure \/ Crash

Spec == Init /\ [][Next]_vars

\* A started worker keeps running and its time-outs fire; nothing is assumed of
\* Flow, not even that it accepts a connection, of the clients, or of the owner.
WorkerRuns(s) ==
  TimeOut(s) \/ Refused(s) \/ Identified(s) \/ Locked(s) \/ CheckLease(s) \/ Delivered(s)
    \/ Released(s)

FairSpec == Spec /\ \A s \in Sends : WF_vars(WorkerRuns(s))

-----------------------------------------------------------------------------
(* What the Send path promises.                                             *)

Answered(s) == step[s] = "done"

\* Responses that tell the caller nothing was handed over for delivery ...
Denials == {"StoreRefused", "FlowRefused", "NotSent", "QueueNotPermitted"}
\* ... and responses that tell it the Send was.
Confirmations == {"Sent", "SendAccepted", "AcceptedUnobserved"}

\* Flow takes a Send for delivery at most once, whatever times out, breaks,
\* arrives late or crashes: a failed exchange is "never permission to replay
\* a delivery" (flow_edge.rs, exchange; service.rs, accept_send).
AtMostOnce == \A s \in Sends : accepted[s] <= 1

\* The response agrees with what Flow did and can still do: a denied Send was
\* not taken and no Deliver for it is left for Flow to find, a confirmed one
\* was taken (service.rs, accept_send and for_send).
TruthfulAnswer == \A s \in Sends : Answered(s) =>
  /\ answer[s] \in Denials => accepted[s] = 0 /\ <<s, "deliver">> \notin wire
  /\ answer[s] \in Confirmations => accepted[s] = 1

\* A Send none of whose exchanges failed or was refused leaves no lease of its
\* own behind at any Flow, whatever the configuration became meanwhile
\* (accept_send releases after Sent and Failed, and on the edge it began with).
NoLeaseLeft == \A s \in Sends : Answered(s) /\ ~disturbed[s] =>
  \A f \in Flows, a \in Addresses : lease[f][a] # None => lease[f][a].owner # s

\* How far the worker of s is from its end, at most: an exchange whose query was not
\* written, one that awaits its reply, one that has it.
Stage == [st \in Steps |->
  CASE st = "idle" -> 6   [] st = "identify" -> 5  [] st = "lock" -> 4
    [] st = "check" -> 3  [] st = "deliver" -> 2   [] st \in {"release", "observe"} -> 1
    [] OTHER -> 0]

Ahead(s) ==
  3 * Stage[step[s]] + (IF reply[s] = "unsent" THEN 2 ELSE IF reply[s] = "awaited" THEN 1 ELSE 0)

\* No exchange of a Send is ever taken up again, whatever Flow answers late: each
\* query is written once and each of its outcomes leads on (flow_edge.rs, exchange,
\* "never permission to replay a delivery").  So a worker ends in a bounded number
\* of steps, once its exchanges do.
NeverReplays ==
  [][\A s \in Sends :
       (step'[s] = step[s] /\ reply'[s] = reply[s]) \/ Ahead(s)' < Ahead(s)]_vars

\* Its worker is over, or in a connect that never returns.
EndsUnlessConnecting(s) == <>(step[s] \in {"done", "lost"}) \/ <>[]Connecting(s)

\* Every Send a worker started is answered, or its process was killed, even if
\* Flow never answers anything (exchange bounds each read by two seconds), except
\* the one whose Deliver is read without a time-out: short of that only a connect
\* to a Flow that accepts nothing holds a worker for ever (flow_edge.rs:54-55).
BoundedAnswer == \A s \in Sends :
  [](step[s] = "identify" /\ ~(request[s].abrupt /\ request[s].delivery = "Wake")
       => EndsUnlessConnecting(s))

\* The Send path implements its contract: the caller is told a verdict when the
\* worker answers, and a response that is neither a denial nor a confirmation
\* leaves it unsure.
Verdict(s) ==
  CASE ~Answered(s) -> "nothing"
    [] Answered(s) /\ answer[s] \in Denials -> "denied"
    [] Answered(s) /\ answer[s] \in Confirmations -> "confirmed"
    [] OTHER -> "unsure"

told == [s \in Sends |-> Verdict(s)]

Contract == INSTANCE SendContract WITH taken <- accepted, told <- told

\* accept_send keeps the contract of a Send.
KeepsContract == Contract!Spec

-----------------------------------------------------------------------------
(* What the repository says of the Send path and the code does not do.      *)

\* operation.ethos:16, "return the lock after failure": a Send that failed with
\* Flow reachable would not keep its lease.  A refused Deliver returns without
\* Release (service.rs:134-136).
LockReturnedAfterRefusal == \A s \in Sends :
  Answered(s) /\ answer[s] = "FlowRefused" =>
    \A f \in Flows, a \in Addresses :
      lease[f][a] # None /\ lease[f][a].owner = s => now >= lease[f][a].lock.until

\* flow_edge.rs:56, "Bound an unavailable peer so shutdown can join an in-flight
\* handler": every started worker would come to an end, once its connections are
\* made.  An abrupt Wake Deliver waits for ever on a Flow that reads it and stays
\* silent.
EveryWorkerEnds == \A s \in Sends : [](step[s] = "identify" => EndsUnlessConnecting(s))
=============================================================================
