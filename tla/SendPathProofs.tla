--------------------------- MODULE SendPathProofs ---------------------------
(***************************************************************************)
(* Proofs about SendPath, for any number of Sends, Flows, recipients and   *)
(* senders, any lease length and any bound on the clock.                   *)
(***************************************************************************)
EXTENDS SendPath, TLAPS

(***************************************************************************)
(* Types.                                                                  *)
(***************************************************************************)

\* The response to a failed exchange is one of the Answers (service.rs, for_send).
LEMMA ForSendType ==
  ASSUME NEW s, NEW failure, NEW started
  PROVE  ForSend(s, failure, started)
           \in {"FlowRefused", "FlowUnreachable", "NotSent", "ReceiptUncertain"}
BY DEF ForSend

\* The lock Flow grants is a Lock.
LEMMA LockOfType ==
  ASSUME TypeOK, NEW s \in Sends, NEW until \in Nat
  PROVE  LockOf(s, until) \in Locks
BY ConstantsAssumption DEF TypeOK, LockOf, Locks, Requests

LEMMA InitTypeOK == Init => TypeOK
<1> SUFFICES ASSUME Init PROVE TypeOK
  OBVIOUS
<1>1. lock \in [Sends -> Locks]
  BY ConstantsAssumption DEF Init, LockOf, Locks, Requests
<1> QED
  BY <1>1 DEF Init, TypeOK, Steps, Replies, Answers, Exchanges

\* A failed exchange leaves the worker in a proper state.
LEMMA FailureType ==
  ASSUME TypeOK, NEW s \in Sends, NEW failure, OnFailure(s, failure)
  PROVE  TypeOK'
<1>1. ForSend(s, failure, TRUE) \in Answers /\ ForSend(s, failure, FALSE) \in Answers
  BY ForSendType DEF Answers
<1>2. answer' \in [Sends -> Answers]
  BY <1>1 DEF OnFailure, Answer, AnswerAfterRelease, TypeOK, Answers
<1>3. step' \in [Sends -> Steps] /\ reply' \in [Sends -> Replies]
  BY DEF OnFailure, Answer, AnswerAfterRelease, Goto, TypeOK, Steps, Exchanges, Replies
<1> QED
  BY <1>2, <1>3 DEF OnFailure, TypeOK, input, flow

LEMMA WorkerType ==
  ASSUME TypeOK, NEW s \in Sends, WorkerStep(s)
  PROVE  TypeOK'
<1> USE DEF TypeOK, Goto, Answer, AnswerAfterRelease, input, flow
<1>1. CASE Receive(s)
  BY <1>1 DEF Receive, Steps, Exchanges, Replies, Answers
<1>2. CASE WriteQuery(s)
  BY <1>2 DEF WriteQuery, Replies
<1>3. CASE Unreachable(s)
  BY <1>3, FailureType DEF Unreachable, Connecting
<1>4. CASE TimeOut(s)
  BY <1>4, FailureType DEF TimeOut
<1>5. CASE Broken(s)
  BY <1>5, FailureType DEF Broken
<1>6. CASE Refused(s)
  BY <1>6, FailureType DEF Refused
<1>7. CASE Identified(s)
  BY <1>7 DEF Identified, Steps, Exchanges, Replies, Answers
<1>8. CASE Locked(s)
  BY <1>8 DEF Locked, Steps, Replies
<1>9. CASE CheckLease(s)
  <2>1. ForSend(s, "Refused", FALSE) \in Answers
    BY ForSendType DEF Answers
  <2>2. PICK st \in {"done", "deliver"} : Goto(s, st)
    BY <1>9 DEF CheckLease
  <2>3. answer' \in [Sends -> Answers] /\ disturbed' \in [Sends -> BOOLEAN]
    BY <1>9, <2>1 DEF CheckLease
  <2> QED
    BY <1>9, <2>2, <2>3 DEF CheckLease, Steps, Exchanges, Replies
<1>10. CASE Delivered(s)
  <2>1. PICK st \in {"release", "observe"} : Goto(s, st)
    BY <1>10 DEF Delivered
  <2>2. answer' \in [Sends -> Answers]
    BY <1>10 DEF Delivered, Answers
  <2> QED
    BY <1>10, <2>1, <2>2 DEF Delivered, Steps, Exchanges, Replies
<1>11. CASE Released(s)
  BY <1>11 DEF Released, Steps, Replies
<1>12. CASE OpenSubscription(s)
  BY <1>12 DEF OpenSubscription, Steps, Replies, Answers
<1> QED
  BY <1>1, <1>2, <1>3, <1>4, <1>5, <1>6, <1>7, <1>8, <1>9, <1>10, <1>11, <1>12
  DEF WorkerStep

LEMMA FlowType ==
  ASSUME TypeOK, NEW s \in Sends, FlowStep(s)
  PROVE  TypeOK'
<1>0. /\ request[s].recipient \in Addresses /\ edge[s] \in Flows
      /\ lock[s].address \in Addresses
  BY DEF TypeOK, Requests, Locks
<1> USE DEF TypeOK, Take, Reply, input
<1>1. CASE FlowRefuse(s)
  BY <1>1 DEF FlowRefuse, Replies, Refusals
<1>2. CASE FlowIdentify(s)
  BY <1>2 DEF FlowIdentify, Replies
<1>3. CASE FlowLock(s)
  <2> DEFINE granted == LockOf(s, now + LeaseLength)
  <2>1. granted \in Locks
    BY LockOfType, ConstantsAssumption
  <2> HIDE DEF granted
  <2>2. /\ lease' = [lease EXCEPT ![edge[s]][request[s].recipient] =
                                    [lock |-> granted, owner |-> s]]
        /\ lock' = [lock EXCEPT ![s] = granted]
    BY <1>3 DEF FlowLock, granted
  <2>3. lease' \in [Flows -> [Addresses -> [lock : Locks, owner : Sends] \cup {None}]]
    BY <1>0, <2>1, <2>2
  <2>4. lock' \in [Sends -> Locks]
    BY <2>1, <2>2
  <2> QED
    BY <1>3, <2>3, <2>4 DEF FlowLock, Replies, Exchanges
<1>4. CASE FlowDeliver(s)
  <2>1. lease' \in [Flows -> [Addresses -> [lock : Locks, owner : Sends] \cup {None}]]
    <3>1. CASE UNCHANGED lease
      BY <3>1
    <3>2. CASE Free(s)
      BY <1>0, <3>2 DEF Free
    <3> QED
      BY <1>4, <3>1, <3>2 DEF FlowDeliver
  <2>2. accepted' \in [Sends -> Nat]
    <3>1. \/ accepted' = [accepted EXCEPT ![s] = accepted[s] + 1]
          \/ accepted' = accepted
      BY <1>4 DEF FlowDeliver
    <3>2. accepted[s] + 1 \in Nat
      OBVIOUS
    <3> QED
      BY <3>1, <3>2
  <2>3. reply' \in [Sends -> Replies]
    BY <1>4 DEF FlowDeliver, Replies, Outcomes
  <2> QED
    BY <1>4, <2>1, <2>2, <2>3 DEF FlowDeliver
<1>5. CASE FlowRelease(s)
  BY <1>0, <1>5 DEF FlowRelease, Free, Replies
<1> QED
  BY <1>1, <1>2, <1>3, <1>4, <1>5 DEF FlowStep

LEMMA NextTypeOK == TypeOK /\ [Next]_vars => TypeOK'
<1> SUFFICES ASSUME TypeOK, [Next]_vars PROVE TypeOK'
  OBVIOUS
<1>1. CASE Tick
  BY <1>1 DEF Tick, TypeOK, worker, input, flow
<1>2. CASE Configure
  BY <1>2 DEF Configure, TypeOK, worker, input, flow
<1>3. CASE Crash
  BY <1>3 DEF Crash, TypeOK, input, flow, Steps, Replies
<1>4. CASE UNCHANGED vars
  BY <1>4 DEF vars, TypeOK
<1> QED
  BY <1>1, <1>2, <1>3, <1>4, WorkerType, FlowType DEF Next

\* Every variable keeps its type, for every value of the constants.
THEOREM TypeCorrect == Spec => []TypeOK
BY InitTypeOK, NextTypeOK, PTL DEF Spec

(***************************************************************************)
(* The truth of answers.  A Deliver is unspent while it is on the wire;    *)
(* until it is written nothing can have been taken; once it has been, the  *)
(* reply the worker reads says what Flow did.                              *)
(***************************************************************************)
Untaken(s) == accepted[s] = 0 /\ <<s, "deliver">> \notin wire

\* The worker has not written its Deliver, or Flow refused it.
NotBegun(s) ==
  \/ step[s] \in {"idle", "identify", "lock", "check"}
  \/ step[s] = "deliver" /\ reply[s] \in {"unsent"} \cup Refusals

\* Flow told the worker that it took the Send.
KnownTaken(s) ==
  \/ step[s] = "observe"
  \/ step[s] = "deliver" /\ reply[s] \in {"Sent", "SendAccepted"}

Truth(s) ==
  /\ accepted[s] = 0 \/ accepted[s] = 1
  /\ <<s, "deliver">> \in wire => accepted[s] = 0
  /\ NotBegun(s) => Untaken(s)
  /\ KnownTaken(s) => accepted[s] = 1
  /\ step[s] \notin {"release", "done", "lost"} => answer[s] = "none"
  /\ answer[s] \in Denials => Untaken(s)
  /\ answer[s] \in Confirmations => accepted[s] = 1

TruthInv == TypeOK /\ \A s \in Sends : Truth(s)

\* A Send none of whose variables changes keeps its Truth.
LEMMA TruthFrame ==
  ASSUME NEW t \in Sends, Truth(t),
         step'[t] = step[t], reply'[t] = reply[t], answer'[t] = answer[t],
         accepted'[t] = accepted[t],
         <<t, "deliver">> \in wire' <=> <<t, "deliver">> \in wire
  PROVE  Truth(t)'
BY DEF Truth, Untaken, NotBegun, KnownTaken

\* The response to a failure never denies a Send whose Deliver may be running,
\* and never confirms one (service.rs, for_send).
LEMMA ForSendTruth ==
  ASSUME NEW s, NEW failure, NEW started
  PROVE  /\ ForSend(s, failure, started) \notin Confirmations
         /\ failure = "Broken" /\ started = TRUE => ForSend(s, failure, started) \notin Denials
BY DEF ForSend, Denials, Confirmations, Refusals

\* A failed exchange keeps the Truth of its Send: Unreachable and refusals are
\* met with nothing begun, and Broken is answered with what is unknown.
LEMMA FailureTruth ==
  ASSUME TypeOK, NEW s \in Sends, Truth(s), NEW failure, OnFailure(s, failure),
         failure # "Broken" /\ step[s] = "deliver" => NotBegun(s)
  PROVE  Truth(s)'
<1> USE DEF OnFailure, Goto, Answer, AnswerAfterRelease, flow, TypeOK
<1>1. CASE step[s] \in {"identify", "lock"}
  <2>1. step'[s] = "done" /\ answer'[s] = ForSend(s, failure, FALSE)
    BY <1>1
  <2>2. Untaken(s)'
    BY <1>1 DEF Truth, NotBegun, Untaken
  <2>3. ForSend(s, failure, FALSE) \notin Confirmations
    BY ForSendTruth
  <2> QED
    BY <2>1, <2>2, <2>3 DEF Truth, NotBegun, KnownTaken, Untaken
<1>2. CASE step[s] = "deliver"
  <2>1. step'[s] \in {"release", "done"} /\ answer'[s] = ForSend(s, failure, TRUE)
    BY <1>2
  <2>2. failure # "Broken" => Untaken(s)'
    BY <1>2 DEF Truth, Untaken
  <2>3. /\ ForSend(s, failure, TRUE) \notin Confirmations
        /\ failure = "Broken" => ForSend(s, failure, TRUE) \notin Denials
    BY ForSendTruth
  <2> QED
    BY <2>1, <2>2, <2>3 DEF Truth, NotBegun, KnownTaken, Untaken
<1>3. CASE step[s] = "release"
  BY <1>3 DEF Truth, NotBegun, KnownTaken, Untaken
<1>4. CASE step[s] = "observe"
  BY <1>4 DEF Truth, NotBegun, KnownTaken, Untaken, Denials, Confirmations
<1> QED
  BY <1>1, <1>2, <1>3, <1>4

\* A worker touches no variable of another Send.
LEMMA WorkerFrame ==
  ASSUME TypeOK, NEW s \in Sends, WorkerStep(s), NEW t \in Sends, t # s
  PROVE  /\ step'[t] = step[t] /\ reply'[t] = reply[t] /\ answer'[t] = answer[t]
         /\ accepted'[t] = accepted[t]
         /\ <<t, "deliver">> \in wire' <=> <<t, "deliver">> \in wire
BY DEF WorkerStep, Receive, WriteQuery, Unreachable, Connecting, TimeOut, Broken, Refused,
       Identified, Locked, CheckLease, Delivered, Released, OpenSubscription, OnFailure, Goto, Answer,
       AnswerAfterRelease, TypeOK, flow, input

LEMMA WorkerTruth ==
  ASSUME TypeOK, NEW s \in Sends, Truth(s), WorkerStep(s)
  PROVE  Truth(s)'
<1> USE DEF Goto, Answer, AnswerAfterRelease, flow, input, TypeOK, Truth, Untaken, NotBegun,
            KnownTaken
<1>1. CASE Receive(s)
  BY <1>1 DEF Receive, Denials, Confirmations
<1>2. CASE WriteQuery(s)
  BY <1>2 DEF WriteQuery, Exchanges, Denials, Confirmations, Refusals
<1>3. CASE Unreachable(s)
  BY <1>3, FailureTruth DEF Unreachable, Connecting
<1>4. CASE TimeOut(s)
  BY <1>4, FailureTruth DEF TimeOut
<1>5. CASE Broken(s)
  BY <1>5, FailureTruth DEF Broken
<1>6. CASE Refused(s)
  BY <1>6, FailureTruth DEF Refused
<1>7. CASE Identified(s)
  BY <1>7 DEF Identified, Denials, Confirmations
<1>8. CASE Locked(s)
  BY <1>8 DEF Locked, Denials, Confirmations
<1>9. CASE CheckLease(s)
  <2>1. ForSend(s, "Refused", FALSE) \notin Confirmations
    BY ForSendTruth
  <2>2. CASE now >= lock[s].until
    BY <1>9, <2>1, <2>2 DEF CheckLease
  <2>3. CASE ~(now >= lock[s].until)
    BY <1>9, <2>3 DEF CheckLease, Denials, Confirmations
  <2> QED
    BY <2>2, <2>3
<1>10. CASE Delivered(s)
  BY <1>10 DEF Delivered, Outcomes, Denials, Confirmations
<1>11. CASE Released(s)
  BY <1>11 DEF Released
<1>12. CASE OpenSubscription(s)
  BY <1>12 DEF OpenSubscription, Denials, Confirmations
<1> QED
  BY <1>1, <1>2, <1>3, <1>4, <1>5, <1>6, <1>7, <1>8, <1>9, <1>10, <1>11, <1>12
  DEF WorkerStep

\* Flow touches no variable of another Send that its Truth speaks of.
LEMMA FlowFrame ==
  ASSUME TypeOK, NEW s \in Sends, FlowStep(s), NEW t \in Sends, t # s
  PROVE  /\ step'[t] = step[t] /\ reply'[t] = reply[t] /\ answer'[t] = answer[t]
         /\ accepted'[t] = accepted[t]
         /\ <<t, "deliver">> \in wire' <=> <<t, "deliver">> \in wire
BY DEF FlowStep, FlowRefuse, FlowIdentify, FlowLock, FlowDeliver, FlowRelease, Take, Reply,
       TypeOK, input

LEMMA FlowTruth ==
  ASSUME TypeOK, NEW s \in Sends, Truth(s), FlowStep(s)
  PROVE  Truth(s)'
<1> USE DEF Take, Reply, TypeOK, Truth, Untaken, NotBegun, KnownTaken, Refusals
<1>1. CASE FlowRefuse(s)
  BY <1>1 DEF FlowRefuse
<1>2. CASE FlowIdentify(s)
  BY <1>2 DEF FlowIdentify
<1>3. CASE FlowLock(s)
  BY <1>3 DEF FlowLock
<1>4. CASE FlowDeliver(s)
  BY <1>4 DEF FlowDeliver
<1>5. CASE FlowRelease(s)
  BY <1>5 DEF FlowRelease
<1> QED
  BY <1>1, <1>2, <1>3, <1>4, <1>5 DEF FlowStep

LEMMA InitTruth == Init => TruthInv
BY InitTypeOK DEF Init, TruthInv, Truth, Untaken, NotBegun, KnownTaken, Denials, Confirmations

LEMMA NextTruth == TruthInv /\ [Next]_vars => TruthInv'
<1> SUFFICES ASSUME TruthInv, [Next]_vars PROVE TruthInv'
  OBVIOUS
<1>0. TypeOK /\ TypeOK'
  BY NextTypeOK DEF TruthInv
<1> SUFFICES ASSUME NEW t \in Sends PROVE Truth(t)'
  BY <1>0 DEF TruthInv
<1>1. Truth(t)
  BY DEF TruthInv
<1>2. ASSUME NEW s \in Sends, WorkerStep(s) PROVE Truth(t)'
  BY <1>0, <1>1, <1>2, WorkerTruth, WorkerFrame, TruthFrame
<1>3. ASSUME NEW s \in Sends, FlowStep(s) PROVE Truth(t)'
  BY <1>0, <1>1, <1>3, FlowTruth, FlowFrame, TruthFrame
<1>4. CASE Tick \/ Configure
  BY <1>1, <1>4, TruthFrame DEF Tick, Configure, worker, flow
<1>5. CASE Crash
  <2>1. (step'[t] = step[t] /\ reply'[t] = reply[t]) \/ step'[t] = "lost"
    BY <1>0, <1>5 DEF Crash, TypeOK
  <2>2. UNCHANGED <<answer, accepted, wire>>
    BY <1>5 DEF Crash, flow
  <2> QED
    BY <1>1, <2>1, <2>2 DEF Truth, Untaken, NotBegun, KnownTaken
<1>6. CASE UNCHANGED vars
  BY <1>1, <1>6, TruthFrame DEF vars
<1> QED
  BY <1>2, <1>3, <1>4, <1>5, <1>6 DEF Next

LEMMA TruthInvariant == Spec => []TruthInv
BY InitTruth, NextTruth, PTL DEF Spec

\* No Send is taken twice, whatever times out, breaks, arrives late or crashes
\* (flow_edge.rs, exchange: never permission to replay a delivery).
THEOREM TakenAtMostOnce == Spec => []AtMostOnce
<1>1. ASSUME TruthInv PROVE AtMostOnce
  <2> SUFFICES ASSUME NEW s \in Sends PROVE accepted[s] <= 1
    BY DEF AtMostOnce
  <2>1. accepted[s] = 0 \/ accepted[s] = 1
    BY <1>1 DEF TruthInv, Truth
  <2> QED
    BY <2>1
<1> QED
  BY <1>1, TruthInvariant, PTL

\* A denied Send was not taken and never will be, a confirmed one was
\* (service.rs, accept_send and for_send).
THEOREM AnswersAreTrue == Spec => []TruthfulAnswer
<1>1. TruthInv => TruthfulAnswer
  BY DEF TruthInv, Truth, TruthfulAnswer, Untaken
<1> QED
  BY <1>1, TruthInvariant, PTL

(***************************************************************************)
(* The contract.  A worker's step to "done" tells its caller a verdict;    *)
(* Flow's acceptance takes the Send; every other step stutters.            *)
(***************************************************************************)

\* What is told changes only where a worker comes to its end.
LEMMA ToldFrame ==
  ASSUME TypeOK, NEW s \in Sends,
         step' \in [Sends -> Steps], answer' \in [Sends -> Answers],
         \A t \in Sends \ {s} : step'[t] = step[t] /\ answer'[t] = answer[t]
  PROVE  /\ told' = [told EXCEPT ![s] = Verdict(s)']
         /\ Verdict(s)' = Verdict(s) => told' = told
<1>1. \A t \in Sends \ {s} : Verdict(t)' = Verdict(t)
  BY DEF Verdict, Answered
<1> QED
  BY <1>1 DEF told

\* A worker never leaves "done" and answers there no more.
LEMMA WorkerDone ==
  ASSUME TypeOK, NEW s \in Sends, WorkerStep(s), reply[s] = "unsent" \/ step[s] # "done"
  PROVE  step[s] # "done"
BY DEF WorkerStep, Receive, WriteQuery, Unreachable, Connecting, TimeOut, Broken, Refused,
       Identified, Locked, CheckLease, Delivered, Released, OpenSubscription, OnFailure, Exchanges

\* A worker that has answered holds no exchange.
Quiet(s) == step[s] \in {"done", "lost", "observe", "check", "idle"} => reply[s] = "unsent"

QuietInv == TypeOK /\ \A s \in Sends : Quiet(s)

LEMMA QuietInvariant == Spec => []QuietInv
<1>1. Init => QuietInv
  BY InitTypeOK DEF Init, QuietInv, Quiet
<1>2. QuietInv /\ [Next]_vars => QuietInv'
  <2> SUFFICES ASSUME QuietInv, [Next]_vars, NEW t \in Sends PROVE Quiet(t)'
    BY NextTypeOK DEF QuietInv
  <2>0. TypeOK /\ Quiet(t)
    BY DEF QuietInv
  <2>1. ASSUME NEW s \in Sends, WorkerStep(s) PROVE Quiet(t)'
    <3>1. CASE t # s
      BY <2>0, <2>1, <3>1, WorkerFrame DEF Quiet
    <3>2. CASE t = s /\ step'[s] # step[s]
      <4>1. reply'[s] = "unsent"
        BY <2>0, <2>1, <3>2
        DEF WorkerStep, Receive, WriteQuery, Unreachable, Connecting, TimeOut, Broken, Refused,
            Identified, Locked, CheckLease, Delivered, Released, OpenSubscription,
            OnFailure, Goto, Answer, AnswerAfterRelease, TypeOK
      <4> QED
        BY <3>2, <4>1 DEF Quiet
    <3>3. CASE t = s /\ step'[s] = step[s]
      <4>1. reply'[s] = "unsent" \/ step[s] \in Exchanges
        BY <2>0, <2>1, <3>3
        DEF WorkerStep, Receive, WriteQuery, Unreachable, Connecting, TimeOut, Broken, Refused,
            Identified, Locked, CheckLease, Delivered, Released, OpenSubscription,
            OnFailure, Goto, Answer, AnswerAfterRelease, TypeOK
      <4> QED
        BY <3>3, <4>1 DEF Quiet, Exchanges
    <3> QED
      BY <3>1, <3>2, <3>3
  <2>2. ASSUME NEW s \in Sends, FlowStep(s) PROVE Quiet(t)'
    <3>1. step' = step
      BY <2>2 DEF FlowStep, FlowRefuse, FlowIdentify, FlowLock, FlowDeliver, FlowRelease
    <3>2. reply[t] = "unsent" => reply'[t] = "unsent"
      BY <2>0, <2>2 DEF FlowStep, FlowRefuse, FlowIdentify, FlowLock, FlowDeliver,
                        FlowRelease, Reply, TypeOK
    <3> QED
      BY <2>0, <3>1, <3>2 DEF Quiet
  <2>3. CASE Tick \/ Configure
    BY <2>0, <2>3 DEF Tick, Configure, worker, Quiet
  <2>4. CASE Crash
    BY <2>0, <2>4 DEF Crash, Quiet, TypeOK
  <2>5. CASE UNCHANGED vars
    BY <2>0, <2>5 DEF vars, Quiet
  <2> QED
    BY <2>1, <2>2, <2>3, <2>4, <2>5 DEF Next
<1> QED
  BY <1>1, <1>2, PTL DEF Spec

\* A worker's step tells its caller a true verdict, or nothing new.
LEMMA WorkerTells ==
  ASSUME TruthInv, TruthInv', QuietInv, NEW s \in Sends, WorkerStep(s)
  PROVE  Contract!Next \/ UNCHANGED <<accepted, told>>
<1>1. TypeOK /\ TypeOK' /\ step[s] # "done"
  BY WorkerDone DEF TruthInv, QuietInv, Quiet
<1>2. accepted' = accepted
  BY DEF WorkerStep, Receive, WriteQuery, Unreachable, Connecting, TimeOut, Broken, Refused,
         Identified, Locked, CheckLease, Delivered, Released, OpenSubscription, OnFailure, flow
<1>3. /\ told' = [told EXCEPT ![s] = Verdict(s)']
      /\ Verdict(s)' = Verdict(s) => told' = told
  <2>1. \A t \in Sends \ {s} : step'[t] = step[t] /\ answer'[t] = answer[t]
    BY <1>1, WorkerFrame
  <2> QED
    BY <1>1, <2>1, ToldFrame DEF TypeOK
<1>4. Verdict(s) = "nothing"
  BY <1>1 DEF Verdict, Answered
<1>5. CASE step'[s] # "done"
  BY <1>2, <1>3, <1>4, <1>5 DEF Verdict, Answered
<1>6. CASE step'[s] = "done"
  <2>1. told[s] = "nothing"
    BY <1>4 DEF told
  <2>2. Verdict(s)' \in Contract!Verdicts
    BY <1>6 DEF Verdict, Answered, Contract!Verdicts
  <2>3. Verdict(s)' = "denied" => accepted[s] = 0
    BY <1>2, <1>6 DEF Verdict, Answered, TruthInv, Truth, Untaken
  <2>4. Verdict(s)' = "confirmed" => accepted[s] = 1
    BY <1>2, <1>6 DEF Verdict, Answered, TruthInv, Truth
  <2>5. Contract!Tell(s, Verdict(s)')
    BY <1>2, <1>3, <2>1, <2>3, <2>4 DEF Contract!Tell
  <2> QED
    BY <2>2, <2>5 DEF Contract!Next
<1> QED
  BY <1>5, <1>6

\* Flow's step takes the Send for the first time, or changes nothing the
\* contract speaks of.
LEMMA FlowTakes ==
  ASSUME TruthInv, NEW s \in Sends, FlowStep(s)
  PROVE  Contract!Next \/ UNCHANGED <<accepted, told>>
<1>1. told' = told
  BY DEF FlowStep, FlowRefuse, FlowIdentify, FlowLock, FlowDeliver, FlowRelease, told,
         Verdict, Answered
<1>2. CASE accepted' = accepted
  BY <1>1, <1>2
<1>3. CASE accepted' # accepted
  <2>1. <<s, "deliver">> \in wire /\ accepted' = [accepted EXCEPT ![s] = accepted[s] + 1]
    BY <1>3 DEF FlowStep, FlowRefuse, FlowIdentify, FlowLock, FlowDeliver, FlowRelease, Take
  <2>2. accepted[s] = 0 /\ accepted' = [accepted EXCEPT ![s] = 1]
    <3>1. accepted[s] = 0
      BY <2>1 DEF TruthInv, Truth
    <3>2. accepted[s] + 1 = 1
      BY <3>1
    <3> QED
      BY <2>1, <3>1, <3>2
  <2>3. told[s] # "denied"
    BY <2>1 DEF told, Verdict, Answered, TruthInv, Truth, Untaken
  <2> QED
    BY <1>1, <2>2, <2>3 DEF Contract!Take, Contract!Next
<1> QED
  BY <1>2, <1>3

\* The Send path implements the contract of a Send.
THEOREM ContractKept == Spec => KeepsContract
<1>1. Init => Contract!Init
  <2> SUFFICES ASSUME Init PROVE Contract!Init
    OBVIOUS
  <2>1. \A s \in Sends : Verdict(s) = "nothing"
    BY DEF Init, Verdict, Answered
  <2> QED
    BY <2>1 DEF Init, Contract!Init, told
<1>2. TruthInv /\ TruthInv' /\ QuietInv /\ [Next]_vars
        => [Contract!Next]_<<accepted, told>>
  <2> SUFFICES ASSUME TruthInv, TruthInv', QuietInv, [Next]_vars
               PROVE  Contract!Next \/ UNCHANGED <<accepted, told>>
    OBVIOUS
  <2>1. CASE Tick \/ Configure \/ UNCHANGED vars
    BY <2>1 DEF Tick, Configure, worker, flow, vars, told, Verdict, Answered
  <2>2. CASE Crash
    <3>1. accepted' = accepted /\ answer' = answer
      BY <2>2 DEF Crash, flow
    <3>2. \A s \in Sends : step'[s] = "done" <=> step[s] = "done"
      BY <2>2 DEF Crash, TruthInv, TypeOK
    <3>3. \A s \in Sends : Verdict(s)' = Verdict(s)
      BY <3>1, <3>2 DEF Verdict, Answered
    <3> QED
      BY <3>1, <3>3 DEF told
  <2> QED
    BY <2>1, <2>2, WorkerTells, FlowTakes DEF Next
<1> QED
  BY <1>1, <1>2, TruthInvariant, QuietInvariant, PTL DEF Spec, KeepsContract, Contract!Spec

(***************************************************************************)
(* Leases.  A lease of a Send lies where the Send looked for it, and goes  *)
(* before the worker is done with it: Flow uses it up, or takes it back.   *)
(***************************************************************************)

\* No Flow holds a lease of s.
Unleased(s) == \A f \in Flows, a \in Addresses : lease[f][a] # None => lease[f][a].owner # s

\* The only place s's lease can be, and s's name for it.
Placed(s) ==
  /\ lock[s].address = request[s].recipient
  /\ \A f \in Flows, a \in Addresses :
       lease[f][a] # None /\ lease[f][a].owner = s => f = edge[s] /\ a = request[s].recipient

\* Nobody will grant s another lease.
LockSpent(s) == <<s, "lock">> \notin wire

\* Nothing failed so far: s asks for its lease once, and Flow's answers say when
\* the lease is gone.
Orderly(s) ==
  /\ step[s] \in {"check", "deliver", "release", "observe", "done"} => LockSpent(s)
  /\ step[s] = "lock" /\ reply[s] \notin {"unsent", "awaited"} => LockSpent(s)
  /\ step[s] = "deliver" /\ reply[s] = "SendAccepted" => Unleased(s)
  /\ step[s] = "release" /\ reply[s] = "Released" => Unleased(s)
  /\ step[s] \in {"observe", "done"} => Unleased(s)

Lease(s) ==
  /\ Placed(s)
  /\ step[s] \in {"idle", "identify"} => LockSpent(s) /\ Unleased(s)
  /\ ~disturbed[s] => Orderly(s)

LeaseInv == TypeOK /\ \A s \in Sends : Lease(s)

\* A step that grants t no lease and leaves its worker alone keeps its Lease.
LEMMA LeaseFrame ==
  ASSUME NEW t \in Sends, Lease(t),
         step'[t] = step[t], reply'[t] = reply[t], lock'[t] = lock[t],
         request'[t] = request[t], edge'[t] = edge[t], disturbed'[t] = disturbed[t],
         LockSpent(t) => LockSpent(t)',
         \A f \in Flows, a \in Addresses :
           lease'[f][a] # None /\ lease'[f][a].owner = t
             => lease[f][a] # None /\ lease[f][a].owner = t
  PROVE  Lease(t)'
<1>1. Placed(t)'
  BY DEF Lease, Placed
<1>2. Unleased(t) => Unleased(t)'
  BY DEF Unleased
<1> QED
  BY <1>1, <1>2 DEF Lease, Orderly

\* A failed exchange disturbs its Send, of which little is claimed then.
LEMMA FailureLease ==
  ASSUME TypeOK, NEW s \in Sends, Lease(s), NEW failure, OnFailure(s, failure)
  PROVE  Lease(s)'
<1>1. disturbed'[s] = TRUE /\ step'[s] \in {"done", "release"}
  BY DEF OnFailure, Goto, Answer, AnswerAfterRelease, TypeOK
<1>2. Placed(s)'
  BY DEF OnFailure, flow, input, Lease, Placed
<1> QED
  BY <1>1, <1>2 DEF Lease

LEMMA WorkerLease ==
  ASSUME TypeOK, NEW s \in Sends, Lease(s), WorkerStep(s)
  PROVE  Lease(s)'
<1> USE DEF Goto, Answer, AnswerAfterRelease, flow, input, TypeOK, Lease, Orderly
<1>1. CASE Receive(s)
  <2>1. Unleased(s)' /\ LockSpent(s)'
    BY <1>1 DEF Receive, Unleased, LockSpent
  <2>2. Placed(s)'
    BY <1>1, <2>1 DEF Receive, Placed, Unleased
  <2> QED
    BY <1>1, <2>1, <2>2 DEF Receive
<1>2. CASE WriteQuery(s)
  <2>1. Placed(s)' /\ (Unleased(s) => Unleased(s)')
    BY <1>2 DEF WriteQuery, Placed, Unleased
  <2>2. step[s] # "lock" => (LockSpent(s) => LockSpent(s)')
    BY <1>2 DEF WriteQuery, LockSpent
  <2>3. step'[s] = step[s] /\ reply'[s] = "awaited" /\ disturbed'[s] = disturbed[s]
    BY <1>2 DEF WriteQuery
  <2>4. step[s] \in Exchanges
    BY <1>2 DEF WriteQuery
  <2> QED
    BY <2>1, <2>2, <2>3, <2>4 DEF Exchanges
<1>3. CASE Unreachable(s) \/ TimeOut(s) \/ Broken(s) \/ Refused(s)
  BY <1>3, FailureLease DEF Unreachable, Connecting, TimeOut, Broken, Refused
<1> DEFINE Same == /\ Placed(s)' /\ (Unleased(s) => Unleased(s)')
                   /\ (LockSpent(s) => LockSpent(s)')
<1>4. ASSUME lease' = lease, wire' = wire, lock' = lock, request' = request, edge' = edge
      PROVE  Same
  BY <1>4 DEF Placed, Unleased, LockSpent
<1> HIDE DEF Same
<1>5. CASE Identified(s)
  <2>1. Same
    BY <1>4, <1>5 DEF Identified
  <2> QED
    BY <1>5, <2>1 DEF Identified, Same
<1>6. CASE Locked(s)
  <2>1. Same
    BY <1>4, <1>6 DEF Locked
  <2> QED
    BY <1>6, <2>1 DEF Locked, Same
<1>7. CASE CheckLease(s)
  <2>1. Same
    BY <1>4, <1>7 DEF CheckLease
  <2> QED
    BY <1>7, <2>1 DEF CheckLease, Same
<1>8. CASE Delivered(s)
  <2>1. Same
    BY <1>4, <1>8 DEF Delivered
  <2> QED
    BY <1>8, <2>1 DEF Delivered, Same, Outcomes
<1>9. CASE Released(s)
  <2>1. Same
    BY <1>4, <1>9 DEF Released
  <2> QED
    BY <1>9, <2>1 DEF Released, Same
<1>10. CASE OpenSubscription(s)
  <2>1. Same
    BY <1>4, <1>10 DEF OpenSubscription
  <2> QED
    BY <1>10, <2>1 DEF OpenSubscription, Same
<1> QED
  BY <1>1, <1>2, <1>3, <1>5, <1>6, <1>7, <1>8, <1>9, <1>10 DEF WorkerStep

\* A lease that s gives back, or uses up, was its only one.
LEMMA FreeUnleases ==
  ASSUME TypeOK, NEW s \in Sends, Placed(s), Free(s)
  PROVE  /\ Unleased(s)'
         /\ \A f \in Flows, a \in Addresses : lease'[f][a] # None => lease'[f][a] = lease[f][a]
<1>1. edge[s] \in Flows /\ lock[s].address = request[s].recipient /\ lock[s].address \in Addresses
  BY DEF TypeOK, Placed, Locks
<1>2. \A f \in Flows, a \in Addresses :
        lease'[f][a] = IF f = edge[s] /\ a = lock[s].address THEN None ELSE lease[f][a]
  BY <1>1 DEF Free, TypeOK
<1> QED
  BY <1>1, <1>2 DEF Placed, Unleased

\* What Flow does for s leaves a Send's Lease as it was, its own and others'.
LEMMA FlowLease ==
  ASSUME TypeOK, NEW s \in Sends, FlowStep(s), NEW t \in Sends, Lease(t), Lease(s)
  PROVE  Lease(t)'
<1>0. /\ step' = step /\ request' = request /\ edge' = edge /\ disturbed' = disturbed
      /\ wire' \subseteq wire
      /\ t # s => reply'[t] = reply[t] /\ lock'[t] = lock[t]
  BY DEF FlowStep, FlowRefuse, FlowIdentify, FlowLock, FlowDeliver, FlowRelease, Take, Reply,
         TypeOK, input
<1>1. LockSpent(t) => LockSpent(t)'
  BY <1>0 DEF LockSpent
<1>2. /\ edge[s] \in Flows /\ request[s].recipient \in Addresses
  BY DEF TypeOK, Requests
<1>3. CASE FlowLock(s)
  <2> DEFINE granted == LockOf(s, now + LeaseLength)
  <2>1. /\ lease' = [lease EXCEPT ![edge[s]][request[s].recipient] =
                                    [lock |-> granted, owner |-> s]]
        /\ lock' = [lock EXCEPT ![s] = granted]
        /\ <<s, "lock">> \in wire /\ LockSpent(s)'
    BY <1>3 DEF FlowLock, Take, LockSpent
  <2>2. \A f \in Flows, a \in Addresses :
          lease'[f][a] = IF f = edge[s] /\ a = request[s].recipient
                           THEN [lock |-> granted, owner |-> s] ELSE lease[f][a]
    BY <1>2, <2>1 DEF TypeOK
  <2>3. CASE t # s
    BY <1>0, <1>1, <2>2, <2>3, LeaseFrame
  <2>4. CASE t = s
    <3>1. lock'[s].address = request[s].recipient
      BY <2>1 DEF TypeOK, LockOf
    <3>2. Placed(s)'
      BY <1>0, <2>2, <3>1 DEF Lease, Placed
    <3>3. step[s] \notin {"idle", "identify"}
      BY <2>1 DEF Lease, LockSpent
    <3>4. ~disturbed[s] => step[s] \notin {"check", "deliver", "release", "observe", "done"}
      BY <2>1 DEF Lease, Orderly, LockSpent
    <3> QED
      BY <1>0, <2>1, <2>4, <3>2, <3>3, <3>4 DEF Lease, Orderly
  <2> QED
    BY <2>3, <2>4
<1>4. CASE FlowRefuse(s) \/ FlowIdentify(s)
  <2>1. lease' = lease /\ lock' = lock
    BY <1>4 DEF FlowRefuse, FlowIdentify
  <2>2. CASE reply'[t] = reply[t]
    BY <1>0, <1>1, <2>1, <2>2, LeaseFrame
  <2>3. CASE reply'[t] # reply[t]
    <3>1. t = s
      BY <1>0, <2>3
    <3>2. /\ reply'[s] \notin {"SendAccepted", "Released"}
          /\ step[s] = "lock" => LockSpent(s)'
      BY <1>4, <2>3, <3>1 DEF FlowRefuse, FlowIdentify, Take, Reply, TypeOK, Refusals, LockSpent
    <3>3. Placed(t)' /\ (Unleased(t) => Unleased(t)')
      BY <1>0, <2>1 DEF Lease, Placed, Unleased
    <3> QED
      BY <1>0, <1>1, <3>1, <3>2, <3>3 DEF Lease, Orderly
  <2> QED
    BY <2>2, <2>3
<1>5. CASE FlowDeliver(s) \/ FlowRelease(s)
  <2>1. lock' = lock /\ (UNCHANGED lease \/ Free(s))
    BY <1>5 DEF FlowDeliver, FlowRelease
  <2>2. \A f \in Flows, a \in Addresses : lease'[f][a] # None => lease'[f][a] = lease[f][a]
    BY <2>1, FreeUnleases DEF Lease
  <2>3. CASE reply'[t] = reply[t]
    BY <1>0, <1>1, <2>1, <2>2, <2>3, LeaseFrame
  <2>4. CASE reply'[t] # reply[t]
    <3>1. t = s /\ step[s] \in {"deliver", "release"}
      BY <1>0, <1>5, <2>4 DEF FlowDeliver, FlowRelease, Reply
    <3>2. reply'[s] \in {"SendAccepted", "Released"} => Unleased(s)'
      BY <1>5, <2>4, <3>1, FreeUnleases DEF FlowDeliver, FlowRelease, Reply, TypeOK, Lease
    <3>3. Placed(t)'
      BY <1>0, <2>1, <2>2 DEF Lease, Placed
    <3> QED
      BY <1>0, <1>1, <3>1, <3>2, <3>3 DEF Lease, Orderly
  <2> QED
    BY <2>3, <2>4
<1> QED
  BY <1>3, <1>4, <1>5 DEF FlowStep

\* A worker changes nothing that another Send's Lease speaks of.
LEMMA WorkerLeaseFrame ==
  ASSUME TypeOK, NEW s \in Sends, WorkerStep(s), NEW t \in Sends, t # s, Lease(t)
  PROVE  Lease(t)'
<1>1. /\ step'[t] = step[t] /\ reply'[t] = reply[t] /\ lock' = lock /\ request' = request
      /\ edge'[t] = edge[t] /\ disturbed'[t] = disturbed[t] /\ lease' = lease
      /\ LockSpent(t) => LockSpent(t)'
  BY DEF WorkerStep, Receive, WriteQuery, Unreachable, Connecting, TimeOut, Broken, Refused,
         Identified, Locked, CheckLease, Delivered, Released, OpenSubscription, OnFailure, Goto, Answer,
         AnswerAfterRelease, TypeOK, flow, input, LockSpent
<1> QED
  BY <1>1, LeaseFrame

LEMMA InitLease == Init => LeaseInv
<1> SUFFICES ASSUME Init PROVE LeaseInv
  OBVIOUS
<1> SUFFICES ASSUME NEW s \in Sends PROVE Lease(s)
  BY InitTypeOK DEF LeaseInv
<1>1. lock[s].address = request[s].recipient
  BY DEF Init, LockOf
<1>2. Unleased(s) /\ LockSpent(s)
  BY DEF Init, Unleased, LockSpent
<1> QED
  BY <1>1, <1>2 DEF Init, Lease, Placed, Orderly, Unleased

LEMMA NextLease == LeaseInv /\ [Next]_vars => LeaseInv'
<1> SUFFICES ASSUME LeaseInv, [Next]_vars PROVE LeaseInv'
  OBVIOUS
<1>0. TypeOK /\ TypeOK'
  BY NextTypeOK DEF LeaseInv
<1> SUFFICES ASSUME NEW t \in Sends PROVE Lease(t)'
  BY <1>0 DEF LeaseInv
<1>1. \A s \in Sends : Lease(s)
  BY DEF LeaseInv
<1>2. ASSUME NEW s \in Sends, WorkerStep(s) PROVE Lease(t)'
  BY <1>0, <1>1, <1>2, WorkerLease, WorkerLeaseFrame
<1>3. ASSUME NEW s \in Sends, FlowStep(s) PROVE Lease(t)'
  BY <1>0, <1>1, <1>3, FlowLease
<1>4. CASE Tick \/ Configure \/ UNCHANGED vars
  <2>1. Lease(t)
    BY <1>1
  <2>2. UNCHANGED <<step, reply, lock, request, edge, disturbed, wire, lease>>
    BY <1>4 DEF Tick, Configure, worker, flow, input, vars
  <2> QED
    BY <2>1, <2>2, LeaseFrame DEF LockSpent
<1>5. CASE Crash
  <2>1. Lease(t)
    BY <1>1
  <2>2. UNCHANGED <<lock, request, edge, disturbed, wire, lease>>
    BY <1>5 DEF Crash, flow, input
  <2>3. \/ step'[t] = step[t] /\ reply'[t] = reply[t]
        \/ step'[t] = "lost"
    BY <1>0, <1>5 DEF Crash, TypeOK
  <2>4. CASE step'[t] = step[t] /\ reply'[t] = reply[t]
    BY <2>1, <2>2, <2>4, LeaseFrame DEF LockSpent
  <2>5. CASE step'[t] = "lost"
    BY <2>1, <2>2, <2>5 DEF Lease, Placed, Orderly
  <2> QED
    BY <2>3, <2>4, <2>5
<1> QED
  BY <1>2, <1>3, <1>4, <1>5 DEF Next

\* A Send that met no failure leaves no lease behind at any Flow, whatever lapses,
\* is configured meanwhile or is killed (accept_send releases on the edge it began
\* with).
THEOREM LeaseReturned == Spec => []NoLeaseLeft
<1>1. LeaseInv => NoLeaseLeft
  BY DEF LeaseInv, Lease, Orderly, Unleased, NoLeaseLeft, Answered
<1> QED
  BY <1>1, InitLease, NextLease, PTL DEF Spec

(***************************************************************************)
(* Nothing is replayed.  A step of a worker leaves its exchange for a      *)
(* later stage, or writes the query of this one; a step of Flow answers    *)
(* the one query that is awaited.                                          *)
(***************************************************************************)
Still(s) == step'[s] = step[s] /\ reply'[s] = reply[s]

LEMMA StageType == Stage \in [Steps -> Nat]
BY DEF Stage, Steps, Exchanges

\* To leave for a later stage is to come nearer to the end.
LEMMA LeavingIsNearer ==
  ASSUME TypeOK, NEW s \in Sends, NEW st \in Steps, Goto(s, st), Stage[st] < Stage[step[s]]
  PROVE  Ahead(s)' < Ahead(s)
<1>1. step'[s] = st /\ reply'[s] = "unsent"
  BY DEF Goto, TypeOK
<1>2. step[s] \in Steps
  BY DEF TypeOK
<1>3. Stage[st] \in Nat /\ Stage[step[s]] \in Nat
  BY <1>2, StageType
<1>4. Ahead(s)' = 3 * Stage[st] + 2
  BY <1>1 DEF Ahead
<1>5. Ahead(s) \in Nat /\ Ahead(s) >= 3 * Stage[step[s]]
  BY <1>3 DEF Ahead
<1>6. 3 * Stage[st] + 2 < 3 * Stage[step[s]]
  BY <1>3
<1> QED
  BY <1>3, <1>4, <1>5, <1>6

\* A failed exchange is not taken up again (flow_edge.rs, exchange).
LEMMA FailureIsNearer ==
  ASSUME TypeOK, NEW s \in Sends, NEW failure, OnFailure(s, failure)
  PROVE  Ahead(s)' < Ahead(s)
<1>1. PICK st \in {"done", "release"} :
        /\ Goto(s, st)
        /\ \/ step[s] \in {"identify", "lock", "deliver"}
           \/ step[s] \in {"release", "observe"} /\ st = "done"
  BY DEF OnFailure, Answer, AnswerAfterRelease
<1>2. Stage[st] < Stage[step[s]]
  BY <1>1 DEF Stage, Steps, Exchanges
<1> QED
  BY <1>1, <1>2, LeavingIsNearer DEF Steps, Exchanges

LEMMA WorkerIsNearer ==
  ASSUME TypeOK, NEW s \in Sends, WorkerStep(s)
  PROVE  Ahead(s)' < Ahead(s)
<1>1. CASE WriteQuery(s)
  <2>1. /\ step'[s] = step[s] /\ reply[s] = "unsent" /\ reply'[s] = "awaited"
        /\ step[s] \in Steps
    BY <1>1 DEF WriteQuery, TypeOK
  <2>2. Stage[step[s]] \in Nat
    BY <2>1, StageType
  <2> QED
    BY <2>1, <2>2 DEF Ahead
<1>2. CASE Unreachable(s) \/ TimeOut(s) \/ Broken(s) \/ Refused(s)
  BY <1>2, FailureIsNearer DEF Unreachable, Connecting, TimeOut, Broken, Refused
<1>3. CASE Receive(s) \/ Identified(s) \/ Locked(s) \/ CheckLease(s) \/ Delivered(s)
             \/ Released(s) \/ OpenSubscription(s)
  <2>1. PICK st \in Steps : Goto(s, st) /\ Stage[st] < Stage[step[s]]
    <3> USE DEF Answer, AnswerAfterRelease, Stage, Steps, Exchanges
    <3>1. CASE Receive(s) \/ Identified(s)
      BY <3>1 DEF Receive, Identified
    <3>2. CASE Locked(s) \/ CheckLease(s)
      <4>1. \/ step[s] = "lock" /\ Goto(s, "check")
            \/ step[s] = "check" /\ (Goto(s, "done") \/ Goto(s, "deliver"))
        BY <3>2 DEF Locked, CheckLease
      <4> QED
        BY <4>1
    <3>3. CASE Delivered(s)
      BY <3>3 DEF Delivered
    <3>4. CASE Released(s) \/ OpenSubscription(s)
      BY <3>4 DEF Released, OpenSubscription
    <3> QED
      BY <1>3, <3>1, <3>2, <3>3, <3>4
  <2> QED
    BY <2>1, LeavingIsNearer
<1> QED
  BY <1>1, <1>2, <1>3 DEF WorkerStep

\* Flow's answer ends the wait for it; one that nobody awaits changes nothing.
LEMMA AnswerIsNearer ==
  ASSUME TypeOK, NEW s \in Sends, FlowStep(s)
  PROVE  Still(s) \/ Ahead(s)' < Ahead(s)
<1>1. /\ step' = step
      /\ \/ reply' = reply
         \/ reply[s] = "awaited" /\ reply'[s] \notin {"unsent", "awaited"}
  BY DEF FlowStep, FlowRefuse, FlowIdentify, FlowLock, FlowDeliver, FlowRelease, Reply,
         Refusals, TypeOK
<1>2. Stage[step[s]] \in Nat
  BY StageType DEF TypeOK
<1> QED
  BY <1>1, <1>2 DEF Still, Ahead

\* A kill is the end of every worker that runs.
LEMMA CrashIsNearer ==
  ASSUME TypeOK, NEW s \in Sends, Crash
  PROVE  Still(s) \/ Ahead(s)' < Ahead(s)
<1>1. CASE step[s] \in {"idle", "done", "lost"}
  BY <1>1 DEF Crash, Still, TypeOK
<1>2. CASE step[s] \notin {"idle", "done", "lost"}
  <2>1. step'[s] = "lost" /\ reply'[s] = "unsent" /\ step[s] \in Steps
    BY <1>2 DEF Crash, TypeOK
  <2>2. Stage[step[s]] \in Nat /\ Stage[step[s]] >= 1 /\ Stage["lost"] = 0
    BY <1>2, <2>1 DEF Stage, Steps, Exchanges
  <2> QED
    BY <2>1, <2>2 DEF Ahead
<1> QED
  BY <1>1, <1>2

\* No exchange is taken up twice, whatever fails, times out or is answered late
\* (service.rs, accept_send; flow_edge.rs, exchange).
THEOREM NothingIsReplayed == Spec => NeverReplays
<1>1. TypeOK /\ [Next]_vars
        => [\A s \in Sends : (step'[s] = step[s] /\ reply'[s] = reply[s])
                              \/ Ahead(s)' < Ahead(s)]_vars
  <2> SUFFICES ASSUME TypeOK, Next, NEW s \in Sends PROVE Still(s) \/ Ahead(s)' < Ahead(s)
    BY DEF Still
  <2>1. ASSUME NEW t \in Sends, t # s, WorkerStep(t) \/ FlowStep(t) PROVE Still(s)
    BY <2>1, WorkerFrame, FlowFrame DEF Still
  <2>2. CASE Tick \/ Configure
    BY <2>2 DEF Tick, Configure, worker, Still
  <2> QED
    BY <2>1, <2>2, WorkerIsNearer, AnswerIsNearer, CrashIsNearer DEF Next
<1> QED
  BY <1>1, TypeCorrect, PTL DEF Spec, NeverReplays
=============================================================================
