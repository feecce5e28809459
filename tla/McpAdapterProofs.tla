-------------------------- MODULE McpAdapterProofs --------------------------
(***************************************************************************)
(* Proofs about McpAdapter, for any set of request ids and any limits.     *)
(***************************************************************************)
EXTENDS McpAdapter, TLAPS

LEMMA InitTypeOK == Init => TypeOK
BY DEF Init, TypeOK, Places

\* Counting one more query or final response stays within the naturals.
LEMMA CountType ==
  ASSUME NEW f \in [Calls -> Nat], NEW c \in Calls
  PROVE  [f EXCEPT ![c] = @ + 1] \in [Calls -> Nat]
<1>1. f[c] + 1 \in Nat
  OBVIOUS
<1> QED
  BY <1>1

LEMMA MainType ==
  ASSUME TypeOK, Main
  PROVE  TypeOK'
<1> USE DEF TypeOK, MainWrites, shared, intake, Places
<1>1. CASE Initialize
  BY <1>1 DEF Initialize
<1>2. CASE AnswerAtOnce
  BY <1>2 DEF AnswerAtOnce
<1>3. CASE ShutCancelled
  BY <1>3 DEF ShutCancelled, ShutObservers
<1>4. CASE EndOfInput
  BY <1>4 DEF EndOfInput
<1>5. CASE CloseActive \/ CloseDone
  BY <1>5 DEF CloseActive, CloseDone
<1>6. CASE ShutNext
  BY <1>6 DEF ShutNext, ShutObservers
<1>7. ASSUME NEW c \in Calls, FlagNext(c) PROVE TypeOK'
  BY <1>7 DEF FlagNext
<1>8. CASE JoinWorkers
  BY <1>8 DEF JoinWorkers
<1>9. ASSUME NEW c \in Calls, TooManyActive(c) PROVE TypeOK'
  <2>1. finals' \in [Calls -> Nat]
    BY <1>9, CountType DEF TooManyActive, WriteFinal
  <2> QED
    BY <1>9, <2>1 DEF TooManyActive
<1>10. ASSUME NEW c \in Calls, Dispatch(c) PROVE TypeOK'
  BY <1>10 DEF Dispatch
<1>11. ASSUME NEW c \in Calls, Cancel(c) PROVE TypeOK'
  BY <1>11 DEF Cancel
<1> QED
  BY <1>1, <1>2, <1>3, <1>4, <1>5, <1>6, <1>7, <1>8, <1>9, <1>10, <1>11 DEF Main, Closing

LEMMA WorkerType ==
  ASSUME TypeOK, NEW c \in Calls, Worker(c)
  PROVE  TypeOK'
<1>0. WriteFinal(c) => finals' \in [Calls -> Nat]
  BY CountType DEF WriteFinal, TypeOK
<1> USE DEF TypeOK, Goto, shared, intake, Places
<1>1. CASE Start(c)
  BY <1>1 DEF Start
<1>2. CASE Connect(c)
  BY <1>2 DEF Connect
<1>3. CASE Register(c)
  <2>1. (c \in active) \in BOOLEAN
    OBVIOUS
  <2>2. registered' \in [Calls -> BOOLEAN]
    BY <1>3, <2>1 DEF Register
  <2> QED
    BY <1>3, <2>2 DEF Register
<1>4. CASE Recheck(c)
  BY <1>4 DEF Recheck
<1>5. CASE Send(c)
  <2>1. sent' \in [Calls -> Nat]
    BY <1>5, CountType DEF Send
  <2> QED
    BY <1>5, <2>1 DEF Send
<1>6. CASE Fail(c)
  BY <1>0, <1>6 DEF Fail
<1>7. CASE Remove(c)
  BY <1>7 DEF Remove
<1>8. CASE Loop(c)
  BY <1>8 DEF Loop
<1>9. CASE ReadResponse(c)
  <2>1. /\ acceptance' \in [Calls -> BOOLEAN] /\ cancelled' \in [Calls -> BOOLEAN]
        /\ alive' \in BOOLEAN /\ pc' \in [Calls -> Places]
        /\ stream' \in [Calls -> {"none", "open", "shut"}]
        /\ final' \in [Calls -> {"none", "result", "error", "cancelled"}]
    BY <1>9 DEF ReadResponse
  <2> QED
    BY <1>9, <2>1 DEF ReadResponse
<1>10. CASE ReadError(c)
  BY <1>10 DEF ReadError
<1>11. CASE Leave(c)
  BY <1>11 DEF Leave
<1>12. CASE Last(c)
  <2>1. finals' \in [Calls -> Nat]
    BY <1>0, <1>12 DEF Last
  <2> QED
    BY <1>12, <2>1 DEF Last
<1> QED
  BY <1>1, <1>2, <1>3, <1>4, <1>5, <1>6, <1>7, <1>8, <1>9, <1>10, <1>11, <1>12 DEF Worker

LEMMA NextTypeOK == TypeOK /\ [Next]_vars => TypeOK'
<1> SUFFICES ASSUME TypeOK, [Next]_vars PROVE TypeOK'
  OBVIOUS
<1>1. CASE OutputCloses
  BY <1>1 DEF OutputCloses, TypeOK, intake
<1>2. ASSUME NEW c \in Calls, PeerCloses(c) PROVE TypeOK'
  BY <1>2 DEF PeerCloses, TypeOK, intake, shared
<1>3. CASE UNCHANGED vars
  BY <1>3 DEF vars, TypeOK
<1> QED
  BY <1>1, <1>2, <1>3, MainType, WorkerType DEF Next

\* Every variable keeps its type, for any request ids and limits.
THEOREM TypeCorrect == Spec => []TypeOK
BY InitTypeOK, NextTypeOK, PTL DEF Spec

(***************************************************************************)
(* The invariant of one call.  Where its worker is says whether its entry  *)
(* is in the active map, whether a query was written, whether its final    *)
(* response was, and whether its socket can still be written to.           *)
(***************************************************************************)
BeforeSend == {"none", "start", "connect", "register", "recheck", "send"}
InMap == {"start", "connect", "register", "recheck", "send", "fail", "loop", "read",
          "leave", "remove"}
Unanswered == Places \ {"none", "remove", "done"}

CallInv(c) ==
  /\ c \notin seen => pc[c] = "none" /\ finals[c] = 0
  /\ pc[c] = "none" /\ c \in seen /\ alive /\ outputOpen => finals[c] = 1
  /\ pc[c] \in InMap => c \in active
  /\ pc[c] \in BeforeSend => sent[c] = 0
  /\ sent[c] = 0 \/ sent[c] = 1
  /\ pc[c] \in Unanswered => finals[c] = 0
  /\ finals[c] = 0 \/ finals[c] = 1
  /\ pc[c] \in {"remove", "done"} /\ alive /\ outputOpen => finals[c] = 1
  /\ pc[c] \in {"leave", "last"} => final[c] # "none" \/ cancelled[c]
  /\ pc[c] \in {"recheck", "send"} => registered[c]
  /\ pc[c] = "send" /\ CancellationHandled(c) => stream[c] # "open"

\* The main thread leaves no call flagged and not shut.
TargetInv == main \notin {"cancelling", "shutting"} => target = {}

AdapterInv == TypeOK /\ TargetInv /\ \A c \in Calls : CallInv(c)

LEMMA InitInv == Init => AdapterInv
BY InitTypeOK
DEF Init, AdapterInv, TargetInv, CallInv, InMap, BeforeSend, Unanswered, Places,
    CancellationHandled

\* The main thread keeps the invariant of every call.
LEMMA MainInv ==
  ASSUME AdapterInv, Main, NEW d \in Calls
  PROVE  CallInv(d)'
<1>0. TypeOK /\ TargetInv /\ CallInv(d)
  BY DEF AdapterInv
<1> USE DEF TypeOK, TargetInv, CallInv, MainWrites, shared, intake, InMap, BeforeSend,
            Unanswered, Places, CancellationHandled
<1>1. CASE Initialize
  BY <1>0, <1>1 DEF Initialize
<1>2. CASE AnswerAtOnce
  BY <1>0, <1>2 DEF AnswerAtOnce
<1>3. CASE ShutCancelled
  BY <1>0, <1>3 DEF ShutCancelled, ShutObservers
<1>4. CASE EndOfInput
  BY <1>0, <1>4 DEF EndOfInput
<1>5. CASE CloseActive \/ CloseDone
  BY <1>0, <1>5 DEF CloseActive, CloseDone
<1>6. CASE ShutNext
  BY <1>0, <1>6 DEF ShutNext, ShutObservers
<1>7. ASSUME NEW c \in Calls, FlagNext(c) PROVE CallInv(d)'
  BY <1>0, <1>7 DEF FlagNext
<1>8. CASE JoinWorkers
  BY <1>0, <1>8 DEF JoinWorkers
<1>9. ASSUME NEW c \in Calls, TooManyActive(c) PROVE CallInv(d)'
  <2>1. c \notin seen
    BY <1>9 DEF TooManyActive, Admissible
  <2> QED
    BY <1>0, <1>9, <2>1 DEF TooManyActive, WriteFinal
<1>10. ASSUME NEW c \in Calls, Dispatch(c) PROVE CallInv(d)'
  BY <1>0, <1>10 DEF Dispatch, Admissible
<1>11. ASSUME NEW c \in Calls, Cancel(c) PROVE CallInv(d)'
  BY <1>0, <1>11 DEF Cancel
<1> QED
  BY <1>1, <1>2, <1>3, <1>4, <1>5, <1>6, <1>7, <1>8, <1>9, <1>10, <1>11 DEF Main, Closing

\* A worker touches nothing of another call, but for connection_alive, which
\* only falls, and the entry it takes out of the map, which is its own.
LEMMA WorkerFrame ==
  ASSUME AdapterInv, NEW c \in Calls, Worker(c), NEW d \in Calls, d # c
  PROVE  CallInv(d)'
<1>0. TypeOK /\ CallInv(d)
  BY DEF AdapterInv
<1>1. /\ pc'[d] = pc[d] /\ cancelled'[d] = cancelled[d] /\ registered'[d] = registered[d]
      /\ stream'[d] = stream[d] /\ sent'[d] = sent[d] /\ final'[d] = final[d]
      /\ finals'[d] = finals[d] /\ (d \in active' <=> d \in active)
      /\ seen' = seen /\ main' = main /\ target' = target /\ outputOpen' = outputOpen
      /\ alive' => alive
  BY <1>0 DEF Worker, Start, Connect, Register, Recheck, Send, Fail, Remove, Loop,
              ReadResponse, ReadError, Leave, Last, Goto, WriteFinal, TypeOK, shared, intake
<1> QED
  BY <1>0, <1>1 DEF CallInv, CancellationHandled

LEMMA WorkerInv ==
  ASSUME AdapterInv, NEW c \in Calls, Worker(c)
  PROVE  CallInv(c)'
<1>0. TypeOK /\ CallInv(c)
  BY DEF AdapterInv
<1> USE DEF TypeOK, CallInv, Goto, shared, intake, InMap, BeforeSend, Unanswered, Places,
            CancellationHandled
<1>1. CASE Start(c)
  BY <1>0, <1>1 DEF Start
<1>2. CASE Connect(c)
  BY <1>0, <1>2 DEF Connect
<1>3. CASE Register(c)
  BY <1>0, <1>3 DEF Register
<1>4. CASE Recheck(c)
  BY <1>0, <1>4 DEF Recheck
<1>5. CASE Send(c)
  BY <1>0, <1>5 DEF Send
<1>6. CASE Fail(c)
  BY <1>0, <1>6 DEF Fail, WriteFinal
<1>7. CASE Remove(c)
  BY <1>0, <1>7 DEF Remove
<1>8. CASE Loop(c)
  BY <1>0, <1>8 DEF Loop
<1>9. CASE ReadResponse(c)
  <2>1. /\ pc'[c] \in {"leave", "loop"}
        /\ pc'[c] = "leave" => final'[c] # "none" \/ cancelled'[c]
        /\ alive' => alive
    BY <1>0, <1>9 DEF ReadResponse
  <2> QED
    BY <1>0, <1>9, <2>1 DEF ReadResponse
<1>10. CASE ReadError(c)
  BY <1>0, <1>10 DEF ReadError
<1>11. CASE Leave(c)
  BY <1>0, <1>11 DEF Leave
<1>12. CASE Last(c)
  BY <1>0, <1>12 DEF Last, WriteFinal
<1> QED
  BY <1>1, <1>2, <1>3, <1>4, <1>5, <1>6, <1>7, <1>8, <1>9, <1>10, <1>11, <1>12 DEF Worker

LEMMA NextTarget ==
  ASSUME AdapterInv, [Next]_vars
  PROVE  TargetInv'
<1> USE DEF AdapterInv, TargetInv, MainWrites, shared, intake
<1>1. CASE Main
  BY <1>1 DEF Main, Initialize, AnswerAtOnce, ShutCancelled, EndOfInput, Closing,
     CloseActive, FlagNext, ShutNext, CloseDone, JoinWorkers, TooManyActive, Dispatch, Cancel
<1>2. ASSUME NEW c \in Calls, Worker(c) PROVE main' = main /\ target' = target
  BY <1>2 DEF Worker, Start, Connect, Register, Recheck, Send, Fail, Remove, Loop,
     ReadResponse, ReadError, Leave, Last
<1>3. CASE OutputCloses \/ (\E c \in Calls : PeerCloses(c)) \/ UNCHANGED vars
  BY <1>3 DEF OutputCloses, PeerCloses, vars
<1> QED
  BY <1>1, <1>2, <1>3 DEF Next

LEMMA NextInv == AdapterInv /\ [Next]_vars => AdapterInv'
<1>t. ASSUME AdapterInv, [Next]_vars PROVE TargetInv'
  BY <1>t, NextTarget
<1> SUFFICES ASSUME AdapterInv, [Next]_vars, NEW d \in Calls PROVE CallInv(d)'
  BY NextTypeOK, <1>t DEF AdapterInv
<1>0. TypeOK /\ CallInv(d)
  BY DEF AdapterInv
<1>1. CASE Main
  BY <1>1, MainInv
<1>2. ASSUME NEW c \in Calls, Worker(c) PROVE CallInv(d)'
  BY <1>2, WorkerInv, WorkerFrame
<1>3. CASE OutputCloses
  BY <1>0, <1>3 DEF OutputCloses, CallInv, CancellationHandled, intake
<1>4. ASSUME NEW c \in Calls, PeerCloses(c) PROVE CallInv(d)'
  BY <1>0, <1>4 DEF PeerCloses, CallInv, CancellationHandled, TypeOK, intake, shared
<1>5. CASE UNCHANGED vars
  BY <1>0, <1>5 DEF vars, CallInv, CancellationHandled
<1> QED
  BY <1>1, <1>2, <1>3, <1>4, <1>5 DEF Next

LEMMA AdapterInvariant == Spec => []AdapterInv
BY InitInv, NextInv, PTL DEF Spec

\* A call has one final response, and none is missing while the client is
\* there to take it (CallRequest::run).
THEOREM OneFinalResponse == Spec => []OneFinal
<1>1. ASSUME AdapterInv PROVE OneFinal
  <2> SUFFICES ASSUME NEW c \in Calls
               PROVE  /\ finals[c] <= 1
                      /\ Over(c) /\ alive /\ outputOpen => finals[c] = 1
    BY DEF OneFinal
  <2>1. CallInv(c)
    BY <1>1 DEF AdapterInv
  <2>2. finals[c] = 0 \/ finals[c] = 1
    BY <2>1 DEF CallInv
  <2> QED
    BY <2>1, <2>2 DEF CallInv, Over
<1> QED
  BY <1>1, AdapterInvariant, PTL

\* A request id is spent on one query (call_request, seen_ids).
THEOREM OneQueryPerId == Spec => []NoDuplicateSend
<1>1. ASSUME AdapterInv PROVE NoDuplicateSend
  <2> SUFFICES ASSUME NEW c \in Calls PROVE sent[c] <= 1
    BY DEF NoDuplicateSend
  <2>1. sent[c] = 0 \/ sent[c] = 1
    BY <1>1 DEF AdapterInv, CallInv
  <2> QED
    BY <2>1
<1> QED
  BY <1>1, AdapterInvariant, PTL

\* A handled cancellation is final: the call writes no query after it
\* (CallRequest::run registers its handle, looks at the flag again, sends).
THEOREM CancellationHolds == Spec => NoSendAfterCancel
<1>1. AdapterInv /\ [Next]_vars
        => [\A c \in Calls : CancellationHandled(c) => sent'[c] = sent[c]]_vars
  <2> SUFFICES ASSUME AdapterInv, Next, NEW c \in Calls, CancellationHandled(c)
               PROVE  sent'[c] = sent[c]
    OBVIOUS
  <2>1. TypeOK /\ CallInv(c)
    BY DEF AdapterInv
  <2>2. CASE Main
    BY <2>2 DEF Main, Initialize, AnswerAtOnce, ShutCancelled, EndOfInput, Closing,
                CloseActive, FlagNext, ShutNext, CloseDone, JoinWorkers, TooManyActive,
                Dispatch, Cancel
  <2>3. ASSUME NEW d \in Calls, Worker(d) PROVE sent'[c] = sent[c]
    <3>1. CASE Send(d)
      <4>1. CASE d # c
        BY <2>1, <3>1, <4>1 DEF Send, TypeOK
      <4>2. CASE d = c
        BY <2>1, <3>1, <4>2 DEF Send, CallInv
      <4> QED
        BY <4>1, <4>2
    <3>2. CASE ~Send(d)
      BY <2>3, <3>2 DEF Worker, Start, Connect, Register, Recheck, Fail, Remove, Loop,
                        ReadResponse, ReadError, Leave, Last
    <3> QED
      BY <3>1, <3>2
  <2>4. CASE OutputCloses
    BY <2>4 DEF OutputCloses
  <2>5. ASSUME NEW d \in Calls, PeerCloses(d) PROVE sent'[c] = sent[c]
    BY <2>5 DEF PeerCloses
  <2> QED
    BY <2>2, <2>3, <2>4, <2>5 DEF Next
<1> QED
  BY <1>1, AdapterInvariant, PTL DEF Spec, NoSendAfterCancel

(***************************************************************************)
(* A cancellation frees its worker.  The flag is set with the mutex held   *)
(* and the socket shut before it is given back, so a worker past its       *)
(* registration is flagged and shut at once, and one that registers later  *)
(* finds the flag.                                                         *)
(***************************************************************************)
FreeInv(c) ==
  /\ cancelled[c] => c \in seen
  /\ c \in active \cup pending => c \in seen
  /\ pc[c] \in {"register", "recheck", "send", "loop", "read"} => stream[c] # "none"
  /\ pc[c] \in {"recheck", "send", "loop", "read"} => registered[c]
  /\ pc[c] \in {"send", "loop", "read"} /\ CancellationHandled(c) => stream[c] # "open"
  /\ main \in {"flagging", "shutting"} /\ pc[c] \in InMap => cancelled[c] \/ c \in pending
  /\ main \in {"joining", "exited"} /\ pc[c] \in InMap => cancelled[c]

FreedInv == AdapterInv /\ \A c \in Calls : FreeInv(c)

LEMMA InitFreed == Init => FreedInv
BY InitInv DEF Init, FreedInv, FreeInv, InMap, CancellationHandled

LEMMA MainFrees ==
  ASSUME FreedInv, Main, NEW d \in Calls
  PROVE  FreeInv(d)'
<1>0. TypeOK /\ TargetInv /\ CallInv(d) /\ FreeInv(d)
  BY DEF FreedInv, AdapterInv
<1> USE DEF TypeOK, TargetInv, FreeInv, MainWrites, shared, intake, InMap,
            CancellationHandled
<1>1. CASE Initialize \/ AnswerAtOnce \/ EndOfInput \/ JoinWorkers
  BY <1>0, <1>1 DEF Initialize, AnswerAtOnce, EndOfInput, JoinWorkers
<1>2. CASE ShutCancelled
  BY <1>0, <1>2 DEF ShutCancelled, ShutObservers
<1>3. CASE CloseActive \/ CloseDone
  <2>1. pc[d] \in InMap => d \in active
    BY <1>0 DEF CallInv
  <2> QED
    BY <1>0, <1>3, <2>1 DEF CloseActive, CloseDone
<1>4. CASE ShutNext
  BY <1>0, <1>4 DEF ShutNext, ShutObservers
<1>5. ASSUME NEW c \in Calls, FlagNext(c) PROVE FreeInv(d)'
  <2>1. c \in seen
    BY <1>5 DEF FlagNext, FreedInv, FreeInv
  <2> QED
    BY <1>0, <1>5, <2>1 DEF FlagNext
<1>6. ASSUME NEW c \in Calls, TooManyActive(c) PROVE FreeInv(d)'
  BY <1>0, <1>6 DEF TooManyActive
<1>7. ASSUME NEW c \in Calls, Dispatch(c) PROVE FreeInv(d)'
  BY <1>0, <1>7 DEF Dispatch
<1>8. ASSUME NEW c \in Calls, Cancel(c) PROVE FreeInv(d)'
  BY <1>0, <1>8 DEF Cancel
<1> QED
  BY <1>1, <1>2, <1>3, <1>4, <1>5, <1>6, <1>7, <1>8 DEF Main, Closing

LEMMA WorkerFrees ==
  ASSUME FreedInv, NEW c \in Calls, Worker(c)
  PROVE  FreeInv(c)'
<1>0. TypeOK /\ CallInv(c) /\ FreeInv(c)
  BY DEF FreedInv, AdapterInv
<1> USE DEF TypeOK, FreeInv, Goto, shared, intake, InMap, Places, CancellationHandled
<1>1. CASE Start(c) \/ Connect(c)
  BY <1>0, <1>1 DEF Start, Connect
<1>2. CASE Register(c)
  <2>1. c \in active
    BY <1>0, <1>2 DEF Register, CallInv
  <2> QED
    BY <1>0, <1>2, <2>1 DEF Register
<1>3. CASE Recheck(c)
  BY <1>0, <1>3 DEF Recheck
<1>4. CASE Send(c) \/ Loop(c)
  BY <1>0, <1>4 DEF Send, Loop
<1>5. CASE ReadResponse(c)
  <2>1. /\ pc[c] = "read" /\ pc'[c] \in {"leave", "loop"}
        /\ pc'[c] = "loop" => cancelled' = cancelled /\ stream' = stream
        /\ cancelled[c] => cancelled'[c]
        /\ main' = main /\ target' = target /\ pending' = pending /\ seen' = seen
        /\ active' = active
        /\ registered' = registered
    BY <1>0, <1>5 DEF ReadResponse
  <2>2. c \in active
    BY <1>0, <2>1 DEF CallInv
  <2> QED
    BY <1>0, <2>1, <2>2
<1>6. CASE ReadError(c) \/ Leave(c)
  BY <1>0, <1>6 DEF ReadError, Leave
<1>7. CASE Fail(c) \/ Remove(c) \/ Last(c)
  BY <1>0, <1>7 DEF Fail, Remove, Last
<1> QED
  BY <1>1, <1>2, <1>3, <1>4, <1>5, <1>6, <1>7 DEF Worker

LEMMA NextFreed == FreedInv /\ [Next]_vars => FreedInv'
<1> SUFFICES ASSUME FreedInv, [Next]_vars, NEW d \in Calls PROVE FreeInv(d)'
  BY NextInv DEF FreedInv
<1>0. TypeOK /\ FreeInv(d)
  BY DEF FreedInv, AdapterInv
<1>1. ASSUME NEW c \in Calls, Worker(c), d # c PROVE FreeInv(d)'
  <2>1. /\ pc'[d] = pc[d] /\ cancelled'[d] = cancelled[d] /\ registered'[d] = registered[d]
        /\ stream'[d] = stream[d] /\ (d \in active' <=> d \in active)
        /\ seen' = seen /\ main' = main /\ target' = target /\ pending' = pending
    BY <1>0, <1>1 DEF Worker, Start, Connect, Register, Recheck, Send, Fail, Remove, Loop,
       ReadResponse, ReadError, Leave, Last, Goto, TypeOK, shared, intake
  <2> QED
    BY <1>0, <2>1 DEF FreeInv, CancellationHandled
<1>2. CASE OutputCloses
  BY <1>0, <1>2 DEF OutputCloses, FreeInv, CancellationHandled, intake
<1>3. ASSUME NEW c \in Calls, PeerCloses(c) PROVE FreeInv(d)'
  BY <1>0, <1>3 DEF PeerCloses, FreeInv, CancellationHandled, TypeOK, intake, shared
<1>4. CASE UNCHANGED vars
  BY <1>0, <1>4 DEF vars, FreeInv, CancellationHandled
<1> QED
  BY <1>1, <1>2, <1>3, <1>4, MainFrees, WorkerFrees DEF Next

LEMMA FreedInvariant == Spec => []FreedInv
BY InitFreed, NextFreed, PTL DEF Spec

\* No cancelled call, and none after the end of input, waits on an open socket for
\* a Message that may stay silent (CallRequest::run, Sender::run).
THEOREM NobodyIsStranded == Spec => []NobodyStranded
<1>1. ASSUME FreedInv PROVE NobodyStranded
  <2> SUFFICES ASSUME NEW c \in Calls, pc[c] = "read",
                      CancellationHandled(c) \/ main = "joining"
               PROVE  stream[c] = "shut"
    BY DEF NobodyStranded
  <2>1. TypeOK /\ TargetInv /\ FreeInv(c)
    BY <1>1 DEF FreedInv, AdapterInv
  <2>2. CancellationHandled(c)
    BY <2>1 DEF TargetInv, FreeInv, InMap, CancellationHandled
  <2>3. stream[c] \in {"none", "open", "shut"}
    BY <2>1 DEF TypeOK
  <2> QED
    BY <2>1, <2>2, <2>3 DEF FreeInv
<1> QED
  BY <1>1, FreedInvariant, PTL

\* A cancelled worker has a bounded way to go: nothing takes its flag back, and
\* each of its steps brings it nearer to its end (CallRequest::run).
THEOREM CancelledNeverTurnsBack == Spec => CancelledGoesOn
<1>1. ASSUME FreedInv, Next, NEW c \in Calls, cancelled[c]
      PROVE  cancelled'[c] /\ (pc'[c] = pc[c] \/ Remaining[pc'[c]] < Remaining[pc[c]])
  <2>0. TypeOK /\ CallInv(c) /\ FreeInv(c)
    BY <1>1 DEF FreedInv, AdapterInv
  <2>1. CASE Main
    BY <1>1, <2>0, <2>1 DEF Main, Initialize, AnswerAtOnce, ShutCancelled, EndOfInput,
       Closing, CloseActive, FlagNext, ShutNext, CloseDone, JoinWorkers, TooManyActive,
       Dispatch, Cancel, Admissible, FreeInv, TypeOK
  <2>2. CASE Worker(c)
    <3>1. cancelled'[c]
      BY <1>1, <2>0, <2>2 DEF Worker, Start, Connect, Register, Recheck, Send, Fail, Remove,
         Loop, ReadResponse, ReadError, Leave, Last, TypeOK
    <3>2. pc[c] \in Places /\ pc'[c] \in Places /\ Remaining[pc'[c]] < Remaining[pc[c]]
      <4>1. CASE Start(c) \/ Connect(c) \/ Register(c) \/ Recheck(c) \/ Send(c) \/ Fail(c)
        BY <1>1, <2>0, <4>1 DEF Start, Connect, Register, Recheck, Send, Fail, Goto, TypeOK,
           Remaining, Places
      <4>2. CASE Remove(c) \/ Loop(c) \/ ReadError(c) \/ Leave(c) \/ Last(c)
        BY <1>1, <2>0, <4>2 DEF Remove, Loop, ReadError, Leave, Last, Goto, TypeOK,
           Remaining, Places
      <4>3. CASE ReadResponse(c)
        <5>1. pc[c] = "read" /\ pc'[c] \in {"loop", "leave"}
          BY <2>0, <4>3 DEF ReadResponse, Goto, TypeOK
        <5> QED
          BY <5>1 DEF Remaining, Places
      <4> QED
        BY <2>2, <4>1, <4>2, <4>3 DEF Worker
    <3> QED
      BY <3>1, <3>2
  <2>3. ASSUME NEW d \in Calls, d # c, Worker(d) PROVE cancelled'[c] /\ pc'[c] = pc[c]
    BY <1>1, <2>0, <2>3 DEF Worker, Start, Connect, Register, Recheck, Send, Fail, Remove,
       Loop, ReadResponse, ReadError, Leave, Last, Goto, TypeOK
  <2>4. CASE OutputCloses \/ \E d \in Calls : PeerCloses(d)
    BY <1>1, <2>4 DEF OutputCloses, PeerCloses
  <2> QED
    BY <1>1, <2>1, <2>2, <2>3, <2>4 DEF Next
<1>2. FreedInv /\ [Next]_vars
        => [\A c \in Calls : cancelled[c] =>
              cancelled'[c] /\ (pc'[c] = pc[c] \/ Remaining[pc'[c]] < Remaining[pc[c]])]_vars
  BY <1>1
<1> QED
  BY <1>2, FreedInvariant, PTL DEF Spec, CancelledGoesOn

(***************************************************************************)
(* The contract of a call.  A step of the main thread or of a worker       *)
(* decides, queries or ends one call, or takes the connection away, and    *)
(* never two of these at once.                                             *)
(***************************************************************************)
fates == [c \in Calls |-> Fate(c)]
connected == alive /\ outputOpen

LEMMA MainKeeps ==
  ASSUME AdapterInv, Main
  PROVE  [Contract!Next]_<<fates, sent, finals, connected>>
<1>0. TypeOK /\ \A c \in Calls : CallInv(c)
  BY DEF AdapterInv
<1>1. ASSUME NEW c \in Calls, TooManyActive(c) PROVE Contract!Refuse(c)
  <2>1. /\ c \notin seen /\ seen' = seen \cup {c} /\ pc[c] = "none" /\ finals[c] = 0
        /\ pc' = pc /\ sent' = sent /\ connected' = connected
    BY <1>0, <1>1 DEF TooManyActive, Admissible, CallInv, MainWrites, connected, TypeOK
  <2>2. finals' = [finals EXCEPT ![c] = 1] \/ (~connected /\ finals' = finals)
    <3>1. finals[c] + 1 = 1
      BY <2>1
    <3>2. finals' = [finals EXCEPT ![c] = finals[c] + 1] \/ (~connected /\ finals' = finals)
      BY <1>1 DEF TooManyActive, WriteFinal, connected
    <3> QED
      BY <3>1, <3>2
  <2>3. Fate(c) = "fresh" /\ Fate(c)' = "refused"
    BY <2>1 DEF Fate
  <2>4. fates' = [fates EXCEPT ![c] = "refused"]
    BY <2>1, <2>3 DEF fates, Fate
  <2> QED
    BY <2>1, <2>2, <2>3, <2>4 DEF Contract!Refuse, Contract!Respond, fates, connected
<1>2. ASSUME NEW c \in Calls, Dispatch(c) PROVE Contract!Admit(c)
  <2>1. /\ c \notin seen /\ seen' = seen \cup {c} /\ pc' = [pc EXCEPT ![c] = "start"]
        /\ sent' = sent /\ finals' = finals /\ connected' = connected
    BY <1>2 DEF Dispatch, Admissible, connected
  <2>2. Fate(c) = "fresh" /\ Fate(c)' = "running"
    BY <1>0, <2>1 DEF Fate, TypeOK
  <2>3. \A d \in Calls \ {c} : Fate(d)' = Fate(d)
    BY <1>0, <2>1 DEF Fate, TypeOK
  <2>4. fates' = [fates EXCEPT ![c] = "running"]
    BY <2>2, <2>3 DEF fates
  <2> QED
    BY <2>1, <2>2, <2>4 DEF Contract!Admit, fates, connected
<1>3. CASE Initialize \/ AnswerAtOnce \/ ShutCancelled \/ EndOfInput \/ Closing
             \/ JoinWorkers \/ \E c \in Calls : Cancel(c)
  <2>1. /\ pc' = pc /\ seen' = seen /\ sent' = sent /\ finals' = finals
        /\ connected' = connected \/ connected' = FALSE
    BY <1>0, <1>3 DEF Initialize, AnswerAtOnce, ShutCancelled, EndOfInput, Closing,
       CloseActive, FlagNext, ShutNext, CloseDone, JoinWorkers, Cancel, MainWrites,
       shared, connected, TypeOK
  <2>2. fates' = fates
    BY <2>1 DEF fates, Fate
  <2> QED
    BY <2>1, <2>2 DEF Contract!Next, Contract!Disconnect, fates, connected
<1> QED
  BY <1>1, <1>2, <1>3 DEF Main, Contract!Next

LEMMA WorkerKeeps ==
  ASSUME AdapterInv, NEW c \in Calls, Worker(c)
  PROVE  [Contract!Next]_<<fates, sent, finals, connected>>
<1>0. TypeOK /\ CallInv(c)
  BY DEF AdapterInv
<1>1. /\ seen' = seen /\ pc[c] # "none" /\ pc'[c] # "none" /\ c \in seen
      /\ \A d \in Calls \ {c} : pc'[d] = pc[d]
  BY <1>0 DEF Worker, Start, Connect, Register, Recheck, Send, Fail, Remove, Loop,
              ReadResponse, ReadError, Leave, Last, Goto, TypeOK, CallInv, intake
<1>2. \A d \in Calls \ {c} : Fate(d)' = Fate(d)
  BY <1>1 DEF Fate
<1>3. fates' = [fates EXCEPT ![c] = Fate(c)']
  BY <1>2 DEF fates
<1>4. CASE Send(c)
  <2>1. pc[c] \notin {"remove", "done"} /\ pc'[c] \notin {"remove", "done"}
    BY <1>0, <1>4 DEF Send, Goto, TypeOK
  <2>2. Fate(c) = "running" /\ Fate(c)' = "running"
    BY <1>1, <2>1 DEF Fate
  <2>3. fates' = fates
    BY <1>3, <2>2 DEF fates
  <2>4. sent[c] = 0 /\ (sent' = [sent EXCEPT ![c] = 1] \/ sent' = sent)
    <3>1. sent[c] = 0
      BY <1>0, <1>4 DEF Send, CallInv, BeforeSend
    <3>2. sent[c] + 1 = 1
      BY <3>1
    <3> QED
      BY <1>4, <3>1, <3>2 DEF Send
  <2>5. connected' = connected /\ finals' = finals
    BY <1>4 DEF Send, connected, shared
  <2> QED
    BY <2>2, <2>3, <2>4, <2>5 DEF Contract!Next, Contract!Query, fates, connected
<1>5. CASE Fail(c) \/ Last(c)
  <2>1. Fate(c) = "running" /\ Fate(c)' = "ended"
    <3>1. pc[c] \notin {"remove", "done"} /\ pc'[c] \in {"remove", "done"}
      BY <1>0, <1>5 DEF Fail, Last, Goto, TypeOK
    <3> QED
      BY <1>1, <3>1 DEF Fate
  <2>2. sent' = sent /\ connected' = connected
    BY <1>5 DEF Fail, Last, connected, shared
  <2>3. finals' = [finals EXCEPT ![c] = 1] \/ (~connected /\ finals' = finals)
    <3>1. finals[c] = 0
      BY <1>0, <1>5 DEF Fail, Last, CallInv, Unanswered, Places
    <3>2. finals[c] + 1 = 1
      BY <3>1
    <3>3. finals' = [finals EXCEPT ![c] = finals[c] + 1] \/ (~connected /\ finals' = finals)
      BY <1>0, <1>5 DEF Fail, Last, WriteFinal, CallInv, connected
    <3> QED
      BY <3>2, <3>3
  <2> QED
    BY <1>3, <2>1, <2>2, <2>3
    DEF Contract!Next, Contract!End, Contract!Respond, fates, connected
<1>6. CASE ~(Send(c) \/ Fail(c) \/ Last(c))
  <2>1. /\ sent' = sent /\ finals' = finals
        /\ pc[c] \in {"remove", "done"} <=> pc'[c] \in {"remove", "done"}
        /\ connected' = connected
    BY <1>0, <1>6 DEF Worker, Start, Connect, Register, Recheck, Remove, Loop,
       ReadResponse, ReadError, Leave, Goto, TypeOK, shared, connected
  <2>2. Fate(c)' = Fate(c)
    BY <1>1, <2>1 DEF Fate
  <2>3. fates' = fates
    BY <1>3, <2>2 DEF fates
  <2> QED
    BY <2>1, <2>3 DEF Contract!Next, fates, connected
<1> QED
  BY <1>4, <1>5, <1>6

\* The adapter implements the contract of a call, for any request ids and limits.
THEOREM CallContractKept == Spec => KeepsCallContract
<1>1. Init => Contract!Init
  BY DEF Init, Contract!Init, Fate
<1>2. AdapterInv /\ [Next]_vars => [Contract!Next]_(Contract!vars)
  <2> SUFFICES ASSUME AdapterInv, [Next]_vars
               PROVE  [Contract!Next]_<<fates, sent, finals, connected>>
    BY DEF Contract!vars, fates, connected
  <2>1. CASE OutputCloses
    <3>1. fates' = fates /\ sent' = sent /\ finals' = finals /\ connected' = FALSE
      BY <2>1 DEF OutputCloses, fates, connected, Fate, intake
    <3> QED
      BY <3>1 DEF Contract!Next, Contract!Disconnect, fates, connected
  <2>2. CASE (\E c \in Calls : PeerCloses(c)) \/ UNCHANGED vars
    BY <2>2 DEF PeerCloses, vars, fates, connected, Fate, intake, shared
  <2> QED
    BY <2>1, <2>2, MainKeeps, WorkerKeeps DEF Next
<1> QED
  BY <1>1, <1>2, AdapterInvariant, PTL DEF Spec, KeepsCallContract, Contract!Spec

=============================================================================
