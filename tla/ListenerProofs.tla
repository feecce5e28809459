--------------------------- MODULE ListenerProofs ---------------------------
(***************************************************************************)
(* Proofs about Listener, for any number of connections.                   *)
(***************************************************************************)
EXTENDS Listener, TLAPS

LEMMA InitTypeOK == Init => TypeOK
BY DEF Init, TypeOK, Places

LEMMA NextTypeOK == TypeOK /\ [Next]_vars => TypeOK'
<1> SUFFICES ASSUME TypeOK, [Next]_vars PROVE TypeOK'
  OBVIOUS
<1> USE DEF TypeOK, Places, sockets
<1>1. CASE StopPolling \/ ShutClients \/ JoinWorkers
  BY <1>1 DEF StopPolling, ShutClients, JoinWorkers
<1>2. ASSUME NEW k \in Connections, Accept(k) PROVE TypeOK'
  BY <1>2 DEF Accept
<1>3. ASSUME NEW k \in Connections, WorkerStep(k) PROVE TypeOK'
  <2> USE DEF Goto
  <2>1. CASE ReadQuery(k) \/ FlowAnswers(k) \/ BlockOnFlow(k) \/ Unblocked(k)
    BY <2>1 DEF ReadQuery, FlowAnswers, BlockOnFlow, Unblocked, Outcome
  <2>2. CASE Answer(k) \/ Accepted(k) \/ Forward(k) \/ Interrupt(k)
    BY <2>2 DEF Answer, Accepted, Forward, Interrupt, Write
  <2>3. CASE Watch(k)
    BY <2>3 DEF Watch
  <2>4. CASE FlowStatus(k) \/ FlowCloses(k)
    BY <2>4 DEF FlowStatus, FlowCloses
  <2>5. CASE Unwatch(k) \/ JoinWatcher(k) \/ Close(k)
    BY <2>5 DEF Unwatch, JoinWatcher, Close
  <2> QED
    BY <1>3, <2>1, <2>2, <2>3, <2>4, <2>5 DEF WorkerStep
<1>4. ASSUME NEW k \in Connections, WatcherEnds(k) \/ ClientLeaves(k) PROVE TypeOK'
  BY <1>4 DEF WatcherEnds, ClientLeaves
<1>5. CASE UNCHANGED vars
  BY <1>5 DEF vars
<1> QED
  BY <1>1, <1>2, <1>3, <1>4, <1>5 DEF Next

\* Every variable keeps its type, for any set of connections.
THEOREM TypeCorrect == Spec => []TypeOK
BY InitTypeOK, NextTypeOK, PTL DEF Spec

(***************************************************************************)
(* The main thread lets the handle of a worker go only when the worker is  *)
(* done, so the handles it joins are those of every worker that runs; and  *)
(* a watcher runs only while its worker is between starting it and joining  *)
(* it.                                                                     *)
(***************************************************************************)
Watching == {"observe", "forward", "interrupt", "unwatch", "join"}

ConnectionInv(k) ==
  /\ worker[k] \notin {"none", "done"} => k \in kept
  /\ worker[k] = "none" <=> client[k] = "away"
  /\ watcher[k] = "reading" => worker[k] \in Watching
  /\ main = "exited" => worker[k] \in {"none", "done"}

ListenerInv == TypeOK /\ \A k \in Connections : ConnectionInv(k)

LEMMA InitInv == Init => ListenerInv
BY InitTypeOK DEF Init, ListenerInv, ConnectionInv

LEMMA WorkerKeeps ==
  ASSUME ListenerInv, NEW k \in Connections, WorkerStep(k), NEW j \in Connections
  PROVE  ConnectionInv(j)'
<1>0. TypeOK /\ ConnectionInv(j) /\ ConnectionInv(k)
  BY DEF ListenerInv
<1>1. main' = main /\ client' = client /\ kept' = kept /\ worker[k] \notin {"none", "done"}
  BY DEF WorkerStep, ReadQuery, FlowAnswers, BlockOnFlow, Unblocked, Outcome, Answer, Accepted,
         Forward, Interrupt, Write, Watch, FlowStatus, FlowCloses, Unwatch, JoinWatcher,
         Close
<1>2. worker'[j] # "none" \/ (j # k /\ worker'[j] = worker[j])
  BY <1>0 DEF WorkerStep, ReadQuery, FlowAnswers, BlockOnFlow, Unblocked, Outcome, Answer,
         Accepted, Forward, Interrupt, Write, Watch, FlowStatus, FlowCloses, Unwatch,
         JoinWatcher, Close, Goto, TypeOK
<1>3. j # k => worker'[j] = worker[j] /\ watcher'[j] = watcher[j]
  BY <1>0 DEF WorkerStep, ReadQuery, FlowAnswers, BlockOnFlow, Unblocked, Outcome, Answer,
         Accepted, Forward, Interrupt, Write, Watch, FlowStatus, FlowCloses, Unwatch,
         JoinWatcher, Close, Goto, TypeOK, sockets
<1>4. watcher'[k] = "reading" => worker'[k] \in Watching
  <2>1. CASE Watch(k) \/ JoinWatcher(k)
    BY <1>0, <2>1 DEF Watch, JoinWatcher, Goto, TypeOK, ConnectionInv, Watching, sockets
  <2>2. CASE ~(Watch(k) \/ JoinWatcher(k))
    BY <1>0, <2>2 DEF WorkerStep, ReadQuery, FlowAnswers, BlockOnFlow, Unblocked, Outcome, Answer,
       Accepted, Forward, Interrupt, Write, FlowStatus, FlowCloses, Unwatch, Close, Goto,
       TypeOK, ConnectionInv, Watching, sockets
  <2> QED
    BY <2>1, <2>2
<1> QED
  BY <1>0, <1>1, <1>2, <1>3, <1>4 DEF ConnectionInv

LEMMA NextInv == ListenerInv /\ [Next]_vars => ListenerInv'
<1> SUFFICES ASSUME ListenerInv, [Next]_vars, NEW j \in Connections PROVE ConnectionInv(j)'
  BY NextTypeOK DEF ListenerInv
<1>0. TypeOK /\ ConnectionInv(j)
  BY DEF ListenerInv
<1> USE DEF ConnectionInv, TypeOK, sockets
<1>1. CASE StopPolling \/ ShutClients \/ JoinWorkers
  BY <1>0, <1>1 DEF StopPolling, ShutClients, JoinWorkers
<1>2. ASSUME NEW k \in Connections, Accept(k) PROVE ConnectionInv(j)'
  BY <1>0, <1>2 DEF Accept, Watching
<1>3. ASSUME NEW k \in Connections, WatcherEnds(k) \/ ClientLeaves(k) PROVE ConnectionInv(j)'
  BY <1>0, <1>3 DEF WatcherEnds, ClientLeaves
<1>4. CASE UNCHANGED vars
  BY <1>0, <1>4 DEF vars
<1> QED
  BY <1>1, <1>2, <1>3, <1>4, WorkerKeeps DEF Next

\* A process that exits has joined every worker, and a worker that is done has
\* joined its watcher, however many clients there were (serve and
\* forward_subscription of listener.rs).
THEOREM NoThreadLeftBehind == Spec => []NothingLeftBehind
<1>1. ListenerInv => NothingLeftBehind
  BY DEF ListenerInv, ConnectionInv, NothingLeftBehind, Watching
<1> QED
  BY <1>1, InitInv, NextInv, PTL DEF Spec

(***************************************************************************)
(* Who wakes whom.  A watcher that has ended has shut the Flow stream; it  *)
(* is started once, after the stream was opened, and while its worker      *)
(* watches there is one, running or ended; a worker that joins it has shut *)
(* the client's receive half; and a main thread that joins has shut both   *)
(* halves of every socket whose worker runs.                               *)
(***************************************************************************)
WakeInv(k) ==
  /\ watcher[k] = "done" => flowStream[k] = "shut"
  /\ watcher[k] # "none" => worker[k] \in Watching \cup {"close", "done"}
  /\ worker[k] \in Watching => watcher[k] # "none"
  /\ worker[k] = "join" => readShut[k]
  /\ worker[k] = "done" => writeShut[k]
  /\ main \in {"joining", "exited"} /\ worker[k] \notin {"none", "done"} =>
       readShut[k] /\ writeShut[k]

WakingInv == ListenerInv /\ \A k \in Connections : WakeInv(k)

LEMMA InitWakes == Init => WakingInv
BY InitInv DEF Init, WakingInv, WakeInv, Watching

LEMMA WorkerWakes ==
  ASSUME WakingInv, NEW k \in Connections, WorkerStep(k), NEW j \in Connections
  PROVE  WakeInv(j)'
<1>0. TypeOK /\ WakeInv(j) /\ WakeInv(k) /\ ConnectionInv(k)
  BY DEF WakingInv, ListenerInv
<1>1. CASE j # k
  <2>1. /\ worker'[j] = worker[j] /\ watcher'[j] = watcher[j] /\ main' = main
        /\ flowStream'[j] = flowStream[j] /\ readShut'[j] = readShut[j]
        /\ writeShut'[j] = writeShut[j]
    BY <1>0, <1>1 DEF WorkerStep, ReadQuery, FlowAnswers, BlockOnFlow, Unblocked, Outcome,
       Answer, Accepted, Forward, Interrupt, Write, Watch, FlowStatus, FlowCloses,
       Unwatch, JoinWatcher, Close, Goto, TypeOK, sockets
  <2> QED
    BY <1>0, <2>1 DEF WakeInv
<1>2. WakeInv(k)'
  <2> USE DEF TypeOK, WakeInv, Watching, Goto, sockets
  <2>1. CASE ReadQuery(k) \/ FlowAnswers(k) \/ BlockOnFlow(k) \/ Unblocked(k)
    BY <1>0, <2>1 DEF ReadQuery, FlowAnswers, BlockOnFlow, Unblocked, Outcome
  <2>2. CASE Answer(k) \/ Accepted(k) \/ Forward(k) \/ Interrupt(k)
    BY <1>0, <2>2 DEF Answer, Accepted, Forward, Interrupt, Write
  <2>3. CASE Watch(k)
    BY <1>0, <2>3 DEF Watch
  <2>4. CASE FlowStatus(k) \/ FlowCloses(k)
    BY <1>0, <2>4 DEF FlowStatus, FlowCloses
  <2>5. CASE Unwatch(k) \/ JoinWatcher(k) \/ Close(k)
    BY <1>0, <2>5 DEF Unwatch, JoinWatcher, Close
  <2> QED
    BY <2>1, <2>2, <2>3, <2>4, <2>5 DEF WorkerStep
<1> QED
  BY <1>1, <1>2

LEMMA NextWakes == WakingInv /\ [Next]_vars => WakingInv'
<1> SUFFICES ASSUME WakingInv, [Next]_vars, NEW j \in Connections PROVE WakeInv(j)'
  BY NextInv DEF WakingInv
<1>0. TypeOK /\ WakeInv(j) /\ ConnectionInv(j)
  BY DEF WakingInv, ListenerInv
<1> USE DEF WakeInv, TypeOK, sockets
<1>1. CASE StopPolling \/ JoinWorkers
  BY <1>0, <1>1 DEF StopPolling, JoinWorkers
<1>2. CASE ShutClients
  BY <1>0, <1>2 DEF ShutClients, ConnectionInv
<1>3. ASSUME NEW k \in Connections, Accept(k) PROVE WakeInv(j)'
  BY <1>0, <1>3 DEF Accept, Watching, ConnectionInv
<1>4. ASSUME NEW k \in Connections, WatcherEnds(k) \/ ClientLeaves(k) PROVE WakeInv(j)'
  BY <1>0, <1>4 DEF WatcherEnds, ClientLeaves
<1>5. CASE UNCHANGED vars
  BY <1>0, <1>5 DEF vars
<1> QED
  BY <1>1, <1>2, <1>3, <1>4, <1>5, WorkerWakes DEF Next

\* Whatever a thread waits for when its client has gone, when the process ends or
\* when it joins its watcher, another thread has done or is about to do
\* (serve and forward_subscription of listener.rs).
THEOREM NobodyIsLeftWaiting == Spec => []NobodyWaits
<1>1. ASSUME WakingInv PROVE NobodyWaits
  <2> SUFFICES ASSUME NEW k \in Connections
               PROVE  /\ worker[k] = "join" \/ main = "joining" \/ client[k] = "gone"
                           => Woken(k)
                      /\ worker[k] = "done" => writeShut[k]
    BY DEF NobodyWaits
  <2>1. TypeOK /\ WakeInv(k)
    BY <1>1 DEF WakingInv, ListenerInv
  <2>2. worker[k] \in {"observe", "join"} => watcher[k] \in {"reading", "done"}
    BY <2>1 DEF TypeOK, WakeInv, Watching
  <2> QED
    BY <2>1, <2>2 DEF WakeInv, Woken, ReadEnds, WriteFails
<1> QED
  BY <1>1, InitWakes, NextWakes, PTL DEF Spec
=============================================================================
