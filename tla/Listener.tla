------------------------------ MODULE Listener ------------------------------
(***************************************************************************)
(* The threads of message-nexus (crates/message-nexus/src/listener.rs): the *)
(* main thread that accepts connections and ends on SIGTERM or SIGINT, one *)
(* worker per connection, and for a worker that forwards a Flow            *)
(* subscription a watcher that reads the client's socket only to see its   *)
(* end.  The threads meet in the sockets: the main thread keeps a handle   *)
(* of every client socket to shut down, the watcher one of the Flow        *)
(* stream, and each blocks until the other side writes, closes or is shut. *)
(*                                                                         *)
(* What a worker asks of Flow is in SendPath; here it is a wait that ends  *)
(* in bounded time but in a connect that Flow does not accept and in an    *)
(* abrupt Wake Deliver.  A client may stop reading or go away at any time, *)
(* Flow may stay silent on a subscription.                                 *)
(***************************************************************************)
EXTENDS FiniteSets

CONSTANT Connections

VARIABLES
  main,        \* "polling", "closing", "joining", "exited"
  client,      \* client[k]: "away", "connected", "gone"
  worker,      \* worker[k]: where k's worker is
  finished,    \* finished[k]: the frame being forwarded ends the delivery
  watcher,     \* watcher[k]: "none", "reading", "done"
  flowStream,  \* flowStream[k]: "none", "open", "shut"
  readShut,    \* readShut[k]: the receive half of the client socket is shut
  writeShut,   \* writeShut[k]: its send half is
  kept         \* connections whose handle the main thread holds

vars == <<main, client, worker, finished, watcher, flowStream, readShut, writeShut, kept>>

Places == {"none", "query", "flow", "blocked", "answer", "accepted", "watch",
           "observe", "forward", "interrupt", "unwatch", "join", "close", "done"}

TypeOK ==
  /\ main \in {"polling", "closing", "joining", "exited"}
  /\ client \in [Connections -> {"away", "connected", "gone"}]
  /\ worker \in [Connections -> Places]
  /\ finished \in [Connections -> BOOLEAN]
  /\ watcher \in [Connections -> {"none", "reading", "done"}]
  /\ flowStream \in [Connections -> {"none", "open", "shut"}]
  /\ readShut \in [Connections -> BOOLEAN]
  /\ writeShut \in [Connections -> BOOLEAN]
  /\ kept \subseteq Connections

Init ==
  /\ main = "polling"
  /\ client = [k \in Connections |-> "away"]
  /\ worker = [k \in Connections |-> "none"]
  /\ finished = [k \in Connections |-> FALSE]
  /\ watcher = [k \in Connections |-> "none"]
  /\ flowStream = [k \in Connections |-> "none"]
  /\ readShut = [k \in Connections |-> FALSE]
  /\ writeShut = [k \in Connections |-> FALSE]
  /\ kept = {}

sockets == <<flowStream, readShut, writeShut>>

-----------------------------------------------------------------------------
(* The main thread.                                                         *)

\* A connection is accepted; then every finished worker's handle is let go.
Accept(k) ==
  /\ main = "polling" /\ client[k] = "away"
  /\ client' = [client EXCEPT ![k] = "connected"]
  /\ worker' = [worker EXCEPT ![k] = "query"]
  /\ kept' = {j \in kept : worker[j] # "done"} \cup {k}
  /\ UNCHANGED <<main, finished, watcher, sockets>>

\* A signal, or a failure of poll or accept: no connection is accepted any more.
StopPolling ==
  /\ main = "polling"
  /\ main' = "closing"
  /\ UNCHANGED <<client, worker, finished, watcher, sockets, kept>>

\* Mutant: only the send half is shut.
ShutClientsHalf ==
  /\ main = "closing"
  /\ writeShut' = [k \in Connections |-> writeShut[k] \/ k \in kept]
  /\ main' = "joining"
  /\ UNCHANGED <<client, worker, finished, watcher, flowStream, readShut, kept>>

ShutClients ==
  /\ main = "closing"
  /\ readShut' = [k \in Connections |-> readShut[k] \/ k \in kept]
  /\ writeShut' = [k \in Connections |-> writeShut[k] \/ k \in kept]
  /\ main' = "joining"
  /\ UNCHANGED <<client, worker, finished, watcher, flowStream, kept>>

JoinWorkers ==
  /\ main = "joining"
  /\ \A k \in kept : worker[k] = "done"
  /\ main' = "exited"
  /\ UNCHANGED <<client, worker, finished, watcher, sockets, kept>>

-----------------------------------------------------------------------------
(* A worker.                                                                *)

Goto(k, place) == worker' = [worker EXCEPT ![k] = place]

\* Reading the client's socket comes to its end; writing to it fails.
ReadEnds(k)   == client[k] = "gone" \/ readShut[k]
WriteFails(k) == client[k] = "gone" \/ writeShut[k]

\* A Send, an observation, or a Configure; or the frame cannot be read.
ReadQuery(k) ==
  /\ worker[k] = "query"
  /\ \/ \E place \in {"flow", "answer", "close"} : Goto(k, place)
     \/ ReadEnds(k) /\ Goto(k, "close")
  /\ UNCHANGED <<main, client, finished, watcher, sockets, kept>>

\* What Flow leads to: a response, an acceptance without a subscription to follow it,
\* or one opened before the acceptance is written; an observation has only the last.
Outcome(k) ==
  /\ \/ /\ \E place \in {"answer", "accepted"} : Goto(k, place)
        /\ UNCHANGED flowStream
     \/ /\ \E place \in {"accepted", "watch"} : Goto(k, place)
        /\ flowStream' = [flowStream EXCEPT ![k] = "open"]
  /\ UNCHANGED <<main, client, finished, watcher, readShut, writeShut, kept>>

\* The exchanges with Flow are over, at the latest when they time out.
FlowAnswers(k) == worker[k] = "flow" /\ Outcome(k)

\* One of them has no time-out: a connect while Flow accepts nothing, or the read of
\* an abrupt Wake Deliver.
BlockOnFlow(k) ==
  /\ worker[k] = "flow"
  /\ Goto(k, "blocked")
  /\ UNCHANGED <<main, client, finished, watcher, sockets, kept>>

\* Flow ended it after all.
Unblocked(k) == worker[k] = "blocked" /\ Outcome(k)

\* A frame is written to a client that reads, or the write fails.
Write(k, place, after, failed) ==
  /\ worker[k] = place
  /\ \/ ~WriteFails(k) /\ client[k] = "connected" /\ Goto(k, after)
     \/ WriteFails(k) /\ Goto(k, failed)
  /\ UNCHANGED <<main, client, finished, watcher, sockets, kept>>

Answer(k)    == Write(k, "answer", "close", "close")
Accepted(k)  ==
  Write(k, "accepted", IF flowStream[k] = "open" THEN "watch" ELSE "answer", "close")
Forward(k)   == Write(k, "forward", IF finished[k] THEN "unwatch" ELSE "observe", "unwatch")
Interrupt(k) == Write(k, "interrupt", "unwatch", "unwatch")

\* The watcher is started, or the response ends when a handle cannot be duplicated.
Watch(k) ==
  /\ worker[k] = "watch"
  /\ \/ Goto(k, "observe") /\ watcher' = [watcher EXCEPT ![k] = "reading"]
     \/ Goto(k, "close") /\ UNCHANGED watcher
  /\ UNCHANGED <<main, client, finished, sockets, kept>>

\* Flow wrote a status, perhaps before its stream was shut.
FlowStatus(k) ==
  /\ worker[k] = "observe"
  /\ \E last \in BOOLEAN : finished' = [finished EXCEPT ![k] = last]
  /\ Goto(k, "forward")
  /\ UNCHANGED <<main, client, watcher, sockets, kept>>

\* Mutant: the observation is given up at a place of no other step.
FlowClosesAside(k) ==
  /\ worker[k] = "observe"
  /\ Goto(k, "given up")
  /\ UNCHANGED <<main, client, finished, watcher, sockets, kept>>

\* Flow wrote something else, or closed.
FlowCloses(k) ==
  /\ worker[k] = "observe"
  /\ Goto(k, "interrupt")
  /\ UNCHANGED <<main, client, finished, watcher, sockets, kept>>

\* The Flow stream was shut from this side.
StreamEnds(k) == flowStream[k] = "shut" /\ FlowCloses(k)

\* Mutant: the watcher is left to the client.
UnwatchNot(k) ==
  /\ worker[k] = "unwatch"
  /\ Goto(k, "join")
  /\ UNCHANGED <<main, client, finished, watcher, sockets, kept>>

\* Shutting the receive half alone releases the watcher, and what was written
\* still reaches the client.
Unwatch(k) ==
  /\ worker[k] = "unwatch"
  /\ readShut' = [readShut EXCEPT ![k] = TRUE]
  /\ Goto(k, "join")
  /\ UNCHANGED <<main, client, finished, watcher, flowStream, writeShut, kept>>

\* Mutant: the watcher is not waited for.
JoinWatcherNot(k) ==
  /\ worker[k] = "join"
  /\ Goto(k, "close")
  /\ UNCHANGED <<main, client, finished, watcher, sockets, kept>>

JoinWatcher(k) ==
  /\ worker[k] = "join" /\ watcher[k] = "done"
  /\ Goto(k, "close")
  /\ UNCHANGED <<main, client, finished, watcher, sockets, kept>>

\* Mutant: the end of the response is left to the handles' being dropped.
CloseNot(k) ==
  /\ worker[k] = "close"
  /\ Goto(k, "done")
  /\ UNCHANGED <<main, client, finished, watcher, sockets, kept>>

\* The main thread still holds a handle: shutting the send half, not dropping
\* the socket, ends the response.
Close(k) ==
  /\ worker[k] = "close"
  /\ writeShut' = [writeShut EXCEPT ![k] = TRUE]
  /\ Goto(k, "done")
  /\ UNCHANGED <<main, client, finished, watcher, flowStream, readShut, kept>>

-----------------------------------------------------------------------------
(* A watcher, and the clients.                                              *)

\* Mutant: the watcher ends and leaves the Flow stream alone.
WatcherEndsAlone(k) ==
  /\ watcher[k] = "reading" /\ ReadEnds(k)
  /\ watcher' = [watcher EXCEPT ![k] = "done"]
  /\ UNCHANGED <<main, client, worker, finished, sockets, kept>>

\* The client's end of file: the Flow stream is shut under the worker.
WatcherEnds(k) ==
  /\ watcher[k] = "reading" /\ ReadEnds(k)
  /\ watcher' = [watcher EXCEPT ![k] = "done"]
  /\ flowStream' = [flowStream EXCEPT ![k] = "shut"]
  /\ UNCHANGED <<main, client, worker, finished, readShut, writeShut, kept>>

ClientLeaves(k) ==
  /\ client[k] = "connected"
  /\ client' = [client EXCEPT ![k] = "gone"]
  /\ UNCHANGED <<main, worker, finished, watcher, sockets, kept>>

\* Steps of a worker that end without the help of its client or of Flow.
WorkerRuns(k) ==
  \/ worker[k] = "query" /\ ReadEnds(k) /\ ReadQuery(k)
  \/ FlowAnswers(k) \/ Watch(k) \/ StreamEnds(k)
  \/ WriteFails(k) /\ (Answer(k) \/ Accepted(k) \/ Forward(k) \/ Interrupt(k))
  \/ Unwatch(k) \/ JoinWatcher(k) \/ Close(k)

WorkerStep(k) ==
  \/ ReadQuery(k) \/ FlowAnswers(k) \/ BlockOnFlow(k) \/ Unblocked(k) \/ Answer(k)
  \/ Accepted(k) \/ Watch(k) \/ FlowStatus(k) \/ FlowCloses(k) \/ Forward(k)
  \/ Interrupt(k) \/ Unwatch(k) \/ JoinWatcher(k) \/ Close(k)

Next ==
  \/ StopPolling \/ ShutClients \/ JoinWorkers
  \/ \E k \in Connections : Accept(k) \/ WorkerStep(k) \/ WatcherEnds(k) \/ ClientLeaves(k)

Spec == Init /\ [][Next]_vars

\* Threads that can run do.  Nothing makes a client read or leave, Flow accept
\* a connection or write, or a signal come.
FairSpec ==
  /\ Spec
  /\ WF_vars(ShutClients) /\ WF_vars(JoinWorkers)
  /\ \A k \in Connections : WF_vars(WorkerRuns(k)) /\ WF_vars(WatcherEnds(k))

-----------------------------------------------------------------------------
(* What the listener promises.                                              *)

\* A process that exits leaves no worker and no watcher behind: "Every handler
\* has released its Arc before the final Engine is dropped" (serve), and a worker
\* that is done has taken its watcher along (forward_subscription).
NothingLeftBehind ==
  /\ main = "exited" => \A k \in Connections : worker[k] \in {"none", "done"}
  /\ \A k \in Connections : worker[k] = "done" => watcher[k] # "reading"

\* Whatever a worker waits for has come, or is brought by its watcher.
Woken(k) ==
  /\ worker[k] = "query" => ReadEnds(k)
  /\ worker[k] \in {"answer", "accepted", "forward", "interrupt"} => WriteFails(k)
  /\ worker[k] = "observe" =>
       flowStream[k] = "shut" \/ (watcher[k] = "reading" /\ ReadEnds(k))
  /\ worker[k] = "join" => watcher[k] = "done" \/ ReadEnds(k)

\* No thread waits for one that will not come: while the main thread joins, or once
\* its client is gone, a worker waits neither for the client nor, its exchanges over,
\* for Flow; a worker that joins its watcher has released it; and a client whose worker
\* is done sees the end of its response, whoever still holds a handle (serve,
\* forward_subscription).
NobodyWaits == \A k \in Connections :
  /\ worker[k] = "join" \/ main = "joining" \/ client[k] = "gone" => Woken(k)
  /\ worker[k] = "done" => writeShut[k]

\* After a signal the process exits, whatever its clients read and whatever Flow
\* answers, unless a worker stays for ever in an exchange that has no time-out, a
\* connect or an abrupt Wake Deliver (serve; tests graceful_shutdown.rs).
ShutdownCompletes ==
  [](main = "closing" =>
       <>(main = "exited") \/ <>[](\E k \in Connections : worker[k] = "blocked"))

\* A client that leaves releases its worker and its Flow stream, although Flow
\* stays silent (the watcher of forward_subscription; message_through_flow.rs,
\* client_disconnect_interrupts_quiet_flow_observation_without_touching_queue).
ClientGoneReleases == \A k \in Connections :
  [](client[k] = "gone" /\ worker[k] = "observe" => <>(worker[k] = "done"))

\* A client that stays connected without another word sees the end of its
\* response, although the main thread holds a handle until its next event.
ResponseEnds == \A k \in Connections :
  [](worker[k] \in {"unwatch", "close"} =>
       <>(writeShut[k] \/ (worker[k] = "done" /\ k \notin kept)))
=============================================================================
