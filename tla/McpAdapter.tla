----------------------------- MODULE McpAdapter -----------------------------
(***************************************************************************)
(* The MCP stdio adapter (crates/message-mcp-send/src/main.rs).            *)
(*                                                                         *)
(* The main thread reads one JSON-RPC line at a time: it dispatches a      *)
(* worker thread per accepted tools/call, and on notifications/cancelled   *)
(* flags the call and shuts its socket down.  At the end of input it       *)
(* flags and shuts down every active call and joins the workers.  A worker *)
(* connects to Message, registers a handle of its socket in the active     *)
(* map, writes its one query and streams the responses until one is        *)
(* terminal.  The main thread and the workers share the active map (under  *)
(* its mutex), one cancelled flag per call, the connection_alive flag and  *)
(* standard output; the flags are read and written without the mutex.      *)
(*                                                                         *)
(* Message and the MCP client are external: Message may answer, stay       *)
(* silent or close at any time, the client may close standard output.      *)
(***************************************************************************)
EXTENDS Naturals, FiniteSets

CONSTANTS
  Calls,      \* request ids the client uses, again and again
  MaxActive,  \* MAX_ACTIVE_CALLS
  MaxSeen     \* MAX_SEEN_CALLS

ASSUME LimitsAssumption == MaxActive \in Nat /\ MaxSeen \in Nat

VARIABLES
  main,        \* where the main thread is
  target,      \* the call it has flagged and not yet shut, with the mutex held
  pending,     \* the calls it still has to cancel at the end of input
  session,     \* "new", "initialized", "ready"
  seen,        \* seen_ids
  active,      \* the keys of the active map
  alive,       \* connection_alive
  outputOpen,  \* standard output can be written
  pc,          \* pc[c]: where c's worker is
  cancelled,   \* cancelled[c]: its flag
  registered,  \* registered[c]: the active entry holds its observer handle
  stream,      \* stream[c]: its socket: "none", "open", "shut"
  sent,        \* sent[c]: queries written to Message for the id c
  acceptance,  \* acceptance[c]: SendAccepted was read (accepted_id)
  final,       \* final[c]: final_response
  finals       \* finals[c]: final responses written for the call admitted or refused as c;
               \* a later use of the id is another request, answered by AnswerAtOnce

shared == <<active, alive, outputOpen>>
intake == <<main, target, pending, session, seen>>
vars   == <<main, target, pending, session, seen, active, alive, outputOpen, pc,
            cancelled, registered, stream, sent, acceptance, final, finals>>

Places == {"none", "start", "connect", "register", "recheck", "send", "fail",
           "loop", "read", "leave", "last", "remove", "done"}

\* A response of Message; settled: it shows the accepted delivery ended.
Responses == [kind : {"SendAccepted", "SendsObserved", "SendChanged", "Sent", "Failed",
                      "ObservationInterrupted", "Refused", "Configured"},
              settled : BOOLEAN]

TypeOK ==
  /\ main \in {"reading", "cancelling", "closing", "flagging", "shutting", "joining",
               "exited"}
  /\ target \subseteq Calls /\ pending \subseteq Calls
  /\ session \in {"new", "initialized", "ready"}
  /\ seen \subseteq Calls /\ active \subseteq Calls
  /\ alive \in BOOLEAN /\ outputOpen \in BOOLEAN
  /\ pc \in [Calls -> Places]
  /\ cancelled \in [Calls -> BOOLEAN]
  /\ registered \in [Calls -> BOOLEAN]
  /\ stream \in [Calls -> {"none", "open", "shut"}]
  /\ sent \in [Calls -> Nat]
  /\ acceptance \in [Calls -> BOOLEAN]
  /\ final \in [Calls -> {"none", "result", "error", "cancelled"}]
  /\ finals \in [Calls -> Nat]

Init ==
  /\ main = "reading" /\ target = {} /\ pending = {} /\ session = "new"
  /\ seen = {} /\ active = {} /\ alive = TRUE /\ outputOpen = TRUE
  /\ pc = [c \in Calls |-> "none"]
  /\ cancelled = [c \in Calls |-> FALSE]
  /\ registered = [c \in Calls |-> FALSE]
  /\ stream = [c \in Calls |-> "none"]
  /\ sent = [c \in Calls |-> 0]
  /\ acceptance = [c \in Calls |-> FALSE]
  /\ final = [c \in Calls |-> "none"]
  /\ finals = [c \in Calls |-> 0]

-----------------------------------------------------------------------------
(* The main thread.                                                         *)

\* The response that ends the call c, if standard output still takes it.  A write is
\* assumed to return: write_json holds the output mutex while it writes, so a client
\* that neither reads its full pipe nor closes it stops every thread that writes.
WriteFinal(c) ==
  finals' = IF outputOpen THEN [finals EXCEPT ![c] = @ + 1] ELSE finals

\* The main thread writes a response of its own; when it cannot, it stops reading.
MainWrites ==
  IF outputOpen THEN UNCHANGED <<main, alive>>
                ELSE main' = "closing" /\ alive' = FALSE

\* initialize, then notifications/initialized, which is not answered.
Initialize ==
  /\ main = "reading"
  /\ \/ session = "new" /\ session' = "initialized" /\ MainWrites
     \/ session = "initialized" /\ session' = "ready" /\ UNCHANGED <<main, alive>>
  /\ UNCHANGED <<target, pending, seen, active, outputOpen, pc, cancelled, registered,
                 stream, sent, acceptance, final, finals>>

\* Any other line the main thread answers at once: a parse error, ping,
\* tools/list, or a tools/call refused before its id is recorded.
AnswerAtOnce ==
  /\ main = "reading"
  /\ MainWrites
  /\ UNCHANGED <<target, pending, session, seen, active, outputOpen, pc, cancelled,
                 registered, stream, sent, acceptance, final, finals>>

\* Mutant: an id may be used again once its call is over.
AdmissibleAgain(c) == c \notin active /\ Cardinality(seen) < MaxSeen /\ session = "ready"

Admissible(c) == c \notin seen /\ Cardinality(seen) < MaxSeen /\ session = "ready"

\* Mutant: the limit is looked at first, and the id is not spent.
TooManyActiveUnspent(c) ==
  /\ main = "reading" /\ Admissible(c)
  /\ Cardinality(active) >= MaxActive
  /\ WriteFinal(c) /\ MainWrites
  /\ UNCHANGED <<target, pending, session, seen, active, outputOpen, pc, cancelled,
                 registered, stream, sent, acceptance, final>>

\* The id is spent before the limit on active calls is looked at.
TooManyActive(c) ==
  /\ main = "reading" /\ Admissible(c)
  /\ Cardinality(active) >= MaxActive
  /\ seen' = seen \cup {c}
  /\ WriteFinal(c) /\ MainWrites
  /\ UNCHANGED <<target, pending, session, active, outputOpen, pc, cancelled, registered,
                 stream, sent, acceptance, final>>

Dispatch(c) ==
  /\ main = "reading" /\ Admissible(c)
  /\ Cardinality(active) < MaxActive
  /\ seen' = seen \cup {c}
  /\ active' = active \cup {c}
  /\ cancelled' = [cancelled EXCEPT ![c] = FALSE]
  /\ registered' = [registered EXCEPT ![c] = FALSE]
  /\ pc' = [pc EXCEPT ![c] = "start"]
  /\ UNCHANGED <<main, target, pending, session, alive, outputOpen, stream, sent,
                 acceptance, final, finals>>

\* notifications/cancelled names an active call: flag it with the mutex held ...
Cancel(c) ==
  /\ main = "reading" /\ c \in active
  /\ main' = "cancelling" /\ target' = {c}
  /\ cancelled' = [cancelled EXCEPT ![c] = TRUE]
  /\ UNCHANGED <<pending, session, seen, shared, pc, registered, stream, sent, acceptance,
                 final, finals>>

\* Shut the sockets of the calls in C that registered one.
ShutObservers(C) ==
  stream' = [c \in Calls |->
               IF c \in C /\ registered[c] /\ stream[c] = "open" THEN "shut" ELSE stream[c]]

\* Mutant: the call is only flagged.
ShutCancelledNothing ==
  /\ main = "cancelling"
  /\ main' = "reading" /\ target' = {}
  /\ UNCHANGED <<pending, session, seen, shared, pc, cancelled, registered,
                 stream, sent, acceptance, final, finals>>

\* ... and shut its socket if its worker has registered one.
ShutCancelled ==
  /\ main = "cancelling"
  /\ ShutObservers(target) /\ target' = {}
  /\ main' = "reading"
  /\ UNCHANGED <<pending, session, seen, shared, pc, cancelled, registered, sent,
                 acceptance, final, finals>>

\* End of input, a read error or an oversized line: the flag falls at once or,
\* after an oversized line, right after the loop.
EndOfInput ==
  /\ main = "reading"
  /\ main' = "closing" /\ alive' = FALSE
  /\ UNCHANGED <<target, pending, session, seen, active, outputOpen, pc, cancelled,
                 registered, stream, sent, acceptance, final, finals>>

\* The mutex is taken for all the calls of the map, in whatever order it holds them.
CloseActive ==
  /\ main = "closing"
  /\ main' = "flagging" /\ pending' = active
  /\ UNCHANGED <<target, session, seen, shared, pc, cancelled, registered, stream, sent,
                 acceptance, final, finals>>

\* Mutant: the sockets are shut and no call is flagged.
FlagNextUnflagged(c) ==
  /\ main = "flagging" /\ c \in pending
  /\ main' = "shutting" /\ target' = {c} /\ pending' = pending \ {c}
  /\ UNCHANGED <<session, seen, shared, pc, cancelled, registered, stream, sent,
                 acceptance, final, finals>>

\* The next of them is flagged ...
FlagNext(c) ==
  /\ main = "flagging" /\ c \in pending
  /\ main' = "shutting" /\ target' = {c} /\ pending' = pending \ {c}
  /\ cancelled' = [cancelled EXCEPT ![c] = TRUE]
  /\ UNCHANGED <<session, seen, shared, pc, registered, stream, sent, acceptance, final,
                 finals>>

\* ... then shut.
ShutNext ==
  /\ main = "shutting"
  /\ ShutObservers(target) /\ target' = {}
  /\ main' = "flagging"
  /\ UNCHANGED <<pending, session, seen, shared, pc, cancelled, registered, sent,
                 acceptance, final, finals>>

CloseDone ==
  /\ main = "flagging" /\ pending = {}
  /\ main' = "joining"
  /\ UNCHANGED <<target, pending, session, seen, shared, pc, cancelled, registered,
                 stream, sent, acceptance, final, finals>>

JoinWorkers ==
  /\ main = "joining"
  /\ \A c \in Calls : pc[c] \in {"none", "done"}
  /\ main' = "exited"
  /\ UNCHANGED <<target, pending, session, seen, shared, pc, cancelled, registered,
                 stream, sent, acceptance, final, finals>>

-----------------------------------------------------------------------------
(* A worker.                                                                *)

\* The main thread holds the mutex of the active map while it cancels.
MutexFree == main \notin {"cancelling", "flagging", "shutting"}

Goto(c, place) == pc' = [pc EXCEPT ![c] = place]

\* The flag is looked at before the first connection.
Start(c) ==
  /\ pc[c] = "start"
  /\ Goto(c, IF cancelled[c] THEN "fail" ELSE "connect")
  /\ UNCHANGED <<intake, shared, cancelled, registered, stream, sent, acceptance, final,
                 finals>>

Connect(c) ==
  /\ pc[c] = "connect"
  /\ \/ Goto(c, "register") /\ stream' = [stream EXCEPT ![c] = "open"]
     \/ Goto(c, "fail") /\ UNCHANGED stream
  /\ UNCHANGED <<intake, shared, cancelled, registered, sent, acceptance, final, finals>>

Register(c) ==
  /\ pc[c] = "register"
  /\ \/ /\ MutexFree
        /\ registered' = [registered EXCEPT ![c] = c \in active]
        /\ Goto(c, "recheck")
     \/ Goto(c, "fail") /\ UNCHANGED registered
  /\ UNCHANGED <<intake, shared, cancelled, stream, sent, acceptance, final, finals>>

\* Mutant: the flag is not looked at again once the handle is registered.
RecheckNot(c) ==
  /\ pc[c] = "recheck"
  /\ Goto(c, "send")
  /\ UNCHANGED <<intake, shared, cancelled, registered, stream, sent, acceptance, final,
                 finals>>

\* A cancellation that came before the registration found no socket to shut.
Recheck(c) ==
  /\ pc[c] = "recheck"
  /\ IF cancelled[c]
       THEN Goto(c, "loop") /\ stream' = [stream EXCEPT ![c] = "shut"]
       ELSE Goto(c, "send") /\ UNCHANGED stream
  /\ UNCHANGED <<intake, shared, cancelled, registered, sent, acceptance, final, finals>>

\* The query is written whole, or not at all as far as Message can read it.
Send(c) ==
  /\ pc[c] = "send"
  /\ \/ /\ stream[c] = "open"
        /\ sent' = [sent EXCEPT ![c] = @ + 1]
        /\ Goto(c, "loop")
     \/ Goto(c, "fail") /\ UNCHANGED sent
  /\ UNCHANGED <<intake, shared, cancelled, registered, stream, acceptance, final,
                 finals>>

\* The early ends of a call: one error response while the client is there.
Fail(c) ==
  /\ pc[c] = "fail"
  /\ IF alive THEN WriteFinal(c) ELSE UNCHANGED finals
  /\ Goto(c, "remove")
  /\ UNCHANGED <<intake, shared, cancelled, registered, stream, sent, acceptance, final>>

Remove(c) ==
  /\ pc[c] = "remove" /\ MutexFree
  /\ active' = active \ {c}
  /\ Goto(c, "done")
  /\ UNCHANGED <<intake, alive, outputOpen, cancelled, registered, stream, sent,
                 acceptance, final, finals>>

\* Mutant: the flag is not looked at between two responses.
LoopBlind(c) ==
  /\ pc[c] = "loop"
  /\ Goto(c, "read")
  /\ UNCHANGED <<intake, shared, cancelled, registered, stream, sent, acceptance, final,
                 finals>>

Loop(c) ==
  /\ pc[c] = "loop"
  /\ Goto(c, IF cancelled[c] THEN "leave" ELSE "read")
  /\ UNCHANGED <<intake, shared, cancelled, registered, stream, sent, acceptance, final,
                 finals>>

\* The response ends the call: terminal_for.
TerminalFor(r, accepted) ==
  \/ r.kind \in {"Sent", "Failed", "ObservationInterrupted", "Refused", "Configured"}
  \/ r.kind \in {"SendsObserved", "SendChanged"} /\ accepted /\ r.settled

\* A response is read, possibly one that was there before the socket was shut,
\* and a progress notification written.
ReadResponse(c) == \E r \in Responses :
  /\ pc[c] = "read" /\ sent[c] > 0
  /\ LET accepted == acceptance[c] \/ r.kind = "SendAccepted"
     IN  /\ acceptance' = [acceptance EXCEPT ![c] = accepted]
         /\ IF ~outputOpen
              THEN /\ cancelled' = [cancelled EXCEPT ![c] = TRUE]
                   /\ alive' = FALSE
                   /\ stream' = [stream EXCEPT ![c] = "shut"]
                   /\ Goto(c, "leave") /\ UNCHANGED final
              ELSE /\ IF TerminalFor(r, accepted)
                        THEN /\ final' = [final EXCEPT ![c] =
                                   IF r.kind = "ObservationInterrupted" THEN "error" ELSE "result"]
                             /\ Goto(c, "leave")
                        ELSE Goto(c, "loop") /\ UNCHANGED final
                   /\ UNCHANGED <<cancelled, alive, stream>>
  /\ UNCHANGED <<intake, active, outputOpen, registered, sent, finals>>

\* Mutant: the end of the stream itself is taken for the response.
ReadErrorUnmapped(c) ==
  /\ pc[c] = "read" /\ stream[c] = "shut"
  /\ final' = [final EXCEPT ![c] = stream[c]]
  /\ Goto(c, "leave")
  /\ UNCHANGED <<intake, shared, cancelled, registered, stream, sent, acceptance, finals>>

\* The socket is shut or closed: an error unless the call was cancelled.
ReadError(c) ==
  /\ pc[c] = "read" /\ stream[c] = "shut"
  /\ final' = IF cancelled[c] THEN final ELSE [final EXCEPT ![c] = "error"]
  /\ Goto(c, "leave")
  /\ UNCHANGED <<intake, shared, cancelled, registered, stream, sent, acceptance, finals>>

\* The loop is left: accepted_id is of no use any more, and the entry is taken out.
Leave(c) ==
  /\ pc[c] = "leave" /\ MutexFree
  /\ active' = active \ {c}
  /\ acceptance' = [acceptance EXCEPT ![c] = FALSE]
  /\ Goto(c, "last")
  /\ UNCHANGED <<intake, alive, outputOpen, cancelled, registered, stream, sent, final,
                 finals>>

\* Mutant: a cancelled call owes its client nothing.
LastSilent(c) ==
  /\ pc[c] = "last"
  /\ IF final[c] # "none" THEN WriteFinal(c) ELSE UNCHANGED finals
  /\ Goto(c, "done")
  /\ UNCHANGED <<intake, shared, cancelled, registered, stream, sent, acceptance, final>>

\* The final response, or the one a cancelled call owes its client.
Last(c) ==
  /\ pc[c] = "last"
  /\ LET owed == IF final[c] = "none" /\ cancelled[c] /\ alive THEN "cancelled" ELSE final[c]
     IN  /\ final' = [final EXCEPT ![c] = owed]
         /\ IF owed # "none" THEN WriteFinal(c) ELSE UNCHANGED finals
  /\ Goto(c, "done")
  /\ UNCHANGED <<intake, shared, cancelled, registered, stream, sent, acceptance>>

-----------------------------------------------------------------------------
(* Message and the client.                                                  *)

\* Message closes the connection, or what it writes cannot be read.
PeerCloses(c) ==
  /\ stream[c] = "open"
  /\ stream' = [stream EXCEPT ![c] = "shut"]
  /\ UNCHANGED <<intake, shared, pc, cancelled, registered, sent, acceptance, final,
                 finals>>

OutputCloses ==
  /\ outputOpen
  /\ outputOpen' = FALSE
  /\ UNCHANGED <<intake, active, alive, pc, cancelled, registered, stream, sent,
                 acceptance, final, finals>>

Worker(c) ==
  \/ Start(c) \/ Connect(c) \/ Register(c) \/ Recheck(c) \/ Send(c) \/ Fail(c) \/ Remove(c)
  \/ Loop(c) \/ ReadResponse(c) \/ ReadError(c) \/ Leave(c) \/ Last(c)

Closing == CloseActive \/ ShutNext \/ CloseDone \/ \E c \in Calls : FlagNext(c)

Main ==
  \/ Initialize \/ AnswerAtOnce \/ ShutCancelled \/ EndOfInput \/ Closing \/ JoinWorkers
  \/ \E c \in Calls : TooManyActive(c) \/ Dispatch(c) \/ Cancel(c)

Next == Main \/ OutputCloses \/ \E c \in Calls : Worker(c) \/ PeerCloses(c)

Spec == Init /\ [][Next]_vars

\* Threads that can run do, and connect and a write to standard output return.
\* Message need not answer: reading a response is left out, reading the end of a shut
\* socket is not.
WorkerRuns(c) ==
  \/ Start(c) \/ Connect(c) \/ Recheck(c) \/ Send(c) \/ Fail(c) \/ Loop(c) \/ ReadError(c)
  \/ Last(c)

\* A thread that waits for the mutex gets it, though the main thread may take
\* it again for every line it reads.
WorkerLocks(c) == Register(c) \/ Remove(c) \/ Leave(c)

FairSpec ==
  /\ Spec
  /\ \A c \in Calls : WF_vars(WorkerRuns(c)) /\ SF_vars(WorkerLocks(c))
  /\ WF_vars(ShutCancelled) /\ WF_vars(Closing) /\ WF_vars(JoinWorkers)

-----------------------------------------------------------------------------
(* What the adapter promises.                                               *)

\* The main thread is done with the cancellation of c.
CancellationHandled(c) == cancelled[c] /\ c \notin target

\* The call is over: its worker is, or it was refused as one too many.
Over(c) == pc[c] = "done" \/ (c \in seen /\ pc[c] = "none")

\* A call has one final response, no more and, while the client is connected
\* and takes output, no less, however its worker ended (CallRequest::run) or the
\* main thread refused it (main.rs:569-576).
OneFinal == \A c \in Calls :
  /\ finals[c] <= 1
  /\ Over(c) /\ alive /\ outputOpen => finals[c] = 1

\* A request id writes at most one query to Message, however often the client
\* uses it again (seen_ids in call_request): a Send has no id of its own that
\* Message could recognize a repetition by.
NoDuplicateSend == \A c \in Calls : sent[c] <= 1

\* Once a cancellation has been handled its call writes no query any more,
\* although its worker may have looked at the flag before it was set
\* (register, then look again, then send: CallRequest::run 389-394).
NoSendAfterCancel ==
  [][\A c \in Calls : CancellationHandled(c) => sent'[c] = sent[c]]_vars

\* The adapter implements the contract of a call: where its worker is tells the
\* fate of an id.  One refused because too many calls were active is spent, and
\* refused for good (call_request records it before main.rs:569 looks at the limit).
Fate(c) ==
  CASE c \notin seen -> "fresh"
    [] c \in seen /\ pc[c] = "none" -> "refused"
    [] c \in seen /\ pc[c] \in {"remove", "done"} -> "ended"
    [] OTHER -> "running"

Contract == INSTANCE CallContract
              WITH fate <- [c \in Calls |-> Fate(c)], queries <- sent,
                   connected <- alive /\ outputOpen

\* Dispatch, worker and cancellation keep the contract of every call.
KeepsCallContract == Contract!Spec

\* A worker that waits for Message once its cancellation was handled, or while the
\* main thread joins, waits on a shut socket.  It looks at the flag before each read
\* (CallRequest::run 419) and has registered its handle before the first: a flag
\* that is set after the look comes with a shutdown that finds the handle (main.rs
\* 550-552, 611-613).
NobodyStranded == \A c \in Calls :
  pc[c] = "read" /\ (CancellationHandled(c) \/ main = "joining") => stream[c] = "shut"

\* How many steps a cancelled worker is from its end, at most.
Remaining == [place \in Places |->
  CASE place = "start" -> 9    [] place = "connect" -> 8  [] place = "register" -> 7
    [] place = "recheck" -> 6  [] place = "send" -> 5     [] place = "read" -> 4
    [] place = "loop" -> 3     [] place \in {"leave", "fail"} -> 2
    [] place \in {"last", "remove"} -> 1
    [] OTHER -> 0]

\* A cancelled worker only comes nearer to its end, whatever Message still writes:
\* it reads at most one response more (the loop of CallRequest::run looks at the
\* flag before each), and no other call takes its flag back.
CancelledGoesOn ==
  [][\A c \in Calls : cancelled[c] =>
       cancelled'[c] /\ (pc'[c] = pc[c] \/ Remaining[pc'[c]] < Remaining[pc[c]])]_vars

\* A cancelled call comes to its end although Message stays silent.
CancelEnds == \A c \in Calls : [](cancelled[c] => <>(pc[c] = "done"))

\* After the end of input every worker is joined and the process exits,
\* although Message stays silent on every call.
DrainEnds == [](main = "closing" => <>(main = "exited"))
=============================================================================
