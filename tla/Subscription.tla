---------------------------- MODULE Subscription ----------------------------
(***************************************************************************)
(* How a client follows its deliveries: a Send or an ObserveSends, the     *)
(* worker that opens a subscription at Flow and forwards its statuses      *)
(* (service.rs, listener.rs), the client's loop over the responses (the    *)
(* message command line, the MCP adapter), and the client's next call,     *)
(* which resumes from the cursor it was told.                              *)
(*                                                                         *)
(* Flow is external: it keeps each sender's history, in which a cursor is  *)
(* a position, and answers ObserveSender with one SendsObserved of what    *)
(* has changed since the cursor, then one SendChanged per change.  A       *)
(* cursor that is None is 0 here, the beginning.  The client is one of the *)
(* sender's: what its other processes send appears in the history.         *)
(***************************************************************************)
EXTENDS Naturals, Sequences, FiniteSets

CONSTANTS
  Deliveries,  \* logical delivery ids
  MaxLog,      \* bound on the history
  InFlight,    \* responses a socket holds
  MaxBreaks,   \* bound on everything that breaks, and on cancellations
  None

ASSUME BoundsAssumption ==
  MaxLog \in Nat /\ InFlight \in Nat /\ MaxBreaks \in Nat /\ None \notin Deliveries

VARIABLES
  log,          \* Flow's history of the sender
  breaks,       \* what broke so far
  adapter,      \* the client is the MCP adapter, not the command line
  call,         \* the client's query: "none", "send", "observe"
  accepted_id,  \* of the client's loop
  last,         \* the last cursor it read in this call (last_cursor)
  standing,     \* the cursor it would resume from
  outcome,      \* how its last call ended
  worker,       \* "idle", "query", "accepted", "stream", "ended"
  opened,       \* the cursor ObserveSender is asked to start from
  terminal_id,  \* of forward_subscription
  begun,        \* Flow's first status was read
  last_cursor,  \* of forward_subscription
  wire,         \* responses written and not yet read
  from,         \* history: where the client began to follow
  shown,        \* history: the changes it was shown
  abrupt        \* history: the worker ended without a response

nexus   == <<worker, opened, terminal_id, begun, last_cursor>>
client  == <<adapter, call, accepted_id, last, standing, outcome>>
history == <<from, shown>>
vars    == <<log, breaks, client, nexus, wire, history, abrupt>>

States   == {"Queued", "Delivered", "Failed"}
Terminal == {"Delivered", "Failed"}
Changes  == [delivery : Deliveries, state : States]

\* A response of Message; items are the changes its snapshots show.
Frames == [kind : {"SendAccepted", "SendsObserved", "SendChanged", "ObservationInterrupted",
                   "Answer"},
           cursor : Nat, items : SUBSET Nat]

Outcomes == {"none", "answered", "delivered", "failed", "interrupted", "lost", "cancelled"}

TypeOK ==
  /\ log \in Seq(Changes)
  /\ breaks \in Nat
  /\ adapter \in BOOLEAN
  /\ call \in {"none", "send", "observe"}
  /\ accepted_id \in Deliveries \cup {None}
  /\ last \in Nat /\ standing \in Nat
  /\ outcome \in Outcomes
  /\ worker \in {"idle", "query", "accepted", "stream", "ended"}
  /\ opened \in Nat
  /\ terminal_id \in Deliveries \cup {None}
  /\ begun \in BOOLEAN
  /\ last_cursor \in Nat
  /\ wire \in Seq(Frames)
  /\ from \in Nat /\ shown \in SUBSET Nat
  /\ abrupt \in BOOLEAN

Init ==
  /\ log = <<>> /\ breaks = 0
  /\ adapter \in BOOLEAN /\ call = "none" /\ accepted_id = None
  /\ last = 0 /\ standing = 0 /\ outcome = "none"
  /\ worker = "idle" /\ opened = 0 /\ terminal_id = None /\ begun = FALSE /\ last_cursor = 0
  /\ wire = <<>> /\ from = 0 /\ shown = {} /\ abrupt = FALSE

-----------------------------------------------------------------------------
(* Flow's history.                                                          *)

Positions  == 1 .. Len(log)
Known(d)   == \E i \in Positions : log[i].delivery = d
Settled(d) == \E i \in Positions : log[i].delivery = d /\ log[i].state \in Terminal

Change(d, state) == log' = Append(log, [delivery |-> d, state |-> state])

\* Another process of the sender, or a call whose client did not wait for its
\* acceptance, has sent d; or d comes to a new state.
FlowChanges == \E d \in Deliveries, state \in States :
  /\ Len(log) < MaxLog
  /\ IF Known(d) THEN ~Settled(d) ELSE state = "Queued"
  /\ Change(d, state)
  /\ UNCHANGED <<breaks, client, nexus, wire, history, abrupt>>

\* The snapshots of SendsObserved at p: the latest state of every delivery that
\* has changed since the cursor c.
Snapshots(c, p) ==
  {i \in c + 1 .. p : \A j \in i + 1 .. p : log[j].delivery # log[i].delivery}

\* One of these changes ends delivery d.
Ends(items, d) == \E i \in items : log[i].delivery = d /\ log[i].state \in Terminal

-----------------------------------------------------------------------------
(* The worker.                                                              *)

Frame(kind, cursor, items) == [kind |-> kind, cursor |-> cursor, items |-> items]

Interrupted(cursor) == Frame("ObservationInterrupted", cursor, {})

Breaks == breaks < MaxBreaks /\ breaks' = breaks + 1

\* Mutant: the place after an answer is one no other step knows.
DenyAside ==
  /\ worker = "query" /\ call = "send"
  /\ wire' = Append(wire, Frame("Answer", 0, {}))
  /\ worker' = "answered"
  /\ UNCHANGED <<log, breaks, client, opened, terminal_id, begun, last_cursor, history, abrupt>>

\* The response that ends the exchange at once: Sent, Failed, Refused.
Deny ==
  /\ worker = "query" /\ call = "send"
  /\ wire' = Append(wire, Frame("Answer", 0, {}))
  /\ worker' = "ended"
  /\ UNCHANGED <<log, breaks, client, opened, terminal_id, begun, last_cursor, history, abrupt>>

\* An observation is refused when the store cannot say where Flow is.
RefuseObservation ==
  /\ worker = "query" /\ call = "observe"
  /\ Breaks
  /\ wire' = Append(wire, Frame("Answer", 0, {}))
  /\ worker' = "ended"
  /\ UNCHANGED <<log, client, opened, terminal_id, begun, last_cursor, history, abrupt>>

\* Flow queues the Send and says at which cursor.
Admit == \E d \in Deliveries :
  /\ worker = "query" /\ call = "send"
  /\ ~Known(d) /\ Len(log) < MaxLog
  /\ Change(d, "Queued")
  /\ terminal_id' = d /\ opened' = Len(log) + 1
  /\ worker' = "accepted"
  /\ UNCHANGED <<breaks, client, begun, last_cursor, wire, history, abrupt>>

\* The acceptance is written once the subscription is open, or could not be opened.
Acceptance ==
  IF terminal_id = None THEN <<>> ELSE <<Frame("SendAccepted", opened, {opened})>>

Subscribing == worker = "accepted" \/ (worker = "query" /\ call = "observe")

\* Mutant: the subscription starts at Flow's head, not at the cursor asked for.
SubscribeAtHead ==
  /\ Subscribing
  /\ wire' = wire \o Acceptance
  /\ worker' = "stream" /\ opened' = Len(log)
  /\ UNCHANGED <<log, breaks, client, terminal_id, begun, last_cursor, history, abrupt>>

Subscribe ==
  /\ Subscribing
  /\ wire' = wire \o Acceptance
  /\ worker' = "stream"
  /\ UNCHANGED <<log, breaks, client, opened, terminal_id, begun, last_cursor, history, abrupt>>

SubscribeFails ==
  /\ Subscribing
  /\ Breaks
  /\ wire' = Append(wire \o Acceptance, Interrupted(opened))
  /\ worker' = "ended"
  /\ UNCHANGED <<log, client, opened, terminal_id, begun, last_cursor, history, abrupt>>

\* The Flow stream cannot be duplicated for the watcher: the worker ends silently.
Unmonitored ==
  /\ worker = "stream" /\ ~begun
  /\ Breaks
  /\ worker' = "ended" /\ abrupt' = TRUE
  /\ UNCHANGED <<log, client, opened, terminal_id, begun, last_cursor, wire, history>>

\* A status is forwarded, and is the last one when it ends the accepted delivery.
Forward(kind, cursor, items) ==
  /\ worker = "stream" /\ Len(wire) < InFlight
  /\ last_cursor' = cursor
  /\ wire' = Append(wire, Frame(kind, cursor, items))
  /\ worker' = IF Ends(items, terminal_id) THEN "ended" ELSE worker
  /\ UNCHANGED <<log, breaks, client, opened, terminal_id, history, abrupt>>

\* Flow wrote it when the history was p long, and it may have grown since.
ForwardObserved == \E p \in opened .. Len(log) :
  /\ ~begun /\ begun' = TRUE
  /\ Forward("SendsObserved", p, Snapshots(opened, p))

ForwardChanged ==
  /\ begun /\ last_cursor < Len(log)
  /\ Forward("SendChanged", last_cursor + 1, {last_cursor + 1})
  /\ UNCHANGED begun

\* Mutant: the interruption tells where the subscription was opened.
StreamEndsOpened ==
  /\ worker = "stream" /\ Len(wire) < InFlight
  /\ Breaks
  /\ wire' = Append(wire, Interrupted(opened))
  /\ worker' = "ended"
  /\ UNCHANGED <<log, client, opened, terminal_id, begun, last_cursor, history, abrupt>>

\* Flow closed the stream, or its frame is no status; a refused ObserveSender
\* is such a frame.
StreamEnds ==
  /\ worker = "stream" /\ Len(wire) < InFlight
  /\ Breaks
  /\ wire' = Append(wire, Interrupted(last_cursor))
  /\ worker' = "ended"
  /\ UNCHANGED <<log, client, opened, terminal_id, begun, last_cursor, history, abrupt>>

\* message-nexus ends: killed, or stopped by a signal, when it shuts the sockets of
\* its clients so that a worker can write no interruption either.  What it wrote can
\* still be read.
Kill ==
  /\ worker \in {"query", "accepted", "stream"}
  /\ Breaks
  /\ worker' = "ended" /\ abrupt' = TRUE
  /\ UNCHANGED <<log, client, opened, terminal_id, begun, last_cursor, wire, history>>

-----------------------------------------------------------------------------
(* The client.                                                              *)

\* A query on a new connection; the loop's variables start anew.
Ask(query, cursor) ==
  /\ call = "none" /\ call' = query
  /\ accepted_id' = None /\ last' = 0 /\ outcome' = "none"
  /\ worker' = "query" /\ opened' = cursor /\ terminal_id' = None
  /\ begun' = FALSE /\ last_cursor' = 0
  /\ wire' = <<>> /\ abrupt' = FALSE
  /\ UNCHANGED <<log, breaks, adapter, standing, history>>

CallSend == Ask("send", 0)

\* Mutant: the client resumes after the change its cursor would bring next.
CallObserveAfter == Ask("observe", standing + 1)

CallObserve == Ask("observe", standing)

\* The call is over and the client knows it may resume from cursor.
EndCall(how, cursor) ==
  /\ call' = "none" /\ outcome' = how
  /\ standing' = cursor
  /\ from' = IF cursor = 0 THEN 0 ELSE from

\* SendAccepted: the client follows its delivery from here.
ReadAcceptance(f) ==
  /\ f.kind = "SendAccepted"
  /\ accepted_id' = log[f.cursor].delivery
  /\ last' = f.cursor /\ standing' = f.cursor
  /\ from' = f.cursor /\ shown' = shown \cup f.items
  /\ UNCHANGED <<call, outcome>>

\* Mutants: of a status only the client's own delivery is shown; whichever
\* delivery a status ends, it ends the call; SendsObserved never ends it.
ReadStatusOwn(f) ==
  /\ f.kind \in {"SendsObserved", "SendChanged"}
  /\ last' = f.cursor /\ standing' = f.cursor
  /\ shown' = shown \cup {i \in f.items : log[i].delivery = accepted_id}
  /\ UNCHANGED <<call, outcome, accepted_id, from>>

ReadStatusAny(f) ==
  /\ f.kind \in {"SendsObserved", "SendChanged"}
  /\ last' = f.cursor /\ shown' = shown \cup f.items
  /\ standing' = f.cursor
  /\ IF \E i \in f.items : log[i].state \in Terminal
       THEN /\ call' = "none"
            /\ outcome' = IF \E i \in f.items : log[i].state = "Failed"
                            THEN "failed" ELSE "delivered"
       ELSE UNCHANGED <<call, outcome>>
  /\ UNCHANGED <<accepted_id, from>>

ReadStatusLate(f) ==
  /\ f.kind \in {"SendsObserved", "SendChanged"}
  /\ last' = f.cursor /\ shown' = shown \cup f.items
  /\ standing' = f.cursor
  /\ IF f.kind = "SendChanged" /\ Ends(f.items, accepted_id)
       THEN call' = "none" /\ outcome' = "delivered"
       ELSE UNCHANGED <<call, outcome>>
  /\ UNCHANGED <<accepted_id, from>>

\* A status ends the call when it ends the accepted delivery.
ReadStatus(f) ==
  /\ f.kind \in {"SendsObserved", "SendChanged"}
  /\ last' = f.cursor /\ shown' = shown \cup f.items
  /\ standing' = f.cursor
  /\ IF accepted_id # None /\ Ends(f.items, accepted_id)
       THEN /\ call' = "none"
            /\ outcome' = IF \E i \in f.items : log[i] = [delivery |-> accepted_id,
                                                          state |-> "Failed"]
                            THEN "failed" ELSE "delivered"
       ELSE UNCHANGED <<call, outcome>>
  /\ UNCHANGED <<accepted_id, from>>

\* The adapter tells its own last cursor, the command line prints the response.
ReadInterruption(f) ==
  /\ f.kind = "ObservationInterrupted"
  /\ EndCall("interrupted", IF adapter THEN last ELSE f.cursor)
  /\ UNCHANGED <<accepted_id, last, shown>>

ReadAnswer(f) ==
  /\ f.kind = "Answer"
  /\ EndCall("answered", standing)
  /\ UNCHANGED <<accepted_id, last, shown>>

Read ==
  /\ call # "none" /\ wire # <<>>
  /\ LET f == Head(wire)
     IN  ReadAcceptance(f) \/ ReadStatus(f) \/ ReadInterruption(f) \/ ReadAnswer(f)
  /\ wire' = Tail(wire)
  /\ UNCHANGED <<log, breaks, adapter, nexus, abrupt>>

\* The end of the stream, instead of a response.  Nothing takes the place from a
\* client of the command line; the adapter points to its last cursor only after
\* an acceptance, and else to the sender's deliveries as a whole.
ReadEnd ==
  /\ call # "none" /\ wire = <<>> /\ worker = "ended"
  /\ EndCall("lost", IF adapter /\ accepted_id = None THEN 0 ELSE standing)
  /\ UNCHANGED <<log, breaks, adapter, accepted_id, last, nexus, wire, shown, abrupt>>

\* notifications/cancelled: the adapter stops reading.  The worker, wherever it
\* is, has lost its client; a Send it still hands over is another's to Flow.
Cancel ==
  /\ adapter /\ call # "none"
  /\ Breaks
  /\ EndCall("cancelled", last)
  /\ worker' = "ended" /\ wire' = <<>>
  /\ UNCHANGED <<log, adapter, accepted_id, last, opened, terminal_id, begun, last_cursor,
                 shown, abrupt>>

WorkerStep ==
  \/ Deny \/ RefuseObservation \/ Admit \/ Subscribe \/ SubscribeFails \/ Unmonitored
  \/ ForwardObserved \/ ForwardChanged \/ StreamEnds \/ Kill

ClientStep == CallSend \/ CallObserve \/ Read \/ ReadEnd \/ Cancel

Next == FlowChanges \/ WorkerStep \/ ClientStep

Spec == Init /\ [][Next]_vars

\* A worker runs on, Flow writes what it knows, and the client reads and, when
\* a call is over, sooner or later observes again from where it stands.
FairSpec ==
  /\ Spec
  /\ WF_vars(Deny \/ Admit) /\ WF_vars(Subscribe)
  /\ WF_vars(ForwardObserved) /\ WF_vars(ForwardChanged)
  /\ WF_vars(Read) /\ WF_vars(ReadEnd) /\ SF_vars(CallObserve)

-----------------------------------------------------------------------------
(* What a client is promised.                                               *)

Reader == INSTANCE LogReader WITH cursor <- standing

\* Through interruptions, kills, cancellations and resumptions the client follows
\* the sender's history in order and skips nothing; where it loses its place it
\* starts over (forward_subscription; accept_send and observe_sends, which open
\* the subscription from the cursor of the acceptance or of the query).
FollowsHistory == Reader!Spec

\* Whatever cursor the client resumes from, it knows of every change before it.
NothingMissed == Reader!NothingMissed

\* A call that ends on a status ends with the fate of its own delivery: the result
\* says failed when Flow's history does, and delivered only then (terminal_for and
\* isError of the adapter; the loop of the message client).
OutcomeIsTrue ==
  /\ outcome = "delivered" => \E i \in Positions : log[i] = [delivery |-> accepted_id,
                                                              state |-> "Delivered"]
  /\ outcome = "failed" => \E i \in Positions : log[i] = [delivery |-> accepted_id,
                                                          state |-> "Failed"]

\* "Flow stream loss must be explicit after admission" (message_through_flow.rs:83):
\* a client reads the bare end of its stream only when message-nexus ended, killed or
\* stopped (listener.rs:137-141), or could not watch the stream at all; otherwise
\* worker and client agree on which response is the last.
LossIsExplicit == outcome = "lost" => abrupt

\* A client that has been told a status and then of an interruption still stands
\* where it stood, though two processes count the cursor (message_through_flow.rs:69,
\* "preserves_resume_cursor").  Before the first status forward_subscription has no
\* cursor to tell, whatever the subscription was opened from (listener.rs:298): then
\* the client may have to start over.
PlaceKept ==
  [][begun /\ call # "none" /\ outcome' = "interrupted" => standing' = standing]_vars

\* The end of a delivery the client follows reaches it, although the delivery may
\* end before the subscription is open, or while the client is between two calls.
EndIsLearned == \A i \in 1 .. MaxLog :
  [](i \in Positions /\ i > from /\ log[i].state \in Terminal => <>(i \in shown \/ i <= from))
=============================================================================
