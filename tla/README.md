# Message, modelled and checked

A TLA+ development of this repository's Message Nexus (`crates/message-nexus`)
and of its MCP adapter (`crates/message-mcp-send`): models of the components,
TLC configurations that check them on small instances, and theorems with proofs
that TLAPS checks for every value of the constants. Definitions are translated
from the code; `PROJECT.json` names the lines of each.

## 1. The system

Message carries a *Send* from a local process to a recipient through the *Flow*
daemon, which owns the recipients and the delivery of every message. Message
keeps no queue. It identifies the caller, takes a lease on the recipient, hands
the Send over once, and reports what Flow says.

| part | code | state | operations |
|---|---|---|---|
| Send path | `service.rs` `accept_send`, `for_send`; `flow_edge.rs` | one worker's place in a chain of exchanges; the lease it got | identify, lock, check the lapse, deliver, release or observe |
| Listener | `listener.rs` | two listening sockets, a handle and a thread per connection, a watcher per observation | accept, answer, forward a subscription, reap, shut down and join |
| Lifecycle and store | `main.rs`, `nexus.rs`, `store.rs`, `configure` | one *Standard* row in a redb file: configuration, `meta_configured` | recognize, open, register, seed, bind, serve, configure, stop |
| MCP adapter | `message-mcp-send/src/main.rs` | the ids seen, the map of active calls, a flag per call, `connection_alive` | initialize, dispatch, cancel, stream responses, end of input |
| Subscriptions | `service.rs` `accept_send`, `observe_sends`; `listener.rs` `forward_subscription`; the loops of `message` and of the adapter | the worker's `last_cursor`, the client's last cursor and accepted delivery | open from a cursor, forward statuses, interrupt, end with the delivery, resume |
| Command-line clients | `message`, `message-meta` | none between calls | one query, one stream of responses; one owner Configure |
| Defaults, configuration | `message-defaults`, `configuration.rs` | none | paths from the environment |
| Frames, peers | `frame.rs`, `peer.rs` | none | whole frames, `SO_PEERCRED` |
| Contracts | `generated/`, `ethos/` | none | data types |
| `delivery.rs`, `ledger.rs` | not compiled (`lib.rs` declares neither) | - | - |

How they meet:

- Clients and the MCP adapter open one connection per query. The listener gives
  each a thread, and the thread runs `accept_send` or `observe_sends`.
- Each exchange with Flow is a connection of its own: write one query, read one
  response, close. A query whose writer has given up stays readable by Flow.
- Workers share the store behind a mutex, and nothing else. `flow_edge()` reads
  the store at the start of a Send; a concurrent `Configure` changes only later
  Sends.
- The main thread of the listener reaches a worker through a duplicate of the
  client's socket, the watcher reaches it through a duplicate of the Flow stream.
- In the adapter the main thread and the workers share the active map under a
  mutex; the flags are atomics that are read and written without it.
- Flow keeps each sender's history of deliveries. A subscription is read from a
  cursor into it; two processes, the worker and the client, count that cursor, and
  the client brings it back with `ObserveSends`, on another connection.
- The store outlives the process. Each of its transactions may be the last.

What is hard about it: Flow may act on a query after its caller has been answered;
leases lapse by a clock while exchanges run; a chain of exchanges can stop at any
link; cancellation, output failure and end of input race with a worker's
registration; threads block on each other's sockets and are joined at the end;
a subscription breaks between two statuses and is taken up by another call;
the process may be killed between two transactions of its first start. The
`hazards` of `PROJECT.json` list these at their lines, each with the properties
that are about it, or with the reason why none is.

What makes each part correct:

- *Send path*: a Send is taken at most once; the response is true when it is given
  and stays true; a lease does not outlive the Send; no exchange is taken up again;
  every Send whose exchanges end is answered.
- *Listener*: no thread waits for one that will not come; shutdown completes and
  leaves no thread; a vanished client frees its worker; a response has an end the
  client sees.
- *Lifecycle*: what was stored is what is resumed; the owner has the last word; a
  foreign store is not touched, and a half-made one is not completed; at most one
  process serves, and it runs with what was kept when it began to; a seeded store
  always serves again; an owner is told when a restart is due (which does not hold).
- *MCP adapter*: one final response per call; one query per id; an id is refused for
  good or admitted once; nothing is sent after a handled cancellation; a
  cancelled worker does not wait on an open socket and only comes nearer to its end;
  cancelled calls and the session end.
- *Subscriptions*: through interruptions, kills, cancellations and resumptions the
  client follows one history in order and skips nothing; an interruption keeps its
  place; worker and client agree on the last response; the call ends with the fate
  of its own delivery; every end is learned.

## 2. Modules

| module | what it models |
|---|---|
| `SendContract` | what Message promises about a Send (abstract) |
| `SendPath` | `accept_send` and its exchanges, with Flow as environment; implements `SendContract` |
| `SendPathProofs` | theorems about `SendPath` |
| `CallContract` | what the adapter promises about a request id (abstract) |
| `McpAdapter`, `McpAdapterProofs` | the stdio adapter, which implements `CallContract`, and theorems about it |
| `ConfigurationRegister` | the one configuration that outlives every process (abstract) |
| `NexusLifecycle`, `NexusLifecycleProofs` | start, store, Configure, kill, restart; implements `ConfigurationRegister`; theorems |
| `Listener`, `ListenerProofs` | threads and sockets of the Nexus, and theorems |
| `LogReader` | what the observer of a history is promised (abstract) |
| `Subscription`, `SubscriptionProofs` | Flow's history, the forwarding worker and the client's loop composed; implements `LogReader`; theorems |
| `MC*` | instances for TLC: constants and symmetry |

Operators whose comment starts with "Mutant" are not part of a model. Each is the
form a plausible bug would give the definition it precedes, and shows that a
property would notice it.

### SendPath

`step[s]` is the place of Send `s`'s worker in `accept_send`; `reply[s]` the state
of its current exchange (`unsent`, `awaited`, or Flow's answer). One action per
thing that may happen: `Receive` (`service.rs:93-101`), `WriteQuery`, `Unreachable`,
`TimeOut`, `Broken` (`exchange`), `Refused`, `Identified`, `Locked`, `CheckLease`,
`Delivered`, `Released`, `OpenSubscription`. `OnFailure` is what `accept_send` does
with a failure of each exchange, `ForSend` is `for_send`. `wire` holds the queries
written and not yet taken by Flow; a worker that times out leaves its query there.
`Crash` kills the Nexus and leaves `wire` as it is. `Configure` changes the Flow of
later Sends.

Flow is external. Its leases are modelled from what the code and the tests ask of
them: one lease per recipient, granted when the recipient is free or its lease
has lapsed, consumed by `SendAccepted`, given back by `Release`, and named by
value (sender, address, second), so that two leases of one sender in one second
are equal. Flow may refuse anything, stay silent, close, or answer late. A lease's
`owner` is a history variable that only `NoLeaseLeft` and
`LockReturnedAfterRefusal` read; `accepted` counts deliveries, `disturbed` notes a
failure, a refusal or a lapse.

Refinement: `told` of the contract is the verdict the final response carries
(denied, confirmed, or unsure), `taken` is `accepted`. Uncertain responses
(`ReceiptUncertain`, `Failed`, Soft `FlowUnreachable`) map to "unsure": a Soft Send
whose Deliver broke after it was written is answered `FlowUnreachable` like one that
never left, so its caller cannot tell whether Flow took it.

### McpAdapter

`main` is the place of `Sender::run`'s loop, `pc[c]` that of call `c`'s worker
(`CallRequest::run`): `start`, `connect`, `register`, `recheck`, `send`, `loop`,
`read`, `leave`, `last`, or `fail` and `remove` for the early ends. Every access to
the active map and every load or store of a flag is a step of its own, except
where the mutex makes several one. `cancelling` is the main thread between setting
a call's flag and shutting its socket, with the mutex held; at the end of input it
does the same to every call of the map, one by one (`flagging` and `shutting`,
`pending` the calls still to come). `target` is the call flagged and not yet shut. A JSON line is reduced to
what it does: an admissible or refused `tools/call`, a cancellation, an
initialization, anything answered at once, or the end. A response of Message is
its kind and whether it shows the accepted delivery ended (`TerminalFor`).

Refinement: the `fate` of an id in `CallContract` is fresh until `tools/call` names
it, refused or running by `Admissible` and `TooManyActive`, and ended when its
worker is done; `queries` and `finals` count what was written to Message and to the
client, by its worker or, when too many calls are active, by the main thread. A
refused id is refused for good, whichever slots come free. A further use of a spent
id is another request; its refusal (`AnswerAtOnce`) is not among the `finals` of the
id.

### NexusLifecycle

`pc[p]` is the place of process `p` in `main`, `MessageNexus::open` and
`MessageStore::open`. The store file is absent, bare (opened, no table),
registered (the table, no row), seeded or foreign. `Recognized` is `recognize`:
nothing there, or exactly this family with one row, and nobody has it open. The
engine is external: one holder at a time, repair after a kill, each
write atomic. `stored` and `ownerSaid` are history variables, and so is `answered[p]`,
what `p` has answered to Configure since it started: `configure` reports whether the
*row* changes (`service.rs:39`), which is less than whether a restart is due
(`RestartIsAnnounced`, section 3).

Refinement: the `value` of `ConfigurationRegister` is the configuration of the row, once
there is one; `word` is `ownerSaid`; `running[p]` is what a process that serves is
bound to. Recognition, opening, registering, a start that fails and a Flow that comes
or goes are stutters. `HalfMade` is a file whose first start ended before the row
was seeded, while no process is past recognition.

### Listener

`worker[k]` is the place of connection `k`'s thread, from `query` to `done`; `main`
that of the main thread; `watcher[k]` the thread of `forward_subscription` that
waits for the client to leave. `readShut` and `writeShut` are the halves of the
client's socket, `flowStream` the subscription, `kept` the handles the main thread
holds. What the statuses say is left to `Subscription`: here one of them ends the
forwarding or does not. The exchanges of a query with Flow are one wait (`flow`) that ends, unless one of
them has no time-out and need not (`blocked`): a connect to a Flow that accepts
nothing, or the read of an abrupt Wake Deliver. The Flow stream is open before the
acceptance is written; the watcher starts after it (`Watch`).

### Subscription

One client of a sender, the worker of its current call, and Flow's history of that
sender. A cursor is a position of the history; the code's `None` is 0. `Ask` opens a
call (`CallSend`, `CallObserve` from `standing`, the cursor the client holds). The
worker denies, or admits (`Admit`, the acceptance and its cursor), opens the
subscription (`Subscribe`, `SubscribeFails`), and forwards one `SendsObserved` with
the latest change of every delivery since the cursor and then one `SendChanged` per
change (`ForwardObserved`, `ForwardChanged`), until a status ends the accepted
delivery, Flow's stream ends (`StreamEnds`), the watcher cannot be set up
(`Unmonitored`) or the process is killed or stopped. `wire` holds the responses written and
not yet read. `Read` is one turn of the client's loop, the same for both clients but
for the cursor an interruption leaves them with: `message` prints the response's,
the adapter tells its own `last_cursor` (`ReadInterruption`). `ReadEnd` is the end
of the stream in place of a response, `Cancel` a handled `notifications/cancelled`.

The snapshots and changes of other processes of the sender appear in the history at
any time (`FlowChanges`); so does a Send whose client did not wait for its answer.

Refinement: `standing` is the cursor of `LogReader`. `from` (where the client began to
follow: its own acceptance, or the beginning) and `shown` (the changes it was
shown) are history variables. `LogReader` lets the observer advance only over
changes it then knows, begin at a Send of its own, or start over.

## 3. Runs

| run | instance | states | what it shows |
|---|---|---|---|
| `sendpath_safety` | 2 Sends, 2 Flows, 1 recipient, 1 sender, lease of 1 s, clock to 1 | 929 thousand | `AtMostOnce`, `TruthfulAnswer`, `NoLeaseLeft`, `KeepsContract` |
| `sendpath_answered` | 1 Send, clock to 2 | 8 thousand | `NeverReplays`, `BoundedAnswer` |
| `mcp_safety` | 3 ids, 2 active calls, 3 seen | 2.0 million | `OneFinal`, `NoDuplicateSend`, `NoSendAfterCancel`, `KeepsCallContract` |
| `mcp_ends` | 2 ids | 140 thousand | `NobodyStranded`, `CancelledGoesOn`, `CancelEnds`, `DrainEnds` |
| `lifecycle_resumes` | 2 processes, 3 configurations, 2 kills | 39 thousand | `StoredSurvives`, `OwnerHasLastWord`, `KeepsRegister`, `ForeignUntouched`, `HalfMadeStays`, `ServesAgain` |
| `listener_ends` | 2 connections | 13 thousand | `NothingLeftBehind`, `NobodyWaits`, `ShutdownCompletes`, `ClientGoneReleases`, `ResponseEnds` |
| `subscription_follows` | 2 deliveries, history of 4, 2 responses in a socket, 2 breaks | 479 thousand | `FollowsHistory`, `NothingMissed`, `OutcomeIsTrue`, `LossIsExplicit`, `PlaceKept`, `EndIsLearned` |

The bounds and why they are enough:

- *SendPath*: two Sends contend for one recipient with equal sender, which is where
  leases can be confused, and two Flows let a Configure fall between them. The
  clock's two values hold a lease that lapses at the check, one that lapses
  between the check and Deliver, and one granted anew afterwards. With the clock
  bounded by 2 the same properties hold over 2.4 million states.
- *McpAdapter*: a third id meets both a full map (`MaxActive` 2) and, after it, a
  spent set of ids (`MaxSeen` 3); a worker interacts with the main thread only.
- *NexusLifecycle*: two processes race for the file; two kills cover a kill of the
  process that repairs another's kill; the third configuration cannot be bound.
- *Listener*: connections meet only in `kept` and in the joining; two show every
  order of the two, and `ListenerProofs` covers any number.
- *Subscription*: one delivery to follow and one of another process whose end must
  not be taken for it; four changes let both be queued and end, with states in
  between left out of one of them; two breaks let a resumed call be interrupted
  again. Calls are unbounded. With these bounds every response can be in flight behind
  another one; the safety properties are proved for all bounds.

Deadlock is checked except where the system does come to rest: the adapter exits,
a listener whose clients and Flow stay silent after the exit has no step left, and
of a subscription that has told the whole history nothing more need come.

### Where documents and code disagree

Five runs check what a document or comment says and end in a violation:

| run | what is said | what happens |
|---|---|---|
| `sendpath_lease` | `operation.ethos:16`: `Release` returns the lock after failure | a refused Deliver and a lapsed check return without `Release` |
| `sendpath_hung` | `flow_edge.rs:56`: an unavailable peer is bounded so that shutdown can join | an abrupt Wake Deliver is read without a time-out, even when every connect returns |
| `lifecycle_restart` | `UPGRADES.md:114`: moving Message's own sockets answers `NexusRestartRequired` | the answer compares with the row: after an ordinary Configure has moved it, the owner's Configure of the same paths is answered `Configured` by a Nexus bound elsewhere |
| `lifecycle_lockout` | `ARCHITECTURE.md:31`: while Flow is unreachable Configure is answered | a start without Flow ends before it binds a socket |
| `lifecycle_halfstart` | `UPGRADES.md:103`: the first start persists the defaults, later ones resume | killed between registering and seeding, the file is refused by every later start; `HalfMadeStays` says that this is for good |

## 4. Fairness

- *SendPath*: a started worker keeps running, and its time-outs fire
  (`WorkerRuns`). Nothing is assumed of Flow, not even that it accepts a connection:
  `connect` (`flow_edge.rs:54-55`) comes before any time-out is set and blocks while
  Flow's backlog is full, so no step out of `Connecting` is fair, and `BoundedAnswer`
  and `EveryWorkerEnds` leave out the worker that stays there for ever.
  `BoundedAnswer` also leaves out the abrupt Wake Send, whose read is unbounded.
- *McpAdapter*: threads that can run do. Reading a response is not fair, since
  Message may stay silent; reading the end of a socket that was shut is. Two calls
  are assumed to return that need not: `connect`, which a full backlog of the
  listening socket could defer (`main.rs:39`), and a write to standard output
  (`write_json`, `main.rs:258-264`), which holds the output mutex and blocks on a full
  pipe that the client does not read. Both are listed as hazards.
  Taking the mutex is strongly fair, since the main thread may take it for
  every line: a thread that waits for a mutex is assumed to get it in the end.
- *NexusLifecycle*: a Nexus that has ended is started again, as a supervisor does,
  and a start runs on; so the `connect` by which it binds itself at Flow is assumed to
  return.
- *Listener*: threads that can run do, in steps that need neither the client nor
  Flow. No client is assumed to read or to leave, no signal to come, and no `blocked`
  exchange to end: `ShutdownCompletes` excepts the process in which one never does.
- *Subscription*: the worker runs on, Flow writes the statuses it knows, and the
  client reads what comes. `CallObserve` is strongly fair: a client that is between
  two calls again and again observes at some time, as the adapter's and the
  acceptance's texts tell it to. What breaks is bounded by `MaxBreaks`: a
  stream that breaks for ever before its first status tells nobody anything.

## 5. What is proved

All theorems hold for any sets of Sends, Flows, addresses, calls, processes,
configurations, connections and deliveries, and for any bounds; the assumptions are
`ConstantsAssumption` (`SenderOf` is a function into `Senders`, the two times are
naturals), `LimitsAssumption` (two naturals), `SeedAssumption` (the seed is a
configuration), `NoneAssumption` (`None` is no process and no
configuration) and `BoundsAssumption` (three naturals, `None` is no delivery).

- `SendPathProofs`
  - `TypeCorrect`: `TypeOK` is inductive.
  - `TakenAtMostOnce` and `AnswersAreTrue` from `TruthInv`. For each Send, `Truth`
    relates its place, what Flow did and what is on the wire: a Send was taken at
    most once, and not at all while its Deliver is on the wire; until the worker
    writes its Deliver, and when Flow refused it, the Send is neither taken nor
    on the wire (`Untaken`); a reply that says Flow took it says the truth
    (`KnownTaken`); and a response, from the moment it is fixed, agrees with
    both. The strengthening is needed because `TruthfulAnswer` speaks of
    answered Sends only, while what makes it true happens before, and Flow's
    step may come after the answer.
  - `ContractKept`: `Spec => Contract!Spec`. Every step of a worker tells at most
    its own caller and takes nothing; every step of Flow takes at most one Send,
    once, and not one that was denied. `QuietInv` (a worker that has left its
    exchange awaits nothing) says that no step undoes an answer.
  - `LeaseReturned` from `LeaseInv`. A lease of a Send can only be where the Send asked
    for it (`Placed`), so that giving it back by value, even to an equal lease of
    another Send, leaves none of its own. While nothing was disturbed it asks once
    (`LockSpent`), and `SendAccepted` and `Released` say that the lease is gone
    (`Orderly`). `NoLeaseLeft` alone is not inductive: it is silent until the answer.
  - `NothingIsReplayed`: `Ahead` counts the exchanges a Send still has before it and the
    states of the current one; every step that moves a Send or its exchange lessens it,
    a worker's as well as an answer of Flow or a kill. Type correctness is all it needs.
    This is the part of `BoundedAnswer` that is not fairness.
- `McpAdapterProofs`: `TypeCorrect`; `OneFinalResponse`, `OneQueryPerId`, `CancellationHolds` from
  `AdapterInv`. Per call it says that an id never seen has no worker, that a worker
  not yet past its removal is in the map, that up to `send` no query was written,
  that no final response was written before the last step and one was for a refused
  id, that a worker that
  leaves without one was cancelled, and that a worker about to send has not been
  cancelled unless its socket is shut or the main thread is about to shut it
  (`TargetInv`: it leaves no call flagged and not shut).
  `CallContractKept`: every step of the main thread decides at most one id, every
  step of a worker writes its one query or ends its call, or is none of the contract's.
  - `NobodyIsStranded` from `FreedInv`, which adds to `AdapterInv` that a worker past
    `register` has its handle in the map, that one past its second look at the flag has its
    socket shut once its cancellation was handled, and that whoever is in the map is
    cancelled, or among the calls still to be, once the main thread closes them. `NobodyStranded` speaks of the reading worker
    only; the look at the flag and the shutdown that race with it come earlier.
  - `CancelledNeverTurnsBack`: every step of a cancelled call lessens `Remaining`. An
    admission is the one action that could take a flag back; it is for ids never
    seen, and a cancelled one was seen (`FreedInv`).
- `NexusLifecycleProofs`: `TypeCorrect`, `StoredIsKept`, `OwnerConfigures`,
  `ForeignIsEvidence`, `HalfMadeIsEvidence`, `RegisterKept` from `StoreInv`: where a
  process is says what the file is (past recognition it is not foreign, at `seed` it has its table, from
  `bind` on its row), the holder is the only process past `open`, the row of a
  seeded file is the last one stored, once the owner has configured it is the
  owner's, and a process about to serve is bound to the row. `RegisterKept`:
  `Spec => Kept!Spec`. The step that binds the sockets is the register's `Serve`: by
  `StoreInv` nobody else serves then, since the engine has one holder, and what the
  process read at its seed is still the row, since only a process that serves
  replaces it. `HalfMadeIsEvidence` needs types only.
- `ListenerProofs`: `TypeCorrect`, and `NoThreadLeftBehind` from `ListenerInv`: a watcher
  exists only while its worker watches, a worker only while the main thread keeps
  its handle, and the main thread has joined them all when it exits.
  `NobodyIsLeftWaiting` from `WakingInv`: a watcher is started once, after the Flow
  stream was opened, and ends by shutting it, a
  worker shuts its client's half before it joins its watcher, its response has ended
  when it is done, and both halves of every live worker's socket are shut once the
  main thread joins. `NobodyWaits` adds to this what a vanished client's socket does.
- `SubscriptionProofs`
  - `TypeCorrect`, `OutcomesAreTrue`, `LossesAreExplicit`, `PlaceIsKept` from `SubInv`. The
    responses in flight form a chain of cursors that begins where the client stands
    and ends where the worker stands (`WireInv`): each response tells exactly what
    lies between its cursor and the one before it. What the worker takes for its
    last response the client will take for the last (`AgreeInv`), because both
    judge the same response against the same delivery. None of the properties is
    inductive without the chain: they speak of the client, which is behind.
  - `HistoryFollowed`: `Spec => Reader!Spec`. Reading a response begins, advances over
    what it tells, or starts over; every other step of worker and client is a
    stutter, and Flow's a growth. `SnapshotsTell` says that the latest change of each
    delivery between two cursors is enough to know all of them; it needs the
    largest member of a bounded set (`Largest`), which the library gives through
    the well-foundedness of `<`.
  - `NothingIsMissed` follows from `HistoryFollowed`: it is an invariant of `LogReader`.

Model-checked only: the liveness properties `ServesAgain`, `BoundedAnswer`,
`CancelEnds`, `DrainEnds`, `ShutdownCompletes`, `ClientGoneReleases`, `ResponseEnds` and
`EndIsLearned`, since fairness is out of the prover's reach. Four theorems
carry their argument as far as it goes without fairness: `NobodyIsStranded` and
`CancelledNeverTurnsBack` say that a cancelled worker is never blocked and that each
of its steps brings its end nearer, which with the fairness of section 4 is
`CancelEnds` and most of `DrainEnds`; `NobodyIsLeftWaiting` says the first of the
listener's workers, `NothingIsReplayed` the second of a Send's. Every safety property
of a passing run is proved.

## 6. What is not modelled

- Which of Flow's refusals becomes which of Message's: a table of 22 cases without
  state, which a model would only repeat. `SendPath` distinguishes refusals of the
  Send contract from others.
- Modelled, but with no promise to check: the place of a client whose observation is
  interrupted before its first status.
  `forward_subscription` has no cursor then, whatever it opened from
  (`listener.rs:298`); the model says so (the client starts over, which
  `FollowsHistory` allows and `PlaceKept` leaves out), and no document promises more.
- A status that is told twice: after an interruption a client may be shown a change
  again. The properties are about what is missed, not about repetitions.
- The adapter's texts: an `ObserveSends` whose connection ends is reported as "Send
  admission outcome is unknown" like a Send. The model keeps what the text makes
  of the client's cursor only.
- In the adapter and in the start of the Nexus, `connect` that blocks on a full
  backlog; in the adapter, a write to a standard output nobody reads: assumed away in
  section 4. The `connect` of a Send may block in `SendPath` and `Listener`.
- A store that fails while Message serves: a Configure whose read or replacement of
  the row fails is refused and changes nothing (`service.rs:36-42`), a stutter of
  `NexusLifecycle`; a Send whose read fails is `StoreRefused` in `SendPath`.
- What a command-line client does beyond its loop: its exit code, and a lost answer
  to Configure.
- Parsing and printing, path layout, frame encoding: pure, and without a property
  of the system that depends on them. A frame is written and read whole or not at
  all; a partly written frame is one Flow cannot read.
- A thread that panics: `service.rs` and `listener.rs` have no path that does, and a
  poisoned store mutex is taken over (`nexus.rs:66-70`).
- `delivery.rs` and `ledger.rs`: not part of the program.

## 7. Plan

Done, in the order of importance: `SendContract` and `SendPath`, `CallContract` and
`McpAdapter`, `ConfigurationRegister` and `NexusLifecycle`, `Listener`, `LogReader` and
`Subscription`, each with proofs of its safety properties.

What would come next:

1. `Refusals`: `for_message` and `for_send` as pure operators, once their outcome
   decides what a caller does next.
2. One composition of `SendPath` and `Subscription`, in which the cursor of the
   acceptance comes from the very Deliver; now `Admit` is one step, and the refinement
   of `SendContract` says what it stands for.
3. Two clients of one sender that resume from each other's cursors, if the code
   comes to keep a cursor of its own.
