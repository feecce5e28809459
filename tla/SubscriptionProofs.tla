------------------------- MODULE SubscriptionProofs -------------------------
(***************************************************************************)
(* Proofs about Subscription, for any deliveries, any length of the        *)
(* history, any number of breaks and any size of the sockets.              *)
(***************************************************************************)
EXTENDS Subscription, TLAPS, WellFoundedInduction

\* A non-empty set of naturals up to c has a largest member.
LEMMA Largest ==
  ASSUME NEW c \in Nat, NEW S \in SUBSET (1 .. c), S # {}
  PROVE  \E j \in S : \A k \in S : k <= j
<1> DEFINE T == {n \in Nat : n <= c /\ c - n \in S}
<1>1. T \in SUBSET Nat /\ T # {}
  <2>1. PICK i \in S : TRUE
    OBVIOUS
  <2>2. c - i \in Nat /\ c - i <= c /\ c - (c - i) = i
    BY <2>1
  <2> QED
    BY <2>1, <2>2
<1>2. PICK n \in T : \A m \in T : n <= m
  <2> DEFINE R == {ss \in Nat \X Nat : ss[1] < ss[2]}
  <2>1. IsWellFoundedOn(R, Nat)
    BY NatLessThanWellFounded DEF OpToRel
  <2>2. PICK n \in T : \A m \in T : <<m, n>> \notin R
    BY <1>1, <2>1, WFMin
  <2>3. ASSUME NEW m \in T, m < n PROVE <<m, n>> \in R
    BY <2>3
  <2>4. \A m \in T : m \in Nat /\ n \in Nat
    OBVIOUS
  <2> HIDE DEF R, T
  <2>5. ASSUME NEW m \in T PROVE n <= m
    <3>1. ~(m < n)
      BY <2>2, <2>3
    <3> QED
      BY <2>4, <3>1
  <2> QED
    BY <2>5
<1>3. \A k \in S : c - k \in T
  <2> TAKE k \in S
  <2>1. c - k \in Nat /\ c - k <= c /\ c - (c - k) = k
    OBVIOUS
  <2> QED
    BY <2>1
<1> QED
  BY <1>2, <1>3

\* Every change between two cursors is known from the snapshots of SendsObserved:
\* the latest change of its delivery among them is one.
LEMMA SnapshotsTell ==
  ASSUME log \in Seq(Changes), NEW c \in Nat, NEW p \in Nat, p <= Len(log)
  PROVE  /\ Snapshots(c, p) \subseteq 1 .. Len(log)
         /\ \A i \in c + 1 .. p : Reader!Knows(Snapshots(c, p), i)
<1>1. Snapshots(c, p) \subseteq 1 .. Len(log)
  BY DEF Snapshots
<1>2. ASSUME NEW i \in c + 1 .. p PROVE Reader!Knows(Snapshots(c, p), i)
  <2> DEFINE Same == {j \in i .. p : log[j].delivery = log[i].delivery}
  <2>1. Same \in SUBSET (1 .. p) /\ i \in Same
    BY <1>2
  <2>2. PICK j \in Same : \A k \in Same : k <= j
    BY <2>1, Largest
  <2>3. j \in Snapshots(c, p)
    BY <1>2, <2>2 DEF Snapshots
  <2> QED
    BY <1>2, <2>2, <2>3 DEF Reader!Knows
<1> QED
  BY <1>1, <1>2
(***************************************************************************)
(* The invariant.  The responses on the wire form a chain of cursors that  *)
(* begins where the client stands and ends where the worker stands, so     *)
(* that each tells exactly what lies between its cursor and the one before *)
(* it; and what the worker takes for its last response the client will     *)
(* take for the last as well.                                              *)
(***************************************************************************)
\* Where the client stands when it comes to response k, and after all of them.
Before(k) == IF k = 1 THEN standing ELSE wire[k - 1].cursor
ChainEnd  == IF wire = <<>> THEN standing ELSE wire[Len(wire)].cursor

Statuses == {"SendsObserved", "SendChanged"}
Closing  == {"ObservationInterrupted", "Answer"}

FrameInv(k) ==
  /\ wire[k].cursor <= Len(log) /\ wire[k].items \subseteq Positions
  /\ wire[k].kind = "SendAccepted" =>
       k = 1 /\ terminal_id # None /\ wire[k].cursor = opened /\ wire[k].items = {opened}
  /\ wire[k].kind = "SendsObserved" =>
       Before(k) <= wire[k].cursor /\ wire[k].items = Snapshots(Before(k), wire[k].cursor)
  /\ wire[k].kind = "SendChanged" =>
       wire[k].cursor = Before(k) + 1 /\ wire[k].items = {wire[k].cursor}
  /\ wire[k].kind = "ObservationInterrupted" =>
       wire[k].cursor = Before(k) \/ (wire[k].cursor = 0 /\ ~begun)
  /\ wire[k].kind \in Closing => k = Len(wire) /\ worker = "ended"

WireInv == \A k \in 1 .. Len(wire) : FrameInv(k)

\* The response ends a call that was accepted as terminal_id.
Final(f) ==
  \/ f.kind \in Closing
  \/ f.kind \in Statuses /\ terminal_id # None /\ Ends(f.items, terminal_id)

WorkerInv ==
  /\ worker # "idle"
  /\ worker \in {"query", "accepted"} => wire = <<>> /\ ~begun /\ accepted_id = None
  /\ worker = "query" => terminal_id = None /\ (call = "observe" => opened = standing)
  /\ worker = "accepted" => terminal_id # None
  /\ worker = "stream" => ChainEnd = IF begun THEN last_cursor ELSE opened
  /\ worker = "stream" /\ ~begun => \A k \in 1 .. Len(wire) : wire[k].kind = "SendAccepted"

ClientInv ==
  /\ outcome = "none"
  /\ last \in {0, standing}
  /\ begun /\ last # standing => wire # <<>> /\ wire[1].kind \in {"SendAccepted", "SendsObserved"}
  /\ accepted_id \in {None, terminal_id}

\* Worker and client agree on the accepted delivery and on the last response.
AgreeInv ==
  /\ worker \in {"stream", "ended"} /\ terminal_id # None /\ ~abrupt =>
       accepted_id = terminal_id \/ (wire # <<>> /\ wire[1].kind = "SendAccepted")
  /\ worker = "ended" /\ ~abrupt => wire # <<>> /\ Final(wire[Len(wire)])

PlaceInv ==
  /\ standing <= Len(log) /\ opened <= Len(log) /\ last_cursor <= Len(log) /\ last <= Len(log)
  /\ shown \subseteq Positions
  /\ terminal_id # None => opened \in Positions /\ log[opened].delivery = terminal_id
  /\ ~begun => last_cursor = 0

CallInv == WireInv /\ WorkerInv /\ ClientInv /\ AgreeInv

SubInv ==
  /\ TypeOK /\ PlaceInv /\ OutcomeIsTrue /\ LossIsExplicit
  /\ call # "none" => CallInv

LEMMA InitInv == Init => SubInv
<1> SUFFICES ASSUME Init PROVE SubInv
  OBVIOUS
<1>1. log = <<>> /\ wire = <<>> /\ <<>> \in Seq(Changes) /\ <<>> \in Seq(Frames)
  BY DEF Init
<1>2. TypeOK
  BY <1>1 DEF Init, TypeOK, Outcomes
<1> QED
  BY <1>1, <1>2 DEF Init, SubInv, PlaceInv, OutcomeIsTrue, LossIsExplicit

(***************************************************************************)
(* The history grows.                                                      *)
(***************************************************************************)
LEMMA Grown ==
  ASSUME TypeOK, NEW d \in Deliveries, NEW state \in States, Change(d, state)
  PROVE  /\ log' \in Seq(Changes) /\ Len(log') = Len(log) + 1 /\ Positions \subseteq Positions'
         /\ log'[Len(log) + 1] = [delivery |-> d, state |-> state]
         /\ \A i \in Positions : log'[i] = log[i]
<1>1. log \in Seq(Changes) /\ [delivery |-> d, state |-> state] \in Changes
  BY DEF TypeOK, Changes
<1> QED
  BY <1>1 DEF Change, Positions

\* What was said of the history stays true when it grows.
LEMMA GrownKeeps ==
  ASSUME TypeOK, NEW d \in Deliveries, NEW state \in States, Change(d, state)
  PROVE  /\ \A c, p \in Nat : p <= Len(log) => Snapshots(c, p)' = Snapshots(c, p)
         /\ \A items \in SUBSET Positions : \A e : Ends(items, e)' = Ends(items, e)
<1>1. log \in Seq(Changes) /\ \A i \in Positions : log'[i] = log[i]
  BY Grown DEF TypeOK
<1>2. ASSUME NEW c \in Nat, NEW p \in Nat, p <= Len(log)
      PROVE  Snapshots(c, p)' = Snapshots(c, p)
  <2>1. \A i \in c + 1 .. p : i \in Positions
    BY <1>2 DEF Positions
  <2>2. \A i \in c + 1 .. p : \A j \in i + 1 .. p : j \in Positions
    BY <1>2 DEF Positions
  <2> QED
    BY <1>1, <2>1, <2>2 DEF Snapshots
<1>3. ASSUME NEW items \in SUBSET Positions, NEW e PROVE Ends(items, e)' = Ends(items, e)
  BY <1>1 DEF Ends
<1> QED
  BY <1>2, <1>3

\* The cursors of the chain are naturals.
LEMMA ChainType ==
  ASSUME TypeOK
  PROVE  /\ \A k \in 1 .. Len(wire) : wire[k] \in Frames /\ Before(k) \in Nat
         /\ ChainEnd \in Nat
<1>1. wire \in Seq(Frames) /\ Len(wire) \in Nat /\ standing \in Nat
  BY DEF TypeOK
<1>2. \A k \in 1 .. Len(wire) : wire[k] \in Frames /\ wire[k].cursor \in Nat
  <2>1. \A k \in 1 .. Len(wire) : wire[k] \in Frames
    BY <1>1
  <2>2. \A f \in Frames : f.cursor \in Nat
    BY DEF Frames
  <2> QED
    BY <2>1, <2>2
<1>3. wire # <<>> => Len(wire) \in 1 .. Len(wire)
  BY <1>1
<1>4. \A k \in 1 .. Len(wire) : k # 1 => k - 1 \in 1 .. Len(wire)
  BY <1>1
<1> QED
  BY <1>1, <1>2, <1>3, <1>4 DEF Before, ChainEnd

\* The history grows and every response in flight still says the truth.
LEMMA FlowKeeps ==
  ASSUME SubInv, FlowChanges
  PROVE  SubInv'
<1>0. TypeOK /\ PlaceInv
  BY DEF SubInv
<1>1. PICK d \in Deliveries, state \in States : Change(d, state)
  BY DEF FlowChanges
<1>2. /\ log' \in Seq(Changes) /\ Len(log') = Len(log) + 1 /\ Positions \subseteq Positions'
      /\ \A i \in Positions : log'[i] = log[i]
  BY <1>0, <1>1, Grown
<1>3. UNCHANGED <<breaks, client, nexus, wire, history, abrupt>>
  BY DEF FlowChanges
<1> USE <1>3 DEF client, nexus, history
<1>4. TypeOK'
  BY <1>0, <1>2 DEF TypeOK
<1>5. PlaceInv'
  BY <1>0, <1>2 DEF PlaceInv, TypeOK
<1>6. OutcomeIsTrue' /\ LossIsExplicit'
  BY <1>2 DEF SubInv, OutcomeIsTrue, LossIsExplicit
<1>7. ASSUME call # "none" PROVE CallInv'
  <2>0. CallInv
    BY <1>7 DEF SubInv
  <2>1. ASSUME NEW k \in 1 .. Len(wire) PROVE FrameInv(k)'
    <3>1. FrameInv(k) /\ wire[k] \in Frames /\ Before(k) \in Nat /\ Before(k)' = Before(k)
      BY <1>0, <2>0, <2>1, ChainType DEF CallInv, WireInv, Before
    <3>2. wire[k].kind = "SendsObserved" =>
            Snapshots(Before(k), wire[k].cursor)' = Snapshots(Before(k), wire[k].cursor)
      BY <1>0, <1>1, <3>1, GrownKeeps DEF FrameInv, Frames
    <3> QED
      BY <1>0, <1>2, <3>1, <3>2 DEF FrameInv, TypeOK, Frames
  <2>2. WorkerInv' /\ ClientInv'
    BY <2>0 DEF CallInv, WorkerInv, ClientInv, ChainEnd
  <2>3. AgreeInv'
    <3>1. wire # <<>> => /\ Len(wire) \in 1 .. Len(wire)
                         /\ wire[Len(wire)].items \in SUBSET Positions
      BY <1>0, <2>0 DEF CallInv, WireInv, FrameInv, TypeOK
    <3>2. wire # <<>> /\ Final(wire[Len(wire)]) => Final(wire[Len(wire)])'
      BY <1>0, <1>1, <3>1, GrownKeeps DEF Final
    <3> QED
      BY <2>0, <3>2 DEF CallInv, AgreeInv
  <2> QED
    BY <2>1, <2>2, <2>3 DEF CallInv, WireInv
<1> QED
  BY <1>4, <1>5, <1>6, <1>7 DEF SubInv

(***************************************************************************)
(* The worker.  It only appends to the wire while the history rests; what  *)
(* it appends is told from where the chain ends.                           *)
(***************************************************************************)
LEMMA Appended ==
  ASSUME TypeOK, NEW f \in Frames, wire' = Append(wire, f)
  PROVE  /\ wire' \in Seq(Frames) /\ wire' # <<>> /\ Len(wire) \in Nat
         /\ Len(wire') = Len(wire) + 1 /\ wire'[Len(wire')] = f
         /\ wire # <<>> => wire'[1] = wire[1]
         /\ wire = <<>> => wire'[1] = f
         /\ \A i \in 1 .. Len(wire) : wire'[i] = wire[i]
<1>1. wire \in Seq(Frames) /\ Len(wire) \in Nat
  BY DEF TypeOK
<1>2. wire' \in Seq(Frames) /\ Len(wire') = Len(wire) + 1 /\ wire'[Len(wire) + 1] = f
      /\ \A i \in 1 .. Len(wire) : wire'[i] = wire[i]
  BY <1>1
<1>3. wire # <<>> => 1 \in 1 .. Len(wire)
  BY <1>1
<1>4. wire = <<>> => Len(wire) = 0
  OBVIOUS
<1>5. Len(wire') # 0
  BY <1>1, <1>2
<1>6. wire' # <<>>
  BY <1>5
<1> QED
  BY <1>1, <1>2, <1>3, <1>4, <1>6

\* A response that continues the chain may be written at its end.
LEMMA WireAppended ==
  ASSUME TypeOK, WireInv, NEW f \in Frames, wire' = Append(wire, f), log' = log,
         standing' = standing, terminal_id' = terminal_id, opened' = opened,
         worker # "ended", begun' = begun \/ f.kind # "ObservationInterrupted",
         begun => begun',
         f.cursor <= Len(log), f.items \subseteq Positions,
         f.kind # "SendAccepted",
         f.kind = "SendsObserved" =>
           ChainEnd <= f.cursor /\ f.items = Snapshots(ChainEnd, f.cursor),
         f.kind = "SendChanged" => f.cursor = ChainEnd + 1 /\ f.items = {f.cursor},
         f.kind = "ObservationInterrupted" => f.cursor = ChainEnd \/ (f.cursor = 0 /\ ~begun),
         f.kind \in Closing => worker' = "ended"
  PROVE  WireInv'
<1> SUFFICES ASSUME NEW k \in 1 .. Len(wire') PROVE FrameInv(k)'
  BY DEF WireInv
<1>1. wire \in Seq(Frames) /\ Len(wire) \in Nat /\ Len(wire') = Len(wire) + 1
      /\ wire'[Len(wire) + 1] = f /\ \A i \in 1 .. Len(wire) : wire'[i] = wire[i]
  BY DEF TypeOK
<1>2. Positions' = Positions
  BY DEF Positions
<1>3. CASE k \in 1 .. Len(wire)
  <2>1. wire'[k] = wire[k] /\ FrameInv(k) /\ wire[k].kind \notin Closing
    BY <1>1, <1>3 DEF WireInv, FrameInv
  <2>2. Before(k)' = Before(k)
    BY <1>1, <1>3 DEF Before
  <2>3. Snapshots(Before(k), wire[k].cursor)' = Snapshots(Before(k), wire[k].cursor)
    BY <1>1, <1>3, <2>1, <2>2 DEF Snapshots
  <2> QED
    BY <1>2, <2>1, <2>2, <2>3 DEF FrameInv, Closing
<1>4. CASE k = Len(wire) + 1
  <2>1. wire'[k] = f
    BY <1>1, <1>4
  <2>2. Before(k)' = ChainEnd
    BY <1>1, <1>4 DEF Before, ChainEnd
  <2>3. Snapshots(Before(k), f.cursor)' = Snapshots(ChainEnd, f.cursor)
    BY <2>1, <2>2 DEF Snapshots
  <2> QED
    BY <1>1, <1>2, <1>4, <2>1, <2>2, <2>3 DEF FrameInv, Closing
<1> QED
  BY <1>1, <1>3, <1>4

\* A worker that answers at once.
LEMMA AnswerKeeps ==
  ASSUME SubInv, Deny \/ RefuseObservation
  PROVE  SubInv'
<1> DEFINE f == Frame("Answer", 0, {})
<1>0. TypeOK /\ PlaceInv /\ (call # "none" => CallInv)
  BY DEF SubInv
<1>1. /\ wire' = Append(wire, f) /\ worker = "query" /\ worker' = "ended" /\ call # "none"
      /\ UNCHANGED <<log, client, opened, terminal_id, begun, last_cursor, history, abrupt>>
      /\ breaks' \in Nat
  BY <1>0 DEF Deny, RefuseObservation, Breaks, TypeOK
<1>2. f \in Frames /\ f.kind = "Answer" /\ f.cursor = 0 /\ f.items = {}
  BY DEF Frame, Frames
<1> HIDE DEF f
<1> USE <1>1 DEF client, history
<1>3. TypeOK'
  BY <1>0, <1>2 DEF TypeOK
<1>4. PlaceInv' /\ OutcomeIsTrue' /\ LossIsExplicit'
  BY <1>0 DEF SubInv, PlaceInv, OutcomeIsTrue, LossIsExplicit, Positions
<1>5. WireInv'
  BY <1>0, <1>2, WireAppended DEF CallInv, Closing, TypeOK
<1>6. wire = <<>> /\ wire' # <<>> /\ wire'[Len(wire')] = f
  BY <1>0, <1>2, Appended DEF CallInv, WorkerInv
<1>7. WorkerInv' /\ ClientInv' /\ AgreeInv'
  BY <1>0, <1>2, <1>6 DEF CallInv, WorkerInv, ClientInv, AgreeInv, Final, Closing
<1> QED
  BY <1>3, <1>4, <1>5, <1>7 DEF SubInv, CallInv

\* Flow's cursor of the acceptance is the position of the delivery's first change.
LEMMA AdmitKeeps ==
  ASSUME SubInv, Admit
  PROVE  SubInv'
<1>0. TypeOK /\ PlaceInv /\ (call # "none" => CallInv)
  BY DEF SubInv
<1>1. PICK d \in Deliveries :
        /\ worker = "query" /\ call = "send" /\ Change(d, "Queued") /\ terminal_id' = d
        /\ opened' = Len(log) + 1 /\ worker' = "accepted"
        /\ UNCHANGED <<breaks, client, begun, last_cursor, wire, history, abrupt>>
  BY DEF Admit
<1>2. /\ log' \in Seq(Changes) /\ Len(log') = Len(log) + 1 /\ Positions \subseteq Positions'
      /\ log'[Len(log) + 1].delivery = d /\ \A i \in Positions : log'[i] = log[i]
  <2>1. "Queued" \in States
    BY DEF States
  <2>2. [delivery |-> d, state |-> "Queued"].delivery = d
    OBVIOUS
  <2> QED
    BY <1>0, <1>1, <2>1, <2>2, Grown
<1> USE <1>1 DEF client, history
<1>3. Len(log) \in Nat /\ wire = <<>> /\ Len(wire) = 0
  BY <1>0 DEF TypeOK, CallInv, WorkerInv
<1>4. TypeOK'
  BY <1>0, <1>2, <1>3 DEF TypeOK
<1>5. PlaceInv'
  BY <1>0, <1>2, <1>3 DEF PlaceInv, TypeOK, Positions
<1>6. OutcomeIsTrue' /\ LossIsExplicit'
  BY <1>2 DEF SubInv, OutcomeIsTrue, LossIsExplicit
<1>7. WireInv'
  BY <1>3 DEF WireInv
<1>8. WorkerInv' /\ ClientInv' /\ AgreeInv'
  BY <1>0, <1>3, BoundsAssumption DEF CallInv, WorkerInv, ClientInv, AgreeInv
<1> QED
  BY <1>4, <1>5, <1>6, <1>7, <1>8 DEF SubInv, CallInv

\* A worker that ends without a response.
LEMMA AbruptKeeps ==
  ASSUME SubInv, Unmonitored \/ Kill
  PROVE  SubInv'
<1>0. TypeOK /\ PlaceInv /\ (call # "none" => CallInv)
  BY DEF SubInv
<1>1. /\ worker # "ended" /\ worker' = "ended" /\ abrupt' = TRUE /\ breaks' \in Nat
      /\ UNCHANGED <<log, client, opened, terminal_id, begun, last_cursor, wire, history>>
  BY <1>0 DEF Unmonitored, Kill, Breaks, TypeOK
<1> USE <1>1 DEF client, history
<1>2. TypeOK'
  BY <1>0 DEF TypeOK
<1>3. PlaceInv' /\ OutcomeIsTrue' /\ LossIsExplicit'
  BY <1>0 DEF SubInv, PlaceInv, OutcomeIsTrue, LossIsExplicit, Positions
<1>4. ASSUME call # "none" PROVE CallInv'
  <2>1. WireInv'
    <3> SUFFICES ASSUME NEW k \in 1 .. Len(wire) PROVE FrameInv(k)'
      BY DEF WireInv
    <3>1. FrameInv(k)
      BY <1>0, <1>4 DEF CallInv, WireInv
    <3> QED
      BY <3>1 DEF FrameInv, Positions, Before, Snapshots
  <2>2. WorkerInv' /\ ClientInv' /\ AgreeInv'
    BY <1>0, <1>4 DEF CallInv, WorkerInv, ClientInv, AgreeInv
  <2> QED
    BY <2>1, <2>2 DEF CallInv
<1> QED
  BY <1>2, <1>3, <1>4 DEF SubInv

\* The subscription is opened, or could not be: the first responses of a call.
LEMMA SubscribeKeeps ==
  ASSUME SubInv, Subscribe \/ SubscribeFails
  PROVE  SubInv'
<1> DEFINE a == Frame("SendAccepted", opened, {opened})
           i == Interrupted(opened)
<1>0. TypeOK /\ PlaceInv /\ (call # "none" => CallInv)
  BY DEF SubInv
<1>1. /\ UNCHANGED <<log, client, opened, terminal_id, begun, last_cursor, history, abrupt>>
      /\ breaks' \in Nat /\ Subscribing
      /\ \/ wire' = wire \o Acceptance /\ worker' = "stream"
         \/ wire' = Append(wire \o Acceptance, i) /\ worker' = "ended"
  BY <1>0 DEF Subscribe, SubscribeFails, Breaks, TypeOK
<1> USE <1>1 DEF client, history
<1>2. PlaceInv' /\ OutcomeIsTrue' /\ LossIsExplicit'
  BY <1>0 DEF SubInv, PlaceInv, OutcomeIsTrue, LossIsExplicit, Positions
<1>3. /\ a \in Frames /\ a.kind = "SendAccepted" /\ a.cursor = opened /\ a.items = {opened}
      /\ i \in Frames /\ i.kind = "ObservationInterrupted" /\ i.cursor = opened /\ i.items = {}
  BY <1>0 DEF TypeOK, Frame, Frames, Interrupted
<1>4. CASE call = "none"
  <2>1. wire' \in Seq(Frames)
    <3>1. wire \in Seq(Frames) /\ Acceptance \in Seq(Frames) /\ <<i>> \in Seq(Frames)
      BY <1>0, <1>3 DEF TypeOK, Acceptance
    <3> HIDE DEF i
    <3>2. wire \o Acceptance \in Seq(Frames)
      BY <3>1
    <3>3. Append(wire \o Acceptance, i) \in Seq(Frames)
      BY <3>1, <3>2
    <3> QED
      BY <3>2, <3>3
  <2>2. TypeOK'
    BY <1>0, <2>1 DEF TypeOK
  <2> QED
    BY <1>2, <1>4, <2>2 DEF SubInv
<1>5. CASE call # "none"
  <2>0. wire = <<>> /\ ~begun /\ accepted_id = None
    BY <1>0, <1>5 DEF CallInv, WorkerInv, Subscribing
  <2>1. \/ terminal_id # None /\ wire' = <<a>> /\ worker' = "stream"
        \/ /\ terminal_id # None /\ wire' # <<>> /\ wire' \in Seq(Frames)
           /\ Len(wire') = 2 /\ wire'[1] = a /\ wire'[2] = i /\ worker' = "ended"
        \/ terminal_id = None /\ wire' = <<>> /\ worker' = "stream"
        \/ terminal_id = None /\ wire' = <<i>> /\ worker' = "ended"
    <3>1. IF terminal_id = None THEN Acceptance = <<>> ELSE Acceptance = <<a>>
      BY DEF Acceptance
    <3> HIDE DEF a, i
    <3>2. <<>> \o <<>> = <<>> /\ <<>> \o <<a>> = <<a>> /\ Append(<<>>, i) = <<i>>
      OBVIOUS
    <3>3. LET w == Append(<<a>>, i)
          IN  w \in Seq(Frames) /\ w # <<>> /\ Len(w) = 2 /\ w[1] = a /\ w[2] = i
      <4>1. <<a>> \in Seq(Frames) /\ Len(<<a>>) = 1 /\ <<a>>[1] = a
        BY <1>3
      <4>2. Append(<<a>>, i) \in Seq(Frames) /\ Len(Append(<<a>>, i)) = 2
        BY <1>3, <4>1
      <4>3. Append(<<a>>, i)[1] = a /\ Append(<<a>>, i)[2] = i
        BY <1>3, <4>1
      <4>4. Append(<<a>>, i) # <<>>
        BY <4>2
      <4> QED
        BY <4>2, <4>3, <4>4
    <3> QED
      BY <2>0, <3>1, <3>2, <3>3
  <2>2. terminal_id = None => standing = opened
    BY <1>0, <1>5 DEF CallInv, WorkerInv, Subscribing
  <2>3. opened \in Nat /\ (terminal_id # None => opened \in Positions)
    BY <1>0 DEF PlaceInv, TypeOK
  <2> HIDE DEF a, i
  <2>4. TypeOK'
    <3>1. <<>> \in Seq(Frames) /\ <<a>> \in Seq(Frames) /\ <<i>> \in Seq(Frames)
      BY <1>3
    <3>2. wire' \in Seq(Frames) /\ worker' \in {"stream", "ended"}
      BY <2>1, <3>1
    <3> QED
      BY <1>0, <3>2 DEF TypeOK
  <2>5. WireInv'
    <3> SUFFICES ASSUME NEW k \in 1 .. Len(wire') PROVE FrameInv(k)'
      BY DEF WireInv
    <3>1. \/ k = 1 /\ wire'[k] = a /\ terminal_id # None
          \/ k = Len(wire') /\ wire'[k] = i /\ Before(k)' = opened /\ worker' = "ended"
      BY <1>3, <2>1, <2>2 DEF Before
    <3>2. Positions' = Positions /\ opened <= Len(log)
      BY <1>0 DEF Positions, PlaceInv
    <3> QED
      BY <1>3, <2>3, <3>1, <3>2 DEF FrameInv, Closing
  <2>6. WorkerInv'
    <3>1. worker' = "stream" => ChainEnd' = opened
      BY <1>3, <2>1, <2>2 DEF ChainEnd
    <3>2. worker' = "stream" => \A k \in 1 .. Len(wire') : wire'[k].kind = "SendAccepted"
      BY <1>3, <2>1
    <3> QED
      BY <2>0, <2>1, <3>1, <3>2 DEF WorkerInv
  <2>7. ClientInv'
    BY <1>0, <1>5, <2>0 DEF CallInv, ClientInv
  <2>8. AgreeInv'
    <3>1. worker' = "ended" => wire' # <<>> /\ Final(wire[Len(wire)])'
      <4>1. worker' = "ended" => wire' # <<>> /\ wire'[Len(wire')] = i
        BY <2>1
      <4> QED
        BY <1>3, <4>1 DEF Final, Closing
    <3>2. terminal_id # None => wire' # <<>> /\ wire'[1] = a
      BY <2>1
    <3> QED
      BY <1>3, <2>1, <3>1, <3>2 DEF AgreeInv
  <2> QED
    BY <1>2, <2>4, <2>5, <2>6, <2>7, <2>8 DEF SubInv, CallInv
<1> QED
  BY <1>4, <1>5

\* The snapshots tell changes of the history.
LEMMA SnapshotsTold ==
  ASSUME TypeOK, NEW c \in Nat, NEW p \in Nat, p <= Len(log)
  PROVE  Snapshots(c, p) \subseteq Positions
BY DEF Snapshots, Positions, TypeOK

\* A status is forwarded.
LEMMA ForwardKeeps ==
  ASSUME SubInv, ForwardObserved \/ ForwardChanged
  PROVE  SubInv'
<1>0. TypeOK /\ PlaceInv /\ (call # "none" => CallInv)
  BY DEF SubInv
<1>1. PICK f \in Frames :
        /\ wire' = Append(wire, f) /\ worker = "stream" /\ last_cursor' = f.cursor
        /\ worker' = IF Ends(f.items, terminal_id) THEN "ended" ELSE worker
        /\ f.cursor <= Len(log) /\ f.items \subseteq Positions /\ f.kind \in Statuses
        /\ begun' = TRUE
        /\ UNCHANGED <<log, breaks, client, opened, terminal_id, history, abrupt>>
        /\ \/ /\ f.kind = "SendsObserved" /\ ~begun
              /\ opened <= f.cursor /\ f.items = Snapshots(opened, f.cursor)
           \/ /\ f.kind = "SendChanged" /\ begun
              /\ f.cursor = last_cursor + 1 /\ f.items = {f.cursor}
  <2>1. CASE ForwardObserved
    <3>1. PICK p \in opened .. Len(log) :
            ~begun /\ begun' = TRUE /\ Forward("SendsObserved", p, Snapshots(opened, p))
      BY <2>1 DEF ForwardObserved
    <3>2. p \in Nat /\ p <= Len(log) /\ opened <= p
      BY <1>0 DEF TypeOK
    <3>3. Snapshots(opened, p) \subseteq Positions /\ Positions \subseteq Nat
      BY <1>0, <3>2, SnapshotsTold DEF TypeOK, Positions
    <3> DEFINE f == Frame("SendsObserved", p, Snapshots(opened, p))
    <3>4. f \in Frames /\ f.kind = "SendsObserved" /\ f.cursor = p
          /\ f.items = Snapshots(opened, p)
      BY <3>2, <3>3 DEF Frame, Frames
    <3>5. f.kind \in Statuses
      BY <3>4 DEF Statuses
    <3> HIDE DEF f
    <3>6. wire' = Append(wire, f)
      BY <3>1 DEF Forward, f
    <3> QED
      BY <3>1, <3>2, <3>3, <3>4, <3>5, <3>6 DEF Forward
  <2>2. CASE ForwardChanged
    <3> DEFINE p == last_cursor + 1
               f == Frame("SendChanged", p, {p})
    <3>1. begun /\ begun' = begun /\ last_cursor < Len(log) /\ Forward("SendChanged", p, {p})
      BY <2>2 DEF ForwardChanged
    <3>2. p \in Nat /\ p <= Len(log) /\ {p} \subseteq Positions
      BY <1>0, <3>1 DEF TypeOK, Positions
    <3>3. f \in Frames /\ f.kind = "SendChanged" /\ f.cursor = p /\ f.items = {p}
      BY <3>2 DEF Frame, Frames
    <3>4. f.kind \in Statuses
      BY <3>3 DEF Statuses
    <3>5. wire' = Append(wire, f)
      BY <3>1 DEF Forward
    <3> HIDE DEF f
    <3> QED
      BY <3>1, <3>2, <3>3, <3>4, <3>5 DEF Forward
  <2> QED
    BY <2>1, <2>2
<1> USE <1>1 DEF client, history
<1>2. /\ wire' \in Seq(Frames) /\ wire' # <<>> /\ Len(wire) \in Nat
      /\ Len(wire') = Len(wire) + 1 /\ wire'[Len(wire')] = f
      /\ wire # <<>> => wire'[1] = wire[1]
      /\ wire = <<>> => wire'[1] = f
      /\ \A i \in 1 .. Len(wire) : wire'[i] = wire[i]
  BY <1>0, Appended
<1>3. TypeOK'
  <2>1. f.cursor \in Nat
    BY DEF Frames
  <2> QED
    BY <1>0, <1>2, <2>1 DEF TypeOK
<1>4. PlaceInv' /\ OutcomeIsTrue' /\ LossIsExplicit'
  BY <1>0 DEF SubInv, PlaceInv, OutcomeIsTrue, LossIsExplicit, Positions
<1>5. ASSUME call # "none" PROVE CallInv'
  <2>0. CallInv /\ ChainEnd = IF begun THEN last_cursor ELSE opened
    BY <1>0, <1>5 DEF CallInv, WorkerInv
  <2>1. WireInv'
    <3>1. f.kind \notin Closing /\ f.kind # "SendAccepted" /\ f.kind # "ObservationInterrupted"
      BY DEF Statuses, Closing
    <3> QED
      BY <1>0, <2>0, <3>1, WireAppended DEF CallInv
  <2>2. WorkerInv'
    <3>1. ChainEnd' = last_cursor'
      BY <1>2 DEF ChainEnd
    <3>2. worker' \in {"stream", "ended"}
      OBVIOUS
    <3> QED
      BY <3>1, <3>2 DEF WorkerInv
  <2>3. ClientInv'
    <3>1. ASSUME ~begun PROVE wire'[1].kind \in {"SendAccepted", "SendsObserved"}
      <4>1. wire # <<>> => wire[1].kind = "SendAccepted"
        <5>1. wire # <<>> => 1 \in 1 .. Len(wire)
          BY <1>0 DEF TypeOK
        <5> QED
          BY <2>0, <3>1, <5>1 DEF CallInv, WorkerInv
      <4> QED
        BY <1>2, <3>1, <4>1
    <3> QED
      BY <1>2, <2>0, <3>1 DEF CallInv, ClientInv
  <2>4. AgreeInv'
    <3>1. ASSUME worker' = "ended" PROVE Final(wire[Len(wire)])'
      <4>1. Ends(f.items, terminal_id)
        BY <3>1
      <4>2. terminal_id # None
        <5>1. PICK i \in f.items : log[i].delivery = terminal_id
          BY <4>1 DEF Ends
        <5>2. log[i] \in Changes
          BY <1>0, <5>1 DEF TypeOK, Positions
        <5> QED
          BY <5>1, <5>2, BoundsAssumption DEF Changes
      <4>3. Ends(f.items, terminal_id)'
        BY <4>1 DEF Ends
      <4> QED
        BY <1>2, <4>2, <4>3 DEF Final
    <3>2. terminal_id # None /\ ~abrupt =>
            accepted_id = terminal_id \/ (wire # <<>> /\ wire[1].kind = "SendAccepted")
      BY <2>0 DEF CallInv, AgreeInv
    <3> QED
      BY <1>2, <3>1, <3>2 DEF AgreeInv
  <2> QED
    BY <2>1, <2>2, <2>3, <2>4 DEF CallInv
<1> QED
  BY <1>3, <1>4, <1>5 DEF SubInv

\* The interruption carries the cursor of the last status forwarded.
LEMMA StreamEndsKeeps ==
  ASSUME SubInv, StreamEnds
  PROVE  SubInv'
<1> DEFINE f == Interrupted(last_cursor)
<1>0. TypeOK /\ PlaceInv /\ (call # "none" => CallInv)
  BY DEF SubInv
<1>1. /\ wire' = Append(wire, f) /\ worker = "stream" /\ worker' = "ended" /\ breaks' \in Nat
      /\ UNCHANGED <<log, client, opened, terminal_id, begun, last_cursor, history, abrupt>>
  BY <1>0 DEF StreamEnds, Breaks, TypeOK
<1>2. /\ f \in Frames /\ f.kind = "ObservationInterrupted" /\ f.cursor = last_cursor
      /\ f.items = {}
  BY <1>0 DEF TypeOK, Interrupted, Frame, Frames
<1> HIDE DEF f
<1> USE <1>1 DEF client, history
<1>3. /\ wire' \in Seq(Frames) /\ wire' # <<>> /\ wire'[Len(wire')] = f
      /\ wire # <<>> => wire'[1] = wire[1]
  BY <1>0, <1>2, Appended
<1>4. TypeOK'
  BY <1>0, <1>3 DEF TypeOK
<1>5. PlaceInv' /\ OutcomeIsTrue' /\ LossIsExplicit'
  BY <1>0 DEF SubInv, PlaceInv, OutcomeIsTrue, LossIsExplicit, Positions
<1>6. ASSUME call # "none" PROVE CallInv'
  <2>0. CallInv /\ ChainEnd = IF begun THEN last_cursor ELSE opened
    BY <1>0, <1>6 DEF CallInv, WorkerInv
  <2>1. WireInv'
    <3>1. f.cursor = ChainEnd \/ (f.cursor = 0 /\ ~begun)
      BY <1>0, <1>2, <2>0 DEF PlaceInv
    <3>2. f.cursor <= Len(log) /\ f.items \subseteq Positions
      BY <1>0, <1>2 DEF PlaceInv
    <3> QED
      BY <1>0, <1>2, <2>0, <3>1, <3>2, WireAppended DEF CallInv
  <2>2. WorkerInv' /\ ClientInv'
    BY <1>3, <2>0 DEF CallInv, WorkerInv, ClientInv
  <2>3. AgreeInv'
    <3>1. Final(wire[Len(wire)])'
      BY <1>2, <1>3 DEF Final, Closing
    <3> QED
      BY <1>3, <2>0, <3>1 DEF CallInv, AgreeInv
  <2> QED
    BY <2>1, <2>2, <2>3 DEF CallInv
<1> QED
  BY <1>4, <1>5, <1>6 DEF SubInv

(***************************************************************************)
(* The client.                                                             *)
(***************************************************************************)
LEMMA AskKeeps ==
  ASSUME SubInv, CallSend \/ CallObserve
  PROVE  SubInv'
<1>0. TypeOK /\ PlaceInv
  BY DEF SubInv
<1>1. PICK query \in {"send", "observe"}, cursor \in {0, standing} :
        Ask(query, cursor) /\ (query = "observe" => cursor = standing)
  BY DEF CallSend, CallObserve
<1>2. cursor \in Nat /\ cursor <= Len(log) /\ 0 \in Nat /\ 0 <= Len(log)
  BY <1>0 DEF TypeOK, PlaceInv
<1>3. /\ call' = query /\ accepted_id' = None /\ last' = 0 /\ outcome' = "none"
      /\ worker' = "query" /\ opened' = cursor /\ terminal_id' = None
      /\ begun' = FALSE /\ last_cursor' = 0 /\ wire' = <<>> /\ abrupt' = FALSE
      /\ UNCHANGED <<log, breaks, adapter, standing, from, shown>>
  BY <1>1 DEF Ask, history
<1>4. TypeOK'
  <2>1. <<>> \in Seq(Frames)
    OBVIOUS
  <2> QED
    BY <1>0, <1>2, <1>3, <2>1 DEF TypeOK, Outcomes
<1>5. PlaceInv' /\ OutcomeIsTrue' /\ LossIsExplicit'
  BY <1>0, <1>2, <1>3 DEF PlaceInv, OutcomeIsTrue, LossIsExplicit, Positions
<1>6. WireInv'
  <2>1. Len(<<>>) = 0
    OBVIOUS
  <2> QED
    BY <1>3, <2>1 DEF WireInv
<1>7. WorkerInv' /\ ClientInv' /\ AgreeInv'
  BY <1>1, <1>3 DEF WorkerInv, ClientInv, AgreeInv
<1> QED
  BY <1>4, <1>5, <1>6, <1>7 DEF SubInv, CallInv

\* A call that ends with the place the client keeps, or with none.
LEMMA EndKeeps ==
  ASSUME SubInv, NEW how \in Outcomes \ {"delivered", "failed"}, NEW cursor \in Nat,
         cursor <= Len(log), EndCall(how, cursor),
         how = "lost" => abrupt,
         wire' \in Seq(Frames), breaks' \in Nat,
         worker' \in {worker, "ended"},
         UNCHANGED <<log, adapter, accepted_id, last, opened, terminal_id, begun, last_cursor,
                     shown, abrupt>>
  PROVE  SubInv'
<1>0. TypeOK /\ PlaceInv
  BY DEF SubInv
<1>1. call' = "none" /\ outcome' = how /\ standing' = cursor /\ from' \in {0, from}
  BY DEF EndCall
<1>2. TypeOK'
  BY <1>0, <1>1 DEF TypeOK
<1>3. PlaceInv' /\ OutcomeIsTrue' /\ LossIsExplicit'
  BY <1>0, <1>1 DEF PlaceInv, OutcomeIsTrue, LossIsExplicit, Positions
<1> QED
  BY <1>1, <1>2, <1>3 DEF SubInv

\* The end of the stream takes nothing from the client but, at most, its place.
LEMMA ReadEndKeeps ==
  ASSUME SubInv, ReadEnd
  PROVE  SubInv'
<1>0. TypeOK /\ PlaceInv /\ CallInv
  BY DEF SubInv, ReadEnd
<1> DEFINE c == IF adapter /\ accepted_id = None THEN 0 ELSE standing
<1>1. EndCall("lost", c) /\ wire = <<>> /\ worker = "ended"
      /\ UNCHANGED <<log, breaks, adapter, accepted_id, last, nexus, wire, shown, abrupt>>
  BY DEF ReadEnd
<1>2. c \in Nat /\ c <= Len(log)
  BY <1>0 DEF TypeOK, PlaceInv
<1>3. abrupt
  BY <1>0, <1>1 DEF CallInv, AgreeInv, TypeOK
<1>4. wire' \in Seq(Frames) /\ breaks' \in Nat /\ "lost" \in Outcomes \ {"delivered", "failed"}
  BY <1>0, <1>1 DEF TypeOK, Outcomes
<1> HIDE DEF c
<1> QED
  BY <1>1, <1>2, <1>3, <1>4, EndKeeps DEF nexus

\* A cancelled call forgets what it did not read.
LEMMA CancelKeeps ==
  ASSUME SubInv, Cancel
  PROVE  SubInv'
<1>0. TypeOK /\ PlaceInv
  BY DEF SubInv
<1>1. /\ EndCall("cancelled", last) /\ worker' = "ended" /\ wire' = <<>> /\ breaks' \in Nat
      /\ UNCHANGED <<log, adapter, accepted_id, last, opened, terminal_id, begun, last_cursor,
                     shown, abrupt>>
  BY <1>0 DEF Cancel, Breaks, TypeOK
<1>2. last \in Nat /\ last <= Len(log)
  BY <1>0 DEF TypeOK, PlaceInv
<1>3. wire' \in Seq(Frames) /\ "cancelled" \in Outcomes \ {"delivered", "failed"}
  BY <1>1 DEF Outcomes
<1> QED
  BY <1>1, <1>2, <1>3, EndKeeps

\* The responses that remain when the first is read.
LEMMA HeadAndTail ==
  ASSUME TypeOK, wire # <<>>, wire' = Tail(wire)
  PROVE  /\ Head(wire) = wire[1] /\ wire[1] \in Frames /\ Len(wire) \in Nat
         /\ 1 \in 1 .. Len(wire) /\ wire' \in Seq(Frames) /\ Len(wire') = Len(wire) - 1
         /\ \A k \in 1 .. Len(wire') : k + 1 \in 1 .. Len(wire) /\ wire'[k] = wire[k + 1]
         /\ Len(wire) # 1 => wire' # <<>> /\ wire'[Len(wire')] = wire[Len(wire)]
         /\ wire' = <<>> => Len(wire) = 1
<1>1. wire \in Seq(Frames) /\ Len(wire) \in Nat /\ Len(wire) # 0
  BY DEF TypeOK
<1>2. Head(wire) = wire[1] /\ wire[1] \in Frames /\ 1 \in 1 .. Len(wire)
  BY <1>1
<1>3. wire' \in Seq(Frames) /\ Len(wire') = Len(wire) - 1
  BY <1>1
<1>4. \A k \in 1 .. Len(wire') : k + 1 \in 1 .. Len(wire) /\ wire'[k] = wire[k + 1]
  BY <1>1, <1>3
<1>5. Len(wire) # 1 => wire' # <<>> /\ Len(wire') \in 1 .. Len(wire')
  BY <1>1, <1>3
<1>6. Len(wire') + 1 = Len(wire)
  BY <1>1, <1>3
<1>7. wire' = <<>> => Len(wire) = 1
  <2>1. wire' = <<>> => Len(wire') = 0
    OBVIOUS
  <2>2. Len(wire') = 0 => Len(wire) = 1
    BY <1>1, <1>3
  <2> QED
    BY <2>1, <2>2
<1> QED
  BY <1>1, <1>2, <1>3, <1>4, <1>5, <1>6, <1>7

\* A response that leaves the client reading: the chain begins one later.
LEMMA ContinueKeeps ==
  ASSUME SubInv, call # "none", wire # <<>>, wire' = Tail(wire),
         standing' = wire[1].cursor, last' = wire[1].cursor,
         shown' = shown \cup wire[1].items, from' \in Nat,
         \/ wire[1].kind = "SendAccepted" /\ accepted_id' = log[wire[1].cursor].delivery
         \/ /\ wire[1].kind \in Statuses /\ accepted_id' = accepted_id
            /\ ~(accepted_id # None /\ Ends(wire[1].items, accepted_id)),
         UNCHANGED <<log, breaks, adapter, call, outcome, nexus, abrupt>>
  PROVE  SubInv'
<1> DEFINE f == wire[1]
<1>0. TypeOK /\ PlaceInv /\ CallInv
  BY DEF SubInv
<1>1. UNCHANGED <<worker, opened, terminal_id, begun, last_cursor>>
  BY DEF nexus
<1>2. /\ f \in Frames /\ Len(wire) \in Nat
      /\ 1 \in 1 .. Len(wire) /\ wire' \in Seq(Frames) /\ Len(wire') = Len(wire) - 1
      /\ \A k \in 1 .. Len(wire') : k + 1 \in 1 .. Len(wire) /\ wire'[k] = wire[k + 1]
      /\ Len(wire) # 1 => wire' # <<>> /\ wire'[Len(wire')] = wire[Len(wire)]
      /\ wire' = <<>> => Len(wire) = 1
  BY <1>0, HeadAndTail
<1>3. FrameInv(1) /\ f.cursor \in Nat /\ f.items \in SUBSET Nat
  BY <1>0, <1>2 DEF CallInv, WireInv, Frames
<1>4. accepted_id' \in {None, terminal_id} /\ (f.kind = "SendAccepted" => accepted_id' = terminal_id)
  BY <1>0, <1>3 DEF FrameInv, PlaceInv, CallInv, ClientInv, Statuses
<1>5. TypeOK'
  BY <1>0, <1>1, <1>2, <1>3, <1>4 DEF TypeOK
<1>6. PlaceInv'
  BY <1>0, <1>1, <1>3 DEF PlaceInv, FrameInv, Positions
<1>7. outcome = "none" /\ OutcomeIsTrue' /\ LossIsExplicit'
  BY <1>0 DEF CallInv, ClientInv, OutcomeIsTrue, LossIsExplicit
<1>8. WireInv'
  <2> SUFFICES ASSUME NEW k \in 1 .. Len(wire') PROVE FrameInv(k)'
    BY DEF WireInv
  <2>1. k + 1 \in 1 .. Len(wire) /\ wire'[k] = wire[k + 1] /\ k + 1 # 1 /\ k \in Nat
    BY <1>2
  <2>2. FrameInv(k + 1)
    BY <1>0, <2>1 DEF CallInv, WireInv
  <2>3. Before(k)' = Before(k + 1)
    <3>1. CASE k = 1
      BY <3>1 DEF Before
    <3>2. CASE k # 1
      <4>1. k - 1 \in 1 .. Len(wire') /\ (k - 1) + 1 = k /\ (k + 1) - 1 = k
        BY <1>2, <3>2
      <4>2. wire'[k - 1] = wire[k]
        BY <1>2, <4>1
      <4> QED
        BY <2>1, <3>2, <4>1, <4>2 DEF Before
    <3> QED
      BY <3>1, <3>2
  <2>4. Snapshots(Before(k), wire[k].cursor)' = Snapshots(Before(k + 1), wire[k + 1].cursor)
    BY <2>1, <2>3 DEF Snapshots
  <2>5. Positions' = Positions
    BY DEF Positions
  <2>6. k + 1 = Len(wire) => k = Len(wire')
    BY <1>2, <2>1
  <2> QED
    BY <1>1, <2>1, <2>2, <2>3, <2>4, <2>5, <2>6 DEF FrameInv
<1>9. WorkerInv'
  <2>1. worker \notin {"idle", "query", "accepted"}
    BY <1>0 DEF CallInv, WorkerInv
  <2>2. ChainEnd' = ChainEnd
    BY <1>2 DEF ChainEnd
  <2>3. worker = "stream" /\ ~begun => \A k \in 1 .. Len(wire') : wire'[k].kind = "SendAccepted"
    BY <1>0, <1>2 DEF CallInv, WorkerInv
  <2> QED
    BY <1>0, <1>1, <2>1, <2>2, <2>3 DEF CallInv, WorkerInv
<1>10. ClientInv'
  BY <1>0, <1>1, <1>4, <1>7 DEF ClientInv
<1>11. AgreeInv'
  <2>1. f.kind \in Statuses /\ worker \in {"stream", "ended"} /\ terminal_id # None /\ ~abrupt
          => accepted_id = terminal_id
    BY <1>0 DEF CallInv, AgreeInv, Statuses
  <2>2. worker = "ended" /\ ~abrupt => Len(wire) # 1
    BY <1>0, <2>1 DEF CallInv, AgreeInv, Final, Statuses, Closing
  <2>3. worker = "ended" /\ ~abrupt => wire' # <<>> /\ Final(wire[Len(wire)])'
    <3>1. worker = "ended" /\ ~abrupt => Final(wire[Len(wire)])
      BY <1>0 DEF CallInv, AgreeInv
    <3> QED
      BY <1>1, <1>2, <2>2, <3>1 DEF Final, Ends
  <2> QED
    BY <1>1, <1>4, <2>1, <2>3 DEF AgreeInv
<1> QED
  BY <1>5, <1>6, <1>7, <1>8, <1>9, <1>10, <1>11 DEF SubInv, CallInv

\* Reading a response moves the beginning of the chain to where it led.
LEMMA ReadKeeps ==
  ASSUME SubInv, Read
  PROVE  SubInv'
<1> DEFINE f == wire[1]
<1>0. TypeOK /\ PlaceInv /\ CallInv /\ call # "none" /\ wire # <<>> /\ wire' = Tail(wire)
  BY DEF SubInv, Read
<1>1. f \in Frames /\ 1 \in 1 .. Len(wire) /\ wire' \in Seq(Frames) /\ Head(wire) = f
  BY <1>0, HeadAndTail
<1>2. /\ ReadAcceptance(f) \/ ReadStatus(f) \/ ReadInterruption(f) \/ ReadAnswer(f)
      /\ UNCHANGED <<log, breaks, adapter, nexus, abrupt>>
  BY <1>1 DEF Read
<1>3. FrameInv(1) /\ f.cursor \in Nat /\ f.cursor <= Len(log) /\ f.items \subseteq Positions
  BY <1>0, <1>1 DEF CallInv, WireInv, FrameInv, Frames
<1>4. standing \in Nat /\ last \in Nat /\ standing <= Len(log) /\ last <= Len(log)
      /\ breaks \in Nat
  BY <1>0 DEF TypeOK, PlaceInv
<1> HIDE DEF f
<1>5. CASE ReadAcceptance(f)
  BY <1>0, <1>2, <1>3, <1>5, ContinueKeeps DEF ReadAcceptance, f
<1>6. CASE ReadStatus(f) /\ ~(accepted_id # None /\ Ends(f.items, accepted_id))
  <2>1. from' \in Nat /\ f.kind \in Statuses
    BY <1>0, <1>6 DEF ReadStatus, TypeOK, Statuses
  <2> QED
    BY <1>0, <1>2, <1>3, <1>6, <2>1, ContinueKeeps DEF ReadStatus, f
<1>7. CASE ReadStatus(f) /\ accepted_id # None /\ Ends(f.items, accepted_id)
  <2> DEFINE failed == \E i \in f.items : log[i] = [delivery |-> accepted_id, state |-> "Failed"]
  <2>1. /\ call' = "none" /\ outcome' = IF failed THEN "failed" ELSE "delivered"
        /\ standing' = f.cursor /\ last' = f.cursor /\ shown' = shown \cup f.items
        /\ UNCHANGED <<accepted_id, from>>
    BY <1>7 DEF ReadStatus
  <2>2. UNCHANGED <<log, breaks, adapter, worker, opened, terminal_id, begun, last_cursor, abrupt>>
    BY <1>2 DEF nexus
  <2>3. OutcomeIsTrue'
    <3>1. PICK i \in f.items : log[i].delivery = accepted_id /\ log[i].state \in Terminal
      BY <1>7 DEF Ends
    <3>2. i \in Positions /\ log[i] \in Changes
      BY <1>0, <1>3, <3>1 DEF TypeOK, Positions
    <3>3. log[i] = [delivery |-> accepted_id, state |-> log[i].state]
      BY <3>1, <3>2 DEF Changes
    <3>4. ~failed => log[i] = [delivery |-> accepted_id, state |-> "Delivered"]
      BY <3>1, <3>3 DEF Terminal
    <3>5. failed => \E j \in Positions : log[j] = [delivery |-> accepted_id, state |-> "Failed"]
      BY <1>3
    <3>6. log' = log /\ accepted_id' = accepted_id /\ Positions' = Positions
      BY <2>1, <2>2 DEF Positions
    <3> HIDE DEF failed
    <3> QED
      BY <2>1, <3>2, <3>4, <3>5, <3>6 DEF OutcomeIsTrue
  <2>4. LossIsExplicit'
    BY <2>1 DEF LossIsExplicit
  <2>5. TypeOK'
    <3>1. f.items \in SUBSET Nat
      BY <1>1 DEF f, Frames
    <3> HIDE DEF failed
    <3> QED
      BY <1>0, <1>1, <1>3, <2>1, <2>2, <3>1 DEF TypeOK, Outcomes
  <2>6. PlaceInv'
    BY <1>0, <1>3, <2>1, <2>2 DEF PlaceInv, Positions
  <2> QED
    BY <2>1, <2>3, <2>4, <2>5, <2>6 DEF SubInv
<1>8. CASE ReadInterruption(f)
  <2> DEFINE c == IF adapter THEN last ELSE f.cursor
  <2>1. EndCall("interrupted", c) /\ UNCHANGED <<accepted_id, last, shown>>
    BY <1>8 DEF ReadInterruption
  <2>2. c \in Nat /\ c <= Len(log) /\ "interrupted" \in Outcomes \ {"delivered", "failed"}
    BY <1>3, <1>4 DEF Outcomes
  <2> HIDE DEF c
  <2> QED
    BY <1>1, <1>2, <1>4, <2>1, <2>2, EndKeeps DEF nexus
<1>9. CASE ReadAnswer(f)
  <2>1. EndCall("answered", standing) /\ UNCHANGED <<accepted_id, last, shown>>
    BY <1>9 DEF ReadAnswer
  <2>2. "answered" \in Outcomes \ {"delivered", "failed"}
    BY DEF Outcomes
  <2> QED
    BY <1>1, <1>2, <1>4, <2>1, <2>2, EndKeeps DEF nexus
<1> QED
  BY <1>2, <1>5, <1>6, <1>7, <1>8, <1>9

LEMMA NextInv == SubInv /\ [Next]_vars => SubInv'
<1> SUFFICES ASSUME SubInv, [Next]_vars PROVE SubInv'
  OBVIOUS
<1>1. CASE FlowChanges
  BY <1>1, FlowKeeps
<1>2. CASE WorkerStep
  BY <1>2, AnswerKeeps, AdmitKeeps, SubscribeKeeps, AbruptKeeps, ForwardKeeps, StreamEndsKeeps
  DEF WorkerStep
<1>3. CASE ClientStep
  BY <1>3, AskKeeps, ReadKeeps, ReadEndKeeps, CancelKeeps DEF ClientStep
<1>4. CASE UNCHANGED vars
  <2>1. UNCHANGED <<log, breaks, adapter, call, accepted_id, last, standing, outcome, worker,
                    opened, terminal_id, begun, last_cursor, wire, from, shown, abrupt>>
    BY <1>4 DEF vars, client, nexus, history
  <2>2. TypeOK' /\ PlaceInv' /\ OutcomeIsTrue' /\ LossIsExplicit'
    BY <2>1 DEF SubInv, TypeOK, PlaceInv, OutcomeIsTrue, LossIsExplicit, Positions
  <2>3. WireInv' <=> WireInv
    BY <2>1 DEF WireInv, FrameInv, Before, Snapshots, Positions
  <2>4. WorkerInv' /\ ClientInv' /\ AgreeInv' <=> WorkerInv /\ ClientInv /\ AgreeInv
    BY <2>1 DEF WorkerInv, ClientInv, AgreeInv, ChainEnd, Final, Ends
  <2> QED
    BY <2>1, <2>2, <2>3, <2>4 DEF SubInv, CallInv
<1> QED
  BY <1>1, <1>2, <1>3, <1>4 DEF Next

LEMMA SubInvariant == Spec => []SubInv
BY InitInv, NextInv, PTL DEF Spec

\* Every variable keeps its type: among others a cursor that is told is one of
\* the history.
THEOREM TypeCorrect == Spec => []TypeOK
<1>1. SubInv => TypeOK
  BY DEF SubInv
<1> QED
  BY <1>1, SubInvariant, PTL

\* What a call says of its own delivery is what Flow's history says (terminal_for
\* and isError of the adapter, the loop of the message client).
THEOREM OutcomesAreTrue == Spec => []OutcomeIsTrue
<1>1. SubInv => OutcomeIsTrue
  BY DEF SubInv
<1> QED
  BY <1>1, SubInvariant, PTL

\* Worker and client agree on which response is the last: a bare end of the
\* stream is read only from a worker that could not answer any more.
THEOREM LossesAreExplicit == Spec => []LossIsExplicit
<1>1. SubInv => LossIsExplicit
  BY DEF SubInv
<1> QED
  BY <1>1, SubInvariant, PTL

(***************************************************************************)
(* The client is a reader of the history.                                  *)
(***************************************************************************)
LEMMA ReadFollows ==
  ASSUME SubInv, Read
  PROVE  [Reader!Next]_<<log, from, standing, shown>>
<1> DEFINE f == wire[1]
<1>0. TypeOK /\ PlaceInv /\ CallInv /\ wire # <<>> /\ wire' = Tail(wire) /\ call # "none"
  BY DEF SubInv, Read
<1>1. f \in Frames /\ 1 \in 1 .. Len(wire) /\ Head(wire) = f
  BY <1>0, HeadAndTail
<1>2. /\ ReadAcceptance(f) \/ ReadStatus(f) \/ ReadInterruption(f) \/ ReadAnswer(f)
      /\ log' = log
  BY <1>1 DEF Read
<1>3. FrameInv(1) /\ f.cursor \in Nat /\ f.items \subseteq Positions /\ Before(1) = standing
  BY <1>0, <1>1 DEF CallInv, WireInv, FrameInv, Frames, Before
<1>4. standing \in Nat /\ standing <= Len(log) /\ Len(log) \in Nat /\ last \in {0, standing}
  BY <1>0 DEF TypeOK, PlaceInv, CallInv, ClientInv
<1>5. CASE ReadAcceptance(f)
  <2>1. /\ f.cursor = opened /\ f.items = {opened} /\ opened \in Positions
        /\ from' = opened /\ standing' = opened /\ shown' = shown \cup {opened}
    BY <1>0, <1>3, <1>5 DEF ReadAcceptance, FrameInv, PlaceInv
  <2> QED
    BY <1>2, <2>1 DEF Reader!Next, Reader!Begin, Positions
<1>6. CASE ReadStatus(f)
  <2> HIDE DEF f
  <2>1. /\ f.kind \in Statuses /\ standing' = f.cursor /\ shown' = shown \cup f.items
        /\ from' = from
    BY <1>6 DEF ReadStatus, Statuses
  <2>2. f.cursor <= Len(log)
    BY <1>3 DEF FrameInv, f
  <2>3. /\ f.kind = "SendsObserved" => standing <= f.cursor
                                       /\ f.items = Snapshots(standing, f.cursor)
        /\ f.kind = "SendChanged" => f.cursor = standing + 1 /\ f.items = {f.cursor}
    BY <1>3 DEF FrameInv, f
  <2>4. CASE f.cursor = standing
    <3>1. f.items = {}
      <4>1. f.kind = "SendsObserved"
        BY <1>4, <2>1, <2>3, <2>4 DEF Statuses
      <4>2. Snapshots(standing, standing) = {}
        BY <1>4 DEF Snapshots
      <4> QED
        BY <2>3, <2>4, <4>1, <4>2
    <3> QED
      BY <1>2, <2>1, <2>4, <3>1
  <2>5. CASE f.cursor # standing
    <3>1. f.cursor \in standing + 1 .. Len(log)
      BY <1>3, <1>4, <2>1, <2>2, <2>3, <2>5 DEF Statuses
    <3>2. \A i \in standing + 1 .. f.cursor : Reader!Knows(f.items, i)
      <4>1. CASE f.kind = "SendsObserved"
        BY <1>0, <1>3, <1>4, <2>2, <2>3, <4>1, SnapshotsTell DEF TypeOK
      <4>2. CASE f.kind = "SendChanged"
        BY <1>3, <1>4, <2>3, <4>2 DEF Reader!Knows
      <4> QED
        BY <2>1, <4>1, <4>2 DEF Statuses
    <3>3. f.items \in SUBSET (1 .. Len(log))
      BY <1>3 DEF Positions
    <3> QED
      BY <1>2, <2>1, <3>1, <3>2, <3>3 DEF Reader!Next, Reader!Advance
  <2> QED
    BY <2>4, <2>5
<1>7. CASE ReadInterruption(f) \/ ReadAnswer(f)
  <2>1. /\ standing' \in {0, standing} /\ shown' = shown
        /\ from' = IF standing' = 0 THEN 0 ELSE from
    BY <1>3, <1>4, <1>7 DEF ReadInterruption, ReadAnswer, EndCall, FrameInv
  <2> QED
    BY <1>2, <2>1 DEF Reader!Next, Reader!Rewind
<1> QED
  BY <1>2, <1>5, <1>6, <1>7

\* Every step is one of LogReader or none of its business.
LEMMA StepFollows ==
  ASSUME SubInv, [Next]_vars
  PROVE  [Reader!Next]_<<log, from, standing, shown>>
<1>0. TypeOK /\ (call # "none" => CallInv)
  BY DEF SubInv
<1>1. ASSUME UNCHANGED <<standing, from, shown>>,
             NEW d \in Deliveries, NEW state \in States, Change(d, state)
      PROVE  Reader!Next
  <2>1. [delivery |-> d, state |-> state] \in Changes
    BY DEF Changes
  <2> QED
    BY <1>1, <2>1 DEF Reader!Next, Reader!Grow, Change
<1>2. CASE FlowChanges
  BY <1>1, <1>2 DEF FlowChanges, client, history
<1>3. CASE WorkerStep
  <2>1. CASE Admit
    <3>1. "Queued" \in States
      BY DEF States
    <3> QED
      BY <1>1, <2>1, <3>1 DEF Admit, client, history
  <2>2. CASE ~Admit
    BY <1>3, <2>2 DEF WorkerStep, Deny, RefuseObservation, Subscribe, SubscribeFails, Unmonitored,
       ForwardObserved, ForwardChanged, Forward, StreamEnds, Kill, client, history
  <2> QED
    BY <2>1, <2>2
<1>4. CASE ClientStep
  <2>1. CASE CallSend \/ CallObserve
    BY <2>1 DEF CallSend, CallObserve, Ask, history
  <2>2. CASE ReadEnd \/ Cancel
    <3>1. call # "none" /\ last \in {0, standing}
      BY <1>0, <2>2 DEF ReadEnd, Cancel, CallInv, ClientInv
    <3>2. /\ standing' \in {0, standing} /\ shown' = shown /\ log' = log
          /\ from' = IF standing' = 0 THEN 0 ELSE from
      BY <2>2, <3>1 DEF ReadEnd, Cancel, EndCall
    <3> QED
      BY <3>2 DEF Reader!Next, Reader!Rewind
  <2> QED
    BY <1>4, <2>1, <2>2, ReadFollows DEF ClientStep
<1>5. CASE UNCHANGED vars
  BY <1>5 DEF vars, client, history
<1> QED
  BY <1>2, <1>3, <1>4, <1>5 DEF Next

\* The client follows its sender's history whatever breaks: for any number of
\* breaks, kills, cancellations and resumptions (forward_subscription, the
\* clients' loops, observe_sends).
THEOREM HistoryFollowed == Spec => FollowsHistory
<1>1. Init => Reader!Init
  BY DEF Init, Reader!Init
<1>2. SubInv /\ [Next]_vars => [Reader!Next]_(Reader!vars)
  BY StepFollows DEF Reader!vars
<1> QED
  BY <1>1, <1>2, SubInvariant, PTL DEF Spec, FollowsHistory, Reader!Spec

\* A reader of a history misses nothing.
LEMMA ReaderKeeps ==
  ASSUME TypeOK, PlaceInv, NothingMissed, [Reader!Next]_<<log, from, standing, shown>>
  PROVE  NothingMissed'
<1>0. log \in Seq(Changes) /\ Len(log) \in Nat /\ from \in Nat /\ standing \in Nat
      /\ standing <= Len(log) /\ shown \subseteq 1 .. Len(log)
  BY DEF TypeOK, PlaceInv, Positions
<1>1. \A i \in from + 1 .. standing : i \in 1 .. Len(log) /\ Reader!Knows(shown, i)
  BY <1>0 DEF NothingMissed, Reader!NothingMissed
<1>2. CASE Reader!Grow
  <2>1. \A i \in 1 .. Len(log) : log'[i] = log[i]
    BY <1>0, <1>2 DEF Reader!Grow
  <2> QED
    BY <1>0, <1>1, <1>2, <2>1 DEF Reader!Grow, NothingMissed, Reader!NothingMissed, Reader!Knows
<1>3. CASE Reader!Begin
  BY <1>0, <1>3 DEF Reader!Begin, NothingMissed, Reader!NothingMissed
<1>4. CASE Reader!Advance
  <2>1. PICK c \in standing + 1 .. Len(log), S \in SUBSET (1 .. Len(log)) :
          /\ \A i \in standing + 1 .. c : Reader!Knows(S, i)
          /\ standing' = c /\ shown' = shown \cup S /\ log' = log /\ from' = from
    BY <1>4 DEF Reader!Advance
  <2>2. ASSUME NEW i \in from + 1 .. c PROVE Reader!Knows(shown', i)
    <3>1. Reader!Knows(shown, i) \/ Reader!Knows(S, i)
      BY <1>0, <1>1, <2>1, <2>2
    <3> QED
      BY <2>1, <3>1 DEF Reader!Knows
  <2> QED
    BY <2>1, <2>2 DEF NothingMissed, Reader!NothingMissed, Reader!Knows
<1>5. CASE Reader!Rewind
  BY <1>5 DEF Reader!Rewind, NothingMissed, Reader!NothingMissed
<1>6. CASE UNCHANGED <<log, from, standing, shown>>
  BY <1>6 DEF NothingMissed, Reader!NothingMissed, Reader!Knows
<1> QED
  BY <1>2, <1>3, <1>4, <1>5, <1>6 DEF Reader!Next

\* Whatever cursor the client would resume from, it knows every change before it.
THEOREM NothingIsMissed == Spec => []NothingMissed
<1>1. Init => NothingMissed
  BY DEF Init, NothingMissed, Reader!NothingMissed
<1>2. SubInv /\ NothingMissed /\ [Next]_vars => NothingMissed'
  BY StepFollows, ReaderKeeps DEF SubInv
<1> QED
  BY <1>1, <1>2, SubInvariant, PTL DEF Spec

\* An interruption that follows a status costs the client nothing of its place,
\* whether the client counts the cursor itself or is told it (forward_subscription,
\* interruption_result of the adapter).
THEOREM PlaceIsKept == Spec => PlaceKept
<1>1. SubInv /\ [Next]_vars
        => [begun /\ call # "none" /\ outcome' = "interrupted" => standing' = standing]_vars
  <2> SUFFICES ASSUME SubInv, Next, begun, call # "none", outcome' = "interrupted"
               PROVE  standing' = standing
    OBVIOUS
  <2>0. TypeOK /\ CallInv /\ outcome = "none"
    BY DEF SubInv, CallInv, ClientInv
  <2>1. CASE Read
    <3>0. wire # <<>> /\ wire' = Tail(wire)
      BY <2>1 DEF Read
    <3> DEFINE f == wire[1]
    <3>1. 1 \in 1 .. Len(wire) /\ Head(wire) = f
      BY <2>0, <3>0, HeadAndTail
    <3>2. ReadInterruption(f)
      BY <2>0, <2>1, <3>1 DEF Read, ReadAcceptance, ReadStatus, ReadAnswer, EndCall
    <3>3. FrameInv(1) /\ Before(1) = standing
      BY <2>0, <3>1 DEF CallInv, WireInv, Before
    <3>4. f.kind = "ObservationInterrupted" /\ last = standing /\ f.cursor = standing
      BY <2>0, <3>2, <3>3 DEF ReadInterruption, FrameInv, CallInv, ClientInv
    <3> QED
      BY <3>2, <3>4 DEF ReadInterruption, EndCall
  <2>2. CASE ReadEnd \/ Cancel
    BY <2>2 DEF ReadEnd, Cancel, EndCall
  <2>3. CASE CallSend \/ CallObserve
    BY <2>3 DEF CallSend, CallObserve, Ask
  <2>4. CASE FlowChanges \/ WorkerStep
    <3>1. outcome' = outcome
      BY <2>4 DEF FlowChanges, WorkerStep, Deny, RefuseObservation, Admit, Subscribe,
         SubscribeFails, Unmonitored, ForwardObserved, ForwardChanged, Forward, StreamEnds, Kill,
         client
    <3> QED
      BY <2>0, <3>1
  <2> QED
    BY <2>1, <2>2, <2>3, <2>4 DEF Next, ClientStep
<1> QED
  BY <1>1, SubInvariant, PTL DEF Spec, PlaceKept
=============================================================================
