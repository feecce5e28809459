------------------------ MODULE NexusLifecycleProofs ------------------------
(***************************************************************************)
(* Proofs about NexusLifecycle, for any number of processes and any        *)
(* configurations.                                                         *)
(***************************************************************************)
EXTENDS NexusLifecycle, TLAPS

\* Where a process is says what the file is and that it has the engine open;
\* what is stored is in the file, and what the owner stored is what is stored.
\* Until it serves a process is bound to what is stored.
StoreInv ==
  /\ TypeOK
  /\ \A p \in Processes : pc[p] \notin {"off", "recognize"} => file # "foreign"
  /\ \A p \in Processes : pc[p] = "seed" => file \in {"registered", "seeded"}
  /\ \A p \in Processes : pc[p] \in {"bind", "listen", "serving"} => file = "seeded"
  /\ file = "seeded" => row = stored
  /\ ownerSaid # None =>
       /\ file = "seeded"
       /\ row = [configuration |-> ownerSaid, metaConfigured |-> TRUE]
  /\ \A p \in Processes : pc[p] \notin {"off", "recognize", "open"} => holder = p
  /\ \A p \in Processes : pc[p] \in {"bind", "listen"} => row.configuration = bound[p]

LEMMA InitInv == Init => StoreInv
<1> SUFFICES ASSUME Init PROVE StoreInv
  OBVIOUS
<1>1. row \in Standards
  BY SeedAssumption DEF Init, Standards
<1>2. TypeOK
  BY <1>1, SeedAssumption DEF Init, TypeOK
<1> QED
  BY <1>2 DEF Init, StoreInv

LEMMA NextInv == StoreInv /\ [Next]_vars => StoreInv'
<1> SUFFICES ASSUME StoreInv, [Next]_vars PROVE StoreInv'
  OBVIOUS
<1>0. None \notin Processes
  BY NoneAssumption
<1> USE SeedAssumption, <1>0
    DEF StoreInv, TypeOK, Standards, Answers, Goto, Exit
<1>1. ASSUME NEW p \in Processes, Start(p) PROVE StoreInv'
  BY <1>1 DEF Start
<1>2. ASSUME NEW p \in Processes, Recognize(p) PROVE StoreInv'
  BY <1>2 DEF Recognize, Recognized
<1>3. ASSUME NEW p \in Processes, Open(p) PROVE StoreInv'
  <2>1. CASE holder = None
    <3>1. /\ holder' = p /\ dirty' = FALSE /\ pc' = [pc EXCEPT ![p] = "register"]
          /\ file' \in {"bare", "registered", "seeded"} /\ (file = "seeded" <=> file' = "seeded")
      BY <1>3, <2>1 DEF Open
    <3>2. \A q \in Processes : pc[q] \in {"off", "recognize", "open"}
      BY <2>1
    <3> QED
      BY <1>3, <3>1, <3>2 DEF Open
  <2>2. CASE holder # None
    BY <1>3, <2>2 DEF Open
  <2> QED
    BY <2>1, <2>2
<1>4. ASSUME NEW p \in Processes, Register(p) PROVE StoreInv'
  BY <1>4 DEF Register
<1>5. ASSUME NEW p \in Processes, SeedRow(p) PROVE StoreInv'
  BY <1>5 DEF SeedRow
<1>6. ASSUME NEW p \in Processes, BindFlow(p) PROVE StoreInv'
  BY <1>6 DEF BindFlow
<1>7. ASSUME NEW p \in Processes, Listen(p) PROVE StoreInv'
  BY <1>7 DEF Listen
<1>8. ASSUME NEW p \in Processes, NEW c \in Configurations, NEW meta \in BOOLEAN,
             Configure(p, c, meta)
      PROVE  StoreInv'
  <2>1. (row.metaConfigured \/ meta) \in BOOLEAN /\ Answer(c, meta) \in Answers
    BY DEF Answer
  <2>2. TypeOK'
    BY <1>8, <2>1 DEF Configure
  <2>3. ASSUME NEW q \in Processes, pc[q] \in {"bind", "listen", "serving"} PROVE q = p
    BY <1>8, <2>3 DEF Configure
  <2>4. pc[p] = "serving" /\ pc' = pc /\ bound' = bound
    BY <1>8 DEF Configure
  <2>5. \A q \in Processes : pc'[q] \in {"bind", "listen"} => row'.configuration = bound'[q]
    BY <2>3, <2>4
  <2>6. CASE meta
    BY <1>8, <2>2, <2>5, <2>6 DEF Configure
  <2>7. CASE ~meta
    BY <1>8, <2>2, <2>5, <2>7 DEF Configure
  <2> QED
    BY <2>6, <2>7
<1>9. ASSUME NEW p \in Processes, Stop(p) PROVE StoreInv'
  BY <1>9 DEF Stop
<1>10. ASSUME NEW p \in Processes, Kill(p) PROVE StoreInv'
  BY <1>10 DEF Kill
<1>11. CASE FlowChanges
  BY <1>11 DEF FlowChanges
<1>12. CASE UNCHANGED vars
  BY <1>12 DEF vars
<1> QED
  BY <1>1, <1>2, <1>3, <1>4, <1>5, <1>6, <1>7, <1>8, <1>9, <1>10, <1>11, <1>12
  DEF Next, StartStep

LEMMA StoreInvariant == Spec => []StoreInv
BY InitInv, NextInv, PTL DEF Spec

\* The file holds what was last stored, through stops, kills and restarts
\* (store.rs, open seeds an empty table only).
THEOREM StoredIsKept == Spec => []StoredSurvives
<1>1. StoreInv => StoredSurvives
  BY DEF StoreInv, StoredSurvives
<1> QED
  BY <1>1, StoreInvariant, PTL

\* The ordinary socket never undoes what the owner configured (service.rs, configure).
THEOREM OwnerConfigures == Spec => []OwnerHasLastWord
<1>1. StoreInv => OwnerHasLastWord
  BY DEF StoreInv, OwnerHasLastWord
<1> QED
  BY <1>1, StoreInvariant, PTL

\* Every value has its type, and the store holds one configuration (store.rs).
THEOREM TypeCorrect == Spec => []TypeOK
<1>1. StoreInv => TypeOK
  BY DEF StoreInv
<1> QED
  BY <1>1, StoreInvariant, PTL

\* No start ever writes the store of an older release (store.rs, recognize).
THEOREM ForeignIsEvidence == Spec => ForeignUntouched
<1>1. StoreInv /\ [Next]_vars => [file = "foreign" => file' = "foreign"]_vars
  BY DEF StoreInv, Next, StartStep, Start, Recognize, Open, Register, SeedRow, BindFlow,
         Listen, Configure, Stop, Kill, FlowChanges, Exit, Goto, vars
<1> QED
  BY <1>1, StoreInvariant, PTL DEF Spec, ForeignUntouched

\* No start completes the file of an interrupted first start, so a Nexus whose first
\* start was killed there never serves from that file (store.rs, recognize).
THEOREM HalfMadeIsEvidence == Spec => HalfMadeStays
<1>1. TypeOK /\ [Next]_vars => [HalfMade => HalfMade']_vars
  <2> SUFFICES ASSUME TypeOK, Next, HalfMade PROVE HalfMade'
    OBVIOUS
  <2> USE DEF TypeOK, HalfMade, Goto, Exit
  <2>1. ASSUME NEW p \in Processes, Start(p) \/ Recognize(p) PROVE HalfMade'
    BY <2>1 DEF Start, Recognize, Recognized
  <2>2. ASSUME NEW p \in Processes, Kill(p) PROVE HalfMade'
    BY <2>2 DEF Kill
  <2>3. CASE FlowChanges
    BY <2>3 DEF FlowChanges
  <2>4. \A p \in Processes :
          /\ ~Open(p) /\ ~Register(p) /\ ~SeedRow(p) /\ ~BindFlow(p) /\ ~Listen(p)
          /\ ~Stop(p)
          /\ \A c \in Configurations, meta \in BOOLEAN : ~Configure(p, c, meta)
    BY DEF Open, Register, SeedRow, BindFlow, Listen, Stop, Configure
  <2> QED
    BY <2>1, <2>2, <2>3, <2>4 DEF Next, StartStep
<1>2. StoreInv => TypeOK
  BY DEF StoreInv
<1> QED
  BY <1>1, <1>2, StoreInvariant, PTL DEF Spec, HalfMadeStays

(***************************************************************************)
(* The configuration register.  A start and a second process are stutters  *)
(* until the process serves: no other process then serves, since it holds  *)
(* the engine, and it runs with the row, since only a process that serves  *)
(* could have replaced this since it was read.                             *)
(***************************************************************************)
kept == IF file = "seeded" THEN row.configuration ELSE None
running == [p \in Processes |-> IF pc[p] = "serving" THEN bound[p] ELSE None]

\* A step of one process that neither begins nor ends to serve changes nothing of it.
LEMMA RunningFrame ==
  ASSUME StoreInv, NEW p \in Processes, NEW place,
         pc' = [pc EXCEPT ![p] = place], \A q \in Processes \ {p} : bound'[q] = bound[q],
         pc[p] # "serving", place # "serving"
  PROVE  running' = running
BY DEF StoreInv, TypeOK, running

\* A process that ends leaves the register, whether it served or not.
LEMMA RunningEnds ==
  ASSUME StoreInv, NEW p \in Processes, pc' = [pc EXCEPT ![p] = "off"], bound' = bound
  PROVE  running' = [running EXCEPT ![p] = None]
BY DEF StoreInv, TypeOK, running

LEMMA StartKeeps ==
  ASSUME StoreInv, NEW p \in Processes, StartStep(p)
  PROVE  [Kept!Next]_<<kept, ownerSaid, running>>
<1> USE DEF StoreInv, TypeOK, Goto, Exit
<1>1. CASE Start(p) \/ Recognize(p) \/ Open(p) \/ Register(p) \/ BindFlow(p)
  <2>1. PICK place : pc' = [pc EXCEPT ![p] = place] /\ place # "serving"
    BY <1>1 DEF Start, Recognize, Open, Register, BindFlow
  <2>2. pc[p] # "serving" /\ bound' = bound /\ ownerSaid' = ownerSaid /\ row' = row
        /\ (file' = "seeded" <=> file = "seeded")
    BY <1>1 DEF Start, Recognize, Open, Register, BindFlow
  <2>3. running' = running
    BY <2>1, <2>2, RunningFrame
  <2> QED
    BY <2>2, <2>3 DEF kept
<1>2. CASE SeedRow(p)
  <2>1. pc[p] = "seed" /\ pc' = [pc EXCEPT ![p] = "bind"]
        /\ \A q \in Processes \ {p} : bound'[q] = bound[q]
    BY <1>2 DEF SeedRow
  <2>2. running' = running
    BY <2>1, RunningFrame
  <2>3. ownerSaid' = ownerSaid /\ (file = "seeded" \/ file = "registered")
    BY <1>2 DEF SeedRow
  <2>4. CASE file = "seeded"
    <3>1. kept' = kept
      BY <1>2, <2>4 DEF SeedRow, kept
    <3> QED
      BY <2>2, <2>3, <3>1
  <2>5. CASE file = "registered"
    <3>1. kept = None /\ kept' = Seed
      BY <1>2, <2>5 DEF SeedRow, kept
    <3> QED
      BY <2>2, <2>3, <3>1 DEF Kept!Next, Kept!FirstStart, kept, running
  <2> QED
    BY <2>3, <2>4, <2>5
<1>3. CASE Listen(p)
  <2>1. kept' = kept /\ ownerSaid' = ownerSaid /\ pc[p] = "listen" /\ bound' = bound
    BY <1>3 DEF Listen, kept
  <2>2. CASE bound[p] \in Listenable
    <3>1. kept = bound[p] /\ kept # None
      BY <2>1, NoneAssumption DEF kept
    <3>2. \A q \in Processes : running[q] = None
      BY <2>1, NoneAssumption DEF running
    <3>3. running' = [running EXCEPT ![p] = kept]
      BY <1>3, <2>1, <2>2, <3>1 DEF Listen, running
    <3> QED
      BY <2>1, <3>1, <3>2, <3>3 DEF Kept!Next, Kept!Serve, kept, running
  <2>3. CASE bound[p] \notin Listenable
    <3>1. pc' = [pc EXCEPT ![p] = "off"]
      BY <1>3, <2>3 DEF Listen
    <3>2. running' = running
      BY <2>1, <3>1, RunningFrame
    <3> QED
      BY <2>1, <3>2
  <2> QED
    BY <2>2, <2>3
<1> QED
  BY <1>1, <1>2, <1>3 DEF StartStep

LEMMA ServingKeeps ==
  ASSUME StoreInv, NEW p \in Processes
  PROVE  /\ \A c \in Configurations, meta \in BOOLEAN : Configure(p, c, meta)
               => Kept!Next
         /\ Stop(p) \/ Kill(p) => Kept!Next
<1> USE DEF StoreInv, TypeOK
<1>1. ASSUME NEW c \in Configurations, NEW meta \in BOOLEAN, Configure(p, c, meta)
      PROVE  Kept!Configure(p)
  <2>1. running[p] # None /\ running' = running
    BY <1>1, NoneAssumption DEF Configure, running
  <2>2. kept' = c
    BY <1>1 DEF Configure, kept
  <2>3. CASE meta
    <3>1. ownerSaid' = c
      BY <1>1, <2>3 DEF Configure
    <3> QED
      BY <2>1, <2>2, <3>1 DEF Kept!Configure, kept, running
  <2>4. CASE ~meta
    <3>1. ownerSaid' = ownerSaid /\ ~row.metaConfigured
      BY <1>1, <2>4 DEF Configure
    <3>2. ownerSaid = None
      BY <3>1
    <3> QED
      BY <2>1, <2>2, <3>1, <3>2 DEF Kept!Configure, kept, running
  <2> QED
    BY <2>3, <2>4
<1>2. ASSUME Stop(p) \/ Kill(p) PROVE Kept!Leave(p)
  <2>1. running' = [running EXCEPT ![p] = None]
    <3>1. pc' = [pc EXCEPT ![p] = "off"] /\ bound' = bound
      BY <1>2 DEF Stop, Kill, Exit, Goto
    <3> QED
      BY <3>1, RunningEnds
  <2>2. kept' = kept /\ ownerSaid' = ownerSaid
    BY <1>2 DEF Stop, Kill, kept
  <2> QED
    BY <2>1, <2>2 DEF Kept!Leave, kept, running
<1> QED
  BY <1>1, <1>2 DEF Kept!Next

\* The lifecycle implements the configuration register, for any number of
\* processes and kills (nexus.rs, open; store.rs, open; service.rs, configure).
THEOREM RegisterKept == Spec => KeepsRegister
<1>1. Init => Kept!Init
  BY DEF Init, Kept!Init
<1>2. StoreInv /\ [Next]_vars => [Kept!Next]_(Kept!vars)
  <2> SUFFICES ASSUME StoreInv, [Next]_vars
               PROVE  [Kept!Next]_<<kept, ownerSaid, running>>
    BY DEF Kept!vars, kept, running
  <2>1. CASE FlowChanges \/ UNCHANGED vars
    BY <2>1 DEF FlowChanges, vars, kept, running
  <2> QED
    BY <2>1, StartKeeps, ServingKeeps DEF Next
<1> QED
  BY <1>1, <1>2, StoreInvariant, PTL DEF Spec, KeepsRegister, Kept!Spec
=============================================================================
