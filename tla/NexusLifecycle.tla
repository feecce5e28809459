--------------------------- MODULE NexusLifecycle ---------------------------
(***************************************************************************)
(* message-nexus from its start to its end, and the store that outlives it *)
(* (crates/message-nexus/src/nexus.rs, store.rs, main.rs and the Configure *)
(* of service.rs).                                                         *)
(*                                                                         *)
(* A process recognizes the store file, opens the engine, registers its    *)
(* one table, seeds the one row of an empty table, binds itself at the     *)
(* Flow the row names, binds its own sockets and serves.  Each of the      *)
(* engine's writes is a transaction of its own, and a process may be       *)
(* killed between any two.  A Configure, ordinary or of the owner,         *)
(* replaces the row while the process serves.  The engine (sema-engine,    *)
(* redb) is external: it lets one process at a time open the file, and a   *)
(* killed writer leaves the file to be repaired by the next.               *)
(***************************************************************************)
EXTENDS Naturals, FiniteSets

CONSTANTS
  Processes,       \* starts of message-nexus that may be alive together
  Configurations,  \* socket and Flow paths
  Seed,            \* the configuration derived from the environment
  Listenable,      \* the configurations whose own sockets can be bound
  MaxCrashes,      \* bound on kills
  None

ASSUME SeedAssumption == Seed \in Configurations

ASSUME NoneAssumption == None \notin Processes \cup Configurations

VARIABLES
  pc,       \* pc[p]: where process p is
  bound,    \* bound[p]: the configuration p started with
  file,     \* the store file: absent, bare, registered, seeded or foreign
  row,      \* its Standard row, of meaning when seeded
  dirty,    \* its last writer was killed
  holder,   \* the process that has the engine open
  flowUp,   \* the configurations at whose Flow path a Flow binds Message
  crashes,  \* kills so far
  stored,   \* the last Standard a Configure or a first start wrote, or None
  ownerSaid, \* the last configuration the owner stored, or None
  answered  \* answered[p]: what p has answered to Configure

vars == <<pc, bound, file, row, dirty, holder, flowUp, crashes, stored, ownerSaid, answered>>

\* Configured of the ordinary contract, and the two answers of the owner's.
Answers == {"Configured", "OwnerConfigured", "RestartRequired"}

Standards == [configuration : Configurations, metaConfigured : BOOLEAN]

TypeOK ==
  /\ pc \in [Processes -> {"off", "recognize", "open", "register", "seed", "bind", "listen",
                           "serving"}]
  /\ bound \in [Processes -> Configurations]
  /\ file \in {"absent", "bare", "registered", "seeded", "foreign"}
  /\ row \in Standards
  /\ dirty \in BOOLEAN
  /\ holder \in Processes \cup {None}
  /\ flowUp \subseteq Configurations
  /\ crashes \in Nat
  /\ stored \in Standards \cup {None}
  /\ ownerSaid \in Configurations \cup {None}
  /\ answered \in [Processes -> SUBSET Answers]

\* The first start finds no file, or the store of an older release.
Init ==
  /\ pc = [p \in Processes |-> "off"]
  /\ bound = [p \in Processes |-> Seed]
  /\ file \in {"absent", "foreign"}
  /\ row = [configuration |-> Seed, metaConfigured |-> FALSE]
  /\ dirty = FALSE
  /\ holder = None
  /\ flowUp \in SUBSET Configurations
  /\ crashes = 0
  /\ stored = None
  /\ ownerSaid = None
  /\ answered = [p \in Processes |-> {}]

Goto(p, place) == pc' = [pc EXCEPT ![p] = place]

\* Mutant: a process that ends is taken for one that failed.
ExitFailed(p) ==
  /\ Goto(p, "failed")
  /\ holder' = IF holder = p THEN None ELSE holder

\* p ends and the engine, if it has it open, is closed.
Exit(p) ==
  /\ Goto(p, "off")
  /\ holder' = IF holder = p THEN None ELSE holder

-----------------------------------------------------------------------------
(* Start.                                                                   *)

Start(p) ==
  /\ pc[p] = "off"
  /\ Goto(p, "recognize")
  /\ UNCHANGED <<bound, file, row, dirty, holder, flowUp, crashes, stored, ownerSaid, answered>>

\* Mutants: a killed writer's file is not recognized; every file is.
RecognizedClean == file = "absent" \/ (file = "seeded" /\ holder = None /\ ~dirty)

RecognizedAny == file = "absent" \/ holder = None

\* Nothing is there, or a store with exactly this family and one row, which
\* nobody has open.  One left dirty is judged by a repaired copy of it.
Recognized == file = "absent" \/ (file = "seeded" /\ holder = None)

\* The file is inspected before an engine is opened on it.
Recognize(p) ==
  /\ pc[p] = "recognize"
  /\ IF Recognized THEN Goto(p, "open") /\ UNCHANGED holder ELSE Exit(p)
  /\ UNCHANGED <<bound, file, row, dirty, flowUp, crashes, stored, ownerSaid, answered>>

Open(p) ==
  /\ pc[p] = "open"
  /\ IF holder = None
       THEN /\ holder' = p
            /\ file' = IF file = "absent" THEN "bare" ELSE file
            /\ dirty' = FALSE
            /\ Goto(p, "register")
       ELSE Exit(p) /\ UNCHANGED <<file, dirty>>
  /\ UNCHANGED <<bound, row, flowUp, crashes, stored, ownerSaid, answered>>

Register(p) ==
  /\ pc[p] = "register"
  /\ file' = IF file = "seeded" THEN file ELSE "registered"
  /\ Goto(p, "seed")
  /\ UNCHANGED <<bound, row, dirty, holder, flowUp, crashes, stored, ownerSaid, answered>>

\* Mutant: the row is seeded at every start.
SeedRowAlways(p) ==
  LET seed == [configuration |-> Seed, metaConfigured |-> FALSE]
  IN  /\ pc[p] = "seed"
      /\ file' = "seeded" /\ row' = seed
      /\ stored' = IF file = "registered" THEN seed ELSE stored
      /\ bound' = [bound EXCEPT ![p] = Seed]
      /\ Goto(p, "bind")
      /\ UNCHANGED <<dirty, holder, flowUp, crashes, ownerSaid, answered>>

\* Mutant: a process runs with the defaults although the store has a row.
SeedRowUnread(p) ==
  LET seed == [configuration |-> Seed, metaConfigured |-> FALSE]
  IN  /\ pc[p] = "seed"
      /\ file' = "seeded" /\ row' = IF file = "registered" THEN seed ELSE row
      /\ stored' = IF file = "registered" THEN seed ELSE stored
      /\ bound' = [bound EXCEPT ![p] = Seed]
      /\ Goto(p, "bind")
      /\ UNCHANGED <<dirty, holder, flowUp, crashes, ownerSaid, answered>>

\* An empty table gets the defaults; then the row is read back, for good.
SeedRow(p) ==
  LET seed == [configuration |-> Seed, metaConfigured |-> FALSE]
      current == IF file = "registered" THEN seed ELSE row
  IN  /\ pc[p] = "seed"
      /\ file' = "seeded" /\ row' = current
      /\ stored' = IF file = "registered" THEN seed ELSE stored
      /\ bound' = [bound EXCEPT ![p] = current.configuration]
      /\ Goto(p, "bind")
      /\ UNCHANGED <<dirty, holder, flowUp, crashes, ownerSaid, answered>>

\* Flow is asked once; whatever it does but bind Message ends the process.
BindFlow(p) ==
  /\ pc[p] = "bind"
  /\ IF bound[p] \in flowUp THEN Goto(p, "listen") /\ UNCHANGED holder ELSE Exit(p)
  /\ UNCHANGED <<bound, file, row, dirty, flowUp, crashes, stored, ownerSaid, answered>>

Listen(p) ==
  /\ pc[p] = "listen"
  /\ IF bound[p] \in Listenable THEN Goto(p, "serving") /\ UNCHANGED holder ELSE Exit(p)
  /\ UNCHANGED <<bound, file, row, dirty, flowUp, crashes, stored, ownerSaid, answered>>

-----------------------------------------------------------------------------
(* Serving and ending.                                                      *)

\* The owner is told when its Configure changes the row; an ordinary client never is.
Answer(configuration, meta) ==
  IF ~meta THEN "Configured"
  ELSE IF row.configuration # configuration THEN "RestartRequired" ELSE "OwnerConfigured"

\* Mutant: the ordinary socket is never closed to Configure.
ConfigureUngated(p, configuration, meta) ==
  LET updated == [configuration |-> configuration,
                  metaConfigured |-> row.metaConfigured \/ meta]
  IN  /\ pc[p] = "serving"
      /\ row' = updated /\ stored' = updated
      /\ ownerSaid' = IF meta THEN configuration ELSE ownerSaid
      /\ answered' = [answered EXCEPT ![p] = @ \cup {Answer(configuration, meta)}]
      /\ UNCHANGED <<pc, bound, file, dirty, holder, flowUp, crashes>>

\* The row is read, judged and replaced with the store's mutex held.  A Configure
\* refused, by the gate or because the store failed, changes nothing.
Configure(p, configuration, meta) ==
  LET updated == [configuration |-> configuration,
                  metaConfigured |-> row.metaConfigured \/ meta]
  IN  /\ pc[p] = "serving"
      /\ meta \/ ~row.metaConfigured
      /\ row' = updated /\ stored' = updated
      /\ ownerSaid' = IF meta THEN configuration ELSE ownerSaid
      /\ answered' = [answered EXCEPT ![p] = @ \cup {Answer(configuration, meta)}]
      /\ UNCHANGED <<pc, bound, file, dirty, holder, flowUp, crashes>>

\* SIGTERM or SIGINT: the workers are joined, then the engine is closed.
Stop(p) ==
  /\ pc[p] = "serving"
  /\ Exit(p)
  /\ answered' = [answered EXCEPT ![p] = {}]
  /\ UNCHANGED <<bound, file, row, dirty, flowUp, crashes, stored, ownerSaid>>

Kill(p) ==
  /\ pc[p] # "off" /\ crashes < MaxCrashes
  /\ crashes' = crashes + 1
  /\ Exit(p)
  /\ dirty' = (dirty \/ holder = p)
  /\ answered' = [answered EXCEPT ![p] = {}]
  /\ UNCHANGED <<bound, file, row, flowUp, stored, ownerSaid>>

\* Flow daemons come and go.
FlowChanges ==
  /\ flowUp' \in SUBSET Configurations
  /\ UNCHANGED <<pc, bound, file, row, dirty, holder, crashes, stored, ownerSaid, answered>>

StartStep(p) ==
  Start(p) \/ Recognize(p) \/ Open(p) \/ Register(p) \/ SeedRow(p) \/ BindFlow(p) \/ Listen(p)

Next ==
  \/ \E p \in Processes :
       \/ StartStep(p) \/ Stop(p) \/ Kill(p)
       \/ \E c \in Configurations, meta \in BOOLEAN : Configure(p, c, meta)
  \/ FlowChanges

Spec == Init /\ [][Next]_vars

\* The Nexus is started again whenever it has ended, and a start runs on: the
\* connect of BindFlow is assumed to return.
FairSpec == Spec /\ \A p \in Processes : WF_vars(StartStep(p))

-----------------------------------------------------------------------------
(* What the lifecycle promises.                                             *)

\* What was last stored is what the file holds, through every stop, kill,
\* repair and second start: UPGRADES.md, "persists them on first start and
\* resumes them after" (store.rs, open seeds an empty table only).
StoredSurvives == file = "seeded" => row = stored

\* Whatever runs and however often it is restarted, the ordinary socket
\* changes nothing once the owner has configured (service.rs, configure).
OwnerHasLastWord ==
  ownerSaid # None => row = [configuration |-> ownerSaid, metaConfigured |-> TRUE]

\* The store of an older release stays as it is, through any number of starts:
\* "ordinary startup never converts them or stamps a new Standard into them"
\* (store.rs, recognize).
ForeignUntouched == [][file = "foreign" => file' = "foreign"]_vars

\* A first start ended before its row was seeded, and nobody is past recognition.
HalfMade ==
  /\ file \in {"bare", "registered"}
  /\ \A p \in Processes : pc[p] \in {"off", "recognize"}

\* So does the file a first start left half-made, for good: an existing occupant is
\* completed by no start (store.rs, recognize), and only a process that was
\* recognized while there was no file may still complete it.
HalfMadeStays == [][HalfMade => HalfMade']_vars

\* The lifecycle implements a configuration register: starts, kills, repairs and
\* second processes never show in what is kept, and the row a start reads (store.rs,
\* open) is still the row when it has bound its sockets and serves (nexus.rs, open).
Kept == INSTANCE ConfigurationRegister
          WITH value <- IF file = "seeded" THEN row.configuration ELSE None,
               word <- ownerSaid,
               running <- [p \in Processes |-> IF pc[p] = "serving" THEN bound[p] ELSE None]

\* Start, Configure, stop and kill keep the register.
KeepsRegister == Kept!Spec

\* A seeded store always serves again, also after a kill that left it dirty,
\* while its Flow is up and its sockets can be bound.
ServesAgain == []( (file = "seeded" /\ [](row.configuration \in flowUp \cap Listenable))
                     => <>(\E p \in Processes : pc[p] = "serving") )

-----------------------------------------------------------------------------
(* What the repository says of the lifecycle and the code does not do.      *)

\* ARCHITECTURE.md:31-32, "While Flow is unreachable only Configure is answered,
\* so the owner can repair the Flow socket paths": the owner would get to a
\* serving Nexus however its Flow fares.  A start whose Flow is unreachable ends
\* before the sockets are bound (nexus.rs, open).
ConfigureServed ==
  []((\E p \in Processes : pc[p] = "bind") => <>(\E p \in Processes : pc[p] = "serving"))

\* UPGRADES.md:103-105, "persists them in message.sema on first start and resumes
\* them after": a first start that was interrupted would be taken up by the
\* next.  One killed after it registered the table and before it seeded the row
\* (store.rs:57-60) leaves a file no start recognizes.
FirstStartResumed == [](file = "registered" => <>(file = "seeded"))

\* UPGRADES.md:114-115, "moving Message's own sockets answers
\* `NexusRestartRequired`, and the restarted Nexus binds the stored paths": an owner
\* whose Configure is answered by a Nexus bound elsewhere would have been told.
\* Configure compares with the row (service.rs:39), not with what the process is
\* bound to: what the ordinary socket has moved before, with a plain Configured, the
\* owner can confirm without being told that a restart is due.
RestartIsAnnounced == \A p \in Processes :
  pc[p] = "serving" /\ row.configuration # bound[p] /\ "OwnerConfigured" \in answered[p]
    => "RestartRequired" \in answered[p]
=============================================================================
