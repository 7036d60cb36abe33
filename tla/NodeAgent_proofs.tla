--------------------------- MODULE NodeAgent_proofs ---------------------------
(***************************************************************************)
(* Proofs about NodeAgent for any jobs, local requests, slots and bounds:  *)
(* the slots are exactly accounted for, the warm runtime is not cooled     *)
(* under a job, and a claim is made only by a node the control plane did   *)
(* not block and whose last probe allows work.                             *)
(*                                                                         *)
(* The configuration file which that loop reads and saves (ConfigFile)     *)
(* comes last.                                                             *)
(***************************************************************************)
EXTENDS NodeAgent, ConfigFile, FiniteSetTheorems, WellFoundedInduction, TLAPS

Nodes == {"off", "top", "refresh", "beat", "gate", "poll", "acquire", "claiming",
          "announce", "batch"}

WorkType ==
    /\ jobs \in [Jobs -> {"queued", "running", "finished", "stranded"}]
    /\ handles \subseteq Jobs /\ busy \in BOOLEAN /\ node \in Nodes
    /\ phase \in {"first", "refill"}
    /\ counts \in [commands : Nat, plant : Nat, boots : Nat]

(* Where the work is: every running job has a handle the loop has not      *)
(* reaped, and the supervisor starts after the first claims of a batch.    *)
WorkInv ==
    /\ WorkType
    /\ Running \subseteq handles
    /\ NoWorkOutsideBatch
    /\ node \in {"acquire", "claiming", "announce"} /\ phase = "first" => ~busy

(* What the claims of a batch were decided on still holds. *)
GateInv ==
    /\ InBatch \/ node = "poll" => cpStatus # "blocked"
    /\ InBatch => snap.policy
    /\ InBatch /\ phase = "refill" => ShouldRun(claimCfg)

(* What was last written to the state file, and how the process ended.     *)
(* The first claims of a batch may come to nothing, and the loop goes on   *)
(* with what was written before them.                                      *)
EndInv ==
    /\ StopIsReported /\ BusyNotLeftBehind
    /\ node \in {"acquire", "claiming"} /\ phase = "first" => saved # "busy"

SlotInv == IsFiniteSet(permits) /\ PermitsAreExact

-----------------------------------------------------------------------------
(* A step of the loop outside claims and batches leaves the work alone. *)
LEMMA LoopKeepsWork ==
    ASSUME WorkInv,
           \/ Refresh \/ Beat \/ NoBeat \/ Gate \/ PollDenied \/ PollAllowed
           \/ Boot \/ BootFails \/ ProbeReports \/ SupervisorBeat
           \/ UserSets \/ StopCommand \/ PlantChanges
    PROVE  WorkInv'
<1>1. UNCHANGED <<jobs, handles, busy>>
  BY DEF Refresh, Beat, NoBeat, Gate, PollDenied, PollAllowed, Boot, BootFails, ProbeReports,
         SupervisorBeat, UserSets, StopCommand, PlantChanges, workVars
<1>2. Running' = Running
  BY <1>1 DEF Running
<1>3. CASE \/ Refresh \/ Beat \/ NoBeat \/ Gate \/ PollDenied \/ PollAllowed
           \/ Boot \/ BootFails
  <2>1. ~InBatch
    BY <1>3 DEF Refresh, Beat, NoBeat, Gate, PollDenied, PollAllowed, Boot, BootFails, InBatch
  <2>2. handles = {} /\ Running = {} /\ ~busy
    BY <2>1 DEF WorkInv, NoWorkOutsideBatch
  <2>3. counts' \in [commands : Nat, plant : Nat, boots : Nat]
    BY <1>3 DEF Refresh, Beat, NoBeat, Gate, PollDenied, PollAllowed, Boot, BootFails,
                WorkInv, WorkType, envVars
  <2>4. node' \in Nodes /\ phase' \in {"first", "refill"}
    BY <1>3 DEF Refresh, Beat, NoBeat, Gate, PollDenied, PollAllowed, Boot, BootFails,
                WorkInv, WorkType, Nodes, loopVars
  <2> QED BY <1>1, <1>2, <2>2, <2>3, <2>4 DEF WorkInv, WorkType, NoWorkOutsideBatch
<1>4. CASE ProbeReports \/ SupervisorBeat \/ UserSets \/ StopCommand \/ PlantChanges
  <2>1. UNCHANGED <<node, phase>>
    BY <1>4 DEF ProbeReports, SupervisorBeat, UserSets, StopCommand, PlantChanges, loopVars
  <2>2. counts' \in [commands : Nat, plant : Nat, boots : Nat]
    BY <1>4 DEF ProbeReports, SupervisorBeat, UserSets, StopCommand, PlantChanges,
                WorkInv, WorkType, envVars
  <2>3. InBatch' = InBatch
    BY <2>1 DEF InBatch
  <2> QED BY <1>1, <1>2, <2>1, <2>2, <2>3 DEF WorkInv, WorkType, NoWorkOutsideBatch
<1> QED BY <1>3, <1>4

(* The process ends, and its threads with it. *)
LEMMA DeathKeepsWork ==
    ASSUME WorkInv, ThreadsDie, node' = "off", UNCHANGED <<phase, counts>>
    PROVE  WorkInv'
<1>1. jobs' \in [Jobs -> {"queued", "running", "finished", "stranded"}]
  BY DEF ThreadsDie, WorkInv, WorkType
<1>2. Running' = {}
  BY DEF ThreadsDie, Running, WorkInv, WorkType
<1> QED BY <1>1, <1>2 DEF ThreadsDie, WorkInv, WorkType, NoWorkOutsideBatch, Nodes

LEMMA LeavesKeepWork ==
    ASSUME WorkInv, Killed \/ ConfigUnreadable \/ SaveFails \/ StopOrContinue
    PROVE  WorkInv'
<1>1. CASE ThreadsDie /\ node' = "off"
  <2>1. UNCHANGED <<phase, counts>>
    BY DEF Killed, ConfigUnreadable, SaveFails, StopOrContinue, envVars
  <2> QED BY <1>1, <2>1, DeathKeepsWork
<1>2. CASE /\ node = "top" /\ node' = "refresh"
           /\ UNCHANGED <<jobs, handles, busy, phase, counts>>
  <2>1. Running' = Running
    BY <1>2 DEF Running
  <2>2. ~InBatch
    BY <1>2 DEF InBatch
  <2> QED BY <1>2, <2>1, <2>2 DEF WorkInv, WorkType, NoWorkOutsideBatch, Nodes
<1> QED BY <1>1, <1>2 DEF Killed, ConfigUnreadable, SaveFails, StopOrContinue, Leave,
                          workVars, envVars

(* The claims. *)
LEMMA ClaimsKeepWork ==
    ASSUME WorkInv, Acquire \/ AcquireRefused \/ ClaimNone \/ \E j \in Jobs : ClaimGot(j)
    PROVE  WorkInv'
<1>1. CASE Acquire \/ AcquireRefused
  <2>1. UNCHANGED <<jobs, handles, busy, phase, counts>> /\ InBatch
    BY <1>1 DEF Acquire, AcquireRefused, workVars, envVars, InBatch
  <2>2. Running' = Running
    BY <2>1 DEF Running
  <2>3. node' \in Nodes
    BY <1>1 DEF Acquire, AcquireRefused, AfterClaims, Nodes
  <2>4. /\ ~InBatch' => handles = {} /\ ~busy
        /\ node' \in {"acquire", "claiming", "announce"} /\ phase = "first" => ~busy
    BY <1>1 DEF Acquire, AcquireRefused, AfterClaims, WorkInv, WorkType, InBatch
  <2> QED BY <2>1, <2>2, <2>3, <2>4 DEF WorkInv, WorkType, NoWorkOutsideBatch
<1>2. CASE ClaimNone
  <2>1. UNCHANGED <<handles, busy, phase, counts>> /\ node = "claiming" /\ AfterClaims
    BY <1>2 DEF ClaimNone, envVars
  <2>2. PICK lost \in SUBSET {j \in Jobs : jobs[j] = "queued"} :
          jobs' = [j \in Jobs |-> IF j \in lost THEN "stranded" ELSE jobs[j]]
    BY <1>2 DEF ClaimNone
  <2>3. jobs' \in [Jobs -> {"queued", "running", "finished", "stranded"}]
    BY <2>2 DEF WorkInv, WorkType
  <2>4. Running' = Running
    BY <2>2 DEF Running, WorkInv, WorkType
  <2>5. node' \in Nodes
    BY <2>1 DEF AfterClaims, Nodes
  <2>6. /\ ~InBatch' => handles = {} /\ ~busy
        /\ node' \in {"acquire", "claiming", "announce"} /\ phase = "first" => ~busy
    BY <2>1 DEF AfterClaims, WorkInv, WorkType, InBatch
  <2> QED BY <2>1, <2>3, <2>4, <2>5, <2>6 DEF WorkInv, WorkType, NoWorkOutsideBatch
<1>3. ASSUME NEW j \in Jobs, ClaimGot(j) PROVE WorkInv'
  <2>1. /\ UNCHANGED <<busy, phase, counts>> /\ node = "claiming" /\ node' = "acquire"
        /\ handles' = handles \cup {j} /\ jobs' = [jobs EXCEPT ![j] = "running"]
    BY <1>3 DEF ClaimGot, envVars
  <2>2. jobs' \in [Jobs -> {"queued", "running", "finished", "stranded"}]
    BY <2>1 DEF WorkInv, WorkType
  <2>3. Running' = Running \cup {j}
    BY <2>1 DEF Running, WorkInv, WorkType
  <2>4. InBatch'
    BY <2>1 DEF InBatch
  <2> QED BY <2>1, <2>2, <2>3, <2>4 DEF WorkInv, WorkType, NoWorkOutsideBatch, Nodes
<1> QED BY <1>1, <1>2, <1>3

(* The batch. *)
LEMMA BatchKeepsWork ==
    ASSUME WorkInv, Announce \/ BatchTick \/ BatchEnd
    PROVE  WorkInv'
<1>1. UNCHANGED <<jobs, counts>>
  BY DEF Announce, BatchTick, BatchEnd, envVars
<1>2. Running' = Running
  BY <1>1 DEF Running
<1>3. CASE Announce
  BY <1>1, <1>2, <1>3 DEF Announce, WorkInv, WorkType, NoWorkOutsideBatch, Nodes, InBatch
<1>4. CASE BatchTick
  <2>1. /\ handles' = handles \cap Running /\ busy' = busy
        /\ \/ node' = "acquire" /\ phase' = "refill"
           \/ node' = "batch" /\ phase' = phase
    BY <1>4 DEF BatchTick
  <2>2. InBatch'
    BY <2>1 DEF InBatch
  <2> QED BY <1>1, <1>2, <2>1, <2>2 DEF WorkInv, WorkType, NoWorkOutsideBatch, Nodes
<1>5. CASE BatchEnd
  <2>1. /\ handles = {} /\ handles' = {} /\ busy' = FALSE /\ node' = "top" /\ phase' = phase
    BY <1>5 DEF BatchEnd
  <2> QED BY <1>1, <1>2, <2>1 DEF WorkInv, WorkType, NoWorkOutsideBatch, Nodes
<1> QED BY <1>3, <1>4, <1>5

LEMMA OthersKeepWork ==
    ASSUME WorkInv,
           \/ \E j \in Jobs : JobEnds(j)
           \/ \E r \in Locals : LocalTakes(r) \/ LocalReturns(r)
           \/ UNCHANGED vars
    PROVE  WorkInv'
<1>1. ASSUME NEW j \in Jobs, JobEnds(j) PROVE WorkInv'
  <2>1. /\ UNCHANGED <<handles, busy, phase, node, counts>>
        /\ jobs' = [jobs EXCEPT ![j] = "finished"]
    BY <1>1 DEF JobEnds, envVars, loopVars
  <2>2. jobs' \in [Jobs -> {"queued", "running", "finished", "stranded"}]
    BY <2>1 DEF WorkInv, WorkType
  <2>3. Running' \subseteq Running
    BY <2>1 DEF Running, WorkInv, WorkType
  <2>4. InBatch' = InBatch
    BY <2>1 DEF InBatch
  <2> QED BY <2>1, <2>2, <2>3, <2>4 DEF WorkInv, WorkType, NoWorkOutsideBatch
<1>2. ASSUME UNCHANGED <<jobs, handles, busy, phase, node, counts>> PROVE WorkInv'
  <2>1. Running' = Running /\ InBatch' = InBatch
    BY <1>2 DEF Running, InBatch
  <2> QED BY <1>2, <2>1 DEF WorkInv, WorkType, NoWorkOutsideBatch
<1> QED BY <1>1, <1>2 DEF LocalTakes, LocalReturns, envVars, loopVars, workVars, vars

LEMMA WorkInit == Init => WorkInv
<1> SUFFICES ASSUME Init PROVE WorkInv
  OBVIOUS
<1>1. WorkType /\ Running = {}
  BY DEF Init, WorkType, Running, Nodes
<1> QED BY <1>1 DEF Init, WorkInv, NoWorkOutsideBatch

LEMMA WorkStep == WorkInv /\ [Next]_vars => WorkInv'
BY LoopKeepsWork, LeavesKeepWork, ClaimsKeepWork, BatchKeepsWork, OthersKeepWork
   DEF Next, MainThread

(* process_pending_jobs returns only when its batch is over: whenever the  *)
(* main loop decides to stop, no job runs and no supervisor beats.         *)
THEOREM WorkInvariant == Spec => []WorkInv
BY WorkInit, WorkStep, PTL DEF Spec

(* NeverCooledUnderWork for any number of jobs of the network and local    *)
(* requests: run_agent drops its runtime only where process_pending_jobs   *)
(* has returned, and that does not return while a job it claimed runs.     *)
(* Nothing is said of local requests, under which the runtime is cooled,   *)
(* nor of the stop command, a process of its own.                          *)
THEOREM NoCoolingUnderWork == Spec => NeverCooledUnderWork
<1>1. WorkInv /\ [Next]_vars =>
        [runtime = "warm" /\ runtime' = "cold" /\ counts' = counts => Running = {}]_vars
  <2> SUFFICES ASSUME WorkInv, Next, runtime = "warm", runtime' = "cold", counts' = counts
               PROVE  Running = {}
    OBVIOUS
  <2>1. CASE Boot \/ BootFails \/ StopCommand
    <3>1. \/ counts' = [counts EXCEPT !.boots = @ + 1]
          \/ counts' = [counts EXCEPT !.commands = @ + 1]
      BY <2>1 DEF Boot, BootFails, StopCommand
    <3>2. counts' # counts
      BY <3>1 DEF WorkInv, WorkType
    <3> QED BY <3>2
  <2>2. CASE StopOrContinue \/ ConfigUnreadable \/ SaveFails
    BY <2>2 DEF StopOrContinue, ConfigUnreadable, SaveFails, WorkInv, NoWorkOutsideBatch, InBatch
  <2>3. CASE \/ Refresh \/ Beat \/ NoBeat \/ Gate \/ PollDenied \/ PollAllowed \/ Acquire
             \/ AcquireRefused \/ ClaimNone \/ Announce \/ BatchTick \/ BatchEnd
             \/ ProbeReports \/ SupervisorBeat \/ UserSets \/ PlantChanges \/ Killed
    BY <2>3 DEF Refresh, Beat, NoBeat, Gate, PollDenied, PollAllowed, Acquire, AcquireRefused,
                ClaimNone, Announce, BatchTick, BatchEnd, ProbeReports, SupervisorBeat,
                UserSets, PlantChanges, Killed, Abandoned, endVars
  <2>4. CASE \/ \E j \in Jobs : ClaimGot(j) \/ JobEnds(j)
             \/ \E r \in Locals : LocalTakes(r) \/ LocalReturns(r)
    BY <2>4 DEF ClaimGot, JobEnds, LocalTakes, LocalReturns, endVars
  <2> QED BY <2>1, <2>2, <2>3, <2>4 DEF Next, MainThread
<1> QED BY <1>1, WorkInvariant, PTL DEF Spec, NeverCooledUnderWork

-----------------------------------------------------------------------------
(* The slots. *)

(* No slot changes hands. *)
LEMMA SlotsUntouched ==
    ASSUME SlotInv, permits' = permits, Running' = Running,
           (node' = "claiming") <=> (node = "claiming")
    PROVE  SlotInv'
BY DEF SlotInv, PermitsAreExact

LEMMA SlotTaken ==
    ASSUME SlotInv, NEW x, x \notin permits, Cardinality(permits) < Capacity
    PROVE  /\ IsFiniteSet(permits \cup {x})
           /\ Cardinality(permits \cup {x}) <= Capacity
<1>1. IsFiniteSet(permits) /\ Cardinality(permits) \in Nat /\ Capacity \in Nat
  BY FS_CardinalityType, NodeAssumption DEF SlotInv
<1>2. /\ IsFiniteSet(permits \cup {x})
      /\ Cardinality(permits \cup {x}) = Cardinality(permits) + 1
  BY <1>1, FS_AddElement
<1> QED BY <1>1, <1>2

LEMMA SlotReturned ==
    ASSUME SlotInv, NEW x
    PROVE  /\ IsFiniteSet(permits \ {x})
           /\ Cardinality(permits \ {x}) <= Capacity
<1>1. IsFiniteSet(permits) /\ Cardinality(permits) \in Nat /\ Capacity \in Nat
      /\ Cardinality(permits) <= Capacity
  BY FS_CardinalityType, NodeAssumption DEF SlotInv, PermitsAreExact
<1>2. IsFiniteSet(permits \ {x}) /\ Cardinality(permits \ {x}) <= Cardinality(permits)
  BY <1>1, FS_RemoveElement
<1>3. Cardinality(permits \ {x}) \in Nat
  BY <1>2, FS_CardinalityType
<1> QED BY <1>1, <1>2, <1>3

LEMMA AcquireKeepsSlots ==
    ASSUME WorkInv, SlotInv, Acquire
    PROVE  SlotInv'
<1>1. /\ node = "acquire" /\ node' = "claiming" /\ jobs' = jobs
      /\ permits' = permits \cup {"claim"} /\ Cardinality(permits) < Capacity
  BY DEF Acquire, MoreSlots
<1>2. Running' = Running
  BY <1>1 DEF Running
<1>3. "claim" \notin permits /\ permits \cap Jobs = Running
  BY <1>1 DEF SlotInv, PermitsAreExact
<1>4. IsFiniteSet(permits') /\ Cardinality(permits') <= Capacity
  BY <1>1, <1>3, SlotTaken
<1> QED BY <1>1, <1>2, <1>3, <1>4, NodeAssumption DEF SlotInv, PermitsAreExact

LEMMA ClaimGotKeepsSlots ==
    ASSUME WorkInv, SlotInv, NEW j \in Jobs, ClaimGot(j)
    PROVE  SlotInv'
<1>1. /\ node = "claiming" /\ node' = "acquire" /\ jobs[j] = "queued"
      /\ jobs' = [jobs EXCEPT ![j] = "running"]
      /\ permits' = (permits \ {"claim"}) \cup {j}
  BY DEF ClaimGot
<1>2. Running' = Running \cup {j}
  BY <1>1 DEF Running, WorkInv, WorkType
<1>3. "claim" \in permits /\ permits \cap Jobs = Running
  BY <1>1 DEF SlotInv, PermitsAreExact
<1>4. j \notin permits /\ j # "claim"
  BY <1>1, <1>3, NodeAssumption DEF Running
<1>5. IsFiniteSet(permits') /\ Cardinality(permits') <= Capacity
  <2>1. /\ IsFiniteSet(permits) /\ Cardinality(permits) \in Nat
        /\ Cardinality(permits) <= Capacity
    BY FS_CardinalityType DEF SlotInv, PermitsAreExact
  <2>2. /\ IsFiniteSet(permits \ {"claim"})
        /\ Cardinality(permits \ {"claim"}) = Cardinality(permits) - 1
    BY <1>3, <2>1, FS_RemoveElement
  <2>3. IsFiniteSet(permits') /\ Cardinality(permits') = Cardinality(permits) - 1 + 1
    BY <1>1, <1>4, <2>2, FS_AddElement
  <2> QED BY <2>1, <2>3
<1>6. permits' \cap Jobs = Running' /\ "claim" \notin permits'
  BY <1>1, <1>2, <1>3, <1>4, NodeAssumption
<1> QED BY <1>1, <1>5, <1>6 DEF SlotInv, PermitsAreExact

LEMMA ClaimNoneKeepsSlots ==
    ASSUME WorkInv, SlotInv, ClaimNone
    PROVE  SlotInv'
<1>1. node' # "claiming" /\ permits' = permits \ {"claim"}
  BY DEF ClaimNone, AfterClaims
<1>2. PICK lost \in SUBSET {j \in Jobs : jobs[j] = "queued"} :
        jobs' = [j \in Jobs |-> IF j \in lost THEN "stranded" ELSE jobs[j]]
  BY DEF ClaimNone
<1>3. Running' = Running
  BY <1>2 DEF Running, WorkInv, WorkType
<1>4. IsFiniteSet(permits') /\ Cardinality(permits') <= Capacity
  BY <1>1, SlotReturned
<1>5. permits' \cap Jobs = Running'
  BY <1>1, <1>3, NodeAssumption DEF SlotInv, PermitsAreExact
<1> QED BY <1>1, <1>4, <1>5 DEF SlotInv, PermitsAreExact

LEMMA JobEndsKeepsSlots ==
    ASSUME WorkInv, SlotInv, NEW j \in Jobs, JobEnds(j)
    PROVE  SlotInv'
<1>1. /\ node' = node /\ permits' = permits \ {j} /\ jobs' = [jobs EXCEPT ![j] = "finished"]
  BY DEF JobEnds, loopVars
<1>2. Running' = Running \ {j}
  BY <1>1 DEF Running, WorkInv, WorkType
<1>3. IsFiniteSet(permits') /\ Cardinality(permits') <= Capacity
  BY <1>1, SlotReturned
<1>4. j # "claim"
  BY NodeAssumption
<1> QED BY <1>1, <1>2, <1>3, <1>4 DEF SlotInv, PermitsAreExact

LEMMA LocalKeepsSlots ==
    ASSUME SlotInv, NEW r \in Locals, LocalTakes(r) \/ LocalReturns(r)
    PROVE  SlotInv'
<1>1. node' = node /\ jobs' = jobs
  BY DEF LocalTakes, LocalReturns, loopVars
<1>2. Running' = Running
  BY <1>1 DEF Running
<1>3. r \notin Jobs /\ r # "claim"
  BY NodeAssumption
<1>4. CASE LocalTakes(r)
  <2>1. permits' = permits \cup {r} /\ r \notin permits /\ Cardinality(permits) < Capacity
    BY <1>4 DEF LocalTakes
  <2>2. IsFiniteSet(permits') /\ Cardinality(permits') <= Capacity
    BY <2>1, SlotTaken
  <2> QED BY <1>1, <1>2, <1>3, <2>1, <2>2 DEF SlotInv, PermitsAreExact
<1>5. CASE LocalReturns(r)
  <2>1. permits' = permits \ {r}
    BY <1>5 DEF LocalReturns
  <2>2. IsFiniteSet(permits') /\ Cardinality(permits') <= Capacity
    BY <2>1, SlotReturned
  <2> QED BY <1>1, <1>2, <1>3, <2>1, <2>2 DEF SlotInv, PermitsAreExact
<1> QED BY <1>4, <1>5

LEMMA EndKeepsSlots ==
    ASSUME WorkInv, node' = "off", ThreadsDie
    PROVE  SlotInv'
<1>1. Running' = {} /\ permits' = {}
  BY DEF ThreadsDie, Running, WorkInv, WorkType
<1> QED BY <1>1, FS_EmptySet, NodeAssumption DEF SlotInv, PermitsAreExact

(* PermitsAreExact for any capacity, jobs and local requests: neither a    *)
(* claim that fails nor a job that ends or dies leaks a slot, and the job  *)
(* threads and the local API together never exceed the pool.               *)
THEOREM SlotsAreExact == Spec => []PermitsAreExact
<1>1. Init => SlotInv
  <2> SUFFICES ASSUME Init PROVE SlotInv
    OBVIOUS
  <2>1. Running = {} /\ permits = {} /\ node = "off"
    BY DEF Init, Running
  <2> QED BY <2>1, FS_EmptySet, NodeAssumption DEF SlotInv, PermitsAreExact
<1>2. WorkInv /\ SlotInv /\ [Next]_vars => SlotInv'
  <2> SUFFICES ASSUME WorkInv, SlotInv, [Next]_vars PROVE SlotInv'
    OBVIOUS
  <2>1. CASE \/ Boot \/ BootFails \/ Refresh \/ Beat \/ NoBeat \/ Gate \/ PollDenied
             \/ PollAllowed \/ AcquireRefused \/ Announce \/ BatchTick \/ BatchEnd
             \/ ProbeReports \/ SupervisorBeat \/ UserSets \/ StopCommand \/ PlantChanges
    <3>1. permits' = permits /\ jobs' = jobs /\ ((node' = "claiming") <=> (node = "claiming"))
      BY <2>1 DEF Boot, BootFails, Refresh, Beat, NoBeat, Gate, PollDenied, PollAllowed,
                  AcquireRefused, AfterClaims, Announce, BatchTick, BatchEnd, ProbeReports,
                  SupervisorBeat, UserSets, StopCommand, PlantChanges, workVars, loopVars
    <3>2. Running' = Running
      BY <3>1 DEF Running
    <3> QED BY <3>1, <3>2, SlotsUntouched
  <2>2. CASE Killed \/ ConfigUnreadable \/ SaveFails \/ StopOrContinue
    <3>1. CASE node' = "off" /\ ThreadsDie
      BY <3>1, EndKeepsSlots
    <3>2. CASE node = "top" /\ node' = "refresh" /\ permits' = permits /\ jobs' = jobs
      <4>1. Running' = Running
        BY <3>2 DEF Running
      <4> QED BY <3>2, <4>1, SlotsUntouched
    <3> QED BY <2>2, <3>1, <3>2 DEF Killed, ConfigUnreadable, SaveFails, StopOrContinue,
                                    Leave, workVars
  <2>3. CASE UNCHANGED vars
    <3>1. permits' = permits /\ jobs' = jobs /\ node' = node
      BY <2>3 DEF vars, workVars, loopVars
    <3>2. Running' = Running
      BY <3>1 DEF Running
    <3> QED BY <3>1, <3>2, SlotsUntouched
  <2> QED BY <2>1, <2>2, <2>3, AcquireKeepsSlots, ClaimGotKeepsSlots, ClaimNoneKeepsSlots,
             JobEndsKeepsSlots, LocalKeepsSlots
          DEF Next, MainThread
<1>3. SlotInv => PermitsAreExact
  BY DEF SlotInv
<1> QED BY <1>1, <1>2, <1>3, WorkInvariant, PTL DEF Spec

-----------------------------------------------------------------------------
(* What a claim was decided on. *)
LEMMA GateStep ==
    ASSUME GateInv, [Next]_vars
    PROVE  GateInv'
<1> USE DEF GateInv, InBatch
<1>1. CASE Boot
  BY <1>1 DEF Boot
<1>2. CASE BootFails \/ SupervisorBeat \/ UserSets \/ StopCommand \/ PlantChanges
  BY <1>2 DEF BootFails, SupervisorBeat, UserSets, StopCommand, PlantChanges, loopVars
<1>3. CASE Killed \/ ConfigUnreadable \/ SaveFails \/ StopOrContinue
  BY <1>3 DEF Killed, ConfigUnreadable, SaveFails, StopOrContinue, Leave
<1>4. CASE Refresh \/ Beat \/ NoBeat \/ Gate \/ PollDenied
  BY <1>4 DEF Refresh, Beat, NoBeat, Gate, PollDenied
<1>5. CASE PollAllowed
  BY <1>5 DEF PollAllowed
<1>6. CASE Acquire \/ AcquireRefused \/ ClaimNone \/ Announce \/ BatchEnd \/ ProbeReports
  BY <1>6 DEF Acquire, AcquireRefused, ClaimNone, AfterClaims, Announce, BatchEnd, ProbeReports
<1>7. CASE BatchTick
  <2>1. CASE ShouldRun(disk)
    <3>1. node' = "acquire" /\ claimCfg' = disk /\ UNCHANGED <<snap, cpStatus, disk>>
          /\ node = "batch"
      BY <1>7, <2>1 DEF BatchTick, envVars
    <3>2. ShouldRun(claimCfg')
      BY <2>1, <3>1
    <3> QED BY <3>1, <3>2 DEF ShouldRun
  <2>2. CASE ~ShouldRun(disk)
    BY <1>7, <2>2 DEF BatchTick
  <2> QED BY <2>1, <2>2
<1>8. CASE \/ \E j \in Jobs : ClaimGot(j) \/ JobEnds(j)
           \/ \E r \in Locals : LocalTakes(r) \/ LocalReturns(r)
  BY <1>8 DEF ClaimGot, JobEnds, LocalTakes, LocalReturns, loopVars
<1>9. CASE UNCHANGED vars
  BY <1>9 DEF vars, loopVars
<1> QED BY <1>1, <1>2, <1>3, <1>4, <1>5, <1>6, <1>7, <1>8, <1>9 DEF Next, MainThread

(* A job is claimed only under a snapshot whose policy allows work and a   *)
(* control plane that did not block the node, and in the refills of a busy *)
(* batch also under a configuration that says run.  The claims with which  *)
(* a batch begins are not held to the configuration: run_agent makes those *)
(* after start-up without looking at it.                                   *)
THEOREM ClaimsAreEligible == Spec => EligibleClaims
<1>1. Init => GateInv
  BY DEF Init, GateInv, InBatch
<1>2. WorkInv /\ GateInv /\ [Next]_vars =>
        [\A j \in Jobs : Claimed(j) =>
            /\ snap.policy /\ cpStatus # "blocked"
            /\ phase = "refill" => ShouldRun(claimCfg)]_vars
  <2> SUFFICES ASSUME WorkInv, GateInv, Next, NEW j \in Jobs, Claimed(j)
               PROVE  /\ snap.policy /\ cpStatus # "blocked"
                      /\ phase = "refill" => ShouldRun(claimCfg)
    OBVIOUS
  <2>1. node = "claiming"
    <3> SUFFICES ASSUME node # "claiming" PROVE FALSE
      OBVIOUS
    <3>1. CASE \/ Boot \/ BootFails \/ Refresh \/ Beat \/ NoBeat \/ Gate \/ PollDenied
               \/ PollAllowed \/ Acquire \/ AcquireRefused \/ Announce \/ BatchTick \/ BatchEnd
               \/ ProbeReports \/ SupervisorBeat \/ UserSets \/ StopCommand \/ PlantChanges
               \/ \E r \in Locals : LocalTakes(r) \/ LocalReturns(r)
      <4>1. jobs' = jobs
        BY <3>1 DEF Boot, BootFails, Refresh, Beat, NoBeat, Gate, PollDenied, PollAllowed,
                    Acquire, AcquireRefused, Announce, BatchTick, BatchEnd, ProbeReports,
                    SupervisorBeat, UserSets, StopCommand, PlantChanges, LocalTakes,
                    LocalReturns, workVars
      <4> QED BY <4>1 DEF Claimed
    <3>2. CASE Killed \/ ConfigUnreadable \/ SaveFails \/ StopOrContinue
      <4>1. jobs' = jobs \/ jobs' = [i \in Jobs |-> IF jobs[i] = "running" THEN "stranded"
                                                    ELSE jobs[i]]
        BY <3>2 DEF Killed, ConfigUnreadable, SaveFails, StopOrContinue, Leave, ThreadsDie,
                    workVars
      <4> QED BY <4>1 DEF Claimed
    <3>3. CASE \E i \in Jobs : JobEnds(i)
      <4>1. PICK i \in Jobs : jobs' = [jobs EXCEPT ![i] = "finished"]
        BY <3>3 DEF JobEnds
      <4> QED BY <4>1 DEF Claimed, WorkInv, WorkType
    <3>4. CASE ClaimNone \/ \E i \in Jobs : ClaimGot(i)
      BY <3>4 DEF ClaimNone, ClaimGot
    <3> QED BY <3>1, <3>2, <3>3, <3>4 DEF Next, MainThread
  <2> QED BY <2>1 DEF GateInv, InBatch
<1> QED BY <1>1, <1>2, GateStep, WorkInvariant, PTL DEF Spec, EligibleClaims

-----------------------------------------------------------------------------
(* What the node says of itself. *)
LEMMA EndStep ==
    ASSUME WorkInv, EndInv, [Next]_vars
    PROVE  EndInv'
<1> USE DEF EndInv, StopIsReported, BusyNotLeftBehind
<1>1. \A p, c : BuildHeartbeat(p, c) \in {"ready", "paused", "stopped"}
  BY DEF BuildHeartbeat, ResolvedState
<1>2. \A s, c : FromSnapshot(s, ResolvedState(c)) \in {"ready", "paused", "stopped"}
  BY DEF FromSnapshot, ResolvedState
<1>3. CASE Boot
  BY <1>1, <1>3 DEF Boot
<1>4. CASE BootFails
  BY <1>4 DEF BootFails, loopVars
<1>5. CASE StopCommand
  <2>1. disk' = [connected |-> FALSE, paused |-> TRUE] /\ saved' = BuildHeartbeat(plant, disk')
    BY <1>5 DEF StopCommand
  <2>2. saved' \in {"paused", "stopped"}
    BY <2>1 DEF BuildHeartbeat, ResolvedState
  <2> QED BY <1>5, <2>2 DEF StopCommand, loopVars
<1>6. CASE StopOrContinue
  <2>1. CASE ShouldRun(disk)
    BY <1>6, <2>1 DEF StopOrContinue, endVars
  <2>2. CASE ~ShouldRun(disk)
    <3>1. /\ saved' = FromSnapshot(snap, ResolvedState(disk))
          /\ node' = "off" /\ exit' = "config"
      BY <1>6, <2>2 DEF StopOrContinue, Leave
    <3>2. saved' \in {"paused", "stopped"}
      BY <2>2, <3>1 DEF FromSnapshot, ResolvedState, ShouldRun
    <3> QED BY <3>1, <3>2
  <2> QED BY <2>1, <2>2
<1>7. CASE ConfigUnreadable \/ SaveFails
  BY <1>7 DEF ConfigUnreadable, SaveFails, Leave
<1>8. CASE Killed
  BY <1>8 DEF Killed
<1>9. CASE Beat \/ PollDenied \/ BatchEnd
  BY <1>2, <1>9 DEF Beat, PollDenied, BatchEnd, endVars
<1>10. CASE Refresh \/ NoBeat \/ Gate \/ PollAllowed \/ ProbeReports
  BY <1>10 DEF Refresh, NoBeat, Gate, PollAllowed, ProbeReports, endVars
<1>11. CASE UserSets \/ PlantChanges \/ UNCHANGED vars
  BY <1>11 DEF UserSets, PlantChanges, vars, loopVars, endVars
<1>12. CASE Announce \/ BatchTick
  BY <1>12 DEF Announce, BatchTick, endVars
<1>13. CASE SupervisorBeat
  <2>1. InBatch
    BY <1>13 DEF SupervisorBeat, WorkInv, NoWorkOutsideBatch
  <2>2. ~(node \in {"acquire", "claiming"} /\ phase = "first")
    BY <1>13 DEF SupervisorBeat, WorkInv
  <2> QED BY <1>13, <2>1, <2>2 DEF SupervisorBeat, InBatch, loopVars, endVars
<1>14. ASSUME NEW j \in Jobs, JobEnds(j) PROVE EndInv'
  <2>1. InBatch
    BY <1>14 DEF JobEnds, WorkInv, NoWorkOutsideBatch, Running
  <2> QED BY <1>1, <1>14, <2>1 DEF JobEnds, InBatch, loopVars, endVars
<1>15. CASE \E j \in Jobs : ClaimGot(j)
  BY <1>15 DEF ClaimGot, endVars
<1>16. CASE \E r \in Locals : LocalTakes(r) \/ LocalReturns(r)
  BY <1>16 DEF LocalTakes, LocalReturns, loopVars, endVars
<1>17. CASE Acquire \/ AcquireRefused \/ ClaimNone
  BY <1>17 DEF Acquire, AcquireRefused, ClaimNone, AfterClaims, WorkInv, WorkType, endVars
<1> QED BY <1>3, <1>4, <1>5, <1>6, <1>7, <1>8, <1>9, <1>10, <1>11, <1>12, <1>13, <1>14,
           <1>15, <1>16, <1>17
        DEF Next, MainThread

(* A node that stopped because its configuration says so has reported it,  *)
(* and one back in its main loop does not call itself busy:                *)
(* stop_busy_heartbeat_supervisor joins its thread before the closing      *)
(* heartbeat.                                                              *)
THEOREM NodeReportsItself == Spec => [](StopIsReported /\ BusyNotLeftBehind)
<1>1. Init => EndInv
  BY DEF Init, EndInv, StopIsReported, BusyNotLeftBehind
<1>2. EndInv => StopIsReported /\ BusyNotLeftBehind
  BY DEF EndInv
<1> QED BY <1>1, <1>2, EndStep, WorkInvariant, PTL DEF Spec

-----------------------------------------------------------------------------
(* The configuration file (ConfigFile), which the loop reads and saves back *)
(* and which the commands rewrite as a whole.                               *)

\* A configuration has the field the verification of a start is about.
HasCluster(conf) == "cluster" \in DOMAIN conf

\* Whatever is about to be written, and whatever it is made from, has it.
ClusterInv ==
    /\ DOMAIN agent = {"pc", "conf"} /\ DOMAIN cli = Clis
    /\ \A c \in Clis : DOMAIN cli[c] = {"cmd", "pc", "next", "conf", "found"}
    /\ HasCluster(file) /\ HasCluster(agent.conf)
    /\ \A c \in Clis : cli[c].pc # "idle" => HasCluster(cli[c].conf)

\* A command's record after a step.
Carries(r) ==
    /\ DOMAIN r = {"cmd", "pc", "next", "conf", "found"}
    /\ r.pc # "idle" => HasCluster(r.conf)

(* What the commands do to a configuration leaves it the field. *)
LEMMA ForgetKeeps ==
    ASSUME NEW conf, HasCluster(conf)
    PROVE  HasCluster(Forget(conf)) /\ HasCluster(Decline(conf))
  BY Zenon DEF HasCluster, Forget, Decline

LEMMA ContributeKeeps ==
    ASSUME NEW conf, HasCluster(conf), NEW e, NEW s, NEW m, NEW x \in Contribute(conf, e, s, m)
    PROVE  HasCluster(x)
<1>1. PICK t : x = [conf EXCEPT !.cluster = {[url |-> e, model |-> m, tools |-> t]},
                                !.declined = FALSE]
  BY DEF Contribute
<1> QED BY <1>1, Zenon DEF HasCluster

LEMMA AdoptKeeps ==
    ASSUME NEW conf, HasCluster(conf), NEW e, NEW found, NEW x \in Adopt(conf, e, found)
    PROVE  HasCluster(x)
  BY ContributeKeeps, Zenon DEF Adopt

LEMMA OffersKeep ==
    ASSUME NEW conf, HasCluster(conf), NEW cmd, NEW found, NEW x \in Offers(conf, cmd, found)
    PROVE  HasCluster(x)
<1>1. PICK decision :
        decision = PromptDecision(Servable(found) # {}, conf.cluster # {},
                                       conf.declined, Forced(cmd), Interactive(cmd))
  OBVIOUS
<1>2. decision \in {"skip", "contribute", "decline", "ask"}
  BY <1>1 DEF PromptDecision, Forced
<1>3. x \in CASE decision = "skip" -> {conf}
              [] decision = "contribute" ->
                    UNION {Adopt(conf, e, found) : e \in Preferred(found)}
              [] decision = "decline" -> {Decline(conf)}
              [] decision = "ask" ->
                    {conf, Decline(conf)}
                      \cup UNION {Adopt(conf, e, found) : e \in Servable(found)}
  BY <1>1 DEF Offers
<1>4. \/ x \in {conf, Decline(conf)}
      \/ \E e : x \in Adopt(conf, e, found)
  BY <1>2, <1>3
<1> QED BY <1>4, AdoptKeeps, ForgetKeeps

\* The records a command may leave.
LEMMA IdleIs ==
    /\ DOMAIN IdleCli = {"cmd", "pc", "next", "conf", "found"}
    /\ IdleCli.pc = "idle" /\ IdleCli.next = "idle"
  BY DEF IdleCli

LEMMA SavingIs ==
    ASSUME NEW cmd, NEW conf, NEW next
    PROVE  /\ DOMAIN Saving(cmd, conf, next) = {"cmd", "pc", "next", "conf", "found"}
           /\ Saving(cmd, conf, next).conf = conf /\ Saving(cmd, conf, next).cmd = cmd
           /\ Saving(cmd, conf, next).pc = "truncate" /\ Saving(cmd, conf, next).next = next
<1>1. PICK r : r = Saving(cmd, conf, next)
  OBVIOUS
<1>2. r = [IdleCli EXCEPT !.cmd = cmd, !.pc = "truncate", !.next = next, !.conf = conf]
  BY <1>1, Zenon DEF Saving
<1>3. /\ DOMAIN r = {"cmd", "pc", "next", "conf", "found"} /\ r.conf = conf
      /\ r.cmd = cmd /\ r.pc = "truncate" /\ r.next = next
  BY <1>2, IdleIs, ZenonT(60)
<1> QED BY <1>1, <1>3

LEMMA SavingCarries ==
    ASSUME NEW cmd, NEW conf, NEW next, HasCluster(conf)
    PROVE  Carries(Saving(cmd, conf, next))
  BY SavingIs DEF Carries

LEMMA IdleCarries == Carries(IdleCli)
  BY IdleIs DEF Carries

LEMMA CommandMoves ==
    ASSUME ClusterInv, NEW c \in Clis, NEW r, cli' = [cli EXCEPT ![c] = r], Carries(r),
           DOMAIN agent' = {"pc", "conf"},
           HasCluster(file') /\ HasCluster(agent'.conf)
    PROVE  ClusterInv'
<1>1. DOMAIN cli' = Clis /\ cli'[c] = r /\ \A d \in Clis \ {c} : cli'[d] = cli[d]
  BY DEF ClusterInv
<1>2. \A d \in Clis : DOMAIN cli'[d] = {"cmd", "pc", "next", "conf", "found"}
  BY <1>1 DEF ClusterInv, Carries
<1>3. ASSUME NEW d \in Clis, cli'[d].pc # "idle" PROVE HasCluster(cli'[d].conf)
  <2>1. CASE d = c
    BY <1>1, <1>3, <2>1 DEF Carries
  <2>2. CASE d # c
    BY <1>1, <1>3, <2>2 DEF ClusterInv, HasCluster
  <2> QED BY <2>1, <2>2
<1> QED BY <1>1, <1>2, <1>3 DEF ClusterInv

LEMMA Begin ==
    ASSUME ClusterInv, NEW c \in Clis, NEW r, Begins(c, r), Carries(r)
    PROVE  ClusterInv'
<1>1. /\ cli' = [cli EXCEPT ![c] = r] /\ UNCHANGED <<file, agent>>
  BY DEF Begins
<1>2. /\ DOMAIN agent' = {"pc", "conf"}
      /\ HasCluster(file') /\ HasCluster(agent'.conf)
  BY <1>1 DEF ClusterInv, HasCluster
<1> QED BY <1>1, <1>2, CommandMoves

LEMMA GoesOn ==
    ASSUME ClusterInv, NEW c \in Clis, NEW r, CliGoesOn(c, r), Carries(r)
    PROVE  ClusterInv'
<1>1. /\ cli' = [cli EXCEPT ![c] = r] /\ UNCHANGED <<file, agent>>
  BY DEF CliGoesOn
<1>2. /\ DOMAIN agent' = {"pc", "conf"}
      /\ HasCluster(file') /\ HasCluster(agent'.conf)
  BY <1>1 DEF ClusterInv
<1> QED BY <1>1, <1>2, CommandMoves

\* What a command reads, the file or the built-in default.
LEMMA ReadIs ==
    ASSUME ClusterInv
    PROVE  HasCluster(LoadOrDefault)
<1>1. "cluster" \in DOMAIN DefaultConfig
  BY DEF DefaultConfig
<1> QED BY <1>1 DEF ClusterInv, LoadOrDefault, HasCluster

LEMMA ReadKeeps ==
    ASSUME ClusterInv, NEW c \in Clis, CliRead(c)
    PROVE  ClusterInv'
<1>1. PICK cmd \in {"pause", "exit", "onboard", "forget"} :
        Begins(c, IF cmd = "pause" /\ ~LoadOrDefault.connected THEN IdleCli
                       ELSE Saving(cmd, Edit(cmd, LoadOrDefault),
                                        IF cmd = "exit" THEN "stopRead" ELSE "idle"))
  BY DEF CliRead
<1>2. PICK conf : conf = LoadOrDefault
  OBVIOUS
<1>3. HasCluster(conf)
  BY <1>2, ReadIs
<1>4. HasCluster(Edit(cmd, conf))
  <2>1. CASE cmd = "forget"
    BY <1>3, <2>1, ForgetKeeps DEF Edit
  <2>2. CASE cmd # "forget"
    <3>1. PICK x : x = Edit(cmd, conf)
      OBVIOUS
    <3>2. \/ x = [conf EXCEPT !.paused = TRUE]
          \/ x = [conf EXCEPT !.connected = FALSE, !.paused = TRUE]
          \/ x = [conf EXCEPT !.onboarded = TRUE]
      BY <2>2, <3>1 DEF Edit
    <3>3. HasCluster(x)
      BY <1>3, <3>2, Zenon DEF HasCluster
    <3> QED BY <3>1, <3>3
  <2> QED BY <2>1, <2>2
<1>5. PICK next : next = IF cmd = "exit" THEN "stopRead" ELSE "idle"
  OBVIOUS
<1>6. Carries(Saving(cmd, Edit(cmd, conf), next))
  BY <1>3, <1>4, SavingCarries
<1>7. \/ Begins(c, IdleCli)
      \/ Begins(c, Saving(cmd, Edit(cmd, conf), next))
  BY <1>1, <1>2, <1>5, Zenon
<1> QED BY <1>6, <1>7, IdleCarries, Begin

LEMMA UseKeeps ==
    ASSUME ClusterInv, NEW c \in Clis, ClusterUse(c)
    PROVE  ClusterInv'
<1>1. PICK e, m, conf :
        /\ conf \in Contribute(LoadOrDefault, e, world[e], m)
        /\ Begins(c, Saving("use", conf, "idle"))
  BY DEF ClusterUse
<1>2. HasCluster(conf)
  BY <1>1, ReadIs, ContributeKeeps
<1> QED BY <1>1, <1>2, SavingCarries, Begin

LEMMA StartKeeps ==
    ASSUME ClusterInv, NEW c \in Clis, StartReads(c)
    PROVE  ClusterInv'
<1>1. PICK cmd :
        Begins(c, [IdleCli EXCEPT !.cmd = cmd, !.pc = "verify", !.conf = LoadOrDefault])
  BY DEF StartReads
<1>2. PICK conf : conf = LoadOrDefault
  OBVIOUS
<1>3. HasCluster(conf)
  BY <1>2, ReadIs
<1>4. PICK r : r = [IdleCli EXCEPT !.cmd = cmd, !.pc = "verify", !.conf = conf]
  OBVIOUS
<1>5. DOMAIN r = {"cmd", "pc", "next", "conf", "found"} /\ r.conf = conf
  BY <1>4, IdleIs, ZenonT(60)
<1>6. Carries(r)
  BY <1>3, <1>5 DEF Carries
<1>7. Begins(c, r)
  BY <1>1, <1>2, <1>4, Zenon
<1> QED BY <1>6, <1>7, Begin

LEMMA InstallKeeps ==
    ASSUME ClusterInv, NEW c \in Clis, InstallReads(c)
    PROVE  ClusterInv'
<1>1. PICK conf, s, r :
        /\ conf = LoadOrDefault
        /\ s = Saving("install", conf, "menu")
        /\ r = [s EXCEPT !.found = world]
  OBVIOUS
<1>2. Begins(c, r)
  BY <1>1, Zenon DEF InstallReads
<1>3. HasCluster(conf)
  BY <1>1, ReadIs
<1>4. DOMAIN s = {"cmd", "pc", "next", "conf", "found"} /\ s.conf = conf
  BY <1>1, SavingIs
<1>5. DOMAIN r = {"cmd", "pc", "next", "conf", "found"} /\ r.conf = conf
  BY <1>1, <1>4, ZenonT(60)
<1> QED BY <1>2, <1>3, <1>5, Begin DEF Carries

\* What the record of a running command holds.
LEMMA HoldsCluster ==
    ASSUME ClusterInv, NEW c \in Clis, cli[c].pc # "idle"
    PROVE  /\ DOMAIN cli[c] = {"cmd", "pc", "next", "conf", "found"}
           /\ HasCluster(cli[c].conf)
  BY DEF ClusterInv

LEMMA VerifyKeeps ==
    ASSUME ClusterInv, NEW c \in Clis, Verify(c)
    PROVE  ClusterInv'
<1>1. PICK me, conf : me = cli[c] /\ conf = cli[c].conf
  OBVIOUS
<1>2. me.pc = "verify"
  BY <1>1 DEF Verify
<1>3. DOMAIN me = {"cmd", "pc", "next", "conf", "found"} /\ HasCluster(conf)
  BY <1>1, <1>2, HoldsCluster
<1>4. PICK found, seen : /\ found = IF Interactive(me.cmd) THEN me.found ELSE world
                         /\ seen = [me EXCEPT !.pc = "offer", !.found = found]
  OBVIOUS
<1>5. DOMAIN seen = {"cmd", "pc", "next", "conf", "found"} /\ seen.conf = conf
  BY <1>1, <1>3, <1>4, ZenonT(60)
<1>6. \/ CliGoesOn(c, seen)
      \/ CliGoesOn(c, Saving(me.cmd, conf, "idle"))
      \/ \E k, x : /\ x \in ChangeMenu(conf, k) \cup UnreachableMenu(conf, k)
                    /\ CliGoesOn(c, [seen EXCEPT !.conf = x])
  BY <1>1, <1>4 DEF Verify
<1>7. CASE CliGoesOn(c, seen)
  BY <1>3, <1>5, <1>7, GoesOn DEF Carries
<1>8. CASE CliGoesOn(c, Saving(me.cmd, conf, "idle"))
  BY <1>3, <1>8, SavingCarries, GoesOn
<1>9. ASSUME NEW k, NEW x \in ChangeMenu(conf, k) \cup UnreachableMenu(conf, k),
              CliGoesOn(c, [seen EXCEPT !.conf = x])
       PROVE  ClusterInv'
  <2>1. PICK r : r = [seen EXCEPT !.conf = x]
    OBVIOUS
  <2>2. DOMAIN r = {"cmd", "pc", "next", "conf", "found"} /\ r.conf = x
    BY <1>5, <2>1, ZenonT(60)
  <2>3. \/ x \in {conf, Forget(conf), Decline(conf)}
        \/ \E e : x \in Adopt(conf, e, world)
    BY <1>9 DEF ChangeMenu, UnreachableMenu
  <2>4. HasCluster(x)
    BY <1>3, <2>3, ForgetKeeps, AdoptKeeps
  <2>5. Carries(r)
    BY <2>2, <2>4 DEF Carries
  <2> QED BY <1>9, <2>1, <2>5, GoesOn
<1> QED BY <1>6, <1>7, <1>8, <1>9

LEMMA OfferKeeps ==
    ASSUME ClusterInv, NEW c \in Clis, Offer(c)
    PROVE  ClusterInv'
<1>1. cli[c].pc = "offer"
  BY DEF Offer, CliGoesOn
<1>2. PICK ready, next : /\ ready = (cli[c].cmd # "startFails")
                         /\ next = IF ready THEN "launch" ELSE "idle"
  OBVIOUS
<1>3. PICK conf \in Offers(cli[c].conf, cli[c].cmd, world) :
        CliGoesOn(c, [Saving(cli[c].cmd,
                                       [conf EXCEPT !.connected = ready, !.paused = ~ready], next)
                             EXCEPT !.found = IF Interactive(cli[c].cmd) \/ conf = cli[c].conf
                                              THEN cli[c].found ELSE world])
  BY <1>2 DEF Offer
<1>4. PICK done, s, found, r :
        /\ done = [conf EXCEPT !.connected = ready, !.paused = ~ready]
        /\ s = Saving(cli[c].cmd, done, next)
        /\ found = IF Interactive(cli[c].cmd) \/ conf = cli[c].conf
                   THEN cli[c].found ELSE world
        /\ r = [s EXCEPT !.found = found]
  OBVIOUS
<1>5. HasCluster(done)
  <2>1. HasCluster(conf)
    BY <1>1, <1>3, HoldsCluster, OffersKeep
  <2> QED BY <1>4, <2>1, Zenon DEF HasCluster
<1>6. DOMAIN s = {"cmd", "pc", "next", "conf", "found"} /\ s.conf = done
  BY <1>4, SavingIs
<1>7. DOMAIN r = {"cmd", "pc", "next", "conf", "found"} /\ r.conf = done
  BY <1>4, <1>6, ZenonT(60)
<1>8. Carries(r)
  BY <1>1, <1>5, <1>7 DEF Carries
<1>9. CliGoesOn(c, r)
  BY <1>3, <1>4, Zenon
<1> QED BY <1>8, <1>9, GoesOn

LEMMA MenuKeeps ==
    ASSUME ClusterInv, NEW c \in Clis, InstallMenu(c)
    PROVE  ClusterInv'
<1>1. cli[c].pc = "menu"
  BY DEF InstallMenu, CliGoesOn
<1>2. PICK conf : /\ \/ conf \in Offers(cli[c].conf, "install", cli[c].found)
                     \/ \E e : conf \in Adopt(cli[c].conf, e, cli[c].found)
                  /\ CliGoesOn(c, Saving("install", conf, "idle"))
  BY DEF InstallMenu
<1>3. HasCluster(conf)
  BY <1>1, <1>2, HoldsCluster, OffersKeep, AdoptKeeps
<1> QED BY <1>1, <1>2, <1>3, SavingCarries, GoesOn

LEMMA AbortKeeps ==
    ASSUME ClusterInv, NEW c \in Clis, StartAborts(c)
    PROVE  ClusterInv'
  BY IdleCarries, GoesOn DEF StartAborts

\* The two halves of a write, by a command or by the agent's stop command.
LEMMA WriteKeeps ==
    ASSUME ClusterInv, NEW c \in Clis, CliTruncate(c) \/ CliWrite(c)
    PROVE  ClusterInv'
<1>1. CASE CliTruncate(c)
  <2>1. /\ cli[c].pc = "truncate" /\ UNCHANGED <<file, agent>>
        /\ cli' = [cli EXCEPT ![c].pc = "write"]
    BY <1>1 DEF CliTruncate
  <2>2. PICK r : r = [cli[c] EXCEPT !.pc = "write"]
    OBVIOUS
  <2>3. cli' = [cli EXCEPT ![c] = r]
    BY <2>1, <2>2
  <2>4. DOMAIN r = {"cmd", "pc", "next", "conf", "found"} /\ r.conf = cli[c].conf
    BY <2>1, <2>2, HoldsCluster, ZenonT(60)
  <2>5. Carries(r)
    BY <2>1, <2>4, HoldsCluster DEF Carries
  <2>6. /\ DOMAIN agent' = {"pc", "conf"}
        /\ HasCluster(file') /\ HasCluster(agent'.conf)
    BY <2>1 DEF ClusterInv
  <2> QED BY <2>3, <2>5, <2>6, CommandMoves
<1>2. CASE CliWrite(c)
  <2>1. /\ cli[c].pc = "write" /\ file' = cli[c].conf /\ UNCHANGED agent
        /\ cli' = [cli EXCEPT ![c] = IF @.next = "idle" THEN IdleCli
                                     ELSE [@ EXCEPT !.pc = cli[c].next]]
    BY <1>2 DEF CliWrite
  <2>2. PICK s : s = [cli[c] EXCEPT !.pc = cli[c].next]
    OBVIOUS
  <2>3. DOMAIN s = {"cmd", "pc", "next", "conf", "found"} /\ s.conf = cli[c].conf
    BY <2>1, <2>2, HoldsCluster, ZenonT(60)
  <2>4. Carries(s)
    BY <2>1, <2>3, HoldsCluster DEF Carries
  <2>5. PICK r : r = IF cli[c].next = "idle" THEN IdleCli ELSE s
    OBVIOUS
  <2>6. cli' = [cli EXCEPT ![c] = r]
    BY <2>1, <2>2, <2>5
  <2>7. Carries(r)
    BY <2>4, <2>5, IdleCarries
  <2>8. /\ DOMAIN agent' = {"pc", "conf"}
        /\ HasCluster(file') /\ HasCluster(agent'.conf)
    BY <2>1, HoldsCluster DEF ClusterInv
  <2> QED BY <2>6, <2>7, <2>8, CommandMoves
<1> QED BY <1>1, <1>2

LEMMA StopKeeps ==
    ASSUME ClusterInv, NEW c \in Clis,
           StopRead(c) \/ StopTruncate(c) \/ StopWrite(c)
    PROVE  ClusterInv'
<1>1. UNCHANGED agent /\ cli[c].pc # "idle"
  BY DEF StopRead, StopTruncate, StopWrite
<1>2. PICK x : x = Edit("exit", AsAgentConfig(file))
  OBVIOUS
<1>3. HasCluster(x)
  <2>1. PICK y : y = AsAgentConfig(file)
    OBVIOUS
  <2>2. x = [y EXCEPT !.connected = FALSE, !.paused = TRUE]
    BY <1>2, <2>1 DEF Edit
  <2>3. HasCluster(y)
    BY <2>1, Zenon DEF ClusterInv, HasCluster, AsAgentConfig
  <2> QED BY <2>2, <2>3, Zenon DEF HasCluster
<1>4. PICK a, b, s, w : /\ a = [cli[c] EXCEPT !.pc = "kill"]
                        /\ b = [cli[c] EXCEPT !.pc = "stopTruncate", !.conf = x]
                        /\ s = [cli[c] EXCEPT !.pc = "stopWrite"]
                        /\ w = IF torn THEN a ELSE b
  OBVIOUS
<1>5. /\ DOMAIN a = {"cmd", "pc", "next", "conf", "found"} /\ a.conf = cli[c].conf
      /\ DOMAIN b = {"cmd", "pc", "next", "conf", "found"} /\ b.conf = x
      /\ DOMAIN s = {"cmd", "pc", "next", "conf", "found"} /\ s.conf = cli[c].conf
  BY <1>1, <1>4, HoldsCluster, ZenonT(60)
<1>6. Carries(a) /\ Carries(b) /\ Carries(s)
  BY <1>1, <1>3, <1>5, HoldsCluster DEF Carries
<1>7. /\ DOMAIN agent' = {"pc", "conf"}
      /\ HasCluster(agent'.conf)
  BY <1>1 DEF ClusterInv
<1>8. CASE StopRead(c)
  <2>1. UNCHANGED file
    BY <1>8 DEF StopRead
  <2>2. cli' = [cli EXCEPT ![c] = w]
    BY <1>2, <1>4, <1>8 DEF StopRead
  <2>3. Carries(w) /\ HasCluster(file')
    BY <1>1, <1>4, <1>6, <2>1 DEF ClusterInv
  <2> QED BY <1>7, <2>2, <2>3, CommandMoves
<1>9. CASE StopTruncate(c)
  <2>1. UNCHANGED file /\ cli' = [cli EXCEPT ![c] = s]
    BY <1>4, <1>9 DEF StopTruncate
  <2>2. HasCluster(file')
    BY <1>1, <2>1 DEF ClusterInv
  <2> QED BY <1>6, <1>7, <2>1, <2>2, CommandMoves
<1>10. CASE StopWrite(c)
  <2>1. file' = cli[c].conf /\ cli' = [cli EXCEPT ![c] = a]
    BY <1>4, <1>10 DEF StopWrite
  <2>2. HasCluster(file')
    BY <1>1, <2>1, HoldsCluster
  <2> QED BY <1>6, <1>7, <2>1, <2>2, CommandMoves
<1> QED BY <1>8, <1>9, <1>10

\* What ends the agent or starts another.
LEMMA LaunchKeeps ==
    ASSUME ClusterInv, NEW c \in Clis, StopKill(c) \/ Launch(c)
    PROVE  ClusterInv'
<1>1. UNCHANGED file /\ cli' = [cli EXCEPT ![c] = IdleCli]
  BY DEF StopKill, Launch
<1>2. PICK conf : conf = AsAgentConfig(file)
  OBVIOUS
<1>3. HasCluster(conf)
  BY <1>2, Zenon DEF ClusterInv, HasCluster, AsAgentConfig
<1>4. \/ agent' = [agent EXCEPT !.pc = "off"]
      \/ \E p : agent' = [pc |-> p, conf |-> conf]
  BY <1>2 DEF StopKill, Launch
<1>5. DOMAIN agent' = {"pc", "conf"} /\ (agent'.conf = agent.conf \/ agent'.conf = conf)
  <2>1. DOMAIN agent = {"pc", "conf"}
    BY DEF ClusterInv
  <2>2. CASE agent' = [agent EXCEPT !.pc = "off"]
    BY <2>1, <2>2, ZenonT(60)
  <2>3. CASE \E p : agent' = [pc |-> p, conf |-> conf]
    BY <2>3
  <2> QED BY <1>4, <2>2, <2>3
<1>6. /\ HasCluster(file') /\ HasCluster(agent'.conf)
  BY <1>1, <1>3, <1>5 DEF ClusterInv
<1> QED BY <1>1, <1>5, <1>6, IdleCarries, CommandMoves

\* The agent's own steps leave the commands alone.
LEMMA AgentMoves ==
    ASSUME ClusterInv, UNCHANGED cli, DOMAIN agent' = {"pc", "conf"},
           HasCluster(file') /\ HasCluster(agent'.conf)
    PROVE  ClusterInv'
  BY DEF ClusterInv

LEMMA LoadKeeps ==
    ASSUME ClusterInv, AgentLoad \/ AgentDrain
    PROVE  ClusterInv'
<1>1. UNCHANGED <<file, cli>>
  BY DEF AgentLoad, AgentDrain
<1>2. PICK conf, of, off, drained :
        /\ conf = AsAgentConfig(file)
        /\ of = {[k EXCEPT !.tools = TRUE] : k \in agent.conf.cluster}
        /\ off = [agent EXCEPT !.pc = "off"]
        /\ drained = [agent.conf EXCEPT !.cluster = of]
  OBVIOUS
<1>3. DOMAIN agent = {"pc", "conf"}
  BY DEF ClusterInv
<1>4. /\ HasCluster(conf) /\ HasCluster(drained)
      /\ DOMAIN off = {"pc", "conf"} /\ off.conf = agent.conf
  <2>1. HasCluster(file) /\ HasCluster(agent.conf)
    BY DEF ClusterInv
  <2>2. HasCluster(conf)
    BY <1>2, <2>1, Zenon DEF HasCluster, AsAgentConfig
  <2>3. HasCluster(drained)
    BY <1>2, <2>1, Zenon DEF HasCluster
  <2>4. DOMAIN off = {"pc", "conf"} /\ off.conf = agent.conf
    BY <1>2, <1>3, ZenonT(60)
  <2> QED BY <2>2, <2>3, <2>4
<1>5. \/ agent' = off \/ agent' = [pc |-> "loaded", conf |-> conf]
      \/ agent' = [pc |-> "saving", conf |-> drained]
  BY <1>2 DEF AgentLoad, AgentDrain
<1>6. DOMAIN agent' = {"pc", "conf"} /\ agent'.conf \in {agent.conf, conf, drained}
  BY <1>4, <1>5
<1>7. HasCluster(file') /\ HasCluster(agent'.conf)
  BY <1>1, <1>4, <1>6 DEF ClusterInv
<1> QED BY <1>1, <1>6, <1>7, AgentMoves

LEMMA LoopKeeps ==
    ASSUME ClusterInv, AgentSkips \/ AgentWrite \/ AgentCheck
    PROVE  ClusterInv'
<1>1. UNCHANGED cli
  BY DEF AgentSkips, AgentWrite, AgentCheck
<1>2. PICK p : agent' = [agent EXCEPT !.pc = p]
  <2>1. CASE AgentSkips
    BY <2>1 DEF AgentSkips
  <2>2. CASE AgentWrite
    BY <2>2 DEF AgentWrite
  <2>3. CASE AgentCheck
    BY <2>3 DEF AgentCheck
  <2> QED BY <2>1, <2>2, <2>3
<1>3. DOMAIN agent' = {"pc", "conf"} /\ agent'.conf = agent.conf
  <2>1. DOMAIN agent = {"pc", "conf"}
    BY DEF ClusterInv
  <2> QED BY <1>2, <2>1, ZenonT(60)
<1>4. file' = file \/ file' = agent.conf
  BY DEF AgentSkips, AgentWrite, AgentCheck
<1>5. HasCluster(file') /\ HasCluster(agent'.conf)
  BY <1>3, <1>4 DEF ClusterInv
<1> QED BY <1>1, <1>3, <1>5, AgentMoves

LEMMA ClusterStep ==
    ASSUME ClusterInv, [FileNext]_(fileVars)
    PROVE  ClusterInv'
<1>1. CASE AgentStep
  BY <1>1, LoadKeeps, LoopKeeps DEF AgentStep
<1>2. CASE ProbeStarts \/ ProbeAnswers \/ WorldChanges \/ UNCHANGED fileVars
  <2>1. UNCHANGED <<file, cli, agent>>
    BY <1>2 DEF ProbeStarts, ProbeAnswers, WorldChanges, fileVars
  <2> QED BY <2>1 DEF ClusterInv
<1>3. ASSUME NEW c \in Clis, CliStep(c) PROVE ClusterInv'
  BY <1>3, ReadKeeps, UseKeeps, StartKeeps, InstallKeeps, VerifyKeeps, OfferKeeps, AbortKeeps,
     MenuKeeps, WriteKeeps, StopKeeps, LaunchKeeps DEF CliStep
<1> QED BY <1>1, <1>2, <1>3 DEF FileNext

LEMMA ClusterInit ==
    ASSUME FileInit PROVE ClusterInv
<1>1. PICK held : file = [connected |-> TRUE, paused |-> FALSE, onboarded |-> FALSE,
                          declined |-> FALSE, cluster |-> held]
  BY DEF FileInit
<1>2. HasCluster(file)
  BY <1>1 DEF HasCluster
<1>3. /\ cli = [c \in Clis |-> IdleCli] /\ agent = [pc |-> "sleep", conf |-> file]
  BY DEF FileInit
<1> QED BY <1>2, <1>3, IdleIs DEF ClusterInv

LEMMA LeastExists ==
    ASSUME NEW T, T \subseteq Nat, T # {}
    PROVE  \E n \in T : \A m \in T : n <= m
<1>1. PICK R : R = OpToRel(<, Nat)
  OBVIOUS
<1>2. IsWellFoundedOn(R, Nat)
  BY <1>1, NatLessThanWellFounded
<1>3. PICK n \in T : \A m \in T : ~ (<<m, n>> \in R)
  BY <1>2, WFMin
<1>4. \A m \in Nat, k \in Nat : m < k => <<m, k>> \in R
  BY <1>1 DEF OpToRel
<1>5. \A m \in T : ~ (m < n)
  BY <1>3, <1>4
<1> QED BY <1>5

\* Some number of a finite set is the greatest: the one with the fewest above it.
LEMMA GreatestIsIn ==
    ASSUME NEW S, S \subseteq Nat, IsFiniteSet(S), S # {}
    PROVE  Max(S) \in S
<1> DEFINE Above(x) == {y \in S : y > x}
           Counts == {Cardinality(Above(x)) : x \in S}
<1>1. \A x \in S : IsFiniteSet(Above(x)) /\ Cardinality(Above(x)) \in Nat
  BY FS_Subset, FS_CardinalityType
<1>2. PICK x \in S : \A y \in S : Cardinality(Above(x)) <= Cardinality(Above(y))
  <2>1. Counts \subseteq Nat /\ Counts # {}
    BY <1>1
  <2>2. PICK n \in Counts : \A m \in Counts : n <= m
    BY <2>1, LeastExists
  <2>3. PICK x \in S : n = Cardinality(Above(x))
    BY <2>2
  <2>4. \A y \in S : Cardinality(Above(y)) \in Counts
    OBVIOUS
  <2> QED BY <2>2, <2>3, <2>4
<1>3. ASSUME NEW y \in S, y > x PROVE FALSE
  <2>1. Above(y) \in SUBSET Above(x) /\ y \in Above(x) /\ y \notin Above(y)
    <3>1. ASSUME NEW z \in S, z > y PROVE z > x
      BY <1>3, <3>1
    <3>2. ~(y > y)
      OBVIOUS
    <3> QED BY <1>3, <3>1, <3>2
  <2>2. /\ Cardinality(Above(y)) <= Cardinality(Above(x))
        /\ Cardinality(Above(x)) = Cardinality(Above(y)) => Above(x) = Above(y)
    BY <1>1, <2>1, FS_Subset
  <2>3. Cardinality(Above(x)) = Cardinality(Above(y))
    BY <1>1, <1>2, <2>2
  <2> QED BY <2>1, <2>2, <2>3
<1>4. \A y \in S : x >= y
  BY <1>3
<1> HIDE DEF Above, Counts
<1> QED BY <1>4 DEF Max

\* The models of an endpoint, the largest of which is recorded.
LEMMA PrimaryIsServed ==
    ASSUME NEW s, s.models \subseteq Models, s.models # {}
    PROVE  PrimaryModel(s) \in s.models
<1>1. IsFiniteSet(s.models) /\ s.models \subseteq Nat
  BY ConfigAssumption, FS_Subset
<1>2. Max(s.models) \in s.models
  BY <1>1, GreatestIsIn
<1> QED BY <1>2 DEF PrimaryModel

\* From the verification on, a start without a terminal holds a cluster that it
\* saw serving the recorded model.
Checked(r) ==
    /\ r.next \in {"idle", "menu", "stopRead", "launch"}
    /\ /\ ~Interactive(r.cmd)
       /\ r.pc \in {"offer", "launch"} \/ (r.pc \in {"truncate", "write"} /\ r.next = "launch")
       => \A k \in r.conf.cluster : k.model \in r.found[k.url].models

ScriptInv ==
    /\ DOMAIN world = Endpoints /\ \A e \in Endpoints : world[e].models \subseteq Models
    /\ \A c \in Clis : Checked(cli[c])

LEMMA ScriptMoves ==
    ASSUME ClusterInv, ScriptInv, NEW c \in Clis, NEW r, cli' = [cli EXCEPT ![c] = r], Checked(r),
           UNCHANGED world
    PROVE  ScriptInv'
<1>1. cli'[c] = r /\ \A d \in Clis \ {c} : cli'[d] = cli[d]
  BY DEF ClusterInv
<1> QED BY <1>1 DEF ScriptInv, Checked

LEMMA IdleIsChecked == Checked(IdleCli)
  BY DEF Checked, IdleCli

LEMMA SavingIsChecked ==
    ASSUME NEW cmd, NEW conf, NEW next \in {"idle", "menu", "stopRead"}
    PROVE  Checked(Saving(cmd, conf, next))
  BY SavingIs DEF Checked

\* The steps after which nothing is checked, or what was is what it was.
LEMMA ScriptBegins ==
    ASSUME ClusterInv, ScriptInv, NEW c \in Clis,
           CliRead(c) \/ ClusterUse(c) \/ StartReads(c) \/ InstallReads(c)
    PROVE  ScriptInv'
<1>1. ASSUME NEW r, Begins(c, r), Checked(r) PROVE ScriptInv'
  BY <1>1, ScriptMoves DEF Begins
<1>2. CASE CliRead(c)
  <2>1. PICK cmd \in {"pause", "exit", "onboard", "forget"} :
          Begins(c, IF cmd = "pause" /\ ~LoadOrDefault.connected THEN IdleCli
                         ELSE Saving(cmd, Edit(cmd, LoadOrDefault),
                                          IF cmd = "exit" THEN "stopRead" ELSE "idle"))
    BY <1>2 DEF CliRead
  <2>2. PICK next \in {"stopRead", "idle"} : next = IF cmd = "exit" THEN "stopRead" ELSE "idle"
    OBVIOUS
  <2>3. Begins(c, IdleCli) \/ Begins(c, Saving(cmd, Edit(cmd, LoadOrDefault), next))
    BY <2>1, <2>2, Zenon
  <2> QED BY <1>1, <2>3, IdleIsChecked, SavingIsChecked
<1>3. CASE ClusterUse(c)
  BY <1>1, <1>3, SavingIsChecked DEF ClusterUse
<1>4. CASE StartReads(c)
  <2>1. PICK cmd :
          Begins(c, [IdleCli EXCEPT !.cmd = cmd, !.pc = "verify", !.conf = LoadOrDefault])
    BY <1>4 DEF StartReads
  <2>2. PICK conf : conf = LoadOrDefault
    OBVIOUS
  <2>3. PICK r : r = [IdleCli EXCEPT !.cmd = cmd, !.pc = "verify", !.conf = conf]
    OBVIOUS
  <2>4. r.pc = "verify" /\ r.next = "idle"
    BY <2>3, IdleIs, ZenonT(60)
  <2>5. Begins(c, r)
    BY <2>1, <2>2, <2>3, Zenon
  <2> QED BY <1>1, <2>4, <2>5 DEF Checked
<1>5. CASE InstallReads(c)
  <2>1. PICK conf, s, r :
          /\ conf = LoadOrDefault
          /\ s = Saving("install", conf, "menu")
          /\ r = [s EXCEPT !.found = world]
    OBVIOUS
  <2>2. s.pc = "truncate" /\ s.next = "menu" /\ DOMAIN s = {"cmd", "pc", "next", "conf", "found"}
    BY <2>1, SavingIs
  <2>3. r.pc = "truncate" /\ r.next = "menu"
    BY <2>1, <2>2, ZenonT(60)
  <2>4. Begins(c, r)
    BY <1>5, <2>1, Zenon DEF InstallReads
  <2> QED BY <1>1, <2>3, <2>4 DEF Checked
<1> QED BY <1>2, <1>3, <1>4, <1>5

LEMMA ScriptVerifies ==
    ASSUME ClusterInv, ScriptInv, NEW c \in Clis, Verify(c)
    PROVE  ScriptInv'
<1>1. ASSUME NEW r, CliGoesOn(c, r), Checked(r) PROVE ScriptInv'
  BY <1>1, ScriptMoves DEF CliGoesOn
<1>2. PICK me, conf : me = cli[c] /\ conf = me.conf
  OBVIOUS
<1>3. me.pc = "verify"
  BY <1>2 DEF Verify
<1>4. /\ DOMAIN me = {"cmd", "pc", "next", "conf", "found"}
      /\ me.next \in {"idle", "menu", "stopRead", "launch"}
  BY <1>2, <1>3, HoldsCluster DEF ScriptInv, Checked
<1>5. PICK found, seen : /\ found = IF Interactive(me.cmd) THEN me.found ELSE world
                         /\ seen = [me EXCEPT !.pc = "offer", !.found = found]
  OBVIOUS
<1>6. /\ DOMAIN seen = {"cmd", "pc", "next", "conf", "found"} /\ seen.conf = conf
      /\ seen.cmd = me.cmd /\ seen.found = found /\ seen.next = me.next
  BY <1>2, <1>4, <1>5, ZenonT(60)
<1>7. \/ (\A k \in conf.cluster : Serves(k)) /\ CliGoesOn(c, seen)
      \/ CliGoesOn(c, Saving(me.cmd, conf, "idle"))
      \/ Interactive(me.cmd) /\ \E x : CliGoesOn(c, [seen EXCEPT !.conf = x])
  BY <1>2, <1>5 DEF Verify
<1>8. CASE (\A k \in conf.cluster : Serves(k)) /\ CliGoesOn(c, seen)
  <2>1. ~Interactive(me.cmd) => \A k \in conf.cluster : k.model \in found[k.url].models
    BY <1>5, <1>8 DEF Serves
  <2> QED BY <1>1, <1>4, <1>6, <1>8, <2>1 DEF Checked
<1>9. CASE CliGoesOn(c, Saving(me.cmd, conf, "idle"))
  BY <1>1, <1>9, SavingIsChecked
<1>10. ASSUME Interactive(me.cmd), NEW x, CliGoesOn(c, [seen EXCEPT !.conf = x]) PROVE ScriptInv'
  <2>1. PICK r : r = [seen EXCEPT !.conf = x]
    OBVIOUS
  <2>2. r.cmd = me.cmd /\ r.next = me.next
    BY <1>6, <2>1, ZenonT(60)
  <2> QED BY <1>1, <1>4, <1>10, <2>1, <2>2 DEF Checked
<1> QED BY <1>7, <1>8, <1>9, <1>10

\* What a start without a terminal makes of its configuration: what it verified, no
\* cluster, or one that serves its largest model right now.
LEMMA ScriptOffers ==
    ASSUME ScriptInv, NEW conf, "cluster" \in DOMAIN conf, NEW cmd, ~Interactive(cmd),
           NEW x \in Offers(conf, cmd, world), x # conf
    PROVE  \A k \in x.cluster : k.model \in world[k.url].models
<1>1. PICK decision :
        decision = PromptDecision(Servable(world) # {}, conf.cluster # {},
                                       conf.declined, Forced(cmd), Interactive(cmd))
  OBVIOUS
<1>2. decision \in {"skip", "contribute", "decline"}
  BY <1>1 DEF PromptDecision, Forced
<1>3. x \in CASE decision = "skip" -> {conf}
              [] decision = "contribute" ->
                    UNION {Adopt(conf, e, world) : e \in Preferred(world)}
              [] decision = "decline" -> {Decline(conf)}
              [] decision = "ask" ->
                    {conf, Decline(conf)}
                      \cup UNION {Adopt(conf, e, world) : e \in Servable(world)}
  BY <1>1 DEF Offers
<1>4. x = Decline(conf) \/ \E e \in Preferred(world) : x \in Adopt(conf, e, world)
  BY <1>2, <1>3
<1>5. CASE x = Decline(conf)
  <2>1. x = [conf EXCEPT !.cluster = {}, !.declined = TRUE]
    BY <1>5, Zenon DEF Decline
  <2>2. x.cluster = {}
    BY <2>1, ZenonT(60)
  <2> QED BY <2>2
<1>6. ASSUME NEW e \in Preferred(world), x \in Adopt(conf, e, world)
      PROVE  \A k \in x.cluster : k.model \in world[k.url].models
  <2>1. e \in Endpoints /\ world[e].models # {}
    BY DEF Preferred, Servable
  <2>2. PICK m : m = PrimaryModel(world[e]) /\ m \in world[e].models
    BY <2>1, PrimaryIsServed DEF ScriptInv
  <2>3. PICK t : x = [conf EXCEPT !.cluster = {[url |-> e, model |-> m, tools |-> t]},
                                  !.declined = FALSE]
    BY <1>6, <2>2 DEF Adopt, Contribute
  <2>4. x.cluster = {[url |-> e, model |-> m, tools |-> t]}
    BY <2>3, ZenonT(60)
  <2> QED BY <2>2, <2>4
<1> QED BY <1>4, <1>5, <1>6

LEMMA ScriptGetsOffer ==
    ASSUME ClusterInv, ScriptInv, NEW c \in Clis, Offer(c)
    PROVE  ScriptInv'
<1>1. cli[c].pc = "offer" /\ UNCHANGED world
  BY DEF Offer, CliGoesOn
<1>2. PICK ready, next : /\ ready = (cli[c].cmd # "startFails")
                         /\ next = IF ready THEN "launch" ELSE "idle"
  OBVIOUS
<1>3. PICK conf \in Offers(cli[c].conf, cli[c].cmd, world) :
        CliGoesOn(c, [Saving(cli[c].cmd,
                                       [conf EXCEPT !.connected = ready, !.paused = ~ready], next)
                             EXCEPT !.found = IF Interactive(cli[c].cmd) \/ conf = cli[c].conf
                                              THEN cli[c].found ELSE world])
  BY <1>2 DEF Offer
<1>4. PICK done, s, found, r :
        /\ done = [conf EXCEPT !.connected = ready, !.paused = ~ready]
        /\ s = Saving(cli[c].cmd, done, next)
        /\ found = IF Interactive(cli[c].cmd) \/ conf = cli[c].conf
                   THEN cli[c].found ELSE world
        /\ r = [s EXCEPT !.found = found]
  OBVIOUS
<1>5. "cluster" \in DOMAIN cli[c].conf /\ "cluster" \in DOMAIN conf
  BY <1>1, <1>3, HoldsCluster, OffersKeep DEF HasCluster
<1>6. done.cluster = conf.cluster
  BY <1>4, <1>5, ZenonT(60)
<1>7. /\ DOMAIN s = {"cmd", "pc", "next", "conf", "found"} /\ s.conf = done
      /\ s.cmd = cli[c].cmd /\ s.next = next
  BY <1>4, SavingIs
<1>8. r.conf = done /\ r.cmd = cli[c].cmd /\ r.next = next /\ r.found = found
  BY <1>4, <1>7, ZenonT(60)
<1>9. ASSUME ~Interactive(cli[c].cmd)
      PROVE  \A k \in conf.cluster : k.model \in found[k.url].models
  <2>1. CASE conf = cli[c].conf
    BY <1>1, <1>4, <1>9, <2>1 DEF ScriptInv, Checked
  <2>2. CASE conf # cli[c].conf
    BY <1>3, <1>4, <1>5, <1>9, <2>2, ScriptOffers
  <2> QED BY <2>1, <2>2
<1>10. Checked(r)
  <2>1. next \in {"idle", "menu", "stopRead", "launch"}
    BY <1>2
  <2> QED BY <1>6, <1>8, <1>9, <2>1 DEF Checked
<1>11. CliGoesOn(c, r)
  BY <1>3, <1>4, Zenon
<1> QED BY <1>10, <1>11, ScriptMoves DEF CliGoesOn

LEMMA ScriptGoesOn ==
    ASSUME ClusterInv, ScriptInv, NEW c \in Clis,
           StartAborts(c) \/ InstallMenu(c) \/ CliTruncate(c) \/ CliWrite(c)
           \/ StopRead(c) \/ StopTruncate(c) \/ StopWrite(c) \/ StopKill(c) \/ Launch(c)
    PROVE  ScriptInv'
<1>1. UNCHANGED world
  BY DEF StartAborts, InstallMenu, CliTruncate, CliWrite, StopRead, StopTruncate, StopWrite,
         StopKill, Launch, CliGoesOn
<1>2. ASSUME NEW r, cli' = [cli EXCEPT ![c] = r], Checked(r) PROVE ScriptInv'
  BY <1>1, <1>2, ScriptMoves
<1>3. CASE StartAborts(c) \/ StopKill(c) \/ Launch(c)
  BY <1>2, <1>3, IdleIsChecked DEF StartAborts, StopKill, Launch, CliGoesOn
<1>4. CASE InstallMenu(c)
  BY <1>2, <1>4, SavingIsChecked DEF InstallMenu, CliGoesOn
<1>5. CASE CliTruncate(c) \/ CliWrite(c) \/ StopRead(c) \/ StopTruncate(c) \/ StopWrite(c)
  <2>1. cli[c].pc # "idle"
    BY <1>5 DEF CliTruncate, CliWrite, StopRead, StopTruncate, StopWrite
  <2>2. DOMAIN cli[c] = {"cmd", "pc", "next", "conf", "found"} /\ Checked(cli[c])
    BY <2>1, HoldsCluster DEF ScriptInv
  <2>3. CASE CliTruncate(c)
    <3>1. PICK r : r = [cli[c] EXCEPT !.pc = "write"]
      OBVIOUS
    <3>2. cli' = [cli EXCEPT ![c] = r] /\ cli[c].pc = "truncate"
      BY <2>3, <3>1 DEF CliTruncate
    <3>3. /\ r.cmd = cli[c].cmd /\ r.pc = "write" /\ r.next = cli[c].next
          /\ r.conf = cli[c].conf /\ r.found = cli[c].found
      BY <2>2, <3>1, ZenonT(60)
    <3> QED BY <1>2, <2>2, <3>2, <3>3 DEF Checked
  <2>4. CASE CliWrite(c)
    <3>1. PICK s, r : /\ s = [cli[c] EXCEPT !.pc = cli[c].next]
                      /\ r = IF cli[c].next = "idle" THEN IdleCli ELSE s
      OBVIOUS
    <3>2. cli' = [cli EXCEPT ![c] = r] /\ cli[c].pc = "write"
      BY <2>4, <3>1 DEF CliWrite
    <3>3. /\ s.cmd = cli[c].cmd /\ s.pc = cli[c].next /\ s.next = cli[c].next
          /\ s.conf = cli[c].conf /\ s.found = cli[c].found
      BY <2>2, <3>1, ZenonT(60)
    <3>4. Checked(s)
      BY <2>2, <3>2, <3>3 DEF Checked
    <3> QED BY <1>2, <3>1, <3>2, <3>4, IdleIsChecked
  <2>5. CASE StopRead(c) \/ StopTruncate(c) \/ StopWrite(c)
    <3>1. PICK a, b, s, w : /\ a = [cli[c] EXCEPT !.pc = "kill"]
                            /\ b = [cli[c] EXCEPT !.pc = "stopTruncate",
                                                  !.conf = Edit("exit", AsAgentConfig(file))]
                            /\ s = [cli[c] EXCEPT !.pc = "stopWrite"]
                            /\ w = IF torn THEN a ELSE b
      OBVIOUS
    <3>2. /\ a.pc = "kill" /\ b.pc = "stopTruncate" /\ s.pc = "stopWrite"
          /\ a.next = cli[c].next /\ b.next = cli[c].next /\ s.next = cli[c].next
      BY <2>2, <3>1, ZenonT(60)
    <3>3. Checked(a) /\ Checked(b) /\ Checked(s)
      BY <2>2, <3>2 DEF Checked
    <3>4. \/ cli' = [cli EXCEPT ![c] = w] \/ cli' = [cli EXCEPT ![c] = s]
          \/ cli' = [cli EXCEPT ![c] = a]
      BY <2>5, <3>1 DEF StopRead, StopTruncate, StopWrite
    <3> QED BY <1>2, <3>1, <3>3, <3>4
  <2> QED BY <1>5, <2>3, <2>4, <2>5
<1> QED BY <1>3, <1>4, <1>5

LEMMA ScriptStep ==
    ASSUME ClusterInv, ScriptInv, [FileNext]_(fileVars)
    PROVE  ScriptInv'
<1>1. CASE UNCHANGED <<cli, world>>
  BY <1>1 DEF ScriptInv, Checked
<1>2. CASE AgentStep \/ ProbeStarts \/ ProbeAnswers \/ UNCHANGED fileVars
  BY <1>1, <1>2 DEF AgentStep, AgentLoad, AgentDrain, AgentSkips, AgentWrite, AgentCheck,
     ProbeStarts, ProbeAnswers, fileVars
<1>3. CASE WorldChanges
  <2>1. PICK e \in Endpoints, s \in Serving : world' = [world EXCEPT ![e] = s]
    BY <1>3 DEF WorldChanges
  <2>2. UNCHANGED cli /\ DOMAIN world' = Endpoints
    BY <1>3 DEF WorldChanges, ScriptInv
  <2>3. s.models \subseteq Models
    BY DEF Serving
  <2>4. ASSUME NEW x \in Endpoints PROVE world'[x].models \subseteq Models
    <3>1. world'[x] = world[x] \/ world'[x] = s
      BY <2>1
    <3> QED BY <2>3, <3>1 DEF ScriptInv
  <2> QED BY <2>2, <2>4 DEF ScriptInv, Checked
<1>4. ASSUME NEW c \in Clis, CliStep(c) PROVE ScriptInv'
  BY <1>4, ScriptBegins, ScriptVerifies, ScriptGetsOffer, ScriptGoesOn DEF CliStep
<1> QED BY <1>2, <1>3, <1>4 DEF FileNext

(* main.rs of the CLI, verify_contributed_cluster and                       *)
(* maybe_contribute_running_cluster: a start without a terminal launches    *)
(* the agent only on a cluster which this command itself saw serving the    *)
(* recorded model, whatever other commands, the agent and the endpoints do  *)
(* in the meantime.                                                         *)
THEOREM ScriptedStartsAreChecked == FileSpec => []ScriptedStartIsChecked
<1>1. FileInit => ClusterInv /\ ScriptInv
  <2>1. SUFFICES ASSUME FileInit PROVE ScriptInv
    BY ClusterInit
  <2>2. /\ cli = [c \in Clis |-> IdleCli]
        /\ world = [e \in Endpoints |-> [up |-> TRUE, models |-> Models]]
    BY <2>1 DEF FileInit
  <2> QED BY <2>2, IdleIsChecked DEF ScriptInv
<1>2. ClusterInv /\ ScriptInv /\ [FileNext]_(fileVars) => (ClusterInv /\ ScriptInv)'
  BY ClusterStep, ScriptStep
<1>3. ScriptInv => ScriptedStartIsChecked
  BY DEF ScriptInv, Checked, ScriptedStartIsChecked
<1> QED BY <1>1, <1>2, <1>3, PTL DEF FileSpec
==============================================================================
