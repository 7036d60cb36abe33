------------------------------ MODULE NodeAgent ------------------------------
(***************************************************************************)
(* The node agent process (agents/node/src/main.rs): run_agent's loop,     *)
(* process_pending_jobs with its slots, job threads and busy-heartbeat     *)
(* supervisor, the background health probe, and what the control plane and *)
(* the local state file are told.  A job thread is abstracted to its end   *)
(* (WorkerJob shows that it has one), the slot pool to the Semaphore it    *)
(* implements (SlotPool), a change of the configuration file to one step   *)
(* (ConfigFile has its races).                                             *)
(***************************************************************************)
EXTENDS Naturals, FiniteSets

CONSTANTS Jobs,         \* jobs the control plane may hand out
          Locals,       \* local API requests that share the slots
          Capacity,     \* slot_pool.capacity()
          MaxCommands,  \* bound: changes of the configuration
          MaxPlant,     \* bound: changes of the machine's condition
          MaxBoots      \* bound: starts of the process

ASSUME NodeAssumption ==
    /\ Capacity \in Nat \ {0}
    /\ {MaxCommands, MaxPlant, MaxBoots} \subseteq Nat
    /\ Jobs \cap Locals = {} /\ "claim" \notin Jobs \cup Locals

VARIABLES
    disk,      \* config.json: [connected, paused]
    plant,     \* what a health probe would find: [policy, ready]
    counts,    \* [commands, plant, boots], for the bounds
    node,      \* where the main thread is
    cfg,       \* latest_config (config in process_pending_jobs)
    snap,      \* heartbeat_snapshot: [policy, ready]
    probe,     \* background health probe: "idle", "running" or "sent"
    probed,    \* its result
    cpStatus,  \* control_plane_status: "none", "allowed", "blocked"
    phase,     \* "first" claims of a batch or "refill"
    claimCfg,  \* configuration the claims are made with
    jobs,      \* fate of each job
    handles,   \* the job threads not yet reaped
    permits,   \* holders of slots: jobs, local requests, a pending claim
    busy,      \* the busy-heartbeat supervisor runs
    saved,     \* agent state in agent-state.json, as the last heartbeat says it
    runtime,   \* the persistent runtime: "warm" (this process holds it),
               \* "left" (alive after the process that held it) or "cold"
    exit       \* how the process ended

loopVars == <<node, cfg, snap, probe, probed, cpStatus, phase, claimCfg>>
workVars == <<jobs, handles, permits, busy>>
endVars == <<runtime, exit>>
envVars == <<disk, plant, counts>>
vars == <<envVars, loopVars, workVars, saved, endVars>>

Configs == [connected : BOOLEAN, paused : BOOLEAN]

(* build_capabilities: ready_for_jobs implies the policy allows work. *)
Plants == {p \in [policy : BOOLEAN, ready : BOOLEAN] : p.ready => p.policy}

States == {"none", "ready", "busy", "paused", "stopped"}

ShouldRun(c) == c.connected /\ ~c.paused

(* resolved_state *)
ResolvedState(c) ==
    IF ~c.connected THEN "stopped" ELSE IF c.paused THEN "paused" ELSE "ready"

(* heartbeat_from_snapshot: a node that is not ready says it is paused.    *)
FromSnapshot(s, state) == IF state = "ready" /\ ~s.ready THEN "paused" ELSE state

(* build_heartbeat: any state becomes paused when the node is not ready.   *)
BuildHeartbeat(p, c) == IF p.ready THEN ResolvedState(c) ELSE "paused"

(* send_heartbeat: the admission status the control plane answers; None    *)
(* when the request failed.                                                *)
Answers == cpStatus' \in {"none", "allowed", "blocked"}

Init ==
    /\ disk \in Configs /\ plant \in Plants
    /\ counts = [commands |-> 0, plant |-> 0, boots |-> 0]
    /\ node = "off" /\ cfg = disk /\ claimCfg = disk
    /\ snap = plant /\ probe = "idle" /\ probed = plant
    /\ cpStatus = "none" /\ phase = "first"
    /\ jobs = [j \in Jobs |-> "queued"] /\ handles = {} /\ permits = {} /\ busy = FALSE
    /\ saved = "none" /\ runtime = "cold" /\ exit = "none"

Running == {j \in Jobs : jobs[j] = "running"}
------------------------------------------------------------------------------
(* The surroundings. *)

UserSets ==
    /\ counts.commands < MaxCommands
    /\ counts' = [counts EXCEPT !.commands = @ + 1]
    /\ disk' \in Configs \ {disk}
    /\ UNCHANGED <<plant, loopVars, workVars, saved, endVars>>

(* opengpu-agent stop, a process of its own: it writes the file, tells the *)
(* control plane, and stops the runtime recorded in the runtime's state    *)
(* file whether or not jobs run on it.                                     *)
StopCommand ==
    /\ counts.commands < MaxCommands
    /\ counts' = [counts EXCEPT !.commands = @ + 1]
    /\ disk' = [connected |-> FALSE, paused |-> TRUE]
    /\ saved' = BuildHeartbeat(plant, disk')
    /\ runtime' = "cold"
    /\ UNCHANGED <<plant, loopVars, workVars, exit>>

(* Battery, model and runtime health change under the node. *)
PlantChanges ==
    /\ counts.plant < MaxPlant
    /\ counts' = [counts EXCEPT !.plant = @ + 1]
    /\ plant' \in Plants \ {plant}
    /\ UNCHANGED <<disk, loopVars, workVars, saved, endVars>>

LocalTakes(r) ==
    /\ node # "off" /\ r \notin permits
    /\ Cardinality(permits) < Capacity
    /\ permits' = permits \cup {r}
    /\ UNCHANGED <<envVars, loopVars, jobs, handles, busy, saved, endVars>>

LocalReturns(r) ==
    /\ r \in permits
    /\ permits' = permits \ {r}
    /\ UNCHANGED <<envVars, loopVars, jobs, handles, busy, saved, endVars>>

(* The end of the process takes its threads with it; a job the control     *)
(* plane assigned stays assigned there.                                    *)
ThreadsDie ==
    /\ jobs' = [j \in Jobs |-> IF jobs[j] = "running" THEN "stranded" ELSE jobs[j]]
    /\ handles' = {} /\ permits' = {} /\ busy' = FALSE

(* What becomes of a runtime whose holder dies without dropping it. *)
Abandoned == IF runtime = "warm" THEN "left" ELSE runtime

(* SIGTERM of the CLI, or a crash. *)
Killed ==
    /\ node # "off"
    /\ node' = "off" /\ exit' = "killed" /\ probe' = "idle"
    /\ ThreadsDie
    /\ runtime' = Abandoned
    /\ UNCHANGED <<envVars, cfg, snap, probed, cpStatus, phase, claimCfg, saved>>

------------------------------------------------------------------------------
(* run_agent: start-up. *)

(* start_persistent_runtime, reached only when the node shall run: it takes *)
(* the place of a runtime left behind, or fails before or after stopping    *)
(* that one, and the node goes on without.                                  *)
RuntimeStarts == IF ShouldRun(disk) THEN {"warm", "cold", runtime} ELSE {runtime}

(* Registration, the first heartbeat, and straight on to the first claims  *)
(* unless the control plane blocks the node: then what was started is       *)
(* dropped (exit code 2).                                                   *)
Boot ==
    /\ node = "off" /\ counts.boots < MaxBoots
    /\ counts' = [counts EXCEPT !.boots = @ + 1]
    /\ cfg' = disk /\ snap' = plant /\ probe' = "idle"
    /\ saved' = BuildHeartbeat(plant, disk)
    /\ Answers
    /\ IF cpStatus' = "blocked"
       THEN node' = "off" /\ runtime' \in RuntimeStarts \ {"warm"} /\ exit' = "blocked"
       ELSE node' = "poll" /\ runtime' \in RuntimeStarts /\ exit' = "none"
    /\ UNCHANGED <<disk, plant, probed, phase, claimCfg, workVars>>

(* The first state file cannot be written: process::exit(1), which drops   *)
(* nothing, so that a runtime just started is left behind.                 *)
BootFails ==
    /\ node = "off" /\ counts.boots < MaxBoots
    /\ counts' = [counts EXCEPT !.boots = @ + 1]
    /\ \E started \in RuntimeStarts : runtime' = IF started = "warm" THEN "left" ELSE started
    /\ exit' = "bootFailed"
    /\ UNCHANGED <<disk, plant, loopVars, workVars, saved>>

------------------------------------------------------------------------------
(* run_agent: the loop. *)

(* The process leaves its loop: the runtime it holds is dropped, whatever   *)
(* local request runs on it, and the threads of the local API end with it.  *)
Leave(why) ==
    /\ node' = "off" /\ exit' = why /\ probe' = "idle"
    /\ runtime' = IF runtime = "warm" THEN "cold" ELSE runtime
    /\ ThreadsDie

(* The configuration is gone or cannot be read. *)
ConfigUnreadable ==
    /\ node = "top"
    /\ Leave("unreadable")
    /\ UNCHANGED <<envVars, cfg, snap, probed, cpStatus, phase, claimCfg, saved>>

(* Mutant of StopOrContinue: only a disconnected node stops. *)
StopWhenDisconnected ==
    /\ node = "top"
    /\ IF disk.connected
       THEN node' = "refresh" /\ cfg' = disk
            /\ UNCHANGED <<saved, endVars, probe, workVars>>
       ELSE /\ Leave("config") /\ cfg' = disk
            /\ saved' = FromSnapshot(snap, ResolvedState(disk))
    /\ UNCHANGED <<envVars, snap, probed, cpStatus, phase, claimCfg>>

(* The reload once a second; a node that must not run says so and leaves.  *)
StopOrContinue ==
    /\ node = "top"
    /\ IF ShouldRun(disk)
       THEN node' = "refresh" /\ cfg' = disk
            /\ UNCHANGED <<saved, endVars, probe, workVars>>
       ELSE /\ Leave("config") /\ cfg' = disk
            /\ saved' = FromSnapshot(snap, ResolvedState(disk))
    /\ UNCHANGED <<envVars, snap, probed, cpStatus, phase, claimCfg>>

(* Drain health_refresh_rx; start the next probe when none is in flight.   *)
Refresh ==
    /\ node = "refresh"
    /\ node' = "beat"
    /\ snap' = IF probe = "sent" THEN probed ELSE snap
    /\ probe' \in IF probe = "running" THEN {"running"} ELSE {"idle", "running"}
    /\ UNCHANGED <<envVars, cfg, probed, cpStatus, phase, claimCfg,
                   workVars, saved, endVars>>

(* The probe thread looks at the machine and sends its report. *)
ProbeReports ==
    /\ node # "off" /\ probe = "running"
    /\ probe' = "sent" /\ probed' = plant
    /\ UNCHANGED <<envVars, node, cfg, snap, cpStatus, phase, claimCfg,
                   workVars, saved, endVars>>

(* The periodic heartbeat, when it is due. *)
Beat ==
    /\ node = "beat" /\ node' = "gate"
    /\ saved' = FromSnapshot(snap, ResolvedState(cfg))
    /\ Answers
    /\ UNCHANGED <<envVars, cfg, snap, probe, probed, phase, claimCfg, workVars, endVars>>

NoBeat ==
    /\ node = "beat" /\ node' = "gate"
    /\ UNCHANGED <<envVars, cfg, snap, probe, probed, cpStatus, phase, claimCfg,
                   workVars, saved, endVars>>

(* A state file that cannot be written ends the loop. *)
SaveFails ==
    /\ node = "beat"
    /\ Leave("io")
    /\ UNCHANGED <<envVars, cfg, snap, probed, cpStatus, phase, claimCfg, saved>>

(* control_plane_blocks_jobs: no answer does not block. *)
Gate ==
    /\ node = "gate"
    /\ node' = IF cpStatus = "blocked" THEN "top" ELSE "poll"
    /\ UNCHANGED <<envVars, cfg, snap, probe, probed, cpStatus, phase, claimCfg,
                   workVars, saved, endVars>>

------------------------------------------------------------------------------
(* process_pending_jobs. *)

(* A snapshot whose policy denies work: say "paused" and return. *)
PollDenied ==
    /\ node = "poll" /\ ~snap.policy
    /\ node' = "top" /\ saved' = "paused"
    /\ UNCHANGED <<envVars, cfg, snap, probe, probed, cpStatus, phase, claimCfg,
                   workVars, endVars>>

PollAllowed ==
    /\ node = "poll" /\ snap.policy
    /\ node' = "acquire" /\ phase' = "first" /\ claimCfg' = cfg
    /\ UNCHANGED <<envVars, cfg, snap, probe, probed, cpStatus, workVars, saved, endVars>>

MoreSlots == Cardinality(handles) < Capacity /\ Cardinality(permits) < Capacity

(* try_acquire before each claim. *)
Acquire ==
    /\ node = "acquire" /\ MoreSlots
    /\ node' = "claiming" /\ permits' = permits \cup {"claim"}
    /\ UNCHANGED <<envVars, cfg, snap, probe, probed, cpStatus, phase, claimCfg,
                   jobs, handles, busy, saved, endVars>>

(* Where the claim loop leads when it stops. *)
AfterClaims ==
    node' = IF phase = "refill" THEN "batch"
            ELSE IF handles = {} THEN "top" ELSE "announce"

AcquireRefused ==
    /\ node = "acquire" /\ ~MoreSlots
    /\ AfterClaims
    /\ UNCHANGED <<envVars, cfg, snap, probe, probed, cpStatus, phase, claimCfg,
                   workVars, saved, endVars>>

(* claim_next_job returns a job: its thread starts with the permit. *)
ClaimGot(j) ==
    /\ node = "claiming" /\ jobs[j] = "queued"
    /\ jobs' = [jobs EXCEPT ![j] = "running"]
    /\ handles' = handles \cup {j}
    /\ permits' = (permits \ {"claim"}) \cup {j}
    /\ node' = "acquire"
    /\ UNCHANGED <<envVars, cfg, snap, probe, probed, cpStatus, phase, claimCfg,
                   busy, saved, endVars>>

(* Mutant of ClaimNone: the permit of a failed claim is forgotten. *)
ClaimNoneLeaks ==
    /\ node = "claiming"
    /\ AfterClaims
    /\ \E lost \in SUBSET {j \in Jobs : jobs[j] = "queued"} :
        /\ Cardinality(lost) <= 1
        /\ jobs' = [j \in Jobs |-> IF j \in lost THEN "stranded" ELSE jobs[j]]
    /\ UNCHANGED <<envVars, cfg, snap, probe, probed, cpStatus, phase, claimCfg,
                   handles, permits, busy, saved, endVars>>

(* No job, or an error: the permit is dropped.  A job whose claim response *)
(* was lost is assigned at the control plane and known to no thread here.  *)
ClaimNone ==
    /\ node = "claiming"
    /\ permits' = permits \ {"claim"}
    /\ AfterClaims
    /\ \E lost \in SUBSET {j \in Jobs : jobs[j] = "queued"} :
        /\ Cardinality(lost) <= 1
        /\ jobs' = [j \in Jobs |-> IF j \in lost THEN "stranded" ELSE jobs[j]]
    /\ UNCHANGED <<envVars, cfg, snap, probe, probed, cpStatus, phase, claimCfg,
                   handles, busy, saved, endVars>>

(* The busy heartbeat and its supervisor. *)
Announce ==
    /\ node = "announce" /\ node' = "batch"
    /\ saved' = "busy" /\ busy' = TRUE
    /\ UNCHANGED <<envVars, cfg, snap, probe, probed, cpStatus, phase, claimCfg,
                   jobs, handles, permits, endVars>>

SupervisorBeat ==
    /\ busy /\ saved' = "busy"
    /\ UNCHANGED <<envVars, loopVars, workVars, endVars>>

(* A job's thread ends and drops its permit; a failed launch also rewrites *)
(* the state file.                                                         *)
JobEnds(j) ==
    /\ jobs[j] = "running"
    /\ jobs' = [jobs EXCEPT ![j] = "finished"]
    /\ permits' = permits \ {j}
    /\ saved' \in {saved, BuildHeartbeat(plant, cfg)}
    /\ UNCHANGED <<envVars, loopVars, handles, busy, endVars>>

(* Mutant of BatchTick: a pause cools the runtime at once. *)
BatchTickCools ==
    /\ node = "batch" /\ handles # {}
    /\ handles' = handles \cap Running
    /\ IF ShouldRun(disk)
       THEN node' = "acquire" /\ phase' = "refill" /\ claimCfg' = disk /\ runtime' = runtime
       ELSE runtime' = "cold" /\ UNCHANGED <<node, phase, claimCfg>>
    /\ UNCHANGED <<envVars, cfg, snap, probe, probed, cpStatus, jobs, permits, busy,
                   saved, exit>>

(* One second of the refill loop: reap, reload, and claim again if the     *)
(* configuration still says run.                                           *)
BatchTick ==
    /\ node = "batch" /\ handles # {}
    /\ handles' = handles \cap Running
    /\ IF ShouldRun(disk)
       THEN node' = "acquire" /\ phase' = "refill" /\ claimCfg' = disk
       ELSE UNCHANGED <<node, phase, claimCfg>>
    /\ UNCHANGED <<envVars, cfg, snap, probe, probed, cpStatus, jobs, permits, busy,
                   saved, endVars>>

(* The supervisor is stopped and joined; the closing heartbeat is built    *)
(* from the configuration the batch began with.                            *)
BatchEnd ==
    /\ node = "batch" /\ handles = {}
    /\ busy' = FALSE
    /\ saved' = FromSnapshot(snap, ResolvedState(cfg))
    /\ node' = "top"
    /\ UNCHANGED <<envVars, cfg, snap, probe, probed, cpStatus, phase, claimCfg,
                   jobs, handles, permits, endVars>>

------------------------------------------------------------------------------
MainThread ==
    \/ Boot \/ BootFails \/ StopOrContinue \/ ConfigUnreadable \/ Refresh \/ Beat \/ NoBeat
    \/ SaveFails \/ Gate \/ PollDenied \/ PollAllowed \/ Acquire \/ AcquireRefused
    \/ (\E j \in Jobs : ClaimGot(j)) \/ ClaimNone \/ Announce \/ BatchTick \/ BatchEnd

Next ==
    \/ MainThread
    \/ ProbeReports \/ SupervisorBeat
    \/ \E j \in Jobs : JobEnds(j)
    \/ \E r \in Locals : LocalTakes(r) \/ LocalReturns(r)
    \/ UserSets \/ StopCommand \/ PlantChanges \/ Killed

Spec == Init /\ [][Next]_vars

(* The main thread runs; each job thread ends (WorkerJob, SlotIsReleased). *)
FairSpec ==
    /\ Spec
    /\ WF_vars(node # "off" /\ MainThread)
    /\ \A j \in Jobs : WF_vars(JobEnds(j))

------------------------------------------------------------------------------
InBatch == node \in {"acquire", "claiming", "announce", "batch"}

TypeOK ==
    /\ disk \in Configs /\ cfg \in Configs /\ claimCfg \in Configs
    /\ plant \in Plants /\ snap \in Plants /\ probed \in Plants
    /\ node \in {"off", "top", "refresh", "beat", "gate", "poll", "acquire",
                 "claiming", "announce", "batch"}
    /\ probe \in {"idle", "running", "sent"}
    /\ cpStatus \in {"none", "allowed", "blocked"}
    /\ phase \in {"first", "refill"}
    /\ jobs \in [Jobs -> {"queued", "running", "finished", "stranded"}]
    /\ handles \subseteq Jobs
    /\ permits \subseteq Jobs \cup Locals \cup {"claim"}
    /\ busy \in BOOLEAN
    /\ saved \in States
    /\ runtime \in {"warm", "left", "cold"}
    /\ node = "off" => runtime # "warm"
    /\ exit \in {"none", "killed", "blocked", "config", "unreadable", "io",
                 "bootFailed"}

(* The slots in use are exactly the running jobs, the claim in progress    *)
(* and local requests, within the capacity: neither a failed claim nor a   *)
(* reaped or killed job leaks one.                                         *)
PermitsAreExact ==
    /\ permits \cap Jobs = Running
    /\ "claim" \in permits <=> node = "claiming"
    /\ Cardinality(permits) <= Capacity

(* Outside a batch no job runs and no supervisor beats: whenever the main  *)
(* loop decides to stop, there is no work left to abandon.                 *)
NoWorkOutsideBatch == ~InBatch => Running = {} /\ handles = {} /\ ~busy

(* The agent itself never cools its warm runtime under a job of the network *)
(* that runs on it.  The stop command may, and a local request is cooled    *)
(* under: the loop does not look at the slots when it stops.                *)
NeverCooledUnderWork ==
    [][runtime = "warm" /\ runtime' = "cold" /\ counts' = counts
         => Running = {}]_vars

(* A node that is back in its main loop no longer calls itself busy in the *)
(* state file: no busy heartbeat overtakes the closing one.                *)
BusyNotLeftBehind == node \notin {"off", "announce", "batch", "acquire", "claiming"}
                     => saved # "busy"

(* Every claim is made under a snapshot whose policy allows work and a     *)
(* control plane that did not block, also one made after waiting for the   *)
(* answers to earlier claims; and a claim made while other jobs of the     *)
(* batch run, only under a configuration read after the last of them was   *)
(* looked at and found to say run.  The first claims of a process ask for  *)
(* no such configuration: a paused node makes them too.                    *)
Claimed(j) == jobs[j] = "queued" /\ jobs'[j] = "running"

EligibleClaims ==
    [][\A j \in Jobs : Claimed(j) =>
          /\ snap.policy /\ cpStatus # "blocked"
          /\ phase = "refill" => ShouldRun(claimCfg)]_vars

(* A node that stopped because its configuration says so has written and   *)
(* sent a last heartbeat that neither says ready nor busy, whatever the    *)
(* snapshot and the round it was built in.                                 *)
StopIsReported == node = "off" /\ exit = "config" => saved \in {"paused", "stopped"}

(* A node that is paused or disconnected for good stops, after the jobs it *)
(* runs.                                                                   *)
PausedNodeStops == <>[](~ShouldRun(disk)) => <>[](node = "off")

(* docs/job-eligibility.md: a node claims only while it is connected, not  *)
(* paused, and healthy enough to run the job.                              *)
DocumentedEligibility ==
    [][\A j \in Jobs : Claimed(j) => ShouldRun(claimCfg) /\ snap.ready]_vars
==============================================================================
