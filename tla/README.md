# Formal models of MundusX / OpenGPU

TLA+ models of the parts of this repository in which several threads, processes
or machines meet: the contributor's node agent, its jobs, its local API and its
model servers, the files it shares with the command line, the model cache, the
coding-harness runner, the local agent server, the chat connector and the project
swarm. TLC checks them on small instances; TLAPS proves every safety property of
the runs, the refinement of the slot pool included, for every instance.

Paths below are relative to `src/`.

## 1. Inventory

### Components, their state and their operations

| Component | State | Operations | Met by |
|---|---|---|---|
| Slot pool (`agents/node/src/local_api.rs`) | one atomic counter, permits that decrement it when dropped | `try_acquire` (load, compare-and-exchange loop), drop, `available` | job threads, claims, local API threads |
| Local API and lease manager (`local_api.rs`, `http.rs`) and `opengpu run` (`apps/cli/src/main.rs`) | request threads, current lease, route of a run, job at the control plane | route, ask, refuse, defer, launch, answer; create, renew, release a lease; submit, poll | slot pool, control plane |
| Node agent loop (`agents/node/src/main.rs`, `run_agent`, `process_pending_jobs`) | last configuration, heartbeat snapshot, job handles, busy supervisor, persistent runtime | boot, heartbeat, background probe, admission gate, claim, spawn, reap, refill, stop | CLI (through the file), control plane, local API, job threads |
| Job relay (`agents/node/src/main.rs`, `worker.rs`) | worker subprocess, two pipe readers, delta channel, relay thread, retry counters | launch, poll with idle and total timeouts, tree kill, relay, completion report | control plane, worker's descendants |
| Job execution (`worker.rs`, `native_stream.rs`) | backends, executables, warm server, contributed cluster, last heartbeat | probe health, advertise, resolve a model, generate, hold back, fall back, attempt tools again | model cache, clusters, control plane |
| Node control (`apps/cli/src/main.rs`, `updater.rs`, `worker.rs`) | run lock, process-id file, state file of the warm runtime, installed programs | start, wait, stop, pause, disconnect, update; start, record, stop a model server | two terminals, agents, servers |
| Configuration file (`agents/node/src/storage.rs`, `apps/cli/src/config.rs`, `cluster.rs`) | `~/.opengpu/config.json`, without a lock or atomic replacement | read, edit, truncate, write | CLI processes, tray, agent and its tool probe |
| Model cache (`apps/cli/src/model.rs`) | model files, one manifest per model, active model of the configuration | add, use, import, remove, prune, choose in install and start | worker, CLI |
| Harness runner (`agents/node/src/harness_*.rs`, `harness.rs`) | claim cycle, attempt threads, budgets, private Git workspaces, idempotency keys, version numbers | register, claim, resolve, scaffold, prepare, model turn, patch, validate, evidence, publish, report | control plane, model, validation processes, user's own Git work |
| Agent core and server (`packages/agent-core`, `apps/agent-server`) | SQLite event stream per session, turn and call counters, transcript, cancellation set | chat, append, turn, approve, execute, compact, cancel | concurrent clients, tools |
| Chat connector and Hermes adapter (`apps/cli/src/chat_connector.rs`, `project_browser.rs`, `hermes_*`, tray supervision) | connection file, task threads, heartbeats, event batches, child process, project folder | connect, poll, answer a project request, run, recover, repair, accept, commit, report | chat service, Hermes, user |
| Project swarm (`apps/cli/src/project_swarm.rs`) | plan, worktrees, integration branch, journal, project | plan, work, join, pick, review, verify, publish, fall back | Hermes workers, user's own Git work |
| Orchestration, tools, skills (`packages/agent-*`) | task graph; workspace files | single calls | agent core |
| Tray windows, installers, identity helpers, TypeScript packages, schemas, scripts | keys, declarations | display, sign, parse | all |

The control plane and the chat service are not in the repository. They appear in
the modules only as the answers the code handles: accepted, refused, lost, late,
blocked, revoked, cancelled.

### What is hard

- *Concurrency without locks*: the slot pool's compare-and-exchange loop; the
  configuration file, the process-id file and the runtime's state file; two
  requests of one agent session; agents and the user on one Git branch and index.
- *Unreliable delivery*: stream deltas, completion reports, leases and verdicts
  are sent again although the first request may have arrived; versioned reports
  whose answer is lost; claims whose answer is lost.
- *Timeouts against late success*: the worker's poll loop may kill a worker that
  has just finished; a client may give up on a local request that goes on;
  descendants may survive a kill and keep a pipe open.
- *Stale reads*: a policy snapshot that outlives a batch; a configuration saved
  back after it changed; a probe of a cluster that is no longer the recorded one;
  a health report from before the models changed.
- *Crashes*: agent, runner, server, connector, CLI and updater may die between any
  two steps; what they had written stays.

PROJECT.json lists the hazards at their lines with the properties that cover them.

### What makes each component correct

- Slot pool: never more permits than slots, none lost, callers return.
- Local request: a run has at most one local execution, leases match the work
  they stand for, every run ends.
- Job relay: the reader sees a prefix of the worker's output, the terminal report
  is true and last, the slot comes back.
- Job execution: what was streamed is the answer; what is reported healthy or
  advertised is served.
- Configuration: an agent whose file says stop stops; exit takes effect; tool
  support is found out in the end.
- Node agent: permits are exact; the runtime is not cooled under jobs; a paused
  node stops.
- Node control: a stop reaches every agent; a model server left behind can still
  be stopped; an interrupted update leaves programs that go together.
- Model cache: files are whole, one model is active, configuration and manifests
  name the same one.
- Harness: only validated trees are published, publication never loses a commit,
  success means published.
- Agent session: a dense event stream with one block per request, changes only
  after a recorded approval, answers remembered.
- Chat connector: completed work is committed, an acknowledged verdict stands, a
  cancellation ends the task.
- Project swarm: only the verified integration is published, a failed swarm leaves
  the project alone, the user's work is kept, a cancelled task is reported.

## 2. Modules and the code they model

| Module | Models | Main correspondence |
|---|---|---|
| `Semaphore` | what a pool of slots promises | abstract: at most `Capacity` holders, and a refusal only when every slot is taken |
| `SlotPool` | `SlotPool`, `SlotPermit` | one action per atomic access: `Load`, `CasOk`, `CasFail` (spurious failure included), `GiveUp`, `DropPermit` |
| `LocalRequest` (extends `SlotPool`) | `run_inference`, `handle_local_inference`, `start_lease_manager`, `wait_for_job` | the CLI, a handler thread and a lease manager per attempt, the control plane's job and leases; handlers and the job loop take permits with the steps of `SlotPool` |
| `WorkerJob` | `execute_claimed_job`, `launch_worker_with_stream`, `relay_job_deltas`, `post_stream_delta`, `complete_job` | job thread, reader, relay and worker as four actors; pipe and channel are pairs of counters; late requests are a set that may still be delivered; the job of a contributed cluster has no subprocess, and its thread feeds the channel itself |
| `ConfigFile` | `storage.rs`, `config.rs`, start/install/pause/exit/onboard and the cluster commands, the agent's reload, its tool probe and its save | truncate and write are separate steps; `torn` is a truncated file; `world` is what the endpoints serve |
| `NodeAgent` | `run_agent`, `process_pending_jobs`, busy supervisor | `node` is the place of the main thread; the job threads are abstracted to their ends (`WorkerJob`), the slots to a set of holders (`SlotPool`), a configuration change to one step (`ConfigFile`) |
| `NodeControl` | `launch_node_agent`, `stop_background_node_agent`, `stop_agent`, `PersistentRuntimeHandle`, `update_installed_binaries` | CLI commands, agents and model servers as processes that share files only; a kill is a signal the agent dies of a step later |
| `ModelCache` | `model.rs`, the model prompts of install and start | a command is a sequence of steps, killed between any two of them; manifests are written one at a time |
| `JobExecution` (extends `ModelCache`) | `probe_worker_health`, `build_scheduler_capabilities`, `execute_request_with_cluster`, the stream parsers, `run_native_tool_attempts` | the worker reads the cache while the commands of `ModelCache` change it; a text is a sequence of characters tagged with their generation |
| `HarnessRunner` | the claim cycle and the attempt's thread | `at[a]` is the thread's record; a one-file workspace whose content is the tree; version numbers become "is the runner's copy current"; a validation is a process that starts, ends, is reaped, and may leave another behind |
| `AgentSession` | `handle_chat`, `AgentRunner::run`, `SqliteEventStore::append` | `req[r]` is the thread of a request; `rows` the session's table; `effects` the changes tools made; one session, since rows and cancellation are keyed by it |
| `ChatConnector` | `chat_connector.rs`, `project_browser.rs`, the adapter's side of Hermes, `supervise_chat_connector` of the tray | `task[t]` is the thread of a task with its heartbeat, batcher and child; `proj`, `dirty`, `staged` are the project folder and Git's index |
| `ProjectSwarm` | `project_swarm.rs` and its caller | a commit is the sequence of changes that leads to it; worktrees are such sequences |
| `LocalRequest_proofs`, `WorkerJob_proofs`, `NodeAgent_proofs`, `NodeControl_proofs`, `JobExecution_proofs`, `HarnessRunner_proofs`, `AgentSession_proofs`, `ChatConnector_proofs` | | theorems; `LocalRequest_proofs` is also about the pool, `JobExecution_proofs` about the cache, `NodeAgent_proofs` about the configuration file and `ChatConnector_proofs` about the swarm |
| `MC*` | | model constants for TLC |

How they compose: `LocalRequest` is built on `SlotPool`; the refinement of
`Semaphore` is proved for the pool, the composition is proved to behave as clients
of that pool, and TLC checks the refinement in the composition. `JobExecution` is
built on `ModelCache`. `ConfigFile` and `ProjectSwarm` name their specifications
`FileSpec` and `SwarmSpec`, so that a module of proofs can extend them beside
`NodeAgent` and `ChatConnector`. `NodeAgent` rests on the pool implementing
`Semaphore` and on `WorkerJob`'s `SlotIsReleased`, which justifies the fairness of
`JobEnds`; `ChatConnector` sees of `ProjectSwarm` and `AgentSession` their outcomes.

Definitions whose comment begins with "Mutant of" are deliberately wrong forms of
the definition that follows. They are used nowhere in the specifications:
replacing the original by one of them must make TLC report the property that
PROJECT.json pairs it with, which shows that the property can fail.

### Abstractions

Message texts, prompts and file contents are small sets or left out; generated
text is kept as characters only where the stream parsers are the subject. Time is
left out: a timeout is an action that is enabled while the thing it waits for has
not happened, a sleep is a step. A request to a remote service is answered,
refused or lost. A tree is one file, or the set of changed files. Retry limits keep
their numbers as constants.

## 3. Runs

Run any of them with `tlc -config MCX.cfg MCX`; `MCModelCache.cfg` and
`MCModelRemoval.cfg` go with `ModelCache` itself, and `MCSlotPool.cfg` with
`SlotPool`.

| Run | Instance | Distinct states | Shows |
|---|---|---|---|
| `local_request` | one `opengpu run` with both handlers, every routing and shape of request, one thread of the job loop, one slot, two leases | 116 thousand | permits are exact and the pool is a semaphore in the composition; one local execution; leases accounted for; `RunEnds` |
| `worker_job` | 3 deltas, batches of 2, 3 attempts, with and without a subprocess | 86 thousand | the stream is a prefix; truthful and last terminal report; the slot is released if surviving descendants end |
| `worker_orphan` | 1 delta, descendants may stay | violation | see Findings |
| `config_file` | every sequence of 2 of the 11 commands in one terminal, probing agent, 2 endpoints, one of which changes | 220 thousand | `StoppedFileStopsAgent`, `ExitHonoured`, `ToolsGetVerified` |
| `node_agent` | 2 jobs, 1 local request, 2 slots, 1 configuration change, 1 change of machine condition, 2 boots | 1.8 million | `PermitsAreExact`, `NeverCooledUnderWork`, `PausedNodeStops` |
| `harness_attempt` | 1 attempt in a new or existing project, 5 turns, 4 tool calls, 1 repair, 2 contents, a crash, a user step, stray processes | 1.9 million | `PublishedWasValidated`, `SucceededIsPublished`, `HistoryKept` |
| `agent_session` | 2 requests, one granted, one with a long transcript, a skill each, 2 turns, 2 calls, any number of cancels and crashes | 166 thousand | dense stream, no interleaving, recorded mutations, remembered answers |
| `chat_connector` | a task and project requests in one folder, one retry, one repair, one death | 575 thousand | `CompletedIsCommitted`, `MarkerMeansBaseline`, `VerdictStands`, `CancelEnds` |
| `project_swarm` | plans of up to 3 tasks (invalid ones too), 2 workers, 2 edits each, a user change | 967 thousand | `PublishedIsVerified`, `FailureLeavesProject`, `UserWorkKept`, `CancelledSwarmIsReported` |
| `model_cache` | 3 models, all 7 commands, 4 of them in a row, one fault | 2.0 million | `CachedIsWhole`, `AtMostOneActive`, `SelectionAgrees` |
| `job_execution` | 2 models, 3 backends, one model command, one change of the surroundings, generations of 2 characters | 2.6 million | `StreamMatchesAnswer`, `HealthyServes`, `AdvertisedIsServed` |
| `node_control` | 2 terminals, 2 commands, 2 agents, 2 releases, one fault | 296 thousand | `RecordIsHolders`, `OrphanIsRecorded`, `CliIsNotNewer`, `StopReaches` |

Further properties are stated in the modules and hold on the same instances, but
are plainer and not part of the listed runs: the type invariants, `NoOverCommit`,
`CallsReturn`, `RoutingHonoured`, `OfflineIsReal`, `CleanRelayIsComplete`,
`NativeDeltasTravelAlone`, `ScriptedStartIsChecked`, `StopIsReported`,
`BusyNotLeftBehind`, `NoWorkOutsideBatch`, `EligibleClaims`, `RequestsEnd`,
`CompletedHasEvidence`, `ReportComesLast`, `DeviceKept` of the connector,
`IntegrationFollowsPlan`, `AcceptedPlanIsFeasible`, `ReportedSwarmIsQuiet`,
`ActiveNotDeleted`, `ToolsReleasedWhole`; most of them are proved as well
(section 5). `MCSlotPool.cfg` checks `SlotPool` alone with four threads on two slots.

*Why the bounds suffice to reach the interesting cases.* One run of the CLI has two
handlers (the attempt and the forced retry), which with a thread of the job loop
compete for one slot; two leases let a forgotten one be followed by another. Three
deltas with batches of two make a full batch, a remainder and a batch retried
around a late request; three attempts are the code's own number. Two commands
against an agent that saves by itself let each of the commands meet the agent's and
the other's write; one change of an endpoint makes a recorded cluster stale. They
are entered in one terminal: what a second one breaks is under Findings. Two
jobs, a local request and two slots let a refill meet a full pool; the second boot
follows a kill. Five turns and four calls let the harness patch, validate, patch
again, replay a key and stop for lack of progress; one repair lets the repair budget
run out. Two requests are the least that can collide in a session, and the proofs
cover any number. One long task with a project request beside it is what the poll
loop allows at once; that it asks for no evidence keeps the instance small, and
`CompletedHasEvidence` is proved for requests that do. Plans of three tasks have a
dependency, two tasks in a wave and
a second wave; invalid plans are among the answers. Four model commands let one be
killed, another run on what it left, and two more bring the cache back in order; a
third model makes the choice of the next active one matter. Generations of two
characters with one held back contain every split of a text around a tool call. Two
terminals, two commands, two agents and one fault let a start race with a stop and
leave a model server behind.

Deadlock checking is off where a behaviour may legitimately be over (the job is
released, the attempts ended, the bounds on commands are used up), and on in
`agent_session`.

### Fairness, and why the code justifies it

- `SlotPool`, `LocalRequest`: weak fairness of a thread's own steps, strong fairness
  of a successful exchange (a retry loop on one word makes progress on the supported
  hardware). Handlers and the CLI have timeouts and a deadline on the wait for a
  job. A thread of the job loop need never ask for a slot, and the lease manager and
  the control plane are not obliged to do anything.
- `WorkerJob`: the job thread, reader and relay are scheduled. The worker has no
  fairness: the poll loop's timeouts end it. Requests have client timeouts, the one
  to a contributed cluster included (`worker.rs:2086-2087`). That a descendant which
  survives the worker, killed or not, ends is assumed only where `OrphansEnd` is true.
- `ConfigFile`: the agent's loop and a command already begun are scheduled, the
  probe's request ends by its timeout; strong fairness of the start of a probe, whose
  interval passes again and again while the loop runs. The user need not type
  anything.
- `NodeAgent`: the main thread is scheduled, and every job thread ends, which is
  `WorkerJob`'s `SlotIsReleased` and inherits its assumption on descendants. No
  fairness for the control plane, the user or the probe.
- `NodeControl`: processes are scheduled, a model server listens or exits, the wait
  for it has a deadline. Nobody has to enter a command, and no agent fails or dies by
  fairness.
- `AgentSession`: a request's thread is scheduled; the call of the local model
  runtime returns or fails because the node runs it in a worker under the
  timeouts of `WorkerJob`. Nobody is obliged to cancel, and the server may crash
  at any time.
- `ChatConnector`: the task's thread, its batcher and its heartbeat are scheduled;
  Git commands, their hooks included, and requests to the agent server end; some
  heartbeat's answer gets through. A Hermes or a swarm is only obliged to end when it
  is cancelled: the adapter's monitor looks at the flag, and a cancelled swarm ends
  if it is again and again free of what it waits for, which is
  `CancelledSwarmIsReported`. A task may wait for a process no cancellation reaches
  (`child = "deaf"`): the verification command of a swarm, or a descendant that left
  Hermes's group and keeps its output open, for which the readers are joined
  (`hermes_adapter.rs:469-474`). `CancelEnds` says what holds when such waits end.
- `ProjectSwarm`: the coordinator is scheduled and Git commands end. A Hermes run
  (planner, worker, review, fallback) ends once it is cancelled, unless its output is
  held open; one that is not cancelled need not end, since the adapter's watchdog
  looks only at structured runs on a remote model (`hermes_adapter.rs:443`). The
  verification command has no fairness at all: `run_shell`
  (`project_swarm.rs:798-810`) has neither a timeout nor a look at the flag. So
  `CancelledSwarmIsReported` is about cancelled tasks, and its premises name the two
  waits that nothing bounds.
- `HarnessRunner`, `ModelCache` and `JobExecution` have safety properties only.

## 4. Findings

One disagreement is among the runs. `worker_orphan`: `worker.rs:3908`, readers left
to "unwind on their own" after a tree kill hold the relay, the job's thread and its
slot if a deeper descendant keeps stderr.

Its property is `KillFreesSlot`: a job whose worker was killed ends. The same can
happen when a worker ends by itself and leaves a process behind, since the readers
are then joined without a timeout (`worker.rs:3924-3925`).

The others have a configuration each, outside the listed runs, in which TLC finds
the named property violated:

| Configuration (module) | Property | The code | What is said |
|---|---|---|---|
| `MCConfigPause` (`MCConfigFile`) | `PauseHonoured` | `agents/node/src/main.rs:2285` saves the configuration loaded earlier in the turn and overwrites a concurrent pause | `docs/node-agent.md:54`: the agent "exits and cools the persistent `llama-server` runtime when local config changes to paused or disconnected" |
| `MCConfigTorn` (`MCConfigFile`) | `ClusterKept` | `config.rs:240-255` truncates before it writes; a command that reads the file in between goes on from the built-in default (`apps/cli/src/main.rs:407-409`), which it saves | `docs/cli-commands.md:33`: `cluster forget` is what stops "contributing the recorded cluster" |
| `MCConfigExit` (`MCConfigFile`) | `ExitHonoured` | a service starts the node while `opengpu exit` runs: its start writes a running configuration over the exit, or launches after the kill | `docs/cli-commands.md:22`: exit leaves "local contribution mode" |
| `MCConfigCluster` (`MCConfigFile`) | `ToolsAreTheEndpoints` | `agents/node/src/main.rs:2278-2286` books the result of a probe on whatever cluster is recorded when it arrives | `cluster.rs:405-408` sets `supports_tool_calls` from a probe of that cluster |
| `MCNodeEligibility` (`MCNodeAgent`) | `DocumentedEligibility` | `agents/node/src/main.rs:2238` polls at start-up without looking at connected, paused or readiness | `docs/job-eligibility.md:7-15`: "A node should only claim a job when it is: connected; not paused; ..." |
| `MCHarnessFailed` (`MCHarnessRunner`) | `OnlySuccessAltersProject` | `harness_executor.rs:342` merges before the final reports; cancellation is polled at model turns only | `docs/coding-harness-node-configuration.md:57`: "Failed, cancelled, stale, or out-of-bound attempts do not alter the project folder." |
| `MCAgentCancel` (`MCAgentSession`) | `CancelReachesRunning` | `apps/agent-server/src/main.rs:314` removes the session's cancellation when any request of it arrives | `docs/mundusx-agent.md:107-109`: "Requests execute concurrently. A client that supplies a session id can cancel between model/tool turns" |
| `MCChatStall` (`MCChatConnector`) | `StalledToolResumes` | `chat_connector.rs:20-24` recovers retryable model failures only, and a stalled tool is not one (`hermes_adapter.rs:579-590`) | `chat_connector.rs:1456` and the following lines handle a stalled tool in the branch that recovers |
| `MCSwarmCancel` (`MCProjectSwarm`) | `CancelLeavesCheckpoint` | `project_swarm.rs:398-408` does not look at the cancellation between verification and merge | `apps/cli/skills/project-swarm/SKILL.md:22`: "cancellation, or failed integrated verification leaves the project at the local pre-swarm checkpoint" |
| `MCModelRemoval` (`ModelCache`) | `RemovalDeletes` | `model.rs:270-285`: prune looks for files to delete among the models it keeps, so none is deleted; when the last model goes its manifest stays | `docs/cli-commands.md:29-30`: "remove a cached model", "remove inactive cached models" |
| `MCClusterServes` (`MCJobExecution`) | `ClusterServesEveryJob` | a job that names no model is refused when the cluster has no primary model | `worker.rs:3621`: "A contributed cluster serves every job for this node" |
| `MCStreamCut` (`MCJobExecution`) | `CutIsStreamed` | `worker.rs:2470-2479` marks an answer cut off at the generation limit after its text has been streamed; a reader of the stream alone sees no mark | `worker.rs:2118-2119`: such an answer "must never be presented as a finished answer" |
| `MCToolsServed` (`MCJobExecution`) | `AdvertisedToolsAreServed` | `agents/node/src/main.rs:740` advertises tool support from a listing, `worker.rs:3522` asks for a verified probe | the advertisement itself |
| `MCStopCools` (`MCNodeControl`) | `StopCools` | the CLI kills the agent (`apps/cli/src/main.rs:3410`) before or while it records its server; the stop finds no record (`worker.rs:1289`) | `docs/node-agent.md:54`, `docs/cli-startup-flow.md:327`: stopping cools the runtime "owned by that agent so the GPU can return to idle power" |

Noted while reading, outside the models: `agents/node/src/http.rs` defines
`request_agent_with_timeouts` twice (lines 276 and 285), which does not compile at
this commit; the models take the definition its callers need. On Unix a process a
harness validation leaves in the background, with its output closed, may change the
tree between the verdict and the commit (`harness_tools.rs:461`): it is in the model
(`StrayWrites`), and `PublishedWasValidated` excepts attempts that have one.

## 5. Proofs

`tlapm M_proofs.tla` checks the proofs of module `M` (for `JobExecution`, by far the
longest, that takes some minutes). Every theorem is about every value of the
constants that the named assumption of its module admits; the assumptions say of
what kind the constants are, that limits are natural numbers, and what is said below.

All proofs have one form: an inductive invariant that implies the property, that
holds initially and that each action keeps. What makes them short enough to read is
that an invariant is written per actor ("what a thread at this place knows") and that
most actions are first shown to be of one kind ("a step of one thread that leaves
the project alone"), about which the argument is made once.

### Slot pool and local requests (`LocalRequest_proofs`)

Assumed: a finite set of threads, split into handlers and threads of the job loop,
and any requested capacity (the code raises 0 to 1).

- The pool: `TypeCorrect`, `CounterCorrect`, `NeverOverCommitted`,
  `PoolImplementsSemaphore`. The inductive invariant is `TypeOK /\ CounterIsHolders`.
  Neither half is inductive alone: that a drop leaves the counter a natural number
  needs that the counter counts the holders, and counting needs the types. The
  refinement maps a successful exchange to an acquisition, a drop to a release and
  everything else to a stutter.
- `RequestsUseThePool`: every step of the CLI, the handlers, the lease managers and
  the job loop is a step of the pool or leaves it alone, so that the theorems about
  the pool carry over: `RequestsImplementSemaphore`, `WorkersFitThePool`.
- `WorkerStartsOnce` (`LocalRunsOnce`): a second handler exists only if the first
  refused the prompt as unsuitable (`RetryInv`), and a handler that did so never got
  as far as a lease manager or a worker (`HandlerInv`). `RoutingIsHonoured` and
  `OfflineWasReal` come from the same places (`RouteInv`).
- `LeaseIsAccounted`: inductive with the places of manager and handler.

### Job relay (`WorkerJob_proofs`)

- `StreamStaysPrefix`: not inductive, because a request that timed out may arrive at
  any later time. `Log` says that the control plane has either everything the relay
  took or everything before the batch in flight, with the sequence number to match;
  `InFlight` that every request still under way is the one being posted or is old
  enough to be a duplicate. `CleanRelayDelivers` adds that nothing is missing.
  The job of a contributed cluster is the case in which the channel is always level
  with the output (`Counters`).
- `SuccessIsTrue`, `CompletionIsLast`: whatever is recorded, or is under way to be,
  is the result the thread found, and the thread reports after the relay has ended.
- `NativeDeltasAreSingle`: what the relay holds, and every request under way, spans one
  delta when the stream is native.

### Node agent and configuration file (`NodeAgent_proofs`)

Assumed: job and local request identities are different.

- `SlotsAreExact` and `NoCoolingUnderWork`: every running job has a handle the loop
  has not reaped, and there is work only inside a batch (`WorkInv`). The second is
  about the loop and jobs of the control plane; a local request is no obstacle to
  cooling in the code (`agents/node/src/main.rs:2320-2337`).
- `ClaimsAreEligible`: what the claims of a batch were decided on still holds
  (`GateInv`). A refill claims only under a configuration that was read since and
  says run; the first claims of a batch are held to the health report and the
  control plane's block alone, because the start-up poll ignores the configuration
  (`MCNodeEligibility` in section 4).
- `NodeReportsItself`: a node that stopped has reported it and one back in its loop
  does not call itself busy, by what was last written to the state file (`EndInv`).
- `ScriptedStartsAreChecked` (`ScriptedStartIsChecked`): from the verification on, through
  the offer and the save before the launch, the model recorded for the cluster is among
  those the command found at its endpoint (`ScriptInv`). When the offer or a verification
  records another model, that it is a served one needs the greatest of a finite set
  (`GreatestIsIn`, from well-foundedness).

### Node control (`NodeControl_proofs`)

Assumed: at most one terminal runs an update.

- `RecordStaysWithHolder`, `LeftBehindIsRecorded`: both rest on the same argument. An
  agent that waits for its server is under the run lock and found nobody answering,
  so the server recorded before it cannot be healthy any more (`RecordInv`).
  `RecordIsHolders` had to be made more exact for this: the proof attempt showed that
  a server recorded because another one answered on its port is an exception, which
  needs more agents than the instance of the run has.
- `UpdateCommitsWithCli`: programs are replaced one at a time and the CLI last. While
  an update is under way, every program it has replaced is of its release, and the
  CLI is among those it has not (`UpdateInv`).

### Model cache and job execution (`JobExecution_proofs`)

- `OneActiveManifest`, `ConfigurationAgrees`, `CacheHoldsWholeFiles`: manifests are
  written one at a time. `Passing` says what is on disk in between: the new record of
  every model that was written, and for another no mark it did not have; `Handover`
  says that the model which loses the mark is written before the one that gets it.
  `SaveInv` relates that to the configuration that is saved afterwards. `ActiveIsKept`
  needs in addition that without a fault the files named by manifests exist
  (`FaultInv`).
- `ReportIsKept`, `HealthIsServed`, `AdvertisementIsServed`: what the health report
  found (`Able`, `Offered`) holds until something changes; the job relies on nothing
  else (`Promised`) and does not look for a file where a file may be missing
  (`Looks`), so it is not refused (`Served`).
- `StreamIsTheAnswer`, `ToolsComeWhole`: `StreamInv` says at each place how what was
  streamed splits into text and tool calls (`Streamed`). The mark of an answer cut off
  at the generation limit is set aside (`Marked`): it is never streamed. The text is
  told from the
  answer by trimming white space at both ends; that the trimmed sequences agree is
  about the first and last characters which are not white space. They exist because
  a non-empty set of natural numbers has a least element (`WFMin`), which stands in
  for induction over sequences.

### Harness runner (`HarnessRunner_proofs`)

Of `HarnessAssumption` the proofs use only that "user" and "init" are not attempts.

- `OnlyValidatedPublished`: the flag `passed` alone does not vouch for the tree. While
  a validation runs, and after one that was lost, an older flag stands beside a tree
  the process may have changed. `PublishInv` says where in the thread it may be
  trusted (`Vouched`: up to the next action of the model, at the evidence of a
  completed loop, and from there to the merge) and that an attempt in the history is
  past every place where its tree or its verdict could change (`Entered`), so that
  later validations cannot disown a commit.
- `BranchOnlyGrows`: the step that could replace the branch is the first commit of a
  new project. `Setup` says that a project that is not ready has no commit, no edits
  and at most one thread setting it up; `Settled` that a thread of a local project
  that got past the resolution works in a ready one.
- `SuccessMeansPublished`: strengthened by `Reported`: between the merge and the last
  report a completed, changed, local attempt is in the history, and an attempt held as
  succeeded has ended. What is published stays so by `HistorySteps`.

### Agent session (`AgentSession_proofs`)

- `TypeCorrect`: types and the limits on turns, calls and skills.
- `DenseStream` and `NoInterleaving`: both are proved together from `StreamInv`.
  Neither is inductive: an append could leave a gap if the writer's number were
  beyond the end. The strengthening is `Place(r)`: a request that has not recorded
  its message owns no event; one about to record it holds a number between 1 and
  one past the end; one that is writing owns the event just before its number and
  none above it. Then a number that is free (UNIQUE lets the append succeed) is
  exactly one past the end, so each append extends the stream, and a request whose
  number another one took can only fail.
- `MutationsOnlyApproved`: strengthened by what each place in a tool call implies:
  a mutating call that may start has its approval recorded just before its number,
  one that may execute has its start recorded there as well.
- `AnswersNotForgotten`: strengthened by `Remembers(r)`: whoever replies has its
  answer in the stream, and everything a request must know was in the stream
  before it read its transcript. Rows are never removed, so that survives crashes.

### Chat connector and project swarm (`ChatConnector_proofs`)

- `AnswerStands`, `CompletedWorkIsCommitted`, `MarkerFollowsCommit`,
  `CompletionHasEvidence`, `ReportIsLast`: all follow from
  `ConnectorInv`, which says of each place in `run_task` what holds there (`Sound`).
  Two tasks meet in the project's index between add and commit (`Committed`); there
  the poll loop helps, which runs only one task other than a project request at a
  time, and project requests commit everything or nothing. `DeviceIdStays` is about
  reauthorization.
- `PublishedStaysVerified`, `FailureKeepsProject`, `UserKeepsWork`, `SwarmIsQuiet`:
  `SwarmInv` says that the swarm's commits are in the project only after the merge,
  that what was verified then begins the project's history, and that what follows it
  is the user's. The worker threads can change their own worktrees only.
- `WavesFollowPlan`, `PlansAreFeasible`: `FollowInv` relates four things: the accepted
  plan (`PlanInv`), what a thread has committed (`ThreadInv`), where the tasks are in
  the integration (`OrderInv`), and the wave (`WaveInv`). A task of the wave depends on
  completed tasks only, and its worktree started from a prefix of the integration to
  which only tasks were added since (`InWave`). That there is a ready task while one
  is pending is the absence of cycles, applied to the tasks that are left
  (`NotStuck`). That cherry-picks do not conflict rests on `OneOwner`: two tasks that
  own a file own paths of which one is below the other (`OneInLine`), also when one
  of them is written with leading `.`s, all of which are dropped (their number is
  the least of a set of naturals), and that is what `validate_plan` refuses.
  Assumed of the constants: paths are sequences of strings, and task ids positive
  integers.

### What is not proved

Liveness under fairness is outside what the prover can do: `RunEnds`,
`SlotIsReleased`, `ExitHonoured`, `ToolsGetVerified`, `PausedNodeStops`, `CancelEnds`,
`CancelledSwarmIsReported`, `StoppedFileStopsAgent` and `StopReaches` are
model-checked only. Every invariant and
every action property of the passing runs is a theorem.

Some theorems state properties that no listed run repeats, because they are plainer
or follow from one that is listed (the types, `NeverOverCommitted`,
`WorkersFitThePool`, `RoutingIsHonoured` and others); TLC checked each of them on the
instance of its module before it was proved.

## 6. Not modelled

- Control plane and chat service internals: not in the repository.
- Request signing, key storage, TLS, wire types: I/O and cryptography without a
  protocol of their own.
- What models compute, GPU probing, slot sizing, installation of runtimes and their
  command lines, port scans and the parsing of listings, the catalogue, themes,
  doctor, status, credits, the tray's windows, installers, TypeScript declarations,
  scripts: no interleaving to check.
- `packages/agent-orchestration` and `apps/cli/src/swarm.rs`: a self-test of parallel
  lanes; its waves without worktrees add nothing to `ProjectSwarm`'s.
- `project_model_proxy.rs`: an HTTP pass-through. Memory store of agent core:
  single-row reads and writes. Agent tools and skills: single sequential calls.
- The one-time save with which loading a configuration replaces a legacy
  control-plane address (`storage.rs:182-184`, `config.rs:189-191`): the command that
  starts an agent has made it before the agent loads the file.
- A `file://` source of a model without a checksum (`model.rs:508-558`), which is
  taken unchecked: every model of `ModelCache` has a checksum.
- Reuse of process ids: the code checks only that some process has the id.

Three properties have exceptions because the code has them, and do not speak about
those cases: `LeaseAccounted` excuses a lease whose renewal or release failed, which
is left to expire; `VerdictStands` a completion that was stored and not acknowledged;
`OrphanIsRecorded` a server not yet recorded when its agent died, and one whose record
was removed by a stop that killed nothing. A worker that has just exited may still be
killed by the poll loop's timeout, and its job then fails: the model has it, and
`CompletedMeansWorkerSucceeded` is about the other direction.

## 7. Plan

Built, in this order: slot pool, worker job, configuration file, node agent, harness
runner, agent session; then chat connector, project swarm, model cache, job
execution, node control, local request (which takes up the lease manager).

Next theorems: each liveness property rests on steps that are not temporal under
fairness (what a fair step makes true stays true until the next one); those steps are
what can still be proved of them.
