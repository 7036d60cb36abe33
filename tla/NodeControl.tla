---------------------------- MODULE NodeControl -----------------------------
(***************************************************************************)
(* Starting, stopping, pausing and updating a node: the CLI commands, the  *)
(* node agents they spawn and kill, and the model server an agent keeps    *)
(* warm (apps/cli/src/main.rs and updater.rs; agents/node/src/main.rs and  *)
(* worker.rs).                                                             *)
(*                                                                         *)
(* The processes share files only: the configuration, the process id the   *)
(* CLI records, the run lock and the state file of the warm runtime.  A    *)
(* kill is a SIGTERM, which the agent does not handle: it dies a moment    *)
(* later, its lock goes with it, and its model server stays.               *)
(*                                                                         *)
(* Agents are numbered in the order they are spawned; the runtime agent a  *)
(* spawns is called a as well.                                             *)
(***************************************************************************)
EXTENDS Integers, Sequences, FiniteSets

CONSTANTS
    Clis,          \* terminals that run commands
    Updaters,      \* bound: the terminals that run update, one: two updates at the
                   \* same time may install programs of two releases
    MaxAgents,     \* bound: agents spawned
    MaxCommands,   \* bound: commands run
    MaxReleases,   \* bound: releases published
    MaxFaults      \* bound: failures of a file, a server or a terminal

ASSUME ControlAssumption ==
    /\ Updaters \subseteq Clis /\ \A c, d \in Updaters : c = d
    /\ {MaxAgents, MaxCommands, MaxReleases, MaxFaults} \subseteq Nat

Agents == 1..MaxAgents
nobody == 0

\* The installed programs, in the order update_installed_binaries replaces them.
Binaries == <<"agent-server", "mundusx", "node-agent", "opengpu">>
Programs == {"agent-server", "mundusx", "node-agent", "opengpu"}

VARIABLES
    cfg,           \* connected and paused of the configuration: "run", "paused", "off"; or
                   \* "offline", the same as off where start found no identity
    pidfile,       \* node-agent.pid
    statefile,     \* persistent-runtime.json: the runtime it names
    lock,          \* the holder of node-agent.run.lock
    agent,         \* agent[a]: [pc, handle]
    runtime,       \* runtime[a]: "none", "starting", "healthy" or "dead"
    lost,          \* runtimes whose agent died while no file named them, whose record
                   \* was removed by a stop that had read an earlier one, or that
                   \* were recorded on the answer of another server on their port
    cli,           \* cli[c]: [pc, op, child]; for an update also the release, the
                   \* programs staged and whether an agent is to be restarted
    installed,     \* the release of every installed program
    commands, faults

vars == <<cfg, pidfile, statefile, lock, agent, runtime, lost, cli, installed, commands, faults>>
files == <<cfg, pidfile, statefile, lock>>

resting == [pc |-> "idle", op |-> "none", child |-> nobody, release |-> 0, staged |-> {},
            restart |-> FALSE]

Init ==
    /\ cfg = "off" /\ pidfile = nobody /\ statefile = nobody /\ lock = nobody
    /\ agent = [a \in Agents |-> [pc |-> "none", handle |-> nobody]]
    /\ runtime = [a \in Agents |-> "none"]
    /\ lost = {}
    /\ cli = [c \in Clis |-> resting]
    /\ installed = [p \in Programs |-> 0]
    /\ commands = 0 /\ faults = 0

Alive(a)   == agent[a].pc \notin {"none", "gone"}
Live(r)    == runtime[r] \in {"starting", "healthy"}
Serving    == {r \in Agents : runtime[r] = "healthy"}
Fault      == faults < MaxFaults /\ faults' = faults + 1

-----------------------------------------------------------------------------
(* The node agent: run_agent.                                              *)

At(a, pc) == agent[a].pc = pc
Goes(a, pc) == agent' = [agent EXCEPT ![a].pc = pc]

\* The process ends: the lock is released; without a Drop its runtime stays.
Ends(a) ==
    /\ Goes(a, "gone")
    /\ lock' = IF lock = a THEN nobody ELSE lock
    /\ lost' = lost \cup {r \in {a} : Live(r) /\ statefile # r}

AcquiresUnlocked(a) ==
    /\ At(a, "boot") /\ lock' = a /\ Goes(a, "locked")
    /\ UNCHANGED <<cfg, pidfile, statefile, runtime, lost, cli, installed, commands, faults>>

acquire_agent_run_lock(a) ==
    /\ At(a, "boot")
    /\ IF lock = nobody THEN lock' = a /\ Goes(a, "locked") ELSE Goes(a, "gone") /\ UNCHANGED lock
    /\ UNCHANGED <<cfg, pidfile, statefile, runtime, lost, cli, installed, commands, faults>>

\* The runtime is kept warm only if the configuration, read once, says run.
should_keep_runtime_warm(a) ==
    /\ At(a, "locked")
    /\ Goes(a, IF cfg = "run" THEN "probe" ELSE "save")
    /\ UNCHANGED <<files, runtime, lost, cli, installed, commands, faults>>

\* No model or no server executable: batch mode.  A server that answers is left
\* alone: the agent has no handle of it (and only for MLX a URL to reach it).
start_persistent_runtime(a) ==
    /\ At(a, "probe")
    /\ \/ Goes(a, "save") /\ UNCHANGED runtime
       \/ /\ Serving = {} /\ Goes(a, "wait")
          /\ runtime' = [runtime EXCEPT ![a] = "starting"]
    /\ UNCHANGED <<files, lost, cli, installed, commands, faults>>

\* The child is looked at first, then the port, whoever answers there.
RuntimeAnswers(a) ==
    /\ At(a, "wait") /\ runtime[a] # "dead" /\ Serving # {}
    /\ agent' = [agent EXCEPT ![a] = [pc |-> "save", handle |-> a]]
    /\ \/ statefile' = a /\ lost' = lost \cup ({a} \ Serving) /\ UNCHANGED faults
       \/ Fault /\ UNCHANGED <<statefile, lost>>
    /\ UNCHANGED <<cfg, pidfile, lock, runtime, cli, installed, commands>>

\* It exited during startup, or the deadline passed and it is killed.
RuntimeFails(a) ==
    /\ At(a, "wait")
    /\ runtime' = [runtime EXCEPT ![a] = "dead"]
    /\ Goes(a, "save")
    /\ UNCHANGED <<files, lost, cli, installed, commands, faults>>

\* The first state and heartbeat are saved, or the process exits on the spot.
FirstHeartbeat(a) ==
    /\ At(a, "save")
    /\ \/ Goes(a, "admit") /\ UNCHANGED <<lock, lost, faults>>
       \/ Fault /\ Ends(a)
    /\ UNCHANGED <<cfg, pidfile, statefile, runtime, cli, installed, commands>>

\* control_plane_blocks_jobs: a blocked node drops its runtime and exits.
Admission(a) ==
    /\ At(a, "admit")
    /\ \/ Goes(a, "loop") \/ Goes(a, "drop")
    /\ UNCHANGED <<files, runtime, lost, cli, installed, commands, faults>>

LooksAtStart(a) ==
    /\ At(a, "admit") /\ cfg # "run"
    /\ Goes(a, "drop")
    /\ UNCHANGED <<files, runtime, lost, cli, installed, commands, faults>>

\* The configuration is read again every second.
should_agent_run(a) ==
    /\ At(a, "loop") /\ cfg # "run"
    /\ Goes(a, "drop")
    /\ UNCHANGED <<files, runtime, lost, cli, installed, commands, faults>>

\* A heartbeat that cannot be saved ends the loop.
LoopFails(a) ==
    /\ At(a, "loop") /\ Fault
    /\ Goes(a, "drop")
    /\ UNCHANGED <<files, runtime, lost, cli, installed, commands>>

\* Drop of PersistentRuntimeHandle: the process first, its state file after.
ForgetsFirst(a) ==
    /\ At(a, "drop") /\ statefile' = nobody /\ Goes(a, "forget")
    /\ UNCHANGED <<cfg, pidfile, lock, runtime, lost, cli, installed, commands, faults>>

StopsRuntime(a) ==
    /\ At(a, "drop")
    /\ IF agent[a].handle = nobody
       THEN Ends(a) /\ UNCHANGED runtime
       ELSE /\ runtime' = [runtime EXCEPT ![agent[a].handle] = "dead"]
            /\ Goes(a, "forget") /\ UNCHANGED <<lock, lost>>
    /\ UNCHANGED <<cfg, pidfile, statefile, cli, installed, commands, faults>>

ForgetsRuntime(a) ==
    /\ At(a, "forget")
    /\ statefile' = nobody
    /\ Ends(a)
    /\ UNCHANGED <<cfg, pidfile, runtime, cli, installed, commands, faults>>

Dies(a) ==
    /\ At(a, "dying") /\ Ends(a)
    /\ UNCHANGED <<cfg, pidfile, statefile, runtime, cli, installed, commands, faults>>

AgentStep(a) ==
    \/ acquire_agent_run_lock(a) \/ should_keep_runtime_warm(a) \/ start_persistent_runtime(a)
    \/ RuntimeAnswers(a) \/ RuntimeFails(a) \/ FirstHeartbeat(a) \/ Admission(a)
    \/ should_agent_run(a) \/ StopsRuntime(a) \/ ForgetsRuntime(a) \/ Dies(a)

-----------------------------------------------------------------------------
(* The model server.                                                       *)

\* It is healthy once it has the port; a second one on that port exits.
RuntimeListens(r) ==
    /\ runtime[r] = "starting"
    /\ runtime' = [runtime EXCEPT ![r] = IF Serving = {} THEN "healthy" ELSE "dead"]
    /\ UNCHANGED <<files, agent, lost, cli, installed, commands, faults>>

RuntimeDies(r) ==
    /\ Live(r) /\ Fault
    /\ runtime' = [runtime EXCEPT ![r] = "dead"]
    /\ UNCHANGED <<files, agent, lost, cli, installed, commands>>

-----------------------------------------------------------------------------
(* The commands of the CLI.                                                *)

On(c, pc) == cli[c].pc = pc
To(c, pc) == cli' = [cli EXCEPT ![c].pc = pc]
Done(c)   == cli' = [cli EXCEPT ![c] = resting]
Kill(a) == agent' = IF a \in Agents /\ Alive(a) THEN [agent EXCEPT ![a].pc = "dying"] ELSE agent

Begins(c) ==
    /\ On(c, "idle") /\ commands < MaxCommands
    /\ \E op \in {"background", "foreground", "disconnect", "pause", "update"} :
          /\ op = "update" => c \in Updaters
          /\ cli' = [cli EXCEPT ![c] = [resting EXCEPT !.op = op, !.pc = op]]
    /\ commands' = commands + 1
    /\ UNCHANGED <<files, agent, runtime, lost, installed, faults>>

\* start, connect and resume; without an identity or a cluster that answers the
\* agent is not launched.
run_start_or_connect(c) ==
    /\ On(c, "background") \/ On(c, "foreground")
    /\ \/ cfg' = "run" /\ To(c, "stop old")
       \/ cfg' = "offline" /\ Done(c)
       \/ UNCHANGED cfg /\ Done(c)
    /\ UNCHANGED <<pidfile, statefile, lock, agent, runtime, lost, installed, commands, faults>>

\* stop_background_node_agent: kill what is recorded, then forget it.
StopsRecorded(c) ==
    /\ On(c, "stop old") \/ On(c, "stop last")
    /\ Kill(pidfile)
    /\ To(c, IF On(c, "stop old") THEN "forget old" ELSE "forget last")
    /\ UNCHANGED <<files, runtime, lost, installed, commands, faults>>

remove_node_agent_pid(c) ==
    /\ On(c, "forget old") \/ On(c, "forget last")
    /\ pidfile' = nobody
    /\ IF On(c, "forget old") THEN To(c, "spawn") ELSE Done(c)
    /\ UNCHANGED <<cfg, statefile, lock, agent, runtime, lost, installed, commands, faults>>

\* launch_node_agent: the child runs from here on; in the background its process
\* id is recorded only after a pause.
launch_node_agent(c) ==
    /\ On(c, "spawn")
    /\ \E a \in Agents :
          /\ At(a, "none") /\ \A b \in 1..(a - 1) : ~At(b, "none")
          /\ Goes(a, "boot")
          /\ cli' = [cli EXCEPT ![c].child = a,
                        ![c].pc = IF @ = "spawn" /\ cli[c].op = "foreground" THEN "record"
                                  ELSE "settle"]
    /\ UNCHANGED <<files, runtime, lost, installed, commands, faults>>

ChildGone(c) == ~Alive(cli[c].child)

\* The child has exited: the recorded process id is removed, whosever it is.
ReportsExit(c) ==
    /\ On(c, "settle") \/ On(c, "startup") \/ On(c, "session")
    /\ ChildGone(c)
    /\ pidfile' = nobody
    /\ Done(c)
    /\ UNCHANGED <<cfg, statefile, lock, agent, runtime, lost, installed, commands, faults>>

Settles(c) ==
    /\ On(c, "settle") /\ ~ChildGone(c)
    /\ To(c, "record")
    /\ UNCHANGED <<files, agent, runtime, lost, installed, commands, faults>>

\* A process id that cannot be recorded: the background child is killed.
write_node_agent_pid(c) ==
    /\ On(c, "record")
    /\ \/ /\ pidfile' = cli[c].child
          /\ To(c, IF cli[c].op = "foreground" THEN "session" ELSE "startup")
          /\ UNCHANGED <<agent, faults>>
       \/ /\ Fault /\ UNCHANGED pidfile
          /\ IF cli[c].op = "foreground" THEN UNCHANGED agent ELSE Kill(cli[c].child)
          /\ Done(c)
    /\ UNCHANGED <<cfg, statefile, lock, runtime, lost, installed, commands>>

\* The agent reports itself healthy, or the CLI stops waiting for it.
wait_for_background_agent_startup(c) ==
    /\ On(c, "startup") /\ ~ChildGone(c)
    /\ Done(c)
    /\ UNCHANGED <<files, agent, runtime, lost, installed, commands, faults>>

\* Esc or Ctrl-C in the foreground: mark_disconnected, then the agent's stop.
Escape(c) ==
    /\ On(c, "session") /\ ~ChildGone(c)
    /\ cfg' = "off" /\ To(c, "agent stop")
    /\ UNCHANGED <<pidfile, statefile, lock, agent, runtime, lost, installed, commands, faults>>

\* The terminal closes: the command and its child get the signal.
TerminalCloses(c) ==
    /\ On(c, "session") /\ Fault
    /\ Kill(cli[c].child) /\ Done(c)
    /\ UNCHANGED <<files, runtime, lost, installed, commands>>

Disconnects(c) ==
    /\ On(c, "disconnect")
    /\ cfg' = "off" /\ To(c, "agent stop")
    /\ UNCHANGED <<pidfile, statefile, lock, agent, runtime, lost, installed, commands, faults>>

Pauses(c) ==
    /\ On(c, "pause")
    /\ cfg' = IF cfg \in {"off", "offline"} THEN cfg ELSE "paused"
    /\ Done(c)
    /\ UNCHANGED <<pidfile, statefile, lock, agent, runtime, lost, installed, commands, faults>>

\* stop_agent, a process of its own: the configuration again, then the runtime
\* the state file names, then the file.
stop_agent(c) ==
    /\ On(c, "agent stop")
    /\ cfg' = "off"
    /\ cli' = [cli EXCEPT ![c].pc = "stop runtime"]
    /\ UNCHANGED <<pidfile, statefile, lock, agent, runtime, lost, installed, commands, faults>>

AfterStop(c) == IF cli[c].op = "foreground" THEN "stop child" ELSE "stop last"

stop_persistent_runtime_from_state(c) ==
    /\ On(c, "stop runtime")
    /\ IF statefile = nobody THEN To(c, AfterStop(c)) /\ UNCHANGED runtime
       ELSE /\ runtime' = [runtime EXCEPT ![statefile] = "dead"]
            /\ cli' = [cli EXCEPT ![c].pc = "remove state"]
    /\ UNCHANGED <<files, agent, lost, installed, commands, faults>>

remove_persistent_runtime_state(c) ==
    /\ On(c, "remove state")
    /\ lost' = lost \cup {r \in Agents : statefile = r /\ Live(r)}
    /\ statefile' = nobody /\ To(c, AfterStop(c))
    /\ UNCHANGED <<cfg, pidfile, lock, agent, runtime, installed, commands, faults>>

\* The foreground session kills its own child, whatever is recorded.
StopsChild(c) ==
    /\ On(c, "stop child")
    /\ Kill(cli[c].child) /\ To(c, "forget last")
    /\ UNCHANGED <<files, runtime, lost, installed, commands, faults>>

-----------------------------------------------------------------------------
(* update: all programs are downloaded, verified and tried before the first *)
(* is replaced.                                                            *)

\* resolve_release_assets: the URLs of one published release.
resolve_release_assets(c) ==
    /\ On(c, "update")
    /\ \E release \in 1..MaxReleases :
          /\ release >= installed["opengpu"]
          /\ cli' = [cli EXCEPT ![c].restart = pidfile # nobody /\ Alive(pidfile),
                                ![c].release = release, ![c].pc = "stage"]
    /\ UNCHANGED <<files, agent, runtime, lost, installed, commands, faults>>

\* A download that fails or does not match its checksum, or a program that does
\* not run, ends the update.
stage_release_binary(c) ==
    /\ On(c, "stage")
    /\ \/ cli' = [cli EXCEPT ![c].staged = Programs, ![c].pc = "replace"]
       \/ Done(c)
    /\ UNCHANGED <<files, agent, runtime, lost, installed, commands, faults>>

NextStaged(c) ==
    LET left == {i \in DOMAIN Binaries : Binaries[i] \in cli[c].staged}
    IN  Binaries[CHOOSE i \in left : \A j \in left : i <= j]

ReplacesAnyFirst(c) ==
    /\ On(c, "replace")
    /\ \E p \in cli[c].staged :
          /\ installed' = [installed EXCEPT ![p] = cli[c].release]
          /\ cli' = [cli EXCEPT ![c].staged = @ \ {p}]
    /\ UNCHANGED <<files, agent, runtime, lost, commands, faults>>

\* One rename after the other; the first that fails ends the update.
replace_binary(c) ==
    /\ On(c, "replace") /\ cli[c].staged # {}
    /\ \/ /\ installed' = [installed EXCEPT ![NextStaged(c)] = cli[c].release]
          /\ cli' = [cli EXCEPT ![c].staged = @ \ {NextStaged(c)}]
          /\ UNCHANGED faults
       \/ Fault /\ Done(c) /\ UNCHANGED installed
    /\ UNCHANGED <<files, agent, runtime, lost, commands>>

\* A background agent that was running is launched again.
UpdateDone(c) ==
    /\ On(c, "replace") /\ cli[c].staged = {}
    /\ IF cli[c].restart THEN To(c, "stop old") ELSE Done(c)
    /\ UNCHANGED <<files, agent, runtime, lost, installed, commands, faults>>

CliStep(c) ==
    \/ run_start_or_connect(c) \/ StopsRecorded(c) \/ remove_node_agent_pid(c)
    \/ launch_node_agent(c) \/ ReportsExit(c) \/ Settles(c) \/ write_node_agent_pid(c)
    \/ wait_for_background_agent_startup(c)
    \/ Disconnects(c) \/ Pauses(c) \/ stop_agent(c) \/ stop_persistent_runtime_from_state(c)
    \/ remove_persistent_runtime_state(c) \/ StopsChild(c)
    \/ resolve_release_assets(c) \/ stage_release_binary(c) \/ replace_binary(c) \/ UpdateDone(c)

Next ==
    \/ \E a \in Agents : AgentStep(a) \/ LoopFails(a) \/ RuntimeListens(a) \/ RuntimeDies(a)
    \/ \E c \in Clis : CliStep(c) \/ Begins(c) \/ Escape(c) \/ TerminalCloses(c)

\* Processes run, the model server listens or exits in the end, and the agent's
\* startup loop has a deadline; nobody has to enter a command or press a key.
Fairness ==
    /\ \A a \in Agents : WF_vars(AgentStep(a)) /\ WF_vars(RuntimeListens(a))
    /\ \A c \in Clis : WF_vars(CliStep(c))

Spec == Init /\ [][Next]_vars /\ Fairness

-----------------------------------------------------------------------------
(* Properties.                                                             *)

\* While an agent has a runtime the state file names no other live one, so that a
\* stop kills the right server; it is the run lock, taken before any runtime is
\* started, that keeps two agents from recording two (run_agent,
\* PersistentRuntimeHandle).  The exception is a server recorded while another one
\* answered for it, which outlives its agent and comes up during the next start.
RecordIsHolders ==
    \A a \in Agents :
       /\ Alive(a) /\ agent[a].handle # nobody /\ statefile # nobody
       /\ Live(statefile) /\ statefile \notin lost
       => statefile = agent[a].handle

\* A model server that is left behind can still be stopped: as long as it lives
\* the agent that spawned it does, or the state file names it and the next stop
\* or disconnect kills it; unless that agent died before it had recorded it,
\* recorded it while a stop was about to remove an earlier record, or recorded it
\* because another server answered on the port: it may then still come up under a
\* later agent, which overwrites the record (PersistentRuntimeHandle::new,
\* start_persistent_runtime, stop_persistent_runtime_from_state).
OrphanIsRecorded ==
    \A r \in Agents : Live(r) => Alive(r) \/ statefile = r \/ r \in lost

\* The final CLI swap is the commit point: whenever and wherever an update ends,
\* the CLI is never newer than the programs it starts (update_installed_binaries).
CliIsNotNewer == \A p \in Programs : installed["opengpu"] <= installed[p]

\* Once the configuration stays paused or disconnected every agent ends, also one
\* whose process id was not recorded yet when it was to be stopped (run_agent,
\* launch_node_agent).
StopReaches == <>[](cfg # "run") => <>[](\A a \in Agents : ~Alive(a))

\* What docs/node-agent.md says: the agent "exits and cools the persistent
\* `llama-server` runtime when local config changes to paused or disconnected, so
\* `opengpu exit`, `opengpu disconnect`, `Esc`, and `Ctrl-C` release GPU memory
\* instead of leaving the model warm".  When the commands are done and no agent is
\* left, no server runs.
StopCools ==
    /\ cfg \in {"paused", "off"} /\ \A c \in Clis : On(c, "idle")
    /\ \A a \in Agents : ~Alive(a)
    => \A r \in Agents : ~Live(r)
=============================================================================
