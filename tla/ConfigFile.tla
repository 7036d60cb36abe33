----------------------------- MODULE ConfigFile ------------------------------
(***************************************************************************)
(* The file ~/.opengpu/config.json as the CLI and the node agent share it, *)
(* and the contributed cluster recorded in it.  There is no lock and no    *)
(* atomic replacement: every writer reads the whole file, changes fields   *)
(* and writes it back with fs::write, which truncates first.  The CLI      *)
(* commands pause, exit, start, install, cluster use, cluster forget and   *)
(* onboarding --complete run against an agent that polls the file once a   *)
(* second and itself rewrites it when the native tool probe of the         *)
(* contributed cluster succeeds.  start and install hold what they read    *)
(* while they probe endpoints and wait for answers to their menus; what    *)
(* the endpoints serve changes meanwhile.                                  *)
(***************************************************************************)
EXTENDS Naturals, FiniteSets, FiniteSetsExt

CONSTANTS Clis,         \* CLI processes (a terminal, the tray application)
          Commands,     \* which commands each of them runs
          CliCommands,  \* bound: commands in one behaviour
          Endpoints,    \* base URLs of inference servers on this host
          Models,       \* the models they serve, numbered by size
          Capable,      \* endpoints whose runtime emits native tool calls
          MaxChanges    \* bound: changes of what an endpoint serves

(* Runs of start: in a terminal; from a script, with an unusable identity, *)
(* with --contribute-cluster or with --no-contribute-cluster.               *)
Starts == {"start", "startFails", "startQuiet", "startWith", "startWithout"}

ASSUME ConfigAssumption ==
    /\ \A c \in Clis : Commands[c] \subseteq
          Starts \cup {"pause", "exit", "onboard", "forget", "use", "install"}
    /\ CliCommands \in Nat /\ MaxChanges \in Nat
    /\ Models \subseteq Nat \ {0} /\ IsFiniteSet(Models) /\ Models # {}
    /\ Capable \subseteq Endpoints

(* A record without a model: the endpoint advertised none. *)
NoModel == 0

Recorded == [url : Endpoints, model : Models \cup {NoModel}, tools : BOOLEAN]

(* The fields whose fate differs: the two switches of the contributor, the *)
(* onboarding flag that only the CLI's Config type has, the contributed    *)
(* cluster (at most one) and the remembered "no" to contributing one.      *)
Config == [connected : BOOLEAN, paused : BOOLEAN, onboarded : BOOLEAN,
           declined : BOOLEAN,
           cluster : {{}} \cup {{k} : k \in Recorded}]

(* Config::default(): what current_config_or_default falls back to when    *)
(* the file cannot be parsed.                                              *)
DefaultConfig == [connected |-> FALSE, paused |-> FALSE, onboarded |-> FALSE,
                  declined |-> FALSE, cluster |-> {}]

VARIABLES file,     \* config.json: the configuration last written
          torn,     \* truncated by fs::write and not yet written: unreadable
          cli,      \* per CLI process: [cmd, pc, next, conf, found]
          commands, \* commands started so far
          agent,    \* the node agent's loop: [pc, conf]
          toolProbe, \* the tool probe's thread and channel: [st, of]
          world,    \* what each endpoint serves: [up, models]
          changes,  \* changes of world so far
          asked     \* what the contributor last asked for

fileVars == <<file, torn, cli, commands, agent, toolProbe, world, changes, asked>>

Serving == [up : BOOLEAN, models : SUBSET Models]

IdleCli == [cmd |-> "none", pc |-> "idle", next |-> "idle", conf |-> DefaultConfig,
            found |-> [e \in Endpoints |-> [up |-> FALSE, models |-> {}]]]

NoProbe == [st |-> "idle", of |-> {}]

FileInit ==
    /\ world = [e \in Endpoints |-> [up |-> TRUE, models |-> Models]]
    /\ \E held \in {{}} \cup {{[url |-> e, model |-> Max(world[e].models),
                                 tools |-> FALSE]} : e \in Endpoints} :
        file = [connected |-> TRUE, paused |-> FALSE, onboarded |-> FALSE,
                declined |-> FALSE, cluster |-> held]
    /\ torn = FALSE
    /\ cli = [c \in Clis |-> IdleCli]
    /\ commands = 0 /\ changes = 0
    /\ agent = [pc |-> "sleep", conf |-> file]
    /\ toolProbe = NoProbe
    /\ asked = "run"

(* Mutant of should_agent_run: a paused node is not told apart. *)
RunWhenConnected(conf) == conf.connected

(* should_agent_run *)
should_agent_run(conf) == conf.connected /\ ~conf.paused

(* A server is started, stopped, or loads and unloads models. *)
WorldChanges ==
    /\ changes < MaxChanges
    /\ \E e \in Endpoints, s \in Serving :
        /\ s # world[e] /\ (s.models # {} => s.up)
        /\ world' = [world EXCEPT ![e] = s]
    /\ changes' = changes + 1
    /\ UNCHANGED <<file, torn, cli, commands, agent, toolProbe, asked>>

------------------------------------------------------------------------------
(* What a probe of the endpoints finds, and what is recorded of it.        *)

(* DetectedCluster::is_servable, over every endpoint that answered. *)
Servable(found) == {e \in Endpoints : found[e].up /\ found[e].models # {}}

(* DetectedCluster::largest_model; an idle endpoint has none. *)
PrimaryModel(s) == IF s.models = {} THEN NoModel ELSE Max(s.models)

(* preferred_cluster: an endpoint with the largest model of all. *)
Preferred(found) ==
    {e \in Servable(found) : \A other \in Servable(found) :
        PrimaryModel(found[e]) >= PrimaryModel(found[other])}

(* probe_native_tool_calls of the CLI: the parser metric, or one request   *)
(* for the largest model.  It may run into its timeout, and Ollama is      *)
(* never asked: then the agent's own probe decides later.                  *)
VerifiedTools(e, s) == {FALSE, (e \in Capable /\ s.models # {})}

(* contributed_cluster_from and contribute_detected_cluster. *)
Contribute(conf, e, s, m) ==
    {[conf EXCEPT !.cluster = {[url |-> e, model |-> m, tools |-> t]},
                  !.declined = FALSE] : t \in VerifiedTools(e, s)}

Adopt(conf, e, found) == Contribute(conf, e, found[e], PrimaryModel(found[e]))

Forget(conf) == [conf EXCEPT !.cluster = {}, !.declined = FALSE]
Decline(conf) == [conf EXCEPT !.cluster = {}, !.declined = TRUE]

(* The flags of a start or install: --contribute-cluster, its negation.    *)
Forced(cmd) == CASE cmd = "startWith" -> "yes" [] cmd = "startWithout" -> "no"
                 [] OTHER -> "none"
Interactive(cmd) == cmd \in {"start", "install"}

(* cluster_prompt_decision *)
PromptDecision(servable, contributing, declined, forced, interactive) ==
    CASE ~servable -> "skip"
      [] servable /\ forced = "yes" -> "contribute"
      [] servable /\ forced = "no" -> "decline"
      [] servable /\ forced = "none" ->
            IF contributing \/ declined \/ ~interactive THEN "skip" ELSE "ask"

(* maybe_contribute_running_cluster: the configurations it may leave.      *)
Offers(conf, cmd, found) ==
    LET decision == PromptDecision(Servable(found) # {}, conf.cluster # {},
                                   conf.declined, Forced(cmd), Interactive(cmd))
    IN  CASE decision = "skip" -> {conf}
          [] decision = "contribute" -> UNION {Adopt(conf, e, found) : e \in Preferred(found)}
          [] decision = "decline" -> {Decline(conf)}
          [] decision = "ask" ->
                {conf, Decline(conf)}
                  \cup UNION {Adopt(conf, e, found) : e \in Servable(found)}

(* classify_contributed_cluster: still serving the recorded model. *)
Serves(k) == world[k.url].up /\ k.model \in world[k.url].models

(* prompt_contributed_cluster_change: serve what runs now, forget, leave.  *)
ChangeMenu(conf, k) == {conf, Forget(conf)} \cup Adopt(conf, k.url, world)

(* prompt_contributed_cluster_unreachable: keep, forget, or pick another.  *)
UnreachableMenu(conf, k) ==
    LET others == Servable(world) \ {k.url}
    IN  {conf, Forget(conf)}
          \cup (IF others = {} THEN {} ELSE {Decline(conf)})
          \cup UNION {Adopt(conf, e, world) : e \in others}

------------------------------------------------------------------------------
(* The CLI.                                                                *)

(* current_config_or_default: an unreadable file counts as no file.        *)
LoadOrDefault == IF torn THEN DefaultConfig ELSE file

(* What the short commands change in the configuration they read.          *)
(* onboarding stands for the commands (cap, login, model) that rewrite the *)
(* file for the sake of another field.                                     *)
Edit(cmd, conf) ==
    CASE cmd = "pause"   -> [conf EXCEPT !.paused = TRUE]
      [] cmd = "exit"    -> [conf EXCEPT !.connected = FALSE, !.paused = TRUE]
      [] cmd = "onboard" -> [conf EXCEPT !.onboarded = TRUE]
      [] cmd = "forget"  -> Forget(conf)

(* A command reads the file and goes on from there.                        *)
Begins(c, record) ==
    /\ cli[c].pc = "idle" /\ commands < CliCommands
    /\ cli' = [cli EXCEPT ![c] = record]
    /\ commands' = commands + 1
    /\ UNCHANGED <<file, torn, agent, toolProbe, world, changes, asked>>

Saving(cmd, conf, next) ==
    [IdleCli EXCEPT !.cmd = cmd, !.pc = "truncate", !.next = next, !.conf = conf]

(* The short commands.  Pause refuses a node that is not connected; exit   *)
(* goes on with the agent's own stop command.                              *)
CliRead(c) ==
    \E cmd \in Commands[c] \cap {"pause", "exit", "onboard", "forget"} :
        Begins(c, IF cmd = "pause" /\ ~LoadOrDefault.connected THEN IdleCli
                  ELSE Saving(cmd, Edit(cmd, LoadOrDefault),
                              IF cmd = "exit" THEN "stopRead" ELSE "idle"))

(* cluster use <url> [--model]: the endpoint must answer; a requested      *)
(* model must be listed unless nothing is, and without one a model must    *)
(* be loaded.                                                              *)
ClusterUse(c) ==
    /\ "use" \in Commands[c]
    /\ \E e \in Endpoints :
        /\ world[e].up
        /\ \E m \in IF world[e].models = {} THEN Models ELSE world[e].models :
            \E conf \in Contribute(LoadOrDefault, e, world[e], m) :
                Begins(c, Saving("use", conf, "idle"))

(* start and install read the file.  install probes the endpoints here,    *)
(* saves once and asks its questions after.                                *)
StartReads(c) ==
    \E cmd \in Commands[c] \cap Starts :
        Begins(c, [IdleCli EXCEPT !.cmd = cmd, !.pc = "verify",
                                  !.conf = LoadOrDefault])

InstallReads(c) ==
    /\ "install" \in Commands[c]
    /\ Begins(c, [Saving("install", LoadOrDefault, "menu")
                   EXCEPT !.found = world])

CliGoesOn(c, record) ==
    /\ cli' = [cli EXCEPT ![c] = record]
    /\ UNCHANGED <<file, torn, commands, agent, toolProbe, world, changes, asked>>

(* verify_contributed_cluster.  A script that finds the recorded cluster   *)
(* changed or silent saves what it has and stops.                          *)
Verify(c) ==
    LET me == cli[c]
        seen == [me EXCEPT !.pc = "offer", !.found = IF Interactive(me.cmd) THEN @ ELSE world]
    IN  /\ me.pc = "verify"
        /\ \/ /\ \A k \in me.conf.cluster : Serves(k)
              /\ CliGoesOn(c, seen)
           \/ \E k \in me.conf.cluster :
              /\ ~Serves(k)
              /\ IF ~Interactive(me.cmd) THEN CliGoesOn(c, Saving(me.cmd, me.conf, "idle"))
                 ELSE \E conf \in IF world[k.url].up THEN ChangeMenu(me.conf, k)
                                  ELSE UnreachableMenu(me.conf, k) :
                        CliGoesOn(c, [seen EXCEPT !.conf = conf])

(* The offer of a running cluster, then the switches and the save; with an *)
(* unusable identity the node is left stopped and nothing is launched.     *)
Offer(c) ==
    /\ cli[c].pc = "offer"
    /\ \E conf \in Offers(cli[c].conf, cli[c].cmd, world) :
        LET ready == cli[c].cmd # "startFails"
            done == [conf EXCEPT !.connected = ready, !.paused = ~ready]
        IN  CliGoesOn(c, [Saving(cli[c].cmd, done, IF ready THEN "launch" ELSE "idle")
                            EXCEPT !.found = IF Interactive(cli[c].cmd) \/ conf = cli[c].conf
                                             THEN cli[c].found ELSE world])

(* The selected model does not fit or cannot be refreshed: exit, unsaved.  *)
StartAborts(c) ==
    /\ cli[c].pc = "offer"
    /\ CliGoesOn(c, IdleCli)

(* install's menus: the endpoints found at its start may be picked before  *)
(* the common offer is made; the second save follows.                      *)
InstallMenu(c) ==
    /\ cli[c].pc = "menu"
    /\ \E conf \in Offers(cli[c].conf, "install", cli[c].found)
                   \cup (IF cli[c].conf.cluster # {} THEN {}
                         ELSE UNION {Adopt(cli[c].conf, e, cli[c].found) :
                                        e \in Servable(cli[c].found)}) :
        CliGoesOn(c, Saving("install", conf, "idle"))

(* save_config / save_json, first half: open with truncation. *)
CliTruncate(c) ==
    /\ cli[c].pc = "truncate"
    /\ torn' = TRUE
    /\ cli' = [cli EXCEPT ![c].pc = "write"]
    /\ UNCHANGED <<file, commands, agent, toolProbe, world, changes, asked>>

(* What the contributor has asked for once the command's write is done.    *)
Ask(me) ==
    asked' = CASE me.cmd \in {"pause", "exit"} -> me.cmd
               [] me.next = "launch" -> "run"
               [] OTHER -> asked

(* Second half, and on to what the command does next. *)
CliWrite(c) ==
    /\ cli[c].pc = "write"
    /\ file' = cli[c].conf /\ torn' = FALSE
    /\ Ask(cli[c])
    /\ cli' = [cli EXCEPT ![c] = IF @.next = "idle" THEN IdleCli ELSE [@ EXCEPT !.pc = cli[c].next]]
    /\ UNCHANGED <<commands, agent, toolProbe, world, changes>>

(* AgentConfig has no onboarding field: what the agent reads, it writes    *)
(* back without it.                                                        *)
AsAgentConfig(conf) == [conf EXCEPT !.onboarded = FALSE]

(* opengpu-agent stop: reads the file again (and gives up on a torn one).  *)
StopRead(c) ==
    /\ cli[c].pc = "stopRead"
    /\ cli' = [cli EXCEPT ![c] =
         IF torn THEN [@ EXCEPT !.pc = "kill"]
         ELSE [@ EXCEPT !.pc = "stopTruncate",
                        !.conf = Edit("exit", AsAgentConfig(file))]]
    /\ UNCHANGED <<file, torn, commands, agent, toolProbe, world, changes, asked>>

StopTruncate(c) ==
    /\ cli[c].pc = "stopTruncate"
    /\ torn' = TRUE
    /\ cli' = [cli EXCEPT ![c].pc = "stopWrite"]
    /\ UNCHANGED <<file, commands, agent, toolProbe, world, changes, asked>>

StopWrite(c) ==
    /\ cli[c].pc = "stopWrite"
    /\ file' = cli[c].conf /\ torn' = FALSE
    /\ cli' = [cli EXCEPT ![c].pc = "kill"]
    /\ UNCHANGED <<commands, agent, toolProbe, world, changes, asked>>

(* Mutant of StopKill: the recorded process is left alone. *)
StopWithoutKill(c) ==
    /\ cli[c].pc = "kill"
    /\ cli' = [cli EXCEPT ![c] = IdleCli]
    /\ UNCHANGED <<file, torn, commands, agent, toolProbe, world, changes, asked>>

(* stop_background_node_agent: the recorded process is killed.             *)
StopKill(c) ==
    /\ cli[c].pc = "kill"
    /\ agent' = [agent EXCEPT !.pc = "off"]
    /\ toolProbe' = NoProbe
    /\ cli' = [cli EXCEPT ![c] = IdleCli]
    /\ UNCHANGED <<file, torn, commands, world, changes, asked>>

(* launch_node_agent: the previous process is killed, a new one loads the  *)
(* file or exits; a verified capability missing from the model's own list  *)
(* is added and the file saved at once.                                    *)
Launch(c) ==
    /\ cli[c].pc = "launch"
    /\ IF torn THEN agent' = [agent EXCEPT !.pc = "off"] /\ UNCHANGED torn
       ELSE \E normalizes \in {FALSE, (\E k \in file.cluster : k.tools)} :
            /\ agent' = [pc |-> IF normalizes THEN "normalizing" ELSE "sleep",
                         conf |-> AsAgentConfig(file)]
            /\ torn' = normalizes
    /\ toolProbe' = NoProbe
    /\ cli' = [cli EXCEPT ![c] = IdleCli]
    /\ UNCHANGED <<file, commands, world, changes, asked>>

------------------------------------------------------------------------------
(* The agent's main loop, as far as it touches the file. *)

(* The reload at the top of the loop; an unreadable file ends the agent.   *)
AgentLoad ==
    /\ agent.pc = "sleep"
    /\ agent' = IF torn THEN [agent EXCEPT !.pc = "off"]
                ELSE [pc |-> "loaded", conf |-> AsAgentConfig(file)]
    /\ UNCHANGED <<file, torn, cli, commands, toolProbe, world, changes, asked>>

NeedsProbe(conf) == \E k \in conf.cluster : ~k.tools

(* A probe that has been started and not been received: in flight. *)
InFlight == toolProbe.st = "running"

(* Mutant of Received: a probe without success stays in flight. *)
ReceivedSuccess == IF toolProbe.st = "yes" THEN NoProbe ELSE toolProbe

(* tool_refresh_rx.try_recv clears the in-flight flag. *)
Received == IF InFlight THEN toolProbe ELSE NoProbe

(* A probe's success is recorded for the cluster of the configuration just *)
(* loaded, whichever endpoint it asked, and the whole configuration saved. *)
AgentDrain ==
    /\ agent.pc = "loaded" /\ toolProbe.st = "yes" /\ NeedsProbe(agent.conf)
    /\ agent' = [pc |-> "saving",
                 conf |-> [agent.conf EXCEPT !.cluster = {[k EXCEPT !.tools = TRUE] : k \in @}]]
    /\ torn' = TRUE
    /\ toolProbe' = Received
    /\ UNCHANGED <<file, cli, commands, world, changes, asked>>

(* Nothing to record: a failed probe is dropped.                           *)
AgentSkips ==
    /\ agent.pc = "loaded" /\ ~(toolProbe.st = "yes" /\ NeedsProbe(agent.conf))
    /\ agent' = [agent EXCEPT !.pc = "check"]
    /\ toolProbe' = Received
    /\ UNCHANGED <<file, torn, cli, commands, world, changes, asked>>

(* The refresh interval has passed: a thread asks the cluster.             *)
ProbeStarts ==
    /\ agent.pc = "check" /\ toolProbe.st = "idle" /\ NeedsProbe(agent.conf)
    /\ toolProbe' = [st |-> "running", of |-> agent.conf.cluster]
    /\ UNCHANGED <<file, torn, cli, commands, agent, world, changes, asked>>

AgentWrite ==
    /\ agent.pc \in {"saving", "normalizing"}
    /\ file' = agent.conf /\ torn' = FALSE
    /\ agent' = [agent EXCEPT !.pc = IF @ = "saving" THEN "check" ELSE "sleep"]
    /\ UNCHANGED <<cli, commands, toolProbe, world, changes, asked>>

(* !should_agent_run: the runtime is cooled and the loop left. *)
AgentCheck ==
    /\ agent.pc = "check"
    /\ agent' = [agent EXCEPT !.pc = IF should_agent_run(agent.conf) THEN "sleep" ELSE "off"]
    /\ UNCHANGED <<file, torn, cli, commands, toolProbe, world, changes, asked>>

(* probe_contributed_tool_capability: one request for the recorded model.  *)
ProbeAnswers ==
    /\ toolProbe.st = "running"
    /\ toolProbe' = [toolProbe EXCEPT !.st =
         IF \E k \in toolProbe.of : Serves(k) /\ k.url \in Capable THEN "yes" ELSE "no"]
    /\ UNCHANGED <<file, torn, cli, commands, agent, world, changes, asked>>

------------------------------------------------------------------------------
CliStep(c) == CliRead(c) \/ ClusterUse(c) \/ StartReads(c) \/ InstallReads(c)
              \/ Verify(c) \/ Offer(c) \/ StartAborts(c) \/ InstallMenu(c)
              \/ CliTruncate(c) \/ CliWrite(c)
              \/ StopRead(c) \/ StopTruncate(c) \/ StopWrite(c) \/ StopKill(c) \/ Launch(c)
AgentStep == AgentLoad \/ AgentDrain \/ AgentSkips \/ AgentWrite \/ AgentCheck

FileNext == AgentStep \/ ProbeStarts \/ ProbeAnswers \/ WorldChanges \/ \E c \in Clis : CliStep(c)

FileSpec == FileInit /\ [][FileNext]_fileVars

(* The agent's loop runs once a second, the probe's interval passes and    *)
(* its request ends by its timeout; a command once read runs to its end;   *)
(* nobody is obliged to type a command.                                    *)
FairFileSpec ==
    /\ FileSpec
    /\ WF_fileVars(AgentStep) /\ WF_fileVars(ProbeAnswers)
    /\ SF_fileVars(ProbeStarts)
    /\ \A c \in Clis : WF_fileVars(cli[c].pc # "idle" /\ CliStep(c))

------------------------------------------------------------------------------
(* Types; and a stop command only ever carries a disconnected              *)
(* configuration to the file.                                              *)
FileTypeOK ==
    /\ file \in Config /\ torn \in BOOLEAN
    /\ cli \in [Clis -> [cmd : Starts \cup {"none", "pause", "exit", "onboard", "forget",
                                "use", "install"},
                         pc : {"idle", "verify", "offer", "menu", "truncate", "write",
                               "stopRead", "stopTruncate", "stopWrite", "kill", "launch"},
                         next : {"idle", "menu", "stopRead", "launch"},
                         conf : Config, found : [Endpoints -> Serving]]]
    /\ commands \in 0..CliCommands /\ changes \in 0..MaxChanges
    /\ agent \in [pc : {"off", "sleep", "loaded", "saving", "normalizing", "check"},
                  conf : Config]
    /\ toolProbe \in [st : {"idle", "running", "yes", "no"}, of : {{}} \cup {{k} : k \in Recorded}]
    /\ world \in [Endpoints -> Serving]
    /\ asked \in {"run", "pause", "exit"}
    /\ \A c \in Clis : cli[c].pc \in {"stopTruncate", "stopWrite"} =>
           ~cli[c].conf.connected /\ cli[c].conf.paused

AgentSaves == agent.pc \in {"saving", "normalizing"}

Settled == (\A c \in Clis : cli[c].pc = "idle") /\ ~AgentSaves

(* A pause takes effect: once `opengpu pause` has written its              *)
(* configuration, the agent stops and cools the runtime, or the            *)
(* contributor asks for something else.                                    *)
PauseHonoured == asked = "pause" ~> agent.pc = "off" \/ asked # "pause"

(* An exit takes effect even when the agent writes its old configuration   *)
(* back in between, because the recorded process is killed.                *)
ExitHonoured == asked = "exit" ~> agent.pc = "off" \/ asked # "exit"

(* A contributed cluster stays recorded until a command drops it that asks *)
(* about clusters.  The code breaks it: any command that meets a truncated *)
(* file goes on from the built-in default.                                 *)
ClusterKept ==
    [][file.cluster # {} /\ file'.cluster = {} =>
          \E c \in Clis : cli[c].cmd \in Starts \cup {"install", "forget"}]_fileVars

(* A file that says the node must not run is never left with an agent that *)
(* keeps running.                                                          *)
StoppedFileStopsAgent ==
    <>[](~torn /\ (file.paused \/ ~file.connected)) => <>[](agent.pc = "off")

(* A start nobody can answer questions for (a service, a script) launches  *)
(* the agent only on a contributed cluster which this command itself saw   *)
(* serving the recorded model, whatever the endpoints did since the        *)
(* cluster was recorded.                                                   *)
ScriptedStartIsChecked ==
    \A c \in Clis : cli[c].pc = "launch" /\ ~Interactive(cli[c].cmd) =>
        \A k \in cli[c].conf.cluster : k.model \in cli[c].found[k.url].models

(* An agent that keeps running on a cluster that does emit native tool     *)
(* calls gets that recorded, however many probes failed before the server  *)
(* was ready: a failed probe is followed by another.                       *)
ToolsGetVerified ==
    <>[](/\ agent.pc # "off" /\ Settled
         /\ \E k \in file.cluster : Serves(k) /\ k.url \in Capable)
      => <>[](\A k \in file.cluster : k.tools)

(* The endpoint recorded as tool capable is one that emits native tool     *)
(* calls.  The code breaks it: a probe of the cluster recorded before is   *)
(* booked on the cluster recorded now.                                     *)
ToolsAreTheEndpoints == \A k \in file.cluster : k.tools => k.url \in Capable
==============================================================================
