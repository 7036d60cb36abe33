--------------------------- MODULE ChatConnector ----------------------------
(***************************************************************************)
(* The chat connector (apps/cli/src/chat_connector.rs): a process that     *)
(* polls the chat service for tasks and carries them out in project        *)
(* folders.  A project request is answered in the poll loop; any other     *)
(* task has a worker thread, with a heartbeat thread, a thread that posts  *)
(* its events in batches, and, when Hermes is the agent, a child process   *)
(* that hermes_adapter.rs starts, watches and ends.                        *)
(*                                                                         *)
(* One project folder.  A prompt is what run_task finds out about it, a    *)
(* response is the evidence found in it, an error is its class, a file     *)
(* change is who made it.  Project Swarm is its outcome here.              *)
(***************************************************************************)
EXTENDS Naturals, FiniteSets

CONSTANTS Tasks,
          Asks,              \* the requests each task may turn out to be
          RecoveryAttempts,  \* HERMES_RECOVERY_ATTEMPTS
          RepairAttempts,    \* HERMES_ACCEPTANCE_REPAIR_ATTEMPTS
          Installed,         \* connection id an older installation left, or "none"
          MaxEvents,         \* bound: events waiting to be posted
          MaxDeaths          \* bound: ends of the connector's process

Checks == {"verification", "tests", "build", "browser"}
Kinds == {"operation", "initialize", "native", "hermes"}
Requests == [kind : Kinds, mutations : BOOLEAN, changes : BOOLEAN, swarm : BOOLEAN,
             checks : SUBSET Checks]

ASSUME ConnectorAssumption ==
    /\ Asks \in [Tasks -> SUBSET Requests]
    /\ {RecoveryAttempts, RepairAttempts, MaxEvents} \subseteq Nat \ {0}
    /\ MaxDeaths \in Nat /\ Installed \in {"none", "legacy"}
    /\ "user" \notin Tasks

VARIABLES
    proc,     \* where the connector's main thread is
    mode,     \* [reauthorize, only] of ConnectorOptions
    deaths,   \* ends of the process so far, for the bound
    file,     \* chat-connection.json: [device, connection, token]
    worker,   \* tasks whose handle the poll loop holds in `worker`
    inline,   \* project request answered in the poll loop
    task,     \* what the thread of each task holds
    server,   \* what the chat service knows of each task
    told,     \* what came of reports of completion: none, unanswered, answered,
              \* or contradicted by a failure after the answer
    proj,     \* the project folder: [dir, ignore, git, commits, marker]
    dirty,    \* who has uncommitted changes in it: tasks, or the user and strays
    staged,   \* those of them in Git's index
    stray     \* a Hermes that nobody watches still works in it

procVars == <<proc, mode, deaths, file>>
pollVars == <<worker, inline>>
serverVars == <<server, told>>
projVars == <<proj, dirty, staged>>
vars == <<procVars, pollVars, task, serverVars, projVars, stray>>

(* The request of a task nobody has been handed. *)
NoRequest == [kind |-> "native", mutations |-> FALSE, changes |-> FALSE, swarm |-> FALSE, checks |-> {}]

Idle == [ask |-> NoRequest, pc |-> "none", stop |-> FALSE, hb |-> "none", queue |-> 0, batch |-> "none",
         child |-> "none", resp |-> "none", err |-> "none", attempt |-> 0, repair |-> 0,
         ev |-> {}, changed |-> FALSE]

(* The errors hermes_adapter::run returns, by what the connector tells     *)
(* apart: a gateway or model failure, one that also says the context is    *)
(* too long, a stalled tool, a cancellation, anything else.                *)
Errors == {"model", "context", "stall", "cancelled", "other"}

NoTask == {}
Ended == {"none", "done", "lost"}
Request(t) == task[t].ask
Blank(t) == [Idle EXCEPT !.ask = task[t].ask]
Live(t) == task[t].pc \notin Ended
Empty == ~proj.ignore /\ ~proj.git /\ dirty = {}

Init ==
    /\ proc = "off" /\ mode = [reauthorize |-> FALSE, only |-> FALSE] /\ deaths = 0
    /\ file = [device |-> "none", connection |-> Installed, token |-> FALSE]
    /\ worker = NoTask /\ inline = NoTask
    /\ task = [t \in Tasks |-> Idle]
    /\ server = [t \in Tasks |-> "queued"]
    /\ told = [t \in Tasks |-> "none"]
    /\ proj \in {[dir |-> FALSE, ignore |-> FALSE, git |-> FALSE, commits |-> FALSE, marker |-> FALSE],
                 [dir |-> TRUE, ignore |-> TRUE, git |-> TRUE, commits |-> TRUE, marker |-> TRUE]}
    /\ dirty = {} /\ staged = {} /\ stray = FALSE

With(t, r) == task' = [task EXCEPT ![t] = r]
Goto(t, pc) == With(t, [task[t] EXCEPT !.pc = pc])
------------------------------------------------------------------------------
(* Starting up. *)

(* acquire_connector_instance: the lock is the operating system's and goes *)
(* with the process.  A second connector ends with an error and changes    *)
(* nothing.                                                                *)
Connects ==
    /\ proc = "off"
    /\ proc' = "identify"
    /\ mode' \in [reauthorize : BOOLEAN, only : BOOLEAN]
    /\ UNCHANGED <<deaths, file, pollVars, task, serverVars, projVars, stray>>

(* The tray's supervise_chat_connector, on Windows: once a token is saved, *)
(* a connector that has stopped is started again.  A living one is never   *)
(* ended, and a second one ends at the lock.                               *)
Supervises ==
    /\ proc = "off" /\ file.token
    /\ proc' = "identify" /\ mode' = [reauthorize |-> FALSE, only |-> FALSE]
    /\ UNCHANGED <<deaths, file, pollVars, task, serverVars, projVars, stray>>

(* persistent_device_id: kept, or adopted from the connection, or new.     *)
DeviceId(f) ==
    IF f.device # "none" THEN f.device
    ELSE IF f.connection # "none" THEN f.connection ELSE "device"

(* connection_id(regenerate) *)
ConnectionId(f, regenerate) ==
    IF ~regenerate /\ f.connection # "none" THEN f.connection ELSE "fresh"

(* save_workspace, persistent_device_id, connection_id, saved_token: each  *)
(* reads the whole file and writes it back under the lock.                 *)
Identifies ==
    /\ proc = "identify"
    /\ file' = [file EXCEPT !.device = DeviceId(file),
                            !.connection = ConnectionId(file, mode.reauthorize)]
    /\ proc' = IF file.token /\ ~mode.reauthorize THEN "register" ELSE "authorize"
    /\ UNCHANGED <<mode, deaths, pollVars, task, serverVars, projVars, stray>>

(* bootstrap_token and save_token: the user approves in the browser, or    *)
(* the session expires, or nothing happens for the 120 polls.              *)
Authorizes ==
    /\ proc = "authorize"
    /\ \/ proc' = "register" /\ file' = [file EXCEPT !.token = TRUE]
       \/ proc' = "off" /\ UNCHANGED file
    /\ UNCHANGED <<mode, deaths, pollVars, task, serverVars, projVars, stray>>

(* The registration, answered with the connection id the service keeps     *)
(* for the device, which save_connection_id stores.  A failure ends the    *)
(* process, and so does authorize_only.                                    *)
Registers ==
    /\ proc = "register"
    /\ \/ /\ file' = [file EXCEPT !.connection = "canonical"]
          /\ proc' = IF mode.only THEN "off" ELSE "poll"
       \/ proc' = "off" /\ UNCHANGED file
    /\ mode' = [reauthorize |-> FALSE, only |-> FALSE]
    /\ UNCHANGED <<deaths, pollVars, task, serverVars, projVars, stray>>
------------------------------------------------------------------------------
(* The poll loop. *)

(* A finished worker is reaped at the top of the loop. *)
Reaps(t) ==
    /\ proc = "poll" /\ t \in worker /\ task[t].pc = "done"
    /\ worker' = NoTask /\ With(t, Idle)
    /\ told' = [told EXCEPT ![t] = "none"]
    /\ server' = [server EXCEPT ![t] = "over"]
    /\ UNCHANGED <<procVars, inline, projVars, stray>>

ProjectRequestsOnly == worker # NoTask

(* The service hands out a task, a project request when asked for those    *)
(* only.  A failed poll is repeated after a pause.                         *)
Polls(t, r) ==
    /\ proc = "poll" /\ server[t] = "queued"
    /\ \A u \in worker : task[u].pc # "done"
    /\ ProjectRequestsOnly => r.kind = "operation"
    /\ server' = [server EXCEPT ![t] = "assigned"]
    /\ With(t, [Idle EXCEPT !.ask = r, !.pc = "begin"])
    /\ IF r.kind = "operation"
         THEN proc' = "inline" /\ inline' = {t} /\ UNCHANGED worker
         ELSE worker' = {t} /\ UNCHANGED <<proc, inline>>
    /\ UNCHANGED <<mode, deaths, file, told, projVars, stray>>
------------------------------------------------------------------------------
(* Reports to the service.  post_remote records the connector's activity   *)
(* and fails when the request is refused or does not arrive ("failed") or  *)
(* its answer does not ("lost").  retry_terminal_report repeats it while   *)
(* the failure may pass: the same three outcomes, over all its attempts.   *)

Outcomes == {"ok", "lost", "failed"}

(* The service hears what was posted. *)
Heard(t, verdict, o) ==
    CASE verdict = "completed" /\ o = "ok" -> "answered"
      [] verdict = "completed" /\ o = "lost" -> "unanswered"
      [] verdict = "failed" /\ o # "failed" /\ told[t] = "answered" -> "contradicted"
      [] OTHER -> told[t]

Hears(t, verdict, o) == told' = [told EXCEPT ![t] = Heard(t, verdict, o)]

(* The end of run_and_report: of a worker's thread, or of the project      *)
(* request the loop was busy with.                                         *)
Over(t, verdict, o) ==
    IF t \in inline
      THEN /\ proc' = "poll" /\ inline' = NoTask /\ UNCHANGED worker
           /\ With(t, Idle) /\ told' = [told EXCEPT ![t] = "none"]
      ELSE Goto(t, "done") /\ Hears(t, verdict, o) /\ UNCHANGED <<proc, pollVars>>
------------------------------------------------------------------------------
(* run_task: the three kinds of work. *)

(* Early return of run_task: the heartbeat is dropped, which stops and     *)
(* joins it; the batching thread is left to itself.                        *)
Fails(t) ==
    With(t, [Blank(t) EXCEPT !.pc = IF task[t].hb = "none" THEN "again" ELSE "unwind",
                             !.stop = TRUE, !.hb = task[t].hb])

Unwinds(t) ==
    /\ task[t].pc = "unwind" /\ task[t].hb # "on"
    /\ With(t, [Blank(t) EXCEPT !.pc = "again"])
    /\ UNCHANGED <<procVars, pollVars, serverVars, projVars, stray>>

(* bounded_task_workspace: the folder of the project, made when the task   *)
(* may change things; a name that is not a slug or leads outside fails.    *)
Begins(t) ==
    /\ task[t].pc = "begin" /\ Request(t).kind # "operation"
    /\ \/ /\ proj.dir \/ Request(t).mutations
          /\ proj' = [proj EXCEPT !.dir = TRUE]
          /\ Goto(t, IF Request(t).kind = "initialize" THEN "inspect" ELSE "announce")
       \/ Fails(t) /\ UNCHANGED proj
    /\ UNCHANGED <<procVars, pollVars, serverVars, dirty, staged, stray>>

(* Everyone at work sees the workspace change since its snapshot. *)
Touch(r) == [r EXCEPT !.changed = @ \/ r.batch = "open"]

(* t changes files and goes on as r. *)
Writes(t, r) == task' = [u \in Tasks |-> Touch(IF u = t THEN r ELSE task[u])]

(* project_browser::execute, in the poll loop.  list, read, config_read,   *)
(* git_status and open leave the project alone, and so do git_fetch,       *)
(* git_push, git_remote_set and git_create_branch as far as its files go.  *)
ReadsProject(t) == proj.dir /\ Goto(t, "answer") /\ UNCHANGED projVars

(* new_file, new_folder, config_write, git_update *)
WritesFiles(t) ==
    /\ Request(t).mutations
    /\ dirty' = dirty \cup {"user"} /\ proj' = [proj EXCEPT !.dir = TRUE]
    /\ Writes(t, [task[t] EXCEPT !.pc = "answer"])
    /\ UNCHANGED staged

(* git_init *)
InitsGit(t) ==
    /\ Request(t).mutations /\ ~proj.git
    /\ proj' = [proj EXCEPT !.dir = TRUE, !.git = TRUE]
    /\ Goto(t, "answer") /\ UNCHANGED <<dirty, staged>>

(* git_clone, into an empty folder *)
ClonesGit(t) ==
    /\ Request(t).mutations /\ Empty
    /\ proj' = [proj EXCEPT !.dir = TRUE, !.git = TRUE, !.commits = TRUE]
    /\ Writes(t, [task[t] EXCEPT !.pc = "answer"])
    /\ UNCHANGED <<dirty, staged>>

(* git_commit adds everything there is, looks at the index and commits.    *)
AddsAll(t) ==
    /\ Request(t).mutations /\ proj.git
    /\ staged' = dirty /\ Goto(t, "indexed") /\ UNCHANGED <<proj, dirty>>

(* Any of them may fail. *)
Operates(t) ==
    /\ task[t].pc = "begin" /\ Request(t).kind = "operation"
    /\ \/ Fails(t) /\ UNCHANGED projVars
       \/ ReadsProject(t) \/ WritesFiles(t) \/ InitsGit(t) \/ ClonesGit(t) \/ AddsAll(t)
    /\ UNCHANGED <<procVars, pollVars, serverVars, stray>>

(* Nothing to commit is an answer of its own. *)
LooksAtIndex(t) ==
    /\ task[t].pc = "indexed"
    /\ Goto(t, IF staged = {} THEN "answer" ELSE "committing")
    /\ UNCHANGED <<procVars, pollVars, serverVars, projVars, stray>>

(* git commit takes what is in the index, and fails when the index holds   *)
(* nothing new any more.                                                   *)
TakesIndex ==
    /\ staged # {} /\ dirty' = dirty \ staged /\ staged' = {}
    /\ proj' = [proj EXCEPT !.commits = TRUE]

CommitsAll(t) ==
    /\ task[t].pc = "committing"
    /\ \/ TakesIndex /\ Goto(t, "answer")
       \/ Fails(t) /\ UNCHANGED projVars
    /\ UNCHANGED <<procVars, pollVars, serverVars, stray>>

(* initialize_new_project_repository, a Git command at a time.             *)
Inspects(t) ==
    /\ task[t].pc = "inspect"
    /\ Goto(t, IF Empty THEN "ignore" ELSE "created")
    /\ UNCHANGED <<procVars, pollVars, serverVars, projVars, stray>>

(* Mutant of InitializeStep: the marker is written before the commit. *)
InitializeStepMarksEarly(pc) ==
    CASE pc = "ignore"   -> <<[proj EXCEPT !.ignore = TRUE], "init">>
      [] pc = "init"     -> <<[proj EXCEPT !.git = TRUE, !.marker = TRUE], "baseline">>
      [] pc = "baseline" -> <<[proj EXCEPT !.commits = TRUE], "mark">>
      [] pc = "mark"     -> <<proj, "created">>

InitializeStep(pc) ==
    CASE pc = "ignore"   -> <<[proj EXCEPT !.ignore = TRUE], "init">>
      [] pc = "init"     -> <<[proj EXCEPT !.git = TRUE], "baseline">>
      [] pc = "baseline" -> <<[proj EXCEPT !.commits = TRUE], "mark">>
      [] pc = "mark"     -> <<[proj EXCEPT !.marker = TRUE], "created">>

Initializes(t) ==
    /\ task[t].pc \in {"ignore", "init", "baseline", "mark"}
    /\ \/ /\ proj' = InitializeStep(task[t].pc)[1]
          /\ Goto(t, InitializeStep(task[t].pc)[2])
       \/ Fails(t) /\ UNCHANGED proj
    /\ UNCHANGED <<procVars, pollVars, serverVars, dirty, staged, stray>>

(* The event that the project exists; a failure to post it fails the task. *)
Created(t) ==
    /\ task[t].pc = "created"
    /\ Goto(t, "answer") \/ Fails(t)
    /\ UNCHANGED <<procVars, pollVars, serverVars, projVars, stray>>

(* Project requests and initialisation post their completion once.         *)
Answers(t) ==
    /\ task[t].pc = "answer"
    /\ \E o \in Outcomes :
         IF o = "ok" THEN Over(t, "completed", o)
         ELSE Fails(t) /\ Hears(t, "completed", o) /\ UNCHANGED <<proc, pollVars>>
    /\ UNCHANGED <<mode, deaths, file, server, projVars, stray>>

(* workspace_snapshot, the start events and the guidance of the project;   *)
(* then the heartbeat and the batching thread start.                       *)
Announces(t) ==
    /\ task[t].pc = "announce"
    /\ \/ With(t, [task[t] EXCEPT !.hb = "on", !.batch = "open", !.changed = FALSE,
                     !.pc = IF Request(t).kind = "native" THEN "chat"
                            ELSE IF Request(t).mutations /\ Request(t).swarm THEN "swarm"
                            ELSE "hermes"])
       \/ Fails(t)
    /\ UNCHANGED <<procVars, pollVars, serverVars, projVars, stray>>
------------------------------------------------------------------------------
(* The agents. *)

(* post_chat to the local agent server, started and tried again when it    *)
(* does not answer.  What the agent does in between is AgentSession's.     *)
Chats(t) ==
    /\ task[t].pc \in {"chat", "rechat"}
    /\ \/ /\ \E c \in BOOLEAN :
               LET r == [task[t] EXCEPT !.pc = "accept", !.resp = "ok"]
               IN  IF c /\ Request(t).mutations
                     THEN dirty' = dirty \cup {t} /\ Writes(t, r)
                     ELSE With(t, r) /\ UNCHANGED dirty
       \/ task[t].pc = "chat" /\ (Goto(t, "rechat") \/ Fails(t)) /\ UNCHANGED dirty
       \/ /\ task[t].pc = "rechat"
          /\ With(t, [task[t] EXCEPT !.pc = "accept", !.resp = "err"])
          /\ UNCHANGED dirty
    /\ UNCHANGED <<procVars, pollVars, serverVars, proj, staged, stray>>

(* checkpoint_project_for_swarm: nothing to do in a clean repository,      *)
(* refused outside one, with conflicts, or with untracked secrets; else    *)
(* everything is added and committed.  Where it fails, Hermes takes over.  *)
Checkpoints(t) ==
    /\ task[t].pc = "swarm"
    /\ \/ proj.git /\ dirty = {} /\ UNCHANGED staged
          /\ With(t, [task[t] EXCEPT !.pc = "swarming", !.child = "swarm"])
       \/ proj.git /\ dirty # {} /\ staged' = dirty /\ Goto(t, "checkpoint")
       \/ Goto(t, "hermes") /\ UNCHANGED staged
    /\ UNCHANGED <<procVars, pollVars, serverVars, proj, dirty, stray>>

Checkpointed(t) ==
    /\ task[t].pc = "checkpoint"
    /\ \/ TakesIndex /\ With(t, [task[t] EXCEPT !.pc = "swarming", !.child = "swarm"])
       \/ Goto(t, "hermes") /\ UNCHANGED projVars
    /\ UNCHANGED <<procVars, pollVars, serverVars, stray>>

(* project_swarm::run, whose steps are ProjectSwarm's.  At times it waits  *)
(* for a process that no cancellation ends: its verification command, or   *)
(* one that left the group of a Hermes and keeps its output open.          *)
SwarmWaits(t) ==
    /\ task[t].pc = "swarming"
    /\ With(t, [task[t] EXCEPT !.child = IF @ = "swarm" THEN "deaf" ELSE "swarm"])
    /\ UNCHANGED <<procVars, pollVars, serverVars, projVars, stray>>

(* What it publishes is committed, and it may fail after that.  Its        *)
(* evidence names its own tool and its verification.                       *)
SwarmEnds(t) ==
    /\ task[t].pc = "swarming" /\ task[t].child = "swarm"
    /\ \E r \in {[task[t] EXCEPT !.pc = "accept", !.child = "none", !.resp = "ok",
                                 !.ev = {"tools", "verification"} \cup ev]
                    : ev \in SUBSET Request(t).checks}
               \cup {[task[t] EXCEPT !.pc = "hermes", !.child = "none"]} :
         Writes(t, r) \/ With(t, r)
    /\ UNCHANGED <<procVars, pollVars, serverVars, projVars, stray>>

(* hermes_adapter::run up to the child: the managed skills are brought up  *)
(* to date whether or not that works, the model proxy and the bridge must  *)
(* be there, the saved session is resumed, and the child leads a process   *)
(* group of its own.                                                       *)
(* Without the embedded runtime it is Hermes' command line, "plain": it    *)
(* reports nothing while it runs, and no watchdog looks after it.          *)
HermesStarts(t) ==
    /\ task[t].pc = "hermes"
    /\ \/ \E c \in {"model", "plain"} :
            With(t, [task[t] EXCEPT !.pc = "monitor", !.child = c, !.ev = {}, !.resp = "none", !.err = "none"])
       \/ With(t, [task[t] EXCEPT !.pc = "answered", !.resp = "err", !.err = "other"])
    /\ UNCHANGED <<procVars, pollVars, serverVars, projVars, stray>>

Structured(t) == task[t].pc = "monitor" /\ task[t].child \in {"model", "tool"}

(* The child works: it enters and leaves tools, writes files when it may,  *)
(* starts servers for its tests, and reports events that the monitor       *)
(* passes to the batching thread.                                          *)
HermesWorks(t) ==
    /\ \/ /\ Structured(t) /\ task[t].queue < MaxEvents
          /\ \E c \in {"model", "tool"} :
               LET r == [task[t] EXCEPT !.child = c, !.queue = @ + 1]
               IN  \/ With(t, r) /\ UNCHANGED dirty
                   \/ /\ Request(t).mutations /\ task[t].child = "tool"
                      /\ dirty' = dirty \cup {t} /\ Writes(t, r)
       \/ /\ task[t].pc = "monitor" /\ task[t].child = "plain" /\ Request(t).mutations
          /\ dirty' = dirty \cup {t} /\ Writes(t, task[t])
    /\ UNCHANGED <<procVars, pollVars, serverVars, proj, staged, stray>>

(* runtime_session_ready: save_session, whose failure leaves the loop with *)
(* the child running.  (The session that is resumed or cleared is not      *)
(* modelled: what Hermes does with it is its own.)                         *)
SessionNotSaved(t) ==
    /\ Structured(t)
    /\ With(t, [task[t] EXCEPT !.pc = "answered", !.resp = "err", !.err = "other",
                               !.child = "none"])
    /\ stray' = TRUE
    /\ UNCHANGED <<procVars, pollVars, serverVars, projVars>>

(* TaskProcessGroup::terminate.  On Windows the job object ends the child  *)
(* and every descendant; on Unix only the process group ends, and a        *)
(* descendant that left it works on.                                       *)
Terminate == stray' \in {stray, TRUE}

(* The child is over and its group is ended; run_task goes on as r when    *)
(* the readers of its output are joined.  A descendant that left the group *)
(* may keep the output open: nothing is looked at meanwhile.               *)
Leaves(t, r) ==
    \/ Terminate /\ With(t, r)
    \/ stray' = TRUE /\ With(t, [r EXCEPT !.pc = "reading", !.child = "deaf"])

(* The result of hermes_adapter::run. *)
Returned(r) == [r EXCEPT !.pc = IF r.resp = "ok" THEN "accept" ELSE "answered", !.child = "none"]

(* The child leaves with a result while servers it started still run.  A   *)
(* response has evidence, unless Hermes was plain; a failure has a class.  *)
HermesEnds(t) ==
    /\ task[t].pc = "monitor"
    /\ \/ \E ev \in SUBSET (Request(t).checks \cup {"tools"}) :
            /\ task[t].child = "plain" => ev = {}
            /\ Leaves(t, Returned([task[t] EXCEPT !.resp = "ok", !.attempt = 0, !.ev = ev]))
       \/ \E e \in {"model", "context", "other"} :
            Leaves(t, Returned([task[t] EXCEPT !.resp = "err", !.err = e]))
    /\ UNCHANGED <<procVars, pollVars, serverVars, projVars>>

(* ProgressWatchdog: no event for longer than the model or the tools at    *)
(* work may take.                                                          *)
HermesStalls(t) ==
    /\ Structured(t)
    /\ LET e == IF task[t].child = "tool" THEN "stall" ELSE "model"
       IN  Leaves(t, Returned([task[t] EXCEPT !.resp = "err", !.err = e]))
    /\ UNCHANGED <<procVars, pollVars, serverVars, projVars>>

(* The descendant lets go of the output at last. *)
Reads(t) ==
    /\ task[t].pc = "reading"
    /\ With(t, Returned(task[t]))
    /\ UNCHANGED <<procVars, pollVars, serverVars, projVars, stray>>

(* The flag is looked at in every round of the monitor, and the readers    *)
(* are then left to themselves.                                            *)
HermesCancelled(t) ==
    /\ task[t].pc = "monitor" /\ task[t].stop
    /\ With(t, [task[t] EXCEPT !.pc = "answered", !.resp = "err", !.err = "cancelled", !.child = "none"])
    /\ Terminate
    /\ UNCHANGED <<procVars, pollVars, serverVars, projVars>>
------------------------------------------------------------------------------
(* run_hermes_with_recovery *)

(* is_retryable_model_failure, of the messages of each class. *)
Retryable(e) == e \in {"model", "context"}

RecoveryAllowed(e, attempt, stopped) ==
    Retryable(e) /\ attempt + 1 < RecoveryAttempts /\ ~stopped

(* The error of the last attempt is the response. *)
GivenUp(r) == [r EXCEPT !.pc = "accept", !.err = "none", !.attempt = 0]

(* After an error about the context the session is cleared first, and an   *)
(* attempt whose session cannot be cleared is the last.                    *)
Recovers(t) ==
    /\ task[t].pc = "answered"
    /\ RecoveryAllowed(task[t].err, task[t].attempt, task[t].stop)
    /\ \/ Goto(t, "delay")
       \/ task[t].err = "context" /\ With(t, GivenUp(task[t]))
    /\ UNCHANGED <<procVars, pollVars, serverVars, projVars, stray>>

Resumes(t) ==
    /\ task[t].pc = "delay"
    /\ IF task[t].stop
         THEN With(t, GivenUp(task[t]))
         ELSE With(t, [task[t] EXCEPT !.pc = "hermes", !.attempt = @ + 1])
    /\ UNCHANGED <<procVars, pollVars, serverVars, projVars, stray>>

Settles(t) ==
    /\ task[t].pc = "answered"
    /\ ~RecoveryAllowed(task[t].err, task[t].attempt, task[t].stop)
    /\ With(t, GivenUp(task[t]))
    /\ UNCHANGED <<procVars, pollVars, serverVars, projVars, stray>>
------------------------------------------------------------------------------
(* Acceptance. *)

(* requires_project_file_change, for a task that may change files. *)
Judged(t) ==
    Request(t).kind = "hermes" /\ Request(t).mutations /\ Request(t).changes

(* What the response is missing. *)
Missing(t) == ({"tools"} \cup Request(t).checks) \ task[t].ev

NeedsRepair(t) ==
    /\ Judged(t) /\ task[t].resp = "ok"
    /\ Missing(t) # {} \/ ~task[t].changed
    /\ task[t].repair < RepairAttempts

(* A repair starts from the files, without the old conversation; run_task  *)
(* returns early when that cannot be cleared.                              *)
Repairs(t) ==
    /\ task[t].pc = "accept" /\ NeedsRepair(t)
    /\ With(t, [task[t] EXCEPT !.pc = "hermes", !.repair = @ + 1]) \/ Fails(t)
    /\ UNCHANGED <<procVars, pollVars, serverVars, projVars, stray>>

(* The response becomes an error; its evidence is of no more use. *)
Rejects(t) ==
    With(t, [task[t] EXCEPT !.pc = "drain", !.resp = "err", !.repair = 0, !.ev = {}, !.changed = FALSE])

(* The final checks: the tools that were used are not among them. *)
Accepted(t) == task[t].changed /\ Request(t).checks \subseteq task[t].ev

Accepts(t) ==
    /\ task[t].pc = "accept"
    /\ ~NeedsRepair(t)
    /\ IF task[t].resp = "ok" /\ (Judged(t) => Accepted(t))
         THEN With(t, [task[t] EXCEPT !.pc = "add", !.repair = 0])
         ELSE Rejects(t)
    /\ UNCHANGED <<procVars, pollVars, serverVars, projVars, stray>>
------------------------------------------------------------------------------
(* checkpoint_managed_project: add, look at the index, commit.  A project  *)
(* the connector did not create is left alone.                             *)

Adds(t) ==
    /\ task[t].pc = "add"
    /\ \/ ~proj.marker /\ Goto(t, "drain") /\ UNCHANGED staged
       \/ proj.marker /\ staged' = dirty /\ Goto(t, "diff")
       \/ /\ proj.marker /\ UNCHANGED staged
          /\ Rejects(t)
    /\ UNCHANGED <<procVars, pollVars, serverVars, proj, dirty, stray>>

(* Mutant of DiffIsClean: the exit status is taken the other way round. *)
DiffIsCleanInverted == staged # {}

(* git diff --cached --quiet *)
DiffIsClean == staged = {}

Diffs(t) ==
    /\ task[t].pc = "diff"
    /\ Goto(t, IF DiffIsClean THEN "drain" ELSE "commit")
    /\ UNCHANGED <<procVars, pollVars, serverVars, projVars, stray>>

Commits(t) ==
    /\ task[t].pc = "commit"
    /\ \/ TakesIndex /\ Goto(t, "drain")
       \/ Rejects(t) /\ UNCHANGED projVars
    /\ UNCHANGED <<procVars, pollVars, serverVars, stray>>
------------------------------------------------------------------------------
(* The end of a task. *)

(* TaskEventBatcher: the events there are go out together; an error is     *)
(* ignored.  The thread ends when the senders are gone and it has sent     *)
(* what was left.                                                          *)
Posts(t) ==
    /\ task[t].batch \in {"open", "shut"} /\ task[t].queue > 0
    /\ With(t, [task[t] EXCEPT !.queue = 0])
    /\ UNCHANGED <<procVars, pollVars, serverVars, projVars, stray>>

BatchEnds(t) ==
    /\ task[t].batch = "shut" /\ task[t].queue = 0
    /\ With(t, [task[t] EXCEPT !.batch = "ended"])
    /\ UNCHANGED <<procVars, pollVars, serverVars, projVars, stray>>

(* The senders are dropped, the swarm's clone among them. *)
Drains(t) ==
    /\ task[t].pc = "drain"
    /\ With(t, [task[t] EXCEPT !.pc = "flush", !.batch = "shut"])
    /\ UNCHANGED <<procVars, pollVars, serverVars, projVars, stray>>

(* event_batcher.finish joins; then the events of the local session and    *)
(* those of the changed files are posted, whether or not that works.       *)
Flushes(t) ==
    /\ task[t].pc = "flush" /\ task[t].batch = "ended"
    /\ With(t, [task[t] EXCEPT !.pc = "report"])
    /\ UNCHANGED <<procVars, pollVars, serverVars, projVars, stray>>

Verdict(t) == IF task[t].resp = "ok" THEN "completed" ELSE "failed"

(* post_terminal_task, then heartbeat.finish: the lease on the task is     *)
(* kept until the report is over.                                          *)
Reports(t) ==
    /\ task[t].pc = "report"
    /\ \E o \in Outcomes :
         /\ Hears(t, Verdict(t), o)
         /\ With(t, IF o = "ok" THEN [task[t] EXCEPT !.pc = "join", !.stop = TRUE]
                    ELSE [Blank(t) EXCEPT !.pc = "unwind", !.stop = TRUE, !.hb = task[t].hb])
    /\ UNCHANGED <<procVars, pollVars, server, projVars, stray>>

(* Mutant of Joins: the end of a task is reported whatever it was. *)
JoinsAndReports(t) ==
    /\ task[t].pc = "join" /\ task[t].hb # "on"
    /\ With(t, [Blank(t) EXCEPT !.pc = "again"])
    /\ UNCHANGED <<procVars, pollVars, serverVars, projVars, stray>>

Joins(t) ==
    /\ task[t].pc = "join" /\ task[t].hb # "on"
    /\ With(t, [Blank(t) EXCEPT !.pc = "done"])
    /\ UNCHANGED <<procVars, pollVars, serverVars, projVars, stray>>

(* run_and_report: an error of run_task is reported as a failure, a failed *)
(* report of the completion too.                                           *)
ReportsAgain(t) ==
    /\ task[t].pc = "again"
    /\ \E o \in Outcomes : Over(t, "failed", o)
    /\ UNCHANGED <<mode, deaths, file, server, projVars, stray>>
------------------------------------------------------------------------------
(* The other threads and the surroundings. *)

(* Mutant of HeartbeatLearns: only the heartbeat ends. *)
HeartbeatLearnsAlone(t) ==
    /\ task[t].hb = "on" /\ ~task[t].stop /\ server[t] = "cancelled"
    /\ With(t, [task[t] EXCEPT !.hb = "ended"])
    /\ UNCHANGED <<procVars, pollVars, serverVars, projVars, stray>>

(* The heartbeat learns of a cancellation, sets the flag, cancels the      *)
(* local session and ends.                                                 *)
HeartbeatLearns(t) ==
    /\ task[t].hb = "on" /\ ~task[t].stop /\ server[t] = "cancelled"
    /\ With(t, [task[t] EXCEPT !.stop = TRUE, !.hb = "ended"])
    /\ UNCHANGED <<procVars, pollVars, serverVars, projVars, stray>>

HeartbeatEnds(t) ==
    /\ task[t].hb = "on" /\ task[t].stop
    /\ With(t, [task[t] EXCEPT !.hb = "ended"])
    /\ UNCHANGED <<procVars, pollVars, serverVars, projVars, stray>>

(* A task without a heartbeat never hears of it. *)
UserCancels(t) ==
    /\ server[t] = "assigned" /\ task[t].hb = "on"
    /\ server' = [server EXCEPT ![t] = "cancelled"]
    /\ UNCHANGED <<procVars, pollVars, task, told, projVars, stray>>

(* What is left in the project of an assignment that nobody carries on. *)
Anonymous(who) == IF who = {} THEN {} ELSE {"user"}

(* The connector's process ends: the user ends it, or its watchdog does,   *)
(* when nothing was posted for CONNECTOR_STALL_TIMEOUT: a project request  *)
(* that takes long while no heartbeat runs.  A Hermes child lives on.      *)
Dies ==
    /\ proc \in {"poll", "inline"} /\ deaths < MaxDeaths
    /\ proc' = "off" /\ deaths' = deaths + 1 /\ worker' = NoTask /\ inline' = NoTask
    /\ task' = [t \in Tasks |->
                  IF Live(t) THEN [Blank(t) EXCEPT !.pc = "lost"] ELSE Idle]
    /\ stray' = (stray \/ \E t \in Tasks : task[t].pc = "monitor")
    /\ told' = [t \in Tasks |-> "none"]
    /\ server' = [t \in Tasks |-> IF told[t] = "none" /\ task[t].pc # "done" THEN server[t] ELSE "over"]
    /\ dirty' = Anonymous(dirty) /\ staged' = Anonymous(staged)
    /\ UNCHANGED <<mode, file, proj>>

(* A process nobody watches any more goes on writing until it ends. *)
StrayWrites ==
    /\ stray /\ stray' \in BOOLEAN
    /\ dirty' = dirty \cup {"user"} /\ task' = [t \in Tasks |-> Touch(task[t])]
    /\ UNCHANGED <<procVars, pollVars, serverVars, proj, staged>>

(* The service takes back a task nobody sends heartbeats for; a project   *)
(* request nobody waits for any more.                                      *)
TakesBack(t) ==
    /\ task[t].pc = "lost" /\ server[t] = "assigned" /\ Request(t).kind # "operation"
    /\ server' = [server EXCEPT ![t] = "queued"]
    /\ UNCHANGED <<procVars, pollVars, task, told, projVars, stray>>

(* run_task and its threads. *)
Thread(t) ==
    \/ Begins(t) \/ Operates(t) \/ Inspects(t) \/ Initializes(t) \/ Created(t) \/ Answers(t)
    \/ LooksAtIndex(t) \/ CommitsAll(t)
    \/ Announces(t) \/ Chats(t) \/ Checkpoints(t) \/ Checkpointed(t) \/ HermesStarts(t) \/ HermesCancelled(t)
    \/ Recovers(t) \/ Resumes(t) \/ Settles(t) \/ Repairs(t) \/ Accepts(t)
    \/ Adds(t) \/ Diffs(t) \/ Commits(t) \/ Drains(t) \/ Flushes(t) \/ Reports(t) \/ Joins(t)
    \/ Unwinds(t) \/ ReportsAgain(t)
Batcher(t) == Posts(t) \/ BatchEnds(t)
Heartbeat(t) == HeartbeatLearns(t) \/ HeartbeatEnds(t)
Child(t) ==
    \/ HermesWorks(t) \/ HermesEnds(t) \/ SessionNotSaved(t) \/ HermesStalls(t) \/ Reads(t)
    \/ SwarmWaits(t) \/ SwarmEnds(t)

Next ==
    \/ Connects \/ Supervises \/ Identifies \/ Authorizes \/ Registers \/ Dies \/ StrayWrites
    \/ \E t \in Tasks :
         \/ (\E r \in Asks[t] : Polls(t, r)) \/ Reaps(t) \/ Thread(t) \/ Batcher(t) \/ Heartbeat(t) \/ Child(t)
         \/ UserCancels(t) \/ TakesBack(t)

Spec == Init /\ [][Next]_vars

(* Threads run, Git commands and requests to the agent server end, and the *)
(* answers to heartbeats get through in the end.  A Hermes or a swarm is   *)
(* only obliged to end when it is cancelled: the monitor of a Hermes looks *)
(* at the flag, and a swarm ends whenever what it waits for has ended      *)
(* (CancelledSwarmIsReported of ProjectSwarm).                             *)
FairSpec ==
    /\ Spec
    /\ \A t \in Tasks : WF_vars(Thread(t)) /\ WF_vars(Batcher(t)) /\ WF_vars(Heartbeat(t))
    /\ SF_vars(\E t \in Tasks : task[t].stop /\ SwarmEnds(t))

------------------------------------------------------------------------------
Finished(t) == task[t].pc \in {"report", "join"}

TypeOK ==
    /\ proc \in {"off", "identify", "authorize", "register", "poll", "inline"}
    /\ file \in [device : {"none", "legacy", "device"}, token : BOOLEAN,
                connection : {"none", "legacy", "fresh", "canonical"}]
    /\ worker \subseteq Tasks /\ inline \subseteq Tasks
    /\ dirty \subseteq Tasks \cup {"user"} /\ staged \subseteq dirty
    /\ \A t \in Tasks :
         /\ task[t].queue \in 0..MaxEvents
         /\ task[t].attempt \in 0..(RecoveryAttempts - 1)
         /\ task[t].repair \in 0..RepairAttempts

(* What is reported as completed has passed every check the request asked  *)
(* for, on the response that is reported, and the workspace has changed.   *)
CompletedHasEvidence ==
    \A t \in Tasks : Finished(t) /\ task[t].resp = "ok" /\ Judged(t) =>
        task[t].changed /\ Request(t).checks \subseteq task[t].ev

(* In a project the connector manages, the changes of a task reported as   *)
(* completed are in a commit, whatever project requests did to the index.  *)
CompletedIsCommitted ==
    \A t \in Tasks : Finished(t) /\ task[t].resp = "ok" /\ proj.marker => t \notin dirty

(* The report is the last the service hears of a task: its events were     *)
(* posted before, and the heartbeat still holds the lease.                 *)
ReportComesLast ==
    \A t \in Tasks : task[t].pc = "report" =>
        task[t].queue = 0 /\ (task[t].hb = "on" \/ server[t] = "cancelled")

(* The marker of a managed project is never there without its first        *)
(* commit, wherever the connector died.                                    *)
MarkerMeansBaseline == proj.marker => proj.commits

(* A completion the service has acknowledged is not followed by a report   *)
(* of failure: only when no answer came may it hear both.                  *)
VerdictStands == \A t \in Tasks : told[t] # "contradicted"

(* The identity of the installation survives reauthorization.              *)
DeviceKept == [][file.device # "none" => file'.device = file.device]_vars

(* A cancellation ends the task, wherever its thread is, unless the task   *)
(* waits for ever for a process that the cancellation does not reach.      *)
Hopeful == \A t \in Tasks : task[t].child # "deaf"
CancelLearnt == \E t \in Tasks : server[t] = "cancelled" /\ task[t].hb = "on"
CancelledOver == \A t \in Tasks : server[t] = "cancelled" => ~Live(t)
CancelEnds == []<>Hopeful => (CancelLearnt ~> CancelledOver)

(* A tool that stalls is closed and the task goes on in a fresh context,   *)
(* while attempts are left and nobody cancelled.                           *)
StalledToolResumes ==
    [][\A t \in Tasks :
        task[t].pc = "answered" /\ task[t].err = "stall" /\ ~task[t].stop
        /\ task[t].attempt + 1 < RecoveryAttempts /\ task'[t].pc # task[t].pc
            => task'[t].pc \in {"delay", "lost"}]_vars
=============================================================================
