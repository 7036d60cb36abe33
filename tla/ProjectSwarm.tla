---------------------------- MODULE ProjectSwarm ----------------------------
(***************************************************************************)
(* Coordinated coding of one project task (apps/cli/src/project_swarm.rs), *)
(* with the part of the connector's run_task that starts it and waits for  *)
(* its event senders (chat_connector.rs).                                  *)
(*                                                                         *)
(* A coordinator asks a planner for a plan, runs the ready tasks two at a  *)
(* time in worktrees of their own, cherry-picks their commits onto an      *)
(* integration worktree, has it reviewed and verified, and fast-forwards   *)
(* the project to it.  The user works in the project at the same time.     *)
(*                                                                         *)
(* A commit is the sequence of the changes that lead to it, so two         *)
(* branches have the same HEAD iff their sequences are equal, and one is   *)
(* an ancestor of the other iff it is a prefix of it.  A path is the       *)
(* sequence of its components.                                             *)
(***************************************************************************)
EXTENDS Integers, FiniteSets, Sequences, SequencesExt

CONSTANTS
    Plans,       \* what the planner may answer (see Plan)
    ProjectFiles, \* the files workers, reviewer and user may change
    Ids,         \* the task ids of all plans, integers: BTreeMap order
    Workers,     \* DEFAULT_WORKERS
    MaxTasks,    \* MAX_TASKS
    MaxUser,     \* bound: changes the user makes meanwhile
    MaxEdits     \* bound: changes of one worker

ASSUME SwarmAssumption ==
    /\ Ids \subseteq Nat \ {0}
    /\ Workers \in Nat \ {0}
    /\ {MaxTasks, MaxUser, MaxEdits} \subseteq Nat
    /\ ProjectFiles \subseteq Seq(STRING)
    /\ \A p \in Plans : \A i \in DOMAIN p.tasks :
          p.tasks[i].id \in Ids /\ p.tasks[i].owned \subseteq Seq(STRING)

VARIABLES
    project,     \* [head, dirty]: the user's checkout
    co,          \* where the coordinator is
    plan,        \* the accepted tasks, by id
    base,        \* the project's HEAD the integration starts from
    integ,       \* HEAD of the integration worktree
    wave,        \* ids of the wave's threads not joined yet, in spawn order
    joined,      \* ids of the wave joined and not integrated yet
    done,        \* completed
    builder,     \* the worker threads, by id
    verified,    \* the HEAD the verification command ran on
    journal,     \* the last state recorded in journal.json
    error,       \* why the run returned an error
    cancelled,   \* the task's cancellation flag
    held,        \* Hermes runs that are over and whose output readers wait for a
                 \* process outside the group: a worker's id, 0 for the others
    chat         \* run_task: "start", "checking", "checkpoint", "swarm", "fallback",
                 \* "joining", "reported"

swarmVars == <<project, co, plan, base, integ, wave, joined, done, builder,
               verified, journal, error, cancelled, held, chat>>

work  == <<base, integ, wave, joined, done, builder, verified>>
none  == <<>>
idle  == [st |-> "none", base |-> none, edits |-> {}, own |-> {}]

-----------------------------------------------------------------------------
(* Plans.                                                                  *)

path_is_owned(path, owned) == IsPrefix(owned, path)

\* normalize_owned_path drops every leading ".".
Normalized(path) ==
    LET named == {i \in DOMAIN path : path[i] # "."}
    IN  IF named = {} THEN none
        ELSE SubSeq(path, CHOOSE i \in named : \A j \in named : i <= j, Len(path))

SafePath(path) ==
    LET p == Normalized(path)
    IN  p # <<>> /\ Range(p) \cap {".", "..", ".git", ".hermes"} = {}

PlanIds(p) == {p.tasks[i].id : i \in DOMAIN p.tasks}

Complete(p, t) ==
    /\ t.valid /\ t.owned # {}
    /\ t.id \notin t.deps /\ t.deps \subseteq PlanIds(p)
    /\ \A path \in t.owned : SafePath(path)

\* Every two paths the plan hands out, to one task or to two, are disjoint.
Disjoint(p) ==
    \A i, j \in DOMAIN p.tasks : \A a \in p.tasks[i].owned, b \in p.tasks[j].owned :
        <<i, a>> # <<j, b>> => /\ ~path_is_owned(Normalized(a), Normalized(b))
                               /\ ~path_is_owned(Normalized(b), Normalized(a))

ById(p) == [id \in PlanIds(p) |->
               p.tasks[CHOOSE i \in DOMAIN p.tasks : p.tasks[i].id = id]]

\* The cycle check marks the tasks whose dependencies are marked, again and
\* again: it fails when some are left that all wait for one that is left.
Acyclic(p) ==
    \A left \in SUBSET PlanIds(p) \ {{}} : \E id \in left : ById(p)[id].deps \cap left = {}

\* One known test or build command without shell operators.
safe_verification_command(p) == p.verify = "safe"

validate_plan(p) ==
    /\ Len(p.tasks) \in 2..MaxTasks
    /\ safe_verification_command(p)
    /\ Cardinality(PlanIds(p)) = Len(p.tasks)
    /\ \A i \in DOMAIN p.tasks : Complete(p, p.tasks[i])
    /\ Disjoint(p)
    /\ Acyclic(p)

-----------------------------------------------------------------------------
(* Git.                                                                    *)

\* id is 0 in the changes that are not a task's.
Change(by, id, files) == [by |-> by, id |-> id, files |-> files]

FilesOf(commits) == UNION {commits[i].files : i \in DOMAIN commits}

After(ancestor, head) == SubSeq(head, Len(ancestor) + 1, Len(head))

SwarmInit ==
    /\ project = [head |-> none, dirty |-> {}]
    /\ co = "start" /\ plan = [id \in {} |-> none]
    /\ base = none /\ integ = none /\ wave = none /\ joined = none /\ done = {}
    /\ builder = [id \in Ids |-> idle]
    /\ verified = none /\ journal = "none" /\ error = "none"
    /\ cancelled = FALSE /\ held = {} /\ chat = "start"

-----------------------------------------------------------------------------
(* run_task: which requests are coordinated, and the checkpoint before.    *)

Markers == {"one worker", "requested", "substantial", "action", "domain", "other domain"}

should_coordinate(found) ==
    /\ "one worker" \notin found
    /\ \/ found \cap {"requested", "substantial"} # {}
       \/ {"action", "domain", "other domain"} \subseteq found

Coordinates ==
    /\ chat = "start"
    /\ \E found \in SUBSET Markers :
          chat' = IF should_coordinate(found) THEN "checking" ELSE "fallback"
    /\ UNCHANGED <<project, co, plan, work, journal, error, cancelled, held>>

\* A subfolder of a repository, unresolved conflicts, untracked files that look
\* like secrets, and any failing Git command are refused.
CheckpointNeeded ==
    /\ chat = "checking"
    /\ \/ chat' = IF project.dirty = {} THEN "swarm" ELSE "checkpoint"
       \/ chat' = "fallback"
    /\ UNCHANGED <<project, co, plan, work, journal, error, cancelled, held>>

\* add --all and commit: whatever the checkout holds by now.
CommitsCheckpoint ==
    /\ chat = "checkpoint"
    /\ \/ /\ project' = [head |-> Append(project.head, Change("checkpoint", 0, project.dirty)),
                         dirty |-> {}]
          /\ chat' = "swarm"
       \/ chat' = "fallback" /\ UNCHANGED project
    /\ UNCHANGED <<co, plan, work, journal, error, cancelled, held>>

-----------------------------------------------------------------------------
(* The coordinator.  Its return drops the worktrees; a worker thread that  *)
(* has not been joined goes on without its worktree.                       *)

Returns(why) ==
    /\ co' = "returned" /\ error' = why
    /\ chat' = IF why = "none" THEN "joining" ELSE "fallback"

\* record: the journal is rewritten as a whole, and the write may fail.
Journals(state) == journal' = state /\ UNCHANGED error

NotRecorded == Returns("journal") /\ UNCHANGED journal

Requires ==
    /\ chat = "swarm" /\ co = "start"
    /\ \/ project.dirty = {} /\ co' = "planning" /\ Journals("planning") /\ UNCHANGED chat
       \/ project.dirty # {} /\ Returns("dirty") /\ UNCHANGED journal
       \/ NotRecorded
    /\ UNCHANGED <<project, plan, cancelled, held, work>>

\* The adapter kills a cancelled Hermes, unless it has already seen it exit:
\* then it reads what was said and no longer looks at the cancellation flag.
MaySucceed(run) == ~cancelled \/ run \in held

\* The planner runs in the project without permission to change it; its
\* Hermes may fail, or end because the task is cancelled.
AskPlanner ==
    /\ co = "planning"
    /\ \/ /\ MaySucceed(0)
          /\ \E p \in Plans :
                \/ validate_plan(p) /\ plan' = ById(p) /\ co' = "planned"
                   /\ Journals("planned") /\ UNCHANGED chat
                \/ ~validate_plan(p) /\ Returns("plan") /\ UNCHANGED <<plan, journal>>
                \/ NotRecorded /\ UNCHANGED plan
       \/ Returns("hermes") /\ UNCHANGED <<plan, journal>>
    /\ held' = held \ {0}
    /\ UNCHANGED <<project, cancelled, work>>

Bases ==
    /\ co = "planned"
    /\ \/ base' = project.head /\ integ' = project.head /\ co' = "waves"
          /\ UNCHANGED <<error, chat>>
       \/ Returns("git") /\ UNCHANGED <<base, integ>>
    /\ UNCHANGED <<project, plan, wave, joined, done, builder, verified, journal, cancelled, held>>

Pending == DOMAIN plan \ done

Ready == {id \in Pending : plan[id].deps \subseteq done}

\* The first Workers ready tasks in id order.
Taken == {id \in Ready : Cardinality({k \in Ready : k < id}) < Workers}

\* The order in which the threads of a wave are spawned and joined.
InOrder(ids) ==
    {s \in SeqOf(ids, Workers) :
        Range(s) = ids /\ \A i, j \in DOMAIN s : i < j => s[i] < s[j]}

StartWave ==
    /\ co = "waves" /\ wave = none /\ joined = none /\ Pending # {}
    /\ \/ cancelled /\ Returns("cancelled") /\ UNCHANGED <<wave, builder>>
       \/ ~cancelled /\ Ready = {} /\ Returns("stuck") /\ UNCHANGED <<wave, builder>>
       \/ /\ ~cancelled /\ Ready # {}
          /\ wave' \in InOrder(Taken)
          /\ builder' = [id \in Ids |-> IF id \in Taken
                           THEN [idle EXCEPT !.st = "running", !.base = integ]
                           ELSE builder[id]]
          /\ UNCHANGED <<co, error, chat>>
       \/ ~cancelled /\ Ready # {} /\ Returns("git") /\ UNCHANGED <<wave, builder>>
    /\ UNCHANGED <<project, plan, base, integ, joined, done, verified, journal, cancelled, held>>

JoinOnlyCommitted ==
    /\ co = "waves" /\ wave # none
    /\ builder[Head(wave)].st = "committed"
    /\ joined' = Append(joined, Head(wave)) /\ wave' = Tail(wave)
    /\ UNCHANGED <<project, co, plan, base, integ, done, builder, verified, journal, error,
                   cancelled, held, chat>>

\* join()?? : the first thread that failed ends the run, whatever the others do.
Join ==
    /\ co = "waves" /\ wave # none
    /\ \/ /\ builder[Head(wave)].st = "committed"
          /\ joined' = Append(joined, Head(wave)) /\ wave' = Tail(wave)
          /\ UNCHANGED <<co, error, chat>>
       \/ builder[Head(wave)].st = "failed" /\ Returns("worker") /\ UNCHANGED <<joined, wave>>
    /\ UNCHANGED <<project, plan, base, integ, done, builder, verified, journal, cancelled, held>>

\* Cherry-picking takes the files of the worker's last commit only.  It can
\* conflict where the integration lacks or has changed what they build on, and
\* fail as any Git command may (the committer is the user's own).
Clash(id) == builder[id].edits \cap (builder[id].own \cup FilesOf(After(builder[id].base, integ)))

Integrates ==
    /\ co = "waves" /\ wave = none /\ joined # none
    /\ LET id == Head(joined) IN
       \/ /\ integ' = Append(integ, Change("task", id, builder[id].edits))
          /\ \/ /\ Journals("integrated") /\ done' = done \cup {id} /\ joined' = Tail(joined)
                /\ UNCHANGED <<co, chat>>
             \/ NotRecorded /\ UNCHANGED <<done, joined>>
       \/ /\ \/ Clash(id) # {} /\ Returns("conflict")
             \/ Returns("git")
          /\ UNCHANGED <<integ, done, joined, journal>>
    /\ UNCHANGED <<project, plan, base, wave, builder, verified, cancelled, held>>

StartReview ==
    /\ co = "waves" /\ wave = none /\ joined = none /\ Pending = {}
    /\ \/ co' = "reviewing" /\ Journals("reviewing") /\ UNCHANGED chat
       \/ NotRecorded
    /\ UNCHANGED <<project, plan, cancelled, held, work>>

ReviewsInProject ==
    /\ co = "reviewing"
    /\ project' = [project EXCEPT !.head = integ] /\ co' = "verifying" /\ Journals("verifying")
    /\ UNCHANGED <<plan, chat, cancelled, held, work>>

\* The reviewer may change any file; what it changed is committed.
Reviews ==
    /\ co = "reviewing"
    /\ \/ /\ MaySucceed(0)
          /\ \E files \in {{}} \cup {{f} : f \in ProjectFiles} :
                integ' = IF files = {} THEN integ ELSE Append(integ, Change("review", 0, files))
          /\ \/ co' = "verifying" /\ Journals("verifying") /\ UNCHANGED chat
             \/ NotRecorded
       \/ Returns("hermes") /\ UNCHANGED <<integ, journal>>
    /\ held' = held \ {0}
    /\ UNCHANGED <<project, plan, base, wave, joined, done, builder, verified, cancelled>>

VerifyUnchecked ==
    /\ co = "verifying" /\ co' = "publishing"
    /\ verified' \in {integ, verified}
    /\ UNCHANGED <<project, plan, base, integ, wave, joined, done, builder, journal, error,
                   cancelled, held, chat>>

\* run_shell waits for the command; it does not look at the cancellation flag.
Verifies ==
    /\ co = "verifying"
    /\ \/ co' = "publishing" /\ verified' = integ /\ UNCHANGED <<error, chat>>
       \/ Returns("verification") /\ UNCHANGED verified
    /\ UNCHANGED <<project, plan, base, integ, wave, joined, done, builder, journal, cancelled, held>>

-----------------------------------------------------------------------------
(* publish_integration: three commands, between which the user may act.    *)

IsClean ==
    /\ co = "publishing"
    /\ \/ project.dirty = {} /\ co' = "clean" /\ UNCHANGED <<error, chat>>
       \/ Returns(IF project.dirty = {} THEN "git" ELSE "dirty")
    /\ UNCHANGED <<project, plan, work, journal, cancelled, held>>

IsAtBase ==
    /\ co = "clean"
    /\ \/ project.head = base /\ co' = "merging" /\ UNCHANGED <<error, chat>>
       \/ Returns(IF project.head = base THEN "git" ELSE "changed")
    /\ UNCHANGED <<project, plan, work, journal, cancelled, held>>

CanReset == FilesOf(After(base, integ)) \cap project.dirty = {}

\* merge --ff-only refuses another history and files changed in the checkout.
CanFastForward ==
    /\ IsPrefix(project.head, integ)
    /\ FilesOf(After(project.head, integ)) \cap project.dirty = {}

Merges ==
    /\ co = "merging"
    /\ \/ CanFastForward /\ project' = [project EXCEPT !.head = integ]
          /\ co' = "published" /\ UNCHANGED <<error, chat>>
       \/ Returns("git") /\ UNCHANGED project
    /\ UNCHANGED <<plan, work, journal, cancelled, held>>

Finishes ==
    /\ co = "published"
    /\ \/ Returns("none") /\ journal' = "completed"
       \/ NotRecorded
    /\ UNCHANGED <<project, plan, work, cancelled, held>>

-----------------------------------------------------------------------------
(* A worker thread: Hermes in the worktree, then the coordinator's checks  *)
(* and its commit.                                                         *)

Alive(id) == builder[id].st = "running"

WorkerEdits(id) ==
    /\ Alive(id) /\ Cardinality(builder[id].edits) + Cardinality(builder[id].own) < MaxEdits
    /\ \E f \in ProjectFiles \ builder[id].edits : builder' = [builder EXCEPT ![id].edits = @ \cup {f}]
    /\ UNCHANGED <<project, co, plan, base, integ, wave, joined, done, verified, journal,
                   error, cancelled, held, chat>>

\* The prompt forbids it, nothing prevents it.
WorkerCommitsItself(id) ==
    /\ Alive(id) /\ builder[id].edits # {}
    /\ builder' = [builder EXCEPT ![id].own = @ \cup builder[id].edits, ![id].edits = {}]
    /\ UNCHANGED <<project, co, plan, base, integ, wave, joined, done, verified, journal,
                   error, cancelled, held, chat>>

OwnsChanges(id) ==
    /\ builder[id].edits # {}
    /\ \A f \in builder[id].edits : \E owned \in plan[id].owned : path_is_owned(f, owned)

\* A cancelled Hermes fails; the worktree is gone, or cannot be removed while
\* it is in use, once the coordinator has returned.
WorkerEnds(id) ==
    /\ Alive(id)
    /\ \/ MaySucceed(id) /\ OwnsChanges(id) /\ builder' = [builder EXCEPT ![id].st = "committed"]
       \/ builder' = [builder EXCEPT ![id].st = "failed"]
    /\ held' = held \ {id}
    /\ UNCHANGED <<project, co, plan, base, integ, wave, joined, done, verified, journal,
                   error, cancelled, chat>>

-----------------------------------------------------------------------------
(* run_task: one Hermes worker after a failed swarm; the event batcher's   *)
(* thread ends, and the task is reported, once every sender is dropped.    *)

FallbackEnds ==
    /\ chat = "fallback" /\ chat' = "joining" /\ held' = held \ {0}
    /\ UNCHANGED <<project, co, plan, work, journal, error, cancelled>>

\* A worker thread owns a clone of the coordinator's options.
SendersDropped == \A id \in Ids : ~Alive(id)

SwarmReports ==
    /\ chat = "joining" /\ SendersDropped /\ chat' = "reported"
    /\ UNCHANGED <<project, co, plan, work, journal, error, cancelled, held>>

Cancel ==
    /\ ~cancelled /\ chat # "reported" /\ cancelled' = TRUE
    /\ UNCHANGED <<project, co, plan, work, journal, error, held, chat>>

\* The Hermes runs under way.
HermesRuns ==
    {id \in Ids : Alive(id)}
      \cup (IF co \in {"planning", "reviewing"} \/ chat = "fallback" THEN {0} ELSE {})

\* Hermes exits, and a process that left its group keeps its output open.
HermesEscapes(run) ==
    /\ ~cancelled /\ run \in HermesRuns \ held
    /\ held' = held \cup {run}
    /\ UNCHANGED <<project, co, plan, work, journal, error, cancelled, chat>>

\* What the user (or an inline project request) does in the checkout.
UserChanges == Cardinality(project.dirty) +
               Cardinality({i \in DOMAIN project.head : project.head[i].by \in {"user", "checkpoint"}})

UserActs ==
    /\ chat # "reported" /\ UserChanges < MaxUser
    /\ \E f \in ProjectFiles \ project.dirty :
          \/ project' = [project EXCEPT !.dirty = @ \cup {f}]
          \/ project' = [project EXCEPT !.head = Append(@, Change("user", 0, {f}))]
    /\ UNCHANGED <<co, plan, work, journal, error, cancelled, held, chat>>

\* The coordinator's own steps: short, or a wait for worker threads.
Coordinator ==
    \/ Coordinates \/ CheckpointNeeded \/ CommitsCheckpoint
    \/ Requires \/ Bases \/ StartWave \/ Join \/ Integrates \/ StartReview
    \/ IsClean \/ IsAtBase \/ Merges \/ Finishes

SwarmNext ==
    \/ Coordinator \/ AskPlanner \/ Reviews \/ Verifies
    \/ \E run \in Ids \cup {0} : HermesEscapes(run)
    \/ \E id \in Ids : WorkerEdits(id) \/ WorkerCommitsItself(id) \/ WorkerEnds(id)
    \/ FallbackEnds \/ SwarmReports \/ Cancel \/ UserActs

\* Threads are scheduled and Git commands end.  A Hermes run ends once it is
\* cancelled, because the adapter looks at the flag several times a second and
\* then kills it, but not one whose readers wait for another process.  Nothing
\* obliges a run that is not cancelled to end, and nothing ever ends the
\* verification command: run_shell has neither a timeout nor the flag.
Killable(run) == cancelled /\ run \notin held

SwarmFairness ==
    /\ WF_swarmVars(Coordinator) /\ WF_swarmVars(SwarmReports)
    /\ WF_swarmVars(Killable(0) /\ (AskPlanner \/ Reviews \/ FallbackEnds))
    /\ \A id \in Ids : WF_swarmVars(Killable(id) /\ WorkerEnds(id))

SwarmSpec == SwarmInit /\ [][SwarmNext]_swarmVars /\ SwarmFairness

-----------------------------------------------------------------------------
(* Properties.                                                             *)

SwarmCommits(head) == {i \in DOMAIN head : head[i].by \in {"task", "review"}}

Published == SwarmCommits(project.head) # {}

(* What run puts into the project is the integration its verification      *)
(* command passed on, all of it and nothing else of the swarm's: later     *)
(* commits in the project are the user's.                                  *)
PublishedIsVerified ==
    Published => /\ verified # none /\ IsPrefix(verified, project.head)
                 /\ SwarmCommits(After(verified, project.head)) = {}

(* The integration holds each task of the plan at most once, after the     *)
(* tasks it depends on, with changes to the paths it owns only; when it is *)
(* reviewed, every task is there (the waves of run, validate_plan,         *)
(* run_worker).                                                            *)
IntegrationFollowsPlan ==
    LET at(id) == {i \in DOMAIN integ : integ[i].by = "task" /\ integ[i].id = id} IN
    /\ \A id \in DOMAIN plan :
          /\ Cardinality(at(id)) <= 1
          /\ \A i \in at(id) :
                /\ \A d \in plan[id].deps : \E j \in at(d) : j < i
                /\ \A f \in integ[i].files :
                      \E owned \in plan[id].owned : path_is_owned(f, owned)
    /\ co \in {"reviewing", "verifying", "publishing"} => \A id \in DOMAIN plan : at(id) # {}

(* A plan validate_plan accepted can always be carried out: its waves do   *)
(* not run out of ready tasks, and cherry-picks conflict only when a       *)
(* worker's agent made a commit of its own, which the prompt forbids.      *)
AcceptedPlanIsFeasible ==
    /\ error # "stuck"
    /\ error = "conflict" => \E id \in Ids : builder[id].own # {}

(* A run that returns an error, after which one Hermes worker starts over, *)
(* has left the project alone; the one exception is a failed last write to *)
(* the journal, after the merge.                                           *)
FailureLeavesProject == error \notin {"none", "journal"} => ~Published

(* The swarm never takes anything from the user: the project's history     *)
(* only grows, uncommitted changes stay or become the checkpoint, and no   *)
(* merge touches a file that has any.                                      *)
UserWorkKept ==
    [][/\ IsPrefix(project.head, project'.head)
       /\ project.dirty \subseteq project'.dirty \cup FilesOf(After(project.head, project'.head))
       /\ SwarmCommits(After(project.head, project'.head)) # {} =>
             FilesOf(After(project.head, project'.head)) \cap project.dirty = {}]_swarmVars

(* No worker of the task is running once the task is reported, not even    *)
(* one whose thread was abandoned because another worker failed first.     *)
ReportedSwarmIsQuiet == chat = "reported" => \A id \in Ids : ~Alive(id)

(* A cancelled task is reported, wherever the cancellation meets the       *)
(* coordinator, its workers and the single worker that follows a failed    *)
(* run, unless the verification command goes on for ever or a process that *)
(* left Hermes's group keeps its output open for ever.                     *)
CancelledSwarmIsReported ==
    <>cancelled /\ []<>(co # "verifying") /\ []<>(held = {}) => <>(chat = "reported")

(* "... cancellation, or failed integrated verification leaves the project *)
(* at the local pre-swarm checkpoint" (skills/project-swarm/SKILL.md): no  *)
(* merge happens after the task was cancelled.                             *)
CancelLeavesCheckpoint == [][Published' /\ ~Published => ~cancelled]_swarmVars
=============================================================================
