---------------------------- MODULE HarnessRunner ----------------------------
(***************************************************************************)
(* The coding harness runner (agents/node/src/harness_*.rs): its claim     *)
(* cycle, and per claimed attempt one thread that resolves the project,    *)
(* prepares a private Git workspace, runs the bounded model/tool loop in   *)
(* it, publishes validated changes to the user's project and reports to    *)
(* the control plane under a version number.  The user works in the same   *)
(* project meanwhile.                                                      *)
(*                                                                         *)
(* A workspace has one file, whose content stands for the tree.  Version   *)
(* numbers are abstracted to whether the runner's copy is the current one: *)
(* only the runner advances it, so that a copy left behind stays behind.   *)
(***************************************************************************)
EXTENDS Naturals, Sequences, FiniteSets, SequencesExt

CONSTANTS Attempts,    \* attempts the control plane hands to this runner
          Local,       \* those on a local project (persist_to_source)
          Slots,       \* parallel_slots, clamped to 1..64
          Keys,        \* idempotency keys the model uses
          Contents,    \* file contents the model writes
          MaxTurns, MaxTools, MaxRepairs,   \* the budgets of the task
          MaxUserSteps, MaxCrashes          \* bounds on the surroundings

ASSUME HarnessAssumption ==
    /\ Local \subseteq Attempts
    /\ "base" \notin Contents /\ {"user", "init"} \cap Attempts = {}
    /\ Slots \in Nat \ {0}
    /\ {MaxTurns, MaxTools, MaxRepairs, MaxUserSteps, MaxCrashes} \subseteq Nat

VARIABLES
    project,   \* the local project: "absent", "created" (no commit yet), "ready"
    history,   \* the commits of its branch
    dirty,     \* the user has uncommitted edits
    runner,    \* the claim cycle: "idle", "registering", "claiming", "joining"
    handles,   \* the threads the cycle will join
    at,        \* what each attempt's thread holds
    cp,        \* the control plane's state of each attempt
    steps,     \* [user, crash], for the bounds
    checked    \* the tree each attempt's last passing validation left

vars == <<project, history, dirty, runner, handles, at, cp, steps, checked>>

Trees == Contents \cup {"base"}

Fresh == [pc |-> "idle", base |-> 0, turns |-> 0, tools |-> 0, repairs |-> 0,
          tree |-> "base", passed |-> FALSE, applied |-> [k \in Keys |-> <<>>],
          last |-> <<>>, repeated |-> 0, status |-> "running", synced |-> TRUE,
          clean |-> FALSE,   \* the exit status of the validation's process
          stray |-> FALSE]   \* a process the validation left behind still writes

(* The project folder of the task exists from an earlier one, or not yet.  *)
Init ==
    /\ \/ project = "absent" /\ history = <<>>
       \/ project = "ready" /\ history = <<[by |-> "init", tree |-> "base"]>>
    /\ dirty = FALSE
    /\ runner = "idle" /\ handles = {}
    /\ at = [a \in Attempts |-> Fresh]
    /\ cp = [a \in Attempts |-> "queued"]
    /\ steps = [user |-> 0, crash |-> 0]
    /\ checked = [a \in Attempts |-> "none"]

Asleep == {"idle", "ended", "dead"}
Live(a) == cp[a] \in {"claimed", "preparing", "running", "validating"}

Becomes(a, r) == at' = [at EXCEPT ![a] = r]
Goto(a, pc) == [at[a] EXCEPT !.pc = pc]

(* The loop returns; what only it and its tools knew is gone.              *)
Stop(r, status) ==
    [Fresh EXCEPT !.pc = "evidence", !.status = status, !.base = r.base,
                  !.tree = r.tree, !.passed = r.passed, !.synced = r.synced,
                  !.stray = r.stray]

(* The thread is gone; only its outcome is remembered, for the properties. *)
Over(a, pc) == [Fresh EXCEPT !.pc = pc, !.tree = at[a].tree, !.status = at[a].status,
                              !.stray = at[a].stray]

UnchangedProject == UNCHANGED <<project, history, dirty>>
UnchangedRunner == UNCHANGED <<runner, handles, steps>>

------------------------------------------------------------------------------
(* The control plane (external).  A request that carries the current       *)
(* version of a live attempt is accepted.  The caller goes on with ok, or  *)
(* with err: refused, never arrived, or accepted and the answer lost,      *)
(* which leaves the caller's version behind (of no account once it ended). *)
Accepts(a) == Live(a) /\ at[a].synced

Post(a, state, ok, err) ==
    \/ /\ Accepts(a)
       /\ cp' = [cp EXCEPT ![a] = state]
       /\ Becomes(a, ok)
    \/ /\ Becomes(a, err)
       /\ UNCHANGED cp
    \/ /\ Accepts(a)
       /\ cp' = [cp EXCEPT ![a] = state]
       /\ Becomes(a, [err EXCEPT !.synced = err.pc \in Asleep])

(* The task is cancelled, or the attempt's lease runs out. *)
Revoke(a) ==
    /\ Live(a)
    /\ cp' = [cp EXCEPT ![a] = "revoked"]
    /\ UnchangedProject /\ UnchangedRunner /\ UNCHANGED <<at, checked>>

------------------------------------------------------------------------------
(* The user in the project folder. *)

UserEdits ==
    /\ project = "ready" /\ ~dirty /\ steps.user < MaxUserSteps
    /\ dirty' = TRUE /\ steps' = [steps EXCEPT !.user = @ + 1]
    /\ UNCHANGED <<project, history, runner, handles, at, cp, checked>>

UserCommits ==
    /\ dirty
    /\ dirty' = FALSE /\ history' = Append(history, [by |-> "user", tree |-> "user"])
    /\ UNCHANGED <<project, runner, handles, at, cp, steps, checked>>

------------------------------------------------------------------------------
(* run_cycle: register, claim up to the slots, join what was spawned.      *)

CycleStarts ==
    /\ runner = "idle"
    /\ runner' = "registering" /\ handles' = {}
    /\ UnchangedProject /\ UNCHANGED <<at, cp, steps, checked>>

(* capabilities and register_runner, both with `?`: a configuration without *)
(* its scopes, or a registration that fails, ends the cycle.                *)
Registers ==
    /\ runner = "registering"
    /\ runner' \in {"claiming", "idle"}
    /\ UnchangedProject /\ UNCHANGED <<handles, at, cp, steps, checked>>

Claims(a) ==
    /\ runner = "claiming" /\ Cardinality(handles) < Slots
    /\ cp[a] = "queued"
    /\ cp' = [cp EXCEPT ![a] = "claimed"]
    /\ handles' = handles \cup {a}
    /\ Becomes(a, Goto(a, "resolve"))
    /\ UnchangedProject /\ UNCHANGED <<runner, steps, checked>>

(* No more work, or no more slots. *)
ClaimsDone ==
    /\ runner = "claiming"
    /\ runner' = "joining"
    /\ UnchangedProject /\ UNCHANGED <<handles, at, cp, steps, checked>>

(* A claim that fails ends the cycle and drops its handles: the threads    *)
(* run on, and the next cycle counts its slots from zero.                  *)
ClaimFails ==
    /\ runner = "claiming"
    /\ runner' = "idle" /\ handles' = {}
    /\ UnchangedProject /\ UNCHANGED <<at, cp, steps, checked>>

Joins ==
    /\ runner = "joining" /\ \A a \in handles : at[a].pc = "ended"
    /\ runner' = "idle" /\ handles' = {}
    /\ UnchangedProject /\ UNCHANGED <<at, cp, steps, checked>>

(* The process dies with its threads; their workspaces stay on disk.       *)
RunnerDies ==
    /\ steps.crash < MaxCrashes
    /\ steps' = [steps EXCEPT !.crash = @ + 1]
    /\ runner' = "idle" /\ handles' = {}
    /\ at' = [a \in Attempts |-> IF at[a].pc \in Asleep THEN at[a] ELSE Over(a, "dead")]
    /\ UnchangedProject /\ UNCHANGED <<cp, checked>>

------------------------------------------------------------------------------
(* execute_claim, up to the start of the loop. *)

(* The task was cancelled before execution. *)
CancelledEarly(a) ==
    /\ at[a].pc = "resolve"
    /\ Post(a, "revoked", Over(a, "ended"), Over(a, "ended"))
    /\ UnchangedProject /\ UnchangedRunner /\ UNCHANGED checked

(* resolve_repository_source: a configured repository at its pinned        *)
(* commit, or resolve_local_project at the project's head.                 *)
Resolves(a) ==
    /\ at[a].pc = "resolve"
    /\ a \in Local => project = "ready"
    /\ Becomes(a, [Goto(a, "preparing") EXCEPT !.base = Len(history)])
    /\ UnchangedProject /\ UnchangedRunner /\ UNCHANGED <<cp, checked>>

(* The folder does not exist: create_dir. *)
CreatesProject(a) ==
    /\ at[a].pc = "resolve" /\ a \in Local /\ project = "absent"
    /\ project' = "created"
    /\ Becomes(a, Goto(a, "scaffold"))
    /\ UNCHANGED <<history, dirty, cp, checked>> /\ UnchangedRunner

(* scaffold_local_project and initialize_local_repository.                 *)
Scaffolds(a) ==
    /\ at[a].pc = "scaffold"
    /\ project' = "ready" /\ history' = <<[by |-> "init", tree |-> "base"]>>
    /\ Becomes(a, [Goto(a, "preparing") EXCEPT !.base = 1])
    /\ UNCHANGED <<dirty, cp, checked>> /\ UnchangedRunner

(* Any error up to here leaves the function with `?`: nothing is reported. *)
ResolveFails(a) ==
    /\ at[a].pc \in {"resolve", "scaffold"}
    /\ Becomes(a, Over(a, "ended"))
    /\ UnchangedProject /\ UnchangedRunner /\ UNCHANGED <<cp, checked>>

ToPreparing(a) ==
    /\ at[a].pc = "preparing"
    /\ Post(a, "preparing", Goto(a, "running"), Over(a, "ended"))
    /\ UnchangedProject /\ UnchangedRunner /\ UNCHANGED checked

ToRunning(a) ==
    /\ at[a].pc = "running"
    /\ Post(a, "running", Goto(a, "workspace"), Over(a, "ended"))
    /\ UnchangedProject /\ UnchangedRunner /\ UNCHANGED checked

(* WorkspaceManager::prepare: a private clone at the base revision, moved  *)
(* into place when complete; a partial one is removed.                     *)
Prepares(a) ==
    /\ at[a].pc = "workspace"
    /\ \E pc \in {"loop", "fault"} : Becomes(a, Goto(a, pc))
    /\ UnchangedProject /\ UnchangedRunner /\ UNCHANGED <<cp, checked>>

------------------------------------------------------------------------------
(* run_bounded_loop_observed with the ControlPlaneObserver.                *)

(* One model turn, recorded as evidence.  A model error, a cancellation    *)
(* seen by the poll before it and a failed record all end the loop.        *)
ModelTurn(a) ==
    /\ at[a].pc = "loop" /\ at[a].turns < MaxTurns
    /\ LET r == [at[a] EXCEPT !.turns = @ + 1]
       IN Post(a, cp[a], [r EXCEPT !.pc = "act"], Stop(r, "failed"))
    /\ UnchangedProject /\ UnchangedRunner /\ UNCHANGED checked

(* max_wall_time_ms or max_model_turns. *)
OutOfBudget(a) ==
    /\ at[a].pc = "loop"
    /\ Becomes(a, Stop(at[a], "partial"))
    /\ UnchangedProject /\ UnchangedRunner /\ UNCHANGED <<cp, checked>>

(* Finish; an empty or too long summary makes the outcome partial.         *)
Finishes(a) ==
    /\ at[a].pc = "act"
    /\ \E status \in {"completed", "partial"} : Becomes(a, Stop(at[a], status))
    /\ UnchangedProject /\ UnchangedRunner /\ UNCHANGED <<cp, checked>>

(* The tool budget is used up, the operation is not allowed, or it lacks   *)
(* its idempotency key: no tool runs.                                      *)
ToolRefused(a) ==
    /\ at[a].pc = "act"
    /\ Becomes(a, Stop(at[a], IF at[a].tools >= MaxTools THEN "partial" ELSE "failed"))
    /\ UnchangedProject /\ UnchangedRunner /\ UNCHANGED <<cp, checked>>

MayUseTool(a) == at[a].pc = "act" /\ at[a].tools < MaxTools
Used(a) == [at[a] EXCEPT !.tools = @ + 1]

(* What the loop does with a tool's result: progress, repairs, next turn.  *)
AfterTool(r, progress, failedCheck) ==
    LET repeats == IF r.last = progress THEN r.repeated + 1 ELSE 0
        s == [r EXCEPT !.last = progress, !.repeated = repeats]
        t == [s EXCEPT !.repairs = @ + IF failedCheck THEN 1 ELSE 0]
    IN IF repeats >= 3 THEN Stop(s, "partial")
       ELSE IF t.repairs > MaxRepairs THEN Stop(t, "partial")
       ELSE [t EXCEPT !.pc = "loop"]

(* The result is recorded (observer.tool_call); a failed record, or a      *)
(* result that is not well formed or too long, ends the loop.              *)
Record(a, r, progress, failedCheck) ==
    Post(a, cp[a], AfterTool(r, progress, failedCheck), Stop(r, "failed"))

(* repository.status, repository.diff, file.read, file.search. *)
Reads(a) ==
    /\ MayUseTool(a)
    /\ Record(a, Used(a), <<"read", at[a].tree>>, FALSE)
    /\ UnchangedProject /\ UnchangedRunner /\ UNCHANGED checked

(* Mutant of Patches: a patch leaves the earlier validation standing. *)
PatchesKeepPassed(a) ==
    /\ MayUseTool(a)
    /\ \E k \in Keys, c \in Contents :
        /\ at[a].applied[k] = <<>>
        /\ Record(a, [Used(a) EXCEPT !.tree = c, !.applied[k] = <<at[a].tree, c>>],
                  <<"patch", at[a].tree, c, FALSE>>, FALSE)
    /\ UnchangedProject /\ UnchangedRunner /\ UNCHANGED checked

(* patch.apply with a new key, expecting the content that is there.        *)
Patches(a) ==
    /\ MayUseTool(a)
    /\ \E k \in Keys, c \in Contents :
        /\ at[a].applied[k] = <<>>
        /\ Record(a, [Used(a) EXCEPT !.passed = FALSE, !.tree = c,
                                     !.applied[k] = <<at[a].tree, c>>],
                  <<"patch", at[a].tree, c, FALSE>>, FALSE)
    /\ UnchangedProject /\ UnchangedRunner /\ UNCHANGED checked

(* patch.apply again with a known key and the same input: the recorded     *)
(* result, and no write.                                                   *)
Replays(a) ==
    /\ MayUseTool(a)
    /\ \E k \in Keys :
        /\ at[a].applied[k] # <<>>
        /\ Record(a, [Used(a) EXCEPT !.passed = FALSE],
                  <<"patch", at[a].applied[k][1], at[a].applied[k][2], TRUE>>, FALSE)
    /\ UnchangedProject /\ UnchangedRunner /\ UNCHANGED checked

Fails(a, tree, passed) ==
    Becomes(a, Stop([Used(a) EXCEPT !.tree = tree, !.passed = passed], "failed"))

(* A read or a patch returns an error.  A patch has by then reset the      *)
(* flag, and may have removed the file it could not replace.               *)
ToolFails(a) ==
    /\ MayUseTool(a)
    /\ \/ Fails(a, at[a].tree, at[a].passed)
       \/ \E left \in Trees : Fails(a, left, FALSE)
    /\ UnchangedProject /\ UnchangedRunner /\ UNCHANGED <<cp, checked>>

(* validation.run: the profile is not of the task, or is refused by        *)
(* validate_profile, or cannot start.  The flag is left as it was.         *)
ValidationDenied(a) ==
    /\ MayUseTool(a)
    /\ Fails(a, at[a].tree, at[a].passed)
    /\ UnchangedProject /\ UnchangedRunner /\ UNCHANGED <<cp, checked>>

(* build_command, spawn: the profile's process runs in the workspace,      *)
(* directly or in a container.                                             *)
ValidationStarts(a) ==
    /\ MayUseTool(a)
    /\ Becomes(a, [Used(a) EXCEPT !.pc = "check"])
    /\ UnchangedProject /\ UnchangedRunner /\ UNCHANGED <<cp, checked>>

(* It exits, or is terminated with its group at the deadline; it may have  *)
(* written to the workspace.  What it left in the background lives on:     *)
(* nothing ends the group of a process that exited by itself.              *)
ValidationEnds(a) ==
    /\ at[a].pc = "check"
    /\ \E left \in Trees, clean \in BOOLEAN, stray \in {at[a].stray, TRUE} :
        Becomes(a, [Goto(a, "reap") EXCEPT !.tree = left, !.clean = clean, !.stray = stray])
    /\ UnchangedProject /\ UnchangedRunner /\ UNCHANGED <<cp, checked>>

(* The process cannot be waited for, or its output not be read: an error   *)
(* that leaves the flag as it was.                                         *)
ValidationLost(a) ==
    /\ at[a].pc \in {"check", "reap"}
    /\ \E left \in Trees :
        Becomes(a, Stop([at[a] EXCEPT !.tree = IF at[a].pc = "check" THEN left ELSE @], "failed"))
    /\ UnchangedProject /\ UnchangedRunner /\ UNCHANGED <<cp, checked>>

(* The readers reach the end of the output; too much of it fails the       *)
(* validation.  The flag is set, and then the diff may be unreadable.  The *)
(* result holds the duration, so that two runs with the same verdict may   *)
(* or may not count as the same progress.                                  *)
Validates(a) ==
    /\ at[a].pc = "reap"
    /\ \E ok \in {FALSE, at[a].clean}, tick \in BOOLEAN :
        /\ LET r == [at[a] EXCEPT !.passed = ok, !.clean = FALSE]
           IN \/ Record(a, r, <<"validation", at[a].tree, ok, tick>>, ~ok)
              \/ Becomes(a, Stop(r, "failed")) /\ UNCHANGED cp
        /\ checked' = IF ok THEN [checked EXCEPT ![a] = at[a].tree] ELSE checked
    /\ UnchangedProject /\ UnchangedRunner

(* What a validation left behind writes to the workspace. *)
StrayWrites(a) ==
    /\ at[a].stray /\ at[a].pc \in {"loop", "act", "reap", "evidence", "publish"}
    /\ \E left \in Trees \ {at[a].tree} : Becomes(a, [at[a] EXCEPT !.tree = left])
    /\ UnchangedProject /\ UnchangedRunner /\ UNCHANGED <<cp, checked>>

------------------------------------------------------------------------------
(* The rest of execute_harness_assignment. *)

Changed(a) == at[a].tree # "base"
Unvalidated(a) == a \in Local /\ Changed(a) /\ ~at[a].passed

(* The complete diff and status for the evidence cannot be read: the       *)
(* function returns and leaves the workspace where it is.                  *)
EvidenceFails(a) ==
    /\ at[a].pc = "evidence"
    /\ Becomes(a, Goto(a, "fault"))
    /\ UnchangedProject /\ UnchangedRunner /\ UNCHANGED <<cp, checked>>

(* HARNESS_VALIDATION_REQUIRED, after a cleanup. *)
ValidationRequired(a) ==
    /\ at[a].pc = "evidence" /\ Unvalidated(a)
    /\ Becomes(a, Goto(a, "fault"))
    /\ UnchangedProject /\ UnchangedRunner /\ UNCHANGED <<cp, checked>>

EvidenceRead(a) ==
    /\ at[a].pc = "evidence" /\ ~Unvalidated(a)
    /\ Becomes(a, Goto(a, IF a \in Local /\ Changed(a) /\ at[a].status = "completed"
                          THEN "publish" ELSE "cleanup"))
    /\ UnchangedProject /\ UnchangedRunner /\ UNCHANGED <<cp, checked>>

(* publish_validated_changes, first half: paths within the boundary, the   *)
(* project clean and still at the base revision; then the commit is made   *)
(* in the workspace.                                                       *)
PublishChecks(a) ==
    /\ at[a].pc = "publish" /\ Changed(a)
    /\ ~dirty /\ Len(history) = at[a].base
    /\ Becomes(a, Goto(a, "merge"))
    /\ UnchangedProject /\ UnchangedRunner /\ UNCHANGED <<cp, checked>>

NothingToPublish(a) ==
    /\ at[a].pc = "publish" /\ ~Changed(a)
    /\ Becomes(a, Goto(a, "cleanup"))
    /\ UnchangedProject /\ UnchangedRunner /\ UNCHANGED <<cp, checked>>

(* Mutant of PublishMerges: the branch is moved to the commit instead of   *)
(* being merged with --ff-only. *)
PublishResets(a) ==
    /\ at[a].pc = "merge"
    /\ history' = Append(SubSeq(history, 1, at[a].base), [by |-> a, tree |-> at[a].tree])
    /\ Becomes(a, Goto(a, "cleanup"))
    /\ UNCHANGED <<project, dirty, cp, checked>> /\ UnchangedRunner

(* Second half: fetch and merge --ff-only, which refuses a branch that has *)
(* moved on since the check.  Edits made since then are kept (or refused   *)
(* by Git, PublishFails).                                                  *)
PublishMerges(a) ==
    /\ at[a].pc = "merge"
    /\ Len(history) = at[a].base
    /\ history' = Append(history, [by |-> a, tree |-> at[a].tree])
    /\ Becomes(a, Goto(a, "cleanup"))
    /\ UNCHANGED <<project, dirty, cp, checked>> /\ UnchangedRunner

(* Any error of either half, HARNESS_PUBLISH_CONFLICT included.            *)
PublishFails(a) ==
    /\ at[a].pc \in {"publish", "merge"}
    /\ Becomes(a, Goto(a, "fault"))
    /\ UnchangedProject /\ UnchangedRunner /\ UNCHANGED <<cp, checked>>

(* The workspace is removed; a failure to do so is only noted. *)
CleansUp(a) ==
    /\ at[a].pc = "cleanup"
    /\ Becomes(a, Goto(a, "validating"))
    /\ UnchangedProject /\ UnchangedRunner /\ UNCHANGED <<cp, checked>>

------------------------------------------------------------------------------
(* The rest of execute_claim: the reports.  Each `?` ends the thread.      *)

ToValidating(a) ==
    /\ at[a].pc = "validating"
    /\ Post(a, "validating",
            Goto(a, IF at[a].status = "completed" /\ Changed(a) THEN "artifact" ELSE "final"),
            Over(a, "ended"))
    /\ UnchangedProject /\ UnchangedRunner /\ UNCHANGED checked

PostsArtifact(a) ==
    /\ at[a].pc = "artifact"
    /\ Post(a, cp[a], Goto(a, "final"), Over(a, "ended"))
    /\ UnchangedProject /\ UnchangedRunner /\ UNCHANGED checked

(* Mutant of ToFinal: the outcome of the loop is not looked at. *)
ToFinalSucceeded(a) ==
    /\ at[a].pc = "final"
    /\ Post(a, "succeeded", Over(a, "ended"), Over(a, "ended"))
    /\ UnchangedProject /\ UnchangedRunner /\ UNCHANGED checked

ToFinal(a) ==
    /\ at[a].pc = "final"
    /\ Post(a, IF at[a].status = "completed" THEN "succeeded" ELSE "failed",
            Over(a, "ended"), Over(a, "ended"))
    /\ UnchangedProject /\ UnchangedRunner /\ UNCHANGED checked

(* execute_harness_assignment returned an error. *)
ToFailed(a) ==
    /\ at[a].pc = "fault"
    /\ Post(a, "failed", Over(a, "ended"), Over(a, "ended"))
    /\ UnchangedProject /\ UnchangedRunner /\ UNCHANGED checked

------------------------------------------------------------------------------
Starts(a) == CancelledEarly(a) \/ Resolves(a) \/ CreatesProject(a) \/ Scaffolds(a)
             \/ ResolveFails(a) \/ ToPreparing(a) \/ ToRunning(a) \/ Prepares(a)
Loops(a) == ModelTurn(a) \/ OutOfBudget(a) \/ Finishes(a) \/ ToolRefused(a)
            \/ Reads(a) \/ Patches(a) \/ Replays(a) \/ ToolFails(a)
            \/ ValidationDenied(a) \/ ValidationStarts(a) \/ ValidationEnds(a)
            \/ ValidationLost(a) \/ Validates(a)
Ends(a) == EvidenceFails(a) \/ ValidationRequired(a) \/ EvidenceRead(a)
           \/ PublishChecks(a) \/ NothingToPublish(a) \/ PublishMerges(a) \/ PublishFails(a) \/ CleansUp(a)
           \/ ToValidating(a) \/ PostsArtifact(a) \/ ToFinal(a) \/ ToFailed(a)
Thread(a) == Starts(a) \/ Loops(a) \/ Ends(a)
Cycle == CycleStarts \/ Registers \/ ClaimsDone \/ ClaimFails \/ Joins

Next ==
    \/ Cycle \/ RunnerDies \/ UserEdits \/ UserCommits
    \/ \E a \in Attempts : Claims(a) \/ Revoke(a) \/ Thread(a) \/ StrayWrites(a)

Spec == Init /\ [][Next]_vars

------------------------------------------------------------------------------
Pcs == Asleep \cup {"resolve", "scaffold", "preparing", "running", "workspace", "loop",
        "act", "check", "reap", "evidence", "publish", "merge", "cleanup", "validating", "artifact",
        "final", "fault"}

(* Types, and the budgets of the task: no interleaving of failing records, *)
(* replays and repairs runs a turn or a tool too many.                     *)
TypeOK ==
    /\ project \in {"absent", "created", "ready"} /\ dirty \in BOOLEAN
    /\ history \in Seq([by : Attempts \cup {"user", "init"}, tree : Trees \cup {"user"}])
    /\ runner \in {"idle", "registering", "claiming", "joining"} /\ handles \subseteq Attempts
    /\ DOMAIN at = Attempts
    /\ \A a \in Attempts :
        /\ at[a].pc \in Pcs /\ at[a].tree \in Trees /\ at[a].base \in Nat
        /\ at[a].turns \in 0..MaxTurns /\ at[a].tools \in 0..at[a].turns
        /\ at[a].tools <= MaxTools
        /\ at[a].repairs \in 0..(MaxRepairs + 1) /\ at[a].repeated \in 0..3
        /\ {at[a].passed, at[a].synced, at[a].clean, at[a].stray} \subseteq BOOLEAN
        /\ at[a].status \in {"running", "completed", "partial", "failed"}
    /\ cp \in [Attempts -> {"queued", "claimed", "preparing", "running", "validating",
                            "succeeded", "failed", "revoked"}]
    /\ checked \in [Attempts -> Trees \cup {"none"}]

Published(a) == \E i \in DOMAIN history : history[i].by = a

(* Nothing unvalidated reaches the user's project: what an attempt         *)
(* committed to it is exactly the tree its last passing validation left    *)
(* behind, with no patch and no failed validation in between.  Excepted is *)
(* an attempt whose validation left a process behind that goes on writing. *)
PublishedWasValidated ==
    \A i \in DOMAIN history : history[i].by \in Attempts =>
        \/ history[i].tree = checked[history[i].by]
        \/ at[history[i].by].stray

(* Publishing never loses a commit: whatever the user and other attempts   *)
(* did between the check and the merge, the branch only grows.             *)
HistoryKept == [][IsPrefix(history, history')]_vars

(* Success at the control plane means the loop completed and its changes   *)
(* are on the project's branch.                                            *)
SucceededIsPublished ==
    \A a \in Attempts : cp[a] = "succeeded" =>
        /\ at[a].status = "completed"
        /\ a \in Local /\ Changed(a) => Published(a)

(* docs/coding-harness-node-configuration.md: failed, cancelled or stale   *)
(* attempts do not alter the project folder.                               *)
OnlySuccessAltersProject ==
    \A a \in Attempts : cp[a] \in {"failed", "revoked"} => ~Published(a)
==============================================================================
