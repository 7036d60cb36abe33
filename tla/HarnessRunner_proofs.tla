------------------------ MODULE HarnessRunner_proofs ------------------------
(***************************************************************************)
(* Proofs about HarnessRunner for any number of attempts, slots, budgets   *)
(* and contents: publication only extends the user's branch, what it adds  *)
(* was validated, and a success that is reported is on the branch.         *)
(*                                                                         *)
(* The passed flag alone does not vouch for the tree: while a validation   *)
(* runs, and after one that was lost, an older flag stands beside a tree   *)
(* the process has changed.  The invariant therefore says where in the     *)
(* thread the flag may be trusted, and that an attempt in the history is   *)
(* past the places where its tree or its verdict could still change.       *)
(***************************************************************************)
EXTENDS HarnessRunner, SequenceTheorems, TLAPS

Fields == {"pc", "base", "turns", "tools", "repairs", "tree", "passed", "applied",
           "last", "repeated", "status", "synced", "clean", "stray"}

Commits == [by : Attempts \cup {"user", "init"}, tree : Trees \cup {"user"}]

(* Up to the next action of the model the flag is that of the tree. *)
Vouching == {"idle", "resolve", "scaffold", "preparing", "running", "workspace",
             "loop", "act"}

(* Past the merge: nothing of the workspace is looked at any more. *)
Closed == {"cleanup", "validating", "artifact", "final", "fault", "ended", "dead"}

(* Before the project is resolved, or after the thread. *)
Detached == {"idle", "resolve", "scaffold", "ended", "dead"}

Ready(a) == a \in Local => project = "ready"

(* A thread of a local project works in one that is set up, and only such  *)
(* a thread publishes.                                                     *)
Settled(a, pc) ==
    /\ pc \notin Detached => Ready(a)
    /\ pc \in {"publish", "merge"} => a \in Local

IsThread(r) ==
    /\ DOMAIN r = Fields
    /\ r.tree \in Trees
    /\ r.passed \in BOOLEAN /\ r.clean \in BOOLEAN /\ r.stray \in BOOLEAN

Same(r, c) == r.tree = c \/ r.stray

(* c is the tree the last passing validation left behind. *)
Vouched(r, c) ==
    /\ r.pc \in Vouching /\ r.passed => Same(r, c)
    /\ r.pc = "evidence" /\ r.status = "completed" /\ r.passed => Same(r, c)
    /\ r.pc \in {"publish", "merge"} => Same(r, c)

Good(a) ==
    /\ IsThread(at[a]) /\ Vouched(at[a], checked[a]) /\ Settled(a, at[a].pc)
    /\ cp[a] = "queued" => at[a].pc = "idle"

Threads ==
    /\ DOMAIN at = Attempts /\ DOMAIN cp = Attempts /\ DOMAIN checked = Attempts
    /\ \A a \in Attempts : Good(a)

(* What an attempt committed is what was checked, and it is over. *)
Entered(c) ==
    c.by \in Attempts =>
        /\ at[c.by].pc \in Closed
        /\ c.tree = checked[c.by] \/ at[c.by].stray

Entries ==
    /\ history \in Seq(Commits)
    /\ \A i \in DOMAIN history : Entered(history[i])

(* One thread at most sets the project up, and before that is done the     *)
(* branch has no commit.                                                   *)
Setup ==
    /\ project # "ready" => history = <<>> /\ dirty = FALSE
    /\ \A a \in Attempts : at[a].pc = "scaffold" => project = "created"
    /\ \A a, b \in Attempts :
          at[a].pc = "scaffold" /\ at[b].pc = "scaffold" => a = b

PublishInv == Threads /\ Entries /\ Setup

------------------------------------------------------------------------------
(* A step of one thread that leaves the project alone. *)
Quiet(a) ==
    /\ UnchangedProject
    /\ DOMAIN at' = Attempts /\ DOMAIN cp' = Attempts /\ DOMAIN checked' = Attempts
    /\ \A b \in Attempts \ {a} :
          at'[b] = at[b] /\ cp'[b] = cp[b] /\ checked'[b] = checked[b]
    /\ Good(a)'
    /\ at[a].stray => at'[a].stray
    /\ at[a].pc \in Closed => at'[a].pc \in Closed /\ checked'[a] = checked[a]
    /\ at'[a].pc = "scaffold" => at[a].pc = "scaffold"

(* The record r may follow the one a's thread has now. *)
Fits(a, r) ==
    /\ IsThread(r) /\ Vouched(r, checked[a]) /\ Settled(a, r.pc)
    /\ at[a].stray => r.stray
    /\ at[a].pc \in Closed => r.pc \in Closed
    /\ r.pc \notin {"idle", "scaffold"}

(* Such a step keeps the invariant: commits of other attempts are not      *)
(* touched, and a's own are there only once its verdict cannot change.     *)
LEMMA QuietKeeps ==
    ASSUME PublishInv, NEW a \in Attempts, Quiet(a)
    PROVE  PublishInv'
<1>1. Threads'
  <2>1. ASSUME NEW b \in Attempts \ {a} PROVE Good(b)'
    <3>1. Good(b) /\ at'[b] = at[b] /\ cp'[b] = cp[b] /\ checked'[b] = checked[b]
          /\ project' = project
      BY DEF PublishInv, Threads, Quiet, UnchangedProject
    <3> QED BY <3>1 DEF Good, Settled, Ready
  <2> QED BY <2>1 DEF Threads, Quiet
<1>2. Entries'
  <2>1. history' \in Seq(Commits)
    BY DEF PublishInv, Entries, Quiet, UnchangedProject
  <2>2. ASSUME NEW i \in DOMAIN history' PROVE Entered(history[i])'
    <3>1. history'[i] = history[i] /\ i \in DOMAIN history
      BY <2>2 DEF Quiet, UnchangedProject
    <3>2. Entered(history[i])
      BY <3>1 DEF PublishInv, Entries
    <3>3. CASE history[i].by = a
      BY <3>1, <3>2, <3>3 DEF Entered, Quiet
    <3>4. CASE history[i].by # a
      BY <3>1, <3>2, <3>4 DEF Entered, Quiet
    <3> QED BY <3>3, <3>4
  <2> QED BY <2>1, <2>2 DEF Entries
<1>3. Setup'
  BY DEF PublishInv, Setup, Quiet, UnchangedProject
<1> QED BY <1>1, <1>2, <1>3 DEF PublishInv

(* A thread that runs is not that of a queued attempt. *)
LEMMA NotQueued ==
    ASSUME PublishInv, NEW a \in Attempts, at[a].pc # "idle"
    PROVE  cp[a] # "queued"
BY DEF PublishInv, Threads, Good

(* A thread at work has its project. *)
LEMMA ReadyIs ==
    ASSUME PublishInv, NEW a \in Attempts, at[a].pc \notin Detached
    PROVE  Ready(a)
BY DEF PublishInv, Threads, Good, Settled

(* A thread that goes on with a fitting record disturbs nothing. *)
LEMMA BecomesQuiet ==
    ASSUME PublishInv, NEW a \in Attempts, NEW r, at[a].pc # "idle",
           Becomes(a, r), Fits(a, r), UnchangedProject, UNCHANGED <<cp, checked>>
    PROVE  Quiet(a)
<1>1. DOMAIN at = Attempts /\ DOMAIN cp = Attempts /\ DOMAIN checked = Attempts
  BY DEF PublishInv, Threads
<1>2. at'[a] = r /\ DOMAIN at' = Attempts /\ \A b \in Attempts \ {a} : at'[b] = at[b]
  BY <1>1 DEF Becomes
<1>3. Good(a)'
  BY <1>2, NotQueued DEF Good, Fits, Settled, Ready, UnchangedProject
<1> QED BY <1>1, <1>2, <1>3 DEF Quiet, Fits

(* The same with a request to the control plane, accepted or not. *)
LEMMA PostQuiet ==
    ASSUME PublishInv, NEW a \in Attempts, NEW state, NEW ok, NEW err,
           at[a].pc # "idle", state # "queued", Post(a, state, ok, err),
           Fits(a, ok), Fits(a, err), UnchangedProject, UNCHANGED checked
    PROVE  Quiet(a)
<1>1. DOMAIN at = Attempts /\ DOMAIN cp = Attempts /\ DOMAIN checked = Attempts
  BY DEF PublishInv, Threads
<1>2. ASSUME NEW r, Becomes(a, r), Fits(a, r), cp' = [cp EXCEPT ![a] = state]
      PROVE  Quiet(a)
  <2>1. at'[a] = r /\ DOMAIN at' = Attempts /\ \A b \in Attempts \ {a} : at'[b] = at[b]
    BY <1>1, <1>2 DEF Becomes
  <2>2. cp'[a] = state /\ DOMAIN cp' = Attempts /\ \A b \in Attempts \ {a} : cp'[b] = cp[b]
    BY <1>1, <1>2
  <2>3. Good(a)'
    BY <1>2, <2>1, <2>2 DEF Good, Fits, Settled, Ready, UnchangedProject
  <2> QED BY <1>1, <1>2, <2>1, <2>2, <2>3 DEF Quiet, Fits
<1>3. Fits(a, [err EXCEPT !.synced = err.pc \in Asleep])
  BY DEF Fits, IsThread, Vouched, Same, Fields, Settled
<1>4. CASE Becomes(a, err) /\ UNCHANGED cp
  BY <1>4, BecomesQuiet
<1> QED BY <1>2, <1>3, <1>4 DEF Post

------------------------------------------------------------------------------
(* The records threads go on with. *)

(* The end of a thread. *)
LEMMA OverFits ==
    ASSUME PublishInv, NEW a \in Attempts, NEW pc \in {"ended", "dead"}
    PROVE  /\ Fits(a, Over(a, pc))
           /\ Over(a, pc).pc = pc /\ Over(a, pc).stray = at[a].stray
<1>1. IsThread(at[a])
  BY DEF PublishInv, Threads, Good
<1>2. IsThread(Over(a, pc)) /\ Over(a, pc).pc = pc /\ Over(a, pc).stray = at[a].stray
  BY <1>1 DEF IsThread, Over, Fresh, Fields
<1> QED BY <1>2 DEF Fits, Vouched, Closed, Vouching, Settled, Detached

(* A place past the merge, where no flag is looked at. *)
LEMMA GotoFits ==
    ASSUME PublishInv, NEW a \in Attempts, NEW pc \in Closed, Ready(a)
    PROVE  Fits(a, Goto(a, pc))
<1>1. IsThread(at[a])
  BY DEF PublishInv, Threads, Good
<1>2. /\ IsThread(Goto(a, pc)) /\ Goto(a, pc).pc = pc /\ Goto(a, pc).stray = at[a].stray
  BY <1>1 DEF IsThread, Goto, Fields
<1> QED BY <1>2 DEF Fits, Vouched, Closed, Vouching, Settled

(* The first places of the thread, before any validation. *)
LEMMA EarlyFits ==
    ASSUME PublishInv, NEW a \in Attempts, NEW pc \in Vouching \ {"idle", "scaffold"},
           at[a].pc \in Vouching, Ready(a)
    PROVE  Fits(a, Goto(a, pc))
<1>1. IsThread(at[a]) /\ Vouched(at[a], checked[a])
  BY DEF PublishInv, Threads, Good
<1>2. /\ IsThread(Goto(a, pc)) /\ Goto(a, pc).pc = pc /\ Goto(a, pc).stray = at[a].stray
      /\ Goto(a, pc).tree = at[a].tree /\ Goto(a, pc).passed = at[a].passed
  BY <1>1 DEF IsThread, Goto, Fields
<1> QED BY <1>1, <1>2 DEF Fits, Vouched, Closed, Vouching, Same, Settled

(* The end of the loop keeps the tree and the flag. *)
LEMMA StopIs ==
    ASSUME NEW r, IsThread(r), NEW status
    PROVE  LET s == Stop(r, status) IN
           /\ IsThread(s) /\ s.pc = "evidence" /\ s.status = status
           /\ s.tree = r.tree /\ s.passed = r.passed /\ s.stray = r.stray
BY DEF IsThread, Stop, Fresh, Fields

(* A loop that did not complete publishes nothing. *)
LEMMA StopFits ==
    ASSUME NEW a, NEW r, IsThread(r), NEW status, status # "completed",
           at[a].pc \notin Closed, at[a].stray => r.stray, Ready(a)
    PROVE  Fits(a, Stop(r, status))
BY StopIs DEF Fits, Vouched, Vouching, Settled

(* What follows a tool call, the next turn or the end of the loop, keeps a *)
(* verdict that was right for the tree.                                    *)
LEMMA AfterToolIs ==
    ASSUME NEW r, IsThread(r), NEW progress, NEW failedCheck, NEW c,
           r.passed => Same(r, c)
    PROVE  LET n == AfterTool(r, progress, failedCheck) IN
           IsThread(n) /\ Vouched(n, c) /\ n.stray = r.stray /\ n.pc \in {"loop", "evidence"}
<1> DEFINE repeats == IF r.last = progress THEN r.repeated + 1 ELSE 0
           s == [r EXCEPT !.last = progress, !.repeated = repeats]
           t == [s EXCEPT !.repairs = @ + IF failedCheck THEN 1 ELSE 0]
           u == [t EXCEPT !.pc = "loop"]
           Right(n) == /\ IsThread(n) /\ Vouched(n, c) /\ n.stray = r.stray
                       /\ n.pc \in {"loop", "evidence"}
<1>1. IsThread(s) /\ s.stray = r.stray
  BY DEF IsThread, Fields
<1>2. IsThread(t) /\ t.stray = r.stray /\ t.tree = r.tree /\ t.passed = r.passed
  BY DEF IsThread, Fields
<1>3. IsThread(u) /\ u.stray = r.stray /\ u.tree = r.tree /\ u.passed = r.passed /\ u.pc = "loop"
  <2> HIDE DEF t
  <2> QED BY <1>2 DEF IsThread, Fields
<1>4. Right(Stop(s, "partial")) /\ Right(Stop(t, "partial"))
  <2> HIDE DEF s, t
  <2> QED BY <1>1, <1>2, StopIs DEF Vouched, Vouching
<1>5. Right(u)
  <2> HIDE DEF u
  <2> QED BY <1>3 DEF Vouched, Same
<1>6. AfterTool(r, progress, failedCheck) \in {Stop(s, "partial"), Stop(t, "partial"), u}
  BY DEF AfterTool
<1> HIDE DEF s, t, u
<1> QED BY <1>4, <1>5, <1>6

(* Recording a tool call whose effect is r. *)
LEMMA RecordQuiet ==
    ASSUME PublishInv, NEW a \in Attempts, NEW r, IsThread(r), NEW progress, NEW failedCheck,
           r.passed => Same(r, checked[a]), at[a].pc = "act", r.stray = at[a].stray,
           Record(a, r, progress, failedCheck), UnchangedProject, UNCHANGED checked
    PROVE  Quiet(a)
<1>0. Ready(a)
  BY ReadyIs DEF Detached
<1>1. Fits(a, AfterTool(r, progress, failedCheck))
  BY <1>0, AfterToolIs DEF Fits, Closed, Settled
<1>2. Fits(a, Stop(r, "failed"))
  BY <1>0, StopFits DEF Closed
<1> QED BY <1>1, <1>2, NotQueued, PostQuiet DEF Record

------------------------------------------------------------------------------
(* The actions of a thread that leave the project alone. *)

(* Up to the loop. *)
LEMMA StartsQuiet ==
    ASSUME PublishInv, NEW a \in Attempts,
           \/ CancelledEarly(a) \/ Resolves(a) \/ ResolveFails(a)
           \/ ToPreparing(a) \/ ToRunning(a) \/ Prepares(a)
    PROVE  Quiet(a)
<1>1. IsThread(at[a]) /\ Vouched(at[a], checked[a])
  BY DEF PublishInv, Threads, Good
<1>2. Fits(a, Over(a, "ended"))
  BY OverFits
<1>3. ASSUME CancelledEarly(a) PROVE Quiet(a)
  BY <1>2, <1>3, PostQuiet DEF CancelledEarly
<1>4. ASSUME Resolves(a) PROVE Quiet(a)
  <2> DEFINE g == Goto(a, "preparing")
             r == [g EXCEPT !.base = Len(history)]
  <2>1. Fits(a, g)
    BY <1>4, EarlyFits DEF Resolves, Vouching, Ready
  <2>2. Fits(a, r)
    <3> HIDE DEF g
    <3> QED BY <2>1 DEF Fits, IsThread, Vouched, Same, Fields, Settled
  <2> HIDE DEF r
  <2>3. Becomes(a, r) /\ at[a].pc = "resolve" /\ UnchangedProject /\ UNCHANGED <<cp, checked>>
    BY <1>4 DEF Resolves, r, g
  <2> QED BY <2>2, <2>3, BecomesQuiet
<1>5. ASSUME ResolveFails(a) PROVE Quiet(a)
  BY <1>2, <1>5, BecomesQuiet DEF ResolveFails
<1>6. ASSUME ToPreparing(a) PROVE Quiet(a)
  <2>1. Fits(a, Goto(a, "running"))
    BY <1>6, EarlyFits, ReadyIs DEF ToPreparing, Vouching, Detached
  <2> QED BY <1>2, <1>6, <2>1, PostQuiet DEF ToPreparing
<1>7. ASSUME ToRunning(a) PROVE Quiet(a)
  <2>1. Fits(a, Goto(a, "workspace"))
    BY <1>7, EarlyFits, ReadyIs DEF ToRunning, Vouching, Detached
  <2> QED BY <1>2, <1>7, <2>1, PostQuiet DEF ToRunning
<1>8. ASSUME Prepares(a) PROVE Quiet(a)
  <2>1. Fits(a, Goto(a, "loop")) /\ Fits(a, Goto(a, "fault"))
    BY <1>8, EarlyFits, GotoFits, ReadyIs DEF Prepares, Vouching, Closed, Detached
  <2> QED BY <1>8, <2>1, BecomesQuiet DEF Prepares
<1> QED BY <1>3, <1>4, <1>5, <1>6, <1>7, <1>8

(* The loop up to its tools. *)
LEMMA TurnsQuiet ==
    ASSUME PublishInv, NEW a \in Attempts,
           ModelTurn(a) \/ OutOfBudget(a) \/ Finishes(a) \/ ToolRefused(a)
    PROVE  Quiet(a)
<1>1. IsThread(at[a]) /\ Vouched(at[a], checked[a])
  BY DEF PublishInv, Threads, Good
<1>0. Ready(a)
  BY ReadyIs DEF ModelTurn, OutOfBudget, Finishes, ToolRefused, Detached
<1>2. ASSUME ModelTurn(a) PROVE Quiet(a)
  <2> DEFINE r == [at[a] EXCEPT !.turns = @ + 1]
             s == [r EXCEPT !.pc = "act"]
  <2>1. at[a].pc = "loop"
    BY <1>2 DEF ModelTurn
  <2>2. /\ IsThread(r) /\ r.stray = at[a].stray
        /\ r.tree = at[a].tree /\ r.passed = at[a].passed
    BY <1>1 DEF IsThread, Fields
  <2>3. Fits(a, s)
    <3>1. /\ IsThread(s) /\ s.pc = "act" /\ s.stray = r.stray
          /\ s.tree = r.tree /\ s.passed = r.passed
      <4> HIDE DEF r
      <4> QED BY <2>2 DEF IsThread, Fields
    <3> HIDE DEF s
    <3> QED BY <1>0, <1>1, <2>1, <2>2, <3>1 DEF Fits, Vouched, Same, Vouching, Closed, Settled
  <2>4. Fits(a, Stop(r, "failed"))
    <3> HIDE DEF r
    <3> QED BY <1>0, <2>1, <2>2, StopFits DEF Closed
  <2>5. Post(a, cp[a], s, Stop(r, "failed")) /\ UnchangedProject /\ UNCHANGED checked
    BY <1>2 DEF ModelTurn
  <2> HIDE DEF r, s
  <2> QED BY <2>1, <2>3, <2>4, <2>5, NotQueued, PostQuiet
<1>3. ASSUME OutOfBudget(a) PROVE Quiet(a)
  <2>1. Fits(a, Stop(at[a], "partial"))
    BY <1>0, <1>1, <1>3, StopFits DEF OutOfBudget, Closed
  <2> QED BY <1>3, <2>1, BecomesQuiet DEF OutOfBudget
<1>4. ASSUME Finishes(a) PROVE Quiet(a)
  <2>1. at[a].pc = "act"
    BY <1>4 DEF Finishes
  <2>2. ASSUME NEW status PROVE Fits(a, Stop(at[a], status))
    BY <1>0, <1>1, <2>1, StopIs DEF Fits, Vouched, Same, Vouching, Closed, Settled
  <2> QED BY <1>4, <2>1, <2>2, BecomesQuiet DEF Finishes
<1>5. ASSUME ToolRefused(a) PROVE Quiet(a)
  <2>1. Fits(a, Stop(at[a], "partial")) /\ Fits(a, Stop(at[a], "failed"))
    BY <1>0, <1>1, <1>5, StopFits DEF ToolRefused, Closed
  <2>2. Becomes(a, Stop(at[a], "partial")) \/ Becomes(a, Stop(at[a], "failed"))
    BY <1>5 DEF ToolRefused
  <2> QED BY <1>5, <2>1, <2>2, BecomesQuiet DEF ToolRefused
<1> QED BY <1>2, <1>3, <1>4, <1>5

(* The tools of the loop and the validation. *)
LEMMA ToolsQuiet ==
    ASSUME PublishInv, NEW a \in Attempts,
           Reads(a) \/ Patches(a) \/ Replays(a) \/ ToolFails(a) \/ ValidationDenied(a)
    PROVE  Quiet(a)
<1>1. IsThread(at[a]) /\ Vouched(at[a], checked[a])
  BY DEF PublishInv, Threads, Good
<1>2. at[a].pc = "act" /\ UnchangedProject /\ UNCHANGED checked
  BY DEF Reads, Patches, Replays, ToolFails, ValidationDenied, MayUseTool
<1>3. /\ IsThread(Used(a)) /\ Used(a).stray = at[a].stray
      /\ Used(a).tree = at[a].tree /\ Used(a).passed = at[a].passed
  BY <1>1 DEF IsThread, Fields, Used
<1>4. Used(a).passed => Same(Used(a), checked[a])
  BY <1>1, <1>2, <1>3 DEF Vouched, Vouching, Same
<1>5. ASSUME Reads(a) PROVE Quiet(a)
  BY <1>2, <1>3, <1>4, <1>5, RecordQuiet DEF Reads
<1>6. ASSUME Patches(a) PROVE Quiet(a)
  <2>1. PICK k \in Keys, c \in Contents :
           Record(a, [Used(a) EXCEPT !.passed = FALSE, !.tree = c,
                                     !.applied[k] = <<at[a].tree, c>>],
                  <<"patch", at[a].tree, c, FALSE>>, FALSE)
    BY <1>6 DEF Patches
  <2> DEFINE r == [Used(a) EXCEPT !.passed = FALSE, !.tree = c,
                                  !.applied[k] = <<at[a].tree, c>>]
  <2>2. IsThread(r) /\ r.passed = FALSE /\ r.stray = at[a].stray
    BY <1>3 DEF IsThread, Fields, Trees
  <2> HIDE DEF r
  <2> QED BY <1>2, <2>1, <2>2, RecordQuiet DEF r
<1>7. ASSUME Replays(a) PROVE Quiet(a)
  <2> DEFINE r == [Used(a) EXCEPT !.passed = FALSE]
  <2>1. IsThread(r) /\ r.passed = FALSE /\ r.stray = at[a].stray
    BY <1>3 DEF IsThread, Fields
  <2>2. PICK k \in Keys :
           Record(a, r, <<"patch", at[a].applied[k][1], at[a].applied[k][2], TRUE>>, FALSE)
    BY <1>7 DEF Replays
  <2> HIDE DEF r
  <2> QED BY <1>2, <2>1, <2>2, RecordQuiet
<1>8. ASSUME NEW tree \in Trees, NEW passed \in BOOLEAN, Fails(a, tree, passed), UNCHANGED cp
      PROVE  Quiet(a)
  <2> DEFINE r == [Used(a) EXCEPT !.tree = tree, !.passed = passed]
  <2>1. IsThread(r) /\ r.stray = at[a].stray
    BY <1>3 DEF IsThread, Fields
  <2>2. Becomes(a, Stop(r, "failed"))
    BY <1>8 DEF Fails
  <2> HIDE DEF r
  <2>3. Fits(a, Stop(r, "failed"))
    BY <1>2, <2>1, StopFits, ReadyIs DEF Closed, Detached
  <2> QED BY <1>2, <1>8, <2>2, <2>3, BecomesQuiet
<1>9. ASSUME ToolFails(a) \/ ValidationDenied(a) PROVE Quiet(a)
  BY <1>1, <1>8, <1>9 DEF ToolFails, ValidationDenied, IsThread
<1> QED BY <1>5, <1>6, <1>7, <1>9

(* A validation up to its verdict: while its process runs, and when it is  *)
(* lost, the older flag is not looked at.                                  *)
LEMMA ValidationQuiet ==
    ASSUME PublishInv, NEW a \in Attempts,
           \/ ValidationStarts(a) \/ ValidationEnds(a) \/ ValidationLost(a) \/ StrayWrites(a)
    PROVE  Quiet(a)
<1>1. IsThread(at[a]) /\ Vouched(at[a], checked[a]) /\ Settled(a, at[a].pc)
  BY DEF PublishInv, Threads, Good
<1>2. ASSUME ValidationStarts(a) PROVE Quiet(a)
  <2> DEFINE r == [Used(a) EXCEPT !.pc = "check"]
  <2>1. IsThread(Used(a)) /\ Used(a).stray = at[a].stray
    BY <1>1 DEF IsThread, Fields, Used
  <2>2. IsThread(r) /\ r.pc = "check" /\ r.stray = at[a].stray
    BY <2>1 DEF IsThread, Fields
  <2>3. at[a].pc = "act" /\ Becomes(a, r) /\ UnchangedProject /\ UNCHANGED <<cp, checked>>
    BY <1>2 DEF ValidationStarts, MayUseTool
  <2> HIDE DEF r
  <2>4. Fits(a, r)
    BY <2>2, <2>3, ReadyIs DEF Fits, Vouched, Vouching, Closed, Settled, Detached
  <2> QED BY <2>3, <2>4, BecomesQuiet
<1>3. ASSUME ValidationEnds(a) PROVE Quiet(a)
  <2> DEFINE g == Goto(a, "reap")
  <2>1. IsThread(g) /\ g.pc = "reap"
    BY <1>1 DEF IsThread, Fields, Goto
  <2> HIDE DEF g
  <2>2. PICK left \in Trees, clean \in BOOLEAN, stray \in {at[a].stray, TRUE} :
           Becomes(a, [g EXCEPT !.tree = left, !.clean = clean, !.stray = stray])
    BY <1>3 DEF ValidationEnds, g
  <2> DEFINE r == [g EXCEPT !.tree = left, !.clean = clean, !.stray = stray]
  <2>3. IsThread(r) /\ r.pc = "reap" /\ r.stray = stray
    BY <1>1, <2>1 DEF IsThread, Fields
  <2>4. at[a].pc = "check" /\ UnchangedProject /\ UNCHANGED <<cp, checked>>
    BY <1>3 DEF ValidationEnds
  <2>5. Becomes(a, r)
    BY <2>2
  <2> HIDE DEF r
  <2>6. Fits(a, r)
    BY <2>3, <2>4, ReadyIs DEF Fits, Vouched, Vouching, Closed, Settled, Detached
  <2> QED BY <2>4, <2>5, <2>6, BecomesQuiet
<1>4. ASSUME ValidationLost(a) PROVE Quiet(a)
  <2>1. PICK left \in Trees :
           Becomes(a, Stop([at[a] EXCEPT !.tree = IF at[a].pc = "check" THEN left ELSE @],
                           "failed"))
    BY <1>4 DEF ValidationLost
  <2> DEFINE r == [at[a] EXCEPT !.tree = IF at[a].pc = "check" THEN left ELSE @]
  <2>2. IsThread(r) /\ r.stray = at[a].stray
    BY <1>1 DEF IsThread, Fields
  <2>3. at[a].pc \in {"check", "reap"} /\ UnchangedProject /\ UNCHANGED <<cp, checked>>
    BY <1>4 DEF ValidationLost
  <2>4. Becomes(a, Stop(r, "failed"))
    BY <2>1
  <2> HIDE DEF r
  <2>5. Fits(a, Stop(r, "failed"))
    BY <2>2, <2>3, StopFits, ReadyIs DEF Closed, Detached
  <2> QED BY <2>3, <2>4, <2>5, BecomesQuiet
<1>5. ASSUME StrayWrites(a) PROVE Quiet(a)
  <2>1. PICK left \in Trees : Becomes(a, [at[a] EXCEPT !.tree = left])
    BY <1>5 DEF StrayWrites
  <2> DEFINE r == [at[a] EXCEPT !.tree = left]
  <2>2. IsThread(r) /\ r.stray = at[a].stray /\ r.pc = at[a].pc
    BY <1>1 DEF IsThread, Fields
  <2>3. /\ at[a].stray /\ at[a].pc \in {"loop", "act", "reap", "evidence", "publish"}
        /\ UnchangedProject /\ UNCHANGED <<cp, checked>>
    BY <1>5 DEF StrayWrites
  <2>4. Becomes(a, r)
    BY <2>1
  <2> HIDE DEF r
  <2>5. Fits(a, r)
    BY <1>1, <2>2, <2>3 DEF Fits, Vouched, Same, Closed
  <2> QED BY <2>3, <2>4, <2>5, BecomesQuiet
<1> QED BY <1>2, <1>3, <1>4, <1>5

(* The verdict: a passing one notes the tree it was about. *)
LEMMA ValidatesQuiet ==
    ASSUME PublishInv, NEW a \in Attempts, Validates(a)
    PROVE  Quiet(a)
<1>1. /\ IsThread(at[a])
      /\ DOMAIN at = Attempts /\ DOMAIN cp = Attempts /\ DOMAIN checked = Attempts
  BY DEF PublishInv, Threads, Good
<1>2. at[a].pc = "reap" /\ UnchangedProject
  BY DEF Validates
<1>3. PICK ok \in {FALSE, at[a].clean}, tick \in BOOLEAN :
        /\ LET r == [at[a] EXCEPT !.passed = ok, !.clean = FALSE]
           IN \/ Record(a, r, <<"validation", at[a].tree, ok, tick>>, ~ok)
              \/ Becomes(a, Stop(r, "failed")) /\ UNCHANGED cp
        /\ checked' = IF ok THEN [checked EXCEPT ![a] = at[a].tree] ELSE checked
  BY DEF Validates
<1> DEFINE r == [at[a] EXCEPT !.passed = ok, !.clean = FALSE]
           n == AfterTool(r, <<"validation", at[a].tree, ok, tick>>, ~ok)
<1>4. IsThread(r) /\ r.tree = at[a].tree /\ r.stray = at[a].stray /\ r.passed = ok
  BY <1>1 DEF IsThread, Fields
<1>5. /\ \/ Post(a, cp[a], n, Stop(r, "failed"))
         \/ Becomes(a, Stop(r, "failed")) /\ UNCHANGED cp
      /\ checked' = IF ok THEN [checked EXCEPT ![a] = at[a].tree] ELSE checked
  BY <1>3 DEF Record
<1>6. /\ ok => checked'[a] = at[a].tree
      /\ DOMAIN checked' = Attempts
      /\ \A b \in Attempts \ {a} : checked'[b] = checked[b]
  BY <1>1, <1>5
<1> DEFINE Right(m) == /\ IsThread(m) /\ Vouched(m, checked'[a]) /\ m.stray = at[a].stray
                       /\ m.pc \in {"loop", "evidence"}
           e == Stop(r, "failed")
           f == [e EXCEPT !.synced = e.pc \in Asleep]
<1>7. Right(n)
  <2> HIDE DEF r
  <2>1. r.passed => Same(r, checked'[a])
    BY <1>4, <1>6 DEF Same
  <2> QED BY <1>4, <2>1, AfterToolIs
<1>8. Right(e)
  <2> HIDE DEF r
  <2> QED BY <1>4, StopIs DEF Vouched, Vouching
<1>9. Right(f)
  <2> HIDE DEF e
  <2> QED BY <1>8 DEF IsThread, Vouched, Same, Fields
<1>10. /\ \E m \in {n, e, f} : Becomes(a, m)
       /\ DOMAIN cp' = Attempts /\ \A b \in Attempts : cp'[b] = cp[b]
  <2> HIDE DEF n, r
  <2>1. cp' = [cp EXCEPT ![a] = cp[a]] \/ cp' = cp
    BY <1>5 DEF Post
  <2>2. \E m \in {n, e, f} : Becomes(a, m)
    BY <1>5 DEF Post
  <2> QED BY <1>1, <2>1, <2>2
<1>11. PICK m : Becomes(a, m) /\ Right(m)
  <2> HIDE DEF n, e, f, Right
  <2> QED BY <1>7, <1>8, <1>9, <1>10
<1>12. at'[a] = m /\ DOMAIN at' = Attempts /\ \A b \in Attempts \ {a} : at'[b] = at[b]
  BY <1>1, <1>11 DEF Becomes
<1>13. Good(a)'
  <2>1. Ready(a)
    BY <1>2, ReadyIs DEF Detached
  <2>2. Settled(a, m.pc)'
    BY <1>2, <1>11, <2>1 DEF Settled, Ready, UnchangedProject
  <2> QED BY <1>2, <1>10, <1>11, <1>12, <2>2, NotQueued DEF Good
<1> QED BY <1>1, <1>2, <1>6, <1>10, <1>11, <1>12, <1>13 DEF Quiet, Closed

(* From the evidence to the merge: what is offered for publication is what *)
(* was validated, since a changed local project without the flag never     *)
(* leaves the evidence.                                                    *)
LEMMA OffersQuiet ==
    ASSUME PublishInv, NEW a \in Attempts,
           \/ EvidenceFails(a) \/ ValidationRequired(a) \/ EvidenceRead(a)
           \/ PublishChecks(a) \/ NothingToPublish(a) \/ PublishFails(a) \/ CleansUp(a)
    PROVE  Quiet(a)
<1>1. IsThread(at[a]) /\ Vouched(at[a], checked[a]) /\ Settled(a, at[a].pc)
  BY DEF PublishInv, Threads, Good
<1>2. /\ at[a].pc \in {"evidence", "publish", "merge", "cleanup"}
      /\ UnchangedProject /\ UNCHANGED <<cp, checked>>
  BY DEF EvidenceFails, ValidationRequired, EvidenceRead, PublishChecks,
         NothingToPublish, PublishFails, CleansUp
<1>0. Ready(a)
  BY <1>2, ReadyIs DEF Detached
<1>3. Fits(a, Goto(a, "fault")) /\ Fits(a, Goto(a, "cleanup")) /\ Fits(a, Goto(a, "validating"))
  <2>1. \A pc \in Closed : Fits(a, Goto(a, pc))
    BY <1>0, GotoFits
  <2> QED BY <2>1 DEF Closed
<1>4. ASSUME NEW pc \in {"publish", "merge"}, Same(at[a], checked[a]), at[a].pc # "cleanup",
             a \in Local
      PROVE  Fits(a, Goto(a, pc))
  <2>1. /\ IsThread(Goto(a, pc)) /\ Goto(a, pc).pc = pc /\ Goto(a, pc).stray = at[a].stray
        /\ Goto(a, pc).tree = at[a].tree
    BY <1>1 DEF IsThread, Goto, Fields
  <2> QED BY <1>0, <1>2, <1>4, <2>1 DEF Fits, Vouched, Vouching, Same, Closed, Settled
<1>5. ASSUME EvidenceRead(a) PROVE Quiet(a)
  <2>1. CASE a \in Local /\ Changed(a) /\ at[a].status = "completed"
    <3>1. Same(at[a], checked[a]) /\ at[a].pc = "evidence"
      BY <1>1, <1>5, <2>1 DEF EvidenceRead, Unvalidated, Vouched
    <3>2. Becomes(a, Goto(a, "publish"))
      BY <1>5, <2>1 DEF EvidenceRead
    <3> QED BY <1>2, <1>4, <2>1, <3>1, <3>2, BecomesQuiet
  <2>2. CASE ~(a \in Local /\ Changed(a) /\ at[a].status = "completed")
    <3>1. Becomes(a, Goto(a, "cleanup"))
      BY <1>5, <2>2 DEF EvidenceRead
    <3> QED BY <1>2, <1>3, <3>1, BecomesQuiet
  <2> QED BY <2>1, <2>2
<1>6. ASSUME PublishChecks(a) PROVE Quiet(a)
  <2>1. /\ Same(at[a], checked[a]) /\ at[a].pc = "publish" /\ a \in Local
        /\ Becomes(a, Goto(a, "merge"))
    BY <1>1, <1>6 DEF PublishChecks, Vouched, Settled
  <2> QED BY <1>2, <1>4, <2>1, BecomesQuiet
<1>7. ASSUME \/ Becomes(a, Goto(a, "fault")) \/ Becomes(a, Goto(a, "cleanup"))
             \/ Becomes(a, Goto(a, "validating"))
      PROVE  Quiet(a)
  BY <1>2, <1>3, <1>7, BecomesQuiet
<1> QED BY <1>5, <1>6, <1>7 DEF EvidenceFails, ValidationRequired, NothingToPublish,
                               PublishFails, CleansUp

(* The reports after the assignment. *)
LEMMA ReportsQuiet ==
    ASSUME PublishInv, NEW a \in Attempts,
           ToValidating(a) \/ PostsArtifact(a) \/ ToFinal(a) \/ ToFailed(a)
    PROVE  Quiet(a)
<1>1. /\ at[a].pc \in {"validating", "artifact", "final", "fault"}
      /\ UnchangedProject /\ UNCHANGED checked
  BY DEF ToValidating, PostsArtifact, ToFinal, ToFailed
<1>2. Fits(a, Over(a, "ended"))
  BY OverFits
<1>0. Ready(a)
  BY <1>1, ReadyIs DEF Detached
<1>3. Fits(a, Goto(a, "artifact")) /\ Fits(a, Goto(a, "final"))
  <2>1. \A pc \in Closed : Fits(a, Goto(a, pc))
    BY <1>0, GotoFits
  <2> QED BY <2>1 DEF Closed
<1>4. PICK state, ok :
        /\ state # "queued" /\ ok \in {Goto(a, "artifact"), Goto(a, "final"), Over(a, "ended")}
        /\ Post(a, state, ok, Over(a, "ended"))
  <2>1. ASSUME ToValidating(a)
        PROVE \E ok \in {Goto(a, "artifact"), Goto(a, "final")} :
                 Post(a, "validating", ok, Over(a, "ended"))
    BY <2>1 DEF ToValidating
  <2>2. ASSUME PostsArtifact(a) PROVE Post(a, cp[a], Goto(a, "final"), Over(a, "ended"))
    BY <2>2 DEF PostsArtifact
  <2>3. ASSUME ToFinal(a)
        PROVE \E state \in {"succeeded", "failed"} :
                 Post(a, state, Over(a, "ended"), Over(a, "ended"))
    BY <2>3 DEF ToFinal
  <2>4. ASSUME ToFailed(a) PROVE Post(a, "failed", Over(a, "ended"), Over(a, "ended"))
    BY <2>4 DEF ToFailed
  <2>5. cp[a] # "queued"
    BY <1>1, NotQueued
  <2> QED BY <2>1, <2>2, <2>3, <2>4, <2>5
<1>5. Fits(a, ok)
  BY <1>2, <1>3, <1>4
<1> QED BY <1>1, <1>2, <1>4, <1>5, PostQuiet

(* What the control plane does: an attempt is handed out, or revoked. *)
LEMMA ControlQuiet ==
    ASSUME PublishInv, NEW a \in Attempts, Claims(a) \/ Revoke(a)
    PROVE  Quiet(a)
<1>1. /\ DOMAIN at = Attempts /\ DOMAIN cp = Attempts /\ DOMAIN checked = Attempts
      /\ Good(a)
  BY DEF PublishInv, Threads
<1>2. ASSUME Claims(a) PROVE Quiet(a)
  <2> DEFINE r == Goto(a, "resolve")
  <2>1. at[a].pc = "idle" /\ IsThread(at[a]) /\ Vouched(at[a], checked[a])
    BY <1>1, <1>2 DEF Good, Claims
  <2>2. /\ IsThread(r) /\ r.pc = "resolve" /\ r.stray = at[a].stray
        /\ r.tree = at[a].tree /\ r.passed = at[a].passed
    BY <2>1 DEF IsThread, Goto, Fields
  <2> HIDE DEF r
  <2>3. at' = [at EXCEPT ![a] = r] /\ cp' = [cp EXCEPT ![a] = "claimed"]
    BY <1>2 DEF Claims, Becomes, r
  <2>4. at'[a] = r /\ DOMAIN at' = Attempts /\ cp'[a] = "claimed" /\ DOMAIN cp' = Attempts
    BY <1>1, <2>3
  <2>5. \A b \in Attempts \ {a} : at'[b] = at[b] /\ cp'[b] = cp[b]
    BY <1>1, <2>3
  <2>6. UnchangedProject /\ checked' = checked
    BY <1>2 DEF Claims
  <2>7. Good(a)'
    BY <2>1, <2>2, <2>4, <2>6 DEF Good, Vouched, Vouching, Same, Settled, Detached
  <2> QED BY <1>1, <2>1, <2>2, <2>4, <2>5, <2>6, <2>7 DEF Quiet, Closed
<1>3. ASSUME Revoke(a) PROVE Quiet(a)
  <2>1. /\ cp' = [cp EXCEPT ![a] = "revoked"] /\ at' = at /\ checked' = checked
        /\ UnchangedProject
    BY <1>3 DEF Revoke
  <2>2. cp'[a] = "revoked" /\ DOMAIN cp' = Attempts /\ \A b \in Attempts \ {a} : cp'[b] = cp[b]
    BY <1>1, <2>1
  <2>3. Good(a)'
    BY <1>1, <2>1, <2>2 DEF Good, Settled, Ready, UnchangedProject
  <2> QED BY <1>1, <2>1, <2>2, <2>3 DEF Quiet
<1> QED BY <1>2, <1>3

------------------------------------------------------------------------------
(* The actions that change the project, or several threads. *)

(* The parts of the invariant carry over as long as threads are not        *)
(* touched and a longer history has only entries that are in order.        *)
LEMMA AppendKeeps ==
    ASSUME PublishInv, NEW c \in Commits, history' = Append(history, c),
           Entered(c)',
           \A a \in Attempts :
              at[a].pc \in Closed => at'[a].pc \in Closed /\ at'[a].stray = at[a].stray,
           checked' = checked
    PROVE  Entries'
<1>1. history \in Seq(Commits) /\ \A i \in DOMAIN history : Entered(history[i])
  BY DEF PublishInv, Entries
<1>2. history' \in Seq(Commits) /\ Len(history') = Len(history) + 1
  BY <1>1, AppendProperties
<1>3. ASSUME NEW i \in DOMAIN history' PROVE Entered(history[i])'
  <2>1. DOMAIN history = 1 .. Len(history) /\ DOMAIN history' = 1 .. Len(history) + 1
        /\ Len(history) \in Nat
    BY <1>1, <1>2
  <2>2. CASE i = Len(history) + 1
    <3>1. history'[i] = c
      BY <1>1, <2>2
    <3> QED BY <3>1 DEF Entered
  <2>3. CASE i # Len(history) + 1
    <3>1. i \in DOMAIN history /\ history'[i] = history[i]
      BY <1>1, <1>3, <2>1, <2>3
    <3>2. Entered(history[i])
      BY <1>1, <3>1
    <3> QED BY <3>1, <3>2 DEF Entered
  <2> QED BY <2>2, <2>3
<1> QED BY <1>2, <1>3 DEF Entries

(* The merge: the only step that puts an attempt into the history, with    *)
(* the tree that was vouched for up to this point.                         *)
LEMMA MergeKeeps ==
    ASSUME PublishInv, NEW a \in Attempts, PublishMerges(a)
    PROVE  PublishInv'
<1> DEFINE r == Goto(a, "cleanup")
<1> PICK c : c = [by |-> a, tree |-> at[a].tree]
  OBVIOUS
<1>1. /\ DOMAIN at = Attempts /\ DOMAIN cp = Attempts /\ DOMAIN checked = Attempts
      /\ IsThread(at[a]) /\ Vouched(at[a], checked[a]) /\ \A b \in Attempts : Good(b)
  BY DEF PublishInv, Threads, Good
<1>0. Ready(a) /\ a \in Local
  BY <1>1, ReadyIs DEF PublishMerges, Good, Settled, Detached
<1>2. /\ at[a].pc = "merge" /\ history' = Append(history, c) /\ Becomes(a, r)
      /\ UNCHANGED <<project, dirty, cp, checked>>
  BY DEF PublishMerges
<1>3. IsThread(r) /\ r.pc = "cleanup" /\ r.stray = at[a].stray
  BY <1>1 DEF IsThread, Goto, Fields
<1>4. at'[a] = r /\ DOMAIN at' = Attempts /\ \A b \in Attempts \ {a} : at'[b] = at[b]
  BY <1>1, <1>2 DEF Becomes
<1>5. c \in Commits
  BY <1>1 DEF Commits, IsThread
<1>6. Threads'
  <2> HIDE DEF r
  <2>1. Good(a)'
    BY <1>0, <1>2, <1>3, <1>4, NotQueued DEF Good, Vouched, Vouching, Settled, Ready
  <2>2. ASSUME NEW b \in Attempts \ {a} PROVE Good(b)'
    BY <1>1, <1>2, <1>4 DEF Good, Settled, Ready
  <2> QED BY <1>1, <1>2, <1>4, <2>1, <2>2 DEF Threads
<1>7. Entries'
  <2> HIDE DEF r
  <2>1. c.by = a /\ c.tree = at[a].tree
    OBVIOUS
  <2>2. Same(at[a], checked[a])
    BY <1>1, <1>2 DEF Vouched
  <2>3. at'[c.by].pc \in Closed /\ (c.tree = checked'[c.by] \/ at'[c.by].stray)
    BY <1>2, <1>3, <1>4, <2>1, <2>2 DEF Same, Closed
  <2>4. Entered(c)'
    BY <2>3 DEF Entered
  <2>5. \A b \in Attempts :
           at[b].pc \in Closed => at'[b].pc \in Closed /\ at'[b].stray = at[b].stray
    BY <1>3, <1>4 DEF Closed
  <2> QED BY <1>2, <1>5, <2>4, <2>5, AppendKeeps
<1>8. Setup'
  <2> HIDE DEF r
  <2>1. project' = "ready"
    BY <1>0, <1>2 DEF Ready
  <2>2. \A b \in Attempts : at'[b].pc = "scaffold" => at[b].pc = "scaffold"
    BY <1>3, <1>4
  <2>3. Setup
    BY DEF PublishInv
  <2> QED BY <2>1, <2>2, <2>3, <1>0 DEF Setup, Ready
<1> QED BY <1>6, <1>7, <1>8 DEF PublishInv

(* The user's own commit, in a project that is set up. *)
LEMMA UserKeeps ==
    ASSUME PublishInv, UserEdits \/ UserCommits
    PROVE  PublishInv'
<1>1. UNCHANGED <<project, at, cp, checked>>
  BY DEF UserEdits, UserCommits
<1>2. Threads'
  BY <1>1 DEF PublishInv, Threads, Good, Settled, Ready
<1>3. Entries'
  <2>1. CASE UserEdits
    <3>1. history' = history
      BY <2>1 DEF UserEdits
    <3> QED BY <1>1, <3>1 DEF PublishInv, Entries, Entered
  <2>2. CASE UserCommits
    <3> PICK c : c = [by |-> "user", tree |-> "user"]
      OBVIOUS
    <3>1. c \in Commits /\ c.by \notin Attempts
      BY HarnessAssumption DEF Commits, HarnessAssumption
    <3>2. Entered(c)'
      BY <3>1 DEF Entered
    <3>3. history' = Append(history, c)
      BY <2>2 DEF UserCommits
    <3> QED BY <1>1, <3>1, <3>2, <3>3, AppendKeeps
  <2> QED BY <2>1, <2>2
<1>4. Setup'
  BY <1>1 DEF PublishInv, Setup, UserEdits, UserCommits
<1> QED BY <1>2, <1>3, <1>4 DEF PublishInv

(* The project is set up by one thread, and from nothing. *)
LEMMA SetupKeeps ==
    ASSUME PublishInv, NEW a \in Attempts, CreatesProject(a) \/ Scaffolds(a)
    PROVE  PublishInv'
<1>1. /\ DOMAIN at = Attempts /\ DOMAIN cp = Attempts /\ DOMAIN checked = Attempts
      /\ IsThread(at[a]) /\ Vouched(at[a], checked[a]) /\ \A b \in Attempts : Good(b)
  BY DEF PublishInv, Threads, Good
<1>2. /\ at[a].pc \in {"resolve", "scaffold"} /\ UNCHANGED <<dirty, cp, checked>>
  BY DEF CreatesProject, Scaffolds
<1>3. project # "ready" /\ history = <<>> /\ dirty = FALSE
  BY DEF PublishInv, Setup, CreatesProject, Scaffolds
<1>4. \A b \in Attempts \ {a} : at[b].pc # "scaffold"
  BY DEF PublishInv, Setup, CreatesProject, Scaffolds
<1>5. PICK r : /\ Becomes(a, r) /\ IsThread(r) /\ r.stray = at[a].stray
               /\ r.tree = at[a].tree /\ r.passed = at[a].passed
               /\ \/ CreatesProject(a) /\ r.pc = "scaffold"
                  \/ Scaffolds(a) /\ r.pc = "preparing"
  <2>1. ASSUME CreatesProject(a)
        PROVE  LET r == Goto(a, "scaffold") IN
               /\ Becomes(a, r) /\ IsThread(r) /\ r.stray = at[a].stray
               /\ r.tree = at[a].tree /\ r.passed = at[a].passed /\ r.pc = "scaffold"
    BY <1>1, <2>1 DEF CreatesProject, Goto, IsThread, Fields
  <2>2. ASSUME Scaffolds(a)
        PROVE  LET r == [Goto(a, "preparing") EXCEPT !.base = 1] IN
               /\ Becomes(a, r) /\ IsThread(r) /\ r.stray = at[a].stray
               /\ r.tree = at[a].tree /\ r.passed = at[a].passed /\ r.pc = "preparing"
    BY <1>1, <2>2 DEF Scaffolds, Goto, IsThread, Fields
  <2> QED BY <2>1, <2>2
<1>6. at'[a] = r /\ DOMAIN at' = Attempts /\ \A b \in Attempts \ {a} : at'[b] = at[b]
  BY <1>1, <1>5 DEF Becomes
<1>7. \/ project' = "created" /\ history' = <<>> /\ r.pc = "scaffold"
      \/ /\ project' = "ready" /\ history' = <<[by |-> "init", tree |-> "base"]>>
         /\ r.pc = "preparing"
  BY <1>3, <1>5 DEF CreatesProject, Scaffolds
<1>8. Threads'
  <2>1. Settled(a, r.pc)'
    BY <1>7 DEF Settled, Ready, Detached
  <2>2. Good(a)'
    BY <1>1, <1>2, <1>5, <1>6, <2>1, NotQueued DEF Good, Vouched, Vouching, Same
  <2>3. ASSUME NEW b \in Attempts \ {a} PROVE Good(b)'
    <3>1. Settled(b, at[b].pc) /\ project # "ready"
      BY <1>1, <1>3 DEF Good
    <3>2. Settled(b, at[b].pc)'
      BY <1>6, <3>1 DEF Settled, Ready
    <3> QED BY <1>1, <1>2, <1>6, <3>2 DEF Good
  <2> QED BY <1>1, <1>2, <1>6, <2>2, <2>3 DEF Threads
<1>9. Entries'
  <2>1. CASE history' = <<>>
    BY <2>1 DEF Entries
  <2>2. CASE history' = <<[by |-> "init", tree |-> "base"]>>
    <3>1. /\ [by |-> "init", tree |-> "base"] \in Commits /\ "init" \notin Attempts
      BY HarnessAssumption DEF Commits, Trees, HarnessAssumption
    <3> QED BY <2>2, <3>1 DEF Entries, Entered
  <2> QED BY <1>7, <2>1, <2>2
<1>10. Setup'
  BY <1>2, <1>3, <1>4, <1>6, <1>7 DEF Setup
<1> QED BY <1>8, <1>9, <1>10 DEF PublishInv

(* A death of the process ends every thread where it is. *)
LEMMA DeathKeeps ==
    ASSUME PublishInv, RunnerDies
    PROVE  PublishInv'
<1>1. /\ DOMAIN at = Attempts /\ DOMAIN cp = Attempts /\ DOMAIN checked = Attempts
      /\ \A b \in Attempts : Good(b)
  BY DEF PublishInv, Threads
<1>2. /\ DOMAIN at' = Attempts /\ UnchangedProject /\ UNCHANGED <<cp, checked>>
      /\ \A b \in Attempts :
            at'[b] = at[b] \/ (at'[b] = Over(b, "dead") /\ at[b].pc # "idle")
  BY DEF RunnerDies, Asleep
<1>3. ASSUME NEW b \in Attempts
      PROVE  /\ Good(b)' /\ at'[b].stray = at[b].stray
             /\ at[b].pc \in Closed => at'[b].pc \in Closed
             /\ at'[b].pc = "scaffold" => at[b].pc = "scaffold"
  <2>1. Good(b)
    BY <1>1
  <2>2. CASE at'[b] = at[b]
    BY <1>2, <2>1, <2>2 DEF Good, Settled, Ready, UnchangedProject
  <2>3. CASE at'[b] = Over(b, "dead") /\ at[b].pc # "idle"
    <3>1. /\ Fits(b, Over(b, "dead"))
          /\ Over(b, "dead").pc = "dead" /\ Over(b, "dead").stray = at[b].stray
      BY OverFits
    <3>2. cp[b] # "queued"
      BY <2>3, NotQueued
    <3>3. /\ IsThread(at'[b]) /\ Vouched(at'[b], checked[b]) /\ at'[b].pc = "dead"
          /\ at'[b].stray = at[b].stray
      BY <2>3, <3>1 DEF Fits
    <3>4. Good(b)'
      BY <1>2, <3>2, <3>3 DEF Good, Settled, Detached
    <3> QED BY <3>3, <3>4 DEF Closed
  <2> QED BY <1>2, <2>2, <2>3
<1>4. Threads'
  BY <1>1, <1>2, <1>3 DEF Threads
<1>5. Entries'
  BY <1>2, <1>3 DEF PublishInv, Entries, Entered, UnchangedProject
<1>6. Setup'
  BY <1>2, <1>3 DEF PublishInv, Setup, UnchangedProject
<1> QED BY <1>4, <1>5, <1>6 DEF PublishInv

(* The claim cycle itself starts threads only by Claims. *)
LEMMA CycleKeeps ==
    ASSUME PublishInv, Cycle \/ UNCHANGED vars
    PROVE  PublishInv'
<1>1. UnchangedProject /\ UNCHANGED <<at, cp, checked>>
  BY DEF Cycle, CycleStarts, Registers, ClaimsDone, ClaimFails, Joins, vars, UnchangedProject
<1> QED BY <1>1 DEF PublishInv, Threads, Entries, Setup, Good, Entered, Settled, Ready,
                    UnchangedProject

------------------------------------------------------------------------------
(* Every step of the runner, the control plane and the user keeps the      *)
(* invariant.                                                              *)
LEMMA StepKeeps ==
    ASSUME PublishInv, [Next]_vars
    PROVE  PublishInv'
<1>1. ASSUME NEW a \in Attempts, Starts(a) PROVE PublishInv'
  BY <1>1, StartsQuiet, SetupKeeps, QuietKeeps DEF Starts
<1>2. ASSUME NEW a \in Attempts, Loops(a) PROVE PublishInv'
  BY <1>2, TurnsQuiet, ToolsQuiet, ValidationQuiet, ValidatesQuiet, QuietKeeps DEF Loops
<1>3. ASSUME NEW a \in Attempts, Ends(a) PROVE PublishInv'
  BY <1>3, OffersQuiet, ReportsQuiet, MergeKeeps, QuietKeeps DEF Ends
<1>4. ASSUME NEW a \in Attempts, Claims(a) \/ Revoke(a) \/ StrayWrites(a) PROVE PublishInv'
  BY <1>4, ControlQuiet, ValidationQuiet, QuietKeeps
<1>5. ASSUME Cycle \/ RunnerDies \/ UserEdits \/ UserCommits \/ UNCHANGED vars
      PROVE  PublishInv'
  BY <1>5, CycleKeeps, DeathKeeps, UserKeeps
<1> QED BY <1>1, <1>2, <1>3, <1>4, <1>5 DEF Next, Thread

(* A project from an earlier task, or none yet. *)
LEMMA StartHolds == Init => PublishInv
<1> SUFFICES ASSUME Init PROVE PublishInv
  OBVIOUS
<1>1. /\ DOMAIN at = Attempts /\ DOMAIN cp = Attempts /\ DOMAIN checked = Attempts
      /\ \A a \in Attempts : at[a] = Fresh
  BY DEF Init
<1>2. IsThread(Fresh) /\ Fresh.pc = "idle" /\ Fresh.passed = FALSE
  BY DEF IsThread, Fresh, Fields, Trees
<1>3. Threads
  BY <1>1, <1>2 DEF Threads, Good, Vouched, Settled, Detached
<1>4. Entries
  <2>1. [by |-> "init", tree |-> "base"] \in Commits /\ "init" \notin Attempts
    BY HarnessAssumption DEF Commits, Trees, HarnessAssumption
  <2>2. CASE history = <<>>
    BY <2>2 DEF Entries
  <2>3. CASE history = <<[by |-> "init", tree |-> "base"]>>
    BY <2>1, <2>3 DEF Entries, Entered
  <2> QED BY <2>2, <2>3 DEF Init
<1>5. Setup
  <2>1. \A a \in Attempts : at[a].pc # "scaffold"
    BY <1>1, <1>2
  <2> QED BY <2>1 DEF Setup, Init
<1> QED BY <1>3, <1>4, <1>5 DEF PublishInv

(* The invariant holds throughout execute_claim, for any attempts side by  *)
(* side: the flag last_validation_passed is that of the tree wherever the  *)
(* executor acts on it, a committed attempt is past its loop, and a        *)
(* project is scaffolded once.                                             *)
THEOREM PublishInvariant == Spec => []PublishInv
BY StartHolds, StepKeeps, PTL DEF Spec

(* publish_validated_changes puts nothing on the user's branch that the    *)
(* attempt's last passing validation did not leave behind, whatever other  *)
(* attempts, the user, a revoked lease, lost answers and deaths of the     *)
(* runner do meanwhile (an attempt whose validation left a writing process *)
(* behind excepted).                                                       *)
THEOREM OnlyValidatedPublished == Spec => []PublishedWasValidated
<1>1. PublishInv => PublishedWasValidated
  BY DEF PublishInv, Entries, Entered, PublishedWasValidated
<1> QED BY <1>1, PublishInvariant, PTL

(* What a step does to the branch: nothing, one more commit, or the first  *)
(* commit of a project that has none (initialize_local_repository).        *)
LEMMA HistorySteps ==
    ASSUME PublishInv, [Next]_vars
    PROVE  \/ history' = history
           \/ \E c : history' = Append(history, c)
           \/ history = <<>> /\ \E c : history' = <<c>>
<1>1. ASSUME NEW a \in Attempts, Scaffolds(a) PROVE history = <<>> /\ \E c : history' = <<c>>
  BY <1>1 DEF PublishInv, Setup, Scaffolds
<1>2. ASSUME NEW a \in Attempts, Starts(a), ~Scaffolds(a) PROVE history' = history
  BY <1>2 DEF Starts, CancelledEarly, Resolves, CreatesProject, ResolveFails, ToPreparing,
              ToRunning, Prepares, UnchangedProject
<1>3. ASSUME NEW a \in Attempts, Loops(a) PROVE history' = history
  BY <1>3 DEF Loops, ModelTurn, OutOfBudget, Finishes, ToolRefused, Reads, Patches,
              Replays, ToolFails, ValidationDenied, ValidationStarts, ValidationEnds,
              ValidationLost, Validates, UnchangedProject
<1>4. ASSUME NEW a \in Attempts, PublishMerges(a) PROVE \E c : history' = Append(history, c)
  BY <1>4 DEF PublishMerges
<1>5. ASSUME NEW a \in Attempts, Ends(a), ~PublishMerges(a) PROVE history' = history
  BY <1>5 DEF Ends, EvidenceFails, ValidationRequired, EvidenceRead, PublishChecks,
              NothingToPublish, PublishFails, CleansUp, ToValidating, PostsArtifact,
              ToFinal, ToFailed, UnchangedProject
<1>6. ASSUME NEW a \in Attempts, Claims(a) \/ Revoke(a) \/ StrayWrites(a)
      PROVE  history' = history
  BY <1>6 DEF Claims, Revoke, StrayWrites, UnchangedProject
<1>7. ASSUME Cycle \/ RunnerDies \/ UserEdits \/ UNCHANGED vars PROVE history' = history
  BY <1>7 DEF Cycle, CycleStarts, Registers, ClaimsDone, ClaimFails, Joins, RunnerDies,
              UserEdits, vars, UnchangedProject
<1>8. ASSUME UserCommits PROVE \E c : history' = Append(history, c)
  BY <1>8 DEF UserCommits
<1> QED BY <1>1, <1>2, <1>3, <1>4, <1>5, <1>6, <1>7, <1>8 DEF Next, Thread

(* The branch of the project only grows: merge --ff-only extends it, and   *)
(* initialize_local_repository starts one where there is none.             *)
THEOREM BranchOnlyGrows == Spec => HistoryKept
<1>1. ASSUME PublishInv, [Next]_vars PROVE IsPrefix(history, history')
  <2>0. history \in Seq(Commits)
    BY <1>1 DEF PublishInv, Entries
  <2>1. CASE history' = history
    BY <2>0, <2>1 DEF IsPrefix
  <2>2. ASSUME NEW c, history' = Append(history, c)
        PROVE  IsPrefix(history, history')
    <3>1. Len(history) \in Nat /\ Len(history') = Len(history) + 1
      BY <2>0, <2>2
    <3>2. SubSeq(history', 1, Len(history)) = SubSeq(history, 1, Len(history))
      BY <2>0, <2>2, <3>1
    <3> QED BY <3>1, <3>2 DEF IsPrefix
  <2>3. ASSUME history = <<>>, NEW c, history' = <<c>>
        PROVE  IsPrefix(history, history')
    BY <2>3 DEF IsPrefix
  <2> QED BY <1>1, <2>1, <2>2, <2>3, HistorySteps
<1> QED BY <1>1, PublishInvariant, PTL DEF Spec, HistoryKept

------------------------------------------------------------------------------
(* Success.  Between the merge and the last report the commit is there,    *)
(* and success is reported only from there.                                *)

Reporting == {"cleanup", "validating", "artifact", "final"}

Delivered(a) ==
    a \in Local /\ at[a].tree # "base" /\ at[a].status = "completed" => Published(a)

Reported(a) ==
    /\ at[a].pc \in Reporting => Delivered(a)
    /\ cp[a] = "succeeded" =>
          at[a].pc \in {"ended", "dead"} /\ at[a].status = "completed" /\ Delivered(a)

SuccessInv == PublishInv /\ \A a \in Attempts : Reported(a)

(* What is published stays published. *)
LEMMA PublishedStays ==
    ASSUME PublishInv, [Next]_vars, NEW a, Published(a)
    PROVE  Published(a)'
<1>1. history \in Seq(Commits)
  BY DEF PublishInv, Entries
<1>2. PICK i \in DOMAIN history : history[i].by = a
  BY DEF Published
<1>3. i \in DOMAIN history' /\ history'[i] = history[i]
  BY <1>1, <1>2, HistorySteps
<1> QED BY <1>2, <1>3 DEF Published

(* A step of a's thread: it is enough to look at a. *)
LEMMA OthersReported ==
    ASSUME SuccessInv, [Next]_vars, NEW a \in Attempts, Reported(a)',
           \A b \in Attempts \ {a} : at'[b] = at[b] /\ cp'[b] = cp[b]
    PROVE  SuccessInv'
<1>1. PublishInv'
  BY StepKeeps DEF SuccessInv
<1>2. ASSUME NEW b \in Attempts \ {a} PROVE Reported(b)'
  <2>1. Reported(b) /\ at'[b] = at[b] /\ cp'[b] = cp[b]
    BY DEF SuccessInv
  <2>2. Delivered(b) => Delivered(b)'
    BY <2>1, PublishedStays DEF Delivered, SuccessInv
  <2> QED BY <2>1, <2>2 DEF Reported
<1> QED BY <1>1, <1>2 DEF SuccessInv

(* Where nothing is delivered and nothing reported as success. *)
LEMMA BecomesSilent ==
    ASSUME SuccessInv, NEW a \in Attempts, NEW r, at[a].pc \notin {"ended", "dead"},
           Becomes(a, r), r.pc \notin Reporting, UNCHANGED cp
    PROVE  Reported(a)'
<1>1. at'[a] = r /\ cp[a] # "succeeded"
  BY DEF SuccessInv, PublishInv, Threads, Becomes, Reported
<1> QED BY <1>1 DEF Reported

(* The same with a request to the control plane. *)
LEMMA PostSilent ==
    ASSUME SuccessInv, NEW a \in Attempts, NEW state, NEW ok, NEW err,
           at[a].pc \notin {"ended", "dead"}, state # "succeeded", Post(a, state, ok, err),
           IsThread(err), err.pc \notin Reporting, ok.pc \notin Reporting
    PROVE  Reported(a)'
<1>1. DOMAIN at = Attempts /\ DOMAIN cp = Attempts /\ cp[a] # "succeeded"
  BY DEF SuccessInv, PublishInv, Threads, Reported
<1>2. [err EXCEPT !.synced = err.pc \in Asleep].pc = err.pc
  BY DEF IsThread, Fields
<1>3. cp'[a] # "succeeded"
  BY <1>1 DEF Post
<1>4. at'[a].pc \notin Reporting
  BY <1>1, <1>2 DEF Post, Becomes
<1> QED BY <1>3, <1>4 DEF Reported

(* Recording a tool call delivers and reports nothing. *)
LEMMA RecordSilent ==
    ASSUME SuccessInv, NEW a \in Attempts, NEW r, IsThread(r), NEW progress, NEW failedCheck,
           at[a].pc \notin {"ended", "dead"},
           Record(a, r, progress, failedCheck)
    PROVE  Reported(a)'
<1>1. r.passed => Same(r, r.tree)
  BY DEF Same
<1>2. AfterTool(r, progress, failedCheck).pc \notin Reporting
  <2>1. AfterTool(r, progress, failedCheck).pc \in {"loop", "evidence"}
    BY <1>1, AfterToolIs
  <2> QED BY <2>1 DEF Reporting
<1>3. IsThread(Stop(r, "failed")) /\ Stop(r, "failed").pc \notin Reporting
  BY StopIs DEF Reporting
<1>4. cp[a] # "succeeded"
  BY DEF SuccessInv, Reported
<1> QED BY <1>2, <1>3, <1>4, PostSilent DEF Record

(* Up to the loop. *)
LEMMA StartsSilent ==
    ASSUME SuccessInv, NEW a \in Attempts, Starts(a)
    PROVE  Reported(a)'
<1>1. IsThread(at[a])
  BY DEF SuccessInv, PublishInv, Threads, Good
<1>2. \A pc : Goto(a, pc).pc = pc /\ IsThread(Goto(a, pc))
  BY <1>1 DEF Goto, IsThread, Fields
<1>3. IsThread(Over(a, "ended")) /\ Over(a, "ended").pc = "ended"
  BY <1>1 DEF IsThread, Over, Fresh, Fields
<1>4. at[a].pc \notin {"ended", "dead"}
  BY DEF Starts, CancelledEarly, Resolves, CreatesProject, Scaffolds, ResolveFails,
         ToPreparing, ToRunning, Prepares
<1>5. ASSUME CancelledEarly(a) \/ ToPreparing(a) \/ ToRunning(a) PROVE Reported(a)'
  <2>1. PICK state, ok :
          /\ state \in {"revoked", "preparing", "running"}
          /\ ok \in {Over(a, "ended"), Goto(a, "running"), Goto(a, "workspace")}
          /\ Post(a, state, ok, Over(a, "ended"))
    BY <1>5 DEF CancelledEarly, ToPreparing, ToRunning
  <2>2. ok.pc \notin Reporting /\ Over(a, "ended").pc \notin Reporting
    BY <1>2, <1>3, <2>1 DEF Reporting
  <2> QED BY <1>3, <1>4, <2>1, <2>2, PostSilent
<1>6. ASSUME CreatesProject(a) \/ ResolveFails(a) \/ Prepares(a) PROVE Reported(a)'
  <2>1. PICK r \in {Goto(a, "scaffold"), Over(a, "ended"), Goto(a, "loop"), Goto(a, "fault")} :
          Becomes(a, r) /\ UNCHANGED cp
    BY <1>6 DEF CreatesProject, ResolveFails, Prepares
  <2>2. r.pc \notin Reporting
    BY <1>2, <1>3, <2>1 DEF Reporting
  <2> QED BY <1>4, <2>1, <2>2, BecomesSilent
<1>7. ASSUME Resolves(a) \/ Scaffolds(a) PROVE Reported(a)'
  <2>1. PICK n : Becomes(a, [Goto(a, "preparing") EXCEPT !.base = n]) /\ UNCHANGED cp
    BY <1>7 DEF Resolves, Scaffolds
  <2>2. PICK g : g = Goto(a, "preparing")
    OBVIOUS
  <2>3. [g EXCEPT !.base = n].pc = "preparing"
    BY <1>2, <2>2 DEF IsThread, Fields
  <2>4. [g EXCEPT !.base = n].pc \notin Reporting
    BY <2>3 DEF Reporting
  <2> QED BY <1>4, <2>1, <2>2, <2>4, BecomesSilent
<1> QED BY <1>5, <1>6, <1>7 DEF Starts

(* The loop. *)
LEMMA LoopsSilent ==
    ASSUME SuccessInv, NEW a \in Attempts, Loops(a) \/ StrayWrites(a)
    PROVE  Reported(a)'
<1>1. IsThread(at[a])
  BY DEF SuccessInv, PublishInv, Threads, Good
<1>2. at[a].pc \notin {"ended", "dead"}
  BY DEF Loops, ModelTurn, OutOfBudget, Finishes, ToolRefused, Reads, Patches, Replays,
         ToolFails, ValidationDenied, ValidationStarts, ValidationEnds, ValidationLost,
         Validates, StrayWrites, MayUseTool
<1>3. ASSUME NEW r, IsThread(r), NEW status, Becomes(a, Stop(r, status)), UNCHANGED cp
      PROVE  Reported(a)'
  <2>1. Stop(r, status).pc \notin Reporting
    BY <1>3, StopIs DEF Reporting
  <2> QED BY <1>2, <1>3, <2>1, BecomesSilent
<1>4. IsThread(Used(a)) /\ Used(a).pc = at[a].pc
  BY <1>1 DEF IsThread, Fields, Used
<1>5. ASSUME ModelTurn(a) PROVE Reported(a)'
  <2>1. PICK r : r = [at[a] EXCEPT !.turns = @ + 1]
    OBVIOUS
  <2>2. IsThread(r)
    BY <1>1, <2>1 DEF IsThread, Fields
  <2>3. /\ [r EXCEPT !.pc = "act"].pc = "act" /\ Stop(r, "failed").pc = "evidence"
        /\ IsThread(Stop(r, "failed"))
    BY <2>2, StopIs DEF IsThread, Fields
  <2>4. Post(a, cp[a], [r EXCEPT !.pc = "act"], Stop(r, "failed"))
    BY <1>5, <2>1 DEF ModelTurn
  <2>5. cp[a] # "succeeded"
    BY <1>2 DEF SuccessInv, Reported
  <2>6. [r EXCEPT !.pc = "act"].pc \notin Reporting /\ Stop(r, "failed").pc \notin Reporting
    BY <2>3 DEF Reporting
  <2> QED BY <1>2, <2>3, <2>4, <2>5, <2>6, PostSilent
<1>6. ASSUME OutOfBudget(a) \/ Finishes(a) \/ ToolRefused(a) PROVE Reported(a)'
  BY <1>1, <1>3, <1>6 DEF OutOfBudget, Finishes, ToolRefused
<1>7. ASSUME Reads(a) PROVE Reported(a)'
  BY <1>2, <1>4, <1>7, RecordSilent DEF Reads
<1>8. ASSUME Patches(a) PROVE Reported(a)'
  <2>1. PICK k \in Keys, c \in Contents :
           Record(a, [Used(a) EXCEPT !.passed = FALSE, !.tree = c,
                                     !.applied[k] = <<at[a].tree, c>>],
                  <<"patch", at[a].tree, c, FALSE>>, FALSE)
    BY <1>8 DEF Patches
  <2> DEFINE r == [Used(a) EXCEPT !.passed = FALSE, !.tree = c,
                                  !.applied[k] = <<at[a].tree, c>>]
  <2>2. IsThread(r)
    BY <1>4 DEF IsThread, Fields, Trees
  <2> HIDE DEF r
  <2> QED BY <1>2, <2>1, <2>2, RecordSilent DEF r
<1>9. ASSUME Replays(a) PROVE Reported(a)'
  <2> DEFINE r == [Used(a) EXCEPT !.passed = FALSE]
  <2>1. IsThread(r)
    BY <1>4 DEF IsThread, Fields
  <2>2. PICK k \in Keys :
           Record(a, r, <<"patch", at[a].applied[k][1], at[a].applied[k][2], TRUE>>, FALSE)
    BY <1>9 DEF Replays
  <2> HIDE DEF r
  <2> QED BY <1>2, <2>1, <2>2, RecordSilent
<1>10. ASSUME ToolFails(a) \/ ValidationDenied(a) PROVE Reported(a)'
  <2>1. PICK tree \in Trees, passed \in BOOLEAN : Fails(a, tree, passed) /\ UNCHANGED cp
    BY <1>1, <1>10 DEF ToolFails, ValidationDenied, IsThread
  <2> DEFINE r == [Used(a) EXCEPT !.tree = tree, !.passed = passed]
  <2>2. IsThread(r)
    BY <1>4 DEF IsThread, Fields
  <2>3. Becomes(a, Stop(r, "failed"))
    BY <2>1 DEF Fails
  <2> HIDE DEF r
  <2> QED BY <1>3, <2>1, <2>2, <2>3
<1>11. ASSUME ValidationStarts(a) \/ ValidationEnds(a) \/ StrayWrites(a) PROVE Reported(a)'
  <2>1. PICK r : Becomes(a, r) /\ r.pc \notin Reporting /\ UNCHANGED cp
    <3>1. ASSUME ValidationStarts(a)
          PROVE  \E r : Becomes(a, r) /\ r.pc \notin Reporting /\ UNCHANGED cp
      <4>1. [Used(a) EXCEPT !.pc = "check"].pc \notin Reporting
        BY <1>4 DEF IsThread, Fields, Reporting
      <4> QED BY <3>1, <4>1 DEF ValidationStarts
    <3>2. ASSUME ValidationEnds(a)
          PROVE  \E r : Becomes(a, r) /\ r.pc \notin Reporting /\ UNCHANGED cp
      <4>1. PICK left, clean, stray :
              /\ Becomes(a, [Goto(a, "reap") EXCEPT !.tree = left, !.clean = clean,
                                                    !.stray = stray])
              /\ UNCHANGED cp
        BY <3>2 DEF ValidationEnds
      <4>2. DOMAIN Goto(a, "reap") = Fields /\ Goto(a, "reap").pc = "reap"
        BY <1>1 DEF IsThread, Fields, Goto
      <4>3. [Goto(a, "reap") EXCEPT !.tree = left, !.clean = clean,
                                    !.stray = stray].pc \notin Reporting
        BY <4>2 DEF Fields, Reporting
      <4> QED BY <4>1, <4>3
    <3>3. ASSUME StrayWrites(a)
          PROVE  \E r : Becomes(a, r) /\ r.pc \notin Reporting /\ UNCHANGED cp
      <4>1. PICK left : Becomes(a, [at[a] EXCEPT !.tree = left]) /\ UNCHANGED cp
        BY <3>3 DEF StrayWrites
      <4>2. [at[a] EXCEPT !.tree = left].pc \notin Reporting
        BY <1>1, <3>3 DEF IsThread, Fields, Reporting, StrayWrites
      <4> QED BY <4>1, <4>2
    <3> QED BY <1>11, <3>1, <3>2, <3>3
  <2> QED BY <1>2, <2>1, BecomesSilent
<1>12. ASSUME ValidationLost(a) PROVE Reported(a)'
  <2>1. PICK left \in Trees :
           /\ Becomes(a, Stop([at[a] EXCEPT !.tree = IF at[a].pc = "check" THEN left ELSE @],
                              "failed"))
           /\ UNCHANGED cp
    BY <1>12 DEF ValidationLost
  <2> DEFINE r == [at[a] EXCEPT !.tree = IF at[a].pc = "check" THEN left ELSE @]
  <2>2. IsThread(r)
    BY <1>1 DEF IsThread, Fields
  <2>3. Becomes(a, Stop(r, "failed"))
    BY <2>1
  <2> HIDE DEF r
  <2> QED BY <1>3, <2>1, <2>2, <2>3
<1>13. ASSUME Validates(a) PROVE Reported(a)'
  <2>1. PICK ok \in {FALSE, at[a].clean}, tick \in BOOLEAN :
          LET r == [at[a] EXCEPT !.passed = ok, !.clean = FALSE]
          IN \/ Record(a, r, <<"validation", at[a].tree, ok, tick>>, ~ok)
             \/ Becomes(a, Stop(r, "failed")) /\ UNCHANGED cp
    BY <1>13 DEF Validates
  <2> DEFINE r == [at[a] EXCEPT !.passed = ok, !.clean = FALSE]
  <2>2. IsThread(r)
    BY <1>1 DEF IsThread, Fields
  <2>3. \/ Record(a, r, <<"validation", at[a].tree, ok, tick>>, ~ok)
        \/ Becomes(a, Stop(r, "failed")) /\ UNCHANGED cp
    BY <2>1
  <2> HIDE DEF r
  <2> QED BY <1>2, <1>3, <2>2, <2>3, RecordSilent
<1> QED BY <1>5, <1>6, <1>7, <1>8, <1>9, <1>10, <1>11, <1>12, <1>13 DEF Loops

(* After the loop: the only ways past the publication are a commit, an     *)
(* unchanged tree, a repository that is not local and a loop that did not  *)
(* complete; the reports that follow change none of these.                 *)
LEMMA EndsReported ==
    ASSUME SuccessInv, [Next]_vars, NEW a \in Attempts, Ends(a)
    PROVE  Reported(a)'
<1>1. /\ IsThread(at[a]) /\ DOMAIN at = Attempts /\ DOMAIN cp = Attempts
      /\ history \in Seq(Commits) /\ Reported(a)
  BY DEF SuccessInv, PublishInv, Threads, Good, Entries
<1>2. /\ at[a].pc \notin {"ended", "dead"} /\ cp[a] # "succeeded"
  <2>1. at[a].pc \notin {"ended", "dead"}
    BY DEF Ends, EvidenceFails, ValidationRequired, EvidenceRead, PublishChecks,
           NothingToPublish, PublishMerges, PublishFails, CleansUp, ToValidating,
           PostsArtifact, ToFinal, ToFailed
  <2> QED BY <1>1, <2>1 DEF Reported
<1>3. ASSUME NEW pc
      PROVE  /\ IsThread(Goto(a, pc)) /\ Goto(a, pc).pc = pc
             /\ Goto(a, pc).tree = at[a].tree /\ Goto(a, pc).status = at[a].status
  BY <1>1 DEF Goto, IsThread, Fields
<1>4. /\ IsThread(Over(a, "ended")) /\ Over(a, "ended").pc = "ended"
      /\ Over(a, "ended").tree = at[a].tree /\ Over(a, "ended").status = at[a].status
  BY <1>1 DEF IsThread, Over, Fresh, Fields
<1>5. ASSUME Delivered(a), at'[a].tree = at[a].tree, at'[a].status = at[a].status
      PROVE  Delivered(a)'
  BY <1>5, PublishedStays DEF Delivered, SuccessInv
<1>6. ASSUME NEW pc, Becomes(a, Goto(a, pc)), UNCHANGED cp, Delivered(a)
      PROVE  Reported(a)'
  <2>1. at'[a] = Goto(a, pc)
    BY <1>1, <1>6 DEF Becomes
  <2> QED BY <1>2, <1>3, <1>5, <1>6, <2>1 DEF Reported
<1>7. ASSUME NEW pc, Becomes(a, Goto(a, pc)), UNCHANGED cp, pc \notin Reporting
      PROVE  Reported(a)'
  BY <1>2, <1>3, <1>7, BecomesSilent
<1>8. ASSUME \/ EvidenceFails(a) \/ ValidationRequired(a) \/ PublishChecks(a) \/ PublishFails(a)
      PROVE  Reported(a)'
  <2>1. Becomes(a, Goto(a, "fault")) \/ Becomes(a, Goto(a, "merge"))
    BY <1>8 DEF EvidenceFails, ValidationRequired, PublishChecks, PublishFails
  <2>2. UNCHANGED cp
    BY <1>8 DEF EvidenceFails, ValidationRequired, PublishChecks, PublishFails
  <2> QED BY <1>7, <2>1, <2>2 DEF Reporting
<1>9. ASSUME EvidenceRead(a) PROVE Reported(a)'
  <2>1. CASE a \in Local /\ Changed(a) /\ at[a].status = "completed"
    <3>1. Becomes(a, Goto(a, "publish")) /\ UNCHANGED cp
      BY <1>9, <2>1 DEF EvidenceRead
    <3> QED BY <1>7, <3>1 DEF Reporting
  <2>2. CASE ~(a \in Local /\ Changed(a) /\ at[a].status = "completed")
    <3>1. Becomes(a, Goto(a, "cleanup")) /\ UNCHANGED cp
      BY <1>9, <2>2 DEF EvidenceRead
    <3>2. Delivered(a)
      BY <2>2 DEF Delivered, Changed
    <3> QED BY <1>6, <3>1, <3>2
  <2> QED BY <2>1, <2>2
<1>10. ASSUME NothingToPublish(a) PROVE Reported(a)'
  <2>1. Becomes(a, Goto(a, "cleanup")) /\ UNCHANGED cp /\ Delivered(a)
    BY <1>10 DEF NothingToPublish, Delivered, Changed
  <2> QED BY <1>6, <2>1
<1>11. ASSUME PublishMerges(a) PROVE Reported(a)'
  <2>1. history' = Append(history, [by |-> a, tree |-> at[a].tree]) /\ UNCHANGED cp
    BY <1>11 DEF PublishMerges
  <2>2. /\ Len(history) + 1 \in DOMAIN history'
        /\ history'[Len(history) + 1] = [by |-> a, tree |-> at[a].tree]
    BY <1>1, <2>1
  <2>3. Published(a)'
    BY <2>2 DEF Published
  <2> QED BY <1>2, <2>1, <2>3 DEF Reported, Delivered
<1>12. ASSUME CleansUp(a) PROVE Reported(a)'
  <2>1. Becomes(a, Goto(a, "validating")) /\ UNCHANGED cp /\ Delivered(a)
    BY <1>1, <1>12 DEF CleansUp, Reported, Reporting
  <2> QED BY <1>6, <2>1
<1>13. ASSUME NEW state, NEW pc \in {"artifact", "final", "ended"}, NEW ok,
              pc = "ended" => ok = Over(a, "ended"),
              pc # "ended" => ok = Goto(a, pc),
              Post(a, state, ok, Over(a, "ended"))
       PROVE  /\ at'[a].tree = at[a].tree /\ at'[a].status = at[a].status
              /\ cp'[a] = "succeeded" => at'[a].pc \in {pc, "ended"} /\ state = "succeeded"
  <2> DEFINE e == Over(a, "ended")
             f == [e EXCEPT !.synced = e.pc \in Asleep]
  <2>1. f.tree = at[a].tree /\ f.status = at[a].status /\ f.pc = "ended"
    <3> HIDE DEF e
    <3>1. DOMAIN e = Fields /\ e.tree = at[a].tree /\ e.status = at[a].status /\ e.pc = "ended"
      BY <1>4 DEF IsThread, e
    <3> QED BY <3>1 DEF Fields
  <2>2. ok.tree = at[a].tree /\ ok.status = at[a].status /\ ok.pc = pc
    BY <1>3, <1>4, <1>13
  <2>3. cp'[a] = cp[a] \/ cp'[a] = state
    BY <1>1, <1>13 DEF Post
  <2>4. at'[a] \in {ok, e, f}
    <3> HIDE DEF f
    <3>1. \E m \in {ok, e, f} : Becomes(a, m)
      BY <1>13 DEF Post, f
    <3> QED BY <1>1, <3>1 DEF Becomes
  <2> HIDE DEF e, f
  <2> QED BY <1>2, <1>4, <2>1, <2>2, <2>3, <2>4 DEF e
<1>14. ASSUME ToValidating(a) PROVE Reported(a)'
  <2>1. Delivered(a)
    BY <1>1, <1>14 DEF ToValidating, Reported, Reporting
  <2>2. PICK pc \in {"artifact", "final"} : Post(a, "validating", Goto(a, pc), Over(a, "ended"))
    BY <1>14 DEF ToValidating
  <2>3. at'[a].tree = at[a].tree /\ at'[a].status = at[a].status /\ cp'[a] # "succeeded"
    BY <1>13, <2>2
  <2> QED BY <1>5, <2>1, <2>3 DEF Reported
<1>15. ASSUME PostsArtifact(a) PROVE Reported(a)'
  <2>1. Delivered(a)
    BY <1>1, <1>15 DEF PostsArtifact, Reported, Reporting
  <2>2. Post(a, cp[a], Goto(a, "final"), Over(a, "ended"))
    BY <1>15 DEF PostsArtifact
  <2>3. at'[a].tree = at[a].tree /\ at'[a].status = at[a].status /\ cp'[a] # "succeeded"
    BY <1>2, <1>13, <2>2
  <2> QED BY <1>5, <2>1, <2>3 DEF Reported
<1>16. ASSUME ToFinal(a) PROVE Reported(a)'
  <2>1. Delivered(a)
    BY <1>1, <1>16 DEF ToFinal, Reported, Reporting
  <2>2. PICK state : /\ Post(a, state, Over(a, "ended"), Over(a, "ended"))
                     /\ state = "succeeded" => at[a].status = "completed"
    BY <1>16 DEF ToFinal
  <2>3. /\ at'[a].tree = at[a].tree /\ at'[a].status = at[a].status
        /\ cp'[a] = "succeeded" => at'[a].pc = "ended" /\ state = "succeeded"
    BY <1>13, <2>2
  <2> QED BY <1>5, <2>1, <2>2, <2>3 DEF Reported
<1>17. ASSUME ToFailed(a) PROVE Reported(a)'
  <2>1. Post(a, "failed", Over(a, "ended"), Over(a, "ended"))
    BY <1>17 DEF ToFailed
  <2>2. Over(a, "ended").pc \notin Reporting
    BY <1>4 DEF Reporting
  <2> QED BY <1>2, <1>4, <2>1, <2>2, PostSilent
<1> QED BY <1>8, <1>9, <1>10, <1>11, <1>12, <1>14, <1>15, <1>16, <1>17 DEF Ends

(* A step of one attempt leaves the others' threads and states alone. *)
LEMMA OthersKept ==
    ASSUME PublishInv, NEW a \in Attempts,
           Thread(a) \/ StrayWrites(a) \/ Claims(a) \/ Revoke(a)
    PROVE  \A b \in Attempts \ {a} : at'[b] = at[b] /\ cp'[b] = cp[b]
<1>1. ASSUME Quiet(a) PROVE \A b \in Attempts \ {a} : at'[b] = at[b] /\ cp'[b] = cp[b]
  BY <1>1 DEF Quiet
<1>2. ASSUME CreatesProject(a) \/ Scaffolds(a) \/ PublishMerges(a)
      PROVE  \A b \in Attempts \ {a} : at'[b] = at[b] /\ cp'[b] = cp[b]
  <2>1. PICK r : Becomes(a, r) /\ UNCHANGED cp
    BY <1>2 DEF CreatesProject, Scaffolds, PublishMerges
  <2> QED BY <2>1 DEF Becomes, PublishInv, Threads
<1>3. ASSUME Starts(a) PROVE Quiet(a) \/ CreatesProject(a) \/ Scaffolds(a)
  BY <1>3, StartsQuiet DEF Starts
<1>4. ASSUME Loops(a) PROVE Quiet(a)
  BY <1>4, TurnsQuiet, ToolsQuiet, ValidationQuiet, ValidatesQuiet DEF Loops
<1>5. ASSUME Ends(a) PROVE Quiet(a) \/ PublishMerges(a)
  BY <1>5, OffersQuiet, ReportsQuiet DEF Ends
<1>6. ASSUME StrayWrites(a) \/ Claims(a) \/ Revoke(a) PROVE Quiet(a)
  BY <1>6, ValidationQuiet, ControlQuiet
<1> QED BY <1>1, <1>2, <1>3, <1>4, <1>5, <1>6 DEF Thread

(* Every step keeps what was reported true. *)
LEMMA StepReports ==
    ASSUME SuccessInv, [Next]_vars
    PROVE  SuccessInv'
<1>0. PublishInv
  BY DEF SuccessInv
<1>1. ASSUME NEW a \in Attempts, Thread(a) \/ StrayWrites(a) PROVE SuccessInv'
  <2>1. Reported(a)'
    BY <1>1, StartsSilent, LoopsSilent, EndsReported DEF Thread
  <2> QED BY <1>0, <1>1, <2>1, OthersKept, OthersReported
<1>2. ASSUME NEW a \in Attempts, Claims(a) PROVE SuccessInv'
  <2>1. IsThread(at[a]) /\ DOMAIN cp = Attempts /\ DOMAIN at = Attempts
    BY <1>0 DEF PublishInv, Threads, Good
  <2>2. at'[a].pc = "resolve" /\ cp'[a] = "claimed"
    BY <1>2, <2>1 DEF Claims, Becomes, Goto, IsThread, Fields
  <2>3. Reported(a)'
    BY <2>2 DEF Reported, Reporting
  <2> QED BY <1>0, <1>2, <2>3, OthersKept, OthersReported
<1>3. ASSUME NEW a \in Attempts, Revoke(a) PROVE SuccessInv'
  <2>1. Reported(a) /\ DOMAIN cp = Attempts
    BY <1>0 DEF SuccessInv, PublishInv, Threads
  <2>2. at' = at /\ history' = history /\ cp'[a] = "revoked"
    BY <1>3, <2>1 DEF Revoke, UnchangedProject
  <2>3. Reported(a)'
    BY <2>1, <2>2 DEF Reported, Delivered, Published
  <2> QED BY <1>0, <1>3, <2>3, OthersKept, OthersReported
<1>4. ASSUME RunnerDies PROVE SuccessInv'
  <2>1. ASSUME NEW b \in Attempts PROVE Reported(b)'
    <3>1. /\ Reported(b) /\ IsThread(at[b]) /\ cp' = cp /\ history' = history
      BY <1>0, <1>4 DEF SuccessInv, PublishInv, Threads, Good, RunnerDies, UnchangedProject
    <3>2. CASE at[b].pc \in Asleep
      <4>1. at'[b] = at[b]
        BY <1>4, <3>2 DEF RunnerDies
      <4> QED BY <3>1, <4>1 DEF Reported, Delivered, Published
    <3>3. CASE at[b].pc \notin Asleep
      <4>1. at'[b] = Over(b, "dead")
        BY <1>4, <3>3 DEF RunnerDies
      <4>2. at'[b].pc = "dead"
        BY <3>1, <4>1 DEF Over, Fresh
      <4>3. cp[b] # "succeeded"
        BY <3>1, <3>3 DEF Reported, Asleep
      <4> QED BY <3>1, <4>2, <4>3 DEF Reported, Reporting
    <3> QED BY <3>2, <3>3
  <2>2. PublishInv'
    BY <1>0, StepKeeps
  <2> QED BY <2>1, <2>2 DEF SuccessInv
<1>5. ASSUME Cycle \/ UserEdits \/ UserCommits \/ UNCHANGED vars PROVE SuccessInv'
  <2>1. UNCHANGED <<at, cp>>
    BY <1>5 DEF Cycle, CycleStarts, Registers, ClaimsDone, ClaimFails, Joins,
                UserEdits, UserCommits, vars
  <2>2. ASSUME NEW b \in Attempts PROVE Reported(b)'
    <3>1. Delivered(b) => Delivered(b)'
      BY <1>0, <2>1, PublishedStays DEF Delivered
    <3> QED BY <2>1, <3>1 DEF SuccessInv, Reported
  <2>3. PublishInv'
    BY <1>0, StepKeeps
  <2> QED BY <2>2, <2>3 DEF SuccessInv
<1> QED BY <1>1, <1>2, <1>3, <1>4, <1>5 DEF Next

(* execute_claim reports succeeded only for a loop that completed, and     *)
(* what such an attempt changed in a local project is on its branch, also  *)
(* when answers are lost, the lease is revoked or the runner dies between  *)
(* the merge and the report.                                               *)
THEOREM SuccessMeansPublished == Spec => []SucceededIsPublished
<1>1. Init => SuccessInv
  <2>1. ASSUME Init, NEW a \in Attempts PROVE Reported(a)
    <3>1. at[a].pc = "idle" /\ cp[a] = "queued"
      BY <2>1 DEF Init, Fresh
    <3> QED BY <3>1 DEF Reported, Reporting
  <2> QED BY <2>1, StartHolds DEF SuccessInv
<1>2. SuccessInv => SucceededIsPublished
  BY DEF SuccessInv, Reported, Delivered, SucceededIsPublished, Changed
<1> QED BY <1>1, <1>2, StepReports, PTL DEF Spec
=============================================================================
