------------------------ MODULE ChatConnector_proofs ------------------------
(***************************************************************************)
(* What the chat connector promises about every task, for any number of    *)
(* tasks, requests, retries and ends of the process: a completion the      *)
(* service acknowledged stands, what is reported as completed was checked  *)
(* and is in a commit, the report is the last thing sent, and the marker   *)
(* of a project follows its first commit.                                  *)
(*                                                                         *)
(* The invariant says of each place in run_task what holds there.  Most of *)
(* it is about one task; two tasks meet in the project's index, and there  *)
(* the poll loop helps: only one task other than a project request runs at *)
(* a time, and project requests take nothing out of the index that they do *)
(* not commit.                                                             *)
(*                                                                         *)
(* The coordinated coding which run_task starts for a large project task   *)
(* (ProjectSwarm) comes last: what it publishes was verified, a failed run *)
(* leaves the project alone, nothing of the user's is lost, and its waves  *)
(* carry out the plan: every task once, in order, within its own paths.    *)
(***************************************************************************)
EXTENDS ChatConnector, ProjectSwarm, FiniteSetTheorems, WellFoundedInduction, TLAPS

Places == {"none", "begin", "inspect", "ignore", "init", "baseline", "mark", "created", "indexed",
           "committing", "answer", "announce", "chat", "rechat", "swarm", "checkpoint",
           "swarming", "hermes", "monitor", "reading", "answered", "delay", "accept", "add",
           "diff", "commit", "drain", "flush", "report", "join", "unwind", "again", "done",
           "lost"}

(* Before the heartbeat starts. *)
Preparing == {"begin", "inspect", "ignore", "init", "baseline", "mark", "created", "indexed",
              "committing", "answer", "announce"}

(* From the start of the heartbeat to the end of the batching thread. *)
Labouring == {"chat", "rechat", "swarm", "checkpoint", "swarming", "hermes", "monitor", "reading",
              "answered", "delay", "accept"}
Working == Labouring \cup {"add", "diff", "commit", "drain"}

(* After checkpoint_managed_project. *)
Settled == {"drain", "flush", "report", "join"}

Queues == 0..MaxEvents
Attempts == 0..(RecoveryAttempts - 1)
Repairings == 0..RepairAttempts
Evidence == SUBSET (Checks \cup {"tools"})

Records == [ask : Requests, pc : Places, stop : BOOLEAN, hb : {"none", "on", "ended"},
            queue : Queues, batch : {"none", "open", "shut", "ended"},
            child : {"none", "model", "tool", "plain", "swarm", "deaf"}, resp : {"none", "ok", "err"},
            err : {"none", "model", "context", "stall", "cancelled", "other"},
            attempt : Attempts, repair : Repairings, ev : Evidence, changed : BOOLEAN]

Projects == [dir : BOOLEAN, ignore : BOOLEAN, git : BOOLEAN, commits : BOOLEAN, marker : BOOLEAN]

Files == [device : {"none", "legacy", "device"}, token : BOOLEAN,
          connection : {"none", "legacy", "fresh", "canonical"}]

(* The installation has an identity before it has a connection of its own. *)
Identified ==
    /\ proc \in {"authorize", "register"} => file.device # "none"
    /\ file.device = "none" => file.connection \in {"none", "legacy"}

Types ==
    /\ proc \in {"off", "identify", "authorize", "register", "poll", "inline"}
    /\ file \in Files /\ Identified
    /\ worker \subseteq Tasks /\ inline \subseteq Tasks
    /\ task \in [Tasks -> Records]
    /\ server \in [Tasks -> {"queued", "assigned", "cancelled", "over"}]
    /\ told \in [Tasks -> {"none", "unanswered", "answered"}]
    /\ proj \in Projects
    /\ dirty \subseteq Tasks \cup {"user"} /\ staged \subseteq dirty
------------------------------------------------------------------------------
(* What holds of task t when its thread holds r. *)

(* The places of a project request. *)
Aside == {"none", "begin", "indexed", "committing", "answer", "unwind", "again", "done", "lost"}

(* The poll loop holds the handle of every task that is not a project      *)
(* request, and a project request is never further than its answer.        *)
Held(t, r) ==
    /\ r.pc \notin Ended /\ r.ask.kind # "operation" => t \in worker
    /\ r.ask.kind = "operation" => r.pc \in Aside

(* A task the service may hand out is nobody's, and one whose completion   *)
(* it acknowledged has nothing more to report.                             *)
Answered(t, r) ==
    /\ server[t] = "queued" => r.pc \in {"none", "lost"}
    /\ told[t] = "answered" => r.pc \in {"join", "done"}

(* The marker is written after the first commit. *)
Based(r) == r.pc = "mark" => proj.commits

(* Between add and commit the index holds the changes of the task, unless  *)
(* somebody committed them; afterwards they are committed.                 *)
Committed(t, r) ==
    /\ r.pc \in {"diff", "commit"} /\ t \in dirty => t \in staged
    /\ r.pc \in Settled /\ r.resp = "ok" /\ proj.marker => t \notin dirty

(* A response that was accepted keeps its evidence. *)
Proven(r) ==
    /\ r.pc \in {"add", "diff", "commit"} \cup Settled /\ r.resp = "ok"
    /\ r.ask.kind = "hermes" /\ r.ask.mutations /\ r.ask.changes
    => r.changed /\ r.ask.checks \subseteq r.ev

(* The batching thread is open while anything may be sent, and ends empty. *)
Batched(r) ==
    /\ r.pc \in Working => r.batch = "open"
    /\ r.pc = "flush" => r.batch \in {"shut", "ended"}
    /\ r.pc \in {"report", "join"} => r.batch = "ended"
    /\ r.batch = "ended" => r.queue = 0

(* The heartbeat runs until the report, unless the task was cancelled. *)
Leased(t, r) ==
    /\ r.pc \in Preparing => r.hb = "none" /\ ~r.stop
    /\ r.pc \in Working \cup {"flush", "report"} =>
         (r.hb = "on" /\ ~r.stop) \/ server[t] = "cancelled"

(* A delay is followed by an attempt. *)
Watched(r) == r.pc = "delay" => r.attempt + 1 < RecoveryAttempts

Sound(t, r) ==
    /\ Held(t, r) /\ Answered(t, r) /\ Based(r) /\ Committed(t, r)
    /\ Proven(r) /\ Batched(r) /\ Leased(t, r) /\ Watched(r)

ConnectorInv ==
    /\ Types
    /\ \A t, u \in worker : t = u
    /\ proj.marker => proj.commits
    /\ \A t \in Tasks : Sound(t, task[t])
------------------------------------------------------------------------------
(* Records, one field at a time. *)

LEMMA StartsBlank ==
  /\ NoRequest \in Requests
  /\ Idle \in Records
  /\ Idle.ask = NoRequest /\ Idle.pc = "none" /\ ~Idle.stop /\ Idle.hb = "none" /\ Idle.queue = 0
  /\ Idle.batch = "none" /\ Idle.child = "none" /\ Idle.resp = "none"
<1>1. NoRequest \in Requests
  BY DEF NoRequest, Requests, Kinds, Checks
<1>2. 0 \in Queues /\ 0 \in Attempts /\ 0 \in Repairings
  BY ConnectorAssumption DEF Queues, Attempts, Repairings
<1>3. {} \in Evidence
  BY DEF Evidence
<1>4. Idle \in Records
  BY <1>1, <1>2, <1>3, Zenon DEF Idle, Records, Places
<1> QED
  BY <1>1, <1>4, Zenon DEF Idle

(* The record a task starts with, and the one that is left of a failure.   *)
Starting(q, pc) == [Idle EXCEPT !.ask = q, !.pc = pc]
Failing(q, pc, hb) == [Idle EXCEPT !.ask = q, !.pc = pc, !.stop = TRUE, !.hb = hb]

Bare(r, q, pc) ==
    /\ r \in Records /\ r.ask = q /\ r.pc = pc
    /\ r.queue = 0 /\ r.batch = "none" /\ r.child = "none" /\ r.resp = "none"

LEMMA StartingRecord ==
  ASSUME NEW q \in Requests, NEW pc \in Places
  PROVE  /\ Bare(Starting(q, pc), q, pc)
         /\ Starting(q, pc).stop = FALSE /\ Starting(q, pc).hb = "none"
<1> DEFINE a == [Idle EXCEPT !.ask = q]
           b == [a EXCEPT !.pc = pc]
<1>1. a \in Records
  BY StartsBlank, ZenonT(60) DEF Records
<1>2. b \in Records
  BY <1>1, ZenonT(60) DEF Records
<1>3. Starting(q, pc) = b
  BY Zenon DEF Starting
<1> QED
  BY <1>2, <1>3, Zenon DEF Idle, Bare

LEMMA FailingRecord ==
  ASSUME NEW q \in Requests, NEW pc \in Places, NEW hb \in {"none", "on", "ended"}
  PROVE  /\ Bare(Failing(q, pc, hb), q, pc)
         /\ Failing(q, pc, hb).stop = TRUE /\ Failing(q, pc, hb).hb = hb
<1> DEFINE a == [Idle EXCEPT !.ask = q]
           b == [a EXCEPT !.pc = pc]
           c == [b EXCEPT !.stop = TRUE]
           d == [c EXCEPT !.hb = hb]
<1>1. a \in Records
  BY StartsBlank, ZenonT(60) DEF Records
<1>2. b \in Records
  BY <1>1, ZenonT(60) DEF Records
<1>3. TRUE \in BOOLEAN
  OBVIOUS
<1>4. c \in Records
  BY <1>2, <1>3, ZenonT(60) DEF Records
<1>5. d \in Records
  BY <1>4, ZenonT(60) DEF Records
<1>6. Failing(q, pc, hb) = d
  BY Zenon DEF Failing
<1> QED
  BY <1>5, <1>6, Zenon DEF Idle, Bare

LEMMA Touched ==
  ASSUME NEW r \in Records
  PROVE  /\ Touch(r) \in Records
         /\ Touch(r).ask = r.ask /\ Touch(r).pc = r.pc /\ Touch(r).stop = r.stop
         /\ Touch(r).hb = r.hb /\ Touch(r).queue = r.queue
         /\ Touch(r).batch = r.batch /\ Touch(r).child = r.child
         /\ Touch(r).resp = r.resp /\ Touch(r).ev = r.ev
         /\ Touch(r).attempt = r.attempt
         /\ r.changed => Touch(r).changed
<1>1. (r.changed \/ r.batch = "open") \in BOOLEAN
  BY DEF Records
<1>2. Touch(r) \in Records
  BY <1>1, Zenon DEF Touch, Records
<1>3. Touch(r).changed = (r.changed \/ r.batch = "open")
  BY <1>1, Zenon DEF Touch, Records
<1>4. r.changed => Touch(r).changed
  BY <1>3
<1>5. /\ Touch(r).ask = r.ask /\ Touch(r).pc = r.pc /\ Touch(r).stop = r.stop
      /\ Touch(r).hb = r.hb /\ Touch(r).queue = r.queue
  BY Zenon DEF Touch, Records
<1>6. /\ Touch(r).batch = r.batch /\ Touch(r).child = r.child
      /\ Touch(r).resp = r.resp /\ Touch(r).ev = r.ev
      /\ Touch(r).attempt = r.attempt
  BY Zenon DEF Touch, Records
<1> QED
  BY <1>2, <1>4, <1>5, <1>6, Zenon
------------------------------------------------------------------------------
(* A step that leaves the task alone, but for the workspace it sees, keeps *)
(* what holds of it.                                                       *)
Same(u) ==
    /\ task'[u].ask = task[u].ask /\ task'[u].pc = task[u].pc /\ task'[u].stop = task[u].stop
    /\ task'[u].hb = task[u].hb /\ task'[u].queue = task[u].queue
    /\ task'[u].batch = task[u].batch /\ task'[u].child = task[u].child
    /\ task'[u].resp = task[u].resp /\ task'[u].ev = task[u].ev
    /\ task'[u].attempt = task[u].attempt
    /\ task[u].changed => task'[u].changed

LEMMA Undisturbed ==
  ASSUME NEW u \in Tasks, Sound(u, task[u]), Same(u),
         task[u].pc \notin Ended /\ task[u].ask.kind # "operation" => u \in worker',
         server'[u] = server[u] /\ told'[u] = told[u],
         proj.commits => proj'.commits,
         Committed(u, task[u])'
  PROVE  Sound(u, task[u])'
<1>1. Held(u, task[u])'
  BY DEF Sound, Held, Same, Aside, Ended
<1>2. Answered(u, task[u])' /\ Based(task[u])' /\ Watched(task[u])'
  BY DEF Sound, Answered, Based, Watched, Same
<1>3. Proven(task[u])' /\ Batched(task[u])' /\ Leased(u, task[u])'
  BY DEF Sound, Proven, Batched, Leased, Same, Preparing, Labouring, Working, Settled
<1> QED
  BY <1>1, <1>2, <1>3 DEF Sound

(* The thread of t goes on, and nothing else changes. *)
LEMMA Goes ==
  ASSUME ConnectorInv, NEW t \in Tasks, NEW r \in Records, With(t, r), Sound(t, r),
         UNCHANGED <<procVars, pollVars, serverVars, projVars>>
  PROVE  ConnectorInv'
<1>1. task \in [Tasks -> Records]
  BY DEF ConnectorInv, Types
<1>2. task' \in [Tasks -> Records] /\ task'[t] = r /\ \A u \in Tasks \ {t} : task'[u] = task[u]
  BY <1>1 DEF With
<1>3. Types'
  BY <1>2 DEF ConnectorInv, Types, Identified, procVars, pollVars, serverVars, projVars
<1>4. Sound(t, task[t])'
  BY <1>2 DEF Sound, Held, Answered, Based, Committed, Proven, Batched, Leased, Watched,
     pollVars, serverVars, projVars
<1>5. ASSUME NEW u \in Tasks \ {t}
      PROVE  Sound(u, task[u])'
  <2>1. Sound(u, task[u]) /\ task'[u] = task[u]
    BY <1>2 DEF ConnectorInv
  <2> QED
    BY <2>1 DEF Sound, Held, Answered, Based, Committed, Proven, Batched, Leased, Watched,
       pollVars, serverVars, projVars
<1>6. (\A u, v \in worker : u = v)' /\ (proj.marker => proj.commits)'
  BY DEF ConnectorInv, pollVars, projVars
<1> QED
  BY <1>3, <1>4, <1>5, <1>6 DEF ConnectorInv
------------------------------------------------------------------------------
(* The steps that change nothing but what the thread holds.                *)

LEMMA HeldRecord ==
  ASSUME ConnectorInv, NEW t \in Tasks
  PROVE  task[t] \in Records /\ Sound(t, task[t])
BY DEF ConnectorInv, Types

LEMMA MovedRecord ==
  ASSUME NEW q \in Records, NEW pc \in Places, NEW r, r = [q EXCEPT !.pc = pc]
  PROVE  /\ r \in Records /\ r.pc = pc
         /\ r.ask = q.ask /\ r.stop = q.stop /\ r.hb = q.hb /\ r.queue = q.queue
         /\ r.batch = q.batch /\ r.child = q.child /\ r.resp = q.resp /\ r.err = q.err
         /\ r.attempt = q.attempt /\ r.ev = q.ev /\ r.changed = q.changed
BY ZenonT(60) DEF Records

LEMMA FailedRecord ==
  ASSUME ConnectorInv, NEW t \in Tasks, Fails(t)
  PROVE  \E r \in Records :
           /\ With(t, r) /\ r.pc \in {"again", "unwind"} /\ r.stop
           /\ r.ask = task[t].ask /\ r.hb = task[t].hb
           /\ r.queue = 0 /\ r.batch = "none" /\ r.child = "none" /\ r.resp = "none"
<1> DEFINE pc == IF task[t].hb = "none" THEN "again" ELSE "unwind"
<1>1. task[t].ask \in Requests /\ task[t].hb \in {"none", "on", "ended"}
  BY HeldRecord, ZenonT(60) DEF Records
<1>2. pc \in Places /\ pc \in {"again", "unwind"}
  BY DEF Places
<1>3. With(t, Failing(task[t].ask, pc, task[t].hb))
  BY Zenon DEF Fails, Blank, Failing
<1> HIDE DEF pc
<1>4. /\ Bare(Failing(task[t].ask, pc, task[t].hb), task[t].ask, pc)
      /\ Failing(task[t].ask, pc, task[t].hb).stop = TRUE
      /\ Failing(task[t].ask, pc, task[t].hb).hb = task[t].hb
  BY <1>1, <1>2, FailingRecord
<1> QED
  BY <1>2, <1>3, <1>4 DEF Bare

(* Whatever a thread that has not reported fails at, it ends the same way. *)
LEMMA FailedIsSound ==
  ASSUME ConnectorInv, NEW t \in Tasks, Live(t), task[t].pc # "join", Fails(t)
  PROVE  \E r \in Records : With(t, r) /\ Sound(t, r) /\ r.pc \in {"again", "unwind"}
<1>1. PICK r \in Records :
        /\ With(t, r) /\ r.pc \in {"again", "unwind"} /\ r.stop
        /\ r.ask = task[t].ask /\ r.hb = task[t].hb
        /\ r.queue = 0 /\ r.batch = "none" /\ r.child = "none" /\ r.resp = "none"
  BY FailedRecord
<1>2. Held(t, r) /\ Answered(t, r)
  BY <1>1, HeldRecord DEF Sound, Held, Answered, Live, Aside, Ended
<1>3. Based(r) /\ Committed(t, r) /\ Proven(r) /\ Batched(r) /\ Leased(t, r) /\ Watched(r)
  BY <1>1 DEF Based, Committed, Proven, Batched, Leased, Watched, Settled, Preparing,
            Labouring, Working
<1> QED
  BY <1>1, <1>2, <1>3 DEF Sound

LEMMA InspectsStep ==
  ASSUME ConnectorInv, NEW t \in Tasks, Inspects(t) \/ Created(t) \/ Unwinds(t)
  PROVE  ConnectorInv'
<1>1. CASE Inspects(t)
  <2>1. PICK pc \in {"ignore", "created"} : Goto(t, pc)
    BY <1>1 DEF Inspects
  <2>2. PICK r : r = [task[t] EXCEPT !.pc = pc]
    OBVIOUS
  <2>3. pc \in Places
    BY <2>1 DEF Places
  <2>4. r \in Records /\ Sound(t, r)
    BY <1>1, <2>1, <2>2, <2>3, HeldRecord, MovedRecord
    DEF Inspects, Sound, Held, Answered, Based, Committed, Proven, Batched, Leased, Watched,
        Settled, Aside, Preparing, Labouring, Working, Ended
  <2> QED
    BY <1>1, <2>1, <2>2, <2>4, Goes DEF Inspects, Goto
<1>2. CASE Created(t)
  <2>1. CASE Goto(t, "answer")
    <3>1. PICK r : r = [task[t] EXCEPT !.pc = "answer"]
      OBVIOUS
    <3>2. "answer" \in Places
      BY DEF Places
    <3>3. r \in Records /\ Sound(t, r)
      BY <1>2, <3>1, <3>2, HeldRecord, MovedRecord
      DEF Created, Sound, Held, Answered, Based, Committed, Proven, Batched, Leased, Watched,
          Settled, Aside, Preparing, Labouring, Working, Ended
    <3> QED
      BY <1>2, <2>1, <3>1, <3>3, Goes DEF Created, Goto
  <2>2. CASE Fails(t)
    BY <1>2, <2>2, FailedIsSound, Goes DEF Created, Live, Ended
  <2> QED
    BY <1>2, <2>1, <2>2 DEF Created
<1>3. CASE Unwinds(t)
  <2>1. task[t].ask \in Requests /\ "again" \in Places
    BY HeldRecord, ZenonT(60) DEF Records, Places
  <2>2. PICK r : r = Starting(task[t].ask, "again")
    OBVIOUS
  <2>3. With(t, r)
    BY <1>3, <2>2, Zenon DEF Unwinds, Blank, Starting
  <2>4. Bare(r, task[t].ask, "again")
    BY <2>1, <2>2, StartingRecord
  <2>5. Sound(t, r)
    BY <1>3, <2>4, HeldRecord
    DEF Bare, Unwinds, Sound, Held, Answered, Based, Committed, Proven, Batched, Leased, Watched,
        Settled, Aside, Preparing, Labouring, Working, Ended
  <2> QED
    BY <1>3, <2>3, <2>4, <2>5, Goes DEF Unwinds, Bare
<1> QED
  BY <1>1, <1>2, <1>3
------------------------------------------------------------------------------
(* Between the start of the heartbeat and the last checkpoint, a thread    *)
(* that keeps its request, its lease and its batching thread is sound.     *)
LEMMA Labours ==
  ASSUME ConnectorInv, NEW t \in Tasks, NEW r \in Records,
         task[t].pc \in Labouring, r.pc \in Labouring,
         r.ask = task[t].ask, r.stop = task[t].stop, r.hb = task[t].hb,
         r.batch = task[t].batch,
         r.pc = "delay" => r.attempt + 1 < RecoveryAttempts
  PROVE  Sound(t, r)
<1>1. Held(t, r) /\ Answered(t, r)
  BY HeldRecord DEF Sound, Held, Answered, Labouring, Aside, Ended
<1>2. Based(r) /\ Committed(t, r) /\ Proven(r) /\ Watched(r)
  BY DEF Based, Committed, Proven, Watched, Labouring, Settled
<1>3. Batched(r) /\ Leased(t, r)
  BY HeldRecord DEF Sound, Batched, Leased, Labouring, Working, Preparing
<1> QED
  BY <1>1, <1>2, <1>3 DEF Sound

LEMMA GivenUpRecord ==
  ASSUME ConnectorInv, NEW t \in Tasks, NEW r, r = GivenUp(task[t])
  PROVE  /\ r \in Records /\ r.pc = "accept"
         /\ r.ask = task[t].ask /\ r.stop = task[t].stop /\ r.hb = task[t].hb
         /\ r.batch = task[t].batch
<1>1. "accept" \in Places /\ 0 \in Attempts
  BY ConnectorAssumption DEF Places, Attempts
<1> QED
  BY <1>1, HeldRecord, ZenonT(60) DEF GivenUp, Records

(* A run of Hermes that is given up is what the response is about. *)
LEMMA GivesUp ==
  ASSUME ConnectorInv, NEW t \in Tasks, task[t].pc \in {"answered", "delay"},
         With(t, GivenUp(task[t])), UNCHANGED <<procVars, pollVars, serverVars, projVars>>
  PROVE  ConnectorInv'
<1>1. PICK r : r = GivenUp(task[t])
  OBVIOUS
<1>2. /\ r \in Records /\ r.pc = "accept"
      /\ r.ask = task[t].ask /\ r.stop = task[t].stop /\ r.hb = task[t].hb
      /\ r.batch = task[t].batch
  BY <1>1, GivenUpRecord
<1>3. Sound(t, r)
  BY <1>2, Labours DEF Labouring
<1> QED
  BY <1>1, <1>2, <1>3, Goes

LEMMA RecoversStep ==
  ASSUME ConnectorInv, NEW t \in Tasks, Recovers(t)
  PROVE  ConnectorInv'
<1>1. CASE Goto(t, "delay")
  <2>1. PICK r : r = [task[t] EXCEPT !.pc = "delay"]
    OBVIOUS
  <2>2. "delay" \in Places
    BY DEF Places
  <2>3. /\ r \in Records /\ r.pc = "delay" /\ r.attempt = task[t].attempt
        /\ r.ask = task[t].ask /\ r.stop = task[t].stop /\ r.hb = task[t].hb
        /\ r.batch = task[t].batch
    BY <2>1, <2>2, HeldRecord, MovedRecord
  <2>4. Sound(t, r)
    BY <2>3, Labours DEF Recovers, RecoveryAllowed, Labouring
  <2> QED
    BY <1>1, <2>1, <2>3, <2>4, Goes DEF Recovers, Goto
<1>2. CASE With(t, GivenUp(task[t]))
  BY <1>2, GivesUp DEF Recovers
<1> QED
  BY <1>1, <1>2 DEF Recovers

LEMMA SettlesStep ==
  ASSUME ConnectorInv, NEW t \in Tasks, Settles(t)
  PROVE  ConnectorInv'
BY GivesUp DEF Settles

(* What hermes_adapter::run leaves behind: a result, or a thread that      *)
(* waits for the output of a descendant.                                   *)
LEMMA ReturnedRecord ==
  ASSUME NEW q \in Records, NEW r, r = Returned(q)
  PROVE  /\ r \in Records /\ r.pc \in {"accept", "answered"}
         /\ r.ask = q.ask /\ r.stop = q.stop /\ r.hb = q.hb /\ r.batch = q.batch
<1> DEFINE pc == IF q.resp = "ok" THEN "accept" ELSE "answered"
<1>1. pc \in Places /\ pc \in {"accept", "answered"}
  BY DEF Places
<1>2. r = [q EXCEPT !.pc = pc, !.child = "none"]
  BY Zenon DEF Returned
<1> HIDE DEF pc
<1>3. /\ r \in Records /\ r.pc = pc
      /\ r.ask = q.ask /\ r.stop = q.stop /\ r.hb = q.hb /\ r.batch = q.batch
  BY <1>1, <1>2, ZenonT(60) DEF Records
<1> QED
  BY <1>1, <1>3

LEMMA LeavesStep ==
  ASSUME ConnectorInv, NEW t \in Tasks, task[t].pc = "monitor", NEW q \in Records,
         q.ask = task[t].ask, q.stop = task[t].stop, q.hb = task[t].hb, q.batch = task[t].batch,
         Leaves(t, Returned(q)), UNCHANGED <<procVars, pollVars, serverVars, projVars>>
  PROVE  ConnectorInv'
<1>1. PICK r : r = Returned(q)
  OBVIOUS
<1>2. /\ r \in Records /\ r.pc \in {"accept", "answered"}
      /\ r.ask = task[t].ask /\ r.stop = task[t].stop /\ r.hb = task[t].hb
      /\ r.batch = task[t].batch
  BY <1>1, ReturnedRecord
<1>3. CASE With(t, r)
  <2>1. Sound(t, r)
    BY <1>2, Labours DEF Labouring
  <2> QED
    BY <1>2, <1>3, <2>1, Goes
<1>4. CASE With(t, [r EXCEPT !.pc = "reading", !.child = "deaf"])
  <2>1. PICK w : w = [r EXCEPT !.pc = "reading", !.child = "deaf"]
    OBVIOUS
  <2>2. "reading" \in Places
    BY DEF Places
  <2>3. /\ w \in Records /\ w.pc = "reading"
        /\ w.ask = task[t].ask /\ w.stop = task[t].stop /\ w.hb = task[t].hb
        /\ w.batch = task[t].batch
    BY <1>2, <2>1, <2>2, ZenonT(60) DEF Records
  <2>4. Sound(t, w)
    BY <2>3, Labours DEF Labouring
  <2> QED
    BY <1>4, <2>1, <2>3, <2>4, Goes
<1> QED
  BY <1>1, <1>3, <1>4 DEF Leaves

LEMMA HermesStallsStep ==
  ASSUME ConnectorInv, NEW t \in Tasks, HermesStalls(t)
  PROVE  ConnectorInv'
<1> DEFINE e == IF task[t].child = "tool" THEN "stall" ELSE "model"
<1>1. PICK q : q = [task[t] EXCEPT !.resp = "err", !.err = e]
  OBVIOUS
<1>2. Leaves(t, Returned(q))
  BY <1>1, Zenon DEF HermesStalls
<1>3. e \in {"none", "model", "context", "stall", "cancelled", "other"}
  OBVIOUS
<1> HIDE DEF e
<1>4. /\ q \in Records
      /\ q.ask = task[t].ask /\ q.stop = task[t].stop /\ q.hb = task[t].hb
      /\ q.batch = task[t].batch
  BY <1>1, <1>3, HeldRecord, ZenonT(60) DEF Records
<1> QED
  BY <1>2, <1>4, LeavesStep DEF HermesStalls, Structured

LEMMA ReadsStep ==
  ASSUME ConnectorInv, NEW t \in Tasks, Reads(t)
  PROVE  ConnectorInv'
<1>1. PICK r : r = Returned(task[t])
  OBVIOUS
<1>2. /\ r \in Records /\ r.pc \in {"accept", "answered"}
      /\ r.ask = task[t].ask /\ r.stop = task[t].stop /\ r.hb = task[t].hb
      /\ r.batch = task[t].batch
  BY <1>1, HeldRecord, ReturnedRecord
<1>3. Sound(t, r)
  BY <1>2, Labours DEF Reads, Labouring
<1> QED
  BY <1>1, <1>2, <1>3, Goes DEF Reads

LEMMA HermesCancelledStep ==
  ASSUME ConnectorInv, NEW t \in Tasks, HermesCancelled(t)
  PROVE  ConnectorInv'
<1>1. PICK r : r = [task[t] EXCEPT !.pc = "answered", !.resp = "err", !.err = "cancelled",
                           !.child = "none"]
  OBVIOUS
<1>2. "answered" \in Places
  BY DEF Places
<1>3. /\ r \in Records
     /\ r.ask = task[t].ask /\ r.pc = "answered"
     /\ r.stop = task[t].stop /\ r.hb = task[t].hb
     /\ r.queue = task[t].queue /\ r.batch = task[t].batch
     /\ r.child = "none" /\ r.resp = "err"
     /\ r.attempt = task[t].attempt /\ r.ev = task[t].ev
     /\ r.changed = task[t].changed
  BY <1>1, <1>2, HeldRecord, ZenonT(60) DEF Records
<1>4. Sound(t, r)
  BY <1>2, <1>3, HeldRecord
  DEF HermesCancelled, Sound, Held, Answered, Based, Committed,
      Proven, Batched, Leased, Watched, Settled, Aside, Preparing, Labouring, Working, Ended
<1>5. With(t, r)
  BY <1>1, Zenon DEF HermesCancelled
<1> QED
  BY <1>3, <1>4, <1>5, Goes DEF HermesCancelled

LEMMA SessionNotSavedStep ==
  ASSUME ConnectorInv, NEW t \in Tasks, SessionNotSaved(t)
  PROVE  ConnectorInv'
<1>1. PICK r : r = [task[t] EXCEPT !.pc = "answered", !.resp = "err", !.err = "other",
                           !.child = "none"]
  OBVIOUS
<1>2. "answered" \in Places
  BY DEF Places
<1>3. /\ r \in Records
     /\ r.ask = task[t].ask /\ r.pc = "answered"
     /\ r.stop = task[t].stop /\ r.hb = task[t].hb
     /\ r.queue = task[t].queue /\ r.batch = task[t].batch
     /\ r.child = "none" /\ r.resp = "err"
     /\ r.attempt = task[t].attempt /\ r.ev = task[t].ev
     /\ r.changed = task[t].changed
  BY <1>1, <1>2, HeldRecord, ZenonT(60) DEF Records
<1>4. Sound(t, r)
  BY <1>2, <1>3, HeldRecord
  DEF SessionNotSaved, Structured, Sound, Held, Answered, Based, Committed, Proven,
      Batched, Leased, Watched, Settled, Aside, Preparing, Labouring, Working, Ended
<1> QED
  BY <1>1, <1>3, <1>4, Goes DEF SessionNotSaved

LEMMA PostsStep ==
  ASSUME ConnectorInv, NEW t \in Tasks, Posts(t)
  PROVE  ConnectorInv'
<1>1. PICK r : r = [task[t] EXCEPT !.queue = 0]
  OBVIOUS
<1>2. 0 \in Queues
  BY ConnectorAssumption DEF Queues
<1>3. /\ r \in Records
     /\ r.ask = task[t].ask /\ r.pc = task[t].pc
     /\ r.stop = task[t].stop /\ r.hb = task[t].hb /\ r.queue = 0
     /\ r.batch = task[t].batch /\ r.child = task[t].child
     /\ r.resp = task[t].resp /\ r.attempt = task[t].attempt
     /\ r.ev = task[t].ev /\ r.changed = task[t].changed
  BY <1>1, <1>2, HeldRecord, ZenonT(60) DEF Records
<1>4. Sound(t, r)
  BY <1>2, <1>3, HeldRecord
  DEF Posts, Sound, Held, Answered, Based, Committed, Proven, Batched,
      Leased, Watched, Settled, Aside, Preparing, Labouring, Working, Ended
<1> QED
  BY <1>1, <1>3, <1>4, Goes DEF Posts

LEMMA BatchEndsStep ==
  ASSUME ConnectorInv, NEW t \in Tasks, BatchEnds(t)
  PROVE  ConnectorInv'
<1>1. PICK r : r = [task[t] EXCEPT !.batch = "ended"]
  OBVIOUS
<1>2. "ended" \in {"none", "open", "shut", "ended"}
  OBVIOUS
<1>3. /\ r \in Records
     /\ r.ask = task[t].ask /\ r.pc = task[t].pc
     /\ r.stop = task[t].stop /\ r.hb = task[t].hb
     /\ r.queue = task[t].queue /\ r.batch = "ended"
     /\ r.child = task[t].child /\ r.resp = task[t].resp
     /\ r.attempt = task[t].attempt /\ r.ev = task[t].ev
     /\ r.changed = task[t].changed
  BY <1>1, <1>2, HeldRecord, ZenonT(60) DEF Records
<1>4. Sound(t, r)
  BY <1>2, <1>3, HeldRecord
  DEF BatchEnds, Sound, Held, Answered, Based, Committed, Proven, Batched,
      Leased, Watched, Settled, Aside, Preparing, Labouring, Working, Ended
<1> QED
  BY <1>1, <1>3, <1>4, Goes DEF BatchEnds

LEMMA DrainsStep ==
  ASSUME ConnectorInv, NEW t \in Tasks, Drains(t)
  PROVE  ConnectorInv'
<1>1. PICK r : r = [task[t] EXCEPT !.pc = "flush", !.batch = "shut"]
  OBVIOUS
<1>2. "flush" \in Places
  BY DEF Places
<1>3. /\ r \in Records
     /\ r.ask = task[t].ask /\ r.pc = "flush"
     /\ r.stop = task[t].stop /\ r.hb = task[t].hb
     /\ r.queue = task[t].queue /\ r.batch = "shut"
     /\ r.child = task[t].child /\ r.resp = task[t].resp
     /\ r.attempt = task[t].attempt /\ r.ev = task[t].ev
     /\ r.changed = task[t].changed
  BY <1>1, <1>2, HeldRecord, ZenonT(60) DEF Records
<1>4. Sound(t, r)
  BY <1>2, <1>3, HeldRecord
  DEF Drains, Sound, Held, Answered, Based, Committed, Proven, Batched,
      Leased, Watched, Settled, Aside, Preparing, Labouring, Working, Ended
<1> QED
  BY <1>1, <1>3, <1>4, Goes DEF Drains

LEMMA FlushesStep ==
  ASSUME ConnectorInv, NEW t \in Tasks, Flushes(t)
  PROVE  ConnectorInv'
<1>1. PICK r : r = [task[t] EXCEPT !.pc = "report"]
  OBVIOUS
<1>2. "report" \in Places
  BY DEF Places
<1>3. /\ r \in Records
     /\ r.ask = task[t].ask /\ r.pc = "report"
     /\ r.stop = task[t].stop /\ r.hb = task[t].hb
     /\ r.queue = task[t].queue /\ r.batch = task[t].batch
     /\ r.child = task[t].child /\ r.resp = task[t].resp
     /\ r.attempt = task[t].attempt /\ r.ev = task[t].ev
     /\ r.changed = task[t].changed
  BY <1>1, <1>2, HeldRecord, ZenonT(60) DEF Records
<1>4. Sound(t, r)
  BY <1>2, <1>3, HeldRecord
  DEF Flushes, Sound, Held, Answered, Based, Committed, Proven, Batched,
      Leased, Watched, Settled, Aside, Preparing, Labouring, Working, Ended
<1> QED
  BY <1>1, <1>3, <1>4, Goes DEF Flushes

LEMMA HeartbeatLearnsStep ==
  ASSUME ConnectorInv, NEW t \in Tasks, HeartbeatLearns(t)
  PROVE  ConnectorInv'
<1>1. PICK r : r = [task[t] EXCEPT !.stop = TRUE, !.hb = "ended"]
  OBVIOUS
<1>2. TRUE \in BOOLEAN
  OBVIOUS
<1>3. /\ r \in Records
     /\ r.ask = task[t].ask /\ r.pc = task[t].pc /\ r.stop = TRUE
     /\ r.hb = "ended" /\ r.queue = task[t].queue
     /\ r.batch = task[t].batch /\ r.child = task[t].child
     /\ r.resp = task[t].resp /\ r.attempt = task[t].attempt
     /\ r.ev = task[t].ev /\ r.changed = task[t].changed
  BY <1>1, <1>2, HeldRecord, ZenonT(60) DEF Records
<1>4. Sound(t, r)
  BY <1>2, <1>3, HeldRecord
  DEF HeartbeatLearns, Sound, Held, Answered, Based, Committed, Proven,
      Batched, Leased, Watched, Settled, Aside, Preparing, Labouring, Working, Ended
<1> QED
  BY <1>1, <1>3, <1>4, Goes DEF HeartbeatLearns

LEMMA HeartbeatEndsStep ==
  ASSUME ConnectorInv, NEW t \in Tasks, HeartbeatEnds(t)
  PROVE  ConnectorInv'
<1>1. PICK r : r = [task[t] EXCEPT !.hb = "ended"]
  OBVIOUS
<1>2. "ended" \in {"none", "on", "ended"}
  OBVIOUS
<1>3. /\ r \in Records
     /\ r.ask = task[t].ask /\ r.pc = task[t].pc
     /\ r.stop = task[t].stop /\ r.hb = "ended"
     /\ r.queue = task[t].queue /\ r.batch = task[t].batch
     /\ r.child = task[t].child /\ r.resp = task[t].resp
     /\ r.attempt = task[t].attempt /\ r.ev = task[t].ev
     /\ r.changed = task[t].changed
  BY <1>1, <1>2, HeldRecord, ZenonT(60) DEF Records
<1>4. Sound(t, r)
  BY <1>2, <1>3, HeldRecord
  DEF HeartbeatEnds, Sound, Held, Answered, Based, Committed, Proven,
      Batched, Leased, Watched, Settled, Aside, Preparing, Labouring, Working, Ended
<1> QED
  BY <1>1, <1>3, <1>4, Goes DEF HeartbeatEnds

(* A response that is rejected goes on to be reported as a failure. *)
LEMMA RejectedIsSound ==
  ASSUME ConnectorInv, NEW t \in Tasks, task[t].pc \in Working \ {"monitor"}, Rejects(t)
  PROVE  \E r \in Records : With(t, r) /\ Sound(t, r) /\ r.pc = "drain" /\ r.resp = "err"
<1>1. PICK r : r = [task[t] EXCEPT !.pc = "drain", !.resp = "err", !.repair = 0, !.ev = {},
                            !.changed = FALSE]
  OBVIOUS
<1>2. "drain" \in Places /\ 0 \in Repairings /\ {} \in Evidence
  BY ConnectorAssumption DEF Places, Repairings, Evidence
<1>3. /\ r \in Records
      /\ r.ask = task[t].ask /\ r.pc = "drain"
      /\ r.stop = task[t].stop /\ r.hb = task[t].hb
      /\ r.queue = task[t].queue /\ r.batch = task[t].batch
      /\ r.child = task[t].child /\ r.resp = "err"
      /\ r.attempt = task[t].attempt /\ r.ev = {}
      /\ r.changed = FALSE
  BY <1>1, <1>2, HeldRecord, ZenonT(60) DEF Records
<1>4. /\ Held(t, task[t]) /\ Answered(t, task[t]) /\ Batched(task[t])
      /\ Leased(t, task[t]) /\ Watched(task[t])
  BY HeldRecord DEF Sound
<1>5. Held(t, r) /\ Answered(t, r)
  BY <1>3, <1>4 DEF Held, Answered, Aside, Labouring, Working, Ended
<1>6. Based(r) /\ Committed(t, r) /\ Proven(r) /\ Watched(r)
  BY <1>3, <1>4 DEF Based, Committed, Proven, Watched, Settled, Labouring, Working
<1>7. Batched(r) /\ Leased(t, r)
  BY <1>3, <1>4 DEF Batched, Leased, Preparing, Labouring, Working
<1>8. Sound(t, r)
  BY <1>5, <1>6, <1>7 DEF Sound
<1>9. With(t, r)
  BY <1>1, Zenon DEF Rejects
<1> QED
  BY <1>3, <1>9, <1>8

LEMMA ResumesStep ==
  ASSUME ConnectorInv, NEW t \in Tasks, Resumes(t)
  PROVE  ConnectorInv'
<1>1. CASE task[t].stop
  BY <1>1, GivesUp DEF Resumes
<1>2. CASE ~task[t].stop
  <2>1. PICK r : r = [task[t] EXCEPT !.pc = "hermes", !.attempt = @ + 1]
    OBVIOUS
  <2>2. "hermes" \in Places /\ task[t].attempt + 1 \in Attempts
    BY HeldRecord, ConnectorAssumption DEF Resumes, Records, Places, Attempts, Sound, Watched
  <2>3. /\ r \in Records
        /\ r.ask = task[t].ask /\ r.pc = "hermes"
        /\ r.stop = task[t].stop /\ r.hb = task[t].hb
        /\ r.queue = task[t].queue /\ r.batch = task[t].batch
        /\ r.child = task[t].child /\ r.resp = task[t].resp
        /\ r.attempt = task[t].attempt + 1 /\ r.ev = task[t].ev
        /\ r.changed = task[t].changed
    BY <2>1, <2>2, HeldRecord, ZenonT(60) DEF Records
  <2>4. Sound(t, r)
    BY <1>2, <2>2, <2>3, HeldRecord
    DEF Resumes, Sound, Held, Answered, Based, Committed, Proven, Batched,
        Leased, Watched, Settled, Aside, Preparing, Labouring, Working, Ended
  <2> QED
    BY <1>2, <2>1, <2>3, <2>4, Goes DEF Resumes
<1> QED
  BY <1>1, <1>2

LEMMA RepairsStep ==
  ASSUME ConnectorInv, NEW t \in Tasks, Repairs(t)
  PROVE  ConnectorInv'
<1>1. CASE With(t, [task[t] EXCEPT !.pc = "hermes", !.repair = @ + 1])
  <2>1. PICK r : r = [task[t] EXCEPT !.pc = "hermes", !.repair = @ + 1]
    OBVIOUS
  <2>2. "hermes" \in Places /\ task[t].repair + 1 \in Repairings
    BY HeldRecord, ConnectorAssumption DEF Repairs, NeedsRepair, Records, Places, Repairings
  <2>3. /\ r \in Records /\ r.pc = "hermes"
        /\ r.ask = task[t].ask /\ r.stop = task[t].stop /\ r.hb = task[t].hb
        /\ r.batch = task[t].batch
    BY <2>1, <2>2, HeldRecord, ZenonT(60) DEF Records
  <2>4. Sound(t, r)
    BY <2>3, Labours DEF Repairs, Labouring
  <2> QED
    BY <1>1, <2>1, <2>3, <2>4, Goes DEF Repairs
<1>2. CASE Fails(t)
  BY <1>2, FailedIsSound, Goes DEF Repairs, Live, Ended
<1> QED
  BY <1>1, <1>2 DEF Repairs

LEMMA HermesStartsStep ==
  ASSUME ConnectorInv, NEW t \in Tasks, HermesStarts(t)
  PROVE  ConnectorInv'
<1>1. ASSUME NEW c \in {"model", "plain"},
             With(t, [task[t] EXCEPT !.pc = "monitor", !.child = c, !.ev = {},
                                     !.resp = "none", !.err = "none"])
      PROVE  ConnectorInv'
  <2>1. PICK r : r = [task[t] EXCEPT !.pc = "monitor", !.child = c, !.ev = {},
                                   !.resp = "none", !.err = "none"]
    OBVIOUS
  <2>2. /\ "monitor" \in Places /\ {} \in Evidence
        /\ c \in {"none", "model", "tool", "plain", "swarm", "deaf"}
    BY DEF Places, Evidence
  <2>3. /\ r \in Records /\ r.pc = "monitor"
        /\ r.ask = task[t].ask /\ r.stop = task[t].stop /\ r.hb = task[t].hb
        /\ r.batch = task[t].batch
    BY <2>1, <2>2, HeldRecord, ZenonT(60) DEF Records
  <2>4. Sound(t, r)
    BY <2>3, Labours DEF HermesStarts, Labouring
  <2> QED
    BY <1>1, <2>1, <2>3, <2>4, Goes DEF HermesStarts
<1>2. CASE With(t, [task[t] EXCEPT !.pc = "answered", !.resp = "err", !.err = "other"])
  <2>1. PICK r : r = [task[t] EXCEPT !.pc = "answered", !.resp = "err", !.err = "other"]
    OBVIOUS
  <2>2. "answered" \in Places
    BY DEF Places
  <2>3. /\ r \in Records
        /\ r.ask = task[t].ask /\ r.pc = "answered"
        /\ r.stop = task[t].stop /\ r.hb = task[t].hb
        /\ r.queue = task[t].queue /\ r.batch = task[t].batch
        /\ r.child = task[t].child /\ r.resp = "err"
        /\ r.attempt = task[t].attempt /\ r.ev = task[t].ev
        /\ r.changed = task[t].changed
    BY <2>1, <2>2, HeldRecord, ZenonT(60) DEF Records
  <2>4. Sound(t, r)
    BY <1>2, <2>2, <2>3, HeldRecord
    DEF HermesStarts, Sound, Held, Answered, Based, Committed, Proven,
        Batched, Leased, Watched, Settled, Aside, Preparing, Labouring, Working, Ended
  <2> QED
    BY <1>2, <2>1, <2>3, <2>4, Goes DEF HermesStarts
<1> QED
  BY <1>1, <1>2 DEF HermesStarts

LEMMA HermesEndsStep ==
  ASSUME ConnectorInv, NEW t \in Tasks, HermesEnds(t)
  PROVE  ConnectorInv'
<1>0. task[t].pc = "monitor" /\ UNCHANGED <<procVars, pollVars, serverVars, projVars>>
  BY Zenon DEF HermesEnds
<1>1. ASSUME NEW ev \in SUBSET (Request(t).checks \cup {"tools"}),
             Leaves(t, Returned([task[t] EXCEPT !.resp = "ok", !.attempt = 0, !.ev = ev]))
      PROVE  ConnectorInv'
  <2>1. PICK q : q = [task[t] EXCEPT !.resp = "ok", !.attempt = 0, !.ev = ev]
    OBVIOUS
  <2>2. ev \in Evidence /\ 0 \in Attempts
    BY HeldRecord, ConnectorAssumption DEF Evidence, Attempts, Request, Records, Requests
  <2>3. /\ q \in Records
        /\ q.ask = task[t].ask /\ q.stop = task[t].stop /\ q.hb = task[t].hb
        /\ q.batch = task[t].batch
    BY <2>1, <2>2, HeldRecord, ZenonT(60) DEF Records
  <2>4. Leaves(t, Returned(q))
    BY <1>1, <2>1, Zenon
  <2> QED
    BY <1>0, <2>3, <2>4, LeavesStep, Zenon
<1>2. ASSUME NEW e \in {"model", "context", "other"},
             Leaves(t, Returned([task[t] EXCEPT !.resp = "err", !.err = e]))
      PROVE  ConnectorInv'
  <2>1. PICK q : q = [task[t] EXCEPT !.resp = "err", !.err = e]
    OBVIOUS
  <2>2. e \in {"none", "model", "context", "stall", "cancelled", "other"}
    OBVIOUS
  <2>3. /\ q \in Records
        /\ q.ask = task[t].ask /\ q.stop = task[t].stop /\ q.hb = task[t].hb
        /\ q.batch = task[t].batch
    BY <2>1, <2>2, HeldRecord, ZenonT(60) DEF Records
  <2>4. Leaves(t, Returned(q))
    BY <1>2, <2>1, Zenon
  <2> QED
    BY <1>0, <2>3, <2>4, LeavesStep, Zenon
<1> QED
  BY <1>1, <1>2, Zenon DEF HermesEnds

LEMMA AnnouncesStep ==
  ASSUME ConnectorInv, NEW t \in Tasks, Announces(t)
  PROVE  ConnectorInv'
<1> DEFINE pc == IF Request(t).kind = "native" THEN "chat"
                 ELSE IF Request(t).mutations /\ Request(t).swarm THEN "swarm"
                 ELSE "hermes"
<1>1. CASE With(t, [task[t] EXCEPT !.hb = "on", !.batch = "open", !.changed = FALSE, !.pc = pc])
  <2>1. pc \in {"chat", "swarm", "hermes"}
    OBVIOUS
  <2> HIDE DEF pc
  <2>2. PICK r : r = [task[t] EXCEPT !.hb = "on", !.batch = "open", !.changed = FALSE, !.pc = pc]
    OBVIOUS
  <2>3. pc \in Places
    BY <2>1 DEF Places
  <2>4. /\ r \in Records
        /\ r.ask = task[t].ask /\ r.pc = pc /\ r.stop = task[t].stop
        /\ r.hb = "on" /\ r.queue = task[t].queue /\ r.batch = "open"
        /\ r.child = task[t].child /\ r.resp = task[t].resp
        /\ r.attempt = task[t].attempt /\ r.ev = task[t].ev
        /\ r.changed = FALSE
    BY <2>2, <2>3, HeldRecord, ZenonT(60) DEF Records
  <2>5. Sound(t, r)
    BY <1>1, <2>3, <2>4, HeldRecord, <2>1
    DEF Announces, Sound, Held, Answered, Based, Committed, Proven, Batched,
        Leased, Watched, Settled, Aside, Preparing, Labouring, Working, Ended
  <2> QED
    BY <1>1, <2>2, <2>4, <2>5, Goes DEF Announces
<1>2. CASE Fails(t)
  BY <1>2, FailedIsSound, Goes DEF Announces, Live, Ended
<1> QED
  BY <1>1, <1>2 DEF Announces

LEMMA JoinsStep ==
  ASSUME ConnectorInv, NEW t \in Tasks, Joins(t)
  PROVE  ConnectorInv'
<1>1. task[t].ask \in Requests /\ "done" \in Places
  BY HeldRecord, ZenonT(60) DEF Records, Places
<1>2. PICK r : r = Starting(task[t].ask, "done")
  OBVIOUS
<1>3. With(t, r)
  BY <1>2, Zenon DEF Joins, Blank, Starting
<1>4. Bare(r, task[t].ask, "done")
  BY <1>1, <1>2, StartingRecord
<1>5. Sound(t, r)
  BY <1>4, HeldRecord
  DEF Bare, Joins, Sound, Held, Answered, Based, Committed, Proven, Batched,
      Leased, Watched, Settled, Aside, Preparing, Labouring, Working, Ended
<1> QED
  BY <1>3, <1>4, <1>5, Goes DEF Joins, Bare

LEMMA DiffsStep ==
  ASSUME ConnectorInv, NEW t \in Tasks, Diffs(t) \/ LooksAtIndex(t)
  PROVE  ConnectorInv'
<1>1. CASE Diffs(t)
  <2>1. PICK pc \in {"drain", "commit"} :
          /\ Goto(t, pc)
          /\ pc = "drain" => staged = {}
    BY <1>1 DEF Diffs, DiffIsClean
  <2>2. PICK r : r = [task[t] EXCEPT !.pc = pc]
    OBVIOUS
  <2>3. pc \in Places
    BY DEF Places
  <2>4. r \in Records /\ Sound(t, r)
    BY <1>1, <2>1, <2>2, <2>3, HeldRecord, MovedRecord
    DEF Diffs, Sound, Held, Answered, Based, Committed, Proven, Batched, Leased, Watched,
        Settled, Aside, Preparing, Labouring, Working, Ended
  <2> QED
    BY <1>1, <2>1, <2>2, <2>4, Goes DEF Diffs, Goto
<1>2. CASE LooksAtIndex(t)
  <2>1. PICK pc \in {"answer", "committing"} : Goto(t, pc)
    BY <1>2 DEF LooksAtIndex
  <2>2. PICK r : r = [task[t] EXCEPT !.pc = pc]
    OBVIOUS
  <2>3. pc \in Places
    BY DEF Places
  <2>4. r \in Records /\ Sound(t, r)
    BY <1>2, <2>1, <2>2, <2>3, HeldRecord, MovedRecord
    DEF LooksAtIndex, Sound, Held, Answered, Based, Committed, Proven, Batched, Leased, Watched,
        Settled, Aside, Preparing, Labouring, Working, Ended
  <2> QED
    BY <1>2, <2>1, <2>2, <2>4, Goes DEF LooksAtIndex, Goto
<1> QED
  BY <1>1, <1>2

LEMMA AcceptsStep ==
  ASSUME ConnectorInv, NEW t \in Tasks, Accepts(t)
  PROVE  ConnectorInv'
<1>1. CASE With(t, [task[t] EXCEPT !.pc = "add", !.repair = 0])
           /\ task[t].resp = "ok" /\ (Judged(t) => Accepted(t))
  <2>1. PICK r : r = [task[t] EXCEPT !.pc = "add", !.repair = 0]
    OBVIOUS
  <2>2. "add" \in Places /\ 0 \in Repairings
    BY ConnectorAssumption DEF Places, Repairings
  <2>3. /\ r \in Records
        /\ r.ask = task[t].ask /\ r.pc = "add"
        /\ r.stop = task[t].stop /\ r.hb = task[t].hb
        /\ r.queue = task[t].queue /\ r.batch = task[t].batch
        /\ r.child = task[t].child /\ r.resp = task[t].resp
        /\ r.attempt = task[t].attempt /\ r.ev = task[t].ev
        /\ r.changed = task[t].changed
    BY <2>1, <2>2, HeldRecord, ZenonT(60) DEF Records
  <2>4. Sound(t, r)
    BY <1>1, <2>2, <2>3, HeldRecord
    DEF Accepts, Judged, Accepted, Request, Sound, Held, Answered, Based,
        Committed, Proven, Batched, Leased, Watched, Settled, Aside, Preparing,
        Labouring, Working, Ended
  <2>5. With(t, r)
    BY <1>1, <2>1, Zenon DEF Accepts, Judged, Accepted, Request
  <2> QED
    BY <1>1, <2>3, <2>4, <2>5, Goes DEF Accepts
<1>2. CASE Rejects(t)
  BY <1>2, RejectedIsSound, Goes DEF Accepts, Labouring, Working
<1> QED
  BY <1>1, <1>2 DEF Accepts
------------------------------------------------------------------------------
(* The steps that change the project.                                      *)

(* One task at a time is past its start and not at its end, but for        *)
(* project requests.                                                       *)
LEMMA Alone ==
  ASSUME ConnectorInv, NEW t \in Tasks, NEW u \in Tasks,
         task[t].pc \notin Aside, task[u].pc \notin Aside
  PROVE  t = u
<1>1. t \in worker /\ u \in worker
  BY HeldRecord DEF Sound, Held, Aside, Ended
<1> QED
  BY <1>1 DEF ConnectorInv

LEMMA WithRecord ==
  ASSUME ConnectorInv, NEW t \in Tasks, NEW r \in Records, With(t, r)
  PROVE  /\ task' \in [Tasks -> Records] /\ task'[t] = r
         /\ \A u \in Tasks \ {t} : Same(u)
<1>1. task \in [Tasks -> Records]
  BY DEF ConnectorInv, Types
<1>2. task' \in [Tasks -> Records] /\ task'[t] = r /\ \A u \in Tasks \ {t} : task'[u] = task[u]
  BY <1>1 DEF With
<1> QED
  BY <1>2 DEF Same

LEMMA WritesRecord ==
  ASSUME ConnectorInv, NEW t \in Tasks, NEW r \in Records, Writes(t, r)
  PROVE  /\ task' \in [Tasks -> Records]
         /\ task'[t].ask = r.ask /\ task'[t].pc = r.pc /\ task'[t].stop = r.stop
         /\ task'[t].hb = r.hb /\ task'[t].queue = r.queue
         /\ task'[t].batch = r.batch /\ task'[t].child = r.child
         /\ task'[t].resp = r.resp /\ task'[t].ev = r.ev
         /\ task'[t].attempt = r.attempt
         /\ \A u \in Tasks \ {t} : Same(u)
<1>1. task \in [Tasks -> Records]
  BY DEF ConnectorInv, Types
<1>2. task' = [u \in Tasks |-> Touch(IF u = t THEN r ELSE task[u])]
  BY Zenon DEF Writes
<1>3. \A u \in Tasks : (IF u = t THEN r ELSE task[u]) \in Records
  BY <1>1
<1>4. \A u \in Tasks : Touch(IF u = t THEN r ELSE task[u]) \in Records
  BY <1>3, Touched
<1>5. task' \in [Tasks -> Records] /\ task'[t] = Touch(r)
  BY <1>2, <1>4
<1>6. ASSUME NEW u \in Tasks \ {t}
      PROVE  Same(u)
  <2>1. task'[u] = Touch(task[u])
    BY <1>2
  <2> QED
    BY <1>1, <2>1, Touched DEF Same
<1> QED
  BY <1>5, <1>6, Touched

(* The thread of t goes on and changes the project. *)
LEMMA GoesAndChanges ==
  ASSUME ConnectorInv, NEW t \in Tasks, Types', UNCHANGED <<pollVars, serverVars>>,
         Sound(t, task[t])', \A u \in Tasks \ {t} : Same(u) /\ Committed(u, task[u])',
         proj.commits => proj'.commits, proj'.marker => proj'.commits
  PROVE  ConnectorInv'
<1>1. ASSUME NEW u \in Tasks \ {t}
      PROVE  Sound(u, task[u])'
  <2>1. Sound(u, task[u]) /\ server'[u] = server[u] /\ told'[u] = told[u]
    BY DEF ConnectorInv, serverVars
  <2>2. task[u].pc \notin Ended /\ task[u].ask.kind # "operation" => u \in worker'
    BY <2>1 DEF Sound, Held, pollVars
  <2> QED
    BY <2>1, <2>2, Undisturbed
<1> QED
  BY <1>1 DEF ConnectorInv, pollVars

LEMMA HeldProject ==
  ASSUME ConnectorInv
  PROVE  proj \in Projects /\ TRUE \in BOOLEAN /\ (proj.marker => proj.commits)
BY DEF ConnectorInv, Types

(* A folder, a repository, a first commit: none of them takes another away. *)
Grows ==
    /\ proj' \in Projects
    /\ proj'.marker = proj.marker
    /\ proj'.commits = proj.commits \/ proj'.commits = TRUE

LEMMA ProjectGrows ==
  ASSUME ConnectorInv,
         \/ proj' = proj
         \/ proj' = [proj EXCEPT !.dir = TRUE]
         \/ proj' = [proj EXCEPT !.dir = TRUE, !.git = TRUE]
         \/ proj' = [proj EXCEPT !.dir = TRUE, !.git = TRUE, !.commits = TRUE]
         \/ proj' = [proj EXCEPT !.ignore = TRUE]
         \/ proj' = [proj EXCEPT !.git = TRUE]
         \/ proj' = [proj EXCEPT !.commits = TRUE]
  PROVE  Grows
<1>1. CASE proj' = proj
  BY <1>1, HeldProject, Zenon DEF Grows
<1>2. CASE proj' = [proj EXCEPT !.dir = TRUE]
  BY <1>2, HeldProject, Zenon DEF Grows, Projects
<1>3. CASE proj' = [proj EXCEPT !.dir = TRUE, !.git = TRUE]
  BY <1>3, HeldProject, Zenon DEF Grows, Projects
<1>4. CASE proj' = [proj EXCEPT !.dir = TRUE, !.git = TRUE, !.commits = TRUE]
  BY <1>4, HeldProject, Zenon DEF Grows, Projects
<1>5. CASE proj' = [proj EXCEPT !.ignore = TRUE]
  BY <1>5, HeldProject, Zenon DEF Grows, Projects
<1>6. CASE proj' = [proj EXCEPT !.git = TRUE]
  BY <1>6, HeldProject, Zenon DEF Grows, Projects
<1>7. CASE proj' = [proj EXCEPT !.commits = TRUE]
  BY <1>7, HeldProject, Zenon DEF Grows, Projects
<1> QED
  BY <1>1, <1>2, <1>3, <1>4, <1>5, <1>6, <1>7, Zenon

(* The thread of t goes on, the project grows, and what changed is at most *)
(* more: the index keeps what it holds.                                    *)
LEMMA GoesAndGrows ==
  ASSUME ConnectorInv, NEW t \in Tasks, task' \in [Tasks -> Records], Grows,
         UNCHANGED <<procVars, pollVars, serverVars>>,
         \/ UNCHANGED <<dirty, staged>>
         \/ dirty' \in {dirty \cup {t}, dirty \cup {"user"}} /\ staged' = staged
         \/ dirty' = dirty /\ staged' = dirty
         \/ dirty' = dirty \ staged /\ staged' = {},
         Sound(t, task[t])', \A u \in Tasks \ {t} : Same(u)
  PROVE  ConnectorInv'
<1>1. dirty' \subseteq Tasks \cup {"user"} /\ staged' \subseteq dirty'
  BY DEF ConnectorInv, Types
<1>2. Types'
  BY <1>1 DEF ConnectorInv, Types, Identified, Grows, procVars, pollVars, serverVars
<1>3. ASSUME NEW u \in Tasks \ {t}
      PROVE  Committed(u, task[u])'
  <2>1. Committed(u, task[u]) /\ Same(u) /\ u # "user"
    BY ConnectorAssumption DEF ConnectorInv, Sound
  <2>2. u \in dirty' => u \in dirty
    BY <2>1
  <2>3. u \in dirty' /\ u \in staged => u \in staged'
    BY DEF ConnectorInv, Types
  <2> QED
    BY <2>1, <2>2, <2>3 DEF Committed, Same, Grows, Settled
<1>4. (proj.commits => proj'.commits) /\ (proj'.marker => proj'.commits)
  BY DEF Grows, ConnectorInv
<1> QED
  BY <1>2, <1>3, <1>4, GoesAndChanges

LEMMA BeginsStep ==
  ASSUME ConnectorInv, NEW t \in Tasks, Begins(t)
  PROVE  ConnectorInv'
<1>1. ASSUME proj' = [proj EXCEPT !.dir = TRUE], NEW pc \in {"inspect", "announce"}, Goto(t, pc)
      PROVE  ConnectorInv'
  <2>1. PICK r : r = [task[t] EXCEPT !.pc = pc]
    OBVIOUS
  <2>2. pc \in Places
    BY DEF Places
  <2>3. r \in Records /\ Sound(t, r)
    BY <2>1, <2>2, HeldRecord, MovedRecord
    DEF Begins, Request, Sound, Held, Answered, Based, Committed, Proven, Batched, Leased,
        Watched, Settled, Aside, Preparing, Labouring, Working, Ended
  <2>4. task' \in [Tasks -> Records] /\ task'[t] = r /\ \A u \in Tasks \ {t} : Same(u)
    BY <1>1, <2>1, <2>3, WithRecord DEF Goto
  <2>5. Grows
    BY <1>1, ProjectGrows
  <2>6. Sound(t, task[t])'
    BY <2>2, <2>3, <2>4, <2>5
    DEF Begins, Grows, Sound, Held, Answered, Based, Committed, Proven, Batched, Leased, Watched,
        Settled, Aside, Preparing, Labouring, Working, Ended, pollVars, serverVars
  <2> QED
    BY <2>4, <2>5, <2>6, GoesAndGrows DEF Begins
<1>2. CASE Fails(t) /\ UNCHANGED proj
  BY <1>2, FailedIsSound, Goes DEF Begins, Live, Ended, projVars
<1> QED
  BY <1>1, <1>2 DEF Begins

LEMMA OperatesStep ==
  ASSUME ConnectorInv, NEW t \in Tasks, Operates(t)
  PROVE  ConnectorInv'
<1>1. CASE Fails(t) /\ UNCHANGED projVars
  BY <1>1, FailedIsSound, Goes DEF Operates, Live, Ended
<1>2. ASSUME ~(Fails(t) /\ UNCHANGED projVars), NEW pc \in {"answer", "indexed"},
             \/ With(t, [task[t] EXCEPT !.pc = pc])
             \/ Writes(t, [task[t] EXCEPT !.pc = pc])
      PROVE  ConnectorInv'
  <2>1. PICK r : r = [task[t] EXCEPT !.pc = pc]
    OBVIOUS
  <2>2. pc \in Places
    BY DEF Places
  <2>3. r \in Records /\ r.pc = pc /\ Sound(t, r)
    BY <2>1, <2>2, HeldRecord, MovedRecord
    DEF Operates, Request, Sound, Held, Answered, Based, Committed, Proven, Batched, Leased,
        Watched, Settled, Aside, Preparing, Labouring, Working, Ended
  <2>4. With(t, r) \/ Writes(t, r)
    BY <1>2, <2>1
  <2>5. /\ task' \in [Tasks -> Records]
        /\ task'[t].ask = r.ask /\ task'[t].pc = r.pc /\ task'[t].stop = r.stop
        /\ task'[t].hb = r.hb /\ task'[t].queue = r.queue
        /\ task'[t].batch = r.batch /\ task'[t].child = r.child
        /\ \A u \in Tasks \ {t} : Same(u)
    BY <2>3, <2>4, WithRecord, WritesRecord
  <2>6. /\ \/ proj' = proj
           \/ proj' = [proj EXCEPT !.dir = TRUE]
           \/ proj' = [proj EXCEPT !.dir = TRUE, !.git = TRUE]
           \/ proj' = [proj EXCEPT !.dir = TRUE, !.git = TRUE, !.commits = TRUE]
        /\ \/ UNCHANGED <<dirty, staged>>
           \/ dirty' = dirty \cup {"user"} /\ staged' = staged
           \/ dirty' = dirty /\ staged' = dirty
    BY <1>2 DEF Operates, ReadsProject, WritesFiles, InitsGit, ClonesGit, AddsAll, projVars
  <2>7. Grows
    BY <2>6, ProjectGrows, Zenon
  <2>8. Sound(t, task[t])'
    BY <2>3, <2>5
    DEF Operates, Sound, Held, Answered, Based, Committed, Proven, Batched, Leased, Watched,
        Settled, Aside, Preparing, Labouring, Working, Ended, pollVars, serverVars
  <2> QED
    BY <2>5, <2>6, <2>7, <2>8, GoesAndGrows DEF Operates
<1>3. CASE ~(Fails(t) /\ UNCHANGED projVars)
  <2>1. \/ With(t, [task[t] EXCEPT !.pc = "answer"])
        \/ Writes(t, [task[t] EXCEPT !.pc = "answer"])
        \/ With(t, [task[t] EXCEPT !.pc = "indexed"])
    BY <1>3 DEF Operates, ReadsProject, WritesFiles, InitsGit, ClonesGit, AddsAll, Goto
  <2> QED
    BY <1>2, <1>3, <2>1
<1> QED
  BY <1>1, <1>3

(* git commit of whatever the index holds: what was in it is committed. *)
LEMMA TakesIndexGrows ==
  ASSUME ConnectorInv, TakesIndex
  PROVE  Grows /\ dirty' = dirty \ staged /\ staged' = {}
BY ProjectGrows DEF TakesIndex

LEMMA CommitsAllStep ==
  ASSUME ConnectorInv, NEW t \in Tasks, CommitsAll(t)
  PROVE  ConnectorInv'
<1>1. CASE Fails(t) /\ UNCHANGED projVars
  BY <1>1, FailedIsSound, Goes DEF CommitsAll, Live, Ended
<1>2. CASE TakesIndex /\ Goto(t, "answer")
  <2>1. PICK r : r = [task[t] EXCEPT !.pc = "answer"]
    OBVIOUS
  <2>2. "answer" \in Places
    BY DEF Places
  <2>3. r \in Records /\ r.pc = "answer" /\ Sound(t, r)
    BY <2>1, <2>2, HeldRecord, MovedRecord
    DEF CommitsAll, Sound, Held, Answered, Based, Committed, Proven, Batched, Leased,
        Watched, Settled, Aside, Preparing, Labouring, Working, Ended
  <2>4. task' \in [Tasks -> Records] /\ task'[t] = r /\ \A u \in Tasks \ {t} : Same(u)
    BY <1>2, <2>1, <2>3, WithRecord DEF Goto
  <2>5. Grows /\ dirty' = dirty \ staged /\ staged' = {}
    BY <1>2, TakesIndexGrows
  <2>6. Sound(t, task[t])'
    BY <2>3, <2>4
    DEF CommitsAll, Sound, Held, Answered, Based, Committed, Proven, Batched, Leased, Watched,
        Settled, Preparing, Labouring, Working, pollVars, serverVars
  <2> QED
    BY <2>4, <2>5, <2>6, GoesAndGrows DEF CommitsAll
<1> QED
  BY <1>1, <1>2 DEF CommitsAll

LEMMA InitializesStep ==
  ASSUME ConnectorInv, NEW t \in Tasks, Initializes(t)
  PROVE  ConnectorInv'
<1>1. CASE Fails(t) /\ UNCHANGED proj
  BY <1>1, FailedIsSound, Goes DEF Initializes, Live, Ended, projVars
<1>2. ASSUME NEW pc \in {"init", "baseline", "mark", "created"}, Goto(t, pc),
             \/ pc = "init" /\ proj' = [proj EXCEPT !.ignore = TRUE]
             \/ pc = "baseline" /\ proj' = [proj EXCEPT !.git = TRUE]
             \/ pc = "mark" /\ proj' = [proj EXCEPT !.commits = TRUE]
             \/ /\ pc = "created" /\ task[t].pc = "mark"
                /\ proj' = [proj EXCEPT !.marker = TRUE]
      PROVE  ConnectorInv'
  <2>1. PICK r : r = [task[t] EXCEPT !.pc = pc]
    OBVIOUS
  <2>2. pc \in Places
    BY DEF Places
  <2>3. /\ r \in Records /\ r.pc = pc /\ Held(t, r) /\ Answered(t, r)
        /\ Batched(r) /\ Leased(t, r) /\ Watched(r)
    BY <2>1, <2>2, HeldRecord, MovedRecord
    DEF Initializes, Sound, Held, Answered, Batched, Leased, Watched,
        Aside, Preparing, Labouring, Working, Ended
  <2>4. task' \in [Tasks -> Records] /\ task'[t] = r /\ \A u \in Tasks \ {t} : Same(u)
    BY <1>2, <2>1, <2>3, WithRecord DEF Goto
  <2>5. pc = "mark" => proj'.commits
    <3>1. pc = "mark" => proj' = [proj EXCEPT !.commits = TRUE]
      BY <1>2
    <3> QED
      BY <3>1, HeldProject, Zenon DEF Projects
  <2>6. Sound(t, task[t])'
    BY <2>2, <2>3, <2>4, <2>5
    DEF Initializes, Sound, Held, Answered, Based, Committed, Proven, Batched, Leased, Watched,
        Settled, Aside, Preparing, Labouring, Working, Ended, pollVars, serverVars
  <2>7. CASE pc # "created"
    <3>1. Grows
      BY <1>2, <2>7, ProjectGrows
    <3> QED
      BY <2>4, <2>6, <3>1, GoesAndGrows DEF Initializes
  <2>8. CASE pc = "created"
    <3>1. task[t].pc = "mark" /\ proj' = [proj EXCEPT !.marker = TRUE] /\ proj.commits
      BY <1>2, <2>8, HeldRecord DEF Sound, Based
    <3>2. proj' \in Projects /\ proj'.commits = proj.commits
      BY <3>1, HeldProject, Zenon DEF Projects
    <3>3. Types'
      BY <2>4, <3>2 DEF Initializes, ConnectorInv, Types, Identified, procVars, pollVars, serverVars
    <3>4. ASSUME NEW u \in Tasks \ {t}
          PROVE  Committed(u, task[u])'
      <4>1. task[u].pc \in Aside
        BY <3>1, Alone DEF Aside
      <4> QED
        BY <2>4, <4>1 DEF Committed, Same, Aside, Settled
    <3> QED
      BY <2>4, <2>6, <3>1, <3>2, <3>3, <3>4, GoesAndChanges DEF Initializes
  <2> QED
    BY <2>7, <2>8
<1>3. CASE ~(Fails(t) /\ UNCHANGED proj)
  <2>1. /\ proj' = InitializeStep(task[t].pc)[1]
        /\ Goto(t, InitializeStep(task[t].pc)[2])
        /\ task[t].pc \in {"ignore", "init", "baseline", "mark"}
    BY <1>3 DEF Initializes
  <2>2. CASE task[t].pc = "ignore"
    BY <1>2, <2>1, <2>2 DEF InitializeStep
  <2>3. CASE task[t].pc = "init"
    BY <1>2, <2>1, <2>3 DEF InitializeStep
  <2>4. CASE task[t].pc = "baseline"
    BY <1>2, <2>1, <2>4 DEF InitializeStep
  <2>5. CASE task[t].pc = "mark"
    BY <1>2, <2>1, <2>5 DEF InitializeStep
  <2> QED
    BY <2>1, <2>2, <2>3, <2>4, <2>5
<1> QED
  BY <1>1, <1>3

LEMMA ChatsStep ==
  ASSUME ConnectorInv, NEW t \in Tasks, Chats(t)
  PROVE  ConnectorInv'
<1>1. CASE Fails(t) /\ UNCHANGED dirty
  BY <1>1, FailedIsSound, Goes DEF Chats, Live, Ended, projVars
<1>2. CASE Goto(t, "rechat") /\ task[t].pc = "chat" /\ UNCHANGED dirty
  <2>1. PICK r : r = [task[t] EXCEPT !.pc = "rechat"]
    OBVIOUS
  <2>2. "rechat" \in Places
    BY DEF Places
  <2>3. r \in Records /\ Sound(t, r)
    BY <1>2, <2>1, <2>2, HeldRecord, MovedRecord
    DEF Sound, Held, Answered, Based, Committed, Proven, Batched, Leased,
        Watched, Settled, Aside, Preparing, Labouring, Working, Ended
  <2> QED
    BY <1>2, <2>1, <2>3, Goes DEF Chats, Goto, projVars
<1>3. ASSUME NEW resp \in {"ok", "err"},
             \/ /\ With(t, [task[t] EXCEPT !.pc = "accept", !.resp = resp])
                /\ UNCHANGED dirty
             \/ /\ Writes(t, [task[t] EXCEPT !.pc = "accept", !.resp = resp])
                /\ dirty' = dirty \cup {t}
      PROVE  ConnectorInv'
  <2>1. PICK r : r = [task[t] EXCEPT !.pc = "accept", !.resp = resp]
    OBVIOUS
  <2>2. "accept" \in Places /\ resp \in {"none", "ok", "err"}
    BY DEF Places
  <2>3. /\ r \in Records
        /\ r.ask = task[t].ask /\ r.pc = "accept" /\ r.stop = task[t].stop
        /\ r.hb = task[t].hb /\ r.queue = task[t].queue
        /\ r.batch = task[t].batch /\ r.child = task[t].child
    BY <2>1, <2>2, HeldRecord, ZenonT(60) DEF Records
  <2>4. Sound(t, r)
    BY <2>3, HeldRecord
    DEF Chats, Sound, Held, Answered, Based, Committed, Proven, Batched, Leased,
        Watched, Settled, Aside, Preparing, Labouring, Working, Ended
  <2>5. \/ With(t, r) /\ UNCHANGED dirty
        \/ Writes(t, r) /\ dirty' = dirty \cup {t}
    BY <1>3, <2>1
  <2> HIDE <1>3
  <2>6. /\ task' \in [Tasks -> Records]
        /\ task'[t].ask = r.ask /\ task'[t].pc = r.pc /\ task'[t].stop = r.stop
        /\ task'[t].hb = r.hb /\ task'[t].queue = r.queue
        /\ task'[t].batch = r.batch /\ task'[t].child = r.child
        /\ \A u \in Tasks \ {t} : Same(u)
    BY <2>3, <2>5, WithRecord, WritesRecord
  <2>7. Grows
    BY ProjectGrows DEF Chats
  <2>8. Sound(t, task[t])'
    BY <2>3, <2>4, <2>6
    DEF Chats, Sound, Held, Answered, Based, Committed, Proven, Batched, Leased, Watched,
        Settled, Aside, Preparing, Labouring, Working, Ended, pollVars, serverVars
  <2> QED
    BY <2>5, <2>6, <2>7, <2>8, GoesAndGrows DEF Chats
<1> QED
  BY <1>1, <1>2, <1>3, Zenon DEF Chats

(* A thread that labours goes on while it changes files, or what the index *)
(* holds.                                                                  *)
LEMMA LaboursAndGrows ==
  ASSUME ConnectorInv, NEW t \in Tasks, NEW r \in Records,
         task[t].pc \in Labouring, r.pc \in Labouring, r.pc # "delay",
         r.ask = task[t].ask, r.stop = task[t].stop, r.hb = task[t].hb,
         r.batch = task[t].batch,
         With(t, r) \/ Writes(t, r), Grows, UNCHANGED <<procVars, pollVars, serverVars>>,
         \/ UNCHANGED <<dirty, staged>>
         \/ dirty' \in {dirty \cup {t}, dirty \cup {"user"}} /\ staged' = staged
         \/ dirty' = dirty /\ staged' = dirty
         \/ dirty' = dirty \ staged /\ staged' = {}
  PROVE  ConnectorInv'
<1>1. Sound(t, r)
  BY Labours
<1>2. /\ task' \in [Tasks -> Records]
      /\ task'[t].ask = r.ask /\ task'[t].pc = r.pc /\ task'[t].stop = r.stop
      /\ task'[t].hb = r.hb /\ task'[t].queue = r.queue /\ task'[t].batch = r.batch
      /\ \A u \in Tasks \ {t} : Same(u)
  BY WithRecord, WritesRecord
<1>3. Sound(t, task[t])'
  BY <1>1, <1>2
  DEF Sound, Held, Answered, Based, Committed, Proven, Batched, Leased, Watched,
      Settled, Preparing, Labouring, Working, pollVars, serverVars
<1> QED
  BY <1>2, <1>3, GoesAndGrows

LEMMA HermesWorksStep ==
  ASSUME ConnectorInv, NEW t \in Tasks, HermesWorks(t)
  PROVE  ConnectorInv'
<1>1. Grows /\ task[t].pc = "monitor" /\ "monitor" \in Labouring
  BY ProjectGrows DEF HermesWorks, Structured, Labouring
<1>2. ASSUME NEW c \in {"model", "tool"}, task[t].queue < MaxEvents,
             \/ /\ With(t, [task[t] EXCEPT !.child = c, !.queue = @ + 1])
                /\ UNCHANGED dirty
             \/ /\ Writes(t, [task[t] EXCEPT !.child = c, !.queue = @ + 1])
                /\ dirty' = dirty \cup {t}
      PROVE  ConnectorInv'
  <2>1. PICK r : r = [task[t] EXCEPT !.child = c, !.queue = @ + 1]
    OBVIOUS
  <2>2. /\ c \in {"none", "model", "tool", "plain", "swarm", "deaf"}
        /\ task[t].queue + 1 \in Queues
    BY <1>2, HeldRecord, ConnectorAssumption DEF Records, Queues
  <2>3. /\ r \in Records
        /\ r.ask = task[t].ask /\ r.pc = task[t].pc /\ r.stop = task[t].stop
        /\ r.hb = task[t].hb /\ r.batch = task[t].batch
    BY <2>1, <2>2, HeldRecord, ZenonT(60) DEF Records
  <2>4. (With(t, r) /\ UNCHANGED dirty) \/ (Writes(t, r) /\ dirty' = dirty \cup {t})
    BY <1>2, <2>1, Zenon
  <2> QED
    BY <1>1, <2>3, <2>4, LaboursAndGrows DEF HermesWorks
<1>3. CASE dirty' = dirty \cup {t} /\ Writes(t, task[t])
  BY <1>1, <1>3, HeldRecord, LaboursAndGrows DEF HermesWorks
<1> QED
  BY <1>2, <1>3, Zenon DEF HermesWorks

LEMMA CheckpointsStep ==
  ASSUME ConnectorInv, NEW t \in Tasks, Checkpoints(t) \/ Checkpointed(t)
  PROVE  ConnectorInv'
<1>1. /\ task[t].pc \in Labouring /\ UNCHANGED <<procVars, pollVars, serverVars>>
      /\ Grows
      /\ \/ UNCHANGED <<dirty, staged>>
         \/ dirty' = dirty /\ staged' = dirty
         \/ dirty' = dirty \ staged /\ staged' = {}
  BY ProjectGrows, TakesIndexGrows DEF Checkpoints, Checkpointed, Labouring, projVars
<1>2. ASSUME NEW pc \in {"checkpoint", "hermes"}, Goto(t, pc)
      PROVE  ConnectorInv'
  <2>1. PICK r : r = [task[t] EXCEPT !.pc = pc]
    OBVIOUS
  <2>2. pc \in Places
    BY DEF Places
  <2>3. /\ r \in Records /\ r.pc = pc
        /\ r.ask = task[t].ask /\ r.stop = task[t].stop /\ r.hb = task[t].hb
        /\ r.batch = task[t].batch
    BY <2>1, <2>2, HeldRecord, MovedRecord
  <2> QED
    BY <1>1, <1>2, <2>1, <2>3, LaboursAndGrows DEF Goto, Labouring
<1>3. CASE With(t, [task[t] EXCEPT !.pc = "swarming", !.child = "swarm"])
  <2>1. PICK r : r = [task[t] EXCEPT !.pc = "swarming", !.child = "swarm"]
    OBVIOUS
  <2>2. "swarming" \in Places
    BY DEF Places
  <2>3. /\ r \in Records /\ r.pc = "swarming"
        /\ r.ask = task[t].ask /\ r.stop = task[t].stop /\ r.hb = task[t].hb
        /\ r.batch = task[t].batch
    BY <2>1, <2>2, HeldRecord, ZenonT(60) DEF Records
  <2> QED
    BY <1>1, <1>3, <2>1, <2>3, LaboursAndGrows DEF Labouring
<1> QED
  BY <1>2, <1>3, Zenon DEF Checkpoints, Checkpointed

LEMMA SwarmWaitsStep ==
  ASSUME ConnectorInv, NEW t \in Tasks, SwarmWaits(t)
  PROVE  ConnectorInv'
<1> DEFINE c == IF task[t].child = "swarm" THEN "deaf" ELSE "swarm"
<1>1. PICK r : r = [task[t] EXCEPT !.child = c]
  OBVIOUS
<1>2. With(t, r)
  BY <1>1, Zenon DEF SwarmWaits
<1>3. c \in {"none", "model", "tool", "plain", "swarm", "deaf"}
  OBVIOUS
<1> HIDE DEF c
<1>4. /\ r \in Records /\ r.pc = task[t].pc
      /\ r.ask = task[t].ask /\ r.stop = task[t].stop /\ r.hb = task[t].hb
      /\ r.batch = task[t].batch
  BY <1>1, <1>3, HeldRecord, ZenonT(60) DEF Records
<1>5. Sound(t, r)
  BY <1>4, Labours DEF SwarmWaits, Labouring
<1> QED
  BY <1>2, <1>4, <1>5, Goes DEF SwarmWaits

LEMMA SwarmEndsStep ==
  ASSUME ConnectorInv, NEW t \in Tasks, SwarmEnds(t)
  PROVE  ConnectorInv'
<1>0. task[t].pc = "swarming" /\ UNCHANGED <<procVars, pollVars, serverVars, projVars>>
  BY Zenon DEF SwarmEnds
<1>1. /\ task[t].pc = "swarming" /\ UNCHANGED <<procVars, pollVars, serverVars>>
      /\ Grows /\ UNCHANGED <<dirty, staged>>
  BY <1>0, ProjectGrows DEF projVars
<1>2. ASSUME NEW r \in Records, r.pc \in {"accept", "hermes"},
             r.ask = task[t].ask, r.stop = task[t].stop, r.hb = task[t].hb,
             r.batch = task[t].batch, Writes(t, r) \/ With(t, r)
      PROVE  ConnectorInv'
  BY <1>1, <1>2, LaboursAndGrows DEF Labouring
<1>3. ASSUME NEW ev \in SUBSET Request(t).checks, NEW r,
             r = [task[t] EXCEPT !.pc = "accept", !.child = "none", !.resp = "ok",
                                 !.ev = {"tools", "verification"} \cup ev]
      PROVE  /\ r \in Records /\ r.pc \in {"accept", "hermes"}
             /\ r.ask = task[t].ask /\ r.stop = task[t].stop /\ r.hb = task[t].hb
             /\ r.batch = task[t].batch
  <2> DEFINE all == {"tools", "verification"} \cup ev
  <2>1. "accept" \in Places /\ all \in Evidence
    BY HeldRecord DEF Places, Evidence, Checks, Request, Records, Requests
  <2>2. r = [task[t] EXCEPT !.pc = "accept", !.child = "none", !.resp = "ok", !.ev = all]
    BY <1>3
  <2> HIDE DEF all
  <2>3. /\ r \in Records /\ r.pc = "accept"
        /\ r.ask = task[t].ask /\ r.stop = task[t].stop /\ r.hb = task[t].hb
        /\ r.batch = task[t].batch
    BY <2>1, <2>2, HeldRecord, ZenonT(60) DEF Records
  <2> QED
    BY <2>3
<1>4. ASSUME NEW r, r = [task[t] EXCEPT !.pc = "hermes", !.child = "none"]
      PROVE  /\ r \in Records /\ r.pc \in {"accept", "hermes"}
             /\ r.ask = task[t].ask /\ r.stop = task[t].stop /\ r.hb = task[t].hb
             /\ r.batch = task[t].batch
  <2>1. "hermes" \in Places
    BY DEF Places
  <2>2. /\ r \in Records /\ r.pc = "hermes"
        /\ r.ask = task[t].ask /\ r.stop = task[t].stop /\ r.hb = task[t].hb
        /\ r.batch = task[t].batch
    BY <1>4, <2>1, HeldRecord, ZenonT(60) DEF Records
  <2> QED
    BY <2>2
<1>5. PICK r : /\ \/ \E ev \in SUBSET Request(t).checks :
                        r = [task[t] EXCEPT !.pc = "accept", !.child = "none", !.resp = "ok",
                                            !.ev = {"tools", "verification"} \cup ev]
                  \/ r = [task[t] EXCEPT !.pc = "hermes", !.child = "none"]
               /\ Writes(t, r) \/ With(t, r)
  BY Zenon DEF SwarmEnds
<1> QED
  BY <1>2, <1>3, <1>4, <1>5, Zenon

LEMMA AddsStep ==
  ASSUME ConnectorInv, NEW t \in Tasks, Adds(t)
  PROVE  ConnectorInv'
<1>1. CASE Rejects(t) /\ UNCHANGED staged
  BY <1>1, RejectedIsSound, Goes DEF Adds, Labouring, Working, projVars
<1>2. ASSUME NEW pc \in {"drain", "diff"}, Goto(t, pc),
             \/ pc = "drain" /\ ~proj.marker /\ UNCHANGED staged
             \/ pc = "diff" /\ staged' = dirty
      PROVE  ConnectorInv'
  <2>1. PICK r : r = [task[t] EXCEPT !.pc = pc]
    OBVIOUS
  <2>2. pc \in Places
    BY DEF Places
  <2>3. /\ r \in Records /\ r.pc = pc /\ Held(t, r) /\ Answered(t, r) /\ Based(r)
        /\ Proven(r) /\ Batched(r) /\ Leased(t, r) /\ Watched(r)
    BY <2>1, <2>2, HeldRecord, MovedRecord
    DEF Adds, Sound, Held, Answered, Based, Proven, Batched, Leased, Watched,
        Settled, Aside, Preparing, Labouring, Working, Ended
  <2>4. task' \in [Tasks -> Records] /\ task'[t] = r /\ \A u \in Tasks \ {t} : Same(u)
    BY <1>2, <2>1, <2>3, WithRecord DEF Goto
  <2>5. Grows
    BY ProjectGrows DEF Adds
  <2>6. Committed(t, task[t])'
    BY <1>2, <2>3, <2>4 DEF Adds, Committed, Settled
  <2>7. Sound(t, task[t])'
    BY <2>3, <2>4, <2>6
    DEF Adds, Sound, Held, Answered, Based, Proven, Batched, Leased, Watched,
        Settled, Aside, Preparing, Labouring, Working, Ended, pollVars, serverVars
  <2> QED
    BY <1>2, <2>4, <2>5, <2>7, GoesAndGrows DEF Adds
<1> QED
  BY <1>1, <1>2 DEF Adds

LEMMA CommitsStep ==
  ASSUME ConnectorInv, NEW t \in Tasks, Commits(t)
  PROVE  ConnectorInv'
<1>1. CASE Rejects(t) /\ UNCHANGED projVars
  BY <1>1, RejectedIsSound, Goes DEF Commits, Labouring, Working
<1>2. CASE TakesIndex /\ Goto(t, "drain")
  <2>1. PICK r : r = [task[t] EXCEPT !.pc = "drain"]
    OBVIOUS
  <2>2. "drain" \in Places
    BY DEF Places
  <2>3. Grows /\ dirty' = dirty \ staged /\ staged' = {}
    BY <1>2, TakesIndexGrows
  <2>4. t \notin dirty'
    BY <2>3, HeldRecord DEF Commits, Sound, Committed
  <2>5. /\ r \in Records /\ r.pc = "drain" /\ Held(t, r) /\ Answered(t, r) /\ Based(r)
        /\ Proven(r) /\ Batched(r) /\ Leased(t, r) /\ Watched(r)
    BY <2>1, <2>2, HeldRecord, MovedRecord
    DEF Commits, Sound, Held, Answered, Based, Proven, Batched, Leased, Watched,
        Settled, Aside, Preparing, Labouring, Working, Ended
  <2>6. task' \in [Tasks -> Records] /\ task'[t] = r /\ \A u \in Tasks \ {t} : Same(u)
    BY <1>2, <2>1, <2>5, WithRecord DEF Goto
  <2>7. Sound(t, task[t])'
    BY <2>4, <2>5, <2>6
    DEF Commits, Sound, Held, Answered, Based, Committed, Proven, Batched, Leased, Watched,
        pollVars, serverVars
  <2> QED
    BY <2>3, <2>6, <2>7, GoesAndGrows DEF Commits
<1> QED
  BY <1>1, <1>2 DEF Commits
------------------------------------------------------------------------------
(* The reports.                                                            *)

Tellings == {"none", "unanswered", "answered"}

LEMMA HeardIsTold ==
  ASSUME ConnectorInv, NEW t \in Tasks, told[t] # "answered",
         NEW verdict \in {"completed", "failed"}, NEW o \in Outcomes
  PROVE  /\ Heard(t, verdict, o) \in Tellings
         /\ Heard(t, verdict, o) = "answered" => verdict = "completed" /\ o = "ok"
<1>1. told[t] \in Tellings
  BY DEF ConnectorInv, Types, Tellings
<1>2. CASE verdict = "completed" /\ o = "ok"
  BY <1>2 DEF Heard, Tellings
<1>3. CASE verdict = "completed" /\ o = "lost"
  BY <1>3 DEF Heard, Tellings
<1>4. CASE ~(verdict = "completed" /\ o \in {"ok", "lost"})
  BY <1>1, <1>4 DEF Heard, Tellings
<1> QED
  BY <1>2, <1>3, <1>4

(* t reports and goes on as r. *)
LEMMA GoesAndReports ==
  ASSUME ConnectorInv, NEW t \in Tasks, NEW r \in Records, With(t, r),
         NEW v \in Tellings, told' = [told EXCEPT ![t] = v],
         v = "answered" => r.pc \in {"join", "done"},
         server[t] = "queued" => r.pc \in {"none", "lost"},
         Held(t, r), r.pc \notin Preparing \cup Working \cup {"flush", "report"},
         Committed(t, r), Proven(r), Batched(r), Watched(r),
         UNCHANGED <<file, worker, server, projVars>>, proc' \in {proc, "poll"},
         inline' \subseteq inline
  PROVE  ConnectorInv'
<1>1. task' \in [Tasks -> Records] /\ task'[t] = r /\ \A u \in Tasks \ {t} : Same(u)
  BY WithRecord
<1>2. /\ told' \in [Tasks -> Tellings] /\ told'[t] = v
      /\ \A u \in Tasks \ {t} : told'[u] = told[u]
  BY DEF ConnectorInv, Types, Tellings
<1>3. Types'
  BY <1>1, <1>2 DEF ConnectorInv, Types, Identified, Tellings, projVars
<1>4. Sound(t, task[t])'
  BY <1>1, <1>2
  DEF Sound, Held, Answered, Based, Committed, Proven, Batched, Leased, Watched,
      Settled, Preparing, projVars
<1>5. ASSUME NEW u \in Tasks \ {t}
      PROVE  Sound(u, task[u])'
  <2>1. Sound(u, task[u]) /\ Same(u) /\ server'[u] = server[u] /\ told'[u] = told[u]
    BY <1>1, <1>2 DEF ConnectorInv
  <2>2. Committed(u, task[u])'
    BY <2>1 DEF Sound, Committed, Same, projVars, Settled
  <2>3. task[u].pc \notin Ended /\ task[u].ask.kind # "operation" => u \in worker'
    BY <2>1 DEF Sound, Held
  <2>4. proj.commits => proj'.commits
    BY DEF projVars
  <2> QED
    BY <2>1, <2>2, <2>3, <2>4, Undisturbed
<1> QED
  BY <1>3, <1>4, <1>5 DEF ConnectorInv, projVars

(* A thread that has nothing more to do is over, whoever waited for it. *)
LEMMA OverStep ==
  ASSUME ConnectorInv, NEW t \in Tasks, task[t].pc \in {"answer", "again"},
         NEW verdict \in {"completed", "failed"}, NEW o \in Outcomes, Over(t, verdict, o),
         UNCHANGED <<mode, deaths, file, server, projVars>>
  PROVE  ConnectorInv'
<1>1. CASE t \in inline
  <2>1. With(t, Idle) /\ told' = [told EXCEPT ![t] = "none"]
    BY <1>1 DEF Over
  <2>2. Idle \in Records /\ Idle.pc = "none" /\ Idle.child = "none" /\ Idle.batch = "none"
    BY StartsBlank
  <2>3. Idle.ask.kind = "native"
    BY StartsBlank DEF NoRequest
  <2>4. Held(t, Idle) /\ Committed(t, Idle) /\ Proven(Idle) /\ Batched(Idle) /\ Watched(Idle)
    BY <2>2, <2>3 DEF Held, Committed, Proven, Batched, Watched, Settled, Labouring, Working, Ended
  <2>5. "none" \in Tellings /\ Idle.pc \notin Preparing \cup Working \cup {"flush", "report"}
    BY <2>2 DEF Tellings, Preparing, Labouring, Working
  <2>6. worker' = worker /\ inline' = {} /\ proc' = "poll"
    BY <1>1 DEF Over, NoTask
  <2> HIDE DEF Idle
  <2> QED
    BY <2>1, <2>2, <2>4, <2>5, <2>6, GoesAndReports
<1>2. CASE t \notin inline
  <2>1. PICK r : r = [task[t] EXCEPT !.pc = "done"]
    OBVIOUS
  <2>2. "done" \in Places
    BY DEF Places
  <2>3. /\ r \in Records /\ r.pc = "done" /\ Held(t, r) /\ Committed(t, r) /\ Proven(r)
        /\ Batched(r) /\ Watched(r) /\ told[t] # "answered" /\ server[t] # "queued"
    BY <2>1, <2>2, HeldRecord, MovedRecord
    DEF Sound, Held, Answered, Committed, Proven, Batched, Watched,
        Settled, Aside, Labouring, Working, Ended
  <2>4. r.pc \notin Preparing \cup Working \cup {"flush", "report"}
    BY <2>3 DEF Preparing, Labouring, Working
  <2>5. PICK v \in Tellings : v = Heard(t, verdict, o)
    BY <2>3, HeardIsTold
  <2>6. /\ With(t, r) /\ told' = [told EXCEPT ![t] = v]
        /\ worker' = worker /\ inline' = inline /\ proc' = proc
    BY <1>2, <2>1, <2>5 DEF Over, Goto, Hears, pollVars
  <2> QED
    BY <2>3, <2>4, <2>5, <2>6, GoesAndReports
<1> QED
  BY <1>1, <1>2

LEMMA AnswersStep ==
  ASSUME ConnectorInv, NEW t \in Tasks, Answers(t) \/ ReportsAgain(t)
  PROVE  ConnectorInv'
<1>1. CASE ReportsAgain(t)
  BY <1>1, OverStep DEF ReportsAgain
<1>2. CASE Answers(t) /\ Over(t, "completed", "ok")
  <2>1. "ok" \in Outcomes
    BY DEF Outcomes
  <2> QED
    BY <1>2, <2>1, OverStep DEF Answers
<1>3. ASSUME Answers(t), NEW o \in Outcomes, o # "ok", Fails(t), Hears(t, "completed", o),
             UNCHANGED <<proc, pollVars>>
      PROVE  ConnectorInv'
  <2>1. task[t].pc = "answer" /\ UNCHANGED <<mode, deaths, file, server, projVars>>
    BY <1>3 DEF Answers
  <2>2. PICK r \in Records : With(t, r) /\ Sound(t, r) /\ r.pc \in {"again", "unwind"}
    BY <1>3, <2>1, FailedIsSound DEF Live, Ended
  <2>3. told[t] # "answered" /\ server[t] # "queued"
    BY <2>1, HeldRecord DEF Sound, Answered
  <2>4. PICK v \in Tellings : v = Heard(t, "completed", o) /\ v # "answered"
    BY <1>3, <2>3, HeardIsTold
  <2>5. told' = [told EXCEPT ![t] = v]
    BY <1>3, <2>4 DEF Hears
  <2>6. r.pc \notin Preparing \cup Working \cup {"flush", "report"}
    BY <2>2 DEF Preparing, Labouring, Working
  <2> QED
    BY <1>3, <2>1, <2>2, <2>3, <2>4, <2>5, <2>6, GoesAndReports DEF Sound, pollVars
<1> QED
  BY <1>1, <1>2, <1>3 DEF Answers

LEMMA ReportsStep ==
  ASSUME ConnectorInv, NEW t \in Tasks, Reports(t)
  PROVE  ConnectorInv'
<1>1. /\ task[t].pc = "report" /\ told[t] # "answered" /\ server[t] # "queued"
      /\ Verdict(t) \in {"completed", "failed"}
      /\ UNCHANGED <<procVars, pollVars, server, projVars>>
  BY HeldRecord DEF Reports, Verdict, Sound, Answered
<1>2. ASSUME NEW o \in Outcomes
      PROVE  /\ Heard(t, Verdict(t), o) \in Tellings
             /\ Heard(t, Verdict(t), o) = "answered" => o = "ok"
  BY <1>1, HeardIsTold
<1>3. CASE Hears(t, Verdict(t), "ok") /\ With(t, [task[t] EXCEPT !.pc = "join", !.stop = TRUE])
  <2>1. PICK r : r = [task[t] EXCEPT !.pc = "join", !.stop = TRUE]
    OBVIOUS
  <2>2. "join" \in Places /\ TRUE \in BOOLEAN
    BY DEF Places
  <2>3. /\ r \in Records
        /\ r.ask = task[t].ask /\ r.pc = "join" /\ r.queue = task[t].queue
        /\ r.batch = task[t].batch /\ r.child = task[t].child /\ r.resp = task[t].resp
        /\ r.ev = task[t].ev /\ r.changed = task[t].changed
    BY <2>1, <2>2, HeldRecord, ZenonT(60) DEF Records
  <2>4. /\ Held(t, r) /\ Committed(t, r) /\ Proven(r) /\ Batched(r) /\ Watched(r)
        /\ r.pc \notin Preparing \cup Working \cup {"flush", "report"}
    BY <1>1, <2>3, HeldRecord
    DEF Sound, Held, Committed, Proven, Batched, Watched, Settled, Aside, Preparing,
        Labouring, Working, Ended
  <2>5. PICK v \in Tellings : v = Heard(t, Verdict(t), "ok")
    BY <1>2 DEF Outcomes
  <2>6. With(t, r) /\ told' = [told EXCEPT ![t] = v]
    BY <1>3, <2>1, <2>5 DEF Hears
  <2> QED
    BY <1>1, <2>3, <2>4, <2>6, GoesAndReports DEF procVars, pollVars
<1>4. ASSUME NEW o \in Outcomes, o # "ok", Hears(t, Verdict(t), o),
             With(t, [Blank(t) EXCEPT !.pc = "unwind", !.stop = TRUE, !.hb = task[t].hb])
      PROVE  ConnectorInv'
  <2>1. /\ task[t].ask \in Requests /\ task[t].hb \in {"none", "on", "ended"}
        /\ "unwind" \in Places
    BY HeldRecord, ZenonT(60) DEF Records, Places
  <2>2. PICK r : r = Failing(task[t].ask, "unwind", task[t].hb)
    OBVIOUS
  <2>3. With(t, r)
    BY <1>4, <2>2, Zenon DEF Blank, Failing
  <2>4. Bare(r, task[t].ask, "unwind")
    BY <2>1, <2>2, FailingRecord
  <2>5. /\ Held(t, r) /\ Committed(t, r) /\ Proven(r) /\ Batched(r) /\ Watched(r)
        /\ r.pc \notin Preparing \cup Working \cup {"flush", "report"}
    BY <1>1, <2>4, HeldRecord
    DEF Bare, Sound, Held, Committed, Proven, Batched, Watched, Settled, Aside, Preparing,
        Labouring, Working, Ended
  <2>6. PICK v \in Tellings : v = Heard(t, Verdict(t), o) /\ v # "answered"
    BY <1>2, <1>4
  <2>7. told' = [told EXCEPT ![t] = v]
    BY <1>4, <2>6 DEF Hears
  <2> QED
    BY <1>1, <2>3, <2>4, <2>5, <2>6, <2>7, GoesAndReports DEF Bare, procVars, pollVars
<1> QED
  BY <1>3, <1>4, Zenon DEF Reports
------------------------------------------------------------------------------
(* The poll loop, the service, and the end of the process.                 *)

LEMMA ReapsStep ==
  ASSUME ConnectorInv, NEW t \in Tasks, Reaps(t)
  PROVE  ConnectorInv'
<1>1. Idle \in Records /\ Idle.pc = "none" /\ Idle.child = "none" /\ Idle.batch = "none"
  BY StartsBlank
<1>2. Idle.ask.kind = "native"
  BY StartsBlank DEF NoRequest
<1>3. With(t, Idle) /\ worker' = {}
  BY DEF Reaps, NoTask
<1> HIDE DEF Idle
<1>4. task' \in [Tasks -> Records] /\ task'[t] = Idle /\ \A u \in Tasks \ {t} : Same(u)
  BY <1>1, <1>3, WithRecord
<1>5. Types'
  BY <1>3, <1>4 DEF Reaps, ConnectorInv, Types, Identified, procVars, projVars
<1>6. Sound(t, task[t])'
  BY <1>1, <1>2, <1>4
  DEF Reaps, ConnectorInv, Types, Sound, Held, Answered, Based, Committed, Proven, Batched, Leased,
      Watched, Settled, Preparing, Labouring, Working, Ended
<1>7. ASSUME NEW u \in Tasks \ {t}
      PROVE  Sound(u, task[u])'
  <2>1. /\ Sound(u, task[u]) /\ Same(u) /\ server'[u] = server[u] /\ told'[u] = told[u]
        /\ UNCHANGED <<proj, dirty, staged>>
    BY <1>4 DEF Reaps, ConnectorInv, Types, projVars
  <2>2. task[u].pc \notin Ended /\ task[u].ask.kind # "operation" => u \in worker'
    <3>1. u \notin worker
      BY DEF Reaps, ConnectorInv
    <3> QED
      BY <2>1, <3>1 DEF Sound, Held
  <2>3. Committed(u, task[u])'
    BY <2>1 DEF Sound, Committed, Same, Settled
  <2> QED
    BY <2>1, <2>2, <2>3, Undisturbed
<1> QED
  BY <1>3, <1>5, <1>6, <1>7 DEF ConnectorInv, Reaps, projVars

LEMMA PollsStep ==
  ASSUME ConnectorInv, NEW t \in Tasks, NEW q \in Asks[t], Polls(t, q)
  PROVE  ConnectorInv'
<1>1. q \in Requests /\ "begin" \in Places
  BY ConnectorAssumption DEF Places
<1>2. PICK r : r = Starting(q, "begin")
  OBVIOUS
<1>3. Bare(r, q, "begin") /\ r.stop = FALSE /\ r.hb = "none"
  BY <1>1, <1>2, StartingRecord
<1>4. With(t, r)
  BY <1>2, Zenon DEF Polls, Starting
<1>5. task' \in [Tasks -> Records] /\ task'[t] = r /\ \A u \in Tasks \ {t} : Same(u)
  BY <1>3, <1>4, WithRecord DEF Bare
<1>6. /\ UNCHANGED <<file, told, projVars>> /\ server' = [server EXCEPT ![t] = "assigned"]
      /\ server[t] = "queued"
      /\ proc' \in {proc, "inline"} /\ inline' \in {inline, {t}}
      /\ IF q.kind = "operation" THEN worker' = worker ELSE worker = {} /\ worker' = {t}
  BY DEF Polls, ProjectRequestsOnly, NoTask
<1>7. Types'
  BY <1>5, <1>6 DEF ConnectorInv, Types, Identified, projVars
<1>8. told[t] # "answered"
  BY <1>6, HeldRecord DEF Sound, Answered
<1>9. Sound(t, task[t])'
  BY <1>3, <1>5, <1>6, <1>8
  DEF ConnectorInv, Types, Bare, Sound, Held, Answered, Based, Committed, Proven, Batched, Leased,
      Watched, Settled, Aside, Preparing, Labouring, Working, Ended
<1>10. ASSUME NEW u \in Tasks \ {t}
       PROVE  Sound(u, task[u])'
  <2>1. /\ Sound(u, task[u]) /\ Same(u) /\ server'[u] = server[u] /\ told'[u] = told[u]
        /\ UNCHANGED <<proj, dirty, staged>>
    BY <1>5, <1>6 DEF ConnectorInv, Types, projVars
  <2>2. task[u].pc \notin Ended /\ task[u].ask.kind # "operation" => u \in worker'
    BY <1>6, <2>1 DEF Sound, Held
  <2>3. Committed(u, task[u])'
    BY <2>1 DEF Sound, Committed, Same, Settled
  <2> QED
    BY <2>1, <2>2, <2>3, Undisturbed
<1> QED
  BY <1>6, <1>7, <1>9, <1>10 DEF ConnectorInv, projVars

LEMMA ServiceStep ==
  ASSUME ConnectorInv, NEW t \in Tasks, UserCancels(t) \/ TakesBack(t)
  PROVE  ConnectorInv'
<1>1. /\ UNCHANGED <<procVars, pollVars, task, told, projVars>>
      /\ \E s \in {"cancelled", "queued"} :
           /\ server' = [server EXCEPT ![t] = s]
           /\ s = "queued" => task[t].pc = "lost"
      /\ server[t] = "assigned"
  BY DEF UserCancels, TakesBack
<1>2. Types'
  BY <1>1 DEF ConnectorInv, Types, Identified, procVars, pollVars, projVars
<1>3. ASSUME NEW u \in Tasks
      PROVE  Sound(u, task[u])'
  <2>1. server'[u] \in {server[u], "cancelled"} \/ task[u].pc = "lost"
    BY <1>1 DEF ConnectorInv, Types
  <2>2. Sound(u, task[u]) /\ (server[u] = "cancelled" => server'[u] = "cancelled")
    BY <1>1 DEF ConnectorInv, Types
  <2> QED
    BY <1>1, <2>1, <2>2
    DEF Sound, Held, Answered, Based, Committed, Proven, Batched, Leased, Watched,
        Settled, Preparing, Labouring, Working, Ended, pollVars, projVars
<1> QED
  BY <1>1, <1>2, <1>3 DEF ConnectorInv, pollVars, projVars

LEMMA DiesStep ==
  ASSUME ConnectorInv, Dies
  PROVE  ConnectorInv'
<1>1. /\ worker' = {} /\ inline' = {} /\ proc' = "off" /\ UNCHANGED <<file, proj>>
      /\ staged' \subseteq dirty' /\ dirty' \subseteq {"user"}
      /\ task' = [u \in Tasks |-> IF Live(u) THEN [Blank(u) EXCEPT !.pc = "lost"] ELSE Idle]
      /\ told' = [u \in Tasks |-> "none"]
      /\ server' = [u \in Tasks |->
                      IF told[u] = "none" /\ task[u].pc # "done" THEN server[u] ELSE "over"]
  BY DEF ConnectorInv, Types, Dies, Anonymous, NoTask
<1>2. ASSUME NEW u \in Tasks
      PROVE  /\ task'[u] \in Records /\ task'[u].pc \in {"none", "lost"}
             /\ task'[u].child = "none" /\ task'[u].batch = "none"
  <2>1. task[u].ask \in Requests /\ "lost" \in Places
    BY HeldRecord, ZenonT(60) DEF Records, Places
  <2>2. Bare(Starting(task[u].ask, "lost"), task[u].ask, "lost")
    BY <2>1, StartingRecord
  <2>3. [Blank(u) EXCEPT !.pc = "lost"] = Starting(task[u].ask, "lost")
    BY Zenon DEF Blank, Starting
  <2>4. task'[u] = Starting(task[u].ask, "lost") \/ task'[u] = Idle
    BY <1>1, <2>3
  <2> QED
    BY <2>2, <2>4, StartsBlank DEF Bare
<1>3. task' \in [Tasks -> Records]
  BY <1>1, <1>2
<1>4. Types'
  BY <1>1, <1>3 DEF ConnectorInv, Types, Identified
<1>5. ASSUME NEW u \in Tasks
      PROVE  Sound(u, task[u])'
  <2>1. task'[u].ask.kind = "operation" => task'[u].pc \in Aside
    BY <1>2 DEF Aside
  <2>2. told'[u] = "none"
    BY <1>1
  <2> QED
    BY <1>2, <2>1, <2>2
    DEF Sound, Held, Answered, Based, Committed, Proven, Batched, Leased, Watched,
        Settled, Preparing, Labouring, Working, Ended
<1> QED
  BY <1>1, <1>4, <1>5 DEF ConnectorInv

LEMMA StrayWritesStep ==
  ASSUME ConnectorInv, StrayWrites
  PROVE  ConnectorInv'
<1>1. task' = [u \in Tasks |-> Touch(task[u])] /\ dirty' = dirty \cup {"user"}
  BY DEF StrayWrites
<1>2. \A u \in Tasks : Touch(task[u]) \in Records
  BY Touched DEF ConnectorInv, Types
<1>3. task' \in [Tasks -> Records]
  BY <1>1, <1>2
<1>4. UNCHANGED <<procVars, pollVars, serverVars, proj, staged>>
  BY DEF StrayWrites
<1>5. Types'
  BY <1>1, <1>3, <1>4 DEF ConnectorInv, Types, Identified, procVars, pollVars, serverVars
<1>6. ASSUME NEW u \in Tasks
      PROVE  Sound(u, task[u])'
  <2>1. task'[u] = Touch(task[u])
    BY <1>1
  <2>2. Same(u)
    BY <2>1, Touched DEF Same, ConnectorInv, Types
  <2>3. Sound(u, task[u]) /\ u # "user"
    BY ConnectorAssumption DEF ConnectorInv
  <2>4. Committed(u, task[u])'
    BY <1>1, <1>4, <2>2, <2>3 DEF Sound, Committed, Same, Settled
  <2>5. task[u].pc \notin Ended /\ task[u].ask.kind # "operation" => u \in worker'
    BY <1>4, <2>3 DEF Sound, Held, pollVars
  <2> QED
    BY <1>4, <2>2, <2>3, <2>4, <2>5, Undisturbed DEF serverVars
<1> QED
  BY <1>4, <1>5, <1>6 DEF ConnectorInv, pollVars

(* The files the connector writes while it starts. *)
LEMMA IdentifiedFile ==
  ASSUME ConnectorInv, Identifies
  PROVE  /\ file' \in Files /\ file'.device # "none"
         /\ file.device # "none" => file'.device = file.device
<1>1. file \in Files /\ (file.device = "none" => file.connection \in {"none", "legacy"})
  BY DEF ConnectorInv, Types, Identified
<1> DEFINE d == DeviceId(file)
           c == ConnectionId(file, mode.reauthorize)
<1>2. d \in {"legacy", "device"} /\ (file.device # "none" => d = file.device)
  BY <1>1 DEF DeviceId, Files
<1>3. c \in {"none", "legacy", "fresh", "canonical"}
  BY <1>1 DEF ConnectionId, Files
<1>4. file' = [file EXCEPT !.device = d, !.connection = c]
  BY Zenon DEF Identifies
<1> HIDE DEF d, c
<1>5. d \in {"none", "legacy", "device"} /\ d # "none"
  BY <1>2
<1>6. file' \in Files /\ file'.device = d
  BY <1>1, <1>3, <1>4, <1>5, Zenon DEF Files
<1> QED
  BY <1>2, <1>5, <1>6

LEMMA StartupStep ==
  ASSUME ConnectorInv, Connects \/ Supervises \/ Identifies \/ Authorizes \/ Registers
  PROVE  ConnectorInv' /\ (file.device # "none" => file'.device = file.device)
<1>1. file \in Files
  BY DEF ConnectorInv, Types
<1>2. file' \in Files /\ (file.device # "none" => file'.device = file.device)
  BY <1>1, IdentifiedFile DEF Connects, Supervises, Authorizes, Registers, Files
<1>3. /\ UNCHANGED <<pollVars, task, serverVars, projVars>>
      /\ proc' \in {"off", "identify", "authorize", "register", "poll", "inline"}
  BY DEF Connects, Supervises, Identifies, Authorizes, Registers
<1>4. Identified'
  <2>1. CASE Identifies
    BY <2>1, IdentifiedFile DEF Identified
  <2>2. CASE Connects \/ Supervises \/ Authorizes \/ Registers
    BY <1>1, <2>2
    DEF ConnectorInv, Types, Identified, Connects, Supervises, Authorizes, Registers, Files
  <2> QED
    BY <2>1, <2>2
<1>5. Types'
  BY <1>2, <1>3, <1>4 DEF ConnectorInv, Types, pollVars, serverVars, projVars
<1>6. ASSUME NEW u \in Tasks
      PROVE  Sound(u, task[u])'
  BY <1>3 DEF ConnectorInv, Sound, Held, Answered, Based, Committed, Proven, Batched, Leased,
      Watched, pollVars, serverVars, projVars
<1> QED
  BY <1>2, <1>3, <1>5, <1>6 DEF ConnectorInv, pollVars, projVars
------------------------------------------------------------------------------
LEMMA ConnectorInit ==
  ASSUME Init
  PROVE  ConnectorInv
<1>1. Idle \in Records /\ Idle.pc = "none" /\ Idle.child = "none" /\ Idle.batch = "none"
  BY StartsBlank
<1>2. Idle.ask.kind = "native"
  BY StartsBlank DEF NoRequest
<1>3. file \in Files /\ Identified
  BY ConnectorAssumption, Zenon DEF Init, Files, Identified
<1>4. proj \in Projects /\ proj.marker = proj.commits
  <2> TRUE \in BOOLEAN /\ FALSE \in BOOLEAN
    OBVIOUS
  <2>1. CASE proj = [dir |-> FALSE, ignore |-> FALSE, git |-> FALSE, commits |-> FALSE,
                     marker |-> FALSE]
    BY <2>1, Zenon DEF Projects
  <2>2. CASE proj = [dir |-> TRUE, ignore |-> TRUE, git |-> TRUE, commits |-> TRUE,
                     marker |-> TRUE]
    BY <2>2, Zenon DEF Projects
  <2> QED
    BY <2>1, <2>2, Zenon DEF Init
<1>5. task \in [Tasks -> Records] /\ \A t \in Tasks : task[t] = Idle
  BY <1>1 DEF Init
<1>6. Types
  BY <1>3, <1>4, <1>5 DEF Init, Types, NoTask
<1> HIDE DEF Idle
<1>7. ASSUME NEW t \in Tasks
      PROVE  Sound(t, task[t])
  BY <1>1, <1>2, <1>5
  DEF Init, Sound, Held, Answered, Based, Committed, Proven, Batched, Leased, Watched,
      Settled, Preparing, Labouring, Working, Ended
<1> QED
  BY <1>4, <1>6, <1>7 DEF Init, ConnectorInv, NoTask

(* A stuttering step. *)
LEMMA ConnectorStutters ==
  ASSUME ConnectorInv, UNCHANGED vars
  PROVE  ConnectorInv'
BY DEF ConnectorInv, Types, Identified, Sound, Held, Answered, Based, Committed, Proven, Batched,
   Leased, Watched, vars, procVars, pollVars, serverVars, projVars

LEMMA ConnectorStep ==
  ASSUME ConnectorInv, [Next]_vars
  PROVE  ConnectorInv'
<1>1. CASE UNCHANGED vars
  BY <1>1, ConnectorStutters
<1>2. CASE Connects \/ Supervises \/ Identifies \/ Authorizes \/ Registers
  BY <1>2, StartupStep
<1>3. CASE Dies \/ StrayWrites
  BY <1>3, DiesStep, StrayWritesStep
<1>4. ASSUME NEW t \in Tasks,
             (\E r \in Asks[t] : Polls(t, r)) \/ Reaps(t) \/ UserCancels(t) \/ TakesBack(t)
      PROVE  ConnectorInv'
  BY <1>4, PollsStep, ReapsStep, ServiceStep
<1>5. ASSUME NEW t \in Tasks, Thread(t)
      PROVE  ConnectorInv'
  <2>1. CASE \/ Begins(t) \/ Operates(t) \/ Inspects(t) \/ Initializes(t) \/ Created(t)
             \/ Answers(t) \/ Announces(t) \/ Chats(t) \/ Checkpoints(t) \/ Checkpointed(t)
             \/ LooksAtIndex(t) \/ CommitsAll(t)
    BY <2>1, BeginsStep, OperatesStep, InspectsStep, InitializesStep, AnswersStep, AnnouncesStep,
       ChatsStep, CheckpointsStep, DiffsStep, CommitsAllStep
  <2>2. CASE \/ HermesStarts(t) \/ HermesCancelled(t) \/ Recovers(t) \/ Resumes(t) \/ Settles(t)
             \/ Repairs(t) \/ Accepts(t)
    BY <2>2, HermesStartsStep, HermesCancelledStep, RecoversStep, ResumesStep, SettlesStep,
       RepairsStep, AcceptsStep
  <2>3. CASE \/ Adds(t) \/ Diffs(t) \/ Commits(t) \/ Drains(t) \/ Flushes(t) \/ Reports(t)
             \/ Joins(t) \/ Unwinds(t) \/ ReportsAgain(t)
    BY <2>3, AddsStep, DiffsStep, CommitsStep, DrainsStep, FlushesStep, ReportsStep, JoinsStep,
       InspectsStep, AnswersStep
  <2> QED
    BY <1>5, <2>1, <2>2, <2>3, Zenon DEF Thread
<1>6. ASSUME NEW t \in Tasks, Batcher(t) \/ Heartbeat(t) \/ Child(t)
      PROVE  ConnectorInv'
  BY <1>6, PostsStep, BatchEndsStep, HeartbeatLearnsStep, HeartbeatEndsStep, HermesWorksStep,
     HermesEndsStep, SessionNotSavedStep, HermesStallsStep, ReadsStep, SwarmWaitsStep,
     SwarmEndsStep, Zenon
  DEF Batcher, Heartbeat, Child
<1> QED
  BY <1>1, <1>2, <1>3, <1>4, <1>5, <1>6, Zenon DEF Next

(* What the connector holds about each task at each place in run_task.     *)
THEOREM ConnectorInvariant == Spec => []ConnectorInv
<1>1. Init => ConnectorInv
  BY ConnectorInit
<1>2. ConnectorInv /\ [Next]_vars => ConnectorInv'
  BY ConnectorStep
<1> QED
  BY <1>1, <1>2, PTL DEF Spec

(* The connector's state is well formed, and no task is recovered or       *)
(* repaired more often than HERMES_RECOVERY_ATTEMPTS and                   *)
(* HERMES_ACCEPTANCE_REPAIR_ATTEMPTS say.                                  *)
THEOREM ConnectorTypes == Spec => []TypeOK
<1>1. ConnectorInv => TypeOK
  BY DEF ConnectorInv, Types, TypeOK, Files, Records, Queues, Attempts, Repairings
<1> QED
  BY <1>1, ConnectorInvariant, PTL

(* A completion the service has acknowledged is never followed by a        *)
(* failure: run_and_report reports a failure only of a task whose          *)
(* completion was not answered.                                            *)
THEOREM AnswerStands == Spec => []VerdictStands
<1>1. ConnectorInv => VerdictStands
  BY DEF ConnectorInv, Types, VerdictStands
<1> QED
  BY <1>1, ConnectorInvariant, PTL

(* In a project with the connector's marker, a task whose completion is    *)
(* reported has no uncommitted change left: checkpoint_managed_project     *)
(* shares the index with the project requests of the poll loop, and they   *)
(* take nothing out of it that they do not commit.                         *)
THEOREM CompletedWorkIsCommitted == Spec => []CompletedIsCommitted
<1>1. ConnectorInv => CompletedIsCommitted
  BY DEF ConnectorInv, Sound, Committed, Settled, CompletedIsCommitted, Finished
<1> QED
  BY <1>1, ConnectorInvariant, PTL

(* initialize_new_project_repository writes the marker after the first     *)
(* commit, wherever it stops and whoever works in the project meanwhile.   *)
THEOREM MarkerFollowsCommit == Spec => []MarkerMeansBaseline
<1>1. ConnectorInv => MarkerMeansBaseline
  BY DEF ConnectorInv, MarkerMeansBaseline
<1> QED
  BY <1>1, ConnectorInvariant, PTL

(* A response reported as completed changed the workspace and has evidence *)
(* of every check the request asked for: neither a repair nor a recovery   *)
(* nor a touch of the workspace by another task loses it on the way.       *)
THEOREM CompletionHasEvidence == Spec => []CompletedHasEvidence
<1>1. ConnectorInv => CompletedHasEvidence
  BY DEF ConnectorInv, Sound, Proven, Settled, CompletedHasEvidence, Finished, Judged, Request
<1> QED
  BY <1>1, ConnectorInvariant, PTL

(* The report of a task comes after all its events, while its heartbeat    *)
(* still holds the lease.                                                  *)
THEOREM ReportIsLast == Spec => []ReportComesLast
<1>1. ConnectorInv => ReportComesLast
  BY DEF ConnectorInv, Sound, Batched, Leased, ReportComesLast
<1> QED
  BY <1>1, ConnectorInvariant, PTL

LEMMA ThreadKeepsFile ==
  ASSUME NEW t \in Tasks, Thread(t)
  PROVE  UNCHANGED file
<1>1. CASE \/ Begins(t) \/ Operates(t) \/ Inspects(t) \/ Initializes(t) \/ Created(t)
           \/ Announces(t) \/ Chats(t) \/ Checkpoints(t) \/ Checkpointed(t)
           \/ LooksAtIndex(t) \/ CommitsAll(t)
  BY <1>1 DEF Begins, Operates, Inspects, Initializes, Created, Announces, Chats, Checkpoints,
     Checkpointed, LooksAtIndex, CommitsAll, procVars
<1>2. CASE \/ HermesStarts(t) \/ HermesCancelled(t) \/ Recovers(t) \/ Resumes(t) \/ Settles(t)
           \/ Repairs(t) \/ Accepts(t)
  BY <1>2 DEF HermesStarts, HermesCancelled, Recovers, Resumes, Settles, Repairs, Accepts, procVars
<1>3. CASE \/ Adds(t) \/ Diffs(t) \/ Commits(t) \/ Drains(t) \/ Flushes(t) \/ Reports(t)
           \/ Joins(t) \/ Unwinds(t) \/ ReportsAgain(t) \/ Answers(t)
  BY <1>3 DEF Adds, Diffs, Commits, Drains, Flushes, Reports, Joins, Unwinds, ReportsAgain, Answers,
     procVars
<1> QED
  BY <1>1, <1>2, <1>3, Zenon DEF Thread

(* Nothing the connector does, reauthorization included, replaces the      *)
(* identity of the device.                                                 *)
THEOREM DeviceIdStays == Spec => DeviceKept
<1>1. ConnectorInv /\ [Next]_vars => [file.device # "none" => file'.device = file.device]_vars
  <2> SUFFICES ASSUME ConnectorInv, Next
               PROVE  file.device # "none" => file'.device = file.device
    OBVIOUS
  <2>1. CASE Connects \/ Supervises \/ Identifies \/ Authorizes \/ Registers
    BY <2>1, StartupStep
  <2>2. CASE Dies \/ StrayWrites
    BY <2>2 DEF Dies, StrayWrites, procVars
  <2>3. ASSUME NEW t \in Tasks,
               (\E r \in Asks[t] : Polls(t, r)) \/ Reaps(t) \/ UserCancels(t) \/ TakesBack(t)
        PROVE  UNCHANGED file
    <3>1. CASE \E r \in Asks[t] : Polls(t, r)
      BY <3>1, Zenon DEF Polls
    <3>2. CASE Reaps(t) \/ UserCancels(t) \/ TakesBack(t)
      BY <3>2, Zenon DEF Reaps, UserCancels, TakesBack, procVars
    <3> QED
      BY <2>3, <3>1, <3>2
  <2>4. ASSUME NEW t \in Tasks, Thread(t)
        PROVE  UNCHANGED file
    BY <2>4, ThreadKeepsFile
  <2>5. ASSUME NEW t \in Tasks, Batcher(t) \/ Heartbeat(t) \/ Child(t)
        PROVE  UNCHANGED file
    <3>1. CASE Batcher(t) \/ Heartbeat(t)
      BY <3>1 DEF Batcher, Heartbeat, Posts, BatchEnds, HeartbeatLearns, HeartbeatEnds, procVars
    <3>2. CASE Child(t)
      BY <3>2, Zenon
      DEF Child, HermesWorks, HermesEnds, SessionNotSaved, HermesStalls, Reads, SwarmWaits, SwarmEnds,
          procVars
    <3> QED
      BY <2>5, <3>1, <3>2
  <2> QED
    BY <2>1, <2>2, <2>3, <2>4, <2>5, Zenon DEF Next
<1> QED
  BY <1>1, ConnectorInvariant, PTL DEF Spec, DeviceKept

-----------------------------------------------------------------------------
(* The coordinated coding of a task (ProjectSwarm), which run_task starts.  *)

\* A history is a sequence of commits.
IsHistory(h) == \E S : h \in Seq(S)

Begun(from, to) ==
    Len(from) <= Len(to) /\ \A i \in 1..Len(from) : to[i] = from[i]

LEMMA HistoryGrows ==
    ASSUME NEW h, IsHistory(h), NEW c
    PROVE  /\ IsHistory(Append(h, c)) /\ Begun(h, Append(h, c))
           /\ Len(Append(h, c)) = Len(h) + 1 /\ Append(h, c)[Len(h) + 1] = c
<1>1. PICK S : h \in Seq(S)
  BY DEF IsHistory
<1>2. h \in Seq(S \cup {c}) /\ c \in S \cup {c}
  BY <1>1
<1>3. Append(h, c) \in Seq(S \cup {c})
  BY <1>2
<1> QED BY <1>2, <1>3 DEF IsHistory, Begun

LEMMA PrefixIsBegun ==
    ASSUME NEW a, IsHistory(a), NEW b, IsHistory(b)
    PROVE  /\ Begun(a, b) => IsPrefix(a, b)
           /\ IsPrefix(a, b) => Begun(a, b)
<1>1. PICK S, T : a \in Seq(S) /\ b \in Seq(T)
  BY DEF IsHistory
<1>2. a \in Seq(S \cup T) /\ b \in Seq(S \cup T)
  BY <1>1
<1> QED BY <1>2 DEF Begun, IsPrefix

\* What follows a prefix.
LEMMA Follows ==
    ASSUME NEW a, IsHistory(a), NEW b, IsHistory(b), Begun(a, b)
    PROVE  LET after == After(a, b)
           IN  /\ IsHistory(after) /\ Len(after) = Len(b) - Len(a)
               /\ \A i \in 1..Len(after) : after[i] = b[Len(a) + i]
<1>1. PICK S, T : a \in Seq(S) /\ b \in Seq(T)
  BY DEF IsHistory
<1>2. a \in Seq(S \cup T) /\ b \in Seq(S \cup T)
  BY <1>1
<1>3. Len(a) \in Nat /\ Len(b) \in Nat /\ Len(a) <= Len(b)
  BY <1>2 DEF Begun
<1>4. After(a, b) = SubSeq(b, Len(a) + 1, Len(b))
  BY DEF After
<1>5. SubSeq(b, Len(a) + 1, Len(b)) \in Seq(S \cup T)
  BY <1>2, <1>3
<1>6. Len(SubSeq(b, Len(a) + 1, Len(b))) = Len(b) - Len(a)
  BY <1>2, <1>3
<1>7. ASSUME NEW i \in 1..(Len(b) - Len(a))
      PROVE  SubSeq(b, Len(a) + 1, Len(b))[i] = b[Len(a) + i]
  BY <1>2, <1>3
<1> QED BY <1>4, <1>5, <1>6, <1>7 DEF IsHistory

\* The swarm's commits are in the project only after the merge: then all of
\* them are in what was verified, and what follows is the user's.
SwarmInv ==
    /\ DOMAIN project = {"head", "dirty"}
    /\ IsHistory(project.head) /\ IsHistory(integ) /\ IsHistory(verified)
    /\ co \notin {"start", "returned"} => chat = "swarm"
    /\ co # "returned" => error = "none"
    /\ co \in {"publishing", "clean", "merging"} => verified = integ
    /\ Published => /\ co \in {"published", "returned"} /\ error \in {"none", "journal"}
                          /\ Begun(verified, project.head)
                          /\ \A i \in SwarmCommits(project.head) : i <= Len(verified)
    /\ DOMAIN builder = Ids /\ \A id \in Ids : "st" \in DOMAIN builder[id]
    /\ ReportedSwarmIsQuiet

Quiet == \A id \in Ids : ~Alive(id)

LEMMA ProjectStays ==
    ASSUME SwarmInv, DOMAIN project' = {"head", "dirty"}, project'.head = project.head,
           IsHistory(integ'), IsHistory(verified'),
           co' \notin {"start", "returned"} => chat' = "swarm",
           co' # "returned" => error' = "none",
           co' \in {"publishing", "clean", "merging"} => verified' = integ',
           Published => /\ co' \in {"published", "returned"}
                              /\ error' \in {"none", "journal"} /\ verified' = verified,
           DOMAIN builder' = Ids, \A id \in Ids : "st" \in DOMAIN builder'[id],
           chat' = "reported" => Quiet'
    PROVE  SwarmInv'
<1>1. Published' <=> Published
  BY DEF Published, SwarmCommits
<1>2. SwarmCommits(project.head)' = SwarmCommits(project.head)
  BY DEF SwarmCommits
<1>3. Published =>
         /\ Begun(verified', project'.head)
         /\ \A i \in SwarmCommits(project.head)' : i <= Len(verified')
  BY <1>2 DEF SwarmInv
<1>4. ReportedSwarmIsQuiet'
  BY DEF ReportedSwarmIsQuiet, Quiet
<1>5. IsHistory(project'.head)
  BY DEF SwarmInv
<1> QED BY <1>1, <1>3, <1>4, <1>5 DEF SwarmInv

\* What a step that is not the swarm's adds to the project.
LEMMA UserCommits ==
    ASSUME SwarmInv, NEW c, c.by \notin {"task", "review"},
           project' = [head |-> Append(project.head, c), dirty |-> project'.dirty],
           UNCHANGED <<co, integ, verified, error, builder>>,
           chat' = chat \/ (chat \notin {"swarm", "reported"} /\ chat' # "reported")
    PROVE  SwarmInv'
<1>1. /\ DOMAIN project' = {"head", "dirty"} /\ project'.head = Append(project.head, c)
      /\ IsHistory(project.head)
  BY DEF SwarmInv
<1>2. /\ IsHistory(project'.head) /\ Begun(project.head, project'.head)
      /\ Len(project'.head) = Len(project.head) + 1 /\ project'.head[Len(project.head) + 1] = c
  BY <1>1, HistoryGrows
<1>3. DOMAIN project.head = 1..Len(project.head) /\ Len(project.head) \in Nat
      /\ DOMAIN project'.head = 1..Len(project'.head)
  BY <1>1, <1>2 DEF IsHistory
<1>4. SwarmCommits(project'.head) = SwarmCommits(project.head)
  <2>1. ASSUME NEW i \in DOMAIN project.head
        PROVE  i \in DOMAIN project'.head /\ project'.head[i] = project.head[i]
    BY <1>2, <1>3 DEF Begun
  <2>2. ASSUME NEW i \in DOMAIN project'.head, i \notin DOMAIN project.head
        PROVE  project'.head[i].by \notin {"task", "review"}
    <3>1. i = Len(project.head) + 1
      BY <1>2, <1>3, <2>2
    <3> QED BY <1>2, <3>1
  <2> QED BY <2>1, <2>2 DEF SwarmCommits
<1>5. Published' <=> Published
  BY <1>4 DEF Published
<1>6. ASSUME Published
      PROVE  /\ co' \in {"published", "returned"} /\ error' \in {"none", "journal"}
             /\ Begun(verified', project'.head)
             /\ \A i \in SwarmCommits(project.head)' : i <= Len(verified')
  <2>1. /\ co \in {"published", "returned"} /\ error \in {"none", "journal"}
        /\ Begun(verified, project.head)
        /\ \A i \in SwarmCommits(project.head) : i <= Len(verified)
    BY <1>6 DEF SwarmInv
  <2>2. Begun(verified, project'.head)
    <3>1. IsHistory(verified)
      BY DEF SwarmInv
    <3>2. Len(verified) \in Nat
      BY <3>1 DEF IsHistory
    <3> QED BY <1>2, <1>3, <2>1, <3>2 DEF Begun
  <2>3. \A i \in SwarmCommits(project.head)' : i <= Len(verified)
    BY <1>4, <2>1, Zenon
  <2> QED BY <2>1, <2>2, <2>3 DEF Begun
<1>7. ReportedSwarmIsQuiet'
  BY DEF SwarmInv, ReportedSwarmIsQuiet, Alive
<1>8. co' \notin {"start", "returned"} => chat' = "swarm"
  BY DEF SwarmInv
<1>9. /\ IsHistory(integ') /\ IsHistory(verified') /\ DOMAIN builder' = Ids
      /\ co' # "returned" => error' = "none"
      /\ co' \in {"publishing", "clean", "merging"} => verified' = integ'
      /\ \A id \in Ids : "st" \in DOMAIN builder'[id]
  BY DEF SwarmInv
<1> QED BY <1>1, <1>2, <1>5, <1>6, <1>7, <1>8, <1>9 DEF SwarmInv

\* The steps that leave the project alone and end or go on with the run.
LEMMA RunStays ==
    ASSUME SwarmInv, UNCHANGED <<project, builder, verified>>, IsHistory(integ'),
           co' \notin {"start", "returned"} => chat' = "swarm",
           co' # "returned" => error' = "none",
           co' \in {"publishing", "clean", "merging"} => verified' = integ',
           Published => co' \in {"published", "returned"} /\ error' \in {"none", "journal"},
           chat' = "reported" => chat = "reported"
    PROVE  SwarmInv'
<1>1. /\ DOMAIN project' = {"head", "dirty"} /\ project'.head = project.head
      /\ IsHistory(verified') /\ DOMAIN builder' = Ids
      /\ \A id \in Ids : "st" \in DOMAIN builder'[id]
  BY DEF SwarmInv
<1>2. chat' = "reported" => Quiet'
  BY DEF SwarmInv, Quiet, ReportedSwarmIsQuiet, Alive
<1> QED BY <1>1, <1>2, ProjectStays

\* Before the merge, nothing of the swarm's is in the project.
LEMMA NotYet ==
    ASSUME SwarmInv, co \notin {"published", "returned"}
    PROVE  ~Published
  BY DEF SwarmInv

LEMMA ReturnsIs ==
    ASSUME NEW why, Returns(why)
    PROVE  /\ co' = "returned" /\ error' = why /\ chat' \in {"joining", "fallback"}
  BY DEF Returns

LEMMA StartKeepsSwarm ==
    ASSUME SwarmInv, Coordinates \/ CheckpointNeeded \/ Requires
                     \/ AskPlanner \/ FallbackEnds \/ Cancel
    PROVE  SwarmInv'
<1>1. UNCHANGED <<project, builder, verified, integ>> /\ IsHistory(integ')
  BY DEF SwarmInv, Coordinates, CheckpointNeeded, Requires, AskPlanner,
         FallbackEnds, Cancel, work
<1>2. CASE Coordinates \/ CheckpointNeeded \/ FallbackEnds \/ Cancel
  <2>1. UNCHANGED <<co, error>> /\ (chat' = "reported" => chat = "reported")
    BY <1>2 DEF Coordinates, CheckpointNeeded, FallbackEnds, Cancel
  <2>2. co \notin {"start", "returned"} => chat' = "swarm"
    BY <1>2 DEF SwarmInv, Coordinates, CheckpointNeeded, FallbackEnds,
                Cancel
  <2>3. Published => co \in {"published", "returned"} /\ error \in {"none", "journal"}
    BY DEF SwarmInv
  <2>4. /\ co # "returned" => error = "none"
        /\ co \in {"publishing", "clean", "merging"} => verified = integ
    BY DEF SwarmInv
  <2> QED BY <1>1, <2>1, <2>2, <2>3, <2>4, RunStays
<1>3. CASE Requires \/ AskPlanner
  <2>1. co \in {"start", "planning"} /\ chat # "reported"
    BY <1>3 DEF SwarmInv, Requires, AskPlanner
  <2>2. ~Published /\ error = "none"
    BY <2>1, NotYet DEF SwarmInv
  <2>3. \/ co' \in {"planning", "planned"} /\ UNCHANGED <<chat, error>> /\ chat = "swarm"
        \/ \E why : Returns(why)
    BY <1>3 DEF SwarmInv, Requires, AskPlanner, Journals, NotRecorded
  <2> QED BY <1>1, <2>1, <2>2, <2>3, ReturnsIs, RunStays
<1> QED BY <1>2, <1>3

LEMMA WavesKeepSwarm ==
    ASSUME SwarmInv, Bases \/ Join \/ Integrates \/ StartReview
                     \/ Reviews
    PROVE  SwarmInv'
<1>1. UNCHANGED <<project, builder, verified>> /\ co \in {"planned", "waves", "reviewing"}
  BY DEF Bases, Join, Integrates, StartReview, Reviews, work
<1>2. IsHistory(integ')
  <2>1. \/ integ' = integ \/ integ' = project.head \/ \E c : integ' = Append(integ, c)
    <3>1. CASE Bases
      BY <3>1 DEF Bases
    <3>2. CASE Join \/ StartReview
      BY <3>2 DEF Join, StartReview, work
    <3>3. CASE Integrates
      BY <3>3 DEF Integrates
    <3>4. CASE Reviews
      BY <3>4 DEF Reviews
    <3> QED BY <3>1, <3>2, <3>3, <3>4
  <2>2. IsHistory(integ) /\ IsHistory(project.head)
    BY DEF SwarmInv
  <2> QED BY <2>1, <2>2, HistoryGrows
<1>3. ~Published /\ error = "none" /\ chat = "swarm"
  BY <1>1, NotYet DEF SwarmInv
<1>4. \/ co' \in {"waves", "reviewing", "verifying"} /\ UNCHANGED <<chat, error>>
      \/ \E why : Returns(why)
  <2>1. CASE Bases
    BY <2>1 DEF Bases
  <2>2. CASE Join
    BY <2>2 DEF Join
  <2>3. CASE Integrates
    BY <2>3 DEF Integrates, Journals, NotRecorded
  <2>4. CASE StartReview
    BY <2>4 DEF StartReview, Journals, NotRecorded
  <2>5. CASE Reviews
    BY <2>5 DEF Reviews, Journals, NotRecorded
  <2> QED BY <2>1, <2>2, <2>3, <2>4, <2>5
<1> QED BY <1>1, <1>2, <1>3, <1>4, ReturnsIs, RunStays

LEMMA VerifiesKeeps ==
    ASSUME SwarmInv, Verifies
    PROVE  SwarmInv'
<1>1. /\ UNCHANGED <<project, builder, integ>> /\ co = "verifying"
      /\ \/ co' = "publishing" /\ verified' = integ /\ UNCHANGED <<error, chat>>
         \/ Returns("verification") /\ UNCHANGED verified
  BY DEF Verifies
<1>2. ~Published /\ error = "none" /\ chat = "swarm"
  BY <1>1, NotYet DEF SwarmInv
<1>3. /\ DOMAIN project' = {"head", "dirty"} /\ project'.head = project.head
      /\ IsHistory(verified') /\ IsHistory(integ') /\ DOMAIN builder' = Ids
      /\ \A id \in Ids : "st" \in DOMAIN builder'[id]
  BY <1>1 DEF SwarmInv
<1> QED BY <1>1, <1>2, <1>3, ReturnsIs, ProjectStays

LEMMA PublishingKeeps ==
    ASSUME SwarmInv, IsClean \/ IsAtBase \/ Finishes
    PROVE  SwarmInv'
<1>1. UNCHANGED <<project, builder, verified, integ>> /\ IsHistory(integ')
  BY DEF SwarmInv, IsClean, IsAtBase, Finishes, work
<1>2. CASE IsClean \/ IsAtBase
  <2>1. co \in {"publishing", "clean"}
    BY <1>2 DEF IsClean, IsAtBase
  <2>2. ~Published /\ error = "none" /\ chat = "swarm" /\ verified = integ
    BY <2>1, NotYet DEF SwarmInv
  <2>3. \/ co' \in {"clean", "merging"} /\ UNCHANGED <<error, chat>>
        \/ \E why : Returns(why)
    BY <1>2 DEF IsClean, IsAtBase
  <2> QED BY <1>1, <2>1, <2>2, <2>3, ReturnsIs, RunStays
<1>3. CASE Finishes
  <2>1. Returns("none") \/ Returns("journal")
    BY <1>3 DEF Finishes, NotRecorded
  <2>2. co' = "returned" /\ error' \in {"none", "journal"} /\ chat' # "reported"
    BY <2>1, ReturnsIs
  <2> QED BY <1>1, <2>2, RunStays
<1> QED BY <1>2, <1>3

LEMMA MergesKeeps ==
    ASSUME SwarmInv, Merges
    PROVE  SwarmInv'
<1>1. /\ co = "merging" /\ UNCHANGED <<builder, integ, verified>>
  BY DEF Merges, work
<1>2. /\ ~Published /\ error = "none" /\ chat = "swarm" /\ verified = integ
      /\ IsHistory(integ) /\ IsHistory(verified) /\ DOMAIN project = {"head", "dirty"}
  BY <1>1, NotYet DEF SwarmInv
<1>3. CASE project' = [project EXCEPT !.head = integ] /\ co' = "published" /\ UNCHANGED <<error, chat>>
  <2>1. DOMAIN project' = {"head", "dirty"} /\ project'.head = integ
    BY <1>2, <1>3
  <2>2. Len(integ) \in Nat /\ DOMAIN integ = 1..Len(integ)
    BY <1>2 DEF IsHistory
  <2>3. Begun(verified', project'.head)
    BY <1>1, <1>2, <2>1, <2>2 DEF Begun
  <2>4. \A i \in SwarmCommits(project.head)' : i <= Len(verified')
    BY <1>1, <1>2, <2>1, <2>2 DEF SwarmCommits
  <2>5. ReportedSwarmIsQuiet' /\ DOMAIN builder' = Ids
        /\ \A id \in Ids : "st" \in DOMAIN builder'[id]
    BY <1>1, <1>2, <1>3 DEF SwarmInv, ReportedSwarmIsQuiet
  <2> QED BY <1>1, <1>2, <1>3, <2>1, <2>3, <2>4, <2>5 DEF SwarmInv
<1>4. CASE Returns("git") /\ UNCHANGED project
  <2>1. IsHistory(integ')
    BY <1>1, <1>2
  <2> QED BY <1>1, <1>2, <1>4, <2>1, ReturnsIs, RunStays
<1> QED BY <1>3, <1>4 DEF Merges

\* The threads: which run, and what the run's end does not wait for.
LEMMA BuilderKeeps ==
    ASSUME SwarmInv, UNCHANGED <<project, integ, verified, co, error, chat>>,
           NEW id \in Ids, NEW b, builder' = [builder EXCEPT ![id] = b], "st" \in DOMAIN b,
           Alive(id)
    PROVE  SwarmInv'
<1>1. /\ DOMAIN builder' = Ids /\ \A k \in Ids : "st" \in DOMAIN builder'[k]
      /\ chat # "reported"
  BY DEF SwarmInv, ReportedSwarmIsQuiet
<1>2. /\ DOMAIN project' = {"head", "dirty"} /\ project'.head = project.head
      /\ IsHistory(verified') /\ IsHistory(integ')
      /\ co' \notin {"start", "returned"} => chat' = "swarm"
      /\ co' # "returned" => error' = "none"
      /\ co' \in {"publishing", "clean", "merging"} => verified' = integ'
      /\ Published => co' \in {"published", "returned"} /\ error' \in {"none", "journal"}
  BY DEF SwarmInv
<1> QED BY <1>1, <1>2, ProjectStays

LEMMA BuildersKeep ==
    ASSUME SwarmInv, NEW id \in Ids,
           WorkerEdits(id) \/ WorkerCommitsItself(id) \/ WorkerEnds(id)
    PROVE  SwarmInv'
<1>1. Alive(id) /\ UNCHANGED <<project, integ, verified, co, error, chat>>
  BY DEF WorkerEdits, WorkerCommitsItself, WorkerEnds
<1>2. DOMAIN builder = Ids /\ "st" \in DOMAIN builder[id]
  BY DEF SwarmInv
<1>3. \E b : builder' = [builder EXCEPT ![id] = b] /\ "st" \in DOMAIN b
  <2>1. CASE WorkerEdits(id)
    <3>1. PICK f : builder' = [builder EXCEPT ![id].edits = @ \cup {f}]
      BY <2>1 DEF WorkerEdits
    <3>2. PICK b : b = [builder[id] EXCEPT !.edits = @ \cup {f}]
      OBVIOUS
    <3>3. builder' = [builder EXCEPT ![id] = b] /\ DOMAIN b = DOMAIN builder[id]
      BY <3>1, <3>2
    <3> QED BY <1>2, <3>3
  <2>2. CASE WorkerCommitsItself(id)
    <3>1. builder' = [builder EXCEPT ![id].own = @ \cup builder[id].edits, ![id].edits = {}]
      BY <2>2 DEF WorkerCommitsItself
    <3>2. PICK b : b = [builder[id] EXCEPT !.own = @ \cup builder[id].edits, !.edits = {}]
      OBVIOUS
    <3>3. builder' = [builder EXCEPT ![id] = b] /\ DOMAIN b = DOMAIN builder[id]
      BY <1>2, <3>1, <3>2
    <3> QED BY <1>2, <3>3
  <2>3. CASE WorkerEnds(id)
    <3>1. PICK st : builder' = [builder EXCEPT ![id].st = st]
      BY <2>3 DEF WorkerEnds
    <3>2. PICK b : b = [builder[id] EXCEPT !.st = st]
      OBVIOUS
    <3>3. builder' = [builder EXCEPT ![id] = b] /\ DOMAIN b = DOMAIN builder[id]
      BY <3>1, <3>2
    <3> QED BY <1>2, <3>3
  <2> QED BY <2>1, <2>2, <2>3
<1> QED BY <1>1, <1>3, BuilderKeeps

LEMMA StartWaveKeeps ==
    ASSUME SwarmInv, StartWave
    PROVE  SwarmInv'
<1>1. UNCHANGED <<project, integ, verified>> /\ co = "waves"
  BY DEF StartWave
<1>2. ~Published /\ error = "none" /\ chat = "swarm"
  BY <1>1, NotYet DEF SwarmInv
<1>3. \/ co' = "waves" /\ UNCHANGED <<error, chat>>
      \/ \E why : Returns(why)
  BY <1>1 DEF StartWave
<1>4. DOMAIN builder' = Ids /\ \A id \in Ids : "st" \in DOMAIN builder'[id]
  <2>1. DOMAIN builder = Ids /\ \A id \in Ids : "st" \in DOMAIN builder[id]
    BY DEF SwarmInv
  <2>2. CASE UNCHANGED builder
    BY <2>1, <2>2
  <2>3. CASE builder' = [id \in Ids |-> IF id \in Taken
                           THEN [idle EXCEPT !.st = "running", !.base = integ]
                           ELSE builder[id]]
    <3>1. PICK b : b = [idle EXCEPT !.st = "running", !.base = integ]
      OBVIOUS
    <3>2. "st" \in DOMAIN b
      BY <3>1 DEF idle
    <3>3. \A id \in Ids : builder'[id] = b \/ builder'[id] = builder[id]
      BY <2>3, <3>1, Zenon
    <3>4. DOMAIN builder' = Ids
      BY <2>3, Zenon
    <3> QED BY <2>1, <3>2, <3>3, <3>4
  <2> QED BY <2>2, <2>3 DEF StartWave
<1>5. /\ DOMAIN project' = {"head", "dirty"} /\ project'.head = project.head
      /\ IsHistory(verified') /\ IsHistory(integ')
  BY <1>1 DEF SwarmInv
<1> QED BY <1>1, <1>2, <1>3, <1>4, <1>5, ReturnsIs, ProjectStays

LEMMA ReportsKeeps ==
    ASSUME SwarmInv, SwarmReports
    PROVE  SwarmInv'
<1>1. /\ chat = "joining" /\ Quiet /\ UNCHANGED <<project, co, builder, integ, verified, error>>
  BY DEF SwarmReports, SendersDropped, work, Quiet
<1>2. /\ DOMAIN project' = {"head", "dirty"} /\ project'.head = project.head
      /\ IsHistory(verified') /\ IsHistory(integ') /\ Quiet'
      /\ co' \in {"start", "returned"} /\ (co' # "returned" => error' = "none")
      /\ DOMAIN builder' = Ids /\ \A id \in Ids : "st" \in DOMAIN builder'[id]
      /\ Published => co' = "returned" /\ error' \in {"none", "journal"}
  BY <1>1 DEF SwarmInv, Quiet, Alive
<1> QED BY <1>1, <1>2, ProjectStays

LEMMA UserKeeps ==
    ASSUME SwarmInv, CommitsCheckpoint \/ UserActs
    PROVE  SwarmInv'
<1>1. UNCHANGED <<co, integ, verified, error, builder>> /\ DOMAIN project = {"head", "dirty"}
  BY DEF SwarmInv, CommitsCheckpoint, UserActs, work
<1>2. /\ chat' = chat \/ (chat \notin {"swarm", "reported"} /\ chat' # "reported")
      /\ co' \notin {"start", "returned"} => chat' = "swarm"
  BY <1>1 DEF SwarmInv, CommitsCheckpoint, UserActs
<1>3. ASSUME NEW c, c.by \notin {"task", "review"},
             DOMAIN project' = {"head", "dirty"},
             project' = [head |-> Append(project.head, c), dirty |-> project'.dirty]
      PROVE  SwarmInv'
  BY <1>1, <1>2, <1>3, UserCommits
<1>4. ASSUME DOMAIN project' = {"head", "dirty"}, project'.head = project.head
      PROVE  SwarmInv'
  <2>1. /\ IsHistory(verified') /\ IsHistory(integ') /\ DOMAIN builder' = Ids
        /\ co' # "returned" => error' = "none"
        /\ co' \in {"publishing", "clean", "merging"} => verified' = integ'
        /\ \A id \in Ids : "st" \in DOMAIN builder'[id]
        /\ Published => /\ co' \in {"published", "returned"}
                              /\ error' \in {"none", "journal"} /\ verified' = verified
    BY <1>1 DEF SwarmInv
  <2>2. chat' = "reported" => Quiet'
    BY <1>1, <1>2 DEF SwarmInv, Quiet, ReportedSwarmIsQuiet, Alive
  <2> QED BY <1>2, <1>4, <2>1, <2>2, ProjectStays
<1>5. CASE CommitsCheckpoint
  <2>1. CASE UNCHANGED project
    BY <1>1, <1>4, <2>1
  <2>2. CASE project' = [head |-> Append(project.head,
                                         Change("checkpoint", 0, project.dirty)), dirty |-> {}]
    BY <1>3, <2>2 DEF Change
  <2> QED BY <1>5, <2>1, <2>2 DEF CommitsCheckpoint
<1>6. CASE UserActs
  <2>1. PICK f : \/ project' = [project EXCEPT !.dirty = @ \cup {f}]
                 \/ project' = [project EXCEPT !.head = Append(@, Change("user", 0, {f}))]
    BY <1>6 DEF UserActs
  <2>2. CASE project' = [project EXCEPT !.dirty = @ \cup {f}]
    BY <1>1, <1>4, <2>2
  <2>3. CASE project' = [project EXCEPT !.head = Append(@, Change("user", 0, {f}))]
    <3>1. PICK c : c = Change("user", 0, {f})
      OBVIOUS
    <3>2. c.by = "user"
      BY <3>1 DEF Change
    <3>3. project' = [project EXCEPT !.head = Append(project.head, c)]
      BY <2>3, <3>1
    <3>4. /\ DOMAIN project' = {"head", "dirty"}
          /\ project' = [head |-> Append(project.head, c), dirty |-> project'.dirty]
      BY <1>1, <3>3
    <3> QED BY <1>3, <3>2, <3>4
  <2> QED BY <2>1, <2>2, <2>3
<1> QED BY <1>5, <1>6

LEMMA SwarmStep ==
    ASSUME SwarmInv, [SwarmNext]_(swarmVars)
    PROVE  SwarmInv'
<1>1. CASE Coordinator \/ AskPlanner \/ Reviews \/ Verifies
  BY <1>1, StartKeepsSwarm, WavesKeepSwarm, VerifiesKeeps, PublishingKeeps, MergesKeeps,
     StartWaveKeeps, UserKeeps DEF Coordinator
<1>2. CASE \E id \in Ids :
             WorkerEdits(id) \/ WorkerCommitsItself(id) \/ WorkerEnds(id)
  BY <1>2, BuildersKeep
<1>3. CASE FallbackEnds \/ SwarmReports \/ Cancel \/ UserActs
  BY <1>3, StartKeepsSwarm, ReportsKeeps, UserKeeps
<1>4. CASE (\E run \in Ids \cup {0} : HermesEscapes(run)) \/ UNCHANGED swarmVars
  <2>1. UNCHANGED <<project, builder, verified, integ, co, error, chat>>
    BY <1>4 DEF HermesEscapes, swarmVars, work
  <2>2. /\ IsHistory(integ') /\ co' # "returned" => error' = "none"
    BY <2>1 DEF SwarmInv
  <2>3. /\ co' \notin {"start", "returned"} => chat' = "swarm"
        /\ co' # "returned" => error' = "none"
        /\ co' \in {"publishing", "clean", "merging"} => verified' = integ'
        /\ Published => co' \in {"published", "returned"} /\ error' \in {"none", "journal"}
    BY <2>1 DEF SwarmInv
  <2>4. IsHistory(integ')
    BY <2>1 DEF SwarmInv
  <2> QED BY <2>1, <2>3, <2>4, RunStays
<1> QED BY <1>1, <1>2, <1>3, <1>4 DEF SwarmNext

LEMMA SwarmInitially ==
    ASSUME SwarmInit PROVE SwarmInv
<1>1. /\ project = [head |-> <<>>, dirty |-> {}] /\ integ = <<>> /\ verified = <<>>
      /\ co = "start" /\ error = "none" /\ chat = "start"
      /\ builder = [id \in Ids |-> idle]
  BY DEF SwarmInit, none
<1>2. IsHistory(<<>>)
  <2>1. <<>> \in Seq({})
    OBVIOUS
  <2> QED BY <2>1 DEF IsHistory
<1>3. ~Published
  BY <1>1 DEF Published, SwarmCommits
<1>4. \A id \in Ids : "st" \in DOMAIN builder[id]
  BY <1>1 DEF idle
<1> QED BY <1>1, <1>2, <1>3, <1>4 DEF SwarmInv, ReportedSwarmIsQuiet

(* project_swarm.rs, run and publish_integration: whatever the user commits *)
(* or edits meanwhile, what the swarm put into the project is the history   *)
(* its verification command passed on, whole, and only the user's commits   *)
(* follow it.                                                               *)
THEOREM PublishedStaysVerified == SwarmSpec => []PublishedIsVerified
<1>1. SwarmInit => SwarmInv
  BY SwarmInitially
<1>2. SwarmInv /\ [SwarmNext]_(swarmVars) => SwarmInv'
  BY SwarmStep
<1>3. SwarmInv => PublishedIsVerified
  <2>1. SUFFICES ASSUME SwarmInv, Published PROVE
           /\ verified # <<>> /\ IsPrefix(verified, project.head)
           /\ SwarmCommits(After(verified, project.head)) = {}
    BY DEF PublishedIsVerified, none
  <2>2. /\ IsHistory(project.head) /\ IsHistory(verified) /\ Begun(verified, project.head)
        /\ \A i \in SwarmCommits(project.head) : i <= Len(verified)
    BY <2>1 DEF SwarmInv
  <2>3. IsPrefix(verified, project.head)
    BY <2>2, PrefixIsBegun
  <2>4. PICK after : after = After(verified, project.head)
    OBVIOUS
  <2>5. /\ IsHistory(after) /\ Len(after) = Len(project.head) - Len(verified)
        /\ \A i \in 1..Len(after) : after[i] = project.head[Len(verified) + i]
    BY <2>2, <2>4, Follows
  <2>6. /\ DOMAIN after = 1..Len(after) /\ DOMAIN project.head = 1..Len(project.head)
        /\ {Len(after), Len(verified), Len(project.head)} \subseteq Nat
    BY <2>2, <2>5 DEF IsHistory
  <2>7. SwarmCommits(after) = {}
    <3>1. ASSUME NEW i \in DOMAIN after, after[i].by \in {"task", "review"} PROVE FALSE
      <4>1. Len(verified) + i \in DOMAIN project.head
        BY <2>5, <2>6
      <4>2. project.head[Len(verified) + i].by \in {"task", "review"}
        BY <2>5, <2>6, <3>1
      <4>3. Len(verified) + i \in SwarmCommits(project.head)
        BY <4>1, <4>2 DEF SwarmCommits
      <4> QED BY <2>2, <2>6, <4>3
    <3> QED BY <3>1 DEF SwarmCommits
  <2>8. verified # <<>>
    <3>1. PICK i \in DOMAIN project.head : i \in SwarmCommits(project.head)
      BY <2>1 DEF Published, SwarmCommits
    <3>2. i \in 1..Len(project.head) /\ i <= Len(verified)
      BY <2>2, <2>6, <3>1
    <3> QED BY <2>6, <3>2
  <2> QED BY <2>3, <2>4, <2>7, <2>8
<1> QED BY <1>1, <1>2, <1>3, PTL DEF SwarmSpec

(* A run that returns an error, upon which run_task starts a single worker  *)
(* over, has left no commit of its own in the project, unless only the last *)
(* write of the journal failed.                                             *)
THEOREM FailureKeepsProject == SwarmSpec => []FailureLeavesProject
<1>1. SwarmInit => SwarmInv
  BY SwarmInitially
<1>2. SwarmInv /\ [SwarmNext]_(swarmVars) => SwarmInv'
  BY SwarmStep
<1>3. SwarmInv => FailureLeavesProject
  BY DEF SwarmInv, FailureLeavesProject
<1> QED BY <1>1, <1>2, <1>3, PTL DEF SwarmSpec

(* run_task reports only when every worker thread, also one whose join the  *)
(* coordinator gave up, has dropped its event sender.                       *)
THEOREM SwarmIsQuiet == SwarmSpec => []ReportedSwarmIsQuiet
<1>1. SwarmInit => SwarmInv
  BY SwarmInitially
<1>2. SwarmInv /\ [SwarmNext]_(swarmVars) => SwarmInv'
  BY SwarmStep
<1>3. SwarmInv => ReportedSwarmIsQuiet
  BY DEF SwarmInv
<1> QED BY <1>1, <1>2, <1>3, PTL DEF SwarmSpec

\* What a step may do to the project.
ProjectGoesOn ==
    /\ IsPrefix(project.head, project'.head)
    /\ project.dirty \subseteq
          project'.dirty \cup FilesOf(After(project.head, project'.head))
    /\ SwarmCommits(After(project.head, project'.head)) # {} =>
          FilesOf(After(project.head, project'.head)) \cap project.dirty = {}

LEMMA HeadStays ==
    ASSUME SwarmInv, project'.head = project.head, project.dirty \subseteq project'.dirty
    PROVE  ProjectGoesOn
<1>1. IsHistory(project.head)
  BY DEF SwarmInv
<1>2. Begun(project.head, project.head)
  BY <1>1 DEF Begun
<1>3. PICK after : after = After(project.head, project'.head)
  OBVIOUS
<1>4. IsHistory(after) /\ Len(after) = Len(project.head) - Len(project.head)
  BY <1>1, <1>2, <1>3, Follows
<1>5. Len(project.head) \in Nat /\ DOMAIN after = 1..Len(after)
  BY <1>1, <1>4 DEF IsHistory
<1>6. DOMAIN after = {}
  BY <1>4, <1>5
<1>7. SwarmCommits(after) = {}
  BY <1>6 DEF SwarmCommits
<1>8. IsPrefix(project.head, project'.head)
  BY <1>1, <1>2, PrefixIsBegun
<1> QED BY <1>3, <1>7, <1>8 DEF ProjectGoesOn

LEMMA HeadGrows ==
    ASSUME SwarmInv, NEW c, c.by \notin {"task", "review"},
           project'.head = Append(project.head, c),
           project.dirty \subseteq project'.dirty \cup c.files
    PROVE  ProjectGoesOn
<1>1. IsHistory(project.head)
  BY DEF SwarmInv
<1>2. /\ IsHistory(project'.head) /\ Begun(project.head, project'.head)
      /\ Len(project'.head) = Len(project.head) + 1 /\ project'.head[Len(project.head) + 1] = c
  BY <1>1, HistoryGrows
<1>3. PICK old, new, after : /\ old = project.head /\ new = project'.head
                             /\ after = After(project.head, project'.head)
  OBVIOUS
<1>4. /\ IsHistory(after) /\ Len(after) = Len(new) - Len(old)
      /\ \A i \in 1..Len(after) : after[i] = new[Len(old) + i]
  <2>1. IsHistory(old) /\ IsHistory(new) /\ Begun(old, new) /\ after = After(old, new)
    BY <1>1, <1>2, <1>3
  <2> QED BY <2>1, Follows
<1>5. Len(old) \in Nat /\ DOMAIN after = 1..Len(after)
  <2>1. IsHistory(old)
    BY <1>1, <1>3
  <2> QED BY <1>4, <2>1 DEF IsHistory
<1>6. DOMAIN after = {1} /\ after[1] = c
  BY <1>2, <1>3, <1>4, <1>5
<1>7. SwarmCommits(after) = {}
  BY <1>6 DEF SwarmCommits
<1>8. c.files \subseteq FilesOf(after)
  BY <1>6 DEF FilesOf
<1>9. IsPrefix(project.head, project'.head)
  BY <1>1, <1>2, PrefixIsBegun
<1> QED BY <1>3, <1>7, <1>8, <1>9 DEF ProjectGoesOn

LEMMA ProjectStep ==
    ASSUME SwarmInv, [SwarmNext]_(swarmVars)
    PROVE  UNCHANGED project \/ ProjectGoesOn
<1>1. \/ UNCHANGED project \/ CommitsCheckpoint \/ UserActs \/ Merges
  <2>1. CASE Coordinator
    BY <2>1 DEF Coordinator, Coordinates, CheckpointNeeded, Requires, Bases, StartWave, Join,
       Integrates, StartReview, IsClean, IsAtBase, Finishes
  <2>2. CASE AskPlanner \/ Reviews \/ Verifies
    BY <2>2 DEF AskPlanner, Reviews, Verifies
  <2>3. CASE ~(Coordinator \/ AskPlanner \/ Reviews \/ Verifies)
    BY <2>3 DEF SwarmNext, WorkerEdits, WorkerCommitsItself, WorkerEnds,
       HermesEscapes, FallbackEnds, SwarmReports, Cancel, swarmVars
  <2> QED BY <2>1, <2>2, <2>3
<1>2. DOMAIN project = {"head", "dirty"}
  BY DEF SwarmInv
<1>3. CASE CommitsCheckpoint
  <2>1. PICK c : c = Change("checkpoint", 0, project.dirty)
    OBVIOUS
  <2>2. c.by = "checkpoint" /\ c.files = project.dirty
    BY <2>1 DEF Change
  <2>3. UNCHANGED project \/ project'.head = Append(project.head, c)
    BY <1>3, <2>1 DEF CommitsCheckpoint
  <2> QED BY <2>2, <2>3, HeadGrows
<1>4. CASE UserActs
  <2>1. PICK f : \/ project' = [project EXCEPT !.dirty = @ \cup {f}]
                 \/ project' = [project EXCEPT !.head = Append(@, Change("user", 0, {f}))]
    BY <1>4 DEF UserActs
  <2>2. PICK c : c = Change("user", 0, {f})
    OBVIOUS
  <2>3. c.by = "user"
    BY <2>2 DEF Change
  <2>4. \/ project'.head = project.head /\ project.dirty \subseteq project'.dirty
        \/ project'.head = Append(project.head, c) /\ project'.dirty = project.dirty
    BY <1>2, <2>1, <2>2
  <2> QED BY <2>3, <2>4, HeadStays, HeadGrows
<1>5. CASE Merges
  <2>1. \/ UNCHANGED project
        \/ CanFastForward /\ project' = [project EXCEPT !.head = integ]
    BY <1>5 DEF Merges
  <2>2. ASSUME CanFastForward, project' = [project EXCEPT !.head = integ]
        PROVE  ProjectGoesOn
    <3>1. project'.head = integ /\ project'.dirty = project.dirty
      BY <1>2, <2>2
    <3> QED BY <2>2, <3>1 DEF CanFastForward, ProjectGoesOn
  <2> QED BY <2>1, <2>2
<1> QED BY <1>1, <1>3, <1>4, <1>5

(* Nothing the swarm or the checkpoint does takes anything from the user:   *)
(* the project's history only grows, what was not committed stays or is     *)
(* committed, and no merge touches a file the user has changed.             *)
THEOREM UserKeepsWork == SwarmSpec => UserWorkKept
<1>1. SwarmInit => SwarmInv
  BY SwarmInitially
<1>2. SwarmInv /\ [SwarmNext]_(swarmVars) => SwarmInv'
  BY SwarmStep
<1>3. SwarmInv /\ [SwarmNext]_(swarmVars) => [ProjectGoesOn]_(swarmVars)
  <2>1. SUFFICES ASSUME SwarmInv, [SwarmNext]_(swarmVars) PROVE ProjectGoesOn
    OBVIOUS
  <2>2. UNCHANGED project => ProjectGoesOn
    BY <2>1, HeadStays
  <2> QED BY <2>1, <2>2, ProjectStep
<1>4. UserWorkKept <=> [][ProjectGoesOn]_(swarmVars)
  BY DEF UserWorkKept, ProjectGoesOn
<1> QED BY <1>1, <1>2, <1>3, <1>4, PTL DEF SwarmSpec
-----------------------------------------------------------------------------
(* The waves of the swarm: what the coordinator integrates.                *)

\* Where the tasks of the plan are in the integration.
At(id) == {i \in DOMAIN integ : integ[i].by = "task" /\ integ[i].id = id}

Owned(id, changed) ==
    \A f \in changed : \E owned \in plan[id].owned : path_is_owned(f, owned)

Early == co \in {"start", "planning", "planned"}

\* The plan is an accepted one from its acceptance on, and the waves start from
\* nothing.
PlanInv ==
    /\ co \notin {"start", "planning", "returned"} =>
          \E p \in Plans : validate_plan(p) /\ plan = ById(p)
    /\ Early => /\ integ = none /\ done = {} /\ wave = none /\ joined = none
                /\ \A id \in Ids : builder[id].st = "none"
    /\ co \in {"start", "planning"} => DOMAIN plan = {}

\* A thread has committed what its task owns.
ThreadInv ==
    /\ DOMAIN builder = Ids
    /\ \A id \in Ids :
          /\ DOMAIN builder[id] = {"st", "base", "edits", "own"}
          /\ builder[id].edits \subseteq ProjectFiles
          /\ builder[id].st = "committed" => Owned(id, builder[id].edits)

\* The tasks in the integration: once each, after what they depend on.
OrderInv ==
    /\ \A i \in DOMAIN integ : integ[i].by = "task" =>
          integ[i].id \in DOMAIN plan /\ Owned(integ[i].id, integ[i].files)
    /\ \A id \in DOMAIN plan : \A i, j \in At(id) : i = j
    /\ \A id \in DOMAIN plan : \A i \in At(id) :
          \A d \in plan[id].deps : \E j \in At(d) : j < i

\* A task of the wave: not done, what it depends on is, and its worktree started
\* from what was integrated before the wave, to which only tasks were added.
InWave(id) ==
    /\ id \in DOMAIN plan \ done /\ plan[id].deps \subseteq done
    /\ IsHistory(builder[id].base) /\ Begun(builder[id].base, integ)
    /\ \A i \in DOMAIN integ : i > Len(builder[id].base) => integ[i].by = "task"

Distinct(s) == \A i, j \in DOMAIN s : s[i] = s[j] => i = j

WaveInv ==
    co = "waves" =>
       /\ done \subseteq DOMAIN plan
       /\ \A id \in DOMAIN plan : id \in done <=> At(id) # {}
       /\ wave \in Seq(Ids) /\ Distinct(wave) /\ joined \in Seq(Ids) /\ Distinct(joined)
       /\ \A i \in DOMAIN wave : InWave(wave[i])
       /\ \A i \in DOMAIN joined : InWave(joined[i]) /\ builder[joined[i]].st = "committed"
       /\ \A i \in DOMAIN wave, j \in DOMAIN joined : wave[i] # joined[j]

Whole == co \in {"reviewing", "verifying", "publishing", "clean", "merging", "published"}
            => \A id \in DOMAIN plan : At(id) # {}

FollowInv == PlanInv /\ ThreadInv /\ OrderInv /\ WaveInv /\ Whole /\ AcceptedPlanIsFeasible

-----------------------------------------------------------------------------
LEMMA PathPrefix ==
    ASSUME NEW a \in Seq(STRING), NEW f \in Seq(STRING)
    PROVE  path_is_owned(f, a) <=> Len(a) <= Len(f) /\ \A k \in 1..Len(a) : a[k] = f[k]
<1>1. IsHistory(a) /\ IsHistory(f)
  BY DEF IsHistory
<1>2. path_is_owned(f, a) <=> Begun(a, f)
  BY <1>1, PrefixIsBegun DEF path_is_owned
<1> QED BY <1>2 DEF Begun

\* A set of natural numbers has a least one.
LEMMA LeastOf ==
    ASSUME NEW S \in SUBSET Nat, S # {}
    PROVE  \E i \in S : \A j \in S : i <= j
<1> DEFINE R == OpToRel(<, Nat)
<1>1. IsWellFoundedOn(R, Nat)
  BY NatLessThanWellFounded
<1>2. \A i, j \in Nat : i < j => <<i, j>> \in R
  BY DEF OpToRel
<1> HIDE DEF R
<1>3. PICK i \in S : \A j \in S : ~(<<j, i>> \in R)
  BY <1>1, WFMin
<1>4. ASSUME NEW j \in S PROVE i <= j
  <2>1. i \in Nat /\ j \in Nat /\ ~(j < i)
    BY <1>2, <1>3
  <2> QED BY <2>1
<1> QED BY <1>4

\* A safe path is normalised to what begins at its first named component.
LEMMA NormalizedIs ==
    ASSUME NEW a \in Seq(STRING), SafePath(a)
    PROVE  \E s \in 1..Len(a) :
              /\ a[s] # "." /\ \A i \in 1..(s - 1) : a[i] = "."
              /\ Normalized(a) \in Seq(STRING) /\ Len(Normalized(a)) = Len(a) - s + 1
              /\ \A k \in 1..(Len(a) - s + 1) : Normalized(a)[k] = a[k + s - 1]
<1> DEFINE named == {i \in DOMAIN a : a[i] # "."}
           s == CHOOSE i \in named : \A j \in named : i <= j
<1>1. named # {} /\ named \in SUBSET Nat
  <2>1. Normalized(a) # <<>>
    BY DEF SafePath
  <2>2. named # {}
    BY <2>1, Zenon DEF Normalized, none
  <2>3. DOMAIN a \in SUBSET Nat
    OBVIOUS
  <2> QED BY <2>2, <2>3
<1>2. \E i \in named : \A j \in named : i <= j
  BY <1>1, LeastOf
<1>3. s \in named /\ \A j \in named : s <= j
  BY <1>2
<1>4. Normalized(a) = SubSeq(a, s, Len(a))
  BY <1>1 DEF Normalized
<1> HIDE DEF s
<1>5. /\ s \in 1..Len(a) /\ a[s] # "."
      /\ \A i \in 1..(s - 1) : a[i] = "."
  <2>1. s \in 1..Len(a) /\ Len(a) \in Nat
    BY <1>3
  <2>2. ASSUME NEW i \in 1..(s - 1) PROVE a[i] = "."
    <3>1. i \in DOMAIN a /\ ~(s <= i)
      BY <2>1
    <3> QED BY <1>3, <3>1
  <2> QED BY <1>3, <2>1, <2>2
<1>6. /\ SubSeq(a, s, Len(a)) \in Seq(STRING) /\ Len(SubSeq(a, s, Len(a))) = Len(a) - s + 1
      /\ \A k \in 1..(Len(a) - s + 1) : SubSeq(a, s, Len(a))[k] = a[k + s - 1]
  BY <1>5
<1> QED BY <1>4, <1>5, <1>6

\* A path that is below two others has them in one line.
LEMMA OneInLine ==
    ASSUME NEW f \in Seq(STRING),
           NEW a \in Seq(STRING), SafePath(a), path_is_owned(f, a),
           NEW b \in Seq(STRING), SafePath(b), path_is_owned(f, b), Len(a) <= Len(b)
    PROVE  path_is_owned(Normalized(b), Normalized(a))
<1>1. PICK x \in Seq(STRING), y \in Seq(STRING) : x = Normalized(a) /\ y = Normalized(b)
  BY NormalizedIs
<1>2. PICK s \in 1..Len(a) :
         /\ a[s] # "." /\ \A i \in 1..(s - 1) : a[i] = "."
         /\ Len(x) = Len(a) - s + 1 /\ \A k \in 1..(Len(a) - s + 1) : x[k] = a[k + s - 1]
  BY <1>1, NormalizedIs
<1>3. PICK u \in 1..Len(b) :
         /\ b[u] # "." /\ \A i \in 1..(u - 1) : b[i] = "."
         /\ Len(y) = Len(b) - u + 1 /\ \A k \in 1..(Len(b) - u + 1) : y[k] = b[k + u - 1]
  BY <1>1, NormalizedIs
<1>4. /\ Len(a) \in Nat /\ Len(b) \in Nat /\ Len(f) \in Nat
      /\ \A k \in 1..Len(a) : a[k] = b[k]
  <2>1. /\ \A k \in 1..Len(a) : a[k] = f[k]
        /\ \A k \in 1..Len(b) : b[k] = f[k]
    BY PathPrefix
  <2>2. ASSUME NEW k \in 1..Len(a) PROVE a[k] = b[k]
    <3>1. k \in 1..Len(b)
      OBVIOUS
    <3> QED BY <2>1, <3>1
  <2> QED BY <2>2
<1>5. s = u
  <2>1. ~(s < u)
    <3>1. s < u => s \in 1..(u - 1)
      OBVIOUS
    <3> QED BY <1>2, <1>3, <1>4, <3>1
  <2>2. ~(u < s)
    <3>1. u < s => u \in 1..(s - 1) /\ u \in 1..Len(a)
      BY <1>4
    <3> QED BY <1>2, <1>3, <1>4, <3>1
  <2> QED BY <2>1, <2>2
<1>6. ASSUME NEW k \in 1..Len(x) PROVE x[k] = y[k]
  <2>1. /\ k \in 1..(Len(a) - s + 1) /\ k \in 1..(Len(b) - u + 1)
        /\ k + s - 1 \in 1..Len(a)
    BY <1>2, <1>4, <1>5
  <2> QED BY <1>2, <1>3, <1>4, <1>5, <2>1
<1>7. Len(x) <= Len(y)
  BY <1>2, <1>3, <1>4, <1>5
<1> QED BY <1>1, <1>6, <1>7, PathPrefix

\* What an accepted plan says of its tasks.
LEMMA PlanIs ==
    ASSUME NEW p \in Plans, validate_plan(p), plan = ById(p)
    PROVE  /\ DOMAIN plan = PlanIds(p) /\ DOMAIN plan \subseteq Ids
           /\ \A id \in DOMAIN plan : plan[id].deps \subseteq DOMAIN plan \ {id}
           /\ \A left \in SUBSET DOMAIN plan :
                 left # {} => \E id \in left : plan[id].deps \cap left = {}
           /\ \A id \in DOMAIN plan :
                 \E i \in DOMAIN p.tasks : p.tasks[i].id = id /\ plan[id] = p.tasks[i]
<1>1. DOMAIN plan = PlanIds(p)
  BY DEF ById
<1>2. \A id \in PlanIds(p) :
         \E i \in DOMAIN p.tasks : p.tasks[i].id = id /\ plan[id] = p.tasks[i]
  <2> SUFFICES ASSUME NEW id \in PlanIds(p)
               PROVE  \E i \in DOMAIN p.tasks : p.tasks[i].id = id /\ plan[id] = p.tasks[i]
    OBVIOUS
  <2>1. PICK i : i = CHOOSE k \in DOMAIN p.tasks : p.tasks[k].id = id
    OBVIOUS
  <2>2. plan[id] = p.tasks[i]
    BY <2>1 DEF ById
  <2>3. i \in DOMAIN p.tasks /\ p.tasks[i].id = id
    BY <2>1 DEF PlanIds
  <2> QED BY <2>2, <2>3
<1>3. PlanIds(p) \subseteq Ids
  BY SwarmAssumption DEF PlanIds
<1>4. \A id \in PlanIds(p) : plan[id].deps \subseteq PlanIds(p) \ {id}
  BY <1>2 DEF validate_plan, Complete
<1>5. \A left \in SUBSET PlanIds(p) :
         left # {} => \E id \in left : plan[id].deps \cap left = {}
  BY DEF validate_plan, Acyclic
<1> QED BY <1>1, <1>2, <1>3, <1>4, <1>5

\* No two tasks of a plan own a file.
LEMMA OneOwner ==
    ASSUME NEW p \in Plans, validate_plan(p), plan = ById(p),
           NEW x \in DOMAIN plan, NEW y \in DOMAIN plan, x # y,
           NEW f \in ProjectFiles, NEW changed, Owned(x, changed), f \in changed,
           NEW others, Owned(y, others), f \in others
    PROVE  FALSE
<1>1. PICK a \in plan[x].owned : path_is_owned(f, a)
  BY DEF Owned
<1>2. PICK b \in plan[y].owned : path_is_owned(f, b)
  BY DEF Owned
<1>3. PICK i \in DOMAIN p.tasks, j \in DOMAIN p.tasks :
        /\ p.tasks[i].id = x /\ plan[x] = p.tasks[i]
        /\ p.tasks[j].id = y /\ plan[y] = p.tasks[j]
  BY PlanIs
<1>4. {a, b, f} \subseteq Seq(STRING)
  BY <1>1, <1>2, <1>3, SwarmAssumption
<1>5. SafePath(a) /\ SafePath(b)
  BY <1>1, <1>2, <1>3 DEF validate_plan, Complete
<1>6. /\ ~path_is_owned(Normalized(a), Normalized(b))
      /\ ~path_is_owned(Normalized(b), Normalized(a))
  <2>1. <<i, a>> # <<j, b>>
    BY <1>3
  <2> QED BY <1>1, <1>2, <1>3, <2>1 DEF validate_plan, Disjoint
<1>7. Len(a) <= Len(b) \/ Len(b) <= Len(a)
  BY <1>4
<1> QED BY <1>1, <1>2, <1>4, <1>5, <1>6, <1>7, OneInLine

-----------------------------------------------------------------------------
\* The steps that leave plan, integration, waves and threads alone.
LEMMA FollowStays ==
    ASSUME FollowInv, UNCHANGED <<plan, integ, done, wave, joined, builder>>,
           co' \notin {"start", "planning", "returned"} => co \notin {"start", "planning", "returned"},
           Early' => Early, co' \in {"start", "planning"} => co \in {"start", "planning"},
           co' = "waves" => co = "waves",
           co' \in {"reviewing", "verifying", "publishing", "clean", "merging", "published"} =>
              \A id \in DOMAIN plan : At(id) # {},
           \/ error' = error \/ error' \notin {"stuck", "conflict"}
           \/ error' = "conflict" /\ \E id \in Ids : builder[id].own # {}
    PROVE  FollowInv'
<1>1. PlanInv'
  BY DEF FollowInv, PlanInv
<1>2. ThreadInv'
  BY DEF FollowInv, ThreadInv, Owned
<1>3. \A id : At(id)' = At(id)
  BY DEF At
<1>4. OrderInv'
  BY <1>3 DEF FollowInv, OrderInv, Owned
<1>5. WaveInv'
  BY <1>3 DEF FollowInv, WaveInv, InWave, Distinct
<1>6. Whole'
  BY <1>3 DEF Whole
<1>7. AcceptedPlanIsFeasible'
  BY DEF FollowInv, AcceptedPlanIsFeasible
<1> QED BY <1>1, <1>2, <1>4, <1>5, <1>6, <1>7 DEF FollowInv

LEMMA FollowReturns ==
    ASSUME FollowInv, UNCHANGED <<plan, integ, done, wave, joined, builder>>,
           NEW why, Returns(why), why \notin {"stuck", "conflict"}
    PROVE  FollowInv'
<1>1. co' = "returned" /\ error' = why
  BY ReturnsIs
<1>2. ~Early'
  BY <1>1 DEF Early
<1> QED BY <1>1, <1>2, FollowStays

\* Of the integration, all is there once no task is pending.
LEMMA NonePending ==
    ASSUME FollowInv, co = "waves", Pending = {}
    PROVE  \A id \in DOMAIN plan : At(id) # {}
  BY DEF FollowInv, WaveInv, Pending

LEMMA FollowQuiet ==
    ASSUME FollowInv,
           \/ Coordinates \/ CheckpointNeeded \/ CommitsCheckpoint \/ Requires \/ StartReview
           \/ Verifies \/ IsClean \/ IsAtBase \/ Merges \/ Finishes
           \/ FallbackEnds \/ SwarmReports \/ Cancel \/ UserActs \/ UNCHANGED swarmVars
           \/ \E run \in Ids \cup {0} : HermesEscapes(run)
    PROVE  FollowInv'
<1>1. UNCHANGED <<plan, integ, done, wave, joined, builder>>
  BY DEF Coordinates, CheckpointNeeded, CommitsCheckpoint, Requires, StartReview, Verifies,
     IsClean, IsAtBase, Merges, Finishes, FallbackEnds, SwarmReports, Cancel, UserActs,
     HermesEscapes, swarmVars, work
<1>2. CASE UNCHANGED <<co, error>>
  <2>1. (Early' <=> Early)
    BY <1>2 DEF Early
  <2>2. co' \in {"reviewing", "verifying", "publishing", "clean", "merging", "published"} =>
           \A id \in DOMAIN plan : At(id) # {}
    BY <1>2 DEF FollowInv, Whole
  <2> QED BY <1>1, <1>2, <2>1, <2>2, FollowStays
<1>3. CASE \E why : Returns(why) /\ why \notin {"stuck", "conflict"}
  BY <1>1, <1>3, FollowReturns
<1>4. CASE co = "start" /\ co' = "planning" /\ UNCHANGED error
  <2>1. Early' => Early
    BY <1>4 DEF Early
  <2> QED BY <1>1, <1>4, <2>1, FollowStays
<1>5. CASE co = "waves" /\ Pending = {} /\ co' = "reviewing" /\ UNCHANGED error
  <2>1. Early' => Early
    BY <1>5 DEF Early
  <2>2. \A id \in DOMAIN plan : At(id) # {}
    BY <1>5, NonePending
  <2> QED BY <1>1, <1>5, <2>1, <2>2, FollowStays
<1>6. CASE /\ co \in {"verifying", "publishing", "clean", "merging"}
           /\ co' \in {"publishing", "clean", "merging", "published"} /\ UNCHANGED error
  <2>1. Early' => Early
    BY <1>6 DEF Early
  <2>2. \A id \in DOMAIN plan : At(id) # {}
    BY <1>6 DEF FollowInv, Whole
  <2> QED BY <1>1, <1>6, <2>1, <2>2, FollowStays
<1>7. CASE Coordinates \/ CheckpointNeeded \/ CommitsCheckpoint
           \/ FallbackEnds \/ SwarmReports \/ Cancel \/ UserActs \/ UNCHANGED swarmVars
           \/ \E run \in Ids \cup {0} : HermesEscapes(run)
  <2>1. UNCHANGED <<co, error>>
    BY <1>7 DEF Coordinates, CheckpointNeeded, CommitsCheckpoint, FallbackEnds, SwarmReports,
       Cancel, UserActs, HermesEscapes, swarmVars
  <2> QED BY <1>2, <2>1
<1>8. CASE Requires
  <2>1. \/ co = "start" /\ co' = "planning" /\ UNCHANGED error
        \/ \E why \in {"dirty", "journal"} : Returns(why)
    BY <1>8 DEF Requires, NotRecorded, Journals
  <2> QED BY <1>3, <1>4, <2>1
<1>9. CASE StartReview
  <2>1. \/ co = "waves" /\ Pending = {} /\ co' = "reviewing" /\ UNCHANGED error
        \/ Returns("journal")
    BY <1>9 DEF StartReview, NotRecorded, Journals
  <2> QED BY <1>3, <1>5, <2>1
<1>10. CASE Verifies \/ IsClean \/ IsAtBase \/ Merges \/ Finishes
  <2>1. \/ /\ co \in {"verifying", "publishing", "clean", "merging"}
           /\ co' \in {"publishing", "clean", "merging", "published"} /\ UNCHANGED error
        \/ \E why \in {"verification", "dirty", "changed", "git", "none", "journal"} : Returns(why)
    BY <1>10 DEF Verifies, IsClean, IsAtBase, Merges, Finishes, NotRecorded
  <2> QED BY <1>3, <1>6, <2>1
<1> QED BY <1>7, <1>8, <1>9, <1>10

\* The plan is accepted.
LEMMA PlanKeeps ==
    ASSUME FollowInv, AskPlanner
    PROVE  FollowInv'
<1>1. co = "planning" /\ Early /\ UNCHANGED <<integ, done, wave, joined, builder>>
  BY DEF AskPlanner, work, Early
<1>2. CASE \E why \in {"plan", "journal", "hermes"} : Returns(why) /\ UNCHANGED plan
  BY <1>1, <1>2, FollowReturns
<1>3. CASE /\ co' = "planned" /\ UNCHANGED error
           /\ \E p \in Plans : validate_plan(p) /\ plan' = ById(p)
  <2>1. PlanInv'
    <3>1. \E p \in Plans : validate_plan(p) /\ plan' = ById(p)
      BY <1>3
    <3>2. (\E p \in Plans : validate_plan(p) /\ plan = ById(p))'
      BY <3>1 DEF validate_plan, Complete, Disjoint, Acyclic, ById, PlanIds,
         safe_verification_command
    <3> QED BY <1>1, <1>3, <3>2 DEF FollowInv, PlanInv
  <2>2. ThreadInv'
    BY <1>1 DEF FollowInv, PlanInv, ThreadInv
  <2>3. integ' = <<>>
    BY <1>1 DEF FollowInv, PlanInv, none
  <2>4. OrderInv'
    BY <2>3 DEF OrderInv, At
  <2>5. WaveInv' /\ Whole' /\ AcceptedPlanIsFeasible'
    BY <1>1, <1>3 DEF FollowInv, WaveInv, Whole, AcceptedPlanIsFeasible
  <2> QED BY <2>1, <2>2, <2>4, <2>5 DEF FollowInv
<1> QED BY <1>2, <1>3 DEF AskPlanner, Journals, NotRecorded

\* The integration starts from the project, in which nothing of the swarm's is.
LEMMA BasesKeeps ==
    ASSUME SwarmInv, FollowInv, Bases
    PROVE  FollowInv'
<1>1. co = "planned" /\ Early /\ UNCHANGED <<plan, done, wave, joined, builder>>
  BY DEF Bases, Early
<1>2. CASE Returns("git") /\ UNCHANGED <<base, integ>>
  BY <1>1, <1>2, FollowReturns
<1>3. CASE integ' = project.head /\ co' = "waves" /\ UNCHANGED <<error, chat>>
  <2>1. \A i \in DOMAIN integ' : integ'[i].by # "task"
    <3>1. ~Published
      BY <1>1, NotYet
    <3> QED BY <1>3, <3>1 DEF Published, SwarmCommits
  <2>2. PlanInv'
    BY <1>1, <1>3 DEF FollowInv, PlanInv, Early
  <2>3. ThreadInv'
    BY <1>1 DEF FollowInv, ThreadInv, Owned
  <2>4. \A id : At(id)' = {}
    BY <2>1 DEF At
  <2>5. OrderInv'
    BY <2>1, <2>4 DEF OrderInv
  <2>6. WaveInv'
    <3>1. done' = {} /\ wave' = <<>> /\ joined' = <<>>
      BY <1>1 DEF FollowInv, PlanInv, none
    <3>2. <<>> \in Seq(Ids) /\ DOMAIN <<>> = {}
      OBVIOUS
    <3> QED BY <2>4, <3>1, <3>2 DEF WaveInv, Distinct
  <2>7. Whole' /\ AcceptedPlanIsFeasible'
    BY <1>1, <1>3 DEF FollowInv, Whole, AcceptedPlanIsFeasible
  <2> QED BY <2>2, <2>3, <2>5, <2>6, <2>7 DEF FollowInv
<1> QED BY <1>2, <1>3 DEF Bases

\* A wave starts: there is a task to start, or the plan had a cycle.
LEMMA NotStuck ==
    ASSUME FollowInv, co = "waves", Pending # {}
    PROVE  Ready # {}
<1>1. PICK p \in Plans : validate_plan(p) /\ plan = ById(p)
  BY DEF FollowInv, PlanInv
<1>2. Pending \in SUBSET DOMAIN plan
  BY DEF Pending
<1>3. PICK id \in Pending : plan[id].deps \cap Pending = {}
  BY <1>1, <1>2, PlanIs
<1>4. plan[id].deps \subseteq DOMAIN plan
  BY <1>1, <1>2, PlanIs
<1>5. id \in Ready
  BY <1>3, <1>4 DEF Ready, Pending
<1> QED BY <1>5

LEMMA StartsWave ==
    ASSUME SwarmInv, FollowInv, StartWave
    PROVE  FollowInv'
<1>1. co = "waves" /\ wave = none /\ joined = none /\ Pending # {}
      /\ UNCHANGED <<plan, integ, done, joined>>
  BY DEF StartWave
<1>2. Ready # {}
  BY <1>1, NotStuck
<1>3. CASE \E why \in {"cancelled", "git"} : Returns(why) /\ UNCHANGED <<wave, builder>>
  BY <1>1, <1>3, FollowReturns
<1>4. CASE /\ wave' \in InOrder(Taken) /\ UNCHANGED <<co, error, chat>>
           /\ builder' = [id \in Ids |-> IF id \in Taken
                           THEN [idle EXCEPT !.st = "running", !.base = integ]
                           ELSE builder[id]]
  <2>1. PICK p \in Plans : validate_plan(p) /\ plan = ById(p)
    BY <1>1 DEF FollowInv, PlanInv
  <2>2. Taken \subseteq Ready /\ Ready \subseteq DOMAIN plan \ done /\ DOMAIN plan \subseteq Ids
        /\ \A id \in Ready : plan[id].deps \subseteq done
    BY <2>1, PlanIs DEF Taken, Ready, Pending
  <2>3. PICK b : b = [idle EXCEPT !.st = "running", !.base = integ]
    OBVIOUS
  <2>4. /\ DOMAIN b = {"st", "base", "edits", "own"} /\ b.st = "running" /\ b.base = integ
        /\ b.edits = {}
    BY <2>3 DEF idle
  <2>5. /\ DOMAIN builder' = Ids /\ \A id \in Taken : builder'[id] = b
        /\ \A id \in Ids \ Taken : builder'[id] = builder[id]
    <3>1. builder' = [id \in Ids |-> IF id \in Taken THEN b ELSE builder[id]]
      BY <1>4, <2>3
    <3> QED BY <2>2, <3>1
  <2>6. PlanInv'
    BY <1>1, <1>4 DEF FollowInv, PlanInv, Early
  <2>7. ThreadInv'
    <3>1. \A id \in Ids : builder'[id] = b \/ builder'[id] = builder[id]
      BY <2>5
    <3> QED BY <1>1, <2>4, <2>5, <3>1 DEF FollowInv, ThreadInv, Owned
  <2>8. \A id : At(id)' = At(id)
    BY <1>1 DEF At
  <2>9. OrderInv'
    BY <1>1, <2>8 DEF FollowInv, OrderInv, Owned
  <2>10. Whole' /\ AcceptedPlanIsFeasible'
    <3>1. error = "none"
      BY <1>1 DEF SwarmInv
    <3> QED BY <1>1, <1>4, <3>1 DEF Whole, AcceptedPlanIsFeasible
  <2>11. WaveInv'
    <3>1. PICK n \in 0..Workers : wave' \in [1..n -> Taken]
      BY <1>4 DEF InOrder, SeqOf
    <3>2. DOMAIN wave' = 1..n /\ n \in Nat /\ \A i \in DOMAIN wave' : wave'[i] \in Taken
      BY <3>1, SwarmAssumption
    <3>3. wave' \in Seq(Ids)
      BY <2>2, <3>1, <3>2
    <3>4. Distinct(wave')
      <4> SUFFICES ASSUME NEW i \in DOMAIN wave', NEW j \in DOMAIN wave', wave'[i] = wave'[j]
                   PROVE  i = j
        BY DEF Distinct
      <4>1. i \in Nat /\ j \in Nat
        BY <3>2
      <4>3. wave'[i] \in Ids
        BY <2>2, <3>2
      <4>4. wave'[i] \in Nat
        BY <4>3, SwarmAssumption
      <4>2. ~(i < j) /\ ~(j < i)
        BY <1>4, <4>1, <4>4 DEF InOrder
      <4> QED BY <4>1, <4>2
    <3>6. ASSUME NEW id \in Taken PROVE InWave(id)'
      <4>1. builder'[id].base = integ /\ IsHistory(integ)
        BY <2>4, <2>5, <3>6 DEF SwarmInv
      <4>2. Len(integ) \in Nat /\ DOMAIN integ = 1..Len(integ)
        BY <4>1 DEF IsHistory
      <4>3. Begun(integ, integ)
        BY <4>2 DEF Begun
      <4> QED BY <1>1, <2>2, <4>1, <4>2, <4>3 DEF InWave
    <3>7. joined = <<>>
      BY <1>1 DEF none
    <3>8. DOMAIN joined = {}
      BY <3>7
    <3> QED BY <1>1, <2>8, <3>2, <3>3, <3>4, <3>6, <3>8 DEF FollowInv, WaveInv, Distinct
  <2> QED BY <2>6, <2>7, <2>9, <2>10, <2>11 DEF FollowInv
<1> QED BY <1>2, <1>3, <1>4 DEF StartWave

\* A worker thread that has not ended works in its worktree.
LEMMA ThreadKeeps ==
    ASSUME FollowInv, NEW id \in Ids, Alive(id), NEW b, builder' = [builder EXCEPT ![id] = b],
           DOMAIN b = {"st", "base", "edits", "own"}, b.base = builder[id].base,
           b.edits \subseteq ProjectFiles, b.st = "committed" => Owned(id, b.edits),
           builder[id].own # {} => b.own # {},
           UNCHANGED <<plan, integ, done, wave, joined, co, error>>
    PROVE  FollowInv'
<1>1. builder[id].st = "running"
  BY DEF Alive
<1>2. /\ DOMAIN builder' = Ids /\ builder'[id] = b
      /\ \A x \in Ids \ {id} : builder'[x] = builder[x]
  BY DEF FollowInv, ThreadInv
<1>3. PlanInv'
  BY <1>1 DEF FollowInv, PlanInv, Early
<1>4. ThreadInv'
  <2>1. Owned(id, b.edits)' <=> Owned(id, b.edits)
    BY DEF Owned
  <2>2. ASSUME NEW x \in Ids, builder'[x].st = "committed"
        PROVE  Owned(x, builder[x].edits)'
    BY <1>2, <2>2 DEF FollowInv, ThreadInv, Owned
  <2> QED BY <1>2, <2>2 DEF FollowInv, ThreadInv
<1>5. \A x : At(x)' = At(x)
  BY DEF At
<1>6. OrderInv'
  BY <1>5 DEF FollowInv, OrderInv, Owned
<1>7. WaveInv'
  <2>1. SUFFICES ASSUME co = "waves" PROVE WaveInv'
    BY DEF WaveInv
  <2>2. DOMAIN plan \subseteq Ids
    BY <2>1, PlanIs DEF FollowInv, PlanInv
  <2>3. ASSUME NEW x, InWave(x) PROVE InWave(x)'
    <3>1. x \in Ids
      BY <2>2, <2>3 DEF InWave
    <3>2. builder'[x].base = builder[x].base
      BY <1>2, <3>1
    <3> QED BY <2>3, <3>2 DEF InWave
  <2>4. ASSUME NEW i \in DOMAIN joined PROVE builder'[joined[i]].st = "committed"
    <3>1. InWave(joined[i]) /\ builder[joined[i]].st = "committed"
      BY <2>1 DEF FollowInv, WaveInv
    <3>2. joined[i] \in Ids \ {id}
      BY <1>1, <2>2, <3>1 DEF InWave
    <3> QED BY <1>2, <3>1, <3>2
  <2> QED BY <1>5, <2>1, <2>3, <2>4 DEF FollowInv, WaveInv, Distinct
<1>8. Whole'
  BY <1>5 DEF FollowInv, Whole
<1>9. AcceptedPlanIsFeasible'
  BY <1>2 DEF FollowInv, AcceptedPlanIsFeasible
<1> QED BY <1>3, <1>4, <1>6, <1>7, <1>8, <1>9 DEF FollowInv

LEMMA ThreadsKeep ==
    ASSUME FollowInv, NEW id \in Ids, WorkerEdits(id) \/ WorkerCommitsItself(id) \/ WorkerEnds(id)
    PROVE  FollowInv'
<1>1. /\ Alive(id) /\ UNCHANGED <<plan, integ, done, wave, joined, co, error>>
      /\ builder[id].st = "running"
  BY DEF WorkerEdits, WorkerCommitsItself, WorkerEnds, Alive
<1>2. /\ DOMAIN builder = Ids /\ DOMAIN builder[id] = {"st", "base", "edits", "own"}
      /\ builder[id].edits \subseteq ProjectFiles
  BY DEF FollowInv, ThreadInv
<1>3. CASE WorkerEdits(id)
  <2>1. PICK f \in ProjectFiles : builder' = [builder EXCEPT ![id].edits = @ \cup {f}]
    BY <1>3 DEF WorkerEdits
  <2>2. PICK b : b = [builder[id] EXCEPT !.edits = @ \cup {f}]
    OBVIOUS
  <2>3. builder' = [builder EXCEPT ![id] = b]
    BY <1>2, <2>1, <2>2
  <2>4. /\ DOMAIN b = {"st", "base", "edits", "own"} /\ b.base = builder[id].base
        /\ b.edits = builder[id].edits \cup {f} /\ b.st = builder[id].st
        /\ b.own = builder[id].own
    BY <1>2, <2>2, ZenonT(60)
  <2> QED BY <1>1, <1>2, <2>3, <2>4, ThreadKeeps
<1>4. CASE WorkerCommitsItself(id)
  <2>1. PICK b : b = [builder[id] EXCEPT !.own = @ \cup builder[id].edits, !.edits = {}]
    OBVIOUS
  <2>2. builder' = [builder EXCEPT ![id] = b]
    BY <1>2, <1>4, <2>1 DEF WorkerCommitsItself
  <2>3. /\ DOMAIN b = {"st", "base", "edits", "own"} /\ b.base = builder[id].base
        /\ b.edits = {} /\ b.st = builder[id].st /\ b.own = builder[id].own \cup builder[id].edits
    BY <1>2, <2>1, ZenonT(60)
  <2> QED BY <1>1, <2>2, <2>3, ThreadKeeps
<1>5. CASE WorkerEnds(id)
  <2>1. PICK st : /\ builder' = [builder EXCEPT ![id].st = st]
                  /\ st = "failed" \/ (st = "committed" /\ OwnsChanges(id))
    BY <1>5 DEF WorkerEnds
  <2>2. PICK b : b = [builder[id] EXCEPT !.st = st]
    OBVIOUS
  <2>3. builder' = [builder EXCEPT ![id] = b]
    BY <1>2, <2>1, <2>2
  <2>4. /\ DOMAIN b = {"st", "base", "edits", "own"} /\ b.base = builder[id].base
        /\ b.edits = builder[id].edits /\ b.st = st /\ b.own = builder[id].own
    BY <1>2, <2>2, ZenonT(60)
  <2>5. b.st = "committed" => Owned(id, b.edits)
    BY <2>1, <2>4 DEF OwnsChanges, Owned
  <2> QED BY <1>1, <1>2, <2>3, <2>4, <2>5, ThreadKeeps
<1> QED BY <1>3, <1>4, <1>5

\* The first of a sequence of different things, and the others.
LEMMA FirstAndRest ==
    ASSUME NEW S, NEW s \in Seq(S), Distinct(s), s # <<>>
    PROVE  /\ 1 \in DOMAIN s /\ Head(s) = s[1] /\ Tail(s) \in Seq(S) /\ Distinct(Tail(s))
           /\ \A i \in DOMAIN Tail(s) :
                 Tail(s)[i] # Head(s) /\ \E j \in DOMAIN s : Tail(s)[i] = s[j]
<1>1. /\ Len(s) \in Nat \ {0} /\ DOMAIN s = 1..Len(s) /\ Head(s) = s[1]
      /\ Tail(s) \in Seq(S) /\ DOMAIN Tail(s) = 1..(Len(s) - 1)
      /\ \A i \in 1..(Len(s) - 1) : Tail(s)[i] = s[i + 1]
  OBVIOUS
<1>2. ASSUME NEW i \in DOMAIN Tail(s)
      PROVE  i + 1 \in DOMAIN s /\ Tail(s)[i] = s[i + 1] /\ i + 1 # 1 /\ i \in Int
  BY <1>1
<1>3. 1 \in DOMAIN s
  BY <1>1
<1>4. Distinct(Tail(s))
  <2> SUFFICES ASSUME NEW i \in DOMAIN Tail(s), NEW j \in DOMAIN Tail(s), Tail(s)[i] = Tail(s)[j]
               PROVE  i = j
    BY DEF Distinct
  <2>1. i + 1 = j + 1
    BY <1>2 DEF Distinct
  <2> QED BY <1>2, <2>1
<1>5. ASSUME NEW i \in DOMAIN Tail(s) PROVE Tail(s)[i] # Head(s)
  BY <1>1, <1>2, <1>3 DEF Distinct
<1> QED BY <1>1, <1>2, <1>3, <1>4, <1>5

LEMMA OneMore ==
    ASSUME NEW S, NEW s \in Seq(S), Distinct(s), NEW c \in S, \A i \in DOMAIN s : s[i] # c
    PROVE  /\ Append(s, c) \in Seq(S) /\ Distinct(Append(s, c))
           /\ \A i \in DOMAIN Append(s, c) :
                 Append(s, c)[i] = c \/ \E j \in DOMAIN s : Append(s, c)[i] = s[j]
<1>1. PICK t : t = Append(s, c)
  OBVIOUS
<1>2. /\ Len(s) \in Nat /\ DOMAIN s = 1..Len(s) /\ t \in Seq(S) /\ DOMAIN t = 1..(Len(s) + 1)
      /\ t[Len(s) + 1] = c /\ \A i \in 1..Len(s) : t[i] = s[i]
  BY <1>1
<1>3. ASSUME NEW i \in DOMAIN t
      PROVE  (i \in DOMAIN s /\ t[i] = s[i]) \/ (i = Len(s) + 1 /\ t[i] = c)
  <2>1. i \in 1..Len(s) \/ i = Len(s) + 1
    BY <1>2
  <2> QED BY <1>2, <2>1
<1>4. Distinct(t)
  BY <1>3 DEF Distinct
<1> QED BY <1>1, <1>2, <1>3, <1>4

LEMMA JoinKeeps ==
    ASSUME FollowInv, Join
    PROVE  FollowInv'
<1>1. co = "waves" /\ wave # <<>> /\ UNCHANGED <<plan, integ, done, builder>>
  BY DEF Join, none
<1>2. CASE Returns("worker") /\ UNCHANGED <<joined, wave>>
  BY <1>1, <1>2, FollowReturns
<1>3. CASE /\ builder[Head(wave)].st = "committed" /\ UNCHANGED <<co, error, chat>>
           /\ joined' = Append(joined, Head(wave)) /\ wave' = Tail(wave)
  <2>1. PlanInv'
    BY <1>1, <1>3 DEF FollowInv, PlanInv, Early
  <2>2. ThreadInv'
    BY <1>1 DEF FollowInv, ThreadInv, Owned
  <2>3. \A id : At(id)' = At(id)
    BY <1>1 DEF At
  <2>4. OrderInv'
    BY <1>1, <2>3 DEF FollowInv, OrderInv, Owned
  <2>5. Whole' /\ AcceptedPlanIsFeasible'
    BY <1>1, <1>3 DEF FollowInv, Whole, AcceptedPlanIsFeasible
  <2>6. \A id : InWave(id)' <=> InWave(id)
    BY <1>1 DEF InWave
  <2>7. WaveInv'
    <3>1. /\ wave \in Seq(Ids) /\ Distinct(wave) /\ joined \in Seq(Ids) /\ Distinct(joined)
          /\ done \subseteq DOMAIN plan /\ \A id \in DOMAIN plan : id \in done <=> At(id) # {}
          /\ \A i \in DOMAIN wave : InWave(wave[i])
          /\ \A i \in DOMAIN joined : InWave(joined[i]) /\ builder[joined[i]].st = "committed"
          /\ \A i \in DOMAIN wave, j \in DOMAIN joined : wave[i] # joined[j]
      BY <1>1 DEF FollowInv, WaveInv
    <3>2. /\ 1 \in DOMAIN wave /\ Head(wave) = wave[1] /\ wave' \in Seq(Ids) /\ Distinct(wave')
          /\ \A i \in DOMAIN wave' :
                wave'[i] # Head(wave) /\ \E j \in DOMAIN wave : wave'[i] = wave[j]
      BY <1>1, <1>3, <3>1, FirstAndRest
    <3>3. Head(wave) \in Ids /\ \A i \in DOMAIN joined : joined[i] # Head(wave)
      BY <3>1, <3>2
    <3>4. /\ joined' \in Seq(Ids) /\ Distinct(joined')
          /\ \A i \in DOMAIN joined' :
                joined'[i] = Head(wave) \/ \E j \in DOMAIN joined : joined'[i] = joined[j]
      BY <1>3, <3>1, <3>3, OneMore
    <3>5. ASSUME NEW i \in DOMAIN wave' PROVE InWave(wave[i])'
      BY <2>6, <3>1, <3>2
    <3>6. ASSUME NEW i \in DOMAIN joined'
          PROVE  InWave(joined[i])' /\ builder'[joined'[i]].st = "committed"
      BY <1>1, <1>3, <2>6, <3>1, <3>2, <3>4
    <3>7. ASSUME NEW i \in DOMAIN wave', NEW j \in DOMAIN joined' PROVE wave'[i] # joined'[j]
      BY <3>1, <3>2, <3>4
    <3> QED BY <1>1, <2>3, <3>1, <3>2, <3>4, <3>5, <3>6, <3>7 DEF WaveInv, Distinct
  <2> QED BY <2>1, <2>2, <2>4, <2>5, <2>7 DEF FollowInv
<1> QED BY <1>2, <1>3 DEF Join

\* A commit is added to the integration.
LEMMA IntegrationGrows ==
    ASSUME SwarmInv, NEW c, integ' = Append(integ, c)
    PROVE  /\ Len(integ) \in Nat /\ DOMAIN integ = 1..Len(integ)
           /\ DOMAIN integ' = 1..(Len(integ) + 1) /\ integ'[Len(integ) + 1] = c
           /\ \A i \in DOMAIN integ : integ'[i] = integ[i]
<1>1. IsHistory(integ)
  BY DEF SwarmInv
<1>2. /\ IsHistory(integ') /\ Begun(integ, integ')
      /\ Len(integ') = Len(integ) + 1 /\ integ'[Len(integ) + 1] = c
  BY <1>1, HistoryGrows
<1> QED BY <1>1, <1>2 DEF IsHistory, Begun

\* A task of the wave is added to the integration.
LEMMA TaskIsAdded ==
    ASSUME SwarmInv, FollowInv, co = "waves", NEW id, InWave(id), builder[id].st = "committed",
           integ' = Append(integ, Change("task", id, builder[id].edits)), UNCHANGED plan
    PROVE  /\ OrderInv' /\ At(id)' # {} /\ \A x : x # id => At(x)' = At(x)
           /\ \A i \in DOMAIN integ' : i > Len(integ) => integ'[i].by = "task"
<1>1. PICK n \in Nat : n = Len(integ)
  BY IntegrationGrows
<1>2. PICK c : c = Change("task", id, builder[id].edits)
  OBVIOUS
<1>3. c.by = "task" /\ c.id = id /\ c.files = builder[id].edits
  BY <1>2 DEF Change
<1>4. /\ DOMAIN integ = 1..n /\ DOMAIN integ' = 1..(n + 1) /\ integ'[n + 1] = c
      /\ \A i \in 1..n : integ'[i] = integ[i]
  BY <1>1, <1>2, IntegrationGrows
<1>5. id \in DOMAIN plan \ done /\ plan[id].deps \subseteq done /\ At(id) = {}
      /\ DOMAIN plan \subseteq Ids
  <2>1. DOMAIN plan \subseteq Ids
    BY PlanIs DEF FollowInv, PlanInv
  <2> QED BY <2>1 DEF FollowInv, WaveInv, InWave
<1>6. ASSUME NEW i \in DOMAIN integ'
      PROVE  (i \in DOMAIN integ /\ integ'[i] = integ[i] /\ i < n + 1) \/ i = n + 1
  <2>1. i \in 1..n \/ i = n + 1
    BY <1>4
  <2> QED BY <1>4, <2>1
<1>7. ASSUME NEW x, x # id PROVE At(x)' = At(x)
  BY <1>3, <1>4, <1>6, <1>7 DEF At
<1>8. At(id)' = {n + 1}
  <2>1. \A i \in DOMAIN integ : ~(integ[i].by = "task" /\ integ[i].id = id)
    BY <1>5 DEF At
  <2>2. n + 1 \in DOMAIN integ'
    BY <1>4
  <2> QED BY <1>3, <1>4, <1>6, <2>1, <2>2 DEF At
<1>9. ASSUME NEW i \in DOMAIN integ', integ'[i].by = "task"
      PROVE  integ'[i].id \in DOMAIN plan /\ Owned(integ'[i].id, integ'[i].files)
  <2>1. CASE i = n + 1
    BY <1>3, <1>4, <1>5, <2>1 DEF FollowInv, ThreadInv
  <2>2. CASE i \in DOMAIN integ /\ integ'[i] = integ[i]
    BY <1>9, <2>2 DEF FollowInv, OrderInv
  <2> QED BY <1>6, <2>1, <2>2
<1>10. ASSUME NEW x \in DOMAIN plan PROVE \A i, j \in At(x)' : i = j
  <2>1. \A i, j \in At(x) : i = j
    BY DEF FollowInv, OrderInv
  <2> QED BY <1>7, <1>8, <2>1
<1>11. ASSUME NEW x \in DOMAIN plan, NEW i \in At(x)', NEW d \in plan[x].deps
       PROVE  \E j \in At(d)' : j < i
  <2>1. CASE x = id
    <3>1. d \in DOMAIN plan /\ At(d) # {} /\ d # id
      BY <1>5, <2>1 DEF FollowInv, WaveInv
    <3>2. PICK j : j \in At(d)
      BY <3>1
    <3>3. j \in 1..n /\ i = n + 1
      BY <1>4, <1>8, <2>1, <3>2 DEF At
    <3> QED BY <1>7, <3>1, <3>2, <3>3
  <2>2. CASE x # id
    <3>1. i \in At(x)
      BY <1>7, <2>2
    <3>2. PICK j \in At(d) : j < i
      BY <3>1 DEF FollowInv, OrderInv
    <3>3. d # id
      BY <1>5, <3>2
    <3> QED BY <1>7, <3>2, <3>3
  <2> QED BY <2>1, <2>2
<1>12. OrderInv'
  <2>1. ASSUME NEW i \in DOMAIN integ', integ'[i].by = "task"
        PROVE  integ'[i].id \in DOMAIN plan' /\ Owned(integ[i].id, integ[i].files)'
    BY <1>9, <2>1 DEF Owned
  <2> QED BY <1>10, <1>11, <2>1 DEF OrderInv
<1>13. \A i \in DOMAIN integ' : i > Len(integ) => integ'[i].by = "task"
  BY <1>1, <1>3, <1>4, <1>6
<1> QED BY <1>7, <1>8, <1>12, <1>13

\* A cherry-pick conflicts only with what the worker's agent committed itself.
LEMMA ClashIsOwn ==
    ASSUME SwarmInv, FollowInv, co = "waves", NEW id, InWave(id),
           builder[id].st = "committed", Clash(id) # {}
    PROVE  \E x \in Ids : builder[x].own # {}
<1>1. PICK p \in Plans : validate_plan(p) /\ plan = ById(p)
  BY DEF FollowInv, PlanInv
<1>2. id \in DOMAIN plan \ done /\ id \in Ids
  BY <1>1, PlanIs DEF InWave
<1>3. PICK f : f \in builder[id].edits
               /\ f \in builder[id].own \cup FilesOf(After(builder[id].base, integ))
  BY DEF Clash
<1>4. CASE f \in builder[id].own
  BY <1>2, <1>4
<1>5. CASE f \in FilesOf(After(builder[id].base, integ))
  <2>1. PICK start, head, after :
           start = builder[id].base /\ head = integ /\ after = After(start, head)
    OBVIOUS
  <2>2. IsHistory(start) /\ IsHistory(integ) /\ Begun(start, integ)
    BY <2>1 DEF InWave, SwarmInv
  <2>3. /\ IsHistory(after) /\ Len(after) = Len(integ) - Len(start)
        /\ \A i \in 1..Len(after) : after[i] = integ[Len(start) + i]
    <3>1. IsHistory(start) /\ IsHistory(head) /\ Begun(start, head) /\ after = After(start, head)
      BY <2>1, <2>2
    <3>2. /\ IsHistory(after) /\ Len(after) = Len(head) - Len(start)
          /\ \A i \in 1..Len(after) : after[i] = head[Len(start) + i]
      BY <3>1, Follows
    <3> QED BY <2>1, <3>2
  <2>4. /\ Len(start) \in Nat /\ Len(integ) \in Nat /\ Len(after) \in Nat
        /\ DOMAIN after = 1..Len(after) /\ DOMAIN integ = 1..Len(integ)
    BY <2>2, <2>3 DEF IsHistory
  <2>5. PICK i \in DOMAIN after : f \in after[i].files
    BY <1>5, <2>1 DEF FilesOf
  <2>6. PICK k : k = Len(start) + i
    OBVIOUS
  <2>7. k \in DOMAIN integ /\ k > Len(start) /\ f \in integ[k].files
    <3>1. i \in 1..Len(after) /\ i \in Nat \ {0}
      BY <2>4, <2>5
    <3>2. k \in 1..Len(integ) /\ k > Len(start)
      BY <2>3, <2>4, <2>6, <3>1
    <3> QED BY <2>3, <2>4, <2>5, <2>6, <3>1, <3>2
  <2>8. integ[k].by = "task"
    BY <2>1, <2>7 DEF InWave
  <2>9. integ[k].id \in DOMAIN plan /\ Owned(integ[k].id, integ[k].files)
    BY <2>7, <2>8 DEF FollowInv, OrderInv
  <2>10. integ[k].id \in done
    BY <2>7, <2>8, <2>9 DEF FollowInv, WaveInv, At
  <2>11. f \in ProjectFiles /\ Owned(id, builder[id].edits)
    BY <1>2, <1>3 DEF FollowInv, ThreadInv
  <2>12. id # integ[k].id
    BY <1>2, <2>10
  <2> QED BY <1>1, <1>2, <1>3, <2>7, <2>9, <2>11, <2>12, OneOwner
<1> QED BY <1>3, <1>4, <1>5

LEMMA IntegratesKeeps ==
    ASSUME SwarmInv, FollowInv, Integrates
    PROVE  FollowInv'
<1>1. /\ co = "waves" /\ joined # <<>> /\ wave = <<>> /\ UNCHANGED <<plan, wave, builder>>
  BY DEF Integrates, none
<1>2. /\ joined \in Seq(Ids) /\ Distinct(joined)
      /\ done \subseteq DOMAIN plan /\ \A x \in DOMAIN plan : x \in done <=> At(x) # {}
      /\ \A i \in DOMAIN joined : InWave(joined[i]) /\ builder[joined[i]].st = "committed"
  BY <1>1 DEF FollowInv, WaveInv
<1>3. PICK id : id = Head(joined)
  OBVIOUS
<1>4. /\ 1 \in DOMAIN joined /\ id = joined[1] /\ InWave(id) /\ builder[id].st = "committed"
      /\ Tail(joined) \in Seq(Ids) /\ Distinct(Tail(joined))
      /\ \A i \in DOMAIN Tail(joined) :
            Tail(joined)[i] # id /\ \E j \in DOMAIN joined : Tail(joined)[i] = joined[j]
  BY <1>1, <1>2, <1>3, FirstAndRest
<1>5. CASE Clash(id) # {} /\ Returns("conflict") /\ UNCHANGED <<integ, done, joined, journal>>
  <2>1. co' = "returned" /\ error' = "conflict"
    BY <1>5, ReturnsIs
  <2>2. \E x \in Ids : builder[x].own # {}
    BY <1>1, <1>4, <1>5, ClashIsOwn
  <2>3. ~Early'
    BY <2>1 DEF Early
  <2> QED BY <1>1, <1>5, <2>1, <2>2, <2>3, FollowStays
<1>6. CASE integ' = Append(integ, Change("task", id, builder[id].edits))
           /\ \/ /\ Journals("integrated") /\ done' = done \cup {id} /\ joined' = Tail(joined)
                 /\ UNCHANGED <<co, chat>>
              \/ NotRecorded /\ UNCHANGED <<done, joined>>
  <2>1. /\ OrderInv' /\ At(id)' # {} /\ \A x : x # id => At(x)' = At(x)
        /\ \A i \in DOMAIN integ' : i > Len(integ) => integ'[i].by = "task"
    BY <1>1, <1>4, <1>6, TaskIsAdded
  <2>2. co' \in {"waves", "returned"} /\ error' \notin {"stuck", "conflict"}
    BY <1>1, <1>6, ReturnsIs DEF Journals, NotRecorded, SwarmInv
  <2>3. PlanInv'
    BY <1>1, <2>2 DEF FollowInv, PlanInv, Early
  <2>4. ThreadInv'
    BY <1>1 DEF FollowInv, ThreadInv, Owned
  <2>5. Whole' /\ AcceptedPlanIsFeasible'
    BY <2>2 DEF Whole, AcceptedPlanIsFeasible
  <2>6. WaveInv'
    <3>1. SUFFICES ASSUME co' = "waves" PROVE WaveInv'
      BY DEF WaveInv
    <3>2. done' = done \cup {id} /\ joined' = Tail(joined)
      BY <1>6, <3>1, ReturnsIs DEF NotRecorded
    <3>3. id \in DOMAIN plan
      BY <1>4 DEF InWave
    <3>4. ASSUME NEW x, x # id, InWave(x) PROVE InWave(x)'
      <4>1. PICK start : start = builder[x].base
        OBVIOUS
      <4>2. /\ IsHistory(start) /\ Begun(start, integ) /\ x \in DOMAIN plan \ done
            /\ plan[x].deps \subseteq done
            /\ \A i \in DOMAIN integ : i > Len(start) => integ[i].by = "task"
        BY <3>4, <4>1 DEF InWave
      <4>3. IsHistory(integ) /\ Len(start) \in Nat /\ Len(start) <= Len(integ)
        BY <4>2 DEF SwarmInv, IsHistory, Begun
      <4>4. /\ IsHistory(integ') /\ Begun(integ, integ') /\ Len(integ') = Len(integ) + 1
        BY <1>6, <4>3, HistoryGrows
      <4>5. Len(integ) \in Nat /\ DOMAIN integ = 1..Len(integ) /\ DOMAIN integ' = 1..Len(integ')
        BY <4>3, <4>4 DEF IsHistory
      <4>6. Begun(start, integ')
        BY <4>2, <4>3, <4>4, <4>5 DEF Begun
      <4>7. ASSUME NEW i \in DOMAIN integ', i > Len(start) PROVE integ'[i].by = "task"
        <5>1. i \in DOMAIN integ \/ i > Len(integ)
          BY <4>5
        <5> QED BY <2>1, <4>2, <4>4, <4>5, <4>7, <5>1 DEF Begun
      <4> QED BY <1>1, <3>2, <3>4, <4>1, <4>2, <4>6, <4>7 DEF InWave
    <3>5. ASSUME NEW i \in DOMAIN joined'
          PROVE  InWave(joined[i])' /\ builder'[joined'[i]].st = "committed"
      <4>1. PICK j \in DOMAIN joined : joined'[i] = joined[j] /\ joined[j] # id
        BY <1>4, <3>2
      <4>2. PICK x : x = joined[j]
        OBVIOUS
      <4>3. InWave(x)' /\ builder'[x].st = "committed"
        BY <1>1, <1>2, <3>4, <4>1, <4>2
      <4> QED BY <4>1, <4>2, <4>3
    <3>6. done' \subseteq DOMAIN plan' /\ \A x \in DOMAIN plan' : x \in done' <=> At(x)' # {}
      BY <1>1, <1>2, <2>1, <3>2, <3>3
    <3>7. wave' \in Seq(Ids) /\ DOMAIN wave' = {}
      BY <1>1
    <3> QED BY <1>4, <3>2, <3>5, <3>6, <3>7 DEF WaveInv, Distinct
  <2> QED BY <2>1, <2>3, <2>4, <2>5, <2>6 DEF FollowInv
<1>7. CASE Returns("git") /\ UNCHANGED <<integ, done, joined>>
  BY <1>1, <1>7, FollowReturns
<1> QED BY <1>3, <1>5, <1>6, <1>7 DEF Integrates

\* The reviewer's commit is not a task's.
LEMMA ReviewKeeps ==
    ASSUME SwarmInv, FollowInv, Reviews
    PROVE  FollowInv'
<1>1. co = "reviewing" /\ UNCHANGED <<plan, done, wave, joined, builder>>
  BY DEF Reviews
<1>2. CASE Returns("hermes") /\ UNCHANGED <<integ, journal>>
  BY <1>1, <1>2, FollowReturns
<1>3. CASE /\ \E files \in {{}} \cup {{f} : f \in ProjectFiles} :
                integ' = IF files = {} THEN integ ELSE Append(integ, Change("review", 0, files))
           /\ \/ co' = "verifying" /\ Journals("verifying") /\ UNCHANGED chat
              \/ NotRecorded
  <2>1. co' \in {"verifying", "returned"} /\ error' \notin {"stuck", "conflict"}
    BY <1>1, <1>3, ReturnsIs DEF Journals, NotRecorded, SwarmInv
  <2>2. \/ integ' = integ
        \/ \E c : c.by = "review" /\ integ' = Append(integ, c)
    <3>1. PICK files : integ' = IF files = {} THEN integ ELSE Append(integ, Change("review", 0, files))
      BY <1>3
    <3>2. Change("review", 0, files).by = "review"
      BY DEF Change
    <3> QED BY <3>1, <3>2
  <2>3. /\ \A i \in DOMAIN integ : i \in DOMAIN integ' /\ integ'[i] = integ[i]
        /\ \A i \in DOMAIN integ' : integ'[i].by = "task" => i \in DOMAIN integ
    <3>1. CASE integ' = integ
      BY <3>1
    <3>2. ASSUME NEW c, c.by = "review", integ' = Append(integ, c)
          PROVE  /\ \A i \in DOMAIN integ : i \in DOMAIN integ' /\ integ'[i] = integ[i]
                 /\ \A i \in DOMAIN integ' : integ'[i].by = "task" => i \in DOMAIN integ
      <4>1. /\ Len(integ) \in Nat /\ DOMAIN integ = 1..Len(integ)
            /\ DOMAIN integ' = 1..(Len(integ) + 1) /\ integ'[Len(integ) + 1] = c
            /\ \A i \in DOMAIN integ : integ'[i] = integ[i]
        BY <3>2, IntegrationGrows
      <4>2. ASSUME NEW i \in DOMAIN integ', integ'[i].by = "task" PROVE i \in DOMAIN integ
        <5>1. i \in 1..Len(integ) \/ i = Len(integ) + 1
          BY <4>1
        <5> QED BY <3>2, <4>1, <4>2, <5>1
      <4>3. \A i \in DOMAIN integ : i \in DOMAIN integ'
        BY <4>1
      <4> QED BY <4>1, <4>2, <4>3
    <3> QED BY <2>2, <3>1, <3>2
  <2>4. \A id : At(id)' = At(id)
    BY <2>3 DEF At
  <2>5. PlanInv'
    BY <1>1, <2>1 DEF FollowInv, PlanInv, Early
  <2>6. ThreadInv'
    BY <1>1 DEF FollowInv, ThreadInv, Owned
  <2>7. OrderInv'
    <3>1. ASSUME NEW i \in DOMAIN integ', integ'[i].by = "task"
          PROVE  integ'[i].id \in DOMAIN plan' /\ Owned(integ[i].id, integ[i].files)'
      BY <1>1, <2>3, <3>1 DEF FollowInv, OrderInv, Owned
    <3> QED BY <1>1, <2>4, <3>1 DEF FollowInv, OrderInv
  <2>8. WaveInv' /\ Whole' /\ AcceptedPlanIsFeasible'
    BY <1>1, <2>1, <2>4 DEF FollowInv, WaveInv, Whole, AcceptedPlanIsFeasible
  <2> QED BY <2>5, <2>6, <2>7, <2>8 DEF FollowInv
<1> QED BY <1>2, <1>3 DEF Reviews

LEMMA FollowInitially ==
    ASSUME SwarmInit PROVE FollowInv
<1>1. /\ co = "start" /\ error = "none" /\ DOMAIN plan = {} /\ integ = <<>> /\ wave = none
      /\ joined = none /\ done = {} /\ builder = [id \in Ids |-> idle]
  BY DEF SwarmInit, none
<1>2. /\ DOMAIN idle = {"st", "base", "edits", "own"} /\ idle.st = "none" /\ idle.edits = {}
  BY DEF idle
<1>3. /\ DOMAIN builder = Ids
      /\ \A id \in Ids : builder[id] = idle
  BY <1>1
<1>4. PlanInv /\ ThreadInv
  BY <1>1, <1>2, <1>3 DEF PlanInv, ThreadInv, Early, none
<1>5. OrderInv
  <2>1. DOMAIN integ = {}
    BY <1>1
  <2> QED BY <1>1, <2>1 DEF OrderInv
<1>6. WaveInv /\ Whole /\ AcceptedPlanIsFeasible
  BY <1>1 DEF WaveInv, Whole, AcceptedPlanIsFeasible
<1> QED BY <1>4, <1>5, <1>6 DEF FollowInv

LEMMA FollowStep ==
    ASSUME SwarmInv, FollowInv, [SwarmNext]_(swarmVars)
    PROVE  FollowInv'
<1>1. CASE Coordinator \/ AskPlanner \/ Reviews \/ Verifies
  BY <1>1, FollowQuiet, PlanKeeps, BasesKeeps, StartsWave, JoinKeeps, IntegratesKeeps, ReviewKeeps
  DEF Coordinator
<1>2. CASE \E id \in Ids : WorkerEdits(id) \/ WorkerCommitsItself(id) \/ WorkerEnds(id)
  BY <1>2, ThreadsKeep
<1>3. CASE \/ FallbackEnds \/ SwarmReports \/ Cancel \/ UserActs \/ UNCHANGED swarmVars
           \/ \E run \in Ids \cup {0} : HermesEscapes(run)
  BY <1>3, FollowQuiet
<1> QED BY <1>1, <1>2, <1>3 DEF SwarmNext

(* run, run_worker and validate_plan in project_swarm.rs: the integration   *)
(* worktree gets each task of the accepted plan once, after the tasks it    *)
(* depends on, with changes to its own paths only, and the review begins    *)
(* when all tasks are there, however the threads of a wave and the user     *)
(* interleave.                                                              *)
THEOREM WavesFollowPlan == SwarmSpec => []IntegrationFollowsPlan
<1>1. SwarmInit => SwarmInv /\ FollowInv
  BY SwarmInitially, FollowInitially
<1>2. SwarmInv /\ FollowInv /\ [SwarmNext]_(swarmVars) => (SwarmInv /\ FollowInv)'
  BY SwarmStep, FollowStep
<1>3. FollowInv => IntegrationFollowsPlan
  <2>1. SUFFICES ASSUME FollowInv PROVE IntegrationFollowsPlan
    OBVIOUS
  <2>2. ASSUME NEW id \in DOMAIN plan PROVE Cardinality(At(id)) <= 1
    <3>1. \A i, j \in At(id) : i = j
      BY <2>1 DEF FollowInv, OrderInv
    <3>2. At(id) = {} \/ \E i : At(id) = {i}
      BY <3>1
    <3> QED BY <3>2, FS_EmptySet, FS_Singleton
  <2>3. ASSUME NEW id \in DOMAIN plan, NEW i \in At(id)
        PROVE  /\ \A d \in plan[id].deps : \E j \in At(d) : j < i
               /\ \A f \in integ[i].files :
                     \E owned \in plan[id].owned : path_is_owned(f, owned)
    BY <2>1 DEF FollowInv, OrderInv, At, Owned
  <2>4. co \in {"reviewing", "verifying", "publishing"} => \A id \in DOMAIN plan : At(id) # {}
    BY <2>1 DEF FollowInv, Whole
  <2> QED BY <2>2, <2>3, <2>4, Zenon DEF IntegrationFollowsPlan, At
<1> QED BY <1>1, <1>2, <1>3, PTL DEF SwarmSpec

(* What validate_plan accepts can be carried out: there is always a ready   *)
(* task while one is pending (no cycle), and a cherry-pick conflicts only   *)
(* after an agent's own commit (no two tasks own a file).                   *)
THEOREM PlansAreFeasible == SwarmSpec => []AcceptedPlanIsFeasible
<1>1. SwarmInit => SwarmInv /\ FollowInv
  BY SwarmInitially, FollowInitially
<1>2. SwarmInv /\ FollowInv /\ [SwarmNext]_(swarmVars) => (SwarmInv /\ FollowInv)'
  BY SwarmStep, FollowStep
<1>3. FollowInv => AcceptedPlanIsFeasible
  BY DEF FollowInv
<1> QED BY <1>1, <1>2, <1>3, PTL DEF SwarmSpec
==============================================================================
