-------------------------- MODULE NodeControl_proofs --------------------------
(***************************************************************************)
(* Proofs about NodeControl for any number of terminals, agents, commands, *)
(* releases and faults.                                                    *)
(*                                                                         *)
(* That the state file names the holder's server, and that a server left   *)
(* behind is recorded, both rest on the same argument: an agent that waits *)
(* for its server holds the run lock and found nobody answering, so that   *)
(* the server recorded before it cannot be healthy any more.               *)
(***************************************************************************)
EXTENDS NodeControl, TLAPS

AgentPcs == {"none", "boot", "locked", "probe", "wait", "save", "admit", "loop",
             "drop", "forget", "dying", "gone"}

(* Before the handle exists, before the server is started, under the lock. *)
NoHandleYet == {"none", "boot", "locked", "probe", "wait"}
NoServerYet == {"none", "boot", "locked", "probe"}
UnderLock   == {"locked", "probe", "wait", "save", "admit", "loop", "drop", "forget"}

AgentType ==
    /\ agent \in [Agents -> [pc : AgentPcs, handle : Nat]]
    /\ runtime \in [Agents -> {"none", "starting", "healthy", "dead"}]
    /\ statefile \in Agents \cup {nobody}

(* One agent at a time is past the lock, or has been and still lives.      *)
LockInv ==
    \A a \in Agents :
       /\ agent[a].pc \in UnderLock => lock = a
       /\ agent[a].handle \in {nobody, a}
       /\ agent[a].handle # nobody => agent[a].pc = "gone" \/ lock = a
       /\ agent[a].pc \in NoHandleYet => agent[a].handle = nobody
       /\ agent[a].pc \in NoServerYet => ~Live(a)
       /\ agent[a].pc = "forget" => runtime[a] = "dead" /\ agent[a].handle = a
       /\ statefile = a => agent[a].handle = a

(* What is recorded in good order answers, and nobody else is about to     *)
(* record or forget a server.                                              *)
RecordInv ==
    \A r \in Agents :
       statefile = r /\ Live(r) /\ r \notin lost
       => /\ runtime[r] = "healthy"
          /\ \A b \in Agents \ {r} :
                /\ agent[b].pc # "wait"
                /\ agent[b].handle # nobody => agent[b].pc = "gone"

ServerInv == AgentType /\ LockInv /\ RecordInv /\ OrphanIsRecorded

-----------------------------------------------------------------------------
(* A move changes one agent's place and nothing else of it. *)
LEMMA GoesOne ==
    ASSUME AgentType, NEW a \in Agents, NEW p \in AgentPcs, Goes(a, p)
    PROVE  /\ agent' \in [Agents -> [pc : AgentPcs, handle : Nat]]
           /\ agent'[a].pc = p /\ agent'[a].handle = agent[a].handle
           /\ \A b \in Agents \ {a} : agent'[b] = agent[b]
BY DEF AgentType, Goes

(* An agent under the lock moves on with its handle, neither to the start  *)
(* of a server nor past its end.                                           *)
LEMMA MoveKeeps ==
    ASSUME ServerInv, NEW a \in Agents, NEW p \in {"probe", "save", "admit", "loop", "drop"},
           agent[a].pc \in UnderLock, p = "probe" => agent[a].pc = "locked",
           Goes(a, p), UNCHANGED <<runtime, statefile, lock, lost>>
    PROVE  ServerInv'
<1>1. /\ agent' \in [Agents -> [pc : AgentPcs, handle : Nat]]
      /\ agent'[a].pc = p /\ agent'[a].handle = agent[a].handle
      /\ \A b \in Agents \ {a} : agent'[b] = agent[b]
  BY GoesOne DEF ServerInv, AgentPcs
<1>2. AgentType'
  BY <1>1 DEF ServerInv, AgentType
<1>3. \A r \in Agents : Live(r)' = Live(r)
  BY DEF Live
<1>4. LockInv'
  BY <1>1, <1>3 DEF ServerInv, LockInv, UnderLock, NoHandleYet, NoServerYet
<1>5. RecordInv'
  BY <1>1, <1>3 DEF ServerInv, RecordInv, LockInv, UnderLock
<1>6. OrphanIsRecorded'
  BY <1>1, <1>3 DEF ServerInv, OrphanIsRecorded, Alive
<1> QED BY <1>2, <1>4, <1>5, <1>6 DEF ServerInv

(* The process ends; whatever it held of the lock is free. *)
LEMMA EndKeeps ==
    ASSUME ServerInv, NEW a \in Agents, Alive(a), Ends(a), UNCHANGED runtime,
           \/ statefile' = statefile
           \/ agent[a].pc = "forget" /\ statefile' = nobody
    PROVE  ServerInv'
<1>1. /\ agent' \in [Agents -> [pc : AgentPcs, handle : Nat]]
      /\ agent'[a].pc = "gone" /\ agent'[a].handle = agent[a].handle
      /\ \A b \in Agents \ {a} : agent'[b] = agent[b]
  BY GoesOne DEF ServerInv, AgentPcs, Ends
<1>2. AgentType'
  BY <1>1 DEF ServerInv, AgentType
<1>3. /\ lock' = IF lock = a THEN nobody ELSE lock
      /\ lost' = lost \cup {r \in {a} : Live(r) /\ statefile # r}
  BY DEF Ends
<1>4. \A r \in Agents : Live(r)' = Live(r)
  BY DEF Live
<1>5. nobody \notin Agents
  BY DEF nobody, Agents
<1>6. LockInv'
  BY <1>1, <1>3, <1>4, <1>5 DEF ServerInv, LockInv, UnderLock, NoHandleYet, NoServerYet
<1>7. RecordInv'
  BY <1>1, <1>3, <1>4, <1>5 DEF ServerInv, RecordInv
<1>8. OrphanIsRecorded'
  <2> SUFFICES ASSUME NEW r \in Agents, Live(r)
               PROVE  Alive(r)' \/ statefile' = r \/ r \in lost'
    BY <1>4 DEF OrphanIsRecorded
  <2>1. CASE r = a
    <3>1. CASE agent[a].pc = "forget"
      BY <2>1, <3>1 DEF ServerInv, LockInv, Live
    <3>2. CASE agent[a].pc # "forget"
      BY <1>3, <2>1, <3>2
    <3> QED BY <3>1, <3>2
  <2>2. CASE r # a
    <3>1. CASE statefile' = statefile
      BY <1>1, <1>3, <2>2, <3>1 DEF ServerInv, OrphanIsRecorded, Alive
    <3>2. CASE agent[a].pc = "forget"
      <4>1. agent[a].handle # nobody /\ agent[a].pc # "gone"
        BY <1>5, <3>2 DEF ServerInv, LockInv
      <4>2. statefile = r => r \in lost
        BY <2>2, <4>1 DEF ServerInv, RecordInv
      <4> QED BY <1>1, <1>3, <2>2, <4>2 DEF ServerInv, OrphanIsRecorded, Alive
    <3> QED BY <3>1, <3>2
  <2> QED BY <2>1, <2>2
<1> QED BY <1>2, <1>6, <1>7, <1>8 DEF ServerInv

(* A signal reaches an agent that lives, or nobody. *)
LEMMA KillKeeps ==
    ASSUME ServerInv, NEW a, Kill(a), UNCHANGED <<runtime, statefile, lock, lost>>
    PROVE  ServerInv'
<1>1. CASE a \in Agents /\ Alive(a)
  <2>1. Goes(a, "dying")
    BY <1>1 DEF Kill, Goes
  <2>2. /\ agent' \in [Agents -> [pc : AgentPcs, handle : Nat]]
        /\ agent'[a].pc = "dying" /\ agent'[a].handle = agent[a].handle
        /\ \A b \in Agents \ {a} : agent'[b] = agent[b]
    BY <1>1, <2>1, GoesOne DEF ServerInv, AgentPcs
  <2>3. AgentType'
    BY <2>2 DEF ServerInv, AgentType
  <2>4. \A r \in Agents : Live(r)' = Live(r)
    BY DEF Live
  <2>5. agent[a].pc # "gone"
    BY <1>1 DEF Alive
  <2>6. LockInv'
    BY <1>1, <2>2, <2>4, <2>5 DEF ServerInv, LockInv, UnderLock, NoHandleYet, NoServerYet
  <2>7. RecordInv'
    BY <1>1, <2>2, <2>4, <2>5 DEF ServerInv, RecordInv
  <2>8. OrphanIsRecorded'
    BY <1>1, <2>2, <2>4 DEF ServerInv, OrphanIsRecorded, Alive
  <2> QED BY <2>3, <2>6, <2>7, <2>8 DEF ServerInv
<1>2. CASE ~(a \in Agents /\ Alive(a))
  <2>1. UNCHANGED <<agent, runtime, statefile, lock, lost>>
    BY <1>2 DEF Kill
  <2> QED BY <2>1 DEF ServerInv, AgentType, LockInv, RecordInv, OrphanIsRecorded, Live, Alive
<1> QED BY <1>1, <1>2

(* A server ends, or is killed, that has been started. *)
LEMMA DeathKeeps ==
    ASSUME ServerInv, NEW r \in Agents, runtime' = [runtime EXCEPT ![r] = "dead"],
           UNCHANGED <<agent, statefile, lock, lost>>
    PROVE  ServerInv'
<1>1. \A k \in Agents : Live(k)' => Live(k) /\ k # r /\ runtime'[k] = runtime[k]
  BY DEF Live, ServerInv, AgentType
<1>2. AgentType'
  BY DEF ServerInv, AgentType
<1>3. \A k \in Agents : runtime[k] = "dead" => runtime'[k] = "dead"
  BY DEF ServerInv, AgentType
<1>4. LockInv'
  BY <1>1, <1>3 DEF ServerInv, LockInv
<1>5. RecordInv'
  BY <1>1 DEF ServerInv, RecordInv
<1>6. OrphanIsRecorded'
  BY <1>1 DEF ServerInv, OrphanIsRecorded, Alive
<1> QED BY <1>2, <1>4, <1>5, <1>6 DEF ServerInv

-----------------------------------------------------------------------------
(* A step that touches neither agents nor servers nor their files. *)
LEMMA IdleKeeps ==
    ASSUME ServerInv, UNCHANGED <<agent, runtime, statefile, lock, lost>>
    PROVE  ServerInv'
BY DEF ServerInv, AgentType, LockInv, RecordInv, OrphanIsRecorded, Live, Alive

(* The lock is taken when nobody has it; an agent that finds it taken ends *)
(* without a server.                                                       *)
LEMMA AcquireKeeps ==
    ASSUME ServerInv, NEW a \in Agents, acquire_agent_run_lock(a)
    PROVE  ServerInv'
<1>1. agent[a].pc = "boot" /\ UNCHANGED <<runtime, statefile, lost>>
  BY DEF acquire_agent_run_lock, At
<1>2. \A r \in Agents : Live(r)' = Live(r)
  BY <1>1 DEF Live
<1>3. agent[a].handle = nobody /\ ~Live(a)
  BY <1>1 DEF ServerInv, LockInv, NoHandleYet, NoServerYet
<1>4. nobody \notin Agents
  BY DEF nobody, Agents
<1>5. CASE lock = nobody
  <2>1. lock' = a /\ Goes(a, "locked")
    BY <1>5 DEF acquire_agent_run_lock
  <2>2. /\ agent' \in [Agents -> [pc : AgentPcs, handle : Nat]]
        /\ agent'[a].pc = "locked" /\ agent'[a].handle = agent[a].handle
        /\ \A b \in Agents \ {a} : agent'[b] = agent[b]
    BY <2>1, GoesOne DEF ServerInv, AgentPcs
  <2>3. AgentType'
    BY <1>1, <2>2 DEF ServerInv, AgentType
  <2>4. LockInv'
    BY <1>1, <1>2, <1>3, <1>4, <1>5, <2>1, <2>2
       DEF ServerInv, LockInv, UnderLock, NoHandleYet, NoServerYet
  <2>5. RecordInv'
    BY <1>1, <1>2, <1>3, <2>2 DEF ServerInv, RecordInv
  <2>6. OrphanIsRecorded'
    BY <1>1, <1>2, <2>2 DEF ServerInv, OrphanIsRecorded, Alive
  <2> QED BY <2>3, <2>4, <2>5, <2>6 DEF ServerInv
<1>6. CASE lock # nobody
  <2>1. lock' = lock /\ Goes(a, "gone")
    BY <1>6 DEF acquire_agent_run_lock
  <2>2. /\ agent' \in [Agents -> [pc : AgentPcs, handle : Nat]]
        /\ agent'[a].pc = "gone" /\ agent'[a].handle = agent[a].handle
        /\ \A b \in Agents \ {a} : agent'[b] = agent[b]
    BY <2>1, GoesOne DEF ServerInv, AgentPcs
  <2>3. AgentType'
    BY <1>1, <2>2 DEF ServerInv, AgentType
  <2>4. LockInv'
    BY <1>1, <1>2, <1>3, <2>1, <2>2 DEF ServerInv, LockInv, UnderLock, NoHandleYet, NoServerYet
  <2>5. RecordInv'
    BY <1>1, <1>2, <2>2 DEF ServerInv, RecordInv
  <2>6. OrphanIsRecorded'
    BY <1>1, <1>2, <1>3, <2>2 DEF ServerInv, OrphanIsRecorded, Alive
  <2> QED BY <2>3, <2>4, <2>5, <2>6 DEF ServerInv
<1> QED BY <1>5, <1>6

(* A server is started only where none answers: nothing recorded in good   *)
(* order is left alive.                                                    *)
LEMMA StartKeeps ==
    ASSUME ServerInv, NEW a \in Agents, start_persistent_runtime(a)
    PROVE  ServerInv'
<1>1. agent[a].pc = "probe" /\ UNCHANGED <<statefile, lock, lost>>
  BY DEF start_persistent_runtime, At, files
<1>2. CASE Goes(a, "save") /\ UNCHANGED runtime
  BY <1>1, <1>2, MoveKeeps DEF UnderLock
<1>3. CASE Serving = {} /\ Goes(a, "wait") /\ runtime' = [runtime EXCEPT ![a] = "starting"]
  <2>1. /\ agent' \in [Agents -> [pc : AgentPcs, handle : Nat]]
        /\ agent'[a].pc = "wait" /\ agent'[a].handle = agent[a].handle
        /\ \A b \in Agents \ {a} : agent'[b] = agent[b]
    BY <1>3, GoesOne DEF ServerInv, AgentPcs
  <2>2. /\ \A k \in Agents \ {a} : runtime'[k] = runtime[k] /\ Live(k)' = Live(k)
        /\ runtime'[a] = "starting"
    BY <1>3 DEF Live, ServerInv, AgentType
  <2>3. AgentType'
    BY <1>1, <1>3, <2>1 DEF ServerInv, AgentType
  <2>4. agent[a].handle = nobody /\ lock = a /\ statefile # a
    BY <1>1 DEF ServerInv, LockInv, NoHandleYet, UnderLock, nobody, Agents
  <2>5. LockInv'
    BY <1>1, <2>1, <2>2, <2>4 DEF ServerInv, LockInv, UnderLock, NoHandleYet, NoServerYet
  <2>6. \A r \in Agents : statefile = r /\ Live(r) => r \in lost
    BY <1>3 DEF ServerInv, RecordInv, Serving
  <2>7. RecordInv'
    BY <1>1, <2>2, <2>4, <2>6 DEF RecordInv
  <2>8. OrphanIsRecorded'
    BY <1>1, <2>1, <2>2 DEF ServerInv, OrphanIsRecorded, Alive
  <2> QED BY <2>3, <2>5, <2>7, <2>8 DEF ServerInv
<1> QED BY <1>2, <1>3 DEF start_persistent_runtime

(* The server answers, or another one does for it, and is recorded. *)
LEMMA AnswersKeeps ==
    ASSUME ServerInv, NEW a \in Agents, RuntimeAnswers(a)
    PROVE  ServerInv'
<1>1. /\ agent[a].pc = "wait" /\ UNCHANGED <<lock, runtime>>
      /\ agent' = [agent EXCEPT ![a] = [pc |-> "save", handle |-> a]]
  BY DEF RuntimeAnswers, At
<1>2. /\ agent' \in [Agents -> [pc : AgentPcs, handle : Nat]]
      /\ agent'[a].pc = "save" /\ agent'[a].handle = a
      /\ \A b \in Agents \ {a} : agent'[b] = agent[b]
  BY <1>1 DEF ServerInv, AgentType, AgentPcs, Agents
<1>3. \A r \in Agents : Live(r)' = Live(r)
  BY <1>1 DEF Live
<1>4. lock = a
  BY <1>1 DEF ServerInv, LockInv, UnderLock
<1>5. CASE statefile' = a /\ lost' = lost \cup ({a} \ Serving)
  <2>1. AgentType'
    BY <1>1, <1>2, <1>5 DEF ServerInv, AgentType
  <2>2. LockInv'
    BY <1>1, <1>2, <1>3, <1>4, <1>5 DEF ServerInv, LockInv, UnderLock, NoHandleYet, NoServerYet
  <2>3. \A b \in Agents \ {a} : /\ agent[b].pc # "wait"
                                /\ agent[b].handle # nobody => agent[b].pc = "gone"
    BY <1>4 DEF ServerInv, LockInv, UnderLock
  <2>4. RecordInv'
    BY <1>1, <1>2, <1>5, <2>3 DEF RecordInv, Serving
  <2>5. OrphanIsRecorded'
    <3> SUFFICES ASSUME NEW r \in Agents, Live(r)
                 PROVE  Alive(r)' \/ statefile' = r \/ r \in lost'
      BY <1>3 DEF OrphanIsRecorded
    <3>1. statefile = r /\ r # a => r \in lost
      BY <1>1 DEF ServerInv, RecordInv
    <3> QED BY <1>2, <1>5, <3>1 DEF ServerInv, OrphanIsRecorded, Alive
  <2> QED BY <2>1, <2>2, <2>4, <2>5 DEF ServerInv
<1>6. CASE UNCHANGED <<statefile, lost>>
  <2>1. AgentType'
    BY <1>1, <1>2, <1>6 DEF ServerInv, AgentType
  <2>2. LockInv'
    BY <1>1, <1>2, <1>3, <1>4, <1>6 DEF ServerInv, LockInv, UnderLock, NoHandleYet, NoServerYet
  <2>3. RecordInv'
    BY <1>1, <1>2, <1>3, <1>6 DEF ServerInv, RecordInv
  <2>4. OrphanIsRecorded'
    BY <1>2, <1>3, <1>6 DEF ServerInv, OrphanIsRecorded, Alive
  <2> QED BY <2>1, <2>2, <2>3, <2>4 DEF ServerInv
<1> QED BY <1>5, <1>6 DEF RuntimeAnswers

(* The server that did not come up is dead when the agent goes on. *)
LEMMA FailsKeeps ==
    ASSUME ServerInv, NEW a \in Agents, NEW p \in {"save", "forget"},
           agent[a].pc \in {"wait", "drop"}, p = "forget" => agent[a].handle = a,
           Goes(a, p), runtime' = [runtime EXCEPT ![a] = "dead"],
           UNCHANGED <<statefile, lock, lost>>
    PROVE  ServerInv'
<1>1. /\ agent' \in [Agents -> [pc : AgentPcs, handle : Nat]]
      /\ agent'[a].pc = p /\ agent'[a].handle = agent[a].handle
      /\ \A b \in Agents \ {a} : agent'[b] = agent[b]
  BY GoesOne DEF ServerInv, AgentPcs
<1>2. /\ \A k \in Agents : Live(k)' => Live(k) /\ k # a
      /\ \A k \in Agents \ {a} : runtime'[k] = runtime[k]
      /\ runtime'[a] = "dead"
  BY DEF Live, ServerInv, AgentType
<1>3. AgentType'
  BY <1>1 DEF ServerInv, AgentType
<1>4. LockInv'
  BY <1>1, <1>2 DEF ServerInv, LockInv, UnderLock, NoHandleYet, NoServerYet
<1>5. RecordInv'
  BY <1>1, <1>2 DEF ServerInv, RecordInv
<1>6. OrphanIsRecorded'
  BY <1>1, <1>2 DEF ServerInv, OrphanIsRecorded, Alive
<1> QED BY <1>3, <1>4, <1>5, <1>6 DEF ServerInv

LEMMA AgentKeeps ==
    ASSUME ServerInv, NEW a \in Agents, AgentStep(a) \/ LoopFails(a)
    PROVE  ServerInv'
<1>1. CASE acquire_agent_run_lock(a)
  BY <1>1, AcquireKeeps
<1>2. CASE should_keep_runtime_warm(a)
  <2>1. /\ agent[a].pc = "locked" /\ UNCHANGED <<runtime, statefile, lock, lost>>
        /\ Goes(a, "probe") \/ Goes(a, "save")
    BY <1>2 DEF should_keep_runtime_warm, At, files
  <2> QED BY <2>1, MoveKeeps DEF UnderLock
<1>3. CASE start_persistent_runtime(a)
  BY <1>3, StartKeeps
<1>4. CASE RuntimeAnswers(a)
  BY <1>4, AnswersKeeps
<1>5. CASE RuntimeFails(a)
  BY <1>5, FailsKeeps DEF RuntimeFails, At, files
<1>6. CASE FirstHeartbeat(a)
  <2>1. agent[a].pc = "save" /\ UNCHANGED <<runtime, statefile>>
    BY <1>6 DEF FirstHeartbeat, At
  <2>2. CASE Goes(a, "admit") /\ UNCHANGED <<lock, lost>>
    BY <2>1, <2>2, MoveKeeps DEF UnderLock
  <2>3. CASE Ends(a)
    BY <2>1, <2>3, EndKeeps DEF Alive
  <2> QED BY <1>6, <2>2, <2>3 DEF FirstHeartbeat
<1>7. CASE Admission(a)
  <2>1. /\ agent[a].pc = "admit" /\ UNCHANGED <<runtime, statefile, lock, lost>>
        /\ Goes(a, "loop") \/ Goes(a, "drop")
    BY <1>7 DEF Admission, At, files
  <2> QED BY <2>1, MoveKeeps DEF UnderLock
<1>8. CASE should_agent_run(a) \/ LoopFails(a)
  <2>1. /\ agent[a].pc = "loop" /\ UNCHANGED <<runtime, statefile, lock, lost>>
        /\ Goes(a, "drop")
    BY <1>8 DEF should_agent_run, LoopFails, At, files
  <2> QED BY <2>1, MoveKeeps DEF UnderLock
<1>9. CASE StopsRuntime(a)
  <2>1. agent[a].pc = "drop" /\ UNCHANGED statefile
    BY <1>9 DEF StopsRuntime, At
  <2>2. CASE agent[a].handle = nobody
    BY <1>9, <2>1, <2>2, EndKeeps DEF StopsRuntime, Alive
  <2>3. CASE agent[a].handle # nobody
    <3>1. agent[a].handle = a
      BY <2>3 DEF ServerInv, LockInv
    <3>2. runtime' = [runtime EXCEPT ![a] = "dead"] /\ Goes(a, "forget") /\ UNCHANGED <<lock, lost>>
      BY <1>9, <2>3, <3>1 DEF StopsRuntime
    <3> QED BY <2>1, <3>1, <3>2, FailsKeeps
  <2> QED BY <2>2, <2>3
<1>10. CASE ForgetsRuntime(a)
  BY <1>10, EndKeeps DEF ForgetsRuntime, At, Alive
<1>11. CASE Dies(a)
  BY <1>11, EndKeeps DEF Dies, At, Alive
<1> QED BY <1>1, <1>2, <1>3, <1>4, <1>5, <1>6, <1>7, <1>8, <1>9, <1>10, <1>11 DEF AgentStep

LEMMA ListensKeeps ==
    ASSUME ServerInv, NEW r \in Agents, RuntimeListens(r)
    PROVE  ServerInv'
<1>1. /\ runtime[r] = "starting" /\ UNCHANGED <<agent, statefile, lock, lost>>
      /\ runtime' = [runtime EXCEPT ![r] = IF Serving = {} THEN "healthy" ELSE "dead"]
  BY DEF RuntimeListens, files
<1>2. CASE Serving # {}
  BY <1>1, <1>2, DeathKeeps
<1>3. CASE Serving = {}
  <2>1. /\ \A k \in Agents \ {r} : runtime'[k] = runtime[k]
        /\ runtime'[r] = "healthy"
        /\ \A k \in Agents : Live(k)' = Live(k)
    BY <1>1, <1>3 DEF Live, ServerInv, AgentType
  <2>2. AgentType'
    BY <1>1, <1>3 DEF ServerInv, AgentType
  <2>3. LockInv'
    BY <1>1, <2>1 DEF ServerInv, LockInv
  <2>4. RecordInv'
    BY <1>1, <2>1 DEF ServerInv, RecordInv
  <2>5. OrphanIsRecorded'
    BY <1>1, <2>1 DEF ServerInv, OrphanIsRecorded, Alive
  <2> QED BY <2>2, <2>3, <2>4, <2>5 DEF ServerInv
<1> QED BY <1>2, <1>3

LEMMA RuntimeKeeps ==
    ASSUME ServerInv, NEW r \in Agents, RuntimeListens(r) \/ RuntimeDies(r)
    PROVE  ServerInv'
BY ListensKeeps, DeathKeeps DEF RuntimeDies, files

(* launch_node_agent spawns an agent that was not there. *)
LEMMA LaunchKeeps ==
    ASSUME ServerInv, NEW c \in Clis, launch_node_agent(c)
    PROVE  ServerInv'
<1>1. PICK a \in Agents : agent[a].pc = "none" /\ Goes(a, "boot")
  BY DEF launch_node_agent, At
<1>2. UNCHANGED <<runtime, statefile, lock, lost>>
  BY DEF launch_node_agent, files
<1>3. /\ agent' \in [Agents -> [pc : AgentPcs, handle : Nat]]
      /\ agent'[a].pc = "boot" /\ agent'[a].handle = agent[a].handle
      /\ \A b \in Agents \ {a} : agent'[b] = agent[b]
  BY <1>1, GoesOne DEF ServerInv, AgentPcs
<1>4. \A r \in Agents : Live(r)' = Live(r)
  BY <1>2 DEF Live
<1>5. agent[a].handle = nobody /\ ~Live(a)
  BY <1>1 DEF ServerInv, LockInv, NoHandleYet, NoServerYet
<1>6. AgentType'
  BY <1>2, <1>3 DEF ServerInv, AgentType
<1>7. LockInv'
  BY <1>1, <1>2, <1>3, <1>4, <1>5 DEF ServerInv, LockInv, UnderLock, NoHandleYet, NoServerYet
<1>8. RecordInv'
  BY <1>2, <1>3, <1>4, <1>5 DEF ServerInv, RecordInv
<1>9. OrphanIsRecorded'
  BY <1>2, <1>3, <1>4 DEF ServerInv, OrphanIsRecorded, Alive
<1> QED BY <1>6, <1>7, <1>8, <1>9 DEF ServerInv

(* A stop kills the recorded server, and afterwards removes the record,    *)
(* whatever it names by then.                                              *)
LEMMA StopKeeps ==
    ASSUME ServerInv, NEW c \in Clis,
           stop_persistent_runtime_from_state(c) \/ remove_persistent_runtime_state(c)
    PROVE  ServerInv'
<1>1. CASE stop_persistent_runtime_from_state(c)
  <2>1. UNCHANGED <<agent, statefile, lock, lost>>
    BY <1>1 DEF stop_persistent_runtime_from_state, files
  <2>2. CASE statefile = nobody
    BY <1>1, <2>1, <2>2, IdleKeeps DEF stop_persistent_runtime_from_state
  <2>3. CASE statefile # nobody
    <3>1. statefile \in Agents /\ runtime' = [runtime EXCEPT ![statefile] = "dead"]
      BY <1>1, <2>3 DEF stop_persistent_runtime_from_state, ServerInv, AgentType
    <3> QED BY <2>1, <3>1, DeathKeeps
  <2> QED BY <2>2, <2>3
<1>2. CASE remove_persistent_runtime_state(c)
  <2>1. /\ lost' = lost \cup {r \in Agents : statefile = r /\ Live(r)}
        /\ statefile' = nobody /\ UNCHANGED <<agent, runtime, lock>>
    BY <1>2 DEF remove_persistent_runtime_state
  <2>2. \A r \in Agents : (Live(r)' = Live(r)) /\ (Alive(r)' = Alive(r))
    BY <2>1 DEF Live, Alive
  <2>3. nobody \notin Agents
    BY DEF nobody, Agents
  <2>4. AgentType'
    BY <2>1 DEF ServerInv, AgentType
  <2>5. LockInv'
    BY <2>1, <2>2, <2>3 DEF ServerInv, LockInv
  <2>6. RecordInv'
    BY <2>1, <2>3 DEF RecordInv
  <2>7. OrphanIsRecorded'
    BY <2>1, <2>2 DEF ServerInv, OrphanIsRecorded
  <2> QED BY <2>4, <2>5, <2>6, <2>7 DEF ServerInv
<1> QED BY <1>1, <1>2

(* The commands that signal an agent. *)
LEMMA SignalKeeps ==
    ASSUME ServerInv, NEW c \in Clis,
           StopsRecorded(c) \/ StopsChild(c) \/ TerminalCloses(c) \/ write_node_agent_pid(c)
    PROVE  ServerInv'
<1>1. UNCHANGED <<runtime, statefile, lock, lost>>
  BY DEF StopsRecorded, StopsChild, TerminalCloses, write_node_agent_pid, files
<1>2. UNCHANGED agent \/ Kill(pidfile) \/ Kill(cli[c].child)
  BY DEF StopsRecorded, StopsChild, TerminalCloses, write_node_agent_pid
<1> QED BY <1>1, <1>2, KillKeeps, IdleKeeps

(* The others. *)
LEMMA CommandKeeps ==
    ASSUME ServerInv, NEW c \in Clis,
           CliStep(c) \/ Begins(c) \/ Escape(c) \/ TerminalCloses(c)
    PROVE  ServerInv'
<1>1. CASE \/ run_start_or_connect(c) \/ remove_node_agent_pid(c) \/ ReportsExit(c)
           \/ Settles(c) \/ wait_for_background_agent_startup(c)
           \/ Disconnects(c) \/ Pauses(c) \/ stop_agent(c) \/ Begins(c) \/ Escape(c)
  <2>1. UNCHANGED <<agent, runtime, statefile, lock, lost>>
    BY <1>1 DEF run_start_or_connect, remove_node_agent_pid, ReportsExit, Settles,
                wait_for_background_agent_startup, Disconnects, Pauses, stop_agent,
                Begins, Escape, files
  <2> QED BY <2>1, IdleKeeps
<1>2. CASE \/ resolve_release_assets(c) \/ stage_release_binary(c) \/ replace_binary(c)
           \/ UpdateDone(c)
  <2>1. UNCHANGED <<agent, runtime, statefile, lock, lost>>
    BY <1>2 DEF resolve_release_assets, stage_release_binary, replace_binary, UpdateDone, files
  <2> QED BY <2>1, IdleKeeps
<1> QED BY <1>1, <1>2, LaunchKeeps, StopKeeps, SignalKeeps DEF CliStep

LEMMA ServerInit == Init => ServerInv
<1> SUFFICES ASSUME Init PROVE ServerInv
  OBVIOUS
<1>1. AgentType
  BY DEF Init, AgentType, AgentPcs, nobody
<1>2. \A a \in Agents : agent[a].pc = "none" /\ agent[a].handle = nobody /\ ~Live(a)
  BY DEF Init, Live
<1>3. statefile = nobody /\ nobody \notin Agents
  BY DEF Init, nobody, Agents
<1>4. LockInv /\ RecordInv /\ OrphanIsRecorded
  BY <1>2, <1>3 DEF LockInv, RecordInv, OrphanIsRecorded, UnderLock
<1> QED BY <1>1, <1>4 DEF ServerInv

THEOREM ServerInvariant == Spec => []ServerInv
<1>1. ServerInv /\ [Next]_vars => ServerInv'
  <2> SUFFICES ASSUME ServerInv, [Next]_vars PROVE ServerInv'
    OBVIOUS
  <2>1. CASE Next
    BY <2>1, AgentKeeps, RuntimeKeeps, CommandKeeps DEF Next
  <2>2. CASE UNCHANGED vars
    BY <2>2, IdleKeeps DEF vars
  <2> QED BY <2>1, <2>2
<1> QED BY <1>1, ServerInit, PTL DEF Spec

(* OrphanIsRecorded for every number of agents, terminals and faults: what *)
(* PersistentRuntimeHandle leaves behind when its agent is killed can be   *)
(* found in persistent-runtime.json, but for the three cases it names.     *)
THEOREM LeftBehindIsRecorded == Spec => []OrphanIsRecorded
<1>1. ServerInv => OrphanIsRecorded
  BY DEF ServerInv
<1> QED BY <1>1, ServerInvariant, PTL

(* RecordIsHolders for every number of agents, terminals and faults: the   *)
(* run lock of acquire_agent_run_lock, and the probe before a server is    *)
(* started, keep the record with the agent that has the server.            *)
THEOREM RecordStaysWithHolder == Spec => []RecordIsHolders
<1>1. ServerInv => RecordIsHolders
  <2> SUFFICES ASSUME ServerInv, NEW a \in Agents, Alive(a), agent[a].handle # nobody,
                      statefile # nobody, Live(statefile), statefile \notin lost
               PROVE  statefile = agent[a].handle
    BY DEF RecordIsHolders
  <2>1. statefile \in Agents /\ agent[a].handle = a
    BY DEF ServerInv, AgentType, LockInv
  <2>2. a = statefile
    BY <2>1 DEF ServerInv, RecordInv, Alive
  <2> QED BY <2>1, <2>2
<1> QED BY <1>1, ServerInvariant, PTL

-----------------------------------------------------------------------------
(* The update.  While one is under way every program it has replaced is of *)
(* its release, and the CLI is among those still to be replaced.           *)
CliPcs == {"idle", "background", "foreground", "disconnect", "pause", "update", "stop old",
           "stop last", "forget old", "forget last", "spawn", "record", "settle", "startup",
           "session", "agent stop", "stop runtime", "remove state", "stop child", "stage",
           "replace"}
CliOps == {"none", "background", "foreground", "disconnect", "pause", "update"}
CliRecord == [pc : CliPcs, op : CliOps, child : Nat, release : Nat,
              staged : SUBSET Programs, restart : BOOLEAN]

Updating == {"update", "stage", "replace"}

UpdateInv ==
    /\ cli \in [Clis -> CliRecord] /\ installed \in [Programs -> Nat]
    /\ \A c \in Clis :
          /\ cli[c].pc \in Updating => c \in Updaters
          /\ cli[c].pc \in {"stage", "replace"} => installed["opengpu"] <= cli[c].release
          /\ cli[c].pc = "replace" =>
                /\ \A p \in Programs \ cli[c].staged : installed[p] = cli[c].release
                /\ cli[c].staged = {} \/ "opengpu" \in cli[c].staged
    /\ CliIsNotNewer

(* One terminal's command goes on to something else than an update. *)
LEMMA CommandElsewhere ==
    ASSUME UpdateInv, NEW c \in Clis, NEW e \in CliRecord, cli' = [cli EXCEPT ![c] = e],
           e.pc \notin {"stage", "replace"}, e.pc = "update" => c \in Updaters,
           UNCHANGED installed
    PROVE  UpdateInv'
<1>1. cli' \in [Clis -> CliRecord] /\ cli'[c] = e /\ \A d \in Clis \ {c} : cli'[d] = cli[d]
  BY DEF UpdateInv
<1>2. CliIsNotNewer'
  BY DEF UpdateInv, CliIsNotNewer
<1> QED BY <1>1, <1>2 DEF UpdateInv, Updating

LEMMA ToKeeps ==
    ASSUME UpdateInv, NEW c \in Clis, NEW x \in CliPcs \ Updating, To(c, x),
           UNCHANGED installed
    PROVE  UpdateInv'
<1>1. PICK e : e = [cli[c] EXCEPT !.pc = x]
  OBVIOUS
<1>2. cli' = [cli EXCEPT ![c] = e]
  BY <1>1, Zenon DEF To
<1>3. e \in CliRecord /\ e.pc = x
  BY <1>1, ZenonT(60) DEF UpdateInv, CliRecord, CliPcs, CliOps
<1> QED BY <1>2, <1>3, CommandElsewhere DEF Updating

LEMMA DoneKeeps ==
    ASSUME UpdateInv, NEW c \in Clis, Done(c), UNCHANGED installed
    PROVE  UpdateInv'
<1>1. resting \in CliRecord /\ resting.pc = "idle"
  BY DEF resting, CliRecord, CliPcs, CliOps, nobody
<1> QED BY <1>1, CommandElsewhere DEF Done

LEMMA BeginsKeeps ==
    ASSUME UpdateInv, NEW c \in Clis, Begins(c)
    PROVE  UpdateInv'
<1>1. PICK op \in {"background", "foreground", "disconnect", "pause", "update"} :
        /\ op = "update" => c \in Updaters
        /\ cli' = [cli EXCEPT ![c] = [resting EXCEPT !.op = op, !.pc = op]]
  BY DEF Begins
<1>2. PICK e1 : e1 = [resting EXCEPT !.op = op]
  OBVIOUS
<1>3. PICK e : e = [e1 EXCEPT !.pc = op]
  OBVIOUS
<1>4. e1 \in CliRecord
  BY <1>2 DEF resting, CliRecord, CliPcs, CliOps, nobody
<1>5. e \in CliRecord /\ e.pc = op
  BY <1>3, <1>4 DEF CliRecord, CliPcs, CliOps
<1>6. e = [resting EXCEPT !.op = op, !.pc = op]
  BY <1>2, <1>3
<1>7. cli' = [cli EXCEPT ![c] = e]
  BY <1>1, <1>6, Zenon
<1>8. installed' = installed
  BY DEF Begins
<1> QED BY <1>1, <1>5, <1>7, <1>8, CommandElsewhere

LEMMA LaunchKeepsUpdate ==
    ASSUME UpdateInv, NEW c \in Clis, launch_node_agent(c)
    PROVE  UpdateInv'
<1>1. PICK a \in Agents :
        cli' = [cli EXCEPT ![c].child = a,
                   ![c].pc = IF @ = "spawn" /\ cli[c].op = "foreground" THEN "record"
                             ELSE "settle"]
  BY DEF launch_node_agent
<1>2. PICK x : x = IF cli[c].pc = "spawn" /\ cli[c].op = "foreground" THEN "record" ELSE "settle"
  OBVIOUS
<1>3. PICK e1 : e1 = [cli[c] EXCEPT !.child = a]
  OBVIOUS
<1>4. PICK e : e = [e1 EXCEPT !.pc = x]
  OBVIOUS
<1>5. e1 \in CliRecord
  <2>1. cli[c] \in CliRecord /\ a \in Nat
    BY DEF UpdateInv, Agents
  <2> QED BY <1>3, <2>1 DEF CliRecord
<1>6. e \in CliRecord /\ e.pc \in {"record", "settle"}
  BY <1>2, <1>4, <1>5 DEF CliRecord, CliPcs, CliOps
<1>7. PICK e2 : e2 = [cli[c] EXCEPT !.child = a,
                         !.pc = IF @ = "spawn" /\ cli[c].op = "foreground" THEN "record"
                                ELSE "settle"]
  OBVIOUS
<1>8. e = e2
  BY <1>2, <1>3, <1>4, <1>7 DEF UpdateInv, CliRecord, CliPcs, CliOps
<1>9. cli' = [cli EXCEPT ![c] = e2]
  BY <1>1, <1>7, Zenon
<1>10. installed' = installed
  BY DEF launch_node_agent
<1> QED BY <1>6, <1>8, <1>9, <1>10, CommandElsewhere

(* The release chosen is not older than the CLI that runs. *)
LEMMA ResolveKeeps ==
    ASSUME UpdateInv, NEW c \in Clis, resolve_release_assets(c)
    PROVE  UpdateInv'
<1>1. /\ cli[c].pc = "update" /\ UNCHANGED installed
  BY DEF resolve_release_assets, On
<1>2. PICK release \in 1..MaxReleases :
        /\ release >= installed["opengpu"]
        /\ cli' = [cli EXCEPT ![c].restart = pidfile # nobody /\ Alive(pidfile),
                              ![c].release = release, ![c].pc = "stage"]
  BY DEF resolve_release_assets
<1>3. PICK x \in BOOLEAN : x = (pidfile # nobody /\ Alive(pidfile))
  BY DEF Alive
<1>4. PICK e : e = [cli[c] EXCEPT !.restart = x, !.release = release, !.pc = "stage"]
  OBVIOUS
<1>5. PICK e1 : e1 = [cli[c] EXCEPT !.restart = x]
  OBVIOUS
<1>6. PICK e2 : e2 = [e1 EXCEPT !.release = release]
  OBVIOUS
<1>7. e1 \in CliRecord
  <2>1. cli[c] \in CliRecord
    BY DEF UpdateInv
  <2> QED BY <1>3, <1>5, <2>1 DEF CliRecord
<1>8. e2 \in CliRecord /\ e2.release = release
  <2>1. release \in Nat
    OBVIOUS
  <2> QED BY <1>6, <1>7, <2>1 DEF CliRecord
<1>9. e = [e2 EXCEPT !.pc = "stage"]
  BY <1>4, <1>5, <1>6
<1>10. e \in CliRecord /\ e.release = release /\ e.pc = "stage"
  BY <1>8, <1>9 DEF CliRecord, CliPcs, CliOps
<1>11. cli' = [cli EXCEPT ![c] = e]
  BY <1>2, <1>3, <1>4, Zenon
<1>12. cli' \in [Clis -> CliRecord] /\ cli'[c] = e /\ \A d \in Clis \ {c} : cli'[d] = cli[d]
  BY <1>10, <1>11 DEF UpdateInv
<1>13. c \in Updaters /\ installed["opengpu"] \in Nat /\ release \in Nat
  BY <1>1 DEF UpdateInv, Updating, Programs
<1>14. CliIsNotNewer'
  BY <1>1 DEF UpdateInv, CliIsNotNewer
<1> QED BY <1>1, <1>2, <1>10, <1>12, <1>13, <1>14 DEF UpdateInv, Updating

(* Every program is staged before the first is replaced. *)
LEMMA StageKeeps ==
    ASSUME UpdateInv, NEW c \in Clis, stage_release_binary(c)
    PROVE  UpdateInv'
<1>1. cli[c].pc = "stage" /\ UNCHANGED installed
  BY DEF stage_release_binary, On
<1>2. CASE Done(c)
  BY <1>1, <1>2, DoneKeeps
<1>3. CASE cli' = [cli EXCEPT ![c].staged = Programs, ![c].pc = "replace"]
  <2>1. PICK e1 : e1 = [cli[c] EXCEPT !.staged = Programs]
    OBVIOUS
  <2>2. PICK e : e = [e1 EXCEPT !.pc = "replace"]
    OBVIOUS
  <2>3. e1 \in CliRecord /\ e1.staged = Programs /\ e1.release = cli[c].release
    BY <2>1, ZenonT(60) DEF UpdateInv, CliRecord, CliPcs, CliOps
  <2>4. e \in CliRecord /\ e.staged = Programs /\ e.release = cli[c].release /\ e.pc = "replace"
    BY <2>2, <2>3 DEF CliRecord, CliPcs, CliOps
  <2>5. e = [cli[c] EXCEPT !.staged = Programs, !.pc = "replace"]
    BY <2>1, <2>2
  <2>6. cli' = [cli EXCEPT ![c] = e]
    BY <1>3, <2>5, Zenon
  <2>7. cli' \in [Clis -> CliRecord] /\ cli'[c] = e /\ \A d \in Clis \ {c} : cli'[d] = cli[d]
    BY <2>4, <2>6 DEF UpdateInv
  <2>8. c \in Updaters /\ installed["opengpu"] <= cli[c].release /\ "opengpu" \in Programs
    BY <1>1 DEF UpdateInv, Updating, Programs
  <2>9. CliIsNotNewer'
    BY <1>1 DEF UpdateInv, CliIsNotNewer
  <2> QED BY <1>1, <2>4, <2>7, <2>8, <2>9 DEF UpdateInv, Updating
<1> QED BY <1>2, <1>3 DEF stage_release_binary

(* The order of the replacements puts the CLI last. *)
LEMMA CliIsLast ==
    ASSUME NEW c \in Clis, cli[c].staged \subseteq Programs, cli[c].staged # {}
    PROVE  /\ NextStaged(c) \in cli[c].staged
           /\ NextStaged(c) = "opengpu" => cli[c].staged = {"opengpu"}
<1> DEFINE left == {i \in DOMAIN Binaries : Binaries[i] \in cli[c].staged}
<1>1. DOMAIN Binaries = 1..4 /\ \A i \in 1..4 : Binaries[i] \in Programs
  BY DEF Binaries, Programs
<1>2. \A p \in Programs : \E i \in 1..4 : Binaries[i] = p /\ (p # "opengpu" => i < 4)
  BY DEF Binaries, Programs
<1>3. left \subseteq 1..4 /\ left # {}
  BY <1>1, <1>2
<1>4. \E i \in left : \A j \in left : i <= j
  <2>1. CASE 1 \in left
    BY <1>3, <2>1
  <2>2. CASE 1 \notin left /\ 2 \in left
    BY <1>3, <2>2
  <2>3. CASE 1 \notin left /\ 2 \notin left /\ 3 \in left
    BY <1>3, <2>3
  <2>4. CASE 1 \notin left /\ 2 \notin left /\ 3 \notin left
    BY <1>3, <2>4
  <2> QED BY <2>1, <2>2, <2>3, <2>4
<1>5. PICK m : m = CHOOSE i \in left : \A j \in left : i <= j
  OBVIOUS
<1>6. m \in left /\ \A j \in left : m <= j
  BY <1>4, <1>5
<1>7. NextStaged(c) = Binaries[m]
  BY <1>5 DEF NextStaged
<1>8. Binaries[m] = "opengpu" => m = 4
  BY <1>3, <1>6 DEF Binaries
<1>9. ASSUME Binaries[m] = "opengpu", NEW p \in cli[c].staged PROVE p = "opengpu"
  <2>1. PICK i \in 1..4 : Binaries[i] = p /\ (p # "opengpu" => i < 4)
    BY <1>2, <1>9
  <2>2. i \in left
    BY <1>1, <1>9, <2>1
  <2>3. 4 <= i
    BY <1>6, <1>8, <1>9, <2>2
  <2> QED BY <2>1, <2>3
<1> QED BY <1>6, <1>7, <1>9

(* One program is replaced; the CLI only when all others have been. *)
LEMMA ReplaceKeeps ==
    ASSUME UpdateInv, NEW c \in Clis, replace_binary(c)
    PROVE  UpdateInv'
<1>1. cli[c].pc = "replace" /\ cli[c].staged # {}
  BY DEF replace_binary, On
<1>2. CASE Done(c) /\ UNCHANGED installed
  BY <1>2, DoneKeeps
<1>3. CASE /\ installed' = [installed EXCEPT ![NextStaged(c)] = cli[c].release]
           /\ cli' = [cli EXCEPT ![c].staged = @ \ {NextStaged(c)}]
  <2>1. PICK n : n = NextStaged(c)
    OBVIOUS
  <2>2. /\ cli[c] \in CliRecord /\ cli[c].staged \subseteq Programs
        /\ cli[c].release \in Nat /\ "opengpu" \in Programs
    BY DEF UpdateInv, CliRecord, CliPcs, CliOps, Programs
  <2>3. n \in cli[c].staged /\ (n = "opengpu" => cli[c].staged = {"opengpu"})
    BY <1>1, <2>1, <2>2, CliIsLast
  <2>4. PICK e : e = [cli[c] EXCEPT !.staged = @ \ {n}]
    OBVIOUS
  <2>5. e \in CliRecord /\ e.staged = cli[c].staged \ {n} /\ e.release = cli[c].release
        /\ e.pc = "replace"
    BY <1>1, <2>2, <2>4 DEF CliRecord, CliPcs, CliOps
  <2>6. cli' = [cli EXCEPT ![c] = e]
    BY <1>3, <2>1, <2>4, Zenon
  <2>7. cli' \in [Clis -> CliRecord] /\ cli'[c] = e /\ \A d \in Clis \ {c} : cli'[d] = cli[d]
    BY <2>5, <2>6 DEF UpdateInv
  <2>8. /\ installed' \in [Programs -> Nat] /\ installed'[n] = cli[c].release
        /\ \A p \in Programs \ {n} : installed'[p] = installed[p]
    BY <1>3, <2>1, <2>2, <2>3 DEF UpdateInv
  <2>9. /\ c \in Updaters /\ installed["opengpu"] <= cli[c].release
        /\ \A p \in Programs \ cli[c].staged : installed[p] = cli[c].release
        /\ cli[c].staged = {} \/ "opengpu" \in cli[c].staged
        /\ installed \in [Programs -> Nat]
    BY <1>1 DEF UpdateInv, Updating
  <2>10. \A d \in Clis \ {c} : cli[d].pc \notin Updating
    BY <2>9, ControlAssumption DEF UpdateInv
  <2>11. installed'["opengpu"] <= cli[c].release
    BY <2>2, <2>8, <2>9
  <2>12. \A p \in Programs \ e.staged : installed'[p] = cli[c].release
    BY <2>5, <2>8, <2>9
  <2>13. e.staged = {} \/ "opengpu" \in e.staged
    BY <1>1, <2>3, <2>5, <2>9
  <2>14. CliIsNotNewer'
    <3> SUFFICES ASSUME NEW p \in Programs PROVE installed'["opengpu"] <= installed'[p]
      BY DEF CliIsNotNewer
    <3>1. CASE p \notin e.staged
      BY <2>11, <2>12, <3>1
    <3>2. CASE p \in e.staged
      <4>1. n # "opengpu" /\ p # n
        BY <2>3, <2>5, <3>2
      <4>2. installed'["opengpu"] = installed["opengpu"] /\ installed'[p] = installed[p]
        BY <2>2, <2>8, <4>1
      <4> QED BY <4>2 DEF UpdateInv, CliIsNotNewer
    <3> QED BY <3>1, <3>2
  <2>15. ASSUME NEW d \in Clis PROVE
          /\ cli'[d].pc \in Updating => d \in Updaters
          /\ cli'[d].pc \in {"stage", "replace"} => installed'["opengpu"] <= cli'[d].release
          /\ cli'[d].pc = "replace" =>
                /\ \A p \in Programs \ cli'[d].staged : installed'[p] = cli'[d].release
                /\ cli'[d].staged = {} \/ "opengpu" \in cli'[d].staged
    <3>1. CASE d = c
      BY <2>5, <2>7, <2>9, <2>11, <2>12, <2>13, <3>1
    <3>2. CASE d # c
      BY <2>7, <2>10, <2>15, <3>2 DEF Updating
    <3> QED BY <3>1, <3>2
  <2> QED BY <2>7, <2>8, <2>14, <2>15 DEF UpdateInv
<1> QED BY <1>2, <1>3 DEF replace_binary

LEMMA OthersKeepUpdate ==
    ASSUME UpdateInv, UNCHANGED <<cli, installed>>
    PROVE  UpdateInv'
BY DEF UpdateInv, CliIsNotNewer

(* The commands of a terminal, and what the agents and servers do. *)
LEMMA CommandKeepsUpdate ==
    ASSUME UpdateInv, NEW c \in Clis,
           CliStep(c) \/ Begins(c) \/ Escape(c) \/ TerminalCloses(c)
    PROVE  UpdateInv'
<1>1. CASE \/ run_start_or_connect(c) \/ StopsRecorded(c) \/ remove_node_agent_pid(c)
           \/ ReportsExit(c) \/ Settles(c) \/ write_node_agent_pid(c)
           \/ wait_for_background_agent_startup(c)
  <2>1. /\ UNCHANGED installed
        /\ Done(c) \/ \E x \in {"stop old", "forget old", "forget last", "spawn", "record",
                                "session", "startup"} : To(c, x)
    BY <1>1 DEF run_start_or_connect, StopsRecorded, remove_node_agent_pid, ReportsExit,
                Settles, write_node_agent_pid, wait_for_background_agent_startup
  <2> QED BY <2>1, DoneKeeps, ToKeeps DEF CliPcs, Updating
<1>2. CASE \/ Escape(c) \/ TerminalCloses(c) \/ Disconnects(c) \/ Pauses(c) \/ stop_agent(c)
           \/ remove_persistent_runtime_state(c)
           \/ stop_persistent_runtime_from_state(c) \/ StopsChild(c) \/ UpdateDone(c)
  <2>1. /\ UNCHANGED installed
        /\ Done(c) \/ \E x \in {"agent stop", "stop runtime", "remove state", "stop child",
                                "stop last", "forget last", "stop old"} : To(c, x)
    BY <1>2 DEF Escape, TerminalCloses, Disconnects, Pauses, stop_agent, AfterStop, To,
                remove_persistent_runtime_state, stop_persistent_runtime_from_state,
                StopsChild, UpdateDone
  <2> QED BY <2>1, DoneKeeps, ToKeeps DEF CliPcs, Updating
<1> QED BY <1>1, <1>2, LaunchKeepsUpdate, BeginsKeeps, ResolveKeeps, StageKeeps, ReplaceKeeps
        DEF CliStep

LEMMA AgentsKeepUpdate ==
    ASSUME UpdateInv, NEW a \in Agents,
           AgentStep(a) \/ LoopFails(a) \/ RuntimeListens(a) \/ RuntimeDies(a)
    PROVE  UpdateInv'
<1>1. UNCHANGED <<cli, installed>>
  BY DEF AgentStep, LoopFails, RuntimeListens, RuntimeDies, acquire_agent_run_lock,
         should_keep_runtime_warm, start_persistent_runtime, RuntimeAnswers, RuntimeFails,
         FirstHeartbeat, Admission, should_agent_run, StopsRuntime, ForgetsRuntime, Dies
<1> QED BY <1>1, OthersKeepUpdate

LEMMA UpdateInit == Init => UpdateInv
<1> SUFFICES ASSUME Init PROVE UpdateInv
  OBVIOUS
<1>1. resting \in CliRecord /\ resting.pc = "idle"
  BY DEF resting, CliRecord, CliPcs, CliOps, nobody
<1>2. cli \in [Clis -> CliRecord] /\ \A c \in Clis : cli[c].pc = "idle"
  BY <1>1 DEF Init
<1>3. installed \in [Programs -> Nat] /\ CliIsNotNewer
  BY DEF Init, CliIsNotNewer, Programs
<1> QED BY <1>2, <1>3 DEF UpdateInv, Updating

(* CliIsNotNewer for every number of terminals and releases, one of which  *)
(* updates: update_installed_binaries may fail after any replacement, and  *)
(* may be followed by any number of other updates, and the CLI is never    *)
(* newer than the programs it starts.                                      *)
THEOREM UpdateCommitsWithCli == Spec => []CliIsNotNewer
<1>1. UpdateInv /\ [Next]_vars => UpdateInv'
  <2> SUFFICES ASSUME UpdateInv, [Next]_vars PROVE UpdateInv'
    OBVIOUS
  <2>1. CASE Next
    BY <2>1, AgentsKeepUpdate, CommandKeepsUpdate DEF Next
  <2>2. CASE UNCHANGED vars
    BY <2>2, OthersKeepUpdate DEF vars
  <2> QED BY <2>1, <2>2
<1>2. UpdateInv => CliIsNotNewer
  BY DEF UpdateInv
<1> QED BY <1>1, <1>2, UpdateInit, PTL DEF Spec
=============================================================================
