----------------------------- MODULE LocalRequest ----------------------------
(***************************************************************************)
(* One `run` of the CLI from its routing decision to its answer: the       *)
(* request to the node agent's loopback API, the handler thread that       *)
(* serves it with a slot of the pool, the lease manager that reports the   *)
(* occupied slot, the fallback to a control-plane job and the one forced   *)
(* local retry.  The threads of the agent's job loop compete for the slots *)
(* through the same try_acquire (SlotPool).                                *)
(***************************************************************************)
EXTENDS SlotPool

CONSTANTS Requests,    \* runs of the CLI
          JobThreads,  \* callers of try_acquire in the job loop
          Shapes,      \* what is asked for: a subset of AllShapes
          MaxLeases    \* bound: leases one handler's manager may be granted

(* The local attempt of a run and its forced retry are two handlers. *)
Handlers == Requests \X {1, 2}

(* "plain" passes every test of the handler, "complex" fails the           *)
(* suitability gate, "mismatch" names another model or backend, "invalid"  *)
(* does not parse or has no prompt, "decompose" is not single execution.   *)
AllShapes == {"plain", "complex", "mismatch", "invalid", "decompose"}

Routings == {"local-first", "local-only", "network-only"}

ASSUME RequestAssumption ==
    /\ Threads = Handlers \cup JobThreads
    /\ Handlers \cap JobThreads = {}
    /\ Shapes \subseteq AllShapes
    /\ MaxLeases \in Nat

VARIABLES
    cli,      \* [at, routing, shape, failure, result] of each run
    handler,  \* [at, ok, reply] of each handler thread
    manager,  \* [at, lease, made, offline] of each lease manager thread
    job,      \* the control plane's job of each run
    leases,   \* the control plane's live leases: <<handler, number>>
    troubled  \* history: <<handler, kind>> of the lease calls that failed

apiVars == <<cli, handler, manager, job, leases, troubled>>
allVars == <<vars, apiVars>>

None == [code |-> "none", fallback |-> TRUE]
Failure(code, fallback) == [code |-> code, fallback |-> fallback]

LocalInit ==
    /\ Init
    /\ cli = [r \in Requests |-> [at |-> "new", routing |-> "local-first",
                                  shape |-> "plain", failure |-> None,
                                  result |-> "none"]]
    /\ handler = [h \in Handlers |-> [at |-> "none", ok |-> FALSE,
                                      reply |-> None]]
    /\ manager = [h \in Handlers |-> [at |-> "none", lease |-> 0, made |-> 0,
                                      offline |-> FALSE]]
    /\ job = [r \in Requests |-> "none"]
    /\ leases = {}
    /\ troubled = {}

------------------------------------------------------------------------------
(* The decisions of run_inference.                                         *)

should_try_local(c) == c.routing # "network-only" /\ c.shape # "decompose"

may_fallback_to_network(c, failure) ==
    c.routing = "local-first" /\ failure.fallback

(* Mutant of should_retry_local_offline: any local failure is retried. *)
RetriesAnyFailure(c, unreachable) == c.routing = "local-first" /\ unreachable

should_retry_local_offline(c, unreachable) ==
    /\ c.routing = "local-first"
    /\ c.failure.code = "LOCAL_MODEL_UNSUITABLE"
    /\ unreachable

Ends(c, result) == [c EXCEPT !.at = "done", !.result = result]

(* What a failed (or skipped) first local attempt leads to. *)
AfterLocal(c, failure) ==
    IF \/ c.routing = "local-only"
       \/ failure # None /\ ~may_fallback_to_network(c, failure)
    THEN Ends([c EXCEPT !.failure = failure], "error")
    ELSE [c EXCEPT !.at = "submitting", !.failure = failure]

(* What a failure of the control-plane route leads to. *)
AfterNetwork(c, unreachable) ==
    IF should_retry_local_offline(c, unreachable)
    THEN [c EXCEPT !.at = "retrying"]
    ELSE Ends(c, "error")

(* What a failed local attempt leads to, the forced retry's included. *)
AfterAttempt(c, k, failure) ==
    IF k = 1 THEN AfterLocal(c, failure) ELSE Ends(c, "error")

(* Where run_inference begins. *)
FirstRoute(c) ==
    IF should_try_local(c) THEN [c EXCEPT !.at = "trying"]
    ELSE IF c.routing = "network-only" THEN AfterLocal(c, None)
    ELSE AfterLocal(c, Failure("LOCAL_MODE_UNSUPPORTED", TRUE))

(* `run` is called. *)
Run(r) == \E routing \in Routings, shape \in Shapes :
    /\ cli[r].at = "new"
    /\ cli' = [cli EXCEPT ![r] =
                 FirstRoute([@ EXCEPT !.routing = routing, !.shape = shape])]
    /\ UNCHANGED <<vars, handler, manager, job, leases, troubled>>

Attempt(r) == CASE cli[r].at \in {"trying", "asking"} -> 1
                [] cli[r].at \in {"retrying", "asking again"} -> 2
                [] OTHER -> 0

Asking(r) == cli[r].at \in {"asking", "asking again"}

(* run_inference_via_local_agent: the token is read and the request sent.  *)
Connect(r) ==
    /\ cli[r].at \in {"trying", "retrying"}
    /\ cli' = [cli EXCEPT ![r].at =
                 IF @ = "trying" THEN "asking" ELSE "asking again"]
    /\ handler' = [handler EXCEPT ![<<r, Attempt(r)>>].at = "arrived"]
    /\ UNCHANGED <<vars, manager, job, leases, troubled>>

(* No token, no agent, or no answer within the client's timeout, while the *)
(* handler thread goes on.                                                 *)
LocalUnavailable(r) ==
    /\ Attempt(r) # 0
    /\ cli' = [cli EXCEPT ![r] =
           AfterAttempt(@, Attempt(r), Failure("LOCAL_AGENT_UNAVAILABLE", TRUE))]
    /\ UNCHANGED <<vars, handler, manager, job, leases, troubled>>

(* The answer: a result, a refusal, or a body that cannot be read.  The    *)
(* retry's result is always called local-offline.                          *)
Answered(r) ==
    LET k == Attempt(r)
        h == <<r, k>>
        reply == handler[h].reply
    IN  /\ Asking(r)
        /\ reply # None
        /\ \/ /\ reply.code \in {"local", "local-offline"}
              /\ cli' = [cli EXCEPT ![r] =
                   Ends(@, IF k = 1 THEN reply.code ELSE "local-offline")]
           \/ /\ reply.code \in {"local", "local-offline"}
              /\ cli' = [cli EXCEPT ![r] =
                   AfterAttempt(@, k, Failure("LOCAL_RESPONSE_INVALID", TRUE))]
           \/ /\ reply.code \notin {"local", "local-offline"}
              /\ cli' = [cli EXCEPT ![r] = AfterAttempt(@, k, reply)]
        /\ UNCHANGED <<vars, handler, manager, job, leases, troubled>>

(* http_post_json: an answer; an HTTP error or an unreadable body; or a    *)
(* transport failure, which alone counts as unreachable.                   *)
PostAnswers == {"ok", "failed", "unreachable"}

(* POST /v1/jobs.  The job may have been created whatever the CLI hears.   *)
Submit(r) == \E created \in BOOLEAN, answer \in PostAnswers :
    /\ cli[r].at = "submitting"
    /\ answer = "ok" => created
    /\ job' = [job EXCEPT ![r] = IF created THEN "open" ELSE @]
    /\ cli' = [cli EXCEPT ![r] =
                 IF answer = "ok" THEN [@ EXCEPT !.at = "waiting"]
                 ELSE AfterNetwork(@, answer = "unreachable")]
    /\ UNCHANGED <<vars, handler, manager, leases, troubled>>

(* The control plane finishes a job. *)
JobEnds(r) == \E end \in {"completed", "failed"} :
    /\ job[r] = "open"
    /\ job' = [job EXCEPT ![r] = end]
    /\ UNCHANGED <<vars, cli, handler, manager, leases, troubled>>

job_is_terminal(r) == job[r] \in {"completed", "failed"}

(* remote_job_output: a completed job may lack its output. *)
HasOutput(r) == IF job[r] = "completed" THEN BOOLEAN ELSE {FALSE}

(* wait_for_job sees a terminal job. *)
JobSeen(r) == \E output \in HasOutput(r) :
    /\ cli[r].at = "waiting"
    /\ job_is_terminal(r)
    /\ cli' = [cli EXCEPT ![r] =
                 IF output THEN Ends(@, "network")
                 ELSE AfterNetwork(@, FALSE)]
    /\ UNCHANGED <<vars, handler, manager, job, leases, troubled>>

(* Mutant of JobPollFails: a failed poll is simply repeated and the        *)
(* deadline is not looked at.                                              *)
JobPolledForEver(r) == \E unreachable \in BOOLEAN :
    /\ cli[r].at = "waiting"
    /\ UNCHANGED allVars

(* A failing GET ends the wait at once, the deadline ends it otherwise.    *)
JobPollFails(r) == \E unreachable \in BOOLEAN :
    /\ cli[r].at = "waiting"
    /\ cli' = [cli EXCEPT ![r] = AfterNetwork(@, unreachable)]
    /\ UNCHANGED <<vars, handler, manager, job, leases, troubled>>

------------------------------------------------------------------------------
(* handle_request and handle_local_inference, on the handler's thread h.   *)

Shape(h) == cli[h[1]].shape
Forced(h) == h[2] = 2 \/ cli[h[1]].routing = "local-only"

Replies(h, at, reply) ==
    handler' = [handler EXCEPT ![h] = [@ EXCEPT !.at = at, !.reply = reply]]

(* handle_request: 401 for a token that is not this agent's, 404.  The     *)
(* body has no code and no fallback; only a 400 would forbid the network.  *)
Unauthorized(h) ==
    /\ handler[h].at = "arrived"
    /\ Replies(h, "over", Failure("LOCAL_AGENT_REJECTED", TRUE))
    /\ UNCHANGED <<vars, cli, manager, job, leases, troubled>>

(* The 400 and the two 409s that come before the slot. *)
Rejects(h) ==
    /\ handler[h].at = "arrived"
    /\ \/ /\ Shape(h) = "invalid"
          /\ Replies(h, "over", Failure("INVALID_LOCAL_REQUEST", FALSE))
       \/ /\ Shape(h) = "mismatch"
          /\ Replies(h, "over", Failure("LOCAL_MODEL_NOT_ACTIVE", TRUE))
    /\ UNCHANGED <<vars, cli, manager, job, leases, troubled>>

(* try_acquire of the handler. *)
AsksForSlot(h) ==
    /\ handler[h].at = "arrived"
    /\ Shape(h) \in {"plain", "complex"}
    /\ Load(h)
    /\ handler' = [handler EXCEPT ![h].at = "acquiring"]
    /\ UNCHANGED <<cli, manager, job, leases, troubled>>

NoSlot(h) ==
    /\ GiveUp(h)
    /\ Replies(h, "over", Failure("LOCAL_CAPACITY_UNAVAILABLE", TRUE))
    /\ UNCHANGED <<cli, manager, job, leases, troubled>>

SlotTaken(h) ==
    /\ CasOk(h)
    /\ handler' = [handler EXCEPT ![h].at = "admitted"]
    /\ UNCHANGED <<cli, manager, job, leases, troubled>>

SlotContended(h) == CasFail(h) /\ UNCHANGED apiVars

(* local_suitability_error, skipped by force_local. *)
Suitable(h) == Forced(h) \/ Shape(h) # "complex"

(* The 409 is sent while the permit is held. *)
Defers(h) ==
    /\ handler[h].at = "admitted"
    /\ ~Suitable(h)
    /\ Replies(h, "answered", Failure("LOCAL_MODEL_UNSUITABLE", TRUE))
    /\ UNCHANGED <<vars, cli, manager, job, leases, troubled>>

(* The lease manager is started, then the worker. *)
Launches(h) ==
    /\ handler[h].at = "admitted"
    /\ Suitable(h)
    /\ handler' = [handler EXCEPT ![h].at = "running"]
    /\ manager' = [manager EXCEPT ![h].at = "reporting"]
    /\ UNCHANGED <<vars, cli, job, leases, troubled>>

(* launch_worker returns and the manager is told to stop. *)
WorkerReturns(h) == \E ok \in BOOLEAN :
    /\ handler[h].at = "running"
    /\ handler' = [handler EXCEPT ![h] = [@ EXCEPT !.at = "returned", !.ok = ok]]
    /\ UNCHANGED <<vars, cli, manager, job, leases, troubled>>

(* The offline flag is read and the answer sent. *)
Responds(h) ==
    /\ handler[h].at = "returned"
    /\ Replies(h, "answered",
         IF ~handler[h].ok THEN Failure("LOCAL_RUNTIME_FAILURE", TRUE)
         ELSE Failure(IF manager[h].offline THEN "local-offline" ELSE "local",
                      FALSE))
    /\ UNCHANGED <<vars, cli, manager, job, leases, troubled>>

(* The handler returns: its permit is dropped. *)
Returns(h) ==
    /\ handler[h].at = "answered"
    /\ DropPermit(h)
    /\ handler' = [handler EXCEPT ![h].at = "over"]
    /\ UNCHANGED <<cli, manager, job, leases, troubled>>

------------------------------------------------------------------------------
(* start_lease_manager: the thread that reports handler h's slot.          *)

(* How a signed call may end: answered, answered with an HTTP error or an  *)
(* unreadable body, or with a transport failure.                           *)
Answers == {"ok", "failed", "unreachable"}

Troubles(h, answer) ==
    troubled' = IF answer = "ok" THEN troubled ELSE troubled \cup {<<h, answer>>}

control_plane_is_unreachable(answer) == answer = "unreachable"

(* POST /v1/local-leases.  A granted lease is known to the manager only    *)
(* from the answer.                                                        *)
CreatesLease(h) == \E granted \in BOOLEAN, answer \in Answers :
    LET n == manager[h].made + 1
    IN  /\ manager[h].at = "reporting"
        /\ manager[h].lease = 0
        /\ granted => n <= MaxLeases
        /\ leases' = IF granted THEN leases \cup {<<h, n>>} ELSE leases
        /\ manager' = [manager EXCEPT ![h] =
             [at |-> "waiting",
              lease |-> IF granted /\ answer = "ok" THEN n ELSE 0,
              made |-> IF granted THEN n ELSE @.made,
              offline |-> control_plane_is_unreachable(answer)]]
        /\ Troubles(h, answer)
        /\ UNCHANGED <<vars, cli, handler, job>>

(* POST /v1/local-leases/renew.  Any error makes the manager forget the    *)
(* lease without releasing it; the next report asks for a new one.         *)
RenewsLease(h) == \E answer \in Answers :
    /\ manager[h].at = "reporting"
    /\ manager[h].lease # 0
    /\ manager' = [manager EXCEPT ![h] =
         [@ EXCEPT !.at = "waiting",
                   !.lease = IF answer = "ok" THEN manager[h].lease ELSE 0,
                   !.offline = control_plane_is_unreachable(answer)]]
    /\ Troubles(h, answer)
    /\ UNCHANGED <<vars, cli, handler, job, leases>>

(* recv_timeout: thirty seconds with a lease, five without.                *)
ReportsAgain(h) ==
    /\ manager[h].at = "waiting"
    /\ handler[h].at = "running"
    /\ manager' = [manager EXCEPT ![h].at = "reporting"]
    /\ UNCHANGED <<vars, cli, handler, job, leases, troubled>>

(* Mutant of StopsReporting: the loop returns instead of breaking. *)
StopsWithoutRelease(h) ==
    /\ manager[h].at = "waiting"
    /\ handler[h].at \in {"returned", "answered", "over"}
    /\ manager' = [manager EXCEPT ![h].at = "ended"]
    /\ UNCHANGED <<vars, cli, handler, job, leases, troubled>>

(* The stop message is received: the loop breaks. *)
StopsReporting(h) ==
    /\ manager[h].at = "waiting"
    /\ handler[h].at \in {"returned", "answered", "over"}
    /\ manager' = [manager EXCEPT ![h].at =
                     IF manager[h].lease = 0 THEN "ended" ELSE "releasing"]
    /\ UNCHANGED <<vars, cli, handler, job, leases, troubled>>

(* POST /v1/local-leases/release; its answer is ignored. *)
ReleasesLease(h) == \E done \in BOOLEAN, answer \in Answers :
    /\ manager[h].at = "releasing"
    /\ answer = "ok" => done
    /\ leases' = IF done THEN leases \ {<<h, manager[h].lease>>} ELSE leases
    /\ manager' = [manager EXCEPT ![h] = [@ EXCEPT !.at = "ended", !.lease = 0]]
    /\ Troubles(h, answer)
    /\ UNCHANGED <<vars, cli, handler, job>>

(* The control plane lets a lease nobody renews run out. *)
LeaseExpires(h) == \E n \in 1..MaxLeases :
    /\ <<h, n>> \in leases
    /\ manager[h].lease # n
    /\ leases' = leases \ {<<h, n>>}
    /\ UNCHANGED <<vars, cli, handler, manager, job, troubled>>

------------------------------------------------------------------------------
(* A slot of the job loop: its thread's try_acquire and drop. *)
JobSlot(t) ==
    /\ Load(t) \/ GiveUp(t) \/ CasOk(t) \/ CasFail(t) \/ DropPermit(t)
    /\ UNCHANGED apiVars

HandlerStep(h) ==
    \/ Unauthorized(h) \/ Rejects(h) \/ AsksForSlot(h)
    \/ NoSlot(h) \/ SlotTaken(h) \/ SlotContended(h)
    \/ Defers(h) \/ Launches(h) \/ WorkerReturns(h) \/ Responds(h) \/ Returns(h)

ManagerStep(h) ==
    \/ CreatesLease(h) \/ RenewsLease(h) \/ ReportsAgain(h)
    \/ StopsReporting(h) \/ ReleasesLease(h)

CliStep(r) ==
    \/ Run(r) \/ Connect(r) \/ LocalUnavailable(r) \/ Answered(r)
    \/ Submit(r) \/ JobSeen(r) \/ JobPollFails(r)

LocalNext ==
    \/ \E r \in Requests : CliStep(r) \/ JobEnds(r)
    \/ \E h \in Handlers : HandlerStep(h) \/ ManagerStep(h) \/ LeaseExpires(h)
    \/ \E t \in JobThreads : JobSlot(t)

LocalSpec == LocalInit /\ [][LocalNext]_allVars

(* Every thread keeps running, workers end, the client's timeouts and the  *)
(* deadline of the wait fire, and an exchange that may succeed again and   *)
(* again does succeed.  Of a thread of the job loop only try_acquire and   *)
(* the end of its job are fair: it need never ask.                         *)
LocalFairSpec ==
    /\ LocalSpec
    /\ \A r \in Requests :
        WF_allVars(cli[r].at # "new" /\ CliStep(r))
    /\ \A h \in Handlers :
        WF_allVars(HandlerStep(h)) /\ SF_allVars(SlotTaken(h))
    /\ \A t \in JobThreads :
        /\ WF_allVars(pc[t] # "idle" /\ JobSlot(t))
        /\ SF_allVars(CasOk(t) /\ UNCHANGED apiVars)

------------------------------------------------------------------------------
(* The record fields of every part have their types. *)
LocalTypeOK ==
    /\ TypeOK
    /\ \A r \in Requests :
         /\ cli[r].routing \in Routings /\ cli[r].shape \in AllShapes
         /\ job[r] \in {"none", "open", "completed", "failed"}
    /\ leases \subseteq Handlers \X (1..MaxLeases)

(* The handlers of a run whose worker was started. *)
Ran(r) == {k \in {1, 2} : manager[<<r, k>>].at # "none"}

(* A run starts at most one local worker, whatever times out, is refused   *)
(* or is retried: the forced retry follows only a refusal that came before *)
(* the worker.                                                             *)
LocalRunsOnce == \A r \in Requests : Cardinality(Ran(r)) <= 1

(* --routing is honoured over the whole run: a local-only prompt never     *)
(* reaches the control plane, a network-only or decomposed one never runs  *)
(* here, and an answer called local was the only execution asked for.      *)
RoutingHonoured == \A r \in Requests :
    /\ cli[r].routing = "local-only" => job[r] = "none"
    /\ ~should_try_local(cli[r]) => Ran(r) = {}
    /\ cli[r].result = "local" => job[r] = "none"
    /\ cli[r].result = "network" => job[r] = "completed"

(* An answer is called local-offline only when a lease call of this run    *)
(* met a transport failure, or the network route did.                      *)
OfflineIsReal == \A r \in Requests :
    cli[r].result = "local-offline" =>
        \/ <<<<r, 1>>, "unreachable">> \in troubled
        \/ cli[r].failure.code = "LOCAL_MODEL_UNSUITABLE"

(* While its calls are answered, the control plane holds for a handler     *)
(* exactly the lease its manager will release: none is left behind when    *)
(* the manager ends, none is taken twice.                                  *)
LeaseAccounted == \A l \in leases :
    \/ \E kind \in Answers : <<l[1], kind>> \in troubled
    \/ manager[l[1]].lease = l[2] /\ manager[l[1]].at # "ended"

(* A run that was started ends, with an answer or an error.                *)
RunEnds == \A r \in Requests : cli[r].at = "trying" ~> cli[r].at = "done"

==============================================================================
