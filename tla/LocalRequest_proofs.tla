------------------------- MODULE LocalRequest_proofs -------------------------
(***************************************************************************)
(* Proofs about the slot pool and the local requests that take its slots,  *)
(* for any number of requests, threads, slots and leases.                  *)
(*                                                                         *)
(* The pool: the inductive invariant joins the types with the fact that    *)
(* the counter is the number of live permits; neither half is inductive    *)
(* without the other, because a drop decrements the counter.  Every        *)
(* behaviour of the local API is one of the pool, so that what holds of    *)
(* the pool holds of the handlers and the job loop together.               *)
(*                                                                         *)
(* The requests: a second handler exists only after a refusal, and a       *)
(* handler that refused as unsuitable has started nothing; a lease whose   *)
(* calls were all answered is the one its manager holds.                   *)
(***************************************************************************)
EXTENDS LocalRequest, FiniteSetTheorems, TLAPS

------------------------------------------------------------------------------
(* The pool.                                                               *)


IInv == TypeOK /\ CounterIsHolders

(* The pool always has at least one slot. *)
LEMMA CapacityPositive == PoolCapacity \in Nat /\ PoolCapacity >= 1
BY PoolAssumption DEF PoolCapacity

(* The set of permit holders is finite, so that its size can be counted. *)
LEMMA HoldersFinite == IsFiniteSet(Holders)
<1>1. Holders \subseteq Threads
  BY DEF Holders
<1> QED
  BY <1>1, PoolAssumption, FS_Subset

(* A new permit adds one holder. *)
LEMMA HoldersGrow ==
  ASSUME NEW t \in Threads, pc \in [Threads -> Phases], pc[t] # "holding",
         pc' = [pc EXCEPT ![t] = "holding"]
  PROVE  /\ Holders' = Holders \cup {t}
         /\ t \notin Holders
         /\ Cardinality(Holders') = Cardinality(Holders) + 1
<1>1. Holders' = Holders \cup {t} /\ t \notin Holders
  BY DEF Holders
<1>2. Cardinality(Holders \cup {t}) = Cardinality(Holders) + 1
  BY <1>1, HoldersFinite, FS_AddElement
<1> QED
  BY <1>1, <1>2

(* A dropped permit removes one holder, and there was one. *)
LEMMA HoldersShrink ==
  ASSUME NEW t \in Threads, pc \in [Threads -> Phases], pc[t] = "holding",
         pc' = [pc EXCEPT ![t] = "idle"]
  PROVE  /\ Holders' = Holders \ {t}
         /\ t \in Holders
         /\ Cardinality(Holders') = Cardinality(Holders) - 1
         /\ Cardinality(Holders) >= 1
<1>1. Holders' = Holders \ {t} /\ t \in Holders
  BY DEF Holders
<1>2. Cardinality(Holders \ {t}) = Cardinality(Holders) - 1
  BY <1>1, HoldersFinite, FS_RemoveElement
<1>3. Cardinality(Holders) \in Nat /\ Cardinality(Holders \ {t}) \in Nat
  BY HoldersFinite, FS_Subset, FS_CardinalityType
<1> QED
  BY <1>1, <1>2, <1>3

(* A step that moves a thread between "idle" and "deciding" keeps them. *)
LEMMA HoldersSame ==
  ASSUME NEW t \in Threads, NEW p \in {"idle", "deciding"},
         pc \in [Threads -> Phases], pc[t] # "holding",
         pc' = [pc EXCEPT ![t] = p]
  PROVE  Holders' = Holders
BY DEF Holders

(* The invariant holds in a new pool. *)
LEMMA InitIInv == Init => IInv
<1> SUFFICES ASSUME Init PROVE IInv
  OBVIOUS
<1>1. TypeOK
  BY CapacityPositive DEF Init, TypeOK, Phases
<1>2. Holders = {}
  BY DEF Init, Holders
<1>3. CounterIsHolders
  BY <1>2, FS_EmptySet DEF Init, CounterIsHolders
<1> QED
  BY <1>1, <1>3 DEF IInv

(* Every step of every thread preserves it. *)
LEMMA NextIInv == IInv /\ [Next]_vars => IInv'
<1> SUFFICES ASSUME IInv, [Next]_vars PROVE IInv'
  OBVIOUS
<1> USE CapacityPositive
<1>0. pc \in [Threads -> Phases]
  BY DEF IInv, TypeOK
<1>1. ASSUME NEW t \in Threads, Load(t) PROVE IInv'
  <2>1. Holders' = Holders
    BY <1>0, <1>1, HoldersSame DEF Load
  <2> QED
    BY <1>1, <2>1 DEF IInv, TypeOK, CounterIsHolders, Load, Phases
<1>2. ASSUME NEW t \in Threads, GiveUp(t) PROVE IInv'
  <2>1. Holders' = Holders
    BY <1>0, <1>2, HoldersSame DEF GiveUp
  <2> QED
    BY <1>2, <2>1 DEF IInv, TypeOK, CounterIsHolders, GiveUp, Phases
<1>3. ASSUME NEW t \in Threads, CasOk(t) PROVE IInv'
  <2>1. Cardinality(Holders') = Cardinality(Holders) + 1
    BY <1>0, <1>3, HoldersGrow DEF CasOk
  <2>2. TypeOK'
    BY <1>3 DEF IInv, TypeOK, CasOk, Full, Phases
  <2>3. CounterIsHolders'
    BY <1>3, <2>1 DEF IInv, TypeOK, CounterIsHolders, CasOk
  <2> QED
    BY <2>2, <2>3 DEF IInv
<1>4. ASSUME NEW t \in Threads, CasFail(t) PROVE IInv'
  BY <1>4 DEF IInv, TypeOK, CounterIsHolders, CasFail, Holders, Phases
<1>5. ASSUME NEW t \in Threads, DropPermit(t) PROVE IInv'
  <2>1. /\ Cardinality(Holders') = Cardinality(Holders) - 1
        /\ Cardinality(Holders) >= 1
    BY <1>0, <1>5, HoldersShrink DEF DropPermit
  <2>2. TypeOK'
    BY <1>5, <2>1 DEF IInv, TypeOK, CounterIsHolders, DropPermit, Phases
  <2>3. CounterIsHolders'
    BY <1>5, <2>1 DEF IInv, TypeOK, CounterIsHolders, DropPermit
  <2> QED
    BY <2>2, <2>3 DEF IInv
<1>6. CASE UNCHANGED vars
  BY <1>6 DEF IInv, TypeOK, CounterIsHolders, Holders, vars
<1> QED
  BY <1>1, <1>2, <1>3, <1>4, <1>5, <1>6 DEF Next

(* The types of the counter, the program counters and the observed values. *)
THEOREM TypeCorrect == Spec => []TypeOK
<1>1. IInv => TypeOK
  BY DEF IInv
<1> QED
  BY InitIInv, NextIInv, <1>1, PTL DEF Spec

(* However the threads interleave, the counter counts the live permits. *)
THEOREM CounterCorrect == Spec => []CounterIsHolders
<1>1. IInv => CounterIsHolders
  BY DEF IInv
<1> QED
  BY InitIInv, NextIInv, <1>1, PTL DEF Spec

(* The job loop and the local API together never hold more permits than    *)
(* the pool has slots.                                                     *)
THEOREM NeverOverCommitted == Spec => []NoOverCommit
<1>1. IInv => NoOverCommit
  BY CapacityPositive DEF IInv, TypeOK, CounterIsHolders, NoOverCommit
<1> QED
  BY InitIInv, NextIInv, <1>1, PTL DEF Spec

------------------------------------------------------------------------------
(* The refinement: every step is a step of the semaphore or leaves it.     *)
Refused == {t \in Threads : pc[t] = "deciding" /\ Full(t)}

(* The semaphore counts the holders as the pool does. *)
LEMMA SameCardinality == Sem!Cardinality(Holders) = Cardinality(Holders)
BY DEF Sem!Cardinality, Cardinality, Sem!IsFiniteSet, IsFiniteSet

(* An empty pool is an empty semaphore. *)
LEMMA InitRefines == Init => Sem!SemInit
BY CapacityPositive DEF Init, Sem!SemInit, Holders, Full

(* A successful exchange acquires, a drop releases, all else stutters. *)
LEMMA NextRefines == IInv /\ [Next]_vars => [Sem!SemNext]_(Sem!semVars)
<1> SUFFICES ASSUME IInv, [Next]_vars PROVE [Sem!SemNext]_(Sem!semVars)
  OBVIOUS
<1> USE CapacityPositive
<1>0. /\ pc \in [Threads -> Phases]
      /\ seen \in [Threads -> 0..PoolCapacity]
      /\ active = Cardinality(Holders)
      /\ active \in 0..PoolCapacity
  BY DEF IInv, TypeOK, CounterIsHolders
<1>1. ASSUME NEW t \in Threads, Load(t) PROVE [Sem!SemNext]_(Sem!semVars)
  <2>1. Holders' = Holders
    BY <1>0, <1>1, HoldersSame DEF Load
  <2>2. CASE active >= PoolCapacity
    <3>1. Refused' = Refused \cup {t} /\ t \notin Holders \cup Refused
      BY <1>0, <1>1, <2>2 DEF Load, Refused, Full, Holders
    <3>2. Sem!Refuse(t)
      BY <1>0, <2>1, <2>2, <3>1, SameCardinality DEF Sem!Refuse, Refused
    <3> QED
      BY <3>2 DEF Sem!SemNext
  <2>3. CASE active < PoolCapacity
    <3>1. Refused' = Refused
      BY <1>0, <1>1, <2>3 DEF Load, Refused, Full
    <3> QED
      BY <2>1, <3>1 DEF Sem!semVars, Refused
  <2> QED
    BY <1>0, <2>2, <2>3
<1>2. ASSUME NEW t \in Threads, GiveUp(t) PROVE [Sem!SemNext]_(Sem!semVars)
  <2>1. Holders' = Holders
    BY <1>0, <1>2, HoldersSame DEF GiveUp
  <2>2. Refused' = Refused \ {t} /\ t \in Refused
    BY <1>0, <1>2 DEF GiveUp, Refused, Full
  <2>3. Sem!Leave(t)
    BY <2>1, <2>2 DEF Sem!Leave, Refused
  <2> QED
    BY <2>3 DEF Sem!SemNext
<1>3. ASSUME NEW t \in Threads, CasOk(t) PROVE [Sem!SemNext]_(Sem!semVars)
  <2>1. Holders' = Holders \cup {t} /\ t \notin Holders
    BY <1>0, <1>3, HoldersGrow DEF CasOk
  <2>2. Refused' = Refused /\ t \notin Refused
    BY <1>0, <1>3 DEF CasOk, Refused, Full
  <2>3. Cardinality(Holders) < PoolCapacity
    BY <1>0, <1>3 DEF CasOk, Full
  <2>4. Sem!Grant(t)
    BY <2>1, <2>2, <2>3, SameCardinality DEF Sem!Grant, Refused
  <2> QED
    BY <2>4 DEF Sem!SemNext
<1>4. ASSUME NEW t \in Threads, CasFail(t) PROVE [Sem!SemNext]_(Sem!semVars)
  <2>1. Holders' = Holders
    BY <1>4 DEF CasFail, Holders
  <2>2. CASE active >= PoolCapacity
    <3>1. Refused' = Refused \cup {t} /\ t \notin Holders \cup Refused
      BY <1>0, <1>4, <2>2 DEF CasFail, Refused, Full, Holders
    <3>2. Sem!Refuse(t)
      BY <1>0, <2>1, <2>2, <3>1, SameCardinality DEF Sem!Refuse, Refused
    <3> QED
      BY <3>2 DEF Sem!SemNext
  <2>3. CASE active < PoolCapacity
    <3>1. Refused' = Refused
      BY <1>0, <1>4, <2>3 DEF CasFail, Refused, Full
    <3> QED
      BY <2>1, <3>1 DEF Sem!semVars, Refused
  <2> QED
    BY <1>0, <2>2, <2>3
<1>5. ASSUME NEW t \in Threads, DropPermit(t) PROVE [Sem!SemNext]_(Sem!semVars)
  <2>1. Holders' = Holders \ {t} /\ t \in Holders
    BY <1>0, <1>5, HoldersShrink DEF DropPermit
  <2>2. Refused' = Refused
    BY <1>0, <1>5 DEF DropPermit, Refused, Full
  <2>3. Sem!Release(t)
    BY <2>1, <2>2 DEF Sem!Release, Refused
  <2> QED
    BY <2>3 DEF Sem!SemNext
<1>6. CASE UNCHANGED vars
  BY <1>6 DEF vars, Sem!semVars, Holders, Full
<1> QED
  BY <1>1, <1>2, <1>3, <1>4, <1>5, <1>6 DEF Next

(* For any number of threads and slots, the lock-free pool implements the  *)
(* abstract semaphore: a slot is granted only while one is free, a caller  *)
(* is refused only at an instant at which the pool was full.               *)
THEOREM PoolImplementsSemaphore == Spec => ImplementsSemaphore
<1> QED
  BY InitIInv, NextIInv, InitRefines, NextRefines, PTL
  DEF Spec, ImplementsSemaphore, Sem!SemSpec

------------------------------------------------------------------------------
(* The local API.                                                          *)

Codes == {"none", "local", "local-offline", "LOCAL_MODE_UNSUPPORTED", "LOCAL_AGENT_UNAVAILABLE",
          "LOCAL_RESPONSE_INVALID", "LOCAL_AGENT_REJECTED", "INVALID_LOCAL_REQUEST",
          "LOCAL_MODEL_NOT_ACTIVE", "LOCAL_CAPACITY_UNAVAILABLE", "LOCAL_MODEL_UNSUITABLE",
          "LOCAL_RUNTIME_FAILURE"}

Failures == [code : Codes, fallback : BOOLEAN]

Runs == [at : {"new", "trying", "asking", "submitting", "waiting", "retrying", "asking again", "done"},
         routing : Routings, shape : AllShapes, failure : Failures,
         result : {"none", "error", "local", "local-offline", "network"}]

Threading == [at : {"none", "arrived", "acquiring", "admitted", "running", "returned", "answered",
                    "over"},
              ok : BOOLEAN, reply : Failures]

Managers == [at : {"none", "reporting", "waiting", "releasing", "ended"}, lease : Nat, made : Nat,
             offline : BOOLEAN]

RequestTypes ==
    /\ cli \in [Requests -> Runs]
    /\ handler \in [Handlers -> Threading]
    /\ manager \in [Handlers -> Managers]
    /\ job \in [Requests -> {"none", "open", "completed", "failed"}]
    /\ leases \subseteq Handlers \X (Nat \ {0})
    /\ pc \in [Threads -> Phases]

Unsuitable(failure) == failure.code = "LOCAL_MODEL_UNSUITABLE"

(* Before its worker is launched a handler has no manager, one that        *)
(* refused the prompt as unsuitable never gets one, and being offline is   *)
(* what a lease call met.                                                  *)
HandlerInv(h) ==
    /\ handler[h].at \in {"none", "arrived", "acquiring", "admitted"} => manager[h].at = "none"
    /\ Unsuitable(handler[h].reply) =>
         manager[h].at = "none" /\ handler[h].at \in {"answered", "over"}
    /\ manager[h].offline \/ handler[h].reply.code = "local-offline" =>
         <<h, "unreachable">> \in troubled

(* A handler holds a slot of the pool from its admission until it has      *)
(* answered and is gone.                                                   *)
SlotInv(h) ==
    /\ pc[h] = "deciding" <=> handler[h].at = "acquiring"
    /\ pc[h] = "holding" <=> handler[h].at \in {"admitted", "running", "returned", "answered"}

(* A run knows of an unsuitable prompt from its first handler, and has a   *)
(* second handler only because of that.                                    *)
RetryInv(r) ==
    /\ cli[r].at \in {"new", "trying"} => handler[<<r, 1>>].at = "none"
    /\ Unsuitable(cli[r].failure) => Unsuitable(handler[<<r, 1>>].reply)
    /\ cli[r].at \in {"retrying", "asking again"} => Unsuitable(cli[r].failure)
    /\ handler[<<r, 2>>].at # "none" =>
         Unsuitable(cli[r].failure) /\ cli[r].at \in {"asking again", "done"}

(* Where a run may go by its routing, and what a result says.              *)
RouteInv(r) ==
    /\ cli[r].at \in {"new", "trying", "asking"} => job[r] = "none"
    /\ cli[r].at \in {"submitting", "waiting"} \/ job[r] # "none" =>
         cli[r].routing # "local-only"
    /\ cli[r].at \in {"trying", "asking"} \/ handler[<<r, 1>>].at # "none" =>
         should_try_local(cli[r])
    /\ cli[r].at # "done" => cli[r].result = "none"
    /\ cli[r].result = "local" => job[r] = "none"
    /\ cli[r].result = "network" => job[r] = "completed"
    /\ cli[r].result = "local-offline" =>
         <<<<r, 1>>, "unreachable">> \in troubled \/ Unsuitable(cli[r].failure)

RequestInv ==
    /\ RequestTypes
    /\ \A h \in Handlers : HandlerInv(h) /\ SlotInv(h)
    /\ \A r \in Requests : RetryInv(r) /\ RouteInv(r)
    /\ LeaseAccounted
------------------------------------------------------------------------------
(* The decisions of run_inference, field by field.                         *)

LEMMA FailureRecord ==
  ASSUME NEW code \in Codes, NEW fallback \in BOOLEAN
  PROVE  /\ Failure(code, fallback) \in Failures /\ Failure(code, fallback).code = code
         /\ None \in Failures /\ None.code = "none"
<1>1. "none" \in Codes /\ TRUE \in BOOLEAN
  BY DEF Codes
<1> QED
  BY <1>1, Zenon DEF Failure, None, Failures

LEMMA EndsRecord ==
  ASSUME NEW c \in Runs, NEW result \in {"none", "error", "local", "local-offline", "network"}
  PROVE  /\ Ends(c, result) \in Runs
         /\ Ends(c, result).at = "done" /\ Ends(c, result).result = result
         /\ Ends(c, result).routing = c.routing /\ Ends(c, result).shape = c.shape
         /\ Ends(c, result).failure = c.failure
BY Zenon DEF Ends, Runs

(* c, with another failure and another place. *)
LEMMA FailedRun ==
  ASSUME NEW c \in Runs, NEW failure \in Failures
  PROVE  /\ [c EXCEPT !.failure = failure] \in Runs
         /\ [c EXCEPT !.failure = failure].failure = failure
         /\ [c EXCEPT !.failure = failure].routing = c.routing
         /\ [c EXCEPT !.failure = failure].shape = c.shape
BY Zenon DEF Runs

LEMMA AfterLocalRecord ==
  ASSUME NEW c \in Runs, NEW failure \in Failures
  PROVE  /\ AfterLocal(c, failure) \in Runs
         /\ AfterLocal(c, failure).routing = c.routing
         /\ AfterLocal(c, failure).shape = c.shape
         /\ AfterLocal(c, failure).failure = failure
         /\ \/ AfterLocal(c, failure).at = "done" /\ AfterLocal(c, failure).result = "error"
            \/ /\ AfterLocal(c, failure).at = "submitting"
               /\ AfterLocal(c, failure).result = c.result
               /\ c.routing # "local-only"
<1> DEFINE d == [c EXCEPT !.failure = failure]
           s == [c EXCEPT !.at = "submitting", !.failure = failure]
<1>1. /\ d \in Runs /\ d.routing = c.routing /\ d.shape = c.shape /\ d.failure = failure
  BY FailedRun, Zenon
<1>2. /\ s \in Runs /\ s.at = "submitting" /\ s.routing = c.routing /\ s.shape = c.shape
      /\ s.failure = failure /\ s.result = c.result
  BY Zenon DEF Runs
<1>3. \/ AfterLocal(c, failure) = Ends(d, "error")
      \/ AfterLocal(c, failure) = s /\ c.routing # "local-only"
  BY Zenon DEF AfterLocal
<1> HIDE DEF d, s
<1>4. /\ Ends(d, "error") \in Runs
      /\ Ends(d, "error").at = "done" /\ Ends(d, "error").result = "error"
      /\ Ends(d, "error").routing = d.routing /\ Ends(d, "error").shape = d.shape
      /\ Ends(d, "error").failure = d.failure
  BY <1>1, EndsRecord
<1> QED
  BY <1>1, <1>2, <1>3, <1>4

LEMMA AfterNetworkRecord ==
  ASSUME NEW c \in Runs, NEW unreachable \in BOOLEAN
  PROVE  /\ AfterNetwork(c, unreachable) \in Runs
         /\ AfterNetwork(c, unreachable).routing = c.routing
         /\ AfterNetwork(c, unreachable).shape = c.shape
         /\ AfterNetwork(c, unreachable).failure = c.failure
         /\ \/ /\ AfterNetwork(c, unreachable).at = "done"
               /\ AfterNetwork(c, unreachable).result = "error"
            \/ /\ AfterNetwork(c, unreachable).at = "retrying"
               /\ AfterNetwork(c, unreachable).result = c.result
               /\ Unsuitable(c.failure)
<1> DEFINE s == [c EXCEPT !.at = "retrying"]
<1>1. /\ s \in Runs /\ s.at = "retrying" /\ s.routing = c.routing /\ s.shape = c.shape
      /\ s.failure = c.failure /\ s.result = c.result
  BY Zenon DEF Runs
<1>2. \/ AfterNetwork(c, unreachable) = Ends(c, "error")
      \/ AfterNetwork(c, unreachable) = s /\ Unsuitable(c.failure)
  BY Zenon DEF AfterNetwork, should_retry_local_offline, Unsuitable
<1> HIDE DEF s
<1> QED
  BY <1>1, <1>2, EndsRecord
------------------------------------------------------------------------------
(* The steps of a run.                                                     *)

LEMMA RunsHandlers ==
  ASSUME NEW r \in Requests
  PROVE  /\ <<r, 1>> \in Handlers /\ <<r, 2>> \in Handlers /\ <<r, 1>> # <<r, 2>>
         /\ \A q \in Requests, k \in {1, 2} : q # r => <<q, k>> # <<r, 1>> /\ <<q, k>> # <<r, 2>>
BY DEF Handlers

LEMMA HeldRun ==
  ASSUME RequestInv, NEW r \in Requests
  PROVE  /\ cli[r] \in Runs /\ RetryInv(r) /\ RouteInv(r)
         /\ handler[<<r, 1>>] \in Threading /\ handler[<<r, 2>>] \in Threading
         /\ HandlerInv(<<r, 1>>) /\ HandlerInv(<<r, 2>>)
BY RunsHandlers DEF RequestInv, RequestTypes

(* A run goes on as e, and its handlers as they were. *)
LEMMA RunGoes ==
  ASSUME RequestInv, NEW r \in Requests, NEW e \in Runs, cli' = [cli EXCEPT ![r] = e],
         job' = job \/ (cli[r].at = "submitting" /\ job' = [job EXCEPT ![r] = "open"]),
         UNCHANGED <<pc, handler, manager, leases, troubled>>,
         e.at \notin {"new", "trying"} \/ handler[<<r, 1>>].at = "none",
         Unsuitable(e.failure) => Unsuitable(handler[<<r, 1>>].reply),
         e.at \in {"retrying", "asking again"} => Unsuitable(e.failure),
         handler[<<r, 2>>].at # "none" => Unsuitable(e.failure) /\ e.at \in {"asking again", "done"},
         RouteInv(r)'
  PROVE  RequestInv'
<1>1. /\ cli' \in [Requests -> Runs] /\ cli'[r] = e
      /\ \A q \in Requests \ {r} : cli'[q] = cli[q] /\ job'[q] = job[q]
      /\ job' \in [Requests -> {"none", "open", "completed", "failed"}]
  BY DEF RequestInv, RequestTypes
<1>2. RequestTypes'
  BY <1>1 DEF RequestInv, RequestTypes
<1>3. RetryInv(r)'
  BY <1>1 DEF RetryInv
<1>4. ASSUME NEW q \in Requests \ {r}
      PROVE  RetryInv(q)' /\ RouteInv(q)'
  <2>1. RetryInv(q) /\ RouteInv(q) /\ cli'[q] = cli[q] /\ job'[q] = job[q]
    BY <1>1 DEF RequestInv
  <2>2. RetryInv(q)'
    BY <2>1 DEF RetryInv
  <2>3. RouteInv(q)'
    BY <2>1 DEF RouteInv, should_try_local
  <2> QED
    BY <2>2, <2>3
<1>5. \A h \in Handlers : HandlerInv(h)' /\ SlotInv(h)'
  BY DEF RequestInv, HandlerInv, SlotInv
<1>6. LeaseAccounted'
  BY DEF RequestInv, LeaseAccounted
<1> QED
  BY <1>2, <1>3, <1>4, <1>5, <1>6 DEF RequestInv

LEMMA RunStep ==
  ASSUME RequestInv, NEW r \in Requests, Run(r)
  PROVE  RequestInv'
<1>1. PICK routing \in Routings, shape \in Shapes :
        cli' = [cli EXCEPT ![r] = FirstRoute([@ EXCEPT !.routing = routing, !.shape = shape])]
  BY DEF Run
<1> DEFINE c == [cli[r] EXCEPT !.routing = routing, !.shape = shape]
<1>2. shape \in AllShapes
  BY RequestAssumption
<1>3. /\ c \in Runs /\ c.routing = routing /\ c.shape = shape /\ c.at = cli[r].at
      /\ c.failure = cli[r].failure /\ c.result = cli[r].result
  BY <1>2, HeldRun, Zenon DEF Runs
<1>4. /\ cli[r].at = "new" /\ job[r] = "none" /\ handler[<<r, 1>>].at = "none"
      /\ handler[<<r, 2>>].at = "none" /\ cli[r].result = "none"
      /\ UNCHANGED <<pc, handler, manager, job, leases, troubled>>
  BY HeldRun DEF Run, RetryInv, RouteInv, vars
<1> HIDE DEF c
<1>5. PICK e : e = FirstRoute(c)
  OBVIOUS
<1>6. cli' = [cli EXCEPT ![r] = e]
  BY <1>1, <1>5, Zenon DEF c
<1>7. CASE should_try_local(c)
  <2>1. e = [c EXCEPT !.at = "trying"]
    BY <1>5, <1>7 DEF FirstRoute
  <2>2. /\ e \in Runs /\ e.at = "trying" /\ e.routing = c.routing /\ e.shape = c.shape
        /\ e.failure = c.failure /\ e.result = c.result
    BY <1>3, <2>1, Zenon DEF Runs
  <2>3. cli'[r] = e
    BY <1>6, <2>2 DEF RequestInv, RequestTypes
  <2>4. RouteInv(r)'
    BY <1>3, <1>4, <1>7, <2>2, <2>3 DEF RouteInv, should_try_local
  <2>5. Unsuitable(e.failure) => Unsuitable(handler[<<r, 1>>].reply)
    BY <1>3, <2>2, HeldRun DEF RetryInv
  <2> QED
    BY <1>4, <1>6, <2>2, <2>4, <2>5, RunGoes
<1>8. CASE ~should_try_local(c)
  <2>1. PICK failure \in {None, Failure("LOCAL_MODE_UNSUPPORTED", TRUE)} : e = AfterLocal(c, failure)
    BY <1>5, <1>8 DEF FirstRoute
  <2>2. failure \in Failures /\ ~Unsuitable(failure)
    BY <2>1, FailureRecord DEF Codes, Unsuitable
  <2>3. /\ e \in Runs /\ e.routing = c.routing /\ e.shape = c.shape /\ e.failure = failure
        /\ \/ e.at = "done" /\ e.result = "error"
           \/ e.at = "submitting" /\ e.result = c.result /\ c.routing # "local-only"
    BY <1>3, <2>1, <2>2, AfterLocalRecord
  <2>4. cli'[r] = e
    BY <1>6, <2>3 DEF RequestInv, RequestTypes
  <2>5. RouteInv(r)'
    BY <1>3, <1>4, <2>3, <2>4 DEF RouteInv
  <2> QED
    BY <1>4, <1>6, <2>2, <2>3, <2>5, RunGoes
<1> QED
  BY <1>7, <1>8

(* A failed attempt that was not a refusal of the prompt, or the refusal   *)
(* of the first handler.                                                   *)
LEMMA AttemptFails ==
  ASSUME RequestInv, NEW r \in Requests, NEW k \in {1, 2}, NEW failure \in Failures,
         k = 1 => cli[r].at \in {"trying", "asking"},
         k = 2 => cli[r].at \in {"retrying", "asking again"},
         k = 1 /\ Unsuitable(failure) => Unsuitable(handler[<<r, 1>>].reply),
         cli' = [cli EXCEPT ![r] = AfterAttempt(@, k, failure)],
         UNCHANGED <<pc, handler, manager, job, leases, troubled>>
  PROVE  RequestInv'
<1>1. PICK e : e = AfterAttempt(cli[r], k, failure)
  OBVIOUS
<1>2. cli' = [cli EXCEPT ![r] = e] /\ cli[r] \in Runs
  BY <1>1, HeldRun
<1>3. CASE k = 1
  <2>1. /\ e \in Runs /\ e.routing = cli[r].routing /\ e.shape = cli[r].shape
        /\ e.failure = failure
        /\ \/ e.at = "done" /\ e.result = "error"
           \/ /\ e.at = "submitting" /\ e.result = cli[r].result
              /\ cli[r].routing # "local-only"
    BY <1>1, <1>2, <1>3, AfterLocalRecord DEF AfterAttempt
  <2>2. cli'[r] = e
    BY <1>2, <2>1 DEF RequestInv, RequestTypes
  <2>3. handler[<<r, 2>>].at = "none" /\ job[r] = "none" /\ cli[r].result = "none"
    BY <1>3, HeldRun DEF RetryInv, RouteInv
  <2>4. RouteInv(r)'
    BY <1>3, <2>1, <2>2, <2>3, HeldRun DEF RouteInv, should_try_local
  <2> QED
    BY <1>2, <1>3, <2>1, <2>3, <2>4, RunGoes
<1>4. CASE k = 2
  <2>0. e = Ends(cli[r], "error")
    BY <1>1, <1>4 DEF AfterAttempt
  <2>1. /\ e \in Runs /\ e.routing = cli[r].routing /\ e.shape = cli[r].shape
        /\ e.failure = cli[r].failure /\ e.at = "done" /\ e.result = "error"
    BY <1>2, <2>0, EndsRecord
  <2>2. cli'[r] = e
    BY <1>2, <2>1 DEF RequestInv, RequestTypes
  <2>3. Unsuitable(cli[r].failure) /\ Unsuitable(handler[<<r, 1>>].reply)
    BY <1>4, HeldRun DEF RetryInv
  <2>4. RouteInv(r)'
    BY <1>4, <2>1, <2>2, HeldRun DEF RouteInv, should_try_local
  <2> QED
    BY <1>2, <2>1, <2>3, <2>4, RunGoes
<1> QED
  BY <1>3, <1>4

(* Which attempt a run is at. *)
LEMMA AttemptOf ==
  ASSUME NEW r \in Requests
  PROVE  /\ Attempt(r) = 1 => cli[r].at \in {"trying", "asking"}
         /\ Attempt(r) = 2 => cli[r].at \in {"retrying", "asking again"}
         /\ Attempt(r) \in {0, 1, 2}
         /\ cli[r].at \in {"trying", "asking"} => Attempt(r) = 1
         /\ cli[r].at \in {"retrying", "asking again"} => Attempt(r) = 2
<1>1. \/ cli[r].at \in {"trying", "asking"} /\ Attempt(r) = 1
      \/ cli[r].at \in {"retrying", "asking again"} /\ Attempt(r) = 2
      \/ cli[r].at \notin {"trying", "asking", "retrying", "asking again"} /\ Attempt(r) = 0
  BY DEF Attempt
<1>2. 0 # 1 /\ 0 # 2 /\ 1 # 2
  OBVIOUS
<1> QED
  BY <1>1, <1>2

LEMMA LocalUnavailableStep ==
  ASSUME RequestInv, NEW r \in Requests, LocalUnavailable(r)
  PROVE  RequestInv'
<1>1. Attempt(r) \in {1, 2}
  BY AttemptOf DEF LocalUnavailable, vars
<1>2. PICK failure \in Failures : failure = Failure("LOCAL_AGENT_UNAVAILABLE", TRUE)
  BY FailureRecord DEF Codes
<1>3. ~Unsuitable(failure)
  BY <1>2, FailureRecord DEF Codes, Unsuitable
<1>4. PICK k \in {1, 2} : k = Attempt(r)
  BY <1>1
<1>5. /\ k = 1 => cli[r].at \in {"trying", "asking"}
      /\ k = 2 => cli[r].at \in {"retrying", "asking again"}
  BY <1>4, AttemptOf
<1>6. /\ cli' = [cli EXCEPT ![r] = AfterAttempt(@, k, failure)]
      /\ UNCHANGED <<pc, handler, manager, job, leases, troubled>>
  BY <1>2, <1>4 DEF LocalUnavailable, vars
<1> QED
  BY <1>3, <1>5, <1>6, AttemptFails

LEMMA AnsweredStep ==
  ASSUME RequestInv, NEW r \in Requests, Answered(r)
  PROVE  RequestInv'
<1>0. cli[r].at \in {"asking", "asking again"}
  BY DEF Answered, Asking
<1>1. PICK k \in {1, 2} : k = Attempt(r)
  BY <1>0, AttemptOf
<1>2. /\ k = 1 => cli[r].at = "asking"
      /\ k = 2 => cli[r].at = "asking again"
  BY <1>0, <1>1, AttemptOf
<1>3. PICK reply \in Failures : reply = handler[<<r, k>>].reply
  BY HeldRun DEF Threading
<1>4. /\ k = 1 /\ Unsuitable(reply) => Unsuitable(handler[<<r, 1>>].reply)
      /\ UNCHANGED <<pc, handler, manager, job, leases, troubled>>
  BY <1>3 DEF Answered, vars
<1>5. \/ /\ reply.code \in {"local", "local-offline"}
         /\ cli' = [cli EXCEPT ![r] = Ends(@, IF k = 1 THEN reply.code ELSE "local-offline")]
      \/ cli' = [cli EXCEPT ![r] = AfterAttempt(@, k, Failure("LOCAL_RESPONSE_INVALID", TRUE))]
      \/ cli' = [cli EXCEPT ![r] = AfterAttempt(@, k, reply)]
  BY <1>1, <1>3 DEF Answered, vars
<1>6. CASE cli' = [cli EXCEPT ![r] = AfterAttempt(@, k, reply)]
  BY <1>2, <1>4, <1>6, AttemptFails
<1>7. CASE cli' = [cli EXCEPT ![r] = AfterAttempt(@, k, Failure("LOCAL_RESPONSE_INVALID", TRUE))]
  <2>1. PICK failure \in Failures : failure = Failure("LOCAL_RESPONSE_INVALID", TRUE)
    BY FailureRecord DEF Codes
  <2>2. ~Unsuitable(failure)
    BY <2>1, FailureRecord DEF Codes, Unsuitable
  <2>3. cli' = [cli EXCEPT ![r] = AfterAttempt(@, k, failure)]
    BY <1>7, <2>1
  <2> QED
    BY <1>2, <1>4, <2>2, <2>3, AttemptFails
<1>8. CASE /\ reply.code \in {"local", "local-offline"}
           /\ cli' = [cli EXCEPT ![r] = Ends(@, IF k = 1 THEN reply.code ELSE "local-offline")]
  <2>1. PICK result \in {"local", "local-offline"} :
          result = IF k = 1 THEN reply.code ELSE "local-offline"
    BY <1>8
  <2>2. PICK e : e = Ends(cli[r], result)
    OBVIOUS
  <2>3. /\ e \in Runs /\ e.at = "done" /\ e.result = result /\ e.routing = cli[r].routing
        /\ e.shape = cli[r].shape /\ e.failure = cli[r].failure
    <3>1. cli[r] \in Runs /\ result \in {"none", "error", "local", "local-offline", "network"}
      BY <2>1, HeldRun
    <3> QED
      BY <2>2, <3>1, EndsRecord
  <2>4. cli' = [cli EXCEPT ![r] = e] /\ cli'[r] = e
    BY <1>8, <2>1, <2>2, <2>3 DEF RequestInv, RequestTypes
  <2>5. /\ result = "local" => k = 1
        /\ result = "local-offline" /\ k = 1 => handler[<<r, 1>>].reply.code = "local-offline"
    BY <1>3, <2>1
  <2>6. result = "local" => job[r] = "none"
    BY <1>2, <2>5, HeldRun DEF RouteInv
  <2>7. result = "local-offline" =>
          <<<<r, 1>>, "unreachable">> \in troubled \/ Unsuitable(cli[r].failure)
    <3>1. CASE k = 1
      BY <2>5, <3>1, HeldRun DEF HandlerInv
    <3>2. CASE k = 2
      BY <1>2, <3>2, HeldRun DEF RetryInv
    <3> QED
      BY <3>1, <3>2
  <2>8. RouteInv(r)'
    BY <1>4, <2>1, <2>3, <2>4, <2>6, <2>7, HeldRun, ZenonT(60) DEF RouteInv, should_try_local, Unsuitable
  <2>9. handler[<<r, 2>>].at # "none" => Unsuitable(e.failure)
    BY <2>3, HeldRun DEF RetryInv
  <2>10. Unsuitable(e.failure) => Unsuitable(handler[<<r, 1>>].reply)
    BY <2>3, HeldRun DEF RetryInv
  <2> QED
    BY <1>4, <2>3, <2>4, <2>8, <2>9, <2>10, RunGoes
<1> QED
  BY <1>5, <1>6, <1>7, <1>8

(* The network route ends or turns to the forced retry. *)
LEMMA NetworkFails ==
  ASSUME RequestInv, NEW r \in Requests, NEW unreachable \in BOOLEAN,
         cli[r].at \in {"submitting", "waiting"},
         cli' = [cli EXCEPT ![r] = AfterNetwork(@, unreachable)],
         job' = job \/ (cli[r].at = "submitting" /\ job' = [job EXCEPT ![r] = "open"]),
         UNCHANGED <<pc, handler, manager, leases, troubled>>
  PROVE  RequestInv'
<1>1. PICK e : e = AfterNetwork(cli[r], unreachable)
  OBVIOUS
<1>2. /\ e \in Runs /\ e.routing = cli[r].routing /\ e.shape = cli[r].shape
      /\ e.failure = cli[r].failure
      /\ \/ e.at = "done" /\ e.result = "error"
         \/ e.at = "retrying" /\ e.result = cli[r].result /\ Unsuitable(cli[r].failure)
  BY <1>1, HeldRun, AfterNetworkRecord
<1>3. cli' = [cli EXCEPT ![r] = e] /\ cli'[r] = e
  BY <1>1, <1>2 DEF RequestInv, RequestTypes
<1>4. /\ handler[<<r, 2>>].at = "none" /\ cli[r].result = "none"
      /\ cli[r].routing # "local-only"
      /\ handler[<<r, 1>>].at # "none" => should_try_local(cli[r])
      /\ Unsuitable(cli[r].failure) => Unsuitable(handler[<<r, 1>>].reply)
  BY HeldRun DEF RetryInv, RouteInv
<1>5. RouteInv(r)'
  BY <1>2, <1>3, <1>4 DEF RouteInv, should_try_local
<1> QED
  BY <1>2, <1>3, <1>4, <1>5, RunGoes

LEMMA SubmitStep ==
  ASSUME RequestInv, NEW r \in Requests, Submit(r)
  PROVE  RequestInv'
<1>1. PICK created \in BOOLEAN, answer \in PostAnswers :
        /\ job' = [job EXCEPT ![r] = IF created THEN "open" ELSE @]
        /\ cli' = [cli EXCEPT ![r] = IF answer = "ok" THEN [@ EXCEPT !.at = "waiting"]
                                     ELSE AfterNetwork(@, answer = "unreachable")]
  BY DEF Submit
<1>2. /\ cli[r].at = "submitting"
      /\ job' = job \/ job' = [job EXCEPT ![r] = "open"]
      /\ UNCHANGED <<pc, handler, manager, leases, troubled>>
  BY <1>1 DEF Submit, RequestInv, RequestTypes, vars
<1>3. CASE answer # "ok"
  <2>1. PICK unreachable \in BOOLEAN : unreachable = (answer = "unreachable")
    OBVIOUS
  <2>2. cli' = [cli EXCEPT ![r] = AfterNetwork(@, unreachable)]
    BY <1>1, <1>3, <2>1
  <2> QED
    BY <1>2, <2>2, NetworkFails
<1>4. CASE answer = "ok"
  <2>1. PICK e : e = [cli[r] EXCEPT !.at = "waiting"]
    OBVIOUS
  <2>2. /\ e \in Runs /\ e.at = "waiting" /\ e.routing = cli[r].routing /\ e.shape = cli[r].shape
        /\ e.failure = cli[r].failure /\ e.result = cli[r].result
    BY <2>1, HeldRun, Zenon DEF Runs
  <2>3. cli' = [cli EXCEPT ![r] = e] /\ cli'[r] = e
    BY <1>1, <1>4, <2>1, <2>2 DEF RequestInv, RequestTypes
  <2>4. /\ handler[<<r, 2>>].at = "none" /\ cli[r].result = "none"
        /\ cli[r].routing # "local-only"
        /\ handler[<<r, 1>>].at # "none" => should_try_local(cli[r])
        /\ Unsuitable(cli[r].failure) => Unsuitable(handler[<<r, 1>>].reply)
    BY <1>2, HeldRun DEF RetryInv, RouteInv
  <2>5. RouteInv(r)'
    BY <1>2, <2>2, <2>3, <2>4 DEF RouteInv, should_try_local
  <2> QED
    BY <1>2, <2>2, <2>3, <2>4, <2>5, RunGoes
<1> QED
  BY <1>3, <1>4

LEMMA JobSeenStep ==
  ASSUME RequestInv, NEW r \in Requests, JobSeen(r)
  PROVE  RequestInv'
<1>1. PICK output \in HasOutput(r) :
        cli' = [cli EXCEPT ![r] = IF output THEN Ends(@, "network") ELSE AfterNetwork(@, FALSE)]
  BY DEF JobSeen
<1>2. cli[r].at = "waiting" /\ UNCHANGED <<pc, handler, manager, job, leases, troubled>>
  BY DEF JobSeen, vars
<1>3. CASE ~output
  <2>1. cli' = [cli EXCEPT ![r] = AfterNetwork(@, FALSE)]
    BY <1>1, <1>3
  <2> QED
    BY <1>2, <2>1, NetworkFails
<1>4. CASE output
  <2>1. PICK e : e = Ends(cli[r], "network")
    OBVIOUS
  <2>2. /\ e \in Runs /\ e.at = "done" /\ e.result = "network" /\ e.routing = cli[r].routing
        /\ e.shape = cli[r].shape /\ e.failure = cli[r].failure
    BY <2>1, EndsRecord, HeldRun
  <2>3. cli' = [cli EXCEPT ![r] = e] /\ cli'[r] = e
    BY <1>1, <1>4, <2>1, <2>2 DEF RequestInv, RequestTypes
  <2>4. /\ handler[<<r, 2>>].at = "none" /\ cli[r].routing # "local-only"
        /\ handler[<<r, 1>>].at # "none" => should_try_local(cli[r])
        /\ Unsuitable(cli[r].failure) => Unsuitable(handler[<<r, 1>>].reply)
    BY <1>2, HeldRun DEF RetryInv, RouteInv
  <2>5. job[r] = "completed"
    BY <1>4 DEF HasOutput
  <2>6. RouteInv(r)'
    BY <1>2, <2>2, <2>3, <2>4, <2>5 DEF RouteInv, should_try_local
  <2> QED
    BY <1>2, <2>2, <2>3, <2>4, <2>6, RunGoes
<1> QED
  BY <1>1, <1>3, <1>4 DEF HasOutput

LEMMA JobPollFailsStep ==
  ASSUME RequestInv, NEW r \in Requests, JobPollFails(r)
  PROVE  RequestInv'
BY NetworkFails DEF JobPollFails, vars

LEMMA JobEndsStep ==
  ASSUME RequestInv, NEW r \in Requests, JobEnds(r)
  PROVE  RequestInv'
<1>1. PICK end \in {"completed", "failed"} : job[r] = "open" /\ job' = [job EXCEPT ![r] = end]
  BY DEF JobEnds
<1>2. /\ job' \in [Requests -> {"none", "open", "completed", "failed"}] /\ job'[r] = end
      /\ \A q \in Requests \ {r} : job'[q] = job[q]
      /\ UNCHANGED <<pc, cli, handler, manager, leases, troubled>>
  BY <1>1 DEF JobEnds, RequestInv, RequestTypes, vars
<1>3. RequestTypes'
  BY <1>2 DEF RequestInv, RequestTypes
<1>4. ASSUME NEW q \in Requests
      PROVE  RetryInv(q)' /\ RouteInv(q)'
  <2>1. RetryInv(q)'
    BY <1>2 DEF RequestInv, RetryInv
  <2>2. CASE q # r
    <3>1. RouteInv(q) /\ job'[q] = job[q]
      BY <1>2, <2>2 DEF RequestInv
    <3> QED
      BY <1>2, <2>1, <3>1 DEF RouteInv, should_try_local
  <2>3. CASE q = r
    BY <1>1, <1>2, <2>1, <2>3, HeldRun DEF RouteInv, should_try_local
  <2> QED
    BY <2>1, <2>2, <2>3
<1>5. \A h \in Handlers : HandlerInv(h)' /\ SlotInv(h)'
  BY <1>2 DEF RequestInv, HandlerInv, SlotInv
<1>6. LeaseAccounted'
  BY <1>2 DEF RequestInv, LeaseAccounted
<1> QED
  BY <1>3, <1>4, <1>5, <1>6 DEF RequestInv

LEMMA ConnectStep ==
  ASSUME RequestInv, NEW r \in Requests, Connect(r)
  PROVE  RequestInv'
<1>1. PICK k \in {1, 2} : k = Attempt(r)
  BY AttemptOf DEF Connect
<1>2. /\ k = 1 => cli[r].at = "trying"
      /\ k = 2 => cli[r].at = "retrying"
  BY <1>1, AttemptOf DEF Connect
<1>3. PICK h \in Handlers : h = <<r, k>>
  BY RunsHandlers
<1>4. PICK e : e = [cli[r] EXCEPT !.at = IF k = 1 THEN "asking" ELSE "asking again"]
  OBVIOUS
<1>5. PICK place \in {"asking", "asking again"} : place = IF k = 1 THEN "asking" ELSE "asking again"
  OBVIOUS
<1>6. /\ e \in Runs /\ e.at = place /\ e.routing = cli[r].routing /\ e.shape = cli[r].shape
      /\ e.failure = cli[r].failure /\ e.result = cli[r].result
  BY <1>4, <1>5, HeldRun, Zenon DEF Runs
<1>7. cli' = [cli EXCEPT ![r] = e]
  BY <1>1, <1>2, <1>4 DEF Connect
<1>8. PICK g : g = [handler[h] EXCEPT !.at = "arrived"]
  OBVIOUS
<1>9. handler[h] \in Threading /\ HandlerInv(h) /\ SlotInv(h)
  BY DEF RequestInv, RequestTypes
<1>10. g \in Threading /\ g.at = "arrived" /\ g.ok = handler[h].ok /\ g.reply = handler[h].reply
  BY <1>8, <1>9, Zenon DEF Threading
<1>11. handler' = [handler EXCEPT ![h] = g] /\ UNCHANGED <<pc, manager, job, leases, troubled>>
  BY <1>1, <1>3, <1>8 DEF Connect, vars
<1>12. /\ cli' \in [Requests -> Runs] /\ cli'[r] = e
       /\ \A q \in Requests \ {r} : cli'[q] = cli[q]
  BY <1>6, <1>7 DEF RequestInv, RequestTypes
<1>13. /\ handler' \in [Handlers -> Threading] /\ handler'[h] = g
       /\ \A i \in Handlers \ {h} : handler'[i] = handler[i]
  BY <1>10, <1>11 DEF RequestInv, RequestTypes
<1>14. handler[h].at = "none"
  BY <1>2, <1>3, HeldRun DEF RetryInv
<1>15. RequestTypes'
  BY <1>11, <1>12, <1>13 DEF RequestInv, RequestTypes
<1>16. HandlerInv(h)' /\ SlotInv(h)'
  BY <1>9, <1>10, <1>11, <1>13, <1>14 DEF HandlerInv, SlotInv, Unsuitable
<1>17. ASSUME NEW i \in Handlers, i # h
       PROVE  HandlerInv(i)' /\ SlotInv(i)'
  BY <1>11, <1>13, <1>17 DEF RequestInv, HandlerInv, SlotInv
<1>18. handler'[<<r, 1>>].reply = handler[<<r, 1>>].reply
  BY <1>10, <1>13, RunsHandlers
<1>19. RetryInv(r)'
  <2>1. CASE k = 1
    <3>1. handler'[<<r, 2>>] = handler[<<r, 2>>]
      <4>1. h = <<r, 1>>
        BY <1>3, <2>1
      <4> QED
        BY <1>13, <4>1, RunsHandlers
    <3>2. cli'[r].at = "asking"
      BY <1>5, <1>6, <1>12, <2>1
    <3>3. handler[<<r, 2>>].at = "none"
      BY <1>2, <2>1, HeldRun DEF RetryInv
    <3>4. Unsuitable(cli[r].failure) => Unsuitable(handler[<<r, 1>>].reply)
      BY HeldRun DEF RetryInv
    <3> QED
      BY <1>6, <1>12, <1>18, <3>1, <3>2, <3>3, <3>4 DEF RetryInv, Unsuitable
  <2>2. CASE k = 2
    <3>1. cli'[r].at = "asking again"
      <4>1. place = "asking again"
        BY <1>2, <1>5, <2>2
      <4> QED
        BY <1>6, <1>12, <4>1
    <3>2. Unsuitable(cli[r].failure)
      BY <1>2, <2>2, HeldRun DEF RetryInv
    <3>3. Unsuitable(handler[<<r, 1>>].reply)
      BY <3>2, HeldRun DEF RetryInv
    <3> QED
      BY <1>6, <1>12, <1>18, <3>1, <3>2, <3>3 DEF RetryInv, Unsuitable
  <2> QED
    BY <2>1, <2>2
<1>20. RouteInv(r)'
  <2>1. /\ cli'[r].at = place /\ cli'[r].routing = cli[r].routing /\ cli'[r].shape = cli[r].shape
        /\ cli'[r].failure = cli[r].failure /\ cli'[r].result = cli[r].result /\ job' = job
        /\ troubled' = troubled
    BY <1>6, <1>11, <1>12
  <2>2. CASE k = 1
    <3>1. place = "asking" /\ cli[r].at = "trying"
      BY <1>2, <1>5, <2>2
    <3>2. should_try_local(cli[r]) /\ job[r] = "none" /\ cli[r].result = "none"
      BY <3>1, HeldRun DEF RouteInv
    <3> QED
      BY <2>1, <3>1, <3>2 DEF RouteInv, should_try_local
  <2>3. CASE k = 2
    <3>1. place = "asking again" /\ cli[r].at = "retrying"
      BY <1>2, <1>5, <2>3
    <3>2. handler'[<<r, 1>>] = handler[<<r, 1>>]
      <4>1. h = <<r, 2>>
        BY <1>3, <2>3
      <4> QED
        BY <1>13, <4>1, RunsHandlers
    <3> QED
      BY <2>1, <3>1, <3>2, HeldRun DEF RouteInv, should_try_local
  <2> QED
    BY <2>2, <2>3
<1>21. ASSUME NEW q \in Requests, q # r
       PROVE  RetryInv(q)' /\ RouteInv(q)'
  <2>1. handler'[<<q, 1>>] = handler[<<q, 1>>] /\ handler'[<<q, 2>>] = handler[<<q, 2>>]
    BY <1>3, <1>13, <1>21, RunsHandlers
  <2>2. cli'[q] = cli[q] /\ job' = job /\ troubled' = troubled
    BY <1>11, <1>12, <1>21
  <2>3. RetryInv(q)'
    BY <2>1, <2>2 DEF RequestInv, RetryInv
  <2>4. RouteInv(q)'
    BY <2>1, <2>2 DEF RequestInv, RouteInv
  <2> QED
    BY <2>3, <2>4
<1>22. LeaseAccounted'
  BY <1>11 DEF RequestInv, LeaseAccounted
<1> QED
  BY <1>15, <1>16, <1>17, <1>19, <1>20, <1>21, <1>22 DEF RequestInv
------------------------------------------------------------------------------
(* The steps of a handler.                                                 *)

(* A handler that has begun goes on as g, and everything else but the pool *)
(* stays as it was.                                                        *)
LEMMA HandlerGoes ==
  ASSUME RequestInv, NEW h \in Handlers, NEW g \in Threading,
         handler' = [handler EXCEPT ![h] = g],
         handler[h].at # "none", g.at # "none",
         Unsuitable(handler[h].reply) => Unsuitable(g.reply),
         pc' \in [Threads -> Phases], \A i \in Handlers \ {h} : pc'[i] = pc[i],
         UNCHANGED <<cli, manager, job, leases, troubled>>,
         HandlerInv(h)', SlotInv(h)'
  PROVE  RequestInv'
<1>1. /\ handler' \in [Handlers -> Threading] /\ handler'[h] = g
      /\ \A i \in Handlers \ {h} : handler'[i] = handler[i]
  BY DEF RequestInv, RequestTypes
<1>2. RequestTypes'
  BY <1>1 DEF RequestInv, RequestTypes
<1>3. ASSUME NEW i \in Handlers \ {h}
      PROVE  HandlerInv(i)' /\ SlotInv(i)'
  <2>1. HandlerInv(i) /\ SlotInv(i) /\ handler'[i] = handler[i] /\ pc'[i] = pc[i]
    BY <1>1 DEF RequestInv
  <2>2. HandlerInv(i)'
    BY <2>1 DEF HandlerInv
  <2>3. SlotInv(i)'
    BY <2>1 DEF SlotInv
  <2> QED
    BY <2>2, <2>3
<1>4. ASSUME NEW i \in Handlers
      PROVE  /\ handler'[i].at = "none" <=> handler[i].at = "none"
             /\ Unsuitable(handler[i].reply) => Unsuitable(handler'[i].reply)
  BY <1>1
<1>5. ASSUME NEW q \in Requests
      PROVE  RetryInv(q)' /\ RouteInv(q)'
  <2>1. /\ RetryInv(q) /\ RouteInv(q) /\ cli' = cli /\ job' = job /\ troubled' = troubled
        /\ <<q, 1>> \in Handlers /\ <<q, 2>> \in Handlers
    BY RunsHandlers DEF RequestInv
  <2>2. /\ handler'[<<q, 1>>].at = "none" <=> handler[<<q, 1>>].at = "none"
        /\ handler'[<<q, 2>>].at = "none" <=> handler[<<q, 2>>].at = "none"
        /\ Unsuitable(handler[<<q, 1>>].reply) => Unsuitable(handler'[<<q, 1>>].reply)
    BY <1>4, <2>1
  <2>3. RetryInv(q)'
    BY <2>1, <2>2 DEF RetryInv, Unsuitable
  <2>4. RouteInv(q)'
    BY <2>1, <2>2 DEF RouteInv, should_try_local, Unsuitable
  <2> QED
    BY <2>3, <2>4
<1>6. LeaseAccounted'
  BY DEF RequestInv, LeaseAccounted
<1> QED
  BY <1>2, <1>3, <1>5, <1>6, HandlerInv(h)', SlotInv(h)' DEF RequestInv

LEMMA HeldHandler ==
  ASSUME RequestInv, NEW h \in Handlers
  PROVE  /\ handler[h] \in Threading /\ manager[h] \in Managers /\ h \in Threads
         /\ HandlerInv(h) /\ SlotInv(h) /\ pc \in [Threads -> Phases]
BY RequestAssumption DEF RequestInv, RequestTypes

(* A handler answers with a failure, at a place where it may. *)
LEMMA HandlerReplies ==
  ASSUME RequestInv, NEW h \in Handlers, NEW failure \in Failures,
         NEW place \in {"answered", "over"}, Replies(h, place, failure),
         handler[h].at # "none", handler[h].at \notin {"answered", "over"},
         Unsuitable(failure) => manager[h].at = "none",
         failure.code = "local-offline" => <<h, "unreachable">> \in troubled,
         pc' \in [Threads -> Phases], \A i \in Handlers \ {h} : pc'[i] = pc[i],
         pc'[h] = IF place = "answered" THEN "holding" ELSE "idle",
         UNCHANGED <<cli, manager, job, leases, troubled>>
  PROVE  RequestInv'
<1>1. PICK g : g = [handler[h] EXCEPT !.at = place, !.reply = failure]
  OBVIOUS
<1>2. g \in Threading /\ g.at = place /\ g.reply = failure
  BY <1>1, HeldHandler, Zenon DEF Threading
<1>3. handler' = [handler EXCEPT ![h] = g] /\ handler'[h] = g
  BY <1>1, <1>2 DEF Replies, RequestInv, RequestTypes
<1>4. ~Unsuitable(handler[h].reply)
  BY HeldHandler DEF HandlerInv
<1>5. HandlerInv(h)'
  BY <1>2, <1>3, HeldHandler DEF HandlerInv, Unsuitable
<1>6. SlotInv(h)'
  BY <1>2, <1>3 DEF SlotInv
<1> QED
  BY <1>2, <1>3, <1>4, <1>5, <1>6, HandlerGoes

(* A handler goes to another place and has not answered yet. *)
LEMMA HandlerMoves ==
  ASSUME RequestInv, NEW h \in Handlers,
         NEW place \in {"acquiring", "admitted", "over"},
         handler' = [handler EXCEPT ![h].at = place],
         handler[h].at # "none",
         place = "over" => handler[h].at = "answered",
         place # "over" => handler[h].at \in {"arrived", "acquiring"},
         pc' \in [Threads -> Phases], \A i \in Handlers \ {h} : pc'[i] = pc[i],
         pc'[h] = CASE place = "acquiring" -> "deciding"
                    [] place = "admitted" -> "holding"
                    [] place = "over" -> "idle",
         UNCHANGED <<cli, manager, job, leases, troubled>>
  PROVE  RequestInv'
<1>1. PICK g : g = [handler[h] EXCEPT !.at = place]
  OBVIOUS
<1>2. g \in Threading /\ g.at = place /\ g.reply = handler[h].reply
  BY <1>1, HeldHandler, Zenon DEF Threading
<1>3. handler' = [handler EXCEPT ![h] = g] /\ handler'[h] = g
  BY <1>1, <1>2 DEF RequestInv, RequestTypes
<1>4. HandlerInv(h)'
  BY <1>2, <1>3, HeldHandler DEF HandlerInv, Unsuitable
<1>5. SlotInv(h)'
  BY <1>2, <1>3 DEF SlotInv
<1> QED
  BY <1>2, <1>3, <1>4, <1>5, HandlerGoes

LEMMA UnauthorizedStep ==
  ASSUME RequestInv, NEW h \in Handlers, Unauthorized(h)
  PROVE  RequestInv'
<1>1. PICK failure \in Failures : failure = Failure("LOCAL_AGENT_REJECTED", TRUE)
  BY FailureRecord DEF Codes
<1>2. failure.code = "LOCAL_AGENT_REJECTED"
  BY <1>1, FailureRecord DEF Codes
<1>3. /\ handler[h].at = "arrived" /\ Replies(h, "over", failure)
      /\ UNCHANGED <<pc, cli, manager, job, leases, troubled>>
  BY <1>1 DEF Unauthorized, vars
<1>4. pc[h] = "idle"
  BY <1>3, HeldHandler DEF SlotInv, Phases
<1> QED
  BY <1>2, <1>3, <1>4, HeldHandler, HandlerReplies DEF Unsuitable

LEMMA RejectsStep ==
  ASSUME RequestInv, NEW h \in Handlers, Rejects(h)
  PROVE  RequestInv'
<1>1. /\ Failure("INVALID_LOCAL_REQUEST", FALSE) \in Failures
      /\ Failure("INVALID_LOCAL_REQUEST", FALSE).code = "INVALID_LOCAL_REQUEST"
  BY FailureRecord DEF Codes
<1>2. /\ Failure("LOCAL_MODEL_NOT_ACTIVE", TRUE) \in Failures
      /\ Failure("LOCAL_MODEL_NOT_ACTIVE", TRUE).code = "LOCAL_MODEL_NOT_ACTIVE"
  BY FailureRecord DEF Codes
<1>3. PICK failure \in Failures :
        /\ failure.code \in {"INVALID_LOCAL_REQUEST", "LOCAL_MODEL_NOT_ACTIVE"}
        /\ Replies(h, "over", failure)
  BY <1>1, <1>2 DEF Rejects
<1>4. /\ handler[h].at = "arrived"
      /\ UNCHANGED <<pc, cli, manager, job, leases, troubled>>
  BY DEF Rejects, vars
<1>5. pc[h] = "idle"
  BY <1>4, HeldHandler DEF SlotInv, Phases
<1> QED
  BY <1>3, <1>4, <1>5, HeldHandler, HandlerReplies DEF Unsuitable

LEMMA DefersStep ==
  ASSUME RequestInv, NEW h \in Handlers, Defers(h)
  PROVE  RequestInv'
<1>1. PICK failure \in Failures : failure = Failure("LOCAL_MODEL_UNSUITABLE", TRUE)
  BY FailureRecord DEF Codes
<1>2. failure.code = "LOCAL_MODEL_UNSUITABLE"
  BY <1>1, FailureRecord DEF Codes
<1>3. /\ handler[h].at = "admitted" /\ Replies(h, "answered", failure)
      /\ UNCHANGED <<pc, cli, manager, job, leases, troubled>>
  BY <1>1 DEF Defers, vars
<1>4. pc[h] = "holding" /\ manager[h].at = "none"
  BY <1>3, HeldHandler DEF SlotInv, HandlerInv
<1> QED
  BY <1>2, <1>3, <1>4, HeldHandler, HandlerReplies

LEMMA RespondsStep ==
  ASSUME RequestInv, NEW h \in Handlers, Responds(h)
  PROVE  RequestInv'
<1>1. PICK failure : failure = IF ~handler[h].ok THEN Failure("LOCAL_RUNTIME_FAILURE", TRUE)
                               ELSE Failure(IF manager[h].offline THEN "local-offline" ELSE "local",
                                            FALSE)
  OBVIOUS
<1>2. /\ failure \in Failures
      /\ failure.code \in {"LOCAL_RUNTIME_FAILURE", "local-offline", "local"}
      /\ failure.code = "local-offline" => manager[h].offline
  <2>1. /\ Failure("LOCAL_RUNTIME_FAILURE", TRUE) \in Failures
        /\ Failure("LOCAL_RUNTIME_FAILURE", TRUE).code = "LOCAL_RUNTIME_FAILURE"
    BY FailureRecord DEF Codes
  <2>2. /\ Failure("local-offline", FALSE) \in Failures
        /\ Failure("local-offline", FALSE).code = "local-offline"
    BY FailureRecord DEF Codes
  <2>3. /\ Failure("local", FALSE) \in Failures
        /\ Failure("local", FALSE).code = "local"
    BY FailureRecord DEF Codes
  <2>4. \/ failure = Failure("LOCAL_RUNTIME_FAILURE", TRUE)
        \/ failure = Failure("local-offline", FALSE) /\ manager[h].offline
        \/ failure = Failure("local", FALSE)
    BY <1>1
  <2> QED
    BY <2>1, <2>2, <2>3, <2>4
<1>3. /\ handler[h].at = "returned" /\ Replies(h, "answered", failure)
      /\ UNCHANGED <<pc, cli, manager, job, leases, troubled>>
  BY <1>1 DEF Responds, vars
<1>4. pc[h] = "holding"
  BY <1>3, HeldHandler DEF SlotInv
<1>5. failure.code = "local-offline" => <<h, "unreachable">> \in troubled
  BY <1>2, HeldHandler DEF HandlerInv
<1> QED
  BY <1>2, <1>3, <1>4, <1>5, HeldHandler, HandlerReplies DEF Unsuitable

LEMMA NoSlotStep ==
  ASSUME RequestInv, NEW h \in Handlers, NoSlot(h)
  PROVE  RequestInv'
<1>1. PICK failure \in Failures : failure = Failure("LOCAL_CAPACITY_UNAVAILABLE", TRUE)
  BY FailureRecord DEF Codes
<1>2. failure.code = "LOCAL_CAPACITY_UNAVAILABLE"
  BY <1>1, FailureRecord DEF Codes
<1>3. /\ pc[h] = "deciding" /\ pc' = [pc EXCEPT ![h] = "idle"] /\ Replies(h, "over", failure)
      /\ UNCHANGED <<cli, manager, job, leases, troubled>>
  BY <1>1 DEF NoSlot, GiveUp
<1>4. handler[h].at = "acquiring"
  BY <1>3, HeldHandler DEF SlotInv
<1>5. /\ pc' \in [Threads -> Phases] /\ pc'[h] = "idle"
      /\ \A i \in Handlers \ {h} : pc'[i] = pc[i]
  BY <1>3, HeldHandler, RequestAssumption DEF Phases
<1> QED
  BY <1>2, <1>3, <1>4, <1>5, HandlerReplies DEF Unsuitable

LEMMA AsksForSlotStep ==
  ASSUME RequestInv, NEW h \in Handlers, AsksForSlot(h)
  PROVE  RequestInv'
<1>1. /\ pc' = [pc EXCEPT ![h] = "deciding"] /\ handler[h].at = "arrived"
      /\ handler' = [handler EXCEPT ![h].at = "acquiring"]
      /\ UNCHANGED <<cli, manager, job, leases, troubled>>
  BY DEF AsksForSlot, Load
<1>2. /\ pc' \in [Threads -> Phases] /\ pc'[h] = "deciding"
      /\ \A i \in Handlers \ {h} : pc'[i] = pc[i]
  BY <1>1, HeldHandler, RequestAssumption DEF Phases
<1> QED
  BY <1>1, <1>2, HandlerMoves

LEMMA SlotTakenStep ==
  ASSUME RequestInv, NEW h \in Handlers, SlotTaken(h)
  PROVE  RequestInv'
<1>1. /\ pc' = [pc EXCEPT ![h] = "holding"] /\ pc[h] = "deciding"
      /\ handler' = [handler EXCEPT ![h].at = "admitted"]
      /\ UNCHANGED <<cli, manager, job, leases, troubled>>
  BY DEF SlotTaken, CasOk
<1>2. handler[h].at = "acquiring"
  BY <1>1, HeldHandler DEF SlotInv
<1>3. /\ pc' \in [Threads -> Phases] /\ pc'[h] = "holding"
      /\ \A i \in Handlers \ {h} : pc'[i] = pc[i]
  BY <1>1, HeldHandler, RequestAssumption DEF Phases
<1> QED
  BY <1>1, <1>2, <1>3, HandlerMoves

LEMMA ReturnsStep ==
  ASSUME RequestInv, NEW h \in Handlers, Returns(h)
  PROVE  RequestInv'
<1>1. /\ pc' = [pc EXCEPT ![h] = "idle"] /\ handler[h].at = "answered"
      /\ handler' = [handler EXCEPT ![h].at = "over"]
      /\ UNCHANGED <<cli, manager, job, leases, troubled>>
  BY DEF Returns, DropPermit
<1>2. /\ pc' \in [Threads -> Phases] /\ pc'[h] = "idle"
      /\ \A i \in Handlers \ {h} : pc'[i] = pc[i]
  BY <1>1, HeldHandler, RequestAssumption DEF Phases
<1> QED
  BY <1>1, <1>2, HandlerMoves

LEMMA WorkerReturnsStep ==
  ASSUME RequestInv, NEW h \in Handlers, WorkerReturns(h)
  PROVE  RequestInv'
<1>1. PICK ok \in BOOLEAN :
        handler' = [handler EXCEPT ![h] = [@ EXCEPT !.at = "returned", !.ok = ok]]
  BY DEF WorkerReturns
<1>2. handler[h].at = "running" /\ UNCHANGED <<pc, cli, manager, job, leases, troubled>>
  BY DEF WorkerReturns, vars
<1>3. PICK g : g = [handler[h] EXCEPT !.at = "returned", !.ok = ok]
  OBVIOUS
<1>4. g \in Threading /\ g.at = "returned" /\ g.reply = handler[h].reply
  BY <1>3, HeldHandler, Zenon DEF Threading
<1>5. handler' = [handler EXCEPT ![h] = g] /\ handler'[h] = g
  BY <1>1, <1>3, <1>4 DEF RequestInv, RequestTypes
<1>6. HandlerInv(h)'
  BY <1>2, <1>4, <1>5, HeldHandler DEF HandlerInv, Unsuitable
<1>7. SlotInv(h)'
  BY <1>2, <1>4, <1>5, HeldHandler DEF SlotInv
<1> QED
  BY <1>2, <1>4, <1>5, <1>6, <1>7, HeldHandler, HandlerGoes

(* A step of the pool that leaves the requests and their threads alone. *)
LEMMA PoolGoes ==
  ASSUME RequestInv, UNCHANGED apiVars, pc' \in [Threads -> Phases],
         \A h \in Handlers : pc'[h] = pc[h]
  PROVE  RequestInv'
<1>1. UNCHANGED <<cli, handler, manager, job, leases, troubled>>
  BY DEF apiVars
<1>2. RequestTypes'
  BY <1>1 DEF RequestInv, RequestTypes
<1>3. ASSUME NEW h \in Handlers
      PROVE  HandlerInv(h)' /\ SlotInv(h)'
  <2>1. HandlerInv(h) /\ SlotInv(h) /\ pc'[h] = pc[h]
    BY DEF RequestInv
  <2>2. HandlerInv(h)'
    BY <1>1, <2>1 DEF HandlerInv
  <2>3. SlotInv(h)'
    BY <1>1, <2>1 DEF SlotInv
  <2> QED
    BY <2>2, <2>3
<1>4. ASSUME NEW r \in Requests
      PROVE  RetryInv(r)' /\ RouteInv(r)'
  <2>1. RetryInv(r)'
    BY <1>1 DEF RequestInv, RetryInv
  <2>2. RouteInv(r)'
    BY <1>1 DEF RequestInv, RouteInv, should_try_local
  <2> QED
    BY <2>1, <2>2
<1>5. LeaseAccounted'
  BY <1>1 DEF RequestInv, LeaseAccounted
<1> QED
  BY <1>2, <1>3, <1>4, <1>5 DEF RequestInv

LEMMA SlotContendedStep ==
  ASSUME RequestInv, NEW h \in Handlers, SlotContended(h)
  PROVE  RequestInv'
BY PoolGoes DEF SlotContended, CasFail, RequestInv, RequestTypes

LEMMA JobSlotStep ==
  ASSUME RequestInv, NEW t \in JobThreads, JobSlot(t)
  PROVE  RequestInv'
<1>1. t \in Threads /\ t \notin Handlers
  BY RequestAssumption
<1>2. \E p \in Phases : pc' = [pc EXCEPT ![t] = p] \/ pc' = pc
  BY DEF JobSlot, Load, GiveUp, CasOk, CasFail, DropPermit, Phases
<1>3. pc' \in [Threads -> Phases] /\ \A h \in Handlers : pc'[h] = pc[h]
  BY <1>1, <1>2, RequestAssumption DEF RequestInv, RequestTypes
<1> QED
  BY <1>3, PoolGoes DEF JobSlot
------------------------------------------------------------------------------
(* The steps of a lease manager, and of the control plane with its leases. *)

Troubled(h) == \E kind \in Answers : <<h, kind>> \in troubled

(* The manager of h goes on as m; what becomes of the leases of h is said  *)
(* by the caller.                                                          *)
LEMMA ManagerGoes ==
  ASSUME RequestInv, NEW h \in Handlers, NEW m \in Managers,
         manager' = [manager EXCEPT ![h] = m], manager[h].at # "none", m.at # "none",
         m.offline => <<h, "unreachable">> \in troubled',
         troubled \subseteq troubled', leases' \subseteq Handlers \X (Nat \ {0}),
         \A l \in leases' : l[1] # h => l \in leases,
         \A l \in leases' : l[1] = h => Troubled(h)' \/ (m.lease = l[2] /\ m.at # "ended"),
         UNCHANGED <<pc, cli, handler, job>>
  PROVE  RequestInv'
<1>1. /\ manager' \in [Handlers -> Managers] /\ manager'[h] = m
      /\ \A i \in Handlers \ {h} : manager'[i] = manager[i]
  BY DEF RequestInv, RequestTypes
<1>2. RequestTypes'
  BY <1>1 DEF RequestInv, RequestTypes
<1>3. ASSUME NEW i \in Handlers
      PROVE  HandlerInv(i)' /\ SlotInv(i)'
  <2>1. HandlerInv(i) /\ SlotInv(i)
    BY DEF RequestInv
  <2>2. manager[i].at = "none" => manager'[i].at = "none"
    BY <1>1
  <2>3. manager'[i].offline => manager[i].offline \/ <<i, "unreachable">> \in troubled'
    BY <1>1
  <2>4. HandlerInv(i)'
    BY <2>1, <2>2, <2>3 DEF HandlerInv
  <2>5. SlotInv(i)'
    BY <2>1 DEF SlotInv
  <2> QED
    BY <2>4, <2>5
<1>4. ASSUME NEW r \in Requests
      PROVE  RetryInv(r)' /\ RouteInv(r)'
  <2>1. RetryInv(r)'
    BY DEF RequestInv, RetryInv
  <2>2. RouteInv(r)'
    BY DEF RequestInv, RouteInv, should_try_local
  <2> QED
    BY <2>1, <2>2
<1>5. ASSUME NEW l \in leases'
      PROVE  \/ \E kind \in Answers : <<l[1], kind>> \in troubled'
             \/ manager'[l[1]].lease = l[2] /\ manager'[l[1]].at # "ended"
  <2>1. CASE l[1] = h
    BY <1>1, <2>1 DEF Troubled
  <2>2. CASE l[1] # h
    <3>1. l \in leases /\ l[1] \in Handlers
      BY <2>2
    <3>2. manager'[l[1]] = manager[l[1]]
      BY <1>1, <2>2, <3>1
    <3> QED
      BY <3>1, <3>2 DEF RequestInv, LeaseAccounted
  <2> QED
    BY <2>1, <2>2
<1>6. LeaseAccounted'
  BY <1>5 DEF LeaseAccounted
<1> QED
  BY <1>2, <1>3, <1>4, <1>6 DEF RequestInv

(* The leases of a handler whose calls were all answered. *)
LEMMA HeldLeases ==
  ASSUME RequestInv, NEW h \in Handlers
  PROVE  /\ leases \subseteq Handlers \X (Nat \ {0})
         /\ \A l \in leases : l[1] = h =>
              /\ l = <<h, l[2]>> /\ l[2] \in Nat /\ l[2] # 0
              /\ Troubled(h) \/ (manager[h].lease = l[2] /\ manager[h].at # "ended")
BY DEF RequestInv, RequestTypes, LeaseAccounted, Troubled

LEMMA TroublesGrow ==
  ASSUME NEW h \in Handlers, NEW answer \in Answers, Troubles(h, answer)
  PROVE  /\ troubled \subseteq troubled' /\ (Troubled(h) => Troubled(h)')
         /\ answer # "ok" => Troubled(h)'
         /\ control_plane_is_unreachable(answer) => <<h, "unreachable">> \in troubled'
         /\ control_plane_is_unreachable(answer) \in BOOLEAN
<1>1. troubled \subseteq troubled' /\ (answer # "ok" => <<h, answer>> \in troubled')
  BY DEF Troubles
<1>2. (answer = "unreachable") \in BOOLEAN
  OBVIOUS
<1> QED
  BY <1>1, <1>2 DEF Troubled, control_plane_is_unreachable

LEMMA CreatesLeaseStep ==
  ASSUME RequestInv, NEW h \in Handlers, CreatesLease(h)
  PROVE  RequestInv'
<1>1. PICK n : n = manager[h].made + 1
  OBVIOUS
<1>2. PICK granted \in BOOLEAN, answer \in Answers :
        /\ leases' = IF granted THEN leases \cup {<<h, n>>} ELSE leases
        /\ manager' = [manager EXCEPT ![h] =
             [at |-> "waiting", lease |-> IF granted /\ answer = "ok" THEN n ELSE 0,
              made |-> IF granted THEN n ELSE manager[h].made,
              offline |-> control_plane_is_unreachable(answer)]]
        /\ Troubles(h, answer)
  BY <1>1 DEF CreatesLease
<1>0. /\ troubled \subseteq troubled' /\ (Troubled(h) => Troubled(h)')
      /\ answer # "ok" => Troubled(h)'
      /\ control_plane_is_unreachable(answer) => <<h, "unreachable">> \in troubled'
      /\ control_plane_is_unreachable(answer) \in BOOLEAN
  <2>1. Troubles(h, answer)
    BY <1>2, Zenon
  <2> QED
    BY <2>1, TroublesGrow
<1>3. /\ manager[h].at = "reporting" /\ manager[h].lease = 0
      /\ UNCHANGED <<pc, cli, handler, job>>
  BY DEF CreatesLease, vars
<1>4. manager[h].made \in Nat /\ n \in Nat \ {0}
  BY <1>1, HeldHandler DEF Managers
<1>5. PICK lease \in Nat, made \in Nat, offline \in BOOLEAN :
        /\ lease = IF granted /\ answer = "ok" THEN n ELSE 0
        /\ made = IF granted THEN n ELSE manager[h].made
        /\ offline = control_plane_is_unreachable(answer)
  BY <1>2, <1>4, <1>0
<1>6. PICK m : m = [at |-> "waiting", lease |-> lease, made |-> made, offline |-> offline]
  OBVIOUS
<1>7. m \in Managers /\ m.at = "waiting" /\ m.lease = lease /\ m.offline = offline
  BY <1>6 DEF Managers
<1>8. manager' = [manager EXCEPT ![h] = m]
  BY <1>2, <1>5, <1>6
<1>9. leases' \subseteq Handlers \X (Nat \ {0}) /\ \A l \in leases' : l[1] # h => l \in leases
  BY <1>2, <1>4, HeldLeases
<1>10. ASSUME NEW l \in leases', l[1] = h
       PROVE  Troubled(h)' \/ (m.lease = l[2] /\ m.at # "ended")
  <2>1. CASE l \in leases
    <3>1. l[2] # 0 /\ (Troubled(h) \/ manager[h].lease = l[2])
      BY <1>10, <2>1, HeldLeases
    <3> QED
      BY <1>0, <1>3, <3>1
  <2>2. CASE granted /\ l = <<h, n>>
    BY <1>2, <1>5, <1>7, <2>2, <1>0
  <2> QED
    BY <1>2, <2>1, <2>2
<1>11. m.offline => <<h, "unreachable">> \in troubled'
  BY <1>2, <1>5, <1>7, <1>0
<1> QED
  BY <1>3, <1>7, <1>8, <1>9, <1>10, <1>11, <1>0, ManagerGoes

LEMMA RenewsLeaseStep ==
  ASSUME RequestInv, NEW h \in Handlers, RenewsLease(h)
  PROVE  RequestInv'
<1>1. PICK answer \in Answers :
        /\ manager' = [manager EXCEPT ![h] =
             [@ EXCEPT !.at = "waiting",
                       !.lease = IF answer = "ok" THEN manager[h].lease ELSE 0,
                       !.offline = control_plane_is_unreachable(answer)]]
        /\ Troubles(h, answer)
  BY DEF RenewsLease
<1>0. /\ troubled \subseteq troubled' /\ (Troubled(h) => Troubled(h)')
      /\ answer # "ok" => Troubled(h)'
      /\ control_plane_is_unreachable(answer) => <<h, "unreachable">> \in troubled'
      /\ control_plane_is_unreachable(answer) \in BOOLEAN
  <2>1. Troubles(h, answer)
    BY <1>1, Zenon
  <2> QED
    BY <2>1, TroublesGrow
<1>2. manager[h].at = "reporting" /\ UNCHANGED <<pc, cli, handler, job, leases>>
  BY DEF RenewsLease, vars
<1>3. (IF answer = "ok" THEN manager[h].lease ELSE 0) \in Nat
  BY HeldHandler DEF Managers
<1>4. PICK m : m = [manager[h] EXCEPT !.at = "waiting",
                           !.lease = IF answer = "ok" THEN manager[h].lease ELSE 0,
                           !.offline = control_plane_is_unreachable(answer)]
  OBVIOUS
<1>5. /\ m \in Managers /\ m.at = "waiting"
      /\ m.lease = IF answer = "ok" THEN manager[h].lease ELSE 0
      /\ m.offline = control_plane_is_unreachable(answer)
  BY <1>0, <1>3, <1>4, HeldHandler, Zenon DEF Managers
<1>6. manager' = [manager EXCEPT ![h] = m]
  BY <1>1, <1>4, Zenon
<1>7. ASSUME NEW l \in leases', l[1] = h
      PROVE  Troubled(h)' \/ (m.lease = l[2] /\ m.at # "ended")
  <2>1. Troubled(h) \/ (manager[h].lease = l[2] /\ manager[h].at # "ended")
    BY <1>2, <1>7, HeldLeases
  <2> QED
    BY <1>0, <1>5, <2>1
<1>8. m.offline => <<h, "unreachable">> \in troubled'
  BY <1>0, <1>5
<1> QED
  BY <1>2, <1>5, <1>6, <1>7, <1>8, <1>0, HeldLeases, ManagerGoes

(* A manager that only goes to another place. *)
LEMMA ManagerMoves ==
  ASSUME RequestInv, NEW h \in Handlers, NEW place \in {"reporting", "releasing", "ended"},
         manager' = [manager EXCEPT ![h].at = place], manager[h].at # "none",
         place = "ended" => manager[h].lease = 0,
         UNCHANGED <<pc, cli, handler, job, leases, troubled>>
  PROVE  RequestInv'
<1>1. PICK m : m = [manager[h] EXCEPT !.at = place]
  OBVIOUS
<1>2. m \in Managers /\ m.at = place /\ m.lease = manager[h].lease /\ m.offline = manager[h].offline
  BY <1>1, HeldHandler, Zenon DEF Managers
<1>3. manager' = [manager EXCEPT ![h] = m]
  BY <1>1
<1>4. ASSUME NEW l \in leases', l[1] = h
      PROVE  Troubled(h)' \/ (m.lease = l[2] /\ m.at # "ended")
  BY <1>2, <1>4, HeldLeases DEF Troubled
<1>5. m.offline => <<h, "unreachable">> \in troubled'
  BY <1>2, HeldHandler DEF HandlerInv
<1> QED
  BY <1>2, <1>3, <1>4, <1>5, HeldLeases, ManagerGoes, ZenonT(60)

LEMMA ReportsAgainStep ==
  ASSUME RequestInv, NEW h \in Handlers, ReportsAgain(h)
  PROVE  RequestInv'
BY ManagerMoves DEF ReportsAgain, vars

LEMMA StopsReportingStep ==
  ASSUME RequestInv, NEW h \in Handlers, StopsReporting(h)
  PROVE  RequestInv'
<1>1. PICK place \in {"releasing", "ended"} :
        place = IF manager[h].lease = 0 THEN "ended" ELSE "releasing"
  OBVIOUS
<1>2. /\ manager' = [manager EXCEPT ![h].at = place] /\ manager[h].at = "waiting"
      /\ UNCHANGED <<pc, cli, handler, job, leases, troubled>>
  BY <1>1 DEF StopsReporting, vars
<1> QED
  BY <1>1, <1>2, ManagerMoves

LEMMA ReleasesLeaseStep ==
  ASSUME RequestInv, NEW h \in Handlers, ReleasesLease(h)
  PROVE  RequestInv'
<1>1. PICK done \in BOOLEAN, answer \in Answers :
        /\ answer = "ok" => done
        /\ leases' = IF done THEN leases \ {<<h, manager[h].lease>>} ELSE leases
        /\ manager' = [manager EXCEPT ![h] = [@ EXCEPT !.at = "ended", !.lease = 0]]
        /\ Troubles(h, answer)
  BY DEF ReleasesLease
<1>0. /\ troubled \subseteq troubled' /\ (Troubled(h) => Troubled(h)')
      /\ answer # "ok" => Troubled(h)'
  <2>1. Troubles(h, answer)
    BY <1>1, Zenon
  <2> QED
    BY <2>1, TroublesGrow
<1>2. manager[h].at = "releasing" /\ UNCHANGED <<pc, cli, handler, job>>
  BY DEF ReleasesLease, vars
<1>3. PICK m : m = [manager[h] EXCEPT !.at = "ended", !.lease = 0]
  OBVIOUS
<1>4. 0 \in Nat
  OBVIOUS
<1>5. m \in Managers /\ m.at = "ended" /\ m.lease = 0 /\ m.offline = manager[h].offline
  BY <1>3, <1>4, HeldHandler, Zenon DEF Managers
<1>6. manager' = [manager EXCEPT ![h] = m]
  BY <1>1, <1>3, Zenon
<1>7. /\ leases' = IF done THEN leases \ {<<h, manager[h].lease>>} ELSE leases
      /\ answer = "ok" => done
  BY <1>1, Zenon
<1>8. ASSUME NEW l \in leases', l[1] = h
      PROVE  Troubled(h)'
  <2>1. CASE done
    <3>1. l \in leases /\ l # <<h, manager[h].lease>>
      BY <1>7, <2>1
    <3> QED
      BY <1>0, <1>8, <3>1, HeldLeases
  <2>2. CASE ~done
    BY <1>0, <1>7, <2>2
  <2> QED
    BY <2>1, <2>2
<1>9. m.offline => <<h, "unreachable">> \in troubled'
  BY <1>0, <1>5, HeldHandler DEF HandlerInv
<1>10. /\ leases' \subseteq Handlers \X (Nat \ {0})
       /\ \A l \in leases' : l[1] # h => l \in leases
  BY <1>7, HeldLeases
<1>11. \A l \in leases' : l[1] = h => Troubled(h)' \/ (m.lease = l[2] /\ m.at # "ended")
  BY <1>8
<1> QED
  BY <1>2, <1>5, <1>6, <1>11, <1>9, <1>10, <1>0, ManagerGoes

LEMMA LeaseExpiresStep ==
  ASSUME RequestInv, NEW h \in Handlers, LeaseExpires(h)
  PROVE  RequestInv'
<1>1. leases' \subseteq leases /\ UNCHANGED <<pc, cli, handler, manager, job, troubled>>
  BY DEF LeaseExpires, vars
<1>2. RequestTypes'
  BY <1>1 DEF RequestInv, RequestTypes
<1>3. \A i \in Handlers : HandlerInv(i)' /\ SlotInv(i)'
  BY <1>1 DEF RequestInv, HandlerInv, SlotInv
<1>4. ASSUME NEW r \in Requests
      PROVE  RetryInv(r)' /\ RouteInv(r)'
  <2>1. RetryInv(r)'
    BY <1>1 DEF RequestInv, RetryInv
  <2>2. RouteInv(r)'
    BY <1>1 DEF RequestInv, RouteInv, should_try_local
  <2> QED
    BY <2>1, <2>2
<1>5. LeaseAccounted'
  BY <1>1 DEF RequestInv, LeaseAccounted
<1> QED
  BY <1>2, <1>3, <1>4, <1>5 DEF RequestInv

(* A launch starts the manager, which has no lease of this handler yet but *)
(* one that was already accounted for.                                     *)
LEMMA LaunchesStep ==
  ASSUME RequestInv, NEW h \in Handlers, Launches(h)
  PROVE  RequestInv'
<1>1. /\ handler[h].at = "admitted"
      /\ handler' = [handler EXCEPT ![h].at = "running"]
      /\ manager' = [manager EXCEPT ![h].at = "reporting"]
      /\ UNCHANGED <<pc, cli, job, leases, troubled>>
  BY DEF Launches, vars
<1>2. PICK g : g = [handler[h] EXCEPT !.at = "running"]
  OBVIOUS
<1>3. g \in Threading /\ g.at = "running" /\ g.reply = handler[h].reply
  BY <1>2, HeldHandler, Zenon DEF Threading
<1>4. PICK m : m = [manager[h] EXCEPT !.at = "reporting"]
  OBVIOUS
<1>5. m \in Managers /\ m.at = "reporting" /\ m.lease = manager[h].lease
      /\ m.offline = manager[h].offline
  BY <1>4, HeldHandler, Zenon DEF Managers
<1>6. /\ handler' \in [Handlers -> Threading] /\ handler'[h] = g
      /\ \A i \in Handlers \ {h} : handler'[i] = handler[i]
  BY <1>1, <1>2, <1>3 DEF RequestInv, RequestTypes
<1>7. /\ manager' \in [Handlers -> Managers] /\ manager'[h] = m
      /\ \A i \in Handlers \ {h} : manager'[i] = manager[i]
  BY <1>1, <1>4, <1>5 DEF RequestInv, RequestTypes
<1>8. RequestTypes'
  BY <1>1, <1>6, <1>7 DEF RequestInv, RequestTypes
<1>9. ~Unsuitable(handler[h].reply) /\ pc[h] = "holding"
  BY <1>1, HeldHandler DEF HandlerInv, SlotInv
<1>10. HandlerInv(h)'
  BY <1>1, <1>3, <1>5, <1>6, <1>7, <1>9, HeldHandler DEF HandlerInv, Unsuitable
<1>11. SlotInv(h)'
  BY <1>1, <1>3, <1>6, <1>9 DEF SlotInv
<1>12. ASSUME NEW i \in Handlers \ {h}
       PROVE  HandlerInv(i)' /\ SlotInv(i)'
  <2>1. /\ HandlerInv(i) /\ SlotInv(i) /\ handler'[i] = handler[i]
        /\ manager'[i] = manager[i]
    BY <1>6, <1>7 DEF RequestInv
  <2>2. HandlerInv(i)'
    BY <1>1, <2>1 DEF HandlerInv
  <2>3. SlotInv(i)'
    BY <1>1, <2>1 DEF SlotInv
  <2> QED
    BY <2>2, <2>3
<1>13. ASSUME NEW i \in Handlers
       PROVE  /\ handler'[i].at = "none" <=> handler[i].at = "none"
              /\ handler'[i].reply = handler[i].reply
  BY <1>1, <1>3, <1>6
<1>14. ASSUME NEW q \in Requests
       PROVE  RetryInv(q)' /\ RouteInv(q)'
  <2>1. RetryInv(q) /\ RouteInv(q) /\ <<q, 1>> \in Handlers /\ <<q, 2>> \in Handlers
    BY RunsHandlers DEF RequestInv
  <2>2. /\ handler'[<<q, 1>>].at = "none" <=> handler[<<q, 1>>].at = "none"
        /\ handler'[<<q, 2>>].at = "none" <=> handler[<<q, 2>>].at = "none"
        /\ handler'[<<q, 1>>].reply = handler[<<q, 1>>].reply
    BY <1>13, <2>1
  <2>3. RetryInv(q)'
    BY <1>1, <2>1, <2>2 DEF RetryInv
  <2>4. RouteInv(q)'
    BY <1>1, <2>1, <2>2 DEF RouteInv, should_try_local, Unsuitable
  <2> QED
    BY <2>3, <2>4
<1>15. ASSUME NEW l \in leases'
       PROVE  \/ \E kind \in Answers : <<l[1], kind>> \in troubled'
              \/ manager'[l[1]].lease = l[2] /\ manager'[l[1]].at # "ended"
  <2>1. l \in leases /\ l[1] \in Handlers
    BY <1>1 DEF RequestInv, RequestTypes
  <2>2. \/ \E kind \in Answers : <<l[1], kind>> \in troubled
        \/ manager[l[1]].lease = l[2] /\ manager[l[1]].at # "ended"
    BY <2>1 DEF RequestInv, LeaseAccounted
  <2>3. CASE l[1] = h
    BY <1>1, <1>5, <1>7, <2>2, <2>3
  <2>4. CASE l[1] # h
    BY <1>1, <1>7, <2>1, <2>2, <2>4
  <2> QED
    BY <2>3, <2>4
<1>16. LeaseAccounted'
  BY <1>15 DEF LeaseAccounted
<1> QED
  BY <1>8, <1>10, <1>11, <1>12, <1>14, <1>16 DEF RequestInv
------------------------------------------------------------------------------
(* The invariant.                                                          *)

LEMMA RequestInit == LocalInit => RequestInv
<1> SUFFICES ASSUME LocalInit PROVE RequestInv
  OBVIOUS
<1>1. None \in Failures /\ None.code = "none"
  <2>1. "none" \in Codes /\ TRUE \in BOOLEAN
    BY DEF Codes
  <2> QED
    BY <2>1, FailureRecord
<1>2. cli \in [Requests -> Runs]
  BY <1>1 DEF LocalInit, Runs, Routings, AllShapes
<1>3. handler \in [Handlers -> Threading]
  BY <1>1 DEF LocalInit, Threading
<1>4. manager \in [Handlers -> Managers]
  BY DEF LocalInit, Managers
<1>5. RequestTypes
  BY <1>2, <1>3, <1>4 DEF RequestTypes, LocalInit, Init, Phases
<1>6. ASSUME NEW h \in Handlers
      PROVE  HandlerInv(h) /\ SlotInv(h)
  <2>1. handler[h].at = "none" /\ handler[h].reply = None /\ manager[h].at = "none"
        /\ ~manager[h].offline /\ pc[h] = "idle"
    BY RequestAssumption DEF LocalInit, Init
  <2> QED
    BY <1>1, <2>1 DEF HandlerInv, SlotInv, Unsuitable
<1>7. ASSUME NEW r \in Requests
      PROVE  RetryInv(r) /\ RouteInv(r)
  <2>1. cli[r].at = "new" /\ cli[r].failure = None /\ cli[r].result = "none" /\ job[r] = "none"
        /\ handler[<<r, 1>>].at = "none" /\ handler[<<r, 2>>].at = "none"
    BY RunsHandlers DEF LocalInit
  <2>2. RetryInv(r)
    BY <1>1, <2>1 DEF RetryInv, Unsuitable
  <2>3. RouteInv(r)
    BY <1>1, <2>1 DEF RouteInv, Unsuitable
  <2> QED
    BY <2>2, <2>3
<1>8. LeaseAccounted
  BY DEF LocalInit, LeaseAccounted
<1> QED
  BY <1>5, <1>6, <1>7, <1>8 DEF RequestInv

LEMMA RequestNext == RequestInv /\ [LocalNext]_allVars => RequestInv'
<1> SUFFICES ASSUME RequestInv, [LocalNext]_allVars PROVE RequestInv'
  OBVIOUS
<1>1. ASSUME NEW r \in Requests, CliStep(r) PROVE RequestInv'
  BY <1>1, RunStep, ConnectStep, LocalUnavailableStep, AnsweredStep, SubmitStep, JobSeenStep,
     JobPollFailsStep DEF CliStep
<1>2. ASSUME NEW r \in Requests, JobEnds(r) PROVE RequestInv'
  BY <1>2, JobEndsStep
<1>3. ASSUME NEW h \in Handlers, HandlerStep(h) PROVE RequestInv'
  BY <1>3, UnauthorizedStep, RejectsStep, AsksForSlotStep, NoSlotStep, SlotTakenStep,
     SlotContendedStep, DefersStep, LaunchesStep, WorkerReturnsStep, RespondsStep, ReturnsStep
  DEF HandlerStep
<1>4. ASSUME NEW h \in Handlers, ManagerStep(h) PROVE RequestInv'
  BY <1>4, CreatesLeaseStep, RenewsLeaseStep, ReportsAgainStep, StopsReportingStep,
     ReleasesLeaseStep DEF ManagerStep
<1>5. ASSUME NEW h \in Handlers, LeaseExpires(h) PROVE RequestInv'
  BY <1>5, LeaseExpiresStep
<1>6. ASSUME NEW t \in JobThreads, JobSlot(t) PROVE RequestInv'
  BY <1>6, JobSlotStep
<1>7. CASE UNCHANGED allVars
  BY <1>7, PoolGoes DEF allVars, vars, RequestInv, RequestTypes
<1> QED
  BY <1>1, <1>2, <1>3, <1>4, <1>5, <1>6, <1>7 DEF LocalNext

(* The invariant of the requests, for any number of runs, handlers, job    *)
(* threads and leases.                                                     *)
THEOREM RequestInvariant == LocalSpec => []RequestInv
<1> QED
  BY RequestInit, RequestNext, PTL DEF LocalSpec

(* A run starts at most one local worker: a forced retry gets a handler    *)
(* only after the first one refused the prompt, and that one has started   *)
(* nothing (LocalRunsOnce).                                                *)
THEOREM WorkerStartsOnce == LocalSpec => []LocalRunsOnce
<1>1. ASSUME RequestInv, NEW r \in Requests
      PROVE  Cardinality(Ran(r)) <= 1
  <2>1. manager[<<r, 1>>].at = "none" \/ manager[<<r, 2>>].at = "none"
    <3>1. CASE handler[<<r, 2>>].at = "none"
      BY <1>1, <3>1, HeldRun DEF HandlerInv
    <3>2. CASE handler[<<r, 2>>].at # "none"
      <4>1. Unsuitable(handler[<<r, 1>>].reply)
        BY <1>1, <3>2, HeldRun DEF RetryInv
      <4> QED
        BY <1>1, <4>1, HeldRun DEF HandlerInv
    <3> QED
      BY <3>1, <3>2
  <2>2. PICK k \in {1, 2} : Ran(r) \subseteq {k}
    BY <2>1 DEF Ran
  <2>3. IsFiniteSet({k}) /\ Cardinality({k}) = 1
    BY FS_Singleton
  <2>4. Cardinality(Ran(r)) <= Cardinality({k})
    BY <2>2, <2>3, FS_Subset
  <2>5. Cardinality(Ran(r)) \in Nat
    BY <2>2, <2>3, FS_Subset, FS_CardinalityType
  <2> QED
    BY <2>3, <2>4, <2>5
<1>2. RequestInv => LocalRunsOnce
  BY <1>1 DEF LocalRunsOnce
<1> QED
  BY <1>2, RequestInvariant, PTL

(* While its calls are answered, the control plane holds for a handler     *)
(* exactly the lease its manager will release (LeaseAccounted).            *)
THEOREM LeaseIsAccounted == LocalSpec => []LeaseAccounted
<1>1. RequestInv => LeaseAccounted
  BY DEF RequestInv
<1> QED
  BY <1>1, RequestInvariant, PTL

(* --routing is honoured over the whole run, and a local answer was the    *)
(* only execution asked for (RoutingHonoured).                             *)
THEOREM RoutingIsHonoured == LocalSpec => []RoutingHonoured
<1>1. ASSUME RequestInv, NEW r \in Requests
      PROVE  /\ cli[r].routing = "local-only" => job[r] = "none"
             /\ ~should_try_local(cli[r]) => Ran(r) = {}
             /\ cli[r].result = "local" => job[r] = "none"
             /\ cli[r].result = "network" => job[r] = "completed"
  <2>1. /\ cli[r].routing = "local-only" => job[r] = "none"
        /\ cli[r].result = "local" => job[r] = "none"
        /\ cli[r].result = "network" => job[r] = "completed"
    BY <1>1, HeldRun DEF RouteInv
  <2>2. ASSUME ~should_try_local(cli[r])
        PROVE  Ran(r) = {}
    <3>1. handler[<<r, 1>>].at = "none"
      BY <1>1, <2>2, HeldRun DEF RouteInv
    <3>2. ~Unsuitable(handler[<<r, 1>>].reply)
      BY <1>1, <3>1, HeldRun DEF HandlerInv
    <3>3. handler[<<r, 2>>].at = "none"
      BY <1>1, <3>2, HeldRun DEF RetryInv
    <3>4. manager[<<r, 1>>].at = "none" /\ manager[<<r, 2>>].at = "none"
      BY <1>1, <3>1, <3>3, HeldRun DEF HandlerInv
    <3> QED
      BY <3>4 DEF Ran
  <2> QED
    BY <2>1, <2>2
<1>2. RequestInv => RoutingHonoured
  BY <1>1 DEF RoutingHonoured
<1> QED
  BY <1>2, RequestInvariant, PTL

(* An answer is called local-offline only when a lease call of this run    *)
(* met a transport failure, or the network route did (OfflineIsReal).      *)
THEOREM OfflineWasReal == LocalSpec => []OfflineIsReal
<1>1. RequestInv => OfflineIsReal
  BY HeldRun DEF RouteInv, Unsuitable, OfflineIsReal
<1> QED
  BY <1>1, RequestInvariant, PTL
------------------------------------------------------------------------------
(* The requests and the pool.                                              *)

(* Every step of the local API and of the job loop is one step of the pool *)
(* or leaves it alone, so that what holds of the pool holds of them all.   *)
THEOREM RequestsUseThePool == LocalSpec => Spec
<1>1. LocalInit => Init
  BY DEF LocalInit
<1>2. ASSUME [LocalNext]_allVars
      PROVE  [Next]_vars
  <2>1. ASSUME NEW r \in Requests, CliStep(r) \/ JobEnds(r)
        PROVE  UNCHANGED vars
    BY <2>1 DEF CliStep, JobEnds, Run, Connect, LocalUnavailable, Answered, Submit, JobSeen,
                JobPollFails
  <2>2. ASSUME NEW h \in Handlers, HandlerStep(h)
        PROVE  [Next]_vars
    <3>1. h \in Threads
      BY RequestAssumption
    <3>2. \/ UNCHANGED vars \/ Load(h) \/ GiveUp(h) \/ CasOk(h) \/ CasFail(h) \/ DropPermit(h)
      BY <2>2 DEF HandlerStep, Unauthorized, Rejects, AsksForSlot, NoSlot, SlotTaken,
                  SlotContended, Defers, Launches, WorkerReturns, Responds, Returns
    <3> QED
      BY <3>1, <3>2 DEF Next
  <2>3. ASSUME NEW h \in Handlers, ManagerStep(h) \/ LeaseExpires(h)
        PROVE  UNCHANGED vars
    BY <2>3 DEF ManagerStep, CreatesLease, RenewsLease, ReportsAgain, StopsReporting,
                ReleasesLease, LeaseExpires
  <2>4. ASSUME NEW t \in JobThreads, JobSlot(t)
        PROVE  [Next]_vars
    <3>1. t \in Threads
      BY RequestAssumption
    <3> QED
      BY <2>4, <3>1 DEF JobSlot, Next
  <2>5. CASE UNCHANGED allVars
    BY <2>5 DEF allVars
  <2> QED
    BY <1>2, <2>1, <2>2, <2>3, <2>4, <2>5 DEF LocalNext
<1> QED
  BY <1>1, <1>2, PTL DEF LocalSpec, Spec

(* The handlers and the job loop together implement the semaphore.         *)
THEOREM RequestsImplementSemaphore == LocalSpec => ImplementsSemaphore
<1> QED
  BY RequestsUseThePool, PoolImplementsSemaphore, PTL

Working == {h \in Handlers : handler[h].at \in {"admitted", "running", "returned", "answered"}}

(* A worker of the local API runs only in a slot of the pool: whatever the *)
(* job loop takes, the handlers between admission and answer fit into it.  *)
THEOREM WorkersFitThePool == LocalSpec => [](Cardinality(Working) <= PoolCapacity)
<1>1. ASSUME RequestInv, IInv
      PROVE  Cardinality(Working) <= PoolCapacity
  <2>1. Working \subseteq Holders
    BY <1>1, RequestAssumption DEF Working, Holders, RequestInv, SlotInv
  <2>2. Cardinality(Working) <= Cardinality(Holders)
    BY <2>1, HoldersFinite, FS_Subset
  <2>3. Cardinality(Holders) <= PoolCapacity
    BY <1>1 DEF IInv, TypeOK, CounterIsHolders
  <2>4. Cardinality(Working) \in Nat /\ Cardinality(Holders) \in Nat
    BY <2>1, HoldersFinite, FS_Subset, FS_CardinalityType
  <2> QED
    BY <2>2, <2>3, <2>4, CapacityPositive
<1>2. LocalSpec => []IInv
  BY RequestsUseThePool, InitIInv, NextIInv, PTL DEF Spec
<1> QED
  BY <1>1, <1>2, RequestInvariant, PTL
==============================================================================
