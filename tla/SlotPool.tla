------------------------------ MODULE SlotPool -------------------------------
(***************************************************************************)
(* local_api::SlotPool: the lock-free pool of inference slots that the job *)
(* loop (main.rs) and every local API request thread share.  The module    *)
(* keeps each atomic memory access a step of its own: the first load, each *)
(* compare_exchange_weak (which may also fail spuriously), the fetch_sub   *)
(* of a dropped permit.                                                    *)
(***************************************************************************)
EXTENDS Naturals, FiniteSets

CONSTANTS Threads,           \* threads that call try_acquire
          RequestedCapacity  \* the argument of SlotPool::new

ASSUME PoolAssumption ==
    /\ IsFiniteSet(Threads)
    /\ RequestedCapacity \in Nat

(* SlotPool::new raises a capacity of zero to one. *)
PoolCapacity == IF RequestedCapacity >= 1 THEN RequestedCapacity ELSE 1

VARIABLES active,   \* the AtomicUsize
          pc,       \* where each thread is in try_acquire
          seen      \* the local variable `active` of try_acquire

vars == <<active, pc, seen>>

Phases == {"idle", "deciding", "holding"}

Holders == {t \in Threads : pc[t] = "holding"}

Init ==
    /\ active = 0
    /\ pc = [t \in Threads |-> "idle"]
    /\ seen = [t \in Threads |-> 0]

(* The first load of try_acquire. *)
Load(t) ==
    /\ pc[t] = "idle"
    /\ pc' = [pc EXCEPT ![t] = "deciding"]
    /\ seen' = [seen EXCEPT ![t] = active]
    /\ UNCHANGED active

(* Mutant of Full: the capacity test is off by one. *)
FullOffByOne(t) == seen[t] > PoolCapacity

(* The loop's test of the value last observed. *)
Full(t) == seen[t] >= PoolCapacity

(* The loop's early return: no slot. *)
GiveUp(t) ==
    /\ pc[t] = "deciding"
    /\ Full(t)
    /\ pc' = [pc EXCEPT ![t] = "idle"]
    /\ seen' = [seen EXCEPT ![t] = 0]
    /\ UNCHANGED active

(* Mutant of CasOk: a plain store of the value read earlier plus one. *)
CasStore(t) ==
    /\ pc[t] = "deciding"
    /\ ~Full(t)
    /\ active' = seen[t] + 1
    /\ pc' = [pc EXCEPT ![t] = "holding"]
    /\ seen' = [seen EXCEPT ![t] = 0]

(* compare_exchange_weak succeeds: the permit is created. *)
CasOk(t) ==
    /\ pc[t] = "deciding"
    /\ ~Full(t)
    /\ active = seen[t]
    /\ active' = seen[t] + 1
    /\ pc' = [pc EXCEPT ![t] = "holding"]
    /\ seen' = [seen EXCEPT ![t] = 0]

(* compare_exchange_weak fails, spuriously or not, and reports the value.  *)
CasFail(t) ==
    /\ pc[t] = "deciding"
    /\ ~Full(t)
    /\ seen' = [seen EXCEPT ![t] = active]
    /\ UNCHANGED <<active, pc>>

(* Drop for SlotPermit: fetch_sub. *)
DropPermit(t) ==
    /\ pc[t] = "holding"
    /\ active' = active - 1
    /\ pc' = [pc EXCEPT ![t] = "idle"]
    /\ UNCHANGED seen

(* SlotPool::available: saturating_sub of the counter. *)
Available == IF active <= PoolCapacity THEN PoolCapacity - active ELSE 0

Next == \E t \in Threads :
    Load(t) \/ GiveUp(t) \/ CasOk(t) \/ CasFail(t) \/ DropPermit(t)

Spec == Init /\ [][Next]_vars

(* A compare_exchange_weak that may succeed again and again does succeed   *)
(* at last (the hardware's forward-progress guarantee for the retry loop), *)
(* a thread that runs keeps running, and a job ends.                       *)
FairSpec ==
    /\ Spec
    /\ \A t \in Threads :
        /\ WF_vars(GiveUp(t)) /\ WF_vars(CasFail(t))
        /\ SF_vars(CasOk(t))
        /\ WF_vars(DropPermit(t))

------------------------------------------------------------------------------
(* The counter, the program counters and the observed values have their    *)
(* types; the observed value of a thread is one the counter may have had.  *)
TypeOK ==
    /\ active \in 0..PoolCapacity
    /\ pc \in [Threads -> Phases]
    /\ seen \in [Threads -> 0..PoolCapacity]

(* The counter is exactly the number of live permits: no interleaving of   *)
(* loads, failed exchanges and drops loses or duplicates a slot.           *)
CounterIsHolders == active = Cardinality(Holders)

(* What the node advertises: never more permits than slots.                *)
NoOverCommit == Cardinality(Holders) <= PoolCapacity

(* The pool implements the abstract semaphore.  A refusal takes effect at  *)
(* the load or failed exchange that observed a full pool.                  *)
Sem == INSTANCE Semaphore WITH
    Clients <- Threads,
    Capacity <- PoolCapacity,
    holders <- Holders,
    refused <- {t \in Threads : pc[t] = "deciding" /\ Full(t)}

(* The lock-free pool refines the abstract semaphore: slots are granted    *)
(* only while one is free, and a caller is turned away only at an instant  *)
(* at which all slots really were taken.                                   *)
ImplementsSemaphore == Sem!SemSpec

(* A call of try_acquire is decided: the retry loop does not run for ever. *)
CallsReturn == \A t \in Threads : pc[t] = "deciding" ~> pc[t] # "deciding"

==============================================================================
