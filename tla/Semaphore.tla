------------------------------ MODULE Semaphore ------------------------------
(***************************************************************************)
(* The abstract promise of a slot pool: at most Capacity clients hold a    *)
(* slot, and a client is refused only at an instant at which every slot is *)
(* taken.  SlotPool implements it with one atomic counter and no lock;     *)
(* NodeAgent uses it as its admission control.                             *)
(***************************************************************************)
EXTENDS Naturals, FiniteSets

CONSTANTS Clients,   \* whoever may hold a slot: job threads, local requests
          Capacity   \* slots of the node

VARIABLES holders,   \* the clients that hold a slot
          refused    \* the clients whose current call has been decided: no slot

semVars == <<holders, refused>>

SemInit == holders = {} /\ refused = {}

(* A slot is granted while one is free. *)
Grant(c) ==
    /\ c \notin holders \cup refused
    /\ Cardinality(holders) < Capacity
    /\ holders' = holders \cup {c}
    /\ UNCHANGED refused

(* A call is refused only when the pool is full at this very instant. *)
Refuse(c) ==
    /\ c \notin holders \cup refused
    /\ Cardinality(holders) >= Capacity
    /\ refused' = refused \cup {c}
    /\ UNCHANGED holders

(* A refused client goes on and may call again. *)
Leave(c) ==
    /\ c \in refused
    /\ refused' = refused \ {c}
    /\ UNCHANGED holders

Release(c) ==
    /\ c \in holders
    /\ holders' = holders \ {c}
    /\ UNCHANGED refused

SemNext == \E c \in Clients : Grant(c) \/ Refuse(c) \/ Leave(c) \/ Release(c)

SemSpec == SemInit /\ [][SemNext]_semVars
==============================================================================
