------------------------------ MODULE SlotPool ------------------------------
(***************************************************************************)
(* What the heartbeat manager promises its client, without saying how      *)
(* (docs/AUTH_OWNERSHIP.md, "Bounded heartbeat lifecycle"):                *)
(*   - a user takes a slot before it claims, and at most Capacity users    *)
(*     hold one;                                                           *)
(*   - heartbeat work runs only for a user that holds a slot;              *)
(*   - once admission has ended no user takes a slot and no work starts;   *)
(*   - shutdown is reported as complete only when admission has ended and  *)
(*     no work is running, so that none runs afterwards.                   *)
(***************************************************************************)
EXTENDS Integers, FiniteSets

CONSTANTS Users, Capacity

VARIABLES
    admitting,   \* new users are admitted
    holders,     \* the users that hold a slot
    active,      \* the users for whom heartbeat work exists
    shutDown     \* some close() has reported success

poolVars == <<admitting, holders, active, shutDown>>

PoolInit ==
    /\ admitting = TRUE
    /\ holders = {}
    /\ active = {}
    /\ shutDown = FALSE

Acquire(u) ==
    /\ admitting
    /\ u \notin holders \cup active
    /\ Cardinality(holders) < Capacity
    /\ holders' = holders \cup {u}
    /\ UNCHANGED <<admitting, active, shutDown>>

Activate(u) ==
    /\ admitting
    /\ u \in holders \ active
    /\ active' = active \cup {u}
    /\ UNCHANGED <<admitting, holders, shutDown>>

(* The slot goes back once, whether or not work was started with it, at    *)
(* the end of that work or shortly before.                                 *)
GiveBack(u) ==
    /\ u \in holders
    /\ holders' = holders \ {u}
    /\ active' \in {active, active \ {u}}
    /\ UNCHANGED <<admitting, shutDown>>

(* The thread of the work outlives the slot by a moment.                   *)
Deactivate(u) ==
    /\ u \in active \ holders
    /\ active' = active \ {u}
    /\ UNCHANGED <<admitting, holders, shutDown>>

EndAdmission ==
    /\ admitting' = FALSE
    /\ UNCHANGED <<holders, active, shutDown>>

ReportShutDown ==
    /\ ~admitting
    /\ active = {}
    /\ shutDown' = TRUE
    /\ UNCHANGED <<admitting, holders, active>>

PoolNext ==
    \/ \E u \in Users : Acquire(u) \/ Activate(u) \/ GiveBack(u) \/ Deactivate(u)
    \/ EndAdmission
    \/ ReportShutDown

PoolSpec == PoolInit /\ [][PoolNext]_poolVars

=============================================================================
