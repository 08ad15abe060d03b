------------------------------ MODULE CartFlow ------------------------------
(***************************************************************************)
(* What the store workers promise for each cart, without replicas, calls,  *)
(* heartbeats or a network:                                                *)
(*   - a cart is forwarded once, after a worker has leased it, and only if *)
(*     it is valid;                                                        *)
(*   - it is completed only after it was forwarded; what is completed or   *)
(*     dead stays so and is never delivered again;                         *)
(*   - a message is dead only after all its attempts;                      *)
(*   - one checkout is in progress at a time.                              *)
(***************************************************************************)
EXTENDS Integers

CONSTANTS Carts, MaxAttempts

VARIABLES
    invalid,   \* the carts that no worker may forward
    stage,     \* the state of the message of each cart in either queue
    tries      \* its attempts so far

flowVars == <<invalid, stage, tries>>

FlowInit ==
    /\ invalid \subseteq Carts
    /\ stage = [q \in {"store", "checkout"} |-> [c \in Carts |-> "absent"]]
    /\ tries = [q \in {"store", "checkout"} |-> [c \in Carts |-> 0]]

Move(q, c, from, to) ==
    /\ stage[q][c] = from
    /\ stage' = [stage EXCEPT ![q][c] = to]
    /\ UNCHANGED invalid

Accept(c) == Move("store", c, "absent", "PENDING") /\ UNCHANGED tries

Forward(c) ==
    /\ c \notin invalid /\ tries["store"][c] > 0
    /\ Move("checkout", c, "absent", "PENDING")
    /\ UNCHANGED tries

Try(q, c) ==
    /\ tries[q][c] < MaxAttempts
    /\ q = "checkout" => \A d \in Carts : stage[q][d] # "RUNNING"
    /\ Move(q, c, "PENDING", "RUNNING")
    /\ tries' = [tries EXCEPT ![q][c] = @ + 1]

Finish(q, c) ==
    /\ q = "store" => c \notin invalid /\ stage["checkout"][c] # "absent"
    /\ Move(q, c, "RUNNING", "COMPLETED")
    /\ UNCHANGED tries

GiveUp(q, c) ==
    /\ Move(q, c, "RUNNING", IF tries[q][c] < MaxAttempts THEN "PENDING" ELSE "DLQ")
    /\ UNCHANGED tries

FlowNext ==
    \E c \in Carts :
        \/ Accept(c) \/ Forward(c)
        \/ \E q \in {"store", "checkout"} : Try(q, c) \/ Finish(q, c) \/ GiveUp(q, c)

FlowSpec == FlowInit /\ [][FlowNext]_flowVars

=============================================================================
