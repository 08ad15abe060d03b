-------------------------- MODULE HeartbeatRegistry --------------------------
(***************************************************************************)
(* The state and the operations of class Registry (nzovu/heartbeat.py),    *)
(* which the threaded and the asyncio heartbeat managers both inherit.     *)
(*                                                                         *)
(* Every get_next_message call creates at most one Worker, so a worker is  *)
(* named by the call that created it.  Each operator below is the body of  *)
(* one method, executed under the registry lock (or, in the asyncio        *)
(* manager, between two awaits): it is one atomic step.                    *)
(***************************************************************************)
EXTENDS Integers, FiniteSets

CONSTANTS
    Calls,      \* the get_next_message calls of one client, and their workers
    Claims,     \* complete claims (queue, message, worker and attempt id)
    Capacity,   \* heartbeat_thread_pool_size / heartbeat_task_limit
    MaxCount,   \* heartbeat_max_count
    NoCall,     \* "no worker registered under this claim"
    NoClaim     \* "this call has not been given a claim"

ASSUME RegistryAssumption ==
    /\ IsFiniteSet(Calls)
    /\ Capacity \in Nat \ {0}
    /\ MaxCount \in Nat \ {0}
    /\ NoCall \notin Calls
    /\ NoClaim \notin Claims

VARIABLES
    closed,        \* Registry.closed
    reservations,  \* Registry.reservations
    workers,       \* Registry.workers: the worker registered under each claim
    stopped,       \* the workers whose stop event is set
    claimOf,       \* Worker.claim
    sent,          \* Worker.sent
    retries        \* Worker.retries

registryVars == <<closed, reservations, workers, stopped, claimOf, sent, retries>>

(* The status codes the worker loop tells apart: those it retries, and any *)
(* other, for which FAILED_PRECONDITION and CANCELLED stand.               *)
RETRYABLE == {"UNAVAILABLE", "DEADLINE_EXCEEDED", "RESOURCE_EXHAUSTED"}
HeartbeatCodes == RETRYABLE \cup {"FAILED_PRECONDITION", "CANCELLED"}

(* failed() gives up at the third consecutive failure.                     *)
MaxRetries == 3

RegistryTypeOK ==
    /\ closed \in BOOLEAN
    /\ reservations \in Int
    /\ workers \in [Claims -> Calls \cup {NoCall}]
    /\ stopped \subseteq Calls
    /\ claimOf \in [Calls -> Claims \cup {NoClaim}]
    /\ sent \in [Calls -> 0..MaxCount]
    /\ retries \in [Calls -> 0..MaxRetries]

RegistryInit ==
    /\ closed = FALSE
    /\ reservations = 0
    /\ workers = [k \in Claims |-> NoCall]
    /\ stopped = {}
    /\ claimOf = [c \in Calls |-> NoClaim]
    /\ sent = [c \in Calls |-> 0]
    /\ retries = [c \in Calls |-> 0]

-----------------------------------------------------------------------------
(* Faulty variants, used by no specification: each changes the operator it *)
(* is named after the way a slip in the code would, and the properties of  *)
(* the managers must tell.                                                 *)
CanReserveOneTooMany == ~closed /\ reservations <= Capacity
ReleaseForgotten == reservations' = reservations
CanRegisterAfterClose(k) == workers[k] = NoCall
CloseFuturesNotStopped == {workers[k] : k \in Claims} \ (stopped \cup {NoCall})
SucceededUncounted(c) == retries' = [retries EXCEPT ![c] = 0] /\ UNCHANGED sent
GivesUpOnCodeOnly(c, code) == code \notin RETRYABLE
FinishKeepsListed(c) == reservations' = reservations - 1 /\ UNCHANGED workers

-----------------------------------------------------------------------------
(* reserve(): refused when closed or saturated.                            *)
CanReserve == ~closed /\ reservations < Capacity

Reserve ==
    /\ CanReserve
    /\ reservations' = reservations + 1

(* release(): the caller gives back a slot it has not handed to a worker.  *)
Release == reservations' = reservations - 1

(* register(): refused when closed or when this exact claim has a worker.  *)
CanRegister(k) == ~closed /\ workers[k] = NoCall

Register(c, k) ==
    /\ CanRegister(k)
    /\ workers' = [workers EXCEPT ![k] = c]

RegisteredWorkers == {workers[k] : k \in Claims} \ {NoCall}

(* stop(claim): sets the event of the worker registered under that claim.  *)
Stop(k) ==
    /\ workers[k] # NoCall
    /\ stopped' = stopped \cup {workers[k]}

(* begin_close(): no admission from here on, every worker is signalled.    *)
BeginCloseRegistry ==
    /\ closed' = TRUE
    /\ stopped' = stopped \cup RegisteredWorkers

(* ... and the futures it returns for the caller to join.                  *)
CloseFutures == RegisteredWorkers

(* succeeded(): one more heartbeat counted, the failures forgotten.        *)
Succeeded(c) ==
    /\ sent' = [sent EXCEPT ![c] = @ + 1]
    /\ retries' = [retries EXCEPT ![c] = 0]

(* failed(): counts the failure; GivesUp is its answer "do not retry".     *)
Failed(c) ==
    /\ retries' = [retries EXCEPT ![c] = @ + 1]
    /\ UNCHANGED sent

GivesUp(c, code) == code \notin RETRYABLE \/ retries[c] + 1 >= MaxRetries

(* finish(): removes the worker if it is the one registered under its      *)
(* claim, and gives its slot back either way.                              *)
Finish(c) ==
    /\ workers' = IF workers[claimOf[c]] = c
                  THEN [workers EXCEPT ![claimOf[c]] = NoCall]
                  ELSE workers
    /\ reservations' = reservations - 1

=============================================================================
