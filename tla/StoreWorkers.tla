---------------------------- MODULE StoreWorkers ----------------------------
(***************************************************************************)
(* The store example: replicas of the application, each with a client, two *)
(* worker tasks (one per queue) and a lifespan, move carts from the queue  *)
(* store-cart to checkout-cart.  Replicas crash, are shut down and started *)
(* again; requests and replies are lost or late; leases expire.            *)
(*                                                                         *)
(* Translated from examples/store-api/api and, for what a call of the SDK  *)
(* does to its claim's heartbeat, from client.py, async_client.py and      *)
(* heartbeat.py.  The server is external: it leases a message to one       *)
(* attempt at a time, returns it when the lease expires until its attempts *)
(* are used up, and refuses an ID it still retains.                        *)
(***************************************************************************)
EXTENDS Integers, FiniteSets

CONSTANTS
    Replicas,
    Workers,       \* <<r, q>>: the worker of replica r for queue q; the code
                   \* starts both in each, an instance may follow fewer
    Asynchronous,  \* the replicas that run create_app(asynchronous=True)
    Carts,
    MaxAttempts,   \* max_attempts of both queues, 3 in options()
    MaxOutages,    \* bound: crashes and shutdowns of replicas
    MaxLate,       \* bound: requests that have outlived their call
    NoClaim

Queues == {"store", "checkout"}

(* A message is named by its queue, its cart and what its ID adds to the   *)
(* cart's: a constant of the queue, written 0, in this code; an attempt in *)
(* code that would name it.                                                *)
Suffixes == 0..MaxAttempts
Messages == Queues \X Carts \X Suffixes
StoreMessage(c) == <<"store", c, 0>>

Claims == [message : Messages, attempt : 1..MaxAttempts]

ASSUME StoreAssumption ==
    /\ MaxAttempts \in Nat \ {0}
    /\ MaxOutages \in Nat /\ MaxLate \in Nat
    /\ Workers \subseteq Replicas \X Queues /\ Asynchronous \subseteq Replicas
    /\ NoClaim \notin Claims

VARIABLES
    invalid,     \* the carts whose payload CartItems.model_validate refuses
    status,      \* server: the state of each message
    attempts,    \* server: the attempts handed out for each message
    late,        \* network: requests whose caller has given up
    phase,       \* the lifespan of each replica
    open,        \* the replicas whose client is not closed
    outages,
    beating,     \* <<r, k>>: the client of replica r heartbeats claim k
    pc,          \* where each worker task is
    claim,       \* the claim it processes
    cancelled    \* the worker tasks with a cancellation pending

serverVars == <<invalid, status, attempts, late>>
lifeVars == <<phase, open, outages, cancelled>>
taskVars == <<pc, claim>>
vars == <<serverVars, lifeVars, taskVars, beating>>

Settled == {"COMPLETED", "DLQ"}
Statuses == {"absent", "PENDING", "RUNNING"} \cup Settled
Processing == {"forwarding", "acknowledging", "abandoning"}
Calling == {"claiming", "forwarding", "acknowledging"}
Requests == [op : {"forwarding", "acknowledging"}, claim : Claims]

TypeOK ==
    /\ invalid \subseteq Carts
    /\ status \in [Messages -> Statuses]
    /\ attempts \in [Messages -> 0..MaxAttempts]
    /\ late \subseteq Requests
    /\ phase \in [Replicas -> {"down", "serving", "stopping", "cancelling"}]
    /\ open \subseteq Replicas
    /\ outages \in 0..MaxOutages
    /\ beating \subseteq Replicas \X Claims
    /\ pc \in [Workers -> {"ended", "polling"} \cup Calling \cup Processing]
    /\ claim \in [Workers -> Claims \cup {NoClaim}]
    /\ \A w \in Workers : pc[w] \in Processing => claim[w] \in Claims
    /\ cancelled \subseteq Workers

Init ==
    /\ invalid \in SUBSET Carts
    /\ status = [m \in Messages |-> "absent"]
    /\ attempts = [m \in Messages |-> 0]
    /\ late = {} /\ open = Replicas /\ outages = 0 /\ beating = {} /\ cancelled = {}
    /\ phase = [r \in Replicas |-> "serving"]
    /\ pc = [w \in Workers |-> "polling"]
    /\ claim = [w \in Workers |-> NoClaim]

Active(k) == status[k.message] = "RUNNING" /\ attempts[k.message] = k.attempt
Of(r) == {w \in Workers : w[1] = r}

-----------------------------------------------------------------------------
(* Faulty variants, used by no specification: each changes the operator it *)
(* is named after the way a slip in the code would.                        *)
CheckoutPerAttempt(k) == <<"checkout", k.message[2], k.attempt>>
CancelsFirst(r) == phase[r] = "stopping"
KeepsHeartbeat(w) == UNCHANGED beating

-----------------------------------------------------------------------------
(* The server (external).                                                  *)

(* post_message is accepted unless the ID is retained.                     *)
Posted(m) ==
    status' = [status EXCEPT ![m] = IF @ = "absent" THEN "PENDING" ELSE @]

Completed(k) == Active(k) /\ status' = [status EXCEPT ![k.message] = "COMPLETED"]

(* A lease for attempt k of a waiting message; the exclusive queue has one *)
(* RUNNING message at a time.                                              *)
Granted(m) ==
    /\ status[m] = "PENDING" /\ attempts[m] < MaxAttempts
    /\ m[1] = "checkout" => \A n \in Messages : n[1] = m[1] => status[n] # "RUNNING"
    /\ status' = [status EXCEPT ![m] = "RUNNING"]
    /\ attempts' = [attempts EXCEPT ![m] = @ + 1]

(* The downstream ID is the cart's with a constant suffix, whichever       *)
(* attempt posts it.                                                       *)
CheckoutMessage(k) == <<"checkout", k.message[2], 0>>

(* The effect of a post or an ACK that is not refused.                     *)
Applied(op, k) ==
    \/ op = "forwarding" /\ Posted(CheckoutMessage(k))
    \/ op = "acknowledging" /\ Completed(k)

(* A request that outlives its call's deadline, or its caller; one that    *)
(* could no longer have an effect is not kept.                             *)
Effective(op, k) ==
    IF op = "forwarding" THEN status[CheckoutMessage(k)] = "absent" ELSE Active(k)

Delayed(ws) ==
    /\ Cardinality(late) < MaxLate
    /\ \E w \in ws :
          /\ pc[w] \in {"forwarding", "acknowledging"} /\ Effective(pc[w], claim[w])
          /\ late' = late \cup {[op |-> pc[w], claim |-> claim[w]]}

LateArrives(q) ==
    /\ q \in late
    /\ late' = late \ {q}
    /\ Applied(q.op, q.claim) \/ UNCHANGED status
    /\ UNCHANGED <<invalid, attempts, lifeVars, taskVars, beating>>

LeaseExpires(m) ==
    /\ status[m] = "RUNNING"
    /\ status' = [status EXCEPT ![m] = IF attempts[m] < MaxAttempts THEN "PENDING" ELSE "DLQ"]
    /\ UNCHANGED <<invalid, attempts, late, lifeVars, taskVars, beating>>

(* The heartbeat of a lease that is gone is answered so and ends.          *)
StaleHeartbeatEnds(b) ==
    /\ b \in beating /\ ~Active(b[2])
    /\ beating' = beating \ {b}
    /\ UNCHANGED <<serverVars, lifeVars, taskVars>>

-----------------------------------------------------------------------------
(* The worker task (run_worker, process_once).                             *)

Task(w, p, k) ==
    /\ pc' = [pc EXCEPT ![w] = p]
    /\ claim' = [claim EXCEPT ![w] = k]

(* process_once returns or raises: run_worker logs the error and polls on, *)
(* a cancellation ends the task.                                           *)
Leave(w) == Task(w, IF w \in cancelled THEN "ended" ELSE "polling", NoClaim)

(* Faulty variants: a cart is not validated, and the handler has lost the  *)
(* claim.                                                                  *)
ForwardsUnchecked(w, k) == Task(w, IF w[2] = "checkout" THEN "acknowledging" ELSE "forwarding", k)
FailUnnamed(w) == Task(w, "abandoning", NoClaim)

(* An exception inside the try: the claim is abandoned.                    *)
Fail(w) == Task(w, "abandoning", claim[w])

(* An SDK call gives its result.  A cancelled coroutine never sees it; a   *)
(* synchronous call runs on in its thread, invoke waits for it and raises. *)
Returns(w, op) ==
    /\ pc[w] = op
    /\ w \in cancelled => w[1] \notin Asynchronous

(* The loop test, and the wait between two rounds.                         *)
Poll(w) ==
    /\ pc[w] = "polling"
    /\ Task(w, IF phase[w[1]] = "serving" /\ w \notin cancelled THEN "claiming" ELSE "ended", NoClaim)
    /\ UNCHANGED <<serverVars, lifeVars, beating>>

NoMessage(w) ==
    /\ Returns(w, "claiming")
    /\ Leave(w)
    /\ UNCHANGED <<serverVars, lifeVars, beating>>

(* A store worker validates the cart and forwards it; a checkout worker    *)
(* logs it and goes on to the ACK.                                         *)
Process(w, k) ==
    Task(w, CASE w[2] = "checkout" -> "acknowledging"
              [] k.message[2] \in invalid -> "abandoning"
              [] OTHER -> "forwarding", k)

(* get_next_message starts the heartbeat before its caller, or the thread  *)
(* that waits for it, sees a cancellation; a closed client refuses it and  *)
(* the call raises.                                                        *)
ClaimReturned(w, m) ==
    /\ Returns(w, "claiming") /\ m[1] = w[2]
    /\ Granted(m)
    /\ LET k == [message |-> m, attempt |-> attempts[m] + 1]
       IN  /\ beating' = IF w[1] \in open THEN beating \cup {<<w[1], k>>} ELSE beating
           /\ IF w[1] \in open /\ w \notin cancelled THEN Process(w, k) ELSE Leave(w)
    /\ UNCHANGED <<invalid, late, lifeVars>>

(* A retry after an uncertain ACK uses the same downstream ID, and takes   *)
(* ALREADY_EXISTS for success; success=False raises.  So does the ACK on a *)
(* channel that was closed meanwhile.                                      *)
PostReturned(w) ==
    /\ Returns(w, "forwarding")
    /\ \/ /\ Applied("forwarding", claim[w])
          /\ IF w \notin cancelled /\ w[1] \in open
             THEN Task(w, "acknowledging", claim[w]) ELSE Fail(w)
       \/ UNCHANGED status /\ Fail(w)
    /\ UNCHANGED <<invalid, attempts, late, lifeVars, beating>>

StopHeartbeat(w) == beating' = beating \ {<<w[1], claim[w]>>}

(* A confirmed ACK, and one that reports lost ownership, end the heartbeat;*)
(* success=False does not.                                                 *)
AckReturned(w) ==
    /\ Returns(w, "acknowledging")
    /\ \/ /\ Applied("acknowledging", claim[w]) /\ StopHeartbeat(w)
          /\ IF w \in cancelled THEN Fail(w) ELSE Leave(w)
       \/ UNCHANGED <<status, beating>> /\ Active(claim[w]) /\ Fail(w)
       \/ UNCHANGED status /\ ~Active(claim[w]) /\ StopHeartbeat(w) /\ Fail(w)
    /\ UNCHANGED <<invalid, attempts, late, lifeVars>>

(* The call fails before its RPC, for want of a heartbeat slot, or the RPC  *)
(* by its deadline of five seconds, a transport error, the closed channel  *)
(* or the coroutine's cancellation; a lease may have been granted.         *)
ClaimFails(w) ==
    /\ pc[w] = "claiming"
    /\ Leave(w)
    /\ \/ UNCHANGED <<status, attempts>>
       \/ \E m \in Messages : m[1] = w[2] /\ Granted(m)
    /\ UNCHANGED <<invalid, late, lifeVars, beating>>

(* So does a post or an ACK: it was lost, or took effect, or still may.    *)
RpcFails(w) ==
    /\ pc[w] \in {"forwarding", "acknowledging"}
    /\ Fail(w)
    /\ \/ UNCHANGED <<status, late>>
       \/ Applied(pc[w], claim[w]) /\ UNCHANGED late
       \/ Delayed({w}) /\ UNCHANGED status
    /\ UNCHANGED <<invalid, attempts, lifeVars, beating>>

(* The handler: stop_heartbeat, and raise.                                 *)
Abandon(w) ==
    /\ pc[w] = "abandoning"
    /\ StopHeartbeat(w)
    /\ Leave(w)
    /\ UNCHANGED <<serverVars, lifeVars>>

Step(w) ==
    \/ Poll(w) \/ NoMessage(w) \/ (\E m \in Messages : ClaimReturned(w, m))
    \/ PostReturned(w) \/ AckReturned(w) \/ ClaimFails(w) \/ RpcFails(w) \/ Abandon(w)

-----------------------------------------------------------------------------
(* The application (create_app, lifespan, the route post_cart_items).      *)

(* A cart enters, by the route of any replica or from another producer.    *)
Enqueue(c) ==
    /\ status[StoreMessage(c)] = "absent"
    /\ Posted(StoreMessage(c))
    /\ UNCHANGED <<invalid, attempts, late, lifeVars, taskVars, beating>>

(* The client is made, the queues exist or are created, the tasks start.  A*)
(* start that fails closes its client before any task exists: it leaves    *)
(* the replica down, with nothing changed.                                 *)
Start(r) ==
    /\ phase[r] = "down"
    /\ phase' = [phase EXCEPT ![r] = "serving"]
    /\ open' = open \cup {r}
    /\ pc' = [w \in Workers |-> IF w \in Of(r) THEN "polling" ELSE pc[w]]
    /\ UNCHANGED <<serverVars, outages, cancelled, claim, beating>>

(* stop.set(): a worker ends after its present round.                      *)
BeginStop(r) ==
    /\ phase[r] = "serving" /\ outages < MaxOutages
    /\ outages' = outages + 1
    /\ phase' = [phase EXCEPT ![r] = "stopping"]
    /\ UNCHANGED <<serverVars, open, cancelled, taskVars, beating>>

(* client.close(): no heartbeat starts any more, and those there end.      *)
CloseClient(r) ==
    /\ phase[r] = "stopping" /\ r \in open
    /\ open' = open \ {r}
    /\ beating' = {b \in beating : b[1] # r}
    /\ UNCHANGED <<serverVars, phase, outages, cancelled, taskVars>>

MayCancel(r) == phase[r] = "stopping" /\ r \notin open

CancelTasks(r) ==
    /\ MayCancel(r)
    /\ phase' = [phase EXCEPT ![r] = "cancelling"]
    /\ cancelled' = cancelled \cup {w \in Of(r) : pc[w] # "ended"}
    /\ UNCHANGED <<serverVars, open, outages, taskVars, beating>>

(* gather(): every task has ended.                                         *)
JoinTasks(r) ==
    /\ phase[r] = "cancelling"
    /\ \A w \in Of(r) : pc[w] = "ended"
    /\ phase' = [phase EXCEPT ![r] = "down"]
    /\ cancelled' = cancelled \ Of(r)
    /\ UNCHANGED <<serverVars, open, outages, taskVars, beating>>

Lifespan(r) == Start(r) \/ CloseClient(r) \/ CancelTasks(r) \/ JoinTasks(r)

(* The process dies: what it has sent may still arrive.                    *)
Crash(r) ==
    /\ phase[r] # "down" /\ outages < MaxOutages
    /\ outages' = outages + 1
    /\ phase' = [phase EXCEPT ![r] = "down"]
    /\ open' = open \ {r}
    /\ cancelled' = cancelled \ Of(r)
    /\ beating' = {b \in beating : b[1] # r}
    /\ Delayed(Of(r)) \/ UNCHANGED late
    /\ pc' = [w \in Workers |-> IF w \in Of(r) THEN "ended" ELSE pc[w]]
    /\ claim' = [w \in Workers |-> IF w \in Of(r) THEN NoClaim ELSE claim[w]]
    /\ UNCHANGED <<invalid, status, attempts>>

Next ==
    \/ \E c \in Carts : Enqueue(c)
    \/ \E w \in Workers : Step(w)
    \/ \E q \in late : LateArrives(q)
    \/ \E m \in Messages : LeaseExpires(m)
    \/ \E b \in beating : StaleHeartbeatEnds(b)
    \/ \E r \in Replicas : Lifespan(r) \/ BeginStop(r) \/ Crash(r)

Spec == Init /\ [][Next]_vars

(* A lease that nobody renews expires; every call ends by its deadline; a  *)
(* replica that is down is started; and of the claim requests sent again   *)
(* and again while a message waits, one gets it.                           *)
Renewed(m) == \E b \in beating : b[2].message = m /\ Active(b[2])

FairSpec ==
    /\ Spec
    /\ \A w \in Workers : WF_vars(Step(w))
    /\ \A r \in Replicas : WF_vars(Lifespan(r))
    /\ \A m \in Queues \X Carts \X {0} :
          /\ WF_vars(~Renewed(m) /\ LeaseExpires(m))
          /\ SF_vars(\E w \in Workers : w[2] = m[1] /\ ClaimReturned(w, m))

-----------------------------------------------------------------------------
Checkouts(c) == {m \in Messages : m[1] = "checkout" /\ m[2] = c /\ status[m] # "absent"}

(* Whatever is retried, lost, late or cut short by a crash, a cart gets at *)
(* most one checkout message; and it is completed only if it is valid and  *)
(* its checkout message was accepted.                                      *)
OneCheckoutPerCart ==
    \A c \in Carts :
        /\ Cardinality(Checkouts(c)) <= 1
        /\ status[StoreMessage(c)] = "COMPLETED" => c \notin invalid /\ Checkouts(c) # {}

(* Only the message whose ID the cart gives it counts as its checkout.     *)
Stage == [q \in Queues |-> [c \in Carts |-> status[<<q, c, 0>>]]]
Tries == [q \in Queues |-> [c \in Carts |-> attempts[<<q, c, 0>>]]]

Flow == INSTANCE CartFlow WITH stage <- Stage, tries <- Tries

(* Replicas, retries, lost and late requests, crashes and shutdowns add no *)
(* behaviour to the way of a cart from the one queue to the other.         *)
RefinesCartFlow == Flow!FlowSpec

(* A client heartbeats only claims that a task of its replica processes:   *)
(* also when get_next_message finishes in its thread after the task that   *)
(* called it was cancelled.                                                *)
HeartbeatsAreProcessed ==
    \A b \in beating :
        \E w \in Of(b[1]) : pc[w] \in Processing /\ claim[w] = b[2]

(* Every cart accepted is completed and its checkout too, or what has used *)
(* up its attempts is in the dead letter queue: abandoned claims expire    *)
(* and are retried.                                                        *)
CartsSettle ==
    \A c \in Carts :
        status[StoreMessage(c)] # "absent" ~>
            /\ status[StoreMessage(c)] \in Settled
            /\ \A m \in Checkouts(c) : status[m] \in Settled

=============================================================================
