--------------------------- MODULE ClaimLifecycle ---------------------------
(***************************************************************************)
(* One message, its successive attempts, and one client that heartbeats,   *)
(* renews and acknowledges them over RPCs whose requests and replies can   *)
(* be lost or late.  A claim is the complete immutable Claim of the SDK;   *)
(* as there is one message, it is named by its attempt number.             *)
(*                                                                         *)
(* The client half is translated from client.py, async_client.py and       *)
(* heartbeat.py.  The server half is external: it keeps what the comments  *)
(* of proto/queueservice/v1/service.proto say of a lease - ACK, heartbeat  *)
(* and renewal must identify the active, unexpired lease; an expired lease *)
(* returns the message for another attempt.                                *)
(***************************************************************************)
EXTENDS Integers

CONSTANTS
    MaxAttempts,   \* bound: attempts the server hands out
    MaxCount       \* heartbeat_max_count; 0 stands for its default, 10^9,
                   \* which no behaviour reaches: heartbeats are not counted

ASSUME LifecycleAssumption == MaxAttempts \in Nat \ {0} /\ MaxCount \in Nat

Attempts == 1..MaxAttempts

VARIABLES
    granted,     \* server: attempts handed out so far
    lease,       \* server: the attempt whose lease is active, 0 if none
    completed,   \* server: the message has reached a final state
    work,        \* client: the stage of the heartbeat worker of each claim
    stopped,     \* client: the claims whose worker has its stop event set
    dropped,     \* history: those of `stopped` that the SDK itself stopped
    retries,     \* client: Worker.retries
    sent,        \* client: Worker.sent
    arrived,     \* history: heartbeats of a worker that reached the server
    held,        \* client: the claims get_next_message has returned
    call,        \* client: the RPC the application runs for each claim
    lateAck      \* network: ACK requests whose caller has given up

serverVars == <<granted, lease, completed, lateAck>>
workerVars == <<work, retries, sent>>
vars == <<serverVars, workerVars, stopped, dropped, arrived, held, call>>

(* A worker: not started, at its loop test or waiting, sending (request    *)
(* under way), the reply under way, ended.  INTERNAL stands for the codes  *)
(* that are neither RETRYABLE nor about the lease.                         *)
NotRetryable == {"FAILED_PRECONDITION", "INTERNAL"}
Replies == {"RUNNING", "COMPLETED"} \cup NotRetryable
WorkPCs == {"none", "loop", "request"} \cup Replies \cup {"done"}

(* The RPCs of the application and the server's answers: of the ownership  *)
(* codes that a method treats alike, one or two stand for all.             *)
Answers(op) ==
    CASE op = "ack"   -> {"success", "refused", "FAILED_PRECONDITION", "PERMISSION_DENIED"}
      [] op = "renew" -> {"success", "FAILED_PRECONDITION", "NOT_FOUND"}
      [] op = "beat"  -> {"success", "FAILED_PRECONDITION"}

Ops == {"ack", "renew", "beat"}
CallPCs == {<<"idle">>} \cup UNION {{<<op, a>> : a \in Answers(op) \cup {"request"}} : op \in Ops}

TypeOK ==
    /\ granted \in 0..MaxAttempts
    /\ lease \in 0..granted
    /\ completed \in BOOLEAN
    /\ work \in [Attempts -> WorkPCs]
    /\ stopped \subseteq Attempts
    /\ dropped \subseteq stopped
    /\ retries \in [Attempts -> 0..3]
    /\ sent \in [Attempts -> 0..MaxCount]
    /\ arrived \in [Attempts -> 0..MaxCount + 1]
    /\ held \subseteq 1..granted
    /\ call \in [Attempts -> CallPCs]
    /\ lateAck \subseteq Attempts

Init ==
    /\ granted = 0 /\ lease = 0 /\ completed = FALSE
    /\ work = [k \in Attempts |-> "none"]
    /\ stopped = {} /\ dropped = {}
    /\ retries = [k \in Attempts |-> 0]
    /\ sent = [k \in Attempts |-> 0]
    /\ arrived = [k \in Attempts |-> 0]
    /\ call = [k \in Attempts |-> <<"idle">>]
    /\ held = {} /\ lateAck = {}

(* Registry.workers holds the claim.                                       *)
Listed(k) == work[k] \notin {"none", "done"}

Active(k) == lease = k

-----------------------------------------------------------------------------
(* Faulty variants, used by no specification: each changes the operator it *)
(* is named after the way a slip in the code would.                        *)
FailTransientlyForever(k) ==
    /\ retries' = [retries EXCEPT ![k] = @ + 1]
    /\ work' = [work EXCEPT ![k] = "loop"]
FailTransientlyTwice(k) ==
    /\ retries' = [retries EXCEPT ![k] = @ + 1]
    /\ work' = [work EXCEPT ![k] = IF retries[k] + 1 >= 2 THEN "done" ELSE "loop"]
HeartbeatReturnedAnyState(k) ==
    /\ work[k] \in {"RUNNING", "COMPLETED"}
    /\ retries' = [retries EXCEPT ![k] = 0]
    /\ work' = [work EXCEPT ![k] = "loop"]
    /\ UNCHANGED <<serverVars, sent, stopped, dropped, arrived, held, call>>
StopsHeartbeatOnAnyRefusal(op, a) ==
    (op = "ack" /\ a = "success") \/ a \in {"NOT_FOUND", "FAILED_PRECONDITION", "PERMISSION_DENIED"}

-----------------------------------------------------------------------------
(* The server (external).                                                  *)

GrantLease ==
    /\ lease = 0 /\ ~completed /\ granted < MaxAttempts
    /\ granted' = granted + 1
    /\ lease' = granted + 1
    /\ UNCHANGED <<completed, lateAck, workerVars, stopped, dropped, arrived, held, call>>

LeaseExpires ==
    /\ lease # 0
    /\ lease' = 0
    /\ UNCHANGED <<granted, completed, lateAck, workerVars, stopped, dropped, arrived, held, call>>

(* The effect of an ACK of claim k, and the answers it may get.  An ACK    *)
(* with the lease active either completes the message or is refused with   *)
(* success=False.                                                          *)
AckApplied(k) ==
    /\ Active(k)
    /\ completed' = TRUE
    /\ lease' = 0

ServerAnswersAck(k) ==
    /\ call[k] = <<"ack", "request">>
    /\ \/ AckApplied(k) /\ call' = [call EXCEPT ![k] = <<"ack", "success">>]
       \/ /\ UNCHANGED <<lease, completed>>
          /\ \E a \in IF Active(k) THEN {"refused"} ELSE {"FAILED_PRECONDITION", "PERMISSION_DENIED"} :
                call' = [call EXCEPT ![k] = <<"ack", a>>]
    /\ UNCHANGED <<granted, lateAck, workerVars, stopped, dropped, arrived, held>>

(* A request that outlives its caller's deadline still takes effect.       *)
LateAckArrives(k) ==
    /\ k \in lateAck
    /\ lateAck' = lateAck \ {k}
    /\ AckApplied(k) \/ UNCHANGED <<lease, completed>>
    /\ UNCHANGED <<granted, workerVars, stopped, dropped, arrived, held, call>>

(* A renewal of an active lease can still meet the extension limit.        *)
ServerAnswersRenew(k) ==
    /\ call[k] = <<"renew", "request">>
    /\ \E a \in IF Active(k) THEN {"success", "FAILED_PRECONDITION"}
                ELSE {"FAILED_PRECONDITION", "NOT_FOUND"} :
          call' = [call EXCEPT ![k] = <<"renew", a>>]
    /\ UNCHANGED <<serverVars, workerVars, stopped, dropped, arrived, held>>

ServerAnswersBeat(k) ==
    /\ call[k] = <<"beat", "request">>
    /\ call' = [call EXCEPT ![k] = <<"beat", IF Active(k) THEN "success" ELSE "FAILED_PRECONDITION">>]
    /\ UNCHANGED <<serverVars, workerVars, stopped, dropped, arrived, held>>

CountArrival(k) ==
    arrived' = IF arrived[k] < MaxCount + 1 /\ MaxCount > 0
               THEN [arrived EXCEPT ![k] = @ + 1] ELSE arrived

ServerAnswersHeartbeat(k) ==
    /\ work[k] = "request"
    /\ \E a \in (IF Active(k) THEN {"RUNNING"} ELSE {"COMPLETED", "FAILED_PRECONDITION"})
                \cup {"INTERNAL"} :
          work' = [work EXCEPT ![k] = a]
    /\ CountArrival(k)
    /\ UNCHANGED <<serverVars, retries, sent, stopped, dropped, held, call>>

-----------------------------------------------------------------------------
(* The client's heartbeat worker of claim k (run).                         *)

(* The claim's reply arrives (at any time after the grant, or never: lost, *)
(* or another client's); a heartbeat is started if it was asked for.       *)
ReceiveClaim(k) ==
    /\ k \in (1..granted) \ held
    /\ held' = held \cup {k}
    /\ \E w \in {"none", "loop"} : work' = [work EXCEPT ![k] = w]
    /\ UNCHANGED <<serverVars, retries, sent, stopped, dropped, arrived, call>>

SendHeartbeat(k) ==
    /\ work[k] = "loop"
    /\ k \notin stopped
    /\ MaxCount > 0 => sent[k] < MaxCount
    /\ work' = [work EXCEPT ![k] = "request"]
    /\ UNCHANGED <<serverVars, retries, sent, stopped, dropped, arrived, held, call>>

(* The loop test fails: stopped or max_count reached.                      *)
LeaveLoop(k) ==
    /\ work[k] = "loop"
    /\ k \in stopped \/ (MaxCount > 0 /\ sent[k] >= MaxCount)
    /\ work' = [work EXCEPT ![k] = "done"]
    /\ UNCHANGED <<serverVars, retries, sent, stopped, dropped, arrived, held, call>>

(* max_duration is used up (may happen at any loop test, need not).        *)
DurationEnds(k) ==
    /\ work[k] = "loop"
    /\ work' = [work EXCEPT ![k] = "done"]
    /\ UNCHANGED <<serverVars, retries, sent, stopped, dropped, arrived, held, call>>

(* The reply is counted; a state other than RUNNING ends the worker.       *)
HeartbeatReturned(k) ==
    /\ work[k] \in {"RUNNING", "COMPLETED"}
    /\ sent' = IF MaxCount > 0 THEN [sent EXCEPT ![k] = @ + 1] ELSE sent
    /\ retries' = [retries EXCEPT ![k] = 0]
    /\ work' = [work EXCEPT ![k] = IF work[k] = "RUNNING" THEN "loop" ELSE "done"]
    /\ UNCHANGED <<serverVars, stopped, dropped, arrived, held, call>>

(* The first error whose code is not RETRYABLE ends the worker, whether or *)
(* not the lease is active.                                                *)
HeartbeatRefused(k) ==
    /\ work[k] \in NotRetryable
    /\ retries' = IF k \in stopped THEN retries ELSE [retries EXCEPT ![k] = @ + 1]
    /\ work' = [work EXCEPT ![k] = "done"]
    /\ UNCHANGED <<serverVars, sent, stopped, dropped, arrived, held, call>>

(* The third failure in a row gives up; a stopped worker ends silently.    *)
FailTransiently(k) ==
    IF k \in stopped
    THEN work' = [work EXCEPT ![k] = "done"] /\ UNCHANGED retries
    ELSE /\ retries' = [retries EXCEPT ![k] = @ + 1]
         /\ work' = [work EXCEPT ![k] = IF retries[k] + 1 >= 3 THEN "done" ELSE "loop"]

(* The request or the reply is lost, the deadline passes or the server is  *)
(* short of resources: the worker sees a RETRYABLE code either way.        *)
HeartbeatLost(k) ==
    /\ work[k] \in {"request"} \cup Replies
    /\ FailTransiently(k)
    /\ UNCHANGED <<serverVars, sent, stopped, dropped, arrived, held, call>>

(* ... also when the request reaches the server after the deadline.        *)
HeartbeatLate(k) ==
    /\ work[k] = "request"
    /\ FailTransiently(k)
    /\ CountArrival(k)
    /\ UNCHANGED <<serverVars, sent, stopped, dropped, held, call>>

Worker(k) ==
    \/ SendHeartbeat(k) \/ LeaveLoop(k)
    \/ HeartbeatReturned(k) \/ HeartbeatRefused(k) \/ HeartbeatLost(k) \/ HeartbeatLate(k)

-----------------------------------------------------------------------------
(* The client's application: acknowledge_message, renew_message_lease,     *)
(* send_message_heartbeat and stop_heartbeat for a claim it holds.         *)

BeginCall(k, op) ==
    /\ k \in held
    /\ call[k] = <<"idle">>
    /\ call' = [call EXCEPT ![k] = <<op, "request">>]
    /\ UNCHANGED <<serverVars, workerVars, stopped, dropped, arrived, held>>

(* Registry.stop(claim) called by the SDK: only the worker listed under    *)
(* this very claim.                                                        *)
SdkStop(k) ==
    /\ stopped' = stopped \cup {j \in {k} : Listed(j)}
    /\ dropped' = dropped \cup {j \in {k} \ stopped : Listed(j)}

(* The answers after which the SDK stops the heartbeat of the claim: a     *)
(* confirmed ACK, or lost ownership.  A renewal's FAILED_PRECONDITION can  *)
(* be an extension limit and is not among them.                            *)
StopsHeartbeat(op, a) ==
    \/ op = "ack" /\ a = "success"
    \/ op \in {"ack", "beat"} /\ a \in {"NOT_FOUND", "FAILED_PRECONDITION", "PERMISSION_DENIED"}
    \/ op = "renew" /\ a \in {"NOT_FOUND", "PERMISSION_DENIED"}

CallReturns(k) ==
    /\ call[k][1] \in Ops /\ call[k][2] # "request"
    /\ IF StopsHeartbeat(call[k][1], call[k][2]) THEN SdkStop(k) ELSE UNCHANGED <<stopped, dropped>>
    /\ call' = [call EXCEPT ![k] = <<"idle">>]
    /\ UNCHANGED <<serverVars, workerVars, arrived, held>>

(* An error of any other code, or the deadline: the heartbeat is retained. *)
(* The request or its reply may have been lost, or it may yet come.        *)
CallFails(k) ==
    /\ call[k][1] \in Ops
    /\ call' = [call EXCEPT ![k] = <<"idle">>]
    /\ \/ UNCHANGED lateAck
       \/ call[k] = <<"ack", "request">> /\ lateAck' = lateAck \cup {k}
    /\ UNCHANGED <<granted, lease, completed, workerVars, stopped, dropped, arrived, held>>

StopHeartbeat(k) ==
    /\ Listed(k)
    /\ stopped' = stopped \cup {k}
    /\ UNCHANGED <<serverVars, workerVars, dropped, arrived, held, call>>

Application(k) ==
    \/ \E op \in Ops : BeginCall(k, op)
    \/ CallReturns(k) \/ CallFails(k) \/ StopHeartbeat(k)

Server(k) ==
    \/ ServerAnswersAck(k) \/ LateAckArrives(k) \/ ServerAnswersRenew(k)
    \/ ServerAnswersBeat(k) \/ ServerAnswersHeartbeat(k)

Next ==
    \/ GrantLease
    \/ LeaseExpires
    \/ \E k \in Attempts :
          Server(k) \/ ReceiveClaim(k) \/ Worker(k) \/ DurationEnds(k) \/ Application(k)

Spec == Init /\ [][Next]_vars

(* Workers run, and each of their RPCs ends, by an answer or its deadline. *)
FairSpec == Spec /\ \A k \in Attempts : WF_vars(Worker(k))

-----------------------------------------------------------------------------
(* No call's outcome makes the SDK stop the heartbeat of a claim whose     *)
(* lease is active: not when an ACK fails, is refused or times out, not at *)
(* a renewal's extension limit, and not for a stale attempt's error.       *)
NeverAbandonsLease == \A k \in dropped : ~Active(k)

(* While the lease of a claim is active its worker ends only because the   *)
(* application stopped it, at the third retryable failure in a row, at one *)
(* of its limits max_count and max_duration, or at an answer of the server *)
(* with a code that is not retryable and not about the lease.  In          *)
(* particular no lost, late or refused call, and nothing that happened to  *)
(* another attempt, ends it.                                               *)
WorkerOutlivesFailures ==
    [][\A k \in Attempts :
          Active(k) /\ Listed(k) /\ ~Listed(k)' =>
              \/ k \in stopped \ dropped
              \/ retries'[k] = 3
              \/ MaxCount > 0 /\ sent'[k] = MaxCount
              \/ DurationEnds(k)
              \/ work[k] = "INTERNAL"]_vars

(* A worker whose lease is gone - completed by an ACK whose reply was lost,*)
(* expired, reclaimed by another attempt - ends by itself: what the server *)
(* answers ends it, without the help of max_count or max_duration.         *)
StaleWorkersEnd ==
    \A k \in Attempts : (Listed(k) /\ ~Active(k)) ~> ~Listed(k)

(* "heartbeat_max_count: Maximum number of heartbeats to send per message" *)
(* (the docstring of NzovuClient): the server gets no more than that.      *)
HeartbeatsWithinMaxCount ==
    \A k \in Attempts : MaxCount > 0 => arrived[k] <= MaxCount

=============================================================================
