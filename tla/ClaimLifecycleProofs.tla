------------------------ MODULE ClaimLifecycleProofs ------------------------
(***************************************************************************)
(* Proofs about ClaimLifecycle, for any number of attempts and every       *)
(* max_count.                                                              *)
(***************************************************************************)
EXTENDS ClaimLifecycle, TLAPS

-----------------------------------------------------------------------------
(* The stages of an application's RPC.                                     *)

LEMMA StageIdle == <<"idle">> \in CallPCs
BY DEF CallPCs

LEMMA StageOf ==
  ASSUME NEW op \in Ops, NEW a \in Answers(op) \cup {"request"}
  PROVE  <<op, a>> \in CallPCs
BY DEF CallPCs

LEMMA AckStages ==
  /\ <<"ack", "request">> \in CallPCs
  /\ \A a \in {"success", "refused", "FAILED_PRECONDITION", "PERMISSION_DENIED"} : <<"ack", a>> \in CallPCs
BY StageOf DEF Ops, Answers

LEMMA RenewStages ==
  /\ <<"renew", "request">> \in CallPCs
  /\ \A a \in {"success", "FAILED_PRECONDITION", "NOT_FOUND"} : <<"renew", a>> \in CallPCs
BY StageOf DEF Ops, Answers

LEMMA BeatStages ==
  /\ <<"beat", "request">> \in CallPCs
  /\ \A a \in {"success", "FAILED_PRECONDITION"} : <<"beat", a>> \in CallPCs
BY StageOf DEF Ops, Answers

-----------------------------------------------------------------------------
(* Type correctness.                                                       *)

(* A worker is that of a claim the application holds; one that goes on has *)
(* failed fewer than three times in a row, and one with a heartbeat under  *)
(* way has not used up max_count.                                          *)
CountersBounded ==
    \A k \in Attempts :
        /\ work[k] # "none" => k \in held
        /\ work[k] # "done" => retries[k] < 3
        /\ MaxCount > 0 /\ work[k] \in {"request"} \cup Replies => sent[k] < MaxCount

TypeInv == TypeOK /\ CountersBounded

LEMMA TypeInit == Init => TypeInv
<1> SUFFICES ASSUME Init PROVE TypeInv
  OBVIOUS
<1>0. completed \in BOOLEAN
  BY Zenon DEF Init
<1>1. /\ granted \in 0..MaxAttempts /\ lease \in 0..granted
      /\ stopped \subseteq Attempts /\ dropped \subseteq stopped
      /\ held \subseteq 1..granted /\ lateAck \subseteq Attempts
  BY LifecycleAssumption DEF Init
<1>2. /\ work \in [Attempts -> WorkPCs]
      /\ retries \in [Attempts -> 0..3]
      /\ sent \in [Attempts -> 0..MaxCount]
      /\ arrived \in [Attempts -> 0..MaxCount + 1]
  BY LifecycleAssumption DEF Init, WorkPCs
<1>3. call \in [Attempts -> CallPCs]
  BY StageIdle DEF Init
<1>4. CountersBounded
  BY DEF Init, CountersBounded, Replies, NotRetryable
<1> QED
  BY <1>0, <1>1, <1>2, <1>3, <1>4 DEF TypeInv, TypeOK

(* A lost heartbeat is retried, or is the third and ends the worker.       *)
LEMMA FailureStep ==
  ASSUME TypeInv, NEW k \in Attempts, work[k] \in {"request"} \cup Replies,
         FailTransiently(k), UNCHANGED <<held, sent>>
  PROVE  /\ work' \in [Attempts -> WorkPCs]
         /\ retries' \in [Attempts -> 0..3]
         /\ CountersBounded'
<1> USE DEF TypeInv, TypeOK, CountersBounded, WorkPCs, Replies, NotRetryable
<1>1. CASE k \in stopped
  BY <1>1 DEF FailTransiently
<1>2. CASE k \notin stopped
  <2>1. retries[k] \in 0..2
    OBVIOUS
  <2>2. /\ retries' = [retries EXCEPT ![k] = retries[k] + 1]
        /\ work' = [work EXCEPT ![k] = IF retries[k] + 1 >= 3 THEN "done" ELSE "loop"]
    BY <1>2 DEF FailTransiently
  <2>3. \A j \in Attempts : j # k => retries'[j] = retries[j] /\ work'[j] = work[j]
    BY <2>2
  <2>4. /\ retries'[k] = retries[k] + 1
        /\ work'[k] = IF retries[k] + 1 >= 3 THEN "done" ELSE "loop"
    BY <2>2
  <2>5. work' \in [Attempts -> WorkPCs] /\ retries' \in [Attempts -> 0..3]
    BY <2>1, <2>2
  <2> QED
    BY <2>1, <2>3, <2>4, <2>5
<1> QED
  BY <1>1, <1>2

(* A code that no retry helps against is counted and ends the worker.      *)
LEMMA RefusalStep ==
  ASSUME TypeInv, NEW k \in Attempts, HeartbeatRefused(k)
  PROVE  /\ work' \in [Attempts -> WorkPCs]
         /\ retries' \in [Attempts -> 0..3]
         /\ CountersBounded'
<1> USE DEF TypeInv, TypeOK, CountersBounded, WorkPCs, Replies, NotRetryable
<1>1. /\ work' = [work EXCEPT ![k] = "done"]
      /\ UNCHANGED <<sent, arrived, held>>
  BY DEF HeartbeatRefused
<1>2. retries[k] \in 0..2
  BY DEF HeartbeatRefused
<1>3. retries' = retries \/ retries' = [retries EXCEPT ![k] = retries[k] + 1]
  BY DEF HeartbeatRefused
<1>4. /\ retries' \in [Attempts -> 0..3]
      /\ \A j \in Attempts : j # k => retries'[j] = retries[j] /\ work'[j] = work[j]
  BY <1>1, <1>2, <1>3
<1>5. work' \in [Attempts -> WorkPCs] /\ work'[k] = "done"
  BY <1>1
<1> QED
  BY <1>1, <1>2, <1>4, <1>5 DEF HeartbeatRefused

(* An answer of the server leaves every call at one of its stages.         *)
LEMMA AnsweredCalls ==
  ASSUME call \in [Attempts -> CallPCs], NEW k \in Attempts,
         ServerAnswersAck(k) \/ ServerAnswersRenew(k) \/ ServerAnswersBeat(k)
  PROVE  call' \in [Attempts -> CallPCs]
<1>1. CASE ServerAnswersAck(k)
  BY <1>1, AckStages DEF ServerAnswersAck
<1>2. CASE ServerAnswersRenew(k)
  <2>1. PICK a \in {"success", "FAILED_PRECONDITION", "NOT_FOUND"} :
           call' = [call EXCEPT ![k] = <<"renew", a>>]
    BY <1>2 DEF ServerAnswersRenew
  <2>2. <<"renew", a>> \in CallPCs
    BY RenewStages
  <2> QED
    BY <2>1, <2>2
<1>3. CASE ServerAnswersBeat(k)
  BY <1>3, BeatStages DEF ServerAnswersBeat
<1> QED
  BY <1>1, <1>2, <1>3

LEMMA TypeStep == TypeInv /\ [Next]_vars => TypeInv'
<1> SUFFICES ASSUME TypeInv, [Next]_vars PROVE TypeInv'
  OBVIOUS
<1> USE LifecycleAssumption
    DEF TypeInv, TypeOK, CountersBounded, Attempts, WorkPCs, Replies, NotRetryable, serverVars, workerVars
<1>1. CASE GrantLease
  BY <1>1 DEF GrantLease
<1>2. CASE LeaseExpires
  BY <1>2 DEF LeaseExpires
<1>3. ASSUME NEW k \in Attempts, Server(k) PROVE TypeInv'
  <2>1. CASE ServerAnswersAck(k)
    <3>0. completed' \in BOOLEAN
      BY <2>1, Zenon DEF ServerAnswersAck, AckApplied
    <3>1. lease' \in 0..granted
      BY <2>1 DEF ServerAnswersAck, AckApplied
    <3>2. call' \in [Attempts -> CallPCs]
      BY <2>1, AnsweredCalls
    <3> QED
      BY <2>1, <3>0, <3>1, <3>2 DEF ServerAnswersAck
  <2>2. CASE LateAckArrives(k)
    <3>0. completed' \in BOOLEAN
      BY <2>2, Zenon DEF LateAckArrives, AckApplied
    <3>1. lease' \in 0..granted
      BY <2>2 DEF LateAckArrives, AckApplied
    <3> QED
      BY <2>2, <3>0, <3>1 DEF LateAckArrives
  <2>3. CASE ServerAnswersRenew(k)
    <3>1. call' \in [Attempts -> CallPCs]
      BY <2>3, AnsweredCalls
    <3> QED
      BY <2>3, <3>1 DEF ServerAnswersRenew
  <2>4. CASE ServerAnswersBeat(k)
    BY <2>4, AnsweredCalls DEF ServerAnswersBeat
  <2>5. CASE ServerAnswersHeartbeat(k)
    <3>1. work' \in [Attempts -> WorkPCs]
      BY <2>5 DEF ServerAnswersHeartbeat
    <3>2. arrived' \in [Attempts -> 0..MaxCount + 1]
      BY <2>5 DEF ServerAnswersHeartbeat, CountArrival
    <3>3. CountersBounded'
      BY <2>5 DEF ServerAnswersHeartbeat
    <3> QED
      BY <2>5, <3>1, <3>2, <3>3 DEF ServerAnswersHeartbeat
  <2> QED
    BY <1>3, <2>1, <2>2, <2>3, <2>4, <2>5 DEF Server
<1>4. ASSUME NEW k \in Attempts, ReceiveClaim(k) PROVE TypeInv'
  <2>1. held' \subseteq 1..granted /\ granted' = granted
    BY <1>4 DEF ReceiveClaim
  <2>2. work' \in [Attempts -> WorkPCs]
    BY <1>4 DEF ReceiveClaim
  <2>3. CountersBounded'
    BY <1>4 DEF ReceiveClaim
  <2> QED
    BY <1>4, <2>1, <2>2, <2>3 DEF ReceiveClaim
<1>5. ASSUME NEW k \in Attempts, Worker(k) \/ DurationEnds(k) PROVE TypeInv'
  <2>1. UNCHANGED <<serverVars, stopped, dropped, held, call>>
    BY <1>5 DEF Worker, DurationEnds, SendHeartbeat, LeaveLoop, HeartbeatReturned,
          HeartbeatRefused, HeartbeatLost, HeartbeatLate
  <2>2. CASE SendHeartbeat(k) \/ LeaveLoop(k) \/ DurationEnds(k)
    BY <2>1, <2>2 DEF SendHeartbeat, LeaveLoop, DurationEnds
  <2>3. CASE HeartbeatReturned(k)
    <3>1. work' \in [Attempts -> WorkPCs]
      BY <2>3 DEF HeartbeatReturned
    <3>2. retries' \in [Attempts -> 0..3] /\ sent' \in [Attempts -> 0..MaxCount]
      BY <2>3 DEF HeartbeatReturned
    <3>3. arrived' \in [Attempts -> 0..MaxCount + 1]
      BY <2>3 DEF HeartbeatReturned
    <3>4. CountersBounded'
      BY <2>3 DEF HeartbeatReturned
    <3> QED
      BY <2>1, <3>1, <3>2, <3>3, <3>4
  <2>4. CASE HeartbeatRefused(k)
    BY <2>1, <2>4, RefusalStep DEF HeartbeatRefused
  <2>5. CASE HeartbeatLost(k)
    BY <2>1, <2>5, FailureStep DEF HeartbeatLost
  <2>6. CASE HeartbeatLate(k)
    <3>1. arrived' \in [Attempts -> 0..MaxCount + 1]
      BY <2>6 DEF HeartbeatLate, CountArrival
    <3> QED
      BY <2>1, <2>6, <3>1, FailureStep DEF HeartbeatLate
  <2> QED
    BY <1>5, <2>2, <2>3, <2>4, <2>5, <2>6 DEF Worker
<1>6. ASSUME NEW k \in Attempts, Application(k) PROVE TypeInv'
  <2>1. ASSUME NEW op \in Ops, BeginCall(k, op) PROVE TypeInv'
    BY <2>1, StageOf DEF BeginCall
  <2>2. CASE CallReturns(k)
    BY <2>2, StageIdle DEF CallReturns, SdkStop
  <2>3. CASE CallFails(k)
    BY <2>3, StageIdle DEF CallFails
  <2>4. CASE StopHeartbeat(k)
    BY <2>4 DEF StopHeartbeat
  <2> QED
    BY <1>6, <2>1, <2>2, <2>3, <2>4 DEF Application
<1>7. CASE UNCHANGED vars
  BY <1>7 DEF vars
<1> QED
  BY <1>1, <1>2, <1>3, <1>4, <1>5, <1>6, <1>7 DEF Next

(* Every variable keeps its type; in particular a worker never fails more  *)
(* than three times in a row, nor counts more than max_count heartbeats.   *)
THEOREM TypeCorrect == Spec => []TypeOK
<1>1. TypeInv => TypeOK
  BY DEF TypeInv
<1> QED
  BY TypeInit, TypeStep, <1>1, PTL DEF Spec

-----------------------------------------------------------------------------
(* What an answer says of the lease.                                       *)

(* The lease of attempt k was granted, and is active no more; as the next  *)
(* lease is that of a later attempt, this lasts.                           *)
Over(k) == k <= granted /\ ~Active(k)

(* A call stage that makes the SDK stop the heartbeat of its claim.        *)
Stopping(stage) ==
    \E op \in Ops : \E a \in Answers(op) : stage = <<op, a>> /\ StopsHeartbeat(op, a)

(* An answer that makes the SDK stop a heartbeat, or a worker end, is given*)
(* only when the lease is over.                                            *)
AnswersAreTrue ==
    \A k \in Attempts :
        /\ call[k] # <<"idle">> => k \in held
        /\ Stopping(call[k]) => Over(k)
        /\ work[k] \in {"COMPLETED", "FAILED_PRECONDITION"} => Over(k)
        /\ k \in dropped => Over(k)

LEMMA HarmlessStages ==
  /\ ~Stopping(<<"idle">>)
  /\ \A op \in Ops : ~Stopping(<<op, "request">>)
  /\ ~Stopping(<<"ack", "refused">>)
  /\ ~Stopping(<<"renew", "success">>)
  /\ ~Stopping(<<"renew", "FAILED_PRECONDITION">>)
  /\ ~Stopping(<<"beat", "success">>)
<1>1. ~Stopping(<<"idle">>)
  BY DEF Stopping
<1>2. ASSUME NEW op \in Ops, NEW a, ~StopsHeartbeat(op, a) PROVE ~Stopping(<<op, a>>)
  BY <1>2 DEF Stopping
<1> QED
  BY <1>1, <1>2 DEF Ops, StopsHeartbeat

LEMMA StoppingStage ==
  ASSUME NEW stage \in CallPCs, stage[1] \in Ops, stage[2] # "request",
         StopsHeartbeat(stage[1], stage[2])
  PROVE  Stopping(stage)
<1>1. stage # <<"idle">>
  <2> SUFFICES ASSUME stage = <<"idle">> PROVE FALSE
    OBVIOUS
  <2>1. stage[1] = "idle"
    OBVIOUS
  <2> QED
    BY <2>1 DEF Ops
<1>2. PICK op \in Ops : \E a \in Answers(op) \cup {"request"} : stage = <<op, a>>
  BY <1>1 DEF CallPCs
<1>3. PICK a \in Answers(op) \cup {"request"} : stage = <<op, a>>
  BY <1>2
<1> QED
  BY <1>3 DEF Stopping

LEMMA OverLasts ==
  ASSUME TypeInv, [Next]_vars, NEW k \in Attempts, Over(k)
  PROVE  Over(k)'
<1> USE LifecycleAssumption DEF TypeInv, TypeOK, Attempts, Over, Active, serverVars
<1>1. CASE GrantLease
  BY <1>1 DEF GrantLease
<1>2. CASE LeaseExpires
  BY <1>2 DEF LeaseExpires
<1>3. ASSUME NEW j \in Attempts, Server(j) PROVE Over(k)'
  BY <1>3 DEF Server, ServerAnswersAck, LateAckArrives, AckApplied, ServerAnswersRenew,
        ServerAnswersBeat, ServerAnswersHeartbeat
<1>4. ASSUME NEW j \in Attempts, ReceiveClaim(j) \/ Worker(j) \/ DurationEnds(j) \/ Application(j)
      PROVE  Over(k)'
  BY <1>4 DEF ReceiveClaim, Worker, DurationEnds, SendHeartbeat, LeaveLoop,
        HeartbeatReturned, HeartbeatRefused, HeartbeatLost, HeartbeatLate, Application,
        BeginCall, CallReturns, CallFails, StopHeartbeat
<1>5. CASE UNCHANGED vars
  BY <1>5 DEF vars
<1> QED
  BY <1>1, <1>2, <1>3, <1>4, <1>5 DEF Next

LEMMA AnswersInit == Init => AnswersAreTrue
BY HarmlessStages DEF Init, AnswersAreTrue

LEMMA AnswersStep == TypeInv /\ AnswersAreTrue /\ [Next]_vars => AnswersAreTrue'
<1> SUFFICES ASSUME TypeInv, AnswersAreTrue, [Next]_vars, NEW j \in Attempts
             PROVE  /\ call'[j] # <<"idle">> => j \in held'
                    /\ Stopping(call'[j]) => Over(j)'
                    /\ work'[j] \in {"COMPLETED", "FAILED_PRECONDITION"} => Over(j)'
                    /\ j \in dropped' => Over(j)'
  BY DEF AnswersAreTrue
<1> DEFINE Goal ==
      /\ call'[j] # <<"idle">> => j \in held'
      /\ Stopping(call'[j]) => Over(j)'
      /\ work'[j] \in {"COMPLETED", "FAILED_PRECONDITION"} => Over(j)'
      /\ j \in dropped' => Over(j)'
<1>1. /\ call[j] # <<"idle">> \/ work[j] # "none" => j \in held
      /\ Stopping(call[j]) => Over(j)'
      /\ work[j] \in {"COMPLETED", "FAILED_PRECONDITION"} => Over(j)'
      /\ j \in dropped => Over(j)'
  BY OverLasts DEF AnswersAreTrue, TypeInv, CountersBounded
<1>2. j \in held => j <= granted
  BY DEF TypeInv, TypeOK, Attempts
<1>3. /\ call \in [Attempts -> CallPCs] /\ work \in [Attempts -> WorkPCs]
      /\ lease \in Int /\ granted \in Int /\ j \in Nat /\ j # 0
  BY LifecycleAssumption DEF TypeInv, TypeOK, Attempts
<1> HIDE DEF Goal
<1>4. ASSUME UNCHANGED <<held, call, work, dropped>> PROVE Goal
  BY <1>1, <1>4 DEF Goal
<1>5. ASSUME NEW k \in Attempts, Server(k) PROVE Goal
  <2>1. CASE ServerAnswersAck(k)
    <3>1. UNCHANGED <<granted, held, work, dropped>> /\ call[k] = <<"ack", "request">>
      BY <2>1 DEF ServerAnswersAck, workerVars
    <3>2. CASE j # k
      <4>1. call'[j] = call[j]
        BY <2>1, <1>3, <3>2 DEF ServerAnswersAck
      <4> QED
        BY <1>1, <3>1, <4>1 DEF Goal
    <3>3. CASE j = k
      <4>1. j \in held
        BY <1>1, <3>1, <3>3
      <4>2. \/ lease' = 0
            \/ call'[j] = <<"ack", "refused">>
            \/ lease' = lease /\ ~Active(j)
        BY <2>1, <1>3, <3>3 DEF ServerAnswersAck, AckApplied
      <4>3. Stopping(call'[j]) => Over(j)'
        BY <1>2, <1>3, <3>1, <4>1, <4>2, HarmlessStages DEF Over, Active
      <4> QED
        BY <1>1, <3>1, <4>1, <4>3 DEF Goal
    <3> QED
      BY <3>2, <3>3
  <2>2. CASE LateAckArrives(k)
    BY <1>4, <2>2 DEF LateAckArrives, workerVars
  <2>3. CASE ServerAnswersRenew(k) \/ ServerAnswersBeat(k)
    <3>1. /\ UNCHANGED <<granted, lease, held, work, dropped>>
          /\ call[k] = <<"renew", "request">> \/ call[k] = <<"beat", "request">>
      BY <2>3 DEF ServerAnswersRenew, ServerAnswersBeat, workerVars, serverVars
    <3>2. CASE j # k
      <4>1. call'[j] = call[j]
        BY <2>3, <1>3, <3>2 DEF ServerAnswersRenew, ServerAnswersBeat
      <4> QED
        BY <1>1, <3>1, <4>1 DEF Goal
    <3>3. CASE j = k
      <4>1. j \in held
        BY <1>1, <3>1, <3>3
      <4>2. \/ call'[j] \in {<<"renew", "success">>, <<"renew", "FAILED_PRECONDITION">>,
                             <<"beat", "success">>}
            \/ ~Active(j)
        BY <2>3, <1>3, <3>3 DEF ServerAnswersRenew, ServerAnswersBeat
      <4>3. Stopping(call'[j]) => Over(j)'
        BY <1>2, <1>3, <3>1, <4>1, <4>2, HarmlessStages DEF Over, Active
      <4> QED
        BY <1>1, <3>1, <4>1, <4>3 DEF Goal
    <3> QED
      BY <3>2, <3>3
  <2>4. CASE ServerAnswersHeartbeat(k)
    <3>1. UNCHANGED <<granted, lease, held, call, dropped>> /\ work[k] = "request"
      BY <2>4 DEF ServerAnswersHeartbeat, serverVars
    <3>2. work'[j] = work[j] \/ (j = k /\ (work'[j] \in {"RUNNING", "INTERNAL"} \/ ~Active(j)))
      BY <2>4, <1>3 DEF ServerAnswersHeartbeat
    <3> QED
      BY <1>1, <1>2, <3>1, <3>2 DEF Goal, Over, Active
  <2> QED
    BY <1>5, <2>1, <2>2, <2>3, <2>4 DEF Server
<1>6. ASSUME NEW k \in Attempts, ReceiveClaim(k) PROVE Goal
  <2>1. /\ held \subseteq held' /\ UNCHANGED <<call, dropped>>
        /\ work'[j] \in {work[j], "none", "loop"}
    BY <1>3, <1>6 DEF ReceiveClaim
  <2> QED
    BY <1>1, <2>1 DEF Goal
<1>7. ASSUME NEW k \in Attempts, Worker(k) \/ DurationEnds(k) PROVE Goal
  <2>1. /\ UNCHANGED <<held, call, dropped>>
        /\ work'[j] \in {work[j], "request", "loop", "done"}
    BY <1>3, <1>7 DEF Worker, DurationEnds, SendHeartbeat, LeaveLoop, HeartbeatReturned,
          HeartbeatRefused, HeartbeatLost, HeartbeatLate, FailTransiently
  <2> QED
    BY <1>1, <2>1 DEF Goal
<1>8. ASSUME NEW k \in Attempts, Application(k) PROVE Goal
  <2>1. ASSUME NEW op \in Ops, BeginCall(k, op) PROVE Goal
    <3>1. /\ UNCHANGED <<held, work, dropped>> /\ k \in held
          /\ call'[j] = call[j] \/ (j = k /\ call'[j] = <<op, "request">>)
      BY <2>1, <1>3 DEF BeginCall, workerVars
    <3> QED
      BY <1>1, <3>1, HarmlessStages DEF Goal
  <2>2. CASE CallReturns(k)
    <3>1. /\ UNCHANGED <<held, work>>
          /\ call'[j] = call[j] \/ call'[j] = <<"idle">>
      BY <2>2, <1>3 DEF CallReturns, workerVars
    <3>2. j \in dropped' \ dropped => j = k /\ Stopping(call[j])
      BY <2>2, <1>3, StoppingStage DEF CallReturns, SdkStop
    <3> QED
      BY <1>1, <3>1, <3>2, HarmlessStages DEF Goal
  <2>3. CASE CallFails(k)
    <3>1. /\ UNCHANGED <<held, work, dropped>>
          /\ call'[j] = call[j] \/ call'[j] = <<"idle">>
      BY <2>3, <1>3 DEF CallFails, workerVars
    <3> QED
      BY <1>1, <3>1, HarmlessStages DEF Goal
  <2>4. CASE StopHeartbeat(k)
    BY <1>4, <2>4 DEF StopHeartbeat, workerVars
  <2> QED
    BY <1>8, <2>1, <2>2, <2>3, <2>4 DEF Application
<1>9. CASE GrantLease \/ LeaseExpires \/ UNCHANGED vars
  <2>1. UNCHANGED <<held, call, work, dropped>>
    BY <1>9 DEF GrantLease, LeaseExpires, vars, workerVars
  <2> QED
    BY <1>4, <2>1 DEF Goal
<1> QED
  BY <1>5, <1>6, <1>7, <1>8, <1>9 DEF Next, Goal

LEMMA AnswersInvariant == Spec => [](TypeInv /\ AnswersAreTrue)
BY TypeInit, TypeStep, AnswersInit, AnswersStep, PTL DEF Spec

(* No call's outcome makes the SDK stop the heartbeat of a claim whose     *)
(* lease is active, however many attempts there are and whatever is lost.  *)
THEOREM LeaseNeverAbandoned == Spec => []NeverAbandonsLease
<1>1. TypeInv /\ AnswersAreTrue => NeverAbandonsLease
  BY DEF TypeInv, TypeOK, AnswersAreTrue, NeverAbandonsLease, Over
<1> QED
  BY <1>1, AnswersInvariant, PTL

-----------------------------------------------------------------------------
(* Why a worker ends.                                                      *)

(* A step after which the worker of claim k is no longer listed, although  *)
(* its lease was active, has one of the permitted reasons.                 *)
EndsForCause(k) ==
    Active(k) /\ Listed(k) /\ ~Listed(k)' =>
        \/ k \in stopped \ dropped
        \/ retries'[k] = 3
        \/ MaxCount > 0 /\ sent'[k] = MaxCount
        \/ DurationEnds(k)
        \/ work[k] = "INTERNAL"

LEMMA EndStep ==
  ASSUME TypeInv, AnswersAreTrue, [Next]_vars, NEW k \in Attempts
  PROVE  EndsForCause(k)
<1>0. /\ work \in [Attempts -> WorkPCs] /\ retries[k] \in 0..3 /\ sent[k] \in 0..MaxCount
      /\ MaxCount \in Nat
      /\ retries \in [Attempts -> 0..3] /\ sent \in [Attempts -> 0..MaxCount]
  BY LifecycleAssumption DEF TypeInv, TypeOK
<1>1. ASSUME work'[k] = work[k] PROVE EndsForCause(k)
  BY <1>1 DEF EndsForCause, Listed
<1>9. Active(k) /\ k \in stopped => k \in stopped \ dropped
  BY DEF AnswersAreTrue, Over
<1>2. ASSUME NEW j \in Attempts, Server(j) PROVE EndsForCause(k)
  <2>1. work'[k] = work[k] \/ work'[k] \in Replies
    BY <1>0, <1>2 DEF Server, ServerAnswersAck, LateAckArrives, ServerAnswersRenew,
          ServerAnswersBeat, ServerAnswersHeartbeat, Replies, NotRetryable, workerVars
  <2> QED
    BY <1>1, <2>1 DEF EndsForCause, Listed, Replies, NotRetryable
<1>3. ASSUME NEW j \in Attempts, ReceiveClaim(j) PROVE EndsForCause(k)
  <2>1. CASE j = k
    BY <1>3, <2>1 DEF ReceiveClaim, EndsForCause, Listed, TypeInv, CountersBounded
  <2>2. CASE j # k
    <3>1. work'[k] = work[k]
      BY <1>0, <1>3, <2>2 DEF ReceiveClaim
    <3> QED
      BY <1>1, <3>1
  <2> QED
    BY <2>1, <2>2
<1>4. ASSUME NEW j \in Attempts, Worker(j) \/ DurationEnds(j) PROVE EndsForCause(k)
  <2>1. CASE j # k
    <3>1. work'[k] = work[k]
      BY <1>0, <1>4, <2>1 DEF Worker, DurationEnds, SendHeartbeat, LeaveLoop, HeartbeatReturned,
            HeartbeatRefused, HeartbeatLost, HeartbeatLate, FailTransiently
    <3> QED
      BY <1>1, <3>1
  <2>2. CASE j = k
    <3>1. CASE SendHeartbeat(k)
      BY <1>0, <3>1 DEF SendHeartbeat, EndsForCause, Listed
    <3>2. CASE LeaveLoop(k)
      BY <1>0, <1>9, <3>2 DEF LeaveLoop, EndsForCause, workerVars
    <3>3. CASE HeartbeatReturned(k) \/ HeartbeatRefused(k)
      <4>1. work[k] \in {"RUNNING", "INTERNAL"} \/ ~Active(k)
        BY <3>3 DEF HeartbeatReturned, HeartbeatRefused, AnswersAreTrue, Over, NotRetryable
      <4>2. work[k] = "RUNNING" => work'[k] = "loop"
        BY <1>0, <3>3 DEF HeartbeatReturned, HeartbeatRefused, NotRetryable
      <4> QED
        BY <4>1, <4>2 DEF EndsForCause, Listed
    <3>4. CASE HeartbeatLost(k) \/ HeartbeatLate(k)
      <4>1. FailTransiently(k) /\ work[k] # "done"
        BY <3>4 DEF HeartbeatLost, HeartbeatLate, Replies, NotRetryable
      <4>2. CASE k \in stopped
        BY <1>9, <4>2 DEF EndsForCause
      <4>3. CASE k \notin stopped
        <5>1. retries[k] \in 0..2
          BY <1>0, <4>1 DEF TypeInv, CountersBounded
        <5>2. /\ retries'[k] = retries[k] + 1
              /\ work'[k] = IF retries[k] + 1 >= 3 THEN "done" ELSE "loop"
          BY <1>0, <4>1, <4>3 DEF FailTransiently
        <5> QED
          BY <5>1, <5>2 DEF EndsForCause, Listed
      <4> QED
        BY <4>2, <4>3
    <3>5. CASE DurationEnds(k)
      BY <3>5 DEF EndsForCause
    <3> QED
      BY <1>4, <2>2, <3>1, <3>2, <3>3, <3>4, <3>5 DEF Worker
  <2> QED
    BY <2>1, <2>2
<1>5. ASSUME NEW j \in Attempts, Application(j) PROVE EndsForCause(k)
  BY <1>1, <1>5 DEF Application, BeginCall, CallReturns, CallFails, StopHeartbeat, workerVars
<1>6. CASE GrantLease \/ LeaseExpires \/ UNCHANGED vars
  BY <1>1, <1>6 DEF GrantLease, LeaseExpires, vars, workerVars
<1> QED
  BY <1>2, <1>3, <1>4, <1>5, <1>6 DEF Next

(* While the lease of a claim is active its worker ends only because the   *)
(* application stopped it, at the third retryable failure in a row, at one *)
(* of its limits, or at an answer with a code that is neither retryable nor*)
(* about the lease.                                                        *)
THEOREM WorkerEndsForCause == Spec => WorkerOutlivesFailures
<1>1. TypeInv /\ AnswersAreTrue /\ [Next]_vars => [\A k \in Attempts : EndsForCause(k)]_vars
  BY EndStep
<1> QED
  BY <1>1, AnswersInvariant, PTL DEF Spec, WorkerOutlivesFailures, EndsForCause

-----------------------------------------------------------------------------
(* Why a stale worker ends.                                                *)

(* An upper bound of the steps that the worker of claim k can still take   *)
(* once its lease is gone.  An answer RUNNING that was given before, and is*)
(* still under way, gives it three more failures; no other answer does.    *)
StepsLeft(k) ==
    CASE work[k] = "RUNNING" -> 10
      [] work[k] = "loop" -> 3 * (3 - retries[k])
      [] work[k] = "request" -> 3 * (3 - retries[k]) - 1
      [] work[k] \in {"COMPLETED"} \cup NotRetryable -> 3 * (3 - retries[k]) - 2
      [] OTHER -> 0

RunsOut(k) ==
    Listed(k) /\ ~Active(k) =>
        /\ ~Active(k)'
        /\ StepsLeft(k)' < StepsLeft(k) \/ UNCHANGED <<work[k], StepsLeft(k)>>

LEMMA RunsOutStep ==
  ASSUME TypeInv, [Next]_vars, NEW k \in Attempts
  PROVE  RunsOut(k)
<1>0. work'[k] = work[k] => retries'[k] = retries[k]
  <2>1. ASSUME NEW j \in Attempts, Worker(j) \/ DurationEnds(j), work'[k] = work[k]
        PROVE  retries'[k] = retries[k]
    <3>1. CASE j = k
      BY <2>1, <3>1 DEF Worker, DurationEnds, SendHeartbeat, LeaveLoop, HeartbeatReturned,
            HeartbeatRefused, HeartbeatLost, HeartbeatLate, FailTransiently, Listed,
            TypeInv, TypeOK, Replies, NotRetryable
    <3>2. CASE j # k
      BY <2>1, <3>2 DEF Worker, DurationEnds, SendHeartbeat, LeaveLoop, HeartbeatReturned,
            HeartbeatRefused, HeartbeatLost, HeartbeatLate, FailTransiently, TypeInv, TypeOK
    <3> QED
      BY <3>1, <3>2
  <2>2. ASSUME NEW j \in Attempts, Server(j) \/ Application(j) \/ ReceiveClaim(j)
        PROVE  UNCHANGED retries
    BY <2>2 DEF Server, ServerAnswersAck, LateAckArrives, ServerAnswersRenew, ServerAnswersBeat,
          ServerAnswersHeartbeat, Application, BeginCall, CallReturns, CallFails, StopHeartbeat,
          ReceiveClaim, workerVars
  <2>3. GrantLease \/ LeaseExpires \/ UNCHANGED vars => UNCHANGED retries
    BY DEF GrantLease, LeaseExpires, workerVars, vars
  <2> QED
    BY <2>1, <2>2, <2>3 DEF Next
<1> SUFFICES ASSUME Listed(k), ~Active(k), work'[k] # work[k]
             PROVE  StepsLeft(k)' < StepsLeft(k)
  <2>1. Listed(k) /\ ~Active(k) => Over(k)
    BY LifecycleAssumption DEF TypeInv, TypeOK, CountersBounded, Listed, Over, Attempts
  <2>2. Over(k) => ~Active(k)'
    BY OverLasts DEF Over
  <2>3. work'[k] = work[k] => UNCHANGED <<work[k], StepsLeft(k)>>
    BY <1>0 DEF StepsLeft
  <2> QED
    BY <2>1, <2>2, <2>3 DEF RunsOut
<1>1. /\ work \in [Attempts -> WorkPCs] /\ retries \in [Attempts -> 0..3]
      /\ retries[k] \in 0..2 /\ work[k] \in {"loop", "request"} \cup Replies
  BY DEF TypeInv, TypeOK, CountersBounded, Listed, WorkPCs
<1> USE <1>1 DEF StepsLeft, Replies, NotRetryable
<1>2. ASSUME NEW j \in Attempts, Server(j) PROVE StepsLeft(k)' < StepsLeft(k)
  <2>1. ServerAnswersHeartbeat(j) /\ j = k
    BY <1>2 DEF Server, ServerAnswersAck, LateAckArrives, ServerAnswersRenew,
          ServerAnswersBeat, ServerAnswersHeartbeat, workerVars
  <2>2. work[k] = "request" /\ work'[k] \in {"COMPLETED"} \cup NotRetryable /\ retries' = retries
    BY <2>1 DEF ServerAnswersHeartbeat
  <2> QED
    BY <2>2
<1>3. ASSUME NEW j \in Attempts, ReceiveClaim(j) PROVE StepsLeft(k)' < StepsLeft(k)
  <2>1. j = k
    BY <1>3 DEF ReceiveClaim
  <2> QED
    BY <1>3, <2>1 DEF ReceiveClaim, Listed, TypeInv, CountersBounded
<1>4. ASSUME NEW j \in Attempts, Worker(j) \/ DurationEnds(j) PROVE StepsLeft(k)' < StepsLeft(k)
  <2>1. j = k
    BY <1>4 DEF Worker, DurationEnds, SendHeartbeat, LeaveLoop, HeartbeatReturned,
          HeartbeatRefused, HeartbeatLost, HeartbeatLate, FailTransiently
  <2>2. CASE SendHeartbeat(k)
    BY <2>2 DEF SendHeartbeat
  <2>3. CASE LeaveLoop(k) \/ DurationEnds(k)
    BY <2>3 DEF LeaveLoop, DurationEnds
  <2>4. CASE HeartbeatReturned(k)
    BY <2>4 DEF HeartbeatReturned
  <2>5. CASE HeartbeatRefused(k)
    BY <2>5 DEF HeartbeatRefused
  <2>6. CASE FailTransiently(k) /\ work[k] # "loop"
    BY <2>6 DEF FailTransiently
  <2> QED
    BY <1>4, <2>1, <2>2, <2>3, <2>4, <2>5, <2>6 DEF Worker, HeartbeatLost, HeartbeatLate
<1>5. ~GrantLease /\ ~LeaseExpires /\ ~UNCHANGED vars /\ \A j \in Attempts : ~Application(j)
  BY DEF GrantLease, LeaseExpires, Application, BeginCall, CallReturns, CallFails,
         StopHeartbeat, workerVars, vars
<1> QED
  BY <1>2, <1>3, <1>4, <1>5 DEF Next

(* The reason why StaleWorkersEnd: once the lease of a claim is gone it    *)
(* stays gone, and of its worker's steps, however requests and replies are *)
(* lost or late, each leaves fewer than before; ten at the most, which is  *)
(* three heartbeats.                                                       *)
THEOREM StaleWorkersRunOut ==
    Spec => /\ [](\A k \in Attempts : StepsLeft(k) \in 0..10)
            /\ [][\A k \in Attempts : RunsOut(k)]_vars
<1>1. TypeInv => \A k \in Attempts : StepsLeft(k) \in 0..10
  <2> SUFFICES ASSUME TypeInv, NEW k \in Attempts PROVE StepsLeft(k) \in 0..10
    OBVIOUS
  <2>1. work[k] \in WorkPCs /\ (work[k] # "done" => retries[k] \in 0..2)
    BY DEF TypeInv, TypeOK, CountersBounded
  <2> QED
    BY <2>1 DEF StepsLeft, WorkPCs, Replies, NotRetryable
<1>2. TypeInv /\ [Next]_vars => [\A k \in Attempts : RunsOut(k)]_vars
  BY RunsOutStep
<1> QED
  BY <1>1, <1>2, TypeInit, TypeStep, PTL DEF Spec

=============================================================================
