------------------------- MODULE StoreWorkersProofs -------------------------
(***************************************************************************)
(* Proofs about StoreWorkers, for any number of replicas, workers, carts   *)
(* and attempts, and any number of outages and late requests.              *)
(***************************************************************************)
EXTENDS StoreWorkers, FiniteSetTheorems, TLAPS

-----------------------------------------------------------------------------
(* The pieces of a step.                                                   *)

LEMMA MessageParts ==
  ASSUME NEW m \in Messages
  PROVE  /\ m[1] \in Queues /\ m[2] \in Carts /\ m[3] \in Suffixes
         /\ m = <<m[1], m[2], m[3]>>
BY DEF Messages

LEMMA MessageMade ==
  ASSUME NEW q \in Queues, NEW c \in Carts
  PROVE  <<q, c, 0>> \in Messages
BY StoreAssumption DEF Messages, Suffixes

LEMMA ClaimParts ==
  ASSUME NEW k \in Claims
  PROVE  k.message \in Messages /\ k.attempt \in 1..MaxAttempts /\ CheckoutMessage(k) \in Messages
<1>1. k.message \in Messages /\ k.attempt \in 1..MaxAttempts
  BY DEF Claims
<1>2. k.message[2] \in Carts
  BY <1>1, MessageParts
<1> QED
  BY <1>1, <1>2, MessageMade DEF CheckoutMessage, Queues

LEMMA StoreMessageTyped ==
  ASSUME NEW c \in Carts
  PROVE  StoreMessage(c) \in Messages
BY MessageMade DEF StoreMessage, Queues

LEMMA WorkerParts ==
  ASSUME NEW w \in Workers
  PROVE  w[1] \in Replicas /\ w[2] \in Queues
BY StoreAssumption

TaskOK ==
    /\ pc \in [Workers -> {"ended", "polling"} \cup Calling \cup Processing]
    /\ claim \in [Workers -> Claims \cup {NoClaim}]
    /\ \A w \in Workers : pc[w] \in Processing => claim[w] \in Claims

(* Task sets the two variables of one worker.                              *)
LEMMA IdleTyped ==
  ASSUME TypeOK, NEW w \in Workers, NEW p \in {"ended", "polling", "claiming"}, Task(w, p, NoClaim)
  PROVE  TaskOK'
<1>1. pc' \in [Workers -> {"ended", "polling"} \cup Calling \cup Processing]
  BY DEF Task, TypeOK, Processing, Calling
<1>2. claim' \in [Workers -> Claims \cup {NoClaim}]
  BY DEF Task, TypeOK
<1>3. ASSUME NEW v \in Workers, pc'[v] \in Processing PROVE claim'[v] \in Claims
  BY <1>3 DEF Task, TypeOK, Processing
<1> QED
  BY <1>1, <1>2, <1>3 DEF TaskOK

LEMMA BusyTyped ==
  ASSUME TypeOK, NEW w \in Workers, NEW p \in Processing, NEW k \in Claims, Task(w, p, k)
  PROVE  TaskOK'
<1>1. pc' \in [Workers -> {"ended", "polling"} \cup Calling \cup Processing]
  BY DEF Task, TypeOK
<1>2. claim' \in [Workers -> Claims \cup {NoClaim}]
  BY DEF Task, TypeOK
<1>3. ASSUME NEW v \in Workers, pc'[v] \in Processing PROVE claim'[v] \in Claims
  BY <1>3 DEF Task, TypeOK
<1> QED
  BY <1>1, <1>2, <1>3 DEF TaskOK

LEMMA LeaveTyped ==
  ASSUME TypeOK, NEW w \in Workers, Leave(w)
  PROVE  TaskOK'
<1>1. CASE w \in cancelled
  BY <1>1, IdleTyped DEF Leave
<1>2. CASE w \notin cancelled
  BY <1>2, IdleTyped DEF Leave
<1> QED
  BY <1>1, <1>2

LEMMA FailTyped ==
  ASSUME TypeOK, NEW w \in Workers, pc[w] \in Processing, Fail(w)
  PROVE  TaskOK'
<1>1. claim[w] \in Claims
  BY DEF TypeOK
<1> QED
  BY <1>1, BusyTyped DEF Fail, Processing

LEMMA GrantedTyped ==
  ASSUME TypeOK, NEW m \in Messages, Granted(m)
  PROVE  /\ status' \in [Messages -> Statuses] /\ attempts' \in [Messages -> 0..MaxAttempts]
         /\ [message |-> m, attempt |-> attempts[m] + 1] \in Claims
<1>1. attempts[m] \in 0..MaxAttempts /\ attempts[m] + 1 \in 1..MaxAttempts
  BY StoreAssumption DEF Granted, TypeOK
<1>2. status' \in [Messages -> Statuses]
  BY DEF Granted, TypeOK, Statuses
<1>3. attempts' \in [Messages -> 0..MaxAttempts]
  BY <1>1 DEF Granted, TypeOK
<1> QED
  BY <1>1, <1>2, <1>3 DEF Claims

LEMMA PostedTyped ==
  ASSUME TypeOK, NEW m \in Messages, Posted(m)
  PROVE  status' \in [Messages -> Statuses]
BY DEF Posted, TypeOK, Statuses

LEMMA AppliedTyped ==
  ASSUME TypeOK, NEW k \in Claims, NEW op, Applied(op, k)
  PROVE  status' \in [Messages -> Statuses]
<1>1. CASE Posted(CheckoutMessage(k))
  BY <1>1, ClaimParts, PostedTyped
<1>2. CASE Completed(k)
  BY <1>2 DEF Completed, TypeOK, Statuses, Settled
<1> QED
  BY <1>1, <1>2 DEF Applied

LEMMA DelayedTyped ==
  ASSUME TypeOK, NEW ws \in SUBSET Workers, Delayed(ws)
  PROVE  late' \subseteq Requests
<1> PICK w \in ws :
      /\ pc[w] \in {"forwarding", "acknowledging"}
      /\ late' = late \cup {[op |-> pc[w], claim |-> claim[w]]}
  BY DEF Delayed
<1>1. claim[w] \in Claims
  BY DEF TypeOK, Processing
<1> QED
  BY <1>1 DEF TypeOK, Requests

-----------------------------------------------------------------------------
(* Type correctness.                                                       *)

LEMMA TypeInit == Init => TypeOK
BY StoreAssumption DEF Init, TypeOK, Statuses, Processing, Calling

LEMMA StepTyped ==
  ASSUME TypeOK, NEW w \in Workers, Step(w)
  PROVE  TypeOK'
<1> USE DEF serverVars, lifeVars, taskVars
<1>1. CASE Poll(w)
  <2>1. CASE phase[w[1]] = "serving" /\ w \notin cancelled
    <3>1. TaskOK'
      BY <1>1, <2>1, IdleTyped DEF Poll
    <3> QED
      BY <1>1, <3>1 DEF Poll, TypeOK, TaskOK
  <2>2. CASE ~(phase[w[1]] = "serving" /\ w \notin cancelled)
    <3>1. TaskOK'
      BY <1>1, <2>2, IdleTyped DEF Poll
    <3> QED
      BY <1>1, <3>1 DEF Poll, TypeOK, TaskOK
  <2> QED
    BY <2>1, <2>2
<1>2. CASE NoMessage(w)
  <2>1. TaskOK'
    BY <1>2, LeaveTyped DEF NoMessage
  <2> QED
    BY <1>2, <2>1 DEF NoMessage, TypeOK, TaskOK
<1>3. ASSUME NEW m \in Messages, ClaimReturned(w, m)
      PROVE  TypeOK'
  <2> DEFINE k == [message |-> m, attempt |-> attempts[m] + 1]
  <2>1. /\ status' \in [Messages -> Statuses] /\ attempts' \in [Messages -> 0..MaxAttempts]
        /\ k \in Claims
    BY <1>3, GrantedTyped DEF ClaimReturned
  <2>2. beating' \subseteq Replicas \X Claims
    BY <1>3, <2>1, WorkerParts DEF ClaimReturned, TypeOK
  <2>3. Leave(w) \/ Process(w, k)
    BY <1>3 DEF ClaimReturned
  <2>4. Process(w, k) => TaskOK'
    <3> SUFFICES ASSUME Process(w, k) PROVE TaskOK'
      OBVIOUS
    <3> PICK p \in Processing : Task(w, p, k)
      BY DEF Process, Processing
    <3> QED
      BY <2>1, BusyTyped
  <2>5. TaskOK'
    BY <2>3, <2>4, LeaveTyped
  <2> QED
    BY <1>3, <2>1, <2>2, <2>5 DEF ClaimReturned, TypeOK, TaskOK
<1>4. CASE PostReturned(w)
  <2>1. pc[w] \in Processing /\ claim[w] \in Claims
    BY <1>4 DEF PostReturned, Returns, TypeOK, Processing
  <2>2. status' \in [Messages -> Statuses]
    BY <1>4, <2>1, AppliedTyped DEF PostReturned, TypeOK
  <2>3. Fail(w) \/ Task(w, "acknowledging", claim[w])
    BY <1>4 DEF PostReturned
  <2>4. TaskOK'
    BY <2>1, <2>3, FailTyped, BusyTyped DEF Processing
  <2> QED
    BY <1>4, <2>2, <2>4 DEF PostReturned, TypeOK, TaskOK
<1>5. CASE AckReturned(w)
  <2>1. pc[w] \in Processing /\ claim[w] \in Claims
    BY <1>5 DEF AckReturned, Returns, TypeOK, Processing
  <2>2. status' \in [Messages -> Statuses]
    BY <1>5, <2>1, AppliedTyped DEF AckReturned, TypeOK
  <2>3. Fail(w) \/ Leave(w)
    BY <1>5 DEF AckReturned
  <2>4. TaskOK'
    BY <2>1, <2>3, FailTyped, LeaveTyped
  <2>5. beating' \subseteq beating
    BY <1>5 DEF AckReturned, StopHeartbeat
  <2> QED
    BY <1>5, <2>2, <2>4, <2>5 DEF AckReturned, TypeOK, TaskOK
<1>6. CASE ClaimFails(w)
  <2>1. TaskOK'
    BY <1>6, LeaveTyped DEF ClaimFails
  <2>2. status' \in [Messages -> Statuses] /\ attempts' \in [Messages -> 0..MaxAttempts]
    BY <1>6, GrantedTyped DEF ClaimFails, TypeOK
  <2> QED
    BY <1>6, <2>1, <2>2 DEF ClaimFails, TypeOK, TaskOK
<1>7. CASE RpcFails(w)
  <2>1. pc[w] \in Processing /\ claim[w] \in Claims
    BY <1>7 DEF RpcFails, TypeOK, Processing
  <2>2. TaskOK'
    BY <1>7, <2>1, FailTyped DEF RpcFails
  <2>3. status' \in [Messages -> Statuses]
    BY <1>7, <2>1, AppliedTyped DEF RpcFails, TypeOK
  <2>4. late' \subseteq Requests
    BY <1>7, DelayedTyped DEF RpcFails, TypeOK
  <2> QED
    BY <1>7, <2>2, <2>3, <2>4 DEF RpcFails, TypeOK, TaskOK
<1>8. CASE Abandon(w)
  <2>1. TaskOK'
    BY <1>8, LeaveTyped DEF Abandon
  <2> QED
    BY <1>8, <2>1 DEF Abandon, StopHeartbeat, TypeOK, TaskOK
<1> QED
  BY <1>1, <1>2, <1>3, <1>4, <1>5, <1>6, <1>7, <1>8 DEF Step

LEMMA LifespanTyped ==
  ASSUME TypeOK, NEW r \in Replicas, Lifespan(r) \/ BeginStop(r)
  PROVE  TypeOK'
<1> USE DEF serverVars, lifeVars, taskVars
<1>1. CASE Start(r)
  <2>1. pc' \in [Workers -> {"ended", "polling"} \cup Calling \cup Processing]
    BY <1>1 DEF Start, TypeOK
  <2>2. \A w \in Workers : pc'[w] \in Processing => claim'[w] \in Claims
    BY <1>1 DEF Start, TypeOK, Processing
  <2>3. open' \subseteq Replicas /\ phase' \in [Replicas -> {"down", "serving", "stopping", "cancelling"}]
    BY <1>1 DEF Start, TypeOK
  <2> QED
    BY <1>1, <2>1, <2>2, <2>3 DEF Start, TypeOK
<1>2. CASE BeginStop(r)
  BY <1>2, StoreAssumption DEF BeginStop, TypeOK
<1>3. CASE CloseClient(r)
  BY <1>3 DEF CloseClient, TypeOK
<1>4. CASE CancelTasks(r)
  BY <1>4 DEF CancelTasks, Of, TypeOK
<1>5. CASE JoinTasks(r)
  BY <1>5 DEF JoinTasks, TypeOK
<1> QED
  BY <1>1, <1>2, <1>3, <1>4, <1>5 DEF Lifespan

LEMMA CrashTyped ==
  ASSUME TypeOK, NEW r \in Replicas, Crash(r)
  PROVE  TypeOK'
<1>1. late' \subseteq Requests
  BY DelayedTyped DEF Crash, Of, TypeOK
<1>2. TaskOK'
  BY DEF Crash, TypeOK, TaskOK, Processing
<1>3. outages' \in 0..MaxOutages
  BY StoreAssumption DEF Crash, TypeOK
<1>4. /\ phase' \in [Replicas -> {"down", "serving", "stopping", "cancelling"}]
      /\ open' \subseteq Replicas /\ beating' \subseteq Replicas \X Claims /\ cancelled' \subseteq Workers
  BY DEF Crash, TypeOK
<1> QED
  BY <1>1, <1>2, <1>3, <1>4 DEF Crash, TypeOK, TaskOK

LEMMA ServerTyped ==
  /\ \A c \in Carts : TypeOK /\ Enqueue(c) => TypeOK'
  /\ \A q \in late : TypeOK /\ LateArrives(q) => TypeOK'
  /\ \A m \in Messages : TypeOK /\ LeaseExpires(m) => TypeOK'
  /\ \A b \in beating : TypeOK /\ StaleHeartbeatEnds(b) => TypeOK'
<1> USE DEF serverVars, lifeVars, taskVars
<1>1. ASSUME NEW c \in Carts, TypeOK, Enqueue(c) PROVE TypeOK'
  <2>1. status' \in [Messages -> Statuses]
    BY <1>1, StoreMessageTyped, PostedTyped DEF Enqueue
  <2> QED
    BY <1>1, <2>1 DEF Enqueue, TypeOK
<1>2. ASSUME NEW q \in late, TypeOK, LateArrives(q) PROVE TypeOK'
  <2>1. q.claim \in Claims
    BY <1>2 DEF TypeOK, Requests
  <2>2. status' \in [Messages -> Statuses]
    BY <1>2, <2>1, AppliedTyped DEF LateArrives, TypeOK
  <2> QED
    BY <1>2, <2>2 DEF LateArrives, TypeOK
<1>3. ASSUME NEW m \in Messages, TypeOK, LeaseExpires(m) PROVE TypeOK'
  BY <1>3 DEF LeaseExpires, TypeOK, Statuses, Settled
<1>4. ASSUME NEW b \in beating, TypeOK, StaleHeartbeatEnds(b) PROVE TypeOK'
  BY <1>4 DEF StaleHeartbeatEnds, TypeOK
<1> QED
  BY <1>1, <1>2, <1>3, <1>4

LEMMA TypeStep == TypeOK /\ [Next]_vars => TypeOK'
<1> SUFFICES ASSUME TypeOK, [Next]_vars PROVE TypeOK'
  OBVIOUS
<1>1. CASE UNCHANGED vars
  BY <1>1 DEF vars, serverVars, lifeVars, taskVars, TypeOK
<1>2. CASE Next
  BY <1>2, StepTyped, LifespanTyped, CrashTyped, ServerTyped DEF Next
<1> QED
  BY <1>1, <1>2

(* Every variable keeps its type; a worker that processes has a claim.     *)
THEOREM TypeCorrect == Spec => []TypeOK
BY TypeInit, TypeStep, PTL DEF Spec

-----------------------------------------------------------------------------
(* At most one checkout message per cart, and none is missing.             *)

Forwarded(c) == c \notin invalid /\ status[<<"checkout", c, 0>>] # "absent"

ForwardedIfStore(k) == k.message[1] = "store" => Forwarded(k.message[2])

(* A checkout message has the one ID its cart gives it; what a worker posts*)
(* is a valid cart; what it, or a late request, acknowledges has been      *)
(* forwarded, and so has what is completed.                                *)
Forwarding ==
    /\ \A m \in Messages : m[1] = "checkout" /\ status[m] # "absent" => m[3] = 0
    /\ \A w \in Workers :
          /\ pc[w] = "forwarding" => claim[w].message[2] \notin invalid
          /\ pc[w] = "acknowledging" => ForwardedIfStore(claim[w])
    /\ \A q \in late : q.op = "acknowledging" => ForwardedIfStore(q.claim)
    /\ \A m \in Messages : m[1] = "store" /\ status[m] = "COMPLETED" => Forwarded(m[2])

LEMMA ForwardingInit == Init => Forwarding
BY DEF Init, Forwarding

(* What one change of status may do, so that Forwarding survives it.       *)
Sound ==
    /\ invalid' = invalid
    /\ \A m \in Messages : status[m] # "absent" => status'[m] # "absent"
    /\ \A m \in Messages :
          m[1] = "checkout" /\ status[m] = "absent" /\ status'[m] # "absent" => m[3] = 0
    /\ \A m \in Messages :
          m[1] = "store" /\ status[m] # "COMPLETED" /\ status'[m] = "COMPLETED" => Forwarded(m[2])

LEMMA ForwardedKept ==
  ASSUME Sound, NEW c \in Carts, Forwarded(c)
  PROVE  Forwarded(c)'
<1>1. <<"checkout", c, 0>> \in Messages
  BY MessageMade DEF Queues
<1> QED
  BY <1>1 DEF Sound, Forwarded

LEMMA ForwardedIfStoreKept ==
  ASSUME Sound, NEW k \in Claims, ForwardedIfStore(k)
  PROVE  ForwardedIfStore(k)'
<1>1. k.message[2] \in Carts
  BY ClaimParts, MessageParts
<1> QED
  BY <1>1, ForwardedKept DEF ForwardedIfStore

(* The messages' half of Forwarding.                                       *)
LEMMA SoundMessages ==
  ASSUME Forwarding, Sound
  PROVE  /\ \A m \in Messages : m[1] = "checkout" /\ status'[m] # "absent" => m[3] = 0
         /\ \A m \in Messages : m[1] = "store" /\ status'[m] = "COMPLETED" => Forwarded(m[2])'
<1>1. ASSUME NEW m \in Messages, m[1] = "checkout", status'[m] # "absent" PROVE m[3] = 0
  BY <1>1 DEF Forwarding, Sound
<1>2. ASSUME NEW m \in Messages, m[1] = "store", status'[m] = "COMPLETED" PROVE Forwarded(m[2])'
  <2>1. Forwarded(m[2])
    BY <1>2 DEF Forwarding, Sound
  <2> QED
    BY <2>1, MessageParts, ForwardedKept
<1> QED
  BY <1>1, <1>2

(* The workers' half: those that did not move, and the one that did.       *)
WorkerForwards(w) ==
    /\ pc[w] = "forwarding" => claim[w].message[2] \notin invalid
    /\ pc[w] = "acknowledging" => ForwardedIfStore(claim[w])

LEMMA SoundWorker ==
  ASSUME TypeOK, Forwarding, Sound, NEW w \in Workers, pc'[w] = pc[w], claim'[w] = claim[w]
  PROVE  WorkerForwards(w)'
<1>1. pc'[w] = "forwarding" => claim'[w].message[2] \notin invalid'
  BY DEF Forwarding, Sound
<1>2. ASSUME pc'[w] = "acknowledging"
      PROVE  ForwardedIfStore(claim[w])'
  <2>1. claim[w] \in Claims /\ ForwardedIfStore(claim[w])
    BY <1>2 DEF TypeOK, Forwarding, Processing
  <2> PICK k \in Claims : k = claim[w]
    BY <2>1
  <2>2. ForwardedIfStore(k)'
    BY <2>1, ForwardedIfStoreKept
  <2> QED
    BY <2>2 DEF ForwardedIfStore, Forwarded
<1> QED
  BY <1>1, <1>2 DEF WorkerForwards

LEMMA SoundLate ==
  ASSUME TypeOK, Forwarding, Sound, NEW q \in late, q.op = "acknowledging"
  PROVE  ForwardedIfStore(q.claim)'
<1>1. q.claim \in Claims /\ ForwardedIfStore(q.claim)
  BY DEF TypeOK, Requests, Forwarding
<1> QED
  BY <1>1, ForwardedIfStoreKept

LEMMA ForwardingKept ==
  ASSUME TypeOK, Forwarding, Sound,
         \A w \in Workers : WorkerForwards(w)',
         \A q \in late' : q.op = "acknowledging" => ForwardedIfStore(q.claim)'
  PROVE  Forwarding'
<1>1. /\ \A m \in Messages : m[1] = "checkout" /\ status'[m] # "absent" => m[3] = 0
      /\ \A m \in Messages : m[1] = "store" /\ status'[m] = "COMPLETED" => Forwarded(m[2])'
  BY SoundMessages
<1> QED
  BY <1>1 DEF Forwarding, WorkerForwards

LEMMA SoundUnchanged ==
  ASSUME UNCHANGED <<invalid, status>>
  PROVE  Sound
BY DEF Sound

LEMMA SoundPosted ==
  ASSUME TypeOK, UNCHANGED invalid, NEW m \in Messages, m[1] = "checkout" => m[3] = 0, Posted(m)
  PROVE  Sound
BY DEF Sound, Posted, TypeOK

LEMMA SoundApplied ==
  ASSUME TypeOK, UNCHANGED invalid, NEW k \in Claims, NEW op, Applied(op, k),
         op = "acknowledging" => ForwardedIfStore(k)
  PROVE  Sound
<1>1. CASE op = "forwarding" /\ Posted(CheckoutMessage(k))
  <2>1. CheckoutMessage(k) \in Messages /\ CheckoutMessage(k)[3] = 0
    BY ClaimParts DEF CheckoutMessage
  <2> QED
    BY <1>1, <2>1, SoundPosted
<1>2. CASE op = "acknowledging" /\ Completed(k)
  <2>1. k.message \in Messages
    BY ClaimParts
  <2> QED
    BY <1>2, <2>1 DEF Completed, Active, Sound, TypeOK, ForwardedIfStore
<1> QED
  BY <1>1, <1>2 DEF Applied

LEMMA SoundGranted ==
  ASSUME TypeOK, UNCHANGED invalid, NEW m \in Messages, Granted(m)
  PROVE  Sound
BY DEF Granted, Sound, TypeOK

(* One worker moves, the others' tasks are as they were.                   *)
LEMMA OneMoves ==
  ASSUME TypeOK, Forwarding, Sound, NEW w \in Workers, NEW p, NEW k, Task(w, p, k),
         WorkerForwards(w)',
         \A q \in late' : q \in late \/ (q.op = "acknowledging" => ForwardedIfStore(q.claim)')
  PROVE  Forwarding'
<1>1. ASSUME NEW v \in Workers PROVE WorkerForwards(v)'
  <2>1. CASE v = w
    BY <2>1
  <2>2. CASE v # w
    <3>1. pc'[v] = pc[v] /\ claim'[v] = claim[v]
      BY <2>2 DEF Task, TypeOK
    <3> QED
      BY <3>1, SoundWorker
  <2> QED
    BY <2>1, <2>2
<1>2. \A q \in late' : q.op = "acknowledging" => ForwardedIfStore(q.claim)'
  BY SoundLate
<1> QED
  BY <1>1, <1>2, ForwardingKept

LEMMA LeaveForwards ==
  ASSUME TypeOK, Forwarding, Sound, NEW w \in Workers, Leave(w) \/ Fail(w), UNCHANGED late
  PROVE  Forwarding'
<1>1. pc'[w] \in {"ended", "polling", "abandoning"}
  BY DEF Leave, Fail, Task, TypeOK
<1>2. WorkerForwards(w)'
  BY <1>1 DEF WorkerForwards
<1> QED
  BY <1>2, OneMoves DEF Leave, Fail

LEMMA StepForwards ==
  ASSUME TypeOK, Forwarding, NEW w \in Workers, Step(w)
  PROVE  Forwarding'
<1> USE DEF serverVars, lifeVars, taskVars
<1>1. CASE Poll(w)
  <2>1. Sound /\ UNCHANGED late
    BY <1>1, SoundUnchanged DEF Poll
  <2>2. pc'[w] \in {"claiming", "ended"}
    BY <1>1 DEF Poll, Task, TypeOK
  <2>3. WorkerForwards(w)'
    BY <2>2 DEF WorkerForwards
  <2> QED
    BY <1>1, <2>1, <2>3, OneMoves DEF Poll
<1>2. CASE NoMessage(w) \/ Abandon(w)
  <2>1. Sound /\ UNCHANGED late /\ Leave(w)
    BY <1>2, SoundUnchanged DEF NoMessage, Abandon
  <2> QED
    BY <2>1, LeaveForwards
<1>3. ASSUME NEW m \in Messages, ClaimReturned(w, m)
      PROVE  Forwarding'
  <2> DEFINE k == [message |-> m, attempt |-> attempts[m] + 1]
  <2>1. Sound /\ UNCHANGED late
    BY <1>3, SoundGranted DEF ClaimReturned
  <2>2. CASE Leave(w)
    BY <2>1, <2>2, LeaveForwards
  <2>3. CASE Process(w, k)
    <3>1. /\ claim'[w] = k
          /\ pc'[w] = CASE w[2] = "checkout" -> "acknowledging"
                          [] m[2] \in invalid -> "abandoning"
                          [] OTHER -> "forwarding"
      BY <2>3 DEF Process, Task, TypeOK
    <3>2. pc'[w] = "acknowledging" => m[1] # "store"
      BY <1>3, <3>1 DEF ClaimReturned
    <3>3. pc'[w] = "forwarding" => m[2] \notin invalid'
      BY <1>3, <3>1 DEF ClaimReturned
    <3>4. WorkerForwards(w)'
      BY <3>1, <3>2, <3>3 DEF WorkerForwards, ForwardedIfStore
    <3> QED
      BY <2>1, <2>3, <3>4, OneMoves DEF Process
  <2> QED
    BY <1>3, <2>2, <2>3 DEF ClaimReturned
<1>4. CASE PostReturned(w)
  <2>1. /\ claim[w] \in Claims /\ pc[w] = "forwarding"
        /\ claim[w].message[2] \notin invalid /\ UNCHANGED <<invalid, late>>
    BY <1>4 DEF PostReturned, Returns, TypeOK, Forwarding, Processing
  <2>2. Sound
    BY <1>4, <2>1, SoundApplied, SoundUnchanged DEF PostReturned
  <2>3. CASE Fail(w)
    BY <2>1, <2>2, <2>3, LeaveForwards
  <2>4. CASE Applied("forwarding", claim[w]) /\ Task(w, "acknowledging", claim[w])
    <3>1. pc'[w] = "acknowledging" /\ claim'[w] = claim[w]
      BY <2>4 DEF Task, TypeOK
    <3>2. CheckoutMessage(claim[w]) \in Messages /\ Posted(CheckoutMessage(claim[w]))
      BY <2>1, <2>4, ClaimParts DEF Applied
    <3>3. status'[CheckoutMessage(claim[w])] # "absent"
      BY <3>2 DEF Posted, TypeOK
    <3>4. Forwarded(claim[w].message[2])'
      BY <2>1, <3>1, <3>3 DEF Forwarded, CheckoutMessage
    <3>5. WorkerForwards(w)'
      BY <3>1, <3>4 DEF WorkerForwards, ForwardedIfStore
    <3> QED
      BY <2>1, <2>2, <2>4, <3>5, OneMoves
  <2> QED
    BY <1>4, <2>3, <2>4 DEF PostReturned
<1>5. CASE AckReturned(w)
  <2>1. claim[w] \in Claims /\ ForwardedIfStore(claim[w]) /\ UNCHANGED <<invalid, late>>
    BY <1>5 DEF AckReturned, Returns, TypeOK, Forwarding, Processing
  <2>2. Sound
    BY <1>5, <2>1, SoundApplied, SoundUnchanged DEF AckReturned
  <2>3. Leave(w) \/ Fail(w)
    BY <1>5 DEF AckReturned
  <2> QED
    BY <2>1, <2>2, <2>3, LeaveForwards
<1>6. CASE ClaimFails(w)
  <2>1. Sound /\ UNCHANGED late /\ Leave(w)
    BY <1>6, SoundGranted, SoundUnchanged DEF ClaimFails
  <2> QED
    BY <2>1, LeaveForwards
<1>7. CASE RpcFails(w)
  <2>1. /\ claim[w] \in Claims /\ pc[w] \in {"forwarding", "acknowledging"}
        /\ pc[w] = "acknowledging" => ForwardedIfStore(claim[w])
        /\ Fail(w) /\ UNCHANGED invalid
    BY <1>7 DEF RpcFails, TypeOK, Forwarding, Processing
  <2>2. Sound
    BY <1>7, <2>1, SoundApplied, SoundUnchanged DEF RpcFails
  <2>3. UNCHANGED late \/ Delayed({w})
    BY <1>7 DEF RpcFails
  <2>4. CASE UNCHANGED late
    BY <2>1, <2>2, <2>4, LeaveForwards
  <2>5. CASE Delayed({w})
    <3>1. ASSUME NEW q \in late', q \notin late, q.op = "acknowledging"
          PROVE  ForwardedIfStore(q.claim)'
      <4>1. q.claim \in Claims /\ ForwardedIfStore(q.claim)
        BY <2>1, <2>5, <3>1 DEF Delayed
      <4> QED
        BY <2>2, <4>1, ForwardedIfStoreKept
    <3>2. pc'[w] = "abandoning"
      BY <2>1 DEF Fail, Task, TypeOK
    <3>3. WorkerForwards(w)'
      BY <3>2 DEF WorkerForwards
    <3> QED
      BY <2>1, <2>2, <3>1, <3>3, OneMoves DEF Fail
  <2> QED
    BY <2>3, <2>4, <2>5
<1> QED
  BY <1>1, <1>2, <1>3, <1>4, <1>5, <1>6, <1>7 DEF Step

(* A step that takes workers out of their round, or leaves them alone.     *)
LEMMA QuietForwards ==
  ASSUME TypeOK, Forwarding, Sound, late' \subseteq late,
         \A w \in Workers :
            \/ pc'[w] \in {"ended", "polling"}
            \/ pc'[w] = pc[w] /\ claim'[w] = claim[w]
  PROVE  Forwarding'
<1>1. ASSUME NEW w \in Workers PROVE WorkerForwards(w)'
  <2>1. CASE pc'[w] \in {"ended", "polling"}
    BY <2>1 DEF WorkerForwards
  <2>2. CASE pc'[w] = pc[w] /\ claim'[w] = claim[w]
    BY <2>2, SoundWorker
  <2> QED
    BY <2>1, <2>2
<1>2. \A q \in late' : q.op = "acknowledging" => ForwardedIfStore(q.claim)'
  BY SoundLate
<1> QED
  BY <1>1, <1>2, ForwardingKept

LEMMA LifespanForwards ==
  ASSUME TypeOK, Forwarding, NEW r \in Replicas, Lifespan(r) \/ BeginStop(r)
  PROVE  Forwarding'
<1>1. UNCHANGED <<invalid, status, late>>
  BY DEF Lifespan, Start, BeginStop, CloseClient, CancelTasks, JoinTasks, serverVars
<1>2. \A w \in Workers :
         \/ pc'[w] \in {"ended", "polling"}
         \/ pc'[w] = pc[w] /\ claim'[w] = claim[w]
  BY DEF Lifespan, Start, BeginStop, CloseClient, CancelTasks, JoinTasks, taskVars
<1> QED
  BY <1>1, <1>2, SoundUnchanged, QuietForwards

LEMMA CrashForwards ==
  ASSUME TypeOK, Forwarding, NEW r \in Replicas, Crash(r)
  PROVE  Forwarding'
<1>1. Sound
  BY SoundUnchanged DEF Crash
<1>2. ASSUME NEW w \in Workers PROVE WorkerForwards(w)'
  <2>1. CASE w \in Of(r)
    BY <2>1 DEF Crash, WorkerForwards
  <2>2. CASE w \notin Of(r)
    <3>1. pc'[w] = pc[w] /\ claim'[w] = claim[w]
      BY <2>2 DEF Crash
    <3> QED
      BY <1>1, <3>1, SoundWorker
  <2> QED
    BY <2>1, <2>2
<1>3. ASSUME NEW q \in late', q.op = "acknowledging"
      PROVE  ForwardedIfStore(q.claim)'
  <2>1. CASE q \in late
    BY <1>1, <1>3, <2>1, SoundLate
  <2>2. CASE q \notin late
    <3>1. PICK w \in Of(r) :
            /\ pc[w] \in {"forwarding", "acknowledging"}
            /\ late' = late \cup {[op |-> pc[w], claim |-> claim[w]]}
      BY <1>3, <2>2 DEF Crash, Delayed
    <3>2. q = [op |-> pc[w], claim |-> claim[w]]
      BY <1>3, <2>2, <3>1
    <3>3. q.claim \in Claims /\ ForwardedIfStore(q.claim)
      BY <1>3, <3>1, <3>2 DEF Of, TypeOK, Forwarding, Processing
    <3> QED
      BY <1>1, <3>3, ForwardedIfStoreKept
  <2> QED
    BY <2>1, <2>2
<1> QED
  BY <1>1, <1>2, <1>3, ForwardingKept

LEMMA ServerForwards ==
  ASSUME TypeOK, Forwarding,
         \/ \E c \in Carts : Enqueue(c)
         \/ \E q \in late : LateArrives(q)
         \/ \E m \in Messages : LeaseExpires(m)
         \/ \E b \in beating : StaleHeartbeatEnds(b)
  PROVE  Forwarding'
<1> USE DEF serverVars, lifeVars, taskVars
<1>1. ASSUME NEW c \in Carts, Enqueue(c) PROVE Sound
  <2>1. StoreMessage(c) \in Messages /\ StoreMessage(c)[1] # "checkout"
    BY StoreMessageTyped DEF StoreMessage
  <2> QED
    BY <1>1, <2>1, SoundPosted DEF Enqueue
<1>2. ASSUME NEW q \in late, LateArrives(q) PROVE Sound
  <2>1. q.claim \in Claims /\ (q.op = "acknowledging" => ForwardedIfStore(q.claim))
    BY DEF TypeOK, Requests, Forwarding
  <2> QED
    BY <1>2, <2>1, SoundApplied, SoundUnchanged DEF LateArrives
<1>3. ASSUME NEW m \in Messages, LeaseExpires(m) PROVE Sound
  BY <1>3 DEF LeaseExpires, Sound, TypeOK
<1>4. ASSUME NEW b \in beating, StaleHeartbeatEnds(b) PROVE Sound
  BY <1>4, SoundUnchanged DEF StaleHeartbeatEnds
<1>5. Sound
  BY <1>1, <1>2, <1>3, <1>4
<1>6. late' \subseteq late /\ UNCHANGED <<pc, claim>>
  BY DEF Enqueue, LateArrives, LeaseExpires, StaleHeartbeatEnds
<1> QED
  BY <1>5, <1>6, QuietForwards

LEMMA ForwardingStep == TypeOK /\ Forwarding /\ [Next]_vars => Forwarding'
<1> SUFFICES ASSUME TypeOK, Forwarding, [Next]_vars PROVE Forwarding'
  OBVIOUS
<1>1. CASE UNCHANGED vars
  BY <1>1, SoundUnchanged, QuietForwards DEF vars, serverVars, taskVars
<1>2. CASE Next
  BY <1>2, StepForwards, LifespanForwards, CrashForwards, ServerForwards DEF Next
<1> QED
  BY <1>1, <1>2

(* A cart gets at most one checkout message, and is completed only if it is*)
(* valid and that message was accepted.                                    *)
THEOREM OneCheckout == Spec => []OneCheckoutPerCart
<1>1. ASSUME TypeOK, Forwarding, NEW c \in Carts
      PROVE  /\ Cardinality(Checkouts(c)) <= 1
             /\ status[StoreMessage(c)] = "COMPLETED" => c \notin invalid /\ Checkouts(c) # {}
  <2>1. Checkouts(c) \subseteq {<<"checkout", c, 0>>}
    BY <1>1, MessageParts DEF Checkouts, Forwarding
  <2>2. Cardinality(Checkouts(c)) <= 1
    <3>1. IsFiniteSet({<<"checkout", c, 0>>}) /\ Cardinality({<<"checkout", c, 0>>}) = 1
      BY FS_Singleton
    <3>2. Cardinality(Checkouts(c)) \in Nat /\ Cardinality(Checkouts(c)) <= Cardinality({<<"checkout", c, 0>>})
      BY <2>1, <3>1, FS_Subset, FS_CardinalityType
    <3> QED
      BY <3>1, <3>2
  <2>3. ASSUME status[StoreMessage(c)] = "COMPLETED"
        PROVE  c \notin invalid /\ Checkouts(c) # {}
    <3>1. StoreMessage(c) \in Messages /\ StoreMessage(c)[1] = "store" /\ StoreMessage(c)[2] = c
      BY StoreMessageTyped DEF StoreMessage
    <3>2. Forwarded(c)
      BY <1>1, <2>3, <3>1 DEF Forwarding
    <3>3. <<"checkout", c, 0>> \in Checkouts(c)
      BY <3>2, MessageMade DEF Forwarded, Checkouts, Queues
    <3> QED
      BY <3>2, <3>3 DEF Forwarded
  <2> QED
    BY <2>2, <2>3
<1>2. TypeOK /\ Forwarding => OneCheckoutPerCart
  BY <1>1 DEF OneCheckoutPerCart
<1> QED
  BY <1>2, TypeInit, TypeStep, ForwardingInit, ForwardingStep, PTL DEF Spec

-----------------------------------------------------------------------------
(* No heartbeat without a worker.                                          *)

(* Tasks are cancelled only after the client was closed, and only a client *)
(* that is open heartbeats.                                                *)
Shutdown ==
    /\ \A r \in Replicas : phase[r] \in {"down", "cancelling"} => r \notin open
    /\ \A w \in cancelled : phase[w[1]] = "cancelling"
    /\ \A b \in beating : b[1] \in open

Processed(b) == \E w \in Of(b[1]) : pc[w] \in Processing /\ claim[w] = b[2]

LEMMA HeartbeatInit == Init => Shutdown /\ HeartbeatsAreProcessed
BY DEF Init, Shutdown, HeartbeatsAreProcessed

LEMMA ShutdownStep ==
  ASSUME TypeOK, Shutdown, [Next]_vars
  PROVE  Shutdown'
<1> USE DEF serverVars, lifeVars, taskVars
<1>1. ASSUME NEW w \in Workers, Step(w) PROVE Shutdown'
  <2>1. phase' = phase /\ open' = open /\ cancelled' = cancelled
    BY <1>1 DEF Step, Poll, NoMessage, ClaimReturned, PostReturned, AckReturned, ClaimFails,
                RpcFails, Abandon
  <2>2. ASSUME NEW b \in beating' PROVE b \in beating \/ b[1] \in open
    <3>1. ASSUME NEW m \in Messages, ClaimReturned(w, m)
          PROVE  b \in beating \/ b[1] \in open
      BY <3>1 DEF ClaimReturned
    <3>2. CASE \/ Poll(w) \/ NoMessage(w) \/ PostReturned(w) \/ AckReturned(w)
               \/ ClaimFails(w) \/ RpcFails(w) \/ Abandon(w)
      BY <3>2 DEF Poll, NoMessage, PostReturned, AckReturned, ClaimFails, RpcFails, Abandon,
                  StopHeartbeat
    <3> QED
      BY <1>1, <3>1, <3>2 DEF Step
  <2>3. \A b \in beating' : b[1] \in open'
    BY <2>1, <2>2 DEF Shutdown
  <2> QED
    BY <2>1, <2>3 DEF Shutdown
<1>2. ASSUME NEW r \in Replicas, Start(r) PROVE Shutdown'
  BY <1>2, WorkerParts DEF Start, Shutdown, TypeOK
<1>3. ASSUME NEW r \in Replicas, BeginStop(r) PROVE Shutdown'
  BY <1>3, WorkerParts DEF BeginStop, Shutdown, TypeOK
<1>4. ASSUME NEW r \in Replicas, CloseClient(r) PROVE Shutdown'
  BY <1>4 DEF CloseClient, Shutdown, TypeOK
<1>5. ASSUME NEW r \in Replicas, CancelTasks(r) PROVE Shutdown'
  BY <1>5, WorkerParts DEF CancelTasks, MayCancel, Of, Shutdown, TypeOK
<1>6. ASSUME NEW r \in Replicas, JoinTasks(r) PROVE Shutdown'
  BY <1>6, WorkerParts DEF JoinTasks, Of, Shutdown, TypeOK
<1>7. ASSUME NEW r \in Replicas, Crash(r) PROVE Shutdown'
  BY <1>7, WorkerParts DEF Crash, Of, Shutdown, TypeOK
<1>8. CASE \/ \E c \in Carts : Enqueue(c)
           \/ \E q \in late : LateArrives(q)
           \/ \E m \in Messages : LeaseExpires(m)
           \/ \E b \in beating : StaleHeartbeatEnds(b)
  BY <1>8 DEF Enqueue, LateArrives, LeaseExpires, StaleHeartbeatEnds, Shutdown
<1>9. CASE UNCHANGED vars
  BY <1>9 DEF vars, Shutdown
<1> QED
  BY <1>1, <1>2, <1>3, <1>4, <1>5, <1>6, <1>7, <1>8, <1>9 DEF Next, Lifespan

(* A worker that leaves its round, or has just entered it.                 *)
LEMMA OtherProcesses ==
  ASSUME TypeOK, NEW w \in Workers, NEW p, NEW k, Task(w, p, k),
         NEW b \in beating, Processed(b),
         (p \in Processing /\ k = claim[w]) \/ b # <<w[1], claim[w]>> \/ pc[w] \notin Processing
  PROVE  Processed(b)'
<1>1. PICK v \in Of(b[1]) : pc[v] \in Processing /\ claim[v] = b[2]
  BY DEF Processed
<1>2. CASE v # w
  <2>1. pc'[v] = pc[v] /\ claim'[v] = claim[v]
    BY <1>2 DEF Task, TypeOK
  <2> QED
    BY <1>1, <2>1 DEF Processed, Of
<1>3. CASE v = w
  <2>1. b = <<w[1], claim[w]>>
    BY <1>1, <1>3 DEF Of, TypeOK
  <2>2. pc'[w] \in Processing /\ claim'[w] = claim[w]
    BY <1>1, <1>3, <2>1 DEF Task, TypeOK
  <2> QED
    BY <1>1, <1>3, <2>2 DEF Processed, Of
<1> QED
  BY <1>2, <1>3

LEMMA StepProcesses ==
  ASSUME TypeOK, Shutdown, HeartbeatsAreProcessed, NEW w \in Workers, Step(w),
         NEW b \in beating'
  PROVE  Processed(b)'
<1> USE DEF serverVars, lifeVars, taskVars
<1>1. ASSUME b \in beating PROVE Processed(b)
  BY <1>1 DEF HeartbeatsAreProcessed, Processed
<1>2. CASE Poll(w) \/ NoMessage(w) \/ ClaimFails(w)
  <2>1. b \in beating /\ pc[w] \notin Processing
    BY <1>2 DEF Poll, NoMessage, ClaimFails, Returns, Processing
  <2>2. \E p, k : Task(w, p, k)
    BY <1>2 DEF Poll, NoMessage, ClaimFails, Leave
  <2> QED
    BY <1>1, <2>1, <2>2, OtherProcesses
<1>3. ASSUME NEW m \in Messages, ClaimReturned(w, m)
      PROVE  Processed(b)'
  <2> DEFINE k == [message |-> m, attempt |-> attempts[m] + 1]
  <2>1. pc[w] \notin Processing
    BY <1>3 DEF ClaimReturned, Returns, Processing
  <2>2. \E p, j : Task(w, p, j)
    BY <1>3 DEF ClaimReturned, Process, Leave
  <2>3. CASE b \in beating
    BY <1>1, <2>1, <2>2, <2>3, OtherProcesses
  <2>4. CASE b \notin beating
    <3>1. w[1] \in open /\ b = <<w[1], k>>
      BY <1>3, <2>4 DEF ClaimReturned
    <3>2. w \notin cancelled
      BY <3>1, WorkerParts DEF Shutdown
    <3>3. Process(w, k)
      BY <1>3, <3>1, <3>2 DEF ClaimReturned
    <3>4. pc'[w] \in Processing /\ claim'[w] = k
      BY <3>3 DEF Process, Task, TypeOK, Processing
    <3> QED
      BY <3>1, <3>4 DEF Processed, Of
  <2> QED
    BY <2>3, <2>4
<1>4. CASE PostReturned(w) \/ RpcFails(w)
  <2>1. b \in beating
    BY <1>4 DEF PostReturned, RpcFails
  <2>2. \E p \in Processing : Task(w, p, claim[w])
    BY <1>4 DEF PostReturned, RpcFails, Fail, Processing
  <2> QED
    BY <1>1, <2>1, <2>2, OtherProcesses
<1>5. CASE AckReturned(w)
  <2>1. b \in beating
    BY <1>5 DEF AckReturned, StopHeartbeat
  <2>2. CASE Fail(w)
    BY <1>1, <2>1, <2>2, OtherProcesses DEF Fail, Processing
  <2>3. CASE Leave(w) /\ StopHeartbeat(w)
    <3>1. b # <<w[1], claim[w]>>
      BY <2>3 DEF StopHeartbeat
    <3> QED
      BY <1>1, <2>1, <2>3, <3>1, OtherProcesses DEF Leave
  <2> QED
    BY <1>5, <2>2, <2>3 DEF AckReturned
<1>6. CASE Abandon(w)
  <2>1. b \in beating /\ b # <<w[1], claim[w]>>
    BY <1>6 DEF Abandon, StopHeartbeat
  <2>2. Leave(w)
    BY <1>6 DEF Abandon
  <2> QED
    BY <1>1, <2>1, <2>2, OtherProcesses DEF Leave
<1> QED
  BY <1>2, <1>3, <1>4, <1>5, <1>6 DEF Step

LEMMA HeartbeatStep ==
  ASSUME TypeOK, Shutdown, HeartbeatsAreProcessed, [Next]_vars
  PROVE  HeartbeatsAreProcessed'
<1> USE DEF serverVars, lifeVars, taskVars
<1>1. SUFFICES ASSUME NEW b \in beating' PROVE Processed(b)'
  BY DEF HeartbeatsAreProcessed, Processed
<1>2. b \in beating => Processed(b)
  BY DEF HeartbeatsAreProcessed, Processed
<1>3. ASSUME NEW w \in Workers, Step(w) PROVE Processed(b)'
  BY <1>3, StepProcesses
<1>4. ASSUME NEW r \in Replicas, Start(r) \/ Crash(r) PROVE Processed(b)'
  <2>1. b \in beating /\ b[1] # r
    <3>1. CASE Start(r)
      BY <1>4, <3>1 DEF Start, Shutdown
    <3>2. CASE Crash(r)
      BY <1>4, <3>2 DEF Crash
    <3> QED
      BY <1>4, <3>1, <3>2
  <2>2. \A w \in Of(b[1]) : pc'[w] = pc[w] /\ claim'[w] = claim[w]
    BY <1>4, <2>1 DEF Start, Crash, Of
  <2> QED
    BY <1>2, <2>1, <2>2 DEF Processed, Of
<1>5. CASE b \in beating /\ UNCHANGED <<pc, claim>>
  BY <1>2, <1>5 DEF Processed, Of
<1>6. ASSUME NEW r \in Replicas, CloseClient(r) \/ CancelTasks(r) \/ JoinTasks(r) \/ BeginStop(r)
      PROVE  b \in beating /\ UNCHANGED <<pc, claim>>
  BY <1>6 DEF CloseClient, CancelTasks, JoinTasks, BeginStop
<1>7. CASE \/ \E c \in Carts : Enqueue(c)
           \/ \E q \in late : LateArrives(q)
           \/ \E m \in Messages : LeaseExpires(m)
           \/ \E d \in beating : StaleHeartbeatEnds(d)
           \/ UNCHANGED vars
  <2>1. b \in beating /\ UNCHANGED <<pc, claim>>
    BY <1>7 DEF Enqueue, LateArrives, LeaseExpires, StaleHeartbeatEnds, vars
  <2> QED
    BY <1>5, <2>1
<1> QED
  BY <1>3, <1>4, <1>5, <1>6, <1>7 DEF Next, Lifespan

(* A client heartbeats only claims that a task of its replica processes.   *)
THEOREM HeartbeatsProcessed == Spec => []HeartbeatsAreProcessed
BY TypeInit, TypeStep, HeartbeatInit, ShutdownStep, HeartbeatStep, PTL DEF Spec

-----------------------------------------------------------------------------
(* The store workers implement CartFlow.                                   *)

MayForward(c) == c \notin invalid /\ attempts[StoreMessage(c)] > 0

(* Only messages that a cart names exist; what a worker forwards, or a late*)
(* request still may, is a valid cart that a worker has leased.            *)
Grounded ==
    /\ \A m \in Messages : status[m] # "absent" => m[3] = 0
    /\ \A w \in Workers : pc[w] = "forwarding" => MayForward(claim[w].message[2])
    /\ \A q \in late : q.op = "forwarding" => MayForward(q.claim.message[2])

(* What a step may do to the messages, whoever takes it.                   *)
EntersQueue == \E c \in Carts : Posted(StoreMessage(c)) /\ UNCHANGED attempts
Posts == \E c \in Carts : MayForward(c) /\ Posted(<<"checkout", c, 0>>) /\ UNCHANGED attempts
Leases == \E m \in Messages : Granted(m)
Acknowledges == \E k \in Claims : ForwardedIfStore(k) /\ Completed(k) /\ UNCHANGED attempts
Expires ==
    /\ \E m \in Messages :
          /\ status[m] = "RUNNING"
          /\ status' = [status EXCEPT ![m] = IF attempts[m] < MaxAttempts THEN "PENDING" ELSE "DLQ"]
    /\ UNCHANGED attempts

MessageStep ==
    /\ UNCHANGED invalid
    /\ \/ EntersQueue \/ Posts \/ Leases \/ Acknowledges \/ Expires
       \/ UNCHANGED <<status, attempts>>

LEMMA AppliedPosts ==
  ASSUME TypeOK, NEW op, NEW k \in Claims, Applied(op, k), UNCHANGED attempts,
         op = "forwarding" => MayForward(k.message[2]),
         op = "acknowledging" => ForwardedIfStore(k)
  PROVE  Posts \/ Acknowledges
<1>1. k.message[2] \in Carts
  BY ClaimParts, MessageParts
<1>2. CASE op = "forwarding" /\ Posted(CheckoutMessage(k))
  BY <1>1, <1>2 DEF Posts, CheckoutMessage
<1>3. CASE op = "acknowledging" /\ Completed(k)
  BY <1>3 DEF Acknowledges
<1> QED
  BY <1>2, <1>3 DEF Applied

LEMMA WorkerMessageStep ==
  ASSUME TypeOK, Forwarding, Grounded, NEW w \in Workers, Step(w)
  PROVE  MessageStep
<1> USE DEF serverVars, lifeVars, taskVars
<1>1. CASE Poll(w) \/ NoMessage(w) \/ Abandon(w)
  BY <1>1 DEF Poll, NoMessage, Abandon, MessageStep
<1>2. ASSUME NEW m \in Messages, ClaimReturned(w, m) PROVE MessageStep
  BY <1>2 DEF ClaimReturned, MessageStep, Leases
<1>3. CASE ClaimFails(w)
  BY <1>3 DEF ClaimFails, MessageStep, Leases
<1>4. CASE PostReturned(w) \/ AckReturned(w) \/ RpcFails(w)
  <2>1. pc[w] \in {"forwarding", "acknowledging"} /\ UNCHANGED <<invalid, attempts>>
    BY <1>4 DEF PostReturned, AckReturned, RpcFails, Returns
  <2>2. UNCHANGED status \/ Applied(pc[w], claim[w])
    BY <1>4 DEF PostReturned, AckReturned, RpcFails, Returns
  <2>3. /\ claim[w] \in Claims
        /\ pc[w] = "forwarding" => MayForward(claim[w].message[2])
        /\ pc[w] = "acknowledging" => ForwardedIfStore(claim[w])
    BY <2>1 DEF TypeOK, Processing, Forwarding, Grounded
  <2>4. Applied(pc[w], claim[w]) => Posts \/ Acknowledges
    BY <2>1, <2>3, AppliedPosts
  <2> QED
    BY <2>1, <2>2, <2>4 DEF MessageStep
<1> QED
  BY <1>1, <1>2, <1>3, <1>4 DEF Step

LEMMA NextMessageStep ==
  ASSUME TypeOK, Forwarding, Grounded, [Next]_vars
  PROVE  MessageStep
<1> USE DEF serverVars, lifeVars, taskVars
<1>1. ASSUME NEW c \in Carts, Enqueue(c) PROVE MessageStep
  BY <1>1 DEF Enqueue, MessageStep, EntersQueue
<1>2. ASSUME NEW q \in late, LateArrives(q) PROVE MessageStep
  <2>1. /\ q.claim \in Claims
        /\ q.op = "forwarding" => MayForward(q.claim.message[2])
        /\ q.op = "acknowledging" => ForwardedIfStore(q.claim)
    BY DEF TypeOK, Requests, Forwarding, Grounded
  <2>2. UNCHANGED <<invalid, attempts>> /\ (Applied(q.op, q.claim) \/ UNCHANGED status)
    BY <1>2 DEF LateArrives
  <2>3. Applied(q.op, q.claim) => Posts \/ Acknowledges
    BY <2>1, <2>2, AppliedPosts
  <2> QED
    BY <2>2, <2>3 DEF MessageStep
<1>3. ASSUME NEW m \in Messages, LeaseExpires(m) PROVE MessageStep
  BY <1>3 DEF LeaseExpires, MessageStep, Expires
<1>4. CASE \/ \E r \in Replicas : Lifespan(r) \/ BeginStop(r) \/ Crash(r)
           \/ \E b \in beating : StaleHeartbeatEnds(b)
           \/ UNCHANGED vars
  <2>1. UNCHANGED <<invalid, status, attempts>>
    BY <1>4 DEF Lifespan, Start, BeginStop, CloseClient, CancelTasks, JoinTasks, Crash,
                StaleHeartbeatEnds, vars
  <2> QED
    BY <2>1 DEF MessageStep
<1> QED
  BY <1>1, <1>2, <1>3, <1>4, WorkerMessageStep DEF Next

(* Messages come to be in two places, and attempts are never taken back.   *)
LEMMA MessageStepGrounds ==
  ASSUME TypeOK, Grounded, MessageStep
  PROVE  /\ \A m \in Messages : status'[m] # "absent" => m[3] = 0
         /\ \A c \in Carts : MayForward(c) => MayForward(c)'
<1>1. ASSUME NEW m \in Messages, m[3] = 0, Posted(m)
      PROVE  \A n \in Messages : status'[n] # "absent" => n[3] = 0
  BY <1>1 DEF Posted, TypeOK, Grounded
<1>2. CASE EntersQueue
  BY <1>1, <1>2, StoreMessageTyped DEF EntersQueue, StoreMessage, MessageStep, MayForward
<1>3. CASE Posts
  <2> PICK c \in Carts : Posted(<<"checkout", c, 0>>) /\ UNCHANGED attempts
    BY <1>3 DEF Posts
  <2>1. <<"checkout", c, 0>> \in Messages
    BY MessageMade DEF Queues
  <2> QED
    BY <1>1, <2>1 DEF MessageStep, MayForward, StoreMessage
<1>4. CASE Leases
  <2> PICK m \in Messages : Granted(m)
    BY <1>4 DEF Leases
  <2>1. \A n \in Messages : status'[n] # "absent" => n[3] = 0
    BY DEF Granted, TypeOK, Grounded
  <2>2. \A n \in Messages : attempts[n] > 0 => attempts'[n] > 0
    BY StoreAssumption DEF Granted, TypeOK
  <2> QED
    BY <2>1, <2>2, StoreMessageTyped DEF MessageStep, MayForward, StoreMessage
<1>5. CASE Acknowledges
  <2> PICK k \in Claims : Completed(k) /\ UNCHANGED attempts
    BY <1>5 DEF Acknowledges
  <2>1. \A n \in Messages : status'[n] # "absent" => n[3] = 0
    BY ClaimParts DEF Completed, Active, TypeOK, Grounded
  <2> QED
    BY <2>1 DEF MessageStep, MayForward, StoreMessage
<1>6. CASE Expires
  BY <1>6 DEF Expires, TypeOK, Grounded, MessageStep, MayForward, StoreMessage
<1>7. CASE UNCHANGED <<status, attempts>>
  BY <1>7 DEF Grounded, MessageStep, MayForward, StoreMessage
<1> QED
  BY <1>2, <1>3, <1>4, <1>5, <1>6, <1>7 DEF MessageStep

(* A worker forwards because it did, or because it has just leased a valid *)
(* cart; what is late was under way.                                       *)
LEMMA ForwardingBegins ==
  ASSUME TypeOK, [Next]_vars, NEW w \in Workers, pc'[w] = "forwarding"
  PROVE  \/ pc[w] = "forwarding" /\ claim'[w] = claim[w]
         \/ \E m \in Messages :
               /\ Granted(m) /\ m[1] = "store" /\ m[2] \notin invalid
               /\ claim'[w].message = m
<1> USE DEF serverVars, lifeVars, taskVars
<1>1. ASSUME NEW v \in Workers, v # w, Step(v)
      PROVE  pc'[w] = pc[w] /\ claim'[w] = claim[w]
  <2>1. \E p, k : Task(v, p, k)
    BY <1>1 DEF Step, Poll, NoMessage, ClaimReturned, PostReturned, AckReturned, ClaimFails,
                RpcFails, Abandon, Process, Leave, Fail
  <2> QED
    BY <1>1, <2>1 DEF Task, TypeOK
<1>2. CASE Step(w)
  <2>1. ~(Leave(w) \/ Fail(w))
    BY DEF Leave, Fail, Task, TypeOK
  <2>2. ~Task(w, "acknowledging", claim[w]) /\ ~Poll(w)
    BY DEF Task, Poll, TypeOK
  <2>3. PICK m \in Messages : ClaimReturned(w, m)
    BY <1>2, <2>1, <2>2 DEF Step, NoMessage, PostReturned, AckReturned, ClaimFails, RpcFails, Abandon
  <2> DEFINE k == [message |-> m, attempt |-> attempts[m] + 1]
  <2>4. Process(w, k) /\ Granted(m) /\ m[1] = w[2]
    BY <2>1, <2>3 DEF ClaimReturned
  <2>5. w[2] = "store" /\ k.message[2] \notin invalid /\ claim'[w] = k
    BY <2>4, WorkerParts DEF Process, Task, TypeOK, Queues
  <2> QED
    BY <2>4, <2>5
<1>3. ASSUME NEW r \in Replicas, Lifespan(r) \/ BeginStop(r) \/ Crash(r)
      PROVE  pc'[w] = pc[w] /\ claim'[w] = claim[w]
  BY <1>3 DEF Lifespan, Start, BeginStop, CloseClient, CancelTasks, JoinTasks, Crash
<1>4. CASE \/ \E c \in Carts : Enqueue(c)
           \/ \E q \in late : LateArrives(q)
           \/ \E m \in Messages : LeaseExpires(m)
           \/ \E b \in beating : StaleHeartbeatEnds(b)
           \/ UNCHANGED vars
  BY <1>4 DEF Enqueue, LateArrives, LeaseExpires, StaleHeartbeatEnds, vars
<1> QED
  BY <1>1, <1>2, <1>3, <1>4 DEF Next

LEMMA LateBegins ==
  ASSUME TypeOK, [Next]_vars, NEW q \in late'
  PROVE  \/ q \in late
         \/ \E w \in Workers :
               pc[w] \in {"forwarding", "acknowledging"} /\ q = [op |-> pc[w], claim |-> claim[w]]
<1> USE DEF serverVars, lifeVars, taskVars
<1>1. ASSUME NEW ws \in SUBSET Workers, Delayed(ws), q \notin late
      PROVE  \E w \in Workers :
                pc[w] \in {"forwarding", "acknowledging"} /\ q = [op |-> pc[w], claim |-> claim[w]]
  BY <1>1 DEF Delayed
<1>2. ASSUME NEW w \in Workers, Step(w)
      PROVE  late' = late \/ Delayed({w})
  BY <1>2 DEF Step, Poll, NoMessage, ClaimReturned, PostReturned, AckReturned, ClaimFails,
              RpcFails, Abandon
<1>3. ASSUME NEW r \in Replicas, Lifespan(r) \/ BeginStop(r) \/ Crash(r)
      PROVE  late' = late \/ Delayed(Of(r))
  BY <1>3 DEF Lifespan, Start, BeginStop, CloseClient, CancelTasks, JoinTasks, Crash
<1>4. ASSUME \/ \E c \in Carts : Enqueue(c)
             \/ \E d \in late : LateArrives(d)
             \/ \E m \in Messages : LeaseExpires(m)
             \/ \E b \in beating : StaleHeartbeatEnds(b)
             \/ UNCHANGED vars
      PROVE  late' \subseteq late
  BY <1>4 DEF Enqueue, LateArrives, LeaseExpires, StaleHeartbeatEnds, vars
<1>5. \A r \in Replicas : Of(r) \subseteq Workers
  BY DEF Of
<1>6. \A w \in Workers : {w} \in SUBSET Workers
  OBVIOUS
<1>7. late' \subseteq late \/ (\E ws \in SUBSET Workers : Delayed(ws))
  <2>1. ASSUME NEW w \in Workers, Step(w)
        PROVE  late' \subseteq late \/ (\E ws \in SUBSET Workers : Delayed(ws))
    BY <1>2, <1>6, <2>1
  <2>2. ASSUME NEW r \in Replicas, Lifespan(r) \/ BeginStop(r) \/ Crash(r)
        PROVE  late' \subseteq late \/ (\E ws \in SUBSET Workers : Delayed(ws))
    BY <1>3, <1>5, <2>2
  <2> QED
    BY <1>4, <2>1, <2>2 DEF Next
<1>8. CASE q \notin late
  <2> PICK ws \in SUBSET Workers : Delayed(ws)
    BY <1>7, <1>8
  <2> QED
    BY <1>1, <1>8
<1> QED
  BY <1>8

LEMMA GroundedInit == Init => Grounded
BY DEF Init, Grounded

LEMMA GroundedStep == TypeOK /\ Forwarding /\ Grounded /\ [Next]_vars => Grounded'
<1> SUFFICES ASSUME TypeOK, Forwarding, Grounded, [Next]_vars PROVE Grounded'
  OBVIOUS
<1>1. /\ \A m \in Messages : status'[m] # "absent" => m[3] = 0
      /\ \A c \in Carts : MayForward(c) => MayForward(c)'
      /\ UNCHANGED invalid
  BY NextMessageStep, MessageStepGrounds DEF MessageStep
<1>2. ASSUME NEW k \in Claims, MayForward(k.message[2]) PROVE MayForward(k.message[2])'
  <2>1. k.message[2] \in Carts
    BY ClaimParts, MessageParts
  <2> QED
    BY <1>1, <1>2, <2>1
<1>3. ASSUME NEW w \in Workers, pc'[w] = "forwarding"
      PROVE  MayForward(claim[w].message[2])'
  <2>1. CASE pc[w] = "forwarding" /\ claim'[w] = claim[w]
    <3>1. claim[w] \in Claims /\ MayForward(claim[w].message[2])
      BY <2>1 DEF TypeOK, Processing, Grounded
    <3> PICK k \in Claims : k = claim[w]
      BY <3>1
    <3>2. MayForward(k.message[2])'
      BY <1>2, <3>1
    <3> QED
      BY <2>1, <3>2 DEF MayForward, StoreMessage
  <2>2. ASSUME NEW m \in Messages, Granted(m), m[1] = "store", m[2] \notin invalid,
               claim'[w].message = m
        PROVE  MayForward(claim[w].message[2])'
    <3>1. m = StoreMessage(m[2])
      BY <2>2, MessageParts DEF Granted, Grounded, StoreMessage
    <3>2. attempts'[m] > 0
      BY <2>2, StoreAssumption DEF Granted, TypeOK
    <3> QED
      BY <1>1, <2>2, <3>1, <3>2 DEF MayForward, StoreMessage
  <2> QED
    BY <1>3, <2>1, <2>2, ForwardingBegins
<1>4. ASSUME NEW q \in late', q.op = "forwarding"
      PROVE  MayForward(q.claim.message[2])'
  <2>1. q.claim \in Claims /\ MayForward(q.claim.message[2])
    <3>1. CASE q \in late
      BY <1>4, <3>1 DEF TypeOK, Requests, Grounded
    <3>2. ASSUME NEW w \in Workers, pc[w] = q.op, q.claim = claim[w]
          PROVE  q.claim \in Claims /\ MayForward(q.claim.message[2])
      BY <1>4, <3>2 DEF TypeOK, Processing, Grounded
    <3> QED
      BY <3>1, <3>2, LateBegins
  <2> QED
    BY <1>2, <2>1
<1> QED
  BY <1>1, <1>3, <1>4 DEF Grounded

(* A change of the message of a cart, as the two specifications see it.    *)
StatusBecomes(q, c, v) == status' = [status EXCEPT ![<<q, c, 0>>] = v]
StageBecomes(q, c, v) == Stage' = [Stage EXCEPT ![q][c] = v]

LEMMA StageMoves ==
  ASSUME TypeOK, NEW q \in Queues, NEW c \in Carts, NEW v, StatusBecomes(q, c, v)
  PROVE  StageBecomes(q, c, v)
<1> USE DEF StatusBecomes, StageBecomes
<1>1. ASSUME NEW p \in Queues, NEW d \in Carts
      PROVE  Stage'[p][d] = [Stage EXCEPT ![q][c] = v][p][d]
  <2>1. <<p, d, 0>> \in Messages /\ <<q, c, 0>> \in Messages
    BY MessageMade
  <2>2. Stage'[p][d] = status'[<<p, d, 0>>] /\ Stage[p][d] = status[<<p, d, 0>>]
    BY DEF Stage
  <2>3. status'[<<p, d, 0>>] = IF p = q /\ d = c THEN v ELSE status[<<p, d, 0>>]
    BY <2>1 DEF TypeOK
  <2> QED
    BY <2>2, <2>3 DEF Stage
<1>2. Stage' = [p \in Queues |-> [d \in Carts |-> Stage'[p][d]]]
  BY DEF Stage
<1>3. [Stage EXCEPT ![q][c] = v] =
          [p \in Queues |-> [d \in Carts |-> [Stage EXCEPT ![q][c] = v][p][d]]]
  BY DEF Stage
<1> QED
  BY <1>1, <1>2, <1>3

LEMMA TriesMove ==
  ASSUME TypeOK, NEW q \in Queues, NEW c \in Carts,
         attempts' = [attempts EXCEPT ![<<q, c, 0>>] = @ + 1]
  PROVE  Tries' = [Tries EXCEPT ![q][c] = @ + 1]
<1>1. ASSUME NEW p \in Queues, NEW d \in Carts
      PROVE  Tries'[p][d] = [Tries EXCEPT ![q][c] = @ + 1][p][d]
  <2>1. <<p, d, 0>> \in Messages /\ <<q, c, 0>> \in Messages
    BY MessageMade
  <2>2. Tries'[p][d] = attempts'[<<p, d, 0>>] /\ Tries[p][d] = attempts[<<p, d, 0>>]
    BY DEF Tries
  <2>3. attempts'[<<p, d, 0>>] = IF p = q /\ d = c THEN attempts[<<p, d, 0>>] + 1
                                 ELSE attempts[<<p, d, 0>>]
    BY <2>1 DEF TypeOK
  <2> QED
    BY <2>2, <2>3 DEF Tries
<1>2. Tries' = [p \in Queues |-> [d \in Carts |-> Tries'[p][d]]]
  BY DEF Tries
<1>3. [Tries EXCEPT ![q][c] = @ + 1] =
          [p \in Queues |-> [d \in Carts |-> [Tries EXCEPT ![q][c] = @ + 1][p][d]]]
  BY DEF Tries
<1> QED
  BY <1>1, <1>2, <1>3

(* The messages of a cart, where the map finds them.                       *)
LEMMA FlowParts ==
  ASSUME NEW q \in Queues, NEW c \in Carts
  PROVE  Stage[q][c] = status[<<q, c, 0>>] /\ Tries[q][c] = attempts[<<q, c, 0>>]
BY DEF Stage, Tries

LEMMA GroundedParts ==
  ASSUME Grounded, NEW m \in Messages, status[m] # "absent"
  PROVE  m[1] \in Queues /\ m[2] \in Carts /\ m = <<m[1], m[2], 0>>
BY MessageParts DEF Grounded

LEMMA FlowUnchanged ==
  /\ UNCHANGED status => UNCHANGED Stage
  /\ UNCHANGED attempts => UNCHANGED Tries
BY DEF Stage, Tries

LEMMA MessageStepFlows ==
  ASSUME TypeOK, Forwarding, Grounded, MessageStep
  PROVE  [Flow!FlowNext]_(Flow!flowVars)
<1> USE DEF Queues
<1>0. UNCHANGED invalid
  BY DEF MessageStep
<1>1. ASSUME NEW q \in Queues, NEW c \in Carts, Posted(<<q, c, 0>>), UNCHANGED attempts,
             q = "checkout" => MayForward(c)
      PROVE  [Flow!FlowNext]_(Flow!flowVars)
  <2>1. CASE status[<<q, c, 0>>] = "absent"
    <3>1. StatusBecomes(q, c, "PENDING")
      BY <1>1, <2>1, MessageMade DEF Posted, TypeOK, StatusBecomes
    <3>2. StageBecomes(q, c, "PENDING") /\ UNCHANGED Tries
      BY <1>1, <3>1, StageMoves, FlowUnchanged
    <3>3. Flow!Move(q, c, "absent", "PENDING")
      BY <1>0, <2>1, <3>2, FlowParts DEF Flow!Move, StageBecomes
    <3>4. CASE q = "store"
      BY <3>2, <3>3, <3>4 DEF Flow!Accept, Flow!FlowNext
    <3>5. CASE q = "checkout"
      <4>1. c \notin invalid /\ Tries["store"][c] > 0
        BY <1>1, <3>5, FlowParts DEF MayForward, StoreMessage
      <4> QED
        BY <3>2, <3>3, <3>5, <4>1 DEF Flow!Forward, Flow!FlowNext
    <3> QED
      BY <3>4, <3>5
  <2>2. CASE status[<<q, c, 0>>] # "absent"
    <3>1. UNCHANGED status
      BY <1>1, <2>2, MessageMade DEF Posted, TypeOK
    <3> QED
      BY <1>0, <1>1, <3>1, FlowUnchanged DEF Flow!flowVars
  <2> QED
    BY <2>1, <2>2
<1>2. CASE EntersQueue
  BY <1>1, <1>2 DEF EntersQueue, StoreMessage
<1>3. CASE Posts
  BY <1>1, <1>3 DEF Posts
<1>4. CASE Leases
  <2> PICK m \in Messages : Granted(m)
    BY <1>4 DEF Leases
  <2> PICK q \in Queues, c \in Carts : m = <<q, c, 0>>
    BY GroundedParts DEF Granted
  <2>1. StageBecomes(q, c, "RUNNING")
    <3>1. StatusBecomes(q, c, "RUNNING")
      BY DEF Granted, StatusBecomes
    <3> QED
      BY <3>1, StageMoves
  <2>2. Tries' = [Tries EXCEPT ![q][c] = @ + 1]
    BY TriesMove DEF Granted
  <2>3. Stage[q][c] = "PENDING" /\ Tries[q][c] < MaxAttempts
    BY FlowParts DEF Granted
  <2>4. q = "checkout" => \A d \in Carts : Stage[q][d] # "RUNNING"
    BY FlowParts, MessageMade DEF Granted
  <2>5. Flow!Try(q, c)
    BY <1>0, <2>1, <2>2, <2>3, <2>4 DEF Flow!Try, Flow!Move, StageBecomes
  <2> QED
    BY <2>5 DEF Flow!FlowNext
<1>5. CASE Acknowledges
  <2> PICK k \in Claims : ForwardedIfStore(k) /\ Completed(k) /\ UNCHANGED attempts
    BY <1>5 DEF Acknowledges
  <2>1. k.message \in Messages /\ status[k.message] = "RUNNING"
    BY ClaimParts DEF Completed, Active
  <2> PICK q \in Queues, c \in Carts : k.message = <<q, c, 0>>
    BY <2>1, GroundedParts
  <2>2. StatusBecomes(q, c, "COMPLETED")
    BY DEF Completed, StatusBecomes
  <2>3. StageBecomes(q, c, "COMPLETED") /\ UNCHANGED Tries
    BY <2>2, StageMoves, FlowUnchanged
  <2>4. Stage[q][c] = "RUNNING"
    BY <2>1, FlowParts
  <2>5. q = "store" => c \notin invalid /\ Stage["checkout"][c] # "absent"
    BY FlowParts DEF ForwardedIfStore, Forwarded
  <2>6. Flow!Finish(q, c)
    BY <1>0, <2>3, <2>4, <2>5 DEF Flow!Finish, Flow!Move, StageBecomes
  <2> QED
    BY <2>6 DEF Flow!FlowNext
<1>6. CASE Expires
  <2> PICK m \in Messages :
        /\ status[m] = "RUNNING"
        /\ status' = [status EXCEPT ![m] = IF attempts[m] < MaxAttempts THEN "PENDING" ELSE "DLQ"]
    BY <1>6 DEF Expires
  <2> PICK q \in Queues, c \in Carts : m = <<q, c, 0>>
    BY GroundedParts
  <2> DEFINE v == IF Tries[q][c] < MaxAttempts THEN "PENDING" ELSE "DLQ"
  <2>0. StatusBecomes(q, c, v)
    BY FlowParts DEF StatusBecomes
  <2>1. StageBecomes(q, c, v) /\ UNCHANGED Tries
    <3> HIDE DEF v
    <3> QED
      BY <1>6, <2>0, StageMoves, FlowUnchanged DEF Expires
  <2>2. Stage[q][c] = "RUNNING"
    BY FlowParts
  <2>3. Flow!GiveUp(q, c)
    BY <1>0, <2>1, <2>2 DEF Flow!GiveUp, Flow!Move, StageBecomes
  <2> QED
    BY <2>3 DEF Flow!FlowNext
<1>7. CASE UNCHANGED <<status, attempts>>
  BY <1>0, <1>7, FlowUnchanged DEF Flow!flowVars
<1> QED
  BY <1>2, <1>3, <1>4, <1>5, <1>6, <1>7 DEF MessageStep

LEMMA FlowStarts == Init => Flow!FlowInit
<1> SUFFICES ASSUME Init PROVE Flow!FlowInit
  OBVIOUS
<1>1. \A q \in Queues, c \in Carts : status[<<q, c, 0>>] = "absent" /\ attempts[<<q, c, 0>>] = 0
  BY MessageMade DEF Init
<1>2. Stage = [q \in Queues |-> [c \in Carts |-> "absent"]]
  BY <1>1 DEF Stage
<1>3. Tries = [q \in Queues |-> [c \in Carts |-> 0]]
  BY <1>1 DEF Tries
<1> QED
  BY <1>2, <1>3 DEF Flow!FlowInit, Init, Queues

(* Whatever the replicas, their crashes and the network do, a cart goes    *)
(* from queue to queue as CartFlow lets it: run_worker and process_once    *)
(* implement it, with the claims and retries of the server.                *)
THEOREM ImplementsCartFlow == Spec => RefinesCartFlow
<1>1. TypeOK /\ Forwarding /\ Grounded /\ [Next]_vars => [Flow!FlowNext]_(Flow!flowVars)
  BY NextMessageStep, MessageStepFlows
<1> QED
  BY <1>1, TypeInit, TypeStep, ForwardingInit, ForwardingStep, GroundedInit, GroundedStep,
     FlowStarts, PTL DEF Spec, RefinesCartFlow, Flow!FlowSpec

-----------------------------------------------------------------------------
(* The safety half of CartsSettle: a message changes its state only so     *)
(* often.                                                                  *)

(* Each attempt costs a lease and its end.                                 *)
StepsLeft(m) ==
    CASE status[m] = "absent" -> 2 * MaxAttempts + 2
      [] status[m] = "PENDING" -> 2 * (MaxAttempts - attempts[m]) + 1
      [] status[m] = "RUNNING" -> 2 * (MaxAttempts - attempts[m]) + 2
      [] OTHER -> 0

RunsOut ==
    \A m \in Messages :
        StepsLeft(m)' < StepsLeft(m) \/ UNCHANGED <<status[m], StepsLeft(m)>>

LEMMA StepsLeftTyped ==
  ASSUME TypeOK, NEW m \in Messages
  PROVE  StepsLeft(m) \in 0..(2 * MaxAttempts + 2)
<1>1. attempts[m] \in 0..MaxAttempts /\ status[m] \in Statuses /\ MaxAttempts \in Nat
  BY StoreAssumption DEF TypeOK
<1> QED
  BY <1>1 DEF StepsLeft

LEMMA StatusRunsOut ==
  ASSUME TypeOK, MessageStep
  PROVE  RunsOut
<1> SUFFICES ASSUME NEW m \in Messages
             PROVE  StepsLeft(m)' < StepsLeft(m) \/ UNCHANGED <<status[m], StepsLeft(m)>>
  BY DEF RunsOut
<1>0. CASE status'[m] = status[m]
  <2>1. attempts'[m] = attempts[m]
    BY <1>0 DEF MessageStep, EntersQueue, Posts, Leases, Granted, Acknowledges, Expires, TypeOK
  <2> QED
    BY <1>0, <2>1 DEF StepsLeft
<1> SUFFICES ASSUME status'[m] # status[m] PROVE StepsLeft(m)' < StepsLeft(m)
  BY <1>0
<1>1. attempts[m] \in 0..MaxAttempts /\ MaxAttempts \in Nat
  BY StoreAssumption DEF TypeOK
<1>2. ASSUME NEW n \in Messages, Posted(n), UNCHANGED attempts PROVE StepsLeft(m)' < StepsLeft(m)
  <2>1. status[m] = "absent" /\ status'[m] = "PENDING"
    BY <1>2 DEF Posted, TypeOK
  <2> QED
    BY <1>1, <1>2, <2>1 DEF StepsLeft
<1>3. CASE EntersQueue
  BY <1>2, <1>3, StoreMessageTyped DEF EntersQueue
<1>4. CASE Posts
  BY <1>2, <1>4, MessageMade DEF Posts, Queues
<1>5. CASE Leases
  <2>1. status[m] = "PENDING" /\ status'[m] = "RUNNING" /\ attempts'[m] = attempts[m] + 1
    BY <1>5 DEF Leases, Granted, TypeOK
  <2> QED
    BY <1>1, <2>1 DEF StepsLeft
<1>6. CASE Acknowledges
  <2>1. status[m] = "RUNNING" /\ status'[m] = "COMPLETED"
    BY <1>6, ClaimParts DEF Acknowledges, Completed, Active, TypeOK
  <2> QED
    BY <1>1, <2>1 DEF StepsLeft
<1>7. CASE Expires
  <2>1. status[m] = "RUNNING" /\ status'[m] \in {"PENDING", "DLQ"} /\ UNCHANGED attempts
    BY <1>7 DEF Expires, TypeOK
  <2> QED
    BY <1>1, <2>1 DEF StepsLeft
<1> QED
  BY <1>3, <1>4, <1>5, <1>6, <1>7 DEF MessageStep

(* No message changes its state more than 2 * max_attempts + 2 times,      *)
(* however often workers crash and requests are repeated: a cart that is   *)
(* retried is retried for one attempt less, and what is settled stays so.  *)
(* This is why carts settle once the queue and its workers are fair.       *)
THEOREM CartsRunOut ==
  Spec => [](\A m \in Messages : StepsLeft(m) \in 0..(2 * MaxAttempts + 2)) /\ [][RunsOut]_vars
<1>1. TypeOK => \A m \in Messages : StepsLeft(m) \in 0..(2 * MaxAttempts + 2)
  BY StepsLeftTyped
<1>2. TypeOK /\ Forwarding /\ Grounded /\ [Next]_vars => [RunsOut]_vars
  BY NextMessageStep, StatusRunsOut
<1> QED
  BY <1>1, <1>2, TypeInit, TypeStep, ForwardingInit, ForwardingStep, GroundedInit, GroundedStep,
     PTL DEF Spec

=============================================================================
