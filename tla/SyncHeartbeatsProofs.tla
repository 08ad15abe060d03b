------------------------ MODULE SyncHeartbeatsProofs ------------------------
(***************************************************************************)
(* Proofs about SyncHeartbeats, for every set of calls and claims, every   *)
(* capacity and every max_count.                                           *)
(***************************************************************************)
EXTENDS SyncHeartbeats, FiniteSetTheorems, TLAPS

USE DEF MaxRetries

-----------------------------------------------------------------------------
(* Type correctness.                                                       *)

(* A worker that may still send has failed fewer than three times in a row *)
(* and one that is sending has not used up max_count.                      *)
CountersBounded ==
    \A c \in Calls :
        /\ work[c] \in {"none", "queued", "check", "sending", "waiting"} =>
               retries[c] < MaxRetries
        /\ work[c] = "sending" => sent[c] < MaxCount

(* A slot is held by a call between reserve and its finally block; only a  *)
(* finished call has a worker, and that worker has the call's claim.       *)
CallStages ==
    \A c \in Calls :
        /\ c \in reserved => pc[c] \in {"claiming", "starting", "finally"}
        /\ pc[c] = "starting" => c \in reserved /\ claimOf[c] \in Claims
        /\ work[c] # "none" => pc[c] = "done" /\ claimOf[c] \in Claims

TypeInv == TypeOK /\ CountersBounded /\ CallStages

LEMMA TypeInit == Init => TypeInv
<1> SUFFICES ASSUME Init PROVE TypeInv
  OBVIOUS
<1>1. RegistryTypeOK
  <2>0. closed \in BOOLEAN
    BY Zenon DEF Init, RegistryInit
  <2>1. /\ reservations \in Int
        /\ workers \in [Claims -> Calls \cup {NoCall}]
        /\ stopped \subseteq Calls
        /\ claimOf \in [Calls -> Claims \cup {NoClaim}]
    BY DEF Init, RegistryInit
  <2>2. 0 \in 0..MaxCount
    BY RegistryAssumption
  <2>3. sent \in [Calls -> 0..MaxCount] /\ retries \in [Calls -> 0..3]
    BY <2>2 DEF Init, RegistryInit
  <2> QED
    BY <2>0, <2>1, <2>3 DEF RegistryTypeOK
<1>2. /\ pc \in [Calls -> CallPCs]
      /\ reserved \subseteq Calls
      /\ work \in [Calls -> WorkPCs]
      /\ threads \in 0..Capacity
  BY RegistryAssumption DEF Init, CallPCs, WorkPCs
<1>3. /\ cpc \in [Closers -> ClosePCs]
      /\ host \in [Closers -> Calls \cup {App}]
      /\ joining \in [Closers -> SUBSET Calls]
      /\ channelOpen \in BOOLEAN
      /\ executorOpen \in BOOLEAN
  BY DEF Init, ClosePCs
<1>4. CountersBounded
  BY DEF Init, RegistryInit, CountersBounded
<1>5. CallStages
  BY DEF Init, CallStages
<1> QED
  BY <1>1, <1>2, <1>3, <1>4, <1>5 DEF TypeInv, TypeOK

LEMMA TypeStep == TypeInv /\ [Next]_vars => TypeInv'
<1> SUFFICES ASSUME TypeInv, [Next]_vars PROVE TypeInv'
  OBVIOUS
<1> USE RegistryAssumption, SyncAssumption
    DEF TypeInv, TypeOK, RegistryTypeOK, CountersBounded, CallStages, CallPCs, WorkPCs, ClosePCs,
        registryVars, callVars, closeVars, workerUnchanged, Goto, Work
<1>1. ASSUME NEW c \in Calls, GetNext(c) PROVE TypeInv'
  <2>1. CASE \/ EnterGetNext(c) \/ LeaveUnreserved(c) \/ ClaimWithoutHeartbeat(c)
             \/ ClaimFails(c) \/ StartRaises(c)
    BY <2>1 DEF EnterGetNext, LeaveUnreserved, ClaimWithoutHeartbeat, ClaimFails,
          StartRaises
  <2>2. CASE ReserveSlot(c)
    BY <2>2 DEF ReserveSlot, Reserve
  <2>3. ASSUME NEW k \in Claims, ClaimReturned(c, k) PROVE TypeInv'
    BY <2>3 DEF ClaimReturned
  <2>4. CASE StartWorker(c)
    <3>1. threads' \in 0..Capacity
      BY <2>4 DEF StartWorker
    <3>2. workers' \in [Claims -> Calls \cup {NoCall}]
      BY <2>4 DEF StartWorker, Register
    <3>3. /\ pc' \in [Calls -> CallPCs]
          /\ work' \in [Calls -> WorkPCs]
          /\ reserved' \subseteq Calls
      BY <2>4 DEF StartWorker
    <3>4. CountersBounded' /\ CallStages'
      BY <2>4 DEF StartWorker
    <3> QED
      BY <2>4, <3>1, <3>2, <3>3, <3>4 DEF StartWorker
  <2>5. CASE LeaveGetNext(c)
    BY <2>5 DEF LeaveGetNext, Release
  <2> QED
    BY <1>1, <2>1, <2>2, <2>3, <2>4, <2>5 DEF GetNext
<1>2. ASSUME NEW c \in Calls, WorkerLoop(c) PROVE TypeInv'
  BY <1>2 DEF WorkerLoop, RunWorker, SendHeartbeat, LeaveLoop, HeartbeatReturned,
        Succeeded, HeartbeatFailsStopped, HeartbeatFails, Failed, GivesUp,
        HeartbeatBreaks, Wake, FinishWorker, Finish, ThreadFreed
<1>3. ASSUME NEW c \in Calls, CallbackReturns(c) PROVE TypeInv'
  BY <1>3 DEF CallbackReturns
<1>4. ASSUME NEW k \in Claims, StopHeartbeat(k) PROVE TypeInv'
  BY <1>4 DEF StopHeartbeat, Stop
<1>5. ASSUME NEW x \in Closers, Close(x) PROVE TypeInv'
  BY <1>5 DEF Close, CloseChannel, JoinFutures, JoinTimesOut, DrainThreads
<1>6. ASSUME NEW x \in Closers, NEW t \in Calls \cup {App}, BeginClose(x, t)
      PROVE  TypeInv'
  BY <1>6 DEF BeginClose, BeginCloseRegistry, CloseFutures, RegisteredWorkers
<1>7. CASE UNCHANGED vars
  BY <1>7 DEF vars
<1> QED
  BY <1>1, <1>2, <1>3, <1>4, <1>5, <1>6, <1>7 DEF Next

(* Every variable keeps its type; in particular sent never exceeds         *)
(* max_count and a worker fails at most three times in a row.              *)
THEOREM TypeCorrect == Spec => []TypeOK
<1>1. TypeInv => TypeOK
  BY DEF TypeInv
<1> QED
  BY TypeInit, TypeStep, <1>1, PTL DEF Spec

-----------------------------------------------------------------------------
(* The registry lists exactly the live workers.                            *)

LEMMA RegistryInitExact == Init => RegistryIsExact
BY RegistryAssumption DEF Init, RegistryInit, RegistryIsExact, Live

LEMMA RegistryStep == TypeInv /\ RegistryIsExact /\ [Next]_vars => RegistryIsExact'
<1> SUFFICES ASSUME TypeInv, RegistryIsExact, [Next]_vars PROVE RegistryIsExact'
  OBVIOUS
<1> USE RegistryAssumption
    DEF TypeInv, TypeOK, RegistryTypeOK, CallStages, RegistryIsExact, Live,
        registryVars, callVars, closeVars, workerUnchanged, Goto, Work
<1>1. ASSUME NEW c \in Calls, GetNext(c) PROVE RegistryIsExact'
  <2>1. CASE \/ EnterGetNext(c) \/ LeaveUnreserved(c) \/ ClaimWithoutHeartbeat(c)
             \/ ClaimFails(c) \/ StartRaises(c) \/ ReserveSlot(c) \/ LeaveGetNext(c)
    BY <2>1 DEF EnterGetNext, LeaveUnreserved, ClaimWithoutHeartbeat, ClaimFails,
          StartRaises, ReserveSlot, LeaveGetNext
  <2>2. ASSUME NEW k \in Claims, ClaimReturned(c, k) PROVE RegistryIsExact'
    BY <2>2 DEF ClaimReturned
  <2>3. CASE StartWorker(c)
    BY <2>3 DEF StartWorker, Register, CanRegister
  <2> QED
    BY <1>1, <2>1, <2>2, <2>3 DEF GetNext
<1>2. ASSUME NEW c \in Calls, WorkerLoop(c) PROVE RegistryIsExact'
  <2>1. CASE FinishWorker(c)
    BY <2>1 DEF FinishWorker, Finish
  <2>2. CASE ~FinishWorker(c)
    BY <1>2, <2>2 DEF WorkerLoop, RunWorker, SendHeartbeat, LeaveLoop,
          HeartbeatReturned, HeartbeatFailsStopped, HeartbeatFails,
          HeartbeatBreaks, Wake, ThreadFreed
  <2> QED
    BY <2>1, <2>2
<1>3. ASSUME NEW c \in Calls, CallbackReturns(c) PROVE RegistryIsExact'
  BY <1>3 DEF CallbackReturns
<1>4. ASSUME NEW k \in Claims, StopHeartbeat(k) PROVE RegistryIsExact'
  BY <1>4 DEF StopHeartbeat
<1>5. ASSUME NEW x \in Closers, Close(x) PROVE RegistryIsExact'
  BY <1>5 DEF Close, CloseChannel, JoinFutures, JoinTimesOut, DrainThreads
<1>6. ASSUME NEW x \in Closers, NEW t \in Calls \cup {App}, BeginClose(x, t)
      PROVE  RegistryIsExact'
  BY <1>6 DEF BeginClose
<1>7. CASE UNCHANGED vars
  BY <1>7 DEF vars
<1> QED
  BY <1>1, <1>2, <1>3, <1>4, <1>5, <1>6, <1>7 DEF Next

(* Registry.workers names exactly the live workers, each under its claim.  *)
THEOREM RegistryExact == Spec => []RegistryIsExact
BY TypeInit, TypeStep, RegistryInitExact, RegistryStep, PTL DEF Spec

-----------------------------------------------------------------------------
(* Slot accounting.                                                        *)

LEMMA HoldersFinite ==
  ASSUME TypeInv
  PROVE  IsFiniteSet(SlotHolders) /\ Cardinality(SlotHolders) \in Nat
<1>1. SlotHolders \subseteq Calls
  BY DEF TypeInv, TypeOK, SlotHolders, In
<1> QED
  BY <1>1, RegistryAssumption, FS_Subset, FS_CardinalityType

(* A step that leaves the holders and the counter alone.                   *)
LEMMA SameHolders ==
  ASSUME SlotAccounting, SlotHolders' = SlotHolders, reservations' = reservations
  PROVE  SlotAccounting'
BY DEF SlotAccounting

(* A step by which c takes a slot.                                         *)
LEMMA HolderEnters ==
  ASSUME TypeInv, SlotAccounting, NEW c, c \notin SlotHolders,
         SlotHolders' = SlotHolders \cup {c}, reservations' = reservations + 1
  PROVE  SlotAccounting'
BY HoldersFinite, FS_AddElement DEF SlotAccounting

(* A step by which c gives its slot back.                                  *)
LEMMA HolderLeaves ==
  ASSUME TypeInv, SlotAccounting, NEW c \in SlotHolders,
         SlotHolders' = SlotHolders \ {c}, reservations' = reservations - 1
  PROVE  SlotAccounting'
BY HoldersFinite, FS_RemoveElement DEF SlotAccounting

LEMMA SlotInit == Init => SlotAccounting
<1> SUFFICES ASSUME Init PROVE SlotAccounting
  OBVIOUS
<1>1. SlotHolders = {}
  BY DEF Init, SlotHolders, In, Live
<1> QED
  BY <1>1, FS_EmptySet DEF Init, RegistryInit, SlotAccounting

LEMMA SlotStep == TypeInv /\ SlotAccounting /\ [Next]_vars => SlotAccounting'
<1> SUFFICES ASSUME TypeInv, SlotAccounting, [Next]_vars PROVE SlotAccounting'
  OBVIOUS
<1> USE DEF TypeInv, TypeOK, RegistryTypeOK, CallStages, registryVars, callVars,
            closeVars, workerUnchanged, Goto, Work, SlotHolders, In, Live
<1>1. ASSUME NEW c \in Calls, GetNext(c) PROVE SlotAccounting'
  <2>1. CASE \/ EnterGetNext(c) \/ LeaveUnreserved(c) \/ ClaimWithoutHeartbeat(c)
             \/ ClaimFails(c) \/ StartRaises(c)
             \/ \E k \in Claims : ClaimReturned(c, k)
    BY <2>1, SameHolders DEF EnterGetNext, LeaveUnreserved, ClaimWithoutHeartbeat,
          ClaimFails, StartRaises, ClaimReturned
  <2>2. CASE ReserveSlot(c)
    <3>1. c \notin SlotHolders
      BY <2>2 DEF ReserveSlot
    <3>2. SlotHolders' = SlotHolders \cup {c}
      BY <2>2 DEF ReserveSlot
    <3> QED
      BY <2>2, <3>1, <3>2, HolderEnters DEF ReserveSlot, Reserve
  <2>3. CASE StartWorker(c)
    <3>1. SlotHolders' = SlotHolders
      BY <2>3 DEF StartWorker
    <3> QED
      BY <2>3, <3>1, SameHolders DEF StartWorker
  <2>4. CASE LeaveGetNext(c)
    <3>1. CASE c \in reserved
      <4>1. SlotHolders' = SlotHolders \ {c}
        BY <2>4, <3>1 DEF LeaveGetNext
      <4> QED
        BY <2>4, <3>1, <4>1, HolderLeaves DEF LeaveGetNext, Release
    <3>2. CASE c \notin reserved
      BY <2>4, <3>2, SameHolders DEF LeaveGetNext
    <3> QED
      BY <3>1, <3>2
  <2> QED
    BY <1>1, <2>1, <2>2, <2>3, <2>4 DEF GetNext
<1>2. ASSUME NEW c \in Calls, WorkerLoop(c) PROVE SlotAccounting'
  <2>1. CASE FinishWorker(c)
    <3>1. SlotHolders' = SlotHolders \ {c} /\ c \in SlotHolders
      BY <2>1 DEF FinishWorker
    <3> QED
      BY <2>1, <3>1, HolderLeaves DEF FinishWorker, Finish
  <2>2. CASE ~FinishWorker(c)
    <3>1. SlotHolders' = SlotHolders /\ reservations' = reservations
      BY <1>2, <2>2 DEF WorkerLoop, RunWorker, SendHeartbeat, LeaveLoop,
            HeartbeatReturned, HeartbeatFailsStopped, HeartbeatFails,
            HeartbeatBreaks, Wake, ThreadFreed
    <3> QED
      BY <3>1, SameHolders
  <2> QED
    BY <2>1, <2>2
<1>3. ASSUME NEW c \in Calls, CallbackReturns(c) PROVE SlotAccounting'
  BY <1>3, SameHolders DEF CallbackReturns
<1>4. ASSUME NEW k \in Claims, StopHeartbeat(k) PROVE SlotAccounting'
  BY <1>4, SameHolders DEF StopHeartbeat
<1>5. ASSUME NEW x \in Closers, Close(x) PROVE SlotAccounting'
  BY <1>5, SameHolders DEF Close, CloseChannel, JoinFutures, JoinTimesOut, DrainThreads
<1>6. ASSUME NEW x \in Closers, NEW t \in Calls \cup {App}, BeginClose(x, t)
      PROVE  SlotAccounting'
  BY <1>6, SameHolders DEF BeginClose
<1>7. CASE UNCHANGED vars
  BY <1>7, SameHolders DEF vars
<1> QED
  BY <1>1, <1>2, <1>3, <1>4, <1>5, <1>6, <1>7 DEF Next

(* The reservation counter is always the number of slot owners: no path    *)
(* loses a slot and none gives one back twice.                             *)
THEOREM SlotsAccounted == Spec => []SlotAccounting
BY TypeInit, TypeStep, SlotInit, SlotStep, PTL DEF Spec

-----------------------------------------------------------------------------
(* Bounded admission.                                                      *)

WithinCapacity == reservations <= Capacity

LEMMA CapacityStep == TypeInv /\ WithinCapacity /\ [Next]_vars => WithinCapacity'
<1> SUFFICES ASSUME TypeInv, WithinCapacity, [Next]_vars PROVE WithinCapacity'
  OBVIOUS
<1> USE RegistryAssumption
    DEF TypeInv, TypeOK, RegistryTypeOK, WithinCapacity, registryVars, callVars,
        closeVars, workerUnchanged
<1>1. ASSUME NEW c \in Calls, GetNext(c) PROVE WithinCapacity'
  BY <1>1 DEF GetNext, EnterGetNext, LeaveUnreserved, ReserveSlot, Reserve, CanReserve,
        ClaimWithoutHeartbeat, ClaimReturned, ClaimFails, StartWorker, StartRaises,
        LeaveGetNext, Release
<1>2. ASSUME NEW c \in Calls, WorkerLoop(c) PROVE WithinCapacity'
  BY <1>2 DEF WorkerLoop, RunWorker, SendHeartbeat, LeaveLoop, HeartbeatReturned,
        HeartbeatFailsStopped, HeartbeatFails, HeartbeatBreaks, Wake, FinishWorker,
        Finish, ThreadFreed
<1>3. ASSUME NEW c \in Calls, CallbackReturns(c) PROVE WithinCapacity'
  BY <1>3 DEF CallbackReturns
<1>4. ASSUME NEW k \in Claims, StopHeartbeat(k) PROVE WithinCapacity'
  BY <1>4 DEF StopHeartbeat
<1>5. ASSUME NEW x \in Closers, Close(x) PROVE WithinCapacity'
  BY <1>5 DEF Close, CloseChannel, JoinFutures, JoinTimesOut, DrainThreads
<1>6. ASSUME NEW x \in Closers, NEW t \in Calls \cup {App}, BeginClose(x, t)
      PROVE  WithinCapacity'
  BY <1>6 DEF BeginClose
<1>7. CASE UNCHANGED vars
  BY <1>7 DEF vars
<1> QED
  BY <1>1, <1>2, <1>3, <1>4, <1>5, <1>6, <1>7 DEF Next

(* The calls between reserve and their finally block and the workers the   *)
(* registry lists are never more than heartbeat_thread_pool_size.          *)
THEOREM AdmissionIsBounded == Spec => []AdmissionBounded
<1>1. Init => WithinCapacity
  BY RegistryAssumption DEF Init, RegistryInit, WithinCapacity
<1>2. ASSUME TypeInv, RegistryIsExact, SlotAccounting, WithinCapacity
      PROVE  AdmissionBounded
  <2>1. RegisteredWorkers \subseteq In(Live)
    BY <1>2 DEF RegisteredWorkers, RegistryIsExact, In, TypeInv, TypeOK, RegistryTypeOK
  <2>2. reserved \cup RegisteredWorkers \subseteq SlotHolders
    BY <2>1 DEF SlotHolders
  <2>3. Cardinality(reserved \cup RegisteredWorkers) <= Cardinality(SlotHolders)
    BY <1>2, <2>2, HoldersFinite, FS_Subset
  <2>4. Cardinality(reserved \cup RegisteredWorkers) \in Nat
    BY <1>2, <2>2, HoldersFinite, FS_Subset, FS_CardinalityType
  <2> QED
    BY <1>2, <2>3, <2>4, HoldersFinite, RegistryAssumption
       DEF SlotAccounting, WithinCapacity, AdmissionBounded
<1> QED
  BY <1>1, <1>2, CapacityStep, TypeInit, TypeStep, RegistryInitExact, RegistryStep,
     SlotInit, SlotStep, PTL DEF Spec

-----------------------------------------------------------------------------
(* Closing.                                                                *)

(* After begin_close no work begins, so what a close() waits for can only  *)
(* shrink.                                                                 *)
LEMMA ClosedShrinks ==
  ASSUME TypeInv, closed, [Next]_vars
  PROVE  closed' /\ In(Live)' \subseteq In(Live) /\ In(Pending)' \subseteq In(Pending)
<1> USE DEF TypeInv, TypeOK, registryVars, callVars, closeVars, workerUnchanged, Goto,
            Work, In, Live, Pending
<1> DEFINE Goal == closed' /\ In(Live)' \subseteq In(Live) /\ In(Pending)' \subseteq In(Pending)
<1>1. ASSUME NEW c \in Calls, GetNext(c) PROVE Goal
  BY <1>1 DEF GetNext, EnterGetNext, LeaveUnreserved, ReserveSlot, Reserve, CanReserve,
        ClaimWithoutHeartbeat, ClaimReturned, ClaimFails, StartWorker, Register,
        CanRegister, StartRaises, LeaveGetNext
<1>2. ASSUME NEW c \in Calls, WorkerLoop(c) PROVE Goal
  BY <1>2 DEF WorkerLoop, RunWorker, SendHeartbeat, LeaveLoop, HeartbeatReturned,
        HeartbeatFailsStopped, HeartbeatFails, HeartbeatBreaks, Wake, FinishWorker,
        ThreadFreed
<1>3. ASSUME NEW c \in Calls, CallbackReturns(c) PROVE Goal
  BY <1>3 DEF CallbackReturns
<1>4. ASSUME NEW k \in Claims, StopHeartbeat(k) PROVE Goal
  BY <1>4 DEF StopHeartbeat
<1>5. ASSUME NEW x \in Closers, Close(x) PROVE Goal
  BY <1>5 DEF Close, CloseChannel, JoinFutures, JoinTimesOut, DrainThreads
<1>6. ASSUME NEW x \in Closers, NEW t \in Calls \cup {App}, BeginClose(x, t) PROVE Goal
  BY <1>6 DEF BeginClose, BeginCloseRegistry
<1>7. CASE UNCHANGED vars
  BY <1>7 DEF vars
<1> QED
  BY <1>1, <1>2, <1>3, <1>4, <1>5, <1>6, <1>7 DEF Next

(* Every close() waits for all live workers; one that runs inside a        *)
(* callback holds its own worker live, so it can never finish waiting.     *)
CloseStage(x) ==
    /\ cpc[x] = "idle" => host[x] = App
    /\ cpc[x] # "idle" => closed /\ In(Live) \subseteq joining[x]
    /\ host[x] # App /\ cpc[x] \in {"signalled", "joining"} => work[host[x]] = "notifying"
    /\ host[x] # App => cpc[x] \notin {"draining", "closed"}
    /\ cpc[x] = "draining" => In(Live) = {}
    /\ cpc[x] = "closed" => In(Pending) = {}

CloseInv == \A x \in Closers : CloseStage(x)

LEMMA CloseInit == Init => CloseInv
BY DEF Init, CloseInv, CloseStage

(* A step that is no step of close x keeps what is known of it.            *)
LEMMA CloseFrame ==
  ASSUME TypeInv, [Next]_vars, NEW x \in Closers, CloseStage(x),
         cpc'[x] = cpc[x], host'[x] = host[x], joining'[x] = joining[x],
         \A c \in Calls : Closing(c) /\ work[c] = "notifying" => work'[c] = "notifying"
  PROVE  CloseStage(x)'
<1>1. CASE cpc[x] = "idle"
  BY <1>1 DEF CloseStage
<1>2. CASE cpc[x] # "idle"
  <2>1. closed' /\ In(Live)' \subseteq In(Live) /\ In(Pending)' \subseteq In(Pending)
    BY <1>2, ClosedShrinks DEF CloseStage
  <2>2. host[x] # App /\ cpc[x] \in {"signalled", "joining"} => work'[host[x]] = "notifying"
    BY DEF CloseStage, Closing, TypeInv, TypeOK
  <2> QED
    BY <1>2, <2>1, <2>2 DEF CloseStage
<1> QED
  BY <1>1, <1>2

LEMMA CloseStep == TypeInv /\ RegistryIsExact /\ CloseInv /\ [Next]_vars => CloseInv'
<1> SUFFICES ASSUME TypeInv, RegistryIsExact, CloseInv, [Next]_vars, NEW y \in Closers
             PROVE  CloseStage(y)'
  BY DEF CloseInv
<1>0. CloseStage(y)
  BY DEF CloseInv
<1> USE DEF registryVars, callVars, closeVars, workerUnchanged, Goto, Work
<1>1. ASSUME NEW c \in Calls, GetNext(c) PROVE CloseStage(y)'
  <2>1. /\ UNCHANGED closeVars
        /\ \A d \in Calls : work[d] = "notifying" => work'[d] = "notifying"
    BY <1>1 DEF GetNext, EnterGetNext, LeaveUnreserved, ReserveSlot, ClaimWithoutHeartbeat,
          ClaimReturned, ClaimFails, StartWorker, StartRaises, LeaveGetNext,
          TypeInv, TypeOK, CallStages
  <2> QED
    BY <1>0, <2>1, CloseFrame
<1>2. ASSUME NEW c \in Calls, WorkerLoop(c) PROVE CloseStage(y)'
  <2>1. /\ UNCHANGED closeVars
        /\ \A d \in Calls : work[d] = "notifying" => work'[d] = "notifying"
    BY <1>2 DEF WorkerLoop, RunWorker, SendHeartbeat, LeaveLoop, HeartbeatReturned,
          HeartbeatFailsStopped, HeartbeatFails, HeartbeatBreaks, Wake, FinishWorker,
          ThreadFreed, TypeInv, TypeOK
  <2> QED
    BY <1>0, <2>1, CloseFrame
<1>3. ASSUME NEW c \in Calls, CallbackReturns(c) PROVE CloseStage(y)'
  <2>1. /\ UNCHANGED closeVars
        /\ \A d \in Calls : Closing(d) /\ work[d] = "notifying" => work'[d] = "notifying"
    BY <1>3 DEF CallbackReturns, TypeInv, TypeOK
  <2> QED
    BY <1>0, <2>1, CloseFrame
<1>4. ASSUME NEW k \in Claims, StopHeartbeat(k) PROVE CloseStage(y)'
  BY <1>0, <1>4, CloseFrame DEF StopHeartbeat
<1>5. ASSUME NEW x \in Closers, Close(x) PROVE CloseStage(y)'
  <2>1. CASE x # y
    <3>1. cpc'[y] = cpc[y] /\ UNCHANGED <<host, joining, work>>
      BY <1>5, <2>1 DEF Close, CloseChannel, JoinFutures, JoinTimesOut, DrainThreads,
            TypeInv, TypeOK
    <3> QED
      BY <1>0, <3>1, CloseFrame
  <2>2. CASE x = y
    <3> USE <1>0, <2>2 DEF CloseStage, TypeInv, TypeOK, In
    <3>1. CASE CloseChannel(y)
      BY <3>1 DEF CloseChannel
    <3>2. CASE JoinFutures(y)
      <4>1. In(Live) = {}
        BY <3>2 DEF JoinFutures, Live, Pending
      <4>2. host[y] = App
        BY <3>2, <4>1 DEF JoinFutures, Live
      <4> QED
        BY <3>2, <4>1, <4>2 DEF JoinFutures
    <3>3. CASE JoinTimesOut(y)
      BY <3>3 DEF JoinTimesOut
    <3>4. CASE DrainThreads(y)
      <4>1. In(Pending) = {}
        BY <3>4 DEF DrainThreads, Pending, Live, OnThread
      <4> QED
        BY <3>4, <4>1 DEF DrainThreads
    <3> QED
      BY <1>5, <3>1, <3>2, <3>3, <3>4 DEF Close
  <2> QED
    BY <2>1, <2>2
<1>6. ASSUME NEW x \in Closers, NEW t \in Calls \cup {App}, BeginClose(x, t)
      PROVE  CloseStage(y)'
  <2>1. CASE x # y
    <3>1. /\ cpc'[y] = cpc[y] /\ host'[y] = host[y] /\ joining'[y] = joining[y]
          /\ work' = work
      BY <1>6, <2>1 DEF BeginClose, TypeInv, TypeOK
    <3> QED
      BY <1>0, <3>1, CloseFrame
  <2>2. CASE x = y
    <3>1. In(Live) \subseteq RegisteredWorkers
      BY RegistryAssumption
         DEF In, RegisteredWorkers, RegistryIsExact, TypeInv, CallStages, Live
    <3>2. /\ cpc'[y] = "signalled" /\ host'[y] = t /\ joining'[y] = RegisteredWorkers
          /\ work' = work /\ closed'
      BY <1>6, <2>2 DEF BeginClose, BeginCloseRegistry, CloseFutures, TypeInv, TypeOK
    <3>3. t # App => work[t] = "notifying"
      BY <1>6 DEF BeginClose, Hosts, In
    <3> QED
      BY <3>1, <3>2, <3>3 DEF CloseStage, In
  <2> QED
    BY <2>1, <2>2
<1>7. CASE UNCHANGED vars
  BY <1>0, <1>7, CloseFrame DEF vars
<1> QED
  BY <1>1, <1>2, <1>3, <1>4, <1>5, <1>6, <1>7 DEF Next

LEMMA CloseInvariant == Spec => []CloseInv
BY TypeInit, TypeStep, RegistryInitExact, RegistryStep, CloseInit, CloseStep, PTL DEF Spec

(* executor.shutdown(wait=True), which has no timeout, only ever waits for *)
(* threads whose worker is past its RPCs and its callback.                 *)
THEOREM DrainBounded == Spec => []DrainIsBounded
<1>1. TypeInv /\ CloseInv => DrainIsBounded
  BY DEF TypeInv, TypeOK, CloseInv, CloseStage, DrainIsBounded, In, Live, WorkPCs
<1> QED
  BY <1>1, TypeInit, TypeStep, CloseInvariant, PTL DEF Spec

(* A close() that reports success leaves no heartbeat work behind, for     *)
(* ever.                                                                   *)
THEOREM ClosedStaysQuiet == Spec => []ClosedIsQuiet
<1>1. TypeInv /\ CloseInv => ClosedIsQuiet
  BY DEF TypeInv, TypeOK, CloseInv, CloseStage, ClosedIsQuiet, In, Live, Pending, WorkPCs
<1> QED
  BY <1>1, TypeInit, TypeStep, CloseInvariant, PTL DEF Spec

(* A close() called from the error callback never reports success.         *)
THEOREM CallbackCloseFails == Spec => []CallbackCloseTimesOut
<1>1. CloseInv => CallbackCloseTimesOut
  BY DEF CloseInv, CloseStage, CallbackCloseTimesOut
<1> QED
  BY <1>1, CloseInvariant, PTL

-----------------------------------------------------------------------------
(* The manager implements the slot pool.                                   *)

LEMMA PoolInitHolds == Init => Pool!PoolInit
BY DEF Init, RegistryInit, Pool!PoolInit, SlotHolders, In, Live, Pending

(* A step that leaves the four mapped variables alone is a stutter.        *)
LEMMA PoolStutter ==
  ASSUME closed' = closed, SlotHolders' = SlotHolders, In(Pending)' = In(Pending),
         \A x \in Closers : cpc'[x] = "closed" <=> cpc[x] = "closed"
  PROVE  UNCHANGED Pool!poolVars
BY DEF Pool!poolVars

(* SlotPool brings its own copy of Cardinality, with the same definition.  *)
LEMMA PoolCardinality == Pool!Cardinality(SlotHolders) = Cardinality(SlotHolders)
BY DEF Pool!Cardinality, Cardinality

LEMMA PoolAcquire ==
  ASSUME NEW c \in Calls, ~closed, Cardinality(SlotHolders) < Capacity,
         c \notin SlotHolders \cup In(Pending), SlotHolders' = SlotHolders \cup {c},
         closed' = closed, In(Pending)' = In(Pending), cpc' = cpc
  PROVE  Pool!Acquire(c)
BY PoolCardinality DEF Pool!Acquire

LEMMA PoolStep ==
  TypeInv /\ SlotAccounting /\ CloseInv /\ [Next]_vars => [Pool!PoolNext]_(Pool!poolVars)
<1> SUFFICES ASSUME TypeInv, SlotAccounting, CloseInv, [Next]_vars
             PROVE  [Pool!PoolNext]_(Pool!poolVars)
  OBVIOUS
<1> USE DEF registryVars, callVars, closeVars, workerUnchanged, Goto, Work
<1>1. ASSUME NEW c \in Calls, GetNext(c) PROVE [Pool!PoolNext]_(Pool!poolVars)
  <2> USE DEF TypeInv, TypeOK, CallStages, SlotHolders, In, Live, Pending
  <2>1. CASE \/ EnterGetNext(c) \/ LeaveUnreserved(c) \/ ClaimWithoutHeartbeat(c)
             \/ ClaimFails(c) \/ StartRaises(c)
             \/ \E k \in Claims : ClaimReturned(c, k)
    BY <2>1, PoolStutter DEF EnterGetNext, LeaveUnreserved, ClaimWithoutHeartbeat,
          ClaimFails, StartRaises, ClaimReturned
  <2>2. CASE ReserveSlot(c)
    <3>1. Cardinality(SlotHolders) < Capacity
      BY <2>2 DEF ReserveSlot, Reserve, CanReserve, SlotAccounting
    <3>2. c \notin SlotHolders \cup In(Pending) /\ SlotHolders' = SlotHolders \cup {c}
      BY <2>2 DEF ReserveSlot
    <3>3. ~closed /\ UNCHANGED <<closed, work, cpc>>
      BY <2>2 DEF ReserveSlot, Reserve, CanReserve
    <3>4. Pool!Acquire(c)
      BY <3>1, <3>2, <3>3, PoolAcquire
    <3> QED
      BY <3>4 DEF Pool!PoolNext
  <2>3. CASE StartWorker(c)
    <3>1. c \in SlotHolders \ In(Pending)
      BY <2>3 DEF StartWorker
    <3>2. SlotHolders' = SlotHolders /\ In(Pending)' = In(Pending) \cup {c}
      BY <2>3 DEF StartWorker
    <3>3. ~closed /\ UNCHANGED <<closed, cpc>>
      BY <2>3 DEF StartWorker, Register, CanRegister
    <3>4. Pool!Activate(c)
      BY <3>1, <3>2, <3>3 DEF Pool!Activate
    <3> QED
      BY <3>4 DEF Pool!PoolNext
  <2>4. CASE LeaveGetNext(c)
    <3>1. CASE c \in reserved
      <4>1. c \in SlotHolders /\ SlotHolders' = SlotHolders \ {c} /\ UNCHANGED <<closed, work, cpc>>
        BY <2>4, <3>1 DEF LeaveGetNext
      <4>2. Pool!GiveBack(c)
        BY <4>1 DEF Pool!GiveBack
      <4> QED
        BY <4>2 DEF Pool!PoolNext
    <3>2. CASE c \notin reserved
      BY <2>4, <3>2, PoolStutter DEF LeaveGetNext
    <3> QED
      BY <3>1, <3>2
  <2> QED
    BY <1>1, <2>1, <2>2, <2>3, <2>4 DEF GetNext
<1>2. ASSUME NEW c \in Calls, WorkerLoop(c) PROVE [Pool!PoolNext]_(Pool!poolVars)
  <2> USE DEF TypeInv, TypeOK, CallStages, SlotHolders, In, Live, Pending
  <2>1. CASE FinishWorker(c)
    <3>1. /\ c \in SlotHolders /\ SlotHolders' = SlotHolders \ {c}
          /\ In(Pending)' = In(Pending) /\ UNCHANGED <<closed, cpc>>
      BY <2>1 DEF FinishWorker
    <3>2. Pool!GiveBack(c)
      BY <3>1 DEF Pool!GiveBack
    <3> QED
      BY <3>2 DEF Pool!PoolNext
  <2>2. CASE ThreadFreed(c)
    <3>1. /\ c \in In(Pending) \ SlotHolders /\ In(Pending)' = In(Pending) \ {c}
          /\ SlotHolders' = SlotHolders /\ UNCHANGED <<closed, cpc>>
      BY <2>2 DEF ThreadFreed
    <3>2. Pool!Deactivate(c)
      BY <3>1 DEF Pool!Deactivate
    <3> QED
      BY <3>2 DEF Pool!PoolNext
  <2>3. CASE ~FinishWorker(c) /\ ~ThreadFreed(c)
    <3>1. SlotHolders' = SlotHolders /\ In(Pending)' = In(Pending) /\ UNCHANGED <<closed, cpc>>
      BY <1>2, <2>3 DEF WorkerLoop, RunWorker, SendHeartbeat, LeaveLoop,
            HeartbeatReturned, HeartbeatFailsStopped, HeartbeatFails,
            HeartbeatBreaks, Wake
    <3> QED
      BY <3>1, PoolStutter
  <2> QED
    BY <2>1, <2>2, <2>3
<1>3. ASSUME NEW c \in Calls, CallbackReturns(c) PROVE [Pool!PoolNext]_(Pool!poolVars)
  BY <1>3, PoolStutter
     DEF CallbackReturns, TypeInv, TypeOK, SlotHolders, In, Live, Pending
<1>4. ASSUME NEW k \in Claims, StopHeartbeat(k) PROVE [Pool!PoolNext]_(Pool!poolVars)
  BY <1>4, PoolStutter DEF StopHeartbeat, SlotHolders, In
<1>5. ASSUME NEW x \in Closers, Close(x) PROVE [Pool!PoolNext]_(Pool!poolVars)
  <2>0. UNCHANGED <<closed, SlotHolders, In(Pending)>>
    BY <1>5 DEF Close, CloseChannel, JoinFutures, JoinTimesOut, DrainThreads,
          SlotHolders, In
  <2>1. CASE DrainThreads(x)
    <3>1. cpc'[x] = "closed"
      BY <2>1 DEF DrainThreads, TypeInv, TypeOK
    <3>2. closed /\ In(Pending) = {}
      BY <2>1 DEF DrainThreads, CloseInv, CloseStage, In, Live, Pending, OnThread
    <3>3. Pool!ReportShutDown
      BY <2>0, <3>1, <3>2 DEF Pool!ReportShutDown
    <3> QED
      BY <3>3 DEF Pool!PoolNext
  <2>2. CASE ~DrainThreads(x)
    <3>1. \A y \in Closers : cpc'[y] = "closed" <=> cpc[y] = "closed"
      BY <1>5, <2>2 DEF Close, CloseChannel, JoinFutures, JoinTimesOut, TypeInv, TypeOK
    <3> QED
      BY <2>0, <3>1, PoolStutter
  <2> QED
    BY <2>1, <2>2
<1>6. ASSUME NEW x \in Closers, NEW t \in Calls \cup {App}, BeginClose(x, t)
      PROVE  [Pool!PoolNext]_(Pool!poolVars)
  <2>1. closed' /\ SlotHolders' = SlotHolders /\ In(Pending)' = In(Pending)
    BY <1>6 DEF BeginClose, BeginCloseRegistry, SlotHolders, In
  <2>2. \A y \in Closers : cpc'[y] = "closed" <=> cpc[y] = "closed"
    BY <1>6 DEF BeginClose, TypeInv, TypeOK
  <2>3. Pool!EndAdmission
    BY <2>1, <2>2 DEF Pool!EndAdmission
  <2> QED
    BY <2>3 DEF Pool!PoolNext
<1>7. CASE UNCHANGED vars
  BY <1>7, PoolStutter DEF vars, SlotHolders, In
<1> QED
  BY <1>1, <1>2, <1>3, <1>4, <1>5, <1>6, <1>7 DEF Next

(* The threaded manager implements the slot pool: admission before work,   *)
(* each slot given back once, nothing running after a successful close.    *)
THEOREM ImplementsSlotPool == Spec => RefinesSlotPool
BY PoolInitHolds, PoolStep, TypeInit, TypeStep, SlotInit, SlotStep, CloseInvariant, PTL
   DEF Spec, RefinesSlotPool, Pool!PoolSpec

-----------------------------------------------------------------------------
(* The safety half of CloseReturns and SlotsReturn: a worker whose event is*)
(* set has only few steps left.                                            *)

(* The longest way of a stopped worker: it sends no other heartbeat, but   *)
(* the one under way may still be answered, or break and notify.           *)
StepsToEnd(c) ==
    CASE work[c] = "sending" -> 5
      [] work[c] \in {"queued", "waiting"} -> 4
      [] work[c] \in {"check", "notifying"} -> 3
      [] work[c] = "finish" -> 2
      [] work[c] = "ending" -> 1
      [] OTHER -> 0

StoppedEnds ==
    \A c \in stopped : work'[c] # work[c] => StepsToEnd(c)' < StepsToEnd(c)

(* A worker that has an event to set has begun, and an event stays set.    *)
StoppedBegan == stopped \cap In({"none"}) = {}

LEMMA RegisteredBegan ==
  ASSUME TypeInv, RegistryIsExact
  PROVE  RegisteredWorkers \cap In({"none"}) = {}
<1>1. ASSUME NEW k \in Claims, workers[k] # NoCall PROVE work[workers[k]] \in Live
  BY <1>1 DEF TypeInv, TypeOK, RegistryTypeOK, RegistryIsExact
<1> QED
  BY <1>1 DEF RegisteredWorkers, In, Live

LEMMA StoppedWorkerSteps ==
  ASSUME TypeInv, NEW c \in Calls, c \in stopped, WorkerLoop(c) \/ CallbackReturns(c)
  PROVE  StepsToEnd(c)' < StepsToEnd(c) /\ work'[c] # "none"
<1> USE DEF TypeInv, TypeOK, WorkPCs, Work, StepsToEnd
<1>1. CASE RunWorker(c) \/ LeaveLoop(c) \/ HeartbeatFailsStopped(c) \/ CallbackReturns(c)
  BY <1>1 DEF RunWorker, LeaveLoop, HeartbeatFailsStopped, CallbackReturns
<1>2. CASE HeartbeatReturned(c)
  BY <1>2 DEF HeartbeatReturned
<1>3. CASE HeartbeatBreaks(c) \/ Wake(c) \/ FinishWorker(c) \/ ThreadFreed(c)
  BY <1>3 DEF HeartbeatBreaks, Wake, FinishWorker, ThreadFreed
<1>4. CASE SendHeartbeat(c) \/ \E code \in HeartbeatCodes : HeartbeatFails(c, code)
  BY <1>4 DEF SendHeartbeat, HeartbeatFails
<1> QED
  BY <1>1, <1>2, <1>3, <1>4 DEF WorkerLoop

LEMMA StoppedStep ==
  ASSUME TypeInv, RegistryIsExact, StoppedBegan, [Next]_vars
  PROVE  StoppedBegan' /\ StoppedEnds /\ stopped \subseteq stopped'
<1> USE DEF registryVars, callVars, closeVars, workerUnchanged
<1>1. ASSUME NEW c \in Calls, GetNext(c), ~StartWorker(c)
      PROVE  UNCHANGED <<work, stopped>>
  BY <1>1 DEF GetNext, EnterGetNext, LeaveUnreserved, ReserveSlot, ClaimWithoutHeartbeat,
              ClaimReturned, ClaimFails, StartRaises, LeaveGetNext
<1>2. CASE UNCHANGED <<work, stopped>>
  BY <1>2 DEF StoppedBegan, StoppedEnds, In
<1>3. ASSUME NEW c \in Calls, StartWorker(c) PROVE StoppedBegan' /\ StoppedEnds /\ stopped \subseteq stopped'
  <2>1. work[c] = "none"
    BY <1>3 DEF StartWorker, TypeInv, CallStages
  <2>2. c \notin stopped /\ UNCHANGED stopped
    BY <1>3, <2>1 DEF StartWorker, StoppedBegan, In
  <2>3. \A d \in Calls : d # c => work'[d] = work[d]
    BY <1>3 DEF StartWorker, Work, TypeInv, TypeOK
  <2>4. StoppedBegan'
    BY <2>2, <2>3 DEF StoppedBegan, In
  <2>5. StoppedEnds
    BY <2>2, <2>3 DEF StoppedEnds, TypeInv, TypeOK, RegistryTypeOK
  <2> QED
    BY <2>2, <2>4, <2>5
<1>4. ASSUME NEW c \in Calls, WorkerLoop(c) \/ CallbackReturns(c)
      PROVE  StoppedBegan' /\ StoppedEnds /\ stopped \subseteq stopped'
  <2>1. UNCHANGED stopped
    BY <1>4 DEF WorkerLoop, RunWorker, SendHeartbeat, LeaveLoop, HeartbeatReturned,
                HeartbeatFailsStopped, HeartbeatFails, HeartbeatBreaks, Wake, FinishWorker,
                ThreadFreed, CallbackReturns
  <2>2. \A d \in Calls : d # c => work'[d] = work[d]
    BY <1>4 DEF WorkerLoop, RunWorker, SendHeartbeat, LeaveLoop, HeartbeatReturned,
                HeartbeatFailsStopped, HeartbeatFails, HeartbeatBreaks, Wake, FinishWorker,
                ThreadFreed, CallbackReturns, Work, TypeInv, TypeOK
  <2>3. c \in stopped => StepsToEnd(c)' < StepsToEnd(c) /\ work'[c] # "none"
    BY <1>4, StoppedWorkerSteps
  <2>4. StoppedBegan'
    BY <2>1, <2>2, <2>3 DEF StoppedBegan, In
  <2>5. StoppedEnds
    BY <2>2, <2>3 DEF StoppedEnds, TypeInv, TypeOK, RegistryTypeOK
  <2> QED
    BY <2>1, <2>4, <2>5
<1>5. ASSUME UNCHANGED work, stopped \subseteq stopped', stopped' \subseteq stopped \cup RegisteredWorkers
      PROVE  StoppedBegan' /\ StoppedEnds
  BY <1>5, RegisteredBegan DEF StoppedBegan, StoppedEnds, In
<1>6. ASSUME NEW k \in Claims, StopHeartbeat(k)
      PROVE  UNCHANGED work /\ stopped \subseteq stopped' /\ stopped' \subseteq stopped \cup RegisteredWorkers
  BY <1>6 DEF StopHeartbeat, Stop, RegisteredWorkers
<1>7. ASSUME NEW x \in Closers, NEW t \in Calls \cup {App}, BeginClose(x, t)
      PROVE  UNCHANGED work /\ stopped \subseteq stopped' /\ stopped' \subseteq stopped \cup RegisteredWorkers
  BY <1>7 DEF BeginClose, BeginCloseRegistry
<1>8. ASSUME NEW x \in Closers, Close(x) PROVE UNCHANGED <<work, stopped>>
  BY <1>8 DEF Close, CloseChannel, JoinFutures, JoinTimesOut, DrainThreads
<1>9. CASE UNCHANGED vars
  BY <1>2, <1>9 DEF vars
<1> QED
  BY <1>1, <1>2, <1>3, <1>4, <1>5, <1>6, <1>7, <1>8, <1>9 DEF Next

(* Once its stop event is set, by stop_heartbeat, a terminal answer or     *)
(* close(), a worker takes at most five more steps and sends no other      *)
(* heartbeat, whatever the other threads do; the event is never cleared.   *)
(* Fairness then ends it: this is why CloseReturns holds for any number of *)
(* workers.                                                                *)
THEOREM StoppedWorkersRunOut == Spec => [][StoppedEnds /\ stopped \subseteq stopped']_vars
<1>1. Init => StoppedBegan
  BY DEF Init, RegistryInit, StoppedBegan
<1>2. TypeInv /\ RegistryIsExact /\ StoppedBegan /\ [Next]_vars =>
         StoppedBegan' /\ [StoppedEnds /\ stopped \subseteq stopped']_vars
  BY StoppedStep
<1> QED
  BY <1>1, <1>2, TypeInit, TypeStep, RegistryInitExact, RegistryStep, PTL DEF Spec

=============================================================================
