------------------------ MODULE AsyncHeartbeatsProofs -----------------------
(***************************************************************************)
(* Proofs about AsyncHeartbeats, for every set of calls and claims, every  *)
(* capacity and every max_count.                                           *)
(***************************************************************************)
EXTENDS AsyncHeartbeats, FiniteSetTheorems, TLAPS

USE DEF MaxRetries

-----------------------------------------------------------------------------
(* Type correctness.                                                       *)

(* A task that may still send has failed fewer than three times in a row,  *)
(* and one that is sending has not used up max_count.                      *)
CountersBounded ==
    \A c \in Calls :
        /\ work[c] \in {"none"} \cup Running => retries[c] < MaxRetries
        /\ work[c] = "sending" => sent[c] < MaxCount

(* A slot is the caller's only while it awaits the claim; only a finished  *)
(* call has a worker, and that worker has the call's claim.                *)
CallStages ==
    \A c \in Calls :
        /\ c \in reserved => pc[c] = "claiming"
        /\ work[c] # "none" => pc[c] = "done" /\ claimOf[c] \in Claims

TypeInv == TypeOK /\ CountersBounded /\ CallStages

LEMMA TypeInit == Init => TypeInv
<1> SUFFICES ASSUME Init PROVE TypeInv
  OBVIOUS
<1>1. RegistryTypeOK
  <2>0. closed \in BOOLEAN
    BY Zenon DEF Init, RegistryInit
  <2>1. /\ reservations \in Int
        /\ workers \in [Claims -> Calls \cup {NoCall}]
        /\ stopped \subseteq Calls
        /\ claimOf \in [Calls -> Claims \cup {NoClaim}]
    BY DEF Init, RegistryInit
  <2>2. 0 \in 0..MaxCount
    BY RegistryAssumption
  <2>3. sent \in [Calls -> 0..MaxCount] /\ retries \in [Calls -> 0..3]
    BY <2>2 DEF Init, RegistryInit
  <2> QED
    BY <2>0, <2>1, <2>3 DEF RegistryTypeOK
<1>2. /\ pc \in [Calls -> CallPCs]
      /\ reserved \subseteq Calls
      /\ work \in [Calls -> WorkPCs]
      /\ cancelled \subseteq Calls
      /\ cpc \in [Closers -> ClosePCs]
      /\ joining \in [Closers -> SUBSET Calls]
      /\ channelOpen \in BOOLEAN
  BY DEF Init, CallPCs, WorkPCs, ClosePCs
<1>3. CountersBounded
  BY DEF Init, RegistryInit, CountersBounded, Running
<1>4. CallStages
  BY DEF Init, CallStages
<1> QED
  BY <1>1, <1>2, <1>3, <1>4 DEF TypeInv, TypeOK

LEMMA TypeStep == TypeInv /\ [Next]_vars => TypeInv'
<1> SUFFICES ASSUME TypeInv, [Next]_vars PROVE TypeInv'
  OBVIOUS
<1> USE RegistryAssumption
    DEF TypeInv, TypeOK, RegistryTypeOK, CountersBounded, CallStages, CallPCs, WorkPCs,
        ClosePCs, Running, registryVars, closeVars, workerUnchanged, Goto, Work
<1>1. ASSUME NEW c \in Calls, GetNext(c) PROVE TypeInv'
  <2>1. CASE RefuseCall(c) \/ ClaimWithoutHeartbeat(c)
    BY <2>1 DEF RefuseCall, ClaimWithoutHeartbeat
  <2>2. CASE ClaimWithHeartbeat(c)
    BY <2>2 DEF ClaimWithHeartbeat, Reserve
  <2>3. ASSUME NEW k \in Claims, ClaimStarts(c, k) PROVE TypeInv'
    BY <2>3 DEF ClaimStarts, Register
  <2>4. CASE ClaimEnds(c)
    BY <2>4 DEF ClaimEnds, Release
  <2> QED
    BY <1>1, <2>1, <2>2, <2>3, <2>4 DEF GetNext
<1>2. ASSUME NEW c \in Calls, WorkerLoop(c) PROVE TypeInv'
  BY <1>2 DEF WorkerLoop, SendHeartbeat, LeaveLoop, HeartbeatReturned, Succeeded,
        HeartbeatFails, Failed, GivesUp, HeartbeatBreaks, DeliverCancel, FinishWorker,
        Finish
<1>3. ASSUME NEW c \in Calls, CancelWorker(c) PROVE TypeInv'
  BY <1>3 DEF CancelWorker
<1>4. ASSUME NEW k \in Claims, StopHeartbeat(k) PROVE TypeInv'
  BY <1>4 DEF StopHeartbeat, Stop
<1>5. ASSUME NEW x \in Closers, Close(x) PROVE TypeInv'
  BY <1>5 DEF Close, CancelTasks, JoinTasks, JoinRaises, In
<1>6. ASSUME NEW x \in Closers, BeginClose(x) PROVE TypeInv'
  BY <1>6 DEF BeginClose, BeginCloseRegistry, CloseFutures, RegisteredWorkers
<1>7. CASE UNCHANGED vars
  BY <1>7 DEF vars
<1> QED
  BY <1>1, <1>2, <1>3, <1>4, <1>5, <1>6, <1>7 DEF Next

(* Every variable keeps its type; in particular sent never exceeds         *)
(* max_count and a worker fails at most three times in a row.              *)
THEOREM TypeCorrect == Spec => []TypeOK
<1>1. TypeInv => TypeOK
  BY DEF TypeInv
<1> QED
  BY TypeInit, TypeStep, <1>1, PTL DEF Spec

-----------------------------------------------------------------------------
(* The registry lists exactly the workers whose done callback has not run. *)

LEMMA RegistryInitExact == Init => RegistryIsExact
BY RegistryAssumption DEF Init, RegistryInit, RegistryIsExact, Live, Running

LEMMA RegistryStep == TypeInv /\ RegistryIsExact /\ [Next]_vars => RegistryIsExact'
<1> SUFFICES ASSUME TypeInv, RegistryIsExact, [Next]_vars PROVE RegistryIsExact'
  OBVIOUS
<1> USE RegistryAssumption
    DEF TypeInv, TypeOK, RegistryTypeOK, CallStages, RegistryIsExact, Live, Running,
        registryVars, closeVars, workerUnchanged, Goto, Work
<1>1. ASSUME NEW c \in Calls, GetNext(c) PROVE RegistryIsExact'
  <2>1. CASE \/ RefuseCall(c) \/ ClaimWithHeartbeat(c) \/ ClaimWithoutHeartbeat(c)
             \/ ClaimEnds(c)
    BY <2>1 DEF RefuseCall, ClaimWithHeartbeat, ClaimWithoutHeartbeat, ClaimEnds
  <2>2. ASSUME NEW k \in Claims, ClaimStarts(c, k) PROVE RegistryIsExact'
    BY <2>2 DEF ClaimStarts, Register, CanRegister
  <2> QED
    BY <1>1, <2>1, <2>2 DEF GetNext
<1>2. ASSUME NEW c \in Calls, WorkerLoop(c) PROVE RegistryIsExact'
  <2>1. CASE FinishWorker(c)
    BY <2>1 DEF FinishWorker, Finish
  <2>2. CASE ~FinishWorker(c)
    BY <1>2, <2>2 DEF WorkerLoop, SendHeartbeat, LeaveLoop, HeartbeatReturned,
          HeartbeatFails, HeartbeatBreaks, DeliverCancel
  <2> QED
    BY <2>1, <2>2
<1>3. ASSUME NEW c \in Calls, CancelWorker(c) PROVE RegistryIsExact'
  BY <1>3 DEF CancelWorker
<1>4. ASSUME NEW k \in Claims, StopHeartbeat(k) PROVE RegistryIsExact'
  BY <1>4 DEF StopHeartbeat
<1>5. ASSUME NEW x \in Closers, Close(x) PROVE RegistryIsExact'
  <2>1. UNCHANGED <<workers, work, claimOf>>
    BY <1>5 DEF Close, CancelTasks, JoinTasks, JoinRaises
  <2> QED
    BY <2>1
<1>6. ASSUME NEW x \in Closers, BeginClose(x) PROVE RegistryIsExact'
  BY <1>6 DEF BeginClose
<1>7. CASE UNCHANGED vars
  BY <1>7 DEF vars
<1> QED
  BY <1>1, <1>2, <1>3, <1>4, <1>5, <1>6, <1>7 DEF Next

(* Registry.workers names exactly the workers whose done callback has not  *)
(* run, each under its own claim.                                          *)
THEOREM RegistryExact == Spec => []RegistryIsExact
BY TypeInit, TypeStep, RegistryInitExact, RegistryStep, PTL DEF Spec

-----------------------------------------------------------------------------
(* Slot accounting.                                                        *)

LEMMA HoldersFinite ==
  ASSUME TypeInv
  PROVE  IsFiniteSet(SlotHolders) /\ Cardinality(SlotHolders) \in Nat
<1>1. SlotHolders \subseteq Calls
  BY DEF TypeInv, TypeOK, SlotHolders, In
<1> QED
  BY <1>1, RegistryAssumption, FS_Subset, FS_CardinalityType

(* A step that leaves the holders and the counter alone.                   *)
LEMMA SameHolders ==
  ASSUME SlotAccounting, SlotHolders' = SlotHolders, reservations' = reservations
  PROVE  SlotAccounting'
BY DEF SlotAccounting

(* A step by which c takes a slot.                                         *)
LEMMA HolderEnters ==
  ASSUME TypeInv, SlotAccounting, NEW c, c \notin SlotHolders,
         SlotHolders' = SlotHolders \cup {c}, reservations' = reservations + 1
  PROVE  SlotAccounting'
BY HoldersFinite, FS_AddElement DEF SlotAccounting

(* A step by which c gives its slot back.                                  *)
LEMMA HolderLeaves ==
  ASSUME TypeInv, SlotAccounting, NEW c \in SlotHolders,
         SlotHolders' = SlotHolders \ {c}, reservations' = reservations - 1
  PROVE  SlotAccounting'
BY HoldersFinite, FS_RemoveElement DEF SlotAccounting

LEMMA SlotInit == Init => SlotAccounting
<1> SUFFICES ASSUME Init PROVE SlotAccounting
  OBVIOUS
<1>1. SlotHolders = {}
  BY DEF Init, SlotHolders, In, Live, Running
<1> QED
  BY <1>1, FS_EmptySet DEF Init, RegistryInit, SlotAccounting

LEMMA SlotStep == TypeInv /\ SlotAccounting /\ [Next]_vars => SlotAccounting'
<1> SUFFICES ASSUME TypeInv, SlotAccounting, [Next]_vars PROVE SlotAccounting'
  OBVIOUS
<1> USE DEF TypeInv, TypeOK, RegistryTypeOK, CallStages, registryVars, closeVars,
            workerUnchanged, Goto, Work, SlotHolders, In, Live, Running
<1>1. ASSUME NEW c \in Calls, GetNext(c) PROVE SlotAccounting'
  <2>1. CASE RefuseCall(c) \/ ClaimWithoutHeartbeat(c)
    BY <2>1, SameHolders DEF RefuseCall, ClaimWithoutHeartbeat
  <2>2. CASE ClaimWithHeartbeat(c)
    <3>1. c \notin SlotHolders
      BY <2>2 DEF ClaimWithHeartbeat
    <3>2. SlotHolders' = SlotHolders \cup {c}
      BY <2>2 DEF ClaimWithHeartbeat
    <3> QED
      BY <2>2, <3>1, <3>2, HolderEnters DEF ClaimWithHeartbeat, Reserve
  <2>3. ASSUME NEW k \in Claims, ClaimStarts(c, k) PROVE SlotAccounting'
    <3>1. SlotHolders' = SlotHolders
      BY <2>3 DEF ClaimStarts
    <3> QED
      BY <2>3, <3>1, SameHolders DEF ClaimStarts
  <2>4. CASE ClaimEnds(c)
    <3>1. CASE c \in reserved
      <4>1. SlotHolders' = SlotHolders \ {c}
        BY <2>4, <3>1 DEF ClaimEnds
      <4> QED
        BY <2>4, <3>1, <4>1, HolderLeaves DEF ClaimEnds, Release
    <3>2. CASE c \notin reserved
      BY <2>4, <3>2, SameHolders DEF ClaimEnds
    <3> QED
      BY <3>1, <3>2
  <2> QED
    BY <1>1, <2>1, <2>2, <2>3, <2>4 DEF GetNext
<1>2. ASSUME NEW c \in Calls, WorkerLoop(c) PROVE SlotAccounting'
  <2>1. CASE FinishWorker(c)
    <3>1. SlotHolders' = SlotHolders \ {c} /\ c \in SlotHolders
      BY <2>1 DEF FinishWorker
    <3> QED
      BY <2>1, <3>1, HolderLeaves DEF FinishWorker, Finish
  <2>2. CASE ~FinishWorker(c)
    <3>1. SlotHolders' = SlotHolders /\ reservations' = reservations
      BY <1>2, <2>2 DEF WorkerLoop, SendHeartbeat, LeaveLoop, HeartbeatReturned,
            HeartbeatFails, HeartbeatBreaks, DeliverCancel
    <3> QED
      BY <3>1, SameHolders
  <2> QED
    BY <2>1, <2>2
<1>3. ASSUME NEW c \in Calls, CancelWorker(c) PROVE SlotAccounting'
  BY <1>3, SameHolders DEF CancelWorker
<1>4. ASSUME NEW k \in Claims, StopHeartbeat(k) PROVE SlotAccounting'
  BY <1>4, SameHolders DEF StopHeartbeat
<1>5. ASSUME NEW x \in Closers, Close(x) PROVE SlotAccounting'
  BY <1>5, SameHolders DEF Close, CancelTasks, JoinTasks, JoinRaises
<1>6. ASSUME NEW x \in Closers, BeginClose(x) PROVE SlotAccounting'
  BY <1>6, SameHolders DEF BeginClose
<1>7. CASE UNCHANGED vars
  BY <1>7, SameHolders DEF vars
<1> QED
  BY <1>1, <1>2, <1>3, <1>4, <1>5, <1>6, <1>7 DEF Next

(* Whatever is cancelled, and wherever, the reservation counter is the     *)
(* number of slot owners.                                                  *)
THEOREM SlotsAccounted == Spec => []SlotAccounting
BY TypeInit, TypeStep, SlotInit, SlotStep, PTL DEF Spec

-----------------------------------------------------------------------------
(* Closing.                                                                *)

(* After begin_close no task is created, and no cancellation is taken back.*)
LEMMA ClosedShrinks ==
  ASSUME TypeInv, closed, [Next]_vars
  PROVE  /\ closed'
         /\ In(Live)' \subseteq In(Live)
         /\ In(Running)' \subseteq In(Running)
         /\ cancelled \subseteq cancelled'
<1> USE DEF TypeInv, TypeOK, registryVars, closeVars, workerUnchanged, Goto, Work, In,
            Live, Running
<1> DEFINE Goal ==
      /\ closed'
      /\ In(Live)' \subseteq In(Live)
      /\ In(Running)' \subseteq In(Running)
      /\ cancelled \subseteq cancelled'
<1>1. ASSUME NEW c \in Calls, GetNext(c) PROVE Goal
  BY <1>1 DEF GetNext, RefuseCall, ClaimWithHeartbeat, Reserve, CanReserve,
        ClaimWithoutHeartbeat, ClaimStarts, Register, CanRegister, ClaimEnds
<1>2. ASSUME NEW c \in Calls, WorkerLoop(c) PROVE Goal
  BY <1>2 DEF WorkerLoop, SendHeartbeat, LeaveLoop, HeartbeatReturned, HeartbeatFails,
        HeartbeatBreaks, DeliverCancel, FinishWorker
<1>3. ASSUME NEW c \in Calls, CancelWorker(c) PROVE Goal
  BY <1>3 DEF CancelWorker
<1>4. ASSUME NEW k \in Claims, StopHeartbeat(k) PROVE Goal
  BY <1>4 DEF StopHeartbeat
<1>5. ASSUME NEW x \in Closers, Close(x) PROVE Goal
  BY <1>5 DEF Close, CancelTasks, JoinTasks, JoinRaises
<1>6. ASSUME NEW x \in Closers, BeginClose(x) PROVE Goal
  BY <1>6 DEF BeginClose, BeginCloseRegistry
<1>7. CASE UNCHANGED vars
  BY <1>7 DEF vars
<1> QED
  BY <1>1, <1>2, <1>3, <1>4, <1>5, <1>6, <1>7 DEF Next

(* Every close() joins all workers that are left, and cancels those that   *)
(* still run before it waits for them.                                     *)
CloseStage(x) ==
    /\ cpc[x] # "idle" => closed /\ In(Live) \subseteq joining[x]
    /\ cpc[x] \in {"joining", "raised"} => In(Running) \subseteq cancelled
    /\ cpc[x] = "closed" => In(Live) = {}

CloseInv == \A x \in Closers : CloseStage(x)

LEMMA CloseInit == Init => CloseInv
BY DEF Init, CloseInv, CloseStage

(* A step that is no step of close x keeps what is known of it.            *)
LEMMA CloseFrame ==
  ASSUME TypeInv, [Next]_vars, NEW x \in Closers, CloseStage(x),
         cpc'[x] = cpc[x], joining'[x] = joining[x]
  PROVE  CloseStage(x)'
<1>1. CASE cpc[x] = "idle"
  BY <1>1 DEF CloseStage
<1>2. CASE cpc[x] # "idle"
  BY <1>2, ClosedShrinks DEF CloseStage
<1> QED
  BY <1>1, <1>2

LEMMA CloseStep == TypeInv /\ RegistryIsExact /\ CloseInv /\ [Next]_vars => CloseInv'
<1> SUFFICES ASSUME TypeInv, RegistryIsExact, CloseInv, [Next]_vars, NEW y \in Closers
             PROVE  CloseStage(y)'
  BY DEF CloseInv
<1>0. CloseStage(y)
  BY DEF CloseInv
<1> USE DEF registryVars, closeVars, workerUnchanged, Goto, Work
<1>1. CASE UNCHANGED <<cpc, joining>>
  BY <1>0, <1>1, CloseFrame
<1>2. ASSUME NEW x \in Closers, Close(x) PROVE CloseStage(y)'
  <2>1. CASE x # y
    <3>1. cpc'[y] = cpc[y] /\ joining'[y] = joining[y]
      BY <1>2, <2>1 DEF Close, CancelTasks, JoinTasks, JoinRaises, TypeInv, TypeOK
    <3> QED
      BY <1>0, <3>1, CloseFrame
  <2>2. CASE x = y
    <3> USE <1>0, <2>2 DEF CloseStage, TypeInv, TypeOK, In
    <3>1. CASE CancelTasks(y)
      <4>1. In(Running) \subseteq joining[y]
        BY <3>1 DEF CancelTasks, Live
      <4> QED
        BY <3>1, <4>1 DEF CancelTasks
    <3>2. CASE JoinTasks(y)
      BY <3>2 DEF JoinTasks
    <3>3. CASE JoinRaises(y)
      BY <3>3 DEF JoinRaises
    <3> QED
      BY <1>2, <3>1, <3>2, <3>3 DEF Close
  <2> QED
    BY <2>1, <2>2
<1>3. ASSUME NEW x \in Closers, BeginClose(x) PROVE CloseStage(y)'
  <2>1. CASE x # y
    <3>1. cpc'[y] = cpc[y] /\ joining'[y] = joining[y]
      BY <1>3, <2>1 DEF BeginClose, TypeInv, TypeOK
    <3> QED
      BY <1>0, <3>1, CloseFrame
  <2>2. CASE x = y
    <3>1. In(Live) \subseteq RegisteredWorkers
      BY RegistryAssumption
         DEF In, RegisteredWorkers, RegistryIsExact, TypeInv, CallStages, Live, Running
    <3>2. /\ cpc'[y] = "closing" /\ joining'[y] = RegisteredWorkers
          /\ work' = work /\ closed'
      BY <1>3, <2>2 DEF BeginClose, BeginCloseRegistry, CloseFutures, TypeInv, TypeOK
    <3> QED
      BY <3>1, <3>2 DEF CloseStage, In
  <2> QED
    BY <2>1, <2>2
<1>4. ASSUME NEW c \in Calls, GetNext(c) \/ WorkerLoop(c) \/ CancelWorker(c)
      PROVE  UNCHANGED <<cpc, joining>>
  BY <1>4 DEF GetNext, RefuseCall, ClaimWithHeartbeat, ClaimWithoutHeartbeat, ClaimStarts,
        ClaimEnds, WorkerLoop, SendHeartbeat, LeaveLoop, HeartbeatReturned, HeartbeatFails,
        HeartbeatBreaks, DeliverCancel, FinishWorker, CancelWorker
<1>5. ASSUME NEW k \in Claims, StopHeartbeat(k) PROVE UNCHANGED <<cpc, joining>>
  BY <1>5 DEF StopHeartbeat
<1>6. UNCHANGED vars => UNCHANGED <<cpc, joining>>
  BY DEF vars
<1> QED
  BY <1>1, <1>2, <1>3, <1>4, <1>5, <1>6 DEF Next

LEMMA CloseInvariant == Spec => []CloseInv
BY TypeInit, TypeStep, RegistryInitExact, RegistryStep, CloseInit, CloseStep, PTL DEF Spec

(* A close() that returns normally leaves no task and nothing registered,  *)
(* for ever.                                                               *)
THEOREM ClosedStaysQuiet == Spec => []ClosedIsQuiet
<1>1. ASSUME TypeInv, RegistryIsExact, CloseInv PROVE ClosedIsQuiet
  <2>1. RegisteredWorkers \subseteq In(Live)
    BY <1>1 DEF RegisteredWorkers, RegistryIsExact, In, TypeInv, TypeOK, RegistryTypeOK
  <2> QED
    BY <1>1, <2>1 DEF CloseInv, CloseStage, ClosedIsQuiet
<1> QED
  BY <1>1, TypeInit, TypeStep, RegistryInitExact, RegistryStep, CloseInvariant, PTL DEF Spec

(* A close() that waits, or has given up waiting, has cancelled every      *)
(* worker that still runs, the survivors of an earlier close() included.   *)
THEOREM JoinsCancelAll == Spec => []JoinCancelsAll
<1>1. CloseInv => JoinCancelsAll
  BY DEF CloseInv, CloseStage, JoinCancelsAll
<1> QED
  BY <1>1, CloseInvariant, PTL

-----------------------------------------------------------------------------
(* The manager implements the slot pool.                                   *)

LEMMA PoolInitHolds == Init => Pool!PoolInit
BY DEF Init, RegistryInit, Pool!PoolInit, SlotHolders, In, Live, Running

(* A step that leaves the four mapped variables alone is a stutter.        *)
LEMMA PoolStutter ==
  ASSUME closed' = closed, SlotHolders' = SlotHolders, In(Live)' = In(Live),
         \A x \in Closers : cpc'[x] = "closed" <=> cpc[x] = "closed"
  PROVE  UNCHANGED Pool!poolVars
BY DEF Pool!poolVars

(* SlotPool brings its own copy of Cardinality, with the same definition.  *)
LEMMA PoolCardinality == Pool!Cardinality(SlotHolders) = Cardinality(SlotHolders)
BY DEF Pool!Cardinality, Cardinality

LEMMA PoolAcquire ==
  ASSUME NEW c \in Calls, ~closed, Cardinality(SlotHolders) < Capacity,
         c \notin SlotHolders \cup In(Live), SlotHolders' = SlotHolders \cup {c},
         closed' = closed, In(Live)' = In(Live), cpc' = cpc
  PROVE  Pool!Acquire(c)
BY PoolCardinality DEF Pool!Acquire

LEMMA PoolStep ==
  TypeInv /\ SlotAccounting /\ CloseInv /\ [Next]_vars => [Pool!PoolNext]_(Pool!poolVars)
<1> SUFFICES ASSUME TypeInv, SlotAccounting, CloseInv, [Next]_vars
             PROVE  [Pool!PoolNext]_(Pool!poolVars)
  OBVIOUS
<1> USE DEF registryVars, closeVars, workerUnchanged, Goto, Work
<1>1. ASSUME NEW c \in Calls, GetNext(c) PROVE [Pool!PoolNext]_(Pool!poolVars)
  <2> USE DEF TypeInv, TypeOK, CallStages, SlotHolders, In, Live, Running
  <2>1. CASE RefuseCall(c) \/ ClaimWithoutHeartbeat(c)
    BY <2>1, PoolStutter DEF RefuseCall, ClaimWithoutHeartbeat
  <2>2. CASE ClaimWithHeartbeat(c)
    <3>1. Cardinality(SlotHolders) < Capacity
      BY <2>2 DEF ClaimWithHeartbeat, Reserve, CanReserve, SlotAccounting
    <3>2. c \notin SlotHolders \cup In(Live) /\ SlotHolders' = SlotHolders \cup {c}
      BY <2>2 DEF ClaimWithHeartbeat
    <3>3. ~closed /\ UNCHANGED <<closed, work, cpc>>
      BY <2>2 DEF ClaimWithHeartbeat, Reserve, CanReserve
    <3>4. Pool!Acquire(c)
      BY <3>1, <3>2, <3>3, PoolAcquire
    <3> QED
      BY <3>4 DEF Pool!PoolNext
  <2>3. ASSUME NEW k \in Claims, ClaimStarts(c, k)
        PROVE  [Pool!PoolNext]_(Pool!poolVars)
    <3>1. c \in SlotHolders \ In(Live)
      BY <2>3 DEF ClaimStarts
    <3>2. SlotHolders' = SlotHolders /\ In(Live)' = In(Live) \cup {c}
      BY <2>3 DEF ClaimStarts
    <3>3. ~closed /\ UNCHANGED <<closed, cpc>>
      BY <2>3 DEF ClaimStarts, Register, CanRegister
    <3>4. Pool!Activate(c)
      BY <3>1, <3>2, <3>3 DEF Pool!Activate
    <3> QED
      BY <3>4 DEF Pool!PoolNext
  <2>4. CASE ClaimEnds(c)
    <3>1. CASE c \in reserved
      <4>1. c \in SlotHolders /\ SlotHolders' = SlotHolders \ {c} /\ UNCHANGED <<closed, work, cpc>>
        BY <2>4, <3>1 DEF ClaimEnds
      <4>2. Pool!GiveBack(c)
        BY <4>1 DEF Pool!GiveBack
      <4> QED
        BY <4>2 DEF Pool!PoolNext
    <3>2. CASE c \notin reserved
      BY <2>4, <3>2, PoolStutter DEF ClaimEnds
    <3> QED
      BY <3>1, <3>2
  <2> QED
    BY <1>1, <2>1, <2>2, <2>3, <2>4 DEF GetNext
<1>2. ASSUME NEW c \in Calls, WorkerLoop(c) PROVE [Pool!PoolNext]_(Pool!poolVars)
  <2> USE DEF TypeInv, TypeOK, CallStages, SlotHolders, In, Live, Running
  <2>1. CASE FinishWorker(c)
    <3>1. /\ c \in SlotHolders /\ SlotHolders' = SlotHolders \ {c}
          /\ In(Live)' = In(Live) \ {c} /\ UNCHANGED <<closed, cpc>>
      BY <2>1 DEF FinishWorker
    <3>2. Pool!GiveBack(c)
      BY <3>1 DEF Pool!GiveBack
    <3> QED
      BY <3>2 DEF Pool!PoolNext
  <2>2. CASE ~FinishWorker(c)
    <3>1. SlotHolders' = SlotHolders /\ In(Live)' = In(Live) /\ UNCHANGED <<closed, cpc>>
      BY <1>2, <2>2 DEF WorkerLoop, SendHeartbeat, LeaveLoop, HeartbeatReturned,
            HeartbeatFails, HeartbeatBreaks, DeliverCancel
    <3> QED
      BY <3>1, PoolStutter
  <2> QED
    BY <2>1, <2>2
<1>3. ASSUME NEW c \in Calls, CancelWorker(c) PROVE [Pool!PoolNext]_(Pool!poolVars)
  BY <1>3, PoolStutter DEF CancelWorker, SlotHolders, In
<1>4. ASSUME NEW k \in Claims, StopHeartbeat(k) PROVE [Pool!PoolNext]_(Pool!poolVars)
  BY <1>4, PoolStutter DEF StopHeartbeat, SlotHolders, In
<1>5. ASSUME NEW x \in Closers, Close(x) PROVE [Pool!PoolNext]_(Pool!poolVars)
  <2>0. UNCHANGED <<closed, SlotHolders, In(Live)>>
    BY <1>5 DEF Close, CancelTasks, JoinTasks, JoinRaises, SlotHolders, In
  <2>1. CASE JoinTasks(x)
    <3>1. cpc'[x] = "closed"
      BY <2>1 DEF JoinTasks, TypeInv, TypeOK
    <3>2. closed /\ In(Live) = {}
      BY <2>1 DEF JoinTasks, CloseInv, CloseStage
    <3>3. Pool!ReportShutDown
      BY <2>0, <3>1, <3>2 DEF Pool!ReportShutDown
    <3> QED
      BY <3>3 DEF Pool!PoolNext
  <2>2. CASE ~JoinTasks(x)
    <3>1. \A y \in Closers : cpc'[y] = "closed" <=> cpc[y] = "closed"
      BY <1>5, <2>2 DEF Close, CancelTasks, JoinRaises, TypeInv, TypeOK
    <3> QED
      BY <2>0, <3>1, PoolStutter
  <2> QED
    BY <2>1, <2>2
<1>6. ASSUME NEW x \in Closers, BeginClose(x) PROVE [Pool!PoolNext]_(Pool!poolVars)
  <2>1. closed' /\ SlotHolders' = SlotHolders /\ In(Live)' = In(Live)
    BY <1>6 DEF BeginClose, BeginCloseRegistry, SlotHolders, In
  <2>2. \A y \in Closers : cpc'[y] = "closed" <=> cpc[y] = "closed"
    BY <1>6 DEF BeginClose, TypeInv, TypeOK
  <2>3. Pool!EndAdmission
    BY <2>1, <2>2 DEF Pool!EndAdmission
  <2> QED
    BY <2>3 DEF Pool!PoolNext
<1>7. CASE UNCHANGED vars
  BY <1>7, PoolStutter DEF vars, SlotHolders, In
<1> QED
  BY <1>1, <1>2, <1>3, <1>4, <1>5, <1>6, <1>7 DEF Next

(* The asyncio manager implements the same slot pool as the threaded one.  *)
THEOREM ImplementsSlotPool == Spec => RefinesSlotPool
BY PoolInitHolds, PoolStep, TypeInit, TypeStep, SlotInit, SlotStep, CloseInvariant, PTL
   DEF Spec, RefinesSlotPool, Pool!PoolSpec

-----------------------------------------------------------------------------
(* The safety half of CloseSettles: a task that was stopped has only few   *)
(* steps left, and one that was cancelled does nothing but end.            *)

StepsToEnd(c) ==
    CASE work[c] = "sending" -> 3
      [] work[c] \in {"scheduled", "waiting"} -> 2
      [] work[c] = "exited" -> 1
      [] OTHER -> 0

StoppedEnds ==
    \A c \in stopped : work'[c] # work[c] => StepsToEnd(c)' < StepsToEnd(c)

Exits(c) ==
    \/ work[c] \in Running /\ work'[c] = "exited"
    \/ work[c] = "exited" /\ work'[c] = "done"

CancelledEnds == \A c \in cancelled : work'[c] # work[c] => Exits(c)

(* Only a worker that has begun is stopped or cancelled.                   *)
EndingBegan == (stopped \cup cancelled) \cap In({"none"}) = {}

RunsOut == StoppedEnds /\ CancelledEnds /\ stopped \subseteq stopped' /\ cancelled \subseteq cancelled'

LEMMA RegisteredBegan ==
  ASSUME TypeInv, RegistryIsExact
  PROVE  RegisteredWorkers \cap In({"none"}) = {}
<1>1. ASSUME NEW k \in Claims, workers[k] # NoCall PROVE work[workers[k]] \in Live
  BY <1>1 DEF TypeInv, TypeOK, RegistryTypeOK, RegistryIsExact
<1> QED
  BY <1>1 DEF RegisteredWorkers, In, Live, Running

LEMMA EndingWorkerSteps ==
  ASSUME TypeInv, NEW c \in Calls, WorkerLoop(c)
  PROVE  /\ c \in stopped => StepsToEnd(c)' < StepsToEnd(c)
         /\ c \in cancelled => Exits(c)
         /\ work'[c] # "none"
<1> USE DEF TypeInv, TypeOK, WorkPCs, Work, StepsToEnd, Running, Exits
<1>1. CASE SendHeartbeat(c) \/ LeaveLoop(c) \/ HeartbeatReturned(c)
  BY <1>1 DEF SendHeartbeat, LeaveLoop, HeartbeatReturned
<1>2. ASSUME NEW code \in HeartbeatCodes, HeartbeatFails(c, code)
      PROVE  /\ c \in stopped => StepsToEnd(c)' < StepsToEnd(c)
             /\ c \notin cancelled
             /\ work'[c] # "none"
  BY <1>2 DEF HeartbeatFails
<1>3. CASE HeartbeatBreaks(c) \/ DeliverCancel(c) \/ FinishWorker(c)
  BY <1>3 DEF HeartbeatBreaks, DeliverCancel, FinishWorker
<1> QED
  BY <1>1, <1>2, <1>3 DEF WorkerLoop

LEMMA EndingStep ==
  ASSUME TypeInv, RegistryIsExact, EndingBegan, [Next]_vars
  PROVE  EndingBegan' /\ RunsOut
<1> USE DEF registryVars, closeVars, workerUnchanged
<1>1. ASSUME UNCHANGED work, stopped \subseteq stopped', cancelled \subseteq cancelled',
             stopped' \subseteq stopped \cup RegisteredWorkers,
             cancelled' \subseteq cancelled \cup In(Running)
      PROVE  EndingBegan' /\ RunsOut
  <2>1. EndingBegan'
    BY <1>1, RegisteredBegan DEF EndingBegan, In, Running
  <2> QED
    BY <1>1, <2>1 DEF RunsOut, StoppedEnds, CancelledEnds
<1>2. ASSUME NEW c \in Calls, \A d \in Calls : d # c => work'[d] = work[d],
             UNCHANGED <<stopped, cancelled>>, work'[c] # "none",
             c \in stopped => StepsToEnd(c)' < StepsToEnd(c),
             c \in cancelled => Exits(c)
      PROVE  EndingBegan' /\ RunsOut
  <2>1. EndingBegan'
    BY <1>2 DEF EndingBegan, In
  <2>2. StoppedEnds /\ CancelledEnds
    BY <1>2 DEF StoppedEnds, CancelledEnds, TypeInv, TypeOK, RegistryTypeOK
  <2> QED
    BY <1>2, <2>1, <2>2 DEF RunsOut
<1>3. ASSUME NEW c \in Calls, NEW k \in Claims, ClaimStarts(c, k) PROVE EndingBegan' /\ RunsOut
  <2>1. work[c] = "none"
    BY <1>3 DEF ClaimStarts, TypeInv, CallStages
  <2>2. c \notin stopped /\ c \notin cancelled
    BY <2>1 DEF EndingBegan, In
  <2>3. /\ \A d \in Calls : d # c => work'[d] = work[d]
        /\ work'[c] # "none" /\ UNCHANGED <<stopped, cancelled>>
    BY <1>3 DEF ClaimStarts, Work, TypeInv, TypeOK
  <2> QED
    BY <1>2, <2>2, <2>3
<1>4. ASSUME NEW c \in Calls, WorkerLoop(c) PROVE EndingBegan' /\ RunsOut
  <2>1. /\ \A d \in Calls : d # c => work'[d] = work[d]
        /\ UNCHANGED <<stopped, cancelled>>
    BY <1>4 DEF WorkerLoop, SendHeartbeat, LeaveLoop, HeartbeatReturned, HeartbeatFails,
                HeartbeatBreaks, DeliverCancel, FinishWorker, Work, TypeInv, TypeOK
  <2> QED
    BY <1>2, <1>4, <2>1, EndingWorkerSteps
<1>5. ASSUME NEW c \in Calls, GetNext(c), \A k \in Claims : ~ClaimStarts(c, k)
      PROVE  UNCHANGED <<work, stopped, cancelled>>
  BY <1>5 DEF GetNext, RefuseCall, ClaimWithHeartbeat, ClaimWithoutHeartbeat, ClaimEnds
<1>6. ASSUME NEW c \in Calls, CancelWorker(c) PROVE EndingBegan' /\ RunsOut
  <2>1. UNCHANGED <<work, stopped>> /\ cancelled' = cancelled \cup {c} /\ c \in In(Running)
    BY <1>6 DEF CancelWorker, In
  <2> QED
    BY <1>1, <2>1
<1>7. ASSUME NEW k \in Claims, StopHeartbeat(k) PROVE EndingBegan' /\ RunsOut
  BY <1>1, <1>7 DEF StopHeartbeat, Stop, RegisteredWorkers
<1>8. ASSUME NEW x \in Closers, BeginClose(x) PROVE EndingBegan' /\ RunsOut
  BY <1>1, <1>8 DEF BeginClose, BeginCloseRegistry
<1>9. ASSUME NEW x \in Closers, Close(x) PROVE EndingBegan' /\ RunsOut
  BY <1>1, <1>9 DEF Close, CancelTasks, JoinTasks, JoinRaises
<1>10. CASE UNCHANGED vars
  BY <1>1, <1>10 DEF vars
<1> QED
  BY <1>1, <1>3, <1>4, <1>5, <1>6, <1>7, <1>8, <1>9, <1>10 DEF Next

(* Once its stop event is set a task takes at most three more steps; once  *)
(* it is cancelled, by join() or by the application, it exits and its done *)
(* callback runs; neither is taken back.  So a close() that raised leaves  *)
(* only tasks that end by themselves.                                      *)
THEOREM StoppedTasksRunOut == Spec => [][RunsOut]_vars
<1>1. Init => EndingBegan
  BY DEF Init, RegistryInit, EndingBegan
<1>2. TypeInv /\ RegistryIsExact /\ EndingBegan /\ [Next]_vars => EndingBegan' /\ [RunsOut]_vars
  BY EndingStep
<1> QED
  BY <1>1, <1>2, TypeInit, TypeStep, RegistryInitExact, RegistryStep, PTL DEF Spec

=============================================================================
