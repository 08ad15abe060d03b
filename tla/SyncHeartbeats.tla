--------------------------- MODULE SyncHeartbeats ---------------------------
(***************************************************************************)
(* The threaded heartbeat manager of NzovuClient: application threads that *)
(* call get_next_message, the ThreadPoolExecutor whose threads run         *)
(* SyncHeartbeats.run, application threads that stop heartbeats, and       *)
(* threads that close the client, one of which may be a heartbeat thread   *)
(* that closes the client from inside the error callback.                  *)
(*                                                                         *)
(* A step is what a thread does between two points where another thread    *)
(* can get in: a registry method under its lock, the start or the outcome  *)
(* of an RPC, a wait.  Time is left out: a wait may end at any moment, and *)
(* remaining(worker) may be found exhausted at any test of it.             *)
(***************************************************************************)
EXTENDS HeartbeatRegistry

CONSTANTS
    Closers,    \* the close() calls
    App         \* "this close() runs on a thread of the application"

ASSUME SyncAssumption == App \notin Calls

VARIABLES
    pc,            \* where each get_next_message call is
    reserved,      \* the calls whose local variable `reserved` is True
    work,          \* where the heartbeat work of each call is
    threads,       \* threads the executor has started
    cpc,           \* where each close() call is
    host,          \* the thread each close() runs on: App, or a heartbeat thread
    joining,       \* the workers whose futures each close() waits for
    channelOpen,   \* the gRPC channel has not been closed
    executorOpen   \* executor.shutdown has not been called

callVars == <<pc, reserved>>
closeVars == <<cpc, host, joining, channelOpen, executorOpen>>
vars == <<registryVars, callVars, work, threads, closeVars>>

CallPCs == {"idle", "building", "claiming", "starting", "finally", "done"}
WorkPCs == {"none", "queued", "check", "sending", "waiting", "notifying",
            "finish", "ending", "done"}
ClosePCs == {"idle", "signalled", "joining", "draining", "closed", "timedout"}

TypeOK ==
    /\ RegistryTypeOK
    /\ pc \in [Calls -> CallPCs]
    /\ reserved \subseteq Calls
    /\ work \in [Calls -> WorkPCs]
    /\ threads \in 0..Capacity
    /\ cpc \in [Closers -> ClosePCs]
    /\ host \in [Closers -> Calls \cup {App}]
    /\ joining \in [Closers -> SUBSET Calls]
    /\ channelOpen \in BOOLEAN
    /\ executorOpen \in BOOLEAN

Init ==
    /\ RegistryInit
    /\ pc = [c \in Calls |-> "idle"]
    /\ reserved = {}
    /\ work = [c \in Calls |-> "none"]
    /\ threads = 0
    /\ cpc = [x \in Closers |-> "idle"]
    /\ host = [x \in Closers |-> App]
    /\ joining = [x \in Closers |-> {}]
    /\ channelOpen = TRUE
    /\ executorOpen = TRUE

(* A worker from submit until finish(): it owns a slot and is registered.  *)
Live == {"queued", "check", "sending", "waiting", "notifying", "finish"}

(* A worker whose code occupies a thread of the executor.                  *)
OnThread == {"check", "sending", "waiting", "notifying", "finish", "ending"}

(* A worker whose future is not done.                                      *)
Pending == Live \cup {"ending"}

In(stages) == {c \in Calls : work[c] \in stages}

Goto(c, stage) == pc' = [pc EXCEPT ![c] = stage]
Work(c, stage) == work' = [work EXCEPT ![c] = stage]

-----------------------------------------------------------------------------
(* get_next_message                                                        *)

(* ensure_open(), before the try block.                                    *)
EnterGetNext(c) ==
    /\ pc[c] = "idle"
    /\ Goto(c, IF closed THEN "done" ELSE "building")
    /\ UNCHANGED <<registryVars, reserved, work, threads, closeVars>>

(* The request is invalid, or reserve() raises: nothing to give back.      *)
LeaveUnreserved(c) ==
    /\ pc[c] = "building"
    /\ Goto(c, "done")
    /\ UNCHANGED <<registryVars, reserved, work, threads, closeVars>>

ReserveSlot(c) ==
    /\ pc[c] = "building"
    /\ Reserve
    /\ reserved' = reserved \cup {c}
    /\ Goto(c, "claiming")
    /\ UNCHANGED <<closed, workers, stopped, claimOf, sent, retries,
                   work, threads, closeVars>>

(* enable_heartbeat=False: the claim RPC without a slot.                   *)
ClaimWithoutHeartbeat(c) ==
    /\ pc[c] = "building"
    /\ Goto(c, "claiming")
    /\ UNCHANGED <<registryVars, reserved, work, threads, closeVars>>

(* The reply carries the complete claim k.                                 *)
ClaimReturned(c, k) ==
    /\ pc[c] = "claiming"
    /\ channelOpen
    /\ claimOf' = [claimOf EXCEPT ![c] = k]
    /\ Goto(c, IF c \in reserved THEN "starting" ELSE "finally")
    /\ UNCHANGED <<closed, reservations, workers, stopped, sent, retries,
                   reserved, work, threads, closeVars>>

(* No message, an incomplete claim, an RpcError (also the cancellation by  *)
(* channel.close()) or the ValueError of a closed channel.                 *)
ClaimFails(c) ==
    /\ pc[c] = "claiming"
    /\ Goto(c, "finally")
    /\ UNCHANGED <<registryVars, reserved, work, threads, closeVars>>

IdleThread == threads > Cardinality(In(Pending))

(* ThreadPoolExecutor.submit: queue the item, then start a thread unless   *)
(* one is idle or the pool has its size.                                   *)
StartWorker(c) ==
    /\ pc[c] = "starting"
    /\ Register(c, claimOf[c])
    /\ executorOpen
    /\ Work(c, "queued")
    /\ threads' = IF IdleThread \/ threads = Capacity THEN threads ELSE threads + 1
    /\ reserved' = reserved \ {c}
    /\ Goto(c, "done")
    /\ UNCHANGED <<closed, reservations, stopped, claimOf, sent, retries, closeVars>>

(* register() raises, or submit raises before it has queued the item and   *)
(* start() takes the registration back: the claim has no heartbeat.        *)
StartRaises(c) ==
    /\ pc[c] = "starting"
    /\ Goto(c, "finally")
    /\ UNCHANGED <<registryVars, reserved, work, threads, closeVars>>

(* finally: if reserved: release()                                         *)
LeaveGetNext(c) ==
    /\ pc[c] = "finally"
    /\ IF c \in reserved THEN Release ELSE UNCHANGED reservations
    /\ reserved' = reserved \ {c}
    /\ Goto(c, "done")
    /\ UNCHANGED <<closed, workers, stopped, claimOf, sent, retries,
                   work, threads, closeVars>>

GetNext(c) ==
    \/ EnterGetNext(c)
    \/ LeaveUnreserved(c)
    \/ ReserveSlot(c)
    \/ ClaimWithoutHeartbeat(c)
    \/ \E k \in Claims : ClaimReturned(c, k)
    \/ ClaimFails(c)
    \/ StartWorker(c)
    \/ StartRaises(c)
    \/ LeaveGetNext(c)

-----------------------------------------------------------------------------
(* SyncHeartbeats.run                                                      *)

workerUnchanged == <<callVars, threads, closeVars>>

(* A thread of the pool takes the item from the queue.                     *)
RunWorker(c) ==
    /\ work[c] = "queued"
    /\ Cardinality(In(OnThread)) < threads
    /\ Work(c, "check")
    /\ UNCHANGED <<registryVars, workerUnchanged>>

(* The loop test holds; the RPC goes out.                                  *)
SendHeartbeat(c) ==
    /\ work[c] = "check"
    /\ c \notin stopped
    /\ sent[c] < MaxCount
    /\ Work(c, "sending")
    /\ UNCHANGED <<registryVars, workerUnchanged>>

(* The loop test fails: stopped, max_count reached, or (at any time)       *)
(* max_duration used up.                                                   *)
LeaveLoop(c) ==
    /\ work[c] = "check"
    /\ Work(c, "finish")
    /\ UNCHANGED <<registryVars, workerUnchanged>>

(* A reply: RUNNING keeps the loop going, every other state ends it.       *)
HeartbeatReturned(c) ==
    /\ work[c] = "sending"
    /\ channelOpen
    /\ Succeeded(c)
    /\ \/ Work(c, "waiting")
       \/ Work(c, "finish")
    /\ UNCHANGED <<closed, reservations, workers, stopped, claimOf, workerUnchanged>>

(* An RpcError after stop was set ends the loop silently.                  *)
HeartbeatFailsStopped(c) ==
    /\ work[c] = "sending"
    /\ c \in stopped
    /\ Work(c, "finish")
    /\ UNCHANGED <<registryVars, workerUnchanged>>

(* Any other RpcError is counted; failed() retries or notifies.            *)
HeartbeatFails(c, code) ==
    /\ work[c] = "sending"
    /\ c \notin stopped
    /\ Failed(c)
    /\ Work(c, IF GivesUp(c, code) THEN "notifying" ELSE "waiting")
    /\ UNCHANGED <<closed, reservations, workers, stopped, claimOf, workerUnchanged>>

(* The ValueError of an RPC on a closed channel is no RpcError: it leaves  *)
(* the loop through `except Exception`, which notifies even when stopped.  *)
HeartbeatBreaks(c) ==
    /\ work[c] = "sending"
    /\ ~channelOpen
    /\ Work(c, "notifying")
    /\ UNCHANGED <<registryVars, workerUnchanged>>

(* stop.wait(...) returns: stop was set or the delay is over.              *)
Wake(c) ==
    /\ work[c] = "waiting"
    /\ Work(c, "check")
    /\ UNCHANGED <<registryVars, workerUnchanged>>

(* A close() that runs on thread t and has not returned.                   *)
Closing(t) == \E x \in Closers : host[x] = t /\ cpc[x] \in {"signalled", "joining", "draining"}

CallbackReturns(c) ==
    /\ work[c] = "notifying"
    /\ ~Closing(c)
    /\ Work(c, "finish")
    /\ UNCHANGED <<registryVars, workerUnchanged>>

FinishWorker(c) ==
    /\ work[c] = "finish"
    /\ Finish(c)
    /\ Work(c, "ending")
    /\ UNCHANGED <<closed, stopped, claimOf, sent, retries, workerUnchanged>>

(* The executor completes the future and the thread is idle again.         *)
ThreadFreed(c) ==
    /\ work[c] = "ending"
    /\ Work(c, "done")
    /\ UNCHANGED <<registryVars, workerUnchanged>>

WorkerLoop(c) ==
    \/ RunWorker(c)
    \/ SendHeartbeat(c)
    \/ LeaveLoop(c)
    \/ HeartbeatReturned(c)
    \/ HeartbeatFailsStopped(c)
    \/ \E code \in HeartbeatCodes : HeartbeatFails(c, code)
    \/ HeartbeatBreaks(c)
    \/ Wake(c)
    \/ FinishWorker(c)
    \/ ThreadFreed(c)

-----------------------------------------------------------------------------
(* stop_heartbeat, and the stop() of a terminal ACK, renewal or heartbeat. *)
StopHeartbeat(k) ==
    /\ Stop(k)
    /\ UNCHANGED <<closed, reservations, workers, claimOf, sent, retries,
                   callVars, work, threads, closeVars>>

(* Where a close() can run: any application thread, or a callback.         *)
Hosts == {App} \cup {c \in In({"notifying"}) : ~Closing(c)}

(* close(): begin_close() on the thread t of the application or of a       *)
(* worker that is inside the error callback.                               *)
BeginClose(x, t) ==
    /\ cpc[x] = "idle"
    /\ t \in Hosts
    /\ BeginCloseRegistry
    /\ joining' = [joining EXCEPT ![x] = CloseFutures]
    /\ host' = [host EXCEPT ![x] = t]
    /\ cpc' = [cpc EXCEPT ![x] = "signalled"]
    /\ UNCHANGED <<reservations, workers, claimOf, sent, retries,
                   callVars, work, threads, channelOpen, executorOpen>>

CloseChannel(x) ==
    /\ cpc[x] = "signalled"
    /\ channelOpen' = FALSE
    /\ cpc' = [cpc EXCEPT ![x] = "joining"]
    /\ UNCHANGED <<registryVars, callVars, work, threads, host, joining, executorOpen>>

(* wait(futures, timeout) finds them all done; shutdown(wait=True) begins. *)
JoinFutures(x) ==
    /\ cpc[x] = "joining"
    /\ joining[x] \cap In(Pending) = {}
    /\ executorOpen' = FALSE
    /\ cpc' = [cpc EXCEPT ![x] = "draining"]
    /\ UNCHANGED <<registryVars, callVars, work, threads, host, joining, channelOpen>>

(* wait(futures, timeout) runs out of time; shutdown(wait=False), raise.   *)
JoinTimesOut(x) ==
    /\ cpc[x] = "joining"
    /\ joining[x] \cap In(Pending) # {}
    /\ executorOpen' = FALSE
    /\ cpc' = [cpc EXCEPT ![x] = "timedout"]
    /\ UNCHANGED <<registryVars, callVars, work, threads, host, joining, channelOpen>>

(* Faulty variant: shutdown(wait=False) after a complete join.             *)
DrainNothing(x) ==
    /\ cpc[x] = "draining"
    /\ cpc' = [cpc EXCEPT ![x] = "closed"]
    /\ UNCHANGED <<registryVars, callVars, work, threads, host, joining,
                   channelOpen, executorOpen>>

(* shutdown(wait=True) returns once every thread has exited, which no      *)
(* timeout bounds.                                                         *)
DrainThreads(x) ==
    /\ cpc[x] = "draining"
    /\ In(OnThread) = {}
    /\ threads > 0 => In({"queued"}) = {}
    /\ cpc' = [cpc EXCEPT ![x] = "closed"]
    /\ UNCHANGED <<registryVars, callVars, work, threads, host, joining,
                   channelOpen, executorOpen>>

Close(x) == CloseChannel(x) \/ JoinFutures(x) \/ JoinTimesOut(x) \/ DrainThreads(x)

Next ==
    \/ \E c \in Calls : GetNext(c) \/ WorkerLoop(c) \/ CallbackReturns(c)
    \/ \E k \in Claims : StopHeartbeat(k)
    \/ \E x \in Closers : Close(x) \/ \E t \in Calls \cup {App} : BeginClose(x, t)

Spec == Init /\ [][Next]_vars

-----------------------------------------------------------------------------
(* A thread of the pool that cannot be started: submit has queued the item *)
(* when Thread.start raises, start() deletes the registration and the call *)
(* gives its slot back, but the item stays in the queue.  Only             *)
(* SpecThreadStartFailure has this step.                                   *)
ThreadStartFails(c) ==
    /\ pc[c] = "starting"
    /\ CanRegister(claimOf[c])
    /\ executorOpen
    /\ ~IdleThread /\ threads < Capacity
    /\ Work(c, "queued")
    /\ Goto(c, "finally")
    /\ UNCHANGED <<registryVars, reserved, threads, closeVars>>

SpecThreadStartFailure == Init /\ [][Next \/ \E c \in Calls : ThreadStartFails(c)]_vars

-----------------------------------------------------------------------------
(* Safety.                                                                 *)

(* The calls that own a slot: claiming ones, and live workers.             *)
SlotHolders == reserved \cup In(Live)

(* Every path through get_next_message, start, run and finish gives a slot *)
(* back exactly once: the counter is always the number of slot owners,     *)
(* whatever raises, times out or is stopped on the way.                    *)
SlotAccounting == reservations = Cardinality(SlotHolders)

(* Admission never lets more claiming calls and listed workers in than     *)
(* heartbeat_thread_pool_size, so an admitted claim finds a thread.        *)
AdmissionBounded == Cardinality(reserved \cup RegisteredWorkers) <= Capacity

(* Registry.workers names exactly the live workers, each under its own     *)
(* claim: none runs that stop_heartbeat, close or get_active_heartbeats    *)
(* cannot see, none stays listed after its end, and no claim has two.      *)
RegistryIsExact ==
    \A k \in Claims, c \in Calls :
        workers[k] = c <=> (work[c] \in Live /\ claimOf[c] = k)

(* executor.shutdown(wait=True) has no timeout: it may only ever wait for  *)
(* threads whose worker is past its RPCs and its callback, otherwise       *)
(* close() would block longer than the timeout it was given.               *)
DrainIsBounded ==
    (\E x \in Closers : cpc[x] = "draining") =>
        \A c \in Calls : work[c] \in {"none", "ending", "done"}

(* A close() that returns without raising has left no heartbeat work, and  *)
(* none begins afterwards, also when a claim reply was under way.          *)
ClosedIsQuiet ==
    (\E x \in Closers : cpc[x] = "closed") =>
        \A c \in Calls : work[c] \in {"none", "done"}

(* A close() called from the error callback waits for its own thread: it   *)
(* must time out, never report success, and never reach shutdown(wait=True)*)
(* (which would join the current thread).                                  *)
CallbackCloseTimesOut ==
    \A x \in Closers : host[x] # App => cpc[x] \notin {"draining", "closed"}

(* The manager implements the slot pool.                                   *)
Pool == INSTANCE SlotPool WITH
    Users <- Calls,
    admitting <- ~closed,
    holders <- SlotHolders,
    active <- In(Pending),
    shutDown <- \E x \in Closers : cpc[x] = "closed"

RefinesSlotPool == Pool!PoolSpec

-----------------------------------------------------------------------------
(* Liveness.  Threads that can run do run; every heartbeat RPC has a       *)
(* deadline; stop.wait has a timeout.  The error callback is the           *)
(* application's and may block forever: CallbackReturns has no fairness.   *)
(* A caller may never begin a call, and its claim RPC, which has a deadline*)
(* only if rpc_timeout was given, may stay under way until the channel is  *)
(* closed.                                                                 *)
Unanswered(c) == pc[c] = "claiming" /\ channelOpen

WorkerFairness == \A c \in Calls : WF_vars(WorkerLoop(c))
CloseFairness == \A x \in Closers : WF_vars(Close(x))
CallFairness == \A c \in Calls : WF_vars(pc[c] # "idle" /\ ~Unanswered(c) /\ GetNext(c))

FairSpec == Spec /\ WorkerFairness /\ CloseFairness /\ CallFairness

(* close() returns or raises, even if an error callback never returns and  *)
(* whatever the other threads are doing.                                   *)
CloseReturns ==
    \A x \in Closers : cpc[x] = "signalled" ~> cpc[x] \in {"closed", "timedout"}

(* A slot that was taken becomes free again, so saturation is temporary:   *)
(* only a claim RPC that the server leaves unanswered, or an error callback*)
(* that never returns, can keep one.                                       *)
SlotsReturn ==
    \A c \in Calls :
        c \in SlotHolders /\ ~Unanswered(c) ~> c \notin SlotHolders \/ work[c] = "notifying"

=============================================================================
