--------------------------- MODULE AsyncHeartbeats --------------------------
(***************************************************************************)
(* The asyncio heartbeat manager of AsyncNzovuClient.  Everything runs on  *)
(* one event loop: a step is what a coroutine does from one await to the   *)
(* next, or one callback of the loop.  A task can be cancelled at every    *)
(* await: the tasks of the callers by the application, the heartbeat tasks *)
(* by close() or by the loop's teardown, and the task that runs close()    *)
(* itself.  A worker is removed by the done callback of its task, which    *)
(* the loop runs some time after the coroutine has ended.                  *)
(***************************************************************************)
EXTENDS HeartbeatRegistry

CONSTANT Closers    \* the close() calls

VARIABLES
    pc,           \* where each get_next_message coroutine is
    reserved,     \* the calls whose local variable `reserved` is True
    work,         \* where the heartbeat task of each call is
    cancelled,    \* the heartbeat tasks with a cancellation to be delivered
    cpc,          \* where each close() coroutine is
    joining,      \* the workers whose tasks each close() joins
    channelOpen   \* the aio channel has not been closed

closeVars == <<cpc, joining, channelOpen>>
vars == <<registryVars, pc, reserved, work, cancelled, closeVars>>

CallPCs == {"idle", "claiming", "done"}
WorkPCs == {"none", "scheduled", "sending", "waiting", "exited", "done"}
ClosePCs == {"idle", "closing", "joining", "closed", "raised"}

TypeOK ==
    /\ RegistryTypeOK
    /\ pc \in [Calls -> CallPCs]
    /\ reserved \subseteq Calls
    /\ work \in [Calls -> WorkPCs]
    /\ cancelled \subseteq Calls
    /\ cpc \in [Closers -> ClosePCs]
    /\ joining \in [Closers -> SUBSET Calls]
    /\ channelOpen \in BOOLEAN

Init ==
    /\ RegistryInit
    /\ pc = [c \in Calls |-> "idle"]
    /\ reserved = {}
    /\ work = [c \in Calls |-> "none"]
    /\ cancelled = {}
    /\ cpc = [x \in Closers |-> "idle"]
    /\ joining = [x \in Closers |-> {}]
    /\ channelOpen = TRUE

(* A task whose coroutine has not ended.                                   *)
Running == {"scheduled", "sending", "waiting"}

(* A worker from create_task until its done callback.                      *)
Live == Running \cup {"exited"}

In(stages) == {c \in Calls : work[c] \in stages}

Goto(c, stage) == pc' = [pc EXCEPT ![c] = stage]
Work(c, stage) == work' = [work EXCEPT ![c] = stage]

-----------------------------------------------------------------------------
(* get_next_message                                                        *)

(* ensure_open, an invalid request or reserve() raises, or there is no     *)
(* stub yet: the call ends before its first await with nothing reserved.   *)
RefuseCall(c) ==
    /\ pc[c] = "idle"
    /\ Goto(c, "done")
    /\ UNCHANGED <<registryVars, reserved, work, cancelled, closeVars>>

(* ensure_open and reserve succeed and the claim RPC is awaited.           *)
ClaimWithHeartbeat(c) ==
    /\ pc[c] = "idle"
    /\ Reserve
    /\ reserved' = reserved \cup {c}
    /\ Goto(c, "claiming")
    /\ UNCHANGED <<closed, workers, stopped, claimOf, sent, retries,
                   work, cancelled, closeVars>>

(* enable_heartbeat=False: ensure_open only.                               *)
ClaimWithoutHeartbeat(c) ==
    /\ pc[c] = "idle"
    /\ ~closed
    /\ Goto(c, "claiming")
    /\ UNCHANGED <<registryVars, reserved, work, cancelled, closeVars>>

(* The reply carries claim k: start() registers the worker and creates its *)
(* task with the done callback; the slot is now the worker's.              *)
ClaimStarts(c, k) ==
    /\ pc[c] = "claiming"
    /\ c \in reserved
    /\ Register(c, k)
    /\ claimOf' = [claimOf EXCEPT ![c] = k]
    /\ reserved' = reserved \ {c}
    /\ Work(c, "scheduled")
    /\ Goto(c, "done")
    /\ UNCHANGED <<closed, reservations, stopped, sent, retries, cancelled, closeVars>>

(* Every other end of the await: no claim, a claim whose registration is   *)
(* refused (closed meanwhile, or active already), an RpcError, the         *)
(* CancelledError of the caller's task or of the channel's closing.  The   *)
(* finally block gives a reserved slot back.                               *)
ClaimEnds(c) ==
    /\ pc[c] = "claiming"
    /\ IF c \in reserved THEN Release ELSE UNCHANGED reservations
    /\ reserved' = reserved \ {c}
    /\ Goto(c, "done")
    /\ UNCHANGED <<closed, workers, stopped, claimOf, sent, retries,
                   work, cancelled, closeVars>>

GetNext(c) ==
    \/ RefuseCall(c)
    \/ ClaimWithHeartbeat(c)
    \/ ClaimWithoutHeartbeat(c)
    \/ \E k \in Claims : ClaimStarts(c, k)
    \/ ClaimEnds(c)

-----------------------------------------------------------------------------
(* AsyncHeartbeats.run                                                     *)

workerUnchanged == <<pc, reserved, cancelled, closeVars>>

(* The loop test at the first run of the task and after each wait: send    *)
(* the next heartbeat, or end (stopped, max_count or max_duration).        *)
SendHeartbeat(c) ==
    /\ work[c] \in {"scheduled", "waiting"}
    /\ c \notin cancelled
    /\ c \notin stopped
    /\ sent[c] < MaxCount
    /\ Work(c, "sending")
    /\ UNCHANGED <<registryVars, workerUnchanged>>

LeaveLoop(c) ==
    /\ work[c] \in {"scheduled", "waiting"}
    /\ c \notin cancelled
    /\ Work(c, "exited")
    /\ UNCHANGED <<registryVars, workerUnchanged>>

(* A reply: RUNNING waits for the interval, every other state ends it.     *)
HeartbeatReturned(c) ==
    /\ work[c] = "sending"
    /\ c \notin cancelled
    /\ Succeeded(c)
    /\ \/ Work(c, "waiting")
       \/ Work(c, "exited")
    /\ UNCHANGED <<closed, reservations, workers, stopped, claimOf, workerUnchanged>>

(* An RpcError: silent after stop, otherwise counted, and retried or       *)
(* notified.  The error callback runs inline, within this step.            *)
HeartbeatFails(c, code) ==
    /\ work[c] = "sending"
    /\ c \notin cancelled
    /\ IF c \in stopped
       THEN Work(c, "exited") /\ UNCHANGED <<sent, retries>>
       ELSE /\ Failed(c)
            /\ Work(c, IF GivesUp(c, code) THEN "exited" ELSE "waiting")
    /\ UNCHANGED <<closed, reservations, workers, stopped, claimOf, workerUnchanged>>

(* An RPC on a closed channel raises a usage error, which notifies, or is  *)
(* cancelled, which does not: the coroutine ends either way.               *)
HeartbeatBreaks(c) ==
    /\ work[c] = "sending"
    /\ ~channelOpen
    /\ Work(c, "exited")
    /\ UNCHANGED <<registryVars, workerUnchanged>>

(* The cancellation arrives: before the first instruction, at the RPC or   *)
(* at the wait.  (A wait_for that swallows it has seen the stop event, and *)
(* the loop test then ends the coroutine in the same step.)                *)
DeliverCancel(c) ==
    /\ c \in cancelled
    /\ work[c] \in Running
    /\ Work(c, "exited")
    /\ UNCHANGED <<registryVars, workerUnchanged>>

(* The done callback of the task.                                          *)
FinishWorker(c) ==
    /\ work[c] = "exited"
    /\ Finish(c)
    /\ Work(c, "done")
    /\ UNCHANGED <<closed, stopped, claimOf, sent, retries, workerUnchanged>>

WorkerLoop(c) ==
    \/ SendHeartbeat(c)
    \/ LeaveLoop(c)
    \/ HeartbeatReturned(c)
    \/ \E code \in HeartbeatCodes : HeartbeatFails(c, code)
    \/ HeartbeatBreaks(c)
    \/ DeliverCancel(c)
    \/ FinishWorker(c)

(* The application or the teardown of the loop cancels a heartbeat task.   *)
CancelWorker(c) ==
    /\ work[c] \in Running
    /\ cancelled' = cancelled \cup {c}
    /\ UNCHANGED <<registryVars, pc, reserved, work, closeVars>>

-----------------------------------------------------------------------------
StopHeartbeat(k) ==
    /\ Stop(k)
    /\ UNCHANGED <<closed, reservations, workers, claimOf, sent, retries,
                   pc, reserved, work, cancelled, closeVars>>

(* close(): begin_close, then await channel.close().                       *)
BeginClose(x) ==
    /\ cpc[x] = "idle"
    /\ BeginCloseRegistry
    /\ joining' = [joining EXCEPT ![x] = CloseFutures]
    /\ cpc' = [cpc EXCEPT ![x] = "closing"]
    /\ UNCHANGED <<reservations, workers, claimOf, sent, retries,
                   pc, reserved, work, cancelled, channelOpen>>

(* channel.close() has returned, or was cancelled before it could close:   *)
(* in both cases join() cancels every task still running and awaits them.  *)
CancelTasks(x) ==
    /\ cpc[x] = "closing"
    /\ channelOpen' \in {channelOpen, FALSE}
    /\ cancelled' = cancelled \cup (joining[x] \cap In(Running))
    /\ cpc' = [cpc EXCEPT ![x] = "joining"]
    /\ UNCHANGED <<registryVars, pc, reserved, work, joining>>

(* gather() resumes after the callbacks each task had before it, so after  *)
(* finish() of every joined worker.                                        *)
JoinTasks(x) ==
    /\ cpc[x] = "joining"
    /\ joining[x] \cap In(Live) = {}
    /\ cpc' = [cpc EXCEPT ![x] = "closed"]
    /\ UNCHANGED <<registryVars, pc, reserved, work, cancelled, joining, channelOpen>>

(* The join times out or the task that runs close() is cancelled.          *)
JoinRaises(x) ==
    /\ cpc[x] = "joining"
    /\ cpc' = [cpc EXCEPT ![x] = "raised"]
    /\ UNCHANGED <<registryVars, pc, reserved, work, cancelled, joining, channelOpen>>

Close(x) == CancelTasks(x) \/ JoinTasks(x) \/ JoinRaises(x)

Next ==
    \/ \E c \in Calls : GetNext(c) \/ WorkerLoop(c) \/ CancelWorker(c)
    \/ \E k \in Claims : StopHeartbeat(k)
    \/ \E x \in Closers : BeginClose(x) \/ Close(x)

Spec == Init /\ [][Next]_vars

-----------------------------------------------------------------------------
(* Safety.                                                                 *)

SlotHolders == reserved \cup In(Live)

(* Cancellation at any await, before the first instruction of a task, or   *)
(* between the end of a task and its callback: each slot goes back once.   *)
SlotAccounting == reservations = Cardinality(SlotHolders)

(* Registry.workers names exactly the workers whose done callback has not  *)
(* run, each under its own claim.                                          *)
RegistryIsExact ==
    \A k \in Claims, c \in Calls :
        workers[k] = c <=> (work[c] \in Live /\ claimOf[c] = k)

(* A close() that returns normally has left no task and no registered      *)
(* worker, and none comes afterwards.                                      *)
ClosedIsQuiet ==
    (\E x \in Closers : cpc[x] = "closed") =>
        /\ In(Live) = {}
        /\ RegisteredWorkers = {}

(* Each close() that has begun to join has cancelled every worker that     *)
(* still runs: also a second one, and also the survivor of a raised one.   *)
JoinCancelsAll ==
    (\E x \in Closers : cpc[x] \in {"joining", "raised"}) => In(Running) \subseteq cancelled

(* The asyncio manager implements the same slot pool.                      *)
Pool == INSTANCE SlotPool WITH
    Users <- Calls,
    admitting <- ~closed,
    holders <- SlotHolders,
    active <- In(Live),
    shutDown <- \E x \in Closers : cpc[x] = "closed"

RefinesSlotPool == Pool!PoolSpec

-----------------------------------------------------------------------------
(* Liveness.  The loop runs every task that is ready, heartbeat RPCs have  *)
(* deadlines, waits have timeouts.  The claim RPC has a deadline only if   *)
(* rpc_timeout was given; closing the channel ends it.                     *)
Unanswered(c) == pc[c] = "claiming" /\ channelOpen

FairSpec ==
    /\ Spec
    /\ \A c \in Calls : WF_vars(WorkerLoop(c))
    /\ \A c \in Calls : WF_vars(pc[c] = "claiming" /\ ~channelOpen /\ GetNext(c))
    /\ \A x \in Closers : WF_vars(Close(x))

(* A slot that was taken becomes free again: only a claim RPC that the     *)
(* server leaves unanswered can keep one.                                  *)
SlotsReturn ==
    \A c \in Calls : c \in SlotHolders /\ ~Unanswered(c) ~> c \notin SlotHolders

(* Even a close() that raised leaves a client that becomes quiet.          *)
CloseSettles == (\E x \in Closers : cpc[x] = "closing") ~> (RegisteredWorkers = {})

=============================================================================
