# A TLA+ model of the Nzovu Python SDK

The Nzovu SDK (`nzovu/`) is a client library for a message queue service. A
client claims a message (`get_next_message`), holds a lease on it, proves that
it is alive by heartbeats while it processes the message, and acknowledges it.
There are two clients, `NzovuClient` (threads) and `AsyncNzovuClient` (asyncio),
which share the bookkeeping of `nzovu/heartbeat.py`. This directory models that
core, the RPC wrappers around it and the store example built on top,
model-checks them with TLC on small instances, and proves their safety
properties with TLAPS for every size.

## 1. Inventory

| component | source | state | operations |
|---|---|---|---|
| heartbeat registry | `heartbeat.py` `Registry`, `Worker` | `closed`, `reservations`, `workers`, and per worker its stop event, `sent`, `retries` | `reserve`, `release`, `ensure_open`, `register`, `stop`, `begin_close`, `failed`, `succeeded`, `finish`, `snapshot` |
| threaded manager | `heartbeat.py` `SyncHeartbeats`; `client.py` `get_next_message`, `stop_heartbeat`, `close` | the executor's queue and threads, the channel, each caller's local `reserved` | `start`, `run`, `join` |
| asyncio manager | `heartbeat.py` `AsyncHeartbeats`; `async_client.py`, the same methods | the tasks, their pending cancellations and done callbacks | `start`, `run`, `join` |
| claim ownership | `ownership.py`; `acknowledge_message`, `renew_message_lease`, `send_message_heartbeat` of both clients | the claim (queue, message, worker id, attempt id) in the hands of the application | the rules that say which answer stops which heartbeat |
| pagination | `iter_pages` of both clients, helpers of `utils.py` | token, seen tokens, count | one request per page |
| RPC wrappers | 31 methods of each client, `exceptions.py` | the connection: none, open or closed | validate, build, send one request, take one reply or route one error |
| durations, request builders | `utils.py` | none | `string_to_duration`, `build_*`, the constructors of the option classes |
| transport | `transport.py` | none after construction | deadline and metadata of each call; credentials of the channel |
| store example | `examples/store-api/api/`: `application.py`, `sdk.py`, `workers/` | per replica a client, a stop event and two tasks | the route that posts a cart, claim, forward, acknowledge, start and stop of the lifespan |
| conversion, models, generated code, build | `conversion.py`, `models.py`, `api/`, `proto/`, ... | none | data |

How they interact. The application calls a client; the client calls the
registry under its lock (or, in the asyncio client, between two awaits) and the
gRPC stub. A reply of `GetNextMessage` that carries a claim hands a slot that
the caller has reserved to a new worker. The worker runs on a thread of the
executor or as a task of the loop, calls the stub on its own, and may call back
into the application (`heartbeat_error_callback`), which may call the client
again, `close()` included. `close()` talks to the workers through their stop
events, through the channel that it closes, and through the futures it joins.

What is hard. (a) Ownership of a slot moves from the caller to a worker across
an RPC, an executor and a `finally`, any of which may raise. (b) `close()` races
with claims in flight. (c) A callback may close the client from inside the
thread that `close()` waits for. (d) An asyncio task can be cancelled before its
first instruction and at each await. (e) Requests and replies are lost or late:
an ACK may be applied although it failed, and an attempt's errors may arrive
when a newer attempt of the same message is under way. (f) Validation and
conversion happen at three places (constructor, precheck, builder) and the
objects are mutable in between. (g) An application must survive a crash, a
shutdown or a lost reply between the post of a follow-up message and the ACK of
its cause. `PROJECT.json` lists
these at their lines, with the properties that would catch each.

What makes each component correct: the slot counter is the number of slot owners
(registry); a worker exists iff it is listed (registry); a close that returns
leaves nothing running, and always returns (managers); the heartbeat of a live
lease is never abandoned and that of a lost one always ends (ownership); one call
is at most one request within the contract, and one report that says what is
known (wrappers); a duration denotes its text (durations); a cart is checked out
once, and settled (store example).

## 2. Modules

| module | what it is |
|---|---|
| `HeartbeatRegistry` | state and operations of class `Registry`; each operator is the body of one method, and an atomic step of whoever uses it |
| `SyncHeartbeats` | EXTENDS the registry: caller threads, executor threads, closers, the error callback |
| `AsyncHeartbeats` | EXTENDS the registry: coroutines, tasks, cancellation, done callbacks |
| `SlotPool` | the abstract promise of both managers (`docs/AUTH_OWNERSHIP.md`, "Bounded heartbeat lifecycle") |
| `ClaimLifecycle` | the attempts of one message, the server that grants and expires leases, the network, the worker and the application's RPCs |
| `MCSyncHeartbeats`, `MCAsyncHeartbeats` | symmetry for TLC |
| `Pagination` | `iter_pages` of both clients, its consumer, and a server that answers with any page token |
| `Durations` | `string_to_duration` with the rounding of a decimal context, and what a text denotes |
| `Arguments` | EXTENDS `Durations`: what constructors, prechecks and builders refuse, which field stays unset |
| `Wrappers`, `SyncWrappers`, `AsyncWrappers` | the shape of a wrapper, and the table of each client: per method the arguments it checks before its `try`, inside it and not at all, what it catches, which answers end a heartbeat |
| `RpcCalls` | one call of any of these wrappers, with the option objects, the connection, the transport and the server around it |
| `UnaryCall` | the abstract promise of a call |
| `StoreWorkers` | replicas of the store application, composed of the worker tasks, the lifespan, what the SDK does to a claim's heartbeat, and the server |
| `CartFlow` | the abstract promise of the store workers: the way of each cart from queue to queue |
| `MCRpcCalls`, `MCStoreWorkers` | the arguments and the workers of the instances |
| `SyncHeartbeatsProofs`, `AsyncHeartbeatsProofs`, `ClaimLifecycleProofs`, `PaginationProofs`, `DurationsProofs`, `RpcCallsProofs`, `StoreWorkersProofs` | theorems |

### Correspondence with the code

A worker is named by the `get_next_message` call that creates it, as each
creates at most one. `workers` is `Registry.workers` (claim to worker),
`stopped` the set stop events, `claimOf` is `Worker.claim`, `reserved` the calls
whose local variable `reserved` is true. `failed` and `last_error` of a worker
only feed `snapshot`, and are left out.

*Steps.* In the threaded model a step ends where another thread can get in: at
the end of a locked section, when an RPC goes out or comes back, at a wait, and
around the error callback. `pc` is the position of a caller in
`get_next_message` (`building` before `reserve`, `claiming` during the RPC,
`starting` before `start`, `finally` before the release). `work` is the position
of a worker: `queued` in the executor, `check` at the loop test, `sending`,
`waiting` in `stop.wait`, `notifying` in the error callback, `finish` before
`finish()`, `ending` from there until the future is done. `cpc` is the position
of a `close()`: `signalled` after `begin_close`, `joining` in `wait`, `draining`
in `executor.shutdown(wait=True)`, and then `closed` or `timedout`.
In the asyncio model a step ends at an await: `scheduled` is a task that has not
run yet, `exited` one whose done callback has not run.

In `Pagination` a step ends where the generator yields or its request is under
way; `handled` is the iteration that ends silently because an error handler took
the error and the method returned `None`.

In `RpcCalls` the stages of a call are the construction of its option objects,
the wrapper's prechecks, the `try` up to the stub, and the call in flight;
between any two of them the client may be connected or closed, and between
construction and call the application may assign to the option objects, which
are no frozen dataclasses. `request` holds the fields as they are sent, `applied`
what the interceptor passes on. Arguments are the values their checks tell apart:
`Invalid` is one of a wrong type or form, `"blank"` a name of blanks, a text a
numeral of at most `MaxDigits` digits. A wrapper's table entry is read off its method:
`checks` from the lines before `try`, `builds` from the validating builders and
conversions inside it, `texts` from what only protobuf looks at, `flags` from what is
tested and not sent. `enable_heartbeat` of `get_next_message` is the one flag: with it the
call reserves a slot once the request is built (`Reserve`) and starts a worker once the
reply is there (`Start`), and either may raise. Who holds the slots and what becomes
of the worker is the managers' models' matter; in `RpcCalls` other calls may hold every
slot at any time, and a claim may have a worker already.

In `ClaimLifecycle` a heartbeat is answered `RUNNING`, by a final state, by
`FAILED_PRECONDITION` if its lease is over, or, at any time, by a code that is neither
retryable nor about the lease, for which `INTERNAL` stands: the first such answer ends
the worker. A retryable code is a lost or late heartbeat.

In `StoreWorkers` a step of a worker task ends at an `invoke` or a wait. A message
is named by its queue, its cart and what its ID adds to the cart's (nothing but a
constant, in this code). A call of the asyncio client ends at once when its task
is cancelled; one of the threaded client runs on in its thread, `invoke` waits
for it, and its result is dropped; `open` therefore decides whether such a claim
still gets a heartbeat. An error of such a call can take the place of the
`CancelledError` (`invoke` re-raises in a `finally`); the task ends all the same, as
`stop` is set and the client closed. A start-up that fails closes its client before there
are tasks, and changes nothing in this model (`Start`). `Stage` and `Tries`, which map it to `CartFlow`, are the
state and the attempts of the one message that each cart has in either queue;
replicas, calls, heartbeats and the network are forgotten.

*Outcomes.* Every RPC of the model may return, raise any status code the code
tells apart, or (on a closed channel) break with `ValueError`; a claim may be
missing, incomplete, or equal to one that already has a worker. Time is left
out: a wait may end at any moment, `remaining()` may be found exhausted at any
test, `wait(futures, timeout)` may time out whenever a future is pending.

*External parts.* The executor, `asyncio.Task.cancel` and the server are not
under `nzovu/`; they are modelled from how the code uses them, and are marked
external in the map. `submit` queues its item before it starts a thread, starts
one only when none is idle and the pool is not full, and its threads run the
queue in any order. The server half of `ClaimLifecycle` keeps what the comments
of `proto/queueservice/v1/service.proto` say: an ACK, a heartbeat or a renewal
succeeds only for the active, unexpired lease; an expired lease frees the
message for another attempt; a heartbeat of a completed message may be answered
by its final state. A request may be lost, its reply may be, and an ACK may reach the server
after its caller has given up. The server of `StoreWorkers` leases a message to
one attempt at a time, hands it out again when the lease expires until its
attempts are used up, one at a time for the exclusive queue, and refuses an ID it
retains. In `options()` of `queue_manager_worker.py` it retains IDs for an hour; the
model takes that to outlast the attempts of a cart and never forgets one.
The rounding of a decimal context and the endings of a gRPC call (deadline,
closed channel, lost connection) are external too.

*Faulty variants.* The operators in the section "Faulty variants" of a module
are used by no specification. Each is a slip in the code of the operator it is
named after; putting it in that operator's place must violate a property, which
shows that the property depends on the code.

## 3. Runs

| run | specification and bounds | checks |
|---|---|---|
| `SyncSafety` | `Spec`; 3 calls, 2 claims, 2 closers, capacity 2, max_count 1, symmetry; 1.8 million states | `TypeOK`, `SlotAccounting`, `AdmissionBounded`, `RegistryIsExact`, `DrainIsBounded`, `ClosedIsQuiet`, `CallbackCloseTimesOut` |
| `SyncLiveness` | `FairSpec`; 2 calls, 2 claims, 2 closers, capacity 1, max_count 2; 0.5 million states | `SlotsReturn`, `CloseReturns`, `RefinesSlotPool` |
| `SyncThreadStartFailure` | `SpecThreadStartFailure`; 3 calls, 1 closer, capacity 1 | `AdmissionBounded`, expected to be violated |
| `AsyncSafety` | `Spec`; 3 calls, 2 claims, 2 closers, capacity 2, symmetry; 1.3 million states | `TypeOK`, `SlotAccounting`, `RegistryIsExact`, `ClosedIsQuiet`, `JoinCancelsAll` |
| `AsyncLiveness` | `FairSpec`; 2 calls, 2 closers, capacity 1, max_count 1 | `SlotsReturn`, `CloseSettles`, `RefinesSlotPool` |
| `ClaimSafety` | `Spec`; 2 attempts, no count limit; 4.8 million states | `TypeOK`, `NeverAbandonsLease`, `WorkerOutlivesFailures` |
| `ClaimLiveness` | `FairSpec`; 1 attempt, no count limit | `StaleWorkersEnd` |
| `Pagination` | `FairSpec`; 3 tokens, max_pages None, 1, 2 or 3, at most 6 requests | `TypeOK`, `NoPageDropped`, `RequestsAreNeeded`, `IterationEnds` |
| `ClaimMaxCount` | `Spec`; 1 attempt, max_count 2 | `HeartbeatsWithinMaxCount`, expected to be violated |
| `RpcCalls` | `FairSpec`; all 31 methods of both clients and a direct stub call, each with its ordinary arguments and every combination that has one other; with and without api_key and timeout; 0.4 million states | `TypeOK`, `RequestsWithinContract`, `DurationsAreExact`, `TransportApplied`, `SentRequestsFailWithCode`, `ServerErrorsRouted`, `HeartbeatKept`, `RefinesUnaryCall`, `CallsEnd` |
| `RpcLocalErrors` | `Spec`; the two methods that take a calendar | `LocalRefusalsAreValueErrors`, expected to be violated |
| `StoreWorkers` | `FairSpec`; 2 replicas (one on each client), 3 of their 4 workers, 1 cart, 2 attempts, 1 outage, 1 late request; deadlock checked; 0.3 million states | `TypeOK`, `OneCheckoutPerCart`, `HeartbeatsAreProcessed`, `RefinesCartFlow`, `CartsSettle` |

*Why the bounds are enough.* Three calls with capacity two is the smallest
instance in which a call meets a full pool while two slots move independently;
two claims for three calls make two calls meet on one claim. Two closers give a
second `close()` after a timed-out or cancelled one, and one inside a callback
while another waits. `max_count` 1 or 2 makes the limit reachable; the failure
counter runs to its real limit 3 in every run. Two attempts of one message are
what a stale answer needs; the third would repeat the second. `ClaimLiveness`
needs one attempt: once a lease is gone, its worker meets the same answers
whatever happens to later attempts, which are independent in the model.
Three page tokens give cycles of length one, two and three, with and without a
lead-in, and a page limit that falls before, at and after the end of each.
The bound of 6 requests cannot hide anything: four tokens, the empty one
included, end every iteration after at most four, and an iteration that met the
bound would violate `IterationEnds`.
`RpcCalls` follows one call: calls of a client share nothing but the connection,
which changes at any moment, and the claim, which may end at any moment. One argument
out of the ordinary at a time is enough for checks that look at one argument
each; the numbers are the limits of the code and their neighbours, the sizes of
headers, the digits of a text and the range of a Duration are scaled down
(`NanosPerSecond` 10, `MinPrecision` 5, at most 3 digits), so that rounding,
excess precision and the range limit are all reached.
`StoreWorkers` has the smallest instance in which two workers of one queue race
for a cart, one of them on each client, while a crash or a shutdown strikes at
any moment; two attempts are what a repeated forward needs, one late request
lets it race with its repetition. A second cart would only share the exclusive
queue, whose messages are independent otherwise; a late request beyond the bound
counts as lost.
Symmetry is used in safety runs only. The runs that check temporal properties
do not use it.

*Deadlock* is checked in `StoreWorkers`, whose workers poll for ever, and in no
other run: after its calls and its close a client has nothing left to do, and a
caller may never call.

*Fairness.* A runnable thread or task runs, and each heartbeat RPC ends, because
`run` gives it a deadline of at most 5 seconds; `stop.wait` and `wait_for` have
timeouts; `wait(futures, timeout)` ends. This is weak fairness of each worker
and of each closer, taken over all their steps together, so that no particular
outcome is promised. `FairSpec` adds that a
caller goes on once its claim RPC has ended. The claim RPC itself has a deadline
only if `rpc_timeout` was given, which by default it is not, so an unanswered one
may stay under way until the channel is closed (`Unanswered`); and the error
callback is the application's and may block for ever. `SlotsReturn` is
stated for all other slot owners; `CloseReturns` holds all the same.
Nothing obliges an application to begin a call, to stop a heartbeat or to close. In
`ClaimLifecycle` only the worker is fair: the server may fall silent. In
`Pagination` the server answers or fails and the consumer keeps asking for pages.
In `RpcCalls` only the endings that gRPC guarantees are fair: the deadline of a
call that has one, and the cancellation of calls on a closed channel. In
`StoreWorkers` the event loop runs its tasks and every call ends
(`client_options()` sets `rpc_timeout`; the deadline is five seconds), the
lifespan goes on once shutdown has begun and a replica that is down is started
again, a lease that nobody renews expires, and of the claim requests sent again and
again while a message waits one gets it (strong fairness: a poll may come back
empty any number of times, not for ever).

### What the runs show

Slots are accounted for exactly, through every failure path of
`get_next_message`, `start`, `run` and `finish`, and every slot returns once its
claim RPC has. A
worker exists exactly as long as it is listed. A `close()` that returns has left
nothing behind; it always returns or raises, although `shutdown(wait=True)` has
no timeout, because by then every thread is past its RPC and its callback
(`DrainIsBounded`); from inside the callback it always times out. The asyncio
manager keeps the same promises under cancellation; after a close that raised,
every survivor has its cancellation. The worker of a lost lease ends; while the
lease is active a worker ends only when the application stops it, at the third
retryable failure in a row, at max_count or max_duration, or at the first answer with a
code that is neither retryable nor about the lease (`docs/AUTH_OWNERSHIP.md`: "Other
failures stop the worker"). In that last case the heartbeats of a live lease end without
the application's doing; it learns of it by its error callback. An iteration over pages
ends whatever the server answers, asks for no page twice and for none beyond its limit,
and hands over every page that arrived, the one that carries a repeated token included.

No wrapper sends a field out of its bounds, also not when an option object was
changed after its constructor accepted it; the texts that `string_to_duration`
refuses are exactly those no Duration denotes, and no digit is lost on the way;
once its request is sent a call fails only with the status code of the RPC, except for a
cancelled coroutine and a message that was claimed but not delivered, because it does not
name its claim or because the heartbeat asked for with it could not be started (the client
was closed meanwhile, the claim has a worker, no thread could be started). An
`NzovuError` therefore does not tell whether a message was claimed; a
`HeartbeatCapacityError` does: nothing was. An error with a code
reaches the handler or the caller, once; and no call ends the heartbeat of a claim
that the server still grants. In the store example a cart gets at most one
checkout message whatever crashes, is lost or arrives late, because the ID of the
follow-up depends on nothing but the cart; no replica heartbeats a claim that it
does not process, also when a thread fetches one after its task was cancelled,
because `close()` goes before `cancel()`; and every cart is settled in the end.
The whole is an implementation of `CartFlow`: what is done to a cart by any number
of replicas is what one careful worker would do to it. It is forwarded only after
a lease and if valid, completed only after it was forwarded, and never moves again
once it is settled.

Three runs show disagreements:

- `SyncThreadStartFailure`. `ThreadPoolExecutor.submit` raises after it has
  queued the item if a thread cannot be started. `start()` deletes the
  registration and the caller gives its slot back, but the orphaned item runs on
  the next free thread, unseen by `stop_heartbeat` and `close`, and its
  `finish()` gives the slot back a second time: one claim too many is admitted.
  `SyncHeartbeats.Spec` leaves this out (there, `submit` fails only before it
  queues), so that the other properties say what holds as long as threads start.
- `ClaimMaxCount`. `heartbeat_max_count` is documented as the "maximum number of
  heartbeats to send per message", but only answered heartbeats are counted.
- `RpcLocalErrors`. `docs/API_CONTRACTS.md` says that local invalid inputs raise
  `ValueError`. A calendar (or a `priority_config`) that does not parse raises the
  `ParseError` of `json_format`, which is no `ValueError`.

## 4. Proofs

`SyncHeartbeatsProofs` proves, for every finite set of calls, every set of
claims and closers, every capacity and max_count (`RegistryAssumption`,
`SyncAssumption`), each safety property of `SyncSafety`, and the refinement:

- `TypeCorrect`. The inductive invariant `TypeInv` adds to `TypeOK` that a worker
  that is about to send or to wait has its counters below their limits
  (`CountersBounded`), and that a call's stage determines its worker's
  (`CallStages`: no work before `start`, a reservation only from `reserve` to
  `start`). Without these the bounds of `sent` and `retries` do not survive a step.
- `RegistryExact`. `RegistryIsExact` is inductive with `TypeInv`.
- `SlotsAccounted`. Each step adds one owner and one to the counter, removes one
  of each, or passes the slot from a caller to its worker
  (`HolderEnters`, `HolderLeaves`); a slot owner is never counted twice because `CallStages` keeps
  reserved calls and live workers apart.
- `AdmissionIsBounded` follows from the accounting and `RegistryIsExact`:
  the listed workers are slot owners.
- `DrainBounded`, `ClosedStaysQuiet`, `CallbackCloseFails`. The invariant says of
  each stage of `close()` what is still alive (`CloseStep`): after `begin_close` the set of live
  workers only shrinks (`ClosedShrinks`), and each close joins all that lived when it began.
- `ImplementsSlotPool`: initial states map to initial states and every step to a
  step of `SlotPool` or a stutter; the mapping takes the slot owners for `holders` and the workers
  whose future is pending for `active`.
- `StoppedWorkersRunOut`: a worker whose stop event is set takes at most five more
  steps (`StepsToEnd` decreases with each) and sends no other heartbeat, and the event is never
  cleared. The invariant it needs is that only workers that have begun are stopped
  (`StoppedBegan`), which follows from `RegistryIsExact`: `stop` and `begin_close` signal what is listed.

`AsyncHeartbeatsProofs` proves the same facts of the asyncio manager along the
same argument (`TypeCorrect`, `RegistryExact`, `SlotsAccounted`,
`ClosedStaysQuiet`, `ImplementsSlotPool`), with the invariant `CloseInv` of the
stages of its `close()`, whose `gather` may be cut off by a timeout or a
cancellation; from the same invariant follows `JoinsCancelAll`. `StoppedTasksRunOut`
adds that a stopped task takes at most three more steps, and that a cancelled one
does nothing but exit and run its done callback.

`ClaimLifecycleProofs` proves, for any number of attempts and any max_count:

- `TypeCorrect`, with the invariant that a worker that has not ended has failed
  fewer than three times and is not past max_count.
- `LeaseNeverAbandoned`. The strengthening is `AnswersAreTrue`: an answer that
  makes the SDK stop a heartbeat, or a worker end, is given only when the lease
  is over, and a lease that is over never becomes active again, as each attempt
  has a lease of its own. Without it the property does not survive the step in
  which an answer given earlier arrives.
- `WorkerEndsForCause`, the action property `WorkerOutlivesFailures`, from the
  same invariant: the answers that say a lease is over are excluded while it is
  active, and so is a stop by the SDK itself, which leaves the reasons the property lists.
- `StaleWorkersRunOut`: a lease that is gone stays gone, and the worker of a claim
  without a lease has at most ten steps left, three heartbeats among them, without
  any limit on their number. `StepsLeft` counts the failures left and the answers that end it.

`PaginationProofs` proves the safety properties for every set of tokens,
also an infinite one, and every limit. The invariant `Progress` says that
everything asked was seen, that the next token was not asked, that the requests
are as many as the tokens asked, and how the pages requested, given and counted
relate at each point of the loop. From it follow `RequestsNeeded`, `PagesYielded`,
`RequestsLimited` (no more requests than `max_pages`, nor than there are tokens), and
`IterationRunsOut`: with finitely many tokens each step, whatever the server
answers, uses up one of a bounded number. The proofs do not rest on
`MaxRequests`, the bound of the run.

`DurationsProofs` proves, for every size of the parameters that `ScaleAssumption`
allows, that the precision `string_to_duration` asks of the decimal context
suffices (`ProductExact`): the units and the nanoseconds add up to fourteen
digits, two more than the code allows for, but an hour and a day end with the
zeros that make up for them (`RoundedExact`). From this follow
`FromNumeralExact` and `StringToDurationExact`: refused if and only if not
representable, exact otherwise.

`RpcCallsProofs` proves the safety properties of `RpcCalls`, for any arguments,
configurations and metadata (`DetailAssumption`: a sequence of keys and values):

- `Stages` is the inductive invariant: the types, that nothing is sent before the
  call is in flight, and that the outcome is pending until it is done. The two
  tables enter through `Fits` only: no bounded argument is passed on unchecked,
  every wrapper catches an `RpcError`, which answers stop a heartbeat, and that only
  `get_next_message`, which catches nothing else, can start one.
- `ContractKept` and `DurationsExact` need `Accepted`: once a call is past its
  prechecks, and past its builders, the arguments it has checked are those it sends.
  An option object can be changed only before, where it is harmless.
- `HeartbeatSafe` rests on `ClaimGone`: an answer that stops a heartbeat means
  that the claim is over, and stays so while it travels.
- `UncodedFailures` from `Stages` and `Undelivered`: only a reply of
  `get_next_message` can lack its claim. `ServerErrorsReported` from `Stages`;
  `Refinement` maps a call to `UnaryCall`.
- `TransportRespected`, for metadata of any length. The code filters a list, and a
  filter is a recursive definition; `Keep(entries, I)` says instead what it
  returns: the entries at the positions `I`, each in its place (`Place(I, i)`, how many of them are
  up to `i`). Places grow by one at each position of `I` (`PlaceFacts`), so each is taken, by exactly
  one position (`PlacesAreTaken`, from the least position that has reached it): `Keep` is the
  subsequence (`KeepIsSubsequence`), and keeps what is put before an appended entry
  (`KeepPrefix`). `LeastElement`, the well-founded order of the naturals, takes the part of induction.

`StoreWorkersProofs` proves, for any number of replicas, workers, carts, attempts,
outages and late requests:

- `OneCheckout`. The invariant `Forwarding` says of whoever acknowledges a claim of
  the store queue, in a task or in a late request, that the cart is valid and its
  checkout message was accepted; without it a late ACK could complete a cart that
  was never forwarded.
- `HeartbeatsProcessed`. The invariant `Shutdown` says that a task is cancelled
  only when the client of its replica is closed, and that a closed client has no
  heartbeats: so no claim fetched by the thread of a cancelled task gets one.
- `ImplementsCartFlow`. Of the steps of all tasks, lifespans, crashes and late requests
  there are six that touch a message (`MessageStep`): it enters, is posted, leased,
  acknowledged, or its lease expires, or nothing happens. Each is an action of
  `CartFlow` on `Stage` and `Tries`. Beside `Forwarding` this needs `Grounded`: only messages
  that a cart names exist, and what a worker forwards, or a late request still may, is a
  valid cart that has been leased; attempts are never taken back, so a lease that was
  lost meanwhile does no harm.
- `CartsRunOut`: no message changes its state more than `2 * MaxAttempts + 2` times.

The theorems that end in `RunOut` (and `IterationRunsOut`) are the safety halves of liveness
properties: a bounded number that each step of an actor decreases, and that no
step of another one changes unless it decreases it too. What is missing to the liveness property is that
a fair step is enabled as long as the number is not zero. No run states them; each
of their invariants is one that a run checks, or is proved.

Only model-checked: liveness (`SlotsReturn`, `CloseReturns`, `CloseSettles`,
`StaleWorkersEnd`, `IterationEnds`, `CallsEnd`, `CartsSettle`), whose step from fairness and
ENABLED is out of this prover's reach, and the three expected violations. Every
invariant and every safety action property that a run checks is proved, and so are
the four refinements.

## 5. Not modelled

The contents of payloads, headers' keys and timestamps (validated, but no
property tells them apart beyond accepted or not); the validation of `api_key`,
`rpc_timeout` and TLS files in the constructors; the payload of the error callback
and the fields of `snapshot` (wording and reporting); `ResponseWrapper`,
`conversion.py` and `models.py`, which convert a reply the caller already has;
generated code (data, and stubs that do what the wrappers' table says they are
asked); scripts, build and CI. In `StoreWorkers`, a second cancellation of a worker
task and the expiry of the server's retention. That the error callback
may run after a deliberate close (`HeartbeatBreaks`) is modelled, but its silence is not
required, as neither code nor documentation promises it.

## 6. Plan

Registry, managers, ownership, pagination, wrappers, durations and the store
example are modelled, and their safety is proved. Left for a next stage:

1. An abstract heartbeat worker (stop event, failures in a row, answered heartbeats),
   implemented by the workers of both managers and by the one of `ClaimLifecycle`, so that
   the three models of that loop are shown to agree.
2. One abstract lease table for the servers of `StoreWorkers` and `ClaimLifecycle`.
3. The safety half of `CallsEnd`, and of `SlotsReturn` for callers.
4. A cart queue with two carts and the full set of four workers, if the state space
   can be cut down.
