------------------------------ MODULE RpcCalls ------------------------------
(***************************************************************************)
(* One call of an RPC wrapper of either client, from the construction of   *)
(* its option objects to its report, while the client may be connected and *)
(* closed and the server may answer late or not at all.                    *)
(*                                                                         *)
(* The wrappers are the tables of SyncWrappers and AsyncWrappers; "stub" is*)
(* a call of the public stub, with metadata and a deadline of its own, as  *)
(* the heartbeat workers make it.  The server is external: it answers as   *)
(* the state of the claim allows.                                          *)
(***************************************************************************)
EXTENDS Wrappers, FiniteSets

CONSTANTS
    Inputs,    \* for each method the arguments it is called with
    Configs,   \* the RpcOptions of the client: api_key and timeout, or None
    Details    \* metadata and timeout that a direct call of the stub passes

Sync == INSTANCE SyncWrappers
Async == INSTANCE AsyncWrappers

Tables == [sync |-> Sync!Methods, async |-> Async!Methods]
Stub == [Wrapper("SendMessageHeartBeat", {}, {}, {}) EXCEPT !.catches = {}]

WrapperOf(kind, name) == IF name = "stub" THEN Stub ELSE Tables[kind][name]

(* Both clients take the same arguments; a lease is a text, or None where  *)
(* it is optional.                                                         *)
ASSUME InputAssumption ==
    /\ DOMAIN Inputs \subseteq DOMAIN Sync!Methods \cup {"stub"}
    /\ \A name \in DOMAIN Inputs : \A given \in Inputs[name] :
          /\ \A kind \in {"sync", "async"} : DOMAIN given = Takes(WrapperOf(kind, name))
          /\ \A n \in DOMAIN given \cap Leases :
                \/ given[n] \in Numerals \cup {Empty, Malformed}
                \/ n \in OptionalLeases /\ given[n] = None
          /\ \A n \in DOMAIN given \cap {"enable_heartbeat"} : given[n] \in BOOLEAN

Replies == {"success", "failure", "empty", "incomplete"}
StatusCodes == OwnershipLost \cup {"INTERNAL", "DEADLINE_EXCEEDED", "UNAVAILABLE", "CANCELLED"}

(* Metadata is a sequence of keys and values, empty by default.            *)
ASSUME DetailAssumption ==
    \A detail \in Details : detail.metadata \in Seq([key : STRING, value : STRING])

ASSUME NoneAssumption ==
    /\ None \notin Replies \cup StatusCodes \cup {"RpcError"}
    /\ {None, Invalid} \cap (Numerals \cup {Empty, Malformed}) = {}

VARIABLES
    client,   \* "sync" or "async"
    options,  \* its RpcOptions
    channel,  \* "none" before connect(), "open" or "closed"
    closed,   \* close() has begun: heartbeats.closed
    method,
    args,     \* the arguments, those in option objects included
    details,  \* metadata and timeout the caller passes to the stub
    handler,  \* the error handler: "none", or one that "returns" or "raises"
    pc,       \* "constructing", "ready", "building", "sending", "flying", "done"
    request,  \* the fields of the request, None before it is sent
    applied,  \* metadata and timeout the interceptor passes on
    transit,  \* "unsent", "sent" or "arrived"
    reply,    \* the server's answer, None before it
    claim,    \* "owned" or "gone": what the server knows of the caller's claim
    beating,  \* the claim's heartbeat is not stopped
    outcome   \* result, error and status code the application gets

clientVars == <<client, options>>
inputVars == <<method, details, handler>>
callVars == <<pc, request, applied, outcome>>
serverVars == <<transit, reply, claim>>
vars == <<clientVars, channel, closed, inputVars, args, callVars, serverVars, beating>>

wrapper == WrapperOf(client, method)

Pending == [result |-> "pending", error |-> None, code |-> None]

-----------------------------------------------------------------------------
(* The entries of a sequence at the positions I, in order.                 *)
Place(I, i) == Cardinality({j \in I : j <= i})
Keep(entries, I) == [n \in 1..Cardinality(I) |-> entries[CHOOSE i \in I : Place(I, i) = n]]

-----------------------------------------------------------------------------
(* Faulty variants, used by no specification.                              *)
CaseSensitiveMetadata(existing) ==
    IF options.api_key = None THEN existing
    ELSE Append(Keep(existing, {i \in DOMAIN existing : existing[i].key # "api-key"}),
                [key |-> "api-key", value |-> options.api_key])
OwnTimeoutOnly(own) == own
StopsOnEveryOwnershipCode(answer) == answer \in OwnershipLost /\ wrapper.stops # {}
ReservesOnStart ==
    \/ pc' = "done" /\ outcome' = [result |-> "value", error |-> None, code |-> None]
    \/ /\ "enable_heartbeat" \in wrapper.flags /\ args["enable_heartbeat"]
       /\ pc' = "done"
       /\ outcome' = [result |-> "raised", error |-> "HeartbeatCapacityError", code |-> None]
LetsThrough(code) ==
    pc' = "done" /\ outcome' = [result |-> "raised", error |-> "RpcError", code |-> code]
Retry ==
    /\ pc = "flying"
    /\ transit' = "sent" /\ reply' = None
    /\ UNCHANGED <<clientVars, channel, closed, inputVars, args, callVars, claim, beating>>
SwallowedCancel ==
    /\ client = "async"
    /\ pc = "flying" /\ pc' = "done"
    /\ UNCHANGED <<clientVars, channel, closed, inputVars, args, request, applied, outcome, serverVars, beating>>

-----------------------------------------------------------------------------
LowerCase(key) == IF key = "Api-Key" THEN "api-key" ELSE key

(* RpcOptions.metadata.                                                    *)
Metadata(existing) ==
    IF options.api_key = None THEN existing
    ELSE Append(Keep(existing, {i \in DOMAIN existing : LowerCase(existing[i].key) # "api-key"}),
                [key |-> "api-key", value |-> options.api_key])

Timeout(own) == IF own = None THEN options.timeout ELSE own

Raise(error, code) == pc' = "done" /\ outcome' = [result |-> "raised", error |-> error, code |-> code]

(* _handle_error: a handler that returns makes the wrapper return None.    *)
Report(code) ==
    \/ handler = "none" /\ Raise("RpcOperationError", code)
    \/ handler = "raises" /\ Raise("HandlerError", code)
    \/ /\ handler = "returns"
       /\ pc' = "done"
       /\ outcome' = [result |-> "handled", error |-> "RpcOperationError", code |-> code]

(* An exception in the try statement; only post_messages_bulk catches more *)
(* than an RpcError.                                                       *)
FailLocally(error) == IF error \in wrapper.catches THEN Report(None) ELSE Raise(error, None)

RpcError(code) == IF "RpcError" \in wrapper.catches THEN Report(code) ELSE Raise("RpcError", code)

StopsHeartbeat(answer) == answer \in wrapper.stops

Deliver == pc' = "done" /\ outcome' = [result |-> "value", error |-> None, code |-> None]

(* get_next_message with enable_heartbeat reserves a slot before its       *)
(* request and starts a worker for the message it has fetched.  The slots  *)
(* and the workers, this one and others, are those of SyncHeartbeats and   *)
(* AsyncHeartbeats; here other calls may hold every slot at any time.      *)
WantsHeartbeat == "enable_heartbeat" \in wrapper.flags /\ args["enable_heartbeat"]

(* Registry.reserve.                                                       *)
Reserve ==
    \/ ~(WantsHeartbeat /\ closed) /\ pc' = "sending" /\ UNCHANGED outcome
    \/ WantsHeartbeat /\ closed /\ FailLocally("NzovuError")
    \/ WantsHeartbeat /\ ~closed /\ FailLocally("HeartbeatCapacityError")

(* start(): the client has been closed since, or the very same claim has a *)
(* worker already; a thread may be impossible to start.                    *)
Start ==
    \/ ~(WantsHeartbeat /\ closed) /\ Deliver
    \/ WantsHeartbeat /\ FailLocally("NzovuError")
    \/ WantsHeartbeat /\ ~closed /\ client = "sync" /\ FailLocally("RuntimeError")

-----------------------------------------------------------------------------
Init ==
    /\ client \in {"sync", "async"}
    /\ options \in Configs
    /\ channel = (IF client = "sync" THEN "open" ELSE "none")
    /\ closed = FALSE
    /\ method \in DOMAIN Inputs
    /\ args \in Inputs[method]
    /\ details \in (IF method = "stub" THEN Details ELSE {[metadata |-> <<>>, timeout |-> None]})
    /\ handler \in (IF method = "stub" THEN {"none"} ELSE {"none", "returns", "raises"})
    /\ pc = "constructing"
    /\ request = None /\ applied = None
    /\ transit = "unsent" /\ reply = None
    /\ claim = "owned" /\ beating = TRUE
    /\ outcome = Pending

(* The constructors of the option classes, in the application.             *)
Construct ==
    /\ pc = "constructing"
    /\ \/ /\ \E n \in DOMAIN args : ConstructorRefuses(n, args[n])
          /\ Raise("ValueError", None)
       \/ /\ \A n \in DOMAIN args : ~ConstructorRefuses(n, args[n])
          /\ pc' = "ready" /\ UNCHANGED outcome
    /\ UNCHANGED <<clientVars, channel, closed, inputVars, args, request, applied, serverVars, beating>>

(* The option classes are no frozen dataclasses: the application may assign*)
(* to their attributes after the constructor has checked them.             *)
Reassign ==
    /\ pc = "ready"
    /\ args' \in Inputs[method]
    /\ \A n \in DOMAIN args \ OptionFields : args'[n] = args[n]
    /\ UNCHANGED <<clientVars, channel, closed, inputVars, callVars, serverVars, beating>>

(* What a wrapper does before its try statement.                           *)
Call ==
    /\ pc = "ready"
    /\ \/ wrapper.guarded /\ closed /\ Raise("NzovuError", None)
       \/ /\ ~(wrapper.guarded /\ closed)
          /\ \E n \in wrapper.checks : Refused(n, args[n])
          /\ Raise("ValueError", None)
       \/ /\ ~(wrapper.guarded /\ closed)
          /\ \A n \in wrapper.checks : ~Refused(n, args[n])
          /\ pc' = "building" /\ UNCHANGED outcome
    /\ UNCHANGED <<clientVars, channel, closed, inputVars, args, request, applied, serverVars, beating>>

(* The request is built; protobuf refuses a text of another type.  Then    *)
(* the slot for a heartbeat is reserved.                                   *)
Build ==
    /\ pc = "building"
    /\ \/ \E n \in wrapper.builds : Refused(n, args[n]) /\ FailLocally(RefusalError(n, args[n]))
       \/ (\E n \in wrapper.texts : args[n] = Invalid) /\ FailLocally("TypeError")
       \/ /\ \A n \in wrapper.builds : ~Refused(n, args[n])
          /\ \A n \in wrapper.texts : args[n] # Invalid
          /\ Reserve
    /\ UNCHANGED <<clientVars, channel, closed, inputVars, args, request, applied, serverVars, beating>>

(* A client that is not connected has no stub; grpc refuses a closed       *)
(* channel; otherwise the interceptor completes the call and it is sent.   *)
Invoke ==
    /\ pc = "sending"
    /\ \/ /\ channel = "none" /\ FailLocally("AttributeError")
          /\ UNCHANGED <<request, applied, transit>>
       \/ /\ channel = "closed" /\ FailLocally(IF client = "sync" THEN "ValueError" ELSE "UsageError")
          /\ UNCHANGED <<request, applied, transit>>
       \/ /\ channel = "open"
          /\ pc' = "flying"
          /\ request' = [n \in DOMAIN args \ wrapper.flags |-> Sent(n, args[n])]
          /\ applied' = [metadata |-> Metadata(details.metadata), timeout |-> Timeout(details.timeout)]
          /\ transit' = "sent"
          /\ UNCHANGED outcome
    /\ UNCHANGED <<clientVars, channel, closed, inputVars, args, reply, claim, beating>>

-----------------------------------------------------------------------------
(* The server.  FAILED_PRECONDITION answers a renewal at its extension     *)
(* limit, while ownership remains valid.                                   *)
Answers ==
    {"INTERNAL"} \cup
    CASE method = "acknowledge_message" ->
            IF claim = "owned" THEN {"success", "failure"} ELSE {"failure"} \cup OwnershipLost
      [] method = "renew_message_lease" ->
            IF claim = "owned" THEN {"success", "FAILED_PRECONDITION"} ELSE OwnershipLost
      [] method = "send_message_heartbeat" -> IF claim = "owned" THEN {"success"} ELSE OwnershipLost
      [] method = "get_next_message" -> {"success", "empty", "incomplete"}
      [] OTHER -> {"success"} \cup OwnershipLost

Arrive ==
    /\ transit = "sent"
    /\ transit' = "arrived"
    /\ reply' \in Answers
    /\ claim' = (IF method = "acknowledge_message" /\ reply' = "success" THEN "gone" ELSE claim)
    /\ UNCHANGED <<clientVars, channel, closed, inputVars, args, callVars, beating>>

LeaseEnds ==
    /\ claim = "owned"
    /\ claim' = "gone"
    /\ UNCHANGED <<clientVars, channel, closed, inputVars, args, callVars, transit, reply, beating>>

-----------------------------------------------------------------------------
(* The answer reaches the wrapper.  Claim.from_response refuses a message  *)
(* without the claim's identity, and finds no claim in an empty response.  *)
Return ==
    /\ pc = "flying" /\ transit = "arrived"
    /\ \/ reply = "success" /\ Start
       \/ reply \in {"failure", "empty"} /\ Deliver
       \/ reply = "incomplete" /\ FailLocally("ValueError")
       \/ reply \notin Replies /\ RpcError(reply)
    /\ beating' = (beating /\ ~StopsHeartbeat(reply))
    /\ UNCHANGED <<clientVars, channel, closed, inputVars, args, request, applied, serverVars>>

(* grpc gives the call up; whether the request arrives is not known.       *)
GiveUp(code) ==
    /\ pc = "flying"
    /\ RpcError(code)
    /\ beating' = (beating /\ ~StopsHeartbeat(code))
    /\ UNCHANGED <<clientVars, channel, closed, inputVars, args, request, applied, serverVars>>

Expire == pc = "flying" /\ applied.timeout # None /\ GiveUp("DEADLINE_EXCEEDED")
Unavailable == GiveUp("UNAVAILABLE")
Cut == client = "sync" /\ channel = "closed" /\ GiveUp("CANCELLED")

(* A coroutine is cancelled by its task or by the closed channel; no       *)
(* wrapper catches a CancelledError.                                       *)
CancelTask ==
    /\ client = "async"
    /\ pc = "flying"
    /\ Raise("CancelledError", None)
    /\ UNCHANGED <<clientVars, channel, closed, inputVars, args, request, applied, serverVars, beating>>

CutTask == channel = "closed" /\ CancelTask

-----------------------------------------------------------------------------
(* ensure_open refuses to connect a closed client.                         *)
Connect ==
    /\ client = "async"
    /\ channel = "none" /\ ~closed
    /\ channel' = "open"
    /\ UNCHANGED <<clientVars, closed, inputVars, args, callVars, serverVars, beating>>

(* close() stops the heartbeats first, then the channel.                   *)
BeginClose ==
    /\ ~closed
    /\ closed' = TRUE /\ beating' = FALSE
    /\ UNCHANGED <<clientVars, channel, inputVars, args, callVars, serverVars>>

CloseChannel ==
    /\ closed /\ channel = "open"
    /\ channel' = "closed"
    /\ UNCHANGED <<clientVars, closed, inputVars, args, callVars, serverVars, beating>>

Next ==
    \/ Construct \/ Reassign \/ Call \/ Build \/ Invoke
    \/ Arrive \/ LeaseEnds
    \/ Return \/ Expire \/ Unavailable \/ Cut \/ CancelTask \/ CutTask
    \/ Connect \/ BeginClose \/ CloseChannel

Spec == Init /\ [][Next]_vars

(* grpc ends a call at its deadline and when its channel is closed.        *)
Ending == Expire \/ Cut \/ CutTask
FairSpec == Spec /\ WF_vars(Ending)

-----------------------------------------------------------------------------
(* Each variable ranges over the values the code can give it.              *)
TypeOK ==
    /\ client \in {"sync", "async"} /\ options \in Configs
    /\ channel \in {"none", "open", "closed"} /\ closed \in BOOLEAN
    /\ DOMAIN args = Takes(wrapper)
    /\ handler \in {"none", "returns", "raises"}
    /\ pc \in {"constructing", "ready", "building", "sending", "flying", "done"}
    /\ transit \in {"unsent", "sent", "arrived"}
    /\ claim \in {"owned", "gone"} /\ beating \in BOOLEAN
    /\ outcome.result \in {"pending", "value", "raised", "handled"}
    /\ pc = "done" <=> outcome.result # "pending"
    /\ pc = "flying" => transit # "unsent"
    /\ IF transit = "arrived" THEN reply \in Replies \cup StatusCodes ELSE reply = None

(* The bounds the SDK promises of a field.                                 *)
WithinContract(n, v) ==
    /\ n = "page_size" => v \in 0..MaxPage
    /\ n = "count" => v \in 0..100
    /\ n \in {"version", "schema_version"} => v \in 0..MaxInt32
    /\ n = "priority" => v \in 0..4
    /\ n = "schedule_priority" => v = None \/ v \in 0..4
    /\ n = "max_renewals" => v = None \/ v \in 0..MaxInt32
    /\ n = "size" => v \in 1..MaxBulk
    /\ n = "priority_range" => v = None \/ (0 <= v.min /\ v.min <= v.max /\ v.max <= 4)
    /\ n = "headers" => /\ ~(HeaderBytes(v) > MaxHeaderBytes)
                        /\ \A i \in DOMAIN v : ~v[i].reserved /\ ~(v[i].length > MaxHeaderValue)
    /\ n = "trigger" => v \notin {"both", "neither", Invalid}
    /\ n = "same_queue" => v # FALSE
    /\ n = "target_queue" => v # "blank"
    /\ n \in Leases => v = None \/ v \in ProtoDurations

(* Whatever the application assigns to an option object after its          *)
(* constructor, no request breaks a bound: the builders of utils.py and the*)
(* wrappers validate again what they convert.                              *)
RequestsWithinContract ==
    transit # "unsent" => \A n \in DOMAIN request : WithinContract(n, request[n])

(* string_to_duration refuses exactly the texts that no Duration denotes,  *)
(* and what is sent denotes the text: no digit is rounded away, an absent  *)
(* lease stays absent and an explicit zero of a message's lease is sent.   *)
DurationsAreExact ==
    \A n \in DOMAIN args \cap Leases :
        LET text == args[n]
        IN  IF text \in {None, Empty, Malformed}
            THEN transit # "unsent" =>
                    IF text = None \/ n \in TruthyLeases THEN request[n] = None
                    ELSE request[n] = [seconds |-> 0, nanos |-> 0]
            ELSE /\ DurationRefused(text) <=> ~Representable(text)
                 /\ transit # "unsent" => Denotes(text, request[n])

IsApiKey(entry) == entry.key \in {"api-key", "Api-Key"}
Others(metadata) == {i \in DOMAIN metadata : ~IsApiKey(metadata[i])}

(* The interceptors: a configured key replaces every other api-key whatever*)
(* its case, other metadata is kept in order, a deadline of the call's own *)
(* goes before the client's.                                               *)
TransportApplied ==
    transit # "unsent" =>
        /\ Keep(applied.metadata, Others(applied.metadata)) = Keep(details.metadata, Others(details.metadata))
        /\ options.api_key # None =>
              /\ Cardinality({i \in DOMAIN applied.metadata : IsApiKey(applied.metadata[i])}) = 1
              /\ \E i \in DOMAIN applied.metadata :
                    applied.metadata[i] = [key |-> "api-key", value |-> options.api_key]
        /\ applied.timeout = IF details.timeout # None THEN details.timeout ELSE options.timeout

(* Once its request is sent, a call fails only with the status code of the *)
(* RPC.  The exceptions are a cancelled coroutine and a message that was   *)
(* claimed but could not be delivered: it came without the identity of its *)
(* claim, or the heartbeat that was asked for could not be started.  In    *)
(* particular a HeartbeatCapacityError means that nothing was claimed.     *)
SentRequestsFailWithCode ==
    outcome.result \in {"raised", "handled"} /\ outcome.code = None /\ transit # "unsent" =>
        \/ client = "async" /\ outcome.error = "CancelledError"
        \/ reply = "incomplete" /\ outcome.error = "ValueError"
        \/ reply = "success" /\ WantsHeartbeat /\ outcome.error \in {"NzovuError", "RuntimeError"}

(* A wrapper never lets an RpcError through and never drops it: without a  *)
(* handler the application gets an RpcOperationError with its code, with   *)
(* one the handler gets it.                                                *)
ServerErrorsRouted ==
    pc = "done" /\ method # "stub" =>
        /\ outcome.error # "RpcError"
        /\ outcome.code # None => outcome.result = IF handler = "returns" THEN "handled" ELSE "raised"
        /\ outcome.code # None => outcome.error = IF handler = "raises" THEN "HandlerError" ELSE "RpcOperationError"

(* While the client is open, a call stops the claim's heartbeat only when  *)
(* the server no longer knows the claim: not when a renewal meets its      *)
(* extension limit and not when an answer is lost.                         *)
HeartbeatKept == ~beating /\ ~closed => claim = "gone"

(* docs/API_CONTRACTS.md: "Local invalid inputs raise `ValueError`; bulk   *)
(* validation retains the existing `RpcOperationError` wrapper."           *)
LocalRefusalsAreValueErrors ==
    pc = "done" /\ outcome.code = None /\ transit = "unsent" /\ channel = "open" =>
        outcome.error \in {"ValueError", "RpcOperationError", "HandlerError",
                           "NzovuError", "HeartbeatCapacityError"}

(* A call with a deadline, of its own or the client's, and a call of a     *)
(* closed channel end, even if the server never answers.                   *)
CallsEnd ==
    (pc = "flying" /\ (details.timeout # None \/ options.timeout # None \/ channel = "closed")) ~> (pc = "done")

Stage == IF pc = "done" THEN "over" ELSE IF pc = "flying" THEN "flying" ELSE "open"
Reported == IF outcome.result = "pending" THEN "none" ELSE outcome.result

Abstract == INSTANCE UnaryCall WITH stage <- Stage, transit <- transit, report <- Reported

(* One call makes at most one request and one report: the SDK never        *)
(* retries, a refused call sends nothing, and a value is an answer.        *)
RefinesUnaryCall == Abstract!Spec

=============================================================================
