--------------------------- MODULE RpcCallsProofs ---------------------------
(***************************************************************************)
(* Proofs about a call of an RPC wrapper, for all arguments and every      *)
(* order of the calls, the server and close().  The tables of both clients *)
(* enter through these facts (Fits): no argument with a bound is passed on *)
(* unchecked, every wrapper catches an RpcError, only the three calls that *)
(* name a claim stop its heartbeat, for the answers listed, and only       *)
(* get_next_message, which catches nothing else, can start one.            *)
(***************************************************************************)
EXTENDS RpcCalls, DurationsProofs, FiniteSetTheorems, WellFoundedInduction

Bounded == Leases \cup {"page_size", "count", "version", "schema_version", "priority", "schedule_priority",
    "max_renewals", "size", "priority_range", "headers", "trigger", "same_queue", "target_queue"}

Fits(name, w) ==
    /\ w.texts \cap Bounded = {}
    /\ "RpcError" \in w.catches
    /\ w.flags = IF name = "get_next_message" THEN {"enable_heartbeat"} ELSE {}
    /\ name = "get_next_message" => w.catches = {"RpcError"}
    /\ w.stops = CASE name = "acknowledge_message" -> {"success"} \cup OwnershipLost
                   [] name = "renew_message_lease" -> {"NOT_FOUND", "PERMISSION_DENIED"}
                   [] name = "send_message_heartbeat" -> OwnershipLost
                   [] OTHER -> {}

LEMMA SyncTable == \A name \in DOMAIN Sync!Methods : Fits(name, Sync!Methods[name])
<1>. USE DEF Fits, Bounded, Leases, OptionalLeases, TruthyLeases, PolicyLeases, OwnershipLost,
         Sync!Wrapper, Sync!OwnershipLost, Sync!ClaimFields, Sync!PageFields, Sync!PayloadFields, Sync!MessageFields,
         Sync!ScheduleFields, Sync!QueueFields, Sync!PolicyLeases
<1>1. /\ Fits("create_queue", Sync!CreateQueue)
      /\ Fits("delete_queue", Sync!DeleteQueue)
      /\ Fits("list_queues", Sync!ListQueues)
      /\ Fits("get_queue_state", Sync!GetQueueState)
      BY DEF Sync!CreateQueue, Sync!DeleteQueue, Sync!ListQueues, Sync!GetQueueState
<1>2. /\ Fits("post_message", Sync!PostMessage)
      /\ Fits("post_messages_bulk", Sync!PostMessagesBulk)
      /\ Fits("cancel_message", Sync!CancelMessage)
      /\ Fits("peek_queue_messages", Sync!PeekQueueMessages)
      BY DEF Sync!PostMessage, Sync!PostMessagesBulk, Sync!CancelMessage,
         Sync!PeekQueueMessages
<1>3. /\ Fits("get_next_message", Sync!GetNextMessage)
      /\ Fits("acknowledge_message", Sync!AcknowledgeMessage)
      /\ Fits("renew_message_lease", Sync!RenewMessageLease)
      /\ Fits("send_message_heartbeat", Sync!SendMessageHeartbeat)
      BY DEF Sync!GetNextMessage, Sync!AcknowledgeMessage, Sync!RenewMessageLease,
         Sync!SendMessageHeartbeat
<1>4. /\ Fits("create_schedule", Sync!CreateSchedule)
      /\ Fits("delete_schedule", Sync!DeleteSchedule)
      /\ Fits("get_schedule", Sync!GetSchedule)
      /\ Fits("list_schedules", Sync!ListSchedules)
      BY DEF Sync!CreateSchedule, Sync!DeleteSchedule, Sync!GetSchedule, Sync!ListSchedules
<1>5. /\ Fits("get_schedule_history", Sync!GetScheduleHistory)
      /\ Fits("pause_schedule", Sync!PauseSchedule)
      /\ Fits("resume_schedule", Sync!ResumeSchedule)
      /\ Fits("validate_calendar_schedule", Sync!ValidateCalendarSchedule)
      /\ Fits("preview_calendar_schedule", Sync!PreviewCalendarSchedule)
      BY DEF Sync!GetScheduleHistory, Sync!PauseSchedule, Sync!ResumeSchedule,
         Sync!ValidateCalendarSchedule, Sync!PreviewCalendarSchedule
<1>6. /\ Fits("register_schema", Sync!RegisterSchema)
      /\ Fits("get_schema", Sync!GetSchema)
      /\ Fits("list_schemas", Sync!ListSchemas)
      /\ Fits("delete_schema", Sync!DeleteSchema)
      /\ Fits("validate_payload", Sync!ValidatePayload)
      BY DEF Sync!RegisterSchema, Sync!GetSchema, Sync!ListSchemas, Sync!DeleteSchema,
         Sync!ValidatePayload
<1>7. /\ Fits("get_dlq_messages", Sync!GetDlqMessages)
      /\ Fits("requeue_from_dlq", Sync!RequeueFromDlq)
      /\ Fits("delete_from_dlq", Sync!DeleteFromDlq)
      /\ Fits("purge_dlq", Sync!PurgeDlq)
      /\ Fits("get_dlq_stats", Sync!GetDlqStats)
      BY DEF Sync!GetDlqMessages, Sync!RequeueFromDlq, Sync!DeleteFromDlq, Sync!PurgeDlq,
         Sync!GetDlqStats
<1>. HIDE DEF Fits
<1>. QED BY <1>1, <1>2, <1>3, <1>4, <1>5, <1>6, <1>7 DEF Sync!Methods

LEMMA AsyncTable == \A name \in DOMAIN Async!Methods : Fits(name, Async!Methods[name])
<1>. USE DEF Fits, Bounded, Leases, OptionalLeases, TruthyLeases, PolicyLeases, OwnershipLost,
         Async!Wrapper, Async!OwnershipLost, Async!ClaimFields, Async!PageFields, Async!PayloadFields, Async!MessageFields,
         Async!ScheduleFields, Async!QueueFields, Async!PolicyLeases
<1>1. /\ Fits("create_queue", Async!CreateQueue)
      /\ Fits("delete_queue", Async!DeleteQueue)
      /\ Fits("list_queues", Async!ListQueues)
      /\ Fits("get_queue_state", Async!GetQueueState)
      BY DEF Async!CreateQueue, Async!DeleteQueue, Async!ListQueues, Async!GetQueueState
<1>2. /\ Fits("post_message", Async!PostMessage)
      /\ Fits("post_messages_bulk", Async!PostMessagesBulk)
      /\ Fits("cancel_message", Async!CancelMessage)
      /\ Fits("peek_queue_messages", Async!PeekQueueMessages)
      BY DEF Async!PostMessage, Async!PostMessagesBulk, Async!CancelMessage,
         Async!PeekQueueMessages
<1>3. /\ Fits("get_next_message", Async!GetNextMessage)
      /\ Fits("acknowledge_message", Async!AcknowledgeMessage)
      /\ Fits("renew_message_lease", Async!RenewMessageLease)
      /\ Fits("send_message_heartbeat", Async!SendMessageHeartbeat)
      BY DEF Async!GetNextMessage, Async!AcknowledgeMessage, Async!RenewMessageLease,
         Async!SendMessageHeartbeat
<1>4. /\ Fits("create_schedule", Async!CreateSchedule)
      /\ Fits("delete_schedule", Async!DeleteSchedule)
      /\ Fits("get_schedule", Async!GetSchedule)
      /\ Fits("list_schedules", Async!ListSchedules)
      BY DEF Async!CreateSchedule, Async!DeleteSchedule, Async!GetSchedule, Async!ListSchedules
<1>5. /\ Fits("get_schedule_history", Async!GetScheduleHistory)
      /\ Fits("pause_schedule", Async!PauseSchedule)
      /\ Fits("resume_schedule", Async!ResumeSchedule)
      /\ Fits("validate_calendar_schedule", Async!ValidateCalendarSchedule)
      /\ Fits("preview_calendar_schedule", Async!PreviewCalendarSchedule)
      BY DEF Async!GetScheduleHistory, Async!PauseSchedule, Async!ResumeSchedule,
         Async!ValidateCalendarSchedule, Async!PreviewCalendarSchedule
<1>6. /\ Fits("register_schema", Async!RegisterSchema)
      /\ Fits("get_schema", Async!GetSchema)
      /\ Fits("list_schemas", Async!ListSchemas)
      /\ Fits("delete_schema", Async!DeleteSchema)
      /\ Fits("validate_payload", Async!ValidatePayload)
      BY DEF Async!RegisterSchema, Async!GetSchema, Async!ListSchemas, Async!DeleteSchema,
         Async!ValidatePayload
<1>7. /\ Fits("get_dlq_messages", Async!GetDlqMessages)
      /\ Fits("requeue_from_dlq", Async!RequeueFromDlq)
      /\ Fits("delete_from_dlq", Async!DeleteFromDlq)
      /\ Fits("purge_dlq", Async!PurgeDlq)
      /\ Fits("get_dlq_stats", Async!GetDlqStats)
      BY DEF Async!GetDlqMessages, Async!RequeueFromDlq, Async!DeleteFromDlq, Async!PurgeDlq,
         Async!GetDlqStats
<1>. HIDE DEF Fits
<1>. QED BY <1>1, <1>2, <1>3, <1>4, <1>5, <1>6, <1>7 DEF Async!Methods

(* What the proofs need of the wrapper of the call.                        *)
WrapperFits ==
    /\ wrapper.texts \cap Bounded = {}
    /\ method # "stub" => "RpcError" \in wrapper.catches
    /\ wrapper.flags = IF method = "get_next_message" THEN {"enable_heartbeat"} ELSE {}
    /\ method = "get_next_message" => wrapper.catches = {"RpcError"}
    /\ wrapper.stops \subseteq {"success"} \cup OwnershipLost
    /\ method \notin {"acknowledge_message", "renew_message_lease", "send_message_heartbeat"} => wrapper.stops = {}
    /\ method = "renew_message_lease" => wrapper.stops = {"NOT_FOUND", "PERMISSION_DENIED"}
    /\ method = "send_message_heartbeat" => wrapper.stops = OwnershipLost

LEMMA WrapperFacts ==
    ASSUME client \in {"sync", "async"}, method \in DOMAIN Inputs
    PROVE  WrapperFits
<1>1. CASE method = "stub"
      BY <1>1 DEF WrapperFits, wrapper, WrapperOf, Stub, Wrapper
<1>2. CASE method # "stub"
  <2>1. wrapper = Tables[client][method]
        BY <1>2 DEF wrapper, WrapperOf
  <2>2. method \in DOMAIN Sync!Methods /\ DOMAIN Sync!Methods = DOMAIN Async!Methods
    <3>1. DOMAIN Sync!Methods = DOMAIN Async!Methods
          BY DEF Sync!Methods, Async!Methods
    <3>. QED BY <1>2, <3>1, InputAssumption
  <2>3. Fits(method, wrapper)
        BY <2>1, <2>2, SyncTable, AsyncTable DEF Tables
  <2>. QED BY <1>2, <2>3 DEF Fits, WrapperFits, OwnershipLost
<1>. QED BY <1>1, <1>2

-----------------------------------------------------------------------------
(* The stages of a call.                                                   *)
Stages ==
    /\ TypeOK
    /\ method \in DOMAIN Inputs /\ args \in Inputs[method]
    /\ pc \in {"constructing", "ready", "building", "sending"} => transit = "unsent"
    /\ pc # "done" => outcome = Pending

LEMMA ArgumentFacts ==
    ASSUME client \in {"sync", "async"}, method \in DOMAIN Inputs, NEW given \in Inputs[method]
    PROVE  /\ DOMAIN given = Takes(wrapper)
           /\ \A n \in DOMAIN given \cap Leases :
                \/ given[n] \in Numerals \cup {Empty, Malformed}
                \/ n \in OptionalLeases /\ given[n] = None
    BY InputAssumption DEF wrapper

LEMMA EndFacts ==
    /\ \A error, code : Raise(error, code) => pc' = "done" /\ outcome'.result = "raised"
    /\ \A code : Report(code) => pc' = "done" /\ outcome'.result \in {"raised", "handled"}
    /\ \A error : FailLocally(error) => pc' = "done" /\ outcome'.result \in {"raised", "handled"}
    /\ \A code : RpcError(code) => pc' = "done" /\ outcome'.result \in {"raised", "handled"}
    /\ Deliver => pc' = "done" /\ outcome'.result = "value"
    /\ Reserve => \/ pc' = "sending" /\ outcome' = outcome
                  \/ pc' = "done" /\ outcome'.result \in {"raised", "handled"}
    /\ Start => pc' = "done" /\ outcome'.result \in {"value", "raised", "handled"}
<1>1. \A error, code : Raise(error, code) => pc' = "done" /\ outcome'.result = "raised"
      BY DEF Raise
<1>2. \A code : Report(code) => pc' = "done" /\ outcome'.result \in {"raised", "handled"}
      BY <1>1 DEF Report
<1>3. \A error : FailLocally(error) => pc' = "done" /\ outcome'.result \in {"raised", "handled"}
      BY <1>1, <1>2 DEF FailLocally
<1>4. Deliver => pc' = "done" /\ outcome'.result = "value"
      BY DEF Deliver
<1>5. Reserve => \/ pc' = "sending" /\ outcome' = outcome
                 \/ pc' = "done" /\ outcome'.result \in {"raised", "handled"}
      BY <1>3 DEF Reserve
<1>6. Start => pc' = "done" /\ outcome'.result \in {"value", "raised", "handled"}
      BY <1>3, <1>4 DEF Start
<1>. QED BY <1>1, <1>2, <1>3, <1>4, <1>5, <1>6 DEF RpcError

LEMMA StagesInit == Init => Stages
<1>. SUFFICES ASSUME Init PROVE Stages
     OBVIOUS
<1>1. /\ client \in {"sync", "async"} /\ options \in Configs
      /\ channel \in {"none", "open", "closed"} /\ closed \in BOOLEAN
      /\ handler \in {"none", "returns", "raises"}
      /\ method \in DOMAIN Inputs /\ args \in Inputs[method]
      BY DEF Init
<1>2. DOMAIN args = Takes(wrapper)
      BY <1>1, ArgumentFacts
<1>3. pc = "constructing" /\ transit = "unsent" /\ reply = None /\ claim = "owned" /\ beating = TRUE
      BY DEF Init
<1>4. outcome = Pending /\ outcome.result = "pending"
      BY DEF Init, Pending
<1>. QED BY <1>1, <1>2, <1>3, <1>4 DEF Stages, TypeOK

LEMMA StagesNext == Stages /\ [Next]_vars => Stages'
<1>. SUFFICES ASSUME Stages, [Next]_vars PROVE Stages'
     OBVIOUS
<1>. USE DEF Stages, TypeOK
<1>1. /\ client' = client /\ options' = options /\ method' = method
      /\ handler' \in {"none", "returns", "raises"}
      /\ closed' \in BOOLEAN /\ channel' \in {"none", "open", "closed"}
      /\ args' \in Inputs[method]
      BY DEF Next, vars, clientVars, inputVars, Construct, Reassign, Call, Build, Invoke, Arrive, LeaseEnds, Return,
             GiveUp, Expire, Unavailable, Cut, CancelTask, CutTask, Connect, BeginClose, CloseChannel
<1>2. DOMAIN args' = Takes(wrapper)'
  <2>1. wrapper' = wrapper
        BY <1>1 DEF wrapper
  <2>. QED BY <1>1, <2>1, ArgumentFacts DEF Takes
<1>. DEFINE Talk ==
        /\ pc' \in {"constructing", "ready", "building", "sending", "flying", "done"}
        /\ transit' \in {"unsent", "sent", "arrived"}
        /\ outcome'.result \in {"pending", "value", "raised", "handled"}
        /\ pc' = "done" <=> outcome'.result # "pending"
        /\ pc' = "flying" => transit' # "unsent"
        /\ IF transit' = "arrived" THEN reply' \in Replies \cup StatusCodes ELSE reply' = None
        /\ pc' \in {"constructing", "ready", "building", "sending"} => transit' = "unsent"
        /\ pc' # "done" => outcome' = Pending
<1>3. beating' \in BOOLEAN
      BY DEF Next, vars, Construct, Reassign, Call, Build, Invoke, Arrive, LeaseEnds, Return,
             GiveUp, Expire, Unavailable, Cut, CancelTask, CutTask, Connect, BeginClose, CloseChannel
<1>4. claim' \in {"owned", "gone"}
      BY DEF Next, vars, serverVars, Construct, Reassign, Call, Build, Invoke, Arrive, LeaseEnds, Return,
             GiveUp, Expire, Unavailable, Cut, CancelTask, CutTask, Connect, BeginClose, CloseChannel
<1>5. Talk
  <2>1. CASE UNCHANGED <<callVars, transit, reply>>
        BY <2>1 DEF callVars
  <2>2. CASE Construct
        BY <2>2, EndFacts DEF Construct, serverVars
  <2>3. CASE Call
        BY <2>3, EndFacts DEF Call, serverVars
  <2>4. CASE Build
        BY <2>4, EndFacts DEF Build, serverVars
  <2>5. CASE Invoke
        BY <2>5, EndFacts DEF Invoke
  <2>6. CASE Arrive
    <3>1. reply' \in Replies \cup StatusCodes
          BY <2>6 DEF Arrive, Answers, Replies, StatusCodes, OwnershipLost
    <3>. QED BY <2>6, <3>1 DEF Arrive, callVars
  <2>7. CASE Return
        BY <2>7, EndFacts DEF Return, serverVars
  <2>8. CASE \E code : GiveUp(code)
        BY <2>8, EndFacts DEF GiveUp, serverVars
  <2>9. CASE CancelTask
        BY <2>9, EndFacts DEF CancelTask, serverVars
  <2>. HIDE DEF Stages, TypeOK, Talk
  <2>10. CASE Reassign \/ LeaseEnds \/ Connect \/ BeginClose \/ CloseChannel \/ UNCHANGED vars
        BY <2>1, <2>10 DEF Reassign, LeaseEnds, Connect, BeginClose, CloseChannel, vars, serverVars
  <2>. QED BY <2>2, <2>3, <2>4, <2>5, <2>6, <2>7, <2>8, <2>9, <2>10 DEF Next, Expire, Unavailable, Cut, CutTask
<1>. QED BY <1>1, <1>2, <1>3, <1>4, <1>5

(* Each variable keeps to its values.                                      *)
THEOREM TypeCorrect == Spec => []TypeOK
<1>1. Stages => TypeOK
      BY DEF Stages
<1>. QED BY <1>1, StagesInit, StagesNext, PTL DEF Spec

-----------------------------------------------------------------------------
(* What has been sent has been accepted.                                   *)
Accepted ==
    /\ pc \in {"building", "sending"} => \A n \in wrapper.checks : ~Refused(n, args[n])
    /\ pc = "sending" => \A n \in wrapper.builds : ~Refused(n, args[n])
    /\ transit # "unsent" => \A n \in wrapper.checks \cup wrapper.builds : ~Refused(n, args[n])
    /\ transit # "unsent" => request = [n \in DOMAIN args \ wrapper.flags |-> Sent(n, args[n])]

LEMMA SameInputs ==
    Stages /\ [Next]_vars => /\ wrapper' = wrapper
                             /\ ~Reassign => args' = args
    BY DEF wrapper, Next, vars, clientVars, inputVars, Construct, Reassign, Call, Build, Invoke, Arrive, LeaseEnds,
           Return, GiveUp, Expire, Unavailable, Cut, CancelTask, CutTask, Connect, BeginClose, CloseChannel

LEMMA AcceptedNext == Stages /\ Stages' /\ Accepted /\ [Next]_vars => Accepted'
<1>. SUFFICES ASSUME Stages, Stages', Accepted, [Next]_vars PROVE Accepted'
     OBVIOUS
<1>1. wrapper' = wrapper /\ (~Reassign => args' = args)
      BY SameInputs
<1>2. pc = "constructing" \/ pc = "ready" => transit = "unsent"
      BY DEF Stages
<1>3. CASE Construct
      BY <1>1, <1>2, <1>3, EndFacts DEF Construct, Accepted, serverVars
<1>4. CASE Reassign
      BY <1>1, <1>2, <1>4 DEF Reassign, Accepted, callVars, serverVars
<1>5. CASE Call
      BY <1>1, <1>2, <1>5, EndFacts DEF Call, Accepted, serverVars
<1>6. CASE Build
  <2>1. transit' = "unsent"
        BY <1>6 DEF Build, serverVars, Stages
  <2>. QED BY <1>1, <1>6, <2>1, EndFacts DEF Build, Accepted
<1>7. CASE Invoke
      BY <1>1, <1>7, EndFacts DEF Invoke, Accepted
<1>8. CASE pc' \notin {"building", "sending"} /\ UNCHANGED <<request, args>> /\ (transit' # "unsent" => transit # "unsent")
      BY <1>1, <1>8 DEF Accepted
<1>9. CASE Arrive \/ Return \/ CancelTask \/ (\E code : GiveUp(code))
  <2>1. UNCHANGED <<request, args>> /\ (transit' # "unsent" => transit # "unsent")
        BY <1>9 DEF Arrive, Return, CancelTask, GiveUp, callVars, serverVars
  <2>2. transit # "unsent"
        BY <1>9 DEF Arrive, Return, CancelTask, GiveUp, Stages, TypeOK
  <2>3. pc' \notin {"building", "sending"}
        BY <2>2, <1>9, EndFacts DEF Arrive, Return, CancelTask, GiveUp, Stages, callVars
  <2>. QED BY <1>8, <2>1, <2>3
<1>10. CASE UNCHANGED <<callVars, transit, args>>
      BY <1>1, <1>10 DEF Accepted, callVars
<1>. QED BY <1>3, <1>4, <1>5, <1>6, <1>7, <1>9, <1>10 DEF Next, LeaseEnds, Connect, BeginClose, CloseChannel, vars,
            serverVars, Expire, Unavailable, Cut, CutTask

LEMMA StagesAccepted == Spec => [](Stages /\ Accepted)
<1>1. Init => Stages /\ Accepted
      BY StagesInit DEF Init, Accepted
<1>2. (Stages /\ Accepted) /\ [Next]_vars => (Stages /\ Accepted)'
      BY StagesNext, AcceptedNext
<1>. QED BY <1>1, <1>2, PTL DEF Spec

(* An accepted value is sent within its bounds.                            *)
LEMMA SentWithinContract ==
    ASSUME NEW n, NEW v, ~Refused(n, v),
           n \in Leases => v \in Numerals \cup {Empty, Malformed} \/ (n \in OptionalLeases /\ v = None)
    PROVE  WithinContract(n, Sent(n, v))
<1>1. CASE n \notin Leases
  <2>1. Sent(n, v) = v
        BY <1>1 DEF Sent
  <2>2. WithinContract(n, v)
    <3>1. /\ n = "page_size" => v \in 0..MaxPage
          /\ n = "count" => v \in 0..100
          /\ n \in {"version", "schema_version"} => v \in 0..MaxInt32
          /\ n = "priority" => v \in 0..4
          /\ n = "size" => v \in 1..MaxBulk
          BY ArgumentAssumption DEF Refused, ValidInteger
    <3>2. /\ n = "schedule_priority" => v = None \/ v \in 0..4
          /\ n = "max_renewals" => v = None \/ v \in 0..MaxInt32
          BY ArgumentAssumption DEF Refused, ValidInteger
    <3>3. n = "priority_range" => v = None \/ (0 <= v.min /\ v.min <= v.max /\ v.max <= 4)
          BY DEF Refused, PriorityRangeRefused, ValidInteger
    <3>4. n = "headers" => /\ ~(HeaderBytes(v) > MaxHeaderBytes)
                           /\ \A i \in DOMAIN v : ~v[i].reserved /\ ~(v[i].length > MaxHeaderValue)
          BY DEF Refused, HeadersRefused
    <3>5. /\ n = "trigger" => v \notin {"both", "neither", Invalid}
          /\ n = "same_queue" => v # FALSE
          BY DEF Refused, TriggerRefused
    <3>6. n = "target_queue" => v # "blank"
          BY DEF Refused, RequiredName
    <3>. QED BY <1>1, <3>1, <3>2, <3>3, <3>4, <3>5, <3>6 DEF WithinContract
  <2>. QED BY <2>1, <2>2
<1>2. CASE n \in Leases
  <2>1. Sent(n, v) = None \/ Sent(n, v) \in ProtoDurations
    <3>1. CASE v = None
      <4>1. n \in OptionalLeases
            BY <1>2, <3>1, NoneAssumption
      <4>. QED BY <1>2, <3>1, <4>1 DEF Sent
    <3>2. CASE v # None
      <4>1. ~DurationRefused(v)
            BY <1>2, <3>2 DEF Refused
      <4>2. StringToDuration(v) \in ProtoDurations
        <5>1. CASE v \in Numerals
              BY <4>1, <5>1, StringToDurationExact
        <5>2. CASE v = Empty
              BY <5>2, EmptyIsZero
        <5>3. CASE v = Malformed /\ v # Empty
              BY <4>1, <5>3 DEF DurationRefused, StringToDuration
        <5>. QED BY <1>2, <3>2, <5>1, <5>2, <5>3
      <4>. QED BY <1>2, <4>2 DEF Sent
    <3>. QED BY <3>1, <3>2
  <2>. QED BY <1>2, <2>1 DEF WithinContract, Leases, OptionalLeases, TruthyLeases, PolicyLeases
<1>. QED BY <1>1, <1>2

(* What the contract does not bound is sent as it is.                      *)
LEMMA UnboundedFields == ASSUME NEW n, n \notin Bounded, NEW v PROVE WithinContract(n, v)
    BY DEF WithinContract, Bounded

(* No order of validations and assignments lets a request out of bounds    *)
(* leave the client.                                                       *)
THEOREM ContractKept == Spec => []RequestsWithinContract
<1>1. Stages /\ Accepted => RequestsWithinContract
  <2>. SUFFICES ASSUME Stages, Accepted, transit # "unsent", NEW n \in DOMAIN request
                PROVE  WithinContract(n, request[n])
       BY DEF RequestsWithinContract
  <2>1. n \in DOMAIN args \ wrapper.flags /\ request[n] = Sent(n, args[n])
        BY DEF Accepted
  <2>2. WrapperFits /\ DOMAIN args = Takes(wrapper)
        BY WrapperFacts DEF Stages, TypeOK
  <2>3. n \in Leases => args[n] \in Numerals \cup {Empty, Malformed} \/ (n \in OptionalLeases /\ args[n] = None)
        BY <2>1, ArgumentFacts DEF Stages, TypeOK
  <2>4. CASE n \in wrapper.checks \cup wrapper.builds
    <3>1. ~Refused(n, args[n])
          BY <2>4 DEF Accepted
    <3>. QED BY <2>1, <2>3, <3>1, SentWithinContract
  <2>5. CASE n \in wrapper.texts
        BY <2>2, <2>5, UnboundedFields DEF WrapperFits
  <2>. QED BY <2>1, <2>2, <2>4, <2>5 DEF Takes
<1>. QED BY <1>1, StagesAccepted, PTL

(* What is sent denotes the text of the application.                       *)
THEOREM DurationsExact == Spec => []DurationsAreExact
<1>1. Stages /\ Accepted => DurationsAreExact
  <2>. SUFFICES ASSUME Stages, Accepted, NEW n \in DOMAIN args \cap Leases
                PROVE  IF args[n] \in {None, Empty, Malformed}
                       THEN transit # "unsent" =>
                              IF args[n] = None \/ n \in TruthyLeases THEN request[n] = None
                              ELSE request[n] = [seconds |-> 0, nanos |-> 0]
                       ELSE /\ DurationRefused(args[n]) <=> ~Representable(args[n])
                            /\ transit # "unsent" => Denotes(args[n], request[n])
       BY DEF DurationsAreExact
  <2>1. WrapperFits /\ DOMAIN args = Takes(wrapper)
        BY WrapperFacts DEF Stages, TypeOK
  <2>2. n \in wrapper.checks \cup wrapper.builds /\ n \notin wrapper.flags
        BY <2>1 DEF WrapperFits, Takes, Bounded, Leases, OptionalLeases, TruthyLeases, PolicyLeases
  <2>3. args[n] \in Numerals \cup {Empty, Malformed} \/ (n \in OptionalLeases /\ args[n] = None)
        BY ArgumentFacts DEF Stages, TypeOK
  <2>4. transit # "unsent" => request[n] = Sent(n, args[n]) /\ ~Refused(n, args[n])
        BY <2>2 DEF Accepted
  <2>5. transit # "unsent" /\ args[n] # None => ~DurationRefused(args[n])
        BY <2>4 DEF Refused
  <2>6. None \notin Numerals /\ None # Empty /\ None # Malformed
        BY NoneAssumption
  <2>7. CASE args[n] = None
        BY <2>3, <2>4, <2>6, <2>7 DEF Sent
  <2>8. CASE args[n] = Empty
        BY <2>4, <2>6, <2>8, EmptyIsZero DEF Sent
  <2>9. CASE args[n] = Malformed /\ args[n] # Empty
    <3>1. DurationRefused(args[n])
          BY <2>9 DEF DurationRefused, StringToDuration
    <3>. QED BY <2>5, <2>6, <2>9, <3>1
  <2>10. CASE args[n] \in Numerals
    <3>1. args[n] \notin {None, Empty, Malformed}
          BY <2>6, <2>10, RefusalAssumption
    <3>2. Sent(n, args[n]) = StringToDuration(args[n])
          BY <3>1 DEF Sent
    <3>. QED BY <2>4, <2>5, <2>10, <3>1, <3>2, StringToDurationExact
  <2>. QED BY <2>3, <2>7, <2>8, <2>9, <2>10
<1>. QED BY <1>1, StagesAccepted, PTL

-----------------------------------------------------------------------------
(* An answer that stops the heartbeat comes only when the claim is gone.   *)
ClaimGone == transit = "arrived" /\ reply \in wrapper.stops => claim = "gone"

LEMMA AnswersFitClaim ==
    ASSUME WrapperFits, claim \in {"owned", "gone"}, Arrive, reply' \in wrapper.stops
    PROVE  claim' = "gone"
<1>1. reply' \in Answers /\ claim' = (IF method = "acknowledge_message" /\ reply' = "success" THEN "gone" ELSE claim)
      BY DEF Arrive
<1>2. CASE method = "acknowledge_message"
  <2>1. reply' = "success" \/ reply' \in OwnershipLost
        BY DEF WrapperFits
  <2>2. claim = "owned" => Answers = {"INTERNAL"} \cup {"success", "failure"}
        BY <1>2 DEF Answers
  <2>. QED BY <1>1, <1>2, <2>1, <2>2 DEF OwnershipLost
<1>3. CASE method = "renew_message_lease"
  <2>1. claim = "owned" => Answers = {"INTERNAL"} \cup {"success", "FAILED_PRECONDITION"}
        BY <1>3 DEF Answers
  <2>2. reply' \in {"NOT_FOUND", "PERMISSION_DENIED"}
        BY <1>3 DEF WrapperFits
  <2>. QED BY <1>1, <1>3, <2>1, <2>2
<1>4. CASE method = "send_message_heartbeat"
  <2>1. claim = "owned" => Answers = {"INTERNAL"} \cup {"success"}
        BY <1>4 DEF Answers
  <2>2. reply' \in OwnershipLost
        BY <1>4 DEF WrapperFits
  <2>. QED BY <1>1, <1>4, <2>1, <2>2 DEF OwnershipLost
<1>. QED BY <1>2, <1>3, <1>4 DEF WrapperFits

LEMMA HeartbeatNext ==
    ASSUME Stages, WrapperFits, wrapper' = wrapper, ClaimGone, HeartbeatKept, [Next]_vars
    PROVE  ClaimGone' /\ HeartbeatKept'
<1>. USE DEF ClaimGone, HeartbeatKept
<1>1. CASE Arrive
  <2>1. reply' \in wrapper.stops => claim' = "gone"
        BY <1>1, AnswersFitClaim DEF Stages, TypeOK
  <2>2. claim = "gone" => claim' = "gone"
        BY <1>1 DEF Arrive
  <2>. QED BY <1>1, <2>1, <2>2 DEF Arrive
<1>2. CASE Return
      BY <1>2 DEF Return, StopsHeartbeat, serverVars
<1>3. CASE \E code \in {"DEADLINE_EXCEEDED", "UNAVAILABLE", "CANCELLED"} : GiveUp(code)
  <2>1. \A code \in {"DEADLINE_EXCEEDED", "UNAVAILABLE", "CANCELLED"} : code \notin wrapper.stops
        BY DEF WrapperFits, OwnershipLost
  <2>2. beating' = beating
        BY <1>3, <2>1 DEF GiveUp, StopsHeartbeat, Stages, TypeOK
  <2>. QED BY <1>3, <2>2 DEF GiveUp, serverVars
<1>4. CASE LeaseEnds \/ BeginClose
      BY <1>4 DEF LeaseEnds, BeginClose, serverVars
<1>5. CASE UNCHANGED <<serverVars, beating, closed>>
      BY <1>5 DEF serverVars
<1>. QED BY <1>1, <1>2, <1>3, <1>4, <1>5 DEF Next, vars, Construct, Reassign, Call, Build, Expire, Unavailable, Cut,
            CancelTask, CutTask, Connect, CloseChannel, Invoke, callVars, serverVars

(* No answer, lost answer or race with close() ends the heartbeat of a     *)
(* claim that its caller still owns.                                       *)
THEOREM HeartbeatSafe == Spec => []HeartbeatKept
<1>1. Init => Stages /\ ClaimGone /\ HeartbeatKept
      BY StagesInit DEF Init, ClaimGone, HeartbeatKept
<1>2. (Stages /\ ClaimGone /\ HeartbeatKept) /\ [Next]_vars => (Stages /\ ClaimGone /\ HeartbeatKept)'
  <2>1. Stages => WrapperFits
        BY WrapperFacts DEF Stages, TypeOK
  <2>. QED BY <2>1, StagesNext, SameInputs, HeartbeatNext
<1>. QED BY <1>1, <1>2, PTL DEF Spec

-----------------------------------------------------------------------------
(* How a call ends.                                                        *)
LEMMA EndOutcomes ==
    /\ \A error, code : Raise(error, code) => outcome' = [result |-> "raised", error |-> error, code |-> code]
    /\ \A code : Report(code) => outcome'.code = code /\ outcome'.error \in {"RpcOperationError", "HandlerError"}
    /\ \A error : FailLocally(error) => outcome'.code = None /\ outcome'.error \in {error, "RpcOperationError", "HandlerError"}
    /\ \A code : RpcError(code) => outcome'.code = code
<1>1. \A error, code : Raise(error, code) => outcome' = [result |-> "raised", error |-> error, code |-> code]
      BY DEF Raise
<1>2. \A code : Report(code) => outcome'.code = code /\ outcome'.error \in {"RpcOperationError", "HandlerError"}
      BY <1>1 DEF Report
<1>. QED BY <1>1, <1>2 DEF FailLocally, RpcError

(* Only get_next_message has an answer that cannot be delivered.           *)
Undelivered == reply = "incomplete" => method = "get_next_message"

LEMMA UndeliveredNext == Undelivered /\ [Next]_vars => Undelivered'
<1>. SUFFICES ASSUME Undelivered, [Next]_vars PROVE Undelivered'
     OBVIOUS
<1>1. method' = method
      BY DEF Next, vars, inputVars, Construct, Reassign, Call, Build, Invoke, Arrive, LeaseEnds, Return,
             GiveUp, Expire, Unavailable, Cut, CancelTask, CutTask, Connect, BeginClose, CloseChannel
<1>2. CASE Arrive
  <2>1. method # "get_next_message" => "incomplete" \notin Answers
        BY DEF Answers, OwnershipLost
  <2>. QED BY <1>1, <1>2, <2>1 DEF Arrive, Undelivered
<1>3. CASE UNCHANGED reply
      BY <1>1, <1>3 DEF Undelivered
<1>. QED BY <1>2, <1>3 DEF Next, vars, serverVars, Construct, Reassign, Call, Build, Invoke, LeaseEnds, Return,
             GiveUp, Expire, Unavailable, Cut, CancelTask, CutTask, Connect, BeginClose, CloseChannel

LEMMA SentFailuresNext ==
    ASSUME Stages, Stages', WrapperFits, Undelivered, SentRequestsFailWithCode, [Next]_vars
    PROVE  SentRequestsFailWithCode'
<1>. USE DEF SentRequestsFailWithCode
<1>1. CASE Construct \/ Call \/ Build
  <2>1. transit' = "unsent"
        BY <1>1 DEF Construct, Call, Build, Stages, serverVars
  <2>. QED BY <2>1
<1>2. CASE Invoke
  <2>1. transit = "unsent"
        BY <1>2 DEF Invoke, Stages
  <2>2. CASE channel = "open"
        BY <1>2, <2>2 DEF Invoke, Stages, Pending
  <2>3. CASE channel # "open"
        BY <1>2, <2>1, <2>3 DEF Invoke
  <2>. QED BY <2>2, <2>3
<1>3. CASE Return
  <2>0. reply' = reply /\ client' = client /\ WantsHeartbeat' = WantsHeartbeat
        BY <1>3, SameInputs DEF Return, serverVars, clientVars, WantsHeartbeat
  <2>1. method = "get_next_message" =>
           \A error \in {"ValueError", "NzovuError", "RuntimeError"} : FailLocally(error) => outcome'.error = error
        BY EndOutcomes DEF WrapperFits, FailLocally
  <2>2. CASE reply = "success" /\ Start
    <3>1. WantsHeartbeat => method = "get_next_message"
          BY DEF WantsHeartbeat, WrapperFits
    <3>2. CASE Deliver
          BY <3>2, EndFacts
    <3>3. CASE WantsHeartbeat /\ \E error \in {"NzovuError", "RuntimeError"} : FailLocally(error)
          BY <2>0, <2>1, <2>2, <3>1, <3>3
    <3>. QED BY <2>2, <3>2, <3>3 DEF Start
  <2>3. CASE reply \in {"failure", "empty"} /\ Deliver
        BY <2>3, EndFacts
  <2>4. CASE reply = "incomplete" /\ FailLocally("ValueError")
        BY <2>0, <2>1, <2>4 DEF Undelivered
  <2>5. CASE reply \notin Replies /\ RpcError(reply)
    <3>1. reply \in StatusCodes
          BY <1>3, <2>5 DEF Return, Stages, TypeOK
    <3>. QED BY <2>5, <3>1, EndOutcomes, NoneAssumption
  <2>. QED BY <1>3, <2>2, <2>3, <2>4, <2>5 DEF Return
<1>4. CASE \E code \in {"DEADLINE_EXCEEDED", "UNAVAILABLE", "CANCELLED"} : GiveUp(code)
      BY <1>4, EndOutcomes, NoneAssumption DEF GiveUp, StatusCodes
<1>5. CASE CancelTask
      BY <1>5, EndOutcomes DEF CancelTask, clientVars
<1>6. CASE pc' # "done"
      BY <1>6 DEF Stages, Pending
<1>7. CASE UNCHANGED <<clientVars, method, args, callVars, transit, reply>>
      BY <1>7 DEF callVars, clientVars, WantsHeartbeat, wrapper
<1>8. CASE Arrive
  <2>1. outcome' = outcome /\ transit = "sent" /\ reply = None /\ client' = client
        BY <1>8 DEF Arrive, Stages, TypeOK, callVars, clientVars
  <2>2. None \notin {"incomplete", "success"}
        BY NoneAssumption DEF Replies
  <2>. QED BY <2>1, <2>2
<1>9. CASE Reassign
      BY <1>6, <1>9 DEF Reassign, callVars
<1>. QED BY <1>1, <1>2, <1>3, <1>4, <1>5, <1>7, <1>8, <1>9 DEF Next, vars, inputVars, LeaseEnds, Expire, Unavailable, Cut,
            CutTask, Connect, BeginClose, CloseChannel, serverVars

(* Once its request is sent, a call fails with the code of the RPC, unless *)
(* a coroutine is cancelled or a claimed message cannot be delivered.      *)
THEOREM UncodedFailures == Spec => []SentRequestsFailWithCode
<1>1. Init => Stages /\ Undelivered /\ SentRequestsFailWithCode
      BY StagesInit, NoneAssumption DEF Init, Undelivered, Replies, SentRequestsFailWithCode
<1>2. (Stages /\ Undelivered /\ SentRequestsFailWithCode) /\ [Next]_vars
      => (Stages /\ Undelivered /\ SentRequestsFailWithCode)'
  <2>1. Stages => WrapperFits
        BY WrapperFacts DEF Stages, TypeOK
  <2>. QED BY <2>1, StagesNext, UndeliveredNext, SentFailuresNext
<1>. QED BY <1>1, <1>2, PTL DEF Spec

(* An exception of an RPC never passes a wrapper, and never vanishes in it.*)
LEMMA ReportedRight ==
    ASSUME Stages, NEW code, Report(code)
    PROVE  /\ outcome'.error # "RpcError"
           /\ code # None => outcome'.result = IF handler = "returns" THEN "handled" ELSE "raised"
           /\ code # None => outcome'.error = IF handler = "raises" THEN "HandlerError" ELSE "RpcOperationError"
    BY DEF Report, Raise, Stages, TypeOK

LEMMA FailedLocally ==
    ASSUME Stages, NEW error, error # "RpcError", FailLocally(error)
    PROVE  outcome'.error # "RpcError" /\ outcome'.code = None
<1>1. CASE error \in wrapper.catches
      BY <1>1, ReportedRight, EndOutcomes DEF FailLocally
<1>2. CASE error \notin wrapper.catches
      BY <1>2 DEF FailLocally, Raise
<1>. QED BY <1>1, <1>2

LEMMA ServerErrorsNext ==
    ASSUME Stages, Stages', WrapperFits, ServerErrorsRouted, [Next]_vars
    PROVE  ServerErrorsRouted'
<1>. USE DEF ServerErrorsRouted
<1>. SUFFICES ASSUME method # "stub" PROVE ServerErrorsRouted'
  <2>1. method' = method
        BY DEF Next, vars, inputVars, Construct, Reassign, Call, Build, Invoke, Arrive, LeaseEnds, Return,
               GiveUp, Expire, Unavailable, Cut, CancelTask, CutTask, Connect, BeginClose, CloseChannel
  <2>. QED BY <2>1
<1>1. handler' = handler
      BY DEF Next, vars, inputVars, Construct, Reassign, Call, Build, Invoke, Arrive, LeaseEnds, Return,
             GiveUp, Expire, Unavailable, Cut, CancelTask, CutTask, Connect, BeginClose, CloseChannel
<1>2. CASE pc' # "done"
      BY <1>2
<1>3. CASE \E error : error # "RpcError" /\ FailLocally(error)
      BY <1>3, FailedLocally
<1>4. CASE \E error : error # "RpcError" /\ Raise(error, None)
      BY <1>4, EndOutcomes
<1>5. CASE \E code : RpcError(code)
  <2>1. PICK code : RpcError(code)
        BY <1>5
  <2>2. Report(code)
        BY <2>1 DEF RpcError, WrapperFits
  <2>3. outcome'.code = code
        BY <2>2, EndOutcomes
  <2>4. /\ outcome'.error # "RpcError"
        /\ code # None => outcome'.result = IF handler = "returns" THEN "handled" ELSE "raised"
        /\ code # None => outcome'.error = IF handler = "raises" THEN "HandlerError" ELSE "RpcOperationError"
        BY <2>2, ReportedRight
  <2>. QED BY <1>1, <2>3, <2>4
<1>6. CASE Construct \/ Call
      BY <1>2, <1>4, <1>6 DEF Construct, Call
<1>7. CASE Build
  <2>1. \A n, v : RefusalError(n, v) # "RpcError"
        BY DEF RefusalError
  <2>2. Reserve => pc' # "done" \/ \E error : error # "RpcError" /\ FailLocally(error)
        BY DEF Reserve
  <2>. QED BY <1>2, <1>3, <1>7, <2>1, <2>2 DEF Build
<1>8. CASE Invoke
  <2>1. channel = "closed" => FailLocally(IF client = "sync" THEN "ValueError" ELSE "UsageError")
        BY <1>8 DEF Invoke
  <2>2. channel = "none" => FailLocally("AttributeError")
        BY <1>8 DEF Invoke
  <2>3. channel = "open" => pc' = "flying"
        BY <1>8 DEF Invoke
  <2>4. channel \in {"none", "open", "closed"}
        BY DEF Stages, TypeOK
  <2>5. CASE channel = "closed"
    <3>. DEFINE refusal == IF client = "sync" THEN "ValueError" ELSE "UsageError"
    <3>1. refusal # "RpcError" /\ FailLocally(refusal)
          BY <2>1, <2>5
    <3>. HIDE DEF refusal
    <3>. QED BY <1>3, <3>1
  <2>6. CASE channel = "none"
    <3>1. "AttributeError" # "RpcError" /\ FailLocally("AttributeError")
          BY <2>2, <2>6
    <3>. QED BY <1>3, <3>1
  <2>7. CASE channel = "open"
    <3>1. pc' # "done"
          BY <2>3, <2>7
    <3>. QED BY <1>2, <3>1
  <2>. HIDE DEF ServerErrorsRouted
  <2>. QED BY <2>4, <2>5, <2>6, <2>7
<1>9. CASE Return
  <2>1. CASE Deliver
        BY <2>1, NoneAssumption DEF Deliver
  <2>2. CASE reply = "success" /\ Start
        BY <1>3, <2>1, <2>2 DEF Start
  <2>3. CASE reply = "incomplete" /\ FailLocally("ValueError")
        BY <1>3, <2>3
  <2>4. CASE RpcError(reply)
        BY <1>5, <2>4
  <2>. QED BY <1>9, <2>1, <2>2, <2>3, <2>4 DEF Return
<1>10. CASE \E code : GiveUp(code)
      BY <1>5, <1>10 DEF GiveUp
<1>11. CASE CancelTask
      BY <1>4, <1>11 DEF CancelTask
<1>12. CASE UNCHANGED callVars
      BY <1>1, <1>12 DEF callVars
<1>. QED BY <1>6, <1>7, <1>8, <1>9, <1>10, <1>11, <1>12 DEF Next, vars, Reassign, Arrive, LeaseEnds, Expire,
            Unavailable, Cut, CutTask, Connect, BeginClose, CloseChannel

(* Every failure that the server or grpc reports reaches the application's *)
(* handler or, as an RpcOperationError with its code, the caller.          *)
THEOREM ServerErrorsReported == Spec => []ServerErrorsRouted
<1>1. Init => Stages /\ ServerErrorsRouted
      BY StagesInit DEF Init, ServerErrorsRouted
<1>2. (Stages /\ ServerErrorsRouted) /\ [Next]_vars => (Stages /\ ServerErrorsRouted)'
  <2>1. Stages => WrapperFits
        BY WrapperFacts DEF Stages, TypeOK
  <2>. QED BY <2>1, StagesNext, ServerErrorsNext
<1>. QED BY <1>1, <1>2, PTL DEF Spec

-----------------------------------------------------------------------------
(* What the interceptors pass on.  The code filters a list; Keep states the*)
(* result by the places of the kept positions, so that the facts about it  *)
(* need no induction over sequences, only the least element of a set.      *)

(* A set of naturals that is not empty has a least element.                *)
LEMMA LeastElement ==
  ASSUME NEW T, T \subseteq Nat, T # {}
  PROVE  \E x \in T : \A y \in T : x <= y
<1>1. \E x \in T : \A y \in T : ~ (<<y, x>> \in OpToRel(<, Nat))
  BY NatLessThanWellFounded, WFMin
<1>2. ASSUME NEW x \in T, NEW y \in T, ~ (<<y, x>> \in OpToRel(<, Nat)) PROVE x <= y
  BY <1>2 DEF OpToRel
<1>. QED BY <1>1, <1>2

(* How the place of a position grows with the position.                    *)
LEMMA PlaceFacts ==
  ASSUME NEW m \in Nat, NEW I \in SUBSET (1..m)
  PROVE  /\ IsFiniteSet(I) /\ Cardinality(I) \in Nat
         /\ Place(I, 0) = 0
         /\ Place(I, m) = Cardinality(I)
         /\ \A i \in Nat : Place(I, i) \in Nat
         /\ \A i \in Nat \ {0} : Place(I, i) = IF i \in I THEN Place(I, i - 1) + 1 ELSE Place(I, i - 1)
<1>0. \A j \in I : j \in Nat /\ 1 <= j /\ j <= m
  OBVIOUS
<1>1. IsFiniteSet(I) /\ Cardinality(I) \in Nat
  <2>1. IsFiniteSet(1..m)
    BY FS_Interval
  <2>. QED
    BY <2>1, FS_Subset, FS_CardinalityType
<1>2. \A i \in Nat : IsFiniteSet({j \in I : j <= i}) /\ Place(I, i) \in Nat
  BY <1>1, FS_Subset, FS_CardinalityType DEF Place
<1>3. {j \in I : j <= 0} = {} /\ {j \in I : j <= m} = I
  <2>1. \A j \in I : ~(j <= 0) /\ j <= m
    BY <1>0
  <2>. QED
    BY <2>1
<1>4. ASSUME NEW i \in Nat \ {0}
      PROVE  Place(I, i) = IF i \in I THEN Place(I, i - 1) + 1 ELSE Place(I, i - 1)
  <2>. DEFINE S == {j \in I : j <= i - 1}
  <2>1. i - 1 \in Nat /\ IsFiniteSet(S)
    BY <1>1, FS_Subset
  <2>4. \A j \in I : j <= i <=> j <= i - 1 \/ j = i
    BY <1>0
  <2>5. i \notin S
    OBVIOUS
  <2>2. CASE i \in I
    <3>1. {j \in I : j <= i} = S \cup {i}
      BY <2>2, <2>4
    <3>2. Cardinality(S \cup {i}) = Cardinality(S) + 1
      BY <2>1, <2>5, FS_AddElement
    <3>. QED
      BY <2>2, <3>1, <3>2 DEF Place
  <2>3. CASE i \notin I
    <3>1. {j \in I : j <= i} = S
      BY <2>3, <2>4
    <3>. QED
      BY <2>3, <3>1 DEF Place
  <2>. QED
    BY <2>2, <2>3
<1>. QED
  BY <1>1, <1>2, <1>3, <1>4, FS_EmptySet DEF Place

LEMMA PlacesIncrease ==
  ASSUME NEW m \in Nat, NEW I \in SUBSET (1..m), NEW i \in Nat, NEW j \in I, i < j
  PROVE  Place(I, i) < Place(I, j)
<1>1. j \in Nat \ {0} /\ Place(I, j) = Place(I, j - 1) + 1 /\ Place(I, j - 1) \in Nat /\ Place(I, i) \in Nat
  BY PlaceFacts
<1>2. {k \in I : k <= i} \subseteq {k \in I : k <= j - 1}
  <2>1. \A k \in I : k \in Nat /\ (k <= i => k <= j - 1)
    BY <1>1
  <2>. QED
    BY <2>1
<1>3. IsFiniteSet({k \in I : k <= j - 1})
  BY PlaceFacts, FS_Subset
<1>4. Place(I, i) <= Place(I, j - 1)
  BY <1>2, <1>3, FS_Subset DEF Place
<1>. QED
  BY <1>1, <1>4

(* Each place up to the number of positions is the place of one of them:   *)
(* it is that of the least position whose place is as large.               *)
LEMMA PlacesAreTaken ==
  ASSUME NEW m \in Nat, NEW I \in SUBSET (1..m), NEW n \in 1..Cardinality(I)
  PROVE  \E i \in I : Place(I, i) = n
<1>. DEFINE T == {i \in Nat : Place(I, i) >= n}
<1>1. /\ n \in Nat /\ n # 0 /\ n <= Cardinality(I)
      /\ Place(I, 0) = 0 /\ Place(I, m) = Cardinality(I)
      /\ \A i \in Nat : Place(I, i) \in Nat
      /\ \A i \in Nat \ {0} : Place(I, i) = IF i \in I THEN Place(I, i - 1) + 1 ELSE Place(I, i - 1)
  BY PlaceFacts
<1>2. m \in T /\ T \subseteq Nat
  BY <1>1
<1>3. PICK i \in T : \A j \in T : i <= j
  BY <1>2, LeastElement
<1>4. i \in Nat \ {0} /\ i - 1 \in Nat /\ ~(i <= i - 1)
  BY <1>1
<1>5. i - 1 \notin T
  BY <1>3, <1>4
<1>6. Place(I, i - 1) < n /\ Place(I, i) >= n /\ Place(I, i - 1) \in Nat
  BY <1>1, <1>4, <1>5
<1>. QED
  BY <1>1, <1>4, <1>6

(* Keep gives the entries at the positions I, all of them, in their order. *)
LEMMA KeepIsSubsequence ==
  ASSUME NEW E, NEW entries \in Seq(E), NEW I \in SUBSET DOMAIN entries
  PROVE  /\ Keep(entries, I) \in Seq(E)
         /\ Len(Keep(entries, I)) = Cardinality(I)
         /\ \E position \in [1..Cardinality(I) -> I] :
               /\ \A n \in 1..Cardinality(I) : Keep(entries, I)[n] = entries[position[n]]
               /\ \A n, k \in 1..Cardinality(I) : n < k => position[n] < position[k]
               /\ \A i \in I : \E n \in 1..Cardinality(I) : position[n] = i
<1>. DEFINE count == Cardinality(I)
           position == [n \in 1..count |-> CHOOSE i \in I : Place(I, i) = n]
<1>1. Len(entries) \in Nat /\ DOMAIN entries = 1..Len(entries) /\ I \in SUBSET (1..Len(entries))
  OBVIOUS
<1>2. count \in Nat
  BY <1>1, PlaceFacts
<1>3. ASSUME NEW n \in 1..count PROVE position[n] \in I /\ Place(I, position[n]) = n
  BY <1>1, PlacesAreTaken
<1>4. ASSUME NEW n \in 1..count, NEW k \in 1..count, n < k PROVE position[n] < position[k]
  <2>1. position[n] \in Nat /\ position[k] \in Nat /\ position[n] \in I /\ position[k] \in I
    BY <1>1, <1>3
  <2>2. CASE position[k] < position[n]
    <3>1. Place(I, position[k]) < Place(I, position[n])
      BY <1>1, <2>1, <2>2, PlacesIncrease
    <3>2. k < n
      BY <3>1, <1>3
    <3>. QED
      BY <3>2, <1>4, <1>2
  <2>3. CASE position[k] = position[n]
    <3>1. k = n
      BY <2>3, <1>3
    <3>. QED
      BY <3>1, <1>4, <1>2
  <2>. QED
    BY <2>1, <2>2, <2>3
<1>5. ASSUME NEW i \in I PROVE \E n \in 1..count : position[n] = i
  <2>. DEFINE n == Place(I, i)
  <2>1. i \in Nat \ {0} /\ i - 1 \in Nat /\ i <= Len(entries)
    BY <1>1
  <2>2. n \in Nat /\ n = Place(I, i - 1) + 1 /\ Place(I, i - 1) \in Nat
    BY <1>1, <2>1, PlaceFacts
  <2>3. n <= count
    <3>1. {j \in I : j <= i} \subseteq I /\ IsFiniteSet(I)
      BY <1>1, PlaceFacts
    <3>. QED
      BY <3>1, FS_Subset DEF Place
  <2>4. n \in 1..count
    BY <2>2, <2>3, <1>2
  <2>5. position[n] \in I /\ Place(I, position[n]) = Place(I, i)
    BY <2>4, <1>3
  <2>6. position[n] \in Nat
    BY <2>5, <1>1
  <2>7. ~(position[n] < i) /\ ~(i < position[n])
    <3>. HIDE DEF position, n
    <3>1. position[n] < i => Place(I, position[n]) < Place(I, i)
      BY <2>6, <1>1, PlacesIncrease
    <3>2. i < position[n] => Place(I, i) < Place(I, position[n])
      BY <2>1, <2>5, <1>1, PlacesIncrease
    <3>3. Place(I, i) \in Nat
      BY <2>2 DEF n
    <3>. QED
      BY <3>1, <3>2, <3>3, <2>5
  <2>8. position[n] = i
    BY <2>1, <2>6, <2>7
  <2>. QED
    BY <2>4, <2>8
<1>6. ASSUME NEW n \in 1..count PROVE Keep(entries, I)[n] = entries[position[n]] /\ entries[position[n]] \in E
  BY <1>1, <1>3 DEF Keep
<1>7. Keep(entries, I) \in [1..count -> E] /\ position \in [1..count -> I]
  BY <1>3, <1>6 DEF Keep
<1>8. Keep(entries, I) \in Seq(E) /\ Len(Keep(entries, I)) = count
  BY <1>2, <1>7
<1>. HIDE DEF position
<1>. QED
  BY <1>4, <1>5, <1>6, <1>7, <1>8

(* Keep undoes Append.                                                     *)
LEMMA KeepPrefix ==
  ASSUME NEW E, NEW r \in Seq(E), NEW e \in E
  PROVE  Keep(Append(r, e), 1..Len(r)) = r
<1>. DEFINE I == 1..Len(r)
           s == Append(r, e)
<1>1. /\ Len(r) \in Nat /\ s \in Seq(E) /\ Len(s) = Len(r) + 1 /\ I \in SUBSET DOMAIN s
      /\ \A i \in I : s[i] = r[i]
  OBVIOUS
<1>2. Cardinality(I) = Len(r)
  BY <1>1, FS_Interval
<1>3. ASSUME NEW i \in I PROVE Place(I, i) = i
  <2>1. {j \in I : j <= i} = 1..i /\ i \in Nat /\ i >= 1
    BY <1>1
  <2>2. Cardinality(1..i) = i
    BY <2>1, FS_Interval
  <2>. QED
    BY <2>1, <2>2 DEF Place
<1>4. ASSUME NEW n \in I PROVE (CHOOSE i \in I : Place(I, i) = n) = n
  BY <1>3
<1>5. Keep(s, I) = [n \in 1..Len(r) |-> r[n]]
  BY <1>1, <1>2, <1>4 DEF Keep
<1>. QED
  BY <1>5

(* The other metadata of the caller, as the interceptor keeps it.          *)
LEMMA MetadataKept ==
    ASSUME NEW E, NEW existing \in Seq(E), options.api_key # None
    PROVE  LET kept == Keep(existing, Others(existing))
               own == [key |-> "api-key", value |-> options.api_key]
           IN  /\ Metadata(existing) = Append(kept, own)
               /\ kept \in Seq(E)
               /\ \A n \in 1..Len(kept) : ~IsApiKey(kept[n])
<1>. DEFINE kept == Keep(existing, Others(existing))
<1>1. \A i \in DOMAIN existing : LowerCase(existing[i].key) # "api-key" <=> ~IsApiKey(existing[i])
      BY DEF LowerCase, IsApiKey
<1>2. {i \in DOMAIN existing : LowerCase(existing[i].key) # "api-key"} = Others(existing)
      BY <1>1 DEF Others
<1>3. Others(existing) \in SUBSET DOMAIN existing
      BY DEF Others
<1>4. kept \in Seq(E) /\ Len(kept) = Cardinality(Others(existing))
      BY <1>3, KeepIsSubsequence
<1>5. PICK position \in [1..Len(kept) -> Others(existing)] :
         \A n \in 1..Len(kept) : kept[n] = existing[position[n]]
  <2>. DEFINE count == Cardinality(Others(existing))
  <2>1. \E position \in [1..count -> Others(existing)] :
           \A n \in 1..count : kept[n] = existing[position[n]]
        BY <1>3, KeepIsSubsequence, Zenon
  <2>. QED BY <1>4, <2>1
<1>6. \A n \in 1..Len(kept) : ~IsApiKey(kept[n])
      BY <1>5 DEF Others
<1>. QED BY <1>2, <1>4, <1>6 DEF Metadata

LEMMA TransportOfMetadata ==
    ASSUME NEW E, NEW existing \in Seq(E)
    PROVE  LET passed == Metadata(existing)
           IN  /\ Keep(passed, Others(passed)) = Keep(existing, Others(existing))
               /\ options.api_key # None =>
                     /\ Cardinality({i \in DOMAIN passed : IsApiKey(passed[i])}) = 1
                     /\ \E i \in DOMAIN passed :
                           passed[i] = [key |-> "api-key", value |-> options.api_key]
<1>1. CASE options.api_key = None
      BY <1>1 DEF Metadata
<1>2. CASE options.api_key # None
  <2>. DEFINE kept == Keep(existing, Others(existing))
              own == [key |-> "api-key", value |-> options.api_key]
              passed == Metadata(existing)
              last == Len(kept) + 1
  <2>1. passed = Append(kept, own) /\ kept \in Seq(E) /\ \A n \in 1..Len(kept) : ~IsApiKey(kept[n])
        BY <1>2, MetadataKept
  <2>. HIDE DEF kept, passed
  <2>2. /\ DOMAIN passed = 1..last /\ Len(kept) \in Nat /\ passed[last] = own
        /\ \A n \in 1..Len(kept) : passed[n] = kept[n]
        BY <2>1
  <2>3. IsApiKey(own)
        BY DEF IsApiKey
  <2>4. \A n \in DOMAIN passed : IsApiKey(passed[n]) <=> n = last
        BY <2>1, <2>2, <2>3
  <2>5. Others(passed) = 1..Len(kept)
        BY <2>2, <2>4 DEF Others
  <2>6. {i \in DOMAIN passed : IsApiKey(passed[i])} = {last}
        BY <2>2, <2>4
  <2>7. Keep(passed, Others(passed)) = kept
    <3>1. kept \in Seq(E \cup {own})
          BY <2>1
    <3>. QED BY <2>1, <2>5, <3>1, KeepPrefix
  <2>. QED BY <2>2, <2>6, <2>7, FS_Singleton DEF kept, passed
<1>. QED BY <1>1, <1>2

Entries == [key : STRING, value : STRING]

LEMMA TransportNext ==
    ASSUME Stages, details.metadata \in Seq(Entries), TransportApplied, [Next]_vars
    PROVE  (details.metadata \in Seq(Entries) /\ TransportApplied)'
<1>1. details' = details /\ options' = options
      BY DEF Next, vars, clientVars, inputVars, Construct, Reassign, Call, Build, Invoke, Arrive, LeaseEnds, Return,
             GiveUp, Expire, Unavailable, Cut, CancelTask, CutTask, Connect, BeginClose, CloseChannel
<1>2. CASE Invoke /\ channel = "open"
  <2>1. applied' = [metadata |-> Metadata(details.metadata), timeout |-> Timeout(details.timeout)]
        BY <1>2 DEF Invoke
  <2>2. applied'.timeout = IF details.timeout # None THEN details.timeout ELSE options.timeout
        BY <2>1 DEF Timeout
  <2>. QED BY <1>1, <2>1, <2>2, TransportOfMetadata DEF TransportApplied
<1>3. CASE applied' = applied /\ (transit' = "unsent" \/ transit # "unsent")
      BY <1>1, <1>3 DEF TransportApplied
<1>4. channel \in {"none", "open", "closed"} /\ transit \in {"unsent", "sent", "arrived"}
      BY DEF Stages, TypeOK
<1>5. Invoke => (channel = "open") \/ UNCHANGED <<applied, transit>>
      BY DEF Invoke
<1>. QED BY <1>2, <1>3, <1>4, <1>5 DEF Next, vars, callVars, serverVars, Construct, Reassign, Call, Build, Arrive,
            LeaseEnds, Return, GiveUp, Expire, Unavailable, Cut, CancelTask, CutTask, Connect, BeginClose, CloseChannel

(* A configured key is the only api-key sent, whatever the caller's own    *)
(* metadata holds; the rest of it is sent in order; the call's own deadline*)
(* goes before the client's.                                               *)
THEOREM TransportRespected == Spec => []TransportApplied
<1>1. Init => Stages /\ details.metadata \in Seq(Entries) /\ TransportApplied
  <2>1. ASSUME Init PROVE details.metadata \in Seq(Entries)
    <3>1. details \in (IF method = "stub" THEN Details ELSE {[metadata |-> <<>>, timeout |-> None]})
          BY <2>1 DEF Init
    <3>2. CASE details \in Details
          BY <3>2, DetailAssumption DEF Entries
    <3>3. CASE details = [metadata |-> <<>>, timeout |-> None]
          BY <3>3
    <3>. QED BY <3>1, <3>2, <3>3
  <2>. QED BY <2>1, StagesInit DEF Init, TransportApplied
<1>2. (Stages /\ details.metadata \in Seq(Entries) /\ TransportApplied) /\ [Next]_vars
      => (Stages /\ details.metadata \in Seq(Entries) /\ TransportApplied)'
      BY StagesNext, TransportNext
<1>. QED BY <1>1, <1>2, PTL DEF Spec

-----------------------------------------------------------------------------
(* Every step of a call is a step of the abstract call or a stutter.       *)
LEMMA RefinementNext ==
    ASSUME Stages, Stages', [Next]_vars
    PROVE  [Abstract!Next]_(Abstract!vars)
<1>. USE DEF Stage, Reported, Abstract!Next, Abstract!vars
<1>1. CASE Construct \/ Call \/ Build
  <2>1. transit' = transit /\ transit = "unsent" /\ Stage = "open" /\ Reported = "none"
        BY <1>1 DEF Construct, Call, Build, Stages, serverVars, Pending
  <2>2. CASE pc' = "done"
    <3>1. outcome'.result \in {"raised", "handled"}
          BY <1>1, <2>2, EndFacts DEF Construct, Call, Build
    <3>2. Abstract!Refuse
          BY <2>1, <2>2, <3>1 DEF Abstract!Refuse, Abstract!Failed
    <3>. QED BY <3>2
  <2>3. CASE pc' # "done"
    <3>1. outcome' = Pending /\ pc' # "flying"
          BY <1>1, <2>3, EndFacts DEF Construct, Call, Build, Stages
    <3>. QED BY <2>1, <2>3, <3>1 DEF Pending
  <2>. QED BY <2>2, <2>3
<1>2. CASE Invoke
  <2>1. transit = "unsent" /\ Stage = "open" /\ Reported = "none"
        BY <1>2 DEF Invoke, Stages, Pending
  <2>2. CASE channel = "open"
    <3>1. Abstract!Send
          BY <1>2, <2>1, <2>2 DEF Invoke, Abstract!Send
    <3>. QED BY <3>1
  <2>3. CASE channel # "open"
    <3>1. pc' = "done" /\ outcome'.result \in {"raised", "handled"} /\ transit' = transit
          BY <1>2, <2>3, EndFacts DEF Invoke
    <3>2. Abstract!Refuse
          BY <2>1, <3>1 DEF Abstract!Refuse, Abstract!Failed
    <3>. QED BY <3>2
  <2>. QED BY <2>2, <2>3
<1>3. CASE Arrive
      BY <1>3 DEF Arrive, Abstract!Arrive, callVars
<1>4. CASE Return
  <2>1. Stage = "flying" /\ transit = "arrived" /\ transit' = transit
        BY <1>4 DEF Return, serverVars
  <2>2. CASE outcome'.result = "value" /\ pc' = "done"
        BY <2>1, <2>2 DEF Abstract!Answer
  <2>3. CASE pc' = "done" /\ outcome'.result \in {"raised", "handled"}
        BY <2>1, <2>3 DEF Abstract!Fail, Abstract!Failed
  <2>. QED BY <1>4, <2>2, <2>3, EndFacts DEF Return
<1>5. CASE CancelTask \/ \E code : GiveUp(code)
  <2>1. Stage = "flying" /\ transit' = transit
        BY <1>5 DEF CancelTask, GiveUp, serverVars
  <2>2. pc' = "done" /\ outcome'.result \in {"raised", "handled"}
        BY <1>5, EndFacts DEF CancelTask, GiveUp
  <2>. QED BY <2>1, <2>2 DEF Abstract!Fail, Abstract!Failed
<1>6. CASE UNCHANGED <<callVars, transit>> \/ Reassign
      BY <1>6 DEF callVars, serverVars, Reassign
<1>. QED BY <1>1, <1>2, <1>3, <1>4, <1>5, <1>6 DEF Next, vars, LeaseEnds, Expire, Unavailable, Cut,
            CutTask, Connect, BeginClose, CloseChannel, serverVars

(* A call makes at most one request and one report.                        *)
THEOREM Refinement == Spec => RefinesUnaryCall
<1>1. Init => Abstract!Init
      BY DEF Init, Abstract!Init, Stage, Reported, Pending
<1>2. Stages /\ Stages' /\ [Next]_vars => [Abstract!Next]_(Abstract!vars)
      BY RefinementNext
<1>. QED BY <1>1, <1>2, StagesInit, StagesNext, PTL DEF Spec, Abstract!Spec, RefinesUnaryCall
=============================================================================
