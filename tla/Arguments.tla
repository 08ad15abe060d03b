----------------------------- MODULE Arguments ------------------------------
(***************************************************************************)
(* The arguments of the RPC wrappers: what the constructors of the option  *)
(* classes and the request builders of utils.py refuse, what a refusal     *)
(* raises, and what of an argument is sent.  An argument the SDK does not  *)
(* look at is a text, of which only its type matters.                      *)
(***************************************************************************)
EXTENDS Durations, Sequences

CONSTANTS
    None,            \* Python's None
    Invalid,         \* a value that has not the type or form of its argument
    MaxInt32,        \* 2^31 - 1 in the code
    MaxPage,         \* 1000 entries
    MaxBulk,         \* 1000 messages
    MaxHeaderValue,  \* 4096 bytes
    MaxHeaderBytes   \* 32768 bytes, keys and values of all headers

ASSUME ArgumentAssumption ==
    {MaxInt32, MaxPage, MaxBulk, MaxHeaderValue, MaxHeaderBytes} \subseteq Nat

(* The fields the request builders look at.                                *)
ClaimFields == {"queue_name", "message_id", "worker_id", "attempt_id"}
PageFields == {"page_size", "page_token"}
PolicyLeases == {"base_lease", "max_extension", "heartbeat_timeout", "extend_step"}
PayloadFields == {"data", "schema_version", "headers"}
MessageFields == PayloadFields \cup PolicyLeases \cup
    {"message_id", "priority", "message_lease", "state", "max_renewals", "scheduled_time"}
ScheduleFields == PayloadFields \cup {"schedule_priority", "trigger", "message_lease"}
QueueFields == PolicyLeases \cup {"queue_lease", "max_renewals", "priority_config"}

(* A lease that stays unset when it is empty, one that is unset only when  *)
(* it is None, and a plain argument, which is always sent.                 *)
TruthyLeases == PolicyLeases \cup {"queue_lease"}
OptionalLeases == TruthyLeases \cup {"message_lease"}
Leases == OptionalLeases \cup {"lease_duration", "new_lease_duration"}

(* The attributes of option objects, which the application may assign to   *)
(* after the constructor has checked them.                                 *)
OptionFields == (MessageFields \ {"message_id"}) \cup ScheduleFields \cup QueueFields \cup {"priority_range"}

-----------------------------------------------------------------------------
(* bool and float are no integers here: type(value) is not int.            *)
ValidInteger(v, minimum, maximum) == v \in Int /\ minimum <= v /\ v <= maximum

RequiredName(v) == v \notin {"blank", Invalid}

(* A header is the length of its value and whether its key is reserved;    *)
(* keys have one byte.  Invalid stands for the other refusals.             *)
HeaderBytes(headers) ==
    LET sum[i \in 0..Len(headers)] == IF i = 0 THEN 0 ELSE sum[i - 1] + 1 + headers[i].length
    IN  sum[Len(headers)]

HeadersRefused(headers) ==
    headers # Invalid =>
        \/ \E i \in DOMAIN headers : headers[i].reserved \/ headers[i].length > MaxHeaderValue
        \/ HeaderBytes(headers) > MaxHeaderBytes

PriorityRangeRefused(range) ==
    /\ range # None
    /\ ~(ValidInteger(range.min, 0, 4) /\ ValidInteger(range.max, 0, 4) /\ range.min <= range.max)

(* Exactly one of cron_schedule and calendar_schedule is asked for; Invalid*)
(* is a calendar_schedule that is no CalendarSchedule.                     *)
TriggerRefused(trigger) == trigger \in {"both", "neither", Invalid}

(* What a precheck or a builder refuses as argument n.                     *)
Refused(n, v) ==
    \/ v = Invalid
    \/ n = "page_size" /\ ~ValidInteger(v, 0, MaxPage)
    \/ n = "count" /\ ~ValidInteger(v, 0, 100)
    \/ n \in {"version", "schema_version"} /\ ~ValidInteger(v, 0, MaxInt32)
    \/ n = "priority" /\ ~ValidInteger(v, 0, 4)
    \/ n = "schedule_priority" /\ v # None /\ ~ValidInteger(v, 0, 4)
    \/ n = "max_renewals" /\ v # None /\ ~ValidInteger(v, 0, MaxInt32)
    \/ n = "size" /\ ~ValidInteger(v, 1, MaxBulk)
    \/ n = "priority_range" /\ PriorityRangeRefused(v)
    \/ n = "headers" /\ HeadersRefused(v)
    \/ n = "trigger" /\ TriggerRefused(v)
    \/ n = "same_queue" /\ v = FALSE
    \/ n \in Leases /\ v # None /\ DurationRefused(v)
    \/ n \in ClaimFields \cup {"schedule_id", "target_queue"} /\ ~RequiredName(v)

(* json_format.ParseDict raises its own ParseError, which is no ValueError.*)
RefusalError(n, v) ==
    IF v = Invalid /\ n \in {"calendar_schedule", "trigger", "priority_config"} THEN "ParseError" ELSE "ValueError"

(* The __post_init__ of the option class that n belongs to: a lease must   *)
(* match the pattern, a calendar is not looked at.                         *)
ConstructorRefuses(n, v) ==
    \/ n \in {"priority", "schedule_priority", "max_renewals", "priority_range"} /\ Refused(n, v)
    \/ n = "trigger" /\ v \in {"both", "neither"}
    \/ n \in PolicyLeases \cup {"queue_lease", "message_lease"} /\ v = Malformed

(* What is sent for argument n; None is a field that is not set.           *)
Sent(n, v) ==
    IF n \notin Leases THEN v
    ELSE IF (n \in OptionalLeases /\ v = None) \/ (n \in TruthyLeases /\ v = Empty) THEN None
    ELSE StringToDuration(v)

=============================================================================
