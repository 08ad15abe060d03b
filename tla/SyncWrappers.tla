---------------------------- MODULE SyncWrappers ----------------------------
(***************************************************************************)
(* The RPC wrappers of NzovuClient (client.py), in the order of the        *)
(* service.  Each is the method's own validation, its request, its except  *)
(* clauses and what it does to the claim's heartbeat.                      *)
(***************************************************************************)
EXTENDS Wrappers

(* A faulty variant, used by no specification.                             *)
UncheckedPeek == Wrapper("PeekQueueMessages", PageFields, {}, {"queue_name", "priority_range"})

-----------------------------------------------------------------------------
CreateQueue == Wrapper("CreateQueue", {}, QueueFields,
    {"name", "exclusivity_key", "dead_letter_queue_name", "schema_id"})

DeleteQueue == Wrapper("DeleteQueue", {}, {}, {"name"})

ListQueues == Wrapper("ListQueues", PageFields, {}, {"prefix"})

PostMessage == Wrapper("PostMessage", {}, MessageFields \cup {"queue_name"}, {})

PostMessagesBulk ==
    [Wrapper("PostMessagesBulk", {}, MessageFields \cup {"queue_name", "size", "mode", "same_queue"}, {})
    EXCEPT !.catches = {"RpcError", "ValueError", "AttributeError", "TypeError"}]

GetNextMessage == [Wrapper("GetNextMessage", {}, {"lease_duration"},
    {"queue_name", "exclusivity_key", "worker_id", "attempt_id"})
    EXCEPT !.guarded = TRUE, !.flags = {"enable_heartbeat"}]

AcknowledgeMessage == [Wrapper("AcknowledgeMessage", ClaimFields, {"state"}, {})
    EXCEPT !.stops = {"success"} \cup OwnershipLost]

CancelMessage == Wrapper("CancelMessage", {}, {}, {"queue_name", "message_id", "reason"})

RenewMessageLease == [Wrapper("RenewMessageLease", ClaimFields, {"new_lease_duration"}, {})
    EXCEPT !.stops = {"NOT_FOUND", "PERMISSION_DENIED"}]

PeekQueueMessages == Wrapper("PeekQueueMessages", PageFields, {"priority_range"}, {"queue_name"})

GetQueueState == Wrapper("GetQueueState", {}, {}, {"queue_name"})

SendMessageHeartbeat ==
    [Wrapper("SendMessageHeartBeat", ClaimFields, {}, {}) EXCEPT !.stops = OwnershipLost]

CreateSchedule ==
    Wrapper("CreateSchedule", {}, ScheduleFields \cup {"schedule_id", "queue_name"}, {})

DeleteSchedule == Wrapper("DeleteSchedule", {}, {}, {"schedule_id"})

GetSchedule == Wrapper("GetSchedule", {}, {}, {"schedule_id"})

ListSchedules == Wrapper("ListSchedules", PageFields, {}, {"prefix"})

GetScheduleHistory == Wrapper("GetScheduleHistory", PageFields, {}, {"schedule_id"})

PauseSchedule == Wrapper("PauseSchedule", {}, {}, {"schedule_id"})

ResumeSchedule == Wrapper("ResumeSchedule", {}, {}, {"schedule_id"})

ValidateCalendarSchedule == Wrapper("ValidateCalendarSchedule", {}, {"calendar_schedule"}, {})

PreviewCalendarSchedule == Wrapper("PreviewCalendarSchedule", {"count"}, {"calendar_schedule"}, {})

RegisterSchema == Wrapper("RegisterSchema", {"content_type"}, {},
    {"schema_id", "name", "description", "content", "metadata"})

GetSchema == Wrapper("GetSchema", {"version"}, {}, {"schema_id"})

ListSchemas == Wrapper("ListSchemas", PageFields, {}, {"prefix", "active_only"})

DeleteSchema == Wrapper("DeleteSchema", {"version"}, {}, {"schema_id"})

ValidatePayload == Wrapper("ValidatePayload", {"version"}, {}, {"schema_id", "payload"})

GetDlqMessages == Wrapper("GetDLQMessages", PageFields, {}, {"dlq_name"})

RequeueFromDlq == Wrapper("RequeueFromDLQ", {"target_queue"}, {}, {"dlq_name", "message_id"})

DeleteFromDlq == Wrapper("DeleteFromDLQ", {}, {}, {"dlq_name", "message_id"})

PurgeDlq == Wrapper("PurgeDLQ", {}, {}, {"dlq_name"})

GetDlqStats == Wrapper("GetDLQStats", {}, {}, {"dlq_name"})

-----------------------------------------------------------------------------
Methods == [
    create_queue |-> CreateQueue,
    delete_queue |-> DeleteQueue,
    list_queues |-> ListQueues,
    post_message |-> PostMessage,
    post_messages_bulk |-> PostMessagesBulk,
    get_next_message |-> GetNextMessage,
    acknowledge_message |-> AcknowledgeMessage,
    cancel_message |-> CancelMessage,
    renew_message_lease |-> RenewMessageLease,
    peek_queue_messages |-> PeekQueueMessages,
    get_queue_state |-> GetQueueState,
    send_message_heartbeat |-> SendMessageHeartbeat,
    create_schedule |-> CreateSchedule,
    delete_schedule |-> DeleteSchedule,
    get_schedule |-> GetSchedule,
    list_schedules |-> ListSchedules,
    get_schedule_history |-> GetScheduleHistory,
    pause_schedule |-> PauseSchedule,
    resume_schedule |-> ResumeSchedule,
    validate_calendar_schedule |-> ValidateCalendarSchedule,
    preview_calendar_schedule |-> PreviewCalendarSchedule,
    register_schema |-> RegisterSchema,
    get_schema |-> GetSchema,
    list_schemas |-> ListSchemas,
    delete_schema |-> DeleteSchema,
    validate_payload |-> ValidatePayload,
    get_dlq_messages |-> GetDlqMessages,
    requeue_from_dlq |-> RequeueFromDlq,
    delete_from_dlq |-> DeleteFromDlq,
    purge_dlq |-> PurgeDlq,
    get_dlq_stats |-> GetDlqStats]

=============================================================================
