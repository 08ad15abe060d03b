----------------------------- MODULE MCRpcCalls -----------------------------
(* Instances of RpcCalls for TLC: every method is called with its ordinary *)
(* arguments and with each combination that has one other argument.        *)
EXTENDS RpcCalls, TLC

Powers == [n \in 0..MaxExponent |-> 10^n]

Text(coefficient, digits, places, unit) ==
    [coefficient |-> coefficient, digits |-> digits, places |-> places, unit |-> unit]
ThreeDigits == {Text(c, 3, p, u) : c \in {0, 1, 125, 500, 999}, p \in 0..2, u \in {"s", "m", "h", "d"}}

FewTexts == {Empty, Malformed, Text(7, 1, 0, "s"), Text(15, 2, 1, "m"), Text(125, 3, 2, "s"), Text(999, 3, 0, "d")}

Header(length) == [length |-> length, reserved |-> FALSE]

(* The first value of each argument is its ordinary one.                   *)
Values(n) ==
    CASE n = "page_size" -> <<0, MaxPage, MaxPage + 1, Invalid>>
      [] n = "count" -> <<10, 101, -1>>
      [] n \in {"version", "schema_version"} -> <<0, MaxInt32, Invalid>>
      [] n = "priority" -> <<0, 4, 5>>
      [] n \in {"schedule_priority", "max_renewals"} -> <<None, 0, -1>>
      [] n = "size" -> <<1, 0, MaxBulk, MaxBulk + 1>>
      [] n = "priority_range" -> <<None, [min |-> 1, max |-> 4], [min |-> 3, max |-> 2], [min |-> 0, max |-> 5]>>
      [] n = "headers" -> <<<<>>, <<Header(MaxHeaderValue), Header(2)>>, <<Header(MaxHeaderValue), Header(MaxHeaderValue)>>,
                            <<Header(MaxHeaderValue + 1)>>, <<[length |-> 1, reserved |-> TRUE]>>, Invalid>>
      [] n = "trigger" -> <<"cron", "calendar", "both", "neither", Invalid>>
      [] n = "same_queue" -> <<TRUE, FALSE>>
      [] n = "enable_heartbeat" -> <<FALSE, TRUE>>
      [] n \in OptionalLeases -> <<None>>
      [] n \in Leases -> <<Text(7, 1, 0, "s")>>
      [] n \in ClaimFields \cup {"schedule_id", "target_queue"} -> <<"name", "blank", Invalid>>
      [] OTHER -> <<"text", Invalid>>

ValueSet(m, n) ==
    {Values(n)[i] : i \in DOMAIN Values(n)} \cup
    (IF n = "new_lease_duration" THEN FewTexts \cup ThreeDigits ELSE IF n \in Leases THEN FewTexts ELSE {})

Around(m) ==
    LET names == Takes(WrapperOf("sync", m))
        ordinary == [n \in names |-> Values(n)[1]]
    IN  {ordinary} \cup UNION {{[ordinary EXCEPT ![n] = v] : v \in ValueSet(m, n)} : n \in names}

AllInputs == [m \in DOMAIN Sync!Methods \cup {"stub"} |-> Around(m)]
CalendarInputs == [m \in {"validate_calendar_schedule", "create_schedule"} |-> Around(m)]

AllConfigs == {[api_key |-> None, timeout |-> None], [api_key |-> "key", timeout |-> 5]}
OneConfig == {[api_key |-> None, timeout |-> None]}

AllDetails ==
    [metadata : {<<>>, <<[key |-> "Api-Key", value |-> "own"], [key |-> "trace", value |-> "1"],
                        [key |-> "api-key", value |-> "own"]>>},
     timeout : {None, 1}]
=============================================================================
