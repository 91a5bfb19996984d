-------------------------- MODULE CounterPublisher --------------------------
(***************************************************************************)
(* components/publishers/counter_publisher.c with what it shares: the      *)
(* counter fields of app_runtime_config.c and handle_counter_cmd of        *)
(* cmd_handler.c, which changes them from the MQTT task while counter_task *)
(* runs.  Every getter and setter is one critical section of s_mutex, so   *)
(* one action each; a command and a publish cycle take several.            *)
(*                                                                         *)
(* Time is counted in hours from the start (clock), HOURS to the day; an   *)
(* interval is the number of full hours it covers, 0 for the usual ones.   *)
(* An optional value is <<>> or <<v>>.                                     *)
(***************************************************************************)
EXTENDS Integers, Sequences

CONSTANTS
    CounterIds,     \* ids a command may carry, and the Kconfig default
    Intervals,      \* intervals, in full hours
    ResetHours,     \* reset hours a command may carry, DISABLED among them
    HOURS,          \* hours of a day
    CLOCK_MAX,      \* bound on the clock
    ClockSteps,     \* by how many hours SNTP may set the clock in a delay
    COUNT_MAX       \* shoot_count is exact below this bound

ASSUME CounterIdsAssumption == CounterIds \subseteq Int /\ CounterIds # {}
ASSUME HoursAssumption ==
    HOURS \in Nat \ {0} /\ CLOCK_MAX \in Nat /\ CLOCK_MAX >= HOURS
ASSUME ClockStepsAssumption == ClockSteps \subseteq Int
ASSUME CountAssumption == COUNT_MAX \in Nat /\ COUNT_MAX >= 2

\* UINT8_MAX in the code, any value above the last hour here.
DISABLED == HOURS

ASSUME IntervalsAssumption == Intervals \subseteq Nat /\ Intervals # {}
ASSUME ResetHoursAssumption ==
    ResetHours \subseteq 0..DISABLED /\ ResetHours # {}

\* APP_COUNTER_INTERVAL_MS, APP_COUNTER_ID and APP_COUNTER_RESET_HOUR.
CONSTANT Defaults

ASSUME DefaultsAssumption ==
    Defaults \in [interval : Intervals, id : CounterIds, reset : ResetHours]

VARIABLES
    s_cfg,              \* counter_interval_ms, counter_id, counter_reset_hour
    hpc, cmd,           \* handle_counter_cmd and the command it handles
    tpc,                \* counter_task
    interval_ms, counter_id, last_counter_id, topic, now, last_reset_hour,
    shoot_count,        \* its local variables; now is the hour of the timestamp
    clock,
    resetHour,          \* the reset hour read in this cycle
    prev,               \* the cycle before: its hour and reset hour, or <<>>
    resetAt,            \* hour of the last scheduled reset, or -1
    otherHour           \* did a cycle since then read another enabled hour?

handlerVars == <<hpc, cmd>>
taskVars == <<interval_ms, counter_id, last_counter_id, topic, now,
              last_reset_hour, shoot_count>>
historyVars == <<resetHour, prev, resetAt, otherHour>>
vars == <<s_cfg, handlerVars, tpc, taskVars, clock, historyVars>>

Optional(S) == {<<>>} \cup {<<v>> : v \in S}
Command == [interval : Optional(Intervals), id : Optional(CounterIds),
            reset : Optional(ResetHours)]
NoCommand == [interval |-> <<>>, id |-> <<>>, reset |-> <<>>]

\* An omitted field leaves the setting as it is.
OrElse(opt, old) == IF opt = <<>> THEN old ELSE opt[1]

HourOfDay(t) == t % HOURS

Init ==
    /\ s_cfg = Defaults
    /\ hpc = "idle" /\ cmd = NoCommand
    /\ tpc = "off"
    /\ interval_ms = 0 /\ counter_id = -1 /\ last_counter_id = -1
    /\ topic = <<>>     \* uninitialised buffer
    /\ now = 0 /\ last_reset_hour = -1 /\ shoot_count = 0
    /\ clock \in 0..HOURS - 1
    /\ resetHour = DISABLED /\ prev = <<>> /\ resetAt = -1 /\ otherHour = FALSE

------------------------------------------------------------------------------
(* handle_counter_cmd, in the MQTT task *)

ReceiveCommand(c) ==
    /\ hpc = "idle" /\ hpc' = "interval" /\ cmd' = c
    /\ UNCHANGED <<s_cfg, tpc, taskVars, clock, historyVars>>

\* app_runtime_config_set_counter_interval_ms, _id, _reset_hour, in this order.
SetInterval ==
    /\ hpc = "interval" /\ hpc' = "id"
    /\ s_cfg' = [s_cfg EXCEPT !.interval = OrElse(cmd.interval, @)]
    /\ cmd' = [cmd EXCEPT !.interval = <<>>]
    /\ UNCHANGED <<tpc, taskVars, clock, historyVars>>

SetId ==
    /\ hpc = "id" /\ hpc' = "reset"
    /\ s_cfg' = [s_cfg EXCEPT !.id = OrElse(cmd.id, @)]
    /\ cmd' = [cmd EXCEPT !.id = <<>>]
    /\ UNCHANGED <<tpc, taskVars, clock, historyVars>>

SetResetHour ==
    /\ hpc = "reset" /\ hpc' = "idle" /\ cmd' = NoCommand
    /\ s_cfg' = [s_cfg EXCEPT !.reset = OrElse(cmd.reset, @)]
    /\ UNCHANGED <<tpc, taskVars, clock, historyVars>>

------------------------------------------------------------------------------
(* counter_task *)

\* Variants with a plausible mistake, used to test the properties: the topic is
\* built once, ...
ReadIdBuildOnce ==
    /\ tpc = "id" /\ tpc' = "stamp"
    /\ counter_id' = s_cfg.id /\ last_counter_id' = s_cfg.id
    /\ topic' = IF topic = <<>> THEN <<s_cfg.id>> ELSE topic
    /\ UNCHANGED <<s_cfg, handlerVars, interval_ms, now, last_reset_hour,
                   shoot_count, clock, historyVars>>

\* ... the marker of the last reset is never cleared, or cleared by disabling.
KeepMarker(h, r) == IF r = h THEN h ELSE last_reset_hour
ForgetMarker(h, r) == IF r = h THEN h ELSE -1

StartTask ==
    /\ tpc = "off" /\ tpc' = "interval"
    /\ UNCHANGED <<s_cfg, handlerVars, taskVars, clock, historyVars>>

ReadInterval ==
    /\ tpc = "interval" /\ tpc' = "id"
    /\ interval_ms' = s_cfg.interval
    /\ UNCHANGED <<s_cfg, handlerVars, counter_id, last_counter_id, topic, now,
                   last_reset_hour, shoot_count, clock, historyVars>>

\* The topic is rebuilt only when the id changes.
ReadId ==
    /\ tpc = "id" /\ tpc' = "stamp"
    /\ counter_id' = s_cfg.id /\ last_counter_id' = s_cfg.id
    /\ topic' = IF s_cfg.id # last_counter_id THEN <<s_cfg.id>> ELSE topic
    /\ UNCHANGED <<s_cfg, handlerVars, interval_ms, now, last_reset_hour,
                   shoot_count, clock, historyVars>>

ReadClock ==
    /\ tpc = "stamp" /\ tpc' = "reset"
    /\ now' = clock
    /\ UNCHANGED <<s_cfg, handlerVars, interval_ms, counter_id, last_counter_id,
                   topic, last_reset_hour, shoot_count, clock, historyVars>>

\* At hour of day h with reset hour r: is the counter reset, ...
ResetDue(h, r) == r # DISABLED /\ h = r /\ last_reset_hour # h

\* ... the hour remembered as the last reset, ...
Marker(h, r) ==
    CASE r = DISABLED -> last_reset_hour
      [] h = r        -> h
      [] OTHER        -> -1

\* ... and the count to publish.
Count(reset) ==
    IF reset THEN 1
    ELSE IF shoot_count < COUNT_MAX THEN shoot_count + 1 ELSE COUNT_MAX

ResetAndCount ==
    /\ tpc = "reset" /\ tpc' = "publish"
    /\ LET h == HourOfDay(now)
           r == s_cfg.reset
           due == ResetDue(h, r)
       IN  /\ shoot_count' = Count(due)
           /\ last_reset_hour' = Marker(h, r)
           /\ resetHour' = r
           /\ resetAt' = IF due THEN now ELSE resetAt
           /\ otherHour' = (~due /\ (otherHour \/ r \notin {DISABLED, HourOfDay(resetAt)}))
    /\ UNCHANGED <<s_cfg, handlerVars, interval_ms, counter_id, last_counter_id,
                   topic, now, clock, prev>>

\* mqtt_client_manager_publish, which may skip the message; the task does not
\* look at the result.
Publish ==
    /\ tpc = "publish" /\ tpc' = "delay"
    /\ prev' = <<[hour |-> now, reset |-> resetHour]>>
    /\ UNCHANGED <<s_cfg, handlerVars, taskVars, clock, resetHour, resetAt,
                   otherHour>>

\* vTaskDelay: the interval may end in the hour it points at or in the next.
\* SNTP polls on in the background and may set the clock meanwhile.
Delay ==
    /\ tpc = "delay" /\ tpc' = "interval"
    /\ clock' \in {clock + interval_ms + d + step : d \in {0, 1}, step \in ClockSteps}
    /\ clock' \in 0..CLOCK_MAX
    /\ UNCHANGED <<s_cfg, handlerVars, taskVars, historyVars>>

Next ==
    \/ \E c \in Command : ReceiveCommand(c)
    \/ SetInterval \/ SetId \/ SetResetHour
    \/ StartTask \/ ReadInterval \/ ReadId \/ ReadClock
    \/ ResetAndCount \/ Publish \/ Delay

Spec == Init /\ [][Next]_vars

------------------------------------------------------------------------------
(* Properties *)

\* The type invariant; in particular the marker is no hour, or an hour of the
\* day, whatever reset hours are set, and the topic is of a known id or unbuilt.
TypeOK ==
    /\ s_cfg \in [interval : Intervals, id : CounterIds, reset : ResetHours]
    /\ hpc \in {"idle", "interval", "id", "reset"} /\ cmd \in Command
    /\ tpc \in {"off", "interval", "id", "stamp", "reset", "publish", "delay"}
    /\ interval_ms \in Intervals \cup {0}
    /\ {counter_id, last_counter_id} \subseteq CounterIds \cup {-1}
    /\ topic \in Optional(CounterIds)
    /\ now \in 0..CLOCK_MAX /\ clock \in 0..CLOCK_MAX
    /\ last_reset_hour \in -1..HOURS - 1 /\ shoot_count \in 0..COUNT_MAX

\* "New counter ID; changes the uplink topic to uplink/v3/di/<new_id>": every
\* message goes to the topic of the id read in its cycle.
TopicMatchesId == tpc = "publish" => topic = <<counter_id>>

\* "The reset fires once per hour at the first publish after the configured
\* hour begins", whatever other commands arrive: when two cycles in a row read
\* the same reset hour, the second resets the counter exactly if it is the
\* first one in that hour.
FirstPublishResets ==
    tpc = "publish" /\ prev # <<>> /\ prev[1].reset = resetHour
    /\ resetHour = HourOfDay(now) =>
           (shoot_count = 1 <=> prev[1].hour < now)

\* The counter is reset twice in one hour only if the reset hour was set to
\* another hour, and read, in between; disabling and enabling it is not enough.
NoSecondReset ==
    [][tpc = "reset" /\ tpc' = "publish" /\ prev # <<>> /\ shoot_count' = 1
           => resetAt < now \/ otherHour]_vars

=============================================================================
