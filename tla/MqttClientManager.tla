-------------------------- MODULE MqttClientManager --------------------------
(***************************************************************************)
(* components/network/mqtt_client_manager.c: the connection to the broker. *)
(*                                                                         *)
(* Three tasks touch its state and are interleaved here at the steps that  *)
(* another task can observe:                                               *)
(*   - the MQTT task of esp-mqtt, which runs mqtt5_event_handler (hpc);    *)
(*   - the FreeRTOS timer daemon, which executes the commands queued for   *)
(*     the reconnect timer and runs reconnect_timer_cb (cbpc);             *)
(*   - the application task that calls mqtt_client_manager_subscribe and   *)
(*     mqtt_client_manager_set_connected_handler (apc).                    *)
(* The esp-mqtt client, the broker and the network are external: client,   *)
(* session, refused, reconnectReq and linkStable.  The jitter added to a   *)
(* delay is left out: a timer expires here at any time after it is armed.  *)
(***************************************************************************)
EXTENDS Integers, Sequences, FiniteSets

CONSTANTS
    Topics,             \* the topics the application subscribes to
    MAX_SUBSCRIPTIONS,  \* size of the table s_subscriptions
    TIMER_QUEUE_LEN,    \* length of the timer daemon's command queue
    OtherTimers,        \* do other timers use that queue too?
    RECONNECT_BASE_MS, RECONNECT_MAX_MS, RECONNECT_MAX_EXP,
    ATTEMPT_MAX         \* UINT8_MAX, where s_reconnect_attempt saturates

ASSUME SubscriptionsAssumption == MAX_SUBSCRIPTIONS \in Nat \ {0}
ASSUME TimerQueueAssumption ==
    TIMER_QUEUE_LEN \in Nat \ {0} /\ OtherTimers \in BOOLEAN
ASSUME BackoffAssumption ==
    /\ RECONNECT_BASE_MS \in Nat \ {0}
    /\ RECONNECT_MAX_MS \in Nat /\ RECONNECT_MAX_MS >= RECONNECT_BASE_MS
    /\ RECONNECT_MAX_EXP \in Nat
    /\ ATTEMPT_MAX \in Nat \ {0}

VARIABLES
    client,              \* phase of the esp-mqtt client
    session,             \* topics whose SUBSCRIBE this connection carried
    refused,             \* topics whose SUBSCRIBE the client answered with -1
    linkStable,          \* from now on network and broker cause no failure
    reconnectReq,        \* esp_mqtt_client_reconnect accepted, not yet served
    hpc,                 \* the MQTT task inside mqtt5_event_handler
    resubIdx,            \* i of resubscribe_all
    s_connected, s_reconnect_attempt, s_subscriptions, s_connected_handler,
    timerQueue,          \* commands the daemon has not executed yet
    armed,               \* the reconnect timer is running
    cbpc,                \* the daemon inside reconnect_timer_cb
    delay,               \* last reconnect delay since the last CONNECTED, or 0
    armFailed,           \* the last schedule_reconnect found the queue full
    apc, atopic,         \* the application inside mqtt_client_manager_subscribe
    asked                \* topics it was called with

externalVars == <<client, session, refused, linkStable, reconnectReq>>
handlerVars  == <<hpc, resubIdx>>
timerVars    == <<timerQueue, armed, cbpc>>
historyVars  == <<delay, armFailed>>
appVars      == <<apc, atopic, asked>>
managerVars  == <<s_connected, s_reconnect_attempt, s_subscriptions,
                  s_connected_handler>>
vars == <<externalVars, handlerVars, timerVars, historyVars, appVars,
          managerVars>>

\* What is in RAM is as the loader left it and nothing runs.
PowerOn ==
    /\ client = "unstarted" /\ session = {} /\ refused = {}
    /\ reconnectReq = FALSE
    /\ hpc = "idle" /\ resubIdx = 1
    /\ s_connected = FALSE /\ s_reconnect_attempt = 0
    /\ s_subscriptions = <<>> /\ s_connected_handler = FALSE
    /\ timerQueue = <<>> /\ armed = FALSE /\ cbpc = "idle"
    /\ delay = 0 /\ armFailed = FALSE
    /\ apc = "idle" /\ atopic \in Topics /\ asked = {}

Init == PowerOn /\ linkStable = FALSE

------------------------------------------------------------------------------
(* What mqtt_client_manager_init configures, and small helpers.  The first *)
(* three definitions are plausible mistakes that test the properties.      *)

SwitchedOn == TRUE
WrappingAttempt(cur) == (cur + 1) % (ATTEMPT_MAX + 1)
UnboundedAttempt(cur) == cur + 1

AutoReconnect == FALSE      \* .disable_auto_reconnect = true
AutoReload == FALSE         \* xTimerCreate(..., pdFALSE, ...): one-shot

\* esp-mqtt holds its API lock while it connects and while it dispatches an
\* event; a call from another task waits for it.
ApiLockHeld == client = "connecting" \/ hpc # "idle"

\* The base part of the delay computed by reconnect_delay_ms.
ReconnectDelay(attempt) ==
    LET exp  == IF attempt < RECONNECT_MAX_EXP THEN attempt
                                               ELSE RECONNECT_MAX_EXP
        base == RECONNECT_BASE_MS * 2^exp
    IN  IF base > RECONNECT_MAX_MS THEN RECONNECT_MAX_MS ELSE base

NextAttempt(cur) == IF cur < ATTEMPT_MAX THEN cur + 1 ELSE cur

\* A timer call with a zero wait: the command is queued, or lost if full.
QueueHasRoom == Len(timerQueue) < TIMER_QUEUE_LEN
PostCommand(cmd) ==
    timerQueue' = IF QueueHasRoom THEN Append(timerQueue, cmd) ELSE timerQueue

\* esp_mqtt_client_subscribe_single while connected: sent, or refused (-1).
SubscribeSingle(t) ==
    \/ session' = session \cup {t} /\ UNCHANGED refused
    \/ ~linkStable /\ refused' = refused \cup {t} /\ UNCHANGED session

------------------------------------------------------------------------------
(* More variants with a plausible mistake, used to test the properties *)

\* Leaves the flag set when the connection is lost.
KeepConnected ==
    /\ hpc = "d_flag" /\ hpc' = "d_schedule"
    /\ UNCHANGED <<externalVars, resubIdx, timerVars, historyVars, appVars,
                   managerVars>>

\* Stops at the entry before the last.
ResubscribeAllButOne ==
    /\ hpc = "c_resub"
    /\ \/ /\ resubIdx < Len(s_subscriptions)
          /\ SubscribeSingle(s_subscriptions[resubIdx])
          /\ resubIdx' = resubIdx + 1 /\ UNCHANGED hpc
       \/ /\ resubIdx >= Len(s_subscriptions)
          /\ hpc' = "c_callback" /\ UNCHANGED <<resubIdx, session, refused>>
    /\ UNCHANGED <<client, linkStable, reconnectReq, timerVars, historyVars,
                   appVars, managerVars>>

\* Gives up after ATTEMPT_MAX failures in a row.
ScheduleUntilLimit ==
    /\ hpc = "d_schedule"
    /\ delay' = ReconnectDelay(s_reconnect_attempt)
    /\ IF s_reconnect_attempt < ATTEMPT_MAX
       THEN /\ s_reconnect_attempt' = s_reconnect_attempt + 1
            /\ PostCommand("change")
       ELSE UNCHANGED <<s_reconnect_attempt, timerQueue>>
    /\ armFailed' = ~QueueHasRoom /\ hpc' = "idle"
    /\ UNCHANGED <<externalVars, resubIdx, armed, cbpc, appVars, s_connected,
                   s_subscriptions, s_connected_handler>>

\* Blocks until there is a connection instead of answering -1.
SubscribeWhenConnected ==
    /\ apc = "send" /\ ~ApiLockHeld /\ client = "connected"
    /\ apc' = "idle" /\ SubscribeSingle(atopic)
    /\ UNCHANGED <<client, linkStable, reconnectReq, handlerVars, timerVars,
                   historyVars, atopic, asked, managerVars>>

------------------------------------------------------------------------------
(* esp-mqtt and the network *)

\* mqtt_client_manager_init, last step: the client connects for the first time.
StartClient ==
    /\ client = "unstarted"
    /\ client' = "connecting"
    /\ UNCHANGED <<session, refused, linkStable, reconnectReq, handlerVars,
                   timerVars, historyVars, appVars, managerVars>>

\* The broker accepts the CONNECT.  The session is clean, so it holds no
\* subscription; MQTT_EVENT_CONNECTED is dispatched.
ConnectOk ==
    /\ client = "connecting"
    /\ client' = "connected" /\ session' = {} /\ refused' = {}
    /\ hpc' = "c_stop" /\ delay' = 0
    /\ UNCHANGED <<linkStable, reconnectReq, resubIdx, timerVars, armFailed,
                   appVars, managerVars>>

\* The connection is refused, or an established one breaks: the client waits
\* to be told to reconnect and dispatches MQTT_EVENT_DISCONNECTED.
Disconnect(from) ==
    /\ client = from /\ ~linkStable
    /\ from = "connected" => hpc = "idle"
    /\ client' = "waiting" /\ hpc' = "d_flag"
    /\ UNCHANGED <<session, refused, linkStable, reconnectReq, resubIdx,
                   timerVars, historyVars, appVars, managerVars>>
ConnectFail == Disconnect("connecting")
ConnectionLost == Disconnect("connected")

\* The MQTT task serves a reconnect request.
ClientResume ==
    /\ client = "waiting" /\ hpc = "idle"
    /\ reconnectReq \/ AutoReconnect
    /\ client' = "connecting" /\ reconnectReq' = FALSE
    /\ UNCHANGED <<session, refused, linkStable, handlerVars, timerVars,
                   historyVars, appVars, managerVars>>

LinkStabilises ==
    /\ ~linkStable /\ linkStable' = TRUE
    /\ UNCHANGED <<client, session, refused, reconnectReq, handlerVars,
                   timerVars, historyVars, appVars, managerVars>>

------------------------------------------------------------------------------
(* The timer daemon *)

\* Executes the oldest command: a changed period also starts the timer.
TimerCommand ==
    /\ cbpc = "idle" /\ timerQueue # <<>>
    /\ timerQueue' = Tail(timerQueue)
    /\ armed' = CASE Head(timerQueue) = "change" -> TRUE
                  [] Head(timerQueue) = "stop"   -> FALSE
                  [] OTHER                       -> armed
    /\ UNCHANGED <<externalVars, handlerVars, cbpc, historyVars, appVars,
                   managerVars>>

OtherTimerCommand ==
    /\ OtherTimers /\ QueueHasRoom
    /\ PostCommand("other")
    /\ UNCHANGED <<externalVars, handlerVars, armed, cbpc, historyVars, appVars,
                   managerVars>>

TimerExpire ==
    /\ armed /\ cbpc = "idle"
    /\ armed' = AutoReload /\ cbpc' = "check"
    /\ UNCHANGED <<externalVars, handlerVars, timerQueue, historyVars, appVars,
                   managerVars>>

\* reconnect_timer_cb: nothing to do once the flag says connected ...
CallbackCheck ==
    /\ cbpc = "check"
    /\ cbpc' = IF s_connected THEN "idle" ELSE "call"
    /\ UNCHANGED <<externalVars, handlerVars, timerQueue, armed, historyVars,
                   appVars, managerVars>>

\* ... otherwise esp_mqtt_client_reconnect, which only a waiting client takes.
\* An error is logged.
CallbackReconnect ==
    /\ cbpc = "call"
    /\ cbpc' = "idle"
    /\ reconnectReq' = (reconnectReq \/ client = "waiting")
    /\ UNCHANGED <<client, session, refused, linkStable, handlerVars,
                   timerQueue, armed, historyVars, appVars, managerVars>>

------------------------------------------------------------------------------
(* mqtt5_event_handler, MQTT_EVENT_CONNECTED *)

\* xTimerStop(s_reconnect_timer, 0), whose failure is only logged; then the
\* attempt counter is reset.
StopTimer ==
    /\ hpc = "c_stop"
    /\ PostCommand("stop") /\ s_reconnect_attempt' = 0
    /\ hpc' = "c_flag"
    /\ UNCHANGED <<externalVars, resubIdx, armed, cbpc, historyVars, appVars,
                   s_connected, s_subscriptions, s_connected_handler>>

SetConnected ==
    /\ hpc = "c_flag"
    /\ s_connected' = TRUE
    /\ hpc' = "c_resub" /\ resubIdx' = 1
    /\ UNCHANGED <<externalVars, timerVars, historyVars, appVars,
                   s_reconnect_attempt, s_subscriptions, s_connected_handler>>

\* One turn of the loop of resubscribe_all, which reads s_sub_count each time.
Resubscribe ==
    /\ hpc = "c_resub"
    /\ \/ /\ resubIdx <= Len(s_subscriptions)
          /\ SubscribeSingle(s_subscriptions[resubIdx])
          /\ resubIdx' = resubIdx + 1 /\ UNCHANGED hpc
       \/ /\ resubIdx > Len(s_subscriptions)
          /\ hpc' = "c_callback" /\ UNCHANGED <<resubIdx, session, refused>>
    /\ UNCHANGED <<client, linkStable, reconnectReq, timerVars, historyVars,
                   appVars, managerVars>>

\* The connected handler, if one is registered, runs here; what it does is
\* modelled in InitPublisher.
CallConnectedHandler ==
    /\ hpc = "c_callback"
    /\ hpc' = "idle"
    /\ UNCHANGED <<externalVars, resubIdx, timerVars, historyVars, appVars,
                   managerVars>>

------------------------------------------------------------------------------
(* mqtt5_event_handler, MQTT_EVENT_DISCONNECTED *)

ClearConnected ==
    /\ hpc = "d_flag"
    /\ s_connected' = FALSE
    /\ hpc' = "d_schedule"
    /\ UNCHANGED <<externalVars, resubIdx, timerVars, historyVars, appVars,
                   s_reconnect_attempt, s_subscriptions, s_connected_handler>>

\* schedule_reconnect.  If the queue is full the reconnect will not occur.
ScheduleReconnect ==
    /\ hpc = "d_schedule"
    /\ delay' = ReconnectDelay(s_reconnect_attempt)
    /\ s_reconnect_attempt' = NextAttempt(s_reconnect_attempt)
    /\ PostCommand("change") /\ armFailed' = ~QueueHasRoom
    /\ hpc' = "idle"
    /\ UNCHANGED <<externalVars, resubIdx, armed, cbpc, appVars, s_connected,
                   s_subscriptions, s_connected_handler>>

------------------------------------------------------------------------------
(* The application task *)

\* mqtt_client_manager_subscribe(t), first half: the topic is stored if there
\* is room.
SubscribeStore(t) ==
    /\ client # "unstarted" /\ apc = "idle" /\ t \notin asked
    /\ s_subscriptions' = IF Len(s_subscriptions) < MAX_SUBSCRIPTIONS
                          THEN Append(s_subscriptions, t) ELSE s_subscriptions
    /\ apc' = "check" /\ atopic' = t /\ asked' = asked \cup {t}
    /\ UNCHANGED <<externalVars, handlerVars, timerVars, historyVars,
                   s_connected, s_reconnect_attempt, s_connected_handler>>

\* Not connected: left to the next MQTT_EVENT_CONNECTED.
SubscribeCheck ==
    /\ apc = "check"
    /\ apc' = IF s_connected THEN "send" ELSE "idle"
    /\ UNCHANGED <<externalVars, handlerVars, timerVars, historyVars, atopic,
                   asked, managerVars>>

\* The SUBSCRIBE itself, under the API lock; -1 if the connection went away.
SubscribeSend ==
    /\ apc = "send" /\ ~ApiLockHeld
    /\ apc' = "idle"
    /\ IF client = "connected" THEN SubscribeSingle(atopic)
                               ELSE UNCHANGED <<session, refused>>
    /\ UNCHANGED <<client, linkStable, reconnectReq, handlerVars, timerVars,
                   historyVars, atopic, asked, managerVars>>

SetConnectedHandler ==
    /\ client # "unstarted" /\ apc = "idle" /\ ~s_connected_handler
    /\ s_connected_handler' = TRUE
    /\ UNCHANGED <<externalVars, handlerVars, timerVars, historyVars, appVars,
                   s_connected, s_reconnect_attempt, s_subscriptions>>

------------------------------------------------------------------------------
ClientStep   == StartClient \/ ConnectOk \/ ClientResume
LinkFailure  == ConnectFail \/ ConnectionLost
TimerStep    == TimerCommand \/ TimerExpire \/ CallbackCheck \/ CallbackReconnect
HandlerStep  == \/ StopTimer \/ SetConnected \/ Resubscribe
                \/ ClearConnected \/ ScheduleReconnect
SubscribeStep == SubscribeCheck \/ SubscribeSend

Next ==
    \/ ClientStep \/ LinkFailure \/ LinkStabilises
    \/ TimerStep \/ OtherTimerCommand
    \/ HandlerStep \/ CallConnectedHandler
    \/ \E t \in Topics : SubscribeStore(t)
    \/ SubscribeStep \/ SetConnectedHandler

Spec == Init /\ [][Next]_vars

\* Every task runs and time passes; a CONNECT is answered one way or the other.
\* Nothing is assumed of failures, of other timers or of the application's calls.
TaskFairness ==
    /\ WF_vars(ClientResume) /\ WF_vars(ConnectOk \/ ConnectFail)
    /\ WF_vars(TimerCommand) /\ WF_vars(TimerExpire)
    /\ WF_vars(CallbackCheck \/ CallbackReconnect)
    /\ WF_vars(HandlerStep \/ CallConnectedHandler)
    /\ WF_vars(SubscribeStep)

\* The client is started as well.
Fairness == WF_vars(StartClient) /\ TaskFairness

FairSpec == Spec /\ Fairness

------------------------------------------------------------------------------
(* Refinement of what the component promises *)

Phase ==
    CASE client = "unstarted"  -> "off"
      [] client = "connecting" -> "connecting"
      [] client = "connected"  -> IF hpc \in {"c_stop", "c_flag"}
                                  THEN "accepted" ELSE "up"
      [] client = "waiting"    -> CASE hpc = "d_flag" -> "lost"
                                    [] hpc = "d_schedule" -> "down"
                                    [] OTHER -> IF armFailed THEN "abandoned"
                                                             ELSE "backoff"

Lifecycle == INSTANCE ConnectionLifecycle WITH
    phase <- Phase, told <- s_connected,
    MayAbandon <- OtherTimers \/ TIMER_QUEUE_LEN < 2

------------------------------------------------------------------------------
(* Properties *)

Commands == {"change", "stop", "other"}

\* The type invariant; it also bounds the command queue, the subscription
\* table and the saturating attempt counter.
TypeOK ==
    /\ client \in {"unstarted", "connecting", "connected", "waiting"}
    /\ session \subseteq Topics /\ refused \subseteq Topics
    /\ linkStable \in BOOLEAN /\ reconnectReq \in BOOLEAN
    /\ hpc \in {"idle", "c_stop", "c_flag", "c_resub", "c_callback",
                "d_flag", "d_schedule"}
    /\ resubIdx \in 1..MAX_SUBSCRIPTIONS + 1
    /\ s_connected \in BOOLEAN /\ s_reconnect_attempt \in 0..ATTEMPT_MAX
    /\ s_subscriptions \in Seq(Topics)
    /\ Len(s_subscriptions) <= MAX_SUBSCRIPTIONS
    /\ s_connected_handler \in BOOLEAN
    /\ timerQueue \in Seq(Commands) /\ Len(timerQueue) <= TIMER_QUEUE_LEN
    /\ armed \in BOOLEAN /\ cbpc \in {"idle", "check", "call"}
    /\ delay \in Int /\ armFailed \in BOOLEAN
    /\ apc \in {"idle", "check", "send"} /\ atopic \in Topics
    /\ asked \subseteq Topics

Queued(cmd) == \E i \in 1..Len(timerQueue) : timerQueue[i] = cmd
WaitingIdle == client = "waiting" /\ hpc = "idle"

\* The ways in which the next CONNECT can already be under way.
ReconnectPending == Queued("change") \/ armed \/ cbpc # "idle" \/ reconnectReq

\* Mutual exclusion of the sources of a CONNECT: "only one CONNECT is ever in
\* flight".  A queued command, a running timer, a running callback and an
\* accepted request never coexist, and none of them outlives the wait that
\* started it: not into the next connection attempt, nor past it.
OneConnectInFlight ==
    /\ ReconnectPending => WaitingIdle
    /\ armed => ~Queued("change")
    /\ cbpc # "idle" => ~armed /\ ~Queued("change")
    /\ reconnectReq => cbpc = "idle" /\ ~armed /\ ~Queued("change")
    /\ \A i, j \in 1..Len(timerQueue) :
           timerQueue[i] = "change" /\ timerQueue[j] = "change" => i = j

\* A client that waits for a reconnect gets one: some source is pending, and no
\* stop command of the connection before can cancel it, because a change is
\* queued behind it.  Only a full command queue, logged as "reconnect will not
\* occur", leaves the client waiting for ever.
NoReconnectLost ==
    WaitingIdle /\ ~armFailed =>
        /\ ReconnectPending
        /\ \A i \in 1..Len(timerQueue) :
               timerQueue[i] = "stop" =>
                   \E j \in i+1..Len(timerQueue) : timerQueue[j] = "change"

\* What mqtt_client_manager_is_connected reports is the truth whenever no event
\* is being handled, and it is never TRUE while a CONNECT is under way.
FlagTruthful ==
    /\ hpc = "idle" => (s_connected <=> client = "connected")
    /\ client = "connecting" => ~s_connected

Subscribing(t) == apc # "idle" /\ atopic = t
Reached(t) == t \in session \cup refused

\* Whatever the order of a subscribe call and of the event handler, no stored
\* topic falls between "deferred to the next CONNECTED" and "re-subscribed by
\* this one": once CONNECTED is handled every topic in the table was sent on
\* this connection (or the client refused it), or its caller is about to.
StoredTopicsSubscribed ==
    client = "connected" /\ hpc \in {"c_callback", "idle"} =>
        \A i \in 1..Len(s_subscriptions) :
            Reached(s_subscriptions[i]) \/ Subscribing(s_subscriptions[i])

\* With no other user of the timer daemon, two places in its queue are enough:
\* no reconnect is ever abandoned.
NeverAbandoned == ~OtherTimers /\ TIMER_QUEUE_LEN >= 2 => ~armFailed

\* "Doubles on every failure up to RECONNECT_MAX_MS", starting again from
\* RECONNECT_BASE_MS after each successful connection, for any number of
\* failures in a row, past the saturation of the attempt counter.
BackoffDoubles ==
    [][hpc = "d_schedule" /\ hpc' = "idle" =>
           delay' = CASE delay = 0 -> RECONNECT_BASE_MS
                      [] 2 * delay > RECONNECT_MAX_MS -> RECONNECT_MAX_MS
                      [] OTHER -> 2 * delay]_vars

\* Once the network holds, the client ends up connected for good, with every
\* stored topic sent on the last connection (or refused on it before).
SettlesOnline ==
    linkStable ~> [](/\ client = "connected" /\ s_connected
                     /\ \A i \in 1..Len(s_subscriptions) :
                            \/ Reached(s_subscriptions[i])
                            \/ Subscribing(s_subscriptions[i]))

\* The inductive invariant behind the safety properties.  The flag follows the
\* client, with a lag only while an event is handled ...
FlagInv ==
    /\ hpc \in {"c_stop", "c_flag", "c_resub", "c_callback"} => client = "connected"
    /\ hpc \in {"d_flag", "d_schedule"} => client = "waiting"
    /\ hpc = "idle" => (s_connected <=> client = "connected")
    /\ hpc \in {"c_stop", "c_flag", "d_schedule"} => ~s_connected
    /\ hpc \in {"c_resub", "c_callback"} => s_connected

\* ... the sources of a CONNECT exclude each other, and the stop command of a
\* connection is executed before its successor is requested ...
ReconnectInv ==
    /\ ReconnectPending => WaitingIdle
    /\ armed \/ cbpc # "idle" \/ reconnectReq =>
           ~Queued("change") /\ ~Queued("stop")
    /\ cbpc # "idle" => ~armed
    /\ reconnectReq => cbpc = "idle" /\ ~armed
    /\ client \in {"unstarted", "connecting"} \/ hpc = "c_stop" => ~Queued("stop")
    /\ WaitingIdle /\ ~armFailed => ReconnectPending
    /\ armFailed => WaitingIdle /\ ~ReconnectPending

\* ... nothing of ours is queued behind a change, at most one stop is queued,
\* and only other timers queue anything else ...
QueueInv ==
    /\ \A i, j \in 1..Len(timerQueue) :
           i < j /\ timerQueue[i] = "change" => timerQueue[j] = "other"
    /\ \A i, j \in 1..Len(timerQueue) :
           timerQueue[i] = "stop" /\ timerQueue[j] = "stop" => i = j
    /\ ~OtherTimers => ~Queued("other")

\* ... and the resubscription has covered the entries before resubIdx.
SubscribeInv ==
    /\ StoredTopicsSubscribed
    /\ hpc = "c_resub" =>
           \A i \in 1..Len(s_subscriptions) :
               i < resubIdx => \/ Reached(s_subscriptions[i])
                               \/ Subscribing(s_subscriptions[i])

IndInv == FlagInv /\ ReconnectInv /\ QueueInv /\ NeverAbandoned /\ SubscribeInv

\* The manager implements the connection life cycle users are promised: every
\* step of its tasks is one step of that cycle or invisible to users.
ImplementsLifecycle == Lifecycle!Spec

\* The same with progress: with no other user of the timer queue no wait is
\* given up, every wait ends in a retry and every event is reported.
ImplementsFairLifecycle == Lifecycle!FairSpec

==============================================================================
