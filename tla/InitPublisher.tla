---------------------------- MODULE InitPublisher ----------------------------
(***************************************************************************)
(* components/publishers/init_publisher.c on top of the MQTT manager, with *)
(* the part of app_main (main/main.c) that starts both: the main task      *)
(* waits for the first connection, has cmd_handler_init subscribe to the   *)
(* command topics, registers the connected handler and then publishes      *)
(* devices/init itself if the connection is already up.  The MQTT task     *)
(* runs the registered handler after each CONNECTED.                       *)
(*                                                                         *)
(* initMsgs counts the devices/init messages handed to the client on the   *)
(* current connection, up to two.  A message handed over while the client  *)
(* is not connected is not counted.                                        *)
(***************************************************************************)
EXTENDS MqttClientManager

CONSTANT MQTT_WAIT_MAX      \* 15000 / 500 polls of is_connected

ASSUME MqttWaitAssumption == MQTT_WAIT_MAX \in Nat

VARIABLES
    mpc,                    \* the main task
    mqtt_wait,
    initMsgs

mainVars == <<mpc, mqtt_wait>>
deviceVars == <<vars, mainVars, initMsgs>>

DeviceInit ==
    /\ Init
    /\ mpc = "start" /\ mqtt_wait = 0
    /\ initMsgs = 0

Goto(from, to) == mpc = from /\ mpc' = to

PublishInitMessage == initMsgs' = IF initMsgs < 2 THEN initMsgs + 1 ELSE 2

------------------------------------------------------------------------------
(* Variants with a plausible mistake, used to test the properties *)

\* Polls once too often.
PollOneTooMany ==
    /\ mpc = "poll"
    /\ IF ~s_connected /\ mqtt_wait <= MQTT_WAIT_MAX
       THEN mqtt_wait' = mqtt_wait + 1 /\ UNCHANGED mpc
       ELSE mpc' = "decide" /\ UNCHANGED mqtt_wait
    /\ UNCHANGED <<vars, initMsgs>>

\* Relies on the CONNECTED event alone.
RegisterOnly ==
    /\ Goto("register", "running") /\ SetConnectedHandler
    /\ UNCHANGED <<mqtt_wait, initMsgs>>

------------------------------------------------------------------------------
(* The main task *)

StartMqtt ==
    /\ Goto("start", "poll") /\ StartClient
    /\ UNCHANGED <<mqtt_wait, initMsgs>>

PollConnected ==
    /\ mpc = "poll"
    /\ IF ~s_connected /\ mqtt_wait < MQTT_WAIT_MAX
       THEN mqtt_wait' = mqtt_wait + 1 /\ UNCHANGED mpc
       ELSE mpc' = "decide" /\ UNCHANGED mqtt_wait
    /\ UNCHANGED <<vars, initMsgs>>

\* The flag is read once more: without a connection app_main returns.
DecideToRun ==
    /\ mpc = "decide"
    /\ mpc' = IF s_connected THEN "subscribe" ELSE "halted"
    /\ UNCHANGED <<vars, mqtt_wait, initMsgs>>

\* cmd_handler_init subscribes to each topic; the results are ignored.
SubscribeNext ==
    /\ mpc = "subscribe"
    /\ \E t \in Topics : SubscribeStore(t)
    /\ UNCHANGED <<mainVars, initMsgs>>

SubscribedAll ==
    /\ Goto("subscribe", "register") /\ asked = Topics /\ apc = "idle"
    /\ UNCHANGED <<vars, mqtt_wait, initMsgs>>

\* init_publisher_start: register, then look at the flag ...
RegisterHandler ==
    /\ Goto("register", "check") /\ SetConnectedHandler
    /\ UNCHANGED <<mqtt_wait, initMsgs>>

CheckAlreadyUp ==
    /\ mpc = "check"
    /\ mpc' = IF s_connected THEN "publish" ELSE "running"
    /\ UNCHANGED <<vars, mqtt_wait, initMsgs>>

\* ... and publish; mqtt_client_manager_publish looks at the flag again ...
PublishCheck ==
    /\ mpc = "publish"
    /\ mpc' = IF s_connected THEN "send" ELSE "running"
    /\ UNCHANGED <<vars, mqtt_wait, initMsgs>>

\* ... and esp_mqtt_client_publish waits for the API lock.
PublishSend ==
    /\ Goto("send", "running") /\ ~ApiLockHeld
    /\ IF client = "connected" THEN PublishInitMessage ELSE UNCHANGED initMsgs
    /\ UNCHANGED <<vars, mqtt_wait>>

------------------------------------------------------------------------------
(* The other tasks *)

NewConnection ==
    /\ ConnectOk /\ initMsgs' = 0
    /\ UNCHANGED mainVars

\* The MQTT task calls on_mqtt_connected if it is registered by now.
AnnounceConnection ==
    /\ CallConnectedHandler
    /\ IF s_connected_handler THEN PublishInitMessage ELSE UNCHANGED initMsgs
    /\ UNCHANGED mainVars

OtherTasks ==
    /\ \/ ClientResume \/ LinkFailure \/ LinkStabilises
       \/ TimerStep \/ OtherTimerCommand \/ HandlerStep \/ SubscribeStep
    /\ UNCHANGED <<mainVars, initMsgs>>

MainStep ==
    \/ StartMqtt \/ PollConnected \/ DecideToRun
    \/ SubscribeNext \/ SubscribedAll
    \/ RegisterHandler \/ CheckAlreadyUp \/ PublishCheck

DeviceNext ==
    \/ MainStep \/ PublishSend \/ NewConnection \/ AnnounceConnection
    \/ OtherTasks

DeviceSpec == DeviceInit /\ [][DeviceNext]_deviceVars

\* Strong fairness for the two calls that wait for the API lock: it is free for
\* the whole of every reconnect delay, and FreeRTOS hands a mutex to a waiter.
DeviceFairSpec ==
    /\ DeviceSpec /\ Fairness
    /\ SF_vars(SubscribeSend)
    /\ WF_deviceVars(MainStep) /\ SF_deviceVars(PublishSend)

------------------------------------------------------------------------------
(* Properties *)

\* The type invariant, with and without the manager's variables.
MainType ==
    /\ mpc \in {"start", "poll", "decide", "halted", "subscribe", "register",
                "check", "publish", "send", "running"}
    /\ mqtt_wait \in 0..MQTT_WAIT_MAX /\ initMsgs \in 0..2
DeviceTypeOK == TypeOK /\ MainType

\* Registering first and looking at the flag second leaves no gap: whatever the
\* connection did meanwhile, once init_publisher_start is done every connection
\* whose CONNECTED event was handled carried a devices/init message.
EveryConnectionAnnounced ==
    mpc = "running" /\ client = "connected" /\ hpc = "idle" => initMsgs >= 1

\* "Publishes a single message to the devices/init topic every time the device
\* successfully connects (or reconnects)" (init_publisher.h).
SingleInitPerConnect == initMsgs <= 1

\* A start-up that finds the broker finishes, although subscribing and
\* publishing wait for a lock the MQTT task keeps taking, and although the
\* connection may come and go for ever.
StartUpFinishes == mpc = "subscribe" ~> mpc = "running"

\* Commands survive a reconnect: with a table large enough, a connection that
\* is up after cmd_handler_init has had a SUBSCRIBE for every command topic,
\* sent or refused.
CommandsSubscribed ==
    mpc \in {"register", "check", "publish", "send", "running"}
    /\ client = "connected" /\ hpc = "idle" => \A t \in Topics : Reached(t)

==============================================================================
