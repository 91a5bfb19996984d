--------------------------------- MODULE Boot ----------------------------------
(***************************************************************************)
(* The whole of app_main (main/main.c) on top of InitPublisher: the parts  *)
(* of the firmware that are started before and after the MQTT client, the  *)
(* wait for the time, and the restart of the device (ESP_ERROR_CHECK) when *)
(* a part does not start.  A restart keeps the flash and the clock; the    *)
(* client, the timer and the tasks start anew.                             *)
(*                                                                         *)
(* WifiManager has wifi_manager_init in detail; here it is its result.     *)
(***************************************************************************)
EXTENDS InitPublisher

CONSTANT retry_count        \* polls of the clock

ASSUME RetryCountAssumption == retry_count \in Nat \ {0}

VARIABLES
    bpc,            \* the main task; mpc has what it does while bpc = "main"
    started,        \* the parts that it started itself, since the last restart
    retry, yearOk,  \* polls of the clock; did the last one see a year >= 2020?
    nvs, clockSet   \* the flash and the clock

bootVars == <<bpc, started, retry, yearOk>>
bootAllVars == <<deviceVars, bootVars, nvs, clockSet>>

Publishers == {"heartbeat", "counter", "log"}
Parts == {"config", "wifi"} \cup Publishers

\* What follows each part.
NextOf ==
    [config |-> "wifi", wifi |-> "sntp",
     heartbeat |-> "counter", counter |-> "log", log |-> "running"]

BootInit ==
    /\ DeviceInit
    /\ bpc = "nvs" /\ started = {} /\ retry = 0 /\ yearOk = FALSE
    /\ nvs \in {"good", "full", "newVersion", "broken"} /\ clockSet = FALSE

\* ESP_ERROR_CHECK of a failure: what is in RAM is lost.
Restart ==
    /\ client' = "unstarted" /\ session' = {} /\ refused' = {}
    /\ reconnectReq' = FALSE /\ hpc' = "idle" /\ resubIdx' = 1
    /\ s_connected' = FALSE /\ s_reconnect_attempt' = 0
    /\ s_subscriptions' = <<>> /\ s_connected_handler' = FALSE
    /\ timerQueue' = <<>> /\ armed' = FALSE /\ cbpc' = "idle"
    /\ delay' = 0 /\ armFailed' = FALSE
    /\ apc' = "idle" /\ asked' = {}
    /\ mpc' = "start" /\ mqtt_wait' = 0 /\ initMsgs' = 0
    /\ bpc' = "nvs" /\ started' = {} /\ retry' = 0 /\ yearOk' = FALSE
    /\ UNCHANGED <<linkStable, atopic, nvs, clockSet>>

------------------------------------------------------------------------------
(* Variants with a plausible mistake, used to test the properties *)

\* A failure is logged only.
PartIgnored(p) ==
    /\ bpc = p /\ ~linkStable /\ bpc' = NextOf[p]
    /\ UNCHANGED <<deviceVars, started, retry, yearOk, nvs, clockSet>>

\* A used-up flash is not erased.
InitNvsOnly ==
    /\ bpc = "nvs"
    /\ IF nvs = "good"
       THEN bpc' = "config" /\ UNCHANGED <<deviceVars, started, retry, yearOk, nvs, clockSet>>
       ELSE Restart

------------------------------------------------------------------------------
(* The main task, before and after what InitPublisher has of it *)

\* nvs_flash_init; a full or outdated flash is erased and initialised again.
InitNvs ==
    /\ bpc = "nvs"
    /\ \/ /\ nvs # "broken" /\ nvs' = "good" /\ bpc' = "config"
          /\ UNCHANGED <<deviceVars, started, retry, yearOk, clockSet>>
       \/ nvs = "broken" /\ Restart

\* A part starts ...
StartPart(p) ==
    /\ bpc = p /\ bpc' = NextOf[p]
    /\ started' = started \cup {p}
    /\ UNCHANGED <<deviceVars, retry, yearOk, nvs, clockSet>>

\* ... or does not: no memory, or no network (no failure once linkStable).
PartFails(p) == bpc = p /\ ~linkStable /\ Restart

\* mqtt_client_manager_init, which InitPublisher has as StartMqtt, fails.
MqttFails == bpc = "main" /\ mpc = "start" /\ ~linkStable /\ Restart

\* sync_time_via_ntp: a turn of its loop delays 2 s and reads the clock.
PollClock ==
    /\ bpc = "sntp"
    /\ IF ~yearOk /\ retry < retry_count
       THEN retry' = retry + 1 /\ yearOk' = clockSet /\ UNCHANGED bpc
       ELSE retry' = 0 /\ yearOk' = FALSE /\ bpc' = "main"
    /\ UNCHANGED <<deviceVars, started, nvs, clockSet>>

\* init_publisher_start has returned.
StartPublishers ==
    /\ bpc = "main" /\ mpc = "running" /\ bpc' = "heartbeat"
    /\ UNCHANGED <<deviceVars, started, retry, yearOk, nvs, clockSet>>

BootStep ==
    \/ InitNvs \/ PollClock \/ MqttFails \/ StartPublishers
    \/ \E p \in Parts : StartPart(p) \/ PartFails(p)

\* The steps of InitPublisher's main task.
MqttStartUp == bpc = "main" /\ MainStep /\ UNCHANGED <<bootVars, nvs, clockSet>>
Announce == bpc = "main" /\ PublishSend /\ UNCHANGED <<bootVars, nvs, clockSet>>

------------------------------------------------------------------------------
(* The other tasks *)

ConnectionStep ==
    /\ NewConnection \/ AnnounceConnection \/ OtherTasks
    /\ UNCHANGED <<bootVars, nvs, clockSet>>

\* SNTP sets the clock; before and after these polls nobody looks.
SetClock ==
    /\ bpc = "sntp" /\ ~clockSet /\ clockSet' = TRUE
    /\ UNCHANGED <<deviceVars, bootVars, nvs>>

BootNext == BootStep \/ MqttStartUp \/ Announce \/ ConnectionStep \/ SetClock

BootSpec == BootInit /\ [][BootNext]_bootAllVars

\* The main task runs, its delays end and wifi_manager_init returns; for the two
\* calls that wait for the API lock see DeviceFairSpec.
BootFairSpec ==
    /\ BootSpec /\ TaskFairness
    /\ SF_vars(SubscribeSend)
    /\ WF_bootAllVars(BootStep) /\ WF_bootAllVars(MqttStartUp)
    /\ SF_bootAllVars(Announce)

------------------------------------------------------------------------------
(* Properties *)

\* A device at rest runs in full, or has halted with the client alone, which
\* goes on to connect; wherever a failure came, no device is left half started,
\* and no publisher runs before the client, the subscriptions and the handlers.
AllOrNothing ==
    /\ bpc = "running" => started = Parts
    /\ mpc = "halted"  => started = {"config", "wifi"}
    /\ started \cap Publishers # {} =>
           mpc = "running" /\ s_connected_handler /\ asked = Topics

\* Whatever failed in the beginning, once nothing fails any more a device whose
\* flash is not broken comes to rest for good: it runs, connected, announced and
\* subscribed, or the broker was too late and app_main has halted.
ComesToRest ==
    linkStable /\ nvs # "broken" ~>
        [](\/ mpc = "halted"
           \/ /\ bpc = "running" /\ client = "connected" /\ initMsgs >= 1
              /\ \A t \in Topics : Reached(t))

==============================================================================
