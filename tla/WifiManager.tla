----------------------------- MODULE WifiManager -----------------------------
(***************************************************************************)
(* components/network/wifi_manager.c: the station and its retries, with    *)
(* app_main's use of it: wifi_manager_init blocks the main task until an   *)
(* event bit is set, and ESP_ERROR_CHECK restarts the device if it fails.  *)
(*                                                                         *)
(* The Wi-Fi driver, the DHCP client and the access point are external     *)
(* (sta, dhcp, apStable).  They post events, which the event task handles  *)
(* in order; a handler is one action, for only the event task uses its     *)
(* counter.  An address may still be posted behind a disconnection that    *)
(* the event task has not handled yet.                                     *)
(***************************************************************************)
EXTENDS Naturals, Sequences

CONSTANT APP_WIFI_MAX_RETRY

ASSUME RetryAssumption == APP_WIFI_MAX_RETRY \in Nat

VARIABLES
    sta,            \* the station
    dhcp,           \* the DHCP client waits for a lease
    apStable,       \* from now on access point and DHCP server cause no failure
    events,         \* posted and not handled yet
    s_retry_num,
    bits,           \* of s_wifi_event_group
    ipc,            \* the main task around wifi_manager_init
    attempts,       \* esp_wifi_connect calls since the last address, or start
    hadIp           \* was an address handled since the start?

driverVars == <<sta, dhcp, apStable>>
historyVars == <<attempts, hadIp>>
vars == <<driverVars, events, s_retry_num, bits, ipc, historyVars>>

PowerOn ==
    /\ sta = "off" /\ dhcp = FALSE
    /\ events = <<>> /\ s_retry_num = 0 /\ bits = {} /\ ipc = "start"
    /\ attempts = 0 /\ hadIp = FALSE

Init == PowerOn /\ apStable = FALSE

Post(e) == events' = Append(events, e)

\* esp_wifi_connect; the driver takes it only when it is not connecting yet.
Connect ==
    /\ sta' = IF sta = "idle" THEN "connecting" ELSE sta
    /\ attempts' = attempts + 1

Outcome(b) == IF "connected" \in b THEN "ok" ELSE "fail"

\* xEventGroupSetBits hands a task that waits the bits of that moment.
SetBit(b) ==
    /\ bits' = bits \cup {b}
    /\ ipc' = IF ipc = "blocked" THEN Outcome(bits') ELSE ipc

Handle(e) ==
    /\ events # <<>> /\ Head(events) = e
    /\ events' = Tail(events)

------------------------------------------------------------------------------
(* Variants with a plausible mistake, used to test the properties *)

\* The counter is not reset.
KeepRetries ==
    /\ Handle("got_ip")
    /\ SetBit("connected")
    /\ hadIp' = TRUE /\ attempts' = 0
    /\ UNCHANGED <<driverVars, s_retry_num>>

\* Gives up without telling anybody.
GiveUpQuietly ==
    /\ Handle("disconnected")
    /\ dhcp' = FALSE
    /\ IF s_retry_num < APP_WIFI_MAX_RETRY
       THEN Connect /\ s_retry_num' = s_retry_num + 1
       ELSE UNCHANGED <<sta, attempts, s_retry_num>>
    /\ UNCHANGED <<apStable, bits, ipc, hadIp>>

------------------------------------------------------------------------------
(* The main task *)

\* wifi_manager_init up to esp_wifi_start: the handler is registered before.
StartWifi ==
    /\ ipc = "start" /\ ipc' = "started"
    /\ sta' = "idle" /\ Post("sta_start")
    /\ UNCHANGED <<dhcp, apStable, s_retry_num, bits, historyVars>>

\* xEventGroupWaitBits: returns at once if a bit is set.
WaitBits ==
    /\ ipc = "started"
    /\ ipc' = IF bits = {} THEN "blocked" ELSE Outcome(bits)
    /\ UNCHANGED <<driverVars, events, s_retry_num, bits, historyVars>>

\* ESP_ERROR_CHECK aborts: everything but the access point starts again.
Restart ==
    /\ ipc = "fail"
    /\ sta' = "off" /\ dhcp' = FALSE /\ events' = <<>> /\ s_retry_num' = 0
    /\ bits' = {} /\ ipc' = "start" /\ attempts' = 0 /\ hadIp' = FALSE
    /\ UNCHANGED apStable

------------------------------------------------------------------------------
(* The event task: wifi_event_handler *)

HandleStart ==
    /\ Handle("sta_start")
    /\ Connect
    /\ UNCHANGED <<dhcp, apStable, s_retry_num, bits, ipc, hadIp>>

WithinBudget == s_retry_num < APP_WIFI_MAX_RETRY

\* The default handler, registered first, stops the DHCP client.
HandleDisconnected ==
    /\ Handle("disconnected")
    /\ dhcp' = FALSE
    /\ IF WithinBudget
       THEN Connect /\ s_retry_num' = s_retry_num + 1 /\ UNCHANGED <<bits, ipc>>
       ELSE SetBit("fail") /\ UNCHANGED <<sta, attempts, s_retry_num>>
    /\ UNCHANGED <<apStable, hadIp>>

HandleGotIp ==
    /\ Handle("got_ip")
    /\ s_retry_num' = 0 /\ SetBit("connected")
    /\ hadIp' = TRUE /\ attempts' = 0
    /\ UNCHANGED driverVars

------------------------------------------------------------------------------
(* Driver, DHCP client and access point *)

Associate ==
    /\ sta = "connecting" /\ sta' = "associated" /\ dhcp' = TRUE
    /\ UNCHANGED <<apStable, events, s_retry_num, bits, ipc, historyVars>>

ConnectFails ==
    /\ sta = "connecting" /\ ~apStable
    /\ sta' = "idle" /\ Post("disconnected")
    /\ UNCHANGED <<dhcp, apStable, s_retry_num, bits, ipc, historyVars>>

ApLost ==
    /\ sta \in {"associated", "online"} /\ ~apStable
    /\ sta' = "idle" /\ Post("disconnected")
    /\ UNCHANGED <<dhcp, apStable, s_retry_num, bits, ipc, historyVars>>

Lease ==
    /\ dhcp /\ dhcp' = FALSE
    /\ sta' = IF sta = "associated" THEN "online" ELSE sta
    /\ Post("got_ip")
    /\ UNCHANGED <<apStable, s_retry_num, bits, ipc, historyVars>>

ApStabilises ==
    /\ ~apStable /\ apStable' = TRUE
    /\ UNCHANGED <<sta, dhcp, events, s_retry_num, bits, ipc, historyVars>>

MainStep == StartWifi \/ WaitBits \/ Restart
EventStep == HandleStart \/ HandleDisconnected \/ HandleGotIp
ApFailure == ConnectFails \/ ApLost

Next == MainStep \/ EventStep \/ Associate \/ Lease \/ ApFailure \/ ApStabilises

Spec == Init /\ [][Next]_vars

\* Both tasks run, and an attempt is answered one way or the other.  A DHCP server
\* that is asked need not answer, except behind an access point that is up for good.
Fairness ==
    /\ WF_vars(MainStep) /\ WF_vars(EventStep)
    /\ WF_vars(Associate \/ ConnectFails) /\ WF_vars(apStable /\ Lease)

FairSpec == Spec /\ Fairness

------------------------------------------------------------------------------
(* Properties *)

Events == {"sta_start", "disconnected", "got_ip"}
Resting == sta = "idle" /\ events = <<>>

\* The type invariant; it also bounds the retries and the events that can pile
\* up behind a busy event task.
TypeOK ==
    /\ sta \in {"off", "idle", "connecting", "associated", "online"}
    /\ dhcp \in BOOLEAN /\ apStable \in BOOLEAN
    /\ events \in Seq(Events)
    /\ Len(events) <= 3
    /\ s_retry_num \in 0..APP_WIFI_MAX_RETRY
    /\ bits \subseteq {"connected", "fail"}
    /\ ipc \in {"start", "started", "blocked", "ok", "fail"}
    /\ attempts \in 0..APP_WIFI_MAX_RETRY + 1 /\ hadIp \in BOOLEAN

\* The device never stops trying without saying so: a station that neither has
\* nor awaits anything has been given up, and the bit that says so is set.
NoSilentStop == ipc # "start" /\ Resting => "fail" \in bits

\* "Number of times to retry a WiFi connection before giving up": the first
\* give-up comes after the whole budget, which an address renews, no matter in
\* which order disconnections and addresses are handled.
BudgetUsedUp ==
    []["fail" \notin bits /\ "fail" \in bits' =>
           attempts = APP_WIFI_MAX_RETRY + (IF hadIp THEN 0 ELSE 1)]_vars

\* "Blocks until an IP address is obtained or the maximum number of retries is
\* exhausted": an access point that refuses or drops the station again and again
\* makes the call return.  It blocks for ever (portMAX_DELAY) in one case only: the
\* station stays associated with an access point where no lease ever comes.
AwaitsLease == sta = "associated" /\ dhcp
InitReturns == ipc = "started" ~> (ipc \in {"ok", "fail"} \/ []AwaitsLease)

\* Once the access point is up for good the device starts up, after a restart if
\* need be, and the station comes to rest: online, or given up before that.
\* There is no third way and no flapping between the two.
Settles ==
    apStable ~> \/ [](ipc = "ok" /\ sta = "online")
                \/ [](ipc = "ok" /\ Resting /\ "fail" \in bits)

\* The inductive invariant: which events can be queued in each state of the
\* station, ...
Quiet == {<<>>, <<"got_ip">>}
Starting == events = <<"sta_start">>
QueueInv ==
    /\ sta = "off" => events = <<>> /\ ~dhcp
    /\ sta = "connecting" => events \in Quiet /\ ~dhcp
    /\ sta = "associated" => events \in Quiet /\ dhcp
    /\ sta = "online" => ~dhcp /\ events \in Quiet \cup {<<"got_ip", "got_ip">>}
    /\ sta = "idle" =>
           \/ Starting /\ ~dhcp
           \/ events \in Quiet /\ ~dhcp /\ "fail" \in bits
           \/ events \in {<<"disconnected">>, <<"got_ip", "disconnected">>}
           \/ /\ events \in {<<"got_ip", "got_ip", "disconnected">>,
                             <<"disconnected", "got_ip">>,
                             <<"got_ip", "disconnected", "got_ip">>}
              /\ ~dhcp

\* ... and how the attempts follow from the retries.
AttemptInv ==
    /\ ipc = "start" <=> sta = "off"
    /\ sta = "off" \/ Starting =>
           attempts = 0 /\ s_retry_num = 0 /\ ~hadIp /\ bits = {}
    /\ sta # "off" /\ ~Starting =>
           attempts = s_retry_num + (IF hadIp THEN 0 ELSE 1)

IndInv == QueueInv /\ AttemptInv

==============================================================================
