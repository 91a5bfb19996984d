------------------------------- MODULE OtaUpdate -------------------------------
(***************************************************************************)
(* The firmware update of components/cmd_handler/cmd_handler.c:            *)
(* handle_ota_cmd in the MQTT task, and one ota_update_task per command.   *)
(* Nothing keeps a second command from starting a second task while the    *)
(* first is at work.                                                       *)
(*                                                                         *)
(* esp_https_ota is external: it returns, having made an image the one to  *)
(* boot, or with an error, at the latest after its time-out.  Without an   *)
(* OTA partition, as in sdkconfig.defaults, it never succeeds.             *)
(***************************************************************************)
EXTENDS Naturals, FiniteSets, Functions

CONSTANTS
    OtaTasks,       \* update tasks the memory has room for
    Blocks,         \* heap blocks for their parameters
    NoBlock

ASSUME BlocksAssumption == NoBlock \notin Blocks

VARIABLES
    hpc, hparams,   \* handle_ota_cmd and its block
    tpc, params,    \* the update tasks and their blocks
    heap            \* blocks that are allocated

handlerVars == <<hpc, hparams>>
taskVars == <<tpc, params>>
vars == <<handlerVars, taskVars, heap>>

Init ==
    /\ hpc = "idle" /\ hparams = NoBlock
    /\ tpc = [t \in OtaTasks |-> "none"] /\ params = [t \in OtaTasks |-> NoBlock]
    /\ heap = {}

\* The update task t takes the parameters over.
StartUpdate(t) ==
    /\ tpc[t] = "none"
    /\ tpc' = [tpc EXCEPT ![t] = "update"]
    /\ params' = [params EXCEPT ![t] = hparams]

------------------------------------------------------------------------------
(* Variants with a plausible mistake, used to test the properties *)

\* Keeps the parameters of a task that was not created.
CreateTaskOrLeak ==
    /\ hpc = "create" /\ hpc' = "idle" /\ hparams' = NoBlock
    /\ (\E t \in OtaTasks : StartUpdate(t)) \/ UNCHANGED taskVars
    /\ UNCHANGED heap

\* No timeout is set.
WaitForServer(t) == FALSE /\ UNCHANGED vars

------------------------------------------------------------------------------
(* handle_ota_cmd, in the MQTT task *)

Commands == [url : {"absent", "empty", "text"}, md5 : {"absent", "empty", "text"}]

ReceiveOta(c) ==
    /\ hpc = "idle" /\ c.url = "text" /\ c.md5 = "text"
    /\ hpc' = "alloc"
    /\ UNCHANGED <<hparams, taskVars, heap>>

\* malloc, which may return NULL.
Allocate ==
    /\ hpc = "alloc"
    /\ \/ \E b \in Blocks \ heap :
              hpc' = "create" /\ hparams' = b /\ heap' = heap \cup {b}
       \/ hpc' = "idle" /\ UNCHANGED <<hparams, heap>>
    /\ UNCHANGED taskVars

\* xTaskCreate, which may fail as well.  The task takes the block over.
CreateTask ==
    /\ hpc = "create" /\ hpc' = "idle" /\ hparams' = NoBlock
    /\ \/ \E t \in OtaTasks : StartUpdate(t) /\ UNCHANGED heap
       \/ heap' = heap \ {hparams} /\ UNCHANGED taskVars

------------------------------------------------------------------------------
(* ota_update_task *)

\* esp_https_ota returns ESP_OK, ...
Complete(t) ==
    /\ tpc[t] = "update" /\ tpc' = [tpc EXCEPT ![t] = "restart"]
    /\ UNCHANGED <<handlerVars, params, heap>>

\* ... or an error of the server, the flash or the image; OTA_HTTP_TIMEOUT_MS.
Fail(t) ==
    /\ tpc[t] = "update" /\ tpc' = [tpc EXCEPT ![t] = "failed"]
    /\ UNCHANGED <<handlerVars, params, heap>>

EndFailed(t) ==
    /\ tpc[t] = "failed"
    /\ tpc' = [tpc EXCEPT ![t] = "none"] /\ params' = [params EXCEPT ![t] = NoBlock]
    /\ heap' = heap \ {params[t]}
    /\ UNCHANGED handlerVars

\* esp_restart: everything in RAM starts anew, other updates included.
RestartDevice ==
    /\ hpc' = "idle" /\ hparams' = NoBlock /\ heap' = {}
    /\ tpc' = [t \in OtaTasks |-> "none"] /\ params' = [t \in OtaTasks |-> NoBlock]

\* One second after the update, ...
EndUpdate(t) == tpc[t] = "restart" /\ RestartDevice

\* ... or after a reboot command, in the MQTT task.
Reboot == hpc = "idle" /\ RestartDevice

Next ==
    \/ \E c \in Commands : ReceiveOta(c)
    \/ Allocate \/ CreateTask \/ Reboot
    \/ \E t \in OtaTasks : Complete(t) \/ Fail(t) \/ EndFailed(t) \/ EndUpdate(t)

Spec == Init /\ [][Next]_vars

\* All tasks run, and a request that is not answered times out.  Nothing is assumed
\* of the server.
FairSpec ==
    /\ Spec /\ WF_vars(Allocate \/ CreateTask)
    /\ \A t \in OtaTasks : WF_vars(Fail(t)) /\ WF_vars(EndFailed(t) \/ EndUpdate(t))

------------------------------------------------------------------------------
(* Properties *)

\* The type invariant.
TypeOK ==
    /\ hpc \in {"idle", "alloc", "create"} /\ hparams \in Blocks \cup {NoBlock}
    /\ tpc \in [OtaTasks -> {"none", "update", "restart", "failed"}]
    /\ params \in [OtaTasks -> Blocks \cup {NoBlock}] /\ heap \subseteq Blocks

\* "Parameters heap-allocated by handle_ota_cmd and freed by ota_update_task":
\* every allocated block has an owner, so that none is ever leaked; whoever owns
\* one owns it alone and can still read it.
HeapBalanced ==
    /\ heap = (Range(params) \cup {hparams}) \ {NoBlock}
    /\ \A t \in OtaTasks : tpc[t] # "none" <=> params[t] # NoBlock
    /\ \A t, u \in OtaTasks : params[t] = params[u] /\ params[t] # NoBlock => t = u
    /\ hparams \notin Range(params) \ {NoBlock}

\* An update ends, however the server behaves: no task and no memory is tied up
\* for ever.
UpdatesEnd == \A t \in OtaTasks : tpc[t] = "update" ~> tpc[t] = "none"

==============================================================================
