------------------------- MODULE ConnectionLifecycle -------------------------
(***************************************************************************)
(* What mqtt_client_manager.h promises its users, without tasks, timers or *)
(* queues: a connection that is set up, reported, lost, reported lost, and *)
(* set up again after a wait, for as long as the device runs.  told is     *)
(* what mqtt_client_manager_is_connected answers.                          *)
(***************************************************************************)

CONSTANT MayAbandon     \* may a wait be given up (a full timer queue)?

VARIABLES phase, told

lifecycleVars == <<phase, told>>

Init == phase = "off" /\ told = FALSE

Move(from, to) == phase = from /\ phase' = to

Start    == Move("off", "connecting") /\ UNCHANGED told
Accept   == Move("connecting", "accepted") /\ UNCHANGED told
Report   == Move("accepted", "up") /\ told' = TRUE
\* An attempt fails, or a connection breaks; users learn of it next.
Fail     == Move("connecting", "lost") /\ UNCHANGED told
Break    == Move("up", "lost") /\ UNCHANGED told
Withdraw == Move("lost", "down") /\ told' = FALSE
Wait     == Move("down", "backoff") /\ UNCHANGED told
Abandon  == MayAbandon /\ Move("down", "abandoned") /\ UNCHANGED told
Retry    == Move("backoff", "connecting") /\ UNCHANGED told

Next == \/ Start \/ Accept \/ Report \/ Fail \/ Break \/ Withdraw
        \/ Wait \/ Abandon \/ Retry

Spec == Init /\ [][Next]_lifecycleVars

\* The component never rests except while a connection is up or abandoned.
FairSpec ==
    /\ Spec
    /\ WF_lifecycleVars(Start) /\ WF_lifecycleVars(Accept \/ Fail)
    /\ WF_lifecycleVars(Report) /\ WF_lifecycleVars(Withdraw)
    /\ WF_lifecycleVars(Wait \/ Abandon) /\ WF_lifecycleVars(Retry)

==============================================================================
