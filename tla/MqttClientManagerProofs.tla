----------------------- MODULE MqttClientManagerProofs -----------------------
(***************************************************************************)
(* Proofs about MqttClientManager for every set of topics, every size of   *)
(* the table and of the timer queue, and every backoff configuration.      *)
(***************************************************************************)
EXTENDS MqttClientManager, TLAPS

USE DEF Commands

\* The groups of variables, for steps that leave them alone.
LEMMA Unchanged == ASSUME UNCHANGED vars
    PROVE  /\ UNCHANGED <<client, session, refused, linkStable, reconnectReq>>
           /\ UNCHANGED <<hpc, resubIdx, s_connected, s_reconnect_attempt>>
           /\ UNCHANGED <<s_subscriptions, s_connected_handler, timerQueue>>
           /\ UNCHANGED <<armed, cbpc, delay, armFailed, apc, atopic, asked>>
BY DEF vars, externalVars, handlerVars, timerVars, historyVars, appVars,
       managerVars

\* Posting a command keeps the queue typed and within its bound.
LEMMA PostTyped ==
    ASSUME TypeOK, NEW cmd \in Commands, PostCommand(cmd)
    PROVE  timerQueue' \in Seq(Commands) /\ Len(timerQueue') <= TIMER_QUEUE_LEN
BY TimerQueueAssumption DEF TypeOK, PostCommand, QueueHasRoom

\* A subscribe call only ever adds topics.
LEMMA SubscribeTyped ==
    ASSUME TypeOK, NEW t \in Topics, SubscribeSingle(t)
    PROVE  session' \subseteq Topics /\ refused' \subseteq Topics
BY DEF TypeOK, SubscribeSingle

------------------------------------------------------------------------------
(* Type correctness *)

LEMMA PowerOnTyped == PowerOn /\ linkStable \in BOOLEAN => TypeOK
<1> SUFFICES ASSUME PowerOn, linkStable \in BOOLEAN PROVE TypeOK
  OBVIOUS
<1>1. /\ s_subscriptions \in Seq(Topics) /\ Len(s_subscriptions) = 0
      /\ timerQueue \in Seq(Commands) /\ Len(timerQueue) = 0
  BY DEF PowerOn
<1>2. 0 <= MAX_SUBSCRIPTIONS /\ 0 <= TIMER_QUEUE_LEN
  BY SubscriptionsAssumption, TimerQueueAssumption
<1>3. resubIdx \in 1..MAX_SUBSCRIPTIONS + 1 /\ s_reconnect_attempt \in 0..ATTEMPT_MAX
  BY SubscriptionsAssumption, BackoffAssumption DEF PowerOn
<1>4. /\ session \subseteq Topics /\ refused \subseteq Topics
      /\ asked \subseteq Topics /\ atopic \in Topics /\ delay \in Int
  BY DEF PowerOn
<1>5. /\ client = "unstarted" /\ hpc = "idle" /\ cbpc = "idle" /\ apc = "idle"
      /\ reconnectReq = FALSE /\ s_connected = FALSE
      /\ s_connected_handler = FALSE /\ armed = FALSE /\ armFailed = FALSE
  BY DEF PowerOn
<1> QED
  BY <1>1, <1>2, <1>3, <1>4, <1>5 DEF TypeOK

LEMMA TypeStep == TypeOK /\ [Next]_vars => TypeOK'
<1> SUFFICES ASSUME TypeOK, [Next]_vars PROVE TypeOK'
  OBVIOUS
<1> USE DEF externalVars, handlerVars, timerVars, historyVars, appVars,
            managerVars
<1>1. CASE ClientStep \/ LinkFailure \/ LinkStabilises
  <2>1. CASE StartClient
    BY <2>1 DEF TypeOK, StartClient
  <2>2. CASE ConnectOk
    BY <2>2 DEF TypeOK, ConnectOk
  <2>3. CASE ClientResume
    BY <2>3 DEF TypeOK, ClientResume
  <2>4. CASE LinkFailure
    BY <2>4 DEF TypeOK, LinkFailure, ConnectFail, ConnectionLost, Disconnect
  <2>5. CASE LinkStabilises
    BY <2>5 DEF TypeOK, LinkStabilises
  <2> QED
    BY <1>1, <2>1, <2>2, <2>3, <2>4, <2>5 DEF ClientStep
<1>2. CASE TimerCommand
  <2>1. timerQueue' \in Seq(Commands) /\ Len(timerQueue') <= TIMER_QUEUE_LEN
    BY <1>2, TimerQueueAssumption DEF TypeOK, TimerCommand
  <2>2. armed' \in BOOLEAN
    BY <1>2 DEF TypeOK, TimerCommand
  <2> QED
    BY <1>2, <2>1, <2>2 DEF TypeOK, TimerCommand
<1>3. CASE TimerExpire \/ CallbackCheck \/ CallbackReconnect
  <2>1. CASE TimerExpire
    BY <2>1 DEF TypeOK, TimerExpire, AutoReload
  <2>2. CASE CallbackCheck
    BY <2>2 DEF TypeOK, CallbackCheck
  <2>3. CASE CallbackReconnect
    <3>1. reconnectReq' \in BOOLEAN
      BY <2>3 DEF TypeOK, CallbackReconnect
    <3> QED
      BY <2>3, <3>1 DEF TypeOK, CallbackReconnect
  <2> QED
    BY <1>3, <2>1, <2>2, <2>3
<1>4. CASE OtherTimerCommand
  BY <1>4, PostTyped DEF TypeOK, OtherTimerCommand
<1>5. CASE StopTimer
  BY <1>5, PostTyped, BackoffAssumption DEF TypeOK, StopTimer
<1>6. CASE SetConnected \/ ClearConnected \/ CallConnectedHandler
  <2>1. CASE SetConnected
    BY <2>1, SubscriptionsAssumption DEF TypeOK, SetConnected
  <2>2. CASE ClearConnected
    BY <2>2 DEF TypeOK, ClearConnected
  <2>3. CASE CallConnectedHandler
    BY <2>3 DEF TypeOK, CallConnectedHandler
  <2> QED
    BY <1>6, <2>1, <2>2, <2>3
<1>7. CASE Resubscribe
  <2>1. CASE resubIdx <= Len(s_subscriptions)
    <3>1. s_subscriptions[resubIdx] \in Topics
      BY <2>1 DEF TypeOK
    <3>2. resubIdx' = resubIdx + 1 /\ SubscribeSingle(s_subscriptions[resubIdx])
      BY <1>7, <2>1 DEF Resubscribe, TypeOK
    <3>3. session' \subseteq Topics /\ refused' \subseteq Topics
      BY <3>1, <3>2, SubscribeTyped
    <3>4. resubIdx' \in 1..MAX_SUBSCRIPTIONS + 1
      BY <2>1, <3>2, SubscriptionsAssumption DEF TypeOK
    <3> QED
      BY <1>7, <2>1, <3>3, <3>4 DEF TypeOK, Resubscribe
  <2>2. CASE resubIdx > Len(s_subscriptions)
    BY <1>7, <2>2 DEF TypeOK, Resubscribe
  <2> QED
    BY <2>1, <2>2 DEF TypeOK
<1>8. CASE ScheduleReconnect
  <2>1. NextAttempt(s_reconnect_attempt) \in 0..ATTEMPT_MAX
    BY BackoffAssumption DEF TypeOK, NextAttempt
  <2>2. ReconnectDelay(s_reconnect_attempt) \in Int
    BY BackoffAssumption DEF TypeOK, ReconnectDelay
  <2> QED
    BY <1>8, <2>1, <2>2, PostTyped DEF TypeOK, ScheduleReconnect
<1>9. CASE \E t \in Topics : SubscribeStore(t)
  <2> PICK t \in Topics : SubscribeStore(t)
    BY <1>9
  <2>1. /\ s_subscriptions' \in Seq(Topics)
        /\ Len(s_subscriptions') <= MAX_SUBSCRIPTIONS
    BY SubscriptionsAssumption DEF TypeOK, SubscribeStore
  <2> QED
    BY <2>1 DEF TypeOK, SubscribeStore
<1>10. CASE SubscribeCheck \/ SetConnectedHandler
  BY <1>10 DEF TypeOK, SubscribeCheck, SetConnectedHandler
<1>11. CASE SubscribeSend
  <2>1. session' \subseteq Topics /\ refused' \subseteq Topics
    BY <1>11, SubscribeTyped DEF SubscribeSend, TypeOK
  <2> QED
    BY <1>11, <2>1 DEF TypeOK, SubscribeSend
<1>12. CASE UNCHANGED vars
  BY <1>12, Unchanged DEF TypeOK
<1> QED
  BY <1>1, <1>2, <1>3, <1>4, <1>5, <1>6, <1>7, <1>8, <1>9, <1>10, <1>11, <1>12
  DEF Next, TimerStep, HandlerStep, SubscribeStep

\* Type correctness: the queue, the table and the attempt counter keep their
\* bounds whatever the tasks do.
THEOREM TypeCorrect == Spec => []TypeOK
<1>1. Init => TypeOK
  BY PowerOnTyped DEF Init
<1> QED
  BY <1>1, TypeStep, PTL DEF Spec

------------------------------------------------------------------------------
\* The flag follows the client.
LEMMA FlagStep == TypeOK /\ FlagInv /\ [Next]_vars => FlagInv'
<1> SUFFICES ASSUME TypeOK, FlagInv, [Next]_vars PROVE FlagInv'
  OBVIOUS
<1> USE DEF externalVars, handlerVars, timerVars, historyVars, appVars,
            managerVars
<1>1. CASE ClientStep
  BY <1>1 DEF FlagInv, TypeOK, ClientStep, StartClient, ConnectOk, ClientResume
<1>2. CASE LinkFailure
  BY <1>2 DEF FlagInv, LinkFailure, ConnectFail, ConnectionLost, Disconnect
<1>3. CASE TimerStep \/ OtherTimerCommand \/ LinkStabilises
  <2>1. UNCHANGED <<client, hpc, s_connected>>
    BY <1>3 DEF TimerStep, TimerCommand, TimerExpire, CallbackCheck,
                CallbackReconnect, OtherTimerCommand, LinkStabilises
  <2> QED
    BY <2>1 DEF FlagInv
<1>4. CASE HandlerStep
  <2>1. CASE StopTimer
    BY <2>1 DEF FlagInv, StopTimer
  <2>2. CASE SetConnected
    BY <2>2 DEF FlagInv, SetConnected
  <2>3. CASE Resubscribe
    BY <2>3 DEF FlagInv, Resubscribe
  <2>4. CASE ClearConnected
    BY <2>4 DEF FlagInv, ClearConnected
  <2>5. CASE ScheduleReconnect
    BY <2>5 DEF FlagInv, ScheduleReconnect
  <2> QED
    BY <1>4, <2>1, <2>2, <2>3, <2>4, <2>5 DEF HandlerStep
<1>5. CASE CallConnectedHandler
  BY <1>5 DEF FlagInv, CallConnectedHandler
<1>6. CASE (\E t \in Topics : SubscribeStore(t)) \/ SubscribeStep
           \/ SetConnectedHandler
  BY <1>6 DEF FlagInv, SubscribeStore, SubscribeStep, SubscribeCheck,
              SubscribeSend, SetConnectedHandler
<1>7. CASE UNCHANGED vars
  BY <1>7, Unchanged DEF FlagInv
<1> QED
  BY <1>1, <1>2, <1>3, <1>4, <1>5, <1>6, <1>7 DEF Next

\* What posting a command does to the queue: at most that command is new, it is
\* last, and it is there if there was room.
LEMMA PostQueued ==
    ASSUME TypeOK, NEW cmd \in Commands, PostCommand(cmd)
    PROVE  /\ \A c \in Commands : Queued(c)' => Queued(c) \/ c = cmd
           /\ QueueHasRoom => Queued(cmd)'
           /\ \A i \in 1..Len(timerQueue)' :
                  \/ i \in 1..Len(timerQueue) /\ timerQueue'[i] = timerQueue[i]
                  \/ i = Len(timerQueue) + 1 /\ timerQueue'[i] = cmd
           /\ \A c \in Commands : Queued(c) => Queued(c)'
<1>1. CASE QueueHasRoom
  <2>1. /\ Len(timerQueue') = Len(timerQueue) + 1
        /\ timerQueue'[Len(timerQueue) + 1] = cmd
        /\ \A i \in 1..Len(timerQueue) : timerQueue'[i] = timerQueue[i]
    BY <1>1 DEF TypeOK, PostCommand
  <2>2. Len(timerQueue) \in Nat
    BY DEF TypeOK
  <2>3. \A i \in 1..Len(timerQueue') :
            \/ i \in 1..Len(timerQueue) /\ timerQueue'[i] = timerQueue[i]
            \/ i = Len(timerQueue) + 1 /\ timerQueue'[i] = cmd
    BY <2>1, <2>2
  <2>4. Queued(cmd)'
    BY <2>1, <2>2 DEF Queued
  <2>5. \A c \in Commands : Queued(c) => Queued(c)'
    BY <2>1, <2>2 DEF Queued
  <2> QED
    BY <2>3, <2>4, <2>5 DEF Queued
<1>2. CASE ~QueueHasRoom
  BY <1>2 DEF PostCommand, Queued, TypeOK
<1> QED
  BY <1>1, <1>2

\* What executing the oldest command does to it.
LEMMA TailQueued ==
    ASSUME TypeOK, timerQueue # <<>>, timerQueue' = Tail(timerQueue)
    PROVE  /\ \A i \in 1..Len(timerQueue)' :
                  i + 1 \in 1..Len(timerQueue) /\ timerQueue'[i] = timerQueue[i + 1]
           /\ \A c \in Commands : Queued(c)' => Queued(c)
           /\ \A c \in Commands : Queued(c) => Queued(c)' \/ c = Head(timerQueue)
           /\ Head(timerQueue) \in Commands
           /\ 1 \in 1..Len(timerQueue) /\ Head(timerQueue) = timerQueue[1]
           /\ Queued(Head(timerQueue))
<1>1. /\ Len(timerQueue) >= 1 /\ Len(timerQueue) \in Nat
      /\ Len(timerQueue') = Len(timerQueue) - 1
      /\ \A i \in 1..Len(timerQueue') : timerQueue'[i] = timerQueue[i + 1]
      /\ Head(timerQueue) = timerQueue[1] /\ timerQueue[1] \in Commands
  BY DEF TypeOK
<1>2. \A i \in 1..Len(timerQueue) : i = 1 \/ i - 1 \in 1..Len(timerQueue')
  BY <1>1
<1>3. \A c \in Commands : Queued(c) => Queued(c)' \/ c = Head(timerQueue)
  <2> SUFFICES ASSUME NEW c \in Commands, NEW i \in 1..Len(timerQueue),
                      timerQueue[i] = c, c # Head(timerQueue)
               PROVE  Queued(c)'
    BY DEF Queued
  <2>1. i - 1 \in 1..Len(timerQueue') /\ timerQueue'[i - 1] = timerQueue[i]
    BY <1>1, <1>2
  <2> QED
    BY <2>1 DEF Queued
<1> QED
  BY <1>1, <1>3 DEF Queued

LEMMA SameQueue ==
    ASSUME timerQueue' = timerQueue, NEW c PROVE Queued(c)' <=> Queued(c)
BY DEF Queued

\* The steps that touch nothing a reconnect depends on.
NeutralVars == <<client, reconnectReq, hpc, timerQueue, armed, cbpc, armFailed>>

LEMMA NeutralSteps ==
    ASSUME \/ LinkStabilises \/ SubscribeStep \/ SetConnectedHandler
           \/ \E t \in Topics : SubscribeStore(t)
           \/ UNCHANGED vars
    PROVE  UNCHANGED NeutralVars
<1> USE DEF externalVars, handlerVars, timerVars, historyVars, appVars,
            managerVars
<1> QED
  BY Unchanged DEF NeutralVars, LinkStabilises, SubscribeStep, SubscribeCheck,
     SubscribeSend, SetConnectedHandler, SubscribeStore

\* The sources of a CONNECT exclude each other and never run dry.
LEMMA ReconnectStep ==
    TypeOK /\ FlagInv /\ QueueInv /\ ReconnectInv /\ [Next]_vars => ReconnectInv'
<1> SUFFICES ASSUME TypeOK, FlagInv, QueueInv, ReconnectInv, [Next]_vars
             PROVE  ReconnectInv'
  OBVIOUS
<1> USE DEF externalVars, handlerVars, timerVars, historyVars, appVars,
            managerVars, ReconnectInv, ReconnectPending, WaitingIdle
<1>1. CASE StartClient
  <2>1. timerQueue' = timerQueue /\ UNCHANGED <<reconnectReq, hpc, armed, cbpc, armFailed>>
    BY <1>1 DEF StartClient
  <2> QED
    BY <1>1, <2>1, SameQueue DEF StartClient
<1>2. CASE ConnectOk
  <2>1. timerQueue' = timerQueue
    BY <1>2 DEF ConnectOk
  <2> QED
    BY <1>2, <2>1, SameQueue DEF ConnectOk
<1>3. CASE LinkFailure
  <2>1. timerQueue' = timerQueue
    BY <1>3 DEF LinkFailure, ConnectFail, ConnectionLost, Disconnect
  <2> QED
    BY <1>3, <2>1, SameQueue
    DEF LinkFailure, ConnectFail, ConnectionLost, Disconnect
<1>4. CASE ClientResume
  <2>1. timerQueue' = timerQueue /\ reconnectReq
    BY <1>4 DEF ClientResume, AutoReconnect
  <2> QED
    BY <1>4, <2>1, SameQueue DEF ClientResume
<1>5. CASE TimerCommand
  <2>1. timerQueue # <<>> /\ timerQueue' = Tail(timerQueue)
    BY <1>5 DEF TimerCommand
  <2>2. UNCHANGED <<client, reconnectReq, hpc, cbpc, armFailed>> /\ cbpc = "idle"
    BY <1>5 DEF TimerCommand
  <2> DEFINE head == Head(timerQueue)
  <2>3. /\ \A c \in Commands : Queued(c)' => Queued(c)
        /\ \A c \in Commands : Queued(c) => Queued(c)' \/ c = head
        /\ head \in Commands /\ Queued(head)
    BY <2>1, TailQueued
  <2>4. CASE head = "change"
    <3>1. ~Queued("change")' /\ ~Queued("stop")'
      BY <2>1, <2>4, TailQueued DEF Queued, QueueInv, TypeOK
    <3>2. armed'
      BY <1>5, <2>4 DEF TimerCommand
    <3> QED
      BY <2>2, <2>3, <2>4, <3>1, <3>2
  <2>5. CASE head = "stop"
    <3>1. ~armed'
      BY <1>5, <2>5 DEF TimerCommand
    <3> QED
      BY <2>2, <2>3, <2>5, <3>1
  <2>6. CASE head = "other"
    <3>1. armed' = armed
      BY <1>5, <2>6 DEF TimerCommand
    <3> QED
      BY <2>2, <2>3, <2>6, <3>1
  <2> QED
    BY <2>3, <2>4, <2>5, <2>6
<1>6. CASE OtherTimerCommand
  <2>1. UNCHANGED <<client, reconnectReq, hpc, cbpc, armed, armFailed>>
    BY <1>6 DEF OtherTimerCommand
  <2>2. \A c \in Commands \ {"other"} : Queued(c)' <=> Queued(c)
    BY <1>6, PostQueued DEF OtherTimerCommand
  <2> QED
    BY <2>1, <2>2
<1>7. CASE TimerExpire
  <2>1. timerQueue' = timerQueue /\ ~armed' /\ armed /\ cbpc' = "check"
    BY <1>7 DEF TimerExpire, AutoReload
  <2> QED
    BY <1>7, <2>1, SameQueue DEF TimerExpire
<1>8. CASE CallbackCheck
  <2>1. timerQueue' = timerQueue /\ cbpc' = "call"
    BY <1>8 DEF CallbackCheck, FlagInv
  <2> QED
    BY <1>8, <2>1, SameQueue DEF CallbackCheck
<1>9. CASE CallbackReconnect
  <2>1. timerQueue' = timerQueue /\ reconnectReq' /\ cbpc' = "idle"
    BY <1>9 DEF CallbackReconnect
  <2> QED
    BY <1>9, <2>1, SameQueue DEF CallbackReconnect
<1>10. CASE StopTimer
  <2>1. client = "connected" /\ ~armed /\ cbpc = "idle" /\ ~reconnectReq
        /\ ~Queued("change")
    BY <1>10 DEF StopTimer, FlagInv, TypeOK
  <2>2. ~Queued("change")'
    BY <1>10, <2>1, PostQueued DEF StopTimer
  <2>3. hpc' = "c_flag" /\ UNCHANGED <<client, reconnectReq, armed, cbpc, armFailed>>
    BY <1>10 DEF StopTimer
  <2> QED
    BY <2>1, <2>2, <2>3
<1>11. CASE ScheduleReconnect
  <2>1. client = "waiting" /\ ~armed /\ cbpc = "idle" /\ ~reconnectReq
        /\ ~Queued("change")
    BY <1>11 DEF ScheduleReconnect, FlagInv, TypeOK
  <2>2. UNCHANGED <<client, reconnectReq, armed, cbpc>> /\ hpc' = "idle"
        /\ armFailed' = ~QueueHasRoom
    BY <1>11 DEF ScheduleReconnect
  <2>3. CASE QueueHasRoom
    <3>1. Queued("change")'
      BY <1>11, <2>3, PostQueued DEF ScheduleReconnect
    <3> QED
      BY <2>1, <2>2, <2>3, <3>1
  <2>4. CASE ~QueueHasRoom
    <3>1. timerQueue' = timerQueue
      BY <1>11, <2>4 DEF ScheduleReconnect, PostCommand
    <3> QED
      BY <2>1, <2>2, <2>4, <3>1, SameQueue
  <2> QED
    BY <2>3, <2>4
<1>12. CASE SetConnected \/ Resubscribe \/ CallConnectedHandler \/ ClearConnected
  <2>1. timerQueue' = timerQueue
        /\ UNCHANGED <<client, reconnectReq, armed, cbpc, armFailed>>
    BY <1>12 DEF SetConnected, Resubscribe, CallConnectedHandler, ClearConnected
  <2>2. hpc # "idle" /\ hpc' # "c_stop"
    BY <1>12 DEF SetConnected, Resubscribe, CallConnectedHandler, ClearConnected
  <2>3. ~(client = "waiting" /\ hpc' = "idle")
    BY <1>12 DEF SetConnected, Resubscribe, CallConnectedHandler, ClearConnected,
                 FlagInv
  <2> QED
    BY <2>1, <2>2, <2>3, SameQueue
<1>13. CASE \/ LinkStabilises \/ SubscribeStep \/ SetConnectedHandler
            \/ \E t \in Topics : SubscribeStore(t)
            \/ UNCHANGED vars
  <2>1. UNCHANGED NeutralVars
    BY <1>13, NeutralSteps
  <2> QED
    BY <2>1, SameQueue DEF NeutralVars
<1> QED
  BY <1>1, <1>2, <1>3, <1>4, <1>5, <1>6, <1>7, <1>8, <1>9, <1>10, <1>11, <1>12,
     <1>13
  DEF Next, ClientStep, TimerStep, HandlerStep

------------------------------------------------------------------------------
\* What the command queue holds, and in which order.
LEMMA QueueStep ==
    TypeOK /\ FlagInv /\ ReconnectInv /\ QueueInv /\ [Next]_vars => QueueInv'
<1> SUFFICES ASSUME TypeOK, FlagInv, ReconnectInv, QueueInv, [Next]_vars
             PROVE  QueueInv'
  OBVIOUS
<1> USE DEF externalVars, handlerVars, timerVars, historyVars, appVars,
            managerVars
<1>len. Len(timerQueue) \in Nat
  BY DEF TypeOK
<1>1. ASSUME NEW cmd \in Commands, PostCommand(cmd),
             cmd # "other" => ~Queued("change"), cmd = "stop" => ~Queued("stop"),
             cmd = "other" => OtherTimers
      PROVE  QueueInv'
  <2>1. \A i \in 1..Len(timerQueue)' :
            \/ i \in 1..Len(timerQueue) /\ timerQueue'[i] = timerQueue[i]
            \/ i = Len(timerQueue) + 1 /\ timerQueue'[i] = cmd
    BY <1>1, PostQueued
  <2>2. ASSUME NEW i \in 1..Len(timerQueue)', NEW j \in 1..Len(timerQueue)',
               i < j, timerQueue'[i] = "change"
        PROVE  timerQueue'[j] = "other"
    BY <1>1, <1>len, <2>1, <2>2 DEF QueueInv, Queued
  <2>3. ASSUME NEW i \in 1..Len(timerQueue)', NEW j \in 1..Len(timerQueue)',
               timerQueue'[i] = "stop", timerQueue'[j] = "stop"
        PROVE  i = j
    BY <1>1, <1>len, <2>1, <2>3 DEF QueueInv, Queued
  <2>4. ~OtherTimers => ~Queued("other")'
    BY <1>1, PostQueued DEF QueueInv
  <2> QED
    BY <2>2, <2>3, <2>4 DEF QueueInv
<1>2. CASE TimerCommand
  <2>1. timerQueue # <<>> /\ timerQueue' = Tail(timerQueue)
    BY <1>2 DEF TimerCommand
  <2>2. \A i \in 1..Len(timerQueue)' :
            i + 1 \in 1..Len(timerQueue) /\ timerQueue'[i] = timerQueue[i + 1]
    BY <2>1, TailQueued
  <2>3. Len(timerQueue)' \in Nat
    BY <2>1 DEF TypeOK
  <2>4. \A i, j \in 1..Len(timerQueue)' : i < j => i + 1 < j + 1
    BY <2>3
  <2>5. ~Queued("other") => ~Queued("other")'
    BY <2>1, TailQueued
  <2>6. \A i, j \in 1..Len(timerQueue)' : i + 1 = j + 1 => i = j
    BY <2>3
  <2>7. ASSUME NEW i \in 1..Len(timerQueue)', NEW j \in 1..Len(timerQueue)',
               i < j, timerQueue'[i] = "change"
        PROVE  timerQueue'[j] = "other"
    BY <2>2, <2>4, <2>7 DEF QueueInv
  <2>8. ASSUME NEW i \in 1..Len(timerQueue)', NEW j \in 1..Len(timerQueue)',
               timerQueue'[i] = "stop", timerQueue'[j] = "stop"
        PROVE  i = j
    BY <2>2, <2>6, <2>8 DEF QueueInv
  <2> QED
    BY <2>5, <2>7, <2>8 DEF QueueInv
<1>3. CASE OtherTimerCommand
  BY <1>1, <1>3 DEF OtherTimerCommand
<1>4. CASE StopTimer
  <2>1. ~Queued("change") /\ ~Queued("stop") /\ PostCommand("stop")
    BY <1>4 DEF StopTimer, FlagInv, ReconnectInv, ReconnectPending, WaitingIdle
  <2> QED
    BY <1>1, <2>1
<1>5. CASE ScheduleReconnect
  <2>1. ~Queued("change") /\ PostCommand("change")
    BY <1>5 DEF ScheduleReconnect, ReconnectInv, ReconnectPending, WaitingIdle
  <2> QED
    BY <1>1, <2>1
<1>6. CASE timerQueue' = timerQueue
  BY <1>6 DEF QueueInv, Queued
<1>7. ASSUME ClientStep \/ LinkFailure \/ TimerExpire \/ CallbackCheck
                        \/ CallbackReconnect
      PROVE  timerQueue' = timerQueue
  BY <1>7 DEF ClientStep, StartClient, ConnectOk, ClientResume, LinkFailure,
     ConnectFail, ConnectionLost, Disconnect, TimerExpire, CallbackCheck,
     CallbackReconnect
<1>8. ASSUME \/ SetConnected \/ Resubscribe \/ CallConnectedHandler
             \/ ClearConnected
      PROVE  timerQueue' = timerQueue
  BY <1>8 DEF SetConnected, Resubscribe, CallConnectedHandler, ClearConnected
<1>9. ASSUME \/ LinkStabilises \/ SubscribeStep \/ SetConnectedHandler
             \/ \E t \in Topics : SubscribeStore(t)
             \/ UNCHANGED vars
      PROVE  timerQueue' = timerQueue
  BY <1>9, NeutralSteps DEF NeutralVars
<1> QED
  BY <1>2, <1>3, <1>4, <1>5, <1>6, <1>7, <1>8, <1>9
  DEF Next, TimerStep, HandlerStep

\* Two places are enough when nobody else uses the queue: when the handler
\* schedules a reconnect, at most the stop of the last connection is queued.
LEMMA RoomToSchedule ==
    ASSUME TypeOK, ReconnectInv, QueueInv, hpc = "d_schedule",
           ~OtherTimers, TIMER_QUEUE_LEN >= 2
    PROVE  QueueHasRoom
<1>1. ~Queued("change") /\ ~Queued("other")
  BY DEF ReconnectInv, ReconnectPending, WaitingIdle, QueueInv
<1>2. \A i \in 1..Len(timerQueue) : timerQueue[i] = "stop"
  BY <1>1 DEF TypeOK, Queued
<1>3. \A i, j \in 1..Len(timerQueue) : i = j
  BY <1>2 DEF QueueInv
<1>4. Len(timerQueue) \in Nat
  BY DEF TypeOK
<1>5. ~(1 \in 1..Len(timerQueue) /\ 2 \in 1..Len(timerQueue))
  BY <1>3
<1> QED
  BY <1>4, <1>5, TimerQueueAssumption DEF QueueHasRoom

LEMMA AbandonStep ==
    TypeOK /\ ReconnectInv /\ QueueInv /\ NeverAbandoned /\ [Next]_vars
        => NeverAbandoned'
<1> SUFFICES ASSUME TypeOK, ReconnectInv, QueueInv, NeverAbandoned, [Next]_vars,
                    ~OtherTimers, TIMER_QUEUE_LEN >= 2
             PROVE  ~armFailed'
  BY DEF NeverAbandoned
<1> USE DEF externalVars, handlerVars, timerVars, historyVars, appVars,
            managerVars
<1>1. CASE ScheduleReconnect
  BY <1>1, RoomToSchedule DEF ScheduleReconnect
<1>2. CASE \/ ClientStep \/ LinkFailure \/ TimerStep \/ OtherTimerCommand
           \/ StopTimer \/ SetConnected \/ Resubscribe \/ ClearConnected
           \/ CallConnectedHandler
  <2>1. armFailed' = armFailed
    BY <1>2 DEF ClientStep, StartClient, ConnectOk, ClientResume, LinkFailure,
       ConnectFail, ConnectionLost, Disconnect, TimerStep, TimerCommand,
       TimerExpire, CallbackCheck, CallbackReconnect, OtherTimerCommand,
       StopTimer, SetConnected, Resubscribe, ClearConnected, CallConnectedHandler
  <2> QED
    BY <2>1 DEF NeverAbandoned
<1>3. CASE \/ LinkStabilises \/ SubscribeStep \/ SetConnectedHandler
           \/ \E t \in Topics : SubscribeStore(t)
           \/ UNCHANGED vars
  BY <1>3, NeutralSteps DEF NeutralVars, NeverAbandoned
<1> QED
  BY <1>1, <1>2, <1>3 DEF Next, HandlerStep

------------------------------------------------------------------------------
\* No stored topic falls between a subscribe call and the re-subscription.
LEMMA ResubscribeStep ==
    TypeOK /\ FlagInv /\ SubscribeInv /\ [Next]_vars => SubscribeInv'
<1> SUFFICES ASSUME TypeOK, FlagInv, SubscribeInv, [Next]_vars
             PROVE  SubscribeInv'
  OBVIOUS
<1> USE DEF externalVars, handlerVars, timerVars, historyVars, appVars,
            managerVars, StoredTopicsSubscribed, Reached, Subscribing
\* A step that leaves the table, the session and the caller alone, and does not
\* finish a connection, changes nothing here.
<1>1. ASSUME UNCHANGED <<session, refused, s_subscriptions, apc, atopic, resubIdx>>,
             hpc' = "c_resub" => hpc = "c_resub",
             client' = "connected" /\ hpc' \in {"c_callback", "idle"} =>
                 client = "connected" /\ hpc \in {"c_callback", "idle"}
      PROVE  SubscribeInv'
  BY <1>1 DEF SubscribeInv
<1>2. CASE StartClient \/ ClientResume \/ LinkFailure \/ LinkStabilises
  BY <1>1, <1>2 DEF StartClient, ClientResume, LinkFailure, ConnectFail,
     ConnectionLost, Disconnect, LinkStabilises
<1>3. CASE ConnectOk
  BY <1>3 DEF ConnectOk, SubscribeInv
<1>4. CASE TimerStep \/ OtherTimerCommand \/ SetConnectedHandler
  BY <1>1, <1>4 DEF TimerStep, TimerCommand, TimerExpire, CallbackCheck,
     CallbackReconnect, OtherTimerCommand, SetConnectedHandler
<1>5. CASE StopTimer
  BY <1>1, <1>5 DEF StopTimer
<1>6. CASE SetConnected
  <2>1. \A i \in 1..Len(s_subscriptions) : ~(i < 1)
    BY DEF TypeOK
  <2> QED
    BY <1>6, <2>1 DEF SetConnected, SubscribeInv
<1>7. CASE Resubscribe
  <2>1. UNCHANGED <<client, s_subscriptions, apc, atopic>>
    BY <1>7 DEF Resubscribe
  <2>2. CASE resubIdx <= Len(s_subscriptions)
    <3>1. hpc' = "c_resub" /\ resubIdx' = resubIdx + 1
          /\ SubscribeSingle(s_subscriptions[resubIdx])
      BY <1>7, <2>2 DEF Resubscribe, TypeOK
    <3>2. /\ session \subseteq session' /\ refused \subseteq refused'
          /\ s_subscriptions[resubIdx] \in session' \cup refused'
      BY <3>1 DEF SubscribeSingle
    <3>3. \A i \in 1..Len(s_subscriptions) : i < resubIdx + 1 => i < resubIdx \/ i = resubIdx
      BY DEF TypeOK
    <3> QED
      BY <1>7, <2>1, <3>1, <3>2, <3>3 DEF SubscribeInv, Resubscribe
  <2>3. CASE resubIdx > Len(s_subscriptions)
    <3>1. \A i \in 1..Len(s_subscriptions) : i < resubIdx
      BY <2>3 DEF TypeOK
    <3>2. UNCHANGED <<session, refused>> /\ hpc' = "c_callback"
      BY <1>7, <2>3 DEF Resubscribe, TypeOK
    <3> QED
      BY <1>7, <2>1, <3>1, <3>2 DEF SubscribeInv, Resubscribe
  <2> QED
    BY <2>2, <2>3 DEF TypeOK
<1>8. CASE ClearConnected \/ ScheduleReconnect
  BY <1>1, <1>8 DEF ClearConnected, ScheduleReconnect, FlagInv
<1>9. CASE CallConnectedHandler
  BY <1>1, <1>9, FlagStep DEF CallConnectedHandler, FlagInv
<1>10. CASE \E t \in Topics : SubscribeStore(t)
  <2> PICK t \in Topics : SubscribeStore(t)
    BY <1>10
  <2>1. /\ UNCHANGED <<client, session, refused, hpc, resubIdx>>
        /\ apc = "idle" /\ apc' = "check" /\ atopic' = t
    BY DEF SubscribeStore
  <2>2. \A i \in 1..Len(s_subscriptions') :
            \/ i \in 1..Len(s_subscriptions) /\ s_subscriptions'[i] = s_subscriptions[i]
            \/ s_subscriptions'[i] = t
    BY DEF SubscribeStore, TypeOK
  <2> QED
    BY <2>1, <2>2 DEF SubscribeInv
<1>11. CASE SubscribeCheck
  <2>1. UNCHANGED <<client, session, refused, hpc, resubIdx, s_subscriptions, atopic>>
        /\ apc = "check" /\ apc' = IF s_connected THEN "send" ELSE "idle"
    BY <1>11 DEF SubscribeCheck
  <2> QED
    BY <2>1 DEF SubscribeInv, FlagInv
<1>12. CASE SubscribeSend
  <2>1. /\ UNCHANGED <<client, hpc, resubIdx, s_subscriptions, atopic>>
        /\ hpc = "idle" /\ apc' = "idle"
    BY <1>12 DEF SubscribeSend, ApiLockHeld
  <2>2. client = "connected" =>
            /\ session \subseteq session' /\ refused \subseteq refused'
            /\ atopic \in session' \cup refused'
    BY <1>12 DEF SubscribeSend, SubscribeSingle
  <2> QED
    BY <2>1, <2>2 DEF SubscribeInv
<1>13. CASE UNCHANGED vars
  BY <1>1, <1>13, Unchanged
<1> QED
  BY <1>2, <1>3, <1>4, <1>5, <1>6, <1>7, <1>8, <1>9, <1>10, <1>11, <1>12, <1>13
  DEF Next, ClientStep, HandlerStep, SubscribeStep

------------------------------------------------------------------------------
(* The theorems *)

LEMMA PowerOnIndInv == PowerOn => IndInv
<1> SUFFICES ASSUME PowerOn PROVE IndInv
  OBVIOUS
<1>1. Len(timerQueue) = 0 /\ Len(s_subscriptions) = 0
  BY DEF PowerOn
<1>2. \A c : ~Queued(c)
  BY <1>1 DEF Queued
<1>3. FlagInv /\ NeverAbandoned
  BY DEF PowerOn, FlagInv, NeverAbandoned
<1>4. ReconnectInv
  BY <1>2 DEF PowerOn, ReconnectInv, ReconnectPending, WaitingIdle
<1>5. QueueInv
  BY <1>1, <1>2 DEF QueueInv
<1>6. SubscribeInv
  BY <1>1 DEF PowerOn, SubscribeInv, StoredTopicsSubscribed
<1> QED
  BY <1>3, <1>4, <1>5, <1>6 DEF IndInv

LEMMA IndInvStep == TypeOK /\ IndInv /\ [Next]_vars => IndInv'
BY FlagStep, ReconnectStep, QueueStep, AbandonStep, ResubscribeStep DEF IndInv

\* The inductive invariant holds in every reachable state.
THEOREM IndInvHolds == Spec => []IndInv
<1>1. Init => IndInv
  BY PowerOnIndInv DEF Init
<1> QED
  BY <1>1, IndInvStep, TypeCorrect, PTL DEF Spec

\* "Only one CONNECT is ever in flight": the command queue, the timer, its
\* callback and the client never hold two requests for a CONNECT, nor one that
\* outlives the wait it was made for.
THEOREM OneConnect == Spec => []OneConnectInFlight
<1>1. TypeOK /\ IndInv => OneConnectInFlight
  <2> SUFFICES ASSUME TypeOK, ReconnectInv, QueueInv PROVE OneConnectInFlight
    BY DEF IndInv
  <2>1. ASSUME NEW i \in 1..Len(timerQueue), NEW j \in 1..Len(timerQueue),
               timerQueue[i] = "change", timerQueue[j] = "change"
        PROVE  i = j
    BY <2>1 DEF QueueInv, TypeOK
  <2> QED
    BY <2>1 DEF OneConnectInFlight, ReconnectInv
<1> QED
  BY <1>1, TypeCorrect, IndInvHolds, PTL

\* A client that waits gets its reconnect: a source is pending and no stop can
\* cancel it, unless the queue was full when the timer should have been armed.
THEOREM NoReconnectIsLost == Spec => []NoReconnectLost
<1>1. TypeOK /\ IndInv => NoReconnectLost
  <2> SUFFICES ASSUME TypeOK, ReconnectInv, QueueInv, WaitingIdle, ~armFailed
               PROVE  /\ ReconnectPending
                      /\ \A i \in 1..Len(timerQueue) :
                             timerQueue[i] = "stop" =>
                                 \E j \in i+1..Len(timerQueue) : timerQueue[j] = "change"
    BY DEF IndInv, NoReconnectLost
  <2>1. ReconnectPending
    BY DEF ReconnectInv
  <2>2. ASSUME NEW i \in 1..Len(timerQueue), timerQueue[i] = "stop"
        PROVE  \E j \in i+1..Len(timerQueue) : timerQueue[j] = "change"
    <3>1. Queued("stop")
      BY <2>2 DEF Queued
    <3>2. Queued("change")
      BY <2>1, <3>1 DEF ReconnectInv, ReconnectPending
    <3> PICK j \in 1..Len(timerQueue) : timerQueue[j] = "change"
      BY <3>2 DEF Queued
    <3>3. ~(j < i) /\ j # i
      BY <2>2 DEF QueueInv
    <3>4. j \in i+1..Len(timerQueue)
      BY <3>3 DEF TypeOK
    <3> QED
      BY <3>4
  <2> QED
    BY <2>1, <2>2
<1> QED
  BY <1>1, TypeCorrect, IndInvHolds, PTL

\* mqtt_client_manager_is_connected tells the truth whenever no event is being
\* handled, and never reports a connection while a CONNECT is under way.
THEOREM FlagIsTruthful == Spec => []FlagTruthful
<1>1. TypeOK /\ IndInv => FlagTruthful
  BY DEF IndInv, FlagInv, FlagTruthful, TypeOK
<1> QED
  BY <1>1, TypeCorrect, IndInvHolds, PTL

\* Every stored topic is covered on every connection, whatever the order of the
\* subscribe call and the CONNECTED handler.
THEOREM TopicsAreSubscribed == Spec => []StoredTopicsSubscribed
<1>1. IndInv => StoredTopicsSubscribed
  BY DEF IndInv, SubscribeInv
<1> QED
  BY <1>1, IndInvHolds, PTL

\* A timer queue of two places that nobody else uses never loses a reconnect.
THEOREM NothingAbandoned == Spec => []NeverAbandoned
<1>1. IndInv => NeverAbandoned
  BY DEF IndInv
<1> QED
  BY <1>1, IndInvHolds, PTL

------------------------------------------------------------------------------
(* Refinement *)

LEMMA LifecycleInit == Init => Lifecycle!Init
BY DEF Init, PowerOn, Lifecycle!Init, Phase

LEMMA LifecycleStep ==
    TypeOK /\ IndInv /\ IndInv' /\ [Next]_vars
        => [Lifecycle!Next]_(Lifecycle!lifecycleVars)
<1> SUFFICES ASSUME TypeOK, FlagInv, ReconnectInv, QueueInv, FlagInv',
                    ReconnectInv', [Next]_vars
             PROVE  Lifecycle!Next \/ UNCHANGED <<Phase, s_connected>>
  BY DEF IndInv, Lifecycle!lifecycleVars
<1> USE DEF externalVars, handlerVars, timerVars, historyVars, appVars,
            managerVars, Lifecycle!Next, Lifecycle!Move
<1>1. CASE StartClient
  BY <1>1 DEF StartClient, Phase, Lifecycle!Start
<1>2. CASE ConnectOk
  BY <1>2 DEF ConnectOk, Phase, Lifecycle!Accept
<1>3. CASE ConnectFail
  BY <1>3 DEF ConnectFail, Disconnect, Phase, Lifecycle!Fail
<1>4. CASE ConnectionLost
  BY <1>4 DEF ConnectionLost, Disconnect, Phase, Lifecycle!Break
<1>5. CASE ClientResume
  <2>1. ~armFailed
    BY <1>5 DEF ClientResume, AutoReconnect, ReconnectInv, ReconnectPending
  <2> QED
    BY <1>5, <2>1 DEF ClientResume, Phase, Lifecycle!Retry
<1>6. CASE SetConnected
  BY <1>6 DEF SetConnected, FlagInv, Phase, Lifecycle!Report
<1>7. CASE ClearConnected
  BY <1>7 DEF ClearConnected, FlagInv, Phase, Lifecycle!Withdraw
<1>8. CASE ScheduleReconnect
  <2>1. client = "waiting" /\ client' = client /\ hpc = "d_schedule" /\ hpc' = "idle"
        /\ s_connected' = s_connected /\ armFailed' = ~QueueHasRoom
    BY <1>8 DEF ScheduleReconnect, FlagInv
  <2>2. CASE QueueHasRoom
    BY <2>1, <2>2 DEF Phase, Lifecycle!Wait
  <2>3. CASE ~QueueHasRoom
    <3>1. OtherTimers \/ TIMER_QUEUE_LEN < 2
      BY <2>1, <2>3, RoomToSchedule, TimerQueueAssumption
    <3> QED
      BY <2>1, <2>3, <3>1 DEF Phase, Lifecycle!Abandon
  <2> QED
    BY <2>2, <2>3
<1>9. CASE StopTimer \/ Resubscribe \/ CallConnectedHandler
  <2>1. client = "connected" /\ client' = client /\ s_connected' = s_connected
    BY <1>9 DEF StopTimer, Resubscribe, CallConnectedHandler, FlagInv
  <2>2. hpc \in {"c_stop", "c_flag"} <=> hpc' \in {"c_stop", "c_flag"}
    BY <1>9 DEF StopTimer, Resubscribe, CallConnectedHandler
  <2> QED
    BY <2>1, <2>2 DEF Phase
<1>10. CASE TimerStep \/ OtherTimerCommand
  <2>1. UNCHANGED <<client, hpc, armFailed, s_connected>>
    BY <1>10 DEF TimerStep, TimerCommand, TimerExpire, CallbackCheck,
                 CallbackReconnect, OtherTimerCommand
  <2> QED
    BY <2>1 DEF Phase
<1>11. CASE \/ LinkStabilises \/ SubscribeStep \/ SetConnectedHandler
            \/ \E t \in Topics : SubscribeStore(t)
            \/ UNCHANGED vars
  <2>1. UNCHANGED <<client, hpc, armFailed, s_connected>>
    BY <1>11, NeutralSteps, Unchanged
    DEF NeutralVars, LinkStabilises, SubscribeStep, SubscribeCheck,
        SubscribeSend, SetConnectedHandler, SubscribeStore
  <2> QED
    BY <2>1 DEF Phase
<1> QED
  BY <1>1, <1>2, <1>3, <1>4, <1>5, <1>6, <1>7, <1>8, <1>9, <1>10, <1>11
  DEF Next, ClientStep, LinkFailure, HandlerStep

\* The manager implements the connection life cycle its header promises.
THEOREM Refinement == Spec => ImplementsLifecycle
<1>1. Spec => Lifecycle!Init
  BY LifecycleInit DEF Spec
<1> QED
  BY <1>1, LifecycleStep, TypeCorrect, IndInvHolds, PTL
  DEF Spec, ImplementsLifecycle, Lifecycle!Spec

------------------------------------------------------------------------------
(* The backoff *)

\* The delay reaches its maximum before the exponent its cap, and the exponent its
\* cap before the counter saturates: 2000 * 2^5 >= 60000 and 5 <= 255 in the code.
\* What a power is, the provers know of numerals only, hence the bound.
BackoffReachesMax ==
    /\ RECONNECT_MAX_EXP \in 0..5 /\ RECONNECT_MAX_EXP <= ATTEMPT_MAX
    /\ RECONNECT_BASE_MS * 2^RECONNECT_MAX_EXP >= RECONNECT_MAX_MS

Doubled(d) == IF 2 * d > RECONNECT_MAX_MS THEN RECONNECT_MAX_MS ELSE 2 * d

LEMMA PowersOfTwo ==
    ASSUME NEW n \in 0..5
    PROVE  2^n \in Nat \ {0} /\ (n < 5 => 2^(n + 1) = 2 * 2^n)
<1>1. CASE n = 0
  BY <1>1
<1>2. CASE n = 1
  BY <1>2
<1>3. CASE n = 2
  BY <1>3
<1>4. CASE n = 3
  BY <1>4
<1>5. CASE n = 4
  BY <1>5
<1>6. CASE n = 5
  BY <1>6
<1> QED
  BY <1>1, <1>2, <1>3, <1>4, <1>5, <1>6

LEMMA DelaysDouble ==
    ASSUME BackoffReachesMax, NEW a \in Nat
    PROVE  /\ ReconnectDelay(0) = RECONNECT_BASE_MS
           /\ ReconnectDelay(a) \in Nat \ {0}
           /\ ReconnectDelay(a + 1) = Doubled(ReconnectDelay(a))
           /\ a >= RECONNECT_MAX_EXP
                  => ReconnectDelay(a) = Doubled(ReconnectDelay(a))
<1> USE BackoffAssumption DEF BackoffReachesMax
<1> DEFINE Base(n) == RECONNECT_BASE_MS * 2^n
<1>1. \A n \in 0..5 : Base(n) \in Nat \ {0}
  <2>1. \A p \in Nat \ {0} : RECONNECT_BASE_MS * p \in Nat \ {0}
    OBVIOUS
  <2> QED
    BY <2>1, PowersOfTwo
<1>2. ASSUME NEW n \in 0..5, n < 5 PROVE Base(n + 1) = 2 * Base(n)
  <2>1. \A p \in Nat : RECONNECT_BASE_MS * (2 * p) = 2 * (RECONNECT_BASE_MS * p)
    OBVIOUS
  <2> QED
    BY <1>2, <2>1, PowersOfTwo
<1>3. Base(0) = RECONNECT_BASE_MS
  BY DEF Base
<1>4. \A n \in Nat :
          ReconnectDelay(n) =
              LET base == Base(IF n < RECONNECT_MAX_EXP THEN n ELSE RECONNECT_MAX_EXP)
              IN  IF base > RECONNECT_MAX_MS THEN RECONNECT_MAX_MS ELSE base
  BY DEF ReconnectDelay
<1>5. Base(RECONNECT_MAX_EXP) >= RECONNECT_MAX_MS
  OBVIOUS
<1> HIDE DEF Base
<1>6. ReconnectDelay(0) = RECONNECT_BASE_MS
  BY <1>1, <1>3, <1>4, <1>5
<1>7. ASSUME a >= RECONNECT_MAX_EXP
      PROVE  /\ ReconnectDelay(a) = RECONNECT_MAX_MS
             /\ ReconnectDelay(a + 1) = RECONNECT_MAX_MS
  BY <1>1, <1>4, <1>5, <1>7
<1>8. ASSUME a < RECONNECT_MAX_EXP
      PROVE  /\ ReconnectDelay(a) \in Nat \ {0}
             /\ ReconnectDelay(a + 1) = Doubled(ReconnectDelay(a))
  <2>1. /\ a \in 0..5 /\ a < 5 /\ Base(a) \in Nat \ {0} /\ Base(a + 1) = 2 * Base(a)
        /\ a + 1 \in Nat
    BY <1>1, <1>2, <1>8
  <2>2. Base(IF a + 1 < RECONNECT_MAX_EXP THEN a + 1 ELSE RECONNECT_MAX_EXP) = Base(a + 1)
    <3>1. (IF a + 1 < RECONNECT_MAX_EXP THEN a + 1 ELSE RECONNECT_MAX_EXP) = a + 1
      BY <1>8
    <3> QED
      BY <3>1
  <2> QED
    BY <1>4, <1>8, <2>1, <2>2 DEF Doubled
<1> QED
  BY <1>6, <1>7, <1>8 DEF Doubled

\* The delay is that of the attempt before, or that of a saturated counter.  While
\* CONNECTED is handled the counter is about to follow the delay to 0.
BackoffInv ==
    /\ hpc = "c_stop" => delay = 0
    /\ hpc # "c_stop" =>
           \/ delay = 0 /\ s_reconnect_attempt = 0
           \/ delay = ReconnectDelay(s_reconnect_attempt - 1) /\ s_reconnect_attempt > 0
           \/ delay = ReconnectDelay(ATTEMPT_MAX) /\ s_reconnect_attempt = ATTEMPT_MAX

\* Only a connection, its CONNECTED event and schedule_reconnect concern the backoff.
LEMMA BackoffSteps ==
    ASSUME [Next]_vars, FlagInv,
           ~ConnectOk, ~StopTimer, ~ScheduleReconnect
    PROVE  /\ UNCHANGED <<delay, s_reconnect_attempt>>
           /\ hpc' = "c_stop" <=> hpc = "c_stop"
           /\ ~(hpc = "d_schedule" /\ hpc' = "idle")
<1> USE DEF externalVars, handlerVars, timerVars, historyVars, appVars, managerVars
<1>1. CASE StartClient \/ ClientResume \/ LinkStabilises
  BY <1>1 DEF StartClient, ClientResume, LinkStabilises
<1>2. CASE LinkFailure
  BY <1>2 DEF LinkFailure, ConnectFail, ConnectionLost, Disconnect, FlagInv
<1>3. CASE TimerStep \/ OtherTimerCommand
  BY <1>3 DEF TimerStep, TimerCommand, TimerExpire, CallbackCheck, CallbackReconnect,
              OtherTimerCommand
<1>4. CASE SetConnected \/ Resubscribe \/ ClearConnected \/ CallConnectedHandler
  BY <1>4 DEF SetConnected, Resubscribe, ClearConnected, CallConnectedHandler
<1>5. CASE SubscribeStep \/ SetConnectedHandler \/ \E t \in Topics : SubscribeStore(t)
  BY <1>5 DEF SubscribeStep, SubscribeCheck, SubscribeSend, SetConnectedHandler,
              SubscribeStore
<1>6. CASE UNCHANGED vars
  BY <1>6, Unchanged
<1> QED
  BY <1>1, <1>2, <1>3, <1>4, <1>5, <1>6 DEF Next, ClientStep, HandlerStep

LEMMA BackoffStep ==
    ASSUME BackoffReachesMax, TypeOK, FlagInv, BackoffInv, [Next]_vars
    PROVE  /\ BackoffInv'
           /\ hpc = "d_schedule" /\ hpc' = "idle" =>
                  delay' = IF delay = 0 THEN RECONNECT_BASE_MS ELSE Doubled(delay)
<1> USE BackoffAssumption
<1> s_reconnect_attempt \in 0..ATTEMPT_MAX
  BY DEF TypeOK
<1>1. CASE ConnectOk
  BY <1>1 DEF ConnectOk, BackoffInv
<1>2. CASE StopTimer
  BY <1>2 DEF StopTimer, BackoffInv, historyVars
<1>3. CASE ScheduleReconnect
  <2>1. /\ hpc = "d_schedule" /\ hpc' = "idle"
        /\ delay' = ReconnectDelay(s_reconnect_attempt)
        /\ s_reconnect_attempt' = IF s_reconnect_attempt < ATTEMPT_MAX
                                  THEN s_reconnect_attempt + 1 ELSE ATTEMPT_MAX
    BY <1>3 DEF ScheduleReconnect, NextAttempt
  <2>2. BackoffInv'
    BY <2>1 DEF BackoffInv
  <2>3. CASE delay = 0 /\ s_reconnect_attempt = 0
    BY <2>1, <2>2, <2>3, DelaysDouble
  <2>4. CASE delay = ReconnectDelay(s_reconnect_attempt - 1) /\ s_reconnect_attempt > 0
    <3>1. s_reconnect_attempt - 1 \in Nat
          /\ (s_reconnect_attempt - 1) + 1 = s_reconnect_attempt
      BY <2>4
    <3>2. delay \in Nat \ {0} /\ delay' = Doubled(delay)
      BY <2>1, <2>4, <3>1, DelaysDouble
    <3> QED
      BY <2>2, <3>2
  <2>5. CASE delay = ReconnectDelay(ATTEMPT_MAX) /\ s_reconnect_attempt = ATTEMPT_MAX
    <3>1. delay \in Nat \ {0} /\ delay = Doubled(delay)
      BY <2>5, DelaysDouble DEF BackoffReachesMax
    <3> QED
      BY <2>1, <2>2, <2>5, <3>1
  <2> QED
    BY <2>1, <2>3, <2>4, <2>5 DEF BackoffInv
<1>4. CASE ~ConnectOk /\ ~StopTimer /\ ~ScheduleReconnect
  BY <1>4, BackoffSteps DEF BackoffInv
<1> QED
  BY <1>1, <1>2, <1>3, <1>4

\* With the exponent of the code the delay doubles up to its maximum, starting again
\* after each connection, for any number of failures in a row.
THEOREM BackoffIsDoubled == ASSUME BackoffReachesMax PROVE Spec => BackoffDoubles
<1>1. Init => BackoffInv
  BY DEF Init, PowerOn, BackoffInv
<1>2. TypeOK /\ IndInv /\ BackoffInv /\ [Next]_vars => BackoffInv'
  BY BackoffStep DEF IndInv
<1>3. TypeOK /\ IndInv /\ BackoffInv /\ [Next]_vars =>
          [hpc = "d_schedule" /\ hpc' = "idle" =>
               delay' = CASE delay = 0 -> RECONNECT_BASE_MS
                          [] 2 * delay > RECONNECT_MAX_MS -> RECONNECT_MAX_MS
                          [] OTHER -> 2 * delay]_vars
  <2> SUFFICES ASSUME TypeOK, IndInv, BackoffInv, [Next]_vars,
                      hpc = "d_schedule", hpc' = "idle"
               PROVE  delay' = CASE delay = 0 -> RECONNECT_BASE_MS
                                 [] 2 * delay > RECONNECT_MAX_MS -> RECONNECT_MAX_MS
                                 [] OTHER -> 2 * delay
    OBVIOUS
  <2>1. delay' = IF delay = 0 THEN RECONNECT_BASE_MS ELSE Doubled(delay)
    BY BackoffStep DEF IndInv
  <2>2. delay = 0 => ~(2 * delay > RECONNECT_MAX_MS)
    BY BackoffAssumption
  <2> QED
    BY <2>1, <2>2 DEF Doubled
<1> QED
  BY <1>1, <1>2, <1>3, TypeCorrect, IndInvHolds, PTL DEF Spec, BackoffDoubles

------------------------------------------------------------------------------
(* Online for good *)

\* The stored topics are sent on this connection, or about to be.
Served ==
    \A i \in 1..Len(s_subscriptions) :
        Reached(s_subscriptions[i]) \/ Subscribing(s_subscriptions[i])
Online == linkStable /\ client = "connected" /\ s_connected /\ Served

\* A call of the application that stores a topic goes on to send it.
LEMMA ServedStep ==
    ASSUME TypeOK, FlagInv, Online, [Next]_vars, client' = "connected"
    PROVE  Served'
<1> USE DEF Online, Served, Reached, Subscribing, externalVars, handlerVars, timerVars,
            historyVars, appVars, managerVars
<1>1. ASSUME NEW t \in Topics, SubscribeStore(t) PROVE Served'
  <2>1. /\ apc' # "idle" /\ atopic' = t /\ apc = "idle"
        /\ UNCHANGED <<session, refused>>
    BY <1>1 DEF SubscribeStore
  <2>2. CASE s_subscriptions' = s_subscriptions
    BY <2>1, <2>2
  <2>3. CASE s_subscriptions' = Append(s_subscriptions, t)
    <3>1. /\ Len(s_subscriptions') = Len(s_subscriptions) + 1
          /\ \A i \in 1..Len(s_subscriptions') :
                 s_subscriptions'[i] = IF i <= Len(s_subscriptions)
                                       THEN s_subscriptions[i] ELSE t
      BY <2>3 DEF TypeOK
    <3>2. ASSUME NEW i \in 1..Len(s_subscriptions')
          PROVE  Reached(s_subscriptions[i])' \/ Subscribing(s_subscriptions[i])'
      <4>1. CASE i <= Len(s_subscriptions)
        <5>1. s_subscriptions'[i] = s_subscriptions[i] /\ i \in 1..Len(s_subscriptions)
          BY <3>1, <3>2, <4>1
        <5>2. Reached(s_subscriptions[i])
          BY <2>1, <5>1
        <5> QED
          BY <2>1, <5>1, <5>2
      <4>2. CASE ~(i <= Len(s_subscriptions))
        <5>1. s_subscriptions'[i] = t
          BY <3>1, <3>2, <4>2
        <5> QED
          BY <2>1, <5>1
      <4> QED
        BY <4>1, <4>2
    <3> QED
      BY <3>2
  <2> QED
    BY <1>1, <2>2, <2>3 DEF SubscribeStore
<1>2. CASE SubscribeSend
  <2>1. SubscribeSingle(atopic) /\ UNCHANGED s_subscriptions
    BY <1>2 DEF SubscribeSend
  <2>2. /\ session \subseteq session' /\ refused \subseteq refused'
        /\ atopic \in session' \cup refused'
    BY <2>1 DEF SubscribeSingle
  <2> QED
    BY <2>1, <2>2
<1>3. CASE SubscribeCheck
  <2>1. apc' # "idle" /\ UNCHANGED <<atopic, session, refused, s_subscriptions>>
    BY <1>3 DEF SubscribeCheck
  <2> QED
    BY <2>1
<1>4. CASE Resubscribe
  <2>1. /\ session \subseteq session' /\ refused \subseteq refused'
        /\ UNCHANGED <<apc, atopic, s_subscriptions>>
    BY <1>4 DEF Resubscribe, SubscribeSingle
  <2> QED
    BY <2>1
<1>5. CASE \/ StopTimer \/ SetConnected \/ ClearConnected \/ ScheduleReconnect
           \/ CallConnectedHandler \/ SetConnectedHandler
  <2>1. UNCHANGED <<session, refused, apc, atopic, s_subscriptions>>
    BY <1>5 DEF StopTimer, SetConnected, ClearConnected, ScheduleReconnect,
                CallConnectedHandler, SetConnectedHandler
  <2> QED
    BY <2>1
<1>6. CASE ClientStep \/ LinkFailure \/ LinkStabilises
  BY <1>6 DEF ClientStep, StartClient, ConnectOk, ClientResume, LinkFailure,
              ConnectFail, ConnectionLost, Disconnect, LinkStabilises
<1>7. CASE TimerStep \/ OtherTimerCommand \/ UNCHANGED vars
  <2>1. UNCHANGED <<session, refused, apc, atopic, s_subscriptions>>
    BY <1>7, Unchanged DEF TimerStep, TimerCommand, TimerExpire, CallbackCheck,
                           CallbackReconnect, OtherTimerCommand
  <2> QED
    BY <2>1
<1> QED
  BY <1>1, <1>2, <1>3, <1>4, <1>5, <1>6, <1>7 DEF Next, HandlerStep, SubscribeStep

LEMMA OnlineStep == TypeOK /\ FlagInv /\ Online /\ [Next]_vars => Online'
<1> SUFFICES ASSUME TypeOK, FlagInv, Online, [Next]_vars PROVE Online'
  OBVIOUS
<1>1. linkStable' /\ client' = "connected" /\ s_connected'
  <2> USE DEF Online, externalVars, handlerVars, timerVars, historyVars, appVars,
              managerVars
  <2>1. CASE ClientStep \/ LinkFailure \/ LinkStabilises
    BY <2>1 DEF ClientStep, StartClient, ConnectOk, ClientResume, LinkFailure,
                ConnectFail, ConnectionLost, Disconnect, LinkStabilises
  <2>2. CASE TimerStep \/ OtherTimerCommand \/ UNCHANGED vars
    BY <2>2, Unchanged DEF TimerStep, TimerCommand, TimerExpire, CallbackCheck,
                           CallbackReconnect, OtherTimerCommand
  <2>3. CASE HandlerStep \/ CallConnectedHandler
    BY <2>3 DEF HandlerStep, StopTimer, SetConnected, Resubscribe, ClearConnected,
                ScheduleReconnect, CallConnectedHandler, FlagInv
  <2>4. CASE \/ SubscribeStep \/ SetConnectedHandler
             \/ \E t \in Topics : SubscribeStore(t)
    BY <2>4 DEF SubscribeStep, SubscribeCheck, SubscribeSend, SetConnectedHandler,
                SubscribeStore
  <2> QED
    BY <2>1, <2>2, <2>3, <2>4 DEF Next
<1> QED
  BY <1>1, ServedStep DEF Online

\* The safety half of SettlesOnline: once the network holds, a client that is
\* connected with every stored topic sent stays so, whatever is left in the timer's
\* queue or in the course of a subscribe call.
THEOREM OnlineForGood == Spec => [](Online => []Online)
<1>1. Spec => [](TypeOK /\ FlagInv)
  <2>1. IndInv => FlagInv
    BY DEF IndInv
  <2> QED
    BY <2>1, TypeCorrect, IndInvHolds, PTL
<1> QED
  BY <1>1, OnlineStep, PTL DEF Spec

==============================================================================
