-------------------------- MODULE ManagerUsersProofs ---------------------------
(***************************************************************************)
(* Proofs about the modules that add tasks to the manager: MqttPublish,    *)
(* for any number of publishers, and InitPublisher and Boot, for any       *)
(* number of command topics and polls.  A step of theirs is a step of the  *)
(* manager or invisible to it, so what MqttClientManagerProofs proves of   *)
(* the manager's steps holds of them as well; a restart begins anew.       *)
(***************************************************************************)
EXTENDS Boot, MqttPublish, MqttClientManagerProofs, FiniteSetTheorems

(* MqttPublish *)

\* What changes in a step: the manager, or the publishers, or both where one of
\* the manager's steps hands over or delivers messages.
LEMMA PublishManagerStep == [PublishNext]_allVars => [Next]_vars
<1> SUFFICES ASSUME [PublishNext]_allVars PROVE [Next]_vars
  OBVIOUS
<1>1. ASSUME NEW p \in PublisherTasks, PublishStep(p) PROVE UNCHANGED vars
  BY <1>1 DEF PublishStep, Call, CheckConnected, SetProperty, SendMessage
<1>2. CASE HandlerPublishes \/ ConnectAndFlush \/ ManagerOnly
  BY <1>2 DEF HandlerPublishes, ConnectAndFlush, ManagerOnly, Next, ClientStep
<1>3. CASE UNCHANGED allVars
  BY <1>3 DEF allVars
<1> QED
  BY <1>1, <1>2, <1>3 DEF PublishNext

\* The device that publishes implements the manager.
THEOREM PublishImplementsManager == PublishSpec => Spec
<1>1. PublishInit => Init
  BY DEF PublishInit
<1> QED
  BY <1>1, PublishManagerStep, PTL DEF PublishSpec, Spec

\* The type invariant, manager included.
THEOREM PublishTypeCorrect == PublishSpec => []PublishTypeOK
<1>1. PublishInit => PType
  <2>1. bare = FALSE => bare \in BOOLEAN
    OBVIOUS
  <2> QED
    BY <2>1 DEF PublishInit, PType
<1>2. PType /\ [PublishNext]_allVars => PType'
  <2> SUFFICES ASSUME PType, [PublishNext]_allVars PROVE PType'
    OBVIOUS
  <2> USE DEF PType
  <2>1. ASSUME NEW p \in PublisherTasks, Call(p) \/ CheckConnected(p) PROVE PType'
    BY <2>1 DEF Call, CheckConnected, Step, propertyHistory
  <2>2. ASSUME NEW p \in PublisherTasks, SetProperty(p) PROVE PType'
    BY <2>2 DEF SetProperty, Step
  <2>3. ASSUME NEW p \in PublisherTasks, SendMessage(p) PROVE PType'
    <3>1. ppc' \in [PublisherTasks -> {"idle", "check", "set", "send"}]
      BY <2>3 DEF SendMessage, Step
    <3>2. CASE UseProperty /\ Take(p)
      <4>1. bare' \in BOOLEAN
        BY <3>2 DEF UseProperty
      <4> QED
        BY <3>1, <3>2, <4>1 DEF UseProperty, Take
    <3>3. CASE Reject(p) /\ UNCHANGED strays
      BY <3>1, <3>3 DEF Reject
    <3> QED
      BY <2>3, <3>2, <3>3 DEF SendMessage
  <2>4. CASE HandlerPublishes
    BY <2>4 DEF HandlerPublishes
  <2>5. CASE ConnectAndFlush
    BY <2>5 DEF ConnectAndFlush, propertyHistory
  <2>6. CASE ManagerOnly \/ UNCHANGED allVars
    BY <2>6 DEF ManagerOnly, allVars, publishVars, propertyHistory
  <2> QED
    BY <2>1, <2>2, <2>3, <2>4, <2>5, <2>6 DEF PublishNext, PublishStep
<1>3. PublishSpec => []PType
  BY <1>1, <1>2, PTL DEF PublishSpec
<1>4. TypeOK /\ PType => PublishTypeOK
  BY DEF PublishTypeOK
<1> QED
  BY <1>3, <1>4, PublishImplementsManager, TypeCorrect, PTL

------------------------------------------------------------------------------
(* The publish property *)

\* Who sends while the client points to the pub_prop of a call that has returned
\* was between its two steps when that call was rejected.
THEOREM DeadPropertyIsExplained == PublishSpec => []NoDeadProperty
<1>1. PublishInit => NoDeadProperty
  BY DEF PublishInit, NoDeadProperty
<1>2. PublishTypeOK /\ NoDeadProperty /\ [PublishNext]_allVars => NoDeadProperty'
  <2> SUFFICES ASSUME PublishTypeOK, NoDeadProperty, [PublishNext]_allVars,
                      pub_prop' = Gone, NEW p \in PublisherTasks, ppc'[p] = "send"
               PROVE  p \in exposed'
    BY DEF NoDeadProperty
  <2> USE PublisherTasksAssumption
      DEF PublishTypeOK, PType, NoDeadProperty, propertyHistory
  <2>1. ASSUME NEW q \in PublisherTasks, Call(q) \/ CheckConnected(q)
        PROVE  p \in exposed'
    BY <2>1 DEF Call, CheckConnected, Step
  <2>2. ASSUME NEW q \in PublisherTasks, SetProperty(q) PROVE FALSE
    BY <2>2 DEF SetProperty
  <2>3. ASSUME NEW q \in PublisherTasks, SendMessage(q) PROVE p \in exposed'
    <3>1. p # q /\ ppc[p] = "send"
      BY <2>3 DEF SendMessage, Step
    <3>2. Reject(q)
      BY <2>3 DEF SendMessage, UseProperty
    <3> QED
      BY <3>1, <3>2 DEF Reject
  <2>4. CASE HandlerPublishes
    BY <2>4 DEF HandlerPublishes
  <2>5. CASE ConnectAndFlush
    BY <2>5 DEF ConnectAndFlush
  <2>6. CASE ManagerOnly \/ UNCHANGED allVars
    BY <2>6 DEF ManagerOnly, allVars, publishVars
  <2> QED
    BY <2>1, <2>2, <2>3, <2>4, <2>5, <2>6 DEF PublishNext, PublishStep
<1> QED
  BY <1>1, <1>2, PublishTypeCorrect, PTL DEF PublishSpec

------------------------------------------------------------------------------
(* Stray messages *)

\* Only ConnectOk connects the client, and the flag follows the client.
LEMMA QuietSteps ==
    ASSUME TypeOK, FlagInv, CallConnectedHandler \/ ManagerOnly \/ UNCHANGED vars
    PROVE  /\ client' = "connected" => client = "connected"
           /\ s_connected' => s_connected \/ client = "connected"
<1> USE DEF externalVars, handlerVars, timerVars, historyVars, appVars,
            managerVars
<1>1. CASE StartClient \/ ClientResume \/ LinkFailure
  <2>1. s_connected' = s_connected /\ client' # "connected"
    BY <1>1 DEF StartClient, ClientResume, LinkFailure, ConnectFail,
                ConnectionLost, Disconnect
  <2> QED
    BY <2>1
<1>2. CASE HandlerStep
  BY <1>2 DEF HandlerStep, StopTimer, SetConnected, Resubscribe, ClearConnected,
              ScheduleReconnect, FlagInv
<1>3. CASE \/ LinkStabilises \/ TimerStep \/ OtherTimerCommand \/ SubscribeStep
           \/ SetConnectedHandler \/ CallConnectedHandler
           \/ \E t \in Topics : SubscribeStore(t)
           \/ UNCHANGED vars
  <2>1. UNCHANGED <<client, s_connected>>
    BY <1>3, Unchanged
    DEF LinkStabilises, TimerStep, TimerCommand, TimerExpire, CallbackCheck,
        CallbackReconnect, OtherTimerCommand, SubscribeStep, SubscribeCheck,
        SubscribeSend, SubscribeStore, SetConnectedHandler, CallConnectedHandler
  <2> QED
    BY <2>1
<1> QED
  BY <1>1, <1>2, <1>3 DEF ManagerOnly

LEMMA StrayStep ==
    ASSUME PublishTypeOK, FlagInv, StrayInv, [PublishNext]_allVars
    PROVE  StrayInv'
<1> USE DEF PublishTypeOK, PType, StrayInv
<1>2. ASSUME NEW p \in PublisherTasks, Call(p) \/ CheckConnected(p) \/ SetProperty(p)
      PROVE  StrayInv'
  <2>1. UNCHANGED <<strays, s_connected, client>>
    BY <1>2, Unchanged DEF Call, CheckConnected, SetProperty
  <2>2. \A q \in PublisherTasks : q # p => ppc'[q] = ppc[q]
    BY <1>2 DEF Call, CheckConnected, SetProperty, Step
  <2>3. strays[p] = 1 => ppc'[p] \in {"idle", "check"}
    BY <1>2 DEF Call, CheckConnected, SetProperty, Step
  <2> QED
    BY <2>1, <2>2, <2>3
<1>3. ASSUME NEW p \in PublisherTasks, SendMessage(p) PROVE StrayInv'
  <2>1. UNCHANGED <<s_connected, client>> /\ ~ApiLockHeld
        /\ ppc[p] = "send" /\ ppc'[p] = "idle"
    BY <1>3, Unchanged DEF SendMessage, Step
  <2>2. \A q \in PublisherTasks : q # p => ppc'[q] = ppc[q] /\ strays'[q] = strays[q]
    BY <1>3 DEF SendMessage, Step, Take
  <2>3. strays[p] = 0
    BY <2>1
  <2>4. strays'[p] = 0 \/ (client # "connected" /\ strays'[p] = 1)
    BY <1>3, <2>3 DEF SendMessage, Take
  <2>5. s_connected <=> client = "connected"
    BY <2>1 DEF ApiLockHeld, FlagInv
  <2> QED
    BY <2>1, <2>2, <2>4, <2>5
<1>4. CASE ConnectAndFlush
  BY <1>4 DEF ConnectAndFlush
<1>5. CASE HandlerPublishes \/ ManagerOnly \/ UNCHANGED allVars
  <2>1. UNCHANGED <<ppc, strays>>
    BY <1>5 DEF HandlerPublishes, ManagerOnly, publishVars, allVars
  <2>2. /\ client' = "connected" => client = "connected"
        /\ s_connected' => s_connected \/ client = "connected"
    BY <1>5, QuietSteps DEF HandlerPublishes, allVars
  <2> QED
    BY <2>1, <2>2
<1> QED
  BY <1>2, <1>3, <1>4, <1>5 DEF PublishNext, PublishStep

\* Between two connections each task hands over at most one message.
THEOREM StraysAreBounded == PublishSpec => []StrayBound
<1>1. PublishInit => StrayInv
  BY DEF PublishInit, StrayInv, Init, PowerOn
<1>2. PublishTypeOK /\ IndInv /\ StrayInv /\ [PublishNext]_allVars => StrayInv'
  BY StrayStep DEF IndInv
<1>3. StrayInv => StrayBound
  BY DEF StrayInv, StrayBound
<1> QED
  BY <1>1, <1>2, <1>3, PublishTypeCorrect, PublishImplementsManager, IndInvHolds,
     PTL DEF PublishSpec

------------------------------------------------------------------------------
(* InitPublisher and Boot *)

\* The same for the main task.
LEMMA DeviceManagerStep == [DeviceNext]_deviceVars => [Next]_vars
<1> SUFFICES ASSUME [DeviceNext]_deviceVars PROVE [Next]_vars
  OBVIOUS
<1>1. CASE MainStep \/ PublishSend
  BY <1>1 DEF MainStep, StartMqtt, PollConnected, DecideToRun, SubscribeNext,
              SubscribedAll, RegisterHandler, CheckAlreadyUp, PublishCheck,
              PublishSend, Next, ClientStep
<1>2. CASE NewConnection \/ AnnounceConnection \/ OtherTasks
  BY <1>2 DEF NewConnection, AnnounceConnection, OtherTasks, Next, ClientStep
<1>3. CASE UNCHANGED deviceVars
  BY <1>3 DEF deviceVars
<1> QED
  BY <1>1, <1>2, <1>3 DEF DeviceNext

\* The device that starts up implements the manager.
THEOREM DeviceImplementsManager == DeviceSpec => Spec
<1>1. DeviceInit => Init
  BY DEF DeviceInit
<1> QED
  BY <1>1, DeviceManagerStep, PTL DEF DeviceSpec, Spec

\* A step of the whole device is one of these or a restart.
Reset ==
    /\ PowerOn' /\ linkStable' \in BOOLEAN
    /\ mpc' = "start" /\ mqtt_wait' = 0 /\ initMsgs' = 0

LEMMA RestartResets == DeviceTypeOK /\ Restart => Reset
BY DEF DeviceTypeOK, TypeOK, Restart, PowerOn, Reset

LEMMA DeviceOrReset ==
    DeviceTypeOK /\ [BootNext]_bootAllVars => [DeviceNext]_deviceVars \/ Reset
<1> SUFFICES ASSUME DeviceTypeOK, [BootNext]_bootAllVars
             PROVE  [DeviceNext]_deviceVars \/ Reset
  OBVIOUS
<1>1. CASE BootStep
  BY <1>1, RestartResets DEF BootStep, InitNvs, StartPart, PartFails, MqttFails,
                             PollClock, StartPublishers
<1>2. CASE MqttStartUp \/ Announce \/ ConnectionStep
  BY <1>2 DEF MqttStartUp, Announce, ConnectionStep, DeviceNext
<1>3. CASE SetClock \/ UNCHANGED bootAllVars
  BY <1>3 DEF SetClock, bootAllVars
<1> QED
  BY <1>1, <1>2, <1>3 DEF BootNext

LEMMA MainTypeStep == MainType /\ [DeviceNext]_deviceVars => MainType'
<1> SUFFICES ASSUME MainType, [DeviceNext]_deviceVars PROVE MainType'
  OBVIOUS
<1> USE DEF MainType, Goto
<1>1. CASE PollConnected
  BY <1>1, MqttWaitAssumption DEF PollConnected
<1>2. CASE StartMqtt \/ SubscribedAll \/ RegisterHandler
  BY <1>2 DEF StartMqtt, SubscribedAll, RegisterHandler
<1>3. CASE DecideToRun \/ CheckAlreadyUp \/ PublishCheck
  BY <1>3 DEF DecideToRun, CheckAlreadyUp, PublishCheck
<1>4. CASE SubscribeNext \/ OtherTasks \/ UNCHANGED deviceVars
  BY <1>4 DEF SubscribeNext, OtherTasks, mainVars, deviceVars
<1>5. CASE PublishSend \/ NewConnection \/ AnnounceConnection
  BY <1>5 DEF PublishSend, NewConnection, AnnounceConnection, mainVars,
              PublishInitMessage
<1> QED
  BY <1>1, <1>2, <1>3, <1>4, <1>5 DEF DeviceNext, MainStep

\* The type invariant, manager included, restarts included.
THEOREM DeviceTypeCorrect == BootSpec => []DeviceTypeOK
<1>1. BootInit => DeviceTypeOK
  <2> SUFFICES ASSUME BootInit PROVE DeviceTypeOK
    OBVIOUS
  <2>1. PowerOn /\ linkStable = FALSE /\ MainType
    BY MqttWaitAssumption DEF BootInit, DeviceInit, Init, MainType
  <2> QED
    BY <2>1, PowerOnTyped DEF DeviceTypeOK
<1>2. DeviceTypeOK /\ [BootNext]_bootAllVars => DeviceTypeOK'
  <2>1. DeviceTypeOK /\ [DeviceNext]_deviceVars => DeviceTypeOK'
    BY DeviceManagerStep, TypeStep, MainTypeStep DEF DeviceTypeOK
  <2>2. Reset => (PowerOn /\ linkStable \in BOOLEAN)' /\ MainType'
    BY MqttWaitAssumption DEF Reset, MainType
  <2>3. Reset => DeviceTypeOK'
    <3>1. (PowerOn /\ linkStable \in BOOLEAN)' => TypeOK'
      BY PowerOnTyped, PTL
    <3> QED
      BY <2>2, <3>1 DEF DeviceTypeOK
  <2> QED
    BY <2>1, <2>3, DeviceOrReset
<1> QED
  BY <1>1, <1>2, PTL DEF BootSpec

\* What holds of the manager holds between two restarts.
THEOREM ManagerInvariant == BootSpec => []IndInv
<1>1. BootInit => IndInv
  BY PowerOnIndInv DEF BootInit, DeviceInit, Init
<1>2. DeviceTypeOK /\ IndInv /\ [BootNext]_bootAllVars => IndInv'
  <2>1. DeviceTypeOK /\ IndInv /\ [DeviceNext]_deviceVars => IndInv'
    BY DeviceManagerStep, IndInvStep DEF DeviceTypeOK
  <2>2. Reset => IndInv'
    <3>1. PowerOn' => IndInv'
      BY PowerOnIndInv, PTL
    <3> QED
      BY <3>1 DEF Reset
  <2> QED
    BY <2>1, <2>2, DeviceOrReset
<1> QED
  BY <1>1, <1>2, DeviceTypeCorrect, PTL DEF BootSpec

\* The whole device, with its main task, its handlers and its restarts, uses the
\* client the way its header promises: a step is one of the connection's life
\* cycle, none of it, or a restart, after which the life cycle begins anew.
THEOREM DeviceFollowsLifecycle ==
    BootSpec => [][Lifecycle!Next \/ Lifecycle!Init']_(Lifecycle!lifecycleVars)
<1>1. DeviceTypeOK /\ IndInv /\ IndInv' /\ [BootNext]_bootAllVars
          => [Lifecycle!Next \/ Lifecycle!Init']_(Lifecycle!lifecycleVars)
  <2>1. DeviceTypeOK /\ IndInv /\ IndInv' /\ [DeviceNext]_deviceVars
            => [Lifecycle!Next]_(Lifecycle!lifecycleVars)
    BY DeviceManagerStep, LifecycleStep DEF DeviceTypeOK
  <2>2. Reset => Lifecycle!Init'
    <3>1. PowerOn => Lifecycle!Init
      BY DEF PowerOn, Lifecycle!Init, Phase
    <3>2. PowerOn' => Lifecycle!Init'
      BY <3>1, PTL
    <3> QED
      BY <3>2 DEF Reset
  <2> QED
    BY <2>1, <2>2, DeviceOrReset
<1> QED
  BY <1>1, DeviceTypeCorrect, ManagerInvariant, PTL DEF BootSpec

------------------------------------------------------------------------------
(* Every connection is announced *)

\* Once init_publisher_start is done, a connection has its message or its
\* CONNECTED event is still being handled, with the handler registered.
AnnounceInv ==
    /\ s_connected_handler <=> mpc \in {"check", "publish", "send", "running"}
    /\ mpc = "running" /\ client = "connected" => initMsgs >= 1 \/ hpc # "idle"

LEMMA AnnounceStep ==
    ASSUME DeviceTypeOK, FlagInv, AnnounceInv, [DeviceNext]_deviceVars
    PROVE  AnnounceInv'
<1> USE DEF AnnounceInv, Goto, externalVars, handlerVars, timerVars,
            historyVars, appVars, managerVars, mainVars
<1>1. CASE StartMqtt
  BY <1>1 DEF StartMqtt, StartClient
<1>2. CASE PollConnected \/ DecideToRun \/ SubscribedAll
  BY <1>2, Unchanged DEF PollConnected, DecideToRun, SubscribedAll
<1>3. CASE SubscribeNext
  BY <1>3 DEF SubscribeNext, SubscribeStore
<1>4. CASE RegisterHandler
  BY <1>4 DEF RegisterHandler, SetConnectedHandler
<1>5. CASE CheckAlreadyUp \/ PublishCheck
  BY <1>5, Unchanged DEF CheckAlreadyUp, PublishCheck, FlagInv
<1>6. CASE PublishSend
  <2>1. UNCHANGED <<client, hpc, s_connected_handler>>
    BY <1>6, Unchanged DEF PublishSend
  <2>2. client = "connected" => initMsgs' >= 1
    BY <1>6 DEF PublishSend, PublishInitMessage, DeviceTypeOK, MainType
  <2> QED
    BY <1>6, <2>1, <2>2 DEF PublishSend
<1>7. CASE NewConnection
  BY <1>7 DEF NewConnection, ConnectOk
<1>8. CASE AnnounceConnection
  <2>1. s_connected_handler => initMsgs' >= 1
    BY <1>8 DEF AnnounceConnection, PublishInitMessage, DeviceTypeOK, MainType
  <2>2. UNCHANGED <<client, s_connected_handler, mpc>>
    BY <1>8 DEF AnnounceConnection, CallConnectedHandler
  <2> QED
    BY <2>1, <2>2
<1>9. CASE OtherTasks
  <2>1. UNCHANGED <<mpc, mqtt_wait, initMsgs>>
    BY <1>9 DEF OtherTasks
  <2>2. UNCHANGED s_connected_handler
    BY <1>9
    DEF OtherTasks, ClientResume, LinkFailure, ConnectFail, ConnectionLost,
        Disconnect, LinkStabilises, TimerStep, TimerCommand, TimerExpire,
        CallbackCheck, CallbackReconnect, OtherTimerCommand, HandlerStep,
        StopTimer, SetConnected, Resubscribe, ClearConnected,
        ScheduleReconnect, SubscribeStep, SubscribeCheck, SubscribeSend
  <2>3. client' = "connected" => client = "connected" /\ (hpc # "idle" => hpc' # "idle")
    <3>1. CASE ClientResume \/ LinkFailure
      BY <3>1 DEF ClientResume, LinkFailure, ConnectFail, ConnectionLost,
                  Disconnect
    <3>2. CASE HandlerStep
      BY <3>2 DEF HandlerStep, StopTimer, SetConnected, Resubscribe,
                  ClearConnected, ScheduleReconnect, FlagInv
    <3>3. CASE LinkStabilises \/ TimerStep \/ OtherTimerCommand \/ SubscribeStep
      <4>1. UNCHANGED <<client, hpc>>
        BY <3>3
        DEF LinkStabilises, TimerStep, TimerCommand, TimerExpire,
            CallbackCheck, CallbackReconnect, OtherTimerCommand, SubscribeStep,
            SubscribeCheck, SubscribeSend
      <4> QED
        BY <4>1
    <3> QED
      BY <1>9, <3>1, <3>2, <3>3 DEF OtherTasks
  <2> QED
    BY <2>1, <2>2, <2>3
<1>10. CASE UNCHANGED deviceVars
  BY <1>10, Unchanged DEF deviceVars
<1> QED
  BY <1>1, <1>2, <1>3, <1>4, <1>5, <1>6, <1>7, <1>8, <1>9, <1>10
  DEF DeviceNext, MainStep

LEMMA AnnounceInvHolds == BootSpec => []AnnounceInv
<1>1. BootInit => AnnounceInv
  BY DEF BootInit, DeviceInit, Init, PowerOn, AnnounceInv
<1>2. DeviceTypeOK /\ IndInv /\ AnnounceInv /\ [BootNext]_bootAllVars
          => AnnounceInv'
  <2>1. DeviceTypeOK /\ IndInv /\ AnnounceInv /\ [DeviceNext]_deviceVars
            => AnnounceInv'
    BY AnnounceStep DEF IndInv
  <2>2. Reset => AnnounceInv'
    BY DEF Reset, PowerOn, AnnounceInv
  <2> QED
    BY <2>1, <2>2, DeviceOrReset
<1> QED
  BY <1>1, <1>2, DeviceTypeCorrect, ManagerInvariant, PTL DEF BootSpec

\* Once start-up is done, no connection goes without its devices/init message.
THEOREM ConnectionsAreAnnounced == BootSpec => []EveryConnectionAnnounced
<1>1. AnnounceInv => EveryConnectionAnnounced
  BY DEF AnnounceInv, EveryConnectionAnnounced
<1> QED
  BY <1>1, AnnounceInvHolds, PTL

------------------------------------------------------------------------------
(* Every command topic is subscribed *)

RoomForAll == IsFiniteSet(Topics) /\ Cardinality(Topics) <= MAX_SUBSCRIPTIONS

Started == mpc \in {"register", "check", "publish", "send", "running"}

\* The table holds every topic that was asked for ...
TableInv ==
    /\ Len(s_subscriptions) = Cardinality(asked)
    /\ \A t \in asked : \E i \in 1..Len(s_subscriptions) : s_subscriptions[i] = t

\* ... and after cmd_handler_init all of them were.
AskedInv == Started => asked = Topics /\ apc = "idle"

\* There is room for one more topic.
LEMMA StoreStep ==
    ASSUME RoomForAll, DeviceTypeOK, TableInv, SubscribeNext
    PROVE  TableInv'
<1>1. PICK t \in Topics : SubscribeStore(t)
  BY DEF SubscribeNext
<1>2. t \notin asked /\ asked' = asked \cup {t} /\ asked \subseteq Topics
  BY <1>1 DEF SubscribeStore, DeviceTypeOK, TypeOK
<1>3. IsFiniteSet(asked)
  BY <1>2, FS_Subset DEF RoomForAll
<1>4. Cardinality(asked) \in Nat /\ Cardinality(asked') = Cardinality(asked) + 1
  BY <1>2, <1>3, FS_AddElement, FS_CardinalityType
<1>5. Cardinality(asked) < MAX_SUBSCRIPTIONS
  <2>1. asked' \in SUBSET Topics
    BY <1>2
  <2>2. Cardinality(asked') <= Cardinality(Topics) /\ Cardinality(Topics) \in Nat
    BY <2>1, FS_Subset, FS_CardinalityType DEF RoomForAll
  <2> QED
    BY <1>4, <2>2, SubscriptionsAssumption DEF RoomForAll
<1>6. s_subscriptions \in Seq(Topics) /\ s_subscriptions' = Append(s_subscriptions, t)
  BY <1>1, <1>5 DEF SubscribeStore, TableInv, DeviceTypeOK, TypeOK
<1>7. /\ Len(s_subscriptions') = Len(s_subscriptions) + 1
      /\ s_subscriptions'[Len(s_subscriptions) + 1] = t
      /\ \A i \in 1..Len(s_subscriptions) : s_subscriptions'[i] = s_subscriptions[i]
  BY <1>6
<1>8. ASSUME NEW u \in asked'
      PROVE  \E i \in 1..Len(s_subscriptions') : s_subscriptions'[i] = u
  <2>1. CASE u = t
    BY <1>6, <1>7, <2>1
  <2>2. CASE u \in asked
    <3>1. PICK i \in 1..Len(s_subscriptions) : s_subscriptions[i] = u
      BY <2>2 DEF TableInv
    <3>2. i \in 1..Len(s_subscriptions') /\ s_subscriptions'[i] = u
      BY <1>6, <1>7, <3>1
    <3> QED
      BY <3>2
  <2> QED
    BY <1>2, <1>8, <2>1, <2>2
<1> QED
  BY <1>4, <1>7, <1>8 DEF TableInv

\* No other step touches the table or the topics asked for.
LEMMA OtherSteps ==
    ASSUME [DeviceNext]_deviceVars, ~SubscribeNext
    PROVE  /\ UNCHANGED <<s_subscriptions, asked>>
           /\ apc = "idle" => apc' = "idle"
           /\ Started' => Started \/ (asked = Topics /\ apc = "idle")
<1> USE DEF Started, Goto, externalVars, handlerVars, timerVars,
            historyVars, appVars, managerVars, mainVars
<1>1. CASE SubscribedAll
  BY <1>1, Unchanged DEF SubscribedAll
<1>2. CASE StartMqtt \/ RegisterHandler
  BY <1>2 DEF StartMqtt, StartClient, RegisterHandler, SetConnectedHandler
<1>3. CASE PollConnected \/ DecideToRun \/ CheckAlreadyUp \/ PublishCheck
           \/ PublishSend \/ UNCHANGED deviceVars
  BY <1>3, Unchanged DEF PollConnected, DecideToRun, CheckAlreadyUp,
                         PublishCheck, PublishSend, deviceVars
<1>4. CASE NewConnection \/ AnnounceConnection
  BY <1>4 DEF NewConnection, ConnectOk, AnnounceConnection, CallConnectedHandler
<1>5. CASE OtherTasks
  <2>1. UNCHANGED <<mpc, s_subscriptions, asked>>
    BY <1>5
    DEF OtherTasks, ClientResume, LinkFailure, ConnectFail, ConnectionLost,
        Disconnect, LinkStabilises, TimerStep, TimerCommand, TimerExpire,
        CallbackCheck, CallbackReconnect, OtherTimerCommand, HandlerStep,
        StopTimer, SetConnected, Resubscribe, ClearConnected,
        ScheduleReconnect, SubscribeStep, SubscribeCheck, SubscribeSend
  <2>2. apc = "idle" => apc' = "idle"
    BY <1>5
    DEF OtherTasks, ClientResume, LinkFailure, ConnectFail, ConnectionLost,
        Disconnect, LinkStabilises, TimerStep, TimerCommand, TimerExpire,
        CallbackCheck, CallbackReconnect, OtherTimerCommand, HandlerStep,
        StopTimer, SetConnected, Resubscribe, ClearConnected,
        ScheduleReconnect, SubscribeStep, SubscribeCheck, SubscribeSend
  <2> QED
    BY <2>1, <2>2
<1> QED
  BY <1>1, <1>2, <1>3, <1>4, <1>5 DEF DeviceNext, MainStep

LEMMA AskedInvHolds == BootSpec => []AskedInv
<1>1. BootInit => AskedInv
  BY DEF BootInit, DeviceInit, AskedInv, Started
<1>2. DeviceTypeOK /\ AskedInv /\ [BootNext]_bootAllVars => AskedInv'
  <2>1. AskedInv /\ [DeviceNext]_deviceVars => AskedInv'
    <3>1. SubscribeNext => ~Started'
      BY DEF SubscribeNext, mainVars, Started
    <3> QED
      BY <3>1, OtherSteps DEF AskedInv
  <2>2. Reset => AskedInv'
    BY DEF Reset, AskedInv, Started
  <2> QED
    BY <2>1, <2>2, DeviceOrReset
<1> QED
  BY <1>1, <1>2, DeviceTypeCorrect, PTL DEF BootSpec

\* With a table that has room for all topics (the code has 16 places for 6),
\* every connection has had a SUBSCRIBE for each of them.
THEOREM CommandsAreSubscribed ==
    ASSUME RoomForAll PROVE BootSpec => []CommandsSubscribed
<1>1. PowerOn => TableInv
  <2> SUFFICES ASSUME PowerOn PROVE TableInv
    OBVIOUS
  <2>1. Len(s_subscriptions) = 0 /\ asked = {}
    BY DEF PowerOn
  <2> QED
    BY <2>1, FS_EmptySet DEF TableInv
<1>2. DeviceTypeOK /\ TableInv /\ [BootNext]_bootAllVars => TableInv'
  <2>1. DeviceTypeOK /\ TableInv /\ [DeviceNext]_deviceVars => TableInv'
    BY StoreStep, OtherSteps DEF TableInv
  <2>2. Reset => TableInv'
    <3>1. PowerOn' => TableInv'
      BY <1>1, PTL
    <3> QED
      BY <3>1 DEF Reset
  <2> QED
    BY <2>1, <2>2, DeviceOrReset
<1>3. IndInv /\ TableInv /\ AskedInv => CommandsSubscribed
  BY DEF IndInv, SubscribeInv, StoredTopicsSubscribed, Subscribing, TableInv,
         AskedInv, Started, CommandsSubscribed
<1>4. BootInit => PowerOn
  BY DEF BootInit, DeviceInit, Init
<1> QED
  BY <1>1, <1>2, <1>3, <1>4, DeviceTypeCorrect, ManagerInvariant, AskedInvHolds,
     PTL DEF BootSpec

------------------------------------------------------------------------------
(* The order of the parts *)

\* The parts that have started before each point of app_main.
Before(p) ==
    CASE p \in {"nvs", "config"} -> {}
      [] p = "wifi" -> {"config"}
      [] p \in {"sntp", "main", "heartbeat"} -> {"config", "wifi"}
      [] p = "counter" -> {"config", "wifi", "heartbeat"}
      [] p = "log" -> {"config", "wifi", "heartbeat", "counter"}
      [] p = "running" -> Parts

OrderInv ==
    /\ bpc \in {"nvs", "sntp", "main", "running"} \cup Parts
    /\ started = Before(bpc)
    /\ bpc \in {"nvs", "config", "wifi", "sntp"} => mpc = "start"
    /\ bpc \in Publishers \cup {"running"} => mpc = "running"

LEMMA OrderStep == OrderInv /\ [BootNext]_bootAllVars => OrderInv'
<1> SUFFICES ASSUME OrderInv, [BootNext]_bootAllVars PROVE OrderInv'
  OBVIOUS
<1> USE DEF OrderInv, Before, Parts, Publishers
<1>1. ASSUME Restart PROVE OrderInv'
  BY <1>1 DEF Restart
<1>2. ASSUME NEW p \in Parts, StartPart(p) PROVE OrderInv'
  BY <1>2 DEF StartPart, NextOf, deviceVars, mainVars
<1>3. CASE PollClock
  BY <1>3 DEF PollClock, deviceVars, mainVars
<1>4. CASE StartPublishers
  BY <1>4 DEF StartPublishers, deviceVars, mainVars
<1>5. CASE InitNvs
  BY <1>1, <1>5 DEF InitNvs, deviceVars, mainVars
<1>6. CASE MqttStartUp \/ Announce
  BY <1>6 DEF MqttStartUp, Announce, bootVars
<1>7. CASE ConnectionStep \/ SetClock \/ UNCHANGED bootAllVars
  BY <1>7 DEF ConnectionStep, NewConnection, AnnounceConnection, OtherTasks,
              SetClock, bootVars, bootAllVars, deviceVars, mainVars
<1> QED
  BY <1>1, <1>2, <1>3, <1>4, <1>5, <1>6, <1>7
  DEF BootNext, BootStep, PartFails, MqttFails

\* Wherever a part fails, the device at rest is whole or has halted with the
\* client alone, and no publisher runs before what it needs.
THEOREM DeviceIsWhole == BootSpec => []AllOrNothing
<1>1. BootInit => OrderInv
  BY DEF BootInit, DeviceInit, OrderInv, Before, Parts, Publishers
<1>2. OrderInv /\ AnnounceInv /\ AskedInv => AllOrNothing
  <2> SUFFICES ASSUME OrderInv, AnnounceInv, AskedInv PROVE AllOrNothing
    OBVIOUS
  <2>1. bpc = "running" => started = Parts
    BY DEF OrderInv, Before, Parts, Publishers
  <2>2. mpc = "halted" => bpc = "main"
    BY DEF OrderInv, Parts, Publishers
  <2>3. bpc = "main" => started = {"config", "wifi"}
    BY DEF OrderInv, Before
  <2>4. started \cap Publishers # {} => bpc \in Publishers \cup {"running"}
    BY DEF OrderInv, Before, Parts, Publishers
  <2>5. mpc = "running" => s_connected_handler /\ asked = Topics
    BY DEF AnnounceInv, AskedInv, Started
  <2> QED
    BY <2>1, <2>2, <2>3, <2>4, <2>5 DEF AllOrNothing, OrderInv
<1> QED
  BY <1>1, <1>2, OrderStep, AnnounceInvHolds, AskedInvHolds, PTL DEF BootSpec

------------------------------------------------------------------------------
(* At rest for good *)

\* Halted, or running with a connection that was announced and has every topic.
AtRest ==
    /\ linkStable
    /\ \/ mpc = "halted"
       \/ /\ bpc = "running" /\ client = "connected" /\ initMsgs >= 1
          /\ \A t \in Topics : Reached(t)

\* What the other tasks leave alone once the network holds.
LEMMA RestingSteps ==
    ASSUME [Next]_vars, linkStable
    PROVE  /\ linkStable'
           /\ client = "connected" =>
                  /\ client' = "connected"
                  /\ session \subseteq session' /\ refused \subseteq refused'
<1> USE DEF externalVars, handlerVars, timerVars, historyVars, appVars, managerVars
<1>1. CASE ClientStep \/ LinkFailure \/ LinkStabilises
  BY <1>1 DEF ClientStep, StartClient, ConnectOk, ClientResume, LinkFailure,
              ConnectFail, ConnectionLost, Disconnect, LinkStabilises
<1>2. CASE TimerStep \/ OtherTimerCommand \/ CallConnectedHandler \/ SetConnectedHandler
  BY <1>2 DEF TimerStep, TimerCommand, TimerExpire, CallbackCheck, CallbackReconnect,
              OtherTimerCommand, CallConnectedHandler, SetConnectedHandler
<1>3. CASE HandlerStep
  BY <1>3 DEF HandlerStep, StopTimer, SetConnected, Resubscribe, SubscribeSingle,
              ClearConnected, ScheduleReconnect
<1>4. CASE SubscribeStep \/ \E t \in Topics : SubscribeStore(t)
  BY <1>4 DEF SubscribeStep, SubscribeCheck, SubscribeSend, SubscribeSingle,
              SubscribeStore
<1>5. CASE UNCHANGED vars
  BY <1>5, Unchanged
<1> QED
  BY <1>1, <1>2, <1>3, <1>4, <1>5 DEF Next

\* The safety half of ComesToRest: a device that has come to rest neither restarts
\* nor loses its connection, its topics or its announcement, and one that has
\* halted does not start up after all.
THEOREM RestIsFinal == BootSpec => [](AtRest => []AtRest)
<1>1. DeviceTypeOK /\ OrderInv /\ AtRest /\ [BootNext]_bootAllVars => AtRest'
  <2> SUFFICES ASSUME DeviceTypeOK, OrderInv, AtRest, [BootNext]_bootAllVars
               PROVE  AtRest'
    OBVIOUS
  <2>1. mpc = "halted" => bpc = "main"
    BY DEF OrderInv, Parts, Publishers
  <2>2. bpc = "running" => mpc = "running"
    BY DEF OrderInv
  <2>3. ~BootStep /\ ~SetClock
    BY <2>1 DEF AtRest, BootStep, InitNvs, StartPart, PartFails, MqttFails, PollClock,
                StartPublishers, SetClock, Parts, Publishers
  <2>4. ~MqttStartUp /\ ~Announce
    BY <2>1 DEF AtRest, MqttStartUp, Announce, MainStep, StartMqtt, PollConnected,
                DecideToRun, SubscribeNext, SubscribedAll, RegisterHandler,
                CheckAlreadyUp, PublishCheck, PublishSend, Goto
  <2>5. CASE ConnectionStep
    <3>1. [DeviceNext]_deviceVars /\ UNCHANGED bpc
      BY <2>5 DEF ConnectionStep, DeviceNext, bootVars
    <3>2. [Next]_vars
      BY <3>1, DeviceManagerStep
    <3>3. UNCHANGED mpc
      BY <2>5 DEF ConnectionStep, NewConnection, AnnounceConnection, OtherTasks, mainVars
    <3>4. client = "connected" /\ initMsgs >= 1 => initMsgs' >= 1
      <4>1. CASE NewConnection
        BY <4>1 DEF NewConnection, ConnectOk
      <4>2. CASE AnnounceConnection
        BY <4>2 DEF AnnounceConnection, PublishInitMessage, DeviceTypeOK, MainType
      <4>3. CASE OtherTasks
        BY <4>3 DEF OtherTasks
      <4> QED
        BY <2>5, <4>1, <4>2, <4>3 DEF ConnectionStep
    <3> QED
      BY <3>1, <3>2, <3>3, <3>4, RestingSteps DEF AtRest, Reached
  <2>6. CASE UNCHANGED bootAllVars
    <3>1. UNCHANGED <<linkStable, client, session, refused, mpc, bpc, initMsgs>>
      BY <2>6 DEF bootAllVars, bootVars, deviceVars, mainVars, vars, externalVars
    <3> QED
      BY <3>1 DEF AtRest, Reached
  <2> QED
    BY <2>3, <2>4, <2>5, <2>6 DEF BootNext
<1>2. BootInit => OrderInv
  BY DEF BootInit, DeviceInit, OrderInv, Before, Parts, Publishers
<1> QED
  BY <1>1, <1>2, OrderStep, DeviceTypeCorrect, PTL DEF BootSpec

==============================================================================
