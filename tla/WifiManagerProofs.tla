-------------------------- MODULE WifiManagerProofs --------------------------
(***************************************************************************)
(* Proofs about WifiManager for every number of retries.                   *)
(***************************************************************************)
EXTENDS WifiManager, SequenceTheorems, TLAPS

USE RetryAssumption DEF Events

\* Appending to short tuples.
LEMMA AppendToOne ==
    ASSUME NEW S, NEW a \in S, NEW b \in S
    PROVE  Append(<<a>>, b) = <<a, b>>
<1>1. <<a>> \in Seq(S) /\ Len(<<a>>) = 1 /\ <<a>>[1] = a
  OBVIOUS
<1>2. /\ Append(<<a>>, b) \in Seq(S) /\ Len(Append(<<a>>, b)) = 2
      /\ Append(<<a>>, b)[1] = a /\ Append(<<a>>, b)[2] = b
  BY <1>1
<1>3. /\ <<a, b>> \in Seq(S) /\ Len(<<a, b>>) = 2
      /\ <<a, b>>[1] = a /\ <<a, b>>[2] = b
  OBVIOUS
<1>4. \A i \in 1..Len(Append(<<a>>, b)) : Append(<<a>>, b)[i] = <<a, b>>[i]
  BY <1>2, <1>3
<1> QED
  BY <1>2, <1>3, <1>4, SeqEqual

LEMMA AppendToTwo ==
    ASSUME NEW S, NEW a \in S, NEW b \in S, NEW c \in S
    PROVE  Append(<<a, b>>, c) = <<a, b, c>>
<1>1. /\ <<a, b>> \in Seq(S) /\ Len(<<a, b>>) = 2
      /\ <<a, b>>[1] = a /\ <<a, b>>[2] = b
  OBVIOUS
<1>2. /\ Append(<<a, b>>, c) \in Seq(S) /\ Len(Append(<<a, b>>, c)) = 3
      /\ Append(<<a, b>>, c)[1] = a /\ Append(<<a, b>>, c)[2] = b
      /\ Append(<<a, b>>, c)[3] = c
  BY <1>1
<1>3. /\ <<a, b, c>> \in Seq(S) /\ Len(<<a, b, c>>) = 3
      /\ <<a, b, c>>[1] = a /\ <<a, b, c>>[2] = b /\ <<a, b, c>>[3] = c
  OBVIOUS
<1>4. \A i \in 1..Len(Append(<<a, b>>, c)) :
          Append(<<a, b>>, c)[i] = <<a, b, c>>[i]
  BY <1>2, <1>3
<1> QED
  BY <1>2, <1>3, <1>4, SeqEqual

\* What posting an event makes of each queue that can be found then.
LEMMA PostedQueue ==
    ASSUME NEW e \in Events, Post(e)
    PROVE  /\ events = <<>> => events' = <<e>>
           /\ events = <<"got_ip">> => events' = <<"got_ip", e>>
           /\ events = <<"disconnected">> => events' = <<"disconnected", e>>
           /\ events = <<"got_ip", "disconnected">> =>
                  events' = <<"got_ip", "disconnected", e>>
           /\ events = <<"got_ip", "got_ip">> =>
                  events' = <<"got_ip", "got_ip", e>>
<1>1. "got_ip" \in Events /\ "disconnected" \in Events
  OBVIOUS
<1>2. Append(<<>>, e) = <<e>>
  OBVIOUS
<1>3. /\ Append(<<"got_ip">>, e) = <<"got_ip", e>>
      /\ Append(<<"disconnected">>, e) = <<"disconnected", e>>
  BY <1>1, AppendToOne
<1>4. /\ Append(<<"got_ip", "disconnected">>, e) = <<"got_ip", "disconnected", e>>
      /\ Append(<<"got_ip", "got_ip">>, e) = <<"got_ip", "got_ip", e>>
  BY <1>1, AppendToTwo
<1> QED
  BY <1>2, <1>3, <1>4 DEF Post

\* What handling its head leaves of each possible queue.
LEMMA HandledQueue ==
    ASSUME NEW e \in Events, Handle(e)
    PROVE  /\ events # <<>>
           /\ events = <<"sta_start">> => e = "sta_start" /\ events' = <<>>
           /\ events = <<"disconnected">> => e = "disconnected" /\ events' = <<>>
           /\ events = <<"got_ip">> => e = "got_ip" /\ events' = <<>>
           /\ events = <<"got_ip", "got_ip">> =>
                  e = "got_ip" /\ events' = <<"got_ip">>
           /\ events = <<"got_ip", "disconnected">> =>
                  e = "got_ip" /\ events' = <<"disconnected">>
           /\ events = <<"disconnected", "got_ip">> =>
                  e = "disconnected" /\ events' = <<"got_ip">>
           /\ events = <<"got_ip", "got_ip", "disconnected">> =>
                  e = "got_ip" /\ events' = <<"got_ip", "disconnected">>
           /\ events = <<"got_ip", "disconnected", "got_ip">> =>
                  e = "got_ip" /\ events' = <<"disconnected", "got_ip">>
<1> DEFINE G == "got_ip"
           D == "disconnected"
<1>1. \A a \in Events : Head(<<a>>) = a /\ Tail(<<a>>) = <<>>
  OBVIOUS
<1>2. \A a, b \in Events : Head(<<a, b>>) = a /\ Tail(<<a, b>>) = <<b>>
  OBVIOUS
<1>3. \A a, b, c \in Events :
          Head(<<a, b, c>>) = a /\ Tail(<<a, b, c>>) = <<b, c>>
  OBVIOUS
<1>4. events # <<>> /\ Head(events) = e /\ events' = Tail(events)
  BY DEF Handle
<1>5. {"sta_start", G, D} \subseteq Events
  OBVIOUS
<1>6. /\ Head(<<"sta_start">>) = "sta_start" /\ Tail(<<"sta_start">>) = <<>>
      /\ Head(<<D>>) = D /\ Tail(<<D>>) = <<>>
      /\ Head(<<G>>) = G /\ Tail(<<G>>) = <<>>
  BY <1>1, <1>5
<1>7. /\ Head(<<G, G>>) = G /\ Tail(<<G, G>>) = <<G>>
      /\ Head(<<G, D>>) = G /\ Tail(<<G, D>>) = <<D>>
      /\ Head(<<D, G>>) = D /\ Tail(<<D, G>>) = <<G>>
  BY <1>2, <1>5
<1>8. /\ Head(<<G, G, D>>) = G /\ Tail(<<G, G, D>>) = <<G, D>>
      /\ Head(<<G, D, G>>) = G /\ Tail(<<G, D, G>>) = <<D, G>>
  BY <1>3, <1>5
<1> QED
  BY <1>4, <1>6, <1>7, <1>8

------------------------------------------------------------------------------
Inv == TypeOK /\ IndInv

\* The bounds on the queue follow from the shapes it can have.
Shapes == Quiet \cup
    {<<"sta_start">>, <<"got_ip", "got_ip">>, <<"disconnected">>,
     <<"got_ip", "disconnected">>, <<"disconnected", "got_ip">>,
     <<"got_ip", "got_ip", "disconnected">>,
     <<"got_ip", "disconnected", "got_ip">>}

LEMMA ShapesTyped == \A q \in Shapes : q \in Seq(Events) /\ Len(q) <= 3
<1>1. {"sta_start", "disconnected", "got_ip"} \subseteq Events
  OBVIOUS
<1>2. \A a, b, c \in Events :
          /\ <<a>> \in Seq(Events) /\ Len(<<a>>) <= 3
          /\ <<a, b>> \in Seq(Events) /\ Len(<<a, b>>) <= 3
          /\ <<a, b, c>> \in Seq(Events) /\ Len(<<a, b, c>>) <= 3
  OBVIOUS
<1>3. <<>> \in Seq(Events) /\ Len(<<>>) = 0
  OBVIOUS
<1> HIDE DEF Events
<1>4. \A q \in {<<"sta_start">>, <<"disconnected">>, <<"got_ip">>} :
          q \in Seq(Events) /\ Len(q) <= 3
  BY <1>1, <1>2
<1>5. \A q \in {<<"got_ip", "got_ip">>, <<"got_ip", "disconnected">>,
                <<"disconnected", "got_ip">>} : q \in Seq(Events) /\ Len(q) <= 3
  BY <1>1, <1>2
<1>6. \A q \in {<<"got_ip", "got_ip", "disconnected">>,
                <<"got_ip", "disconnected", "got_ip">>} :
          q \in Seq(Events) /\ Len(q) <= 3
  BY <1>1, <1>2
<1>7. SUFFICES ASSUME NEW q \in Shapes PROVE q \in Seq(Events) /\ Len(q) <= 3
  OBVIOUS
<1>8. \/ q = <<>>
      \/ q \in {<<"sta_start">>, <<"disconnected">>, <<"got_ip">>}
      \/ q \in {<<"got_ip", "got_ip">>, <<"got_ip", "disconnected">>,
                <<"disconnected", "got_ip">>}
      \/ q \in {<<"got_ip", "got_ip", "disconnected">>,
                <<"got_ip", "disconnected", "got_ip">>}
  BY DEF Shapes, Quiet
<1>9. q \in Seq(Events) /\ Len(q) <= 3
  <2>1. CASE q = <<>>
    BY <2>1, <1>3
  <2>2. CASE q \in {<<"sta_start">>, <<"disconnected">>, <<"got_ip">>}
    BY <2>2, <1>4
  <2>3. CASE q \in {<<"got_ip", "got_ip">>, <<"got_ip", "disconnected">>,
                   <<"disconnected", "got_ip">>}
    BY <2>3, <1>5
  <2>4. CASE q \in {<<"got_ip", "got_ip", "disconnected">>,
                   <<"got_ip", "disconnected", "got_ip">>}
    BY <2>4, <1>6
  <2> QED
    BY <1>8, <2>1, <2>2, <2>3, <2>4
<1> QED
  BY <1>9

LEMMA InitInv == Init => Inv
<1> SUFFICES ASSUME Init PROVE Inv
  OBVIOUS
<1>1. QueueInv /\ AttemptInv
  BY DEF Init, PowerOn, QueueInv, AttemptInv, Starting
<1>2. events \in Shapes
  BY DEF Init, PowerOn, Shapes, Quiet
<1>3. /\ sta = "off" /\ ipc = "start" /\ bits = {} /\ attempts = 0
      /\ s_retry_num = 0 /\ dhcp = FALSE /\ hadIp = FALSE /\ apStable = FALSE
  BY DEF Init, PowerOn
<1>4. s_retry_num \in 0..APP_WIFI_MAX_RETRY /\ attempts \in 0..APP_WIFI_MAX_RETRY + 1
  BY <1>3
<1>5. events \in Seq(Events) /\ Len(events) <= 3
  BY <1>2, ShapesTyped
<1>6. /\ bits \subseteq {"connected", "fail"}
      /\ dhcp \in BOOLEAN /\ hadIp \in BOOLEAN /\ apStable \in BOOLEAN
  BY <1>3
<1> QED
  BY <1>1, <1>3, <1>4, <1>5, <1>6 DEF Inv, IndInv, TypeOK

\* Type correctness but for the queue and the counters.
StateOK ==
    /\ sta \in {"off", "idle", "connecting", "associated", "online"}
    /\ dhcp \in BOOLEAN /\ apStable \in BOOLEAN
    /\ bits \subseteq {"connected", "fail"}
    /\ ipc \in {"start", "started", "blocked", "ok", "fail"}
    /\ hadIp \in BOOLEAN

\* The rest of it follows from the inductive invariant.
LEMMA TypedNext ==
    (StateOK /\ s_retry_num \in 0..APP_WIFI_MAX_RETRY /\ QueueInv /\ AttemptInv
         => TypeOK)'
<1> SUFFICES ASSUME StateOK', s_retry_num' \in 0..APP_WIFI_MAX_RETRY,
                    QueueInv', AttemptInv'
             PROVE  TypeOK'
  OBVIOUS
<1>1. events' \in Shapes
  BY DEF StateOK, QueueInv, Shapes, Quiet, Starting
<1>2. attempts' \in 0..APP_WIFI_MAX_RETRY + 1
  BY DEF AttemptInv, StateOK
<1> QED
  BY <1>1, <1>2, ShapesTyped DEF StateOK, TypeOK

\* Each step preserves the invariant.
LEMMA StepInv == Inv /\ [Next]_vars => Inv'
<1> SUFFICES ASSUME Inv, [Next]_vars PROVE Inv'
  OBVIOUS
<1> USE DEF Inv, IndInv, QueueInv, AttemptInv, Quiet, Starting, driverVars,
            historyVars
<1>1. CASE StartWifi
  <2>1. Post("sta_start")
    BY <1>1 DEF StartWifi
  <2>2. QueueInv'
    BY <1>1, <2>1, PostedQueue
    DEF StartWifi, TypeOK
  <2>3. AttemptInv'
    BY <1>1, <2>1, PostedQueue
    DEF StartWifi, TypeOK
  <2>4. TypeOK'
    <3>1. StateOK' /\ s_retry_num' \in 0..APP_WIFI_MAX_RETRY
      BY <1>1 DEF StartWifi, StateOK, TypeOK
    <3> QED
      BY <2>2, <2>3, <3>1, TypedNext
  <2> QED
    BY <2>2, <2>3, <2>4
<1>2. CASE WaitBits
  <2>2. QueueInv'
    BY <1>2
    DEF WaitBits, Outcome, TypeOK
  <2>3. AttemptInv'
    BY <1>2
    DEF WaitBits, Outcome, TypeOK
  <2>4. TypeOK'
    <3>1. StateOK' /\ s_retry_num' \in 0..APP_WIFI_MAX_RETRY
      BY <1>2 DEF WaitBits, Outcome, StateOK, TypeOK
    <3> QED
      BY <2>2, <2>3, <3>1, TypedNext
  <2> QED
    BY <2>2, <2>3, <2>4
<1>3. CASE Restart
  <2>2. QueueInv'
    BY <1>3
    DEF Restart, TypeOK
  <2>3. AttemptInv'
    BY <1>3
    DEF Restart, TypeOK
  <2>4. TypeOK'
    <3>1. StateOK' /\ s_retry_num' \in 0..APP_WIFI_MAX_RETRY
      <4>1. UNCHANGED apStable /\ sta' = "off" /\ ipc' = "start" /\ bits' = {}
        BY <1>3 DEF Restart
      <4>2. dhcp' = FALSE /\ hadIp' = FALSE /\ s_retry_num' = 0
        BY <1>3 DEF Restart
      <4>3. s_retry_num' \in 0..APP_WIFI_MAX_RETRY /\ bits' \subseteq {"connected", "fail"}
        BY <4>1, <4>2
      <4>4. apStable' \in BOOLEAN
        BY <4>1 DEF TypeOK
      <4> QED
        BY <4>1, <4>2, <4>3, <4>4 DEF StateOK
    <3> QED
      BY <2>2, <2>3, <3>1, TypedNext
  <2> QED
    BY <2>2, <2>3, <2>4
<1>4. CASE HandleStart
  <2>1. Handle("sta_start")
    BY <1>4 DEF HandleStart
  <2>2. QueueInv'
    BY <1>4, <2>1, HandledQueue
    DEF HandleStart, Connect, TypeOK
  <2>3. AttemptInv'
    BY <1>4, <2>1, HandledQueue
    DEF HandleStart, Connect, TypeOK
  <2>4. TypeOK'
    <3>1. StateOK' /\ s_retry_num' \in 0..APP_WIFI_MAX_RETRY
      BY <1>4 DEF HandleStart, Connect, StateOK, TypeOK
    <3> QED
      BY <2>2, <2>3, <3>1, TypedNext
  <2> QED
    BY <2>2, <2>3, <2>4
<1>5. CASE HandleDisconnected
  <2>1. Handle("disconnected")
    BY <1>5 DEF HandleDisconnected
  <2>2. QueueInv'
    BY <1>5, <2>1, HandledQueue
    DEF HandleDisconnected, Connect, WithinBudget, SetBit, Outcome, TypeOK
  <2>3. AttemptInv'
    BY <1>5, <2>1, HandledQueue
    DEF HandleDisconnected, Connect, WithinBudget, SetBit, Outcome, TypeOK
  <2>4. TypeOK'
    <3>1. StateOK' /\ s_retry_num' \in 0..APP_WIFI_MAX_RETRY
      <4>1. CASE WithinBudget
        <5>1. /\ UNCHANGED <<bits, ipc, apStable, hadIp>> /\ dhcp' = FALSE
              /\ s_retry_num' = s_retry_num + 1
              /\ sta' \in {sta, "connecting"}
          BY <1>5, <4>1 DEF HandleDisconnected, Connect
        <5>2. s_retry_num' \in 0..APP_WIFI_MAX_RETRY
          BY <5>1, <4>1 DEF TypeOK, WithinBudget
        <5> QED
          BY <5>1, <5>2 DEF StateOK, TypeOK
      <4>2. CASE ~WithinBudget
        <5>1. /\ UNCHANGED <<sta, s_retry_num, apStable, hadIp>> /\ dhcp' = FALSE
              /\ bits' = bits \cup {"fail"}
              /\ ipc' = IF ipc = "blocked" THEN Outcome(bits') ELSE ipc
          BY <1>5, <4>2 DEF HandleDisconnected, SetBit
        <5>2. bits' \subseteq {"connected", "fail"}
          BY <5>1 DEF TypeOK
        <5>3. ipc' \in {"start", "started", "blocked", "ok", "fail"}
          BY <5>1 DEF TypeOK, Outcome
        <5> QED
          BY <5>1, <5>2, <5>3 DEF StateOK, TypeOK
      <4> QED
        BY <4>1, <4>2
    <3> QED
      BY <2>2, <2>3, <3>1, TypedNext
  <2> QED
    BY <2>2, <2>3, <2>4
<1>6. CASE HandleGotIp
  <2>1. Handle("got_ip")
    BY <1>6 DEF HandleGotIp
  <2>2. QueueInv'
    BY <1>6, <2>1, HandledQueue
    DEF HandleGotIp, SetBit, Outcome, TypeOK
  <2>3. AttemptInv'
    BY <1>6, <2>1, HandledQueue
    DEF HandleGotIp, SetBit, Outcome, TypeOK
  <2>4. TypeOK'
    <3>1. StateOK' /\ s_retry_num' \in 0..APP_WIFI_MAX_RETRY
      BY <1>6 DEF HandleGotIp, SetBit, Outcome, StateOK, TypeOK
    <3> QED
      BY <2>2, <2>3, <3>1, TypedNext
  <2> QED
    BY <2>2, <2>3, <2>4
<1>7. CASE Associate
  <2>2. QueueInv'
    BY <1>7
    DEF Associate, TypeOK
  <2>3. AttemptInv'
    BY <1>7
    DEF Associate, TypeOK
  <2>4. TypeOK'
    <3>1. StateOK' /\ s_retry_num' \in 0..APP_WIFI_MAX_RETRY
      BY <1>7 DEF Associate, StateOK, TypeOK
    <3> QED
      BY <2>2, <2>3, <3>1, TypedNext
  <2> QED
    BY <2>2, <2>3, <2>4
<1>8. CASE Lease
  <2>1. Post("got_ip")
    BY <1>8 DEF Lease
  <2>2. QueueInv'
    BY <1>8, <2>1, PostedQueue
    DEF Lease, TypeOK
  <2>3. AttemptInv'
    BY <1>8, <2>1, PostedQueue
    DEF Lease, TypeOK
  <2>4. TypeOK'
    <3>1. StateOK' /\ s_retry_num' \in 0..APP_WIFI_MAX_RETRY
      BY <1>8 DEF Lease, StateOK, TypeOK
    <3> QED
      BY <2>2, <2>3, <3>1, TypedNext
  <2> QED
    BY <2>2, <2>3, <2>4
<1>9. CASE ConnectFails
  <2>1. Post("disconnected")
    BY <1>9 DEF ConnectFails
  <2>2. QueueInv'
    BY <1>9, <2>1, PostedQueue
    DEF ConnectFails, TypeOK
  <2>3. AttemptInv'
    BY <1>9, <2>1, PostedQueue
    DEF ConnectFails, TypeOK
  <2>4. TypeOK'
    <3>1. StateOK' /\ s_retry_num' \in 0..APP_WIFI_MAX_RETRY
      BY <1>9 DEF ConnectFails, StateOK, TypeOK
    <3> QED
      BY <2>2, <2>3, <3>1, TypedNext
  <2> QED
    BY <2>2, <2>3, <2>4
<1>10. CASE ApLost
  <2>1. Post("disconnected")
    BY <1>10 DEF ApLost
  <2>2. QueueInv'
    BY <1>10, <2>1, PostedQueue
    DEF ApLost, TypeOK
  <2>3. AttemptInv'
    BY <1>10, <2>1, PostedQueue
    DEF ApLost, TypeOK
  <2>4. TypeOK'
    <3>1. StateOK' /\ s_retry_num' \in 0..APP_WIFI_MAX_RETRY
      BY <1>10 DEF ApLost, StateOK, TypeOK
    <3> QED
      BY <2>2, <2>3, <3>1, TypedNext
  <2> QED
    BY <2>2, <2>3, <2>4
<1>11. CASE ApStabilises
  <2>2. QueueInv'
    BY <1>11
    DEF ApStabilises, TypeOK
  <2>3. AttemptInv'
    BY <1>11
    DEF ApStabilises, TypeOK
  <2>4. TypeOK'
    <3>1. StateOK' /\ s_retry_num' \in 0..APP_WIFI_MAX_RETRY
      BY <1>11 DEF ApStabilises, StateOK, TypeOK
    <3> QED
      BY <2>2, <2>3, <3>1, TypedNext
  <2> QED
    BY <2>2, <2>3, <2>4
<1>12. CASE UNCHANGED vars
  BY <1>12 DEF vars, TypeOK
<1> QED
  BY <1>1, <1>2, <1>3, <1>4, <1>5, <1>6, <1>7, <1>8, <1>9, <1>10, <1>11, <1>12
  DEF Next, MainStep, EventStep, ApFailure

LEMMA Invariance == Spec => []Inv
<1>1. Init => Inv
  BY InitInv
<1>2. Inv /\ [Next]_vars => Inv'
  BY StepInv
<1> QED
  BY <1>1, <1>2, PTL DEF Spec

------------------------------------------------------------------------------
\* Type correctness: retries, attempts and the queue of events stay bounded.
THEOREM TypeCorrect == Spec => []TypeOK
BY Invariance, PTL DEF Inv

\* The inductive invariant, under its own name.
THEOREM IndInvHolds == Spec => []IndInv
BY Invariance, PTL DEF Inv

\* A station that rests has been given up, and the bit that says so is set.
THEOREM StopsAreTold == Spec => []NoSilentStop
<1>1. Inv => NoSilentStop
  BY DEF Inv, IndInv, QueueInv, AttemptInv, Starting, Quiet, Resting, NoSilentStop
<1> QED
  BY <1>1, Invariance, PTL

\* The device gives up only after the whole budget.
THEOREM BudgetIsUsedUp == Spec => BudgetUsedUp
<1> DEFINE Used == "fail" \notin bits /\ "fail" \in bits' =>
                       attempts = APP_WIFI_MAX_RETRY + (IF hadIp THEN 0 ELSE 1)
<1>1. Inv /\ [Next]_vars => [Used]_vars
  <2> SUFFICES ASSUME Inv, Next, "fail" \notin bits, "fail" \in bits'
               PROVE  attempts = APP_WIFI_MAX_RETRY + (IF hadIp THEN 0 ELSE 1)
    OBVIOUS
  <2>1. HandleDisconnected
    BY DEF Next, MainStep, EventStep, ApFailure, StartWifi, WaitBits, Restart,
           HandleStart, HandleGotIp, SetBit, Associate, Lease, ConnectFails,
           ApLost, ApStabilises, driverVars, historyVars
  <2>2. ~WithinBudget
    BY <2>1 DEF HandleDisconnected
  <2>3. s_retry_num = APP_WIFI_MAX_RETRY
    BY <2>2 DEF Inv, TypeOK, WithinBudget
  <2>4. Handle("disconnected")
    BY <2>1 DEF HandleDisconnected
  <2>5. events # <<>> /\ ~Starting
    BY <2>4, HandledQueue DEF Starting
  <2> QED
    BY <2>3, <2>5 DEF Inv, IndInv, QueueInv, AttemptInv
<1> QED
  BY <1>1, Invariance, PTL DEF Spec, BudgetUsedUp

\* The two ways for the device to be at rest.
UpForGood == apStable /\ ipc = "ok" /\ sta = "online"
GivenUp == ipc = "ok" /\ Resting /\ "fail" \in bits

\* The safety half of Settles: an access point that is up for good keeps the
\* station, with no disconnection left in the queue that would undo it; and a
\* station that is given up stays so, as nothing is left that would try again.
THEOREM RestIsFinal == Spec => [](UpForGood => []UpForGood) /\ [](GivenUp => []GivenUp)
<1>1. Inv /\ [Next]_vars => (UpForGood => UpForGood') /\ (GivenUp => GivenUp')
  <2> SUFFICES ASSUME Inv, [Next]_vars
               PROVE  (UpForGood => UpForGood') /\ (GivenUp => GivenUp')
    OBVIOUS
  <2> USE DEF UpForGood, GivenUp, Resting, driverVars, historyVars
  <2>1. /\ UpForGood => ~dhcp /\ events \in Quiet \cup {<<"got_ip", "got_ip">>}
        /\ GivenUp => ~dhcp
    BY DEF Inv, IndInv, QueueInv, Starting, Quiet
  <2>2. CASE MainStep
    BY <2>2 DEF MainStep, StartWifi, WaitBits, Restart
  <2>3. CASE HandleStart \/ HandleDisconnected
    <3>1. events # <<>> /\ Head(events) \in {"sta_start", "disconnected"}
      BY <2>3 DEF HandleStart, HandleDisconnected, Handle
    <3>2. ~(events \in Quiet \cup {<<"got_ip", "got_ip">>})
      BY <3>1 DEF Quiet
    <3> QED
      BY <2>1, <3>1, <3>2
  <2>4. CASE HandleGotIp
    BY <2>4 DEF HandleGotIp, Handle, SetBit
  <2>5. CASE Associate \/ Lease \/ ApFailure \/ ApStabilises
    BY <2>1, <2>5 DEF Associate, Lease, ApFailure, ConnectFails, ApLost, ApStabilises
  <2>6. CASE UNCHANGED vars
    BY <2>6 DEF vars
  <2> QED
    BY <2>2, <2>3, <2>4, <2>5, <2>6 DEF Next, EventStep
<1> QED
  BY <1>1, Invariance, PTL DEF Spec

==============================================================================
