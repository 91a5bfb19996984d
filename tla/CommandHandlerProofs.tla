------------------------- MODULE CommandHandlerProofs --------------------------
(***************************************************************************)
(* Proofs about CommandHandler, for any commands, bounds and defaults that *)
(* satisfy its assumptions.                                                *)
(***************************************************************************)
EXTENDS CommandHandler, FiniteSetTheorems, TLAPS

------------------------------------------------------------------------------
(* The tables of the code *)

LEMMA TopicsListed ==
    /\ \A i \in 1..6 : TopicOrder[i] \in Topics
    /\ Topics = {"heartbeat", "counter", "log", "device", "reboot", "ota"}
<1>1. /\ DOMAIN TopicOrder = 1..6
      /\ TopicOrder[1] = "heartbeat" /\ TopicOrder[2] = "counter"
      /\ TopicOrder[3] = "log" /\ TopicOrder[4] = "device"
      /\ TopicOrder[5] = "reboot" /\ TopicOrder[6] = "ota"
  BY DEF TopicOrder
<1>2. Topics = {TopicOrder[i] : i \in 1..6}
  BY <1>1 DEF Topics, ToSet
<1> QED
  BY <1>1, <1>2

\* While a topic is missing there is a next one.
LEMMA NextTopic ==
    ASSUME NEW S \in SUBSET Topics, S # Topics
    PROVE  TopicOrder[Cardinality(S) + 1] \in Topics
<1> DEFINE order == [i \in 1..6 |-> TopicOrder[i]]
<1>1. order \in Surjection(1..6, Topics)
  <2>1. \A t \in Topics : \E i \in 1..6 : TopicOrder[i] = t
    BY DEF Topics, ToSet, TopicOrder
  <2> QED
    BY <2>1, TopicsListed DEF Surjection
<1>2. IsFiniteSet(1..6) /\ Cardinality(1..6) = 6
  <2>1. 1 \in Int /\ 6 \in Int
    OBVIOUS
  <2>2. /\ IsFiniteSet(1..6)
        /\ Cardinality(1..6) = IF 1 > 6 THEN 0 ELSE 6 - 1 + 1
    BY <2>1, FS_Interval, Zenon
  <2> QED
    BY <2>2
<1>3. IsFiniteSet(Topics) /\ Cardinality(Topics) <= 6
  BY <1>1, <1>2, FS_Surjection
<1>4. /\ Cardinality(S) \in Nat /\ Cardinality(Topics) \in Nat
      /\ Cardinality(S) < Cardinality(Topics)
  BY <1>3, FS_Subset, FS_CardinalityType
<1> QED
  BY <1>3, <1>4, TopicsListed

\* Every command has a row for each of its settings, and no two of the same.
LEMMA TableShape ==
    ASSUME NEW c \in DOMAIN CommandTable
    PROVE  /\ Len(CommandTable[c]) \in 0..3
           /\ \A i \in 1..Len(CommandTable[c]) : CommandTable[c][i][2] \in Settings
           /\ \A i, j \in 1..Len(CommandTable[c]) :
                  CommandTable[c][i][2] = CommandTable[c][j][2] => i = j
           /\ \A i \in 1..Len(CommandTable[c]) :
                  /\ CommandTable[c][i][2] \in IntervalSettings
                         => CommandTable[c][i][1] = "interval_ms"
                  /\ CommandTable[c][i][2] = "counter_id"
                         => CommandTable[c][i][1] = "counter_id"
                  /\ CommandTable[c][i][2] = "counter_reset_hour"
                         => CommandTable[c][i][1] = "reset_hour"
<1>1. c \in {"heartbeat", "counter", "log", "device", "ota"}
  BY DEF CommandTable
<1>2. CASE c \in {"heartbeat", "ota"}
  BY <1>2 DEF CommandTable, Settings, IntervalSettings
<1>3. CASE c = "counter"
  BY <1>3 DEF CommandTable, Settings, IntervalSettings
<1>4. CASE c = "log"
  BY <1>4 DEF CommandTable, Settings, IntervalSettings
<1>5. CASE c = "device"
  BY <1>5 DEF CommandTable, Settings, IntervalSettings
<1> QED
  BY <1>1, <1>2, <1>3, <1>4, <1>5

LEMMA TableLength ==
    ASSUME NEW c \in DOMAIN CommandTable PROVE Len(CommandTable[c]) \in 0..3
BY TableShape

\* The documentation and the code agree on which key of which command belongs to a
\* setting.
LEMMA TableIsDocumented ==
    ASSUME NEW c \in DOMAIN CommandTable, NEW f \in Settings
    PROVE  /\ \A i \in 1..Len(CommandTable[c]) :
                  CommandTable[c][i][2] = f => /\ Documented[f][1] = c
                                                 /\ Documented[f][2] = CommandTable[c][i][1]
           /\ Documented[f][1] = c
                  => \E i \in 1..Len(CommandTable[c]) : CommandTable[c][i][2] = f
<1>1. c \in {"heartbeat", "counter", "log", "device", "ota"}
  BY DEF CommandTable
<1>2. CASE c \in {"heartbeat", "ota"}
  BY <1>2 DEF CommandTable, Settings, Documented
<1>3. CASE c = "counter"
  BY <1>3 DEF CommandTable, Settings, Documented
<1>4. CASE c = "log"
  BY <1>4 DEF CommandTable, Settings, Documented
<1>5. CASE c = "device"
  BY <1>5 DEF CommandTable, Settings, Documented
<1> QED
  BY <1>1, <1>2, <1>3, <1>4, <1>5

\* Whatever number a command carries, the setting has room for what becomes of it.
LEMMA NumberInRange ==
    ASSUME NEW json, IsNumber(json) => json.twice \in Int
    PROVE  /\ Interval(json) \subseteq 0..UINT32_MAX
           /\ CounterId(json) \subseteq IntRange
           /\ ResetHour(json) \subseteq 0..RESET_DISABLED
<1>1. ResetHour(json) \subseteq 0..RESET_DISABLED
  BY WidthAssumption DEF ResetHour, Truncated, RESET_DISABLED
<1>2. IsNumber(json) /\ json.twice > 0 => Truncated(json.twice) \in Nat
  BY DEF Truncated
<1>3. Interval(json) \subseteq 0..UINT32_MAX
  BY <1>2, WidthAssumption DEF Interval
<1>4. CounterId(json) \subseteq IntRange
  BY DEF CounterId
<1> QED
  BY <1>1, <1>3, <1>4

\* Each value that the documentation calls valid is accepted for what it means, and
\* none that it rules out is accepted at all.
LEMMA MeaningAccepted ==
    ASSUME NEW f \in Settings, NEW json, IsNumber(json) => json.twice \in Int
    PROVE  LET accepted == Accepted(Documented[f][2], json)
           IN  /\ Meant(f, json) # {} => accepted # {} /\ accepted \subseteq Meant(f, json)
               /\ RuledOut(f, json) => accepted = {}
<1> USE DEF IsNumber, Accepted
<1>1. \A n \in Int : Truncated(2 * n) = n
  BY DEF Truncated
<1>2. CASE f \in IntervalSettings
  <2>1. Documented[f][2] = "interval_ms" /\ Documented[f][3] = "number"
    BY <1>2 DEF Documented, IntervalSettings
  <2>2. Accepted("interval_ms", json) = Interval(json)
    OBVIOUS
  <2>3. ASSUME Meant(f, json) # {} PROVE Interval(json) = Meant(f, json)
    <3>1. Meant(f, json) = {n \in 1..UINT32_MAX : 2 * n = json.twice} /\ IsNumber(json)
      BY <1>2, <2>1, <2>3 DEF Meant, IntervalSettings
    <3>2. PICK n \in 1..UINT32_MAX : 2 * n = json.twice
      BY <2>3, <3>1
    <3>3. n \in Nat /\ n > 0 /\ n <= UINT32_MAX
      BY WidthAssumption
    <3>4. Meant(f, json) = {n}
      BY <3>1, <3>2, <3>3, WidthAssumption
    <3>5. Interval(json) = {n}
      BY <1>1, <3>1, <3>2, <3>3, WidthAssumption DEF Interval
    <3> QED
      BY <3>4, <3>5
  <2>4. RuledOut(f, json) => Interval(json) = {}
    BY <2>1 DEF RuledOut, Interval
  <2> QED
    BY <2>1, <2>2, <2>3, <2>4
<1>3. CASE f = "counter_id"
  <2>1. Documented[f][2] = "counter_id" /\ Documented[f][3] = "number"
        /\ f \notin IntervalSettings
    BY <1>3 DEF Documented, IntervalSettings
  <2>2. Accepted("counter_id", json) = CounterId(json)
    OBVIOUS
  <2>3. ASSUME Meant(f, json) # {} PROVE CounterId(json) = Meant(f, json)
    <3>1. PICK n \in IntRange : 2 * n = json.twice /\ IsNumber(json)
      BY <1>3, <2>1, <2>3 DEF Meant
    <3>2. n \in Int /\ IntRange \subseteq Int
      BY WidthAssumption DEF IntRange
    <3>3. Meant(f, json) = {n}
      BY <1>3, <2>1, <3>1, <3>2 DEF Meant
    <3>4. CounterId(json) = {n}
      BY <1>1, <3>1, <3>2 DEF CounterId
    <3> QED
      BY <3>3, <3>4
  <2>4. RuledOut(f, json) => CounterId(json) = {}
    BY <2>1 DEF RuledOut, CounterId
  <2> QED
    BY <2>1, <2>2, <2>3, <2>4
<1>4. CASE f = "counter_reset_hour"
  <2>1. Documented[f][2] = "reset_hour" /\ Documented[f][3] = "number"
        /\ f \notin IntervalSettings
    BY <1>4 DEF Documented, IntervalSettings
  <2>2. Accepted("reset_hour", json) = ResetHour(json)
    OBVIOUS
  <2>3. ASSUME Meant(f, json) # {} PROVE ResetHour(json) = Meant(f, json)
    <3> DEFINE twice(h) == 2 * (IF h = RESET_DISABLED THEN 255 ELSE h)
    <3>1. PICK h \in 0..RESET_DISABLED : json.twice = twice(h) /\ IsNumber(json)
      BY <1>4, <2>1, <2>3 DEF Meant
    <3>2. Meant(f, json) = {g \in 0..RESET_DISABLED : json.twice = twice(g)}
      BY <1>4, <2>1, <3>1 DEF Meant, IsNumber
    <3>3. \A g \in 0..RESET_DISABLED : twice(g) = twice(h) => g = h
      BY <3>1, WidthAssumption DEF RESET_DISABLED
    <3>4. Meant(f, json) = {h}
      BY <3>1, <3>2, <3>3
    <3>5. ResetHour(json) = {h}
      <4>1. CASE h = RESET_DISABLED
        BY <3>1, <4>1, WidthAssumption DEF ResetHour, RESET_DISABLED
      <4>2. CASE h # RESET_DISABLED
        <5>1. h \in 0..LAST_HOUR /\ json.twice = 2 * h
          BY <3>1, <4>2, WidthAssumption DEF RESET_DISABLED
        <5> QED
          BY <1>1, <3>1, <5>1, WidthAssumption DEF ResetHour
      <4> QED
        BY <4>1, <4>2
    <3> QED
      BY <3>4, <3>5
  <2>4. RuledOut(f, json) => ResetHour(json) = {}
    BY <2>1 DEF RuledOut, ResetHour
  <2> QED
    BY <2>1, <2>2, <2>3, <2>4
<1>5. CASE f \in {"log_level", "attribute_name", "device_status"}
  <2>1. /\ Documented[f][2] \in {"level", "attribute_name", "device_status"}
        /\ Documented[f][3] = "string"
        /\ f \notin IntervalSettings \cup {"counter_id", "counter_reset_hour"}
    BY <1>5 DEF Documented, IntervalSettings
  <2>2. Accepted(Documented[f][2], json) = Text(json)
    BY <2>1
  <2>3. Meant(f, json) # {} => Text(json) = Meant(f, json)
    BY <2>1 DEF Meant, Text
  <2>4. RuledOut(f, json) => Text(json) = {}
    BY <2>1 DEF RuledOut, Text
  <2> QED
    BY <2>2, <2>3, <2>4
<1> QED
  BY <1>2, <1>3, <1>4, <1>5 DEF Settings, IntervalSettings

\* What the next setter may be called with, if it sets a number.
LEMMA NextValuesTyped ==
    ASSUME current \in Messages, current.topic \in DOMAIN CommandTable,
           done \in Nat, done < Len(Items),
           Items[done + 1][2] \in DOMAIN NumberType
    PROVE  NextValues \subseteq NumberType[Items[done + 1][2]]
<1> DEFINE key == Items[done + 1][1]
           f   == Items[done + 1][2]
<1>1. done + 1 \in 1..Len(CommandTable[current.topic])
  BY TableShape DEF Items
<1>2. /\ f \in IntervalSettings => key = "interval_ms"
      /\ f = "counter_id" => key = "counter_id"
      /\ f = "counter_reset_hour" => key = "reset_hour"
  BY <1>1, TableShape DEF Items
<1>3. CASE key \notin DOMAIN current.items
  BY <1>3 DEF NextValues, AcceptedItem
<1>4. CASE key \in DOMAIN current.items
  <2> DEFINE json == current.items[key]
  <2>1. IsNumber(json) => json.twice \in Int
    BY <1>4, NumbersAssumption
  <2>2. /\ Interval(json) \subseteq 0..UINT32_MAX
        /\ CounterId(json) \subseteq IntRange
        /\ ResetHour(json) \subseteq 0..RESET_DISABLED
    BY <2>1, NumberInRange
  <2>3. NextValues = Accepted(key, json)
    BY <1>4 DEF NextValues, AcceptedItem
  <2>4. CASE f \in IntervalSettings
    <3>1. NextValues = Interval(json)
      BY <1>2, <2>3, <2>4 DEF Accepted
    <3> QED
      BY <2>2, <2>4, <3>1 DEF NumberType, IntervalSettings
  <2>5. CASE f = "counter_reset_hour"
    <3>1. NextValues = ResetHour(json)
      BY <1>2, <2>3, <2>5 DEF Accepted
    <3> QED
      BY <2>2, <2>5, <3>1 DEF NumberType, IntervalSettings
  <2>6. CASE f = "counter_id"
    <3>1. NextValues = CounterId(json)
      BY <1>2, <2>3, <2>6 DEF Accepted
    <3> QED
      BY <2>2, <2>6, <3>1 DEF NumberType, IntervalSettings
  <2> QED
    BY <2>4, <2>5, <2>6 DEF NumberType
<1> QED
  BY <1>3, <1>4

------------------------------------------------------------------------------
(* Types *)

\* The broker keeps nothing.
LEMMA NothingKept ==
    EndConnection => /\ linked' \in BOOLEAN /\ ~linked'
                     /\ session' = {} /\ queue' = <<>>
<1>1. EndConnection => linked' \in BOOLEAN /\ ~linked'
  BY DEF EndConnection
<1>2. EndConnection => session' = {} /\ queue' = <<>>
  BY DEF EndConnection, CleanSession
<1> QED
  BY <1>1, <1>2

\* Only topics that were subscribed reach the handler, it looks for items only of
\* the commands in its table, and the command it acknowledges is the one it handled.
DeliveryInv ==
    /\ \A i \in 1..Len(queue) : queue[i].topic \in Topics
    /\ hpc = "set" => current \in Messages /\ current.topic \in DOMAIN CommandTable
    /\ hpc # "idle" /\ linked => queue # <<>> /\ Head(queue) = current
    /\ mpc # "running" => stored # Topics

TypeInv == TypeOK /\ DeliveryInv

LEMMA TypeStep == TypeInv /\ [Next]_vars => TypeInv'
<1> SUFFICES ASSUME TypeInv, [Next]_vars PROVE TypeInv'
  OBVIOUS
<1> USE BoundsAssumption
    DEF TypeInv, TypeOK, DeliveryInv, brokerVars, mainVars, handlerVars, historyVars,
        counters
<1>1. ASSUME NEW m \in Messages, PublishCommand(m) PROVE TypeInv'
  <2>1. queue' \in Seq(Messages) /\ Len(queue') = Len(queue) + 1
        /\ \A i \in 1..Len(queue') : queue'[i] = IF i <= Len(queue) THEN queue[i] ELSE m
    BY <1>1 DEF PublishCommand
  <2>2. m.topic \in Topics /\ Len(queue') <= QUEUE_LEN
    BY <1>1, <2>1 DEF PublishCommand
  <2>3. rebootsSent' \in 0..REBOOT_MAX
    BY <1>1 DEF PublishCommand
  <2>4. \A i \in 1..Len(queue') : queue'[i].topic \in Topics
    BY <2>1, <2>2
  <2> QED
    <3>1. queue # <<>> => queue' # <<>> /\ Head(queue') = Head(queue)
      BY <1>1 DEF PublishCommand
    <3> QED
      BY <1>1, <2>1, <2>2, <2>3, <2>4, <3>1 DEF PublishCommand
<1>2. CASE ConnectionLost
  BY <1>2, NothingKept DEF ConnectionLost
<1>3. CASE Connect
  <2>1. linked' \in BOOLEAN /\ session' \subseteq Topics /\ hpc' = "idle"
    BY <1>3 DEF Connect
  <2> QED
    BY <1>3, <2>1 DEF Connect
<1>4. CASE RegisterHandler
  <2>1. s_message_handler' \in BOOLEAN
    BY <1>4 DEF RegisterHandler
  <2> QED
    BY <1>4, <2>1 DEF RegisterHandler
<1>5. CASE Subscribe
  <2>1. TopicOrder[Cardinality(stored) + 1] \in Topics
    BY <1>5, NextTopic DEF Subscribe
  <2> QED
    BY <1>5, <2>1 DEF Subscribe
<1>6. CASE Deliver
  <2>1. 1 \in 1..Len(queue) /\ Head(queue) \in Messages /\ Head(queue) = queue[1]
    BY <1>6 DEF Deliver
  <2>2. Head(queue).topic \in Topics
    BY <2>1
  <2>3. hpc' = "set" => Head(queue).topic \in DOMAIN CommandTable
    <3>1. hpc' = "set" => Head(queue).topic # "reboot"
      BY <1>6 DEF Deliver, Dispatch
    <3> QED
      BY <2>2, <3>1, TopicsListed DEF CommandTable
  <2>4. hpc' \in {"set", "ack", "reboot"}
    BY <1>6 DEF Deliver, Dispatch
  <2> QED
    BY <1>6, <2>1, <2>3, <2>4 DEF Deliver
<1>7. CASE HandleItem
  <2>1. done \in Nat /\ done < Len(Items) /\ done' = done + 1 /\ hpc = "set"
    BY <1>7 DEF HandleItem
  <2>2. done' \in 0..3
    <3>1. PICK n \in 0..3 : n = Len(Items)
      BY <2>1, TableLength DEF Items
    <3>2. done \in Nat /\ done < n
      BY <2>1, <3>1
    <3>3. done + 1 \in 0..3
      BY <3>2
    <3> QED
      BY <2>1, <3>3
  <2>3. ASSUME NEW v \in NextValues, s_cfg' = [s_cfg EXCEPT ![Items[done + 1][2]] = v]
        PROVE  /\ DOMAIN s_cfg' = Settings
               /\ \A f \in DOMAIN NumberType : s_cfg'[f] \in NumberType[f]
    <3>1. DOMAIN s_cfg' = Settings /\ DOMAIN NumberType \subseteq Settings
      BY <2>3 DEF Settings, NumberType, IntervalSettings
    <3>2. ASSUME NEW f \in DOMAIN NumberType PROVE s_cfg'[f] \in NumberType[f]
      <4>1. CASE Items[done + 1][2] = f
        <5>1. s_cfg'[f] = v
          BY <2>3, <3>1, <4>1
        <5> QED
          BY <2>1, <4>1, <5>1, NextValuesTyped
      <4>2. CASE Items[done + 1][2] # f
        <5>1. s_cfg'[f] = s_cfg[f]
          BY <2>3, <3>1, <4>2
        <5> QED
          BY <5>1
      <4> QED
        BY <4>1, <4>2
    <3> QED
      BY <3>1, <3>2
  <2>4. CASE NextValues = {}
    BY <1>7, <2>2, <2>4 DEF HandleItem
  <2>5. CASE NextValues # {}
    <3>1. \E v \in NextValues : s_cfg' = [s_cfg EXCEPT ![Items[done + 1][2]] = v]
      BY <1>7, <2>5 DEF HandleItem
    <3>2. /\ DOMAIN s_cfg' = Settings
          /\ \A f \in DOMAIN NumberType : s_cfg'[f] \in NumberType[f]
      BY <2>3, <3>1
    <3> QED
      BY <1>7, <2>2, <3>2 DEF HandleItem
  <2> QED
    BY <2>4, <2>5
<1>8. CASE Acknowledge
  <2>1. queue # <<>> => /\ Tail(queue) \in Seq(Messages)
                        /\ Len(Tail(queue)) = Len(queue) - 1
                        /\ \A i \in 1..Len(Tail(queue)) : Tail(queue)[i] = queue[i + 1]
    OBVIOUS
  <2>2. linked => queue # <<>>
    BY <1>8 DEF Acknowledge, HandlerIdle
  <2>3. /\ queue' \in Seq(Messages) /\ Len(queue') <= Len(queue)
        /\ \A i \in 1..Len(queue') : queue'[i].topic \in Topics
    <3>1. CASE linked
      BY <1>8, <2>1, <2>2, <3>1 DEF Acknowledge, HandlerIdle
    <3>2. CASE ~linked
      BY <1>8, <3>2 DEF Acknowledge, HandlerIdle
    <3> QED
      BY <3>1, <3>2
  <2> QED
    BY <1>8, <2>3 DEF Acknowledge, HandlerIdle
<1>9. CASE Restart
  <2>1. s_message_handler' \in BOOLEAN
    BY <1>9 DEF Restart, HandlerIdle
  <2>2. stored' # Topics /\ hpc' = "idle" /\ restarts' \in Nat
    BY <1>9, TopicsListed DEF Restart, HandlerIdle
  <2> QED
    BY <1>9, <2>1, <2>2, NothingKept, DefaultsAssumption DEF Restart, HandlerIdle
<1>10. CASE UNCHANGED vars
  BY <1>10 DEF vars
<1> QED
  BY <1>1, <1>2, <1>3, <1>4, <1>5, <1>6, <1>7, <1>8, <1>9, <1>10
  DEF Next, MqttStep

LEMMA TypeInvHolds == Spec => []TypeInv
<1>1. Init => TypeInv
  <2>1. {} # Topics
    BY TopicsListed
  <2>2. Init => linked \in BOOLEAN /\ s_message_handler \in BOOLEAN
    BY DEF Init, PoweredOn
  <2> QED
    BY <2>1, <2>2, DefaultsAssumption, BoundsAssumption
    DEF Init, PoweredOn, TypeInv, TypeOK, DeliveryInv
<1> QED
  BY <1>1, TypeStep, PTL DEF Spec

\* The type invariant.
THEOREM TypeCorrect == Spec => []TypeOK
<1>1. TypeInv => TypeOK
  BY DEF TypeInv
<1> QED
  BY <1>1, TypeInvHolds, PTL

------------------------------------------------------------------------------
(* No command goes unheard *)

\* What carries NoCommandUnheard: a topic is stored, and a session subscribed, only
\* after the handler was registered, and a command needs a session.
HeardInv ==
    /\ mpc = "wait" => stored = {}
    /\ mpc # "wait" => s_message_handler
    /\ session # {} => s_message_handler
    /\ queue # <<>> => session # {}
    /\ ~linked => session = {}

LEMMA HeardStep == TypeInv /\ HeardInv /\ [Next]_vars => HeardInv'
<1> SUFFICES ASSUME TypeInv, HeardInv, [Next]_vars PROVE HeardInv'
  OBVIOUS
<1> USE DEF TypeInv, TypeOK, HeardInv, brokerVars, mainVars, handlerVars, historyVars,
            counters
<1>1. ASSUME NEW m \in Messages, PublishCommand(m) PROVE HeardInv'
  BY <1>1 DEF PublishCommand
<1>2. CASE ConnectionLost
  BY <1>2, NothingKept DEF ConnectionLost
<1>3. CASE Connect
  BY <1>3 DEF Connect
<1>4. CASE RegisterHandler
  BY <1>4 DEF RegisterHandler
<1>5. CASE Subscribe
  BY <1>5 DEF Subscribe
<1>6. CASE Deliver \/ HandleItem
  <2>1. UNCHANGED <<linked, session, queue, mpc, stored, s_message_handler>>
    BY <1>6 DEF Deliver, HandleItem
  <2> QED
    BY <2>1
<1>7. CASE Acknowledge
  <2>1. linked => queue # <<>>
    BY <1>7 DEF Acknowledge, DeliveryInv, HandlerIdle
  <2>2. UNCHANGED <<linked, session, mpc, stored, s_message_handler>>
    BY <1>7 DEF Acknowledge, HandlerIdle
  <2>3. queue' # <<>> => queue # <<>>
    <3>1. linked \/ queue' = queue
      BY <1>7 DEF Acknowledge, HandlerIdle
    <3> QED
      BY <2>1, <3>1
  <2> QED
    BY <2>2, <2>3
<1>8. CASE Restart
  BY <1>8, NothingKept DEF Restart, HandlerIdle
<1>9. CASE UNCHANGED vars
  BY <1>9 DEF vars
<1> QED
  BY <1>1, <1>2, <1>3, <1>4, <1>5, <1>6, <1>7, <1>8, <1>9 DEF Next, MqttStep

\* No command reaches the device at a moment when nobody would handle it.
THEOREM CommandsAreHeard == Spec => []NoCommandUnheard
<1>1. Init => HeardInv
  BY DEF Init, PoweredOn, HeardInv
<1>2. HeardInv => NoCommandUnheard
  BY DEF HeardInv, NoCommandUnheard
<1> QED
  BY <1>1, <1>2, HeardStep, TypeInvHolds, PTL DEF Spec

------------------------------------------------------------------------------
(* A reboot command is obeyed *)

\* What the handler does with such a command is to restart, never to acknowledge it.
ObeyInv == RebootDue => hpc \in {"idle", "reboot"}

LEMMA ObeyStep == TypeInv /\ HeardInv /\ ObeyInv /\ [Next]_vars => ObeyInv'
<1> SUFFICES ASSUME TypeInv, HeardInv, ObeyInv, [Next]_vars PROVE ObeyInv'
  OBVIOUS
<1> USE DEF ObeyInv, RebootDue, brokerVars, mainVars, handlerVars, historyVars, counters
<1>1. ASSUME NEW m \in Messages, PublishCommand(m) PROVE ObeyInv'
  <2>1. queue # <<>> => queue' # <<>> /\ Head(queue') = Head(queue)
    BY <1>1 DEF PublishCommand, TypeInv, TypeOK
  <2>2. queue = <<>> /\ linked => hpc = "idle"
    BY DEF TypeInv, DeliveryInv
  <2> QED
    BY <1>1, <2>1, <2>2 DEF PublishCommand
<1>2. CASE ConnectionLost
  BY <1>2, NothingKept DEF ConnectionLost
<1>3. CASE Connect \/ Acknowledge \/ Restart
  BY <1>3 DEF Connect, Acknowledge, Restart, HandlerIdle
<1>4. CASE Deliver
  BY <1>4 DEF Deliver, Dispatch, Handled, HeardInv
<1>5. CASE RegisterHandler \/ Subscribe \/ HandleItem \/ UNCHANGED vars
  <2>1. UNCHANGED <<linked, queue, hpc>>
    BY <1>5 DEF RegisterHandler, Subscribe, HandleItem, vars
  <2> QED
    BY <2>1
<1> QED
  BY <1>1, <1>2, <1>3, <1>4, <1>5 DEF Next, MqttStep

\* The safety half of RebootObeyed: a step that removes a reboot command which was
\* received whole from the head of the queue ends the connection.  The device
\* cannot acknowledge the command and go on.
THEOREM RebootNotSwallowed ==
    Spec => [][RebootDue => RebootDue' \/ ~linked']_vars
<1>1. Init => ObeyInv
  BY DEF Init, PoweredOn, ObeyInv
<1>2. TypeInv /\ ObeyInv /\ RebootDue /\ [Next]_vars => RebootDue' \/ ~linked'
  <2> SUFFICES ASSUME TypeInv, ObeyInv, RebootDue, [Next]_vars
               PROVE  RebootDue' \/ ~linked'
    OBVIOUS
  <2> USE DEF RebootDue, brokerVars, mainVars, handlerVars, historyVars, counters
  <2>1. ASSUME NEW m \in Messages, PublishCommand(m) PROVE RebootDue'
    <3>1. queue' # <<>> /\ Head(queue') = Head(queue) /\ linked' = linked
      BY <2>1 DEF PublishCommand, TypeInv, TypeOK
    <3> QED
      BY <3>1
  <2>2. CASE ConnectionLost \/ Restart
    BY <2>2, NothingKept DEF ConnectionLost, Restart, HandlerIdle
  <2>3. CASE Connect \/ Acknowledge
    BY <2>3 DEF Connect, Acknowledge, HandlerIdle, ObeyInv
  <2>4. CASE RegisterHandler \/ Subscribe \/ Deliver \/ HandleItem \/ UNCHANGED vars
    <3>1. queue' = queue /\ linked' = linked
      BY <2>4 DEF RegisterHandler, Subscribe, Deliver, HandleItem, vars
    <3> QED
      BY <3>1
  <2> QED
    BY <2>1, <2>2, <2>3, <2>4 DEF Next, MqttStep
<1>3. TypeInv /\ ObeyInv /\ [Next]_vars => [RebootDue => RebootDue' \/ ~linked']_vars
  BY <1>2
<1>4. Init => HeardInv
  BY DEF Init, PoweredOn, HeardInv
<1> QED
  BY <1>1, <1>3, <1>4, ObeyStep, HeardStep, TypeInvHolds, PTL DEF Spec

------------------------------------------------------------------------------
(* One restart per command *)

\* As long as a reboot command is queued or handled, one more was sent than the
\* device has restarted for; the restart forgets the queue with the session.
RebootInv ==
    /\ OneRestartPerCommand
    /\ hpc = "reboot" => restarts < rebootsSent
    /\ \A i \in 1..Len(queue) : queue[i].topic = "reboot" => restarts < rebootsSent

LEMMA RebootStep == TypeInv /\ RebootInv /\ [Next]_vars => RebootInv'
<1> SUFFICES ASSUME TypeInv, RebootInv, [Next]_vars PROVE RebootInv'
  OBVIOUS
<1> USE BoundsAssumption
    DEF TypeInv, TypeOK, RebootInv, OneRestartPerCommand, brokerVars, mainVars,
        handlerVars, historyVars, counters
<1>1. ASSUME NEW m \in Messages, PublishCommand(m) PROVE RebootInv'
  <2>1. /\ Len(queue') = Len(queue) + 1
        /\ \A i \in 1..Len(queue') : queue'[i] = IF i <= Len(queue) THEN queue[i] ELSE m
    BY <1>1 DEF PublishCommand
  <2>2. UNCHANGED <<hpc, restarts>> /\ rebootsSent' \in Nat /\ rebootsSent' >= rebootsSent
    BY <1>1 DEF PublishCommand
  <2>3. m.topic = "reboot" => restarts < rebootsSent'
    BY <1>1 DEF PublishCommand
  <2>4. ASSUME NEW i \in 1..Len(queue'), queue'[i].topic = "reboot"
        PROVE  restarts < rebootsSent'
    <3>1. CASE i <= Len(queue)
      BY <2>1, <2>2, <2>4, <3>1
    <3>2. CASE ~(i <= Len(queue))
      BY <2>1, <2>3, <2>4, <3>2
    <3> QED
      BY <3>1, <3>2
  <2> QED
    BY <2>2, <2>4
<1>2. CASE ConnectionLost
  BY <1>2, NothingKept DEF ConnectionLost
<1>3. CASE Deliver
  <2>1. hpc' = "reboot" => Head(queue).topic = "reboot"
    BY <1>3 DEF Deliver, Dispatch
  <2>2. 1 \in 1..Len(queue) /\ Head(queue) = queue[1]
    BY <1>3 DEF Deliver
  <2> QED
    BY <1>3, <2>1, <2>2 DEF Deliver
<1>4. CASE Acknowledge
  <2>1. linked => queue # <<>>
    BY <1>4 DEF Acknowledge, DeliveryInv, HandlerIdle
  <2>2. queue # <<>> => /\ Len(Tail(queue)) = Len(queue) - 1
                        /\ \A i \in 1..Len(Tail(queue)) : Tail(queue)[i] = queue[i + 1]
    OBVIOUS
  <2> QED
    BY <1>4, <2>1, <2>2 DEF Acknowledge, HandlerIdle
<1>5. CASE Restart
  BY <1>5, NothingKept DEF Restart, HandlerIdle
<1>6. CASE Connect \/ RegisterHandler \/ Subscribe \/ HandleItem \/ UNCHANGED vars
  <2>1. UNCHANGED <<hpc, queue, restarts, rebootsSent>>
    BY <1>6 DEF Connect, RegisterHandler, Subscribe, HandleItem, vars
  <2> QED
    BY <2>1
<1> QED
  BY <1>1, <1>2, <1>3, <1>4, <1>5, <1>6 DEF Next, MqttStep

\* No reboot command makes the device restart twice.
THEOREM OneRestart == Spec => []OneRestartPerCommand
<1>1. Init => RebootInv
  BY DEF Init, PoweredOn, RebootInv, OneRestartPerCommand
<1>2. RebootInv => OneRestartPerCommand
  BY DEF RebootInv
<1> QED
  BY <1>1, <1>2, RebootStep, TypeInvHolds, PTL DEF Spec

------------------------------------------------------------------------------
(* A command is applied whole *)

\* What f is after an item that asks for the given values.
After(f, asked) == IF asked = {} THEN {before[f]} ELSE asked

\* The items that are done are in effect, and no other setting has changed.
AppliedInv ==
    hpc = "set" =>
        /\ done <= Len(Items)
        /\ \A i \in 1..done :
               s_cfg[Items[i][2]]
                   \in After(Items[i][2], AcceptedItem(Items[i][1], current.items))
        /\ \A f \in Settings : (\A i \in 1..done : Items[i][2] # f) => s_cfg[f] = before[f]

LEMMA AppliedStep == TypeInv /\ AppliedInv /\ [Next]_vars => AppliedInv'
<1> SUFFICES ASSUME TypeInv, AppliedInv, [Next]_vars PROVE AppliedInv'
  OBVIOUS
<1> USE DEF TypeInv, TypeOK, AppliedInv, brokerVars, mainVars, handlerVars, historyVars,
            counters
<1>1. CASE Deliver
  <2>1. hpc' = "set" => Len(Items)' \in 0..3
    BY <1>1, TypeStep, TableShape DEF DeliveryInv, Items
  <2>2. done' = 0 /\ before' = s_cfg /\ s_cfg' = s_cfg
    BY <1>1 DEF Deliver
  <2> QED
    BY <2>1, <2>2
<1>2. CASE HandleItem
  <2> DEFINE n == done + 1
             g == Items[n][2]
             asked == AcceptedItem(Items[n][1], current.items)
  <2>1. /\ hpc = "set" /\ n \in 1..Len(Items) /\ done' = n /\ Len(Items) \in Nat
        /\ UNCHANGED <<hpc, current, before>>
    BY <1>2, TableShape DEF HandleItem, DeliveryInv, Items
  <2>2. g \in Settings /\ \A i \in 1..done : Items[i][2] \in Settings \ {g}
    BY <2>1, TableShape DEF DeliveryInv, Items
  <2>3. /\ s_cfg'[g] \in After(g, asked)
        /\ \A f \in Settings : f # g => s_cfg'[f] = s_cfg[f]
    <3>1. CASE asked = {}
      <4>1. s_cfg' = s_cfg
        BY <1>2, <3>1 DEF HandleItem, NextValues
      <4>2. s_cfg[g] = before[g]
        BY <2>1, <2>2
      <4> QED
        BY <3>1, <4>1, <4>2 DEF After
    <3>2. CASE asked # {}
      <4>1. PICK v \in asked : s_cfg' = [s_cfg EXCEPT ![g] = v]
        BY <1>2, <3>2 DEF HandleItem, NextValues
      <4> QED
        BY <2>2, <3>2, <4>1 DEF After
    <3> QED
      BY <3>1, <3>2
  <2>4. UNCHANGED Items /\ \A f, S : After(f, S)' = After(f, S)
    BY <2>1 DEF Items, After
  <2>5. ASSUME NEW i \in 1..n
        PROVE  s_cfg'[Items[i][2]]
                   \in After(Items[i][2], AcceptedItem(Items[i][1], current.items))
    <3>1. CASE i = n
      BY <2>3, <3>1
    <3>2. CASE i # n
      <4>1. i \in 1..done /\ Items[i][2] \in Settings \ {g}
        BY <2>1, <2>2, <2>5, <3>2
      <4> QED
        BY <2>1, <2>3, <4>1
    <3> QED
      BY <3>1, <3>2
  <2>6. ASSUME NEW f \in Settings, \A i \in 1..n : Items[i][2] # f
        PROVE  s_cfg'[f] = before[f]
    <3>1. g # f /\ \A i \in 1..done : Items[i][2] # f
      BY <2>1, <2>6
    <3> QED
      BY <2>1, <2>3, <3>1
  <2> QED
    BY <2>1, <2>4, <2>5, <2>6
<1>3. CASE Restart \/ Acknowledge
  BY <1>3 DEF Restart, Acknowledge, HandlerIdle
<1>4. CASE \/ \E m \in Messages : PublishCommand(m)
           \/ ConnectionLost \/ Connect \/ RegisterHandler \/ Subscribe
           \/ UNCHANGED vars
  <2>1. UNCHANGED <<hpc, done, s_cfg, current, before>>
    BY <1>4 DEF PublishCommand, ConnectionLost, Connect, RegisterHandler, Subscribe, vars
  <2> QED
    BY <2>1 DEF Items, After
<1> QED
  BY <1>1, <1>2, <1>3, <1>4 DEF Next, MqttStep

\* When a command is done, each field it carried with a valid value is in effect;
\* a setting it did not carry, or with a value that is ruled out, has not changed.
THEOREM CommandsAreApplied == Spec => []CommandAppliedWhole
<1>1. Init => AppliedInv
  BY DEF Init, PoweredOn, AppliedInv
<1>2. TypeInv /\ AppliedInv => CommandAppliedWhole
  <2> DEFINE key(f)  == Documented[f][2]
             json(f) == current.items[key(f)]
             carried(f) == current.topic = Documented[f][1] /\ key(f) \in DOMAIN current.items
  <2> SUFFICES ASSUME TypeInv, AppliedInv, hpc = "set", done = Len(Items),
                      NEW f \in Settings
               PROVE  IF carried(f)
                      THEN /\ Meant(f, json(f)) # {} => s_cfg[f] \in Meant(f, json(f))
                           /\ RuledOut(f, json(f)) => s_cfg[f] = before[f]
                      ELSE s_cfg[f] = before[f]
    <3>1. DOMAIN Documented = Settings
      BY DEF Documented, Settings
    <3> QED
      BY <3>1 DEF CommandAppliedWhole
  <2>1. current.topic \in DOMAIN CommandTable /\ current \in Messages
    BY DEF TypeInv, DeliveryInv
  <2>2. ASSUME current.topic = Documented[f][1]
        PROVE  s_cfg[f] \in After(f, AcceptedItem(key(f), current.items))
    <3>1. PICK i \in 1..Len(Items) : Items[i][2] = f
      BY <2>1, <2>2, TableIsDocumented DEF Items
    <3>2. key(f) = Items[i][1]
      BY <2>1, <3>1, TableIsDocumented DEF Items
    <3> QED
      BY <3>1, <3>2 DEF AppliedInv
  <2>3. CASE carried(f)
    <3>1. /\ Meant(f, json(f)) # {} => /\ Accepted(key(f), json(f)) # {}
                                       /\ Accepted(key(f), json(f)) \subseteq Meant(f, json(f))
          /\ RuledOut(f, json(f)) => Accepted(key(f), json(f)) = {}
      <4>1. IsNumber(json(f)) => json(f).twice \in Int
        BY <2>1, <2>3, NumbersAssumption
      <4> QED
        BY <4>1, MeaningAccepted
    <3>2. s_cfg[f] \in After(f, Accepted(key(f), json(f)))
      BY <2>2, <2>3 DEF AcceptedItem
    <3> HIDE DEF key, json
    <3> QED
      BY <2>3, <3>1, <3>2 DEF After
  <2>4. CASE ~carried(f)
    <3>1. CASE current.topic = Documented[f][1]
      BY <2>2, <2>4, <3>1 DEF AcceptedItem, After
    <3>2. CASE current.topic # Documented[f][1]
      <4>1. \A i \in 1..Len(Items) : Items[i][2] # f
        BY <2>1, <3>2, TableIsDocumented DEF Items
      <4> QED
        BY <2>4, <4>1 DEF AppliedInv
    <3> QED
      BY <3>1, <3>2
  <2> QED
    BY <2>3, <2>4
<1> QED
  BY <1>1, <1>2, AppliedStep, TypeInvHolds, PTL DEF Spec

==============================================================================
