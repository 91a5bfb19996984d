------------------------ MODULE StatusPublishersProofs -------------------------
(***************************************************************************)
(* Proofs about StatusPublishers, for arrays and buffers of any size and   *)
(* commands with strings of any length.                                    *)
(***************************************************************************)
EXTENDS StatusPublishers, TLAPS

\* A call of a setter that keeps a value the setting may have.
Acceptable(call) ==
    /\ call[1] \in Settings /\ Kept(call[1], call[2]) \in Values[call[1]]
    /\ call[1] \in Strings => call[2] \in Nat

\* Commands are sequences of such calls.
AcceptableCommands(Calls) ==
    (\A call \in Calls : Acceptable(call)) /\ CommandCalls \subseteq Seq(Calls)

\* strlcpy leaves room for the terminating NUL.
LEMMA KeptFits ==
    ASSUME NEW f \in Strings, NEW v \in Nat PROVE Kept(f, v) < Size[f]
<1>1. Size[f] \in Nat \ {0}
  BY SizesAssumption
<1> QED
  BY <1>1 DEF Kept

\* What the tasks read.
LEMMA SettingsRead ==
    /\ Strings \subseteq Settings /\ "log_level" \in Settings
    /\ \A t \in {"heartbeat", "log"} :
           /\ Len(ReadOrder[t]) \in Nat \ {0}
           /\ \A i \in 1..Len(ReadOrder[t]) : ReadOrder[t][i] \in Settings
           /\ \A f \in ToSet(ReadOrder[t]) :
                  f \in Settings /\ \E i \in 1..Len(ReadOrder[t]) : ReadOrder[t][i] = f
<1> USE DEF ReadOrder, HeartbeatSettings, LogSettings
<1>1. /\ ToSet(HeartbeatSettings)
             = {"heartbeat_interval_ms", "attribute_name", "device_status"}
      /\ ToSet(LogSettings) = {"log_interval_ms", "log_level"}
  BY DEF ToSet
<1>2. Strings \subseteq Settings /\ "log_level" \in Settings
  BY <1>1 DEF Settings, Strings
<1>3. ASSUME NEW t \in {"heartbeat", "log"}
      PROVE  /\ Len(ReadOrder[t]) \in Nat \ {0}
             /\ \A i \in 1..Len(ReadOrder[t]) : ReadOrder[t][i] \in Settings
             /\ \A f \in ToSet(ReadOrder[t]) :
                    f \in Settings
                    /\ \E i \in 1..Len(ReadOrder[t]) : ReadOrder[t][i] = f
  <2>1. CASE t = "heartbeat"
    <3>1. ReadOrder[t] = HeartbeatSettings /\ Len(HeartbeatSettings) = 3
      BY <2>1
    <3>2. \A i \in 1..3 : HeartbeatSettings[i] \in ToSet(HeartbeatSettings)
      BY <1>1
    <3>3. \A f \in ToSet(HeartbeatSettings) : \E i \in 1..3 : HeartbeatSettings[i] = f
      BY <1>1
    <3> HIDE DEF ReadOrder, HeartbeatSettings
    <3> QED
      BY <3>1, <3>2, <3>3 DEF Settings
  <2>2. CASE t = "log"
    <3>1. ReadOrder[t] = LogSettings /\ Len(LogSettings) = 2
      BY <2>2
    <3>2. \A i \in 1..2 : LogSettings[i] \in ToSet(LogSettings)
      BY <1>1
    <3>3. \A f \in ToSet(LogSettings) : \E i \in 1..2 : LogSettings[i] = f
      BY <1>1
    <3> HIDE DEF ReadOrder, LogSettings
    <3> QED
      BY <3>1, <3>2, <3>3 DEF Settings
  <2> QED
    BY <2>1, <2>2
<1> QED
  BY <1>2, <1>3

\* The invariant of the types, with the calls a command has still to make.
TypeInv(Calls) == TypeOK /\ todo \in Seq(Calls)

LEMMA TypeStep ==
    ASSUME NEW Calls, AcceptableCommands(Calls), TypeInv(Calls), [Next]_vars
    PROVE  TypeInv(Calls)'
<1> USE DEF TypeInv, TypeOK, topicVars
<1>1. ASSUME NEW c \in CommandCalls, ReceiveCommand(c) PROVE TypeInv(Calls)'
  BY <1>1 DEF ReceiveCommand, AcceptableCommands
<1>2. CASE CallSetter
  <2>1. PICK call \in Calls : call = Head(todo)
    BY <1>2 DEF CallSetter
  <2>2. Acceptable(call)
    BY <2>1 DEF AcceptableCommands
  <2> DEFINE f == call[1]
             v == Kept(call[1], call[2])
  <2>3. f \in Settings /\ v \in Values[f] /\ (f \in Strings => v < Size[f])
    BY <2>2, KeptFits DEF Acceptable
  <2>4. /\ s_cfg' = [s_cfg EXCEPT ![f] = v]
        /\ seen' = [seen EXCEPT ![f] = @ \cup {v}]
        /\ todo' \in Seq(Calls) /\ UNCHANGED <<task, tpc, nread, local, topicVars>>
    BY <1>2, <2>1 DEF CallSetter
  <2>5. \A g \in Settings : g # f => s_cfg'[g] = s_cfg[g] /\ seen'[g] = seen[g]
    BY <2>4
  <2>6. s_cfg'[f] = v /\ seen'[f] = seen[f] \cup {v}
    BY <2>3, <2>4
  <2> HIDE DEF f, v
  <2> QED
    BY <2>3, <2>4, <2>5, <2>6, SettingsRead
<1>3. CASE BeginCycle
  <2>1. \A f \in Settings : seen'[f] = {s_cfg[f]}
    BY <1>3 DEF BeginCycle
  <2>2. 0 \in 0..Len(ReadOrder[task])
    BY SettingsRead
  <2> QED
    BY <1>3, <2>1, <2>2 DEF BeginCycle
<1>4. CASE ReadSetting
  <2>1. nread \in Nat /\ nread + 1 \in 1..Len(ReadOrder[task])
    BY <1>4, SettingsRead DEF ReadSetting
  <2>2. PICK f \in Settings : f = ReadOrder[task][nread + 1]
    BY <2>1, SettingsRead
  <2>3. local' = [local EXCEPT ![f] = s_cfg[f]]
        /\ UNCHANGED <<task, s_cfg, todo, topicVars, seen>>
    BY <1>4, <2>2 DEF ReadSetting
  <2>4. nread' \in 0..Len(ReadOrder[task]) /\ tpc' \in {"read", "compose"}
    BY <1>4, <2>1 DEF ReadSetting
  <2>5. \A g \in Settings : local'[g] = local[g] \/ local'[g] = s_cfg[g]
    BY <2>3
  <2>6. \A g \in Settings : local'[g] \in Values[g]
    BY <2>5
  <2>7. \A g \in Strings : local'[g] < Size[g]
    BY <2>5, SettingsRead
  <2> QED
    BY <2>3, <2>4, <2>6, <2>7
<1>5. CASE ComposeHeartbeat \/ PublishMessage
  BY <1>5 DEF ComposeHeartbeat, PublishMessage
<1>6. CASE ComposeLog
  <2>1. local["log_level"] \in Values["log_level"]
    BY SettingsRead
  <2> QED
    BY <1>6, <2>1 DEF ComposeLog
<1>7. CASE UNCHANGED vars
  BY <1>7 DEF vars
<1> QED
  BY <1>1, <1>2, <1>3, <1>4, <1>5, <1>6, <1>7 DEF Next, TaskStep, CommandStep

LEMMA InitTypeInv == ASSUME NEW Calls, Init PROVE TypeInv(Calls)
<1>1. todo \in Seq(Calls) /\ 0 \in 0..Len(ReadOrder[task])
  BY SettingsRead DEF Init
<1>2. \A f \in Settings : seen[f] = {Defaults[f]} /\ Defaults[f] \in Values[f]
  BY ValuesAssumption DEF Init
<1> QED
  BY <1>1, <1>2, ValuesAssumption, SizesAssumption DEF Init, TypeInv, TypeOK

\* The type invariant: a stored string is shorter than its array.
THEOREM TypeCorrect ==
    ASSUME NEW CONSTANT Calls, AcceptableCommands(Calls) PROVE Spec => []TypeOK
<1>1. Init => TypeInv(Calls)
  BY InitTypeInv
<1>2. TypeInv(Calls) /\ [Next]_vars => TypeInv(Calls)'
  BY TypeStep
<1>3. TypeInv(Calls) => TypeOK
  BY DEF TypeInv
<1> QED
  BY <1>1, <1>2, <1>3, PTL DEF Spec

\* No heartbeat is dropped for its length.
THEOREM HeartbeatFits ==
    ASSUME NEW CONSTANT Calls, AcceptableCommands(Calls) PROVE Spec => []MessageFits
<1>1. TypeOK => MessageFits
  <2> SUFFICES ASSUME TypeOK PROVE Fits
    BY DEF MessageFits
  <2>1. /\ local["attribute_name"] \in Nat /\ Size["attribute_name"] \in Nat
        /\ local["attribute_name"] < Size["attribute_name"]
    BY SettingsRead, SizesAssumption DEF TypeOK, Strings
  <2>2. /\ local["device_status"] \in Nat /\ Size["device_status"] \in Nat
        /\ local["device_status"] < Size["device_status"]
    BY SettingsRead, SizesAssumption DEF TypeOK, Strings
  <2> QED
    BY <2>1, <2>2, SizesAssumption, DeviceIdAssumption DEF Fits, MessageLength
<1> QED
  BY <1>1, TypeCorrect, PTL

------------------------------------------------------------------------------
(* The topic of the log *)

\* Until the topic is built every level read so far was empty.
TopicInv ==
    /\ tpc = "publish" /\ task = "log" => last_log_level = local["log_level"]
    /\ topic = <<last_log_level>> \/ (topic = <<>> /\ last_log_level = NoLevel)

LEMMA TopicStep == ASSUME TopicInv, [Next]_vars PROVE TopicInv'
<1> USE DEF TopicInv, topicVars
<1>1. CASE CommandStep
  BY <1>1 DEF CommandStep, CallSetter, ReceiveCommand
<1>2. CASE BeginCycle \/ ReadSetting \/ PublishMessage
  BY <1>2 DEF BeginCycle, ReadSetting, PublishMessage
<1>3. CASE ComposeHeartbeat
  BY <1>3 DEF ComposeHeartbeat
<1>4. CASE ComposeLog
  BY <1>4 DEF ComposeLog
<1>5. CASE UNCHANGED vars
  BY <1>5 DEF vars
<1> QED
  BY <1>1, <1>2, <1>3, <1>4, <1>5 DEF Next, TaskStep

\* Every log message goes to the topic of the level read in its cycle, or, while
\* every level so far was empty, to a topic that was not built.
THEOREM TopicFollowsLevel == Spec => []TopicMatchesLevel
<1>1. Init => TopicInv
  BY DEF Init, TopicInv
<1>2. TopicInv /\ [Next]_vars => TopicInv'
  BY TopicStep
<1>3. TopicInv => TopicMatchesLevel
  BY DEF TopicInv, TopicMatchesLevel
<1> QED
  BY <1>1, <1>2, <1>3, PTL DEF Spec

------------------------------------------------------------------------------
(* Fresh messages *)

\* A setting's value is among those seen, and so are the local copies made so far.
FreshInv ==
    /\ \A f \in Settings : s_cfg[f] \in seen[f]
    /\ tpc = "read" =>
           \A i \in 1..nread : local[ReadOrder[task][i]] \in seen[ReadOrder[task][i]]
    /\ MessageIsFresh

LEMMA FreshStep == ASSUME TypeOK, FreshInv, [Next]_vars PROVE FreshInv'
<1> USE DEF TypeOK, FreshInv, MessageIsFresh, topicVars
<1>1. CASE CallSetter
  <2>1. PICK f, v : /\ s_cfg' = [s_cfg EXCEPT ![f] = v]
                    /\ seen' = [seen EXCEPT ![f] = @ \cup {v}]
    BY <1>1 DEF CallSetter
  <2>2. UNCHANGED <<task, tpc, nread, local>>
    BY <1>1 DEF CallSetter
  <2>3. \A g \in Settings : seen[g] \subseteq seen'[g] /\ s_cfg'[g] \in seen'[g]
    BY <2>1
  <2>4. \A i \in 1..nread : ReadOrder[task][i] \in Settings
    BY SettingsRead
  <2>5. \A g \in ToSet(ReadOrder[task]) : g \in Settings
    BY SettingsRead
  <2> QED
    BY <2>2, <2>3, <2>4, <2>5
<1>2. CASE BeginCycle
  BY <1>2 DEF BeginCycle
<1>3. CASE ReadSetting
  <2>1. nread \in Nat /\ nread + 1 \in 1..Len(ReadOrder[task])
    BY <1>3, SettingsRead DEF ReadSetting
  <2>2. PICK f \in Settings : f = ReadOrder[task][nread + 1]
    BY <2>1, SettingsRead
  <2>3. /\ tpc = "read" /\ local' = [local EXCEPT ![f] = s_cfg[f]]
        /\ nread' = nread + 1 /\ UNCHANGED <<task, s_cfg, seen>>
    BY <1>3, <2>2 DEF ReadSetting
  <2>4. local'[f] \in seen[f]
    BY <2>3
  <2>5. \A g \in Settings : g # f => local'[g] = local[g]
    BY <2>3
  <2>6. ASSUME NEW i \in 1..nread + 1
        PROVE  local'[ReadOrder[task][i]] \in seen[ReadOrder[task][i]]
    <3>1. ReadOrder[task][i] \in Settings
      BY <2>1, SettingsRead
    <3>2. CASE ReadOrder[task][i] = f
      BY <2>4, <3>2
    <3>3. CASE ReadOrder[task][i] # f
      BY <2>1, <2>2, <2>3, <2>5, <3>1, <3>3
    <3> QED
      BY <3>2, <3>3
  <2>7. tpc' = IF nread' = Len(ReadOrder[task]) THEN "compose" ELSE tpc
    BY <1>3 DEF ReadSetting
  <2>8. CASE nread + 1 = Len(ReadOrder[task])
    <3>1. ASSUME NEW g \in ToSet(ReadOrder[task]) PROVE local'[g] \in seen[g]
      <4>1. PICK i \in 1..Len(ReadOrder[task]) : ReadOrder[task][i] = g
        BY SettingsRead
      <4> QED
        BY <2>6, <2>8, <4>1
    <3> QED
      BY <2>3, <2>7, <2>8, <3>1
  <2>9. CASE nread + 1 # Len(ReadOrder[task])
    BY <2>3, <2>6, <2>7, <2>9
  <2> QED
    BY <2>8, <2>9
<1>4. CASE ComposeHeartbeat
  BY <1>4 DEF ComposeHeartbeat
<1>5. CASE ComposeLog
  BY <1>5 DEF ComposeLog
<1>6. CASE PublishMessage
  BY <1>6 DEF PublishMessage
<1>7. CASE (\E c \in CommandCalls : ReceiveCommand(c)) \/ UNCHANGED vars
  BY <1>7 DEF ReceiveCommand, vars
<1> QED
  BY <1>1, <1>2, <1>3, <1>4, <1>5, <1>6, <1>7 DEF Next, TaskStep, CommandStep

\* Every value of a message was the setting at some moment of its cycle.
THEOREM MessagesAreFresh ==
    ASSUME NEW CONSTANT Calls, AcceptableCommands(Calls)
    PROVE  Spec => []MessageIsFresh
<1>1. Init => FreshInv
  BY ValuesAssumption DEF Init, FreshInv, MessageIsFresh
<1>2. TypeOK /\ FreshInv /\ [Next]_vars => FreshInv'
  BY FreshStep
<1>3. FreshInv => MessageIsFresh
  BY DEF FreshInv
<1> QED
  BY <1>1, <1>2, <1>3, TypeCorrect, PTL DEF Spec

==============================================================================
