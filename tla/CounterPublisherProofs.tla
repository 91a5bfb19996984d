------------------------ MODULE CounterPublisherProofs -------------------------
(***************************************************************************)
(* Proofs about CounterPublisher, for days of any length, any settings and *)
(* any commands in any order.                                              *)
(***************************************************************************)
EXTENDS CounterPublisher, TLAPS

\* What gmtime_r makes of a time.
LEMMA HourRange == ASSUME NEW t \in Nat PROVE HourOfDay(t) \in 0..HOURS - 1
BY HoursAssumption DEF HourOfDay

LEMMA Division ==
    ASSUME NEW a \in Nat, NEW n \in Nat \ {0},
           NEW q, q = a \div n, NEW r, r = a % n
    PROVE  a = n * q + r
BY SMTT(30)

\* Two times less than a day apart have the same hour only if they are the same.
LEMMA SameHour ==
    ASSUME NEW a \in Nat, NEW b \in Nat, a <= b, b < a + HOURS,
           HourOfDay(a) = HourOfDay(b)
    PROVE  a = b
<1>1. PICK qa : qa = a \div HOURS
  OBVIOUS
<1>2. PICK qb : qb = b \div HOURS
  OBVIOUS
<1>3. PICK r : r = a % HOURS
  OBVIOUS
<1>4. r = b % HOURS
  BY <1>3 DEF HourOfDay
<1>5. qa \in Int /\ qb \in Int /\ r \in Int /\ HOURS \in Nat \ {0}
  BY <1>1, <1>2, <1>3, HoursAssumption
<1>6. a = HOURS * qa + r
  BY <1>1, <1>3, <1>5, Division
<1>7. b = HOURS * qb + r
  BY <1>2, <1>4, <1>5, Division
<1>8. b - a = HOURS * (qb - qa)
  BY <1>5, <1>6, <1>7
<1>9. CASE qb - qa >= 1
  BY <1>5, <1>8, <1>9
<1>10. CASE qb - qa <= -1
  BY <1>5, <1>8, <1>10
<1>11. CASE qb - qa = 0
  BY <1>5, <1>8, <1>11
<1> QED
  BY <1>5, <1>9, <1>10, <1>11

LEMMA OrElseTyped ==
    ASSUME NEW S, NEW opt \in Optional(S), NEW old \in S
    PROVE  OrElse(opt, old) \in S
BY DEF OrElse, Optional

------------------------------------------------------------------------------
(* Types *)

\* The type invariant.
THEOREM TypeCorrect == Spec => []TypeOK
<1> USE DEF taskVars, historyVars, handlerVars
<1>1. Init => TypeOK
  <2> SUFFICES ASSUME Init PROVE TypeOK
    OBVIOUS
  <2>1. cmd \in Command
    BY DEF Init, NoCommand, Command, Optional
  <2>2. clock \in 0..CLOCK_MAX
    BY HoursAssumption DEF Init
  <2>3. last_reset_hour \in -1..HOURS - 1 /\ shoot_count \in 0..COUNT_MAX
    BY HoursAssumption, CountAssumption DEF Init
  <2> QED
    BY <2>1, <2>2, <2>3, DefaultsAssumption, HoursAssumption
    DEF Init, TypeOK, Optional
<1>2. TypeOK /\ [Next]_vars => TypeOK'
  <2> SUFFICES ASSUME TypeOK, [Next]_vars PROVE TypeOK'
    OBVIOUS
  <2> USE DEF TypeOK
  <2>1. ASSUME NEW c \in Command, ReceiveCommand(c) PROVE TypeOK'
    BY <2>1 DEF ReceiveCommand
  <2>2. CASE SetInterval
    <3>1. OrElse(cmd.interval, s_cfg.interval) \in Intervals
      BY OrElseTyped DEF Command
    <3>2. cmd' \in Command
      BY <2>2 DEF SetInterval, Command, Optional
    <3> QED
      BY <2>2, <3>1, <3>2 DEF SetInterval
  <2>3. CASE SetId
    <3>1. OrElse(cmd.id, s_cfg.id) \in CounterIds
      BY OrElseTyped DEF Command
    <3>2. cmd' \in Command
      BY <2>3 DEF SetId, Command, Optional
    <3> QED
      BY <2>3, <3>1, <3>2 DEF SetId
  <2>4. CASE SetResetHour
    <3>1. OrElse(cmd.reset, s_cfg.reset) \in ResetHours
      BY OrElseTyped DEF Command
    <3>2. cmd' \in Command
      BY <2>4 DEF SetResetHour, NoCommand, Command, Optional
    <3> QED
      BY <2>4, <3>1, <3>2 DEF SetResetHour
  <2>5. CASE StartTask \/ ReadInterval \/ ReadClock \/ Publish
    BY <2>5 DEF StartTask, ReadInterval, ReadClock, Publish
  <2>6. CASE ReadId
    BY <2>6 DEF ReadId, Optional
  <2>7. CASE ResetAndCount
    <3>1. HourOfDay(now) \in 0..HOURS - 1
      BY HourRange
    <3>2. ASSUME NEW r PROVE Marker(HourOfDay(now), r) \in -1..HOURS - 1
      BY <3>1, HoursAssumption DEF Marker
    <3>3. ASSUME NEW d PROVE Count(d) \in 0..COUNT_MAX
      BY CountAssumption DEF Count
    <3> QED
      BY <2>7, <3>2, <3>3 DEF ResetAndCount
  <2>8. CASE Delay
    BY <2>8 DEF Delay
  <2>9. CASE UNCHANGED vars
    BY <2>9 DEF vars
  <2> QED
    BY <2>1, <2>2, <2>3, <2>4, <2>5, <2>6, <2>7, <2>8, <2>9 DEF Next
<1> QED
  BY <1>1, <1>2, PTL DEF Spec

\* The steps that leave the counter task and its history alone.
HandlerStep ==
    \/ \E c \in Command : ReceiveCommand(c)
    \/ SetInterval \/ SetId \/ SetResetHour

LEMMA HandlerNeutral ==
    ASSUME HandlerStep \/ UNCHANGED vars
    PROVE  UNCHANGED <<tpc, taskVars, clock, historyVars>>
BY DEF HandlerStep, ReceiveCommand, SetInterval, SetId, SetResetHour, vars,
       taskVars, historyVars, handlerVars

------------------------------------------------------------------------------
(* The topic *)

\* The topic is that of the last id, and the id of a cycle is the last id.
TopicInv ==
    /\ last_counter_id # -1 => topic = <<last_counter_id>>
    /\ tpc \in {"stamp", "reset", "publish"} =>
           counter_id = last_counter_id /\ last_counter_id # -1

\* With no id that means "no topic yet" every message goes to the topic of the
\* id read in its cycle.
THEOREM TopicFollowsId == ASSUME -1 \notin CounterIds PROVE Spec => []TopicMatchesId
<1>1. Init => TopicInv
  BY DEF Init, TopicInv
<1>2. TypeOK /\ TopicInv /\ [Next]_vars => TopicInv'
  <2> SUFFICES ASSUME TypeOK, TopicInv, [Next]_vars PROVE TopicInv'
    OBVIOUS
  <2> USE DEF TopicInv, taskVars, historyVars, handlerVars
  <2>1. CASE HandlerStep \/ UNCHANGED vars
    BY <2>1, HandlerNeutral
  <2>2. CASE ReadId
    BY <2>2 DEF ReadId, TypeOK
  <2>3. CASE \/ StartTask \/ ReadInterval \/ ReadClock
             \/ ResetAndCount \/ Publish \/ Delay
    BY <2>3 DEF StartTask, ReadInterval, ReadClock, ResetAndCount, Publish, Delay
  <2> QED
    BY <2>1, <2>2, <2>3 DEF Next, HandlerStep
<1>3. TopicInv => TopicMatchesId
  BY DEF TopicInv, TopicMatchesId
<1> QED
  BY <1>1, <1>2, <1>3, TypeCorrect, PTL DEF Spec

------------------------------------------------------------------------------
(* No second reset in an hour *)

ResetHour == ResetHours \cup {DISABLED}

HistType ==
    /\ resetHour \in ResetHour
    /\ prev \in Optional([hour : 0..CLOCK_MAX, reset : ResetHour])
    /\ resetAt \in -1..CLOCK_MAX

LEMMA HistTypeStep == TypeOK /\ HistType /\ [Next]_vars => HistType'
<1> SUFFICES ASSUME TypeOK, HistType, [Next]_vars PROVE HistType'
  OBVIOUS
<1> USE DEF HistType, taskVars, historyVars, handlerVars
<1>1. CASE HandlerStep \/ UNCHANGED vars
  BY <1>1, HandlerNeutral
<1>2. CASE StartTask \/ ReadInterval \/ ReadId \/ ReadClock \/ Delay
  BY <1>2 DEF StartTask, ReadInterval, ReadId, ReadClock, Delay
<1>3. CASE ResetAndCount
  BY <1>3 DEF ResetAndCount, TypeOK, ResetHour
<1>4. CASE Publish
  BY <1>4 DEF Publish, TypeOK, Optional
<1> QED
  BY <1>1, <1>2, <1>3, <1>4 DEF Next, HandlerStep

LEMMA InitHistType == Init => HistType
BY HoursAssumption DEF Init, HistType, ResetHour, Optional

\* A clock that is never set back: times are in order; a published count is not
\* 0; and while it is still the hour of the last reset and no other hour was
\* read, the marker is that hour.
ResetInv ==
    /\ now <= clock /\ resetAt <= now
    /\ prev # <<>> \/ tpc \in {"publish", "delay"} => shoot_count >= 1
    /\ resetAt # -1 /\ resetAt = now =>
           otherHour \/ last_reset_hour = HourOfDay(resetAt)

LEMMA ResetStep ==
    ASSUME ClockSteps \subseteq Nat, TypeOK, HistType, ResetInv, [Next]_vars
    PROVE  ResetInv'
<1> USE DEF ResetInv, TypeOK, HistType, taskVars, historyVars, handlerVars
<1>1. CASE HandlerStep \/ UNCHANGED vars
  BY <1>1, HandlerNeutral
<1>2. CASE StartTask \/ ReadInterval \/ ReadId \/ Publish
  BY <1>2 DEF StartTask, ReadInterval, ReadId, Publish
<1>3. CASE ReadClock
  BY <1>3 DEF ReadClock
<1>4. CASE Delay
  <2>1. clock' >= clock
    BY <1>4, IntervalsAssumption DEF Delay
  <2> QED
    BY <1>4, <2>1 DEF Delay
<1>5. CASE ResetAndCount
  <2> DEFINE h == HourOfDay(now)
             due == ResetDue(h, s_cfg.reset)
  <2>1. /\ resetAt' = IF due THEN now ELSE resetAt
        /\ last_reset_hour' = Marker(h, s_cfg.reset)
        /\ shoot_count' = Count(due)
        /\ UNCHANGED <<now, clock>>
    BY <1>5 DEF ResetAndCount
  <2>2. shoot_count' >= 1
    BY <2>1, CountAssumption DEF Count
  <2>3. CASE due
    BY <2>1, <2>2, <2>3 DEF ResetDue, Marker
  <2>4. CASE ~due /\ resetAt # -1 /\ resetAt = now
    <3>1. s_cfg.reset = DISABLED => last_reset_hour' = last_reset_hour
      <4>1. h # DISABLED
        BY HourRange, HoursAssumption DEF DISABLED
      <4> QED
        BY <2>1, <4>1 DEF Marker
    <3>2. otherHour => otherHour'
      <4>1. otherHour' = (~due /\ (otherHour
                \/ s_cfg.reset \notin {DISABLED, HourOfDay(resetAt')}))
        BY <1>5 DEF ResetAndCount
      <4> QED
        BY <2>4, <4>1
    <3>3. s_cfg.reset # DISABLED /\ h = s_cfg.reset => last_reset_hour' = h
      BY <2>1 DEF Marker
    <3>4. s_cfg.reset # DISABLED /\ h # s_cfg.reset => otherHour'
      BY <1>5, <2>4 DEF ResetAndCount
    <3> QED
      BY <2>1, <2>2, <2>4, <3>1, <3>2, <3>3, <3>4
  <2>5. CASE ~due /\ ~(resetAt # -1 /\ resetAt = now)
    BY <2>1, <2>2, <2>5
  <2> QED
    BY <2>3, <2>4, <2>5
<1> QED
  BY <1>1, <1>2, <1>3, <1>4, <1>5 DEF Next, HandlerStep

LEMMA InitResetInv == Init => ResetInv
BY HoursAssumption DEF Init, ResetInv

\* A clock that is never set back gives at most one reset an hour, as long as
\* the reset hour is not set to another hour in between.
THEOREM OneResetAnHour == ASSUME ClockSteps \subseteq Nat PROVE Spec => NoSecondReset
<1>1. TypeOK /\ HistType /\ ResetInv /\ [Next]_vars =>
          [tpc = "reset" /\ tpc' = "publish" /\ prev # <<>> /\ shoot_count' = 1
               => resetAt < now \/ otherHour]_vars
  <2> SUFFICES ASSUME TypeOK, HistType, ResetInv, [Next]_vars,
                      tpc = "reset", tpc' = "publish", prev # <<>>,
                      shoot_count' = 1, ~(resetAt < now)
               PROVE  otherHour
    OBVIOUS
  <2>1. ResetAndCount
    BY HandlerNeutral
    DEF Next, HandlerStep, StartTask, ReadInterval, ReadId, ReadClock, Publish,
        Delay
  <2>2. resetAt = now /\ now # -1
    BY DEF TypeOK, HistType, ResetInv
  <2>3. shoot_count >= 1 /\ shoot_count \in Nat
    BY DEF ResetInv, TypeOK
  <2>4. ResetDue(HourOfDay(now), s_cfg.reset)
    BY <2>1, <2>3, CountAssumption DEF ResetAndCount, Count
  <2> QED
    BY <2>2, <2>4 DEF ResetInv, ResetDue
<1>2. TypeOK /\ HistType /\ ResetInv /\ [Next]_vars => ResetInv'
  BY ResetStep
<1> QED
  BY <1>1, <1>2, InitHistType, HistTypeStep, InitResetInv, TypeCorrect, PTL
  DEF Spec, NoSecondReset

------------------------------------------------------------------------------
(* The first publish of the hour resets *)

\* The clock is never set back, and less than a day passes between two cycles.
CloseCycles ==
    /\ ClockSteps \subseteq Nat
    /\ \A i \in Intervals \cup {0}, step \in ClockSteps : i + 1 + step < HOURS

\* The marker a cycle at time t with reset hour r leaves.
MarkerOf(t, r) == IF HourOfDay(t) = r THEN r ELSE -1

\* The marker is that of the last cycle, which is less than a day back.
CycleInv ==
    /\ tpc \in {"reset", "publish", "delay"} => now = clock
    /\ tpc \in {"publish", "delay"} /\ resetHour # DISABLED =>
           last_reset_hour = MarkerOf(now, resetHour)
    /\ prev # <<>> => prev[1].hour <= clock /\ clock < prev[1].hour + HOURS
    /\ prev # <<>> /\ tpc = "delay" => prev[1].hour = clock
    /\ prev # <<>> /\ tpc # "publish" /\ prev[1].reset # DISABLED =>
           last_reset_hour = MarkerOf(prev[1].hour, prev[1].reset)
    /\ FirstPublishResets

LEMMA PrevTyped ==
    ASSUME HistType, prev # <<>>
    PROVE  prev[1].hour \in Nat /\ prev[1].reset \in ResetHour
<1>1. PICK p \in [hour : 0..CLOCK_MAX, reset : ResetHour] : prev = <<p>>
  BY DEF HistType, Optional
<1> QED
  BY <1>1, HoursAssumption

LEMMA CountAndMark ==
    ASSUME CloseCycles, TypeOK, HistType, ResetInv, CycleInv, ResetAndCount
    PROVE  CycleInv'
<1> DEFINE h == HourOfDay(now)
           r == s_cfg.reset
<1>1. /\ tpc = "reset" /\ tpc' = "publish" /\ resetHour' = r
      /\ shoot_count' = Count(ResetDue(h, r)) /\ last_reset_hour' = Marker(h, r)
      /\ UNCHANGED <<now, clock, prev>>
  BY DEF ResetAndCount
<1>2. now \in Nat /\ h # DISABLED
  BY HourRange, HoursAssumption DEF DISABLED, TypeOK
<1>3. r # DISABLED => last_reset_hour' = MarkerOf(now, r)
  BY <1>1 DEF Marker, MarkerOf
<1>4. FirstPublishResets'
  <2> SUFFICES ASSUME prev # <<>>, prev[1].reset = r, r = h
               PROVE  shoot_count' = 1 <=> prev[1].hour < now
    BY <1>1 DEF FirstPublishResets
  <2>1. /\ prev[1].hour \in Nat /\ prev[1].hour <= now
        /\ now < prev[1].hour + HOURS
    BY <1>1, PrevTyped DEF CycleInv
  <2>2. last_reset_hour = MarkerOf(prev[1].hour, r)
    BY <1>1, <1>2 DEF CycleInv
  <2>3. CASE HourOfDay(prev[1].hour) = h
    <3>1. prev[1].hour = now
      BY <1>2, <2>1, <2>3, SameHour
    <3>2. ~ResetDue(h, r)
      BY <2>2, <2>3 DEF ResetDue, MarkerOf
    <3>3. shoot_count' # 1
      BY <1>1, <3>2, CountAssumption DEF Count, ResetInv, TypeOK
    <3> QED
      BY <1>2, <3>1, <3>3
  <2>4. CASE HourOfDay(prev[1].hour) # h
    <3>1. prev[1].hour < now
      BY <1>2, <2>1, <2>4
    <3>2. last_reset_hour = -1 /\ h # -1
      BY <1>2, <2>2, <2>4, HourRange, HoursAssumption DEF MarkerOf
    <3>3. ResetDue(h, r)
      BY <1>2, <3>2 DEF ResetDue
    <3> QED
      BY <1>1, <3>1, <3>3 DEF Count
  <2> QED
    BY <2>3, <2>4
<1> QED
  BY <1>1, <1>3, <1>4 DEF CycleInv

LEMMA CycleStep ==
    ASSUME CloseCycles, TypeOK, HistType, ResetInv, CycleInv, [Next]_vars
    PROVE  CycleInv'
<1> USE DEF taskVars, historyVars, handlerVars
<1>1. CASE HandlerStep \/ UNCHANGED vars
  BY <1>1, HandlerNeutral DEF CycleInv, FirstPublishResets, MarkerOf, HourOfDay
<1>2. CASE StartTask \/ ReadInterval \/ ReadId \/ ReadClock
  BY <1>2 DEF StartTask, ReadInterval, ReadId, ReadClock, CycleInv,
              FirstPublishResets, MarkerOf, HourOfDay
<1>3. CASE ResetAndCount
  BY <1>3, CountAndMark
<1>4. CASE Publish
  <2>1. /\ tpc = "publish" /\ tpc' = "delay"
        /\ prev'[1].hour = now /\ prev'[1].reset = resetHour
        /\ UNCHANGED <<clock, now, last_reset_hour, resetHour>>
    BY <1>4 DEF Publish
  <2>2. now = clock /\ clock \in Nat
    BY <2>1 DEF CycleInv, TypeOK
  <2>3. resetHour # DISABLED => last_reset_hour = MarkerOf(now, resetHour)
    BY <2>1 DEF CycleInv
  <2> QED
    BY <2>1, <2>2, <2>3, HoursAssumption
    DEF CycleInv, FirstPublishResets, MarkerOf, HourOfDay
<1>5. CASE Delay
  <2>1. PICK d \in {0, 1}, step \in ClockSteps : clock' = clock + interval_ms + d + step
    BY <1>5 DEF Delay
  <2>2. interval_ms + 1 + step < HOURS /\ interval_ms \in Nat /\ step \in Nat
    BY IntervalsAssumption DEF CloseCycles, TypeOK
  <2>3. clock' >= clock /\ clock' < clock + HOURS /\ clock \in Nat
    BY <2>1, <2>2, HoursAssumption DEF TypeOK
  <2>4. tpc = "delay" /\ tpc' = "interval"
        /\ UNCHANGED <<prev, now, last_reset_hour, resetHour>>
    BY <1>5 DEF Delay
  <2>5. prev # <<>> => prev[1].hour <= clock' /\ clock' < prev[1].hour + HOURS
    BY <2>3, <2>4 DEF CycleInv
  <2> QED
    BY <2>4, <2>5 DEF CycleInv, FirstPublishResets, MarkerOf, HourOfDay
<1> QED
  BY <1>1, <1>2, <1>3, <1>4, <1>5 DEF Next, HandlerStep

\* When less than a day passes between two cycles, the first one of an hour, and
\* no other, resets the counter.
THEOREM FirstPublishDoesReset == ASSUME CloseCycles PROVE Spec => []FirstPublishResets
<1>1. Init => CycleInv
  BY DEF Init, CycleInv, FirstPublishResets
<1>2. TypeOK /\ HistType /\ ResetInv /\ CycleInv /\ [Next]_vars
          => CycleInv' /\ ResetInv'
  BY CycleStep, ResetStep DEF CloseCycles
<1>3. CycleInv => FirstPublishResets
  BY DEF CycleInv
<1> QED
  BY <1>1, <1>2, <1>3, InitHistType, HistTypeStep, InitResetInv, TypeCorrect, PTL
  DEF Spec

==============================================================================
