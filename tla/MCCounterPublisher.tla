------------------------- MODULE MCCounterPublisher -------------------------
(* Small instances of CounterPublisher: a day of three or four hours,      *)
(* and a part of the next.                                                 *)
EXTENDS CounterPublisher

ValidIds == {1, 2}
AnyIds == {-1, 1}
HourIntervals == {0, 1}
AnyResetHour == {0, 1, DISABLED}
DefaultConfig == [interval |-> 0, id |-> 1, reset |-> DISABLED]
=============================================================================
