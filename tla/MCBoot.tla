-------------------------------- MODULE MCBoot ---------------------------------
(* A small instance of Boot: two command topics, two polls of the clock and *)
(* two of the connection.                                                   *)
EXTENDS Boot

CONSTANTS t1, t2

TwoTopics == {t1, t2}
==============================================================================
