--------------------------- MODULE MCInitPublisher ---------------------------
(* A small instance of InitPublisher: two command topics and two polls.     *)
EXTENDS InitPublisher

CONSTANTS t1, t2

TwoTopics == {t1, t2}
==============================================================================
