------------------------- MODULE MCMqttClientManager -------------------------
(* Small instances of MqttClientManager: the backoff constants are those of *)
(* the code, the attempt counter saturates two steps past the largest       *)
(* exponent, and the table is too small for the topics by one.              *)
EXTENDS MqttClientManager

CONSTANTS t1, t2, t3

ThreeTopics == {t1, t2, t3}
TwoTopics == {t1, t2}
==============================================================================
