---------------------------- MODULE MCMqttPublish ------------------------------
(* A small instance of MqttPublish: two publishers and one topic.           *)
EXTENDS MqttPublish

CONSTANTS p1, p2, t1

TwoPublishers == {p1, p2}
OneTopic == {t1}
==============================================================================
