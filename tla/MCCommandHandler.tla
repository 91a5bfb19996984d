-------------------------- MODULE MCCommandHandler ---------------------------
(* A small instance of CommandHandler.  Intervals are 0..2 and counter ids  *)
(* -1..0; a number item is given by twice its value.                        *)
EXTENDS CommandHandler

Number(twice) == [type |-> "number", twice |-> twice]
String(text) == [type |-> "string", text |-> text]

Json(topic, items) ==
    [topic |-> topic, payload |-> "json", chunked |-> FALSE, items |-> items]
NoJson(topic, payload, chunked) ==
    [topic |-> topic, payload |-> payload, chunked |-> chunked, items |-> <<>>]

MixedMessages ==
    {NoJson("reboot", "empty", FALSE), NoJson("reboot", "json", TRUE),
     NoJson("device", "invalid", FALSE),
     Json("heartbeat", [interval_ms |-> Number(4)]),
     Json("counter", [interval_ms |-> Number(-2), counter_id |-> Number(-2),
                      reset_hour |-> Number(510)]),
     Json("counter", [interval_ms |-> Number(6), counter_id |-> Number(4),
                      reset_hour |-> Number(46)]),
     Json("log", [interval_ms |-> String("1"), level |-> String("error")]),
     Json("log", [interval_ms |-> Number(1), level |-> String("loud")]),
     Json("device", [attribute_name |-> Number(2),
                     device_status |-> String("degraded")])}

DefaultConfig ==
    [heartbeat_interval_ms |-> 1, counter_interval_ms |-> 1, counter_id |-> 0,
     counter_reset_hour |-> RESET_DISABLED, log_interval_ms |-> 1,
     log_level |-> "info", attribute_name |-> "temperature",
     device_status |-> "online"]
==============================================================================
