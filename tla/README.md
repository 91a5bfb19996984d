# Verification of Esp32MqttSeeder

TLA+ models of the firmware in `src/`, the TLC configurations that check them, and TLAPS
proofs about the core. The firmware connects an ESP32 to an MQTT 5 broker, publishes periodic
messages from three tasks and accepts configuration commands. What can go wrong in it is
almost always a matter of *when*: an event handler, a timer callback and several tasks share
flags, a table and a queue, mostly without a lock, while the network comes and goes.

Line numbers below are those of the file named last.

## 1. Inventory

| Component | Tasks | State | Operations |
|---|---|---|---|
| `mqtt_client_manager.c` | MQTT task, timer daemon, any caller | `s_connected`, `s_reconnect_attempt` (atomics), `s_subscriptions`/`s_sub_count` (no lock), the two handlers, `s_reconnect_timer` | init, event handler (CONNECTED, DISCONNECTED, DATA), timer callback, publish, subscribe, set handlers, is_connected, outbox size |
| `init_publisher.c` | main task, MQTT task | none of its own | start (register, publish if already up), connected handler |
| `main.c` | main task | `mqtt_wait` | NVS, runtime config, Wi-Fi, SNTP, MQTT, wait for the broker, command handler, publishers |
| `counter_publisher.c` | counter task | count, cached topic with its id, marker of the last reset (locals) | one publish cycle |
| `heartbeat_publisher.c`, `log_publisher.c` | one task each | cached topic and level (log) | one publish cycle |
| `app_runtime_config.c` | any | `s_cfg` under `s_mutex` | one getter and one setter per field |
| `cmd_handler.c` | MQTT task, OTA tasks | topic strings | init (subscriptions), dispatch, five commands and reboot, OTA task |
| `wifi_manager.c` | event task, main task | `s_retry_num`, two event bits | event handler, blocking init, RSSI |
| `app_config.h`, Kconfig | - | constants | - |
| `test/mqtt`, CI, certificates | host | - | tooling, not modelled |

How they interact. `app_main` starts everything in a fixed order and returns. esp-mqtt calls
`mqtt5_event_handler` from its own task; the handler calls the connected handler
(`init_publisher.c`) or the message handler (`cmd_handler.c`), so commands are executed *in the
MQTT task*. Command handlers write the runtime configuration, which the publisher tasks read
one field at a time. Publishers call `mqtt_client_manager_publish`, which reads the flag and
then calls esp-mqtt. The reconnect timer belongs to the FreeRTOS timer daemon, which other
components reach only through a bounded queue of commands.

Hard behaviours, and the properties that make each component correct:

* *MQTT manager.* The connection event races the timer, the timer's command queue may be full,
  subscribing races re-subscribing. Correct if: one CONNECT at a time; a lost connection is
  always retried; the flag is true; a stored topic is subscribed on every connection; the
  backoff is the documented one.
* *Init publisher and start-up.* The main task races reconnects. Correct if each connection is
  announced, once; command topics survive reconnects; start-up finishes.
* *Counter publisher.* Commands arrive field by field while a cycle runs. Correct if the topic
  is the one of the id read, and the scheduled reset happens once, in the first cycle of its
  hour.
* *Command handler.* A reboot out of the MQTT task, before the command is acknowledged; values at
  the edge of their type; update tasks that overlap. Correct if a command changes exactly the
  fields it carries, none arrives unheard, a reboot command restarts the device once, and an
  update ends and leaks nothing.
* *Runtime configuration.* Strings are copied under a mutex. Correct if the settings are atomic
  registers.
* *Heartbeat and log publishers.* Settings are read one by one while commands change them. Correct
  if a message shows settings of its own cycle, fits its buffer and goes to the topic of its level.
* *Publishing.* The property and the message are two calls on a shared client, after a look at a
  flag that may be stale, and the message may be rejected. Correct if no message is sent with the
  property of a call that has returned, and calls do not pile up messages on a connection that has
  been given up.
* *Start-up as a whole.* Every step may fail. Correct if nothing runs on a part that was not
  started, and the device comes to rest.
* *Wi-Fi manager.* The retry budget is renewed only by an IP address; the init call waits for
  bits that are never cleared, without a time-out. Correct if init's answer matches what happened,
  and retries are bounded between two addresses.

`PROJECT.json` lists every hazard at its line, the covered ones with their properties.

## 2. Modules

| Module | Models |
|---|---|
| `ConnectionLifecycle` | abstract: what `mqtt_client_manager.h` promises, as a cycle of phases and the answer of `is_connected` |
| `MqttClientManager` | `mqtt_client_manager.c` with esp-mqtt, the timer daemon and the network as its environment; refines `ConnectionLifecycle` |
| `InitPublisher` | extends it with `init_publisher.c` and the part of `app_main` that starts both |
| `Boot` | extends `InitPublisher` to the whole of `app_main`, with failures and restarts |
| `MqttPublish` | extends it with `mqtt_client_manager_publish` of several tasks |
| `ConfigRegisters` | abstract: the settings as atomic registers |
| `RuntimeConfig` | `app_runtime_config.c`, copying cell by cell under the mutex; refines `ConfigRegisters` |
| `Commands` | the fields of the four configuration commands and their conversion, as operators |
| `CommandHandler` | `cmd_handler.c` and the DATA event, with the broker's session and queue; extends `Commands` |
| `OtaUpdate` | the firmware update of `cmd_handler.c`: its handler and its tasks |
| `CounterPublisher` | `counter_publisher.c`, the counter fields of `app_runtime_config.c`, `handle_counter_cmd` |
| `StatusPublishers` | `heartbeat_publisher.c` and `log_publisher.c`, with the commands that concern them |
| `WifiManager` | `wifi_manager.c` with the event loop, the driver and the access point, and the restart `app_main` makes of a failed init |
| `ManagerUsersProofs` | TLAPS proofs about the modules on top of the manager: `MqttPublish`, `InitPublisher`, `Boot` |
| other `*Proofs` | TLAPS proofs about the module of that name |
| `MC*` | the instances TLC checks |

### MqttClientManager

Each task has a program counter and is cut where another task can observe or disturb it:
between two accesses to shared state, and between a shared access and a call into esp-mqtt.

* `hpc`, the MQTT task. CONNECTED is `StopTimer` (lines 168-171), `SetConnected` (172), one
  `Resubscribe` per entry and one that leaves the loop (124-138), `CallConnectedHandler`
  (174-177). DISCONNECTED is `ClearConnected` (190) and `ScheduleReconnect` (103-120).
* `cbpc`, the timer daemon: it executes the oldest queued command (`TimerCommand`) or runs
  `reconnect_timer_cb` in two steps, `CallbackCheck` (92) and `CallbackReconnect` (96).
* `apc`, the task that subscribes: `SubscribeStore` (374-380), `SubscribeCheck` (382),
  `SubscribeSend` (388). `SetConnectedHandler` (402).

`delay`, `armFailed` and `asked` are history. `delay` is the last reconnect delay since the last
connection.

External behaviour the model relies on. esp-mqtt holds its (recursive) API lock while it
connects and while it dispatches an event, so a subscribe or publish of another task waits
(`ApiLockHeld`); `esp_mqtt_client_reconnect` is accepted only from a client that waits for it;
with `disable_auto_reconnect` such a client waits for ever; a SUBSCRIBE answers -1 without a
connection and may fail with one; a connection starts with a clean session (line 302), so the
broker remembers no subscription. FreeRTOS executes timer commands in order, one at a time
with the callbacks; a post with no wait fails when the queue is full.

Left out: the jitter of the delay (a timer may expire at any moment after it is armed, which
covers every delay), the text of a log line, failures of the initial allocations, what the
broker answers to a SUBSCRIBE (the code does not look). The loop of `resubscribe_all` reads
`s_sub_count` while another task writes it; the model keeps the order of the source, entry
first and count second.

### InitPublisher

Adds `mpc`, the main task from `mqtt_client_manager_init` to the end of `init_publisher_start`,
and counts the `devices/init` messages of the current connection. Actions of the manager are
reused: `NewConnection` is `ConnectOk` with the count reset, `AnnounceConnection` is
`CallConnectedHandler` with what the registered handler does, `SubscribeNext` is one call of
`cmd_handler_init`. The order of its six calls does not matter and is left open.

### Boot

`bpc` is the rest of `app_main`: the NVS, the runtime configuration, `wifi_manager_init` (its result;
`WifiManager` has it in detail), the polls of the clock, then `"main"` while `mpc` of `InitPublisher`
moves, then the three publishers. `started` is what runs since the last restart. Each part may fail
while the surroundings are not yet stable, and `Restart` is then `ESP_ERROR_CHECK`: the client, the
timer, the subscription table and the tasks are gone, the flash and the clock stay.
`cmd_handler_init` and `init_publisher_start` always return `ESP_OK`. The flash may be good, full, of
another version, or broken, which no erasing helps.

### CounterPublisher

`tpc` is the counter task, `hpc` the MQTT task inside `handle_counter_cmd`. Every getter and
setter is one critical section, hence one action. Time is counted in hours and moves while the
task sleeps. `DISABLED` stands for every reset hour above 23.
`resetHour`, `prev`, `resetAt` and `otherHour` are history for the properties. `ClockSteps` are the
corrections SNTP may make during a delay, in hours; the `counter` run has a clock that may be set
forward.

### MqttPublish

`ppc` is each publisher task inside `mqtt_client_manager_publish`: the look at the flag (line 341),
`esp_mqtt5_client_set_publish_property` (352), `esp_mqtt_client_publish` (354). The MQTT task makes
the same calls through the connected handler, with the API lock held, so its call is one action.
Of esp-mqtt the module takes that the client keeps a pointer to the last property it was given, that
the next message it takes uses it up, that it may reject a message (`msg_id < 0`, lines 361-362)
and returns before it looks at the property (`Reject`), and that it takes a message without a connection
too. `pub_prop` is whose local variable the client points to: a call that is rejected returns, and leaves
it pointing at the frame of a call that is `Gone`. `exposed` and `strays` are history: the publishers
between whose two steps that happened, and the messages of each task taken since the client gave up the
last connection. Not counted is what the client took before, on a link that was dead already: at QoS 1
that waits in the outbox as well (section 6).

### RuntimeConfig

A string is a row of `Cells`, one copied per step; a value `v` stands for the string that has `v` in
each cell, so a row with two values is torn. `Call` invokes any getter or setter, `Lock` and `Unlock`
are lines 30 and 31, `CopyCell` is a step of `strlcpy` or the assignment of a number. The refinement
to `ConfigRegisters` takes a write to happen with its last cell and a read likewise. The publishers'
modules and `CommandHandler` therefore take one getter or setter as one action.

### Commands, CommandHandler

`CommandTable` is the four handlers as data: the items each looks for and the setting each item has, in
the order of the code; `Accepted` is what a setter may be called with. `NumberType` is what the members
of `runtime_config_t` have room for. A number carries twice its value, so that 0.5 exists; a
number beyond `uint32_t` or `int`, whose conversion C leaves undefined, gives any interval or counter
id. `Documented`, `LogLevels`, `Meant` and `RuledOut` are not the code's: they are what
`docs/mqtt-topics.md` says of each field, stated on the JSON (only the row of `reset_hour`, which the
document leaves out, is from the log line at `cmd_handler.c:294`). In `CommandHandler`
`mpc` is `cmd_handler_init` (handler first, line 282, then one subscription at a time), `hpc` the
MQTT task in `on_mqtt_message`, which looks at one item and calls its setter per step (`HandleItem`;
`done` counts them); a valid command may also be ignored for want of memory (lines 225-228). The broker holds a command until the task is
back from the handler. `Restart` is `handle_reboot_cmd`: everything in RAM is lost, and the command
is not acknowledged. A clean session (`mqtt_client_manager.c:302`) is forgotten with its connection.

### OtaUpdate

`hpc` is `handle_ota_cmd`, in which `malloc` and `xTaskCreate` may each fail, `tpc` one
`ota_update_task` per command, `heap` the blocks of parameters that are allocated. `esp_https_ota` is
external and one step: it returns `ESP_OK` (`Complete`) or an error (`Fail`), at the latest after its
time-out. What it does to the flash, and what the boot loader makes of that, is not in this code and
not modelled. `Reboot` is a reboot command in the midst of updates.

### StatusPublishers

The two tasks are the same loop over different settings, with none in common, so a behaviour follows
one of them (`task`). `ReadOrder` is the order in which the task calls its getters; `CallSetter` and
`ReadSetting` interleave freely. `seen` is history: the values a setting has had since the cycle
began. A string of the heartbeat is its length; `Kept` is the `strlcpy` of the setter, `MessageLength`
what `snprintf` needs. A log level is named by what the setter keeps of it. The log task's metrics
are left out: five numbers and a time stamp never fill 384 bytes.

### WifiManager

`ipc` is the main task around `wifi_manager_init`, `events` the default event loop's queue, `sta`
and `dhcp` the driver and the DHCP client. `wifi_event_handler` runs in the event task only, and
`s_retry_num` is used by nobody else, so a handler is one action; the event group wakes a blocked
main task with the bits of that moment (`SetBit`), while one that has not blocked yet reads them
later (`WaitBits`). The default handlers of esp-netif run before this one and stop the DHCP
client on a disconnection; until then it may still post an address, so a `got_ip` can stand
behind a `disconnected` in the queue. `attempts` and `hadIp` are history. `Restart` is
`ESP_ERROR_CHECK(wifi_manager_init())` of `main.c:68`.

## 3. Runs

| Run | Bounds | What it shows |
|---|---|---|
| `mqtt_safety` | 3 topics, a table of 2, a timer queue of 3 that others use too, attempt counter saturating at 7 | the safety properties of the manager, the backoff and the refinement of `ConnectionLifecycle` |
| `mqtt_publish` | 2 publishers, 1 topic, a timer queue of 2 without other users, one step of backoff | publishing against a connection that comes and goes; the device settles online; the refinement with fairness |
| `publish_untyped` | the same | expected violation, see findings |
| `start_up` | 2 topics, 2 polls of the flag and of the clock, a timer queue of 2 | the whole of `app_main` against failures, restarts and a connection that comes and goes |
| `init_twice` | 2 topics, 2 polls, without `Boot` | expected violation, see findings |
| `counter` | ids 1, 2; reset hours 0, 1, disabled; a day of 4 hours and 3 hours of the next; intervals below one hour and of one hour; a clock that may be set forward by an hour | topic and reset under any order of commands |
| `counter_topic` | ids -1 and 1 | expected violation, see findings |
| `wifi` | 3 retries | retry budget, give-up, blocking init, against an access point that fails at any moment |
| `runtime_config` | 2 tasks, a number and a string of 2 cells, 2 values | the mutex, the refinement of `ConfigRegisters`, that calls return |
| `commands` | 9 commands, valid, invalid, empty, chunked and with numbers out of range; a queue of 2; 2 reboot commands | dispatch, settings, reboot, restarts and reconnects in any order |
| `ota` | 2 tasks, 3 blocks | overlapping updates: memory, and the end of each update |
| `publishers` | the code's sizes, a device ID of 58; strings of 0, 63 and 200, of 6, 31 and 200 characters; 3 levels, one empty; 2 intervals | the heartbeat and the log task against commands |

Why the bounds are enough. The backoff constants are the code's own; the exponent is clamped at
5, so a counter that saturates at 7 has two steps past the clamp and then stays, as 255 does.
A table of 2 with 3 topics is full with one caller refused; the loop over it can be overtaken at
each index. A queue of 3 holds a stop, a change and one foreign command, and is full often. The
proofs remove these bounds for safety. Two polls give every outcome of each wait: at once, at the last
poll, not at all. Where a run is about liveness (`mqtt_publish`) the backoff has a single step: how long
a delay is makes no difference to an untimed model, and `mqtt_safety` has the real one. A day of four
hours has the reset hour, the one after it and others, and the next day sees the reset come back; an
interval of an hour and a correction of an hour may skip hours but not a day, as the code's usual
intervals do. Three retries leave
room for an address before, between and after them; the queue needs no bound. `COUNT_MAX`
caps `shoot_count`, which is compared with 1 only.

Two publishers can take each other's property, a third adds nothing to a single slot; what is
counted of them is per task. A string of two cells can be torn, one cell (a number) cannot; the
proofs take any number of cells. `UINT32_MAX` is 2 and `INT_MAX` 0 in the `commands` run, so that an
interval of 3 and an id of 2 lie beyond them; `QUEUE_LEN` 2 lets a command wait behind another one, `REBOOT_MAX` 2 a reboot behind a
reboot. Two update tasks and three blocks leave one block for a handler between two running updates.
The lengths of the heartbeat's strings are below, at and above the size of each array, and a
device ID of 58 makes the longest message fill the buffer exactly.

Deadlock is checked where something can always happen (`runtime_config`, `publishers`, `mqtt_publish`, `ota`). It is not checked elsewhere:
a device that is connected, or whose main task has halted, whose clock has reached its bound, or that
is sent no more commands may rest.

### Properties

* `OneConnectInFlight`: a queued timer command, a running timer, a running callback and an
  accepted request never coexist and never outlive the wait they belong to. This is the
  comment at lines 191-193, and stronger than the code's own second line of defence (the check
  at line 92).
* `NoReconnectLost`: while the client waits, a reconnect is pending, and a stop left over from
  the connection before is in front of the change that starts the timer.
* `FlagTruthful`, `StoredTopicsSubscribed`, `BackoffDoubles`: see the module.
* `SettlesOnline`: once the network holds, the client ends up connected for good with all stored
  topics sent.
* `ImplementsLifecycle`, `ImplementsFairLifecycle`: the refinement.
* `EveryConnectionAnnounced`, `CommandsSubscribed`, `StartUpFinishes`: start-up against a connection
  that comes and goes.
* `AllOrNothing`, `ComesToRest`: no device is left half started, and one whose surroundings become
  stable ends running, connected, announced and subscribed, unless the broker was too late.
* `TopicMatchesId`, `FirstPublishResets`, `NoSecondReset`: the counter.
* `NoDeadProperty`: a rejected message leaves esp-mqtt pointing into the stack frame of a call that has
  returned, but the next call sets its own property first. The exception, a rejection between the two
  steps of another call, is part of the property (see the disagreements below).
* `StrayBound`: the flag is stale at most once per task and outage: however long the outage, each task
  hands over at most one message after the client has given up the connection. It says nothing of what
  was handed over before that.
* `ImplementsRegisters`, `CallsReturn`: the settings; a torn string would be a value no register had.
* `CommandAppliedWhole`: a field with a value that the documentation calls valid is in effect when the
  command is done, one with a value it rules out or that is absent has changed nothing, whatever the
  validity of the other fields. The tests on the value are the document's, not the code's, so a wrong
  range check is found; values of which the document says neither are left to the code.
* `OneRestartPerCommand`, `RebootObeyed`, `NoCommandUnheard`: a reboot happens, once; a restart opens no
  gap between subscription and callback.
* `HeapBalanced`, `UpdatesEnd`: updates, however many overlap.
* `MessageIsFresh`, `SettingsTakeEffect`, `MessageFits`, `TopicMatchesLevel`: the two publishers.
* `NoSilentStop`, `BudgetUsedUp`, `InitReturns`, `Settles`: Wi-Fi. A station that rests has been given
  up and says so; a give-up uses the whole budget; the init call returns, unless the station stays
  associated for ever with a DHCP server that is silent; once the access point is up for good the
  device ends online or given up.

### Fairness

Weak fairness for each step of a task (the scheduler runs every ready task: the MQTT task, the
daemon and the callers never block for ever on something the model leaves out), for the expiry
of a running timer, and for the *outcome* of a connection attempt, not for its success. Nothing
is assumed of failures, of other users of the queue or of the application's calls. The link may
become stable at any time and need not.

`InitPublisher` and `Boot` add strong fairness for the two calls of the main task that wait for the API
lock. The lock is free for the whole of every reconnect delay (at least two seconds) and FreeRTOS
hands a mutex to its waiter, so a call that can proceed again and again does proceed. `Boot` has the
manager's fairness without that of starting the client (`TaskFairness`), which is a step of its main
task; the main task runs and its delays end. `ComesToRest` takes `linkStable`, which need not come, as
its premise.

`MqttPublish` does the same for the two calls of each publisher. `RuntimeConfig` assumes strong fairness
of taking the mutex: FreeRTOS hands it to a waiting task when it is given, so that a task cannot be
overtaken for ever. `CommandHandler` assumes that the MQTT task runs, nothing of the network; a command is
then handled or its connection ends. `OtaUpdate` assumes that the tasks run and that a
request without an answer times out (`OTA_HTTP_TIMEOUT_MS`), nothing of the server.
`StatusPublishers` assumes that its task runs and that its delays end.

`WifiManager` assumes that both tasks run and that the driver answers an attempt. Only once the access
point and its DHCP server are up for good (`apStable`, which need not come and is the premise of
`Settles`) does it assume that an associated station gets a lease. Before that it may wait for ever:
no event tells of a DHCP server that is silent, and the init call waits without a time-out.
`InitReturns` therefore has that station (`AwaitsLease`) as its only exception.

### Findings

* `init_twice`. `init_publisher.h:5-6` promises a *single* message per connection. If the connection
  drops during start-up and comes back while `init_publisher_start` runs between its two steps,
  both the handler and the caller publish.
* `counter_topic`. The topic is built only when the id differs from `last_counter_id`, which starts
  at -1. A command may carry any number, and one that carries -1 and is handled before the task's
  first cycle leaves the topic buffer uninitialised; `docs/mqtt-topics.md:144` promises the topic
  `uplink/v3/di/<new_id>`.
* `publish_untyped`. Two tasks that set the property before either publishes leave the second message
  without content type, which `README.md:12` promises of every publish.

Disagreements between code and documents that no run is spent on. The first five are exceptions,
assumptions or open cases of the properties; weakening the instance as said shows them in TLC.

* `mqtt_client_manager.h:60` calls the publish function safe to call from any task. If a message is
  rejected between another call's setting of its property and its message, and the client holds the
  property of the rejected call, the other message is sent with a pointer into a stack frame that is
  gone: `NoDeadProperty` without `p \in exposed`.
* `docs/mqtt-topics.md:169` lists seven levels. The code stores any string, and the log topic follows
  it: `CommandAppliedWhole` with a level that is not in `LogLevels` among the values that are ruled out.
* 0.5 passes the test `> 0` of an interval and is stored as 0 (`docs/mqtt-topics.md:121`); fractions of
  the other numbers are cut off, and a number that does not fit its member becomes some other number.
  `CommandAppliedWhole` leaves these values open.
* An empty log level set before the task's first cycle is its mark for "no topic yet", and the topic is
  never built: `TopicMatchesLevel` without its second disjunct (`docs/mqtt-topics.md:167`).
* The counter's reset compares hours of the wall clock. If SNTP sets it back, the counter may be reset
  twice in one hour (`ClockSteps = {0, -1}`, `NoSecondReset`); with an interval of a whole day every
  cycle falls into the reset hour and only the first one resets (`HOURS` among the `Intervals`,
  `FirstPublishResets`). `Kconfig.projbuild:163` promises one reset per hour.
* `docs/mqtt-topics.md:70` says that `shoot_count` increases and is reset on a reboot. It is also reset
  at the reset hour (`counter_publisher.c:57-60`), which a command may set by the field `reset_hour`;
  the fields of that command in `docs/mqtt-topics.md:141-144` do not include it.
* `cmd_handler.h:24` says that an update is flashed to the next OTA partition and booted. The partition
  table of `sdkconfig.defaults:24` has no OTA partition, so no update can succeed; with another table, a
  second update may write the partition that the first one is about to boot.
* A SUBSCRIBE the client refuses is not repeated before the next reconnect, against
  `docs/mqtt-topics.md:104`; `Reached` counts it as made.
* After `app_main` has given up (`main.c:85`) the client still connects, and never announces itself,
  against `init_publisher.h:5`; and since line 84 reads the flag again after the wait, a connection lost
  in between halts the device at once, though the comment and the log speak of 15 s. `ComesToRest` and
  `AllOrNothing` have the halted device as a state of its own.
* The heartbeat's strings are not escaped; `README.md:24` speaks of safe JSON serialisation.

## 4. Proofs

`MqttClientManagerProofs` proves, for every set of topics, table size, queue length, with or
without other users of the queue, and every backoff setting that satisfies the named
assumptions of `MqttClientManager`:

| Theorem | Statement |
|---|---|
| `TypeCorrect` | `Spec => []TypeOK` |
| `IndInvHolds` | `Spec => []IndInv` |
| `OneConnect`, `NoReconnectIsLost`, `FlagIsTruthful`, `TopicsAreSubscribed`, `NothingAbandoned` | the safety properties |
| `BackoffIsDoubled` | `BackoffReachesMax` implies `Spec => BackoffDoubles` |
| `Refinement` | `Spec => ImplementsLifecycle` |

The argument. None of the safety properties is inductive. `IndInv` adds what carries them:

* `FlagInv`: where the handler is determines the client's phase, and the flag agrees with it
  up to the step that is under way.
* `ReconnectInv`: a source of a CONNECT exists only while the client waits and the handler is
  idle, and exactly if the queue was not full. No stop is queued when the timer is running, in
  its callback or past it. This is what keeps the stop of one connection from cancelling the
  reconnect of the next: the daemon's queue is in order, so a change can only be executed after
  the stop before it, and a new connection needs that change.
* `QueueInv`: behind a change there are only foreign commands; there is at most one stop.
* `NeverAbandoned`: with no foreign commands the queue holds at most a stop when a change is
  posted, so two places are enough.
* `SubscribeInv`: the loop of `resubscribe_all` has covered the entries before its index, or
  their caller, who saw the flag set, is about to send the SUBSCRIBE itself.

`BackoffIsDoubled` has an invariant of its own (`BackoffInv`): the last delay is that of the attempt
before, or the counter has saturated, or `CONNECTED` is about to bring the counter to 0 behind the
delay. `DelaysDouble` computes the delays. It assumes `BackoffReachesMax`: the delay reaches the maximum
before the exponent its cap, and the exponent its cap before the counter saturates (2000 * 2^5 >= 60000
and 5 <= 255 in the code); with other values the delay stays below the documented maximum and the
property is false. The exponent is at most 5 because the provers know powers of numerals only.

`OnlineForGood` is the safety half of `SettlesOnline`: `Spec => [](Online => []Online)`, where `Online` is
what that property promises, on a network that holds. It needs `FlagInv` (no DISCONNECTED is being
handled) and that a subscribe call which stores a topic goes on to send it.

Lemmas about the queue say what appending to it and taking its head do to the order of its
commands. The proof that a step preserves the invariant has one step per action.

`WifiManagerProofs` proves, for every number of retries, `TypeCorrect`, `IndInvHolds`,
`StopsAreTold` (`NoSilentStop`) and `BudgetIsUsedUp` (`BudgetUsedUp`). The invariant lists the queues
that can be found in each state of the station (`QueueInv`): a disconnection is queued only while
the station is idle, at most one of them, and the addresses around it are bounded by the DHCP
client having to be started by an association in between. `AttemptInv` ties the history to the
counter: one attempt per retry, and one more as long as there was no address. At a give-up the
counter equals the budget, hence the theorem. Lemmas compute what a post or a dispatch makes of each
queue. `RestIsFinal` is the safety half of `Settles`: behind an online station no disconnection is queued
(`QueueInv`), and nothing is left of a station that was given up.

`RuntimeConfigProofs` proves the type invariant, `IndInvHolds`, `StringsAreWhole` and `Refinement`
(`ImplementsRegisters`) for any tasks, fields, values and numbers of cells. `IndInv` says who holds
the mutex (`HolderInv`), where a copy stands (`CallInv`), that a field nobody is writing is whole
(`WholeInv`), and that during a copy the cells behind the index agree with the buffer while those in
front are still the old string (`CopiedInv`). The last part is what makes the last cell of a copy the
moment a register is read or written.

`ManagerUsersProofs` first proves that the specification of `MqttPublish` implies the manager's
(`PublishImplementsManager`), so that `IndInv` of the manager holds there as well. On top of it
`StraysAreBounded` follows from `StrayInv` (a task with a stray message has seen the flag go down or
will). `DeadPropertyIsExplained` (`NoDeadProperty`) is inductive by itself: the property of a call becomes
a dead one only when that call is rejected, and whoever is about to send at that moment is `exposed`.

The same module does this for the device between two restarts (`DeviceImplementsManager`) and then for
the device that restarts: each step of `BootNext` is a step of `InitPublisher` or establishes `PowerOn`
again (`DeviceOrReset`), so `ManagerInvariant` follows from the manager's own two lemmas, and with it
`DeviceFollowsLifecycle`: each step of the whole device is one of `ConnectionLifecycle`, none of it, or a
restart that begins the cycle anew.
`ConnectionsAreAnnounced` follows from where the main task and the handler stand when a connection has
no announcement yet, `CommandsAreSubscribed`, which assumes a table with room for all topics, from
`StoredTopicsSubscribed` and the topics stored so far, and `DeviceIsWhole` (`AllOrNothing`) from the
parts that have started at each point of `app_main` (`OrderInv`). `RestIsFinal` is the safety half of
`ComesToRest`: no step of `app_main` is left for a device at rest, and the other tasks keep what it has.

`CounterPublisherProofs` proves the type invariant; `TopicFollowsId` if no id is -1 (otherwise:
`counter_topic`); `OneResetAnHour` if the clock is never set back; `FirstPublishDoesReset` if cycles are
less than a day apart (`CloseCycles`). Without these the statements are false, see the findings.
The invariants tie `last_reset_hour` to the last reset and to the hours read since. The bound
`CLOCK_MAX` is any number.

`OtaUpdateProofs` proves the type invariant and `HeapIsBalanced` for any number of tasks and blocks.

`CommandHandlerProofs` is about any set of commands, any defaults and any bounds:

* `TypeCorrect`. The assumptions: a JSON number has a value (`NumbersAssumption`), and the defaults are in
  the types of their members (`DefaultsAssumption`; the ranges in `Kconfig.projbuild` are no wider).
  `NumberInRange` says that the conversions stay in those types for any number. `TypeInv` adds
  what the broker and the handler know of each other: only topics of the table are delivered, and the
  command that is handled is the one at the head of the queue, for as long as the connection lives.
* `CommandsAreHeard` (`NoCommandUnheard`). `HeardInv`: a topic is stored, and a session subscribed, only
  after the handler was registered; a command needs a session, and a session its connection.
* `OneRestart`. `RebootInv`: while a reboot command is queued or handled, one more was sent than the
  device has restarted for. It is inductive only because the restart takes the queue with the session.
* `RebootNotSwallowed`, the safety half of `RebootObeyed`: a whole reboot command leaves the head of the
  queue only with the connection. `ObeyInv`: the handler does nothing with it but restart.
* `CommandsAreApplied` (`CommandAppliedWhole`). `AppliedInv`: the items that are done are in effect, and
  every other setting is what it was before. `TableShape` and `TableIsDocumented` say that no command has
  two items for one setting and that the tables of the code and of the document agree on the keys;
  `MeaningAccepted` that the code accepts each value the document calls valid, for what it means, and
  none that it rules out.

`StatusPublishersProofs` proves the type invariant, `HeartbeatFits`, `TopicFollowsLevel` and
`MessagesAreFresh` for any sizes that satisfy `DeviceIdAssumption` and any commands whose values are in
the types (`AcceptableCommands`; a command's values may be any, `Kept` is what must be in the type).

So every safety invariant and every action property of the runs is proved. Only model-checked is what
needs fairness, which is out of the prover's reach: `SettlesOnline`, `PublishReturns`, `StartUpFinishes`,
`ComesToRest`, `InitReturns`, `Settles`, `CallsReturn`, `RebootObeyed`, `UpdatesEnd`,
`SettingsTakeEffect` and `ImplementsFairLifecycle`. For four of them (`SettlesOnline`, `ComesToRest`,
`Settles`, `RebootObeyed`) the safety half is proved: what they promise to reach is
not left again, or what they wait for is not lost. The three expected violations have no theorem.

## 5. Plan

All components that keep state are modelled, and all safety properties of the runs are proved. What is
left, in order:

1. Proofs: what a subscribe call and a publish hold while they wait for the API lock, the safety half of
   `StartUpFinishes` and `PublishReturns`.
2. A composition of `WifiManager` and `MqttClientManager`: a link that is given up for good under a manager
   that goes on retrying. Each is checked against any behaviour of the other so far.
3. `CommandHandler` on top of `MqttClientManager` in place of its own small connection.

## 6. Not modelled

* The text of JSON, topics and time stamps, and what depends on it: a URL of 256 characters or more,
  which `cmd_handler.c:181` cuts; a log level with a wildcard or a slash in a topic; the field `message`
  that `README.md:70` lists for the log message and the code does not send.
* TLS, certificates, credentials: configuration handed to esp-mqtt.
* The outbox of esp-mqtt. At QoS 1 (`app_config.h:21`) it keeps each message until the broker has
  acknowledged it. On a link that is dead without the client knowing it, whatever the tasks publish until
  the keep-alive runs out is taken and kept, which is more than the one message per task of `StrayBound`;
  `mqtt_client_manager.h:103-108` describes it.
* The flash: the partition table, what an update writes and what the boot loader starts.
* The MD5 of an update, which the code only logs, as `cmd_handler.h` says.
* Retained commands: a broker would deliver one again after every restart. The documentation publishes
  commands without the retain flag, and the broker of `CommandHandler` does not retain.
* The width of `pdMS_TO_TICKS`, which depends on the configuration of FreeRTOS.
* The getters of the RSSI, the client handle and the outbox size, which change nothing.
* Host scripts, CI, build files.
