----------------------------- MODULE MqttPublish ------------------------------
(***************************************************************************)
(* mqtt_client_manager_publish on top of the MQTT manager.  The publisher  *)
(* tasks call it concurrently; the MQTT task calls it too, through the     *)
(* connected handler and already holding the API lock, so that no other    *)
(* task comes between its steps.                                           *)
(*                                                                         *)
(* esp-mqtt, external, keeps a pointer to the publish property it is given *)
(* and uses it up with the next message, whoever sends that one.  It may   *)
(* also reject a message (msg_id < 0), and returns without touching the    *)
(* pointer.  Without a connection it takes a message all the same.         *)
(***************************************************************************)
EXTENDS MqttClientManager

CONSTANTS
    PublisherTasks,
    NoOne,
    Gone        \* a call that has returned

ASSUME PublisherTasksAssumption ==
    NoOne \notin PublisherTasks /\ Gone \notin PublisherTasks \cup {NoOne}

VARIABLES
    ppc,        \* each publisher inside mqtt_client_manager_publish
    pub_prop,   \* whose pub_prop, a local variable, the client points to
    bare,       \* has a message gone out without a property?
    exposed,    \* publishers between whose two steps the client was left with the
                \* pub_prop of a rejected call
    strays      \* messages of each publisher taken since the client gave up the
                \* last connection

propertyHistory == <<bare, exposed>>
publishVars == <<ppc, pub_prop, propertyHistory, strays>>
allVars == <<vars, publishVars>>

PublishInit ==
    /\ Init
    /\ ppc = [p \in PublisherTasks |-> "idle"]
    /\ pub_prop = NoOne /\ bare = FALSE /\ exposed = {}
    /\ strays = [p \in PublisherTasks |-> 0]

Step(p, from, to) == ppc[p] = from /\ ppc' = [ppc EXCEPT ![p] = to]

------------------------------------------------------------------------------
(* esp-mqtt; each call holds the API lock *)

\* esp_mqtt_client_publish: the message takes the property, if there is one.
UseProperty ==
    /\ pub_prop' = NoOne
    /\ bare' = (bare \/ pub_prop = NoOne)
    /\ exposed' = {}

\* esp_mqtt_client_publish answers -1: the client still points to the property,
\* also when it belongs to the caller, who returns.
Reject(p) ==
    /\ IF pub_prop = p
       THEN pub_prop' = Gone /\ exposed' = {q \in PublisherTasks \ {p} : ppc[q] = "send"}
       ELSE exposed' = exposed \ {p} /\ UNCHANGED pub_prop
    /\ UNCHANGED bare

\* The client, which has given up its connection, takes the message.
Take(p) ==
    strays' = IF client = "connected" THEN strays ELSE [strays EXCEPT ![p] = @ + 1]

------------------------------------------------------------------------------
(* Variants with a plausible mistake, used to test the properties *)

\* Does not look at the flag.
CheckNothing(p) ==
    /\ Step(p, "check", "set")
    /\ UNCHANGED <<vars, pub_prop, propertyHistory, strays>>

\* Sets the property only where the client has none.
SetIfMissing(p) ==
    /\ ~ApiLockHeld
    /\ Step(p, "set", "send")
    /\ pub_prop' = IF pub_prop = NoOne THEN p ELSE pub_prop
    /\ UNCHANGED <<vars, propertyHistory, strays>>

\* Waits for the connection.
SendWhenConnected(p) ==
    /\ client = "connected" /\ ~ApiLockHeld
    /\ Step(p, "send", "idle")
    /\ UseProperty /\ Take(p)
    /\ UNCHANGED vars

------------------------------------------------------------------------------
(* The publisher tasks *)

Call(p) ==
    /\ Step(p, "idle", "check")
    /\ UNCHANGED <<vars, pub_prop, propertyHistory, strays>>

\* Without a connection the message is skipped.
CheckConnected(p) ==
    /\ Step(p, "check", IF s_connected THEN "set" ELSE "idle")
    /\ UNCHANGED <<vars, pub_prop, propertyHistory, strays>>

\* esp_mqtt5_client_set_publish_property, with a property on the task's stack.
SetProperty(p) ==
    /\ ~ApiLockHeld
    /\ Step(p, "set", "send") /\ pub_prop' = p /\ exposed' = {}
    /\ UNCHANGED <<vars, bare, strays>>

\* esp_mqtt_client_publish; the call returns whether or not the message is taken.
SendMessage(p) ==
    /\ ~ApiLockHeld
    /\ Step(p, "send", "idle")
    /\ \/ UseProperty /\ Take(p)
       \/ Reject(p) /\ UNCHANGED strays
    /\ UNCHANGED vars

------------------------------------------------------------------------------
(* The MQTT task *)

\* on_mqtt_connected sets the property of its message and sends it, which may be
\* rejected as well.
HandlerPublishes ==
    /\ CallConnectedHandler /\ UNCHANGED <<ppc, bare, strays>>
    /\ \/ s_connected_handler /\ pub_prop' = NoOne /\ exposed' = {}
       \/ /\ s_connected_handler /\ pub_prop' = Gone
          /\ exposed' = {p \in PublisherTasks : ppc[p] = "send"}
       \/ ~s_connected_handler /\ UNCHANGED <<pub_prop, exposed>>

\* A new connection carries what the outbox holds.
ConnectAndFlush ==
    /\ ConnectOk
    /\ strays' = [p \in PublisherTasks |-> 0]
    /\ UNCHANGED <<ppc, pub_prop, propertyHistory>>

ManagerOnly ==
    /\ \/ StartClient \/ ClientResume \/ LinkFailure \/ LinkStabilises
       \/ TimerStep \/ OtherTimerCommand \/ HandlerStep
       \/ \E t \in Topics : SubscribeStore(t)
       \/ SubscribeStep \/ SetConnectedHandler
    /\ UNCHANGED publishVars

------------------------------------------------------------------------------
PublishStep(p) == Call(p) \/ CheckConnected(p) \/ SetProperty(p) \/ SendMessage(p)

PublishNext ==
    \/ \E p \in PublisherTasks : PublishStep(p)
    \/ HandlerPublishes \/ ConnectAndFlush \/ ManagerOnly

PublishSpec == PublishInit /\ [][PublishNext]_allVars

\* Strong fairness for the two calls that wait for the API lock: it is free for
\* the whole of every reconnect delay, and FreeRTOS hands a mutex to a waiter.
PublishFairSpec ==
    /\ PublishSpec /\ Fairness
    /\ \A p \in PublisherTasks : /\ WF_allVars(CheckConnected(p))
                                 /\ SF_allVars(SetProperty(p))
                                 /\ SF_allVars(SendMessage(p))

------------------------------------------------------------------------------
(* Properties *)

\* The type invariant, with and without the manager's variables.
PType ==
    /\ ppc \in [PublisherTasks -> {"idle", "check", "set", "send"}]
    /\ pub_prop \in PublisherTasks \cup {NoOne, Gone}
    /\ bare \in BOOLEAN /\ exposed \subseteq PublisherTasks
    /\ strays \in [PublisherTasks -> Nat]
PublishTypeOK == TypeOK /\ PType

\* "The function is safe to call from any task": no message is about to be sent
\* with the pub_prop of a call that has returned, although a rejected message leaves
\* the client pointing at it, for the next call sets its own first.  The exception
\* is a rejection that falls between the two steps of another call.
NoDeadProperty ==
    pub_prop = Gone => \A p \in PublisherTasks : ppc[p] = "send" => p \in exposed

\* The flag may be stale when the message is sent, but only once: after the client
\* has given up a connection it is handed at most one more message by each task
\* until the next one, however long that takes and however often they publish.
\* (What it took before, on a dead link it had not noticed yet, waits as well.)
StrayBound == \A p \in PublisherTasks : strays[p] <= 1

\* The invariant StrayBound follows from: once a task's message is stray, the
\* flag is down, and so is every call that saw it up.
StrayInv ==
    \A p \in PublisherTasks :
        /\ strays[p] <= 1
        /\ strays[p] = 1 => ~s_connected /\ ppc[p] \in {"idle", "check"}
        /\ client = "connected" => strays[p] = 0

\* A call returns, although the connection may come and go for ever.
PublishReturns == \A p \in PublisherTasks : ppc[p] # "idle" ~> ppc[p] = "idle"

\* "Content-type application/json set on every publish" (README.md).
EveryMessageTyped == ~bare

==============================================================================
