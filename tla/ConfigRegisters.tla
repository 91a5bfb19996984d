--------------------------- MODULE ConfigRegisters ---------------------------
(***************************************************************************)
(* What app_runtime_config.h promises: settings that any task may read and *)
(* write at any time ("safe to call from any task").  Each call takes      *)
(* effect at one moment between its invocation and its return.             *)
(***************************************************************************)
CONSTANTS Tasks, Fields, Values, Defaults

VARIABLES reg,      \* the value of each setting
          call      \* per task: what it has called, or got

registerVars == <<reg, call>>

NoCall == [state |-> "none"]
Pending(f, op, v) == [state |-> "pending", field |-> f, op |-> op, arg |-> v]
Done(f, v) == [state |-> "done", field |-> f, result |-> v]

Init == reg = Defaults /\ call = [t \in Tasks |-> NoCall]

\* A getter has no argument; its caller's old value stands for it.
Invoke(t, f, op, v) ==
    /\ call[t] = NoCall
    /\ call' = [call EXCEPT ![t] = Pending(f, op, v)]
    /\ UNCHANGED reg

Read(t, f, v) ==
    /\ call[t] = Pending(f, "get", v)
    /\ call' = [call EXCEPT ![t] = Done(f, reg[f])]
    /\ UNCHANGED reg

Write(t, f, v) ==
    /\ call[t] = Pending(f, "set", v)
    /\ reg' = [reg EXCEPT ![f] = v]
    /\ call' = [call EXCEPT ![t] = Done(f, v)]

Return(t) ==
    /\ call[t].state = "done"
    /\ call' = [call EXCEPT ![t] = NoCall]
    /\ UNCHANGED reg

Next ==
    \E t \in Tasks :
        \/ \E f \in Fields, v \in Values :
               \/ \E op \in {"get", "set"} : Invoke(t, f, op, v)
               \/ Read(t, f, v) \/ Write(t, f, v)
        \/ Return(t)

Spec == Init /\ [][Next]_registerVars

==============================================================================
