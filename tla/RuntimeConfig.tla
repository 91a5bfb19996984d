---------------------------- MODULE RuntimeConfig ----------------------------
(***************************************************************************)
(* components/app_config/app_runtime_config.c: one getter and one setter   *)
(* per field, each a critical section of s_mutex.  A field is copied cell  *)
(* by cell (strlcpy; a number has one cell), and between two cells another *)
(* task may run.  A value v stands for the string that has v in each cell, *)
(* after strlcpy has cut it to the size of the field.  A setter called     *)
(* with NULL returns at once and is left out.                              *)
(***************************************************************************)
EXTENDS Naturals

CONSTANTS
    Tasks,      \* publishers, MQTT task
    Fields,     \* members of runtime_config_t
    Cells,      \* cells of each field
    Values,
    Defaults,   \* Kconfig defaults
    Nobody, Torn

ASSUME TasksAssumption == Nobody \notin Tasks
ASSUME CellsAssumption == Cells \in [Fields -> Nat \ {0}]
ASSUME ValuesAssumption == Defaults \in [Fields -> Values] /\ Torn \notin Values

VARIABLES
    s_cfg,      \* the cells of each field
    s_mutex,    \* who holds it
    pc,         \* each task inside a getter or setter
    field, op, arg,     \* what it has called
    copied,     \* cells it has copied
    buf         \* the caller's buffer, or the string it passes

callVars == <<field, op, arg>>
vars == <<s_cfg, s_mutex, pc, callVars, copied, buf>>

CellsOf(f) == 1..Cells[f]
Fill(f, v) == [i \in CellsOf(f) |-> v]

\* app_runtime_config_init; app_main calls it before it starts another task.
Init ==
    /\ s_cfg = [f \in Fields |-> Fill(f, Defaults[f])]
    /\ s_mutex = Nobody
    /\ pc = [t \in Tasks |-> "idle"]
    /\ field \in [Tasks -> Fields] /\ op = [t \in Tasks |-> "get"]
    /\ arg \in [Tasks -> Values]
    /\ copied = [t \in Tasks |-> 0]
    /\ buf = [t \in Tasks |-> Fill(field[t], arg[t])]

\* The caller's buffer holds what it read before, v, or the string to store.
Call(t, f, o, v) ==
    /\ pc[t] = "idle"
    /\ pc' = [pc EXCEPT ![t] = "lock"]
    /\ field' = [field EXCEPT ![t] = f] /\ op' = [op EXCEPT ![t] = o]
    /\ arg' = [arg EXCEPT ![t] = v]
    /\ buf' = [buf EXCEPT ![t] = Fill(f, v)]
    /\ copied' = [copied EXCEPT ![t] = 0]
    /\ UNCHANGED <<s_cfg, s_mutex>>

\* Variants with a plausible mistake, used to test the properties: a getter
\* reads without the lock, ...
LockToWriteOnly(t) ==
    /\ pc[t] = "lock"
    /\ op[t] = "get" \/ s_mutex = Nobody
    /\ s_mutex' = IF op[t] = "get" THEN s_mutex ELSE t
    /\ pc' = [pc EXCEPT ![t] = "copy"]
    /\ UNCHANGED <<s_cfg, callVars, copied, buf>>

\* ... or a getter that finds a string too long for its buffer tries again.
RetryTruncated(t) ==
    /\ pc[t] = "unlock" /\ s_mutex' = Nobody
    /\ IF op[t] = "get" /\ Cells[field[t]] > 1
       THEN pc' = [pc EXCEPT ![t] = "lock"] /\ copied' = [copied EXCEPT ![t] = 0]
       ELSE pc' = [pc EXCEPT ![t] = "idle"] /\ UNCHANGED copied
    /\ UNCHANGED <<s_cfg, callVars, buf>>

\* xSemaphoreTake(s_mutex, portMAX_DELAY)
Lock(t) ==
    /\ pc[t] = "lock" /\ s_mutex = Nobody
    /\ s_mutex' = t
    /\ pc' = [pc EXCEPT ![t] = "copy"]
    /\ UNCHANGED <<s_cfg, callVars, copied, buf>>

\* One cell of a getter, out of s_cfg, or of a setter, into it.
CopyCell(t) ==
    LET f == field[t]
        i == copied[t] + 1
    IN  /\ pc[t] = "copy"
        /\ copied' = [copied EXCEPT ![t] = i]
        /\ IF op[t] = "get"
           THEN buf' = [buf EXCEPT ![t][i] = s_cfg[f][i]] /\ UNCHANGED s_cfg
           ELSE s_cfg' = [s_cfg EXCEPT ![f][i] = buf[t][i]] /\ UNCHANGED buf
        /\ pc' = IF i = Cells[f] THEN [pc EXCEPT ![t] = "unlock"] ELSE pc
        /\ UNCHANGED <<s_mutex, callVars>>

\* xSemaphoreGive(s_mutex), return
Unlock(t) ==
    /\ pc[t] = "unlock"
    /\ s_mutex' = Nobody
    /\ pc' = [pc EXCEPT ![t] = "idle"]
    /\ UNCHANGED <<s_cfg, callVars, copied, buf>>

Next ==
    \E t \in Tasks :
        \/ \E f \in Fields, o \in {"get", "set"}, v \in Values : Call(t, f, o, v)
        \/ Lock(t) \/ CopyCell(t) \/ Unlock(t)

Spec == Init /\ [][Next]_vars

\* Every task runs; the kernel hands the mutex to a task that waits for it, so
\* one that can take it again and again does.
Fairness ==
    \A t \in Tasks : SF_vars(Lock(t)) /\ WF_vars(CopyCell(t)) /\ WF_vars(Unlock(t))

FairSpec == Spec /\ Fairness

------------------------------------------------------------------------------
(* Refinement of the registers *)

\* The value a row of cells stands for.
WholeValue(f, cells) ==
    IF \A i \in CellsOf(f) : cells[i] = cells[1] THEN cells[1] ELSE Torn

CallOf(t) ==
    CASE pc[t] = "idle" -> [state |-> "none"]
      [] pc[t] \in {"lock", "copy"} ->
             [state |-> "pending", field |-> field[t], op |-> op[t], arg |-> arg[t]]
      [] pc[t] = "unlock" ->
             [state |-> "done", field |-> field[t],
              result |-> WholeValue(field[t], buf[t])]

Registers == INSTANCE ConfigRegisters WITH
    reg <- [f \in Fields |-> s_cfg[f][Cells[f]]],
    call <- [t \in Tasks |-> CallOf(t)]

------------------------------------------------------------------------------
(* Properties *)

Strings == UNION {[CellsOf(f) -> Values] : f \in Fields}

\* The type invariant.
TypeOK ==
    /\ s_cfg \in [Fields -> Strings] /\ buf \in [Tasks -> Strings]
    /\ \A f \in Fields : s_cfg[f] \in [CellsOf(f) -> Values]
    /\ \A t \in Tasks : buf[t] \in [CellsOf(field[t]) -> Values]
    /\ s_mutex \in Tasks \cup {Nobody}
    /\ pc \in [Tasks -> {"idle", "lock", "copy", "unlock"}]
    /\ field \in [Tasks -> Fields] /\ op \in [Tasks -> {"get", "set"}]
    /\ arg \in [Tasks -> Values] /\ copied \in [Tasks -> Nat]
    /\ \A t \in Tasks : copied[t] <= Cells[field[t]]

Inside(t) == pc[t] \in {"copy", "unlock"}

BeingSet(f) == \E t \in Tasks : Inside(t) /\ op[t] = "set" /\ field[t] = f

\* No reader sees half of one string and half of another, nor does a string
\* rest half written: a field that nobody is copying into is whole, and so is
\* the buffer a getter is about to return.
NoTornString ==
    /\ \A f \in Fields : ~BeingSet(f) => WholeValue(f, s_cfg[f]) # Torn
    /\ \A t \in Tasks : pc[t] = "unlock" => WholeValue(field[t], buf[t]) # Torn

\* The inductive invariant: the holder of the mutex is the task inside, ...
HolderInv == \A t \in Tasks : Inside(t) <=> s_mutex = t

\* ... the copy is in its bounds and a setter's string is whole, ...
CallInv ==
    \A t \in Tasks :
        /\ pc[t] = "lock" => copied[t] = 0
        /\ pc[t] = "copy" => copied[t] < Cells[field[t]]
        /\ pc[t] = "unlock" => copied[t] = Cells[field[t]]
        /\ op[t] = "set" => buf[t] = Fill(field[t], arg[t])

\* ... a field nobody is copying into is whole, ...
WholeInv ==
    \A f \in Fields :
        ~BeingSet(f) => \A i \in CellsOf(f) : s_cfg[f][i] = s_cfg[f][Cells[f]]

\* ... and what is copied agrees with the field, whose rest is still the old
\* string while it is set.
CopiedInv ==
    \A t \in Tasks : Inside(t) =>
        LET f == field[t]
        IN  \A i \in CellsOf(f) :
                /\ i <= copied[t] => buf[t][i] = s_cfg[f][i]
                /\ op[t] = "set" /\ i > copied[t] => s_cfg[f][i] = s_cfg[f][Cells[f]]

IndInv == HolderInv /\ CallInv /\ WholeInv /\ CopiedInv

\* The settings are atomic registers: each call takes effect at one moment,
\* although it copies cell by cell.
ImplementsRegisters == Registers!Spec

\* Nobody waits for ever, and every call is answered.
CallsReturn == \A t \in Tasks : pc[t] = "lock" ~> pc[t] = "idle"

==============================================================================
