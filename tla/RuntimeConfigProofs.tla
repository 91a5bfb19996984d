------------------------- MODULE RuntimeConfigProofs --------------------------
(***************************************************************************)
(* Proofs about RuntimeConfig for every set of tasks, fields and values.   *)
(***************************************************************************)
EXTENDS RuntimeConfig, TLAPS

USE TasksAssumption, CellsAssumption, ValuesAssumption

LEMMA FillType ==
    ASSUME NEW f \in Fields, NEW v \in Values
    PROVE  /\ Fill(f, v) \in [CellsOf(f) -> Values]
           /\ Fill(f, v) \in Strings
           /\ \A i \in CellsOf(f) : Fill(f, v)[i] = v
  BY DEF Fill, Strings

LEMMA LastCell ==
    ASSUME NEW f \in Fields
    PROVE  /\ Cells[f] \in Nat /\ Cells[f] > 0
           /\ 1 \in CellsOf(f) /\ Cells[f] \in CellsOf(f)
  BY DEF CellsOf

-----------------------------------------------------------------------------
(* Type correctness *)

\* What copying a cell makes of the two strings.
LEMMA CopyCellType ==
    ASSUME TypeOK, CallInv, NEW t \in Tasks, CopyCell(t)
    PROVE  /\ s_cfg' \in [Fields -> Strings] /\ buf' \in [Tasks -> Strings]
           /\ \A f \in Fields : s_cfg'[f] \in [CellsOf(f) -> Values]
           /\ \A u \in Tasks : buf'[u] \in [CellsOf(field[u]) -> Values]
<1> DEFINE f == field[t]
           i == copied[t] + 1
<1>1. f \in Fields /\ Cells[f] \in Nat /\ i \in CellsOf(f)
  BY LastCell DEF TypeOK, CallInv, CopyCell, CellsOf
<1>2. /\ s_cfg[f] \in [CellsOf(f) -> Values] /\ buf[t] \in [CellsOf(f) -> Values]
  BY <1>1 DEF TypeOK
<1>3. /\ [s_cfg[f] EXCEPT ![i] = buf[t][i]] \in [CellsOf(f) -> Values]
      /\ [buf[t] EXCEPT ![i] = s_cfg[f][i]] \in [CellsOf(f) -> Values]
  BY <1>1, <1>2
<1>4. \A g \in Fields : [CellsOf(g) -> Values] \subseteq Strings
  BY DEF Strings
<1>5. CASE op[t] = "get"
  <2>1. s_cfg' = s_cfg /\ buf' = [buf EXCEPT ![t] = [@ EXCEPT ![i] = s_cfg[f][i]]]
    BY <1>5 DEF CopyCell
  <2> QED
    BY <1>1, <1>3, <1>4, <2>1 DEF TypeOK
<1>6. CASE op[t] # "get"
  <2>1. buf' = buf /\ s_cfg' = [s_cfg EXCEPT ![f] = [@ EXCEPT ![i] = buf[t][i]]]
    BY <1>6 DEF CopyCell
  <2> QED
    BY <1>1, <1>3, <1>4, <2>1 DEF TypeOK
<1> QED
  BY <1>5, <1>6

LEMMA TypeInit == Init => TypeOK
<1> SUFFICES ASSUME Init PROVE TypeOK
  OBVIOUS
<1>1. /\ \A f \in Fields : s_cfg[f] = Fill(f, Defaults[f]) /\ Defaults[f] \in Values
      /\ s_cfg \in [Fields -> Strings]
  BY FillType DEF Init
<1>2. /\ \A t \in Tasks : buf[t] = Fill(field[t], arg[t])
      /\ buf \in [Tasks -> Strings]
  BY FillType DEF Init
<1> QED
  BY <1>1, <1>2, FillType, LastCell DEF Init, TypeOK

LEMMA TypeStep == TypeOK /\ CallInv /\ [Next]_vars => TypeOK'
<1> SUFFICES ASSUME TypeOK, CallInv, [Next]_vars PROVE TypeOK'
  OBVIOUS
<1>1. ASSUME NEW t \in Tasks, NEW f \in Fields, NEW o \in {"get", "set"},
             NEW v \in Values, Call(t, f, o, v)
      PROVE  TypeOK'
  <2>1. /\ buf' = [buf EXCEPT ![t] = Fill(f, v)] /\ field' = [field EXCEPT ![t] = f]
        /\ s_cfg' = s_cfg /\ s_mutex' = s_mutex
    BY <1>1 DEF Call
  <2>2. buf' \in [Tasks -> Strings]
    BY <2>1, FillType DEF TypeOK
  <2>3. \A u \in Tasks : buf'[u] \in [CellsOf(field'[u]) -> Values]
    BY <2>1, FillType DEF TypeOK
  <2>4. /\ pc' \in [Tasks -> {"idle", "lock", "copy", "unlock"}]
        /\ field' \in [Tasks -> Fields] /\ op' \in [Tasks -> {"get", "set"}]
        /\ arg' \in [Tasks -> Values] /\ copied' \in [Tasks -> Nat]
        /\ \A u \in Tasks : copied'[u] <= Cells[field'[u]]
    BY <1>1, LastCell DEF Call, TypeOK
  <2> QED
    BY <2>1, <2>2, <2>3, <2>4 DEF TypeOK
<1>2. ASSUME NEW t \in Tasks, Lock(t) PROVE TypeOK'
  BY <1>2 DEF Lock, TypeOK, callVars
<1>3. ASSUME NEW t \in Tasks, CopyCell(t) PROVE TypeOK'
  <2>1. /\ s_mutex' = s_mutex /\ field' = field /\ op' = op /\ arg' = arg
        /\ copied' = [copied EXCEPT ![t] = copied[t] + 1]
        /\ pc' \in [Tasks -> {"idle", "lock", "copy", "unlock"}]
    BY <1>3 DEF CopyCell, TypeOK, callVars
  <2>2. copied' \in [Tasks -> Nat] /\ \A u \in Tasks : copied'[u] <= Cells[field[u]]
    BY <1>3, <2>1, LastCell DEF TypeOK, CallInv, CopyCell
  <2> QED
    BY <1>3, <2>1, <2>2, CopyCellType DEF TypeOK
<1>4. ASSUME NEW t \in Tasks, Unlock(t) PROVE TypeOK'
  BY <1>4 DEF Unlock, TypeOK, callVars
<1>5. CASE UNCHANGED vars
  BY <1>5 DEF vars, callVars, TypeOK
<1> QED
  BY <1>1, <1>2, <1>3, <1>4, <1>5 DEF Next

------------------------------------------------------------------------------
(* The inductive invariant *)

\* Only one task is inside.
LEMMA Exclusion ==
    ASSUME HolderInv, NEW t \in Tasks, NEW u \in Tasks, Inside(t), Inside(u)
    PROVE  t = u
  BY DEF HolderInv

LEMMA IndInit == Init => IndInv
<1> SUFFICES ASSUME Init PROVE IndInv
  OBVIOUS
<1>1. HolderInv
  BY DEF Init, HolderInv, Inside
<1>2. CallInv
  BY DEF Init, CallInv
<1>3. WholeInv
  <2> SUFFICES ASSUME NEW f \in Fields
               PROVE  \A i \in CellsOf(f) : s_cfg[f][i] = s_cfg[f][Cells[f]]
    BY DEF WholeInv
  <2>1. s_cfg[f] = Fill(f, Defaults[f]) /\ Defaults[f] \in Values
    BY DEF Init
  <2> QED
    BY <2>1, FillType, LastCell
<1>4. CopiedInv
  BY DEF Init, CopiedInv, Inside
<1> QED
  BY <1>1, <1>2, <1>3, <1>4 DEF IndInv

LEMMA CallStep ==
    ASSUME TypeOK, IndInv, NEW t \in Tasks, NEW f \in Fields,
           NEW o \in {"get", "set"}, NEW v \in Values, Call(t, f, o, v)
    PROVE  IndInv'
<1>1. /\ \A u \in Tasks : Inside(u)' <=> Inside(u)
      /\ ~Inside(t) /\ ~Inside(t)'
  BY DEF Call, Inside, TypeOK
<1>2. \A u \in Tasks : u # t => /\ pc'[u] = pc[u] /\ field'[u] = field[u]
                                /\ op'[u] = op[u] /\ arg'[u] = arg[u]
                                /\ copied'[u] = copied[u] /\ buf'[u] = buf[u]
  BY DEF Call, TypeOK
<1>3. /\ pc'[t] = "lock" /\ field'[t] = f /\ arg'[t] = v /\ copied'[t] = 0
      /\ buf'[t] = Fill(f, v) /\ s_cfg' = s_cfg /\ s_mutex' = s_mutex
  BY DEF Call, TypeOK
<1>4. HolderInv'
  BY <1>1, <1>3 DEF IndInv, HolderInv
<1>5. CallInv'
  <2> SUFFICES ASSUME NEW u \in Tasks
               PROVE  /\ pc'[u] = "lock" => copied'[u] = 0
                      /\ pc'[u] = "copy" => copied'[u] < Cells[field'[u]]
                      /\ pc'[u] = "unlock" => copied'[u] = Cells[field'[u]]
                      /\ op'[u] = "set" => buf'[u] = Fill(field'[u], arg'[u])
    BY DEF CallInv, Fill, CellsOf
  <2>1. CASE u = t
    BY <2>1, <1>3
  <2>2. CASE u # t
    BY <2>2, <1>2 DEF IndInv, CallInv
  <2> QED
    BY <2>1, <2>2
<1>6. WholeInv'
  BY <1>1, <1>2, <1>3 DEF IndInv, WholeInv, BeingSet, CellsOf
<1>7. CopiedInv'
  BY <1>1, <1>2, <1>3 DEF IndInv, CopiedInv, CellsOf
<1> QED
  BY <1>4, <1>5, <1>6, <1>7 DEF IndInv

LEMMA LockStep ==
    ASSUME TypeOK, IndInv, NEW t \in Tasks, Lock(t)
    PROVE  IndInv'
<1>1. /\ pc' = [pc EXCEPT ![t] = "copy"] /\ pc[t] = "lock" /\ s_mutex = Nobody
      /\ s_mutex' = t /\ s_cfg' = s_cfg /\ field' = field /\ op' = op
      /\ arg' = arg /\ copied' = copied /\ buf' = buf
  BY DEF Lock, callVars
<1>2. \A u \in Tasks : ~Inside(u) /\ (Inside(u)' <=> u = t)
  BY <1>1 DEF IndInv, HolderInv, Inside, TypeOK
<1>3. copied[t] = 0 /\ \A f \in Fields : ~BeingSet(f)
  BY <1>1, <1>2 DEF IndInv, CallInv, BeingSet
<1>4. HolderInv'
  BY <1>1, <1>2 DEF HolderInv
<1>5. CallInv'
  BY <1>1, <1>3, LastCell DEF IndInv, CallInv, TypeOK, Fill, CellsOf
<1>6. WholeInv'
  BY <1>1, <1>3 DEF IndInv, WholeInv, BeingSet, CellsOf
<1>7. CopiedInv'
  <2> SUFFICES ASSUME NEW i \in CellsOf(field[t])
               PROVE  /\ ~(i <= copied[t])
                      /\ s_cfg[field[t]][i] = s_cfg[field[t]][Cells[field[t]]]
    BY <1>1, <1>2 DEF CopiedInv, CellsOf
  <2> QED
    BY <1>3 DEF IndInv, WholeInv, CellsOf, TypeOK
<1> QED
  BY <1>4, <1>5, <1>6, <1>7 DEF IndInv

LEMMA CopyStep ==
    ASSUME TypeOK, IndInv, NEW t \in Tasks, CopyCell(t)
    PROVE  IndInv'
<1> DEFINE f == field[t]
           k == copied[t] + 1
<1>1. /\ f \in Fields /\ k \in CellsOf(f) /\ pc[t] = "copy" /\ Inside(t)
      /\ copied[t] \in Nat /\ Cells[f] \in Nat
  BY LastCell DEF TypeOK, IndInv, CallInv, CopyCell, CellsOf, Inside
<1>2. /\ s_mutex' = s_mutex /\ field' = field /\ op' = op /\ arg' = arg
      /\ copied' = [copied EXCEPT ![t] = k]
      /\ pc' = IF k = Cells[f] THEN [pc EXCEPT ![t] = "unlock"] ELSE pc
  BY DEF CopyCell, callVars
<1>3. \A u \in Tasks : /\ Inside(u)' <=> Inside(u)
                       /\ Inside(u) <=> u = t
  BY <1>1, <1>2, Exclusion DEF IndInv, Inside, TypeOK
<1>4. HolderInv'
  BY <1>2, <1>3 DEF IndInv, HolderInv
<1>5. ASSUME buf' = buf
      PROVE  CallInv'
  BY <1>1, <1>2, <1>5 DEF IndInv, CallInv, TypeOK, Fill, CellsOf
<1>6. CASE op[t] = "get"
  <2>1. s_cfg' = s_cfg /\ buf' = [buf EXCEPT ![t] = [@ EXCEPT ![k] = s_cfg[f][k]]]
    BY <1>6 DEF CopyCell
  <2>2. CallInv'
    <3> SUFFICES ASSUME NEW u \in Tasks
                 PROVE  /\ pc'[u] = "lock" => copied'[u] = 0
                        /\ pc'[u] = "copy" => copied'[u] < Cells[field[u]]
                        /\ pc'[u] = "unlock" => copied'[u] = Cells[field[u]]
                        /\ op[u] = "set" => buf'[u] = Fill(field[u], arg[u])
      BY <1>2 DEF CallInv, Fill, CellsOf
    <3>1. CASE u = t
      BY <1>1, <1>2, <1>6, <3>1 DEF IndInv, CallInv, TypeOK, CellsOf
    <3>2. CASE u # t
      BY <1>2, <2>1, <3>2 DEF IndInv, CallInv, TypeOK
    <3> QED
      BY <3>1, <3>2
  <2>3. WholeInv'
    BY <1>2, <1>3, <2>1 DEF IndInv, WholeInv, BeingSet, CellsOf
  <2>4. \A i \in CellsOf(f) : i <= k => buf'[t][i] = s_cfg[f][i]
    BY <1>1, <2>1 DEF IndInv, CopiedInv, TypeOK, CellsOf
  <2>5. CopiedInv'
    BY <1>1, <1>2, <1>3, <1>6, <2>1, <2>4 DEF CopiedInv, CellsOf, TypeOK
  <2> QED
    BY <1>4, <2>2, <2>3, <2>5 DEF IndInv
<1>7. CASE op[t] = "set"
  <2>1. buf' = buf /\ s_cfg' = [s_cfg EXCEPT ![f] = [@ EXCEPT ![k] = buf[t][k]]]
    BY <1>7 DEF CopyCell
  <2>2. BeingSet(f)'
    BY <1>1, <1>2, <1>3, <1>7 DEF BeingSet
  <2>3. \A g \in Fields : g # f => s_cfg'[g] = s_cfg[g]
    BY <2>1 DEF TypeOK
  <2>4. WholeInv'
    BY <1>2, <1>3, <2>2, <2>3 DEF IndInv, WholeInv, BeingSet, CellsOf
  <2>5. \A i \in CellsOf(f) : /\ i # k => s_cfg'[f][i] = s_cfg[f][i]
                              /\ i = k => s_cfg'[f][i] = buf[t][i]
    BY <1>1, <2>1 DEF TypeOK
  <2>6. \A i \in CellsOf(f) :
            /\ i <= k => buf[t][i] = s_cfg'[f][i]
            /\ i > k => s_cfg'[f][i] = s_cfg'[f][Cells[f]]
    <3>1. \A i \in CellsOf(f) :
              /\ i <= copied[t] => buf[t][i] = s_cfg[f][i]
              /\ i > copied[t] => s_cfg[f][i] = s_cfg[f][Cells[f]]
      BY <1>1, <1>7 DEF IndInv, CopiedInv
    <3> QED
      BY <1>1, <2>5, <3>1, LastCell DEF CellsOf
  <2>7. CopiedInv'
    BY <1>1, <1>2, <1>3, <2>1, <2>6 DEF CopiedInv, CellsOf, TypeOK
  <2> QED
    BY <1>4, <1>5, <2>1, <2>4, <2>7 DEF IndInv
<1> QED
  BY <1>6, <1>7 DEF TypeOK

\* A setter that is done has made the whole field its string.
LEMMA UnlockStep ==
    ASSUME TypeOK, IndInv, NEW t \in Tasks, Unlock(t)
    PROVE  IndInv'
<1>1. /\ pc' = [pc EXCEPT ![t] = "idle"] /\ pc[t] = "unlock" /\ Inside(t)
      /\ s_mutex' = Nobody /\ s_cfg' = s_cfg /\ field' = field /\ op' = op
      /\ arg' = arg /\ copied' = copied /\ buf' = buf
  BY DEF Unlock, callVars, Inside
<1>2. \A u \in Tasks : ~Inside(u)' /\ (Inside(u) <=> u = t)
  BY <1>1, Exclusion DEF IndInv, Inside, TypeOK
<1>3. HolderInv'
  BY <1>1, <1>2 DEF HolderInv
<1>4. CallInv'
  BY <1>1 DEF IndInv, CallInv, TypeOK, Fill, CellsOf
<1>5. WholeInv'
  <2> SUFFICES ASSUME NEW f \in Fields
               PROVE  \A i \in CellsOf(f) : s_cfg[f][i] = s_cfg[f][Cells[f]]
    BY <1>1 DEF WholeInv, CellsOf
  <2>1. CASE ~BeingSet(f)
    BY <2>1 DEF IndInv, WholeInv
  <2>2. CASE BeingSet(f)
    <3>1. op[t] = "set" /\ field[t] = f /\ copied[t] = Cells[f]
      BY <1>1, <1>2, <2>2 DEF BeingSet, IndInv, CallInv
    <3>2. buf[t] = Fill(f, arg[t]) /\ arg[t] \in Values
      BY <3>1 DEF IndInv, CallInv, TypeOK
    <3>3. \A i \in CellsOf(f) : s_cfg[f][i] = buf[t][i]
      BY <1>1, <3>1, LastCell DEF IndInv, CopiedInv, CellsOf
    <3> QED
      BY <3>2, <3>3, FillType, LastCell
  <2> QED
    BY <2>1, <2>2
<1>6. CopiedInv'
  BY <1>2 DEF CopiedInv
<1> QED
  BY <1>3, <1>4, <1>5, <1>6 DEF IndInv

LEMMA IndStep == TypeOK /\ IndInv /\ [Next]_vars => IndInv'
<1> SUFFICES ASSUME TypeOK, IndInv, [Next]_vars PROVE IndInv'
  OBVIOUS
<1>1. CASE UNCHANGED vars
  BY <1>1 DEF vars, callVars, IndInv, HolderInv, CallInv, WholeInv, CopiedInv,
              BeingSet, Inside, Fill, CellsOf
<1> QED
  BY <1>1, CallStep, LockStep, CopyStep, UnlockStep DEF Next

\* The types of all variables, for every set of tasks and every field size.
THEOREM TypeCorrect == Spec => []TypeOK
<1>1. Init => TypeOK /\ IndInv
  BY TypeInit, IndInit
<1>2. TypeOK /\ IndInv /\ [Next]_vars => (TypeOK /\ IndInv)'
  BY TypeStep, IndStep DEF IndInv
<1> QED
  BY <1>1, <1>2, PTL DEF Spec

\* The mutex keeps every copy to itself.
THEOREM IndInvHolds == Spec => []IndInv
<1> QED
  BY TypeInit, IndInit, TypeStep, IndStep, PTL DEF Spec, IndInv

------------------------------------------------------------------------------
(* Whole strings *)

\* The value of a row of equal cells is a value, hence not Torn.
LEMMA WholeIsValue ==
    ASSUME NEW f \in Fields, NEW s \in [CellsOf(f) -> Values],
           NEW j \in CellsOf(f), \A i \in CellsOf(f) : s[i] = s[j]
    PROVE  WholeValue(f, s) = s[j] /\ WholeValue(f, s) # Torn
<1>1. 1 \in CellsOf(f)
  BY LastCell
<1>2. s[1] = s[j] /\ \A i \in CellsOf(f) : s[i] = s[1]
  BY <1>1
<1> QED
  BY <1>1, <1>2 DEF WholeValue

\* A getter that is done has the current string, a setter its own.
DoneInv ==
    \A t \in Tasks : pc[t] = "unlock" =>
        LET f == field[t]
        IN  \A i \in CellsOf(f) :
                buf[t][i] = s_cfg[f][i] /\ s_cfg[f][i] = s_cfg[f][Cells[f]]

LEMMA DoneIsWhole == TypeOK /\ IndInv => DoneInv
<1> SUFFICES ASSUME TypeOK, IndInv, NEW t \in Tasks, pc[t] = "unlock"
             PROVE  LET f == field[t]
                    IN  \A i \in CellsOf(f) : /\ buf[t][i] = s_cfg[f][i]
                                              /\ s_cfg[f][i] = s_cfg[f][Cells[f]]
  BY DEF DoneInv
<1> DEFINE f == field[t]
<1>1. f \in Fields /\ copied[t] = Cells[f] /\ Inside(t)
  BY DEF TypeOK, IndInv, CallInv, Inside
<1>2. \A i \in CellsOf(f) : buf[t][i] = s_cfg[f][i]
  BY <1>1, LastCell DEF IndInv, CopiedInv, CellsOf
<1>3. CASE op[t] = "get"
  <2>1. ~BeingSet(f)
    BY <1>1, <1>3, Exclusion DEF BeingSet, IndInv
  <2> QED
    BY <1>1, <1>2, <2>1 DEF IndInv, WholeInv
<1>4. CASE op[t] = "set"
  <2>1. buf[t] = Fill(f, arg[t]) /\ arg[t] \in Values
    BY <1>4 DEF IndInv, CallInv, TypeOK
  <2> QED
    BY <1>1, <1>2, <2>1, FillType, LastCell
<1> QED
  BY <1>3, <1>4 DEF TypeOK

LEMMA WholeStrings == TypeOK /\ IndInv => NoTornString
<1> SUFFICES ASSUME TypeOK, IndInv PROVE NoTornString
  OBVIOUS
<1>1. ASSUME NEW f \in Fields, ~BeingSet(f)
      PROVE  WholeValue(f, s_cfg[f]) # Torn
  <2>1. \A i \in CellsOf(f) : s_cfg[f][i] = s_cfg[f][Cells[f]]
    BY <1>1 DEF IndInv, WholeInv
  <2> QED
    BY <2>1, LastCell, WholeIsValue DEF TypeOK
<1>2. ASSUME NEW t \in Tasks, pc[t] = "unlock"
      PROVE  WholeValue(field[t], buf[t]) # Torn
  <2>1. /\ field[t] \in Fields /\ Cells[field[t]] \in CellsOf(field[t])
        /\ buf[t] \in [CellsOf(field[t]) -> Values]
    BY LastCell DEF TypeOK
  <2>2. \A i \in CellsOf(field[t]) : buf[t][i] = buf[t][Cells[field[t]]]
    BY <1>2, <2>1, DoneIsWhole DEF DoneInv
  <2> QED
    BY <2>1, <2>2, WholeIsValue
<1> QED
  BY <1>1, <1>2 DEF NoTornString

\* No reader gets a mixture of two strings, however long the fields are.
THEOREM StringsAreWhole == Spec => []NoTornString
<1> QED
  BY TypeCorrect, IndInvHolds, WholeStrings, PTL

------------------------------------------------------------------------------
(* Refinement *)

LEMMA RegistersInit == Init => Registers!Init
<1> SUFFICES ASSUME Init PROVE Registers!Init
  OBVIOUS
<1>1. \A f \in Fields : s_cfg[f][Cells[f]] = Defaults[f]
  BY FillType, LastCell DEF Init
<1>2. \A t \in Tasks : CallOf(t) = [state |-> "none"]
  BY DEF Init, CallOf
<1>3. [f \in Fields |-> s_cfg[f][Cells[f]]] = Defaults
  BY <1>1
<1> QED
  BY <1>2, <1>3 DEF Registers!Init, Registers!NoCall

\* What the registers see of a task, phase by phase.
LEMMA CallOfTask ==
    ASSUME TypeOK, NEW t \in Tasks
    PROVE  /\ pc[t] = "idle" => CallOf(t) = Registers!NoCall
           /\ pc[t] \in {"lock", "copy"} =>
                  CallOf(t) = Registers!Pending(field[t], op[t], arg[t])
           /\ pc[t] = "unlock" =>
                  CallOf(t) = Registers!Done(field[t], WholeValue(field[t], buf[t]))
  BY DEF CallOf, Registers!NoCall, Registers!Pending, Registers!Done

LEMMA CallOfTaskNext ==
    ASSUME TypeOK', NEW t \in Tasks
    PROVE  /\ pc'[t] = "idle" => CallOf(t)' = Registers!NoCall
           /\ pc'[t] \in {"lock", "copy"} =>
                  CallOf(t)' = Registers!Pending(field'[t], op'[t], arg'[t])
           /\ pc'[t] = "unlock" =>
                  CallOf(t)' =
                      Registers!Done(field'[t], WholeValue(field[t], buf[t])')
  BY DEF CallOf, Registers!NoCall, Registers!Pending, Registers!Done

LEMMA CallUnchanged ==
    ASSUME NEW u \in Tasks, pc'[u] = pc[u], field'[u] = field[u],
           op'[u] = op[u], arg'[u] = arg[u], buf'[u] = buf[u]
    PROVE  CallOf(u)' = CallOf(u)
  BY DEF CallOf, WholeValue, CellsOf

\* The registers the cells stand for, and their calls.
Reg == [f \in Fields |-> s_cfg[f][Cells[f]]]
Calls == [t \in Tasks |-> CallOf(t)]

LEMMA InvokeStep ==
    ASSUME TypeOK, TypeOK', NEW t \in Tasks, NEW f \in Fields,
           NEW o \in {"get", "set"}, NEW v \in Values, Call(t, f, o, v)
    PROVE  Registers!Invoke(t, f, o, v)
<1>1. /\ pc[t] = "idle" /\ pc'[t] = "lock" /\ field'[t] = f /\ op'[t] = o
      /\ arg'[t] = v /\ s_cfg' = s_cfg
  BY DEF Call, TypeOK
<1>2. \A u \in Tasks : u # t => CallOf(u)' = CallOf(u)
  BY CallUnchanged DEF Call, TypeOK
<1>3. CallOf(t) = Registers!NoCall /\ CallOf(t)' = Registers!Pending(f, o, v)
  BY <1>1, CallOfTask, CallOfTaskNext
<1>4. Calls' = [Calls EXCEPT ![t] = Registers!Pending(f, o, v)]
  BY <1>2, <1>3 DEF Calls
<1>5. Calls[t] = Registers!NoCall /\ Reg' = Reg
  BY <1>1, <1>3 DEF Calls, Reg
<1> QED
  BY <1>4, <1>5 DEF Registers!Invoke, Calls, Reg

LEMMA LockStutters ==
    ASSUME TypeOK, TypeOK', NEW t \in Tasks, Lock(t)
    PROVE  Reg' = Reg /\ Calls' = Calls
<1>1. /\ pc[t] = "lock" /\ pc' = [pc EXCEPT ![t] = "copy"] /\ s_cfg' = s_cfg
      /\ field' = field /\ op' = op /\ arg' = arg /\ buf' = buf
  BY DEF Lock, callVars
<1>2. \A u \in Tasks : u # t => CallOf(u)' = CallOf(u)
  BY <1>1, CallUnchanged DEF TypeOK
<1>3. CallOf(t)' = CallOf(t)
  BY <1>1, CallOfTask, CallOfTaskNext DEF TypeOK
<1> QED
  BY <1>1, <1>2, <1>3 DEF Reg, Calls

LEMMA ReturnStep ==
    ASSUME TypeOK, TypeOK', NEW t \in Tasks, Unlock(t)
    PROVE  Registers!Return(t)
<1>1. /\ pc[t] = "unlock" /\ pc' = [pc EXCEPT ![t] = "idle"] /\ s_cfg' = s_cfg
      /\ field' = field /\ op' = op /\ arg' = arg /\ buf' = buf
  BY DEF Unlock, callVars
<1>2. \A u \in Tasks : u # t => CallOf(u)' = CallOf(u)
  BY <1>1, CallUnchanged DEF TypeOK
<1>3. /\ CallOf(t).state = "done"
      /\ CallOf(t)' = Registers!NoCall
  BY <1>1, CallOfTask, CallOfTaskNext DEF TypeOK, Registers!Done
<1>4. Calls' = [Calls EXCEPT ![t] = Registers!NoCall] /\ Calls[t].state = "done"
  BY <1>2, <1>3 DEF Calls
<1>5. Reg' = Reg
  BY <1>1 DEF Reg
<1> QED
  BY <1>4, <1>5 DEF Registers!Return, Calls, Reg

\* A cell before the last one changes nothing the registers show; the last one
\* is the moment at which the call takes effect.
LEMMA CopyTakesEffect ==
    ASSUME TypeOK, TypeOK', IndInv, DoneInv', NEW t \in Tasks, CopyCell(t)
    PROVE  \/ Reg' = Reg /\ Calls' = Calls
           \/ \E h \in Fields, w \in Values :
                  Registers!Read(t, h, w) \/ Registers!Write(t, h, w)
<1> DEFINE f == field[t]
           k == copied[t] + 1
<1>0. PICK g \in Fields, v \in Values : g = f /\ v = arg[t]
  BY DEF TypeOK
<1>1. /\ f \in Fields /\ k \in CellsOf(f) /\ pc[t] = "copy"
      /\ copied[t] \in Nat /\ Cells[f] \in CellsOf(f)
  BY LastCell DEF TypeOK, IndInv, CallInv, CopyCell, CellsOf
<1>2. /\ field' = field /\ op' = op /\ arg' = arg
      /\ pc' = IF k = Cells[f] THEN [pc EXCEPT ![t] = "unlock"] ELSE pc
  BY DEF CopyCell, callVars
<1>3. \A u \in Tasks : u # t => buf'[u] = buf[u]
  BY DEF CopyCell, TypeOK
<1>4. \A u \in Tasks : u # t => CallOf(u)' = CallOf(u)
  BY <1>2, <1>3, CallUnchanged DEF TypeOK
<1>5. CallOf(t) = Registers!Pending(f, op[t], arg[t])
  BY <1>1, CallOfTask
<1>6. \A h \in Fields : h # f => s_cfg'[h] = s_cfg[h]
  BY DEF CopyCell, TypeOK
<1>7. k # Cells[f] => s_cfg'[f][Cells[f]] = s_cfg[f][Cells[f]]
  BY <1>1 DEF CopyCell, TypeOK
<1>8. CASE k # Cells[f]
  <2>1. CallOf(t)' = CallOf(t)
    BY <1>1, <1>2, <1>5, <1>8, CallOfTaskNext
  <2> QED
    BY <1>4, <1>6, <1>7, <1>8, <2>1 DEF Reg, Calls
<1>9. CASE k = Cells[f]
  <2>1. pc'[t] = "unlock"
    BY <1>2, <1>9 DEF TypeOK
  <2>2. /\ \A i \in CellsOf(f) : buf'[t][i] = s_cfg'[f][i]
        /\ \A i \in CellsOf(f) : s_cfg'[f][i] = s_cfg'[f][Cells[f]]
    BY <1>2, <2>1 DEF DoneInv, CellsOf
  <2>3. /\ buf'[t] \in [CellsOf(f) -> Values]
        /\ \A i \in CellsOf(f) : buf'[t][i] = s_cfg'[f][Cells[f]]
    BY <1>2, <2>2 DEF TypeOK, CellsOf
  <2>4. WholeValue(f, buf'[t]) = s_cfg'[f][Cells[f]]
    BY <1>1, <2>2, <2>3, WholeIsValue
  <2>5. CallOf(t)' = Registers!Done(f, s_cfg'[f][Cells[f]])
    BY <1>2, <2>1, <2>4, CallOfTaskNext DEF WholeValue, CellsOf
  <2>6. Calls' = [Calls EXCEPT ![t] = Registers!Done(f, s_cfg'[f][Cells[f]])]
    BY <1>4, <2>5 DEF Calls
  <2>7. CASE op[t] = "get"
    <3>1. s_cfg' = s_cfg
      BY <2>7 DEF CopyCell
    <3>2. Reg' = Reg /\ Reg[f] = s_cfg'[f][Cells[f]]
      BY <1>1, <3>1 DEF Reg
    <3>3. Calls[t] = Registers!Pending(f, "get", arg[t])
      BY <1>5, <2>7 DEF Calls
    <3>4. Registers!Read(t, g, v)
      BY <1>0, <2>6, <3>2, <3>3 DEF Registers!Read, Calls, Reg
    <3> QED
      BY <3>4
  <2>8. CASE op[t] = "set"
    <3>1. s_cfg'[f][Cells[f]] = arg[t]
      <4>1. s_cfg'[f][Cells[f]] = buf[t][Cells[f]]
        BY <1>1, <1>9, <2>8 DEF CopyCell, TypeOK
      <4>2. buf[t] = Fill(f, arg[t]) /\ arg[t] \in Values
        BY <2>8 DEF IndInv, CallInv, TypeOK
      <4> QED
        BY <1>1, <4>1, <4>2, FillType
    <3>2. Reg' = [Reg EXCEPT ![f] = arg[t]]
      BY <1>1, <1>6, <3>1 DEF Reg
    <3>3. Calls[t] = Registers!Pending(f, "set", arg[t])
      BY <1>5, <2>8 DEF Calls
    <3>4. Registers!Write(t, g, v)
      BY <1>0, <2>6, <3>1, <3>2, <3>3 DEF Registers!Write, Calls, Reg
    <3> QED
      BY <3>4
  <2> QED
    BY <2>7, <2>8 DEF TypeOK
<1> QED
  BY <1>8, <1>9

LEMMA RegistersStep ==
    TypeOK /\ TypeOK' /\ IndInv /\ DoneInv' /\ [Next]_vars =>
        [Registers!Next]_Registers!registerVars
<1> SUFFICES ASSUME TypeOK, TypeOK', IndInv, DoneInv', [Next]_vars
             PROVE  Registers!Next \/ (Reg' = Reg /\ Calls' = Calls)
  BY DEF Registers!registerVars, Reg, Calls
<1>1. ASSUME NEW t \in Tasks, NEW f \in Fields, NEW o \in {"get", "set"},
             NEW v \in Values, Call(t, f, o, v)
      PROVE  Registers!Next
  BY <1>1, InvokeStep DEF Registers!Next
<1>2. ASSUME NEW t \in Tasks, Lock(t) PROVE Reg' = Reg /\ Calls' = Calls
  BY <1>2, LockStutters
<1>3. ASSUME NEW t \in Tasks, CopyCell(t)
      PROVE  Registers!Next \/ (Reg' = Reg /\ Calls' = Calls)
  BY <1>3, CopyTakesEffect DEF Registers!Next
<1>4. ASSUME NEW t \in Tasks, Unlock(t) PROVE Registers!Next
  BY <1>4, ReturnStep DEF Registers!Next
<1>5. CASE UNCHANGED vars
  <2>1. \A t \in Tasks : CallOf(t)' = CallOf(t)
    BY <1>5, CallUnchanged DEF vars, callVars
  <2> QED
    BY <1>5, <2>1 DEF vars, Reg, Calls
<1> QED
  BY <1>1, <1>2, <1>3, <1>4, <1>5 DEF Next

\* The runtime configuration implements atomic registers, for every set of
\* tasks and every field size.
THEOREM Refinement == Spec => ImplementsRegisters
<1>1. Spec => Registers!Init
  BY RegistersInit DEF Spec
<1>2. Spec => []DoneInv
  BY TypeCorrect, IndInvHolds, DoneIsWhole, PTL
<1> QED
  BY <1>1, <1>2, RegistersStep, TypeCorrect, IndInvHolds, PTL
  DEF Spec, ImplementsRegisters, Registers!Spec

==============================================================================
