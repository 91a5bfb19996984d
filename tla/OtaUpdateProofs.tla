---------------------------- MODULE OtaUpdateProofs ----------------------------
(***************************************************************************)
(* Proofs about OtaUpdate, for any number of update tasks and heap blocks. *)
(***************************************************************************)
EXTENDS OtaUpdate, TLAPS

\* The type invariant.
THEOREM TypeCorrect == Spec => []TypeOK
<1> USE DEF TypeOK, handlerVars, taskVars
<1>1. Init => TypeOK
  BY DEF Init
<1>2. TypeOK /\ [Next]_vars => TypeOK'
  <2> SUFFICES ASSUME TypeOK, [Next]_vars PROVE TypeOK'
    OBVIOUS
  <2>1. CASE (\E c \in Commands : ReceiveOta(c)) \/ Allocate \/ CreateTask
    BY <2>1 DEF ReceiveOta, Allocate, CreateTask, StartUpdate
  <2>2. ASSUME NEW t \in OtaTasks, Complete(t) \/ Fail(t) \/ EndFailed(t)
        PROVE  TypeOK'
    BY <2>2 DEF Complete, Fail, EndFailed
  <2>3. CASE Reboot \/ \E t \in OtaTasks : EndUpdate(t)
    BY <2>3 DEF Reboot, EndUpdate, RestartDevice
  <2>4. CASE UNCHANGED vars
    BY <2>4 DEF vars
  <2> QED
    BY <2>1, <2>2, <2>3, <2>4 DEF Next
<1> QED
  BY <1>1, <1>2, PTL DEF Spec

\* The handler holds a block exactly while it creates the task for it.
HeapInv == HeapBalanced /\ (hpc = "create" <=> hparams # NoBlock)

\* The same block by block: b is allocated exactly if it has an owner, ...
Owned(b) == b = hparams \/ \E t \in OtaTasks : b = params[t]

\* ... and only one.
HeapByBlock ==
    /\ \A b \in Blocks : b \in heap <=> Owned(b)
    /\ \A t \in OtaTasks : tpc[t] # "none" <=> params[t] # NoBlock
    /\ \A t, u \in OtaTasks : params[t] = params[u] /\ params[t] # NoBlock => t = u
    /\ \A t \in OtaTasks : params[t] = hparams => hparams = NoBlock
    /\ hpc = "create" <=> hparams # NoBlock

LEMMA ByBlock == ASSUME TypeOK, HeapByBlock PROVE HeapInv
<1>1. \A b : b \in Range(params) <=> \E t \in OtaTasks : b = params[t]
  BY DEF TypeOK, Range
<1>2. heap = (Range(params) \cup {hparams}) \ {NoBlock}
  <2>1. ASSUME NEW b PROVE b \in heap <=> b \in Range(params) \cup {hparams} /\ b # NoBlock
    BY <1>1, BlocksAssumption DEF TypeOK, HeapByBlock, Owned
  <2> QED
    BY <2>1
<1>3. hparams \notin Range(params) \ {NoBlock}
  BY <1>1 DEF HeapByBlock
<1> QED
  BY <1>2, <1>3 DEF HeapInv, HeapBalanced, HeapByBlock

LEMMA HeapStep == ASSUME TypeOK, HeapByBlock, [Next]_vars PROVE HeapByBlock'
<1> USE BlocksAssumption
    DEF TypeOK, HeapByBlock, Owned, handlerVars, taskVars
<1>1. CASE \E c \in Commands : ReceiveOta(c)
  BY <1>1 DEF ReceiveOta
<1>2. CASE Allocate
  BY <1>2 DEF Allocate
<1>3. CASE CreateTask
  <2>1. hpc = "create" /\ hpc' = "idle" /\ hparams' = NoBlock /\ hparams \in Blocks
    BY <1>3 DEF CreateTask
  <2>2. ASSUME NEW t \in OtaTasks, tpc[t] = "none",
               tpc' = [tpc EXCEPT ![t] = "update"],
               params' = [params EXCEPT ![t] = hparams], UNCHANGED heap
        PROVE  HeapByBlock'
    <3>1. params[t] = NoBlock /\ params'[t] = hparams /\ tpc'[t] = "update"
      BY <2>2
    <3>2. \A u \in OtaTasks : u # t => params'[u] = params[u] /\ tpc'[u] = tpc[u]
      BY <2>2
    <3>3. \A b \in Blocks : Owned(b)' <=> Owned(b)
      BY <2>1, <3>1, <3>2
    <3> QED
      BY <2>1, <2>2, <3>1, <3>2, <3>3
  <2>3. CASE heap' = heap \ {hparams} /\ UNCHANGED taskVars
    BY <2>1, <2>3
  <2> QED
    BY <1>3, <2>2, <2>3 DEF CreateTask, StartUpdate
<1>4. ASSUME NEW t \in OtaTasks, Complete(t) \/ Fail(t)
      PROVE  HeapByBlock'
  <2>1. UNCHANGED <<hpc, hparams, params, heap>>
    BY <1>4 DEF Complete, Fail
  <2>2. \A u \in OtaTasks : tpc'[u] # "none" <=> tpc[u] # "none"
    BY <1>4 DEF Complete, Fail
  <2> QED
    BY <2>1, <2>2
<1>5. ASSUME NEW t \in OtaTasks, EndFailed(t) PROVE HeapByBlock'
  <2>1. /\ UNCHANGED <<hpc, hparams>> /\ params[t] \in Blocks
        /\ heap' = heap \ {params[t]} /\ params'[t] = NoBlock /\ tpc'[t] = "none"
    BY <1>5 DEF EndFailed
  <2>2. \A u \in OtaTasks : u # t => params'[u] = params[u] /\ tpc'[u] = tpc[u]
    BY <1>5 DEF EndFailed
  <2>3. \A b \in Blocks : Owned(b)' <=> Owned(b) /\ b # params[t]
    BY <2>1, <2>2
  <2> QED
    BY <2>1, <2>2, <2>3
<1>6. ASSUME RestartDevice PROVE HeapByBlock'
  BY <1>6 DEF RestartDevice
<1>7. CASE UNCHANGED vars
  BY <1>7 DEF vars
<1> QED
  BY <1>1, <1>2, <1>3, <1>4, <1>5, <1>6, <1>7 DEF Next, EndUpdate, Reboot

\* Every block has exactly one owner: nothing leaks, nothing is freed too early
\* or twice.
THEOREM HeapIsBalanced == Spec => []HeapBalanced
<1>1. Init => HeapByBlock
  BY BlocksAssumption DEF Init, HeapByBlock, Owned
<1>2. TypeOK /\ HeapByBlock /\ [Next]_vars => HeapByBlock'
  BY HeapStep
<1>3. TypeOK /\ HeapByBlock => HeapBalanced
  BY ByBlock DEF HeapInv
<1> QED
  BY <1>1, <1>2, <1>3, TypeCorrect, PTL DEF Spec

==============================================================================
