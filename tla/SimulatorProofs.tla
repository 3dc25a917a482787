-------------------------- MODULE SimulatorProofs --------------------------
(***************************************************************************)
(* Theorems about Simulator, for any number of cores and processes, any    *)
(* policy and any counter width.                                           *)
(***************************************************************************)
EXTENDS Simulator, ContainerLemmas, FiniteSetTheorems

USE DEF vars, pcbVars, schedulerVars, ioVars, coreVars, programVars, workerVars

-----------------------------------------------------------------------------
(* Types *)

LEMMA WrapType ==
  ASSUME NEW n \in Int
  PROVE  Wrap(n) \in Counter
BY WordAssumption DEF Wrap, Counter

\* addProcess adds the process to the queue, wherever the policy sorts it to.
LEMMA AddProcessContents ==
  ASSUME NEW p \in Proc, NEW now, ready_queue \in Seq(Proc), addProcess(p, now)
  PROVE  /\ ready_queue' \in Seq(Proc)
         /\ Range(ready_queue') = Range(ready_queue) \cup {p}
         /\ IsInjective(ready_queue) /\ p \notin Range(ready_queue) =>
              IsInjective(ready_queue')
<1> DEFINE pushed == Append(ready_queue, p)
<1>1. /\ pushed \in Seq(Proc)
      /\ Range(pushed) = Range(ready_queue) \cup {p}
      /\ IsInjective(ready_queue) /\ p \notin Range(ready_queue) => IsInjective(pushed)
  BY AppendContents
<1>2. CASE ready_queue' \in SortQueue(pushed)
  <2> HIDE DEF pushed
  <2>1. PICK perm \in Bijection(DOMAIN pushed, DOMAIN pushed) :
          ready_queue' = [i \in DOMAIN pushed |-> pushed[perm[i]]]
    BY <1>2 DEF SortQueue
  <2> QED BY <1>1, <2>1, RearrangementContents
<1>3. CASE ready_queue' = pushed
  BY <1>1, <1>3
<1> QED BY <1>2, <1>3 DEF addProcess

LEMMA TypeInit == Init => TypeOK
<1> SUFFICES ASSUME Init PROVE TypeOK
  OBVIOUS
<1>1. PcbTypeOK
  <2>1. 0 \in Counter /\ Wrap(1) \in Counter
    BY WrapType, WordAssumption DEF Counter
  <2> QED BY <2>1 DEF Init, PcbInit, PcbTypeOK, State
<1>2. SchedulerTypeOK
  <2>1. Cardinality(Proc) \in Nat
    BY ProcAssumption, FS_CardinalityType
  <2>2. ready_queue \in [1 .. Cardinality(Proc) -> Proc]
    BY DEF Init, SchedulerInit, Bijection, Injection
  <2>3. ASSUME NEW n \in Nat, NEW f \in [1 .. n -> Proc] PROVE f \in Seq(Proc)
    BY <2>3
  <2>4. ready_queue \in Seq(Proc)
    BY <2>1, <2>2, <2>3
  <2> QED BY <2>4 DEF Init, SchedulerInit, SchedulerTypeOK
<1>3. IOManagerTypeOK
  <2>1. <<>> \in Seq(Proc)
    OBVIOUS
  <2> QED BY <2>1, Zenon DEF Init, IOManagerInit, IOManagerTypeOK
<1>4. 0 \in Counter
  BY WordAssumption DEF Counter
<1> QED BY <1>1, <1>2, <1>3, <1>4 DEF Init, TypeOK

\* A core between getNextProcess and the end of its switch has a process.
LEMMA CoreHasProcess ==
  ASSUME IInv, NEW c \in Cores, corePc[c] \in {"execute", "switch", "block"}
  PROVE  current_process[c] \in Proc
BY DEF IInv, OwnershipInv, TypeOK

LEMMA TypeCore ==
  ASSUME IInv, NEW c \in Cores, coreWorker(c)
  PROVE  TypeOK'
<1> DEFINE p == current_process[c]
<1> TypeOK
  BY DEF IInv
<1>1. CASE CoreTest(c)
  BY <1>1 DEF CoreTest, TypeOK, PcbTypeOK, SchedulerTypeOK, IOManagerTypeOK
<1>2. CASE CoreIdle(c)
  BY <1>2 DEF CoreIdle, TypeOK, PcbTypeOK, SchedulerTypeOK, IOManagerTypeOK
<1>3. CASE CoreDispatch(c)
  <2>1. Head(ready_queue) \in Proc /\ ready_queue' \in Seq(Proc)
    BY <1>3, TailContents DEF CoreDispatch, hasProcesses, getNextProcess, TypeOK, SchedulerTypeOK
  <2>2. g_core_clock[c] \in Counter /\ last_ready_in[Head(ready_queue)] \in Counter
        /\ waiting_time[Head(ready_queue)] \in Counter
    BY <2>1 DEF TypeOK, PcbTypeOK
  <2>3. Wrap(waiting_time[Head(ready_queue)]
               + (g_core_clock[c] - last_ready_in[Head(ready_queue)])) \in Counter
    BY <2>2, WrapType DEF Counter
  <2>4. PcbTypeOK'
    BY <1>3, <2>1, <2>2, <2>3 DEF CoreDispatch, getNextProcess, TypeOK, PcbTypeOK, State
  <2>5. SchedulerTypeOK' /\ IOManagerTypeOK'
    BY <1>3, <2>1 DEF CoreDispatch, TypeOK, SchedulerTypeOK, IOManagerTypeOK
  <2> QED BY <1>3, <2>1, <2>4, <2>5 DEF CoreDispatch, TypeOK
<1>4. CASE CoreExecute(c)
  <2>2. p \in Proc
    BY <1>4, CoreHasProcess DEF CoreExecute
  <2>3. PICK outcome \in Outcomes(p), used \in Nat :
          state' = [state EXCEPT ![p] = outcome] /\ Charge(c, p, used)
    <3>1. PICK outcome \in Outcomes(p) :
            \E used \in (IF outcome = "Running" THEN {FullSlice} ELSE ShortSlices) :
              state' = [state EXCEPT ![p] = outcome] /\ Charge(c, p, used)
      BY <1>4, Zenon DEF CoreExecute
    <3>2. (IF outcome = "Running" THEN {FullSlice} ELSE ShortSlices) \subseteq Nat
      BY SimulatorAssumption
    <3> QED BY <3>1, <3>2, Zenon
  <2>4. outcome \in State
    BY <2>3 DEF Outcomes, State
  <2>5. \A n \in Counter : Wrap(n + used) \in Counter
    BY WrapType DEF Counter
  <2>6. g_core_clock' \in [Cores -> Counter] /\ g_core_busy' \in [Cores -> Counter]
    BY <2>3, <2>5 DEF Charge, TypeOK
  <2>7. cpu_time' \in [Proc -> Counter]
    BY <2>3, <2>5 DEF Charge, TypeOK, PcbTypeOK
  <2>8. PcbTypeOK'
    BY <1>4, <2>3, <2>4, <2>7 DEF CoreExecute, TypeOK, PcbTypeOK
  <2>9. SchedulerTypeOK' /\ IOManagerTypeOK'
    BY <1>4 DEF CoreExecute, TypeOK, SchedulerTypeOK, IOManagerTypeOK
  <2>10. slices' \in [Proc -> Nat] /\ endless' \in EndlessSets
    <3>1. slices' = [slices EXCEPT ![p] = IF p \in endless THEN slices[p] ELSE slices[p] + 1]
          /\ endless' = endless
      BY <1>4 DEF CoreExecute
    <3>2. slices \in [Proc -> Nat] /\ endless \in EndlessSets
      BY DEF TypeOK
    <3>3. slices[p] \in Nat
      BY <2>2, <3>2
    <3>4. (IF p \in endless THEN slices[p] ELSE slices[p] + 1) \in Nat
      BY <3>3
    <3> DEFINE v == IF p \in endless THEN slices[p] ELSE slices[p] + 1
    <3>5. slices' = [slices EXCEPT ![p] = v]
      BY <3>1, Zenon
    <3> HIDE DEF v
    <3>6. slices' \in [Proc -> Nat]
      BY <3>2, <3>4, <3>5 DEF v
    <3> QED BY <3>1, <3>2, <3>6
  <2> QED BY <1>4, <2>6, <2>8, <2>9, <2>10 DEF CoreExecute, TypeOK
<1>5. CASE CoreRegister(c)
  <2>1. p \in Proc
    BY <1>5, CoreHasProcess DEF CoreRegister
  <2>2. waiting_processes' \in Seq(Proc)
    BY <1>5, <2>1, AppendContents DEF CoreRegister, registerProcessWaitingForIO, TypeOK, IOManagerTypeOK
  <2>3. IOManagerTypeOK'
    BY <1>5, <2>2 DEF CoreRegister, registerProcessWaitingForIO, TypeOK, IOManagerTypeOK
  <2> QED BY <1>5, <2>3 DEF CoreRegister, TypeOK, PcbTypeOK, SchedulerTypeOK
<1>6. CASE CoreBlock(c)
  <2>1. p \in Proc
    BY <1>6, CoreHasProcess DEF CoreBlock
  <2>2. blocked_list' \in Seq(Proc)
    BY <1>6, <2>1, AppendContents DEF CoreBlock, TypeOK
  <2> QED BY <1>6, <2>2 DEF CoreBlock, TypeOK, PcbTypeOK, SchedulerTypeOK, IOManagerTypeOK
<1>7. CASE CoreFinish(c)
  <2>1. finish_time' \in [Proc -> Counter]
    BY <1>7 DEF CoreFinish, TypeOK, PcbTypeOK
  <2>2. PcbTypeOK'
    BY <1>7, <2>1 DEF CoreFinish, TypeOK, PcbTypeOK
  <2> QED BY <1>7, <2>2 DEF CoreFinish, TypeOK, SchedulerTypeOK, IOManagerTypeOK
<1>8. CASE CoreRequeue(c)
  <2>1. p \in Proc /\ g_core_clock[c] \in Counter
    BY <1>8, CoreHasProcess DEF CoreRequeue, TypeOK
  <2>2. /\ ready_queue' \in Seq(Proc)
        /\ state' \in [Proc -> State]
        /\ last_ready_in' \in [Proc -> Counter]
    <3>1. CASE addProcess(p, g_core_clock[c])
      <4>1. ready_queue' \in Seq(Proc)
        BY <2>1, <3>1, AddProcessContents DEF TypeOK, SchedulerTypeOK
      <4> QED BY <2>1, <3>1, <4>1 DEF addProcess, TypeOK, PcbTypeOK, State
    <3>2. CASE pushFront(p) /\ UNCHANGED last_ready_in /\ state' = [state EXCEPT ![p] = "Running"]
      <4>1. ready_queue' \in Seq(Proc)
        BY <2>1, <3>2, ConsContents DEF pushFront, TypeOK, SchedulerTypeOK
      <4> QED BY <3>2, <4>1 DEF TypeOK, PcbTypeOK, State
    <3> QED BY <1>8, <3>1, <3>2 DEF CoreRequeue
  <2>3. PcbTypeOK' /\ SchedulerTypeOK' /\ IOManagerTypeOK'
    BY <1>8, <2>2 DEF CoreRequeue, TypeOK, PcbTypeOK, SchedulerTypeOK, IOManagerTypeOK
  <2> QED BY <1>8, <2>3 DEF CoreRequeue, TypeOK
<1> QED BY <1>1, <1>2, <1>3, <1>4, <1>5, <1>6, <1>7, <1>8 DEF coreWorker

LEMMA TypeWorker ==
  ASSUME IInv, ioWorker
  PROVE  TypeOK'
<1> TypeOK
  BY DEF IInv
<1>1. CASE WorkerTest \/ WorkerLock \/ WorkerSkip \/ WorkerUnlock
  <2>1. CASE WorkerTest
    BY <2>1 DEF WorkerTest, TypeOK, PcbTypeOK, SchedulerTypeOK, IOManagerTypeOK
  <2>2. CASE WorkerLock
    BY <2>2 DEF WorkerLock, TypeOK, PcbTypeOK, SchedulerTypeOK, IOManagerTypeOK
  <2>3. CASE WorkerSkip
    BY <2>3 DEF WorkerSkip, TypeOK, PcbTypeOK, SchedulerTypeOK, IOManagerTypeOK
  <2>4. CASE WorkerUnlock
    BY <2>4 DEF WorkerUnlock, TypeOK, PcbTypeOK, SchedulerTypeOK, IOManagerTypeOK
  <2> QED BY <1>1, <2>1, <2>2, <2>3, <2>4
<1>2. CASE WorkerReinsert
  <2>1. blocked_list[it] \in Proc
    BY <1>2 DEF WorkerReinsert, TypeOK
  <2>2. ready_queue' \in Seq(Proc)
    BY <1>2, <2>1, AddProcessContents DEF WorkerReinsert, TypeOK, SchedulerTypeOK
  <2>3. state' \in [Proc -> State] /\ last_ready_in' \in [Proc -> Counter]
    <3>1. 0 \in Counter
      BY WordAssumption DEF Counter
    <3> QED BY <1>2, <2>1, <3>1 DEF WorkerReinsert, addProcess, TypeOK, PcbTypeOK, State
  <2>4. PcbTypeOK' /\ SchedulerTypeOK' /\ IOManagerTypeOK'
    BY <1>2, <2>2, <2>3 DEF WorkerReinsert, TypeOK, PcbTypeOK, SchedulerTypeOK, IOManagerTypeOK
  <2> QED BY <1>2, <2>4 DEF WorkerReinsert, TypeOK
<1>3. CASE WorkerErase
  <2>1. it \in 1 .. Len(blocked_list)
    BY <1>3 DEF WorkerErase, IInv, OwnershipInv, TypeOK
  <2>2. blocked_list' \in Seq(Proc)
    BY <1>3, <2>1, RemoveAtContents DEF WorkerErase, TypeOK
  <2> QED BY <1>3, <2>2 DEF WorkerErase, TypeOK, PcbTypeOK, SchedulerTypeOK, IOManagerTypeOK
<1> QED BY <1>1, <1>2, <1>3 DEF ioWorker

LEMMA TypeManager ==
  ASSUME IInv, managerLoop
  PROVE  TypeOK'
<1> TypeOK
  BY DEF IInv
<1>1. PcbTypeOK' /\ IOManagerTypeOK'
  <2>1. CASE ManagerExit
    BY <2>1 DEF ManagerExit, TypeOK, PcbTypeOK, IOManagerTypeOK
  <2>2. CASE ManagerDevices
    BY <2>2 DEF ManagerDevices, TypeOK, PcbTypeOK, IOManagerTypeOK
  <2>3. CASE ManagerAssign
    <3>1. waiting_processes' \in Seq(Proc) /\ requests' \in Seq(Proc)
      <4>1. waiting_processes \in Seq(Proc) /\ requests \in Seq(Proc)
        BY DEF TypeOK, IOManagerTypeOK
      <4>2. CASE waiting_processes # <<>> /\ requests' = Append(requests, Head(waiting_processes))
                 /\ waiting_processes' = Tail(waiting_processes)
        BY <4>1, <4>2, TailContents, AppendContents
      <4>3. CASE UNCHANGED <<waiting_processes, requests>>
        BY <4>1, <4>3
      <4> QED BY <2>3, <4>2, <4>3 DEF ManagerAssign
    <3> QED BY <2>3, <3>1 DEF ManagerAssign, TypeOK, PcbTypeOK, IOManagerTypeOK
  <2>4. CASE ManagerTake
    <3>1. req_to_process' \in Proc \cup {NONE} /\ requests' \in Seq(Proc)
      <4>1. requests \in Seq(Proc) /\ req_to_process \in Proc \cup {NONE}
        BY DEF TypeOK, IOManagerTypeOK
      <4>2. CASE requests # <<>> /\ req_to_process' = Head(requests) /\ requests' = Tail(requests)
        BY <4>1, <4>2, TailContents
      <4>3. CASE UNCHANGED <<requests, req_to_process>>
        BY <4>1, <4>3
      <4> QED BY <2>4, <4>2, <4>3 DEF ManagerTake
    <3> QED BY <2>4, <3>1 DEF ManagerTake, TypeOK, PcbTypeOK, IOManagerTypeOK
  <2>5. CASE ManagerServe
    <3>1. io_cycles' \in [Proc -> Counter]
      <4>1. PICK duration \in IoCosts :
              io_cycles' = [io_cycles EXCEPT ![req_to_process] = Wrap(@ + duration)]
        BY <2>5 DEF ManagerServe
      <4>2. \A n \in Counter : Wrap(n + duration) \in Counter
        BY IoCostAssumption, WrapType DEF Counter
      <4> QED BY <4>1, <4>2 DEF TypeOK, PcbTypeOK
    <3>2. state' \in [Proc -> State]
      BY <2>5 DEF ManagerServe, TypeOK, PcbTypeOK, State
    <3> QED BY <2>5, <3>1, <3>2 DEF ManagerServe, TypeOK, PcbTypeOK, IOManagerTypeOK
  <2> QED BY <2>1, <2>2, <2>3, <2>4, <2>5 DEF managerLoop, ManagerNext
<1> QED BY <1>1 DEF managerLoop, TypeOK, SchedulerTypeOK

LEMMA TypeMain ==
  ASSUME IInv, run_simulation_with_policy
  PROVE  TypeOK'
BY DEF IInv, run_simulation_with_policy, MainJoin, MainShutdown, Shutdown, MainReturn,
       TypeOK, PcbTypeOK, SchedulerTypeOK, IOManagerTypeOK

\* Every step keeps the types of the variables.
LEMMA TypeStep ==
  ASSUME IInv, [Next]_vars
  PROVE  TypeOK'
<1>1. CASE UNCHANGED vars
  BY <1>1 DEF IInv, TypeOK, PcbTypeOK, SchedulerTypeOK, IOManagerTypeOK
<1>2. CASE Next
  BY <1>1, <1>2, TypeCore, TypeWorker, TypeManager, TypeMain DEF Next, Terminating
<1> QED BY <1>1, <1>2

-----------------------------------------------------------------------------
(* The cores' pointers *)

\* A core lets go of its process: no other core had it.
LEMMA CoreFreed ==
  ASSUME NEW cur \in [Cores -> Proc \cup {NONE}], NEW c \in Cores, cur[c] # NONE,
         \A a, b \in Cores : cur[a] = cur[b] => a = b \/ cur[a] = NONE
  PROVE  LET new == [cur EXCEPT ![c] = NONE]
         IN  /\ Range(new) \ {NONE} = (Range(cur) \ {NONE}) \ {cur[c]}
             /\ \A a, b \in Cores : new[a] = new[b] => a = b \/ new[a] = NONE
<1> DEFINE new == [cur EXCEPT ![c] = NONE]
<1>1. /\ new \in [Cores -> Proc \cup {NONE}] /\ new[c] = NONE
      /\ \A d \in Cores : d # c => new[d] = cur[d]
  OBVIOUS
<1>2. \A d \in Cores : d # c => cur[d] # cur[c]
  OBVIOUS
<1> HIDE DEF new
<1> QED BY <1>1, <1>2 DEF Range

\* An idle core takes a process that no core has.
LEMMA CoreTaken ==
  ASSUME NEW cur \in [Cores -> Proc \cup {NONE}], NEW c \in Cores, cur[c] = NONE,
         \A a, b \in Cores : cur[a] = cur[b] => a = b \/ cur[a] = NONE,
         NEW p \in Proc, p \notin Range(cur) \ {NONE}
  PROVE  LET new == [cur EXCEPT ![c] = p]
         IN  /\ Range(new) \ {NONE} = (Range(cur) \ {NONE}) \cup {p}
             /\ \A a, b \in Cores : new[a] = new[b] => a = b \/ new[a] = NONE
<1> DEFINE new == [cur EXCEPT ![c] = p]
<1>1. /\ new \in [Cores -> Proc \cup {NONE}] /\ new[c] = p
      /\ \A d \in Cores : d # c => new[d] = cur[d]
  OBVIOUS
<1>2. p # NONE /\ \A d \in Cores : cur[d] # p
  BY ProcAssumption DEF Range
<1> HIDE DEF new
<1> QED BY <1>1, <1>2 DEF Range

LEMMA OnCoresFact ==
  ASSUME TypeOK, NEW c \in Cores, current_process[c] # NONE
  PROVE  current_process[c] \in OnCores
BY DEF TypeOK, OnCores, Range

LEMMA RangeType ==
  ASSUME NEW S, NEW seq \in Seq(S), NEW x \in Range(seq)
  PROVE  x \in S
BY DEF Range

LEMMA PendingType ==
  ASSUME TypeOK, NEW p \in Pending
  PROVE  p \in Proc
BY DEF TypeOK, Pending, PendingAt

LEMMA HeldType ==
  ASSUME TypeOK, NEW p \in HeldByManager
  PROVE  p \in Proc
BY RangeType DEF TypeOK, IOManagerTypeOK, HeldByManager

-----------------------------------------------------------------------------
(* The threads keep the invariant *)

Inv == OwnershipInv /\ ManagerInv /\ StateInv

LEMMA InvInit == Init => Inv
<1> SUFFICES ASSUME Init PROVE Inv
  OBVIOUS
<1>1. OnCores = {} /\ Pending = {} /\ HeldByManager = {}
  BY DEF Init, IOManagerInit, OnCores, Pending, PendingAt, HeldByManager, Range
<1>2. Range(ready_queue) = Proc /\ IsInjective(ready_queue)
  BY DEF Init, SchedulerInit, Bijection, Injection, Surjection, Range
<1>3. OwnershipInv
  BY <1>1, <1>2 DEF Init, OwnershipInv, PendingAt
<1>4. ManagerInv
  BY ProcAssumption DEF Init, IOManagerInit, ManagerInv, Range, IsInjective
<1>5. StateInv
  BY <1>1, <1>2 DEF Init, PcbInit, StateInv, CoreStates
<1> QED BY <1>3, <1>4, <1>5 DEF Inv

LEMMA InvCoreIdling ==
  ASSUME IInv, NEW c \in Cores, CoreTest(c) \/ CoreIdle(c)
  PROVE  Inv' /\ UNCHANGED Ended
<1> TypeOK /\ OwnershipInv /\ ManagerInv /\ StateInv
  BY DEF IInv
<1>1. /\ UNCHANGED <<pcbVars, schedulerVars, ioVars, current_process, workerVars, blocked_list>>
      /\ corePc[c] \in {"test", "get"}
      /\ \E pc \in {"test", "get", "done"} : corePc' = [corePc EXCEPT ![c] = pc]
  BY DEF CoreTest, CoreIdle
<1>2. /\ OnCores' = OnCores /\ Pending' = Pending
      /\ PendingAt' = PendingAt /\ HeldByManager' = HeldByManager
  BY <1>1 DEF OnCores, Pending, PendingAt, HeldByManager
<1>3. \A d \in Cores : corePc'[d] # corePc[d] =>
         corePc[d] \in {"test", "get"} /\ corePc'[d] \in {"test", "get", "done"}
  BY <1>1 DEF TypeOK
<1>4. OwnershipInv'
  BY <1>1, <1>2, <1>3 DEF OwnershipInv
<1>5. ManagerInv'
  BY <1>1 DEF ManagerInv
<1>6. StateInv'
  BY <1>1, <1>2, <1>3 DEF StateInv, CoreStates
<1>7. Ended' = Ended
  BY <1>1, <1>2 DEF Ended
<1> QED BY <1>4, <1>5, <1>6, <1>7 DEF Inv

LEMMA InvCoreDispatch ==
  ASSUME IInv, NEW c \in Cores, CoreDispatch(c)
  PROVE  Inv' /\ UNCHANGED Ended
<1> DEFINE next == Head(ready_queue)
<1> TypeOK /\ OwnershipInv /\ ManagerInv /\ StateInv
  BY DEF IInv
<1>1. /\ UNCHANGED <<ioVars, workerVars, blocked_list>>
      /\ corePc[c] = "get" /\ corePc' = [corePc EXCEPT ![c] = "execute"]
      /\ current_process' = [current_process EXCEPT ![c] = next]
      /\ state' = [state EXCEPT ![next] = "Running"]
      /\ ready_queue # <<>> /\ ready_queue' = Tail(ready_queue)
  BY DEF CoreDispatch, hasProcesses, getNextProcess
<1>2. /\ next \in Proc /\ next \in Range(ready_queue)
      /\ Range(ready_queue) = Range(ready_queue') \cup {next}
      /\ IsInjective(ready_queue') /\ next \notin Range(ready_queue')
  BY <1>1, TailContents DEF TypeOK, SchedulerTypeOK, OwnershipInv
<1>3. current_process[c] = NONE /\ next \notin OnCores /\ next \notin Pending
  BY <1>1, <1>2 DEF OwnershipInv
<1>4. /\ OnCores' = OnCores \cup {next}
      /\ \A a, b \in Cores : current_process'[a] = current_process'[b] =>
                               a = b \/ current_process'[a] = NONE
  <2>1. /\ current_process \in [Cores -> Proc \cup {NONE}]
        /\ \A a, b \in Cores : current_process[a] = current_process[b] =>
                                 a = b \/ current_process[a] = NONE
    BY DEF TypeOK, OwnershipInv
  <2>2. next \notin Range(current_process) \ {NONE}
    BY <1>3 DEF OnCores
  <2>3. /\ Range(current_process') \ {NONE} = (Range(current_process) \ {NONE}) \cup {next}
        /\ \A a, b \in Cores : current_process'[a] = current_process'[b] =>
                                 a = b \/ current_process'[a] = NONE
    <3>1. next \in Proc /\ current_process[c] = NONE /\ c \in Cores
      BY <1>2, <1>3
    <3> HIDE DEF next
    <3>2. LET new == [current_process EXCEPT ![c] = next]
          IN  /\ Range(new) \ {NONE} = (Range(current_process) \ {NONE}) \cup {next}
              /\ \A a, b \in Cores : new[a] = new[b] => a = b \/ new[a] = NONE
      BY <2>1, <2>2, <3>1, CoreTaken
    <3>3. current_process' = [current_process EXCEPT ![c] = next]
      BY <1>1
    <3> QED BY <3>2, <3>3
  <2> QED BY <2>3 DEF OnCores
<1>5. Pending' = Pending /\ PendingAt' = PendingAt /\ HeldByManager' = HeldByManager
  BY <1>1 DEF Pending, PendingAt, HeldByManager
<1>6. next \notin HeldByManager
  BY <1>2 DEF StateInv
<1>7. /\ state'[next] = "Running"
      /\ \A p \in Proc : p # next => state'[p] = state[p]
  BY <1>1, <1>2 DEF TypeOK, PcbTypeOK
<1>8. /\ corePc'[c] = "execute" /\ current_process'[c] = next
      /\ \A d \in Cores : d # c => /\ corePc'[d] = corePc[d]
                                   /\ current_process'[d] = current_process[d]
                                   /\ current_process[d] # next
  <2>1. \A d \in Cores : current_process[d] # next
    BY <1>2, <1>3, OnCoresFact, ProcAssumption
  <2> QED BY <1>1, <2>1 DEF TypeOK
<1>9. OwnershipInv'
  BY <1>1, <1>2, <1>3, <1>4, <1>5, <1>8, ProcAssumption DEF OwnershipInv
<1>10. ManagerInv'
  BY <1>1 DEF ManagerInv
<1>11. StateInv'
  <2>1. \A p \in Range(ready_queue') : state'[p] \in {"Ready", "Running"}
    BY <1>2, <1>7, RangeType DEF StateInv, TypeOK, SchedulerTypeOK
  <2>2. CoreStates'
    BY <1>1, <1>2, <1>5, <1>6, <1>7, <1>8, CoreHasProcess DEF StateInv, CoreStates
  <2>3. \A p \in Pending : p \in Proc /\ p # next
    BY <1>3, PendingType
  <2>4. \A p \in HeldByManager : p \in Proc /\ p # next
    BY <1>6, HeldType
  <2>5. \A p \in Proc : state'[p] = "Finished" \/ p \in (Range(ready_queue) \cup OnCores \cup Pending)'
    BY <1>2, <1>4, <1>5, <1>7 DEF StateInv
  <2> QED BY <1>5, <1>7, <2>1, <2>2, <2>3, <2>4, <2>5 DEF StateInv
<1>12. Ended' = Ended
  BY <1>2, <1>4, <1>7 DEF Ended, StateInv
<1> QED BY <1>9, <1>10, <1>11, <1>12 DEF Inv

LEMMA InvCoreExecute ==
  ASSUME IInv, NEW c \in Cores, CoreExecute(c)
  PROVE  Inv' /\ UNCHANGED Ended
<1> DEFINE p == current_process[c]
<1> TypeOK /\ OwnershipInv /\ ManagerInv /\ StateInv
  BY DEF IInv
<1>1. /\ UNCHANGED <<schedulerVars, ioVars, current_process, workerVars, blocked_list>>
      /\ corePc[c] = "execute" /\ corePc' = [corePc EXCEPT ![c] = "switch"]
  BY DEF CoreExecute
<1>2. PICK outcome \in {"Finished", "Running", "Blocked"} :
        state' = [state EXCEPT ![p] = outcome]
  <2>1. Outcomes(p) \subseteq {"Finished", "Running", "Blocked"}
    BY DEF Outcomes
  <2>2. \E outcome \in Outcomes(p) : state' = [state EXCEPT ![p] = outcome]
    BY Zenon DEF CoreExecute
  <2> QED BY <2>1, <2>2
<1>3. /\ p \in Proc /\ p # NONE /\ p \in OnCores
      /\ p \notin Range(ready_queue) /\ p \notin Pending /\ p \notin HeldByManager
      /\ \A d \in Cores : d # c => current_process[d] # p
  BY <1>1, CoreHasProcess, OnCoresFact, ProcAssumption DEF OwnershipInv, StateInv, CoreStates
<1>4. UNCHANGED <<OnCores, Pending, PendingAt, HeldByManager>>
  BY <1>1 DEF OnCores, Pending, PendingAt, HeldByManager
<1>5. /\ state'[p] = outcome
      /\ \A q \in Proc : q # p => state'[q] = state[q]
  BY <1>2, <1>3 DEF TypeOK, PcbTypeOK
<1>6. corePc'[c] = "switch" /\ \A d \in Cores : d # c => corePc'[d] = corePc[d]
  BY <1>1 DEF TypeOK
<1>7. OwnershipInv'
  BY <1>1, <1>3, <1>4, <1>6 DEF OwnershipInv
<1>8. ManagerInv'
  BY <1>1 DEF ManagerInv
<1>9. StateInv'
  <2>1. \A q \in Range(ready_queue') : state'[q] \in {"Ready", "Running"}
    BY <1>1, <1>3, <1>5, RangeType DEF StateInv, TypeOK, SchedulerTypeOK
  <2>2. CoreStates'
    BY <1>1, <1>3, <1>4, <1>5, <1>6, CoreHasProcess DEF StateInv, CoreStates
  <2>3. \A q \in Pending : q \in Proc /\ q # p
    BY <1>3, PendingType
  <2>4. \A q \in HeldByManager : q \in Proc /\ q # p
    BY <1>3, HeldType
  <2>5. \A q \in Proc : state'[q] = "Finished" \/ q \in (Range(ready_queue) \cup OnCores \cup Pending)'
    BY <1>1, <1>3, <1>4, <1>5 DEF StateInv
  <2> QED BY <1>4, <1>5, <2>1, <2>2, <2>3, <2>4, <2>5 DEF StateInv
<1>10. Ended' = Ended
  BY <1>3, <1>4, <1>5 DEF Ended
<1> QED BY <1>7, <1>8, <1>9, <1>10 DEF Inv

LEMMA InvCoreRegister ==
  ASSUME IInv, NEW c \in Cores, CoreRegister(c)
  PROVE  Inv' /\ UNCHANGED Ended
<1> DEFINE p == current_process[c]
<1> TypeOK /\ OwnershipInv /\ ManagerInv /\ StateInv
  BY DEF IInv
<1>1. /\ UNCHANGED <<pcbVars, schedulerVars, current_process, workerVars, blocked_list,
                     requests, req_to_process, managerPc>>
      /\ corePc[c] = "switch" /\ corePc' = [corePc EXCEPT ![c] = "block"]
      /\ state[p] = "Blocked"
      /\ waiting_processes' = Append(waiting_processes, p)
  BY DEF CoreRegister, registerProcessWaitingForIO
<1>2. /\ p \in Proc /\ p \in OnCores
      /\ p \notin Range(ready_queue) /\ p \notin Pending /\ p \notin HeldByManager
      /\ \A d \in Cores : d # c => current_process[d] # p
  BY <1>1, CoreHasProcess, OnCoresFact, ProcAssumption DEF OwnershipInv, StateInv, CoreStates
<1>3. UNCHANGED <<OnCores, Pending, PendingAt>>
  BY <1>1 DEF OnCores, Pending, PendingAt
<1>4. /\ Range(waiting_processes') = Range(waiting_processes) \cup {p}
      /\ IsInjective(waiting_processes')
  BY <1>1, <1>2, AppendContents DEF ManagerInv, TypeOK, IOManagerTypeOK, HeldByManager
<1>5. HeldByManager' = HeldByManager \cup {p}
  BY <1>1, <1>4 DEF HeldByManager
<1>6. corePc'[c] = "block" /\ \A d \in Cores : d # c => corePc'[d] = corePc[d]
  BY <1>1 DEF TypeOK
<1>7. OwnershipInv'
  BY <1>1, <1>2, <1>3, <1>6 DEF OwnershipInv
<1>8. ManagerInv'
  BY <1>1, <1>2, <1>4, ProcAssumption DEF ManagerInv, HeldByManager
<1>9. StateInv'
  <2>1. CoreStates'
    BY <1>1, <1>2, <1>5, <1>6 DEF StateInv, CoreStates
  <2> QED BY <1>1, <1>3, <1>5, <2>1 DEF StateInv
<1>10. Ended' = Ended
  BY <1>1, <1>3 DEF Ended
<1> QED BY <1>7, <1>8, <1>9, <1>10 DEF Inv

\* What letting go of a process changes.
LEMMA FreedFacts ==
  ASSUME IInv, NEW c \in Cores, corePc[c] \in {"switch", "block"},
         current_process' = [current_process EXCEPT ![c] = NONE],
         corePc' = [corePc EXCEPT ![c] = "test"]
  PROVE  /\ current_process[c] \in Proc /\ current_process[c] \in OnCores
         /\ OnCores' = OnCores \ {current_process[c]}
         /\ \A a, b \in Cores : current_process'[a] = current_process'[b] =>
                                  a = b \/ current_process'[a] = NONE
         /\ current_process'[c] = NONE /\ corePc'[c] = "test"
         /\ \A d \in Cores : d # c => /\ current_process'[d] = current_process[d]
                                      /\ corePc'[d] = corePc[d]
                                      /\ current_process[d] # current_process[c]
<1>1. current_process[c] \in Proc /\ current_process[c] # NONE
  BY CoreHasProcess, ProcAssumption
<1>2. current_process[c] \in OnCores
  BY <1>1, OnCoresFact DEF IInv
<1>3. /\ current_process \in [Cores -> Proc \cup {NONE}]
      /\ \A a, b \in Cores : current_process[a] = current_process[b] =>
                               a = b \/ current_process[a] = NONE
  BY DEF IInv, TypeOK, OwnershipInv
<1>4. LET new == [current_process EXCEPT ![c] = NONE]
      IN  /\ Range(new) \ {NONE} = (Range(current_process) \ {NONE}) \ {current_process[c]}
          /\ \A a, b \in Cores : new[a] = new[b] => a = b \/ new[a] = NONE
  BY <1>1, <1>3, CoreFreed
<1>5. corePc \in [Cores -> {"test", "get", "execute", "switch", "block", "done"}]
  BY DEF IInv, TypeOK
<1> QED BY <1>1, <1>2, <1>3, <1>4, <1>5 DEF OnCores

LEMMA InvCoreBlock ==
  ASSUME IInv, NEW c \in Cores, CoreBlock(c)
  PROVE  Inv' /\ UNCHANGED Ended
<1> DEFINE p == current_process[c]
<1> TypeOK /\ OwnershipInv /\ ManagerInv /\ StateInv
  BY DEF IInv
<1>1. /\ UNCHANGED <<pcbVars, schedulerVars, ioVars, workerVars>>
      /\ corePc[c] = "block" /\ ioWorkerPc # "erase"
      /\ blocked_list' = Append(blocked_list, p)
      /\ current_process' = [current_process EXCEPT ![c] = NONE]
      /\ corePc' = [corePc EXCEPT ![c] = "test"]
  BY DEF CoreBlock, blocked_mutex_free
<1>2. /\ p \in Proc /\ p \in OnCores
      /\ OnCores' = OnCores \ {p}
      /\ \A a, b \in Cores : current_process'[a] = current_process'[b] =>
                               a = b \/ current_process'[a] = NONE
      /\ current_process'[c] = NONE /\ corePc'[c] = "test"
      /\ \A d \in Cores : d # c => /\ current_process'[d] = current_process[d]
                                   /\ corePc'[d] = corePc[d]
                                   /\ current_process[d] # p
  BY <1>1, FreedFacts
<1>3. p \notin Pending /\ p \notin Range(ready_queue)
  BY <1>2 DEF OwnershipInv
<1>4. PendingAt = DOMAIN blocked_list /\ PendingAt' = DOMAIN blocked_list'
  BY <1>1 DEF PendingAt
<1>5. Pending = Range(blocked_list) /\ Pending' = Range(blocked_list')
  BY <1>4 DEF Pending, Range
<1>6. IsInjective(blocked_list)
  BY <1>4 DEF OwnershipInv, IsInjective
<1>7. Pending' = Pending \cup {p} /\ IsInjective(blocked_list')
  BY <1>1, <1>2, <1>3, <1>5, <1>6, AppendContents DEF TypeOK
<1>8. HeldByManager' = HeldByManager
  BY <1>1 DEF HeldByManager
<1>9. OwnershipInv'
  <2>1. \A i, j \in PendingAt' : blocked_list'[i] = blocked_list'[j] => i = j
    BY <1>4, <1>7 DEF IsInjective
  <2> QED BY <1>1, <1>2, <1>3, <1>7, <2>1 DEF OwnershipInv
<1>10. ManagerInv'
  BY <1>1 DEF ManagerInv
<1>11. StateInv'
  <2>1. CoreStates'
    BY <1>1, <1>2, <1>8 DEF StateInv, CoreStates
  <2>2. \/ state[p] = "Blocked" /\ p \in HeldByManager
        \/ state[p] = "Ready"
    BY <1>1 DEF StateInv, CoreStates
  <2> QED BY <1>1, <1>2, <1>7, <1>8, <2>1, <2>2 DEF StateInv
<1>12. Ended' = Ended
  <2>1. state[p] # "Finished"
    BY <1>1 DEF StateInv, CoreStates
  <2> QED BY <1>1, <1>2, <2>1 DEF Ended
<1> QED BY <1>9, <1>10, <1>11, <1>12 DEF Inv

LEMMA InvCoreFinish ==
  ASSUME IInv, NEW c \in Cores, CoreFinish(c)
  PROVE  /\ Inv'
         /\ current_process[c] \notin Ended
         /\ Ended' = Ended \cup {current_process[c]}
<1> DEFINE p == current_process[c]
<1> TypeOK /\ OwnershipInv /\ ManagerInv /\ StateInv
  BY DEF IInv
<1>1. /\ UNCHANGED <<state, schedulerVars, ioVars, workerVars, blocked_list>>
      /\ corePc[c] = "switch" /\ state[p] = "Finished"
      /\ current_process' = [current_process EXCEPT ![c] = NONE]
      /\ corePc' = [corePc EXCEPT ![c] = "test"]
  BY DEF CoreFinish
<1>2. /\ p \in Proc /\ p \in OnCores
      /\ OnCores' = OnCores \ {p}
      /\ \A a, b \in Cores : current_process'[a] = current_process'[b] =>
                               a = b \/ current_process'[a] = NONE
      /\ current_process'[c] = NONE /\ corePc'[c] = "test"
      /\ \A d \in Cores : d # c => /\ current_process'[d] = current_process[d]
                                   /\ corePc'[d] = corePc[d]
                                   /\ current_process[d] # p
  BY <1>1, FreedFacts
<1>3. UNCHANGED <<Pending, PendingAt, HeldByManager>>
  BY <1>1 DEF Pending, PendingAt, HeldByManager
<1>4. OwnershipInv'
  BY <1>1, <1>2, <1>3 DEF OwnershipInv
<1>5. ManagerInv'
  BY <1>1 DEF ManagerInv
<1>6. StateInv'
  <2>1. CoreStates'
    BY <1>1, <1>2, <1>3 DEF StateInv, CoreStates
  <2> QED BY <1>1, <1>2, <1>3, <2>1 DEF StateInv
<1>7. p \notin Ended /\ Ended' = Ended \cup {p}
  BY <1>1, <1>2 DEF Ended
<1> QED BY <1>4, <1>5, <1>6, <1>7 DEF Inv

LEMMA InvCoreRequeue ==
  ASSUME IInv, NEW c \in Cores, CoreRequeue(c)
  PROVE  Inv' /\ UNCHANGED Ended
<1> DEFINE p == current_process[c]
<1> TypeOK /\ OwnershipInv /\ ManagerInv /\ StateInv
  BY DEF IInv
<1>1. /\ UNCHANGED <<ioVars, workerVars, blocked_list>>
      /\ corePc[c] = "switch"
      /\ current_process' = [current_process EXCEPT ![c] = NONE]
      /\ corePc' = [corePc EXCEPT ![c] = "test"]
  BY DEF CoreRequeue
<1>2. /\ p \in Proc /\ p \in OnCores
      /\ OnCores' = OnCores \ {p}
      /\ \A a, b \in Cores : current_process'[a] = current_process'[b] =>
                               a = b \/ current_process'[a] = NONE
      /\ current_process'[c] = NONE /\ corePc'[c] = "test"
      /\ \A d \in Cores : d # c => /\ current_process'[d] = current_process[d]
                                   /\ corePc'[d] = corePc[d]
                                   /\ current_process[d] # p
  BY <1>1, FreedFacts
<1>3. p \notin Pending /\ p \notin Range(ready_queue) /\ p \notin HeldByManager
  BY <1>1, <1>2 DEF OwnershipInv, StateInv, CoreStates
<1>4. UNCHANGED <<Pending, PendingAt, HeldByManager>>
  BY <1>1 DEF Pending, PendingAt, HeldByManager
<1>5. PICK new \in {"Ready", "Running"} :
        state' = [state EXCEPT ![p] = new] /\ (addProcess(p, g_core_clock[c]) \/ pushFront(p))
  BY DEF CoreRequeue, addProcess
<1>6. /\ Range(ready_queue') = Range(ready_queue) \cup {p}
      /\ IsInjective(ready_queue')
  <2>1. ready_queue \in Seq(Proc) /\ IsInjective(ready_queue)
    BY DEF TypeOK, SchedulerTypeOK, OwnershipInv
  <2>2. CASE addProcess(p, g_core_clock[c])
    BY <1>2, <1>3, <2>1, <2>2, AddProcessContents
  <2>3. CASE pushFront(p)
    BY <1>2, <1>3, <2>1, <2>3, ConsContents DEF pushFront
  <2> QED BY <1>5, <2>2, <2>3
<1>7. /\ state'[p] = new
      /\ \A q \in Proc : q # p => state'[q] = state[q]
  BY <1>2, <1>5 DEF TypeOK, PcbTypeOK
<1>8. OwnershipInv'
  BY <1>1, <1>2, <1>3, <1>4, <1>6 DEF OwnershipInv
<1>9. ManagerInv'
  BY <1>1 DEF ManagerInv
<1>10. StateInv'
  <2>1. \A q \in Range(ready_queue') : state'[q] \in {"Ready", "Running"}
    BY <1>3, <1>6, <1>7, RangeType DEF StateInv, TypeOK, SchedulerTypeOK
  <2>2. CoreStates'
    BY <1>1, <1>2, <1>4, <1>7, CoreHasProcess DEF StateInv, CoreStates
  <2>3. \A q \in Pending : q \in Proc /\ q # p
    BY <1>3, PendingType
  <2>4. \A q \in HeldByManager : q \in Proc /\ q # p
    BY <1>3, HeldType
  <2>5. \A q \in Proc : state'[q] = "Finished" \/ q \in (Range(ready_queue) \cup OnCores \cup Pending)'
    BY <1>2, <1>4, <1>6, <1>7 DEF StateInv
  <2> QED BY <1>4, <1>7, <2>1, <2>2, <2>3, <2>4, <2>5 DEF StateInv
<1>11. Ended' = Ended
  BY <1>2, <1>7 DEF Ended
<1> QED BY <1>8, <1>9, <1>10, <1>11 DEF Inv

LEMMA InvWorkerMoves ==
  ASSUME IInv, WorkerTest \/ WorkerLock \/ WorkerSkip \/ WorkerUnlock
  PROVE  Inv' /\ UNCHANGED Ended
<1> TypeOK /\ OwnershipInv /\ ManagerInv /\ StateInv
  BY DEF IInv
<1>1. /\ UNCHANGED <<pcbVars, schedulerVars, ioVars, coreVars, blocked_list>>
      /\ ioWorkerPc # "erase" /\ ioWorkerPc' # "erase"
  BY DEF WorkerTest, WorkerLock, WorkerSkip, WorkerUnlock
<1>2. UNCHANGED <<OnCores, HeldByManager, PendingAt, Pending>>
  BY <1>1 DEF OnCores, HeldByManager, PendingAt, Pending
<1>3. OwnershipInv'
  BY <1>1, <1>2 DEF OwnershipInv
<1>4. ManagerInv'
  BY <1>1 DEF ManagerInv
<1>5. StateInv'
  BY <1>1, <1>2 DEF StateInv, CoreStates
<1>6. Ended' = Ended
  BY <1>1, <1>2 DEF Ended
<1> QED BY <1>3, <1>4, <1>5, <1>6 DEF Inv

LEMMA InvWorkerReinsert ==
  ASSUME IInv, WorkerReinsert
  PROVE  Inv' /\ UNCHANGED Ended
<1> DEFINE p == blocked_list[it]
<1> TypeOK /\ OwnershipInv /\ ManagerInv /\ StateInv
  BY DEF IInv
<1>1. /\ UNCHANGED <<ioVars, coreVars, it, blocked_list>>
      /\ ioWorkerPc = "scan" /\ ioWorkerPc' = "erase"
      /\ it \in DOMAIN blocked_list
      /\ state[p] = "Ready" /\ addProcess(p, 0)
  BY DEF WorkerReinsert, TypeOK
<1>2. PendingAt = DOMAIN blocked_list /\ PendingAt' = PendingAt \ {it}
  BY <1>1 DEF PendingAt
<1>3. /\ p \in Proc /\ p \in Pending
      /\ p \notin Range(ready_queue) /\ p \notin OnCores /\ p \notin HeldByManager
  BY <1>1, <1>2 DEF TypeOK, Pending, OwnershipInv, StateInv
<1>4. Pending' = Pending \ {p}
  <2>1. \A i \in PendingAt : blocked_list[i] = p => i = it
    BY <1>1, <1>2 DEF OwnershipInv
  <2> QED BY <1>1, <1>2, <2>1 DEF Pending
<1>5. /\ Range(ready_queue') = Range(ready_queue) \cup {p}
      /\ IsInjective(ready_queue')
  BY <1>1, <1>3, AddProcessContents DEF TypeOK, SchedulerTypeOK, OwnershipInv
<1>6. UNCHANGED <<OnCores, HeldByManager>>
  BY <1>1 DEF OnCores, HeldByManager
<1>7. state' = state
  BY <1>1, <1>3 DEF addProcess, TypeOK, PcbTypeOK
<1>8. OwnershipInv'
  <2>1. \A i, j \in PendingAt' : blocked_list'[i] = blocked_list'[j] => i = j
    BY <1>1, <1>2 DEF OwnershipInv
  <2>2. it' <= Len(blocked_list')
    BY <1>1 DEF TypeOK
  <2> QED BY <1>1, <1>3, <1>4, <1>5, <1>6, <2>1, <2>2 DEF OwnershipInv
<1>9. ManagerInv'
  BY <1>1 DEF ManagerInv
<1>10. StateInv'
  <2>1. CoreStates'
    BY <1>1, <1>6, <1>7 DEF StateInv, CoreStates
  <2> QED BY <1>1, <1>3, <1>4, <1>5, <1>6, <1>7, <2>1 DEF StateInv
<1>11. Ended' = Ended
  BY <1>6, <1>7 DEF Ended
<1> QED BY <1>8, <1>9, <1>10, <1>11 DEF Inv

LEMMA InvWorkerErase ==
  ASSUME IInv, WorkerErase
  PROVE  Inv' /\ UNCHANGED Ended
<1> TypeOK /\ OwnershipInv /\ ManagerInv /\ StateInv
  BY DEF IInv
<1>1. /\ UNCHANGED <<pcbVars, schedulerVars, ioVars, coreVars, it>>
      /\ ioWorkerPc = "erase" /\ ioWorkerPc' = "scan"
      /\ blocked_list' = RemoveAt(blocked_list, it)
  BY DEF WorkerErase
<1>2. it \in 1 .. Len(blocked_list) /\ Len(blocked_list) \in Nat
  BY <1>1 DEF OwnershipInv, TypeOK
<1>3. /\ blocked_list' \in Seq(Proc) /\ Len(blocked_list') = Len(blocked_list) - 1
      /\ \A i \in 1 .. Len(blocked_list) - 1 :
           blocked_list'[i] = IF i < it THEN blocked_list[i] ELSE blocked_list[i + 1]
  BY <1>1, <1>2, RemoveAtContents DEF TypeOK
<1>4. PendingAt' = 1 .. Len(blocked_list) - 1 /\ PendingAt = 1 .. Len(blocked_list) \ {it}
  BY <1>1, <1>2, <1>3 DEF PendingAt, TypeOK
<1> DEFINE old(i) == IF i < it THEN i ELSE i + 1
<1>5. \A i \in PendingAt' : old(i) \in PendingAt /\ blocked_list'[i] = blocked_list[old(i)]
  BY <1>2, <1>3, <1>4
<1>6. \A i, j \in PendingAt' : old(i) = old(j) => i = j
  BY <1>2, <1>4
<1>7. \A k \in PendingAt : \E i \in PendingAt' : old(i) = k
  <2> SUFFICES ASSUME NEW k \in PendingAt PROVE \E i \in PendingAt' : old(i) = k
    OBVIOUS
  <2>1. CASE k < it
    BY <1>2, <1>4, <2>1
  <2>2. CASE k > it
    <3>1. k - 1 \in PendingAt' /\ old(k - 1) = k
      BY <1>2, <1>4, <2>2
    <3> QED BY <3>1
  <2> QED BY <1>2, <1>4, <2>1, <2>2
<1> HIDE DEF old
<1>8. \A i, j \in PendingAt' : blocked_list'[i] = blocked_list'[j] => i = j
  BY <1>5, <1>6 DEF OwnershipInv
<1>9. Pending' = Pending
  <2>1. ASSUME NEW x \in Pending' PROVE x \in Pending
    BY <1>5 DEF Pending
  <2>2. ASSUME NEW x \in Pending PROVE x \in Pending'
    BY <1>5, <1>7 DEF Pending
  <2> QED BY <2>1, <2>2
<1>10. UNCHANGED <<OnCores, HeldByManager>>
  BY <1>1 DEF OnCores, HeldByManager
<1>11. OwnershipInv'
  BY <1>1, <1>8, <1>9, <1>10 DEF OwnershipInv
<1>12. ManagerInv'
  BY <1>1 DEF ManagerInv
<1>13. StateInv'
  BY <1>1, <1>9, <1>10 DEF StateInv, CoreStates
<1>14. Ended' = Ended
  BY <1>1, <1>10 DEF Ended
<1> QED BY <1>11, <1>12, <1>13, <1>14 DEF Inv

\* The manager's moves of a pointer between its containers.
LEMMA InvManagerMoves ==
  ASSUME IInv, managerLoop, ManagerExit \/ ManagerDevices \/ ManagerAssign \/ ManagerTake
  PROVE  Inv' /\ UNCHANGED Ended
<1> TypeOK /\ OwnershipInv /\ ManagerInv /\ StateInv
  BY DEF IInv
<1>1. UNCHANGED <<pcbVars, schedulerVars, coreVars, workerVars, blocked_list>>
  BY DEF managerLoop, ManagerExit, ManagerDevices, ManagerAssign, ManagerTake
<1>2. /\ waiting_processes \in Seq(Proc) /\ requests \in Seq(Proc)
      /\ req_to_process \in Proc \cup {NONE}
  BY DEF TypeOK, IOManagerTypeOK
<1>3. ManagerInv' /\ HeldByManager' = HeldByManager
  <2>1. CASE ManagerExit \/ ManagerDevices
    <3>1. /\ UNCHANGED <<waiting_processes, requests, req_to_process>>
          /\ managerPc = "devices" /\ managerPc' \in {"done", "assign"}
      BY <2>1 DEF ManagerExit, ManagerDevices
    <3> QED BY <3>1 DEF ManagerInv, HeldByManager
  <2>2. CASE ManagerAssign
    <3>1. managerPc = "assign" /\ managerPc' = "take" /\ req_to_process' = req_to_process
      BY <2>2 DEF ManagerAssign
    <3>2. requests = <<>> /\ req_to_process = NONE
      BY <3>1 DEF ManagerInv
    <3>3. CASE /\ waiting_processes # <<>>
               /\ requests' = Append(requests, Head(waiting_processes))
               /\ waiting_processes' = Tail(waiting_processes)
      <4> DEFINE p == Head(waiting_processes)
      <4>1. /\ p \in Proc
            /\ Range(waiting_processes) = Range(waiting_processes') \cup {p}
            /\ IsInjective(waiting_processes') /\ p \notin Range(waiting_processes')
        BY <1>2, <3>3, TailContents DEF ManagerInv
      <4>2. requests' = <<p>> /\ Len(requests') = 1 /\ Range(requests') = {p}
        BY <3>2, <3>3 DEF Range
      <4>3. Range(requests) = {}
        BY <3>2 DEF Range
      <4>4. \A q \in Range(waiting_processes') : q # NONE
        BY <1>2, <4>1, RangeType, ProcAssumption
      <4> QED BY <3>1, <3>2, <4>1, <4>2, <4>3, <4>4 DEF ManagerInv, HeldByManager
    <3>4. CASE UNCHANGED <<waiting_processes, requests>>
      BY <3>1, <3>2, <3>4 DEF ManagerInv, HeldByManager
    <3> QED BY <2>2, <3>3, <3>4 DEF ManagerAssign
  <2>3. CASE ManagerTake
    <3>1. managerPc = "take" /\ waiting_processes' = waiting_processes
      BY <2>3 DEF ManagerTake
    <3>2. req_to_process = NONE
      BY <3>1 DEF ManagerInv
    <3>3. CASE /\ requests # <<>> /\ req_to_process' = Head(requests)
               /\ requests' = Tail(requests) /\ managerPc' = "serve"
      <4> DEFINE p == Head(requests)
      <4>1. Len(requests) = 1
        BY <3>3 DEF ManagerInv
      <4>2. requests' = <<>> /\ Range(requests') = {} /\ Range(requests) = {p} /\ p \in Proc
        <5>1. p \in Proc /\ p = requests[1] /\ DOMAIN requests = {1}
          <6>1. p \in Proc /\ p = requests[1]
            BY <1>2, <3>3, TailContents
          <6>2. DOMAIN requests = 1 .. 1
            BY <1>2, <4>1
          <6> QED BY <6>1, <6>2
        <5>2. Len(Tail(requests)) = 0 /\ Tail(requests) \in Seq(Proc)
          BY <1>2, <3>3, <4>1
        <5> QED BY <3>3, <5>1, <5>2 DEF Range
      <4>3. p # NONE
        BY <4>2, ProcAssumption
      <4> QED BY <3>1, <3>2, <3>3, <4>2, <4>3 DEF ManagerInv, HeldByManager
    <3>4. CASE requests = <<>> /\ UNCHANGED <<requests, req_to_process>> /\ managerPc' = "devices"
      BY <3>1, <3>2, <3>4 DEF ManagerInv, HeldByManager
    <3> QED BY <2>3, <3>3, <3>4 DEF ManagerTake
  <2> QED BY <2>1, <2>2, <2>3
<1>4. UNCHANGED <<OnCores, PendingAt, Pending>>
  BY <1>1 DEF OnCores, PendingAt, Pending
<1>5. OwnershipInv'
  BY <1>1, <1>4 DEF OwnershipInv
<1>6. StateInv'
  BY <1>1, <1>3, <1>4 DEF StateInv, CoreStates
<1>7. Ended' = Ended
  BY <1>1, <1>4 DEF Ended
<1> QED BY <1>3, <1>5, <1>6, <1>7 DEF Inv

LEMMA InvManagerServe ==
  ASSUME IInv, managerLoop, ManagerServe
  PROVE  Inv' /\ UNCHANGED Ended
<1> DEFINE p == req_to_process
<1> TypeOK /\ OwnershipInv /\ ManagerInv /\ StateInv
  BY DEF IInv
<1>1. /\ UNCHANGED <<schedulerVars, coreVars, workerVars, blocked_list,
                     waiting_processes, requests>>
      /\ managerPc = "serve" /\ managerPc' = "devices"
      /\ state' = [state EXCEPT ![p] = "Ready"] /\ req_to_process' = NONE
  BY DEF managerLoop, ManagerServe
<1>2. /\ p \in Proc /\ p # NONE /\ p \in HeldByManager /\ requests = <<>>
  BY <1>1, ProcAssumption DEF ManagerInv, TypeOK, IOManagerTypeOK, HeldByManager
<1>3. Range(requests) = {} /\ p \notin Range(waiting_processes)
  BY <1>2 DEF Range, ManagerInv
<1>4. HeldByManager' = HeldByManager \ {p}
  BY <1>1, <1>3 DEF HeldByManager
<1>5. state[p] = "Blocked" /\ p \notin Range(ready_queue)
  BY <1>2 DEF StateInv
<1>6. /\ state'[p] = "Ready"
      /\ \A q \in Proc : q # p => state'[q] = state[q]
  BY <1>1, <1>2 DEF TypeOK, PcbTypeOK
<1>7. UNCHANGED <<OnCores, PendingAt, Pending>>
  BY <1>1 DEF OnCores, PendingAt, Pending
<1>8. OwnershipInv'
  BY <1>1, <1>7 DEF OwnershipInv
<1>9. ManagerInv'
  <2>1. NONE \notin Range(waiting_processes)
    BY RangeType, ProcAssumption DEF TypeOK, IOManagerTypeOK
  <2> QED BY <1>1, <1>2, <1>3, <2>1 DEF ManagerInv
<1>10. StateInv'
  <2>1. \A q \in Range(ready_queue') : state'[q] \in {"Ready", "Running"}
    BY <1>1, <1>5, <1>6, RangeType DEF StateInv, TypeOK, SchedulerTypeOK
  <2>2. CoreStates'
    <3> SUFFICES ASSUME NEW c \in Cores
                 PROVE  LET q == current_process[c] IN
                   /\ corePc[c] = "execute" => state'[q] = "Running"
                   /\ corePc[c] = "switch"  => state'[q] # "Ready" /\ q \notin HeldByManager'
                   /\ corePc[c] = "block"   => \/ state'[q] = "Blocked" /\ q \in HeldByManager'
                                               \/ state'[q] = "Ready"
      BY <1>1 DEF CoreStates
    <3>1. CASE corePc[c] \in {"execute", "switch"}
      <4>1. current_process[c] \in Proc /\ current_process[c] # p
        BY <1>2, <1>5, <3>1, CoreHasProcess DEF StateInv, CoreStates
      <4> QED BY <1>4, <1>6, <3>1, <4>1 DEF StateInv, CoreStates
    <3>2. CASE corePc[c] = "block"
      <4>1. current_process[c] \in Proc
        BY <3>2, CoreHasProcess
      <4> QED BY <1>4, <1>6, <3>2, <4>1 DEF StateInv, CoreStates
    <3> QED BY <3>1, <3>2
  <2>3. \A q \in Pending : \/ state'[q] = "Blocked" /\ q \in HeldByManager'
                           \/ state'[q] = "Ready"
    BY <1>4, <1>6, PendingType DEF StateInv
  <2>4. \A q \in HeldByManager' : state'[q] = "Blocked"
    BY <1>4, <1>6, HeldType DEF StateInv
  <2>5. \A q \in Proc : state'[q] = "Finished" \/ q \in (Range(ready_queue) \cup OnCores \cup Pending)'
    BY <1>1, <1>5, <1>6, <1>7 DEF StateInv
  <2> QED BY <1>7, <2>1, <2>2, <2>3, <2>4, <2>5 DEF StateInv
<1>11. Ended' = Ended
  BY <1>2, <1>5, <1>6, <1>7 DEF Ended
<1> QED BY <1>8, <1>9, <1>10, <1>11 DEF Inv

LEMMA InvMain ==
  ASSUME IInv, run_simulation_with_policy \/ UNCHANGED vars
  PROVE  Inv' /\ UNCHANGED Ended
<1>1. UNCHANGED <<pcbVars, schedulerVars, coreVars, workerVars, blocked_list,
                  waiting_processes, requests, req_to_process, managerPc>>
  BY DEF run_simulation_with_policy, MainJoin, MainShutdown, Shutdown, MainReturn
<1> QED BY <1>1 DEF IInv, Inv, OwnershipInv, ManagerInv, StateInv, CoreStates, OnCores,
                    PendingAt, Pending, HeldByManager, Ended

LEMMA InvStep ==
  ASSUME IInv, [Next]_vars
  PROVE  IInv'
<1>1. ASSUME NEW c \in Cores, coreWorker(c) PROVE Inv'
  BY <1>1, InvCoreIdling, InvCoreDispatch, InvCoreExecute, InvCoreRegister, InvCoreBlock,
     InvCoreFinish, InvCoreRequeue DEF coreWorker
<1>2. ASSUME ioWorker PROVE Inv'
  BY <1>2, InvWorkerMoves, InvWorkerReinsert, InvWorkerErase DEF ioWorker
<1>3. ASSUME managerLoop PROVE Inv'
  BY <1>3, InvManagerMoves, InvManagerServe DEF managerLoop, ManagerNext
<1>4. ASSUME run_simulation_with_policy \/ UNCHANGED vars PROVE Inv'
  BY <1>4, InvMain
<1>5. Inv'
  BY <1>1, <1>2, <1>3, <1>4 DEF Next, Terminating
<1>6. TypeOK'
  BY TypeStep
<1> QED BY <1>5, <1>6 DEF IInv, Inv

\* Each of the shared containers keeps its types and each PCB its one owner, in
\* every interleaving of the threads.
THEOREM Invariance == Spec => []IInv
<1>1. Init => IInv
  BY TypeInit, InvInit DEF IInv, Inv
<1>2. IInv /\ [Next]_vars => IInv'
  BY InvStep
<1> QED BY <1>1, <1>2, PTL DEF Spec

\* The variables keep their types.
THEOREM TypeCorrect == Spec => []TypeOK
<1>1. IInv => TypeOK
  BY DEF IInv
<1> QED BY <1>1, Invariance, PTL

\* No process is run by two cores, queued twice or given to two devices.
THEOREM Exclusive == Spec => []ExclusiveOwnership
<1>1. IInv => ExclusiveOwnership
  BY DEF IInv, OwnershipInv, ManagerInv, ExclusiveOwnership
<1> QED BY <1>1, Invariance, PTL

\* No process is forgotten: each one that has not ended is queued, on a core, or
\* listed as blocked, and then the manager knows it or has served it.
THEOREM NothingLost == Spec => []NoLostProcess
<1>1. IInv => NoLostProcess
  BY DEF IInv, StateInv, NoLostProcess
<1> QED BY <1>1, Invariance, PTL

-----------------------------------------------------------------------------
(* Termination is safe: the counter, and what is left when main goes on *)

\* When main is past its joins the other threads have left their loops, and
\* they leave them only once every process has been counted.
JoinInv ==
  /\ ioWorkerPc = "done" => finished_processes >= total_processes
  /\ mainPc # "join" => ioWorkerPc = "done" /\ \A c \in Cores : corePc[c] = "done"

LEMMA CountStep ==
  ASSUME IInv, FinishedCounted, [Next]_vars
  PROVE  FinishedCounted' /\ finished_processes' >= finished_processes
<1>1. IsFiniteSet(Ended) /\ finished_processes \in Nat
  <2>1. Ended \subseteq Proc
    BY DEF Ended
  <2> QED BY <2>1, ProcAssumption, FS_Subset DEF IInv, TypeOK
<1>2. CASE UNCHANGED <<Ended, finished_processes>>
  BY <1>1, <1>2 DEF FinishedCounted
<1>3. ASSUME NEW c \in Cores, coreWorker(c)
      PROVE  FinishedCounted' /\ finished_processes' >= finished_processes
  <2>1. CASE CoreFinish(c)
    <3>1. finished_processes' = finished_processes + 1
      BY <2>1 DEF CoreFinish
    <3>2. current_process[c] \notin Ended /\ Ended' = Ended \cup {current_process[c]}
      BY <2>1, InvCoreFinish
    <3>3. Cardinality(Ended') = Cardinality(Ended) + 1
      BY <1>1, <3>2, FS_AddElement
    <3> QED BY <1>1, <3>1, <3>3 DEF FinishedCounted
  <2>2. CASE CoreTest(c) \/ CoreIdle(c) \/ CoreDispatch(c) \/ CoreExecute(c)
             \/ CoreRegister(c) \/ CoreBlock(c) \/ CoreRequeue(c)
    <3>1. UNCHANGED Ended
      BY <2>2, InvCoreIdling, InvCoreDispatch, InvCoreExecute, InvCoreRegister,
         InvCoreBlock, InvCoreRequeue
    <3>2. UNCHANGED finished_processes
      BY <2>2 DEF CoreTest, CoreIdle, CoreDispatch, CoreExecute, CoreRegister, CoreBlock,
                  CoreRequeue
    <3> QED BY <1>2, <3>1, <3>2
  <2> QED BY <1>3, <2>1, <2>2 DEF coreWorker
<1>4. ASSUME ioWorker PROVE UNCHANGED <<Ended, finished_processes>>
  <2>1. UNCHANGED Ended
    BY <1>4, InvWorkerMoves, InvWorkerReinsert, InvWorkerErase DEF ioWorker
  <2>2. UNCHANGED finished_processes
    BY <1>4 DEF ioWorker, WorkerTest, WorkerLock, WorkerReinsert, WorkerErase, WorkerSkip,
                WorkerUnlock
  <2> QED BY <2>1, <2>2
<1>5. ASSUME managerLoop PROVE UNCHANGED <<Ended, finished_processes>>
  <2>1. UNCHANGED Ended
    BY <1>5, InvManagerMoves, InvManagerServe DEF managerLoop, ManagerNext
  <2> QED BY <1>5, <2>1 DEF managerLoop
<1>6. ASSUME run_simulation_with_policy \/ UNCHANGED vars
      PROVE  UNCHANGED <<Ended, finished_processes>>
  <2>1. UNCHANGED Ended
    BY <1>6, InvMain
  <2> QED BY <1>6, <2>1 DEF run_simulation_with_policy, MainJoin, MainShutdown, MainReturn
<1> QED BY <1>2, <1>3, <1>4, <1>5, <1>6 DEF Next, Terminating

LEMMA JoinStep ==
  ASSUME IInv, FinishedCounted, JoinInv, [Next]_vars
  PROVE  JoinInv'
<1>1. finished_processes' >= finished_processes
      /\ finished_processes \in Nat /\ finished_processes' \in Nat
  BY CountStep, TypeStep DEF IInv, TypeOK
<1>2. total_processes \in Nat
  BY ProcAssumption, FS_CardinalityType DEF total_processes
<1>3. ASSUME NEW c \in Cores, coreWorker(c) PROVE JoinInv'
  <2>1. UNCHANGED <<ioWorkerPc, mainPc>>
    BY <1>3 DEF coreWorker, CoreTest, CoreIdle, CoreDispatch, CoreExecute, CoreRegister,
                CoreBlock, CoreFinish, CoreRequeue
  <2>2. corePc[c] # "done"
    BY <1>3 DEF coreWorker, CoreTest, CoreIdle, CoreDispatch, CoreExecute, CoreRegister,
                CoreBlock, CoreFinish, CoreRequeue
  <2> QED BY <1>1, <1>2, <2>1, <2>2 DEF JoinInv
<1>4. ASSUME ioWorker PROVE JoinInv'
  <2>1. UNCHANGED <<corePc, mainPc, finished_processes>> /\ ioWorkerPc # "done"
    BY <1>4 DEF ioWorker, WorkerTest, WorkerLock, WorkerReinsert, WorkerErase, WorkerSkip,
                WorkerUnlock
  <2>2. ioWorkerPc' = "done" => finished_processes >= total_processes
    BY <1>1, <1>2, <1>4
       DEF ioWorker, WorkerTest, WorkerLock, WorkerReinsert, WorkerErase, WorkerSkip,
           WorkerUnlock
  <2> QED BY <2>1, <2>2 DEF JoinInv
<1>5. ASSUME managerLoop \/ UNCHANGED vars PROVE JoinInv'
  BY <1>5 DEF managerLoop, JoinInv
<1>6. ASSUME run_simulation_with_policy PROVE JoinInv'
  BY <1>6 DEF run_simulation_with_policy, MainJoin, MainShutdown, MainReturn, JoinInv
<1> QED BY <1>3, <1>4, <1>5, <1>6 DEF Next, Terminating

\* finished_processes counts each process that ended, once.
THEOREM Counted == Spec => []FinishedCounted
<1>1. Init => FinishedCounted
  <2>1. Init => Ended = {}
    BY DEF Init, PcbInit, Ended
  <2> QED BY <2>1, FS_EmptySet DEF Init, FinishedCounted
<1>2. IInv /\ FinishedCounted /\ [Next]_vars => FinishedCounted'
  BY CountStep
<1> QED BY <1>1, <1>2, Invariance, PTL DEF Spec

\* Once ioWorker has left its loop every process has ended.
LEMMA AllEnded ==
  ASSUME IInv, FinishedCounted, JoinInv, ioWorkerPc = "done"
  PROVE  Ended = Proc
<1>1. finished_processes >= Cardinality(Proc)
  BY DEF JoinInv, total_processes
<1>2. Ended \in SUBSET Proc
  BY DEF Ended
<1>3. Cardinality(Ended) <= Cardinality(Proc) /\ Cardinality(Ended) \in Nat
      /\ Cardinality(Proc) \in Nat
  BY <1>2, ProcAssumption, FS_Subset, FS_CardinalityType
<1>4. Cardinality(Proc) = Cardinality(Ended)
  BY <1>1, <1>3 DEF FinishedCounted
<1> QED BY <1>2, <1>4, ProcAssumption, FS_Subset

\* The threads leave their loops in that order, and only then.
LEMMA Joined == Spec => []JoinInv
<1>1. Init => JoinInv
  BY DEF Init, JoinInv
<1>2. IInv /\ FinishedCounted /\ JoinInv /\ [Next]_vars => JoinInv'
  BY JoinStep
<1> QED BY <1>1, <1>2, Invariance, Counted, PTL DEF Spec

\* When run_simulation_with_policy destroys the PCBs, no queue, no core and no
\* part of the I/O manager, whose thread still runs, points to one.
THEOREM PcbsOutliveUse == Spec => []PcbOutlivesManager
<1>1. IInv /\ FinishedCounted /\ JoinInv => PcbOutlivesManager
  <2> SUFFICES ASSUME IInv, FinishedCounted, JoinInv, mainPc # "join"
               PROVE  /\ HeldByManager = {}
                      /\ ready_queue = <<>> /\ blocked_list = <<>> /\ OnCores = {}
    BY DEF PcbOutlivesManager
  <2> TypeOK /\ OwnershipInv /\ ManagerInv /\ StateInv
    BY DEF IInv
  <2>1. ioWorkerPc = "done"
    BY DEF JoinInv
  <2>2. Ended = Proc
    BY <2>1, AllEnded
  <2>3. \A p \in Proc : state[p] = "Finished" /\ p \notin OnCores
    BY <2>2 DEF Ended
  <2>4. OnCores = {}
    BY <2>3 DEF OnCores, Range, TypeOK
  <2>5. HeldByManager = {}
    BY <2>3, HeldType DEF StateInv
  <2>6. Range(ready_queue) = {}
    BY <2>3, RangeType DEF StateInv, TypeOK, SchedulerTypeOK
  <2>7. Range(blocked_list) = {}
    <3>1. Pending = {}
      BY <2>3, PendingType DEF StateInv
    <3> QED BY <2>1, <3>1 DEF Pending, PendingAt, Range
  <2>8. \A seq \in Seq(Proc) : Range(seq) = {} => seq = <<>>
    <3> SUFFICES ASSUME NEW seq \in Seq(Proc), seq # <<>> PROVE Range(seq) # {}
      OBVIOUS
    <3> QED BY TailContents
  <2> QED BY <2>4, <2>5, <2>6, <2>7, <2>8 DEF TypeOK, SchedulerTypeOK
<1> QED BY <1>1, Invariance, Counted, Joined, PTL

\* While ioWorker iterates over the blocked list under blocked_mutex, nobody
\* else changes the list, so the iterator it keeps stays valid.
THEOREM IteratorValid == Spec => ListStableWhileScanned
<1>1. [Next]_vars => (~blocked_mutex_free => (blocked_list' = blocked_list \/ WorkerErase))
  <2> SUFFICES ASSUME [Next]_vars, ~blocked_mutex_free, ~WorkerErase
               PROVE  blocked_list' = blocked_list
    OBVIOUS
  <2>1. ASSUME NEW c \in Cores, coreWorker(c) PROVE blocked_list' = blocked_list
    BY <2>1 DEF coreWorker, CoreTest, CoreIdle, CoreDispatch, CoreExecute, CoreRegister,
                CoreBlock, CoreFinish, CoreRequeue
  <2>2. CASE ioWorker
    BY <2>2 DEF ioWorker, WorkerTest, WorkerLock, WorkerReinsert, WorkerSkip, WorkerUnlock
  <2>3. CASE managerLoop \/ UNCHANGED vars
    BY <2>3 DEF managerLoop
  <2>4. CASE run_simulation_with_policy
    BY <2>4 DEF run_simulation_with_policy, MainJoin, MainShutdown, MainReturn
  <2> QED BY <2>1, <2>2, <2>3, <2>4 DEF Next, Terminating
<1> QED BY <1>1, PTL DEF Spec, ListStableWhileScanned
=============================================================================
