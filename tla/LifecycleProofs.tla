--------------------------- MODULE LifecycleProofs ---------------------------
(***************************************************************************)
(* What the threads do to the processes, for any number of cores and       *)
(* processes: they implement multiprogramming, they obey the policy, and   *)
(* under Round Robin without I/O the turnaround is the time run plus the   *)
(* time queued; on one core the report of a run accounts for every cycle.  *)
(***************************************************************************)
EXTENDS SimulatorProofs

USE DEF vars, pcbVars, schedulerVars, ioVars, coreVars, programVars, workerVars

-----------------------------------------------------------------------------
(* The life of a process, from the places it is in *)

LifeIn(p, on, queued, st) ==
  CASE p \in on -> "running"
    [] p \in queued -> "queued"
    [] p \notin on \cup queued /\ st[p] = "Finished" -> "finished"
    [] OTHER -> "waiting"

LEMMA LifeCases ==
  ASSUME NEW p, NEW on, NEW queued, NEW st, queued \cap on = {}
  PROVE  LifeIn(p, on, queued, st) =
           IF p \in on THEN "running" ELSE IF p \in queued THEN "queued"
           ELSE IF st[p] = "Finished" THEN "finished" ELSE "waiting"
BY DEF LifeIn

LEMMA LifeNow ==
  ASSUME IInv, NEW p
  PROVE  lifeOf(p) = IF p \in OnCores THEN "running"
                     ELSE IF p \in Range(ready_queue) THEN "queued"
                     ELSE IF state[p] = "Finished" THEN "finished" ELSE "waiting"
<1>1. lifeOf(p) = LifeIn(p, OnCores, Range(ready_queue), state)
  BY DEF lifeOf, LifeIn
<1>2. Range(ready_queue) \cap OnCores = {}
  BY DEF IInv, OwnershipInv
<1> QED BY <1>1, <1>2, LifeCases

LEMMA LifeThen ==
  ASSUME IInv', NEW p
  PROVE  lifeOf(p)' = IF p \in OnCores' THEN "running"
                      ELSE IF p \in Range(ready_queue') THEN "queued"
                      ELSE IF state'[p] = "Finished" THEN "finished" ELSE "waiting"
<1>1. lifeOf(p)' = LifeIn(p, OnCores', Range(ready_queue'), state')
  BY DEF lifeOf, LifeIn
<1>2. Range(ready_queue') \cap OnCores' = {}
  BY DEF IInv, OwnershipInv
<1> QED BY <1>1, <1>2, LifeCases

\* The place of p, and whether it ended, stay as they are.
SamePlace(p) ==
  /\ p \in OnCores' <=> p \in OnCores
  /\ p \in Range(ready_queue') <=> p \in Range(ready_queue)
  /\ p \notin OnCores \cup Range(ready_queue) => (state'[p] = "Finished" <=> state[p] = "Finished")

LEMMA SameLife ==
  ASSUME IInv, IInv', NEW p, SamePlace(p)
  PROVE  lifeOf(p)' = lifeOf(p)
BY LifeNow, LifeThen DEF SamePlace

\* A step that moves no process is a stutter.
LEMMA Stutters ==
  ASSUME IInv, IInv', UNCHANGED current_process, \A p \in Proc : SamePlace(p)
  PROVE  UNCHANGED Lifecycle!lifeVars
BY SameLife DEF Lifecycle!lifeVars

\* A step that moves one process changes its life only.
LEMMA OneLife ==
  ASSUME IInv, IInv', NEW p \in Proc, \A q \in Proc : q # p => SamePlace(q)
  PROVE  [q \in Proc |-> lifeOf(q)]' = [[q \in Proc |-> lifeOf(q)] EXCEPT ![p] = lifeOf(p)']
<1>1. \A q \in Proc : q # p => lifeOf(q)' = lifeOf(q)
  BY SameLife
<1> QED BY <1>1

-----------------------------------------------------------------------------
(* Each step is one of the abstract specification, or none *)

LEMMA DispatchImplements ==
  ASSUME IInv, IInv', NEW c \in Cores, CoreDispatch(c), NEW p, p = Head(ready_queue)
  PROVE  Lifecycle!LifecycleNext
<1>1. /\ current_process' = [current_process EXCEPT ![c] = p]
      /\ state' = [state EXCEPT ![p] = "Running"]
      /\ corePc[c] = "get" /\ ready_queue # <<>> /\ ready_queue' = Tail(ready_queue)
  BY DEF CoreDispatch, hasProcesses, getNextProcess
<1>2. /\ p \in Proc /\ p \in Range(ready_queue)
      /\ Range(ready_queue) = Range(ready_queue') \cup {p}
  BY <1>1, TailContents DEF IInv, TypeOK, SchedulerTypeOK
<1>3. current_process[c] = NONE /\ p \notin OnCores
  BY <1>1, <1>2 DEF IInv, OwnershipInv
<1>4. current_process \in [Cores -> Proc \cup {NONE}] /\ p # NONE
  BY <1>2, ProcAssumption DEF IInv, TypeOK
<1>5. OnCores' = OnCores \cup {p}
  <2>1. \A d \in Cores : current_process'[d] = IF d = c THEN p ELSE current_process[d]
    BY <1>1, <1>4
  <2>2. DOMAIN current_process' = Cores /\ DOMAIN current_process = Cores
    BY <1>1, <1>4
  <2> QED BY <1>3, <1>4, <2>1, <2>2 DEF OnCores, Range
<1>6. \A q \in Proc : q # p => SamePlace(q)
  BY <1>1, <1>2, <1>5 DEF SamePlace, IInv, TypeOK, PcbTypeOK
<1>7. lifeOf(p) = "queued" /\ lifeOf(p)' = "running"
  BY <1>2, <1>3, <1>5, LifeNow, LifeThen
<1>8. [q \in Proc |-> lifeOf(q)]' = [[q \in Proc |-> lifeOf(q)] EXCEPT ![p] = "running"]
  BY <1>2, <1>6, <1>7, OneLife
<1>9. Lifecycle!Dispatch(c, p)
  BY <1>1, <1>2, <1>3, <1>7, <1>8 DEF Lifecycle!Dispatch
<1> QED BY <1>2, <1>9 DEF Lifecycle!LifecycleNext

LEMMA LeaveImplements ==
  ASSUME IInv, IInv', NEW c \in Cores, CoreBlock(c) \/ CoreFinish(c) \/ CoreRequeue(c),
         NEW p, p = current_process[c]
  PROVE  Lifecycle!LifecycleNext
<1>1. /\ corePc[c] \in {"switch", "block"}
      /\ current_process' = [current_process EXCEPT ![c] = NONE]
      /\ corePc' = [corePc EXCEPT ![c] = "test"]
  BY DEF CoreBlock, CoreFinish, CoreRequeue
<1>2. p \in Proc /\ p \in OnCores /\ OnCores' = OnCores \ {p} /\ p # NONE
  BY <1>1, FreedFacts, ProcAssumption
<1>3. p \notin Range(ready_queue)
  BY <1>2 DEF IInv, OwnershipInv
<1>4. ASSUME NEW next \in {"queued", "waiting", "finished"}, lifeOf(p)' = next,
             \A q \in Proc : q # p => SamePlace(q)
      PROVE  Lifecycle!LifecycleNext
  <2>1. Lifecycle!Leave(c, next)
    BY <1>1, <1>2, <1>4, OneLife DEF Lifecycle!Leave
  <2> QED BY <2>1 DEF Lifecycle!LifecycleNext
<1>5. CASE CoreBlock(c)
  <2>1. ready_queue' = ready_queue /\ state' = state /\ state[p] # "Finished"
    BY <1>5 DEF CoreBlock, IInv, StateInv, CoreStates
  <2>2. lifeOf(p)' = "waiting"
    BY <1>2, <1>3, <2>1, LifeThen
  <2>3. \A q \in Proc : q # p => SamePlace(q)
    BY <1>2, <2>1 DEF SamePlace
  <2> QED BY <1>4, <2>2, <2>3
<1>6. CASE CoreFinish(c)
  <2>1. ready_queue' = ready_queue /\ state' = state /\ state[p] = "Finished"
    BY <1>6 DEF CoreFinish
  <2>2. lifeOf(p)' = "finished"
    BY <1>2, <1>3, <2>1, LifeThen
  <2>3. \A q \in Proc : q # p => SamePlace(q)
    BY <1>2, <2>1 DEF SamePlace
  <2> QED BY <1>4, <2>2, <2>3
<1>7. CASE CoreRequeue(c)
  <2>1. PICK new \in {"Ready", "Running"} :
          state' = [state EXCEPT ![p] = new] /\ (addProcess(p, g_core_clock[c]) \/ pushFront(p))
    BY <1>7 DEF CoreRequeue, addProcess
  <2>2. Range(ready_queue') = Range(ready_queue) \cup {p}
    <3>1. ready_queue \in Seq(Proc)
      BY DEF IInv, TypeOK, SchedulerTypeOK
    <3> QED BY <1>2, <2>1, <3>1, AddProcessContents, ConsContents DEF pushFront
  <2>3. lifeOf(p)' = "queued"
    BY <1>2, <2>2, LifeThen
  <2>4. \A q \in Proc : q # p => SamePlace(q)
    BY <1>2, <2>1, <2>2 DEF SamePlace, IInv, TypeOK, PcbTypeOK
  <2> QED BY <1>4, <2>3, <2>4
<1> QED BY <1>5, <1>6, <1>7

LEMMA ReinsertImplements ==
  ASSUME IInv, IInv', WorkerReinsert, NEW p, p = blocked_list[it]
  PROVE  Lifecycle!LifecycleNext
<1>1. /\ UNCHANGED <<current_process, blocked_list>>
      /\ it \in DOMAIN blocked_list /\ ioWorkerPc = "scan"
      /\ state[p] = "Ready" /\ addProcess(p, 0)
  BY DEF WorkerReinsert, IInv, TypeOK
<1>2. p \in Proc /\ p \in Pending
  BY <1>1 DEF Pending, PendingAt, IInv, TypeOK
<1>3. p \notin Range(ready_queue) /\ p \notin OnCores
  BY <1>2 DEF IInv, OwnershipInv
<1>4. Range(ready_queue') = Range(ready_queue) \cup {p}
  BY <1>1, <1>2, AddProcessContents DEF IInv, TypeOK, SchedulerTypeOK
<1>5. OnCores' = OnCores /\ state' = [state EXCEPT ![p] = "Ready"]
  BY <1>1 DEF OnCores, addProcess
<1>6. \A q \in Proc : q # p => SamePlace(q)
  BY <1>4, <1>5 DEF SamePlace, IInv, TypeOK, PcbTypeOK
<1>7. lifeOf(p) = "waiting" /\ lifeOf(p)' = "queued"
  BY <1>1, <1>2, <1>3, <1>4, <1>5, LifeNow, LifeThen
<1>8. Lifecycle!Wake(p)
  BY <1>1, <1>2, <1>6, <1>7, OneLife DEF Lifecycle!Wake
<1> QED BY <1>2, <1>8 DEF Lifecycle!LifecycleNext

\* The other steps of the cores.
LEMMA CoreStutters ==
  ASSUME IInv, IInv', NEW c \in Cores,
         CoreTest(c) \/ CoreIdle(c) \/ CoreExecute(c) \/ CoreRegister(c)
  PROVE  UNCHANGED Lifecycle!lifeVars
<1>1. UNCHANGED <<current_process, ready_queue>>
  BY DEF CoreTest, CoreIdle, CoreExecute, CoreRegister
<1>2. OnCores' = OnCores
  BY <1>1 DEF OnCores
<1>3. \A p \in Proc : p \notin OnCores => state'[p] = state[p]
  <2>1. CASE CoreExecute(c)
    <3>1. \E outcome : state' = [state EXCEPT ![current_process[c]] = outcome]
      BY <2>1, Zenon DEF CoreExecute
    <3>2. current_process[c] \in OnCores
      BY <2>1, CoreHasProcess, OnCoresFact, ProcAssumption DEF CoreExecute, IInv
    <3> QED BY <3>1, <3>2 DEF IInv, TypeOK, PcbTypeOK
  <2>2. CASE CoreTest(c) \/ CoreIdle(c) \/ CoreRegister(c)
    BY <2>2 DEF CoreTest, CoreIdle, CoreRegister
  <2> QED BY <2>1, <2>2
<1>4. \A p \in Proc : SamePlace(p)
  BY <1>1, <1>2, <1>3 DEF SamePlace
<1> QED BY <1>1, <1>4, Stutters

\* The steps of the other threads.
LEMMA OtherStutters ==
  ASSUME IInv, IInv',
         \/ WorkerTest \/ WorkerLock \/ WorkerErase \/ WorkerSkip \/ WorkerUnlock
         \/ managerLoop \/ run_simulation_with_policy \/ UNCHANGED vars
  PROVE  UNCHANGED Lifecycle!lifeVars
<1>1. UNCHANGED <<current_process, ready_queue>>
  BY DEF WorkerTest, WorkerLock, WorkerErase, WorkerSkip, WorkerUnlock, managerLoop,
     run_simulation_with_policy, MainJoin, MainShutdown, MainReturn
<1>2. OnCores' = OnCores
  BY <1>1 DEF OnCores
<1>3. \A p \in Proc : state'[p] = "Finished" <=> state[p] = "Finished"
  <2>1. CASE managerLoop
    <3>1. CASE ManagerServe
      <4>1. state' = [state EXCEPT ![req_to_process] = "Ready"] /\ managerPc = "serve"
        BY <3>1 DEF ManagerServe
      <4>2. req_to_process \in HeldByManager
        BY <4>1 DEF IInv, ManagerInv, HeldByManager
      <4>3. state[req_to_process] = "Blocked"
        BY <4>2 DEF IInv, StateInv
      <4> QED BY <4>1, <4>3 DEF IInv, TypeOK, PcbTypeOK
    <3>2. CASE ManagerExit \/ ManagerDevices \/ ManagerAssign \/ ManagerTake
      BY <3>2 DEF ManagerExit, ManagerDevices, ManagerAssign, ManagerTake
    <3> QED BY <2>1, <3>1, <3>2 DEF managerLoop, ManagerNext
  <2>2. CASE ~managerLoop
    BY <2>2 DEF WorkerTest, WorkerLock, WorkerErase, WorkerSkip, WorkerUnlock,
       run_simulation_with_policy, MainJoin, MainShutdown, MainReturn
  <2> QED BY <2>1, <2>2
<1>4. \A p \in Proc : SamePlace(p)
  BY <1>1, <1>2, <1>3 DEF SamePlace
<1> QED BY <1>1, <1>4, Stutters

\* No interleaving of the threads makes a core take a process that is not
\* queued, run two, or drop the one it runs.
THEOREM ThreadsImplementLifecycle == Spec => ImplementsLifecycle
<1>1. Init => Lifecycle!LifecycleInit
  <2> SUFFICES ASSUME Init PROVE Lifecycle!LifecycleInit
    OBVIOUS
  <2>1. IInv
    BY TypeInit, InvInit DEF IInv, Inv
  <2>2. Range(ready_queue) = Proc
    BY DEF Init, SchedulerInit, Bijection, Surjection, Range
  <2>3. OnCores = {}
    BY DEF Init, OnCores, Range
  <2>4. \A p \in Proc : lifeOf(p) = "queued"
    BY <2>1, <2>2, <2>3, LifeNow
  <2> QED BY <2>4 DEF Init, Lifecycle!LifecycleInit
<1>2. IInv /\ IInv' /\ [Next]_vars => [Lifecycle!LifecycleNext]_(Lifecycle!lifeVars)
  <2> SUFFICES ASSUME IInv, IInv', [Next]_vars
               PROVE  Lifecycle!LifecycleNext \/ UNCHANGED Lifecycle!lifeVars
    OBVIOUS
  <2>1. ASSUME NEW c \in Cores, coreWorker(c)
        PROVE  Lifecycle!LifecycleNext \/ UNCHANGED Lifecycle!lifeVars
    BY <2>1, DispatchImplements, LeaveImplements, CoreStutters DEF coreWorker
  <2>2. CASE ioWorker
    BY <2>2, ReinsertImplements, OtherStutters DEF ioWorker
  <2>3. CASE managerLoop \/ run_simulation_with_policy \/ UNCHANGED vars
    BY <2>3, OtherStutters
  <2> QED BY <2>1, <2>2, <2>3 DEF Next, Terminating
<1> QED BY <1>1, <1>2, Invariance, PTL DEF Spec, ImplementsLifecycle, Lifecycle!LifecycleSpec

-----------------------------------------------------------------------------
(* FCFS starts a process only when a core has none to go on with *)

Started == {p \in Proc : state[p] = "Running"}

\* Among the queued processes those already started come first: pushFront puts
\* them before the ones that only arrived.
StartedFirst ==
  \A i, j \in DOMAIN ready_queue :
    i < j /\ state[ready_queue[j]] = "Running" => state[ready_queue[i]] = "Running"

FcfsInv ==
  policy = "FCFS" => StartedFirst /\ Cardinality(Started) <= Cardinality(Cores)

LEMMA StartedFinite == IsFiniteSet(Started)
BY ProcAssumption, FS_Subset DEF Started

\* A core holds one process, so no more are on cores than there are cores.
LEMMA OnCoresBound ==
  ASSUME NEW cur \in [Cores -> Proc \cup {NONE}], NEW held, held \subseteq Range(cur)
  PROVE  Cardinality(held) <= Cardinality(Cores)
<1> DEFINE core == [p \in held |-> CHOOSE c \in Cores : cur[c] = p]
<1>1. \A p \in held : core[p] \in Cores /\ cur[core[p]] = p
  BY DEF Range
<1>2. core \in Injection(held, Cores)
  BY <1>1, Zenon DEF Injection, IsInjective
<1> HIDE DEF core
<1> QED BY <1>2, FS_Injection, SimulatorAssumption

\* Most steps leave the queue, and start nobody.
LEMMA FcfsQuiet ==
  ASSUME IInv, FcfsInv, UNCHANGED <<policy, ready_queue>>, Started' \subseteq Started,
         \A p \in Range(ready_queue) : state'[p] = state[p]
  PROVE  FcfsInv'
<1>1. Cardinality(Started') <= Cardinality(Started)
  BY StartedFinite, FS_Subset
<1>2. Cardinality(Started) \in Nat /\ Cardinality(Started') \in Nat /\ Cardinality(Cores) \in Nat
  BY StartedFinite, FS_Subset, FS_CardinalityType, SimulatorAssumption
<1>3. \A i \in DOMAIN ready_queue : ready_queue[i] \in Range(ready_queue)
  BY DEF Range
<1>4. StartedFirst => StartedFirst'
  BY <1>3 DEF StartedFirst
<1> QED BY <1>1, <1>2, <1>4 DEF FcfsInv

\* A dispatch starts a process only if it is Ready, and then no queued process
\* has been started.
LEMMA FcfsDispatch ==
  ASSUME IInv, IInv', FcfsInv, NEW c \in Cores, CoreDispatch(c)
  PROVE  FcfsInv'
<1> DEFINE p == Head(ready_queue)
<1>1. /\ policy' = policy
      /\ current_process' = [current_process EXCEPT ![c] = p]
      /\ state' = [state EXCEPT ![p] = "Running"]
      /\ ready_queue # <<>> /\ ready_queue' = Tail(ready_queue)
      /\ current_process[c] = NONE
  BY DEF CoreDispatch, hasProcesses, getNextProcess, IInv, OwnershipInv
<1>2. /\ ready_queue \in Seq(Proc)
      /\ state \in [Proc -> State]
      /\ current_process \in [Cores -> Proc \cup {NONE}]
      /\ current_process' \in [Cores -> Proc \cup {NONE}]
  BY DEF IInv, TypeOK, SchedulerTypeOK, PcbTypeOK
<1>3. /\ p \in Proc /\ p \notin Range(ready_queue')
      /\ Range(ready_queue) = Range(ready_queue') \cup {p}
  BY <1>1, <1>2, TailContents DEF IInv, OwnershipInv
<1>4. /\ DOMAIN ready_queue = 1 .. Len(ready_queue) /\ 1 \in DOMAIN ready_queue
      /\ Len(ready_queue) \in Nat /\ p = ready_queue[1]
      /\ DOMAIN ready_queue' = 1 .. Len(ready_queue) - 1
      /\ \A i \in DOMAIN ready_queue' : ready_queue'[i] = ready_queue[i + 1]
  BY <1>1, <1>2
<1>5. \A q \in Proc : state'[q] = IF q = p THEN "Running" ELSE state[q]
  BY <1>1, <1>2, <1>3
<1> HIDE DEF p
<1> SUFFICES ASSUME policy = "FCFS"
             PROVE  StartedFirst' /\ Cardinality(Started') <= Cardinality(Cores)
  BY <1>1 DEF FcfsInv
<1>6. StartedFirst /\ Cardinality(Started) <= Cardinality(Cores)
  BY DEF FcfsInv
<1>7. StartedFirst'
  <2> SUFFICES ASSUME NEW i \in DOMAIN ready_queue', NEW j \in DOMAIN ready_queue', i < j,
                      state'[ready_queue'[j]] = "Running"
               PROVE  state'[ready_queue'[i]] = "Running"
    BY DEF StartedFirst
  <2>1. i + 1 \in DOMAIN ready_queue /\ j + 1 \in DOMAIN ready_queue /\ i + 1 < j + 1
    BY <1>4
  <2>2. /\ ready_queue'[i] \in Range(ready_queue') /\ ready_queue'[j] \in Range(ready_queue')
        /\ ready_queue'[i] \in Proc /\ ready_queue'[j] \in Proc
    BY <1>2, <1>4, <2>1 DEF Range
  <2>3. /\ state'[ready_queue'[i]] = state[ready_queue[i + 1]]
        /\ state'[ready_queue'[j]] = state[ready_queue[j + 1]]
    BY <1>3, <1>4, <1>5, <2>2
  <2> QED BY <1>6, <2>1, <2>3 DEF StartedFirst
<1>8. CASE state[p] = "Running"
  <2>1. Started' = Started
    BY <1>3, <1>5, <1>8 DEF Started
  <2> QED BY <1>6, <1>7, <2>1
<1>9. CASE state[p] # "Running"
  <2>1. \A q \in Range(ready_queue) : state[q] # "Running"
    <3>1. \A i \in DOMAIN ready_queue : i # 1 => 1 < i
      BY <1>4
    <3> QED BY <1>4, <1>6, <1>9, <3>1 DEF StartedFirst, Range
  <2>2. \A q \in Pending : state[q] # "Running"
    BY DEF IInv, StateInv
  <2>3. \A q \in Proc : state[q] = "Running" => q \in OnCores
    BY <2>1, <2>2 DEF IInv, StateInv
  <2>4. OnCores \cup {p} \subseteq Range(current_process')
    <3>1. \A d \in Cores : current_process'[d] = IF d = c THEN p ELSE current_process[d]
      BY <1>1, <1>2
    <3>2. DOMAIN current_process' = Cores /\ DOMAIN current_process = Cores
      BY <1>2
    <3> QED BY <1>1, <3>1, <3>2 DEF OnCores, Range
  <2>5. Started' \subseteq Range(current_process')
    BY <1>5, <2>3, <2>4 DEF Started
  <2>6. Cardinality(Started') <= Cardinality(Cores)
    BY <1>2, <2>5, OnCoresBound
  <2> QED BY <1>7, <2>6
<1> QED BY <1>8, <1>9

\* A process whose slice ended goes to the front, still Running.
LEMMA FcfsRequeue ==
  ASSUME IInv, IInv', FcfsInv, NEW c \in Cores, CoreRequeue(c)
  PROVE  FcfsInv'
<1> DEFINE p == current_process[c]
<1> SUFFICES ASSUME policy = "FCFS", policy' = "FCFS"
             PROVE  StartedFirst' /\ Cardinality(Started') <= Cardinality(Cores)
  BY DEF FcfsInv, CoreRequeue
<1>1. /\ corePc[c] = "switch" /\ state[p] \notin {"Blocked", "Finished"}
      /\ ready_queue' = Cons(p, ready_queue) /\ state' = [state EXCEPT ![p] = "Running"]
  BY DEF CoreRequeue, isPreemptive, pushFront
<1>2. p \in Proc /\ p \notin Range(ready_queue)
  BY <1>1, CoreHasProcess, OnCoresFact, ProcAssumption DEF IInv, OwnershipInv
<1>3. state \in [Proc -> State] /\ ready_queue \in Seq(Proc)
  BY DEF IInv, TypeOK, PcbTypeOK, SchedulerTypeOK
<1>4. state[p] = "Running"
  BY <1>1, <1>2, <1>3 DEF IInv, StateInv, CoreStates, State
<1>5. state' = state
  BY <1>1, <1>3, <1>4
<1>6. StartedFirst /\ Cardinality(Started) <= Cardinality(Cores)
  BY DEF FcfsInv
<1> HIDE DEF p
<1>7. /\ DOMAIN ready_queue = 1 .. Len(ready_queue) /\ Len(ready_queue) \in Nat
      /\ DOMAIN ready_queue' = 1 .. Len(ready_queue) + 1 /\ ready_queue'[1] = p
      /\ \A i \in DOMAIN ready_queue : ready_queue'[i + 1] = ready_queue[i]
  BY <1>1, <1>2, <1>3 DEF Cons
<1>8. StartedFirst'
  <2> SUFFICES ASSUME NEW i \in DOMAIN ready_queue', NEW j \in DOMAIN ready_queue', i < j,
                      state[ready_queue'[j]] = "Running", i # 1
               PROVE  state[ready_queue'[i]] = "Running"
    BY <1>4, <1>5, <1>7 DEF StartedFirst
  <2>1. /\ i - 1 \in DOMAIN ready_queue /\ j - 1 \in DOMAIN ready_queue /\ i - 1 < j - 1
        /\ i = (i - 1) + 1 /\ j = (j - 1) + 1
    BY <1>7
  <2>2. ready_queue'[i] = ready_queue[i - 1] /\ ready_queue'[j] = ready_queue[j - 1]
    BY <1>7, <2>1
  <2> QED BY <1>6, <2>1, <2>2 DEF StartedFirst
<1> QED BY <1>5, <1>6, <1>8 DEF Started

\* A process that comes back from I/O goes to the back, Ready.
LEMMA FcfsReinsert ==
  ASSUME IInv, IInv', FcfsInv, WorkerReinsert
  PROVE  FcfsInv'
<1> DEFINE p == blocked_list[it]
<1> SUFFICES ASSUME policy = "FCFS", policy' = "FCFS"
             PROVE  StartedFirst' /\ Cardinality(Started') <= Cardinality(Cores)
  BY DEF FcfsInv, WorkerReinsert
<1>1. /\ it \in DOMAIN blocked_list /\ ioWorkerPc = "scan" /\ state[p] = "Ready"
      /\ state' = [state EXCEPT ![p] = "Ready"] /\ ready_queue' = Append(ready_queue, p)
  BY DEF WorkerReinsert, addProcess, IInv, TypeOK
<1>2. p \in Proc
  BY <1>1 DEF IInv, TypeOK
<1>3. state \in [Proc -> State] /\ ready_queue \in Seq(Proc)
  BY DEF IInv, TypeOK, PcbTypeOK, SchedulerTypeOK
<1>4. state' = state
  BY <1>1, <1>3
<1>5. StartedFirst /\ Cardinality(Started) <= Cardinality(Cores)
  BY DEF FcfsInv
<1> HIDE DEF p
<1>6. /\ DOMAIN ready_queue = 1 .. Len(ready_queue) /\ Len(ready_queue) \in Nat
      /\ DOMAIN ready_queue' = 1 .. Len(ready_queue) + 1
      /\ ready_queue'[Len(ready_queue) + 1] = p
      /\ \A i \in DOMAIN ready_queue : ready_queue'[i] = ready_queue[i]
  BY <1>1, <1>2, <1>3
<1>7. StartedFirst'
  <2> SUFFICES ASSUME NEW i \in DOMAIN ready_queue', NEW j \in DOMAIN ready_queue', i < j,
                      state[ready_queue'[j]] = "Running"
               PROVE  state[ready_queue'[i]] = "Running"
    BY <1>4 DEF StartedFirst
  <2>1. j # Len(ready_queue) + 1
    BY <1>1, <1>6
  <2>2. i \in DOMAIN ready_queue /\ j \in DOMAIN ready_queue
    BY <1>6, <2>1
  <2> QED BY <1>5, <1>6, <2>2 DEF StartedFirst
<1> QED BY <1>4, <1>5, <1>7 DEF Started

LEMMA FcfsCoreQuiet ==
  ASSUME IInv, FcfsInv, NEW c \in Cores,
         CoreTest(c) \/ CoreIdle(c) \/ CoreExecute(c) \/ CoreRegister(c) \/ CoreBlock(c)
           \/ CoreFinish(c)
  PROVE  FcfsInv'
<1>1. UNCHANGED <<policy, ready_queue>>
  BY DEF CoreTest, CoreIdle, CoreExecute, CoreRegister, CoreBlock, CoreFinish
<1>2. CASE CoreExecute(c)
  <2>1. /\ current_process[c] \in Proc /\ current_process[c] \notin Range(ready_queue)
        /\ state[current_process[c]] = "Running"
    BY <1>2, CoreHasProcess, OnCoresFact, ProcAssumption
       DEF CoreExecute, IInv, OwnershipInv, StateInv, CoreStates
  <2>2. \E outcome : state' = [state EXCEPT ![current_process[c]] = outcome]
    BY <1>2, Zenon DEF CoreExecute
  <2>3. \A p \in Proc : p # current_process[c] => state'[p] = state[p]
    BY <2>2 DEF IInv, TypeOK, PcbTypeOK
  <2>4. \A p \in Range(ready_queue) : p \in Proc
    BY RangeType DEF IInv, TypeOK, SchedulerTypeOK
  <2>5. Started' \subseteq Started
    BY <2>1, <2>3 DEF Started
  <2> QED BY <1>1, <2>1, <2>3, <2>4, <2>5, FcfsQuiet
<1>3. CASE ~CoreExecute(c)
  <2>1. state' = state
    BY <1>3 DEF CoreTest, CoreIdle, CoreRegister, CoreBlock, CoreFinish
  <2> QED BY <1>1, <2>1, FcfsQuiet DEF Started
<1> QED BY <1>2, <1>3

LEMMA FcfsOthers ==
  ASSUME IInv, FcfsInv,
         \/ WorkerTest \/ WorkerLock \/ WorkerErase \/ WorkerSkip \/ WorkerUnlock
         \/ managerLoop \/ run_simulation_with_policy \/ UNCHANGED vars
  PROVE  FcfsInv'
<1>1. UNCHANGED <<policy, ready_queue>>
  BY DEF WorkerTest, WorkerLock, WorkerErase, WorkerSkip, WorkerUnlock, managerLoop,
     run_simulation_with_policy, MainJoin, MainShutdown, MainReturn
<1>2. CASE managerLoop /\ ManagerServe
  <2>1. state' = [state EXCEPT ![req_to_process] = "Ready"] /\ managerPc = "serve"
    BY <1>2 DEF ManagerServe
  <2>2. req_to_process \in HeldByManager
    BY <2>1 DEF IInv, ManagerInv, HeldByManager
  <2>3. state[req_to_process] = "Blocked" /\ req_to_process \notin Range(ready_queue)
    BY <2>2 DEF IInv, StateInv
  <2>4. /\ state' \in [Proc -> State]
        /\ \A p \in Proc : p # req_to_process => state'[p] = state[p]
        /\ \A p \in Proc : state'[p] = "Running" => state[p] = "Running"
    BY <2>1, <2>3 DEF IInv, TypeOK, PcbTypeOK, State
  <2>5. \A p \in Range(ready_queue) : p \in Proc
    BY RangeType DEF IInv, TypeOK, SchedulerTypeOK
  <2>6. Started' \subseteq Started
    BY <2>4 DEF Started
  <2> QED BY <1>1, <2>3, <2>4, <2>5, <2>6, FcfsQuiet
<1>3. CASE ~(managerLoop /\ ManagerServe)
  <2>1. state' = state
    BY <1>3 DEF WorkerTest, WorkerLock, WorkerErase, WorkerSkip, WorkerUnlock, managerLoop,
       ManagerNext, ManagerExit, ManagerDevices, ManagerAssign, ManagerTake,
       run_simulation_with_policy, MainJoin, MainShutdown, MainReturn
  <2> QED BY <1>1, <2>1, FcfsQuiet DEF Started
<1> QED BY <1>2, <1>3

\* Under FCFS no more processes are Running, on a core or in the queue, than
\* there are cores: one that started goes on before any other starts.
THEOREM FcfsBound == Spec => []FcfsNonPreemptive
<1>1. Init => FcfsInv
  <2> SUFFICES ASSUME Init PROVE FcfsInv
    OBVIOUS
  <2>1. \A p \in Proc : state[p] # "Running"
    BY DEF Init, PcbInit
  <2>2. Started = {}
    BY <2>1 DEF Started
  <2>3. Cardinality(Started) <= Cardinality(Cores)
    BY <2>2, FS_EmptySet, FS_CardinalityType, SimulatorAssumption
  <2>4. \A i \in DOMAIN ready_queue : ready_queue[i] \in Proc
    <3>1. ready_queue \in [1 .. Cardinality(Proc) -> Proc]
      BY DEF Init, SchedulerInit, Bijection, Injection
    <3> QED BY <3>1
  <2> QED BY <2>1, <2>3, <2>4 DEF FcfsInv, StartedFirst
<1>2. IInv /\ IInv' /\ FcfsInv /\ [Next]_vars => FcfsInv'
  <2> SUFFICES ASSUME IInv, IInv', FcfsInv, [Next]_vars PROVE FcfsInv'
    OBVIOUS
  <2>1. ASSUME NEW c \in Cores, coreWorker(c) PROVE FcfsInv'
    BY <2>1, FcfsDispatch, FcfsRequeue, FcfsCoreQuiet DEF coreWorker
  <2>2. CASE ioWorker
    BY <2>2, FcfsReinsert, FcfsOthers DEF ioWorker
  <2>3. CASE managerLoop \/ run_simulation_with_policy \/ UNCHANGED vars
    BY <2>3, FcfsOthers
  <2> QED BY <2>1, <2>2, <2>3 DEF Next, Terminating
<1>3. FcfsInv => FcfsNonPreemptive
  BY DEF FcfsInv, FcfsNonPreemptive, Started
<1> QED BY <1>1, <1>2, <1>3, Invariance, PTL DEF Spec

-----------------------------------------------------------------------------
(* SJN and Priority: the Ready processes of the queue are in order *)

\* pushFront puts Running processes ahead of the sorted ones; the Ready ones
\* stay in order among themselves.
ReadySorted ==
  \A i, j \in DOMAIN ready_queue :
    /\ i < j
    /\ state[ready_queue[i]] = "Ready" /\ state[ready_queue[j]] = "Ready"
    => ~ComesBefore(ready_queue[j], ready_queue[i])

\* The steps that leave the queue leave the states of what is in it.
LEMMA ReadyQuiet ==
  ASSUME IInv, ReadySorted, UNCHANGED <<policy, ready_queue>>,
         \A p \in Range(ready_queue) : state'[p] = state[p]
  PROVE  ReadySorted'
<1>1. \A i \in DOMAIN ready_queue : ready_queue[i] \in Range(ready_queue)
  BY DEF Range
<1> QED BY <1>1 DEF ReadySorted, ComesBefore

LEMMA ReadyAdded ==
  ASSUME IInv, NEW p, NEW now, addProcess(p, now), UNCHANGED policy
  PROVE  ReadySorted'
<1>1. CASE policy \in {"Priority", "SJN"}
  <2>1. Sorted(ready_queue')
    BY <1>1 DEF addProcess, SortQueue
  <2> QED BY <2>1 DEF Sorted, ReadySorted, ComesBefore
<1>2. CASE policy \notin {"Priority", "SJN"}
  BY <1>2 DEF ReadySorted, ComesBefore
<1> QED BY <1>1, <1>2

LEMMA ReadyDispatch ==
  ASSUME IInv, ReadySorted, NEW c \in Cores, CoreDispatch(c), NEW p, p = Head(ready_queue)
  PROVE  ReadySorted'
<1>1. /\ policy' = policy /\ state' = [state EXCEPT ![p] = "Running"]
      /\ ready_queue # <<>> /\ ready_queue' = Tail(ready_queue)
  BY DEF CoreDispatch, hasProcesses, getNextProcess
<1>2. ready_queue \in Seq(Proc) /\ state \in [Proc -> State]
  BY DEF IInv, TypeOK, SchedulerTypeOK, PcbTypeOK
<1>3. p \notin Range(ready_queue')
  BY <1>1, <1>2, TailContents DEF IInv, OwnershipInv
<1>4. /\ DOMAIN ready_queue = 1 .. Len(ready_queue) /\ Len(ready_queue) \in Nat
      /\ DOMAIN ready_queue' = 1 .. Len(ready_queue) - 1
      /\ \A i \in DOMAIN ready_queue' : ready_queue'[i] = ready_queue[i + 1]
  BY <1>1, <1>2
<1> SUFFICES ASSUME NEW i \in DOMAIN ready_queue', NEW j \in DOMAIN ready_queue', i < j,
                    state'[ready_queue'[i]] = "Ready", state'[ready_queue'[j]] = "Ready"
             PROVE  ~ComesBefore(ready_queue'[j], ready_queue'[i])
  BY <1>1 DEF ReadySorted, ComesBefore
<1>5. i + 1 \in DOMAIN ready_queue /\ j + 1 \in DOMAIN ready_queue /\ i + 1 < j + 1
  BY <1>4
<1>6. /\ ready_queue'[i] # p /\ ready_queue'[j] # p
      /\ ready_queue'[i] \in Proc /\ ready_queue'[j] \in Proc
  BY <1>2, <1>3, <1>4, <1>5 DEF Range
<1>7. state[ready_queue[i + 1]] = "Ready" /\ state[ready_queue[j + 1]] = "Ready"
  BY <1>1, <1>2, <1>4, <1>6
<1> QED BY <1>4, <1>5, <1>7 DEF ReadySorted

LEMMA ReadyRequeue ==
  ASSUME IInv, ReadySorted, NEW c \in Cores, CoreRequeue(c), NEW p, p = current_process[c]
  PROVE  ReadySorted'
<1>1. policy' = policy /\ corePc[c] = "switch"
  BY DEF CoreRequeue
<1>2. CASE isPreemptive
  BY <1>1, <1>2, ReadyAdded DEF CoreRequeue
<1>3. CASE ~isPreemptive
  <2>1. ready_queue' = Cons(p, ready_queue) /\ state' = [state EXCEPT ![p] = "Running"]
    BY <1>3 DEF CoreRequeue, pushFront
  <2>2. p \in Proc /\ p \notin Range(ready_queue)
    BY <1>1, CoreHasProcess, OnCoresFact, ProcAssumption DEF IInv, OwnershipInv
  <2>3. ready_queue \in Seq(Proc) /\ state \in [Proc -> State]
    BY DEF IInv, TypeOK, SchedulerTypeOK, PcbTypeOK
  <2>4. /\ DOMAIN ready_queue = 1 .. Len(ready_queue) /\ Len(ready_queue) \in Nat
        /\ DOMAIN ready_queue' = 1 .. Len(ready_queue) + 1 /\ ready_queue'[1] = p
        /\ \A i \in DOMAIN ready_queue : ready_queue'[i + 1] = ready_queue[i]
    BY <2>1, <2>2, <2>3 DEF Cons
  <2> SUFFICES ASSUME NEW i \in DOMAIN ready_queue', NEW j \in DOMAIN ready_queue', i < j,
                      state'[ready_queue'[i]] = "Ready", state'[ready_queue'[j]] = "Ready"
               PROVE  ~ComesBefore(ready_queue'[j], ready_queue'[i])
    BY <1>1 DEF ReadySorted, ComesBefore
  <2>5. i # 1
    BY <2>1, <2>2, <2>3, <2>4
  <2>6. /\ i - 1 \in DOMAIN ready_queue /\ j - 1 \in DOMAIN ready_queue /\ i - 1 < j - 1
        /\ i = (i - 1) + 1 /\ j = (j - 1) + 1
    BY <2>4, <2>5
  <2>7. ready_queue'[i] = ready_queue[i - 1] /\ ready_queue'[j] = ready_queue[j - 1]
    BY <2>4, <2>6
  <2>8. \A q \in Range(ready_queue) : q \in Proc /\ state'[q] = state[q]
    BY <2>1, <2>2, <2>3, RangeType
  <2>9. state[ready_queue[i - 1]] = "Ready" /\ state[ready_queue[j - 1]] = "Ready"
    BY <2>6, <2>7, <2>8 DEF Range
  <2> QED BY <2>6, <2>7, <2>9 DEF ReadySorted
<1> QED BY <1>2, <1>3

\* The other steps change the state of no queued process.
LEMMA ReadyOthers ==
  ASSUME IInv, ReadySorted,
         \/ \E c \in Cores : \/ CoreTest(c) \/ CoreIdle(c) \/ CoreExecute(c)
                             \/ CoreRegister(c) \/ CoreBlock(c) \/ CoreFinish(c)
         \/ WorkerTest \/ WorkerLock \/ WorkerErase \/ WorkerSkip \/ WorkerUnlock
         \/ managerLoop \/ run_simulation_with_policy \/ UNCHANGED vars
  PROVE  ReadySorted'
<1>1. UNCHANGED <<policy, ready_queue>>
  BY DEF CoreTest, CoreIdle, CoreExecute, CoreRegister, CoreBlock, CoreFinish, WorkerTest,
     WorkerLock, WorkerErase, WorkerSkip, WorkerUnlock, managerLoop,
     run_simulation_with_policy, MainJoin, MainShutdown, MainReturn
<1>2. \A p \in Range(ready_queue) : p \in Proc
  BY RangeType DEF IInv, TypeOK, SchedulerTypeOK
<1>3. CASE \E c \in Cores : CoreExecute(c)
  <2>1. PICK c \in Cores : CoreExecute(c)
    BY <1>3
  <2>2. current_process[c] \notin Range(ready_queue)
    BY <2>1, CoreHasProcess, OnCoresFact, ProcAssumption DEF CoreExecute, IInv, OwnershipInv
  <2>3. \E outcome : state' = [state EXCEPT ![current_process[c]] = outcome]
    BY <2>1, Zenon DEF CoreExecute
  <2>4. \A p \in Range(ready_queue) : state'[p] = state[p]
    BY <1>2, <2>2, <2>3 DEF IInv, TypeOK, PcbTypeOK
  <2> QED BY <1>1, <2>4, ReadyQuiet
<1>4. CASE managerLoop
  <2>1. CASE ManagerServe
    <3>1. state' = [state EXCEPT ![req_to_process] = "Ready"] /\ managerPc = "serve"
      BY <2>1 DEF ManagerServe
    <3>2. req_to_process \in HeldByManager
      BY <3>1 DEF IInv, ManagerInv, HeldByManager
    <3>3. req_to_process \notin Range(ready_queue)
      BY <3>2 DEF IInv, StateInv
    <3>4. \A p \in Range(ready_queue) : state'[p] = state[p]
      BY <1>2, <3>1, <3>3 DEF IInv, TypeOK, PcbTypeOK
    <3> QED BY <1>1, <3>4, ReadyQuiet
  <2>2. CASE ~ManagerServe
    <3>1. state' = state
      BY <1>4, <2>2 DEF managerLoop, ManagerNext, ManagerExit, ManagerDevices, ManagerAssign,
         ManagerTake
    <3> QED BY <1>1, <3>1, ReadyQuiet
  <2> QED BY <2>1, <2>2
<1>5. CASE ~managerLoop /\ ~\E c \in Cores : CoreExecute(c)
  <2>1. state' = state
    BY <1>5 DEF CoreTest, CoreIdle, CoreRegister, CoreBlock, CoreFinish, WorkerTest,
       WorkerLock, WorkerErase, WorkerSkip, WorkerUnlock,
       run_simulation_with_policy, MainJoin, MainShutdown, MainReturn
  <2> QED BY <1>1, <2>1, ReadyQuiet
<1> QED BY <1>3, <1>4, <1>5

\* Whatever the cores push to the front and ioWorker sorts in, a core that takes
\* a Ready process takes one that no Ready process of the queue precedes.
THEOREM BestFirst == Spec => BestReadyFirst
<1>1. Init => ReadySorted
  BY DEF Init, SchedulerInit, Sorted, ReadySorted
<1>2. IInv /\ ReadySorted /\ [Next]_vars => ReadySorted'
  <2> SUFFICES ASSUME IInv, ReadySorted, [Next]_vars PROVE ReadySorted'
    OBVIOUS
  <2>1. ASSUME NEW c \in Cores, coreWorker(c) PROVE ReadySorted'
    BY <2>1, ReadyDispatch, ReadyRequeue, ReadyOthers DEF coreWorker
  <2>2. CASE ioWorker
    <3>1. WorkerReinsert => policy' = policy
      BY DEF WorkerReinsert
    <3>2. CASE WorkerReinsert
      BY <3>1, <3>2, ReadyAdded DEF WorkerReinsert
    <3> QED BY <2>2, <3>2, ReadyOthers DEF ioWorker
  <2>3. CASE managerLoop \/ run_simulation_with_policy \/ UNCHANGED vars
    BY <2>3, ReadyOthers
  <2> QED BY <2>1, <2>2, <2>3 DEF Next, Terminating
<1> DEFINE Best == \A c \in Cores : CoreDispatch(c) /\ state[Head(ready_queue)] = "Ready" =>
              \A p \in Range(ready_queue) :
                 state[p] = "Ready" => ~ComesBefore(p, Head(ready_queue))
<1>3. IInv /\ ReadySorted => Best
  <2> SUFFICES ASSUME IInv, ReadySorted, NEW c \in Cores, CoreDispatch(c),
                      state[Head(ready_queue)] = "Ready",
                      NEW p \in Range(ready_queue), state[p] = "Ready"
               PROVE  ~ComesBefore(p, Head(ready_queue))
    OBVIOUS
  <2>1. ready_queue \in Seq(Proc) /\ ready_queue # <<>>
    BY DEF CoreDispatch, hasProcesses, IInv, TypeOK, SchedulerTypeOK
  <2>2. /\ Head(ready_queue) = ready_queue[1] /\ 1 \in DOMAIN ready_queue
        /\ DOMAIN ready_queue = 1 .. Len(ready_queue)
    BY <2>1
  <2>3. PICK j \in DOMAIN ready_queue : p = ready_queue[j]
    BY DEF Range
  <2>4. CASE j = 1
    <3>1. p = Head(ready_queue) /\ p \in Proc
      BY <2>1, <2>2, <2>3, <2>4
    <3>2. priority[p] \in Int /\ burst_time[p] \in Int
      BY <3>1, PolicyAssumption
    <3> QED BY <3>1, <3>2 DEF ComesBefore
  <2>5. CASE j # 1
    BY <2>2, <2>3, <2>5 DEF ReadySorted
  <2> QED BY <2>4, <2>5
<1>4. Best => [Best]_vars
  OBVIOUS
<1> HIDE DEF Best
<1>5. Spec => [][Best]_vars
  BY <1>1, <1>2, <1>3, <1>4, Invariance, PTL DEF Spec
<1> QED BY <1>5 DEF Best, BestReadyFirst

-----------------------------------------------------------------------------
(* Round Robin without I/O: three counters and the clocks of the cores *)

LEMMA Division ==
  ASSUME NEW w \in Nat \ {0}, NEW n \in Int
  PROVE  /\ n = (n \div w) * w + (n % w)
         /\ n % w \in 0 .. w - 1 /\ n \div w \in Int
         /\ n \in 0 .. w - 1 => n % w = n
<1>1. n = (n \div w) * w + (n % w)
  OBVIOUS
<1>2. n % w \in 0 .. w - 1 /\ n \div w \in Int
  OBVIOUS
<1>3. n \in 0 .. w - 1 => n % w = n
  OBVIOUS
<1> QED BY <1>1, <1>2, <1>3

LEMMA WrapRange ==
  ASSUME NEW n \in Int
  PROVE  /\ Wrap(n) \in Counter
         /\ n \in Counter => Wrap(n) = n
         /\ \E k \in Int : n = k * WORD + Wrap(n)
<1>1. WORD \in Nat \ {0}
  BY WordAssumption
<1>2. /\ n = (n \div WORD) * WORD + (n % WORD)
      /\ n % WORD \in 0 .. WORD - 1 /\ n \div WORD \in Int
      /\ n \in 0 .. WORD - 1 => n % WORD = n
  BY <1>1, Division
<1> DEFINE q == n \div WORD
           r == n % WORD
<1>3. n = q * WORD + r /\ q \in Int
  BY <1>2
<1> HIDE DEF q
<1>4. \E k \in Int : n = k * WORD + r
  BY <1>3
<1> QED BY <1>2, <1>4 DEF Wrap, Counter

\* The counter a number wraps to is the only one a multiple of WORD away.
LEMMA WrapUnique ==
  ASSUME NEW n \in Int, NEW k \in Int, NEW r \in Counter, n = k * WORD + r
  PROVE  Wrap(n) = r
<1>1. WORD \in Nat \ {0}
  BY WordAssumption
<1>2. PICK j \in Int : n = j * WORD + Wrap(n)
  BY WrapRange
<1>3. Wrap(n) \in 0 .. WORD - 1 /\ r \in 0 .. WORD - 1
  BY WrapRange DEF Counter
<1>4. (j - k) * WORD = r - Wrap(n)
  BY <1>1, <1>2, <1>3
<1>5. (j - k) * WORD < WORD /\ (j - k) * WORD > 0 - WORD
  BY <1>1, <1>3, <1>4
<1>6. j - k = 0
  <2>1. \A d \in Int : d >= 1 => d * WORD >= WORD
    BY <1>1
  <2>2. \A d \in Int : d <= -1 => d * WORD <= 0 - WORD
    BY <1>1
  <2>3. j - k \in Int /\ (j - k) * WORD \in Int
    BY <1>1
  <2> QED BY <1>1, <1>5, <2>1, <2>2, <2>3
<1> QED BY <1>1, <1>3, <1>4, <1>6

\* Wrapping early changes nothing.
LEMMA WrapSum ==
  ASSUME NEW a \in Int, NEW b \in Int
  PROVE  Wrap(Wrap(a) + b) = Wrap(a + b)
<1>1. WORD \in Int /\ Wrap(a) \in Int /\ Wrap(a + b) \in Counter
  BY WordAssumption, WrapRange DEF Counter
<1>2. PICK k \in Int : a = k * WORD + Wrap(a)
  BY WrapRange
<1>3. PICK j \in Int : a + b = j * WORD + Wrap(a + b)
  BY WrapRange
<1>4. Wrap(a + b) \in Int
  BY <1>1 DEF Counter
<1>5. Wrap(a) + b = (j - k) * WORD + Wrap(a + b)
  <2>1. (j - k) * WORD = j * WORD - k * WORD /\ j * WORD \in Int /\ k * WORD \in Int
    BY <1>1
  <2> QED BY <1>1, <1>2, <1>3, <1>4, <2>1
<1>6. Wrap(a) + b \in Int /\ j - k \in Int
  BY <1>1
<1> QED BY <1>1, <1>5, <1>6, WrapUnique

LEMMA WrapShift ==
  ASSUME NEW a \in Int, NEW b \in Int, Wrap(a) = Wrap(b), NEW d \in Int
  PROVE  Wrap(a + d) = Wrap(b + d)
BY WrapSum

\* Without PRINT nobody ever waits for a device.
NoIo ==
  /\ blocked_list = <<>>
  /\ \A p \in Proc : state[p] # "Blocked"
  /\ \A c \in Cores : corePc[c] # "block"

\* The clock a process was queued at, runs at or ended at accounts for its time.
TimeAccounted ==
  /\ \A p \in Range(ready_queue) :
       Wrap(last_ready_in[p]) = Wrap(cpu_time[p] + waiting_time[p])
  /\ \A c \in Cores : current_process[c] # NONE =>
       Wrap(g_core_clock[c]) =
         Wrap(cpu_time[current_process[c]] + waiting_time[current_process[c]])
  /\ \A p \in Ended : finish_time[p] = Wrap(cpu_time[p] + waiting_time[p])

TimeInv == policy = "RR" /\ IoBound = {} => NoIo /\ TimeAccounted

LEMMA TimeTypes ==
  ASSUME TypeOK
  PROVE  /\ \A p \in Proc : /\ cpu_time[p] \in Int /\ waiting_time[p] \in Int
                            /\ last_ready_in[p] \in Int
         /\ \A c \in Cores : g_core_clock[c] \in Counter /\ g_core_clock[c] \in Int
BY DEF TypeOK, PcbTypeOK, Counter

LEMMA TimeDispatch ==
  ASSUME IInv, IInv', NoIo, TimeAccounted, NEW c \in Cores, CoreDispatch(c), NEW p,
         p = Head(ready_queue)
  PROVE  NoIo' /\ TimeAccounted'
<1>1. /\ UNCHANGED <<finish_time, last_ready_in, cpu_time, g_core_clock, blocked_list>>
      /\ current_process' = [current_process EXCEPT ![c] = p]
      /\ state' = [state EXCEPT ![p] = "Running"]
      /\ corePc' = [corePc EXCEPT ![c] = "execute"]
      /\ ready_queue # <<>> /\ ready_queue' = Tail(ready_queue)
      /\ waiting_time' = [waiting_time EXCEPT ![p] =
                            Wrap(@ + (g_core_clock[c] - last_ready_in[p]))]
  BY DEF CoreDispatch, hasProcesses, getNextProcess
<1>2. /\ p \in Proc /\ p \notin Range(ready_queue') /\ p \notin OnCores
      /\ Range(ready_queue) = Range(ready_queue') \cup {p}
  BY <1>1, TailContents DEF IInv, TypeOK, SchedulerTypeOK, OwnershipInv
<1>3. state[p] # "Finished" /\ Ended' = Ended
  <2>1. state[p] \in {"Ready", "Running"}
    BY <1>2 DEF IInv, StateInv
  <2>2. ASSUME NEW q \in Proc, q # p PROVE q \in OnCores' <=> q \in OnCores
    <3>1. \A d \in Cores : current_process'[d] = IF d = c THEN p ELSE current_process[d]
      BY <1>1 DEF IInv, TypeOK
    <3>2. DOMAIN current_process' = Cores /\ DOMAIN current_process = Cores
      BY <1>1 DEF IInv, TypeOK
    <3>3. current_process[c] = NONE
      BY DEF CoreDispatch, IInv, OwnershipInv
    <3> QED BY <2>2, <3>1, <3>2, <3>3 DEF OnCores, Range
  <2>3. \A q \in Proc : state'[q] = IF q = p THEN "Running" ELSE state[q]
    BY <1>1, <1>2 DEF IInv, TypeOK, PcbTypeOK
  <2> QED BY <2>1, <2>2, <2>3 DEF Ended
<1>4. \A q \in Proc : q # p => waiting_time'[q] = waiting_time[q]
  BY <1>1 DEF IInv, TypeOK, PcbTypeOK
<1>5. Wrap(g_core_clock[c]) = Wrap(cpu_time[p] + waiting_time'[p])
  <2> DEFINE clock == g_core_clock[c]
             cpu == cpu_time[p]
             wait == waiting_time[p]
             last == last_ready_in[p]
  <2>1. clock \in Int /\ cpu \in Int /\ wait \in Int /\ last \in Int
    BY <1>2, TimeTypes DEF IInv
  <2>2. waiting_time'[p] = Wrap(wait + (clock - last))
    BY <1>1, <1>2 DEF IInv, TypeOK, PcbTypeOK
  <2>3. Wrap(last) = Wrap(cpu + wait)
    BY <1>2 DEF TimeAccounted
  <2> HIDE DEF clock, cpu, wait, last
  <2>4. Wrap(last + (clock - last)) = Wrap((cpu + wait) + (clock - last))
    <3>1. cpu + wait \in Int /\ clock - last \in Int
      BY <2>1
    <3> QED BY <2>1, <2>3, <3>1, WrapShift
  <2>5. last + (clock - last) = clock /\ (cpu + wait) + (clock - last) = (wait + (clock - last)) + cpu
    BY <2>1
  <2>6. Wrap(Wrap(wait + (clock - last)) + cpu) = Wrap((wait + (clock - last)) + cpu)
    BY <2>1, WrapSum
  <2>7. Wrap(wait + (clock - last)) \in Int
    BY <2>1, WrapRange DEF Counter
  <2>8. Wrap(wait + (clock - last)) + cpu = cpu + Wrap(wait + (clock - last))
    BY <2>1, <2>7
  <2>9. Wrap(clock) = Wrap(cpu + waiting_time'[p])
    BY <2>2, <2>4, <2>5, <2>6, <2>8
  <2> QED BY <2>9 DEF clock, cpu
<1>6. NoIo'
  BY <1>1, <1>2 DEF NoIo, IInv, TypeOK, PcbTypeOK
<1>7. \A q \in Range(ready_queue') :
        Wrap(last_ready_in[q]) = Wrap(cpu_time[q] + waiting_time'[q])
  <2>1. \A q \in Range(ready_queue') : q \in Range(ready_queue) /\ q \in Proc /\ q # p
    BY <1>2, RangeType DEF IInv, TypeOK, SchedulerTypeOK
  <2> QED BY <1>4, <2>1 DEF TimeAccounted
<1>8. ASSUME NEW d \in Cores, current_process'[d] # NONE
      PROVE  Wrap(g_core_clock[d]) =
               Wrap(cpu_time[current_process'[d]] + waiting_time'[current_process'[d]])
  <2>1. CASE d = c
    BY <1>1, <1>5, <2>1 DEF IInv, TypeOK
  <2>2. CASE d # c
    <3>1. current_process'[d] = current_process[d]
      BY <1>1, <2>2 DEF IInv, TypeOK
    <3>2. current_process[d] \in Proc /\ current_process[d] # p
      BY <1>2, <1>8, <3>1, OnCoresFact DEF IInv, TypeOK
    <3> QED BY <1>4, <1>8, <3>1, <3>2 DEF TimeAccounted
  <2> QED BY <2>1, <2>2
<1>9. \A q \in Ended : finish_time[q] = Wrap(cpu_time[q] + waiting_time'[q])
  <2>1. \A q \in Ended : q \in Proc /\ q # p
    BY <1>3 DEF Ended
  <2> QED BY <1>4, <2>1 DEF TimeAccounted
<1> QED BY <1>1, <1>3, <1>6, <1>7, <1>8, <1>9 DEF TimeAccounted

LEMMA TimeExecute ==
  ASSUME IInv, IInv', IoBound = {}, NoIo, TimeAccounted, NEW c \in Cores, CoreExecute(c),
         NEW p, p = current_process[c]
  PROVE  NoIo' /\ TimeAccounted'
<1>1. PICK outcome \in Outcomes(p), used \in Nat :
        /\ state' = [state EXCEPT ![p] = outcome]
        /\ Charge(c, p, used)
  <2>1. FullSlice \in Nat /\ ShortSlices \subseteq Nat
    BY SimulatorAssumption
  <2> QED BY <2>1, Zenon DEF CoreExecute
<1>2. /\ UNCHANGED <<finish_time, waiting_time, last_ready_in, ready_queue, current_process,
                     blocked_list>>
      /\ corePc[c] = "execute" /\ corePc' = [corePc EXCEPT ![c] = "switch"]
  BY DEF CoreExecute
<1>3. /\ p \in Proc /\ p \in OnCores /\ p \notin Range(ready_queue)
  BY <1>2, CoreHasProcess, OnCoresFact, ProcAssumption DEF IInv, OwnershipInv
<1>4. outcome # "Blocked"
  BY DEF Outcomes
<1>5. OnCores' = OnCores /\ Ended' = Ended
  BY <1>1, <1>2, <1>3 DEF OnCores, Ended, IInv, TypeOK, PcbTypeOK
<1>6. /\ \A q \in Proc : cpu_time'[q] = IF q = p THEN Wrap(cpu_time[p] + used) ELSE cpu_time[q]
      /\ \A d \in Cores : g_core_clock'[d] =
                            IF d = c THEN Wrap(g_core_clock[c] + used) ELSE g_core_clock[d]
  BY <1>1, <1>3 DEF Charge, IInv, TypeOK, PcbTypeOK
<1>7. Wrap(g_core_clock'[c]) = Wrap(cpu_time'[p] + waiting_time[p])
  <2> DEFINE clock == g_core_clock[c]
             cpu == cpu_time[p]
             wait == waiting_time[p]
  <2>1. clock \in Int /\ cpu \in Int /\ wait \in Int /\ used \in Int
    BY <1>3, TimeTypes DEF IInv
  <2>2. Wrap(clock) = Wrap(cpu + wait)
    BY <1>3, ProcAssumption DEF TimeAccounted
  <2>3. cpu_time'[p] = Wrap(cpu + used) /\ g_core_clock'[c] = Wrap(clock + used)
    BY <1>3, <1>6
  <2> HIDE DEF clock, cpu, wait
  <2>4. Wrap(Wrap(clock + used)) = Wrap(clock + used)
    BY <2>1, WrapRange DEF Counter
  <2>5. Wrap(clock + used) = Wrap((cpu + wait) + used)
    BY <2>1, <2>2, WrapShift
  <2>6. (cpu + wait) + used = (cpu + used) + wait
    BY <2>1
  <2>7. Wrap(Wrap(cpu + used) + wait) = Wrap((cpu + used) + wait)
    BY <2>1, WrapSum
  <2>8. Wrap(g_core_clock'[c]) = Wrap(cpu_time'[p] + wait)
    BY <2>3, <2>4, <2>5, <2>6, <2>7
  <2> QED BY <2>8 DEF wait
<1>8. NoIo'
  BY <1>1, <1>2, <1>4 DEF NoIo, IInv, TypeOK, PcbTypeOK
<1>9. \A q \in Range(ready_queue) :
        Wrap(last_ready_in[q]) = Wrap(cpu_time'[q] + waiting_time[q])
  <2>1. \A q \in Range(ready_queue) : q \in Proc /\ q # p
    BY <1>3, RangeType DEF IInv, TypeOK, SchedulerTypeOK
  <2> QED BY <1>6, <2>1 DEF TimeAccounted
<1>10. ASSUME NEW d \in Cores, current_process[d] # NONE
       PROVE  Wrap(g_core_clock'[d]) =
                Wrap(cpu_time'[current_process[d]] + waiting_time[current_process[d]])
  <2>1. CASE d = c
    BY <1>7, <2>1
  <2>2. CASE d # c
    <3>1. current_process[d] \in Proc /\ current_process[d] # p
      BY <1>10, <2>2 DEF IInv, TypeOK, OwnershipInv
    <3> QED BY <1>6, <1>10, <2>2, <3>1 DEF TimeAccounted
  <2> QED BY <2>1, <2>2
<1>11. \A q \in Ended : finish_time[q] = Wrap(cpu_time'[q] + waiting_time[q])
  <2>1. \A q \in Ended : q \in Proc /\ q # p
    BY <1>3 DEF Ended
  <2> QED BY <1>6, <2>1 DEF TimeAccounted
<1> QED BY <1>2, <1>5, <1>8, <1>9, <1>10, <1>11 DEF TimeAccounted

LEMMA TimeFinish ==
  ASSUME IInv, IInv', NoIo, TimeAccounted, NEW c \in Cores, CoreFinish(c),
         NEW p, p = current_process[c]
  PROVE  NoIo' /\ TimeAccounted'
<1>1. /\ UNCHANGED <<state, waiting_time, last_ready_in, cpu_time, ready_queue, g_core_clock,
                     blocked_list>>
      /\ finish_time' = [finish_time EXCEPT ![p] = g_core_clock[c]]
      /\ current_process' = [current_process EXCEPT ![c] = NONE]
      /\ corePc[c] = "switch" /\ corePc' = [corePc EXCEPT ![c] = "test"]
  BY DEF CoreFinish
<1>2. p \in Proc /\ p # NONE
  BY <1>1, CoreHasProcess, ProcAssumption DEF IInv
<1>3. Ended' = Ended \cup {p}
  BY InvCoreFinish
<1>4. g_core_clock[c] = Wrap(cpu_time[p] + waiting_time[p])
  BY <1>2, TimeTypes, WrapRange DEF IInv, TimeAccounted
<1>5. \A q \in Ended' : finish_time'[q] = Wrap(cpu_time[q] + waiting_time[q])
  <2>1. \A q \in Proc : finish_time'[q] = IF q = p THEN g_core_clock[c] ELSE finish_time[q]
    BY <1>1 DEF IInv, TypeOK, PcbTypeOK
  <2>2. \A q \in Ended' : q \in Proc
    BY DEF Ended
  <2> QED BY <1>3, <1>4, <2>1, <2>2 DEF TimeAccounted
<1>6. \A d \in Cores : current_process'[d] # NONE => current_process'[d] = current_process[d]
  BY <1>1 DEF IInv, TypeOK
<1>7. NoIo'
  BY <1>1 DEF NoIo, IInv, TypeOK
<1> QED BY <1>1, <1>5, <1>6, <1>7 DEF TimeAccounted

LEMMA TimeRequeue ==
  ASSUME IInv, IInv', policy = "RR", NoIo, TimeAccounted, NEW c \in Cores, CoreRequeue(c),
         NEW p, p = current_process[c]
  PROVE  NoIo' /\ TimeAccounted'
<1>1. /\ UNCHANGED <<finish_time, waiting_time, cpu_time, g_core_clock, blocked_list>>
      /\ addProcess(p, g_core_clock[c])
      /\ state' = [state EXCEPT ![p] = "Ready"]
      /\ last_ready_in' = [last_ready_in EXCEPT ![p] = g_core_clock[c]]
      /\ current_process' = [current_process EXCEPT ![c] = NONE]
      /\ corePc[c] = "switch" /\ corePc' = [corePc EXCEPT ![c] = "test"]
  BY DEF CoreRequeue, isPreemptive, addProcess
<1>2. p \in Proc /\ p # NONE
  BY <1>1, CoreHasProcess, ProcAssumption DEF IInv
<1>3. Range(ready_queue') = Range(ready_queue) \cup {p} /\ Ended' = Ended
  BY <1>1, <1>2, AddProcessContents, InvCoreRequeue DEF IInv, TypeOK, SchedulerTypeOK
<1>4. Wrap(g_core_clock[c]) = Wrap(cpu_time[p] + waiting_time[p])
  BY <1>2 DEF TimeAccounted
<1>5. \A q \in Range(ready_queue') :
        Wrap(last_ready_in'[q]) = Wrap(cpu_time[q] + waiting_time[q])
  <2>1. \A q \in Proc : last_ready_in'[q] = IF q = p THEN g_core_clock[c] ELSE last_ready_in[q]
    BY <1>1 DEF IInv, TypeOK, PcbTypeOK
  <2>2. \A q \in Range(ready_queue) : q \in Proc
    BY RangeType DEF IInv, TypeOK, SchedulerTypeOK
  <2> QED BY <1>2, <1>3, <1>4, <2>1, <2>2 DEF TimeAccounted
<1>6. \A d \in Cores : current_process'[d] # NONE => current_process'[d] = current_process[d]
  BY <1>1 DEF IInv, TypeOK
<1>7. NoIo'
  BY <1>1 DEF NoIo, IInv, TypeOK, PcbTypeOK
<1> QED BY <1>1, <1>3, <1>5, <1>6, <1>7 DEF TimeAccounted

\* No other step touches the times, and none of the I/O steps is enabled.
LEMMA TimeOthers ==
  ASSUME IInv, IInv', NoIo, TimeAccounted,
         \/ \E c \in Cores : CoreTest(c) \/ CoreIdle(c) \/ CoreRegister(c) \/ CoreBlock(c)
         \/ ioWorker \/ managerLoop \/ run_simulation_with_policy \/ UNCHANGED vars
  PROVE  NoIo' /\ TimeAccounted'
<1>1. HeldByManager = {}
  BY HeldType DEF NoIo, IInv, StateInv
<1>2. Len(blocked_list) = 0
  BY DEF NoIo
<1>3. it \in Nat \ {0} /\ ~(it <= Len(blocked_list))
  BY <1>2 DEF IInv, TypeOK
<1>4. ~WorkerReinsert /\ ~WorkerErase /\ ~WorkerSkip
  BY <1>3 DEF WorkerReinsert, WorkerSkip, WorkerErase, IInv, OwnershipInv
<1>5. ~ManagerServe
  BY <1>1 DEF ManagerServe, IInv, ManagerInv, HeldByManager
<1>6. \A c \in Cores : ~CoreRegister(c) /\ ~CoreBlock(c)
  <2>1. ASSUME NEW c \in Cores, CoreRegister(c) PROVE FALSE
    BY <2>1, CoreHasProcess DEF CoreRegister, NoIo
  <2>2. ASSUME NEW c \in Cores, CoreBlock(c) PROVE FALSE
    BY <2>2 DEF CoreBlock, NoIo
  <2> QED BY <2>1, <2>2
<1>7. UNCHANGED <<state, finish_time, waiting_time, last_ready_in, cpu_time, ready_queue,
                  current_process, g_core_clock, blocked_list>>
  <2>1. CASE \E c \in Cores : CoreTest(c) \/ CoreIdle(c)
    BY <2>1 DEF CoreTest, CoreIdle
  <2>2. CASE ioWorker
    BY <1>4, <2>2 DEF ioWorker, WorkerTest, WorkerLock, WorkerUnlock
  <2>3. CASE managerLoop
    BY <1>5, <2>3 DEF managerLoop, ManagerNext, ManagerExit, ManagerDevices, ManagerAssign,
       ManagerTake
  <2>4. CASE run_simulation_with_policy \/ UNCHANGED vars
    BY <2>4 DEF run_simulation_with_policy, MainJoin, MainShutdown, MainReturn
  <2> QED BY <1>6, <2>1, <2>2, <2>3, <2>4
<1>8. \A c \in Cores : corePc'[c] # "block"
  <2>1. ASSUME NEW c \in Cores, CoreTest(c) \/ CoreIdle(c), NEW d \in Cores
        PROVE  corePc'[d] # "block"
    BY <2>1 DEF CoreTest, CoreIdle, NoIo, IInv, TypeOK
  <2>2. CASE ioWorker
    BY <2>2 DEF ioWorker, WorkerTest, WorkerLock, WorkerReinsert, WorkerErase, WorkerSkip,
       WorkerUnlock, NoIo
  <2>3. CASE managerLoop \/ run_simulation_with_policy \/ UNCHANGED vars
    BY <2>3 DEF managerLoop, run_simulation_with_policy, MainJoin, MainShutdown, MainReturn, NoIo
  <2> QED BY <1>6, <2>1, <2>2, <2>3
<1>9. OnCores' = OnCores /\ Ended' = Ended
  BY <1>7 DEF OnCores, Ended
<1> QED BY <1>7, <1>8, <1>9 DEF NoIo, TimeAccounted

\* The three counters and the clocks agree in every state.
LEMMA TimeInvariant == Spec => []TimeInv
<1>1. Init => TimeInv
  <2> SUFFICES ASSUME Init PROVE NoIo /\ TimeAccounted
    BY DEF TimeInv
  <2>1. NoIo
    BY DEF Init, PcbInit, NoIo
  <2>2. \A p \in Range(ready_queue) : p \in Proc
    BY TypeInit, RangeType DEF TypeOK, SchedulerTypeOK
  <2>3. \A p \in Proc : Wrap(last_ready_in[p]) = Wrap(cpu_time[p] + waiting_time[p])
    BY DEF Init, PcbInit
  <2>4. \A c \in Cores : current_process[c] = NONE
    BY DEF Init
  <2>5. Ended = {}
    BY DEF Ended, Init, PcbInit
  <2> QED BY <2>1, <2>2, <2>3, <2>4, <2>5 DEF TimeAccounted
<1>2. IInv /\ IInv' /\ TimeInv /\ [Next]_vars => TimeInv'
  <2> SUFFICES ASSUME IInv, IInv', [Next]_vars, policy = "RR", IoBound = {}, NoIo, TimeAccounted
               PROVE  NoIo' /\ TimeAccounted'
    <3>1. [Next]_vars => policy' = policy
      BY DEF Next, Terminating, coreWorker, CoreTest, CoreIdle, CoreDispatch, CoreExecute,
         CoreRegister, CoreBlock, CoreFinish, CoreRequeue, ioWorker, WorkerTest, WorkerLock,
         WorkerReinsert, WorkerErase, WorkerSkip, WorkerUnlock, managerLoop,
         run_simulation_with_policy, MainJoin, MainShutdown, MainReturn
    <3> QED BY <3>1 DEF TimeInv
  <2>1. ASSUME NEW c \in Cores, coreWorker(c) PROVE NoIo' /\ TimeAccounted'
    BY <2>1, TimeDispatch, TimeExecute, TimeFinish, TimeRequeue, TimeOthers DEF coreWorker
  <2>2. CASE ioWorker \/ managerLoop \/ run_simulation_with_policy \/ UNCHANGED vars
    BY <2>2, TimeOthers
  <2> QED BY <2>1, <2>2 DEF Next, Terminating
<1> QED BY <1>1, <1>2, Invariance, PTL DEF Spec

\* Round Robin without I/O: on any number of cores, at any width of the
\* counters, the turnaround is the time run plus the time queued, wrapped.
THEOREM TurnaroundIsCpuPlusWait == Spec => []TurnaroundSplits
<1>1. TimeInv => TurnaroundSplits
  BY DEF TimeInv, TimeAccounted, TurnaroundSplits, Ended
<1> QED BY <1>1, TimeInvariant, PTL

-----------------------------------------------------------------------------
(* The report of a run on one core *)

\* A run uses fewer than half of the cycles a counter can count: m bounds a
\* slice, and every process ends within MaxSlices of them.
CountersSuffice(m) ==
  /\ FullSlice <= m /\ \A used \in ShortSlices : used <= m
  /\ 2 * (Cardinality(Proc) * (MaxSlices * m)) < WORD

\* What a process has left to run, and what it has used so far.
SlicesBounded(m) ==
  \A p \in Proc : /\ slices[p] <= MaxSlices
                  /\ state[p] # "Finished" => slices[p] < MaxSlices
                  /\ cpu_time[p] <= slices[p] * m

\* One core: its clock shows what the processes have used, and the last process
\* to end has ended when all have.
ClockRuns ==
  /\ \A c \in Cores : /\ g_core_clock[c] = Total(cpu_time)
                      /\ g_core_busy[c] = Total(cpu_time)
  /\ \A p \in Proc : finish_time[p] <= Total(cpu_time)
  /\ \A p \in Ended : cpu_time[p] <= finish_time[p]
  /\ Ended = Proc => \E p \in Proc : finish_time[p] = Total(cpu_time)

\* A program that never fetches END does not end; without one the cycles add up.
ReportInv(m) ==
  /\ \A p \in endless : state[p] # "Finished"
  /\ endless = {} => SlicesBounded(m) /\ ClockRuns

\* What the processes have used together is no less than what one has.
LEMMA TotalUsed ==
  ASSUME TypeOK
  PROVE  /\ cpu_time \in [Proc -> Nat] /\ finish_time \in [Proc -> Nat]
         /\ Total(cpu_time) \in Nat /\ \A p \in Proc : cpu_time[p] <= Total(cpu_time)
<1>1. cpu_time \in [Proc -> Nat] /\ finish_time \in [Proc -> Nat]
  BY WordAssumption DEF TypeOK, PcbTypeOK, Counter
<1> QED BY <1>1, ProcAssumption, TotalBounds

\* No other step counts cycles, or decides that a process has ended.
LEMMA OnlyExecuteCounts ==
  ASSUME IInv, [Next]_vars, \A c \in Cores : ~CoreExecute(c)
  PROVE  /\ UNCHANGED <<endless, slices, cpu_time, g_core_clock, g_core_busy>>
         /\ \A p \in Proc : state'[p] = "Finished" <=> state[p] = "Finished"
<1> TypeOK /\ OwnershipInv /\ ManagerInv /\ StateInv
  BY DEF IInv
<1>1. ASSUME NEW c \in Cores, coreWorker(c)
      PROVE  /\ UNCHANGED <<endless, slices, cpu_time, g_core_clock, g_core_busy>>
             /\ \A p \in Proc : state'[p] = "Finished" <=> state[p] = "Finished"
  <2>1. CASE CoreTest(c) \/ CoreIdle(c) \/ CoreRegister(c) \/ CoreBlock(c) \/ CoreFinish(c)
    BY <2>1 DEF CoreTest, CoreIdle, CoreRegister, CoreBlock, CoreFinish
  <2>2. CASE CoreDispatch(c)
    <3> DEFINE next == Head(ready_queue)
    <3>1. /\ UNCHANGED <<endless, slices, cpu_time, g_core_clock, g_core_busy>>
          /\ ready_queue # <<>> /\ state' = [state EXCEPT ![next] = "Running"]
      BY <2>2 DEF CoreDispatch, hasProcesses
    <3>2. next \in Range(ready_queue)
      BY <3>1, TailContents DEF TypeOK, SchedulerTypeOK
    <3>3. state[next] # "Finished"
      BY <3>2 DEF StateInv
    <3> QED BY <3>1, <3>3 DEF TypeOK, PcbTypeOK
  <2>3. CASE CoreRequeue(c)
    <3> DEFINE p == current_process[c]
    <3>1. /\ UNCHANGED <<endless, slices, cpu_time, g_core_clock, g_core_busy>>
          /\ state[p] # "Finished"
          /\ \E s \in {"Ready", "Running"} : state' = [state EXCEPT ![p] = s]
      BY <2>3 DEF CoreRequeue, addProcess
    <3> QED BY <3>1 DEF TypeOK, PcbTypeOK
  <2> QED BY <1>1, <2>1, <2>2, <2>3 DEF coreWorker
<1>2. ASSUME ioWorker
      PROVE  /\ UNCHANGED <<endless, slices, cpu_time, g_core_clock, g_core_busy>>
             /\ \A p \in Proc : state'[p] = "Finished" <=> state[p] = "Finished"
  <2>1. CASE WorkerReinsert
    <3>1. /\ UNCHANGED <<coreVars, cpu_time>> /\ state[blocked_list[it]] = "Ready"
          /\ state' = [state EXCEPT ![blocked_list[it]] = "Ready"]
      BY <2>1 DEF WorkerReinsert, addProcess
    <3> QED BY <3>1 DEF TypeOK, PcbTypeOK
  <2>2. CASE ~WorkerReinsert
    BY <1>2, <2>2 DEF ioWorker, WorkerTest, WorkerLock, WorkerErase, WorkerSkip, WorkerUnlock
  <2> QED BY <2>1, <2>2
<1>3. ASSUME managerLoop
      PROVE  /\ UNCHANGED <<endless, slices, cpu_time, g_core_clock, g_core_busy>>
             /\ \A p \in Proc : state'[p] = "Finished" <=> state[p] = "Finished"
  <2>1. CASE ManagerServe
    <3>1. /\ UNCHANGED <<coreVars, cpu_time>> /\ managerPc = "serve"
          /\ state' = [state EXCEPT ![req_to_process] = "Ready"]
      BY <1>3, <2>1 DEF managerLoop, ManagerServe
    <3>2. req_to_process \in HeldByManager
      BY <3>1 DEF ManagerInv, HeldByManager
    <3>3. state[req_to_process] = "Blocked"
      BY <3>2 DEF StateInv
    <3> QED BY <3>1, <3>3 DEF TypeOK, PcbTypeOK
  <2>2. CASE ~ManagerServe
    BY <1>3, <2>2 DEF managerLoop, ManagerNext, ManagerExit, ManagerDevices, ManagerAssign,
       ManagerTake
  <2> QED BY <2>1, <2>2
<1>4. CASE run_simulation_with_policy \/ UNCHANGED vars
  BY <1>4 DEF run_simulation_with_policy, MainJoin, MainShutdown, MainReturn
<1> QED BY <1>1, <1>2, <1>3, <1>4 DEF Next, Terminating

\* Only CoreFinish records an end.
LEMMA OnlyFinishEnds ==
  ASSUME IInv, [Next]_vars, \A c \in Cores : ~CoreFinish(c)
  PROVE  UNCHANGED <<finish_time, Ended>>
<1>1. ASSUME NEW c \in Cores, coreWorker(c)
      PROVE  UNCHANGED <<finish_time, Ended>>
  <2>1. UNCHANGED finish_time
    BY <1>1 DEF coreWorker, CoreTest, CoreIdle, CoreDispatch, CoreExecute, CoreRegister,
                CoreBlock, CoreRequeue
  <2>2. UNCHANGED Ended
    BY <1>1, InvCoreIdling, InvCoreDispatch, InvCoreExecute, InvCoreRegister,
       InvCoreBlock, InvCoreRequeue DEF coreWorker
  <2> QED BY <2>1, <2>2
<1>2. ASSUME ioWorker PROVE UNCHANGED <<finish_time, Ended>>
  <2>1. UNCHANGED Ended
    BY <1>2, InvWorkerMoves, InvWorkerReinsert, InvWorkerErase DEF ioWorker
  <2> QED BY <1>2, <2>1 DEF ioWorker, WorkerTest, WorkerLock, WorkerReinsert, WorkerErase,
             WorkerSkip, WorkerUnlock
<1>3. ASSUME managerLoop PROVE UNCHANGED <<finish_time, Ended>>
  <2>1. UNCHANGED Ended
    BY <1>3, InvManagerMoves, InvManagerServe DEF managerLoop, ManagerNext
  <2> QED BY <1>3, <2>1 DEF managerLoop, ManagerNext, ManagerExit, ManagerDevices,
             ManagerAssign, ManagerTake, ManagerServe
<1>4. ASSUME run_simulation_with_policy \/ UNCHANGED vars
      PROVE  UNCHANGED <<finish_time, Ended>>
  BY <1>4, InvMain DEF run_simulation_with_policy, MainJoin, MainShutdown, MainReturn
<1> QED BY <1>1, <1>2, <1>3, <1>4 DEF Next, Terminating

\* The first m of n times m, and one m more.
LEMMA Multiples ==
  ASSUME NEW a \in Nat, NEW b \in Nat, NEW m \in Nat, a <= b
  PROVE  a * m \in Nat /\ b * m \in Nat /\ a * m <= b * m /\ (a + 1) * m = a * m + m
<1>1. a * m \in Nat /\ (b - a) * m \in Nat /\ b - a \in Nat
  OBVIOUS
<1>2. b * m = a * m + (b - a) * m /\ (a + 1) * m = a * m + m
  OBVIOUS
<1> QED BY <1>1, <1>2

\* A slice: what it adds to the process is added to the only clock.
LEMMA ReportExecute ==
  ASSUME IInv, IInv', NEW m \in Nat, CountersSuffice(m), ReportInv(m),
         NEW c \in Cores, Cores = {c}, CoreExecute(c), NEW p, p = current_process[c]
  PROVE  ReportInv(m)'
<1> TypeOK /\ TypeOK'
  BY DEF IInv
<1>1. p \in Proc /\ p \in OnCores /\ state[p] = "Running"
  BY CoreHasProcess, OnCoresFact, ProcAssumption DEF CoreExecute, IInv, StateInv, CoreStates
<1>2. PICK outcome \in Outcomes(p), used \in Nat :
        /\ state' = [state EXCEPT ![p] = outcome]
        /\ Charge(c, p, used) /\ used <= m
  <2>1. FullSlice \in Nat /\ ShortSlices \subseteq Nat
    BY SimulatorAssumption
  <2>2. FullSlice <= m /\ \A used \in ShortSlices : used <= m
    BY DEF CountersSuffice
  <2>3. \E outcome \in Outcomes(p) :
          \E used \in (IF outcome = "Running" THEN {FullSlice} ELSE ShortSlices) :
            state' = [state EXCEPT ![p] = outcome] /\ Charge(c, p, used)
    BY Zenon DEF CoreExecute
  <2> QED BY <2>1, <2>2, <2>3
<1>3. /\ UNCHANGED <<endless, finish_time, Ended>>
      /\ slices' = [slices EXCEPT ![p] = IF p \in endless THEN @ ELSE @ + 1]
  BY InvCoreExecute DEF CoreExecute
<1>4. \A q \in Proc : state'[q] = IF q = p THEN outcome ELSE state[q]
  BY <1>1, <1>2 DEF TypeOK, PcbTypeOK
<1>5. ASSUME NEW q \in endless PROVE state'[q] # "Finished"
  <2>1. p \in endless => outcome # "Finished"
    BY DEF Outcomes
  <2>2. q \in Proc
    BY SimulatorAssumption DEF TypeOK
  <2> QED BY <1>4, <2>1, <2>2 DEF ReportInv
<1> SUFFICES ASSUME endless = {}
             PROVE  SlicesBounded(m)' /\ ClockRuns'
  BY <1>3, <1>5 DEF ReportInv
<1> SlicesBounded(m) /\ ClockRuns
  BY DEF ReportInv
<1> DEFINE h == [cpu_time EXCEPT ![p] = cpu_time[p] + used]
           limit == MaxSlices * m
<1>6. cpu_time \in [Proc -> Nat] /\ Total(cpu_time) \in Nat
  BY TotalUsed
<1>7. h \in [Proc -> Nat] /\ \A q \in Proc : h[q] = IF q = p THEN cpu_time[p] + used ELSE cpu_time[q]
  BY <1>1, <1>6
<1>8. \A q \in Proc : /\ slices[q] \in Nat /\ slices'[q] \in Nat /\ slices'[q] <= MaxSlices
                      /\ state'[q] # "Finished" => slices'[q] < MaxSlices
                      /\ slices'[q] = IF q = p THEN slices[q] + 1 ELSE slices[q]
  <2>1. /\ slices \in [Proc -> Nat] /\ slices[p] < MaxSlices
        /\ \A q \in Proc : slices'[q] = IF q = p THEN slices[q] + 1 ELSE slices[q]
    BY <1>1, <1>3 DEF TypeOK, SlicesBounded
  <2>2. MaxSlices \in Nat
    BY SimulatorAssumption
  <2>3. outcome # "Finished" => slices[p] + 1 < MaxSlices
    BY DEF Outcomes
  <2> QED BY <1>1, <1>4, <2>1, <2>2, <2>3 DEF SlicesBounded
<1>9. \A q \in Proc : h[q] <= slices'[q] * m
  <2> SUFFICES ASSUME NEW q \in Proc PROVE h[q] <= slices'[q] * m
    OBVIOUS
  <2>1. cpu_time[q] <= slices[q] * m /\ cpu_time[q] \in Nat
    BY <1>6 DEF SlicesBounded
  <2>2. slices[q] * m \in Nat /\ (slices[q] + 1) * m = slices[q] * m + m
    BY <1>8, Multiples
  <2> QED BY <1>2, <1>7, <1>8, <2>1, <2>2
<1>10. limit \in Nat /\ \A q \in Proc : h[q] <= limit
  <2> SUFFICES ASSUME NEW q \in Proc PROVE limit \in Nat /\ h[q] <= limit
    BY <1>1
  <2>1. slices'[q] * m \in Nat /\ limit \in Nat /\ slices'[q] * m <= limit
    BY <1>8, SimulatorAssumption, Multiples
  <2>2. h[q] \in Nat /\ h[q] <= slices'[q] * m
    BY <1>7, <1>9
  <2> HIDE DEF h, limit
  <2> QED BY <2>1, <2>2
<1>11. Total(h) = Total(cpu_time) + used
  <2>1. /\ IsFiniteSet(Proc) /\ cpu_time \in [Proc -> Nat] /\ p \in Proc /\ used \in Nat
    BY <1>1, <1>6, ProcAssumption
  <2>2. Total([cpu_time EXCEPT ![p] = cpu_time[p] + used]) = Total(cpu_time) + used
    BY <2>1, TotalChange, Zenon
  <2> QED BY <2>2
<1>12. /\ Total(h) \in Nat /\ Total(h) < WORD
       /\ \A q \in Proc : h[q] <= Total(h)
  <2> HIDE DEF h, limit
  <2>1. /\ Total(h) \in Nat /\ Total(h) <= Cardinality(Proc) * limit
        /\ \A q \in Proc : h[q] <= Total(h)
    BY <1>7, <1>10, ProcAssumption, TotalBounds
  <2>2. Cardinality(Proc) * limit \in Nat
    BY <1>10, ProcAssumption, FS_CardinalityType
  <2>3. 2 * (Cardinality(Proc) * limit) < WORD
    BY DEF CountersSuffice, limit
  <2> QED BY <2>1, <2>2, <2>3, WordAssumption
<1>13. cpu_time' = h
  <2>1. cpu_time[p] + used \in Nat /\ cpu_time[p] + used <= Total(h)
    BY <1>1, <1>6, <1>7, <1>12
  <2>2. Wrap(cpu_time[p] + used) = cpu_time[p] + used
    <3> DEFINE n == cpu_time[p] + used
    <3>1. n \in Nat /\ n < WORD
      <4> HIDE DEF h
      <4> QED BY <1>12, <2>1, WordAssumption
    <3> HIDE DEF n
    <3>2. n \in Int /\ n \in Counter
      BY <3>1, WordAssumption DEF Counter
    <3>3. Wrap(n) = n
      BY <3>2, WrapRange
    <3> QED BY <3>3 DEF n
  <2>3. cpu_time' = [cpu_time EXCEPT ![p] = Wrap(cpu_time[p] + used)]
    BY <1>2 DEF Charge
  <2> QED BY <2>2, <2>3
<1> HIDE DEF h
<1>14. g_core_clock'[c] = Total(h) /\ g_core_busy'[c] = Total(h)
  <2>1. g_core_clock[c] = Total(cpu_time) /\ g_core_busy[c] = Total(cpu_time)
    BY DEF ClockRuns
  <2>2. Total(cpu_time) + used \in Int /\ Total(cpu_time) + used \in Counter
    BY <1>6, <1>11, <1>12, WordAssumption DEF Counter
  <2>3. Wrap(Total(cpu_time) + used) = Total(h)
    BY <1>11, <2>2, WrapRange
  <2>4. /\ g_core_clock'[c] = Wrap(g_core_clock[c] + used)
        /\ g_core_busy'[c] = Wrap(g_core_busy[c] + used)
    BY <1>2 DEF Charge, TypeOK
  <2> QED BY <2>1, <2>3, <2>4
<1>15. p \notin Ended
  BY <1>1 DEF Ended
<1>16. SlicesBounded(m)'
  BY <1>8, <1>9, <1>13 DEF SlicesBounded
<1>17. ClockRuns'
  <2>1. \A q \in Proc : finish_time[q] <= Total(h)
    <3> SUFFICES ASSUME NEW q \in Proc PROVE finish_time[q] <= Total(h)
      OBVIOUS
    <3>1. finish_time[q] <= Total(cpu_time) /\ finish_time[q] \in Nat
      BY TotalUsed DEF ClockRuns
    <3> QED BY <1>6, <1>11, <3>1
  <2>2. \A q \in Ended : h[q] <= finish_time[q]
    <3>1. \A q \in Ended : q \in Proc /\ q # p
      BY <1>15 DEF Ended
    <3> QED BY <1>7, <3>1 DEF ClockRuns
  <2>3. Ended # Proc
    BY <1>1, <1>15
  <2> QED BY <1>3, <1>13, <1>14, <2>1, <2>2, <2>3 DEF ClockRuns
<1> QED BY <1>16, <1>17

\* The end of a process: nothing has run since the cycles it reports.
LEMMA ReportFinish ==
  ASSUME IInv, IInv', NEW m \in Nat, ReportInv(m), [Next]_vars,
         NEW c \in Cores, Cores = {c}, CoreFinish(c), NEW p, p = current_process[c]
  PROVE  ReportInv(m)'
<1> TypeOK /\ TypeOK'
  BY DEF IInv
<1>1. p \in Proc
  BY CoreHasProcess DEF CoreFinish
<1>2. /\ UNCHANGED <<endless, slices, state, cpu_time, g_core_clock, g_core_busy>>
      /\ finish_time' = [finish_time EXCEPT ![p] = g_core_clock[c]]
      /\ Ended' = Ended \cup {p}
  BY InvCoreFinish DEF CoreFinish
<1> SUFFICES ASSUME endless = {}, ClockRuns PROVE ClockRuns'
  BY <1>2 DEF ReportInv, SlicesBounded
<1>3. /\ Total(cpu_time) \in Nat /\ cpu_time[p] <= Total(cpu_time)
      /\ g_core_clock[c] = Total(cpu_time)
  BY <1>1, TotalUsed DEF ClockRuns
<1>4. \A q \in Proc : finish_time'[q] = IF q = p THEN Total(cpu_time) ELSE finish_time[q]
  BY <1>1, <1>2, <1>3 DEF TypeOK, PcbTypeOK
<1>5. \A q \in Proc : finish_time'[q] <= Total(cpu_time)
  BY <1>3, <1>4 DEF ClockRuns
<1>6. \A q \in Ended' : cpu_time[q] <= finish_time'[q]
  <2>1. \A q \in Ended' : q \in Proc /\ (q = p \/ q \in Ended)
    BY <1>2 DEF Ended
  <2> QED BY <1>3, <1>4, <2>1 DEF ClockRuns
<1>7. \E q \in Proc : finish_time'[q] = Total(cpu_time)
  BY <1>1, <1>4
<1> QED BY <1>2, <1>5, <1>6, <1>7 DEF ClockRuns

\* Every step keeps the account.
LEMMA ReportStep ==
  ASSUME IInv, IInv', NEW m \in Nat, CountersSuffice(m), ReportInv(m), [Next]_vars,
         Cardinality(Cores) = 1
  PROVE  ReportInv(m)'
<1>1. PICK c : Cores = {c}
  BY SimulatorAssumption, FS_Singleton
<1>2. CASE CoreExecute(c)
  BY <1>1, <1>2, ReportExecute
<1>3. CASE CoreFinish(c)
  BY <1>1, <1>3, ReportFinish
<1>4. CASE ~CoreExecute(c) /\ ~CoreFinish(c)
  <2>1. /\ UNCHANGED <<endless, slices, cpu_time, g_core_clock, g_core_busy>>
        /\ \A p \in Proc : state'[p] = "Finished" <=> state[p] = "Finished"
    BY <1>1, <1>4, OnlyExecuteCounts
  <2>2. UNCHANGED <<finish_time, Ended>>
    BY <1>1, <1>4, OnlyFinishEnds
  <2>3. endless \subseteq Proc
    BY SimulatorAssumption DEF IInv, TypeOK
  <2>4. SlicesBounded(m) => SlicesBounded(m)'
    BY <2>1 DEF SlicesBounded
  <2>5. ClockRuns => ClockRuns'
    BY <2>1, <2>2 DEF ClockRuns
  <2> QED BY <2>1, <2>3, <2>4, <2>5 DEF ReportInv
<1> QED BY <1>2, <1>3, <1>4

\* What a run uses can be counted twice over.
LEMMA HalfUsed ==
  ASSUME TypeOK, NEW m \in Nat, CountersSuffice(m), SlicesBounded(m)
  PROVE  Total(cpu_time) \in Nat /\ 2 * Total(cpu_time) < WORD
<1> DEFINE limit == MaxSlices * m
<1>1. MaxSlices \in Nat /\ limit \in Nat
  BY SimulatorAssumption, Multiples
<1>2. \A p \in Proc : cpu_time[p] <= limit
  <2> SUFFICES ASSUME NEW p \in Proc PROVE cpu_time[p] <= limit
    OBVIOUS
  <2>1. slices[p] \in Nat /\ slices[p] <= MaxSlices /\ cpu_time[p] <= slices[p] * m
    BY DEF TypeOK, SlicesBounded
  <2>2. slices[p] * m \in Nat /\ slices[p] * m <= limit
    BY <1>1, <2>1, Multiples
  <2>3. cpu_time[p] \in Nat
    BY TotalUsed
  <2> HIDE DEF limit
  <2> QED BY <1>1, <2>1, <2>2, <2>3
<1> HIDE DEF limit
<1>3. Total(cpu_time) \in Nat /\ Total(cpu_time) <= Cardinality(Proc) * limit
  BY <1>1, <1>2, TotalUsed, TotalBounds, ProcAssumption
<1>4. 2 * (Cardinality(Proc) * limit) < WORD
  BY DEF CountersSuffice, limit
<1>5. Cardinality(Proc) * limit \in Nat
  BY <1>1, ProcAssumption, FS_CardinalityType
<1> QED BY <1>3, <1>4, <1>5, WordAssumption

\* The largest of a set of numbers.
LEMMA MaxIs ==
  ASSUME NEW T \in SUBSET Nat, NEW n \in T, \A k \in T : k <= n
  PROVE  Max(T) = n
<1>1. Max(T) \in T /\ \A k \in T : Max(T) >= k
  BY DEF Max
<1>2. Max(T) >= n /\ Max(T) <= n /\ Max(T) \in Nat
  BY <1>1
<1> QED BY <1>2

\* Once all have ended, the three totals of the report are one number.
LEMMA TotalsAgree ==
  ASSUME TypeOK, NEW c, Cores = {c}, ClockRuns, Ended = Proc, 2 * Total(cpu_time) < WORD
  PROVE  total_core_busy = max_finish_time /\ total_cpu_time = max_finish_time
<1> DEFINE used == Total(cpu_time)
<1>1. used \in Nat /\ finish_time \in [Proc -> Nat]
  BY TotalUsed
<1>2. Wrap(used) = used
  <2> HIDE DEF used
  <2>1. used \in Counter
    BY <1>1, WordAssumption DEF Counter, used
  <2> QED BY <1>1, <2>1, WrapRange
<1>3. total_cpu_time = used
  BY <1>2, Zenon DEF total_cpu_time, Total
<1>4. total_core_busy = used
  <2>1. g_core_busy \in [{c} -> Nat] /\ g_core_busy[c] = used
    BY WordAssumption DEF TypeOK, Counter, ClockRuns
  <2>2. Total(g_core_busy) = used
    BY <2>1, TotalOfOne
  <2> QED BY <1>2, <2>2, Zenon DEF total_core_busy, Total
<1>5. Max(Range(finish_time)) = used
  <2>1. PICK p \in Proc : finish_time[p] = used
    BY DEF ClockRuns
  <2>2. Range(finish_time) \in SUBSET Nat /\ used \in Range(finish_time)
    BY <1>1, <2>1 DEF Range
  <2>3. \A k \in Range(finish_time) : k <= used
    BY <1>1 DEF Range, ClockRuns
  <2> HIDE DEF used
  <2> QED BY <2>2, <2>3, MaxIs
<1>6. Max(Range(g_core_clock)) = used
  <2>1. g_core_clock \in [{c} -> Nat] /\ g_core_clock[c] = used
    BY WordAssumption DEF TypeOK, Counter, ClockRuns
  <2>2. Range(g_core_clock) = {used}
    BY <2>1 DEF Range
  <2> HIDE DEF used
  <2> QED BY <1>1, <2>2, MaxIs
<1>7. max_finish_time = used
  <2> HIDE DEF used
  <2> QED BY <1>5, <1>6 DEF max_finish_time
<1> QED BY <1>3, <1>4, <1>7

\* The wait the report derives is the wait the scheduler measured, less the
\* cycle io_cycles starts with.
LEMMA WaitsAgree ==
  ASSUME TypeOK, ClockRuns, TimeAccounted, 2 * Total(cpu_time) < WORD,
         NEW p \in Ended, io_cycles[p] = Wrap(1)
  PROVE  derived_wait(p) = Max({0, waiting_time[p] - 1})
<1> DEFINE fin == finish_time[p]
           cpu == cpu_time[p]
           wait == waiting_time[p]
           used == Total(cpu_time)
           left == fin - cpu - 1
<1>1. /\ p \in Proc /\ fin \in Nat /\ cpu \in Nat /\ used \in Nat
      /\ cpu <= fin /\ fin <= used /\ 2 * used < WORD
      /\ wait \in 0 .. WORD - 1 /\ WORD \in Nat
  BY TotalUsed, WordAssumption DEF Ended, ClockRuns, TypeOK, PcbTypeOK, Counter
<1>2. fin = Wrap(cpu + wait)
  BY DEF TimeAccounted
<1>3. derived_wait(p) =
        IF 2 * Wrap(fin - cpu - io_cycles[p]) >= WORD THEN 0 ELSE Wrap(fin - cpu - io_cycles[p])
  BY DEF derived_wait, turnaround
<1> HIDE DEF fin, cpu, wait, used
<1>4. wait = fin - cpu
  <2>1. cpu + wait \in Int
    BY <1>1
  <2>2. PICK k \in Int : cpu + wait = k * WORD + fin
    BY <1>2, <2>1, WrapRange
  <2>3. fin - cpu = (0 - k) * WORD + wait
    BY <1>1, <2>2
  <2>4. fin - cpu \in Int /\ fin - cpu \in Counter /\ wait \in Counter /\ 0 - k \in Int
    BY <1>1 DEF Counter
  <2>5. Wrap(fin - cpu) = wait /\ Wrap(fin - cpu) = fin - cpu
    BY <2>3, <2>4, WrapUnique, WrapRange
  <2> QED BY <2>5
<1>5. CASE WORD = 1
  <2>1. \A n \in Int : Wrap(n) = 0
    BY <1>5, WrapRange DEF Counter
  <2>2. io_cycles[p] \in Int /\ fin - cpu - io_cycles[p] \in Int
    BY <1>1, <2>1
  <2>3. derived_wait(p) = 0
    BY <1>3, <1>5, <2>1, <2>2
  <2>4. {0, wait - 1} = {0, -1}
    BY <1>1, <1>5
  <2>5. Max({0, -1}) = 0
    BY DEF Max
  <2> QED BY <2>3, <2>4, <2>5 DEF wait
<1>6. CASE WORD # 1
  <2>1. WORD \in Nat /\ WORD >= 2 /\ 1 \in Counter
    BY <1>1, <1>6, WordAssumption DEF Counter
  <2>2. io_cycles[p] = 1
    BY <2>1, WrapRange
  <2>3. CASE wait = 0
    <3>1. left = -1 * WORD + (WORD - 1) + 0 /\ WORD - 1 \in Counter /\ left \in Int
      BY <1>1, <1>4, <2>1, <2>3 DEF Counter
    <3>2. Wrap(left) = WORD - 1
      <4>1. left = (-1) * WORD + (WORD - 1) /\ -1 \in Int
        BY <1>1, <1>4, <2>1, <2>3
      <4> QED BY <3>1, <4>1, WrapUnique
    <3>3. derived_wait(p) = 0
      BY <1>3, <2>1, <2>2, <3>2
    <3>4. {0, wait - 1} = {0, -1}
      BY <2>3
    <3>5. Max({0, -1}) = 0
      BY DEF Max
    <3> QED BY <3>3, <3>4, <3>5 DEF wait
  <2>4. CASE wait # 0
    <3>1. left = wait - 1 /\ left \in Nat /\ left \in Counter /\ 2 * left < WORD
      BY <1>1, <1>4, <2>1, <2>4 DEF Counter
    <3>2. Wrap(left) = left
      BY <3>1, WrapRange
    <3>3. derived_wait(p) = left
      BY <1>3, <2>1, <2>2, <3>1, <3>2
    <3>4. Max({0, left}) = left
      BY <3>1, MaxIs
    <3> QED BY <3>1, <3>3, <3>4 DEF wait
  <2> QED BY <2>3, <2>4
<1> QED BY <1>5, <1>6

\* Without I/O nobody is charged for it.
NoIoCharged == policy = "RR" /\ IoBound = {} => \A p \in Proc : io_cycles[p] = Wrap(1)

\* The manager serves nobody, so it charges nobody.
LEMMA NoIoStep ==
  ASSUME IInv, TimeInv, NoIoCharged, [Next]_vars
  PROVE  NoIoCharged'
<1>1. UNCHANGED policy
  BY DEF Next, Terminating, coreWorker, CoreTest, CoreIdle, CoreDispatch, CoreExecute,
     CoreRegister, CoreBlock, CoreFinish, CoreRequeue, ioWorker, WorkerTest, WorkerLock,
     WorkerReinsert, WorkerErase, WorkerSkip, WorkerUnlock, managerLoop,
     run_simulation_with_policy, MainJoin, MainShutdown, MainReturn
<1>2. managerLoop /\ NoIo => UNCHANGED io_cycles
  <2> SUFFICES ASSUME managerLoop, NoIo PROVE UNCHANGED io_cycles
    OBVIOUS
  <2>1. HeldByManager = {}
    BY HeldType DEF NoIo, IInv, StateInv
  <2>2. ~ManagerServe
    BY <2>1 DEF ManagerServe, IInv, ManagerInv, HeldByManager
  <2> QED BY <2>2 DEF managerLoop, ManagerNext, ManagerExit, ManagerDevices, ManagerAssign,
              ManagerTake
<1>3. UNCHANGED io_cycles \/ managerLoop
  BY DEF Next, Terminating, coreWorker, CoreTest, CoreIdle, CoreDispatch, CoreExecute,
     CoreRegister, CoreBlock, CoreFinish, CoreRequeue, ioWorker, WorkerTest, WorkerLock,
     WorkerReinsert, WorkerErase, WorkerSkip, WorkerUnlock, addProcess,
     run_simulation_with_policy, MainJoin, MainShutdown, MainReturn
<1> QED BY <1>1, <1>2, <1>3 DEF NoIoCharged, TimeInv

\* No process has run yet.
LEMMA ReportInit ==
  ASSUME Init, NEW m \in Nat, CountersSuffice(m)
  PROVE  ReportInv(m)
<1>1. TypeOK
  BY TypeInit
<1>2. /\ \A p \in Proc : /\ state[p] = "Ready" /\ slices[p] = 0
                         /\ cpu_time[p] = 0 /\ finish_time[p] = 0
      /\ \A c \in Cores : g_core_clock[c] = 0 /\ g_core_busy[c] = 0
  BY DEF Init, PcbInit
<1>3. Total(cpu_time) = 0
  <2>1. cpu_time \in [Proc -> Nat] /\ \A p \in Proc : cpu_time[p] <= 0
    BY <1>1, <1>2, TotalUsed
  <2>2. /\ Total(cpu_time) \in Nat /\ Total(cpu_time) <= Cardinality(Proc) * 0
        /\ Cardinality(Proc) \in Nat
    BY <2>1, ProcAssumption, TotalBounds, FS_CardinalityType
  <2> QED BY <2>2
<1>4. SlicesBounded(m)
  BY <1>2, SimulatorAssumption DEF SlicesBounded
<1>5. ClockRuns
  <2>1. Ended = {}
    BY <1>2 DEF Ended
  <2> QED BY <1>2, <1>3, <2>1, ProcAssumption DEF ClockRuns
<1>6. endless \subseteq Proc
  BY <1>1, SimulatorAssumption DEF TypeOK
<1> QED BY <1>2, <1>4, <1>5, <1>6 DEF ReportInv

\* The account is kept from the start to the report.
LEMMA ReportInvariant ==
  ASSUME NEW m \in Nat, CountersSuffice(m), Cardinality(Cores) = 1
  PROVE  Spec => []ReportInv(m)
<1>1. Init => ReportInv(m)
  BY ReportInit
<1>2. IInv /\ IInv' /\ ReportInv(m) /\ [Next]_vars => ReportInv(m)'
  BY ReportStep
<1> QED BY <1>1, <1>2, Invariance, PTL DEF Spec

\* What is known when the report is printed.
LEMMA ReportFacts ==
  ASSUME IInv, FinishedCounted, JoinInv, NEW m \in Nat, ReportInv(m), reportPrinted
  PROVE  Ended = Proc /\ SlicesBounded(m) /\ ClockRuns
<1>1. Ended = Proc
  BY AllEnded DEF reportPrinted
<1>2. endless \subseteq Proc
  BY SimulatorAssumption DEF IInv, TypeOK
<1>3. endless = {}
  BY <1>1, <1>2 DEF ReportInv, Ended
<1> QED BY <1>1, <1>3 DEF ReportInv

\* One core, under any policy, with I/O or without: the cycles the processes
\* used, the cycles the core was busy and the last finish_time agree, when the
\* counters are wide enough for the run.
THEOREM ReportAccounts ==
  ASSUME NEW m \in Nat, CountersSuffice(m), Cardinality(Cores) = 1
  PROVE  Spec => []ReportAddsUp
<1>1. PICK c : Cores = {c}
  BY SimulatorAssumption, FS_Singleton
<1>2. IInv /\ FinishedCounted /\ JoinInv /\ ReportInv(m) => ReportAddsUp
  BY <1>1, ReportFacts, HalfUsed, TotalsAgree DEF IInv, ReportAddsUp
<1> QED BY <1>2, Invariance, Counted, Joined, ReportInvariant, PTL

\* The wait that print_system_metrics prints is not the time the process was queued,
\* as README.md defines it: on one core, under Round Robin and without I/O, where the
\* code measures that time exactly, the report takes a cycle off, for io_cycles starts
\* with 1.
THEOREM PrintedWaitIsShort ==
  ASSUME NEW m \in Nat, CountersSuffice(m), Cardinality(Cores) = 1, IoBound = {}
  PROVE  Spec => [](policy = "RR" /\ reportPrinted =>
                      \A p \in Proc : derived_wait(p) = Max({0, waiting_time[p] - 1}))
<1>1. Init => NoIoCharged
  BY DEF Init, PcbInit, NoIoCharged
<1>2. IInv /\ TimeInv /\ NoIoCharged /\ [Next]_vars => NoIoCharged'
  BY NoIoStep
<1>3. IInv /\ FinishedCounted /\ JoinInv /\ ReportInv(m) /\ TimeInv /\ NoIoCharged =>
        (policy = "RR" /\ reportPrinted =>
           \A p \in Proc : derived_wait(p) = Max({0, waiting_time[p] - 1}))
  <2> SUFFICES ASSUME IInv, FinishedCounted, JoinInv, ReportInv(m), TimeInv, NoIoCharged,
                      policy = "RR", reportPrinted
               PROVE  \A p \in Proc : derived_wait(p) = Max({0, waiting_time[p] - 1})
    OBVIOUS
  <2>1. TypeOK /\ Ended = Proc /\ ClockRuns /\ 2 * Total(cpu_time) < WORD
    BY ReportFacts, HalfUsed DEF IInv
  <2>2. TimeAccounted /\ \A p \in Proc : io_cycles[p] = Wrap(1)
    BY DEF TimeInv, NoIoCharged
  <2> QED BY <2>1, <2>2, WaitsAgree
<1> QED BY <1>1, <1>2, <1>3, Invariance, Counted, Joined, TimeInvariant, ReportInvariant,
           PTL DEF Spec
=============================================================================
