----------------------------- MODULE Simulator -----------------------------
(***************************************************************************)
(* One run of run_simulation_with_policy (src/main.cpp): the core threads, *)
(* the ioWorker thread, the I/O manager's thread and the main thread that  *)
(* joins them, around the scheduler's queue and the blocked list.          *)
(*                                                                         *)
(* What a process computes is left out: a slice only chooses the cycles it *)
(* used and how it ended.                                                  *)
(***************************************************************************)
EXTENDS Scheduler, IOManager

CONSTANTS
  Cores,        \* the core threads (NUM_CORES of them)
  IoBound,      \* processes whose program may execute a PRINT
  EndlessSets,  \* the sets of processes that may turn out never to fetch END
  MaxSlices,    \* bound: any other process ends within this many slices
  FullSlice,    \* cycles of a slice that used up its quantum
  ShortSlices   \* cycles of a slice ended by a PRINT or by END

ASSUME SimulatorAssumption ==
  /\ IsFiniteSet(Cores) /\ Cores # {}
  /\ IoBound \subseteq Proc /\ EndlessSets \subseteq SUBSET Proc
  /\ MaxSlices \in Nat \ {0}
  /\ FullSlice \in Nat \ {0} /\ ShortSlices \subseteq Nat \ {0}

VARIABLES
  corePc, current_process, g_core_clock, g_core_busy,   \* one value per core
  endless,              \* the processes whose program never fetches END
  slices,               \* slices run by each process (counted up to MaxSlices)
  finished_processes,
  blocked_list,
  ioWorkerPc, it,       \* the ioWorker thread and its iterator (a position)
  mainPc

programVars == <<endless, slices>>
coreVars == <<corePc, current_process, g_core_clock, g_core_busy,
              programVars>>
workerVars == <<ioWorkerPc, it>>
vars == <<pcbVars, schedulerVars, ioVars, coreVars, workerVars,
          finished_processes, blocked_list, mainPc>>

total_processes == Cardinality(Proc)

\* ioWorker holds blocked_mutex while it scans; a core holds it for one step.
blocked_mutex_free == ioWorkerPc \notin {"scan", "erase"}

Init ==
  /\ PcbInit /\ SchedulerInit /\ IOManagerInit
  /\ corePc = [c \in Cores |-> "test"]
  /\ current_process = [c \in Cores |-> NONE]
  /\ g_core_clock = [c \in Cores |-> 0]
  /\ g_core_busy = [c \in Cores |-> 0]
  /\ endless \in EndlessSets
  /\ slices = [p \in Proc |-> 0]
  /\ finished_processes = 0
  /\ blocked_list = <<>>
  /\ ioWorkerPc = "test" /\ it = 1
  /\ mainPc = "join"

-----------------------------------------------------------------------------
(* coreWorker *)

\* The loop condition.  Its two tests are one step: the counter only grows, so all are
\* still counted at the second if they were at the first.
CoreTest(c) ==
  /\ corePc[c] = "test"
  /\ corePc' = [corePc EXCEPT ![c] =
       IF finished_processes < total_processes \/ hasProcesses THEN "get" ELSE "done"]
  /\ UNCHANGED <<pcbVars, schedulerVars, ioVars, current_process, g_core_clock,
                 g_core_busy, programVars, workerVars, finished_processes, blocked_list, mainPc>>

\* getNextProcess returned nullptr: sleep and test again.
CoreIdle(c) ==
  /\ corePc[c] = "get" /\ ~hasProcesses
  /\ corePc' = [corePc EXCEPT ![c] = "test"]
  /\ UNCHANGED <<pcbVars, schedulerVars, ioVars, current_process, g_core_clock,
                 g_core_busy, programVars, workerVars, finished_processes, blocked_list, mainPc>>

\* getNextProcess, then state = Running: no other thread reads the state of a
\* process that has left the queue.
CoreDispatch(c) ==
  /\ corePc[c] = "get" /\ hasProcesses
  /\ getNextProcess(g_core_clock[c])
  /\ current_process' = [current_process EXCEPT ![c] = Head(ready_queue)]
  /\ state' = [state EXCEPT ![Head(ready_queue)] = "Running"]
  /\ corePc' = [corePc EXCEPT ![c] = "execute"]
  /\ UNCHANGED <<finish_time, last_ready_in, cpu_time, io_cycles, policy, ioVars,
                 g_core_clock, g_core_busy, programVars, workerVars, finished_processes,
                 blocked_list, mainPc>>

\* How Core() may leave the state of process p: Running when the quantum ran
\* out, Blocked after a PRINT, Finished after END.
Outcomes(p) ==
  (IF p \in endless THEN {} ELSE {"Finished"})
    \cup (IF p \in endless \/ slices[p] + 1 < MaxSlices
          THEN {"Running"} \cup (IF p \in IoBound THEN {"Blocked"} ELSE {})
          ELSE {})

\* Mutant of Charge: the core that ran the slice is not credited with it.
Charge_Idle(c, p, used) ==
  /\ cpu_time' = [cpu_time EXCEPT ![p] = Wrap(@ + used)]
  /\ g_core_clock' = [g_core_clock EXCEPT ![c] = Wrap(@ + used)]
  /\ UNCHANGED g_core_busy

\* The cycles of a slice are charged to the process and to the core.
Charge(c, p, used) ==
  /\ cpu_time' = [cpu_time EXCEPT ![p] = Wrap(@ + used)]
  /\ g_core_busy' = [g_core_busy EXCEPT ![c] = Wrap(@ + used)]
  /\ g_core_clock' = [g_core_clock EXCEPT ![c] = Wrap(@ + used)]

\* Core(), then the charge.
CoreExecute(c) ==
  LET p == current_process[c]
  IN  /\ corePc[c] = "execute"
      /\ \E outcome \in Outcomes(p) :
         \E used \in (IF outcome = "Running" THEN {FullSlice} ELSE ShortSlices) :
           /\ state' = [state EXCEPT ![p] = outcome]
           /\ Charge(c, p, used)
      /\ slices' = [slices EXCEPT ![p] = IF p \in endless THEN @ ELSE @ + 1]
      /\ corePc' = [corePc EXCEPT ![c] = "switch"]
      /\ UNCHANGED <<endless, first_start_time, finish_time, waiting_time, last_ready_in,
                     io_cycles, schedulerVars, ioVars, current_process, workerVars,
                     finished_processes, blocked_list, mainPc>>

\* Mutant of CoreRegister: the manager is not told.
CoreRegister_Silent(c) ==
  /\ corePc[c] = "switch" /\ state[current_process[c]] = "Blocked"
  /\ corePc' = [corePc EXCEPT ![c] = "block"]
  /\ UNCHANGED <<pcbVars, schedulerVars, ioVars, current_process, g_core_clock,
                 g_core_busy, programVars, workerVars, finished_processes, blocked_list, mainPc>>

\* case Blocked, first half.
CoreRegister(c) ==
  /\ corePc[c] = "switch" /\ state[current_process[c]] = "Blocked"
  /\ registerProcessWaitingForIO(current_process[c])
  /\ corePc' = [corePc EXCEPT ![c] = "block"]
  /\ UNCHANGED <<pcbVars, schedulerVars, current_process, g_core_clock, g_core_busy,
                 programVars, workerVars, finished_processes, blocked_list, mainPc>>

\* Mutants of CoreBlock: blocked_mutex is not taken; the pointer is cleared
\* before it is pushed.
CoreBlock_NoLock(c) ==
  /\ corePc[c] = "block"
  /\ blocked_list' = Append(blocked_list, current_process[c])
  /\ current_process' = [current_process EXCEPT ![c] = NONE]
  /\ corePc' = [corePc EXCEPT ![c] = "test"]
  /\ UNCHANGED <<pcbVars, schedulerVars, ioVars, g_core_clock, g_core_busy, programVars,
                 workerVars, finished_processes, mainPc>>

CoreBlock_PushesNull(c) ==
  /\ corePc[c] = "block" /\ blocked_mutex_free
  /\ current_process' = [current_process EXCEPT ![c] = NONE]
  /\ blocked_list' = Append(blocked_list, NONE)
  /\ corePc' = [corePc EXCEPT ![c] = "test"]
  /\ UNCHANGED <<pcbVars, schedulerVars, ioVars, g_core_clock, g_core_busy, programVars,
                 workerVars, finished_processes, mainPc>>

\* case Blocked, second half: needs blocked_mutex.
CoreBlock(c) ==
  /\ corePc[c] = "block" /\ blocked_mutex_free
  /\ blocked_list' = Append(blocked_list, current_process[c])
  /\ current_process' = [current_process EXCEPT ![c] = NONE]
  /\ corePc' = [corePc EXCEPT ![c] = "test"]
  /\ UNCHANGED <<pcbVars, schedulerVars, ioVars, g_core_clock, g_core_busy, programVars,
                 workerVars, finished_processes, mainPc>>

\* Mutant of CoreFinish: the process is counted, and queued once more.
CoreFinish_Requeued(c) ==
  LET p == current_process[c]
  IN  /\ corePc[c] = "switch" /\ state[p] = "Finished"
      /\ addProcess(p, g_core_clock[c])
      /\ finish_time' = [finish_time EXCEPT ![p] = g_core_clock[c]]
      /\ finished_processes' = finished_processes + 1
      /\ current_process' = [current_process EXCEPT ![c] = NONE]
      /\ corePc' = [corePc EXCEPT ![c] = "test"]
      /\ UNCHANGED <<first_start_time, waiting_time, cpu_time, io_cycles, policy,
                     ioVars, g_core_clock, g_core_busy, programVars, workerVars,
                     blocked_list, mainPc>>

\* case Finished.
CoreFinish(c) ==
  LET p == current_process[c]
  IN  /\ corePc[c] = "switch" /\ state[p] = "Finished"
      /\ finish_time' = [finish_time EXCEPT ![p] = g_core_clock[c]]
      /\ finished_processes' = finished_processes + 1
      /\ current_process' = [current_process EXCEPT ![c] = NONE]
      /\ corePc' = [corePc EXCEPT ![c] = "test"]
      /\ UNCHANGED <<state, first_start_time, waiting_time, last_ready_in, cpu_time,
                     io_cycles, schedulerVars, ioVars, g_core_clock, g_core_busy,
                     programVars, workerVars, blocked_list, mainPc>>

\* default: to the back of the queue as Ready, or to its front still Running.
CoreRequeue(c) ==
  LET p == current_process[c]
  IN  /\ corePc[c] = "switch" /\ state[p] \notin {"Blocked", "Finished"}
      /\ \/ isPreemptive /\ addProcess(p, g_core_clock[c])
         \/ ~isPreemptive /\ pushFront(p) /\ UNCHANGED last_ready_in
              /\ state' = [state EXCEPT ![p] = "Running"]
      /\ current_process' = [current_process EXCEPT ![c] = NONE]
      /\ corePc' = [corePc EXCEPT ![c] = "test"]
      /\ UNCHANGED <<first_start_time, finish_time, waiting_time, cpu_time, io_cycles,
                     policy, ioVars, g_core_clock, g_core_busy, programVars, workerVars,
                     finished_processes, blocked_list, mainPc>>

coreWorker(c) ==
  \/ CoreTest(c) \/ CoreIdle(c) \/ CoreDispatch(c) \/ CoreExecute(c)
  \/ CoreRegister(c) \/ CoreBlock(c) \/ CoreFinish(c) \/ CoreRequeue(c)

-----------------------------------------------------------------------------
(* ioWorker *)

\* The loop condition.
WorkerTest ==
  /\ ioWorkerPc = "test"
  /\ ioWorkerPc' = IF finished_processes < total_processes THEN "lock" ELSE "done"
  /\ UNCHANGED <<pcbVars, schedulerVars, ioVars, coreVars, it, finished_processes,
                 blocked_list, mainPc>>

\* After the sleep: take blocked_mutex, start at begin().
WorkerLock ==
  /\ ioWorkerPc = "lock"
  /\ ioWorkerPc' = "scan" /\ it' = 1
  /\ UNCHANGED <<pcbVars, schedulerVars, ioVars, coreVars, finished_processes,
                 blocked_list, mainPc>>

\* A process seen Ready is queued with time 0; it stays listed until the erase,
\* which comes after the scheduler has made it visible to the cores.
WorkerReinsert ==
  /\ ioWorkerPc = "scan" /\ it <= Len(blocked_list)
  /\ state[blocked_list[it]] = "Ready"
  /\ addProcess(blocked_list[it], 0)
  /\ ioWorkerPc' = "erase"
  /\ UNCHANGED <<first_start_time, finish_time, waiting_time, cpu_time, io_cycles,
                 policy, ioVars, coreVars, it, finished_processes, blocked_list, mainPc>>

\* Mutant of WorkerErase: the iterator moves on and the entry stays.
WorkerErase_Kept ==
  /\ ioWorkerPc = "erase"
  /\ it' = it + 1
  /\ ioWorkerPc' = "scan"
  /\ UNCHANGED <<pcbVars, schedulerVars, ioVars, coreVars, finished_processes,
                 blocked_list, mainPc>>

\* it = blocked_list.erase(it)
WorkerErase ==
  /\ ioWorkerPc = "erase"
  /\ blocked_list' = RemoveAt(blocked_list, it)
  /\ ioWorkerPc' = "scan"
  /\ UNCHANGED <<pcbVars, schedulerVars, ioVars, coreVars, it, finished_processes, mainPc>>

\* ++it
WorkerSkip ==
  /\ ioWorkerPc = "scan" /\ it <= Len(blocked_list)
  /\ state[blocked_list[it]] # "Ready"
  /\ it' = it + 1
  /\ UNCHANGED <<pcbVars, schedulerVars, ioVars, coreVars, ioWorkerPc,
                 finished_processes, blocked_list, mainPc>>

\* end(): the mutex is released.
WorkerUnlock ==
  /\ ioWorkerPc = "scan" /\ it > Len(blocked_list)
  /\ ioWorkerPc' = "test" /\ it' = 1
  /\ UNCHANGED <<pcbVars, schedulerVars, ioVars, coreVars, finished_processes,
                 blocked_list, mainPc>>

ioWorker ==
  \/ WorkerTest \/ WorkerLock \/ WorkerReinsert \/ WorkerErase \/ WorkerSkip
  \/ WorkerUnlock

-----------------------------------------------------------------------------
(* The I/O manager's thread and the main thread *)

managerLoop ==
  /\ ManagerNext
  /\ UNCHANGED <<schedulerVars, coreVars, workerVars, finished_processes,
                 blocked_list, mainPc>>

\* Mutant of MainJoin: the ioWorker thread is not joined.
MainJoin_CoresOnly ==
  /\ mainPc = "join"
  /\ \A c \in Cores : corePc[c] = "done"
  /\ mainPc' = "destroyed"
  /\ UNCHANGED <<pcbVars, schedulerVars, ioVars, coreVars, workerVars,
                 finished_processes, blocked_list>>

\* Both joins return; the blocked list and the PCBs, declared last, are
\* destroyed first when the function returns.
MainJoin ==
  /\ mainPc = "join"
  /\ \A c \in Cores : corePc[c] = "done"
  /\ ioWorkerPc = "done"
  /\ mainPc' = "destroyed"
  /\ UNCHANGED <<pcbVars, schedulerVars, ioVars, coreVars, workerVars,
                 finished_processes, blocked_list>>

\* Then ~IOManager runs.
MainShutdown ==
  /\ mainPc = "destroyed"
  /\ Shutdown
  /\ mainPc' = "joinManager"
  /\ UNCHANGED <<pcbVars, schedulerVars, coreVars, workerVars, finished_processes,
                 blocked_list>>

MainReturn ==
  /\ mainPc = "joinManager" /\ managerPc = "done"
  /\ mainPc' = "done"
  /\ UNCHANGED <<pcbVars, schedulerVars, ioVars, coreVars, workerVars,
                 finished_processes, blocked_list>>

run_simulation_with_policy == MainJoin \/ MainShutdown \/ MainReturn

Terminating == mainPc = "done" /\ UNCHANGED vars

Next ==
  \/ \E c \in Cores : coreWorker(c)
  \/ ioWorker
  \/ managerLoop
  \/ run_simulation_with_policy
  \/ Terminating

Spec == Init /\ [][Next]_vars

\* Every thread keeps running; a core waiting for blocked_mutex gets it, for
\* ioWorker sleeps with the mutex free in every round; rand() makes some device
\* request again and again.
DeviceRequests ==
  /\ managerLoop /\ ManagerDevices
  /\ printer_requesting' \/ disk_requesting'

Fairness ==
  /\ \A c \in Cores : WF_vars(coreWorker(c)) /\ SF_vars(CoreBlock(c))
  /\ WF_vars(ioWorker)
  /\ WF_vars(managerLoop)
  /\ SF_vars(DeviceRequests)
  /\ WF_vars(run_simulation_with_policy)

FairSpec == Spec /\ Fairness

-----------------------------------------------------------------------------
(* print_system_metrics, which main calls between the joins and the return *)

reportPrinted ==
  mainPc = "join" /\ ioWorkerPc = "done" /\ \A c \in Cores : corePc[c] = "done"

\* arrival_time is 0 for every process.
turnaround(p) == finish_time[p]

\* Unsigned, then read as int64_t, and no less than 0.
derived_wait(p) ==
  LET wait == Wrap(turnaround(p) - cpu_time[p] - io_cycles[p])
  IN  IF 2 * wait >= WORD THEN 0 ELSE wait

max_finish_time ==
  LET last == Max(Range(finish_time))
  IN  IF last = 0 THEN Max(Range(g_core_clock)) ELSE last

total_core_busy == Wrap(FoldFunction(+, 0, g_core_busy))
total_cpu_time == Wrap(FoldFunction(+, 0, cpu_time))

-----------------------------------------------------------------------------
(* Properties *)

TypeOK ==
  /\ PcbTypeOK /\ SchedulerTypeOK /\ IOManagerTypeOK
  /\ corePc \in [Cores -> {"test", "get", "execute", "switch", "block", "done"}]
  /\ current_process \in [Cores -> Proc \cup {NONE}]
  /\ g_core_clock \in [Cores -> Counter]
  /\ g_core_busy \in [Cores -> Counter]
  /\ endless \in EndlessSets
  /\ slices \in [Proc -> Nat]
  /\ finished_processes \in Nat
  /\ blocked_list \in Seq(Proc)
  /\ ioWorkerPc \in {"test", "lock", "scan", "erase", "done"}
  /\ it \in Nat \ {0}
  /\ mainPc \in {"join", "destroyed", "joinManager", "done"}

OnCores == Range(current_process) \ {NONE}

\* The entries of blocked_list still to be reinserted: all of them, but for the
\* one ioWorker has queued and not erased yet.
PendingAt == {i \in DOMAIN blocked_list : ioWorkerPc = "erase" => i # it}
Pending == {blocked_list[i] : i \in PendingAt}

\* Places: where the threads have put the processes.
OwnershipInv ==
  /\ \A c \in Cores : corePc[c] \in {"execute", "switch", "block"}
                         <=> current_process[c] # NONE
  /\ \A c, d \in Cores : current_process[c] = current_process[d] =>
                             c = d \/ current_process[c] = NONE
  /\ IsInjective(ready_queue)
  /\ Range(ready_queue) \cap OnCores = {}
  /\ \A i, j \in PendingAt : blocked_list[i] = blocked_list[j] => i = j
  /\ Pending \cap (Range(ready_queue) \cup OnCores) = {}
  /\ ioWorkerPc = "erase" => it <= Len(blocked_list)

\* The manager's three containers hold a process at most once.
ManagerInv ==
  /\ IsInjective(waiting_processes)
  /\ requests # <<>> => managerPc = "take" /\ Len(requests) = 1
  /\ req_to_process # NONE <=> managerPc = "serve"
  /\ Range(waiting_processes) \cap (Range(requests) \cup {req_to_process}) = {}

\* The state of the process on each core, and whether the manager knows it.
CoreStates ==
  \A c \in Cores : LET p == current_process[c] IN
    /\ corePc[c] = "execute" => state[p] = "Running"
    /\ corePc[c] = "switch"  => state[p] # "Ready" /\ p \notin HeldByManager
    /\ corePc[c] = "block"   => \/ state[p] = "Blocked" /\ p \in HeldByManager
                                \/ state[p] = "Ready"

\* What the state of a process says of who may touch it.
StateInv ==
  /\ \A p \in Range(ready_queue) : state[p] \in {"Ready", "Running"}
  /\ CoreStates
  /\ \A p \in Pending : \/ state[p] = "Blocked" /\ p \in HeldByManager
                        \/ state[p] = "Ready"
  /\ \A p \in HeldByManager : state[p] = "Blocked"
  /\ \A p \in Proc : \/ state[p] = "Finished"
                     \/ p \in Range(ready_queue) \cup OnCores \cup Pending

\* The invariant the threads keep together, strong enough to be inductive.
IInv == TypeOK /\ OwnershipInv /\ ManagerInv /\ StateInv

\* No process is run by two cores, queued twice or queued while it runs, and
\* none waits for a device twice: the locks of the four containers are
\* separate, and a PCB* moves between them in several steps.
ExclusiveOwnership ==
  /\ \A c, d \in Cores : current_process[c] = current_process[d] =>
                             c = d \/ current_process[c] = NONE
  /\ IsInjective(ready_queue)
  /\ Range(ready_queue) \cap OnCores = {}
  /\ Pending \cap (Range(ready_queue) \cup OnCores) = {}
  /\ IsInjective(waiting_processes)
  /\ Range(waiting_processes) \cap (Range(requests) \cup {req_to_process}) = {}

\* Nobody forgets a process: until it ends it is queued, on a core or listed,
\* and whoever is Blocked is known to the manager, which will wake it.
NoLostProcess ==
  \A p \in Proc :
    \/ state[p] = "Finished"
    \/ p \in Range(ready_queue) \cup OnCores
    \/ p \in Pending /\ (state[p] = "Blocked" => p \in HeldByManager)

\* The counter that lets every thread leave its loop is exact: a process is
\* counted once, when its core has let go of it.
Ended == {p \in Proc : state[p] = "Finished"} \ OnCores
FinishedCounted == finished_processes = Cardinality(Ended)

\* The PCBs are destroyed before ~IOManager stops its thread; by then no
\* thread and no container the thread reads points to a process.
PcbOutlivesManager ==
  mainPc # "join" => /\ HeldByManager = {}
                     /\ ready_queue = <<>> /\ blocked_list = <<>> /\ OnCores = {}

\* The iterator of ioWorker stays valid: while it scans, the list changes by
\* its own erase only.
ListStableWhileScanned ==
  [][~blocked_mutex_free => (blocked_list' = blocked_list \/ WorkerErase)]_vars

\* SJN and Priority: a core that starts or resumes a Ready process takes one
\* that no other Ready process of the queue should come before.
BestReadyFirst ==
  [][\A c \in Cores : CoreDispatch(c) /\ state[Head(ready_queue)] = "Ready" =>
       \A p \in Range(ready_queue) :
          state[p] = "Ready" => ~ComesBefore(p, Head(ready_queue))]_vars

\* Under FCFS a process that has started keeps a core until it blocks or ends: no
\* more processes are Running, queued ones included, than there are cores.
FcfsNonPreemptive ==
  policy = "FCFS" => Cardinality({p \in Proc : state[p] = "Running"}) <= Cardinality(Cores)

\* Every batch of programs that end runs to its end and every thread is joined.
EveryRunReturns == endless = {} => <>(mainPc = "done")

\* Whoever waits for a device becomes Ready, although devices request at random.
BlockedIsServed == \A p \in Proc : state[p] = "Blocked" ~> state[p] = "Ready"

\* Round Robin: programs that never end do not keep the others from ending.
OthersFinish ==
  \A p \in Proc : policy = "RR" /\ p \notin endless => <>(state[p] = "Finished")

\* Round Robin without I/O: the turnaround a finished process reports is the
\* time it ran plus the time it was queued, although each of the three is
\* counted apart and, with several cores, on clocks that disagree.
TurnaroundSplits ==
  policy = "RR" /\ IoBound = {} =>
    \A p \in Proc \ OnCores : state[p] = "Finished" =>
      finish_time[p] = Wrap(cpu_time[p] + waiting_time[p])

\* One core: the report of a run accounts for every cycle.  The core was busy from
\* the start to the last finish_time, and the processes used what it was busy,
\* though the three are counted apart.
ReportAddsUp ==
  reportPrinted => total_core_busy = max_finish_time /\ total_cpu_time = max_finish_time

\* What README.md says of the turnaround, the time from arrival to the end: it
\* is no less than the cycles the process ran.
TurnaroundCoversCpu ==
  \A p \in Proc \ OnCores : state[p] = "Finished" => finish_time[p] >= cpu_time[p]

\* What Scheduler.cpp says of Priority, that it is preemptive: a core never
\* resumes a process while one of higher priority is Ready in the queue.
HighestPriorityFirst ==
  [][\A c \in Cores : CoreDispatch(c) =>
       \A p \in Range(ready_queue) :
          policy = "Priority" /\ state[p] = "Ready" => priority[p] <= priority[Head(ready_queue)]]_vars

-----------------------------------------------------------------------------
\* The life of a process as ProcessLifecycle sees it.  An entry of blocked_list
\* that ioWorker has already queued counts for nothing.
lifeOf(p) ==
  CASE p \in OnCores -> "running"
    [] p \in Range(ready_queue) -> "queued"
    [] p \notin OnCores \cup Range(ready_queue) /\ state[p] = "Finished" -> "finished"
    [] OTHER -> "waiting"

Lifecycle == INSTANCE ProcessLifecycle
               WITH life <- [p \in Proc |-> lifeOf(p)], running <- current_process

\* The threads implement multiprogramming: no interleaving of their steps makes
\* a core take a process that is not queued, or drop the one it runs.
ImplementsLifecycle == Lifecycle!LifecycleSpec
=============================================================================
