----------------------------- MODULE Scheduler -----------------------------
(***************************************************************************)
(* The ready queue (src/cpu/Scheduler.cpp).  Each operation is an action   *)
(* fragment: it runs under queueMutex, so it is one atomic part of the     *)
(* step of the thread that calls it.                                       *)
(***************************************************************************)
EXTENDS PCB, SequencesExt

CONSTANTS
  Policies,    \* the policies the menu of main() may select in this instance
  priority,    \* PCB::priority, fixed when the process is loaded
  burst_time   \* PCB::burst_time, the instructions loaded

ASSUME PolicyAssumption ==
  /\ Policies \subseteq {"FCFS", "SJN", "RR", "Priority"}
  /\ priority \in [Proc -> Int]
  /\ burst_time \in [Proc -> Nat]

VARIABLES
  policy,       \* chosen once per simulation: nothing calls setPolicy
  ready_queue

schedulerVars == <<policy, ready_queue>>

\* The comparators given to std::sort.
ComesBefore(a, b) ==
  \/ policy = "Priority" /\ priority[a] > priority[b]
  \/ policy = "SJN"      /\ burst_time[a] < burst_time[b]

Sorted(seq) ==
  \A i, j \in DOMAIN seq : i < j => ~ComesBefore(seq[j], seq[i])

\* std::sort is not stable: equal elements may end up in any order.
SortQueue(seq) ==
  {sorted \in {[i \in DOMAIN seq |-> seq[perm[i]]] :
                   perm \in Bijection(DOMAIN seq, DOMAIN seq)} : Sorted(sorted)}

\* Mutants of addProcess: the queue is not sorted; the time is not stamped.
addProcess_Unsorted(process, now) ==
  /\ state' = [state EXCEPT ![process] = "Ready"]
  /\ last_ready_in' = [last_ready_in EXCEPT ![process] = now]
  /\ ready_queue' = Append(ready_queue, process)

addProcess_Unstamped(process, now) ==
  /\ state' = [state EXCEPT ![process] = "Ready"]
  /\ UNCHANGED last_ready_in
  /\ ready_queue' = Append(ready_queue, process)

addProcess(process, now) ==
  /\ state' = [state EXCEPT ![process] = "Ready"]
  /\ last_ready_in' = [last_ready_in EXCEPT ![process] = now]
  /\ LET pushed == Append(ready_queue, process)
     IN  IF policy \in {"Priority", "SJN"}
         THEN ready_queue' \in SortQueue(pushed)
         ELSE ready_queue' = pushed

\* Mutant of getNextProcess: the front is read and not popped.
getNextProcess_Peek(now) ==
  LET next == Head(ready_queue)
  IN  /\ ready_queue' = ready_queue
      /\ waiting_time' =
           [waiting_time EXCEPT ![next] = Wrap(@ + (now - last_ready_in[next]))]
      /\ first_start_time' =
           [first_start_time EXCEPT ![next] = IF @ = 0 THEN now ELSE @]

\* getNextProcess on a queue that is not empty; it returns Head(ready_queue).
getNextProcess(now) ==
  LET next == Head(ready_queue)
  IN  /\ ready_queue' = Tail(ready_queue)
      /\ waiting_time' =
           [waiting_time EXCEPT ![next] = Wrap(@ + (now - last_ready_in[next]))]
      /\ first_start_time' =
           [first_start_time EXCEPT ![next] = IF @ = 0 THEN now ELSE @]

hasProcesses == ready_queue # <<>>

\* Mutant of pushFront: the process goes to the back.
pushFront_Back(process) == ready_queue' = Append(ready_queue, process)

pushFront(process) == ready_queue' = Cons(process, ready_queue)

\* Mutant of isPreemptive: Round Robin is not preemptive either.
isPreemptive_Never == FALSE

isPreemptive == policy = "RR"

\* The batch is added one process at a time before any thread starts: any
\* order of the batch file, sorted when the policy sorts.
SchedulerInit ==
  /\ policy \in Policies
  /\ ready_queue \in {seq \in Bijection(1 .. Cardinality(Proc), Proc) : Sorted(seq)}

SchedulerTypeOK ==
  /\ policy \in Policies
  /\ ready_queue \in Seq(Proc)
=============================================================================
