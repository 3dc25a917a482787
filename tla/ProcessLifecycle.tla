-------------------------- MODULE ProcessLifecycle --------------------------
(***************************************************************************)
(* What multiprogramming promises, without queues, locks or threads: a     *)
(* core runs one process at a time, a process runs on one core at a time,  *)
(* and a process leaves its core to be queued again, to wait or for good.  *)
(***************************************************************************)
CONSTANTS Proc, Cores, NONE

VARIABLES
  life,      \* what each process is doing
  running    \* the process on each core, or NONE

lifeVars == <<life, running>>

LifecycleInit ==
  /\ life = [p \in Proc |-> "queued"]
  /\ running = [c \in Cores |-> NONE]

Dispatch(c, p) ==
  /\ running[c] = NONE /\ life[p] = "queued"
  /\ running' = [running EXCEPT ![c] = p]
  /\ life' = [life EXCEPT ![p] = "running"]

Leave(c, next) ==
  /\ running[c] # NONE
  /\ running' = [running EXCEPT ![c] = NONE]
  /\ life' = [life EXCEPT ![running[c]] = next]

Wake(p) ==
  /\ life[p] = "waiting"
  /\ life' = [life EXCEPT ![p] = "queued"]
  /\ UNCHANGED running

LifecycleNext ==
  \/ \E c \in Cores, p \in Proc : Dispatch(c, p)
  \/ \E c \in Cores, next \in {"queued", "waiting", "finished"} : Leave(c, next)
  \/ \E p \in Proc : Wake(p)

LifecycleSpec == LifecycleInit /\ [][LifecycleNext]_lifeVars
=============================================================================
