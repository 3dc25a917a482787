-------------------------------- MODULE PCB --------------------------------
(***************************************************************************)
(* The process control block (src/cpu/PCB.hpp) as the threads share it:    *)
(* one function over the processes for each field they write.              *)
(***************************************************************************)
EXTENDS Integers, Sequences, FiniteSets, Functions

CONSTANTS
  Proc,    \* the processes of the batch; a PCB* is a member of Proc
  NONE,    \* nullptr
  WORD     \* number of values of a uint64_t counter; 1 keeps none of its bits

ASSUME ProcAssumption == IsFiniteSet(Proc) /\ Proc # {} /\ NONE \notin Proc
ASSUME WordAssumption == WORD \in Nat \ {0}

VARIABLES
  state,             \* enum class State
  first_start_time,
  finish_time,
  waiting_time,
  last_ready_in,
  cpu_time,
  io_cycles

State == {"Ready", "Running", "Blocked", "Finished"}

pcbVars == <<state, first_start_time, finish_time, waiting_time, last_ready_in,
             cpu_time, io_cycles>>

\* Unsigned counters wrap.
Wrap(n) == n % WORD
Counter == 0 .. WORD - 1

\* Fields of a PCB just loaded: every counter 0, but io_cycles starts at 1.
PcbInit ==
  /\ state            = [p \in Proc |-> "Ready"]
  /\ first_start_time = [p \in Proc |-> 0]
  /\ finish_time      = [p \in Proc |-> 0]
  /\ waiting_time     = [p \in Proc |-> 0]
  /\ last_ready_in    = [p \in Proc |-> 0]
  /\ cpu_time         = [p \in Proc |-> 0]
  /\ io_cycles        = [p \in Proc |-> Wrap(1)]

PcbTypeOK ==
  /\ state            \in [Proc -> State]
  /\ first_start_time \in [Proc -> Counter]
  /\ finish_time      \in [Proc -> Counter]
  /\ waiting_time     \in [Proc -> Counter]
  /\ last_ready_in    \in [Proc -> Counter]
  /\ cpu_time         \in [Proc -> Counter]
  /\ io_cycles        \in [Proc -> Counter]
=============================================================================
