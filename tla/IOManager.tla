----------------------------- MODULE IOManager -----------------------------
(***************************************************************************)
(* The I/O manager and its thread (src/IO/IOManager.cpp): managerLoop as   *)
(* one action per stage, each run under the lock of that stage.            *)
(***************************************************************************)
EXTENDS PCB, SequencesExt

CONSTANT IoCosts   \* durations of one device operation, in io_cycles
ASSUME IoCostAssumption == IoCosts \subseteq Nat /\ IoCosts # {}

VARIABLES
  waiting_processes,
  requests,             \* the process of each IORequest
  req_to_process,       \* the process being served, or NONE
  printer_requesting,
  disk_requesting,
  shutdown_flag,
  managerPc             \* next stage of the manager thread

ioVars == <<waiting_processes, requests, req_to_process, printer_requesting,
            disk_requesting, shutdown_flag, managerPc>>

IOManagerInit ==
  /\ waiting_processes = <<>>
  /\ requests = <<>>
  /\ req_to_process = NONE
  /\ printer_requesting = FALSE
  /\ disk_requesting = FALSE
  /\ shutdown_flag = FALSE
  /\ managerPc = "devices"

\* registerProcessWaitingForIO, called by a core.
registerProcessWaitingForIO(process) ==
  /\ waiting_processes' = Append(waiting_processes, process)
  /\ UNCHANGED <<requests, req_to_process, printer_requesting, disk_requesting,
                 shutdown_flag, managerPc>>

\* The loop test fails: the thread ends.
ManagerExit ==
  /\ managerPc = "devices" /\ shutdown_flag
  /\ managerPc' = "done"
  /\ UNCHANGED <<pcbVars, waiting_processes, requests, req_to_process,
                 printer_requesting, disk_requesting, shutdown_flag>>

\* Stage 1: each device may start to request (rand()).
ManagerDevices ==
  /\ managerPc = "devices" /\ ~shutdown_flag
  /\ \E printer, disk \in BOOLEAN :
        /\ printer_requesting' = (printer_requesting \/ printer)
        /\ disk_requesting' = (disk_requesting \/ disk)
  /\ managerPc' = "assign"
  /\ UNCHANGED <<pcbVars, waiting_processes, requests, req_to_process, shutdown_flag>>

\* Stage 2: the first waiting process is given to the printer, or else to the
\* disk; addRequest is called by this thread only, so it is part of the step.
ManagerAssign ==
  /\ managerPc = "assign"
  /\ managerPc' = "take"
  /\ \/ /\ waiting_processes # <<>>
        /\ printer_requesting \/ disk_requesting
        /\ requests' = Append(requests, Head(waiting_processes))
        /\ waiting_processes' = Tail(waiting_processes)
        /\ printer_requesting' = FALSE
        /\ disk_requesting' = (disk_requesting /\ printer_requesting)
     \/ /\ waiting_processes = <<>> \/ ~(printer_requesting \/ disk_requesting)
        /\ UNCHANGED <<waiting_processes, requests, printer_requesting, disk_requesting>>
  /\ UNCHANGED <<pcbVars, req_to_process, shutdown_flag>>

\* Stage 3: take the oldest request, or sleep.
ManagerTake ==
  /\ managerPc = "take"
  /\ \/ /\ requests # <<>>
        /\ req_to_process' = Head(requests)
        /\ requests' = Tail(requests)
        /\ managerPc' = "serve"
     \/ /\ requests = <<>>
        /\ managerPc' = "devices"
        /\ UNCHANGED <<requests, req_to_process>>
  /\ UNCHANGED <<pcbVars, waiting_processes, printer_requesting, disk_requesting,
                 shutdown_flag>>

\* Mutant of ManagerServe: the process is not made Ready.
ManagerServe_NoWake ==
  /\ managerPc = "serve"
  /\ \E duration \in IoCosts :
        io_cycles' = [io_cycles EXCEPT ![req_to_process] = Wrap(@ + duration)]
  /\ req_to_process' = NONE
  /\ managerPc' = "devices"
  /\ UNCHANGED <<state, first_start_time, finish_time, waiting_time, last_ready_in,
                 cpu_time, waiting_processes, requests, printer_requesting,
                 disk_requesting, shutdown_flag>>

\* Stage 3, after the device has run: the write of Ready comes last.
ManagerServe ==
  /\ managerPc = "serve"
  /\ \E duration \in IoCosts :
        io_cycles' = [io_cycles EXCEPT ![req_to_process] = Wrap(@ + duration)]
  /\ state' = [state EXCEPT ![req_to_process] = "Ready"]
  /\ req_to_process' = NONE
  /\ managerPc' = "devices"
  /\ UNCHANGED <<first_start_time, finish_time, waiting_time, last_ready_in, cpu_time,
                 waiting_processes, requests, printer_requesting, disk_requesting,
                 shutdown_flag>>

\* Mutant of Shutdown: the flag is not raised.
Shutdown_Unflagged == UNCHANGED ioVars

\* ~IOManager asks the thread to stop, then joins it.
Shutdown ==
  /\ shutdown_flag' = TRUE
  /\ UNCHANGED <<waiting_processes, requests, req_to_process, printer_requesting,
                 disk_requesting, managerPc>>

ManagerNext ==
  ManagerExit \/ ManagerDevices \/ ManagerAssign \/ ManagerTake \/ ManagerServe

IOManagerTypeOK ==
  /\ waiting_processes \in Seq(Proc)
  /\ requests \in Seq(Proc)
  /\ req_to_process \in Proc \cup {NONE}
  /\ printer_requesting \in BOOLEAN
  /\ disk_requesting \in BOOLEAN
  /\ shutdown_flag \in BOOLEAN
  /\ managerPc \in {"devices", "assign", "take", "serve", "done"}

\* The processes some part of the manager holds a pointer to.
HeldByManager ==
  Range(waiting_processes) \cup Range(requests) \cup ({req_to_process} \ {NONE})
=============================================================================
