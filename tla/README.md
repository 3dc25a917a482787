# Multicore-simulator in TLA+

A model of the multicore simulator in `src/`: the threads that schedule a batch
of processes on several cores, the I/O manager, the pipeline a process runs on,
the memory hierarchy below (L1 cache, RAM in frames, swap area), and the parser
and loader that put a batch of programs into that memory. TLC checks small
instances, TLAPS proves the main properties for every value of the constants.

Run from this directory: `tlc -config SimulatorSafety.cfg MCSimulator.tla`,
`tlapm SimulatorProofs.tla`. Paths below are relative to `src/` of the program.

## 1. The system

One run of a policy (`run_simulation_with_policy`, `main.cpp:277-352`) loads the
batch, starts four `coreWorker` threads and one `ioWorker`, joins them, prints
the reports and destroys what it declared. The I/O manager has a thread of its
own from construction to destruction.

| Component | State | Operations | Talks to |
|---|---|---|---|
| Process control block (`cpu/PCB.hpp`) | state, page table, times, access counters, registers | fields written by whoever holds the PCB | everyone, by pointer |
| Scheduler (`cpu/Scheduler.cpp`) | `ready_queue`, policy, `queueMutex` | `addProcess`, `getNextProcess`, `hasProcesses`, `pushFront`, `sortQueue` | cores, `ioWorker` |
| Core thread (`main.cpp:208-275`) | its current process, clock and busy time | test, dispatch, run a slice, then block, finish or requeue | scheduler, I/O manager, `blocked_list` |
| I/O worker (`main.cpp:188-206`) | iterator on `blocked_list` under `blocked_mutex` | scan, reinsert what is Ready, erase it | scheduler |
| I/O manager (`IO/IOManager.cpp`) | `waiting_processes`, `requests`, device flags, `shutdown_flag` | random device requests, assign, take, serve, shut down | PCB state |
| Memory manager (`memory/MemoryManager.cpp`) | frame map and owners, swap table, next swap address, victim pointer | `read`, `write`, translation, `allocateFrame`, `swapOut`, `swapIn`, `writeToFile` | cache, RAM, disk, page table of the PCB |
| L1 cache (`memory/cache.cpp`, `cachePolicy.cpp`) | `cacheMap`, `fifo_queue` | `get`, `put`, `update`; `invalidate` is never called | memory manager, for write-back |
| RAM and disk (`MAIN_MEMORY.cpp`, `SECONDARY_MEMORY.cpp`) | arrays of words | bounded reads and writes | memory manager |
| Pipeline (`cpu/CONTROL_UNIT.cpp`) | five stages, drain counter, registers | `Fetch` ... `Write_Back`, `Core` | memory manager, PCB state |
| ALU, register bank | registers | arithmetic, lookup by name | pipeline |
| Parser, encoder, PCB loader (`parser_json/parser_json.cpp`, `cpu/pcb_loader.cpp`) | static label and data maps, the address being written | data, first and second pass, loading a batch | memory manager, PCBs, scheduler |
| Reports (`main.cpp:87-186`) | none | totals over PCBs and cores, formatting | PCBs, clocks of the cores |
| Menu | console | choice of a policy | run of a policy |

What makes it hard: four containers with a lock each, between which a `PCB*`
moves in several steps; a thread that may leave its loop while another still
holds a process; PCBs destroyed while the manager thread is alive; clocks that
each core advances alone; a cache tagged with physical addresses above frames
that change hands; a sentinel that is also a legal word; disk space that is
given out and never taken back; an encoder and a decoder written apart; maps
of labels that one program leaves to the next; an exception that drops the rest
of a batch and leaves frames behind.

What makes each part correct:

- *Threads and scheduler*: no process is duplicated, lost, miscounted, used
  after its destruction or starved; the policy is obeyed; a run returns.
- *Times*: the turnaround a process reports is the time it ran plus the time it
  waited, and covers the cycles it ran.
- *I/O manager*: who waits for a device becomes Ready, once.
- *Memory*: a frame has one page, a page one place; replacement is first in,
  first out; a process reads what it wrote and nobody else's words.
- *Pipeline*: a program computes what it would compute one instruction at a
  time, wherever the quantum, a bubble or a branch cuts it; the stages stay
  inside the instructions fetched.
- *Codec and loader*: each process has its own program in memory, the control
  unit decodes what the file says (it does not for ten mnemonics), labels are those of the program; what runs is
  the batch in its order; the frames taken while it loads are of PCBs that exist.

## 2. Modules

| Module | Models |
|---|---|
| `PCB` | the shared fields of the PCBs and their wrapping counters |
| `Scheduler` | the ready queue, one action per method, four policies |
| `IOManager` | `managerLoop` in five actions, `~IOManager` in two halves |
| `Simulator` | extends the two above with the cores, `ioWorker` and the main thread |
| `ProcessLifecycle` | abstract: what multiprogramming promises, no queues, locks or threads |
| `L1Cache` | the cache, as operators on its two variables |
| `MemoryManager` | the MMU, RAM and disk over `L1Cache`; one action per call |
| `FifoPaging` | abstract: first in, first out page replacement |
| `VirtualMemory` | abstract: private pages where a read returns the last write |
| `ALU` | the operations of `ALU::calculate`, with wrap-around and overflow |
| `Instructions` | instruction records, register writes, immediates, conditions: what the pipeline and its specification share |
| `Pipeline` | `Core()`: the five stages, bubbles, the drain and the quantum; a process runs slice after slice |
| `InstructionSet` | abstract: a slice is 1 to quantum complete instructions |
| `Assembler` | pure: the encoder of `parser_json.cpp` with its tables, the decoder of `CONTROL_UNIT.cpp` with its own |
| `Loader` | the loop over a batch, both passes of the parser, on top of `MemoryManager` and `Assembler` |
| `MCSimulator`, `MCMemoryManager`, `MCPipeline`, `MCLoader` | the constants of the instances |
| `ContainerLemmas` | facts about `Range`, `Append`, `Remove`-like operations on injective sequences; the least number, induction over subsets, and sums over finite sets |
| `SimulatorProofs`, `LifecycleProofs` | theorems about `Simulator` |
| `MemoryProofs`, `TransparencyProofs` | theorems about `MemoryManager` |
| `PipelineProofs` | theorems about `Pipeline` |
| `AssemblerProofs`, `LoaderProofs` | theorems about `Assembler` and `Loader` |

### Grain of the actions

`Simulator` gives every access to shared state its own step. A call that holds a
mutex from its first line to its last is one step (the scheduler's methods, the
sections of `managerLoop`, `registerProcessWaitingForIO`, the push under
`blocked_mutex`). `blocked_mutex` is held by `ioWorker` over several steps, for
the scan calls the scheduler between list operations; `blocked_mutex_free` is
the lock. Between `register` and `push` of a blocking core and between
`addProcess` and `erase` of `ioWorker` every other thread may run. One pair of
accesses is a single step: the counter and the queue tests of the loop condition
(`CoreTest`, `main.cpp:215`). The second is made only if all processes are
counted, and the counter only grows, so evaluating both at the time of the second
gives the same outcome and no behaviour is lost. The destructors are actions of the main
thread: the PCBs go first, the I/O manager's join after.

`MemoryManager` has one action per `read` and `write`: `memMutex` covers the
whole call, so calls of different cores and of the loader interleave as units,
and which core makes a call does not matter. An action includes everything the
call does: translation, the swap-out that a swap-in needs, the cache
replacement and its write-back.

`Pipeline` has one action per cycle of `Core`. Each stage is an operator on
`context`, the record `ControlContext` that the code passes to it, and `Cycle`
applies them in the code's order: `Write_Back`, `Memory_Acess`, `Execute`,
`Decode`, `Fetch`, then the end of the loop body (`Advance`). `context.data` is
`UC.data`, with one entry per fetch of the slice. `Start` is what `coreWorker`
does before the call (`main.cpp:228-229`) and the locals of `Core`. `before`
is a history variable: what the previous slice left.

`Loader` has one step per entry of the batch that is skipped or begun, per word
of data, per node of the first pass and per instruction of the second. A step
that writes a word is the whole call of `MemoryManager`'s `write`, with the
swap-out, swap-in and cache replacement it causes, so loading one program pushes
pages of the others out. `Throw` is every exception: the `try` of
`run_simulation_with_policy` is around the loop, so it ends the loading.
Loading is sequential; no thread but the manager's, which has nothing to do
yet, runs during it.

`reportPrinted` and what follows it in `Simulator` are the sums
`print_system_metrics` computes when main calls it, after the joins.

The parts meet at three interfaces. `Loader` ends with the PCBs in the order in
which `Simulator` finds them in the ready queue. `Pipeline` leaves a slice Running,
Blocked or Finished (`BlockedByPrint`, `SliceLength`), which are the `Outcomes`
of `CoreExecute` in `Simulator`; its memory is the one `VirtualMemory`
promises, which `MemoryManager` keeps until the first swap-out.

### Abstractions

- The program a process runs is the set of outcomes of `Core()` (`Outcomes`):
  Running when the quantum is used, Blocked after PRINT, Finished after END.
  Mnemonic `print` encodes to a code the decoder ignores (`parser_json.cpp:19`),
  so a program blocks only through an instruction word it holds as data;
  `IoBound` says which programs do.
- 64-bit counters wrap at `WORD`. `WORD = 1` keeps no bits: the runs that ask
  about control only use it, the ones about times use 32 or 64.
- A physical address is `<<frame, offset>>`. Whole pages are copied, so a page
  is a function from word numbers to words. The disk address is counted in
  pages (8 words: the disk has 1024) and not wrapped at 2^32.
- Nothing calls `invalidate`, so `isValid` is left out. A physical address never
  reaches `mainMemoryLimit`, so the direct accesses to secondary memory in
  `read`, `write` and `writeToFile` are unreachable and left out.
- `frameOwnerTable` holds PCB pointers; a page and its owner are a record, and
  `nullptr` is `NONE`.
- In `Assembler` and `Loader` a word is a number made of fields. `SHAMTS` is
  the number of shift amounts: 32 in the code, and any in the proofs; the run
  uses 4, which makes words 29 bits wide, so that TLC's integers hold them.
  A program file is a record with the fields the JSON has; a field that is
  there is well formed, a register name may be unknown. `Capitals` are the names
  with capitals a file uses, and what `toLower` makes of them.
- In `Pipeline` instruction words are records of their fields, and `pc` counts words. A
  program and its data are apart: programs that store into their own
  instructions are left out. A word with an unknown code is the `NOP` of the
  code's `""`. Codes 0x10 (PRINT) and 0x0E (LI) come only from words that a
  program holds as data; `LI` is modelled and not in the instances.
- Bubbles change the time a program takes and not what it computes: `Execute`
  and `Memory_Acess` already run in an order that lets the next instruction read
  the new value (TLC finds no difference with `Hazard` false). `Hazard` is
  modelled all the same, for it decides what the quantum cuts.
- Access statistics, output files and console text are left out.

## 3. Runs

| Run | Question and result |
|---|---|
| `SimulatorSafety` | 2 cores, 3 processes, two of which do I/O, all four policies: ownership, no loss, exact count, lifetime of the PCBs, iterator validity, order of dispatch, refinement of `ProcessLifecycle`. Passes. |
| `SimulatorLiveness` | 2 cores, 2 processes with I/O, FCFS and RR: every blocked process is served and every run returns. Passes. |
| `SingleCore` | 1 core, RR, no I/O, a program that may never end: the turnaround is CPU plus waiting time, busy time, CPU time and last `finish_time` of the report agree, and the other programs finish. Passes. |
| `PriorityPreempts` | Violation: `Scheduler.cpp:76` says Priority preempts; a core resumes its process before a higher one that became Ready. |
| `TurnaroundAcrossCores` | Violation: after a migration the turnaround is below the CPU time, for `finish_time` is the clock of one core. |
| `MemoryPaging` | 2 processes, 3 pages of 2 words, 2 frames, cache of 2, disk of 3 pages: tables inverse, pages never lost or shared, FIFO, and transparency until the first swap-out. Passes. |
| `SwapTransparency` | Violation: the cache answers with the word of the page that left the frame, or writes it over the page that took it. |
| `CacheCapacity` | Violation: the cache outgrows its capacity. |
| `BatchLoading` | 11 batches of up to 5 processes: what runs is the batch up to its first failure, each process has its own program, wherever its pages are, encoded with its own labels and, for the mnemonics of `Understood`, decoded to what the file says; no frame belongs to a destroyed PCB while the batch loads. Passes. |
| `MnemonicsDecoded` | Violation: a loop with `print` and `blt` is in memory as words that the control unit does not know, or takes for ADDIU. |
| `Pipeline` | All programs of four instructions over eight that are `Covered` (without the two hazards below), quanta 1, 2 and 7: each slice refines `InstructionSet`, no stage looks past `UC.data`, the length of a slice, what blocks it. Passes. |
| `PipelineHazards` | Violation, twice in one trace: SW stores what the next instruction computed, for it reads its register in write-back, and END behind a taken branch ends the program, as in `tasks/IOBOUND/logger_task.json`, whose loop ends after one turn. |

### Bounds

- *Simulator*: two cores and three processes give every pair of threads a race
  and leave a process queued behind both cores. `MaxSlices = 2` lets a process
  block or be preempted and come back once. That a process blocks again before
  `ioWorker` has erased its first entry is therefore not in the run: it is left
  to the theorems (`Exclusive`, `NothingLost`, `IteratorValid`,
  `ThreadsImplementLifecycle`), which hold for any number of slices. `FullSlice` exceeds `ShortSlices`, as a slice that
  uses its quantum exceeds one that ends early. Cores are symmetric in the
  safety run (no liveness property is checked there).
- *Memory*: three pages compete for two frames, so pages of one and of two
  processes replace each other; the cache is smaller than the words in use.
  `MaxSwaps = 4` goes past `diskPages = 3`, so the lost write at the end of the
  disk happens. `MaxQueue = 3` leaves one repeated entry in the queue beyond
  the capacity. The two bounds stop an instance (`CHECK_DEADLOCK FALSE`); the
  program itself goes on.
- The offsets the programs use are one per word, and no program stores
  0xFFFFFFFF: with either, the code is not transparent even before a swap (see
  the hazards in `PROJECT.json`).

- *Pipeline*: four instructions put every pair and triple of the alphabet in
  the stages together, with the word-0 tail behind them. The alphabet has an
  immediate, a product, a load, a store, a branch forwards and one backwards,
  PRINT and END. Quantum 1 drains after each instruction, 2 cuts between a
  bubble and its repetition, 7 is longer than the pipeline and than a program
  without bubbles. Words have 6 bits (`HALF = 8`), so loops end by wrapping.
  `LIMIT = 5` is the code's 10000.

- *Loader*: the program `large` (3 data words, 9 instructions) alone does not
  fit in 3 frames of 2 words, so pages of every program are swapped while it
  and its successors load, as with the bundled batch, whose programs exceed
  the 512 bytes of the code's memory. Together the programs use every form of
  operand the encoder takes and fail in each way it throws: unknown label,
  branch in capitals, data without value, missing file. Two processes share a
  pid. The disk has 12 pages and is not exceeded.
- *Times*: `WORD = 32` in `SingleCore` is above twice the cycles of any batch that
  ends, so no counter wraps before a report; the proof covers those that do.

What `ReportAddsUp` shows of the report, on one core: busy time, CPU time and
last `finish_time` are one number. The wait is another matter: `README.md:105`
says it is the whole time in the ready queue, and what is printed is one cycle
less than the scheduler counted there (or 0), because `io_cycles` starts at 1
(`cpu/PCB.hpp:77`) and is taken off (`main.cpp:106`) though the process did no
I/O. No run asserts it; the disagreement is the theorem `PrintedWaitIsShort`.

`Meaning`, in `Loader`, is what a program file says of an instruction: the operation
its mnemonic names, its registers, its number or the place of its label.
`QueuedIsLoaded` asks it of the fourteen mnemonics in `Understood`, and of all that
the word is the encoding with the labels of its own program; `QueuedAsWritten`
asks it of every mnemonic of the parser's table, as the tasks and the table of
`CONTROL_UNIT.hpp:52-58` say, and `MnemonicsDecoded` shows that it fails.
`NotUnderstood` proves that it fails for each of the other ten. The encoder and
the decoder disagree in this:

- `print` is encoded 0x3E, which the decoder does not know (its PRINT is
  0x10), so the word does nothing, and the bundled I/O bound tasks never do I/O;
- `blt` is encoded 9, which is ADDIU to the decoder (its BLT is 1);
- `and`, `or`, `sll`, `srl`, `jr` and `ori` decode to nothing; `andi` and `jal`
  are decoded and not executed;
- `lw` and `sw` carry a base register, which the control unit ignores;
- a mnemonic with capitals, of which neither property says how it is decoded, is encoded as I-type; a
  branch with capitals throws, for it is asked for an immediate that is not there
  (`QueuedInOrder`: its process is not queued);
- processes that share a pid lose pages to each other (`PidOfItsOwn`).

### Fairness

`FairSpec` has weak fairness on every thread: the operating system runs each.
`CoreBlock` has strong fairness, for `ioWorker` takes `blocked_mutex` again and
again but sleeps 5 ms with the mutex free in each round (`main.cpp:194`).
`DeviceRequests` has strong fairness: `rand()` makes some device request with a
positive probability in every round of `managerLoop` (`IOManager.cpp:54-65`).
Nothing is assumed of programs: `EndlessSets` lists those that never end, and
`EveryRunReturns` speaks of batches without them.

## 4. Proofs

`SimulatorProofs`, for any finite set of processes, any cores, policies,
priorities and programs:

- `Invariance`: `IInv` is inductive. It has three parts besides the types:
  where the processes are (`OwnershipInv`), what the manager's containers hold
  (`ManagerInv`), and what the state of a process says of who may touch it
  (`StateInv`). The third is what makes the others inductive: a process that
  the manager holds is Blocked, so a Ready entry of `blocked_list` is nobody
  else's and `ioWorker` may queue it; the entry it has queued and not erased
  yet counts for nothing (`Pending`).
- `TypeCorrect`, `Exclusive`, `NothingLost` follow from `IInv`.
- `Counted` adds that the counter is the number of processes that ended and
  left their core; `PcbsOutliveUse` uses it: the threads leave their loops only
  when all are counted, so nobody holds a PCB when they are destroyed.
- `IteratorValid`: only the worker's own erase changes the list in its scan.

`LifecycleProofs`, for the same constants:

- `ThreadsImplementLifecycle`: `Simulator` refines `ProcessLifecycle`. Each
  action of a thread maps to one abstract step or to none; `IInv` says where a
  process is before and after (`SamePlace`).
- `FcfsBound`: `FcfsNonPreemptive` needs that under FCFS those that started
  stand before the others in the queue (`FcfsInv`).
- `BestFirst`: `BestReadyFirst` needs that the Ready processes of the queue are
  sorted, although Running ones stand among them and `pushFront` does not sort
  (`ReadySorted`).
- `TurnaroundIsCpuPlusWait`: the sum of CPU and waiting time of a process is,
  modulo `WORD`, the clock at which it was last queued or stopped, on any number
  of cores; the lemmas on `Wrap` say that wrapping each addition is wrapping
  the sum.
- `ReportAccounts`: on one core the busy time, the CPU time and the last
  `finish_time` of the report are one number, under every policy and with I/O.
  The invariant is `ReportInv`: the CPU times of the processes sum to the clock
  of the core, which is its busy time; nobody has finished later than it shows,
  and the last to end has finished when it shows. The counters must hold twice
  the cycles of the run (`CountersSuffice`), for the totals compare numbers that
  wrap apart.
- `PrintedWaitIsShort`: under Round Robin without I/O the printed wait is, against
  `README.md:105`, one cycle below the time in the queue. It needs Round Robin: under
  FCFS a process that is put back in front of the queue is charged its past as
  waiting again (`main.cpp:270`), and the printed wait is no longer that.

`MemoryProofs`, for any processes, pages, frames, disk and programs:

- `FramesExclusive`: the frame table and the page tables are inverse
  (`TableInv`). The proof splits on whether a frame is free (`LoadFree`) or a
  victim is replaced (`LoadOverVictim`).
- `SwapConsistent`: with distinct pids, a page is not in two places and two
  pages are not in one. It needs that places are given out in order, below
  `nextSwapAddress`. The hypothesis is a real one: the swap table is keyed by
  the pid that the process file gives.
- `PagingIsFifo`: with distinct pids, `MemoryManager` refines `FifoPaging`. The
  frames are taken in order, and the victim pointer moves only when all are
  (`PagingInv`), so the frames from the victim's on, once around, are the order in
  which the pages came (`Turns`, `AddedLast`, `MovedUp`).
- `SwappingKeepsWords`: with distinct pids and room on disk, moving pages changes
  no word of any of them. It splits on what `translateAddress` does with a page
  (`Carried`: it is resident, it goes to disk, it comes back, or both at once for
  two pages) and then shows that the rest of the call touches only the word it
  writes and the words the cache gives back; places of the disk that are in use
  lie below `nextSwapAddress`, where a swap-out writes.
- `MemoryTypeCorrect`, `CacheAlwaysReplaceable`: types, and every cached
  address is queued although the queue may hold addresses that are gone.

`TransparencyProofs`: `CacheTransparent`, the refinement of `VirtualMemory` until
the first swap-out, if programs use one address per word and never store the
word that means a miss. The invariant is `Coherent`: a cached word equals the
word of RAM, so a dirty entry that is written back changes nothing. The
violation in `SwapTransparency` is exactly the loss of `Coherent` when a frame
changes hands.

`PipelineProofs`, for any programs, quanta, registers and word size: `PipelineInv`
relates the loop counter, the drain counter and the length of `UC.data`
(`FetchInv` while the pipeline fills, `DrainInv` while it drains). From it follow
`NoStageOutside` (no stage indexes past the vector), `SliceBounded`,
`BlockedExactly` and `ContextTyped`. There is one lemma per stage for what it
leaves (`WriteBackStep` ... `FetchStep`), and the lemmas on the ALU say that
whatever is written to a register is a word.

`PipelineImplements`: a slice of any `Covered` program, with any quantum and word
size, is a step of `InstructionSet`. What is covered is what the two hazards
and the loads of `LI` leave: no store before an instruction that writes its
register and no END behind a branch (both in `PipelineHazards`), and no `LI`
of a negative number, which is loaded again without its sign. The instances of
the `Pipeline` run are selected by the same three definitions. The invariant,
`SimulationInv`, says that the registers and memory of the slice, with the effects
of the instructions still in the stages (`Agrees`), are those of some number
of complete instructions from the state before the slice.

`AssemblerProofs`: `ITypeFields`, `JTypeFields` and `RTypeFields` say that the
decoder's masks and shifts get back the fields the encoder put in, for every
number of shift amounts; `EncodedIsWord`, that whatever is encoded fits a word.
`DecodedAsMeant`: for every mnemonic of `Understood` and every operand form that is
encoded, what the decoder makes of the word is `Meaning`, what the file says.
`NotUnderstood`: for the rest of the encoder's table it is not. Both rest on
`DecodedAsFound`, which says what the decoder finds for each mnemonic of the table
(`Found`, a description of the code and no claim about it). The proofs are in
`LoaderProofs`, for `Meaning` is in terms of a file's labels: those of the maps are
the last place of each (`LabelsOf`, `SymbolsOf`).

`LoaderProofs`, for any batches, files and programs: `LoaderFramesExclusive`
and `LoaderTypeCorrect` carry `TableInv` and the types of the memory over the
loader's steps (`MemoryCall`, a step of `MemoryManager` without the bounds of its
instances, covers them); `LoaderOwnersAlive` says that frames are of PCBs that exist until
an exception ends the loading; `QueueIsBatchPrefix`, what is queued.

`ProgramsLoaded`: while the disk has room, each process that is queued, with a pid of
its own, has every word of its file in main memory or on disk, the instructions as they
are encoded with its own labels and decoded as the file says for the mnemonics of
`Understood`, and its entry point, whatever loading the others has swapped.
`LoadedInv` is the invariant (TLC checked its parts on the batches of
`BatchLoading` with 1 to 3 frames, caches of 1 to 7 words and disks of 1, 3 and 40
pages):

- `PlaceInv` and `MapsInv`: where the loader is in the file, and that the maps
  have the labels passed so far, each at its last place, and no others. They are cleared when
  a file begins, so none is of another program.
- `HeldInv`: of each process that exists, all words below `limitOf` are in memory
  and `Right`. For the one being loaded the limit is the next address to write,
  for the others the end of their program.
- `FillInv`: memory is filled in order. A frame that is taken has a page that is
  begun, and a dirty word of the cache is either the word of its frame or
  stands for a place that its page has still to be given. So a write-back over a
  frame that has changed hands, which breaks `SwapTransparency` once programs
  run, puts back what is there or writes where the loader has yet to write:
  loading survives the stale cache because it never writes a word twice.

A step that writes is `WordLands` (the new word is where its address says) and
`WordStays` (no earlier word is touched); moving pages is left to the lemmas of
`SwappingKeepsWords`, which need distinct pids only of the process in question
(`AloneIn`).


The assumptions are those named in `PCB`, `Scheduler`, `IOManager`, `Simulator`,
`L1Cache`, `MemoryManager`, `ALU`, `Instructions`, `Assembler` and `Loader`; TLC
evaluates them in every run. The theorems of `LoaderProofs` have hypotheses of
their own, stated where they are cited. Three say that the constants do not
bound the code: every page number a program reaches is a page (`AnyPage`), any
word may be stored (`AnyStore`), operands are numbers where the parser reads
numbers (`NumericPrograms`). `ProgramsLoaded` has three more. `WholeWords`: words are
four bytes and pages hold whole words, as in the code (a page has 32 bytes).
`LowerCasePrograms`: mnemonics are spelled in lower case, as in the bundled
programs; one in capitals is encoded as I-type whatever it names, and an END could
then be the word that the cache takes for a miss. `NoMissWord`: no data item is the word with all bits set. That one
the program cannot do without: the cache takes a dirty 0xFFFFFFFF for a miss, so the
next write to its line goes to memory first and then the -1 is written over it.
With one frame of two words and the data 5, 6, -1, 7, 8 TLC finds 8 lost while the
program loads. `BatchLoading` has a -1 among its data and passes: with its 3 frames
the -1 leaves the cache before its frame changes hands.

`ContainerLemmas` has what these proofs share. Induction needs no schema there: a
non-empty set of numbers has a least member (`Least`), and a family of subsets
of a finite set that has the empty set and grows by each member has the whole
set (`SubsetInduction`); from these follow the facts about the recursive function
`Executed` and about sums over the processes, which are folds (`TotalChange`:
a sum changes by what one of its terms changes).

Only model-checked: liveness, which is out of the reach of TLAPS.

## 5. Not modelled

- `LW` and `SW` ignore the base register that the encoder accepts
  (`parser_json.cpp:141-146`): `InstructionSet` takes the immediate as the
  address, as the code does.
- Program files with fields of the wrong type (a string entry of the batch that
  is none, a malformed number) and data arrays without elements: library
  behaviour of `nlohmann/json.hpp` and of number parsing.
- After an exception the frames of the destroyed PCB stay in the frame table, and
  a run that swaps them out dereferences it: undefined behaviour, which
  `FrameOwnersAlive` delimits (it says when such frames exist) and the model
  does not follow.
- Programs that store 0xFFFFFFFF or use addresses that are not multiples of 4:
  with either the cache differs from RAM without any swap.
- The race on `shutdown_flag`, a plain `bool`: the model takes its accesses as
  atomic and does not decide what an optimising compiler makes of it.
- Access, hit, miss and cycle counters: read only by the reports.
- Averages, ratios and files of the reports, concurrent appends to
  `resultados.dat`, the menu and the cleaning of output directories: input and
  output.
- `Scheduler::setPolicy`, `Cache::invalidate`, `Cache::dirtyData`, `DeleteData`:
  never called.
- `cpu/cache/`, `IO/SO-IO`, the top-level `parser_json/` and `build/`: earlier
  copies and build output, not compiled. Tests only print. Plots are Python.
- `nlohmann/json.hpp`, third-party and in the tree twice: 51,354 of the 55,553
  lines. Of the program's own lines that are built, about half are modelled.

## 6. What could follow

1. `Pipeline` over the cache and RAM of `MemoryManager`, so that fetches and loads
   meet the replacement of pages; with the words of `Assembler` as its
   instructions, programs that overwrite themselves come within reach.
2. `MemoryManager` with programs that store 0xFFFFFFFF and use unaligned
   addresses, which needs an abstract memory weaker than `VirtualMemory`.
3. `Simulator` after a batch that failed, with the destroyed PCB as an owner of
   frames.
4. Theorems: for the ALU, that a result that does not overflow is the exact one;
   `ProgramsLoaded` for mnemonics with capitals, which only needs that none of them is
   encoded as the miss.
