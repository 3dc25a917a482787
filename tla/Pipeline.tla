------------------------------ MODULE Pipeline ------------------------------
(***************************************************************************)
(* Core() and the five stages of the control unit (cpu/CONTROL_UNIT.cpp):  *)
(* a process runs in slices, each a run of Core with a new control unit.   *)
(* A stage is an operator on the context, the record the code passes to    *)
(* it, and a cycle applies the stages in the order of the code.            *)
(* The memory is that of VirtualMemory: what the process wrote last.       *)
(***************************************************************************)
EXTENDS Instructions

VARIABLES
  program,  \* the program of the process
  quantum,  \* the quantum of the process
  context,  \* ControlContext, with the registers, the memory and UC.data
  before    \* history: the machine when the slice began

pipelineVars == <<program, quantum, context, before>>

\* What a slice leaves to the next one.
Architectural(c) ==
  [pc |-> c.pc, reg |-> c.reg, memory |-> c.memory, printed |-> c.ioRequests,
   ended |-> c.endProgram]

\* UC.data[counter - n], the instruction that is n stages behind Fetch.
Stage(c, n) == c.data[c.counter - n + 1]

-----------------------------------------------------------------------------
(* The stages *)

Write_Back(c) ==
  IF c.counter >= 4 /\ c.counterForEnd >= 1 /\ Stage(c, 4).op = "SW"
  THEN [c EXCEPT !.memory[Stage(c, 4).imm] = c.reg[Stage(c, 4).rt]]
  ELSE c

\* LI writes its register a second time, without the sign.  PRINT always
\* names a register, so it does nothing here.
Loaded(c, d) ==
  CASE d.op = "LW" -> writeRegister(c.reg, d.rt, c.memory[d.imm])
    [] d.op = "LI" -> writeRegister(c.reg, d.rt, d.imm)
    [] OTHER -> c.reg

Memory_Acess(c) ==
  IF c.counter >= 3 /\ c.counterForEnd >= 2
  THEN [c EXCEPT !.reg = Loaded(c, Stage(c, 3))]
  ELSE c

Execute_Immediate_Operation(c, d) ==
  [c EXCEPT !.reg = writeRegister(@, d.rt, Immediate(d, c.reg[d.rs]))]

Execute_Aritmetic_Operation(c, d) ==
  [c EXCEPT !.reg = writeRegister(@, d.rd, calculate(d.op, c.reg[d.rs], c.reg[d.rt]).result)]

\* Mutant: a taken branch leaves the instruction behind it to Decode.
Execute_Loop_Operation_NoSquash(c, d) ==
  IF Taken(d, c.reg) THEN [c EXCEPT !.pc = Target(d)] ELSE c

\* A taken branch drops the instruction behind it, which Decode has not seen.
Execute_Loop_Operation(c, d) ==
  IF Taken(d, c.reg)
  THEN [c EXCEPT !.pc = Target(d), !.ir = NOP,
                 !.data = IF c.counter - 1 < Len(@) THEN [@ EXCEPT ![c.counter].op = "BUBBLE"]
                          ELSE @]
  ELSE c

\* Mutant: the slice ends and the process is not Blocked.
Execute_Operation_NotBlocked(c, d) ==
  [c EXCEPT !.ioRequests = Append(@, c.reg[d.rt]), !.endExecution = TRUE]

\* PRINT asks for output and gives the core back (printLock is always true).
Execute_Operation(c, d) ==
  [c EXCEPT !.ioRequests = Append(@, c.reg[d.rt]), !.state = "Blocked", !.endExecution = TRUE]

ExecuteStage(c, d) ==
  CASE d.op \in ImmediateOps -> Execute_Immediate_Operation(c, d)
    [] d.op \in ArithmeticOps -> Execute_Aritmetic_Operation(c, d)
    [] d.op \in LoopOps -> Execute_Loop_Operation(c, d)
    [] d.op = "PRINT" -> Execute_Operation(c, d)
    [] OTHER -> c

Execute(c) ==
  IF c.counter >= 2 /\ c.counterForEnd >= 3 THEN ExecuteStage(c, Stage(c, 2)) ELSE c

\* The registers an instruction reads and the one it writes, as Decode sees them.
Reads(d) ==
  CASE d.op \in ArithmeticOps \cup CompareOps \cup {"SW"} -> {d.rs, d.rt}
    [] d.op \in {"ADDI", "ADDIU", "LW", "SLTI"} -> {d.rs}
    [] d.op = "PRINT" -> {d.rt}
    [] OTHER -> {}

get_dest_reg_for_hazard(d) ==
  CASE d.op \in ArithmeticOps -> {d.rd} \ {ZERO}
    [] d.op \in ImmediateOps \cup {"LW"} -> {d.rt} \ {ZERO}
    [] OTHER -> {}

\* ir reads what one of the two instructions before it writes.
Hazard(c) ==
  \E n \in {1, 2} :
     /\ Len(c.data) > n
     /\ get_dest_reg_for_hazard(c.data[Len(c.data) - n]) \cap Reads(c.ir) # {}

\* A bubble takes the place of the instruction, to be fetched again.
Decode(c) ==
  CASE ~(c.counter >= 1 /\ c.counterForEnd >= 4) -> c
    [] c.counter >= 1 /\ c.counterForEnd >= 4 /\ Hazard(c) ->
         [c EXCEPT !.data[c.counter] = [c.ir EXCEPT !.op = "BUBBLE"],
                   !.pc = Moved(@, WORD - 1)]
    [] OTHER -> [c EXCEPT !.data[c.counter] = c.ir]

\* Mutant: END takes no place in UC.data.
Fetch_EndNotPushed(c) ==
  IF c.counterForEnd # 5 THEN c
  ELSE LET instr == InstructionAt(program, c.pc)
       IN IF EndsProgram(instr, c.pc) THEN [c EXCEPT !.endProgram = TRUE]
          ELSE [c EXCEPT !.data = Append(@, NOP), !.ir = instr, !.pc = Moved(@, 1)]

Fetch(c) ==
  IF c.counterForEnd # 5 THEN c
  ELSE LET instr == InstructionAt(program, c.pc)
       IN [c EXCEPT !.data = Append(@, NOP), !.ir = instr,
                    !.endProgram = @ \/ EndsProgram(instr, c.pc),
                    !.pc = IF EndsProgram(instr, c.pc) THEN @ ELSE Moved(@, 1)]

\* Mutant: the quantum ends one cycle late.
Advance_Late(c) ==
  LET ending == c.endExecution \/ c.counter + 1 > quantum \/ c.endProgram
      left == IF ending THEN c.counterForEnd - 1 ELSE c.counterForEnd
  IN [c EXCEPT !.counter = @ + 1, !.endExecution = ending, !.counterForEnd = left,
               !.state = IF left = 0 /\ c.endProgram THEN "Finished" ELSE @]

\* clock and counter are always equal.
Advance(c) ==
  LET ending == c.endExecution \/ c.counter + 1 >= quantum \/ c.endProgram
      left == IF ending THEN c.counterForEnd - 1 ELSE c.counterForEnd
  IN [c EXCEPT !.counter = @ + 1, !.endExecution = ending, !.counterForEnd = left,
               !.state = IF left = 0 /\ c.endProgram THEN "Finished" ELSE @]

-----------------------------------------------------------------------------
(* The runs of Core *)

AtRest == context.counterForEnd = 0

\* coreWorker makes the process Running, clears the requests of the slice
\* before and calls Core, which has a control unit and counters of its own.
Start ==
  /\ AtRest /\ context.state # "Finished"
  /\ context' = [context EXCEPT !.state = "Running", !.ioRequests = <<>>, !.data = <<>>,
                                !.counter = 0, !.counterForEnd = 5,
                                !.endProgram = FALSE, !.endExecution = FALSE]
  /\ before' = Architectural(context)
  /\ UNCHANGED <<program, quantum>>

Cycle ==
  /\ ~AtRest
  /\ context' = Advance(Fetch(Decode(Execute(Memory_Acess(Write_Back(context))))))
  /\ UNCHANGED <<program, quantum, before>>

\* The program ended.
Done == context.state = "Finished" /\ UNCHANGED pipelineVars

PipelineInit ==
  /\ program \in Programs /\ quantum \in Quanta
  /\ context = [pc |-> 0, ir |-> NOP, reg |-> [r \in Register |-> 0],
                memory |-> InitialMemory, data |-> <<>>, ioRequests |-> <<>>,
                state |-> "Ready", counter |-> 0, counterForEnd |-> 0,
                endProgram |-> FALSE, endExecution |-> FALSE]
  /\ before = Architectural(context)

PipelineNext == Start \/ Cycle \/ Done

PipelineSpec == PipelineInit /\ [][PipelineNext]_pipelineVars

-----------------------------------------------------------------------------
(* Properties *)

Context ==
  [pc : Word, ir : Instruction, reg : [Register -> Word], memory : [Address -> Word],
   data : Seq(Instruction_Data), ioRequests : Seq(Word),
   state : {"Ready", "Running", "Blocked", "Finished"}, counter : Nat,
   counterForEnd : 0 .. 5, endProgram : BOOLEAN, endExecution : BOOLEAN]

\* The context of Core has its type.
PipelineTypeOK == program \in Programs /\ quantum \in Quanta /\ context \in Context

\* No stage that runs in a cycle looks past the end of UC.data, neither while
\* the pipeline fills nor while it drains.
StagesInData ==
  \A n \in 1 .. 4 :
     context.counter >= n /\ context.counterForEnd >= 5 - n =>
        context.counter - n < Len(context.data)

\* A slice takes at most the quantum and the four cycles of the drain,
\* whatever ends it, and a process that goes on with neither PRINT nor END
\* used all of it.
SliceLength ==
  /\ context.counter <= quantum + 4
  /\ AtRest /\ context.state = "Running" => context.counter = quantum + 4

\* A process leaves the core Blocked exactly when it printed and did not end.
BlockedByPrint ==
  AtRest => (context.state = "Blocked" <=> context.ioRequests # <<>> /\ ~context.endProgram)

\* The registers an instruction writes in Execute; LW writes in Memory_Acess.
ExecuteWrites(d) ==
  CASE d.op \in ArithmeticOps -> {d.rd} \ {ZERO}
    [] d.op \in ImmediateOps -> {d.rt} \ {ZERO}
    [] OTHER -> {}

\* What the stages take for granted of a program p.  SW reads its register in
\* Write_Back, and the instruction behind it has passed Execute by then.
StoresBeforeWrites(p) ==
  \A pc \in Word :
     InstructionAt(p, pc).op = "SW" =>
        InstructionAt(p, pc).rt \notin ExecuteWrites(InstructionAt(p, Moved(pc, 1)))

\* Fetch takes an END for the end of the program before a branch leaves it.
NoEndBehindBranch(p) ==
  \A pc \in Word :
     InstructionAt(p, pc).op \in LoopOps =>
        ~EndsProgram(InstructionAt(p, Moved(pc, 1)), Moved(pc, 1))

\* Memory_Acess loads the immediate of LI again, and without its sign.
LoadsNoSign(p) ==
  \A pc \in Word : InstructionAt(p, pc).op = "LI" => 2 * InstructionAt(p, pc).imm < HALF

Covered(p) == StoresBeforeWrites(p) /\ NoEndBehindBranch(p) /\ LoadsNoSign(p)

\* A slice computes what executing its instructions one at a time computes,
\* however bubbles, branches, the quantum, PRINT and END cut it.
Sequential == INSTANCE InstructionSet WITH
  machine <- IF AtRest THEN Architectural(context) ELSE before
ImplementsInstructionSet == Sequential!SequentialSpec
=============================================================================
