--------------------------- MODULE InstructionSet ---------------------------
(***************************************************************************)
(* What a program does, one instruction at a time: the machine a slice of  *)
(* the pipeline promises.  It executes between one and quantum             *)
(* instructions, each complete before the next begins.                     *)
(***************************************************************************)
EXTENDS Instructions

VARIABLES
  program,   \* the program
  quantum,   \* the most instructions a slice executes
  machine    \* pc, registers, data, what the last slice printed, ended

isaVars == <<program, quantum, machine>>

Next1(m) == Moved(m.pc, 1)

\* One instruction.  LW and SW take the immediate as the address.
Apply(m) ==
  LET i == InstructionAt(program, m.pc)
  IN CASE EndsProgram(i, m.pc) -> [m EXCEPT !.ended = TRUE]
       [] i.op \in ArithmeticOps ->
            [m EXCEPT !.pc = Next1(m),
                      !.reg = writeRegister(@, i.rd,
                                calculate(i.op, m.reg[i.rs], m.reg[i.rt]).result)]
       [] i.op \in ImmediateOps ->
            [m EXCEPT !.pc = Next1(m),
                      !.reg = writeRegister(@, i.rt, Immediate(i, m.reg[i.rs]))]
       [] i.op = "LW" ->
            [m EXCEPT !.pc = Next1(m), !.reg = writeRegister(@, i.rt, m.memory[i.imm])]
       [] i.op = "SW" ->
            [m EXCEPT !.pc = Next1(m), !.memory[i.imm] = m.reg[i.rt]]
       [] i.op = "PRINT" ->
            [m EXCEPT !.pc = Next1(m), !.printed = Append(@, m.reg[i.rt])]
       [] i.op \in LoopOps ->
            [m EXCEPT !.pc = IF Taken(i, m.reg) THEN Target(i) ELSE Next1(m)]
       [] OTHER -> [m EXCEPT !.pc = Next1(m)]

\* The machine after n instructions, or at END.
Executed(n) ==
  LET run[k \in 0 .. n] ==
        IF k = 0 THEN [machine EXCEPT !.printed = <<>>]
        ELSE IF run[k - 1].ended THEN run[k - 1] ELSE Apply(run[k - 1])
  IN run[n]

Slice ==
  /\ ~machine.ended
  /\ \E n \in 1 .. quantum : machine' = Executed(n)
  /\ UNCHANGED <<program, quantum>>

SequentialInit ==
  /\ program \in Programs /\ quantum \in Quanta
  /\ machine = [pc |-> 0, reg |-> [r \in Register |-> 0], memory |-> InitialMemory,
                printed |-> <<>>, ended |-> FALSE]

SequentialSpec == SequentialInit /\ [][Slice]_isaVars
=============================================================================
