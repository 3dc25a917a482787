---------------------------- MODULE Instructions ----------------------------
(***************************************************************************)
(* Programs, instructions and the register bank, as the pipeline and its   *)
(* specification share them.  The fields of an instruction word are those  *)
(* of a record; pc counts words, so the code's pc is 4 times pc.           *)
(***************************************************************************)
EXTENDS ALU, Sequences

CONSTANTS
  Register,      \* the general purpose registers
  ZERO,          \* register 0
  Address,       \* the addresses of the data a program uses
  Programs,      \* the programs to run: sequences of instructions
  Quanta,        \* the quanta to run them with
  InitialMemory, \* what the words of Address hold after loading
  LIMIT          \* the last pc where an empty word does not end a program

ImmediateOps == {"ADDI", "ADDIU", "SLTI", "LUI", "LI"}
LoopOps == CompareOps \cup {"J"}

Ops == ArithmeticOps \cup ImmediateOps \cup LoopOps \cup {"LW", "SW", "PRINT", "END", ""}

\* What the stages hold, a bubble included.  A load or store names its word.
Instruction_Data ==
  {d \in [op : Ops \cup {"BUBBLE"}, rs : Register, rt : Register, rd : Register,
          imm : 0 .. HALF - 1] : d.op \in {"LW", "SW"} => d.imm \in Address}

Instruction == {d \in Instruction_Data : d.op \in Ops}

\* The word 0, which is also what memory without a page reads as.
NOP == [op |-> "", rs |-> ZERO, rt |-> ZERO, rd |-> ZERO, imm |-> 0]

ASSUME InstructionsAssumption ==
  /\ ZERO \in Register
  /\ Address \subseteq 0 .. HALF - 1
  /\ Programs \subseteq Seq(Instruction)
  /\ Quanta \subseteq Nat \ {0}
  /\ InitialMemory \in [Address -> Word]
  /\ LIMIT \in Nat

\* Mutant of Moved: the pc is not a word.
Moved_NoWrap(pc, n) == pc + n

\* The pc stays a word.
Moved(pc, n) == (pc + n) % WORD

InstructionAt(program, pc) == IF pc < Len(program) THEN program[pc + 1] ELSE NOP

\* Fetch ends the program at END, and at an empty word far from any program.
EndsProgram(instr, pc) == instr.op = "END" \/ (instr = NOP /\ pc > LIMIT)

signExtend16(imm) == IF 2 * imm < HALF THEN imm ELSE WORD - HALF + imm

\* The map of writers has an empty function for register 0.
writeRegister(reg, r, value) == IF r = ZERO THEN reg ELSE [reg EXCEPT ![r] = value]

\* What Execute_Immediate_Operation computes.
Immediate(d, val_rs) ==
  CASE d.op \in {"ADDI", "ADDIU"} -> calculate("ADD", val_rs, signExtend16(d.imm)).result
    [] d.op = "SLTI" -> calculate("BLT", val_rs, signExtend16(d.imm)).result
    [] d.op = "LUI" -> d.imm * HALF
    [] d.op = "LI" -> signExtend16(d.imm)

\* The condition of a branch and where it goes, an absolute address.
Taken(d, reg) ==
  d.op = "J" \/ (d.op \in CompareOps /\ calculate(d.op, reg[d.rs], reg[d.rt]).result = 1)

Target(d) == IF d.op = "J" THEN d.imm ELSE signExtend16(d.imm)
=============================================================================
