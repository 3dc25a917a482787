--------------------------- MODULE PipelineProofs ---------------------------
(***************************************************************************)
(* Proofs about Pipeline: the types of the context, that no stage looks    *)
(* past the end of UC.data, the length of a slice, what blocks it, and     *)
(* that a slice computes what its instructions compute one at a time.      *)
(***************************************************************************)
EXTENDS Pipeline, ContainerLemmas

-----------------------------------------------------------------------------
(* Arithmetic *)

\* A remainder is below the divisor.
LEMMA Remainder ==
  ASSUME NEW n \in Int, NEW w \in Nat, w > 0
  PROVE  n % w \in 0 .. w - 1
  BY SMT

\* Words are numbers, and an immediate is a word.
LEMMA WordSize ==
  /\ WORD \in Nat /\ WORD > 0 /\ HALF \in Nat /\ HALF > 0 /\ HALF < WORD
  /\ 0 \in Word /\ 1 \in Word /\ 0 .. HALF - 1 \subseteq Word
<1>1. HALF \in Nat /\ HALF >= 2
  BY HalfAssumption
<1>2. HALF * HALF \in Nat /\ HALF * HALF >= 2 * HALF
  BY <1>1, SMT
<1> QED BY <1>1, <1>2, SMT DEF WORD, Word

\* The quotient of C++ is a number.
LEMMA QuotientInt ==
  ASSUME NEW a \in Int, NEW b \in Int, b # 0
  PROVE  Quotient(a, b) \in Int
<1> DEFINE abs(n) == IF n < 0 THEN -n ELSE n
<1>1. abs(a) \in Int /\ abs(b) \in Int /\ abs(b) > 0
  OBVIOUS
<1> HIDE DEF abs
<1>2. abs(a) \div abs(b) \in Int
  BY <1>1, SMT
<1> DEFINE q == abs(a) \div abs(b)
<1>3. Quotient(a, b) = IF (a < 0) = (b < 0) THEN q ELSE -q
  BY DEF Quotient, abs
<1>4. q \in Int
  BY <1>2
<1> HIDE DEF q
<1> QED BY <1>3, <1>4

\* What the ALU returns is a word.
LEMMA AluResult ==
  ASSUME NEW op, NEW A \in Word, NEW B \in Word
  PROVE  calculate(op, A, B).result \in Word
<1> DEFINE a == as_i32(A)
           b == as_i32(B)
<1>1. a \in Int /\ b \in Int
  BY WordSize DEF as_i32, Word
<1> HIDE DEF a, b
<1>2. Exact(op, a, b) \in Int
  <2>1. CASE op = "MULT"
    <3>1. a * b \in Int
      BY <1>1, SMT
    <3> QED BY <2>1, <3>1 DEF Exact
  <2>2. CASE op = "DIV" /\ b # 0
    BY <2>2, <1>1, QuotientInt DEF Exact
  <2>3. CASE op # "MULT" /\ ~(op = "DIV" /\ b # 0)
    BY <2>3, <1>1 DEF Exact
  <2> QED BY <2>1, <2>2, <2>3
<1>3. Exact(op, a, b) % WORD \in Word
  BY <1>2, Remainder, WordSize DEF Word
<1> QED BY <1>3, WordSize DEF calculate, a, b

\* An immediate, extended, is a word.
LEMMA ExtendedWord ==
  ASSUME NEW imm \in 0 .. HALF - 1
  PROVE  signExtend16(imm) \in Word
  BY WordSize DEF signExtend16, Word

-----------------------------------------------------------------------------
(* Instructions and registers *)

\* The fields of an instruction in any stage.
LEMMA Fields ==
  ASSUME NEW d \in Instruction_Data
  PROVE  /\ d.op \in Ops \cup {"BUBBLE"}
         /\ d.rs \in Register /\ d.rt \in Register /\ d.rd \in Register
         /\ d.imm \in 0 .. HALF - 1
         /\ d.op \in {"LW", "SW"} => d.imm \in Address
  BY DEF Instruction_Data

\* The word 0 is an instruction, and a bubble is one that stages hold.
LEMMA Bubbles ==
  /\ NOP \in Instruction
  /\ Instruction \subseteq Instruction_Data
  /\ \A d \in Instruction_Data : [d EXCEPT !.op = "BUBBLE"] \in Instruction_Data
<1>1. NOP \in Instruction_Data /\ NOP.op \in Ops
  <2>1. "" \in Ops /\ 0 \in 0 .. HALF - 1 /\ ZERO \in Register
    BY InstructionsAssumption, WordSize DEF Ops
  <2>2. NOP \in [op : Ops \cup {"BUBBLE"}, rs : Register, rt : Register, rd : Register,
                 imm : 0 .. HALF - 1]
    BY <2>1 DEF NOP
  <2> QED BY <2>1, <2>2 DEF NOP, Instruction_Data
<1>2. ASSUME NEW d \in Instruction_Data
      PROVE  [d EXCEPT !.op = "BUBBLE"] \in Instruction_Data
  BY DEF Instruction_Data
<1> QED BY <1>1, <1>2 DEF Instruction

\* Replacing an element keeps the type and the length of a sequence.
LEMMA Replaced ==
  ASSUME NEW S, NEW s \in Seq(S), NEW i \in 1 .. Len(s), NEW e \in S
  PROVE  /\ [s EXCEPT ![i] = e] \in Seq(S)
         /\ Len([s EXCEPT ![i] = e]) = Len(s)
  OBVIOUS

\* A write keeps the types of the register bank.
LEMMA WriteTyped ==
  ASSUME NEW reg \in [Register -> Word], NEW r \in Register, NEW v \in Word
  PROVE  writeRegister(reg, r, v) \in [Register -> Word]
  BY DEF writeRegister

\* What Execute_Immediate_Operation writes is a word.
LEMMA ImmediateWord ==
  ASSUME NEW d \in Instruction_Data, NEW v \in Word, d.op \in ImmediateOps
  PROVE  Immediate(d, v) \in Word
<1>1. d.imm \in 0 .. HALF - 1
  BY Fields
<1>2. signExtend16(d.imm) \in Word
  BY <1>1, ExtendedWord
<1>3. /\ calculate("ADD", v, signExtend16(d.imm)).result \in Word
      /\ calculate("BLT", v, signExtend16(d.imm)).result \in Word
  BY <1>2, AluResult
<1>4. d.imm * HALF \in Word
  <2>1. HALF \in Nat /\ HALF > 0 /\ d.imm \in Nat /\ d.imm <= HALF - 1
    BY <1>1, WordSize
  <2>2. d.imm * HALF \in Nat /\ d.imm * HALF <= (HALF - 1) * HALF
    BY <2>1, SMT
  <2>3. (HALF - 1) * HALF = HALF * HALF - HALF
    BY <2>1, SMT
  <2>4. d.imm * HALF <= WORD - HALF
    BY <2>2, <2>3 DEF WORD
  <2> QED BY <2>1, <2>2, <2>4, WordSize DEF Word
<1> QED BY <1>2, <1>3, <1>4 DEF Immediate, ImmediateOps

\* The word at any pc is an instruction.
LEMMA FetchedTyped ==
  ASSUME NEW p \in Programs, NEW pc \in Word
  PROVE  InstructionAt(p, pc) \in Instruction
<1>1. p \in Seq(Instruction) /\ pc \in Nat
  BY InstructionsAssumption, WordSize DEF Word
<1> QED BY <1>1, Bubbles DEF InstructionAt

\* The pc is a word after a move.
LEMMA MovedTyped ==
  ASSUME NEW pc \in Word, NEW n \in Int
  PROVE  Moved(pc, n) \in Word
  BY Remainder, WordSize DEF Moved, Word

-----------------------------------------------------------------------------
(* What each stage leaves *)

\* A stage that runs finds its instruction in UC.data.
Filled(c) ==
  \A n \in 1 .. 4 : c.counter >= n /\ c.counterForEnd >= 5 - n => c.counter - n < Len(c.data)

\* Stages do not move the counters, and Fetch alone adds to UC.data.
SameCounters(c, d) ==
  /\ d.counter = c.counter /\ d.counterForEnd = c.counterForEnd
  /\ d.endProgram = c.endProgram
  /\ Len(d.data) = Len(c.data)

\* What a stage that is not PRINT leaves alone.
Quiet(c, d) ==
  /\ SameCounters(c, d)
  /\ d.state = c.state /\ d.ioRequests = c.ioRequests /\ d.endExecution = c.endExecution

\* PRINT asks for output, blocks the process and ends the slice.
Printed(c, d) ==
  /\ SameCounters(c, d)
  /\ d.state = "Blocked" /\ d.ioRequests # <<>> /\ d.endExecution

\* The instruction of a stage that runs.
LEMMA StageTyped ==
  ASSUME NEW c \in Context, Filled(c), NEW n \in 1 .. 4,
         c.counter >= n, c.counterForEnd >= 5 - n
  PROVE  Stage(c, n) \in Instruction_Data
<1>1. c.data \in Seq(Instruction_Data) /\ c.counter \in Nat
  BY DEF Context
<1>2. c.counter - n < Len(c.data)
  BY DEF Filled
<1>3. c.counter - n + 1 \in 1 .. Len(c.data)
  BY <1>1, <1>2
<1> QED BY <1>1, <1>3 DEF Stage

\* Write_Back changes memory only.
LEMMA WriteBackStep ==
  ASSUME NEW c \in Context, Filled(c)
  PROVE  Write_Back(c) \in Context /\ Quiet(c, Write_Back(c))
<1>1. CASE c.counter >= 4 /\ c.counterForEnd >= 1 /\ Stage(c, 4).op = "SW"
  <2> DEFINE d == Stage(c, 4)
  <2>1. d \in Instruction_Data
    BY <1>1, StageTyped
  <2>2. d.imm \in Address /\ d.rt \in Register
    BY <1>1, <2>1, Fields
  <2>3. c.reg[d.rt] \in Word
    BY <2>2 DEF Context
  <2> DEFINE m == [c.memory EXCEPT ![d.imm] = c.reg[d.rt]]
  <2>4. Write_Back(c) = [c EXCEPT !.memory = m]
    BY <1>1 DEF Write_Back, Context
  <2>5. m \in [Address -> Word]
    BY <2>2, <2>3 DEF Context
  <2> HIDE DEF d, m
  <2> QED BY <2>4, <2>5 DEF Context, Quiet, SameCounters
<1>2. CASE ~(c.counter >= 4 /\ c.counterForEnd >= 1 /\ Stage(c, 4).op = "SW")
  BY <1>2 DEF Write_Back, Quiet, SameCounters
<1> QED BY <1>1, <1>2

\* Memory_Acess changes registers only.
LEMMA MemoryStep ==
  ASSUME NEW c \in Context, Filled(c)
  PROVE  Memory_Acess(c) \in Context /\ Quiet(c, Memory_Acess(c))
<1>1. CASE c.counter >= 3 /\ c.counterForEnd >= 2
  <2> DEFINE d == Stage(c, 3)
  <2>1. d \in Instruction_Data
    BY <1>1, StageTyped
  <2>2. /\ d.rt \in Register /\ d.imm \in 0 .. HALF - 1
        /\ d.op = "LW" => d.imm \in Address
    BY <2>1, Fields
  <2>3. d.imm \in Word /\ (d.op = "LW" => c.memory[d.imm] \in Word)
    BY <2>2, WordSize DEF Context
  <2>4. c.reg \in [Register -> Word]
    BY DEF Context
  <2>5. Memory_Acess(c) = [c EXCEPT !.reg = Loaded(c, d)]
    BY <1>1 DEF Memory_Acess
  <2> HIDE DEF d
  <2>6. Loaded(c, d) \in [Register -> Word]
    BY <2>2, <2>3, <2>4, WriteTyped DEF Loaded
  <2> QED BY <2>5, <2>6 DEF Context, Quiet, SameCounters
<1>2. CASE ~(c.counter >= 3 /\ c.counterForEnd >= 2)
  BY <1>2 DEF Memory_Acess, Quiet, SameCounters
<1> QED BY <1>1, <1>2
\* Execute changes registers, or the pc, or prints; a branch marks an entry.
LEMMA ExecuteStep ==
  ASSUME NEW c \in Context, Filled(c)
  PROVE  /\ Execute(c) \in Context
         /\ Quiet(c, Execute(c)) \/ Printed(c, Execute(c))
<1>1. CASE ~(c.counter >= 2 /\ c.counterForEnd >= 3)
  BY <1>1 DEF Execute, Quiet, SameCounters
<1>2. CASE c.counter >= 2 /\ c.counterForEnd >= 3
  <2> DEFINE d == Stage(c, 2)
  <2>1. d \in Instruction_Data
    BY <1>2, StageTyped
  <2>2. Execute(c) = ExecuteStage(c, d)
    BY <1>2 DEF Execute
  <2> HIDE DEF d
  <2>3. /\ d.rs \in Register /\ d.rt \in Register /\ d.rd \in Register
        /\ d.imm \in 0 .. HALF - 1
    BY <2>1, Fields
  <2>4. c.reg \in [Register -> Word] /\ c.reg[d.rs] \in Word /\ c.reg[d.rt] \in Word
    BY <2>3 DEF Context
  <2>5. CASE d.op \in ImmediateOps
    <3> DEFINE r == writeRegister(c.reg, d.rt, Immediate(d, c.reg[d.rs]))
    <3>1. r \in [Register -> Word]
      BY <2>1, <2>3, <2>4, <2>5, ImmediateWord, WriteTyped
    <3>2. Execute(c) = [c EXCEPT !.reg = r]
      BY <2>2, <2>5 DEF ExecuteStage, Execute_Immediate_Operation, ImmediateOps,
                        ArithmeticOps, LoopOps, CompareOps, Context
    <3> HIDE DEF r
    <3> QED BY <3>1, <3>2 DEF Context, Quiet, SameCounters
  <2>6. CASE d.op \in ArithmeticOps
    <3> DEFINE r == writeRegister(c.reg, d.rd,
                      calculate(d.op, c.reg[d.rs], c.reg[d.rt]).result)
    <3>1. r \in [Register -> Word]
      BY <2>3, <2>4, AluResult, WriteTyped
    <3>2. Execute(c) = [c EXCEPT !.reg = r]
      BY <2>2, <2>6 DEF ExecuteStage, Execute_Aritmetic_Operation, ImmediateOps,
                        ArithmeticOps, LoopOps, CompareOps, Context
    <3> HIDE DEF r
    <3> QED BY <3>1, <3>2 DEF Context, Quiet, SameCounters
  <2>7. CASE d.op \in LoopOps
    <3>1. Execute(c) = Execute_Loop_Operation(c, d)
      BY <2>2, <2>7 DEF ExecuteStage, ImmediateOps, ArithmeticOps, LoopOps, CompareOps
    <3>2. CASE ~Taken(d, c.reg)
      BY <3>1, <3>2 DEF Execute_Loop_Operation, Quiet, SameCounters
    <3>3. CASE Taken(d, c.reg)
      <4> DEFINE new == IF c.counter - 1 < Len(c.data)
                        THEN [c.data EXCEPT ![c.counter].op = "BUBBLE"] ELSE c.data
      <4>1. new \in Seq(Instruction_Data) /\ Len(new) = Len(c.data)
        <5>1. c.data \in Seq(Instruction_Data) /\ c.counter \in Nat
          BY DEF Context
        <5>2. CASE c.counter - 1 < Len(c.data)
          <6>1. c.counter \in 1 .. Len(c.data)
            BY <1>2, <5>1, <5>2
          <6> DEFINE b == [c.data[c.counter] EXCEPT !.op = "BUBBLE"]
          <6>2. b \in Instruction_Data
            BY <5>1, <6>1, Bubbles
          <6>3. new = [c.data EXCEPT ![c.counter] = b]
            BY <5>2
          <6> HIDE DEF b, new
          <6> QED BY <5>1, <6>1, <6>2, <6>3, Replaced
        <5> QED BY <5>1, <5>2
      <4>2. Target(d) \in Word
        BY <2>3, ExtendedWord, WordSize DEF Target
      <4>3. Execute(c) = [c EXCEPT !.pc = Target(d), !.ir = NOP, !.data = new]
        BY <3>1, <3>3 DEF Execute_Loop_Operation, Context
      <4> HIDE DEF new
      <4> QED BY <4>1, <4>2, <4>3, Bubbles DEF Context, Quiet, SameCounters
    <3> QED BY <3>2, <3>3
  <2>8. CASE d.op = "PRINT"
    <3> DEFINE out == Append(c.ioRequests, c.reg[d.rt])
    <3>1. out \in Seq(Word) /\ out # <<>>
      <4>1. c.ioRequests \in Seq(Word)
        BY DEF Context
      <4> QED BY <2>4, <4>1
    <3>2. Execute(c) = [c EXCEPT !.ioRequests = out, !.state = "Blocked", !.endExecution = TRUE]
      BY <2>2, <2>8 DEF ExecuteStage, Execute_Operation, ImmediateOps, ArithmeticOps,
                        LoopOps, CompareOps, Context
    <3> HIDE DEF out
    <3> QED BY <3>1, <3>2 DEF Context, Printed, SameCounters
  <2>9. CASE d.op \notin ImmediateOps \cup ArithmeticOps \cup LoopOps \cup {"PRINT"}
    <3>1. Execute(c) = c
      BY <2>2, <2>9 DEF ExecuteStage
    <3> QED BY <3>1 DEF Quiet, SameCounters
  <2> QED BY <2>5, <2>6, <2>7, <2>8, <2>9
<1> QED BY <1>1, <1>2

\* Decode changes the last entry, and may move the pc back.
LEMMA DecodeStep ==
  ASSUME NEW c \in Context, Filled(c)
  PROVE  Decode(c) \in Context /\ Quiet(c, Decode(c))
<1>1. CASE ~(c.counter >= 1 /\ c.counterForEnd >= 4)
  BY <1>1 DEF Decode, Quiet, SameCounters
<1>2. CASE c.counter >= 1 /\ c.counterForEnd >= 4
  <2>1. c.data \in Seq(Instruction_Data) /\ c.counter \in Nat
    BY DEF Context
  <2>2. c.counter \in 1 .. Len(c.data)
    <3>1. c.counter - 1 < Len(c.data)
      BY <1>2 DEF Filled
    <3> QED BY <1>2, <2>1, <3>1
  <2>3. c.ir \in Instruction_Data /\ [c.ir EXCEPT !.op = "BUBBLE"] \in Instruction_Data
    BY Bubbles DEF Context
  <2> DEFINE with(d) == [c.data EXCEPT ![c.counter] = d]
  <2>4. \A d \in Instruction_Data : with(d) \in Seq(Instruction_Data) /\ Len(with(d)) = Len(c.data)
    BY <2>1, <2>2
  <2>5. Moved(c.pc, WORD - 1) \in Word
    BY MovedTyped, WordSize DEF Context
  <2>6. CASE Hazard(c)
    <3> DEFINE new == with([c.ir EXCEPT !.op = "BUBBLE"])
               pc == Moved(c.pc, WORD - 1)
    <3>1. Decode(c) = [c EXCEPT !.data = new, !.pc = pc]
      BY <1>2, <2>6 DEF Decode, Context
    <3>2. new \in Seq(Instruction_Data) /\ Len(new) = Len(c.data)
      BY <2>3, <2>4
    <3>3. pc \in Word
      BY <2>5
    <3> HIDE DEF new, pc
    <3> QED BY <3>1, <3>2, <3>3 DEF Context, Quiet, SameCounters
  <2>7. CASE ~Hazard(c)
    <3> DEFINE new == with(c.ir)
    <3>1. Decode(c) = [c EXCEPT !.data = new]
      BY <1>2, <2>7 DEF Decode, Context
    <3>2. new \in Seq(Instruction_Data) /\ Len(new) = Len(c.data)
      BY <2>3, <2>4
    <3> HIDE DEF new
    <3> QED BY <3>1, <3>2 DEF Context, Quiet, SameCounters
  <2> QED BY <2>6, <2>7
<1> QED BY <1>1, <1>2
-----------------------------------------------------------------------------
(* The slice *)

\* While Core fetches, UC.data has one entry per cycle and nothing ended the
\* slice.
FetchInv ==
  context.counterForEnd = 5 =>
    /\ context.counter = Len(context.data) /\ context.counter < quantum
    /\ ~context.endExecution /\ ~context.endProgram

\* While it drains, the counter runs ahead of UC.data by the stages that
\* stopped, and only PRINT or END starts the drain before the quantum.
DrainInv ==
  context.counterForEnd \in 1 .. 4 =>
    /\ context.counter = Len(context.data) + 4 - context.counterForEnd
    /\ context.counter <= quantum + 4 - context.counterForEnd
    /\ context.endExecution
    /\ \/ context.endProgram \/ context.state = "Blocked"
       \/ context.counter = quantum + 4 - context.counterForEnd

\* While Core runs, the process is Blocked exactly if it printed.
StateInv ==
  /\ ~AtRest =>
       /\ context.state \in {"Running", "Blocked"}
       /\ context.state = "Blocked" <=> context.ioRequests # <<>>
  /\ AtRest /\ context.state # "Finished" => ~context.endProgram

PipelineInv ==
  PipelineTypeOK /\ FetchInv /\ DrainInv /\ StateInv /\ SliceLength /\ BlockedByPrint

\* The invariant says that every stage that runs has an instruction.
LEMMA InvFilled ==
  ASSUME PipelineInv
  PROVE  Filled(context)
<1>1. /\ context.counter \in Nat /\ context.counterForEnd \in 0 .. 5
      /\ Len(context.data) \in Nat
  BY DEF PipelineInv, PipelineTypeOK, Context
<1> SUFFICES ASSUME NEW n \in 1 .. 4, context.counter >= n, context.counterForEnd >= 5 - n
             PROVE  context.counter - n < Len(context.data)
  BY DEF Filled
<1>2. CASE context.counterForEnd = 5
  BY <1>1, <1>2 DEF PipelineInv, FetchInv
<1>3. CASE context.counterForEnd \in 1 .. 4
  <2> DEFINE counter == context.counter
             drain == context.counterForEnd
             fetched == Len(context.data)
  <2>1. counter = fetched + 4 - drain
    BY <1>3 DEF PipelineInv, DrainInv
  <2>2. counter \in Nat /\ drain \in 1 .. 4 /\ fetched \in Nat /\ drain >= 5 - n
    BY <1>1, <1>3
  <2> HIDE DEF counter, drain, fetched
  <2>3. counter - n < fetched
    BY <2>1, <2>2
  <2> QED BY <2>3 DEF counter, fetched
<1> QED BY <1>1, <1>2, <1>3

\* A program starts with the invariant.
LEMMA InitInv ==
  ASSUME PipelineInit
  PROVE  PipelineInv
<1>1. quantum \in Nat \ {0}
  BY InstructionsAssumption DEF PipelineInit
<1>2. context \in Context
  <2>1. /\ [r \in Register |-> 0] \in [Register -> Word]
        /\ InitialMemory \in [Address -> Word] /\ 0 \in Word
    BY InstructionsAssumption, WordSize
  <2> QED BY <2>1, Bubbles DEF PipelineInit, Context
<1> QED BY <1>1, <1>2 DEF PipelineInit, PipelineInv, PipelineTypeOK, FetchInv, DrainInv,
                          StateInv, SliceLength, BlockedByPrint, AtRest

\* Core begins with the invariant.
LEMMA StartInv ==
  ASSUME PipelineInv, Start
  PROVE  PipelineInv'
<1>1. quantum \in Nat \ {0} /\ quantum' = quantum /\ program' = program
  BY InstructionsAssumption DEF Start, PipelineInv, PipelineTypeOK
<1>2. context \in Context
  BY DEF PipelineInv, PipelineTypeOK
<1>3. context' \in Context
  <2> DEFINE none == <<>>
  <2>1. none \in Seq(Instruction_Data) /\ none \in Seq(Word)
    OBVIOUS
  <2>2. context' = [context EXCEPT !.state = "Running", !.ioRequests = none, !.data = none,
                                   !.counter = 0, !.counterForEnd = 5,
                                   !.endProgram = FALSE, !.endExecution = FALSE]
    BY DEF Start
  <2> HIDE DEF none
  <2> DEFINE begun(c, st, none1, none2, n, left, no) ==
        [c EXCEPT !.state = st, !.ioRequests = none1, !.data = none2, !.counter = n,
                  !.counterForEnd = left, !.endProgram = no, !.endExecution = no]
  <2>3. ASSUME NEW c \in Context, NEW st \in {"Ready", "Running", "Blocked", "Finished"},
               NEW none1 \in Seq(Word), NEW none2 \in Seq(Instruction_Data),
               NEW n \in Nat, NEW left \in 0 .. 5, NEW no \in BOOLEAN
        PROVE  begun(c, st, none1, none2, n, left, no) \in Context
    BY DEF Context
  <2>4. context' = begun(context, "Running", none, none, 0, 5, FALSE)
    BY <2>2
  <2> HIDE DEF begun
  <2>5. /\ "Running" \in {"Ready", "Running", "Blocked", "Finished"}
        /\ 0 \in Nat /\ 5 \in 0 .. 5 /\ FALSE \in BOOLEAN
    OBVIOUS
  <2> QED BY <1>2, <2>1, <2>3, <2>4, <2>5, Zenon
<1>4. /\ context'.counter = 0 /\ context'.counterForEnd = 5 /\ context'.data = <<>>
      /\ context'.ioRequests = <<>> /\ context'.state = "Running"
      /\ context'.endProgram = FALSE /\ context'.endExecution = FALSE
  BY <1>2 DEF Start, Context
<1> QED BY <1>1, <1>3, <1>4 DEF PipelineInv, PipelineTypeOK, FetchInv, DrainInv,
                                StateInv, SliceLength, BlockedByPrint, AtRest
-----------------------------------------------------------------------------
(* A cycle *)

\* Fetch adds one entry to UC.data, and only while nothing ended the slice.
LEMMA FetchStep ==
  ASSUME NEW c \in Context, program \in Programs
  PROVE  /\ Fetch(c) \in Context
         /\ Fetch(c).counter = c.counter /\ Fetch(c).counterForEnd = c.counterForEnd
         /\ Fetch(c).state = c.state /\ Fetch(c).ioRequests = c.ioRequests
         /\ Fetch(c).endExecution = c.endExecution
         /\ c.counterForEnd = 5 => Len(Fetch(c).data) = Len(c.data) + 1
         /\ c.counterForEnd # 5 => Fetch(c) = c
<1>1. CASE c.counterForEnd # 5
  BY <1>1 DEF Fetch
<1>2. CASE c.counterForEnd = 5
  <2> DEFINE instr == InstructionAt(program, c.pc)
             ends == EndsProgram(instr, c.pc)
             ended == c.endProgram \/ ends
             pc == IF ends THEN c.pc ELSE Moved(c.pc, 1)
             data == Append(c.data, NOP)
  <2>1. instr \in Instruction
    BY FetchedTyped DEF Context
  <2>2. pc \in Word
    BY MovedTyped DEF Context
  <2>3. data \in Seq(Instruction_Data) /\ Len(data) = Len(c.data) + 1
    <3>1. c.data \in Seq(Instruction_Data) /\ NOP \in Instruction_Data
      BY Bubbles DEF Context
    <3> QED BY <3>1
  <2>4. ended \in BOOLEAN
    BY DEF EndsProgram, Context
  <2>5. Fetch(c) = [c EXCEPT !.data = data, !.ir = instr, !.endProgram = ended, !.pc = pc]
    BY <1>2 DEF Fetch, Context
  <2> HIDE DEF instr, ends, ended, pc, data
  <2> QED BY <1>2, <2>1, <2>2, <2>3, <2>4, <2>5 DEF Context
<1> QED BY <1>1, <1>2

\* The stages of a cycle before Fetch.
Staged(c) == Decode(Execute(Memory_Acess(Write_Back(c))))

\* Together they keep the counters, and print or leave the state alone.
LEMMA StagedStep ==
  ASSUME NEW c \in Context, Filled(c)
  PROVE  /\ Staged(c) \in Context
         /\ Quiet(c, Staged(c)) \/ Printed(c, Staged(c))
<1> DEFINE w == Write_Back(c)
           m == Memory_Acess(w)
           e == Execute(m)
<1>1. w \in Context /\ Quiet(c, w)
  BY WriteBackStep
<1>2. Filled(w)
  BY <1>1 DEF Filled, Quiet, SameCounters
<1>3. m \in Context /\ Quiet(w, m)
  BY <1>1, <1>2, MemoryStep
<1>4. Filled(m)
  BY <1>2, <1>3 DEF Filled, Quiet, SameCounters
<1>5. e \in Context /\ (Quiet(m, e) \/ Printed(m, e))
  BY <1>3, <1>4, ExecuteStep
<1>6. Filled(e)
  BY <1>4, <1>5 DEF Filled, Quiet, Printed, SameCounters
<1>7. Decode(e) \in Context /\ Quiet(e, Decode(e))
  BY <1>5, <1>6, DecodeStep
<1>8. Staged(c) = Decode(e)
  BY DEF Staged
<1> HIDE DEF w, m, e
<1> QED BY <1>1, <1>3, <1>5, <1>7, <1>8 DEF Quiet, Printed, SameCounters

\* What Advance decides.
LEMMA AdvanceStep ==
  ASSUME NEW c \in Context, c.counterForEnd # 0, quantum \in Nat
  PROVE  /\ Advance(c) \in Context
         /\ Advance(c).data = c.data /\ Advance(c).ioRequests = c.ioRequests
         /\ Advance(c).endProgram = c.endProgram
         /\ Advance(c).counter = c.counter + 1
         /\ Advance(c).endExecution <=>
               (c.endExecution \/ c.counter + 1 >= quantum \/ c.endProgram)
         /\ Advance(c).counterForEnd =
               IF Advance(c).endExecution THEN c.counterForEnd - 1 ELSE c.counterForEnd
         /\ Advance(c).state = IF Advance(c).counterForEnd = 0 /\ c.endProgram
                               THEN "Finished" ELSE c.state
<1> DEFINE ending == c.endExecution \/ c.counter + 1 >= quantum \/ c.endProgram
           left == IF ending THEN c.counterForEnd - 1 ELSE c.counterForEnd
           st == IF left = 0 /\ c.endProgram THEN "Finished" ELSE c.state
           n == c.counter + 1
<1>1. Advance(c) = [c EXCEPT !.counter = n, !.endExecution = ending,
                             !.counterForEnd = left, !.state = st]
  BY DEF Advance, Context
<1>2. ending \in BOOLEAN
  BY DEF Context
<1>3. left \in 0 .. 5 /\ n \in Nat
  BY DEF Context
<1>4. st \in {"Ready", "Running", "Blocked", "Finished"}
  BY DEF Context
<1>5. Advance(c) \in Context
  <2> HIDE DEF ending, left, st, n
  <2> QED BY <1>1, <1>2, <1>3, <1>4 DEF Context
<1>6. /\ Advance(c).data = c.data /\ Advance(c).ioRequests = c.ioRequests
      /\ Advance(c).endProgram = c.endProgram /\ Advance(c).counter = n
      /\ Advance(c).endExecution = ending /\ Advance(c).counterForEnd = left
      /\ Advance(c).state = st
  <2> HIDE DEF ending, left, st, n
  <2> QED BY <1>1 DEF Context
<1> QED BY <1>5, <1>6
\* A cycle keeps the invariant.
LEMMA CycleInv ==
  ASSUME PipelineInv, Cycle
  PROVE  PipelineInv'
<1> DEFINE s == Staged(context)
           f == Fetch(s)
<1>1. /\ quantum \in Nat \ {0} /\ quantum' = quantum /\ program' = program
      /\ program \in Programs /\ context \in Context
  BY InstructionsAssumption DEF Cycle, PipelineInv, PipelineTypeOK
<1>2. s \in Context /\ (Quiet(context, s) \/ Printed(context, s))
  BY <1>1, InvFilled, StagedStep
<1>3. /\ f \in Context
      /\ f.counter = s.counter /\ f.counterForEnd = s.counterForEnd
      /\ f.state = s.state /\ f.ioRequests = s.ioRequests
      /\ f.endExecution = s.endExecution
      /\ s.counterForEnd = 5 => Len(f.data) = Len(s.data) + 1
      /\ s.counterForEnd # 5 => f = s
  BY <1>1, <1>2, FetchStep
<1>4. context' = Advance(f) /\ context.counterForEnd # 0
  BY DEF Cycle, AtRest, Staged
<1> HIDE DEF s, f
<1>5. f.counter = context.counter /\ f.counterForEnd = context.counterForEnd
  BY <1>2, <1>3 DEF Quiet, Printed, SameCounters
<1>6. /\ context' \in Context
      /\ context'.data = f.data /\ context'.ioRequests = f.ioRequests
      /\ context'.endProgram = f.endProgram
      /\ context'.counter = context.counter + 1
      /\ context'.endExecution <=>
            (f.endExecution \/ context.counter + 1 >= quantum \/ f.endProgram)
      /\ context'.counterForEnd = IF context'.endExecution THEN context.counterForEnd - 1
                                  ELSE context.counterForEnd
      /\ context'.state = IF context'.counterForEnd = 0 /\ f.endProgram
                          THEN "Finished" ELSE f.state
  BY <1>1, <1>3, <1>4, <1>5, AdvanceStep
<1>7. /\ context.counter \in Nat /\ context.counterForEnd \in 1 .. 5
      /\ context'.counter \in Nat /\ context'.counterForEnd \in 0 .. 5
      /\ Len(context.data) \in Nat /\ Len(context'.data) \in Nat
  BY <1>1, <1>4, <1>6 DEF Context
\* The state and the output of the context before Advance.
<1>8. /\ f.state \in {"Running", "Blocked"}
      /\ f.state = "Blocked" <=> f.ioRequests # <<>>
      /\ f.state = "Blocked" \/ f.state = context.state
      /\ f.endExecution <=> (context.endExecution \/ (f.endExecution /\ f.state = "Blocked"))
  BY <1>2, <1>3, <1>4 DEF PipelineInv, StateInv, AtRest, Quiet, Printed, SameCounters
<1>9. PipelineTypeOK'
  BY <1>1, <1>6 DEF PipelineInv, PipelineTypeOK
<1>10. context.counterForEnd # 5 =>
         Len(f.data) = Len(context.data) /\ f.endProgram = context.endProgram
  BY <1>2, <1>3, <1>5 DEF Quiet, Printed, SameCounters
<1>11. context.counterForEnd = 5 => Len(f.data) = Len(context.data) + 1
  BY <1>2, <1>3 DEF Quiet, Printed, SameCounters
<1>12. FetchInv'
  BY <1>1, <1>6, <1>7, <1>11 DEF PipelineInv, FetchInv
<1>13. context.counterForEnd \in 1 .. 4 => context'.endExecution
  BY <1>6, <1>8 DEF PipelineInv, DrainInv
<1>14. DrainInv'
  <2> SUFFICES ASSUME context'.counterForEnd \in 1 .. 4
               PROVE  /\ context'.counter = Len(context'.data) + 4 - context'.counterForEnd
                      /\ context'.counter <= quantum + 4 - context'.counterForEnd
                      /\ context'.endExecution
                      /\ \/ context'.endProgram \/ context'.state = "Blocked"
                         \/ context'.counter = quantum + 4 - context'.counterForEnd
    BY <1>1 DEF DrainInv
  <2>1. context'.state = f.state /\ Len(context'.data) = Len(f.data)
    BY <1>6
  <2>2. CASE context.counterForEnd = 5
    <3>1. /\ context.counter = Len(context.data) /\ context.counter < quantum
          /\ ~context.endExecution
      BY <2>2 DEF PipelineInv, FetchInv
    <3>2. context'.endExecution /\ context'.counterForEnd = 4
      BY <1>6, <2>2
    <3>3. f.endProgram \/ f.state = "Blocked" \/ context.counter + 1 >= quantum
      BY <1>6, <1>8, <3>1, <3>2
    <3> QED BY <1>1, <1>6, <1>7, <1>11, <2>1, <2>2, <3>1, <3>2, <3>3
  <2>3. CASE context.counterForEnd \in 1 .. 4
    <3>1. /\ context.counter = Len(context.data) + 4 - context.counterForEnd
          /\ context.counter <= quantum + 4 - context.counterForEnd
          /\ \/ context.endProgram \/ context.state = "Blocked"
             \/ context.counter = quantum + 4 - context.counterForEnd
      BY <2>3 DEF PipelineInv, DrainInv
    <3>2. context'.endExecution
      BY <1>13, <2>3
    <3>3. context'.counterForEnd = context.counterForEnd - 1
      BY <1>6, <3>2
    <3>4. Len(f.data) = Len(context.data) /\ f.endProgram = context.endProgram
      BY <1>10, <2>3
    <3>5. context.state = "Blocked" => f.state = "Blocked"
      BY <1>8
    <3>6. \/ context'.endProgram \/ context'.state = "Blocked"
          \/ context'.counter = quantum + 4 - context'.counterForEnd
      BY <1>1, <1>6, <1>7, <2>1, <3>1, <3>3, <3>4, <3>5
    <3>7. context'.counter = Len(context'.data) + 4 - context'.counterForEnd
      BY <1>6, <1>7, <2>1, <3>1, <3>3, <3>4
    <3>8. context'.counter <= quantum + 4 - context'.counterForEnd
      BY <1>1, <1>6, <1>7, <3>1, <3>3
    <3> QED BY <3>2, <3>6, <3>7, <3>8
  <2> QED BY <1>7, <2>2, <2>3
<1>15. StateInv'
  BY <1>6, <1>8 DEF PipelineInv, StateInv, AtRest
<1>16. SliceLength'
  <2>1. CASE context.counterForEnd = 5
    BY <1>1, <1>6, <1>7, <2>1 DEF PipelineInv, FetchInv, SliceLength, AtRest
  <2>2. CASE context.counterForEnd \in 1 .. 4
    <3>1. /\ context.counter <= quantum + 4 - context.counterForEnd
          /\ \/ context.endProgram \/ context.state = "Blocked"
             \/ context.counter = quantum + 4 - context.counterForEnd
      BY <2>2 DEF PipelineInv, DrainInv
    <3>2. context'.counterForEnd = context.counterForEnd - 1
      BY <1>6, <1>13, <2>2
    <3>3. context'.counter <= quantum + 4
      BY <1>1, <1>6, <1>7, <3>1
    <3>4. context'.counterForEnd = 0 /\ context'.state = "Running" =>
             ~f.endProgram /\ context.state = "Running"
      BY <1>6, <1>8
    <3>5. f.endProgram = context.endProgram
      BY <1>10, <2>2
    <3>6. context'.counterForEnd = 0 /\ context'.state = "Running" =>
             context'.counter = quantum + 4
      BY <1>1, <1>6, <1>7, <3>1, <3>2, <3>4, <3>5
    <3> QED BY <1>1, <3>3, <3>6 DEF SliceLength, AtRest
  <2> QED BY <1>7, <2>1, <2>2
<1>17. BlockedByPrint'
  BY <1>6, <1>8 DEF BlockedByPrint, AtRest
<1> QED BY <1>9, <1>12, <1>14, <1>15, <1>16, <1>17 DEF PipelineInv

-----------------------------------------------------------------------------
(* Theorems *)

\* PipelineInv holds of every run of every program, with any quantum.
THEOREM PipelineInvariance == PipelineSpec => []PipelineInv
<1>1. PipelineInit => PipelineInv
  BY InitInv
<1>2. PipelineInv /\ [PipelineNext]_pipelineVars => PipelineInv'
  <2> SUFFICES ASSUME PipelineInv, [PipelineNext]_pipelineVars PROVE PipelineInv'
    OBVIOUS
  <2>1. CASE Start
    BY <2>1, StartInv
  <2>2. CASE Cycle
    BY <2>2, CycleInv
  <2>3. CASE Done \/ UNCHANGED pipelineVars
    BY <2>3 DEF Done, pipelineVars, PipelineInv, PipelineTypeOK, FetchInv, DrainInv,
                StateInv, SliceLength, BlockedByPrint, AtRest
  <2> QED BY <2>1, <2>2, <2>3 DEF PipelineNext
<1> QED BY <1>1, <1>2, PTL DEF PipelineSpec

\* The context of Core keeps its type: registers and memory hold words.
THEOREM ContextTyped == PipelineSpec => []PipelineTypeOK
<1>1. PipelineInv => PipelineTypeOK
  BY DEF PipelineInv
<1> QED BY <1>1, PipelineInvariance, PTL

\* No stage of Core indexes UC.data past its end (CONTROL_UNIT.cpp:429-441).
THEOREM NoStageOutside == PipelineSpec => []StagesInData
<1>1. PipelineInv => StagesInData
  BY InvFilled DEF Filled, StagesInData
<1> QED BY <1>1, PipelineInvariance, PTL

\* A slice is the quantum and a drain of four cycles, unless PRINT or END
\* ends it earlier.
THEOREM SliceBounded == PipelineSpec => []SliceLength
<1>1. PipelineInv => SliceLength
  BY DEF PipelineInv
<1> QED BY <1>1, PipelineInvariance, PTL

\* A slice leaves its process Blocked exactly when it printed and did not end.
THEOREM BlockedExactly == PipelineSpec => []BlockedByPrint
<1>1. PipelineInv => BlockedByPrint
  BY DEF PipelineInv
<1> QED BY <1>1, PipelineInvariance, PTL

-----------------------------------------------------------------------------
(* What a cycle does with the instructions in the stages *)

\* The instruction n stages behind Fetch when a cycle begins.
Entry(c, n) == IF c.counter >= n /\ c.counterForEnd >= 5 - n THEN Stage(c, n) ELSE NOP

\* What an instruction does in Execute, Memory_Acess and Write_Back.
ComputedBy(d, reg) ==
  CASE d.op \in ImmediateOps -> writeRegister(reg, d.rt, Immediate(d, reg[d.rs]))
    [] d.op \in ArithmeticOps ->
         writeRegister(reg, d.rd, calculate(d.op, reg[d.rs], reg[d.rt]).result)
    [] OTHER -> reg

LoadedBy(d, reg, memory) ==
  CASE d.op = "LW" -> writeRegister(reg, d.rt, memory[d.imm])
    [] d.op = "LI" -> writeRegister(reg, d.rt, d.imm)
    [] OTHER -> reg

StoredBy(d, reg, memory) ==
  IF d.op = "SW" THEN [memory EXCEPT ![d.imm] = reg[d.rt]] ELSE memory

PrintedBy(d, reg, out) == IF d.op = "PRINT" THEN Append(out, reg[d.rt]) ELSE out

\* The memory and the registers as Execute finds them.
MemoryAtExecute(c) == StoredBy(Entry(c, 4), c.reg, c.memory)
RegAtExecute(c) == LoadedBy(Entry(c, 3), c.reg, MemoryAtExecute(c))

\* The instruction in Execute leaves the program's order.
Branches(c) == Taken(Entry(c, 2), RegAtExecute(c))

\* The stages that hold no instruction do nothing.
LEMMA IdleStage ==
  ASSUME NEW d, d.op = "" \/ d.op = "BUBBLE" \/ d.op = "END",
         NEW reg, NEW memory, NEW out
  PROVE  /\ ComputedBy(d, reg) = reg /\ ~Taken(d, reg)
         /\ LoadedBy(d, reg, memory) = reg /\ StoredBy(d, reg, memory) = memory
         /\ PrintedBy(d, reg, out) = out
         /\ ExecuteWrites(d) = {} /\ Reads(d) = {} /\ d.op \notin LoopOps
  BY DEF ComputedBy, Taken, LoadedBy, StoredBy, PrintedBy, ExecuteWrites, Reads,
         ImmediateOps, ArithmeticOps, LoopOps, CompareOps

\* The word 0 names no operation.
LEMMA NopOp == NOP.op = ""
  BY DEF NOP

\* Every entry is an instruction: the first that has not come is NOP.
LEMMA EntryTyped ==
  ASSUME NEW c \in Context, Filled(c), NEW n \in 1 .. 4
  PROVE  Entry(c, n) \in Instruction_Data
  BY StageTyped, Bubbles DEF Entry

\* Stages that leave the counters and UC.data alone leave the entries alone.
LEMMA SameEntries ==
  ASSUME NEW c, NEW d, SameCounters(c, d), d.data = c.data, NEW n
  PROVE  Entry(d, n) = Entry(c, n)
  BY DEF SameCounters, Entry, Stage

\* Write_Back carries out the store that is four stages behind Fetch.
LEMMA WriteBackEffect ==
  ASSUME NEW c \in Context, Filled(c)
  PROVE  /\ Write_Back(c).memory = MemoryAtExecute(c)
         /\ Write_Back(c).reg = c.reg /\ Write_Back(c).pc = c.pc
         /\ Write_Back(c).ir = c.ir /\ Write_Back(c).data = c.data
<1> DEFINE e == Entry(c, 4)
<1>1. c.counter \in Nat /\ c.counterForEnd \in 0 .. 5
  BY DEF Context
<1>2. CASE c.counter >= 4 /\ c.counterForEnd >= 1 /\ Stage(c, 4).op = "SW"
  <2> DEFINE new == [c.memory EXCEPT ![e.imm] = c.reg[e.rt]]
  <2>1. e = Stage(c, 4)
    BY <1>1, <1>2 DEF Entry
  <2>2. Write_Back(c) = [c EXCEPT !.memory = new]
    BY <1>2, <2>1 DEF Write_Back, Context
  <2>3. MemoryAtExecute(c) = new
    BY <1>2, <2>1 DEF MemoryAtExecute, StoredBy
  <2> HIDE DEF new
  <2> QED BY <2>2, <2>3 DEF Context
<1>3. CASE ~(c.counter >= 4 /\ c.counterForEnd >= 1 /\ Stage(c, 4).op = "SW")
  <2>1. e.op # "SW"
    <3>1. e = NOP \/ e = Stage(c, 4)
      BY DEF Entry
    <3>2. e = Stage(c, 4) => (c.counter >= 4 /\ c.counterForEnd >= 1) \/ e = NOP
      BY <1>1 DEF Entry
    <3> QED BY <1>3, <3>1, <3>2, NopOp
  <2>2. MemoryAtExecute(c) = c.memory
    BY <2>1 DEF MemoryAtExecute, StoredBy
  <2> QED BY <1>3, <2>2 DEF Write_Back
<1> QED BY <1>2, <1>3

\* Memory_Acess carries out the load that is three stages behind Fetch.
LEMMA MemoryEffect ==
  ASSUME NEW c \in Context, Filled(c)
  PROVE  /\ Memory_Acess(c).reg = LoadedBy(Entry(c, 3), c.reg, c.memory)
         /\ Memory_Acess(c).memory = c.memory /\ Memory_Acess(c).pc = c.pc
         /\ Memory_Acess(c).ir = c.ir /\ Memory_Acess(c).data = c.data
<1>1. c.counter \in Nat /\ c.counterForEnd \in 0 .. 5
  BY DEF Context
<1>2. CASE c.counter >= 3 /\ c.counterForEnd >= 2
  <2>1. Entry(c, 3) = Stage(c, 3)
    BY <1>1, <1>2 DEF Entry
  <2> DEFINE new == LoadedBy(Entry(c, 3), c.reg, c.memory)
  <2>2. Memory_Acess(c) = [c EXCEPT !.reg = new]
    BY <1>2, <2>1 DEF Memory_Acess, Loaded, LoadedBy
  <2> HIDE DEF new
  <2> QED BY <2>2 DEF Context, new
<1>3. CASE ~(c.counter >= 3 /\ c.counterForEnd >= 2)
  <2>1. Entry(c, 3) = NOP
    BY <1>1, <1>3 DEF Entry
  <2>2. LoadedBy(NOP, c.reg, c.memory) = c.reg
    BY NopOp DEF LoadedBy
  <2> QED BY <1>3, <2>1, <2>2 DEF Memory_Acess
<1> QED BY <1>2, <1>3

\* What Execute leaves of a context in which it holds d.
Executes(d, c, x) ==
  /\ x.reg = ComputedBy(d, c.reg) /\ x.memory = c.memory
  /\ x.ioRequests = PrintedBy(d, c.reg, c.ioRequests)
  /\ x.pc = IF Taken(d, c.reg) THEN Target(d) ELSE c.pc
  /\ x.ir = IF Taken(d, c.reg) THEN NOP ELSE c.ir
  /\ Len(x.data) = Len(c.data)
  /\ \A i \in 1 .. Len(c.data) : i # c.counter => x.data[i] = c.data[i]

\* Execute carries out the instruction that is two stages behind Fetch.
LEMMA ExecuteEffect ==
  ASSUME NEW c \in Context, Filled(c)
  PROVE  Executes(Entry(c, 2), c, Execute(c))
<1>1. c.counter \in Nat /\ c.counterForEnd \in 0 .. 5 /\ c.data \in Seq(Instruction_Data)
  BY DEF Context
<1> DEFINE d == Entry(c, 2)
<1> SUFFICES Executes(d, c, Execute(c))
  OBVIOUS
<1>2. CASE ~(c.counter >= 2 /\ c.counterForEnd >= 3)
  <2>1. d = NOP
    BY <1>1, <1>2 DEF Entry
  <2>2. Executes(NOP, c, c)
    BY NopOp, IdleStage DEF Executes
  <2> QED BY <1>2, <2>1, <2>2 DEF Execute
<1>3. CASE c.counter >= 2 /\ c.counterForEnd >= 3
  <2>1. Execute(c) = ExecuteStage(c, d)
    BY <1>1, <1>3 DEF Execute, Entry
  <2> HIDE DEF d
  <2> USE DEF ImmediateOps, ArithmeticOps, LoopOps, CompareOps
  <2>2. CASE d.op \in ImmediateOps
    <3> DEFINE r == ComputedBy(d, c.reg)
    <3>1. Execute(c) = [c EXCEPT !.reg = r]
      BY <2>1, <2>2 DEF ExecuteStage, Execute_Immediate_Operation, ComputedBy, Context
    <3>2. ~Taken(d, c.reg) /\ PrintedBy(d, c.reg, c.ioRequests) = c.ioRequests
      BY <2>2 DEF Taken, PrintedBy
    <3> HIDE DEF r
    <3> QED BY <3>1, <3>2 DEF Executes, Context, r
  <2>3. CASE d.op \in ArithmeticOps
    <3> DEFINE r == ComputedBy(d, c.reg)
    <3>1. Execute(c) = [c EXCEPT !.reg = r]
      BY <2>1, <2>3 DEF ExecuteStage, Execute_Aritmetic_Operation, ComputedBy, Context
    <3>2. ~Taken(d, c.reg) /\ PrintedBy(d, c.reg, c.ioRequests) = c.ioRequests
      BY <2>3 DEF Taken, PrintedBy
    <3> HIDE DEF r
    <3> QED BY <3>1, <3>2 DEF Executes, Context, r
  <2>4. CASE d.op \in LoopOps
    <3>1. Execute(c) = Execute_Loop_Operation(c, d)
      BY <2>1, <2>4 DEF ExecuteStage
    <3>2. ComputedBy(d, c.reg) = c.reg /\ PrintedBy(d, c.reg, c.ioRequests) = c.ioRequests
      BY <2>4 DEF ComputedBy, PrintedBy
    <3>3. CASE ~Taken(d, c.reg)
      BY <3>1, <3>2, <3>3 DEF Execute_Loop_Operation, Executes
    <3>4. CASE Taken(d, c.reg)
      <4> DEFINE new == IF c.counter - 1 < Len(c.data)
                        THEN [c.data EXCEPT ![c.counter].op = "BUBBLE"] ELSE c.data
      <4>1. /\ Len(new) = Len(c.data)
            /\ \A i \in 1 .. Len(c.data) : i # c.counter => new[i] = c.data[i]
        BY <1>1
      <4>2. Execute(c) = [c EXCEPT !.pc = Target(d), !.ir = NOP, !.data = new]
        BY <3>1, <3>4 DEF Execute_Loop_Operation, Context
      <4> HIDE DEF new
      <4> QED BY <3>2, <3>4, <4>1, <4>2 DEF Executes, Context
    <3> QED BY <3>3, <3>4
  <2>5. CASE d.op = "PRINT"
    <3> DEFINE out == PrintedBy(d, c.reg, c.ioRequests)
    <3>1. Execute(c) = [c EXCEPT !.ioRequests = out, !.state = "Blocked", !.endExecution = TRUE]
      BY <2>1, <2>5 DEF ExecuteStage, Execute_Operation, PrintedBy, Context
    <3>2. ComputedBy(d, c.reg) = c.reg /\ ~Taken(d, c.reg)
      BY <2>5 DEF ComputedBy, Taken
    <3> HIDE DEF out
    <3> QED BY <3>1, <3>2 DEF Executes, Context, out
  <2>6. CASE d.op \notin ImmediateOps \cup ArithmeticOps \cup LoopOps \cup {"PRINT"}
    <3>1. Execute(c) = c
      BY <2>1, <2>6 DEF ExecuteStage
    <3>2. /\ ComputedBy(d, c.reg) = c.reg /\ ~Taken(d, c.reg)
          /\ PrintedBy(d, c.reg, c.ioRequests) = c.ioRequests
      BY <2>6 DEF ComputedBy, Taken, PrintedBy
    <3> QED BY <3>1, <3>2 DEF Executes
  <2> QED BY <2>2, <2>3, <2>4, <2>5, <2>6
<1> QED BY <1>2, <1>3

\* Decode writes the instruction it holds to UC.data, or a bubble and moves
\* the pc back.
Decodes(c, x, bubble) ==
  /\ x.reg = c.reg /\ x.memory = c.memory /\ x.ir = c.ir
  /\ x.pc = IF bubble THEN Moved(c.pc, WORD - 1) ELSE c.pc
  /\ \A i \in 1 .. Len(c.data) : i # c.counter => x.data[i] = c.data[i]
  /\ c.counter >= 1 /\ c.counterForEnd >= 4 =>
        x.data[c.counter] = IF bubble THEN [c.ir EXCEPT !.op = "BUBBLE"] ELSE c.ir

\* Only an instruction that reads a register is held back, and not the first.
LEMMA DecodeEffect ==
  ASSUME NEW c \in Context, Filled(c)
  PROVE  \E bubble \in BOOLEAN :
            /\ Decodes(c, Decode(c), bubble)
            /\ bubble => /\ c.counter >= 1 /\ c.counterForEnd >= 4
                         /\ Reads(c.ir) # {} /\ Len(c.data) > 1
<1>1. c.counter \in Nat /\ c.counterForEnd \in 0 .. 5 /\ c.data \in Seq(Instruction_Data)
  BY DEF Context
<1>2. CASE ~(c.counter >= 1 /\ c.counterForEnd >= 4)
  <2>1. Decodes(c, Decode(c), FALSE)
    BY <1>2 DEF Decode, Decodes
  <2> QED BY <2>1
<1>3. CASE c.counter >= 1 /\ c.counterForEnd >= 4
  <2>1. c.counter \in 1 .. Len(c.data)
    <3>1. c.counter - 1 < Len(c.data)
      BY <1>3 DEF Filled
    <3> QED BY <1>1, <1>3, <3>1
  <2> DEFINE with(d) == [c.data EXCEPT ![c.counter] = d]
  <2>2. ASSUME NEW d
        PROVE  /\ with(d)[c.counter] = d
               /\ \A i \in 1 .. Len(c.data) : i # c.counter => with(d)[i] = c.data[i]
    BY <1>1, <2>1
  <2>3. CASE Hazard(c)
    <3> DEFINE b == [c.ir EXCEPT !.op = "BUBBLE"]
               pc == Moved(c.pc, WORD - 1)
               new == with(b)
    <3>1. Decode(c) = [c EXCEPT !.data = new, !.pc = pc]
      BY <1>3, <2>3 DEF Decode, Context
    <3>2. /\ new[c.counter] = b
          /\ \A i \in 1 .. Len(c.data) : i # c.counter => new[i] = c.data[i]
      BY <2>2
    <3>3. Decodes(c, Decode(c), TRUE)
      <4> HIDE DEF new
      <4> SUFFICES /\ Decode(c).reg = c.reg /\ Decode(c).memory = c.memory
                   /\ Decode(c).ir = c.ir /\ Decode(c).pc = pc /\ Decode(c).data = new
        BY <3>2 DEF Decodes
      <4> HIDE DEF pc
      <4> QED BY <3>1 DEF Context
    <3>4. PICK n \in {1, 2} :
             /\ Len(c.data) > n
             /\ get_dest_reg_for_hazard(c.data[Len(c.data) - n]) \cap Reads(c.ir) # {}
      BY <2>3 DEF Hazard
    <3>5. Len(c.data) > 1 /\ Reads(c.ir) # {}
      BY <1>1, <3>4
    <3> QED BY <1>3, <3>3, <3>5
  <2>4. CASE ~Hazard(c)
    <3> DEFINE ir == c.ir
               new == with(ir)
    <3>1. Decode(c) = [c EXCEPT !.data = new]
      BY <1>3, <2>4 DEF Decode, Context
    <3>2. /\ new[c.counter] = ir
          /\ \A i \in 1 .. Len(c.data) : i # c.counter => new[i] = c.data[i]
      BY <2>2
    <3>3. Decodes(c, Decode(c), FALSE)
      <4> HIDE DEF new
      <4> QED BY <3>1, <3>2 DEF Context, Decodes
    <3> QED BY <3>3
  <2> QED BY <2>3, <2>4
<1> QED BY <1>2, <1>3

\* Fetch reads the instruction at the pc, behind those already there.
LEMMA FetchEffect ==
  ASSUME NEW c \in Context, program \in Programs
  PROVE  /\ Fetch(c).reg = c.reg /\ Fetch(c).memory = c.memory
         /\ \A i \in 1 .. Len(c.data) : Fetch(c).data[i] = c.data[i]
         /\ c.counterForEnd = 5 =>
              LET i == InstructionAt(program, c.pc)
              IN /\ Fetch(c).ir = i
                 /\ Fetch(c).pc = IF EndsProgram(i, c.pc) THEN c.pc ELSE Moved(c.pc, 1)
                 /\ Fetch(c).endProgram <=> (c.endProgram \/ EndsProgram(i, c.pc))
<1>1. CASE c.counterForEnd # 5
  BY <1>1 DEF Fetch
<1>2. CASE c.counterForEnd = 5
  <2> DEFINE instr == InstructionAt(program, c.pc)
             ended == c.endProgram \/ EndsProgram(instr, c.pc)
             pc == IF EndsProgram(instr, c.pc) THEN c.pc ELSE Moved(c.pc, 1)
             data == Append(c.data, NOP)
  <2>1. Fetch(c) = [c EXCEPT !.data = data, !.ir = instr, !.endProgram = ended, !.pc = pc]
    BY <1>2 DEF Fetch, Context
  <2>2. \A i \in 1 .. Len(c.data) : data[i] = c.data[i]
    <3>1. c.data \in Seq(Instruction_Data)
      BY DEF Context
    <3> QED BY <3>1
  <2>3. /\ Fetch(c).reg = c.reg /\ Fetch(c).memory = c.memory /\ Fetch(c).data = data
        /\ Fetch(c).ir = instr /\ Fetch(c).pc = pc /\ Fetch(c).endProgram = ended
    <3> HIDE DEF instr, ended, pc, data
    <3> QED BY <2>1 DEF Context
  <2> HIDE DEF data
  <2> QED BY <1>2, <2>2, <2>3
<1> QED BY <1>1, <1>2

\* The end of a cycle leaves the registers, the memory and the pc alone.
LEMMA AdvanceEffect ==
  ASSUME NEW c \in Context
  PROVE  /\ Advance(c).reg = c.reg /\ Advance(c).memory = c.memory
         /\ Advance(c).pc = c.pc /\ Advance(c).ir = c.ir
<1> DEFINE ending == c.endExecution \/ c.counter + 1 >= quantum \/ c.endProgram
           left == IF ending THEN c.counterForEnd - 1 ELSE c.counterForEnd
           st == IF left = 0 /\ c.endProgram THEN "Finished" ELSE c.state
           n == c.counter + 1
<1>1. Advance(c) = [c EXCEPT !.counter = n, !.endExecution = ending,
                             !.counterForEnd = left, !.state = st]
  BY DEF Advance, Context
<1> HIDE DEF ending, left, st, n
<1> QED BY <1>1 DEF Context

\* What Decode finds after Execute: a branch taken leaves it nothing.
IrAtDecode(c) == IF Branches(c) THEN NOP ELSE c.ir
PcAtDecode(c) == IF Branches(c) THEN Target(Entry(c, 2)) ELSE c.pc

\* The pc that Fetch finds.
PcAtFetch(c, bubble) == IF bubble THEN Moved(PcAtDecode(c), WORD - 1) ELSE PcAtDecode(c)

\* The data of the context after a cycle, the entries of UC.data, and the
\* control: the pc, ir and endProgram.
DataCycles(c, x) ==
  /\ x.memory = MemoryAtExecute(c)
  /\ x.reg = ComputedBy(Entry(c, 2), RegAtExecute(c))
  /\ x.ioRequests = PrintedBy(Entry(c, 2), RegAtExecute(c), c.ioRequests)

EntriesCycle(c, x, bubble) ==
  /\ Entry(x, 4) = Entry(c, 3) /\ Entry(x, 3) = Entry(c, 2)
  /\ c.counter >= 1 /\ c.counterForEnd >= 4 =>
       Entry(x, 2) = IF bubble THEN [IrAtDecode(c) EXCEPT !.op = "BUBBLE"] ELSE IrAtDecode(c)
  /\ ~(c.counter >= 1 /\ c.counterForEnd >= 4) => Entry(x, 2) = NOP

ControlCycles(p, c, x, bubble) ==
  LET pc == PcAtFetch(c, bubble)
      i == InstructionAt(p, pc)
  IN /\ c.counterForEnd = 5 =>
          /\ x.ir = i /\ x.pc = IF EndsProgram(i, pc) THEN pc ELSE Moved(pc, 1)
          /\ x.endProgram <=> EndsProgram(i, pc)
     /\ c.counterForEnd # 5 => x.pc = pc /\ x.endProgram = c.endProgram

CountersCycle(c, x) ==
  /\ x.counter = c.counter + 1
  /\ x.counterForEnd = c.counterForEnd - 1 \/ (x.counterForEnd = 5 /\ c.counterForEnd = 5)

\* Decode holds an instruction back only if it reads a register, and not the
\* first of the slice.
MayHoldBack(c) ==
  c.counter > 1 /\ c.counterForEnd >= 4 /\ Reads(IrAtDecode(c)) # {}

\* A cycle, stage by stage.
LEMMA CycleEffect ==
  ASSUME PipelineInv, Cycle
  PROVE  \E bubble \in BOOLEAN :
            /\ CountersCycle(context, context')
            /\ DataCycles(context, context')
            /\ EntriesCycle(context, context', bubble)
            /\ ControlCycles(program, context, context', bubble)
            /\ bubble => MayHoldBack(context)
<1> DEFINE c == context
           w == Write_Back(c)
           m == Memory_Acess(w)
           x == Execute(m)
           y == Decode(x)
           f == Fetch(y)
           e == Entry(c, 2)
<1>1. program \in Programs /\ c \in Context /\ Filled(c) /\ c.counterForEnd # 0
  BY InvFilled DEF PipelineInv, PipelineTypeOK, Cycle, AtRest
<1>2. /\ w \in Context /\ Filled(w) /\ Quiet(c, w)
      /\ w.memory = MemoryAtExecute(c) /\ w.reg = c.reg /\ w.pc = c.pc
      /\ w.ir = c.ir /\ w.data = c.data
  <2>1. w \in Context /\ Quiet(c, w)
    BY <1>1, WriteBackStep
  <2> QED BY <1>1, <2>1, WriteBackEffect DEF Quiet, SameCounters, Filled
<1>3. /\ m \in Context /\ Filled(m) /\ Quiet(w, m)
      /\ m.reg = RegAtExecute(c) /\ m.memory = w.memory /\ m.pc = w.pc
      /\ m.ir = w.ir /\ m.data = w.data
  <2>1. m \in Context /\ Quiet(w, m)
    BY <1>2, MemoryStep
  <2>2. Entry(w, 3) = Entry(c, 3)
    BY <1>2, SameEntries DEF Quiet
  <2>3. Filled(m)
    BY <1>2, <2>1 DEF Quiet, SameCounters, Filled
  <2>4. m.reg = LoadedBy(Entry(w, 3), w.reg, w.memory)
    BY <1>2, MemoryEffect
  <2>5. m.reg = RegAtExecute(c)
    BY <1>2, <2>2, <2>4 DEF RegAtExecute
  <2> QED BY <1>2, <2>1, <2>3, <2>5, MemoryEffect
<1>4. /\ x \in Context /\ Filled(x) /\ Executes(e, m, x)
      /\ x.counter = c.counter /\ x.counterForEnd = c.counterForEnd
      /\ x.endProgram = c.endProgram /\ Len(x.data) = Len(c.data)
      /\ c.endExecution => x.endExecution
  <2>1. x \in Context /\ (Quiet(m, x) \/ Printed(m, x))
    BY <1>3, ExecuteStep
  <2>2. Entry(m, 2) = e
    <3>1. SameCounters(c, m) /\ m.data = c.data
      BY <1>2, <1>3 DEF Quiet, SameCounters
    <3> QED BY <3>1, SameEntries
  <2>3. Executes(Entry(m, 2), m, x)
    BY <1>3, ExecuteEffect
  <2> QED BY <1>2, <1>3, <2>1, <2>2, <2>3 DEF Quiet, Printed, SameCounters, Filled
<1>5. y \in Context /\ Quiet(x, y)
  BY <1>4, DecodeStep
<1>6. PICK bubble \in BOOLEAN :
         /\ Decodes(x, y, bubble)
         /\ bubble => /\ x.counter >= 1 /\ x.counterForEnd >= 4
                      /\ Reads(x.ir) # {} /\ Len(x.data) > 1
  BY <1>4, DecodeEffect
<1>7. /\ f \in Context /\ f.counter = y.counter /\ f.counterForEnd = y.counterForEnd
      /\ f.ioRequests = y.ioRequests /\ f.endExecution = y.endExecution
      /\ y.counterForEnd # 5 => f = y
      /\ f.reg = y.reg /\ f.memory = y.memory
      /\ \A i \in 1 .. Len(y.data) : f.data[i] = y.data[i]
      /\ y.counterForEnd = 5 =>
              LET i == InstructionAt(program, y.pc)
              IN /\ f.ir = i
                 /\ f.pc = IF EndsProgram(i, y.pc) THEN y.pc ELSE Moved(y.pc, 1)
                 /\ f.endProgram <=> (y.endProgram \/ EndsProgram(i, y.pc))
  BY <1>1, <1>5, FetchStep, FetchEffect
<1>8. context' = Advance(f)
  BY DEF Cycle
<1> DEFINE z == Advance(f)
<1>9. /\ z \in Context /\ z.data = f.data /\ z.ioRequests = f.ioRequests
      /\ z.endProgram = f.endProgram /\ z.counter = f.counter + 1
      /\ z.counterForEnd = IF z.endExecution THEN f.counterForEnd - 1 ELSE f.counterForEnd
      /\ z.endExecution <=> (f.endExecution \/ f.counter + 1 >= quantum \/ f.endProgram)
      /\ z.reg = f.reg /\ z.memory = f.memory /\ z.pc = f.pc /\ z.ir = f.ir
  <2>1. quantum \in Nat /\ f.counterForEnd # 0
    BY <1>1, <1>4, <1>5, <1>7, InstructionsAssumption
       DEF PipelineInv, PipelineTypeOK, Quiet, SameCounters
  <2> HIDE DEF f
  <2> QED BY <1>7, <2>1, AdvanceStep, AdvanceEffect
<1> HIDE DEF w, m, x, y, f, z
\* The branch of the code is that of Branches.
<1>10. /\ Taken(e, m.reg) = Branches(c)
       /\ x.ir = IrAtDecode(c) /\ x.pc = PcAtDecode(c) /\ y.pc = PcAtFetch(c, bubble)
  BY <1>2, <1>3, <1>4, <1>6 DEF Executes, Decodes, Branches, IrAtDecode, PcAtDecode, PcAtFetch
<1>11. DataCycles(c, z)
  BY <1>2, <1>3, <1>4, <1>5, <1>6, <1>7, <1>9 DEF DataCycles, Executes, Decodes, Quiet, SameCounters
\* The slice goes on, or it drains.
<1>12. /\ z.counter = c.counter + 1 /\ c.counter \in Nat /\ c.counterForEnd \in 1 .. 5
       /\ z.counterForEnd = c.counterForEnd - 1 \/ (z.counterForEnd = 5 /\ c.counterForEnd = 5)
       /\ c.data \in Seq(Instruction_Data)
  <2>1. c.counter \in Nat /\ c.counterForEnd \in 1 .. 5 /\ c.data \in Seq(Instruction_Data)
    BY <1>1 DEF Context
  <2>2. c.counterForEnd # 5 => z.endExecution
    BY <1>4, <1>5, <1>7, <1>9, <2>1 DEF PipelineInv, DrainInv, Quiet, SameCounters
  <2> QED BY <1>4, <1>5, <1>7, <1>9, <2>1, <2>2 DEF Quiet, SameCounters
<1>13. \A i \in 1 .. Len(c.data) : i # c.counter => z.data[i] = c.data[i]
  BY <1>2, <1>3, <1>4, <1>5, <1>6, <1>7, <1>9 DEF Executes, Decodes, Quiet, SameCounters
<1>14. ASSUME NEW n \in {2, 3}
       PROVE  Entry(z, n + 1) = Entry(c, n)
  <2>1. z.counter >= n + 1 <=> c.counter >= n
    BY <1>12
  <2>2. z.counterForEnd >= 5 - (n + 1) <=> c.counterForEnd >= 5 - n
    BY <1>12
  <2>3. CASE c.counter >= n /\ c.counterForEnd >= 5 - n
    <3>1. c.counter - n < Len(c.data)
      BY <1>1, <2>3 DEF Filled
    <3>2. /\ c.counter - n + 1 \in 1 .. Len(c.data) /\ c.counter - n + 1 # c.counter
          /\ z.counter - (n + 1) + 1 = c.counter - n + 1
      BY <1>12, <2>3, <3>1
    <3>3. Stage(z, n + 1) = Stage(c, n)
      BY <1>13, <3>2 DEF Stage
    <3> QED BY <2>1, <2>2, <2>3, <3>3 DEF Entry
  <2> QED BY <2>1, <2>2, <2>3 DEF Entry
<1>15. Entry(z, 4) = Entry(c, 3) /\ Entry(z, 3) = Entry(c, 2)
  <2>1. 2 + 1 = 3 /\ 3 + 1 = 4
    OBVIOUS
  <2> QED BY <1>14, <2>1
<1>16. ASSUME c.counter >= 1 /\ c.counterForEnd >= 4
       PROVE  EntriesCycle(c, z, bubble)
  <2>1. c.counter - 1 < Len(c.data)
    BY <1>1, <1>16 DEF Filled
  <2>2. c.counter \in 1 .. Len(c.data) /\ z.counter - 2 + 1 = c.counter
    BY <1>12, <1>16, <2>1
  <2>3. Entry(z, 2) = z.data[c.counter]
    BY <1>12, <1>16, <2>2 DEF Entry, Stage
  <2>4. z.data[c.counter] = y.data[c.counter]
    BY <1>4, <1>5, <1>7, <1>9, <2>2 DEF Quiet, SameCounters
  <2>5. y.data[c.counter] = IF bubble THEN [x.ir EXCEPT !.op = "BUBBLE"] ELSE x.ir
    BY <1>4, <1>6, <1>16 DEF Decodes
  <2> QED BY <1>10, <1>15, <1>16, <2>3, <2>4, <2>5 DEF EntriesCycle
<1>17. ASSUME ~(c.counter >= 1 /\ c.counterForEnd >= 4)
       PROVE  EntriesCycle(c, z, bubble)
  <2>1. Entry(z, 2) = NOP
    BY <1>12, <1>17 DEF Entry
  <2> QED BY <1>15, <1>17, <2>1 DEF EntriesCycle
<1>18. EntriesCycle(c, z, bubble)
  BY <1>16, <1>17
<1>19. ControlCycles(program, c, z, bubble)
  <2>1. CASE c.counterForEnd = 5
    <3>1. ~y.endProgram
      BY <1>4, <1>5, <2>1 DEF Quiet, SameCounters, PipelineInv, FetchInv
    <3>2. y.counterForEnd = 5 /\ y.pc = PcAtFetch(c, bubble)
      BY <1>4, <1>5, <1>10, <2>1 DEF Quiet, SameCounters
    <3> QED BY <1>7, <1>9, <2>1, <3>1, <3>2 DEF ControlCycles
  <2>2. CASE c.counterForEnd # 5
    <3>1. f = y /\ y.endProgram = c.endProgram
      BY <1>4, <1>5, <1>7, <2>2 DEF Quiet, SameCounters
    <3>2. z.pc = PcAtFetch(c, bubble) /\ z.endProgram = c.endProgram
      BY <1>9, <1>10, <3>1
    <3> QED BY <2>2, <3>2 DEF ControlCycles
  <2> QED BY <2>1, <2>2
<1>20. bubble => MayHoldBack(c)
  <2> SUFFICES ASSUME bubble PROVE MayHoldBack(c)
    OBVIOUS
  <2>1. c.counter >= 1 /\ c.counterForEnd >= 4 /\ Reads(IrAtDecode(c)) # {} /\ Len(c.data) > 1
    BY <1>4, <1>6, <1>10
  <2>2. c.counter = Len(c.data)
    BY <1>12, <2>1 DEF PipelineInv, FetchInv, DrainInv
  <2> QED BY <2>1, <2>2 DEF MayHoldBack
<1>21. CountersCycle(c, z)
  BY <1>12 DEF CountersCycle
<1> QED BY <1>8, <1>11, <1>18, <1>19, <1>20, <1>21 DEF z

-----------------------------------------------------------------------------
(* The machine of InstructionSet *)

Machine ==
  [pc : Word, reg : [Register -> Word], memory : [Address -> Word], printed : Seq(Word),
   ended : BOOLEAN]

\* Apply, in the words of the pipeline.
LEMMA ApplyIs ==
  ASSUME NEW m
  PROVE  LET i == InstructionAt(program, m.pc)
         IN Sequential!Apply(m) =
            CASE EndsProgram(i, m.pc) -> [m EXCEPT !.ended = TRUE]
              [] i.op \in ArithmeticOps ->
                   [m EXCEPT !.pc = Moved(m.pc, 1),
                             !.reg = writeRegister(@, i.rd,
                                       calculate(i.op, m.reg[i.rs], m.reg[i.rt]).result)]
              [] i.op \in ImmediateOps ->
                   [m EXCEPT !.pc = Moved(m.pc, 1),
                             !.reg = writeRegister(@, i.rt, Immediate(i, m.reg[i.rs]))]
              [] i.op = "LW" ->
                   [m EXCEPT !.pc = Moved(m.pc, 1),
                             !.reg = writeRegister(@, i.rt, m.memory[i.imm])]
              [] i.op = "SW" ->
                   [m EXCEPT !.pc = Moved(m.pc, 1), !.memory[i.imm] = m.reg[i.rt]]
              [] i.op = "PRINT" ->
                   [m EXCEPT !.pc = Moved(m.pc, 1), !.printed = Append(@, m.reg[i.rt])]
              [] i.op \in LoopOps ->
                   [m EXCEPT !.pc = IF Taken(i, m.reg) THEN Target(i) ELSE Moved(m.pc, 1)]
              [] OTHER -> [m EXCEPT !.pc = Moved(m.pc, 1)]
  BY Zenon DEF Sequential!Apply, Sequential!Next1, Sequential!InstructionAt, InstructionAt,
     Sequential!EndsProgram, EndsProgram, Sequential!NOP, NOP,
     Sequential!ArithmeticOps, ArithmeticOps, Sequential!ImmediateOps, ImmediateOps,
     Sequential!LoopOps, LoopOps, Sequential!CompareOps, CompareOps,
     Sequential!writeRegister, writeRegister, Sequential!Immediate, Immediate,
     Sequential!signExtend16, signExtend16, Sequential!Taken, Taken,
     Sequential!Target, Target, Sequential!Moved, Moved, Sequential!calculate, calculate,
     Sequential!as_i32, as_i32, Sequential!fits_in_i32, fits_in_i32, 
     Sequential!Exact, Exact, Sequential!Quotient, Quotient, Sequential!Holds, Holds,
     Sequential!WORD, WORD

\* What d does to the data of a machine.
DataApplied(d, m, a) ==
  /\ a.reg = LoadedBy(d, ComputedBy(d, m.reg), m.memory)
  /\ a.memory = StoredBy(d, m.reg, m.memory)
  /\ a.printed = PrintedBy(d, m.reg, m.printed)

\* One instruction does what its stages do one after the other.
LEMMA ApplyEffect ==
  ASSUME program \in Programs, LoadsNoSign(program), NEW m \in Machine
  PROVE  LET i == InstructionAt(program, m.pc)
             a == Sequential!Apply(m)
         IN /\ a \in Machine /\ DataApplied(i, m, a)
            /\ a.ended <=> m.ended \/ EndsProgram(i, m.pc)
            /\ a.pc = IF EndsProgram(i, m.pc) THEN m.pc
                      ELSE IF Taken(i, m.reg) THEN Target(i) ELSE Moved(m.pc, 1)
<1> DEFINE i == InstructionAt(program, m.pc)
           a == Sequential!Apply(m)
           ends == EndsProgram(i, m.pc)
           next == Moved(m.pc, 1)
<1>1. i \in Instruction /\ i \in Instruction_Data /\ next \in Word
  BY FetchedTyped, MovedTyped, Bubbles DEF Machine
<1>2. /\ i.rs \in Register /\ i.rt \in Register /\ i.rd \in Register
      /\ i.imm \in 0 .. HALF - 1 /\ (i.op \in {"LW", "SW"} => i.imm \in Address)
      /\ i.op \in Ops
  BY <1>1, Fields DEF Instruction
<1>3. /\ m.reg \in [Register -> Word] /\ m.memory \in [Address -> Word]
      /\ m.reg[i.rs] \in Word /\ m.reg[i.rt] \in Word /\ m.printed \in Seq(Word)
  BY <1>2 DEF Machine
<1>4. Target(i) \in Word
  BY <1>2, ExtendedWord, WordSize DEF Target
<1>5. i.op = "LI" => 2 * i.imm < HALF
  BY DEF LoadsNoSign, Machine
<1>6. a = CASE ends -> [m EXCEPT !.ended = TRUE]
            [] i.op \in ArithmeticOps ->
                 [m EXCEPT !.pc = next,
                           !.reg = writeRegister(@, i.rd,
                                     calculate(i.op, m.reg[i.rs], m.reg[i.rt]).result)]
            [] i.op \in ImmediateOps ->
                 [m EXCEPT !.pc = next,
                           !.reg = writeRegister(@, i.rt, Immediate(i, m.reg[i.rs]))]
            [] i.op = "LW" ->
                 [m EXCEPT !.pc = next, !.reg = writeRegister(@, i.rt, m.memory[i.imm])]
            [] i.op = "SW" ->
                 [m EXCEPT !.pc = next, !.memory[i.imm] = m.reg[i.rt]]
            [] i.op = "PRINT" ->
                 [m EXCEPT !.pc = next, !.printed = Append(@, m.reg[i.rt])]
            [] i.op \in LoopOps ->
                 [m EXCEPT !.pc = IF Taken(i, m.reg) THEN Target(i) ELSE next]
            [] OTHER -> [m EXCEPT !.pc = next]
  BY ApplyIs, Zenon
<1>7. ends <=> (i.op = "END" \/ (i = NOP /\ m.pc > LIMIT))
  BY DEF EndsProgram
<1> SUFFICES /\ a \in Machine /\ DataApplied(i, m, a)
             /\ a.ended <=> m.ended \/ ends
             /\ a.pc = IF ends THEN m.pc ELSE IF Taken(i, m.reg) THEN Target(i) ELSE next
  OBVIOUS
<1> HIDE DEF i, a, ends, next
<1> USE DEF ArithmeticOps, ImmediateOps, LoopOps, CompareOps
<1>8. CASE ends
  <2>1. i.op = "END" \/ i.op = ""
    BY <1>7, <1>8, NopOp
  <2>2. a = [m EXCEPT !.ended = TRUE]
    BY <1>6, <1>8, <2>1
  <2>3. /\ ComputedBy(i, m.reg) = m.reg /\ LoadedBy(i, m.reg, m.memory) = m.reg
        /\ StoredBy(i, m.reg, m.memory) = m.memory
        /\ PrintedBy(i, m.reg, m.printed) = m.printed
    BY <2>1 DEF ComputedBy, LoadedBy, StoredBy, PrintedBy
  <2> QED BY <1>8, <2>2, <2>3 DEF DataApplied, Machine
<1>9. CASE ~ends /\ i.op \in ArithmeticOps
  <2> DEFINE r == ComputedBy(i, m.reg)
             v == calculate(i.op, m.reg[i.rs], m.reg[i.rt]).result
  <2>1. r = writeRegister(m.reg, i.rd, v)
    BY <1>9 DEF ComputedBy
  <2>2. v \in Word
    BY <1>3, AluResult
  <2>3. r \in [Register -> Word]
    <3> HIDE DEF v, r
    <3> QED BY <1>2, <1>3, <2>1, <2>2, WriteTyped
  <2>4. a = [m EXCEPT !.pc = next, !.reg = r]
    BY <1>6, <1>9, <2>1
  <2> HIDE DEF r
  <2>5. a \in Machine /\ a.pc = next /\ a.reg = r /\ a.memory = m.memory
        /\ a.printed = m.printed /\ a.ended = m.ended
    BY <1>1, <2>3, <2>4 DEF Machine
  <2> QED BY <1>9, <2>5 DEF r, DataApplied, LoadedBy, StoredBy, PrintedBy, Taken
<1>10. CASE ~ends /\ i.op \in ImmediateOps
  <2> DEFINE r == ComputedBy(i, m.reg)
             v == Immediate(i, m.reg[i.rs])
  <2>0. v \in Word
    BY <1>1, <1>3, <1>10, ImmediateWord
  <2>1. r = writeRegister(m.reg, i.rt, v)
    BY <1>10 DEF ComputedBy
  <2>2. r \in [Register -> Word]
    <3> HIDE DEF v, r
    <3> QED BY <1>2, <1>3, <2>0, <2>1, WriteTyped
  <2>3. a = [m EXCEPT !.pc = next, !.reg = r]
    BY <1>6, <1>10, <2>1
  <2>4. LoadedBy(i, r, m.memory) = r
    <3>1. CASE i.op = "LI"
      <4>1. Immediate(i, m.reg[i.rs]) = i.imm
        BY <1>5, <3>1 DEF Immediate, signExtend16
      <4>2. r = writeRegister(m.reg, i.rt, i.imm)
        BY <2>1, <4>1
      <4>3. writeRegister(r, i.rt, i.imm) = r
        BY <1>2, <1>3, <4>2 DEF writeRegister
      <4> QED BY <3>1, <4>3 DEF LoadedBy
    <3>2. CASE i.op # "LI"
      BY <1>10, <3>2 DEF LoadedBy
    <3> QED BY <3>1, <3>2
  <2> HIDE DEF r
  <2>5. a \in Machine /\ a.pc = next /\ a.reg = r /\ a.memory = m.memory
        /\ a.printed = m.printed /\ a.ended = m.ended
    BY <1>1, <2>2, <2>3 DEF Machine
  <2> QED BY <1>10, <2>4, <2>5 DEF r, DataApplied, StoredBy, PrintedBy, Taken
<1>11. CASE ~ends /\ i.op = "LW"
  <2> DEFINE r == writeRegister(m.reg, i.rt, m.memory[i.imm])
  <2>1. r \in [Register -> Word]
    BY <1>2, <1>3, <1>11, WriteTyped
  <2>2. a = [m EXCEPT !.pc = next, !.reg = r]
    BY <1>6, <1>11
  <2>3. ComputedBy(i, m.reg) = m.reg /\ LoadedBy(i, m.reg, m.memory) = r
    BY <1>11 DEF ComputedBy, LoadedBy
  <2> HIDE DEF r
  <2>4. a \in Machine /\ a.pc = next /\ a.reg = r /\ a.memory = m.memory
        /\ a.printed = m.printed /\ a.ended = m.ended
    BY <1>1, <2>1, <2>2 DEF Machine
  <2> QED BY <1>11, <2>3, <2>4 DEF DataApplied, StoredBy, PrintedBy, Taken
<1>12. CASE ~ends /\ i.op = "SW"
  <2> DEFINE new == StoredBy(i, m.reg, m.memory)
  <2>1. new = [m.memory EXCEPT ![i.imm] = m.reg[i.rt]] /\ new \in [Address -> Word]
    BY <1>2, <1>3, <1>12 DEF StoredBy
  <2>2. a = [m EXCEPT !.pc = next, !.memory = new]
    BY <1>6, <1>12, <2>1
  <2>3. ComputedBy(i, m.reg) = m.reg /\ LoadedBy(i, m.reg, m.memory) = m.reg
    BY <1>12 DEF ComputedBy, LoadedBy
  <2> HIDE DEF new
  <2>4. a \in Machine /\ a.pc = next /\ a.reg = m.reg /\ a.memory = new
        /\ a.printed = m.printed /\ a.ended = m.ended
    BY <1>1, <2>1, <2>2 DEF Machine
  <2> QED BY <1>12, <2>3, <2>4 DEF new, DataApplied, PrintedBy, Taken
<1>13. CASE ~ends /\ i.op = "PRINT"
  <2> DEFINE out == PrintedBy(i, m.reg, m.printed)
  <2>1. out = Append(m.printed, m.reg[i.rt]) /\ out \in Seq(Word)
    BY <1>3, <1>13 DEF PrintedBy
  <2>2. a = [m EXCEPT !.pc = next, !.printed = out]
    BY <1>6, <1>13, <2>1
  <2>3. ComputedBy(i, m.reg) = m.reg /\ LoadedBy(i, m.reg, m.memory) = m.reg
    BY <1>13 DEF ComputedBy, LoadedBy
  <2> HIDE DEF out
  <2>4. a \in Machine /\ a.pc = next /\ a.reg = m.reg /\ a.memory = m.memory
        /\ a.printed = out /\ a.ended = m.ended
    BY <1>1, <2>1, <2>2 DEF Machine
  <2> QED BY <1>13, <2>3, <2>4 DEF out, DataApplied, StoredBy, Taken
<1>14. CASE ~ends /\ i.op \notin ArithmeticOps \cup ImmediateOps \cup {"LW", "SW", "PRINT"}
  <2> DEFINE pc == IF Taken(i, m.reg) THEN Target(i) ELSE next
  <2>1. a = [m EXCEPT !.pc = pc]
    <3>1. CASE i.op \in LoopOps
      BY <1>6, <1>14, <3>1
    <3>2. CASE i.op \notin LoopOps
      BY <1>6, <1>14, <3>2 DEF Taken
    <3> QED BY <3>1, <3>2
  <2>2. pc \in Word
    BY <1>1, <1>4
  <2>3. /\ ComputedBy(i, m.reg) = m.reg /\ LoadedBy(i, m.reg, m.memory) = m.reg
        /\ StoredBy(i, m.reg, m.memory) = m.memory
        /\ PrintedBy(i, m.reg, m.printed) = m.printed
    BY <1>14 DEF ComputedBy, LoadedBy, StoredBy, PrintedBy
  <2> HIDE DEF pc
  <2>4. a \in Machine /\ a.pc = pc /\ a.reg = m.reg /\ a.memory = m.memory
        /\ a.printed = m.printed /\ a.ended = m.ended
    BY <2>1, <2>2 DEF Machine
  <2> QED BY <1>14, <2>3, <2>4 DEF pc, DataApplied
<1> QED BY <1>8, <1>9, <1>10, <1>11, <1>12, <1>13, <1>14

-----------------------------------------------------------------------------
(* The machine behind a context *)

\* The data of the context, when the instructions past Execute are through
\* the stages that remain to them, are those of m.
DataAgrees(c, m) ==
  /\ m.reg = RegAtExecute(c)
  /\ m.memory = StoredBy(Entry(c, 3), c.reg, MemoryAtExecute(c))
  /\ m.printed = c.ioRequests

\* A store that waits for Write_Back has nothing to fear from Execute.
StoreWaits(c) ==
  Entry(c, 3).op = "SW" => Entry(c, 3).rt \notin ExecuteWrites(Entry(c, 2))

\* An instruction leaves the registers it does not write.
LEMMA Unwritten ==
  ASSUME NEW d, NEW reg \in [Register -> Word], NEW r \in Register, r \notin ExecuteWrites(d)
  PROVE  ComputedBy(d, reg)[r] = reg[r]
  BY DEF ExecuteWrites, ComputedBy, writeRegister, ArithmeticOps, ImmediateOps

\* A cycle does to the data what the instruction in Execute does to m.
LEMMA DataStep ==
  ASSUME NEW c \in Context, Filled(c), NEW x, NEW m, NEW a,
         DataAgrees(c, m), StoreWaits(c), DataCycles(c, x),
         Entry(x, 4) = Entry(c, 3), Entry(x, 3) = Entry(c, 2),
         DataApplied(Entry(c, 2), m, a)
  PROVE  DataAgrees(x, a)
<1> DEFINE d == Entry(c, 2)
           s == Entry(c, 3)
           mem == MemoryAtExecute(c)
<1>1. x.memory = mem /\ x.reg = ComputedBy(d, m.reg) /\ a.printed = x.ioRequests
  BY DEF DataCycles, DataAgrees, DataApplied
<1>2. MemoryAtExecute(x) = m.memory
  <2>1. MemoryAtExecute(x) = StoredBy(s, x.reg, mem) /\ m.memory = StoredBy(s, c.reg, mem)
    BY <1>1 DEF MemoryAtExecute, DataAgrees
  <2>2. CASE s.op = "SW"
    <3>1. s.rt \in Register
      BY EntryTyped, Fields
    <3>2. m.reg = c.reg /\ c.reg \in [Register -> Word]
      BY <2>2 DEF DataAgrees, RegAtExecute, LoadedBy, Context
    <3>3. x.reg[s.rt] = c.reg[s.rt]
      BY <1>1, <2>2, <3>1, <3>2, Unwritten DEF StoreWaits
    <3> QED BY <2>1, <2>2, <3>3 DEF StoredBy
  <2>3. CASE s.op # "SW"
    BY <2>1, <2>3 DEF StoredBy
  <2> QED BY <2>2, <2>3
<1>3. a.reg = RegAtExecute(x)
  BY <1>1, <1>2 DEF DataApplied, RegAtExecute
<1>4. a.memory = StoredBy(Entry(x, 3), x.reg, MemoryAtExecute(x))
  <2>1. CASE d.op = "SW"
    <3>1. x.reg = m.reg
      BY <1>1, <2>1 DEF ComputedBy, ImmediateOps, ArithmeticOps
    <3> QED BY <1>2, <3>1 DEF DataApplied
  <2>2. CASE d.op # "SW"
    BY <1>2, <2>2 DEF DataApplied, StoredBy
  <2> QED BY <2>1, <2>2
<1> QED BY <1>1, <1>3, <1>4 DEF DataAgrees

\* The pc after Fetch read the instruction at pc.
After(p, pc) == IF EndsProgram(InstructionAt(p, pc), pc) THEN pc ELSE Moved(pc, 1)

\* Execute holds the instruction that m executes next, or none.
HoldsNext(p, c, m) == Entry(c, 2) = InstructionAt(p, m.pc)
HoldsNone(c) == Entry(c, 2).op = "" \/ Entry(c, 2).op = "BUBBLE"

\* The last instruction that Fetch read is that at pc, and Decode holds it.
LastRead(p, c, pc) ==
  /\ c.pc = After(p, pc)
  /\ c.endProgram <=> EndsProgram(InstructionAt(p, pc), pc)

Fetched(p, c, pc) == c.ir = InstructionAt(p, pc) /\ LastRead(p, c, pc)

\* The stages hold the instructions that follow the n of m: Decode the one
\* behind that of Execute, and if Execute holds none the next.
ControlAgrees(p, c, n, m) ==
  /\ c.counter = 0 => c.pc = m.pc /\ n = 0
  /\ c.counter >= 1 /\ c.counterForEnd >= 4 =>
       \E pc \in Word :
          /\ Fetched(p, c, pc)
          /\ \/ /\ HoldsNext(p, c, m) /\ c.counter >= 2
                /\ ~EndsProgram(InstructionAt(p, m.pc), m.pc) /\ pc = Moved(m.pc, 1)
             \/ HoldsNone(c) /\ pc = m.pc /\ (n >= 1 \/ c.counter = 1)
  /\ c.counterForEnd = 3 =>
       \/ HoldsNext(p, c, m) /\ LastRead(p, c, m.pc)
       \/ HoldsNone(c) /\ c.pc = m.pc /\ ~c.endProgram /\ n >= 1
  /\ c.counterForEnd <= 2 => c.pc = m.pc /\ (m.ended <=> c.endProgram) /\ n >= 1

\* The instructions executed are no more than the quantum allows.
CountAgrees(q, c, n, m) ==
  /\ c.counter >= 5 - c.counterForEnd
  /\ c.counterForEnd >= 3 => ~m.ended /\ (n = 0 \/ n <= c.counter - 2)
  /\ c.counterForEnd <= 2 => n <= q

Agrees(p, q, c, n, m) ==
  DataAgrees(c, m) /\ StoreWaits(c) /\ ControlAgrees(p, c, n, m) /\ CountAgrees(q, c, n, m)

\* Back one word and on again.
LEMMA MovedBack ==
  ASSUME NEW pc \in Word
  PROVE  Moved(Moved(pc, 1), WORD - 1) = pc
<1>1. pc \in Nat /\ pc < WORD /\ WORD \in Nat /\ WORD > 1
  BY WordSize DEF Word
<1>2. CASE pc + 1 < WORD
  <2>1. (pc + 1) % WORD = pc + 1
    BY <1>1, <1>2
  <2>2. (pc + 1 + (WORD - 1)) % WORD = pc
    BY <1>1
  <2> QED BY <2>1, <2>2 DEF Moved
<1>3. CASE pc + 1 = WORD
  <2>1. (pc + 1) % WORD = 0
    BY <1>1, <1>3
  <2>2. (0 + (WORD - 1)) % WORD = pc
    BY <1>1, <1>3
  <2> QED BY <2>1, <2>2 DEF Moved
<1> QED BY <1>1, <1>2, <1>3

\* What Decode and Fetch make of the instruction that a executes next, or of
\* the nothing that a branch left.
LEMMA DecodeControl ==
  ASSUME PipelineInv, NEW x, NEW bubble \in BOOLEAN, NEW n \in Nat, NEW a \in Machine, ~a.ended,
         CountersCycle(context, x), EntriesCycle(context, x, bubble),
         ControlCycles(program, context, x, bubble), bubble => MayHoldBack(context),
         context.counter >= 1, context.counterForEnd >= 4,
         \/ /\ IrAtDecode(context) = InstructionAt(program, a.pc)
            /\ PcAtDecode(context) = After(program, a.pc)
            /\ context.endProgram <=> EndsProgram(InstructionAt(program, a.pc), a.pc)
            /\ n >= 1 \/ context.counter = 1
         \/ /\ IrAtDecode(context) = NOP /\ PcAtDecode(context) = a.pc
            /\ ~context.endProgram /\ n >= 1
  PROVE  ControlAgrees(program, x, n, a)
<1> DEFINE c == context
           i == InstructionAt(program, a.pc)
           ends == EndsProgram(i, a.pc)
           pc == PcAtFetch(c, bubble)
<1>1. /\ program \in Programs /\ a.pc \in Word /\ i \in Instruction_Data
      /\ c.counter \in Nat /\ c.counterForEnd \in {4, 5}
      /\ x.counter = c.counter + 1
      /\ x.counterForEnd \in {3, 4, 5}
      /\ c.counterForEnd = 4 => x.counterForEnd = 3
      /\ c.counterForEnd = 5 => x.counterForEnd \in {4, 5} /\ ~c.endProgram
  <2>1. program \in Programs /\ a.pc \in Word /\ i \in Instruction_Data
    BY FetchedTyped, Bubbles DEF PipelineInv, PipelineTypeOK, Machine
  <2> HIDE DEF i
  <2> QED BY <2>1 DEF PipelineInv, PipelineTypeOK, Context, FetchInv, CountersCycle
<1>2. ends => i.op = "END" \/ i.op = ""
  BY NopOp DEF EndsProgram
\* The pc of Fetch, and what Execute will hold.
<1>3. \/ Entry(x, 2) = i /\ pc = After(program, a.pc) /\ (c.endProgram <=> ends)
      \/ HoldsNone(x) /\ pc = a.pc /\ ~c.endProgram /\ n >= 1
  <2>1. CASE bubble
    <3>1. Reads(IrAtDecode(c)) # {} /\ c.counter > 1
      BY <2>1 DEF MayHoldBack
    <3>2. IrAtDecode(c) # NOP
      BY <3>1, NopOp DEF Reads, ArithmeticOps, CompareOps
    <3>3. /\ IrAtDecode(c) = i /\ PcAtDecode(c) = After(program, a.pc)
          /\ c.endProgram <=> ends
          /\ n >= 1
      BY <3>1, <3>2
    <3>4. ~ends
      BY <1>2, <3>1, <3>3 DEF Reads, ArithmeticOps, CompareOps
    <3>5. pc = a.pc
      BY <1>1, <2>1, <3>3, <3>4, MovedBack DEF After, PcAtFetch
    <3>6. Entry(x, 2) = [i EXCEPT !.op = "BUBBLE"]
      BY <2>1, <3>3 DEF EntriesCycle
    <3>7. Entry(x, 2).op = "BUBBLE"
      <4> HIDE DEF i
      <4> QED BY <1>1, <3>6 DEF Instruction_Data
    <3> QED BY <3>3, <3>4, <3>5, <3>7 DEF HoldsNone
  <2>2. CASE ~bubble
    <3>1. Entry(x, 2) = IrAtDecode(c) /\ pc = PcAtDecode(c)
      BY <2>2 DEF EntriesCycle, PcAtFetch
    <3>2. CASE IrAtDecode(c) = NOP /\ PcAtDecode(c) = a.pc /\ ~c.endProgram /\ n >= 1
      BY <3>1, <3>2, NopOp DEF HoldsNone
    <3>3. CASE /\ IrAtDecode(c) = i /\ PcAtDecode(c) = After(program, a.pc)
               /\ c.endProgram <=> ends
      BY <3>1, <3>3
    <3> QED BY <3>2, <3>3
  <2> QED BY <2>1, <2>2
<1>4. CASE c.counterForEnd = 5
  <2>1. Fetched(program, x, pc)
    BY <1>4 DEF ControlCycles, Fetched, LastRead, After
  <2>2. pc \in Word
    BY <1>1, <1>3, MovedTyped DEF After
  <2>3. \/ /\ HoldsNext(program, x, a) /\ x.counter >= 2
           /\ ~ends /\ pc = Moved(a.pc, 1)
        \/ HoldsNone(x) /\ pc = a.pc /\ n >= 1
    <3> HIDE DEF pc
    <3> QED BY <1>1, <1>3, <1>4 DEF HoldsNext, After
  <2> HIDE DEF pc
  <2> QED BY <1>1, <1>4, <2>1, <2>2, <2>3 DEF ControlAgrees
<1>5. CASE c.counterForEnd = 4
  <2>1. x.pc = pc /\ x.endProgram = c.endProgram
    BY <1>5 DEF ControlCycles
  <2>2. \/ HoldsNext(program, x, a) /\ LastRead(program, x, a.pc)
        \/ HoldsNone(x) /\ x.pc = a.pc /\ ~x.endProgram /\ n >= 1
    <3> HIDE DEF pc
    <3> QED BY <1>3, <2>1 DEF HoldsNext, LastRead
  <2> HIDE DEF pc
  <2> QED BY <1>1, <1>5, <2>2 DEF ControlAgrees
<1> QED BY <1>1, <1>4, <1>5

\* A cycle carries out the instruction in Execute, if it holds one: the
\* context that follows agrees with the machine after it.
LEMMA AgreesStep ==
  ASSUME PipelineInv, Cycle, Covered(program), NEW n \in Nat, NEW m \in Machine,
         Agrees(program, quantum, context, n, m)
  PROVE  \E k \in Nat, a \in Machine :
            /\ \/ k = n /\ a = m
               \/ k = n + 1 /\ ~m.ended /\ a = Sequential!Apply(m)
            /\ Agrees(program, quantum, context', k, a)
<1> DEFINE c == context
           x == context'
           d == Entry(c, 2)
           i == InstructionAt(program, m.pc)
           ends == EndsProgram(i, m.pc)
           next == Sequential!Apply(m)
<1>1. PICK bubble \in BOOLEAN :
         /\ CountersCycle(c, x) /\ DataCycles(c, x) /\ EntriesCycle(c, x, bubble)
         /\ ControlCycles(program, c, x, bubble)
         /\ bubble => MayHoldBack(c)
  BY CycleEffect
<1>2. /\ program \in Programs /\ c \in Context /\ Filled(c) /\ quantum \in Nat /\ quantum > 0
      /\ c.counter \in Nat /\ c.counterForEnd \in 1 .. 5
      /\ x.counter = c.counter + 1
      /\ x.counterForEnd = c.counterForEnd - 1 \/ (x.counterForEnd = 5 /\ c.counterForEnd = 5)
  BY <1>1, InvFilled, InstructionsAssumption
     DEF PipelineInv, PipelineTypeOK, Context, Cycle, AtRest, CountersCycle
<1>3. /\ DataAgrees(c, m) /\ StoreWaits(c)
      /\ ControlAgrees(program, c, n, m) /\ CountAgrees(quantum, c, n, m)
  BY DEF Agrees
<1>4. Branches(c) <=> Taken(d, m.reg)
  BY <1>3 DEF DataAgrees, Branches
<1>5. /\ next \in Machine /\ DataApplied(i, m, next)
      /\ next.ended <=> m.ended \/ ends
      /\ next.pc = IF ends THEN m.pc
                   ELSE IF Taken(i, m.reg) THEN Target(i) ELSE Moved(m.pc, 1)
  BY <1>2, ApplyEffect DEF Covered
<1>6. ends => i.op = "END" \/ i.op = ""
  BY NopOp DEF EndsProgram
<1>7. m.pc \in Word /\ Moved(m.pc, 1) \in Word
  BY MovedTyped DEF Machine
<1> HIDE DEF x, i, ends, next, d
\* When Execute holds no instruction the machine waits.
<1>8. ASSUME HoldsNone(c)
      PROVE  DataAgrees(x, m) /\ StoreWaits(x) /\ ~Branches(c)
  <2>1. d.op = "" \/ d.op = "BUBBLE"
    BY <1>8 DEF HoldsNone, d
  <2>2. DataApplied(d, m, m) /\ ~Taken(d, m.reg)
    BY <2>1 DEF DataApplied, ComputedBy, LoadedBy, StoredBy, PrintedBy, Taken, ImmediateOps,
                ArithmeticOps, CompareOps
  <2>3. Entry(x, 3) = d /\ Entry(x, 4) = Entry(c, 3)
    BY <1>1 DEF EntriesCycle, d
  <2>4. DataAgrees(x, m)
    BY <1>1, <1>2, <1>3, <2>2, <2>3, DataStep DEF d
  <2>5. StoreWaits(x)
    BY <2>1, <2>3 DEF StoreWaits
  <2> QED BY <1>4, <2>2, <2>4, <2>5
<1>9. ASSUME HoldsNext(program, c, m)
      PROVE  d = i /\ DataAgrees(x, next) /\ Entry(x, 3) = i
  <2>1. d = i
    BY <1>9 DEF HoldsNext, d, i
  <2>2. Entry(x, 3) = d /\ Entry(x, 4) = Entry(c, 3)
    BY <1>1 DEF EntriesCycle, d
  <2>3. DataAgrees(x, next)
    BY <1>1, <1>2, <1>3, <1>5, <2>1, <2>2, DataStep DEF d
  <2> QED BY <2>1, <2>2, <2>3
\* The first cycle fetches the first instruction.
<1>10. CASE c.counter = 0
  <2>1. c.counterForEnd = 5 /\ c.pc = m.pc /\ n = 0 /\ ~m.ended
    BY <1>2, <1>3, <1>10 DEF ControlAgrees, CountAgrees
  <2>2. HoldsNone(c)
    <3>1. Entry(c, 2) = NOP
      BY <1>10 DEF Entry
    <3> QED BY <3>1, NopOp DEF HoldsNone
  <2>3. PcAtFetch(c, bubble) = m.pc
    <3>1. ~bubble
      BY <1>1, <1>10 DEF MayHoldBack
    <3> QED BY <1>8, <2>1, <2>2, <3>1 DEF PcAtFetch, PcAtDecode
  <2>4. Fetched(program, x, m.pc)
    BY <1>1, <2>1, <2>3 DEF ControlCycles, Fetched, LastRead, After
  <2>5. HoldsNone(x)
    <3>1. Entry(x, 2) = NOP
      BY <1>1, <1>10 DEF EntriesCycle
    <3> QED BY <3>1, NopOp DEF HoldsNone
  <2>6. ControlAgrees(program, x, n, m)
    BY <1>2, <1>7, <1>10, <2>1, <2>4, <2>5 DEF ControlAgrees
  <2>7. CountAgrees(quantum, x, n, m)
    BY <1>2, <1>10, <2>1 DEF CountAgrees
  <2> QED BY <1>8, <2>2, <2>6, <2>7 DEF Agrees, x
\* The stages are full, or fill.
<1>11. CASE c.counter >= 1 /\ c.counterForEnd >= 4
  <2>1. PICK pc \in Word :
           /\ Fetched(program, c, pc)
           /\ \/ /\ HoldsNext(program, c, m) /\ c.counter >= 2
                 /\ ~ends /\ pc = Moved(m.pc, 1)
              \/ HoldsNone(c) /\ pc = m.pc /\ (n >= 1 \/ c.counter = 1)
    BY <1>3, <1>11 DEF ControlAgrees, ends, i
  <2>2. ~m.ended /\ (n = 0 \/ n <= c.counter - 2)
    BY <1>2, <1>3, <1>11 DEF CountAgrees
  <2>3. CASE HoldsNone(c) /\ pc = m.pc /\ (n >= 1 \/ c.counter = 1)
    <3>1. /\ IrAtDecode(c) = InstructionAt(program, m.pc)
          /\ PcAtDecode(c) = After(program, m.pc)
          /\ c.endProgram <=> EndsProgram(InstructionAt(program, m.pc), m.pc)
      BY <1>8, <2>1, <2>3 DEF Fetched, LastRead, IrAtDecode, PcAtDecode
    <3>2. ControlAgrees(program, x, n, m)
      BY <1>1, <1>11, <2>2, <2>3, <3>1, DecodeControl
    <3>3. CountAgrees(quantum, x, n, m)
      BY <1>2, <1>11, <2>2 DEF CountAgrees
    <3> QED BY <1>8, <2>3, <3>2, <3>3 DEF Agrees, x
  <2>4. CASE /\ HoldsNext(program, c, m) /\ c.counter >= 2
             /\ ~ends /\ pc = Moved(m.pc, 1)
    <3>1. ~next.ended /\ n + 1 \in Nat /\ n + 1 >= 1
      BY <1>5, <2>2, <2>4
    <3>2. d = i /\ DataAgrees(x, next) /\ Entry(x, 3) = i
      BY <1>9, <2>4
    <3>3. CASE Taken(i, m.reg)
      <4>1. i.op \in LoopOps
        BY <3>3 DEF Taken, LoopOps
      <4>2. ~c.endProgram
        <5>1. ~EndsProgram(InstructionAt(program, pc), pc)
          BY <1>7, <2>4, <4>1 DEF Covered, NoEndBehindBranch, i
        <5> QED BY <2>1, <5>1 DEF Fetched, LastRead
      <4>3. IrAtDecode(c) = NOP /\ PcAtDecode(c) = next.pc
        BY <1>4, <1>5, <2>4, <3>2, <3>3 DEF IrAtDecode, PcAtDecode, d
      <4>4. ControlAgrees(program, x, n + 1, next)
        BY <1>1, <1>5, <1>11, <3>1, <4>2, <4>3, DecodeControl
      <4>5. StoreWaits(x)
        BY <3>2, <4>1 DEF StoreWaits, LoopOps, CompareOps
      <4>6. CountAgrees(quantum, x, n + 1, next)
        BY <1>2, <1>11, <2>2, <2>4, <3>1 DEF CountAgrees
      <4> QED BY <1>5, <2>2, <3>1, <3>2, <4>4, <4>5, <4>6 DEF Agrees, x, next
    <3>4. CASE ~Taken(i, m.reg)
      <4>1. next.pc = pc
        BY <1>5, <2>4, <3>4
      <4>2. ~Branches(c)
        BY <1>4, <3>2, <3>4
      <4>3. /\ IrAtDecode(c) = InstructionAt(program, pc)
            /\ PcAtDecode(c) = After(program, pc)
            /\ c.endProgram <=> EndsProgram(InstructionAt(program, pc), pc)
        BY <2>1, <4>2 DEF Fetched, LastRead, IrAtDecode, PcAtDecode
      <4>4. ControlAgrees(program, x, n + 1, next)
        BY <1>1, <1>5, <1>11, <3>1, <4>1, <4>3, DecodeControl
      <4>5. StoreWaits(x)
        <5> SUFFICES ASSUME i.op = "SW" PROVE i.rt \notin ExecuteWrites(Entry(x, 2))
          BY <3>2 DEF StoreWaits
        <5> DEFINE behind == InstructionAt(program, pc)
        <5>1. i.rt \notin ExecuteWrites(behind)
          BY <1>7, <2>4 DEF Covered, StoresBeforeWrites, i
        <5>2. behind \in Instruction_Data
          BY <1>2, FetchedTyped, Bubbles
        <5>3. Entry(x, 2) = IF bubble THEN [behind EXCEPT !.op = "BUBBLE"] ELSE behind
          BY <1>1, <1>11, <4>3 DEF EntriesCycle
        <5> HIDE DEF behind
        <5>4. CASE bubble
          <6>1. Entry(x, 2).op = "BUBBLE"
            BY <5>2, <5>3, <5>4 DEF Instruction_Data
          <6> QED BY <6>1 DEF ExecuteWrites, ArithmeticOps, ImmediateOps
        <5>5. CASE ~bubble
          BY <5>1, <5>3, <5>5
        <5> QED BY <5>4, <5>5
      <4>6. CountAgrees(quantum, x, n + 1, next)
        BY <1>2, <1>11, <2>2, <2>4, <3>1 DEF CountAgrees
      <4> QED BY <1>5, <2>2, <3>1, <3>2, <4>4, <4>5, <4>6 DEF Agrees, x, next
    <3> QED BY <3>3, <3>4
  <2> QED BY <2>1, <2>3, <2>4
\* The last instruction is in Execute.
<1>12. CASE c.counterForEnd = 3
  <2>1. x.pc = PcAtDecode(c) /\ (x.endProgram <=> c.endProgram) /\ x.counterForEnd = 2
    <3>1. ~bubble
      BY <1>1, <1>12 DEF MayHoldBack
    <3> QED BY <1>1, <1>2, <1>12, <3>1 DEF ControlCycles, PcAtFetch
  <2>2. StoreWaits(x)
    <3>1. Entry(x, 2) = NOP
      BY <1>1, <1>12 DEF EntriesCycle
    <3>2. ExecuteWrites(NOP) = {}
      BY NopOp DEF ExecuteWrites, ArithmeticOps, ImmediateOps
    <3> QED BY <3>1, <3>2 DEF StoreWaits
  <2>3. /\ ~m.ended /\ (n = 0 \/ n <= c.counter - 2)
        /\ c.counter <= quantum + 1 /\ c.counter >= 2
    BY <1>2, <1>3, <1>12 DEF CountAgrees, PipelineInv, DrainInv
  <2>4. \/ HoldsNext(program, c, m) /\ LastRead(program, c, m.pc)
        \/ HoldsNone(c) /\ c.pc = m.pc /\ ~c.endProgram /\ n >= 1
    BY <1>3, <1>12 DEF ControlAgrees
  <2>5. CASE HoldsNone(c) /\ c.pc = m.pc /\ ~c.endProgram /\ n >= 1
    <3>1. x.pc = m.pc /\ ~x.endProgram
      BY <1>8, <2>1, <2>5 DEF PcAtDecode
    <3>2. ControlAgrees(program, x, n, m) /\ CountAgrees(quantum, x, n, m)
      BY <1>2, <2>1, <2>3, <2>5, <3>1 DEF ControlAgrees, CountAgrees
    <3> QED BY <1>8, <2>5, <3>2 DEF Agrees, x
  <2>6. CASE HoldsNext(program, c, m) /\ LastRead(program, c, m.pc)
    <3>1. d = i /\ DataAgrees(x, next)
      BY <1>9, <2>6
    <3>2. c.pc = (IF ends THEN m.pc ELSE Moved(m.pc, 1)) /\ (c.endProgram <=> ends)
      BY <2>6 DEF LastRead, After, ends, i
    <3>3. x.pc = next.pc
      <4>1. ends => ~Taken(i, m.reg)
        BY <1>6 DEF Taken, CompareOps
      <4> QED BY <1>4, <1>5, <2>1, <3>1, <3>2, <4>1 DEF PcAtDecode, d
    <3>4. next.ended <=> x.endProgram
      BY <1>5, <2>1, <2>3, <3>2
    <3>5. n + 1 \in Nat /\ n + 1 >= 1 /\ n + 1 <= quantum
      BY <1>2, <2>3
    <3>6. ControlAgrees(program, x, n + 1, next) /\ CountAgrees(quantum, x, n + 1, next)
      BY <1>2, <2>1, <2>3, <3>3, <3>4, <3>5 DEF ControlAgrees, CountAgrees
    <3> QED BY <1>5, <2>2, <2>3, <3>1, <3>5, <3>6 DEF Agrees, x, next
  <2> QED BY <2>4, <2>5, <2>6
\* Only Memory_Acess and Write_Back have work left.
<1>13. CASE c.counterForEnd <= 2
  <2>1. x.pc = PcAtDecode(c) /\ (x.endProgram <=> c.endProgram) /\ x.counterForEnd <= 1
    <3>1. ~bubble
      BY <1>1, <1>2, <1>13 DEF MayHoldBack
    <3> QED BY <1>1, <1>2, <1>13, <3>1 DEF ControlCycles, PcAtFetch
  <2>2. HoldsNone(c)
    <3>1. Entry(c, 2) = NOP
      BY <1>2, <1>13 DEF Entry
    <3> QED BY <3>1, NopOp DEF HoldsNone
  <2>3. c.pc = m.pc /\ (m.ended <=> c.endProgram) /\ n >= 1 /\ n <= quantum /\ c.counter >= 3
    BY <1>2, <1>3, <1>13 DEF ControlAgrees, CountAgrees
  <2>4. x.pc = m.pc
    BY <1>8, <2>1, <2>2, <2>3 DEF PcAtDecode
  <2>5. ControlAgrees(program, x, n, m) /\ CountAgrees(quantum, x, n, m)
    BY <1>2, <1>3, <1>13, <2>1, <2>3, <2>4 DEF ControlAgrees, CountAgrees
  <2> QED BY <1>8, <2>2, <2>5 DEF Agrees, x
<1> QED BY <1>2, <1>3, <1>10, <1>11, <1>12, <1>13 DEF CountAgrees

-----------------------------------------------------------------------------
(* The machine after n instructions of a slice *)

\* f holds what the machine is after each of the first n instructions of the
\* slice.
Run(f, n) ==
  f = [k \in 0 .. n |-> IF k = 0 THEN [before EXCEPT !.printed = <<>>]
                        ELSE IF f[k - 1].ended THEN f[k - 1] ELSE Sequential!Apply(f[k - 1])]

\* The machine is m after n instructions of the slice.
Reaches(n, m) == \E f : Run(f, n) /\ f[n] = m

\* One instruction, or none once the program ended.
AfterOne(x) == IF x.ended THEN x ELSE Sequential!Apply(x)

\* The machine before the first instruction, and after each.
LEMMA RunValues ==
  ASSUME NEW n \in Nat, NEW f, Run(f, n)
  PROVE  /\ f[0] = [before EXCEPT !.printed = <<>>]
         /\ \A k \in 0 .. n : k # 0 => f[k] = AfterOne(f[k - 1])
<1> DEFINE start == [before EXCEPT !.printed = <<>>]
<1>1. f = [k \in 0 .. n |-> IF k = 0 THEN start ELSE AfterOne(f[k - 1])]
  BY Zenon DEF Run, AfterOne
<1> HIDE DEF start
<1>2. \A k \in 0 .. n : f[k] = IF k = 0 THEN start ELSE AfterOne(f[k - 1])
  BY <1>1, Zenon
<1> QED BY <1>2 DEF start

\* One more instruction, unless the program ended.
LEMMA ReachesNext ==
  ASSUME NEW n \in Nat, NEW m, Reaches(n, m), ~m.ended
  PROVE  Reaches(n + 1, Sequential!Apply(m))
<1>1. PICK f : Run(f, n) /\ f[n] = m
  BY DEF Reaches
<1> DEFINE next == Sequential!Apply(m)
           g == [k \in 0 .. n + 1 |-> IF k = n + 1 THEN next ELSE f[k]]
           start == [before EXCEPT !.printed = <<>>]
<1>2. f[0] = start /\ \A k \in 0 .. n : k # 0 => f[k] = AfterOne(f[k - 1])
  BY <1>1, RunValues
<1>3. AfterOne(m) = next
  BY DEF AfterOne
<1>4. g = [k \in 0 .. n + 1 |-> IF k = 0 THEN start ELSE AfterOne(g[k - 1])]
  <2> SUFFICES ASSUME NEW k \in 0 .. n + 1
               PROVE  g[k] = IF k = 0 THEN start ELSE AfterOne(g[k - 1])
    BY Zenon
  <2> HIDE DEF start, next
  <2> QED BY <1>1, <1>2, <1>3
<1>5. Run(g, n + 1)
  BY <1>4, Zenon DEF Run, AfterOne
<1>6. g[n + 1] = next
  OBVIOUS
<1> HIDE DEF g
<1> QED BY <1>5, <1>6 DEF Reaches

\* Executed is what the machine reaches.
LEMMA ReachesExecuted ==
  ASSUME NEW n \in Nat, NEW m, Reaches(n, m), ~AtRest
  PROVE  Sequential!Executed(n) = m
<1>1. PICK f : Run(f, n) /\ f[n] = m
  BY DEF Reaches
<1> DEFINE g == CHOOSE g : Run(g, n)
<1>2. Sequential!Executed(n) = g[n]
  BY DEF Run, Sequential!Executed
<1>3. Run(g, n)
  BY <1>1, Zenon
<1> HIDE DEF g
<1> DEFINE T == {k \in Nat : k <= n => f[k] = g[k]}
<1>4. /\ f[0] = g[0]
      /\ \A k \in 0 .. n : k # 0 => f[k] = AfterOne(f[k - 1]) /\ g[k] = AfterOne(g[k - 1])
  BY <1>1, <1>3, RunValues
<1>5. 0 \in T
  BY <1>4
<1>6. ASSUME NEW k \in Nat, k \in T PROVE k + 1 \in T
  BY <1>4, <1>6
<1>7. Nat \subseteq T
  <2> HIDE DEF T
  <2> QED BY <1>5, <1>6, SetInduction
<1> QED BY <1>1, <1>2, <1>7

\* What the machine reaches depends on how the slice began alone.
LEMMA ReachesSame ==
  ASSUME NEW n, NEW m, program' = program, before' = before, Reaches(n, m)
  PROVE  Reaches(n, m)'
<1>1. PICK f : Run(f, n) /\ f[n] = m
  BY DEF Reaches
<1>2. Run(f, n)'
  BY <1>1 DEF Run, Sequential!Apply, Sequential!Next1
<1> QED BY <1>1, <1>2 DEF Reaches

-----------------------------------------------------------------------------
(* A slice implements InstructionSet *)

\* While a slice runs, the context agrees with the machine after some of its
\* instructions.
SliceAgrees ==
  ~AtRest => /\ ~before.ended
             /\ \E n \in Nat, m \in Machine :
                   Reaches(n, m) /\ Agrees(program, quantum, context, n, m)

SimulationInv == PipelineInv /\ Covered(program) /\ SliceAgrees

\* What is left when a slice is over.
LEMMA RestAgrees ==
  ASSUME NEW c \in Context, NEW q, NEW n \in Nat, NEW m \in Machine, c.counterForEnd = 0,
         Agrees(program, q, c, n, m)
  PROVE  Architectural(c) = m /\ n >= 1 /\ n <= q
<1>1. Entry(c, 3) = NOP /\ Entry(c, 4) = NOP
  BY DEF Entry
<1>2. \A reg, memory : LoadedBy(NOP, reg, memory) = reg /\ StoredBy(NOP, reg, memory) = memory
  BY NopOp DEF LoadedBy, StoredBy
<1>3. MemoryAtExecute(c) = c.memory /\ RegAtExecute(c) = c.reg
  BY <1>1, <1>2 DEF MemoryAtExecute, RegAtExecute
<1>4. /\ m.reg = c.reg /\ m.memory = c.memory /\ m.printed = c.ioRequests
      /\ m.pc = c.pc /\ (m.ended <=> c.endProgram) /\ n >= 1 /\ n <= q
  BY <1>1, <1>2, <1>3 DEF Agrees, DataAgrees, ControlAgrees, CountAgrees
<1>5. m.ended = c.endProgram
  BY <1>4 DEF Machine, Context
<1> QED BY <1>4, <1>5 DEF Machine, Architectural

\* A slice begins with the machine it finds.
LEMMA StartAgrees ==
  ASSUME SimulationInv, Start
  PROVE  SliceAgrees' /\ UNCHANGED Sequential!isaVars
<1>0. PICK m : m = [before' EXCEPT !.printed = <<>>]
  OBVIOUS
<1>1. /\ context \in Context /\ context' \in Context /\ PipelineInv'
      /\ AtRest /\ ~context.endProgram
  BY StartInv DEF SimulationInv, PipelineInv, PipelineTypeOK, StateInv, Start
<1>2. /\ context'.pc = context.pc /\ context'.reg = context.reg
      /\ context'.memory = context.memory /\ context'.ioRequests = <<>>
      /\ context'.counter = 0 /\ context'.counterForEnd = 5
      /\ before' = Architectural(context) /\ program' = program /\ quantum' = quantum
  BY <1>1 DEF Start, Context
<1>3. /\ m = [pc |-> context.pc, reg |-> context.reg, memory |-> context.memory,
               printed |-> <<>>, ended |-> context.endProgram]
      /\ ~before'.ended
  BY <1>0, <1>1, <1>2 DEF Architectural
<1>4. m \in Machine
  <2>1. <<>> \in Seq(Word)
    OBVIOUS
  <2> QED BY <1>1, <1>3, <2>1 DEF Machine, Context
<1>5. /\ Entry(context', 2) = NOP /\ Entry(context', 3) = NOP /\ Entry(context', 4) = NOP
  BY <1>2 DEF Entry
<1>6. \A reg, memory : LoadedBy(NOP, reg, memory) = reg /\ StoredBy(NOP, reg, memory) = memory
  BY NopOp DEF LoadedBy, StoredBy
<1>7. DataAgrees(context', m)
  BY <1>2, <1>3, <1>5, <1>6 DEF DataAgrees, RegAtExecute, MemoryAtExecute
<1>8. StoreWaits(context')
  BY <1>5, NopOp DEF StoreWaits
<1>9. ControlAgrees(program', context', 0, m) /\ CountAgrees(quantum', context', 0, m)
  BY <1>1, <1>2, <1>3 DEF ControlAgrees, CountAgrees
<1>10. Reaches(0, m)'
  <2> DEFINE f == [k \in 0 .. 0 |-> m]
  <2>1. f[0] = m
    OBVIOUS
  <2>2. Run(f, 0)'
    <3>1. \A k \in 0 .. 0 : k = 0
      OBVIOUS
    <3> QED BY <1>0, <3>1, Zenon DEF Run
  <2> HIDE DEF f
  <2> QED BY <2>1, <2>2 DEF Reaches
<1>11. SliceAgrees'
  <2>1. Agrees(program', quantum', context', 0, m)
    BY <1>7, <1>8, <1>9 DEF Agrees
  <2> QED BY <1>3, <1>4, <1>10, <2>1 DEF SliceAgrees
<1>12. UNCHANGED Sequential!isaVars
  BY <1>1, <1>2 DEF Sequential!isaVars, AtRest
<1> QED BY <1>11, <1>12

\* The cycles of a slice stutter, and the last one is the step of a slice.
LEMMA CycleAgrees ==
  ASSUME SimulationInv, Cycle
  PROVE  SliceAgrees' /\ [Sequential!Slice]_(Sequential!isaVars)
<1>1. /\ PipelineInv' /\ context' \in Context /\ ~AtRest /\ ~before.ended
      /\ program' = program /\ quantum' = quantum /\ before' = before
      /\ quantum \in Nat
  BY CycleInv, InstructionsAssumption
     DEF SimulationInv, SliceAgrees, PipelineInv, PipelineTypeOK, Cycle
<1>2. PICK n \in Nat, m \in Machine : Reaches(n, m) /\ Agrees(program, quantum, context, n, m)
  BY <1>1 DEF SimulationInv, SliceAgrees
<1>3. PICK k \in Nat, a \in Machine :
         /\ \/ k = n /\ a = m
            \/ k = n + 1 /\ ~m.ended /\ a = Sequential!Apply(m)
         /\ Agrees(program, quantum, context', k, a)
  BY <1>2, AgreesStep DEF SimulationInv
<1>4. Reaches(k, a)
  BY <1>2, <1>3, ReachesNext
<1>5. SliceAgrees'
  <2>1. Reaches(k, a)'
    BY <1>1, <1>4, ReachesSame
  <2>2. Agrees(program', quantum', context', k, a)
    BY <1>1, <1>3
  <2> QED BY <1>1, <2>1, <2>2 DEF SliceAgrees
<1>6. CASE AtRest'
  <2>1. Architectural(context') = a /\ k \in 1 .. quantum
    BY <1>1, <1>3, <1>6, RestAgrees DEF AtRest
  <2>2. Sequential!Executed(k) = a
    BY <1>1, <1>4, ReachesExecuted
  <2>3. Sequential!Slice
    BY <1>1, <1>6, <2>1, <2>2 DEF Sequential!Slice
  <2> QED BY <1>5, <2>3
<1>7. CASE ~AtRest'
  <2>1. UNCHANGED Sequential!isaVars
    BY <1>1, <1>7 DEF Sequential!isaVars
  <2> QED BY <1>5, <2>1
<1> QED BY <1>6, <1>7

\* A slice of a program that the stages cover computes what executing between
\* one and quantum of its instructions, each complete before the next begins,
\* computes, whatever cuts it: bubbles, branches, the quantum, PRINT or END
\* (CONTROL_UNIT.cpp:417-463).
THEOREM PipelineImplements ==
  PipelineSpec /\ Covered(program) => ImplementsInstructionSet
<1>1. PipelineInit /\ Covered(program) => SimulationInv
  BY InitInv DEF SimulationInv, SliceAgrees, PipelineInit, AtRest
<1>2. PipelineInit => Sequential!SequentialInit
  BY DEF PipelineInit, Sequential!SequentialInit, AtRest, Architectural
<1>3. SimulationInv /\ [PipelineNext]_pipelineVars =>
         SimulationInv' /\ [Sequential!Slice]_(Sequential!isaVars)
  <2> SUFFICES ASSUME SimulationInv, [PipelineNext]_pipelineVars
               PROVE  SimulationInv' /\ [Sequential!Slice]_(Sequential!isaVars)
    OBVIOUS
  <2>1. program' = program
    BY DEF PipelineNext, Start, Cycle, Done, pipelineVars
  <2>2. Covered(program)'
    BY <2>1 DEF SimulationInv, Covered, StoresBeforeWrites, NoEndBehindBranch, LoadsNoSign
  <2>3. CASE Start
    BY <2>2, <2>3, StartInv, StartAgrees DEF SimulationInv
  <2>4. CASE Cycle
    BY <2>2, <2>4, CycleInv, CycleAgrees DEF SimulationInv
  <2>5. CASE Done \/ UNCHANGED pipelineVars
    <3>1. UNCHANGED pipelineVars
      BY <2>5 DEF Done
    <3>2. /\ program' = program /\ quantum' = quantum /\ context' = context
          /\ before' = before
      BY <3>1 DEF pipelineVars
    <3>3. PipelineInv'
      BY <3>2 DEF SimulationInv, PipelineInv, PipelineTypeOK, FetchInv, DrainInv,
                  StateInv, SliceLength, BlockedByPrint, AtRest
    <3>4. SliceAgrees'
      <4>1. ASSUME NEW n \in Nat, NEW m \in Machine,
                   Reaches(n, m), Agrees(program, quantum, context, n, m)
            PROVE  Reaches(n, m)' /\ Agrees(program', quantum', context', n, m)
        BY <3>2, <4>1, ReachesSame
      <4> QED BY <3>2, <4>1 DEF SimulationInv, SliceAgrees, AtRest
    <3>5. UNCHANGED Sequential!isaVars
      BY <3>2 DEF Sequential!isaVars, AtRest
    <3> QED BY <2>2, <3>3, <3>4, <3>5 DEF SimulationInv
  <2> QED BY <2>3, <2>4, <2>5 DEF PipelineNext
<1> QED BY <1>1, <1>2, <1>3, PTL DEF PipelineSpec, ImplementsInstructionSet, Sequential!SequentialSpec
=============================================================================
