------------------------------ MODULE Assembler ------------------------------
(***************************************************************************)
(* From the instructions of a program file to the words in memory, and     *)
(* back: the encoder of parser_json/parser_json.cpp and the decoder of     *)
(* cpu/CONTROL_UNIT.cpp, which were written apart.  A word is a number     *)
(* made of fields, as wide as the code's but for the shift amount, so that *)
(* TLC's integers hold one.                                                *)
(*                                                                         *)
(* A node of a program is a record with the fields the file gives it.  A   *)
(* field that is there is well formed, but a register may be unknown.      *)
(***************************************************************************)
EXTENDS Integers, Sequences

CONSTANTS
  SHAMTS,    \* values of a shift amount: 32
  Capitals   \* names written with capitals -> the same in lower case

REGS == 32
FUNCTS == 64
IMMEDIATES == REGS * SHAMTS * FUNCTS   \* rd, shamt and funct take as many bits
ADDRESSES == REGS * REGS * IMMEDIATES
WORDS == 64 * ADDRESSES

ASSUME AssemblerAssumption == SHAMTS \in Nat \ {0}

-----------------------------------------------------------------------------
(* The tables of the parser *)

instructionMap ==
  [add |-> 0, sub |-> 0, and |-> 0, or |-> 0, mult |-> 0, div |-> 0, sll |-> 0,
   srl |-> 0, jr |-> 0, addi |-> 8, andi |-> 12, ori |-> 13, slti |-> 10, lw |-> 35,
   sw |-> 43, beq |-> 4, bne |-> 5, bgt |-> 7, blt |-> 9, li |-> 15, print |-> 62,
   end |-> 63, j |-> 2, jal |-> 3]

functMap ==
  [add |-> 32, sub |-> 34, and |-> 36, or |-> 37, mult |-> 24, div |-> 26, sll |-> 0,
   srl |-> 2, jr |-> 8]

\* The register of code c is registerMap[c + 1].
registerMap ==
  <<"$zero", "$at", "$v0", "$v1", "$a0", "$a1", "$a2", "$a3",
    "$t0", "$t1", "$t2", "$t3", "$t4", "$t5", "$t6", "$t7",
    "$s0", "$s1", "$s2", "$s3", "$s4", "$s5", "$s6", "$s7",
    "$t8", "$t9", "$k0", "$k1", "$gp", "$sp", "$fp", "$ra">>

\* Names in lower case are not in Capitals.
ASSUME CapitalsAssumption == DOMAIN Capitals \cap DOMAIN instructionMap = {}

toLower(name) == IF name \in DOMAIN Capitals THEN Capitals[name] ELSE name

isRegister(name) == \E i \in 1 .. REGS : registerMap[i] = toLower(name)
getRegisterCode(name) == (CHOOSE i \in 1 .. REGS : registerMap[i] = toLower(name)) - 1
getOpcode(mnem) == instructionMap[toLower(mnem)]

parseImmediate(number) == number % IMMEDIATES

-----------------------------------------------------------------------------
(* Labels *)

Has(node, field) == field \in DOMAIN node

Branches == {"beq", "bne", "bgt", "blt"}

\* What the first pass takes for a definition: the label of a branch is its
\* target, unless label1 is.
definesLabel(node) ==
  /\ Has(node, "label")
  /\ toLower(node.instruction) \in Branches \cup {"j", "jal"} => Has(node, "label1")

targetLabelName(node) ==
  IF Has(node, "label1") THEN node.label1 ELSE IF Has(node, "label") THEN node.label ELSE ""

-----------------------------------------------------------------------------
(* The encoder.  `labels' and `symbols' are labelMap and dataMap. *)

\* Mutant of buildBinaryInstruction: rs and rt trade places in an I-type word.
buildBinaryInstruction_Swapped(opcode, rs, rt, rd, shamt, funct, immediate, address) ==
  CASE opcode = 0 ->
         ((rs * REGS + rt) * REGS + rd) * SHAMTS * FUNCTS + (shamt % SHAMTS) * FUNCTS + funct
    [] opcode \in {2, 3} -> opcode * ADDRESSES + (address % ADDRESSES)
    [] OTHER -> opcode * ADDRESSES + (rt * REGS + rs) * IMMEDIATES + immediate

buildBinaryInstruction(opcode, rs, rt, rd, shamt, funct, immediate, address) ==
  CASE opcode = 0 ->
         ((rs * REGS + rt) * REGS + rd) * SHAMTS * FUNCTS + (shamt % SHAMTS) * FUNCTS + funct
    [] opcode \in {2, 3} -> opcode * ADDRESSES + (address % ADDRESSES)
    [] OTHER -> opcode * ADDRESSES + (rs * REGS + rt) * IMMEDIATES + immediate

\* Where the registers of a node are named: pairs of a field of the word and a
\* field of the node.
registersOf(node) ==
  LET mnem == node.instruction
  IN CASE mnem \in {"end", "print", "j", "jal"} -> {}
       [] mnem \in {"sll", "srl"} -> {<<"rd", "rd">>, <<"rt", "rt">>}
       [] mnem = "jr" -> {<<"rs", "rs">>}
       [] mnem \in DOMAIN functMap \ {"sll", "srl", "jr"} ->
            {<<"rd", "rd">>, <<"rs", "rs">>, <<"rt", "rt">>}
       [] mnem = "li" -> {<<"rt", "rt">>}
       [] mnem \in {"lw", "sw"} ->
            {<<"rt", "rt">>} \cup
            (IF ~Has(node, "addr") /\ Has(node, "baseReg") THEN {<<"rs", "baseReg">>} ELSE {})
       [] OTHER -> {<<"rs", "rs">>, <<"rt", "rt">>}

\* A field of the word: the register the node names, or register 0.
registerField(node, field) ==
  IF \E r \in registersOf(node) : r[1] = field
  THEN getRegisterCode(node[(CHOOSE r \in registersOf(node) : r[1] = field)[2]])
  ELSE 0

offsetOf(node) == IF Has(node, "offset") THEN parseImmediate(node.offset) ELSE 0

\* The immediate of lw and sw, and the base register of an addr expression.
memoryImmediate(node, symbols) ==
  CASE Has(node, "addr") -> parseImmediate(node.addr.offset)
    [] ~Has(node, "addr") /\ Has(node, "baseReg") -> offsetOf(node)
    [] OTHER -> (symbols[node.base] + offsetOf(node)) % IMMEDIATES
memoryBase(node) ==
  IF Has(node, "addr") THEN getRegisterCode(node.addr.base) ELSE registerField(node, "rs")

encodeRType(node) ==
  buildBinaryInstruction(0, registerField(node, "rs"), registerField(node, "rt"),
    registerField(node, "rd"),
    IF node.instruction \in {"sll", "srl"} THEN parseImmediate(node.shamt) ELSE 0,
    functMap[node.instruction], 0, 0)

encodeIType(node, labels, symbols) ==
  LET mnem == node.instruction
      word(opcode, rs, imm) ==
        buildBinaryInstruction(opcode, rs, registerField(node, "rt"), 0, 0, 0, imm, 0)
  IN CASE mnem = "li" -> word(getOpcode("addi"), 0, parseImmediate(node.immediate))
       [] mnem \in {"lw", "sw"} ->
            word(getOpcode(mnem), memoryBase(node), memoryImmediate(node, symbols))
       [] mnem \in Branches ->
            word(getOpcode(mnem), registerField(node, "rs"),
                 IF targetLabelName(node) # "" THEN labels[targetLabelName(node)] % IMMEDIATES
                 ELSE parseImmediate(node.offset))
       [] OTHER -> word(getOpcode(mnem), registerField(node, "rs"), parseImmediate(node.immediate))

encodeJType(node, labels) ==
  buildBinaryInstruction(getOpcode(node.instruction), 0, 0, 0, 0, 0, 0,
    IF Has(node, "label") \/ Has(node, "label1") THEN labels[targetLabelName(node)]
    ELSE node.address)

\* Mnemonics with capitals are none of those named: they are encoded as I-type.
parseInstruction(node, labels, symbols) ==
  CASE node.instruction \in {"end", "print"} -> getOpcode(node.instruction) * ADDRESSES
    [] node.instruction \in DOMAIN functMap -> encodeRType(node)
    [] node.instruction \in {"j", "jal"} -> encodeJType(node, labels)
    [] OTHER -> encodeIType(node, labels, symbols)

\* What else parseInstruction needs not to throw: the numbers and the labels.
operandsThere(node, labels, symbols) ==
  LET mnem == node.instruction
      target == targetLabelName(node)
  IN CASE mnem \in {"end", "print"} -> TRUE
       [] mnem \in {"sll", "srl"} -> Has(node, "shamt")
       [] mnem \in DOMAIN functMap \ {"sll", "srl"} -> TRUE
       [] mnem \in {"j", "jal"} ->
            IF Has(node, "label") \/ Has(node, "label1") THEN target \in DOMAIN labels
            ELSE Has(node, "address")
       [] mnem \in {"lw", "sw"} ->
            \/ Has(node, "addr") /\ isRegister(node.addr.base)
            \/ ~Has(node, "addr") /\ Has(node, "baseReg")
            \/ ~Has(node, "addr") /\ ~Has(node, "baseReg") /\ Has(node, "base")
                 /\ node.base \in DOMAIN symbols
       [] mnem \in Branches ->
            IF target # "" THEN target \in DOMAIN labels ELSE Has(node, "offset")
       [] OTHER -> Has(node, "immediate")

\* parseInstruction returns.
encodable(node, labels, symbols) ==
  /\ toLower(node.instruction) \in DOMAIN instructionMap
  /\ \A r \in registersOf(node) : Has(node, r[2]) /\ isRegister(node[r[2]])
  /\ operandsThere(node, labels, symbols)

-----------------------------------------------------------------------------
(* The decoder *)

Get_immediate(instruction) == instruction % IMMEDIATES
Get_destination_Register(instruction) == (instruction \div (SHAMTS * FUNCTS)) % REGS
Get_target_Register(instruction) == (instruction \div IMMEDIATES) % REGS
Get_source_Register(instruction) == (instruction \div (REGS * IMMEDIATES)) % REGS

functs == [ADD |-> 32, SUB |-> 34, MULT |-> 24, DIV |-> 26]

opcodes ==
  [J |-> 2, JAL |-> 3, BEQ |-> 4, BNE |-> 5, ADDI |-> 8, ADDIU |-> 9, LUI |-> 15,
   ANDI |-> 12, SLTI |-> 10, LW |-> 35, SW |-> 43, LI |-> 14, PRINT |-> 16, END |-> 63,
   BGT |-> 7, BLT |-> 1]

\* Any other word does nothing.
Identificacao_instrucao(instruction) ==
  LET opcode == instruction \div ADDRESSES
      named == IF opcode = 0 THEN {op \in DOMAIN functs : functs[op] = instruction % FUNCTS}
               ELSE {op \in DOMAIN opcodes : opcodes[op] = opcode}
  IN IF named = {} THEN "" ELSE CHOOSE op \in named : TRUE

\* The names of the registers, by code, as the control unit knows them.
binaryToName ==
  <<"zero", "at", "v0", "v1", "a0", "a1", "a2", "a3",
    "t0", "t1", "t2", "t3", "t4", "t5", "t6", "t7",
    "s0", "s1", "s2", "s3", "s4", "s5", "s6", "s7",
    "t8", "t9", "k0", "k1", "gp", "sp", "fp", "ra">>

\* They are the parser's names without the $, so Decode gives registers the names
\* that program files use.
ASSUME RegisterNamesAssumption ==
  \A i \in 1 .. REGS : registerMap[i] = "$" \o binaryToName[i]

DecodedOps == {"ADD", "SUB", "MULT", "DIV", "ADDI", "ADDIU", "LI", "LW", "SW", "BEQ", "BNE",
               "BGT", "BLT", "SLTI", "LUI", "J", "PRINT"}

\* What Decode takes from a word: the register fields are names, absent for
\* the instructions that have none.
Decode(instruction) ==
  LET op == Identificacao_instrucao(instruction)
      name(code) == "$" \o binaryToName[code + 1]
      rs == name(Get_source_Register(instruction))
      rt == name(Get_target_Register(instruction))
  IN CASE op \in {"ADD", "SUB", "MULT", "DIV"} ->
            [op |-> op, rs |-> rs, rt |-> rt,
             rd |-> name(Get_destination_Register(instruction))]
       [] op \in DecodedOps \ {"ADD", "SUB", "MULT", "DIV", "J", "PRINT"} ->
            [op |-> op, rs |-> rs, rt |-> rt, imm |-> Get_immediate(instruction)]
       [] op = "J" -> [op |-> op, imm |-> instruction % ADDRESSES]
       [] op = "PRINT" -> [op |-> op, rt |-> rt, imm |-> Get_immediate(instruction)]
       [] OTHER -> [op |-> op]
=============================================================================
