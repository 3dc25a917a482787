-------------------------- MODULE AssemblerProofs --------------------------
(***************************************************************************)
(* The fields the encoder puts in a word are those the decoder takes from  *)
(* it, for any width of the shift amount.                                  *)
(***************************************************************************)
EXTENDS Assembler, TLAPS

LEMMA Quotient ==
  ASSUME NEW K \in Nat \ {0}, NEW q \in Nat, NEW r \in 0 .. K - 1
  PROVE  (q * K + r) \div K = q /\ (q * K + r) % K = r
OBVIOUS

LEMMA Products ==
  /\ IMMEDIATES \in Nat \ {0} /\ SHAMTS * FUNCTS \in Nat \ {0}
  /\ IMMEDIATES = REGS * (SHAMTS * FUNCTS)
  /\ REGS * IMMEDIATES \in Nat \ {0}
  /\ ADDRESSES \in Nat \ {0} /\ ADDRESSES = REGS * (REGS * IMMEDIATES)
BY AssemblerAssumption DEF IMMEDIATES, ADDRESSES, REGS, FUNCTS

LEMMA Distribute ==
  ASSUME NEW a \in Nat, NEW B \in Nat, NEW c \in Nat, NEW K \in Nat
  PROVE  (a * B + c) * K = a * (B * K) + c * K
OBVIOUS

LEMMA Regroup ==
  ASSUME NEW a \in Int, NEW b \in Int, NEW c \in Int, NEW d \in Int, a = b + c
  PROVE  a + d = b + (c + d)
OBVIOUS

LEMMA Digits ==
  ASSUME NEW K \in Nat \ {0}, NEW B \in Nat \ {0}, NEW q \in 0 .. B - 1, NEW r \in 0 .. K - 1
  PROVE  q * K + r \in 0 .. B * K - 1
<1>1. (B - 1 - q) * K \in Nat /\ q * K \in Nat
  OBVIOUS
<1>2. B * K = (B - 1 - q) * K + q * K + K
  OBVIOUS
<1> QED BY <1>1, <1>2

\* An I-type word holds its opcode, registers and immediate.
THEOREM ITypeFields ==
  ASSUME NEW opcode \in 1 .. 63, opcode \notin {2, 3},
         NEW rs \in 0 .. REGS - 1, NEW rt \in 0 .. REGS - 1, NEW imm \in 0 .. IMMEDIATES - 1,
         NEW rd, NEW shamt, NEW funct, NEW address
  PROVE  LET word == buildBinaryInstruction(opcode, rs, rt, rd, shamt, funct, imm, address)
         IN /\ word \in 0 .. WORDS - 1
            /\ word \div ADDRESSES = opcode
            /\ Get_source_Register(word) = rs
            /\ Get_target_Register(word) = rt
            /\ Get_immediate(word) = imm
<1> DEFINE word == opcode * ADDRESSES + (rs * REGS + rt) * IMMEDIATES + imm
<1>1. buildBinaryInstruction(opcode, rs, rt, rd, shamt, funct, imm, address) = word
  BY DEF buildBinaryInstruction
<1>2. word \div IMMEDIATES = (opcode * REGS + rs) * REGS + rt /\ word % IMMEDIATES = imm
  <2>1. word = ((opcode * REGS + rs) * REGS + rt) * IMMEDIATES + imm
    BY Products DEF REGS
  <2>2. (opcode * REGS + rs) * REGS + rt \in Nat
    BY DEF REGS
  <2> HIDE DEF word
  <2> QED BY <2>1, <2>2, Products, Quotient
<1>3. word \div (REGS * IMMEDIATES) = opcode * REGS + rs
  <2>1. word = (opcode * REGS + rs) * (REGS * IMMEDIATES) + (rt * IMMEDIATES + imm)
    <3>1. opcode * ADDRESSES + rs * (REGS * IMMEDIATES) = (opcode * REGS + rs) * (REGS * IMMEDIATES)
      BY Products, Distribute DEF REGS
    <3>2. (rs * REGS + rt) * IMMEDIATES = rs * (REGS * IMMEDIATES) + rt * IMMEDIATES
      BY Products, Distribute DEF REGS
    <3>3. /\ opcode * ADDRESSES \in Int /\ rs * (REGS * IMMEDIATES) \in Int
          /\ (opcode * REGS + rs) * (REGS * IMMEDIATES) \in Int /\ rt * IMMEDIATES \in Int
      BY Products DEF REGS
    <3> QED BY <3>1, <3>2, <3>3
  <2>2. opcode * REGS + rs \in Nat
    BY DEF REGS
  <2>3. rt * IMMEDIATES + imm \in 0 .. REGS * IMMEDIATES - 1
    BY Products, Digits DEF REGS
  <2> HIDE DEF word
  <2> DEFINE K == REGS * IMMEDIATES
             low == rt * IMMEDIATES + imm
  <2>4. word = (opcode * REGS + rs) * K + low /\ K \in Nat \ {0} /\ low \in 0 .. K - 1
    BY <2>1, <2>3, Products
  <2> HIDE DEF K, low
  <2>5. word \div K = opcode * REGS + rs
    BY <2>2, <2>4, Quotient
  <2> QED BY <2>5 DEF K
<1>4. word \div ADDRESSES = opcode /\ word \in 0 .. WORDS - 1
  <2>1. (rs * REGS + rt) * IMMEDIATES + imm \in 0 .. ADDRESSES - 1
    BY Products DEF REGS
  <2>2. word = opcode * ADDRESSES + ((rs * REGS + rt) * IMMEDIATES + imm)
    BY Products DEF REGS
  <2>3. word \in 0 .. WORDS - 1
    BY <2>1, <2>2, Products DEF WORDS
  <2> HIDE DEF word
  <2> QED BY <2>1, <2>2, <2>3, Products, Quotient
<1>5. /\ ((opcode * REGS + rs) * REGS + rt) % REGS = rt
      /\ (opcode * REGS + rs) % REGS = rs
  BY DEF REGS
<1> HIDE DEF word
<1> QED BY <1>1, <1>2, <1>3, <1>4, <1>5
        DEF Get_source_Register, Get_target_Register, Get_immediate

\* A J-type word holds its opcode and address.
THEOREM JTypeFields ==
  ASSUME NEW opcode \in {2, 3}, NEW address \in Nat,
         NEW rs, NEW rt, NEW rd, NEW shamt, NEW funct, NEW imm
  PROVE  LET word == buildBinaryInstruction(opcode, rs, rt, rd, shamt, funct, imm, address)
         IN /\ word \in 0 .. WORDS - 1
            /\ word \div ADDRESSES = opcode
            /\ word % ADDRESSES = address % ADDRESSES
<1> DEFINE low == address % ADDRESSES
           word == opcode * ADDRESSES + low
<1>1. buildBinaryInstruction(opcode, rs, rt, rd, shamt, funct, imm, address) = word
  BY DEF buildBinaryInstruction
<1>2. low \in 0 .. ADDRESSES - 1
  BY Products
<1> HIDE DEF low
<1>3. word \div ADDRESSES = opcode /\ word % ADDRESSES = low
  <2>1. opcode \in Nat
    OBVIOUS
  <2> QED BY <1>2, <2>1, Products, Quotient
<1>4. word \in 0 .. WORDS - 1
  BY <1>2, Products DEF WORDS
<1> HIDE DEF word
<1> QED BY <1>1, <1>3, <1>4 DEF low

\* An R-type word holds opcode 0, its registers and its function.
THEOREM RTypeFields ==
  ASSUME NEW rs \in 0 .. REGS - 1, NEW rt \in 0 .. REGS - 1, NEW rd \in 0 .. REGS - 1,
         NEW shamt \in Nat, NEW funct \in 0 .. FUNCTS - 1, NEW imm, NEW address
  PROVE  LET word == buildBinaryInstruction(0, rs, rt, rd, shamt, funct, imm, address)
         IN /\ word \in 0 .. WORDS - 1
            /\ word \div ADDRESSES = 0
            /\ Get_source_Register(word) = rs
            /\ Get_target_Register(word) = rt
            /\ Get_destination_Register(word) = rd
            /\ word % FUNCTS = funct
<1> DEFINE SF == SHAMTS * FUNCTS
           names == (rs * REGS + rt) * REGS + rd
           low == (shamt % SHAMTS) * FUNCTS + funct
           word == names * SHAMTS * FUNCTS + low
<1>1. buildBinaryInstruction(0, rs, rt, rd, shamt, funct, imm, address) = word
  <2>1. names \in Nat
    BY DEF REGS
  <2>2. /\ names * SHAMTS * FUNCTS \in Nat /\ (shamt % SHAMTS) * FUNCTS \in Nat /\ funct \in Nat
    BY <2>1, AssemblerAssumption DEF FUNCTS
  <2>3. buildBinaryInstruction(0, rs, rt, rd, shamt, funct, imm, address) =
          names * SHAMTS * FUNCTS + (shamt % SHAMTS) * FUNCTS + funct
    BY DEF buildBinaryInstruction
  <2> HIDE DEF names
  <2> QED BY <2>2, <2>3
<1>2. /\ SF \in Nat \ {0} /\ IMMEDIATES = REGS * SF
      /\ names \in Nat /\ low \in 0 .. SF - 1
  <2>1. shamt % SHAMTS \in 0 .. SHAMTS - 1
    BY AssemblerAssumption
  <2>2. low \in 0 .. SHAMTS * FUNCTS - 1
    BY <2>1, Digits, AssemblerAssumption DEF FUNCTS
  <2> QED BY <2>2, Products DEF REGS
<1>3. word = names * SF + low
  <2>1. names * SHAMTS * FUNCTS = names * (SHAMTS * FUNCTS)
    BY <1>2, AssemblerAssumption DEF FUNCTS
  <2> QED BY <2>1
<1>4. word % FUNCTS = funct
  <2> DEFINE sh == shamt % SHAMTS
             high == names * SHAMTS + sh
  <2>1. sh \in Nat /\ SHAMTS \in Nat /\ FUNCTS \in Nat \ {0}
    BY AssemblerAssumption DEF FUNCTS
  <2> HIDE DEF sh, names
  <2>2. high * FUNCTS = names * SF + sh * FUNCTS
    BY <1>2, <2>1, Distribute
  <2>3. high \in Nat /\ high * FUNCTS \in Int /\ names * SF \in Int /\ sh * FUNCTS \in Int
    BY <1>2, <2>1
  <2>4. word = high * FUNCTS + funct
    <3> HIDE DEF high, SF, word
    <3>1. high * FUNCTS + funct = names * SF + (sh * FUNCTS + funct)
      BY <2>2, <2>3, Regroup
    <3> QED BY <1>3, <3>1 DEF sh
  <2> HIDE DEF high, word
  <2> QED BY <2>1, <2>3, <2>4, Quotient DEF FUNCTS
<1>5. word \div SF = names
  <2> HIDE DEF SF, names, low, word
  <2> QED BY <1>2, <1>3, Quotient
<1>6. names * SF = (rs * REGS + rt) * IMMEDIATES + rd * SF
  <2> DEFINE q == rs * REGS + rt
  <2>1. q \in Nat /\ REGS \in Nat /\ rd \in Nat
    BY DEF REGS
  <2> HIDE DEF q, SF
  <2>2. (q * REGS + rd) * SF = q * (REGS * SF) + rd * SF
    BY <1>2, <2>1, Distribute
  <2> QED BY <1>2, <2>2 DEF q
<1>7. word \div IMMEDIATES = rs * REGS + rt
  <2>1. rd * SF + low \in 0 .. IMMEDIATES - 1
    <3> HIDE DEF SF, low
    <3> QED BY <1>2, Digits DEF REGS
  <2>2. word = (rs * REGS + rt) * IMMEDIATES + (rd * SF + low)
    <3>1. names * SF = (rs * REGS + rt) * IMMEDIATES + rd * SF
      BY <1>6
    <3>2. names * SF \in Int /\ (rs * REGS + rt) * IMMEDIATES \in Int /\ rd * SF \in Int
      BY <1>2, Products DEF REGS
    <3>3. low \in Int
      BY <1>2
    <3> HIDE DEF SF, names, low, word
    <3> QED BY <1>3, <3>1, <3>2, <3>3, Regroup
  <2>3. rs * REGS + rt \in Nat
    BY DEF REGS
  <2> DEFINE rest == rd * SF + low
             q == rs * REGS + rt
  <2>4. word = q * IMMEDIATES + rest /\ q \in Nat /\ rest \in 0 .. IMMEDIATES - 1
    BY <2>1, <2>2, <2>3
  <2> HIDE DEF rest, q, word
  <2>5. IMMEDIATES \in Nat \ {0}
    BY Products
  <2>6. word \div IMMEDIATES = q
    BY <2>4, <2>5, Quotient
  <2> QED BY <2>6 DEF q
<1>8. word \div (REGS * IMMEDIATES) = rs /\ word \div ADDRESSES = 0 /\ word \in 0 .. WORDS - 1
  <2> DEFINE K == REGS * IMMEDIATES
             rest == rt * IMMEDIATES + (rd * SF + low)
  <2>1. rd * SF + low \in 0 .. IMMEDIATES - 1
    <3> HIDE DEF SF, low
    <3> QED BY <1>2, Digits DEF REGS
  <2>2. rest \in 0 .. K - 1
    <3> DEFINE r == rd * SF + low
    <3>1. r \in 0 .. IMMEDIATES - 1
      BY <2>1
    <3> HIDE DEF r
    <3>2. rt * IMMEDIATES + r \in 0 .. REGS * IMMEDIATES - 1
      BY <3>1, Products, Digits DEF REGS
    <3> QED BY <3>2 DEF r
  <2>3. word = rs * K + rest
    <3>1. names * SF = (rs * REGS + rt) * IMMEDIATES + rd * SF
      BY <1>6
    <3>2. (rs * REGS + rt) * IMMEDIATES = rs * (REGS * IMMEDIATES) + rt * IMMEDIATES
      BY Products, Distribute DEF REGS
    <3>3. /\ names * SF \in Int /\ (rs * REGS + rt) * IMMEDIATES \in Int /\ rd * SF \in Int
          /\ rs * (REGS * IMMEDIATES) \in Int /\ rt * IMMEDIATES \in Int /\ low \in Int
      BY <1>2, Products DEF REGS
    <3> DEFINE a == names * SF
               b == (rs * REGS + rt) * IMMEDIATES
               c == rd * SF
               d == rs * (REGS * IMMEDIATES)
               e == rt * IMMEDIATES
    <3>4. a = b + c /\ b = d + e /\ word = a + low
      BY <1>3, <3>1, <3>2
    <3>5. a \in Int /\ b \in Int /\ c \in Int /\ d \in Int /\ e \in Int
      BY <3>3
    <3> HIDE DEF a, b, c, d, e, low, word
    <3>6. word = d + (e + (c + low))
      BY <3>3, <3>4, <3>5
    <3> QED BY <3>6 DEF c, d, e
  <2>4. K \in Nat \ {0} /\ ADDRESSES = REGS * K
    BY Products
  <2> HIDE DEF K, rest, word
  <2>5. word \div K = rs
    BY <2>2, <2>3, <2>4, Quotient DEF REGS
  <2>6. word \in 0 .. ADDRESSES - 1
    BY <2>2, <2>3, <2>4, Digits DEF REGS
  <2>7. word \div ADDRESSES = 0
    <3>1. word = 0 * ADDRESSES + word
      BY <2>6, Products
    <3> QED BY <2>6, <3>1, Products, Quotient
  <2> QED BY <2>5, <2>6, <2>7, Products DEF K, WORDS
<1>9. names % REGS = rd /\ (rs * REGS + rt) % REGS = rt /\ rs % REGS = rs
  BY DEF REGS
<1> HIDE DEF word, names, low
<1> QED BY <1>1, <1>4, <1>5, <1>7, <1>8, <1>9
        DEF Get_source_Register, Get_target_Register, Get_destination_Register

-----------------------------------------------------------------------------
(* What parseInstruction returns is a word *)

LEMMA BuiltIsWord ==
  ASSUME NEW opcode \in 0 .. 63, NEW rs \in 0 .. REGS - 1, NEW rt \in 0 .. REGS - 1,
         NEW rd \in 0 .. REGS - 1, NEW shamt \in Nat, NEW funct \in 0 .. FUNCTS - 1,
         NEW imm \in 0 .. IMMEDIATES - 1, NEW address \in Nat
  PROVE  buildBinaryInstruction(opcode, rs, rt, rd, shamt, funct, imm, address) \in 0 .. WORDS - 1
<1>1. CASE opcode = 0
  BY <1>1, RTypeFields
<1>2. CASE opcode \in {2, 3}
  BY <1>2, JTypeFields
<1>3. CASE opcode \in 1 .. 63 /\ opcode \notin {2, 3}
  BY <1>3, ITypeFields
<1> QED BY <1>1, <1>2, <1>3

LEMMA OpcodeRange ==
  ASSUME NEW mnem, toLower(mnem) \in DOMAIN instructionMap
  PROVE  getOpcode(mnem) \in 0 .. 63
BY DEF getOpcode, instructionMap

LEMMA FunctRange == \A mnem \in DOMAIN functMap : functMap[mnem] \in 0 .. FUNCTS - 1
BY DEF functMap, FUNCTS

LEMMA RegisterRange ==
  ASSUME NEW name, isRegister(name)
  PROVE  getRegisterCode(name) \in 0 .. REGS - 1
BY DEF isRegister, getRegisterCode, REGS

\* The numbers of a node and of the maps are numbers.
Numeric(node, labels, symbols) ==
  /\ \A field \in {"immediate", "offset", "shamt"} : Has(node, field) => node[field] \in Int
  /\ Has(node, "address") => node.address \in Nat
  /\ Has(node, "addr") => node.addr.offset \in Int
  /\ \A l \in DOMAIN labels : labels[l] \in Nat
  /\ \A l \in DOMAIN symbols : symbols[l] \in Nat

LEMMA FieldRange ==
  ASSUME NEW node, NEW labels, NEW symbols, encodable(node, labels, symbols), NEW field
  PROVE  registerField(node, field) \in 0 .. REGS - 1
<1>1. CASE \E r \in registersOf(node) : r[1] = field
  <2> DEFINE r == CHOOSE r \in registersOf(node) : r[1] = field
  <2>1. r \in registersOf(node)
    BY <1>1
  <2>2. isRegister(node[r[2]])
    BY <2>1 DEF encodable
  <2>3. registerField(node, field) = getRegisterCode(node[r[2]])
    BY <1>1 DEF registerField
  <2> HIDE DEF r
  <2> QED BY <2>2, <2>3, RegisterRange
<1>2. CASE ~\E r \in registersOf(node) : r[1] = field
  BY <1>2 DEF registerField, REGS
<1> QED BY <1>1, <1>2

LEMMA ImmediateRange ==
  ASSUME NEW number \in Int
  PROVE  /\ parseImmediate(number) \in 0 .. IMMEDIATES - 1
         /\ number % IMMEDIATES \in 0 .. IMMEDIATES - 1
BY Products DEF parseImmediate

\* Whatever a program says, an instruction that is encoded is a word.
THEOREM EncodedIsWord ==
  ASSUME NEW node, NEW labels, NEW symbols,
         Numeric(node, labels, symbols), encodable(node, labels, symbols)
  PROVE  parseInstruction(node, labels, symbols) \in 0 .. WORDS - 1
<1> DEFINE mnem == node.instruction
           rs == registerField(node, "rs")
           rt == registerField(node, "rt")
           rd == registerField(node, "rd")
<1>1. rs \in 0 .. REGS - 1 /\ rt \in 0 .. REGS - 1 /\ rd \in 0 .. REGS - 1
  BY FieldRange
<1>2. getOpcode(mnem) \in 0 .. 63 /\ operandsThere(node, labels, symbols)
  BY OpcodeRange DEF encodable
<1>3. 0 \in 0 .. REGS - 1 /\ 0 \in Nat /\ 0 \in 0 .. FUNCTS - 1 /\ 0 \in 0 .. IMMEDIATES - 1
      /\ 0 \in 0 .. 63
  BY Products DEF REGS, FUNCTS
<1>4. CASE mnem \in {"end", "print"}
  <2>1. parseInstruction(node, labels, symbols) = getOpcode(mnem) * ADDRESSES
    BY <1>4 DEF parseInstruction, functMap
  <2>2. 0 \in 0 .. ADDRESSES - 1 /\ 64 \in Nat \ {0} /\ getOpcode(mnem) \in 0 .. 64 - 1
    BY <1>2, Products
  <2>3. getOpcode(mnem) * ADDRESSES + 0 \in 0 .. 64 * ADDRESSES - 1
    BY <2>2, Products, Digits
  <2>4. getOpcode(mnem) * ADDRESSES \in Int
    BY <1>2, Products
  <2> QED BY <2>1, <2>3, <2>4 DEF WORDS
<1>5. CASE mnem \notin {"end", "print"} /\ mnem \in DOMAIN functMap
  <2> DEFINE sh == IF mnem \in {"sll", "srl"} THEN parseImmediate(node.shamt) ELSE 0
  <2>1. parseInstruction(node, labels, symbols) =
          buildBinaryInstruction(0, rs, rt, rd, sh, functMap[mnem], 0, 0)
    BY <1>5 DEF parseInstruction, encodeRType, functMap
  <2>2. sh \in Nat
    <3>1. CASE mnem \in {"sll", "srl"}
      <4>1. node.shamt \in Int
        BY <1>2, <3>1 DEF operandsThere, Numeric, functMap, Branches
      <4>2. parseImmediate(node.shamt) \in 0 .. IMMEDIATES - 1
        BY <4>1, ImmediateRange
      <4> QED BY <3>1, <4>2, Products
    <3> QED BY <3>1
  <2> DEFINE funct == functMap[mnem]
  <2>3. funct \in 0 .. FUNCTS - 1
    BY <1>5, FunctRange
  <2> HIDE DEF sh, rs, rt, rd, funct
  <2>4. buildBinaryInstruction(0, rs, rt, rd, sh, funct, 0, 0) \in 0 .. WORDS - 1
    BY <1>1, <1>3, <2>2, <2>3, BuiltIsWord
  <2> QED BY <2>1, <2>4 DEF funct
<1>6. CASE mnem \in {"j", "jal"}
  <2> DEFINE address == IF Has(node, "label") \/ Has(node, "label1")
                        THEN labels[targetLabelName(node)] ELSE node.address
  <2>1. parseInstruction(node, labels, symbols) =
          buildBinaryInstruction(getOpcode(mnem), 0, 0, 0, 0, 0, 0, address)
    BY <1>6 DEF parseInstruction, encodeJType, functMap
  <2>2. address \in Nat
    BY <1>2, <1>6 DEF operandsThere, Numeric, functMap, Branches
  <2> DEFINE opcode == getOpcode(mnem)
             none == 0
  <2>3. /\ none \in 0 .. REGS - 1 /\ none \in Nat /\ none \in 0 .. FUNCTS - 1
        /\ none \in 0 .. IMMEDIATES - 1 /\ opcode \in 0 .. 63
    BY <1>2, <1>3
  <2> HIDE DEF address, opcode, none
  <2>4. buildBinaryInstruction(opcode, none, none, none, none, none, none, address)
          \in 0 .. WORDS - 1
    BY <2>2, <2>3, BuiltIsWord
  <2> QED BY <2>1, <2>4 DEF opcode, none
<1>7. CASE mnem \notin {"end", "print", "j", "jal"} \cup DOMAIN functMap
  <2>1. parseInstruction(node, labels, symbols) = encodeIType(node, labels, symbols)
    BY <1>7 DEF parseInstruction
  <2>2. \A opcode \in 0 .. 63, base \in 0 .. REGS - 1, imm \in 0 .. IMMEDIATES - 1 :
          buildBinaryInstruction(opcode, base, rt, 0, 0, 0, imm, 0) \in 0 .. WORDS - 1
    <3> HIDE DEF rt
    <3> QED BY <1>1, <1>3, BuiltIsWord
  <2>3. CASE mnem = "li"
    <3>1. getOpcode("addi") \in 0 .. 63
      BY CapitalsAssumption DEF getOpcode, instructionMap, toLower
    <3>2. parseImmediate(node.immediate) \in 0 .. IMMEDIATES - 1
      BY <1>2, <2>3, ImmediateRange DEF operandsThere, Numeric, functMap, Branches
    <3>3. encodeIType(node, labels, symbols) =
            buildBinaryInstruction(getOpcode("addi"), 0, rt, 0, 0, 0,
                                   parseImmediate(node.immediate), 0)
      BY <2>3 DEF encodeIType, Branches
    <3> QED BY <1>3, <2>1, <2>2, <3>1, <3>2, <3>3
  <2>4. CASE mnem \in {"lw", "sw"}
    <3>1. memoryBase(node) \in 0 .. REGS - 1
      BY <1>1, <1>2, <2>4, RegisterRange DEF memoryBase, operandsThere, functMap, Branches
    <3>2. offsetOf(node) \in Nat
      BY ImmediateRange, Products DEF offsetOf, Numeric
    <3>3. memoryImmediate(node, symbols) \in 0 .. IMMEDIATES - 1
      <4>1. CASE Has(node, "addr")
        BY <4>1, ImmediateRange DEF memoryImmediate, Numeric
      <4>2. CASE ~Has(node, "addr") /\ Has(node, "baseReg")
        BY <4>2, ImmediateRange, <1>3 DEF memoryImmediate, offsetOf, Numeric
      <4>3. CASE ~Has(node, "addr") /\ ~Has(node, "baseReg")
        <5>1. symbols[node.base] \in Nat
          BY <1>2, <2>4, <4>3 DEF operandsThere, functMap, Branches, Numeric
        <5> QED BY <3>2, <4>3, <5>1, ImmediateRange DEF memoryImmediate
      <4> QED BY <4>1, <4>2, <4>3
    <3>4. encodeIType(node, labels, symbols) =
            buildBinaryInstruction(getOpcode(mnem), memoryBase(node), rt, 0, 0, 0,
                                   memoryImmediate(node, symbols), 0)
      BY <2>4 DEF encodeIType, Branches
    <3> QED BY <1>2, <2>1, <2>2, <3>1, <3>3, <3>4
  <2>5. CASE mnem \in Branches
    <3> DEFINE imm == IF targetLabelName(node) # ""
                      THEN labels[targetLabelName(node)] % IMMEDIATES
                      ELSE parseImmediate(node.offset)
    <3>1. imm \in 0 .. IMMEDIATES - 1
      <4>1. CASE targetLabelName(node) # ""
        <5>1. labels[targetLabelName(node)] \in Nat
          BY <1>2, <2>5, <4>1 DEF operandsThere, functMap, Branches, Numeric
        <5>2. labels[targetLabelName(node)] % IMMEDIATES \in 0 .. IMMEDIATES - 1
          BY <5>1, ImmediateRange
        <5> QED BY <4>1, <5>2
      <4>2. CASE targetLabelName(node) = ""
        <5>1. node.offset \in Int
          BY <1>2, <2>5, <4>2 DEF operandsThere, functMap, Branches, Numeric
        <5> QED BY <4>2, <5>1, ImmediateRange
      <4> QED BY <4>1, <4>2
    <3>2. encodeIType(node, labels, symbols) =
            buildBinaryInstruction(getOpcode(mnem), rs, rt, 0, 0, 0, imm, 0)
      BY <2>5 DEF encodeIType, Branches
    <3> HIDE DEF imm
    <3> QED BY <1>1, <1>2, <2>1, <2>2, <3>1, <3>2
  <2>6. CASE mnem \notin {"li", "lw", "sw"} \cup Branches
    <3>1. parseImmediate(node.immediate) \in 0 .. IMMEDIATES - 1
      BY <1>2, <1>7, <2>6, ImmediateRange DEF operandsThere, functMap, Numeric
    <3>2. encodeIType(node, labels, symbols) =
            buildBinaryInstruction(getOpcode(mnem), rs, rt, 0, 0, 0,
                                   parseImmediate(node.immediate), 0)
      BY <2>6 DEF encodeIType
    <3> QED BY <1>1, <1>2, <2>1, <2>2, <3>1, <3>2
  <2> QED BY <2>3, <2>4, <2>5, <2>6
<1> QED BY <1>4, <1>5, <1>6, <1>7

-----------------------------------------------------------------------------
(* What the decoder makes of the words *)

\* The name the decoder gives a register.
registerName(code) == "$" \o binaryToName[code + 1]

\* It is the name the encoder looked up.
LEMMA RegisterRead ==
  ASSUME NEW name, isRegister(name)
  PROVE  registerName(getRegisterCode(name)) = toLower(name)
<1> DEFINE i == CHOOSE i \in 1 .. REGS : registerMap[i] = toLower(name)
<1>1. i \in 1 .. REGS /\ registerMap[i] = toLower(name)
  BY DEF isRegister
<1>2. getRegisterCode(name) = i - 1
  BY DEF getRegisterCode
<1> HIDE DEF i
<1>3. (i - 1) + 1 = i
  BY <1>1
<1>4. registerName(i - 1) = "$" \o binaryToName[i]
  BY <1>3 DEF registerName
<1>5. registerMap[i] = "$" \o binaryToName[i]
  BY <1>1, RegisterNamesAssumption
<1> QED BY <1>1, <1>2, <1>4, <1>5

NamesOpcode(op, code) == op \in DOMAIN opcodes /\ opcodes[op] = code
NoOpcode(code) == \A op \in DOMAIN opcodes : opcodes[op] # code
NamesFunct(op, code) == op \in DOMAIN functs /\ functs[op] = code
NoFunct(code) == \A op \in DOMAIN functs : functs[op] # code

\* An opcode other than 0 has at most one name.
LEMMA OpcodeNamed ==
  ASSUME NEW word, word \div ADDRESSES # 0
  PROVE  /\ \A op : NamesOpcode(op, word \div ADDRESSES) => Identificacao_instrucao(word) = op
         /\ NoOpcode(word \div ADDRESSES) => Identificacao_instrucao(word) = ""
<1> DEFINE opcode == word \div ADDRESSES
           named == {op \in DOMAIN opcodes : opcodes[op] = opcode}
<1>1. Identificacao_instrucao(word) = IF named = {} THEN "" ELSE CHOOSE op \in named : TRUE
  BY DEF Identificacao_instrucao
<1>2. \A op, op2 \in DOMAIN opcodes : opcodes[op] = opcodes[op2] => op = op2
  BY DEF opcodes
<1> HIDE DEF opcode
<1>3. \A op \in DOMAIN opcodes : opcodes[op] = opcode => named = {op}
  BY <1>2
<1> HIDE DEF named
<1>4. \A op : named = {op} => (CHOOSE x \in named : TRUE) = op
  OBVIOUS
<1>5. ASSUME NEW op \in DOMAIN opcodes, opcodes[op] = opcode
      PROVE  Identificacao_instrucao(word) = op
  BY <1>1, <1>3, <1>4, <1>5
<1>6. ASSUME \A op \in DOMAIN opcodes : opcodes[op] # opcode
      PROVE  Identificacao_instrucao(word) = ""
  BY <1>1, <1>6 DEF named
<1> QED BY <1>5, <1>6 DEF opcode, NamesOpcode, NoOpcode

\* So has a function of opcode 0.
LEMMA FunctNamed ==
  ASSUME NEW word, word \div ADDRESSES = 0
  PROVE  /\ \A op : NamesFunct(op, word % FUNCTS) => Identificacao_instrucao(word) = op
         /\ NoFunct(word % FUNCTS) => Identificacao_instrucao(word) = ""
<1> DEFINE funct == word % FUNCTS
           named == {op \in DOMAIN functs : functs[op] = funct}
<1>1. Identificacao_instrucao(word) = IF named = {} THEN "" ELSE CHOOSE op \in named : TRUE
  BY DEF Identificacao_instrucao
<1>2. \A op, op2 \in DOMAIN functs : functs[op] = functs[op2] => op = op2
  BY DEF functs
<1> HIDE DEF funct
<1>3. \A op \in DOMAIN functs : functs[op] = funct => named = {op}
  BY <1>2
<1> HIDE DEF named
<1>4. \A op : named = {op} => (CHOOSE x \in named : TRUE) = op
  OBVIOUS
<1>5. ASSUME NEW op \in DOMAIN functs, functs[op] = funct
      PROVE  Identificacao_instrucao(word) = op
  BY <1>1, <1>3, <1>4, <1>5
<1>6. ASSUME \A op \in DOMAIN functs : functs[op] # funct
      PROVE  Identificacao_instrucao(word) = ""
  BY <1>1, <1>6 DEF named
<1> QED BY <1>5, <1>6 DEF funct, NamesFunct, NoFunct

ImmediateOps == DecodedOps \ {"ADD", "SUB", "MULT", "DIV", "J", "PRINT"}

\* What an I-type word is decoded to: its fields, if its opcode is one the
\* decoder takes the fields of.
ITypeRead(word, opcode, rs, rt, imm) ==
  /\ \A op \in ImmediateOps : opcodes[op] = opcode =>
       Decode(word) = [op |-> op, rs |-> registerName(rs), rt |-> registerName(rt), imm |-> imm]
  /\ opcode = 12 => Decode(word) = [op |-> "ANDI"]
  /\ opcode = 13 => Decode(word) = [op |-> ""]

LEMMA ITypeDecoded ==
  ASSUME NEW opcode \in 1 .. 63, opcode \notin {2, 3},
         NEW rs \in 0 .. REGS - 1, NEW rt \in 0 .. REGS - 1, NEW imm \in 0 .. IMMEDIATES - 1,
         NEW rd, NEW shamt, NEW funct, NEW address,
         NEW word, word = buildBinaryInstruction(opcode, rs, rt, rd, shamt, funct, imm, address)
  PROVE  ITypeRead(word, opcode, rs, rt, imm)
<1>1. /\ word \div ADDRESSES = opcode /\ Get_immediate(word) = imm
      /\ Get_source_Register(word) = rs /\ Get_target_Register(word) = rt
  BY ITypeFields
<1>2. opcode # 0
  OBVIOUS
<1>3. ASSUME NEW op \in ImmediateOps, opcodes[op] = opcode
      PROVE  Decode(word) = [op |-> op, rs |-> registerName(rs), rt |-> registerName(rt),
                             imm |-> imm]
  <2>1. NamesOpcode(op, opcode)
    BY <1>3 DEF ImmediateOps, DecodedOps, opcodes, NamesOpcode
  <2>2. Identificacao_instrucao(word) = op
    BY <1>1, <1>2, <2>1, OpcodeNamed
  <2> QED BY <1>1, <1>3, <2>2 DEF Decode, ImmediateOps, registerName
<1>4. CASE opcode = 12
  <2>1. NamesOpcode("ANDI", 12)
    BY DEF opcodes, NamesOpcode
  <2>2. Identificacao_instrucao(word) = "ANDI"
    BY <1>1, <1>2, <1>4, <2>1, OpcodeNamed
  <2>3. \A op \in ImmediateOps : opcodes[op] # 12
    BY DEF ImmediateOps, DecodedOps, opcodes
  <2>4. Decode(word) = [op |-> "ANDI"]
    BY <2>2 DEF Decode, DecodedOps
  <2> QED BY <1>4, <2>3, <2>4 DEF ITypeRead
<1>5. CASE opcode = 13
  <2>1. NoOpcode(13)
    BY DEF opcodes, NoOpcode
  <2>2. Identificacao_instrucao(word) = ""
    BY <1>1, <1>2, <1>5, <2>1, OpcodeNamed
  <2>3. opcode # 12 /\ \A op \in ImmediateOps : opcodes[op] # opcode
    BY <1>5 DEF ImmediateOps, DecodedOps, opcodes
  <2>4. Decode(word) = [op |-> ""]
    BY <2>2 DEF Decode, DecodedOps
  <2> QED BY <1>5, <2>3, <2>4 DEF ITypeRead
<1> QED BY <1>3, <1>4, <1>5 DEF ITypeRead

\* What an R-type word is decoded to: its registers, if its function is one of four.
RTypeRead(word, funct, rs, rt, rd) ==
  /\ \A op : NamesFunct(op, funct) =>
       Decode(word) = [op |-> op, rs |-> registerName(rs), rt |-> registerName(rt),
                       rd |-> registerName(rd)]
  /\ NoFunct(funct) => Decode(word) = [op |-> ""]

LEMMA RTypeDecoded ==
  ASSUME NEW rs \in 0 .. REGS - 1, NEW rt \in 0 .. REGS - 1, NEW rd \in 0 .. REGS - 1,
         NEW shamt \in Nat, NEW funct \in 0 .. FUNCTS - 1, NEW imm, NEW address,
         NEW word, word = buildBinaryInstruction(0, rs, rt, rd, shamt, funct, imm, address)
  PROVE  RTypeRead(word, funct, rs, rt, rd)
<1>1. /\ word \div ADDRESSES = 0 /\ word % FUNCTS = funct
      /\ Get_source_Register(word) = rs /\ Get_target_Register(word) = rt
      /\ Get_destination_Register(word) = rd
  BY RTypeFields
<1>2. ASSUME NEW op, NamesFunct(op, funct)
      PROVE  Decode(word) = [op |-> op, rs |-> registerName(rs), rt |-> registerName(rt),
                             rd |-> registerName(rd)]
  <2>1. Identificacao_instrucao(word) = op
    BY <1>1, <1>2, FunctNamed DEF NamesFunct
  <2>2. op \in {"ADD", "SUB", "MULT", "DIV"}
    BY <1>2 DEF NamesFunct, functs
  <2> QED BY <1>1, <2>1, <2>2 DEF Decode, registerName
<1>3. ASSUME NoFunct(funct)
      PROVE  Decode(word) = [op |-> ""]
  <2>1. Identificacao_instrucao(word) = ""
    BY <1>1, <1>3, FunctNamed
  <2> QED BY <2>1 DEF Decode, DecodedOps
<1> QED BY <1>2, <1>3 DEF RTypeRead

\* A J-type word is decoded to its address, or to the name jal.
LEMMA JTypeDecoded ==
  ASSUME NEW opcode \in {2, 3}, NEW address \in Nat,
         NEW word, word = buildBinaryInstruction(opcode, 0, 0, 0, 0, 0, 0, address)
  PROVE  Decode(word) = IF opcode = 2 THEN [op |-> "J", imm |-> address % ADDRESSES]
                        ELSE [op |-> "JAL"]
<1>1. word \div ADDRESSES = opcode /\ word % ADDRESSES = address % ADDRESSES
  BY JTypeFields
<1>2. NamesOpcode("J", 2) /\ NamesOpcode("JAL", 3)
  BY DEF opcodes, NamesOpcode
<1>3. opcode # 0
  OBVIOUS
<1>4. Identificacao_instrucao(word) = IF opcode = 2 THEN "J" ELSE "JAL"
  BY <1>1, <1>2, <1>3, OpcodeNamed
<1> QED BY <1>1, <1>4 DEF Decode, DecodedOps

\* The words of end and print are an opcode and nothing else.
LEMMA BareDecoded ==
  /\ Decode(63 * ADDRESSES) = [op |-> "END"]
  /\ Decode(62 * ADDRESSES) = [op |-> ""]
<1>1. 0 \in 0 .. ADDRESSES - 1 /\ ADDRESSES \in Nat \ {0}
  BY Products
<1>2. \A k \in Nat : (k * ADDRESSES) \div ADDRESSES = k
  <2>1. \A k \in Nat : k * ADDRESSES + 0 = k * ADDRESSES
    BY <1>1
  <2> QED BY <1>1, <2>1, Quotient
<1>3. (63 * ADDRESSES) \div ADDRESSES = 63 /\ (62 * ADDRESSES) \div ADDRESSES = 62
  BY <1>2
<1>4. NamesOpcode("END", 63) /\ NoOpcode(62)
  BY DEF opcodes, NamesOpcode, NoOpcode
<1>5. ASSUME NEW word, word \div ADDRESSES = 63
      PROVE  Identificacao_instrucao(word) = "END"
  BY <1>4, <1>5, 63 # 0, OpcodeNamed
<1>6. ASSUME NEW word, word \div ADDRESSES = 62
      PROVE  Identificacao_instrucao(word) = ""
  BY <1>4, <1>6, 62 # 0, OpcodeNamed
<1>7. /\ Identificacao_instrucao(63 * ADDRESSES) = "END"
      /\ Identificacao_instrucao(62 * ADDRESSES) = ""
  BY <1>3, <1>5, <1>6
<1> QED BY <1>7 DEF Decode, DecodedOps
=============================================================================
