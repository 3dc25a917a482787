------------------------------- MODULE Loader -------------------------------
(***************************************************************************)
(* The loading of a batch, before any thread starts: the loop of           *)
(* run_simulation_with_policy (main.cpp) over the files batch.json names,  *)
(* load_pcb_from_json (cpu/pcb_loader.cpp) and loadJsonProgram             *)
(* (parser_json/parser_json.cpp), which writes the data and the            *)
(* instructions of a program to the memory of its process word by word.    *)
(***************************************************************************)
EXTENDS MemoryManager, Assembler

CONSTANTS
  Batches,   \* the batches to load: sequences of PCBs, one for each file named
  procFile,  \* the file of a PCB: whether it loads, and its program_path
  Programs   \* path -> the program file there: data and program, when it has them

VARIABLES
  batch,               \* the batch
  position,            \* entries of the batch the loop has begun
  stage,               \* entry, data, labels, code; caught or loaded after the loop
  done,                \* data words or instructions of the program passed
  addr,                \* the address of the next
  startAddr,           \* where the instructions begin
  dataMap, labelMap,   \* static: one for all processes
  pc, burst_time,      \* of every PCB
  process_list         \* the PCBs loaded, in the order the scheduler gets them

placeVars == <<done, addr, startAddr>>
symbolVars == <<dataMap, labelMap>>
pcbVars == <<pc, burst_time>>
loaderVars == <<batch, position, stage, placeVars, symbolVars, pcbVars, process_list>>

INSTRUCTION_SIZE == 4

\* A data section is the sequence of its words, as records: the first word of a
\* labelled item has the label, and a word that is not a number has no value.
ASSUME LoaderAssumption ==
  /\ \A b \in Batches : b \in Seq(Proc) /\ IsInjective(b)
  /\ DOMAIN procFile = Proc

newPcb == batch[position]
nextEntry == batch[position + 1]
dataOf(p) ==
  LET j == Programs[procFile[p].program_path] IN IF Has(j, "data") THEN j.data ELSE <<>>
instructionsOf(p) ==
  LET j == Programs[procFile[p].program_path]
  IN IF Has(j, "program") THEN SelectSeq(j.program, LAMBDA node : Has(node, "instruction"))
     ELSE <<>>

LoaderInit ==
  /\ MemoryInit
  /\ batch \in Batches
  /\ position = 0 /\ stage = "entry" /\ done = 0 /\ addr = 0 /\ startAddr = 0
  /\ dataMap = <<>> /\ labelMap = <<>>
  /\ pc = [p \in Proc |-> 0] /\ burst_time = [p \in Proc |-> 0]
  /\ process_list = <<>>

-----------------------------------------------------------------------------
(* The loop over the batch *)

\* Mutant of Throw: the exception is caught inside the loop.
Throw_NextEntry == stage' = "entry"

\* The exception leaves the loop, and the PCB being loaded is destroyed.
Throw == stage' = "caught"

BeginEntry == stage = "entry" /\ position < Len(batch) /\ position' = position + 1

\* The file of the process does not load, or names no program: the PCB is dropped.
SkipProcess ==
  /\ BeginEntry
  /\ ~procFile[nextEntry].loads \/ ~Has(procFile[nextEntry], "program_path")
  /\ UNCHANGED <<memVars, batch, stage, placeVars, symbolVars, pcbVars, process_list>>

\* Mutant of readJsonFile: the maps are those of the last program.
readJsonFile_MapsKept == UNCHANGED symbolVars

\* The maps are cleared, then the program file is read.
readJsonFile == dataMap' = <<>> /\ labelMap' = <<>>

loadJsonProgram ==
  /\ BeginEntry
  /\ procFile[nextEntry].loads /\ Has(procFile[nextEntry], "program_path")
  /\ readJsonFile
  /\ IF procFile[nextEntry].program_path \in DOMAIN Programs
     THEN stage' = "data" /\ done' = 0 /\ addr' = 0
     ELSE Throw /\ UNCHANGED <<done, addr>>
  /\ UNCHANGED <<memVars, batch, startAddr, pcbVars, process_list>>

\* Mutant of writeWord: the address counts words.
writeWord_ByIndex(word) ==
  /\ write(newPcb, addr \div PAGE_SIZE, addr % PAGE_SIZE, word)
  /\ addr' = addr + 1
  /\ done' = done + 1

\* A word at addr, in the memory of the PCB.
writeWord(word) ==
  /\ write(newPcb, addr \div PAGE_SIZE, addr % PAGE_SIZE, word)
  /\ addr' = addr + INSTRUCTION_SIZE
  /\ done' = done + 1

\* The label of a data item is defined before its value is read.
parseData ==
  /\ stage = "data" /\ done < Len(dataOf(newPcb))
  /\ LET item == dataOf(newPcb)[done + 1]
     IN /\ dataMap' = IF Has(item, "label")
                      THEN [l \in DOMAIN dataMap \cup {item.label} |->
                              IF l = item.label THEN addr ELSE dataMap[l]]
                      ELSE dataMap
        /\ IF Has(item, "value") THEN writeWord(item.value % WORDS) /\ UNCHANGED stage
           ELSE Throw /\ UNCHANGED <<memVars, addr, done>>
  /\ UNCHANGED <<batch, position, startAddr, labelMap, pcbVars, process_list>>

hasProgram == Has(Programs[procFile[newPcb].program_path], "program")

\* The program begins where the data ends.
parseProgram ==
  /\ stage = "data" /\ done = Len(dataOf(newPcb))
  /\ stage' = "labels" /\ done' = 0 /\ startAddr' = addr
  /\ UNCHANGED <<memVars, batch, position, addr, symbolVars, pcbVars, process_list>>

\* The first pass: the last definition of a label stays.
defineLabel ==
  /\ stage = "labels" /\ done < Len(instructionsOf(newPcb))
  /\ LET node == instructionsOf(newPcb)[done + 1]
     IN labelMap' = IF definesLabel(node)
                    THEN [l \in DOMAIN labelMap \cup {node.label} |->
                            IF l = node.label THEN addr ELSE labelMap[l]]
                    ELSE labelMap
  /\ addr' = addr + INSTRUCTION_SIZE /\ done' = done + 1
  /\ UNCHANGED <<memVars, batch, position, stage, startAddr, dataMap, pcbVars, process_list>>

\* After it, the burst time and the entry point are known.
setEntryPoint ==
  /\ stage = "labels" /\ done = Len(instructionsOf(newPcb))
  /\ stage' = "code" /\ done' = 0 /\ addr' = startAddr
  /\ IF hasProgram
     THEN /\ burst_time' = [burst_time EXCEPT ![newPcb] = (addr - startAddr) \div INSTRUCTION_SIZE]
          /\ pc' = [pc EXCEPT ![newPcb] =
                      IF "start" \in DOMAIN labelMap THEN labelMap["start"] ELSE startAddr]
     ELSE UNCHANGED pcbVars
  /\ UNCHANGED <<memVars, batch, position, startAddr, symbolVars, process_list>>

\* The second pass encodes an instruction and writes it.
encodeInstruction ==
  /\ stage = "code" /\ done < Len(instructionsOf(newPcb))
  /\ LET node == instructionsOf(newPcb)[done + 1]
     IN IF encodable(node, labelMap, dataMap)
        THEN writeWord(parseInstruction(node, labelMap, dataMap)) /\ UNCHANGED stage
        ELSE Throw /\ UNCHANGED <<memVars, addr, done>>
  /\ UNCHANGED <<batch, position, startAddr, symbolVars, pcbVars, process_list>>

addProcess ==
  /\ stage = "code" /\ done = Len(instructionsOf(newPcb))
  /\ stage' = "entry"
  /\ process_list' = Append(process_list, newPcb)
  /\ UNCHANGED <<memVars, batch, position, placeVars, symbolVars, pcbVars>>

\* The loop ends: the threads start if there is a process.
EndOfBatch ==
  /\ stage = "entry" /\ position = Len(batch)
  /\ stage' = "loaded"
  /\ UNCHANGED <<memVars, batch, position, placeVars, symbolVars, pcbVars, process_list>>

LoaderNext ==
  \/ SkipProcess \/ loadJsonProgram \/ parseData
  \/ parseProgram \/ defineLabel \/ setEntryPoint \/ encodeInstruction
  \/ addProcess \/ EndOfBatch

LoaderSpec == LoaderInit /\ [][LoaderNext]_<<memVars, loaderVars>>

-----------------------------------------------------------------------------
(* Properties *)

Parsing == {"data", "labels", "code"}

\* The PCBs that exist: those queued and the one being loaded.
Alive == Range(process_list) \cup (IF stage \in Parsing THEN {newPcb} ELSE {})

LoaderTypeOK ==
  /\ MemoryTypeOK
  /\ batch \in Batches /\ position \in 0 .. Len(batch)
  /\ stage \in Parsing \cup {"entry", "caught", "loaded"}
  /\ done \in Nat /\ addr \in Nat /\ startAddr \in Nat
  /\ addr % INSTRUCTION_SIZE = 0
  /\ \A l \in DOMAIN dataMap : dataMap[l] \in Nat
  /\ \A l \in DOMAIN labelMap : labelMap[l] \in Nat
  /\ pc \in [Proc -> Nat] /\ burst_time \in [Proc -> Nat]
  /\ process_list \in Seq(Proc)

\* Every taken frame is of a process that is queued or being loaded, so what
\* swapOut writes to while a batch loads exists: a failed program ends the loop.
\* After it the frames it had are of a PCB that is gone.
FrameOwnersAlive ==
  \A f \in Frame : framesMap[f] =>
    \/ frameOwnerTable[f].ownerProcess \in Alive
    \/ stage = "caught" /\ frameOwnerTable[f].ownerProcess = newPcb

\* The processes that run are those of the batch that name a program, in the
\* order of the batch, up to the first that fails.
HasProgram(p) == procFile[p].loads /\ Has(procFile[p], "program_path")
Completed == IF stage \in {"entry", "loaded"} THEN position ELSE position - 1
QueuedInOrder ==
  /\ Range(process_list) = {batch[k] : k \in {k \in 1 .. Completed : HasProgram(batch[k])}}
  /\ \A i, j \in DOMAIN process_list : i < j =>
       \E k, m \in 1 .. Completed : k < m /\ process_list[i] = batch[k] /\ process_list[j] = batch[m]

(* What a process file says, read without the loader *)

\* The word at an address of a process, wherever its page is.
pageOf(p, address) == contentsOf(p, address \div PAGE_SIZE)
wordAt(p, address) == pageOf(p, address)[wordOf(address % PAGE_SIZE)]

startOf(p) == INSTRUCTION_SIZE * Len(dataOf(p))
addressOf(p, i) == startOf(p) + INSTRUCTION_SIZE * (i - 1)

\* The places a label of the data or of the program stands for, and the last.
dataPlaces(p, l) ==
  {INSTRUCTION_SIZE * (i - 1) :
     i \in {i \in 1 .. Len(dataOf(p)) : Has(dataOf(p)[i], "label") /\ dataOf(p)[i].label = l}}
codePlaces(p, l) ==
  {addressOf(p, i) :
     i \in {i \in 1 .. Len(instructionsOf(p)) :
              definesLabel(instructionsOf(p)[i]) /\ instructionsOf(p)[i].label = l}}
lastOf(places) == CHOOSE a \in places : \A b \in places : b <= a

\* The maps of labels p has of its own.
symbolsOf(p) ==
  LET items == {i \in 1 .. Len(dataOf(p)) : Has(dataOf(p)[i], "label")}
  IN [l \in {dataOf(p)[i].label : i \in items} |-> lastOf(dataPlaces(p, l))]
labelsOf(p) ==
  LET nodes == {i \in 1 .. Len(instructionsOf(p)) : definesLabel(instructionsOf(p)[i])}
  IN [l \in {instructionsOf(p)[i].label : i \in nodes} |-> lastOf(codePlaces(p, l))]

\* A branch or a jump says where it goes with a label or with a number.
namesLabel(node) ==
  IF node.instruction \in Branches THEN targetLabelName(node) # ""
  ELSE Has(node, "label") \/ Has(node, "label1")

\* Where a branch or a jump of p goes.
DestinationOf(p, node) ==
  IF namesLabel(node) THEN lastOf(codePlaces(p, targetLabelName(node)))
  ELSE IF node.instruction \in Branches THEN node.offset ELSE node.address

\* The address a load or a store of p names, and its base register.
NamedWord(p, node) ==
  CASE Has(node, "addr") -> [rs |-> toLower(node.addr.base), imm |-> node.addr.offset]
    [] ~Has(node, "addr") /\ Has(node, "baseReg") ->
         [rs |-> toLower(node.baseReg), imm |-> offsetOf(node)]
    [] OTHER -> [rs |-> "$zero", imm |-> lastOf(dataPlaces(p, node.base)) + offsetOf(node)]

\* The operation a mnemonic names, li being an addition to register 0.
operationOf ==
  [add |-> "ADD", sub |-> "SUB", and |-> "AND", or |-> "OR", mult |-> "MULT", div |-> "DIV",
   sll |-> "SLL", srl |-> "SRL", jr |-> "JR", addi |-> "ADDI", andi |-> "ANDI", ori |-> "ORI",
   slti |-> "SLTI", li |-> "ADDI", lw |-> "LW", sw |-> "SW", beq |-> "BEQ", bne |-> "BNE",
   bgt |-> "BGT", blt |-> "BLT", j |-> "J", jal |-> "JAL", print |-> "PRINT", end |-> "END"]

\* The instruction a node of p stands for in its file, whatever the code makes of it.
Meaning(p, node) ==
  LET mnem == node.instruction
      op == operationOf[mnem]
      register(field) == toLower(node[field])
      word(rs, number) == [op |-> op, rs |-> rs, rt |-> register("rt"), imm |-> number % IMMEDIATES]
  IN CASE mnem \in {"add", "sub", "and", "or", "mult", "div"} ->
            [op |-> op, rs |-> register("rs"), rt |-> register("rt"), rd |-> register("rd")]
       [] mnem \in {"sll", "srl"} ->
            [op |-> op, rt |-> register("rt"), rd |-> register("rd"), shamt |-> node.shamt % SHAMTS]
       [] mnem = "jr" -> [op |-> op, rs |-> register("rs")]
       [] mnem \in {"addi", "andi", "ori", "slti"} -> word(register("rs"), node.immediate)
       [] mnem = "li" -> word("$zero", node.immediate)
       [] mnem \in {"lw", "sw"} -> word(NamedWord(p, node).rs, NamedWord(p, node).imm)
       [] mnem \in Branches -> word(register("rs"), DestinationOf(p, node))
       [] mnem \in {"j", "jal"} -> [op |-> op, imm |-> DestinationOf(p, node) % ADDRESSES]
       [] mnem = "print" -> [op |-> op, rt |-> register("rt"), imm |-> 0]
       [] mnem = "end" -> [op |-> op]

\* The mnemonics for which the tables of the parser and of the control unit agree.
Understood ==
  {"add", "sub", "mult", "div", "addi", "slti", "li", "lw", "sw", "beq", "bne", "bgt", "j", "end"}

\* A word is what a node of p is encoded to with the labels of p, and the control
\* unit decodes it to what the file says if it understands the mnemonic.
IsCode(p, node, word) ==
  /\ encodable(node, labelsOf(p), symbolsOf(p))
  /\ word = parseInstruction(node, labelsOf(p), symbolsOf(p))
  /\ node.instruction \in Understood => Decode(word) = Meaning(p, node)

\* The memory of p holds its data, then its instructions, and p starts where it should.
Holds(p) ==
  /\ \A i \in 1 .. Len(dataOf(p)) :
       LET address == INSTRUCTION_SIZE * (i - 1)
       IN pageOf(p, address) # NONE /\ wordAt(p, address) = dataOf(p)[i].value % WORDS
  /\ \A i \in 1 .. Len(instructionsOf(p)) :
       LET address == addressOf(p, i)
       IN pageOf(p, address) # NONE /\ IsCode(p, instructionsOf(p)[i], wordAt(p, address))
  /\ pc[p] = IF codePlaces(p, "start") # {} THEN lastOf(codePlaces(p, "start"))
             ELSE IF Has(Programs[procFile[p].program_path], "program") THEN startOf(p) ELSE 0
  /\ burst_time[p] = Len(instructionsOf(p))

PidOfItsOwn(p) == \A q \in Range(batch) \ {p} : pid[q] # pid[p]

\* A process that is queued, and shares its pid with none of its batch, has all
\* of its own program in memory and nothing of another: its labels were its own,
\* and the pages that the programs loaded after it pushed to disk, while there
\* was room, are whole.
QueuedIsLoaded ==
  nextSwapAddress <= diskPages =>
    \A p \in Range(process_list) : PidOfItsOwn(p) => Holds(p)

\* What the program files and CONTROL_UNIT.hpp say: whatever mnemonic of the parser's
\* table an instruction has, the control unit finds in memory the instruction that the
\* file names.
QueuedAsWritten ==
  nextSwapAddress <= diskPages =>
    \A p \in Range(process_list) : PidOfItsOwn(p) =>
      \A i \in 1 .. Len(instructionsOf(p)) :
        LET node == instructionsOf(p)[i]
        IN node.instruction \in DOMAIN instructionMap =>
             Decode(wordAt(p, addressOf(p, i))) = Meaning(p, node)
=============================================================================
