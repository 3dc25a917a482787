---------------------------- MODULE LoaderProofs ----------------------------
(***************************************************************************)
(* The loading of a batch, for any batch, programs and memory: the tables  *)
(* of the MMU stay inverse, no frame is left to a PCB that is gone while   *)
(* programs are written, what runs is the batch up to its first failure,   *)
(* and its memory has the programs of its files, as the control unit will  *)
(* decode them.  Page numbers are unbounded, as they are in the code.      *)
(***************************************************************************)
EXTENDS Loader, MemoryProofs, AssemblerProofs

AnyPage == Nat \subseteq Page

\* Where the loop is.
LoopInv ==
  /\ batch \in Seq(Proc) /\ position \in 0 .. Len(batch)
  /\ stage \in Parsing \cup {"entry", "caught", "loaded"}
  /\ stage \in Parsing \cup {"caught"} => position >= 1
  /\ addr \in Nat /\ startAddr \in Nat /\ done \in Nat
  /\ process_list \in Seq(Proc)

LoaderInv == TableInv /\ LoopInv

\* An address has a page and a place in it.
LEMMA AddressSplits ==
  ASSUME NEW a \in Nat
  PROVE  a \div PAGE_SIZE \in Nat /\ a % PAGE_SIZE \in Offset
BY MemoryAssumption DEF Offset

LEMMA NewPcbType == LoaderInv /\ stage \in Parsing \cup {"caught"} => newPcb \in Proc
BY DEF LoaderInv, LoopInv, newPcb

\* A word is written to memory that has its page, or loads the page.
LEMMA WriteTables ==
  ASSUME AnyPage, LoaderInv, stage \in {"data", "code"}, NEW word, writeWord(word)
  PROVE  /\ \/ UNCHANGED <<tableVars, swapVars>>
            \/ \E n \in Page, frame \in Frame : LoadsPage(newPcb, n, frame)
         /\ addr' = addr + 4 /\ done' = done + 1
<1>1. addr \div PAGE_SIZE \in Page
  BY AddressSplits DEF LoaderInv, LoopInv, AnyPage
<1> QED BY <1>1 DEF writeWord, write, translateAddress, LoadsPage, INSTRUCTION_SIZE

\* The frames that change hands are the process's that is being loaded.
LEMMA WriteOwners ==
  ASSUME AnyPage, LoaderInv, stage \in {"data", "code"}, NEW word, writeWord(word)
  PROVE  /\ TableInv'
         /\ \A f \in Frame : framesMap'[f] =>
              \/ framesMap[f] /\ frameOwnerTable'[f] = frameOwnerTable[f]
              \/ frameOwnerTable'[f].ownerProcess = newPcb
<1>1. newPcb \in Proc
  BY NewPcbType DEF Parsing
<1>2. CASE UNCHANGED <<tableVars, swapVars>>
  BY <1>2 DEF LoaderInv, TableInv, TablesTypeOK, FramesMatchPages, Resident, tableVars, swapVars
<1>3. ASSUME NEW n \in Page, NEW frame \in Frame, LoadsPage(newPcb, n, frame)
      PROVE  /\ TableInv'
             /\ \A f \in Frame : framesMap'[f] =>
                  \/ framesMap[f] /\ frameOwnerTable'[f] = frameOwnerTable[f]
                  \/ frameOwnerTable'[f].ownerProcess = newPcb
  <2>1. TableInv'
    BY <1>1, <1>3, LoadFree, LoadOverVictim DEF LoaderInv
  <2>2. /\ framesMap' = [framesMap EXCEPT ![frame] = TRUE]
        /\ frameOwnerTable' = [frameOwnerTable EXCEPT ![frame] =
                                 [ownerProcess |-> newPcb, virtualPageNumber |-> n]]
    BY <1>3 DEF LoadsPage, allocateFrame
  <2> QED BY <2>1, <2>2 DEF LoaderInv, TableInv, TablesTypeOK
<1> QED BY <1>2, <1>3, WriteTables

\* The steps of the loader: those that leave memory alone, and the two that
\* write a word.
LEMMA WritesOrNot ==
  ASSUME LoaderNext
  PROVE  \/ UNCHANGED memVars
         \/ /\ stage \in {"data", "code"} /\ stage' = stage
            /\ UNCHANGED <<batch, position, startAddr, process_list>>
            /\ \E word : writeWord(word)
<1>1. ASSUME parseData
      PROVE  \/ UNCHANGED memVars
             \/ /\ stage \in {"data", "code"} /\ stage' = stage
                /\ UNCHANGED <<batch, position, startAddr, process_list>>
                /\ \E word : writeWord(word)
  BY <1>1 DEF parseData, placeVars
<1>2. ASSUME encodeInstruction
      PROVE  \/ UNCHANGED memVars
             \/ /\ stage \in {"data", "code"} /\ stage' = stage
                /\ UNCHANGED <<batch, position, startAddr, process_list>>
                /\ \E word : writeWord(word)
  BY <1>2 DEF encodeInstruction, placeVars
<1>3. ASSUME \/ SkipProcess \/ loadJsonProgram \/ parseProgram \/ defineLabel
             \/ setEntryPoint \/ addProcess \/ EndOfBatch
      PROVE  UNCHANGED memVars
  BY <1>3 DEF SkipProcess, loadJsonProgram, parseProgram, defineLabel, setEntryPoint,
     addProcess, EndOfBatch
<1> QED BY <1>1, <1>2, <1>3 DEF LoaderNext

\* Every step of the loop keeps it in its batch.
LEMMA LoopKept ==
  ASSUME AnyPage, LoaderInv, LoaderNext
  PROVE  LoopInv'
<1> USE DEF LoaderInv, LoopInv, Parsing, placeVars
<1>1. CASE SkipProcess
  BY <1>1 DEF SkipProcess, BeginEntry
<1>2. CASE loadJsonProgram
  BY <1>2 DEF loadJsonProgram, BeginEntry, Throw
<1>3. ASSUME NEW word, writeWord(word), stage \in {"data", "code"}, stage' = stage,
             UNCHANGED <<batch, position, startAddr, process_list>>
      PROVE  LoopInv'
  BY <1>3, WriteTables
<1>4. CASE parseData
  BY <1>3, <1>4 DEF parseData, Throw
<1>5. CASE parseProgram
  BY <1>5 DEF parseProgram
<1>6. CASE encodeInstruction
  BY <1>3, <1>6 DEF encodeInstruction, Throw
<1>7. CASE defineLabel
  BY <1>7 DEF defineLabel, INSTRUCTION_SIZE
<1>8. CASE setEntryPoint
  BY <1>8 DEF setEntryPoint
<1>9. CASE addProcess
  BY <1>9, NewPcbType DEF addProcess
<1>10. CASE EndOfBatch
  BY <1>10 DEF EndOfBatch
<1> QED BY <1>1, <1>2, <1>4, <1>5, <1>6, <1>7, <1>8, <1>9, <1>10 DEF LoaderNext

\* A PCB that exists stays, or is the one an exception destroys.
LEMMA AliveKept ==
  ASSUME LoaderInv, LoaderNext
  PROVE  \A p \in Alive : p \in Alive' \/ (stage' = "caught" /\ p = newPcb')
<1> USE DEF LoaderInv, LoopInv, Alive, newPcb, Parsing, placeVars
<1>1. CASE SkipProcess
  BY <1>1 DEF SkipProcess, BeginEntry
<1>2. CASE loadJsonProgram
  BY <1>2 DEF loadJsonProgram, BeginEntry, Throw
<1>3. CASE parseData
  BY <1>3 DEF parseData, Throw, writeWord
<1>4. CASE parseProgram
  BY <1>4 DEF parseProgram
<1>5. CASE encodeInstruction
  BY <1>5 DEF encodeInstruction, Throw, writeWord
<1>6. CASE defineLabel \/ setEntryPoint
  BY <1>6 DEF defineLabel, setEntryPoint
<1>7. CASE addProcess
  <2>1. Range(process_list') = Range(process_list) \cup {newPcb}
    BY <1>7, NewPcbType, AppendContents DEF addProcess
  <2> QED BY <1>7, <2>1 DEF addProcess
<1>8. CASE EndOfBatch
  BY <1>8 DEF EndOfBatch
<1> QED BY <1>1, <1>2, <1>3, <1>4, <1>5, <1>6, <1>7, <1>8 DEF LoaderNext

\* After an exception there is no step.
LEMMA NoStepAfterThrow == LoaderNext => stage # "caught"
<1>1. SkipProcess \/ loadJsonProgram \/ EndOfBatch => stage = "entry"
  BY DEF SkipProcess, loadJsonProgram, BeginEntry, EndOfBatch
<1>2. parseData \/ parseProgram => stage = "data"
  BY DEF parseData, parseProgram
<1>3. defineLabel \/ setEntryPoint => stage = "labels"
  BY DEF defineLabel, setEntryPoint
<1>4. encodeInstruction \/ addProcess => stage = "code"
  BY DEF encodeInstruction, addProcess
<1> QED BY <1>1, <1>2, <1>3, <1>4 DEF LoaderNext

\* The tables stay inverse while programs are written.
LEMMA LoaderTablesKept ==
  ASSUME AnyPage, LoaderInv, LoaderNext
  PROVE  TableInv'
<1>1. CASE UNCHANGED memVars
  BY <1>1 DEF LoaderInv, TableInv, TablesTypeOK, FramesMatchPages, Resident, memVars, tableVars,
     swapVars
<1> QED BY <1>1, WritesOrNot, WriteOwners

\* Every frame taken stays with a PCB that exists, or that an exception destroys.
LEMMA OwnersKept ==
  ASSUME AnyPage, LoaderInv, FrameOwnersAlive, LoaderNext
  PROVE  FrameOwnersAlive'
<1>1. CASE UNCHANGED memVars
  BY <1>1, AliveKept, NoStepAfterThrow DEF FrameOwnersAlive, memVars, tableVars
<1>2. ASSUME NEW word, writeWord(word), stage \in {"data", "code"}, stage' = stage,
             UNCHANGED <<batch, position, startAddr, process_list>>
      PROVE  FrameOwnersAlive'
  <2>1. Alive' = Alive /\ newPcb \in Alive
    BY <1>2 DEF Alive, newPcb, Parsing
  <2>2. \A f \in Frame : framesMap[f] => frameOwnerTable[f].ownerProcess \in Alive
    BY <1>2 DEF FrameOwnersAlive
  <2> QED BY <1>2, <2>1, <2>2, WriteOwners DEF FrameOwnersAlive
<1> QED BY <1>1, <1>2, WritesOrNot

LEMMA LoaderInvariant ==
  ASSUME AnyPage
  PROVE  LoaderSpec => [](LoaderInv /\ FrameOwnersAlive)
<1>1. LoaderInit => LoaderInv /\ FrameOwnersAlive
  <2> SUFFICES ASSUME LoaderInit PROVE LoaderInv /\ FrameOwnersAlive
    OBVIOUS
  <2>1. TableInv
    BY InitTables DEF LoaderInit
  <2>2. LoopInv
    BY LoaderAssumption DEF LoaderInit, LoopInv, Parsing
  <2>3. FrameOwnersAlive
    BY DEF LoaderInit, MemoryInit, FrameOwnersAlive
  <2> QED BY <2>1, <2>2, <2>3 DEF LoaderInv
<1>2. LoaderInv /\ FrameOwnersAlive /\ [LoaderNext]_<<memVars, loaderVars>> =>
        LoaderInv' /\ FrameOwnersAlive'
  <2> SUFFICES ASSUME LoaderInv, FrameOwnersAlive, [LoaderNext]_<<memVars, loaderVars>>
               PROVE  LoaderInv' /\ FrameOwnersAlive'
    OBVIOUS
  <2>1. CASE LoaderNext
    BY <2>1, LoopKept, LoaderTablesKept, OwnersKept DEF LoaderInv
  <2>2. CASE UNCHANGED <<memVars, loaderVars>>
    BY <2>2 DEF LoaderInv, LoopInv, placeVars, FrameOwnersAlive, Alive, newPcb, TableInv, TablesTypeOK,
       FramesMatchPages, Resident, memVars, loaderVars, tableVars, swapVars
  <2> QED BY <2>1, <2>2
<1> QED BY <1>1, <1>2, PTL DEF LoaderSpec

\* While a batch is loaded the frame table and the page tables stay inverse,
\* whatever is swapped out to make room and wherever a program fails.
THEOREM LoaderFramesExclusive ==
  ASSUME AnyPage
  PROVE  LoaderSpec => []FramesMatchPages
<1>1. LoaderInv => FramesMatchPages
  BY DEF LoaderInv, TableInv
<1> QED BY <1>1, LoaderInvariant, PTL

\* What the loader swaps out belongs to a PCB that exists: the frames of a
\* program that failed stay behind only when nothing is loaded after it.
THEOREM LoaderOwnersAlive ==
  ASSUME AnyPage
  PROVE  LoaderSpec => []FrameOwnersAlive
BY LoaderInvariant, PTL
-----------------------------------------------------------------------------
(* What runs is the batch up to its first failure. *)

QueueInv ==
  /\ stage \in Parsing => HasProgram(newPcb) /\ procFile[newPcb].program_path \in DOMAIN Programs
  /\ QueuedInOrder

QueuedOf(n) == {batch[k] : k \in {k \in 1 .. n : HasProgram(batch[k])}}

\* The steps that neither queue a PCB nor drop one complete no entry.
LEMMA SameQueue ==
  ASSUME QueueInv, UNCHANGED <<batch, process_list>>, Completed' = Completed,
         stage' \in Parsing => /\ HasProgram(newPcb')
                              /\ procFile[newPcb'].program_path \in DOMAIN Programs
  PROVE  QueueInv'
BY DEF QueueInv, QueuedInOrder, HasProgram

LEMMA QueueKept ==
  ASSUME AnyPage, LoaderInv, QueueInv, LoaderNext
  PROVE  QueueInv'
<1> USE DEF LoaderInv, LoopInv, Completed, Parsing, placeVars
<1>1. CASE SkipProcess
  <2>1. /\ position' = position + 1 /\ stage = "entry" /\ position \in Nat
        /\ UNCHANGED <<batch, stage, process_list>>
    BY <1>1 DEF SkipProcess, BeginEntry
  <2>2. ~HasProgram(batch[position + 1])
    BY <1>1 DEF SkipProcess, HasProgram, nextEntry
  <2>3. \A k \in 1 .. position + 1 : HasProgram(batch[k]) => k \in 1 .. position
    BY <2>1, <2>2
  <2>4. /\ Range(process_list) = QueuedOf(position)
        /\ \A i, j \in DOMAIN process_list : i < j =>
             \E k, m \in 1 .. position :
               k < m /\ process_list[i] = batch[k] /\ process_list[j] = batch[m]
    BY <2>1 DEF QueueInv, QueuedInOrder, QueuedOf
  <2>5. Range(process_list) = QueuedOf(position + 1)
    BY <2>1, <2>3, <2>4 DEF QueuedOf
  <2>6. 1 .. position \subseteq 1 .. position + 1
    BY <2>1
  <2>7. \A i, j \in DOMAIN process_list : i < j =>
          \E k, m \in 1 .. position + 1 :
            k < m /\ process_list[i] = batch[k] /\ process_list[j] = batch[m]
    BY <2>4, <2>6
  <2> QED BY <2>1, <2>5, <2>7 DEF QueueInv, QueuedInOrder, QueuedOf, HasProgram
<1>2. CASE loadJsonProgram
  BY <1>2, SameQueue DEF loadJsonProgram, BeginEntry, Throw, HasProgram, newPcb, nextEntry
<1>3. CASE parseData \/ encodeInstruction
  BY <1>3, SameQueue DEF parseData, encodeInstruction, writeWord, Throw, QueueInv, newPcb
<1>4. CASE parseProgram \/ defineLabel \/ setEntryPoint
  BY <1>4, SameQueue DEF parseProgram, defineLabel, setEntryPoint, QueueInv, newPcb
<1>5. CASE addProcess
  <2>1. /\ UNCHANGED <<batch, position>> /\ stage = "code" /\ stage' = "entry"
        /\ process_list' = Append(process_list, newPcb)
        /\ position \in Nat /\ position >= 1 /\ newPcb = batch[position] /\ newPcb \in Proc
    BY <1>5, NewPcbType DEF addProcess, newPcb
  <2>2. /\ Range(process_list) = QueuedOf(position - 1)
        /\ \A i, j \in DOMAIN process_list : i < j =>
             \E k, m \in 1 .. position - 1 :
               k < m /\ process_list[i] = batch[k] /\ process_list[j] = batch[m]
    BY <2>1 DEF QueueInv, QueuedInOrder, QueuedOf
  <2>3. Range(process_list') = Range(process_list) \cup {newPcb}
    BY <2>1, AppendContents
  <2>4. 1 .. position = 1 .. position - 1 \cup {position}
    BY <2>1
  <2>5. HasProgram(batch[position])
    BY <2>1 DEF QueueInv
  <2>6. QueuedOf(position) = QueuedOf(position - 1) \cup {newPcb}
    BY <2>1, <2>4, <2>5 DEF QueuedOf
  <2>7. ASSUME NEW i \in DOMAIN process_list', NEW j \in DOMAIN process_list', i < j
        PROVE  \E k, m \in 1 .. position :
                 k < m /\ process_list'[i] = batch[k] /\ process_list'[j] = batch[m]
    <3>1. /\ i \in DOMAIN process_list /\ process_list'[i] = process_list[i]
          /\ \/ j \in DOMAIN process_list /\ process_list'[j] = process_list[j]
             \/ process_list'[j] = batch[position]
      BY <2>1, <2>7
    <3>2. CASE j \in DOMAIN process_list /\ process_list'[j] = process_list[j]
      BY <2>2, <2>4, <2>7, <3>1, <3>2
    <3>3. CASE process_list'[j] = batch[position]
      <4>1. process_list[i] \in QueuedOf(position - 1)
        BY <2>2, <3>1 DEF Range
      <4>2. PICK k \in 1 .. position - 1 : process_list[i] = batch[k]
        BY <4>1 DEF QueuedOf
      <4>3. k \in 1 .. position /\ position \in 1 .. position /\ k < position
        BY <2>1, <4>2
      <4>4. process_list'[i] = batch[k]
        BY <3>1, <4>2
      <4> QED BY <3>3, <4>3, <4>4
    <3> QED BY <3>1, <3>2, <3>3
  <2>8. Completed' = position /\ \A p : HasProgram(p)' = HasProgram(p)
    BY <2>1 DEF HasProgram
  <2>9. Range(process_list)' = {batch[k] : k \in {k \in 1 .. position : HasProgram(batch[k])}}
    BY <2>2, <2>3, <2>6 DEF QueuedOf
  <2>10. QueuedInOrder'
    <3> HIDE DEF Completed, HasProgram
    <3>1. Range(process_list') = Range(process_list)' /\ batch' = batch
      BY <2>1
    <3>2. {batch'[k] : k \in {k \in 1 .. Completed' : HasProgram(batch'[k])}}
            = {batch[k] : k \in {k \in 1 .. position : HasProgram(batch[k])}}
      BY <2>8, <3>1
    <3>3. \A i, j \in DOMAIN process_list' : i < j =>
            \E k, m \in 1 .. Completed' : k < m /\ process_list'[i] = batch'[k]
                                                 /\ process_list'[j] = batch'[m]
      BY <2>7, <2>8, <3>1
    <3> QED BY <2>8, <2>9, <3>1, <3>2, <3>3 DEF QueuedInOrder
  <2> QED BY <2>1, <2>10 DEF QueueInv
<1>6. CASE EndOfBatch
  BY <1>6, SameQueue DEF EndOfBatch
<1> QED BY <1>1, <1>2, <1>3, <1>4, <1>5, <1>6 DEF LoaderNext

LEMMA QueueInvariant ==
  ASSUME AnyPage
  PROVE  LoaderSpec => []QueueInv
<1>1. LoaderInit => QueueInv
  BY DEF LoaderInit, QueueInv, QueuedInOrder, Completed, Parsing, Range
<1>2. LoaderInv /\ QueueInv /\ [LoaderNext]_<<memVars, loaderVars>> => QueueInv'
  <2>1. QueueInv /\ UNCHANGED <<memVars, loaderVars>> => QueueInv'
    BY SameQueue DEF loaderVars, Completed, QueueInv, newPcb
  <2> QED BY <2>1, QueueKept
<1> QED BY <1>1, <1>2, LoaderInvariant, PTL DEF LoaderSpec

\* The processes that run are those of the batch that name a program, in the
\* order of the batch, up to the first that fails.
THEOREM QueueIsBatchPrefix ==
  ASSUME AnyPage
  PROVE  LoaderSpec => []QueuedInOrder
<1>1. QueueInv => QueuedInOrder
  BY DEF QueueInv
<1> QED BY <1>1, QueueInvariant, PTL

-----------------------------------------------------------------------------
(* Types *)

\* Any word may be written to any place of any process.
AnyStore == Proc \X Nat \X Offset \X (0 .. WORDS - 1) \subseteq Stores

\* A program file that is read has numbers where the parser takes them for such.
NumericPrograms ==
  \A p \in Proc : HasProgram(p) /\ procFile[p].program_path \in DOMAIN Programs =>
    /\ Len(dataOf(p)) \in Nat /\ Len(instructionsOf(p)) \in Nat
    /\ \A i \in 1 .. Len(dataOf(p)) : Has(dataOf(p)[i], "value") => dataOf(p)[i].value \in Int
    /\ \A i \in 1 .. Len(instructionsOf(p)) : Numeric(instructionsOf(p)[i], <<>>, <<>>)

\* Addresses, labels and what a PCB gets from its program are numbers.
NumbersInv ==
  /\ batch \in Batches
  /\ addr % INSTRUCTION_SIZE = 0 /\ startAddr % INSTRUCTION_SIZE = 0
  /\ stage = "labels" => addr >= startAddr
  /\ \A l \in DOMAIN dataMap : dataMap[l] \in Nat
  /\ \A l \in DOMAIN labelMap : labelMap[l] \in Nat
  /\ pc \in [Proc -> Nat] /\ burst_time \in [Proc -> Nat]

LEMMA WriteIsCall ==
  ASSUME AnyStore, newPcb \in Proc, addr \in Nat, NEW word \in 0 .. WORDS - 1, writeWord(word)
  PROVE  MemoryCall
<1> DEFINE store == <<newPcb, addr \div PAGE_SIZE, addr % PAGE_SIZE, word>>
<1>1. store \in Stores
  BY AddressSplits DEF AnyStore
<1>2. write(store[1], store[2], store[3], store[4])
  BY DEF writeWord
<1> QED BY <1>1, <1>2 DEF MemoryCall

LEMMA ValueIsWord ==
  ASSUME NEW value \in Int
  PROVE  value % WORDS \in 0 .. WORDS - 1
<1>1. WORDS \in Nat \ {0}
  BY Products DEF WORDS
<1> QED BY <1>1

LEMMA NumericNode ==
  ASSUME NEW node, NEW labels, NEW symbols, Numeric(node, <<>>, <<>>),
         \A l \in DOMAIN labels : labels[l] \in Nat,
         \A l \in DOMAIN symbols : symbols[l] \in Nat
  PROVE  Numeric(node, labels, symbols)
BY DEF Numeric

\* The program being loaded has numbers in it.
LEMMA NewNumeric ==
  ASSUME NumericPrograms, LoaderInv, QueueInv, stage \in Parsing
  PROVE  /\ newPcb \in Proc
         /\ Len(dataOf(newPcb)) \in Nat /\ Len(instructionsOf(newPcb)) \in Nat
         /\ \A i \in 1 .. Len(dataOf(newPcb)) :
              Has(dataOf(newPcb)[i], "value") => dataOf(newPcb)[i].value \in Int
         /\ \A i \in 1 .. Len(instructionsOf(newPcb)) :
              Numeric(instructionsOf(newPcb)[i], <<>>, <<>>)
<1>1. newPcb \in Proc
  BY NewPcbType
<1> QED BY <1>1 DEF NumericPrograms, QueueInv

\* Memory sees the calls of its users.
LEMMA StepIsCall ==
  ASSUME AnyStore, NumericPrograms, LoaderInv, QueueInv, NumbersInv, LoaderNext
  PROVE  [MemoryCall]_memVars
<1> USE DEF LoaderInv, LoopInv
<1>1. CASE parseData
  <2> DEFINE item == dataOf(newPcb)[done + 1]
  <2>1. stage \in Parsing /\ done < Len(dataOf(newPcb))
    BY <1>1 DEF parseData, Parsing
  <2>2. Has(item, "value") => item.value % WORDS \in 0 .. WORDS - 1
    <3>1. done + 1 \in 1 .. Len(dataOf(newPcb))
      BY <2>1, NewNumeric
    <3>2. Has(item, "value") => item.value \in Int
      BY <2>1, <3>1, NewNumeric
    <3> QED BY <3>2, ValueIsWord
  <2>3. CASE Has(item, "value")
    BY <1>1, <2>1, <2>2, <2>3, NewNumeric, WriteIsCall DEF parseData
  <2>4. CASE ~Has(item, "value")
    BY <1>1, <2>4 DEF parseData
  <2> QED BY <2>3, <2>4
<1>2. CASE encodeInstruction
  <2> DEFINE node == instructionsOf(newPcb)[done + 1]
  <2>1. stage \in Parsing /\ done < Len(instructionsOf(newPcb))
    BY <1>2 DEF encodeInstruction, Parsing
  <2>2. Numeric(node, <<>>, <<>>)
    BY <2>1, NewNumeric
  <2>3. Numeric(node, labelMap, dataMap)
    BY <2>2, NumericNode DEF NumbersInv
  <2>4. CASE encodable(node, labelMap, dataMap)
    <3>1. parseInstruction(node, labelMap, dataMap) \in 0 .. WORDS - 1
      BY <2>3, <2>4, EncodedIsWord
    <3> QED BY <1>2, <2>1, <2>4, <3>1, NewNumeric, WriteIsCall DEF encodeInstruction
  <2>5. CASE ~encodable(node, labelMap, dataMap)
    BY <1>2, <2>5 DEF encodeInstruction
  <2> QED BY <2>4, <2>5
<1>3. CASE ~parseData /\ ~encodeInstruction
  BY <1>3 DEF LoaderNext, SkipProcess, loadJsonProgram, parseProgram, defineLabel, setEntryPoint,
     addProcess, EndOfBatch
<1> QED BY <1>1, <1>2, <1>3

\* What passes the symbols by keeps them numbers.
LEMMA NumbersKept ==
  ASSUME LoaderInv, NumbersInv, LoaderNext
  PROVE  NumbersInv'
<1> USE DEF LoaderInv, LoopInv, NumbersInv, placeVars, symbolVars, pcbVars, INSTRUCTION_SIZE
<1>1. CASE SkipProcess
  BY <1>1 DEF SkipProcess, BeginEntry
<1>2. CASE loadJsonProgram
  BY <1>2 DEF loadJsonProgram, BeginEntry, readJsonFile, Throw
<1>3. CASE parseData
  <2>1. /\ stage = "data" /\ stage' \in {"data", "caught"}
        /\ UNCHANGED <<batch, startAddr, labelMap, pc, burst_time>>
        /\ addr' = addr \/ addr' = addr + 4
    BY <1>3 DEF parseData, Throw, writeWord
  <2>2. addr' % 4 = 0
    <3>1. \A a \in Nat : a % 4 = 0 => (a + 4) % 4 = 0
      OBVIOUS
    <3> QED BY <2>1, <3>1
  <2>3. \A l \in DOMAIN dataMap' : dataMap'[l] \in Nat
    <3> DEFINE item == dataOf(newPcb)[done + 1]
    <3>1. dataMap' = IF Has(item, "label")
                     THEN [l \in DOMAIN dataMap \cup {item.label} |->
                             IF l = item.label THEN addr ELSE dataMap[l]]
                     ELSE dataMap
      BY <1>3 DEF parseData
    <3> HIDE DEF item
    <3> QED BY <3>1
  <2> QED BY <2>1, <2>2, <2>3
<1>4. CASE parseProgram
  BY <1>4 DEF parseProgram
<1>5. CASE defineLabel
  <2>1. /\ stage = "labels" /\ addr >= startAddr /\ addr' = addr + 4
        /\ UNCHANGED <<batch, startAddr, dataMap, pc, burst_time>>
    BY <1>5 DEF defineLabel
  <2>2. addr' % 4 = 0 /\ addr' >= startAddr'
    <3>1. \A a \in Nat : a % 4 = 0 => (a + 4) % 4 = 0
      OBVIOUS
    <3> QED BY <2>1, <3>1
  <2>3. \A l \in DOMAIN labelMap' : labelMap'[l] \in Nat
    <3> DEFINE node == instructionsOf(newPcb)[done + 1]
    <3>1. labelMap' = IF definesLabel(node)
                      THEN [l \in DOMAIN labelMap \cup {node.label} |->
                              IF l = node.label THEN addr ELSE labelMap[l]]
                      ELSE labelMap
      BY <1>5 DEF defineLabel
    <3> HIDE DEF node
    <3> QED BY <3>1
  <2> QED BY <2>1, <2>2, <2>3
<1>6. CASE setEntryPoint
  <2>1. stage = "labels" /\ stage' = "code" /\ addr' = startAddr
        /\ UNCHANGED <<batch, startAddr, dataMap, labelMap>>
    BY <1>6 DEF setEntryPoint
  <2>2. CASE hasProgram
    <3>1. (addr - startAddr) \div 4 \in Nat
      BY <2>1
    <3>2. (IF "start" \in DOMAIN labelMap THEN labelMap["start"] ELSE startAddr) \in Nat
      OBVIOUS
    <3>3. pc' \in [Proc -> Nat] /\ burst_time' \in [Proc -> Nat]
      BY <1>6, <2>2, <3>1, <3>2 DEF setEntryPoint
    <3> QED BY <2>1, <3>3
  <2>3. CASE ~hasProgram
    BY <1>6, <2>1, <2>3 DEF setEntryPoint
  <2> QED BY <2>2, <2>3
<1>7. CASE encodeInstruction
  <2>1. UNCHANGED <<batch, startAddr, dataMap, labelMap, pc, burst_time>>
    BY <1>7 DEF encodeInstruction
  <2>2. stage = "code" /\ stage' \in {"code", "caught"} /\ addr' \in {addr, addr + 4}
    BY <1>7 DEF encodeInstruction, Throw, writeWord
  <2>3. addr' % 4 = 0 /\ stage' # "labels"
    <3>1. \A a \in Nat : a % 4 = 0 => (a + 4) % 4 = 0
      OBVIOUS
    <3> QED BY <2>2, <3>1
  <2> QED BY <2>1, <2>3
<1>8. CASE addProcess \/ EndOfBatch
  BY <1>8 DEF addProcess, EndOfBatch
<1> QED BY <1>1, <1>2, <1>3, <1>4, <1>5, <1>6, <1>7, <1>8 DEF LoaderNext

\* Every variable of the loader and of the memory it fills keeps its type: what
\* the encoder gives fits a word, whatever the labels of the program.
THEOREM LoaderTypeCorrect ==
  ASSUME AnyPage, AnyStore, NumericPrograms
  PROVE  LoaderSpec => []LoaderTypeOK
<1> DEFINE TypeInv == LoaderInv /\ QueueInv /\ NumbersInv /\ MemFullInv
<1>1. LoaderInit => MemFullInv /\ NumbersInv
  BY InitMem DEF LoaderInit, NumbersInv, INSTRUCTION_SIZE
<1>2. TypeInv /\ [LoaderNext]_<<memVars, loaderVars>> => MemFullInv' /\ NumbersInv'
  <2> SUFFICES ASSUME TypeInv, [LoaderNext]_<<memVars, loaderVars>>
               PROVE  MemFullInv' /\ NumbersInv'
    OBVIOUS
  <2>1. CASE LoaderNext
    BY <2>1, StepIsCall, MemKept, NumbersKept
  <2>2. CASE UNCHANGED <<memVars, loaderVars>>
    <3>1. MemFullInv'
      BY <2>2, MemKept
    <3>2. NumbersInv'
      BY <2>2 DEF NumbersInv, loaderVars, placeVars, symbolVars, pcbVars
    <3> QED BY <3>1, <3>2
  <2> QED BY <2>1, <2>2
<1>3. TypeInv => LoaderTypeOK
  BY FullIsTyped DEF LoaderInv, LoopInv, NumbersInv, LoaderTypeOK
<1> QED BY <1>1, <1>2, <1>3, LoaderInvariant, QueueInvariant, PTL DEF LoaderSpec

-----------------------------------------------------------------------------
(* What the control unit makes of an encoded instruction *)

opOf ==
  [add |-> "ADD", sub |-> "SUB", mult |-> "MULT", div |-> "DIV", addi |-> "ADDI",
   slti |-> "SLTI", li |-> "ADDI", lw |-> "LW", sw |-> "SW", beq |-> "BEQ", bne |-> "BNE",
   bgt |-> "BGT", j |-> "J", end |-> "END"]

\* The operation the control unit finds for a mnemonic.  For blt it is ADDIU, for jal
\* and andi a name it does nothing for; print, and, or, ori, sll, srl and jr it does
\* not find at all.
opNamed(mnem) ==
  CASE mnem \in DOMAIN opOf -> opOf[mnem]
    [] mnem = "blt" -> "ADDIU"
    [] mnem = "jal" -> "JAL"
    [] mnem = "andi" -> "ANDI"
    [] OTHER -> ""

\* What it finds for a node of p, whatever the file says.
Found(p, node) ==
  LET mnem == node.instruction
      word(rs, number) ==
        [op |-> opNamed(mnem), rs |-> rs, rt |-> toLower(node.rt), imm |-> number % IMMEDIATES]
  IN CASE mnem \in {"add", "sub", "mult", "div"} ->
            [op |-> opNamed(mnem), rs |-> toLower(node.rs), rt |-> toLower(node.rt),
             rd |-> toLower(node.rd)]
       [] mnem \in {"addi", "slti"} -> word(toLower(node.rs), node.immediate)
       [] mnem = "li" -> word("$zero", node.immediate)
       [] mnem \in {"lw", "sw"} -> word(NamedWord(p, node).rs, NamedWord(p, node).imm)
       [] mnem \in Branches -> word(toLower(node.rs), DestinationOf(p, node))
       [] mnem = "j" -> [op |-> opNamed(mnem), imm |-> DestinationOf(p, node) % ADDRESSES]
       [] OTHER -> [op |-> opNamed(mnem)]


\* The field of the word has the register that field `from' of the node names.
TakenFrom(node, field, from) ==
  /\ <<field, from>> \in registersOf(node)
  /\ \A r \in registersOf(node) : r[1] = field => r = <<field, from>>

LEMMA FieldNamed ==
  ASSUME NEW node, NEW labels, NEW symbols, encodable(node, labels, symbols),
         NEW field, NEW from, TakenFrom(node, field, from)
  PROVE  registerName(registerField(node, field)) = toLower(node[from])
<1> DEFINE r == CHOOSE r \in registersOf(node) : r[1] = field
<1>1. r = <<field, from>> /\ r[2] = from
  BY DEF TakenFrom
<1>2. isRegister(node[from])
  BY DEF encodable, TakenFrom
<1>3. registerField(node, field) = getRegisterCode(node[from])
  BY <1>1 DEF registerField, TakenFrom
<1> QED BY <1>2, <1>3, RegisterRead

LEMMA NoField ==
  ASSUME NEW node, NEW field, \A r \in registersOf(node) : r[1] # field
  PROVE  registerField(node, field) = 0
BY DEF registerField

LEMMA ZeroNamed == registerName(0) = "$zero"
<1>1. 1 \in 1 .. REGS /\ 0 + 1 = 1
  BY DEF REGS
<1>2. registerMap[1] = "$" \o binaryToName[1]
  BY <1>1, RegisterNamesAssumption
<1>3. registerMap[1] = "$zero"
  BY DEF registerMap
<1> QED BY <1>1, <1>2, <1>3 DEF registerName

\* The mnemonics by the form of their words.
RMnemonics == DOMAIN functMap
JMnemonics == {"j", "jal"}
NumberMnemonics == {"addi", "slti", "andi", "ori"}

LEMMA Mnemonics ==
  DOMAIN instructionMap = RMnemonics \cup JMnemonics \cup NumberMnemonics \cup Branches
                            \cup {"li", "lw", "sw", "end", "print"}
BY DEF instructionMap, RMnemonics, functMap, JMnemonics, NumberMnemonics, Branches

LEMMA OpcodeOf ==
  ASSUME NEW mnem \in DOMAIN instructionMap
  PROVE  getOpcode(mnem) = instructionMap[mnem]
BY CapitalsAssumption DEF getOpcode, toLower

\* An R-type node.
LEMMA RTypeFound ==
  ASSUME NEW p, NEW node, NEW labels, NEW symbols, Numeric(node, labels, symbols),
         encodable(node, labels, symbols), node.instruction \in RMnemonics
  PROVE  Decode(parseInstruction(node, labels, symbols)) = Found(p, node)
<1> DEFINE mnem == node.instruction
           rs == registerField(node, "rs")
           rt == registerField(node, "rt")
           rd == registerField(node, "rd")
           sh == IF mnem \in {"sll", "srl"} THEN parseImmediate(node.shamt) ELSE 0
           funct == functMap[mnem]
           word == buildBinaryInstruction(0, rs, rt, rd, sh, funct, 0, 0)
<1>1. parseInstruction(node, labels, symbols) = word
  BY DEF parseInstruction, encodeRType, RMnemonics, functMap
<1>2. rs \in 0 .. REGS - 1 /\ rt \in 0 .. REGS - 1 /\ rd \in 0 .. REGS - 1
  BY FieldRange
<1>3. sh \in Nat
  <2>1. CASE mnem \in {"sll", "srl"}
    <3>1. node.shamt \in Int
      BY <2>1 DEF encodable, operandsThere, Numeric, functMap, Branches
    <3>2. parseImmediate(node.shamt) \in 0 .. IMMEDIATES - 1
      BY <3>1, ImmediateRange
    <3> QED BY <2>1, <3>2, Products
  <2> QED BY <2>1
<1>4. funct \in 0 .. FUNCTS - 1
  BY FunctRange DEF RMnemonics
<1> HIDE DEF rs, rt, rd, sh, funct
<1>5. RTypeRead(word, funct, rs, rt, rd)
  BY <1>2, <1>3, <1>4, RTypeDecoded
<1> HIDE DEF word
<1>6. CASE mnem \in {"add", "sub", "mult", "div"}
  <2>1. NamesFunct(opNamed(mnem), funct)
    <3>1. opNamed(mnem) = opOf[mnem]
      BY <1>6 DEF opNamed, opOf
    <3> QED BY <1>6, <3>1 DEF NamesFunct, functs, opOf, functMap, funct
  <2>2. registersOf(node) = {<<"rd", "rd">>, <<"rs", "rs">>, <<"rt", "rt">>}
    BY <1>6 DEF registersOf, functMap
  <2>3. /\ registerName(rs) = toLower(node.rs) /\ registerName(rt) = toLower(node.rt)
        /\ registerName(rd) = toLower(node.rd)
    <3>1. TakenFrom(node, "rs", "rs") /\ TakenFrom(node, "rt", "rt") /\ TakenFrom(node, "rd", "rd")
      BY <2>2 DEF TakenFrom
    <3> QED BY <3>1, FieldNamed DEF rs, rt, rd
  <2>4. Found(p, node) = [op |-> opNamed(mnem), rs |-> toLower(node.rs),
                            rt |-> toLower(node.rt), rd |-> toLower(node.rd)]
    BY <1>6 DEF Found, Branches
  <2> QED BY <1>1, <1>5, <2>1, <2>3, <2>4 DEF RTypeRead
<1>7. CASE mnem \notin {"add", "sub", "mult", "div"}
  <2>1. mnem \in {"and", "or", "sll", "srl", "jr"}
    BY <1>7 DEF RMnemonics, functMap
  <2>2. NoFunct(funct)
    BY <2>1 DEF NoFunct, functs, functMap, funct
  <2>3. Found(p, node) = [op |-> opNamed(mnem)]
    BY <2>1 DEF Found, Branches
  <2>4. opNamed(mnem) = ""
    BY <2>1 DEF opNamed, opOf
  <2> QED BY <1>1, <1>5, <2>2, <2>3, <2>4 DEF RTypeRead
<1> QED BY <1>6, <1>7

\* What a word is decoded to, once its mnemonic has a name.
LEMMA OpNamed ==
  /\ \A mnem \in {"addi", "slti", "lw", "sw"} \cup Branches :
       /\ opNamed(mnem) \in ImmediateOps
       /\ opcodes[opNamed(mnem)] = instructionMap[mnem]
       /\ instructionMap[mnem] \in 1 .. 63 /\ instructionMap[mnem] \notin {2, 3}
  /\ opNamed("li") = "ADDI" /\ "ADDI" \in ImmediateOps /\ opcodes["ADDI"] = 8
  /\ instructionMap["addi"] = 8
  /\ opNamed("andi") = "ANDI" /\ instructionMap["andi"] = 12
  /\ opNamed("ori") = "" /\ instructionMap["ori"] = 13
<1>1. /\ opNamed("addi") = "ADDI" /\ opNamed("slti") = "SLTI" /\ opNamed("lw") = "LW"
      /\ opNamed("sw") = "SW" /\ opNamed("beq") = "BEQ" /\ opNamed("bne") = "BNE"
      /\ opNamed("bgt") = "BGT" /\ opNamed("blt") = "ADDIU" /\ opNamed("li") = "ADDI"
      /\ opNamed("andi") = "ANDI" /\ opNamed("ori") = ""
  BY DEF opNamed, opOf
<1>2. {"ADDI", "SLTI", "LW", "SW", "BEQ", "BNE", "BGT", "ADDIU"} \subseteq ImmediateOps
  BY DEF ImmediateOps, DecodedOps
<1>3. /\ opcodes["ADDI"] = 8 /\ opcodes["SLTI"] = 10 /\ opcodes["LW"] = 35 /\ opcodes["SW"] = 43
      /\ opcodes["BEQ"] = 4 /\ opcodes["BNE"] = 5 /\ opcodes["BGT"] = 7 /\ opcodes["ADDIU"] = 9
  BY DEF opcodes
<1>4. /\ instructionMap["addi"] = 8 /\ instructionMap["slti"] = 10 /\ instructionMap["lw"] = 35
      /\ instructionMap["sw"] = 43 /\ instructionMap["beq"] = 4 /\ instructionMap["bne"] = 5
      /\ instructionMap["bgt"] = 7 /\ instructionMap["blt"] = 9 /\ instructionMap["andi"] = 12
      /\ instructionMap["ori"] = 13
  BY DEF instructionMap
<1>5. \A opcode \in {4, 5, 7, 8, 9, 10, 35, 43} : opcode \in 1 .. 63 /\ opcode \notin {2, 3}
  OBVIOUS
<1> DEFINE Good(mnem, op, opcode) ==
             opNamed(mnem) = op /\ opcodes[op] = opcode /\ instructionMap[mnem] = opcode
<1>6. /\ Good("addi", "ADDI", 8) /\ Good("slti", "SLTI", 10) /\ Good("lw", "LW", 35)
      /\ Good("sw", "SW", 43) /\ Good("beq", "BEQ", 4) /\ Good("bne", "BNE", 5)
      /\ Good("bgt", "BGT", 7) /\ Good("blt", "ADDIU", 9)
  BY <1>1, <1>3, <1>4, Zenon
<1>7. ASSUME NEW mnem, NEW op \in ImmediateOps, NEW opcode \in {4, 5, 7, 8, 9, 10, 35, 43},
             Good(mnem, op, opcode)
      PROVE  /\ opNamed(mnem) \in ImmediateOps
             /\ opcodes[opNamed(mnem)] = instructionMap[mnem]
             /\ instructionMap[mnem] \in 1 .. 63 /\ instructionMap[mnem] \notin {2, 3}
  BY <1>5, <1>7, Zenon
<1> HIDE DEF Good
<1>8. ASSUME NEW mnem \in {"addi", "slti", "lw", "sw", "beq", "bne", "bgt", "blt"}
      PROVE  \E op \in ImmediateOps, opcode \in {4, 5, 7, 8, 9, 10, 35, 43} : Good(mnem, op, opcode)
  BY <1>2, <1>6, Zenon
<1>9. ASSUME NEW mnem \in {"addi", "slti", "lw", "sw"} \cup Branches
      PROVE  /\ opNamed(mnem) \in ImmediateOps
             /\ opcodes[opNamed(mnem)] = instructionMap[mnem]
             /\ instructionMap[mnem] \in 1 .. 63 /\ instructionMap[mnem] \notin {2, 3}
  <2>1. mnem \in {"addi", "slti", "lw", "sw", "beq", "bne", "bgt", "blt"}
    BY DEF Branches
  <2>2. PICK op \in ImmediateOps, opcode \in {4, 5, 7, 8, 9, 10, 35, 43} : Good(mnem, op, opcode)
    BY <1>8, <2>1, Zenon
  <2> QED BY <1>7, <2>2, Zenon
<1>10. "ADDI" \in ImmediateOps
  BY <1>2
<1> QED BY <1>1, <1>3, <1>4, <1>9, <1>10, Zenon

\* The maps of the parser hold the last place of every label of p.
LabelsOf(p, labels) ==
  \A l \in DOMAIN labels : codePlaces(p, l) # {} /\ labels[l] = lastOf(codePlaces(p, l))

SymbolsOf(p, symbols) ==
  \A l \in DOMAIN symbols : dataPlaces(p, l) # {} /\ symbols[l] = lastOf(dataPlaces(p, l))

\* end and print.
LEMMA BareFound ==
  ASSUME NEW p, NEW node, NEW labels, NEW symbols, node.instruction \in {"end", "print"}
  PROVE  Decode(parseInstruction(node, labels, symbols)) = Found(p, node)
<1> DEFINE mnem == node.instruction
<1>1. parseInstruction(node, labels, symbols) = instructionMap[mnem] * ADDRESSES
  <2>1. mnem \in DOMAIN instructionMap
    BY DEF instructionMap
  <2>2. getOpcode(mnem) = instructionMap[mnem]
    BY <2>1, OpcodeOf
  <2> QED BY <2>2 DEF parseInstruction, functMap
<1>2. instructionMap[mnem] = IF mnem = "end" THEN 63 ELSE 62
  BY DEF instructionMap
<1>3. Found(p, node) = [op |-> opNamed(mnem)]
  BY DEF Found, Branches
<1>4. opNamed(mnem) = IF mnem = "end" THEN "END" ELSE ""
  <2>1. opNamed("end") = "END" /\ opNamed("print") = ""
    BY DEF opNamed, opOf
  <2> QED BY <2>1
<1> HIDE DEF mnem
<1> QED BY <1>1, <1>2, <1>3, <1>4, BareDecoded

\* j and jal.
LEMMA JTypeFound ==
  ASSUME NEW p, NEW node, NEW labels, NEW symbols, Numeric(node, labels, symbols),
         encodable(node, labels, symbols), LabelsOf(p, labels), node.instruction \in JMnemonics
  PROVE  Decode(parseInstruction(node, labels, symbols)) = Found(p, node)
<1> DEFINE mnem == node.instruction
           named == Has(node, "label") \/ Has(node, "label1")
           address == IF named THEN labels[targetLabelName(node)] ELSE node.address
           opcode == instructionMap[mnem]
           word == buildBinaryInstruction(opcode, 0, 0, 0, 0, 0, 0, address)
<1>1. parseInstruction(node, labels, symbols) = word
  <2>1. getOpcode(mnem) = opcode
    BY OpcodeOf DEF JMnemonics, instructionMap
  <2>2. mnem \in {"j", "jal"} /\ mnem \notin {"end", "print"} \cup DOMAIN functMap
    BY DEF JMnemonics, functMap
  <2> HIDE DEF opcode
  <2> QED BY <2>1, <2>2 DEF parseInstruction, encodeJType
<1>2. operandsThere(node, labels, symbols) /\ mnem \in {"j", "jal"}
  BY DEF encodable, JMnemonics
<1>3. IF named THEN targetLabelName(node) \in DOMAIN labels ELSE Has(node, "address")
  BY <1>2 DEF operandsThere, functMap, Branches
<1>4. address = DestinationOf(p, node) /\ address \in Nat
  BY <1>2, <1>3 DEF DestinationOf, namesLabel, LabelsOf, Branches, Numeric
<1>5. opcode = IF mnem = "j" THEN 2 ELSE 3
  BY <1>2 DEF instructionMap
<1> HIDE DEF address, opcode
<1>6. Decode(word) = IF opcode = 2 THEN [op |-> "J", imm |-> address % ADDRESSES]
                     ELSE [op |-> "JAL"]
  BY <1>2, <1>4, <1>5, JTypeDecoded
<1>7. Found(p, node) = IF mnem = "j" THEN [op |-> opNamed(mnem), imm |-> address % ADDRESSES]
                         ELSE [op |-> opNamed(mnem)]
  BY <1>2, <1>4 DEF Found, Branches
<1>8. opNamed(mnem) = IF mnem = "j" THEN "J" ELSE "JAL"
  <2>1. opNamed("j") = "J" /\ opNamed("jal") = "JAL"
    BY DEF opNamed, opOf
  <2> QED BY <1>2, <2>1
<1> HIDE DEF word, mnem
<1> QED BY <1>1, <1>2, <1>5, <1>6, <1>7, <1>8

\* An I-type word whose operation has a name.
LEMMA IWordFound ==
  ASSUME NEW mnem \in {"addi", "slti", "lw", "sw"} \cup Branches,
         NEW rs \in 0 .. REGS - 1, NEW rt \in 0 .. REGS - 1, NEW imm \in 0 .. IMMEDIATES - 1
  PROVE  Decode(buildBinaryInstruction(instructionMap[mnem], rs, rt, 0, 0, 0, imm, 0)) =
           [op |-> opNamed(mnem), rs |-> registerName(rs), rt |-> registerName(rt), imm |-> imm]
<1> DEFINE opcode == instructionMap[mnem]
           op == opNamed(mnem)
           word == buildBinaryInstruction(opcode, rs, rt, 0, 0, 0, imm, 0)
<1>1. /\ op \in ImmediateOps /\ opcodes[op] = opcode
      /\ opcode \in 1 .. 63 /\ opcode \notin {2, 3}
  BY OpNamed
<1> HIDE DEF opcode, op
<1>2. ITypeRead(word, opcode, rs, rt, imm)
  BY <1>1, ITypeDecoded
<1> HIDE DEF word
<1>3. Decode(word) = [op |-> op, rs |-> registerName(rs), rt |-> registerName(rt), imm |-> imm]
  BY <1>1, <1>2, Zenon DEF ITypeRead
<1> QED BY <1>3 DEF word, op, opcode

\* What an I-type node is encoded to.
LEMMA IEncoded ==
  ASSUME NEW node, NEW labels, NEW symbols,
         node.instruction \in NumberMnemonics \cup Branches \cup {"li", "lw", "sw"}
  PROVE  /\ parseInstruction(node, labels, symbols) = encodeIType(node, labels, symbols)
         /\ getOpcode(node.instruction) = instructionMap[node.instruction]
         /\ getOpcode("addi") = instructionMap["addi"]
<1>1. /\ node.instruction \in DOMAIN instructionMap /\ "addi" \in DOMAIN instructionMap
      /\ node.instruction \notin {"end", "print", "j", "jal"} \cup DOMAIN functMap
  BY DEF NumberMnemonics, Branches, instructionMap, functMap
<1> QED BY <1>1, OpcodeOf DEF parseInstruction

\* rt is a register the node names.
LEMMA TargetNamed ==
  ASSUME NEW node, NEW labels, NEW symbols, encodable(node, labels, symbols),
         node.instruction \in NumberMnemonics \cup Branches \cup {"li", "lw", "sw"}
  PROVE  registerName(registerField(node, "rt")) = toLower(node.rt)
<1>1. TakenFrom(node, "rt", "rt")
  BY DEF TakenFrom, registersOf, functMap, NumberMnemonics, Branches
<1> QED BY <1>1, FieldNamed

\* So is rs, of the nodes that name two.
LEMMA SourceNamed ==
  ASSUME NEW node, NEW labels, NEW symbols, encodable(node, labels, symbols),
         node.instruction \in NumberMnemonics \cup Branches
  PROVE  registerName(registerField(node, "rs")) = toLower(node.rs)
<1>1. TakenFrom(node, "rs", "rs")
  BY DEF TakenFrom, registersOf, functMap, NumberMnemonics, Branches
<1> QED BY <1>1, FieldNamed

\* addi, slti, andi and ori.
LEMMA NumberFound ==
  ASSUME NEW p, NEW node, NEW labels, NEW symbols, Numeric(node, labels, symbols),
         encodable(node, labels, symbols), node.instruction \in NumberMnemonics
  PROVE  Decode(parseInstruction(node, labels, symbols)) = Found(p, node)
<1> DEFINE mnem == node.instruction
           rs == registerField(node, "rs")
           rt == registerField(node, "rt")
           imm == parseImmediate(node.immediate)
           opcode == instructionMap[mnem]
           word == buildBinaryInstruction(opcode, rs, rt, 0, 0, 0, imm, 0)
<1>1. parseInstruction(node, labels, symbols) = word
  BY IEncoded DEF encodeIType, NumberMnemonics, Branches
<1>2. rs \in 0 .. REGS - 1 /\ rt \in 0 .. REGS - 1
  BY FieldRange
<1>3. imm \in 0 .. IMMEDIATES - 1 /\ imm = node.immediate % IMMEDIATES
  <2>1. node.immediate \in Int
    BY DEF encodable, operandsThere, Numeric, NumberMnemonics, functMap, Branches
  <2> QED BY <2>1, ImmediateRange DEF parseImmediate
<1>4. registerName(rs) = toLower(node.rs) /\ registerName(rt) = toLower(node.rt)
  BY TargetNamed, SourceNamed
<1>5. mnem \in {"addi", "slti", "andi", "ori"} /\ mnem \notin Branches
  BY DEF NumberMnemonics, Branches
<1> HIDE DEF rs, rt, imm, mnem
<1>6. CASE mnem \in {"addi", "slti"}
  <2>1. Decode(word) = [op |-> opNamed(mnem), rs |-> registerName(rs), rt |-> registerName(rt),
                        imm |-> imm]
    BY <1>2, <1>3, <1>6, IWordFound
  <2>2. Found(p, node) = [op |-> opNamed(mnem), rs |-> toLower(node.rs),
                            rt |-> toLower(node.rt), imm |-> imm]
    BY <1>3, <1>5, <1>6 DEF Found, mnem
  <2> QED BY <1>1, <1>4, <2>1, <2>2
<1>7. CASE mnem \in {"andi", "ori"}
  <2>1. opcode \in 1 .. 63 /\ opcode \notin {2, 3} /\ opcode = IF mnem = "andi" THEN 12 ELSE 13
    <3>1. opcode = IF mnem = "andi" THEN 12 ELSE 13
      BY <1>7 DEF instructionMap
    <3> HIDE DEF opcode
    <3> QED BY <3>1
  <2> HIDE DEF opcode
  <2>2. ITypeRead(word, opcode, rs, rt, imm)
    BY <1>2, <1>3, <2>1, ITypeDecoded
  <2> HIDE DEF word
  <2>3. Decode(word) = [op |-> opNamed(mnem)]
    BY <1>7, <2>1, <2>2, OpNamed DEF ITypeRead
  <2>4. Found(p, node) = [op |-> opNamed(mnem)]
    BY <1>5, <1>7 DEF Found, mnem
  <2> QED BY <1>1, <2>3, <2>4
<1> QED BY <1>5, <1>6, <1>7

LEMMA LiFound ==
  ASSUME NEW p, NEW node, NEW labels, NEW symbols, Numeric(node, labels, symbols),
         encodable(node, labels, symbols), node.instruction = "li"
  PROVE  Decode(parseInstruction(node, labels, symbols)) = Found(p, node)
<1> DEFINE mnem == node.instruction
           rs == 0
           rt == registerField(node, "rt")
           imm == parseImmediate(node.immediate)
           word == buildBinaryInstruction(instructionMap["addi"], rs, rt, 0, 0, 0, imm, 0)
<1>1. parseInstruction(node, labels, symbols) = word
  BY IEncoded DEF encodeIType, Branches
<1>2. rs \in 0 .. REGS - 1 /\ rt \in 0 .. REGS - 1
  BY FieldRange DEF REGS
<1>3. imm \in 0 .. IMMEDIATES - 1 /\ imm = node.immediate % IMMEDIATES
  <2>1. node.immediate \in Int
    BY DEF encodable, operandsThere, Numeric, functMap, Branches
  <2> QED BY <2>1, ImmediateRange DEF parseImmediate
<1>4. registerName(rs) = "$zero" /\ registerName(rt) = toLower(node.rt)
  BY TargetNamed, ZeroNamed
<1> HIDE DEF rs, rt, imm
<1>5. Decode(word) = [op |-> opNamed("addi"), rs |-> registerName(rs), rt |-> registerName(rt),
                      imm |-> imm]
  BY <1>2, <1>3, IWordFound
<1>6. opNamed("addi") = opNamed("li")
  BY DEF opNamed, opOf
<1>7. Found(p, node) = [op |-> opNamed("li"), rs |-> "$zero", rt |-> toLower(node.rt),
                          imm |-> imm]
  BY <1>3 DEF Found, Branches
<1> HIDE DEF word
<1> QED BY <1>1, <1>4, <1>5, <1>6, <1>7

\* The four branches.
LEMMA BranchFound ==
  ASSUME NEW p, NEW node, NEW labels, NEW symbols, Numeric(node, labels, symbols),
         encodable(node, labels, symbols), LabelsOf(p, labels), node.instruction \in Branches
  PROVE  Decode(parseInstruction(node, labels, symbols)) = Found(p, node)
<1> DEFINE mnem == node.instruction
           rs == registerField(node, "rs")
           rt == registerField(node, "rt")
           imm == IF targetLabelName(node) # "" THEN labels[targetLabelName(node)] % IMMEDIATES
                  ELSE parseImmediate(node.offset)
           word == buildBinaryInstruction(instructionMap[mnem], rs, rt, 0, 0, 0, imm, 0)
<1>1. parseInstruction(node, labels, symbols) = word
  BY IEncoded DEF encodeIType, Branches
<1>2. rs \in 0 .. REGS - 1 /\ rt \in 0 .. REGS - 1
  BY FieldRange
<1>3. imm \in 0 .. IMMEDIATES - 1 /\ imm = DestinationOf(p, node) % IMMEDIATES
  <2>1. operandsThere(node, labels, symbols)
    BY DEF encodable
  <2>2. IF targetLabelName(node) # "" THEN targetLabelName(node) \in DOMAIN labels
        ELSE Has(node, "offset")
    BY <2>1 DEF operandsThere, functMap, Branches
  <2>3. DestinationOf(p, node) = IF targetLabelName(node) # "" THEN labels[targetLabelName(node)]
                                 ELSE node.offset
    BY <2>2 DEF DestinationOf, namesLabel, LabelsOf
  <2>4. DestinationOf(p, node) \in Int
    <3>1. CASE targetLabelName(node) # ""
      <4>1. labels[targetLabelName(node)] \in Nat
        BY <2>2, <3>1 DEF Numeric
      <4>2. DestinationOf(p, node) = labels[targetLabelName(node)]
        BY <2>3, <3>1, Zenon
      <4> QED BY <4>1, <4>2
    <3>2. CASE targetLabelName(node) = ""
      <4>1. node.offset \in Int
        BY <2>2, <3>2 DEF Numeric
      <4> QED BY <2>3, <3>2, <4>1
    <3> QED BY <3>1, <3>2
  <2> QED BY <2>3, <2>4, ImmediateRange DEF parseImmediate
<1>4. registerName(rs) = toLower(node.rs) /\ registerName(rt) = toLower(node.rt)
  BY TargetNamed, SourceNamed
<1> HIDE DEF rs, rt, imm
<1>5. Decode(word) = [op |-> opNamed(mnem), rs |-> registerName(rs), rt |-> registerName(rt),
                      imm |-> imm]
  BY <1>2, <1>3, IWordFound
<1>6. Found(p, node) = [op |-> opNamed(mnem), rs |-> toLower(node.rs), rt |-> toLower(node.rt),
                          imm |-> imm]
  BY <1>3 DEF Found, Branches
<1> HIDE DEF word, mnem
<1> QED BY <1>1, <1>4, <1>5, <1>6

\* lw and sw.
LEMMA MemoryFound ==
  ASSUME NEW p, NEW node, NEW labels, NEW symbols, Numeric(node, labels, symbols),
         encodable(node, labels, symbols), SymbolsOf(p, symbols), node.instruction \in {"lw", "sw"}
  PROVE  Decode(parseInstruction(node, labels, symbols)) = Found(p, node)
<1> DEFINE mnem == node.instruction
           rs == memoryBase(node)
           rt == registerField(node, "rt")
           imm == memoryImmediate(node, symbols)
           word == buildBinaryInstruction(instructionMap[mnem], rs, rt, 0, 0, 0, imm, 0)
           named == NamedWord(p, node)
<1>1. parseInstruction(node, labels, symbols) = word
  BY IEncoded DEF encodeIType, Branches
<1>2. rt \in 0 .. REGS - 1 /\ registerName(rt) = toLower(node.rt)
  BY FieldRange, TargetNamed
<1>3. operandsThere(node, labels, symbols)
  BY DEF encodable
<1>4. /\ rs \in 0 .. REGS - 1 /\ registerName(rs) = named.rs
      /\ named.imm \in Int /\ imm = named.imm % IMMEDIATES
  <2>1. CASE Has(node, "addr")
    <3>1. rs = getRegisterCode(node.addr.base) /\ imm = parseImmediate(node.addr.offset)
      BY <2>1 DEF memoryBase, memoryImmediate
    <3>2. isRegister(node.addr.base) /\ node.addr.offset \in Int
      BY <1>3, <2>1 DEF operandsThere, Numeric, functMap, Branches
    <3>3. named.rs = toLower(node.addr.base) /\ named.imm = node.addr.offset
      BY <2>1 DEF NamedWord
    <3> QED BY <3>1, <3>2, <3>3, RegisterRange, RegisterRead DEF parseImmediate
  <2>2. offsetOf(node) \in 0 .. IMMEDIATES - 1 /\ offsetOf(node) = offsetOf(node) % IMMEDIATES
    <3>1. offsetOf(node) \in 0 .. IMMEDIATES - 1
      BY ImmediateRange, Products DEF offsetOf, Numeric
    <3> QED BY <3>1, Products
  <2>3. CASE ~Has(node, "addr") /\ Has(node, "baseReg")
    <3>1. rs = registerField(node, "rs") /\ imm = offsetOf(node)
      BY <2>3 DEF memoryBase, memoryImmediate
    <3>2. TakenFrom(node, "rs", "baseReg")
      BY <2>3 DEF TakenFrom, registersOf, functMap, Branches
    <3>3. named.rs = toLower(node.baseReg) /\ named.imm = offsetOf(node)
      BY <2>3 DEF NamedWord
    <3> QED BY <2>2, <3>1, <3>2, <3>3, FieldRange, FieldNamed
  <2>4. CASE ~Has(node, "addr") /\ ~Has(node, "baseReg")
    <3>1. rs = registerField(node, "rs") /\ imm = (symbols[node.base] + offsetOf(node)) % IMMEDIATES
      BY <2>4 DEF memoryBase, memoryImmediate
    <3>2. \A r \in registersOf(node) : r[1] # "rs"
      BY <2>4 DEF registersOf, functMap, Branches
    <3>3. rs = 0
      BY <3>1, <3>2, NoField
    <3>4. node.base \in DOMAIN symbols
      BY <1>3, <2>4 DEF operandsThere, functMap, Branches
    <3>5. symbols[node.base] = lastOf(dataPlaces(p, node.base)) /\ symbols[node.base] \in Nat
      BY <3>4 DEF SymbolsOf, Numeric
    <3>6. named.rs = "$zero" /\ named.imm = lastOf(dataPlaces(p, node.base)) + offsetOf(node)
      BY <2>4 DEF NamedWord
    <3>7. rs \in 0 .. REGS - 1 /\ registerName(rs) = named.rs
      BY <3>3, <3>6, ZeroNamed DEF REGS
    <3>8. symbols[node.base] + offsetOf(node) \in Int
      BY <2>2, <3>5, Products
    <3> HIDE DEF named, rs, imm
    <3> QED BY <3>1, <3>5, <3>6, <3>7, <3>8
  <2> QED BY <2>1, <2>3, <2>4
<1>5. imm \in 0 .. IMMEDIATES - 1
  BY <1>4, ImmediateRange
<1> HIDE DEF rs, rt, imm
<1>6. Decode(word) = [op |-> opNamed(mnem), rs |-> registerName(rs), rt |-> registerName(rt),
                      imm |-> imm]
  BY <1>2, <1>4, <1>5, IWordFound
<1>7. Found(p, node) = [op |-> opNamed(mnem), rs |-> named.rs, rt |-> toLower(node.rt),
                          imm |-> named.imm % IMMEDIATES]
  BY DEF Found, Branches
<1> HIDE DEF word, mnem, named
<1> QED BY <1>1, <1>2, <1>4, <1>6, <1>7

\* Every instruction of the parser's table that is encoded with the labels of its own
\* program.
LEMMA DecodedAsFound ==
  ASSUME NEW p, NEW node, NEW labels, NEW symbols, Numeric(node, labels, symbols),
         encodable(node, labels, symbols), node.instruction \in DOMAIN instructionMap,
         LabelsOf(p, labels), SymbolsOf(p, symbols)
  PROVE  Decode(parseInstruction(node, labels, symbols)) = Found(p, node)
<1>1. CASE node.instruction \in RMnemonics
  BY <1>1, RTypeFound
<1>2. CASE node.instruction \in JMnemonics
  BY <1>2, JTypeFound
<1>3. CASE node.instruction \in NumberMnemonics
  BY <1>3, NumberFound
<1>4. CASE node.instruction \in Branches
  BY <1>4, BranchFound
<1>5. CASE node.instruction = "li"
  BY <1>5, LiFound
<1>6. CASE node.instruction \in {"lw", "sw"}
  BY <1>6, MemoryFound
<1>7. CASE node.instruction \in {"end", "print"}
  BY <1>7, BareFound
<1> QED BY <1>1, <1>2, <1>3, <1>4, <1>5, <1>6, <1>7, Mnemonics

\* Where the tables agree, it is what the file says.
LEMMA FoundIsMeant ==
  ASSUME NEW p, NEW node, node.instruction \in Understood
  PROVE  Found(p, node) = Meaning(p, node)
<1> DEFINE mnem == node.instruction
<1>1. opNamed(mnem) = operationOf[mnem]
  <2>1. mnem \in DOMAIN opOf /\ opOf[mnem] = operationOf[mnem] /\ mnem \notin {"blt", "jal", "andi"}
    BY DEF Understood, opOf, operationOf
  <2> QED BY <2>1 DEF opNamed
<1>2. CASE mnem \in {"add", "sub", "mult", "div"}
  BY <1>1, <1>2 DEF Found, Meaning, Branches
<1>3. CASE mnem \in {"addi", "slti"}
  BY <1>1, <1>3 DEF Found, Meaning, Branches
<1>4. CASE mnem = "li"
  BY <1>1, <1>4 DEF Found, Meaning, Branches
<1>5. CASE mnem \in {"lw", "sw"}
  BY <1>1, <1>5 DEF Found, Meaning, Branches
<1>6. CASE mnem \in {"beq", "bne", "bgt"}
  BY <1>1, <1>6 DEF Found, Meaning, Branches
<1>7. CASE mnem = "j"
  BY <1>1, <1>7 DEF Found, Meaning, Branches
<1>8. CASE mnem = "end"
  BY <1>1, <1>8 DEF Found, Meaning, Branches
<1> QED BY <1>2, <1>3, <1>4, <1>5, <1>6, <1>7, <1>8 DEF Understood

\* Where they differ, it is not.
LEMMA FoundIsNotMeant ==
  ASSUME NEW p, NEW node, node.instruction \in DOMAIN instructionMap \ Understood
  PROVE  Found(p, node) # Meaning(p, node)
<1> DEFINE mnem == node.instruction
<1>1. mnem \in {"and", "or", "sll", "srl", "jr", "ori", "andi", "blt", "jal", "print"}
  BY DEF Understood, instructionMap
<1>2. mnem \in DOMAIN operationOf
  BY <1>1 DEF operationOf
<1>3. CASE mnem \in {"andi", "jal"}
  <2>1. Found(p, node) = [op |-> opNamed(mnem)]
    BY <1>3 DEF Found, Branches
  <2>2. "imm" \notin DOMAIN Found(p, node)
    BY <2>1
  <2>3. "imm" \in DOMAIN Meaning(p, node)
    BY <1>3 DEF Meaning, Branches
  <2> QED BY <2>2, <2>3
<1>4. CASE mnem \notin {"andi", "jal"}
  <2>1. Found(p, node).op = opNamed(mnem)
    BY <1>1, <1>4 DEF Found, Branches
  <2>2. Meaning(p, node).op = operationOf[mnem]
    BY <1>1, <1>4 DEF Meaning, Branches
  <2>3. opNamed(mnem) \in {"", "ADDIU"}
    BY <1>1, <1>4 DEF opNamed, opOf
  <2>4. operationOf[mnem] \notin {"", "ADDIU"}
    <3>1. /\ operationOf["and"] = "AND" /\ operationOf["or"] = "OR" /\ operationOf["sll"] = "SLL"
          /\ operationOf["srl"] = "SRL" /\ operationOf["jr"] = "JR" /\ operationOf["ori"] = "ORI"
          /\ operationOf["blt"] = "BLT" /\ operationOf["print"] = "PRINT"
      BY DEF operationOf
    <3> HIDE DEF mnem
    <3> QED BY <1>1, <1>4, <3>1
  <2> QED BY <2>1, <2>2, <2>3, <2>4
<1> QED BY <1>3, <1>4

\* The round trip from a file to the control unit: for the mnemonics of Understood what
\* is decoded is the instruction the file names, with every operand form, when the
\* labels are those of the program.
THEOREM DecodedAsMeant ==
  ASSUME NEW p, NEW node, NEW labels, NEW symbols, Numeric(node, labels, symbols),
         encodable(node, labels, symbols), node.instruction \in Understood,
         LabelsOf(p, labels), SymbolsOf(p, symbols)
  PROVE  Decode(parseInstruction(node, labels, symbols)) = Meaning(p, node)
<1>1. node.instruction \in DOMAIN instructionMap
  BY DEF Understood, instructionMap
<1> QED BY <1>1, DecodedAsFound, FoundIsMeant

\* And for no other mnemonic of the parser's table: print, blt, jal, and, andi, or, ori,
\* sll, srl and jr never reach the control unit as the instruction the file names.
THEOREM NotUnderstood ==
  ASSUME NEW p, NEW node, NEW labels, NEW symbols, Numeric(node, labels, symbols),
         encodable(node, labels, symbols),
         node.instruction \in DOMAIN instructionMap \ Understood,
         LabelsOf(p, labels), SymbolsOf(p, symbols)
  PROVE  Decode(parseInstruction(node, labels, symbols)) # Meaning(p, node)
BY DecodedAsFound, FoundIsNotMeant

LEMMA FoundOp ==
  ASSUME NEW p, NEW node
  PROVE  Found(p, node).op = opNamed(node.instruction)
<1> DEFINE mnem == node.instruction
<1>1. CASE mnem \in {"add", "sub", "mult", "div"}
  BY <1>1 DEF Found, Branches
<1>2. CASE mnem \in {"addi", "slti"}
  BY <1>2 DEF Found, Branches
<1>3. CASE mnem = "li"
  BY <1>3 DEF Found, Branches
<1>4. CASE mnem \in {"lw", "sw"}
  BY <1>4 DEF Found, Branches
<1>5. CASE mnem \in Branches
  BY <1>5 DEF Found, Branches
<1>6. CASE mnem = "j"
  BY <1>6 DEF Found, Branches
<1>7. CASE mnem \notin {"add", "sub", "mult", "div", "addi", "slti", "li", "lw", "sw", "j"} \cup Branches
  BY <1>7 DEF Found, Branches
<1> QED BY <1>1, <1>2, <1>3, <1>4, <1>5, <1>6, <1>7

\* No encoded instruction is the word with all bits set: that would be an end, and
\* the word of end is another.
LEMMA NoInstructionMisses ==
  ASSUME NEW p, NEW node, NEW labels, NEW symbols, Numeric(node, labels, symbols),
         encodable(node, labels, symbols), node.instruction \in DOMAIN instructionMap,
         LabelsOf(p, labels), SymbolsOf(p, symbols)
  PROVE  parseInstruction(node, labels, symbols) # WORDS - 1
<1> DEFINE word == parseInstruction(node, labels, symbols)
           last == ADDRESSES - 1
<1> SUFFICES ASSUME word = WORDS - 1 PROVE FALSE
  OBVIOUS
<1>1. ADDRESSES \in Nat \ {0} /\ ADDRESSES >= 32
  <2> DEFINE half == REGS * IMMEDIATES
  <2>1. half \in Nat \ {0} /\ ADDRESSES = 32 * half
    BY Products DEF REGS
  <2> HIDE DEF half
  <2> QED BY <2>1
<1>2. WORDS - 1 = 63 * ADDRESSES + last /\ last \in 0 .. ADDRESSES - 1
  BY <1>1 DEF WORDS
<1> HIDE DEF word
<1>3. word \div ADDRESSES = 63
  <2>1. ASSUME NEW k \in Nat PROVE (k * ADDRESSES + last) \div ADDRESSES = k
    BY <1>1, <1>2, Quotient
  <2> QED BY <1>2, <2>1
<1>4. Identificacao_instrucao(word) = "END"
  <2>1. NamesOpcode("END", 63)
    BY DEF opcodes, NamesOpcode
  <2>2. ASSUME NEW other, other \div ADDRESSES = 63
        PROVE  Identificacao_instrucao(other) = "END"
    BY <2>1, <2>2, 63 # 0, OpcodeNamed
  <2> QED BY <1>3, <2>2
<1>5. Decode(word) = [op |-> "END"]
  BY <1>4 DEF Decode, DecodedOps
<1>6. Found(p, node) = [op |-> "END"]
  BY <1>5, DecodedAsFound DEF word
<1>7. opNamed(node.instruction) = "END"
  <2>1. Found(p, node).op = "END"
    BY <1>6
  <2> QED BY <2>1, FoundOp
<1>8. node.instruction = "end"
  <2>1. CASE node.instruction \in DOMAIN opOf
    BY <1>7, <2>1 DEF opNamed, opOf
  <2>2. CASE node.instruction \notin DOMAIN opOf
    BY <1>7, <2>2 DEF opNamed
  <2> QED BY <2>1, <2>2
<1>9. word = 63 * ADDRESSES
  <2>1. getOpcode("end") = 63
    BY OpcodeOf DEF instructionMap
  <2> QED BY <1>8, <2>1 DEF word, parseInstruction, functMap
<1> QED BY <1>1, <1>2, <1>9
-----------------------------------------------------------------------------
(* What the memory of a process holds *)

\* The words of the code are four bytes wide and pages hold whole words.
WholeWords == WORD_SIZE = INSTRUCTION_SIZE /\ PAGE_SIZE % INSTRUCTION_SIZE = 0

\* The word the cache takes for a miss is the word with all bits set, and no data
\* item of a program is that word.
NoMissWord ==
  /\ UINT32_MAX = WORDS - 1
  /\ \A p \in Proc : HasProgram(p) /\ procFile[p].program_path \in DOMAIN Programs =>
       \A i \in 1 .. Len(dataOf(p)) :
         Has(dataOf(p)[i], "value") => dataOf(p)[i].value % WORDS # UINT32_MAX

\* Programs name their instructions in lower case.
LowerCasePrograms ==
  \A p \in Proc : HasProgram(p) /\ procFile[p].program_path \in DOMAIN Programs =>
    \A i \in 1 .. Len(instructionsOf(p)) :
      toLower(instructionsOf(p)[i].instruction) \in DOMAIN instructionMap =>
        instructionsOf(p)[i].instruction \in DOMAIN instructionMap

sizeOf(p) == startOf(p) + INSTRUCTION_SIZE * Len(instructionsOf(p))

\* The words below it are written.
written == IF stage = "labels" THEN startAddr ELSE addr
limitOf(p) == IF stage \in Parsing /\ p = newPcb THEN written ELSE sizeOf(p)

\* Where the loader is in the file.
PlaceInv ==
  /\ stage = "data" => addr = INSTRUCTION_SIZE * done /\ done <= Len(dataOf(newPcb))
  /\ stage \in {"labels", "code"} =>
       /\ startAddr = startOf(newPcb) /\ addr = startAddr + INSTRUCTION_SIZE * done
       /\ done <= Len(instructionsOf(newPcb))

\* The maps have the labels passed, each at its last place, and no others.
dataPassed == IF stage = "data" THEN done ELSE Len(dataOf(newPcb))
codePassed ==
  IF stage = "data" THEN 0 ELSE IF stage = "labels" THEN done ELSE Len(instructionsOf(newPcb))

labelsItem(i, l) == Has(dataOf(newPcb)[i], "label") /\ dataOf(newPcb)[i].label = l
labelsNode(i, l) == definesLabel(instructionsOf(newPcb)[i]) /\ instructionsOf(newPcb)[i].label = l
IsMap(f) == f = [l \in DOMAIN f |-> f[l]]
SymbolsInv ==
  /\ IsMap(dataMap)
  /\ \A i \in 1 .. dataPassed : Has(dataOf(newPcb)[i], "label") =>
       /\ dataOf(newPcb)[i].label \in DOMAIN dataMap
       /\ INSTRUCTION_SIZE * (i - 1) <= dataMap[dataOf(newPcb)[i].label]
  /\ \A l \in DOMAIN dataMap : \E i \in 1 .. dataPassed :
       labelsItem(i, l) /\ dataMap[l] = INSTRUCTION_SIZE * (i - 1)

LabelsInv ==
  /\ IsMap(labelMap)
  /\ \A i \in 1 .. codePassed : definesLabel(instructionsOf(newPcb)[i]) =>
       /\ instructionsOf(newPcb)[i].label \in DOMAIN labelMap
       /\ addressOf(newPcb, i) <= labelMap[instructionsOf(newPcb)[i].label]
  /\ \A l \in DOMAIN labelMap : \E i \in 1 .. codePassed :
       labelsNode(i, l) /\ labelMap[l] = addressOf(newPcb, i)

MapsInv == stage \in Parsing => SymbolsInv /\ LabelsInv

\* The PCBs whose entry point is known have theirs, and the others none.
Started == Range(process_list) \cup (IF stage = "code" THEN {newPcb} ELSE {})
EntryRight(p) ==
  /\ pc[p] = IF codePlaces(p, "start") # {} THEN lastOf(codePlaces(p, "start"))
             ELSE IF Has(Programs[procFile[p].program_path], "program") THEN startOf(p) ELSE 0
  /\ burst_time[p] = Len(instructionsOf(p))

EntryInv ==
  /\ \A p \in Started : EntryRight(p)
  /\ stage # "caught" => \A p \in Proc \ Started : pc[p] = 0 /\ burst_time[p] = 0

\* A cached word is that of its frame, but where the page in the frame has no
\* word yet.  Pages in main memory are begun, and the one being filled is there.
ownerOf(f) == frameOwnerTable[f].ownerProcess
placeOf(f, offset) == frameOwnerTable[f].virtualPageNumber * PAGE_SIZE + offset
EntryHolds(a) ==
  /\ framesMap[a[1]] /\ a[2] % INSTRUCTION_SIZE = 0 /\ cacheMap[a].data # UINT32_MAX
  /\ cacheMap[a].isDirty =>
       \/ cacheMap[a].data = ram[a[1]][wordOf(a[2])]
       \/ placeOf(a[1], a[2]) >= limitOf(ownerOf(a[1]))

PageBegun(f) ==
  /\ frameOwnerTable[f].virtualPageNumber \in Nat
  /\ placeOf(f, 0) < limitOf(ownerOf(f))

FillInv ==
  stage # "caught" =>
    /\ \A a \in DOMAIN cacheMap : EntryHolds(a)
    /\ \A f \in Frame : framesMap[f] => PageBegun(f)
    /\ stage \in Parsing /\ written % PAGE_SIZE # 0 => Resident(newPcb, written \div PAGE_SIZE)

\* The word at an address of a process is the one its file asks for.
Right(p, address, word) ==
  \/ \E i \in 1 .. Len(dataOf(p)) :
       address = INSTRUCTION_SIZE * (i - 1) /\ word = dataOf(p)[i].value % WORDS
  \/ \E i \in 1 .. Len(instructionsOf(p)) :
       address = addressOf(p, i) /\ IsCode(p, instructionsOf(p)[i], word)

HeldAt(p, address) ==
  pageOf(p, address) # NONE /\ Right(p, address, wordAt(p, address))

HeldInv ==
  nextSwapAddress <= diskPages =>
    \A p \in Alive : PidOfItsOwn(p) =>
      \A address \in 0 .. limitOf(p) - 1 : address % INSTRUCTION_SIZE = 0 => HeldAt(p, address)
-----------------------------------------------------------------------------
(* The place in the file and the labels passed *)

LEMMA LastOf ==
  ASSUME NEW places, places \subseteq Int, NEW a \in places, \A b \in places : b <= a
  PROVE  lastOf(places) = a
<1> DEFINE last == lastOf(places)
<1>1. last \in places /\ \A b \in places : b <= last
  BY DEF lastOf
<1> HIDE DEF last
<1>2. a <= last /\ last <= a /\ a \in Int /\ last \in Int
  BY <1>1
<1> QED BY <1>2 DEF last

\* The program being loaded is not queued yet.
LEMMA NewNotQueued ==
  ASSUME LoaderInv, QueueInv, batch \in Batches, stage \in Parsing
  PROVE  newPcb \notin Range(process_list)
<1>1. batch \in Seq(Proc) /\ IsInjective(batch) /\ position \in 1 .. Len(batch)
  BY LoaderAssumption DEF LoaderInv, LoopInv
<1>2. Range(process_list) = QueuedOf(position - 1)
  BY DEF QueueInv, QueuedInOrder, QueuedOf, Completed, Parsing
<1>3. \A k \in 1 .. position - 1 : batch[k] # batch[position]
  BY <1>1 DEF IsInjective
<1> QED BY <1>2, <1>3 DEF QueuedOf, newPcb

\* What the steps of a program leave alone.
LEMMA SameProgram ==
  ASSUME parseData \/ parseProgram \/ defineLabel \/ setEntryPoint \/ encodeInstruction
  PROVE  newPcb' = newPcb /\ stage \in Parsing /\ UNCHANGED <<batch, position, process_list>>
<1>1. /\ UNCHANGED <<batch, position, process_list>>
      /\ stage \in Parsing
  BY DEF parseData, parseProgram, defineLabel, setEntryPoint, encodeInstruction, Parsing
<1> QED BY <1>1 DEF newPcb

\* The first step of a program.
LEMMA BeginsProgram ==
  ASSUME NumericPrograms, LoaderInv, loadJsonProgram, stage' # "caught"
  PROVE  /\ stage' = "data" /\ done' = 0 /\ addr' = 0 /\ dataMap' = <<>> /\ labelMap' = <<>>
         /\ newPcb' \in Proc
         /\ Len(dataOf(newPcb')) \in Nat /\ Len(instructionsOf(newPcb')) \in Nat
<1>1. /\ stage' = "data" /\ done' = 0 /\ addr' = 0 /\ dataMap' = <<>> /\ labelMap' = <<>>
      /\ procFile[nextEntry].program_path \in DOMAIN Programs
      /\ HasProgram(nextEntry) /\ position < Len(batch) /\ position' = position + 1
      /\ batch' = batch
  BY DEF loadJsonProgram, BeginEntry, readJsonFile, Throw, HasProgram
<1>2. newPcb' = nextEntry /\ nextEntry \in Proc
  BY <1>1 DEF newPcb, nextEntry, LoaderInv, LoopInv
<1> QED BY <1>1, <1>2 DEF NumericPrograms

LEMMA PlaceKept ==
  ASSUME NumericPrograms, LoaderInv, QueueInv, PlaceInv, LoaderNext
  PROVE  PlaceInv'
<1> DEFINE data == Len(dataOf(newPcb))
           code == Len(instructionsOf(newPcb))
<1>1. CASE SkipProcess \/ addProcess \/ EndOfBatch
  <2>1. stage' \notin {"data", "labels", "code"}
    BY <1>1 DEF SkipProcess, BeginEntry, addProcess, EndOfBatch
  <2> QED BY <2>1 DEF PlaceInv
<1>2. CASE loadJsonProgram
  <2>1. CASE stage' = "caught"
    BY <2>1 DEF PlaceInv
  <2>2. CASE stage' # "caught"
    BY <1>2, <2>2, BeginsProgram DEF PlaceInv, INSTRUCTION_SIZE
  <2> QED BY <2>1, <2>2
<1>3. ASSUME stage \in Parsing PROVE data \in Nat /\ code \in Nat
  BY <1>3, NewNumeric
<1> USE DEF INSTRUCTION_SIZE
<1>4. CASE parseData
  <2>1. newPcb' = newPcb /\ stage = "data" /\ done < data /\ data \in Nat
    BY <1>3, <1>4, SameProgram DEF parseData
  <2>2. \/ stage' = "caught"
        \/ stage' = "data" /\ done' = done + 1 /\ addr' = addr + 4
    BY <1>4, <2>1 DEF parseData, Throw, writeWord
  <2>3. addr = 4 * done /\ done \in Nat /\ addr \in Nat
    BY <2>1 DEF PlaceInv, LoaderInv, LoopInv
  <2> QED BY <2>1, <2>2, <2>3 DEF PlaceInv
<1>5. CASE parseProgram
  <2>1. /\ newPcb' = newPcb /\ stage = "data" /\ done = data /\ stage' = "labels" /\ done' = 0
        /\ startAddr' = addr /\ addr' = addr /\ data \in Nat /\ code \in Nat
    BY <1>3, <1>5, SameProgram DEF parseProgram, Parsing
  <2>2. addr = startOf(newPcb) /\ addr \in Nat
    BY <2>1 DEF PlaceInv, startOf, LoaderInv, LoopInv
  <2> QED BY <2>1, <2>2 DEF PlaceInv
<1>6. CASE defineLabel
  <2>1. /\ newPcb' = newPcb /\ stage = "labels" /\ stage' = stage /\ done < code /\ done' = done + 1
        /\ startAddr' = startAddr /\ addr' = addr + 4 /\ code \in Nat
    BY <1>3, <1>6, SameProgram DEF defineLabel
  <2>2. addr = startAddr + 4 * done /\ done \in Nat /\ addr \in Nat /\ startAddr \in Nat
    BY <2>1 DEF PlaceInv, LoaderInv, LoopInv
  <2> QED BY <2>1, <2>2 DEF PlaceInv
<1>7. CASE setEntryPoint
  <2>1. /\ newPcb' = newPcb /\ stage = "labels" /\ stage' = "code" /\ done' = 0
        /\ startAddr' = startAddr /\ addr' = startAddr /\ code \in Nat /\ startAddr \in Nat
    BY <1>3, <1>7, SameProgram DEF setEntryPoint, LoaderInv, LoopInv
  <2> QED BY <2>1 DEF PlaceInv
<1>8. CASE encodeInstruction
  <2>1. /\ newPcb' = newPcb /\ stage = "code" /\ done < code /\ code \in Nat
        /\ startAddr' = startAddr
    BY <1>3, <1>8, SameProgram DEF encodeInstruction
  <2>2. \/ stage' = "caught"
        \/ stage' = "code" /\ done' = done + 1 /\ addr' = addr + 4
    BY <1>8, <2>1 DEF encodeInstruction, Throw, writeWord
  <2>3. addr = startAddr + 4 * done /\ done \in Nat /\ addr \in Nat /\ startAddr \in Nat
    BY <2>1 DEF PlaceInv, LoaderInv, LoopInv
  <2> QED BY <2>1, <2>2, <2>3 DEF PlaceInv
<1> QED BY <1>1, <1>2, <1>4, <1>5, <1>6, <1>7, <1>8 DEF LoaderNext

\* Passing an item of the data adds its label.
LEMMA SymbolPassed ==
  ASSUME NumericPrograms, LoaderInv, QueueInv, PlaceInv, SymbolsInv, parseData, stage' # "caught"
  PROVE  SymbolsInv'
<1> DEFINE item == dataOf(newPcb)[done + 1]
           items == dataOf(newPcb)
<1>1. /\ newPcb' = newPcb /\ stage = "data" /\ stage' = "data" /\ done' = done + 1 /\ done \in Nat
      /\ addr = 4 * done /\ addr = 4 * ((done + 1) - 1)
  <2>1. newPcb' = newPcb /\ stage = "data" /\ stage' = "data" /\ done' = done + 1
    BY SameProgram DEF parseData, Throw, writeWord
  <2> QED BY <2>1 DEF LoaderInv, LoopInv, PlaceInv, INSTRUCTION_SIZE
<1>2. dataMap' = IF Has(item, "label")
                 THEN [l \in DOMAIN dataMap \cup {item.label} |->
                         IF l = item.label THEN addr ELSE dataMap[l]]
                 ELSE dataMap
  BY DEF parseData
<1>3. /\ \A i \in 1 .. done : Has(items[i], "label") =>
           items[i].label \in DOMAIN dataMap /\ 4 * (i - 1) <= dataMap[items[i].label]
      /\ \A l \in DOMAIN dataMap : \E i \in 1 .. done :
           /\ Has(items[i], "label") /\ items[i].label = l
           /\ dataMap[l] = 4 * (i - 1)
  BY <1>1 DEF SymbolsInv, dataPassed, labelsItem, INSTRUCTION_SIZE
<1>4. /\ \A i \in 1 .. done + 1 : i \in 1 .. done \/ i = done + 1
      /\ done + 1 \in 1 .. done + 1 /\ \A i \in 1 .. done : i \in 1 .. done + 1
      /\ \A i \in 1 .. done + 1 : 4 * (i - 1) <= addr
  BY <1>1
<1> DEFINE old == dataMap
           new == dataMap'
<1> HIDE DEF items
<1>5. ASSUME NEW i \in 1 .. done + 1, Has(items[i], "label")
      PROVE  items[i].label \in DOMAIN new /\ 4 * (i - 1) <= new[items[i].label]
  <2>1. CASE i = done + 1
    <3>1. items[i] = item
      BY <2>1 DEF items
    <3>2. items[i].label \in DOMAIN new /\ new[items[i].label] = addr
      BY <1>2, <1>5, <3>1
    <3> QED BY <1>1, <1>4, <2>1, <3>2
  <2>2. CASE i \in 1 .. done
    <3>1. items[i].label \in DOMAIN old /\ 4 * (i - 1) <= old[items[i].label]
      BY <1>3, <1>5, <2>2
    <3>2. /\ items[i].label \in DOMAIN new
          /\ new[items[i].label] = old[items[i].label] \/ new[items[i].label] = addr
      BY <1>2, <3>1
    <3> QED BY <1>4, <3>1, <3>2
  <2> QED BY <1>4, <2>1, <2>2
<1>6. ASSUME NEW l \in DOMAIN new
      PROVE  \E i \in 1 .. done + 1 :
               Has(items[i], "label") /\ items[i].label = l /\ new[l] = 4 * (i - 1)
  <2>1. CASE Has(item, "label") /\ l = item.label
    <3>1. new[l] = addr
      BY <1>2, <2>1
    <3>2. Has(items[done + 1], "label") /\ items[done + 1].label = l
      BY <2>1 DEF items
    <3> QED BY <1>1, <1>4, <3>1, <3>2
  <2>2. CASE ~(Has(item, "label") /\ l = item.label)
    <3>1. l \in DOMAIN old /\ new[l] = old[l]
      BY <1>2, <2>2
    <3>2. PICK i \in 1 .. done :
            Has(items[i], "label") /\ items[i].label = l /\ old[l] = 4 * (i - 1)
      BY <1>3, <3>1
    <3> QED BY <1>4, <3>1, <3>2
  <2> QED BY <2>1, <2>2
<1> HIDE DEF item, old, new
<1>7. dataPassed' = done + 1 /\ dataOf(newPcb)' = items
  BY <1>1 DEF dataPassed, items
<1>8. IsMap(new)
  BY <1>2 DEF SymbolsInv, IsMap, new, old
<1> QED BY <1>5, <1>6, <1>7, <1>8 DEF SymbolsInv, labelsItem, INSTRUCTION_SIZE, IsMap, new

\* Passing an instruction in the first pass adds the label it defines.
LEMMA LabelPassed ==
  ASSUME NumericPrograms, LoaderInv, QueueInv, PlaceInv, LabelsInv, defineLabel
  PROVE  LabelsInv'
<1> DEFINE node == instructionsOf(newPcb)[done + 1]
           nodes == instructionsOf(newPcb)
           start == startOf(newPcb)
<1>1. /\ newPcb' = newPcb /\ stage = "labels" /\ stage' = "labels" /\ done' = done + 1 /\ done \in Nat
      /\ start \in Nat /\ addr = start + 4 * done /\ addr = start + 4 * ((done + 1) - 1)
  <2>1. newPcb' = newPcb /\ stage = "labels" /\ stage' = "labels" /\ done' = done + 1
    BY SameProgram DEF defineLabel
  <2>2. start = startAddr /\ startAddr \in Nat /\ addr = startAddr + 4 * done /\ done \in Nat
    BY <2>1 DEF LoaderInv, LoopInv, PlaceInv, INSTRUCTION_SIZE
  <2> HIDE DEF start
  <2> QED BY <2>1, <2>2
<1>2. labelMap' = IF definesLabel(node)
                  THEN [l \in DOMAIN labelMap \cup {node.label} |->
                          IF l = node.label THEN addr ELSE labelMap[l]]
                  ELSE labelMap
  BY DEF defineLabel
<1>3. /\ \A i \in 1 .. done : definesLabel(nodes[i]) =>
           nodes[i].label \in DOMAIN labelMap /\ start + 4 * (i - 1) <= labelMap[nodes[i].label]
      /\ \A l \in DOMAIN labelMap : \E i \in 1 .. done :
           /\ definesLabel(nodes[i]) /\ nodes[i].label = l
           /\ labelMap[l] = start + 4 * (i - 1)
  BY <1>1 DEF LabelsInv, codePassed, labelsNode, addressOf, INSTRUCTION_SIZE
<1> HIDE DEF start
<1>4. /\ \A i \in 1 .. done + 1 : i \in 1 .. done \/ i = done + 1
      /\ done + 1 \in 1 .. done + 1 /\ \A i \in 1 .. done : i \in 1 .. done + 1
      /\ \A i \in 1 .. done + 1 : start + 4 * (i - 1) <= addr
  BY <1>1
<1> DEFINE old == labelMap
           new == labelMap'
<1> HIDE DEF nodes
<1>5. ASSUME NEW i \in 1 .. done + 1, definesLabel(nodes[i])
      PROVE  nodes[i].label \in DOMAIN new /\ start + 4 * (i - 1) <= new[nodes[i].label]
  <2>1. CASE i = done + 1
    <3>1. nodes[i] = node
      BY <2>1 DEF nodes
    <3>2. nodes[i].label \in DOMAIN new /\ new[nodes[i].label] = addr
      BY <1>2, <1>5, <3>1
    <3> QED BY <1>1, <1>4, <2>1, <3>2
  <2>2. CASE i \in 1 .. done
    <3>1. nodes[i].label \in DOMAIN old /\ start + 4 * (i - 1) <= old[nodes[i].label]
      BY <1>3, <1>5, <2>2
    <3>2. /\ nodes[i].label \in DOMAIN new
          /\ new[nodes[i].label] = old[nodes[i].label] \/ new[nodes[i].label] = addr
      BY <1>2, <3>1
    <3> QED BY <1>4, <3>1, <3>2
  <2> QED BY <1>4, <2>1, <2>2
<1>6. ASSUME NEW l \in DOMAIN new
      PROVE  \E i \in 1 .. done + 1 :
               definesLabel(nodes[i]) /\ nodes[i].label = l /\ new[l] = start + 4 * (i - 1)
  <2>1. CASE definesLabel(node) /\ l = node.label
    <3>1. new[l] = addr
      BY <1>2, <2>1
    <3>2. definesLabel(nodes[done + 1]) /\ nodes[done + 1].label = l
      BY <2>1 DEF nodes
    <3> QED BY <1>1, <1>4, <3>1, <3>2
  <2>2. CASE ~(definesLabel(node) /\ l = node.label)
    <3>1. l \in DOMAIN old /\ new[l] = old[l]
      BY <1>2, <2>2
    <3>2. PICK i \in 1 .. done :
            definesLabel(nodes[i]) /\ nodes[i].label = l /\ old[l] = start + 4 * (i - 1)
      BY <1>3, <3>1
    <3> QED BY <1>4, <3>1, <3>2
  <2> QED BY <2>1, <2>2
<1> HIDE DEF node, old, new
<1>7. codePassed' = done + 1 /\ instructionsOf(newPcb)' = nodes /\ startOf(newPcb)' = start
  BY <1>1 DEF codePassed, nodes, start
<1>8. IsMap(new)
  BY <1>2 DEF LabelsInv, IsMap, new, old
<1> QED BY <1>5, <1>6, <1>7, <1>8 DEF LabelsInv, labelsNode, addressOf, INSTRUCTION_SIZE, IsMap, new

LEMMA MapsKept ==
  ASSUME NumericPrograms, LoaderInv, QueueInv, PlaceInv, MapsInv, LoaderNext
  PROVE  MapsInv'
<1>1. CASE SkipProcess \/ addProcess \/ EndOfBatch
  <2>1. stage' \notin Parsing
    BY <1>1 DEF SkipProcess, BeginEntry, addProcess, EndOfBatch, Parsing
  <2> QED BY <2>1 DEF MapsInv, Parsing
<1>2. CASE stage' = "caught"
  BY <1>2 DEF MapsInv, Parsing
<1>3. CASE loadJsonProgram /\ stage' # "caught"
  <2>1. stage' = "data" /\ done' = 0 /\ dataMap' = <<>> /\ labelMap' = <<>>
    BY <1>3, BeginsProgram
  <2>2. dataPassed' = 0 /\ codePassed' = 0
    BY <2>1 DEF dataPassed, codePassed
  <2>3. IsMap(<<>>)
    BY DEF IsMap
  <2> QED BY <2>1, <2>2, <2>3 DEF MapsInv, SymbolsInv, LabelsInv, IsMap
<1>4. CASE parseData /\ stage' # "caught"
  <2>1. SymbolsInv'
    BY <1>4, SymbolPassed, SameProgram DEF MapsInv
  <2>2. newPcb' = newPcb /\ labelMap' = labelMap /\ stage = "data" /\ stage' = "data"
    BY <1>4, SameProgram DEF parseData, Throw
  <2>3. codePassed' = codePassed
    BY <2>2 DEF codePassed
  <2>4. LabelsInv'
    BY <2>2, <2>3, Zenon DEF MapsInv, LabelsInv, IsMap, labelsNode, Parsing
  <2> QED BY <2>1, <2>4 DEF MapsInv
<1>5. CASE parseProgram
  <2>1. /\ newPcb' = newPcb /\ UNCHANGED <<dataMap, labelMap>> /\ stage = "data"
        /\ stage' = "labels" /\ done = Len(dataOf(newPcb)) /\ done' = 0
    BY <1>5, SameProgram DEF parseProgram, symbolVars
  <2>2. dataPassed' = dataPassed /\ codePassed' = codePassed
    BY <2>1 DEF dataPassed, codePassed
  <2> QED BY <2>1, <2>2, Zenon
          DEF MapsInv, SymbolsInv, LabelsInv, IsMap, labelsItem, labelsNode, Parsing
<1>6. CASE defineLabel
  <2>1. LabelsInv'
    BY <1>6, LabelPassed, SameProgram DEF MapsInv
  <2>2. newPcb' = newPcb /\ dataMap' = dataMap /\ stage = "labels" /\ stage' = "labels"
    BY <1>6, SameProgram DEF defineLabel
  <2>3. dataPassed' = dataPassed
    BY <2>2 DEF dataPassed
  <2>4. SymbolsInv'
    BY <2>2, <2>3, Zenon DEF MapsInv, SymbolsInv, IsMap, labelsItem, Parsing
  <2> QED BY <2>1, <2>4 DEF MapsInv
<1>7. CASE setEntryPoint
  <2>1. /\ newPcb' = newPcb /\ UNCHANGED <<dataMap, labelMap>> /\ stage = "labels"
        /\ stage' = "code" /\ done = Len(instructionsOf(newPcb))
    BY <1>7, SameProgram DEF setEntryPoint, symbolVars
  <2>2. dataPassed' = dataPassed /\ codePassed' = codePassed
    BY <2>1 DEF dataPassed, codePassed
  <2> QED BY <2>1, <2>2, Zenon
          DEF MapsInv, SymbolsInv, LabelsInv, IsMap, labelsItem, labelsNode, Parsing
<1>8. CASE encodeInstruction /\ stage' # "caught"
  <2>1. /\ newPcb' = newPcb /\ UNCHANGED <<dataMap, labelMap>> /\ stage = "code" /\ stage' = "code"
    BY <1>8, SameProgram DEF encodeInstruction, symbolVars, Throw
  <2>2. dataPassed' = dataPassed /\ codePassed' = codePassed
    BY <2>1 DEF dataPassed, codePassed
  <2> QED BY <2>1, <2>2, Zenon
          DEF MapsInv, SymbolsInv, LabelsInv, IsMap, labelsItem, labelsNode, Parsing
<1> QED BY <1>1, <1>2, <1>3, <1>4, <1>5, <1>6, <1>7, <1>8 DEF LoaderNext

\* Once the data is passed, the symbols are those of the program.
LEMMA SymbolsFinal ==
  ASSUME SymbolsInv, dataPassed = Len(dataOf(newPcb)), Len(dataOf(newPcb)) \in Nat
  PROVE  SymbolsOf(newPcb, dataMap) /\ dataMap = symbolsOf(newPcb)
<1> DEFINE items == {i \in 1 .. Len(dataOf(newPcb)) : Has(dataOf(newPcb)[i], "label")}
<1>1. ASSUME NEW l \in DOMAIN dataMap
      PROVE  dataPlaces(newPcb, l) # {} /\ dataMap[l] = lastOf(dataPlaces(newPcb, l))
  <2>1. dataPlaces(newPcb, l) \subseteq Int
    BY DEF dataPlaces, INSTRUCTION_SIZE
  <2>2. dataMap[l] \in dataPlaces(newPcb, l)
    BY DEF SymbolsInv, dataPlaces, labelsItem
  <2>3. \A b \in dataPlaces(newPcb, l) : b <= dataMap[l]
    BY DEF SymbolsInv, dataPlaces
  <2> QED BY <2>1, <2>2, <2>3, LastOf
<1>2. DOMAIN dataMap = {dataOf(newPcb)[i].label : i \in items}
  BY DEF SymbolsInv, labelsItem
<1>3. dataMap = [l \in DOMAIN dataMap |-> lastOf(dataPlaces(newPcb, l))]
  BY <1>1 DEF SymbolsInv, IsMap
<1> QED BY <1>1, <1>2, <1>3 DEF SymbolsOf, symbolsOf

\* Once the first pass is over, the labels are those of the program.
LEMMA LabelsFinal ==
  ASSUME LabelsInv, codePassed = Len(instructionsOf(newPcb)),
         Len(instructionsOf(newPcb)) \in Nat, startOf(newPcb) \in Nat
  PROVE  /\ LabelsOf(newPcb, labelMap) /\ labelMap = labelsOf(newPcb)
         /\ \A l : codePlaces(newPcb, l) # {} => l \in DOMAIN labelMap
<1> DEFINE nodes == {i \in 1 .. Len(instructionsOf(newPcb)) :
                       definesLabel(instructionsOf(newPcb)[i])}
<1>1. ASSUME NEW l \in DOMAIN labelMap
      PROVE  codePlaces(newPcb, l) # {} /\ labelMap[l] = lastOf(codePlaces(newPcb, l))
  <2>1. codePlaces(newPcb, l) \subseteq Int
    BY DEF codePlaces, addressOf, INSTRUCTION_SIZE
  <2>2. labelMap[l] \in codePlaces(newPcb, l)
    BY DEF LabelsInv, codePlaces, labelsNode
  <2>3. \A b \in codePlaces(newPcb, l) : b <= labelMap[l]
    BY DEF LabelsInv, codePlaces
  <2> QED BY <2>1, <2>2, <2>3, LastOf
<1>2. ASSUME NEW l, codePlaces(newPcb, l) # {} PROVE l \in DOMAIN labelMap
  BY <1>2 DEF LabelsInv, codePlaces
<1>3. DOMAIN labelMap = {instructionsOf(newPcb)[i].label : i \in nodes}
  BY DEF LabelsInv, labelsNode
<1>4. labelMap = [l \in DOMAIN labelMap |-> lastOf(codePlaces(newPcb, l))]
  BY <1>1 DEF LabelsInv, IsMap
<1> QED BY <1>1, <1>2, <1>3, <1>4 DEF LabelsOf, labelsOf

\* When the first pass ends, the program starts where its file says.
LEMMA EntrySet ==
  ASSUME NumericPrograms, LoaderInv, QueueInv, NumbersInv, PlaceInv, MapsInv, EntryInv,
         setEntryPoint
  PROVE  /\ EntryRight(newPcb)'
         /\ \A p \in Proc \ {newPcb} : pc'[p] = pc[p] /\ burst_time'[p] = burst_time[p]
<1> DEFINE code == instructionsOf(newPcb)
           program == Has(Programs[procFile[newPcb].program_path], "program")
<1>1. /\ newPcb' = newPcb /\ stage = "labels" /\ stage \in Parsing /\ done = Len(code)
      /\ newPcb \in Proc /\ Len(code) \in Nat
      /\ pc \in [Proc -> Nat] /\ burst_time \in [Proc -> Nat]
  BY SameProgram, NewNumeric DEF setEntryPoint, NumbersInv
<1>2. startAddr = startOf(newPcb) /\ addr = startAddr + 4 * Len(code) /\ startAddr \in Nat
  BY <1>1 DEF PlaceInv, LoaderInv, LoopInv, INSTRUCTION_SIZE
<1>3. codePassed = Len(code)
  BY <1>1 DEF codePassed
<1>4. /\ LabelsOf(newPcb, labelMap)
      /\ codePlaces(newPcb, "start") # {} <=> "start" \in DOMAIN labelMap
  BY <1>1, <1>2, <1>3, LabelsFinal DEF MapsInv, LabelsOf
<1>5. (addr - startAddr) \div 4 = Len(code)
  <2> HIDE DEF code
  <2>1. addr - startAddr = 4 * Len(code)
    BY <1>1, <1>2
  <2> QED BY <1>1, <2>1
<1>6. CASE program
  <2>1. /\ burst_time' = [burst_time EXCEPT ![newPcb] = (addr - startAddr) \div 4]
        /\ pc' = [pc EXCEPT ![newPcb] =
                    IF "start" \in DOMAIN labelMap THEN labelMap["start"] ELSE startAddr]
    BY <1>6 DEF setEntryPoint, hasProgram, INSTRUCTION_SIZE
  <2>2. burst_time'[newPcb] = Len(code)
    BY <1>1, <1>5, <2>1
  <2>3. pc'[newPcb] = IF codePlaces(newPcb, "start") # {} THEN lastOf(codePlaces(newPcb, "start"))
                      ELSE startOf(newPcb)
    BY <1>1, <1>2, <1>4, <2>1 DEF LabelsOf
  <2>4. EntryRight(newPcb)'
    BY <1>1, <1>6, <2>2, <2>3, Zenon DEF EntryRight
  <2> QED BY <1>1, <2>1, <2>4
<1>7. CASE ~program
  <2>1. pc' = pc /\ burst_time' = burst_time
    BY <1>7 DEF setEntryPoint, hasProgram, pcbVars
  <2>2. newPcb \notin Started
    BY <1>1, NewNotQueued DEF Started, NumbersInv
  <2>3. pc[newPcb] = 0 /\ burst_time[newPcb] = 0
    BY <1>1, <2>2 DEF EntryInv
  <2>4. code = <<>>
    BY <1>7 DEF instructionsOf
  <2>5. Len(code) = 0
    BY <2>4
  <2>6. codePlaces(newPcb, "start") = {}
    BY <2>5 DEF codePlaces
  <2>7. EntryRight(newPcb)'
    BY <1>1, <1>7, <2>1, <2>3, <2>5, <2>6, Zenon DEF EntryRight
  <2> QED BY <2>1, <2>7
<1> QED BY <1>6, <1>7

LEMMA EntryKept ==
  ASSUME NumericPrograms, LoaderInv, QueueInv, NumbersInv, PlaceInv, MapsInv, EntryInv, LoaderNext
  PROVE  EntryInv'
<1>1. ASSUME UNCHANGED <<pc, burst_time>>, Started' \subseteq Started,
             stage' # "caught" => stage # "caught" /\ Started' = Started
      PROVE  EntryInv'
  <2>1. \A p : EntryRight(p) => EntryRight(p)'
    BY <1>1 DEF EntryRight
  <2> HIDE DEF Started, EntryRight
  <2> QED BY <1>1, <2>1 DEF EntryInv
<1>2. CASE SkipProcess \/ loadJsonProgram \/ EndOfBatch
  <2>1. /\ UNCHANGED <<pc, burst_time, process_list>> /\ stage = "entry"
        /\ stage' \in {"entry", "data", "caught", "loaded"}
    BY <1>2 DEF SkipProcess, loadJsonProgram, EndOfBatch, BeginEntry, Throw, pcbVars
  <2> QED BY <1>1, <2>1 DEF Started
<1>3. CASE parseData \/ parseProgram \/ defineLabel
  <2>1. /\ UNCHANGED <<pc, burst_time, process_list>> /\ stage \in {"data", "labels"}
        /\ stage' \in {"data", "labels", "caught"}
    BY <1>3 DEF parseData, parseProgram, defineLabel, Throw, pcbVars
  <2> QED BY <1>1, <2>1 DEF Started
<1>4. CASE setEntryPoint
  <2>1. /\ stage = "labels" /\ stage' = "code" /\ newPcb' = newPcb /\ process_list' = process_list
    BY <1>4, SameProgram DEF setEntryPoint
  <2>2. newPcb \notin Range(process_list)
    BY <2>1, NewNotQueued DEF Parsing, NumbersInv
  <2>3. Range(process_list) \subseteq Proc
    BY DEF LoaderInv, LoopInv, Range
  <2>4. Started = Range(process_list) /\ Started' = Range(process_list) \cup {newPcb}
    BY <2>1 DEF Started
  <2>5. /\ EntryRight(newPcb)'
        /\ \A p \in Proc \ {newPcb} : pc'[p] = pc[p] /\ burst_time'[p] = burst_time[p]
    BY <1>4, EntrySet
  <2>6. ASSUME NEW p \in Started' PROVE EntryRight(p)'
    <3>1. CASE p = newPcb
      BY <2>1, <2>5, <3>1 DEF EntryRight
    <3>2. CASE p # newPcb
      <4>1. p \in Range(process_list) /\ p \in Proc \ {newPcb} /\ p \in Started
        BY <2>3, <2>4, <3>2
      <4>2. EntryRight(p)
        BY <4>1 DEF EntryInv
      <4> QED BY <2>5, <4>1, <4>2 DEF EntryRight
    <3> QED BY <3>1, <3>2
  <2>7. ASSUME NEW p \in Proc \ Started' PROVE pc'[p] = 0 /\ burst_time'[p] = 0
    <3>1. p \in Proc \ {newPcb} /\ p \in Proc \ Started
      BY <2>4
    <3> QED BY <2>1, <2>5, <3>1 DEF EntryInv
  <2> QED BY <2>6, <2>7 DEF EntryInv
<1>5. CASE encodeInstruction
  <2>1. /\ UNCHANGED <<pc, burst_time, process_list>> /\ stage = "code" /\ newPcb' = newPcb
        /\ stage' \in {"code", "caught"}
    BY <1>5, SameProgram DEF encodeInstruction, Throw, pcbVars
  <2> QED BY <1>1, <2>1 DEF Started
<1>6. CASE addProcess
  <2>1. /\ UNCHANGED <<pc, burst_time>> /\ stage = "code" /\ stage' = "entry"
        /\ process_list' = Append(process_list, newPcb) /\ newPcb \in Proc
    BY <1>6, NewPcbType DEF addProcess, pcbVars, Parsing
  <2>2. Range(process_list') = Range(process_list) \cup {newPcb}
    BY <2>1, AppendContents DEF LoaderInv, LoopInv
  <2>3. Started' = Started
    BY <2>1, <2>2 DEF Started
  <2> QED BY <1>1, <2>1, <2>3
<1> QED BY <1>2, <1>3, <1>4, <1>5, <1>6 DEF LoaderNext
-----------------------------------------------------------------------------
(* What writing a word does to the others *)

\* Pages hold whole words, so places of words in a page tell them apart.
LEMMA Aligned ==
  ASSUME WholeWords
  PROVE  /\ \A x \in Nat : x % 4 = 0 => (x % PAGE_SIZE) % 4 = 0
         /\ \A x \in Nat : x = (x \div PAGE_SIZE) * PAGE_SIZE + (x % PAGE_SIZE)
         /\ \A o1, o2 \in Offset : o1 % 4 = 0 /\ o2 % 4 = 0 /\ wordOf(o1) = wordOf(o2) => o1 = o2
         /\ \A o \in Offset : o % 4 = 0 => o + 4 <= PAGE_SIZE
<1>1. PAGE_SIZE \in Nat \ {0} /\ PAGE_SIZE % 4 = 0 /\ WORD_SIZE = 4
  BY MemoryAssumption DEF WholeWords, INSTRUCTION_SIZE
<1> DEFINE k == PAGE_SIZE \div 4
<1>2. k \in Nat /\ PAGE_SIZE = 4 * k
  BY <1>1
<1>3. \A x \in Nat : x = (x \div PAGE_SIZE) * PAGE_SIZE + (x % PAGE_SIZE)
  BY <1>1
<1> HIDE DEF k
<1>4. ASSUME NEW x \in Nat, x % 4 = 0 PROVE (x % PAGE_SIZE) % 4 = 0
  <2> DEFINE q == x \div PAGE_SIZE
             r == x % PAGE_SIZE
             m == x \div 4
  <2>1. q \in Nat /\ r \in Nat /\ m \in Nat /\ x = 4 * m
    BY <1>1, <1>4
  <2>2. x = q * PAGE_SIZE + r
    BY <1>3
  <2> HIDE DEF q, r, m
  <2>3. q * PAGE_SIZE = 4 * (q * k)
    BY <1>2, <2>1
  <2>4. q * k \in Nat
    BY <1>2, <2>1
  <2> DEFINE s == q * k
  <2>5. s \in Nat /\ 4 * m = 4 * s + r
    BY <2>1, <2>2, <2>3, <2>4
  <2> HIDE DEF s
  <2>6. r % 4 = 0
    BY <2>1, <2>5
  <2> QED BY <2>6 DEF r
<1>5. \A o1, o2 \in Offset : o1 % 4 = 0 /\ o2 % 4 = 0 /\ wordOf(o1) = wordOf(o2) => o1 = o2
  BY <1>1 DEF wordOf, Offset
<1>6. \A o \in Offset : o % 4 = 0 => o + 4 <= PAGE_SIZE
  BY <1>1, <1>2 DEF Offset
<1> QED BY <1>3, <1>4, <1>5, <1>6

\* What the cache holds are words of whole places, and none is taken for a miss.
WordsCached ==
  \A a \in DOMAIN cacheMap : a[2] % 4 = 0 /\ cacheMap[a].data # UINT32_MAX

\* What word w of a frame is after a write that put none of its own there.
Refilled(f, w) ==
  \/ ram'[f][w] = ram[f][w]
  \/ \E e \in WriteBacks \ DOMAIN cacheMap' :
       e[1] = f /\ wordOf(e[2]) = w /\ ram'[f][w] = cacheMap[e].data

\* What a write leaves: its word, and the other entries and words as they were.
WriteLeaves(p, n, frame, offset, word) ==
  /\ ram'[frame][wordOf(offset)] = word
  /\ <<frame, offset>> \in DOMAIN cacheMap' /\ cacheMap'[<<frame, offset>>].data = word
  /\ \A a \in DOMAIN cacheMap' \ {<<frame, offset>>} :
        a \in DOMAIN cacheMap /\ cacheMap'[a] = cacheMap[a]
  /\ \A f \in Frame, w \in WordIndex :
        (f # frame \/ Resident(p, n)) /\ ~(f = frame /\ w = wordOf(offset)) => Refilled(f, w)

LEMMA WriteFills ==
  ASSUME MemFullInv, WholeWords, WordsCached, NEW p \in Proc, NEW n \in Page,
         NEW frame \in Frame, NEW offset \in Offset, offset % 4 = 0,
         NEW word \in Word,
         WriteHit(p, n, frame, offset, word) \/ WriteMiss(p, n, frame, offset, word)
  PROVE  WriteLeaves(p, n, frame, offset, word)
<1> DEFINE here == <<frame, offset>>
           memory == pagedRam(p, n, frame)
           stored == Stored(p, n, frame, offset, word)
<1>1. /\ memory \in [Frame -> [WordIndex -> Word]] /\ wordOf(offset) \in WordIndex
      /\ DOMAIN cacheMap \subseteq Frame \X Offset
  BY PagedRamType
     DEF MemFullInv, MemInv, TableInv, PageImage, WordIndex, CacheInv, CacheTypeOK, Address
<1>2. stored = [memory EXCEPT ![frame] = [memory[frame] EXCEPT ![wordOf(offset)] = word]]
  BY DEF Stored
<1>3. \A f \in Frame : f # frame \/ Resident(p, n) => memory[f] = ram[f]
  BY DEF pagedRam, MemFullInv, MemInv, ImagesTypeOK
<1> HIDE DEF memory, stored
<1>4. /\ stored[frame][wordOf(offset)] = word
      /\ \A f \in Frame, w \in WordIndex :
           (f # frame \/ Resident(p, n)) /\ ~(f = frame /\ w = wordOf(offset)) =>
             stored[f][w] = ram[f][w]
  BY <1>1, <1>2, <1>3
<1>5. get(here) # CACHE_MISS <=> here \in DOMAIN cacheMap
  BY DEF get, CACHE_MISS, WordsCached
<1>6. CASE WriteHit(p, n, frame, offset, word)
  <2>1. /\ ram' = stored /\ here \in DOMAIN cacheMap
        /\ cacheMap' = [cacheMap EXCEPT ![here] = [data |-> word, isDirty |-> TRUE]]
    BY <1>5, <1>6 DEF WriteHit, update, stored
  <2> HIDE DEF here
  <2>2. /\ here \in DOMAIN cacheMap' /\ cacheMap'[here].data = word
        /\ \A a \in DOMAIN cacheMap' \ {here} : a \in DOMAIN cacheMap /\ cacheMap'[a] = cacheMap[a]
    BY <2>1
  <2> QED BY <1>4, <2>1, <2>2 DEF here, Refilled, WriteLeaves
<1>7. CASE WriteMiss(p, n, frame, offset, word)
  <2>1. /\ ram' = writeToFile(stored) /\ here \notin DOMAIN cacheMap
        /\ cacheMap' = [a \in {here} \cup (DOMAIN cacheMap \ Removed) |->
                          IF a = here THEN [data |-> word, isDirty |-> FALSE] ELSE cacheMap[a]]
    BY <1>5, <1>7 DEF WriteMiss, put, stored
  <2>2. \A a, b \in WriteBacks : a = b
    BY DEF WriteBacks, Removed
  <2>3. \A a \in WriteBacks : a \in DOMAIN cacheMap /\ a \notin DOMAIN cacheMap'
    BY <2>1 DEF WriteBacks
  <2>4. \A f \in Frame, w \in WordIndex :
          \/ ram'[f][w] = stored[f][w]
          \/ \E e \in WriteBacks : e[1] = f /\ wordOf(e[2]) = w /\ ram'[f][w] = cacheMap[e].data
    BY <2>1, <2>2 DEF writeToFile
  <2>5. ~\E e \in WriteBacks : e[1] = frame /\ wordOf(e[2]) = wordOf(offset)
    <3> SUFFICES ASSUME NEW e \in WriteBacks, e[1] = frame, wordOf(e[2]) = wordOf(offset)
                 PROVE  FALSE
      OBVIOUS
    <3>1. e \in DOMAIN cacheMap /\ e \in Frame \X Offset /\ e[2] % 4 = 0
      BY <1>1, <2>3 DEF WordsCached
    <3>2. e[2] = offset
      BY <3>1, Aligned
    <3> QED BY <2>1, <3>1, <3>2
  <2>6. ram'[frame][wordOf(offset)] = word
    BY <1>1, <1>4, <2>4, <2>5
  <2>7. /\ here \in DOMAIN cacheMap' /\ cacheMap'[here].data = word
        /\ \A a \in DOMAIN cacheMap' \ {here} : a \in DOMAIN cacheMap /\ cacheMap'[a] = cacheMap[a]
    BY <2>1
  <2>8. \A f \in Frame, w \in WordIndex :
          (f # frame \/ Resident(p, n)) /\ ~(f = frame /\ w = wordOf(offset)) => Refilled(f, w)
    BY <1>4, <2>3, <2>4 DEF Refilled
  <2> QED BY <2>6, <2>7, <2>8 DEF WriteLeaves
<1> QED BY <1>6, <1>7

\* The frame of a write has its page, and the others keep theirs.
LEMMA OwnersOfWrite ==
  ASSUME TableInv, TableInv', NEW p \in Proc, NEW n \in Page, NEW frame \in Frame,
         translateAddress(p, n, frame)
  PROVE  /\ framesMap'[frame] /\ pageTable'[p][n] = frame
         /\ frameOwnerTable'[frame] = [ownerProcess |-> p, virtualPageNumber |-> n]
         /\ \A f \in Frame \ {frame} :
               framesMap'[f] = framesMap[f] /\ frameOwnerTable'[f] = frameOwnerTable[f]
         /\ Resident(p, n) => UNCHANGED tableVars
<1>1. pageTable'[p][n] = frame
  BY FrameOfCall
<1>2. CASE Resident(p, n)
  <2>1. UNCHANGED tableVars /\ frame = pageTable[p][n]
    BY <1>2 DEF translateAddress
  <2>2. frame \in Frame \ freeFrames
    BY <1>2, <2>1, ResidentFrame
  <2>3. frameOwnerTable[frame] = [ownerProcess |-> p, virtualPageNumber |-> n]
    BY <1>2, <2>1 DEF TableInv, FramesMatchPages
  <2> QED BY <1>1, <2>1, <2>2, <2>3 DEF tableVars, freeFrames
<1>3. CASE ~Resident(p, n)
  <2>1. /\ framesMap' = [framesMap EXCEPT ![frame] = TRUE]
        /\ frameOwnerTable' = [frameOwnerTable EXCEPT ![frame] =
                                 [ownerProcess |-> p, virtualPageNumber |-> n]]
    BY <1>3 DEF translateAddress, allocateFrame
  <2> QED BY <1>1, <1>3, <2>1 DEF TableInv, TablesTypeOK
<1> QED BY <1>2, <1>3

\* The step that writes the next word of a program.
WritesNext(word) ==
  /\ stage \in {"data", "code"} /\ stage' = stage
  /\ UNCHANGED <<batch, position, startAddr, process_list>>
  /\ addr % 4 = 0 /\ word \in Word /\ word # UINT32_MAX
  /\ writeWord(word)

\* Where the next word goes, and the frame it finds.
NextWord(p, n, offset, frame, word) ==
  /\ p = newPcb /\ p \in Proc /\ newPcb' = newPcb
  /\ n = addr \div PAGE_SIZE /\ n \in Nat /\ n \in Page
  /\ offset = addr % PAGE_SIZE /\ offset \in Offset /\ offset % 4 = 0
  /\ addr \in Nat /\ addr = n * PAGE_SIZE + offset /\ addr' = addr + 4
  /\ write(p, n, offset, word) /\ frame \in Frame /\ translateAddress(p, n, frame)
  /\ WriteHit(p, n, frame, offset, word) \/ WriteMiss(p, n, frame, offset, word)
  /\ Resident(p, n) \/ offset = 0
  /\ limitOf(p) = addr
  /\ limitOf(p)' = addr + 4
  /\ \A q : q # p => limitOf(q)' = limitOf(q)

LEMMA NextWordFound ==
  ASSUME AnyPage, WholeWords, LoaderInv, FillInv, NEW word, WritesNext(word)
  PROVE  \E p, n, offset, frame : NextWord(p, n, offset, frame, word)
<1> DEFINE p == newPcb
           n == addr \div PAGE_SIZE
           offset == addr % PAGE_SIZE
<1>1. /\ p \in Proc /\ newPcb' = newPcb /\ addr \in Nat /\ stage \in Parsing /\ stage # "caught"
      /\ addr' = addr + 4
  BY NewPcbType, WriteTables DEF WritesNext, LoaderInv, LoopInv, Parsing, newPcb
<1>2. n \in Nat /\ n \in Page /\ offset \in Offset /\ addr = n * PAGE_SIZE + offset
  BY <1>1, AddressSplits, Aligned DEF AnyPage
<1>3. offset % 4 = 0
  BY <1>1, Aligned DEF WritesNext
<1>4. write(p, n, offset, word)
  BY DEF WritesNext, writeWord
<1>9. PICK frame \in Frame :
        /\ translateAddress(p, n, frame)
        /\ WriteHit(p, n, frame, offset, word) \/ WriteMiss(p, n, frame, offset, word)
  BY <1>4 DEF write
<1>5. written = addr /\ written' = addr + 4
  BY <1>1 DEF written, WritesNext
<1>6. Resident(p, n) \/ offset = 0
  BY <1>1, <1>5 DEF FillInv
<1>7. /\ limitOf(p) = addr /\ limitOf(p)' = addr + 4
      /\ \A q : q # p => limitOf(q)' = limitOf(q)
  BY <1>1, <1>5 DEF limitOf, WritesNext
<1>8. NextWord(p, n, offset, frame, word)
  <2> HIDE DEF p, n, offset
  <2>1. p = newPcb /\ n = addr \div PAGE_SIZE /\ offset = addr % PAGE_SIZE
    BY DEF p, n, offset
  <2> QED BY <1>1, <1>2, <1>3, <1>4, <1>6, <1>7, <1>9, <2>1 DEF NextWord
<1> QED BY <1>8

\* A place of a word below or above another is four bytes from it.
LEMMA NextPlace ==
  ASSUME NEW x \in Nat, NEW y \in Nat, x % 4 = 0, y % 4 = 0, x >= y, x # y
  PROVE  x >= y + 4
OBVIOUS

\* A place in a page is a place of memory.
LEMMA PlaceInPage ==
  ASSUME WholeWords, NEW n \in Nat, NEW o \in Offset
  PROVE  /\ n * PAGE_SIZE + o \in Nat
         /\ (n * PAGE_SIZE + o) \div PAGE_SIZE = n /\ (n * PAGE_SIZE + o) % PAGE_SIZE = o
         /\ o % 4 = 0 => (n * PAGE_SIZE + o) % 4 = 0
<1>1. PAGE_SIZE \in Nat \ {0} /\ PAGE_SIZE % 4 = 0
  BY MemoryAssumption DEF WholeWords, INSTRUCTION_SIZE
<1>2. (n * PAGE_SIZE + o) \div PAGE_SIZE = n /\ (n * PAGE_SIZE + o) % PAGE_SIZE = o
  BY <1>1, Quotient DEF Offset
<1>3. n * PAGE_SIZE \in Nat
  BY <1>1
<1>4. ASSUME o % 4 = 0 PROVE (n * PAGE_SIZE + o) % 4 = 0
  <2> DEFINE k == PAGE_SIZE \div 4
             m == o \div 4
  <2>1. k \in Nat /\ PAGE_SIZE = 4 * k /\ m \in Nat /\ o = 4 * m
    BY <1>1, <1>4 DEF Offset
  <2> HIDE DEF k, m
  <2>2. n * PAGE_SIZE = 4 * (n * k)
    BY <2>1
  <2> DEFINE s == n * k
  <2>3. s \in Nat /\ n * PAGE_SIZE + o = 4 * (s + m)
    BY <2>1, <2>2
  <2> HIDE DEF s
  <2> QED BY <2>1, <2>3
<1> QED BY <1>2, <1>3, <1>4 DEF Offset

\* The address a cached word is for, by its frame and place.
LEMMA PlaceType ==
  ASSUME WholeWords, MemFullInv, NEW f \in Frame, framesMap[f], PageBegun(f), NEW o \in Offset
  PROVE  /\ placeOf(f, o) \in Nat /\ (o % 4 = 0 => placeOf(f, o) % 4 = 0)
         /\ frameOwnerTable[f].virtualPageNumber \in Page /\ ownerOf(f) \in Proc
         /\ pageTable[ownerOf(f)][frameOwnerTable[f].virtualPageNumber] = f
<1>1. frameOwnerTable[f] \in FrameInfo
  BY DEF MemFullInv, MemInv, TableInv, TablesTypeOK, FramesMatchPages
<1>2. placeOf(f, o) \in Nat /\ (o % 4 = 0 => placeOf(f, o) % 4 = 0)
  BY PlaceInPage DEF placeOf, PageBegun
<1> QED BY <1>1, <1>2 DEF ownerOf, FrameInfo, MemFullInv, MemInv, TableInv, FramesMatchPages

\* A word cached for another place than the one written still agrees with memory,
\* or is for a place that is still to be written.
LEMMA OtherEntry ==
  ASSUME WholeWords, MemFullInv, TableInv', FillInv, WordsCached, stage # "caught",
         NEW p, NEW n, NEW offset, NEW frame, NEW word \in Word, NextWord(p, n, offset, frame, word),
         NEW a \in DOMAIN cacheMap' \ {<<frame, offset>>}
  PROVE  EntryHolds(a)'
<1> DEFINE f == a[1]
           o == a[2]
<1>1. /\ a \in DOMAIN cacheMap /\ cacheMap'[a] = cacheMap[a]
      /\ \A g \in Frame, w \in WordIndex :
           /\ g # frame \/ Resident(p, n)
           /\ ~(g = frame /\ w = wordOf(offset))
           => Refilled(g, w)
  <2>1. /\ p \in Proc /\ n \in Page /\ frame \in Frame /\ offset \in Offset /\ offset % 4 = 0
        /\ WriteHit(p, n, frame, offset, word) \/ WriteMiss(p, n, frame, offset, word)
    BY DEF NextWord
  <2>2. WriteLeaves(p, n, frame, offset, word)
    BY <2>1, WriteFills
  <2> QED BY <2>2 DEF WriteLeaves
<1>2. f \in Frame /\ o \in Offset /\ a = <<f, o>> /\ wordOf(o) \in WordIndex
  BY <1>1 DEF MemFullInv, MemInv, CacheInv, CacheTypeOK, Address, WordIndex
<1>3. EntryHolds(a) /\ framesMap[f] /\ o % 4 = 0 /\ PageBegun(f)
  <2>1. EntryHolds(a)
    BY <1>1 DEF FillInv
  <2>2. framesMap[f] /\ o % 4 = 0
    BY <2>1 DEF EntryHolds, INSTRUCTION_SIZE
  <2> HIDE DEF f, o
  <2> QED BY <1>2, <2>1, <2>2 DEF FillInv
<1>4. /\ framesMap'[frame]
      /\ frameOwnerTable'[frame] = [ownerProcess |-> p, virtualPageNumber |-> n]
      /\ \A g \in Frame \ {frame} :
            framesMap'[g] = framesMap[g] /\ frameOwnerTable'[g] = frameOwnerTable[g]
      /\ Resident(p, n) => UNCHANGED tableVars
  BY OwnersOfWrite DEF NextWord, MemFullInv, MemInv
<1>5. framesMap'[f] /\ o % 4 = 0 /\ cacheMap'[a].data # UINT32_MAX
  BY <1>1, <1>2, <1>3, <1>4 DEF EntryHolds
<1> DEFINE owner == ownerOf(f)'
<1>6. ASSUME NEW q, q = owner, cacheMap'[a].isDirty
      PROVE  cacheMap'[a].data = ram'[f][wordOf(o)] \/ placeOf(f, o)' >= limitOf(q)'
  <2>1. CASE f = frame /\ ~Resident(p, n)
    <3>1. offset = 0 /\ o # 0 /\ o \in Nat
      BY <1>2, <2>1 DEF NextWord, Offset
    <3>2. o >= 4
      BY <1>3, <3>1
    <3>3. placeOf(f, o)' = n * PAGE_SIZE + o /\ q = p
      BY <1>4, <1>6, <2>1 DEF placeOf, ownerOf
    <3>4. limitOf(p)' = n * PAGE_SIZE + 4 /\ n * PAGE_SIZE \in Nat
      BY <3>1, MemoryAssumption DEF NextWord
    <3>5. placeOf(f, o)' >= n * PAGE_SIZE + 4
      BY <3>1, <3>2, <3>3, <3>4
    <3> QED BY <3>3, <3>4, <3>5
  <2>2. CASE f # frame \/ Resident(p, n)
    <3>1. /\ frameOwnerTable'[f] = frameOwnerTable[f]
          /\ placeOf(f, o)' = placeOf(f, o) /\ q = ownerOf(f)
      BY <1>2, <1>4, <1>6, <2>2 DEF tableVars, placeOf, ownerOf
    <3>2. ~(f = frame /\ wordOf(o) = wordOf(offset))
      BY <1>2, <1>3, Aligned DEF NextWord
    <3>3. ram'[f][wordOf(o)] = ram[f][wordOf(o)]
      <4>1. ASSUME NEW e \in WriteBacks \ DOMAIN cacheMap', e[1] = f, wordOf(e[2]) = wordOf(o)
            PROVE  FALSE
        <5>1. e \in DOMAIN cacheMap /\ e \in Frame \X Offset /\ e[2] % 4 = 0
          BY DEF WriteBacks, MemFullInv, MemInv, CacheInv, CacheTypeOK, Address, WordsCached
        <5>2. e[2] = o
          BY <1>2, <1>3, <4>1, <5>1, Aligned
        <5> QED BY <1>2, <4>1, <5>1, <5>2
      <4> QED BY <1>1, <1>2, <2>2, <3>2, <4>1 DEF Refilled
    <3>4. CASE cacheMap[a].data = ram[f][wordOf(o)]
      BY <1>1, <3>3, <3>4
    <3>5. CASE placeOf(f, o) >= limitOf(ownerOf(f))
      <4>1. CASE ownerOf(f) # p
        BY <3>1, <3>5, <4>1 DEF NextWord
      <4>2. CASE ownerOf(f) = p
        <5>1. /\ placeOf(f, o) \in Nat /\ placeOf(f, o) % 4 = 0
              /\ pageTable[p][frameOwnerTable[f].virtualPageNumber] = f
          BY <1>2, <1>3, <4>2, PlaceType
        <5>2. addr \in Nat /\ addr % 4 = 0 /\ addr = n * PAGE_SIZE + offset /\ limitOf(p) = addr
              /\ n \in Nat /\ offset \in Offset /\ limitOf(p)' = addr + 4
          BY PlaceInPage DEF NextWord
        <5>3. placeOf(f, o) # addr
          <6> SUFFICES ASSUME placeOf(f, o) = addr PROVE FALSE
            OBVIOUS
          <6>1. frameOwnerTable[f].virtualPageNumber = n /\ o = offset
            BY <1>2, <1>3, <5>2, PlaceInPage DEF placeOf, PageBegun
          <6>2. pageTable[p][n] = f
            BY <5>1, <6>1
          <6>3. Resident(p, n)
            BY <1>2, <6>2, NoneIsNoFrame DEF Resident
          <6>4. frame = f
            BY <6>2, <6>3 DEF NextWord, translateAddress
          <6> QED BY <1>2, <6>1, <6>4
        <5>4. placeOf(f, o) >= addr + 4
          BY <3>5, <4>2, <5>1, <5>2, <5>3, NextPlace
        <5> QED BY <3>1, <4>2, <5>2, <5>4
      <4> QED BY <4>1, <4>2
    <3> QED BY <1>1, <1>3, <1>6, <3>4, <3>5 DEF EntryHolds
  <2> QED BY <2>1, <2>2
<1>7. cacheMap'[a].isDirty =>
         cacheMap'[a].data = ram'[f][wordOf(o)] \/ placeOf(f, o)' >= limitOf(ownerOf(f))'
  <2>1. PICK q : q = owner
    OBVIOUS
  <2>2. limitOf(q)' = limitOf(ownerOf(f))'
    BY <2>1 DEF limitOf
  <2> QED BY <1>6, <2>1, <2>2
<1> QED BY <1>5, <1>7 DEF EntryHolds, INSTRUCTION_SIZE

LEMMA CachedWords ==
  ASSUME FillInv, stage # "caught"
  PROVE  WordsCached
BY DEF FillInv, EntryHolds, WordsCached, INSTRUCTION_SIZE

\* Memory is filled in order: what the invariant says of it holds once the next
\* word is written.
LEMMA FillWritten ==
  ASSUME WholeWords, MemFullInv, TableInv', FillInv, stage # "caught", stage' \in Parsing,
         NEW p, NEW n, NEW offset, NEW frame, NEW word \in Word, word # UINT32_MAX,
         NextWord(p, n, offset, frame, word), written' = addr + 4
  PROVE  FillInv'
<1> DEFINE here == <<frame, offset>>
<1>1. WordsCached
  BY CachedWords
<1>2. /\ p \in Proc /\ n \in Page /\ frame \in Frame /\ offset \in Offset /\ offset % 4 = 0
      /\ n \in Nat /\ addr = n * PAGE_SIZE + offset /\ addr \in Nat
      /\ limitOf(p) = addr /\ limitOf(p)' = addr + 4 /\ newPcb' = p
      /\ \A q : q # p => limitOf(q)' = limitOf(q)
  BY DEF NextWord
<1>3. /\ framesMap'[frame] /\ pageTable'[p][n] = frame
      /\ frameOwnerTable'[frame] = [ownerProcess |-> p, virtualPageNumber |-> n]
      /\ \A f \in Frame \ {frame} :
            framesMap'[f] = framesMap[f] /\ frameOwnerTable'[f] = frameOwnerTable[f]
  BY OwnersOfWrite DEF NextWord, MemFullInv, MemInv
<1>4. WriteLeaves(p, n, frame, offset, word)
  <2>1. WriteHit(p, n, frame, offset, word) \/ WriteMiss(p, n, frame, offset, word)
    BY DEF NextWord
  <2> QED BY <1>1, <1>2, <2>1, WriteFills
<1>5. ASSUME NEW a \in DOMAIN cacheMap' PROVE EntryHolds(a)'
  <2>1. CASE a = here
    <3>1. a[1] = frame /\ a[2] = offset
      BY <2>1
    <3>2. cacheMap'[a].data = word /\ word = ram'[frame][wordOf(offset)]
      BY <1>4, <2>1 DEF WriteLeaves
    <3> QED BY <1>2, <1>3, <3>1, <3>2 DEF EntryHolds, INSTRUCTION_SIZE
  <2>2. CASE a # here
    BY <1>1, <2>2, OtherEntry
  <2> QED BY <2>1, <2>2
<1>6. ASSUME NEW f \in Frame, framesMap'[f] PROVE PageBegun(f)'
  <2>1. CASE f = frame
    <3>1. placeOf(f, 0)' = n * PAGE_SIZE + 0 /\ n * PAGE_SIZE \in Nat /\ offset \in Nat
      BY <1>2, <1>3, <2>1, MemoryAssumption DEF placeOf, Offset
    <3>2. ASSUME NEW q, q = ownerOf(f)' PROVE placeOf(f, 0)' < limitOf(q)'
      BY <1>2, <1>3, <2>1, <3>1, <3>2 DEF ownerOf
    <3>3. placeOf(f, 0)' < limitOf(ownerOf(f))'
      <4>1. PICK q : q = ownerOf(f)'
        OBVIOUS
      <4>2. limitOf(q)' = limitOf(ownerOf(f))'
        BY <4>1 DEF limitOf
      <4> QED BY <3>2, <4>1, <4>2
    <3> QED BY <1>2, <1>3, <2>1, <3>3 DEF PageBegun
  <2>2. CASE f # frame
    <3>1. framesMap[f] /\ frameOwnerTable'[f] = frameOwnerTable[f]
      BY <1>3, <1>6, <2>2
    <3>2. PageBegun(f)
      BY <3>1 DEF FillInv
    <3>3. PICK q : q = ownerOf(f)
      OBVIOUS
    <3>4. placeOf(f, 0)' = placeOf(f, 0) /\ q = ownerOf(f)'
      BY <3>1, <3>3 DEF placeOf, ownerOf
    <3>5. placeOf(f, 0) < limitOf(q)
      BY <3>2, <3>3 DEF PageBegun
    <3>6. placeOf(f, 0) \in Int
      BY <3>2, MemoryAssumption DEF PageBegun, placeOf
    <3>7. placeOf(f, 0)' < limitOf(q)'
      BY <1>2, <3>4, <3>5, <3>6
    <3>8. limitOf(q)' = limitOf(ownerOf(f))'
      BY <3>4 DEF limitOf
    <3> QED BY <3>1, <3>2, <3>7, <3>8 DEF PageBegun
  <2> QED BY <2>1, <2>2
<1>7. ASSUME written' % PAGE_SIZE # 0 PROVE Resident(newPcb, written \div PAGE_SIZE)'
  <2>1. offset + 4 <= PAGE_SIZE
    BY <1>2, Aligned
  <2>2. CASE offset + 4 = PAGE_SIZE
    <3>1. written' = (n + 1) * PAGE_SIZE + 0 /\ n + 1 \in Nat /\ 0 \in Offset
      BY <1>2, <2>2, MemoryAssumption DEF Offset
    <3>2. written' % PAGE_SIZE = 0
      BY <3>1, PlaceInPage
    <3> QED BY <1>7, <3>2
  <2>3. CASE offset + 4 # PAGE_SIZE
    <3>1. offset + 4 \in Offset /\ written' = n * PAGE_SIZE + (offset + 4)
      BY <1>2, <2>1, <2>3, MemoryAssumption DEF Offset
    <3>2. written' \div PAGE_SIZE = n
      BY <1>2, <3>1, PlaceInPage
    <3>3. frame # NONE
      BY <1>2, NoneIsNoFrame
    <3> QED BY <1>2, <1>3, <3>2, <3>3 DEF Resident
  <2> QED BY <2>2, <2>3
<1> QED BY <1>5, <1>6, <1>7 DEF FillInv

\* A page that memory has is an image, so it is not missing.
LEMMA PageThere ==
  ASSUME MemFullInv', NEW p \in Proc, NEW n \in Page, (Resident(p, n) \/ Swapped(p, n))'
  PROVE  contentsOf(p, n)' # NONE
<1>1. Unwritten \in PageImage /\ NONE \notin PageImage
  BY MemoryAssumption DEF Unwritten, PageImage, Word
<1>2. CASE Resident(p, n)'
  <2>1. pageTable'[p][n] \in Frame
    BY <1>2 DEF MemFullInv, MemInv, TableInv, TablesTypeOK, Resident
  <2>2. contentsOf(p, n)' = ram'[pageTable'[p][n]]
    BY <1>2 DEF contentsOf
  <2> QED BY <1>1, <2>1, <2>2 DEF MemFullInv, MemInv, ImagesTypeOK
<1>3. CASE ~Resident(p, n)'
  <2>1. contentsOf(p, n)' = ReadDisk(disk', swapTable'[pid[p]][n])
    BY <1>3 DEF contentsOf
  <2> QED BY <1>1, <2>1 DEF ReadDisk, MemFullInv, MemInv, ImagesTypeOK
<1> QED BY <1>2, <1>3

\* The words already written stay, wherever swapping takes their pages, and
\* whatever the cache writes back.
LEMMA WordStays ==
  ASSUME WholeWords, MemFullInv, MemFullInv', FillInv, stage # "caught",
         nextSwapAddress' <= diskPages,
         NEW p, NEW n, NEW offset, NEW frame, NEW word \in Word,
         NextWord(p, n, offset, frame, word),
         NEW S, p \in S, NEW a \in Proc, AloneIn(S, a),
         NEW b \in Page, NEW o \in Offset, o % 4 = 0,
         contentsOf(a, b) # NONE, b * PAGE_SIZE + o < limitOf(a), b \in Nat, limitOf(a) \in Int
  PROVE  contentsOf(a, b)' # NONE /\ contentsOf(a, b)'[wordOf(o)] = contentsOf(a, b)[wordOf(o)]
<1> DEFINE w == wordOf(o)
           f == pageTable'[a][b]
<1>1. WordsCached /\ TableInv /\ TableInv' /\ w \in WordIndex
  BY CachedWords DEF MemFullInv, MemInv, WordIndex
<1>2. /\ p \in Proc /\ n \in Page /\ frame \in Frame /\ offset \in Offset /\ offset % 4 = 0
      /\ n \in Nat /\ addr = n * PAGE_SIZE + offset /\ addr \in Nat /\ limitOf(p) = addr
      /\ write(p, n, offset, word) /\ translateAddress(p, n, frame)
      /\ Resident(p, n) \/ offset = 0
  BY DEF NextWord
<1>3. ~(a = p /\ b = n /\ w = wordOf(offset))
  <2> SUFFICES ASSUME a = p, b = n, w = wordOf(offset) PROVE FALSE
    OBVIOUS
  <2>1. o = offset
    BY <1>2, Aligned
  <2> QED BY <1>2, <2>1
<1>4. contentsOf(a, b)' # NONE
  <2>1. Carried(a, b, pagedRam(p, n, frame))
    BY <1>2, PagesCarried
  <2>2. (Resident(a, b) \/ Swapped(a, b))'
    BY <2>1 DEF Carried
  <2> QED BY <2>2, PageThere
<1>5. CASE ~WrittenBack(f, w)
  BY <1>1, <1>2, <1>3, <1>4, <1>5, WriteKeepsOthers
<1>6. CASE WrittenBack(f, w)
  <2>1. PICK e \in WriteBacks : e[1] = f /\ wordOf(e[2]) = w
    BY <1>6 DEF WrittenBack
  <2>2. e \in DOMAIN cacheMap /\ e \in Frame \X Offset /\ cacheMap[e].isDirty /\ e[2] % 4 = 0
    BY <1>1, <2>1 DEF WriteBacks, MemFullInv, MemInv, CacheInv, CacheTypeOK, Address, WordsCached
  <2>3. f \in Frame /\ e[2] = o /\ e = <<f, o>>
    BY <2>1, <2>2, Aligned
  <2>4. framesMap[f] /\ (cacheMap[e].data = ram[f][w] \/ placeOf(f, o) >= limitOf(ownerOf(f)))
    BY <2>2, <2>3 DEF FillInv, EntryHolds
  <2>5. frameOwnerTable'[f] = [ownerProcess |-> a, virtualPageNumber |-> b]
    <3>1. Resident(a, b)'
      BY <2>3, NoneIsNoFrame DEF Resident
    <3> QED BY <1>1, <3>1 DEF TableInv, FramesMatchPages
  <2>6. /\ frameOwnerTable'[frame] = [ownerProcess |-> p, virtualPageNumber |-> n]
        /\ \A g \in Frame \ {frame} : frameOwnerTable'[g] = frameOwnerTable[g]
        /\ Resident(p, n) => UNCHANGED tableVars
    BY <1>1, <1>2, OwnersOfWrite
  <2>7. f = frame => a = p /\ b = n /\ Resident(p, n)
    <3> SUFFICES ASSUME f = frame PROVE a = p /\ b = n /\ Resident(p, n)
      OBVIOUS
    <3>1. a = p /\ b = n
      BY <2>5, <2>6
    <3>2. o \in Nat /\ n * PAGE_SIZE \in Nat
      BY <1>2, MemoryAssumption DEF Offset
    <3>3. offset # 0
      BY <1>2, <3>1, <3>2
    <3> QED BY <1>2, <3>1, <3>3
  <2>8. frameOwnerTable[f] = [ownerProcess |-> a, virtualPageNumber |-> b]
    BY <2>3, <2>5, <2>6, <2>7 DEF tableVars
  <2>9. ownerOf(f) = a /\ placeOf(f, o) = b * PAGE_SIZE + o /\ pageTable[a][b] = f
    BY <1>1, <2>3, <2>4, <2>8 DEF ownerOf, placeOf, TableInv, FramesMatchPages
  <2>10. cacheMap[e].data = ram[f][w]
    <3>1. placeOf(f, o) \in Int /\ addr \in Int
      BY <2>9, <1>2, MemoryAssumption DEF Offset
    <3> QED BY <2>4, <2>9, <3>1
  <2>11. ram'[f][w] = ram[f][w]
    <3>1. WriteLeaves(p, n, frame, offset, word)
      <4>1. WriteHit(p, n, frame, offset, word) \/ WriteMiss(p, n, frame, offset, word)
        BY DEF NextWord
      <4> QED BY <1>1, <1>2, <4>1, WriteFills
    <3>2. Refilled(f, w)
      BY <1>1, <1>3, <2>3, <2>7, <3>1 DEF WriteLeaves
    <3>3. ASSUME NEW d \in WriteBacks, d[1] = f, wordOf(d[2]) = w PROVE d = e
      <4>1. d \in Frame \X Offset /\ d[2] % 4 = 0
        BY <1>1 DEF WriteBacks, MemFullInv, MemInv, CacheInv, CacheTypeOK, Address, WordsCached
      <4>2. d[2] = o
        BY <3>3, <4>1, Aligned
      <4> QED BY <2>3, <3>3, <4>1, <4>2
    <3> QED BY <2>10, <3>2, <3>3 DEF Refilled
  <2>12. contentsOf(a, b) = ram[f] /\ contentsOf(a, b)' = ram'[f]
    BY <2>3, <2>9, NoneIsNoFrame DEF contentsOf, Resident
  <2> QED BY <1>4, <2>11, <2>12
<1> QED BY <1>5, <1>6
-----------------------------------------------------------------------------
(* The words written are those the file asks for *)

LEMMA AnyWord ==
  ASSUME AnyStore, NEW p \in Proc, NEW word \in 0 .. WORDS - 1
  PROVE  word \in Word
<1> DEFINE store == <<p, 0, 0, word>>
<1>1. 0 \in Offset
  BY MemoryAssumption DEF Offset
<1>2. store \in Stores /\ store[4] = word
  BY <1>1 DEF AnyStore
<1> HIDE DEF store
<1> QED BY <1>2 DEF Word, Data

\* A data word goes where its place in the data says.
LEMMA DataWordRight ==
  ASSUME AnyStore, NumericPrograms, NoMissWord, LoaderInv, QueueInv, NumbersInv, PlaceInv,
         parseData, stage' # "caught"
  PROVE  \E word : WritesNext(word) /\ Right(newPcb, addr, word)
<1> DEFINE items == dataOf(newPcb)
           i == done + 1
           word == items[i].value % WORDS
<1>1. /\ stage = "data" /\ stage' = "data" /\ done < Len(items)
      /\ UNCHANGED <<batch, position, startAddr, process_list>>
      /\ Has(items[i], "value") /\ writeWord(word)
  BY DEF parseData, Throw
<1>2. /\ newPcb \in Proc /\ Len(items) \in Nat /\ done \in Nat /\ addr \in Nat
      /\ addr = 4 * done /\ addr % 4 = 0
      /\ HasProgram(newPcb) /\ procFile[newPcb].program_path \in DOMAIN Programs
  BY <1>1, NewNumeric
     DEF LoaderInv, LoopInv, Parsing, PlaceInv, INSTRUCTION_SIZE, NumbersInv, QueueInv
<1>3. items[i].value \in Int /\ i \in 1 .. Len(items)
  <2>1. i \in 1 .. Len(items)
    BY <1>1, <1>2
  <2> QED BY <1>1, <2>1, NewNumeric DEF Parsing
<1>4. word \in Word
  <2>1. word \in 0 .. WORDS - 1
    BY <1>3, ValueIsWord
  <2> QED BY <1>2, <2>1, AnyWord
<1>5. word # UINT32_MAX
  BY <1>1, <1>2, <1>3 DEF NoMissWord
<1>6. WritesNext(word)
  <2> HIDE DEF word
  <2> QED BY <1>1, <1>2, <1>4, <1>5 DEF WritesNext
<1>7. Right(newPcb, addr, word)
  <2>1. addr = 4 * (i - 1)
    BY <1>2
  <2> QED BY <1>3, <2>1 DEF Right, INSTRUCTION_SIZE
<1> QED BY <1>6, <1>7

\* An instruction goes to its address, in the word of its program's own labels.
LEMMA CodeWordRight ==
  ASSUME AnyStore, NumericPrograms, NoMissWord, LowerCasePrograms, LoaderInv, QueueInv,
         NumbersInv, PlaceInv, MapsInv, encodeInstruction, stage' # "caught"
  PROVE  \E word : WritesNext(word) /\ Right(newPcb, addr, word)
<1> DEFINE nodes == instructionsOf(newPcb)
           i == done + 1
           node == nodes[i]
           word == parseInstruction(node, labelMap, dataMap)
<1>1. /\ stage = "code" /\ stage' = "code" /\ done < Len(nodes)
      /\ UNCHANGED <<batch, position, startAddr, process_list>>
      /\ encodable(node, labelMap, dataMap) /\ writeWord(word)
  BY DEF encodeInstruction, Throw
<1>2. /\ newPcb \in Proc /\ Len(nodes) \in Nat /\ done \in Nat /\ addr \in Nat
      /\ startAddr = startOf(newPcb) /\ startAddr \in Nat
      /\ addr = startAddr + 4 * done /\ addr % 4 = 0
      /\ HasProgram(newPcb) /\ procFile[newPcb].program_path \in DOMAIN Programs
      /\ Len(dataOf(newPcb)) \in Nat
  BY <1>1, NewNumeric
     DEF LoaderInv, LoopInv, Parsing, PlaceInv, INSTRUCTION_SIZE, NumbersInv, QueueInv
<1>3. i \in 1 .. Len(nodes)
  BY <1>1, <1>2
<1>4. Numeric(node, labelMap, dataMap)
  <2>1. Numeric(node, <<>>, <<>>)
    BY <1>1, <1>3, NewNumeric DEF Parsing
  <2> QED BY <2>1, NumericNode DEF NumbersInv
<1>5. node.instruction \in DOMAIN instructionMap
  BY <1>1, <1>2, <1>3 DEF LowerCasePrograms, encodable
<1>6. /\ SymbolsOf(newPcb, dataMap) /\ LabelsOf(newPcb, labelMap)
      /\ dataMap = symbolsOf(newPcb) /\ labelMap = labelsOf(newPcb)
  <2>1. SymbolsInv /\ LabelsInv /\ dataPassed = Len(dataOf(newPcb)) /\ codePassed = Len(nodes)
    BY <1>1 DEF MapsInv, Parsing, dataPassed, codePassed
  <2> QED BY <1>2, <2>1, SymbolsFinal, LabelsFinal
<1>7. word \in Word
  <2>1. word \in 0 .. WORDS - 1
    BY <1>1, <1>4, EncodedIsWord
  <2> QED BY <1>2, <2>1, AnyWord
<1>8. word # UINT32_MAX
  BY <1>1, <1>4, <1>5, <1>6, NoInstructionMisses DEF NoMissWord
<1>9. IsCode(newPcb, node, word)
  <2>1. ASSUME node.instruction \in Understood PROVE Decode(word) = Meaning(newPcb, node)
    BY <1>1, <1>4, <1>6, <2>1, DecodedAsMeant
  <2> QED BY <1>1, <1>6, <2>1 DEF IsCode
<1>10. WritesNext(word)
  <2> HIDE DEF word
  <2> QED BY <1>1, <1>2, <1>7, <1>8 DEF WritesNext
<1>11. Right(newPcb, addr, word)
  <2>1. addr = addressOf(newPcb, i)
    BY <1>2 DEF addressOf, INSTRUCTION_SIZE
  <2> HIDE DEF word
  <2> QED BY <1>3, <1>9, <2>1 DEF Right
<1> QED BY <1>10, <1>11

\* The programs of the processes queued were read.
FilesInv == \A q \in Range(process_list) : procFile[q].program_path \in DOMAIN Programs

LEMMA FilesKept ==
  ASSUME LoaderInv, QueueInv, FilesInv, LoaderNext
  PROVE  FilesInv'
<1>1. CASE addProcess
  <2>1. /\ process_list' = Append(process_list, newPcb) /\ stage \in Parsing
        /\ procFile[newPcb].program_path \in DOMAIN Programs
    BY <1>1 DEF addProcess, Parsing, QueueInv
  <2>2. Range(process_list') = Range(process_list) \cup {newPcb}
    BY <2>1, NewPcbType, AppendContents DEF LoaderInv, LoopInv
  <2> QED BY <2>1, <2>2 DEF FilesInv
<1>2. CASE ~addProcess
  <2>1. process_list' = process_list
    BY <1>2 DEF LoaderNext, SkipProcess, loadJsonProgram, parseData, parseProgram, defineLabel,
       setEntryPoint, encodeInstruction, EndOfBatch
  <2> QED BY <2>1 DEF FilesInv
<1> QED BY <1>1, <1>2

\* The processes that exist are of the batch, and their programs have a size.
LEMMA AliveKnown ==
  ASSUME NumericPrograms, LoaderInv, QueueInv, NumbersInv, FilesInv
  PROVE  /\ Range(batch) \subseteq Proc /\ Alive \subseteq Range(batch)
         /\ \A q \in Alive : sizeOf(q) \in Nat /\ limitOf(q) \in Nat
<1>1. batch \in Seq(Proc) /\ position \in 0 .. Len(batch)
  BY DEF LoaderInv, LoopInv
<1>2. Range(process_list) = QueuedOf(Completed)
  BY DEF QueueInv, QueuedInOrder, QueuedOf
<1>3. Completed \in 0 .. Len(batch) \/ Completed = -1
  BY <1>1 DEF Completed
<1>4. \A k \in 1 .. Completed : k \in DOMAIN batch
  BY <1>1, <1>3
<1>5. Range(batch) \subseteq Proc /\ Range(process_list) \subseteq Range(batch)
  BY <1>1, <1>2, <1>4 DEF Range, QueuedOf
<1>6. stage \in Parsing => newPcb \in Range(batch)
  BY <1>1 DEF LoaderInv, LoopInv, newPcb, Range
<1>7. \A q \in Range(process_list) : HasProgram(q)
  BY <1>2 DEF QueuedOf
<1>8. ASSUME NEW q \in Alive PROVE Len(dataOf(q)) \in Nat /\ Len(instructionsOf(q)) \in Nat
  BY <1>5, <1>7, NewNumeric DEF NumericPrograms, FilesInv, Alive
<1>9. ASSUME NEW q \in Alive PROVE sizeOf(q) \in Nat
  BY <1>8 DEF sizeOf, startOf, INSTRUCTION_SIZE
<1>10. written \in Nat
  BY DEF written, LoaderInv, LoopInv
<1> QED BY <1>5, <1>6, <1>9, <1>10 DEF Alive, limitOf

\* A step that is not for the memory of a process.
PassesOver ==
  \/ SkipProcess \/ loadJsonProgram \/ parseProgram \/ defineLabel
  \/ setEntryPoint \/ addProcess \/ EndOfBatch
  \/ (parseData \/ encodeInstruction) /\ stage' = "caught"

\* What such a step does to the places written: none, but that a program begins.
PlacesStay ==
  /\ UNCHANGED memVars /\ stage # "caught" /\ batch' = batch
  /\ \A q \in Alive' : (q \in Alive /\ limitOf(q)' = limitOf(q)) \/ limitOf(q)' = 0
  /\ stage' # "caught" => \A q \in Alive : limitOf(q)' = limitOf(q)
  /\ stage' \in Parsing =>
       \/ written' = 0
       \/ stage \in Parsing /\ newPcb' = newPcb /\ written' = written

LEMMA LimitsStay ==
  ASSUME NumericPrograms, LoaderInv, QueueInv, NumbersInv, PlaceInv, FilesInv, LoaderNext, PassesOver
  PROVE  PlacesStay
<1>1. stage # "caught"
  BY NoStepAfterThrow
<1>2. CASE SkipProcess \/ EndOfBatch
  <2>1. /\ UNCHANGED memVars /\ UNCHANGED <<batch, process_list>> /\ stage = "entry"
        /\ stage' \in {"entry", "loaded"}
    BY <1>2 DEF SkipProcess, BeginEntry, EndOfBatch
  <2> QED BY <2>1 DEF PlacesStay, Alive, limitOf, sizeOf, Parsing
<1>3. CASE loadJsonProgram
  <2>1. /\ UNCHANGED memVars /\ UNCHANGED <<batch, process_list>> /\ stage = "entry"
        /\ stage' \in {"data", "caught"} /\ (stage' = "data" => addr' = 0)
        /\ newPcb' = batch[position + 1] /\ position < Len(batch)
    BY <1>3 DEF loadJsonProgram, BeginEntry, Throw, newPcb
  <2>2. newPcb' \notin Range(process_list)
    <3>1. batch \in Seq(Proc) /\ IsInjective(batch) /\ position \in 0 .. Len(batch)
      BY LoaderAssumption DEF LoaderInv, LoopInv, NumbersInv
    <3>2. Range(process_list) = QueuedOf(position)
      BY <2>1 DEF QueueInv, QueuedInOrder, QueuedOf, Completed
    <3>3. \A k \in 1 .. position : batch[k] # batch[position + 1]
      BY <2>1, <3>1 DEF IsInjective
    <3> QED BY <2>1, <3>2, <3>3 DEF QueuedOf
  <2>3. Alive = Range(process_list) /\ \A q : limitOf(q) = sizeOf(q)
    BY <2>1 DEF Alive, limitOf, Parsing
  <2>4. \A q : limitOf(q)' = IF stage' = "data" /\ q = newPcb' THEN 0 ELSE sizeOf(q)
    BY <2>1 DEF limitOf, written, Parsing
  <2>5. Alive' = Range(process_list) \cup (IF stage' = "data" THEN {newPcb'} ELSE {})
    BY <2>1 DEF Alive, Parsing
  <2>6. stage' \in Parsing => written' = 0
    BY <2>1 DEF written, Parsing
  <2> HIDE DEF limitOf, Alive
  <2> QED BY <1>1, <2>1, <2>2, <2>3, <2>4, <2>5, <2>6 DEF PlacesStay
<1>4. CASE parseProgram \/ defineLabel \/ setEntryPoint
  <2>1. /\ newPcb' = newPcb /\ stage \in Parsing /\ UNCHANGED <<batch, process_list>>
    BY <1>4, SameProgram
  <2>2. UNCHANGED memVars /\ stage' \in Parsing /\ written' = written
    BY <1>4 DEF parseProgram, defineLabel, setEntryPoint, Parsing, written
  <2>3. Alive' = Alive /\ \A q : limitOf(q)' = limitOf(q)
    BY <2>1, <2>2 DEF Alive, limitOf
  <2> QED BY <1>1, <2>1, <2>2, <2>3 DEF PlacesStay
<1>5. CASE addProcess
  <2>1. /\ UNCHANGED memVars /\ UNCHANGED <<batch, position>> /\ stage = "code" /\ stage' = "entry"
        /\ process_list' = Append(process_list, newPcb) /\ newPcb \in Proc
        /\ done = Len(instructionsOf(newPcb))
    BY <1>5, NewPcbType DEF addProcess, Parsing
  <2>2. Range(process_list') = Range(process_list) \cup {newPcb}
    BY <2>1, AppendContents DEF LoaderInv, LoopInv
  <2>3. Alive' = Alive
    BY <2>1, <2>2 DEF Alive, Parsing
  <2>4. addr = sizeOf(newPcb)
    BY <2>1 DEF PlaceInv, sizeOf
  <2>5. \A q : limitOf(q)' = limitOf(q)
    BY <2>1, <2>4 DEF limitOf, written, Parsing
  <2> QED BY <1>1, <2>1, <2>3, <2>5 DEF PlacesStay, Parsing
<1>6. CASE (parseData \/ encodeInstruction) /\ stage' = "caught"
  <2>1. UNCHANGED memVars /\ UNCHANGED <<batch, position, process_list>> /\ stage \in Parsing
    BY <1>6 DEF parseData, encodeInstruction, Parsing
  <2>2. newPcb \notin Range(process_list)
    BY <2>1, NewNotQueued DEF NumbersInv
  <2>3. Alive' = Range(process_list) /\ Range(process_list) \subseteq Alive
    BY <1>6, <2>1 DEF Alive, Parsing
  <2>4. \A q \in Range(process_list) : limitOf(q)' = limitOf(q)
    BY <1>6, <2>1, <2>2 DEF limitOf, Parsing
  <2> QED BY <1>1, <1>6, <2>1, <2>3, <2>4 DEF PlacesStay, Parsing
<1> QED BY <1>2, <1>3, <1>4, <1>5, <1>6 DEF PassesOver

LEMMA FillPassed ==
  ASSUME MemFullInv, FrameOwnersAlive, FillInv, PlacesStay
  PROVE  FillInv'
<1> SUFFICES ASSUME stage' # "caught" PROVE FillInv'
  BY DEF FillInv
<1>1. /\ UNCHANGED <<ram, framesMap, frameOwnerTable, pageTable, cacheMap>> /\ stage # "caught"
      /\ \A q \in Alive : limitOf(q)' = limitOf(q)
  BY DEF PlacesStay, memVars, tableVars, cacheVars
<1>2. ASSUME NEW f \in Frame, framesMap[f]
      PROVE  limitOf(ownerOf(f))' = limitOf(ownerOf(f))
  <2>1. PICK q : q = ownerOf(f)
    OBVIOUS
  <2>2. q \in Alive
    BY <1>1, <1>2, <2>1 DEF FrameOwnersAlive, ownerOf
  <2>3. limitOf(q)' = limitOf(q) /\ q = ownerOf(f)'
    BY <1>1, <2>1, <2>2 DEF ownerOf
  <2>4. limitOf(q)' = limitOf(ownerOf(f))'
    BY <2>3 DEF limitOf
  <2> QED BY <2>1, <2>3, <2>4
<1>3. \A f, o : placeOf(f, o)' = placeOf(f, o)
  BY <1>1 DEF placeOf
<1>4. ASSUME NEW a \in DOMAIN cacheMap' PROVE EntryHolds(a)'
  <2>1. EntryHolds(a) /\ a[1] \in Frame
    BY <1>1 DEF FillInv, MemFullInv, MemInv, CacheInv, CacheTypeOK, Address
  <2> QED BY <1>1, <1>2, <1>3, <2>1 DEF EntryHolds
<1>5. ASSUME NEW f \in Frame, framesMap'[f] PROVE PageBegun(f)'
  <2>1. PageBegun(f) /\ framesMap[f]
    BY <1>1, <1>5 DEF FillInv
  <2> QED BY <1>1, <1>2, <1>3, <2>1 DEF PageBegun
<1>6. ASSUME stage' \in Parsing, written' % PAGE_SIZE # 0
      PROVE  Resident(newPcb, written \div PAGE_SIZE)'
  <2>1. 0 % PAGE_SIZE = 0
    BY MemoryAssumption
  <2>2. stage \in Parsing /\ newPcb' = newPcb /\ written' = written
    BY <1>6, <2>1 DEF PlacesStay
  <2> QED BY <1>1, <1>6, <2>2 DEF FillInv, Resident
<1> QED BY <1>4, <1>5, <1>6 DEF FillInv

LEMMA HeldPassed ==
  ASSUME HeldInv, PlacesStay
  PROVE  HeldInv'
<1>1. /\ UNCHANGED <<ram, disk, pageTable, swapTable, nextSwapAddress>> /\ batch' = batch
      /\ \A q \in Alive' : (q \in Alive /\ limitOf(q)' = limitOf(q)) \/ limitOf(q)' = 0
  BY DEF PlacesStay, memVars, tableVars, swapVars
<1>2. ASSUME NEW p, NEW n PROVE contentsOf(p, n)' = contentsOf(p, n)
  BY <1>1 DEF contentsOf, Resident, Swapped
<1>3. ASSUME NEW p, NEW address, HeldAt(p, address) PROVE HeldAt(p, address)'
  <2>1. pageOf(p, address)' = pageOf(p, address)
    BY <1>2 DEF pageOf
  <2>2. wordAt(p, address)' = wordAt(p, address)
    BY <2>1 DEF wordAt
  <2> QED BY <1>3, <2>1, <2>2 DEF HeldAt
<1>4. ASSUME nextSwapAddress' <= diskPages, NEW p \in Alive', PidOfItsOwn(p)',
             NEW address \in 0 .. limitOf(p)' - 1, address % INSTRUCTION_SIZE = 0
      PROVE  HeldAt(p, address)'
  <2>1. limitOf(p)' # 0
    BY <1>4
  <2>2. p \in Alive /\ limitOf(p)' = limitOf(p) /\ PidOfItsOwn(p) /\ nextSwapAddress <= diskPages
    BY <1>1, <1>4, <2>1 DEF PidOfItsOwn
  <2>3. HeldAt(p, address)
    BY <1>4, <2>2 DEF HeldInv
  <2> QED BY <1>3, <2>3
<1> HIDE DEF HeldInv
<1> QED BY <1>4 DEF HeldInv

\* The word just written is where its process finds it.
LEMMA WordLands ==
  ASSUME WholeWords, MemFullInv, MemFullInv', FillInv, stage # "caught",
         NEW p, NEW n, NEW offset, NEW frame, NEW word \in Word,
         NextWord(p, n, offset, frame, word)
  PROVE  contentsOf(p, n)' # NONE /\ contentsOf(p, n)'[wordOf(offset)] = word
<1>1. WordsCached /\ TableInv /\ TableInv'
  BY CachedWords DEF MemFullInv, MemInv
<1>2. /\ p \in Proc /\ n \in Page /\ frame \in Frame /\ offset \in Offset /\ offset % 4 = 0
      /\ WriteHit(p, n, frame, offset, word) \/ WriteMiss(p, n, frame, offset, word)
      /\ translateAddress(p, n, frame)
  BY DEF NextWord
<1>3. pageTable'[p][n] = frame /\ frame # NONE
  BY <1>1, <1>2, FrameOfCall, NoneIsNoFrame
<1>4. Resident(p, n)' /\ contentsOf(p, n)' = ram'[frame]
  BY <1>3 DEF Resident, contentsOf
<1>5. ram'[frame][wordOf(offset)] = word
  <2>1. WriteLeaves(p, n, frame, offset, word)
    BY <1>1, <1>2, WriteFills
  <2> QED BY <2>1 DEF WriteLeaves
<1> QED BY <1>2, <1>4, <1>5, PageThere

\* What is held stays held when the next word is written, and so is that word.
LEMMA HeldWritten ==
  ASSUME AnyPage, WholeWords, NumericPrograms, LoaderInv, QueueInv, NumbersInv, FilesInv,
         FrameOwnersAlive, MemFullInv, MemFullInv', nextSwapAddress <= nextSwapAddress',
         FillInv, HeldInv, stage # "caught", Alive' = Alive, batch' = batch,
         NEW p, NEW n, NEW offset, NEW frame, NEW word \in Word,
         NextWord(p, n, offset, frame, word), p \in Alive, Right(p, addr, word)
  PROVE  HeldInv'
<1> SUFFICES ASSUME nextSwapAddress' <= diskPages, NEW a \in Alive, PidOfItsOwn(a),
                    NEW x \in 0 .. limitOf(a)' - 1, x % 4 = 0
             PROVE  HeldAt(a, x)'
  <2>1. \A q : PidOfItsOwn(q)' = PidOfItsOwn(q)
    BY DEF PidOfItsOwn
  <2> HIDE DEF Alive
  <2> QED BY <2>1 DEF HeldInv, INSTRUCTION_SIZE
<1> DEFINE b == x \div PAGE_SIZE
           o == x % PAGE_SIZE
<1>1. /\ p \in Proc /\ n \in Page /\ n \in Nat /\ offset \in Offset /\ addr \in Nat
      /\ n = addr \div PAGE_SIZE /\ offset = addr % PAGE_SIZE
      /\ addr % 4 = 0 /\ limitOf(p) = addr /\ limitOf(p)' = addr + 4
      /\ \A q : q # p => limitOf(q)' = limitOf(q)
  <2>1. addr % 4 = 0
    BY PlaceInPage DEF NextWord
  <2> QED BY <2>1 DEF NextWord
<1>2. b \in Nat /\ b \in Page /\ o \in Offset /\ o % 4 = 0 /\ x = b * PAGE_SIZE + o /\ x \in Nat
  <2>1. x \in Nat
    OBVIOUS
  <2> QED BY <2>1, AddressSplits, Aligned DEF AnyPage
<1>3. ASSUME NEW word2, contentsOf(a, b)' # NONE, contentsOf(a, b)'[wordOf(o)] = word2,
             Right(a, x, word2)
      PROVE  HeldAt(a, x)'
  <2>1. pageOf(a, x)' = contentsOf(a, b)'
    BY DEF pageOf
  <2>2. wordAt(a, x)' = word2
    BY <1>3, <2>1 DEF wordAt
  <2> QED BY <1>3, <2>1, <2>2 DEF HeldAt
<1>4. CASE a = p /\ x = addr
  <2>1. contentsOf(p, n)' # NONE /\ contentsOf(p, n)'[wordOf(offset)] = word
    BY WordLands
  <2> QED BY <1>1, <1>3, <1>4, <2>1
<1>5. CASE ~(a = p /\ x = addr)
  <2>1. limitOf(a) \in Nat /\ a \in Proc
    BY AliveKnown
  <2>2. x < limitOf(a)
    <3>1. CASE a # p
      BY <1>1, <1>2, <3>1, <2>1
    <3>2. CASE a = p
      <4>1. ~(x >= addr + 4) /\ x # addr
        BY <1>1, <1>2, <1>5, <3>2
      <4>2. ~(x >= addr)
        BY <1>1, <1>2, <4>1, NextPlace
      <4> QED BY <1>1, <1>2, <3>2, <4>2
    <3> QED BY <3>1, <3>2
  <2>3. nextSwapAddress <= diskPages
    BY MemoryAssumption DEF MemFullInv, MemInv, SwapTypeOK
  <2>4. HeldAt(a, x)
    <3>1. x \in 0 .. limitOf(a) - 1
      BY <1>2, <2>1, <2>2
    <3> QED BY <2>3, <3>1 DEF HeldInv, INSTRUCTION_SIZE
  <2>5. contentsOf(a, b) # NONE /\ Right(a, x, contentsOf(a, b)[wordOf(o)])
    BY <2>4 DEF HeldAt, pageOf, wordAt
  <2>6. AloneIn(Range(batch), a) /\ p \in Range(batch)
    <3>1. Alive \subseteq Range(batch)
      BY AliveKnown
    <3>2. \A f \in Frame : framesMap[f] => frameOwnerTable[f].ownerProcess \in Range(batch)
      BY <3>1 DEF FrameOwnersAlive
    <3> QED BY <3>1, <3>2 DEF AloneIn, PidOfItsOwn
  <2>7. contentsOf(a, b)' # NONE /\ contentsOf(a, b)'[wordOf(o)] = contentsOf(a, b)[wordOf(o)]
    <3>1. b * PAGE_SIZE + o < limitOf(a) /\ limitOf(a) \in Int
      BY <1>2, <2>1, <2>2
    <3> HIDE DEF b, o
    <3> QED BY <1>2, <2>1, <2>5, <2>6, <3>1, WordStays
  <2> QED BY <1>3, <2>5, <2>7
<1> QED BY <1>4, <1>5
-----------------------------------------------------------------------------
(* Every process queued is loaded *)

LoadedInv ==
  /\ LoaderInv /\ FrameOwnersAlive /\ QueueInv /\ NumbersInv /\ MemFullInv
  /\ PlaceInv /\ MapsInv /\ EntryInv /\ FilesInv /\ FillInv /\ HeldInv

LEMMA InitLoaded ==
  ASSUME LoaderInit
  PROVE  PlaceInv /\ MapsInv /\ EntryInv /\ FilesInv /\ FillInv /\ HeldInv
<1>1. /\ stage = "entry" /\ process_list = <<>> /\ Range(process_list) = {}
      /\ pc = [p \in Proc |-> 0] /\ burst_time = [p \in Proc |-> 0]
      /\ DOMAIN cacheMap = {} /\ framesMap = [f \in Frame |-> FALSE]
  BY DEF LoaderInit, MemoryInit, CacheInit, Range
<1>2. EntryInv
  BY <1>1 DEF EntryInv, Started
<1>3. FillInv
  BY <1>1 DEF FillInv, Parsing
<1>4. HeldInv
  BY <1>1 DEF HeldInv, Alive, Parsing
<1> QED BY <1>1, <1>2, <1>3, <1>4 DEF PlaceInv, MapsInv, FilesInv, Parsing

\* Memory keeps what the loader has put there at every step.
LEMMA LoadedKept ==
  ASSUME AnyPage, AnyStore, NumericPrograms, WholeWords, NoMissWord, LowerCasePrograms,
         LoadedInv, LoaderNext
  PROVE  FillInv' /\ HeldInv'
<1>1. /\ LoaderInv /\ FrameOwnersAlive /\ QueueInv /\ NumbersInv /\ MemFullInv /\ PlaceInv
      /\ MapsInv /\ EntryInv /\ FilesInv /\ FillInv /\ HeldInv
  BY DEF LoadedInv
<1>2. MemFullInv' /\ nextSwapAddress <= nextSwapAddress'
  <2>1. [MemoryCall]_memVars
    BY <1>1, StepIsCall
  <2> QED BY <1>1, <2>1, MemKept, SlotsKept DEF MemFullInv
<1>3. CASE PassesOver
  <2>1. PlacesStay
    BY <1>1, <1>3, LimitsStay
  <2> QED BY <1>1, <2>1, FillPassed, HeldPassed
<1>4. CASE (parseData \/ encodeInstruction) /\ stage' # "caught"
  <2>1. PICK word : WritesNext(word) /\ Right(newPcb, addr, word)
    BY <1>1, <1>4, DataWordRight, CodeWordRight
  <2>2. PICK p, n, offset, frame : NextWord(p, n, offset, frame, word)
    BY <1>1, <2>1, NextWordFound
  <2>3. /\ word \in Word /\ word # UINT32_MAX /\ stage \in {"data", "code"} /\ stage' = stage
        /\ UNCHANGED <<batch, position, process_list>> /\ newPcb' = newPcb /\ p = newPcb
        /\ addr' = addr + 4
    BY <2>1, <2>2 DEF WritesNext, NextWord
  <2>4. /\ stage # "caught" /\ stage' \in Parsing /\ written' = addr + 4 /\ TableInv'
    BY <1>2, <2>3 DEF Parsing, written, MemFullInv, MemInv
  <2>5. Alive' = Alive /\ p \in Alive
    BY <2>3 DEF Alive, Parsing
  <2>6. FillInv'
    BY <1>1, <2>2, <2>3, <2>4, FillWritten
  <2>7. HeldInv'
    <3>1. Right(p, addr, word)
      BY <2>1, <2>3
    <3>2. batch' = batch
      BY <2>3
    <3> QED BY <1>1, <1>2, <2>2, <2>3, <2>4, <2>5, <3>1, <3>2, HeldWritten
  <2> QED BY <2>6, <2>7
<1> QED BY <1>3, <1>4 DEF LoaderNext, PassesOver

LEMMA LoadedInvariant ==
  ASSUME AnyPage, AnyStore, NumericPrograms, WholeWords, NoMissWord, LowerCasePrograms
  PROVE  LoaderSpec => []LoadedInv
<1> DEFINE Others == PlaceInv /\ MapsInv /\ EntryInv /\ FilesInv /\ FillInv /\ HeldInv
           Known == LoaderInv /\ FrameOwnersAlive /\ QueueInv /\ NumbersInv /\ MemFullInv
<1>1. LoaderInit => Others /\ NumbersInv /\ MemFullInv
  BY InitLoaded, InitMem DEF LoaderInit, NumbersInv, INSTRUCTION_SIZE
<1>2. Known /\ Others /\ [LoaderNext]_<<memVars, loaderVars>> =>
        Others' /\ NumbersInv' /\ MemFullInv'
  <2> SUFFICES ASSUME Known, Others, [LoaderNext]_<<memVars, loaderVars>>
               PROVE  Others' /\ NumbersInv' /\ MemFullInv'
    OBVIOUS
  <2>1. CASE LoaderNext
    <3>1. NumbersInv' /\ MemFullInv'
      BY <2>1, StepIsCall, MemKept, NumbersKept
    <3>2. FillInv' /\ HeldInv'
      BY <2>1, LoadedKept DEF LoadedInv
    <3> QED BY <2>1, <3>1, <3>2, PlaceKept, MapsKept, EntryKept, FilesKept
  <2>2. CASE UNCHANGED <<memVars, loaderVars>>
    <3>1. MemFullInv'
      BY <2>2, MemKept
    <3>2. NumbersInv'
      BY <2>2 DEF NumbersInv, loaderVars, placeVars, symbolVars, pcbVars
    <3>3. /\ UNCHANGED <<batch, position, stage, done, addr, startAddr, dataMap, labelMap, pc,
                         burst_time, process_list>>
          /\ newPcb' = newPcb /\ UNCHANGED memVars
      BY <2>2 DEF loaderVars, placeVars, symbolVars, pcbVars, newPcb
    <3>4. /\ Alive' = Alive /\ Started' = Started /\ written' = written
          /\ \A q : limitOf(q)' = limitOf(q)
      BY <3>3 DEF Alive, Started, written, limitOf
    <3>5. PlaceInv'
      BY <3>3 DEF PlaceInv
    <3>6. MapsInv'
      <4>1. dataPassed' = dataPassed /\ codePassed' = codePassed
        BY <3>3 DEF dataPassed, codePassed
      <4> QED BY <3>3, <4>1, Zenon
            DEF MapsInv, SymbolsInv, LabelsInv, IsMap, labelsItem, labelsNode
    <3>7. EntryInv' /\ FilesInv'
      BY <3>3, <3>4 DEF EntryInv, EntryRight, FilesInv
    <3>8. FillInv' /\ HeldInv'
      <4>1. CASE stage # "caught"
        <5>1. PlacesStay
          BY <3>3, <3>4, <4>1 DEF PlacesStay
        <5> QED BY <5>1, FillPassed, HeldPassed
      <4>2. CASE stage = "caught"
        <5>1. FillInv'
          BY <3>3, <4>2 DEF FillInv
        <5>2. /\ UNCHANGED <<ram, disk, pageTable, swapTable, nextSwapAddress, batch>>
          BY <3>3 DEF memVars, tableVars, swapVars
        <5>3. HeldInv'
          BY <3>4, <5>2, Zenon
             DEF HeldInv, HeldAt, pageOf, wordAt, contentsOf, Resident, Swapped, PidOfItsOwn
        <5> QED BY <5>1, <5>3
      <4> QED BY <4>1, <4>2
    <3> QED BY <3>1, <3>2, <3>5, <3>6, <3>7, <3>8
  <2> QED BY <2>1, <2>2
<1>3. Known /\ Others => LoadedInv
  BY DEF LoadedInv
<1> QED BY <1>1, <1>2, <1>3, LoaderInvariant, QueueInvariant, PTL DEF LoaderSpec

\* A word at the address of a data item is that item, and one at the address of an
\* instruction that instruction: no other is there.
LEMMA RightData ==
  ASSUME NEW p, Len(dataOf(p)) \in Nat, Len(instructionsOf(p)) \in Nat,
         NEW i \in 1 .. Len(dataOf(p)), NEW address, address = INSTRUCTION_SIZE * (i - 1),
         NEW word, Right(p, address, word)
  PROVE  word = dataOf(p)[i].value % WORDS
<1>1. ASSUME NEW j \in 1 .. Len(dataOf(p)), address = 4 * (j - 1) PROVE j = i
  BY <1>1 DEF INSTRUCTION_SIZE
<1>2. ASSUME NEW j \in 1 .. Len(instructionsOf(p)), address = addressOf(p, j) PROVE FALSE
  BY <1>2 DEF addressOf, startOf, INSTRUCTION_SIZE
<1> QED BY <1>1, <1>2 DEF Right, INSTRUCTION_SIZE

LEMMA RightCode ==
  ASSUME NEW p, Len(dataOf(p)) \in Nat, Len(instructionsOf(p)) \in Nat,
         NEW i \in 1 .. Len(instructionsOf(p)), NEW address, address = addressOf(p, i),
         NEW word, Right(p, address, word)
  PROVE  IsCode(p, instructionsOf(p)[i], word)
<1>1. ASSUME NEW j \in 1 .. Len(dataOf(p)), address = 4 * (j - 1) PROVE FALSE
  BY <1>1 DEF addressOf, startOf, INSTRUCTION_SIZE
<1>2. ASSUME NEW j \in 1 .. Len(instructionsOf(p)), address = addressOf(p, j) PROVE j = i
  BY <1>2 DEF addressOf, startOf, INSTRUCTION_SIZE
<1> QED BY <1>1, <1>2 DEF Right, INSTRUCTION_SIZE

\* A process queued has all the words of its program.
LEMMA HeldIsLoaded ==
  ASSUME NumericPrograms, LoadedInv
  PROVE  QueuedIsLoaded
<1>1. /\ LoaderInv /\ QueueInv /\ NumbersInv /\ EntryInv /\ FilesInv /\ HeldInv
  BY DEF LoadedInv
<1> SUFFICES ASSUME nextSwapAddress <= diskPages, NEW p \in Range(process_list), PidOfItsOwn(p)
             PROVE  Holds(p)
  BY DEF QueuedIsLoaded
<1>2. p \in Alive /\ p \in Started
  BY DEF Alive, Started
<1>3. EntryRight(p)
  BY <1>1, <1>2 DEF EntryInv
<1>4. limitOf(p) = sizeOf(p)
  BY <1>1, NewNotQueued DEF limitOf, NumbersInv
<1>5. Len(dataOf(p)) \in Nat /\ Len(instructionsOf(p)) \in Nat
  <2>1. HasProgram(p) /\ p \in Proc
    <3>1. Range(process_list) = QueuedOf(Completed)
      BY <1>1 DEF QueueInv, QueuedInOrder, QueuedOf
    <3>2. p \in Proc
      BY <1>1, <1>2, AliveKnown
    <3> QED BY <3>1, <3>2 DEF QueuedOf
  <2> QED BY <1>1, <2>1 DEF NumericPrograms, FilesInv
<1>6. ASSUME NEW address \in Nat, address < sizeOf(p), address % 4 = 0
      PROVE  HeldAt(p, address)
  <2>1. sizeOf(p) \in Nat
    BY <1>1, <1>2, AliveKnown
  <2>2. address \in 0 .. limitOf(p) - 1
    BY <1>4, <1>6, <2>1
  <2> QED BY <1>1, <1>2, <1>6, <2>2 DEF HeldInv, INSTRUCTION_SIZE
<1>7. ASSUME NEW i \in 1 .. Len(dataOf(p)), NEW address, address = INSTRUCTION_SIZE * (i - 1)
      PROVE  pageOf(p, address) # NONE /\ wordAt(p, address) = dataOf(p)[i].value % WORDS
  <2>1. address \in Nat /\ address < sizeOf(p) /\ address % 4 = 0
    BY <1>5, <1>7 DEF sizeOf, startOf, INSTRUCTION_SIZE
  <2>2. HeldAt(p, address)
    BY <1>6, <2>1
  <2> QED BY <1>5, <1>7, <2>2, RightData DEF HeldAt
<1>8. ASSUME NEW i \in 1 .. Len(instructionsOf(p)), NEW address, address = addressOf(p, i)
      PROVE  pageOf(p, address) # NONE /\ IsCode(p, instructionsOf(p)[i], wordAt(p, address))
  <2>1. address \in Nat /\ address < sizeOf(p) /\ address % 4 = 0
    BY <1>5, <1>8 DEF sizeOf, startOf, addressOf, INSTRUCTION_SIZE
  <2>2. HeldAt(p, address)
    BY <1>6, <2>1
  <2> QED BY <1>5, <1>8, <2>2, RightCode DEF HeldAt
<1> QED BY <1>3, <1>7, <1>8 DEF Holds, EntryRight

\* While the disk has room, a process that is queued has all of its program in memory,
\* wherever loading the others has pushed its pages and whatever the cache wrote back
\* to its frames: every data word, and every instruction encoded with the labels of
\* its own program, which for the mnemonics of Understood the control unit decodes to
\* the instruction its file names.  No data word may be the one the cache takes for a
\* miss: it would be written back over a later word.
THEOREM ProgramsLoaded ==
  ASSUME AnyPage, AnyStore, NumericPrograms, WholeWords, NoMissWord, LowerCasePrograms
  PROVE  LoaderSpec => []QueuedIsLoaded
BY LoadedInvariant, HeldIsLoaded, PTL
=============================================================================
