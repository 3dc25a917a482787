------------------------------ MODULE MCLoader ------------------------------
(***************************************************************************)
(* Small batches for Loader: programs like those of src/tasks, one that    *)
(* does not fit in main memory, and files that fail in each of the ways    *)
(* the loader meets.                                                       *)
(***************************************************************************)
EXTENDS Loader

CONSTANTS large, small, twin, stray, capital, odd, bare, unnamed, missing, lost

\* small and twin are of one pid.
MCpid ==
  [p \in Proc |-> IF p = large THEN 1 ELSE IF p \in {small, twin} THEN 2
                  ELSE IF p = stray THEN 3 ELSE 4]

File(path) == [loads |-> TRUE, program_path |-> path]

MCprocFile ==
  [p \in Proc |->
     CASE p = large -> File("large") [] p \in {small, twin} -> File("small")
       [] p = stray -> File("stray") [] p = capital -> File("capital") [] p = odd -> File("odd")
       [] p = bare -> File("bare") [] p = lost -> File("lost")
       [] p = unnamed -> [loads |-> TRUE] [] p = missing -> [loads |-> FALSE]]

MCCapitals == [ADDI |-> "addi", BEQ |-> "beq"]

\* The second definition of back is that of a branch.
Large ==
  [data |-> <<[label |-> "counter", value |-> 10], [value |-> 7], [label |-> "x", value |-> -1]>>,
   program |->
     <<[instruction |-> "li", label |-> "back", rt |-> "$t1", immediate |-> 999],
       [instruction |-> "lw", label |-> "start", rt |-> "$t0", base |-> "counter", offset |-> 4],
       [instruction |-> "print", label |-> "loop", rt |-> "$t0"],
       [instruction |-> "addi", rt |-> "$t0", rs |-> "$t1", immediate |-> -1],
       [comment |-> "no instruction"],
       [instruction |-> "bgt", rs |-> "$t0", rt |-> "$zero", label |-> "loop"],
       [instruction |-> "bne", rs |-> "$t1", rt |-> "$ra", label |-> "back", label1 |-> "start"],
       [instruction |-> "sw", rt |-> "$t0", base |-> "x"],
       [instruction |-> "j", label |-> "back"],
       [instruction |-> "end", label |-> "x"]>>]

\* Data without labels, and the other ways to name a word or a place.
Small ==
  [data |-> <<[value |-> 32]>>,
   program |->
     <<[instruction |-> "lw", rt |-> "$t0", addr |-> [offset |-> 4, base |-> "$gp"]],
       [instruction |-> "sub", rd |-> "$t2", rs |-> "$t0", rt |-> "$t1"],
       [instruction |-> "sll", rd |-> "$t2", rt |-> "$t1", shamt |-> 2],
       [instruction |-> "blt", rs |-> "$t2", rt |-> "$t0", offset |-> 4],
       [instruction |-> "sw", rt |-> "$t2", baseReg |-> "$sp"],
       [instruction |-> "jal", address |-> 4],
       [instruction |-> "end"]>>]

MCPrograms ==
  [large |-> Large, small |-> Small,
   \* loop and counter are labels of large only.
   stray |->
     [data |-> <<[label |-> "y", value |-> 5]>>,
      program |->
        <<[instruction |-> "slti", rt |-> "$t0", rs |-> "$zero", immediate |-> 1],
          [instruction |-> "beq", rs |-> "$t0", rt |-> "$t0", label |-> "loop"]>>],
   capital |->
     [program |->
        <<[instruction |-> "ADDI", rt |-> "$t0", rs |-> "$t0", immediate |-> 1],
          [instruction |-> "BEQ", rs |-> "$t0", rt |-> "$t0", label |-> "start"]>>],
   odd |-> [data |-> <<[label |-> "z", value |-> 5], [label |-> "w"]>>],
   bare |-> [data |-> <<[value |-> 9]>>]]

\* A program that fills memory and one that fails, on both sides of others; a
\* pid used twice; files that are skipped.
MCBatches ==
  {<<>>, <<missing, unnamed>>, <<small, large>>, <<large, stray, small>>,
   <<bare, large, small, unnamed>>, <<stray, large, small>>, <<small, twin, large>>,
   <<bare, capital, large>>, <<bare, odd, large, small>>, <<bare, lost, large>>,
   <<missing, large, bare, small, stray>>}

\* A loop like that of tasks/IOBOUND/ping_pong_task.json that prints what it counts.
MCPingPong ==
  [small |->
     [data |-> <<[label |-> "val", value |-> 1]>>,
      program |->
        <<[instruction |-> "lw", rt |-> "$t0", base |-> "val", offset |-> 0],
          [instruction |-> "print", label |-> "loop", rt |-> "$t0"],
          [instruction |-> "addi", rt |-> "$t0", rs |-> "$t0", immediate |-> 1],
          [instruction |-> "blt", rs |-> "$t0", rt |-> "$t1", label |-> "loop"],
          [instruction |-> "end"]>>]]
MCPingPongBatches == {<<small>>}

\* The words the programs are made of.
MCWords ==
  UNION {{parseInstruction(node, labelsOf(p), symbolsOf(p)) :
            node \in {node \in Range(instructionsOf(p)) :
                        encodable(node, labelsOf(p), symbolsOf(p))}}
         \cup {item.value % WORDS : item \in {item \in Range(dataOf(p)) : Has(item, "value")}} :
         p \in {q \in Proc : HasProgram(q) /\ procFile[q].program_path \in DOMAIN Programs}}

MCStores == Proc \X Page \X {o \in Offset : o % WORD_SIZE = 0} \X MCWords
=============================================================================
