--------------------------- MODULE VirtualMemory ---------------------------
(***************************************************************************)
(* What the memory hierarchy promises a program: pages of its own, where a *)
(* read returns the word written last.  A page exists once something has   *)
(* been written to it; nothing is promised of its other words.             *)
(***************************************************************************)
CONSTANTS Proc, Page, WordIndex, Word, Data, ABSENT, ZERO, VOID

VARIABLES
  contents,   \* the words of each page of each process, or ABSENT
  reply       \* what the last call returned

vmVars == <<contents, reply>>

VMInit ==
  /\ contents = [p \in Proc |-> [n \in Page |-> ABSENT]]
  /\ reply = VOID

VMRead(p, n, w) ==
  /\ reply' = IF contents[p][n] = ABSENT THEN ZERO ELSE contents[p][n][w]
  /\ UNCHANGED contents

VMWrite(p, n, w, word) ==
  /\ \E page \in IF contents[p][n] = ABSENT THEN [WordIndex -> Word] ELSE {contents[p][n]} :
        contents' = [contents EXCEPT ![p][n] = [page EXCEPT ![w] = word]]
  /\ reply' = VOID

VMNext ==
  \E p \in Proc, n \in Page, w \in WordIndex :
     VMRead(p, n, w) \/ \E word \in Data : VMWrite(p, n, w, word)

VMSpec == VMInit /\ [][VMNext]_vmVars
=============================================================================
