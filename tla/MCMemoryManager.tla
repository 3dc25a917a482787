-------------------------- MODULE MCMemoryManager --------------------------
(***************************************************************************)
(* Small instances of MemoryManager: two processes with pids of their own. *)
(***************************************************************************)
EXTENDS MemoryManager

CONSTANTS p1, p2

MCpid == [p \in Proc |-> IF p = p1 THEN 1 ELSE 2]

\* p1 uses two pages and p2 one.  The words not written yet read as
\* MEMORY_ACCESS_ERROR.
MCLoads ==
  {<<p1, 0, 0>>, <<p1, 0, WORD_SIZE>>, <<p1, 1, 0>>, <<p2, 0, 0>>}
MCStores ==
  {<<p1, 0, 0, 1>>, <<p1, 0, 0, 2>>, <<p1, 0, WORD_SIZE, 1>>, <<p1, 1, 0, 1>>,
   <<p2, 0, 0, 2>>}
=============================================================================
