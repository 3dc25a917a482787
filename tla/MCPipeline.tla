----------------------------- MODULE MCPipeline -----------------------------
(***************************************************************************)
(* Small instances of Pipeline: all programs of four instructions over the *)
(* alphabet below, two registers and two words of data.                    *)
(***************************************************************************)
EXTENDS Pipeline

CONSTANTS zero, t0, t1

I(op, rs, rt, rd, imm) == [op |-> op, rs |-> rs, rt |-> rt, rd |-> rd, imm |-> imm]

\* An increment, one of each way to write and read a register, a branch
\* backwards and one forwards, output and the end.
Alphabet ==
  {I("ADDI", t0, t0, zero, 5), I("MULT", t0, t1, t1, 0), I("LW", zero, t1, zero, 0),
   I("SW", zero, t1, zero, 1), I("BLT", t0, t1, zero, 0), I("BNE", t0, zero, zero, 3),
   I("PRINT", zero, t0, zero, 0), I("END", zero, zero, zero, 0)}

All == [1 .. 4 -> Alphabet]

\* The programs the stages cover.
MCPrograms == {p \in All : Covered(p)}

\* One that they do not: a store before a write of its register, and a loop that
\* ends, like that of tasks/IOBOUND/logger_task.json, with a branch before END.
MCHazards ==
  {<<I("SW", zero, t1, zero, 1), I("ADDI", zero, t1, zero, 3), I("BLT", t0, t1, zero, 1),
     I("END", zero, zero, zero, 0)>>}

MCMemory == [a \in Address |-> IF a = 0 THEN 3 ELSE WORD - 1]
=============================================================================
