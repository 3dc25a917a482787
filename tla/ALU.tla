-------------------------------- MODULE ALU --------------------------------
(***************************************************************************)
(* The arithmetic unit (cpu/ULA.cpp).  A word is a number below WORD; the  *)
(* code has HALF = 2^16 and WORD = 2^32.  AND_OP, BGTI, BLTI, LW, LA and   *)
(* ST are never asked for by the control unit and are left out.            *)
(***************************************************************************)
EXTENDS Integers

CONSTANT HALF   \* an immediate is a number below HALF

ASSUME HalfAssumption == HALF \in Nat /\ HALF >= 2 /\ HALF % 2 = 0

WORD == HALF * HALF
Word == 0 .. WORD - 1
ArithmeticOps == {"ADD", "SUB", "MULT", "DIV"}
CompareOps == {"BEQ", "BNE", "BLT", "BGT"}

as_i32(x) == IF 2 * x < WORD THEN x ELSE x - WORD
fits_in_i32(n) == -WORD <= 2 * n /\ 2 * n < WORD

\* The quotient of C++, truncated towards zero.
Quotient(a, b) ==
  LET abs(n) == IF n < 0 THEN -n ELSE n
      q == abs(a) \div abs(b)
  IN IF (a < 0) = (b < 0) THEN q ELSE -q

\* The integer each operation stands for; a division by zero gives 0.
Exact(op, a, b) ==
  CASE op = "ADD" -> a + b
    [] op = "SUB" -> a - b
    [] op = "MULT" -> a * b
    [] op = "DIV" /\ b # 0 -> Quotient(a, b)
    [] OTHER -> 0

Holds(op, a, b) ==
  \/ op = "BEQ" /\ a = b
  \/ op = "BNE" /\ a # b
  \/ op = "BLT" /\ a < b
  \/ op = "BGT" /\ a > b

\* The smallest number divided by -1 does not fit, and wraps to itself.
calculate(op, A, B) ==
  LET a == as_i32(A)
      b == as_i32(B)
  IN IF op \in CompareOps
     THEN [result |-> IF Holds(op, a, b) THEN 1 ELSE 0, overflow |-> FALSE]
     ELSE [result |-> Exact(op, a, b) % WORD,
           overflow |-> ~fits_in_i32(Exact(op, a, b)) \/ (op = "DIV" /\ b = 0)]
=============================================================================
