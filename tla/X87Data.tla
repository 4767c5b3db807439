------------------------------ MODULE X87Data ------------------------------
(***************************************************************************)
(* The data both machines work on: the eight registers of the x87 stack   *)
(* (NSlots of them here, so that small instances can be checked), the     *)
(* values they hold and the arithmetic on those values.                   *)
(*                                                                         *)
(* Arithmetic is left uninterpreted.  What the translator can get wrong   *)
(* is which register an instruction reads and writes and when, and one    *)
(* binary operator that does not commute is enough to tell every such     *)
(* mistake apart.  The commutative operator is there for the fusions that  *)
(* swap operands because addition allows it.                               *)
(***************************************************************************)
EXTENDS Integers

CONSTANTS
  NSlots,       \* registers in the stack; 8 in the program
  Vals,         \* register values
  NoVal,        \* the absence of a value: an empty register, no output
  Zero, One,    \* the values FLDZ and FLD1 push
  Add(_, _),    \* the result of an addition or multiplication
  Sub(_, _),    \* the result of any other two-operand instruction
  Un(_),        \* the result of a one-operand instruction
  Vn(_),        \* the second result of FSINCOS, FXTRACT
  Cmp(_, _)     \* the condition code a comparison leaves

ASSUME NSlotsAssumption == NSlots \in Nat /\ NSlots >= 2
ASSUME ValsAssumption ==
  /\ NoVal \notin Vals
  /\ Zero \in Vals /\ One \in Vals
  /\ \A a, b \in Vals : /\ Add(a, b) \in Vals /\ Add(a, b) = Add(b, a)
                       /\ Sub(a, b) \in Vals /\ Cmp(a, b) \in Vals
  /\ \A a \in Vals : Un(a) \in Vals /\ Vn(a) \in Vals

\* The reversed forms, FSUBR and the like, swap the operands.
SubR(rev, a, b) == IF rev THEN Sub(b, a) ELSE Sub(a, b)

\* An arithmetic instruction's operation on its destination a and source b.
ArithOps == {"add", "sub", "subr"}
Arith(k, a, b) == IF k = "add" THEN Add(a, b) ELSE SubR(k = "subr", a, b)

\* An operand: a value in memory, or the register i below TOP.
Mem(v) == [mem |-> TRUE, v |-> v]
Reg(i) == [mem |-> FALSE, i |-> i]

Slots == 0 .. (NSlots - 1)

(***************************************************************************)
(* TOP is a three-bit counter: emit_and_imm masks it after every step.     *)
(***************************************************************************)
Inc(p) == IF p = NSlots - 1 THEN 0 ELSE p + 1
Dec(p) == IF p = 0 THEN NSlots - 1 ELSE p - 1

\* The register d below t in the stack, and how far p is below t.
Phys(t, d)  == IF t + d >= NSlots THEN t + d - NSlots ELSE t + d
Depth(t, p) == IF p >= t THEN p - t ELSE p - t + NSlots
=============================================================================
