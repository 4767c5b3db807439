---------------------------- MODULE X87GuestData ----------------------------
(***************************************************************************)
(* What a run of instructions works on besides the x87 registers: guest   *)
(* memory, the general registers, the flags and the x87 control word, and  *)
(* the conversions between them and register values.                       *)
(*                                                                         *)
(* Operations are operators of their own names, so that a pass that picks  *)
(* the wrong instruction, operand or rounding gives another value.  Memory *)
(* is a function from cells; a cell holds one operand of any width, and    *)
(* two operands either are the same cell or do not overlap.                *)
(***************************************************************************)
EXTENDS X87Data

CONSTANTS
  Regs,             \* general registers a run names
  Cells,            \* cells of guest memory
  Raw,              \* contents of a cell, a register or the control word
  Flag,             \* values of the flags (NZCV)
  Cell(_, _),       \* the cell at an address and a displacement
  LoadAs(_, _),     \* a register value from a cell, by LoadF64 .. LoadI64
  StoreAs(_, _, _), \* a cell from a register value, by StoreF64 .. and RC
  Bin(_, _, _),     \* FAdd, FSub, FMul, FDiv, FPatan, FYl2x, FScale
  Una(_, _),        \* FNeg, FAbs, FSqrt, FSin, FCos, FPtan
  Rnd(_, _),        \* FRNDINT under a rounding control
  RC(_),            \* the rounding control in a control word
  CompareFlags(_, _),  \* the flags FCOMI sets
  Taken(_, _),      \* whether a condition holds of the flags
  Alu(_, _, _),     \* add, sub, and, or, xor of general registers
  AluFlags(_),      \* the flags its result leaves
  Extend(_, _),     \* movzx, movsx, movsxd by source class
  Narrow(_),        \* a 32-bit register write
  Status(_, _, _),  \* a register with AX replaced by a status word
  Cleared           \* the condition code FSIN, FCOS and FPTAN leave

Ax == 0
Chop    == "chop"     \* FISTTP's rounding, whatever the control word
Nearest == "nearest"  \* the rounding of a float store

\* Operands.  An index register or a segment only matters to the code that
\* looks for simple operands.
MemOperands == [base : Regs, disp : Nat, index : BOOLEAN, seg : BOOLEAN]
At(x, o) == Cell(x.reg[o.base], o.disp)
Width(wide, v) == IF wide THEN v ELSE Narrow(v)

\* Guest state is part of a larger record x.
LoadMem(x, w, o) == LoadAs(w, x.mem[At(x, o)])
StoreMem(x, o, v) == [x EXCEPT !.mem[At(x, o)] = v]
SetReg(x, r, v) == [x EXCEPT !.reg[r] = v]
SetFlags(x, f)  == [x EXCEPT !.nz = f]
SetCc(x, c)     == [x EXCEPT !.cc = c]
SetCw(x, v)     == [x EXCEPT !.cw = v]

\* The rounding of a store: a float is always narrowed to nearest, an integer
\* store follows the control word unless it truncates.
StoreRounding(x, trunc) == IF trunc THEN Chop ELSE RC(x.cw)
=============================================================================
