--------------------------- MODULE MCSidecarIPC ---------------------------
(* Values for the constants of SidecarIPC. *)
EXTENDS SidecarIPC

CONSTANTS t1, t2

Decoded(pc, ops) == [i \in 1..Len(ops) |-> [pc |-> pc + i - 1, op |-> ops[i]]]

MCTag == [t \in Threads |-> IF t = t1 THEN 1 ELSE 2]

MCScratch == {"scratch"}
MCOneMask == {{"scratch"}}
MCMasks == {{"scratch"}, {"own"}}

\* Two runs joined by a move, with an instruction that may decline; ARPL; two
\* blocks that agree in the third instruction and not in the fourth.
MCRuns ==
  {Decoded(0, <<"fadd", "fxch", "mov", "fadd">>),
   Decoded(0, <<"arpl", "nop", "fadd", "fxch">>),
   Decoded(0, <<"nop", "nop", "fadd", "finit">>)}
MCStockRuns == {Decoded(0, <<"fadd", "fbstp">>)}
MCRunsAndStock == MCRuns \cup MCStockRuns

\* Blocks of the same length whose first x87 instruction is not the same one.
MCLate ==
  {Decoded(0, <<"fadd", "nop", "nop">>), Decoded(0, <<"nop", "fadd", "fldcw">>)}

MCShort == {Decoded(0, <<"fadd", "fxch">>), Decoded(0, <<"nop", "fadd">>)}

MCBcd == {Decoded(0, <<"fbstp", "arpl">>)}
=============================================================================
