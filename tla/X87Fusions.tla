----------------------------- MODULE X87Fusions -----------------------------
(***************************************************************************)
(* The peephole fusions (TranslatorX87Fusion.cpp): one emitter for two to  *)
(* six consecutive instructions.  Each operator is one try_fuse_* function *)
(* past the checks on opcodes and operands, which the argument sets of     *)
(* X87Run state.  What the instructions of a fusion hand to the guest is   *)
(* collected in out.                                                       *)
(***************************************************************************)
EXTENDS X87Handlers, Sequences

\* A push still wholly in the cache: a following pop can cancel it.
keep_pending(S) == S.tpp /\ S.td

\* Fusions that leave the stack as deep as they found it write TOP only if
\* that costs no cancellation.
NetZero(S) == IF keep_pending(S) THEN S ELSE x87_flush_top(S)
StartNetZero(S) == NetZero(Start(S))

Pops(S, n) == CASE n = 0 -> S
                [] n = 1 -> x87_pop(S)
                [] OTHER -> x87_pop_n(S, 2)

-----------------------------------------------------------------------------
(* FLD first: x is its source *)

try_fuse_fld_arithp(S, x, k) ==
  LET B == StartNetZero(S)
  IN  x87_end(SetSt(B, 0, Arith(k, St(B, 0), Operand(B, x))), 2)

try_fuse_fld_arith(S, x, k, v) ==
  LET B == Start(S)
  IN  x87_end(SetSt(x87_push(B), 0, Arith(k, Operand(B, x), v)), 2)

\* FSTP's destination: memory, or ST(1), which is ST(0) once both are done.
StoreTo(S, toSt1, r) == IF toSt1 THEN SetSt(S, 0, r) ELSE Give(S, r)

try_fuse_fld_fstp(S, x, toSt1) ==
  LET B == StartNetZero(S) IN x87_end(StoreTo(B, toSt1, Operand(B, x)), 2)
try_fuse_fild_fistp(S, v)   == x87_end(Give(StartNetZero(S), v), 2)
try_fuse_fld_fstp_m80(S, v) == x87_end(Give(StartNetZero(S), v), 2)
\* k loads, then k stores: the stores see the loads in reverse.
try_fuse_fild_fistp_nested(S, vs) ==
  LET k == Len(vs)
  IN  x87_end(Give(StartNetZero(S), [j \in 1 .. k |-> vs[k + 1 - j]]), 2 * k)

\* y is the arithmetic's other operand as it is named before FLD's push.
try_fuse_fld_arith_fstp(S, x, k, y, toSt1) ==
  LET B == StartNetZero(S)
  IN  x87_end(StoreTo(B, toSt1, Arith(k, Operand(B, x), Operand(B, y))), 3)
try_fuse_fld_arith_arithp(S, x, k, y, kp) ==
  LET B == StartNetZero(S)
      r == Arith(k, Operand(B, x), Operand(B, y))
  IN  x87_end(SetSt(B, 0, Arith(kp, St(B, 0), r)), 3)

\* The status word in memory is read, given its condition code and written
\* back; with AX the value goes there too, its TOP patched in if memory's is
\* from before a pending push.
CompareOnto(S, c, toAX) ==
  LET F == emit_fcom_cc_write_sw(NetZero(S), c)
  IN  IF toAX THEN Give(F, <<IF keep_pending(S) THEN F.w ELSE F.top, F.cc>>)
      ELSE F
try_fuse_fld_fcomp_fstsw(S, x, y) ==
  LET B == Start(S)
  IN  x87_end(CompareOnto(B, Cmp(Operand(B, x), Operand(B, y)), TRUE), 3)
try_fuse_fld_fcomp(S, x, y) ==
  LET B == Start(S)
  IN  x87_end(CompareOnto(B, Cmp(Operand(B, x), Operand(B, y)), FALSE), 2)
try_fuse_fld_fcompp_fstsw(S, x) ==
  LET B == Start(S)
      P == x87_pop(emit_fcom_cc_write_sw(x87_flush_top(B),
                                         Cmp(Operand(B, x), St(B, 0))))
  IN  x87_end(Give(P, <<P.w, P.cc>>), 3)
\* The second FLD names registers past the first one's push.
try_fuse_fld_fld_fucompp(S, x1, x2, has_fstsw) ==
  LET B  == Start(S)
      v1 == Operand(B, x1)
      v2 == IF x2.mem THEN x2.v
            ELSE IF x2.i = 0 THEN v1 ELSE St(B, x2.i - 1)
  IN  x87_end(CompareOnto(B, Cmp(v2, v1), has_fstsw),
              IF has_fstsw THEN 4 ELSE 3)

-----------------------------------------------------------------------------
(* FXCH first.  The exchange takes one tick of the run ahead of time. *)

Absorb(S) == IF S.run > 0 THEN [S EXCEPT !.run = @ - 1] ELSE S

\* FXCH ST(1) and ST(1) op ST(0) is ST(1) op' ST(0), operands swapped.
try_fuse_fxch_arithp(S, k) ==
  IF k = "add" THEN translate_faddp(Absorb(S), 1)
  ELSE translate_fsubp(Absorb(S), 1, k = "sub")

try_fuse_fxch_fstp(S) == x87_end(x87_pop(x87_flush_top(Start(S))), 2)

\* pops is 0 for FCOM, 1 for FCOMP, 2 for FCOMPP.
try_fuse_fcom_fstsw(S, x, pops) ==
  LET B == Start(S)
      C == emit_fcom_cc_write_sw(x87_flush_top(B),
                                 Cmp(St(B, 0), Operand(B, x)))
      P == Pops(C, pops)
  IN  x87_end(Give(P, <<IF pops = 0 THEN C.top ELSE P.w, C.cc>>), 2)

\* The exchange is a permutation here even where FXCH does not defer.
Exchanged(S, i) == Absorb([S EXCEPT !.perm = swap(@, 0, i), !.pd = TRUE])
try_fuse_fxch_fcom_fstsw(S, i, x, pops) ==
  try_fuse_fcom_fstsw(Exchanged(S, i), x, pops)
try_fuse_fxch_fcom(S, i, x, pops) ==
  LET E == Exchanged(S, i)
  IN  CASE pops = 0 -> translate_fcom(E, x)
        [] pops = 1 -> translate_fcomp(E, x)
        [] OTHER    -> translate_fcompp(E)

-----------------------------------------------------------------------------
(* Arithmetic or FSTP first *)

try_fuse_arithp_fstp(S, k) ==
  LET B == Start(S)
  IN  x87_end(x87_pop_n(Give(B, Arith(k, St(B, 1), St(B, 0))), 2), 2)
try_fuse_arith_fstp(S, k, x) ==
  LET B == Start(S)
  IN  x87_end(x87_pop(Give(B, Arith(k, St(B, 0), Operand(B, x)))), 2)
try_fuse_fstp_arith_fstp(S, k, v) ==
  LET B == Start(S)
  IN  x87_end(x87_pop_n(Give(B, <<St(B, 0), Arith(k, St(B, 1), v)>>), 2), 3)
\* FMUL then FADDP, FSUBP or FSUBRP, contracted.
try_fuse_arith_faddp(S, x, k) ==
  LET B == Start(S)
      r == Arith(k, St(B, 1), Add(St(B, 0), Operand(B, x)))
  IN  x87_end(x87_pop(SetSt(B, 1, r)), 2)

\* FLD ST(i) is one deeper before the pop, and sees what FSTP stored.
try_fuse_fstp_fld(S, dst, x) ==
  LET B == StartNetZero(S)
      T == IF dst.mem THEN Give(B, St(B, 0)) ELSE SetSt(B, dst.i, St(B, 0))
  IN  x87_end(SetSt(T, 0, IF x.mem THEN x.v ELSE St(T, x.i + 1)), 2)
=============================================================================
