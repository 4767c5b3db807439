---------------------------- MODULE X87Handlers ----------------------------
(***************************************************************************)
(* The translators of single x87 instructions (TranslatorX87.cpp): each    *)
(* operator is one translate_* function, the helpers it calls in the order *)
(* it calls them.  An argument i is the logical depth of a register, v a   *)
(* value read from memory and x an operand that may be either.             *)
(***************************************************************************)
EXTENDS X87Cache

\* A read and a write of ST(d) as the program names it.
St(S, d)       == emit_load_st(S, resolve_depth(S, d))
SetSt(S, d, v) == emit_store_st(S, resolve_depth(S, d), v)

\* The value of an operand.
Operand(S, x) == IF x.mem THEN x.v ELSE St(S, x.i)

\* What the instruction hands to the guest, or that it hands over nothing.
Give(S, v) == [S EXCEPT !.out = v]
Start(S)   == Give(x87_begin(S), NoVal)

-----------------------------------------------------------------------------
(* Loads *)

\* The value is in a register before the push and stored after it.
PushValue(S, v) == x87_end(SetSt(x87_push(S), 0, v), 1)

translate_fldz(S)         == PushValue(Start(S), Zero)
translate_fld1(S)         == PushValue(Start(S), One)
translate_fld_const(S, v) == PushValue(Start(S), v)
translate_fld(S, x)       == LET B == Start(S) IN PushValue(B, Operand(B, x))
translate_fild(S, v)      == PushValue(Start(S), v)
translate_fbld(S, v)      == PushValue(Start(S), v)

-----------------------------------------------------------------------------
(* Arithmetic *)

\* ST(d) := r, nothing flushed before the end of the run.
Apply(S, d, r)    == x87_end(SetSt(S, d, r), 1)
\* The popping forms write ST(i) and pop.
ApplyPop(S, i, r) == x87_end(x87_pop(SetSt(S, i, r)), 1)

AddInto(S, d, x)      == Apply(S, d, Add(St(S, d), Operand(S, x)))
SubInto(S, d, x, rev) == Apply(S, d, SubR(rev, St(S, d), Operand(S, x)))

translate_fadd(S, d, x)      == AddInto(Start(S), d, x)
translate_faddp(S, i)        == LET B == Start(S)
                                IN  ApplyPop(B, i, Add(St(B, i), St(B, 0)))
translate_fmul(S, d, x)      == AddInto(Start(S), d, x)
translate_fmulp(S, i)        == LET B == Start(S)
                                IN  ApplyPop(B, i, Add(St(B, i), St(B, 0)))
translate_fsub(S, d, x, rev) == SubInto(Start(S), d, x, rev)
translate_fsubp(S, i, rev)   == LET B == Start(S)
                                IN  ApplyPop(B, i, SubR(rev, St(B, i), St(B, 0)))
translate_fdiv(S, d, x, rev) == SubInto(Start(S), d, x, rev)
translate_fdivp(S, i, rev)   == LET B == Start(S)
                                IN  ApplyPop(B, i, SubR(rev, St(B, i), St(B, 0)))
translate_fiadd(S, v)        == AddInto(Start(S), 0, Mem(v))
translate_fimul(S, v)        == AddInto(Start(S), 0, Mem(v))
translate_fisub(S, v)        == SubInto(Start(S), 0, Mem(v), FALSE)
translate_fisubr(S, v)       == SubInto(Start(S), 0, Mem(v), TRUE)
translate_fidiv(S, v)        == SubInto(Start(S), 0, Mem(v), FALSE)
translate_fidivr(S, v)       == SubInto(Start(S), 0, Mem(v), TRUE)

\* ST(0) := f(ST(0))
Rewrite(S) == Apply(S, 0, Un(St(S, 0)))
translate_fchs(S)    == Rewrite(Start(S))
translate_fabs(S)    == Rewrite(Start(S))
translate_fsqrt(S)   == Rewrite(Start(S))
translate_frndint(S) == Rewrite(Start(S))
translate_fsin(S)    == Rewrite(Start(S))
translate_fcos(S)    == Rewrite(Start(S))
translate_f2xm1(S)   == Rewrite(Start(S))

\* ST(0) := f(ST(0), ST(1)), ST(1) stays
translate_fscale(S) == SubInto(Start(S), 0, Reg(1), FALSE)
translate_fprem(S)  == SubInto(Start(S), 0, Reg(1), FALSE)
translate_fprem1(S) == SubInto(Start(S), 0, Reg(1), FALSE)

\* ST(1) := f(ST(1), ST(0)), then a pop
IntoSt1(S) == ApplyPop(S, 1, Sub(St(S, 1), St(S, 0)))
translate_fpatan(S)  == IntoSt1(Start(S))
translate_fyl2x(S)   == IntoSt1(Start(S))
translate_fyl2xp1(S) == IntoSt1(Start(S))

\* ST(0) is rewritten and a second value pushed: always at depth 0, which is
\* ST(0) because the push has flushed the permutation.
PushSecond(S, v) == x87_end(emit_store_st(x87_push(S), 0, v), 1)
translate_fptan(S) ==
  LET B == Start(S) IN PushSecond(SetSt(B, 0, Un(St(B, 0))), One)
translate_fsincos(S) ==
  LET B == Start(S) IN PushSecond(SetSt(B, 0, Un(St(B, 0))), Vn(St(B, 0)))
\* FXTRACT writes the exponent at depth 0 before the push, whatever register
\* ST(0) is.
translate_fxtract(S) ==
  LET B == Start(S)
  IN  PushSecond(emit_store_st(B, 0, Un(St(B, 0))), Vn(St(B, 0)))

-----------------------------------------------------------------------------
(* Stores *)

StoreOut(S)    == x87_end(Give(S, St(S, 0)), 1)
StoreOutPop(S) == x87_end(x87_pop(Give(S, St(S, 0))), 1)

translate_fst(S)      == StoreOut(Start(S))
translate_fstp(S)     == StoreOutPop(Start(S))
translate_fist(S)     == StoreOut(Start(S))
translate_fistp(S)    == StoreOutPop(Start(S))
translate_fisttp(S)   == StoreOutPop(Start(S))
translate_fbstp(S)    == StoreOutPop(Start(S))

CopySt(S, i) == IF i = 0 THEN S ELSE SetSt(S, i, St(S, 0))
translate_fst_sti(S, i)  == x87_end(CopySt(Start(S), i), 1)
translate_fstp_sti(S, i) == x87_end(x87_pop(CopySt(Start(S), i)), 1)

-----------------------------------------------------------------------------
(* Comparisons and status *)

\* emit_fcom_cc_write_sw changes the condition code bits of the status word
\* in memory and leaves its TOP field as it is there.
emit_fcom_cc_write_sw(S, c) == [S EXCEPT !.cc = c]
Compare(S, x) == emit_fcom_cc_write_sw(S, Cmp(St(S, 0), Operand(S, x)))

translate_fcom(S, x)  == x87_end(Compare(Start(S), x), 1)
translate_fcomp(S, x) == x87_end(x87_pop(Compare(Start(S), x)), 1)
translate_fcompp(S)   == x87_end(x87_pop_n(Compare(Start(S), Reg(1)), 2), 1)
translate_ficom(S, v)  == x87_end(Compare(Start(S), Mem(v)), 1)
translate_ficomp(S, v) == x87_end(x87_pop(Compare(Start(S), Mem(v))), 1)
translate_ftst(S) ==
  x87_end(Compare(x87_flush_top(x87_flush_tags(Start(S))), Mem(Zero)), 1)

\* FCOMI sets the guest's flags and leaves the status word alone.
translate_fcomi(S, i) ==
  LET B == Start(S) IN x87_end(Give(B, Cmp(St(B, 0), St(B, i))), 1)
translate_fcomip(S, i) ==
  LET B == Start(S)
  IN  x87_end(x87_pop(Give(B, Cmp(St(B, 0), St(B, i)))), 1)

translate_fcmov(S, i, taken) ==
  LET F == x87_flush_top(x87_flush_tags(Start(S)))
  IN  x87_end(SetSt(F, 0, IF taken THEN St(F, i) ELSE St(F, 0)), 1)

\* FXAM reads the tag of the register at TOP, and a value if it has one.
translate_fxam(S) ==
  LET B == Start(S)
      F == IF B.gv THEN x87_flush_pending_tag(x87_flush_top(B)) ELSE B
  IN  x87_end(emit_fcom_cc_write_sw(F,
        IF F.tag[F.w] THEN Un(St(F, 0)) ELSE NoVal), 1)

\* FSTSW neither begins nor ends like the others: it never loads TOP, and
\* flushes only when the run has pinned registers.  The permutation stays.
translate_fstsw(S) ==
  LET F == IF S.run > 0 /\ S.gv
           THEN x87_flush_tags(x87_flush_top(S)) ELSE S
  IN  Give(F, <<F.top, F.cc>>)

translate_fldcw(S)  == x87_end(x87_flush_top(Start(S)), 1)
translate_fnstcw(S) == x87_end(Start(S), 1)
translate_fnop(S)   == x87_end(Start(S), 1)

-----------------------------------------------------------------------------
(* The stack itself *)

\* Faulty: half of an exchange.
swap_half(f, i, j) == [f EXCEPT ![i] = f[j]]
swap(f, i, j) == [f EXCEPT ![i] = f[j], ![j] = f[i]]

translate_fxch(S, i) ==
  LET B == Start(S) IN
  x87_end(IF i = 0 THEN B
          ELSE IF B.run > 0 /\ DeferFxch
          THEN [B EXCEPT !.perm = swap(@, 0, i), !.pd = TRUE]
          ELSE [B EXCEPT !.st = swap(@, Phys(B.w, 0), Phys(B.w, i))], 1)

\* FINCSTP and FDECSTP move TOP and no tag.
MoveTop(S, t) == x87_end([S EXCEPT !.w = t, !.td = TRUE], 1)
FlushForMove(S) == x87_flush_tags(perm_flush_before_stack_change(S))
translate_fdecstp(S) == LET F == FlushForMove(Start(S)) IN MoveTop(F, Dec(F.w))
translate_fincstp(S) == LET F == FlushForMove(Start(S)) IN MoveTop(F, Inc(F.w))

\* FFREE frees the register the value of ST(i) is in.
translate_ffree(S, i) ==
  LET B == Start(S)
      F == x87_flush_tags(B)
  IN  x87_end([F EXCEPT !.tag[Phys(F.w, resolve_depth(B, i))] = FALSE], 1)

\* FRSTOR replaces everything the deferred updates were for.
translate_frstor(S, img) ==
  LET B == IF S.run = 0 THEN Give(S, NoVal)
           ELSE reset_perm([Start(S) EXCEPT !.td = FALSE, !.tpp = FALSE,
                                            !.dpc = 0])
      R == [B EXCEPT !.top = img.top, !.w = img.top, !.tag = img.tag,
                     !.cc = img.cc, !.st = img.st]
  IN  IF S.run = 0 THEN R ELSE x87_end(R, 1)

\* FSAVE stores the state and leaves the one FNINIT does.
FileImage(S) == [top |-> S.top, tag |-> S.tag, cc |-> S.cc,
                 st |-> [p \in Slots |-> IF S.tag[p] THEN S.st[p] ELSE NoVal]]
translate_fsave(S) ==
  LET F == perm_flush_before_stack_change(x87_flush_tags(
             x87_flush_top(Start(S))))
  IN  x87_end([Give(F, FileImage(F))
                 EXCEPT !.top = 0, !.w = 0, !.cc = NoVal, !.td = FALSE,
                        !.tag = [p \in Slots |-> FALSE]], 1)
=============================================================================
