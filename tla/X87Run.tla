------------------------------ MODULE X87Run ------------------------------
(***************************************************************************)
(* Runs of x87 instructions: one reply of the translator after another,    *)
(* the code of each executed as it is emitted, next to the architectural   *)
(* machine (X87Arch) executing the same instructions.                      *)
(*                                                                         *)
(* A reply covers a run of consecutive x87 instructions                    *)
(* (Translator::translate_instruction): while the cache is active the      *)
(* reply goes on with the next one.  Between replies the guest runs other  *)
(* code, takes signals, leaves the block or lets stock translate an x87    *)
(* instruction, all of which see only the state in memory.                 *)
(***************************************************************************)
EXTENDS X87Fusions, FiniteSets

CONSTANTS
  MaxRun,    \* bound on the instructions lookahead finds in a row
  Images,    \* memory images FRSTOR reads
  Shun       \* instruction pairs the program does not contain (below)

ASSUME MaxRunAssumption == MaxRun \in Nat \ {0}
ASSUME ImagesAssumption == \A img \in Images :
  /\ img.top \in Slots /\ img.tag \in [Slots -> BOOLEAN]
  /\ img.st \in [Slots -> Vals] /\ img.cc \in Vals \cup {NoVal}

(***************************************************************************)
(* Sequences on which the translator and the architecture part ways.  Runs *)
(* that check what holds shun all of them, runs that show a divergence     *)
(* admit one.                                                              *)
(***************************************************************************)
Divergent == {
  "fxch_ffree",     \* FFREE while a deferred FXCH is pending
  "fxch_fxtract",   \* FXTRACT while a deferred FXCH is pending
  "fxch_fstsw",     \* FSTSW as a run's last instruction, an FXCH pending
  "pops_fxam",            \* FXAM with the pop of every register deferred
  "fxch_fused_twice",     \* an FXCH fusion next to the end of its run
  "fxch_fcomp_uncached",  \* FXCH fused with FCOMP while no run is active
  "fxch_fused_eager" }    \* an FXCH at once, one fused with FCOM pending

ASSUME ShunAssumption == Shun \subseteq Divergent

VARIABLES
  s,          \* the translator state, as X87Cache describes it
  todo,       \* consecutive x87 instructions left in front of the guest
  replying,   \* a reply is being built
  arch        \* the architectural machine

vars == <<s, todo, replying, arch>>

-----------------------------------------------------------------------------
(* Steps *)

\* TOP's register belongs to someone else once the run has ended.
Release(S) == IF S.run > 0 THEN S ELSE [S EXCEPT !.w = 0]

\* n instructions are answered: T is the state their translators leave, a
\* the machine after them.
Answer(n, T, a) ==
  /\ replying
  /\ n <= todo
  /\ LET U == tick(T, n)
     IN  /\ s' = Release(U)
         /\ replying' = active(U)
  /\ todo' = todo - n
  /\ arch' = a

\* One instruction.
Do(T, a) == Answer(1, T, a)

\* The machine the next instruction works on.
Q == A!Quiet(arch)

\* What the program may do: it neither overflows nor underflows the stack.
Room       == A!Room(arch)
Full(d)    == A!Full(arch, d)
Depths     == {d \in Slots : Full(d)}
X(d)       == A!St(arch, d)
Operands   == {Mem(v) : v \in Vals} \cup {Reg(i) : i \in Depths}

\* FXCH may have moved registers that memory does not show moved.
PermPending == s.pd

-----------------------------------------------------------------------------
(* Loads *)

Fldz  == Room /\ Do(translate_fldz(s), A!PushSt(Q, Zero))
Fld1  == Room /\ Do(translate_fld1(s), A!PushSt(Q, One))
FldMem == \E v \in Vals :
  Room /\ \/ Do(translate_fld_const(s, v), A!PushSt(Q, v))
          \/ Do(translate_fild(s, v), A!PushSt(Q, v))
          \/ Do(translate_fbld(s, v), A!PushSt(Q, v))
Fld == \E x \in Operands : Room /\ Do(translate_fld(s, x), A!Fld(Q, x))

-----------------------------------------------------------------------------
(* Arithmetic *)

\* Destination and source: one is ST(0), the other any operand.
DestSrc == ({0} \X Operands) \cup (Depths \X {Reg(0)})

Fadd == \E p \in DestSrc :
  /\ Full(0)
  /\ LET a == A!Set(Q, p[1], Add(X(p[1]), A!Val(Q, p[2])))
     IN  \/ Do(translate_fadd(s, p[1], p[2]), a)
         \/ Do(translate_fmul(s, p[1], p[2]), a)
Fsub == \E p \in DestSrc, rev \in BOOLEAN :
  /\ Full(0)
  /\ LET a == A!Set(Q, p[1], SubR(rev, X(p[1]), A!Val(Q, p[2])))
     IN  \/ Do(translate_fsub(s, p[1], p[2], rev), a)
         \/ Do(translate_fdiv(s, p[1], p[2], rev), a)
FiaddMem == \E v \in Vals :
  /\ Full(0)
  /\ LET a == A!Farith(Q, "add", Mem(v))
     IN  Do(translate_fiadd(s, v), a) \/ Do(translate_fimul(s, v), a)
FisubMem == \E v \in Vals :
  /\ Full(0)
  /\ \/ Do(translate_fisub(s, v), A!Set(Q, 0, Sub(X(0), v)))
     \/ Do(translate_fidiv(s, v), A!Set(Q, 0, Sub(X(0), v)))
     \/ Do(translate_fisubr(s, v), A!Set(Q, 0, Sub(v, X(0))))
     \/ Do(translate_fidivr(s, v), A!Set(Q, 0, Sub(v, X(0))))
Faddp == \E i \in Depths \ {0} :
  /\ Full(0)
  /\ LET a == A!PopSt(A!Set(Q, i, Add(X(i), X(0))))
     IN  \/ Do(translate_faddp(s, i), a)
         \/ Do(translate_fmulp(s, i), a)
Fsubp == \E i \in Depths \ {0}, rev \in BOOLEAN :
  /\ Full(0)
  /\ LET a == A!PopSt(A!Set(Q, i, SubR(rev, X(i), X(0))))
     IN  \/ Do(translate_fsubp(s, i, rev), a)
         \/ Do(translate_fdivp(s, i, rev), a)

Unary ==
  /\ Full(0)
  /\ LET a == A!Set(Q, 0, Un(X(0)))
     IN  \/ Do(translate_fchs(s), a)
         \/ Do(translate_fabs(s), a)
         \/ Do(translate_fsqrt(s), a)
         \/ Do(translate_frndint(s), a)
         \/ Do(translate_fsin(s), a)
         \/ Do(translate_fcos(s), a)
         \/ Do(translate_f2xm1(s), a)
Scale ==
  /\ Full(0) /\ Full(1)
  /\ LET a == A!Set(Q, 0, Sub(X(0), X(1)))
     IN  \/ Do(translate_fscale(s), a)
         \/ Do(translate_fprem(s), a)
         \/ Do(translate_fprem1(s), a)
IntoOne ==
  /\ Full(0) /\ Full(1)
  /\ LET a == A!PopSt(A!Set(Q, 1, Sub(X(1), X(0))))
     IN  \/ Do(translate_fpatan(s), a)
         \/ Do(translate_fyl2x(s), a)
         \/ Do(translate_fyl2xp1(s), a)
Fptan ==
  /\ Room /\ Full(0)
  /\ Do(translate_fptan(s), A!PushSt(A!Set(Q, 0, Un(X(0))), One))
Fsincos ==
  /\ Room /\ Full(0)
  /\ Do(translate_fsincos(s), A!PushSt(A!Set(Q, 0, Un(X(0))), Vn(X(0))))
Fxtract ==
  /\ Room /\ Full(0)
  /\ "fxch_fxtract" \in Shun => ~PermPending
  /\ Do(translate_fxtract(s), A!PushSt(A!Set(Q, 0, Un(X(0))), Vn(X(0))))

-----------------------------------------------------------------------------
(* Stores *)

Fst ==
  /\ Full(0)
  /\ LET a == A!Give(Q, X(0))
     IN  Do(translate_fst(s), a) \/ Do(translate_fist(s), a)
Fstp ==
  /\ Full(0)
  /\ LET a == A!PopSt(A!Give(Q, X(0)))
     IN  \/ Do(translate_fstp(s), a)
         \/ Do(translate_fistp(s), a)
         \/ Do(translate_fisttp(s), a)
         \/ Do(translate_fbstp(s), a)
FstSti == \E i \in Depths :
  Full(0) /\ Do(translate_fst_sti(s, i), A!Set(Q, i, X(0)))
FstpSti == \E i \in Depths :
  Full(0) /\ Do(translate_fstp_sti(s, i), A!PopSt(A!Set(Q, i, X(0))))

-----------------------------------------------------------------------------
(* Comparisons and status *)

Fcom == \E x \in Operands :
  Full(0) /\ Do(translate_fcom(s, x), A!Fcom(Q, x, 0))
Fcomp == \E x \in Operands :
  Full(0) /\ Do(translate_fcomp(s, x), A!Fcom(Q, x, 1))
Fcompp ==
  Full(0) /\ Full(1) /\ Do(translate_fcompp(s), A!Fcom(Q, Reg(1), 2))
Ficom == \E v \in Vals :
  Full(0) /\ Do(translate_ficom(s, v), A!Compare(Q, v))
Ficomp == \E v \in Vals :
  Full(0) /\ Do(translate_ficomp(s, v), A!PopSt(A!Compare(Q, v)))
Ftst == Full(0) /\ Do(translate_ftst(s), A!Compare(Q, Zero))
Fcomi == \E i \in Depths :
  Full(0) /\ Do(translate_fcomi(s, i), A!Give(Q, Cmp(X(0), X(i))))
Fcomip == \E i \in Depths :
  Full(0) /\ Do(translate_fcomip(s, i),
                A!PopSt(A!Give(Q, Cmp(X(0), X(i)))))
Fcmov == \E i \in Depths, taken \in BOOLEAN :
  Full(0) /\ Do(translate_fcmov(s, i, taken),
                A!Set(Q, 0, IF taken THEN X(i) ELSE X(0)))
\* The one instruction that may find ST(0) empty.
Fxam ==
  /\ "pops_fxam" \in Shun => s.dpc < NSlots
  /\ Do(translate_fxam(s),
        [Q EXCEPT !.cc = IF Full(0) THEN Un(X(0)) ELSE NoVal])
Fstsw ==
  /\ "fxch_fstsw" \in Shun => ~(PermPending /\ s.run = 1)
  /\ Do(translate_fstsw(s), A!Fstsw(Q))
Control == \/ Do(translate_fldcw(s), Q)
           \/ Do(translate_fnstcw(s), Q)
           \/ Do(translate_fnop(s), Q)

-----------------------------------------------------------------------------
(* The stack itself *)

Fxch == \E i \in Depths :
  /\ Full(0)
  /\ "fxch_fused_eager" \in Shun => DeferFxch \/ ~PermPending
  /\ Do(translate_fxch(s, i), A!Xch(Q, i))
Fdecstp == Do(translate_fdecstp(s), [Q EXCEPT !.top = Dec(@)])
Fincstp == Do(translate_fincstp(s), [Q EXCEPT !.top = Inc(@)])
Ffree == \E i \in Slots :
  /\ "fxch_ffree" \in Shun => ~PermPending
  /\ Do(translate_ffree(s, i), A!FreeSt(Q, i))
Frstor == \E img \in Images : Do(translate_frstor(s, img), A!FromImage(img))
Fsave == Do(translate_fsave(s), A!Give(A!Empty, A!Image(arch)))

-----------------------------------------------------------------------------
(* Fusions: a reply's next two to six instructions at once *)

FusedFldArithp == \E x \in Operands, k \in ArithOps :
  /\ Room /\ Full(0)
  /\ Answer(2, try_fuse_fld_arithp(s, x, k), A!Farithp(A!Fld(Q, x), k))
FusedFldArith == \E x \in Operands, k \in ArithOps, v \in Vals :
  /\ Room
  /\ Answer(2, try_fuse_fld_arith(s, x, k, v),
            A!Farith(A!Fld(Q, x), k, Mem(v)))

\* To memory, or to what was ST(0) before the load.
FstpBehind(a, toSt1) == IF toSt1 THEN A!FstpSti(a, 1) ELSE A!Fstp(a)
FusedFldFstp == \E x \in Operands, toSt1 \in BOOLEAN :
  /\ Room /\ (toSt1 => Full(0))
  /\ Answer(2, try_fuse_fld_fstp(s, x, toSt1),
            FstpBehind(A!Fld(Q, x), toSt1))
FusedExactCopy == \E v \in Vals :
  /\ Room
  /\ LET a == A!Fstp(A!Fld(Q, Mem(v)))
     IN  \/ Answer(2, try_fuse_fild_fistp(s, v), a)
         \/ Answer(2, try_fuse_fld_fstp_m80(s, v), a)
\* Two values or three, each store popping what the last load pushed.
FusedNestedCopy == \E v1, v2 \in Vals :
  LET a1 == A!Fld(Q, Mem(v1))
      a2 == A!Fld(a1, Mem(v2))
  IN  /\ Room /\ A!Room(a1)
      /\ \/ Answer(4, try_fuse_fild_fistp_nested(s, <<v1, v2>>),
                   A!Give(A!Fstp(A!Fstp(a2)), <<v2, v1>>))
         \/ /\ A!Room(a2)
            /\ \E v3 \in Vals :
                 Answer(6, try_fuse_fild_fistp_nested(s, <<v1, v2, v3>>),
                   A!Give(A!Fstp(A!Fstp(A!Fstp(A!Fld(a2, Mem(v3))))),
                          <<v3, v2, v1>>))

\* The second operand of what follows FLD: ST(1), or memory.
Behind == {Mem(v) : v \in Vals} \cup IF Full(0) THEN {Reg(0)} ELSE {}
Deeper(y) == IF y.mem THEN y ELSE Reg(y.i + 1)

FusedFldArithFstp ==
  \E x \in Operands, k \in ArithOps, y \in Behind, toSt1 \in BOOLEAN :
    /\ Room /\ (toSt1 => Full(0))
    /\ Answer(3, try_fuse_fld_arith_fstp(s, x, k, y, toSt1),
              FstpBehind(A!Farith(A!Fld(Q, x), k, Deeper(y)), toSt1))
FusedFldArithArithp ==
  \E x \in Operands, k, kp \in ArithOps, y \in Behind :
    /\ Room /\ Full(0)
    /\ Answer(3, try_fuse_fld_arith_arithp(s, x, k, y, kp),
              A!Farithp(A!Farith(A!Fld(Q, x), k, Deeper(y)), kp))
FusedFldFcomp == \E x \in Operands, y \in Behind :
  /\ Room
  /\ LET a == A!Fcom(A!Fld(Q, x), Deeper(y), 1)
     IN  \/ Answer(2, try_fuse_fld_fcomp(s, x, y), a)
         \/ Answer(3, try_fuse_fld_fcomp_fstsw(s, x, y), A!Fstsw(a))
FusedFldFcompp == \E x \in Operands :
  /\ Room /\ Full(0)
  /\ Answer(3, try_fuse_fld_fcompp_fstsw(s, x),
            A!Fstsw(A!Fcom(A!Fld(Q, x), Reg(1), 2)))
FusedFldFldFcompp == \E x1 \in Operands :
  LET a1 == A!Fld(Q, x1) IN
  /\ Room /\ A!Room(a1)
  /\ \E x2 \in {Mem(v) : v \in Vals} \cup {Reg(i) : i \in Slots} :
       /\ ~x2.mem => A!Full(a1, x2.i)
       /\ LET a == A!Fcom(A!Fld(a1, x2), Reg(1), 2)
          IN  \/ Answer(3, try_fuse_fld_fld_fucompp(s, x1, x2, FALSE), a)
              \/ Answer(4, try_fuse_fld_fld_fucompp(s, x1, x2, TRUE),
                        A!Fstsw(a))

\* FXCH takes its tick before the rest of a fusion of n instructions, and
\* the reply counts all n.
CountsOnce(n) == "fxch_fused_twice" \in Shun => s.run \notin {1, n + 1}
FusedFxchArithp == \E k \in ArithOps :
  /\ Full(0) /\ Full(1) /\ CountsOnce(2)
  /\ Answer(2, try_fuse_fxch_arithp(s, k), A!Farithp(A!Xch(Q, 1), k))
FusedFxchFstp ==
  /\ Full(0) /\ Full(1)
  /\ Answer(2, try_fuse_fxch_fstp(s), A!FstpSti(A!Xch(Q, 1), 1))
\* A comparison with any operand that pops at most once, or FCOMPP.
Comparisons == (Operands \X {0, 1}) \cup IF Full(1) THEN {<<Reg(1), 2>>} ELSE {}
FusedFcomFstsw == \E c \in Comparisons :
  /\ Full(0)
  /\ Answer(2, try_fuse_fcom_fstsw(s, c[1], c[2]),
            A!Fstsw(A!Fcom(Q, c[1], c[2])))
FusedFxchFcom == \E i \in Depths \ {0}, c \in Comparisons :
  /\ Full(0)
  /\ "fxch_fcomp_uncached" \in Shun => s.run > 0 \/ c[2] = 0
  /\ LET a == A!Fcom(A!Xch(Q, i), c[1], c[2])
     IN  \/ /\ CountsOnce(2)
            /\ Answer(2, try_fuse_fxch_fcom(s, i, c[1], c[2]), a)
         \/ /\ CountsOnce(3)
            /\ Answer(3, try_fuse_fxch_fcom_fstsw(s, i, c[1], c[2]),
                      A!Fstsw(a))

FusedArithpFstp == \E k \in ArithOps :
  /\ Full(0) /\ Full(1)
  /\ Answer(2, try_fuse_arithp_fstp(s, k), A!Fstp(A!Farithp(Q, k)))
FusedArithFstp == \E k \in ArithOps, x \in Operands :
  /\ Full(0)
  /\ Answer(2, try_fuse_arith_fstp(s, k, x), A!Fstp(A!Farith(Q, k, x)))
FusedFstpArithFstp == \E k \in ArithOps, v \in Vals :
  /\ Full(0) /\ Full(1)
  /\ LET a == A!Fstp(A!Farith(A!Fstp(Q), k, Mem(v)))
     IN  Answer(3, try_fuse_fstp_arith_fstp(s, k, v),
                A!Give(a, <<X(0), a.out>>))
FusedArithFaddp == \E x \in Operands, k \in ArithOps :
  /\ Full(0) /\ Full(1)
  /\ Answer(2, try_fuse_arith_faddp(s, x, k),
            A!Farithp(A!Farith(Q, "add", x), k))
FusedFstpFld == \E dst \in {Mem(Zero)} \cup {Reg(i) : i \in Depths} :
  LET p == IF dst.mem THEN A!Fstp(Q) ELSE A!FstpSti(Q, dst.i) IN
  /\ Full(0)
  /\ \E x \in {Mem(v) : v \in Vals} \cup {Reg(i) : i \in Slots} :
       /\ ~x.mem => A!Full(p, x.i)
       /\ Answer(2, try_fuse_fstp_fld(s, dst, x),
                 A!Fld(p, x))

-----------------------------------------------------------------------------
(* Replies *)

(***************************************************************************)
(* A request arrives.  Right behind the previous reply it finds the rest   *)
(* of the same run; otherwise the guest has done something else in between *)
(* and lookahead finds n instructions, in the same block or in a new one.  *)
(* Only a new block invalidates the cache.                                 *)
(***************************************************************************)
Request(n, sameBlock) ==
  /\ ~replying
  /\ IF todo > 0 THEN n = todo /\ sameBlock ELSE n \in 1 .. MaxRun
  /\ s' = LET I == IF sameBlock THEN s ELSE invalidate(s)
          IN  IF CacheEnabled THEN set_run(I, n) ELSE I
  /\ todo' = n
  /\ replying' = TRUE
  /\ UNCHANGED arch

\* An instruction inside the run comes back declined: flush_run_and_release,
\* and stock continues from memory.
flush_run_and_release(S) ==
  tick(x87_end(x87_begin([S EXCEPT !.run = 1]), 1), 1)
DeclineMidRun ==
  /\ replying
  /\ active(s)
  /\ s' = Release(flush_run_and_release(s))
  /\ todo' = 0
  /\ replying' = FALSE
  /\ UNCHANGED arch

\* FNINIT goes to stock, which works on memory and knows no cache.
StockFinit ==
  /\ ~replying
  /\ todo = 0
  /\ s' = [s EXCEPT !.top = 0, !.tag = [p \in Slots |-> FALSE], !.cc = NoVal,
                    !.out = NoVal]
  /\ arch' = A!Empty
  /\ UNCHANGED <<todo, replying>>

Init ==
  /\ \E st0 \in [Slots -> Vals] :
       s = [top |-> 0, tag |-> [p \in Slots |-> FALSE], st |-> st0,
            cc |-> NoVal, w |-> 0, run |-> 0, gv |-> FALSE, td |-> FALSE,
            tpp |-> FALSE, dpc |-> 0, perm |-> Identity, pd |-> FALSE,
            out |-> NoVal]
  /\ todo = 0
  /\ replying = FALSE
  /\ arch = A!Empty

Next ==
  \/ \E n \in 1 .. MaxRun, sameBlock \in BOOLEAN : Request(n, sameBlock)
  \/ DeclineMidRun \/ StockFinit
  \/ Fldz \/ Fld1 \/ FldMem \/ Fld
  \/ Fadd \/ Fsub \/ FiaddMem \/ FisubMem \/ Faddp \/ Fsubp
  \/ Unary \/ Scale \/ IntoOne \/ Fptan \/ Fsincos \/ Fxtract
  \/ Fst \/ Fstp \/ FstSti \/ FstpSti
  \/ Fcom \/ Fcomp \/ Fcompp \/ Ficom \/ Ficomp \/ Ftst \/ Fcomi \/ Fcomip
  \/ Fcmov \/ Fxam \/ Fstsw \/ Control
  \/ FusedFldArithp \/ FusedFldArith \/ FusedFldFstp \/ FusedExactCopy
  \/ FusedNestedCopy \/ FusedFldArithFstp \/ FusedFldArithArithp
  \/ FusedFldFcomp \/ FusedFldFcompp \/ FusedFldFldFcompp
  \/ FusedFxchArithp \/ FusedFxchFstp \/ FusedFcomFstsw \/ FusedFxchFcom
  \/ FusedArithpFstp \/ FusedArithFstp \/ FusedFstpArithFstp
  \/ FusedArithFaddp \/ FusedFstpFld
  \/ Fxch \/ Fdecstp \/ Fincstp \/ Ffree \/ Frstor \/ Fsave

Spec == Init /\ [][Next]_vars

-----------------------------------------------------------------------------
(* Properties *)

\* The fields keep their types: TOP and its register name registers, at most
\* every register has a pop pending, and the permutation is one.
TypeOK ==
  /\ TypedState(s)
  /\ s.run <= MaxRun /\ todo \in 0 .. MaxRun
  /\ replying \in BOOLEAN

\* Whatever the translator has put off, memory and the cache together hold
\* the state the instructions so far were to produce, and the guest has been
\* handed what it was to be handed (the OPT-C, OPT-D, OPT-D2 and OPT-G
\* deferrals of TranslatorX87Internal.hpp change no result).
Simulates == Live(s) = arch

\* "The only entries are the run's start and its end, where x87_end has
\* flushed everything" (Translator.cpp:657-667): between replies, where a
\* signal handler, stock or the next block looks, memory alone is the
\* architectural state and no deferral is left behind.
MapEntry ==
  ~replying =>
    /\ s.top = arch.top /\ s.tag = arch.tag /\ s.cc = arch.cc
    /\ \A p \in Slots : s.tag[p] => s.st[p] = arch.st[p]
    /\ ~s.gv /\ ~s.td /\ ~s.tpp /\ s.dpc = 0
    /\ ~s.pd /\ s.perm = Identity

\* The run the cache counts down never outlasts the instructions in front of
\* the guest, and it is over when the reply is: a run that outlived its reply
\* would keep TOP in a register across stock's code
\* (Translator::translate_instruction's loop, X87Cache::set_run and tick).
RunBound ==
  /\ s.run <= todo
  /\ replying => todo > 0
  /\ ~replying => ~active(s)

\* A pending tag and pending pops are never outstanding together (x87_push
\* flushes both, x87_pop cancels the one before it counts the other), and
\* cancelling a push and a pop finds the TOP before the push in memory
\* (x87_pop, TranslatorX87Internal.hpp:251-256).
Exclusive == Consistent(s)

\* All of them: the inductive invariant.
Inv == TypeOK /\ RunBound /\ Exclusive /\ Simulates
=============================================================================
