---------------------------- MODULE MCX87Region ----------------------------
(* Programs of a few instructions over themes: each theme has the letters  *)
(* a program is written in and the configuration it is translated with.    *)
EXTENDS X87Region

\* Arithmetic modulo a prime; the operations are told apart by their
\* coefficients.  Values from p on are integers a load brought in, which an
\* integer store gives back unrounded.
p == 97
Mod(n) == n % p
MCVals  == 0 .. 2 * p - 1
MCRaw   == 0 .. p - 1
MCNoVal == -1

MCFAdd(a, b) == Mod(a + b + 1)
MCFSub(a, b) == Mod(a + 96 * b)
MCUn(a) == Mod(7 * a + 2)
MCVn(a) == Mod(11 * a + 3)
MCCmp(a, b) == IF a < b THEN 0 ELSE IF a = b THEN 1 ELSE 2
MCBin(op, a, b) ==
  CASE op = "FAdd"   -> MCFAdd(a, b)
    [] op = "FSub"   -> MCFSub(a, b)
    [] op = "FMul"   -> Mod(3 * a * b + 2 * (a + b) + 5)
    [] op = "FDiv"   -> Mod(a + 5 * b + 7 * a * b)
    [] op = "FPatan" -> Mod(2 * a + 9 * b + 1)
    [] op = "FYl2x"  -> Mod(4 * a + 13 * b + 2)
    [] op = "FScale" -> Mod(6 * a + 17 * b + 3)
MCUna(op, a) ==
  CASE op = "FNeg"  -> Mod(96 * a)
    [] op = "FAbs"  -> Mod(5 * a + 1)
    [] op = "FSqrt" -> Mod(8 * a + 4)
    [] op = "F2xm1" -> MCUn(a)
    [] op = "FSin"  -> Mod(10 * a + 5)
    [] op = "FCos"  -> Mod(12 * a + 6)
    [] op = "FPtan" -> Mod(14 * a + 7)
MCLoadAs(w, r) ==
  CASE w = "LoadF64" -> r
    [] w = "LoadF32" -> Mod(3 * r + 1)
    [] w = "LoadI16" -> Mod(5 * r + 2)
    [] w = "LoadI32" -> Mod(9 * r + 3)
    [] w = "LoadM80" -> Mod(15 * r + 4)
    [] w = "LoadI64" -> p + r
Modes == <<"nearest", "down", "up", "chop">>
Mode(rc) == CHOOSE n \in 1 .. 4 : Modes[n] = rc
MCStoreAs(w, rc, v) ==
  CASE w = "StoreF64" -> Mod(v)
    [] w = "StoreI64" -> IF v >= p THEN v - p ELSE Mod(7 * v + 11 * Mode(rc) + 1)
    [] w = "StoreF32" -> Mod(13 * v + 2)
    [] w = "StoreI16" -> Mod(16 * v + 19 * Mode(rc) + 3)
    [] w = "StoreI32" -> Mod(18 * v + 23 * Mode(rc) + 4)
    [] w = "StoreM80" -> Mod(20 * v + 5)
MCRnd(rc, v) == Mod(21 * v + 29 * Mode(rc) + 6)
MCRC(cw) == Modes[1 + (cw % 3)]
MCCompareFlags(a, b) == MCCmp(a, b)
MCTaken(cond, f) == IF cond = "PF" THEN f = 1 ELSE f = 2
MCAlu(kind, a, b) ==
  CASE kind = "add" -> Mod(a + b) [] kind = "sub" -> Mod(a + 96 * b) [] OTHER -> Mod(5 * a + 3 * b)
MCAluFlags(v) == v % 3
MCExtend(class, v) == Mod(25 * v + 8)
MCNarrow(v) == v % 64
MCStatus(r, t, c) == Mod(r + 30 * t + 3 * c + 9)

\* A cell every four bytes.
MCCells == 0 .. 7
MCCell(base, disp) == (base + disp \div 4) % 8

-----------------------------------------------------------------------------
(* Letters *)

Base == 1
M(disp) == [base |-> Base, disp |-> disp, index |-> FALSE, seg |-> FALSE]
Fld(w, d)  == [k |-> "fldm", w |-> w, o |-> M(d)]
FldSt(i)   == [k |-> "fld", i |-> i]
Const(v)   == [k |-> "const", v |-> v]
FstSt(i, q) == [k |-> "fst", i |-> i, pop |-> q]
Fst(w, d, q) == [k |-> "fstm", w |-> w, o |-> M(d), pop |-> q]
Fist(w, d, q, t) == [k |-> "fist", w |-> w, o |-> M(d), pop |-> q, trunc |-> t]
Ar(op, r, d, x) == [k |-> "arith", op |-> op, rev |-> r, d |-> d, s |-> x]
ArM(op, r, w, d) == [k |-> "arithm", op |-> op, rev |-> r, w |-> w, o |-> M(d)]
ArP(op, r, d) == [k |-> "arithp", op |-> op, rev |-> r, d |-> d]
Un1(op)    == [k |-> "unary", op |-> op]
Op0(k)     == [k |-> k]
Fxch(i)    == [k |-> "fxch", i |-> i]
Fcom(i, n) == [k |-> "fcom", i |-> i, pops |-> n]
Trig(op)   == [k |-> "trig", op |-> op]
BinPop(op) == [k |-> "binpop", op |-> op]
Fcomi(i, q) == [k |-> "fcomi", i |-> i, pop |-> q]
Fcmov(c, i) == [k |-> "fcmov", cond |-> c, i |-> i]
Cw(k, d)   == [k |-> k, o |-> M(d)]
Mov(d, x)  == [k |-> "mov", d |-> d, s |-> x, wide |-> FALSE]
Load(r, d)  == [k |-> "load", d |-> r, o |-> M(d), wide |-> FALSE]
Store(r, d) == [k |-> "store", s |-> r, o |-> M(d), wide |-> TRUE]
AluI(r, v, live) == [k |-> "alui", kind |-> "add", d |-> r, v |-> v, wide |-> TRUE, live |-> live]

\* A stack of three values, the control word that truncates.
Entry == [top |-> 2, tag |-> [q \in Slots |-> q \in 2 .. 4],
          st |-> [q \in Slots |-> IF q \in 2 .. 4 THEN 10 * q + 1 ELSE NoVal],
          cc |-> 0, out |-> NoVal, mem |-> [c \in Cells |-> 12 * c + 5],
          reg |-> [r \in Regs |-> r + 40 * (r % 2) - 40 * (IF r = Base THEN 1 ELSE 0)],
          nz |-> 2, cw |-> 1]

Plain == [contract |-> FALSE, reduce |-> FALSE, exact |-> TRUE, split |-> TRUE, remat |-> TRUE,
          rollback |-> TRUE, allow |-> "none", max_gap |-> 2, max_total |-> 4, fprs |-> 0,
          gprs |-> 0]
Theme(letters, start, longest, fprs, opts) ==
  [letters |-> letters, start |-> start, longest |-> longest, fprs |-> fprs,
   opts |-> opts, entry |-> Entry, shun |-> {"fstsw_twice", "fcom_trig_fstsw"}]

\* The stack is permuted, pushed and popped.
Stack == Theme({Fld("LoadF64", 0), FldSt(1), Fxch(1), Fxch(2), Ar("FSub", TRUE, 0, 2),
                ArP("FDiv", FALSE, 1), FstSt(2, TRUE)}, <<>>, 4, 0 .. 7, Plain)

\* Two or three registers for values that wait: splitting and remaking.
Tight(n, remat) == Theme(
  {Const(One), Fld("LoadF64", 8), ArP("FSub", TRUE, 2), Fst("StoreF64", 8, TRUE), Fxch(3)},
  <<Const(One), Fld("LoadF32", 0), Fld("LoadF64", 4)>>, 6, 0 .. n - 1,
  [Plain EXCEPT !.remat = remat])

\* Deferred work in front of an attempt: F2XM1 and 80-bit loads have no node.
Deferred(back, start) == Theme(
  {Un1("F2xm1"), Fld("LoadF64", 0), FstSt(1, TRUE), Fxch(1), Ar("FSub", FALSE, 0, 1)},
  start, Len(start) + 3, 0 .. 7, [Plain EXCEPT !.rollback = back])
F2 == Un1("F2xm1")
Pop1 == FstSt(1, TRUE)
Starts1 == {<<>>, <<Pop1, F2>>, <<Fxch(1), F2>>, <<Fld("LoadM80", 0), F2, Pop1, F2>>,
            <<Pop1, F2, Fxch(1), F2>>, <<Pop1, F2, Pop1, F2>>, <<Fxch(2), F2, Fld("LoadM80", 0)>>}
ShallowPool == Theme({Un1("F2xm1"), Fxch(1), Un1("FNeg")}, <<>>, 5, {0}, Plain)

\* Conditions and what comes between a comparison and its use.
Conditions == Theme({Fcom(1, 0), Op0("ftst"), Fcomi(1, TRUE), Fcmov("PF", 1), Op0("fstsw"),
                     Op0("fsincos")}, <<>>, 4, 0 .. 7, Plain)
Status1 == Theme({Fcom(1, 2), Op0("fstsw"), FldSt(1), Fxch(1), Fcmov("PF", 1), Fcomi(1, FALSE)},
                 <<>>, 4, 0 .. 7, [Plain EXCEPT !.gprs = 6])

\* Rounding and the control word; int64 copies.
Rounding(exact) == Theme(
  {Fist("StoreI16", 0, FALSE, FALSE), Fist("StoreI32", 4, TRUE, TRUE), Op0("frndint"),
   Cw("fldcw", 0), Fist("StoreI64", 4, TRUE, FALSE), Fld("LoadI64", 8)},
  <<>>, 4, 0 .. 7, [Plain EXCEPT !.exact = exact])

\* Bodies that take most of the pools.
Transcendental(n) == Theme(
  {Trig("FSin"), Op0("fptan"), BinPop("FPatan"), BinPop("FYl2x"), Op0("fscale"), Const(7)},
  <<>>, 4, 0 .. n - 1, Plain)

\* Fused multiply-adds, and sums of products of two arrays.
MulAcc(d) == <<Fld("LoadF32", d), ArM("FMul", FALSE, "LoadF32", d + 16), ArP("FAdd", FALSE, 1)>>
Contracted == Theme(
  {Fld("LoadF32", 0), ArM("FMul", FALSE, "LoadF32", 4), ArP("FSub", FALSE, 1),
   ArP("FSub", TRUE, 1), ArP("FAdd", FALSE, 1), Ar("FMul", FALSE, 1, 0)},
  <<>>, 4, 0 .. 7, [Plain EXCEPT !.contract = TRUE])
Reduced(n) == Theme(
  {Fld("LoadF32", 8), ArM("FMul", FALSE, "LoadF32", 24), ArP("FAdd", FALSE, 1), FldSt(0),
   Fst("StoreF32", 0, TRUE)},
  MulAcc(0) \o MulAcc(4), 9, 0 .. n - 1, [Plain EXCEPT !.contract = TRUE, !.reduce = TRUE])

\* Stores of one value side by side.
Broadcast(n) == Theme(
  {Fst("StoreF32", 0, FALSE), Fst("StoreF32", 4, FALSE), Fst("StoreF32", 8, FALSE),
   Fst("StoreF32", 12, TRUE), FldSt(1)}, <<Fst("StoreF32", 0, FALSE)>>, 5, 0 .. n - 1, Plain)

\* Integer instructions between two runs.
Joining(allow) == Theme(
  {Fld("LoadF64", 0), Fist("StoreI32", 4, TRUE, FALSE), Mov(2, 0), AluI(Base, 4, FALSE),
   AluI(2, 4, TRUE), Op0("fstsw")}, <<Fld("LoadF64", 0)>>, 5, 0 .. 7, [Plain EXCEPT !.allow = allow])
Joining2 == Theme(
  {Un1("F2xm1"), ArP("FSub", FALSE, 1), Op0("wait"), Load(2, 0), Store(0, 4)}, <<Fxch(1)>>, 5, 0 .. 7,
  [Plain EXCEPT !.allow = "v1"])

\* A sequence the others leave out.
Twice == {[Theme({Fcom(1, 0), Op0("fstsw"), FldSt(0)}, <<>>, 4, 0 .. 7, Plain)
            EXCEPT !.shun = {"fcom_trig_fstsw"}]}

MCSettings ==
  {Deferred(back, start) : back \in BOOLEAN, start \in Starts1} \cup
  {Stack, Tight(2, TRUE), Tight(3, TRUE), Tight(3, FALSE), ShallowPool, Conditions, Status1,
   Rounding(TRUE), Rounding(FALSE), Transcendental(8), Contracted, Reduced(4), Broadcast(2),
   Joining("v1"), Joining("v2"), Joining2}
=============================================================================
