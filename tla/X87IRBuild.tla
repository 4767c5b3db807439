----------------------------- MODULE X87IRBuild -----------------------------
(***************************************************************************)
(* X87IR::build (X87IRBuild.cpp): a run of instructions becomes nodes, one *)
(* instruction at a time, until one cannot be expressed.                   *)
(*                                                                         *)
(* Each build_ operator is the arm of build's switch for the instructions  *)
(* of one shape (X87Program has the shapes).  An operand of 80 bits, a     *)
(* segment override or a full node table end the run at the instruction    *)
(* before.                                                                 *)
(***************************************************************************)
EXTENDS X87IR

NoInputs == <<None, None, None>>
One1(a)  == <<a, None, None>>
Two(rev, a, b) == IF rev THEN <<b, a, None>> ELSE <<a, b, None>>

\* The code that resolves a second register only after the first resolved.
ThenResolve(c, d) == IF c.ok THEN resolve(c, d) ELSE c

build_load(c, w, o) ==
  IF w \in Loads THEN add_node(c, w, NoInputs, o, {}) ELSE Fail(c)
build_store(c, w, o, n, flags) ==
  IF w \in Stores THEN add_node(c, w, One1(n), o, flags) ELSE Fail(c)
PushNewest(c) == push(c, Newest(c))

ConstOp(v) == IF v = Zero THEN "ConstZero" ELSE IF v = One THEN "ConstOne" ELSE "ConstF64"
build_const(c, v) == PushNewest(add_node(c, ConstOp(v), NoInputs, v, {}))

build_fld(c, d)     == LET r == resolve(c, d) IN push(r, r.val[d])
build_fldm(c, w, o) == PushNewest(build_load(c, w, o))

PopWhen(c, pops) == IF pops THEN pop(c) ELSE c

\* fst st(i): the register takes the node, nothing is computed.
build_fst(c, d, pops) ==
  LET r == resolve(c, 0)
  IN  PopWhen(IF r.ok /\ d # 0 THEN [r EXCEPT !.val[d] = r.val[0]] ELSE r, pops)
build_fstm(c, w, o, pops, flags) ==
  LET r == resolve(c, 0) IN PopWhen(build_store(r, w, o, r.val[0], flags), pops)

build_arith(c, op, rev, d, s) ==
  LET r == resolve(resolve(c, d), s)
  IN  Place(add_node(r, op, Two(rev, r.val[d], r.val[s]), None, {}), d)
build_arithm(c, op, rev, w, o) ==
  LET r == resolve(c, 0)
      l == build_load(r, w, o)
  IN  Place(add_node(l, op, Two(rev, r.val[0], Newest(l)), None, {}), 0)
build_arithp(c, op, rev, d) == pop(build_arith(c, op, rev, d, 0))

\* fpatan and fyl2x read ST(1), then ST(0); the result replaces ST(1).
build_binpop(c, op) ==
  LET r == resolve(resolve(c, 0), 1)
  IN  pop(Place(add_node(r, op, Two(FALSE, r.val[1], r.val[0]), None, {}), 1))
build_fscale(c) ==
  LET r == resolve(resolve(c, 0), 1)
  IN  Place(add_node(r, "FScale", Two(FALSE, r.val[0], r.val[1]), None, {}), 0)

build_unary(c, op) ==
  LET r == resolve(c, 0)
  IN  IF op \in Unaries \cup {"FRndInt"}
      THEN Place(add_node(r, op, One1(r.val[0]), None, {}), 0) ELSE Fail(c)

\* fsincos and fptan put a first node in ST(0) and push a second.
build_pair(c, first, second, arg) ==
  LET r == resolve(c, 0)
      a == add_node(r, first, One1(r.val[0]), None, {})
      b == add_node(a, second, IF second \in Consts THEN NoInputs ELSE One1(r.val[0]),
                    arg, {})
  IN  IF b.ok THEN PushNewest([b EXCEPT !.val[0] = Newest(a)]) ELSE b
build_fsincos(c) == build_pair(c, "FSin", "FCos", None)
build_fptan(c)   == build_pair(c, "FPtan", "ConstOne", One)

\* Whether the reads found room is not looked at.
build_fxch(c, d) ==
  IF d = 0 THEN Fail(c)
  ELSE LET r == resolve([resolve(c, 0) EXCEPT !.ok = TRUE], d)
       IN  [r EXCEPT !.ok = TRUE, !.val[0] = r.val[d], !.val[d] = r.val[0]]

Compared(c) == IF c.ok THEN [c EXCEPT !.fcmp = Newest(c)] ELSE c
build_fcom(c, d, pops) ==
  LET r == ThenResolve(resolve(c, 0), d)
  IN  pop_n(Compared(add_node(r, "FCmp", Two(FALSE, r.val[0], r.val[d]), None, {})), pops)
build_fcomm(c, w, o, pops) ==
  LET r == resolve(c, 0)
      l == build_load(r, w, o)
  IN  pop_n(Compared(add_node(l, "FCmp", Two(FALSE, r.val[0], Newest(l)), None, {})), pops)
build_ftst(c) ==
  LET r == resolve(c, 0) IN Compared(add_node(r, "FTst", One1(r.val[0]), None, {}))

build_fcomi(c, d, pops) ==
  LET r == ThenResolve(resolve(c, 0), d)
      n == add_node(r, "FComI", Two(FALSE, r.val[0], r.val[d]), None,
                    IF pops THEN {"Popping"} ELSE {})
  IN  PopWhen(IF n.ok THEN [n EXCEPT !.fcomi = Newest(n)] ELSE n, pops)

\* The flags are only known to be FCOMI's if this run has one.
build_fcmov(c, cond, d) ==
  IF c.fcomi = None THEN Fail(c)
  ELSE LET r == ThenResolve(resolve(c, 0), d)
       IN  Place(add_node(r, "FCSel", Two(FALSE, r.val[0], r.val[d]), cond, {}), 0)

\* An FSTSW carries the last comparison, the register and TOP so far.
build_fstsw(c) == add_node(c, "FStsw", <<c.fcmp, Ax, c.delta>>, None, {})

-----------------------------------------------------------------------------
(* Integer instructions between two x87 instructions (X87Bridge.h) *)

WidthFlag(i) == IF i.wide THEN {"Wide"} ELSE {}
build_bridge(c, i) ==
  LET Node(op, in, arg) == add_node(c, op, in, arg, WidthFlag(i))
  IN CASE i.k = "wait"  -> c
       [] i.k = "mov"   -> Node("BridgeMovRR", <<Enc(i.d), Enc(i.s), None>>, None)
       [] i.k = "movi"  -> Node("BridgeMovRI", One1(Enc(i.d)), i.v)
       [] i.k = "load"  -> Node("BridgeLoadG", One1(Enc(i.d)), i.o)
       [] i.k = "store" -> Node("BridgeStoreG", One1(Enc(i.s)), i.o)
       [] i.k = "lea"   -> Node("BridgeLea", One1(Enc(i.d)), i.o)
       [] i.k = "ext"   -> Node("BridgeExt", <<Enc(i.d), Enc(i.s), None>>, i.class)
       [] i.k = "alu"   -> Node("BridgeAluRR", <<Enc(i.d), Enc(i.s), None>>, i)
       [] i.k = "alui"  -> Node("BridgeAluRI", One1(Enc(i.d)), i)
       [] i.k = "alum"  -> Node("BridgeAluRM", One1(Enc(i.d)), i)
       [] i.k = "alus"  -> Node("BridgeAluMR", One1(Enc(i.s)), i)

has_segment_override(i) == "o" \in DOMAIN i /\ i.o.seg
is_bridge_v1(i) == i.k \in {"mov", "movi", "lea", "load", "store", "ext", "wait"}
is_bridge_v2(i) == is_bridge_v1(i) \/ i.k \in {"alu", "alui", "alum", "alus"}
flags_dead(i)   == ~i.live
is_bridge_v2_proven(i) == is_bridge_v2(i) /\ (is_bridge_v1(i) \/ flags_dead(i))

\* How a run may bridge: not at all, v1, or v2.
Bridging == {"none", "v1", "v2"}
Bridged(i, allow) ==
  \/ allow = "v1" /\ is_bridge_v1(i)
  \/ allow = "v2" /\ is_bridge_v2_proven(i)

-----------------------------------------------------------------------------
build_switch(c, i, allow) ==
  CASE i.k = "const"   -> build_const(c, i.v)
    [] i.k = "fld"     -> build_fld(c, i.i)
    [] i.k = "fldm"    -> build_fldm(c, i.w, i.o)
    [] i.k = "fst"     -> build_fst(c, i.i, i.pop)
    [] i.k = "fstm"    -> build_fstm(c, i.w, i.o, i.pop, {})
    [] i.k = "fist"    -> build_fstm(c, i.w, i.o, i.pop, IF i.trunc THEN {"Truncate"} ELSE {})
    [] i.k = "arith"   -> build_arith(c, i.op, i.rev, i.d, i.s)
    [] i.k = "arithm"  -> build_arithm(c, i.op, i.rev, i.w, i.o)
    [] i.k = "arithp"  -> build_arithp(c, i.op, i.rev, i.d)
    [] i.k \in {"unary", "trig"} -> build_unary(c, i.op)
    [] i.k = "frndint" -> build_unary(c, "FRndInt")
    [] i.k = "fsincos" -> build_fsincos(c)
    [] i.k = "fptan"   -> build_fptan(c)
    [] i.k = "binpop"  -> build_binpop(c, i.op)
    [] i.k = "fscale"  -> build_fscale(c)
    [] i.k = "fxch"    -> build_fxch(c, i.i)
    [] i.k = "fcom"    -> build_fcom(c, i.i, i.pops)
    [] i.k = "fcomm"   -> build_fcomm(c, i.w, i.o, i.pops)
    [] i.k = "ftst"    -> build_ftst(c)
    [] i.k = "fcomi"   -> build_fcomi(c, i.i, i.pop)
    [] i.k = "fcmov"   -> build_fcmov(c, i.cond, i.i)
    [] i.k = "fstsw"   -> build_fstsw(c)
    [] i.k = "fldcw"   -> add_node(c, "StoreCW", NoInputs, i.o, {})
    [] i.k = "fnstcw"  -> add_node(c, "LoadCW", NoInputs, i.o, {})
    [] i.k = "fnop"    -> c
    [] OTHER -> IF Bridged(i, allow) THEN build_bridge(c, i) ELSE Fail(c)
build_arm(c, i, allow) ==
  IF has_segment_override(i) THEN Fail(c) ELSE build_switch(c, i, allow)

\* One turn of the loop, from c to what the arm made of it.  The nodes of an
\* instruction that failed stay, and none of them does anything to the guest
\* that optimize leaves in.
build_step(c, r) == IF r.ok THEN [r EXCEPT !.consumed = @ + 1] ELSE [r EXCEPT !.x = c.x]

\* build's answer.
Worthwhile(c) == c.consumed >= 2
=============================================================================
