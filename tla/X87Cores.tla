------------------------------ MODULE X87Cores ------------------------------
(***************************************************************************)
(* Scratch registers, and the bodies of the transcendental instructions as *)
(* the order in which they take registers from the two pools and give them *)
(* back (TranslatorX87Transcendental.cpp).  What a body computes is one    *)
(* value; what can go wrong is that a pool is empty when a body asks, or   *)
(* that a register goes back while its contents are still needed.          *)
(*                                                                         *)
(* A pool state is part of a larger record L:                              *)
(*    fprs, gprs   the free registers (free_fpr_mask, free_gpr_mask)       *)
(*    file         what each FPR holds                                     *)
(*    name         the registers a body has named                          *)
(*    starved      a register was asked of an empty pool, or a GPR of the  *)
(*                 pool by its place while it was taken (alloc_failure)    *)
(***************************************************************************)
EXTENDS X87Data, X87Walk, FiniteSets, SequencesExt

CONSTANT Fprs       \* kFprScratchPool
ASSUME FprsAssumption == Fprs \subseteq Nat /\ IsFiniteSet(Fprs)
Gprs == 0 .. 7      \* kGprScratchPool, by place in the pool

Starve(L) == [L EXCEPT !.starved = TRUE]
Lowest(free, pool) == IF free = {} THEN Min(pool) ELSE Min(free)

\* The register the next alloc_free_fpr returns, and the state after it; a
\* placeholder and a recorded failure once the pool is empty.
NextFpr(L) == Lowest(L.fprs, Fprs)
NextGpr(L) == Lowest(L.gprs, Gprs)
alloc_free_fpr(L) ==
  IF L.fprs = {} THEN Starve(L)
  ELSE [L EXCEPT !.fprs = @ \ {NextFpr(L)}, !.file[NextFpr(L)] = NoVal]
alloc_free_gpr(L) ==
  IF L.gprs = {} THEN Starve(L) ELSE [L EXCEPT !.gprs = @ \ {NextGpr(L)}]
alloc_gpr(L, place) ==
  IF place \in L.gprs THEN [L EXCEPT !.gprs = @ \ {place}] ELSE Starve(L)
free_fpr(L, r) == [L EXCEPT !.fprs = @ \cup {r}]
free_gpr(L, r) == [L EXCEPT !.gprs = @ \cup {r}]

\* n GPRs taken together and given back.
Scratch(L, n) == IF Cardinality(L.gprs) < n THEN Starve(L) ELSE L

-----------------------------------------------------------------------------
(* Bodies: FP and GP take a register under a name, fp and gp free it. *)

FP(n) == <<"F", n>>
fp(n) == <<"f", n>>
GP(n) == <<"G", n>>
gp(n) == <<"g", n>>

Turn(L, e) ==
  LET Named(K, r) == [K EXCEPT !.name = Put(@, e[2], r)]
  IN CASE e[1] = "F" -> Named(alloc_free_fpr(L), NextFpr(L))
       [] e[1] = "G" -> Named(alloc_free_gpr(L), NextGpr(L))
       [] e[1] = "f" -> free_fpr(L, L.name[e[2]])
       [] e[1] = "g" -> free_gpr(L, L.name[e[2]])
Body(L, events) == Walk(Turn, L, events)

\* A constant or a table entry built in a GPR of its own.
Brief(n) == <<GP(n), gp(n)>>

emit_trig_range_reduce == <<FP("n"), GP("qn"), FP("r"), FP("tmp"), fp("tmp"), fp("n"), fp("x")>>
emit_sin_poly_estrin ==
  <<FP("r2"), FP("r4"), FP("p2"), FP("p3"), FP("tmp"), fp("tmp"), fp("p3"), fp("p2"), fp("r4"), fp("r2")>>
emit_apply_qn_sign == Brief("Xy")
emit_inline_trig_body ==
  emit_trig_range_reduce \o <<FP("y")>> \o emit_sin_poly_estrin \o <<fp("r")>>
    \o emit_apply_qn_sign \o <<gp("qn")>>

emit_inline_log2 ==
  <<GP("u"), GP("off")>> \o Brief("tmp") \o <<FP("kd")>> \o Brief("k") \o Brief("tmp")
    \o <<FP("z"), gp("u"), GP("idx"), gp("off"), FP("invc")>> \o Brief("tbl")
    \o <<FP("log2c")>> \o Brief("tbl") \o <<gp("idx"), FP("r"), FP("neg1")>> \o Brief("k")
    \o <<fp("neg1"), fp("z"), fp("invc"), FP("r2"), FP("hi"), fp("log2c"), fp("kd"),
         FP("tmp"), fp("tmp"), FP("y2"), FP("tmp"), FP("p"), fp("p"), fp("tmp"), fp("r"),
         fp("y2"), fp("r2"), fp("hi")>>
\* The logarithm replaces x, which becomes the product.
emit_inline_fyl2x_core == emit_inline_log2 \o <<fp("y")>>

emit_inline_fpatan_core ==
  <<GP("sign")>> \o Brief("tmp") \o <<FP("ax"), FP("ay"), fp("y"), GP("nzcv"), FP("neg"),
    FP("num"), FP("den"), fp("neg"), fp("ax"), fp("ay"), FP("shiftb"), FP("zero"), FP("one")>>
    \o Brief("k") \o <<fp("zero"), fp("one"), FP("z"), FP("zero"), fp("zero"), fp("num"),
    fp("den")>> \o Brief("bits") \o <<fp("x"), FP("shift"), FP("neg2"), FP("zero"), fp("neg2"),
    fp("zero"), gp("nzcv"), fp("shiftb"), FP("z2"), FP("z3"), FP("poly"), FP("tmp"), fp("tmp"),
    fp("z2"), FP("pi2"), fp("pi2"), fp("poly"), fp("z3"), fp("shift")>> \o Brief("ret")
    \o <<gp("sign")>>

emit_inline_fptan_core ==
  <<FP("q"), FP("shift"), FP("twopi"), fp("shift"), fp("twopi"), GP("qi"), FP("r"), FP("tmp"),
    fp("tmp"), fp("q"), fp("x"), FP("r2"), FP("r4"), FP("r8"), FP("acc"), FP("tmp"), FP("b"),
    FP("c"), fp("c"), fp("b"), fp("tmp"), fp("r8"), fp("r4"), FP("pr"), fp("pr"), fp("r"), fp("r2"),
    FP("n"), FP("neg1")>> \o Brief("k") \o <<fp("neg1"), FP("d"), fp("acc"), FP("negd"),
    GP("nzcv"), gp("qi"), FP("num"), FP("den"), gp("nzcv"), fp("negd"), fp("n"), fp("d"), fp("den")>>

emit_inline_fscale_core ==
  <<GP("k"), GP("nzcv"), GP("Xm"), GP("Xt"), FP("m"), gp("k"), FP("norm"), fp("x"), GP("Xf"),
    gp("Xf"), gp("Xt"), gp("Xm"), fp("m"), gp("nzcv"), fp("y")>>

\* The name a body leaves its result under.
emit_core(op) ==
  CASE op \in {"FSin", "FCos"} -> emit_inline_trig_body
    [] op = "FPtan"  -> emit_inline_fptan_core
    [] op = "FPatan" -> emit_inline_fpatan_core
    [] op = "FYl2x"  -> emit_inline_fyl2x_core
    [] op = "FScale" -> emit_inline_fscale_core
Result(op) ==
  CASE op \in {"FSin", "FCos"} -> "y"
    [] op = "FPtan"  -> "num"
    [] op = "FPatan" -> "z"
    [] op = "FYl2x"  -> "x"
    [] op = "FScale" -> "norm"
=============================================================================
