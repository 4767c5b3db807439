----------------------------- MODULE X87Compile -----------------------------
(***************************************************************************)
(* What X87IR::compile_run (X87IRLower.cpp) decides by, between optimizing  *)
(* a run and lowering it: whether the two pools hold what lowering is      *)
(* going to take, what to make again so that they do, and where to cut the *)
(* run if they do not.  The attempt itself is in X87Region.                *)
(*                                                                         *)
(* opts carries the configuration: that of optimize, split and remat       *)
(* (enable_ir_split, enable_ir_remat) and the limits fprs and gprs         *)
(* (fpr_pool_limit, gpr_pool_limit), 0 for none.                           *)
(***************************************************************************)
EXTENDS X87IRLower

Holder(n) == n.op \in ValueOps /\ (Member(n) => "Head" \in n.flags)

\* A tally against a budget: its peak, and the first node to exceed it.
Raise(P, total, i) ==
  [P EXCEPT !.peak = Max({@, total}),
            !.over = IF @ = None /\ total > P.budget THEN i ELSE @]

-----------------------------------------------------------------------------
(* peak_live_fprs *)

\* Faulty: the tangent counted as the sine is.
Spike_sine(op) ==
  CASE op \in Trigs -> 7 [] op = "FYl2x" -> 8 [] op = "FPatan" -> 6 [] op = "FScale" -> 4
    [] OTHER -> 0
Spike(op) ==
  CASE op \in {"FSin", "FCos"} -> 7
    [] op \in {"FPtan", "FYl2x"} -> 8
    [] op = "FPatan" -> 6
    [] op = "FScale" -> 4
    [] OTHER -> 0

\* The last node of the reduction that starts at a head.
ChainTail(c, head) ==
  Walk(LAMBDA t, j : IF /\ j > head /\ j \in Alive(c) /\ NodeAt(c, j).op = "FMAdd"
                            /\ Member(NodeAt(c, j)) /\ NodeAt(c, j).in[3] = t
                         THEN j ELSE t, head, Ascending(c))

\* Registers a node takes for itself beside the one its value stays in.
Beside(c, P, i) ==
  LET op == NodeAt(c, i).op
  IN  IF "Head" \in NodeAt(c, i).flags THEN 2
      ELSE IF op = "StoreF32" THEN IF HasStrQ(c, i) THEN 2 ELSE 1
      ELSE IF op \in IntStores THEN 1 ELSE 0
Ending(c, P, i) ==
  {n \in P.hold : UsesBy(c, i, n) # {} /\ c.last[n] = i}

\* The counts of one node, if it is not dead.
CountFprs(c, P, i) ==
  LET Took == IF Holder(NodeAt(c, i))
              THEN Raise([P EXCEPT !.live = @ + 1, !.hold = @ \cup {i}], P.live + 1, i) ELSE P
      Peak == IF Beside(c, Took, i) = 0 THEN Took ELSE Raise(Took, Took.live + Beside(c, Took, i), i)
      \* A reduction's value stands where its last node is.
      Held1 == IF "Head" \in NodeAt(c, i).flags
               THEN [Peak EXCEPT !.hold = (@ \ {i}) \cup {ChainTail(c, i)}] ELSE Peak
      ended == Cardinality(Ending(c, Held1, i))
      Core == IF Spike(NodeAt(c, i).op) = 0 THEN Held1
              ELSE Raise(Held1, Held1.live - 1 - ended + Spike(NodeAt(c, i).op), i)
  IN  IF Dead(NodeAt(c, i)) THEN P
      ELSE [Core EXCEPT !.live = @ - ended, !.hold = @ \ Ending(c, Held1, i)]

peak_live_fprs(ctx, budget) ==
  LET c == compute_last_uses(ctx)
  IN  Walk(LAMBDA P, i : CountFprs(c, P, i),
           [live |-> 0, peak |-> 0, over |-> None, hold |-> {}, budget |-> budget], Ascending(c))

-----------------------------------------------------------------------------
(* peak_live_gprs *)

Transient(n, cached) ==
  CASE n.op = "FCSel"   -> IF n.arg \in {"PF", "NPF"} THEN 1 ELSE 0
    [] n.op = "FMAdd"   -> IF "Head" \in n.flags THEN 1 ELSE 0
    [] n.op \in Trigs \cup {"FComI"} -> 3
    [] n.op \in {"FPatan", "FYl2x", "FScale"} \cup Compares -> 4
    [] n.op \in {"LoadF64", "LoadF32", "StoreF64", "StoreF32"} -> 1
    [] n.op \in (Loads \cup Stores) \ {"LoadF64", "LoadF32", "StoreF64", "StoreF32"} -> 2
    [] n.op = "FRndInt" -> IF cached THEN 0 ELSE 1
    [] n.op \in {"FStsw", "StoreCW", "LoadCW", "BridgeAluRM", "BridgeAluMR"} -> 2
    [] n.op \in {"BridgeLea", "BridgeLoadG", "BridgeStoreG", "BridgeAluRI"} -> 1
    [] OTHER -> 0

\* What the run cache holds already counts against the pool, not the run.
cached_gprs(L) == IF L.run > 0 /\ L.gv THEN Cardinality(Pinned(L) \ L.gprs) ELSE 0
preamble_gprs(L) == IF L.dpc > 0 THEN 2 ELSE IF L.tpp THEN 1 ELSE 0

CountGprs(c, pinned, P, i) ==
  LET n     == NodeAt(c, i)
      fused == "FcomFused" \in n.flags
      back  == IF n.op = "FStsw" /\ fused THEN [P EXCEPT !.held = @ - 1] ELSE P
      done  == Raise(back, pinned + back.held + Transient(n, CachesRc(c)), i)
  IN  IF Dead(n) THEN P
      ELSE IF n.op \in Compares /\ fused THEN [done EXCEPT !.held = @ + 1] ELSE done

peak_live_gprs(c, L, budget) ==
  LET own    == 4 - cached_gprs(L)
      pinned == own + IF CachesRc(c) THEN 1 ELSE 0
      first  == own + preamble_gprs(L)
      begun  == [held |-> 0, peak |-> Max({pinned, first}), budget |-> budget,
                 over |-> IF first > budget /\ Len(c.nodes) > 0 THEN 0 ELSE None]
      end    == Walk(LAMBDA P, i : CountGprs(c, pinned, P, i), begun, Ascending(c))
  IN  IF c.delta = 0 THEN end ELSE Raise(end, pinned - 1 + end.held + 2, Newest(c))

\* Faulty: the cut comes behind the instruction that exceeds the budget.
split_prefix_len_behind(c, over, attempt_len) ==
  LET src == IF over \in Ids(c) THEN NodeAt(c, over).src ELSE attempt_len
  IN  IF src < attempt_len - 1 THEN src + 1 ELSE attempt_len
\* Where to cut a run that exceeds the budget at a node.
split_prefix_len(c, over, attempt_len) ==
  LET src == IF over \in Ids(c) THEN NodeAt(c, over).src ELSE attempt_len
  IN  IF src < attempt_len - 1 THEN src ELSE attempt_len - 1

-----------------------------------------------------------------------------
(* Rematerialization: a constant or a float that waits in a register for   *)
(* one use past the pressure is made a second time next to that use.       *)

insert_clone_at(c, src, pos) ==
  LET Remap(r) == IF r >= pos THEN r + 1 ELSE r
      Shifted(n) == [n EXCEPT !.in = IF node_refs(n) = 1 THEN <<Remap(@[1]), @[2], @[3]>>
                                     ELSE <<Remap(@[1]), Remap(@[2]), Remap(@[3])>>]
      clone == [NodeAt(c, src) EXCEPT !.flags = {}, !.src = NodeAt(c, pos).src]
      moved == Row([k \in DOMAIN c.nodes |-> Shifted(c.nodes[k])])
  IN  [c EXCEPT !.nodes = SubSeq(moved, 1, pos) \o <<clone>> \o SubSeq(moved, pos + 1, Len(moved)),
                !.val   = [d \in Slots |-> Remap(@[d])],
                !.read  = [d \in Slots |-> Remap(@[d])],
                !.fcmp  = Remap(@), !.fcomi = Remap(@)]

\* Uses by reference, unlike those of compute_last_uses.
RefUses(c, n) ==
  {j \in Alive(c) : \E k \in 1 .. node_refs(NodeAt(c, j)) : NodeAt(c, j).in[k] = n}
RefsAfter(c, n, over) ==
  {u \in {j \in Alive(c) : j > over} \X (1 .. 3) :
      u[2] <= node_refs(NodeAt(c, u[1])) /\ NodeAt(c, u[1]).in[u[2]] = n}
LastRef(c, n) == IF RefUses(c, n) = {} THEN None ELSE Max(RefUses(c, n))
Barriers == Stores \cup BridgeOps \cup {"StoreCW", "LoadCW", "FStsw"}
Floats   == {"LoadF32", "LoadF64"}
kMaxClones == 8
Remakeable(c, over) == {h \in 0 .. over - 1 :
  LET n == NodeAt(c, h) IN
  /\ n.flags = {} /\ ~OnStack(c, h) /\ n.op \in Consts \cup Floats
  /\ LastRef(c, h) > over /\ Cardinality(RefsAfter(c, h, over)) = 1
  /\ n.op \in Floats =>
       ~\E j \in h + 1 .. LastRef(c, h) - 1 : j \in Alive(c) /\ NodeAt(c, j).op \in Barriers}

Remake(c, best) ==
  LET pos == LastRef(c, best)
      d   == insert_clone_at(c, best, pos)
      Now(r) == IF r = best THEN pos ELSE r
      e   == [d EXCEPT !.nodes[pos + 2].in =
                IF node_refs(d.nodes[pos + 2]) = 1 THEN <<Now(@[1]), @[2], @[3]>>
                ELSE <<Now(@[1]), Now(@[2]), Now(@[3])>>]
  IN  IF RefUses(e, best) \ {best} = {} THEN Mark(e, best, "Dead") ELSE e

RelieveOnce(budget, R, k) ==
  LET d   == R.c
      P   == peak_live_fprs(d, budget)
      H   == IF P.over = None THEN {} ELSE Remakeable(d, P.over)
      far == Max({LastRef(d, h) : h \in H})
  IN  IF R.done \/ H = {} \/ Len(d.nodes) >= MaxNodes THEN [R EXCEPT !.done = TRUE]
      ELSE [R EXCEPT !.c = Remake(d, Min({h \in H : LastRef(d, h) = far}))]
remat_relieve_fpr_pressure(c, budget) ==
  Walk(LAMBDA R, k : RelieveOnce(budget, R, k), [c |-> c, done |-> FALSE],
       [k \in 1 .. kMaxClones |-> k]).c

-----------------------------------------------------------------------------
(* What the attempt goes by *)

Limited(n, limit) == IF limit > 0 /\ n > limit THEN limit ELSE n
AvailableFprs(L, opts) == Limited(Cardinality(L.fprs), opts.fprs)
AvailableGprs(L, opts) == Limited(Cardinality(L.gprs), opts.gprs)

kMaxSplitRetries == 4
MaySplit(c, over, len, try, allow, opts) ==
  /\ allow = "none" /\ opts.split /\ try < kMaxSplitRetries
  /\ split_prefix_len(c, over, len) >= 3
=============================================================================
