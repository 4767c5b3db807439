----------------------------- MODULE X87IRLower -----------------------------
(***************************************************************************)
(* X87IR::lower (X87IRLower.cpp): an optimized run becomes code.  The code *)
(* is executed as it is emitted, on a state L that is the record of        *)
(* X87Cache with guest memory, registers, flags and control word (mem,     *)
(* reg, nz, cw), the pools of X87Cores and                                 *)
(*    sb     st_base_valid                                                 *)
(*    node   node_fpr: the FPR a node's value is in, or None               *)
(*    cmp    the GPR a fused comparison left its packed result in, with    *)
(*           the result; NoReg once it is given back                       *)
(*    rc     the register that caches the rounding control: whether there  *)
(*           is one, whether it is loaded, what it holds                   *)
(*    next   the node the walk has come to                                 *)
(***************************************************************************)
EXTENDS X87IROptimize, X87Cores, X87Cache

\* An index register or a wide immediate only costs registers.
Small(v) == v < 4096

-----------------------------------------------------------------------------
(* Prologue *)

\* The places in the pool of Xbase, Wd_top, Wd_tmp, Wd_rc and Xst_base.
BaseAndTop == {0, 1}
TmpPlace == 2
RcPlace  == 3
StPlace  == 6
\* pinned_mask.
Pinned(L) == IF ~L.gv THEN {} ELSE BaseAndTop \cup IF L.sb THEN {StPlace} ELSE {}

begin_ir(L) ==
  LET base == IF L.gv THEN L ELSE alloc_gpr(alloc_gpr(L, 0), 1)
      st   == IF L.gv /\ L.sb THEN base ELSE alloc_gpr(base, StPlace)
  IN  [x87_begin(st) EXCEPT !.sb = TRUE]

flush_incoming(L) ==
  LET t == x87_flush_pending_tag(IF L.tpp THEN Scratch(L, 1) ELSE L)
      p == x87_flush_deferred_pops(IF t.dpc > 0 THEN Scratch(t, 2) ELSE t)
  IN  perm_flush_before_stack_change(
        IF p.pd /\ Cardinality(p.fprs) < 2 THEN Starve(p) ELSE p)

\* Nodes that round as the control word says, unless a comparison's four
\* registers leave no room.
Rounds(n) == n.op = "FRndInt" \/ (n.op \in IntStores /\ "Truncate" \notin n.flags)
CachesRc(c) ==
  /\ ~\E n \in Alive(c) : NodeAt(c, n).op \in Compares
  /\ Cardinality({n \in Alive(c) : Rounds(NodeAt(c, n))}) >= 2

\* The last node that uses n; past all of them for a final stack value.  An
\* FSTSW uses whatever its register and TOP happen to number.
compute_last_uses(c) ==
  LET LastUse(n) ==
        IF OnStack(c, n) THEN Len(c.nodes)
        ELSE LET uses == {j \in Alive(c) : UsesBy(c, j, n) # {}}
             IN  IF uses = {} THEN None ELSE Max(uses)
  IN  [c EXCEPT !.last = [n \in Ids(c) |-> LastUse(n)]]

-----------------------------------------------------------------------------
(* Registers of nodes *)

NoReg == None
get(L, n) == IF n \in DOMAIN L.node THEN L.node[n] ELSE NoReg
\* Reading no register at all is what a starved pool looks like later on.
Held(L, n) == IF get(L, n) = NoReg THEN NoVal ELSE L.file[get(L, n)]
\* i is where the walk stands, which for a group of stores is its last node.
Dies(c, L, i, n) == n \in Ids(c) /\ c.last[n] = i /\ get(L, n) # NoReg
Dying(c, L, i)   == {k \in 1 .. 3 : Dies(c, L, i, NodeAt(c, i).in[k])}

\* A node that is an input twice is given back once.
FreeInput(c, L, i, n) ==
  IF Dies(c, L, i, n) THEN [free_fpr(L, L.node[n]) EXCEPT !.node[n] = NoReg] ELSE L
free_dead_inputs(c, L, i) ==
  LET in == NodeAt(c, i).in
  IN  FreeInput(c, FreeInput(c, FreeInput(c, L, i, in[1]), i, in[2]), i, in[3])

Into(L, i, r, v) == [L EXCEPT !.node[i] = r, !.file[r] = v]
InFresh(L, i, v) == Into(alloc_free_fpr(L), i, NextFpr(L), v)
\* try_reuse_input, or else a fresh register.
InReused(c, L, i, v) ==
  IF Dying(c, L, i) = {} THEN InFresh(L, i, v)
  ELSE LET n == NodeAt(c, i).in[Min(Dying(c, L, i))]
       IN  Into([L EXCEPT !.node[n] = NoReg], i, L.node[n], v)

HeldInputs(c, L, i) ==
  LET in == NodeAt(c, i).in IN <<Held(L, in[1]), Held(L, in[2]), Held(L, in[3])>>
Computed(c, L, i) == Value(L, NodeAt(c, i).op, HeldInputs(c, L, i), NodeAt(c, i).arg)

-----------------------------------------------------------------------------
(* Value nodes *)

lower_ReadSt(c, L, i) == InFresh(L, i, emit_load_st(L, NodeAt(c, i).arg))
lower_Load(c, L, i) ==
  InFresh(Scratch(L, IF NodeAt(c, i).op \in {"LoadF64", "LoadF32"} THEN 1 ELSE 2), i,
          Computed(c, L, i))
lower_Const(c, L, i) == InFresh(L, i, Computed(c, L, i))
lower_arith(c, L, i) == InReused(c, L, i, Computed(c, L, i))
lower_FCSel(c, L, i) ==
  lower_arith(c, Scratch(L, IF NodeAt(c, i).arg \in {"PF", "NPF"} THEN 1 ELSE 0), i)

\* emit_rc_preamble on the first use of the cached rounding control.
emit_rc_preamble(L) ==
  IF L.rc.on /\ ~L.rc.valid THEN [L EXCEPT !.rc.valid = TRUE, !.rc.v = RC(L.cw)] ELSE L
RoundingNow(L) == IF L.rc.on THEN L.rc.v ELSE RC(L.cw)
lower_FRndInt(c, L, i) ==
  LET a == HeldInputs(c, L, i)[1]
      P == emit_rc_preamble(IF L.rc.on THEN L
                            ELSE free_gpr(alloc_gpr(L, RcPlace), RcPlace))
  IN  InReused(c, P, i, Rnd(RoundingNow(P), a))

\* The body works on copies, made in this order, and gives them back.
Copies(op) == IF op \in Trigs THEN <<<<"x", 1>>>>
              ELSE IF op = "FScale" THEN <<<<"x", 1>>, <<"y", 2>>>>
              ELSE <<<<"x", 2>>, <<"y", 1>>>>
CopyIn(c, i, L, e) ==
  [alloc_free_fpr(L) EXCEPT !.name = Put(@, e[1], NextFpr(L)),
                            !.file[NextFpr(L)] = Held(L, NodeAt(c, i).in[e[2]])]
CopyAll(c, i, L, op) == Walk(LAMBDA K, e : CopyIn(c, i, K, e), L, Copies(op))
CoreValue(op, L) ==
  LET x == L.file[L.name["x"]]
  IN  IF op \in Trigs THEN Una(op, x)
      ELSE IF op = "FScale" THEN Bin(op, x, L.file[L.name["y"]])
      ELSE Bin(op, L.file[L.name["y"]], x)
lower_core(c, L, i) ==
  LET op    == NodeAt(c, i).op
      In    == free_dead_inputs(c, CopyAll(c, i, L, op), i)
      const == NextGpr(In)
      Done  == IF op = "FScale" THEN Body(In, emit_core(op))
               ELSE free_gpr(Body(alloc_free_gpr(In), emit_core(op)), const)
      Clean == IF op \in Trigs THEN SetCc(Scratch(Done, 1), Cleared) ELSE Done
  IN  Into(Clean, i, Clean.name[Result(op)], CoreValue(op, In))

-----------------------------------------------------------------------------
(* Stores *)

lower_StoreF64(c, L, i) ==
  StoreMem(Scratch(L, 1), NodeAt(c, i).arg, StoreAs("StoreF64", Nearest, HeldInputs(c, L, i)[1]))

\* Stores of one register next to each other in program order share one
\* narrowing, four or two of them an instruction if their operands adjoin.
GroupEnd(c, i) ==
  LET Same(j) == NodeAt(c, j).op = "StoreF32" /\ ~Dead(NodeAt(c, j))
                   /\ NodeAt(c, j).in[1] = NodeAt(c, i).in[1]
  IN  Max({j \in i .. Newest(c) : \A k \in i .. j : Same(k)})
Adjoin(c, k, n) ==
  /\ \A m \in 0 .. n - 1 : extract_simple_mem(NodeAt(c, k + m).arg)
  /\ \A m \in 1 .. n - 1 : NodeAt(c, k + m).arg =
       [NodeAt(c, k).arg EXCEPT !.disp = @ + 4 * m]
can_emit_str_q(c, k, j) ==
  k + 3 <= j /\ Adjoin(c, k, 4) /\ NodeAt(c, k).arg.disp % 16 = 0
can_emit_stp_s(c, k, j) == k + 1 <= j /\ Adjoin(c, k, 2)
StoresAt(c, k, j) ==
  IF can_emit_str_q(c, k, j) THEN 4 ELSE IF can_emit_stp_s(c, k, j) THEN 2 ELSE 1
\* Where the instructions of a group start.
Starts(c, i, j) ==
  Walk(LAMBDA ks, k : IF k >= Last(ks) + StoresAt(c, Last(ks), j)
                          THEN Append(ks, k) ELSE ks,
           <<i>>, [k \in 1 .. j - i |-> i + k])
HasStrQ(c, i) == LET j == GroupEnd(c, i) IN
  \E n \in DOMAIN Starts(c, i, j) : can_emit_str_q(c, Starts(c, i, j)[n], j)
StoreAfter(o, v, L, m) == StoreMem(L, [o EXCEPT !.disp = @ + 4 * m], v)
StoreGroup(c, j, v, L, k) ==
  Walk(LAMBDA K, m : StoreAfter(NodeAt(c, k).arg, v, K, m), L,
       [m \in 1 .. StoresAt(c, k, j) |-> m - 1])
StoreRun(c, i, j, v, L) ==
  Walk(LAMBDA K, k : StoreGroup(c, j, v, K, k), L, Starts(c, i, j))
lower_StoreF32(c, L, i) ==
  LET j == GroupEnd(c, i)
      v == StoreAs("StoreF32", Nearest, HeldInputs(c, L, i)[1])
      narrow == NextFpr(L)
      taken  == alloc_free_fpr(L)
      broad  == IF HasStrQ(c, i) THEN free_fpr(alloc_free_fpr(taken), NextFpr(taken)) ELSE taken
  IN  [free_fpr(StoreRun(c, i, j, v, Scratch(broad, 1)), narrow) EXCEPT !.next = j]

lower_StoreI(c, L, i) ==
  LET n == NodeAt(c, i)
      chop == "Truncate" \in n.flags
      P == IF chop THEN L ELSE emit_rc_preamble(L)
      Guard == free_fpr(alloc_free_fpr(Scratch(P, 2)), NextFpr(P))
  IN  StoreMem(Guard, n.arg, StoreAs(n.op, IF chop THEN Chop ELSE RoundingNow(P),
                                     HeldInputs(c, L, i)[1]))

-----------------------------------------------------------------------------
(* Comparisons, status and control words, bridges *)

\* The result is packed in the second register taken and stays there if an
\* FSTSW is to fetch it.
lower_compare(c, L, i) ==
  LET n == NodeAt(c, i)
      a == HeldInputs(c, L, i)
      v == Cmp(a[1], IF n.op = "FTst" THEN Zero ELSE a[2])
      packed == NextGpr(alloc_free_gpr(L))
      Full4  == Scratch(L, 4)
  IN  IF "FcomFused" \in n.flags
      THEN [Full4 EXCEPT !.gprs = @ \ {packed}, !.cmp = Put(@, i, [reg |-> packed, v |-> v])]
      ELSE SetCc(Full4, v)

\* emit_fcom_cc_write_sw, on what the comparison's register still holds.
WritePacked(L, n) ==
  IF n \in DOMAIN L.cmp
  THEN LET W == SetCc(Scratch(L, 1), L.cmp[n].v)
       IN  [free_gpr(W, L.cmp[n].reg) EXCEPT !.cmp = Restrict(@, DOMAIN @ \ {n})]
  ELSE SetCc(Scratch(L, 1), NoVal)
lower_FStsw(c, L, i) ==
  LET n == NodeAt(c, i)
      W == IF "FcomFused" \in n.flags THEN WritePacked(L, n.in[1]) ELSE L
      top == IF n.in[3] = 0 THEN W.top ELSE Shift(W.w, n.in[3])
  IN  SetReg(Scratch(W, IF n.in[3] = 0 THEN 1 ELSE 2), n.in[2],
             Status(W.reg[n.in[2]], top, W.cc))

lower_StoreCW(c, L, i) ==
  LET W == Effect(Scratch(L, 2), "StoreCW", NoInputs, <<>>, NodeAt(c, i).arg, {})
  IN  IF W.rc.on THEN [W EXCEPT !.rc.valid = TRUE, !.rc.v = RC(W.cw)] ELSE W

\* Scratch registers of the nodes that only act on the guest.
EffectGprs(n) ==
  CASE n.op = "FComI" -> 3
    [] n.op \in {"LoadCW", "BridgeAluRM", "BridgeAluMR"} -> 2
    [] n.op \in {"BridgeLea", "BridgeLoadG", "BridgeStoreG"} -> 1
    [] n.op = "BridgeAluRI" -> IF n.arg.kind \in {"add", "sub"} /\ Small(n.arg.v) THEN 0 ELSE 1
    [] OTHER -> 0
lower_effect(c, L, i) ==
  LET n == NodeAt(c, i)
  IN  Effect(Scratch(L, EffectGprs(n)), n.op, n.in, HeldInputs(c, L, i), n.arg, n.flags)

-----------------------------------------------------------------------------
(* A reduction, at its first product *)

\* The chain is walked again, by what pass_fma_reduce marked.
MemberChain(c, head) ==
  LET Follow(ch, j) == IF /\ j > Last(ch) /\ j \in Alive(c)
                          /\ NodeAt(c, j).op = "FMAdd" /\ Member(NodeAt(c, j))
                          /\ NodeAt(c, j).in[3] = Last(ch)
                       THEN Append(ch, j) ELSE ch
  IN  Walk(Follow, <<head>>, Ascending(c))

\* The products are added in the order of the program; the code adds those of
\* even and odd places apart, and rounds otherwise.
lower_fma_reduce(c, L, head) ==
  LET ch   == MemberChain(c, head)
      Term(K, n) == Bin("FMul", Value(K, NodeAt(c, NodeAt(c, n).in[1]).op, <<>>,
                                      NodeAt(c, NodeAt(c, n).in[1]).arg),
                                Value(K, NodeAt(c, NodeAt(c, n).in[2]).op, <<>>,
                                      NodeAt(c, NodeAt(c, n).in[2]).arg))
      sum  == Walk(LAMBDA v, n : Bin("FAdd", v, Term(L, n)), HeldInputs(c, L, head)[3], ch)
      acc  == NextFpr(L)
      \* Two more at a time, for a pair of terms and then for an odd last one.
      three == alloc_free_fpr(alloc_free_fpr(alloc_free_fpr(Scratch(L, 1))))
      res  == NextFpr(alloc_free_fpr(L))
      Done == [three EXCEPT !.fprs = L.fprs \ {res}]
  IN  Into(Done, Last(ch), res, sum)

-----------------------------------------------------------------------------
(* The walk, and what is left at its end *)

Arithmetic == (Binaries \cup Fmas \cup Unaries)
                \ (Trigs \cup {"FPatan", "FYl2x", "FScale"})
lower_node(c, L, i) ==
  LET op   == NodeAt(c, i).op
      head == "Head" \in NodeAt(c, i).flags
  IN CASE op = "ReadSt"     -> lower_ReadSt(c, L, i)
       [] op \in Loads      -> lower_Load(c, L, i)
       [] op \in Consts     -> lower_Const(c, L, i)
       [] op \in Trigs \cup {"FPatan", "FYl2x", "FScale"} -> lower_core(c, L, i)
       [] op = "FRndInt"    -> lower_FRndInt(c, L, i)
       [] op = "FCSel"      -> lower_FCSel(c, L, i)
       [] op \in Arithmetic /\ head  -> lower_fma_reduce(c, L, i)
       [] op \in Arithmetic /\ ~head -> lower_arith(c, L, i)
       [] op = "StoreF64"   -> lower_StoreF64(c, L, i)
       [] op = "StoreF32"   -> lower_StoreF32(c, L, i)
       [] op \in IntStores  -> lower_StoreI(c, L, i)
       [] op \in Compares   -> lower_compare(c, L, i)
       [] op = "FStsw"      -> lower_FStsw(c, L, i)
       [] op = "StoreCW"    -> lower_StoreCW(c, L, i)
       [] OTHER             -> lower_effect(c, L, i)

lower_nodes(c, L) ==
  LET Turn1(K, i) ==
        LET n == NodeAt(c, i)
        IN  IF i < K.next \/ Dead(n) \/ (Member(n) /\ "Head" \notin n.flags) THEN K
            ELSE LET D == lower_node(c, [K EXCEPT !.next = i], i)
                 IN  [free_dead_inputs(c, D, D.next) EXCEPT !.next = D.next + 1]
  IN  Walk(Turn1, L, Ascending(c))

\* Faulty: a read is left alone in the register of its old name.
store_stack_renamed(c, L) ==
  LET Store(K, d) ==
        LET v == c.val[d]
        IN  IF v < 0 \/ get(K, v) = NoReg
               \/ (NodeAt(c, v).op = "ReadSt" /\ NodeAt(c, v).arg = d)
            THEN K ELSE emit_store_st(K, d, Held(K, v))
  IN  Walk(Store, L, [k \in 1 .. NSlots |-> k - 1])
\* Each register of the new stack takes its node, unless that is what it
\* holds already.
store_stack(c, L) ==
  LET Store(K, d) ==
        LET v == c.val[d]
        IN  IF v < 0 \/ get(K, v) = NoReg
               \/ (NodeAt(c, v).op = "ReadSt" /\ NodeAt(c, v).arg = d + c.delta)
            THEN K ELSE emit_store_st(K, d, Held(K, v))
  IN  Walk(Store, L, [k \in 1 .. NSlots |-> k - 1])

emit_x87_tag_set_valid_batch(S, n) ==
  [S EXCEPT !.tag = [p \in Slots |-> @[p] \/ Depth(S.w, p) < n]]
update_tags(c, L) ==
  LET B == [emit_store_top(L) EXCEPT !.gprs = @ \cup {StPlace}, !.sb = FALSE]
      T == Scratch(B, 2)
  IN  IF c.delta = 0 THEN L
      ELSE IF c.delta > 0 THEN emit_x87_tag_set_empty_batch(T, c.delta)
      ELSE emit_x87_tag_set_valid_batch(T, -c.delta)

release(L) ==
  reset_perm([L EXCEPT !.fprs = @ \cup {L.node[n] : n \in {m \in DOMAIN L.node : L.node[m] # NoReg}},
                       !.gprs = (@ \cup {TmpPlace}) \cup IF L.rc.on THEN {RcPlace} ELSE {},
                       !.td = FALSE, !.tpp = FALSE, !.dpc = 0])

lower(c, M) ==
  LET begun == flush_incoming(alloc_gpr(begin_ir(M), TmpPlace))
      on    == CachesRc(c)
      ready == [IF on THEN alloc_gpr(begun, RcPlace) ELSE begun EXCEPT
                  !.node = [n \in Ids(c) |-> NoReg], !.cmp = <<>>, !.name = <<>>, !.next = 0,
                  !.rc = [on |-> on, valid |-> FALSE, v |-> NoVal]]
      done  == lower_nodes(compute_last_uses(c), ready)
      moved == [done EXCEPT !.w = Shift(@, c.delta)]
  IN  release(update_tags(c, store_stack(c, moved)))
=============================================================================
