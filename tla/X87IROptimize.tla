--------------------------- MODULE X87IROptimize ---------------------------
(***************************************************************************)
(* X87IR::optimize (X87IROptimize.cpp): the passes between building a run  *)
(* and lowering it.  Nodes are marked and rewritten, never removed.        *)
(*                                                                         *)
(* opts says which of the passes the configuration lets run: contract      *)
(* (enable_fma_contract), reduce (enable_fma_reduce) and exact             *)
(* (FusionId::fild_fistp not disabled).                                    *)
(***************************************************************************)
EXTENDS X87IRBuild, X87Walk, FiniteSets, SequencesExt

Dead(n)     == "Dead" \in n.flags
Alive(c)    == {n \in Ids(c) : ~Dead(NodeAt(c, n))}
Member(n)   == "Member" \in n.flags
Ascending(c) == [k \in 1 .. Len(c.nodes) |-> k - 1]
Mark(c, n, flag) == [c EXCEPT !.nodes[n + 1].flags = @ \cup {flag}]
OnStack(c, n)    == \E d \in Slots : c.val[d] = n

\* Every input counts as a use, and so do the register and the TOP an FSTSW
\* carries there.
UsesBy(c, j, n) == {k \in 1 .. 3 : NodeAt(c, j).in[k] = n}
use_count(c, n) ==
  Cardinality({d \in Slots : c.val[d] = n})
    + Cardinality({u \in Alive(c) \X (1 .. 3) : NodeAt(c, u[1]).in[u[2]] = n})

-----------------------------------------------------------------------------
(* Nodes whose value nobody uses are dead; inputs come before their uses,  *)
(* so that one walk backward finds them all.                               *)
pass_dse(c) ==
  LET Kill(d, n) == IF NodeAt(d, n).op \in EffectOps \/ use_count(d, n) > 0
                    THEN d ELSE Mark(d, n, "Dead")
  IN  Walk(Kill, c, Reverse(Ascending(c)))

-----------------------------------------------------------------------------
(* A product used once, by an addition or a subtraction, is fused into it. *)
FmaOf(op, first) ==
  IF op = "FAdd" THEN "FMAdd" ELSE IF first THEN "FNMSub" ELSE "FMSub"
Product(c, n) ==
  /\ n \in Alive(c)
  /\ NodeAt(c, n).op = "FMul"
  /\ use_count(c, n) = 1
Fuse(c, n, k) ==
  LET this == NodeAt(c, n)
      m    == NodeAt(c, this.in[k])
      fma  == [this EXCEPT !.op = FmaOf(this.op, k = 1),
                           !.in = <<m.in[1], m.in[2], this.in[3 - k]>>]
  IN  Mark([c EXCEPT !.nodes[n + 1] = fma], this.in[k], "Dead")
pass_fma(c) ==
  LET Try(d, n) ==
        LET this == NodeAt(d, n)
        IN  IF Dead(this) \/ this.op \notin {"FAdd", "FSub"} THEN d
            ELSE IF Product(d, this.in[1]) THEN Fuse(d, n, 1)
            ELSE IF Product(d, this.in[2]) THEN Fuse(d, n, 2)
            ELSE d
  IN  Walk(Try, c, Ascending(c))

-----------------------------------------------------------------------------
(* A sum of products of two arrays walked at fixed strides becomes a       *)
(* reduction, emitted where its first product stands.                      *)
extract_simple_mem(o) == ~o.index /\ ~o.seg

Chain(c, head) ==
  LET Extend1(ch, n) ==
        IF /\ n > head /\ n \in Alive(c)
           /\ NodeAt(c, n).op = "FMAdd" /\ NodeAt(c, n).in[3] = Last(ch)
           /\ use_count(c, Last(ch)) = 1
        THEN Append(ch, n) ELSE ch
  IN  Walk(Extend1, <<head>>, Ascending(c))

Stream(c, ch, k) == [n \in 1 .. Len(ch) |-> NodeAt(c, ch[n]).in[k]]
\* The loads of one stream: absorbed nowhere else, at a fixed stride.
Strided(c, s, op) ==
  /\ \A n \in 1 .. Len(s) :
        /\ s[n] \in Alive(c)
        /\ NodeAt(c, s[n]).op = op
        /\ use_count(c, s[n]) = 1
        /\ ~Member(NodeAt(c, s[n]))
        /\ extract_simple_mem(NodeAt(c, s[n]).arg)
        /\ NodeAt(c, s[n]).arg.base = NodeAt(c, s[1]).arg.base
  /\ LET Disp(n) == NodeAt(c, s[n]).arg.disp
         stride  == Disp(2) - Disp(1)
     IN  stride # 0 /\ \A n \in 1 .. Len(s) : Disp(n) = Disp(1) + stride * (n - 1)
Reducible(c, ch) ==
  /\ Len(ch) >= 2
  /\ \E op \in {"LoadF32", "LoadF64"} :
        Strided(c, Stream(c, ch, 1), op) /\ Strided(c, Stream(c, ch, 2), op)
\* A candidate is a chain's first node.
Heads(c, n) ==
  /\ n \in Alive(c) /\ NodeAt(c, n).op = "FMAdd" /\ ~Member(NodeAt(c, n))
  /\ LET a == NodeAt(c, n).in[3]
     IN  ~(a \in Ids(c) /\ NodeAt(c, a).op = "FMAdd" /\ Member(NodeAt(c, a)))
Absorbed(c, ch) == {ch[n] : n \in 1 .. Len(ch)}
                     \cup {NodeAt(c, ch[n]).in[k] : n \in 1 .. Len(ch), k \in 1 .. 2}
TagChain(c, ch) ==
  LET tagged == [c EXCEPT !.nodes = Row([k \in DOMAIN c.nodes |->
        IF k - 1 \in Absorbed(c, ch)
        THEN [c.nodes[k] EXCEPT !.flags = @ \cup {"Member"}] ELSE c.nodes[k]])]
  IN  Mark(tagged, ch[1], "Head")
HasBridges(c) == \E n \in Ids(c) : NodeAt(c, n).op \in BridgeOps
pass_fma_reduce(c) ==
  LET Try(d, n) == IF Heads(d, n) /\ Reducible(d, Chain(d, n))
                   THEN TagChain(d, Chain(d, n)) ELSE d
  IN  IF HasBridges(c) THEN c ELSE Walk(Try, c, Ascending(c))

-----------------------------------------------------------------------------
(* FCOM or FTST, then FSTSW: the condition code stays in a register.       *)
Uninterrupted(c, f, n) ==
  \A j \in f + 1 .. n - 1 : j \in Alive(c) => NodeAt(c, j).op \notin Compares
pass_fcom_fstsw_fusion(c) ==
  LET Try(d, n) ==
        LET f == NodeAt(d, n).in[1]
        IN  IF /\ n \in Alive(d) /\ NodeAt(d, n).op = "FStsw"
               /\ f \in Ids(d) /\ NodeAt(d, f).op \in Compares /\ Uninterrupted(d, f, n)
            THEN Mark(Mark(d, f, "FcomFused"), n, "FcomFused") ELSE d
  IN  Walk(Try, c, Ascending(c))

-----------------------------------------------------------------------------
(* An int64 that is only copied is copied as 64 bits.                      *)
node_refs(n) == IF n.op = "FStsw" THEN 1 ELSE 3
StoresOf(c, n) == {j \in Alive(c) : NodeAt(c, j).op = "StoreI64" /\ NodeAt(c, j).in[1] = n}
OtherUse(c, n) ==
  \/ OnStack(c, n)
  \/ \E j \in Alive(c), k \in 1 .. 3 :
        /\ k <= node_refs(NodeAt(c, j)) /\ NodeAt(c, j).in[k] = n
        /\ ~(NodeAt(c, j).op = "StoreI64" /\ k = 1)
Copied(c) == {n \in Alive(c) :
  /\ NodeAt(c, n).op = "LoadI64" /\ ~OtherUse(c, n) /\ StoresOf(c, n) # {}}
pass_exact_i64_copy(c) ==
  [c EXCEPT !.nodes = Row([k \in DOMAIN c.nodes |->
     LET n == c.nodes[k]
     IN  IF k - 1 \in Copied(c) THEN [n EXCEPT !.op = "LoadF64"]
         ELSE IF n.op = "StoreI64" /\ ~Dead(n) /\ n.in[1] \in Copied(c)
              THEN [n EXCEPT !.op = "StoreF64", !.flags = @ \ {"Truncate"}]
         ELSE n])]

-----------------------------------------------------------------------------
optimize(c, opts) ==
  LET d == pass_dse(c)
      m == IF opts.contract THEN pass_fma(d) ELSE d
      r == IF opts.reduce THEN pass_fma_reduce(m) ELSE m
      f == pass_fcom_fstsw_fusion(r)
  IN  IF opts.exact THEN pass_exact_i64_copy(f) ELSE f
=============================================================================
