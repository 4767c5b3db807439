-------------------------- MODULE X87Pools_proofs --------------------------
(***************************************************************************)
(* The pools never run dry: PoolSuffices, for programs of any length.      *)
(*                                                                         *)
(* X87Lowering_proofs asks three things of a graph.  Here they are shown   *)
(* of every graph that reaches lower: what build draws is Drawn, the       *)
(* passes make it Ordered, and relief keeps it so, one node made again at  *)
(* a time.  An FSTSW has a comparison of its own because the program does  *)
(* not fetch one twice (Separated), which building follows by what of the  *)
(* program it has consumed.  The rest is bookkeeping: outside of lowering  *)
(* nothing takes a register that it could lack, between instructions every *)
(* register is back (Apt), and a body that is lowered fits the budgets,    *)
(* which are no larger than the pools.  PInv puts them together, beside    *)
(* the invariant IInv of X87Region_proofs.                                 *)
(***************************************************************************)
EXTENDS X87Lowering_proofs

-----------------------------------------------------------------------------
(* Building *)

\* A reference is to a node there is, or to none.
Ref(c, r) == r \in Int /\ r < Len(c.nodes)
\* No two FSTSWs wait for the same comparison.
Fetchers(c) == {i \in Ids(c) : NodeAt(c, i).op = "FStsw"}
Fetches(c)  == {NodeAt(c, i).in[1] : i \in Fetchers(c)}
Distinct(c) ==
  \A i, j \in Fetchers(c) :
     NodeAt(c, i).in[1] \in Ids(c) /\ NodeAt(c, i).in[1] = NodeAt(c, j).in[1] => i = j
\* No pass has marked a node.
NodeFields == {"op", "in", "flags"}
Unmarked(n) ==
  NodeFields \subseteq DOMAIN n /\ "Member" \notin n.flags /\ "Head" \notin n.flags
      /\ "FcomFused" \notin n.flags
Bare(c)     == \A i \in Ids(c) : Unmarked(NodeAt(c, i))
GraphFields == {"nodes", "val", "delta", "read", "fcmp", "fcomi", "consumed", "ok", "x", "last"}

\* What building keeps of a context.
Drawn(c) ==
  /\ GraphFields \subseteq DOMAIN c /\ IsSeq(c.nodes) /\ Wellformed(c) /\ Distinct(c) /\ Bare(c)
  /\ DOMAIN c.val = Slots /\ DOMAIN c.read = Slots
  /\ \A d \in Slots : Ref(c, c.val[d]) /\ Ref(c, c.read[d])
  /\ Ref(c, c.fcmp) /\ c.delta \in Int

LEMMA Appended ==
  ASSUME NEW q, IsSeq(q), NEW e
  PROVE  /\ IsSeq(Append(q, e)) /\ Len(q) \in Nat /\ Len(Append(q, e)) = Len(q) + 1
         /\ \A k \in 1..Len(q) : Append(q, e)[k] = q[k]
         /\ Append(q, e)[Len(q) + 1] = e
<1>1. PICK T : q \in Seq(T)
  BY DEF IsSeq
<1>2. q \in Seq(T \cup {e}) /\ e \in T \cup {e}
  BY <1>1
<1>3. IsSeq(Append(q, e))
  BY <1>2 DEF IsSeq
<1> QED BY <1>2, <1>3

\* A context with one more node.
LEMMA NodeDrawn ==
  ASSUME NEW c, Drawn(c), NEW n, Formed(n, Len(c.nodes)), Unmarked(n),
         n.op = "FStsw" => n.in[1] < 0 \/ n.in[1] \notin Fetches(c),
         NEW d, GraphFields \subseteq DOMAIN d, d.nodes = Append(c.nodes, n), d.val = c.val,
         d.read = c.read, d.fcmp = c.fcmp, d.delta = c.delta
  PROVE  /\ Drawn(d) /\ Len(d.nodes) = Len(c.nodes) + 1
         /\ n.op # "FStsw" => Fetches(d) = Fetches(c)
<1> DEFINE N == Len(c.nodes)
<1>1. /\ N \in Nat /\ IsSeq(d.nodes) /\ Len(d.nodes) = N + 1
      /\ (\A k \in 1..N : d.nodes[k] = c.nodes[k]) /\ d.nodes[N + 1] = n
  BY Appended DEF Drawn
<1>2. /\ Ids(c) = 0..N - 1 /\ Ids(d) = Ids(c) \cup {N} /\ NodeAt(d, N) = n /\ N \notin Ids(c)
      /\ \A i \in Ids(c) : NodeAt(d, i) = NodeAt(c, i) /\ i \in Int /\ i < N
  BY <1>1 DEF Ids, NodeAt
<1>3. Wellformed(d) /\ Bare(d)
  <2>1. \A i \in Ids(c) : Formed(NodeAt(c, i), i) /\ Unmarked(NodeAt(c, i))
    BY DEF Drawn, Wellformed, Bare
  <2> QED BY <1>1, <1>2, <2>1 DEF Wellformed, Bare
<1>4. Fetchers(d) = Fetchers(c) \cup {i \in {N} : n.op = "FStsw"}
  BY <1>2 DEF Fetchers
<1>5. \A i \in Fetchers(c) : /\ i \in Ids(c) /\ NodeAt(c, i).in[1] \in Int /\ NodeAt(c, i).in[1] < i
                             /\ NodeAt(d, i).in[1] = NodeAt(c, i).in[1]
  BY <1>2 DEF Fetchers, Drawn, Wellformed, Formed
<1>6. n.in[1] \in Int /\ n.in[1] < N
  BY DEF Formed
<1>7. Distinct(d)
  <2> SUFFICES ASSUME NEW i \in Fetchers(d), NEW j \in Fetchers(d),
                      NodeAt(d, i).in[1] \in Ids(d), NodeAt(d, i).in[1] = NodeAt(d, j).in[1]
               PROVE  i = j
    BY DEF Distinct
  <2>1. CASE i \in Fetchers(c) /\ j \in Fetchers(c)
    <3>1. NodeAt(c, i).in[1] \in Ids(c)
      BY <1>2, <1>5, <2>1
    <3> QED BY <1>5, <2>1, <3>1 DEF Drawn, Distinct
  <2>2. CASE i \in Fetchers(c) /\ j \notin Fetchers(c)
    <3>1. j = N /\ n.op = "FStsw"
      BY <1>4, <2>2
    <3>2. NodeAt(c, i).in[1] = n.in[1] /\ n.in[1] \in Fetches(c)
      BY <1>2, <1>5, <2>2, <3>1 DEF Fetches
    <3>3. ~(n.in[1] < 0)
      BY <1>1, <1>2, <1>5, <2>2, <3>2
    <3> QED BY <3>1, <3>2, <3>3
  <2>3. CASE i \notin Fetchers(c) /\ j \in Fetchers(c)
    <3>1. i = N /\ n.op = "FStsw"
      BY <1>4, <2>3
    <3>2. NodeAt(c, j).in[1] = n.in[1] /\ n.in[1] \in Fetches(c)
      BY <1>2, <1>5, <2>3, <3>1 DEF Fetches
    <3>3. ~(n.in[1] < 0)
      BY <1>1, <1>2, <1>5, <2>3, <3>1
    <3> QED BY <3>1, <3>2, <3>3
  <2>4. CASE i \notin Fetchers(c) /\ j \notin Fetchers(c)
    BY <1>4, <2>4
  <2> QED BY <2>1, <2>2, <2>3, <2>4
<1>8. ASSUME n.op # "FStsw" PROVE Fetches(d) = Fetches(c)
  <2>1. Fetchers(d) = Fetchers(c)
    BY <1>4, <1>8
  <2> QED BY <1>5, <2>1 DEF Fetches
<1>9. \A r : Ref(c, r) => Ref(d, r)
  BY <1>1 DEF Ref
<1> QED BY <1>1, <1>3, <1>7, <1>8, <1>9 DEF Drawn

\* From c to d nodes have been built, and no comparison or FSTSW among them.
Draws(c, d) ==
  Drawn(c) => /\ Drawn(d) /\ d.fcmp = c.fcmp /\ Fetches(d) = Fetches(c)
              /\ Len(d.nodes) >= Len(c.nodes)

LEMMA DrawsThrough ==
  ASSUME NEW c, NEW d, NEW e, Draws(c, d), Draws(d, e)
  PROVE  Draws(c, e)
<1>1. Drawn(c) => Len(c.nodes) \in Nat /\ Len(d.nodes) \in Nat /\ Len(e.nodes) \in Nat
  BY DEF Draws, Drawn, Wellformed
<1> QED BY <1>1 DEF Draws

\* What a node may be given.
Takes(c, op, in, flags) ==
  /\ \A k \in 1..3 : in[k] \in Int
  /\ Ref(c, in[1]) /\ (op # "FStsw" => Ref(c, in[2]) /\ Ref(c, in[3]))
  /\ op \in Loads \cup Consts => \A k \in 1..3 : in[k] = None
  /\ op \in Stores => in[2] = None /\ in[3] = None
  /\ op = "FScale" => in[3] = None
  /\ op \in ValueOps \cup EffectOps
  /\ flags \cap {"Dead", "Member", "Head", "FcomFused"} = {}
  /\ op = "FStsw" => in[1] < 0 \/ in[1] \notin Fetches(c)

\* A node is added after those it refers to.
LEMMA AddDrawn ==
  ASSUME NEW c, Drawn(c), NEW op, NEW in, NEW arg, NEW flags, Takes(c, op, in, flags)
  PROVE  LET d == add_node(c, op, in, arg, flags)
         IN  /\ Drawn(d) /\ d.fcmp = c.fcmp /\ d.val = c.val /\ d.read = c.read /\ d.delta = c.delta
             /\ op # "FStsw" => Fetches(d) = Fetches(c)
             /\ Len(d.nodes) >= Len(c.nodes)
             /\ d.ok => Len(d.nodes) = Len(c.nodes) + 1
             /\ c.ok /\ Len(c.nodes) < MaxNodes => d.ok
<1> DEFINE d == add_node(c, op, in, arg, flags)
           a == InputValues(c, in)
           n == [op |-> op, in |-> in, arg |-> arg, flags |-> flags, src |-> c.consumed,
                 v |-> Value(c.x, op, a, arg)]
           x == Effect(c.x, op, in, a, arg, flags)
           new == [c EXCEPT !.nodes = Append(@, n), !.x = x]
<1>0. Len(c.nodes) \in Nat
  BY DEF Drawn, Wellformed
<1>1. d = IF ~c.ok THEN c ELSE IF Len(c.nodes) >= MaxNodes THEN Fail(c) ELSE new
  BY DEF add_node
<1> HIDE DEF a, x, d
<1>2. CASE ~c.ok
  BY <1>0, <1>1, <1>2 DEF d
<1>3. CASE c.ok /\ Len(c.nodes) >= MaxNodes
  <2> DEFINE f == Fail(c)
  <2>1. /\ DOMAIN f = DOMAIN c /\ f.nodes = c.nodes /\ f.val = c.val /\ f.read = c.read
        /\ f.fcmp = c.fcmp /\ f.delta = c.delta /\ (f.ok = FALSE)
    BY DEF Fail, Drawn, GraphFields
  <2> HIDE DEF f
  <2>2. /\ Ids(f) = Ids(c) /\ Fetchers(f) = Fetchers(c) /\ Fetches(f) = Fetches(c)
        /\ \A r : Ref(f, r) = Ref(c, r)
    BY <2>1 DEF Ids, NodeAt, Fetchers, Fetches, Ref
  <2>3. Drawn(f)
    <3>1. \A i : NodeAt(f, i) = NodeAt(c, i)
      BY <2>1 DEF NodeAt
    <3>2. Wellformed(f) /\ Distinct(f) /\ Bare(f)
      BY <2>1, <2>2, <3>1 DEF Drawn, Wellformed, Distinct, Bare
    <3> QED BY <2>1, <2>2, <3>2 DEF Drawn
  <2>4. d = f
    BY <1>1, <1>3 DEF f
  <2>5. ~(Len(c.nodes) < MaxNodes)
    BY <1>0, <1>3, MaxNodesAssumption
  <2> QED BY <1>0, <2>1, <2>2, <2>3, <2>4, <2>5 DEF d
<1>4. CASE c.ok /\ ~(Len(c.nodes) >= MaxNodes)
  <2>1. d = new
    BY <1>1, <1>4
  <2>2. n.op = op /\ n.in = in /\ n.flags = flags /\ NodeFields \subseteq DOMAIN n
    BY DEF NodeFields
  <2> HIDE DEF n
  <2>3. /\ DOMAIN new = DOMAIN c /\ new.nodes = Append(c.nodes, n) /\ new.val = c.val
        /\ new.read = c.read /\ new.fcmp = c.fcmp /\ new.delta = c.delta /\ new.ok = c.ok
    BY DEF Drawn, GraphFields
  <2> HIDE DEF new
  <2>4. Formed(n, Len(c.nodes)) /\ Unmarked(n)
    <3>1. ~Dead(n) /\ Unmarked(n)
      BY <2>2 DEF Takes, Dead, Unmarked
    <3>2. n.in[1] < Len(c.nodes) /\ (n.op # "FStsw" => n.in[2] < Len(c.nodes) /\ n.in[3] < Len(c.nodes))
      BY <2>2 DEF Takes, Ref
    <3> QED BY <2>2, <3>1, <3>2 DEF Takes, Formed
  <2>5. /\ Drawn(new) /\ Len(new.nodes) = Len(c.nodes) + 1
        /\ n.op # "FStsw" => Fetches(new) = Fetches(c)
    <3>1. GraphFields \subseteq DOMAIN new
      BY <2>3 DEF Drawn
    <3>2. n.op = "FStsw" => n.in[1] < 0 \/ n.in[1] \notin Fetches(c)
      BY <2>2 DEF Takes
    <3> QED BY <2>3, <2>4, <3>1, <3>2, NodeDrawn
  <2> QED BY <1>0, <1>4, <2>1, <2>2, <2>3, <2>5 DEF d
<1> QED BY <1>2, <1>3, <1>4

LEMMA SlotFacts ==
  /\ 0 \in Slots /\ 1 \in Slots /\ Slots \subseteq Int
  /\ \A d \in Slots : /\ d # 0 => d - 1 \in Slots
                      /\ d # NSlots - 1 => d + 1 \in Slots
BY NSlotsAssumption DEF Slots

\* The same nodes, whatever the symbolic stack makes of them.
LEMMA Redrawn ==
  ASSUME NEW c, Drawn(c), NEW d, GraphFields \subseteq DOMAIN d, d.nodes = c.nodes,
         DOMAIN d.val = Slots, DOMAIN d.read = Slots,
         \A k \in Slots : Ref(c, d.val[k]) /\ Ref(c, d.read[k]),
         Ref(c, d.fcmp), d.delta \in Int
  PROVE  Drawn(d) /\ Fetches(d) = Fetches(c) /\ Len(d.nodes) = Len(c.nodes)
<1>1. /\ Ids(d) = Ids(c) /\ (\A i : NodeAt(d, i) = NodeAt(c, i)) /\ \A r : Ref(d, r) = Ref(c, r)
  BY DEF Ids, NodeAt, Ref
<1>2. Fetchers(d) = Fetchers(c) /\ Fetches(d) = Fetches(c)
  BY <1>1 DEF Fetchers, Fetches
<1>3. Wellformed(d) /\ Distinct(d) /\ Bare(d)
  BY <1>1, <1>2 DEF Drawn, Wellformed, Distinct, Bare
<1> QED BY <1>1, <1>2, <1>3 DEF Drawn

LEMMA DrawsSame ==
  ASSUME NEW c PROVE Draws(c, c)
<1>1. Drawn(c) => Len(c.nodes) \in Nat
  BY DEF Drawn, Wellformed
<1> QED BY <1>1 DEF Draws

LEMMA FieldsDraw ==
  ASSUME NEW c, NEW b
  PROVE  Draws(c, [c EXCEPT !.ok = b]) /\ Draws(c, Fail(c)) /\ Draws(c, [c EXCEPT !.fcomi = b])
<1>1. \A y : Draws(c, [c EXCEPT !.ok = y]) /\ Draws(c, [c EXCEPT !.fcomi = y])
  <2> SUFFICES ASSUME NEW y, Drawn(c)
               PROVE  Draws(c, [c EXCEPT !.ok = y]) /\ Draws(c, [c EXCEPT !.fcomi = y])
    BY DEF Draws
  <2> DEFINE d == [c EXCEPT !.ok = y]
             e == [c EXCEPT !.fcomi = y]
  <2>0. Len(c.nodes) \in Nat
    BY DEF Drawn, Wellformed
  <2>1. /\ GraphFields \subseteq DOMAIN d /\ d.nodes = c.nodes /\ d.val = c.val /\ d.read = c.read
        /\ d.fcmp = c.fcmp /\ d.delta = c.delta
    BY DEF Drawn, GraphFields
  <2>2. /\ GraphFields \subseteq DOMAIN e /\ e.nodes = c.nodes /\ e.val = c.val /\ e.read = c.read
        /\ e.fcmp = c.fcmp /\ e.delta = c.delta
    BY DEF Drawn, GraphFields
  <2> HIDE DEF d, e
  <2>3. Drawn(d) /\ Fetches(d) = Fetches(c) /\ Len(d.nodes) = Len(c.nodes)
    BY <2>1, Redrawn DEF Drawn
  <2>4. Drawn(e) /\ Fetches(e) = Fetches(c) /\ Len(e.nodes) = Len(c.nodes)
    BY <2>2, Redrawn DEF Drawn
  <2>5. Draws(c, d) /\ Draws(c, e)
    BY <2>0, <2>1, <2>2, <2>3, <2>4 DEF Draws
  <2> QED BY <2>5 DEF d, e
<1> QED BY <1>1 DEF Fail

\* A register of the symbolic stack is given a node.
LEMMA ValDraws ==
  ASSUME NEW c, Drawn(c), NEW k, NEW n, Ref(c, n)
  PROVE  LET d == [c EXCEPT !.val[k] = n]
         IN  Drawn(d) /\ d.fcmp = c.fcmp /\ Fetches(d) = Fetches(c) /\ Len(d.nodes) = Len(c.nodes)
<1> DEFINE d == [c EXCEPT !.val[k] = n]
<1>1. /\ GraphFields \subseteq DOMAIN d /\ d.nodes = c.nodes /\ d.val = [c.val EXCEPT ![k] = n]
      /\ d.read = c.read /\ d.fcmp = c.fcmp /\ d.delta = c.delta
  BY DEF Drawn, GraphFields
<1>2. DOMAIN d.val = Slots /\ \A j \in Slots : Ref(c, d.val[j])
  BY <1>1 DEF Drawn
<1> HIDE DEF d
<1>3. Drawn(d) /\ Fetches(d) = Fetches(c) /\ Len(d.nodes) = Len(c.nodes)
  BY <1>1, <1>2, Redrawn DEF Drawn
<1> QED BY <1>1, <1>3 DEF d

LEMMA NewestRef ==
  ASSUME NEW c, Drawn(c)
  PROVE  Ref(c, Newest(c)) /\ Ref(c, None) /\ Newest(c) = Len(c.nodes) - 1 /\ Len(c.nodes) \in Nat
BY DEF Drawn, Wellformed, Ref, Newest, None

\* The symbolic stack is pushed and popped.
LEMMA StackDraws ==
  ASSUME NEW c, NEW k
  PROVE  /\ Draws(c, Place(c, k)) /\ Draws(c, pop(c)) /\ Draws(c, PushNewest(c))
         /\ \A n : Ref(c, n) => Draws(c, push(c, n))
         /\ \A n : Draws(c, pop_n(c, n)) /\ Draws(c, PopWhen(c, n))
<1>1. Draws(c, Place(c, k))
  <2> SUFFICES ASSUME Drawn(c), c.ok PROVE Draws(c, [c EXCEPT !.val[k] = Newest(c)])
    BY DrawsSame DEF Place, Draws
  <2> DEFINE d == [c EXCEPT !.val[k] = Newest(c)]
  <2>1. Drawn(d) /\ d.fcmp = c.fcmp /\ Fetches(d) = Fetches(c) /\ Len(d.nodes) = Len(c.nodes)
    BY NewestRef, ValDraws
  <2> HIDE DEF d
  <2>2. Draws(c, d)
    BY <2>1, NewestRef DEF Draws
  <2> QED BY <2>2 DEF d
<1>2. ASSUME NEW b, NEW n, Ref(b, n) PROVE Draws(b, push(b, n))
  <2> SUFFICES ASSUME Drawn(b), b.ok PROVE Draws(b, push(b, n))
    BY DrawsSame DEF push, Draws
  <2> DEFINE d == push(b, n)
  <2>1. /\ GraphFields \subseteq DOMAIN d /\ d.nodes = b.nodes /\ d.read = b.read /\ d.fcmp = b.fcmp
        /\ d.val = [j \in Slots |-> IF j = 0 THEN n ELSE b.val[j - 1]] /\ d.delta = b.delta - 1
    BY DEF Drawn, GraphFields, push
  <2> HIDE DEF d
  <2>2. DOMAIN d.val = Slots /\ \A j \in Slots : Ref(b, d.val[j])
    BY <1>2, <2>1, SlotFacts DEF Drawn
  <2>3. Drawn(d) /\ Fetches(d) = Fetches(b) /\ Len(d.nodes) = Len(b.nodes)
    <3>1. d.delta \in Int
      BY <2>1 DEF Drawn
    <3> QED BY <2>1, <2>2, <3>1, Redrawn DEF Drawn
  <2> QED BY <2>1, <2>3, NewestRef DEF Draws, d
<1>3. ASSUME NEW b PROVE Draws(b, pop(b))
  <2> SUFFICES ASSUME Drawn(b), b.ok PROVE Draws(b, pop(b))
    BY DrawsSame DEF pop, Draws
  <2> DEFINE d == pop(b)
  <2>1. /\ GraphFields \subseteq DOMAIN d /\ d.nodes = b.nodes /\ d.read = b.read /\ d.fcmp = b.fcmp
        /\ d.val = [j \in Slots |-> IF j = NSlots - 1 THEN PoppedPast ELSE b.val[j + 1]]
        /\ d.delta = b.delta + 1
    BY DEF Drawn, GraphFields, pop
  <2> HIDE DEF d
  <2>2. Ref(b, PoppedPast)
    BY NewestRef DEF Ref, PoppedPast
  <2>3. DOMAIN d.val = Slots /\ \A j \in Slots : Ref(b, d.val[j])
    BY <2>1, <2>2, SlotFacts DEF Drawn
  <2>4. Drawn(d) /\ Fetches(d) = Fetches(b) /\ Len(d.nodes) = Len(b.nodes)
    <3>1. d.delta \in Int
      BY <2>1 DEF Drawn
    <3> QED BY <2>1, <2>3, <3>1, Redrawn DEF Drawn
  <2> QED BY <2>1, <2>4, NewestRef DEF Draws, d
<1>4. Draws(c, PushNewest(c))
  <2> SUFFICES ASSUME Drawn(c) PROVE Draws(c, PushNewest(c))
    BY DEF Draws
  <2> QED BY <1>2, NewestRef DEF PushNewest
<1>5. \A n : Draws(c, pop_n(c, n)) /\ Draws(c, PopWhen(c, n))
  BY <1>3, DrawsSame, DrawsThrough DEF pop_n, PopWhen
<1> QED BY <1>1, <1>2, <1>3, <1>4, <1>5

\* A node that is neither a comparison nor an FSTSW.
LEMMA AddDraws ==
  ASSUME NEW c, NEW op, op # "FStsw", NEW in, NEW arg, NEW flags,
         Drawn(c) => Takes(c, op, in, flags)
  PROVE  Draws(c, add_node(c, op, in, arg, flags))
<1> SUFFICES ASSUME Drawn(c) PROVE Draws(c, add_node(c, op, in, arg, flags))
  BY DEF Draws
<1> DEFINE d == add_node(c, op, in, arg, flags)
<1>1. /\ Drawn(d) /\ d.fcmp = c.fcmp /\ Fetches(d) = Fetches(c) /\ Len(d.nodes) >= Len(c.nodes)
  BY AddDrawn
<1> HIDE DEF d
<1> QED BY <1>1 DEF Draws, d

\* A register that is read for the first time becomes a ReadSt.
LEMMA ResolveDraws ==
  ASSUME NEW c, NEW d \in Slots
  PROVE  Draws(c, resolve(c, d)) /\ Draws(c, ThenResolve(c, d))
<1>1. Draws(c, resolve(c, d))
  <2> SUFFICES ASSUME Drawn(c) PROVE Draws(c, resolve(c, d))
    BY DEF Draws
  <2> DEFINE init == -(c.val[d] + 1)
             b == [c EXCEPT !.ok = TRUE]
             r == add_node(b, "ReadSt", <<None, None, None>>, init, {})
             e == [c EXCEPT !.val[d] = c.read[init]]
             f == [r EXCEPT !.ok = c.ok, !.read[init] = Newest(r), !.val[d] = Newest(r)]
  <2>1. Draws(c, Fail(c)) /\ Draws(c, c)
    BY FieldsDraw, DrawsSame
  <2>2. ASSUME init \in Slots PROVE Draws(c, e)
    <3>1. Ref(c, c.read[init])
      BY <2>2 DEF Drawn
    <3>2. Drawn(e) /\ e.fcmp = c.fcmp /\ Fetches(e) = Fetches(c) /\ Len(e.nodes) = Len(c.nodes)
      BY <3>1, ValDraws
    <3> HIDE DEF e
    <3> QED BY <3>2, NewestRef DEF Draws
  <2>3. Draws(c, f)
    <3>1. Draws(c, b) /\ Drawn(b)
      BY FieldsDraw DEF Draws
    <3>2. Takes(b, "ReadSt", <<None, None, None>>, {})
      <4> HIDE DEF b
      <4>1. Ref(b, None)
        BY <3>1, NewestRef
      <4> QED BY <4>1 DEF Takes, None, ValueOps, EffectOps, Loads, Consts, Stores, IntStores
    <3>3. Draws(b, r)
      <4> HIDE DEF b, init
      <4> QED BY <3>2, AddDraws
    <3>4. Drawn(r) /\ Draws(c, r)
      <4> HIDE DEF b, r
      <4> QED BY <3>1, <3>3, DrawsThrough DEF Draws
    <3>5. Draws(r, f)
      <4> HIDE DEF r, init
      <4>1. /\ GraphFields \subseteq DOMAIN f /\ f.nodes = r.nodes /\ f.fcmp = r.fcmp /\ f.delta = r.delta
            /\ f.val = [r.val EXCEPT ![d] = Newest(r)] /\ f.read = [r.read EXCEPT ![init] = Newest(r)]
        BY <3>4 DEF Drawn, GraphFields
      <4> HIDE DEF f
      <4>2. Ref(r, Newest(r)) /\ Len(r.nodes) \in Nat
        BY <3>4, NewestRef
      <4>3. /\ DOMAIN f.val = Slots /\ DOMAIN f.read = Slots
            /\ \A k \in Slots : Ref(r, f.val[k]) /\ Ref(r, f.read[k])
        BY <3>4, <4>1, <4>2 DEF Drawn
      <4>4. Drawn(f) /\ Fetches(f) = Fetches(r) /\ Len(f.nodes) = Len(r.nodes)
        BY <3>4, <4>1, <4>3, Redrawn DEF Drawn
      <4> QED BY <4>1, <4>2, <4>4 DEF Draws
    <3> HIDE DEF r, f
    <3> QED BY <3>4, <3>5, DrawsThrough
  <2>4. resolve(c, d) \in {c, Fail(c), f} \/ (init \in Slots /\ resolve(c, d) = e)
    BY DEF resolve
  <2> HIDE DEF e, f, init
  <2> QED BY <2>1, <2>2, <2>3, <2>4
<1> QED BY <1>1, DrawsSame DEF ThenResolve

\* The flags building gives.
Plain == {"Popping", "Truncate", "Wide"}

\* Kinds of nodes do not overlap.
LEMMA OpsApart ==
  /\ Loads \cup Consts \cup Stores \cup Binaries \cup Unaries \cup Compares \cup BridgeOps
        \cup {"ReadSt", "FRndInt", "FCSel", "FComI", "StoreCW", "LoadCW"} \subseteq ValueOps \cup EffectOps
  /\ "FStsw" \notin Loads \cup Consts \cup Stores \cup Binaries \cup Unaries \cup Compares \cup BridgeOps
  /\ "FScale" \notin Loads \cup Consts \cup Stores \cup Unaries \cup Compares \cup BridgeOps
  /\ Binaries \cap (Loads \cup Consts \cup Stores) = {}
  /\ Unaries \cap (Loads \cup Consts \cup Stores) = {}
  /\ Compares \cap (Loads \cup Consts \cup Stores) = {}
  /\ BridgeOps \cap (Loads \cup Consts \cup Stores) = {}
  /\ (Loads \cup Consts) \cap Stores = {}
  /\ \A op \in {"ReadSt", "FRndInt", "FCSel", "FComI", "StoreCW", "LoadCW"} :
        op \notin Loads \cup Consts \cup Stores
BY DEF Loads, Consts, Stores, IntStores, Binaries, Unaries, Trigs, Compares, BridgeOps, ValueOps,
       EffectOps, Fmas

\* The inputs each kind of node is given.
LEMMA InputsTake ==
  ASSUME NEW c, Drawn(c), NEW flags, flags \subseteq Plain
  PROVE  /\ \A op \in Loads \cup Consts \cup {"ReadSt", "StoreCW", "LoadCW"} : Takes(c, op, NoInputs, flags)
         /\ \A op \in Unaries \cup Stores \cup {"FRndInt", "FTst"} : \A a : Ref(c, a)
              => Takes(c, op, One1(a), flags)
         /\ \A op \in Binaries \cup {"FCSel", "FComI", "FCmp"} : \A rev, a, b :
               Ref(c, a) /\ Ref(c, b) => Takes(c, op, Two(rev, a, b), flags)
         /\ \A op \in BridgeOps : \A a, b : Ref(c, a) /\ Ref(c, b) => Takes(c, op, <<a, b, None>>, flags)
<1>1. Ref(c, None) /\ None \in Int /\ \A a : Ref(c, a) => a \in Int
  BY NewestRef DEF Ref, None
<1>2. flags \cap {"Dead", "Member", "Head", "FcomFused"} = {}
  BY DEF Plain
<1>3. ASSUME NEW op \in Loads \cup Consts \cup {"ReadSt", "StoreCW", "LoadCW"}
      PROVE  Takes(c, op, NoInputs, flags)
  <2>1. op \in ValueOps \cup EffectOps /\ op # "FStsw" /\ op # "FScale"
    BY <1>3, OpsApart
  <2> QED BY <1>1, <1>2, <2>1 DEF Takes, NoInputs
<1>4. ASSUME NEW op \in Unaries \cup Stores \cup {"FRndInt", "FTst"}, NEW a, Ref(c, a)
      PROVE  Takes(c, op, One1(a), flags)
  <2>1. op \in ValueOps \cup EffectOps /\ op # "FStsw" /\ op # "FScale" /\ op \notin Loads \cup Consts
    BY <1>4, OpsApart DEF Compares
  <2> QED BY <1>1, <1>2, <1>4, <2>1 DEF Takes, One1
<1>5. ASSUME NEW op \in Binaries \cup {"FCSel", "FComI", "FCmp"}, NEW rev, NEW a, NEW b,
             Ref(c, a), Ref(c, b)
      PROVE  Takes(c, op, Two(rev, a, b), flags)
  <2>1. op \in ValueOps \cup EffectOps /\ op # "FStsw" /\ op \notin Loads \cup Consts \cup Stores
    BY <1>5, OpsApart DEF Compares
  <2> QED BY <1>1, <1>2, <1>5, <2>1 DEF Takes, Two
<1>6. ASSUME NEW op \in BridgeOps, NEW a, NEW b, Ref(c, a), Ref(c, b)
      PROVE  Takes(c, op, <<a, b, None>>, flags)
  <2>1. op \in ValueOps \cup EffectOps /\ op # "FStsw" /\ op # "FScale"
            /\ op \notin Loads \cup Consts \cup Stores
    BY <1>6, OpsApart
  <2> QED BY <1>1, <1>2, <1>6, <2>1 DEF Takes
<1> QED BY <1>3, <1>4, <1>5, <1>6

LEMMA ValRef ==
  ASSUME NEW c, Drawn(c), NEW d \in Slots
  PROVE  Ref(c, c.val[d])
BY DEF Drawn

\* The arms of the switch that draw no comparison and no FSTSW.
LEMMA MemoryDraws ==
  ASSUME NEW c, NEW w, NEW o, NEW n \in Slots, NEW v, NEW flags, flags \subseteq Plain, NEW q
  PROVE  /\ Draws(c, build_load(c, w, o))
         /\ Ref(c, v) => Draws(c, build_store(c, w, o, v, flags))
         /\ Draws(c, build_const(c, v)) /\ Draws(c, build_fld(c, n)) /\ Draws(c, build_fldm(c, w, o))
         /\ Draws(c, build_fst(c, n, q)) /\ Draws(c, build_fstm(c, w, o, q, flags))
<1>0. {} \subseteq Plain /\ 0 \in Slots
  BY SlotFacts
<1>1. Draws(c, build_load(c, w, o))
  <2>1. Drawn(c) /\ w \in Loads => Takes(c, w, NoInputs, {})
    BY <1>0, InputsTake
  <2>2. w \in Loads => w # "FStsw"
    BY OpsApart
  <2>3. w \in Loads => Draws(c, add_node(c, w, NoInputs, o, {}))
    BY <2>1, <2>2, AddDraws
  <2> QED BY <2>3, FieldsDraw DEF build_load
<1>2. ASSUME NEW b, NEW m, Drawn(b) => Ref(b, m) PROVE Draws(b, build_store(b, w, o, m, flags))
  <2>1. Drawn(b) /\ w \in Stores => Takes(b, w, One1(m), flags)
    BY <1>2, InputsTake
  <2>2. w \in Stores => w # "FStsw"
    BY OpsApart
  <2>3. w \in Stores => Draws(b, add_node(b, w, One1(m), o, flags))
    BY <2>1, <2>2, AddDraws
  <2> QED BY <2>3, FieldsDraw DEF build_store
<1>3. Draws(c, build_const(c, v))
  <2> DEFINE d == add_node(c, ConstOp(v), NoInputs, v, {})
  <2>1. ConstOp(v) \in Consts
    BY DEF ConstOp, Consts
  <2>2. Drawn(c) => Takes(c, ConstOp(v), NoInputs, {})
    BY <1>0, <2>1, InputsTake
  <2>3. Draws(c, d)
    BY <2>1, <2>2, AddDraws, OpsApart
  <2> HIDE DEF d
  <2>4. Draws(c, PushNewest(d))
    BY <2>3, StackDraws, DrawsThrough
  <2> QED BY <2>4 DEF build_const, d
<1>4. Draws(c, build_fldm(c, w, o))
  BY <1>1, StackDraws, DrawsThrough DEF build_fldm
<1>5. Draws(c, build_fld(c, n))
  <2> SUFFICES ASSUME Drawn(c) PROVE Draws(c, build_fld(c, n))
    BY DEF Draws
  <2> DEFINE r == resolve(c, n)
  <2>1. Draws(c, r) /\ Drawn(r)
    BY ResolveDraws DEF Draws
  <2>2. build_fld(c, n) = push(r, r.val[n])
    BY DEF build_fld
  <2> HIDE DEF r
  <2>3. Draws(r, push(r, r.val[n]))
    BY <2>1, ValRef, StackDraws
  <2> QED BY <2>1, <2>2, <2>3, DrawsThrough
<1>6. Draws(c, build_fst(c, n, q))
  <2> SUFFICES ASSUME Drawn(c) PROVE Draws(c, build_fst(c, n, q))
    BY DEF Draws
  <2> DEFINE r == resolve(c, 0)
             m == IF r.ok /\ n # 0 THEN [r EXCEPT !.val[n] = r.val[0]] ELSE r
  <2>1. Draws(c, r) /\ Drawn(r)
    BY <1>0, ResolveDraws DEF Draws
  <2>2. Draws(r, m)
    <3> HIDE DEF r
    <3> DEFINE e == [r EXCEPT !.val[n] = r.val[0]]
    <3>1. Drawn(e) /\ e.fcmp = r.fcmp /\ Fetches(e) = Fetches(r) /\ Len(e.nodes) = Len(r.nodes)
      BY <1>0, <2>1, ValRef, ValDraws
    <3> HIDE DEF e
    <3>2. Draws(r, e)
      BY <2>1, <3>1, NewestRef DEF Draws
    <3>3. m \in {r, e}
      BY DEF e
    <3> QED BY <3>2, <3>3, DrawsSame
  <2>3. build_fst(c, n, q) = PopWhen(m, q)
    BY DEF build_fst
  <2> HIDE DEF r, m
  <2> QED BY <2>1, <2>2, <2>3, StackDraws, DrawsThrough
<1>7. Draws(c, build_fstm(c, w, o, q, flags))
  <2> DEFINE r == resolve(c, 0)
             m == build_store(r, w, o, r.val[0], flags)
  <2>1. Draws(c, r)
    BY <1>0, ResolveDraws
  <2>2. build_fstm(c, w, o, q, flags) = PopWhen(m, q)
    BY DEF build_fstm
  <2> HIDE DEF r
  <2>3. Draws(r, m)
    BY <1>0, <1>2, ValRef
  <2> HIDE DEF m
  <2> QED BY <2>1, <2>2, <2>3, StackDraws, DrawsThrough
<1> QED BY <1>1, <1>2, <1>3, <1>4, <1>5, <1>6, <1>7

\* A binary node on two registers the stack has resolved.
LEMMA TwoDraws ==
  ASSUME NEW r, NEW op \in Binaries \cup {"FCSel", "FComI"}, NEW rev, NEW a, NEW b, NEW arg,
         NEW flags, flags \subseteq Plain, Drawn(r) => Ref(r, a) /\ Ref(r, b)
  PROVE  Draws(r, add_node(r, op, Two(rev, a, b), arg, flags))
<1>1. Drawn(r) => Takes(r, op, Two(rev, a, b), flags)
  BY InputsTake
<1>2. op # "FStsw"
  BY OpsApart
<1> QED BY <1>1, <1>2, AddDraws

LEMMA ArithmeticDraws ==
  ASSUME NEW c, NEW op \in Binaries, NEW rev, NEW d \in Slots, NEW n \in Slots, NEW w, NEW o
  PROVE  /\ Draws(c, build_arith(c, op, rev, d, n)) /\ Draws(c, build_arithm(c, op, rev, w, o))
         /\ Draws(c, build_arithp(c, op, rev, d)) /\ Draws(c, build_binpop(c, op))
         /\ Draws(c, build_fscale(c))
<1>0. 0 \in Slots /\ 1 \in Slots /\ {} \subseteq Plain
  BY SlotFacts
<1>1. ASSUME NEW a \in Slots, NEW b \in Slots PROVE Draws(c, resolve(resolve(c, a), b))
  BY ResolveDraws, DrawsThrough
<1>2. \A m \in Slots : Draws(c, build_arith(c, op, rev, d, m))
  <2> TAKE m \in Slots
  <2> DEFINE r == resolve(resolve(c, d), m)
             e == add_node(r, op, Two(rev, r.val[d], r.val[m]), None, {})
  <2>1. Draws(c, r)
    BY <1>1
  <2>2. build_arith(c, op, rev, d, m) = Place(e, d)
    BY DEF build_arith
  <2> HIDE DEF r
  <2>3. Draws(r, e)
    BY <1>0, ValRef, TwoDraws
  <2> HIDE DEF e
  <2> QED BY <2>1, <2>2, <2>3, StackDraws, DrawsThrough
<1>3. Draws(c, build_arithm(c, op, rev, w, o))
  <2> DEFINE r == resolve(c, 0)
             l == build_load(r, w, o)
             e == add_node(l, op, Two(rev, r.val[0], Newest(l)), None, {})
  <2>1. Draws(c, r) /\ Draws(r, l)
    <3>1. Draws(c, r)
      BY <1>0, ResolveDraws
    <3> HIDE DEF r
    <3> QED BY <1>0, <3>1, MemoryDraws
  <2>2. build_arithm(c, op, rev, w, o) = Place(e, 0)
    BY DEF build_arithm
  <2>3. Drawn(c) => Ref(l, r.val[0]) /\ Ref(l, Newest(l))
    <3> HIDE DEF r, l
    <3> SUFFICES ASSUME Drawn(c) PROVE Ref(l, r.val[0]) /\ Ref(l, Newest(l))
      OBVIOUS
    <3>1. Drawn(r) /\ Drawn(l) /\ Len(l.nodes) >= Len(r.nodes)
      BY <2>1 DEF Draws
    <3>2. Ref(r, r.val[0]) /\ Len(r.nodes) \in Nat /\ Len(l.nodes) \in Nat
      BY <1>0, <3>1, ValRef, NewestRef
    <3> QED BY <3>1, <3>2, NewestRef DEF Ref
  <2> HIDE DEF r, l
  <2>4. Drawn(c) => Draws(l, e)
    BY <1>0, <2>3, TwoDraws
  <2>5. Draws(c, l)
    BY <2>1, DrawsThrough
  <2> HIDE DEF e
  <2>6. Draws(c, e)
    BY <2>4, <2>5, DrawsThrough DEF Draws
  <2> QED BY <2>2, <2>6, StackDraws, DrawsThrough
<1>4. Draws(c, build_arithp(c, op, rev, d))
  BY <1>0, <1>2, StackDraws, DrawsThrough DEF build_arithp
<1>5. Draws(c, build_binpop(c, op))
  <2> DEFINE r == resolve(resolve(c, 0), 1)
             e == add_node(r, op, Two(FALSE, r.val[1], r.val[0]), None, {})
  <2>1. Draws(c, r)
    BY <1>0, <1>1
  <2>2. build_binpop(c, op) = pop(Place(e, 1))
    BY DEF build_binpop
  <2> HIDE DEF r
  <2>3. Draws(r, e)
    BY <1>0, ValRef, TwoDraws
  <2> HIDE DEF e
  <2> QED BY <2>1, <2>2, <2>3, StackDraws, DrawsThrough
<1>6. Draws(c, build_fscale(c))
  <2> DEFINE r == resolve(resolve(c, 0), 1)
             e == add_node(r, "FScale", Two(FALSE, r.val[0], r.val[1]), None, {})
  <2>1. Draws(c, r)
    BY <1>0, <1>1
  <2>2. build_fscale(c) = Place(e, 0)
    BY DEF build_fscale
  <2> HIDE DEF r
  <2>3. Draws(r, e)
    BY <1>0, ValRef, TwoDraws DEF Binaries
  <2> HIDE DEF e
  <2> QED BY <2>1, <2>2, <2>3, StackDraws, DrawsThrough
<1> QED BY <1>0, <1>2, <1>3, <1>4, <1>5, <1>6

-----------------------------------------------------------------------------
(* Arms of the switch *)

\* One node on the top of the stack.
LEMMA OneDraws ==
  ASSUME NEW r, NEW op \in Unaries \cup {"FRndInt"}, NEW a, NEW arg, Drawn(r) => Ref(r, a)
  PROVE  Draws(r, add_node(r, op, One1(a), arg, {}))
<1>1. Drawn(r) => Takes(r, op, One1(a), {})
  BY InputsTake
<1>2. op # "FStsw"
  BY OpsApart
<1> QED BY <1>1, <1>2, AddDraws

LEMMA UnaryDraws ==
  ASSUME NEW c, NEW op
  PROVE  Draws(c, build_unary(c, op))
<1> DEFINE r == resolve(c, 0)
           e == add_node(r, op, One1(r.val[0]), None, {})
<1>0. 0 \in Slots
  BY SlotFacts
<1>1. Draws(c, r)
  BY <1>0, ResolveDraws
<1>2. build_unary(c, op) = Fail(c) \/ (op \in Unaries \cup {"FRndInt"} /\ build_unary(c, op) = Place(e, 0))
  BY DEF build_unary
<1> HIDE DEF r
<1>3. op \in Unaries \cup {"FRndInt"} => Draws(r, e)
  BY <1>0, ValRef, OneDraws
<1> HIDE DEF e
<1> QED BY <1>1, <1>2, <1>3, StackDraws, DrawsThrough, FieldsDraw

LEMMA PairDraws ==
  ASSUME NEW c, NEW first \in Unaries, NEW second \in Unaries \cup Consts, NEW arg
  PROVE  Draws(c, build_pair(c, first, second, arg))
<1> DEFINE r == resolve(c, 0)
           a == add_node(r, first, One1(r.val[0]), None, {})
           in == IF second \in Consts THEN NoInputs ELSE One1(r.val[0])
           b == add_node(a, second, in, arg, {})
           e == [b EXCEPT !.val[0] = Newest(a)]
<1>0. 0 \in Slots /\ {} \subseteq Plain
  BY SlotFacts
<1>1. Draws(c, r)
  BY <1>0, ResolveDraws
<1>2. Draws(r, a)
  <2> HIDE DEF r
  <2> QED BY <1>0, ValRef, OneDraws
<1>3. Drawn(c) => /\ Drawn(r) /\ Drawn(a) /\ Ref(a, r.val[0])
  <2> HIDE DEF r, a
  <2> SUFFICES ASSUME Drawn(c) PROVE Drawn(r) /\ Drawn(a) /\ Ref(a, r.val[0])
    OBVIOUS
  <2>1. Drawn(r) /\ Drawn(a) /\ Len(a.nodes) >= Len(r.nodes)
    BY <1>1, <1>2 DEF Draws
  <2>2. Ref(r, r.val[0]) /\ Len(r.nodes) \in Nat /\ Len(a.nodes) \in Nat
    BY <1>0, <2>1, ValRef, NewestRef
  <2> QED BY <2>1, <2>2 DEF Ref
<1>4. Drawn(c) => Draws(a, b)
  <2> HIDE DEF r, a
  <2> SUFFICES ASSUME Drawn(c) PROVE Draws(a, b)
    OBVIOUS
  <2>1. second # "FStsw"
    BY OpsApart
  <2>2. Takes(a, second, in, {})
    <3>1. second \in Consts => Takes(a, second, NoInputs, {})
      BY <1>0, <1>3, InputsTake
    <3>2. second \notin Consts => Takes(a, second, One1(r.val[0]), {})
      BY <1>0, <1>3, InputsTake
    <3> QED BY <3>1, <3>2
  <2> HIDE DEF in
  <2> QED BY <2>1, <2>2, AddDraws
<1>5. build_pair(c, first, second, arg) \in {PushNewest(e), b}
  BY DEF build_pair
<1> HIDE DEF r, a, b
<1>6. Draws(c, b)
  BY <1>1, <1>2, <1>4, DrawsThrough DEF Draws
<1>7. Draws(c, e)
  <2> SUFFICES ASSUME Drawn(c) PROVE Draws(c, e)
    BY DEF Draws
  <2>1. Drawn(b) /\ Len(b.nodes) >= Len(a.nodes)
    BY <1>3, <1>4, <1>6 DEF Draws
  <2>2. Ref(b, Newest(a))
    <3>1. Len(b.nodes) \in Nat /\ Len(a.nodes) \in Nat
      BY <1>3, <2>1, NewestRef
    <3> QED BY <2>1, <3>1 DEF Ref, Newest
  <2>3. Drawn(e) /\ e.fcmp = b.fcmp /\ Fetches(e) = Fetches(b) /\ Len(e.nodes) = Len(b.nodes)
    BY <2>1, <2>2, ValDraws
  <2> HIDE DEF e
  <2>4. Draws(b, e)
    BY <2>1, <2>3, NewestRef DEF Draws
  <2> QED BY <1>6, <2>4, DrawsThrough
<1> HIDE DEF e
<1> QED BY <1>5, <1>6, <1>7, StackDraws, DrawsThrough

LEMMA OthersDraw ==
  ASSUME NEW c, NEW d \in Slots, NEW q, NEW o
  PROVE  /\ Draws(c, build_fxch(c, d)) /\ Draws(c, build_fcomi(c, d, q)) /\ Draws(c, build_fcmov(c, o, d))
         /\ Draws(c, add_node(c, "StoreCW", NoInputs, o, {}))
              /\ Draws(c, add_node(c, "LoadCW", NoInputs, o, {}))
<1>0. 0 \in Slots /\ {} \subseteq Plain /\ {"Popping"} \subseteq Plain
  BY SlotFacts DEF Plain
<1>1. Draws(c, build_fxch(c, d))
  <2> DEFINE b == [resolve(c, 0) EXCEPT !.ok = TRUE]
             r == resolve(b, d)
             e == [r EXCEPT !.ok = TRUE]
             f == [e EXCEPT !.val[0] = r.val[d]]
             g == [f EXCEPT !.val[d] = r.val[0]]
  <2>1. Draws(c, b)
    <3> DEFINE z == resolve(c, 0)
    <3>1. Draws(c, z)
      BY <1>0, ResolveDraws
    <3> HIDE DEF z
    <3>2. Draws(z, [z EXCEPT !.ok = TRUE])
      BY FieldsDraw
    <3>3. Draws(c, [z EXCEPT !.ok = TRUE])
      BY <3>1, <3>2, DrawsThrough
    <3> QED BY <3>3 DEF z
  <2>2. Draws(c, r)
    <3> HIDE DEF b
    <3> QED BY <2>1, ResolveDraws, DrawsThrough
  <2>3. build_fxch(c, d) \in {Fail(c), [r EXCEPT !.ok = TRUE, !.val[0] = r.val[d], !.val[d] = r.val[0]]}
    BY DEF build_fxch
  <2> HIDE DEF r
  <2>4. Draws(c, e)
    BY <2>2, FieldsDraw, DrawsThrough
  <2>5. [r EXCEPT !.ok = TRUE, !.val[0] = r.val[d], !.val[d] = r.val[0]] = g
    OBVIOUS
  <2>6. Drawn(c) => /\ Drawn(e) /\ Ref(e, r.val[d]) /\ Ref(e, r.val[0])
    <3> SUFFICES ASSUME Drawn(c) PROVE Drawn(e) /\ Ref(e, r.val[d]) /\ Ref(e, r.val[0])
      OBVIOUS
    <3>1. Drawn(r) /\ Drawn(e)
      <4> HIDE DEF e
      <4> QED BY <2>2, <2>4 DEF Draws
    <3>2. e.nodes = r.nodes
      OBVIOUS
    <3> QED BY <1>0, <3>1, <3>2, ValRef DEF Ref
  <2> HIDE DEF e
  <2>7. Drawn(c) => /\ Drawn(f) /\ f.fcmp = e.fcmp /\ Fetches(f) = Fetches(e) /\ Len(f.nodes) = Len(e.nodes)
    BY <2>6, ValDraws
  <2> HIDE DEF f
  <2>8. Drawn(c) => /\ Drawn(g) /\ g.fcmp = f.fcmp /\ Fetches(g) = Fetches(f) /\ Len(g.nodes) = Len(f.nodes)
    <3>1. Drawn(c) => Ref(f, r.val[0])
      BY <2>6, <2>7 DEF Ref
    <3> QED BY <2>7, <3>1, ValDraws
  <2> HIDE DEF g
  <2>9. Draws(c, g)
    BY <2>4, <2>7, <2>8 DEF Draws
  <2> QED BY <2>3, <2>5, <2>9, FieldsDraw
<1>2. Draws(c, build_fcomi(c, d, q))
  <2> DEFINE r == ThenResolve(resolve(c, 0), d)
             fl == IF q THEN {"Popping"} ELSE {}
             n == add_node(r, "FComI", Two(FALSE, r.val[0], r.val[d]), None, fl)
             m == IF n.ok THEN [n EXCEPT !.fcomi = Newest(n)] ELSE n
  <2>1. Draws(c, r)
    BY <1>0, ResolveDraws, DrawsThrough
  <2>2. build_fcomi(c, d, q) = PopWhen(m, q)
    BY DEF build_fcomi
  <2>3. fl \subseteq Plain
    BY <1>0
  <2> HIDE DEF r, fl
  <2>4. Draws(r, n)
    BY <1>0, <2>3, ValRef, TwoDraws
  <2>5. Draws(n, m)
    <3> HIDE DEF n
    <3> QED BY FieldsDraw, DrawsSame
  <2> HIDE DEF n, m
  <2> QED BY <2>1, <2>2, <2>4, <2>5, StackDraws, DrawsThrough
<1>3. Draws(c, build_fcmov(c, o, d))
  <2> DEFINE r == ThenResolve(resolve(c, 0), d)
             n == add_node(r, "FCSel", Two(FALSE, r.val[0], r.val[d]), o, {})
  <2>1. Draws(c, r)
    BY <1>0, ResolveDraws, DrawsThrough
  <2>2. build_fcmov(c, o, d) \in {Fail(c), Place(n, 0)}
    BY DEF build_fcmov
  <2> HIDE DEF r
  <2>3. Draws(r, n)
    BY <1>0, ValRef, TwoDraws
  <2> HIDE DEF n
  <2> QED BY <2>1, <2>2, <2>3, StackDraws, DrawsThrough, FieldsDraw
<1>4. \A op \in {"StoreCW", "LoadCW"} : Draws(c, add_node(c, op, NoInputs, o, {}))
  BY <1>0, InputsTake, AddDraws
<1> QED BY <1>1, <1>2, <1>3, <1>4

\* What is carried across a run for an integer instruction.
LEMMA BridgeDraws ==
  ASSUME NEW c, NEW i, Encodable(i), is_bridge_v2(i)
  PROVE  Draws(c, build_bridge(c, i))
<1>1. WidthFlag(i) \subseteq Plain
  BY DEF WidthFlag, Plain
<1>2. ASSUME Drawn(c) PROVE \A r \in Regs : Ref(c, Enc(r))
  BY <1>2, RegsAssumption, NewestRef DEF Enc, Ref
<1>3. \A op \in BridgeOps : \A r, t, arg :
        (Drawn(c) => Ref(c, r) /\ Ref(c, t)) => Draws(c, add_node(c, op, <<r, t, None>>, arg, WidthFlag(i)))
  <2> TAKE op \in BridgeOps
  <2> TAKE r, t, arg
  <2> HAVE Drawn(c) => Ref(c, r) /\ Ref(c, t)
  <2>1. Drawn(c) => Takes(c, op, <<r, t, None>>, WidthFlag(i))
    BY <1>1, InputsTake
  <2> QED BY <2>1, AddDraws, OpsApart
<1>4. \A op \in BridgeOps, r \in Regs : \A arg : Draws(c, add_node(c, op, One1(Enc(r)), arg, WidthFlag(i)))
  BY <1>2, <1>3, NewestRef DEF One1
<1>5. \A op \in BridgeOps, r \in Regs, t \in Regs : \A arg :
        Draws(c, add_node(c, op, <<Enc(r), Enc(t), None>>, arg, WidthFlag(i)))
  BY <1>2, <1>3
<1>6. Draws(c, c)
  BY DrawsSame
<1>7. \A op \in {"BridgeMovRR", "BridgeMovRI", "BridgeLea", "BridgeLoadG", "BridgeStoreG",
              "BridgeExt", "BridgeAluRR", "BridgeAluRI", "BridgeAluRM", "BridgeAluMR"} : op \in BridgeOps
  BY DEF BridgeOps
<1> QED BY <1>4, <1>5, <1>6, <1>7 DEF build_bridge, is_bridge_v2, is_bridge_v1, Encodable

-----------------------------------------------------------------------------
(* Comparisons and what fetches them *)

\* No FSTSW waits for the last comparison yet.
Unfetched(c) == c.fcmp < 0 \/ c.fcmp \notin Fetches(c)
\* A comparison has been drawn, or nothing more will be.
Renews(c, d) == Drawn(c) => Drawn(d) /\ (d.ok => Unfetched(d))

\* FCOM, FTST and their like draw a comparison that no FSTSW has fetched.
LEMMA ComparedRenews ==
  ASSUME NEW r, NEW op \in Compares, NEW in, Drawn(r) => Takes(r, op, in, {})
  PROVE  Renews(r, Compared(add_node(r, op, in, None, {})))
<1> SUFFICES ASSUME Drawn(r) PROVE Renews(r, Compared(add_node(r, op, in, None, {})))
  BY DEF Renews
<1> DEFINE n == add_node(r, op, in, None, {})
           d == Compared(n)
<1>1. Drawn(n) /\ Fetches(n) = Fetches(r) /\ (n.ok => Len(n.nodes) = Len(r.nodes) + 1)
  BY AddDrawn, OpsApart
<1> HIDE DEF n
<1>2. CASE ~n.ok
  <2>1. d = n
    BY <1>2 DEF Compared
  <2> QED BY <1>1, <1>2, <2>1 DEF Renews, n
<1>3. CASE n.ok
  <2>1. /\ GraphFields \subseteq DOMAIN d /\ d.nodes = n.nodes /\ d.val = n.val /\ d.read = n.read
        /\ d.fcmp = Newest(n) /\ d.delta = n.delta
    BY <1>1, <1>3 DEF Drawn, GraphFields, Compared
  <2> HIDE DEF d
  <2>2. Drawn(d) /\ Fetches(d) = Fetches(n)
    BY <1>1, <2>1, Redrawn, NewestRef DEF Drawn
  <2>3. d.fcmp \notin Fetches(r)
    <3>1. Len(r.nodes) \in Nat /\ d.fcmp = Len(r.nodes)
      BY <1>1, <1>3, <2>1, NewestRef DEF Newest
    <3>2. \A i \in Fetchers(r) : NodeAt(r, i).in[1] \in Int /\ NodeAt(r, i).in[1] < i /\ i \in Int
              /\ i < Len(r.nodes)
      BY <3>1 DEF Fetchers, Drawn, Wellformed, Formed, Ids
    <3>3. \A i \in Fetchers(r) : NodeAt(r, i).in[1] # Len(r.nodes)
      BY <3>1, <3>2
    <3> QED BY <3>1, <3>3 DEF Fetches
  <2> QED BY <1>1, <2>2, <2>3 DEF Renews, Unfetched, d, n
<1> QED BY <1>2, <1>3

LEMMA RenewsPop ==
  ASSUME NEW c, NEW d, Renews(c, d), NEW n
  PROVE  Renews(c, pop_n(d, n))
<1>1. \A b : Renews(c, b) => Renews(c, pop(b))
  <2> SUFFICES ASSUME NEW b, Renews(c, b), Drawn(c) PROVE Renews(c, pop(b))
    BY DEF Renews
  <2>1. Drawn(b) /\ (b.ok => Unfetched(b))
    BY DEF Renews
  <2> DEFINE e == pop(b)
  <2>2. e.ok = b.ok
    BY <2>1 DEF pop, Drawn, GraphFields
  <2>3. Drawn(e) /\ e.fcmp = b.fcmp /\ Fetches(e) = Fetches(b)
    <3> HIDE DEF e
    <3>1. Draws(b, e)
      BY StackDraws DEF e
    <3> QED BY <2>1, <3>1 DEF Draws
  <2> HIDE DEF e
  <2>4. Renews(c, e)
    BY <2>1, <2>2, <2>3 DEF Renews, Unfetched
  <2> QED BY <2>4 DEF e
<1> QED BY <1>1 DEF pop_n

LEMMA ThenRenews ==
  ASSUME NEW c, NEW d, NEW e, Draws(c, d), Renews(d, e)
  PROVE  Renews(c, e)
BY DEF Draws, Renews

LEMMA ComparesRenew ==
  ASSUME NEW c, NEW d \in Slots, NEW n, NEW w, NEW o
  PROVE  /\ Renews(c, build_fcom(c, d, n)) /\ Renews(c, build_fcomm(c, w, o, n))
         /\ Renews(c, build_ftst(c))
<1>0. 0 \in Slots /\ {} \subseteq Plain /\ "FCmp" \in Compares /\ "FTst" \in Compares
  BY SlotFacts DEF Compares
<1>1. Renews(c, build_fcom(c, d, n))
  <2> DEFINE r == ThenResolve(resolve(c, 0), d)
             in == Two(FALSE, r.val[0], r.val[d])
             e == Compared(add_node(r, "FCmp", in, None, {}))
  <2>1. Draws(c, r)
    BY <1>0, ResolveDraws, DrawsThrough
  <2>2. build_fcom(c, d, n) = pop_n(e, n)
    BY DEF build_fcom
  <2> HIDE DEF r
  <2>3. Renews(r, e)
    <3>1. Drawn(r) => Takes(r, "FCmp", in, {})
      BY <1>0, ValRef, InputsTake
    <3> HIDE DEF in
    <3> QED BY <1>0, <3>1, ComparedRenews
  <2> HIDE DEF e
  <2> QED BY <2>1, <2>2, <2>3, ThenRenews, RenewsPop
<1>2. Renews(c, build_fcomm(c, w, o, n))
  <2> DEFINE r == resolve(c, 0)
             l == build_load(r, w, o)
             in == Two(FALSE, r.val[0], Newest(l))
             e == Compared(add_node(l, "FCmp", in, None, {}))
  <2>1. Draws(c, r) /\ Draws(r, l)
    <3>1. Draws(c, r)
      BY <1>0, ResolveDraws
    <3> HIDE DEF r
    <3> QED BY <1>0, <3>1, MemoryDraws
  <2>2. build_fcomm(c, w, o, n) = pop_n(e, n)
    BY DEF build_fcomm
  <2>3. Drawn(c) => Drawn(l) /\ Ref(l, r.val[0]) /\ Ref(l, Newest(l))
    <3> HIDE DEF r, l
    <3> SUFFICES ASSUME Drawn(c) PROVE Drawn(l) /\ Ref(l, r.val[0]) /\ Ref(l, Newest(l))
      OBVIOUS
    <3>1. Drawn(r) /\ Drawn(l) /\ Len(l.nodes) >= Len(r.nodes)
      BY <2>1 DEF Draws
    <3>2. Ref(r, r.val[0]) /\ Len(r.nodes) \in Nat /\ Len(l.nodes) \in Nat
      BY <1>0, <3>1, ValRef, NewestRef
    <3> QED BY <3>1, <3>2, NewestRef DEF Ref
  <2> HIDE DEF r, l
  <2>4. Drawn(c) => Renews(l, e)
    <3>1. Drawn(c) => Takes(l, "FCmp", in, {})
      BY <1>0, <2>3, InputsTake
    <3> HIDE DEF in
    <3> QED BY <1>0, <3>1, ComparedRenews
  <2>5. Draws(c, l)
    BY <2>1, DrawsThrough
  <2> HIDE DEF e
  <2>6. Renews(c, e)
    BY <2>4, <2>5 DEF Draws, Renews
  <2> QED BY <2>2, <2>6, RenewsPop
<1>3. Renews(c, build_ftst(c))
  <2> DEFINE r == resolve(c, 0)
             in == One1(r.val[0])
             e == Compared(add_node(r, "FTst", in, None, {}))
  <2>1. Draws(c, r)
    BY <1>0, ResolveDraws
  <2>2. build_ftst(c) = e
    BY DEF build_ftst
  <2> HIDE DEF r
  <2>3. Renews(r, e)
    <3>1. Drawn(r) => Takes(r, "FTst", in, {})
      BY <1>0, ValRef, InputsTake
    <3> HIDE DEF in
    <3> QED BY <1>0, <3>1, ComparedRenews
  <2> HIDE DEF e
  <2> QED BY <2>1, <2>2, <2>3, ThenRenews
<1> QED BY <1>1, <1>2, <1>3

\* An FSTSW fetches the last comparison, if none has.
LEMMA FetchDraws ==
  ASSUME NEW c, Drawn(c), Unfetched(c)
  PROVE  Drawn(build_fstsw(c))
<1> DEFINE in == <<c.fcmp, Ax, c.delta>>
<1>1. Takes(c, "FStsw", in, {})
  BY DEF Takes, Unfetched, Drawn, Ref, Ax, ValueOps, EffectOps, Loads, Consts, Stores, IntStores
<1> HIDE DEF in
<1>2. Drawn(add_node(c, "FStsw", in, None, {}))
  BY <1>1, AddDrawn
<1> QED BY <1>2 DEF build_fstsw, in

\* What one turn of the loop makes of a context.
LEMMA ArmDraws ==
  ASSUME NEW c, NEW i, Encodable(i), NEW allow
  PROVE  LET d == build_arm(c, i, allow)
         IN  /\ i.k \in Comparing => Renews(c, d)
             /\ i.k \notin Comparing /\ i.k # "fstsw" => Draws(c, d)
             /\ i.k = "fstsw" /\ Unfetched(c) => (Drawn(c) => Drawn(d))
<1>0. /\ 0 \in Slots /\ {} \subseteq Plain /\ {"Truncate"} \subseteq Plain
      /\ (IF i.trunc THEN {"Truncate"} ELSE {}) \subseteq Plain
      /\ {"FAdd", "FScale"} \subseteq Binaries /\ {"FSin", "FCos", "FPtan"} \subseteq Unaries
      /\ "ConstOne" \in Consts
  BY SlotFacts DEF Plain, Binaries, Unaries, Trigs, Consts
<1>1. (Draws(c, Fail(c)) /\ Draws(c, c) /\ ~Fail(c).ok) \/ ~Drawn(c)
  BY FieldsDraw, DrawsSame DEF Fail, Drawn, GraphFields
<1>2. Renews(c, Fail(c)) /\ (Drawn(c) => Drawn(Fail(c)))
  <2>1. Draws(c, Fail(c))
    BY FieldsDraw
  <2>2. Drawn(c) => ~Fail(c).ok
    BY DEF Fail, Drawn, GraphFields
  <2> QED BY <2>1, <2>2 DEF Renews, Draws
<1>3. CASE i.k \in Comparing
  <2>1. i.k = "fcom" => Renews(c, build_fcom(c, i.i, i.pops))
    BY ComparesRenew DEF Encodable
  <2>2. Renews(c, build_fcomm(c, i.w, i.o, i.pops)) /\ Renews(c, build_ftst(c))
    BY <1>0, ComparesRenew
  <2>3. Renews(c, build_switch(c, i, allow))
    BY <1>3, <2>1, <2>2 DEF build_switch, Comparing
  <2>4. Renews(c, build_arm(c, i, allow))
    BY <1>2, <2>3 DEF build_arm
  <2> QED BY <1>3, <2>4 DEF Comparing
<1>4. CASE i.k = "fstsw"
  <2>1. build_switch(c, i, allow) = build_fstsw(c)
    BY <1>4 DEF build_switch
  <2>2. build_arm(c, i, allow) \in {Fail(c), build_fstsw(c)}
    BY <2>1 DEF build_arm
  <2>3. Unfetched(c) => (Drawn(c) => Drawn(build_arm(c, i, allow)))
    BY <1>2, <2>2, FetchDraws
  <2>4. i.k \notin Comparing
    BY <1>4 DEF Comparing
  <2> QED BY <1>4, <2>3, <2>4
<1>5. CASE i.k \notin Comparing /\ i.k # "fstsw"
  <2>1. /\ Draws(c, build_const(c, i.v)) /\ Draws(c, build_fldm(c, i.w, i.o))
        /\ Draws(c, build_fstm(c, i.w, i.o, i.pop, {}))
        /\ Draws(c, build_fstm(c, i.w, i.o, i.pop, IF i.trunc THEN {"Truncate"} ELSE {}))
    BY <1>0, MemoryDraws
  <2>2. /\ i.k = "fld" => Draws(c, build_fld(c, i.i)) 
        /\ i.k = "fst" => Draws(c, build_fst(c, i.i, i.pop))
    BY <1>0, MemoryDraws DEF Encodable
  <2>3. /\ i.k = "arith" => Draws(c, build_arith(c, i.op, i.rev, i.d, i.s))
        /\ i.k = "arithm" => Draws(c, build_arithm(c, i.op, i.rev, i.w, i.o))
        /\ i.k = "arithp" => Draws(c, build_arithp(c, i.op, i.rev, i.d))
        /\ i.k = "binpop" => Draws(c, build_binpop(c, i.op))
        /\ Draws(c, build_fscale(c))
    BY <1>0, ArithmeticDraws DEF Encodable
  <2>4. Draws(c, build_unary(c, i.op)) /\ Draws(c, build_unary(c, "FRndInt"))
    BY UnaryDraws
  <2>5. Draws(c, build_fsincos(c)) /\ Draws(c, build_fptan(c))
    BY <1>0, PairDraws DEF build_fsincos, build_fptan
  <2>6. /\ i.k = "fxch" => Draws(c, build_fxch(c, i.i))
        /\ i.k = "fcomi" => Draws(c, build_fcomi(c, i.i, i.pop))
        /\ i.k = "fcmov" => Draws(c, build_fcmov(c, i.cond, i.i))
    BY OthersDraw DEF Encodable
  <2>7. Draws(c, add_node(c, "StoreCW", NoInputs, i.o, {}))
            /\ Draws(c, add_node(c, "LoadCW", NoInputs, i.o, {}))
    BY <1>0, OthersDraw
  <2>8. Bridged(i, allow) => Draws(c, build_bridge(c, i))
    BY BridgeDraws DEF Bridged, is_bridge_v2_proven, is_bridge_v2
  <2>9. Draws(c, Fail(c)) /\ Draws(c, c)
    BY FieldsDraw, DrawsSame
  <2>10. Draws(c, build_switch(c, i, allow))
    BY <1>5, <2>1, <2>2, <2>3, <2>4, <2>5, <2>6, <2>7, <2>8, <2>9 DEF build_switch, Comparing
  <2>11. Draws(c, build_arm(c, i, allow))
    BY <2>9, <2>10 DEF build_arm
  <2> QED BY <1>5, <2>11
<1> QED BY <1>3, <1>4, <1>5

-----------------------------------------------------------------------------
(* One turn of build *)

\* The programs: between two FSTSWs there is a comparison.
Separated(q) ==
  \A j, k \in 1..Len(q) : j < k /\ q[j].k = "fstsw" /\ q[k].k = "fstsw" =>
     \E m \in j..k : q[m].k \in Comparing
\* The last comparison has been fetched already.
Recent(q, k) ==
  \E j \in 1..k : q[j].k = "fstsw" /\ \A m \in j..k : q[m].k \notin Comparing

\* The context a run begins with.
LEMMA InitDrawn ==
  ASSUME NEW m
  PROVE  Drawn(InitContext(m)) /\ Unfetched(InitContext(m))
<1> DEFINE c == InitContext(m)
<1>1. /\ GraphFields \subseteq DOMAIN c /\ c.nodes = <<>> /\ c.val = [d \in Slots |-> -(d + 1)]
      /\ c.read = [d \in Slots |-> None] /\ c.fcmp = None /\ c.delta = 0
  BY DEF InitContext, GraphFields
<1>2. IsSeq(<<>>) /\ Len(<<>>) = 0
  <2>1. <<>> \in Seq({})
    OBVIOUS
  <2> QED BY <2>1 DEF IsSeq
<1> HIDE DEF c
<1>3. Ids(c) = {} /\ Len(c.nodes) = 0
  BY <1>1, <1>2 DEF Ids
<1>4. Wellformed(c) /\ Distinct(c) /\ Bare(c)
  BY <1>3 DEF Wellformed, Distinct, Bare, Fetchers
<1>5. \A d \in Slots : Ref(c, c.val[d]) /\ Ref(c, c.read[d])
  BY <1>1, <1>3, NSlotsAssumption DEF Ref, Slots, None
<1>6. Ref(c, c.fcmp) /\ c.delta \in Int /\ c.fcmp < 0
  BY <1>1, <1>3 DEF Ref, None
<1> QED BY <1>1, <1>2, <1>4, <1>5, <1>6 DEF Drawn, Unfetched, c

\* build draws one more instruction.
LEMMA StepDrawn ==
  ASSUME NEW c, Drawn(c), NEW q, Len(q) \in Nat, Separated(q), NEW k \in Nat, k + 1 \in 1..Len(q),
         Encodable(q[k + 1]), Unfetched(c) \/ Recent(q, k), NEW allow
  PROVE  LET d == build_step(c, build_arm(c, q[k + 1], allow))
         IN  Drawn(d) /\ (d.ok => Unfetched(d) \/ Recent(q, k + 1))
<1> DEFINE r == build_arm(c, q[k + 1], allow)
           d == build_step(c, r)
<1>1. Drawn(r) /\ (r.ok => Unfetched(r) \/ Recent(q, k + 1))
  <2>1. CASE q[k + 1].k \in Comparing
    <3>1. Renews(c, r)
      BY <2>1, ArmDraws
    <3> HIDE DEF r
    <3> QED BY <3>1 DEF Renews
  <2>2. CASE q[k + 1].k = "fstsw"
    <3>1. Unfetched(c)
      <4> SUFFICES ASSUME Recent(q, k) PROVE FALSE
        OBVIOUS
      <4>1. PICK j \in 1..k : q[j].k = "fstsw" /\ \A m \in j..k : q[m].k \notin Comparing
        BY DEF Recent
      <4>2. PICK m \in j..k + 1 : q[m].k \in Comparing
        <5>1. j \in 1..Len(q) /\ j < k + 1
          BY <4>1
        <5> QED BY <2>2, <4>1, <5>1 DEF Separated
      <4>3. m = k + 1 \/ m \in j..k
        BY <4>2
      <4> QED BY <2>2, <4>1, <4>2, <4>3 DEF Comparing
    <3>2. Drawn(r)
      BY <2>2, <3>1, ArmDraws
    <3>3. Recent(q, k + 1)
      <4>1. k + 1 \in 1..k + 1 /\ \A m \in k + 1..k + 1 : m = k + 1
        OBVIOUS
      <4> QED BY <2>2, <4>1 DEF Recent, Comparing
    <3> QED BY <3>2, <3>3
  <2>3. CASE q[k + 1].k \notin Comparing /\ q[k + 1].k # "fstsw"
    <3>1. Draws(c, r)
      BY <2>3, ArmDraws
    <3> HIDE DEF r
    <3>2. Drawn(r) /\ (Unfetched(c) => Unfetched(r))
      BY <3>1 DEF Draws, Unfetched
    <3>3. Recent(q, k) => Recent(q, k + 1)
      <4> SUFFICES ASSUME Recent(q, k) PROVE Recent(q, k + 1)
        OBVIOUS
      <4>1. PICK j \in 1..k : q[j].k = "fstsw" /\ \A m \in j..k : q[m].k \notin Comparing
        BY DEF Recent
      <4>2. j \in 1..k + 1 /\ \A m \in j..k + 1 : m = k + 1 \/ m \in j..k
        BY <4>1
      <4> QED BY <2>3, <4>1, <4>2 DEF Recent
    <3> QED BY <3>2, <3>3
  <2> QED BY <2>1, <2>2, <2>3
<1> HIDE DEF r
<1>2. /\ GraphFields \subseteq DOMAIN d /\ d.nodes = r.nodes /\ d.val = r.val /\ d.read = r.read
      /\ d.fcmp = r.fcmp /\ d.delta = r.delta /\ (d.ok = r.ok)
  <2>1. CASE r.ok
    <3>1. d = [r EXCEPT !.consumed = @ + 1]
      BY <2>1 DEF build_step
    <3> HIDE DEF d
    <3> QED BY <1>1, <3>1 DEF Drawn, GraphFields
  <2>2. CASE ~r.ok
    <3>1. d = [r EXCEPT !.x = c.x]
      BY <2>2 DEF build_step
    <3> HIDE DEF d
    <3> QED BY <1>1, <3>1 DEF Drawn, GraphFields
  <2> QED BY <2>1, <2>2
<1> HIDE DEF d
<1>3. Drawn(d) /\ Fetches(d) = Fetches(r)
  BY <1>1, <1>2, Redrawn DEF Drawn
<1> QED BY <1>1, <1>2, <1>3 DEF Unfetched, d, r

-----------------------------------------------------------------------------
(* Optimizing *)

\* The graph every pass keeps: nodes with their fields, in order.
Fielded(c) == \A i \in Ids(c) : NodeFields \subseteq DOMAIN NodeAt(c, i)
Graph(c)   == {"nodes", "last"} \subseteq DOMAIN c /\ IsSeq(c.nodes) /\ Wellformed(c) /\ Fielded(c)

LEMMA IdFacts ==
  ASSUME NEW c, Len(c.nodes) \in Nat
  PROVE  /\ \A i \in Ids(c) : i \in Int /\ i >= 0 /\ i < Len(c.nodes) /\ i + 1 \in 1..Len(c.nodes)
              /\ (i + 1) - 1 = i
         /\ \A k \in 1..Len(c.nodes) : k - 1 \in Ids(c) /\ (k - 1) + 1 = k /\ NodeAt(c, k - 1) = c.nodes[k]
         /\ \A i \in Int : i >= 0 /\ i < Len(c.nodes) => i \in Ids(c)
BY DEF Ids, NodeAt

\* The same nodes in other clothes.
LEMMA Repainted ==
  ASSUME NEW c, Graph(c), NEW q, IsSeq(q), Len(q) = Len(c.nodes),
         \A i \in Ids(c) : Formed(q[i + 1], i) /\ NodeFields \subseteq DOMAIN q[i + 1]
  PROVE  LET d == [c EXCEPT !.nodes = q]
         IN  /\ Graph(d) /\ Ids(d) = Ids(c) /\ d.nodes = q /\ DOMAIN d = DOMAIN c /\ d.val = c.val
             /\ \A i : NodeAt(d, i) = q[i + 1]
<1> DEFINE d == [c EXCEPT !.nodes = q]
<1>1. d.nodes = q /\ DOMAIN d = DOMAIN c /\ d.val = c.val
  BY DEF Graph
<1> HIDE DEF d
<1>2. Ids(d) = Ids(c) /\ \A i : NodeAt(d, i) = q[i + 1]
  BY <1>1 DEF Ids, NodeAt
<1>3. Graph(d)
  BY <1>1, <1>2 DEF Graph, Wellformed, Fielded
<1> QED BY <1>1, <1>2, <1>3 DEF d

\* One node is rewritten.
Rewrites(c, d, i, n) ==
  /\ Graph(d) /\ Ids(d) = Ids(c) /\ DOMAIN d = DOMAIN c /\ d.val = c.val /\ Len(d.nodes) = Len(c.nodes)
  /\ NodeAt(d, i) = n /\ \A j \in Ids(c) : j # i => NodeAt(d, j) = NodeAt(c, j)

LEMMA Rewritten ==
  ASSUME NEW c, Graph(c), NEW i \in Ids(c), NEW n, Formed(n, i), NodeFields \subseteq DOMAIN n
  PROVE  Rewrites(c, [c EXCEPT !.nodes[i + 1] = n], i, n)
<1> DEFINE q == [c.nodes EXCEPT ![i + 1] = n]
           d == [c EXCEPT !.nodes = q]
<1>0. Len(c.nodes) \in Nat /\ DOMAIN c.nodes = 1..Len(c.nodes)
  BY SeqHas DEF Graph
<1>1. /\ i + 1 \in 1..Len(c.nodes) /\ q[i + 1] = n
      /\ \A j \in Ids(c) : j # i => j + 1 # i + 1 /\ q[j + 1] = c.nodes[j + 1]
  BY <1>0, IdFacts
<1>2. IsSeq(q) /\ Len(q) = Len(c.nodes)
  <2>1. q = [k \in 1..Len(c.nodes) |-> q[k]]
    BY <1>0
  <2> HIDE DEF q
  <2> QED BY <1>0, <2>1, SeqIs
<1>3. [c EXCEPT !.nodes[i + 1] = n] = d
  OBVIOUS
<1>4. \A j \in Ids(c) : Formed(q[j + 1], j) /\ NodeFields \subseteq DOMAIN q[j + 1]
  <2> TAKE j \in Ids(c)
  <2> HIDE DEF q
  <2>1. CASE j = i
    BY <1>1, <2>1
  <2>2. CASE j # i
    BY <1>1, <2>2 DEF Graph, Wellformed, Fielded, NodeAt
  <2> QED BY <2>1, <2>2
<1> HIDE DEF q
<1>5. /\ Graph(d) /\ Ids(d) = Ids(c) /\ d.nodes = q /\ DOMAIN d = DOMAIN c /\ d.val = c.val
      /\ \A j : NodeAt(d, j) = q[j + 1]
  BY <1>2, <1>4, Repainted
<1> HIDE DEF d
<1>6. Rewrites(c, d, i, n)
  BY <1>1, <1>2, <1>5 DEF Rewrites, NodeAt
<1> QED BY <1>3, <1>6

\* A node is marked.
Marked(n, flag) == [n EXCEPT !.flags = @ \cup {flag}]
LEMMA MarkedIs ==
  ASSUME NEW n, NodeFields \subseteq DOMAIN n, NEW flag
  PROVE  /\ Marked(n, flag).op = n.op /\ Marked(n, flag).in = n.in
         /\ Marked(n, flag).flags = n.flags \cup {flag} /\ DOMAIN Marked(n, flag) = DOMAIN n
BY DEF Marked, NodeFields

LEMMA MarkRewrites ==
  ASSUME NEW c, Graph(c), NEW i \in Ids(c), NEW flag,
         flag = "Dead" => NodeAt(c, i).op \notin EffectOps
  PROVE  Rewrites(c, Mark(c, i, flag), i, Marked(NodeAt(c, i), flag))
<1> DEFINE m == Marked(NodeAt(c, i), flag)
<1>1. NodeFields \subseteq DOMAIN NodeAt(c, i) /\ Formed(NodeAt(c, i), i)
  BY DEF Graph, Fielded, Wellformed
<1>2. /\ m.op = NodeAt(c, i).op /\ m.in = NodeAt(c, i).in
      /\ m.flags = NodeAt(c, i).flags \cup {flag} /\ DOMAIN m = DOMAIN NodeAt(c, i)
  BY <1>1, MarkedIs
<1>3. Mark(c, i, flag) = [c EXCEPT !.nodes[i + 1] = m]
  BY DEF Mark, Marked, NodeAt
<1> HIDE DEF m
<1>4. Formed(m, i) /\ NodeFields \subseteq DOMAIN m
  <2>1. Dead(m) => m.op \notin EffectOps
    BY <1>1, <1>2 DEF Formed, Dead
  <2> QED BY <1>1, <1>2, <2>1 DEF Formed
<1> QED BY <1>3, <1>4, Rewritten DEF m

\* Before the reductions.
Clean(c) == Graph(c) /\ Distinct(c) /\ Bare(c)

LEMMA DrawnClean ==
  ASSUME NEW c, Drawn(c)
  PROVE  Clean(c)
BY DEF Drawn, Clean, Graph, GraphFields, Fielded, Bare, Unmarked

\* A node that is no FSTSW, before and after.
LEMMA RewriteDistinct ==
  ASSUME NEW c, Distinct(c), NEW d, NEW i \in Ids(c), NEW n, Rewrites(c, d, i, n),
         \/ n.op # "FStsw" /\ NodeAt(c, i).op # "FStsw"
         \/ n.op = NodeAt(c, i).op /\ n.in = NodeAt(c, i).in
  PROVE  Distinct(d)
<1>1. Fetchers(d) = Fetchers(c)
  BY DEF Rewrites, Fetchers
<1>2. \A j \in Fetchers(c) : NodeAt(d, j).in[1] = NodeAt(c, j).in[1]
  BY DEF Rewrites, Fetchers
<1> QED BY <1>1, <1>2 DEF Distinct, Rewrites

LEMMA RewriteClean ==
  ASSUME NEW c, Clean(c), NEW d, NEW i \in Ids(c), NEW n, Rewrites(c, d, i, n), Unmarked(n),
         \/ n.op # "FStsw" /\ NodeAt(c, i).op # "FStsw"
         \/ n.op = NodeAt(c, i).op /\ n.in = NodeAt(c, i).in
  PROVE  Clean(d)
<1>1. Distinct(d)
  BY RewriteDistinct DEF Clean
<1>2. Bare(d)
  BY DEF Clean, Bare, Rewrites
<1> QED BY <1>1, <1>2 DEF Clean, Rewrites

\* A node without effect may die.
LEMMA KillClean ==
  ASSUME NEW c, Clean(c), NEW i \in Ids(c), NodeAt(c, i).op \notin EffectOps
  PROVE  Clean(Mark(c, i, "Dead")) /\ Ids(Mark(c, i, "Dead")) = Ids(c)
      /\ DOMAIN Mark(c, i, "Dead") = DOMAIN c
<1> DEFINE m == Marked(NodeAt(c, i), "Dead")
           d == Mark(c, i, "Dead")
<1>1. NodeFields \subseteq DOMAIN NodeAt(c, i) /\ Unmarked(NodeAt(c, i))
  BY DEF Clean, Graph, Fielded, Bare
<1>2. /\ m.op = NodeAt(c, i).op /\ m.in = NodeAt(c, i).in
      /\ m.flags = NodeAt(c, i).flags \cup {"Dead"} /\ DOMAIN m = DOMAIN NodeAt(c, i)
  BY <1>1, MarkedIs
<1>3. Rewrites(c, d, i, m)
  BY MarkRewrites DEF Clean
<1> HIDE DEF m, d
<1>4. Unmarked(m)
  BY <1>1, <1>2 DEF Unmarked
<1>5. Clean(d)
  BY <1>2, <1>3, <1>4, RewriteClean
<1> QED BY <1>3, <1>5 DEF Rewrites, d

\* The context stays one with n nodes as a pass walks over them.
CleanAlong(c, d, x, base, K) == Clean(K) /\ Ids(K) = Ids(base)
DseClean == INSTANCE X87Walk_proofs WITH Turn <- DseTurn, Kept <- CleanAlong

\* pass_dse.
LEMMA DseIsClean ==
  ASSUME NEW c, Clean(c)
  PROVE  Clean(pass_dse(c))
<1> DEFINE q == Reverse(Ascending(c))
<1>0. Len(c.nodes) \in Nat
  BY DEF Clean, Graph, Wellformed
<1>1. Len(q) \in Nat /\ \A n \in 1..Len(q) : q[n] \in Ids(c)
  <2>1. DOMAIN Ascending(c) = 1..Len(c.nodes) /\ Len(Ascending(c)) = Len(c.nodes)
    BY <1>0, Long DEF Ascending
  <2>2. DOMAIN q = 1..Len(c.nodes) /\ Len(q) = Len(c.nodes)
    BY <1>0, <2>1, Long DEF Reverse
  <2>3. \A n \in 1..Len(c.nodes) : q[n] = Ascending(c)[Len(c.nodes) - n + 1]
            /\ Len(c.nodes) - n + 1 \in 1..Len(c.nodes)
    BY <1>0, <2>1 DEF Reverse
  <2>4. \A k \in 1..Len(c.nodes) : Ascending(c)[k] \in Ids(c)
    BY <1>0 DEF Ascending, Ids
  <2> HIDE DEF q
  <2> QED BY <1>0, <2>2, <2>3, <2>4
<1>2. \A n \in 1..Len(q) : \A K :
        CleanAlong(0, 0, 0, c, K) => CleanAlong(0, 0, 0, c, DseTurn(0, 0, 0, K, q[n]))
  <2> HIDE DEF q
  <2> QED BY <1>1, KillClean DEF CleanAlong, DseTurn
<1>3. CleanAlong(0, 0, 0, c, c)
  BY DEF CleanAlong
<1>4. CleanAlong(0, 0, 0, c, DseClean!Through(0, 0, 0, c, q))
  <2> HIDE DEF CleanAlong, DseTurn, q
  <2> QED BY <1>1, <1>2, <1>3, Induction, DseClean!WalkKeeps
<1>5. DseClean!Through(0, 0, 0, c, q) = pass_dse(c)
  BY DEF DseClean!Through, DseClean!Walk, Walk, DseTurn, pass_dse
<1> QED BY <1>4, <1>5 DEF CleanAlong

\* A sum takes in the product it adds.
LEMMA FuseClean ==
  ASSUME NEW c, Clean(c), NEW n \in Ids(c), NEW k \in 1..2, NodeAt(c, n).op \in {"FAdd", "FSub"},
         Product(c, NodeAt(c, n).in[k])
  PROVE  Clean(Fuse(c, n, k)) /\ Ids(Fuse(c, n, k)) = Ids(c)
<1> DEFINE this == NodeAt(c, n)
           f    == this.in[k]
           m    == NodeAt(c, f)
           fma  == [this EXCEPT !.op = FmaOf(this.op, k = 1),
                           !.in = <<m.in[1], m.in[2], this.in[3 - k]>>]
           d    == [c EXCEPT !.nodes[n + 1] = fma]
<1>1. f \in Ids(c) /\ m.op = "FMul" /\ Formed(m, f) /\ Formed(this, n) /\ Unmarked(this)
          /\ NodeFields \subseteq DOMAIN this
  BY DEF Product, Alive, Clean, Graph, Wellformed, Bare, Fielded
<1>2. f \in Int /\ n \in Int /\ f < n
  BY <1>1 DEF Formed, Ids
<1>3. fma.op = FmaOf(this.op, k = 1) /\ fma.in = <<m.in[1], m.in[2], this.in[3 - k]>>
      /\ fma.flags = this.flags /\ DOMAIN fma = DOMAIN this
  <2> HIDE DEF this, m
  <2> QED BY <1>1 DEF NodeFields
<1>4. fma.op \in Fmas /\ this.in[3 - k] \in Int /\ this.in[3 - k] < n
  <2>1. fma.op \in Fmas
    BY <1>3 DEF FmaOf, Fmas
  <2>2. 3 - k \in 1..2
    OBVIOUS
  <2> HIDE DEF fma
  <2> QED BY <1>1, <2>1, <2>2 DEF Formed
<1>5. Formed(fma, n) /\ Unmarked(fma)
  <2>1. fma.in[1] = m.in[1] /\ fma.in[2] = m.in[2] /\ fma.in[3] = this.in[3 - k]
    BY <1>3
  <2>2. /\ m.in[1] \in Int /\ m.in[2] \in Int /\ m.in[1] < n /\ m.in[2] < n
    <3> HIDE DEF m, f
    <3> QED BY <1>1, <1>2 DEF Formed
  <2>3. /\ fma.op \notin Loads \cup Consts /\ fma.op \notin Stores /\ fma.op # "FScale"
             /\ fma.op \notin EffectOps
        /\ fma.op \in ValueOps
    BY <1>4 DEF Fmas, Loads, Consts, Stores, IntStores, EffectOps, ValueOps, Compares, BridgeOps
  <2> HIDE DEF fma, this, m
  <2>4. Unmarked(fma)
    BY <1>1, <1>3 DEF Unmarked
  <2> QED BY <1>4, <2>1, <2>2, <2>3, <2>4 DEF Formed
<1>6. Rewrites(c, d, n, fma)
  <2> HIDE DEF fma
  <2> QED BY <1>5, Rewritten DEF Clean, Unmarked
<1>7. Fuse(c, n, k) = Mark(d, f, "Dead")
  BY DEF Fuse
<1>8. fma.op # "FStsw" /\ this.op # "FStsw"
  BY <1>4 DEF Fmas
<1> HIDE DEF fma, d, m
<1>9. Clean(d) /\ Ids(d) = Ids(c)
  BY <1>5, <1>6, <1>8, RewriteClean DEF Rewrites
<1>10. NodeAt(d, f).op \notin EffectOps
  BY <1>1, <1>2, <1>6 DEF Rewrites, m, EffectOps, Stores, IntStores, Compares, BridgeOps
<1> HIDE DEF f
<1> QED BY <1>1, <1>7, <1>9, <1>10, KillClean

FmaClean == INSTANCE X87Walk_proofs WITH Turn <- FmaTurn, Kept <- CleanAlong

\* pass_fma.
LEMMA FmaIsClean ==
  ASSUME NEW c, Clean(c)
  PROVE  Clean(pass_fma(c))
<1> DEFINE q == Ascending(c)
<1>0. Len(c.nodes) \in Nat
  BY DEF Clean, Graph, Wellformed
<1>1. Len(q) \in Nat /\ \A n \in 1..Len(q) : q[n] \in Ids(c)
  BY <1>0, AscendingRuns DEF Ascending, Ids
<1>2. \A n \in 1..Len(q) : \A K :
        CleanAlong(0, 0, 0, c, K) => CleanAlong(0, 0, 0, c, FmaTurn(0, 0, 0, K, q[n]))
  <2> HIDE DEF q
  <2> QED BY <1>1, FuseClean DEF CleanAlong, FmaTurn
<1>3. CleanAlong(0, 0, 0, c, c)
  BY DEF CleanAlong
<1>4. CleanAlong(0, 0, 0, c, FmaClean!Through(0, 0, 0, c, q))
  <2> HIDE DEF CleanAlong, FmaTurn, q
  <2> QED BY <1>1, <1>2, <1>3, Induction, FmaClean!WalkKeeps
<1>5. FmaClean!Through(0, 0, 0, c, q) = pass_fma(c)
  BY DEF FmaClean!Through, FmaClean!Walk, Walk, FmaTurn, pass_fma
<1> QED BY <1>4, <1>5 DEF CleanAlong

-----------------------------------------------------------------------------
(* Reductions *)

\* A chain: its first product, and products that each add to the one before.
Chains(c, head, ch) ==
  /\ IsSeq(ch) /\ Len(ch) >= 1 /\ ch[1] = head
  /\ \A k \in 1..Len(ch) : ch[k] \in Alive(c) /\ NodeAt(c, ch[k]).op = "FMAdd"
  /\ \A k \in 1..Len(ch) : k # 1 => ch[k] > head /\ NodeAt(c, ch[k]).in[3] = ch[k - 1]

\* Chain, as a walk.
ChainTurn(c, head, x, ch, n) ==
  IF /\ n > head /\ n \in Alive(c)
     /\ NodeAt(c, n).op = "FMAdd" /\ NodeAt(c, n).in[3] = Last(ch)
     /\ use_count(c, Last(ch)) = 1
  THEN Append(ch, n) ELSE ch
ChainAlong(c, head, x, base, ch) == Chains(c, head, ch)
ChainWalk == INSTANCE X87Walk_proofs WITH Turn <- ChainTurn, Kept <- ChainAlong

LEMMA ChainTurnIs ==
  ASSUME NEW c, NEW head, NEW ch, Chains(c, head, ch), NEW n
  PROVE  Chains(c, head, ChainTurn(c, head, 0, ch, n))
<1> SUFFICES ASSUME n > head, n \in Alive(c), NodeAt(c, n).op = "FMAdd", NodeAt(c, n).in[3] = Last(ch)
             PROVE  Chains(c, head, Append(ch, n))
  BY DEF ChainTurn
<1> DEFINE e == Append(ch, n)
           N == Len(ch)
<1>1. /\ IsSeq(e) /\ N \in Nat /\ Len(e) = N + 1 /\ (\A k \in 1..N : e[k] = ch[k]) /\ e[N + 1] = n
  BY Appended DEF Chains
<1> HIDE DEF e
<1>2. Last(ch) = ch[N]
  BY DEF Last
<1>3. 1 \in 1..N /\ N + 1 # 1 /\ (N + 1) - 1 = N /\ N \in 1..N
  BY <1>1 DEF Chains
<1>4. \A k \in 1..N + 1 : k \in 1..N \/ k = N + 1
  BY <1>1
<1>5. \A k \in 1..N : k # 1 => k - 1 \in 1..N
  BY <1>1
<1>6. \A k \in 1..N + 1 : e[k] \in Alive(c) /\ NodeAt(c, e[k]).op = "FMAdd"
  BY <1>1, <1>4 DEF Chains
<1>7. \A k \in 1..N + 1 : k # 1 => e[k] > head /\ NodeAt(c, e[k]).in[3] = e[k - 1]
  BY <1>1, <1>2, <1>3, <1>4, <1>5 DEF Chains
<1>8. Chains(c, head, e)
  BY <1>1, <1>3, <1>6, <1>7 DEF Chains
<1> QED BY <1>8 DEF e

LEMMA ChainGoes ==
  ASSUME NEW c, Len(c.nodes) \in Nat, NEW head \in Alive(c), NodeAt(c, head).op = "FMAdd"
  PROVE  Chains(c, head, Chain(c, head))
<1> DEFINE q == Ascending(c)
           b == <<head>>
<1>1. Len(q) \in Nat
  BY AscendingRuns
<1>2. \A n \in 1..Len(q) : \A K :
        ChainAlong(c, head, 0, b, K) => ChainAlong(c, head, 0, b, ChainTurn(c, head, 0, K, q[n]))
  <2> HIDE DEF q, b
  <2> QED BY ChainTurnIs DEF ChainAlong
<1>3. ChainAlong(c, head, 0, b, b)
  <2>1. b \in Seq({head}) /\ Len(b) = 1 /\ b[1] = head /\ \A k \in 1..1 : k = 1
    OBVIOUS
  <2>2. IsSeq(b)
    BY <2>1 DEF IsSeq
  <2> HIDE DEF b
  <2> QED BY <2>1, <2>2 DEF ChainAlong, Chains
<1>4. ChainAlong(c, head, 0, b, ChainWalk!Through(c, head, 0, b, q))
  <2> HIDE DEF ChainAlong, ChainTurn, q, b
  <2> QED BY <1>1, <1>2, <1>3, Induction, ChainWalk!WalkKeeps
<1>5. ChainWalk!Through(c, head, 0, b, q) = Chain(c, head)
  BY DEF ChainWalk!Through, ChainWalk!Walk, Walk, ChainTurn, Chain
<1> QED BY <1>4, <1>5 DEF ChainAlong

LEMMA RowIs ==
  ASSUME NEW f, IsSeq(f) PROVE Row(f) = f
<1> PICK T : f \in Seq(T)
  BY DEF IsSeq
<1> QED BY DEF Row

Unfused(c) == \A i \in Ids(c) : ~Fused(NodeAt(c, i))
\* The reductions there are begin before node k.
ReducedTo(c, k) ==
  /\ Graph(c) /\ Distinct(c) /\ Reduced(c) /\ Unfused(c)
  /\ \A i \in Ids(c) : Headed(NodeAt(c, i)) => i < k

\* Tagging the nodes of a chain, and then its head.
Tagged(c, ch) ==
  [c EXCEPT !.nodes = Row([k \in DOMAIN c.nodes |->
        IF k - 1 \in Absorbed(c, ch)
        THEN [c.nodes[k] EXCEPT !.flags = @ \cup {"Member"}] ELSE c.nodes[k]])]
LEMMA TaggedIs ==
  ASSUME NEW c, Graph(c), NEW ch
  PROVE  LET d == Tagged(c, ch)
         IN  /\ Graph(d) /\ Ids(d) = Ids(c) /\ DOMAIN d = DOMAIN c
             /\ \A i \in Ids(c) :
                   NodeAt(d, i) = IF i \in Absorbed(c, ch) THEN Marked(NodeAt(c, i), "Member") ELSE NodeAt(c, i)
<1> DEFINE Y == Absorbed(c, ch)
           f == [k \in DOMAIN c.nodes |->
                   IF k - 1 \in Y THEN [c.nodes[k] EXCEPT !.flags = @ \cup {"Member"}] ELSE c.nodes[k]]
           d == [c EXCEPT !.nodes = f]
<1>0. Len(c.nodes) \in Nat /\ DOMAIN c.nodes = 1..Len(c.nodes)
  BY SeqHas DEF Graph
<1>1. IsSeq(f) /\ Len(f) = Len(c.nodes)
  <2>1. f = [k \in 1..Len(c.nodes) |-> f[k]]
    BY <1>0
  <2> HIDE DEF f
  <2> QED BY <1>0, <2>1, SeqIs
<1>2. Tagged(c, ch) = d
  <2>1. Row(f) = f
    <3> HIDE DEF f
    <3> QED BY <1>1, RowIs
  <2>2. Tagged(c, ch) = [c EXCEPT !.nodes = Row(f)]
    BY DEF Tagged
  <2> HIDE DEF f
  <2> QED BY <2>1, <2>2
<1>3. \A i \in Ids(c) : f[i + 1] = IF i \in Y THEN Marked(NodeAt(c, i), "Member") ELSE NodeAt(c, i)
  <2> HIDE DEF Y
  <2> QED BY <1>0, IdFacts DEF Marked, NodeAt
<1> HIDE DEF f, Y
<1>4. \A i \in Ids(c) : Formed(f[i + 1], i) /\ NodeFields \subseteq DOMAIN f[i + 1]
  <2> TAKE i \in Ids(c)
  <2> DEFINE n == NodeAt(c, i)
             m == Marked(n, "Member")
  <2>1. NodeFields \subseteq DOMAIN n /\ Formed(n, i)
    BY DEF Graph, Fielded, Wellformed
  <2>2. m.op = n.op /\ m.in = n.in /\ m.flags = n.flags \cup {"Member"} /\ DOMAIN m = DOMAIN n
    BY <2>1, MarkedIs
  <2>3. f[i + 1] \in {m, n}
    BY <1>3
  <2> HIDE DEF m, n
  <2>4. Formed(m, i)
    BY <2>1, <2>2 DEF Formed, Dead
  <2> QED BY <2>1, <2>2, <2>3, <2>4
<1>5. /\ Graph(d) /\ Ids(d) = Ids(c) /\ d.nodes = f /\ DOMAIN d = DOMAIN c /\ d.val = c.val
      /\ \A i : NodeAt(d, i) = f[i + 1]
  BY <1>1, <1>4, Repainted
<1> HIDE DEF d
<1> QED BY <1>2, <1>3, <1>5 DEF Y

\* What tagging changes: flags, of what the chain absorbs.
LEMMA TagIs ==
  ASSUME NEW c, Graph(c), NEW ch, ch[1] \in Ids(c), ch[1] \in Absorbed(c, ch)
  PROVE  LET d == TagChain(c, ch)
         IN  /\ Graph(d) /\ Ids(d) = Ids(c) /\ DOMAIN d = DOMAIN c
             /\ \A i \in Ids(c) :
                   /\ NodeAt(d, i).op = NodeAt(c, i).op /\ NodeAt(d, i).in = NodeAt(c, i).in
                   /\ NodeAt(d, i).flags = (NodeAt(c, i).flags \cup (IF i \in Absorbed(c, ch) THEN {"Member"} ELSE {}))
                                             \cup (IF i = ch[1] THEN {"Head"} ELSE {})
<1> DEFINE t == Tagged(c, ch)
           d == Mark(t, ch[1], "Head")
           Y == Absorbed(c, ch)
           h == ch[1]
<1>1. TagChain(c, ch) = d
  BY DEF TagChain, Tagged
<1>2. /\ Graph(t) /\ Ids(t) = Ids(c) /\ DOMAIN t = DOMAIN c
      /\ \A i \in Ids(c) : NodeAt(t, i) = IF i \in Y THEN Marked(NodeAt(c, i), "Member") ELSE NodeAt(c, i)
  BY TaggedIs
<1> HIDE DEF t, Y
<1>3. Rewrites(t, d, h, Marked(NodeAt(t, h), "Head"))
  BY <1>2, MarkRewrites
<1>4. \A i \in Ids(c) : NodeAt(t, i).op = NodeAt(c, i).op /\ NodeAt(t, i).in = NodeAt(c, i).in
        /\ NodeFields \subseteq DOMAIN NodeAt(t, i)
        /\ NodeAt(t, i).flags = NodeAt(c, i).flags \cup (IF i \in Y THEN {"Member"} ELSE {})
  <2> TAKE i \in Ids(c)
  <2> DEFINE n == NodeAt(c, i)
             m == Marked(n, "Member")
  <2>1. NodeFields \subseteq DOMAIN n
    BY DEF Graph, Fielded
  <2>2. m.op = n.op /\ m.in = n.in /\ m.flags = n.flags \cup {"Member"} /\ DOMAIN m = DOMAIN n
    BY <2>1, MarkedIs
  <2>3. NodeAt(t, i) = IF i \in Y THEN m ELSE n
    BY <1>2
  <2> HIDE DEF m, n
  <2>4. CASE i \in Y
    BY <2>1, <2>2, <2>3, <2>4 DEF n
  <2>5. CASE i \notin Y
    BY <2>1, <2>2, <2>3, <2>5 DEF n
  <2> QED BY <2>4, <2>5
<1>5. LET n == NodeAt(t, h) IN
      /\ Marked(n, "Head").op = n.op /\ Marked(n, "Head").in = n.in
           /\ Marked(n, "Head").flags = n.flags \cup {"Head"}
  BY <1>4, MarkedIs
<1> HIDE DEF d
<1>6. Graph(d) /\ Ids(d) = Ids(c) /\ DOMAIN d = DOMAIN c
  BY <1>2, <1>3 DEF Rewrites
<1>7. \A i \in Ids(c) :
        /\ NodeAt(d, i).op = NodeAt(c, i).op /\ NodeAt(d, i).in = NodeAt(c, i).in
        /\ NodeAt(d, i).flags = (NodeAt(c, i).flags \cup (IF i \in Y THEN {"Member"} ELSE {}))
                                  \cup (IF i = h THEN {"Head"} ELSE {})
  <2> TAKE i \in Ids(c)
  <2>1. CASE i = h
    <3>1. NodeAt(d, i) = Marked(NodeAt(t, i), "Head")
      BY <1>3, <2>1 DEF Rewrites
    <3> HIDE DEF h
    <3> QED BY <1>4, <1>5, <2>1, <3>1
  <2>2. CASE i # h
    <3>1. NodeAt(d, i) = NodeAt(t, i)
      BY <1>2, <1>3, <2>2 DEF Rewrites
    <3> HIDE DEF h
    <3> QED BY <1>4, <2>2, <3>1
  <2> QED BY <2>1, <2>2
<1> QED BY <1>1, <1>6, <1>7 DEF Y

\* A chain that is reducible, tagged.
LEMMA TagReduces ==
  ASSUME NEW c, NEW n \in Ids(c), ReducedTo(c, n), Heads(c, n), NEW ch, Chains(c, n, ch), Reducible(c, ch)
  PROVE  ReducedTo(TagChain(c, ch), n + 1) /\ Ids(TagChain(c, ch)) = Ids(c)
<1> DEFINE d == TagChain(c, ch)
           E == {ch[k] : k \in 1..Len(ch)}
           L == {NodeAt(c, ch[k]).in[m] : k \in 1..Len(ch), m \in 1..2}
<1>0. /\ Len(c.nodes) \in Nat /\ Len(ch) \in Nat /\ 1 \in 1..Len(ch) /\ ch[1] = n /\ Wellformed(c)
      /\ \A i \in Ids(c) : i \in Int
  <2>1. Len(ch) \in Nat
    BY SeqHas DEF Chains
  <2> QED BY <2>1 DEF ReducedTo, Graph, Wellformed, Chains, Ids
<1>1. Absorbed(c, ch) = E \cup L
  BY DEF Absorbed
<1>2. ASSUME NEW k \in 1..Len(ch)
      PROVE  /\ ch[k] \in Ids(c) /\ ch[k] \in Alive(c) /\ NodeAt(c, ch[k]).op = "FMAdd" /\ ch[k] >= n
             /\ k = 1 => ch[k] = n
             /\ k # 1 => ch[k] > n /\ k - 1 \in 1..Len(ch) /\ NodeAt(c, ch[k]).in[3] = ch[k - 1]
  <2>1. ch[k] \in Ids(c) /\ ch[k] \in Alive(c) /\ NodeAt(c, ch[k]).op = "FMAdd"
    BY DEF Chains, Alive
  <2>2. k = 1 => ch[k] = n
    BY <1>0
  <2>3. k # 1 => ch[k] > n /\ k - 1 \in 1..Len(ch) /\ NodeAt(c, ch[k]).in[3] = ch[k - 1]
    BY <1>0 DEF Chains
  <2> QED BY <1>0, <2>1, <2>2, <2>3
<1>3. ASSUME NEW l \in L
      PROVE  l \in Ids(c) /\ NodeAt(c, l).op \in Loads /\ ~Member(NodeAt(c, l))
  <2>1. PICK k \in 1..Len(ch), m \in 1..2 : l = NodeAt(c, ch[k]).in[m]
    OBVIOUS
  <2>2. PICK op \in {"LoadF32", "LoadF64"} :
          Strided(c, Stream(c, ch, 1), op) /\ Strided(c, Stream(c, ch, 2), op)
    BY DEF Reducible
  <2> DEFINE s1 == Stream(c, ch, m)
  <2>3. Len(s1) = Len(ch) /\ s1[k] = l
    <3>1. DOMAIN s1 = 1..Len(ch)
      BY DEF Stream
    <3>2. s1[k] = l
      BY <2>1 DEF Stream
    <3> HIDE DEF s1
    <3> QED BY <1>0, <3>1, <3>2, Long
  <2>4. Strided(c, s1, op)
    BY <2>2
  <2> HIDE DEF s1
  <2>5. s1[k] \in Alive(c) /\ NodeAt(c, s1[k]).op = op /\ ~Member(NodeAt(c, s1[k]))
    BY <2>3, <2>4 DEF Strided
  <2> QED BY <2>3, <2>5 DEF Alive, Loads
<1>4. ~Member(NodeAt(c, n)) /\ ~Link(c, NodeAt(c, n).in[3]) /\ NodeAt(c, n).op = "FMAdd"
  <2>1. \A a : Link(c, a) <=> (a \in Ids(c) /\ NodeAt(c, a).op = "FMAdd" /\ Member(NodeAt(c, a)))
    BY DEF Link
  <2> QED BY <2>1 DEF Heads
<1>5. \A i \in Ids(c) : Headed(NodeAt(c, i)) => Member(NodeAt(c, i)) /\ i < n
  BY DEF ReducedTo, Reduced, Chained, Link
\* No product of the chain is in a reduction yet.
<1>6. \A k \in 1..Len(ch) : ~Member(NodeAt(c, ch[k]))
  <2> DEFINE S == {j \in Nat : j + 1 <= Len(ch) => ~Member(NodeAt(c, ch[j + 1]))}
  <2>1. 0 \in S
    BY <1>0, <1>4
  <2>2. ASSUME NEW j \in Nat, j \in S PROVE j + 1 \in S
    <3> SUFFICES ASSUME (j + 1) + 1 <= Len(ch), Member(NodeAt(c, ch[(j + 1) + 1])) PROVE FALSE
      OBVIOUS
    <3> DEFINE k == (j + 1) + 1
    <3>1. k \in 1..Len(ch) /\ k # 1 /\ k - 1 = j + 1 /\ j + 1 <= Len(ch)
      BY <1>0
    <3> HIDE DEF k
    <3>2. ~Headed(NodeAt(c, ch[k]))
      BY <1>0, <1>2, <1>5, <3>1
    <3>3. Chained(c, ch[k])
      BY <1>2, <3>1 DEF ReducedTo, Reduced
    <3>4. Link(c, ch[j + 1])
      <4>1. NodeAt(c, ch[k]).op \notin Loads
        BY <1>2, <3>1 DEF Loads
      <4>2. Member(NodeAt(c, ch[k])) /\ NodeAt(c, ch[k]).in[3] = ch[j + 1]
        BY <1>2, <3>1 DEF k
      <4> QED BY <3>2, <3>3, <4>1, <4>2 DEF Chained
    <3> QED BY <2>2, <3>1, <3>4 DEF Link
  <2>3. Nat \subseteq S
    <3> HIDE DEF S
    <3> QED BY <2>1, <2>2, FromZero
  <2>4. \A k \in 1..Len(ch) : k - 1 \in Nat /\ (k - 1) + 1 = k /\ k <= Len(ch)
    BY <1>0
  <2>5. ASSUME NEW k \in 1..Len(ch) PROVE ~Member(NodeAt(c, ch[k]))
    <3>1. k - 1 \in S
      BY <2>3, <2>4
    <3> QED BY <2>4, <3>1
  <2> QED BY <2>5
<1>7. /\ Graph(d) /\ Ids(d) = Ids(c) /\ DOMAIN d = DOMAIN c
      /\ \A i \in Ids(c) :
            /\ NodeAt(d, i).op = NodeAt(c, i).op /\ NodeAt(d, i).in = NodeAt(c, i).in
            /\ NodeAt(d, i).flags = (NodeAt(c, i).flags \cup (IF i \in E \cup L THEN {"Member"} ELSE {}))
                                      \cup (IF i = n THEN {"Head"} ELSE {})
  <2>1. ch[1] \in Ids(c) /\ ch[1] \in Absorbed(c, ch)
    BY <1>0, <1>1
  <2> HIDE DEF E, L
  <2> QED BY <1>0, <1>1, <2>1, TagIs DEF ReducedTo
<1> HIDE DEF d, E, L
<1>8. \A i \in Ids(c) : /\ Member(NodeAt(d, i)) <=> Member(NodeAt(c, i)) \/ i \in E \cup L
                        /\ Headed(NodeAt(d, i)) <=> Headed(NodeAt(c, i)) \/ i = n
                        /\ Fused(NodeAt(d, i)) <=> Fused(NodeAt(c, i))
  <2> TAKE i \in Ids(c)
  <2> QED BY <1>7 DEF Member, Headed, Fused
<1>9. \A l \in L : l \in Ids(c) /\ NodeAt(c, l).op \in Loads /\ ~Member(NodeAt(c, l))
          /\ NodeAt(c, l).op # "FMAdd"
  BY <1>3 DEF Loads
<1>10. \A e \in E : e \in Ids(c) /\ NodeAt(c, e).op = "FMAdd" /\ e >= n
  BY <1>2 DEF E
<1>11. n \in E
  BY <1>0 DEF E
<1>12. \A a : Link(d, a) <=> Link(c, a) \/ a \in E
  BY <1>7, <1>8, <1>9, <1>10 DEF Link
<1>13. ASSUME NEW i \in Ids(c) PROVE Chained(d, i)
  <2> DEFINE m == NodeAt(c, i)
             w == NodeAt(d, i)
  <2>0. w.in = m.in /\ w.op = m.op /\ m.in[3] \in Int /\ (m.op # "FStsw" => m.in[3] < i)
    BY <1>0, <1>7 DEF Wellformed, Formed
  <2>1. Headed(w) => Link(d, i) /\ ~Link(d, w.in[3])
    <3>1. CASE i = n
      <4>1. m.in[3] \notin E
        <5>1. m.in[3] < n
          BY <1>4, <2>0, <3>1
        <5> HIDE DEF m
        <5> QED BY <1>0, <1>10, <2>0, <5>1
      <4> QED BY <1>4, <1>11, <1>12, <2>0, <3>1, <4>1
    <3>2. CASE i # n /\ Headed(m)
      <4>1. i < n /\ Link(c, i) /\ ~Link(c, m.in[3])
        BY <1>5, <3>2 DEF ReducedTo, Reduced, Chained
      <4>2. m.in[3] \notin E
        <5>1. m.in[3] < n
          <6>1. m.op # "FStsw"
            BY <4>1 DEF Link
          <6> HIDE DEF m
          <6> QED BY <1>0, <2>0, <4>1, <6>1
        <5> HIDE DEF m
        <5> QED BY <1>0, <1>10, <2>0, <5>1
      <4> QED BY <1>12, <2>0, <4>1, <4>2
    <3> QED BY <1>8, <3>1, <3>2
  <2>2. ASSUME Member(w), ~Headed(w), w.op \notin Loads
        PROVE  /\ Link(d, i) /\ Link(d, w.in[3])
               /\ \A k \in 1..2 : /\ w.in[k] \in Ids(d) /\ Member(NodeAt(d, w.in[k]))
                                  /\ NodeAt(d, w.in[k]).op \in Loads
    <3>1. ~Headed(m) /\ i # n /\ m.op \notin Loads
      BY <1>8, <2>0, <2>2
    <3>2. CASE Member(m)
      <4>1. /\ Link(c, i) /\ Link(c, m.in[3])
            /\ \A k \in 1..2 : /\ m.in[k] \in Ids(c) /\ Member(NodeAt(c, m.in[k]))
                               /\ NodeAt(c, m.in[k]).op \in Loads
        BY <3>1, <3>2 DEF ReducedTo, Reduced, Chained
      <4> HIDE DEF m, w
      <4> QED BY <1>7, <1>8, <1>12, <2>0, <4>1
    <3>3. CASE ~Member(m)
      <4>1. i \in E
        BY <1>8, <1>9, <2>2, <3>1, <3>3
      <4>2. PICK k \in 1..Len(ch) : i = ch[k]
        BY <4>1 DEF E
      <4>3. k # 1 /\ k - 1 \in 1..Len(ch) /\ m.in[3] = ch[k - 1]
        BY <1>2, <3>1, <4>2
      <4>4. m.in[3] \in E /\ m.in[1] \in L /\ m.in[2] \in L
        <5>1. m.in[3] \in E
          BY <4>3 DEF E
        <5>2. m.in[1] \in L /\ m.in[2] \in L
          BY <4>2 DEF L
        <5> QED BY <5>1, <5>2
      <4>5. \A j \in 1..2 : m.in[j] \in L
        <5>1. \A j \in 1..2 : j = 1 \/ j = 2
          OBVIOUS
        <5> HIDE DEF m
        <5> QED BY <4>4, <5>1
      <4> HIDE DEF m, w
      <4> QED BY <1>7, <1>8, <1>9, <1>12, <2>0, <4>1, <4>4, <4>5
    <3> QED BY <3>2, <3>3
  <2> QED BY <2>1, <2>2 DEF Chained
<1>14. Distinct(d)
  <2>1. Fetchers(d) = Fetchers(c) /\ \A i \in Fetchers(c) : NodeAt(d, i).in[1] = NodeAt(c, i).in[1]
    BY <1>7 DEF Fetchers
  <2> QED BY <1>7, <2>1 DEF ReducedTo, Distinct
<1>15. \A i \in Ids(c) : Headed(NodeAt(d, i)) => i < n + 1
  BY <1>0, <1>5, <1>8
<1> QED BY <1>7, <1>8, <1>13, <1>14, <1>15 DEF ReducedTo, Reduced, Unfused, d

\* One turn of pass_fma_reduce.
LEMMA ReduceStepIs ==
  ASSUME NEW c, NEW n \in Ids(c), ReducedTo(c, n)
  PROVE  ReducedTo(ReduceTurn(0, 0, 0, c, n), n + 1) /\ Ids(ReduceTurn(0, 0, 0, c, n)) = Ids(c)
<1>0. Len(c.nodes) \in Nat /\ \A i \in Ids(c) : i \in Int
  BY DEF ReducedTo, Graph, Wellformed, Ids
<1>1. CASE Heads(c, n) /\ Reducible(c, Chain(c, n))
  <2>1. Chains(c, n, Chain(c, n))
    BY <1>0, <1>1, ChainGoes DEF Heads
  <2> QED BY <1>1, <2>1, TagReduces DEF ReduceTurn
<1>2. CASE ~(Heads(c, n) /\ Reducible(c, Chain(c, n)))
  <2>1. ReducedTo(c, n + 1)
    BY <1>0 DEF ReducedTo
  <2> QED BY <1>2, <2>1 DEF ReduceTurn
<1> QED BY <1>1, <1>2

LEMMA CleanReduced ==
  ASSUME NEW c, Clean(c)
  PROVE  ReducedTo(c, 0)
BY DEF Clean, ReducedTo, Reduced, Chained, Unfused, Bare, Unmarked, Headed, Member, Fused

\* The graph between the passes, as far as reductions and FSTSWs go.
Sound(c) == Graph(c) /\ Distinct(c) /\ Reduced(c)

\* pass_fma_reduce.
LEMMA ReduceShapes ==
  ASSUME NEW c, Clean(c)
  PROVE  Sound(pass_fma_reduce(c)) /\ Unfused(pass_fma_reduce(c))
<1> DEFINE q == Ascending(c)
           d == ReduceWalk!Through(0, 0, 0, c, q)
<1>0. Len(c.nodes) \in Nat
  BY DEF Clean, Graph, Wellformed
<1>1. Len(q) = Len(c.nodes) /\ \A n \in 1..Len(q) : q[n] = n - 1 /\ n - 1 \in Ids(c)
  BY <1>0, AscendingRuns DEF Ascending, Ids
<1>2. \/ pass_fma_reduce(c) = c
      \/ pass_fma_reduce(c) = d
  BY DEF ReduceWalk!Through, ReduceWalk!Walk, Walk, ReduceTurn, pass_fma_reduce
<1> HIDE DEF q, d
<1>3. PICK f : ReduceWalk!Runs(0, 0, 0, c, q, f)
  <2>1. Len(q) \in Nat
    BY <1>0, <1>1
  <2> HIDE DEF ReduceWalk!Runs
  <2> QED BY <2>1, Induction, ReduceWalk!Unrolled
<1>4. f[0] = c /\ (\A k \in 1..Len(q) : f[k] = ReduceTurn(0, 0, 0, f[k - 1], k - 1)) /\ d = f[Len(q)]
  BY <1>1, <1>3 DEF ReduceWalk!Runs, d
<1> DEFINE S == {k \in Nat : k <= Len(q) => ReducedTo(f[k], k) /\ Ids(f[k]) = Ids(c)}
<1>5. 0 \in S
  BY <1>4, CleanReduced
<1>6. ASSUME NEW k \in Nat, k \in S PROVE k + 1 \in S
  <2> SUFFICES ASSUME k + 1 <= Len(q) PROVE ReducedTo(f[k + 1], k + 1) /\ Ids(f[k + 1]) = Ids(c)
    OBVIOUS
  <2>1. k + 1 \in 1..Len(q) /\ (k + 1) - 1 = k /\ k <= Len(q)
    BY <1>0, <1>1
  <2>2. f[k + 1] = ReduceTurn(0, 0, 0, f[k], k) /\ k \in Ids(c)
    BY <1>1, <1>4, <2>1
  <2>3. ReducedTo(f[k], k) /\ Ids(f[k]) = Ids(c)
    BY <1>6, <2>1
  <2> HIDE DEF S
  <2> QED BY <2>2, <2>3, ReduceStepIs
<1>7. Nat \subseteq S
  <2> HIDE DEF S
  <2> QED BY <1>5, <1>6, FromZero
<1>8. Sound(d) /\ Unfused(d)
  <2>1. Len(q) \in S /\ Len(q) <= Len(q)
    BY <1>0, <1>1, <1>7
  <2> QED BY <1>4, <2>1 DEF ReducedTo, Sound
<1>9. Sound(c) /\ Unfused(c)
  BY CleanReduced DEF ReducedTo, Sound
<1> QED BY <1>2, <1>8, <1>9

-----------------------------------------------------------------------------
(* Comparisons fused, and exact copies *)

\* What has been fused waits for what has been fused.
Matched(c) ==
  \A i \in Ids(c) : Waiting(NodeAt(c, i)) =>
    NodeAt(c, i).in[1] \in Ids(c) /\ Packing(NodeAt(c, NodeAt(c, i).in[1]))

\* What lowering asks of a graph.
Ordered(c) == Sound(c) /\ Matched(c)

LEMMA OrderedIs ==
  ASSUME NEW c, Ordered(c)
  PROVE  Wellformed(c) /\ Reduced(c) /\ Paired(c) /\ "last" \in DOMAIN c
BY DEF Ordered, Sound, Graph, Matched, Paired, Distinct, Fetchers

\* Two contexts whose nodes are in the same reductions.
LEMMA SameReductions ==
  ASSUME NEW c, Reduced(c), NEW d, Ids(d) = Ids(c),
         \A i \in Ids(c) : /\ NodeAt(d, i).in = NodeAt(c, i).in
                           /\ NodeAt(d, i).op = "FMAdd" <=> NodeAt(c, i).op = "FMAdd"
                           /\ NodeAt(d, i).op \in Loads <=> NodeAt(c, i).op \in Loads
                           /\ Member(NodeAt(d, i)) <=> Member(NodeAt(c, i))
                           /\ Headed(NodeAt(d, i)) <=> Headed(NodeAt(c, i))
  PROVE  Reduced(d)
<1>1. \A i : Link(d, i) <=> Link(c, i)
  BY DEF Link
<1>2. ASSUME NEW i \in Ids(c) PROVE Chained(d, i)
  <2>1. Chained(c, i)
    BY DEF Reduced
  <2> QED BY <1>1, <2>1 DEF Chained
<1> QED BY <1>2 DEF Reduced

\* A node of a comparison and its FSTSW is fused.
LEMMA FlagShapes ==
  ASSUME NEW c, Sound(c), NEW i \in Ids(c)
  PROVE  LET d == Mark(c, i, "FcomFused")
         IN  /\ Sound(d) /\ Ids(d) = Ids(c)
             /\ \A j \in Ids(c) : /\ NodeAt(d, j).op = NodeAt(c, j).op /\ NodeAt(d, j).in = NodeAt(c, j).in
                                  /\ Fused(NodeAt(d, j)) <=> Fused(NodeAt(c, j)) \/ j = i
<1> DEFINE n == NodeAt(c, i)
           m == Marked(n, "FcomFused")
           d == Mark(c, i, "FcomFused")
<1>1. NodeFields \subseteq DOMAIN n
  BY DEF Sound, Graph, Fielded
<1>2. m.op = n.op /\ m.in = n.in /\ m.flags = n.flags \cup {"FcomFused"} /\ DOMAIN m = DOMAIN n
  BY <1>1, MarkedIs
<1>3. Rewrites(c, d, i, m)
  BY MarkRewrites DEF Sound
<1> HIDE DEF m, d
<1>4. \A j \in Ids(c) : /\ NodeAt(d, j).op = NodeAt(c, j).op /\ NodeAt(d, j).in = NodeAt(c, j).in
                        /\ NodeAt(d, j).flags = NodeAt(c, j).flags
                             \cup (IF j = i THEN {"FcomFused"} ELSE {})
  BY <1>2, <1>3 DEF Rewrites
<1>5. \A j \in Ids(c) : /\ Member(NodeAt(d, j)) <=> Member(NodeAt(c, j))
                        /\ Headed(NodeAt(d, j)) <=> Headed(NodeAt(c, j))
                        /\ Fused(NodeAt(d, j)) <=> Fused(NodeAt(c, j)) \/ j = i
  BY <1>4 DEF Member, Headed, Fused
<1>6. Graph(d) /\ Ids(d) = Ids(c)
  BY <1>3 DEF Rewrites
<1>7. Reduced(d)
  BY <1>4, <1>5, <1>6, SameReductions DEF Sound
<1>8. Distinct(d)
  BY <1>2, <1>3, RewriteDistinct DEF Sound
<1> QED BY <1>4, <1>5, <1>6, <1>7, <1>8 DEF Sound, d

LEMMA StswTurnIs ==
  ASSUME NEW c, Ordered(c), NEW n \in Ids(c)
  PROVE  Ordered(StswTurn(0, 0, 0, c, n)) /\ Ids(StswTurn(0, 0, 0, c, n)) = Ids(c)
<1> DEFINE f == NodeAt(c, n).in[1]
           d == Mark(c, f, "FcomFused")
           e == Mark(d, n, "FcomFused")
<1> SUFFICES ASSUME NodeAt(c, n).op = "FStsw", f \in Ids(c), NodeAt(c, f).op \in Compares
             PROVE  Ordered(e) /\ Ids(e) = Ids(c)
  BY DEF StswTurn
<1>1. /\ Sound(d) /\ Ids(d) = Ids(c)
      /\ \A j \in Ids(c) : /\ NodeAt(d, j).op = NodeAt(c, j).op /\ NodeAt(d, j).in = NodeAt(c, j).in
                           /\ Fused(NodeAt(d, j)) <=> Fused(NodeAt(c, j)) \/ j = f
  BY FlagShapes DEF Ordered
<1> HIDE DEF d
<1>2. /\ Sound(e) /\ Ids(e) = Ids(d)
      /\ \A j \in Ids(d) : /\ NodeAt(e, j).op = NodeAt(d, j).op /\ NodeAt(e, j).in = NodeAt(d, j).in
                           /\ Fused(NodeAt(e, j)) <=> Fused(NodeAt(d, j)) \/ j = n
  BY <1>1, FlagShapes
<1> HIDE DEF e
<1>3. Matched(e)
  <2> SUFFICES ASSUME NEW i \in Ids(c), Waiting(NodeAt(e, i))
               PROVE  NodeAt(e, i).in[1] \in Ids(c) /\ Packing(NodeAt(e, NodeAt(e, i).in[1]))
    BY <1>1, <1>2 DEF Matched
  <2>1. NodeAt(e, i).in = NodeAt(c, i).in /\ NodeAt(c, i).op = "FStsw"
    BY <1>1, <1>2 DEF Waiting
  <2>2. CASE i = n
    <3>1. Packing(NodeAt(e, f))
      BY <1>1, <1>2 DEF Packing
    <3> QED BY <2>1, <2>2, <3>1
  <2>3. CASE i # n
    <3>1. i # f
      BY <2>1 DEF Compares
    <3>2. Waiting(NodeAt(c, i))
      BY <1>1, <1>2, <2>1, <2>3, <3>1 DEF Waiting
    <3>3. NodeAt(c, i).in[1] \in Ids(c) /\ Packing(NodeAt(c, NodeAt(c, i).in[1]))
      BY <3>2 DEF Ordered, Matched
    <3> QED BY <1>1, <1>2, <2>1, <3>3 DEF Packing
  <2> QED BY <2>2, <2>3
<1> QED BY <1>1, <1>2, <1>3 DEF Ordered

\* The graph stays Ordered along a pass.
OrderedAlong(c, d, x, base, K) == Ordered(K) /\ Ids(K) = Ids(base)
StswOrdered == INSTANCE X87Walk_proofs WITH Turn <- StswTurn, Kept <- OrderedAlong

\* pass_fcom_fstsw_fusion.
LEMMA StswIsOrdered ==
  ASSUME NEW c, Ordered(c)
  PROVE  Ordered(pass_fcom_fstsw_fusion(c))
<1> DEFINE q == Ascending(c)
<1>0. Len(c.nodes) \in Nat
  BY DEF Ordered, Sound, Graph, Wellformed
<1>1. Len(q) \in Nat /\ \A n \in 1..Len(q) : q[n] \in Ids(c)
  BY <1>0, AscendingRuns DEF Ascending, Ids
<1>2. \A n \in 1..Len(q) : \A K :
        OrderedAlong(0, 0, 0, c, K) => OrderedAlong(0, 0, 0, c, StswTurn(0, 0, 0, K, q[n]))
  <2> HIDE DEF q, StswTurn
  <2> QED BY <1>1, StswTurnIs DEF OrderedAlong
<1>3. OrderedAlong(0, 0, 0, c, c)
  BY DEF OrderedAlong
<1>4. OrderedAlong(0, 0, 0, c, StswOrdered!Through(0, 0, 0, c, q))
  <2> HIDE DEF OrderedAlong, StswTurn, q
  <2> QED BY <1>1, <1>2, <1>3, Induction, StswOrdered!WalkKeeps
<1>5. StswOrdered!Through(0, 0, 0, c, q) = pass_fcom_fstsw_fusion(c)
  BY DEF StswOrdered!Through, StswOrdered!Walk, Walk, StswTurn, pass_fcom_fstsw_fusion
<1> QED BY <1>4, <1>5 DEF OrderedAlong

\* Loads and stores are exchanged for loads and stores.
LEMMA ExactIsOrdered ==
  ASSUME NEW c, Ordered(c)
  PROVE  Ordered(pass_exact_i64_copy(c))
<1> DEFINE C == Copied(c)
           f == [k \in DOMAIN c.nodes |->
                   LET n == c.nodes[k]
                   IN  IF k - 1 \in C THEN [n EXCEPT !.op = "LoadF64"]
                       ELSE IF n.op = "StoreI64" /\ ~Dead(n) /\ n.in[1] \in C
                       THEN [n EXCEPT !.op = "StoreF64", !.flags = @ \ {"Truncate"}]
                       ELSE n]
           d == [c EXCEPT !.nodes = f]
<1>0. /\ Len(c.nodes) \in Nat /\ DOMAIN c.nodes = 1..Len(c.nodes) /\ Graph(c)
      /\ \A i \in Ids(c) : NodeFields \subseteq DOMAIN NodeAt(c, i) /\ Formed(NodeAt(c, i), i)
  BY SeqHas DEF Ordered, Sound, Graph, Fielded, Wellformed
<1>1. IsSeq(f) /\ Len(f) = Len(c.nodes)
  <2>1. f = [k \in 1..Len(c.nodes) |-> f[k]]
    BY <1>0
  <2> HIDE DEF f
  <2> QED BY <1>0, <2>1, SeqIs
<1>2. pass_exact_i64_copy(c) = d
  <2>1. Row(f) = f
    <3> HIDE DEF f
    <3> QED BY <1>1, RowIs
  <2>2. pass_exact_i64_copy(c) = [c EXCEPT !.nodes = Row(f)]
    BY DEF pass_exact_i64_copy
  <2> HIDE DEF f
  <2> QED BY <2>1, <2>2
<1>3. \A i \in C : i \in Ids(c) /\ NodeAt(c, i).op = "LoadI64"
  BY DEF Copied, Alive
<1>4. ASSUME NEW i \in Ids(c)
      PROVE  LET n == NodeAt(c, i)  m == f[i + 1] IN
             /\ DOMAIN m = DOMAIN n /\ m.in = n.in
             /\ m.op = n.op \/ (n.op \in Loads /\ m.op = "LoadF64") \/ (n.op \in Stores /\ m.op = "StoreF64")
             /\ \A g : g # "Truncate" => (g \in m.flags <=> g \in n.flags)
  <2> DEFINE n == NodeAt(c, i)
             a == [n EXCEPT !.op = "LoadF64"]
             b == [n EXCEPT !.op = "StoreF64", !.flags = n.flags \ {"Truncate"}]
  <2>1. f[i + 1] = IF i \in C THEN a
                   ELSE IF n.op = "StoreI64" /\ ~Dead(n) /\ n.in[1] \in C THEN b ELSE n
    <3> HIDE DEF C
    <3> QED BY <1>0, IdFacts DEF NodeAt
  <2>2. /\ DOMAIN a = DOMAIN n /\ a.in = n.in /\ a.op = "LoadF64" /\ a.flags = n.flags
        /\ DOMAIN b = DOMAIN n /\ b.in = n.in /\ b.op = "StoreF64" /\ b.flags = n.flags \ {"Truncate"}
    <3>1. NodeFields \subseteq DOMAIN n
      BY <1>0
    <3> HIDE DEF n
    <3> QED BY <3>1 DEF NodeFields
  <2> HIDE DEF f, a, b
  <2>3. CASE i \in C
    BY <1>3, <2>1, <2>2, <2>3 DEF Loads
  <2>4. CASE i \notin C
    <3> HIDE DEF n
    <3> QED BY <2>1, <2>2, <2>4 DEF Stores, IntStores, n
  <2> QED BY <2>3, <2>4
<1> HIDE DEF f, C
<1>5. \A i \in Ids(c) : LET n == NodeAt(c, i)  m == f[i + 1] IN
        /\ Formed(m, i) /\ NodeFields \subseteq DOMAIN m
        /\ m.in = n.in /\ (m.op = "FStsw" <=> n.op = "FStsw") /\ (m.op = "FMAdd" <=> n.op = "FMAdd")
        /\ (m.op \in Loads <=> n.op \in Loads) /\ (m.op \in Compares <=> n.op \in Compares)
        /\ (Member(m) <=> Member(n)) /\ (Headed(m) <=> Headed(n)) /\ (Fused(m) <=> Fused(n))
  <2> TAKE i \in Ids(c)
  <2> DEFINE n == NodeAt(c, i)
             m == f[i + 1]
  <2>1. /\ DOMAIN m = DOMAIN n /\ m.in = n.in
        /\ m.op = n.op \/ (n.op \in Loads /\ m.op = "LoadF64") \/ (n.op \in Stores /\ m.op = "StoreF64")
        /\ \A g : g # "Truncate" => (g \in m.flags <=> g \in n.flags)
    BY <1>4
  <2>2. NodeFields \subseteq DOMAIN n /\ Formed(n, i)
    BY <1>0
  <2> HIDE DEF n, m
  <2>3. (Dead(m) <=> Dead(n)) /\ (Member(m) <=> Member(n)) /\ (Headed(m) <=> Headed(n))
            /\ (Fused(m) <=> Fused(n))
    BY <2>1 DEF Dead, Member, Headed, Fused
  <2>4. /\ (m.op = "FStsw" <=> n.op = "FStsw") /\ (m.op = "FMAdd" <=> n.op = "FMAdd")
        /\ (m.op = "FScale" <=> n.op = "FScale")
        /\ (m.op \in Loads <=> n.op \in Loads) /\ (m.op \in Compares <=> n.op \in Compares)
        /\ (m.op \in Stores <=> n.op \in Stores) /\ (m.op \in Consts <=> n.op \in Consts)
        /\ (m.op \in EffectOps <=> n.op \in EffectOps) /\ (m.op \in ValueOps <=> n.op \in ValueOps)
    <3>1. "LoadF64" \in Loads /\ "StoreF64" \in Stores
      BY DEF Loads, Stores
    <3>2. \A p \in Loads : p \in ValueOps
              /\ p \notin EffectOps \cup Stores \cup Compares \cup Consts \cup {"FStsw", "FMAdd", "FScale"}
      BY DEF Loads, ValueOps, EffectOps, Stores, IntStores, Compares, Consts, BridgeOps
    <3>3. \A p \in Stores : p \in EffectOps
              /\ p \notin ValueOps \cup Loads \cup Compares \cup Consts \cup {"FStsw", "FMAdd", "FScale"}
      BY DEF Loads, ValueOps, EffectOps, Stores, IntStores, Compares, Consts, BridgeOps, Binaries,
            Fmas, Unaries, Trigs
    <3> QED BY <2>1, <3>1, <3>2, <3>3
  <2>5. Formed(m, i)
    BY <2>1, <2>2, <2>3, <2>4 DEF Formed
  <2> QED BY <2>1, <2>2, <2>3, <2>4, <2>5 DEF n, m
<1>6. /\ Graph(d) /\ Ids(d) = Ids(c) /\ d.nodes = f /\ DOMAIN d = DOMAIN c /\ d.val = c.val
      /\ \A i : NodeAt(d, i) = f[i + 1]
  BY <1>0, <1>1, <1>5, Repainted
<1> HIDE DEF d
<1>7. Reduced(d)
  BY <1>5, <1>6, SameReductions DEF Ordered, Sound
<1>8. Distinct(d)
  <2>1. Fetchers(d) = Fetchers(c) /\ \A i \in Fetchers(c) : NodeAt(d, i).in[1] = NodeAt(c, i).in[1]
    BY <1>5, <1>6 DEF Fetchers
  <2> QED BY <1>6, <2>1 DEF Ordered, Sound, Distinct
<1>9. Matched(d)
  <2>1. \A i \in Ids(c) : /\ Waiting(NodeAt(d, i)) <=> Waiting(NodeAt(c, i))
                          /\ Packing(NodeAt(d, i)) <=> Packing(NodeAt(c, i))
                          /\ NodeAt(d, i).in[1] = NodeAt(c, i).in[1]
    BY <1>5, <1>6 DEF Waiting, Packing
  <2> QED BY <1>6, <2>1 DEF Ordered, Matched
<1> QED BY <1>2, <1>6, <1>7, <1>8, <1>9 DEF Ordered, Sound

\* All passes: what is drawn comes out Ordered, whatever the options.
LEMMA OptimizeOrders ==
  ASSUME NEW c, Drawn(c), NEW opts
  PROVE  Ordered(optimize(c, opts))
<1> DEFINE d == pass_dse(c)
           m == IF opts.contract THEN pass_fma(d) ELSE d
           r == IF opts.reduce THEN pass_fma_reduce(m) ELSE m
           f == pass_fcom_fstsw_fusion(r)
<1>1. Clean(d)
  BY DrawnClean, DseIsClean
<1> HIDE DEF d
<1>2. Clean(m)
  BY <1>1, FmaIsClean
<1> HIDE DEF m
<1>3. Sound(r) /\ Unfused(r)
  BY <1>2, ReduceShapes, CleanReduced DEF ReducedTo, Sound
<1> HIDE DEF r
<1>4. Ordered(r)
  BY <1>3 DEF Ordered, Matched, Unfused, Waiting
<1>5. Ordered(f)
  BY <1>4, StswIsOrdered
<1>6. optimize(c, opts) \in {f, pass_exact_i64_copy(f)}
  BY DEF optimize, d, m, r
<1> HIDE DEF f
<1> QED BY <1>5, <1>6, ExactIsOrdered

-----------------------------------------------------------------------------
(* Making a value again *)

\* Where a reference goes when a node is put in before pos.
Moved(r, pos) == IF r >= pos THEN r + 1 ELSE r

\* From c to e the value of node best is made again before node pos, and node
\* pos may take what it took from best from the new one.
Inserts(c, e, best, pos) ==
  /\ DOMAIN e = DOMAIN c /\ IsSeq(e.nodes) /\ Len(e.nodes) = Len(c.nodes) + 1
  /\ LET n == NodeAt(e, pos)
     IN  NodeFields \subseteq DOMAIN n /\ n.op = NodeAt(c, best).op /\ n.in = NodeAt(c, best).in
         /\ n.flags = {}
  /\ \A i \in Ids(c) :
       LET n == NodeAt(c, i)
           m == NodeAt(e, Moved(i, pos))
       IN  /\ NodeFields \subseteq DOMAIN m /\ m.op = n.op /\ m.flags = n.flags
           /\ \A k \in 1..3 : /\ m.in[k] \in Int
                              /\ k = 1 \/ n.op # "FStsw" =>
                                   \/ m.in[k] = Moved(n.in[k], pos)
                                   \/ i = pos /\ n.in[k] = best /\ m.in[k] = pos

LEMMA MovedIs ==
  ASSUME NEW c, Len(c.nodes) \in Nat, NEW e, Len(e.nodes) = Len(c.nodes) + 1, NEW pos \in Ids(c)
  PROVE  /\ \A i \in Ids(c) : Moved(i, pos) \in Ids(e) /\ Moved(i, pos) # pos
         /\ \A j \in Ids(e) : j = pos \/ \E i \in Ids(c) : j = Moved(i, pos)
         /\ \A r \in Int : Moved(r, pos) \in Int /\ Moved(r, pos) # pos /\ (r < pos => Moved(r, pos) = r)
                           /\ (Moved(r, pos) \in Ids(e) => r \in Ids(c))
         /\ \A r, z \in Int : /\ Moved(r, pos) = Moved(z, pos) => r = z
                              /\ r < z => Moved(r, pos) < Moved(z, pos)
         /\ pos < Moved(pos, pos) /\ pos \in Ids(e) /\ pos \in Nat /\ Moved(None, pos) = None
<1>1. Len(e.nodes) \in Nat /\ pos \in Nat /\ pos < Len(c.nodes)
  BY DEF Ids
<1> DEFINE M(r) == Moved(r, pos)
<1>2. \A r \in Int : (r >= pos => M(r) = r + 1) /\ (r < pos => M(r) = r)
  BY <1>1 DEF Moved
<1> HIDE DEF M
<1>3. ASSUME NEW j \in Ids(e), j # pos PROVE \E i \in Ids(c) : j = M(i)
  <2>1. CASE j < pos
    <3>1. j \in Ids(c) /\ j = M(j)
      BY <1>1, <2>1, <1>2, <1>3 DEF Ids
    <3> QED BY <3>1
  <2>2. CASE j > pos
    <3>1. j - 1 \in Ids(c) /\ j = M(j - 1)
      BY <1>1, <2>2, <1>2, <1>3 DEF Ids
    <3> QED BY <3>1
  <2> QED BY <1>1, <1>3, <2>1, <2>2 DEF Ids
<1>4. ASSUME NEW r \in Int
      PROVE  /\ M(r) \in Int /\ M(r) # pos /\ (r < pos => M(r) = r) /\ (M(r) \in Ids(e) => r \in Ids(c))
             /\ r \in Ids(c) => M(r) \in Ids(e)
  <2>1. (r >= pos => M(r) = r + 1) /\ (r < pos => M(r) = r)
    BY <1>2
  <2>2. CASE r >= pos
    BY <1>1, <2>1, <2>2 DEF Ids
  <2>3. CASE r < pos
    BY <1>1, <2>1, <2>3 DEF Ids
  <2> QED BY <1>1, <2>2, <2>3
<1>5. ASSUME NEW r \in Int, NEW z \in Int
      PROVE  (M(r) = M(z) => r = z) /\ (r < z => M(r) < M(z))
  <2>1. (r >= pos => M(r) = r + 1) /\ (r < pos => M(r) = r)
    BY <1>2
  <2>2. (z >= pos => M(z) = z + 1) /\ (z < pos => M(z) = z)
    BY <1>2
  <2> QED BY <1>1, <2>1, <2>2
<1>6. pos < M(pos) /\ pos \in Ids(e) /\ M(None) = None
  <2>1. pos \in Int /\ None \in Int /\ None < pos /\ pos >= pos
    BY <1>1 DEF None
  <2>2. M(pos) = pos + 1 /\ M(None) = None
    BY <1>2, <2>1
  <2> QED BY <1>1, <2>2 DEF Ids
<1>7. \A i \in Ids(c) : i \in Int
  BY DEF Ids
<1> QED BY <1>1, <1>3, <1>4, <1>5, <1>6, <1>7 DEF M

\* A node made again before its last use leaves the graph Ordered.
LEMMA InsertOrders ==
  ASSUME NEW c, Ordered(c), NEW best \in Ids(c), NEW pos \in Ids(c), best < pos,
         NodeAt(c, best).op \in Consts \cup Floats, NodeAt(c, best).flags = {},
         NEW e, Inserts(c, e, best, pos)
  PROVE  Ordered(e)
<1>1. Graph(c) /\ Distinct(c) /\ Reduced(c) /\ Matched(c)
  BY DEF Ordered, Sound
<1>2. Len(c.nodes) \in Nat /\ Len(e.nodes) = Len(c.nodes) + 1 /\ Len(e.nodes) \in Nat
  BY <1>1 DEF Graph, Wellformed, Inserts
<1> DEFINE M(r) == Moved(r, pos)
<1>3. /\ \A i \in Ids(c) : M(i) \in Ids(e) /\ M(i) # pos
      /\ \A j \in Ids(e) : j = pos \/ \E i \in Ids(c) : j = M(i)
      /\ \A r \in Int : M(r) \in Int /\ M(r) # pos /\ (r < pos => M(r) = r)
           /\ (M(r) \in Ids(e) => r \in Ids(c))
      /\ \A r, z \in Int : (M(r) = M(z) => r = z) /\ (r < z => M(r) < M(z))
      /\ pos < M(pos) /\ pos \in Ids(e) /\ pos \in Nat /\ M(None) = None
  BY <1>2, MovedIs
<1> HIDE DEF M
<1>4. \A i \in Ids(c) : i \in Int
  BY DEF Ids
<1>5. \A i \in Ids(c) : Formed(NodeAt(c, i), i) /\ NodeFields \subseteq DOMAIN NodeAt(c, i)
  BY <1>1 DEF Graph, Wellformed, Fielded
<1>6. LET n == NodeAt(e, pos)
      IN  /\ NodeFields \subseteq DOMAIN n /\ n.op = NodeAt(c, best).op /\ n.op \in Consts \cup Floats
          /\ n.flags = {} /\ \A k \in 1..3 : n.in[k] = None
  <2>1. NodeAt(c, best).op \in Loads \cup Consts
    BY DEF Floats, Loads
  <2> QED BY <1>5, <2>1 DEF Inserts, Formed
<1>7. \A i \in Ids(c) :
       LET n == NodeAt(c, i)
           m == NodeAt(e, M(i))
       IN  /\ NodeFields \subseteq DOMAIN m /\ m.op = n.op /\ m.flags = n.flags
           /\ \A k \in 1..3 : /\ m.in[k] \in Int
                              /\ k = 1 \/ n.op # "FStsw" =>
                                   \/ m.in[k] = M(n.in[k])
                                   \/ i = pos /\ n.in[k] = best /\ m.in[k] = pos
  BY DEF Inserts, M
<1>8. NodeAt(c, best).op \notin EffectOps /\ NodeAt(c, best).op \notin {"FMAdd", "FStsw"}
  BY DEF Consts, Floats, EffectOps, Stores, IntStores, Compares, BridgeOps
<1>9. Graph(e)
  <2>1. Formed(NodeAt(e, pos), pos)
    <3>1. NodeAt(e, pos).op \in ValueOps /\ NodeAt(e, pos).op \notin Stores \cup {"FScale"}
      BY <1>6 DEF ValueOps, Consts, Floats, Loads, Stores, IntStores
    <3>2. ~Dead(NodeAt(e, pos))
      BY <1>6 DEF Dead
    <3>3. None \in Int /\ None < pos
      BY <1>3 DEF None
    <3> QED BY <1>6, <3>1, <3>2, <3>3 DEF Formed
  <2>2. ASSUME NEW i \in Ids(c) PROVE Formed(NodeAt(e, M(i)), M(i))
    <3> DEFINE n == NodeAt(c, i)
               m == NodeAt(e, M(i))
    <3>1. /\ m.op = n.op /\ m.flags = n.flags
          /\ \A k \in 1..3 : /\ m.in[k] \in Int
                             /\ k = 1 \/ n.op # "FStsw" =>
                                  \/ m.in[k] = M(n.in[k])
                                  \/ i = pos /\ n.in[k] = best /\ m.in[k] = pos
      BY <1>7
    <3>2. Formed(n, i) /\ i \in Int
      BY <1>4, <1>5
    <3>3. Dead(m) => m.op \notin EffectOps
      BY <3>1, <3>2 DEF Formed, Dead
    <3> HIDE DEF n, m
    <3>4. \A k \in 1..3 : /\ (k = 1 \/ n.op # "FStsw") /\ n.in[k] < i => m.in[k] < M(i)
                          /\ (k = 1 \/ n.op # "FStsw") /\ n.in[k] = None => m.in[k] = None
      <4>1. \A k \in 1..3 : n.in[k] \in Int
        BY <3>2 DEF Formed
      <4>2. best # None
        BY DEF Ids, None
      <4> QED BY <1>3, <3>1, <3>2, <4>1, <4>2
    <3>5. n.op \in Loads \cup Consts \cup Stores \cup {"FScale"} => n.op # "FStsw"
      BY DEF Loads, Consts, Stores, IntStores
    <3>6. m.in[1] < M(i) /\ (n.op # "FStsw" => m.in[2] < M(i) /\ m.in[3] < M(i))
      BY <3>2, <3>4 DEF Formed
    <3>7. m.op \in Loads \cup Consts => \A k \in 1..3 : m.in[k] = None
      BY <3>1, <3>2, <3>4, <3>5 DEF Formed
    <3>8. (m.op \in Stores => m.in[2] = None /\ m.in[3] = None) /\ (m.op = "FScale" => m.in[3] = None)
      BY <3>1, <3>2, <3>4, <3>5 DEF Formed
    <3>9. m.op \in ValueOps \cup EffectOps /\ \A k \in 1..3 : m.in[k] \in Int
      BY <3>1, <3>2 DEF Formed
    <3>10. Formed(m, M(i))
      BY <3>1, <3>3, <3>6, <3>7, <3>8, <3>9 DEF Formed
    <3> QED BY <3>10 DEF m
  <2>3. \A j \in Ids(e) : Formed(NodeAt(e, j), j)
    BY <1>3, <2>1, <2>2
  <2>4. \A j \in Ids(e) : NodeFields \subseteq DOMAIN NodeAt(e, j)
    BY <1>3, <1>6, <1>7
  <2> QED BY <1>1, <1>2, <2>3, <2>4 DEF Graph, Wellformed, Fielded, Inserts
<1>10. Distinct(e)
  <2> SUFFICES ASSUME NEW x \in Fetchers(e), NEW y \in Fetchers(e), NodeAt(e, x).in[1] \in Ids(e),
                      NodeAt(e, x).in[1] = NodeAt(e, y).in[1]
               PROVE  x = y
    BY DEF Distinct
  <2>1. \A j \in Fetchers(e) : \E i \in Fetchers(c) : j = M(i)
    <3>1. NodeAt(e, pos).op # "FStsw"
      BY <1>6, <1>8
    <3> SUFFICES ASSUME NEW j \in Fetchers(e) PROVE \E i \in Fetchers(c) : j = M(i)
      OBVIOUS
    <3>2. j \in Ids(e) /\ NodeAt(e, j).op = "FStsw" /\ j # pos
      BY <3>1 DEF Fetchers
    <3>3. PICK i \in Ids(c) : j = M(i)
      BY <1>3, <3>2
    <3>4. NodeAt(c, i).op = "FStsw"
      BY <1>7, <3>2, <3>3
    <3> QED BY <3>3, <3>4 DEF Fetchers
  <2>2. PICK i \in Fetchers(c) : x = M(i)
    BY <2>1
  <2>3. PICK j \in Fetchers(c) : y = M(j)
    BY <2>1
  <2>4. i \in Ids(c) /\ j \in Ids(c) /\ NodeAt(c, i).in[1] \in Int /\ NodeAt(c, j).in[1] \in Int
    BY <1>5 DEF Fetchers, Formed
  <2>5. /\ \/ NodeAt(e, x).in[1] = M(NodeAt(c, i).in[1])
           \/ i = pos /\ NodeAt(e, x).in[1] = pos
        /\ \/ NodeAt(e, y).in[1] = M(NodeAt(c, j).in[1])
           \/ j = pos /\ NodeAt(e, y).in[1] = pos
    BY <1>7, <2>2, <2>3, <2>4
  <2>6. (i = pos /\ j = pos) \/ (NodeAt(c, i).in[1] = NodeAt(c, j).in[1] /\ NodeAt(c, i).in[1] \in Ids(c))
    <3> DEFINE f == NodeAt(c, i).in[1]
               g == NodeAt(c, j).in[1]
               v == NodeAt(e, x).in[1]
    <3>1. M(f) # pos /\ M(g) # pos /\ (M(f) = M(g) => f = g) /\ (M(f) \in Ids(e) => f \in Ids(c))
      BY <1>3, <2>4
    <3>2. /\ v = M(f) \/ (i = pos /\ v = pos)
          /\ v = M(g) \/ (j = pos /\ v = pos)
      BY <2>5
    <3>3. v \in Ids(e)
      OBVIOUS
    <3> HIDE DEF f, g, v
    <3>4. (i = pos /\ j = pos) \/ (f = g /\ f \in Ids(c))
      <4>1. CASE i = pos /\ v = pos
        BY <3>1, <3>2, <4>1
      <4>2. CASE v = M(f)
        BY <3>1, <3>2, <3>3, <4>2
      <4> QED BY <3>2, <4>1, <4>2
    <3> QED BY <3>4 DEF f, g
  <2>7. i = j
    BY <1>1, <2>6 DEF Distinct
  <2> QED BY <2>2, <2>3, <2>7
<1>11. \A i \in Ids(c) : LET n == NodeAt(c, i)  m == NodeAt(e, M(i)) IN
         (Member(m) <=> Member(n)) /\ (Headed(m) <=> Headed(n)) /\ (Fused(m) <=> Fused(n))
  BY <1>7 DEF Member, Headed, Fused
<1>12. ~Member(NodeAt(c, best)) /\ ~Fused(NodeAt(c, best)) /\ ~Member(NodeAt(e, pos))
           /\ ~Headed(NodeAt(e, pos))
  BY <1>6 DEF Member, Headed, Fused
<1>13. ASSUME NEW i \in Ids(c), NodeAt(c, i).op = "FMAdd"
       PROVE  LET n == NodeAt(c, i)  m == NodeAt(e, M(i)) IN
              /\ Link(e, m.in[3]) <=> Link(c, n.in[3])
              /\ \A k \in 1..2 : n.in[k] \in Ids(c) /\ Member(NodeAt(c, n.in[k])) => m.in[k] = M(n.in[k])
  <2> DEFINE n == NodeAt(c, i)
             m == NodeAt(e, M(i))
  <2>1. \A k \in 1..3 : n.in[k] \in Int /\ (m.in[k] = M(n.in[k]) \/ (n.in[k] = best /\ m.in[k] = pos))
    BY <1>5, <1>7, <1>13 DEF Formed
  <2>2. \A r \in Int : Link(e, M(r)) <=> Link(c, r)
    BY <1>3, <1>7, <1>11 DEF Link
  <2>3. ~Link(c, best) /\ ~Link(e, pos)
    BY <1>12 DEF Link
  <2> QED BY <1>12, <2>1, <2>2, <2>3
<1>14. Reduced(e)
  <2>1. Chained(e, pos)
    BY <1>12 DEF Chained
  <2>2. ASSUME NEW i \in Ids(c) PROVE Chained(e, M(i))
    <3> DEFINE n == NodeAt(c, i)
               m == NodeAt(e, M(i))
    <3>1. Chained(c, i)
      BY <1>1 DEF Reduced
    <3>2. m.op = n.op /\ (Member(m) <=> Member(n)) /\ (Headed(m) <=> Headed(n)) /\ M(i) \in Ids(e)
      BY <1>3, <1>7, <1>11
    <3>3. Link(e, M(i)) <=> Link(c, i)
      BY <3>2 DEF Link
    <3>4. CASE n.op # "FMAdd"
      BY <3>1, <3>2, <3>4 DEF Chained, Link
    <3>5. CASE n.op = "FMAdd"
      <4>1. /\ Link(e, m.in[3]) <=> Link(c, n.in[3])
            /\ \A k \in 1..2 : n.in[k] \in Ids(c) /\ Member(NodeAt(c, n.in[k])) => m.in[k] = M(n.in[k])
        BY <1>13, <3>5
      <4>2. \A r \in Ids(c) : /\ M(r) \in Ids(e) /\ NodeAt(e, M(r)).op = NodeAt(c, r).op
                              /\ Member(NodeAt(e, M(r))) <=> Member(NodeAt(c, r))
        BY <1>3, <1>7, <1>11
      <4>3. "FMAdd" \notin Loads
        BY DEF Loads
      <4>4. Headed(m) => Link(e, M(i)) /\ ~Link(e, m.in[3])
        BY <3>1, <3>2, <3>3, <4>1 DEF Chained
      <4>5. ASSUME Member(m), ~Headed(m)
            PROVE  /\ Link(e, M(i)) /\ Link(e, m.in[3])
                   /\ \A k \in 1..2 : /\ m.in[k] \in Ids(e) /\ Member(NodeAt(e, m.in[k]))
                                      /\ NodeAt(e, m.in[k]).op \in Loads
        <5>1. /\ Link(c, i) /\ Link(c, n.in[3])
              /\ \A k \in 1..2 : /\ n.in[k] \in Ids(c) /\ Member(NodeAt(c, n.in[k]))
                                 /\ NodeAt(c, n.in[k]).op \in Loads
          BY <3>1, <3>2, <3>5, <4>3, <4>5 DEF Chained
        <5> QED BY <3>3, <4>1, <4>2, <5>1
      <4> QED BY <4>4, <4>5 DEF Chained
    <3> QED BY <3>4, <3>5
  <2> QED BY <1>3, <2>1, <2>2 DEF Reduced
<1>15. Matched(e)
  <2> SUFFICES ASSUME NEW j \in Ids(e), Waiting(NodeAt(e, j))
               PROVE  NodeAt(e, j).in[1] \in Ids(e) /\ Packing(NodeAt(e, NodeAt(e, j).in[1]))
    BY DEF Matched
  <2>1. j # pos
    BY <1>6, <1>8 DEF Waiting
  <2>2. PICK i \in Ids(c) : j = M(i)
    BY <1>3, <2>1
  <2> DEFINE f == NodeAt(c, i).in[1]
  <2>3. Waiting(NodeAt(c, i))
    BY <1>7, <1>11, <2>2 DEF Waiting
  <2>4. f \in Ids(c) /\ Packing(NodeAt(c, f))
    BY <1>1, <2>3 DEF Matched
  <2>5. f # best
    BY <1>12, <2>4 DEF Packing
  <2>6. NodeAt(e, j).in[1] = M(f)
    BY <1>7, <2>2, <2>5
  <2>7. M(f) \in Ids(e) /\ Packing(NodeAt(e, M(f)))
    BY <1>3, <1>7, <1>11, <2>4 DEF Packing
  <2> QED BY <2>6, <2>7
<1> QED BY <1>9, <1>10, <1>14, <1>15 DEF Ordered, Sound

\* A sequence with n put in behind its first k elements.
Inserted(q, n, k) == SubSeq(q, 1, k) \o <<n>> \o SubSeq(q, k + 1, Len(q))
LEMMA InsertIs ==
  ASSUME NEW q, IsSeq(q), NEW n, NEW k \in 0..Len(q)
  PROVE  LET r == Inserted(q, n, k)
         IN  /\ IsSeq(r) /\ Len(r) = Len(q) + 1 /\ r[k + 1] = n
             /\ \A j \in 1..k : r[j] = q[j]
             /\ \A j \in k + 1..Len(q) : r[j + 1] = q[j]
<1>1. PICK T : q \in Seq(T)
  BY DEF IsSeq
<1> DEFINE U == T \cup {n}
           a == SubSeq(q, 1, k)
           b == SubSeq(q, k + 1, Len(q))
           r == a \o <<n>> \o b
<1>2. q \in Seq(U) /\ Len(q) \in Nat /\ k \in Nat /\ k <= Len(q) /\ n \in U
  BY <1>1
<1> HIDE DEF U
<1>3. /\ a \in Seq(U) /\ Len(a) = k /\ \A j \in 1..k : a[j] = q[j]
  BY <1>2
<1>4. b \in Seq(U) /\ Len(b) = Len(q) - k /\ \A j \in 1..Len(q) - k : b[j] = q[k + j]
  BY <1>2
<1> HIDE DEF a, b
<1> DEFINE p == a \o <<n>>
<1>5. p \in Seq(U) /\ Len(p) = k + 1 /\ p[k + 1] = n /\ \A j \in 1..k : p[j] = a[j]
  BY <1>2, <1>3
<1> HIDE DEF p
<1> DEFINE z == p \o b
<1>6. /\ z \in Seq(U) /\ Len(z) = Len(q) + 1
      /\ \A j \in 1..k + 1 : z[j] = p[j]
  <2>1. p \in Seq(U) /\ b \in Seq(U)
    BY <1>4, <1>5
  <2>2. z \in Seq(U) /\ Len(z) = Len(p) + Len(b)
    BY <2>1
  <2>3. \A j \in 1..Len(p) : z[j] = p[j]
    BY <2>1
  <2>4. Len(p) + Len(b) = Len(q) + 1 /\ Len(p) = k + 1
    BY <1>2, <1>4, <1>5
  <2> QED BY <2>2, <2>3, <2>4
<1>7. \A j \in 1..Len(q) - k : z[k + 1 + j] = b[j]
  <2> TAKE j \in 1..Len(q) - k
  <2>0. Len(q) \in Nat /\ k \in Nat /\ Len(p) = k + 1 /\ Len(b) = Len(q) - k
    BY <1>2, <1>4, <1>5
  <2>1. k + 1 + j \in 1..Len(p) + Len(b) /\ k + 1 + j > Len(p) /\ (k + 1 + j) - Len(p) = j
    BY <2>0
  <2> QED BY <1>4, <1>5, <2>1
<1>8. z = r
  BY DEF p
<1> HIDE DEF z, r
<1>9. \A j \in k + 1..Len(q) : z[j + 1] = q[j]
  <2> TAKE j \in k + 1..Len(q)
  <2>1. j - k \in 1..Len(q) - k /\ k + 1 + (j - k) = j + 1 /\ k + (j - k) = j
    BY <1>2
  <2> QED BY <1>4, <1>7, <2>1
<1>10. \A j \in 1..k : z[j] = q[j]
  <2> TAKE j \in 1..k
  <2>1. j \in 1..k + 1
    BY <1>2
  <2> QED BY <1>3, <1>5, <1>6, <2>1
<1>11. k + 1 \in 1..k + 1
  BY <1>2
<1>12. IsSeq(z) /\ z[k + 1] = n
  BY <1>5, <1>6, <1>11 DEF IsSeq
<1> QED BY <1>6, <1>8, <1>9, <1>10, <1>12 DEF r, a, b, Inserted

\* A node whose references are moved.
Shifted(n, pos) ==
  [n EXCEPT !.in = IF node_refs(n) = 1 THEN <<Moved(@[1], pos), @[2], @[3]>>
                   ELSE <<Moved(@[1], pos), Moved(@[2], pos), Moved(@[3], pos)>>]

\* A node that takes from pos what it took from best.
Turned(n, best, pos) ==
  LET Now(r) == IF r = best THEN pos ELSE r
  IN  [n EXCEPT !.in = IF node_refs(n) = 1 THEN <<Now(@[1]), @[2], @[3]>>
                       ELSE <<Now(@[1]), Now(@[2]), Now(@[3])>>]

LEMMA ShiftedIs ==
  ASSUME NEW n, NodeFields \subseteq DOMAIN n, NEW pos
  PROVE  LET m == Shifted(n, pos)
         IN  /\ NodeFields \subseteq DOMAIN m /\ m.op = n.op /\ m.flags = n.flags
             /\ m.in[1] = Moved(n.in[1], pos)
             /\ n.op = "FStsw" => m.in[2] = n.in[2] /\ m.in[3] = n.in[3]
             /\ n.op # "FStsw" => m.in[2] = Moved(n.in[2], pos) /\ m.in[3] = Moved(n.in[3], pos)
<1> DEFINE v == IF node_refs(n) = 1 THEN <<Moved(n.in[1], pos), n.in[2], n.in[3]>>
                ELSE <<Moved(n.in[1], pos), Moved(n.in[2], pos), Moved(n.in[3], pos)>>
           m == [n EXCEPT !.in = v]
<1>1. DOMAIN m = DOMAIN n /\ m.op = n.op /\ m.flags = n.flags /\ m.in = v
  BY DEF NodeFields
<1>2. Shifted(n, pos) = m
  BY DEF Shifted
<1>3. /\ v[1] = Moved(n.in[1], pos)
      /\ n.op = "FStsw" => v[2] = n.in[2] /\ v[3] = n.in[3]
      /\ n.op # "FStsw" => v[2] = Moved(n.in[2], pos) /\ v[3] = Moved(n.in[3], pos)
  BY DEF node_refs
<1> HIDE DEF m, v
<1> QED BY <1>1, <1>2, <1>3

LEMMA TurnedIs ==
  ASSUME NEW n, NodeFields \subseteq DOMAIN n, NEW best, NEW pos
  PROVE  LET m == Turned(n, best, pos)
         IN  /\ NodeFields \subseteq DOMAIN m /\ m.op = n.op /\ m.flags = n.flags
             /\ \A k \in 1..3 : m.in[k] = n.in[k] \/ (n.in[k] = best /\ m.in[k] = pos)
<1> DEFINE Now(r) == IF r = best THEN pos ELSE r
           v == IF node_refs(n) = 1 THEN <<Now(n.in[1]), n.in[2], n.in[3]>>
                ELSE <<Now(n.in[1]), Now(n.in[2]), Now(n.in[3])>>
           m == [n EXCEPT !.in = v]
<1>1. DOMAIN m = DOMAIN n /\ m.op = n.op /\ m.flags = n.flags /\ m.in = v
  BY DEF NodeFields
<1>2. Turned(n, best, pos) = m
  BY DEF Turned
<1>3. \A k \in 1..3 : v[k] = n.in[k] \/ (n.in[k] = best /\ v[k] = pos)
  <2>1. /\ v[1] = n.in[1] \/ (n.in[1] = best /\ v[1] = pos)
        /\ v[2] = n.in[2] \/ (n.in[2] = best /\ v[2] = pos)
        /\ v[3] = n.in[3] \/ (n.in[3] = best /\ v[3] = pos)
    OBVIOUS
  <2>2. \A k \in 1..3 : k = 1 \/ k = 2 \/ k = 3
    OBVIOUS
  <2> HIDE DEF v
  <2> QED BY <2>1, <2>2
<1> HIDE DEF m, v
<1> QED BY <1>1, <1>2, <1>3

\* insert_clone_at.
LEMMA CloneInserts ==
  ASSUME NEW c, Graph(c), NEW best \in Ids(c), NEW pos \in Ids(c)
  PROVE  LET d == insert_clone_at(c, best, pos)
         IN  /\ DOMAIN d = DOMAIN c /\ IsSeq(d.nodes) /\ Len(d.nodes) = Len(c.nodes) + 1
             /\ LET n == NodeAt(d, pos)
                IN  NodeFields \subseteq DOMAIN n /\ n.op = NodeAt(c, best).op
                    /\ n.in = NodeAt(c, best).in /\ n.flags = {}
             /\ \A i \in Ids(c) : NodeAt(d, Moved(i, pos)) = Shifted(NodeAt(c, i), pos)
<1> DEFINE f == [k \in DOMAIN c.nodes |-> Shifted(c.nodes[k], pos)]
           moved == Row(f)
           clone == [NodeAt(c, best) EXCEPT !.flags = {}, !.src = NodeAt(c, pos).src]
           q     == SubSeq(moved, 1, pos) \o <<clone>> \o SubSeq(moved, pos + 1, Len(moved))
<1>0. /\ Len(c.nodes) \in Nat /\ DOMAIN c.nodes = 1..Len(c.nodes)
      /\ NodeFields \subseteq DOMAIN NodeAt(c, best) /\ "nodes" \in DOMAIN c
  BY SeqHas DEF Graph, Wellformed, Fielded
<1>1. IsSeq(f) /\ Len(f) = Len(c.nodes)
  <2>1. f = [k \in 1..Len(c.nodes) |-> f[k]]
    BY <1>0
  <2> HIDE DEF f
  <2> QED BY <1>0, <2>1, SeqIs
<1>2. moved = f
  <2> HIDE DEF f
  <2> QED BY <1>1, RowIs
<1>3. \A i \in Ids(c) : i + 1 \in 1..Len(c.nodes) /\ i \in Int
  BY <1>0, IdFacts
<1>4. \A i \in Ids(c) : f[i + 1] = Shifted(NodeAt(c, i), pos)
  BY <1>0, <1>3 DEF NodeAt
<1>5. PICK v, r, x, y : insert_clone_at(c, best, pos) =
        [c EXCEPT !.nodes = q, !.val = v, !.read = r, !.fcmp = x, !.fcomi = y]
  BY Zenon DEF insert_clone_at, Shifted, Moved
<1>6. NodeFields \subseteq DOMAIN clone /\ clone.op = NodeAt(c, best).op
          /\ clone.in = NodeAt(c, best).in /\ clone.flags = {}
  <2> DEFINE n == NodeAt(c, best)
             z == NodeAt(c, pos).src
  <2>1. NodeFields \subseteq DOMAIN n
    BY <1>0
  <2> HIDE DEF n, z
  <2> QED BY <2>1 DEF NodeFields, n, z
<1> DEFINE d == [c EXCEPT !.nodes = q, !.val = v, !.read = r, !.fcmp = x, !.fcomi = y]
<1>7. d.nodes = q /\ DOMAIN d = DOMAIN c
  <2> HIDE DEF q
  <2> QED BY <1>0
<1>8. /\ IsSeq(q) /\ Len(q) = Len(moved) + 1 /\ q[pos + 1] = clone
      /\ \A j \in 1..pos : q[j] = moved[j]
      /\ \A j \in pos + 1..Len(moved) : q[j + 1] = moved[j]
  <2>1. IsSeq(moved) /\ pos \in 0..Len(moved)
    <3> HIDE DEF f
    <3> QED BY <1>0, <1>1, <1>2 DEF Ids
  <2>2. q = Inserted(moved, clone, pos)
    BY DEF Inserted
  <2> HIDE DEF moved, clone, q
  <2> QED BY <2>1, <2>2, InsertIs
<1> HIDE DEF f, moved, clone, q, d
<1>9. ASSUME NEW i \in Ids(c)
      PROVE  NodeAt(d, Moved(i, pos)) = Shifted(NodeAt(c, i), pos)
  <2>1. i \in Nat /\ i < Len(c.nodes) /\ pos \in Nat /\ Len(moved) = Len(c.nodes)
    BY <1>0, <1>1, <1>2 DEF Ids
  <2>2. CASE i < pos
    <3>1. Moved(i, pos) = i /\ i + 1 \in 1..pos
      BY <2>1, <2>2 DEF Moved
    <3> QED BY <1>2, <1>4, <1>7, <1>8, <3>1 DEF NodeAt
  <2>3. CASE i >= pos
    <3>1. Moved(i, pos) = i + 1 /\ i + 1 \in pos + 1..Len(moved)
      BY <2>1, <2>3 DEF Moved
    <3> QED BY <1>2, <1>4, <1>7, <1>8, <3>1 DEF NodeAt
  <2> QED BY <2>1, <2>2, <2>3
<1>10. NodeAt(d, pos) = clone
  BY <1>7, <1>8 DEF NodeAt
<1> QED BY <1>1, <1>2, <1>5, <1>6, <1>7, <1>8, <1>9, <1>10 DEF d

\* The clone, and its user turned to it.
LEMMA RemakeInserts ==
  ASSUME NEW c, Graph(c), NEW best \in Ids(c), LastRef(c, best) \in Ids(c)
  PROVE  \E e : /\ Inserts(c, e, best, LastRef(c, best))
                /\ Remake(c, best) \in {Mark(e, best, "Dead"), e}
<1> DEFINE pos == LastRef(c, best)
           d == insert_clone_at(c, best, pos)
           t == Turned(d.nodes[pos + 2], best, pos)
           e == [d EXCEPT !.nodes = [d.nodes EXCEPT ![pos + 2] = t]]
           w == Mark(e, best, "Dead")
<1>0. Len(c.nodes) \in Nat /\ pos \in Ids(c) /\ "nodes" \in DOMAIN c
  BY DEF Graph, Wellformed
<1>1. /\ DOMAIN d = DOMAIN c /\ IsSeq(d.nodes) /\ Len(d.nodes) = Len(c.nodes) + 1
      /\ LET n == NodeAt(d, pos)
         IN  NodeFields \subseteq DOMAIN n /\ n.op = NodeAt(c, best).op
             /\ n.in = NodeAt(c, best).in /\ n.flags = {}
      /\ \A i \in Ids(c) : NodeAt(d, Moved(i, pos)) = Shifted(NodeAt(c, i), pos)
  BY <1>0, CloneInserts
<1>2. Remake(c, best) \in {w, e}
  <2>1. e = LET Now(r) == IF r = best THEN pos ELSE r
            IN  [d EXCEPT !.nodes[pos + 2].in =
                   IF node_refs(d.nodes[pos + 2]) = 1 THEN <<Now(@[1]), @[2], @[3]>>
                   ELSE <<Now(@[1]), Now(@[2]), Now(@[3])>>]
    <3> HIDE DEF d, pos
    <3> QED BY DEF Turned
  <2> QED BY <2>1 DEF Remake
<1> HIDE DEF d
<1>3. pos + 1 = Moved(pos, pos) /\ pos \in Nat /\ best \in Nat /\ pos + 1 + 1 = pos + 2 /\ pos + 2 # pos + 1
      /\ pos + 2 \in 1..Len(d.nodes) /\ best + 1 \in 1..Len(d.nodes)
  <2>1. pos \in Nat /\ best \in Nat /\ pos < Len(c.nodes) /\ best < Len(c.nodes)
    BY <1>0 DEF Ids
  <2> HIDE DEF pos
  <2> QED BY <1>0, <1>1, <2>1 DEF Moved
<1>4. DOMAIN d.nodes = 1..Len(d.nodes) /\ Len(d.nodes) \in Nat
  BY <1>1, SeqHas
<1>5. /\ DOMAIN e = DOMAIN c /\ IsSeq(e.nodes) /\ Len(e.nodes) = Len(d.nodes)
           /\ DOMAIN e.nodes = DOMAIN d.nodes
      /\ e.nodes[pos + 2] = t /\ \A j \in DOMAIN d.nodes : j # pos + 2 => e.nodes[j] = d.nodes[j]
  <2> DEFINE q == [d.nodes EXCEPT ![pos + 2] = t]
  <2>1. DOMAIN q = 1..Len(d.nodes) /\ q[pos + 2] = t
            /\ \A j \in DOMAIN d.nodes : j # pos + 2 => q[j] = d.nodes[j]
    <3> HIDE DEF pos, t
    <3> QED BY <1>3, <1>4
  <2>2. q = [k \in 1..Len(d.nodes) |-> q[k]]
    <3> HIDE DEF pos, t
    <3> QED BY <1>4
  <2>3. IsSeq(q) /\ Len(q) = Len(d.nodes)
    <3> HIDE DEF q
    <3> QED BY <1>4, <2>2, SeqIs
  <2>4. e.nodes = q /\ DOMAIN e = DOMAIN c
    <3>1. e = [d EXCEPT !.nodes = q]
      OBVIOUS
    <3> HIDE DEF q, e
    <3> QED BY <1>0, <1>1, <3>1
  <2> HIDE DEF q, e, t, pos
  <2> QED BY <1>4, <2>1, <2>3, <2>4
<1>6. \A i \in Ids(c) : /\ NodeAt(e, Moved(i, pos)) = IF i = pos THEN Turned(Shifted(NodeAt(c, i), pos), best, pos)
                                                      ELSE Shifted(NodeAt(c, i), pos)
                        /\ Moved(i, pos) + 1 \in DOMAIN d.nodes
  <2> HIDE DEF e
  <2> TAKE i \in Ids(c)
  <2> DEFINE u == Shifted(NodeAt(c, i), pos)
  <2>1. d.nodes[Moved(i, pos) + 1] = u
    BY <1>1 DEF NodeAt
  <2>2. i = pos => Moved(i, pos) + 1 = pos + 2
    BY <1>3
  <2>3. i # pos => Moved(i, pos) + 1 # pos + 2 
    <3>1. i \in Nat /\ pos \in Nat
      BY <1>0 DEF Ids
    <3> HIDE DEF pos
    <3> QED BY <3>1 DEF Moved
  <2>4. Moved(i, pos) + 1 \in DOMAIN d.nodes
    <3>1. i \in Nat /\ pos \in Nat /\ i < Len(c.nodes)
      BY <1>0 DEF Ids
    <3> HIDE DEF pos
    <3> QED BY <1>0, <1>1, <1>4, <3>1 DEF Moved
  <2> HIDE DEF u
  <2>5. CASE i = pos
    <3>1. t = Turned(u, best, pos)
      BY <2>1, <2>2, <2>5
    <3> HIDE DEF t, pos
    <3> QED BY <1>5, <2>2, <2>4, <2>5, <3>1 DEF NodeAt, u
  <2>6. CASE i # pos
    <3> HIDE DEF t, pos
    <3> QED BY <1>5, <2>1, <2>3, <2>4, <2>6 DEF NodeAt, u
  <2> QED BY <2>5, <2>6
<1>7. NodeAt(e, pos) = NodeAt(d, pos)
  <2>1. pos + 1 \in DOMAIN d.nodes /\ pos + 1 # pos + 2
    <3> HIDE DEF pos
    <3> QED BY <1>3, <1>4
  <2> HIDE DEF e, t, pos
  <2> QED BY <1>5, <2>1 DEF NodeAt
<1> HIDE DEF e, t
<1>8. ASSUME NEW i \in Ids(c)
      PROVE  LET n == NodeAt(c, i)
                 m == NodeAt(e, Moved(i, pos))
             IN  /\ NodeFields \subseteq DOMAIN m /\ m.op = n.op /\ m.flags = n.flags
                 /\ \A k \in 1..3 : /\ m.in[k] \in Int
                                    /\ k = 1 \/ n.op # "FStsw" =>
                                         \/ m.in[k] = Moved(n.in[k], pos)
                                         \/ i = pos /\ n.in[k] = best /\ m.in[k] = pos
  <2> DEFINE n == NodeAt(c, i)
             u == Shifted(n, pos)
             m == NodeAt(e, Moved(i, pos))
  <2>1. NodeFields \subseteq DOMAIN n /\ \A k \in 1..3 : n.in[k] \in Int
    BY DEF Graph, Wellformed, Fielded, Formed
  <2>2. /\ NodeFields \subseteq DOMAIN u /\ u.op = n.op /\ u.flags = n.flags
        /\ u.in[1] = Moved(n.in[1], pos)
        /\ n.op = "FStsw" => u.in[2] = n.in[2] /\ u.in[3] = n.in[3]
        /\ n.op # "FStsw" => u.in[2] = Moved(n.in[2], pos) /\ u.in[3] = Moved(n.in[3], pos)
    BY <2>1, ShiftedIs
  <2>3. m = IF i = pos THEN Turned(u, best, pos) ELSE u
    BY <1>6
  <2> HIDE DEF n, u, m, pos
  <2>4. pos \in Int /\ best \in Int
    BY <1>3
  <2>5. \A k \in 1..3 : Moved(n.in[k], pos) \in Int
            /\ (Moved(n.in[k], pos) = best => n.in[k] = best \/ n.in[k] >= pos)
    BY <2>1, <2>4 DEF Moved
  <2>6. \A k \in 1..3 : k = 1 \/ k = 2 \/ k = 3
    OBVIOUS
  <2>7. \A k \in 1..3 : u.in[k] \in Int /\ (k = 1 \/ n.op # "FStsw" => u.in[k] = Moved(n.in[k], pos))
    BY <2>1, <2>2, <2>5, <2>6
  <2>8. CASE i # pos
    BY <2>2, <2>3, <2>7, <2>8 DEF n, m
  <2>9. CASE i = pos
    <3>1. /\ NodeFields \subseteq DOMAIN m /\ m.op = u.op /\ m.flags = u.flags
          /\ \A k \in 1..3 : m.in[k] = u.in[k] \/ (u.in[k] = best /\ m.in[k] = pos)
      BY <2>2, <2>3, <2>9, TurnedIs
    <3>2. \A k \in 1..3 : (k = 1 \/ n.op # "FStsw") => n.in[k] < pos
      <4>1. Formed(n, pos)
        BY <2>9 DEF Graph, Wellformed, n
      <4> QED BY <2>6, <4>1 DEF Formed
    <3>3. \A k \in 1..3 : (k = 1 \/ n.op # "FStsw") =>
            m.in[k] = Moved(n.in[k], pos) \/ (n.in[k] = best /\ m.in[k] = pos)
      <4> TAKE k \in 1..3
      <4> SUFFICES ASSUME k = 1 \/ n.op # "FStsw"
                   PROVE  m.in[k] = Moved(n.in[k], pos) \/ (n.in[k] = best /\ m.in[k] = pos)
        OBVIOUS
      <4>1. m.in[k] = u.in[k] \/ (u.in[k] = best /\ m.in[k] = pos)
        BY <3>1
      <4>2. u.in[k] = Moved(n.in[k], pos)
        BY <2>7
      <4>3. n.in[k] < pos /\ n.in[k] \in Int
        BY <2>1, <3>2
      <4>4. Moved(n.in[k], pos) = n.in[k]
        BY <2>4, <4>3 DEF Moved
      <4> QED BY <4>1, <4>2, <4>4
    <3>4. \A k \in 1..3 : m.in[k] \in Int
      BY <2>4, <2>7, <3>1
    <3> QED BY <2>2, <2>9, <3>1, <3>3, <3>4 DEF n, m
  <2> QED BY <2>8, <2>9
<1>9. Inserts(c, e, best, pos)
  <2>1. /\ DOMAIN e = DOMAIN c /\ IsSeq(e.nodes) /\ Len(e.nodes) = Len(c.nodes) + 1
    BY <1>1, <1>5
  <2> HIDE DEF pos
  <2> QED BY <1>1, <1>7, <1>8, <2>1 DEF Inserts
<1> QED BY <1>2, <1>9

\* The original dies if that was its only use.
LEMMA KillOrders ==
  ASSUME NEW c, Ordered(c), NEW i \in Ids(c), NodeAt(c, i).op \in ValueOps \ EffectOps
  PROVE  Ordered(Mark(c, i, "Dead"))
<1> DEFINE n == NodeAt(c, i)
           m == Marked(n, "Dead")
           d == Mark(c, i, "Dead")
<1>0. Graph(c) /\ Distinct(c) /\ Reduced(c) /\ Matched(c)
  BY DEF Ordered, Sound
<1>1. m.op = n.op /\ m.in = n.in /\ m.flags = n.flags \cup {"Dead"}
  <2>1. NodeFields \subseteq DOMAIN n
    BY <1>0 DEF Graph, Fielded
  <2> QED BY <2>1, MarkedIs
<1>2. Rewrites(c, d, i, m)
  BY <1>0, MarkRewrites
<1> HIDE DEF m, d
<1>3. \A j \in Ids(c) : /\ NodeAt(d, j).op = NodeAt(c, j).op /\ NodeAt(d, j).in = NodeAt(c, j).in
                        /\ NodeAt(d, j).flags = NodeAt(c, j).flags \cup (IF j = i THEN {"Dead"} ELSE {})
  BY <1>1, <1>2 DEF Rewrites
<1>4. \A j \in Ids(c) : /\ Member(NodeAt(d, j)) <=> Member(NodeAt(c, j))
                        /\ Headed(NodeAt(d, j)) <=> Headed(NodeAt(c, j))
                        /\ Fused(NodeAt(d, j)) <=> Fused(NodeAt(c, j))
  BY <1>3 DEF Member, Headed, Fused
<1>5. Graph(d) /\ Ids(d) = Ids(c)
  BY <1>2 DEF Rewrites
<1>6. Reduced(d)
  BY <1>0, <1>3, <1>4, <1>5, SameReductions
<1>7. Distinct(d)
  BY <1>0, <1>1, <1>2, RewriteDistinct
<1>8. Matched(d)
  <2> SUFFICES ASSUME NEW j \in Ids(c), Waiting(NodeAt(d, j))
               PROVE  NodeAt(d, j).in[1] \in Ids(c) /\ Packing(NodeAt(d, NodeAt(d, j).in[1]))
    BY <1>5 DEF Matched
  <2>1. Waiting(NodeAt(c, j)) /\ NodeAt(d, j).in = NodeAt(c, j).in
    BY <1>3, <1>4 DEF Waiting
  <2>2. NodeAt(c, j).in[1] \in Ids(c) /\ Packing(NodeAt(c, NodeAt(c, j).in[1]))
    BY <1>0, <2>1 DEF Matched
  <2> QED BY <1>3, <1>4, <2>1, <2>2 DEF Packing
<1> QED BY <1>5, <1>6, <1>7, <1>8 DEF Ordered, Sound, d

LEMMA RemakeOrders ==
  ASSUME NEW c, Ordered(c), NEW best \in Ids(c), LastRef(c, best) \in Ids(c), best < LastRef(c, best),
         NodeAt(c, best).op \in Consts \cup Floats, NodeAt(c, best).flags = {}
  PROVE  Ordered(Remake(c, best))
<1>1. Graph(c)
  BY DEF Ordered, Sound
<1>2. PICK e : /\ Inserts(c, e, best, LastRef(c, best))
               /\ Remake(c, best) \in {Mark(e, best, "Dead"), e}
  BY <1>1, RemakeInserts
<1>3. Ordered(e)
  BY <1>2, InsertOrders
<1>4. best \in Ids(e) /\ NodeAt(e, best).op = NodeAt(c, best).op
  <2>1. Len(c.nodes) \in Nat /\ best \in Nat /\ best < Len(c.nodes) /\ LastRef(c, best) \in Nat
    BY <1>1 DEF Graph, Wellformed, Ids
  <2>2. Moved(best, LastRef(c, best)) = best
    BY <2>1 DEF Moved
  <2>3. best \in Ids(e)
    BY <1>2, <2>1 DEF Inserts, Ids
  <2> QED BY <1>2, <2>2, <2>3 DEF Inserts
<1>5. NodeAt(e, best).op \in ValueOps \ EffectOps
  BY <1>4 DEF Consts, Floats, ValueOps, Loads, EffectOps, Stores, IntStores, Compares, BridgeOps
<1>6. Ordered(Mark(e, best, "Dead"))
  BY <1>3, <1>4, <1>5, KillOrders
<1> QED BY <1>2, <1>3, <1>6

-----------------------------------------------------------------------------
(* Relief *)

\* What is chosen may be made again.
LEMMA RemadeFits ==
  ASSUME NEW c, Ordered(c), InOrder(c), NEW over \in Ids(c), NEW h \in Remakeable(c, over)
  PROVE  h \in Ids(c) /\ LastRef(c, h) \in Ids(c) /\ Ordered(Remake(c, h))
<1>1. h \in Ids(c) /\ LastRef(c, h) \in Ids(c)
  BY RemadeAre
<1>2. /\ h \in 0..over - 1 /\ NodeAt(c, h).flags = {} /\ NodeAt(c, h).op \in Consts \cup Floats
      /\ LastRef(c, h) > over
  BY DEF Remakeable
<1>3. h < LastRef(c, h)
  <2>1. h \in Int /\ over \in Int /\ LastRef(c, h) \in Int
    BY <1>1 DEF Ids
  <2> HIDE DEF LastRef
  <2> QED BY <1>2, <2>1
<1> QED BY <1>1, <1>2, <1>3, RemakeOrders

\* The graph stays Ordered along the relief.
ReliefOrdered(b, d, x, base, R) ==
  {"c", "done"} \subseteq DOMAIN R /\ Grows(base.c, R.c) /\ Ordered(R.c)
ReliefOrders == INSTANCE X87Walk_proofs WITH Turn <- ReliefTurn, Kept <- ReliefOrdered

LEMMA ReliefTurnOrders ==
  ASSUME NEW b, NEW base, InOrder(base.c), NEW R, ReliefOrdered(b, 0, 0, base, R), NEW k
  PROVE  ReliefOrdered(b, 0, 0, base, RelieveOnce(b, R, k))
<1> DEFINE d   == R.c
           F   == peak_live_fprs(d, b)
           H   == IF F.over = None THEN {} ELSE Remakeable(d, F.over)
           far == Max({LastRef(d, h) : h \in H})
           G   == {h \in H : LastRef(d, h) = far}
<1>0. RelieveOnce(b, R, k) =
        IF R.done \/ H = {} \/ Len(d.nodes) >= MaxNodes THEN [R EXCEPT !.done = TRUE]
        ELSE [R EXCEPT !.c = Remake(d, Min(G))]
  BY DEF RelieveOnce
<1>1. InOrder(d) /\ Ordered(d) /\ {"c", "done"} \subseteq DOMAIN R
  BY DEF ReliefOrdered, Grows
<1>2. F.over # None => F.over \in Ids(d)
  <2> HIDE DEF d
  <2> QED BY <1>1, OverIs
<1>3. \A h \in H : h \in Ids(d) /\ LastRef(d, h) \in Ids(d) /\ Ordered(Remake(d, h))
  <2> HIDE DEF d, F
  <2> QED BY <1>1, <1>2, RemadeFits
<1>4. Len(d.nodes) \in Nat
  <2> HIDE DEF d
  <2> QED BY <1>1, AscendingIs
<1>5. ASSUME H # {} PROVE Min(G) \in H
  <2> HIDE DEF d, H
  <2> DEFINE E == {LastRef(d, h) : h \in H}
  <2>1. E # {} /\ E \in SUBSET (0..Len(d.nodes) - 1)
    BY <1>3, <1>5 DEF Ids
  <2>2. Max(E) \in E
    <3>1. 0 \in Int /\ Len(d.nodes) - 1 \in Int
      BY <1>4
    <3> HIDE DEF E
    <3> QED BY <2>1, <3>1, Largest
  <2>3. G # {}
    BY <2>2
  <2>4. G \in SUBSET Nat
    <3>1. \A h \in Ids(d) : h \in Nat
      BY <1>4 DEF Ids
    <3> QED BY <1>3, <3>1
  <2>5. G \subseteq H
    OBVIOUS
  <2> HIDE DEF G
  <2> QED BY <2>3, <2>4, <2>5, Smallest
<1>6. ReliefAlong(b, 0, 0, base, RelieveOnce(b, R, k))
  BY ReliefTurnGrows DEF ReliefOrdered, ReliefAlong
<1>7. Ordered(RelieveOnce(b, R, k).c)
  <2> HIDE DEF H, G
  <2>1. CASE R.done \/ H = {} \/ Len(d.nodes) >= MaxNodes
    <3>1. RelieveOnce(b, R, k).c = d
      BY <1>0, <2>1
    <3> QED BY <1>1, <3>1
  <2>2. CASE ~(R.done \/ H = {} \/ Len(d.nodes) >= MaxNodes)
    <3>1. RelieveOnce(b, R, k).c = Remake(d, Min(G))
      BY <1>0, <1>1, <2>2
    <3> QED BY <1>3, <1>5, <2>2, <3>1
  <2> QED BY <2>1, <2>2
<1> QED BY <1>6, <1>7 DEF ReliefOrdered, ReliefAlong

\* remat_relieve_fpr_pressure, whatever the budget.
LEMMA RelieveOrders ==
  ASSUME NEW c, Ordered(c), InOrder(c), NEW b
  PROVE  Ordered(remat_relieve_fpr_pressure(c, b))
<1> DEFINE q == [k \in 1..kMaxClones |-> k]
           base == [c |-> c, done |-> FALSE]
<1>1. Len(q) \in Nat
  <2>1. DOMAIN q = 1..kMaxClones /\ kMaxClones \in Nat
    BY DEF kMaxClones
  <2> HIDE DEF q
  <2> QED BY <2>1, Long
<1>2. \A n \in 1..Len(q) : \A K :
        ReliefOrdered(b, 0, 0, base, K) => ReliefOrdered(b, 0, 0, base, ReliefTurn(b, 0, 0, K, q[n]))
  <2>1. InOrder(base.c)
    OBVIOUS
  <2> HIDE DEF base, q
  <2> QED BY <2>1, ReliefTurnOrders DEF ReliefTurn
<1>3. ReliefOrdered(b, 0, 0, base, base)
  BY GrowsSame DEF ReliefOrdered
<1>4. ReliefOrdered(b, 0, 0, base, ReliefOrders!Through(b, 0, 0, base, q))
  <2> HIDE DEF ReliefOrdered, ReliefTurn, base, q
  <2> QED BY <1>1, <1>2, <1>3, Induction, ReliefOrders!WalkKeeps
<1>5. ReliefOrders!Through(b, 0, 0, base, q).c = remat_relieve_fpr_pressure(c, b)
  BY DEF ReliefOrders!Through, ReliefOrders!Walk, Walk, ReliefTurn, remat_relieve_fpr_pressure
<1> HIDE DEF base, q
<1> QED BY <1>4, <1>5 DEF ReliefOrdered

-----------------------------------------------------------------------------
(* The counts against the budgets *)

\* The counts are numbers.
LEMMA FprPeakIs ==
  ASSUME NEW c, Wellformed(c), Reduced(c), "last" \in DOMAIN c, NEW b
  PROVE  peak_live_fprs(c, b).peak \in Int /\ peak_live_fprs(c, b).budget = b
<1> DEFINE d == compute_last_uses(c)
           N == Len(c.nodes)
<1>1. N \in Nat
  BY DEF Wellformed
<1>2. LastOk(d) /\ d.nodes = c.nodes
  BY <1>1, LastUsesAre
<1>3. Len(d.nodes) = N
  BY <1>2
<1> HIDE DEF d
<1>4. Wellformed(d) /\ Reduced(d)
  BY <1>2, SameNodes
<1>5. PICK p : FprRuns(d, b, p) /\ peak_live_fprs(c, b) = p[N]
  BY <1>1, <1>3, FprUnrolls DEF d
<1>6. N \in 0..Len(d.nodes)
  BY <1>1, <1>3
<1>7. Tallied(d, p[N]) /\ p[N].budget = b
  BY <1>4, <1>5, <1>6, FprPeaks
<1> QED BY <1>5, <1>7 DEF Tallied

LEMMA GprPeakIs ==
  ASSUME NEW c, Len(c.nodes) \in Nat, NEW M, Poised(M), NEW gb
  PROVE  peak_live_gprs(c, M, gb).peak \in Int /\ peak_live_gprs(c, M, gb).budget = gb
<1> DEFINE own    == 4 - cached_gprs(M)
           pinned == own + IF CachesRc(c) THEN 1 ELSE 0
           first  == own + preamble_gprs(M)
           most   == Max({pinned, first})
           Q == [held |-> 0, peak |-> most, budget |-> gb,
                 over |-> IF first > gb /\ Len(c.nodes) > 0 THEN 0 ELSE None]
           end == GprWalk!Through(c, pinned, 0, Q, Ascending(c))
           N == Len(c.nodes)
<1>1. Cardinality(Pinned(M)) \in Nat /\ cached_gprs(M) = Cardinality(Pinned(M))
  BY PinnedIs DEF Poised
<1>2. own \in Int /\ pinned \in Int /\ first \in Int
  BY <1>1 DEF preamble_gprs
<1>3. most \in Int
  <2> HIDE DEF pinned, first
  <2> QED BY <1>2, MaxInt
<1> HIDE DEF most
<1>4. Kept4(Q) /\ Q.budget = gb
  BY <1>3 DEF Kept4
<1>5. peak_live_gprs(c, M, gb) = IF c.delta = 0 THEN end ELSE Raise(end, pinned - 1 + end.held + 2, Newest(c))
  BY DEF peak_live_gprs, most, GprWalk!Through, GprWalk!Walk, Walk, GprTurn
<1> HIDE DEF Q
<1>6. PICK g : GprRuns(c, pinned, Q, g) /\ end = g[N]
  <2> HIDE DEF pinned
  <2>1. \E g : GprRuns(c, pinned, Q, g) /\ GprWalk!Through(c, pinned, 0, Q, Ascending(c)) = g[N]
    BY GprUnrolls
  <2> QED BY <2>1
<1> HIDE DEF end
<1>7. Kept4(end) /\ end.budget = gb
  <2>1. N \in 0..N
    OBVIOUS
  <2> HIDE DEF pinned
  <2> QED BY <1>2, <1>4, <1>6, <2>1, GprPeaks
<1>8. CASE c.delta = 0
  BY <1>5, <1>7, <1>8 DEF Kept4
<1>9. CASE c.delta # 0
  <2> DEFINE t == pinned - 1 + end.held + 2
  <2>1. t \in Int
    <3> HIDE DEF pinned
    <3> QED BY <1>2, <1>7 DEF Kept4
  <2>2. peak_live_gprs(c, M, gb) = Raise(end, t, Newest(c))
    BY <1>5, <1>9
  <2> HIDE DEF t
  <2>3. LET R == Raise(end, t, Newest(c)) IN R.peak \in Int /\ R.budget = end.budget
    BY <1>7, <2>1, RaiseIs DEF Kept4
  <2> QED BY <1>7, <2>2, <2>3
<1> QED BY <1>8, <1>9

\* A budget is no larger than the pool.
LEMMA LimitedIs ==
  ASSUME NEW n \in Nat, NEW limit \in Nat
  PROVE  Limited(n, limit) \in Nat /\ Limited(n, limit) <= n
BY DEF Limited

-----------------------------------------------------------------------------
(* What is not a lowering never lacks a register *)

\* T starves only if S has.
Spares(S, T) == DOMAIN T = DOMAIN S /\ T.starved = S.starved

LEMMA SparesThrough ==
  ASSUME NEW S, NEW T, NEW U, Spares(S, T), Spares(T, U)
  PROVE  Spares(S, U)
BY DEF Spares

LEMMA StaysSpares ==
  ASSUME NEW S, NEW T, Stays(S, T)
  PROVE  Spares(S, T)
BY DEF Stays, Spares

LEMMA CacheSpares ==
  ASSUME NEW S, NEW n, NEW v
  PROVE  /\ Spares(S, x87_begin(S)) /\ Spares(S, emit_store_top(S)) /\ Spares(S, emit_store_st(S, n, v))
<1>1. Spares(S, x87_begin(S))
  BY DEF Spares, x87_begin, emit_load_top
<1> QED BY <1>1, CacheStays, StaysSpares

LEMMA FlushesSpare ==
  ASSUME NEW S
  PROVE  /\ Spares(S, x87_emit_perm_flush(S)) /\ Spares(S, perm_flush_before_stack_change(S))
         /\ Spares(S, x87_flush_top(S)) /\ Spares(S, x87_flush_deferred_pops(S))
         /\ Spares(S, x87_flush_pending_tag(S)) /\ Spares(S, x87_flush_tags(S))
BY FlushesStay, StaysSpares

LEMMA GuestSpares ==
  ASSUME NEW S, NEW o, NEW v
  PROVE  /\ Spares(S, StoreMem(S, o, v)) /\ Spares(S, SetReg(S, o, v)) /\ Spares(S, SetFlags(S, v))
         /\ Spares(S, SetCc(S, v)) /\ Spares(S, SetCw(S, v))
BY GuestStays, StaysSpares

LEMMA StackOpsSpare ==
  ASSUME NEW S, NEW d, NEW v
  PROVE  /\ Spares(S, SetSt(S, d, v)) /\ Spares(S, x87_push(S)) /\ Spares(S, x87_pop(S))
         /\ Spares(S, x87_pop_n(S, d)) /\ Spares(S, x87_end(S, d))
<1>1. Spares(S, SetSt(S, d, v))
  BY CacheSpares DEF SetSt
<1>2. Spares(S, S)
  BY DEF Spares
<1>3. Spares(S, x87_end(S, d))
  BY <1>2, FlushesSpare, SparesThrough DEF x87_end
<1>4. \A K, x, y, z : /\ Spares(K, [K EXCEPT !.td = x]) /\ Spares(K, [K EXCEPT !.tpp = y, !.td = x])
                      /\ Spares(K, [K EXCEPT !.td = x, !.tpp = y])
                      /\ Spares(K, [K EXCEPT !.dpc = z, !.td = x])
  BY DEF Spares
<1>5. \A K, n : /\ Spares(K, emit_x87_push(K)) /\ Spares(K, emit_x87_push_fully_deferred(K))
                /\ Spares(K, emit_x87_pop_top_only(K)) /\ Spares(K, emit_x87_pop(K))
                /\ Spares(K, emit_x87_pop_n_deferred(K, n)) /\ Spares(K, emit_x87_pop_n(K, n))
  BY DEF Spares, emit_x87_push, emit_x87_push_fully_deferred, emit_x87_pop_top_only, emit_x87_pop,
     emit_x87_pop_n_deferred, emit_x87_pop_n, emit_x87_tag_clear, emit_store_top
<1>6. Spares(S, x87_push(S))
  <2> DEFINE F == perm_flush_before_stack_change(x87_flush_top(
                    x87_flush_deferred_pops(x87_flush_pending_tag(S))))
  <2>1. Spares(S, F)
    BY FlushesSpare, SparesThrough
  <2>2. x87_push(S) \in {[emit_x87_push_fully_deferred(F) EXCEPT !.td = TRUE, !.tpp = TRUE],
                         emit_x87_push(S)}
    BY DEF x87_push
  <2> HIDE DEF F
  <2>3. Spares(S, [emit_x87_push_fully_deferred(F) EXCEPT !.td = TRUE, !.tpp = TRUE])
    BY <2>1, <1>4, <1>5, SparesThrough
  <2> QED BY <2>2, <2>3, <1>5
<1>7. Spares(S, x87_pop(S))
  <2> DEFINE F == emit_x87_pop_top_only(perm_flush_before_stack_change(S))
  <2>1. Spares(S, F)
    BY <1>5, FlushesSpare, SparesThrough
  <2>2. x87_pop(S) \in {[F EXCEPT !.tpp = FALSE, !.td = FALSE],
                        [emit_store_top(F) EXCEPT !.tpp = FALSE, !.td = FALSE],
                        [F EXCEPT !.dpc = S.dpc + 1, !.td = TRUE],
                        [emit_x87_pop(S) EXCEPT !.td = FALSE]}
    BY DEF x87_pop
  <2> HIDE DEF F
  <2>3. Spares(S, [F EXCEPT !.tpp = FALSE, !.td = FALSE])
    BY <2>1, <1>4, SparesThrough
  <2>4. Spares(S, [emit_store_top(F) EXCEPT !.tpp = FALSE, !.td = FALSE])
    BY <2>1, <1>4, CacheSpares, SparesThrough
  <2>5. Spares(S, [F EXCEPT !.dpc = S.dpc + 1, !.td = TRUE])
    BY <2>1, <1>4, SparesThrough
  <2>6. Spares(S, [emit_x87_pop(S) EXCEPT !.td = FALSE])
    BY <1>4, <1>5, SparesThrough
  <2> QED BY <2>2, <2>3, <2>4, <2>5, <2>6
<1>8. Spares(S, x87_pop_n(S, d))
  <2> DEFINE F == x87_flush_tags(S)
             G == emit_x87_pop_n_deferred(perm_flush_before_stack_change(F), d)
  <2>1. Spares(S, F)
    BY FlushesSpare
  <2>2. Spares(S, G)
    <3> HIDE DEF F
    <3> QED BY <2>1, <1>5, FlushesSpare, SparesThrough
  <2>3. x87_pop_n(S, d) \in {[G EXCEPT !.td = TRUE], [emit_x87_pop_n(F, d) EXCEPT !.td = FALSE]}
    BY DEF x87_pop_n
  <2> HIDE DEF F, G
  <2>4. Spares(S, [G EXCEPT !.td = TRUE])
    BY <2>2, <1>4, SparesThrough
  <2>5. Spares(S, [emit_x87_pop_n(F, d) EXCEPT !.td = FALSE])
    BY <2>1, <1>4, <1>5, SparesThrough
  <2> QED BY <2>3, <2>4, <2>5
<1> QED BY <1>1, <1>3, <1>6, <1>7, <1>8

\* The translators of single instructions, in the compact layout, take registers
\* from no pool that could be empty.
LEMMA HandlersSpare ==
  ASSUME NEW S, NEW i, NEW v, NEW w
  PROVE  /\ Spares(S, PushValue(S, v)) /\ Spares(S, Apply(S, i, v)) /\ Spares(S, ApplyPop(S, i, v))
         /\ Spares(S, PushSecond(S, v)) /\ Spares(S, CopySt(S, i)) /\ Spares(S, translate_fxch(S, i))
         /\ Spares(S, translate_fstsw(S)) /\ Spares(S, IntoMem(S, i, v)) /\ Spares(S, Popped(S, w))
         /\ Spares(S, Compared1(S, i, v)) /\ Spares(S, emit_fcomi_nzcv(S, i))
<1>0. \A K : Spares(K, K)
  BY DEF Spares
<1>1. Spares(S, PushValue(S, v)) /\ Spares(S, Apply(S, i, v)) /\ Spares(S, ApplyPop(S, i, v))
  BY StackOpsSpare, SparesThrough DEF PushValue, Apply, ApplyPop
<1>2. Spares(S, PushSecond(S, v))
  BY StackOpsSpare, CacheSpares, SparesThrough DEF PushSecond
<1>3. Spares(S, CopySt(S, i))
  BY <1>0, StackOpsSpare DEF CopySt
<1>4. Spares(S, translate_fxch(S, i))
  <2> DEFINE B == Start(S)
  <2>1. Spares(S, B)
    <3>1. \A K : Spares(K, [K EXCEPT !.out = NoVal])
      BY DEF Spares
    <3> QED BY <3>1, CacheSpares, SparesThrough DEF Start, Give
  <2> DEFINE M == IF i = 0 THEN B
          ELSE IF B.run > 0 /\ DeferFxch
          THEN [B EXCEPT !.perm = swap(@, 0, i), !.pd = TRUE]
          ELSE [B EXCEPT !.st = swap(@, Phys(B.w, 0), Phys(B.w, i))]
  <2>2. translate_fxch(S, i) = x87_end(M, 1)
    BY DEF translate_fxch
  <2>3. Spares(S, M)
    <3> HIDE DEF B
    <3>1. Spares(B, [B EXCEPT !.perm = swap(@, 0, i), !.pd = TRUE])
      BY DEF Spares
    <3>2. Spares(B, [B EXCEPT !.st = swap(@, Phys(B.w, 0), Phys(B.w, i))])
      BY DEF Spares
    <3>3. M \in {B, [B EXCEPT !.perm = swap(@, 0, i), !.pd = TRUE],
                 [B EXCEPT !.st = swap(@, Phys(B.w, 0), Phys(B.w, i))]}
      OBVIOUS
    <3>4. Spares(B, M)
      <4> HIDE DEF M
      <4> QED BY <3>1, <3>2, <3>3, <1>0
    <3> HIDE DEF M
    <3> QED BY <2>1, <3>4, SparesThrough
  <2> HIDE DEF M
  <2> QED BY <2>2, <2>3, StackOpsSpare, SparesThrough
<1>5. Spares(S, translate_fstsw(S))
  <2> DEFINE F == IF S.run > 0 /\ S.gv THEN x87_flush_tags(x87_flush_top(S)) ELSE S
  <2>1. Spares(S, F)
    BY <1>0, FlushesSpare, SparesThrough
  <2>2. translate_fstsw(S) = Give(F, <<F.top, F.cc>>)
    BY DEF translate_fstsw
  <2> HIDE DEF F
  <2>3. Spares(F, Give(F, <<F.top, F.cc>>))
    BY DEF Spares, Give
  <2> QED BY <2>1, <2>2, <2>3, SparesThrough
<1>6. Spares(S, IntoMem(S, i, v))
  BY StackOpsSpare, GuestSpares, SparesThrough DEF IntoMem
<1>7. \A K, n : Spares(K, Popped(K, n))
  BY <1>0, StackOpsSpare DEF Popped
<1>8. Spares(S, Compared1(S, i, v))
  <2>1. \A c : Spares(S, emit_fcom_cc_write_sw(S, c))
    BY DEF Spares, emit_fcom_cc_write_sw
  <2> QED BY <1>7, <2>1, StackOpsSpare, SparesThrough DEF Compared1
<1>9. Spares(S, emit_fcomi_nzcv(S, i))
  <2> DEFINE N == SetFlags(S, CompareFlags(St(S, 0), St(S, i.i)))
  <2>1. Spares(S, N)
    BY GuestSpares
  <2>2. emit_fcomi_nzcv(S, i) = x87_end(IF i.pop THEN x87_pop(N) ELSE N, 1)
    BY DEF emit_fcomi_nzcv
  <2> HIDE DEF N
  <2>3. \A K : Spares(K, x87_end(IF i.pop THEN x87_pop(K) ELSE K, 1))
    BY StackOpsSpare, SparesThrough
  <2>4. Spares(N, emit_fcomi_nzcv(S, i))
    BY <2>2, <2>3
  <2> QED BY <2>1, <2>4, SparesThrough
<1> QED BY <1>1, <1>2, <1>3, <1>4, <1>5, <1>6, <1>7, <1>8, <1>9

\* So does the emitter of any one instruction.
LEMMA OneSpares ==
  ASSUME NEW S, NEW i
  PROVE  Spares(S, translate_one(S, i))
<1> DEFINE B == [x87_begin(S) EXCEPT !.sb = S.run > 0]
<1>0. \A K : Spares(K, K)
  BY DEF Spares
<1>1. Spares(S, B)
  <2> DEFINE C == x87_begin(S)
  <2>1. Spares(S, C)
    BY CacheSpares
  <2>2. B = [C EXCEPT !.sb = S.run > 0]
    OBVIOUS
  <2> HIDE DEF B, C
  <2>3. \A K, x : Spares(K, [K EXCEPT !.sb = x])
    BY DEF Spares
  <2>4. Spares(C, B)
    BY <2>2, <2>3, Zenon
  <2> QED BY <2>1, <2>4, SparesThrough
<1>2. /\ \A v : Spares(B, PushValue(B, v)) /\ Spares(B, PushSecond(B, v)) /\ Spares(B, IntoMem(B, i, v))
      /\ \A v : Spares(B, Compared1(B, i, v))
      /\ \A d, v : Spares(B, Apply(B, d, v)) /\ Spares(B, ApplyPop(B, d, v))
      /\ \A d : Spares(B, translate_fxch(B, d)) /\ Spares(B, CopySt(B, d))
      /\ Spares(B, emit_fcomi_nzcv(B, i)) /\ Spares(B, x87_end(B, 1))
  <2> HIDE DEF B
  <2> QED BY HandlersSpare, StackOpsSpare
<1> DEFINE T == x87_flush_top(x87_flush_tags(B))
<1>3. Spares(B, T)
  <2> HIDE DEF B
  <2> QED BY FlushesSpare, SparesThrough
<1>4. \A d : LET C == CopySt(B, d) IN Spares(B, x87_end(IF i.pop THEN x87_pop(C) ELSE C, 1))
  <2> HIDE DEF B
  <2>1. \A K : Spares(K, x87_end(IF i.pop THEN x87_pop(K) ELSE K, 1))
    BY StackOpsSpare, SparesThrough
  <2> QED BY <1>2, <2>1, SparesThrough
<1>5. \A d, v : Spares(B, Apply(SetCc(B, Cleared), d, v))
  <2> HIDE DEF B
  <2> QED BY HandlersSpare, GuestSpares, SparesThrough
<1>6. \A d, v, x : Spares(B, PushSecond(SetCc(SetSt(B, d, v), Cleared), x))
  <2> HIDE DEF B
  <2> QED BY HandlersSpare, StackOpsSpare, GuestSpares, SparesThrough
<1>7. \A j, v : Spares(B, Compared1(T, j, v))
  <2> HIDE DEF B, T
  <2> QED BY <1>3, HandlersSpare, SparesThrough
<1>8. \A v : Spares(B, x87_end(IF Taken(i.cond, T.nz) THEN SetSt(T, 0, v) ELSE T, 1))
  <2> HIDE DEF B, T
  <2> QED BY <1>3, StackOpsSpare, SparesThrough
<1>9. \A r, v : LET F == translate_fstsw(S) IN Spares(S, SetReg(F, r, v))
  BY HandlersSpare, GuestSpares, SparesThrough
<1>10. \A v : Spares(B, x87_end(SetCw(x87_flush_top(B), v), 1))
  <2> HIDE DEF B
  <2> QED BY FlushesSpare, StackOpsSpare, GuestSpares, SparesThrough
<1>11. \A o, v : Spares(B, x87_end(StoreMem(B, o, v), 1))
  <2> HIDE DEF B
  <2> QED BY StackOpsSpare, GuestSpares, SparesThrough
<1>12. i.k = "fstsw" => Spares(S, translate_one(S, i))
  BY <1>9 DEF translate_one
<1>13. i.k # "fstsw" => Spares(B, translate_one(S, i))
  BY <1>2, <1>4, <1>5, <1>6, <1>7, <1>8, <1>10, <1>11 DEF translate_one
<1> HIDE DEF B
<1> QED BY <1>1, <1>12, <1>13, SparesThrough
\* Nor has it to do with the pools, if it is not of the x87.
LEMMA StockStays ==
  ASSUME NEW S, NEW i, ~IsX87(i)
  PROVE  Stays(S, P!Step(S, i))
<1>1. \A K, r, v : /\ Stays(K, P!SetReg(K, r, v)) /\ Stays(K, P!StoreMem(K, r, v))
                   /\ Stays(K, P!SetFlags(K, v)) /\ Stays(K, K)
  BY DEF Stays, P!SetReg, P!StoreMem, P!SetFlags
<1>2. \A K, v : Stays(K, P!WithFlags(i, v, K))
  BY <1>1 DEF P!WithFlags
<1>3. \A v : Stays(S, P!AluReg(S, i, v)) /\ Stays(S, P!AluMem(S, i, v))
  BY <1>1, <1>2, StaysThrough DEF P!AluReg, P!AluMem
<1>4. P!Step(S, i) = P!IntegerStep(S, i)
  BY DEF IsX87, P!Step
<1> QED BY <1>1, <1>3, <1>4 DEF P!IntegerStep

-----------------------------------------------------------------------------
(* The state between two instructions *)

\* Poised, with the pool of the setting whole.
Apt(S) == Poised(S) /\ S.fprs = setting.fprs

LEMMA StaysApt ==
  ASSUME NEW S, Apt(S), NEW T, Stays(S, T)
  PROVE  Apt(T)
<1>1. Pinned(T) = Pinned(S)
  BY DEF Stays, Pinned
<1> QED BY <1>1 DEF Apt, Poised, Stays

\* The gate and the counter of the run.
LEMMA GateApt ==
  ASSUME NEW S, Apt(S)
  PROVE  Apt(gate_flush(S))
<1>1. Stays(S, gate_flush(S))
  BY FlushesStay, StaysSame DEF gate_flush
<1> QED BY <1>1, StaysApt

LEMMA SetRunApt ==
  ASSUME NEW S, Apt(S), NEW n \in Int
  PROVE  Apt(set_run(S, n))
<1> DEFINE T == set_run(S, n)
<1>1. /\ DOMAIN T = DOMAIN S /\ T.fprs = S.fprs /\ T.gprs = S.gprs /\ T.starved = S.starved
      /\ T.gv = S.gv /\ T.sb = S.sb /\ (T.run = S.run \/ (T.run = n /\ n >= 2))
  BY DEF set_run, Apt, Poised, Fields, PoolFields
<1> HIDE DEF T
<1>2. Pinned(T) = Pinned(S)
  BY <1>1 DEF Pinned
<1>3. T.gv => T.run > 0
  BY <1>1 DEF Apt, Poised
<1> QED BY <1>1, <1>2, <1>3 DEF Apt, Poised, T

\* What the end of an instruction, or of a run, leaves.
LEMMA TidiedApt ==
  ASSUME NEW T, Fields \cup {"sb"} \subseteq DOMAIN T, ~T.starved, T.run \in Nat, T.gv => T.run > 0,
         NEW n \in Nat
  PROVE  Apt(Tidied(Ticked(T, n)))
<1> DEFINE K == tick(T, n)
           V == Ticked(T, n)
           U == Tidied(V)
<1>1. /\ DOMAIN K = DOMAIN T /\ ~K.starved /\ (K.gv => K.run > 0)
  <2>1. {"gv", "run", "starved"} \subseteq DOMAIN T
    BY DEF Fields, PoolFields
  <2>2. CASE T.run = 0
    BY <2>2 DEF tick
  <2>3. CASE T.run # 0 /\ T.run > n
    BY <2>1, <2>3 DEF tick
  <2>4. CASE T.run # 0 /\ ~(T.run > n)
    BY <2>1, <2>4 DEF tick
  <2> QED BY <2>2, <2>3, <2>4
<1>2. /\ DOMAIN V = DOMAIN K /\ V.run = K.run /\ V.gv = K.gv /\ V.starved = K.starved
      /\ V.fprs = setting.fprs /\ V.gprs = Gprs \ Pinned(K)
      /\ (K.run > 0 => (V.sb <=> K.sb))
  <2>1. {"sb", "fprs", "gprs"} \subseteq DOMAIN K
    BY <1>1 DEF Fields, PoolFields
  <2>2. V = [K EXCEPT !.sb = @ /\ K.run > 0, !.fprs = setting.fprs, !.gprs = Gprs \ Pinned(K)]
    BY DEF Ticked
  <2> HIDE DEF K, V
  <2>3. V.sb = (K.sb /\ K.run > 0)
    BY <2>1, <2>2
  <2>4. K.run > 0 => (V.sb <=> K.sb)
    BY <2>3, Zenon
  <2>5. /\ DOMAIN V = DOMAIN K /\ V.run = K.run /\ V.gv = K.gv /\ V.starved = K.starved
        /\ V.fprs = setting.fprs /\ V.gprs = Gprs \ Pinned(K)
    BY <2>1, <2>2
  <2> QED BY <2>4, <2>5
<1> HIDE DEF K
<1>3. Pinned(V) = Pinned(K)
  <2> HIDE DEF V
  <2>1. CASE ~K.gv
    BY <1>2, <2>1 DEF Pinned
  <2>2. CASE K.gv
    BY <1>1, <1>2, <2>2 DEF Pinned
  <2> QED BY <2>1, <2>2
<1> HIDE DEF V
<1>4. /\ DOMAIN U = DOMAIN V /\ U.run = V.run /\ U.gv = V.gv /\ U.starved = V.starved /\ U.sb = V.sb
      /\ U.fprs = V.fprs /\ U.gprs = V.gprs
  BY DEF Tidied
<1> HIDE DEF U
<1>5. Pinned(U) = Pinned(V)
  BY <1>4 DEF Pinned
<1>6. Apt(U)
  BY <1>1, <1>2, <1>3, <1>4, <1>5 DEF Apt, Poised
<1> QED BY <1>6 DEF U, V

\* The emitter of one instruction has no need of either pool.
LEMMA OneApt ==
  ASSUME NEW S, Apt(S), S.run \in Nat, NEW i
  PROVE  Apt(Tidied(Ticked(translate_one(S, i), 1)))
<1> DEFINE T == translate_one(S, i)
<1>1. Keeps(S, T) /\ Spares(S, T)
  BY TranslateOneKeeps, OneSpares
<1> HIDE DEF T
<1>2. Fields \cup {"sb"} \subseteq DOMAIN T /\ ~T.starved /\ T.run \in Nat /\ (T.gv => T.run > 0)
  BY <1>1 DEF Keeps, Spares, Apt, Poised
<1>3. Apt(Tidied(Ticked(T, 1)))
  BY <1>2, TidiedApt
<1> QED BY <1>3 DEF T

\* After a region has been lowered, all registers are back.
LEMMA LowerApt ==
  ASSUME NEW S, Apt(S), S.run \in Nat, NEW c, Len(c.nodes) \in Nat, "nodes" \in DOMAIN c,
         ~lower(c, S).starved, NEW n \in Nat
  PROVE  Apt(Tidied(Ticked(lower(c, S), n)))
<1> DEFINE T == lower(c, S)
<1>1. Keeps(S, T)
  BY LowerKeeps
<1>2. ~T.starved
  OBVIOUS
<1> HIDE DEF T
<1>3. Fields \cup {"sb"} \subseteq DOMAIN T /\ T.run \in Nat /\ (T.gv => T.run > 0)
  BY <1>1 DEF Keeps, Apt, Poised
<1>4. Apt(Tidied(Ticked(T, n)))
  BY <1>2, <1>3, TidiedApt
<1> QED BY <1>4 DEF T

-----------------------------------------------------------------------------
(* Attempts stay within the program *)

\* Neither lookahead goes beyond the program.
LEMMA LookaheadWithin ==
  ASSUME NEW p, Len(p) \in Nat, NEW i \in Nat, i <= Len(p)
  PROVE  lookahead(p, i) <= Len(p) - i + 1
<1>1. IsFiniteSet(i..Len(p)) /\ Cardinality(i..Len(p)) = Len(p) - i + 1
  BY FS_Interval
<1>2. Covered(p, i) \subseteq i..Len(p)
  BY DEF Covered
<1>3. Cardinality(Covered(p, i)) <= Cardinality(i..Len(p))
  BY <1>1, <1>2, FS_Subset
<1> QED BY <1>1, <1>3, CoveredIs

JoinWithin(p, i, opts, base, R) == JoinAlong(p, i, opts, base, R) /\ R.total <= Len(p) - i + 1
JoinsWithin == INSTANCE X87Walk_proofs WITH Turn <- JoinTurn, Kept <- JoinWithin

LEMMA BridgedWithin ==
  ASSUME NEW p, Len(p) \in Nat, NEW i \in Nat, i <= Len(p), NEW opts
  PROVE  lookahead_bridged(p, i, opts).total <= Len(p) - i + 1
<1> DEFINE q == [n \in 1 .. Len(p) - i + 1 |-> i + n - 1]
           base == [on |-> TRUE, joins |-> 0, bridges |-> 0, gap |-> 0, x87 |-> 0, total |-> 0]
           End == JoinsWithin!Through(p, i, opts, base, q)
<1>1. Len(q) = Len(p) - i + 1 /\ Len(q) \in Nat
  <2>1. DOMAIN q = 1..Len(p) - i + 1 /\ Len(p) - i + 1 \in Nat
    OBVIOUS
  <2> HIDE DEF q
  <2> QED BY <2>1, Long
<1>2. \A n \in 1..Len(q) : \A R :
        JoinWithin(p, i, opts, base, R) => JoinWithin(p, i, opts, base, JoinTurn(p, i, opts, R, q[n]))
  <2> SUFFICES ASSUME NEW n \in 1..Len(q), NEW R, JoinWithin(p, i, opts, base, R)
               PROVE  JoinWithin(p, i, opts, base, JoinTurn(p, i, opts, R, q[n]))
    OBVIOUS
  <2>1. q[n] - i + 1 \in Int /\ q[n] - i + 1 <= Len(p) - i + 1
    BY <1>1
  <2>2. \A x, y, z, g : \A t \in Int :
          t <= Len(p) - i + 1 =>
          JoinWithin(p, i, opts, base, [R EXCEPT !.joins = x, !.bridges = y, !.gap = g, !.x87 = z, !.total = t])
    BY DEF JoinWithin, JoinAlong
  <2>3. \A g, b : /\ JoinWithin(p, i, opts, base, [R EXCEPT !.gap = g])
                  /\ JoinWithin(p, i, opts, base, [R EXCEPT !.on = b])
    BY DEF JoinWithin, JoinAlong
  <2> HIDE DEF q, JoinWithin
  <2> DEFINE j == q[n]
             F == [R EXCEPT !.joins = IF R.gap > 0 THEN @ + 1 ELSE @,
                 !.bridges = @ + R.gap, !.gap = 0, !.x87 = @ + 1, !.total = j - i + 1]
  <2>4. PICK x, y, z, g : F = [R EXCEPT !.joins = x, !.bridges = y, !.gap = g, !.x87 = z, !.total = j - i + 1]
    BY Zenon
  <2>5. JoinWithin(p, i, opts, base, F)
    <3> HIDE DEF F
    <3>1. JoinWithin(p, i, opts, base,
            [R EXCEPT !.joins = x, !.bridges = y, !.gap = g, !.x87 = z, !.total = j - i + 1])
      BY <2>1, <2>2
    <3> QED BY <2>4, <3>1
  <2>6. JoinTurn(p, i, opts, R, j) \in {R, F, [R EXCEPT !.gap = @ + 1], [R EXCEPT !.on = FALSE]}
    BY DEF JoinTurn, Joined
  <2> HIDE DEF F
  <2> QED BY <2>3, <2>5, <2>6
<1>3. JoinWithin(p, i, opts, base, base)
  BY DEF JoinWithin, JoinAlong
<1>4. JoinWithin(p, i, opts, base, End)
  <2> HIDE DEF JoinWithin, JoinTurn, base, q
  <2> QED BY <1>1, <1>2, <1>3, Induction, JoinsWithin!WalkKeeps
<1>5. lookahead_bridged(p, i, opts) =
        IF End.joins = 0 \/ End.x87 < 3 THEN [total |-> 0, x87 |-> 0]
        ELSE [total |-> End.total, x87 |-> End.x87]
  BY DEF JoinsWithin!Through, JoinsWithin!Walk, Walk, JoinTurn, lookahead_bridged
<1> HIDE DEF End
<1> QED BY <1>4, <1>5 DEF JoinWithin, JoinAlong

-----------------------------------------------------------------------------
(* The second invariant *)

\* The invariant, beside IInv: what was written can be encoded, and no FSTSW
\* comes twice for a comparison; between instructions the pools are whole; an
\* attempt stays within the program; its context is drawn, then ordered; and what
\* is to be lowered fits the budgets.
Chosen   == setting \in Settings
Written  == (\A k \in 1..Len(prog) : Encodable(prog[k])) /\ Separated(prog)
Aptly    == Apt(s) /\ (stage \in Attempts => Apt(job.found))
Within   == /\ stage # "write" => at >= 1
            /\ stage = "build" => at + job.len <= Len(prog) + 1
\* The context grows over the program, and has fetched the comparison that
\* would be fused only if the program has.
Drawing  == stage = "build" => Drawn(job.c) /\ (Unfetched(job.c) \/ Recent(prog, at + job.c.consumed - 1))
Plotted  == stage = "optimize" => Drawn(job.c)
Orderly  == stage \in {"relieve", "fit", "lower"} => Ordered(job.c)
Fitting  ==
  stage = "lower" =>
    /\ peak_live_fprs(job.c, AvailableFprs(s, Opts)).peak <= Cardinality(s.fprs)
    /\ peak_live_gprs(job.c, s, AvailableGprs(s, Opts)).peak <= Cardinality(s.gprs)
    /\ s.pd => Holds(s.fprs, 2)
PInv == Chosen /\ Written /\ Aptly /\ Within /\ Drawing /\ Plotted /\ Orderly /\ Fitting

\* It holds at the beginning.
LEMMA InitPoised == Init => PInv
<1> SUFFICES ASSUME Init PROVE PInv
  OBVIOUS
<1>1. stage = "write" /\ prog = <<>> /\ setting \in Settings
  BY DEF Init
<1>2. Written
  BY <1>1 DEF Written, Separated
<1>3. /\ Fields \cup {"sb"} \subseteq DOMAIN s /\ s.gprs = Gprs /\ s.fprs = setting.fprs
      /\ ~s.starved /\ ~s.gv
  BY DEF Init, Fields, PoolFields
<1>4. Apt(s)
  BY <1>3 DEF Apt, Poised, Pinned
<1> QED BY <1>1, <1>2, <1>4 DEF PInv, Chosen, Aptly, Within, Drawing, Plotted, Orderly, Fitting, Attempts

\* A program that does not fetch a comparison twice.
Once == \A t \in Settings : "fstsw_twice" \in t.shun

\* The program is written.
LEMMA WritePoised ==
  ASSUME Once, IInv, PInv, NEW i \in Letters, Write(i)
  PROVE  PInv'
<1>1. /\ stage = "write" /\ prog' = Append(prog, i) /\ UNCHANGED <<setting, at, s, pend, stage, job>>
      /\ ~\E shun \in setting.shun : Hits(shun, i)
  BY DEF Write
<1> DEFINE n == Len(prog)
<1>2. /\ n \in Nat /\ DOMAIN prog = 1..n /\ Len(prog') = n + 1 /\ prog'[n + 1] = i
      /\ \A k \in 1..n : prog'[k] = prog[k]
  <2>1. IsSeq(prog)
    BY DEF IInv, Shaped
  <2>2. PICK Z : prog \in Seq(Z)
    BY <2>1, SeqIs DEF IsSeq
  <2>3. prog \in Seq(Z \cup {i}) /\ i \in Z \cup {i}
    BY <2>2
  <2> QED BY <1>1, <2>3
<1>3. Encodable(i)
  <2>1. setting \in Settings
    BY DEF PInv, Chosen
  <2>2. CASE n < Len(setting.start)
    <3>1. n + 1 \in DOMAIN setting.start /\ i = setting.start[n + 1]
      BY <1>2, <2>1, <2>2, SettingsAssumption DEF Letters
    <3>2. i \in setting.letters \cup {setting.start[m] : m \in DOMAIN setting.start}
      BY <3>1
    <3> QED BY <2>1, <3>2, SettingsAssumption
  <2>3. CASE ~(n < Len(setting.start))
    <3>1. i \in setting.letters \cup {setting.start[m] : m \in DOMAIN setting.start}
      BY <2>3 DEF Letters
    <3> QED BY <2>1, <3>1, SettingsAssumption
  <2> QED BY <2>2, <2>3
<1>4. ASSUME i.k = "fstsw", NEW j \in 1..n, prog[j].k = "fstsw"
      PROVE  \E m \in j..n : prog[m].k \in Comparing
  <2>1. "fstsw_twice" \in setting.shun
    BY DEF Once, PInv, Chosen
  <2>2. j \notin Since(prog, Comparing)
    BY <1>1, <1>4, <2>1 DEF Hits
  <2> QED BY <1>2, <2>2 DEF Since
<1>5. Written'
  <2>1. \A k \in 1..n + 1 : k \in 1..n \/ k = n + 1
    BY <1>2
  <2>2. \A k \in 1..Len(prog') : Encodable(prog'[k])
    BY <1>2, <1>3, <2>1 DEF PInv, Written
  <2>3. Separated(prog')
    <3> SUFFICES ASSUME NEW j \in 1..n + 1, NEW k \in 1..n + 1, j < k,
                        prog'[j].k = "fstsw", prog'[k].k = "fstsw"
                 PROVE  \E m \in j..k : prog'[m].k \in Comparing
      BY <1>2 DEF Separated
    <3>1. j \in 1..n /\ prog[j].k = "fstsw"
      BY <1>2, <2>1
    <3>2. CASE k = n + 1
      <4>1. PICK m \in j..n : prog[m].k \in Comparing
        BY <1>2, <1>4, <3>1, <3>2
      <4>2. m \in j..k /\ m \in 1..n
        BY <1>2, <3>1, <3>2
      <4> QED BY <1>2, <4>1, <4>2
    <3>3. CASE k \in 1..n
      <4>1. PICK m \in j..k : prog[m].k \in Comparing
        BY <1>2, <3>1, <3>3 DEF PInv, Written, Separated
      <4>2. m \in 1..n
        BY <1>2, <3>1, <3>3
      <4> QED BY <1>2, <4>1, <4>2
    <3> QED BY <2>1, <3>2, <3>3
  <2> QED BY <2>2, <2>3 DEF Written
<1> QED BY <1>1, <1>5 DEF PInv, Chosen, Aptly, Apt, Within, Drawing, Plotted, Orderly, Fitting, Attempts

-----------------------------------------------------------------------------
(* Every step *)

\* An attempt begins with an empty context.
LEMMA BegunDrawn ==
  ASSUME NEW J, DOMAIN J = DOMAIN NoJob, Begin(J)
  PROVE  /\ stage' = "build" /\ job'.found = J.found /\ job'.len = J.len
         /\ Drawn(job'.c) /\ Unfetched(job'.c)
<1> DEFINE m == InitContext(path[at])
<1>1. Drawn(m) /\ Unfetched(m)
  BY InitDrawn
<1> HIDE DEF m
<1>2. stage' = "build" /\ job' = [J EXCEPT !.c = m]
  BY DEF Begin, m
<1>3. job'.found = J.found /\ job'.len = J.len /\ job'.c = m
  BY <1>2 DEF NoJob
<1> QED BY <1>1, <1>2, <1>3

\* An attempt that starts.
LEMMA AttemptPoised ==
  ASSUME IInv, PInv, NEW J, DOMAIN J = DOMAIN NoJob, Begin(J), UNCHANGED <<setting, prog, path, at>>,
         Apt(s'), Apt(J.found), at >= 1, at + J.len <= Len(prog) + 1
  PROVE  PInv'
<1>1. /\ stage' = "build" /\ job'.found = J.found /\ job'.len = J.len
      /\ Drawn(job'.c) /\ Unfetched(job'.c)
  BY BegunDrawn
<1>2. Chosen' /\ Written'
  BY DEF PInv, Chosen, Written
<1>3. Aptly'
  BY <1>1 DEF Aptly, Apt
<1>4. Within' /\ Drawing'
  BY <1>1 DEF Within, Drawing
<1>5. Plotted' /\ Orderly' /\ Fitting'
  BY <1>1 DEF Plotted, Orderly, Fitting
<1> QED BY <1>2, <1>3, <1>4, <1>5 DEF PInv

\* Where there is no attempt there is only the state.
LEMMA BetweenPoised ==
  ASSUME PInv, stage' \in {"look", "gate", "single"}, UNCHANGED <<setting, prog>>, Apt(s'), at' >= 1
  PROVE  PInv'
<1>1. Chosen' /\ Written'
  BY DEF PInv, Chosen, Written
<1>2. Aptly'
  BY DEF Aptly, Apt, Attempts
<1>3. Within' /\ Drawing' /\ Plotted' /\ Orderly' /\ Fitting'
  BY DEF Within, Drawing, Plotted, Orderly, Fitting
<1> QED BY <1>1, <1>2, <1>3 DEF PInv

\* One action after the other.
LEMMA SubmitPoised ==
  ASSUME IInv, PInv, Submit
  PROVE  PInv'
<1>1. stage' = "look" /\ at' = 1 /\ UNCHANGED <<setting, prog, s>>
  BY DEF Submit
<1>2. Apt(s')
  BY <1>1 DEF PInv, Aptly
<1> QED BY <1>1, <1>2, BetweenPoised

LEMMA LookPoised ==
  ASSUME IInv, PInv, Look
  PROVE  PInv'
<1> DEFINE S   == Looked(s)
           p   == Pended(s)
           run == lookahead(prog, at)
           br  == lookahead_bridged(prog, at, Opts)
<1>1. /\ stage = "look" /\ at \in Nat /\ at <= Len(prog) /\ pend = NoRegion /\ IsSeq(prog)
      /\ UNCHANGED <<setting, prog, path, at>> /\ Apt(s) /\ at >= 1
  BY DEF Look, IInv, Shaped, Looking, PInv, Aptly, Within
<1>2. Len(prog) \in Nat
  BY <1>1, SeqHas
<1>3. run \in Nat
  BY <1>1, <1>2, CoveredIs
<1>4. br.total \in Int /\ br.total <= Len(prog) - at + 1
  BY <1>1, <1>2, BridgedIs, BridgedWithin
<1> HIDE DEF run, br
<1>5. Apt(S)
  <2>1. Apt(set_run(s, run))
    BY <1>1, <1>3, SetRunApt
  <2> QED BY <1>1, <2>1 DEF Looked, run
<1>6. CASE RegionDue(S, p)
  <2>1. p = [idx |-> at, total |-> br.total, plain |-> run, x87 |-> br.x87]
    BY <1>1, <1>6 DEF RegionDue, Pended, NoRegion, run, br
  <2> DEFINE J == [NoJob EXCEPT !.found = S, !.allow = Opts.allow, !.len = p.total]
  <2>2. s' = set_run(S, p.total) /\ Begin(J)
    BY <1>6 DEF Look
  <2>3. DOMAIN J = DOMAIN NoJob /\ J.found = S /\ J.len = p.total
    <3> HIDE DEF S, p
    <3> QED BY DEF NoJob
  <2> HIDE DEF J
  <2>4. p.total = br.total
    BY <2>1
  <2> HIDE DEF S, p
  <2>5. Apt(s')
    BY <1>4, <1>5, <2>2, <2>4, SetRunApt
  <2>6. at + J.len <= Len(prog) + 1
    BY <1>1, <1>2, <1>4, <2>3, <2>4
  <2> QED BY <1>1, <1>5, <2>2, <2>3, <2>5, <2>6, AttemptPoised
<1>7. CASE ~RegionDue(S, p)
  <2>1. s' = S /\ stage' = "gate"
    BY <1>7 DEF Look
  <2> HIDE DEF S
  <2> QED BY <1>1, <1>5, <2>1, BetweenPoised
<1> QED BY <1>6, <1>7

LEMMA GatePoised ==
  ASSUME IInv, PInv, Gate
  PROVE  PInv'
<1>1. /\ stage = "gate" /\ at \in Nat /\ at <= Len(prog) /\ IsSeq(prog) /\ s.run \in Nat
      /\ s.run <= lookahead(prog, at) /\ DOMAIN job = DOMAIN NoJob /\ s = job.found
      /\ UNCHANGED <<setting, prog, path, at>> /\ Apt(s) /\ at >= 1
  BY DEF Gate, IInv, Shaped, AtX87, Gated, Covering, PInv, Aptly, Within
<1>2. Len(prog) \in Nat
  BY <1>1, SeqHas
<1>3. CASE ~active(s) \/ GateRefuses(s)
  <2>1. stage' = "single" /\ s' = s
    BY <1>3 DEF Gate
  <2> QED BY <1>1, <2>1, BetweenPoised
<1>4. CASE ~(~active(s) \/ GateRefuses(s))
  <2> DEFINE J == [job EXCEPT !.back = s, !.allow = "none", !.len = s.run, !.try = 0]
             F == gate_flush(s)
  <2>1. s' = F /\ Begin(J)
    BY <1>4 DEF Gate
  <2>2. DOMAIN J = DOMAIN NoJob /\ J.found = s /\ J.len = s.run
    BY <1>1 DEF NoJob
  <2>3. Apt(F)
    BY <1>1, GateApt
  <2> HIDE DEF J, F
  <2>4. lookahead(prog, at) \in Nat /\ lookahead(prog, at) <= Len(prog) - at + 1
    BY <1>1, <1>2, CoveredIs, LookaheadWithin
  <2>5. at + J.len <= Len(prog) + 1
    BY <1>1, <1>2, <2>2, <2>4
  <2> QED BY <1>1, <2>1, <2>2, <2>3, <2>5, AttemptPoised
<1> QED BY <1>3, <1>4

LEMMA BuildPoised ==
  ASSUME IInv, PInv, Build
  PROVE  PInv'
<1> DEFINE k == at + job.c.consumed - 1
           i == prog[at + job.c.consumed]
           c == build_step(job.c, build_arm(job.c, i, job.allow))
           J == [job EXCEPT !.c = c]
<1>1. /\ stage = "build" /\ InOrder(job.c) /\ job.c.consumed < job.len /\ job.len \in Nat
      /\ at \in Nat /\ IsSeq(prog) /\ job' = J
      /\ UNCHANGED <<setting, prog, path, at, s, pend>>
      /\ stage' = IF c.ok /\ c.consumed < job.len THEN "build"
                  ELSE IF Worthwhile(c) /\ (job.allow # "none" => c.consumed = job.len)
                  THEN "optimize" ELSE "refuse"
  BY DEF Build, IInv, Shaped, Built, Attempts
<1>2. Len(prog) \in Nat /\ job.c.consumed \in Nat /\ InOrder(c)
      /\ c.consumed = IF c.ok THEN job.c.consumed + 1 ELSE job.c.consumed
  BY <1>1, SeqHas, StepInOrder DEF InOrder
<1>3. /\ Written /\ Drawn(job.c) /\ (Unfetched(job.c) \/ Recent(prog, k))
      /\ at >= 1 /\ at + job.len <= Len(prog) + 1
  BY <1>1 DEF PInv, Drawing, Within
<1>4. k \in Nat /\ k + 1 \in 1..Len(prog) /\ k + 1 = at + job.c.consumed
  <2> DEFINE n == job.c.consumed
             m == job.len
             N == Len(prog)
  <2>1. at \in Nat /\ n \in Nat /\ m \in Nat /\ N \in Nat /\ at >= 1 /\ n < m /\ at + m <= N + 1
    BY <1>1, <1>2, <1>3
  <2> HIDE DEF n, m, N
  <2>2. at + n - 1 \in Nat /\ (at + n - 1) + 1 = at + n /\ at + n \in 1..N
    BY <2>1
  <2> QED BY <2>2 DEF n, N
<1> HIDE DEF k, i
<1>5. i = prog[k + 1] /\ Encodable(prog[k + 1]) /\ Separated(prog)
  BY <1>3, <1>4 DEF Written, i
<1>6. Drawn(c) /\ (c.ok => Unfetched(c) \/ Recent(prog, k + 1))
  BY <1>2, <1>3, <1>4, <1>5, StepDrawn
<1> HIDE DEF c
<1>7. J.found = job.found /\ J.len = job.len /\ J.c = c
  BY ContextIs
<1> HIDE DEF J
<1>8. Chosen' /\ Written'
  BY <1>1 DEF PInv, Chosen, Written
<1>9. Aptly'
  BY <1>1, <1>7 DEF PInv, Aptly, Apt, Attempts
<1>10. Within'
  BY <1>1, <1>3, <1>7 DEF Within
<1>11. Drawing'
  <2> SUFFICES ASSUME stage' = "build"
               PROVE  Drawn(job'.c) /\ (Unfetched(job'.c) \/ Recent(prog', at' + job'.c.consumed - 1))
    BY DEF Drawing
  <2>1. c.ok /\ c.consumed = job.c.consumed + 1
    BY <1>1, <1>2
  <2>2. at + c.consumed - 1 = k + 1
    BY <1>1, <1>2, <1>4, <2>1
  <2> QED BY <1>1, <1>6, <1>7, <2>1, <2>2
<1>12. Plotted' /\ Orderly' /\ Fitting'
  BY <1>1, <1>6, <1>7 DEF Plotted, Orderly, Fitting
<1> QED BY <1>8, <1>9, <1>10, <1>11, <1>12 DEF PInv

LEMMA PoolHolds ==
  ASSUME PInv
  PROVE  Holds(s.fprs, 0) /\ Cardinality(s.fprs) \in Nat
<1>1. s.fprs = setting.fprs /\ setting \in Settings
  BY DEF PInv, Chosen, Aptly, Apt
<1>2. s.fprs \subseteq Fprs
  BY <1>1, SettingsAssumption
<1>3. IsFiniteSet(s.fprs) /\ s.fprs \subseteq Nat
  BY <1>2, FprsAssumption, FS_Subset
<1>4. Cardinality(s.fprs) \in Nat
  BY <1>3, FS_CardinalityType
<1> QED BY <1>3, <1>4 DEF Holds

\* A pass over the context.
LEMMA PassPoised ==
  ASSUME PInv, stage \in Attempts, stage' \in {"relieve", "fit"}, UNCHANGED <<setting, prog, at, s>>,
         job'.found = job.found, Ordered(job'.c)
  PROVE  PInv'
<1>1. Chosen' /\ Written'
  BY DEF PInv, Chosen, Written
<1>2. Aptly'
  BY DEF PInv, Aptly, Apt
<1>3. Within' /\ Drawing' /\ Plotted' /\ Orderly' /\ Fitting'
  BY DEF PInv, Within, Drawing, Plotted, Orderly, Fitting, Attempts
<1> QED BY <1>1, <1>2, <1>3 DEF PInv

\* The passes run, and then relief, or the counts.
LEMMA OptimizePoised ==
  ASSUME IInv, PInv, Optimize
  PROVE  PInv'
<1> DEFINE c == optimize(job.c, Opts)
           J == [job EXCEPT !.c = c]
<1>1. /\ stage = "optimize" /\ stage' = "relieve" /\ job' = J
      /\ UNCHANGED <<setting, prog, path, at, s, pend>> /\ Drawn(job.c)
  BY DEF Optimize, PInv, Plotted
<1>2. Ordered(c)
  BY <1>1, OptimizeOrders
<1> HIDE DEF c
<1>3. J.found = job.found /\ J.c = c
  BY ContextIs
<1> HIDE DEF J
<1> QED BY <1>1, <1>2, <1>3, PassPoised DEF Attempts

LEMMA RelievePoised ==
  ASSUME IInv, PInv, Relieve
  PROVE  PInv'
<1> DEFINE b == AvailableFprs(s, Opts)
           c == remat_relieve_fpr_pressure(job.c, b)
           J == [job EXCEPT !.c = c]
<1>1. /\ stage = "relieve" /\ stage' = "fit" /\ UNCHANGED <<setting, prog, path, at, s, pend>>
      /\ job' = J \/ job' = job
  BY DEF Relieve
<1>2. InOrder(job.c) /\ Ordered(job.c)
  BY <1>1 DEF IInv, Compiled, PInv, Orderly
<1>3. Ordered(c)
  BY <1>2, RelieveOrders
<1> HIDE DEF c
<1>4. J.found = job.found /\ J.c = c
  BY ContextIs
<1> HIDE DEF J
<1>5. job'.found = job.found /\ Ordered(job'.c)
  BY <1>1, <1>2, <1>3, <1>4
<1> QED BY <1>1, <1>5, PassPoised DEF Attempts

\* What gives an attempt up leaves the found state to go back to.
LEMMA GivenUpPoised ==
  ASSUME PInv, stage \in Attempts, stage' = "refuse", job'.found = job.found,
         UNCHANGED <<setting, prog, at, s>>
  PROVE  PInv'
<1>1. Chosen' /\ Written'
  BY DEF PInv, Chosen, Written
<1>2. Aptly'
  BY DEF PInv, Aptly, Apt
<1>3. Within' /\ Drawing' /\ Plotted' /\ Orderly' /\ Fitting'
  BY DEF PInv, Within, Drawing, Plotted, Orderly, Fitting, Attempts
<1> QED BY <1>1, <1>2, <1>3 DEF PInv

\* A body too large is tried again, shorter.
LEMMA RetryPoised ==
  ASSUME IInv, PInv, stage = "fit", NEW over, Retry(over), UNCHANGED <<setting, prog, path, at, s, pend>>
  PROVE  PInv'
<1>1. CASE ~MaySplit(job.c, over, job.len, job.try, job.allow, Opts)
  <2>1. stage' = "refuse" /\ job' = job
    BY <1>1 DEF Retry
  <2> QED BY <2>1, GivenUpPoised DEF Attempts
<1>2. CASE MaySplit(job.c, over, job.len, job.try, job.allow, Opts)
  <2> DEFINE n == split_prefix_len(job.c, over, job.len)
             J == [job EXCEPT !.len = n, !.try = @ + 1]
  <2>1. Begin(J) /\ job.allow = "none"
    BY <1>2 DEF Retry, MaySplit
  <2>2. /\ InOrder(job.c) /\ job.len \in Nat /\ DOMAIN job = DOMAIN NoJob /\ at \in Nat /\ IsSeq(prog)
        /\ at <= Len(prog) /\ s.run \in Nat /\ job.len <= s.run /\ s.run <= lookahead(prog, at)
    BY <2>1 DEF IInv, Shaped, AtX87, Tried, Covering, Attempts, Compiled
  <2>3. n \in Int /\ n < job.len
    BY <2>2, CutIs
  <2> HIDE DEF n
  <2>4. DOMAIN J = DOMAIN NoJob /\ J.found = job.found /\ J.len = n
    BY <2>2 DEF NoJob
  <2> HIDE DEF J
  <2>5. Len(prog) \in Nat
    BY <2>2, SeqHas
  <2>6. lookahead(prog, at) \in Nat /\ lookahead(prog, at) <= Len(prog) - at + 1
    BY <2>2, <2>5, CoveredIs, LookaheadWithin
  <2>7. at + J.len <= Len(prog) + 1
    BY <2>2, <2>3, <2>4, <2>5, <2>6
  <2>8. Apt(s) /\ Apt(job.found) /\ at >= 1
    BY DEF PInv, Aptly, Within, Attempts
  <2> QED BY <2>1, <2>4, <2>7, <2>8, AttemptPoised
<1> QED BY <1>1, <1>2

\* Only what fits both budgets is lowered.
LEMMA FitPoised ==
  ASSUME IInv, PInv, Fit
  PROVE  PInv'
<1> DEFINE fb == AvailableFprs(s, Opts)
           gb == AvailableGprs(s, Opts)
           F == peak_live_fprs(job.c, fb)
           G == peak_live_gprs(job.c, s, gb)
<1>1. stage = "fit" /\ UNCHANGED <<setting, prog, path, at, s, pend>>
      /\ IF F.peak > F.budget THEN Retry(F.over)
         ELSE IF s.pd /\ 2 > F.budget THEN stage' = "refuse" /\ UNCHANGED job
         ELSE IF G.peak > G.budget THEN Retry(G.over)
         ELSE stage' = "lower" /\ UNCHANGED job
  BY DEF Fit
<1>2. /\ Wellformed(job.c) /\ Reduced(job.c) /\ "last" \in DOMAIN job.c /\ Len(job.c.nodes) \in Nat
      /\ Ordered(job.c)
  <2>1. Ordered(job.c)
    BY <1>1 DEF PInv, Orderly
  <2> QED BY <2>1, OrderedIs DEF Wellformed
<1>3. Poised(s)
  BY DEF PInv, Aptly, Apt
<1>4. F.peak \in Int /\ F.budget = fb /\ G.peak \in Int /\ G.budget = gb
  BY <1>2, <1>3, FprPeakIs, GprPeakIs
<1>5. fb \in Nat /\ fb <= Cardinality(s.fprs) /\ gb \in Nat /\ gb <= Cardinality(s.gprs)
  <2>1. setting.opts.fprs \in Nat /\ setting.opts.gprs \in Nat
    BY SettingsAssumption DEF PInv, Chosen
  <2>2. Cardinality(s.fprs) \in Nat /\ Cardinality(s.gprs) \in Nat
    <3>1. IsFiniteSet(s.gprs)
      BY <1>3, PinnedIs DEF Poised
    <3> QED BY <3>1, PoolHolds, FS_CardinalityType
  <2> QED BY <2>1, <2>2, LimitedIs DEF AvailableFprs, AvailableGprs, Opts
<1>6. Holds(s.fprs, 0) /\ Cardinality(s.fprs) \in Nat /\ Cardinality(s.gprs) \in Int
  <2>1. IsFiniteSet(s.gprs)
    BY <1>3, PinnedIs DEF Poised
  <2> QED BY <2>1, PoolHolds, FS_CardinalityType
<1> HIDE DEF F, G, fb, gb
<1>7. CASE Retry(F.over) \/ Retry(G.over)
  BY <1>1, <1>7, RetryPoised
<1>8. CASE stage' = "refuse" /\ UNCHANGED job
  BY <1>1, <1>8, GivenUpPoised DEF Attempts
<1>9. CASE /\ ~(F.peak > F.budget) /\ ~(s.pd /\ 2 > F.budget) /\ ~(G.peak > G.budget)
           /\ stage' = "lower" /\ UNCHANGED job
  <2>1. F.peak <= Cardinality(s.fprs) /\ G.peak <= Cardinality(s.gprs)
    BY <1>4, <1>5, <1>6, <1>9
  <2>2. s.pd => Holds(s.fprs, 2)
    BY <1>4, <1>5, <1>6, <1>9 DEF Holds
  <2>3. Opts' = Opts
    BY <1>1 DEF Opts
  <2>4. Fitting'
    BY <1>1, <1>9, <2>1, <2>2, <2>3 DEF Fitting, F, G, fb, gb, AvailableFprs, AvailableGprs
  <2>5. Chosen' /\ Written'
    BY <1>1 DEF PInv, Chosen, Written
  <2>6. Aptly'
    BY <1>1, <1>9 DEF PInv, Aptly, Apt, Attempts
  <2>7. Within' /\ Drawing' /\ Plotted' /\ Orderly'
    BY <1>1, <1>2, <1>9 DEF PInv, Within, Drawing, Plotted, Orderly
  <2> QED BY <2>4, <2>5, <2>6, <2>7 DEF PInv
<1> QED BY <1>1, <1>7, <1>8, <1>9

\* The lowering finds every register it asks for: LowerFits.
LEMMA LowerPoised ==
  ASSUME IInv, PInv, Lower
  PROVE  PInv'
<1> DEFINE n == job.c.consumed
           fb == AvailableFprs(s, Opts)
           gb == AvailableGprs(s, Opts)
<1>1. /\ stage = "lower" /\ s' = Tidied(Ticked(lower(job.c, s), n)) /\ Past(n)
  BY DEF Lower
<1>2. /\ InOrder(job.c) /\ n \in Nat /\ at \in Nat /\ s.run \in Nat
  BY <1>1 DEF IInv, Shaped, Compiled, InOrder
<1>3. Apt(s) /\ Ordered(job.c) /\ at >= 1
      /\ peak_live_fprs(job.c, fb).peak <= Cardinality(s.fprs)
      /\ peak_live_gprs(job.c, s, gb).peak <= Cardinality(s.gprs)
      /\ (s.pd => Holds(s.fprs, 2))
  BY <1>1 DEF PInv, Aptly, Orderly, Within, Fitting
<1>4. Wellformed(job.c) /\ Reduced(job.c) /\ Paired(job.c) /\ "last" \in DOMAIN job.c
  BY <1>3, OrderedIs
<1>5. Poised(s) /\ Holds(s.fprs, 0)
  BY <1>3, PoolHolds DEF Apt
<1> HIDE DEF fb, gb
<1>6. ~lower(job.c, s).starved
  BY <1>3, <1>4, <1>5, LowerFits
<1>7. Len(job.c.nodes) \in Nat /\ "nodes" \in DOMAIN job.c
  BY <1>2, SeqHas DEF InOrder, NodeList
<1>8. Apt(s')
  BY <1>1, <1>2, <1>3, <1>6, <1>7, LowerApt
<1>9. stage' = "look" /\ UNCHANGED <<setting, prog>> /\ at' >= 1
  BY <1>1, <1>2, <1>3 DEF Past
<1> QED BY <1>8, <1>9, BetweenPoised

LEMMA RefusePoised ==
  ASSUME IInv, PInv, Refuse
  PROVE  PInv'
<1>1. stage = "refuse" /\ UNCHANGED <<setting, prog, at>> /\ stage' \in {"gate", "single"}
  BY DEF Refuse
<1>2. Apt(s) /\ Apt(job.found) /\ at >= 1
  BY <1>1 DEF PInv, Aptly, Within, Attempts
<1>3. s' = s \/ s' = job.found
  <2>1. CASE job.allow # "none"
    BY <1>1, <2>1 DEF Refuse, IInv, Tried, Attempts
  <2>2. CASE job.allow = "none"
    <3>1. IsFcn(job.back) /\ job.back = job.found /\ s = gate_flush(job.back)
      BY <1>1, <2>2 DEF IInv, Tried, Attempts
    <3>2. rollback(job.back, s) = job.back
      BY <3>1, RollbackIs
    <3> QED BY <2>2, <3>1, <3>2 DEF Refuse
  <2> QED BY <2>1, <2>2
<1>4. Apt(s')
  BY <1>2, <1>3
<1> QED BY <1>1, <1>2, <1>4, BetweenPoised

LEMMA OnePoised ==
  ASSUME IInv, PInv, TranslateOne
  PROVE  PInv'
<1>1. stage = "single" /\ s' = Tidied(Ticked(translate_one(s, prog[at]), 1)) /\ Past(1)
  BY DEF TranslateOne
<1>2. at \in Nat /\ s.run \in Nat /\ Apt(s) /\ at >= 1
  BY <1>1 DEF IInv, Shaped, PInv, Aptly, Within
<1>3. Apt(s')
  BY <1>1, <1>2, OneApt
<1>4. stage' = "look" /\ UNCHANGED <<setting, prog>> /\ at' >= 1
  BY <1>1, <1>2 DEF Past
<1> QED BY <1>3, <1>4, BetweenPoised

LEMMA StockPoised ==
  ASSUME IInv, PInv, TranslateStock
  PROVE  PInv'
<1>1. stage = "look" /\ ~IsX87(prog[at]) /\ s' = P!Step(s, prog[at]) /\ Past(1)
  BY DEF TranslateStock
<1>2. at \in Nat /\ Apt(s) /\ at >= 1
  BY <1>1 DEF IInv, Shaped, PInv, Aptly, Within
<1>3. Apt(s')
  BY <1>1, <1>2, StockStays, StaysApt
<1>4. stage' = "look" /\ UNCHANGED <<setting, prog>> /\ at' >= 1
  BY <1>1, <1>2 DEF Past
<1> QED BY <1>3, <1>4, BetweenPoised

\* Every step keeps it.
LEMMA NextPoised ==
  ASSUME Once, IInv, PInv, [Next]_vars
  PROVE  PInv'
<1>1. CASE \E i \in Letters : Write(i)
  BY <1>1, WritePoised
<1>2. CASE Submit
  BY <1>2, SubmitPoised
<1>3. CASE Look
  BY <1>3, LookPoised
<1>4. CASE Gate
  BY <1>4, GatePoised
<1>5. CASE Build
  BY <1>5, BuildPoised
<1>6. CASE Optimize
  BY <1>6, OptimizePoised
<1>7. CASE Relieve
  BY <1>7, RelievePoised
<1>8. CASE Fit
  BY <1>8, FitPoised
<1>9. CASE Lower
  BY <1>9, LowerPoised
<1>10. CASE Refuse
  BY <1>10, RefusePoised
<1>11. CASE TranslateOne
  BY <1>11, OnePoised
<1>12. CASE TranslateStock
  BY <1>12, StockPoised
<1>13. CASE Stop \/ UNCHANGED vars
  <2>1. UNCHANGED vars
    BY <1>13 DEF Stop
  <2> QED BY <2>1 DEF vars, PInv, Chosen, Written, Aptly, Apt, Within, Drawing, Plotted, Orderly, Fitting,
        Opts
<1> QED BY <1>1, <1>2, <1>3, <1>4, <1>5, <1>6, <1>7, <1>8, <1>9, <1>10, <1>11, <1>12,
      <1>13 DEF Next, Translate

\* compile_run lowers a region only if peak_live_fprs and peak_live_gprs are
\* within the registers that are free (X87IRLower.cpp, compile_run and the two
\* counts), and then no alloc_free_fpr or alloc_free_gpr, in lowering or in a
\* translator, finds its pool empty: for programs of any length, any graph of
\* nodes, any pool and any options.  It is of programs that fetch no comparison
\* twice: in those that do, the value such a comparison holds is one that
\* peak_live_fprs has dropped by the second FSTSW.
THEOREM PoolsSuffice == Once => (Spec => []PoolSuffices)
<1> SUFFICES ASSUME Once PROVE Spec => []PoolSuffices
  OBVIOUS
<1>1. Init => PInv
  BY InitPoised
<1>2. IInv /\ PInv /\ [Next]_vars => PInv'
  BY NextPoised
<1>3. PInv => PoolSuffices
  BY DEF PInv, Aptly, Apt, Poised, PoolSuffices
<1> QED BY <1>1, <1>2, <1>3, Inductive, PTL DEF Spec

=============================================================================
