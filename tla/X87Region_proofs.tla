-------------------------- MODULE X87Region_proofs --------------------------
(***************************************************************************)
(* Attempts on a region, for programs of any length and any configuration:  *)
(* they leave no trace when refused, they never stretch the run beyond the  *)
(* instructions of the x87, and they come to an end.                       *)
(*                                                                         *)
(* The invariant speaks of the run (s.run), of what a refusal goes back to  *)
(* (job.found, job.back, pend) and of how much has been consumed.  It needs *)
(* two frames.  Keeps: whatever is translated or lowered, the state has     *)
(* the fields it had and the run is as long as it was, until tick counts.   *)
(* Grows: whatever a pass or the relief of pressure does to a context, it   *)
(* is a list of nodes that know their instruction, and no more has been     *)
(* consumed.  Every loop of the two is a Walk, followed by the induction of *)
(* X87Walk_proofs, instantiated for what a turn of it does.                 *)
(***************************************************************************)
EXTENDS X87Region, FiniteSetTheorems, TLAPS

\* What holds of 0, and of each number after one it holds of, holds of all.
LEMMA FromZero ==
  ASSUME NEW S, 0 \in S, \A n \in Nat : n \in S => n + 1 \in S
  PROVE  Nat \subseteq S
<1> DEFINE R == OpToRel(<, Nat)
           D == Nat \ S
<1> SUFFICES ASSUME D # {} PROVE FALSE
  OBVIOUS
<1>1. \E x \in D : \A y \in D : ~ (<<y, x>> \in R)
  <2>1. D \subseteq Nat
    OBVIOUS
  <2> HIDE DEF D
  <2> QED BY <2>1, NatLessThanWellFounded, WFMin
<1>2. PICK x \in D : \A y \in D : ~ (<<y, x>> \in R)
  BY <1>1
<1>3. \A y \in D : ~ (y < x)
  BY <1>2 DEF OpToRel
<1>4. x - 1 \in Nat /\ x - 1 \notin D
  <2>1. x \in Nat /\ x # 0
    OBVIOUS
  <2>2. x - 1 \in Nat /\ x - 1 < x
    BY <2>1
  <2> QED BY <1>3, <2>2
<1>5. (x - 1) + 1 \in S
  BY <1>4
<1> QED BY <1>5

\* The same of a set of numbers, which the lemmas of X87Walk_proofs ask for.
LEMMA Induction == \A U \in SUBSET Nat : (0 \in U /\ \A m \in U : m + 1 \in U) => U = Nat
<1> SUFFICES ASSUME NEW U \in SUBSET Nat, 0 \in U, \A m \in U : m + 1 \in U
             PROVE  U = Nat
  OBVIOUS
<1>1. \A m \in Nat : m \in U => m + 1 \in U
  OBVIOUS
<1>2. Nat \subseteq U
  BY <1>1, FromZero
<1> QED BY <1>2

-----------------------------------------------------------------------------
(* What lowering leaves alone *)

\* A translator state T has the fields of S and as much of its run left, and
\* registers pinned only if S has, or within a run.
Keeps(S, T) ==
  DOMAIN T = DOMAIN S /\ T.run = S.run /\ (T.gv => S.gv \/ S.run > 0)

LEMMA KeepsThrough ==
  ASSUME NEW S, NEW T, NEW U, Keeps(S, T), Keeps(T, U)
  PROVE  Keeps(S, U)
BY DEF Keeps

\* The two pools.
LEMMA PoolsKeep ==
  ASSUME NEW L, NEW r
  PROVE  /\ Keeps(L, Starve(L)) /\ Keeps(L, alloc_free_fpr(L)) /\ Keeps(L, alloc_free_gpr(L))
         /\ Keeps(L, alloc_gpr(L, r)) /\ Keeps(L, free_fpr(L, r)) /\ Keeps(L, free_gpr(L, r))
         /\ Keeps(L, Scratch(L, r))
BY DEF Keeps, Starve, alloc_free_fpr, alloc_free_gpr, alloc_gpr, free_fpr, free_gpr, Scratch

-----------------------------------------------------------------------------
(* Bodies *)

\* The names the bodies give to registers, and what they do with them.
Names == {"Xf", "Xm", "Xt", "Xy", "acc", "ax", "ay", "b", "bits", "c", "d", "den", "hi", "idx",
          "invc", "k", "kd", "log2c", "m", "n", "neg", "neg1", "neg2", "negd", "norm", "num",
          "nzcv", "off", "one", "p", "p2", "p3", "pi2", "poly", "pr", "q", "qi", "qn", "r", "r2",
          "r4", "r8", "ret", "shift", "shiftb", "sign", "tbl", "tmp", "twopi", "u", "x", "y", "y2",
          "z", "z2", "z3", "zero"}
Events == {"F", "f", "G", "g"} \X Names

LEMMA EventsAre ==
  ASSUME NEW n \in Names
  PROVE  FP(n) \in Events /\ fp(n) \in Events /\ GP(n) \in Events /\ gp(n) \in Events
BY DEF FP, fp, GP, gp, Events

LEMMA BriefIs ==
  ASSUME NEW n \in Names
  PROVE  Brief(n) \in Seq(Events)
BY EventsAre DEF Brief

LEMMA TrigBody == emit_inline_trig_body \in Seq(Events)
<1>1. emit_trig_range_reduce \in Seq(Events)
  BY EventsAre DEF Names, emit_trig_range_reduce
<1>2. emit_sin_poly_estrin \in Seq(Events)
  BY EventsAre DEF Names, emit_sin_poly_estrin
<1>3. /\ <<FP("y")>> \in Seq(Events) /\ <<fp("r")>> \in Seq(Events) /\ <<gp("qn")>> \in Seq(Events)
      /\ emit_apply_qn_sign \in Seq(Events)
  BY EventsAre, BriefIs DEF Names, emit_apply_qn_sign
<1> QED BY <1>1, <1>2, <1>3 DEF emit_inline_trig_body

LEMMA TanBody == emit_inline_fptan_core \in Seq(Events)
BY EventsAre, BriefIs DEF Names, emit_inline_fptan_core
LEMMA AtanBody == emit_inline_fpatan_core \in Seq(Events)
BY EventsAre, BriefIs DEF Names, emit_inline_fpatan_core
LEMMA LogBody == emit_inline_fyl2x_core \in Seq(Events)
BY EventsAre, BriefIs DEF Names, emit_inline_fyl2x_core, emit_inline_log2
LEMMA ScaleBody == emit_inline_fscale_core \in Seq(Events)
BY EventsAre, BriefIs DEF Names, emit_inline_fscale_core

Cores == Trigs \cup {"FPatan", "FYl2x", "FScale"}
LEMMA BodyEvents ==
  ASSUME NEW op \in Cores
  PROVE  emit_core(op) \in Seq(Events)
BY TrigBody, TanBody, AtanBody, LogBody, ScaleBody DEF Cores, Trigs, emit_core

\* The body of a transcendental only takes and gives back registers.
BodyTurn(c, d, x, K, e) == Turn(K, e)
KeptAlong(c, d, x, base, K) == Keeps(base, K)
BodyWalk == INSTANCE X87Walk_proofs WITH Turn <- BodyTurn, Kept <- KeptAlong

LEMMA TurnKeeps ==
  ASSUME NEW L, NEW e \in Events
  PROVE  Keeps(L, Turn(L, e))
<1>1. e[1] \in {"F", "f", "G", "g"}
  BY DEF Events
<1> QED BY <1>1 DEF Turn, Keeps, alloc_free_fpr, alloc_free_gpr, free_fpr, free_gpr, Starve

LEMMA BodyKeeps ==
  ASSUME NEW L, NEW events \in Seq(Events)
  PROVE  Keeps(L, Body(L, events))
<1>1. Len(events) \in Nat /\ \A n \in 1..Len(events) : events[n] \in Events
  OBVIOUS
<1>2. \A n \in 1..Len(events) : \A K :
        KeptAlong(0, 0, 0, L, K) => KeptAlong(0, 0, 0, L, BodyTurn(0, 0, 0, K, events[n]))
  BY <1>1, TurnKeeps, KeepsThrough DEF KeptAlong, BodyTurn
<1>3. KeptAlong(0, 0, 0, L, L)
  BY DEF KeptAlong, Keeps
<1>4. KeptAlong(0, 0, 0, L, BodyWalk!Through(0, 0, 0, L, events))
  <2> HIDE DEF KeptAlong, BodyTurn
  <2> QED BY <1>1, <1>2, <1>3, Induction, BodyWalk!WalkKeeps
<1>5. BodyWalk!Through(0, 0, 0, L, events) = Body(L, events)
  BY DEF BodyWalk!Through, BodyWalk!Walk, Walk, Body, BodyTurn
<1> QED BY <1>4, <1>5 DEF KeptAlong

-----------------------------------------------------------------------------
(* The cache and the guest *)

LEMMA CacheKeeps ==
  ASSUME NEW S, NEW n, NEW v
  PROVE  /\ Keeps(S, reset_perm(S)) /\ Keeps(S, emit_load_top(S)) /\ Keeps(S, emit_store_top(S))
         /\ Keeps(S, emit_store_st(S, n, v)) /\ Keeps(S, emit_x87_tag_clear(S))
         /\ Keeps(S, emit_x87_tag_set_empty_batch(S, n))
         /\ Keeps(S, emit_x87_tag_set_valid_batch(S, n))
         /\ Keeps(S, emit_x87_perm_flush(S)) /\ Keeps(S, x87_begin(S))
<1>1. Keeps(S, x87_begin(S))
  <2>1. \A K, b : /\ DOMAIN [K EXCEPT !.gv = b] = DOMAIN K /\ [K EXCEPT !.gv = b].run = K.run
                  /\ [K EXCEPT !.gv = b].gv = b \/ [K EXCEPT !.gv = b].gv = K.gv
    OBVIOUS
  <2> DEFINE b == S.run > 0
             L == emit_load_top(S)
             T == [L EXCEPT !.gv = b]
  <2>2. Keeps(S, L) /\ Keeps(S, S)
    BY DEF Keeps, emit_load_top
  <2>3. DOMAIN T = DOMAIN L /\ T.run = L.run /\ (T.gv = b \/ T.gv = L.gv)
    <3> HIDE DEF L, b
    <3> QED BY <2>1
  <2>4. x87_begin(S) = IF S.run > 0 /\ S.gv THEN S ELSE T
    BY DEF x87_begin
  <2> HIDE DEF T, L
  <2>5. T.gv => S.gv \/ S.run > 0
    <3>1. CASE T.gv = b
      BY <3>1
    <3>2. CASE T.gv = L.gv
      BY <2>2, <3>2, Zenon DEF Keeps
    <3> QED BY <2>3, <3>1, <3>2
  <2>6. Keeps(S, T)
    BY <2>2, <2>3, <2>5 DEF Keeps
  <2> QED BY <2>2, <2>4, <2>6
<1> QED BY <1>1 DEF Keeps, reset_perm, emit_load_top, emit_store_top, emit_store_st, emit_x87_tag_clear,
        emit_x87_tag_set_empty_batch, emit_x87_tag_set_valid_batch, emit_x87_perm_flush, x87_begin

LEMMA FlushesKeep ==
  ASSUME NEW S
  PROVE  /\ Keeps(S, x87_emit_perm_flush(S)) /\ Keeps(S, perm_flush_before_stack_change(S))
         /\ Keeps(S, x87_flush_top(S)) /\ Keeps(S, x87_flush_deferred_pops(S))
         /\ Keeps(S, x87_flush_pending_tag(S)) /\ Keeps(S, x87_flush_tags(S))
<1>1. Keeps(S, x87_emit_perm_flush(S))
  BY CacheKeeps, KeepsThrough DEF x87_emit_perm_flush
<1>2. Keeps(S, x87_flush_deferred_pops(S))
  BY DEF Keeps, x87_flush_deferred_pops, emit_x87_tag_set_empty_batch
<1>3. \A T : Keeps(T, x87_flush_pending_tag(T))
  BY DEF Keeps, x87_flush_pending_tag, emit_x87_tag_clear
<1>4. Keeps(S, x87_flush_top(S))
  BY DEF Keeps, x87_flush_top, emit_store_top
<1>5. Keeps(S, S)
  BY DEF Keeps
<1> QED BY <1>1, <1>2, <1>3, <1>4, <1>5, KeepsThrough DEF perm_flush_before_stack_change,
      x87_flush_tags

LEMMA GuestKeeps ==
  ASSUME NEW S, NEW o, NEW v
  PROVE  /\ Keeps(S, StoreMem(S, o, v)) /\ Keeps(S, SetReg(S, o, v)) /\ Keeps(S, SetFlags(S, v))
         /\ Keeps(S, SetCc(S, v)) /\ Keeps(S, SetCw(S, v))
BY DEF Keeps, StoreMem, SetReg, SetFlags, SetCc, SetCw

LEMMA BridgeKeeps ==
  ASSUME NEW S, NEW op \in BridgeOps, NEW in, NEW arg, NEW wide
  PROVE  Keeps(S, BridgeEffect(S, op, in, arg, wide))
BY GuestKeeps DEF BridgeEffect, BridgeOps

LEMMA EffectKeeps ==
  ASSUME NEW S, NEW op, NEW in, NEW a, NEW arg, NEW flags
  PROVE  Keeps(S, Effect(S, op, in, a, arg, flags))
<1>1. Keeps(S, S)
  BY DEF Keeps
<1> QED BY <1>1, GuestKeeps, BridgeKeeps DEF Effect

-----------------------------------------------------------------------------
(* A node *)

LEMMA IntoKeeps ==
  ASSUME NEW c, NEW L, NEW i, NEW r, NEW v
  PROVE  /\ Keeps(L, Into(L, i, r, v)) /\ Keeps(L, InFresh(L, i, v))
         /\ Keeps(L, InReused(c, L, i, v))
<1>1. \A K, s1 : Keeps(K, Into(K, i, s1, v))
  BY DEF Keeps, Into
<1>2. Keeps(L, InFresh(L, i, v))
  BY <1>1, PoolsKeep, KeepsThrough DEF InFresh
<1>3. \A n : Keeps(L, [L EXCEPT !.node[n] = NoReg])
  BY DEF Keeps
<1> QED BY <1>1, <1>2, <1>3, KeepsThrough DEF InReused

LEMMA FreedKeeps ==
  ASSUME NEW c, NEW L, NEW i
  PROVE  Keeps(L, free_dead_inputs(c, L, i))
<1>1. \A K, n : Keeps(K, FreeInput(c, K, i, n))
  BY DEF Keeps, FreeInput, free_fpr
<1> QED BY <1>1, KeepsThrough DEF free_dead_inputs

LEMMA PreambleKeeps ==
  ASSUME NEW L
  PROVE  Keeps(L, emit_rc_preamble(L))
BY DEF Keeps, emit_rc_preamble

\* Nodes with a value.
LEMMA ValuesKeep ==
  ASSUME NEW c, NEW L, NEW i
  PROVE  /\ Keeps(L, lower_ReadSt(c, L, i)) /\ Keeps(L, lower_Load(c, L, i))
         /\ Keeps(L, lower_Const(c, L, i)) /\ Keeps(L, lower_arith(c, L, i))
         /\ Keeps(L, lower_FCSel(c, L, i)) /\ Keeps(L, lower_FRndInt(c, L, i))
<1>1. /\ Keeps(L, lower_ReadSt(c, L, i)) /\ Keeps(L, lower_Const(c, L, i))
      /\ \A K : Keeps(K, lower_arith(c, K, i))
  BY IntoKeeps DEF lower_ReadSt, lower_Const, lower_arith
<1>2. Keeps(L, lower_Load(c, L, i))
  BY IntoKeeps, PoolsKeep, KeepsThrough DEF lower_Load
<1>3. Keeps(L, lower_FCSel(c, L, i))
  BY <1>1, PoolsKeep, KeepsThrough DEF lower_FCSel
<1>4. Keeps(L, lower_FRndInt(c, L, i))
  <2> DEFINE M == IF L.rc.on THEN L ELSE free_gpr(alloc_gpr(L, RcPlace), RcPlace)
  <2>1. Keeps(L, M)
    <3>1. Keeps(L, L)
      BY DEF Keeps
    <3> QED BY <3>1, PoolsKeep, KeepsThrough
  <2>2. Keeps(L, emit_rc_preamble(M))
    <3> HIDE DEF M
    <3> QED BY <2>1, PreambleKeeps, KeepsThrough
  <2> QED BY <2>2, IntoKeeps, KeepsThrough DEF lower_FRndInt
<1> QED BY <1>1, <1>2, <1>3, <1>4

\* A transcendental copies its operands first.
CopyTurn(c, i, x, K, e) == CopyIn(c, i, K, e)
CopyWalk == INSTANCE X87Walk_proofs WITH Turn <- CopyTurn, Kept <- KeptAlong

LEMMA CopiesKeep ==
  ASSUME NEW c, NEW L, NEW i, NEW op
  PROVE  Keeps(L, CopyAll(c, i, L, op))
<1>1. Len(Copies(op)) \in Nat
  BY DEF Copies
<1>2. \A K, e : Keeps(K, CopyIn(c, i, K, e))
  <2> TAKE K, e
  <2>1. Keeps(alloc_free_fpr(K), CopyIn(c, i, K, e))
    BY DEF Keeps, CopyIn
  <2> QED BY <2>1, PoolsKeep, KeepsThrough
<1>3. \A n \in 1..Len(Copies(op)) : \A K :
        KeptAlong(c, i, 0, L, K) => KeptAlong(c, i, 0, L, CopyTurn(c, i, 0, K, Copies(op)[n]))
  BY <1>2, KeepsThrough DEF KeptAlong, CopyTurn
<1>4. KeptAlong(c, i, 0, L, L)
  BY DEF KeptAlong, Keeps
<1>5. KeptAlong(c, i, 0, L, CopyWalk!Through(c, i, 0, L, Copies(op)))
  <2> HIDE DEF KeptAlong, CopyTurn
  <2> QED BY <1>1, <1>3, <1>4, Induction, CopyWalk!WalkKeeps
<1>6. CopyWalk!Through(c, i, 0, L, Copies(op)) = CopyAll(c, i, L, op)
  BY DEF CopyWalk!Through, CopyWalk!Walk, Walk, CopyTurn, CopyAll
<1> QED BY <1>5, <1>6 DEF KeptAlong

LEMMA CoreKeeps ==
  ASSUME NEW c, NEW L, NEW i, NodeAt(c, i).op \in Cores
  PROVE  Keeps(L, lower_core(c, L, i))
<1> DEFINE op    == NodeAt(c, i).op
           In    == free_dead_inputs(c, CopyAll(c, i, L, op), i)
           const == NextGpr(In)
           Done  == IF op = "FScale" THEN Body(In, emit_core(op))
                    ELSE free_gpr(Body(alloc_free_gpr(In), emit_core(op)), const)
           Clean == IF op \in Trigs THEN SetCc(Scratch(Done, 1), Cleared) ELSE Done
<1>1. Keeps(L, In)
  BY CopiesKeep, FreedKeeps, KeepsThrough
<1>2. Keeps(L, Done)
  <2> HIDE DEF In, const
  <2>1. emit_core(op) \in Seq(Events)
    BY BodyEvents
  <2>2. Keeps(L, alloc_free_gpr(In))
    BY <1>1, PoolsKeep, KeepsThrough
  <2>3. \A K : Keeps(K, Body(K, emit_core(op)))
    BY <2>1, BodyKeeps
  <2> HIDE DEF op
  <2> QED BY <1>1, <2>2, <2>3, PoolsKeep, KeepsThrough
<1>3. Keeps(L, Clean)
  <2> HIDE DEF Done
  <2> QED BY <1>2, PoolsKeep, GuestKeeps, KeepsThrough
<1>4. lower_core(c, L, i) = Into(Clean, i, Clean.name[Result(op)], CoreValue(op, In))
  BY DEF lower_core
<1> HIDE DEF Clean, In
<1> QED BY <1>3, <1>4, IntoKeeps, KeepsThrough

\* A set of integers between two bounds has a largest one.
LEMMA Largest ==
  ASSUME NEW a \in Int, NEW b \in Int, NEW E \in SUBSET (a..b), E # {}
  PROVE  Max(E) \in E /\ \A e \in E : Max(E) >= e
<1> DEFINE Tops(n) == \A F \in SUBSET (a..a + n) : F # {} => \E x \in F : \A y \in F : x >= y
           S == {n \in Nat : Tops(n)}
<1>1. 0 \in S
  <2> SUFFICES ASSUME NEW F \in SUBSET (a..a + 0), F # {}
               PROVE  \E x \in F : \A y \in F : x >= y
    OBVIOUS
  <2>1. \A x \in a..a + 0 : x = a
    OBVIOUS
  <2>2. \A x \in F : x = a
    BY <2>1
  <2>3. PICK x \in F : TRUE
    OBVIOUS
  <2>4. x >= x
    BY <2>2, <2>3
  <2> QED BY <2>2, <2>4
<1>2. ASSUME NEW n \in Nat, n \in S PROVE n + 1 \in S
  <2> SUFFICES ASSUME NEW F \in SUBSET (a..a + (n + 1)), F # {}
               PROVE  \E x \in F : \A y \in F : x >= y
    OBVIOUS
  <2>1. CASE a + (n + 1) \in F
    BY <2>1
  <2>2. CASE a + (n + 1) \notin F
    <3>1. F \in SUBSET (a..a + n)
      BY <2>2
    <3> QED BY <3>1, <1>2
  <2> QED BY <2>1, <2>2
<1>3. b - a \in Nat
  <2>1. PICK e \in E : TRUE
    OBVIOUS
  <2>2. e \in a..b
    OBVIOUS
  <2> QED BY <2>2
<1>4. b - a \in S
  <2> HIDE DEF S
  <2> QED BY <1>1, <1>2, <1>3, FromZero
<1>5. a + (b - a) = b
  OBVIOUS
<1>6. \E x \in E : \A y \in E : x >= y
  BY <1>4, <1>5
<1> QED BY <1>6 DEF Max

\* The length of a sequence written as a function.
LEMMA Long ==
  ASSUME NEW n \in Nat, NEW q, DOMAIN q = 1..n
  PROVE  Len(q) = n
OBVIOUS
LEMMA Short ==
  ASSUME NEW n \in Int, n < 0, NEW q, DOMAIN q = 1..n
  PROVE  Len(q) = 0
<1>1. 1..n = 1..0
  OBVIOUS
<1> QED BY <1>1, Long

\* Where the instructions of a group of stores start.
IsSeq(q) == \E T : q \in Seq(T)
StartTurn(c, j, x, ks, k) == IF k >= Last(ks) + StoresAt(c, Last(ks), j) THEN Append(ks, k) ELSE ks
SeqAlong(c, d, x, base, K) == IsSeq(K)
StartWalk == INSTANCE X87Walk_proofs WITH Turn <- StartTurn, Kept <- SeqAlong

LEMMA Appends ==
  ASSUME NEW q, IsSeq(q), NEW e
  PROVE  IsSeq(Append(q, e)) /\ Len(q) \in Nat
<1>1. PICK T : q \in Seq(T)
  BY DEF IsSeq
<1>2. Append(q, e) \in Seq(T \cup {e})
  BY <1>1
<1> QED BY <1>1, <1>2 DEF IsSeq

LEMMA StartsCounted ==
  ASSUME NEW c, NEW i \in Int, NEW j \in Int
  PROVE  Len(Starts(c, i, j)) \in Nat
<1> DEFINE q == [k \in 1..j - i |-> i + k]
<1>1. Len(q) \in Nat
  <2>1. DOMAIN q = 1..j - i /\ j - i \in Int
    OBVIOUS
  <2> HIDE DEF q
  <2>2. CASE j - i >= 0
    <3>1. Len(q) = j - i
      <4>1. j - i \in Nat
        BY <2>2
      <4> QED BY <2>1, <4>1, Long
    <3> QED BY <2>1, <2>2, <3>1
  <2>3. CASE j - i < 0
    <3>1. Len(q) = 0
      BY <2>1, <2>3, Short
    <3> QED BY <3>1
  <2>4. j - i >= 0 \/ j - i < 0
    OBVIOUS
  <2> QED BY <2>2, <2>3, <2>4
<1>2. \A n \in 1..Len(q) : \A K : SeqAlong(c, j, 0, <<i>>, K)
                                    => SeqAlong(c, j, 0, <<i>>, StartTurn(c, j, 0, K, q[n]))
  BY Appends DEF SeqAlong, StartTurn
<1>3. SeqAlong(c, j, 0, <<i>>, <<i>>)
  <2>1. <<i>> \in Seq(Int)
    OBVIOUS
  <2> QED BY <2>1 DEF SeqAlong, IsSeq
<1>4. SeqAlong(c, j, 0, <<i>>, StartWalk!Through(c, j, 0, <<i>>, q))
  <2> HIDE DEF SeqAlong, StartTurn, q
  <2> QED BY <1>1, <1>2, <1>3, Induction, StartWalk!WalkKeeps
<1>5. StartWalk!Through(c, j, 0, <<i>>, q) = Starts(c, i, j)
  BY DEF StartWalk!Through, StartWalk!Walk, Walk, StartTurn, Starts
<1> QED BY <1>4, <1>5, Appends DEF SeqAlong

\* One instruction of the group, and then all.
GroupTurn(o, v, x, K, m) == StoreAfter(o, v, K, m)
GroupWalk == INSTANCE X87Walk_proofs WITH Turn <- GroupTurn, Kept <- KeptAlong
RunTurn(c, j, v, K, k) == StoreGroup(c, j, v, K, k)
RunWalk == INSTANCE X87Walk_proofs WITH Turn <- RunTurn, Kept <- KeptAlong

LEMMA GroupKeeps ==
  ASSUME NEW c, NEW j, NEW v, NEW L, NEW k
  PROVE  Keeps(L, StoreGroup(c, j, v, L, k))
<1> DEFINE q == [m \in 1..StoresAt(c, k, j) |-> m - 1]
           o == NodeAt(c, k).arg
<1>1. Len(q) \in Nat
  <2>1. StoresAt(c, k, j) \in Nat
    BY DEF StoresAt
  <2> QED BY <2>1, Long
<1>2. \A n \in 1..Len(q) : \A K :
        KeptAlong(o, v, 0, L, K) => KeptAlong(o, v, 0, L, GroupTurn(o, v, 0, K, q[n]))
  <2>1. \A K, m : Keeps(K, StoreAfter(o, v, K, m))
    BY GuestKeeps DEF StoreAfter
  <2> HIDE DEF q, o
  <2> QED BY <2>1, KeepsThrough DEF KeptAlong, GroupTurn
<1>3. KeptAlong(o, v, 0, L, L)
  BY DEF KeptAlong, Keeps
<1>4. KeptAlong(o, v, 0, L, GroupWalk!Through(o, v, 0, L, q))
  <2> HIDE DEF KeptAlong, GroupTurn, q, o
  <2> QED BY <1>1, <1>2, <1>3, Induction, GroupWalk!WalkKeeps
<1>5. GroupWalk!Through(o, v, 0, L, q) = StoreGroup(c, j, v, L, k)
  BY DEF GroupWalk!Through, GroupWalk!Walk, Walk, GroupTurn, StoreGroup
<1> QED BY <1>4, <1>5 DEF KeptAlong

LEMMA StoreRunKeeps ==
  ASSUME NEW c, NEW i \in Int, NEW j \in Int, NEW v, NEW L
  PROVE  Keeps(L, StoreRun(c, i, j, v, L))
<1> DEFINE q == Starts(c, i, j)
<1>1. Len(q) \in Nat
  BY StartsCounted
<1>2. \A n \in 1..Len(q) : \A K :
        KeptAlong(c, j, v, L, K) => KeptAlong(c, j, v, L, RunTurn(c, j, v, K, q[n]))
  BY GroupKeeps, KeepsThrough DEF KeptAlong, RunTurn
<1>3. KeptAlong(c, j, v, L, L)
  BY DEF KeptAlong, Keeps
<1>4. KeptAlong(c, j, v, L, RunWalk!Through(c, j, v, L, q))
  <2> HIDE DEF KeptAlong, RunTurn, q
  <2> QED BY <1>1, <1>2, <1>3, Induction, RunWalk!WalkKeeps
<1>5. RunWalk!Through(c, j, v, L, q) = StoreRun(c, i, j, v, L)
  BY DEF RunWalk!Through, RunWalk!Walk, Walk, RunTurn, StoreRun
<1> QED BY <1>4, <1>5 DEF KeptAlong

\* The last of the stores of one value.
LEMMA GroupEnds ==
  ASSUME NEW c, Len(c.nodes) \in Nat, NEW i \in Ids(c),
         NodeAt(c, i).op = "StoreF32", ~Dead(NodeAt(c, i))
  PROVE  GroupEnd(c, i) \in Int
<1> DEFINE Same(j) == NodeAt(c, j).op = "StoreF32" /\ ~Dead(NodeAt(c, j))
                        /\ NodeAt(c, j).in[1] = NodeAt(c, i).in[1]
           E == {j \in i..Newest(c) : \A k \in i..j : Same(k)}
<1>1. i \in Int /\ Newest(c) \in Int /\ i <= Newest(c)
  BY DEF Ids, Newest
<1>2. i \in E
  <2>1. Same(i) /\ \A k \in i..i : k = i
    BY <1>1
  <2> HIDE DEF Same
  <2> QED BY <1>1, <2>1
<1>3. E \in SUBSET (i..Newest(c))
  OBVIOUS
<1>4. GroupEnd(c, i) = Max(E)
  BY DEF GroupEnd
<1> HIDE DEF E
<1> DEFINE b == Newest(c)
<1>5. Max(E) \in E
  <2>1. b \in Int /\ i \in Int /\ E # {} /\ E \in SUBSET (i..b)
    BY <1>1, <1>2, <1>3
  <2> HIDE DEF b
  <2> QED BY <2>1, Largest
<1>6. Max(E) \in i..b
  BY <1>3, <1>5
<1>7. \A x \in i..b : x \in Int
  <2> HIDE DEF b
  <2> QED OBVIOUS
<1> QED BY <1>4, <1>6, <1>7

LEMMA StoresKeep ==
  ASSUME NEW c, NEW L, Len(c.nodes) \in Nat, NEW i \in Ids(c), ~Dead(NodeAt(c, i))
  PROVE  /\ Keeps(L, lower_StoreF64(c, L, i)) /\ Keeps(L, lower_StoreI(c, L, i))
         /\ NodeAt(c, i).op = "StoreF32" => Keeps(L, lower_StoreF32(c, L, i))
<1>1. Keeps(L, lower_StoreF64(c, L, i))
  BY PoolsKeep, GuestKeeps, KeepsThrough DEF lower_StoreF64
<1>2. Keeps(L, lower_StoreI(c, L, i))
  <2> DEFINE K == IF "Truncate" \in NodeAt(c, i).flags THEN L ELSE emit_rc_preamble(L)
             Guard == free_fpr(alloc_free_fpr(Scratch(K, 2)), NextFpr(K))
  <2>1. Keeps(L, K)
    <3>1. Keeps(L, L)
      BY DEF Keeps
    <3> QED BY <3>1, PreambleKeeps
  <2>2. Keeps(L, Guard)
    <3> HIDE DEF K
    <3> QED BY <2>1, PoolsKeep, KeepsThrough
  <2>3. \E o, v : lower_StoreI(c, L, i) = StoreMem(Guard, o, v)
    BY DEF lower_StoreI
  <2> HIDE DEF Guard
  <2> QED BY <2>2, <2>3, GuestKeeps, KeepsThrough
<1>3. ASSUME NodeAt(c, i).op = "StoreF32" PROVE Keeps(L, lower_StoreF32(c, L, i))
  <2> DEFINE j == GroupEnd(c, i)
             v == StoreAs("StoreF32", Nearest, HeldInputs(c, L, i)[1])
             taken == alloc_free_fpr(L)
             broad == IF HasStrQ(c, i) THEN free_fpr(alloc_free_fpr(taken), NextFpr(taken)) ELSE taken
             M == StoreRun(c, i, j, v, Scratch(broad, 1))
  <2>1. i \in Int /\ j \in Int
    BY <1>3, GroupEnds DEF Ids
  <2>2. Keeps(L, Scratch(broad, 1))
    BY PoolsKeep, KeepsThrough
  <2>3. Keeps(L, M)
    <3> HIDE DEF j, v, broad
    <3> QED BY <2>1, <2>2, StoreRunKeeps, KeepsThrough
  <2>4. lower_StoreF32(c, L, i) = [free_fpr(M, NextFpr(L)) EXCEPT !.next = j]
    BY DEF lower_StoreF32
  <2> HIDE DEF M, j
  <2>5. Keeps(L, free_fpr(M, NextFpr(L)))
    BY <2>3, PoolsKeep, KeepsThrough
  <2>6. \A K : Keeps(K, [K EXCEPT !.next = j])
    BY DEF Keeps
  <2> QED BY <2>4, <2>5, <2>6, KeepsThrough
<1> QED BY <1>1, <1>2, <1>3

LEMMA EffectsKeep ==
  ASSUME NEW c, NEW L, NEW i
  PROVE  /\ Keeps(L, lower_compare(c, L, i)) /\ Keeps(L, lower_FStsw(c, L, i))
         /\ Keeps(L, lower_StoreCW(c, L, i)) /\ Keeps(L, lower_effect(c, L, i))
         /\ Keeps(L, lower_fma_reduce(c, L, i))
<1>1. Keeps(L, lower_compare(c, L, i))
  <2>1. \A K, x, y : Keeps(K, [K EXCEPT !.gprs = x, !.cmp = y])
    BY DEF Keeps
  <2>2. Keeps(L, Scratch(L, 4))
    BY PoolsKeep
  <2> QED BY <2>1, <2>2, GuestKeeps, KeepsThrough DEF lower_compare
<1>2. Keeps(L, lower_FStsw(c, L, i))
  <2>1. \A n : Keeps(L, WritePacked(L, n))
    <3> SUFFICES ASSUME NEW n PROVE Keeps(L, WritePacked(L, n))
      OBVIOUS
    <3>1. \A K, y : Keeps(K, [K EXCEPT !.cmp = y])
      BY DEF Keeps
    <3>2. \A y : Keeps(L, SetCc(Scratch(L, 1), y))
      BY PoolsKeep, GuestKeeps, KeepsThrough
    <3> QED BY <3>1, <3>2, PoolsKeep, KeepsThrough DEF WritePacked
  <2> DEFINE W == IF "FcomFused" \in NodeAt(c, i).flags THEN WritePacked(L, NodeAt(c, i).in[1]) ELSE L
  <2>2. Keeps(L, W)
    <3>1. Keeps(L, L)
      BY DEF Keeps
    <3> QED BY <2>1, <3>1
  <2>3. \E n, o, v : lower_FStsw(c, L, i) = SetReg(Scratch(W, n), o, v)
    BY DEF lower_FStsw
  <2> HIDE DEF W
  <2> QED BY <2>2, <2>3, PoolsKeep, GuestKeeps, KeepsThrough
<1>3. Keeps(L, lower_StoreCW(c, L, i))
  <2> DEFINE W == Effect(Scratch(L, 2), "StoreCW", NoInputs, <<>>, NodeAt(c, i).arg, {})
  <2>1. Keeps(L, W)
    BY PoolsKeep, EffectKeeps, KeepsThrough
  <2>2. lower_StoreCW(c, L, i) = IF W.rc.on THEN [W EXCEPT !.rc.valid = TRUE, !.rc.v = RC(W.cw)] ELSE W
    BY DEF lower_StoreCW
  <2> HIDE DEF W
  <2>3. Keeps(W, lower_StoreCW(c, L, i))
    BY <2>2 DEF Keeps
  <2> QED BY <2>1, <2>3, KeepsThrough
<1>4. Keeps(L, lower_effect(c, L, i))
  BY PoolsKeep, EffectKeeps, KeepsThrough DEF lower_effect
<1>5. Keeps(L, lower_fma_reduce(c, L, i))
  <2> DEFINE three == alloc_free_fpr(alloc_free_fpr(alloc_free_fpr(Scratch(L, 1))))
  <2>1. Keeps(L, three)
    BY PoolsKeep, KeepsThrough
  <2>2. \E n, r, v, x : lower_fma_reduce(c, L, i) = Into([three EXCEPT !.fprs = x], n, r, v)
    BY Zenon DEF lower_fma_reduce
  <2> HIDE DEF three
  <2>3. \A x : Keeps(three, [three EXCEPT !.fprs = x])
    BY DEF Keeps
  <2> QED BY <2>1, <2>2, <2>3, IntoKeeps, KeepsThrough
<1> QED BY <1>1, <1>2, <1>3, <1>4, <1>5

LEMMA NodeKeeps ==
  ASSUME NEW c, NEW L, Len(c.nodes) \in Nat, NEW i \in Ids(c), ~Dead(NodeAt(c, i))
  PROVE  Keeps(L, lower_node(c, L, i))
<1> DEFINE op == NodeAt(c, i).op
<1>1. ASSUME op \in Cores PROVE Keeps(L, lower_core(c, L, i))
  BY <1>1, CoreKeeps
<1>2. op = "StoreF32" => Keeps(L, lower_StoreF32(c, L, i))
  BY StoresKeep
<1>3. /\ Keeps(L, lower_StoreF64(c, L, i)) /\ Keeps(L, lower_StoreI(c, L, i))
      /\ Keeps(L, lower_ReadSt(c, L, i)) /\ Keeps(L, lower_Load(c, L, i))
      /\ Keeps(L, lower_Const(c, L, i)) /\ Keeps(L, lower_arith(c, L, i))
      /\ Keeps(L, lower_FCSel(c, L, i)) /\ Keeps(L, lower_FRndInt(c, L, i))
      /\ Keeps(L, lower_compare(c, L, i)) /\ Keeps(L, lower_FStsw(c, L, i))
      /\ Keeps(L, lower_StoreCW(c, L, i)) /\ Keeps(L, lower_effect(c, L, i))
      /\ Keeps(L, lower_fma_reduce(c, L, i))
  BY StoresKeep, ValuesKeep, EffectsKeep
<1> QED BY <1>1, <1>2, <1>3 DEF lower_node, Cores

\* The walk over the nodes.
NodeTurn(c, d, x, K, i) ==
  IF i < K.next \/ Dead(NodeAt(c, i))
       \/ (Member(NodeAt(c, i)) /\ "Head" \notin NodeAt(c, i).flags) THEN K
  ELSE LET D == lower_node(c, [K EXCEPT !.next = i], i)
       IN  [free_dead_inputs(c, D, D.next) EXCEPT !.next = D.next + 1]
NodeWalk == INSTANCE X87Walk_proofs WITH Turn <- NodeTurn, Kept <- KeptAlong

LEMMA NodesKeep ==
  ASSUME NEW c, NEW L, Len(c.nodes) \in Nat
  PROVE  Keeps(L, lower_nodes(c, L))
<1> DEFINE q == Ascending(c)
<1>1. Len(q) \in Nat /\ \A n \in 1..Len(q) : q[n] \in Ids(c)
  <2>1. DOMAIN q = 1..Len(c.nodes)
    BY DEF Ascending
  <2>2. Len(q) = Len(c.nodes)
    <3> HIDE DEF q
    <3> QED BY <2>1, Long
  <2>3. \A n \in 1..Len(c.nodes) : q[n] = n - 1 /\ n - 1 \in 0..Len(c.nodes) - 1
    BY DEF Ascending
  <2> HIDE DEF q
  <2> QED BY <2>2, <2>3 DEF Ids
<1>2. ASSUME NEW K, NEW i \in Ids(c) PROVE Keeps(K, NodeTurn(c, 0, 0, K, i))
  <2> DEFINE B == [K EXCEPT !.next = i]
             D == lower_node(c, B, i)
             F == free_dead_inputs(c, D, D.next)
             E == [F EXCEPT !.next = D.next + 1]
  <2>1. \A J, n : Keeps(J, [J EXCEPT !.next = n])
    BY DEF Keeps
  <2>2. CASE Dead(NodeAt(c, i))
    BY <2>2 DEF NodeTurn, Keeps
  <2>3. CASE ~Dead(NodeAt(c, i))
    <3>1. Keeps(K, B)
      BY <2>1
    <3>2. Keeps(B, D)
      <4> HIDE DEF B
      <4> QED BY <2>3, NodeKeeps
    <3>3. Keeps(D, F)
      <4> HIDE DEF D
      <4> QED BY FreedKeeps
    <3>4. Keeps(F, E)
      <4> HIDE DEF F, D
      <4> QED BY <2>1
    <3>5. NodeTurn(c, 0, 0, K, i) \in {K, E}
      BY DEF NodeTurn
    <3>6. Keeps(K, K)
      BY DEF Keeps
    <3> HIDE DEF B, D, F, E
    <3> QED BY <3>1, <3>2, <3>3, <3>4, <3>5, <3>6, KeepsThrough
  <2> QED BY <2>2, <2>3
<1>3. \A n \in 1..Len(q) : \A K :
        KeptAlong(c, 0, 0, L, K) => KeptAlong(c, 0, 0, L, NodeTurn(c, 0, 0, K, q[n]))
  <2> HIDE DEF q
  <2> QED BY <1>1, <1>2, KeepsThrough DEF KeptAlong
<1>4. KeptAlong(c, 0, 0, L, L)
  BY DEF KeptAlong, Keeps
<1>5. KeptAlong(c, 0, 0, L, NodeWalk!Through(c, 0, 0, L, q))
  <2> HIDE DEF KeptAlong, NodeTurn, q
  <2> QED BY <1>1, <1>3, <1>4, Induction, NodeWalk!WalkKeeps
<1>6. NodeWalk!Through(c, 0, 0, L, q) = lower_nodes(c, L)
  BY DEF NodeWalk!Through, NodeWalk!Walk, Walk, NodeTurn, lower_nodes
<1> QED BY <1>5, <1>6 DEF KeptAlong

\* What is left at the end of the walk.
FinalTurn(c, d, x, K, e) ==
  IF c.val[e] < 0 \/ get(K, c.val[e]) = NoReg
       \/ (NodeAt(c, c.val[e]).op = "ReadSt" /\ NodeAt(c, c.val[e]).arg = e + c.delta)
  THEN K ELSE emit_store_st(K, e, Held(K, c.val[e]))
FinalWalk == INSTANCE X87Walk_proofs WITH Turn <- FinalTurn, Kept <- KeptAlong

LEMMA StackKeeps ==
  ASSUME NEW c, NEW L
  PROVE  Keeps(L, store_stack(c, L))
<1> DEFINE q == [k \in 1..NSlots |-> k - 1]
<1>1. Len(q) \in Nat
  <2>1. DOMAIN q = 1..NSlots /\ NSlots \in Nat
    BY NSlotsAssumption
  <2> HIDE DEF q
  <2> QED BY <2>1, Long
<1>2. \A K, e : Keeps(K, FinalTurn(c, 0, 0, K, e))
  BY CacheKeeps DEF FinalTurn, Keeps
<1>3. \A n \in 1..Len(q) : \A K :
        KeptAlong(c, 0, 0, L, K) => KeptAlong(c, 0, 0, L, FinalTurn(c, 0, 0, K, q[n]))
  BY <1>2, KeepsThrough DEF KeptAlong
<1>4. KeptAlong(c, 0, 0, L, L)
  BY DEF KeptAlong, Keeps
<1>5. KeptAlong(c, 0, 0, L, FinalWalk!Through(c, 0, 0, L, q))
  <2> HIDE DEF KeptAlong, FinalTurn, q
  <2> QED BY <1>1, <1>3, <1>4, Induction, FinalWalk!WalkKeeps
<1>6. FinalWalk!Through(c, 0, 0, L, q) = store_stack(c, L)
  BY DEF FinalWalk!Through, FinalWalk!Walk, Walk, FinalTurn, store_stack
<1> QED BY <1>5, <1>6 DEF KeptAlong

LEMMA TagsKeep ==
  ASSUME NEW c, NEW L
  PROVE  Keeps(L, update_tags(c, L))
<1> DEFINE B == [emit_store_top(L) EXCEPT !.gprs = @ \cup {StPlace}, !.sb = FALSE]
           T == Scratch(B, 2)
<1>1. Keeps(L, T)
  <2>1. \A K, x : Keeps(K, [K EXCEPT !.gprs = x, !.sb = FALSE])
    BY DEF Keeps
  <2>2. Keeps(L, B)
    BY <2>1, CacheKeeps, KeepsThrough
  <2> HIDE DEF B
  <2> QED BY <2>2, PoolsKeep, KeepsThrough
<1>2. update_tags(c, L) \in {L, emit_x87_tag_set_empty_batch(T, c.delta),
                             emit_x87_tag_set_valid_batch(T, -c.delta)}
  BY DEF update_tags
<1>3. Keeps(L, L)
  BY DEF Keeps
<1> HIDE DEF T
<1>4. \A n : Keeps(T, emit_x87_tag_set_empty_batch(T, n)) /\ Keeps(T, emit_x87_tag_set_valid_batch(T, n))
  BY CacheKeeps
<1>5. \A n : Keeps(L, emit_x87_tag_set_empty_batch(T, n)) /\ Keeps(L, emit_x87_tag_set_valid_batch(T, n))
  BY <1>1, <1>4, KeepsThrough
<1> QED BY <1>2, <1>3, <1>5

LEMMA ReleaseKeeps ==
  ASSUME NEW L
  PROVE  Keeps(L, release(L))
<1>1. \A K, x, y : Keeps(K, [K EXCEPT !.fprs = x, !.gprs = y, !.td = FALSE, !.tpp = FALSE, !.dpc = 0])
  BY DEF Keeps
<1> QED BY <1>1, CacheKeeps, KeepsThrough DEF release

LEMMA BeginKeeps ==
  ASSUME NEW L
  PROVE  Keeps(L, begin_ir(L)) /\ Keeps(L, flush_incoming(L))
<1>0. Keeps(L, L) /\ \A K : Keeps(K, [K EXCEPT !.sb = TRUE])
  BY DEF Keeps
<1>1. Keeps(L, begin_ir(L))
  <2> DEFINE base == IF L.gv THEN L ELSE alloc_gpr(alloc_gpr(L, 0), 1)
             mine == IF L.gv /\ L.sb THEN base ELSE alloc_gpr(base, StPlace)
  <2>1. Keeps(L, base)
    BY <1>0, PoolsKeep, KeepsThrough
  <2>2. Keeps(L, mine)
    <3> HIDE DEF base
    <3> QED BY <2>1, PoolsKeep, KeepsThrough
  <2>3. begin_ir(L) = [x87_begin(mine) EXCEPT !.sb = TRUE]
    BY DEF begin_ir
  <2> HIDE DEF mine
  <2> QED BY <1>0, <2>2, <2>3, CacheKeeps, KeepsThrough
<1>2. Keeps(L, flush_incoming(L))
  <2> DEFINE T0 == IF L.tpp THEN Scratch(L, 1) ELSE L
             T1 == x87_flush_pending_tag(T0)
             T2 == IF T1.dpc > 0 THEN Scratch(T1, 2) ELSE T1
             T3 == x87_flush_deferred_pops(T2)
             T4 == IF T3.pd /\ Cardinality(T3.fprs) < 2 THEN Starve(T3) ELSE T3
  <2>1. Keeps(L, T0)
    BY <1>0, PoolsKeep
  <2>2. Keeps(L, T1)
    <3> HIDE DEF T0
    <3> QED BY <2>1, FlushesKeep, KeepsThrough
  <2>3. Keeps(L, T2)
    <3> HIDE DEF T1
    <3> QED BY <2>2, PoolsKeep, KeepsThrough
  <2>4. Keeps(L, T3)
    <3> HIDE DEF T2
    <3> QED BY <2>3, FlushesKeep, KeepsThrough
  <2>5. Keeps(L, T4)
    <3> HIDE DEF T3
    <3> QED BY <2>4, PoolsKeep, KeepsThrough
  <2>6. flush_incoming(L) = perm_flush_before_stack_change(T4)
    BY DEF flush_incoming
  <2> HIDE DEF T4
  <2> QED BY <2>5, <2>6, FlushesKeep, KeepsThrough
<1> QED BY <1>1, <1>2

\* The code of a run leaves the run cache its run.
LEMMA LowerKeeps ==
  ASSUME NEW c, NEW L, Len(c.nodes) \in Nat, "nodes" \in DOMAIN c
  PROVE  Keeps(L, lower(c, L))
<1> DEFINE begun == flush_incoming(alloc_gpr(begin_ir(L), TmpPlace))
           begun2 == IF CachesRc(c) THEN alloc_gpr(begun, RcPlace) ELSE begun
           ready(x, y) == [begun2 EXCEPT !.node = x, !.cmp = <<>>, !.name = <<>>, !.next = 0, !.rc = y]
           uses  == compute_last_uses(c)
<1>1. Keeps(L, begun)
  BY BeginKeeps, PoolsKeep, KeepsThrough
<1>2. Keeps(L, begun2)
  <2> HIDE DEF begun
  <2> QED BY <1>1, PoolsKeep, KeepsThrough
<1>3. \A x, y : Keeps(L, ready(x, y))
  <2> HIDE DEF begun2
  <2>1. \A x, y : Keeps(begun2, ready(x, y))
    BY DEF Keeps
  <2> QED BY <1>2, <2>1, KeepsThrough
<1>4. Len(uses.nodes) \in Nat
  BY DEF compute_last_uses
<1>5. PICK x, y : lower(c, L) = LET done  == lower_nodes(uses, ready(x, y))
                                    moved == [done EXCEPT !.w = Shift(@, c.delta)]
                                IN  release(update_tags(c, store_stack(c, moved)))
  BY Zenon DEF lower
<1> DEFINE done  == lower_nodes(uses, ready(x, y))
           moved == [done EXCEPT !.w = Shift(@, c.delta)]
<1>6. Keeps(L, done)
  <2> HIDE DEF uses, ready
  <2> QED BY <1>3, <1>4, NodesKeep, KeepsThrough
<1>7. Keeps(L, moved)
  <2> HIDE DEF done
  <2>1. Keeps(done, moved)
    BY DEF Keeps
  <2> QED BY <1>6, <2>1, KeepsThrough
<1>8. lower(c, L) = release(update_tags(c, store_stack(c, moved)))
  BY <1>5
<1> HIDE DEF moved
<1> QED BY <1>7, <1>8, StackKeeps, TagsKeep, ReleaseKeeps, KeepsThrough

-----------------------------------------------------------------------------
(* The emitter of one instruction *)

LEMMA StackOpsKeep ==
  ASSUME NEW S, NEW d, NEW v
  PROVE  /\ Keeps(S, SetSt(S, d, v)) /\ Keeps(S, x87_push(S)) /\ Keeps(S, x87_pop(S))
         /\ Keeps(S, x87_pop_n(S, d)) /\ Keeps(S, x87_end(S, d))
<1>1. Keeps(S, SetSt(S, d, v))
  BY CacheKeeps DEF SetSt
<1>2. Keeps(S, S)
  BY DEF Keeps
<1>3. Keeps(S, x87_end(S, d))
  BY <1>2, FlushesKeep, KeepsThrough DEF x87_end
<1>4. \A K, x, y, z : /\ Keeps(K, [K EXCEPT !.td = x]) /\ Keeps(K, [K EXCEPT !.tpp = y, !.td = x])
                      /\ Keeps(K, [K EXCEPT !.td = x, !.tpp = y])
                      /\ Keeps(K, [K EXCEPT !.dpc = z, !.td = x])
  BY DEF Keeps
<1>5. \A K, n : /\ Keeps(K, emit_x87_push(K)) /\ Keeps(K, emit_x87_push_fully_deferred(K))
                /\ Keeps(K, emit_x87_pop_top_only(K)) /\ Keeps(K, emit_x87_pop(K))
                /\ Keeps(K, emit_x87_pop_n_deferred(K, n)) /\ Keeps(K, emit_x87_pop_n(K, n))
  BY DEF Keeps, emit_x87_push, emit_x87_push_fully_deferred, emit_x87_pop_top_only, emit_x87_pop,
     emit_x87_pop_n_deferred, emit_x87_pop_n, emit_x87_tag_clear, emit_store_top
<1>6. Keeps(S, x87_push(S))
  <2> DEFINE F == perm_flush_before_stack_change(x87_flush_top(
                    x87_flush_deferred_pops(x87_flush_pending_tag(S))))
  <2>1. Keeps(S, F)
    BY FlushesKeep, KeepsThrough
  <2>2. x87_push(S) \in {[emit_x87_push_fully_deferred(F) EXCEPT !.td = TRUE, !.tpp = TRUE],
                         emit_x87_push(S)}
    BY DEF x87_push
  <2> HIDE DEF F
  <2>3. Keeps(S, [emit_x87_push_fully_deferred(F) EXCEPT !.td = TRUE, !.tpp = TRUE])
    BY <2>1, <1>4, <1>5, KeepsThrough
  <2> QED BY <2>2, <2>3, <1>5
<1>7. Keeps(S, x87_pop(S))
  <2> DEFINE F == emit_x87_pop_top_only(perm_flush_before_stack_change(S))
  <2>1. Keeps(S, F)
    BY <1>5, FlushesKeep, KeepsThrough
  <2>2. x87_pop(S) \in {[F EXCEPT !.tpp = FALSE, !.td = FALSE],
                        [emit_store_top(F) EXCEPT !.tpp = FALSE, !.td = FALSE],
                        [F EXCEPT !.dpc = S.dpc + 1, !.td = TRUE],
                        [emit_x87_pop(S) EXCEPT !.td = FALSE]}
    BY DEF x87_pop
  <2> HIDE DEF F
  <2>3. Keeps(S, [F EXCEPT !.tpp = FALSE, !.td = FALSE])
    BY <2>1, <1>4, KeepsThrough
  <2>4. Keeps(S, [emit_store_top(F) EXCEPT !.tpp = FALSE, !.td = FALSE])
    BY <2>1, <1>4, CacheKeeps, KeepsThrough
  <2>5. Keeps(S, [F EXCEPT !.dpc = S.dpc + 1, !.td = TRUE])
    BY <2>1, <1>4, KeepsThrough
  <2>6. Keeps(S, [emit_x87_pop(S) EXCEPT !.td = FALSE])
    BY <1>4, <1>5, KeepsThrough
  <2> QED BY <2>2, <2>3, <2>4, <2>5, <2>6
<1>8. Keeps(S, x87_pop_n(S, d))
  <2> DEFINE F == x87_flush_tags(S)
             G == emit_x87_pop_n_deferred(perm_flush_before_stack_change(F), d)
  <2>1. Keeps(S, F)
    BY FlushesKeep
  <2>2. Keeps(S, G)
    <3> HIDE DEF F
    <3> QED BY <2>1, <1>5, FlushesKeep, KeepsThrough
  <2>3. x87_pop_n(S, d) \in {[G EXCEPT !.td = TRUE], [emit_x87_pop_n(F, d) EXCEPT !.td = FALSE]}
    BY DEF x87_pop_n
  <2> HIDE DEF F, G
  <2>4. Keeps(S, [G EXCEPT !.td = TRUE])
    BY <2>2, <1>4, KeepsThrough
  <2>5. Keeps(S, [emit_x87_pop_n(F, d) EXCEPT !.td = FALSE])
    BY <2>1, <1>4, <1>5, KeepsThrough
  <2> QED BY <2>3, <2>4, <2>5
<1> QED BY <1>1, <1>3, <1>6, <1>7, <1>8

LEMMA HandlersKeep ==
  ASSUME NEW S, NEW i, NEW v, NEW w
  PROVE  /\ Keeps(S, PushValue(S, v)) /\ Keeps(S, Apply(S, i, v)) /\ Keeps(S, ApplyPop(S, i, v))
         /\ Keeps(S, PushSecond(S, v)) /\ Keeps(S, CopySt(S, i)) /\ Keeps(S, translate_fxch(S, i))
         /\ Keeps(S, translate_fstsw(S)) /\ Keeps(S, IntoMem(S, i, v)) /\ Keeps(S, Popped(S, w))
         /\ Keeps(S, Compared1(S, i, v)) /\ Keeps(S, emit_fcomi_nzcv(S, i))
<1>0. \A K : Keeps(K, K)
  BY DEF Keeps
<1>1. Keeps(S, PushValue(S, v)) /\ Keeps(S, Apply(S, i, v)) /\ Keeps(S, ApplyPop(S, i, v))
  BY StackOpsKeep, KeepsThrough DEF PushValue, Apply, ApplyPop
<1>2. Keeps(S, PushSecond(S, v))
  BY StackOpsKeep, CacheKeeps, KeepsThrough DEF PushSecond
<1>3. Keeps(S, CopySt(S, i))
  BY <1>0, StackOpsKeep DEF CopySt
<1>4. Keeps(S, translate_fxch(S, i))
  <2> DEFINE B == Start(S)
  <2>1. Keeps(S, B)
    <3>1. \A K : Keeps(K, [K EXCEPT !.out = NoVal])
      BY DEF Keeps
    <3> QED BY <3>1, CacheKeeps, KeepsThrough DEF Start, Give
  <2> DEFINE M == IF i = 0 THEN B
          ELSE IF B.run > 0 /\ DeferFxch
          THEN [B EXCEPT !.perm = swap(@, 0, i), !.pd = TRUE]
          ELSE [B EXCEPT !.st = swap(@, Phys(B.w, 0), Phys(B.w, i))]
  <2>2. translate_fxch(S, i) = x87_end(M, 1)
    BY DEF translate_fxch
  <2>3. Keeps(S, M)
    <3> HIDE DEF B
    <3>1. Keeps(B, [B EXCEPT !.perm = swap(@, 0, i), !.pd = TRUE])
      BY DEF Keeps
    <3>2. Keeps(B, [B EXCEPT !.st = swap(@, Phys(B.w, 0), Phys(B.w, i))])
      BY DEF Keeps
    <3>3. M \in {B, [B EXCEPT !.perm = swap(@, 0, i), !.pd = TRUE],
                 [B EXCEPT !.st = swap(@, Phys(B.w, 0), Phys(B.w, i))]}
      OBVIOUS
    <3>4. Keeps(B, M)
      <4> HIDE DEF M
      <4> QED BY <3>1, <3>2, <3>3, <1>0
    <3> HIDE DEF M
    <3> QED BY <2>1, <3>4, KeepsThrough
  <2> HIDE DEF M
  <2> QED BY <2>2, <2>3, StackOpsKeep, KeepsThrough
<1>5. Keeps(S, translate_fstsw(S))
  <2> DEFINE F == IF S.run > 0 /\ S.gv THEN x87_flush_tags(x87_flush_top(S)) ELSE S
  <2>1. Keeps(S, F)
    BY <1>0, FlushesKeep, KeepsThrough
  <2>2. translate_fstsw(S) = Give(F, <<F.top, F.cc>>)
    BY DEF translate_fstsw
  <2> HIDE DEF F
  <2>3. Keeps(F, Give(F, <<F.top, F.cc>>))
    BY DEF Keeps, Give
  <2> QED BY <2>1, <2>2, <2>3, KeepsThrough
<1>6. Keeps(S, IntoMem(S, i, v))
  BY StackOpsKeep, GuestKeeps, KeepsThrough DEF IntoMem
<1>7. \A K, n : Keeps(K, Popped(K, n))
  BY <1>0, StackOpsKeep DEF Popped
<1>8. Keeps(S, Compared1(S, i, v))
  <2>1. \A c : Keeps(S, emit_fcom_cc_write_sw(S, c))
    BY DEF Keeps, emit_fcom_cc_write_sw
  <2> QED BY <1>7, <2>1, StackOpsKeep, KeepsThrough DEF Compared1
<1>9. Keeps(S, emit_fcomi_nzcv(S, i))
  <2> DEFINE N == SetFlags(S, CompareFlags(St(S, 0), St(S, i.i)))
  <2>1. Keeps(S, N)
    BY GuestKeeps
  <2>2. emit_fcomi_nzcv(S, i) = x87_end(IF i.pop THEN x87_pop(N) ELSE N, 1)
    BY DEF emit_fcomi_nzcv
  <2> HIDE DEF N
  <2>3. \A K : Keeps(K, x87_end(IF i.pop THEN x87_pop(K) ELSE K, 1))
    BY StackOpsKeep, KeepsThrough
  <2>4. Keeps(N, emit_fcomi_nzcv(S, i))
    BY <2>2, <2>3
  <2> QED BY <2>1, <2>4, KeepsThrough
<1> QED BY <1>1, <1>2, <1>3, <1>4, <1>5, <1>6, <1>7, <1>8, <1>9

\* So does the emitter of any one instruction.
LEMMA TranslateOneKeeps ==
  ASSUME NEW S, NEW i
  PROVE  Keeps(S, translate_one(S, i))
<1> DEFINE B == [x87_begin(S) EXCEPT !.sb = S.run > 0]
<1>0. \A K : Keeps(K, K)
  BY DEF Keeps
<1>1. Keeps(S, B)
  <2> DEFINE C == x87_begin(S)
  <2>1. Keeps(S, C)
    BY CacheKeeps
  <2>2. B = [C EXCEPT !.sb = S.run > 0]
    OBVIOUS
  <2> HIDE DEF B, C
  <2>3. \A K, x : Keeps(K, [K EXCEPT !.sb = x])
    BY DEF Keeps
  <2>4. Keeps(C, B)
    BY <2>2, <2>3, Zenon
  <2> QED BY <2>1, <2>4, KeepsThrough
<1>2. /\ \A v : Keeps(B, PushValue(B, v)) /\ Keeps(B, PushSecond(B, v)) /\ Keeps(B, IntoMem(B, i, v))
      /\ \A v : Keeps(B, Compared1(B, i, v))
      /\ \A d, v : Keeps(B, Apply(B, d, v)) /\ Keeps(B, ApplyPop(B, d, v))
      /\ \A d : Keeps(B, translate_fxch(B, d)) /\ Keeps(B, CopySt(B, d))
      /\ Keeps(B, emit_fcomi_nzcv(B, i)) /\ Keeps(B, x87_end(B, 1))
  <2> HIDE DEF B
  <2> QED BY HandlersKeep, StackOpsKeep
<1> DEFINE T == x87_flush_top(x87_flush_tags(B))
<1>3. Keeps(B, T)
  <2> HIDE DEF B
  <2> QED BY FlushesKeep, KeepsThrough
<1>4. \A d : LET C == CopySt(B, d) IN Keeps(B, x87_end(IF i.pop THEN x87_pop(C) ELSE C, 1))
  <2> HIDE DEF B
  <2>1. \A K : Keeps(K, x87_end(IF i.pop THEN x87_pop(K) ELSE K, 1))
    BY StackOpsKeep, KeepsThrough
  <2> QED BY <1>2, <2>1, KeepsThrough
<1>5. \A d, v : Keeps(B, Apply(SetCc(B, Cleared), d, v))
  <2> HIDE DEF B
  <2> QED BY HandlersKeep, GuestKeeps, KeepsThrough
<1>6. \A d, v, x : Keeps(B, PushSecond(SetCc(SetSt(B, d, v), Cleared), x))
  <2> HIDE DEF B
  <2> QED BY HandlersKeep, StackOpsKeep, GuestKeeps, KeepsThrough
<1>7. \A j, v : Keeps(B, Compared1(T, j, v))
  <2> HIDE DEF B, T
  <2> QED BY <1>3, HandlersKeep, KeepsThrough
<1>8. \A v : Keeps(B, x87_end(IF Taken(i.cond, T.nz) THEN SetSt(T, 0, v) ELSE T, 1))
  <2> HIDE DEF B, T
  <2> QED BY <1>3, StackOpsKeep, KeepsThrough
<1>9. \A r, v : LET F == translate_fstsw(S) IN Keeps(S, SetReg(F, r, v))
  BY HandlersKeep, GuestKeeps, KeepsThrough
<1>10. \A v : Keeps(B, x87_end(SetCw(x87_flush_top(B), v), 1))
  <2> HIDE DEF B
  <2> QED BY FlushesKeep, StackOpsKeep, GuestKeeps, KeepsThrough
<1>11. \A o, v : Keeps(B, x87_end(StoreMem(B, o, v), 1))
  <2> HIDE DEF B
  <2> QED BY StackOpsKeep, GuestKeeps, KeepsThrough
<1>12. i.k = "fstsw" => Keeps(S, translate_one(S, i))
  BY <1>9 DEF translate_one
<1>13. i.k # "fstsw" => Keeps(B, translate_one(S, i))
  BY <1>2, <1>4, <1>5, <1>6, <1>7, <1>8, <1>10, <1>11 DEF translate_one
<1> HIDE DEF B
<1> QED BY <1>1, <1>12, <1>13, KeepsThrough

\* And an instruction that is not of the x87.
LEMMA StockKeeps ==
  ASSUME NEW S, NEW i, ~IsX87(i)
  PROVE  Keeps(S, P!Step(S, i))
<1>1. \A K, r, v : /\ Keeps(K, P!SetReg(K, r, v)) /\ Keeps(K, P!StoreMem(K, r, v))
                   /\ Keeps(K, P!SetFlags(K, v)) /\ Keeps(K, K)
  BY DEF Keeps, P!SetReg, P!StoreMem, P!SetFlags
<1>2. \A K, v : Keeps(K, P!WithFlags(i, v, K))
  BY <1>1 DEF P!WithFlags
<1>3. \A v : Keeps(S, P!AluReg(S, i, v)) /\ Keeps(S, P!AluMem(S, i, v))
  BY <1>1, <1>2, KeepsThrough DEF P!AluReg, P!AluMem
<1>4. P!Step(S, i) = P!IntegerStep(S, i)
  BY DEF IsX87, P!Step
<1> QED BY <1>1, <1>3, <1>4 DEF P!IntegerStep

-----------------------------------------------------------------------------
(* What holds of a context on the way to lower *)

\* Nodes know the instruction they come from, which no pass changes.
HasSrc(n)   == "src" \in DOMAIN n /\ n.src \in Nat
NodeList(q) == IsSeq(q) /\ \A k \in 1..Len(q) : HasSrc(q[k])
InOrder(c)  == {"nodes", "consumed", "ok"} \subseteq DOMAIN c /\ c.consumed \in Nat /\ NodeList(c.nodes)
\* From c to d nothing more has been built.
Grows(c, d) == InOrder(c) => InOrder(d) /\ d.consumed = c.consumed

LEMMA GrowsThrough ==
  ASSUME NEW c, NEW d, NEW e, Grows(c, d), Grows(d, e)
  PROVE  Grows(c, e)
BY DEF Grows
LEMMA GrowsSame ==
  ASSUME NEW c PROVE Grows(c, c)
BY DEF Grows

\* A sequence, by its length and its elements.
LEMMA SeqIs ==
  ASSUME NEW q, NEW n \in Nat, q = [k \in 1..n |-> q[k]]
  PROVE  IsSeq(q) /\ Len(q) = n /\ DOMAIN q = 1..n
<1> DEFINE T == {q[k] : k \in 1..n}
<1>1. DOMAIN q = 1..n
  OBVIOUS
<1>2. Len(q) = n
  BY <1>1, Long
<1>3. q \in [1..n -> T]
  <2>1. \A k \in 1..n : q[k] \in T
    OBVIOUS
  <2> HIDE DEF T
  <2> QED BY <2>1
<1>4. q \in Seq(T)
  <2> HIDE DEF T
  <2> QED BY <1>3
<1> QED BY <1>1, <1>2, <1>4 DEF IsSeq

LEMMA SeqHas ==
  ASSUME NEW q, IsSeq(q)
  PROVE  Len(q) \in Nat /\ DOMAIN q = 1..Len(q) /\ q = [k \in 1..Len(q) |-> q[k]]
<1> PICK T : q \in Seq(T)
  BY DEF IsSeq
<1> QED OBVIOUS

LEMMA ListGrows ==
  ASSUME NEW q, NodeList(q), NEW n
  PROVE  /\ HasSrc(n) => NodeList(Append(q, n))
         /\ \A k : HasSrc(n) => NodeList([q EXCEPT ![k] = n])
<1>0. PICK T : q \in Seq(T)
  BY DEF NodeList, IsSeq
<1>1. ASSUME HasSrc(n) PROVE NodeList(Append(q, n))
  <2>1. Append(q, n) \in Seq(T \cup {n}) /\ Len(Append(q, n)) = Len(q) + 1
    BY <1>0
  <2>2. \A k \in 1..Len(q) + 1 : Append(q, n)[k] = IF k <= Len(q) THEN q[k] ELSE n
    BY <1>0
  <2>3. \A k \in 1..Len(q) + 1 : k <= Len(q) => k \in 1..Len(q)
    OBVIOUS
  <2>4. \A k \in 1..Len(q) + 1 : HasSrc(Append(q, n)[k])
    BY <1>1, <2>2, <2>3 DEF NodeList
  <2> QED BY <2>1, <2>4 DEF NodeList, IsSeq
<1>2. ASSUME NEW k, HasSrc(n) PROVE NodeList([q EXCEPT ![k] = n])
  <2> DEFINE e == [q EXCEPT ![k] = n]
  <2>0. Len(q) \in Nat /\ DOMAIN q = 1..Len(q)
    BY <1>0
  <2>1. e = [j \in 1..Len(q) |-> e[j]]
    BY <2>0
  <2>2. \A j \in 1..Len(q) : e[j] = q[j] \/ e[j] = n
    BY <2>0
  <2> HIDE DEF e
  <2>3. IsSeq(e) /\ Len(e) = Len(q)
    BY <2>0, <2>1, SeqIs
  <2>4. \A j \in 1..Len(q) : HasSrc(e[j])
    BY <1>2, <2>2 DEF NodeList
  <2> QED BY <2>3, <2>4 DEF NodeList, e
<1> QED BY <1>1, <1>2

\* A row made of a list of nodes.
LEMMA RowList ==
  ASSUME NEW q, NodeList(q), NEW f, f = [k \in DOMAIN q |-> f[k]],
         \A k \in DOMAIN q : HasSrc(f[k])
  PROVE  NodeList(Row(f)) /\ Len(Row(f)) = Len(q)
<1>1. Len(q) \in Nat /\ DOMAIN q = 1..Len(q)
  BY SeqHas DEF NodeList
<1>2. IsSeq(f) /\ Len(f) = Len(q)
  BY <1>1, SeqIs
<1>3. Row(f) = f
  <2> PICK T : f \in Seq(T)
    BY <1>2 DEF IsSeq
  <2> QED BY DEF Row
<1> QED BY <1>1, <1>2, <1>3 DEF NodeList

-----------------------------------------------------------------------------
(* Building *)

LEMMA InitInOrder ==
  ASSUME NEW m
  PROVE  InOrder(InitContext(m)) /\ InitContext(m).consumed = 0
<1>1. IsSeq(<<>>) /\ Len(<<>>) = 0
  <2>1. <<>> \in Seq({})
    OBVIOUS
  <2> QED BY <2>1 DEF IsSeq
<1>2. NodeList(<<>>)
  BY <1>1 DEF NodeList
<1> QED BY <1>2 DEF InitContext, InOrder

LEMMA FieldsGrow ==
  ASSUME NEW c, NEW x, NEW y
  PROVE  /\ Grows(c, [c EXCEPT !.ok = x]) /\ Grows(c, [c EXCEPT !.val = x])
         /\ Grows(c, [c EXCEPT !.fcmp = x]) /\ Grows(c, [c EXCEPT !.fcomi = x])
         /\ Grows(c, [c EXCEPT !.read = x]) /\ Grows(c, [c EXCEPT !.x = x])
         /\ Grows(c, [c EXCEPT !.last = x]) /\ Grows(c, [c EXCEPT !.val = x, !.delta = y])
BY DEF Grows, InOrder

LEMMA AddGrows ==
  ASSUME NEW c, NEW op, NEW in, NEW arg, NEW flags
  PROVE  Grows(c, add_node(c, op, in, arg, flags)) /\ Grows(c, Fail(c))
<1>1. Grows(c, Fail(c))
  BY FieldsGrow DEF Fail
<1>2. ASSUME InOrder(c), NEW x, NEW v
      PROVE  LET n == [op |-> op, in |-> in, arg |-> arg, flags |-> flags, src |-> c.consumed, v |-> v]
             IN  Grows(c, [c EXCEPT !.nodes = Append(@, n), !.x = x])
  <2> DEFINE n == [op |-> op, in |-> in, arg |-> arg, flags |-> flags, src |-> c.consumed, v |-> v]
  <2>1. HasSrc(n)
    BY <1>2 DEF HasSrc, InOrder
  <2> HIDE DEF n
  <2>2. NodeList(Append(c.nodes, n))
    BY <1>2, <2>1, ListGrows DEF InOrder
  <2>3. \A y : NodeList(y) => Grows(c, [c EXCEPT !.nodes = y, !.x = x])
    BY DEF Grows, InOrder
  <2>4. Grows(c, [c EXCEPT !.nodes = Append(c.nodes, n), !.x = x])
    BY <2>2, <2>3
  <2> QED BY <2>4 DEF n
<1>3. Grows(c, add_node(c, op, in, arg, flags))
  <2> SUFFICES ASSUME InOrder(c) PROVE Grows(c, add_node(c, op, in, arg, flags))
    BY DEF Grows
  <2> DEFINE a == InputValues(c, in)
             new == [c EXCEPT !.nodes = Append(@, [op |-> op, in |-> in, arg |-> arg,
                                          flags |-> flags, src |-> c.consumed,
                                          v |-> Value(c.x, op, a, arg)]),
                     !.x = Effect(@, op, in, a, arg, flags)]
  <2>1. Grows(c, new)
    <3> HIDE DEF a
    <3> QED BY <1>2
  <2>2. add_node(c, op, in, arg, flags) \in {c, Fail(c), new}
    BY Zenon DEF add_node
  <2> HIDE DEF new
  <2> QED BY <1>1, <2>1, <2>2, GrowsSame
<1> QED BY <1>1, <1>3

LEMMA ResolveGrows ==
  ASSUME NEW c, NEW d
  PROVE  Grows(c, resolve(c, d)) /\ Grows(c, ThenResolve(c, d))
<1>1. Grows(c, resolve(c, d))
  <2> DEFINE init == -(c.val[d] + 1)
             b == [c EXCEPT !.ok = TRUE]
             r == add_node(b, "ReadSt", <<None, None, None>>, init, {})
  <2>1. Grows(c, r)
    <3>1. Grows(c, b)
      BY FieldsGrow
    <3> HIDE DEF b, init
    <3> QED BY <3>1, AddGrows, GrowsThrough
  <2>2. \A x, y, z : Grows(r, [r EXCEPT !.ok = x, !.read[init] = y, !.val[d] = z])
    <3> HIDE DEF r, init
    <3> QED BY DEF Grows, InOrder
  <2>3. \A x : Grows(c, [c EXCEPT !.val[d] = x])
    BY DEF Grows, InOrder
  <2> DEFINE e == [c EXCEPT !.val[d] = c.read[init]]
             f == [r EXCEPT !.ok = c.ok, !.read[init] = Newest(r), !.val[d] = Newest(r)]
  <2>4. resolve(c, d) \in {c, Fail(c), e, f}
    BY DEF resolve
  <2>5. Grows(c, e) /\ Grows(r, f)
    <3> HIDE DEF r, init
    <3> QED BY <2>2, <2>3
  <2> HIDE DEF r, e, f
  <2> QED BY <2>1, <2>4, <2>5, AddGrows, GrowsSame, GrowsThrough
<1> QED BY <1>1, GrowsSame DEF ThenResolve

LEMMA StackGrows ==
  ASSUME NEW c, NEW d, NEW q
  PROVE  /\ Grows(c, Place(c, d)) /\ Grows(c, push(c, d)) /\ Grows(c, pop(c))
         /\ Grows(c, pop_n(c, d)) /\ Grows(c, PopWhen(c, q)) /\ Grows(c, PushNewest(c))
         /\ Grows(c, Compared(c))
<1>1. \A b, n : Grows(b, push(b, n))
  BY FieldsGrow, GrowsSame DEF push
<1>2. \A b : Grows(b, pop(b))
  BY FieldsGrow, GrowsSame DEF pop
<1>3. Grows(c, Place(c, d))
  <2>1. \A x : Grows(c, [c EXCEPT !.val[d] = x])
    BY DEF Grows, InOrder
  <2> QED BY <2>1, GrowsSame DEF Place
<1>4. Grows(c, pop_n(c, d))
  BY <1>2, GrowsSame, GrowsThrough DEF pop_n
<1>5. Grows(c, PopWhen(c, q))
  BY <1>2, GrowsSame DEF PopWhen
<1>6. Grows(c, Compared(c))
  BY FieldsGrow, GrowsSame DEF Compared
<1> QED BY <1>1, <1>2, <1>3, <1>4, <1>5, <1>6 DEF PushNewest

\* The arms of the switch.
LEMMA MemoryGrows ==
  ASSUME NEW c, NEW w, NEW o, NEW n, NEW flags, NEW q
  PROVE  /\ Grows(c, build_load(c, w, o)) /\ Grows(c, build_store(c, w, o, n, flags))
         /\ Grows(c, build_const(c, n)) /\ Grows(c, build_fld(c, n)) /\ Grows(c, build_fldm(c, w, o))
         /\ Grows(c, build_fst(c, n, q)) /\ Grows(c, build_fstm(c, w, o, q, flags))
<1>1. Grows(c, build_load(c, w, o)) /\ \A b, m : Grows(b, build_store(b, w, o, m, flags))
  BY AddGrows DEF build_load, build_store
<1>2. Grows(c, build_const(c, n)) /\ Grows(c, build_fldm(c, w, o))
  BY <1>1, AddGrows, StackGrows, GrowsThrough DEF build_const, build_fldm
<1>3. Grows(c, build_fld(c, n))
  BY ResolveGrows, StackGrows, GrowsThrough DEF build_fld
<1>4. Grows(c, build_fst(c, n, q))
  <2> DEFINE r == resolve(c, 0)
             m == IF r.ok /\ n # 0 THEN [r EXCEPT !.val[n] = r.val[0]] ELSE r
  <2>1. Grows(c, r)
    BY ResolveGrows
  <2>2. Grows(r, m)
    <3> HIDE DEF r
    <3>1. \A x : Grows(r, [r EXCEPT !.val[n] = x])
      BY DEF Grows, InOrder
    <3> QED BY <3>1, GrowsSame
  <2>3. build_fst(c, n, q) = PopWhen(m, q)
    BY DEF build_fst
  <2> HIDE DEF r, m
  <2> QED BY <2>1, <2>2, <2>3, StackGrows, GrowsThrough
<1>5. Grows(c, build_fstm(c, w, o, q, flags))
  BY <1>1, ResolveGrows, StackGrows, GrowsThrough DEF build_fstm
<1> QED BY <1>1, <1>2, <1>3, <1>4, <1>5

LEMMA ArithmeticGrows ==
  ASSUME NEW c, NEW op, NEW rev, NEW d, NEW n, NEW w, NEW o
  PROVE  /\ Grows(c, build_arith(c, op, rev, d, n)) /\ Grows(c, build_arithm(c, op, rev, w, o))
         /\ Grows(c, build_arithp(c, op, rev, d)) /\ Grows(c, build_binpop(c, op))
         /\ Grows(c, build_fscale(c)) /\ Grows(c, build_unary(c, op))
<1>1. \A m : Grows(c, build_arith(c, op, rev, d, m))
  BY ResolveGrows, AddGrows, StackGrows, GrowsThrough DEF build_arith
<1>2. Grows(c, build_arithm(c, op, rev, w, o))
  BY ResolveGrows, MemoryGrows, AddGrows, StackGrows, GrowsThrough DEF build_arithm
<1>3. Grows(c, build_arithp(c, op, rev, d))
  BY <1>1, StackGrows, GrowsThrough DEF build_arithp
<1>4. Grows(c, build_binpop(c, op)) /\ Grows(c, build_fscale(c))
  BY ResolveGrows, AddGrows, StackGrows, GrowsThrough DEF build_binpop, build_fscale
<1>5. Grows(c, build_unary(c, op))
  BY ResolveGrows, AddGrows, StackGrows, GrowsThrough DEF build_unary
<1> QED BY <1>1, <1>2, <1>3, <1>4, <1>5

LEMMA PairGrows ==
  ASSUME NEW c, NEW first, NEW second, NEW arg
  PROVE  Grows(c, build_pair(c, first, second, arg))
<1> DEFINE r == resolve(c, 0)
           a == add_node(r, first, One1(r.val[0]), None, {})
           b == add_node(a, second, IF second \in Consts THEN NoInputs ELSE One1(r.val[0]), arg, {})
           e == [b EXCEPT !.val[0] = Newest(a)]
<1>1. Grows(c, a)
  BY ResolveGrows, AddGrows, GrowsThrough
<1>2. Grows(c, b)
  <2> HIDE DEF a, r
  <2> QED BY <1>1, AddGrows, GrowsThrough
<1>3. Grows(c, e)
  <2> HIDE DEF b, a
  <2>1. Grows(b, e)
    BY DEF Grows, InOrder
  <2> QED BY <1>2, <2>1, GrowsThrough
<1>4. build_pair(c, first, second, arg) \in {PushNewest(e), b}
  BY DEF build_pair
<1> HIDE DEF e, b
<1> QED BY <1>2, <1>3, <1>4, StackGrows, GrowsThrough

LEMMA OthersGrow ==
  ASSUME NEW c, NEW d, NEW q, NEW w, NEW o, NEW i
  PROVE  /\ Grows(c, build_fxch(c, d)) /\ Grows(c, build_fcom(c, d, q))
         /\ Grows(c, build_fcomm(c, w, o, q)) /\ Grows(c, build_ftst(c))
         /\ Grows(c, build_fcomi(c, d, q)) /\ Grows(c, build_fcmov(c, o, d))
         /\ Grows(c, build_fstsw(c))
<1>1. Grows(c, build_fxch(c, d))
  <2> DEFINE b == [resolve(c, 0) EXCEPT !.ok = TRUE]
             r == resolve(b, d)
             e == [r EXCEPT !.ok = TRUE, !.val[0] = r.val[d], !.val[d] = r.val[0]]
  <2>1. Grows(c, b)
    BY ResolveGrows, FieldsGrow, GrowsThrough
  <2>2. Grows(c, r)
    <3> HIDE DEF b
    <3> QED BY <2>1, ResolveGrows, GrowsThrough
  <2>3. Grows(c, e)
    <3> HIDE DEF r
    <3>1. Grows(r, e)
      BY DEF Grows, InOrder
    <3> QED BY <2>2, <3>1, GrowsThrough
  <2>4. build_fxch(c, d) \in {Fail(c), e}
    BY DEF build_fxch
  <2> HIDE DEF e
  <2> QED BY <2>3, <2>4, AddGrows
<1>2. Grows(c, build_fcom(c, d, q)) /\ Grows(c, build_ftst(c))
  BY ResolveGrows, AddGrows, StackGrows, GrowsThrough DEF build_fcom, build_ftst
<1>3. Grows(c, build_fcomm(c, w, o, q))
  BY ResolveGrows, MemoryGrows, AddGrows, StackGrows, GrowsThrough DEF build_fcomm
<1>4. Grows(c, build_fcomi(c, d, q))
  <2> DEFINE r == ThenResolve(resolve(c, 0), d)
             n == add_node(r, "FComI", Two(FALSE, r.val[0], r.val[d]), None,
                    IF q THEN {"Popping"} ELSE {})
             m == IF n.ok THEN [n EXCEPT !.fcomi = Newest(n)] ELSE n
  <2>1. Grows(c, n)
    BY ResolveGrows, AddGrows, GrowsThrough
  <2>2. Grows(n, m)
    <3> HIDE DEF n
    <3> QED BY FieldsGrow, GrowsSame
  <2>3. build_fcomi(c, d, q) = PopWhen(m, q)
    BY DEF build_fcomi
  <2> HIDE DEF n, m
  <2> QED BY <2>1, <2>2, <2>3, StackGrows, GrowsThrough
<1>5. Grows(c, build_fcmov(c, o, d))
  BY ResolveGrows, AddGrows, StackGrows, GrowsThrough DEF build_fcmov
<1>6. Grows(c, build_fstsw(c))
  BY AddGrows DEF build_fstsw
<1> QED BY <1>1, <1>2, <1>3, <1>4, <1>5, <1>6

LEMMA BuildGrows ==
  ASSUME NEW c, NEW i, NEW allow
  PROVE  Grows(c, build_arm(c, i, allow))
<1>1. ASSUME is_bridge_v2(i) PROVE Grows(c, build_bridge(c, i))
  <2>1. \A op, in, arg, flags : Grows(c, add_node(c, op, in, arg, flags))
    BY AddGrows
  <2> QED BY <1>1, <2>1, GrowsSame DEF build_bridge, is_bridge_v2, is_bridge_v1
<1>0. Bridged(i, allow) => is_bridge_v2(i)
  BY DEF Bridged, is_bridge_v2_proven, is_bridge_v2
<1>2. Grows(c, build_fsincos(c)) /\ Grows(c, build_fptan(c))
  BY PairGrows DEF build_fsincos, build_fptan
<1>3. Grows(c, Fail(c)) /\ Grows(c, c)
  BY AddGrows, GrowsSame
<1>4. Grows(c, build_switch(c, i, allow))
  BY <1>0, <1>1, <1>2, <1>3, MemoryGrows, ArithmeticGrows, OthersGrow, AddGrows DEF build_switch
<1> QED BY <1>3, <1>4 DEF build_arm

\* One turn builds one instruction more, or fails.
LEMMA StepInOrder ==
  ASSUME NEW c, InOrder(c), NEW i, NEW allow
  PROVE  LET d == build_step(c, build_arm(c, i, allow))
         IN  InOrder(d) /\ d.consumed = IF d.ok THEN c.consumed + 1 ELSE c.consumed
<1> DEFINE r == build_arm(c, i, allow)
           d == build_step(c, r)
<1>1. InOrder(r) /\ r.consumed = c.consumed
  BY BuildGrows DEF Grows
<1>2. InOrder(d) /\ d.consumed = IF d.ok THEN c.consumed + 1 ELSE c.consumed
  <2> HIDE DEF r
  <2>1. CASE r.ok
    <3>1. d = [r EXCEPT !.consumed = @ + 1]
      BY <2>1 DEF build_step
    <3> HIDE DEF d
    <3>2. d.ok = r.ok
      BY <1>1, <3>1 DEF InOrder
    <3>3. InOrder(d) /\ d.consumed = c.consumed + 1
      BY <1>1, <3>1 DEF InOrder
    <3> QED BY <2>1, <3>2, <3>3, Zenon
  <2>2. CASE ~r.ok
    <3>1. d = [r EXCEPT !.x = c.x]
      BY <2>2 DEF build_step
    <3> HIDE DEF d
    <3>2. d.ok = r.ok
      BY <1>1, <3>1 DEF InOrder
    <3>3. InOrder(d) /\ d.consumed = c.consumed
      BY <1>1, <3>1 DEF InOrder
    <3> QED BY <2>2, <3>2, <3>3, Zenon
  <2> QED BY <2>1, <2>2
<1> QED BY <1>2

-----------------------------------------------------------------------------
(* Optimizing *)

\* A list with a node rewritten is a list, if the node keeps its source.
LEMMA RewriteList ==
  ASSUME NEW q, NodeList(q), NEW k, NEW n, k \in DOMAIN q => HasSrc(n)
  PROVE  NodeList([q EXCEPT ![k] = n])
<1>1. CASE k \in DOMAIN q
  BY <1>1, ListGrows
<1>2. CASE k \notin DOMAIN q
  <2>1. [q EXCEPT ![k] = n] = q
    <3>1. q = [j \in 1..Len(q) |-> q[j]]
      BY SeqHas DEF NodeList
    <3> QED BY <1>2, <3>1
  <2> QED BY <2>1
<1> QED BY <1>1, <1>2

LEMMA ElementHasSrc ==
  ASSUME NEW q, NodeList(q), NEW k \in DOMAIN q
  PROVE  HasSrc(q[k]) /\ \A x : /\ HasSrc([q[k] EXCEPT !.flags = x]) /\ HasSrc([q[k] EXCEPT !.in = x])
                                /\ HasSrc([q[k] EXCEPT !.op = x])
<1>1. HasSrc(q[k])
  BY SeqHas DEF NodeList
<1> QED BY <1>1 DEF HasSrc

LEMMA NodesGrow ==
  ASSUME NEW c, NEW q, InOrder(c) => NodeList(q)
  PROVE  Grows(c, [c EXCEPT !.nodes = q])
BY DEF Grows, InOrder

LEMMA MarkGrows ==
  ASSUME NEW c, NEW n, NEW flag
  PROVE  Grows(c, Mark(c, n, flag))
<1> DEFINE m == [c.nodes[n + 1] EXCEPT !.flags = @ \cup {flag}]
           q == [c.nodes EXCEPT ![n + 1] = m]
<1>1. InOrder(c) => NodeList(q)
  <2> SUFFICES ASSUME InOrder(c) PROVE NodeList(q)
    OBVIOUS
  <2>1. NodeList(c.nodes)
    BY DEF InOrder
  <2>2. n + 1 \in DOMAIN c.nodes => HasSrc(m)
    BY <2>1, ElementHasSrc
  <2> HIDE DEF m
  <2> QED BY <2>1, <2>2, RewriteList
<1>2. Mark(c, n, flag) = [c EXCEPT !.nodes = q]
  BY DEF Mark
<1> HIDE DEF q
<1> QED BY <1>1, <1>2, NodesGrow

\* The passes walk over all the nodes.
GrownAlong(c, d, x, base, K) == Grows(base, K)
LEMMA AscendingIs ==
  ASSUME NEW c, InOrder(c)
  PROVE  /\ Len(c.nodes) \in Nat /\ Len(Ascending(c)) = Len(c.nodes)
         /\ Len(Reverse(Ascending(c))) = Len(c.nodes)
         /\ \A n \in 1..Len(Ascending(c)) : Ascending(c)[n] \in Ids(c)
<1>1. Len(c.nodes) \in Nat
  BY SeqHas DEF InOrder, NodeList
<1>2. Len(Ascending(c)) = Len(c.nodes)
  <2>1. DOMAIN Ascending(c) = 1..Len(c.nodes)
    BY DEF Ascending
  <2> QED BY <1>1, <2>1, Long
<1>3. Len(Reverse(Ascending(c))) = Len(c.nodes)
  <2>1. DOMAIN Reverse(Ascending(c)) = 1..Len(Ascending(c))
    BY DEF Reverse
  <2> QED BY <1>1, <1>2, <2>1, Long
<1>4. \A n \in 1..Len(c.nodes) : Ascending(c)[n] = n - 1 /\ n - 1 \in 0..Len(c.nodes) - 1
  BY <1>1 DEF Ascending
<1> QED BY <1>1, <1>2, <1>3, <1>4 DEF Ids

DseTurn(c, d, x, K, n) ==
  IF NodeAt(K, n).op \in EffectOps \/ use_count(K, n) > 0 THEN K ELSE Mark(K, n, "Dead")
DseWalk == INSTANCE X87Walk_proofs WITH Turn <- DseTurn, Kept <- GrownAlong
LEMMA DseGrows ==
  ASSUME NEW c
  PROVE  Grows(c, pass_dse(c))
<1> SUFFICES ASSUME InOrder(c) PROVE Grows(c, pass_dse(c))
  BY DEF Grows
<1> DEFINE q == Reverse(Ascending(c))
<1>1. Len(q) \in Nat
  BY AscendingIs
<1>2. \A K, n : Grows(K, DseTurn(0, 0, 0, K, n))
  BY MarkGrows, GrowsSame DEF DseTurn
<1>3. \A n \in 1..Len(q) : \A K :
        GrownAlong(0, 0, 0, c, K) => GrownAlong(0, 0, 0, c, DseTurn(0, 0, 0, K, q[n]))
  BY <1>2, GrowsThrough DEF GrownAlong
<1>4. GrownAlong(0, 0, 0, c, c)
  BY GrowsSame DEF GrownAlong
<1>5. GrownAlong(0, 0, 0, c, DseWalk!Through(0, 0, 0, c, q))
  <2> HIDE DEF GrownAlong, DseTurn, q
  <2> QED BY <1>1, <1>3, <1>4, Induction, DseWalk!WalkKeeps
<1>6. DseWalk!Through(0, 0, 0, c, q) = pass_dse(c)
  BY DEF DseWalk!Through, DseWalk!Walk, Walk, DseTurn, pass_dse
<1> QED BY <1>5, <1>6 DEF GrownAlong

LEMMA FuseGrows ==
  ASSUME NEW c, NEW n, NEW k
  PROVE  Grows(c, Fuse(c, n, k))
<1> DEFINE this == NodeAt(c, n)
           m    == NodeAt(c, this.in[k])
           fma  == [this EXCEPT !.op = FmaOf(this.op, k = 1),
                           !.in = <<m.in[1], m.in[2], this.in[3 - k]>>]
           d    == [c EXCEPT !.nodes[n + 1] = fma]
<1>1. Grows(c, d)
  <2>1. InOrder(c) => NodeList([c.nodes EXCEPT ![n + 1] = fma])
    <3> SUFFICES ASSUME InOrder(c) PROVE NodeList([c.nodes EXCEPT ![n + 1] = fma])
      OBVIOUS
    <3>1. NodeList(c.nodes)
      BY DEF InOrder
    <3>2. n + 1 \in DOMAIN c.nodes => HasSrc(this)
      BY <3>1, ElementHasSrc DEF NodeAt
    <3>3. HasSrc(this) => HasSrc(fma)
      <4>1. \A x, y : HasSrc(this) => HasSrc([this EXCEPT !.op = x, !.in = y])
        <5> HIDE DEF this
        <5> QED BY DEF HasSrc
      <4> QED BY <4>1
    <3> HIDE DEF fma
    <3> QED BY <3>1, <3>2, <3>3, RewriteList
  <2>2. d = [c EXCEPT !.nodes = [c.nodes EXCEPT ![n + 1] = fma]]
    OBVIOUS
  <2> HIDE DEF fma, d
  <2> QED BY <2>1, <2>2, NodesGrow
<1>2. Fuse(c, n, k) = Mark(d, this.in[k], "Dead")
  BY DEF Fuse
<1> HIDE DEF d, this
<1> QED BY <1>1, <1>2, MarkGrows, GrowsThrough

FmaTurn(c, d, x, K, n) ==
  IF Dead(NodeAt(K, n)) \/ NodeAt(K, n).op \notin {"FAdd", "FSub"} THEN K
  ELSE IF Product(K, NodeAt(K, n).in[1]) THEN Fuse(K, n, 1)
  ELSE IF Product(K, NodeAt(K, n).in[2]) THEN Fuse(K, n, 2)
  ELSE K
FmaWalk == INSTANCE X87Walk_proofs WITH Turn <- FmaTurn, Kept <- GrownAlong
LEMMA FmaGrows ==
  ASSUME NEW c
  PROVE  Grows(c, pass_fma(c))
<1> SUFFICES ASSUME InOrder(c) PROVE Grows(c, pass_fma(c))
  BY DEF Grows
<1> DEFINE q == Ascending(c)
<1>1. Len(q) \in Nat
  BY AscendingIs
<1>2. \A K, n : Grows(K, FmaTurn(0, 0, 0, K, n))
  BY FuseGrows, GrowsSame DEF FmaTurn
<1>3. \A n \in 1..Len(q) : \A K :
        GrownAlong(0, 0, 0, c, K) => GrownAlong(0, 0, 0, c, FmaTurn(0, 0, 0, K, q[n]))
  BY <1>2, GrowsThrough DEF GrownAlong
<1>4. GrownAlong(0, 0, 0, c, c)
  BY GrowsSame DEF GrownAlong
<1>5. GrownAlong(0, 0, 0, c, FmaWalk!Through(0, 0, 0, c, q))
  <2> HIDE DEF GrownAlong, FmaTurn, q
  <2> QED BY <1>1, <1>3, <1>4, Induction, FmaWalk!WalkKeeps
<1>6. FmaWalk!Through(0, 0, 0, c, q) = pass_fma(c)
  BY DEF FmaWalk!Through, FmaWalk!Walk, Walk, FmaTurn, pass_fma
<1> QED BY <1>5, <1>6 DEF GrownAlong

LEMMA TagGrows ==
  ASSUME NEW c, NEW ch
  PROVE  Grows(c, TagChain(c, ch))
<1> DEFINE f == [k \in DOMAIN c.nodes |->
                   IF k - 1 \in Absorbed(c, ch)
                   THEN [c.nodes[k] EXCEPT !.flags = @ \cup {"Member"}] ELSE c.nodes[k]]
           d == [c EXCEPT !.nodes = Row(f)]
<1>1. InOrder(c) => NodeList(Row(f))
  <2> SUFFICES ASSUME InOrder(c) PROVE NodeList(Row(f))
    OBVIOUS
  <2>1. NodeList(c.nodes)
    BY DEF InOrder
  <2>2. \A k \in DOMAIN c.nodes : HasSrc(f[k])
    BY <2>1, ElementHasSrc
  <2>3. f = [k \in DOMAIN c.nodes |-> f[k]]
    OBVIOUS
  <2> HIDE DEF f
  <2> QED BY <2>1, <2>2, <2>3, RowList
<1>2. TagChain(c, ch) = Mark(d, ch[1], "Head")
  BY DEF TagChain
<1>3. Grows(c, d)
  <2> HIDE DEF f
  <2> QED BY <1>1, NodesGrow
<1> HIDE DEF d
<1> QED BY <1>2, <1>3, MarkGrows, GrowsThrough

ReduceTurn(c, d, x, K, n) ==
  IF Heads(K, n) /\ Reducible(K, Chain(K, n)) THEN TagChain(K, Chain(K, n)) ELSE K
ReduceWalk == INSTANCE X87Walk_proofs WITH Turn <- ReduceTurn, Kept <- GrownAlong
LEMMA ReduceGrows ==
  ASSUME NEW c
  PROVE  Grows(c, pass_fma_reduce(c))
<1> SUFFICES ASSUME InOrder(c) PROVE Grows(c, pass_fma_reduce(c))
  BY DEF Grows
<1> DEFINE q == Ascending(c)
<1>1. Len(q) \in Nat
  BY AscendingIs
<1>2. \A K, n : Grows(K, ReduceTurn(0, 0, 0, K, n))
  BY TagGrows, GrowsSame DEF ReduceTurn
<1>3. \A n \in 1..Len(q) : \A K :
        GrownAlong(0, 0, 0, c, K) => GrownAlong(0, 0, 0, c, ReduceTurn(0, 0, 0, K, q[n]))
  BY <1>2, GrowsThrough DEF GrownAlong
<1>4. GrownAlong(0, 0, 0, c, c)
  BY GrowsSame DEF GrownAlong
<1>5. GrownAlong(0, 0, 0, c, ReduceWalk!Through(0, 0, 0, c, q))
  <2> HIDE DEF GrownAlong, ReduceTurn, q
  <2> QED BY <1>1, <1>3, <1>4, Induction, ReduceWalk!WalkKeeps
<1>6. \/ pass_fma_reduce(c) = c
      \/ pass_fma_reduce(c) = ReduceWalk!Through(0, 0, 0, c, q)
  BY DEF ReduceWalk!Through, ReduceWalk!Walk, Walk, ReduceTurn, pass_fma_reduce
<1> QED BY <1>5, <1>6, GrowsSame DEF GrownAlong

StswTurn(c, d, x, K, n) ==
  IF /\ n \in Alive(K) /\ NodeAt(K, n).op = "FStsw"
     /\ NodeAt(K, n).in[1] \in Ids(K) /\ NodeAt(K, NodeAt(K, n).in[1]).op \in Compares
     /\ Uninterrupted(K, NodeAt(K, n).in[1], n)
  THEN Mark(Mark(K, NodeAt(K, n).in[1], "FcomFused"), n, "FcomFused") ELSE K
StswWalk == INSTANCE X87Walk_proofs WITH Turn <- StswTurn, Kept <- GrownAlong
LEMMA StswGrows ==
  ASSUME NEW c
  PROVE  Grows(c, pass_fcom_fstsw_fusion(c))
<1> SUFFICES ASSUME InOrder(c) PROVE Grows(c, pass_fcom_fstsw_fusion(c))
  BY DEF Grows
<1> DEFINE q == Ascending(c)
<1>1. Len(q) \in Nat
  BY AscendingIs
<1>2. \A K, n : Grows(K, StswTurn(0, 0, 0, K, n))
  BY MarkGrows, GrowsSame, GrowsThrough DEF StswTurn
<1>3. \A n \in 1..Len(q) : \A K :
        GrownAlong(0, 0, 0, c, K) => GrownAlong(0, 0, 0, c, StswTurn(0, 0, 0, K, q[n]))
  BY <1>2, GrowsThrough DEF GrownAlong
<1>4. GrownAlong(0, 0, 0, c, c)
  BY GrowsSame DEF GrownAlong
<1>5. GrownAlong(0, 0, 0, c, StswWalk!Through(0, 0, 0, c, q))
  <2> HIDE DEF GrownAlong, StswTurn, q
  <2> QED BY <1>1, <1>3, <1>4, Induction, StswWalk!WalkKeeps
<1>6. StswWalk!Through(0, 0, 0, c, q) = pass_fcom_fstsw_fusion(c)
  BY DEF StswWalk!Through, StswWalk!Walk, Walk, StswTurn, pass_fcom_fstsw_fusion
<1> QED BY <1>5, <1>6 DEF GrownAlong

LEMMA ExactGrows ==
  ASSUME NEW c
  PROVE  Grows(c, pass_exact_i64_copy(c))
<1> DEFINE f == [k \in DOMAIN c.nodes |->
                   LET n == c.nodes[k]
                   IN  IF k - 1 \in Copied(c) THEN [n EXCEPT !.op = "LoadF64"]
                       ELSE IF n.op = "StoreI64" /\ ~Dead(n) /\ n.in[1] \in Copied(c)
                       THEN [n EXCEPT !.op = "StoreF64", !.flags = @ \ {"Truncate"}]
                       ELSE n]
<1>1. InOrder(c) => NodeList(Row(f))
  <2> SUFFICES ASSUME InOrder(c) PROVE NodeList(Row(f))
    OBVIOUS
  <2>1. NodeList(c.nodes)
    BY DEF InOrder
  <2>2. ASSUME NEW k \in DOMAIN c.nodes PROVE HasSrc(f[k])
    <3>1. HasSrc(c.nodes[k])
      BY <2>1, ElementHasSrc
    <3>2. \A n : HasSrc(n) => HasSrc([n EXCEPT !.op = "LoadF64"])
      BY DEF HasSrc
    <3>3. \A n, x : HasSrc(n) => HasSrc([n EXCEPT !.op = "StoreF64", !.flags = x])
      BY DEF HasSrc
    <3> DEFINE a == [c.nodes[k] EXCEPT !.op = "LoadF64"]
               b == [c.nodes[k] EXCEPT !.op = "StoreF64", !.flags = @ \ {"Truncate"}]
    <3>4. HasSrc(a) /\ HasSrc(b)
      BY <3>1, <3>2, <3>3
    <3>5. f[k] \in {c.nodes[k], a, b}
      OBVIOUS
    <3> HIDE DEF f, a, b
    <3> QED BY <3>1, <3>4, <3>5
  <2>3. f = [k \in DOMAIN c.nodes |-> f[k]]
    OBVIOUS
  <2> HIDE DEF f
  <2> QED BY <2>1, <2>2, <2>3, RowList
<1>2. pass_exact_i64_copy(c) = [c EXCEPT !.nodes = Row(f)]
  BY DEF pass_exact_i64_copy
<1> HIDE DEF f
<1> QED BY <1>1, <1>2, NodesGrow

LEMMA OptimizeGrows ==
  ASSUME NEW c, NEW opts
  PROVE  Grows(c, optimize(c, opts))
<1> DEFINE d == pass_dse(c)
           m == IF opts.contract THEN pass_fma(d) ELSE d
           r == IF opts.reduce THEN pass_fma_reduce(m) ELSE m
           f == pass_fcom_fstsw_fusion(r)
<1>1. Grows(c, d)
  BY DseGrows
<1>2. Grows(d, m)
  <2> HIDE DEF d
  <2> QED BY FmaGrows, GrowsSame
<1>3. Grows(m, r)
  <2> HIDE DEF m
  <2> QED BY ReduceGrows, GrowsSame
<1>4. Grows(r, f)
  <2> HIDE DEF r
  <2> QED BY StswGrows
<1>5. optimize(c, opts) \in {f, pass_exact_i64_copy(f)}
  BY DEF optimize
<1> HIDE DEF d, m, r, f
<1>6. Grows(c, f)
  BY <1>1, <1>2, <1>3, <1>4, GrowsThrough
<1>7. Grows(c, pass_exact_i64_copy(f))
  BY <1>6, ExactGrows, GrowsThrough
<1> QED BY <1>5, <1>6, <1>7

-----------------------------------------------------------------------------
(* Relieving *)

LEMMA Smallest ==
  ASSUME NEW E \in SUBSET Nat, E # {}
  PROVE  Min(E) \in E
<1> DEFINE S == {n \in Nat : \A F \in SUBSET Nat :
                    (\E x \in F : x <= n) => \E m \in F : \A y \in F : m <= y}
<1>1. 0 \in S
  <2> SUFFICES ASSUME NEW F \in SUBSET Nat, NEW x \in F, x <= 0
               PROVE  \E m \in F : \A y \in F : m <= y
    OBVIOUS
  <2>1. \A y \in F : x <= y
    OBVIOUS
  <2> QED BY <2>1
<1>2. ASSUME NEW n \in Nat, n \in S PROVE n + 1 \in S
  <2> SUFFICES ASSUME NEW F \in SUBSET Nat, NEW x \in F, x <= n + 1
               PROVE  \E m \in F : \A y \in F : m <= y
    OBVIOUS
  <2>1. CASE \E y \in F : y <= n
    BY <1>2, <2>1
  <2>2. CASE ~\E y \in F : y <= n
    <3>1. \A y \in F : x <= y
      BY <2>2
    <3> QED BY <3>1
  <2> QED BY <2>1, <2>2
<1>3. PICK e \in E : TRUE
  OBVIOUS
<1>4. e \in S
  <2> HIDE DEF S
  <2>1. e \in Nat
    OBVIOUS
  <2> QED BY <1>1, <1>2, <2>1, FromZero
<1>5. e <= e
  OBVIOUS
<1>6. \E x \in E : \A y \in E : x <= y
  BY <1>3, <1>4, <1>5
<1> QED BY <1>6 DEF Min

\* The node over the budget is a node.
CountTurn(c, b, x, K, i) == CountFprs(c, K, i)
OverAlong(c, b, x, base, K) == "over" \in DOMAIN K /\ K.over \in Ids(c) \cup {None}
CountWalk == INSTANCE X87Walk_proofs WITH Turn <- CountTurn, Kept <- OverAlong

LEMMA CountKeeps ==
  ASSUME NEW c, NEW K, NEW i \in Ids(c), OverAlong(c, 0, 0, 0, K)
  PROVE  OverAlong(c, 0, 0, 0, CountFprs(c, K, i))
<1> DEFINE Good(J) == OverAlong(c, 0, 0, 0, J)
<1>1. \A J, n : Good(J) => Good(Raise(J, n, i))
  BY DEF OverAlong, Raise
<1>2. \A J, x, y : Good(J) => /\ Good([J EXCEPT !.live = x, !.hold = y])
                              /\ Good([J EXCEPT !.hold = y])
  BY DEF OverAlong
<1> HIDE DEF Good
<1> DEFINE Took == IF Holder(NodeAt(c, i))
                   THEN Raise([K EXCEPT !.live = @ + 1, !.hold = @ \cup {i}], K.live + 1, i) ELSE K
           Peak == IF Beside(c, Took, i) = 0 THEN Took ELSE Raise(Took, Took.live + Beside(c, Took, i), i)
           Held1 == IF "Head" \in NodeAt(c, i).flags
                    THEN [Peak EXCEPT !.hold = (@ \ {i}) \cup {ChainTail(c, i)}] ELSE Peak
           ended == Cardinality(Ending(c, Held1, i))
           Core1 == IF Spike(NodeAt(c, i).op) = 0 THEN Held1
                    ELSE Raise(Held1, Held1.live - 1 - ended + Spike(NodeAt(c, i).op), i)
<1>3. Good(K)
  BY DEF Good
<1>4. Good(Took)
  BY <1>1, <1>2, <1>3
<1>5. Good(Peak)
  <2> HIDE DEF Took
  <2> QED BY <1>1, <1>4
<1>6. Good(Held1)
  <2> HIDE DEF Peak
  <2> QED BY <1>2, <1>5
<1>7. Good(Core1)
  <2> HIDE DEF Held1, ended
  <2> QED BY <1>1, <1>6
<1>8. CountFprs(c, K, i) \in {K, [Core1 EXCEPT !.live = @ - ended, !.hold = @ \ Ending(c, Held1, i)]}
  BY DEF CountFprs
<1> HIDE DEF Core1, ended, Held1
<1>9. Good([Core1 EXCEPT !.live = @ - ended, !.hold = @ \ Ending(c, Held1, i)])
  BY <1>2, <1>7
<1> QED BY <1>3, <1>8, <1>9 DEF Good

LEMMA OverIs ==
  ASSUME NEW c, InOrder(c), NEW b
  PROVE  peak_live_fprs(c, b).over \in Ids(c) \cup {None}
<1> DEFINE d == compute_last_uses(c)
           q == Ascending(d)
           base == [live |-> 0, peak |-> 0, over |-> None, hold |-> {}, budget |-> b]
<1>1. InOrder(d) /\ Ids(d) = Ids(c)
  <2>1. Grows(c, d)
    BY FieldsGrow DEF compute_last_uses
  <2>2. d.nodes = c.nodes
    BY DEF compute_last_uses
  <2> HIDE DEF d
  <2> QED BY <2>1, <2>2 DEF Grows, Ids
<1>2. Len(q) \in Nat /\ \A n \in 1..Len(q) : q[n] \in Ids(d)
  <2> HIDE DEF d
  <2> QED BY <1>1, AscendingIs
<1>3. \A n \in 1..Len(q) : \A K :
        OverAlong(d, 0, 0, base, K) => OverAlong(d, 0, 0, base, CountTurn(d, 0, 0, K, q[n]))
  <2> HIDE DEF d, q, base
  <2>1. \A K : OverAlong(d, 0, 0, base, K) <=> OverAlong(d, 0, 0, 0, K)
    BY DEF OverAlong
  <2> QED BY <1>2, <2>1, CountKeeps DEF CountTurn
<1>4. OverAlong(d, 0, 0, base, base)
  BY DEF OverAlong
<1>5. OverAlong(d, 0, 0, base, CountWalk!Through(d, 0, 0, base, q))
  <2> HIDE DEF OverAlong, CountTurn, q, d, base
  <2> QED BY <1>2, <1>3, <1>4, Induction, CountWalk!WalkKeeps
<1>6. CountWalk!Through(d, 0, 0, base, q) = peak_live_fprs(c, b)
  BY DEF CountWalk!Through, CountWalk!Walk, Walk, CountTurn, peak_live_fprs
<1> HIDE DEF d, q, base
<1> QED BY <1>1, <1>5, <1>6 DEF OverAlong

\* So are the one made again and the one it is made again for.
LEMMA RemadeAre ==
  ASSUME NEW c, InOrder(c), NEW over \in Ids(c), NEW h \in Remakeable(c, over)
  PROVE  h \in Ids(c) /\ LastRef(c, h) \in Ids(c)
<1>0. Len(c.nodes) \in Nat
  BY AscendingIs
<1>1. h \in 0..over - 1 /\ Cardinality(RefsAfter(c, h, over)) = 1
  BY DEF Remakeable
<1>2. h \in Ids(c)
  BY <1>0, <1>1 DEF Ids
<1>3. RefsAfter(c, h, over) # {}
  BY <1>1, FS_EmptySet
<1>4. PICK u \in RefsAfter(c, h, over) : TRUE
  BY <1>3
<1>5. /\ u[1] \in Alive(c) /\ u[2] \in 1..3
      /\ u[2] <= node_refs(NodeAt(c, u[1])) /\ NodeAt(c, u[1]).in[u[2]] = h
  BY DEF RefsAfter
<1>6. u[2] \in 1..node_refs(NodeAt(c, u[1]))
  BY <1>5 DEF node_refs
<1>7. RefUses(c, h) # {} /\ RefUses(c, h) \in SUBSET (0..Len(c.nodes) - 1)
  BY <1>5, <1>6 DEF RefUses, Alive, Ids
<1>8. Max(RefUses(c, h)) \in RefUses(c, h)
  <2>1. 0 \in Int /\ Len(c.nodes) - 1 \in Int
    BY <1>0
  <2> QED BY <1>7, <2>1, Largest
<1> QED BY <1>2, <1>7, <1>8 DEF LastRef, Ids

\* A list, by a set its elements are in.
LEMMA ListIs ==
  ASSUME NEW q
  PROVE  NodeList(q) <=> \E T : q \in Seq(T) /\ \A n \in T : HasSrc(n)
<1>1. ASSUME NodeList(q) PROVE \E T : q \in Seq(T) /\ \A n \in T : HasSrc(n)
  <2> DEFINE T == {q[k] : k \in 1..Len(q)}
  <2>1. Len(q) \in Nat /\ q = [k \in 1..Len(q) |-> q[k]]
    BY <1>1, SeqHas DEF NodeList
  <2>2. q \in Seq(T)
    <3>1. \A k \in 1..Len(q) : q[k] \in T
      OBVIOUS
    <3> HIDE DEF T
    <3>2. q \in [1..Len(q) -> T]
      BY <2>1, <3>1
    <3> QED BY <2>1, <3>2
  <2>3. \A n \in T : HasSrc(n)
    BY <1>1 DEF NodeList
  <2> QED BY <2>2, <2>3
<1>2. ASSUME NEW T, q \in Seq(T), \A n \in T : HasSrc(n) PROVE NodeList(q)
  <2>1. \A k \in 1..Len(q) : q[k] \in T
    BY <1>2
  <2> QED BY <1>2, <2>1 DEF NodeList, IsSeq
<1> QED BY <1>1, <1>2

LEMMA InsertList ==
  ASSUME NEW q, NodeList(q), NEW n, HasSrc(n), NEW k \in 0..Len(q)
  PROVE  NodeList(SubSeq(q, 1, k) \o <<n>> \o SubSeq(q, k + 1, Len(q)))
<1>1. PICK T : q \in Seq(T) /\ \A m \in T : HasSrc(m)
  BY ListIs
<1> DEFINE U == T \cup {n}
<1>2. SubSeq(q, 1, k) \in Seq(U) /\ SubSeq(q, k + 1, Len(q)) \in Seq(U)
  <2>1. q \in Seq(U) /\ Len(q) \in Nat /\ k \in Int
    BY <1>1
  <2> HIDE DEF U
  <2>2. \A j \in 1..k : j \in 1..Len(q)
    BY <2>1
  <2>3. \A j \in k + 1..Len(q) : j \in 1..Len(q)
    BY <2>1
  <2> QED BY <2>1, <2>2, <2>3
<1>3. <<n>> \in Seq(U)
  OBVIOUS
<1>4. \A m \in U : HasSrc(m)
  BY <1>1
<1> HIDE DEF U
<1>5. SubSeq(q, 1, k) \o <<n>> \o SubSeq(q, k + 1, Len(q)) \in Seq(U)
  BY <1>2, <1>3
<1> QED BY <1>4, <1>5, ListIs

LEMMA CloneGrows ==
  ASSUME NEW c, InOrder(c), NEW h \in Ids(c), NEW pos \in Ids(c)
  PROVE  Grows(c, insert_clone_at(c, h, pos))
<1> DEFINE Remap(r) == IF r >= pos THEN r + 1 ELSE r
           f == [k \in DOMAIN c.nodes |->
                  [c.nodes[k] EXCEPT !.in = IF node_refs(c.nodes[k]) = 1 THEN <<Remap(@[1]), @[2], @[3]>>
                                            ELSE <<Remap(@[1]), Remap(@[2]), Remap(@[3])>>]]
           moved == Row(f)
           clone == [NodeAt(c, h) EXCEPT !.flags = {}, !.src = NodeAt(c, pos).src]
           q     == SubSeq(moved, 1, pos) \o <<clone>> \o SubSeq(moved, pos + 1, Len(moved))
<1>0. NodeList(c.nodes) /\ Len(c.nodes) \in Nat /\ DOMAIN c.nodes = 1..Len(c.nodes)
  BY SeqHas DEF InOrder, NodeList
<1>1. NodeList(moved) /\ Len(moved) = Len(c.nodes)
  <2>1. \A k \in DOMAIN c.nodes : HasSrc(f[k])
    BY <1>0, ElementHasSrc
  <2>2. f = [k \in DOMAIN c.nodes |-> f[k]]
    OBVIOUS
  <2> HIDE DEF f
  <2> QED BY <1>0, <2>1, <2>2, RowList
<1>2. HasSrc(clone)
  <2>1. h + 1 \in DOMAIN c.nodes /\ pos + 1 \in DOMAIN c.nodes
    BY <1>0 DEF Ids
  <2>2. HasSrc(NodeAt(c, h)) /\ HasSrc(NodeAt(c, pos))
    BY <1>0, <2>1, ElementHasSrc DEF NodeAt
  <2> QED BY <2>2 DEF HasSrc
<1>3. NodeList(q)
  <2> HIDE DEF moved, clone
  <2>1. pos \in 0..Len(moved)
    BY <1>0, <1>1 DEF Ids
  <2> QED BY <1>1, <1>2, <2>1, InsertList
<1>4. PICK v, r, x, y : insert_clone_at(c, h, pos) =
        [c EXCEPT !.nodes = q, !.val = v, !.read = r, !.fcmp = x, !.fcomi = y]
  BY Zenon DEF insert_clone_at
<1>5. Grows(c, [c EXCEPT !.nodes = q, !.val = v, !.read = r, !.fcmp = x, !.fcomi = y])
  <2> HIDE DEF q
  <2> QED BY <1>3 DEF Grows, InOrder
<1> QED BY ONLY <1>4, <1>5

LEMMA RemakeGrows ==
  ASSUME NEW c, InOrder(c), NEW h \in Ids(c), LastRef(c, h) \in Ids(c)
  PROVE  Grows(c, Remake(c, h))
<1> DEFINE pos == LastRef(c, h)
           d == insert_clone_at(c, h, pos)
           Now(r) == IF r = h THEN pos ELSE r
           in == IF node_refs(d.nodes[pos + 2]) = 1
                 THEN <<Now(d.nodes[pos + 2].in[1]), d.nodes[pos + 2].in[2], d.nodes[pos + 2].in[3]>>
                 ELSE <<Now(d.nodes[pos + 2].in[1]), Now(d.nodes[pos + 2].in[2]), Now(d.nodes[pos + 2].in[3])>>
           m == [d.nodes[pos + 2] EXCEPT !.in = in]
           e == [d EXCEPT !.nodes = [d.nodes EXCEPT ![pos + 2] = m]]
<1>1. Grows(c, d)
  BY CloneGrows
<1>2. Grows(d, e)
  <2> HIDE DEF d, in, pos
  <2>1. InOrder(d) => NodeList([d.nodes EXCEPT ![pos + 2] = m])
    <3> SUFFICES ASSUME InOrder(d) PROVE NodeList([d.nodes EXCEPT ![pos + 2] = m])
      OBVIOUS
    <3>1. NodeList(d.nodes)
      BY DEF InOrder
    <3>2. pos + 2 \in DOMAIN d.nodes => HasSrc(m)
      BY <3>1, ElementHasSrc
    <3> HIDE DEF m
    <3> QED BY <3>1, <3>2, RewriteList
  <2> HIDE DEF m
  <2> QED BY <2>1, NodesGrow
<1>3. Remake(c, h) \in {Mark(e, h, "Dead"), e}
  BY DEF Remake
<1> HIDE DEF d, e
<1>4. Grows(c, e)
  BY <1>1, <1>2, GrowsThrough
<1>5. Grows(c, Mark(e, h, "Dead"))
  BY <1>4, MarkGrows, GrowsThrough
<1> QED BY <1>3, <1>4, <1>5

ReliefTurn(b, d, x, R, k) == RelieveOnce(b, R, k)
ReliefAlong(b, d, x, base, R) == {"c", "done"} \subseteq DOMAIN R /\ Grows(base.c, R.c)
ReliefWalk == INSTANCE X87Walk_proofs WITH Turn <- ReliefTurn, Kept <- ReliefAlong

LEMMA ReliefTurnGrows ==
  ASSUME NEW b, NEW base, InOrder(base.c), NEW R, ReliefAlong(b, 0, 0, base, R), NEW k
  PROVE  ReliefAlong(b, 0, 0, base, RelieveOnce(b, R, k))
<1> DEFINE d   == R.c
           F   == peak_live_fprs(d, b)
           H   == IF F.over = None THEN {} ELSE Remakeable(d, F.over)
           far == Max({LastRef(d, h) : h \in H})
           G   == {h \in H : LastRef(d, h) = far}
<1>0. RelieveOnce(b, R, k) =
        IF R.done \/ H = {} \/ Len(d.nodes) >= MaxNodes THEN [R EXCEPT !.done = TRUE]
        ELSE [R EXCEPT !.c = Remake(d, Min(G))]
  BY DEF RelieveOnce
<1>1. InOrder(d)
  BY DEF ReliefAlong, Grows
<1>2. F.over # None => F.over \in Ids(d)
  <2> HIDE DEF d
  <2> QED BY <1>1, OverIs
<1>3. \A h \in H : h \in Ids(d) /\ LastRef(d, h) \in Ids(d)
  <2> HIDE DEF d, F
  <2> QED BY <1>1, <1>2, RemadeAre
<1>4. Len(d.nodes) \in Nat
  <2> HIDE DEF d
  <2> QED BY <1>1, AscendingIs
<1>5. ASSUME H # {} PROVE Min(G) \in G /\ Min(G) \in H
  <2> HIDE DEF d, H
  <2> DEFINE E == {LastRef(d, h) : h \in H}
  <2>1. E # {} /\ E \in SUBSET (0..Len(d.nodes) - 1)
    BY <1>3, <1>5 DEF Ids
  <2>2. Max(E) \in E
    <3>1. 0 \in Int /\ Len(d.nodes) - 1 \in Int
      BY <1>4
    <3> HIDE DEF E
    <3> QED BY <2>1, <3>1, Largest
  <2>3. G # {}
    BY <2>2
  <2>4. G \in SUBSET Nat
    <3>1. \A h \in Ids(d) : h \in Nat
      BY <1>4 DEF Ids
    <3> QED BY <1>3, <3>1
  <2>5. G \subseteq H
    OBVIOUS
  <2> HIDE DEF G
  <2> QED BY <2>3, <2>4, <2>5, Smallest
<1> HIDE DEF d, F, H, G
<1>6. CASE R.done \/ H = {} \/ Len(d.nodes) >= MaxNodes
  <2>1. RelieveOnce(b, R, k) = [R EXCEPT !.done = TRUE]
    BY <1>0, <1>6
  <2> QED BY <2>1 DEF ReliefAlong
<1>7. CASE ~(R.done \/ H = {} \/ Len(d.nodes) >= MaxNodes)
  <2>1. RelieveOnce(b, R, k) = [R EXCEPT !.c = Remake(d, Min(G))]
    BY <1>0, <1>7
  <2>2. Min(G) \in H
    BY <1>5, <1>7
  <2>3. Grows(d, Remake(d, Min(G)))
    BY <1>1, <1>3, <2>2, RemakeGrows
  <2>4. Grows(base.c, Remake(d, Min(G)))
    BY <2>3, GrowsThrough DEF ReliefAlong, d
  <2> QED BY <2>1, <2>4 DEF ReliefAlong
<1> QED BY <1>6, <1>7

LEMMA RelieveGrows ==
  ASSUME NEW c, InOrder(c), NEW b
  PROVE  Grows(c, remat_relieve_fpr_pressure(c, b))
<1> DEFINE q == [k \in 1..kMaxClones |-> k]
           base == [c |-> c, done |-> FALSE]
<1>1. Len(q) \in Nat
  <2>1. DOMAIN q = 1..kMaxClones /\ kMaxClones \in Nat
    BY DEF kMaxClones
  <2> HIDE DEF q
  <2> QED BY <2>1, Long
<1>2. \A n \in 1..Len(q) : \A K :
        ReliefAlong(b, 0, 0, base, K) => ReliefAlong(b, 0, 0, base, ReliefTurn(b, 0, 0, K, q[n]))
  <2>1. InOrder(base.c)
    OBVIOUS
  <2> HIDE DEF base, q
  <2> QED BY <2>1, ReliefTurnGrows DEF ReliefTurn
<1>3. ReliefAlong(b, 0, 0, base, base)
  BY GrowsSame DEF ReliefAlong
<1>4. ReliefAlong(b, 0, 0, base, ReliefWalk!Through(b, 0, 0, base, q))
  <2> HIDE DEF ReliefAlong, ReliefTurn, base, q
  <2> QED BY <1>1, <1>2, <1>3, Induction, ReliefWalk!WalkKeeps
<1>5. ReliefWalk!Through(b, 0, 0, base, q).c = remat_relieve_fpr_pressure(c, b)
  BY DEF ReliefWalk!Through, ReliefWalk!Walk, Walk, ReliefTurn, remat_relieve_fpr_pressure
<1>6. base.c = c
  OBVIOUS
<1> HIDE DEF base, q
<1> QED BY <1>4, <1>5, <1>6 DEF ReliefAlong

-----------------------------------------------------------------------------
(* Looking ahead *)

\* The instructions a run covers from an index on.
Covered(p, i) == {j \in i .. Len(p) : \A k \in i .. j : IsX87(p[k])}

LEMMA CoveredIs ==
  ASSUME NEW p, Len(p) \in Nat, NEW i \in Nat
  PROVE  /\ IsFiniteSet(Covered(p, i)) /\ Cardinality(Covered(p, i)) \in Nat
         /\ lookahead(p, i) = Cardinality(Covered(p, i))
<1>1. IsFiniteSet(i..Len(p))
  BY FS_Interval
<1>2. Covered(p, i) \in SUBSET (i..Len(p))
  BY DEF Covered
<1>3. IsFiniteSet(Covered(p, i))
  BY <1>1, <1>2, FS_Subset
<1> QED BY <1>3, FS_CardinalityType DEF lookahead, Covered

\* A run covers at most n instructions more than the one n instructions on.
LEMMA LookaheadOn ==
  ASSUME NEW p, Len(p) \in Nat, NEW i \in Nat, NEW n \in Nat
  PROVE  /\ lookahead(p, i) \in Nat /\ lookahead(p, i + n) \in Nat
         /\ lookahead(p, i) <= n + lookahead(p, i + n)
<1> DEFINE R == Covered(p, i)
           B == i..i + n - 1
           C == Covered(p, i + n)
<1>1. /\ IsFiniteSet(R) /\ Cardinality(R) \in Nat /\ lookahead(p, i) = Cardinality(R)
      /\ IsFiniteSet(C) /\ Cardinality(C) \in Nat /\ lookahead(p, i + n) = Cardinality(C)
  BY CoveredIs
<1>2. IsFiniteSet(B) /\ Cardinality(B) = n
  <2>1. i \in Int /\ i + n - 1 \in Int
    OBVIOUS
  <2>2. IsFiniteSet(B) /\ Cardinality(B) = IF i > i + n - 1 THEN 0 ELSE i + n - 1 - i + 1
    BY ONLY <2>1, FS_Interval
  <2> QED BY <2>2
<1>3. R \in SUBSET (B \cup C)
  BY DEF Covered
<1>4. IsFiniteSet(B \cup C) /\ Cardinality(B \cup C) = n + Cardinality(C) - Cardinality(B \cap C)
      /\ Cardinality(B \cap C) \in Nat
  <2>1. IsFiniteSet(B \cap C)
    BY <1>2, FS_Subset
  <2> QED BY <1>1, <1>2, <2>1, FS_Union, FS_CardinalityType
<1>5. Cardinality(R) <= Cardinality(B \cup C)
  BY <1>3, <1>4, FS_Subset
<1> QED BY <1>1, <1>4, <1>5

LEMMA LookaheadCovers ==
  ASSUME NEW p, Len(p) \in Nat, NEW i \in Nat
  PROVE  /\ i <= Len(p) /\ IsX87(p[i]) => lookahead(p, i) >= 1
         /\ ~IsX87(p[i]) => lookahead(p, i) = 0
<1>1. ASSUME i <= Len(p), IsX87(p[i]) PROVE lookahead(p, i) >= 1
  <2>1. {i} \in SUBSET Covered(p, i)
    BY <1>1 DEF Covered
  <2>2. Cardinality({i}) = 1 /\ IsFiniteSet({i})
    BY FS_Singleton
  <2>3. Cardinality({i}) <= Cardinality(Covered(p, i))
    BY <2>1, CoveredIs, FS_Subset
  <2> QED BY <2>2, <2>3, CoveredIs
<1>2. ASSUME ~IsX87(p[i]) PROVE lookahead(p, i) = 0
  <2>1. Covered(p, i) = {}
    BY <1>2 DEF Covered
  <2> QED BY <2>1, CoveredIs, FS_EmptySet
<1> QED BY <1>1, <1>2

JoinTurn(p, i, opts, R, j) == Joined(p, i, opts, R, j)
JoinAlong(p, i, opts, base, R) ==
  {"on", "joins", "bridges", "gap", "x87", "total"} \subseteq DOMAIN R /\ R.total \in Int
JoinWalk == INSTANCE X87Walk_proofs WITH Turn <- JoinTurn, Kept <- JoinAlong

LEMMA BridgedIs ==
  ASSUME NEW p, Len(p) \in Nat, NEW i \in Nat, i <= Len(p), NEW opts
  PROVE  lookahead_bridged(p, i, opts).total \in Int
<1> DEFINE q == [n \in 1 .. Len(p) - i + 1 |-> i + n - 1]
           base == [on |-> TRUE, joins |-> 0, bridges |-> 0, gap |-> 0, x87 |-> 0, total |-> 0]
           End == JoinWalk!Through(p, i, opts, base, q)
<1>1. Len(q) = Len(p) - i + 1 /\ Len(q) \in Nat
  <2>1. DOMAIN q = 1..Len(p) - i + 1 /\ Len(p) - i + 1 \in Nat
    OBVIOUS
  <2> HIDE DEF q
  <2> QED BY <2>1, Long
<1>2. \A n \in 1..Len(q) : \A R :
        JoinAlong(p, i, opts, base, R) => JoinAlong(p, i, opts, base, JoinTurn(p, i, opts, R, q[n]))
  <2> SUFFICES ASSUME NEW n \in 1..Len(q), NEW R, JoinAlong(p, i, opts, base, R)
               PROVE  JoinAlong(p, i, opts, base, JoinTurn(p, i, opts, R, q[n]))
    OBVIOUS
  <2>1. q[n] - i + 1 \in Int
    BY <1>1
  <2>2. \A x, y, z, g, t \in Int :
          JoinAlong(p, i, opts, base, [R EXCEPT !.joins = x, !.bridges = y, !.gap = g, !.x87 = z, !.total = t])
    BY DEF JoinAlong
  <2> HIDE DEF q
  <2> QED BY <2>1 DEF JoinAlong, JoinTurn, Joined
<1>3. JoinAlong(p, i, opts, base, base)
  BY DEF JoinAlong
<1>4. JoinAlong(p, i, opts, base, End)
  <2> HIDE DEF JoinAlong, JoinTurn, base, q
  <2> QED BY <1>1, <1>2, <1>3, Induction, JoinWalk!WalkKeeps
<1>5. lookahead_bridged(p, i, opts) =
        IF End.joins = 0 \/ End.x87 < 3 THEN [total |-> 0, x87 |-> 0]
        ELSE [total |-> End.total, x87 |-> End.x87]
  BY DEF JoinWalk!Through, JoinWalk!Walk, Walk, JoinTurn, lookahead_bridged
<1> HIDE DEF End
<1> QED BY <1>4, <1>5 DEF JoinAlong

\* A function is rebuilt from its domain and its values.
IsFcn(f) == f = [x \in DOMAIN f |-> f[x]]

LEMMA SameFcn ==
  ASSUME NEW f, NEW g, IsFcn(f), IsFcn(g), DOMAIN f = DOMAIN g, \A x \in DOMAIN f : f[x] = g[x]
  PROVE  f = g
BY DEF IsFcn

\* Flushing what the gate looks at and rolling back leaves no trace.
LEMMA RollbackIs ==
  ASSUME NEW S, IsFcn(S)
  PROVE  rollback(S, gate_flush(S)) = S
<1> DEFINE F == gate_flush(S)
           R == rollback(S, F)
<1>1. IsFcn(F) /\ DOMAIN F = DOMAIN S
  BY DEF IsFcn, gate_flush, x87_flush_top, x87_flush_deferred_pops, x87_emit_perm_flush,
    emit_x87_perm_flush, reset_perm, emit_store_top, emit_x87_tag_set_empty_batch
<1>2. IsFcn(R) /\ DOMAIN R = DOMAIN S
  <2> HIDE DEF F
  <2> QED BY <1>1 DEF rollback, IsFcn
<1>3. \A x \in DOMAIN S : R[x] = S[x]
  BY DEF rollback, gate_flush, x87_flush_top, x87_flush_deferred_pops, x87_emit_perm_flush,
    emit_x87_perm_flush, reset_perm, emit_store_top, emit_x87_tag_set_empty_batch
<1>4. R = S
  <2> HIDE DEF R
  <2> QED BY <1>2, <1>3, SameFcn
<1> QED BY <1>4

-----------------------------------------------------------------------------
(* The run, and what waits for a region *)

LEMMA SetRunIs ==
  ASSUME NEW S, IsFcn(S), "run" \in DOMAIN S, S.run \in Nat, NEW n \in Int
  PROVE  /\ IsFcn(set_run(S, n)) /\ DOMAIN set_run(S, n) = DOMAIN S
         /\ set_run(S, n).run = IF n >= 2 THEN n ELSE S.run
         /\ set_run(S, n).run \in Nat
BY DEF set_run, IsFcn

\* A region that was tried in vain leaves the run that was found.
LEMMA PlainIs ==
  ASSUME NEW S, IsFcn(S), "run" \in DOMAIN S, S.run \in Nat, NEW total \in Int,
         NEW p, S.run = IF p.plain >= 2 THEN p.plain ELSE 0
  PROVE  plain_run(set_run(S, total), p) = S
<1> DEFINE T == set_run(S, total)
           V == plain_run(T, p)
<1>1. IsFcn(T) /\ DOMAIN T = DOMAIN S
  BY SetRunIs
<1>2. \A x \in DOMAIN S : x # "run" => T[x] = S[x]
  BY DEF set_run
<1>3. IsFcn(V) /\ DOMAIN V = DOMAIN S
  <2> HIDE DEF T
  <2> QED BY <1>1 DEF plain_run, IsFcn
<1>4. \A x \in DOMAIN S : V[x] = S[x]
  <2> HIDE DEF T
  <2> QED BY <1>1, <1>2 DEF plain_run
<1>5. V = S
  <2> HIDE DEF V
  <2> QED BY <1>3, <1>4, SameFcn
<1> QED BY <1>5

\* The end of an instruction or of an attempt.
LEMMA TidyIs ==
  ASSUME NEW T, "run" \in DOMAIN T, T.run \in Nat, NEW n \in Nat
  PROVE  LET U == Tidied(Ticked(T, n))
         IN  /\ IsFcn(U) /\ DOMAIN U = DOMAIN T
             /\ U.run = IF T.run > n THEN T.run - n ELSE 0
<1> DEFINE K == tick(T, n)
           V == Ticked(T, n)
           U == Tidied(V)
<1>1. DOMAIN K = DOMAIN T /\ K.run = IF T.run > n THEN T.run - n ELSE 0
  BY DEF tick
<1>2. DOMAIN V = DOMAIN K /\ V.run = K.run
  <2>1. \A b, f, g : [K EXCEPT !.sb = b, !.fprs = f, !.gprs = g].run = K.run
    <3> HIDE DEF K
    <3> QED BY <1>1
  <2> HIDE DEF K
  <2> QED BY <2>1 DEF Ticked, K
<1>3. DOMAIN U = DOMAIN V /\ U.run = V.run /\ IsFcn(U)
  <2>1. "run" \in DOMAIN V
    BY <1>1, <1>2
  <2> HIDE DEF V
  <2> QED BY <2>1 DEF Tidied, IsFcn
<1> QED BY <1>1, <1>2, <1>3

LEMMA StockIsFcn ==
  ASSUME NEW S, IsFcn(S), NEW i, ~IsX87(i)
  PROVE  IsFcn(P!Step(S, i))
<1>1. \A K, r, v : /\ IsFcn(P!SetReg(K, r, v)) /\ IsFcn(P!StoreMem(K, r, v))
                   /\ IsFcn(P!SetFlags(K, v))
  BY DEF IsFcn, P!SetReg, P!StoreMem, P!SetFlags
<1>2. \A K, v : IsFcn(K) => IsFcn(P!WithFlags(i, v, K))
  <2> HIDE DEF IsFcn
  <2> QED BY <1>1 DEF P!WithFlags
<1>3. \A v : IsFcn(P!AluReg(S, i, v)) /\ IsFcn(P!AluMem(S, i, v))
  <2> HIDE DEF IsFcn
  <2> QED BY <1>1, <1>2 DEF P!AluReg, P!AluMem
<1>4. P!Step(S, i) = P!IntegerStep(S, i)
  BY DEF IsX87, P!Step
<1> HIDE DEF IsFcn
<1> QED BY <1>1, <1>3, <1>4 DEF P!IntegerStep

LEMMA GateKeeps ==
  ASSUME NEW S, IsFcn(S)
  PROVE  Keeps(S, gate_flush(S)) /\ IsFcn(gate_flush(S))
<1>1. \A T, x, y : /\ IsFcn([T EXCEPT !.top = x, !.td = y])
                   /\ IsFcn([T EXCEPT !.tag = x, !.dpc = y])
  BY DEF IsFcn
<1>2. \A T, x, y, z : IsFcn([T EXCEPT !.st = x, !.perm = y, !.pd = z])
  BY DEF IsFcn
<1>3. Keeps(S, gate_flush(S))
  <2>1. Keeps(S, S)
    BY DEF Keeps
  <2> QED BY <2>1, FlushesKeep DEF gate_flush
<1>4. IsFcn(gate_flush(S))
  BY <1>1, <1>2 DEF IsFcn, gate_flush, x87_flush_top, x87_flush_deferred_pops,
    x87_emit_perm_flush, emit_x87_perm_flush, reset_perm, emit_store_top,
    emit_x87_tag_set_empty_batch
<1> QED BY <1>3, <1>4

\* A cut leaves less than the attempt had.
LEMMA CutIs ==
  ASSUME NEW c, InOrder(c), NEW over, NEW len \in Nat
  PROVE  split_prefix_len(c, over, len) \in Int /\ split_prefix_len(c, over, len) < len
<1>1. over \in Ids(c) => NodeAt(c, over).src \in Nat
  <2>1. NodeList(c.nodes) /\ Len(c.nodes) \in Nat /\ DOMAIN c.nodes = 1..Len(c.nodes)
    BY SeqHas DEF InOrder, NodeList
  <2>2. over \in Ids(c) => over + 1 \in DOMAIN c.nodes
    BY <2>1 DEF Ids
  <2> QED BY <2>1, <2>2, ElementHasSrc DEF NodeAt, HasSrc
<1> QED BY <1>1 DEF split_prefix_len

-----------------------------------------------------------------------------
(* The inductive invariant *)

Attempts == {"build", "optimize", "relieve", "fit", "lower", "refuse"}
Covering == s.run <= lookahead(prog, at)

Shaped ==
  /\ stage \in {"write", "look", "gate", "single"} \cup Attempts
  /\ at \in Nat /\ IsSeq(prog)
  /\ IsFcn(s) /\ "run" \in DOMAIN s /\ s.run \in Nat
  /\ DOMAIN job = DOMAIN NoJob /\ job.len \in Nat
Fresh   == stage = "write" => at = 0 /\ s.run = 0 /\ pend = NoRegion /\ job = NoJob
Looking == stage = "look" => pend = NoRegion /\ Covering
AtX87   == stage \in {"gate", "single"} \cup Attempts => at <= Len(prog) /\ IsX87(prog[at])
Gated   == stage = "gate" => s = job.found /\ Covering
Alone   == stage = "single" =>
             pend = NoRegion /\ Covering /\ (rollback_allowed(job.back) => s = job.found)
\* The attempt on the run starts from the state the gate found, with at most
\* one kind of deferred work flushed.  The attempt on a region has set the run
\* to the length of the region, over the one that was found.
Tried ==
  stage \in Attempts =>
    /\ job.allow = "none" =>
         /\ IsFcn(job.back) /\ job.back = job.found /\ s = gate_flush(job.back)
         /\ pend = NoRegion /\ job.len <= s.run /\ Covering
    /\ job.allow # "none" =>
         /\ plain_run(s, pend) = job.found /\ s.run = job.len
         /\ job.found.run \in Nat /\ job.found.run <= lookahead(prog, at)
Built ==
  stage = "build" => InOrder(job.c) /\ job.c.consumed < job.len
Compiled ==
  stage \in {"optimize", "relieve", "fit", "lower"} =>
    /\ InOrder(job.c) /\ job.c.consumed >= 2 /\ job.c.consumed <= job.len
    /\ job.allow # "none" => job.c.consumed = job.len
IInv ==
  Shaped /\ Fresh /\ Looking /\ AtX87 /\ Gated /\ Alone /\ Tried /\ Built /\ Compiled
Parts == <<Shaped, Fresh, Looking, AtX87, Gated, Alone, Tried, Built, Compiled>>

LEMMA InitHolds == Init => IInv
<1> SUFFICES ASSUME Init PROVE IInv
  OBVIOUS
<1>1. stage = "write" /\ at = 0 /\ prog = <<>> /\ pend = NoRegion /\ job = NoJob
  BY DEF Init
<1>2. IsFcn(s) /\ "run" \in DOMAIN s /\ s.run = 0
  BY DEF Init, IsFcn
<1>3. IsSeq(prog)
  <2>1. <<>> \in Seq({})
    OBVIOUS
  <2> QED BY <1>1, <2>1 DEF IsSeq
<1>4. job.len = 0
  BY <1>1 DEF NoJob
<1> QED BY <1>1, <1>2, <1>3, <1>4 DEF IInv, Shaped, Fresh, Looking, AtX87, Gated, Alone, Tried,
      Built, Compiled, Attempts

LEMMA WritingHolds ==
  ASSUME IInv, (\E i \in Letters : Write(i)) \/ Submit
  PROVE  IInv'
<1>1. stage = "write" /\ UNCHANGED <<s, pend, job>>
  BY DEF Write, Submit
<1>2. stage' \in {"write", "look"} /\ at' \in Nat /\ IsSeq(prog') /\ (stage' = "write" => at' = 0)
  <2>1. ASSUME NEW i \in Letters, Write(i)
        PROVE  stage' = "write" /\ at' = 0 /\ IsSeq(prog')
    BY <2>1, Appends DEF Write, IInv, Shaped, Fresh
  <2>2. ASSUME Submit PROVE stage' = "look" /\ at' = 1 /\ IsSeq(prog')
    BY <2>2 DEF Submit, IInv, Shaped
  <2> QED BY <2>1, <2>2
<1>3. lookahead(prog', at') \in Nat
  BY <1>2, SeqHas, CoveredIs
<1> QED BY <1>1, <1>2, <1>3 DEF IInv, Shaped, Fresh, Looking, Covering, AtX87, Gated, Alone, Tried,
      Built, Compiled, Attempts

\* Begin starts a context in which nothing has been consumed.
LEMMA Begun ==
  ASSUME NEW J, DOMAIN J = DOMAIN NoJob, Begin(J)
  PROVE  /\ stage' = "build" /\ DOMAIN job' = DOMAIN NoJob
         /\ job'.found = J.found /\ job'.back = J.back /\ job'.allow = J.allow /\ job'.len = J.len
         /\ job'.try = J.try
         /\ InOrder(job'.c) /\ job'.c.consumed = 0
<1> DEFINE m == InitContext(path[at])
<1>1. InOrder(m) /\ m.consumed = 0
  BY InitInOrder
<1> HIDE DEF m
<1>2. stage' = "build" /\ job' = [J EXCEPT !.c = m]
  BY DEF Begin, m
<1> QED BY <1>1, <1>2 DEF NoJob

LEMMA LookHolds ==
  ASSUME IInv, Look
  PROVE  IInv' /\ (stage' = "build" => job'.allow # "none")
<1> DEFINE S   == Looked(s)
           p   == Pended(s)
           run == lookahead(prog, at)
           br  == lookahead_bridged(prog, at, Opts)
<1>1. /\ stage = "look" /\ at \in Nat /\ at <= Len(prog) /\ IsX87(prog[at]) /\ pend = NoRegion
      /\ s.run \in Nat /\ s.run <= run /\ IsFcn(s) /\ "run" \in DOMAIN s /\ IsSeq(prog)
  BY DEF Look, IInv, Shaped, Looking, Covering
<1>2. Len(prog) \in Nat
  BY <1>1, SeqHas
<1>3. run \in Nat /\ run >= 1
  BY <1>1, <1>2, CoveredIs, LookaheadCovers
<1>4. br.total \in Int
  BY <1>1, <1>2, BridgedIs
<1> HIDE DEF run, br
<1>5. IsFcn(S) /\ DOMAIN S = DOMAIN s /\ S.run \in Nat /\ S.run <= run
  <2>1. CASE active(s)
    BY <1>1, <2>1 DEF Looked
  <2>2. CASE ~active(s)
    <3>1. S = set_run(s, run)
      BY <2>2 DEF Looked, run
    <3>2. run \in Int
      BY <1>3
    <3>3. /\ IsFcn(set_run(s, run)) /\ DOMAIN set_run(s, run) = DOMAIN s
          /\ set_run(s, run).run = IF run >= 2 THEN run ELSE s.run
      BY <1>1, <3>2, SetRunIs
    <3> HIDE DEF S
    <3> QED BY <1>1, <1>3, <3>1, <3>3
  <2> QED BY <2>1, <2>2
<1>6. UNCHANGED <<setting, prog, path, at>> /\ pend' = p
  BY DEF Look
<1>7. CASE RegionDue(S, p)
  <2>1. ~active(s) /\ Opts.allow # "none" /\ br.total > run
        /\ p = [idx |-> at, total |-> br.total, plain |-> run, x87 |-> br.x87]
    BY <1>1, <1>7 DEF RegionDue, Pended, NoRegion, run, br
  <2>2. s.run = 0 /\ S = set_run(s, run)
    BY <1>1, <2>1 DEF active, Looked, run
  <2> DEFINE J == [NoJob EXCEPT !.found = S, !.allow = Opts.allow, !.len = p.total]
  <2>3. s' = set_run(S, p.total) /\ Begin(J)
    BY <1>7 DEF Look
  <2>4. /\ DOMAIN J = DOMAIN NoJob /\ J.found = S /\ J.allow # "none" /\ J.len = br.total
    <3> HIDE DEF S
    <3> QED BY <2>1 DEF NoJob
  <2> HIDE DEF J
  <2>5. /\ stage' = "build" /\ DOMAIN job' = DOMAIN NoJob /\ job'.found = S
        /\ job'.allow # "none" /\ job'.len = br.total /\ InOrder(job'.c) /\ job'.c.consumed = 0
    <3> HIDE DEF S, p
    <3> QED BY <2>3, <2>4, Begun
  <2>6. br.total \in Int /\ br.total >= 2 /\ p.total = br.total /\ p.plain = run
    BY <1>3, <1>4, <2>1
  <2>7. IsFcn(s') /\ DOMAIN s' = DOMAIN s /\ s'.run = br.total
    <3>1. s' = set_run(S, br.total) /\ "run" \in DOMAIN S
      BY <1>1, <1>5, <2>3, <2>6
    <3> HIDE DEF S, p
    <3> QED BY <1>5, <2>6, <3>1, SetRunIs
  <2>8. S.run = IF p.plain >= 2 THEN p.plain ELSE 0
    <3>1. run \in Int
      BY <1>3
    <3>2. set_run(s, run).run = IF run >= 2 THEN run ELSE 0
      BY <1>1, <2>2, <3>1, SetRunIs
    <3> HIDE DEF S, p
    <3> QED BY <2>2, <2>6, <3>2
  <2>9. plain_run(s', pend') = S
    <3>1. s' = set_run(S, br.total) /\ pend' = p
      BY <1>6, <2>3, <2>6
    <3> HIDE DEF S, p
    <3> QED BY <1>1, <1>5, <2>6, <2>8, <3>1, PlainIs
  <2> HIDE DEF S, p
  <2> QED BY <1>1, <1>3, <1>5, <1>6, <2>5, <2>6, <2>7, <2>9 DEF IInv, Shaped, Fresh, Looking, AtX87,
        Gated, Alone, Tried, Built, Compiled, Attempts, run
<1>8. CASE ~RegionDue(S, p)
  <2> DEFINE J == [NoJob EXCEPT !.found = S]
  <2>1. s' = S /\ stage' = "gate" /\ job' = J
    BY <1>8 DEF Look
  <2>2. DOMAIN J = DOMAIN NoJob /\ J.found = S /\ J.len = 0
    <3> HIDE DEF S
    <3> QED BY DEF NoJob
  <2> HIDE DEF S, p, J
  <2> QED BY <1>1, <1>3, <1>5, <1>6, <2>1, <2>2 DEF IInv, Shaped, Fresh, Looking, Covering, AtX87,
        Gated, Alone, Tried, Built, Compiled, Attempts, run
<1> QED BY <1>7, <1>8

-----------------------------------------------------------------------------
(* Every step *)

LEMMA GateHolds ==
  ASSUME IInv, Gate
  PROVE  IInv' /\ (stage' = "single" \/ (stage' = "build" /\ job'.allow = "none"))
<1>1. /\ stage = "gate" /\ at \in Nat /\ at <= Len(prog) /\ IsX87(prog[at]) /\ IsSeq(prog)
      /\ s.run \in Nat /\ Covering /\ IsFcn(s) /\ "run" \in DOMAIN s /\ s = job.found
      /\ DOMAIN job = DOMAIN NoJob /\ job.len \in Nat
  BY DEF Gate, IInv, Shaped, AtX87, Gated
<1>2. UNCHANGED <<setting, prog, path, at>> /\ pend' = NoRegion
  BY DEF Gate
<1>3. CASE ~active(s) \/ GateRefuses(s)
  <2>1. stage' = "single" /\ s' = s /\ job' = [job EXCEPT !.back = s]
    BY <1>3 DEF Gate
  <2>2. DOMAIN job' = DOMAIN NoJob /\ job'.found = s /\ job'.len = job.len
    BY <1>1, <2>1 DEF NoJob
  <2> QED BY <1>1, <1>2, <2>1, <2>2 DEF IInv, Shaped, Fresh, Looking, Covering, AtX87, Gated, Alone,
        Tried, Built, Compiled, Attempts
<1>4. CASE ~(~active(s) \/ GateRefuses(s))
  <2> DEFINE J == [job EXCEPT !.back = s, !.allow = "none", !.len = s.run, !.try = 0]
             F == gate_flush(s)
  <2>1. s' = F /\ Begin(J)
    BY <1>4 DEF Gate
  <2>2. DOMAIN J = DOMAIN NoJob /\ J.found = s /\ J.back = s /\ J.allow = "none" /\ J.len = s.run
    BY <1>1 DEF NoJob
  <2>3. /\ stage' = "build" /\ DOMAIN job' = DOMAIN NoJob /\ job'.found = s /\ job'.back = s
        /\ job'.allow = "none" /\ job'.len = s.run /\ InOrder(job'.c) /\ job'.c.consumed = 0
    <3> HIDE DEF J
    <3> QED BY <2>1, <2>2, Begun
  <2>4. IsFcn(F) /\ DOMAIN F = DOMAIN s /\ F.run = s.run
    BY <1>1, GateKeeps DEF Keeps
  <2>5. s.run > 0
    BY <1>4 DEF active
  <2> HIDE DEF J
  <2>6. IsFcn(s') /\ DOMAIN s' = DOMAIN s /\ s'.run = s.run /\ s' = gate_flush(job'.back)
    BY <2>1, <2>3, <2>4
  <2> HIDE DEF F
  <2> QED BY <1>1, <1>2, <2>3, <2>5, <2>6 DEF IInv, Shaped, Fresh, Looking, Covering, AtX87, Gated,
        Alone, Tried, Built, Compiled, Attempts
<1> QED BY <1>3, <1>4

LEMMA BuildHolds ==
  ASSUME IInv, Build
  PROVE  /\ IInv'
         /\ stage' \in {"build", "optimize", "refuse"} /\ job'.len = job.len /\ job'.allow = job.allow
         /\ stage' = "build" => job'.c.consumed = job.c.consumed + 1
<1>1. /\ stage = "build" /\ InOrder(job.c) /\ job.c.consumed < job.len /\ job.len \in Nat
      /\ DOMAIN job = DOMAIN NoJob
  BY DEF Build, IInv, Shaped, Built, Tried, Attempts
<1> DEFINE i == prog[at + job.c.consumed]
           c == build_step(job.c, build_arm(job.c, i, job.allow))
<1>2. InOrder(c) /\ c.consumed = IF c.ok THEN job.c.consumed + 1 ELSE job.c.consumed
  BY <1>1, StepInOrder
<1>3. /\ job' = [job EXCEPT !.c = c] /\ UNCHANGED <<setting, prog, path, at, s, pend>>
      /\ stage' = IF c.ok /\ c.consumed < job.len THEN "build"
                  ELSE IF Worthwhile(c) /\ (job.allow # "none" => c.consumed = job.len)
                  THEN "optimize" ELSE "refuse"
  BY DEF Build
<1> HIDE DEF c
<1>4. /\ DOMAIN job' = DOMAIN NoJob /\ job'.c = c /\ job'.len = job.len /\ job'.allow = job.allow
      /\ job'.found = job.found /\ job'.back = job.back
  BY <1>1, <1>3 DEF NoJob
<1>5. c.consumed \in Nat /\ job.c.consumed \in Nat /\ c.consumed <= job.len
  BY <1>1, <1>2 DEF InOrder
<1>6. stage' \in {"build", "optimize", "refuse"}
  BY <1>3
<1>7. stage' = "build" => c.consumed < job.len /\ c.consumed = job.c.consumed + 1
  BY <1>2, <1>3
<1>8. stage' = "optimize" => c.consumed >= 2 /\ (job.allow # "none" => c.consumed = job.len)
  BY <1>3 DEF Worthwhile
<1>9. UNCHANGED <<setting, prog, path, at, s, pend>>
  BY <1>3
<1>10. IInv'
  BY <1>1, <1>2, <1>4, <1>5, <1>6, <1>7, <1>8, <1>9 DEF IInv, Shaped, Fresh, Looking, Covering,
    AtX87, Gated, Alone, Tried, Built, Compiled, Attempts
<1> QED BY <1>4, <1>6, <1>7, <1>10

\* What a pass over a compiled run and the refusal of one leave.
LEMMA GrownHolds ==
  ASSUME IInv, stage \in {"optimize", "relieve", "fit"}, UNCHANGED <<setting, prog, path, at, s, pend>>,
         DOMAIN job' = DOMAIN job, job'.len = job.len, job'.allow = job.allow,
         job'.found = job.found, job'.back = job.back, Grows(job.c, job'.c),
         stage' \in {"relieve", "fit", "lower", "refuse"}
  PROVE  IInv'
<1>1. /\ InOrder(job.c) /\ job.c.consumed >= 2 /\ job.c.consumed <= job.len
      /\ (job.allow # "none" => job.c.consumed = job.len) /\ DOMAIN job = DOMAIN NoJob
      /\ job.len \in Nat
  BY DEF IInv, Shaped, Compiled
<1>2. InOrder(job'.c) /\ job'.c.consumed = job.c.consumed
  BY <1>1 DEF Grows
<1> QED BY <1>1, <1>2 DEF IInv, Shaped, Fresh, Looking, Covering, AtX87, Gated, Alone, Tried,
      Built, Compiled, Attempts

LEMMA ContextIs ==
  ASSUME IInv, NEW c
  PROVE  LET J == [job EXCEPT !.c = c]
         IN  /\ DOMAIN J = DOMAIN job /\ J.len = job.len /\ J.allow = job.allow /\ J.found = job.found
             /\ J.back = job.back /\ J.c = c
BY DEF IInv, Shaped, NoJob

LEMMA OptimizeHolds ==
  ASSUME IInv, Optimize
  PROVE  IInv' /\ stage' = "relieve" /\ job'.len = job.len /\ job'.allow = job.allow
<1> DEFINE c == optimize(job.c, Opts)
           J == [job EXCEPT !.c = c]
<1>1. /\ stage = "optimize" /\ stage' = "relieve" /\ job' = J
      /\ UNCHANGED <<setting, prog, path, at, s, pend>>
  BY DEF Optimize
<1>2. Grows(job.c, c)
  BY OptimizeGrows
<1> HIDE DEF c
<1>3. /\ DOMAIN J = DOMAIN job /\ J.len = job.len /\ J.allow = job.allow /\ J.found = job.found
      /\ J.back = job.back /\ J.c = c
  BY ContextIs
<1> HIDE DEF J
<1> QED BY <1>1, <1>2, <1>3, GrownHolds

LEMMA RelieveHolds ==
  ASSUME IInv, Relieve
  PROVE  IInv' /\ stage' = "fit" /\ job'.len = job.len /\ job'.allow = job.allow
<1> DEFINE b == AvailableFprs(s, Opts)
           c == remat_relieve_fpr_pressure(job.c, b)
           J == [job EXCEPT !.c = c]
<1>1. /\ stage = "relieve" /\ stage' = "fit" /\ UNCHANGED <<setting, prog, path, at, s, pend>>
      /\ job' = J \/ job' = job
  BY DEF Relieve
<1>2. InOrder(job.c)
  BY <1>1 DEF IInv, Compiled
<1>3. Grows(job.c, c)
  BY <1>2, RelieveGrows
<1>4. CASE job' = J
  <2> HIDE DEF c
  <2>1. /\ DOMAIN J = DOMAIN job /\ J.len = job.len /\ J.allow = job.allow /\ J.found = job.found
        /\ J.back = job.back /\ J.c = c
    BY ContextIs
  <2> HIDE DEF J
  <2> QED BY <1>1, <1>3, <1>4, <2>1, GrownHolds
<1>5. CASE job' = job
  <2>1. Grows(job.c, job.c)
    BY GrowsSame
  <2> QED BY <1>1, <1>5, <2>1, GrownHolds
<1> QED BY <1>1, <1>4, <1>5

LEMMA RetryHolds ==
  ASSUME IInv, stage = "fit", NEW over, Retry(over), UNCHANGED <<setting, prog, path, at, s, pend>>
  PROVE  /\ IInv'
         /\ \/ stage' = "refuse" /\ job'.len = job.len /\ job'.allow = job.allow
            \/ stage' = "build" /\ job'.len < job.len /\ job'.allow = job.allow
<1>1. CASE ~MaySplit(job.c, over, job.len, job.try, job.allow, Opts)
  <2>1. stage' = "refuse" /\ job' = job
    BY <1>1 DEF Retry
  <2>2. Grows(job.c, job.c)
    BY GrowsSame
  <2> QED BY <2>1, <2>2, GrownHolds
<1>2. CASE MaySplit(job.c, over, job.len, job.try, job.allow, Opts)
  <2> DEFINE n == split_prefix_len(job.c, over, job.len)
             J == [job EXCEPT !.len = n, !.try = @ + 1]
  <2>1. /\ InOrder(job.c) /\ job.len \in Nat /\ DOMAIN job = DOMAIN NoJob
    BY DEF IInv, Shaped, Tried, Attempts, Compiled
  <2>2. n \in Int /\ n < job.len
    BY <2>1, CutIs
  <2>3. Begin(J) /\ n >= 3 /\ job.allow = "none"
    BY <1>2 DEF Retry, MaySplit
  <2> HIDE DEF n
  <2>4. /\ DOMAIN J = DOMAIN NoJob /\ J.found = job.found /\ J.back = job.back
        /\ J.allow = job.allow /\ J.len = n
    BY <2>1 DEF NoJob
  <2> HIDE DEF J
  <2>5. /\ stage' = "build" /\ DOMAIN job' = DOMAIN NoJob /\ job'.found = job.found
        /\ job'.back = job.back /\ job'.allow = job.allow /\ job'.len = n
        /\ InOrder(job'.c) /\ job'.c.consumed = 0
    BY <2>3, <2>4, Begun
  <2> QED BY <2>1, <2>2, <2>3, <2>5 DEF IInv, Shaped, Fresh, Looking, Covering, AtX87, Gated, Alone,
        Tried, Built, Compiled, Attempts
<1> QED BY <1>1, <1>2

LEMMA FitHolds ==
  ASSUME IInv, Fit
  PROVE  /\ IInv'
         /\ \/ stage' \in {"refuse", "lower"} /\ job'.len = job.len /\ job'.allow = job.allow
            \/ stage' = "build" /\ job'.len < job.len /\ job'.allow = job.allow
<1>1. stage = "fit" /\ UNCHANGED <<setting, prog, path, at, s, pend>>
  BY DEF Fit
<1>2. \/ \E over : Retry(over)
      \/ stage' \in {"refuse", "lower"} /\ job' = job
  BY DEF Fit
<1>3. CASE \E over : Retry(over)
  BY <1>1, <1>3, RetryHolds
<1>4. CASE stage' \in {"refuse", "lower"} /\ job' = job
  <2>1. Grows(job.c, job.c)
    BY GrowsSame
  <2> QED BY <1>1, <1>4, <2>1, GrownHolds
<1> QED BY <1>2, <1>3, <1>4

\* A translated instruction or region ends the stay at one place.
LEMMA PastHolds ==
  ASSUME IInv, NEW n \in Nat, n >= 1, Past(n), pend' = NoRegion,
         IsFcn(s'), DOMAIN s' = DOMAIN s, s'.run \in Nat, s'.run <= lookahead(prog, at + n)
  PROVE  IInv'
<1>1. /\ at \in Nat /\ IsSeq(prog) /\ "run" \in DOMAIN s
  BY DEF IInv, Shaped
<1>2. stage' = "look" /\ at' = at + n /\ job' = NoJob /\ prog' = prog /\ job'.len = 0
  BY DEF Past, NoJob
<1> QED BY <1>1, <1>2 DEF IInv, Shaped, Fresh, Looking, Covering, AtX87, Gated, Alone, Tried, Built,
      Compiled, Attempts

LEMMA LowerHolds ==
  ASSUME IInv, Lower
  PROVE  IInv' /\ at' > at
<1> DEFINE n == job.c.consumed
           T == lower(job.c, s)
           U == Tidied(Ticked(T, n))
<1>1. /\ stage = "lower" /\ s' = U /\ pend' = NoRegion /\ Past(n)
  BY DEF Lower
<1>2. /\ InOrder(job.c) /\ n \in Nat /\ n >= 1 /\ n <= job.len /\ at \in Nat /\ IsSeq(prog)
      /\ s.run \in Nat /\ "run" \in DOMAIN s
      /\ Covering \/ s.run = n
  BY <1>1 DEF IInv, Shaped, Tried, Attempts, Compiled, InOrder
<1>3. Keeps(s, T)
  <2>1. Len(job.c.nodes) \in Nat /\ "nodes" \in DOMAIN job.c
    BY <1>2, SeqHas DEF InOrder, NodeList
  <2> QED BY <2>1, LowerKeeps
<1> HIDE DEF T
<1>4. IsFcn(U) /\ DOMAIN U = DOMAIN s /\ U.run = IF s.run > n THEN s.run - n ELSE 0
  BY <1>2, <1>3, TidyIs DEF Keeps
<1>5. /\ lookahead(prog, at + n) \in Nat /\ lookahead(prog, at) \in Nat
      /\ lookahead(prog, at) <= n + lookahead(prog, at + n)
  BY <1>2, SeqHas, LookaheadOn
<1> HIDE DEF U, n
<1>6. U.run \in Nat /\ U.run <= lookahead(prog, at + n)
  BY <1>2, <1>4, <1>5 DEF Covering
<1>7. IInv'
  BY <1>1, <1>2, <1>4, <1>6, PastHolds
<1> QED BY <1>1, <1>2, <1>7 DEF Past

LEMMA RefuseHolds ==
  ASSUME IInv, Refuse
  PROVE  IInv' /\ stage' = IF job.allow # "none" THEN "gate" ELSE "single"
<1>1. /\ stage = "refuse" /\ UNCHANGED <<setting, prog, path, at, pend>>
      /\ job' = [job EXCEPT !.c = None]
  BY DEF Refuse
<1>2. /\ DOMAIN job = DOMAIN NoJob /\ at \in Nat /\ at <= Len(prog) /\ IsX87(prog[at]) /\ IsSeq(prog)
      /\ IsFcn(s) /\ "run" \in DOMAIN s /\ s.run \in Nat /\ job.len \in Nat
  BY <1>1 DEF IInv, Shaped, AtX87, Attempts
<1>3. /\ DOMAIN job' = DOMAIN NoJob /\ job'.found = job.found /\ job'.back = job.back
      /\ job'.len = job.len
  BY <1>1, <1>2 DEF NoJob
<1>4. CASE job.allow # "none"
  <2> DEFINE T == plain_run(s, pend)
  <2>1. T = job.found /\ job.found.run \in Nat /\ job.found.run <= lookahead(prog, at)
    BY <1>1, <1>4 DEF IInv, Tried, Attempts
  <2>2. s' = T /\ stage' = "gate"
    BY <1>4 DEF Refuse
  <2>3. IsFcn(T) /\ DOMAIN T = DOMAIN s
    BY <1>2 DEF plain_run, IsFcn
  <2> HIDE DEF T
  <2> QED BY <1>1, <1>2, <1>3, <1>4, <2>1, <2>2, <2>3 DEF IInv, Shaped, Fresh, Looking, Covering,
        AtX87, Gated, Alone, Tried, Built, Compiled, Attempts
<1>5. CASE job.allow = "none"
  <2>1. /\ IsFcn(job.back) /\ job.back = job.found /\ s = gate_flush(job.back) /\ pend = NoRegion
        /\ Covering
    BY <1>1, <1>5 DEF IInv, Tried, Attempts
  <2>2. Keeps(job.back, s)
    BY <2>1, GateKeeps
  <2>3. rollback(job.back, s) = job.back
    BY <2>1, RollbackIs
  <2>4. stage' = "single" /\ s' = IF rollback_allowed(job.back) THEN rollback(job.back, s) ELSE s
    BY <1>5 DEF Refuse
  <2>5. IsFcn(s') /\ DOMAIN s' = DOMAIN s /\ s'.run = s.run
    BY <1>2, <2>1, <2>2, <2>3, <2>4 DEF Keeps
  <2>6. rollback_allowed(job.back)' => s' = job'.found
    <3>1. rollback_allowed(job.back)' <=> rollback_allowed(job.back)
      BY <1>1, <1>3 DEF rollback_allowed, Opts
    <3> QED BY <1>3, <2>1, <2>3, <2>4, <3>1
  <2> QED BY <1>1, <1>2, <1>3, <1>5, <2>1, <2>4, <2>5, <2>6 DEF IInv, Shaped, Fresh, Looking, Covering,
        AtX87, Gated, Alone, Tried, Built, Compiled, Attempts
<1> QED BY <1>4, <1>5

LEMMA OneHolds ==
  ASSUME IInv, TranslateOne
  PROVE  IInv' /\ at' > at
<1> DEFINE T == translate_one(s, prog[at])
           U == Tidied(Ticked(T, 1))
<1>1. stage = "single" /\ s' = U /\ pend' = pend /\ Past(1)
  BY DEF TranslateOne
<1>2. /\ at \in Nat /\ IsSeq(prog) /\ s.run \in Nat /\ "run" \in DOMAIN s /\ Covering
      /\ pend = NoRegion
  BY <1>1 DEF IInv, Shaped, Alone
<1>3. Keeps(s, T)
  BY TranslateOneKeeps
<1> HIDE DEF T
<1>4. IsFcn(U) /\ DOMAIN U = DOMAIN s /\ U.run = IF s.run > 1 THEN s.run - 1 ELSE 0
  BY <1>2, <1>3, TidyIs DEF Keeps
<1>5. /\ lookahead(prog, at + 1) \in Nat /\ lookahead(prog, at) \in Nat
      /\ lookahead(prog, at) <= 1 + lookahead(prog, at + 1)
  BY <1>2, SeqHas, LookaheadOn
<1> HIDE DEF U
<1>6. U.run \in Nat /\ U.run <= lookahead(prog, at + 1)
  BY <1>2, <1>4, <1>5 DEF Covering
<1>7. IInv'
  BY <1>1, <1>2, <1>4, <1>6, PastHolds
<1> QED BY <1>1, <1>2, <1>7 DEF Past

LEMMA StockHolds ==
  ASSUME IInv, TranslateStock
  PROVE  IInv' /\ at' > at
<1> DEFINE T == P!Step(s, prog[at])
<1>1. /\ stage = "look" /\ ~IsX87(prog[at]) /\ s' = T /\ pend' = pend /\ Past(1)
  BY DEF TranslateStock
<1>2. /\ at \in Nat /\ IsSeq(prog) /\ s.run \in Nat /\ "run" \in DOMAIN s /\ Covering
      /\ pend = NoRegion /\ IsFcn(s)
  BY <1>1 DEF IInv, Shaped, Looking
<1>3. Keeps(s, T) /\ IsFcn(T)
  BY <1>1, <1>2, StockKeeps, StockIsFcn
<1> HIDE DEF T
<1>4. lookahead(prog, at) = 0 /\ lookahead(prog, at + 1) \in Nat
  BY <1>1, <1>2, SeqHas, LookaheadCovers, LookaheadOn
<1>5. DOMAIN T = DOMAIN s /\ T.run \in Nat /\ T.run <= lookahead(prog, at + 1)
  BY <1>2, <1>3, <1>4 DEF Covering, Keeps
<1>6. IInv'
  BY <1>1, <1>2, <1>3, <1>5, PastHolds
<1> QED BY <1>1, <1>2, <1>6 DEF Past

-----------------------------------------------------------------------------
(* What the steps keep *)

LEMMA NextHolds == IInv /\ [Next]_vars => IInv'
<1> SUFFICES ASSUME IInv, [Next]_vars PROVE IInv'
  OBVIOUS
<1>1. CASE (\E i \in Letters : Write(i)) \/ Submit
  BY <1>1, WritingHolds
<1>2. CASE Look
  BY <1>2, LookHolds
<1>3. CASE Gate
  BY <1>3, GateHolds
<1>4. CASE Build
  BY <1>4, BuildHolds
<1>5. CASE Optimize
  BY <1>5, OptimizeHolds
<1>6. CASE Relieve
  BY <1>6, RelieveHolds
<1>7. CASE Fit
  BY <1>7, FitHolds
<1>8. CASE Lower
  BY <1>8, LowerHolds
<1>9. CASE Refuse
  BY <1>9, RefuseHolds
<1>10. CASE TranslateOne
  BY <1>10, OneHolds
<1>11. CASE TranslateStock
  BY <1>11, StockHolds
<1>12. CASE Stop \/ UNCHANGED vars
  <2>1. UNCHANGED vars
    BY <1>12 DEF Stop
  <2> QED BY <2>1 DEF vars, IInv, Shaped, Fresh, Looking, Covering, AtX87, Gated, Alone, Tried,
        Built, Compiled, Attempts, rollback_allowed, Opts
<1> QED BY <1>1, <1>2, <1>3, <1>4, <1>5, <1>6, <1>7, <1>8, <1>9, <1>10, <1>11, <1>12 DEF Next, Translate

\* The invariant the three results below follow from.
THEOREM Inductive == Spec => []IInv
<1>1. Init => IInv
  BY InitHolds
<1>2. IInv /\ [Next]_vars => IInv'
  BY NextHolds
<1> QED BY <1>1, <1>2, PTL DEF Spec

\* A refused attempt leaves no trace, of the flush in front of it or of the
\* region that was tried: translate_insn goes on to the emitter of the one
\* instruction with the state it had when it looked ahead.
THEOREM RefusalLeavesNoTrace == Spec => []RefusalRestores
<1>1. IInv => RefusalRestores
  BY DEF IInv, Alone, RefusalRestores
<1> QED BY <1>1, Inductive, PTL

\* Whatever attempts were made, cut short or refused on the way, the run never
\* covers an instruction that is not of the x87.
THEOREM RunStaysWithinX87 == Spec => []RunWithinX87
<1>1. IInv => RunWithinX87
  BY DEF IInv, Looking, Covering, RunWithinX87
<1> QED BY <1>1, Inductive, PTL

-----------------------------------------------------------------------------
(* Progress *)

\* How far an attempt has come.
Reached(t) ==
  IF \E k \in DOMAIN Attempt : Attempt[k] = t THEN CHOOSE k \in DOMAIN Attempt : Attempt[k] = t ELSE 0

LEMMA ReachedIs ==
  /\ Reached("build") = 6 /\ Reached("optimize") = 5 /\ Reached("relieve") = 4
  /\ Reached("fit") = 3 /\ Reached("refuse") = 2 /\ Reached("lower") = 1
<1>1. DOMAIN Attempt = 1..6
  BY DEF Attempt
<1>2. /\ Attempt[1] = "lower" /\ Attempt[2] = "refuse" /\ Attempt[3] = "fit" /\ Attempt[4] = "relieve"
      /\ Attempt[5] = "optimize" /\ Attempt[6] = "build"
  BY DEF Attempt
<1>3. \A k \in 1..6 : k = 1 \/ k = 2 \/ k = 3 \/ k = 4 \/ k = 5 \/ k = 6
  OBVIOUS
<1>4. \A n \in 1..6 : Reached(Attempt[n]) = n
  <2> SUFFICES ASSUME NEW n \in 1..6 PROVE Reached(Attempt[n]) = n
    OBVIOUS
  <2>1. \A k \in DOMAIN Attempt : Attempt[k] = Attempt[n] => k = n
    BY <1>1, <1>2, <1>3
  <2>2. n \in DOMAIN Attempt
    BY <1>1
  <2> QED BY <2>1, <2>2 DEF Reached
<1> QED BY <1>2, <1>4

\* What remains, in its parts.
LEMMA RemainingIs ==
  /\ DOMAIN Remaining = 1..5
  /\ Remaining[1] = Len(prog) - at /\ Remaining[2] = Phase /\ Remaining[3] = job.len
  /\ Remaining[4] = Reached(stage)
  /\ Remaining[5] = IF stage = "build" THEN job.len - job.c.consumed ELSE 0
BY DEF Remaining, Reached

LEMMA LessAt ==
  ASSUME NEW a, NEW b, DOMAIN a = 1..5, NEW k \in 1..5, a[k] < b[k], \A j \in 1..k - 1 : a[j] = b[j]
  PROVE  Less(a, b)
BY DEF Less

LEMMA LessFrom ==
  ASSUME NEW a, NEW b, DOMAIN a = 1..5, a[1] = b[1], a[2] = b[2],
         a[3] < b[3] \/ (a[3] = b[3] /\ (a[4] < b[4] \/ (a[4] = b[4] /\ a[5] < b[5])))
  PROVE  Less(a, b)
<1>1. ASSUME a[3] < b[3] PROVE Less(a, b)
  <2>1. \A j \in 1..3 - 1 : j = 1 \/ j = 2
    OBVIOUS
  <2>2. 3 \in 1..5
    OBVIOUS
  <2> QED BY <1>1, <2>1, <2>2 DEF Less
<1>2. ASSUME a[3] = b[3], a[4] < b[4] PROVE Less(a, b)
  <2>1. \A j \in 1..4 - 1 : j = 1 \/ j = 2 \/ j = 3
    OBVIOUS
  <2>2. 4 \in 1..5
    OBVIOUS
  <2> QED BY <1>2, <2>1, <2>2 DEF Less
<1>3. ASSUME a[3] = b[3], a[4] = b[4], a[5] < b[5] PROVE Less(a, b)
  <2>1. \A j \in 1..5 - 1 : j = 1 \/ j = 2 \/ j = 3 \/ j = 4
    OBVIOUS
  <2>2. 5 \in 1..5
    OBVIOUS
  <2> QED BY <1>3, <2>1, <2>2 DEF Less
<1> QED BY <1>1, <1>2, <1>3

LEMMA RemainingAfter ==
  /\ DOMAIN Remaining' = 1..5
  /\ Remaining'[1] = Len(prog') - at' /\ Remaining'[2] = Phase' /\ Remaining'[3] = job'.len
  /\ Remaining'[4] = Reached(stage')
  /\ Remaining'[5] = IF stage' = "build" THEN job'.len - job'.c.consumed ELSE 0
BY DEF Remaining, Reached

LEMMA PhaseIs ==
  /\ stage = "look" => Phase = 4
  /\ stage = "gate" => Phase = 2
  /\ stage = "single" => Phase = 0
  /\ stage \in Attempts => Phase = IF job.allow # "none" THEN 3 ELSE 1
BY DEF Phase, Attempts

LEMMA PhaseAfter ==
  /\ stage' = "look" => Phase' = 4
  /\ stage' = "gate" => Phase' = 2
  /\ stage' = "single" => Phase' = 0
  /\ stage' \in Attempts => Phase' = IF job'.allow # "none" THEN 3 ELSE 1
BY DEF Phase, Attempts

\* A step at one place of the program that comes to a later phase.
LEMMA LaterPhase ==
  ASSUME UNCHANGED <<prog, at>>, Phase' < Phase
  PROVE  Less(Remaining', Remaining)
<1> DEFINE a == Remaining'
           b == Remaining
<1>1. DOMAIN a = 1..5 /\ a[2] < b[2] /\ \A j \in 1..2 - 1 : a[j] = b[j]
  BY RemainingIs, RemainingAfter
<1> HIDE DEF a, b
<1>2. Less(a, b)
  BY <1>1, LessAt
<1> QED BY <1>2 DEF a, b

\* A step of an attempt that comes further in it, or makes it shorter.
LEMMA LaterStep ==
  ASSUME UNCHANGED <<prog, at>>, stage \in Attempts, stage' \in Attempts, job'.allow = job.allow,
         \/ job'.len < job.len
         \/ job'.len = job.len /\ Reached(stage') < Reached(stage)
         \/ /\ job'.len = job.len /\ stage' = stage /\ stage = "build"
            /\ job'.len - job'.c.consumed < job.len - job.c.consumed
  PROVE  Less(Remaining', Remaining)
<1> DEFINE a == Remaining'
           b == Remaining
<1>1. Phase' = Phase
  BY PhaseIs, PhaseAfter
<1>2. DOMAIN a = 1..5 /\ a[1] = b[1] /\ a[2] = b[2]
  BY <1>1, RemainingIs, RemainingAfter
<1>3. a[3] < b[3] \/ (a[3] = b[3] /\ (a[4] < b[4] \/ (a[4] = b[4] /\ a[5] < b[5])))
  BY RemainingIs, RemainingAfter
<1> HIDE DEF a, b
<1>4. Less(a, b)
  BY <1>2, <1>3, LessFrom
<1> QED BY <1>4 DEF a, b

LEMMA LaterPlace ==
  ASSUME IInv, UNCHANGED prog, at' \in Nat, at' > at
  PROVE  Less(Remaining', Remaining)
<1> DEFINE a == Remaining'
           b == Remaining
<1>1. Len(prog) \in Nat /\ at \in Nat
  BY SeqHas DEF IInv, Shaped
<1>2. DOMAIN a = 1..5 /\ a[1] < b[1] /\ \A j \in 1..1 - 1 : a[j] = b[j]
  BY <1>1, RemainingIs, RemainingAfter
<1> HIDE DEF a, b
<1>3. Less(a, b)
  BY <1>2, LessAt
<1> QED BY <1>3 DEF a, b

LEMMA StepsDown ==
  ASSUME IInv, Translate
  PROVE  Less(Remaining', Remaining)
<1>1. CASE Look
  <2>1. /\ stage = "look" /\ UNCHANGED <<prog, at>> /\ (stage' = "build" => job'.allow # "none")
    BY <1>1, LookHolds DEF Look
  <2>2. stage' \in {"build", "gate"}
    BY <1>1 DEF Look, Begin
  <2>3. Phase' < Phase
    BY <2>1, <2>2, PhaseIs, PhaseAfter DEF Attempts
  <2> QED BY <2>1, <2>3, LaterPhase
<1>2. CASE Gate
  <2>1. /\ stage = "gate" /\ UNCHANGED <<prog, at>>
        /\ stage' = "single" \/ (stage' = "build" /\ job'.allow = "none")
    BY <1>2, GateHolds DEF Gate
  <2>2. Phase' < Phase
    BY <2>1, PhaseIs, PhaseAfter DEF Attempts
  <2> QED BY <2>1, <2>2, LaterPhase
<1>3. CASE Build
  <2>1. /\ stage = "build" /\ UNCHANGED <<prog, at>> /\ stage' \in {"build", "optimize", "refuse"}
        /\ job'.len = job.len /\ job'.allow = job.allow
        /\ stage' = "build" => job'.c.consumed = job.c.consumed + 1
    BY <1>3, BuildHolds DEF Build
  <2>2. job.len \in Nat /\ job.c.consumed \in Nat
    BY <2>1 DEF IInv, Shaped, Built, InOrder
  <2>3. \/ Reached(stage') < Reached(stage)
        \/ stage' = stage /\ job'.len - job'.c.consumed < job.len - job.c.consumed
    BY <2>1, <2>2, ReachedIs
  <2> QED BY <2>1, <2>3, LaterStep DEF Attempts
<1>4. CASE Optimize
  <2>1. /\ stage = "optimize" /\ UNCHANGED <<prog, at>> /\ stage' = "relieve"
        /\ job'.len = job.len /\ job'.allow = job.allow
    BY <1>4, OptimizeHolds DEF Optimize
  <2>2. Reached(stage') < Reached(stage)
    BY <2>1, ReachedIs
  <2> QED BY <2>1, <2>2, LaterStep DEF Attempts
<1>5. CASE Relieve
  <2>1. /\ stage = "relieve" /\ UNCHANGED <<prog, at>> /\ stage' = "fit"
        /\ job'.len = job.len /\ job'.allow = job.allow
    BY <1>5, RelieveHolds DEF Relieve
  <2>2. Reached(stage') < Reached(stage)
    BY <2>1, ReachedIs
  <2> QED BY <2>1, <2>2, LaterStep DEF Attempts
<1>6. CASE Fit
  <2>1. /\ stage = "fit" /\ UNCHANGED <<prog, at>> /\ job'.allow = job.allow
        /\ \/ stage' \in {"refuse", "lower"} /\ job'.len = job.len
           \/ stage' = "build" /\ job'.len < job.len
    BY <1>6, FitHolds DEF Fit
  <2>2. stage' \in {"refuse", "lower"} => Reached(stage') < Reached(stage)
    BY <2>1, ReachedIs
  <2> QED BY <2>1, <2>2, LaterStep DEF Attempts
<1>7. CASE Lower
  <2>1. at' > at /\ UNCHANGED prog /\ at' \in Nat
    BY <1>7, LowerHolds DEF Lower, Past, IInv, Shaped
  <2> QED BY <2>1, LaterPlace
<1>8. CASE Refuse
  <2>1. /\ stage = "refuse" /\ UNCHANGED <<prog, at>>
        /\ stage' = IF job.allow # "none" THEN "gate" ELSE "single"
    BY <1>8, RefuseHolds DEF Refuse
  <2>2. Phase' < Phase
    BY <2>1, PhaseIs, PhaseAfter DEF Attempts
  <2> QED BY <2>1, <2>2, LaterPhase
<1>9. CASE TranslateOne
  <2>1. at' > at /\ UNCHANGED prog /\ at' \in Nat
    BY <1>9, OneHolds DEF TranslateOne, Past, IInv, Shaped
  <2> QED BY <2>1, LaterPlace
<1>10. CASE TranslateStock
  <2>1. at' > at /\ UNCHANGED prog /\ at' \in Nat
    BY <1>10, StockHolds DEF TranslateStock, Past, IInv, Shaped
  <2> QED BY <2>1, LaterPlace
<1> QED BY <1>1, <1>2, <1>3, <1>4, <1>5, <1>6, <1>7, <1>8, <1>9, <1>10 DEF Translate

\* Every program is translated to its end: each step of translate_insn and of
\* compile_run leaves less to do, in the order of the program, the attempts at
\* one place, the length of an attempt and the work on it.
THEOREM TranslationFinishes == Spec => Finishes
<1>1. IInv /\ [Next]_vars => [at > 0 => Less(Remaining', Remaining)]_vars
  <2> SUFFICES ASSUME IInv, [Next]_vars, at > 0, ~UNCHANGED vars
               PROVE  Less(Remaining', Remaining)
    OBVIOUS
  <2>1. ~((\E i \in Letters : Write(i)) \/ Submit)
    BY DEF Write, Submit, IInv, Fresh
  <2>2. Translate
    BY <2>1 DEF Next, Stop
  <2> QED BY <2>2, StepsDown
<1>2. Spec => []IInv /\ [][Next]_vars
  BY Inductive, PTL DEF Spec
<1> QED BY <1>1, <1>2, PTL DEF Finishes

\* What is left to do is counted in natural numbers as long as there is an
\* instruction to translate, so that the steps do come to an end.
Counted == at > 0 /\ at <= Len(prog) => \A k \in DOMAIN Remaining : Remaining[k] \in Nat

THEOREM RemainingIsCounted == Spec => []Counted
<1>1. ASSUME IInv, at <= Len(prog) PROVE \A k \in DOMAIN Remaining : Remaining[k] \in Nat
  <2>1. Len(prog) \in Nat /\ at \in Nat /\ job.len \in Nat
    BY <1>1, SeqHas DEF IInv, Shaped
  <2>2. stage \in {"write", "look", "gate", "single"} \cup Attempts
    BY <1>1 DEF IInv, Shaped
  <2>3. Phase \in Nat
    BY <2>2, PhaseIs DEF Phase, Attempts
  <2>4. Reached(stage) \in Nat
    <3>1. DOMAIN Attempt = 1..6
      BY DEF Attempt
    <3> QED BY <3>1 DEF Reached
  <2>5. stage = "build" => job.len - job.c.consumed \in Nat
    BY <1>1, <2>1 DEF IInv, Built, InOrder
  <2>6. Remaining[1] \in Nat
    BY <1>1, <2>1, RemainingIs
  <2>7. \A k \in 1..5 : k = 1 \/ k = 2 \/ k = 3 \/ k = 4 \/ k = 5
    OBVIOUS
  <2> QED BY <2>1, <2>3, <2>4, <2>5, <2>6, <2>7, RemainingIs
<1>2. IInv => Counted
  BY <1>1 DEF Counted
<1> QED BY <1>2, Inductive, PTL
=============================================================================
