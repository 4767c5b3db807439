--------------------------- MODULE X87Walk_proofs ---------------------------
(***************************************************************************)
(* Induction along a Walk, for whatever a turn does: what holds before the *)
(* first turn and is kept by every turn holds at the end.  A proof about a *)
(* loop instantiates this module for it.                                   *)
(*                                                                         *)
(* A lemma takes induction over the naturals as a hypothesis, so that the  *)
(* instances do not each bring a library of their own; Induction of        *)
(* X87Region_proofs is that hypothesis, proved.                            *)
(***************************************************************************)
EXTENDS X87Walk

CONSTANTS
  Turn(_, _, _, _, _),  \* a turn: three things the loop reads, what has come so
                        \* far, and the element
  Kept(_, _, _, _, _)   \* what a turn keeps, from where the loop started, of
                        \* what has come so far

Through(c, d, x, base, seq) == Walk(LAMBDA K, e : Turn(c, d, x, K, e), base, seq)

\* What the first k turns come to, given what all before them came to.
After(c, d, x, base, seq, f, k) ==
  IF k = 0 THEN base ELSE Turn(c, d, x, f[k - 1], seq[k])
Solves(c, d, x, base, seq, f, n) ==
  f = [k \in 0..n |-> After(c, d, x, base, seq, f, k)]

\* The turns have results, one after the other.
LEMMA Results ==
  ASSUME \A U \in SUBSET Nat : (0 \in U /\ \A m \in U : m + 1 \in U) => U = Nat,
         NEW c, NEW d, NEW x, NEW base, NEW seq, NEW n \in Nat
  PROVE  \E f : Solves(c, d, x, base, seq, f, n)
<1> DEFINE Solved(f, m) == Solves(c, d, x, base, seq, f, m)
           S == {m \in Nat : \E f : Solved(f, m)}
<1> USE DEF Solves
<1>1. 0 \in S
  <2>1. Solved([k \in 0..0 |-> base], 0)
    BY DEF After
  <2> QED BY <2>1
<1>2. ASSUME NEW m \in Nat, m \in S PROVE m + 1 \in S
  <2> PICK f : Solved(f, m)
    BY <1>2
  <2> DEFINE e == [k \in 0..m + 1 |-> IF k = m + 1 THEN Turn(c, d, x, f[m], seq[m + 1]) ELSE f[k]]
  <2>1. ASSUME NEW k \in 0..m + 1 PROVE e[k] = After(c, d, x, base, seq, e, k)
    <3>1. CASE k = m + 1
      <4>1. k # 0 /\ k - 1 = m /\ m \in 0..m + 1 /\ m # m + 1
        BY <3>1
      <4> QED BY <3>1, <4>1 DEF After
    <3>2. CASE k # m + 1 /\ k # 0
      <4>1. k \in 0..m /\ k - 1 \in 0..m + 1 /\ k - 1 # m + 1
        BY <3>2
      <4>2. e[k] = f[k] /\ e[k - 1] = f[k - 1]
        BY <3>2, <4>1
      <4>3. f[k] = After(c, d, x, base, seq, f, k)
        BY <4>1
      <4> HIDE DEF e
      <4> QED BY <4>2, <4>3 DEF After
    <3>3. CASE k = 0
      <4>1. 0 \in 0..m /\ 0 # m + 1
        OBVIOUS
      <4>2. f[0] = base
        BY <4>1 DEF After
      <4> QED BY <3>3, <4>1, <4>2 DEF After
    <3> QED BY <3>1, <3>2, <3>3
  <2>2. e = [k \in 0..m + 1 |-> e[k]]
    OBVIOUS
  <2> HIDE DEF e
  <2> QED BY <2>1, <2>2
<1> HIDE DEF S, Solves
<1>3. n \in S
  <2>1. S \in SUBSET Nat
    BY DEF S
  <2> QED BY <1>1, <1>2, <2>1
<1> QED BY <1>3 DEF S

\* A Walk keeps what each of its turns keeps.
LEMMA WalkKeeps ==
  ASSUME \A U \in SUBSET Nat : (0 \in U /\ \A m \in U : m + 1 \in U) => U = Nat,
         NEW c, NEW d, NEW x, NEW base, NEW seq, Len(seq) \in Nat, Kept(c, d, x, base, base),
         \A n \in 1..Len(seq) : \A K : Kept(c, d, x, base, K) => Kept(c, d, x, base, Turn(c, d, x, K, seq[n]))
  PROVE  Kept(c, d, x, base, Through(c, d, x, base, seq))
<1> DEFINE N == Len(seq)
           f == CHOOSE f : Solves(c, d, x, base, seq, f, N)
           S == {k \in Nat : k <= N => Kept(c, d, x, base, f[k])}
<1>1. Solves(c, d, x, base, seq, f, N)
  BY Results
<1>2. Through(c, d, x, base, seq) = f[N]
  BY DEF Through, Walk, After, Solves
<1> HIDE DEF f
<1>3. 0 \in S
  <2>1. f[0] = base
    BY <1>1 DEF After, Solves
  <2> QED BY <2>1
<1>4. ASSUME NEW k \in Nat, k \in S PROVE k + 1 \in S
  <2> SUFFICES ASSUME k + 1 <= N PROVE Kept(c, d, x, base, f[k + 1])
    OBVIOUS
  <2>1. k + 1 \in 0..N /\ k + 1 # 0 /\ (k + 1) - 1 = k /\ k + 1 \in 1..Len(seq) /\ k <= N
    OBVIOUS
  <2>2. f[k + 1] = Turn(c, d, x, f[k], seq[k + 1])
    BY <1>1, <2>1 DEF After, Solves
  <2>3. Kept(c, d, x, base, f[k])
    BY <1>4, <2>1
  <2> QED BY <2>1, <2>2, <2>3
<1> HIDE DEF S
<1>5. N \in S
  <2>1. S \in SUBSET Nat
    BY DEF S
  <2> QED BY <1>3, <1>4, <2>1
<1>6. N <= N => Kept(c, d, x, base, f[N])
  BY <1>5 DEF S
<1>7. N <= N
  OBVIOUS
<1> QED BY <1>2, <1>6, <1>7

\* The states a Walk goes through, from base to what it comes to.
Runs(c, d, x, base, seq, f) ==
  /\ f[0] = base
  /\ \A k \in 1..Len(seq) : f[k] = Turn(c, d, x, f[k - 1], seq[k])
  /\ Through(c, d, x, base, seq) = f[Len(seq)]
LEMMA Unrolled ==
  ASSUME \A U \in SUBSET Nat : (0 \in U /\ \A m \in U : m + 1 \in U) => U = Nat,
         NEW c, NEW d, NEW x, NEW base, NEW seq, Len(seq) \in Nat
  PROVE  \E f : Runs(c, d, x, base, seq, f)
<1> DEFINE N == Len(seq)
           f == CHOOSE f : Solves(c, d, x, base, seq, f, N)
<1>1. Solves(c, d, x, base, seq, f, N)
  BY Results
<1>2. Through(c, d, x, base, seq) = f[N]
  BY DEF Through, Walk, After, Solves
<1> HIDE DEF f
<1>3. f[0] = base
  BY <1>1 DEF After, Solves
<1>4. ASSUME NEW k \in 1..N PROVE f[k] = Turn(c, d, x, f[k - 1], seq[k])
  <2>1. k \in 0..N /\ k # 0
    OBVIOUS
  <2> QED BY <1>1, <2>1 DEF After, Solves
<1>5. Runs(c, d, x, base, seq, f)
  BY <1>2, <1>3, <1>4 DEF Runs
<1> QED BY <1>5

\* Two rows walked one after the other are one row.
LEMMA Joined ==
  ASSUME \A U \in SUBSET Nat : (0 \in U /\ \A m \in U : m + 1 \in U) => U = Nat,
         NEW c, NEW d, NEW x, NEW base, NEW T, NEW a \in Seq(T), NEW b \in Seq(T)
  PROVE  Through(c, d, x, base, a \o b) =
           Through(c, d, x, Through(c, d, x, base, a), b)
<1> DEFINE mid == Through(c, d, x, base, a)
<1>1. /\ Len(a) \in Nat /\ Len(b) \in Nat /\ Len(a \o b) = Len(a) + Len(b)
      /\ \A k \in 1..Len(a) : (a \o b)[k] = a[k]
      /\ \A k \in 1..Len(b) : (a \o b)[Len(a) + k] = b[k]
  OBVIOUS
<1>0. Len(a) \in Nat /\ Len(b) \in Nat /\ Len(a \o b) \in Nat
  OBVIOUS
<1>2. PICK f : Runs(c, d, x, base, a, f)
  BY <1>0, Unrolled
<1>3. PICK g : Runs(c, d, x, mid, b, g)
  BY <1>0, Unrolled
<1>4. PICK h : Runs(c, d, x, base, a \o b, h)
  BY <1>0, Unrolled
<1> HIDE DEF mid
<1> DEFINE S == {k \in Nat : k <= Len(a) => h[k] = f[k]}
           R == {k \in Nat : k <= Len(b) => h[Len(a) + k] = g[k]}
<1>5. h[Len(a)] = f[Len(a)]
  <2>1. 0 \in S
    BY <1>2, <1>4 DEF Runs
  <2>2. ASSUME NEW k \in Nat, k \in S PROVE k + 1 \in S
    <3> SUFFICES ASSUME k + 1 <= Len(a) PROVE h[k + 1] = f[k + 1]
      OBVIOUS
    <3>1. k + 1 \in 1..Len(a) /\ k + 1 \in 1..Len(a \o b) /\ (k + 1) - 1 = k /\ k <= Len(a)
      BY <1>1
    <3>2. h[k] = f[k] /\ (a \o b)[k + 1] = a[k + 1]
      BY <1>1, <2>2, <3>1
    <3> QED BY <1>2, <1>4, <3>1, <3>2 DEF Runs
  <2> HIDE DEF S
  <2>3. Len(a) \in S
    <3>1. S \in SUBSET Nat
      BY DEF S
    <3> QED BY <1>1, <2>1, <2>2, <3>1
  <2> QED BY <1>1, <2>3 DEF S
<1>6. h[Len(a) + Len(b)] = g[Len(b)]
  <2>1. 0 \in R
    BY <1>1, <1>2, <1>3, <1>5 DEF Runs, mid
  <2>2. ASSUME NEW k \in Nat, k \in R PROVE k + 1 \in R
    <3> SUFFICES ASSUME k + 1 <= Len(b) PROVE h[Len(a) + (k + 1)] = g[k + 1]
      OBVIOUS
    <3>1. /\ k + 1 \in 1..Len(b) /\ (k + 1) - 1 = k /\ k <= Len(b)
          /\ Len(a) + (k + 1) \in 1..Len(a \o b) /\ (Len(a) + (k + 1)) - 1 = Len(a) + k
      BY <1>1
    <3>2. h[Len(a) + k] = g[k] /\ (a \o b)[Len(a) + (k + 1)] = b[k + 1]
      BY <1>1, <2>2, <3>1
    <3> QED BY <1>3, <1>4, <3>1, <3>2 DEF Runs
  <2> HIDE DEF R
  <2>3. Len(b) \in R
    <3>1. R \in SUBSET Nat
      BY DEF R
    <3> QED BY <1>1, <2>1, <2>2, <3>1
  <2> QED BY <1>1, <2>3 DEF R
<1> QED BY <1>1, <1>3, <1>4, <1>6 DEF mid, Runs
=============================================================================
