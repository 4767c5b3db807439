------------------------- MODULE X87Lowering_proofs -------------------------
(***************************************************************************)
(* Lowering finds every register it asks for, if both counts of            *)
(* X87IRLower.cpp are within what is free: LowerFits.                      *)
(*                                                                         *)
(* A body Owns registers of the two pools by name; what each body of a     *)
(* transcendental may want at most is what Spike and Transient say of it.  *)
(* A node Serves the pool F if it leaves its value in a register of its    *)
(* own, gives the registers of values that end back and has not starved.   *)
(* The walk over the nodes and the walks of peak_live_fprs and             *)
(* peak_live_gprs Go side by side: the nodes with a value are among those  *)
(* the first counts as live, and the GPRs that are missing are those the   *)
(* second counts as held.  So there is room at every node, provided the    *)
(* graph is Wellformed, its reductions are Reduced, and every FSTSW that   *)
(* is fused is Paired with a comparison of its own.                        *)
(***************************************************************************)
EXTENDS X87Region_proofs

-----------------------------------------------------------------------------
(* Registers a body takes *)

\* A pool holds at least n registers.
Holds(F, n) == IsFiniteSet(F) /\ F \subseteq Nat /\ Cardinality(F) >= n

\* What of a state speaks of registers.
PoolFields == {"fprs", "gprs", "starved", "file", "name", "node", "cmp", "next", "rc"}

\* A body has taken the FPRs named in Y, m of them, and the GPRs named in B, k
\* of them, from pools F and G.
Owns(F, G, Y, m, B, k, L) ==
  /\ PoolFields \subseteq DOMAIN L /\ ~L.starved
  /\ Y \cup B \subseteq DOMAIN L.name
  /\ \A a \in Y : L.name[a] \in F
  /\ \A b \in B : L.name[b] \in G
  /\ \A a, b \in Y : L.name[a] = L.name[b] => a = b
  /\ \A a, b \in B : L.name[a] = L.name[b] => a = b
  /\ L.fprs = F \ {L.name[a] : a \in Y} /\ L.gprs = G \ {L.name[b] : b \in B}
  /\ m \in Nat /\ k \in Nat
  /\ Cardinality(L.fprs) + m = Cardinality(F) /\ Cardinality(L.gprs) + k = Cardinality(G)

\* What the events do to a state.
LEMMA TurnIs ==
  ASSUME NEW L, NEW n
  PROVE  /\ Turn(L, FP(n)) = [alloc_free_fpr(L) EXCEPT !.name = Put(@, n, NextFpr(L))]
         /\ Turn(L, GP(n)) = [alloc_free_gpr(L) EXCEPT !.name = Put(@, n, NextGpr(L))]
         /\ Turn(L, fp(n)) = free_fpr(L, L.name[n])
         /\ Turn(L, gp(n)) = free_gpr(L, L.name[n])
BY DEF Turn, FP, GP, fp, gp

\* A name given to a register.
LEMMA NamedIs ==
  ASSUME NEW f, NEW n, NEW r
  PROVE  /\ DOMAIN Put(f, n, r) = {n} \cup DOMAIN f /\ Put(f, n, r)[n] = r
         /\ \A x \in DOMAIN f : x # n => Put(f, n, r)[x] = f[x]
BY DEF Put

\* A pool that is not empty loses the register it gives.
LEMMA LessOne ==
  ASSUME NEW S, IsFiniteSet(S), S \subseteq Nat, Cardinality(S) > 0
  PROVE  /\ S # {} /\ Min(S) \in S /\ IsFiniteSet(S \ {Min(S)})
         /\ Cardinality(S \ {Min(S)}) = Cardinality(S) - 1 /\ Cardinality(S) \in Nat
<1>1. S # {} /\ Cardinality(S) \in Nat
  <2>1. Cardinality({}) = 0
    BY FS_EmptySet
  <2>2. Cardinality(S) \in Nat
    BY FS_CardinalityType
  <2> QED BY <2>1, <2>2
<1>2. Min(S) \in S
  BY <1>1, Smallest
<1> HIDE DEF Min
<1>3. IsFiniteSet(S \ {Min(S)}) /\ Cardinality(S \ {Min(S)}) = Cardinality(S) - 1
  BY <1>2, FS_RemoveElement
<1> QED BY <1>1, <1>2, <1>3

\* A register is taken for a name, if the pool held one more than are owned.
LEMMA TakeFpr ==
  ASSUME NEW F, NEW G, NEW Y, NEW m, NEW B, NEW k, NEW L, Owns(F, G, Y, m, B, k, L),
         Holds(F, m + 1), NEW n, n \notin Y, n \notin B
  PROVE  Owns(F, G, Y \cup {n}, m + 1, B, k, Turn(L, FP(n)))
<1> DEFINE r == NextFpr(L)
           T == Turn(L, FP(n))
<1>0. m \in Nat /\ k \in Nat /\ Cardinality(L.fprs) + m = Cardinality(F)
  BY DEF Owns
<1>1. L.fprs \subseteq F /\ IsFiniteSet(L.fprs)
  BY FS_Subset DEF Owns, Holds
<1>2. Cardinality(L.fprs) > 0
  <2>1. Cardinality(L.fprs) \in Nat /\ Cardinality(F) \in Nat /\ Cardinality(F) >= m + 1
    BY <1>1, FS_CardinalityType DEF Holds
  <2> QED BY <1>0, <2>1
<1>3. /\ L.fprs # {} /\ r \in L.fprs /\ Cardinality(L.fprs \ {r}) = Cardinality(L.fprs) - 1
      /\ Cardinality(L.fprs) \in Nat
  BY <1>1, <1>2, LessOne DEF Holds, NextFpr, Lowest
<1> HIDE DEF r
<1>4. T = [[L EXCEPT !.fprs = @ \ {r}, !.file[r] = NoVal] EXCEPT !.name = Put(@, n, r)]
  <2>1. alloc_free_fpr(L) = [L EXCEPT !.fprs = @ \ {r}, !.file[r] = NoVal]
    BY <1>3 DEF alloc_free_fpr, r
  <2>2. T = [alloc_free_fpr(L) EXCEPT !.name = Put(@, n, r)]
    BY TurnIs DEF r
  <2> QED BY <2>1, <2>2
<1> DEFINE name == Put(L.name, n, r)
<1>5. /\ DOMAIN T = DOMAIN L /\ T.fprs = L.fprs \ {r} /\ T.gprs = L.gprs /\ T.starved = L.starved
      /\ T.name = name
  BY <1>4 DEF Owns, PoolFields
<1>6. DOMAIN name = {n} \cup DOMAIN L.name /\ name[n] = r /\ \A x \in Y \cup B : name[x] = L.name[x]
  <2>1. Y \cup B \subseteq DOMAIN L.name
    BY DEF Owns
  <2> QED BY <2>1 DEF Put
<1> HIDE DEF name, T
<1>7. \A a \in Y : L.name[a] # r
  BY <1>3 DEF Owns
<1>8. \A a \in Y \cup {n} : name[a] \in F
  BY <1>1, <1>3, <1>6 DEF Owns
<1>9. \A a, b \in Y \cup {n} : name[a] = name[b] => a = b
  BY <1>6, <1>7 DEF Owns
<1>10. L.fprs \ {r} = F \ {name[a] : a \in Y \cup {n}}
  BY <1>6 DEF Owns
<1>11. L.gprs = G \ {name[b] : b \in B}
  BY <1>6 DEF Owns
<1>12. /\ PoolFields \subseteq DOMAIN T /\ ~T.starved /\ Y \cup {n} \cup B \subseteq DOMAIN name
       /\ \A b \in B : name[b] \in G
       /\ \A a, b \in B : name[a] = name[b] => a = b
       /\ Cardinality(L.gprs) + k = Cardinality(G)
  BY <1>5, <1>6 DEF Owns
<1>13. m + 1 \in Nat /\ Cardinality(L.fprs \ {r}) + (m + 1) = Cardinality(F)
  <2>1. Cardinality(F) \in Nat
    BY FS_CardinalityType DEF Holds
  <2> QED BY <1>0, <1>3, <2>1
<1> QED BY <1>0, <1>5, <1>8, <1>9, <1>10, <1>11, <1>12, <1>13 DEF Owns, T

\* A register is given back by its name.
LEMMA GiveFpr ==
  ASSUME NEW F, NEW G, NEW Y, NEW m, NEW B, NEW k, NEW L, Owns(F, G, Y, m, B, k, L),
         IsFiniteSet(F), NEW n \in Y, m > 0
  PROVE  Owns(F, G, Y \ {n}, m - 1, B, k, Turn(L, fp(n)))
<1> DEFINE r == L.name[n]
           T == Turn(L, fp(n))
<1>0. m \in Nat /\ k \in Nat /\ Cardinality(L.fprs) + m = Cardinality(F)
  BY DEF Owns
<1>1. r \in F /\ r \notin L.fprs
  BY DEF Owns
<1>2. IsFiniteSet(L.fprs) /\ Cardinality(L.fprs \cup {r}) = Cardinality(L.fprs) + 1
  <2>1. L.fprs \subseteq F
    BY DEF Owns
  <2>2. IsFiniteSet(L.fprs)
    BY <2>1, FS_Subset
  <2> HIDE DEF r
  <2> QED BY <1>1, <2>2, FS_AddElement
<1>3. T = [L EXCEPT !.fprs = @ \cup {r}]
  BY TurnIs DEF free_fpr
<1>4. /\ DOMAIN T = DOMAIN L /\ T.fprs = L.fprs \cup {r} /\ T.gprs = L.gprs /\ T.starved = L.starved
      /\ T.name = L.name
  BY <1>3 DEF Owns, PoolFields
<1>5. L.fprs \cup {r} = F \ {L.name[a] : a \in Y \ {n}}
  BY <1>1 DEF Owns
<1>6. m - 1 \in Nat /\ Cardinality(L.fprs \cup {r}) + (m - 1) = Cardinality(F)
  <2>1. Cardinality(L.fprs) \in Nat
    BY <1>2, FS_CardinalityType
  <2> QED BY <1>0, <1>2, <2>1
<1> HIDE DEF r, T
<1>7. /\ (Y \ {n}) \cup B \subseteq DOMAIN T.name /\ \A a \in Y \ {n} : T.name[a] \in F
      /\ \A b \in B : T.name[b] \in G
      /\ \A a, b \in Y \ {n} : T.name[a] = T.name[b] => a = b
      /\ \A a, b \in B : T.name[a] = T.name[b] => a = b
      /\ T.gprs = G \ {T.name[b] : b \in B} /\ Cardinality(T.gprs) + k = Cardinality(G)
      /\ PoolFields \subseteq DOMAIN T /\ ~T.starved
  BY <1>4 DEF Owns
<1>8. T.fprs = F \ {T.name[a] : a \in Y \ {n}} /\ Cardinality(T.fprs) + (m - 1) = Cardinality(F)
  BY <1>4, <1>5, <1>6
<1> QED BY <1>0, <1>6, <1>7, <1>8 DEF Owns, T

\* The same of the two pools with their places changed.
LEMMA TakeGpr ==
  ASSUME NEW F, NEW G, NEW Y, NEW m, NEW B, NEW k, NEW L, Owns(F, G, Y, m, B, k, L),
         Holds(G, k + 1), NEW n, n \notin Y, n \notin B
  PROVE  Owns(F, G, Y, m, B \cup {n}, k + 1, Turn(L, GP(n)))
<1> DEFINE r == NextGpr(L)
           T == Turn(L, GP(n))
<1>0. m \in Nat /\ k \in Nat /\ Cardinality(L.gprs) + k = Cardinality(G)
  BY DEF Owns
<1>1. L.gprs \subseteq G /\ IsFiniteSet(L.gprs)
  BY FS_Subset DEF Owns, Holds
<1>2. Cardinality(L.gprs) > 0
  <2>1. Cardinality(L.gprs) \in Nat /\ Cardinality(G) \in Nat /\ Cardinality(G) >= k + 1
    BY <1>1, FS_CardinalityType DEF Holds
  <2> QED BY <1>0, <2>1
<1>3. /\ L.gprs # {} /\ r \in L.gprs /\ Cardinality(L.gprs \ {r}) = Cardinality(L.gprs) - 1
      /\ Cardinality(L.gprs) \in Nat
  BY <1>1, <1>2, LessOne DEF Holds, NextGpr, Lowest
<1> HIDE DEF r
<1>4. T = [[L EXCEPT !.gprs = @ \ {r}] EXCEPT !.name = Put(@, n, r)]
  <2>1. alloc_free_gpr(L) = [L EXCEPT !.gprs = @ \ {r}]
    BY <1>3 DEF alloc_free_gpr, r
  <2>2. T = [alloc_free_gpr(L) EXCEPT !.name = Put(@, n, r)]
    BY TurnIs DEF r
  <2> QED BY <2>1, <2>2
<1> DEFINE name == Put(L.name, n, r)
<1>5. /\ DOMAIN T = DOMAIN L /\ T.gprs = L.gprs \ {r} /\ T.fprs = L.fprs /\ T.starved = L.starved
      /\ T.name = name
  BY <1>4 DEF Owns, PoolFields
<1>6. DOMAIN name = {n} \cup DOMAIN L.name /\ name[n] = r /\ \A x \in Y \cup B : name[x] = L.name[x]
  <2>1. Y \cup B \subseteq DOMAIN L.name
    BY DEF Owns
  <2> QED BY <2>1 DEF Put
<1> HIDE DEF name, T
<1>7. \A b \in B : L.name[b] # r
  BY <1>3 DEF Owns
<1>8. \A b \in B \cup {n} : name[b] \in G
  BY <1>1, <1>3, <1>6 DEF Owns
<1>9. \A a, b \in B \cup {n} : name[a] = name[b] => a = b
  BY <1>6, <1>7 DEF Owns
<1>10. L.gprs \ {r} = G \ {name[b] : b \in B \cup {n}}
  BY <1>6 DEF Owns
<1>11. L.fprs = F \ {name[a] : a \in Y}
  BY <1>6 DEF Owns
<1>12. /\ PoolFields \subseteq DOMAIN T /\ ~T.starved /\ Y \cup (B \cup {n}) \subseteq DOMAIN name
       /\ \A a \in Y : name[a] \in F
       /\ \A a, b \in Y : name[a] = name[b] => a = b
       /\ Cardinality(L.fprs) + m = Cardinality(F)
  BY <1>5, <1>6 DEF Owns
<1>13. k + 1 \in Nat /\ Cardinality(L.gprs \ {r}) + (k + 1) = Cardinality(G)
  <2>1. Cardinality(G) \in Nat
    BY FS_CardinalityType DEF Holds
  <2> QED BY <1>0, <1>3, <2>1
<1> QED BY <1>0, <1>5, <1>8, <1>9, <1>10, <1>11, <1>12, <1>13 DEF Owns, T

LEMMA GiveGpr ==
  ASSUME NEW F, NEW G, NEW Y, NEW m, NEW B, NEW k, NEW L, Owns(F, G, Y, m, B, k, L),
         IsFiniteSet(G), NEW n \in B, k > 0
  PROVE  Owns(F, G, Y, m, B \ {n}, k - 1, Turn(L, gp(n)))
<1> DEFINE r == L.name[n]
           T == Turn(L, gp(n))
<1>0. m \in Nat /\ k \in Nat /\ Cardinality(L.gprs) + k = Cardinality(G)
  BY DEF Owns
<1>1. r \in G /\ r \notin L.gprs
  BY DEF Owns
<1>2. IsFiniteSet(L.gprs) /\ Cardinality(L.gprs \cup {r}) = Cardinality(L.gprs) + 1
  <2>1. L.gprs \subseteq G
    BY DEF Owns
  <2>2. IsFiniteSet(L.gprs)
    BY <2>1, FS_Subset
  <2> HIDE DEF r
  <2> QED BY <1>1, <2>2, FS_AddElement
<1>3. T = [L EXCEPT !.gprs = @ \cup {r}]
  BY TurnIs DEF free_gpr
<1>4. /\ DOMAIN T = DOMAIN L /\ T.gprs = L.gprs \cup {r} /\ T.fprs = L.fprs /\ T.starved = L.starved
      /\ T.name = L.name
  BY <1>3 DEF Owns, PoolFields
<1>5. L.gprs \cup {r} = G \ {L.name[b] : b \in B \ {n}}
  BY <1>1 DEF Owns
<1>6. k - 1 \in Nat /\ Cardinality(L.gprs \cup {r}) + (k - 1) = Cardinality(G)
  <2>1. Cardinality(L.gprs) \in Nat
    BY <1>2, FS_CardinalityType
  <2> QED BY <1>0, <1>2, <2>1
<1> HIDE DEF r, T
<1>7. /\ Y \cup (B \ {n}) \subseteq DOMAIN T.name /\ \A b \in B \ {n} : T.name[b] \in G
      /\ \A a \in Y : T.name[a] \in F
      /\ \A a, b \in B \ {n} : T.name[a] = T.name[b] => a = b
      /\ \A a, b \in Y : T.name[a] = T.name[b] => a = b
      /\ T.fprs = F \ {T.name[a] : a \in Y} /\ Cardinality(T.fprs) + m = Cardinality(F)
      /\ PoolFields \subseteq DOMAIN T /\ ~T.starved
  BY <1>4 DEF Owns
<1>8. T.gprs = G \ {T.name[b] : b \in B \ {n}} /\ Cardinality(T.gprs) + (k - 1) = Cardinality(G)
  BY <1>4, <1>5, <1>6
<1> QED BY <1>0, <1>6, <1>7, <1>8 DEF Owns, T

-----------------------------------------------------------------------------
(* The bodies of the transcendentals *)

LEMMA HoldsFewer ==
  ASSUME NEW S, NEW n \in Nat, Holds(S, n)
  PROVE  /\ Holds(S, 0) /\ (n >= 1 => Holds(S, 1)) /\ (n >= 2 => Holds(S, 2)) /\ (n >= 3 => Holds(S, 3))
         /\ (n >= 4 => Holds(S, 4)) /\ (n >= 5 => Holds(S, 5)) /\ (n >= 6 => Holds(S, 6))
         /\ (n >= 7 => Holds(S, 7)) /\ (n >= 8 => Holds(S, 8))
BY FS_CardinalityType DEF Holds

\* What a body goes through, event by event.
Unrolls(L, q, f) ==
  /\ f[0] = L
  /\ \A k \in 1..Len(q) : f[k] = Turn(f[k - 1], q[k])
  /\ Body(L, q) = f[Len(q)]

\* A body is a walk over its events.
LEMMA ThroughBody ==
  ASSUME NEW L, NEW q
  PROVE  BodyWalk!Through(0, 0, 0, L, q) = Body(L, q)
BY DEF BodyWalk!Through, BodyWalk!Walk, Walk, Body, BodyTurn

LEMMA BodyUnrolls ==
  ASSUME NEW L, NEW q, Len(q) \in Nat
  PROVE  \E f : Unrolls(L, q, f)
<1>1. PICK f : BodyWalk!Runs(0, 0, 0, L, q, f)
  <2> HIDE DEF BodyWalk!Runs
  <2> QED BY Induction, BodyWalk!Unrolled
<1>2. Unrolls(L, q, f)
  BY <1>1, ThroughBody DEF Unrolls, BodyWalk!Runs, BodyTurn
<1> QED BY <1>2

\* One body after another is the body of both.
LEMMA BodyJoins ==
  ASSUME NEW L, NEW a \in Seq(Events), NEW b \in Seq(Events), NEW K, K = Body(L, a)
  PROVE  Body(K, b) = Body(L, a \o b) /\ a \o b \in Seq(Events)
<1>1. BodyWalk!Through(0, 0, 0, L, a \o b) =
        BodyWalk!Through(0, 0, 0, BodyWalk!Through(0, 0, 0, L, a), b)
  BY Induction, BodyWalk!Joined
<1> QED BY <1>1, ThroughBody

\* A GPR taken and given back at once needs one that is free.
LEMMA BriefOwns ==
  ASSUME NEW F, NEW G, NEW Y, NEW m, NEW B, NEW k, NEW L, Owns(F, G, Y, m, B, k, L),
         Holds(G, k + 1), NEW n, n \notin Y, n \notin B
  PROVE  Owns(F, G, Y, m, B, k, Body(L, Brief(n)))
<1>0. k \in Nat
  BY DEF Owns
<1>1. PICK f : Unrolls(L, Brief(n), f)
  <2>1. Len(Brief(n)) \in Nat
    BY DEF Brief
  <2> QED BY <2>1, BodyUnrolls, Zenon
<1>2. f[0] = L /\ f[1] = Turn(f[0], GP(n)) /\ f[2] = Turn(f[1], gp(n)) /\ Body(L, Brief(n)) = f[2]
  BY <1>1 DEF Unrolls, Brief
<1>3. Owns(F, G, Y, m, B \cup {n}, k + 1, f[1])
  BY <1>2, TakeGpr
<1>4. Owns(F, G, Y, m, (B \cup {n}) \ {n}, (k + 1) - 1, f[2])
  <2>1. n \in B \cup {n} /\ k + 1 > 0 /\ IsFiniteSet(G)
    BY <1>0 DEF Holds
  <2> QED BY <1>2, <1>3, <2>1, GiveGpr
<1>5. (B \cup {n}) \ {n} = B /\ (k + 1) - 1 = k
  BY <1>0
<1> QED BY <1>2, <1>4, <1>5

\* FSIN and FCOS: x is reduced to r and the quadrant, r gives y.  The bodies that
\* are long are cut in parts, and each part says what it owns when it begins and
\* ends, and the most it may want.
LEMMA Trig1Owns ==
  ASSUME NEW F, NEW G, NEW L, Holds(F, 4), Holds(G, 1),
         Owns(F, G, {"x"}, 1, {}, 0, L)
  PROVE  Owns(F, G, {"r"}, 1, {"qn"}, 1, Body(L, emit_trig_range_reduce))
<1>0. IsFiniteSet(F) /\ IsFiniteSet(G)
  BY DEF Holds
<1>1. Holds(F, 2) /\ Holds(F, 3) /\ Holds(F, 4) /\ Holds(G, 1)
  BY HoldsFewer
<1>2. PICK f : Unrolls(L, emit_trig_range_reduce, f)
  <2>1. Len(emit_trig_range_reduce) = 7 /\ Len(emit_trig_range_reduce) \in Nat
    BY DEF emit_trig_range_reduce
  <2> QED BY <2>1, BodyUnrolls, Zenon
<1>3. /\ f[1] = Turn(f[0], FP("n"))
      /\ f[2] = Turn(f[1], GP("qn"))
      /\ f[3] = Turn(f[2], FP("r"))
      /\ f[4] = Turn(f[3], FP("tmp"))
      /\ f[5] = Turn(f[4], fp("tmp"))
      /\ f[6] = Turn(f[5], fp("n"))
      /\ f[7] = Turn(f[6], fp("x"))
      /\ f[0] = L /\ Body(L, emit_trig_range_reduce) = f[7]
  BY <1>2 DEF Unrolls, emit_trig_range_reduce
<1>4. Owns(F, G, {"x", "n"}, 2, {}, 0, f[1])
  BY <1>0, <1>1, <1>3, TakeFpr
<1>5. Owns(F, G, {"x", "n"}, 2, {"qn"}, 1, f[2])
  BY <1>0, <1>1, <1>3, <1>4, TakeGpr
<1>6. Owns(F, G, {"x", "n", "r"}, 3, {"qn"}, 1, f[3])
  BY <1>0, <1>1, <1>3, <1>5, TakeFpr
<1>7. Owns(F, G, {"x", "n", "r", "tmp"}, 4, {"qn"}, 1, f[4])
  BY <1>0, <1>1, <1>3, <1>6, TakeFpr
<1>8. Owns(F, G, {"x", "n", "r"}, 3, {"qn"}, 1, f[5])
  BY <1>0, <1>1, <1>3, <1>7, GiveFpr
<1>9. Owns(F, G, {"x", "r"}, 2, {"qn"}, 1, f[6])
  BY <1>0, <1>1, <1>3, <1>8, GiveFpr
<1>10. Owns(F, G, {"r"}, 1, {"qn"}, 1, f[7])
  BY <1>0, <1>1, <1>3, <1>9, GiveFpr
<1> QED BY <1>3, <1>10

Trig2 ==
  <<FP("y")>>
LEMMA Trig2Owns ==
  ASSUME NEW F, NEW G, NEW L, Holds(F, 2), Holds(G, 1),
         Owns(F, G, {"r"}, 1, {"qn"}, 1, L)
  PROVE  Owns(F, G, {"r", "y"}, 2, {"qn"}, 1, Body(L, Trig2))
<1>0. IsFiniteSet(F) /\ IsFiniteSet(G)
  BY DEF Holds
<1>1. Holds(F, 2)
  BY HoldsFewer
<1>2. PICK f : Unrolls(L, Trig2, f)
  <2>1. Len(Trig2) = 1 /\ Len(Trig2) \in Nat
    BY DEF Trig2
  <2> QED BY <2>1, BodyUnrolls, Zenon
<1>3. /\ f[1] = Turn(f[0], FP("y"))
      /\ f[0] = L /\ Body(L, Trig2) = f[1]
  BY <1>2 DEF Unrolls, Trig2
<1>4. Owns(F, G, {"r", "y"}, 2, {"qn"}, 1, f[1])
  BY <1>0, <1>1, <1>3, TakeFpr
<1> QED BY <1>3, <1>4

LEMMA Trig3Owns ==
  ASSUME NEW F, NEW G, NEW L, Holds(F, 7), Holds(G, 1),
         Owns(F, G, {"r", "y"}, 2, {"qn"}, 1, L)
  PROVE  Owns(F, G, {"r", "y"}, 2, {"qn"}, 1, Body(L, emit_sin_poly_estrin))
<1>0. IsFiniteSet(F) /\ IsFiniteSet(G)
  BY DEF Holds
<1>1. Holds(F, 3) /\ Holds(F, 4) /\ Holds(F, 5) /\ Holds(F, 6) /\ Holds(F, 7)
  BY HoldsFewer
<1>2. PICK f : Unrolls(L, emit_sin_poly_estrin, f)
  <2>1. Len(emit_sin_poly_estrin) = 10 /\ Len(emit_sin_poly_estrin) \in Nat
    BY DEF emit_sin_poly_estrin
  <2> QED BY <2>1, BodyUnrolls, Zenon
<1>3. /\ f[1] = Turn(f[0], FP("r2"))
      /\ f[2] = Turn(f[1], FP("r4"))
      /\ f[3] = Turn(f[2], FP("p2"))
      /\ f[4] = Turn(f[3], FP("p3"))
      /\ f[5] = Turn(f[4], FP("tmp"))
      /\ f[6] = Turn(f[5], fp("tmp"))
      /\ f[7] = Turn(f[6], fp("p3"))
      /\ f[8] = Turn(f[7], fp("p2"))
      /\ f[9] = Turn(f[8], fp("r4"))
      /\ f[10] = Turn(f[9], fp("r2"))
      /\ f[0] = L /\ Body(L, emit_sin_poly_estrin) = f[10]
  BY <1>2 DEF Unrolls, emit_sin_poly_estrin
<1>4. Owns(F, G, {"r", "y", "r2"}, 3, {"qn"}, 1, f[1])
  BY <1>0, <1>1, <1>3, TakeFpr
<1>5. Owns(F, G, {"r", "y", "r2", "r4"}, 4, {"qn"}, 1, f[2])
  BY <1>0, <1>1, <1>3, <1>4, TakeFpr
<1>6. Owns(F, G, {"r", "y", "r2", "r4", "p2"}, 5, {"qn"}, 1, f[3])
  BY <1>0, <1>1, <1>3, <1>5, TakeFpr
<1>7. Owns(F, G, {"r", "y", "r2", "r4", "p2", "p3"}, 6, {"qn"}, 1, f[4])
  BY <1>0, <1>1, <1>3, <1>6, TakeFpr
<1>8. Owns(F, G, {"r", "y", "r2", "r4", "p2", "p3", "tmp"}, 7, {"qn"}, 1, f[5])
  BY <1>0, <1>1, <1>3, <1>7, TakeFpr
<1>9. Owns(F, G, {"r", "y", "r2", "r4", "p2", "p3"}, 6, {"qn"}, 1, f[6])
  BY <1>0, <1>1, <1>3, <1>8, GiveFpr
<1>10. Owns(F, G, {"r", "y", "r2", "r4", "p2"}, 5, {"qn"}, 1, f[7])
  BY <1>0, <1>1, <1>3, <1>9, GiveFpr
<1>11. Owns(F, G, {"r", "y", "r2", "r4"}, 4, {"qn"}, 1, f[8])
  BY <1>0, <1>1, <1>3, <1>10, GiveFpr
<1>12. Owns(F, G, {"r", "y", "r2"}, 3, {"qn"}, 1, f[9])
  BY <1>0, <1>1, <1>3, <1>11, GiveFpr
<1>13. Owns(F, G, {"r", "y"}, 2, {"qn"}, 1, f[10])
  BY <1>0, <1>1, <1>3, <1>12, GiveFpr
<1> QED BY <1>3, <1>13

Trig4 ==
  <<fp("r")>>
LEMMA Trig4Owns ==
  ASSUME NEW F, NEW G, NEW L, Holds(F, 2), Holds(G, 1),
         Owns(F, G, {"r", "y"}, 2, {"qn"}, 1, L)
  PROVE  Owns(F, G, {"y"}, 1, {"qn"}, 1, Body(L, Trig4))
<1>0. IsFiniteSet(F) /\ IsFiniteSet(G)
  BY DEF Holds
<1>2. PICK f : Unrolls(L, Trig4, f)
  <2>1. Len(Trig4) = 1 /\ Len(Trig4) \in Nat
    BY DEF Trig4
  <2> QED BY <2>1, BodyUnrolls, Zenon
<1>3. /\ f[1] = Turn(f[0], fp("r"))
      /\ f[0] = L /\ Body(L, Trig4) = f[1]
  BY <1>2 DEF Unrolls, Trig4
<1>4. Owns(F, G, {"y"}, 1, {"qn"}, 1, f[1])
  BY <1>0, <1>3, GiveFpr
<1> QED BY <1>3, <1>4

Trig5 ==
  <<gp("qn")>>
LEMMA Trig5Owns ==
  ASSUME NEW F, NEW G, NEW L, Holds(F, 1), Holds(G, 1),
         Owns(F, G, {"y"}, 1, {"qn"}, 1, L)
  PROVE  Owns(F, G, {"y"}, 1, {}, 0, Body(L, Trig5))
<1>0. IsFiniteSet(F) /\ IsFiniteSet(G)
  BY DEF Holds
<1>2. PICK f : Unrolls(L, Trig5, f)
  <2>1. Len(Trig5) = 1 /\ Len(Trig5) \in Nat
    BY DEF Trig5
  <2> QED BY <2>1, BodyUnrolls, Zenon
<1>3. /\ f[1] = Turn(f[0], gp("qn"))
      /\ f[0] = L /\ Body(L, Trig5) = f[1]
  BY <1>2 DEF Unrolls, Trig5
<1>4. Owns(F, G, {"y"}, 1, {}, 0, f[1])
  BY <1>0, <1>3, GiveGpr
<1> QED BY <1>3, <1>4

\* Seven FPRs at most, and two GPRs.
LEMMA TrigOwns ==
  ASSUME NEW F, NEW G, NEW L, Holds(F, 7), Holds(G, 2),
         Owns(F, G, {"x"}, 1, {}, 0, L)
  PROVE  Owns(F, G, {"y"}, 1, {}, 0, Body(L, emit_inline_trig_body))
<1>1. Holds(F, 1) /\ Holds(F, 2) /\ Holds(F, 3) /\ Holds(F, 4) /\ Holds(F, 5) /\ Holds(F, 6) /\ Holds(F, 7)
      /\ Holds(G, 0) /\ Holds(G, 1) /\ Holds(G, 2)
  BY HoldsFewer
<1> DEFINE K1 == Body(L, emit_trig_range_reduce)
           K2 == Body(K1, Trig2)
           K3 == Body(K2, emit_sin_poly_estrin)
           K4 == Body(K3, Trig4)
           K5 == Body(K4, Brief("Xy"))
           K6 == Body(K5, Trig5)
           Q2 == emit_trig_range_reduce \o Trig2
           Q3 == Q2 \o emit_sin_poly_estrin
           Q4 == Q3 \o Trig4
           Q5 == Q4 \o Brief("Xy")
           Q6 == Q5 \o Trig5
<1> HIDE DEF K1, K2, K3, K4, K5, K6, Q2, Q3, Q4, Q5, Q6
<1>2. Owns(F, G, {"r"}, 1, {"qn"}, 1, K1)
  BY <1>1, Trig1Owns DEF K1
<1>3. Owns(F, G, {"r", "y"}, 2, {"qn"}, 1, K2)
  BY <1>1, <1>2, Trig2Owns DEF K2
<1>4. Owns(F, G, {"r", "y"}, 2, {"qn"}, 1, K3)
  BY <1>1, <1>3, Trig3Owns DEF K3
<1>5. Owns(F, G, {"y"}, 1, {"qn"}, 1, K4)
  BY <1>1, <1>4, Trig4Owns DEF K4
<1>6. Owns(F, G, {"y"}, 1, {"qn"}, 1, K5)
  BY <1>1, <1>5, BriefOwns DEF K5
<1>7. Owns(F, G, {"y"}, 1, {}, 0, K6)
  BY <1>1, <1>6, Trig5Owns DEF K6
<1>8. emit_trig_range_reduce \in Seq(Events) /\ Trig2 \in Seq(Events)
          /\ emit_sin_poly_estrin \in Seq(Events) /\ Trig4 \in Seq(Events)
          /\ Brief("Xy") \in Seq(Events) /\ Trig5 \in Seq(Events)
  BY EventsAre, BriefIs DEF Names, emit_trig_range_reduce, Trig2, emit_sin_poly_estrin, Trig4, Trig5
<1>9. K2 = Body(L, Q2) /\ Q2 \in Seq(Events)
  BY <1>8, BodyJoins DEF K2, Q2, K1
<1>10. K3 = Body(L, Q3) /\ Q3 \in Seq(Events)
  BY <1>8, <1>9, BodyJoins DEF K3, Q3
<1>11. K4 = Body(L, Q4) /\ Q4 \in Seq(Events)
  BY <1>8, <1>10, BodyJoins DEF K4, Q4
<1>12. K5 = Body(L, Q5) /\ Q5 \in Seq(Events)
  BY <1>8, <1>11, BodyJoins DEF K5, Q5
<1>13. K6 = Body(L, Q6) /\ Q6 \in Seq(Events)
  BY <1>8, <1>12, BodyJoins DEF K6, Q6
<1>14. emit_inline_trig_body = Q6
  BY Zenon DEF emit_inline_trig_body, emit_apply_qn_sign, Trig2, Trig4, Trig5, Q2, Q3, Q4, Q5, Q6
<1> QED BY <1>7, <1>13, <1>14, Zenon

Tan1 ==
  <<FP("q"), FP("shift"), FP("twopi"), fp("shift"), fp("twopi"), GP("qi"), FP("r"),
    FP("tmp"), fp("tmp"), fp("q"), fp("x"), FP("r2"), FP("r4"), FP("r8"), FP("acc"),
    FP("tmp"), FP("b"), FP("c"), fp("c"), fp("b"), fp("tmp"), fp("r8"), fp("r4"),
    FP("pr"), fp("pr"), fp("r"), fp("r2"), FP("n"), FP("neg1")>>

\* FPTAN.
LEMMA Tan1Owns ==
  ASSUME NEW F, NEW G, NEW L, Holds(F, 8), Holds(G, 1),
         Owns(F, G, {"x"}, 1, {}, 0, L)
  PROVE  Owns(F, G, {"acc", "n", "neg1"}, 3, {"qi"}, 1, Body(L, Tan1))
<1>0. IsFiniteSet(F) /\ IsFiniteSet(G)
  BY DEF Holds
<1>1. Holds(F, 2) /\ Holds(F, 3) /\ Holds(F, 4) /\ Holds(F, 5) /\ Holds(F, 6) /\ Holds(F, 7)
          /\ Holds(F, 8) /\ Holds(G, 1)
  BY HoldsFewer
<1>2. PICK f : Unrolls(L, Tan1, f)
  <2>1. Len(Tan1) = 29 /\ Len(Tan1) \in Nat
    BY DEF Tan1
  <2> QED BY <2>1, BodyUnrolls, Zenon
<1>3. /\ f[1] = Turn(f[0], FP("q"))
      /\ f[2] = Turn(f[1], FP("shift"))
      /\ f[3] = Turn(f[2], FP("twopi"))
      /\ f[4] = Turn(f[3], fp("shift"))
      /\ f[5] = Turn(f[4], fp("twopi"))
      /\ f[6] = Turn(f[5], GP("qi"))
      /\ f[7] = Turn(f[6], FP("r"))
      /\ f[8] = Turn(f[7], FP("tmp"))
      /\ f[9] = Turn(f[8], fp("tmp"))
      /\ f[10] = Turn(f[9], fp("q"))
      /\ f[11] = Turn(f[10], fp("x"))
      /\ f[12] = Turn(f[11], FP("r2"))
      /\ f[13] = Turn(f[12], FP("r4"))
      /\ f[14] = Turn(f[13], FP("r8"))
      /\ f[15] = Turn(f[14], FP("acc"))
      /\ f[16] = Turn(f[15], FP("tmp"))
      /\ f[17] = Turn(f[16], FP("b"))
      /\ f[18] = Turn(f[17], FP("c"))
      /\ f[19] = Turn(f[18], fp("c"))
      /\ f[20] = Turn(f[19], fp("b"))
      /\ f[21] = Turn(f[20], fp("tmp"))
      /\ f[22] = Turn(f[21], fp("r8"))
      /\ f[23] = Turn(f[22], fp("r4"))
      /\ f[24] = Turn(f[23], FP("pr"))
      /\ f[25] = Turn(f[24], fp("pr"))
      /\ f[26] = Turn(f[25], fp("r"))
      /\ f[27] = Turn(f[26], fp("r2"))
      /\ f[28] = Turn(f[27], FP("n"))
      /\ f[29] = Turn(f[28], FP("neg1"))
      /\ f[0] = L /\ Body(L, Tan1) = f[29]
  BY <1>2 DEF Unrolls, Tan1
<1>4. Owns(F, G, {"x", "q"}, 2, {}, 0, f[1])
  BY <1>0, <1>1, <1>3, TakeFpr
<1>5. Owns(F, G, {"x", "q", "shift"}, 3, {}, 0, f[2])
  BY <1>0, <1>1, <1>3, <1>4, TakeFpr
<1>6. Owns(F, G, {"x", "q", "shift", "twopi"}, 4, {}, 0, f[3])
  BY <1>0, <1>1, <1>3, <1>5, TakeFpr
<1>7. Owns(F, G, {"x", "q", "twopi"}, 3, {}, 0, f[4])
  BY <1>0, <1>1, <1>3, <1>6, GiveFpr
<1>8. Owns(F, G, {"x", "q"}, 2, {}, 0, f[5])
  BY <1>0, <1>1, <1>3, <1>7, GiveFpr
<1>9. Owns(F, G, {"x", "q"}, 2, {"qi"}, 1, f[6])
  BY <1>0, <1>1, <1>3, <1>8, TakeGpr
<1>10. Owns(F, G, {"x", "q", "r"}, 3, {"qi"}, 1, f[7])
  BY <1>0, <1>1, <1>3, <1>9, TakeFpr
<1>11. Owns(F, G, {"x", "q", "r", "tmp"}, 4, {"qi"}, 1, f[8])
  BY <1>0, <1>1, <1>3, <1>10, TakeFpr
<1>12. Owns(F, G, {"x", "q", "r"}, 3, {"qi"}, 1, f[9])
  BY <1>0, <1>1, <1>3, <1>11, GiveFpr
<1>13. Owns(F, G, {"x", "r"}, 2, {"qi"}, 1, f[10])
  BY <1>0, <1>1, <1>3, <1>12, GiveFpr
<1>14. Owns(F, G, {"r"}, 1, {"qi"}, 1, f[11])
  BY <1>0, <1>1, <1>3, <1>13, GiveFpr
<1>15. Owns(F, G, {"r", "r2"}, 2, {"qi"}, 1, f[12])
  BY <1>0, <1>1, <1>3, <1>14, TakeFpr
<1>16. Owns(F, G, {"r", "r2", "r4"}, 3, {"qi"}, 1, f[13])
  BY <1>0, <1>1, <1>3, <1>15, TakeFpr
<1>17. Owns(F, G, {"r", "r2", "r4", "r8"}, 4, {"qi"}, 1, f[14])
  BY <1>0, <1>1, <1>3, <1>16, TakeFpr
<1>18. Owns(F, G, {"r", "r2", "r4", "r8", "acc"}, 5, {"qi"}, 1, f[15])
  BY <1>0, <1>1, <1>3, <1>17, TakeFpr
<1>19. Owns(F, G, {"r", "r2", "r4", "r8", "acc", "tmp"}, 6, {"qi"}, 1, f[16])
  BY <1>0, <1>1, <1>3, <1>18, TakeFpr
<1>20. Owns(F, G, {"r", "r2", "r4", "r8", "acc", "tmp", "b"}, 7, {"qi"}, 1, f[17])
  BY <1>0, <1>1, <1>3, <1>19, TakeFpr
<1>21. Owns(F, G, {"r", "r2", "r4", "r8", "acc", "tmp", "b", "c"}, 8, {"qi"}, 1, f[18])
  BY <1>0, <1>1, <1>3, <1>20, TakeFpr
<1>22. Owns(F, G, {"r", "r2", "r4", "r8", "acc", "tmp", "b"}, 7, {"qi"}, 1, f[19])
  BY <1>0, <1>1, <1>3, <1>21, GiveFpr
<1>23. Owns(F, G, {"r", "r2", "r4", "r8", "acc", "tmp"}, 6, {"qi"}, 1, f[20])
  BY <1>0, <1>1, <1>3, <1>22, GiveFpr
<1>24. Owns(F, G, {"r", "r2", "r4", "r8", "acc"}, 5, {"qi"}, 1, f[21])
  BY <1>0, <1>1, <1>3, <1>23, GiveFpr
<1>25. Owns(F, G, {"r", "r2", "r4", "acc"}, 4, {"qi"}, 1, f[22])
  BY <1>0, <1>1, <1>3, <1>24, GiveFpr
<1>26. Owns(F, G, {"r", "r2", "acc"}, 3, {"qi"}, 1, f[23])
  BY <1>0, <1>1, <1>3, <1>25, GiveFpr
<1>27. Owns(F, G, {"r", "r2", "acc", "pr"}, 4, {"qi"}, 1, f[24])
  BY <1>0, <1>1, <1>3, <1>26, TakeFpr
<1>28. Owns(F, G, {"r", "r2", "acc"}, 3, {"qi"}, 1, f[25])
  BY <1>0, <1>1, <1>3, <1>27, GiveFpr
<1>29. Owns(F, G, {"r2", "acc"}, 2, {"qi"}, 1, f[26])
  BY <1>0, <1>1, <1>3, <1>28, GiveFpr
<1>30. Owns(F, G, {"acc"}, 1, {"qi"}, 1, f[27])
  BY <1>0, <1>1, <1>3, <1>29, GiveFpr
<1>31. Owns(F, G, {"acc", "n"}, 2, {"qi"}, 1, f[28])
  BY <1>0, <1>1, <1>3, <1>30, TakeFpr
<1>32. Owns(F, G, {"acc", "n", "neg1"}, 3, {"qi"}, 1, f[29])
  BY <1>0, <1>1, <1>3, <1>31, TakeFpr
<1> QED BY <1>3, <1>32

Tan2 ==
  <<fp("neg1"), FP("d"), fp("acc"), FP("negd"), GP("nzcv"), gp("qi"), FP("num"),
    FP("den"), gp("nzcv"), fp("negd"), fp("n"), fp("d"), fp("den")>>
LEMMA Tan2Owns ==
  ASSUME NEW F, NEW G, NEW L, Holds(F, 5), Holds(G, 2),
         Owns(F, G, {"acc", "n", "neg1"}, 3, {"qi"}, 1, L)
  PROVE  Owns(F, G, {"num"}, 1, {}, 0, Body(L, Tan2))
<1>0. IsFiniteSet(F) /\ IsFiniteSet(G)
  BY DEF Holds
<1>1. Holds(F, 3) /\ Holds(F, 4) /\ Holds(F, 5) /\ Holds(G, 2)
  BY HoldsFewer
<1>2. PICK f : Unrolls(L, Tan2, f)
  <2>1. Len(Tan2) = 13 /\ Len(Tan2) \in Nat
    BY DEF Tan2
  <2> QED BY <2>1, BodyUnrolls, Zenon
<1>3. /\ f[1] = Turn(f[0], fp("neg1"))
      /\ f[2] = Turn(f[1], FP("d"))
      /\ f[3] = Turn(f[2], fp("acc"))
      /\ f[4] = Turn(f[3], FP("negd"))
      /\ f[5] = Turn(f[4], GP("nzcv"))
      /\ f[6] = Turn(f[5], gp("qi"))
      /\ f[7] = Turn(f[6], FP("num"))
      /\ f[8] = Turn(f[7], FP("den"))
      /\ f[9] = Turn(f[8], gp("nzcv"))
      /\ f[10] = Turn(f[9], fp("negd"))
      /\ f[11] = Turn(f[10], fp("n"))
      /\ f[12] = Turn(f[11], fp("d"))
      /\ f[13] = Turn(f[12], fp("den"))
      /\ f[0] = L /\ Body(L, Tan2) = f[13]
  BY <1>2 DEF Unrolls, Tan2
<1>4. Owns(F, G, {"acc", "n"}, 2, {"qi"}, 1, f[1])
  BY <1>0, <1>1, <1>3, GiveFpr
<1>5. Owns(F, G, {"acc", "n", "d"}, 3, {"qi"}, 1, f[2])
  BY <1>0, <1>1, <1>3, <1>4, TakeFpr
<1>6. Owns(F, G, {"n", "d"}, 2, {"qi"}, 1, f[3])
  BY <1>0, <1>1, <1>3, <1>5, GiveFpr
<1>7. Owns(F, G, {"n", "d", "negd"}, 3, {"qi"}, 1, f[4])
  BY <1>0, <1>1, <1>3, <1>6, TakeFpr
<1>8. Owns(F, G, {"n", "d", "negd"}, 3, {"qi", "nzcv"}, 2, f[5])
  BY <1>0, <1>1, <1>3, <1>7, TakeGpr
<1>9. Owns(F, G, {"n", "d", "negd"}, 3, {"nzcv"}, 1, f[6])
  BY <1>0, <1>1, <1>3, <1>8, GiveGpr
<1>10. Owns(F, G, {"n", "d", "negd", "num"}, 4, {"nzcv"}, 1, f[7])
  BY <1>0, <1>1, <1>3, <1>9, TakeFpr
<1>11. Owns(F, G, {"n", "d", "negd", "num", "den"}, 5, {"nzcv"}, 1, f[8])
  BY <1>0, <1>1, <1>3, <1>10, TakeFpr
<1>12. Owns(F, G, {"n", "d", "negd", "num", "den"}, 5, {}, 0, f[9])
  BY <1>0, <1>1, <1>3, <1>11, GiveGpr
<1>13. Owns(F, G, {"n", "d", "num", "den"}, 4, {}, 0, f[10])
  BY <1>0, <1>1, <1>3, <1>12, GiveFpr
<1>14. Owns(F, G, {"d", "num", "den"}, 3, {}, 0, f[11])
  BY <1>0, <1>1, <1>3, <1>13, GiveFpr
<1>15. Owns(F, G, {"num", "den"}, 2, {}, 0, f[12])
  BY <1>0, <1>1, <1>3, <1>14, GiveFpr
<1>16. Owns(F, G, {"num"}, 1, {}, 0, f[13])
  BY <1>0, <1>1, <1>3, <1>15, GiveFpr
<1> QED BY <1>3, <1>16

\* Eight, and two.
LEMMA TanOwns ==
  ASSUME NEW F, NEW G, NEW L, Holds(F, 8), Holds(G, 2),
         Owns(F, G, {"x"}, 1, {}, 0, L)
  PROVE  Owns(F, G, {"num"}, 1, {}, 0, Body(L, emit_inline_fptan_core))
<1>1. Holds(F, 1) /\ Holds(F, 2) /\ Holds(F, 3) /\ Holds(F, 4) /\ Holds(F, 5) /\ Holds(F, 6)
          /\ Holds(F, 7) /\ Holds(F, 8)
      /\ Holds(G, 0) /\ Holds(G, 1) /\ Holds(G, 2)
  BY HoldsFewer
<1> DEFINE K1 == Body(L, Tan1)
           K2 == Body(K1, Brief("k"))
           K3 == Body(K2, Tan2)
           Q2 == Tan1 \o Brief("k")
           Q3 == Q2 \o Tan2
<1> HIDE DEF K1, K2, K3, Q2, Q3
<1>2. Owns(F, G, {"acc", "n", "neg1"}, 3, {"qi"}, 1, K1)
  BY <1>1, Tan1Owns DEF K1
<1>3. Owns(F, G, {"acc", "n", "neg1"}, 3, {"qi"}, 1, K2)
  BY <1>1, <1>2, BriefOwns DEF K2
<1>4. Owns(F, G, {"num"}, 1, {}, 0, K3)
  BY <1>1, <1>3, Tan2Owns DEF K3
<1>5. Tan1 \in Seq(Events) /\ Brief("k") \in Seq(Events) /\ Tan2 \in Seq(Events)
  BY EventsAre, BriefIs DEF Names, Tan1, Tan2
<1>6. K2 = Body(L, Q2) /\ Q2 \in Seq(Events)
  BY <1>5, BodyJoins DEF K2, Q2, K1
<1>7. K3 = Body(L, Q3) /\ Q3 \in Seq(Events)
  BY <1>5, <1>6, BodyJoins DEF K3, Q3
<1>8. emit_inline_fptan_core = Q3
  BY Zenon DEF emit_inline_fptan_core, Tan1, Tan2, Q2, Q3
<1> QED BY <1>4, <1>7, <1>8, Zenon

Atan1 ==
  <<GP("sign")>>

\* FPATAN.
LEMMA Atan1Owns ==
  ASSUME NEW F, NEW G, NEW L, Holds(F, 2), Holds(G, 1),
         Owns(F, G, {"x", "y"}, 2, {}, 0, L)
  PROVE  Owns(F, G, {"x", "y"}, 2, {"sign"}, 1, Body(L, Atan1))
<1>0. IsFiniteSet(F) /\ IsFiniteSet(G)
  BY DEF Holds
<1>1. Holds(G, 1)
  BY HoldsFewer
<1>2. PICK f : Unrolls(L, Atan1, f)
  <2>1. Len(Atan1) = 1 /\ Len(Atan1) \in Nat
    BY DEF Atan1
  <2> QED BY <2>1, BodyUnrolls, Zenon
<1>3. /\ f[1] = Turn(f[0], GP("sign"))
      /\ f[0] = L /\ Body(L, Atan1) = f[1]
  BY <1>2 DEF Unrolls, Atan1
<1>4. Owns(F, G, {"x", "y"}, 2, {"sign"}, 1, f[1])
  BY <1>0, <1>1, <1>3, TakeGpr
<1> QED BY <1>3, <1>4

Atan2 ==
  <<FP("ax"), FP("ay"), fp("y"), GP("nzcv"), FP("neg"), FP("num"), FP("den"), fp("neg"),
    fp("ax"), fp("ay"), FP("shiftb"), FP("zero"), FP("one")>>
LEMMA Atan2Owns ==
  ASSUME NEW F, NEW G, NEW L, Holds(F, 6), Holds(G, 2),
         Owns(F, G, {"x", "y"}, 2, {"sign"}, 1, L)
  PROVE  Owns(F, G, {"x", "num", "den", "shiftb", "zero", "one"}, 6, {"sign", "nzcv"}, 2, Body(L, Atan2))
<1>0. IsFiniteSet(F) /\ IsFiniteSet(G)
  BY DEF Holds
<1>1. Holds(F, 3) /\ Holds(F, 4) /\ Holds(F, 5) /\ Holds(F, 6) /\ Holds(G, 2)
  BY HoldsFewer
<1>2. PICK f : Unrolls(L, Atan2, f)
  <2>1. Len(Atan2) = 13 /\ Len(Atan2) \in Nat
    BY DEF Atan2
  <2> QED BY <2>1, BodyUnrolls, Zenon
<1>3. /\ f[1] = Turn(f[0], FP("ax"))
      /\ f[2] = Turn(f[1], FP("ay"))
      /\ f[3] = Turn(f[2], fp("y"))
      /\ f[4] = Turn(f[3], GP("nzcv"))
      /\ f[5] = Turn(f[4], FP("neg"))
      /\ f[6] = Turn(f[5], FP("num"))
      /\ f[7] = Turn(f[6], FP("den"))
      /\ f[8] = Turn(f[7], fp("neg"))
      /\ f[9] = Turn(f[8], fp("ax"))
      /\ f[10] = Turn(f[9], fp("ay"))
      /\ f[11] = Turn(f[10], FP("shiftb"))
      /\ f[12] = Turn(f[11], FP("zero"))
      /\ f[13] = Turn(f[12], FP("one"))
      /\ f[0] = L /\ Body(L, Atan2) = f[13]
  BY <1>2 DEF Unrolls, Atan2
<1>4. Owns(F, G, {"x", "y", "ax"}, 3, {"sign"}, 1, f[1])
  BY <1>0, <1>1, <1>3, TakeFpr
<1>5. Owns(F, G, {"x", "y", "ax", "ay"}, 4, {"sign"}, 1, f[2])
  BY <1>0, <1>1, <1>3, <1>4, TakeFpr
<1>6. Owns(F, G, {"x", "ax", "ay"}, 3, {"sign"}, 1, f[3])
  BY <1>0, <1>1, <1>3, <1>5, GiveFpr
<1>7. Owns(F, G, {"x", "ax", "ay"}, 3, {"sign", "nzcv"}, 2, f[4])
  BY <1>0, <1>1, <1>3, <1>6, TakeGpr
<1>8. Owns(F, G, {"x", "ax", "ay", "neg"}, 4, {"sign", "nzcv"}, 2, f[5])
  BY <1>0, <1>1, <1>3, <1>7, TakeFpr
<1>9. Owns(F, G, {"x", "ax", "ay", "neg", "num"}, 5, {"sign", "nzcv"}, 2, f[6])
  BY <1>0, <1>1, <1>3, <1>8, TakeFpr
<1>10. Owns(F, G, {"x", "ax", "ay", "neg", "num", "den"}, 6, {"sign", "nzcv"}, 2, f[7])
  BY <1>0, <1>1, <1>3, <1>9, TakeFpr
<1>11. Owns(F, G, {"x", "ax", "ay", "num", "den"}, 5, {"sign", "nzcv"}, 2, f[8])
  BY <1>0, <1>1, <1>3, <1>10, GiveFpr
<1>12. Owns(F, G, {"x", "ay", "num", "den"}, 4, {"sign", "nzcv"}, 2, f[9])
  BY <1>0, <1>1, <1>3, <1>11, GiveFpr
<1>13. Owns(F, G, {"x", "num", "den"}, 3, {"sign", "nzcv"}, 2, f[10])
  BY <1>0, <1>1, <1>3, <1>12, GiveFpr
<1>14. Owns(F, G, {"x", "num", "den", "shiftb"}, 4, {"sign", "nzcv"}, 2, f[11])
  BY <1>0, <1>1, <1>3, <1>13, TakeFpr
<1>15. Owns(F, G, {"x", "num", "den", "shiftb", "zero"}, 5, {"sign", "nzcv"}, 2, f[12])
  BY <1>0, <1>1, <1>3, <1>14, TakeFpr
<1>16. Owns(F, G, {"x", "num", "den", "shiftb", "zero", "one"}, 6, {"sign", "nzcv"}, 2, f[13])
  BY <1>0, <1>1, <1>3, <1>15, TakeFpr
<1> QED BY <1>3, <1>16

Atan3 ==
  <<fp("zero"), fp("one"), FP("z"), FP("zero"), fp("zero"), fp("num"), fp("den")>>
LEMMA Atan3Owns ==
  ASSUME NEW F, NEW G, NEW L, Holds(F, 6), Holds(G, 2),
         Owns(F, G, {"x", "num", "den", "shiftb", "zero", "one"}, 6, {"sign", "nzcv"}, 2, L)
  PROVE  Owns(F, G, {"x", "shiftb", "z"}, 3, {"sign", "nzcv"}, 2, Body(L, Atan3))
<1>0. IsFiniteSet(F) /\ IsFiniteSet(G)
  BY DEF Holds
<1>1. Holds(F, 5) /\ Holds(F, 6)
  BY HoldsFewer
<1>2. PICK f : Unrolls(L, Atan3, f)
  <2>1. Len(Atan3) = 7 /\ Len(Atan3) \in Nat
    BY DEF Atan3
  <2> QED BY <2>1, BodyUnrolls, Zenon
<1>3. /\ f[1] = Turn(f[0], fp("zero"))
      /\ f[2] = Turn(f[1], fp("one"))
      /\ f[3] = Turn(f[2], FP("z"))
      /\ f[4] = Turn(f[3], FP("zero"))
      /\ f[5] = Turn(f[4], fp("zero"))
      /\ f[6] = Turn(f[5], fp("num"))
      /\ f[7] = Turn(f[6], fp("den"))
      /\ f[0] = L /\ Body(L, Atan3) = f[7]
  BY <1>2 DEF Unrolls, Atan3
<1>4. Owns(F, G, {"x", "num", "den", "shiftb", "one"}, 5, {"sign", "nzcv"}, 2, f[1])
  BY <1>0, <1>1, <1>3, GiveFpr
<1>5. Owns(F, G, {"x", "num", "den", "shiftb"}, 4, {"sign", "nzcv"}, 2, f[2])
  BY <1>0, <1>1, <1>3, <1>4, GiveFpr
<1>6. Owns(F, G, {"x", "num", "den", "shiftb", "z"}, 5, {"sign", "nzcv"}, 2, f[3])
  BY <1>0, <1>1, <1>3, <1>5, TakeFpr
<1>7. Owns(F, G, {"x", "num", "den", "shiftb", "z", "zero"}, 6, {"sign", "nzcv"}, 2, f[4])
  BY <1>0, <1>1, <1>3, <1>6, TakeFpr
<1>8. Owns(F, G, {"x", "num", "den", "shiftb", "z"}, 5, {"sign", "nzcv"}, 2, f[5])
  BY <1>0, <1>1, <1>3, <1>7, GiveFpr
<1>9. Owns(F, G, {"x", "den", "shiftb", "z"}, 4, {"sign", "nzcv"}, 2, f[6])
  BY <1>0, <1>1, <1>3, <1>8, GiveFpr
<1>10. Owns(F, G, {"x", "shiftb", "z"}, 3, {"sign", "nzcv"}, 2, f[7])
  BY <1>0, <1>1, <1>3, <1>9, GiveFpr
<1> QED BY <1>3, <1>10

Atan4 ==
  <<fp("x"), FP("shift"), FP("neg2"), FP("zero"), fp("neg2"), fp("zero"), gp("nzcv"),
    fp("shiftb"), FP("z2"), FP("z3"), FP("poly"), FP("tmp"), fp("tmp"), fp("z2"),
    FP("pi2"), fp("pi2"), fp("poly"), fp("z3"), fp("shift")>>
LEMMA Atan4Owns ==
  ASSUME NEW F, NEW G, NEW L, Holds(F, 6), Holds(G, 2),
         Owns(F, G, {"x", "shiftb", "z"}, 3, {"sign", "nzcv"}, 2, L)
  PROVE  Owns(F, G, {"z"}, 1, {"sign"}, 1, Body(L, Atan4))
<1>0. IsFiniteSet(F) /\ IsFiniteSet(G)
  BY DEF Holds
<1>1. Holds(F, 3) /\ Holds(F, 4) /\ Holds(F, 5) /\ Holds(F, 6)
  BY HoldsFewer
<1>2. PICK f : Unrolls(L, Atan4, f)
  <2>1. Len(Atan4) = 19 /\ Len(Atan4) \in Nat
    BY DEF Atan4
  <2> QED BY <2>1, BodyUnrolls, Zenon
<1>3. /\ f[1] = Turn(f[0], fp("x"))
      /\ f[2] = Turn(f[1], FP("shift"))
      /\ f[3] = Turn(f[2], FP("neg2"))
      /\ f[4] = Turn(f[3], FP("zero"))
      /\ f[5] = Turn(f[4], fp("neg2"))
      /\ f[6] = Turn(f[5], fp("zero"))
      /\ f[7] = Turn(f[6], gp("nzcv"))
      /\ f[8] = Turn(f[7], fp("shiftb"))
      /\ f[9] = Turn(f[8], FP("z2"))
      /\ f[10] = Turn(f[9], FP("z3"))
      /\ f[11] = Turn(f[10], FP("poly"))
      /\ f[12] = Turn(f[11], FP("tmp"))
      /\ f[13] = Turn(f[12], fp("tmp"))
      /\ f[14] = Turn(f[13], fp("z2"))
      /\ f[15] = Turn(f[14], FP("pi2"))
      /\ f[16] = Turn(f[15], fp("pi2"))
      /\ f[17] = Turn(f[16], fp("poly"))
      /\ f[18] = Turn(f[17], fp("z3"))
      /\ f[19] = Turn(f[18], fp("shift"))
      /\ f[0] = L /\ Body(L, Atan4) = f[19]
  BY <1>2 DEF Unrolls, Atan4
<1>4. Owns(F, G, {"shiftb", "z"}, 2, {"sign", "nzcv"}, 2, f[1])
  BY <1>0, <1>1, <1>3, GiveFpr
<1>5. Owns(F, G, {"shiftb", "z", "shift"}, 3, {"sign", "nzcv"}, 2, f[2])
  BY <1>0, <1>1, <1>3, <1>4, TakeFpr
<1>6. Owns(F, G, {"shiftb", "z", "shift", "neg2"}, 4, {"sign", "nzcv"}, 2, f[3])
  BY <1>0, <1>1, <1>3, <1>5, TakeFpr
<1>7. Owns(F, G, {"shiftb", "z", "shift", "neg2", "zero"}, 5, {"sign", "nzcv"}, 2, f[4])
  BY <1>0, <1>1, <1>3, <1>6, TakeFpr
<1>8. Owns(F, G, {"shiftb", "z", "shift", "zero"}, 4, {"sign", "nzcv"}, 2, f[5])
  BY <1>0, <1>1, <1>3, <1>7, GiveFpr
<1>9. Owns(F, G, {"shiftb", "z", "shift"}, 3, {"sign", "nzcv"}, 2, f[6])
  BY <1>0, <1>1, <1>3, <1>8, GiveFpr
<1>10. Owns(F, G, {"shiftb", "z", "shift"}, 3, {"sign"}, 1, f[7])
  BY <1>0, <1>1, <1>3, <1>9, GiveGpr
<1>11. Owns(F, G, {"z", "shift"}, 2, {"sign"}, 1, f[8])
  BY <1>0, <1>1, <1>3, <1>10, GiveFpr
<1>12. Owns(F, G, {"z", "shift", "z2"}, 3, {"sign"}, 1, f[9])
  BY <1>0, <1>1, <1>3, <1>11, TakeFpr
<1>13. Owns(F, G, {"z", "shift", "z2", "z3"}, 4, {"sign"}, 1, f[10])
  BY <1>0, <1>1, <1>3, <1>12, TakeFpr
<1>14. Owns(F, G, {"z", "shift", "z2", "z3", "poly"}, 5, {"sign"}, 1, f[11])
  BY <1>0, <1>1, <1>3, <1>13, TakeFpr
<1>15. Owns(F, G, {"z", "shift", "z2", "z3", "poly", "tmp"}, 6, {"sign"}, 1, f[12])
  BY <1>0, <1>1, <1>3, <1>14, TakeFpr
<1>16. Owns(F, G, {"z", "shift", "z2", "z3", "poly"}, 5, {"sign"}, 1, f[13])
  BY <1>0, <1>1, <1>3, <1>15, GiveFpr
<1>17. Owns(F, G, {"z", "shift", "z3", "poly"}, 4, {"sign"}, 1, f[14])
  BY <1>0, <1>1, <1>3, <1>16, GiveFpr
<1>18. Owns(F, G, {"z", "shift", "z3", "poly", "pi2"}, 5, {"sign"}, 1, f[15])
  BY <1>0, <1>1, <1>3, <1>17, TakeFpr
<1>19. Owns(F, G, {"z", "shift", "z3", "poly"}, 4, {"sign"}, 1, f[16])
  BY <1>0, <1>1, <1>3, <1>18, GiveFpr
<1>20. Owns(F, G, {"z", "shift", "z3"}, 3, {"sign"}, 1, f[17])
  BY <1>0, <1>1, <1>3, <1>19, GiveFpr
<1>21. Owns(F, G, {"z", "shift"}, 2, {"sign"}, 1, f[18])
  BY <1>0, <1>1, <1>3, <1>20, GiveFpr
<1>22. Owns(F, G, {"z"}, 1, {"sign"}, 1, f[19])
  BY <1>0, <1>1, <1>3, <1>21, GiveFpr
<1> QED BY <1>3, <1>22

Atan5 ==
  <<gp("sign")>>
LEMMA Atan5Owns ==
  ASSUME NEW F, NEW G, NEW L, Holds(F, 1), Holds(G, 1),
         Owns(F, G, {"z"}, 1, {"sign"}, 1, L)
  PROVE  Owns(F, G, {"z"}, 1, {}, 0, Body(L, Atan5))
<1>0. IsFiniteSet(F) /\ IsFiniteSet(G)
  BY DEF Holds
<1>2. PICK f : Unrolls(L, Atan5, f)
  <2>1. Len(Atan5) = 1 /\ Len(Atan5) \in Nat
    BY DEF Atan5
  <2> QED BY <2>1, BodyUnrolls, Zenon
<1>3. /\ f[1] = Turn(f[0], gp("sign"))
      /\ f[0] = L /\ Body(L, Atan5) = f[1]
  BY <1>2 DEF Unrolls, Atan5
<1>4. Owns(F, G, {"z"}, 1, {}, 0, f[1])
  BY <1>0, <1>3, GiveGpr
<1> QED BY <1>3, <1>4

\* Six, and three.
LEMMA AtanOwns ==
  ASSUME NEW F, NEW G, NEW L, Holds(F, 6), Holds(G, 3),
         Owns(F, G, {"x", "y"}, 2, {}, 0, L)
  PROVE  Owns(F, G, {"z"}, 1, {}, 0, Body(L, emit_inline_fpatan_core))
<1>1. Holds(F, 1) /\ Holds(F, 2) /\ Holds(F, 3) /\ Holds(F, 4) /\ Holds(F, 5) /\ Holds(F, 6)
      /\ Holds(G, 0) /\ Holds(G, 1) /\ Holds(G, 2) /\ Holds(G, 3)
  BY HoldsFewer
<1> DEFINE K1 == Body(L, Atan1)
           K2 == Body(K1, Brief("tmp"))
           K3 == Body(K2, Atan2)
           K4 == Body(K3, Brief("k"))
           K5 == Body(K4, Atan3)
           K6 == Body(K5, Brief("bits"))
           K7 == Body(K6, Atan4)
           K8 == Body(K7, Brief("ret"))
           K9 == Body(K8, Atan5)
           Q2 == Atan1 \o Brief("tmp")
           Q3 == Q2 \o Atan2
           Q4 == Q3 \o Brief("k")
           Q5 == Q4 \o Atan3
           Q6 == Q5 \o Brief("bits")
           Q7 == Q6 \o Atan4
           Q8 == Q7 \o Brief("ret")
           Q9 == Q8 \o Atan5
<1> HIDE DEF K1, K2, K3, K4, K5, K6, K7, K8, K9, Q2, Q3, Q4, Q5, Q6, Q7, Q8, Q9
<1>2. Owns(F, G, {"x", "y"}, 2, {"sign"}, 1, K1)
  BY <1>1, Atan1Owns DEF K1
<1>3. Owns(F, G, {"x", "y"}, 2, {"sign"}, 1, K2)
  BY <1>1, <1>2, BriefOwns DEF K2
<1>4. Owns(F, G, {"x", "num", "den", "shiftb", "zero", "one"}, 6, {"sign", "nzcv"}, 2, K3)
  BY <1>1, <1>3, Atan2Owns DEF K3
<1>5. Owns(F, G, {"x", "num", "den", "shiftb", "zero", "one"}, 6, {"sign", "nzcv"}, 2, K4)
  BY <1>1, <1>4, BriefOwns DEF K4
<1>6. Owns(F, G, {"x", "shiftb", "z"}, 3, {"sign", "nzcv"}, 2, K5)
  BY <1>1, <1>5, Atan3Owns DEF K5
<1>7. Owns(F, G, {"x", "shiftb", "z"}, 3, {"sign", "nzcv"}, 2, K6)
  BY <1>1, <1>6, BriefOwns DEF K6
<1>8. Owns(F, G, {"z"}, 1, {"sign"}, 1, K7)
  BY <1>1, <1>7, Atan4Owns DEF K7
<1>9. Owns(F, G, {"z"}, 1, {"sign"}, 1, K8)
  BY <1>1, <1>8, BriefOwns DEF K8
<1>10. Owns(F, G, {"z"}, 1, {}, 0, K9)
  BY <1>1, <1>9, Atan5Owns DEF K9
<1>11. Atan1 \in Seq(Events) /\ Brief("tmp") \in Seq(Events) /\ Atan2 \in Seq(Events)
           /\ Brief("k") \in Seq(Events) /\ Atan3 \in Seq(Events) /\ Brief("bits") \in Seq(Events)
           /\ Atan4 \in Seq(Events) /\ Brief("ret") \in Seq(Events) /\ Atan5 \in Seq(Events)
  BY EventsAre, BriefIs DEF Names, Atan1, Atan2, Atan3, Atan4, Atan5
<1>12. K2 = Body(L, Q2) /\ Q2 \in Seq(Events)
  BY <1>11, BodyJoins DEF K2, Q2, K1
<1>13. K3 = Body(L, Q3) /\ Q3 \in Seq(Events)
  BY <1>11, <1>12, BodyJoins DEF K3, Q3
<1>14. K4 = Body(L, Q4) /\ Q4 \in Seq(Events)
  BY <1>11, <1>13, BodyJoins DEF K4, Q4
<1>15. K5 = Body(L, Q5) /\ Q5 \in Seq(Events)
  BY <1>11, <1>14, BodyJoins DEF K5, Q5
<1>16. K6 = Body(L, Q6) /\ Q6 \in Seq(Events)
  BY <1>11, <1>15, BodyJoins DEF K6, Q6
<1>17. K7 = Body(L, Q7) /\ Q7 \in Seq(Events)
  BY <1>11, <1>16, BodyJoins DEF K7, Q7
<1>18. K8 = Body(L, Q8) /\ Q8 \in Seq(Events)
  BY <1>11, <1>17, BodyJoins DEF K8, Q8
<1>19. K9 = Body(L, Q9) /\ Q9 \in Seq(Events)
  BY <1>11, <1>18, BodyJoins DEF K9, Q9
<1>20. emit_inline_fpatan_core = Q9
  BY Zenon DEF emit_inline_fpatan_core, Atan1, Atan2, Atan3, Atan4, Atan5, Q2, Q3, Q4, Q5, Q6, Q7, Q8, Q9
<1> QED BY <1>10, <1>19, <1>20, Zenon

Log1 ==
  <<GP("u"), GP("off")>>

\* FYL2X.
LEMMA Log1Owns ==
  ASSUME NEW F, NEW G, NEW L, Holds(F, 2), Holds(G, 2),
         Owns(F, G, {"x", "y"}, 2, {}, 0, L)
  PROVE  Owns(F, G, {"x", "y"}, 2, {"u", "off"}, 2, Body(L, Log1))
<1>0. IsFiniteSet(F) /\ IsFiniteSet(G)
  BY DEF Holds
<1>1. Holds(G, 1) /\ Holds(G, 2)
  BY HoldsFewer
<1>2. PICK f : Unrolls(L, Log1, f)
  <2>1. Len(Log1) = 2 /\ Len(Log1) \in Nat
    BY DEF Log1
  <2> QED BY <2>1, BodyUnrolls, Zenon
<1>3. /\ f[1] = Turn(f[0], GP("u"))
      /\ f[2] = Turn(f[1], GP("off"))
      /\ f[0] = L /\ Body(L, Log1) = f[2]
  BY <1>2 DEF Unrolls, Log1
<1>4. Owns(F, G, {"x", "y"}, 2, {"u"}, 1, f[1])
  BY <1>0, <1>1, <1>3, TakeGpr
<1>5. Owns(F, G, {"x", "y"}, 2, {"u", "off"}, 2, f[2])
  BY <1>0, <1>1, <1>3, <1>4, TakeGpr
<1> QED BY <1>3, <1>5

Log2 ==
  <<FP("kd")>>
LEMMA Log2Owns ==
  ASSUME NEW F, NEW G, NEW L, Holds(F, 3), Holds(G, 2),
         Owns(F, G, {"x", "y"}, 2, {"u", "off"}, 2, L)
  PROVE  Owns(F, G, {"x", "y", "kd"}, 3, {"u", "off"}, 2, Body(L, Log2))
<1>0. IsFiniteSet(F) /\ IsFiniteSet(G)
  BY DEF Holds
<1>1. Holds(F, 3)
  BY HoldsFewer
<1>2. PICK f : Unrolls(L, Log2, f)
  <2>1. Len(Log2) = 1 /\ Len(Log2) \in Nat
    BY DEF Log2
  <2> QED BY <2>1, BodyUnrolls, Zenon
<1>3. /\ f[1] = Turn(f[0], FP("kd"))
      /\ f[0] = L /\ Body(L, Log2) = f[1]
  BY <1>2 DEF Unrolls, Log2
<1>4. Owns(F, G, {"x", "y", "kd"}, 3, {"u", "off"}, 2, f[1])
  BY <1>0, <1>1, <1>3, TakeFpr
<1> QED BY <1>3, <1>4

Log3 ==
  <<FP("z"), gp("u"), GP("idx"), gp("off"), FP("invc")>>
LEMMA Log3Owns ==
  ASSUME NEW F, NEW G, NEW L, Holds(F, 5), Holds(G, 2),
         Owns(F, G, {"x", "y", "kd"}, 3, {"u", "off"}, 2, L)
  PROVE  Owns(F, G, {"x", "y", "kd", "z", "invc"}, 5, {"idx"}, 1, Body(L, Log3))
<1>0. IsFiniteSet(F) /\ IsFiniteSet(G)
  BY DEF Holds
<1>1. Holds(F, 4) /\ Holds(F, 5) /\ Holds(G, 2)
  BY HoldsFewer
<1>2. PICK f : Unrolls(L, Log3, f)
  <2>1. Len(Log3) = 5 /\ Len(Log3) \in Nat
    BY DEF Log3
  <2> QED BY <2>1, BodyUnrolls, Zenon
<1>3. /\ f[1] = Turn(f[0], FP("z"))
      /\ f[2] = Turn(f[1], gp("u"))
      /\ f[3] = Turn(f[2], GP("idx"))
      /\ f[4] = Turn(f[3], gp("off"))
      /\ f[5] = Turn(f[4], FP("invc"))
      /\ f[0] = L /\ Body(L, Log3) = f[5]
  BY <1>2 DEF Unrolls, Log3
<1>4. Owns(F, G, {"x", "y", "kd", "z"}, 4, {"u", "off"}, 2, f[1])
  BY <1>0, <1>1, <1>3, TakeFpr
<1>5. Owns(F, G, {"x", "y", "kd", "z"}, 4, {"off"}, 1, f[2])
  BY <1>0, <1>1, <1>3, <1>4, GiveGpr
<1>6. Owns(F, G, {"x", "y", "kd", "z"}, 4, {"off", "idx"}, 2, f[3])
  BY <1>0, <1>1, <1>3, <1>5, TakeGpr
<1>7. Owns(F, G, {"x", "y", "kd", "z"}, 4, {"idx"}, 1, f[4])
  BY <1>0, <1>1, <1>3, <1>6, GiveGpr
<1>8. Owns(F, G, {"x", "y", "kd", "z", "invc"}, 5, {"idx"}, 1, f[5])
  BY <1>0, <1>1, <1>3, <1>7, TakeFpr
<1> QED BY <1>3, <1>8

Log4 ==
  <<FP("log2c")>>
LEMMA Log4Owns ==
  ASSUME NEW F, NEW G, NEW L, Holds(F, 6), Holds(G, 1),
         Owns(F, G, {"x", "y", "kd", "z", "invc"}, 5, {"idx"}, 1, L)
  PROVE  Owns(F, G, {"x", "y", "kd", "z", "invc", "log2c"}, 6, {"idx"}, 1, Body(L, Log4))
<1>0. IsFiniteSet(F) /\ IsFiniteSet(G)
  BY DEF Holds
<1>1. Holds(F, 6)
  BY HoldsFewer
<1>2. PICK f : Unrolls(L, Log4, f)
  <2>1. Len(Log4) = 1 /\ Len(Log4) \in Nat
    BY DEF Log4
  <2> QED BY <2>1, BodyUnrolls, Zenon
<1>3. /\ f[1] = Turn(f[0], FP("log2c"))
      /\ f[0] = L /\ Body(L, Log4) = f[1]
  BY <1>2 DEF Unrolls, Log4
<1>4. Owns(F, G, {"x", "y", "kd", "z", "invc", "log2c"}, 6, {"idx"}, 1, f[1])
  BY <1>0, <1>1, <1>3, TakeFpr
<1> QED BY <1>3, <1>4

Log5 ==
  <<gp("idx"), FP("r"), FP("neg1")>>
LEMMA Log5Owns ==
  ASSUME NEW F, NEW G, NEW L, Holds(F, 8), Holds(G, 1),
         Owns(F, G, {"x", "y", "kd", "z", "invc", "log2c"}, 6, {"idx"}, 1, L)
  PROVE  Owns(F, G, {"x", "y", "kd", "z", "invc", "log2c", "r", "neg1"}, 8, {}, 0, Body(L, Log5))
<1>0. IsFiniteSet(F) /\ IsFiniteSet(G)
  BY DEF Holds
<1>1. Holds(F, 7) /\ Holds(F, 8)
  BY HoldsFewer
<1>2. PICK f : Unrolls(L, Log5, f)
  <2>1. Len(Log5) = 3 /\ Len(Log5) \in Nat
    BY DEF Log5
  <2> QED BY <2>1, BodyUnrolls, Zenon
<1>3. /\ f[1] = Turn(f[0], gp("idx"))
      /\ f[2] = Turn(f[1], FP("r"))
      /\ f[3] = Turn(f[2], FP("neg1"))
      /\ f[0] = L /\ Body(L, Log5) = f[3]
  BY <1>2 DEF Unrolls, Log5
<1>4. Owns(F, G, {"x", "y", "kd", "z", "invc", "log2c"}, 6, {}, 0, f[1])
  BY <1>0, <1>1, <1>3, GiveGpr
<1>5. Owns(F, G, {"x", "y", "kd", "z", "invc", "log2c", "r"}, 7, {}, 0, f[2])
  BY <1>0, <1>1, <1>3, <1>4, TakeFpr
<1>6. Owns(F, G, {"x", "y", "kd", "z", "invc", "log2c", "r", "neg1"}, 8, {}, 0, f[3])
  BY <1>0, <1>1, <1>3, <1>5, TakeFpr
<1> QED BY <1>3, <1>6

Log6 ==
  <<fp("neg1"), fp("z"), fp("invc"), FP("r2"), FP("hi"), fp("log2c"), fp("kd"),
    FP("tmp"), fp("tmp"), FP("y2"), FP("tmp"), FP("p"), fp("p"), fp("tmp"), fp("r"),
    fp("y2"), fp("r2"), fp("hi")>>
LEMMA Log6Owns ==
  ASSUME NEW F, NEW G, NEW L, Holds(F, 8), Holds(G, 0),
         Owns(F, G, {"x", "y", "kd", "z", "invc", "log2c", "r", "neg1"}, 8, {}, 0, L)
  PROVE  Owns(F, G, {"x", "y"}, 2, {}, 0, Body(L, Log6))
<1>0. IsFiniteSet(F) /\ IsFiniteSet(G)
  BY DEF Holds
<1>1. Holds(F, 6) /\ Holds(F, 7) /\ Holds(F, 8)
  BY HoldsFewer
<1>2. PICK f : Unrolls(L, Log6, f)
  <2>1. Len(Log6) = 18 /\ Len(Log6) \in Nat
    BY DEF Log6
  <2> QED BY <2>1, BodyUnrolls, Zenon
<1>3. /\ f[1] = Turn(f[0], fp("neg1"))
      /\ f[2] = Turn(f[1], fp("z"))
      /\ f[3] = Turn(f[2], fp("invc"))
      /\ f[4] = Turn(f[3], FP("r2"))
      /\ f[5] = Turn(f[4], FP("hi"))
      /\ f[6] = Turn(f[5], fp("log2c"))
      /\ f[7] = Turn(f[6], fp("kd"))
      /\ f[8] = Turn(f[7], FP("tmp"))
      /\ f[9] = Turn(f[8], fp("tmp"))
      /\ f[10] = Turn(f[9], FP("y2"))
      /\ f[11] = Turn(f[10], FP("tmp"))
      /\ f[12] = Turn(f[11], FP("p"))
      /\ f[13] = Turn(f[12], fp("p"))
      /\ f[14] = Turn(f[13], fp("tmp"))
      /\ f[15] = Turn(f[14], fp("r"))
      /\ f[16] = Turn(f[15], fp("y2"))
      /\ f[17] = Turn(f[16], fp("r2"))
      /\ f[18] = Turn(f[17], fp("hi"))
      /\ f[0] = L /\ Body(L, Log6) = f[18]
  BY <1>2 DEF Unrolls, Log6
<1>4. Owns(F, G, {"x", "y", "kd", "z", "invc", "log2c", "r"}, 7, {}, 0, f[1])
  BY <1>0, <1>1, <1>3, GiveFpr
<1>5. Owns(F, G, {"x", "y", "kd", "invc", "log2c", "r"}, 6, {}, 0, f[2])
  BY <1>0, <1>1, <1>3, <1>4, GiveFpr
<1>6. Owns(F, G, {"x", "y", "kd", "log2c", "r"}, 5, {}, 0, f[3])
  BY <1>0, <1>1, <1>3, <1>5, GiveFpr
<1>7. Owns(F, G, {"x", "y", "kd", "log2c", "r", "r2"}, 6, {}, 0, f[4])
  BY <1>0, <1>1, <1>3, <1>6, TakeFpr
<1>8. Owns(F, G, {"x", "y", "kd", "log2c", "r", "r2", "hi"}, 7, {}, 0, f[5])
  BY <1>0, <1>1, <1>3, <1>7, TakeFpr
<1>9. Owns(F, G, {"x", "y", "kd", "r", "r2", "hi"}, 6, {}, 0, f[6])
  BY <1>0, <1>1, <1>3, <1>8, GiveFpr
<1>10. Owns(F, G, {"x", "y", "r", "r2", "hi"}, 5, {}, 0, f[7])
  BY <1>0, <1>1, <1>3, <1>9, GiveFpr
<1>11. Owns(F, G, {"x", "y", "r", "r2", "hi", "tmp"}, 6, {}, 0, f[8])
  BY <1>0, <1>1, <1>3, <1>10, TakeFpr
<1>12. Owns(F, G, {"x", "y", "r", "r2", "hi"}, 5, {}, 0, f[9])
  BY <1>0, <1>1, <1>3, <1>11, GiveFpr
<1>13. Owns(F, G, {"x", "y", "r", "r2", "hi", "y2"}, 6, {}, 0, f[10])
  BY <1>0, <1>1, <1>3, <1>12, TakeFpr
<1>14. Owns(F, G, {"x", "y", "r", "r2", "hi", "y2", "tmp"}, 7, {}, 0, f[11])
  BY <1>0, <1>1, <1>3, <1>13, TakeFpr
<1>15. Owns(F, G, {"x", "y", "r", "r2", "hi", "y2", "tmp", "p"}, 8, {}, 0, f[12])
  BY <1>0, <1>1, <1>3, <1>14, TakeFpr
<1>16. Owns(F, G, {"x", "y", "r", "r2", "hi", "y2", "tmp"}, 7, {}, 0, f[13])
  BY <1>0, <1>1, <1>3, <1>15, GiveFpr
<1>17. Owns(F, G, {"x", "y", "r", "r2", "hi", "y2"}, 6, {}, 0, f[14])
  BY <1>0, <1>1, <1>3, <1>16, GiveFpr
<1>18. Owns(F, G, {"x", "y", "r2", "hi", "y2"}, 5, {}, 0, f[15])
  BY <1>0, <1>1, <1>3, <1>17, GiveFpr
<1>19. Owns(F, G, {"x", "y", "r2", "hi"}, 4, {}, 0, f[16])
  BY <1>0, <1>1, <1>3, <1>18, GiveFpr
<1>20. Owns(F, G, {"x", "y", "hi"}, 3, {}, 0, f[17])
  BY <1>0, <1>1, <1>3, <1>19, GiveFpr
<1>21. Owns(F, G, {"x", "y"}, 2, {}, 0, f[18])
  BY <1>0, <1>1, <1>3, <1>20, GiveFpr
<1> QED BY <1>3, <1>21

Log7 ==
  <<fp("y")>>
LEMMA Log7Owns ==
  ASSUME NEW F, NEW G, NEW L, Holds(F, 2), Holds(G, 0),
         Owns(F, G, {"x", "y"}, 2, {}, 0, L)
  PROVE  Owns(F, G, {"x"}, 1, {}, 0, Body(L, Log7))
<1>0. IsFiniteSet(F) /\ IsFiniteSet(G)
  BY DEF Holds
<1>2. PICK f : Unrolls(L, Log7, f)
  <2>1. Len(Log7) = 1 /\ Len(Log7) \in Nat
    BY DEF Log7
  <2> QED BY <2>1, BodyUnrolls, Zenon
<1>3. /\ f[1] = Turn(f[0], fp("y"))
      /\ f[0] = L /\ Body(L, Log7) = f[1]
  BY <1>2 DEF Unrolls, Log7
<1>4. Owns(F, G, {"x"}, 1, {}, 0, f[1])
  BY <1>0, <1>3, GiveFpr
<1> QED BY <1>3, <1>4

\* Eight, and three.
LEMMA LogOwns ==
  ASSUME NEW F, NEW G, NEW L, Holds(F, 8), Holds(G, 3),
         Owns(F, G, {"x", "y"}, 2, {}, 0, L)
  PROVE  Owns(F, G, {"x"}, 1, {}, 0, Body(L, emit_inline_fyl2x_core))
<1>1. Holds(F, 1) /\ Holds(F, 2) /\ Holds(F, 3) /\ Holds(F, 4) /\ Holds(F, 5) /\ Holds(F, 6)
          /\ Holds(F, 7) /\ Holds(F, 8)
      /\ Holds(G, 0) /\ Holds(G, 1) /\ Holds(G, 2) /\ Holds(G, 3)
  BY HoldsFewer
<1> DEFINE K1 == Body(L, Log1)
           K2 == Body(K1, Brief("tmp"))
           K3 == Body(K2, Log2)
           K4 == Body(K3, Brief("k"))
           K5 == Body(K4, Brief("tmp"))
           K6 == Body(K5, Log3)
           K7 == Body(K6, Brief("tbl"))
           K8 == Body(K7, Log4)
           K9 == Body(K8, Brief("tbl"))
           K10 == Body(K9, Log5)
           K11 == Body(K10, Brief("k"))
           K12 == Body(K11, Log6)
           K13 == Body(K12, Log7)
           Q2 == Log1 \o Brief("tmp")
           Q3 == Q2 \o Log2
           Q4 == Q3 \o Brief("k")
           Q5 == Q4 \o Brief("tmp")
           Q6 == Q5 \o Log3
           Q7 == Q6 \o Brief("tbl")
           Q8 == Q7 \o Log4
           Q9 == Q8 \o Brief("tbl")
           Q10 == Q9 \o Log5
           Q11 == Q10 \o Brief("k")
           Q12 == Q11 \o Log6
           Q13 == Q12 \o Log7
<1> HIDE DEF K1, K2, K3, K4, K5, K6, K7, K8, K9, K10, K11, K12, K13, Q2, Q3, Q4, Q5, Q6, Q7, Q8, Q9,
    Q10, Q11, Q12, Q13
<1>2. Owns(F, G, {"x", "y"}, 2, {"u", "off"}, 2, K1)
  BY <1>1, Log1Owns DEF K1
<1>3. Owns(F, G, {"x", "y"}, 2, {"u", "off"}, 2, K2)
  BY <1>1, <1>2, BriefOwns DEF K2
<1>4. Owns(F, G, {"x", "y", "kd"}, 3, {"u", "off"}, 2, K3)
  BY <1>1, <1>3, Log2Owns DEF K3
<1>5. Owns(F, G, {"x", "y", "kd"}, 3, {"u", "off"}, 2, K4)
  BY <1>1, <1>4, BriefOwns DEF K4
<1>6. Owns(F, G, {"x", "y", "kd"}, 3, {"u", "off"}, 2, K5)
  BY <1>1, <1>5, BriefOwns DEF K5
<1>7. Owns(F, G, {"x", "y", "kd", "z", "invc"}, 5, {"idx"}, 1, K6)
  BY <1>1, <1>6, Log3Owns DEF K6
<1>8. Owns(F, G, {"x", "y", "kd", "z", "invc"}, 5, {"idx"}, 1, K7)
  BY <1>1, <1>7, BriefOwns DEF K7
<1>9. Owns(F, G, {"x", "y", "kd", "z", "invc", "log2c"}, 6, {"idx"}, 1, K8)
  BY <1>1, <1>8, Log4Owns DEF K8
<1>10. Owns(F, G, {"x", "y", "kd", "z", "invc", "log2c"}, 6, {"idx"}, 1, K9)
  BY <1>1, <1>9, BriefOwns DEF K9
<1>11. Owns(F, G, {"x", "y", "kd", "z", "invc", "log2c", "r", "neg1"}, 8, {}, 0, K10)
  BY <1>1, <1>10, Log5Owns DEF K10
<1>12. Owns(F, G, {"x", "y", "kd", "z", "invc", "log2c", "r", "neg1"}, 8, {}, 0, K11)
  BY <1>1, <1>11, BriefOwns DEF K11
<1>13. Owns(F, G, {"x", "y"}, 2, {}, 0, K12)
  BY <1>1, <1>12, Log6Owns DEF K12
<1>14. Owns(F, G, {"x"}, 1, {}, 0, K13)
  BY <1>1, <1>13, Log7Owns DEF K13
<1>15. Log1 \in Seq(Events) /\ Brief("tmp") \in Seq(Events) /\ Log2 \in Seq(Events)
           /\ Brief("k") \in Seq(Events) /\ Log3 \in Seq(Events) /\ Brief("tbl") \in Seq(Events)
           /\ Log4 \in Seq(Events) /\ Log5 \in Seq(Events) /\ Log6 \in Seq(Events) /\ Log7 \in Seq(Events)
  BY EventsAre, BriefIs DEF Names, Log1, Log2, Log3, Log4, Log5, Log6, Log7
<1>16. K2 = Body(L, Q2) /\ Q2 \in Seq(Events)
  BY <1>15, BodyJoins DEF K2, Q2, K1
<1>17. K3 = Body(L, Q3) /\ Q3 \in Seq(Events)
  BY <1>15, <1>16, BodyJoins DEF K3, Q3
<1>18. K4 = Body(L, Q4) /\ Q4 \in Seq(Events)
  BY <1>15, <1>17, BodyJoins DEF K4, Q4
<1>19. K5 = Body(L, Q5) /\ Q5 \in Seq(Events)
  BY <1>15, <1>18, BodyJoins DEF K5, Q5
<1>20. K6 = Body(L, Q6) /\ Q6 \in Seq(Events)
  BY <1>15, <1>19, BodyJoins DEF K6, Q6
<1>21. K7 = Body(L, Q7) /\ Q7 \in Seq(Events)
  BY <1>15, <1>20, BodyJoins DEF K7, Q7
<1>22. K8 = Body(L, Q8) /\ Q8 \in Seq(Events)
  BY <1>15, <1>21, BodyJoins DEF K8, Q8
<1>23. K9 = Body(L, Q9) /\ Q9 \in Seq(Events)
  BY <1>15, <1>22, BodyJoins DEF K9, Q9
<1>24. K10 = Body(L, Q10) /\ Q10 \in Seq(Events)
  BY <1>15, <1>23, BodyJoins DEF K10, Q10
<1>25. K11 = Body(L, Q11) /\ Q11 \in Seq(Events)
  BY <1>15, <1>24, BodyJoins DEF K11, Q11
<1>26. K12 = Body(L, Q12) /\ Q12 \in Seq(Events)
  BY <1>15, <1>25, BodyJoins DEF K12, Q12
<1>27. K13 = Body(L, Q13) /\ Q13 \in Seq(Events)
  BY <1>15, <1>26, BodyJoins DEF K13, Q13
<1>28. emit_inline_fyl2x_core = Q13
  BY Zenon DEF emit_inline_fyl2x_core, emit_inline_log2, Log1, Log2, Log3, Log4, Log5, Log6, Log7,
        Q2, Q3, Q4, Q5, Q6, Q7, Q8, Q9, Q10, Q11, Q12, Q13
<1> QED BY <1>14, <1>27, <1>28, Zenon

Scale1 ==
  <<GP("k"), GP("nzcv"), GP("Xm"), GP("Xt"), FP("m"), gp("k"), FP("norm"), fp("x"),
    GP("Xf"), gp("Xf"), gp("Xt"), gp("Xm"), fp("m"), gp("nzcv"), fp("y")>>

\* FSCALE.
LEMMA Scale1Owns ==
  ASSUME NEW F, NEW G, NEW L, Holds(F, 4), Holds(G, 4),
         Owns(F, G, {"x", "y"}, 2, {}, 0, L)
  PROVE  Owns(F, G, {"norm"}, 1, {}, 0, Body(L, Scale1))
<1>0. IsFiniteSet(F) /\ IsFiniteSet(G)
  BY DEF Holds
<1>1. Holds(F, 3) /\ Holds(F, 4) /\ Holds(G, 1) /\ Holds(G, 2) /\ Holds(G, 3) /\ Holds(G, 4)
  BY HoldsFewer
<1>2. PICK f : Unrolls(L, Scale1, f)
  <2>1. Len(Scale1) = 15 /\ Len(Scale1) \in Nat
    BY DEF Scale1
  <2> QED BY <2>1, BodyUnrolls, Zenon
<1>3. /\ f[1] = Turn(f[0], GP("k"))
      /\ f[2] = Turn(f[1], GP("nzcv"))
      /\ f[3] = Turn(f[2], GP("Xm"))
      /\ f[4] = Turn(f[3], GP("Xt"))
      /\ f[5] = Turn(f[4], FP("m"))
      /\ f[6] = Turn(f[5], gp("k"))
      /\ f[7] = Turn(f[6], FP("norm"))
      /\ f[8] = Turn(f[7], fp("x"))
      /\ f[9] = Turn(f[8], GP("Xf"))
      /\ f[10] = Turn(f[9], gp("Xf"))
      /\ f[11] = Turn(f[10], gp("Xt"))
      /\ f[12] = Turn(f[11], gp("Xm"))
      /\ f[13] = Turn(f[12], fp("m"))
      /\ f[14] = Turn(f[13], gp("nzcv"))
      /\ f[15] = Turn(f[14], fp("y"))
      /\ f[0] = L /\ Body(L, Scale1) = f[15]
  BY <1>2 DEF Unrolls, Scale1
<1>4. Owns(F, G, {"x", "y"}, 2, {"k"}, 1, f[1])
  BY <1>0, <1>1, <1>3, TakeGpr
<1>5. Owns(F, G, {"x", "y"}, 2, {"k", "nzcv"}, 2, f[2])
  BY <1>0, <1>1, <1>3, <1>4, TakeGpr
<1>6. Owns(F, G, {"x", "y"}, 2, {"k", "nzcv", "Xm"}, 3, f[3])
  BY <1>0, <1>1, <1>3, <1>5, TakeGpr
<1>7. Owns(F, G, {"x", "y"}, 2, {"k", "nzcv", "Xm", "Xt"}, 4, f[4])
  BY <1>0, <1>1, <1>3, <1>6, TakeGpr
<1>8. Owns(F, G, {"x", "y", "m"}, 3, {"k", "nzcv", "Xm", "Xt"}, 4, f[5])
  BY <1>0, <1>1, <1>3, <1>7, TakeFpr
<1>9. Owns(F, G, {"x", "y", "m"}, 3, {"nzcv", "Xm", "Xt"}, 3, f[6])
  BY <1>0, <1>1, <1>3, <1>8, GiveGpr
<1>10. Owns(F, G, {"x", "y", "m", "norm"}, 4, {"nzcv", "Xm", "Xt"}, 3, f[7])
  BY <1>0, <1>1, <1>3, <1>9, TakeFpr
<1>11. Owns(F, G, {"y", "m", "norm"}, 3, {"nzcv", "Xm", "Xt"}, 3, f[8])
  BY <1>0, <1>1, <1>3, <1>10, GiveFpr
<1>12. Owns(F, G, {"y", "m", "norm"}, 3, {"nzcv", "Xm", "Xt", "Xf"}, 4, f[9])
  BY <1>0, <1>1, <1>3, <1>11, TakeGpr
<1>13. Owns(F, G, {"y", "m", "norm"}, 3, {"nzcv", "Xm", "Xt"}, 3, f[10])
  BY <1>0, <1>1, <1>3, <1>12, GiveGpr
<1>14. Owns(F, G, {"y", "m", "norm"}, 3, {"nzcv", "Xm"}, 2, f[11])
  BY <1>0, <1>1, <1>3, <1>13, GiveGpr
<1>15. Owns(F, G, {"y", "m", "norm"}, 3, {"nzcv"}, 1, f[12])
  BY <1>0, <1>1, <1>3, <1>14, GiveGpr
<1>16. Owns(F, G, {"y", "norm"}, 2, {"nzcv"}, 1, f[13])
  BY <1>0, <1>1, <1>3, <1>15, GiveFpr
<1>17. Owns(F, G, {"y", "norm"}, 2, {}, 0, f[14])
  BY <1>0, <1>1, <1>3, <1>16, GiveGpr
<1>18. Owns(F, G, {"norm"}, 1, {}, 0, f[15])
  BY <1>0, <1>1, <1>3, <1>17, GiveFpr
<1> QED BY <1>3, <1>18

\* Four, and four.
LEMMA ScaleOwns ==
  ASSUME NEW F, NEW G, NEW L, Holds(F, 4), Holds(G, 4),
         Owns(F, G, {"x", "y"}, 2, {}, 0, L)
  PROVE  Owns(F, G, {"norm"}, 1, {}, 0, Body(L, emit_inline_fscale_core))
<1>1. Holds(F, 1) /\ Holds(F, 2) /\ Holds(F, 3) /\ Holds(F, 4)
      /\ Holds(G, 0) /\ Holds(G, 1) /\ Holds(G, 2) /\ Holds(G, 3) /\ Holds(G, 4)
  BY HoldsFewer
<1> DEFINE K1 == Body(L, Scale1)
<1> HIDE DEF K1
<1>2. Owns(F, G, {"norm"}, 1, {}, 0, K1)
  BY <1>1, Scale1Owns DEF K1
<1>3. Scale1 \in Seq(Events)
  BY EventsAre, BriefIs DEF Names, Scale1
<1>4. emit_inline_fscale_core = Scale1
  BY DEF emit_inline_fscale_core, Scale1
<1> QED BY <1>2, <1>4 DEF K1

-----------------------------------------------------------------------------
(* What most of lowering leaves alone *)

\* T has the pools, the registers of nodes and the place in the run of S.
Stays(S, T) ==
  /\ DOMAIN T = DOMAIN S /\ T.run = S.run /\ T.gv = S.gv /\ T.sb = S.sb
  /\ T.fprs = S.fprs /\ T.gprs = S.gprs /\ T.starved = S.starved
  /\ T.name = S.name /\ T.node = S.node /\ T.cmp = S.cmp /\ T.next = S.next /\ T.rc = S.rc

LEMMA StaysThrough ==
  ASSUME NEW S, NEW T, NEW U, Stays(S, T), Stays(T, U)
  PROVE  Stays(S, U)
BY DEF Stays

LEMMA StaysSame ==
  ASSUME NEW S
  PROVE  Stays(S, S)
BY DEF Stays

\* The helpers of X87Cache take nothing from a pool they do not give back.
LEMMA CacheStays ==
  ASSUME NEW S, NEW n, NEW v
  PROVE  /\ Stays(S, reset_perm(S)) /\ Stays(S, emit_load_top(S)) /\ Stays(S, emit_store_top(S))
         /\ Stays(S, emit_store_st(S, n, v)) /\ Stays(S, emit_x87_tag_clear(S))
         /\ Stays(S, emit_x87_tag_set_empty_batch(S, n))
         /\ Stays(S, emit_x87_tag_set_valid_batch(S, n))
         /\ Stays(S, emit_x87_perm_flush(S))
BY DEF Stays, reset_perm, emit_load_top, emit_store_top, emit_store_st, emit_x87_tag_clear,
  emit_x87_tag_set_empty_batch, emit_x87_tag_set_valid_batch, emit_x87_perm_flush

LEMMA FlushesStay ==
  ASSUME NEW S
  PROVE  /\ Stays(S, x87_emit_perm_flush(S)) /\ Stays(S, perm_flush_before_stack_change(S))
         /\ Stays(S, x87_flush_top(S)) /\ Stays(S, x87_flush_deferred_pops(S))
         /\ Stays(S, x87_flush_pending_tag(S)) /\ Stays(S, x87_flush_tags(S))
<1>1. Stays(S, x87_emit_perm_flush(S))
  BY CacheStays, StaysThrough DEF x87_emit_perm_flush
<1>2. Stays(S, x87_flush_deferred_pops(S))
  BY DEF Stays, x87_flush_deferred_pops, emit_x87_tag_set_empty_batch
<1>3. \A T : Stays(T, x87_flush_pending_tag(T))
  BY DEF Stays, x87_flush_pending_tag, emit_x87_tag_clear
<1>4. Stays(S, x87_flush_top(S))
  BY DEF Stays, x87_flush_top, emit_store_top
<1> QED BY <1>1, <1>2, <1>3, <1>4, StaysSame, StaysThrough DEF perm_flush_before_stack_change,
      x87_flush_tags

\* Nor does what is done to the guest.
LEMMA GuestStays ==
  ASSUME NEW S, NEW o, NEW v
  PROVE  /\ Stays(S, StoreMem(S, o, v)) /\ Stays(S, SetReg(S, o, v)) /\ Stays(S, SetFlags(S, v))
         /\ Stays(S, SetCc(S, v)) /\ Stays(S, SetCw(S, v))
BY DEF Stays, StoreMem, SetReg, SetFlags, SetCc, SetCw

LEMMA BridgeStays ==
  ASSUME NEW S, NEW op \in BridgeOps, NEW in, NEW arg, NEW wide
  PROVE  Stays(S, BridgeEffect(S, op, in, arg, wide))
BY GuestStays DEF BridgeEffect, BridgeOps

LEMMA EffectStays ==
  ASSUME NEW S, NEW op, NEW in, NEW a, NEW arg, NEW flags
  PROVE  Stays(S, Effect(S, op, in, a, arg, flags))
BY StaysSame, GuestStays, BridgeStays DEF Effect

\* Scratch registers there are enough of.
LEMMA ScratchStays ==
  ASSUME NEW S, NEW n \in Nat, Holds(S.gprs, n)
  PROVE  Scratch(S, n) = S
BY FS_CardinalityType DEF Holds, Scratch

-----------------------------------------------------------------------------
(* Where the values of nodes are *)

\* The nodes with a value, and where the values are.
HeldBy(L) == {n \in DOMAIN L.node : L.node[n] # NoReg}
Places(L) == {L.node[n] : n \in HeldBy(L)}
\* The registers of F that are not free hold one value each.
Placed(F, L) ==
  /\ Places(L) \subseteq F /\ L.fprs = F \ Places(L)
  /\ \A m, n \in HeldBy(L) : L.node[m] = L.node[n] => m = n

\* As many registers are taken as nodes have a value, or fewer.
LEMMA PlacesCounted ==
  ASSUME NEW F, Holds(F, 0), NEW L, Placed(F, L), NEW H, IsFiniteSet(H), HeldBy(L) \subseteq H
  PROVE  /\ Holds(L.fprs, 0) /\ IsFiniteSet(Places(L)) /\ Cardinality(H) \in Nat
         /\ Cardinality(L.fprs) >= Cardinality(F) - Cardinality(H)
         /\ Cardinality(F) \in Nat
<1> DEFINE S == HeldBy(L)
           f == [n \in S |-> L.node[n]]
<1>1. IsFiniteSet(S) /\ Cardinality(S) <= Cardinality(H) /\ Cardinality(H) \in Nat
      /\ Cardinality(S) \in Nat
  BY FS_Subset, FS_CardinalityType
<1>2. IsFiniteSet(Places(L)) /\ Cardinality(Places(L)) <= Cardinality(S)
  <2>1. f \in Surjection(S, Places(L))
    BY DEF Surjection, Places
  <2> HIDE DEF f, S
  <2> QED BY <1>1, <2>1, FS_Surjection
<1>3. Cardinality(F \ Places(L)) = Cardinality(F) - Cardinality(F \cap Places(L))
      /\ IsFiniteSet(F \ Places(L))
  BY FS_Difference DEF Holds
<1>4. F \cap Places(L) = Places(L)
  BY DEF Placed
<1>5. Cardinality(F) \in Nat /\ Cardinality(Places(L)) \in Nat /\ Cardinality(F \ Places(L)) \in Nat
  BY <1>2, <1>3, FS_CardinalityType DEF Holds
<1>6. L.fprs = F \ Places(L) /\ F \subseteq Nat
  BY DEF Placed, Holds
<1> HIDE DEF S
<1>7. Cardinality(L.fprs) = Cardinality(F) - Cardinality(Places(L)) /\ IsFiniteSet(L.fprs)
  BY <1>3, <1>4, <1>6
<1>8. L.fprs \subseteq Nat /\ Cardinality(L.fprs) >= 0
  <2>1. L.fprs \subseteq Nat
    BY <1>6
  <2>2. Cardinality(L.fprs) \in Nat
    BY <1>5, <1>6
  <2> QED BY <2>1, <2>2
<1>9. Cardinality(L.fprs) >= Cardinality(F) - Cardinality(H)
  BY <1>1, <1>2, <1>5, <1>7
<1> QED BY <1>1, <1>2, <1>5, <1>7, <1>8, <1>9 DEF Holds

\* L with a node placed in a register of its own.
LEMMA IntoPlaces ==
  ASSUME NEW F, NEW L, Placed(F, L), "node" \in DOMAIN L, NEW i \in DOMAIN L.node, i \notin HeldBy(L),
         NEW r \in L.fprs, r # NoReg, NEW v, NEW T, T.node = [L.node EXCEPT ![i] = r],
         T.fprs = L.fprs \ {r}
  PROVE  /\ Placed(F, T) /\ HeldBy(T) = HeldBy(L) \cup {i} /\ DOMAIN T.node = DOMAIN L.node
<1>1. DOMAIN T.node = DOMAIN L.node /\ T.node[i] = r
          /\ \A n \in DOMAIN L.node : n # i => T.node[n] = L.node[n]
  OBVIOUS
<1>2. HeldBy(T) = HeldBy(L) \cup {i}
  BY <1>1 DEF HeldBy
<1>3. \A n \in HeldBy(L) : n # i /\ T.node[n] = L.node[n] /\ n \in DOMAIN L.node
  BY <1>1 DEF HeldBy
<1>4. Places(T) = Places(L) \cup {r}
  BY <1>1, <1>2, <1>3 DEF Places
<1>5. \A n \in HeldBy(L) : L.node[n] # r
  BY DEF Placed, Places
<1>6. \A m, n \in HeldBy(T) : T.node[m] = T.node[n] => m = n
  BY <1>1, <1>2, <1>3, <1>5 DEF Placed
<1>7. Places(T) \subseteq F /\ T.fprs = F \ Places(T)
  BY <1>4 DEF Placed
<1> QED BY <1>1, <1>2, <1>6, <1>7 DEF Placed

\* What changes neither pool nor nodes moves no value.
LEMMA SamePlaces ==
  ASSUME NEW F, NEW L, NEW T, T.node = L.node, T.fprs = L.fprs
  PROVE  Placed(F, L) => Placed(F, T) /\ HeldBy(T) = HeldBy(L) /\ Places(T) = Places(L)
<1>1. HeldBy(T) = HeldBy(L) /\ Places(T) = Places(L)
  BY DEF HeldBy, Places
<1> QED BY <1>1 DEF Placed

-----------------------------------------------------------------------------
(* What every node leaves alone *)

Fields == PoolFields \cup {"run", "gv"}

\* D has the fields of K and is as far in the run, and starves only if K has.
Steady(K, D) ==
  /\ DOMAIN D = DOMAIN K /\ D.run = K.run /\ D.gv = K.gv /\ D.starved = K.starved
  /\ D.gprs = K.gprs /\ D.cmp = K.cmp /\ D.rc.on = K.rc.on /\ DOMAIN D.node = DOMAIN K.node

LEMMA SteadyThrough ==
  ASSUME NEW S, NEW T, NEW U, Steady(S, T), Steady(T, U)
  PROVE  Steady(S, U)
BY DEF Steady

LEMMA StaysSteady ==
  ASSUME NEW S, NEW T, Stays(S, T)
  PROVE  Steady(S, T)
BY DEF Stays, Steady

\* D is K after a node that leaves a value for those in new, and no others.
Serves(F, K, D, new) ==
  /\ Steady(K, D) /\ Placed(F, D) /\ HeldBy(D) \subseteq HeldBy(K) \cup new

LEMMA ServesOn ==
  ASSUME NEW F, NEW J, NEW K, NEW D, NEW new, Stays(J, K), Serves(F, K, D, new)
  PROVE  Serves(F, J, D, new)
<1>1. HeldBy(J) = HeldBy(K)
  BY DEF Stays, HeldBy
<1> QED BY <1>1, StaysSteady, SteadyThrough DEF Serves

\* What leaves the pools alone serves a node without a value.
LEMMA StaysServes ==
  ASSUME NEW F, NEW K, NEW D, Placed(F, K), Stays(K, D)
  PROVE  Serves(F, K, D, {}) /\ D.next = K.next
<1>1. Placed(F, D) /\ HeldBy(D) = HeldBy(K)
  BY SamePlaces DEF Stays
<1> QED BY <1>1, StaysSteady DEF Serves, Stays

\* An FPR there is.
LEMMA TakenIs ==
  ASSUME NEW L, Holds(L.fprs, 1)
  PROVE  /\ NextFpr(L) \in L.fprs /\ NextFpr(L) \in Nat
         /\ alloc_free_fpr(L) = [L EXCEPT !.fprs = @ \ {NextFpr(L)}, !.file[NextFpr(L)] = NoVal]
         /\ Holds(L.fprs \ {NextFpr(L)}, 0)
         /\ Cardinality(L.fprs \ {NextFpr(L)}) = Cardinality(L.fprs) - 1
         /\ Cardinality(L.fprs) \in Nat
<1>1. Cardinality(L.fprs) \in Nat /\ Cardinality(L.fprs) > 0
  BY FS_CardinalityType DEF Holds
<1>2. /\ L.fprs # {} /\ NextFpr(L) \in L.fprs /\ IsFiniteSet(L.fprs \ {NextFpr(L)})
      /\ Cardinality(L.fprs \ {NextFpr(L)}) = Cardinality(L.fprs) - 1
  BY <1>1, LessOne DEF Holds, NextFpr, Lowest
<1> HIDE DEF NextFpr
<1>3. alloc_free_fpr(L) = [L EXCEPT !.fprs = @ \ {NextFpr(L)}, !.file[NextFpr(L)] = NoVal]
  BY <1>2 DEF alloc_free_fpr
<1>4. Holds(L.fprs \ {NextFpr(L)}, 0) /\ NextFpr(L) \in Nat
  <2>1. Cardinality(L.fprs \ {NextFpr(L)}) >= 0
    BY <1>1, <1>2
  <2> QED BY <1>2, <2>1 DEF Holds
<1> QED BY <1>1, <1>2, <1>3, <1>4

\* A value in a fresh register.
LEMMA FreshServes ==
  ASSUME NEW F, NEW L, Fields \subseteq DOMAIN L, Placed(F, L), Holds(L.fprs, 1),
         NEW i \in DOMAIN L.node, i \notin HeldBy(L), NEW v
  PROVE  Serves(F, L, InFresh(L, i, v), {i}) /\ InFresh(L, i, v).next = L.next
<1> DEFINE r == NextFpr(L)
           Y == alloc_free_fpr(L)
           T == InFresh(L, i, v)
<1>1. r \in L.fprs /\ r \in Nat /\ Y = [L EXCEPT !.fprs = @ \ {r}, !.file[r] = NoVal]
  BY TakenIs
<1> HIDE DEF r, Y
<1>2. T = [Y EXCEPT !.node[i] = r, !.file[r] = v]
  BY DEF InFresh, Into, Y, r
<1> HIDE DEF T
<1>3. /\ DOMAIN Y = DOMAIN L /\ Y.node = L.node /\ Y.fprs = L.fprs \ {r} /\ Y.run = L.run /\ Y.gv = L.gv
      /\ Y.starved = L.starved /\ Y.gprs = L.gprs /\ Y.cmp = L.cmp /\ Y.rc = L.rc /\ Y.next = L.next
  BY <1>1 DEF Fields, PoolFields
<1>4. /\ DOMAIN T = DOMAIN Y /\ T.node = [Y.node EXCEPT ![i] = r] /\ T.fprs = Y.fprs /\ T.run = Y.run
      /\ T.gv = Y.gv /\ T.starved = Y.starved /\ T.gprs = Y.gprs /\ T.cmp = Y.cmp /\ T.rc = Y.rc
      /\ T.next = Y.next
  BY <1>2, <1>3 DEF Fields, PoolFields
<1>5. Placed(F, T) /\ HeldBy(T) = HeldBy(L) \cup {i} /\ DOMAIN T.node = DOMAIN L.node
  <2>1. r # NoReg
    BY <1>1 DEF NoReg, None
  <2>2. "node" \in DOMAIN L /\ T.node = [L.node EXCEPT ![i] = r] /\ T.fprs = L.fprs \ {r}
    BY <1>3, <1>4 DEF Fields, PoolFields
  <2> QED BY <1>1, <2>1, <2>2, IntoPlaces
<1> QED BY <1>3, <1>4, <1>5 DEF Serves, Steady, T

-----------------------------------------------------------------------------
(* Giving back *)

\* The nodes whose last use i is.
EndedAt(c, i) == {m \in Ids(c) : UsesBy(c, i, m) # {} /\ c.last[m] = i}
\* T is L with the registers of some nodes given back.
Frees(F, L, T, E) ==
  /\ Steady(L, T) /\ T.name = L.name /\ T.next = L.next /\ T.rc = L.rc
  /\ Placed(F, T) /\ HeldBy(T) = HeldBy(L) \ E

\* One input is given back if this was its last use.
LEMMA FreeOne ==
  ASSUME NEW F, NEW c, NEW L, Fields \subseteq DOMAIN L, Placed(F, L), NEW i, NEW n
  PROVE  Frees(F, L, FreeInput(c, L, i, n), {m \in {n} : m \in Ids(c) /\ c.last[m] = i})
<1> DEFINE T == FreeInput(c, L, i, n)
           E == {m \in {n} : m \in Ids(c) /\ c.last[m] = i}
<1>1. CASE ~Dies(c, L, i, n)
  <2>1. T = L
    BY <1>1 DEF FreeInput
  <2>2. n \in HeldBy(L) => n \notin E
    BY <1>1 DEF Dies, HeldBy, get
  <2> HIDE DEF T
  <2>3. HeldBy(T) = HeldBy(L) \ E
    BY <2>1, <2>2
  <2> QED BY <2>1, <2>3 DEF Frees, Steady, T
<1>2. CASE Dies(c, L, i, n)
  <2> DEFINE r == L.node[n]
  <2>1. T = [[L EXCEPT !.fprs = @ \cup {r}] EXCEPT !.node[n] = NoReg]
    BY <1>2 DEF FreeInput, free_fpr
  <2>2. n \in HeldBy(L) /\ n \in DOMAIN L.node /\ E = {n}
    BY <1>2 DEF Dies, HeldBy, get
  <2>3. r \in F /\ r \in Places(L)
    BY <2>2 DEF Placed, Places
  <2> HIDE DEF T, r
  <2>4. /\ DOMAIN T = DOMAIN L /\ T.fprs = L.fprs \cup {r} /\ T.node = [L.node EXCEPT ![n] = NoReg]
        /\ T.run = L.run /\ T.gv = L.gv /\ T.starved = L.starved /\ T.gprs = L.gprs /\ T.cmp = L.cmp
        /\ T.rc = L.rc /\ T.next = L.next /\ T.name = L.name
    BY <2>1 DEF Fields, PoolFields
  <2>5. /\ DOMAIN T.node = DOMAIN L.node /\ T.node[n] = NoReg
        /\ \A m \in DOMAIN L.node : m # n => T.node[m] = L.node[m]
    BY <2>2, <2>4
  <2>6. HeldBy(T) = HeldBy(L) \ {n}
    BY <2>5 DEF HeldBy
  <2>7. \A m \in HeldBy(T) : m \in HeldBy(L) /\ T.node[m] = L.node[m] /\ L.node[m] # r
    BY <2>2, <2>5, <2>6 DEF HeldBy, Placed, r
  <2>8. Places(T) = Places(L) \ {r}
    <3>1. Places(T) \subseteq Places(L) \ {r}
      BY <2>7 DEF Places
    <3>2. \A m \in HeldBy(L) : L.node[m] # r => m \in HeldBy(T) /\ T.node[m] = L.node[m]
      BY <2>5, <2>6 DEF HeldBy, r
    <3>3. Places(L) \ {r} \subseteq Places(T)
      BY <3>2 DEF Places
    <3> QED BY <3>1, <3>3
  <2>9. Placed(F, T)
    <3>1. T.fprs = F \ Places(T)
      BY <2>3, <2>4, <2>8 DEF Placed
    <3>2. Places(T) \subseteq F
      BY <2>8 DEF Placed
    <3>3. \A m, k \in HeldBy(T) : T.node[m] = T.node[k] => m = k
      BY <2>7 DEF Placed
    <3> QED BY <3>1, <3>2, <3>3 DEF Placed
  <2> QED BY <2>2, <2>4, <2>5, <2>6, <2>9 DEF Frees, Steady, T
<1> QED BY <1>1, <1>2

\* free_dead_inputs gives back what ends at i, and that only.
LEMMA FreeAll ==
  ASSUME NEW F, NEW c, NEW L, Fields \subseteq DOMAIN L, Placed(F, L), NEW i
  PROVE  Frees(F, L, free_dead_inputs(c, L, i), EndedAt(c, i))
<1> DEFINE in == NodeAt(c, i).in
           E(n) == {m \in {n} : m \in Ids(c) /\ c.last[m] = i}
           Y == FreeInput(c, L, i, in[1])
           B == FreeInput(c, Y, i, in[2])
           D == FreeInput(c, B, i, in[3])
<1>1. Frees(F, L, Y, E(in[1]))
  BY FreeOne
<1> HIDE DEF Y
<1>2. Frees(F, Y, B, E(in[2]))
  <2>1. Fields \subseteq DOMAIN Y /\ Placed(F, Y)
    BY <1>1 DEF Frees, Steady
  <2> QED BY <2>1, FreeOne
<1> HIDE DEF B
<1>3. Frees(F, B, D, E(in[3]))
  <2>1. Fields \subseteq DOMAIN B /\ Placed(F, B)
    BY <1>1, <1>2 DEF Frees, Steady
  <2> QED BY <2>1, FreeOne
<1>4. D = free_dead_inputs(c, L, i)
  BY DEF Y, B, free_dead_inputs
<1> HIDE DEF D
<1>5. EndedAt(c, i) = (E(in[1]) \cup E(in[2])) \cup E(in[3])
  BY DEF EndedAt, UsesBy
<1>6. HeldBy(D) = HeldBy(L) \ EndedAt(c, i)
  <2> HIDE DEF E
  <2> QED BY <1>1, <1>2, <1>3, <1>5 DEF Frees
<1> QED BY <1>1, <1>2, <1>3, <1>4, <1>6 DEF Frees, Steady

\* The register of an input whose last use this is, or a fresh one.
LEMMA ReusedServes ==
  ASSUME NEW F, NEW c, NEW L, Fields \subseteq DOMAIN L, Placed(F, L), Holds(L.fprs, 1),
         NEW i \in DOMAIN L.node, i \notin HeldBy(L), NEW v
  PROVE  Serves(F, L, InReused(c, L, i, v), {i}) /\ InReused(c, L, i, v).next = L.next
<1>1. CASE Dying(c, L, i) = {}
  BY <1>1, FreshServes DEF InReused
<1>2. CASE Dying(c, L, i) # {}
  <2> DEFINE k == Min(Dying(c, L, i))
             n == NodeAt(c, i).in[k]
             r == L.node[n]
             T == InReused(c, L, i, v)
  <2>1. k \in Dying(c, L, i)
    <3>1. Dying(c, L, i) \subseteq Nat
      BY DEF Dying
    <3> QED BY <1>2, <3>1, Smallest
  <2>2. n \in HeldBy(L) /\ n \in DOMAIN L.node /\ n # i
    BY <2>1 DEF Dying, Dies, HeldBy, get
  <2>3. T = [[L EXCEPT !.node[n] = NoReg] EXCEPT !.node[i] = r, !.file[r] = v]
    BY <1>2 DEF InReused, Into
  <2> HIDE DEF k, n, T
  <2>4. r \in Places(L) /\ r # NoReg
    BY <2>2 DEF Places, HeldBy
  <2> HIDE DEF r
  <2>5. /\ DOMAIN T = DOMAIN L /\ T.fprs = L.fprs /\ T.run = L.run /\ T.gv = L.gv /\ T.starved = L.starved
        /\ T.gprs = L.gprs /\ T.cmp = L.cmp /\ T.rc = L.rc /\ T.next = L.next
        /\ T.node = [[L.node EXCEPT ![n] = NoReg] EXCEPT ![i] = r]
    BY <2>3 DEF Fields, PoolFields
  <2>6. /\ DOMAIN T.node = DOMAIN L.node /\ T.node[n] = NoReg /\ T.node[i] = r
        /\ \A m \in DOMAIN L.node : m # n /\ m # i => T.node[m] = L.node[m]
    BY <2>2, <2>5
  <2>7. HeldBy(T) = (HeldBy(L) \ {n}) \cup {i}
    BY <2>4, <2>6 DEF HeldBy
  <2>8. \A m \in HeldBy(T) : m # i => m \in HeldBy(L) /\ T.node[m] = L.node[m] /\ L.node[m] # r
    BY <2>2, <2>6, <2>7 DEF HeldBy, Placed, r
  <2>9. Places(T) = Places(L)
    <3>1. Places(T) \subseteq Places(L)
      BY <2>4, <2>6, <2>8 DEF Places
    <3>2. \A m \in HeldBy(L) : m # n => m \in HeldBy(T) /\ T.node[m] = L.node[m]
      BY <2>6, <2>7 DEF HeldBy
    <3>3. i \in HeldBy(T)
      BY <2>7
    <3>4. L.node[n] = r
      BY DEF r
    <3>5. \A m \in HeldBy(L) : \E q \in HeldBy(T) : T.node[q] = L.node[m]
      BY <2>6, <3>2, <3>3, <3>4
    <3> QED BY <3>1, <3>5 DEF Places
  <2>10. \A m, q \in HeldBy(T) : T.node[m] = T.node[q] => m = q
    <3>1. \A m, q \in HeldBy(L) : L.node[m] = L.node[q] => m = q
      BY DEF Placed
    <3> QED BY <2>6, <2>8, <3>1
  <2>11. Placed(F, T)
    BY <2>5, <2>9, <2>10 DEF Placed
  <2>12. HeldBy(T) \subseteq HeldBy(L) \cup {i}
    BY <2>7
  <2> QED BY <2>5, <2>6, <2>11, <2>12 DEF Serves, Steady, T
<1> QED BY <1>1, <1>2

-----------------------------------------------------------------------------
(* Nodes with a value, in one register of their own *)

LEMMA FewerHeld ==
  ASSUME NEW S, NEW n \in Nat, NEW m \in Nat, Holds(S, n), m <= n
  PROVE  Holds(S, m)
BY FS_CardinalityType DEF Holds

\* The control word is read with a register that is kept, if it is read at all.
LEMMA PreambleStays ==
  ASSUME NEW L, Fields \subseteq DOMAIN L
  PROVE  LET Z == emit_rc_preamble(L)
         IN  /\ Steady(L, Z) /\ Z.fprs = L.fprs /\ Z.node = L.node /\ Z.next = L.next
             /\ Z.file = L.file
<1> DEFINE Z == emit_rc_preamble(L)
<1>1. Z = L \/ \E v : Z = [L EXCEPT !.rc = [[@ EXCEPT !.valid = TRUE] EXCEPT !.v = v]]
  BY DEF emit_rc_preamble
<1>2. CASE Z = L
  BY <1>2 DEF Steady
<1>3. CASE \E v : Z = [L EXCEPT !.rc = [[@ EXCEPT !.valid = TRUE] EXCEPT !.v = v]]
  <2>1. PICK v : Z = [L EXCEPT !.rc = [[@ EXCEPT !.valid = TRUE] EXCEPT !.v = v]]
    BY <1>3
  <2> DEFINE w == [[L.rc EXCEPT !.valid = TRUE] EXCEPT !.v = v]
  <2>2. w.on = L.rc.on
    OBVIOUS
  <2>3. Z = [L EXCEPT !.rc = w]
    BY <2>1
  <2> HIDE DEF w, Z
  <2>4. Z.rc = w
    BY <2>3 DEF Fields, PoolFields
  <2> QED BY <2>2, <2>3, <2>4 DEF Steady, Z
<1> QED BY <1>1, <1>2, <1>3

\* The rounding of FRNDINT takes a register it gives back, if none is cached.
LEMMA RoundingStays ==
  ASSUME NEW L, Fields \subseteq DOMAIN L, L.rc.on \/ RcPlace \in L.gprs
  PROVE  LET Z == emit_rc_preamble(IF L.rc.on THEN L ELSE free_gpr(alloc_gpr(L, RcPlace), RcPlace))
         IN  /\ Steady(L, Z) /\ Z.fprs = L.fprs /\ Z.node = L.node /\ Z.next = L.next
<1> DEFINE M == IF L.rc.on THEN L ELSE free_gpr(alloc_gpr(L, RcPlace), RcPlace)
<1>1. /\ Steady(L, M) /\ M.fprs = L.fprs /\ M.node = L.node /\ M.next = L.next
  <2>1. CASE L.rc.on
    BY <2>1 DEF Steady
  <2>2. CASE ~L.rc.on
    <3>1. M = [[L EXCEPT !.gprs = @ \ {RcPlace}] EXCEPT !.gprs = @ \cup {RcPlace}]
      BY <2>2 DEF free_gpr, alloc_gpr
    <3>2. (L.gprs \ {RcPlace}) \cup {RcPlace} = L.gprs
      BY <2>2
    <3> HIDE DEF M
    <3>3. M.gprs = L.gprs
      BY <3>1, <3>2 DEF Fields, PoolFields
    <3> QED BY <3>1, <3>3 DEF Steady, Fields, PoolFields
  <2> QED BY <2>1, <2>2
<1> HIDE DEF M
<1>2. Fields \subseteq DOMAIN M
  BY <1>1 DEF Steady
<1> DEFINE Z == emit_rc_preamble(M)
<1>3. /\ Steady(M, Z) /\ Z.fprs = M.fprs /\ Z.node = M.node /\ Z.next = M.next
  BY <1>2, PreambleStays
<1> HIDE DEF Z
<1>4. /\ Steady(L, Z) /\ Z.fprs = L.fprs /\ Z.node = L.node /\ Z.next = L.next
  BY <1>1, <1>3, SteadyThrough
<1> QED BY <1>4 DEF Z, M

LEMMA ServesAfter ==
  ASSUME NEW F, NEW L, NEW Z, Steady(L, Z), Z.fprs = L.fprs, Z.node = L.node, Z.next = L.next,
         NEW D, NEW new, Serves(F, Z, D, new) /\ D.next = Z.next
  PROVE  Serves(F, L, D, new) /\ D.next = L.next
<1>1. HeldBy(Z) = HeldBy(L)
  BY DEF HeldBy
<1> QED BY <1>1, SteadyThrough DEF Serves

\* The code of each node.
LEMMA NodeIs ==
  ASSUME NEW c, NEW L, NEW i
  PROVE  LET op == NodeAt(c, i).op
             head == "Head" \in NodeAt(c, i).flags
             D == lower_node(c, L, i)
         IN  /\ op = "ReadSt" => D = lower_ReadSt(c, L, i)
             /\ op \in Loads => D = lower_Load(c, L, i)
             /\ op \in Consts => D = lower_Const(c, L, i)
             /\ op \in Cores => D = lower_core(c, L, i)
             /\ op = "FRndInt" => D = lower_FRndInt(c, L, i)
             /\ op = "FCSel" => D = lower_FCSel(c, L, i)
             /\ op \in Arithmetic /\ head => D = lower_fma_reduce(c, L, i)
             /\ op \in Arithmetic /\ ~head => D = lower_arith(c, L, i)
             /\ op = "StoreF64" => D = lower_StoreF64(c, L, i)
             /\ op = "StoreF32" => D = lower_StoreF32(c, L, i)
             /\ op \in IntStores => D = lower_StoreI(c, L, i)
             /\ op \in Compares => D = lower_compare(c, L, i)
             /\ op = "FStsw" => D = lower_FStsw(c, L, i)
             /\ op = "StoreCW" => D = lower_StoreCW(c, L, i)
             /\ op \in BridgeOps \cup {"FComI", "LoadCW"} => D = lower_effect(c, L, i)
BY DEF lower_node, Loads, Consts, Trigs, Cores, Arithmetic, Binaries, Fmas, Unaries, IntStores, Compares,
  BridgeOps

\* The GPRs a node takes, by what it is.
LEMMA TransientIs ==
  ASSUME NEW n, NEW cached
  PROVE  LET T == Transient(n, cached)
         IN  /\ n.op \in {"LoadF64", "LoadF32", "StoreF64", "StoreF32"} => T = 1
             /\ n.op \in {"LoadI16", "LoadI32", "LoadI64"} \cup IntStores => T = 2
             /\ n.op = "FCSel" => T = IF n.arg \in {"PF", "NPF"} THEN 1 ELSE 0
             /\ n.op \in Trigs => T = 3
             /\ n.op \in {"FPatan", "FYl2x", "FScale"} \cup Compares => T = 4
             /\ n.op = "FMAdd" => T = IF "Head" \in n.flags THEN 1 ELSE 0
             /\ n.op = "FRndInt" => T = IF cached THEN 0 ELSE 1
             /\ n.op = "FComI" => T = 3
             /\ n.op \in {"FStsw", "StoreCW", "LoadCW", "BridgeAluRM", "BridgeAluMR"} => T = 2
             /\ n.op \in {"BridgeLea", "BridgeLoadG", "BridgeStoreG", "BridgeAluRI"} => T = 1
             /\ T \in Nat
BY DEF Transient, Loads, Stores, IntStores, Trigs, Compares

\* One register, and what GPRs the count says.
LEMMA ValueServes ==
  ASSUME NEW F, NEW c, NEW L, Fields \subseteq DOMAIN L, Placed(F, L), Holds(L.fprs, 1),
         NEW i \in DOMAIN L.node, i \notin HeldBy(L),
         NodeAt(c, i).op \in ValueOps, NodeAt(c, i).op \notin Cores,
         "Head" \in NodeAt(c, i).flags => NodeAt(c, i).op \notin Arithmetic,
         Holds(L.gprs, Transient(NodeAt(c, i), L.rc.on)),
         L.rc.on \/ RcPlace \in L.gprs
  PROVE  Serves(F, L, lower_node(c, L, i), {i}) /\ lower_node(c, L, i).next = L.next
<1> DEFINE n  == NodeAt(c, i)
           op == n.op
           D  == lower_node(c, L, i)
<1>1. \A v : Serves(F, L, InFresh(L, i, v), {i}) /\ InFresh(L, i, v).next = L.next
  BY FreshServes
<1>2. \A v : Serves(F, L, InReused(c, L, i, v), {i}) /\ InReused(c, L, i, v).next = L.next
  BY ReusedServes
<1>3. CASE op = "ReadSt"
  <2>1. D = lower_ReadSt(c, L, i)
    BY <1>3, NodeIs
  <2> QED BY <1>1, <2>1 DEF lower_ReadSt
<1>4. CASE op \in Loads
  <2>1. D = lower_Load(c, L, i)
    BY <1>4, NodeIs
  <2> DEFINE k == IF op \in {"LoadF64", "LoadF32"} THEN 1 ELSE 2
  <2>2. Transient(n, L.rc.on) = k
    BY <1>4, TransientIs DEF Loads
  <2>3. Scratch(L, k) = L
    BY <2>2, ScratchStays
  <2>4. D = InFresh(L, i, Computed(c, L, i))
    BY <2>1, <2>3 DEF lower_Load
  <2> HIDE DEF D
  <2> QED BY <1>1, <2>4 DEF D
<1>5. CASE op \in Consts
  <2>1. D = lower_Const(c, L, i)
    BY <1>5, NodeIs
  <2> QED BY <1>1, <2>1 DEF lower_Const
<1>6. CASE op = "FRndInt"
  <2>1. D = lower_FRndInt(c, L, i)
    BY <1>6, NodeIs
  <2> DEFINE Z == emit_rc_preamble(IF L.rc.on THEN L
                                   ELSE free_gpr(alloc_gpr(L, RcPlace), RcPlace))
             v == Rnd(RoundingNow(Z), HeldInputs(c, L, i)[1])
  <2>2. /\ Steady(L, Z) /\ Z.fprs = L.fprs /\ Z.node = L.node /\ Z.next = L.next
    BY RoundingStays
  <2>3. D = InReused(c, Z, i, v)
    BY <2>1 DEF lower_FRndInt
  <2> HIDE DEF D, Z, v
  <2>4. Fields \subseteq DOMAIN Z /\ Placed(F, Z) /\ HeldBy(Z) = HeldBy(L)
    BY <2>2, SamePlaces DEF Steady
  <2>5. Serves(F, Z, InReused(c, Z, i, v), {i}) /\ InReused(c, Z, i, v).next = Z.next
    BY <2>2, <2>4, ReusedServes
  <2> QED BY <2>2, <2>3, <2>5, ServesAfter DEF D
<1>7. CASE op = "FCSel"
  <2>1. D = lower_FCSel(c, L, i)
    BY <1>7, NodeIs
  <2> DEFINE k == IF n.arg \in {"PF", "NPF"} THEN 1 ELSE 0
  <2>2. Transient(n, L.rc.on) = k
    BY <1>7, TransientIs
  <2>3. Scratch(L, k) = L
    BY <2>2, ScratchStays
  <2>4. D = lower_arith(c, L, i)
    BY <2>1, <2>3 DEF lower_FCSel
  <2> HIDE DEF D
  <2> QED BY <1>2, <2>4 DEF D, lower_arith
<1>8. CASE op \in Arithmetic
  <2>1. "Head" \notin n.flags
    BY <1>8
  <2>2. D = lower_arith(c, L, i)
    BY <1>8, <2>1, NodeIs
  <2> QED BY <1>2, <2>2 DEF lower_arith
<1>9. op \in {"ReadSt", "FRndInt", "FCSel"} \cup Loads \cup Consts \cup Arithmetic
  BY DEF ValueOps, Cores, Arithmetic
<1> HIDE DEF D
<1> QED BY <1>3, <1>4, <1>5, <1>6, <1>7, <1>8, <1>9 DEF D

-----------------------------------------------------------------------------
(* Stores and other nodes that only act *)

StaysAlong(c, d, x, base, K) == Stays(base, K)

\* Stores of a group, and of a run, keep to the registers they were given.
GroupStays == INSTANCE X87Walk_proofs WITH Turn <- GroupTurn, Kept <- StaysAlong
RunStays == INSTANCE X87Walk_proofs WITH Turn <- RunTurn, Kept <- StaysAlong

LEMMA StoreGroupStays ==
  ASSUME NEW c, NEW j, NEW v, NEW L, NEW k
  PROVE  Stays(L, StoreGroup(c, j, v, L, k))
<1> DEFINE q == [m \in 1..StoresAt(c, k, j) |-> m - 1]
           o == NodeAt(c, k).arg
<1>1. Len(q) \in Nat
  <2>1. StoresAt(c, k, j) \in Nat
    BY DEF StoresAt
  <2> QED BY <2>1, Long
<1>2. \A n \in 1..Len(q) : \A K :
        StaysAlong(o, v, 0, L, K) => StaysAlong(o, v, 0, L, GroupTurn(o, v, 0, K, q[n]))
  <2>1. \A K, m : Stays(K, StoreAfter(o, v, K, m))
    BY GuestStays DEF StoreAfter
  <2> HIDE DEF q, o
  <2> QED BY <2>1, StaysThrough DEF StaysAlong, GroupTurn
<1>3. StaysAlong(o, v, 0, L, L)
  BY StaysSame DEF StaysAlong
<1>4. StaysAlong(o, v, 0, L, GroupStays!Through(o, v, 0, L, q))
  <2> HIDE DEF StaysAlong, GroupTurn, q, o
  <2> QED BY <1>1, <1>2, <1>3, Induction, GroupStays!WalkKeeps
<1>5. GroupStays!Through(o, v, 0, L, q) = StoreGroup(c, j, v, L, k)
  BY DEF GroupStays!Through, GroupStays!Walk, Walk, GroupTurn, StoreGroup
<1> QED BY <1>4, <1>5 DEF StaysAlong

LEMMA StoreRunStays ==
  ASSUME NEW c, NEW i \in Int, NEW j \in Int, NEW v, NEW L
  PROVE  Stays(L, StoreRun(c, i, j, v, L))
<1> DEFINE q == Starts(c, i, j)
<1>1. Len(q) \in Nat
  BY StartsCounted
<1>2. \A n \in 1..Len(q) : \A K :
        StaysAlong(c, j, v, L, K) => StaysAlong(c, j, v, L, RunTurn(c, j, v, K, q[n]))
  BY StoreGroupStays, StaysThrough DEF StaysAlong, RunTurn
<1>3. StaysAlong(c, j, v, L, L)
  BY StaysSame DEF StaysAlong
<1>4. StaysAlong(c, j, v, L, RunStays!Through(c, j, v, L, q))
  <2> HIDE DEF StaysAlong, RunTurn, q
  <2> QED BY <1>1, <1>2, <1>3, Induction, RunStays!WalkKeeps
<1>5. RunStays!Through(c, j, v, L, q) = StoreRun(c, i, j, v, L)
  BY DEF RunStays!Through, RunStays!Walk, Walk, RunTurn, StoreRun
<1> QED BY <1>4, <1>5 DEF StaysAlong

\* T is L but for what the FPRs hold.
SamePools(L, T) ==
  Steady(L, T) /\ T.fprs = L.fprs /\ T.node = L.node /\ T.next = L.next

LEMMA StaysSamePools ==
  ASSUME NEW L, NEW T, Stays(L, T)
  PROVE  SamePools(L, T)
BY DEF Stays, Steady, SamePools

LEMMA SamePoolsThrough ==
  ASSUME NEW S, NEW T, NEW U, SamePools(S, T), SamePools(T, U)
  PROVE  SamePools(S, U)
BY SteadyThrough DEF SamePools

LEMMA SamePoolsServe ==
  ASSUME NEW F, NEW L, NEW T, Placed(F, L), SamePools(L, T)
  PROVE  Serves(F, L, T, {}) /\ T.next = L.next
BY SamePlaces DEF SamePools, Serves

\* A register taken and given back.
LEMMA BorrowedIs ==
  ASSUME NEW L, Fields \subseteq DOMAIN L, Holds(L.fprs, 1)
  PROVE  SamePools(L, free_fpr(alloc_free_fpr(L), NextFpr(L)))
<1> DEFINE r == NextFpr(L)
           Y == alloc_free_fpr(L)
           B == free_fpr(Y, r)
<1>1. r \in L.fprs /\ Y = [L EXCEPT !.fprs = @ \ {r}, !.file[r] = NoVal]
  BY TakenIs
<1>2. B = [Y EXCEPT !.fprs = @ \cup {r}]
  BY DEF free_fpr
<1>3. (L.fprs \ {r}) \cup {r} = L.fprs
  BY <1>1
<1> HIDE DEF r, Y, B
<1>4. B.fprs = L.fprs
  BY <1>1, <1>2, <1>3 DEF Fields, PoolFields
<1>5. Steady(L, B) /\ B.node = L.node /\ B.next = L.next
  BY <1>1, <1>2 DEF Steady, Fields, PoolFields
<1> QED BY <1>4, <1>5 DEF SamePools, Y, B, r

\* FIST and FISTP: two GPRs and an FPR for the conversion, all given back.
LEMMA StoreIServes ==
  ASSUME NEW c, NEW L, Fields \subseteq DOMAIN L, Holds(L.fprs, 1), Holds(L.gprs, 2), NEW i
  PROVE  SamePools(L, lower_StoreI(c, L, i))
<1> DEFINE Z == IF "Truncate" \in NodeAt(c, i).flags THEN L ELSE emit_rc_preamble(L)
           B == free_fpr(alloc_free_fpr(Scratch(Z, 2)), NextFpr(Z))
<1>1. SamePools(L, Z)
  <2>1. SamePools(L, L)
    BY DEF SamePools, Steady
  <2> QED BY <2>1, PreambleStays DEF SamePools
<1>2. \E o, v : lower_StoreI(c, L, i) = StoreMem(B, o, v)
  BY DEF lower_StoreI
<1> HIDE DEF Z
<1>3. Fields \subseteq DOMAIN Z /\ Holds(Z.fprs, 1) /\ Holds(Z.gprs, 2)
  BY <1>1 DEF SamePools, Steady
<1>4. Scratch(Z, 2) = Z
  BY <1>3, ScratchStays
<1>5. SamePools(Z, B)
  BY <1>3, <1>4, BorrowedIs
<1> HIDE DEF B
<1> QED BY <1>1, <1>2, <1>5, GuestStays, StaysSamePools, SamePoolsThrough

LEMMA StoreCWServes ==
  ASSUME NEW c, NEW L, Fields \subseteq DOMAIN L, Holds(L.gprs, 2), NEW i
  PROVE  SamePools(L, lower_StoreCW(c, L, i))
<1> DEFINE W == Effect(Scratch(L, 2), "StoreCW", NoInputs, <<>>, NodeAt(c, i).arg, {})
           D == lower_StoreCW(c, L, i)
<1>1. Scratch(L, 2) = L
  BY ScratchStays
<1>2. Stays(L, W)
  BY <1>1, EffectStays
<1>3. D = IF W.rc.on THEN [W EXCEPT !.rc.valid = TRUE, !.rc.v = RC(W.cw)] ELSE W
  BY DEF lower_StoreCW
<1> HIDE DEF W, D
<1>4. Fields \subseteq DOMAIN W
  BY <1>2 DEF Stays
<1>5. SamePools(W, D)
  <2>1. CASE ~W.rc.on
    BY <1>3, <2>1 DEF SamePools, Steady
  <2>2. CASE W.rc.on
    <3> DEFINE w == [[W.rc EXCEPT !.valid = TRUE] EXCEPT !.v = RC(W.cw)]
    <3>1. w.on = W.rc.on
      OBVIOUS
    <3>2. D = [W EXCEPT !.rc = w]
      BY <1>3, <2>2
    <3> HIDE DEF w
    <3> QED BY <1>4, <3>1, <3>2 DEF SamePools, Steady, Fields, PoolFields
  <2> QED BY <2>1, <2>2
<1> QED BY <1>2, <1>5, StaysSamePools, SamePoolsThrough DEF D

\* What acts on the guest alone.
LEMMA EffectServes ==
  ASSUME NEW c, NEW L, NEW i, NodeAt(c, i).op \in BridgeOps \cup {"FComI", "LoadCW"},
         NEW cached, Holds(L.gprs, Transient(NodeAt(c, i), cached))
  PROVE  SamePools(L, lower_effect(c, L, i))
<1> DEFINE n == NodeAt(c, i)
           k == EffectGprs(n)
<1>1. k \in Nat /\ k <= Transient(n, cached) /\ Transient(n, cached) \in Nat
  <2>1. Transient(n, cached) \in Nat
    BY TransientIs
  <2>2. CASE n.op = "FComI"
    BY <2>2, TransientIs DEF EffectGprs
  <2>3. CASE n.op \in {"LoadCW", "BridgeAluRM", "BridgeAluMR"}
    BY <2>3, TransientIs DEF EffectGprs
  <2>4. CASE n.op \in {"BridgeLea", "BridgeLoadG", "BridgeStoreG"}
    BY <2>4, TransientIs DEF EffectGprs
  <2>5. CASE n.op = "BridgeAluRI"
    <3>1. k \in {0, 1}
      BY <2>5 DEF EffectGprs
    <3> HIDE DEF k
    <3> QED BY <2>5, <3>1, TransientIs
  <2>6. CASE n.op \in {"BridgeMovRR", "BridgeMovRI", "BridgeExt", "BridgeAluRR"}
    <3>1. k = 0
      BY <2>6 DEF EffectGprs
    <3> HIDE DEF k
    <3> QED BY <2>1, <3>1
  <2> QED BY <2>2, <2>3, <2>4, <2>5, <2>6 DEF BridgeOps
<1> HIDE DEF k
<1>2. Scratch(L, k) = L
  BY <1>1, FewerHeld, ScratchStays
<1>3. \E op, in, a, arg, flags : lower_effect(c, L, i) = Effect(L, op, in, a, arg, flags)
  BY <1>2 DEF lower_effect, k
<1> QED BY <1>3, EffectStays, StaysSamePools

-----------------------------------------------------------------------------
(* Groups of stores *)

\* The stores of a group are of the same node, one after the other.
InGroup(c, i, j) ==
  NodeAt(c, j).op = "StoreF32" /\ ~Dead(NodeAt(c, j)) /\ NodeAt(c, j).in[1] = NodeAt(c, i).in[1]
LEMMA GroupIs ==
  ASSUME NEW c, Len(c.nodes) \in Nat, NEW i \in Ids(c),
         NodeAt(c, i).op = "StoreF32", ~Dead(NodeAt(c, i))
  PROVE  /\ i \in Int /\ GroupEnd(c, i) \in Int /\ i <= GroupEnd(c, i) /\ GroupEnd(c, i) \in Ids(c)
         /\ \A k \in i..GroupEnd(c, i) : InGroup(c, i, k)
<1> DEFINE E == {j \in i..Newest(c) : \A k \in i..j : InGroup(c, i, k)}
           b == Newest(c)
<1>1. i \in Int /\ b \in Int /\ i <= b /\ 0 <= i /\ b = Len(c.nodes) - 1
  BY DEF Ids, Newest
<1>2. i \in E
  <2>1. InGroup(c, i, i) /\ \A k \in i..i : k = i
    BY <1>1 DEF InGroup
  <2> QED BY <1>1, <2>1
<1>3. E \in SUBSET (i..b)
  OBVIOUS
<1>4. GroupEnd(c, i) = Max(E)
  BY DEF GroupEnd, InGroup
<1> HIDE DEF E
<1>5. Max(E) \in E
  <2>1. b \in Int /\ i \in Int /\ E # {} /\ E \in SUBSET (i..b)
    BY <1>1, <1>2, <1>3
  <2> HIDE DEF b
  <2> QED BY <2>1, Largest
<1>6. Max(E) \in i..b /\ \A k \in i..Max(E) : InGroup(c, i, k)
  BY <1>5 DEF E
<1>7. \A x \in i..b : x \in Int /\ i <= x /\ x \in Ids(c)
  <2>1. \A x \in i..b : x \in Int /\ i <= x /\ x <= b
    BY <1>1
  <2> HIDE DEF b
  <2> QED BY <1>1, <2>1 DEF Ids
<1> HIDE DEF b
<1> QED BY <1>1, <1>4, <1>6, <1>7

\* The whole group is stored when its first node is lowered.
LEMMA StoreF32Serves ==
  ASSUME NEW c, Len(c.nodes) \in Nat, NEW i \in Ids(c),
         NodeAt(c, i).op = "StoreF32", ~Dead(NodeAt(c, i)),
         NEW L, Fields \subseteq DOMAIN L, Holds(L.gprs, 1),
         Holds(L.fprs, IF HasStrQ(c, i) THEN 2 ELSE 1)
  PROVE  LET D == lower_StoreF32(c, L, i)
         IN  /\ Steady(L, D) /\ D.fprs = L.fprs /\ D.node = L.node
             /\ D.next = GroupEnd(c, i)
<1> DEFINE j == GroupEnd(c, i)
           v == StoreAs("StoreF32", Nearest, HeldInputs(c, L, i)[1])
           r == NextFpr(L)
           Y == alloc_free_fpr(L)
           B == IF HasStrQ(c, i) THEN free_fpr(alloc_free_fpr(Y), NextFpr(Y)) ELSE Y
           M == StoreRun(c, i, j, v, Scratch(B, 1))
           T == free_fpr(M, r)
           D == lower_StoreF32(c, L, i)
<1>1. Holds(L.fprs, 1)
  BY FewerHeld
<1>2. /\ r \in L.fprs /\ Y = [L EXCEPT !.fprs = @ \ {r}, !.file[r] = NoVal]
      /\ Holds(L.fprs \ {r}, 0) /\ Cardinality(L.fprs \ {r}) = Cardinality(L.fprs) - 1
      /\ Cardinality(L.fprs) \in Nat
  BY <1>1, TakenIs
<1>3. D = [T EXCEPT !.next = j]
  BY DEF lower_StoreF32
<1>4. i \in Int /\ j \in Int
  BY GroupIs
<1> HIDE DEF r, Y, j, v, D
<1>5. Steady(L, Y) /\ Y.fprs = L.fprs \ {r} /\ Y.node = L.node /\ Y.next = L.next
      /\ Fields \subseteq DOMAIN Y /\ Y.gprs = L.gprs
  BY <1>2 DEF Steady, Fields, PoolFields
<1>6. SamePools(Y, B)
  <2>1. CASE ~HasStrQ(c, i)
    BY <2>1 DEF SamePools, Steady
  <2>2. CASE HasStrQ(c, i)
    <3>1. Cardinality(L.fprs) >= 2
      BY <2>2 DEF Holds
    <3>2. Holds(Y.fprs, 1)
      BY <1>2, <1>5, <3>1 DEF Holds
    <3> QED BY <2>2, <1>5, <3>2, BorrowedIs
  <2> QED BY <2>1, <2>2
<1> HIDE DEF B
<1>7. Scratch(B, 1) = B
  <2>1. B.gprs = L.gprs
    BY <1>5, <1>6 DEF SamePools, Steady
  <2> QED BY <2>1, ScratchStays
<1>8. SamePools(Y, M)
  BY <1>4, <1>6, <1>7, StoreRunStays, StaysSamePools, SamePoolsThrough
<1> HIDE DEF M
<1>9. (L.fprs \ {r}) \cup {r} = L.fprs
  BY <1>2
<1>10. SamePools(L, T)
  <2>1. Steady(L, M) /\ M.fprs = L.fprs \ {r} /\ M.node = L.node /\ M.next = L.next
    BY <1>5, <1>8, SteadyThrough DEF SamePools
  <2>2. T = [M EXCEPT !.fprs = @ \cup {r}]
    BY DEF free_fpr
  <2> HIDE DEF T
  <2>3. Fields \subseteq DOMAIN M
    BY <2>1 DEF Steady
  <2>4. T.fprs = L.fprs
    BY <1>9, <2>1, <2>2, <2>3 DEF Fields, PoolFields
  <2>5. Steady(M, T) /\ T.node = M.node /\ T.next = M.next
    BY <2>2, <2>3 DEF Steady, Fields, PoolFields
  <2> QED BY <2>1, <2>4, <2>5, SteadyThrough DEF SamePools
<1> HIDE DEF T
<1>11. Steady(L, D) /\ D.fprs = L.fprs /\ D.node = L.node /\ D.next = j
  BY <1>3, <1>10 DEF SamePools, Steady, Fields, PoolFields
<1> QED BY <1>11 DEF D, j

-----------------------------------------------------------------------------
(* Comparisons and the FSTSWs that wait for them *)

\* T is L but for GPRs and what comparisons keep in them.
Fused(n) == "FcomFused" \in n.flags
Beyond(L, T) ==
  /\ DOMAIN T = DOMAIN L /\ T.run = L.run /\ T.gv = L.gv /\ T.starved = L.starved
  /\ T.rc.on = L.rc.on /\ T.fprs = L.fprs /\ T.node = L.node /\ T.next = L.next

LEMMA Full ==
  /\ Holds({3, 4, 5, 7}, 4) /\ Holds({3, 5, 7}, 3) /\ Holds({4, 5, 7}, 3)
  /\ Cardinality({3, 4, 5, 7}) = 4 /\ Cardinality({3, 5, 7}) = 3 /\ Cardinality({4, 5, 7}) = 3
<1>1. /\ IsFiniteSet({5}) /\ Cardinality({5}) = 1
  BY FS_Singleton
<1>2. {5, 7} = {5} \cup {7} /\ {3, 5, 7} = {5, 7} \cup {3} /\ {4, 5, 7} = {5, 7} \cup {4}
      /\ {3, 4, 5, 7} = {3, 5, 7} \cup {4}
  OBVIOUS
<1>3. IsFiniteSet({5, 7}) /\ Cardinality({5, 7}) = 2
  BY <1>1, <1>2, FS_AddElement
<1>4. IsFiniteSet({3, 5, 7}) /\ Cardinality({3, 5, 7}) = 3
  BY <1>2, <1>3, FS_AddElement
<1>5. IsFiniteSet({4, 5, 7}) /\ Cardinality({4, 5, 7}) = 3
  BY <1>2, <1>3, FS_AddElement
<1>6. IsFiniteSet({3, 4, 5, 7}) /\ Cardinality({3, 4, 5, 7}) = 4
  BY <1>2, <1>4, FS_AddElement
<1> QED BY <1>4, <1>5, <1>6 DEF Holds

\* A comparison that is fused keeps its result in the second GPR of four.
LEMMA FirstTwo ==
  ASSUME NEW L, "gprs" \in DOMAIN L, L.gprs = {3, 4, 5, 7}
  PROVE  NextGpr(alloc_free_gpr(L)) = 4
<1>1. Min({3, 4, 5, 7}) = 3
  <2>1. \E x \in {3, 4, 5, 7} : \A y \in {3, 4, 5, 7} : x <= y
    OBVIOUS
  <2> QED BY <2>1 DEF Min
<1>2. Min({4, 5, 7}) = 4
  <2>1. \E x \in {4, 5, 7} : \A y \in {4, 5, 7} : x <= y
    OBVIOUS
  <2> QED BY <2>1 DEF Min
<1>3. NextGpr(L) = 3
  BY <1>1 DEF NextGpr, Lowest
<1>4. alloc_free_gpr(L) = [L EXCEPT !.gprs = @ \ {3}]
  BY <1>3 DEF alloc_free_gpr
<1>5. alloc_free_gpr(L).gprs = {4, 5, 7}
  BY <1>4
<1> QED BY <1>2, <1>5 DEF NextGpr, Lowest

\* A comparison on its own gives every register back.
LEMMA ComparedPlain ==
  ASSUME NEW c, NEW L, NEW i, Fields \subseteq DOMAIN L, Holds(L.gprs, 4), ~Fused(NodeAt(c, i))
  PROVE  SamePools(L, lower_compare(c, L, i))
<1> DEFINE D == lower_compare(c, L, i)
<1>1. Scratch(L, 4) = L
  BY ScratchStays
<1>2. \E v : D = SetCc(L, v)
  BY <1>1 DEF lower_compare, Fused
<1> QED BY <1>2, GuestStays, StaysSamePools

\* One that is fused keeps one.
LEMMA ComparedPacked ==
  ASSUME NEW c, NEW L, NEW i, Fields \subseteq DOMAIN L, Holds(L.gprs, 4), Fused(NodeAt(c, i)),
         L.gprs = {3, 4, 5, 7}
  PROVE  LET D == lower_compare(c, L, i)
         IN  /\ Beyond(L, D) /\ D.gprs = {3, 5, 7}
             /\ DOMAIN D.cmp = {i} \cup DOMAIN L.cmp /\ D.cmp[i].reg = 4
<1> DEFINE D == lower_compare(c, L, i)
<1>1. Scratch(L, 4) = L
  BY ScratchStays
<1>2. NextGpr(alloc_free_gpr(L)) = 4
  BY FirstTwo DEF Fields, PoolFields
<1>3. \E v : D = [L EXCEPT !.gprs = @ \ {4}, !.cmp = Put(@, i, [reg |-> 4, v |-> v])]
  BY <1>1, <1>2 DEF lower_compare, Fused
<1>4. PICK v : D = [L EXCEPT !.gprs = @ \ {4}, !.cmp = Put(@, i, [reg |-> 4, v |-> v])]
  BY <1>3
<1> HIDE DEF D
<1>5. D.gprs = L.gprs \ {4} /\ D.cmp = Put(L.cmp, i, [reg |-> 4, v |-> v])
  BY <1>4 DEF Fields, PoolFields
<1>6. {3, 4, 5, 7} \ {4} = {3, 5, 7}
  OBVIOUS
<1>7. Beyond(L, D)
  BY <1>4 DEF Beyond, Fields, PoolFields
<1>8. DOMAIN D.cmp = {i} \cup DOMAIN L.cmp /\ D.cmp[i].reg = 4
  BY <1>5 DEF Put
<1> QED BY <1>5, <1>6, <1>7, <1>8 DEF D

\* An FSTSW on its own gives all back; a fused one gives back the register its
\* comparison kept.
LEMMA StatusServes ==
  ASSUME NEW c, NEW L, Fields \subseteq DOMAIN L, NEW i
  PROVE  LET D == lower_FStsw(c, L, i)
             f == NodeAt(c, i).in[1]
         IN  /\ ~Fused(NodeAt(c, i)) /\ Holds(L.gprs, 2) => SamePools(L, D)
             /\ /\ Fused(NodeAt(c, i)) /\ L.gprs = {3, 5, 7} /\ DOMAIN L.cmp = {f} /\ L.cmp[f].reg = 4
                => Beyond(L, D) /\ D.gprs = {3, 4, 5, 7} /\ DOMAIN D.cmp = {}
<1> DEFINE D == lower_FStsw(c, L, i)
           f == NodeAt(c, i).in[1]
           W == IF Fused(NodeAt(c, i)) THEN WritePacked(L, f) ELSE L
           n == IF NodeAt(c, i).in[3] = 0 THEN 1 ELSE 2
<1>1. \E r, v : D = SetReg(Scratch(W, n), r, v)
  BY DEF lower_FStsw, Fused
<1>2. n \in {1, 2}
  OBVIOUS
<1> HIDE DEF D, n
<1>3. CASE ~Fused(NodeAt(c, i)) /\ Holds(L.gprs, 2)
  <2>1. W = L
    BY <1>3
  <2>2. Scratch(L, n) = L
    BY <1>2, <1>3, FewerHeld, ScratchStays
  <2> HIDE DEF W
  <2> QED BY <1>1, <1>3, <2>1, <2>2, GuestStays, StaysSamePools DEF D
<1>4. CASE Fused(NodeAt(c, i)) /\ L.gprs = {3, 5, 7} /\ DOMAIN L.cmp = {f} /\ L.cmp[f].reg = 4
  <2> DEFINE K == SetCc(L, L.cmp[f].v)
  <2>1. Scratch(L, 1) = L
    BY <1>4, Full, FewerHeld, ScratchStays
  <2>2. W = [free_gpr(K, L.cmp[f].reg) EXCEPT !.cmp = Restrict(@, DOMAIN @ \ {f})]
    BY <1>4, <2>1 DEF WritePacked
  <2>3. Stays(L, K)
    BY GuestStays
  <2> HIDE DEF K, W
  <2>4. Fields \subseteq DOMAIN K /\ K.gprs = {3, 5, 7} /\ K.cmp = L.cmp
    BY <1>4, <2>3 DEF Stays
  <2>5. W = [[K EXCEPT !.gprs = @ \cup {4}] EXCEPT !.cmp = Restrict(@, DOMAIN @ \ {f})]
    BY <1>4, <2>2 DEF free_gpr
  <2>6. W.gprs = {3, 4, 5, 7} /\ DOMAIN W.cmp = {}
    <3>1. W.gprs = K.gprs \cup {4} /\ W.cmp = Restrict(K.cmp, DOMAIN K.cmp \ {f})
      BY <2>4, <2>5 DEF Fields, PoolFields
    <3>2. {3, 5, 7} \cup {4} = {3, 4, 5, 7}
      OBVIOUS
    <3>3. DOMAIN Restrict(K.cmp, DOMAIN K.cmp \ {f}) = {}
      BY <1>4, <2>4 DEF Restrict
    <3> QED BY <2>4, <3>1, <3>2, <3>3
  <2>7. Beyond(L, W)
    BY <2>3, <2>4, <2>5 DEF Stays, Beyond, Fields, PoolFields
  <2>8. Scratch(W, n) = W
    BY <1>2, <2>6, Full, FewerHeld, ScratchStays
  <2>9. Stays(W, D)
    BY <1>1, <2>8, GuestStays
  <2>10. Beyond(L, D) /\ D.gprs = {3, 4, 5, 7} /\ DOMAIN D.cmp = {}
    BY <2>6, <2>7, <2>9 DEF Stays, Beyond
  <2> QED BY <1>4, <2>10 DEF D
<1> QED BY <1>3, <1>4 DEF D

-----------------------------------------------------------------------------
(* Transcendentals *)

\* T is S but for the pools, the contents of registers and their names; it may
\* have starved.
Apart(S, T) ==
  /\ DOMAIN T = DOMAIN S /\ T.run = S.run /\ T.gv = S.gv
  /\ T.node = S.node /\ T.cmp = S.cmp /\ T.next = S.next /\ T.rc = S.rc
  /\ T.starved \in {S.starved, TRUE}

ApartAlong(c, d, x, base, K) == Apart(base, K)
BodyApart == INSTANCE X87Walk_proofs WITH Turn <- BodyTurn, Kept <- ApartAlong

LEMMA TurnApart ==
  ASSUME NEW L, Fields \subseteq DOMAIN L, NEW e \in Events
  PROVE  Apart(L, Turn(L, e))
<1>1. e[1] \in {"F", "f", "G", "g"}
  BY DEF Events
<1>2. \A r : /\ Apart(L, alloc_free_fpr(L)) /\ Apart(L, alloc_free_gpr(L))
             /\ Apart(L, free_fpr(L, r)) /\ Apart(L, free_gpr(L, r))
  BY DEF Apart, alloc_free_fpr, alloc_free_gpr, free_fpr, free_gpr, Starve
<1>3. \A K, v : Apart(L, K) => Apart(L, [K EXCEPT !.name = v])
  <2> SUFFICES ASSUME NEW K, NEW v, Apart(L, K) PROVE Apart(L, [K EXCEPT !.name = v])
    OBVIOUS
  <2>1. Fields \subseteq DOMAIN K
    BY DEF Apart
  <2> DEFINE T == [K EXCEPT !.name = v]
  <2>2. /\ DOMAIN T = DOMAIN K /\ T.run = K.run /\ T.gv = K.gv /\ T.node = K.node /\ T.cmp = K.cmp
        /\ T.next = K.next /\ T.rc = K.rc /\ T.starved = K.starved
    BY <2>1 DEF Fields, PoolFields
  <2> HIDE DEF T
  <2>3. Apart(L, T)
    BY <2>2 DEF Apart
  <2> QED BY <2>3 DEF T
<1> HIDE DEF Apart
<1>4. CASE e[1] \in {"F", "G"}
  <2>1. \E v : Turn(L, e) = [(IF e[1] = "F" THEN alloc_free_fpr(L) ELSE alloc_free_gpr(L))
                                EXCEPT !.name = v]
    BY <1>4 DEF Turn
  <2> QED BY <1>2, <1>3, <2>1
<1>5. CASE e[1] = "f"
  BY <1>2, <1>5 DEF Turn
<1>6. CASE e[1] = "g"
  BY <1>2, <1>6 DEF Turn
<1> QED BY <1>1, <1>4, <1>5, <1>6

LEMMA BodyIsApart ==
  ASSUME NEW L, Fields \subseteq DOMAIN L, NEW events \in Seq(Events)
  PROVE  Apart(L, Body(L, events))
<1>1. Len(events) \in Nat /\ \A n \in 1..Len(events) : events[n] \in Events
  OBVIOUS
<1>2. \A n \in 1..Len(events) : \A K :
        ApartAlong(0, 0, 0, L, K) => ApartAlong(0, 0, 0, L, BodyTurn(0, 0, 0, K, events[n]))
  <2> SUFFICES ASSUME NEW n \in 1..Len(events), NEW K, Apart(L, K)
               PROVE  Apart(L, Turn(K, events[n]))
    BY DEF ApartAlong, BodyTurn
  <2>1. Apart(K, Turn(K, events[n]))
    BY <1>1, TurnApart DEF Apart
  <2> HIDE DEF Apart
  <2> QED BY <2>1 DEF Apart
<1>3. ApartAlong(0, 0, 0, L, L)
  BY DEF ApartAlong, Apart
<1>4. ApartAlong(0, 0, 0, L, BodyApart!Through(0, 0, 0, L, events))
  <2> HIDE DEF ApartAlong, BodyTurn
  <2> QED BY <1>1, <1>2, <1>3, Induction, BodyApart!WalkKeeps
<1>5. BodyApart!Through(0, 0, 0, L, events) = Body(L, events)
  BY DEF BodyApart!Through, BodyApart!Walk, Walk, Body, BodyTurn
<1> QED BY <1>4, <1>5 DEF ApartAlong

\* The registers of the names in Y, and L with a copy in m of them.
Named(K, Y) == {K.name[a] : a \in Y}
Copying(L, Y, m, K) ==
  /\ DOMAIN K = DOMAIN L /\ K.run = L.run /\ K.gv = L.gv /\ K.starved = L.starved
  /\ K.gprs = L.gprs /\ K.cmp = L.cmp /\ K.rc = L.rc /\ K.next = L.next /\ K.node = L.node
  /\ Y \subseteq DOMAIN K.name /\ Named(K, Y) \subseteq L.fprs
  /\ \A a, b \in Y : K.name[a] = K.name[b] => a = b
  /\ K.fprs = L.fprs \ Named(K, Y)
  /\ m \in Nat /\ IsFiniteSet(Named(K, Y)) /\ Cardinality(Named(K, Y)) = m
  /\ IsFiniteSet(K.fprs) /\ Cardinality(K.fprs) + m = Cardinality(L.fprs)

LEMMA CopyOne ==
  ASSUME NEW L, Fields \subseteq DOMAIN L, NEW Y, NEW m, NEW K, Copying(L, Y, m, K),
         Holds(L.fprs, m + 1), NEW e, e[1] \notin Y, NEW c, NEW i
  PROVE  Copying(L, Y \cup {e[1]}, m + 1, CopyIn(c, i, K, e))
<1> DEFINE n == e[1]
           r == NextFpr(K)
           T == CopyIn(c, i, K, e)
<1>1. m \in Nat /\ Cardinality(K.fprs) \in Nat /\ Holds(K.fprs, 1)
  BY FS_CardinalityType DEF Copying, Holds
<1>2. /\ r \in K.fprs
      /\ alloc_free_fpr(K) = [K EXCEPT !.fprs = @ \ {r}, !.file[r] = NoVal]
      /\ Holds(K.fprs \ {r}, 0) /\ Cardinality(K.fprs \ {r}) = Cardinality(K.fprs) - 1
  BY <1>1, TakenIs
<1> HIDE DEF r
<1>3. T = [alloc_free_fpr(K) EXCEPT !.name = Put(@, n, r),
                                    !.file[r] = Held(K, NodeAt(c, i).in[e[2]])]
  BY DEF CopyIn, r
<1> HIDE DEF T, n
<1>4. /\ DOMAIN T = DOMAIN K /\ T.run = K.run /\ T.gv = K.gv /\ T.starved = K.starved
      /\ T.gprs = K.gprs /\ T.cmp = K.cmp /\ T.rc = K.rc /\ T.next = K.next /\ T.node = K.node
      /\ T.fprs = K.fprs \ {r} /\ T.name = Put(K.name, n, r)
  BY <1>2, <1>3 DEF Copying, Fields, PoolFields
<1>5. n \notin Y
  BY DEF n
<1>6. /\ Y \cup {n} \subseteq DOMAIN T.name /\ T.name[n] = r
      /\ \A a \in Y : T.name[a] = K.name[a]
  <2>1. Y \subseteq DOMAIN K.name
    BY DEF Copying
  <2>2. /\ DOMAIN T.name = {n} \cup DOMAIN K.name /\ T.name[n] = r
        /\ \A y \in DOMAIN K.name : y # n => T.name[y] = K.name[y]
    <3> DEFINE g == K.name
    <3>1. T.name = Put(g, n, r)
      BY <1>4
    <3>2. g = K.name
      OBVIOUS
    <3> HIDE DEF g
    <3>3. /\ DOMAIN Put(g, n, r) = {n} \cup DOMAIN g /\ Put(g, n, r)[n] = r
          /\ \A y \in DOMAIN g : y # n => Put(g, n, r)[y] = g[y]
      BY DEF Put
    <3> QED BY <3>1, <3>2, <3>3
  <2> QED BY <1>5, <2>1, <2>2
<1>7. Named(T, Y \cup {n}) = Named(K, Y) \cup {r}
  BY <1>6 DEF Named
<1>8. r \notin Named(K, Y) /\ r \in L.fprs
  BY <1>2 DEF Copying
<1>9. IsFiniteSet(Named(T, Y \cup {n})) /\ Cardinality(Named(T, Y \cup {n})) = m + 1
  <2>1. IsFiniteSet(Named(K, Y)) /\ Cardinality(Named(K, Y)) = m
    BY DEF Copying
  <2>2. IsFiniteSet(Named(K, Y) \cup {r})
            /\ Cardinality(Named(K, Y) \cup {r}) = Cardinality(Named(K, Y)) + 1
    BY <1>8, <2>1, FS_AddElement
  <2> QED BY <1>7, <2>1, <2>2
<1>10. \A a, b \in Y \cup {n} : T.name[a] = T.name[b] => a = b
  BY <1>5, <1>6, <1>8 DEF Copying, Named
<1>11. T.fprs = L.fprs \ Named(T, Y \cup {n})
  BY <1>4, <1>7 DEF Copying
<1>12. IsFiniteSet(T.fprs) /\ Cardinality(T.fprs) + (m + 1) = Cardinality(L.fprs)
  <2>1. Cardinality(K.fprs) + m = Cardinality(L.fprs) /\ Cardinality(T.fprs) = Cardinality(K.fprs) - 1
    BY <1>2, <1>4 DEF Copying
  <2>2. IsFiniteSet(T.fprs)
    BY <1>2, <1>4 DEF Holds
  <2> QED BY <1>1, <2>1, <2>2
<1>13. Copying(L, Y \cup {n}, m + 1, T)
  <2>1. /\ DOMAIN T = DOMAIN L /\ T.run = L.run /\ T.gv = L.gv /\ T.starved = L.starved
        /\ T.gprs = L.gprs /\ T.cmp = L.cmp /\ T.rc = L.rc /\ T.next = L.next /\ T.node = L.node
    BY <1>4 DEF Copying
  <2>2. Named(K, Y) \subseteq L.fprs
    BY DEF Copying
  <2>3. Named(T, Y \cup {n}) \subseteq L.fprs
    BY <1>7, <1>8, <2>2
  <2>4. m + 1 \in Nat /\ Y \cup {n} \subseteq DOMAIN T.name
    BY <1>1, <1>6
  <2> QED BY <2>1, <2>3, <2>4, <1>9, <1>10, <1>11, <1>12 DEF Copying
<1> QED BY <1>13 DEF T, n

\* The operands of a body are copied first.
CopyNames(op) == IF op \in Trigs THEN {"x"} ELSE {"x", "y"}
CopyCount(op) == IF op \in Trigs THEN 1 ELSE 2

LEMMA CopiesServe ==
  ASSUME NEW L, Fields \subseteq DOMAIN L, NEW c, NEW i, NEW op, Holds(L.fprs, CopyCount(op))
  PROVE  Copying(L, CopyNames(op), CopyCount(op), CopyAll(c, i, L, op))
<1>1. PICK f : CopyWalk!Runs(c, i, 0, L, Copies(op), f)
  <2>1. Len(Copies(op)) \in Nat
    BY DEF Copies
  <2> HIDE DEF CopyWalk!Runs
  <2> QED BY <2>1, Induction, CopyWalk!Unrolled
<1>2. CopyWalk!Through(c, i, 0, L, Copies(op)) = CopyAll(c, i, L, op)
  BY DEF CopyWalk!Through, CopyWalk!Walk, Walk, CopyTurn, CopyAll
<1>3. /\ f[0] = L
      /\ \A k \in 1..Len(Copies(op)) : f[k] = CopyIn(c, i, f[k - 1], Copies(op)[k])
      /\ CopyAll(c, i, L, op) = f[Len(Copies(op))]
  BY <1>1, <1>2 DEF CopyWalk!Runs, CopyTurn
<1>4. Copying(L, {}, 0, L)
  <2>1. Named(L, {}) = {}
    BY DEF Named
  <2>2. IsFiniteSet({}) /\ Cardinality({}) = 0
    BY FS_EmptySet
  <2>3. IsFiniteSet(L.fprs) /\ Cardinality(L.fprs) \in Nat
    BY FS_CardinalityType DEF Holds
  <2>4. \A a, b \in {} : L.name[a] = L.name[b] => a = b
    OBVIOUS
  <2>5. L.fprs = L.fprs \ {} /\ {} \subseteq DOMAIN L.name /\ {} \subseteq L.fprs
    OBVIOUS
  <2>6. Cardinality(L.fprs) + 0 = Cardinality(L.fprs) /\ 0 \in Nat
    BY <2>3
  <2>7. L.fprs = L.fprs \ Named(L, {}) /\ Named(L, {}) \subseteq L.fprs
    BY <2>1
  <2>8. IsFiniteSet(Named(L, {})) /\ Cardinality(Named(L, {})) = 0
    BY <2>1, <2>2
  <2> QED BY <2>3, <2>4, <2>5, <2>6, <2>7, <2>8, Zenon DEF Copying
<1>5. \A x : {} \cup {x} = {x} /\ 0 + 1 = 1 /\ 1 + 1 = 2
  OBVIOUS
<1>6. Holds(L.fprs, 0 + 1) /\ (op \notin Trigs => Holds(L.fprs, 1 + 1))
  <2>1. CopyCount(op) \in {1, 2} /\ (op \notin Trigs => CopyCount(op) = 2)
    BY DEF CopyCount
  <2> QED BY <2>1, <1>5, FewerHeld
<1>7. CASE op \in Trigs
  <2>1. Len(Copies(op)) = 1 /\ Copies(op)[1][1] = "x"
    BY <1>7 DEF Copies
  <2>2. Copying(L, {} \cup {Copies(op)[1][1]}, 0 + 1, CopyIn(c, i, L, Copies(op)[1]))
    BY <1>4, <1>6, CopyOne
  <2>3. CopyAll(c, i, L, op) = CopyIn(c, i, L, Copies(op)[1])
    BY <1>3, <2>1
  <2> QED BY <1>5, <1>7, <2>1, <2>2, <2>3 DEF CopyNames, CopyCount
<1>8. CASE op \notin Trigs
  <2>1. Len(Copies(op)) = 2 /\ Copies(op)[1][1] = "x" /\ Copies(op)[2][1] = "y"
    BY <1>8 DEF Copies
  <2> DEFINE K == CopyIn(c, i, L, Copies(op)[1])
  <2>2. Copying(L, {} \cup {Copies(op)[1][1]}, 0 + 1, K)
    BY <1>4, <1>6, CopyOne
  <2>3. Copying(L, {"x"}, 1, K)
    BY <1>5, <2>1, <2>2
  <2> HIDE DEF K
  <2>4. Copying(L, {"x"} \cup {Copies(op)[2][1]}, 1 + 1, CopyIn(c, i, K, Copies(op)[2]))
    BY <1>6, <1>8, <2>1, <2>3, CopyOne
  <2>5. CopyAll(c, i, L, op) = CopyIn(c, i, K, Copies(op)[2])
    <3>1. f[1] = K
      BY <1>3, <2>1 DEF K
    <3> QED BY <1>3, <2>1, <3>1
  <2>6. {"x"} \cup {"y"} = {"x", "y"}
    OBVIOUS
  <2> QED BY <1>5, <1>8, <2>1, <2>4, <2>5, <2>6 DEF CopyNames, CopyCount
<1> QED BY <1>7, <1>8

\* A body leaves its result in one of the registers it was given.
Result1(F, G, Y, op, L) ==
  LET D == Body(L, emit_core(op)) IN
  /\ Apart(L, D) /\ ~D.starved /\ D.name[Result(op)] \in F
  /\ D.fprs = F \ {D.name[Result(op)]} /\ D.gprs = G

\* The GPRs a body takes.
Aside(op) == IF op \in Trigs THEN 2 ELSE IF op = "FScale" THEN 4 ELSE 3

\* Every body finds its registers, if there are as many as the count says.
LEMMA BodyServes ==
  ASSUME NEW op \in Cores, NEW F, NEW G, NEW L, Holds(F, Spike(op)), Holds(G, Aside(op)),
         Owns(F, G, CopyNames(op), CopyCount(op), {}, 0, L), Fields \subseteq DOMAIN L
  PROVE  Result1(F, G, CopyNames(op), op, L)
<1> DEFINE D == Body(L, emit_core(op))
<1>1. Owns(F, G, {Result(op)}, 1, {}, 0, D)
  <2>1. op \in {"FSin", "FCos", "FPtan", "FPatan", "FYl2x", "FScale"}
    BY DEF Cores, Trigs
  <2>2. CASE op \in {"FSin", "FCos"}
    <3>1. /\ CopyNames(op) = {"x"} /\ CopyCount(op) = 1 /\ Spike(op) = 7 /\ Aside(op) = 2
          /\ emit_core(op) = emit_inline_trig_body /\ Result(op) = "y"
      BY <2>2 DEF CopyNames, CopyCount, Spike, Aside, emit_core, Result, Trigs
    <3> QED BY <3>1, TrigOwns
  <2>3. CASE op = "FPtan"
    <3>1. /\ CopyNames(op) = {"x"} /\ CopyCount(op) = 1 /\ Spike(op) = 8 /\ Aside(op) = 2
          /\ emit_core(op) = emit_inline_fptan_core /\ Result(op) = "num"
      BY <2>3 DEF CopyNames, CopyCount, Spike, Aside, emit_core, Result, Trigs
    <3> QED BY <3>1, TanOwns
  <2>4. CASE op = "FPatan"
    <3>1. /\ CopyNames(op) = {"x", "y"} /\ CopyCount(op) = 2 /\ Spike(op) = 6 /\ Aside(op) = 3
          /\ emit_core(op) = emit_inline_fpatan_core /\ Result(op) = "z"
      BY <2>4 DEF CopyNames, CopyCount, Spike, Aside, emit_core, Result, Trigs
    <3> QED BY <3>1, AtanOwns
  <2>5. CASE op = "FYl2x"
    <3>1. /\ CopyNames(op) = {"x", "y"} /\ CopyCount(op) = 2 /\ Spike(op) = 8 /\ Aside(op) = 3
          /\ emit_core(op) = emit_inline_fyl2x_core /\ Result(op) = "x"
      BY <2>5 DEF CopyNames, CopyCount, Spike, Aside, emit_core, Result, Trigs
    <3> QED BY <3>1, LogOwns
  <2>6. CASE op = "FScale"
    <3>1. /\ CopyNames(op) = {"x", "y"} /\ CopyCount(op) = 2 /\ Spike(op) = 4 /\ Aside(op) = 4
          /\ emit_core(op) = emit_inline_fscale_core /\ Result(op) = "norm"
      BY <2>6 DEF CopyNames, CopyCount, Spike, Aside, emit_core, Result, Trigs
    <3> QED BY <3>1, ScaleOwns
  <2> HIDE DEF D
  <2> QED BY <2>1, <2>2, <2>3, <2>4, <2>5, <2>6 DEF D
<1>2. emit_core(op) \in Seq(Events)
  BY BodyEvents
<1>3. Apart(L, D)
  BY <1>2, BodyIsApart
<1> DEFINE r == Result(op)
<1> HIDE DEF r
<1>4. Owns(F, G, {r}, 1, {}, 0, D)
  BY <1>1 DEF r
<1> HIDE DEF D
<1>5. ~D.starved /\ D.name[r] \in F
  BY <1>4 DEF Owns
<1>6. D.fprs = F \ {D.name[r]} /\ D.gprs = G
  <2>1. {D.name[a] : a \in {r}} = {D.name[r]} /\ {D.name[b] : b \in {}} = {}
    OBVIOUS
  <2>2. D.fprs = F \ {D.name[a] : a \in {r}} /\ D.gprs = G \ {D.name[b] : b \in {}}
    BY <1>4 DEF Owns
  <2> QED BY <2>1, <2>2
<1> QED BY <1>3, <1>5, <1>6 DEF Result1, D, r

\* What the copies and what is free after them come to.
LEMMA CopiedOwns ==
  ASSUME NEW F, Holds(F, 0), NEW c, NEW L, Fields \subseteq DOMAIN L, Placed(F, L), ~L.starved, NEW i,
         NEW op, Holds(L.fprs, CopyCount(op)), Holds(L.gprs, 0),
         NEW H, IsFiniteSet(H), HeldBy(L) \ EndedAt(c, i) \subseteq H
  PROVE  LET In == free_dead_inputs(c, CopyAll(c, i, L, op), i)
             N  == Named(In, CopyNames(op))
             FX == In.fprs \cup N
         IN  /\ DOMAIN In = DOMAIN L /\ In.run = L.run /\ In.gv = L.gv /\ In.starved = L.starved
             /\ In.gprs = L.gprs /\ In.cmp = L.cmp /\ In.rc = L.rc /\ In.next = L.next
             /\ DOMAIN In.node = DOMAIN L.node /\ HeldBy(In) = HeldBy(L) \ EndedAt(c, i)
             /\ FX = F \ Places(In) /\ Places(In) \subseteq F
             /\ \A m, n \in HeldBy(In) : In.node[m] = In.node[n] => m = n
             /\ Holds(FX, 0) /\ Cardinality(FX) >= Cardinality(F) - Cardinality(H)
             /\ Owns(FX, In.gprs, CopyNames(op), CopyCount(op), {}, 0, In)
<1> DEFINE C  == CopyAll(c, i, L, op)
           In == free_dead_inputs(c, C, i)
           Y  == CopyNames(op)
           m  == CopyCount(op)
           N  == Named(C, Y)
<1>1. Copying(L, Y, m, C)
  BY CopiesServe
<1> HIDE DEF C, Y, m
<1>2. Placed(F \ N, C) /\ HeldBy(C) = HeldBy(L) /\ N \subseteq F /\ C.fprs = L.fprs \ N
  <2>1. C.node = L.node /\ C.fprs = L.fprs \ N /\ N \subseteq L.fprs
    BY <1>1 DEF Copying
  <2>2. Places(C) = Places(L) /\ HeldBy(C) = HeldBy(L)
    BY <2>1 DEF Places, HeldBy
  <2>3. Places(L) \subseteq F /\ L.fprs = F \ Places(L)
    BY DEF Placed
  <2>4. \A j, n \in HeldBy(C) : C.node[j] = C.node[n] => j = n
    BY <2>1, <2>2 DEF Placed
  <2> HIDE DEF N
  <2> QED BY <2>1, <2>2, <2>3, <2>4 DEF Placed
<1>3. DOMAIN C = DOMAIN L /\ Fields \subseteq DOMAIN C
  BY <1>1 DEF Copying
<1>4. Frees(F \ N, C, In, EndedAt(c, i))
  <2> HIDE DEF N
  <2> QED BY <1>2, <1>3, FreeAll
<1> HIDE DEF In
<1>5. /\ DOMAIN In = DOMAIN L /\ In.run = L.run /\ In.gv = L.gv /\ In.starved = L.starved
      /\ In.gprs = L.gprs /\ In.cmp = L.cmp /\ In.rc = L.rc /\ In.next = L.next
      /\ DOMAIN In.node = DOMAIN L.node /\ HeldBy(In) = HeldBy(L) \ EndedAt(c, i)
      /\ In.name = C.name
  <2>1. C.node = L.node
    BY <1>1 DEF Copying
  <2> QED BY <1>1, <1>2, <1>4, <2>1 DEF Copying, Frees, Steady
<1>6. Named(In, Y) = N
  BY <1>5 DEF Named
<1> DEFINE FX == In.fprs \cup N
<1> HIDE DEF N
<1>7. /\ Places(In) \subseteq F \ N /\ In.fprs = (F \ N) \ Places(In)
      /\ \A j, n \in HeldBy(In) : In.node[j] = In.node[n] => j = n
  BY <1>4 DEF Frees, Placed
<1>8. FX = F \ Places(In) /\ In.fprs = FX \ N /\ In.fprs \cap N = {}
  BY <1>2, <1>7
<1>9. IsFiniteSet(N) /\ Cardinality(N) = m /\ m \in Nat
  BY <1>1 DEF Copying, N
<1>10. /\ Holds(F \ N, 0) /\ Cardinality(F \ N) = Cardinality(F) - m
       /\ Cardinality(F) \in Nat
  <2>1. IsFiniteSet(F) /\ Cardinality(F) \in Nat /\ IsFiniteSet(F \ N)
    BY FS_CardinalityType, FS_Difference DEF Holds
  <2>2. F \cap N = N
    BY <1>2
  <2>3. Cardinality(F \ N) = Cardinality(F) - Cardinality(F \cap N)
    BY <2>1, FS_Difference
  <2>4. Cardinality(F \ N) \in Nat
    BY <2>1, FS_CardinalityType
  <2>5. F \ N \subseteq Nat
    BY DEF Holds
  <2> QED BY <1>9, <2>1, <2>2, <2>3, <2>4, <2>5 DEF Holds
<1>11. /\ Holds(In.fprs, 0) /\ Cardinality(In.fprs) >= Cardinality(F \ N) - Cardinality(H)
       /\ Cardinality(H) \in Nat
  <2>1. Placed(F \ N, In) /\ HeldBy(In) \subseteq H
    BY <1>4, <1>5 DEF Frees
  <2> QED BY <1>10, <2>1, PlacesCounted
<1>12. IsFiniteSet(FX) /\ Cardinality(FX) = Cardinality(In.fprs) + m /\ Cardinality(In.fprs) \in Nat
  <2>1. IsFiniteSet(In.fprs) /\ Cardinality(In.fprs) \in Nat
    BY <1>11, FS_CardinalityType DEF Holds
  <2>2. IsFiniteSet(FX)
            /\ Cardinality(FX) = Cardinality(In.fprs) + Cardinality(N) - Cardinality(In.fprs \cap N)
    BY <1>9, <2>1, FS_Union
  <2>3. Cardinality(In.fprs \cap N) = 0
    BY <1>8, FS_EmptySet
  <2> HIDE DEF FX
  <2> QED BY <1>9, <2>1, <2>2, <2>3
<1>13. Holds(FX, 0)
  <2>1. FX \subseteq Nat
    BY <1>8 DEF Holds
  <2> HIDE DEF FX
  <2> QED BY <1>9, <1>12, <2>1 DEF Holds
<1>14. Cardinality(FX) >= Cardinality(F) - Cardinality(H)
  <2> HIDE DEF FX
  <2> QED BY <1>9, <1>10, <1>11, <1>12
<1>15. Owns(FX, In.gprs, Y, m, {}, 0, In)
  <2> HIDE DEF FX
  <2>1. PoolFields \subseteq DOMAIN In /\ ~In.starved
    BY <1>5 DEF Fields
  <2>2. Y \subseteq DOMAIN In.name /\ \A a, b \in Y : In.name[a] = In.name[b] => a = b
    BY <1>1, <1>5 DEF Copying
  <2>3. {In.name[a] : a \in Y} = N
    BY <1>6 DEF Named
  <2>4. \A a \in Y : In.name[a] \in FX
    <3>1. N \subseteq FX
      BY DEF FX
    <3> QED BY <2>3, <3>1
  <2>5. In.fprs = FX \ {In.name[a] : a \in Y}
    BY <1>8, <2>3
  <2>6. In.gprs = In.gprs \ {In.name[b] : b \in {}}
    OBVIOUS
  <2>7. Cardinality(In.gprs) + 0 = Cardinality(In.gprs)
    BY <1>5, FS_CardinalityType DEF Holds
  <2>8. Cardinality(In.fprs) + m = Cardinality(FX)
    BY <1>12
  <2> QED BY <1>9, <2>1, <2>2, <2>4, <2>5, <2>6, <2>7, <2>8 DEF Owns
<1> QED BY <1>5, <1>6, <1>7, <1>8, <1>13, <1>14, <1>15 DEF C, Y, m, In

\* A transcendental: its operands are copied, registers of inputs that end are
\* given back, its body runs, and its result stays in a register that was free.
LEMMA CoreServes ==
  ASSUME NEW F, Holds(F, 0), NEW c, NEW L, Fields \subseteq DOMAIN L, Placed(F, L), ~L.starved,
         NEW i \in DOMAIN L.node, i \notin HeldBy(L), NodeAt(c, i).op \in Cores,
         Holds(L.fprs, CopyCount(NodeAt(c, i).op)),
         Holds(L.gprs, Transient(NodeAt(c, i), L.rc.on)),
         NEW H, IsFiniteSet(H), HeldBy(L) \ EndedAt(c, i) \subseteq H,
         Cardinality(F) - Cardinality(H) >= Spike(NodeAt(c, i).op)
  PROVE  Serves(F, L, lower_node(c, L, i), {i}) /\ lower_node(c, L, i).next = L.next
<1> DEFINE n     == NodeAt(c, i)
           op    == n.op
           In    == free_dead_inputs(c, CopyAll(c, i, L, op), i)
           const == NextGpr(In)
           K     == IF op = "FScale" THEN In ELSE alloc_free_gpr(In)
           B     == Body(K, emit_core(op))
           Done  == IF op = "FScale" THEN B ELSE free_gpr(B, const)
           Clean == IF op \in Trigs THEN SetCc(Scratch(Done, 1), Cleared) ELSE Done
           D     == lower_node(c, L, i)
           N     == Named(In, CopyNames(op))
           FX    == In.fprs \cup N
           G     == IF op = "FScale" THEN In.gprs ELSE In.gprs \ {const}
<1>1. Transient(n, L.rc.on) \in Nat /\ Transient(n, L.rc.on) = IF op \in Trigs THEN 3 ELSE 4
  BY TransientIs DEF Cores
<1>2. Holds(L.gprs, 0) /\ Holds(L.gprs, 1) /\ Holds(L.gprs, Transient(n, L.rc.on))
  BY <1>1, FewerHeld
<1>3. D = Into(Clean, i, Clean.name[Result(op)], CoreValue(op, In))
  <2>1. D = lower_core(c, L, i)
    BY NodeIs
  <2> QED BY <2>1 DEF lower_core
<1>4. /\ DOMAIN In = DOMAIN L /\ In.run = L.run /\ In.gv = L.gv /\ In.starved = L.starved
      /\ In.gprs = L.gprs /\ In.cmp = L.cmp /\ In.rc = L.rc /\ In.next = L.next
      /\ DOMAIN In.node = DOMAIN L.node /\ HeldBy(In) = HeldBy(L) \ EndedAt(c, i)
      /\ FX = F \ Places(In) /\ Places(In) \subseteq F
      /\ \A j, k \in HeldBy(In) : In.node[j] = In.node[k] => j = k
      /\ Holds(FX, 0) /\ Cardinality(FX) >= Cardinality(F) - Cardinality(H)
      /\ Owns(FX, In.gprs, CopyNames(op), CopyCount(op), {}, 0, In)
  BY <1>2, CopiedOwns
<1> HIDE DEF In, FX, N
<1>5. op \in Cores
  OBVIOUS
<1> HIDE DEF op
<1>6. Holds(FX, Spike(op))
  <2>1. Spike(op) \in Nat
    BY DEF Spike
  <2>2. Cardinality(F) \in Nat /\ Cardinality(H) \in Nat /\ Cardinality(FX) \in Nat
    BY <1>4, FS_CardinalityType DEF Holds
  <2> QED BY <1>4, <2>1, <2>2 DEF Holds, op
<1>7. /\ Holds(G, Aside(op)) /\ Owns(FX, G, CopyNames(op), CopyCount(op), {}, 0, K) /\ Apart(In, K)
      /\ op # "FScale" => const \in In.gprs
  <2>1. CASE op = "FScale"
    <3>1. Aside(op) = 4 /\ Transient(n, L.rc.on) = 4
      BY <1>1, <2>1 DEF Aside, Trigs
    <3>2. K = In /\ G = In.gprs
      BY <2>1
    <3>3. Apart(In, In)
      BY DEF Apart
    <3> HIDE DEF K, G
    <3> QED BY <1>2, <1>4, <2>1, <3>1, <3>2, <3>3
  <2>2. CASE op # "FScale"
    <3>1. /\ IsFiniteSet(In.gprs) /\ In.gprs \subseteq Nat /\ Cardinality(In.gprs) > 0
          /\ Cardinality(In.gprs) >= Transient(n, L.rc.on)
      BY <1>1, <1>2, <1>4, FS_CardinalityType DEF Holds
    <3>2. /\ const \in In.gprs /\ IsFiniteSet(In.gprs \ {const}) /\ In.gprs # {}
          /\ Cardinality(In.gprs \ {const}) = Cardinality(In.gprs) - 1 /\ Cardinality(In.gprs) \in Nat
      BY <3>1, LessOne DEF NextGpr, Lowest
    <3>3. K = [In EXCEPT !.gprs = @ \ {const}]
      BY <2>2, <3>2 DEF alloc_free_gpr
    <3>4. G = In.gprs \ {const}
      BY <2>2
    <3> HIDE DEF const, K, G
    <3>5. Aside(op) \in Nat /\ Aside(op) + 1 = Transient(n, L.rc.on)
      BY <1>1, <2>2 DEF Aside
    <3>6. Holds(G, Aside(op))
      BY <3>1, <3>2, <3>4, <3>5 DEF Holds
    <3>7. Apart(In, K)
      BY <3>3 DEF Apart
    <3>8. /\ K.fprs = In.fprs /\ K.starved = In.starved /\ K.name = In.name /\ K.gprs = G
          /\ DOMAIN K = DOMAIN In
      BY <1>4, <3>3, <3>4 DEF Fields, PoolFields
    <3>9. Owns(FX, G, CopyNames(op), CopyCount(op), {}, 0, K)
      <4>1. G = G \ {K.name[b] : b \in {}}
        OBVIOUS
      <4>2. Cardinality(K.gprs) + 0 = Cardinality(G)
        BY <3>2, <3>4, <3>8
      <4>3. /\ PoolFields \subseteq DOMAIN K /\ ~K.starved
            /\ CopyNames(op) \cup {} \subseteq DOMAIN K.name
            /\ \A a \in CopyNames(op) : K.name[a] \in FX
            /\ \A a, b \in CopyNames(op) : K.name[a] = K.name[b] => a = b
            /\ K.fprs = FX \ {K.name[a] : a \in CopyNames(op)}
            /\ CopyCount(op) \in Nat /\ 0 \in Nat
            /\ Cardinality(K.fprs) + CopyCount(op) = Cardinality(FX)
        BY <1>4, <3>8 DEF Owns
      <4>4. \A b \in {} : K.name[b] \in G
        OBVIOUS
      <4>5. \A a, b \in {} : K.name[a] = K.name[b] => a = b
        OBVIOUS
      <4> QED BY <3>8, <4>1, <4>2, <4>3, <4>4, <4>5 DEF Owns
    <3> QED BY <3>2, <3>6, <3>7, <3>9
  <2> QED BY <2>1, <2>2
<1> HIDE DEF G, K
<1>8. Result1(FX, G, CopyNames(op), op, K)
  <2>1. Fields \subseteq DOMAIN K
    BY <1>4, <1>7 DEF Apart
  <2> QED BY <1>5, <1>6, <1>7, <2>1, BodyServes
<1> DEFINE res == Result(op)
<1> HIDE DEF res
<1>9. /\ Apart(In, B) /\ ~B.starved /\ B.name[res] \in FX
      /\ B.fprs = FX \ {B.name[res]} /\ B.gprs = G
  BY <1>7, <1>8 DEF Result1, Apart, res
<1> HIDE DEF B
<1>10. /\ Apart(In, Done) /\ ~Done.starved /\ Done.name = B.name /\ Done.fprs = B.fprs
       /\ Done.gprs = In.gprs
  <2>1. CASE op = "FScale"
    BY <1>9, <2>1 DEF G
  <2>2. CASE op # "FScale"
    <3>1. Done = [B EXCEPT !.gprs = @ \cup {const}]
      BY <2>2 DEF free_gpr
    <3>2. (In.gprs \ {const}) \cup {const} = In.gprs
      BY <1>7, <2>2
    <3>3. B.gprs = In.gprs \ {const}
      BY <1>9, <2>2 DEF G
    <3> HIDE DEF Done, const
    <3>4. Fields \subseteq DOMAIN B
      BY <1>4, <1>9 DEF Apart
    <3>5. /\ DOMAIN Done = DOMAIN B /\ Done.run = B.run /\ Done.gv = B.gv /\ Done.starved = B.starved
          /\ Done.name = B.name /\ Done.node = B.node /\ Done.cmp = B.cmp /\ Done.rc = B.rc
          /\ Done.next = B.next /\ Done.fprs = B.fprs /\ Done.gprs = B.gprs \cup {const}
      BY <3>1, <3>4 DEF Fields, PoolFields
    <3> QED BY <1>9, <3>2, <3>3, <3>5 DEF Apart
  <2> QED BY <2>1, <2>2
<1> HIDE DEF Done
<1>11. Stays(Done, Clean)
  <2>1. Holds(Done.gprs, 1)
    BY <1>2, <1>4, <1>10
  <2>2. Scratch(Done, 1) = Done
    BY <2>1, ScratchStays
  <2> QED BY <2>2, GuestStays, StaysSame
<1> HIDE DEF Clean
<1> DEFINE r == B.name[res]
           v == CoreValue(op, In)
<1>12. Clean.name[res] = r
  BY <1>10, <1>11 DEF Stays
<1>13. D = [Clean EXCEPT !.node[i] = r, !.file[r] = v]
  BY <1>3, <1>12 DEF Into, res
<1> HIDE DEF D, v
<1>14. /\ Fields \subseteq DOMAIN Clean /\ DOMAIN Clean = DOMAIN L /\ Clean.run = L.run /\ Clean.gv = L.gv
       /\ Clean.starved = L.starved /\ Clean.gprs = L.gprs /\ Clean.cmp = L.cmp /\ Clean.rc = L.rc
       /\ Clean.next = L.next /\ Clean.node = In.node /\ Clean.fprs = FX \ {r}
  <2>1. ~Clean.starved /\ ~L.starved /\ Clean.starved = Done.starved /\ Clean.starved = L.starved
    BY <1>4, <1>9, <1>10, <1>11 DEF Stays, Apart
  <2> QED BY <1>4, <1>9, <1>10, <1>11, <2>1 DEF Stays, Apart
<1>15. /\ DOMAIN D = DOMAIN L /\ D.run = L.run /\ D.gv = L.gv
       /\ D.starved = L.starved /\ D.gprs = L.gprs /\ D.cmp = L.cmp /\ D.rc = L.rc
       /\ D.next = L.next /\ D.node = [In.node EXCEPT ![i] = r] /\ D.fprs = FX \ {r}
  BY <1>13, <1>14 DEF Fields, PoolFields
<1> DEFINE X == [In EXCEPT !.fprs = FX]
<1>16. Placed(F, X) /\ HeldBy(X) = HeldBy(In) /\ X.node = In.node /\ X.fprs = FX /\ "node" \in DOMAIN X
  <2>1. X.node = In.node /\ X.fprs = FX /\ DOMAIN X = DOMAIN In
    BY <1>4 DEF Fields, PoolFields
  <2> HIDE DEF X
  <2>2. Places(X) = Places(In) /\ HeldBy(X) = HeldBy(In)
    BY <2>1 DEF Places, HeldBy
  <2> QED BY <1>4, <2>1, <2>2 DEF Placed, Fields, PoolFields
<1> HIDE DEF X
<1>17. r \in FX /\ r # NoReg
  BY <1>4, <1>9 DEF NoReg, None, Holds
<1> HIDE DEF r
<1>18. /\ Placed(F, D) /\ HeldBy(D) = HeldBy(In) \cup {i} /\ DOMAIN D.node = DOMAIN In.node
  <2>1. i \in DOMAIN X.node /\ i \notin HeldBy(X) /\ r \in X.fprs
    BY <1>4, <1>16, <1>17
  <2>2. D.node = [X.node EXCEPT ![i] = r] /\ D.fprs = X.fprs \ {r}
    BY <1>15, <1>16
  <2> QED BY <1>16, <1>17, <2>1, <2>2, IntoPlaces
<1>19. Steady(L, D)
  BY <1>4, <1>15, <1>18 DEF Steady
<1> QED BY <1>4, <1>15, <1>18, <1>19 DEF Serves, D

-----------------------------------------------------------------------------
(* Reductions *)

LEMMA TakenAgain ==
  ASSUME NEW L, Fields \subseteq DOMAIN L, NEW m \in Nat, Holds(L.fprs, m + 1)
  PROVE  LET Y == alloc_free_fpr(L)
         IN  /\ Steady(L, Y) /\ Y.node = L.node /\ Y.next = L.next
             /\ NextFpr(L) \in L.fprs /\ Y.fprs \subseteq L.fprs /\ Holds(Y.fprs, m)
<1>1. Holds(L.fprs, 1)
  BY FewerHeld
<1> DEFINE Y == alloc_free_fpr(L)
           r == NextFpr(L)
<1>2. /\ r \in L.fprs /\ Y = [L EXCEPT !.fprs = @ \ {r}, !.file[r] = NoVal]
      /\ Holds(L.fprs \ {r}, 0) /\ Cardinality(L.fprs \ {r}) = Cardinality(L.fprs) - 1
      /\ Cardinality(L.fprs) \in Nat
  BY <1>1, TakenIs
<1> HIDE DEF Y, r
<1>3. Y.fprs = L.fprs \ {r} /\ Steady(L, Y) /\ Y.node = L.node /\ Y.next = L.next
  BY <1>2 DEF Steady, Fields, PoolFields
<1>4. Holds(Y.fprs, m)
  BY <1>2, <1>3 DEF Holds
<1> QED BY <1>2, <1>3, <1>4 DEF Y, r

\* A reduction keeps the last of its registers for its last product.
LEMMA ReduceServes ==
  ASSUME NEW F, NEW c, NEW L, Fields \subseteq DOMAIN L, Placed(F, L), Holds(F, 0), Holds(L.fprs, 3),
         Holds(L.gprs, 1), NEW i, Last(MemberChain(c, i)) \in DOMAIN L.node,
         Last(MemberChain(c, i)) \notin HeldBy(L)
  PROVE  LET D == lower_fma_reduce(c, L, i)
         IN  Serves(F, L, D, {Last(MemberChain(c, i))}) /\ D.next = L.next
<1> DEFINE t == Last(MemberChain(c, i))
           D == lower_fma_reduce(c, L, i)
           Y == alloc_free_fpr(L)
           B == alloc_free_fpr(Y)
           C == alloc_free_fpr(B)
           r == NextFpr(Y)
           E == [C EXCEPT !.fprs = L.fprs \ {r}]
<1>1. Scratch(L, 1) = L
  BY ScratchStays
<1>2. \E v : D = Into(E, t, r, v)
  BY <1>1, Zenon DEF lower_fma_reduce
<1> HIDE DEF t
<1>3. /\ Steady(L, Y) /\ Y.node = L.node /\ Y.next = L.next /\ Y.fprs \subseteq L.fprs /\ Holds(Y.fprs, 2)
  BY TakenAgain, 2 + 1 = 3
<1> HIDE DEF Y
<1>4. Fields \subseteq DOMAIN Y
  BY <1>3 DEF Steady
<1>5. /\ Steady(Y, B) /\ B.node = Y.node /\ B.next = Y.next /\ r \in Y.fprs /\ Holds(B.fprs, 1)
  BY <1>3, <1>4, TakenAgain, 1 + 1 = 2
<1> HIDE DEF B, r
<1>6. Fields \subseteq DOMAIN B
  BY <1>4, <1>5 DEF Steady
<1>7. /\ Steady(B, C) /\ C.node = B.node /\ C.next = B.next
  BY <1>5, <1>6, TakenAgain, 0 + 1 = 1
<1> HIDE DEF C, D
<1>8. Steady(L, C) /\ C.node = L.node /\ C.next = L.next /\ r \in L.fprs
  BY <1>3, <1>5, <1>7, SteadyThrough
<1>9. Fields \subseteq DOMAIN C
  BY <1>8 DEF Steady
<1>10. Steady(C, E) /\ E.node = C.node /\ E.next = C.next /\ E.fprs = L.fprs \ {r}
  BY <1>9 DEF Steady, Fields, PoolFields
<1> HIDE DEF E
<1>11. Fields \subseteq DOMAIN E
  BY <1>9, <1>10 DEF Steady
<1>12. /\ Steady(E, D) /\ D.node = [E.node EXCEPT ![t] = r] /\ D.next = E.next /\ D.fprs = E.fprs
  BY <1>2, <1>11 DEF Into, Steady, Fields, PoolFields
<1>13. Steady(L, D) /\ D.next = L.next
  BY <1>8, <1>10, <1>12, SteadyThrough
<1>14. r # NoReg
  <2>1. L.fprs \subseteq Nat
    BY DEF Holds
  <2> QED BY <1>8, <2>1 DEF NoReg, None
<1>15. Placed(F, D) /\ HeldBy(D) = HeldBy(L) \cup {t}
  <2>1. D.node = [L.node EXCEPT ![t] = r] /\ D.fprs = L.fprs \ {r}
    BY <1>8, <1>10, <1>12
  <2>2. "node" \in DOMAIN L /\ t \in DOMAIN L.node /\ t \notin HeldBy(L)
    BY DEF Fields, PoolFields, t
  <2> QED BY <1>8, <1>14, <2>1, <2>2, IntoPlaces
<1> QED BY <1>13, <1>15 DEF Serves, D, t

-----------------------------------------------------------------------------
(* What the passes promise of a graph *)

\* A node comes after its inputs, but for the register and the TOP of an
\* FSTSW; what has no inputs has none; what acts on the guest is never dead.
Formed(n, i) ==
  /\ \A k \in 1..3 : n.in[k] \in Int
  /\ n.in[1] < i /\ (n.op # "FStsw" => n.in[2] < i /\ n.in[3] < i)
  /\ n.op \in Loads \cup Consts => \A k \in 1..3 : n.in[k] = None
  /\ n.op \in Stores => n.in[2] = None /\ n.in[3] = None
  /\ n.op = "FScale" => n.in[3] = None
  /\ n.op \in ValueOps \cup EffectOps
  /\ Dead(n) => n.op \notin EffectOps
Wellformed(c) == Len(c.nodes) \in Nat /\ \A i \in Ids(c) : Formed(NodeAt(c, i), i)

Headed(n)  == "Head" \in n.flags

\* A product within a reduction.
Link(c, i) == i \in Ids(c) /\ NodeAt(c, i).op = "FMAdd" /\ Member(NodeAt(c, i))
\* A reduction: its first product adds to what is none of its own, and the
\* loads it absorbs are no one else's.
Chained(c, i) ==
  LET n == NodeAt(c, i) IN
  /\ Headed(n) => Link(c, i) /\ ~Link(c, n.in[3])
  /\ Member(n) /\ ~Headed(n) =>
       \/ n.op \in Loads
       \/ /\ Link(c, i) /\ Link(c, n.in[3])
          /\ \A k \in 1..2 : /\ n.in[k] \in Ids(c) /\ Member(NodeAt(c, n.in[k]))
                             /\ NodeAt(c, n.in[k]).op \in Loads
Reduced(c) == \A i \in Ids(c) : Chained(c, i)

-----------------------------------------------------------------------------
(* The walk over the nodes, number by number *)

\* The walks go from the first node to the last.
LEMMA AscendingRuns ==
  ASSUME NEW c, Len(c.nodes) \in Nat
  PROVE  /\ Len(Ascending(c)) = Len(c.nodes) /\ \A i \in Ids(c) : i + 1 \in 1..Len(c.nodes)
         /\ \A i \in Ids(c) : Ascending(c)[i + 1] = i /\ (i + 1) - 1 = i
<1>1. Len(Ascending(c)) = Len(c.nodes)
  <2>1. DOMAIN Ascending(c) = 1..Len(c.nodes)
    BY DEF Ascending
  <2> QED BY <2>1, Long
<1>2. \A i \in Ids(c) : i \in Int /\ i + 1 \in 1..Len(c.nodes) /\ (i + 1) - 1 = i
  BY DEF Ids
<1>3. \A i \in Ids(c) : Ascending(c)[i + 1] = i
  BY <1>2 DEF Ascending
<1> QED BY <1>1, <1>2, <1>3

\* The last product of a reduction, found by a walk over the nodes.
TailStep(c, head, t, j) ==
  IF j > head /\ j \in Alive(c) /\ NodeAt(c, j).op = "FMAdd" /\ Member(NodeAt(c, j))
      /\ NodeAt(c, j).in[3] = t
  THEN j ELSE t
TailTurn(c, head, x, t, j) == TailStep(c, head, t, j)
TailWalk == INSTANCE X87Walk_proofs WITH Turn <- TailTurn, Kept <- SeqAlong
TailRuns(c, head, f) ==
  /\ f[0] = head /\ \A j \in Ids(c) : f[j + 1] = TailStep(c, head, f[j], j)
  /\ ChainTail(c, head) = f[Len(c.nodes)]
LEMMA TailUnrolls ==
  ASSUME NEW c, Len(c.nodes) \in Nat, NEW head
  PROVE  \E f : TailRuns(c, head, f)
<1> DEFINE q == Ascending(c)
<1>1. Len(q) = Len(c.nodes) /\ \A j \in Ids(c) : j + 1 \in 1..Len(q) /\ q[j + 1] = j /\ (j + 1) - 1 = j
  BY AscendingRuns
<1>2. TailWalk!Through(c, head, 0, head, q) = ChainTail(c, head)
  BY DEF TailWalk!Through, TailWalk!Walk, Walk, TailTurn, TailStep, ChainTail
<1> HIDE DEF q
<1>3. PICK f : TailWalk!Runs(c, head, 0, head, q, f)
  <2>1. Len(q) \in Nat
    BY <1>1
  <2> HIDE DEF TailWalk!Runs
  <2> QED BY <2>1, Induction, TailWalk!Unrolled
<1>4. \A k \in 1..Len(q) : f[k] = TailStep(c, head, f[k - 1], q[k])
  BY <1>3 DEF TailWalk!Runs, TailTurn
<1>5. \A j \in Ids(c) : f[j + 1] = TailStep(c, head, f[j], j)
  BY <1>1, <1>4
<1>6. f[0] = head /\ ChainTail(c, head) = f[Len(c.nodes)]
  BY <1>1, <1>2, <1>3 DEF TailWalk!Runs
<1> QED BY <1>5, <1>6 DEF TailRuns

\* The products of a reduction that starts at head, as far as node k.
TailAt(c, head, t, k) ==
  /\ Link(c, t) /\ t >= head /\ t \in Alive(c)
  /\ t = head \/ (t < k /\ ~Headed(NodeAt(c, t)))
  /\ \A j \in Ids(c) : j < k /\ j \in Alive(c) /\ Link(c, j) => NodeAt(c, j).in[3] # t

LEMMA TailStepIs ==
  ASSUME NEW c, Wellformed(c), Reduced(c), NEW head \in Alive(c), Headed(NodeAt(c, head)),
         NEW k \in Ids(c), NEW t, TailAt(c, head, t, k)
  PROVE  TailAt(c, head, TailStep(c, head, t, k), k + 1)
<1>1. /\ \A j \in Ids(c) : j \in Int
      /\ \A j \in Ids(c) : Link(c, j) => NodeAt(c, j).in[3] \in Int /\ NodeAt(c, j).in[3] < j
  BY DEF Ids, Wellformed, Formed, Link
<1>2. t \in Ids(c) /\ head \in Ids(c)
  BY DEF TailAt, Link, Alive
<1>3. CASE k \in Alive(c) /\ Link(c, k) /\ NodeAt(c, k).in[3] = t
  <2>1. t < k /\ k > head
    BY <1>1, <1>2, <1>3 DEF TailAt
  <2>2. TailStep(c, head, t, k) = k
    BY <1>3, <2>1 DEF TailStep, Link
  <2>3. ~Headed(NodeAt(c, k))
    BY <1>3 DEF Reduced, Chained, TailAt
  <2>4. \A j \in Ids(c) : j < k + 1 /\ j \in Alive(c) /\ Link(c, j) => NodeAt(c, j).in[3] # k
    BY <1>1
  <2>5. k >= head /\ k < k + 1
    BY <1>1, <1>2, <2>1
  <2> QED BY <1>3, <2>2, <2>3, <2>4, <2>5 DEF TailAt
<1>4. CASE ~(k \in Alive(c) /\ Link(c, k) /\ NodeAt(c, k).in[3] = t)
  <2>1. TailStep(c, head, t, k) = t
    BY <1>4 DEF TailStep, Link
  <2>2. \A j \in Ids(c) : j < k + 1 => j < k \/ j = k
    BY <1>1
  <2>3. t < k => t < k + 1
    BY <1>1, <1>2
  <2> QED BY <1>4, <2>1, <2>2, <2>3 DEF TailAt
<1> QED BY <1>3, <1>4

\* The last product is one of those reached.
LEMMA TailsAre ==
  ASSUME NEW c, Wellformed(c), Reduced(c), NEW head \in Alive(c), Headed(NodeAt(c, head)),
         NEW f, TailRuns(c, head, f)
  PROVE  \A k \in 0..Len(c.nodes) : TailAt(c, head, f[k], k)
<1> DEFINE S == {k \in Nat : k <= Len(c.nodes) => TailAt(c, head, f[k], k)}
<1>0. Len(c.nodes) \in Nat
  BY DEF Wellformed
<1>1. 0 \in S
  <2>1. \A j \in Ids(c) : ~(j < 0)
    BY DEF Ids
  <2>2. head \in Int /\ head >= head /\ Link(c, head)
    BY DEF Alive, Ids, Reduced, Chained
  <2> QED BY <2>1, <2>2 DEF TailAt, TailRuns
<1>2. ASSUME NEW k \in Nat, k \in S PROVE k + 1 \in S
  <2> SUFFICES ASSUME k + 1 <= Len(c.nodes) PROVE TailAt(c, head, f[k + 1], k + 1)
    OBVIOUS
  <2>1. k \in Ids(c) /\ k <= Len(c.nodes)
    BY <1>0 DEF Ids
  <2>2. TailAt(c, head, f[k], k)
    BY <1>2, <2>1
  <2> QED BY <2>1, <2>2, TailStepIs DEF TailRuns
<1>3. Nat \subseteq S
  <2> HIDE DEF S
  <2> QED BY <1>1, <1>2, FromZero
<1> QED BY <1>0, <1>3

\* The last product of a reduction: nothing of it adds to that one.
LEMMA TailIs ==
  ASSUME NEW c, Wellformed(c), Reduced(c), NEW head \in Alive(c), Headed(NodeAt(c, head))
  PROVE  LET t == ChainTail(c, head)
         IN  /\ Link(c, t) /\ t >= head /\ t \in Alive(c) /\ (t = head \/ ~Headed(NodeAt(c, t)))
             /\ \A j \in Alive(c) : Link(c, j) => NodeAt(c, j).in[3] # t
<1>1. Len(c.nodes) \in Nat
  BY DEF Wellformed
<1>2. PICK f : TailRuns(c, head, f)
  BY <1>1, TailUnrolls
<1>3. TailAt(c, head, ChainTail(c, head), Len(c.nodes))
  <2>1. Len(c.nodes) \in 0..Len(c.nodes)
    BY <1>1
  <2> QED BY <1>2, <2>1, TailsAre DEF TailRuns
<1>4. \A j \in Alive(c) : j \in Ids(c) /\ j < Len(c.nodes)
  BY <1>1 DEF Alive, Ids
<1> QED BY <1>3, <1>4 DEF TailAt

\* Two reductions end in different products.
LEMMA TailsDiffer ==
  ASSUME NEW c, Wellformed(c), Reduced(c), NEW g \in Alive(c), Headed(NodeAt(c, g)),
         NEW h \in Alive(c), Headed(NodeAt(c, h)), g # h
  PROVE  ChainTail(c, g) # ChainTail(c, h)
<1>1. Len(c.nodes) \in Nat
  BY DEF Wellformed
<1>2. PICK a : TailRuns(c, g, a)
  BY <1>1, TailUnrolls
<1>3. PICK b : TailRuns(c, h, b)
  BY <1>1, TailUnrolls
<1>4. \A k \in 0..Len(c.nodes) : TailAt(c, g, a[k], k) /\ TailAt(c, h, b[k], k)
  BY <1>2, <1>3, TailsAre
<1> DEFINE S == {k \in Nat : k <= Len(c.nodes) => a[k] # b[k]}
<1>5. 0 \in S
  BY <1>2, <1>3 DEF TailRuns
<1>6. ASSUME NEW x, NEW y, NEW z \in Alive(c), NEW t \in Alive(c), Headed(NodeAt(c, t)), NEW k \in Ids(c),
             TailAt(c, z, x, k), TailAt(c, t, y, k), x # y, TailStep(c, z, x, k) = k
      PROVE  TailStep(c, z, x, k) # y
  <2> SUFFICES ASSUME y = k PROVE FALSE
    BY <1>6
  <2>1. k \in Int /\ ~(k < k)
    BY DEF Ids
  <2>2. y = t
    BY <1>6, <2>1 DEF TailAt
  <2>3. NodeAt(c, k).in[3] = x
    BY <1>6 DEF TailStep
  <2> QED BY <1>6, <2>2, <2>3 DEF TailAt, Reduced, Chained, Alive
<1>7. ASSUME NEW k \in Nat, k \in S PROVE k + 1 \in S
  <2> SUFFICES ASSUME k + 1 <= Len(c.nodes) PROVE a[k + 1] # b[k + 1]
    OBVIOUS
  <2>1. k \in Ids(c) /\ k \in 0..Len(c.nodes)
    BY <1>1 DEF Ids
  <2>2. a[k] # b[k] /\ TailAt(c, g, a[k], k) /\ TailAt(c, h, b[k], k)
    BY <1>4, <1>7, <2>1
  <2>3. a[k + 1] = TailStep(c, g, a[k], k) /\ b[k + 1] = TailStep(c, h, b[k], k)
    BY <1>2, <1>3, <2>1 DEF TailRuns
  <2>4. TailStep(c, g, a[k], k) \in {k, a[k]} /\ TailStep(c, h, b[k], k) \in {k, b[k]}
    BY DEF TailStep
  <2>5. TailStep(c, g, a[k], k) = k => TailStep(c, g, a[k], k) # b[k]
    BY <1>6, <2>1, <2>2
  <2>6. TailStep(c, h, b[k], k) = k => TailStep(c, h, b[k], k) # a[k]
    BY <1>6, <2>1, <2>2
  <2>7. ~(TailStep(c, g, a[k], k) = k /\ TailStep(c, h, b[k], k) = k)
    <3> SUFFICES ASSUME TailStep(c, g, a[k], k) = k, TailStep(c, h, b[k], k) = k PROVE FALSE
      OBVIOUS
    <3>1. a[k] # k /\ b[k] # k
      BY <2>5, <2>6
    <3> QED BY <2>2, <3>1 DEF TailStep
  <2> QED BY <2>2, <2>3, <2>4, <2>5, <2>6, <2>7
<1>8. Nat \subseteq S
  <2> HIDE DEF S
  <2> QED BY <1>5, <1>7, FromZero
<1> QED BY <1>1, <1>2, <1>3, <1>8 DEF TailRuns

\* MemberChain, as a walk.
FollowTurn(c, d, x, ch, j) ==
  IF j > Last(ch) /\ j \in Alive(c) /\ NodeAt(c, j).op = "FMAdd" /\ Member(NodeAt(c, j))
      /\ NodeAt(c, j).in[3] = Last(ch)
  THEN Append(ch, j) ELSE ch
FollowWalk == INSTANCE X87Walk_proofs WITH Turn <- FollowTurn, Kept <- SeqAlong

LEMMA AppendLast ==
  ASSUME NEW q, IsSeq(q), NEW e
  PROVE  IsSeq(Append(q, e)) /\ Last(Append(q, e)) = e
<1> PICK T : q \in Seq(T)
  BY DEF IsSeq
<1>1. Append(q, e) \in Seq(T \cup {e}) /\ Len(Append(q, e)) = Len(q) + 1 /\ Len(q) \in Nat
  OBVIOUS
<1>2. Append(q, e)[Len(q) + 1] = e
  OBVIOUS
<1> QED BY <1>1, <1>2 DEF IsSeq, Last

\* Lowering a reduction walks it to the node the count says.
LEMMA ChainIs ==
  ASSUME NEW c, Wellformed(c), Reduced(c), NEW head \in Alive(c), Headed(NodeAt(c, head))
  PROVE  Last(MemberChain(c, head)) = ChainTail(c, head)
<1> DEFINE q == Ascending(c)
<1>0. Len(c.nodes) \in Nat
  BY DEF Wellformed
<1>1. Len(q) = Len(c.nodes) /\ \A j \in Ids(c) : j + 1 \in 1..Len(q) /\ q[j + 1] = j /\ (j + 1) - 1 = j
  BY <1>0, AscendingRuns
<1>2. FollowWalk!Through(c, 0, 0, <<head>>, q) = MemberChain(c, head)
  BY DEF FollowWalk!Through, FollowWalk!Walk, Walk, FollowTurn, MemberChain
<1> HIDE DEF q
<1>3. PICK g : FollowWalk!Runs(c, 0, 0, <<head>>, q, g)
  <2>1. Len(q) \in Nat
    BY <1>0, <1>1
  <2> HIDE DEF FollowWalk!Runs
  <2> QED BY <2>1, Induction, FollowWalk!Unrolled
<1>4. \A k \in 1..Len(q) : g[k] = FollowTurn(c, 0, 0, g[k - 1], q[k])
  BY <1>3 DEF FollowWalk!Runs
<1>5. \A j \in Ids(c) : g[j + 1] = FollowTurn(c, 0, 0, g[j], j)
  BY <1>1, <1>4
<1>6. g[0] = <<head>> /\ MemberChain(c, head) = g[Len(c.nodes)]
  BY <1>1, <1>2, <1>3 DEF FollowWalk!Runs
<1>7. PICK f : TailRuns(c, head, f)
  BY <1>0, TailUnrolls
<1>8. \A k \in 0..Len(c.nodes) : TailAt(c, head, f[k], k)
  BY <1>7, TailsAre
<1> DEFINE S == {k \in Nat : k <= Len(c.nodes) => IsSeq(g[k]) /\ Last(g[k]) = f[k]}
<1>9. 0 \in S
  <2>1. IsSeq(<<head>>) /\ Last(<<head>>) = head
    <3>1. <<head>> \in Seq({head})
      OBVIOUS
    <3> QED BY <3>1 DEF IsSeq, Last
  <2> QED BY <1>6, <1>7, <2>1 DEF TailRuns
<1>10. ASSUME NEW k \in Nat, k \in S PROVE k + 1 \in S
  <2> SUFFICES ASSUME k + 1 <= Len(c.nodes) PROVE IsSeq(g[k + 1]) /\ Last(g[k + 1]) = f[k + 1]
    OBVIOUS
  <2>1. k \in Ids(c) /\ k \in 0..Len(c.nodes)
    BY <1>0 DEF Ids
  <2>2. IsSeq(g[k]) /\ Last(g[k]) = f[k] /\ TailAt(c, head, f[k], k)
    BY <1>8, <1>10, <2>1
  <2>3. g[k + 1] = FollowTurn(c, 0, 0, g[k], k) /\ f[k + 1] = TailStep(c, head, f[k], k)
    BY <1>5, <1>7, <2>1 DEF TailRuns
  <2>4. (k > f[k]) = (k > head) \/ ~(Link(c, k) /\ k \in Alive(c) /\ NodeAt(c, k).in[3] = f[k])
    <3> SUFFICES ASSUME Link(c, k), NodeAt(c, k).in[3] = f[k] PROVE k > f[k] /\ k > head
      OBVIOUS
    <3>1. f[k] < k /\ f[k] \in Int /\ head \in Int
      BY <2>1, <2>2 DEF Wellformed, Formed, Link, Alive, Ids
    <3> QED BY <2>2, <3>1 DEF TailAt
  <2>5. CASE k > f[k] /\ k \in Alive(c) /\ Link(c, k) /\ NodeAt(c, k).in[3] = f[k]
    <3>1. g[k + 1] = Append(g[k], k)
      BY <2>2, <2>3, <2>5 DEF FollowTurn, Link
    <3>2. f[k + 1] = k
      BY <2>3, <2>4, <2>5 DEF TailStep, Link
    <3> QED BY <2>2, <3>1, <3>2, AppendLast
  <2>6. CASE ~(k > f[k] /\ k \in Alive(c) /\ Link(c, k) /\ NodeAt(c, k).in[3] = f[k])
    <3>1. g[k + 1] = g[k]
      BY <2>1, <2>2, <2>3, <2>6 DEF FollowTurn, Link
    <3>2. f[k + 1] = f[k]
      BY <2>1, <2>3, <2>4, <2>6 DEF TailStep, Link
    <3> QED BY <2>2, <3>1, <3>2
  <2> QED BY <2>5, <2>6
<1>11. Nat \subseteq S
  <2> HIDE DEF S
  <2> QED BY <1>9, <1>10, FromZero
<1> QED BY <1>0, <1>6, <1>7, <1>11 DEF TailRuns

-----------------------------------------------------------------------------
(* What the count of FPRs says of one node *)

\* A peak only rises.
LEMMA RaiseIs ==
  ASSUME NEW Z, "peak" \in DOMAIN Z, Z.peak \in Int, NEW t \in Int, NEW i
  PROVE  LET R == Raise(Z, t, i)
         IN  /\ R.peak \in Int /\ R.peak >= Z.peak /\ R.peak >= t /\ DOMAIN R = DOMAIN Z
             /\ \A x \in DOMAIN Z : x \notin {"peak", "over"} => R[x] = Z[x]
<1> DEFINE m == Max({Z.peak, t})
           R == Raise(Z, t, i)
<1>1. m \in {Z.peak, t} /\ \A y \in {Z.peak, t} : m >= y
  <2>1. \E x \in {Z.peak, t} : \A y \in {Z.peak, t} : x >= y
    <3>1. CASE Z.peak >= t
      BY <3>1
    <3>2. CASE t >= Z.peak
      BY <3>2
    <3> QED BY <3>1, <3>2
  <2> QED BY <2>1 DEF Max
<1> HIDE DEF m
<1>2. \E o : R = [Z EXCEPT !.peak = m, !.over = o]
  BY DEF Raise, m
<1> HIDE DEF R
<1>3. R.peak = m
  BY <1>2
<1> QED BY <1>1, <1>2, <1>3 DEF R

LEMMA Three ==
  ASSUME NEW a, NEW b, NEW d
  PROVE  /\ IsFiniteSet({a, b, d}) /\ Cardinality({a, b, d}) <= 3
         /\ IsFiniteSet({a, b}) /\ Cardinality({a, b}) <= 2
<1>1. IsFiniteSet({a}) /\ Cardinality({a}) = 1
  BY FS_Singleton
<1>2. {a, b} = {a} \cup {b} /\ {a, b, d} = {a, b} \cup {d}
  OBVIOUS
<1>3. IsFiniteSet({a, b}) /\ Cardinality({a, b}) \in Nat /\ Cardinality({a, b}) <= 2
  <2>1. IsFiniteSet({a} \cup {b}) /\ (Cardinality({a} \cup {b}) = 1 \/ Cardinality({a} \cup {b}) = 1 + 1)
    BY <1>1, FS_AddElement
  <2> QED BY <1>2, <2>1
<1>4. IsFiniteSet({a, b, d}) /\ Cardinality({a, b, d}) <= 3
  <2>1. /\ IsFiniteSet({a, b} \cup {d})
        /\ Cardinality({a, b} \cup {d}) \in {Cardinality({a, b}), Cardinality({a, b}) + 1}
    BY <1>3, FS_AddElement
  <2>2. Cardinality({a, b} \cup {d}) <= 3
    <3> DEFINE k == Cardinality({a, b})
               j == Cardinality({a, b} \cup {d})
    <3>1. k \in Nat /\ k <= 2 /\ (j = k \/ j = k + 1)
      BY <1>3, <2>1
    <3> HIDE DEF k, j
    <3>2. j <= 3
      BY <3>1
    <3> QED BY <3>2 DEF j
  <2> QED BY <1>2, <2>1, <2>2
<1> QED BY <1>3, <1>4

\* What the count has come to: no fewer live than hold a value.
Tallied(c, Z) ==
  /\ {"live", "peak", "over", "hold", "budget"} \subseteq DOMAIN Z
  /\ Z.live \in Int /\ Z.peak \in Int
  /\ Z.hold \subseteq Ids(c) /\ IsFiniteSet(Z.hold) /\ Cardinality(Z.hold) <= Z.live

Ends(c, i, n) == UsesBy(c, i, n) # {} /\ c.last[n] = i
\* What a node holds, once it is done.
Brings(c, i) ==
  IF Headed(NodeAt(c, i)) THEN {ChainTail(c, i)} ELSE IF Holder(NodeAt(c, i)) THEN {i} ELSE {}

\* A node is the last use of three nodes at most.
LEMMA EndingIs ==
  ASSUME NEW c, Wellformed(c), NEW i \in Ids(c), NEW H, H \subseteq Ids(c), IsFiniteSet(H)
  PROVE  LET E == {n \in H : Ends(c, i, n)}
         IN  /\ IsFiniteSet(E) /\ Cardinality(E) \in Nat /\ Cardinality(E) <= 3
             /\ NodeAt(c, i).op = "FScale" => Cardinality(E) <= 2
             /\ IsFiniteSet(H \ E) /\ Cardinality(H \ E) + Cardinality(E) = Cardinality(H)
             /\ Cardinality(H \ E) \in Nat
<1> DEFINE E == {n \in H : Ends(c, i, n)}
           in == NodeAt(c, i).in
<1>1. E \subseteq {in[1], in[2], in[3]}
  BY DEF Ends, UsesBy
<1>2. IsFiniteSet(E) /\ Cardinality(E) \in Nat /\ Cardinality(E) <= 3
  <2>1. IsFiniteSet({in[1], in[2], in[3]}) /\ Cardinality({in[1], in[2], in[3]}) <= 3
    BY Three
  <2> HIDE DEF E, in
  <2>2. IsFiniteSet(E) /\ Cardinality(E) <= Cardinality({in[1], in[2], in[3]})
    BY <1>1, <2>1, FS_Subset
  <2> QED BY <2>1, <2>2, FS_CardinalityType
<1>3. ASSUME NodeAt(c, i).op = "FScale" PROVE Cardinality(E) <= 2
  <2>1. in[3] = None /\ None \notin Ids(c)
    BY <1>3 DEF Wellformed, Formed, None, Ids
  <2>2. E \subseteq {in[1], in[2]}
    BY <1>1, <2>1
  <2>3. IsFiniteSet({in[1], in[2]}) /\ Cardinality({in[1], in[2]}) <= 2
    BY Three
  <2> HIDE DEF E, in
  <2>4. Cardinality(E) <= Cardinality({in[1], in[2]})
    BY <2>2, <2>3, FS_Subset
  <2> QED BY <1>2, <2>3, <2>4, FS_CardinalityType
<1>4. IsFiniteSet(H \ E) /\ Cardinality(H \ E) = Cardinality(H) - Cardinality(H \cap E)
  <2> HIDE DEF E
  <2> QED BY FS_Difference
<1>5. H \cap E = E
  OBVIOUS
<1> HIDE DEF E
<1>6. Cardinality(H) \in Nat /\ Cardinality(H \ E) \in Nat
  BY <1>4, FS_CardinalityType
<1>7. Cardinality(H \ E) + Cardinality(E) = Cardinality(H)
  <2>1. Cardinality(H \cap E) = Cardinality(E)
    BY <1>5
  <2>2. Cardinality(H) \in Nat /\ Cardinality(E) \in Nat
    BY <1>2, <1>6
  <2> QED BY <1>4, <2>1, <2>2
<1>8. NodeAt(c, i).op = "FScale" => Cardinality(E) <= 2
  BY <1>3
<1> QED BY <1>2, <1>4, <1>6, <1>7, <1>8 DEF E

\* One turn of the count: live values stay counted, and there is room for what
\* the node takes beside them.
LEMMA CountIs ==
  ASSUME NEW c, Wellformed(c), Reduced(c), NEW i \in Ids(c), ~Dead(NodeAt(c, i)),
         NEW Z, Tallied(c, Z)
  PROVE  LET T  == CountFprs(c, Z, i)
             n  == NodeAt(c, i)
             k  == Cardinality(Z.hold)
             H  == {m \in Z.hold : ~Ends(c, i, m)}
             b  == Beside(c, Z, i)
         IN  /\ Tallied(c, T) /\ T.peak >= Z.peak /\ T.budget = Z.budget
             /\ {m \in (Z.hold \ {i}) \cup Brings(c, i) : ~Ends(c, i, m)} \subseteq T.hold
             /\ ~Headed(n) => {m \in Z.hold \cup Brings(c, i) : ~Ends(c, i, m)} \subseteq T.hold
             /\ k \in Nat /\ b \in Nat
             /\ Holder(n) => k + 1 + b <= T.peak
             /\ ~Holder(n) /\ b > 0 => k + b <= T.peak
             /\ n.op \in Cores => /\ Holder(n) /\ ~Headed(n) /\ IsFiniteSet(H)
                                  /\ Cardinality(H) + Spike(n.op) <= T.peak
                                  /\ k + CopyCount(n.op) <= T.peak
<1> DEFINE n  == NodeAt(c, i)
           h  == Cardinality(Z.hold)
           b  == Beside(c, Z, i)
           Took == IF Holder(n)
                   THEN Raise([Z EXCEPT !.live = @ + 1, !.hold = @ \cup {i}], Z.live + 1, i) ELSE Z
           Peak == IF b = 0 THEN Took ELSE Raise(Took, Took.live + b, i)
           Held1 == IF Headed(n) THEN [Peak EXCEPT !.hold = (@ \ {i}) \cup {ChainTail(c, i)}] ELSE Peak
           E == {m \in Held1.hold : Ends(c, i, m)}
           ended == Cardinality(E)
           Core1 == IF Spike(n.op) = 0 THEN Held1 ELSE Raise(Held1, Held1.live - 1 - ended + Spike(n.op), i)
           T == CountFprs(c, Z, i)
           PF == {"live", "peak", "over", "hold", "budget"}
<1>0. Headed(n) => Holder(n) /\ n.op = "FMAdd" /\ ChainTail(c, i) \in Ids(c)
  <2> SUFFICES ASSUME Headed(n) PROVE Holder(n) /\ n.op = "FMAdd" /\ ChainTail(c, i) \in Ids(c)
    OBVIOUS
  <2>1. i \in Alive(c)
    BY DEF Alive
  <2>2. n.op = "FMAdd"
    BY DEF Reduced, Chained, Link
  <2> QED BY <2>1, <2>2, TailIs DEF Holder, ValueOps, Fmas, Headed, Link
<1>1. T = [Core1 EXCEPT !.live = @ - ended, !.hold = @ \ E]
  <2> DEFINE Peak0 == IF Beside(c, Took, i) = 0 THEN Took
                      ELSE Raise(Took, Took.live + Beside(c, Took, i), i)
             Held0 == IF "Head" \in n.flags THEN [Peak0 EXCEPT !.hold = (@ \ {i}) \cup {ChainTail(c, i)}]
                      ELSE Peak0
             ended0 == Cardinality(Ending(c, Held0, i))
             Core0 == IF Spike(n.op) = 0 THEN Held0
                      ELSE Raise(Held0, Held0.live - 1 - ended0 + Spike(n.op), i)
  <2>1. T = [Core0 EXCEPT !.live = @ - ended0, !.hold = @ \ Ending(c, Held0, i)]
    BY DEF CountFprs
  <2>2. Peak0 = Peak
    <3>1. Beside(c, Took, i) = b
      BY DEF Beside
    <3> HIDE DEF Took, b
    <3> QED BY <3>1
  <2> HIDE DEF Peak0
  <2>3. Held0 = Held1
    <3> HIDE DEF Peak
    <3> QED BY <2>2 DEF Headed
  <2> HIDE DEF Held0
  <2>4. Ending(c, Held0, i) = E
    <3> HIDE DEF Held1
    <3> QED BY <2>3 DEF Ending, Ends
  <2> HIDE DEF E, Held1
  <2>5. ended0 = ended
    BY <2>4
  <2> HIDE DEF ended0, ended
  <2> QED BY <2>1, <2>3, <2>4, <2>5
<1> HIDE DEF T
<1>2. b \in Nat
  BY DEF Beside
<1> HIDE DEF b
<1>3. Z.live \in Int /\ h \in Nat /\ h <= Z.live
  BY FS_CardinalityType DEF Tallied
<1> DEFINE own == IF Holder(n) THEN 1 ELSE 0
           new == IF Holder(n) THEN {i} ELSE {}
<1>4. /\ Took.live = Z.live + own /\ Took.hold = Z.hold \cup new /\ PF \subseteq DOMAIN Took
           /\ Took.peak \in Int
      /\ Took.peak >= Z.peak /\ Took.budget = Z.budget /\ (Holder(n) => Took.peak >= Z.live + 1)
  <2>1. CASE Holder(n)
    <3> DEFINE J == [Z EXCEPT !.live = @ + 1, !.hold = @ \cup {i}]
    <3>1. /\ DOMAIN J = DOMAIN Z /\ J.live = Z.live + 1 /\ J.hold = Z.hold \cup {i} /\ J.peak = Z.peak
          /\ J.budget = Z.budget
      BY DEF Tallied
    <3>2. Took = Raise(J, Z.live + 1, i)
      BY <2>1
    <3> HIDE DEF J, Took
    <3>3. "peak" \in DOMAIN J /\ J.peak \in Int /\ Z.live + 1 \in Int
      BY <3>1 DEF Tallied
    <3>4. /\ Took.peak \in Int /\ Took.peak >= J.peak /\ Took.peak >= Z.live + 1 /\ DOMAIN Took = DOMAIN J
          /\ \A x \in DOMAIN J : x \notin {"peak", "over"} => Took[x] = J[x]
      BY <3>2, <3>3, RaiseIs
    <3> QED BY <2>1, <3>1, <3>4 DEF Tallied
  <2>2. CASE ~Holder(n)
    BY <2>2, <1>3 DEF Tallied
  <2> QED BY <2>1, <2>2
<1> HIDE DEF Took
<1>5. /\ Peak.live = Took.live /\ Peak.hold = Took.hold /\ PF \subseteq DOMAIN Peak /\ Peak.peak \in Int
      /\ Peak.peak >= Took.peak /\ Peak.budget = Took.budget /\ (b > 0 => Peak.peak >= Took.live + b)
  <2>1. CASE b = 0
    BY <1>4, <2>1
  <2>2. CASE b # 0
    <3>1. Peak = Raise(Took, Took.live + b, i)
      BY <2>2
    <3> HIDE DEF Peak
    <3>2. "peak" \in DOMAIN Took /\ Took.peak \in Int /\ Took.live + b \in Int
      BY <1>2, <1>3, <1>4
    <3>3. /\ Peak.peak \in Int /\ Peak.peak >= Took.peak /\ Peak.peak >= Took.live + b
               /\ DOMAIN Peak = DOMAIN Took
          /\ \A x \in DOMAIN Took : x \notin {"peak", "over"} => Peak[x] = Took[x]
      BY <3>1, <3>2, RaiseIs
    <3> QED BY <1>4, <3>3
  <2> QED BY <2>1, <2>2
<1> HIDE DEF Peak
<1> DEFINE G == IF Headed(n) THEN (Peak.hold \ {i}) \cup {ChainTail(c, i)} ELSE Peak.hold
<1>6. /\ Held1.live = Peak.live /\ Held1.hold = G /\ PF \subseteq DOMAIN Held1
      /\ Held1.peak = Peak.peak /\ Held1.budget = Peak.budget
  BY <1>5
<1> HIDE DEF Held1
<1>7. G \subseteq Ids(c) /\ IsFiniteSet(G) /\ Cardinality(G) <= Z.live + own
  <2>1. Z.hold \subseteq Ids(c) /\ IsFiniteSet(Z.hold)
    BY DEF Tallied
  <2> DEFINE W == Z.hold \cup new
  <2>2. W \subseteq Ids(c) /\ IsFiniteSet(W) /\ Cardinality(W) \in Nat /\ Cardinality(W) <= Z.live + own
    <3>1. CASE Holder(n)
      <4>1. W = Z.hold \cup {i} /\ own = 1
        BY <3>1
      <4>2. /\ IsFiniteSet(Z.hold \cup {i})
            /\ Cardinality(Z.hold \cup {i}) = IF i \in Z.hold THEN h ELSE h + 1
        BY <2>1, FS_AddElement
      <4> HIDE DEF W, own
      <4> QED BY <1>3, <2>1, <4>1, <4>2
    <3>2. CASE ~Holder(n)
      BY <1>3, <2>1, <3>2
    <3> QED BY <3>1, <3>2
  <2>3. Peak.hold = W
    BY <1>4, <1>5
  <2>4. Headed(n) => i \in W /\ ChainTail(c, i) \in Ids(c)
    BY <1>0
  <2> HIDE DEF W
  <2>5. CASE Headed(n)
    <3> DEFINE t == ChainTail(c, i)
    <3>1. IsFiniteSet(W \ {i}) /\ Cardinality(W \ {i}) = Cardinality(W) - 1
      BY <2>2, <2>4, <2>5, FS_RemoveElement
    <3>2. G = (W \ {i}) \cup {t}
      BY <2>3, <2>5
    <3> HIDE DEF t, G
    <3>3. Cardinality(W \ {i}) \in Nat
      BY <3>1, FS_CardinalityType
    <3>4. /\ IsFiniteSet((W \ {i}) \cup {t})
          /\ Cardinality((W \ {i}) \cup {t}) = IF t \in W \ {i} THEN Cardinality(W \ {i}) ELSE Cardinality(W \ {i}) + 1
      BY <3>1, FS_AddElement
    <3>5. t \in Ids(c)
      BY <2>4, <2>5 DEF t
    <3>6. Cardinality(G) <= Z.live + own
      BY <1>3, <2>2, <3>1, <3>2, <3>3, <3>4
    <3> QED BY <2>2, <3>2, <3>4, <3>5, <3>6
  <2>6. CASE ~Headed(n)
    BY <2>2, <2>3, <2>6
  <2> QED BY <2>5, <2>6
<1>8. G = Held1.hold
  BY <1>6
<1>9. /\ IsFiniteSet(E) /\ ended \in Nat /\ ended <= 3 /\ (n.op = "FScale" => ended <= 2)
      /\ IsFiniteSet(G \ E) /\ Cardinality(G \ E) + ended = Cardinality(G) /\ Cardinality(G \ E) \in Nat
  <2> HIDE DEF G
  <2> QED BY <1>7, <1>8, EndingIs
<1> HIDE DEF ended
<1>10. E = {m \in G : Ends(c, i, m)}
  BY <1>8
<1> HIDE DEF E, G
<1>11. Spike(n.op) \in Nat /\ (n.op \in Cores => Spike(n.op) # 0)
  BY DEF Spike, Cores, Trigs
<1>12. /\ Core1.live = Held1.live /\ Core1.hold = Held1.hold /\ PF \subseteq DOMAIN Core1
            /\ Core1.peak \in Int
       /\ Core1.peak >= Held1.peak /\ Core1.budget = Held1.budget
       /\ (Spike(n.op) # 0 => Core1.peak >= Held1.live - 1 - ended + Spike(n.op))
  <2>1. CASE Spike(n.op) = 0
    BY <1>5, <1>6, <2>1
  <2>2. CASE Spike(n.op) # 0
    <3> DEFINE t == Held1.live - 1 - ended + Spike(n.op)
    <3>1. Core1 = Raise(Held1, t, i)
      BY <2>2
    <3>2. "peak" \in DOMAIN Held1 /\ Held1.peak \in Int /\ t \in Int
      BY <1>3, <1>4, <1>5, <1>6, <1>9, <1>11
    <3>3. t >= Held1.live - 1 - ended + Spike(n.op)
      BY <3>2
    <3> HIDE DEF Core1, t
    <3>4. /\ Core1.peak \in Int /\ Core1.peak >= Held1.peak /\ Core1.peak >= t
               /\ DOMAIN Core1 = DOMAIN Held1
          /\ \A x \in DOMAIN Held1 : x \notin {"peak", "over"} => Core1[x] = Held1[x]
      BY <3>1, <3>2, RaiseIs
    <3>5. Core1.peak >= Held1.live - 1 - ended + Spike(n.op)
      <4>1. t = Held1.live - 1 - ended + Spike(n.op)
        BY DEF t
      <4> QED BY <3>4, <4>1
    <3> QED BY <1>6, <3>4, <3>5
  <2> QED BY <2>1, <2>2
<1> HIDE DEF Core1
<1>13. /\ T.live = Core1.live - ended /\ T.hold = G \ E /\ T.peak = Core1.peak /\ T.budget = Core1.budget
       /\ PF \subseteq DOMAIN T
  BY <1>1, <1>8, <1>12
<1>14. Held1.live = Z.live + own /\ own \in Nat
  BY <1>4, <1>5, <1>6
<1>15. T.peak >= Z.peak /\ T.peak \in Int /\ Z.peak \in Int
  <2>1. Z.peak \in Int
    BY DEF Tallied
  <2> QED BY <2>1, <1>4, <1>5, <1>6, <1>12, <1>13
<1>16. Tallied(c, T)
  <2>1. Cardinality(G \ E) <= Z.live + own - ended
    BY <1>3, <1>7, <1>9, <1>14
  <2>2. T.live \in Int /\ Cardinality(T.hold) <= T.live
    BY <1>3, <1>9, <1>12, <1>13, <1>14, <2>1
  <2> QED BY <1>7, <1>9, <1>13, <1>15, <2>2 DEF Tallied
<1>17. {m \in (Z.hold \ {i}) \cup Brings(c, i) : ~Ends(c, i, m)} \subseteq T.hold
  <2>1. (Z.hold \ {i}) \cup Brings(c, i) \subseteq G
    BY <1>0, <1>4, <1>5 DEF G, Brings
  <2> QED BY <1>10, <1>13, <2>1
<1>18. ~Headed(n) => {m \in Z.hold \cup Brings(c, i) : ~Ends(c, i, m)} \subseteq T.hold
  <2>1. ~Headed(n) => Z.hold \cup Brings(c, i) \subseteq G
    BY <1>4, <1>5 DEF G, Brings
  <2> QED BY <1>10, <1>13, <2>1
<1>19. T.peak >= Peak.peak /\ Took.peak \in Int /\ Peak.peak \in Int
  BY <1>4, <1>5, <1>6, <1>12, <1>13
<1>20. Holder(n) => h + 1 + b <= T.peak
  <2> SUFFICES ASSUME Holder(n) PROVE h + 1 + b <= T.peak
    OBVIOUS
  <2>1. Took.peak >= Z.live + 1 /\ Took.live = Z.live + 1
    BY <1>4
  <2>2. Peak.peak >= Z.live + 1 + b
    BY <1>2, <1>3, <1>5, <1>19, <2>1
  <2> QED BY <1>2, <1>3, <1>15, <1>19, <2>2
<1>21. ~Holder(n) /\ b > 0 => h + b <= T.peak
  <2> SUFFICES ASSUME ~Holder(n), b > 0 PROVE h + b <= T.peak
    OBVIOUS
  <2>1. Took.live = Z.live
    BY <1>3, <1>4
  <2> QED BY <1>2, <1>3, <1>5, <1>15, <1>19, <2>1
<1> DEFINE H == {m \in Z.hold : ~Ends(c, i, m)}
<1>22. n.op \in Cores => /\ Holder(n) /\ ~Headed(n) /\ IsFiniteSet(H)
                         /\ Cardinality(H) + Spike(n.op) <= T.peak
                         /\ h + CopyCount(n.op) <= T.peak
  <2> SUFFICES ASSUME n.op \in Cores
               PROVE  /\ Holder(n) /\ ~Headed(n) /\ IsFiniteSet(H)
                      /\ Cardinality(H) + Spike(n.op) <= T.peak
                      /\ h + CopyCount(n.op) <= T.peak
    OBVIOUS
  <2>1. ~Headed(n)
    BY <1>0 DEF Cores, Trigs
  <2>2. Holder(n)
    <3>1. n.op \notin Loads /\ n.op # "FMAdd" /\ n.op \in ValueOps
      BY DEF Cores, Trigs, Loads, ValueOps, Unaries, Binaries
    <3> QED BY <2>1, <3>1 DEF Reduced, Chained, Link, Holder
  <2>3. G = Z.hold \cup {i} /\ own = 1
    BY <1>4, <1>5, <2>1, <2>2 DEF G
  <2>4. ~Ends(c, i, i)
    <3>1. \A k \in 1..3 : n.in[k] < i /\ n.in[k] \in Int
      <4>1. n.op # "FStsw"
        BY DEF Cores, Trigs
      <4>2. \A k \in 1..3 : k = 1 \/ k = 2 \/ k = 3
        OBVIOUS
      <4> QED BY <4>1, <4>2 DEF Wellformed, Formed
    <3>2. ~(i < i)
      BY DEF Ids
    <3> QED BY <3>1, <3>2 DEF Ends, UsesBy
  <2>5. E = {m \in Z.hold : Ends(c, i, m)}
    BY <1>10, <2>3, <2>4
  <2>6. H = Z.hold \ E
    BY <2>5
  <2>7. IsFiniteSet(H) /\ Cardinality(H) + ended = h /\ Cardinality(H) \in Nat
    <3>1. Z.hold \subseteq Ids(c) /\ IsFiniteSet(Z.hold)
      BY DEF Tallied
    <3>2. /\ IsFiniteSet(Z.hold \ {m \in Z.hold : Ends(c, i, m)})
          /\ Cardinality(Z.hold \ {m \in Z.hold : Ends(c, i, m)})
               + Cardinality({m \in Z.hold : Ends(c, i, m)}) = h
          /\ Cardinality(Z.hold \ {m \in Z.hold : Ends(c, i, m)}) \in Nat
      BY <3>1, EndingIs
    <3> QED BY <2>5, <2>6, <3>2 DEF ended
  <2>8. T.peak >= Z.live - ended + Spike(n.op)
    <3>1. Core1.peak >= Held1.live - 1 - ended + Spike(n.op)
      BY <1>11, <1>12
    <3> QED BY <1>3, <1>9, <1>11, <1>13, <1>14, <2>3, <3>1
  <2>9. Spike(n.op) - ended >= CopyCount(n.op) /\ CopyCount(n.op) \in Nat
    <3>1. n.op \in Trigs => Spike(n.op) >= 7 /\ CopyCount(n.op) = 1
      BY DEF Trigs, Spike, CopyCount
    <3>2. n.op \in {"FPatan", "FYl2x"} => Spike(n.op) >= 6 /\ CopyCount(n.op) = 2
      BY DEF Trigs, Spike, CopyCount
    <3>3. n.op = "FScale" => Spike(n.op) = 4 /\ CopyCount(n.op) = 2
      BY DEF Trigs, Spike, CopyCount
    <3> QED BY <1>9, <1>11, <3>1, <3>2, <3>3 DEF Cores
  <2> HIDE DEF H
  <2> QED BY <1>3, <1>9, <1>11, <1>15, <2>1, <2>2, <2>7, <2>8, <2>9
<1> QED BY <1>2, <1>3, <1>13, <1>15, <1>16, <1>17, <1>18, <1>20, <1>21, <1>22, <1>4, <1>5, <1>6,
      <1>12 DEF T, b

-----------------------------------------------------------------------------
(* What the count of GPRs says of one node *)

\* What the count of GPRs keeps.
Kept4(Q) == {"held", "peak", "over", "budget"} \subseteq DOMAIN Q /\ Q.held \in Int /\ Q.peak \in Int

\* Each FSTSW that is fused waits for a comparison of its own that is.
Waiting(n)  == n.op = "FStsw" /\ Fused(n)
Packing(n)  == n.op \in Compares /\ Fused(n)
Paired(c) ==
  /\ \A i \in Ids(c) : Waiting(NodeAt(c, i)) =>
       NodeAt(c, i).in[1] \in Ids(c) /\ Packing(NodeAt(c, NodeAt(c, i).in[1]))
  /\ \A i, j \in Ids(c) : /\ NodeAt(c, i).op = "FStsw" /\ NodeAt(c, j).op = "FStsw"
                          /\ NodeAt(c, i).in[1] \in Ids(c) /\ NodeAt(c, i).in[1] = NodeAt(c, j).in[1]
                          => i = j

\* One turn of it.
LEMMA CountGprsIs ==
  ASSUME NEW c, NEW pinned \in Int, NEW Q, Kept4(Q), NEW i, ~Dead(NodeAt(c, i))
  PROVE  LET n == NodeAt(c, i)
             T == CountGprs(c, pinned, Q, i)
             b == IF Waiting(n) THEN Q.held - 1 ELSE Q.held
         IN  /\ Kept4(T) /\ T.peak >= Q.peak /\ T.held = IF Packing(n) THEN b + 1 ELSE b
             /\ pinned + b + Transient(n, CachesRc(c)) <= T.peak
<1> DEFINE n == NodeAt(c, i)
           T == CountGprs(c, pinned, Q, i)
           b == IF Waiting(n) THEN Q.held - 1 ELSE Q.held
           back == IF Waiting(n) THEN [Q EXCEPT !.held = @ - 1] ELSE Q
           t == pinned + back.held + Transient(n, CachesRc(c))
           done == Raise(back, t, i)
<1>1. T = IF Packing(n) THEN [done EXCEPT !.held = @ + 1] ELSE done
  BY DEF CountGprs, Waiting, Packing, Fused
<1>2. DOMAIN back = DOMAIN Q /\ back.held = b /\ back.peak = Q.peak /\ b \in Int
  BY DEF Kept4
<1>3. t \in Int /\ t = pinned + b + Transient(n, CachesRc(c))
  <2>1. Transient(n, CachesRc(c)) \in Nat
    BY TransientIs
  <2> HIDE DEF back, b
  <2> QED BY <1>2, <2>1
<1>4. "peak" \in DOMAIN back /\ back.peak \in Int
  BY <1>2 DEF Kept4
<1> HIDE DEF t, back, b
<1>5. /\ done.peak \in Int /\ done.peak >= back.peak /\ done.peak >= t /\ DOMAIN done = DOMAIN back
      /\ \A x \in DOMAIN back : x \notin {"peak", "over"} => done[x] = back[x]
  BY <1>3, <1>4, RaiseIs
<1> HIDE DEF done
<1>6. {"held", "peak", "over", "budget"} \subseteq DOMAIN done /\ done.held = b
  BY <1>2, <1>5 DEF Kept4
<1> HIDE DEF T
<1>7. T.peak = done.peak /\ T.held = (IF Packing(n) THEN b + 1 ELSE b) /\ DOMAIN T = DOMAIN done
  BY <1>1, <1>6
<1>8. Kept4(T)
  BY <1>2, <1>5, <1>6, <1>7 DEF Kept4
<1>9. T.peak >= Q.peak /\ t <= T.peak
  BY <1>2, <1>3, <1>5, <1>7
<1> QED BY <1>3, <1>7, <1>8, <1>9 DEF b, T

LEMMA CountGprsSteady ==
  ASSUME NEW c, NEW pinned \in Int, NEW Q, Kept4(Q), NEW i, ~Dead(NodeAt(c, i)),
         ~Packing(NodeAt(c, i)), ~Waiting(NodeAt(c, i))
  PROVE  Kept4(CountGprs(c, pinned, Q, i)) /\ CountGprs(c, pinned, Q, i).held = Q.held
BY CountGprsIs

\* The GPRs between two nodes: all there are, or one less for the result of a
\* comparison, whose FSTSW is still to come.
Idle(K, Q)  ==
  DOMAIN K.cmp = {} /\ Q.held = 0 /\ K.gprs = IF K.rc.on THEN {4, 5, 7} ELSE {3, 4, 5, 7}

\* The register kept for the FSTSW that waits for f, and none.
Holding(K, Q, f) ==
  ~K.rc.on /\ DOMAIN K.cmp = {f} /\ K.cmp[f].reg = 4 /\ Q.held = 1 /\ K.gprs = {3, 5, 7}
Coherent(c, K, Q, k) ==
  /\ K.rc.on = CachesRc(c)
  /\ Idle(K, Q) \/ \E f : Holding(K, Q, f)
  /\ \A j \in Ids(c) : /\ j >= k /\ Waiting(NodeAt(c, j)) /\ NodeAt(c, j).in[1] < k
                       => NodeAt(c, j).in[1] \in DOMAIN K.cmp

\* The GPRs a node wants are there, if the count is within its budget.
LEMMA RoomIs ==
  ASSUME NEW c, Wellformed(c), Paired(c), NEW i \in Ids(c), ~Dead(NodeAt(c, i)),
         NEW K, NEW Q, Coherent(c, K, Q, i), NEW pinned \in Int, Kept4(Q),
         CountGprs(c, pinned, Q, i).peak <= pinned + IF K.rc.on THEN 3 ELSE 4
  PROVE  /\ K.rc.on \/ RcPlace \in K.gprs
         /\ ~Waiting(NodeAt(c, i)) => Holds(K.gprs, Transient(NodeAt(c, i), K.rc.on))
         /\ Packing(NodeAt(c, i)) => Idle(K, Q) /\ K.gprs = {3, 4, 5, 7}
         /\ Waiting(NodeAt(c, i)) => Holding(K, Q, NodeAt(c, i).in[1])
<1> DEFINE n == NodeAt(c, i)
           t == Transient(n, K.rc.on)
<1>1. K.rc.on \/ RcPlace \in K.gprs
  BY DEF Coherent, Idle, Holding, RcPlace
<1>2. ~Waiting(n) => Q.held + t <= (IF K.rc.on THEN 3 ELSE 4) /\ t \in Nat /\ Q.held \in Int
  <2>1. ~Waiting(n) => pinned + Q.held + t <= CountGprs(c, pinned, Q, i).peak
    BY CountGprsIs DEF Coherent
  <2>2. t \in Nat /\ Q.held \in Int /\ CountGprs(c, pinned, Q, i).peak \in Int
    BY CountGprsIs, TransientIs DEF Kept4
  <2> HIDE DEF t
  <2> QED BY <2>1, <2>2
<1> HIDE DEF t
<1>3. ~Waiting(n) => Holds(K.gprs, t)
  <2> SUFFICES ASSUME ~Waiting(n) PROVE Holds(K.gprs, t)
    OBVIOUS
  <2>1. CASE Idle(K, Q)
    <3>1. CASE K.rc.on
      <4>1. K.gprs = {4, 5, 7} /\ t <= 3
        BY <1>2, <2>1, <3>1 DEF Idle
      <4> QED BY <1>2, <4>1, Full, FewerHeld
    <3>2. CASE ~K.rc.on
      <4>1. K.gprs = {3, 4, 5, 7} /\ t <= 4
        BY <1>2, <2>1, <3>2 DEF Idle
      <4> QED BY <1>2, <4>1, Full, FewerHeld
    <3> QED BY <3>1, <3>2
  <2>2. CASE \E f : Holding(K, Q, f)
    <3>1. K.gprs = {3, 5, 7} /\ t <= 3
      BY <1>2, <2>2 DEF Holding
    <3> QED BY <1>2, <3>1, Full, FewerHeld
  <2> QED BY <2>1, <2>2 DEF Coherent
<1>4. Packing(n) => Idle(K, Q) /\ K.gprs = {3, 4, 5, 7}
  <2> SUFFICES ASSUME Packing(n) PROVE Idle(K, Q) /\ K.gprs = {3, 4, 5, 7}
    OBVIOUS
  <2>1. ~Waiting(n) /\ t = 4
    BY TransientIs DEF Packing, Waiting, Compares, t
  <2>2. ~K.rc.on
    <3>1. i \in Alive(c)
      BY DEF Alive
    <3> QED BY <3>1 DEF Coherent, CachesRc, Packing
  <2>3. Q.held <= 0
    BY <1>2, <2>1, <2>2
  <2>4. ~\E f : Holding(K, Q, f)
    BY <2>3 DEF Holding
  <2> QED BY <2>2, <2>4 DEF Coherent, Idle
<1>5. Waiting(n) => Holding(K, Q, n.in[1])
  <2> SUFFICES ASSUME Waiting(n) PROVE Holding(K, Q, n.in[1])
    OBVIOUS
  <2>1. n.in[1] \in DOMAIN K.cmp
    <3>1. n.in[1] < i /\ i >= i
      BY DEF Wellformed, Formed, Ids
    <3> QED BY <3>1 DEF Coherent
  <2>2. PICK f : Holding(K, Q, f)
    BY <2>1 DEF Coherent, Idle
  <2>3. f = n.in[1]
    BY <2>1, <2>2 DEF Holding
  <2> QED BY <2>2, <2>3
<1> QED BY <1>1, <1>3, <1>4, <1>5 DEF t

\* After a node that neither packs nor waits, or that is passed over.
LEMMA CoherentOn ==
  ASSUME NEW c, Wellformed(c), Paired(c), NEW i \in Ids(c), NEW pinned \in Int,
         NEW K, NEW Q, Kept4(Q), Coherent(c, K, Q, i),
         Dead(NodeAt(c, i)) \/ (~Packing(NodeAt(c, i)) /\ ~Waiting(NodeAt(c, i))),
         NEW D, D.rc.on = K.rc.on, D.gprs = K.gprs, D.cmp = K.cmp
  PROVE  Coherent(c, D, CountGprs(c, pinned, Q, i), i + 1) /\ Kept4(CountGprs(c, pinned, Q, i))
<1> DEFINE T == CountGprs(c, pinned, Q, i)
<1>1. T.held = Q.held /\ Kept4(T)
  <2>1. CASE Dead(NodeAt(c, i))
    BY <2>1 DEF CountGprs
  <2>2. CASE ~Dead(NodeAt(c, i))
    <3>1. ~Packing(NodeAt(c, i)) /\ ~Waiting(NodeAt(c, i))
      BY <2>2
    <3> QED BY <2>2, <3>1, CountGprsSteady
  <2> QED BY <2>1, <2>2
<1> HIDE DEF T
<1>2. ~Packing(NodeAt(c, i))
  BY DEF Wellformed, Formed, Packing, EffectOps
<1>3. \A j \in Ids(c) : j >= i + 1 /\ Waiting(NodeAt(c, j)) /\ NodeAt(c, j).in[1] < i + 1
                        => NodeAt(c, j).in[1] \in DOMAIN K.cmp
  <2> SUFFICES ASSUME NEW j \in Ids(c), j >= i + 1, Waiting(NodeAt(c, j)), NodeAt(c, j).in[1] < i + 1
               PROVE  NodeAt(c, j).in[1] \in DOMAIN K.cmp
    OBVIOUS
  <2>1. NodeAt(c, j).in[1] \in Ids(c) /\ NodeAt(c, j).in[1] # i
    BY <1>2 DEF Paired
  <2>2. NodeAt(c, j).in[1] < i /\ j >= i
    BY <2>1 DEF Ids
  <2> QED BY <2>2 DEF Coherent
<1>4. (Idle(D, T) <=> Idle(K, Q)) /\ \A f : Holding(D, T, f) <=> Holding(K, Q, f)
  BY <1>1 DEF Idle, Holding
<1>5. Coherent(c, D, T, i + 1)
  BY <1>3, <1>4 DEF Coherent
<1> QED BY <1>1, <1>5 DEF T

\* After a comparison that is fused.
LEMMA CoherentPacked ==
  ASSUME NEW c, Wellformed(c), Paired(c), NEW i \in Ids(c), ~Dead(NodeAt(c, i)), NEW pinned \in Int,
         NEW K, NEW Q, Kept4(Q), Coherent(c, K, Q, i),
         Packing(NodeAt(c, i)), Idle(K, Q), K.gprs = {3, 4, 5, 7},
         NEW D, D.rc.on = K.rc.on, D.gprs = {3, 5, 7}, DOMAIN D.cmp = {i}
             \cup DOMAIN K.cmp, D.cmp[i].reg = 4
  PROVE  Coherent(c, D, CountGprs(c, pinned, Q, i), i + 1) /\ Kept4(CountGprs(c, pinned, Q, i))
<1> DEFINE T == CountGprs(c, pinned, Q, i)
<1>1. ~Waiting(NodeAt(c, i))
  BY DEF Packing, Waiting, Compares
<1>2. T.held = Q.held + 1 /\ Kept4(T)
  BY <1>1, CountGprsIs
<1> HIDE DEF T
<1>3. ~K.rc.on
  <2>1. i \in Alive(c)
    BY DEF Alive
  <2> QED BY <2>1 DEF Coherent, CachesRc, Packing
<1>4. Holding(D, T, i)
  BY <1>2, <1>3 DEF Idle, Holding
<1>5. \A j \in Ids(c) : j >= i + 1 /\ Waiting(NodeAt(c, j)) /\ NodeAt(c, j).in[1] < i + 1
                        => NodeAt(c, j).in[1] \in DOMAIN D.cmp
  <2> SUFFICES ASSUME NEW j \in Ids(c), j >= i + 1, Waiting(NodeAt(c, j)), NodeAt(c, j).in[1] < i + 1,
                      NodeAt(c, j).in[1] # i
               PROVE  FALSE
    OBVIOUS
  <2>1. NodeAt(c, j).in[1] \in Ids(c)
    BY DEF Paired
  <2>2. NodeAt(c, j).in[1] < i /\ j >= i
    BY <2>1 DEF Ids
  <2> QED BY <2>2 DEF Coherent, Idle
<1>6. Coherent(c, D, T, i + 1)
  BY <1>4, <1>5 DEF Coherent
<1> QED BY <1>2, <1>6 DEF T

\* After the FSTSW that waited for it.
LEMMA CoherentFetched ==
  ASSUME NEW c, Wellformed(c), Paired(c), NEW i \in Ids(c), ~Dead(NodeAt(c, i)), NEW pinned \in Int,
         NEW K, NEW Q, Kept4(Q), Coherent(c, K, Q, i),
         Waiting(NodeAt(c, i)), Holding(K, Q, NodeAt(c, i).in[1]),
         NEW D, D.rc.on = K.rc.on, D.gprs = {3, 4, 5, 7}, DOMAIN D.cmp = {}
  PROVE  Coherent(c, D, CountGprs(c, pinned, Q, i), i + 1) /\ Kept4(CountGprs(c, pinned, Q, i))
<1> DEFINE T == CountGprs(c, pinned, Q, i)
<1>1. ~Packing(NodeAt(c, i))
  BY DEF Packing, Waiting, Compares
<1>2. T.held = Q.held - 1 /\ Kept4(T)
  BY <1>1, CountGprsIs
<1> HIDE DEF T
<1>3. Idle(D, T)
  BY <1>2 DEF Idle, Holding
<1>4. \A j \in Ids(c) : ~(j >= i + 1 /\ Waiting(NodeAt(c, j)) /\ NodeAt(c, j).in[1] < i + 1)
  <2> SUFFICES ASSUME NEW j \in Ids(c), j >= i + 1, Waiting(NodeAt(c, j)), NodeAt(c, j).in[1] < i + 1
               PROVE  FALSE
    OBVIOUS
  <2>1. NodeAt(c, j).in[1] \in Ids(c) /\ NodeAt(c, j).in[1] # i
    BY <1>1 DEF Paired
  <2>2. NodeAt(c, j).in[1] < i /\ j >= i /\ j # i
    BY <2>1 DEF Ids
  <2>3. NodeAt(c, j).in[1] = NodeAt(c, i).in[1]
    BY <2>2 DEF Coherent, Holding
  <2> QED BY <2>1, <2>2, <2>3 DEF Paired, Waiting
<1>5. Coherent(c, D, T, i + 1)
  BY <1>3, <1>4 DEF Coherent, Holding
<1> QED BY <1>2, <1>5 DEF T

-----------------------------------------------------------------------------
(* One turn of lowering beside the two counts *)

\* A node is used no later than last says.
LastOk(c) == /\ \A n \in Ids(c) : c.last[n] \in Int
             /\ \A n \in Ids(c), j \in Alive(c) : UsesBy(c, j, n) # {} => c.last[n] >= j

\* What has a value when the walk has come to node k: a node before it, or the
\* last product of a reduction that began before it.
Resident(c, m, k) ==
  \/ m < k /\ Holder(NodeAt(c, m)) /\ ~Headed(NodeAt(c, m))
  \/ \E h \in Alive(c) : Headed(NodeAt(c, h)) /\ h < k /\ m = ChainTail(c, h)

\* The walk over nodes has come to k with K, and the counts with Z and Q.
Ready(F, K) == Fields \subseteq DOMAIN K /\ ~K.starved /\ Placed(F, K)
Goes(c, F, K, Z, Q, k) ==
  /\ Ready(F, K) /\ DOMAIN K.node = Ids(c)
  /\ Tallied(c, Z) /\ HeldBy(K) \subseteq Z.hold
  /\ \A m \in HeldBy(K) : Resident(c, m, k)
  /\ K.next \in Int
  /\ \A j \in Ids(c) : j >= k /\ j < K.next =>
       NodeAt(c, j).op = "StoreF32" /\ HeldBy(K) \cap EndedAt(c, j) = {}
  /\ Kept4(Q) /\ Coherent(c, K, Q, k)

LEMMA EndsIs ==
  ASSUME NEW c, NEW i, NEW m \in Ids(c)
  PROVE  Ends(c, i, m) <=> m \in EndedAt(c, i)
BY DEF Ends, EndedAt

LEMMA ResidentLater ==
  ASSUME NEW c, NEW m, NEW k \in Int, Resident(c, m, k), m \in Int, Alive(c) \subseteq Int
  PROVE  Resident(c, m, k + 1)
BY DEF Resident

\* Room for x more registers, if the count has room for them.
LEMMA FprRoom ==
  ASSUME NEW c, NEW F, Holds(F, 0), NEW K, Placed(F, K), NEW Z, Tallied(c, Z), HeldBy(K) \subseteq Z.hold,
         NEW x \in Nat, Cardinality(Z.hold) + x <= Cardinality(F)
  PROVE  Holds(K.fprs, x)
<1>1. /\ Holds(K.fprs, 0) /\ Cardinality(Z.hold) \in Nat /\ Cardinality(F) \in Nat
      /\ Cardinality(K.fprs) >= Cardinality(F) - Cardinality(Z.hold)
  BY PlacesCounted DEF Tallied
<1>2. Cardinality(K.fprs) \in Nat
  BY <1>1, FS_CardinalityType DEF Holds
<1>3. Cardinality(K.fprs) >= x
  BY <1>1, <1>2
<1> QED BY <1>1, <1>3 DEF Holds

\* What is not lowered on its own keeps no value that the count lets go.
LEMMA SkippedIs ==
  ASSUME NEW c, Wellformed(c), Reduced(c), NEW k \in Alive(c),
         Member(NodeAt(c, k)), ~Headed(NodeAt(c, k)),
         NEW m \in Ids(c), Resident(c, m, k)
  PROVE  ~Ends(c, k, m) /\ ~Packing(NodeAt(c, k)) /\ ~Waiting(NodeAt(c, k))
<1>1. k \in Ids(c) /\ Chained(c, k) /\ Formed(NodeAt(c, k), k)
  BY DEF Alive, Reduced, Wellformed
<1>2. NodeAt(c, k).op \in Loads \/ NodeAt(c, k).op = "FMAdd"
  BY <1>1 DEF Chained, Link
<1>3. ~Packing(NodeAt(c, k)) /\ ~Waiting(NodeAt(c, k))
  BY <1>2 DEF Packing, Waiting, Loads, Compares
<1>4. \A j \in 1..3 : NodeAt(c, k).in[j] # m
  <2>1. CASE NodeAt(c, k).op \in Loads
    <3>1. m # None
      BY DEF Ids, None
    <3> QED BY <1>1, <2>1, <3>1 DEF Formed
  <2>2. CASE NodeAt(c, k).op \notin Loads
    <3>1. /\ Link(c, k) /\ Link(c, NodeAt(c, k).in[3])
          /\ \A j \in 1..2 : Member(NodeAt(c, NodeAt(c, k).in[j]))
               /\ NodeAt(c, NodeAt(c, k).in[j]).op \in Loads
      BY <1>1, <2>2 DEF Chained
    <3>2. CASE m < k /\ Holder(NodeAt(c, m)) /\ ~Headed(NodeAt(c, m))
      <4>1. ~Member(NodeAt(c, m))
        BY <3>2 DEF Holder, Headed
      <4> QED BY <3>1, <4>1 DEF Link
    <3>3. ASSUME NEW h \in Alive(c), Headed(NodeAt(c, h)), m = ChainTail(c, h)
          PROVE \A j \in 1..3 : NodeAt(c, k).in[j] # m
      <4>1. Link(c, m) /\ NodeAt(c, k).in[3] # m
        BY <3>1, <3>3, TailIs
      <4>2. NodeAt(c, m).op \notin Loads
        BY <4>1 DEF Link, Loads
      <4> QED BY <3>1, <4>1, <4>2
    <3> QED BY <3>2, <3>3 DEF Resident
  <2> QED BY <2>1, <2>2
<1> QED BY <1>3, <1>4 DEF Ends, UsesBy

\* A node that is lowered has no value yet, nor has the one its value is to be.
LEMMA FreshIs ==
  ASSUME NEW c, Wellformed(c), Reduced(c), NEW k \in Alive(c),
         Member(NodeAt(c, k)) => Headed(NodeAt(c, k)),
         NEW m \in Ids(c), Resident(c, m, k)
  PROVE  m # k /\ m \notin Brings(c, k)
<1>1. k \in Int /\ m \in Int
  BY DEF Alive, Ids
<1>2. m # k
  <2>1. CASE m < k
    BY <1>1, <2>1
  <2>2. ASSUME NEW h \in Alive(c), Headed(NodeAt(c, h)), h < k, m = ChainTail(c, h), m = k PROVE FALSE
    <3>1. Link(c, k) /\ (k = h \/ ~Headed(NodeAt(c, k)))
      BY <2>2, TailIs
    <3>2. h # k
      BY <1>1, <2>2 DEF Alive, Ids
    <3> QED BY <3>1, <3>2 DEF Link
  <2> QED BY <2>1, <2>2 DEF Resident
<1>3. Headed(NodeAt(c, k)) => m # ChainTail(c, k)
  <2> SUFFICES ASSUME Headed(NodeAt(c, k)) PROVE m # ChainTail(c, k)
    OBVIOUS
  <2>1. ChainTail(c, k) >= k /\ ChainTail(c, k) \in Ids(c)
    BY TailIs DEF Link
  <2>2. CASE m < k
    BY <1>1, <2>1, <2>2 DEF Ids
  <2>3. ASSUME NEW h \in Alive(c), Headed(NodeAt(c, h)), h < k, m = ChainTail(c, h)
        PROVE  m # ChainTail(c, k)
    <3>1. h # k
      BY <1>1, <2>3 DEF Alive, Ids
    <3> QED BY <2>3, <3>1, TailsDiffer
  <2> QED BY <2>2, <2>3 DEF Resident
<1> QED BY <1>2, <1>3 DEF Brings

\* What a node brings has a value from then on.
LEMMA BroughtStay ==
  ASSUME NEW c, Wellformed(c), Reduced(c), NEW k \in Alive(c), NEW m \in Brings(c, k)
  PROVE  m \in Ids(c) /\ Resident(c, m, k + 1)
<1>1. k \in Ids(c) /\ k < k + 1
  BY DEF Alive, Ids
<1>2. CASE Headed(NodeAt(c, k))
  <2>1. m = ChainTail(c, k) /\ Link(c, m)
    BY <1>2, TailIs DEF Brings
  <2> QED BY <1>1, <1>2, <2>1 DEF Resident, Link
<1>3. CASE ~Headed(NodeAt(c, k))
  <2>1. m = k /\ Holder(NodeAt(c, k))
    BY <1>3 DEF Brings
  <2> QED BY <1>1, <1>3, <2>1 DEF Resident
<1> QED BY <1>2, <1>3

\* A node the walk passes over: dead, part of a group, or of a reduction.
LEMMA PassedOver ==
  ASSUME NEW c, Wellformed(c), Reduced(c), Paired(c), NEW k \in Ids(c), NEW pinned \in Int,
         NEW F, NEW K, NEW Z, NEW Q, Goes(c, F, K, Z, Q, k),
         k < K.next \/ Dead(NodeAt(c, k)) \/ (Member(NodeAt(c, k)) /\ ~Headed(NodeAt(c, k)))
  PROVE  Goes(c, F, K, CountFprs(c, Z, k), CountGprs(c, pinned, Q, k), k + 1)
<1> DEFINE T == CountFprs(c, Z, k)
           R == CountGprs(c, pinned, Q, k)
           n == NodeAt(c, k)
<1>1. k \in Int /\ k + 1 \in Int /\ Alive(c) \subseteq Int /\ HeldBy(K) \subseteq Ids(c)
          /\ Ids(c) \subseteq Int
  BY DEF Goes, HeldBy, Alive, Ids
<1>2. \A m \in HeldBy(K) : Resident(c, m, k + 1)
  BY <1>1, ResidentLater DEF Goes
<1>3. \A j \in Ids(c) : j >= k + 1 /\ j < K.next =>
        NodeAt(c, j).op = "StoreF32" /\ HeldBy(K) \cap EndedAt(c, j) = {}
  BY <1>1 DEF Goes
<1>4. ~Dead(n) => /\ ~Packing(n) /\ ~Waiting(n) /\ \A m \in HeldBy(K) : ~Ends(c, k, m)
                  /\ k >= K.next => Member(n) /\ ~Headed(n)
  <2> SUFFICES ASSUME ~Dead(n)
               PROVE  /\ ~Packing(n) /\ ~Waiting(n) /\ \A m \in HeldBy(K) : ~Ends(c, k, m)
                      /\ k >= K.next => Member(n) /\ ~Headed(n)
    OBVIOUS
  <2>1. K.next \in Int
    BY DEF Goes
  <2>2. CASE k < K.next
    <3>1. n.op = "StoreF32" /\ HeldBy(K) \cap EndedAt(c, k) = {}
      BY <1>1, <2>2 DEF Goes
    <3>2. ~Packing(n) /\ ~Waiting(n)
      BY <3>1 DEF Packing, Waiting, Compares
    <3>3. \A m \in HeldBy(K) : ~Ends(c, k, m)
      BY <1>1, <3>1, EndsIs
    <3>4. ~(k >= K.next)
      BY <1>1, <2>1, <2>2
    <3> QED BY <3>2, <3>3, <3>4
  <2>3. CASE ~(k < K.next)
    <3>1. k \in Alive(c) /\ Member(n) /\ ~Headed(n)
      BY <2>3 DEF Alive
    <3>2. \A m \in HeldBy(K) : ~Ends(c, k, m)
      BY <1>1, <3>1, SkippedIs DEF Goes
    <3>3. ~Packing(n) /\ ~Waiting(n)
      <4>1. Chained(c, k)
        BY DEF Reduced
      <4>2. n.op \in Loads \/ n.op = "FMAdd"
        BY <3>1, <4>1 DEF Chained, Link
      <4> QED BY <4>2 DEF Packing, Waiting, Loads, Compares
    <3> QED BY <3>1, <3>2, <3>3
  <2> QED BY <2>2, <2>3
<1>5. Tallied(c, T) /\ HeldBy(K) \subseteq T.hold
  <2>0. Tallied(c, Z) /\ HeldBy(K) \subseteq Z.hold
    BY DEF Goes
  <2>1. CASE Dead(n)
    <3>1. T = Z
      BY <2>1 DEF CountFprs
    <3> HIDE DEF T
    <3> QED BY <2>0, <3>1
  <2>2. CASE ~Dead(n)
    <3>1. Tallied(c, T) /\ {m \in (Z.hold \ {k}) \cup Brings(c, k) : ~Ends(c, k, m)} \subseteq T.hold
          /\ (~Headed(n) => {m \in Z.hold \cup Brings(c, k) : ~Ends(c, k, m)} \subseteq T.hold)
      BY <2>0, <2>2, CountIs
    <3>2. ~Headed(n)
      <4>1. CASE k < K.next
        <5>1. n.op = "StoreF32"
          BY <1>1, <4>1 DEF Goes
        <5>2. Chained(c, k)
          BY DEF Reduced
        <5> QED BY <5>1, <5>2 DEF Chained, Link
      <4> QED BY <2>2, <4>1
    <3> HIDE DEF T
    <3> QED BY <1>4, <2>0, <2>2, <3>1, <3>2
  <2> QED BY <2>1, <2>2
<1>6. Coherent(c, K, R, k + 1) /\ Kept4(R)
  <2>1. Dead(n) \/ (~Packing(n) /\ ~Waiting(n))
    BY <1>4
  <2> QED BY <2>1, CoherentOn DEF Goes
<1> HIDE DEF T, R
<1>7. Goes(c, F, K, T, R, k + 1)
  BY <1>2, <1>3, <1>5, <1>6 DEF Goes
<1> QED BY <1>7 DEF T, R

-----------------------------------------------------------------------------
(* A node that is lowered *)

\* D is K lowered, with the values new of its own.
Lowered(c, F, K, D, new) ==
  /\ DOMAIN D = DOMAIN K /\ D.starved = K.starved /\ D.rc.on = K.rc.on /\ D.next = K.next
  /\ Placed(F, D) /\ DOMAIN D.node = DOMAIN K.node /\ HeldBy(D) \subseteq HeldBy(K) \cup new

LEMMA ServesLowered ==
  ASSUME NEW c, NEW F, NEW K, NEW D, NEW new, Serves(F, K, D, new), D.next = K.next
  PROVE  Lowered(c, F, K, D, new) /\ D.gprs = K.gprs /\ D.cmp = K.cmp
BY DEF Serves, Steady, Lowered

\* What a state has at node k, as the walk hands it on.
LEMMA AtNode ==
  ASSUME NEW F, NEW K, Ready(F, K), NEW k
  PROVE  LET B == [K EXCEPT !.next = k]
         IN  /\ Ready(F, B) /\ HeldBy(B) = HeldBy(K) /\ B.node = K.node /\ B.fprs = K.fprs
             /\ B.gprs = K.gprs /\ B.cmp = K.cmp /\ B.rc = K.rc /\ B.starved = K.starved
             /\ DOMAIN B = DOMAIN K /\ B.next = k
<1> DEFINE B == [K EXCEPT !.next = k]
<1>1. /\ B.node = K.node /\ B.fprs = K.fprs /\ B.gprs = K.gprs /\ B.cmp = K.cmp /\ B.rc = K.rc
      /\ B.starved = K.starved /\ DOMAIN B = DOMAIN K /\ B.next = k
  BY DEF Ready, Fields, PoolFields
<1> HIDE DEF B
<1>2. Placed(F, B) /\ HeldBy(B) = HeldBy(K)
  BY <1>1, SamePlaces DEF Ready
<1> QED BY <1>1, <1>2 DEF Ready, B

\* Values that want a register, by the counts.
LEMMA ValueLowered ==
  ASSUME NEW c, Wellformed(c), Reduced(c), NEW k \in Alive(c), NEW F, Holds(F, 0), NEW K,
         Ready(F, K), DOMAIN K.node = Ids(c), k \notin HeldBy(K), NEW Z, Tallied(c, Z),
         HeldBy(K) \subseteq Z.hold,
         CountFprs(c, Z, k).peak <= Cardinality(F),
         NodeAt(c, k).op \in ValueOps, Member(NodeAt(c, k)) => Headed(NodeAt(c, k)),
         Headed(NodeAt(c, k)) => ChainTail(c, k) \notin HeldBy(K),
         Holds(K.gprs, Transient(NodeAt(c, k), K.rc.on)), K.rc.on \/ RcPlace \in K.gprs
  PROVE  LET D == lower_node(c, K, k)
         IN  Serves(F, K, D, Brings(c, k)) /\ D.next = K.next
<1> DEFINE n == NodeAt(c, k)
           D == lower_node(c, K, k)
           h == Cardinality(Z.hold)
           b == Beside(c, Z, k)
           T == CountFprs(c, Z, k)
<1>1. k \in Ids(c) /\ ~Dead(n) /\ k \in DOMAIN K.node
  BY DEF Alive
<1>2. Holder(n)
  BY DEF Holder, Headed
<1>3. /\ h \in Nat /\ b \in Nat /\ h + 1 + b <= T.peak /\ T.peak \in Int
      /\ n.op \in Cores => /\ ~Headed(n) /\ IsFiniteSet({m \in Z.hold : ~Ends(c, k, m)})
                           /\ Cardinality({m \in Z.hold : ~Ends(c, k, m)}) + Spike(n.op) <= T.peak
                           /\ h + CopyCount(n.op) <= T.peak
  BY <1>1, <1>2, CountIs DEF Tallied
<1>4. Cardinality(F) \in Nat
  BY FS_CardinalityType DEF Holds
<1>5. Holds(K.fprs, 1 + b)
  <2>1. h + (1 + b) <= Cardinality(F)
    BY <1>3, <1>4
  <2> HIDE DEF b
  <2>2. 1 + b \in Nat
    BY <1>3
  <2> QED BY <2>1, <2>2, FprRoom DEF Ready
<1>6. Holds(K.fprs, 1)
  <2> HIDE DEF b
  <2> QED BY <1>3, <1>5, FewerHeld
<1>7. CASE Headed(n)
  <2>1. n.op = "FMAdd" /\ b = 2
    <3>1. Chained(c, k)
      BY <1>1 DEF Reduced
    <3> QED BY <1>7, <3>1 DEF Chained, Link, Beside, Headed
  <2>2. D = lower_fma_reduce(c, K, k)
    <3>1. n.op \in Arithmetic
      BY <2>1 DEF Arithmetic, Fmas, Trigs
    <3> QED BY <1>7, <3>1, NodeIs DEF Headed
  <2>3. Last(MemberChain(c, k)) = ChainTail(c, k) /\ ChainTail(c, k) \in Ids(c)
    BY <1>7, ChainIs, TailIs DEF Link
  <2>4. Holds(K.fprs, 3) /\ Holds(K.gprs, 1)
    <3>1. Transient(n, K.rc.on) = 1
      BY <1>7, <2>1, TransientIs DEF Headed
    <3> QED BY <1>5, <2>1, <3>1
  <2> QED BY <1>7, <2>2, <2>3, <2>4, ReduceServes DEF Ready, Brings
<1>8. CASE ~Headed(n) /\ n.op \in Cores
  <2> DEFINE H == {m \in Z.hold : ~Ends(c, k, m)}
  <2>1. IsFiniteSet(H) /\ Cardinality(H) + Spike(n.op) <= T.peak /\ h + CopyCount(n.op) <= T.peak
    BY <1>3, <1>8
  <2>2. HeldBy(K) \ EndedAt(c, k) \subseteq H
    BY EndsIs DEF Tallied
  <2>3. CopyCount(n.op) \in Nat /\ Spike(n.op) \in Nat /\ Cardinality(H) \in Nat
    BY <2>1, FS_CardinalityType DEF CopyCount, Spike
  <2>4. Holds(K.fprs, CopyCount(n.op))
    <3>1. h + CopyCount(n.op) <= Cardinality(F)
      BY <1>3, <1>4, <2>1, <2>3
    <3> QED BY <2>3, <3>1, FprRoom DEF Ready
  <2>5. Cardinality(F) - Cardinality(H) >= Spike(n.op)
    BY <1>3, <1>4, <2>1, <2>3
  <2>6. Brings(c, k) = {k}
    BY <1>2, <1>8 DEF Brings
  <2> HIDE DEF H
  <2> QED BY <1>1, <1>8, <2>1, <2>2, <2>4, <2>5, <2>6, CoreServes DEF Ready
<1>9. CASE ~Headed(n) /\ n.op \notin Cores
  <2>1. Brings(c, k) = {k}
    BY <1>2, <1>9 DEF Brings
  <2> QED BY <1>1, <1>6, <1>9, <2>1, ValueServes DEF Ready, Headed
<1> QED BY <1>7, <1>8, <1>9

LEMMA StoreF64Serves ==
  ASSUME NEW c, NEW L, Holds(L.gprs, 1), NEW i
  PROVE  SamePools(L, lower_StoreF64(c, L, i))
<1>1. Scratch(L, 1) = L
  BY ScratchStays
<1>2. Stays(L, lower_StoreF64(c, L, i))
  BY <1>1, GuestStays DEF lower_StoreF64
<1> QED BY <1>2, StaysSamePools

\* What is done for the guest keeps no register, but for a comparison whose
\* result an FSTSW fetches.
LEMMA ActLowered ==
  ASSUME NEW c, Wellformed(c), Reduced(c), Paired(c), NEW k \in Alive(c), NEW F, Holds(F, 0),
         NEW pinned \in Int, NEW K, NEW Z, NEW Q, Ready(F, K), DOMAIN K.node = Ids(c),
         Tallied(c, Z), HeldBy(K) \subseteq Z.hold, Kept4(Q), Coherent(c, K, Q, k),
         CountFprs(c, Z, k).peak <= Cardinality(F),
         CountGprs(c, pinned, Q, k).peak <= pinned + IF K.rc.on THEN 3 ELSE 4,
         NodeAt(c, k).op \in EffectOps \ {"StoreF32"}
  PROVE  LET D == lower_node(c, K, k)
             R == CountGprs(c, pinned, Q, k)
         IN  Lowered(c, F, K, D, {}) /\ Coherent(c, D, R, k + 1) /\ Kept4(R)
<1> DEFINE n == NodeAt(c, k)
           D == lower_node(c, K, k)
           R == CountGprs(c, pinned, Q, k)
           t == Transient(n, K.rc.on)
<1>1. k \in Ids(c) /\ ~Dead(n)
  BY DEF Alive
<1>2. /\ ~Waiting(n) => Holds(K.gprs, t)
      /\ Packing(n) => Idle(K, Q) /\ K.gprs = {3, 4, 5, 7}
      /\ Waiting(n) => Holding(K, Q, n.in[1])
  BY <1>1, RoomIs
<1>3. Fields \subseteq DOMAIN K /\ Placed(F, K)
  BY DEF Ready
<1>4. ASSUME SamePools(K, D), ~Packing(n), ~Waiting(n)
      PROVE  Lowered(c, F, K, D, {}) /\ Coherent(c, D, R, k + 1) /\ Kept4(R)
  <2>1. Lowered(c, F, K, D, {}) /\ D.gprs = K.gprs /\ D.cmp = K.cmp
    BY <1>3, <1>4, SamePoolsServe, ServesLowered
  <2>2. D.rc.on = K.rc.on
    BY <2>1 DEF Lowered
  <2> HIDE DEF D, R
  <2>3. Coherent(c, D, CountGprs(c, pinned, Q, k), k + 1) /\ Kept4(CountGprs(c, pinned, Q, k))
    BY <1>1, <1>4, <2>1, <2>2, CoherentOn
  <2> QED BY <2>1, <2>3 DEF R
<1>5. ASSUME Beyond(K, D) PROVE Lowered(c, F, K, D, {})
  <2>1. Placed(F, D) /\ HeldBy(D) = HeldBy(K)
    BY <1>3, <1>5, SamePlaces DEF Beyond
  <2> QED BY <1>5, <2>1 DEF Beyond, Lowered
<1>6. CASE n.op = "StoreF64"
  <2>1. ~Packing(n) /\ ~Waiting(n) /\ t = 1
    BY <1>6, TransientIs DEF Packing, Waiting, Compares
  <2>2. D = lower_StoreF64(c, K, k)
    BY <1>6, NodeIs
  <2> QED BY <1>2, <1>4, <2>1, <2>2, StoreF64Serves
<1>7. CASE n.op \in IntStores
  <2>1. ~Packing(n) /\ ~Waiting(n) /\ t = 2
    BY <1>7, TransientIs DEF Packing, Waiting, Compares, IntStores
  <2>2. D = lower_StoreI(c, K, k)
    BY <1>7, NodeIs
  <2>3. Holds(K.fprs, 1)
    <3>1. Beside(c, Z, k) = 1 /\ ~Holder(n)
      <4>1. n.op \notin ValueOps /\ n.op # "StoreF32"
        BY <1>7 DEF IntStores, ValueOps, Loads, Consts, Binaries, Fmas, Unaries, Trigs
      <4>2. ~Headed(n)
        <5>1. Chained(c, k)
          BY <1>1 DEF Reduced
        <5> QED BY <1>7, <5>1 DEF Chained, Link, IntStores
      <4> QED BY <1>7, <4>1, <4>2 DEF Beside, Holder, Headed
    <3>2. Cardinality(Z.hold) + 1 <= CountFprs(c, Z, k).peak /\ Cardinality(Z.hold) \in Nat
          /\ CountFprs(c, Z, k).peak \in Int
      <4> DEFINE b == Beside(c, Z, k)
      <4>1. b = 1 /\ b > 0
        BY <3>1
      <4>2. /\ Tallied(c, CountFprs(c, Z, k)) /\ Cardinality(Z.hold) \in Nat
            /\ Cardinality(Z.hold) + b <= CountFprs(c, Z, k).peak
        BY <1>1, <3>1, <4>1, CountIs
      <4> QED BY <4>1, <4>2 DEF Tallied
    <3>3. Cardinality(F) \in Nat
      BY FS_CardinalityType DEF Holds
    <3>4. Cardinality(Z.hold) + 1 <= Cardinality(F)
      BY <3>2, <3>3
    <3> QED BY <1>3, <3>4, FprRoom
  <2> QED BY <1>2, <1>3, <1>4, <2>1, <2>2, <2>3, StoreIServes
<1>8. CASE n.op \in Compares
  <2>1. ~Waiting(n) /\ t = 4
    BY <1>8, TransientIs DEF Waiting, Compares
  <2>2. D = lower_compare(c, K, k)
    BY <1>8, NodeIs
  <2>5. Holds(K.gprs, 4)
    BY <1>2, <2>1
  <2>6. /\ ~Fused(n) => SamePools(K, D)
        /\ Fused(n) /\ K.gprs = {3, 4, 5, 7} =>
             Beyond(K, D) /\ D.gprs = {3, 5, 7} /\ DOMAIN D.cmp = {k} \cup DOMAIN K.cmp /\ D.cmp[k].reg = 4
    BY <1>3, <2>2, <2>5, ComparedPlain, ComparedPacked
  <2>3. CASE ~Fused(n)
    <3>1. ~Packing(n)
      BY <2>3 DEF Packing
    <3>2. SamePools(K, D)
      BY <2>3, <2>6
    <3> QED BY <1>4, <2>1, <3>1, <3>2
  <2>4. CASE Fused(n)
    <3>1. Packing(n)
      BY <1>8, <2>4 DEF Packing
    <3>2. Beyond(K, D) /\ D.gprs = {3, 5, 7} /\ DOMAIN D.cmp = {k} \cup DOMAIN K.cmp /\ D.cmp[k].reg = 4
      BY <1>2, <2>4, <2>6, <3>1
    <3>3. D.rc.on = K.rc.on
      BY <3>2 DEF Beyond
    <3>4. Lowered(c, F, K, D, {})
      BY <1>5, <3>2
    <3> HIDE DEF D, R
    <3>5. Coherent(c, D, CountGprs(c, pinned, Q, k), k + 1) /\ Kept4(CountGprs(c, pinned, Q, k))
      BY <1>1, <1>2, <3>1, <3>2, <3>3, CoherentPacked
    <3> QED BY <3>4, <3>5 DEF R, D
  <2> QED BY <2>3, <2>4
<1>9. CASE n.op = "FStsw"
  <2>1. ~Packing(n)
    BY <1>9 DEF Packing, Compares
  <2>2. D = lower_FStsw(c, K, k)
    BY <1>9, NodeIs
  <2>3. CASE ~Fused(n)
    <3>1. ~Waiting(n) /\ t = 2
      BY <1>9, <2>3, TransientIs DEF Waiting
    <3>2. SamePools(K, D)
      BY <1>2, <1>3, <2>2, <2>3, <3>1, StatusServes
    <3> QED BY <1>4, <2>1, <3>1, <3>2
  <2>4. CASE Fused(n)
    <3>1. Waiting(n)
      BY <1>9, <2>4 DEF Waiting
    <3>2. Holding(K, Q, n.in[1])
      BY <1>2, <3>1
    <3>3. Beyond(K, D) /\ D.gprs = {3, 4, 5, 7} /\ DOMAIN D.cmp = {}
      BY <1>3, <2>2, <2>4, <3>2, StatusServes DEF Holding
    <3>4. D.rc.on = K.rc.on
      BY <3>3 DEF Beyond
    <3>5. Lowered(c, F, K, D, {})
      BY <1>5, <3>3
    <3> HIDE DEF D, R
    <3>6. Coherent(c, D, CountGprs(c, pinned, Q, k), k + 1) /\ Kept4(CountGprs(c, pinned, Q, k))
      BY <1>1, <3>1, <3>2, <3>3, <3>4, CoherentFetched
    <3> QED BY <3>5, <3>6 DEF R, D
  <2> QED BY <2>3, <2>4
<1>10. CASE n.op = "StoreCW"
  <2>1. ~Packing(n) /\ ~Waiting(n) /\ t = 2
    BY <1>10, TransientIs DEF Packing, Waiting, Compares
  <2>2. D = lower_StoreCW(c, K, k)
    BY <1>10, NodeIs
  <2> QED BY <1>2, <1>3, <1>4, <2>1, <2>2, StoreCWServes
<1>11. CASE n.op \in BridgeOps \cup {"FComI", "LoadCW"}
  <2>1. ~Packing(n) /\ ~Waiting(n)
    BY <1>11 DEF Packing, Waiting, Compares, BridgeOps
  <2>2. D = lower_effect(c, K, k)
    BY <1>11, NodeIs
  <2> QED BY <1>2, <1>3, <1>4, <1>11, <2>1, <2>2, EffectServes
<1> QED BY <1>6, <1>7, <1>8, <1>9, <1>10, <1>11 DEF EffectOps, Stores

\* After a node, the registers of values that were used for the last time are
\* given back, and the walk goes on.
HandOn(c, D) == [free_dead_inputs(c, D, D.next) EXCEPT !.next = D.next + 1]
LEMMA HandedOn ==
  ASSUME NEW c, NEW F, NEW K, NEW D, NEW new, Ready(F, K), Lowered(c, F, K, D, new)
  PROVE  LET T == HandOn(c, D)
         IN  /\ Ready(F, T) /\ DOMAIN T.node = DOMAIN K.node /\ T.next = D.next + 1
             /\ HeldBy(T) \subseteq (HeldBy(K) \cup new) \ EndedAt(c, D.next)
             /\ T.rc.on = D.rc.on /\ T.gprs = D.gprs /\ T.cmp = D.cmp
<1> DEFINE E == free_dead_inputs(c, D, D.next)
           T == HandOn(c, D)
<1>1. Fields \subseteq DOMAIN D /\ Placed(F, D) /\ ~D.starved /\ DOMAIN D.node = DOMAIN K.node
  BY DEF Lowered, Ready
<1>2. Frees(F, D, E, EndedAt(c, D.next))
  BY <1>1, FreeAll
<1>4. T = [E EXCEPT !.next = D.next + 1]
  BY DEF HandOn
<1> HIDE DEF E, T
<1>3. /\ DOMAIN E = DOMAIN D /\ E.starved = D.starved /\ E.gprs = D.gprs /\ E.cmp = D.cmp
           /\ E.rc.on = D.rc.on
      /\ DOMAIN E.node = DOMAIN D.node /\ Placed(F, E) /\ HeldBy(E) = HeldBy(D) \ EndedAt(c, D.next)
  BY <1>2 DEF Frees, Steady
<1>5. /\ DOMAIN T = DOMAIN E /\ T.starved = E.starved /\ T.gprs = E.gprs /\ T.cmp = E.cmp /\ T.rc = E.rc
      /\ T.node = E.node /\ T.fprs = E.fprs /\ T.next = D.next + 1
  BY <1>1, <1>3, <1>4 DEF Fields, PoolFields
<1>6. Placed(F, T) /\ HeldBy(T) = HeldBy(E)
  BY <1>3, <1>5, SamePlaces
<1>7. HeldBy(T) \subseteq (HeldBy(K) \cup new) \ EndedAt(c, D.next)
  BY <1>3, <1>6 DEF Lowered
<1>8. Ready(F, T)
  BY <1>1, <1>3, <1>5, <1>6 DEF Ready
<1> QED BY <1>1, <1>3, <1>5, <1>7, <1>8 DEF T

\* Within the room both counts allow, a turn leaves things as they should be.
Room(c, F, pinned, Z, Q, k) ==
  /\ CountFprs(c, Z, k).peak <= Cardinality(F)
  /\ CountGprs(c, pinned, Q, k).peak <= pinned + IF CachesRc(c) THEN 3 ELSE 4

\* A node lowered on its own.
LEMMA LoweredGoes ==
  ASSUME NEW c, Wellformed(c), Reduced(c), Paired(c), NEW k \in Alive(c),
         NEW F, Holds(F, 0), NEW pinned \in Int, NEW K, NEW Z, NEW Q, Goes(c, F, K, Z, Q, k),
         Room(c, F, pinned, Z, Q, k), ~(k < K.next), NodeAt(c, k).op # "StoreF32",
         Member(NodeAt(c, k)) => Headed(NodeAt(c, k))
  PROVE  Goes(c, F, NodeTurn(c, 0, 0, K, k), CountFprs(c, Z, k), CountGprs(c, pinned, Q, k), k + 1)
<1> DEFINE n == NodeAt(c, k)
           B == [K EXCEPT !.next = k]
           D == lower_node(c, B, k)
           T == NodeTurn(c, 0, 0, K, k)
           W == CountFprs(c, Z, k)
           R == CountGprs(c, pinned, Q, k)
<1>1. k \in Ids(c) /\ ~Dead(n) /\ k \in Int /\ HeldBy(K) \subseteq Ids(c) /\ Ids(c) \subseteq Int
          /\ Alive(c) \subseteq Int
  BY DEF Goes, Alive, Ids, HeldBy
<1>2. T = HandOn(c, D)
  BY <1>1 DEF NodeTurn, Headed, HandOn
<1>3. /\ Ready(F, B) /\ HeldBy(B) = HeldBy(K) /\ B.node = K.node /\ B.gprs = K.gprs
      /\ B.cmp = K.cmp /\ B.rc = K.rc /\ B.next = k /\ DOMAIN B.node = Ids(c)
  BY AtNode DEF Goes
<1>4. Coherent(c, B, Q, k) /\ B.rc.on = CachesRc(c)
  BY <1>3 DEF Goes, Coherent, Idle, Holding
<1>5. \A m \in HeldBy(K) : m # k /\ m \notin Brings(c, k)
  BY <1>1, FreshIs DEF Goes
<1>6. Tallied(c, Z) /\ HeldBy(B) \subseteq Z.hold /\ Kept4(Q)
  BY <1>3 DEF Goes
<1> HIDE DEF B, T
<1>7. Lowered(c, F, B, D, Brings(c, k)) /\ Coherent(c, D, R, k + 1) /\ Kept4(R)
  <2>1. CASE n.op \in ValueOps
    <3>1. ~Packing(n) /\ ~Waiting(n)
      BY <2>1 DEF Packing, Waiting, Compares, ValueOps, Loads, Consts, Binaries, Fmas, Unaries, Trigs
    <3>2. (B.rc.on \/ RcPlace \in B.gprs) /\ Holds(B.gprs, Transient(n, B.rc.on))
      BY <1>1, <1>4, <1>6, <3>1, RoomIs DEF Room
    <3>3. Headed(n) => ChainTail(c, k) \notin HeldBy(B)
      BY <1>3, <1>5 DEF Brings
    <3>4. Serves(F, B, D, Brings(c, k)) /\ D.next = B.next
      BY <1>3, <1>5, <1>6, <2>1, <3>2, <3>3, ValueLowered DEF Room
    <3>5. Lowered(c, F, B, D, Brings(c, k)) /\ D.gprs = B.gprs /\ D.cmp = B.cmp
      BY <3>4, ServesLowered
    <3>6. D.rc.on = B.rc.on
      BY <3>5 DEF Lowered
    <3> HIDE DEF D
    <3>7. Coherent(c, D, CountGprs(c, pinned, Q, k), k + 1) /\ Kept4(CountGprs(c, pinned, Q, k))
      BY <1>1, <1>4, <1>6, <3>1, <3>5, <3>6, CoherentOn
    <3> QED BY <3>5, <3>7
  <2>2. CASE n.op \notin ValueOps
    <3>1. n.op \in EffectOps \ {"StoreF32"}
      BY <1>1, <2>2 DEF Wellformed, Formed
    <3>2. Lowered(c, F, B, D, {}) /\ Coherent(c, D, R, k + 1) /\ Kept4(R)
      <4>1. CountFprs(c, Z, k).peak <= Cardinality(F)
        BY DEF Room
      <4>2. CountGprs(c, pinned, Q, k).peak <= pinned + IF B.rc.on THEN 3 ELSE 4
        BY <1>4 DEF Room
      <4> QED BY <1>3, <1>4, <1>6, <3>1, <4>1, <4>2, ActLowered
    <3>3. {} \subseteq Brings(c, k)
      OBVIOUS
    <3> HIDE DEF D, R
    <3>4. Lowered(c, F, B, D, Brings(c, k))
      BY <3>2 DEF Lowered
    <3> QED BY <3>2, <3>4
  <2> QED BY <2>1, <2>2
<1> HIDE DEF D, R
<1>8. D.next = k
  BY <1>3, <1>7 DEF Lowered
<1>9. /\ Ready(F, T) /\ DOMAIN T.node = Ids(c) /\ T.next = k + 1
      /\ HeldBy(T) \subseteq (HeldBy(B) \cup Brings(c, k)) \ EndedAt(c, k)
      /\ T.rc.on = D.rc.on /\ T.gprs = D.gprs /\ T.cmp = D.cmp
  BY <1>2, <1>3, <1>7, <1>8, HandedOn
<1>10. Coherent(c, T, R, k + 1)
  BY <1>7, <1>9 DEF Coherent, Idle, Holding
<1>11. Brings(c, k) \subseteq Ids(c) /\ \A m \in Brings(c, k) : Resident(c, m, k + 1)
  BY BroughtStay
<1>12. \A m \in HeldBy(T) : Resident(c, m, k + 1)
  BY <1>1, <1>3, <1>9, <1>11, ResidentLater DEF Goes
<1>13. Tallied(c, W) /\ HeldBy(T) \subseteq W.hold
  <2>1. Tallied(c, W) /\ {m \in (Z.hold \ {k}) \cup Brings(c, k) : ~Ends(c, k, m)} \subseteq W.hold
    BY <1>1, <1>6, CountIs
  <2> HIDE DEF W
  <2>2. \A m \in HeldBy(T) : m \in (Z.hold \ {k}) \cup Brings(c, k) /\ m \in Ids(c)
            /\ m \notin EndedAt(c, k)
    BY <1>1, <1>3, <1>5, <1>6, <1>9, <1>11
  <2>3. \A m \in HeldBy(T) : ~Ends(c, k, m)
    BY <2>2, EndsIs
  <2> QED BY <2>1, <2>2, <2>3
<1> HIDE DEF W
<1>14. \A j \in Ids(c) : ~(j >= k + 1 /\ j < T.next)
  BY <1>1, <1>9
<1>15. T.next \in Int
  BY <1>1, <1>9
<1>16. Goes(c, F, T, W, R, k + 1)
  BY <1>7, <1>9, <1>10, <1>12, <1>13, <1>14, <1>15 DEF Goes
<1> QED BY <1>16 DEF T, W, R

\* A group of stores uses one value, and gives it back behind the last.
LEMMA StoredGoes ==
  ASSUME NEW c, Wellformed(c), Reduced(c), Paired(c), LastOk(c), NEW k \in Alive(c),
         NEW F, Holds(F, 0), NEW pinned \in Int, NEW K, NEW Z, NEW Q, Goes(c, F, K, Z, Q, k),
         Room(c, F, pinned, Z, Q, k), ~(k < K.next), NodeAt(c, k).op = "StoreF32",
         Member(NodeAt(c, k)) => Headed(NodeAt(c, k))
  PROVE  Goes(c, F, NodeTurn(c, 0, 0, K, k), CountFprs(c, Z, k), CountGprs(c, pinned, Q, k), k + 1)
<1> DEFINE n == NodeAt(c, k)
           B == [K EXCEPT !.next = k]
           D == lower_node(c, B, k)
           T == NodeTurn(c, 0, 0, K, k)
           W == CountFprs(c, Z, k)
           R == CountGprs(c, pinned, Q, k)
           e == GroupEnd(c, k)
           b == Beside(c, Z, k)
<1>1. k \in Ids(c) /\ ~Dead(n) /\ k \in Int /\ HeldBy(K) \subseteq Ids(c) /\ Ids(c) \subseteq Int
          /\ Alive(c) \subseteq Int
  BY DEF Goes, Alive, Ids, HeldBy
<1>2. T = HandOn(c, D)
  BY <1>1 DEF NodeTurn, Headed, HandOn
<1>3. /\ Ready(F, B) /\ HeldBy(B) = HeldBy(K) /\ B.node = K.node /\ B.gprs = K.gprs
      /\ B.cmp = K.cmp /\ B.rc = K.rc /\ B.next = k /\ DOMAIN B.node = Ids(c)
  BY AtNode DEF Goes
<1>4. Coherent(c, B, Q, k) /\ B.rc.on = CachesRc(c)
  BY <1>3 DEF Goes, Coherent, Idle, Holding
<1>5. Tallied(c, Z) /\ HeldBy(B) \subseteq Z.hold /\ Kept4(Q)
  BY <1>3 DEF Goes
<1> HIDE DEF B, T
<1>6. ~Packing(n) /\ ~Waiting(n) /\ Transient(n, B.rc.on) = 1 /\ ~Holder(n) /\ ~Headed(n)
  <2>1. ~Packing(n) /\ ~Waiting(n) /\ Transient(n, B.rc.on) = 1
    BY TransientIs DEF Packing, Waiting, Compares
  <2>2. ~Holder(n)
    BY DEF Holder, ValueOps, Loads, Consts, Binaries, Fmas, Unaries, Trigs
  <2>3. Chained(c, k)
    BY <1>1 DEF Reduced
  <2> QED BY <2>1, <2>2, <2>3 DEF Chained, Link
<1>7. b = (IF HasStrQ(c, k) THEN 2 ELSE 1) /\ b > 0 /\ b \in Nat
  BY <1>6 DEF Beside, Headed
<1>8. Holds(B.gprs, 1)
  <2>1. Holds(B.gprs, Transient(n, B.rc.on))
    BY <1>1, <1>4, <1>5, <1>6, RoomIs DEF Room
  <2> QED BY <1>6, <2>1
<1>9. Tallied(c, W) /\ {m \in Z.hold \cup Brings(c, k) : ~Ends(c, k, m)} \subseteq W.hold
      /\ Cardinality(Z.hold) + b <= W.peak /\ Cardinality(Z.hold) \in Nat /\ W.peak \in Int
  <2>1. Tallied(c, W) /\ {m \in Z.hold \cup Brings(c, k) : ~Ends(c, k, m)} \subseteq W.hold
        /\ Cardinality(Z.hold) + b <= W.peak /\ Cardinality(Z.hold) \in Nat
    BY <1>1, <1>5, <1>6, <1>7, CountIs
  <2> QED BY <2>1 DEF Tallied
<1> HIDE DEF b
<1>10. Holds(B.fprs, IF HasStrQ(c, k) THEN 2 ELSE 1)
  <2>1. Cardinality(F) \in Nat /\ W.peak <= Cardinality(F)
    BY FS_CardinalityType DEF Holds, Room
  <2>2. Cardinality(Z.hold) + b <= Cardinality(F)
    <3> HIDE DEF W
    <3> QED BY <1>7, <1>9, <2>1
  <2>3. Holds(B.fprs, b)
    BY <1>3, <1>5, <1>7, <2>2, FprRoom DEF Ready
  <2> QED BY <1>7, <2>3
<1>11. Steady(B, D) /\ D.fprs = B.fprs /\ D.node = B.node /\ D.next = e
  <2>1. D = lower_StoreF32(c, B, k)
    BY NodeIs
  <2>2. Len(c.nodes) \in Nat /\ Fields \subseteq DOMAIN B
    BY <1>3 DEF Wellformed, Ready
  <2> QED BY <1>1, <1>8, <1>10, <2>1, <2>2, StoreF32Serves
<1>12. e \in Int /\ k <= e /\ e \in Ids(c) /\ \A j \in k..e : InGroup(c, k, j)
  <2>1. Len(c.nodes) \in Nat
    BY DEF Wellformed
  <2> QED BY <1>1, <2>1, GroupIs
<1> HIDE DEF D, R, W, e
<1>13. Placed(F, D) /\ HeldBy(D) = HeldBy(K)
  BY <1>3, <1>11, SamePlaces DEF Ready
<1>14. LET L == [B EXCEPT !.next = e] IN Ready(F, L) /\ L.node = B.node /\ Lowered(c, F, L, D, {})
           /\ HeldBy(L) = HeldBy(K)
  <2> DEFINE L == [B EXCEPT !.next = e]
  <2>1. /\ Ready(F, L) /\ HeldBy(L) = HeldBy(B) /\ L.node = B.node /\ L.gprs = B.gprs
        /\ L.cmp = B.cmp /\ L.rc = B.rc /\ L.next = e /\ DOMAIN L = DOMAIN B /\ L.starved = B.starved
    BY <1>3, AtNode
  <2> HIDE DEF L
  <2>2. Lowered(c, F, L, D, {})
    BY <1>3, <1>11, <1>13, <2>1 DEF Lowered, Steady
  <2> QED BY <1>3, <2>1, <2>2 DEF L
<1>15. /\ Ready(F, T) /\ DOMAIN T.node = Ids(c) /\ T.next = e + 1
            /\ HeldBy(T) \subseteq HeldBy(K) \ EndedAt(c, e)
       /\ T.rc.on = D.rc.on /\ T.gprs = D.gprs /\ T.cmp = D.cmp
  <2> DEFINE L == [B EXCEPT !.next = e]
  <2>1. Ready(F, L) /\ L.node = B.node /\ Lowered(c, F, L, D, {}) /\ HeldBy(L) = HeldBy(K)
    BY <1>14
  <2> HIDE DEF L
  <2>2. /\ Ready(F, T) /\ DOMAIN T.node = DOMAIN L.node /\ T.next = e + 1
        /\ HeldBy(T) \subseteq (HeldBy(L) \cup {}) \ EndedAt(c, e)
        /\ T.rc.on = D.rc.on /\ T.gprs = D.gprs /\ T.cmp = D.cmp
    BY <1>2, <1>11, <2>1, HandedOn
  <2> QED BY <1>3, <2>1, <2>2
\* Before the last store of the group, none is the last use of anything.
<1>16. \A j \in Ids(c) : j >= k /\ j < e => EndedAt(c, j) = {}
  <2> SUFFICES ASSUME NEW j \in Ids(c), j >= k, j < e, NEW m \in EndedAt(c, j) PROVE FALSE
    OBVIOUS
  <2>1. InGroup(c, k, j) /\ InGroup(c, k, e) /\ j \in Int
    BY <1>1, <1>12
  <2>2. m \in Ids(c) /\ UsesBy(c, j, m) # {} /\ c.last[m] = j
    BY DEF EndedAt
  <2>3. Formed(NodeAt(c, j), j) /\ NodeAt(c, j).op = "StoreF32" /\ m # None
    BY <2>1, <2>2 DEF Wellformed, InGroup, Ids, None
  <2>4. NodeAt(c, j).in[1] = m
    BY <2>2, <2>3 DEF Formed, UsesBy, Stores
  <2>5. NodeAt(c, e).in[1] = m /\ e \in Alive(c)
    BY <1>12, <2>1, <2>4 DEF InGroup, Alive
  <2>6. UsesBy(c, e, m) # {}
    BY <2>5 DEF UsesBy
  <2>7. c.last[m] >= e
    BY <2>2, <2>5, <2>6 DEF LastOk
  <2> QED BY <1>12, <2>1, <2>2, <2>7
<1>17. \A j \in Ids(c) : j >= k + 1 /\ j < T.next =>
         NodeAt(c, j).op = "StoreF32" /\ HeldBy(T) \cap EndedAt(c, j) = {}
  <2> SUFFICES ASSUME NEW j \in Ids(c), j >= k + 1, j < T.next
               PROVE  NodeAt(c, j).op = "StoreF32" /\ HeldBy(T) \cap EndedAt(c, j) = {}
    OBVIOUS
  <2>1. j \in Int /\ j >= k /\ (j < e \/ j = e)
    BY <1>1, <1>12, <1>15
  <2>2. j \in k..e
    BY <1>1, <1>12, <2>1
  <2>3. NodeAt(c, j).op = "StoreF32"
    BY <1>12, <2>2 DEF InGroup
  <2>4. HeldBy(T) \cap EndedAt(c, j) = {}
    BY <1>15, <1>16, <2>1
  <2> QED BY <2>3, <2>4
<1>18. HeldBy(T) \subseteq W.hold
  <2>1. HeldBy(T) \cap EndedAt(c, k) = {}
    <3>1. CASE k = e
      BY <1>15, <3>1
    <3>2. CASE k # e
      <4>1. k < e /\ k >= k
        BY <1>1, <1>12, <3>2
      <4> QED BY <1>1, <1>16, <4>1
    <3> QED BY <3>1, <3>2
  <2>2. \A m \in HeldBy(T) : m \in Z.hold /\ m \in Ids(c) /\ ~Ends(c, k, m)
    BY <1>1, <1>3, <1>5, <1>15, <2>1, EndsIs
  <2> QED BY <1>9, <2>2
<1>19. \A m \in HeldBy(T) : Resident(c, m, k + 1)
  BY <1>1, <1>15, ResidentLater DEF Goes
<1>20. Coherent(c, T, R, k + 1) /\ Kept4(R)
  <2>1. T.rc.on = B.rc.on /\ T.gprs = B.gprs /\ T.cmp = B.cmp
    BY <1>11, <1>15 DEF Steady
  <2>2. Coherent(c, T, CountGprs(c, pinned, Q, k), k + 1) /\ Kept4(CountGprs(c, pinned, Q, k))
    BY <1>1, <1>4, <1>5, <1>6, <2>1, CoherentOn
  <2> QED BY <2>2 DEF R
<1>21. T.next \in Int
  BY <1>12, <1>15
<1>22. Goes(c, F, T, W, R, k + 1)
  BY <1>9, <1>15, <1>17, <1>18, <1>19, <1>20, <1>21 DEF Goes
<1> QED BY <1>22 DEF T, W, R

-----------------------------------------------------------------------------
(* The walk over a body, beside the walks that count *)

\* Every turn of lowering goes along with one turn of each count.
LEMMA TurnGoes ==
  ASSUME NEW c, Wellformed(c), Reduced(c), Paired(c), LastOk(c), NEW k \in Ids(c),
         NEW F, Holds(F, 0), NEW pinned \in Int, NEW K, NEW Z, NEW Q, Goes(c, F, K, Z, Q, k),
         Room(c, F, pinned, Z, Q, k)
  PROVE  Goes(c, F, NodeTurn(c, 0, 0, K, k), CountFprs(c, Z, k), CountGprs(c, pinned, Q, k), k + 1)
<1> DEFINE n == NodeAt(c, k)
<1>1. CASE k < K.next \/ Dead(n) \/ (Member(n) /\ ~Headed(n))
  <2>1. NodeTurn(c, 0, 0, K, k) = K
    BY <1>1 DEF NodeTurn, Headed
  <2> QED BY <1>1, <2>1, PassedOver
<1>2. CASE ~(k < K.next \/ Dead(n) \/ (Member(n) /\ ~Headed(n)))
  <2>1. k \in Alive(c) /\ (Member(n) => Headed(n)) /\ ~(k < K.next)
    BY <1>2 DEF Alive
  <2>2. CASE n.op = "StoreF32"
    BY <2>1, <2>2, StoredGoes
  <2>3. CASE n.op # "StoreF32"
    BY <2>1, <2>3, LoweredGoes
  <2> QED BY <2>2, <2>3
<1> QED BY <1>1, <1>2

\* Lowering and the two counts, turn by turn.
LowerRuns(c, L, f) ==
  /\ f[0] = L /\ \A i \in Ids(c) : f[i + 1] = NodeTurn(c, 0, 0, f[i], i)
  /\ lower_nodes(c, L) = f[Len(c.nodes)]
LEMMA LowerUnrolls ==
  ASSUME NEW c, Len(c.nodes) \in Nat, NEW L
  PROVE  \E f : LowerRuns(c, L, f)
<1> DEFINE q == Ascending(c)
<1>1. Len(q) = Len(c.nodes) /\ \A j \in Ids(c) : j + 1 \in 1..Len(q) /\ q[j + 1] = j /\ (j + 1) - 1 = j
  BY AscendingRuns
<1>2. NodeWalk!Through(c, 0, 0, L, q) = lower_nodes(c, L)
  BY DEF NodeWalk!Through, NodeWalk!Walk, Walk, NodeTurn, lower_nodes
<1> HIDE DEF q
<1>3. PICK g : NodeWalk!Runs(c, 0, 0, L, q, g)
  <2>1. Len(q) \in Nat
    BY <1>1
  <2> HIDE DEF NodeWalk!Runs
  <2> QED BY <2>1, Induction, NodeWalk!Unrolled
<1>4. \A k \in 1..Len(q) : g[k] = NodeTurn(c, 0, 0, g[k - 1], q[k])
  BY <1>3 DEF NodeWalk!Runs
<1>5. \A j \in Ids(c) : g[j + 1] = NodeTurn(c, 0, 0, g[j], j)
  BY <1>1, <1>4
<1>6. g[0] = L /\ lower_nodes(c, L) = g[Len(c.nodes)]
  BY <1>1, <1>2, <1>3 DEF NodeWalk!Runs
<1> QED BY <1>5, <1>6 DEF LowerRuns

FprStart(b) == [live |-> 0, peak |-> 0, over |-> None, hold |-> {}, budget |-> b]
FprRuns(c, b, p) ==
  /\ p[0] = FprStart(b) /\ \A i \in Ids(c) : p[i + 1] = CountFprs(c, p[i], i)
LEMMA FprUnrolls ==
  ASSUME NEW ctx, NEW c, c = compute_last_uses(ctx), Len(c.nodes) \in Nat, NEW b
  PROVE  \E p : FprRuns(c, b, p) /\ peak_live_fprs(ctx, b) = p[Len(c.nodes)]
<1> DEFINE q == Ascending(c)
           L == FprStart(b)
<1>1. Len(q) = Len(c.nodes) /\ \A j \in Ids(c) : j + 1 \in 1..Len(q) /\ q[j + 1] = j /\ (j + 1) - 1 = j
  BY AscendingRuns
<1>2. CountWalk!Through(c, 0, 0, L, q) = peak_live_fprs(ctx, b)
  BY DEF CountWalk!Through, CountWalk!Walk, Walk, CountTurn, peak_live_fprs, FprStart
<1> HIDE DEF q, L
<1>3. PICK g : CountWalk!Runs(c, 0, 0, L, q, g)
  <2>1. Len(q) \in Nat
    BY <1>1
  <2> HIDE DEF CountWalk!Runs
  <2> QED BY <2>1, Induction, CountWalk!Unrolled
<1>4. \A k \in 1..Len(q) : g[k] = CountTurn(c, 0, 0, g[k - 1], q[k])
  BY <1>3 DEF CountWalk!Runs
<1>5. \A j \in Ids(c) : g[j + 1] = CountFprs(c, g[j], j)
  BY <1>1, <1>4 DEF CountTurn
<1>6. g[0] = L /\ peak_live_fprs(ctx, b) = g[Len(c.nodes)]
  BY <1>1, <1>2, <1>3 DEF CountWalk!Runs
<1> QED BY <1>5, <1>6 DEF FprRuns, L

GprTurn(c, pinned, x, K, i) == CountGprs(c, pinned, K, i)
GprWalk == INSTANCE X87Walk_proofs WITH Turn <- GprTurn, Kept <- OverAlong
GprRuns(c, pinned, begun, g) ==
  /\ g[0] = begun /\ \A i \in Ids(c) : g[i + 1] = CountGprs(c, pinned, g[i], i)
LEMMA GprUnrolls ==
  ASSUME NEW c, Len(c.nodes) \in Nat, NEW pinned, NEW begun
  PROVE  \E g : GprRuns(c, pinned, begun, g)
                /\ GprWalk!Through(c, pinned, 0, begun, Ascending(c)) = g[Len(c.nodes)]
<1> DEFINE q == Ascending(c)
<1>1. Len(q) = Len(c.nodes) /\ \A j \in Ids(c) : j + 1 \in 1..Len(q) /\ q[j + 1] = j /\ (j + 1) - 1 = j
  BY AscendingRuns
<1>3. PICK g : GprWalk!Runs(c, pinned, 0, begun, q, g)
  <2>1. Len(q) \in Nat
    BY <1>1
  <2> HIDE DEF GprWalk!Runs, q
  <2> QED BY <2>1, Induction, GprWalk!Unrolled
<1>4. \A k \in 1..Len(q) : g[k] = GprTurn(c, pinned, 0, g[k - 1], q[k])
  <2> HIDE DEF q
  <2> QED BY <1>3 DEF GprWalk!Runs
<1>5. \A j \in Ids(c) : g[j + 1] = CountGprs(c, pinned, g[j], j)
  <2> HIDE DEF q
  <2> QED BY <1>1, <1>4 DEF GprTurn
<1>6. g[0] = begun /\ GprWalk!Through(c, pinned, 0, begun, q) = g[Len(c.nodes)]
  <2> HIDE DEF q
  <2> QED BY <1>1, <1>3 DEF GprWalk!Runs
<1> QED BY <1>5, <1>6 DEF GprRuns

\* The peaks only rise, and a budget is what it was.
LEMMA FprPeaks ==
  ASSUME NEW c, Wellformed(c), Reduced(c), NEW b, NEW p, FprRuns(c, b, p)
  PROVE  \A k \in 0..Len(c.nodes) : /\ Tallied(c, p[k]) /\ p[k].budget = b
                                    /\ p[k].peak <= p[Len(c.nodes)].peak
<1> DEFINE N == Len(c.nodes)
           S == {k \in Nat : k <= N => /\ Tallied(c, p[k]) /\ p[k].budget = b
                                       /\ \A j \in 0..k : p[j].peak <= p[k].peak}
<1>0. N \in Nat
  BY DEF Wellformed
<1>1. 0 \in S
  <2>1. Tallied(c, FprStart(b)) /\ FprStart(b).budget = b
    BY FS_EmptySet DEF Tallied, FprStart
  <2>2. p[0] = FprStart(b)
    BY DEF FprRuns
  <2>3. \A j \in 0..0 : j = 0
    OBVIOUS
  <2>4. p[0].peak <= p[0].peak
    BY <2>1, <2>2 DEF Tallied
  <2> QED BY <2>1, <2>2, <2>3, <2>4
<1>2. ASSUME NEW k \in Nat, k \in S PROVE k + 1 \in S
  <2> SUFFICES ASSUME k + 1 <= N
               PROVE  /\ Tallied(c, p[k + 1]) /\ p[k + 1].budget = b
                      /\ \A j \in 0..k + 1 : p[j].peak <= p[k + 1].peak
    OBVIOUS
  <2>1. k \in Ids(c) /\ k <= N
    BY <1>0 DEF Ids
  <2>2. Tallied(c, p[k]) /\ p[k].budget = b /\ \A j \in 0..k : p[j].peak <= p[k].peak
    BY <1>2, <2>1
  <2>3. p[k + 1] = CountFprs(c, p[k], k)
    BY <2>1 DEF FprRuns
  <2>4. Tallied(c, p[k + 1]) /\ p[k + 1].peak >= p[k].peak /\ p[k + 1].budget = b
    <3>1. CASE Dead(NodeAt(c, k))
      <4>1. p[k + 1] = p[k]
        BY <2>3, <3>1 DEF CountFprs
      <4> QED BY <2>2, <4>1 DEF Tallied
    <3>2. CASE ~Dead(NodeAt(c, k))
      <4> DEFINE Z == p[k]
                 T == CountFprs(c, Z, k)
      <4>1. Tallied(c, Z) /\ Z.budget = b
        BY <2>2
      <4> HIDE DEF Z
      <4>2. Tallied(c, T) /\ T.peak >= Z.peak /\ T.budget = Z.budget
        BY <2>1, <3>2, <4>1, CountIs
      <4> HIDE DEF T
      <4> QED BY <2>3, <4>1, <4>2 DEF Z, T
    <3> QED BY <3>1, <3>2
  <2>5. ASSUME NEW j \in 0..k + 1 PROVE p[j].peak <= p[k + 1].peak
    <3>1. CASE j = k + 1
      BY <2>4, <3>1 DEF Tallied
    <3>2. CASE j # k + 1
      <4>1. j \in 0..k
        BY <3>2
      <4>2. k <= N /\ k \in 0..k
        BY <2>1
      <4>3. p[j].peak <= p[k].peak /\ p[k].peak \in Int /\ p[k + 1].peak \in Int
        BY <2>2, <2>4, <4>1 DEF Tallied
      <4>4. p[j].peak \in Int
        <5>1. \A i \in Nat : i \in {m \in Nat : m <= N => Tallied(c, p[m])}
          <6> DEFINE R == {m \in Nat : m <= N => Tallied(c, p[m])}
          <6>1. 0 \in R
            BY <1>1
          <6>2. ASSUME NEW m \in Nat, m \in R PROVE m + 1 \in R
            <7> SUFFICES ASSUME m + 1 <= N PROVE Tallied(c, p[m + 1])
              OBVIOUS
            <7>1. m \in Ids(c) /\ m <= N
              BY <1>0 DEF Ids
            <7>2. Tallied(c, p[m]) /\ p[m + 1] = CountFprs(c, p[m], m)
              BY <6>2, <7>1 DEF FprRuns
            <7>3. CASE Dead(NodeAt(c, m))
              BY <7>2, <7>3 DEF CountFprs
            <7>4. CASE ~Dead(NodeAt(c, m))
              BY <7>1, <7>2, <7>4, CountIs
            <7> QED BY <7>3, <7>4
          <6> HIDE DEF R
          <6>3. Nat \subseteq R
            BY <6>1, <6>2, FromZero
          <6> QED BY <6>3 DEF R
        <5>2. j \in Nat /\ j <= N
          BY <1>0
        <5> QED BY <5>1, <5>2 DEF Tallied
      <4> QED BY <2>4, <4>3, <4>4
    <3> QED BY <3>1, <3>2
  <2> QED BY <2>4, <2>5
<1>3. Nat \subseteq S
  <2> HIDE DEF S
  <2> QED BY <1>1, <1>2, FromZero
<1>4. N \in S /\ N <= N
  BY <1>0, <1>3
<1>5. \A k \in 0..N : k \in S /\ k <= N
  BY <1>0, <1>3
<1> QED BY <1>4, <1>5

LEMMA GprPeaks ==
  ASSUME NEW c, Len(c.nodes) \in Nat, NEW pinned \in Int, NEW begun, Kept4(begun), NEW g,
         GprRuns(c, pinned, begun, g)
  PROVE  \A k \in 0..Len(c.nodes) : /\ Kept4(g[k]) /\ g[k].budget = begun.budget
                                    /\ g[k].peak <= g[Len(c.nodes)].peak /\ begun.peak <= g[k].peak
<1> DEFINE N == Len(c.nodes)
           R == {k \in Nat : k <= N => Kept4(g[k]) /\ g[k].budget = begun.budget}
           S == {k \in Nat : k <= N => \A j \in 0..k : g[j].peak <= g[k].peak}
<1>0. g[0] = begun
  BY DEF GprRuns
<1>1. ASSUME NEW k \in Ids(c), Kept4(g[k])
      PROVE  Kept4(g[k + 1]) /\ g[k + 1].budget = g[k].budget /\ g[k + 1].peak >= g[k].peak
  <2> DEFINE Q == g[k]
             T == CountGprs(c, pinned, Q, k)
  <2>1. g[k + 1] = T
    BY DEF GprRuns
  <2>2. CASE Dead(NodeAt(c, k))
    <3>1. T = Q
      BY <2>2 DEF CountGprs
    <3> QED BY <1>1, <2>1, <3>1 DEF Kept4
  <2>3. CASE ~Dead(NodeAt(c, k))
    <3>1. Kept4(T) /\ T.peak >= Q.peak
      BY <1>1, <2>3, CountGprsIs
    <3>2. T.budget = Q.budget
      <4> DEFINE n == NodeAt(c, k)
                 back == IF Waiting(n) THEN [Q EXCEPT !.held = @ - 1] ELSE Q
                 t == pinned + back.held + Transient(n, CachesRc(c))
                 done == Raise(back, t, k)
      <4>1. T = IF Packing(n) THEN [done EXCEPT !.held = @ + 1] ELSE done
        BY <2>3 DEF CountGprs, Waiting, Packing, Fused
      <4>2. DOMAIN back = DOMAIN Q /\ back.budget = Q.budget
        OBVIOUS
      <4> HIDE DEF back, t
      <4>3. done.budget = back.budget /\ DOMAIN done = DOMAIN back
        BY <1>1, <4>2 DEF Raise, Kept4
      <4> HIDE DEF done
      <4>4. T.budget = done.budget
        BY <1>1, <4>1, <4>2, <4>3 DEF Kept4
      <4> QED BY <4>2, <4>3, <4>4
    <3> QED BY <2>1, <3>1, <3>2
  <2> QED BY <2>2, <2>3
<1>2. Nat \subseteq R
  <2>1. 0 \in R
    BY <1>0
  <2>2. ASSUME NEW k \in Nat, k \in R PROVE k + 1 \in R
    <3> SUFFICES ASSUME k + 1 <= N PROVE Kept4(g[k + 1]) /\ g[k + 1].budget = begun.budget
      OBVIOUS
    <3>1. k \in Ids(c) /\ k <= N
      BY DEF Ids
    <3> QED BY <1>1, <2>2, <3>1
  <2> HIDE DEF R
  <2> QED BY <2>1, <2>2, FromZero
<1>3. \A k \in 0..N : Kept4(g[k]) /\ g[k].budget = begun.budget /\ g[k].peak \in Int
  <2>1. \A k \in 0..N : k \in R /\ k <= N
    BY <1>2
  <2> QED BY <2>1 DEF Kept4
<1> HIDE DEF R
<1>4. Nat \subseteq S
  <2>1. 0 \in S
    <3>1. 0 \in 0..N /\ \A j \in 0..0 : j = 0
      OBVIOUS
    <3> QED BY <1>3, <3>1
  <2>2. ASSUME NEW k \in Nat, k \in S PROVE k + 1 \in S
    <3> SUFFICES ASSUME k + 1 <= N, NEW j \in 0..k + 1 PROVE g[j].peak <= g[k + 1].peak
      OBVIOUS
    <3>1. k \in Ids(c) /\ k <= N /\ k \in 0..N /\ j \in 0..N /\ k + 1 \in 0..N
      BY DEF Ids
    <3>2. g[k + 1].peak >= g[k].peak /\ g[k + 1].peak \in Int /\ g[k].peak \in Int /\ g[j].peak \in Int
      BY <1>1, <1>3, <3>1
    <3>3. CASE j = k + 1
      BY <3>2, <3>3
    <3>4. CASE j # k + 1
      <4>1. j \in 0..k
        BY <3>4
      <4>2. g[j].peak <= g[k].peak
        BY <2>2, <3>1, <4>1
      <4> QED BY <3>2, <4>2
    <3> QED BY <3>3, <3>4
  <2> HIDE DEF S
  <2> QED BY <2>1, <2>2, FromZero
<1>5. \A k \in 0..N : k \in S /\ k <= N /\ 0 \in 0..k /\ N \in S /\ N <= N
  BY <1>4
<1> QED BY <1>0, <1>3, <1>5

\* Within the budgets, the walk ends with no register missing.
LEMMA WalkGoes ==
  ASSUME NEW c, Wellformed(c), Reduced(c), Paired(c), LastOk(c), NEW F, Holds(F, 0), NEW pinned \in Int,
         NEW b, NEW L, NEW begun, Goes(c, F, L, FprStart(b), begun, 0),
         NEW f, LowerRuns(c, L, f), NEW p, FprRuns(c, b, p), NEW g, GprRuns(c, pinned, begun, g),
         p[Len(c.nodes)].peak <= Cardinality(F),
         g[Len(c.nodes)].peak <= pinned + IF CachesRc(c) THEN 3 ELSE 4
  PROVE  LET N == Len(c.nodes) IN Goes(c, F, lower_nodes(c, L), p[N], g[N], N)
<1> DEFINE N == Len(c.nodes)
           S == {k \in Nat : k <= N => Goes(c, F, f[k], p[k], g[k], k)}
<1>0. N \in Nat /\ Kept4(begun) /\ Cardinality(F) \in Nat
  BY FS_CardinalityType DEF Wellformed, Goes, Holds
<1>1. \A k \in 0..N : p[k].peak <= p[N].peak /\ p[k].peak \in Int
  BY <1>0, FprPeaks DEF Tallied
<1>2. \A k \in 0..N : g[k].peak <= g[N].peak /\ g[k].peak \in Int
  BY <1>0, GprPeaks DEF Kept4
<1>3. 0 \in S
  BY DEF LowerRuns, FprRuns, GprRuns
<1>4. ASSUME NEW k \in Nat, k \in S PROVE k + 1 \in S
  <2> SUFFICES ASSUME k + 1 <= N PROVE Goes(c, F, f[k + 1], p[k + 1], g[k + 1], k + 1)
    OBVIOUS
  <2>1. k \in Ids(c) /\ k <= N /\ k + 1 \in 0..N /\ N \in 0..N
    BY <1>0 DEF Ids
  <2>2. /\ f[k + 1] = NodeTurn(c, 0, 0, f[k], k) /\ p[k + 1] = CountFprs(c, p[k], k)
        /\ g[k + 1] = CountGprs(c, pinned, g[k], k)
    BY <2>1 DEF LowerRuns, FprRuns, GprRuns
  <2>3. p[k + 1].peak <= Cardinality(F)
    BY <1>0, <1>1, <2>1
  <2>4. g[k + 1].peak <= pinned + IF CachesRc(c) THEN 3 ELSE 4
    <3>1. (IF CachesRc(c) THEN 3 ELSE 4) \in Int
      OBVIOUS
    <3> QED BY <1>2, <2>1, <3>1
  <2>5. Room(c, F, pinned, p[k], g[k], k)
    BY <2>2, <2>3, <2>4 DEF Room
  <2>6. Goes(c, F, f[k], p[k], g[k], k)
    BY <1>4, <2>1
  <2>7. Goes(c, F, NodeTurn(c, 0, 0, f[k], k), CountFprs(c, p[k], k), CountGprs(c, pinned, g[k], k), k + 1)
    BY <2>1, <2>5, <2>6, TurnGoes
  <2> QED BY <2>2, <2>7
<1>5. Nat \subseteq S
  <2> HIDE DEF S
  <2> QED BY <1>3, <1>4, FromZero
<1>6. Goes(c, F, f[N], p[N], g[N], N)
  <2>1. N \in S /\ N <= N
    BY <1>0, <1>5
  <2> QED BY <2>1
<1> QED BY <1>6 DEF LowerRuns

\* What is said of a graph is said of its nodes.
LEMMA SameNodes ==
  ASSUME NEW c, NEW d, d.nodes = c.nodes
  PROVE  /\ Ids(d) = Ids(c) /\ (\A i : NodeAt(d, i) = NodeAt(c, i)) /\ Alive(d) = Alive(c)
         /\ (\A j, n : UsesBy(d, j, n) = UsesBy(c, j, n))
         /\ (Wellformed(c) => Wellformed(d)) /\ (Reduced(c) => Reduced(d)) /\ (Paired(c) => Paired(d))
         /\ CachesRc(d) = CachesRc(c) /\ Newest(d) = Newest(c)
<1>1. Ids(d) = Ids(c) /\ (\A i : NodeAt(d, i) = NodeAt(c, i)) /\ Newest(d) = Newest(c)
  BY DEF Ids, NodeAt, Newest
<1>2. Alive(d) = Alive(c)
  BY <1>1 DEF Alive
<1>3. \A j, n : UsesBy(d, j, n) = UsesBy(c, j, n)
  BY <1>1 DEF UsesBy
<1>4. Wellformed(c) => Wellformed(d)
  BY <1>1 DEF Wellformed
<1>5. \A i : Link(d, i) = Link(c, i)
  BY <1>1 DEF Link
<1>6. Reduced(c) => Reduced(d)
  <2>1. \A i : Chained(c, i) => Chained(d, i)
    BY <1>1, <1>5 DEF Chained
  <2> QED BY <1>1, <2>1 DEF Reduced
<1>7. Paired(c) => Paired(d)
  BY <1>1 DEF Paired
<1>8. CachesRc(d) = CachesRc(c)
  BY <1>1, <1>2 DEF CachesRc
<1> QED BY <1>1, <1>2, <1>3, <1>4, <1>6, <1>7, <1>8

\* compute_last_uses finds the last use of each node.
LEMMA LastUsesAre ==
  ASSUME NEW c, "last" \in DOMAIN c, Len(c.nodes) \in Nat
  PROVE  LET d == compute_last_uses(c) IN LastOk(d) /\ d.nodes = c.nodes /\ d.val = c.val
      /\ d.delta = c.delta
<1> DEFINE d == compute_last_uses(c)
           U(n) == {j \in Alive(c) : UsesBy(c, j, n) # {}}
<1>1. /\ d.nodes = c.nodes /\ d.val = c.val /\ d.delta = c.delta
      /\ \A n \in Ids(c) : d.last[n] = IF OnStack(c, n) THEN Len(c.nodes)
                                       ELSE IF U(n) = {} THEN None ELSE Max(U(n))
  BY DEF compute_last_uses
<1> HIDE DEF d
<1>2. Ids(d) = Ids(c) /\ Alive(d) = Alive(c) /\ (\A j, n : UsesBy(d, j, n) = UsesBy(c, j, n))
  BY <1>1, SameNodes
<1>3. Ids(c) \subseteq Int /\ Alive(c) \subseteq Ids(c) /\ IsFiniteSet(Ids(c))
          /\ \A i \in Ids(c) : i <= Len(c.nodes)
  BY FS_Interval DEF Ids, Alive
<1>4. ASSUME NEW n \in Ids(c) PROVE d.last[n] \in Int /\ \A j \in U(n) : d.last[n] >= j
  <2>1. U(n) \subseteq Ids(c) /\ IsFiniteSet(U(n))
    BY <1>3, FS_Subset
  <2> HIDE DEF U
  <2>2. CASE OnStack(c, n)
    <3>1. d.last[n] = Len(c.nodes)
      BY <1>1, <2>2
    <3> QED BY <1>3, <2>1, <3>1
  <2>3. CASE ~OnStack(c, n) /\ U(n) = {}
    BY <1>1, <2>3 DEF None
  <2>4. CASE ~OnStack(c, n) /\ U(n) # {}
    <3>1. d.last[n] = Max(U(n))
      BY <1>1, <2>4
    <3>2. Max(U(n)) \in U(n) /\ \A j \in U(n) : Max(U(n)) >= j
      <4> DEFINE E == U(n)
      <4>1. E \in SUBSET (0..Len(c.nodes) - 1) /\ E # {} /\ 0 \in Int /\ Len(c.nodes) - 1 \in Int
        BY <2>1, <2>4 DEF Ids
      <4> HIDE DEF E
      <4>2. Max(E) \in E /\ \A e \in E : Max(E) >= e
        BY <4>1, Largest
      <4> QED BY <4>2 DEF E
    <3> QED BY <1>3, <2>1, <3>1, <3>2
  <2> QED BY <2>2, <2>3, <2>4
<1>5. LastOk(d)
  BY <1>2, <1>4 DEF LastOk
<1> QED BY <1>1, <1>5 DEF d

-----------------------------------------------------------------------------
(* In front of the walk, and behind it *)

\* The registers of the run cache and of the run are taken, from whatever is
\* pinned already.
LEMMA BeginIs ==
  ASSUME NEW M, Fields \cup {"sb"} \subseteq DOMAIN M, M.gprs = Gprs \ Pinned(M)
  PROVE  LET B == alloc_gpr(begin_ir(M), TmpPlace)
         IN  /\ DOMAIN B = DOMAIN M /\ B.gprs = {3, 4, 5, 7} /\ B.fprs = M.fprs
             /\ B.starved = M.starved /\ B.pd = M.pd
<1> DEFINE base == IF M.gv THEN M ELSE alloc_gpr(alloc_gpr(M, 0), 1)
           mine == IF M.gv /\ M.sb THEN base ELSE alloc_gpr(base, StPlace)
           full == x87_begin(mine)
           J == [full EXCEPT !.sb = TRUE]
           B == alloc_gpr(J, TmpPlace)
<1>1. /\ DOMAIN base = DOMAIN M /\ base.fprs = M.fprs /\ base.starved = M.starved /\ base.pd = M.pd
      /\ base.gprs = IF M.gv THEN M.gprs ELSE Gprs \ {0, 1}
  <2>1. CASE M.gv
    BY <2>1
  <2>2. CASE ~M.gv
    <3> DEFINE K == alloc_gpr(M, 0)
    <3>1. 0 \in M.gprs /\ 1 \in M.gprs \ {0} /\ M.gprs = Gprs
      BY <2>2 DEF Pinned, Gprs
    <3>2. /\ DOMAIN K = DOMAIN M /\ K.fprs = M.fprs /\ K.starved = M.starved /\ K.pd = M.pd
          /\ K.gprs = M.gprs \ {0}
      BY <3>1 DEF alloc_gpr, Fields, PoolFields
    <3> HIDE DEF K
    <3>3. /\ DOMAIN alloc_gpr(K, 1) = DOMAIN K /\ alloc_gpr(K, 1).fprs = K.fprs
          /\ alloc_gpr(K, 1).starved = K.starved /\ alloc_gpr(K, 1).pd = K.pd
          /\ alloc_gpr(K, 1).gprs = K.gprs \ {1}
      BY <3>1, <3>2 DEF alloc_gpr, Fields, PoolFields
    <3>4. base = alloc_gpr(K, 1)
      BY <2>2 DEF K
    <3>5. Gprs \ {0, 1} = (Gprs \ {0}) \ {1}
      OBVIOUS
    <3> HIDE DEF base
    <3> QED BY <2>2, <3>1, <3>2, <3>3, <3>4, <3>5
  <2> QED BY <2>1, <2>2
<1> HIDE DEF base
<1>2. /\ DOMAIN mine = DOMAIN M /\ mine.fprs = M.fprs /\ mine.starved = M.starved /\ mine.pd = M.pd
      /\ mine.gprs = {2, 3, 4, 5, 7}
  <2>1. CASE M.gv /\ M.sb
    <3>1. mine = base /\ base.gprs = Gprs \ {0, 1, 6}
      BY <1>1, <2>1 DEF Pinned, BaseAndTop, StPlace
    <3>2. Gprs \ {0, 1, 6} = {2, 3, 4, 5, 7}
      BY DEF Gprs
    <3> QED BY <1>1, <3>1, <3>2
  <2>2. CASE ~(M.gv /\ M.sb)
    <3>1. mine = alloc_gpr(base, StPlace) /\ base.gprs = Gprs \ {0, 1}
      BY <1>1, <2>2 DEF Pinned, BaseAndTop
    <3>2. 6 \in Gprs \ {0, 1} /\ (Gprs \ {0, 1}) \ {6} = {2, 3, 4, 5, 7}
      BY DEF Gprs
    <3>3. /\ DOMAIN mine = DOMAIN base /\ mine.fprs = base.fprs /\ mine.starved = base.starved
          /\ mine.pd = base.pd /\ mine.gprs = base.gprs \ {6}
      <4> HIDE DEF mine
      <4> QED BY <1>1, <3>1, <3>2 DEF alloc_gpr, Fields, PoolFields, StPlace
    <3> HIDE DEF mine
    <3> QED BY <1>1, <3>1, <3>2, <3>3
  <2> QED BY <2>1, <2>2
<1> HIDE DEF mine
<1>3. /\ DOMAIN full = DOMAIN mine /\ full.fprs = mine.fprs /\ full.starved = mine.starved
      /\ full.pd = mine.pd /\ full.gprs = mine.gprs
  BY DEF x87_begin, emit_load_top
<1> HIDE DEF full
<1>4. /\ DOMAIN J = DOMAIN M /\ J.fprs = M.fprs /\ J.starved = M.starved /\ J.pd = M.pd
      /\ J.gprs = {2, 3, 4, 5, 7}
  BY <1>2, <1>3
<1>5. J = begin_ir(M)
  BY DEF begin_ir, J, full, mine, base
<1> HIDE DEF J
<1>6. {2, 3, 4, 5, 7} \ {2} = {3, 4, 5, 7} /\ 2 \in {2, 3, 4, 5, 7}
  OBVIOUS
<1>7. /\ DOMAIN B = DOMAIN M /\ B.gprs = {3, 4, 5, 7} /\ B.fprs = M.fprs
      /\ B.starved = M.starved /\ B.pd = M.pd
  BY <1>4, <1>6 DEF alloc_gpr, TmpPlace, Fields, PoolFields
<1> QED BY <1>5, <1>7

\* What is deferred is flushed, with registers that are there.
LEMMA IncomingStays ==
  ASSUME NEW L, L.gprs = {3, 4, 5, 7}, L.pd => Holds(L.fprs, 2)
  PROVE  Stays(L, flush_incoming(L))
<1> DEFINE T0 == IF L.tpp THEN Scratch(L, 1) ELSE L
           T1 == x87_flush_pending_tag(T0)
           T2 == IF T1.dpc > 0 THEN Scratch(T1, 2) ELSE T1
           T3 == x87_flush_deferred_pops(T2)
           T4 == IF T3.pd /\ Cardinality(T3.fprs) < 2 THEN Starve(T3) ELSE T3
<1>1. T0 = L
  <2>1. Holds(L.gprs, 1)
    BY Full, FewerHeld
  <2> QED BY <2>1, ScratchStays
<1> HIDE DEF T0
<1>2. Stays(L, T1) /\ T1.pd = L.pd
  <2>1. Stays(T0, T1)
    BY FlushesStay
  <2>2. T1.pd = T0.pd
    BY DEF x87_flush_pending_tag, emit_x87_tag_clear
  <2> QED BY <1>1, <2>1, <2>2
<1> HIDE DEF T1
<1>3. T2 = T1
  <2>1. Holds(T1.gprs, 2)
    BY <1>2, Full, FewerHeld DEF Stays
  <2> QED BY <2>1, ScratchStays
<1> HIDE DEF T2
<1>4. Stays(L, T3) /\ T3.pd = L.pd
  <2>1. Stays(T2, T3)
    BY FlushesStay
  <2>2. T3.pd = T2.pd
    BY DEF x87_flush_deferred_pops, emit_x87_tag_set_empty_batch
  <2> QED BY <1>2, <1>3, <2>1, <2>2, StaysThrough
<1> HIDE DEF T3
<1>5. T4 = T3
  <2>1. T3.fprs = L.fprs
    BY <1>4 DEF Stays
  <2>2. T3.pd => Cardinality(T3.fprs) \in Nat /\ Cardinality(T3.fprs) >= 2
    BY <1>4, <2>1, FS_CardinalityType DEF Holds
  <2> QED BY <2>2
<1> HIDE DEF T4
<1>6. Stays(T4, perm_flush_before_stack_change(T4))
  BY FlushesStay
<1>7. flush_incoming(L) = perm_flush_before_stack_change(T4)
  BY DEF flush_incoming, T4, T3, T2, T1, T0
<1> QED BY <1>4, <1>5, <1>6, <1>7, StaysThrough

StayWalk == INSTANCE X87Walk_proofs WITH Turn <- FinalTurn, Kept <- StaysAlong

\* store_stack and update_tags write what is in registers, and release gives up
\* what was pinned.
LEMMA StackStays ==
  ASSUME NEW c, NEW L
  PROVE  Stays(L, store_stack(c, L))
<1> DEFINE q == [k \in 1..NSlots |-> k - 1]
<1>1. Len(q) \in Nat
  <2>1. DOMAIN q = 1..NSlots /\ NSlots \in Nat
    BY NSlotsAssumption
  <2> HIDE DEF q
  <2> QED BY <2>1, Long
<1>2. \A K, e : Stays(K, FinalTurn(c, 0, 0, K, e))
  BY CacheStays, StaysSame DEF FinalTurn
<1>3. \A n \in 1..Len(q) : \A K :
        StaysAlong(c, 0, 0, L, K) => StaysAlong(c, 0, 0, L, FinalTurn(c, 0, 0, K, q[n]))
  BY <1>2, StaysThrough DEF StaysAlong
<1>4. StaysAlong(c, 0, 0, L, L)
  BY StaysSame DEF StaysAlong
<1>5. StaysAlong(c, 0, 0, L, StayWalk!Through(c, 0, 0, L, q))
  <2> HIDE DEF StaysAlong, FinalTurn, q
  <2> QED BY <1>1, <1>3, <1>4, Induction, StayWalk!WalkKeeps
<1>6. StayWalk!Through(c, 0, 0, L, q) = store_stack(c, L)
  BY DEF StayWalk!Through, StayWalk!Walk, Walk, FinalTurn, store_stack
<1> QED BY <1>5, <1>6 DEF StaysAlong

LEMMA TagsServed ==
  ASSUME NEW c, NEW L, Fields \subseteq DOMAIN L, Holds(L.gprs, 2)
  PROVE  update_tags(c, L).starved = L.starved
<1> DEFINE S == emit_store_top(L)
           B == [S EXCEPT !.gprs = @ \cup {StPlace}, !.sb = FALSE]
           T == Scratch(B, 2)
<1>1. DOMAIN S = DOMAIN L /\ S.gprs = L.gprs /\ S.starved = L.starved
  BY DEF emit_store_top
<1> HIDE DEF S
<1>2. B.gprs = L.gprs \cup {6} /\ B.starved = L.starved
  BY <1>1 DEF StPlace, Fields, PoolFields
<1>3. Holds(B.gprs, 2)
  <2>1. IsFiniteSet(L.gprs) /\ Cardinality(L.gprs) >= 2 /\ Cardinality(L.gprs) \in Nat
            /\ L.gprs \subseteq Nat
    BY FS_CardinalityType DEF Holds
  <2>2. IsFiniteSet(L.gprs \cup {6})
            /\ Cardinality(L.gprs \cup {6}) \in {Cardinality(L.gprs), Cardinality(L.gprs) + 1}
    BY <2>1, FS_AddElement
  <2> HIDE DEF B
  <2> QED BY <1>2, <2>1, <2>2 DEF Holds
<1>4. update_tags(c, L) = IF c.delta = 0 THEN L
                          ELSE IF c.delta > 0 THEN emit_x87_tag_set_empty_batch(T, c.delta)
                          ELSE emit_x87_tag_set_valid_batch(T, -c.delta)
  BY DEF update_tags, S
<1> HIDE DEF B
<1>5. T = B
  BY <1>3, ScratchStays
<1> HIDE DEF T
<1>6. /\ emit_x87_tag_set_empty_batch(T, c.delta).starved = T.starved
      /\ emit_x87_tag_set_valid_batch(T, -c.delta).starved = T.starved
  BY DEF emit_x87_tag_set_empty_batch, emit_x87_tag_set_valid_batch
<1> QED BY <1>2, <1>4, <1>5, <1>6

LEMMA ReleaseServed ==
  ASSUME NEW L
  PROVE  release(L).starved = L.starved
<1> DEFINE x == L.fprs \cup {L.node[n] : n \in {m \in DOMAIN L.node : L.node[m] # NoReg}}
           y == (L.gprs \cup {TmpPlace}) \cup IF L.rc.on THEN {RcPlace} ELSE {}
           K == [L EXCEPT !.fprs = x, !.gprs = y, !.td = FALSE, !.tpp = FALSE, !.dpc = 0]
<1>1. release(L) = reset_perm(K)
  BY DEF release
<1> HIDE DEF x, y
<1>2. K.starved = L.starved
  OBVIOUS
<1> HIDE DEF K
<1>3. reset_perm(K).starved = K.starved
  BY DEF reset_perm
<1> QED BY <1>1, <1>2, <1>3

\* What a node may count is counted in whole registers.
LEMMA PinnedIs ==
  ASSUME NEW M, M.gprs = Gprs \ Pinned(M), M.gv => M.run > 0
  PROVE  /\ Cardinality(Pinned(M)) \in Nat /\ cached_gprs(M) = Cardinality(Pinned(M))
         /\ Cardinality(M.gprs) = 8 - Cardinality(Pinned(M)) /\ IsFiniteSet(M.gprs)
         /\ Holds(M.gprs, 0)
<1>1. Pinned(M) \subseteq Gprs
  BY DEF Pinned, BaseAndTop, StPlace, Gprs
<1>2. IsFiniteSet(Gprs) /\ Cardinality(Gprs) = 8
  <2>1. 0 \in Int /\ 7 \in Int
    OBVIOUS
  <2>2. IsFiniteSet(0..7) /\ Cardinality(0..7) = IF 0 > 7 THEN 0 ELSE 7 - 0 + 1
    BY <2>1, FS_Interval, Zenon
  <2>3. (IF 0 > 7 THEN 0 ELSE 7 - 0 + 1) = 8
    OBVIOUS
  <2> QED BY <2>2, <2>3 DEF Gprs
<1>3. IsFiniteSet(Pinned(M)) /\ Cardinality(Pinned(M)) \in Nat
  BY <1>1, <1>2, FS_Subset, FS_CardinalityType
<1>4. Cardinality(Gprs \ Pinned(M)) = 8 - Cardinality(Gprs \cap Pinned(M)) /\ IsFiniteSet(Gprs \ Pinned(M))
  BY <1>2, FS_Difference
<1>5. Gprs \cap Pinned(M) = Pinned(M) /\ Pinned(M) \ M.gprs = Pinned(M)
  BY <1>1
<1>6. cached_gprs(M) = Cardinality(Pinned(M))
  <2>1. CASE M.gv
    BY <1>5, <2>1 DEF cached_gprs
  <2>2. CASE ~M.gv
    <3>1. Pinned(M) = {}
      BY <2>2 DEF Pinned
    <3> QED BY <2>2, <3>1, FS_EmptySet DEF cached_gprs
  <2> QED BY <2>1, <2>2
<1>7. Gprs \subseteq Nat
  BY DEF Gprs
<1>8. Cardinality(M.gprs) \in Nat
  BY <1>4, FS_CardinalityType
<1>9. Cardinality(M.gprs) = 8 - Cardinality(Pinned(M)) /\ IsFiniteSet(M.gprs) /\ M.gprs \subseteq Nat
  BY <1>4, <1>5, <1>7
<1> QED BY <1>3, <1>6, <1>8, <1>9 DEF Holds

\* The state at the first node, and the counts that go with it.
ReadyAt(c, M) ==
  LET begun == flush_incoming(alloc_gpr(begin_ir(M), TmpPlace))
      on    == CachesRc(c)
  IN  [IF on THEN alloc_gpr(begun, RcPlace) ELSE begun EXCEPT
         !.node = [n \in Ids(c) |-> NoReg], !.cmp = <<>>, !.name = <<>>, !.next = 0,
         !.rc = [on |-> on, valid |-> FALSE, v |-> NoVal]]

\* Between two instructions: no register is missing, and the pool of GPRs holds
\* what the run has not pinned.
Poised(S) ==
  /\ Fields \cup {"sb"} \subseteq DOMAIN S /\ S.gprs = Gprs \ Pinned(S) /\ ~S.starved
  /\ S.gv => S.run > 0

\* What lower does before the first node leaves the pools so.
LEMMA ReadyIs ==
  ASSUME NEW c, NEW M, Poised(M), M.pd => Holds(M.fprs, 2)
  PROVE  LET R == ReadyAt(c, M)
         IN  /\ DOMAIN R = DOMAIN M /\ R.fprs = M.fprs /\ ~R.starved
             /\ R.gprs = IF CachesRc(c) THEN {4, 5, 7} ELSE {3, 4, 5, 7}
             /\ R.node = [n \in Ids(c) |-> NoReg] /\ R.cmp = <<>> /\ R.next = 0
             /\ R.rc.on = CachesRc(c)
<1> DEFINE B == alloc_gpr(begin_ir(M), TmpPlace)
           L == flush_incoming(B)
           K == IF CachesRc(c) THEN alloc_gpr(L, RcPlace) ELSE L
<1>1. /\ DOMAIN B = DOMAIN M /\ B.gprs = {3, 4, 5, 7} /\ B.fprs = M.fprs
      /\ B.starved = M.starved /\ B.pd = M.pd
  BY BeginIs DEF Poised
<1> HIDE DEF B
<1>2. Stays(B, L)
  BY <1>1, IncomingStays
<1> HIDE DEF L
<1>3. DOMAIN L = DOMAIN M /\ L.gprs = {3, 4, 5, 7} /\ L.fprs = M.fprs /\ L.starved = M.starved
  BY <1>1, <1>2 DEF Stays
<1>4. /\ DOMAIN K = DOMAIN M /\ K.fprs = M.fprs /\ K.starved = M.starved
      /\ K.gprs = IF CachesRc(c) THEN {4, 5, 7} ELSE {3, 4, 5, 7}
  <2>1. 3 \in {3, 4, 5, 7} /\ {3, 4, 5, 7} \ {3} = {4, 5, 7}
    OBVIOUS
  <2>2. /\ DOMAIN alloc_gpr(L, RcPlace) = DOMAIN L /\ alloc_gpr(L, RcPlace).fprs = L.fprs
        /\ alloc_gpr(L, RcPlace).starved = L.starved /\ alloc_gpr(L, RcPlace).gprs = {4, 5, 7}
    BY <1>3, <2>1 DEF alloc_gpr, RcPlace, Poised, Fields, PoolFields
  <2> QED BY <1>3, <2>2
<1> HIDE DEF K
<1> DEFINE R == [K EXCEPT !.node = [n \in Ids(c) |-> NoReg], !.cmp = <<>>, !.name = <<>>, !.next = 0,
                          !.rc = [on |-> CachesRc(c), valid |-> FALSE, v |-> NoVal]]
<1>5. {"node", "cmp", "name", "next", "rc"} \subseteq DOMAIN K
  BY <1>4 DEF Poised, Fields, PoolFields
<1>6. /\ DOMAIN R = DOMAIN K /\ R.fprs = K.fprs /\ R.starved = K.starved /\ R.gprs = K.gprs
      /\ R.node = [n \in Ids(c) |-> NoReg] /\ R.cmp = <<>> /\ R.next = 0
      /\ R.rc = [on |-> CachesRc(c), valid |-> FALSE, v |-> NoVal]
  BY <1>5
<1>7. R = ReadyAt(c, M)
  BY DEF ReadyAt, R, K, L, B
<1> HIDE DEF R
<1>8. R.rc.on = CachesRc(c) /\ ~R.starved
  BY <1>4, <1>6 DEF Poised
<1> QED BY <1>4, <1>6, <1>7, <1>8

LEMMA ReadyGoes ==
  ASSUME NEW c, Wellformed(c), Paired(c), NEW R, NEW F, Holds(F, 0), Fields \subseteq DOMAIN R, R.fprs = F,
         ~R.starved, R.gprs = IF CachesRc(c) THEN {4, 5, 7} ELSE {3, 4, 5, 7},
         R.node = [n \in Ids(c) |-> NoReg], R.cmp = <<>>, R.next = 0, R.rc.on = CachesRc(c),
         NEW b, NEW Q, Kept4(Q), Q.held = 0
  PROVE  Goes(c, F, R, FprStart(b), Q, 0)
<1>1. HeldBy(R) = {} /\ DOMAIN R.node = Ids(c)
  BY DEF HeldBy
<1>2. Places(R) = {}
  BY <1>1 DEF Places
<1>3. Ready(F, R)
  BY <1>1, <1>2 DEF Ready, Placed
<1>4. Tallied(c, FprStart(b)) /\ FprStart(b).hold = {}
  BY FS_EmptySet DEF Tallied, FprStart
<1>5. Idle(R, Q)
  BY DEF Idle
<1>6. \A j \in Ids(c) : Waiting(NodeAt(c, j)) => ~(NodeAt(c, j).in[1] < 0)
  <2>1. \A j \in Ids(c) : ~(j < 0)
    BY DEF Ids, Wellformed
  <2> QED BY <2>1 DEF Paired
<1>7. Coherent(c, R, Q, 0)
  BY <1>5, <1>6 DEF Coherent
<1>8. \A j \in Ids(c) : ~(j < 0)
  BY DEF Ids, Wellformed
<1> QED BY <1>1, <1>3, <1>4, <1>7, <1>8 DEF Goes

LEMMA MaxInt ==
  ASSUME NEW a \in Int, NEW b \in Int
  PROVE  Max({a, b}) \in Int
<1>1. \E x \in {a, b} : \A y \in {a, b} : x >= y
  <2>1. CASE a >= b
    BY <2>1
  <2>2. CASE b >= a
    BY <2>2
  <2> QED BY <2>1, <2>2
<1>2. Max({a, b}) \in {a, b}
  BY <1>1 DEF Max
<1> QED BY <1>2

\* The count of GPRs, over the nodes numbered as they are.
LEMMA GprsCounted ==
  ASSUME NEW c, Len(c.nodes) \in Nat, NEW M, Poised(M), NEW gb,
         peak_live_gprs(c, M, gb).peak <= Cardinality(M.gprs)
  PROVE  LET own    == 4 - Cardinality(Pinned(M))
             pinned == own + IF CachesRc(c) THEN 1 ELSE 0
         IN  /\ pinned \in Int
             /\ \E Q, g : /\ Kept4(Q) /\ Q.held = 0 /\ GprRuns(c, pinned, Q, g)
                          /\ g[Len(c.nodes)].peak <= pinned + IF CachesRc(c) THEN 3 ELSE 4
<1> DEFINE own    == 4 - cached_gprs(M)
           pinned == own + IF CachesRc(c) THEN 1 ELSE 0
           first  == own + preamble_gprs(M)
           most   == Max({pinned, first})
           Q == [held |-> 0, peak |-> most, budget |-> gb,
                 over |-> IF first > gb /\ Len(c.nodes) > 0 THEN 0 ELSE None]
           end == GprWalk!Through(c, pinned, 0, Q, Ascending(c))
           N == Len(c.nodes)
<1>1. /\ Cardinality(Pinned(M)) \in Nat /\ cached_gprs(M) = Cardinality(Pinned(M))
      /\ Cardinality(M.gprs) = 8 - Cardinality(Pinned(M))
  BY PinnedIs DEF Poised
<1>2. own \in Int /\ pinned \in Int /\ first \in Int
  BY <1>1 DEF preamble_gprs
<1>3. most \in Int
  <2> HIDE DEF pinned, first
  <2> QED BY <1>2, MaxInt
<1> HIDE DEF most
<1>4. Kept4(Q) /\ Q.held = 0
  BY <1>3 DEF Kept4
<1>5. /\ peak_live_gprs(c, M, gb) = IF c.delta = 0 THEN end ELSE Raise(end, pinned - 1 + end.held + 2, Newest(c))
  BY DEF peak_live_gprs, most, GprWalk!Through, GprWalk!Walk, Walk, GprTurn
<1> HIDE DEF Q
<1>6. PICK g : GprRuns(c, pinned, Q, g) /\ end = g[N]
  <2> HIDE DEF pinned
  <2>1. \E g : GprRuns(c, pinned, Q, g) /\ GprWalk!Through(c, pinned, 0, Q, Ascending(c)) = g[N]
    BY GprUnrolls
  <2> QED BY <2>1
<1> HIDE DEF end
<1>7. Kept4(end)
  <2>1. N \in 0..N
    OBVIOUS
  <2> HIDE DEF pinned
  <2> QED BY <1>2, <1>4, <1>6, <2>1, GprPeaks
<1>8. end.peak <= peak_live_gprs(c, M, gb).peak /\ peak_live_gprs(c, M, gb).peak \in Int /\ end.peak \in Int
  <2>1. CASE c.delta = 0
    BY <1>5, <1>7, <2>1 DEF Kept4
  <2>2. CASE c.delta # 0
    <3> DEFINE t == pinned - 1 + end.held + 2
    <3>1. t \in Int
      <4> HIDE DEF pinned
      <4> QED BY <1>2, <1>7 DEF Kept4
    <3> HIDE DEF t
    <3>2. LET R == Raise(end, t, Newest(c)) IN R.peak \in Int /\ R.peak >= end.peak
      BY <1>7, <3>1, RaiseIs DEF Kept4
    <3>3. peak_live_gprs(c, M, gb) = Raise(end, t, Newest(c))
      BY <1>5, <2>2 DEF t
    <3> QED BY <1>7, <3>2, <3>3 DEF Kept4
  <2> QED BY <2>1, <2>2
<1>9. end.peak <= 8 - Cardinality(Pinned(M))
  BY <1>1, <1>8
<1>10. 8 - Cardinality(Pinned(M)) = pinned + IF CachesRc(c) THEN 3 ELSE 4
  BY <1>1
<1>11. g[N].peak <= pinned + IF CachesRc(c) THEN 3 ELSE 4
  <2> HIDE DEF pinned
  <2> QED BY <1>6, <1>9, <1>10
<1>12. pinned = (4 - Cardinality(Pinned(M))) + IF CachesRc(c) THEN 1 ELSE 0
  BY <1>1
<1> HIDE DEF pinned
<1> QED BY <1>2, <1>4, <1>6, <1>11, <1>12

\* A body whose peak_live_fprs and peak_live_gprs are within the registers that are
\* free is lowered, and its status registers and slots are published, without an
\* alloc_free_fpr or alloc_free_gpr that finds its pool empty (lower and the two
\* counts of X87IRLower.cpp).
THEOREM LowerFits ==
  ASSUME NEW c, Wellformed(c), Reduced(c), Paired(c), "last" \in DOMAIN c,
         NEW M, Poised(M), Holds(M.fprs, 0), M.pd => Holds(M.fprs, 2),
         NEW b, peak_live_fprs(c, b).peak <= Cardinality(M.fprs),
         NEW gb, peak_live_gprs(c, M, gb).peak <= Cardinality(M.gprs)
  PROVE  ~lower(c, M).starved
<1> DEFINE N == Len(c.nodes)
           F == M.fprs
           d == compute_last_uses(c)
           R == ReadyAt(c, M)
           T == lower_nodes(d, R)
           pinned == (4 - Cardinality(Pinned(M))) + IF CachesRc(c) THEN 1 ELSE 0
<1>1. N \in Nat
  BY DEF Wellformed
<1>2. LastOk(d) /\ d.nodes = c.nodes
  BY <1>1, LastUsesAre
<1> HIDE DEF d
<1>3. /\ Ids(d) = Ids(c) /\ (\A i : NodeAt(d, i) = NodeAt(c, i)) /\ CachesRc(d) = CachesRc(c)
      /\ Wellformed(d) /\ Reduced(d) /\ Paired(d)
  BY <1>2, SameNodes
<1>4. PICK Q, g : /\ pinned \in Int /\ Kept4(Q) /\ Q.held = 0 /\ GprRuns(c, pinned, Q, g)
                  /\ g[N].peak <= pinned + IF CachesRc(c) THEN 3 ELSE 4
  BY <1>1, GprsCounted
<1> HIDE DEF pinned
<1>5. GprRuns(d, pinned, Q, g)
  <2>1. \A Z, i : CountGprs(d, pinned, Z, i) = CountGprs(c, pinned, Z, i)
    BY <1>3 DEF CountGprs
  <2> QED BY <1>3, <1>4, <2>1 DEF GprRuns
<1>6. PICK p : FprRuns(d, b, p) /\ peak_live_fprs(c, b) = p[N]
  BY <1>1, <1>2, FprUnrolls DEF d
<1>7. /\ DOMAIN R = DOMAIN M /\ R.fprs = F /\ ~R.starved
      /\ R.gprs = IF CachesRc(c) THEN {4, 5, 7} ELSE {3, 4, 5, 7}
      /\ R.node = [n \in Ids(c) |-> NoReg] /\ R.cmp = <<>> /\ R.next = 0
      /\ R.rc.on = CachesRc(c)
  BY ReadyIs
<1> HIDE DEF R
<1>8. Goes(d, F, R, FprStart(b), Q, 0)
  <2>1. Fields \subseteq DOMAIN R
    BY <1>7 DEF Poised
  <2> HIDE DEF F
  <2> QED BY <1>3, <1>4, <1>7, <2>1, ReadyGoes DEF F
<1>9. PICK f : LowerRuns(d, R, f)
  BY <1>1, <1>2, LowerUnrolls
<1>10. Goes(d, F, T, p[N], g[N], N)
  <2>1. Len(d.nodes) = N
    BY <1>2
  <2>2. p[Len(d.nodes)].peak <= Cardinality(F)
            /\ g[Len(d.nodes)].peak <= pinned + IF CachesRc(d) THEN 3 ELSE 4
    BY <1>3, <1>4, <1>6, <2>1
  <2> HIDE DEF N, F
  <2>3. Holds(F, 0)
    BY DEF F
  <2> QED BY <1>2, <1>3, <1>4, <1>5, <1>6, <1>8, <1>9, <2>1, <2>2, <2>3, WalkGoes
<1> HIDE DEF T
<1>11. Fields \subseteq DOMAIN T /\ ~T.starved /\ Holds(T.gprs, 2)
  <2>1. T.gprs \in {{4, 5, 7}, {3, 4, 5, 7}, {3, 5, 7}}
    BY <1>10 DEF Goes, Coherent, Idle, Holding
  <2>2. Holds({3, 4, 5, 7}, 2) /\ Holds({3, 5, 7}, 2) /\ Holds({4, 5, 7}, 2)
    BY Full, FewerHeld
  <2> QED BY <1>10, <2>1, <2>2 DEF Goes, Ready
<1> DEFINE moved == [T EXCEPT !.w = Shift(@, c.delta)]
           U == store_stack(c, moved)
<1>12. DOMAIN moved = DOMAIN T /\ moved.starved = T.starved /\ moved.gprs = T.gprs
  OBVIOUS
<1> HIDE DEF moved
<1>13. Stays(moved, U)
  BY StackStays
<1> HIDE DEF U
<1>14. Fields \subseteq DOMAIN U /\ ~U.starved /\ Holds(U.gprs, 2)
  BY <1>11, <1>12, <1>13 DEF Stays
<1>15. ~update_tags(c, U).starved
  BY <1>14, TagsServed
<1>16. ~release(update_tags(c, U)).starved
  BY <1>15, ReleaseServed
<1>17. lower(c, M) = release(update_tags(c, U))
  BY DEF lower, U, moved, T, d, R, ReadyAt
<1> QED BY <1>16, <1>17

=============================================================================
