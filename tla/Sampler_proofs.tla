--------------------------- MODULE Sampler_proofs ---------------------------
(***************************************************************************)
(* What the sampler never leaves, and that its ring implements the queue.  *)
(*                                                                         *)
(* The ring is proved about by way of chains: a sequence of samples and    *)
(* the places their first words have in the ring.  There is such a chain   *)
(* from tail to head in every state (RingOK), what drainRing finds is that *)
(* chain (StoredIs), and no push into the free words disturbs it           *)
(* (PushKeeps), wherever the indices wrap.  On that rest the books: what   *)
(* was taken and what was recorded (Books), what a flush asks for and what *)
(* has been written (Flushing), and how the windows of the series add up   *)
(* to the run and the profile (SeriesOK).                                  *)
(***************************************************************************)
EXTENDS Sampler, SequenceTheorems, WellFoundedInduction, TLAPS

-----------------------------------------------------------------------------
(* Induction *)

\* What holds of 0, and of each number after one it holds of, holds of all.
LEMMA Inductive ==
  ASSUME NEW S, 0 \in S, \A n \in Nat : n \in S => n + 1 \in S
  PROVE  Nat \subseteq S
<1> DEFINE R == OpToRel(<, Nat)
           D == Nat \ S
<1> SUFFICES ASSUME D # {} PROVE FALSE
  OBVIOUS
<1>1. \E x \in D : \A y \in D : ~ (<<y, x>> \in R)
  <2>1. D \subseteq Nat
    OBVIOUS
  <2> HIDE DEF D
  <2> QED BY <2>1, NatLessThanWellFounded, WFMin
<1>2. PICK x \in D : \A y \in D : ~ (<<y, x>> \in R)
  BY <1>1
<1>3. \A y \in D : ~ (y < x)
  BY <1>2 DEF OpToRel
<1>4. x - 1 \in Nat /\ x - 1 \notin D
  <2>1. x \in Nat /\ x # 0
    OBVIOUS
  <2>2. x - 1 \in Nat /\ x - 1 < x
    BY <2>1
  <2> QED BY <1>3, <2>2
<1>5. (x - 1) + 1 \in S
  BY <1>4
<1> QED BY <1>5

-----------------------------------------------------------------------------
(* Places in the ring *)

LEMMA ModIs ==
  ASSUME NEW q \in Nat, NEW r \in 0..RingWords - 1, NEW a, a = RingWords * q + r
  PROVE  a % RingWords = r
BY RingAssumption

LEMMA ModSplits ==
  ASSUME NEW a \in Nat
  PROVE  \E q \in Nat, r \in 0..RingWords - 1 : a = RingWords * q + r /\ a % RingWords = r
<1>1. a \div RingWords \in Nat /\ a % RingWords \in 0..RingWords - 1
  BY RingAssumption
<1>2. a = RingWords * (a \div RingWords) + (a % RingWords)
  BY RingAssumption
<1> QED BY <1>1, <1>2

\* Places less than a lap apart are apart by their distance.
LEMMA Offset ==
  ASSUME NEW h \in Nat, NEW d \in 0..RingWords - 1
  PROVE  /\ (h + d) % RingWords \in 0..RingWords - 1
         /\ (((h + d) % RingWords) + RingWords - (h % RingWords)) % RingWords = d
<1> PICK q \in Nat, r \in 0..RingWords - 1 : h = RingWords * q + r /\ h % RingWords = r
  BY ModSplits
<1> RingWords \in Nat \ {0}
  BY RingAssumption
<1>1. \E u \in 0..RingWords - 1, x \in {0, 1} :
        /\ (h + d) % RingWords = u
        /\ u + RingWords - r = RingWords * x + d
  <2>1. CASE r + d < RingWords
    <3>1. r + d \in 0..RingWords - 1 /\ h + d = RingWords * q + (r + d)
      BY <2>1
    <3>2. (h + d) % RingWords = r + d
      BY <3>1, ModIs
    <3>3. (r + d) + RingWords - r = RingWords * 1 + d
      OBVIOUS
    <3> QED BY <3>1, <3>2, <3>3
  <2>2. CASE r + d >= RingWords
    <3> PICK e \in 0..RingWords - 1, g \in Nat : e = r + d - RingWords /\ g = q + 1
      BY <2>2
    <3>1. h + d = RingWords * g + e
      <4>1. RingWords * g = RingWords * q + RingWords
        OBVIOUS
      <4>2. RingWords * q \in Nat
        OBVIOUS
      <4> QED BY <4>1, <4>2
    <3>2. (h + d) % RingWords = e
      BY <3>1, ModIs
    <3>3. e + RingWords - r = RingWords * 0 + d
      OBVIOUS
    <3> QED BY <3>2, <3>3
  <2> QED BY <2>1, <2>2
<1>2. PICK u \in 0..RingWords - 1, x \in {0, 1} :
        /\ (h + d) % RingWords = u
        /\ u + RingWords - r = RingWords * x + d
  BY <1>1
<1>3. (u + RingWords - r) % RingWords = d
  <2>1. x \in Nat
    OBVIOUS
  <2> QED BY <1>2, <2>1, ModIs
<1> QED BY <1>2, <1>3

\* A place and the one a lap behind it are the same.
LEMMA SameLap ==
  ASSUME NEW p \in Nat
  PROVE  (p + RingWords) % RingWords = p % RingWords
<1> PICK q \in Nat, r \in 0..RingWords - 1 : p = RingWords * q + r /\ p % RingWords = r
  BY ModSplits
<1> RingWords \in Nat \ {0}
  BY RingAssumption
<1>1. p + RingWords = RingWords * (q + 1) + r
  <2>1. RingWords * (q + 1) = RingWords * q + RingWords
    OBVIOUS
  <2>2. RingWords * q \in Nat
    OBVIOUS
  <2> QED BY <2>1, <2>2
<1> QED BY <1>1, ModIs

\* Words go where they are looked for, and overwrite nothing that is less than
\* a lap behind the last of them.
LEMMA FilledIs ==
  ASSUME ring.head \in Nat, NEW w \in Seq(Nat), Len(w) <= RingWords,
         ring.slots \in [0..RingWords - 1 -> Nat]
  PROVE  /\ Filled(w) \in [0..RingWords - 1 -> Nat]
         /\ \A j \in 1..Len(w) : Filled(w)[(ring.head + j - 1) % RingWords] = w[j]
         /\ \A p \in Nat : p < ring.head /\ ring.head + Len(w) <= p + RingWords =>
              Filled(w)[p % RingWords] = Slot(p)
<1> PICK h \in Nat, n \in Nat : h = ring.head /\ n = Len(w)
  OBVIOUS
<1> RingWords \in Nat \ {0}
  BY RingAssumption
<1> DEFINE k(i) == (i + RingWords - (h % RingWords)) % RingWords
<1>0. Filled(w) = [i \in 0..RingWords - 1 |-> IF k(i) < n THEN w[k(i) + 1] ELSE ring.slots[i]]
  BY DEF Filled
<1>1. ASSUME NEW i \in 0..RingWords - 1 PROVE k(i) \in Nat
  <2>1. h % RingWords \in 0..RingWords - 1
    OBVIOUS
  <2>2. i + RingWords - (h % RingWords) \in Nat
    BY <2>1
  <2> QED BY <2>2
<1>2. ASSUME NEW d \in 0..RingWords - 1
      PROVE  /\ (h + d) % RingWords \in 0..RingWords - 1
             /\ k((h + d) % RingWords) = d
  BY Offset
<1> HIDE DEF k
<1>3. Filled(w) \in [0..RingWords - 1 -> Nat]
  <2> SUFFICES ASSUME NEW i \in 0..RingWords - 1
               PROVE  (IF k(i) < n THEN w[k(i) + 1] ELSE ring.slots[i]) \in Nat
    BY <1>0
  <2>1. k(i) < n => k(i) + 1 \in 1..Len(w)
    BY <1>1, SMTT(30)
  <2>2. \A j \in 1..Len(w) : w[j] \in Nat
    OBVIOUS
  <2> QED BY <2>1, <2>2
<1>4. ASSUME NEW j \in 1..n PROVE Filled(w)[(ring.head + j - 1) % RingWords] = w[j]
  <2>1. j - 1 \in 0..RingWords - 1 /\ h + j - 1 = h + (j - 1)
    OBVIOUS
  <2>2. (h + j - 1) % RingWords \in 0..RingWords - 1 /\ k((h + j - 1) % RingWords) = j - 1
    BY <1>2, <2>1
  <2> QED BY <1>0, <2>2, SMTT(30)
<1>5. ASSUME NEW p \in Nat, p < h, h + n <= p + RingWords
      PROVE  Filled(w)[p % RingWords] = Slot(p)
  <2> DEFINE d == p + RingWords - h
  <2>1. d \in 0..RingWords - 1 /\ h + d = p + RingWords /\ n <= d
    BY <1>5
  <2>2. p % RingWords \in 0..RingWords - 1 /\ k(p % RingWords) = d
    BY <1>2, <2>1, SameLap
  <2> QED BY <1>0, <2>1, <2>2 DEF Slot
<1> QED BY <1>3, <1>4, <1>5

-----------------------------------------------------------------------------
(* Samples and their words *)

LEMMA Room == DepthRoom \in Nat /\ DepthRoom >= 2
BY DEF DepthRoom

LEMMA DivMod ==
  ASSUME NEW q \in Nat, NEW r \in Nat, r < 65536
  PROVE  (q * 65536 + r) \div 65536 = q /\ (q * 65536 + r) % 65536 = r
OBVIOUS

\* A header says what was put into it.
LEMMA HeaderIs ==
  ASSUME NEW kind \in 0..2, NEW inRange \in BOOLEAN, NEW depth \in Nat, depth < DepthRoom
  PROVE  \E hdr \in Nat : /\ hdr = sampleHeader(kind, inRange, depth)
                          /\ Kind(hdr) = kind /\ Depth(hdr) = depth
                          /\ InRange(hdr) = inRange
<1> PICK b \in {0, 1} : b = (IF inRange THEN 1 ELSE 0)
  OBVIOUS
<1> PICK e \in Nat : e = kind * 2 + b
  OBVIOUS
<1>0. depth < 65536
  BY DEF DepthRoom
<1> DEFINE hdr == e * 65536 + depth
<1>1. sampleHeader(kind, inRange, depth) = hdr
  BY DEF sampleHeader, DepthRoom
<1>2. hdr \in Nat
  OBVIOUS
<1>3. Kind(hdr) = kind
  <2>1. ((kind * 2 + b) * 65536 + depth) \div 131072 = kind
    BY <1>0
  <2> QED BY <2>1 DEF Kind, DepthRoom
<1>4. Depth(hdr) = depth
  BY <1>0, DivMod DEF Depth, DepthRoom
<1>5. InRange(hdr) = inRange
  <2>1. hdr \div 65536 = e
    BY <1>0, DivMod
  <2>2. (kind * 2 + b) % 2 = b
    OBVIOUS
  <2>3. (hdr \div DepthRoom) % 2 = b
    BY <2>1, <2>2 DEF DepthRoom
  <2> HIDE DEF hdr
  <2>4. InRange(hdr) <=> b = 1
    BY <2>3 DEF InRange
  <2> QED BY <2>4 DEF InRange
<1> QED BY <1>1, <1>2, <1>3, <1>4, <1>5

LEMMA SampleTyped ==
  ASSUME NEW s \in Samples
  PROVE  /\ s.tid \in Nat /\ s.kind \in 0..2 /\ s.inRange \in BOOLEAN
         /\ s.pcs \in Seq(Nat) /\ s.tid \in Threads /\ s # None
<1> PICK t \in Threads, o \in Outcomes : s = Sample(t, o)
  BY DEF Samples
<1>1. s.tid = t /\ s.kind = o.kind /\ s.inRange = o.inRange /\ s.pcs = o.pcs
  BY DEF Sample
<1>2. t \in Nat
  BY ThreadsAssumption
<1>3. o.inRange \in BOOLEAN /\ o.pcs \in Seq(Nat) /\ o.kind \in 0..2
  BY OutcomesAssumption DEF Resolved, NotTranslated, Unavailable
<1> QED BY <1>1, <1>2, <1>3, NoneAssumption

\* A sample has as many addresses as its kind says.
LEMMA SampleSized ==
  ASSUME NEW s \in Samples
  PROVE  \E n \in Nat :
           /\ n = Len(s.pcs) /\ n <= DepthRoom
           /\ s.kind = Resolved => n >= 1
           /\ s.kind = NotTranslated => n = 2
           /\ s.kind = Unavailable => n = 0
           /\ s.kind \in {Resolved, NotTranslated, Unavailable}
<1>0. PICK t \in Threads, o \in Outcomes : s = Sample(t, o)
  BY DEF Samples
<1>1. PICK n \in Nat : n = Len(o.pcs)
  BY OutcomesAssumption
<1>2. s.kind = o.kind /\ s.pcs = o.pcs
  BY <1>0 DEF Sample
<1>3. \/ o.kind = Resolved /\ n \in 1..DepthRoom
      \/ o.kind = NotTranslated /\ n = 2
      \/ o.kind = Unavailable /\ n = 0
  BY <1>1, OutcomesAssumption
<1>4. (n \in 1..DepthRoom => n >= 1) /\ n <= DepthRoom
  BY <1>3, Room
<1>5. /\ o.kind = Resolved => n >= 1
      /\ o.kind = NotTranslated => n = 2
      /\ o.kind = Unavailable => n = 0
      /\ o.kind \in {Resolved, NotTranslated, Unavailable}
  BY <1>3, <1>4 DEF Resolved, NotTranslated, Unavailable
<1> QED BY <1>1, <1>2, <1>4, <1>5

\* A sample is made of its fields.
LEMMA SampleIs ==
  ASSUME NEW s \in Samples
  PROVE  s = [tid |-> s.tid, kind |-> s.kind, inRange |-> s.inRange, pcs |-> s.pcs]
BY DEF Samples, Sample

\* The depth in the header of a sample.
HeaderDepth(s) == IF s.kind = Resolved THEN Len(s.pcs) - 1 ELSE 0

\* The words of a sample: two, and its addresses.
LEMMA EncodeIs ==
  ASSUME NEW s \in Samples
  PROVE  /\ Encode(s) \in Seq(Nat) /\ Len(Encode(s)) = Width(s)
         /\ Len(s.pcs) \in Nat /\ Width(s) = 2 + Len(s.pcs)
         /\ Encode(s)[1] = s.tid
         /\ \A i \in 1..Len(s.pcs) : Encode(s)[2 + i] = s.pcs[i]
<1> PICK p \in Seq(Nat), t \in Nat : p = s.pcs /\ t = s.tid
  BY SampleTyped
<1>0. PICK hdr \in Nat : Encode(s) = <<t, hdr>> \o p
  <2>1. HeaderDepth(s) \in Nat /\ HeaderDepth(s) < DepthRoom
    BY Room, SampleSized DEF HeaderDepth, Resolved, NotTranslated, Unavailable
  <2>2. s.kind \in 0..2 /\ s.inRange \in BOOLEAN
    BY SampleTyped
  <2>3. sampleHeader(s.kind, s.inRange, HeaderDepth(s)) \in Nat
    BY <2>1, <2>2, HeaderIs
  <2> QED BY <2>3 DEF Encode, HeaderDepth
<1>1. <<t, hdr>> \in Seq(Nat) /\ Len(<<t, hdr>>) = 2
  OBVIOUS
<1>2. /\ Encode(s) \in Seq(Nat) /\ Len(Encode(s)) = 2 + Len(p)
      /\ Encode(s)[1] = t
      /\ \A i \in 1..Len(p) : Encode(s)[2 + i] = p[i]
  BY <1>0, <1>1
<1>3. Len(s.pcs) \in Nat /\ Len(p) = Len(s.pcs)
  OBVIOUS
<1>4. Width(s) = 2 + Len(s.pcs) /\ Len(Encode(s)) = Width(s)
  BY <1>2, <1>3 DEF Width
<1> QED BY <1>2, <1>3, <1>4

\* The header announces them.
LEMMA HeaderOf ==
  ASSUME NEW s \in Samples
  PROVE  /\ Kind(Encode(s)[2]) = s.kind /\ InRange(Encode(s)[2]) = s.inRange
         /\ Words(Encode(s)[2]) = Width(s)
         /\ Width(s) \in Nat /\ Width(s) >= 2 /\ Width(s) <= DepthRoom + 2
<1>0. PICK n \in Nat :
        /\ n = Len(s.pcs) /\ n <= DepthRoom
        /\ s.kind = Resolved => n >= 1
        /\ s.kind = NotTranslated => n = 2
        /\ s.kind = Unavailable => n = 0
        /\ s.kind \in {Resolved, NotTranslated, Unavailable}
  BY SampleSized
<1>1. /\ HeaderDepth(s) \in Nat /\ HeaderDepth(s) < DepthRoom
      /\ s.kind = Resolved => HeaderDepth(s) = n - 1
  BY <1>0, Room DEF HeaderDepth
<1>2. s.kind \in 0..2 /\ s.inRange \in BOOLEAN
  BY SampleTyped
<1>3. PICK hdr \in Nat :
        /\ hdr = sampleHeader(s.kind, s.inRange, HeaderDepth(s))
        /\ Kind(hdr) = s.kind /\ Depth(hdr) = HeaderDepth(s) /\ InRange(hdr) = s.inRange
  BY <1>1, <1>2, HeaderIs
<1>4. Encode(s)[2] = hdr
  <2> PICK p \in Seq(Nat), t \in Nat : p = s.pcs /\ t = s.tid
    BY SampleTyped
  <2>1. Encode(s) = <<t, hdr>> \o p
    BY <1>3 DEF Encode, HeaderDepth
  <2>2. <<t, hdr>> \in Seq(Nat) /\ Len(<<t, hdr>>) = 2
    OBVIOUS
  <2> QED BY <2>1, <2>2
<1>5. Words(hdr) = 2 + n
  <2>1. CASE s.kind = Resolved
    <3> PICK d \in Nat : d = Depth(hdr) /\ d = n - 1
      BY <1>1, <1>3, <2>1
    <3>1. Kind(hdr) = Resolved /\ Kind(hdr) # NotTranslated
      BY <1>3, <2>1 DEF Resolved, NotTranslated
    <3>2. Words(hdr) = 3 + d
      BY <3>1 DEF Words
    <3> QED BY <3>2
  <2>2. CASE s.kind = NotTranslated
    <3>1. Kind(hdr) = NotTranslated /\ Kind(hdr) # Resolved
      BY <1>3, <2>2 DEF Resolved, NotTranslated
    <3>2. Words(hdr) = 4
      BY <3>1 DEF Words
    <3>3. n = 2
      BY <1>0, <2>2
    <3> QED BY <3>2, <3>3
  <2>3. CASE s.kind = Unavailable
    <3>1. Kind(hdr) # NotTranslated /\ Kind(hdr) # Resolved
      BY <1>3, <2>3 DEF Resolved, NotTranslated, Unavailable
    <3>2. Words(hdr) = 2
      BY <3>1 DEF Words
    <3>3. n = 0
      BY <1>0, <2>3
    <3> QED BY <3>2, <3>3
  <2> QED BY <1>0, <2>1, <2>2, <2>3
<1>6. 2 + n \in Nat /\ 2 + n >= 2 /\ 2 + n <= DepthRoom + 2
  <2> PICK D \in Nat : D = DepthRoom /\ D >= 2
    BY Room
  <2>1. n <= D
    BY <1>0
  <2> QED BY <2>1
<1> QED BY <1>0, <1>3, <1>4, <1>5, <1>6, EncodeIs

\* Words that are those of a sample are read as that sample.
LEMMA DecodeIs ==
  ASSUME NEW s \in Samples, NEW p \in Nat,
         \A j \in 1..Width(s) : Slot(p + j - 1) = Encode(s)[j]
  PROVE  Decode(p) = s /\ Words(Slot(p + 1)) = Width(s)
<1>1. Slot(p) = s.tid /\ Slot(p + 1) = Encode(s)[2]
  <2>1. 1 \in 1..Width(s) /\ 2 \in 1..Width(s) /\ p + 1 - 1 = p /\ p + 2 - 1 = p + 1
    BY HeaderOf
  <2> QED BY <2>1, EncodeIs
<1>2. Words(Slot(p + 1)) = Width(s) /\ Kind(Slot(p + 1)) = s.kind
      /\ InRange(Slot(p + 1)) = s.inRange
  BY <1>1, HeaderOf
<1>3. [i \in 1..Words(Slot(p + 1)) - 2 |-> Slot(p + 1 + i)] = s.pcs
  <2>1. ASSUME NEW i \in 1..Len(s.pcs) PROVE Slot(p + 1 + i) = s.pcs[i]
    <3>1. 2 + i \in 1..Width(s) /\ p + (2 + i) - 1 = p + 1 + i
      <4> PICK n \in Nat : n = Len(s.pcs) /\ Width(s) = 2 + n
        BY EncodeIs
      <4> QED OBVIOUS
    <3> QED BY <3>1, EncodeIs
  <2>2. Words(Slot(p + 1)) - 2 = Len(s.pcs)
    BY <1>2, EncodeIs
  <2>3. [i \in 1..Len(s.pcs) |-> s.pcs[i]] = s.pcs
    <3> PICK q \in Seq(Nat) : q = s.pcs
      BY SampleTyped
    <3>1. q = [i \in 1..Len(q) |-> q[i]]
      OBVIOUS
    <3> QED BY <3>1
  <2> QED BY <2>1, <2>2, <2>3
<1> QED BY <1>1, <1>2, <1>3, SampleIs DEF Decode

-----------------------------------------------------------------------------
(* What is in the ring *)

RingTyped ==
  /\ ring \in [slots : [0..RingWords - 1 -> Nat], head : Nat, tail : Nat, dropped : Nat]
  /\ ring.tail <= ring.head

LEMMA SlotTyped ==
  ASSUME RingTyped, NEW p \in Nat
  PROVE  Slot(p) \in Nat
<1>1. p % RingWords \in 0..RingWords - 1
  BY RingAssumption
<1> QED BY <1>1 DEF RingTyped, Slot

\* No header announces fewer words than two, or more than its depth allows.
LEMMA WordsBounded ==
  ASSUME NEW hdr \in Nat
  PROVE  Words(hdr) \in Nat /\ Words(hdr) >= 2 /\ Words(hdr) <= DepthRoom + 2
<1> PICK D \in Nat : D = DepthRoom /\ D >= 2
  BY Room
<1> PICK d \in Nat : d = Depth(hdr) /\ d < D
  <2>1. hdr % D \in 0..D - 1
    OBVIOUS
  <2> QED BY <2>1 DEF Depth
<1>1. Words(hdr) \in {3 + d, 4, 2}
  BY DEF Words, Resolved, NotTranslated
<1> QED BY <1>1

Top == ring.head + 2 + DepthRoom
Places == ring.tail..Top
From(f, p) ==
  IF p + 2 > ring.head THEN <<>> ELSE <<Decode(p)>> \o f[p + Words(Slot(p + 1))]

\* The samples from a place on are those from later places, and one.
LEMMA FromExists ==
  ASSUME RingTyped
  PROVE  \E f : f = [p \in Places |-> From(f, p)]
<1>0. PICK h \in Nat, t \in Nat, D \in Nat :
        h = ring.head /\ t = ring.tail /\ t <= h /\ D = DepthRoom
  BY Room DEF RingTyped
<1> PICK top \in Nat : top = h + 2 + D
  OBVIOUS
<1>1. Top = top /\ Places = t..top
  BY <1>0 DEF Top, Places
<1> DEFINE Solves(g, n) == /\ g = [p \in Places |-> g[p]]
                           /\ \A p \in Places : top - p < n => g[p] = From(g, p)
           S == {n \in Nat : \E g : Solves(g, n)}
<1>2. ASSUME NEW f, NEW g, NEW p \in Places,
             \A r \in Places : r > p => f[r] = g[r]
      PROVE  From(f, p) = From(g, p)
  <2>1. CASE p + 2 > ring.head
    BY <2>1 DEF From
  <2>2. CASE p + 2 <= ring.head
    <3>1. p \in Nat /\ p + 1 \in Nat /\ p + 2 <= h
      BY <1>0, <1>1, <2>2
    <3>2. PICK w \in Nat : w = Words(Slot(p + 1)) /\ w >= 2 /\ w <= D + 2
      BY <1>0, <3>1, SlotTyped, WordsBounded
    <3>3. p + w \in Places /\ p + w > p
      <4>1. p \in t..top
        BY <1>1
      <4> QED BY <1>1, <3>1, <3>2, <4>1
    <3>4. f[p + w] = g[p + w]
      BY <1>2, <3>3
    <3> QED BY <3>2, <3>4 DEF From
  <2>3. p + 2 > ring.head \/ p + 2 <= ring.head
    BY <1>0, <1>1
  <2> QED BY <2>1, <2>2, <2>3
<1>3. 0 \in S
  <2>1. Solves([p \in Places |-> <<>>], 0)
    BY <1>1
  <2> QED BY <2>1
<1>4. ASSUME NEW n \in Nat, n \in S PROVE n + 1 \in S
  <2> PICK g : Solves(g, n)
    BY <1>4
  <2> DEFINE e == [p \in Places |-> IF top - p = n THEN From(g, p) ELSE g[p]]
  <2>1. ASSUME NEW p \in Places, top - p < n + 1 PROVE e[p] = From(e, p)
    <3>1. ASSUME NEW r \in Places, r > p PROVE e[r] = g[r]
      <4>1. p \in t..top /\ r \in t..top
        BY <1>1
      <4>2. top - r # n
        BY <2>1, <3>1, <4>1
      <4> QED BY <4>2
    <3>2. From(e, p) = From(g, p)
      <4> HIDE DEF e
      <4> QED BY <1>2, <3>1
    <3>3. CASE top - p = n
      BY <3>2, <3>3
    <3>4. CASE top - p # n
      <4>1. top - p < n
        <5>1. p \in t..top
          BY <1>1
        <5> QED BY <2>1, <3>4, <5>1
      <4> QED BY <3>2, <3>4, <4>1
    <3> QED BY <3>3, <3>4
  <2>2. e = [p \in Places |-> e[p]]
    OBVIOUS
  <2> HIDE DEF e
  <2> QED BY <2>1, <2>2
<1>5. top - t + 1 \in S
  <2> HIDE DEF S
  <2>1. top - t + 1 \in Nat
    BY <1>0
  <2> QED BY <1>3, <1>4, <2>1, Inductive
<1>6. PICK g : Solves(g, top - t + 1)
  BY <1>5
<1>7. \A p \in Places : g[p] = From(g, p)
  <2> SUFFICES ASSUME NEW p \in Places PROVE top - p < top - t + 1
    BY <1>6
  <2>1. p \in t..top
    BY <1>1
  <2> QED BY <2>1
<1> QED BY <1>6, <1>7

LEMMA StoredFrom ==
  ASSUME RingTyped
  PROVE  \E f : f = [p \in Places |-> From(f, p)] /\ Stored = f[ring.tail]
<1> DEFINE f == CHOOSE f : f = [p \in Places |-> From(f, p)]
<1>1. f = [p \in Places |-> From(f, p)]
  BY FromExists
<1>2. Stored = f[ring.tail]
  BY DEF Stored, Places, Top, From
<1> QED BY <1>1, <1>2

\* The samples of q lie between tail and head, one behind the other, the i-th
\* one at word pos[i].
Chain(q, pos) ==
  /\ q \in Seq(Samples)
  /\ pos \in [1..Len(q) + 1 -> Nat]
  /\ pos[1] = ring.tail /\ pos[Len(q) + 1] = ring.head
  /\ \A i \in 1..Len(q) : pos[i + 1] = pos[i] + Width(q[i])
  /\ \A i, j \in 1..Len(q) + 1 : i <= j => pos[i] <= pos[j]
  /\ \A i \in 1..Len(q) : \A j \in 1..Width(q[i]) : Slot(pos[i] + j - 1) = Encode(q[i])[j]

\* What is stored is what was put there.
LEMMA StoredIs ==
  ASSUME RingTyped, NEW q, NEW pos, Chain(q, pos)
  PROVE  Stored = q
<1>1. PICK f : f = [p \in Places |-> From(f, p)] /\ Stored = f[ring.tail]
  BY StoredFrom
<1>0. q \in Seq(Samples)
  BY DEF Chain
<1>2. PICK h \in Nat, t \in Nat, D \in Nat, n \in Nat :
        h = ring.head /\ t = ring.tail /\ t <= h /\ D = DepthRoom /\ n = Len(q)
  <2>1. Len(q) \in Nat
    BY <1>0
  <2> QED BY <2>1, Room DEF RingTyped
<1>3. ASSUME NEW i \in 1..n + 1
      PROVE  pos[i] \in Nat /\ t <= pos[i] /\ pos[i] <= h /\ pos[i] \in Places
  <2>1. 1 \in 1..n + 1 /\ n + 1 \in 1..n + 1 /\ 1 <= i /\ i <= n + 1
    OBVIOUS
  <2>2. pos[i] \in Nat /\ t <= pos[i] /\ pos[i] <= h
    BY <1>2, <2>1 DEF Chain
  <2>3. Places = t..h + 2 + D
    BY <1>2 DEF Places, Top
  <2> QED BY <2>2, <2>3
<1> DEFINE S == {k \in Nat : k <= n => f[pos[n + 1 - k]] = SubSeq(q, n + 1 - k, n)}
<1>4. 0 \in S
  <2>1. f[pos[n + 1]] = From(f, pos[n + 1])
    BY <1>1, <1>3
  <2>2. From(f, pos[n + 1]) = <<>>
    <3>1. pos[n + 1] = h
      BY <1>2 DEF Chain
    <3>2. h + 2 > h
      OBVIOUS
    <3> QED BY <1>2, <3>1, <3>2 DEF From
  <2>3. SubSeq(q, n + 1, n) = <<>>
    <3>1. n + 1 \in Int /\ n \in Int /\ n < n + 1
      OBVIOUS
    <3> QED BY <3>1, SubSeqEmpty
  <2>4. n + 1 - 0 = n + 1
    OBVIOUS
  <2>5. f[pos[n + 1 - 0]] = SubSeq(q, n + 1 - 0, n)
    BY <2>1, <2>2, <2>3, <2>4
  <2> QED BY <2>5
<1>5. ASSUME NEW k \in Nat, k \in S PROVE k + 1 \in S
  <2> SUFFICES ASSUME k + 1 <= n
               PROVE  f[pos[n + 1 - (k + 1)]] = SubSeq(q, n + 1 - (k + 1), n)
    OBVIOUS
  <2>0. PICK i \in 1..n : i = n + 1 - (k + 1) /\ i + 1 = n + 1 - k
    OBVIOUS
  <2>1. i \in 1..n + 1 /\ i + 1 \in 1..n + 1 /\ q[i] \in Samples
    BY <1>2 DEF Chain
  <2>2. f[pos[i]] = From(f, pos[i])
    BY <1>1, <1>3, <2>1
  <2>3. Decode(pos[i]) = q[i] /\ Words(Slot(pos[i] + 1)) = Width(q[i])
    <3>1. \A j \in 1..Width(q[i]) : Slot(pos[i] + j - 1) = Encode(q[i])[j]
      BY <1>2 DEF Chain
    <3> QED BY <1>3, <2>1, <3>1, DecodeIs
  <2>4. pos[i + 1] = pos[i] + Width(q[i])
    BY <1>2 DEF Chain
  <2>5. pos[i] + 2 <= h
    <3>1. Width(q[i]) \in Nat /\ Width(q[i]) >= 2
      BY <2>1, HeaderOf
    <3>2. pos[i] \in Nat /\ pos[i + 1] <= h
      BY <1>3, <2>1
    <3> QED BY <2>4, <3>1, <3>2
  <2>6. f[pos[i]] = <<q[i]>> \o f[pos[i + 1]]
    <3>1. ~ (pos[i] + 2 > ring.head)
      BY <1>2, <1>3, <2>1, <2>5
    <3> QED BY <2>2, <2>3, <2>4, <3>1 DEF From
  <2>7. f[pos[i + 1]] = SubSeq(q, i + 1, n)
    BY <1>5, <2>0
  <2>8. <<q[i]>> \o SubSeq(q, i + 1, n) = SubSeq(q, i, n)
    BY <1>2 DEF Chain
  <2> QED BY <2>0, <2>6, <2>7, <2>8
<1>6. n \in S
  <2> HIDE DEF S
  <2> QED BY <1>4, <1>5, Inductive
<1>7. f[pos[1]] = SubSeq(q, 1, n)
  BY <1>6
<1>8. SubSeq(q, 1, n) = q
  BY <1>2 DEF Chain
<1> QED BY <1>1, <1>7, <1>8 DEF Chain

\* The sample at the tail is the oldest one.
LEMMA OldestIs ==
  ASSUME RingTyped, NEW q, NEW pos, Chain(q, pos), q # <<>>
  PROVE  /\ Len(q) >= 1 /\ q[1] \in Samples
         /\ Decode(ring.tail) = q[1] /\ Words(Slot(ring.tail + 1)) = Width(q[1])
<1>1. Len(q) >= 1 /\ q[1] \in Samples /\ 1 \in 1..Len(q) /\ pos[1] = ring.tail
  BY DEF Chain
<1>2. \A j \in 1..Width(q[1]) : Slot(ring.tail + j - 1) = Encode(q[1])[j]
  BY <1>1 DEF Chain
<1> QED BY <1>1, <1>2, DecodeIs DEF RingTyped

\* An empty ring is one with less than two words in it.
LEMMA EmptyIs ==
  ASSUME RingTyped, NEW q, NEW pos, Chain(q, pos)
  PROVE  /\ q = <<>> => Level = 0
         /\ q # <<>> => Level >= Width(q[1]) /\ Level >= 2
<1>1. PICK h \in Nat, t \in Nat, n \in Nat : h = ring.head /\ t = ring.tail /\ n = Len(q)
  BY DEF RingTyped, Chain
<1>2. CASE q = <<>>
  <2>1. n = 0
    BY <1>1, <1>2
  <2> QED BY <1>1, <1>2, <2>1 DEF Chain, Level
<1>3. CASE q # <<>>
  <2>1. n >= 1 /\ q[1] \in Samples
    BY <1>1, <1>3 DEF Chain
  <2>2. pos[2] = t + Width(q[1]) /\ pos[2] <= h
    <3>1. 1 \in 1..n /\ 2 \in 1..n + 1 /\ n + 1 \in 1..n + 1 /\ 2 <= n + 1 /\ 1 + 1 = 2
      BY <2>1
    <3> QED BY <1>1, <3>1 DEF Chain
  <2>3. PICK w \in Nat : w = Width(q[1]) /\ w >= 2
    BY <2>1, HeaderOf
  <2>4. h - t >= w /\ h - t >= 2
    BY <2>2, <2>3
  <2> QED BY <1>1, <1>3, <2>3, <2>4 DEF Level
<1> QED BY <1>2, <1>3

\* The words of s are behind the head.
Written(s) == \A j \in 1..Width(s) : Slot(ring.head + j - 1) = Encode(s)[j]

\* The places of the words of a chain are between tail and head.
LEMMA ChainPlaces ==
  ASSUME RingTyped, NEW q, NEW pos, Chain(q, pos),
         NEW i \in 1..Len(q), NEW j \in 1..Width(q[i])
  PROVE  /\ pos[i] + j - 1 \in Nat
         /\ ring.tail <= pos[i] + j - 1 /\ pos[i] + j - 1 < ring.head
<1>0. q \in Seq(Samples)
  BY DEF Chain
<1>1. PICK n \in Nat : n = Len(q) /\ q[i] \in Samples
  BY <1>0
<1>2. /\ i \in 1..n + 1 /\ i + 1 \in 1..n + 1 /\ 1 \in 1..n + 1 /\ n + 1 \in 1..n + 1
      /\ 1 <= i /\ i + 1 <= n + 1
  BY <1>1
<1>3. PICK p \in Nat, r \in Nat : p = pos[i] /\ r = pos[i + 1]
  BY <1>1, <1>2 DEF Chain
<1>4. ring.tail <= p /\ r <= ring.head
  BY <1>1, <1>2, <1>3 DEF Chain
<1>5. r = p + Width(q[i])
  BY <1>3 DEF Chain
<1>6. PICK w \in Nat, t \in Nat, h \in Nat :
        w = Width(q[i]) /\ t = ring.tail /\ h = ring.head
  BY <1>1, HeaderOf DEF RingTyped
<1>7. j \in 1..w /\ t <= p /\ r <= h /\ r = p + w
  BY <1>4, <1>5, <1>6
<1>8. p + j - 1 \in Nat /\ t <= p + j - 1 /\ p + j - 1 < h
  BY <1>7
<1> QED BY <1>3, <1>6, <1>8

\* Words behind the head leave what is stored as it is.
LEMMA PushKeeps ==
  ASSUME RingTyped, NEW q, NEW pos, Chain(q, pos), NEW s \in Samples,
         Level + Width(s) <= RingWords,
         ring' = [ring EXCEPT !.slots = Filled(Encode(s))]
  PROVE  RingTyped' /\ Chain(q, pos)' /\ Written(s)'
<1>1. /\ ring'.slots = Filled(Encode(s))
      /\ ring'.head = ring.head /\ ring'.tail = ring.tail /\ ring'.dropped = ring.dropped
  BY DEF RingTyped
<1>2. PICK h \in Nat, t \in Nat, w \in Nat :
        h = ring.head /\ t = ring.tail /\ t <= h /\ w = Width(s)
  BY HeaderOf DEF RingTyped
<1>3. h - t + w <= RingWords /\ RingWords \in Nat
  BY <1>2, RingAssumption DEF Level
<1>4. Encode(s) \in Seq(Nat) /\ Len(Encode(s)) = w
  BY <1>2, EncodeIs
<1>5. /\ Filled(Encode(s)) \in [0..RingWords - 1 -> Nat]
      /\ \A j \in 1..w : Filled(Encode(s))[(h + j - 1) % RingWords] = Encode(s)[j]
      /\ \A p \in Nat : p < h /\ h + w <= p + RingWords =>
           Filled(Encode(s))[p % RingWords] = Slot(p)
  <2>1. w <= RingWords /\ ring.head \in Nat /\ ring.slots \in [0..RingWords - 1 -> Nat]
    BY <1>2, <1>3 DEF RingTyped
  <2> QED BY <1>2, <1>4, <2>1, FilledIs
<1>6. RingTyped'
  BY <1>1, <1>5 DEF RingTyped
<1>7. Written(s)'
  BY <1>1, <1>2, <1>5 DEF Written, Slot
<1>8. ASSUME NEW i \in 1..Len(q), NEW j \in 1..Width(q[i])
      PROVE  Slot(pos[i] + j - 1)' = Encode(q[i])[j]
  <2>1. PICK p \in Nat : p = pos[i] + j - 1 /\ t <= p /\ p < h
    BY <1>2, ChainPlaces
  <2>2. h + w <= p + RingWords
    BY <1>3, <2>1
  <2>3. Filled(Encode(s))[p % RingWords] = Slot(p)
    BY <1>5, <2>1, <2>2
  <2>4. Slot(p) = Encode(q[i])[j]
    BY <2>1 DEF Chain
  <2> QED BY <1>1, <2>1, <2>3, <2>4 DEF Slot
<1>9. Chain(q, pos)'
  BY <1>1, <1>8 DEF Chain
<1> QED BY <1>6, <1>7, <1>9

\* A change that leaves slots, head and tail alone leaves what is stored.
LEMMA ChainKept ==
  ASSUME NEW q, NEW pos, Chain(q, pos),
         ring'.slots = ring.slots, ring'.head = ring.head, ring'.tail = ring.tail
  PROVE  Chain(q, pos)'
BY DEF Chain, Slot

\* Publishing puts the sample behind the others.
LEMMA PublishAppends ==
  ASSUME RingTyped, NEW q, NEW pos, Chain(q, pos), NEW s \in Samples, Written(s),
         ring' = [ring EXCEPT !.head = ring.head + Width(s)]
  PROVE  RingTyped' /\ \E r : Chain(Append(q, s), r)'
<1>1. /\ ring'.slots = ring.slots /\ ring'.head = ring.head + Width(s)
      /\ ring'.tail = ring.tail /\ ring'.dropped = ring.dropped
  BY DEF RingTyped
<1>2. PICK h \in Nat, t \in Nat, w \in Nat :
        h = ring.head /\ t = ring.tail /\ t <= h /\ w = Width(s)
  BY HeaderOf DEF RingTyped
<1>3. RingTyped'
  BY <1>2 DEF RingTyped
<1>4. q \in Seq(Samples)
  BY DEF Chain
<1>5. PICK n \in Nat : n = Len(q)
  BY <1>4
<1>6. PICK a \in Seq(Samples) :
        a = Append(q, s) /\ Len(a) = n + 1 /\ a[n + 1] = s /\ \A i \in 1..n : a[i] = q[i]
  <2>1. Append(q, s) \in Seq(Samples)
    BY <1>4, AppendProperties
  <2>2. /\ Len(Append(q, s)) = n + 1 /\ Append(q, s)[n + 1] = s
        /\ \A i \in 1..n : Append(q, s)[i] = q[i]
    BY <1>4, <1>5, AppendProperties
  <2> QED BY <2>1, <2>2
<1> DEFINE r == [i \in 1..n + 2 |-> IF i <= n + 1 THEN pos[i] ELSE h + w]
<1>7. /\ \A i \in 1..n + 1 : r[i] = pos[i]
      /\ r[n + 2] = h + w
  OBVIOUS
<1>8. r \in [1..n + 2 -> Nat]
  <2>1. \A i \in 1..n + 1 : pos[i] \in Nat
    BY <1>5 DEF Chain
  <2>2. ASSUME NEW i \in 1..n + 2 PROVE (IF i <= n + 1 THEN pos[i] ELSE h + w) \in Nat
    BY <2>1
  <2> QED BY <2>2
<1> HIDE DEF r
<1>9. r[1] = t /\ r[(n + 1) + 1] = h + w
  <2>1. 1 \in 1..n + 1 /\ (n + 1) + 1 = n + 2
    OBVIOUS
  <2> QED BY <1>2, <1>7, <2>1 DEF Chain
<1>10. ASSUME NEW i \in 1..n + 1 PROVE r[i + 1] = r[i] + Width(a[i])
  <2>1. CASE i \in 1..n
    <3>1. i + 1 \in 1..n + 1 /\ pos[i + 1] = pos[i] + Width(q[i])
      BY <1>5, <2>1 DEF Chain
    <3> QED BY <1>6, <1>7, <2>1, <3>1
  <2>2. CASE i = n + 1
    <3>1. pos[n + 1] = h
      BY <1>2, <1>5 DEF Chain
    <3>2. i + 1 = n + 2
      BY <2>2
    <3> QED BY <1>2, <1>6, <1>7, <2>2, <3>1, <3>2
  <2>3. i \in 1..n \/ i = n + 1
    OBVIOUS
  <2> QED BY <2>1, <2>2, <2>3
<1>11. ASSUME NEW i \in 1..n + 2, NEW j \in 1..n + 2, i <= j PROVE r[i] <= r[j]
  <2>1. CASE j <= n + 1
    <3>1. i \in 1..n + 1 /\ j \in 1..n + 1
      BY <1>11, <2>1
    <3>2. pos[i] <= pos[j]
      BY <1>5, <1>11, <3>1 DEF Chain
    <3> QED BY <1>7, <3>1, <3>2
  <2>2. CASE i <= n + 1 /\ j = n + 2
    <3>1. i \in 1..n + 1 /\ n + 1 \in 1..n + 1 /\ i <= n + 1
      BY <2>2
    <3>2. pos[i] <= h /\ pos[i] \in Nat
      BY <1>2, <1>5, <3>1 DEF Chain
    <3> QED BY <1>7, <2>2, <3>1, <3>2
  <2>3. CASE i = n + 2 /\ j = n + 2
    BY <1>7, <2>3
  <2> QED BY <1>11, <2>1, <2>2, <2>3
<1>12. ASSUME NEW i \in 1..n + 1, NEW j \in 1..Width(a[i])
       PROVE  Slot(r[i] + j - 1) = Encode(a[i])[j]
  <2>1. CASE i \in 1..n
    <3>1. Slot(pos[i] + j - 1) = Encode(q[i])[j]
      BY <1>5, <1>6, <2>1 DEF Chain
    <3> QED BY <1>6, <1>7, <2>1, <3>1
  <2>2. CASE i = n + 1
    <3>1. r[i] = ring.head
      BY <1>5, <1>7, <2>2 DEF Chain
    <3> QED BY <1>6, <2>2, <3>1 DEF Written
  <2>3. i \in 1..n \/ i = n + 1
    OBVIOUS
  <2> QED BY <2>1, <2>2, <2>3
<1>13. ASSUME NEW p PROVE Slot(p)' = Slot(p)
  BY <1>1 DEF Slot
<1>14. Chain(a, r)'
  <2>1. ring'.tail = t /\ ring'.head = h + w /\ (n + 1) + 1 = n + 2
    BY <1>1, <1>2
  <2>2. /\ a \in Seq(Samples) /\ Len(a) = n + 1 /\ r \in [1..Len(a) + 1 -> Nat]
        /\ r[1] = ring'.tail /\ r[Len(a) + 1] = ring'.head
    BY <1>6, <1>8, <1>9, <2>1
  <2>3. \A i, j \in 1..Len(a) + 1 : i <= j => r[i] <= r[j]
    BY <1>6, <1>11, <2>1
  <2>4. \A i \in 1..Len(a) : \A j \in 1..Width(a[i]) : Slot(r[i] + j - 1)' = Encode(a[i])[j]
    BY <1>6, <1>12, <1>13
  <2>5. \A i \in 1..Len(a) : r[i + 1] = r[i] + Width(a[i])
    BY <1>6, <1>10
  <2> QED BY <2>2, <2>3, <2>4, <2>5 DEF Chain
<1> QED BY <1>3, <1>6, <1>14

\* Consuming takes the oldest one away.
LEMMA ConsumeTails ==
  ASSUME RingTyped, NEW q, NEW pos, Chain(q, pos), q # <<>>,
         ring' = [ring EXCEPT !.tail = @ + Words(Slot(@ + 1))]
  PROVE  RingTyped' /\ (\E r : Chain(Tail(q), r)') /\ ring'.tail = ring.tail + Width(q[1])
<1>0. Len(q) >= 1 /\ q[1] \in Samples /\ Words(Slot(ring.tail + 1)) = Width(q[1])
  BY OldestIs
<1>1. /\ ring'.slots = ring.slots /\ ring'.head = ring.head
      /\ ring'.tail = ring.tail + Width(q[1]) /\ ring'.dropped = ring.dropped
  BY <1>0 DEF RingTyped
<1>2. PICK h \in Nat, t \in Nat, w \in Nat :
        h = ring.head /\ t = ring.tail /\ t <= h /\ w = Width(q[1])
  BY <1>0, HeaderOf DEF RingTyped
<1>4. q \in Seq(Samples)
  BY DEF Chain
<1>5. PICK n \in Nat : n = Len(q) /\ n >= 1
  BY <1>0, <1>4
<1>6. PICK a \in Seq(Samples) :
        a = Tail(q) /\ Len(a) = n - 1 /\ \A i \in 1..n - 1 : a[i] = q[i + 1]
  <2>1. Tail(q) \in Seq(Samples)
    BY <1>4, HeadTailProperties
  <2>2. Len(Tail(q)) = n - 1 /\ \A i \in 1..n - 1 : Tail(q)[i] = q[i + 1]
    BY <1>4, <1>5, HeadTailProperties
  <2> QED BY <2>1, <2>2
<1> DEFINE r == [i \in 1..n |-> pos[i + 1]]
<1>7. \A i \in 1..n : r[i] = pos[i + 1] /\ i + 1 \in 1..n + 1
  OBVIOUS
<1>8. r \in [1..n -> Nat]
  <2>1. \A i \in 1..n + 1 : pos[i] \in Nat
    BY <1>5 DEF Chain
  <2> QED BY <1>7, <2>1
<1> HIDE DEF r
<1>9. r[1] = t + w /\ r[n] = h /\ t + w <= h
  <2>1. 1 \in 1..n /\ n \in 1..n /\ 1 + 1 = 2 /\ 2 <= n + 1 /\ 2 \in 1..n + 1 /\ n + 1 \in 1..n + 1
    BY <1>5
  <2>2. pos[2] = pos[1] + Width(q[1]) /\ pos[1] = t /\ pos[n + 1] = h /\ pos[2] <= pos[n + 1]
    BY <1>2, <1>5, <2>1 DEF Chain
  <2> QED BY <1>2, <1>7, <2>1, <2>2
<1>3. RingTyped'
  BY <1>1, <1>2, <1>9 DEF RingTyped
<1>10. ASSUME NEW i \in 1..n - 1 PROVE r[i + 1] = r[i] + Width(a[i])
  <2>1. i \in 1..n /\ i + 1 \in 1..n
    BY <1>5
  <2>2. pos[(i + 1) + 1] = pos[i + 1] + Width(q[i + 1])
    BY <1>5, <2>1 DEF Chain
  <2> QED BY <1>6, <1>7, <2>1, <2>2
<1>11. ASSUME NEW i \in 1..n, NEW j \in 1..n, i <= j PROVE r[i] <= r[j]
  <2>1. i + 1 \in 1..n + 1 /\ j + 1 \in 1..n + 1 /\ i + 1 <= j + 1
    BY <1>11
  <2>2. pos[i + 1] <= pos[j + 1]
    BY <1>5, <2>1 DEF Chain
  <2> QED BY <1>7, <2>2
<1>12. ASSUME NEW i \in 1..n - 1, NEW j \in 1..Width(a[i])
       PROVE  Slot(r[i] + j - 1) = Encode(a[i])[j]
  <2>1. i \in 1..n /\ i + 1 \in 1..n /\ a[i] = q[i + 1]
    BY <1>5, <1>6
  <2>2. Slot(pos[i + 1] + j - 1) = Encode(q[i + 1])[j]
    BY <1>5, <2>1 DEF Chain
  <2> QED BY <1>7, <2>1, <2>2
<1>13. ASSUME NEW p PROVE Slot(p)' = Slot(p)
  BY <1>1 DEF Slot
<1>14. Chain(a, r)'
  <2>1. ring'.tail = t + w /\ ring'.head = h /\ (n - 1) + 1 = n
    BY <1>1, <1>2
  <2>2. /\ a \in Seq(Samples) /\ Len(a) = n - 1 /\ r \in [1..Len(a) + 1 -> Nat]
        /\ r[1] = ring'.tail /\ r[Len(a) + 1] = ring'.head
    BY <1>6, <1>8, <1>9, <2>1
  <2>3. \A i, j \in 1..Len(a) + 1 : i <= j => r[i] <= r[j]
    BY <1>6, <1>11, <2>1
  <2>4. \A i \in 1..Len(a) : \A j \in 1..Width(a[i]) : Slot(r[i] + j - 1)' = Encode(a[i])[j]
    BY <1>6, <1>12, <1>13
  <2>5. \A i \in 1..Len(a) : r[i + 1] = r[i] + Width(a[i])
    BY <1>6, <1>10
  <2> QED BY <2>2, <2>3, <2>4, <2>5 DEF Chain
<1> QED BY <1>1, <1>3, <1>6, <1>14

\* The words of the samples are the words between tail and head.
LEMMA LoadIs ==
  ASSUME RingTyped, NEW q, NEW pos, Chain(q, pos)
  PROVE  Queue!Load = Level
<1>0. q \in Seq(Samples) /\ Stored = q
  BY StoredIs DEF Chain
<1>1. PICK n \in Nat, h \in Nat, t \in Nat :
        n = Len(q) /\ h = ring.head /\ t = ring.tail /\ t <= h
  BY <1>0 DEF RingTyped
<1> DEFINE Sums(f) == f = [k \in 0..n |-> IF k = 0 THEN 0 ELSE f[k - 1] + Width(q[k])]
           g == [k \in 0..n |-> pos[k + 1] - t]
           f == CHOOSE f : Sums(f)
<1>2. Sums(g)
  <2>1. \A k \in 0..n : k + 1 \in 1..n + 1 /\ pos[k + 1] \in Nat
    BY <1>1 DEF Chain
  <2>2. ASSUME NEW k \in 0..n
        PROVE  g[k] = IF k = 0 THEN 0 ELSE g[k - 1] + Width(q[k])
    <3>1. CASE k = 0
      BY <1>1, <3>1 DEF Chain
    <3>2. CASE k # 0
      <4>1. k \in 1..n /\ k - 1 \in 0..n /\ (k - 1) + 1 = k
        BY <3>2
      <4>2. pos[k + 1] = pos[k] + Width(q[k]) /\ Width(q[k]) \in Nat /\ pos[k] \in Nat
        <5>1. q[k] \in Samples
          BY <1>0, <1>1, <4>1
        <5> QED BY <1>1, <2>1, <4>1, <5>1, HeaderOf DEF Chain
      <4>3. g[k] = pos[k + 1] - t /\ g[k - 1] = pos[k] - t
        BY <4>1
      <4> HIDE DEF g
      <4> QED BY <3>2, <4>2, <4>3
    <3> QED BY <3>1, <3>2
  <2>3. g = [k \in 0..n |-> g[k]]
    OBVIOUS
  <2> HIDE DEF g
  <2> QED BY <2>2, <2>3
<1>3. Sums(f)
  <2> HIDE DEF g, Sums
  <2> QED BY <1>2
<1>4. Queue!Load = f[n]
  BY <1>0, <1>1 DEF Queue!Load
<1> DEFINE S == {k \in Nat : k <= n => f[k] = g[k]}
<1> HIDE DEF f, g
<1>5. 0 \in S
  BY <1>2, <1>3
<1>6. ASSUME NEW k \in Nat, k \in S PROVE k + 1 \in S
  <2>1. CASE k + 1 <= n
    <3>1. k + 1 \in 0..n /\ (k + 1) - 1 = k /\ k + 1 # 0
      BY <2>1
    <3>2. f[k + 1] = f[k] + Width(q[k + 1]) /\ g[k + 1] = g[k] + Width(q[k + 1])
      BY <1>2, <1>3, <3>1
    <3> QED BY <1>6, <2>1, <3>2
  <2> QED BY <2>1
<1>7. n \in S
  <2> HIDE DEF S
  <2> QED BY <1>5, <1>6, Inductive
<1>8. g[n] = h - t
  BY <1>1 DEF g, Chain
<1> QED BY <1>1, <1>4, <1>7, <1>8 DEF Level

\* The same of the next state.
LEMMA StoredNext ==
  ASSUME RingTyped', NEW q, NEW pos, Chain(q, pos)'
  PROVE  Stored' = q
<1>1. (RingTyped /\ Chain(q, pos) => Stored = q)'
  BY StoredIs, PTL
<1> QED BY <1>1

-----------------------------------------------------------------------------
(* The invariant *)

Record == [seq : Nat, stats : Stats, closed : BOOLEAN]

Mains    == [pc : {"off", "waiting", "flushing", "left"}, asked : Nat]
Samplers ==
  [pc : {"off", "tick", "push", "publish", "ended"}, thread : Threads \cup {None},
   sweeps : 0..DiscoveryGiveUp, gaveUp : BOOLEAN, quiet : BOOLEAN, sample : Samples \cup {None}]
Latches  == [latched : BOOLEAN, had : BOOLEAN]
Aggregators ==
  [pc : {"off", "look", "load", "read", "consume", "report", "window", "close", "merge"},
   flushing : BOOLEAN, got : Samples \cup {None}, win : Stats, run : Stats, base : Nat,
   seq : Nat, peak : Nat]
Flushes  == [running : BOOLEAN, request : BOOLEAN, done : BOOLEAN]
Files    == [profile : Stats \cup {None}, series : Seq(Record)]

Typed ==
  /\ main \in Mains /\ guest \in BOOLEAN /\ sampler \in Samplers /\ latch \in Latches
  /\ ports \in [Threads -> Int] /\ counted \in Nat /\ counted <= MaxSamples
  /\ agg \in Aggregators /\ flush \in Flushes /\ files \in Files
  /\ broken \in Breakages /\ highest \in Nat

\* Before the start nothing has happened.
Fresh ==
  main.pc = "off" =>
    /\ ring = EmptyRing /\ sampler = NoSampler /\ latch = NoLatch /\ ports = NoPorts
    /\ counted = 0 /\ agg = NoAggregator /\ flush = NoFlush /\ highest = 0

\* A sample has been taken by a thread's subject, and some thread was latched.
Subject ==
  /\ latch.latched => latch.had
  /\ sampler.thread # None => latch.latched
  /\ ~latch.had => counted = 0
  /\ sampler.sample # None <=> sampler.pc \in {"push", "publish"}
  /\ sampler.sample # None => sampler.thread # None

Chained == \E pos : Chain(Stored, pos)

\* The ring holds a chain of samples; the aggregator looks at the first one, and
\* the words behind the head are those of the sample to be published.
RingOK ==
  /\ RingTyped
  /\ Chained
  /\ agg.got # None <=> agg.pc = "consume"
  /\ agg.got # None => Stored # <<>> /\ agg.got = Stored[1]
  /\ agg.pc = "read" => Level >= 2
  /\ sampler.pc = "publish" =>
       Written(sampler.sample) /\ Level + Width(sampler.sample) <= RingWords

\* The window is closed, and not yet merged.
Closing == agg.pc \in {"window", "close", "merge"}

\* What was taken and what was recorded.
Books ==
  main.pc # "left" =>
    /\ counted = Recorded + ring.dropped + (IF sampler.sample # None THEN 1 ELSE 0)
    /\ agg.run.measured + agg.win.measured = agg.base /\ agg.base <= counted
    /\ ~Closing => agg.win.measured = 0
    /\ Closing => agg.run.samples + agg.win.samples <= agg.base
    /\ agg.run.samples <= agg.run.measured

\* A request, what it asks for, and what has been done about it.
Flushing ==
  Started =>
    /\ flush.request <=> main.pc = "flushing"
    /\ main.pc = "flushing" => main.asked <= Recorded
    /\ agg.flushing => flush.request
    /\ agg.flushing /\ (Closing \/ agg.pc = "report") =>
         main.asked <= agg.run.samples + agg.win.samples
    /\ flush.done => flush.request /\ main.asked <= agg.run.samples
    /\ "profile" \notin broken => Profile = agg.run

\* The windows of the series: their numbers, which of them are there in full, and
\* what they have to do with the run and the profile.
Merged == IF agg.pc = "merge" THEN agg.seq - 1 ELSE agg.seq
Last == Len(files.series)

Numbered ==
  \A i \in 1..Last :
    /\ files.series[i].seq = i - 1
    /\ files.series[i].closed \/ "series" \in broken \/ (i = Last /\ agg.pc = "close")

Summed ==
  /\ agg.run = Total(files.series, Merged)
  /\ \E k \in 0..Merged : Profile = Total(files.series, k) /\ (k = Merged \/ "profile" \in broken)

SeriesOK ==
  Started /\ Windows =>
    /\ Last = agg.seq + (IF agg.pc = "close" THEN 1 ELSE 0)
    /\ agg.pc \in {"close", "merge"} => Last >= 1 /\ files.series[Last].stats = agg.win
    /\ Numbered
    /\ Summed

Peaked ==
  \/ highest <= agg.peak + Widest
  \/ highest <= Level + (IF agg.pc = "load" THEN Widest ELSE 0)

-----------------------------------------------------------------------------
(* Types *)

LEMMA NoneApart ==
  ASSUME NEW x
  PROVE  /\ x \in Threads => x # None
         /\ x \in Samples => x # None
         /\ x \in Stats => x # None
BY NoneAssumption

LEMMA MergeTyped ==
  ASSUME NEW a \in Stats, NEW b \in Stats
  PROVE  mergeStats(a, b) \in Stats
BY DEF Stats, mergeStats

\* Closing the last record of a series.
LEMMA ClosedTyped ==
  ASSUME NEW s \in Seq(Record)
  PROVE  LET e == [s EXCEPT ![Len(s)].closed = TRUE]
         IN  /\ e \in Seq(Record) /\ Len(e) = Len(s)
             /\ \A i \in 1..Len(s) :
                  /\ e[i].seq = s[i].seq /\ e[i].stats = s[i].stats
                  /\ e[i].closed = IF i = Len(s) THEN TRUE ELSE s[i].closed
<1>1. PICK n \in Nat : n = Len(s) /\ s \in [1..n -> Record]
  OBVIOUS
<1> DEFINE e == [s EXCEPT ![n].closed = TRUE]
<1>2. e = [i \in 1..n |-> IF i = n THEN [s[i] EXCEPT !.closed = TRUE] ELSE s[i]]
  BY <1>1
<1>3. ASSUME NEW i \in 1..n
      PROVE  /\ e[i] \in Record
             /\ e[i].seq = s[i].seq /\ e[i].stats = s[i].stats
             /\ e[i].closed = IF i = n THEN TRUE ELSE s[i].closed
  <2>1. s[i] \in Record
    BY <1>1
  <2> QED BY <1>2, <2>1 DEF Record
<1>4. e \in [1..n -> Record]
  BY <1>2, <1>3
<1> HIDE DEF e
<1>5. e \in Seq(Record) /\ Len(e) = n
  BY <1>4
<1> QED BY <1>1, <1>3, <1>5 DEF e

LEMMA InitTyped ==
  ASSUME Init
  PROVE  Typed
<1>1. NoStats \in Stats /\ OldStats \in Stats
  BY SamplerAssumption DEF NoStats, OldStats, Stats
<1>2. main \in Mains /\ flush \in Flushes /\ latch \in Latches
  BY DEF Init, Mains, Flushes, Latches, NoFlush, NoLatch
<1>3. sampler \in Samplers
  BY SamplerAssumption DEF Init, Samplers, NoSampler
<1>4. agg \in Aggregators
  BY <1>1 DEF Init, Aggregators, NoAggregator
<1>5. files \in Files
  BY <1>1 DEF Init, Files, Record
<1>6. ports \in [Threads -> Int]
  BY DEF Init, NoPorts
<1> QED BY <1>2, <1>3, <1>4, <1>5, <1>6, SamplerAssumption DEF Init, Typed

LEMMA SamplerTyped ==
  ASSUME Typed, RingTyped', SamplerThread
  PROVE  Typed'
<1>1. CASE SweepOn
  <2>1. Swept \in 0..DiscoveryGiveUp
    BY SamplerAssumption DEF Swept, Typed, Samplers
  <2>2. sampler' \in Samplers
    BY <1>1, <2>1 DEF SweepOn, Typed, Samplers
  <2>3. ports' \in [Threads -> Int]
    BY <1>1 DEF SweepOn, Keep, Typed
  <2> QED BY <1>1, <2>2, <2>3 DEF SweepOn, Typed
<1>2. CASE LatchOnto
  <2>1. Swept \in 0..DiscoveryGiveUp
    BY SamplerAssumption DEF Swept, Typed, Samplers
  <2>2. sampler' \in Samplers
    BY <1>2, <2>1 DEF LatchOnto, Latched, Typed, Samplers
  <2>3. latch' \in Latches
    BY <1>2 DEF LatchOnto, Latches
  <2>4. ports' \in [Threads -> Int]
    BY <1>2 DEF LatchOnto, Keep, Typed
  <2> QED BY <1>2, <2>2, <2>3, <2>4 DEF LatchOnto, Typed
<1>3. CASE SweepFails
  <2>1. sampler' \in Samplers
    BY <1>3 DEF SweepFails, Typed, Samplers
  <2> QED BY <1>3, <2>1 DEF SweepFails, Typed
<1>4. CASE Measure
  <2>1. counted' \in Nat /\ counted' <= MaxSamples
    BY <1>4, SamplerAssumption DEF Measure, Taken, Typed
  <2>2. PICK o \in Outcomes :
          sampler' = [sampler EXCEPT !.pc = "push", !.quiet = ~o.inRange,
                                     !.sample = Sample(sampler.thread, o)]
    BY <1>4 DEF Measure
  <2>3. Sample(sampler.thread, o) \in Samples
    BY <1>4 DEF Measure, Measuring, Typed, Samplers, Samples
  <2>4. sampler' \in Samplers
    BY <2>2, <2>3 DEF Typed, Samplers
  <2> QED BY <1>4, <2>1, <2>4 DEF Measure, Typed
<1>5. CASE MeasureFails
  <2>1. sampler' \in Samplers
    BY <1>5 DEF MeasureFails, Typed, Samplers
  <2> QED BY <1>5, <2>1 DEF MeasureFails, Typed
<1>6. CASE Push
  <2>1. sampler' \in Samplers
    BY <1>6 DEF Push, Typed, Samplers
  <2> QED BY <1>6, <2>1 DEF Push, Typed
<1>7. CASE Drop
  <2>1. sampler' \in Samplers
    BY <1>7 DEF Drop, Typed, Samplers
  <2> QED BY <1>7, <2>1 DEF Drop, Typed
<1>8. CASE Publish
  <2>1. sampler' \in Samplers
    BY <1>8 DEF Publish, Typed, Samplers
  <2>2. Level' \in Nat
    BY DEF RingTyped, Level
  <2> QED BY <1>8, <2>1, <2>2 DEF Publish, Typed
<1>9. CASE Unlatch
  <2>0. 0 \in 0..DiscoveryGiveUp
    BY SamplerAssumption
  <2>1. sampler' \in Samplers
    BY <1>9, <2>0 DEF Unlatch, Typed, Samplers
  <2>2. latch' \in Latches
    BY <1>9 DEF Unlatch, Typed, Latches
  <2>3. ports' \in [Threads -> Int]
    BY <1>9 DEF Unlatch, Measuring, Typed, Samplers
  <2> QED BY <1>9, <2>1, <2>2, <2>3 DEF Unlatch, Typed
<1> QED BY <1>1, <1>2, <1>3, <1>4, <1>5, <1>6, <1>7, <1>8, <1>9 DEF SamplerThread

LEMMA AggregatorTyped ==
  ASSUME Typed, RingOK, Books, AggregatorThread
  PROVE  Typed'
<1>0. agg \in Aggregators /\ main.pc # "left"
  <2>1. Started
    BY DEF AggregatorThread, Look, Load, Read, Consume, ReportDue, ReportFlush, NoReport,
           AppendWindow, CloseWindow, CutWindow, LoseWindow, WriteProfile
  <2> QED BY <2>1 DEF Typed, Started
<1>1. CASE Look
  <2>1. agg' \in Aggregators
    BY <1>0, <1>1 DEF Look, Typed, Flushes, Aggregators
  <2> QED BY <1>1, <2>1 DEF Look, Typed
<1>2. CASE Load
  <2>1. Level \in Nat
    BY DEF RingOK, RingTyped, Level
  <2>2. Peak \in Nat
    BY <1>0, <2>1 DEF Peak, Aggregators
  <2>3. agg' \in Aggregators
    BY <1>0, <1>2, <2>2 DEF Load, Aggregators
  <2> QED BY <1>2, <2>3 DEF Load, Typed
<1>3. CASE Read
  <2>1. Decode(ring.tail) \in Samples
    <3>1. PICK pos : Chain(Stored, pos)
      BY DEF RingOK, Chained
    <3>2. Stored # <<>>
      BY <1>3, <3>1, EmptyIs DEF RingOK, Read
    <3> QED BY <3>1, <3>2, OldestIs DEF RingOK
  <2>2. [agg.win EXCEPT !.samples = @ + 1] \in Stats
    BY <1>0 DEF Aggregators, Stats
  <2>3. agg' \in Aggregators
    BY <1>0, <1>3, <2>1, <2>2 DEF Read, Aggregators
  <2> QED BY <1>3, <2>3 DEF Read, Typed
<1>4. CASE Consume
  <2>1. agg' \in Aggregators
    BY <1>0, <1>4 DEF Consume, Aggregators
  <2> QED BY <1>4, <2>1 DEF Consume, Typed
<1>5. CASE Report
  <2>1. counted - agg.base \in Nat /\ counted \in Nat
    BY <1>0 DEF Books, Typed, Aggregators
  <2>2. [agg.win EXCEPT !.measured = counted - agg.base] \in Stats
    BY <1>0, <2>1 DEF Aggregators, Stats
  <2>3. agg' \in Aggregators
    BY <1>0, <1>5, <2>1, <2>2 DEF Report, Aggregators
  <2> QED BY <1>5, <2>3 DEF Report, Typed
<1>6. CASE NoReport
  <2>1. agg' \in Aggregators
    BY <1>0, <1>6 DEF NoReport, Aggregators
  <2>2. flush' \in Flushes
    BY <1>0, <1>6 DEF NoReport, Serve, Typed, Flushes, Aggregators
  <2> QED BY <1>6, <2>1, <2>2 DEF NoReport, Typed
<1>a. Append(files.series, Unwritten) \in Seq(Record)
  <2>1. Unwritten \in Record
    BY <1>0 DEF Unwritten, Aggregators, Record
  <2>2. files.series \in Seq(Record)
    BY DEF Typed, Files
  <2> QED BY <2>1, <2>2, AppendProperties
<1>7. CASE AppendWindow
  <2>1. agg' \in Aggregators
    BY <1>0, <1>7 DEF AppendWindow, Aggregators
  <2>2. files' \in Files
    BY <1>7, <1>a DEF AppendWindow, Typed, Files
  <2> QED BY <1>7, <2>1, <2>2 DEF AppendWindow, Typed
<1>n. agg.seq + 1 \in Nat
  BY <1>0 DEF Aggregators
<1>8. CASE CloseWindow
  <2>1. agg' \in Aggregators
    BY <1>0, <1>8, <1>n DEF CloseWindow, Aggregators
  <2>2. files' \in Files
    <3>1. files.series \in Seq(Record)
      BY DEF Typed, Files
    <3>2. [files.series EXCEPT ![Len(files.series)].closed = TRUE] \in Seq(Record)
      BY <3>1, ClosedTyped
    <3> QED BY <1>8, <3>2 DEF CloseWindow, Typed, Files
  <2> QED BY <1>8, <2>1, <2>2 DEF CloseWindow, Typed
<1>c. CASE CutWindow
  <2>1. agg' \in Aggregators
    BY <1>0, <1>c, <1>n DEF CutWindow, Aggregators
  <2> QED BY <1>c, <2>1 DEF CutWindow, Typed
<1>9. CASE LoseWindow
  <2>1. agg' \in Aggregators
    BY <1>0, <1>9, <1>n DEF LoseWindow, Aggregators
  <2>2. files' \in Files
    BY <1>9, <1>a DEF LoseWindow, Typed, Files
  <2> QED BY <1>9, <2>1, <2>2 DEF LoseWindow, Typed
<1>10. CASE WriteProfile
  <2>1. mergeStats(agg.run, agg.win) \in Stats /\ NoStats \in Stats
    BY <1>0, MergeTyped DEF Aggregators, NoStats, Stats
  <2>2. agg' \in Aggregators
    BY <1>0, <1>10, <2>1 DEF WriteProfile, Aggregators
  <2>3. files' \in Files
    BY <1>10, <2>1 DEF WriteProfile, Typed, Files
  <2>4. flush' \in Flushes
    BY <1>0, <1>10 DEF WriteProfile, Serve, Typed, Flushes, Aggregators
  <2> QED BY <1>10, <2>2, <2>3, <2>4 DEF WriteProfile, Typed
<1> QED BY <1>1, <1>2, <1>3, <1>4, <1>5, <1>6, <1>7, <1>8, <1>c, <1>9, <1>10
        DEF AggregatorThread, ReportDue, ReportFlush

-----------------------------------------------------------------------------
(* The ring through a step *)

LEMMA ChainedNext ==
  ASSUME RingTyped', NEW q, NEW pos, Chain(q, pos)'
  PROVE  Stored' = q /\ Chained'
<1>1. Stored' = q
  BY StoredNext
<1>2. Chain(Stored, pos)'
  BY <1>1 DEF Chain
<1> QED BY <1>1, <1>2 DEF Chained

\* A step that leaves the ring alone.
LEMMA RingSame ==
  ASSUME RingTyped, Chained, ring' = ring
  PROVE  RingTyped' /\ Chained' /\ Stored' = Stored /\ Level' = Level
<1>1. RingTyped' /\ Level' = Level
  BY DEF RingTyped, Level
<1>2. PICK pos : Chain(Stored, pos)
  BY DEF Chained
<1>3. \A q : Chain(q, pos) => Chain(q, pos)'
  BY ChainKept
<1> QED BY <1>1, <1>2, <1>3, ChainedNext

LEMMA PushStep ==
  ASSUME RingTyped, Chained, NEW s \in Samples, sampler.sample = s, Push
  PROVE  /\ RingTyped' /\ Chained' /\ Stored' = Stored /\ Level' = Level
         /\ Written(s)' /\ Level + Width(s) <= RingWords
<1>1. PICK pos : Chain(Stored, pos)
  BY DEF Chained
<1>2. Level + Width(s) <= RingWords /\ ring' = [ring EXCEPT !.slots = Filled(Encode(s))]
  BY DEF Push, Fits, Width
<1>3. ASSUME NEW q, Chain(q, pos) PROVE RingTyped' /\ Chain(q, pos)' /\ Written(s)'
  BY <1>2, <1>3, PushKeeps
<1>4. Level' = Level
  BY <1>2 DEF RingTyped, Level
<1>5. PICK q : q = Stored
  OBVIOUS
<1>6. Chain(q, pos)
  BY <1>1, <1>5
<1> QED BY <1>2, <1>3, <1>4, <1>5, <1>6, ChainedNext

LEMMA DropStep ==
  ASSUME RingTyped, Chained, Drop
  PROVE  /\ RingTyped' /\ Chained' /\ Stored' = Stored /\ Level' = Level
         /\ ring'.dropped = ring.dropped + 1
<1>1. PICK pos, q : Chain(q, pos) /\ q = Stored
  BY DEF Chained
<1>2. /\ ring'.slots = ring.slots /\ ring'.head = ring.head /\ ring'.tail = ring.tail
      /\ ring'.dropped = ring.dropped + 1
  BY DEF Drop, RingTyped
<1>3. RingTyped' /\ Level' = Level
  BY <1>2 DEF Drop, RingTyped, Level
<1>4. Chain(q, pos)'
  BY <1>1, <1>2, ChainKept
<1> QED BY <1>1, <1>2, <1>3, <1>4, ChainedNext

LEMMA PublishStep ==
  ASSUME RingTyped, Chained, NEW s \in Samples, sampler.sample = s, Written(s), Publish
  PROVE  /\ RingTyped' /\ Chained' /\ Stored' = Append(Stored, s)
         /\ Level' = Level + Width(s) /\ ring'.dropped = ring.dropped
<1>1. PICK pos, q : Chain(q, pos) /\ q = Stored
  BY DEF Chained
<1>2. ring' = [ring EXCEPT !.head = ring.head + Width(s)]
  BY DEF Publish, Width
<1>3. RingTyped' /\ \E r : Chain(Append(q, s), r)'
  BY <1>1, <1>2, PublishAppends
<1>4. Level' = Level + Width(s) /\ ring'.dropped = ring.dropped
  BY <1>2, HeaderOf DEF RingTyped, Level
<1> QED BY <1>1, <1>3, <1>4, ChainedNext

LEMMA ConsumeStep ==
  ASSUME RingTyped, Chained, Stored # <<>>, Consume
  PROVE  /\ RingTyped' /\ Chained' /\ Stored' = Tail(Stored) /\ Stored[1] \in Samples
         /\ Level' + Width(Stored[1]) = Level
         /\ ring'.slots = ring.slots /\ ring'.head = ring.head /\ ring'.dropped = ring.dropped
<1>1. PICK pos, q : Chain(q, pos) /\ q = Stored
  BY DEF Chained
<1>2. ring' = [ring EXCEPT !.tail = @ + Words(Slot(@ + 1))]
  BY DEF Consume
<1>3. RingTyped' /\ (\E r : Chain(Tail(q), r)') /\ ring'.tail = ring.tail + Width(q[1])
  BY <1>1, <1>2, ConsumeTails
<1>4. q[1] \in Samples /\ Width(q[1]) \in Nat
  BY <1>1, OldestIs, HeaderOf
<1>5. ring'.slots = ring.slots /\ ring'.head = ring.head /\ ring'.dropped = ring.dropped
  BY <1>2 DEF RingTyped
<1>6. Level' + Width(q[1]) = Level
  <2> PICK h \in Nat, t \in Nat, w \in Nat : h = ring.head /\ t = ring.tail /\ w = Width(q[1])
    BY <1>4 DEF RingTyped
  <2>1. Level = h - t /\ Level' = h - (t + w)
    BY <1>3, <1>5 DEF Level
  <2> QED BY <2>1
<1> QED BY <1>1, <1>3, <1>4, <1>5, <1>6, ChainedNext

LEMMA EmptyStep ==
  ASSUME ring' = EmptyRing
  PROVE  /\ RingTyped' /\ Chained' /\ Stored' = <<>> /\ Level' = 0
         /\ ring'.dropped = 0
<1>1. RingTyped' /\ Level' = 0 /\ ring'.dropped = 0
  BY RingAssumption DEF RingTyped, EmptyRing, Level
<1>2. Chain(<<>>, [i \in 1..1 |-> 0])'
  BY DEF Chain, EmptyRing
<1> QED BY <1>1, <1>2, ChainedNext

LEMMA EmptyAtFirst ==
  ASSUME ring = EmptyRing
  PROVE  RingTyped /\ Chained /\ Stored = <<>> /\ Level = 0
<1>1. RingTyped /\ Level = 0
  BY RingAssumption DEF RingTyped, EmptyRing, Level
<1>2. Chain(<<>>, [i \in 1..1 |-> 0])
  BY DEF Chain, EmptyRing
<1>3. Stored = <<>>
  BY <1>1, <1>2, StoredIs
<1> QED BY <1>1, <1>2, <1>3 DEF Chained

\* Neither the reader nor the writer is at a sample it was not at.
LEMMA RingOKSame ==
  ASSUME RingOK, ring' = ring, agg'.got = agg.got,
         agg'.pc = "consume" <=> agg.pc = "consume", agg'.pc = "read" => Level >= 2,
         sampler'.pc = "publish" => sampler.pc = "publish" /\ sampler'.sample = sampler.sample
  PROVE  RingOK'
<1>1. RingTyped' /\ Chained' /\ Stored' = Stored /\ Level' = Level
  BY RingSame DEF RingOK
<1>2. sampler'.pc = "publish" =>
        Written(sampler.sample)' /\ Level' + Width(sampler'.sample) <= RingWords
  BY <1>1 DEF RingOK, Written, Slot
<1> QED BY <1>1, <1>2 DEF RingOK, Written

LEMMA RingOKSampler ==
  ASSUME Typed, Subject, RingOK, SamplerThread
  PROVE  RingOK'
<1>0. sampler \in Samplers
  BY DEF Typed
<1>1. CASE SweepOn \/ LatchOnto \/ SweepFails \/ Measure \/ MeasureFails \/ Unlatch
  <2>1. ring' = ring /\ agg' = agg
    BY <1>1 DEF SweepOn, LatchOnto, SweepFails, Measure, MeasureFails, Unlatch
  <2>2. sampler'.pc # "publish"
    BY <1>0, <1>1 DEF SweepOn, LatchOnto, Latched, SweepFails, Measure, MeasureFails, Unlatch,
                  Sweeping, Measuring, Samplers
  <2> QED BY <2>1, <2>2, RingOKSame DEF RingOK
<1>2. CASE Push
  <2>1. sampler.sample \in Samples
    BY <1>0, <1>2 DEF Push, Subject, Samplers
  <2>2. agg' = agg /\ sampler'.pc = "publish" /\ sampler'.sample = sampler.sample
    BY <1>0, <1>2 DEF Push, Samplers
  <2>3. /\ RingTyped' /\ Chained' /\ Stored' = Stored /\ Level' = Level
        /\ Written(sampler.sample)' /\ Level + Width(sampler.sample) <= RingWords
    <3>1. PICK s \in Samples : s = sampler.sample
      BY <2>1
    <3>2. /\ RingTyped' /\ Chained' /\ Stored' = Stored /\ Level' = Level
          /\ Written(s)' /\ Level + Width(s) <= RingWords
      BY <1>2, <3>1, PushStep DEF RingOK
    <3> QED BY <2>2, <3>1, <3>2 DEF Written
  <2> QED BY <2>2, <2>3 DEF RingOK
<1>3. CASE Drop
  <2>1. agg' = agg /\ sampler'.pc = "tick"
    BY <1>0, <1>3 DEF Drop, Samplers
  <2> QED BY <1>3, <2>1, DropStep DEF RingOK
<1>4. CASE Publish
  <2>1. sampler.sample \in Samples /\ Written(sampler.sample)
    BY <1>0, <1>4 DEF Publish, Subject, Samplers, RingOK
  <2>2. agg' = agg /\ sampler'.pc = "tick"
    BY <1>0, <1>4 DEF Publish, Samplers
  <2>3. PICK s \in Samples : s = sampler.sample /\ Written(s)
    BY <2>1
  <2>4. /\ RingTyped' /\ Chained' /\ Stored' = Append(Stored, s)
        /\ Level' = Level + Width(s)
    BY <1>4, <2>3, PublishStep DEF RingOK
  <2>5. Stored \in Seq(Samples)
    BY DEF RingOK, Chained, Chain
  <2>6. Stored # <<>> => Stored' # <<>> /\ Stored'[1] = Stored[1]
    <3> PICK q \in Seq(Samples) : q = Stored
      BY <2>5
    <3>1. q # <<>> => Append(q, s) # <<>> /\ 1 \in 1..Len(q)
      OBVIOUS
    <3> QED BY <2>4, <3>1, AppendProperties
  <2>7. agg.pc = "read" => Level' >= 2
    <3>1. Level \in Nat /\ Width(s) \in Nat
      BY HeaderOf DEF RingOK, RingTyped, Level
    <3> QED BY <2>4, <3>1 DEF RingOK
  <2> QED BY <2>2, <2>4, <2>6, <2>7 DEF RingOK
<1> QED BY <1>1, <1>2, <1>3, <1>4 DEF SamplerThread

LEMMA RingOKAggregator ==
  ASSUME Typed, Subject, RingOK, AggregatorThread
  PROVE  RingOK'
<1>0. agg \in Aggregators
  BY DEF Typed
<1>1. CASE \/ Look \/ NoReport \/ AppendWindow \/ CloseWindow \/ CutWindow \/ LoseWindow
           \/ WriteProfile
           \/ Report /\ agg.pc = "report"
  <2>1. ring' = ring /\ sampler' = sampler
    BY <1>1 DEF Look, Report, NoReport, AppendWindow, CloseWindow, CutWindow, LoseWindow,
         WriteProfile
  <2>2. /\ agg'.got = agg.got /\ agg'.pc \notin {"consume", "read"}
        /\ agg.pc # "consume"
    <3>1. CASE Look \/ NoReport \/ CutWindow \/ LoseWindow
      BY <1>0, <3>1 DEF Look, NoReport, CutWindow, LoseWindow, Aggregators
    <3>2. CASE Report /\ agg.pc = "report"
      BY <1>0, <3>2 DEF Report, Aggregators
    <3>3. CASE AppendWindow \/ CloseWindow
      BY <1>0, <3>3 DEF AppendWindow, CloseWindow, Aggregators
    <3>4. CASE WriteProfile
      BY <1>0, <3>4 DEF WriteProfile, Aggregators
    <3> QED BY <1>1, <3>1, <3>2, <3>3, <3>4
  <2> QED BY <2>1, <2>2, RingOKSame
<1>2. CASE Load
  <2>1. ring' = ring /\ sampler' = sampler
    BY <1>2 DEF Load
  <2>2. /\ agg'.got = agg.got /\ agg'.pc # "consume" /\ agg.pc # "consume"
        /\ agg'.pc = "read" => ~ (Level < 2)
    BY <1>0, <1>2 DEF Load, Aggregators
  <2>3. Level \in Nat
    BY DEF RingOK, RingTyped, Level
  <2> QED BY <2>1, <2>2, <2>3, RingOKSame
<1>3. CASE Read
  <2>1. ring' = ring /\ sampler' = sampler
    BY <1>3 DEF Read
  <2>2. agg'.got = Decode(ring.tail) /\ agg'.pc = "consume"
    BY <1>0, <1>3 DEF Read, Aggregators
  <2>3. PICK pos, q : Chain(q, pos) /\ q = Stored
    BY DEF RingOK, Chained
  <2>4. q # <<>>
    BY <1>3, <2>3, EmptyIs DEF RingOK, Read
  <2>5. agg'.got = Stored[1] /\ agg'.got \in Samples
    BY <2>2, <2>3, <2>4, OldestIs DEF RingOK
  <2>6. RingTyped' /\ Chained' /\ Stored' = Stored /\ Level' = Level
    BY <2>1, RingSame DEF RingOK
  <2>7. sampler'.pc = "publish" =>
          Written(sampler.sample)' /\ Level' + Width(sampler'.sample) <= RingWords
    BY <2>1, <2>6 DEF RingOK, Written, Slot
  <2> QED BY <2>1, <2>2, <2>3, <2>4, <2>5, <2>6, <2>7, NoneApart DEF RingOK
<1>4. CASE Consume
  <2>1. sampler' = sampler /\ agg'.pc = "load" /\ agg'.got = None
    BY <1>0, <1>4 DEF Consume, Aggregators
  <2>2. Stored # <<>>
    BY <1>4 DEF RingOK, Consume
  <2>3. /\ RingTyped' /\ Chained' /\ Stored[1] \in Samples
        /\ Level' + Width(Stored[1]) = Level
        /\ ring'.slots = ring.slots /\ ring'.head = ring.head
    BY <1>4, <2>2, ConsumeStep DEF RingOK
  <2>4. sampler.pc = "publish" =>
          Written(sampler.sample)' /\ Level' + Width(sampler.sample) <= RingWords
    <3> SUFFICES ASSUME sampler.pc = "publish"
                 PROVE  Written(sampler.sample)' /\ Level' + Width(sampler.sample) <= RingWords
      OBVIOUS
    <3>1. Written(sampler.sample)'
      BY <2>1, <2>3 DEF RingOK, Written, Slot
    <3>2. sampler.sample \in Samples
      BY DEF Typed, Samplers, Subject
    <3>3. Width(sampler.sample) \in Nat /\ Width(Stored[1]) \in Nat
      BY <2>3, <3>2, HeaderOf
    <3>4. Level' \in Nat
      BY <2>3 DEF RingTyped, Level
    <3>5. Level + Width(sampler.sample) <= RingWords
      BY DEF RingOK
    <3> QED BY <2>3, <3>1, <3>3, <3>4, <3>5, RingAssumption
  <2> QED BY <2>1, <2>3, <2>4 DEF RingOK, Written
<1>5. CASE ReportDue \/ ReportFlush
  BY <1>1, <1>5 DEF ReportDue, ReportFlush
<1> QED BY <1>1, <1>2, <1>3, <1>4, <1>5 DEF AggregatorThread

-----------------------------------------------------------------------------
(* The main thread *)

\* The request to write the rest.
Ask ==
  /\ main.pc = "waiting" /\ flush.running
  /\ main' = [pc |-> "flushing", asked |-> Recorded]
  /\ flush' = [flush EXCEPT !.request = TRUE]
  /\ UNCHANGED <<ring, guest, sampler, latch, ports, counted, agg, files, broken, highest>>

LEMMA MainDoes ==
  ASSUME ExitSeen \/ Signal \/ FlushDone \/ FlushLate
  PROVE  Started /\ (Ask \/ Leave)
BY DEF ExitSeen, Signal, FlushDone, FlushLate, flushSamplerIfEnabled, Ask, Started

\* What is recorded is a number, no smaller than what has been counted.
LEMMA RecordedIs ==
  ASSUME Typed, RingOK
  PROVE  /\ Recorded \in Nat
         /\ agg.run.samples \in Nat /\ agg.win.samples \in Nat
         /\ agg.run.samples + agg.win.samples <= Recorded
         /\ agg.got = None => Recorded = agg.run.samples + agg.win.samples + Len(Stored)
         /\ agg.got # None =>
              Len(Stored) >= 1 /\ Recorded = agg.run.samples + agg.win.samples + Len(Stored) - 1
         /\ Len(Stored) \in Nat
<1>1. PICK r \in Nat, w \in Nat : r = agg.run.samples /\ w = agg.win.samples
  BY DEF Typed, Aggregators, Stats
<1>2. Stored \in Seq(Samples)
  BY DEF RingOK, Chained, Chain
<1>3. PICK n \in Nat : n = Len(Stored) /\ (Stored # <<>> => n >= 1)
  BY <1>2
<1>4. agg.got # None => n >= 1
  BY <1>3 DEF RingOK
<1>5. Recorded = r + w + n - (IF agg.got # None THEN 1 ELSE 0)
  BY <1>1, <1>3 DEF Recorded
<1>6. CASE agg.got = None
  <2>1. Recorded = r + w + n
    BY <1>5, <1>6
  <2> QED BY <1>1, <1>3, <1>6, <2>1, SMTT(30)
<1>7. CASE agg.got # None
  <2>1. Recorded = r + w + n - 1 /\ n >= 1
    BY <1>4, <1>5, <1>7
  <2> QED BY <1>1, <1>3, <1>7, <2>1, SMTT(30)
<1> QED BY <1>6, <1>7

LEMMA MainTyped ==
  ASSUME Typed, RingOK, startSampler \/ GuestExits \/ Ask \/ Leave
  PROVE  Typed'
<1>1. CASE startSampler
  <2>1. main' \in Mains
    BY <1>1 DEF startSampler, Typed, Mains
  <2>2. sampler' \in Samplers
    BY <1>1 DEF startSampler, Typed, Samplers
  <2>3. agg' \in Aggregators
    BY <1>1 DEF startSampler, Typed, Aggregators
  <2>4. flush' \in Flushes
    BY <1>1 DEF startSampler, Typed, Flushes
  <2>5. files' \in Files
    BY <1>1 DEF startSampler, Cleared, Files
  <2> QED BY <1>1, <2>1, <2>2, <2>3, <2>4, <2>5 DEF startSampler, Typed
<1>2. CASE GuestExits
  BY <1>2 DEF GuestExits, Typed
<1>3. CASE Ask
  <2>1. main' \in Mains
    BY <1>3, RecordedIs DEF Ask, Mains
  <2>2. flush' \in Flushes
    BY <1>3 DEF Ask, Typed, Flushes
  <2> QED BY <1>3, <2>1, <2>2 DEF Ask, Typed
<1>4. CASE Leave
  <2>1. NoStats \in Stats
    BY DEF NoStats, Stats
  <2>2. main' \in Mains /\ latch' \in Latches
    BY <1>4 DEF Leave, Mains, Latches, NoLatch
  <2>3. sampler' \in Samplers
    BY <1>4, SamplerAssumption DEF Leave, NoSampler, Samplers
  <2>4. agg' \in Aggregators
    BY <1>4, <2>1 DEF Leave, NoAggregator, Aggregators
  <2>5. flush' \in Flushes
    BY <1>4 DEF Leave, NoFlush, Flushes
  <2>6. ports' \in [Threads -> Int]
    BY <1>4 DEF Leave, NoPorts
  <2> QED BY <1>4, <2>2, <2>3, <2>4, <2>5, <2>6, SamplerAssumption DEF Leave, Typed
<1> QED BY <1>1, <1>2, <1>3, <1>4

LEMMA RingOKMain ==
  ASSUME Typed, Fresh, RingOK, startSampler \/ GuestExits \/ Ask \/ Leave
  PROVE  RingOK'
<1>1. CASE startSampler
  <2>1. ring' = ring /\ agg.pc = "off" /\ sampler.pc = "off"
    BY <1>1 DEF startSampler, Fresh, NoAggregator, NoSampler
  <2>2. agg'.got = agg.got /\ agg'.pc \in {"look", "off"} /\ sampler'.pc # "publish"
    BY <1>1 DEF startSampler, Typed, Aggregators, Samplers
  <2> QED BY <2>1, <2>2, RingOKSame
<1>2. CASE GuestExits \/ Ask
  <2>1. ring' = ring /\ agg' = agg /\ sampler' = sampler
    BY <1>2 DEF GuestExits, Ask
  <2> QED BY <2>1, RingOKSame DEF RingOK
<1>3. CASE Leave
  <2>1. /\ ring' = EmptyRing /\ agg'.got = None /\ agg'.pc = "off" /\ sampler'.pc = "off"
    BY <1>3 DEF Leave, NoAggregator, NoSampler
  <2> QED BY <2>1, EmptyStep DEF RingOK
<1> QED BY <1>1, <1>2, <1>3

-----------------------------------------------------------------------------
(* The rights to the threads, and the searches *)

LEMMA PortsStep ==
  ASSUME Typed, Subject, Fresh, PortsBalanced, Next
  PROVE  PortsBalanced'
<1>1. CASE SweepOn
  BY <1>1, NoneApart DEF SweepOn, Sweeping, Keep, PortsBalanced, Typed, Samplers
<1>2. CASE LatchOnto
  BY <1>2, NoneApart DEF LatchOnto, Latched, Sweeping, Keep, PortsBalanced, Typed, Samplers
<1>3. CASE Unlatch
  BY <1>3, NoneApart DEF Unlatch, Measuring, PortsBalanced, Typed, Samplers
<1>4. CASE SweepFails \/ Measure \/ MeasureFails \/ Push \/ Drop \/ Publish \/ startSampler
  <2>1. ports' = ports /\ sampler'.thread = sampler.thread
    BY <1>4 DEF SweepFails, Measure, MeasureFails, Push, Drop, Publish, startSampler, Typed, Samplers
  <2> QED BY <2>1 DEF PortsBalanced
<1>5. CASE AggregatorThread \/ GuestExits \/ Ask
  <2>1. ports' = ports /\ sampler' = sampler
    BY <1>5 DEF GuestExits, Ask, AggregatorThread, Look, Load, Read, Consume, ReportDue,
      ReportFlush, Report, NoReport, AppendWindow, CloseWindow, CutWindow, LoseWindow, WriteProfile
  <2> QED BY <2>1 DEF PortsBalanced
<1>6. CASE Leave
  BY <1>6, NoneApart DEF Leave, NoPorts, NoSampler, PortsBalanced
<1> QED BY <1>1, <1>2, <1>3, <1>4, <1>5, <1>6, MainDoes DEF Next, SamplerThread

LEMMA ThrottleStep ==
  ASSUME Typed, Subject, Fresh, ThrottleEarned, Next
  PROVE  ThrottleEarned'
<1>0. sampler \in Samplers
  BY DEF Typed
<1>1. CASE SweepOn
  <2>1. sampler'.thread = None /\ sampler'.sweeps = Swept
        /\ (sampler'.gaveUp => sampler.gaveUp \/ sampler.sweeps >= DiscoveryGiveUp)
    BY <1>0, <1>1 DEF SweepOn, Sweeping, Samplers
  <2>2. sampler.sweeps >= DiscoveryGiveUp => Swept = DiscoveryGiveUp
    BY <1>0, SamplerAssumption DEF Swept, Samplers
  <2> QED BY <2>1, <2>2, SamplerAssumption DEF ThrottleEarned, Swept
<1>2. CASE LatchOnto
  BY <1>0, <1>2 DEF LatchOnto, Latched, ThrottleEarned, Samplers
<1>3. CASE Unlatch
  BY <1>0, <1>3 DEF Unlatch, Measuring, ThrottleEarned, Samplers
<1>4. CASE SweepFails \/ Measure \/ MeasureFails \/ Push \/ Drop \/ Publish \/ startSampler
  <2>1. sampler'.gaveUp = sampler.gaveUp /\ sampler'.thread = sampler.thread
        /\ sampler'.sweeps = sampler.sweeps
    BY <1>0, <1>4 DEF SweepFails, Measure, MeasureFails, Push, Drop, Publish, startSampler, Samplers
  <2> QED BY <2>1 DEF ThrottleEarned
<1>5. CASE AggregatorThread \/ GuestExits \/ Ask
  <2>1. sampler' = sampler
    BY <1>5 DEF GuestExits, Ask, AggregatorThread, Look, Load, Read, Consume, ReportDue,
      ReportFlush, Report, NoReport, AppendWindow, CloseWindow, CutWindow, LoseWindow, WriteProfile
  <2> QED BY <2>1 DEF ThrottleEarned
<1>6. CASE Leave
  BY <1>6 DEF Leave, NoSampler, ThrottleEarned
<1> QED BY <1>1, <1>2, <1>3, <1>4, <1>5, <1>6, MainDoes DEF Next, SamplerThread

-----------------------------------------------------------------------------
(* The subject, and what was taken of it *)

LEMMA SubjectStep ==
  ASSUME Typed, Fresh, Subject, Next
  PROVE  Subject'
<1>0. sampler \in Samplers /\ latch \in Latches
  BY DEF Typed
<1>1. CASE SweepOn
  <2>1. /\ sampler'.pc = "tick" /\ sampler'.thread = None /\ sampler'.sample = sampler.sample
        /\ sampler.pc = "tick" /\ latch' = latch /\ counted' = counted
    BY <1>0, <1>1 DEF SweepOn, Sweeping, Samplers
  <2> QED BY <2>1 DEF Subject
<1>2. CASE LatchOnto
  <2>1. /\ sampler'.pc = "tick" /\ sampler'.sample = sampler.sample
        /\ sampler.pc = "tick" /\ latch'.latched = TRUE /\ latch'.had = TRUE
    BY <1>0, <1>2 DEF LatchOnto, Latched, Sweeping, Samplers
  <2> QED BY <2>1 DEF Subject
<1>3. CASE SweepFails
  <2>1. /\ sampler'.pc = "ended" /\ sampler'.thread = sampler.thread
        /\ sampler'.sample = sampler.sample
        /\ sampler.pc = "tick" /\ latch' = latch /\ counted' = counted
    BY <1>0, <1>3 DEF SweepFails, Samplers
  <2> QED BY <2>1 DEF Subject
<1>4. CASE Measure
  <2>1. /\ sampler'.pc = "push" /\ sampler'.thread = sampler.thread /\ sampler.thread # None
        /\ sampler'.sample \in Samples /\ latch' = latch
    <3>1. sampler.thread \in Threads
      BY <1>0, <1>4 DEF Measure, Measuring, Samplers
    <3>2. PICK o \in Outcomes :
          sampler' = [sampler EXCEPT !.pc = "push", !.quiet = ~o.inRange,
                                     !.sample = Sample(sampler.thread, o)]
      BY <1>4 DEF Measure
    <3> QED BY <1>0, <1>4, <3>1, <3>2, NoneApart DEF Measure, Samplers, Samples
  <2> QED BY <2>1, NoneApart DEF Subject
<1>5. CASE MeasureFails
  <2>1. /\ sampler'.pc = sampler.pc /\ sampler'.thread = sampler.thread
        /\ sampler'.sample = sampler.sample /\ latch' = latch /\ counted' = counted
    BY <1>0, <1>5 DEF MeasureFails, Samplers
  <2> QED BY <2>1 DEF Subject
<1>6. CASE Push
  <2>1. /\ sampler.pc = "push" /\ sampler'.pc = "publish" /\ sampler'.thread = sampler.thread
        /\ sampler'.sample = sampler.sample /\ latch' = latch /\ counted' = counted
    BY <1>0, <1>6 DEF Push, Samplers
  <2> QED BY <2>1 DEF Subject
<1>7. CASE Drop \/ Publish
  <2>1. /\ sampler'.pc = "tick" /\ sampler'.thread = sampler.thread
        /\ sampler'.sample = None /\ latch' = latch /\ counted' = counted
    BY <1>0, <1>7 DEF Drop, Publish, Samplers
  <2> QED BY <2>1 DEF Subject
<1>8. CASE Unlatch
  <2>1. /\ sampler.pc = "tick" /\ sampler'.pc = "tick" /\ sampler'.thread = None
        /\ sampler.thread # None
        /\ sampler'.sample = sampler.sample /\ latch'.latched = FALSE /\ latch'.had = latch.had
        /\ counted' = counted
    BY <1>0, <1>8 DEF Unlatch, Measuring, Samplers, Latches
  <2> QED BY <2>1 DEF Subject
<1>9. CASE AggregatorThread \/ GuestExits \/ Ask
  <2>1. sampler' = sampler /\ latch' = latch /\ counted' = counted
    BY <1>9 DEF GuestExits, Ask, AggregatorThread, Look, Load, Read, Consume, ReportDue,
      ReportFlush, Report, NoReport, AppendWindow, CloseWindow, CutWindow, LoseWindow, WriteProfile
  <2> QED BY <2>1 DEF Subject
<1>10. CASE Leave
  BY <1>10 DEF Leave, NoSampler, NoLatch, Subject
<1>11. CASE startSampler
  <2>1. /\ sampler'.pc \in {"off", "tick"} /\ sampler.pc = "off"
        /\ sampler'.thread = sampler.thread
        /\ sampler'.sample = sampler.sample /\ latch' = latch /\ counted' = counted
    BY <1>0, <1>11 DEF startSampler, Samplers, Fresh, NoSampler
  <2> QED BY <2>1 DEF Subject
<1> QED BY <1>1, <1>2, <1>3, <1>4, <1>5, <1>6, <1>7, <1>8, <1>9, <1>10, <1>11, MainDoes
        DEF Next, SamplerThread

LEMMA FreshStep ==
  ASSUME Typed, Fresh, Next
  PROVE  Fresh'
<1>1. CASE startSampler \/ Ask \/ Leave
  <2>1. main'.pc # "off"
    BY <1>1 DEF startSampler, Ask, Leave, Typed, Mains
  <2> QED BY <2>1 DEF Fresh
<1>2. CASE SamplerThread \/ AggregatorThread \/ GuestExits
  <2>1. Started /\ main' = main
    BY <1>2 DEF SamplerThread, SweepOn, LatchOnto, SweepFails, Measure, MeasureFails, Push, Drop,
      Publish, Unlatch, Sweeping, Measuring, GuestExits, AggregatorThread, Look, Load, Read,
      Consume, ReportDue, ReportFlush, Report, NoReport, AppendWindow, CloseWindow, CutWindow,
      LoseWindow, WriteProfile
  <2> QED BY <2>1 DEF Fresh, Started
<1> QED BY <1>1, <1>2, MainDoes DEF Next

LEMMA RecordedSame ==
  ASSUME Stored' = Stored, agg'.got = agg.got, agg'.run.samples = agg.run.samples,
         agg'.win.samples = agg.win.samples
  PROVE  Recorded' = Recorded
BY DEF Recorded

\* What the books are about is left alone.
LEMMA BooksSame ==
  ASSUME RingOK, Books, main.pc # "left", ring' = ring, counted' = counted,
         sampler'.sample = sampler.sample, agg'.got = agg.got,
         agg'.run = agg.run, agg'.win = agg.win, agg'.base = agg.base, Closing' <=> Closing
  PROVE  Books'
<1>1. Recorded' = Recorded
  BY RingSame, RecordedSame DEF RingOK
<1> QED BY <1>1 DEF Books

LEMMA BooksSampler ==
  ASSUME Typed, Subject, RingOK, Books, SamplerThread
  PROVE  Books'
<1>0. /\ sampler \in Samplers /\ counted \in Nat /\ main.pc # "left" /\ agg' = agg
      /\ ring.dropped \in Nat /\ Closing' = Closing
  <2>1. Started /\ agg' = agg
    BY DEF SamplerThread, SweepOn, LatchOnto, SweepFails, Measure, MeasureFails, Push, Drop,
      Publish, Unlatch, Sweeping, Measuring
  <2> QED BY <2>1 DEF Typed, Started, RingOK, RingTyped, Closing
<1>1. CASE SweepOn \/ LatchOnto \/ SweepFails \/ MeasureFails \/ Unlatch
  <2>1. ring' = ring /\ counted' = counted /\ sampler'.sample = sampler.sample
    BY <1>0, <1>1 DEF SweepOn, LatchOnto, Latched, SweepFails, MeasureFails, Unlatch, Samplers
  <2> QED BY <1>0, <2>1, BooksSame
<1>2. /\ counted = Recorded + ring.dropped + (IF sampler.sample # None THEN 1 ELSE 0)
      /\ Recorded \in Nat
  BY <1>0, RecordedIs DEF Books
<1>3. ASSUME counted' = Recorded' + ring'.dropped + (IF sampler'.sample # None THEN 1 ELSE 0),
             counted' >= counted
      PROVE  Books'
  <2>1. agg.base \in Nat
    BY DEF Typed, Aggregators
  <2>2. agg.base <= counted => agg.base <= counted'
    BY <1>0, <1>3, <2>1
  <2> QED BY <1>0, <1>3, <2>2 DEF Books
<1>4. CASE Measure
  <2>1. ring' = ring /\ counted' = counted + 1 /\ sampler.sample = None
    BY <1>4 DEF Measure, Measuring, Taken, Subject
  <2>2. sampler'.sample # None
    <3>1. sampler.thread \in Threads
      BY <1>0, <1>4 DEF Measure, Measuring, Samplers
    <3> QED BY <1>0, <1>4, <3>1, NoneApart DEF Measure, Samplers, Samples
  <2>3. Recorded' = Recorded
    BY <1>0, <2>1, RingSame, RecordedSame DEF RingOK
  <2>4. counted' = Recorded' + ring'.dropped + (IF sampler'.sample # None THEN 1 ELSE 0)
    BY <1>0, <1>2, <2>1, <2>2, <2>3
  <2> QED BY <1>0, <1>3, <2>1, <2>4
<1>5. CASE Push
  <2>1. counted' = counted /\ sampler'.sample = sampler.sample /\ sampler.sample \in Samples
    BY <1>0, <1>5 DEF Push, Samplers, Subject
  <2>2. Stored' = Stored /\ ring'.dropped = ring.dropped
    BY <1>5, <2>1, PushStep DEF RingOK, RingTyped, Push
  <2>3. Recorded' = Recorded
    BY <1>0, <2>2, RecordedSame
  <2> QED BY <1>0, <1>2, <1>3, <2>1, <2>2, <2>3
<1>6. CASE Drop
  <2>1. counted' = counted /\ sampler'.sample = None /\ sampler.sample # None
    BY <1>0, <1>6 DEF Drop, Samplers, Subject
  <2>2. Stored' = Stored /\ ring'.dropped = ring.dropped + 1
    BY <1>6, DropStep DEF RingOK
  <2>3. Recorded' = Recorded
    BY <1>0, <2>2, RecordedSame
  <2>4. counted' = Recorded' + ring'.dropped + (IF sampler'.sample # None THEN 1 ELSE 0)
    BY <1>0, <1>2, <2>1, <2>2, <2>3
  <2> QED BY <1>0, <1>3, <2>1, <2>4
<1>7. CASE Publish
  <2>1. counted' = counted /\ sampler'.sample = None /\ sampler.sample \in Samples
        /\ sampler.sample # None
    BY <1>0, <1>7 DEF Publish, Samplers, Subject
  <2>2. Written(sampler.sample)
    BY <1>7 DEF Publish, RingOK
  <2>3. Stored' = Append(Stored, sampler.sample) /\ ring'.dropped = ring.dropped
    <3> PICK s \in Samples : s = sampler.sample /\ Written(s)
      BY <2>1, <2>2
    <3>1. Stored' = Append(Stored, s) /\ ring'.dropped = ring.dropped
      BY <1>7, PublishStep DEF RingOK
    <3> QED BY <3>1
  <2>4. Len(Stored') = Len(Stored) + 1
    <3>1. Stored \in Seq(Samples)
      BY DEF RingOK, Chained, Chain
    <3> QED BY <2>1, <2>3, <3>1, AppendProperties
  <2>5. Recorded' = Recorded + 1
    <3>1. PICK r \in Nat, w \in Nat, n \in Nat :
            r = agg.run.samples /\ w = agg.win.samples /\ n = Len(Stored)
      BY RecordedIs
    <3>2. /\ Recorded = r + w + n - (IF agg.got # None THEN 1 ELSE 0)
          /\ Recorded' = r + w + (n + 1) - (IF agg.got # None THEN 1 ELSE 0)
      BY <1>0, <2>4, <3>1 DEF Recorded
    <3> QED BY <3>2
  <2>6. counted' = Recorded' + ring'.dropped + (IF sampler'.sample # None THEN 1 ELSE 0)
    BY <1>0, <1>2, <2>1, <2>3, <2>5
  <2> QED BY <1>0, <1>3, <2>1, <2>6
<1> QED BY <1>1, <1>4, <1>5, <1>6, <1>7 DEF SamplerThread

\* What a step of the aggregator leaves alone.
LEMMA AggregatorLeaves ==
  ASSUME AggregatorThread
  PROVE  /\ Started /\ main' = main /\ sampler' = sampler /\ latch' = latch
         /\ counted' = counted /\ broken' = broken /\ highest' = highest
BY DEF AggregatorThread, Look, Load, Read, Consume, ReportDue, ReportFlush, Report, NoReport,
       AppendWindow, CloseWindow, CutWindow, LoseWindow, WriteProfile

\* What a drain does to what is recorded: nothing.
LEMMA RecordedDrain ==
  ASSUME Typed, RingOK, Read \/ Consume
  PROVE  Recorded' = Recorded /\ ring'.dropped = ring.dropped
<1>0. agg \in Aggregators
  BY DEF Typed
<1>1. PICK r \in Nat, w \in Nat, n \in Nat :
        r = agg.run.samples /\ w = agg.win.samples /\ n = Len(Stored)
  BY RecordedIs
<1>2. CASE Read
  <2>1. ring' = ring /\ Stored' = Stored /\ agg.got = None /\ agg'.run = agg.run
    BY <1>0, <1>2, RingSame DEF Read, RingOK, Aggregators
  <2>2. agg'.win.samples = w + 1 /\ agg'.got = Decode(ring.tail)
    BY <1>0, <1>1, <1>2 DEF Read, Aggregators, Stats
  <2>3. agg'.got # None
    <3>1. PICK pos : Chain(Stored, pos)
      BY DEF RingOK, Chained
    <3>2. Stored # <<>>
      BY <1>2, <3>1, EmptyIs DEF RingOK, Read
    <3>3. Decode(ring.tail) \in Samples
      BY <3>1, <3>2, OldestIs DEF RingOK
    <3> QED BY <2>2, <3>3, NoneApart
  <2>4. Recorded = r + w + n /\ Recorded' = r + (w + 1) + n - 1
    BY <1>1, <2>1, <2>2, <2>3 DEF Recorded
  <2> QED BY <2>1, <2>4
<1>3. CASE Consume
  <2>1. agg.got # None /\ agg'.got = None /\ agg'.run = agg.run /\ agg'.win = agg.win
        /\ Stored # <<>>
    BY <1>0, <1>3 DEF Consume, RingOK, Aggregators
  <2>2. Stored' = Tail(Stored) /\ ring'.dropped = ring.dropped
    BY <1>3, <2>1, ConsumeStep DEF RingOK
  <2>3. Len(Stored') = n - 1 /\ n >= 1
    <3>1. Stored \in Seq(Samples)
      BY DEF RingOK, Chained, Chain
    <3> QED BY <1>1, <2>1, <2>2, <3>1, HeadTailProperties
  <2>4. Recorded = r + w + n - 1 /\ Recorded' = r + w + (n - 1)
    BY <1>1, <2>1, <2>3 DEF Recorded
  <2> QED BY <2>2, <2>3, <2>4
<1> QED BY <1>2, <1>3

LEMMA BooksAggregator ==
  ASSUME Typed, RingOK, Books, AggregatorThread
  PROVE  Books'
<1>0. /\ agg \in Aggregators /\ counted \in Nat /\ main.pc # "left" /\ main' = main
      /\ sampler' = sampler /\ counted' = counted
  BY AggregatorLeaves DEF Typed, Started
<1>1. CASE \/ Look \/ NoReport \/ AppendWindow \/ CloseWindow \/ CutWindow \/ LoseWindow \/ Load
  <2>1. /\ ring' = ring /\ agg'.got = agg.got /\ agg'.run = agg.run /\ agg'.win = agg.win
        /\ agg'.base = agg.base /\ (Closing' <=> Closing)
    <3>1. CASE Look \/ NoReport \/ Load
      BY <1>0, <3>1 DEF Look, NoReport, Load, Aggregators, Closing
    <3>2. CASE AppendWindow \/ CloseWindow \/ CutWindow \/ LoseWindow
      BY <1>0, <3>2 DEF AppendWindow, CloseWindow, CutWindow, LoseWindow, Aggregators, Closing
    <3> QED BY <1>1, <3>1, <3>2
  <2> QED BY <1>0, <2>1, BooksSame
<1>2. CASE Read \/ Consume
  <2>1. /\ agg'.run = agg.run /\ agg'.base = agg.base /\ agg'.win.measured = agg.win.measured
        /\ ~Closing /\ ~Closing'
    <3>1. CASE Read
      BY <1>0, <3>1 DEF Read, Aggregators, Stats, Closing
    <3>2. CASE Consume
      BY <1>0, <3>2 DEF Consume, Aggregators, Closing
    <3> QED BY <1>2, <3>1, <3>2
  <2>2. Recorded' = Recorded /\ ring'.dropped = ring.dropped
    BY <1>2, RecordedDrain
  <2> QED BY <1>0, <2>1, <2>2 DEF Books
<1>3. CASE Report /\ agg.pc = "report"
  <2>1. PICK r \in Stats, w \in Stats, base \in Nat :
          r = agg.run /\ w = agg.win /\ base = agg.base
    BY <1>0 DEF Aggregators
  <2>2. w.measured = 0 /\ r.measured + w.measured = base /\ base <= counted
        /\ r.samples <= r.measured
    BY <1>0, <1>3, <2>1 DEF Books, Closing
  <2>3. /\ ring' = ring /\ agg'.got = agg.got /\ agg'.run = r /\ agg'.base = counted
        /\ agg'.win.samples = w.samples /\ agg'.win.measured = counted - base
        /\ Closing'
    BY <1>0, <1>3, <2>1 DEF Report, Aggregators, Stats, Closing
  <2>4. Recorded' = Recorded
    BY <2>1, <2>3, RingSame, RecordedSame DEF RingOK
  <2>5. r.measured + (counted - base) = counted
    BY <1>0, <2>1, <2>2 DEF Stats
  <2>6. r.samples + w.samples <= counted
    <3>1. r.samples + w.samples <= Recorded /\ Recorded \in Nat /\ ring.dropped \in Nat
      BY <2>1, RecordedIs DEF RingOK, RingTyped
    <3>2. Recorded <= counted
      BY <1>0, <3>1 DEF Books
    <3>3. r.samples \in Nat /\ w.samples \in Nat
      BY <2>1 DEF Stats
    <3> QED BY <1>0, <3>1, <3>2, <3>3
  <2> QED BY <1>0, <2>2, <2>3, <2>4, <2>5, <2>6 DEF Books
<1>4. CASE WriteProfile
  <2>1. PICK r \in Stats, w \in Stats, base \in Nat :
          r = agg.run /\ w = agg.win /\ base = agg.base
    BY <1>0 DEF Aggregators
  <2>2. r.measured + w.measured = base /\ base <= counted /\ r.samples + w.samples <= base
    BY <1>0, <1>4, <2>1 DEF Books, Closing, WriteProfile
  <2>3. /\ ring' = ring /\ agg'.got = agg.got /\ agg'.run = mergeStats(r, w)
        /\ agg'.win = NoStats /\ agg'.base = base /\ ~Closing'
    BY <1>0, <1>4, <2>1 DEF WriteProfile, Aggregators, Closing
  <2>4. /\ agg'.run.samples = r.samples + w.samples
        /\ agg'.run.measured = r.measured + w.measured
        /\ agg'.win.samples = 0 /\ agg'.win.measured = 0
    BY <2>3 DEF mergeStats, NoStats
  <2>5. r.samples \in Nat /\ w.samples \in Nat /\ r.measured \in Nat /\ w.measured \in Nat
    BY <2>1 DEF Stats
  <2>6. Stored' = Stored
    BY <2>3, RingSame DEF RingOK
  <2>7. Recorded' = Recorded
    <3>1. PICK a \in Nat, b \in Nat, n \in Nat, c \in {0, 1} :
            /\ a = r.samples /\ b = w.samples /\ n = Len(Stored)
            /\ c = (IF agg.got # None THEN 1 ELSE 0)
      BY <2>5, RecordedIs
    <3>2. Recorded = a + b + n - c /\ Recorded' = (a + b) + 0 + n - c
      BY <2>1, <2>3, <2>4, <2>6, <3>1 DEF Recorded
    <3> QED BY <3>2
  <2> QED BY <1>0, <2>2, <2>3, <2>4, <2>5, <2>7 DEF Books
<1>5. CASE ReportDue \/ ReportFlush
  BY <1>3, <1>5 DEF ReportDue, ReportFlush
<1> QED BY <1>1, <1>2, <1>4, <1>5 DEF AggregatorThread

LEMMA BooksMain ==
  ASSUME Typed, Fresh, RingOK, Books, startSampler \/ GuestExits \/ Ask \/ Leave
  PROVE  Books'
<1>1. CASE startSampler
  <2>1. /\ main.pc # "left" /\ ring' = ring /\ counted' = counted
        /\ sampler'.sample = sampler.sample /\ agg'.got = agg.got
        /\ agg'.run = agg.run /\ agg'.win = agg.win /\ agg'.base = agg.base
        /\ ~Closing' /\ agg.pc = "off"
    BY <1>1 DEF startSampler, Fresh, NoAggregator, Typed, Aggregators, Samplers, Closing
  <2> QED BY <2>1, BooksSame DEF Closing
<1>2. CASE GuestExits \/ Ask
  <2>1. /\ main.pc # "left" /\ ring' = ring /\ counted' = counted
        /\ sampler' = sampler /\ agg' = agg /\ (Closing' <=> Closing)
    BY <1>2 DEF GuestExits, Ask, Started, Closing
  <2> QED BY <2>1, BooksSame
<1>3. CASE Leave
  BY <1>3 DEF Leave, Books
<1> QED BY <1>1, <1>2, <1>3

-----------------------------------------------------------------------------
(* The flush *)

\* The sampler takes nothing out of the ring.
LEMMA RecordedGrows ==
  ASSUME Typed, Subject, RingOK, SamplerThread
  PROVE  agg' = agg /\ Recorded' \in Nat /\ Recorded' >= Recorded
<1>0. sampler \in Samplers /\ agg' = agg
  BY DEF Typed, SamplerThread, SweepOn, LatchOnto, SweepFails, Measure, MeasureFails, Push, Drop,
         Publish, Unlatch
<1>1. Stored \in Seq(Samples)
  BY DEF RingOK, Chained, Chain
<1>2. Stored' = Stored \/ \E s \in Samples : Stored' = Append(Stored, s)
  <2>1. CASE SweepOn \/ LatchOnto \/ SweepFails \/ Measure \/ MeasureFails \/ Unlatch
    <3>1. ring' = ring
      BY <2>1 DEF SweepOn, LatchOnto, SweepFails, Measure, MeasureFails, Unlatch
    <3> QED BY <3>1, RingSame DEF RingOK
  <2>2. CASE Push
    <3>1. sampler.sample \in Samples
      BY <1>0, <2>2 DEF Push, Subject, Samplers
    <3> QED BY <2>2, <3>1, PushStep DEF RingOK
  <2>3. CASE Drop
    BY <2>3, DropStep DEF RingOK
  <2>4. CASE Publish
    <3>1. sampler.sample \in Samples /\ Written(sampler.sample)
      BY <1>0, <2>4 DEF Publish, Subject, Samplers, RingOK
    <3> PICK s \in Samples : s = sampler.sample /\ Written(s)
      BY <3>1
    <3>2. Stored' = Append(Stored, s)
      BY <2>4, PublishStep DEF RingOK
    <3> QED BY <3>2
  <2> QED BY <2>1, <2>2, <2>3, <2>4 DEF SamplerThread
<1>3. PICK r \in Nat, w \in Nat, n \in Nat, c \in {0, 1} :
        /\ r = agg.run.samples /\ w = agg.win.samples /\ n = Len(Stored)
        /\ c = (IF agg.got # None THEN 1 ELSE 0)
  BY RecordedIs
<1>4. PICK m \in Nat : m = Len(Stored') /\ (m = n \/ m = n + 1)
  BY <1>1, <1>2, <1>3, AppendProperties
<1>5. Recorded = r + w + n - c /\ Recorded' = r + w + m - c
  BY <1>0, <1>3, <1>4 DEF Recorded
<1>6. Recorded \in Nat
  BY RecordedIs
<1>7. Recorded' = Recorded \/ Recorded' = Recorded + 1
  <2>1. CASE m = n
    BY <1>5, <2>1
  <2>2. CASE m = n + 1
    <3>1. r + w + (n + 1) - c = (r + w + n - c) + 1
      OBVIOUS
    <3> QED BY <1>5, <2>2, <3>1
  <2> QED BY <1>4, <2>1, <2>2
<1> QED BY <1>0, <1>6, <1>7

\* A step that serves no flush and leaves the main thread where it is.
LEMMA FlushingSame ==
  ASSUME Typed, RingOK, Flushing, Started, main' = main, flush' = flush, broken' = broken,
         files'.profile = files.profile, agg'.run = agg.run, Recorded' \in Nat,
         Recorded' >= Recorded, agg'.flushing => flush.request,
         agg'.flushing /\ (Closing' \/ agg'.pc = "report") =>
           main.asked <= agg'.run.samples + agg'.win.samples
  PROVE  Flushing'
<1>1. main.pc = "flushing" => main.asked <= Recorded'
  <2>1. Recorded \in Nat /\ main.asked \in Nat
    BY RecordedIs DEF Typed, Mains
  <2> QED BY <2>1 DEF Flushing
<1>2. Profile' = Profile
  BY DEF Profile
<1> QED BY <1>1, <1>2 DEF Flushing

LEMMA FlushingSampler ==
  ASSUME Typed, Subject, RingOK, Flushing, SamplerThread
  PROVE  Flushing'
<1>1. Started /\ main' = main /\ flush' = flush /\ broken' = broken /\ files' = files
  BY DEF SamplerThread, SweepOn, LatchOnto, SweepFails, Measure, MeasureFails, Push, Drop,
         Publish, Unlatch, Sweeping, Measuring
<1>2. agg' = agg /\ Recorded' \in Nat /\ Recorded' >= Recorded
  BY RecordedGrows
<1> QED BY <1>1, <1>2, FlushingSame DEF Flushing, Closing

\* Nobody was latched onto: nothing was recorded.
LEMMA NothingRecorded ==
  ASSUME Typed, Subject, RingOK, Books, Started, ~HasSubject
  PROVE  Recorded = 0 /\ agg.run.samples = 0 /\ agg.win.samples = 0
<1>1. counted = 0
  BY DEF Subject, HasSubject
<1>2. Recorded \in Nat /\ ring.dropped \in Nat /\ agg.run.samples \in Nat
      /\ agg.win.samples \in Nat /\ agg.run.samples + agg.win.samples <= Recorded
  BY RecordedIs DEF RingOK, RingTyped
<1>3. Recorded = 0
  BY <1>1, <1>2 DEF Books, Started
<1> QED BY <1>2, <1>3

LEMMA FlushingAggregator ==
  ASSUME Typed, Subject, RingOK, Books, Flushing, AggregatorThread
  PROVE  Flushing'
<1>0. /\ agg \in Aggregators /\ flush \in Flushes /\ files \in Files
      /\ Started /\ main' = main /\ broken' = broken
  BY AggregatorLeaves DEF Typed
<1>r. Recorded \in Nat
  BY RecordedIs
<1>1. CASE Look
  <2>1. /\ flush' = flush /\ files' = files /\ ring' = ring /\ agg'.pc = "load"
        /\ agg'.run = agg.run /\ agg'.win = agg.win /\ agg'.got = agg.got
        /\ (agg'.flushing => flush.request)
    BY <1>0, <1>1 DEF Look, Aggregators
  <2>2. Recorded' = Recorded
    BY <2>1, RingSame, RecordedSame DEF RingOK
  <2> QED BY <1>0, <1>r, <2>1, <2>2, FlushingSame DEF Closing
<1>2. CASE Load
  <2>1. /\ flush' = flush /\ files' = files /\ ring' = ring /\ agg'.pc \in {"report", "read"}
        /\ (agg'.pc = "report" => Level < 2) /\ agg.pc = "load"
        /\ agg'.run = agg.run /\ agg'.win = agg.win /\ agg'.got = agg.got
        /\ agg'.flushing = agg.flushing
    BY <1>0, <1>2 DEF Load, Aggregators
  <2>2. Recorded' = Recorded
    BY <2>1, RingSame, RecordedSame DEF RingOK
  <2>3. ASSUME agg.flushing, agg'.pc = "report"
        PROVE  main.asked <= agg.run.samples + agg.win.samples
    <3>1. Stored = <<>>
      <4>1. PICK pos : Chain(Stored, pos)
        BY DEF RingOK, Chained
      <4>2. Level \in Nat /\ Level < 2
        BY <2>1, <2>3 DEF RingOK, RingTyped, Level
      <4> QED BY <4>1, <4>2, EmptyIs DEF RingOK
    <3>2. agg.got = None
      BY <2>1 DEF RingOK
    <3>3. Recorded = agg.run.samples + agg.win.samples
      <4>1. Len(Stored) = 0
        BY <3>1
      <4>2. /\ agg.run.samples \in Nat /\ agg.win.samples \in Nat
            /\ Recorded = agg.run.samples + agg.win.samples + Len(Stored)
        BY <3>2, RecordedIs
      <4> QED BY <4>1, <4>2
    <3> QED BY <1>0, <2>3, <3>3 DEF Flushing
  <2> QED BY <1>0, <1>r, <2>1, <2>2, <2>3, FlushingSame DEF Closing, Flushing
<1>3. CASE Read \/ Consume
  <2>1. /\ flush' = flush /\ files' = files /\ agg'.pc \in {"consume", "load"}
        /\ agg'.run = agg.run /\ agg'.flushing = agg.flushing
    <3>1. CASE Read
      BY <1>0, <3>1 DEF Read, Aggregators
    <3>2. CASE Consume
      BY <1>0, <3>2 DEF Consume, Aggregators
    <3> QED BY <1>3, <3>1, <3>2
  <2>2. Recorded' = Recorded
    BY <1>3, RecordedDrain
  <2> QED BY <1>0, <1>r, <2>1, <2>2, FlushingSame DEF Closing, Flushing
<1>4. CASE Report /\ agg.pc = "report"
  <2>1. /\ flush' = flush /\ files' = files /\ ring' = ring /\ agg'.pc \in {"window", "merge"}
        /\ agg'.run = agg.run /\ agg'.win.samples = agg.win.samples /\ agg'.got = agg.got
        /\ agg'.flushing = agg.flushing
    BY <1>0, <1>4 DEF Report, Aggregators, Stats
  <2>2. Recorded' = Recorded
    BY <2>1, RingSame, RecordedSame DEF RingOK
  <2> QED BY <1>0, <1>4, <1>r, <2>1, <2>2, FlushingSame DEF Closing, Flushing
<1>5. CASE AppendWindow \/ CloseWindow \/ CutWindow \/ LoseWindow
  <2>1. /\ flush' = flush /\ files'.profile = files.profile /\ ring' = ring
        /\ Closing /\ Closing' /\ agg'.pc # "report" /\ agg.pc # "report"
        /\ agg'.run = agg.run /\ agg'.win = agg.win /\ agg'.got = agg.got
        /\ agg'.flushing = agg.flushing
    <3>1. CASE AppendWindow
      BY <1>0, <3>1 DEF AppendWindow, Aggregators, Files, Closing
    <3>2. CASE CloseWindow
      BY <1>0, <3>2 DEF CloseWindow, Aggregators, Files, Closing
    <3>3. CASE CutWindow
      BY <1>0, <3>3 DEF CutWindow, Aggregators, Closing
    <3>4. CASE LoseWindow
      BY <1>0, <3>4 DEF LoseWindow, Aggregators, Files, Closing
    <3> QED BY <1>5, <3>1, <3>2, <3>3, <3>4
  <2>2. Recorded' = Recorded
    BY <2>1, RingSame, RecordedSame DEF RingOK
  <2> QED BY <1>0, <1>r, <2>1, <2>2, FlushingSame DEF Flushing
<1>6. CASE NoReport
  <2>1. /\ files' = files /\ ring' = ring /\ agg'.pc = "look"
        /\ agg'.run = agg.run /\ agg'.win = agg.win /\ agg'.got = agg.got
        /\ agg'.flushing = agg.flushing
        /\ flush'.request = flush.request
        /\ flush'.done = (flush.done \/ agg.flushing)
    BY <1>0, <1>6 DEF NoReport, Serve, Aggregators, Flushes
  <2>2. Recorded' = Recorded
    BY <2>1, RingSame, RecordedSame DEF RingOK
  <2>3. agg.flushing => flush.request /\ main.asked <= agg.run.samples
    <3> SUFFICES ASSUME agg.flushing PROVE flush.request /\ main.asked <= agg.run.samples
      OBVIOUS
    <3>1. Recorded = 0 /\ agg.run.samples = 0
      BY <1>0, <1>6, NothingRecorded DEF NoReport
    <3> QED BY <1>0, <3>1 DEF Flushing
  <2>4. Profile' = Profile
    BY <2>1 DEF Profile
  <2>5. flush'.done => flush'.request /\ main'.asked <= agg'.run.samples
    BY <1>0, <2>1, <2>3 DEF Flushing
  <2>6. ~(Closing' \/ agg'.pc = "report") /\ (agg'.flushing => flush'.request)
    BY <1>0, <2>1 DEF Closing, Flushing
  <2> QED BY <1>0, <2>1, <2>2, <2>4, <2>5, <2>6 DEF Flushing
<1>7. CASE WriteProfile
  <2>1. PICK r \in Stats, w \in Stats : r = agg.run /\ w = agg.win
    BY <1>0 DEF Aggregators
  <2>2. /\ ring' = ring /\ agg'.pc = "look" /\ agg'.got = agg.got
        /\ agg'.run = mergeStats(r, w) /\ agg'.win = NoStats
        /\ agg'.flushing = agg.flushing /\ agg.pc = "merge"
    BY <1>0, <1>7, <2>1 DEF WriteProfile, Aggregators
  <2>3. /\ flush'.request = flush.request
        /\ flush'.done = (flush.done \/ agg.flushing)
    BY <1>0, <1>7 DEF WriteProfile, Serve, Flushes
  <2>4. "profile" \notin broken => files'.profile = mergeStats(r, w)
    BY <1>0, <1>7, <2>1 DEF WriteProfile, Files
  <2>5. PICK a \in Nat, b \in Nat, n \in Nat, c \in {0, 1} :
          /\ a = r.samples /\ b = w.samples /\ n = Len(Stored)
          /\ c = (IF agg.got # None THEN 1 ELSE 0)
    BY <2>1, RecordedIs
  <2>6. agg'.run.samples = a + b /\ agg'.win.samples = 0
    BY <2>2, <2>5 DEF mergeStats, NoStats
  <2>7. Recorded' = Recorded
    <3>1. Stored' = Stored
      BY <2>2, RingSame DEF RingOK
    <3>2. Recorded = a + b + n - c /\ Recorded' = (a + b) + 0 + n - c
      BY <2>1, <2>2, <2>5, <2>6, <3>1 DEF Recorded
    <3> QED BY <3>2
  <2>8. "profile" \notin broken => Profile' = agg'.run
    <3>1. mergeStats(r, w) # None
      BY MergeTyped, NoneApart
    <3> QED BY <2>2, <2>4, <3>1 DEF Profile
  <2>9. flush'.done => flush'.request /\ main'.asked <= agg'.run.samples
    <3>1. CASE flush.done
      <4>1. flush.request /\ main.asked <= a /\ main.asked \in Nat
        BY <1>0, <2>1, <2>5, <3>1 DEF Flushing, Typed, Mains
      <4>2. main.asked <= a + b
        BY <4>1
      <4> QED BY <1>0, <2>3, <2>6, <4>1, <4>2
    <3>2. CASE agg.flushing
      <4>1. flush.request /\ main.asked <= a + b
        BY <1>0, <2>1, <2>2, <2>5, <3>2 DEF Flushing, Closing
      <4> QED BY <1>0, <2>3, <2>6, <4>1
    <3> QED BY <2>3, <3>1, <3>2
  <2>10. ~(Closing' \/ agg'.pc = "report") /\ (agg'.flushing => flush'.request)
    BY <1>0, <2>2, <2>3 DEF Closing, Flushing
  <2> QED BY <1>0, <2>3, <2>7, <2>8, <2>9, <2>10 DEF Flushing
<1>8. CASE ReportDue \/ ReportFlush
  BY <1>4, <1>8 DEF ReportDue, ReportFlush
<1> QED BY <1>1, <1>2, <1>3, <1>4, <1>5, <1>6, <1>7, <1>8 DEF AggregatorThread

LEMMA FlushingMain ==
  ASSUME Typed, Fresh, RingOK, Flushing, startSampler \/ GuestExits \/ Ask \/ Leave
  PROVE  Flushing'
<1>1. CASE startSampler
  <2>1. /\ main'.pc = "waiting" /\ flush'.request = FALSE /\ flush'.done = FALSE
        /\ agg'.flushing = FALSE /\ agg'.run = NoStats
    BY <1>1 DEF startSampler, Fresh, NoAggregator, NoFlush, Typed, Mains, Flushes, Aggregators
  <2>2. Profile' = NoStats
    BY <1>1 DEF startSampler, Cleared, Profile
  <2> QED BY <2>1, <2>2 DEF Flushing
<1>2. CASE GuestExits
  <2>1. /\ Started /\ main' = main /\ flush' = flush /\ broken' = broken /\ files' = files
        /\ agg' = agg /\ ring' = ring
    BY <1>2 DEF GuestExits
  <2>2. Recorded' = Recorded /\ Recorded \in Nat
    BY <2>1, RingSame, RecordedSame, RecordedIs DEF RingOK
  <2> QED BY <2>1, <2>2, FlushingSame DEF Flushing, Closing
<1>3. CASE Ask
  <2>1. /\ main'.pc = "flushing" /\ main'.asked = Recorded /\ broken' = broken
        /\ files' = files /\ agg' = agg /\ ring' = ring /\ Started /\ main.pc = "waiting"
        /\ flush'.request = TRUE /\ flush'.done = flush.done
    BY <1>3 DEF Ask, Typed, Flushes, Started
  <2>2. ~flush.request /\ ~flush.done /\ ~agg.flushing
    BY <2>1 DEF Flushing
  <2>3. Recorded' = Recorded /\ Recorded \in Nat
    BY <2>1, RingSame, RecordedSame, RecordedIs DEF RingOK
  <2>4. Profile' = Profile
    BY <2>1 DEF Profile
  <2> QED BY <2>1, <2>2, <2>3, <2>4 DEF Flushing
<1>4. CASE Leave
  BY <1>4 DEF Leave, Flushing, Started
<1> QED BY <1>1, <1>2, <1>3, <1>4

-----------------------------------------------------------------------------
(* What the profile says *)

\* Only the merge and the start write a profile.
LEMMA ProfileLeft ==
  ASSUME Typed, Next
  PROVE  \/ startSampler \/ WriteProfile
         \/ /\ Started /\ files'.profile = files.profile
            /\ broken' = broken /\ (main'.pc # "left" => Started')
<1>1. CASE SamplerThread
  <2>1. Started /\ main' = main /\ files' = files /\ broken' = broken
    BY <1>1 DEF SamplerThread, SweepOn, LatchOnto, SweepFails, Measure, MeasureFails, Push, Drop,
         Publish, Unlatch, Sweeping, Measuring
  <2> QED BY <2>1 DEF Started
<1>2. CASE AggregatorThread
  <2>1. Started /\ main' = main /\ broken' = broken
    BY <1>2, AggregatorLeaves
  <2>2. WriteProfile \/ files'.profile = files.profile
    <3>1. CASE AppendWindow \/ CloseWindow \/ LoseWindow
      BY <3>1 DEF AppendWindow, CloseWindow, LoseWindow, Typed, Files
    <3>2. CASE Look \/ Load \/ Read \/ Consume \/ ReportDue \/ ReportFlush \/ NoReport \/ CutWindow
      BY <3>2 DEF Look, Load, Read, Consume, ReportDue, ReportFlush, Report, NoReport, CutWindow
    <3> QED BY <1>2, <3>1, <3>2 DEF AggregatorThread
  <2> QED BY <2>1, <2>2 DEF Started
<1>3. CASE GuestExits \/ Ask \/ Leave
  <2>1. files' = files /\ broken' = broken /\ main'.pc \in {main.pc, "flushing", "left"}
    BY <1>3 DEF GuestExits, Ask, Leave
  <2>2. CASE Started
    BY <2>1, <2>2 DEF Started
  <2>3. CASE ~Started
    BY <2>3, <1>3, MainDoes DEF Next, startSampler, GuestExits, Ask, SamplerThread, Started,
      SweepOn, LatchOnto, SweepFails, Measure, MeasureFails, Push, Drop,
      Publish, Unlatch, Sweeping, Measuring, AggregatorThread, Look, Load, Read, Consume,
      ReportDue, ReportFlush, NoReport, AppendWindow, CloseWindow, CutWindow, LoseWindow,
      WriteProfile
  <2> QED BY <2>2, <2>3
<1> QED BY <1>1, <1>2, <1>3, MainDoes DEF Next

LEMMA OverclaimsStep ==
  ASSUME Typed, Books, NeverOverclaims, Next
  PROVE  NeverOverclaims'
<1>1. CASE startSampler
  <2>1. Profile' = NoStats
    BY <1>1 DEF startSampler, Cleared, Profile
  <2> QED BY <2>1 DEF NeverOverclaims, NoStats
<1>2. CASE WriteProfile
  <2>1. PICK r \in Stats, w \in Stats, base \in Nat :
          r = agg.run /\ w = agg.win /\ base = agg.base
    BY DEF Typed, Aggregators
  <2>2. r.measured + w.measured = base /\ r.samples + w.samples <= base
    BY <1>2, <2>1 DEF Books, Closing, WriteProfile, Started
  <2>3. /\ mergeStats(r, w).samples = r.samples + w.samples
        /\ mergeStats(r, w).measured = r.measured + w.measured
        /\ mergeStats(r, w) # None
    BY MergeTyped, NoneApart DEF mergeStats
  <2>4. files'.profile \in {mergeStats(r, w), None} \/ files' = files
    BY <1>2, <2>1 DEF WriteProfile, Typed, Files
  <2>5. Profile' \in {mergeStats(r, w), NoStats, Profile}
    BY <2>3, <2>4 DEF Profile
  <2>6. main.pc # "off"
    BY <1>2 DEF WriteProfile, Started
  <2> QED BY <2>2, <2>3, <2>5, <2>6 DEF NeverOverclaims, NoStats
<1>3. CASE Started /\ files'.profile = files.profile
  BY <1>3 DEF NeverOverclaims, Profile, Started
<1> QED BY <1>1, <1>2, <1>3, ProfileLeft

-----------------------------------------------------------------------------
(* Sums of windows *)

Sum(f, s, k) == IF k = 0 THEN NoStats ELSE mergeStats(f[k - 1], s[k].stats)

LEMMA TotalFrom ==
  ASSUME NEW s, NEW n \in Nat
  PROVE  \E f : f = [k \in 0..n |-> Sum(f, s, k)] /\ Total(s, n) = f[n]
<1> DEFINE Solves(f, m) == f = [k \in 0..m |-> Sum(f, s, k)]
           S == {m \in Nat : \E f : Solves(f, m)}
<1>1. 0 \in S
  <2>1. Solves([k \in 0..0 |-> NoStats], 0)
    BY DEF Sum
  <2> QED BY <2>1
<1>2. ASSUME NEW m \in Nat, m \in S PROVE m + 1 \in S
  <2> PICK f : Solves(f, m)
    BY <1>2
  <2> DEFINE e == [k \in 0..m + 1 |-> IF k = m + 1 THEN mergeStats(f[m], s[m + 1].stats) ELSE f[k]]
  <2>1. ASSUME NEW k \in 0..m + 1 PROVE e[k] = Sum(e, s, k)
    <3>1. CASE k = m + 1
      <4>1. k # 0 /\ k - 1 = m /\ m \in 0..m + 1 /\ m # m + 1
        BY <3>1
      <4> QED BY <3>1, <4>1 DEF Sum
    <3>2. CASE k # m + 1 /\ k # 0
      <4>1. k \in 0..m /\ k - 1 \in 0..m + 1 /\ k - 1 # m + 1
        BY <3>2
      <4>2. e[k] = f[k] /\ e[k - 1] = f[k - 1]
        BY <3>2, <4>1
      <4>3. f[k] = Sum(f, s, k)
        BY <4>1
      <4> HIDE DEF e
      <4> QED BY <4>2, <4>3 DEF Sum
    <3>3. CASE k = 0
      <4>1. 0 \in 0..m /\ 0 # m + 1
        OBVIOUS
      <4>2. f[0] = NoStats
        BY <4>1 DEF Sum
      <4> QED BY <3>3, <4>1, <4>2 DEF Sum
    <3> QED BY <3>1, <3>2, <3>3
  <2>2. e = [k \in 0..m + 1 |-> e[k]]
    OBVIOUS
  <2> HIDE DEF e
  <2> QED BY <2>1, <2>2
<1>3. n \in S
  <2> HIDE DEF S
  <2> QED BY <1>1, <1>2, Inductive
<1> DEFINE f == CHOOSE f : Solves(f, n)
<1>4. Solves(f, n)
  BY <1>3
<1>5. Total(s, n) = f[n]
  BY DEF Total, Sum
<1> QED BY <1>4, <1>5

\* The sum depends on the windows that are summed only.
LEMMA TotalLike ==
  ASSUME NEW s, NEW u, NEW n \in Nat, NEW m \in Nat, m <= n,
         \A i \in 1..m : s[i].stats = u[i].stats,
         NEW f, f = [k \in 0..n |-> Sum(f, s, k)]
  PROVE  Total(u, m) = f[m]
<1>1. PICK g : g = [k \in 0..m |-> Sum(g, u, k)] /\ Total(u, m) = g[m]
  BY TotalFrom
<1> DEFINE S == {k \in Nat : k <= m => f[k] = g[k]}
<1>2. 0 \in S
  <2>1. 0 \in 0..n /\ 0 \in 0..m
    OBVIOUS
  <2> QED BY <1>1, <2>1 DEF Sum
<1>3. ASSUME NEW k \in Nat, k \in S PROVE k + 1 \in S
  <2> SUFFICES ASSUME k + 1 <= m PROVE f[k + 1] = g[k + 1]
    OBVIOUS
  <2>1. k + 1 \in 0..n /\ k + 1 \in 0..m /\ k + 1 \in 1..m /\ (k + 1) - 1 = k /\ k + 1 # 0
    OBVIOUS
  <2>2. f[k] = g[k]
    BY <1>3
  <2>3. f[k + 1] = Sum(f, s, k + 1) /\ g[k + 1] = Sum(g, u, k + 1)
    BY <1>1, <2>1
  <2> QED BY <2>1, <2>2, <2>3 DEF Sum
<1>4. m \in S
  <2> HIDE DEF S
  <2> QED BY <1>2, <1>3, Inductive
<1> QED BY <1>1, <1>4

LEMMA TotalSame ==
  ASSUME NEW s, NEW u, NEW n \in Nat, \A i \in 1..n : s[i].stats = u[i].stats
  PROVE  Total(u, n) = Total(s, n)
<1>1. PICK f : f = [k \in 0..n |-> Sum(f, s, k)] /\ Total(s, n) = f[n]
  BY TotalFrom
<1> QED BY <1>1, TotalLike

\* The sum of no windows, and of one more.
LEMMA TotalNext ==
  ASSUME NEW s, NEW n \in Nat
  PROVE  /\ Total(s, 0) = NoStats
         /\ Total(s, n + 1) = mergeStats(Total(s, n), s[n + 1].stats)
<1>1. Total(s, 0) = NoStats
  <2>1. PICK f : f = [k \in 0..0 |-> Sum(f, s, k)] /\ Total(s, 0) = f[0]
    BY TotalFrom
  <2> QED BY <2>1 DEF Sum
<1> PICK m \in Nat : m = n + 1 /\ n <= m /\ m # 0 /\ m - 1 = n
  OBVIOUS
<1>2. PICK f : f = [k \in 0..m |-> Sum(f, s, k)] /\ Total(s, m) = f[m]
  BY TotalFrom
<1>3. Total(s, n) = f[n]
  BY <1>2, TotalLike
<1>4. f[m] = Sum(f, s, m)
  BY <1>2
<1> QED BY <1>1, <1>2, <1>3, <1>4 DEF Sum

-----------------------------------------------------------------------------
(* The series *)

\* A step that leaves the files, the run and the window under way alone.
LEMMA SeriesSame ==
  ASSUME SeriesOK, Started, files' = files, broken' = broken, agg'.run = agg.run,
         agg'.seq = agg.seq,
         \/ agg'.pc = agg.pc /\ agg'.win = agg.win
         \/ agg.pc \notin {"close", "merge"} /\ agg'.pc \notin {"close", "merge"}
  PROVE  SeriesOK'
<1>1. Profile' = Profile /\ Last' = Last /\ Merged' = Merged
  BY DEF Profile, Last, Merged
<1>2. (Numbered => Numbered') /\ (Summed => Summed')
  BY <1>1 DEF Numbered, Summed
<1> QED BY <1>1, <1>2 DEF SeriesOK

\* More windows at the end, or a window closed, and the run is the same.
LEMMA SummedOn ==
  ASSUME Typed, Summed, files'.profile = files.profile, broken' = broken, agg'.run = agg.run,
         Merged' = Merged, Merged \in 0..Last,
         \A i \in 1..Last : files'.series[i].stats = files.series[i].stats
  PROVE  Summed'
<1>0. PICK n \in Nat : n = Last
  BY DEF Typed, Files, Last
<1>1. PICK m \in Nat : m = Merged /\ m <= n
  BY <1>0
<1>2. ASSUME NEW k \in 0..m
      PROVE  Total(files'.series, k) = Total(files.series, k)
  <2>1. k \in Nat /\ \A i \in 1..k : i \in 1..n
    BY <1>1, <1>2
  <2>2. \A i \in 1..k : files.series[i].stats = files'.series[i].stats
    BY <1>0, <2>1
  <2> QED BY <2>1, <2>2, TotalSame
<1>3. agg'.run = Total(files'.series, m)
  <2>1. m \in 0..m /\ agg.run = Total(files.series, m)
    BY <1>1 DEF Summed
  <2> QED BY <1>2, <2>1
<1>4. Profile' = Profile
  BY DEF Profile
<1>5. PICK k \in 0..m : Profile = Total(files.series, k) /\ (k = m \/ "profile" \in broken)
  BY <1>1 DEF Summed
<1>6. Profile' = Total(files'.series, k) /\ (k = m \/ "profile" \in broken')
  BY <1>2, <1>4, <1>5
<1> QED BY <1>1, <1>3, <1>6 DEF Summed

\* A window joins the series, to be written or not.
LEMMA SeriesGrows ==
  ASSUME Typed, SeriesOK, AppendWindow \/ LoseWindow
  PROVE  SeriesOK'
<1> SUFFICES ASSUME Windows PROVE SeriesOK'
  BY DEF SeriesOK
<1>0. /\ agg \in Aggregators /\ files \in Files /\ Started /\ agg.pc = "window"
      /\ broken' = broken /\ files' = [files EXCEPT !.series = Append(@, Unwritten)]
  BY DEF Typed, AppendWindow, LoseWindow
<1>r. PICK r \in Record :
        r = Unwritten /\ r.seq = agg.seq /\ r.stats = agg.win /\ ~r.closed
  <2>1. agg.seq \in Nat /\ agg.win \in Stats
    BY <1>0 DEF Aggregators
  <2>2. Unwritten \in Record
    BY <2>1 DEF Record, Unwritten
  <2> QED BY <2>2 DEF Unwritten
<1>1. PICK s \in Seq(Record) :
        /\ s = files.series /\ files'.series = Append(s, r) /\ files'.profile = files.profile
  BY <1>0, <1>r DEF Files
<1>2. PICK n \in Nat : n = Last /\ n = Len(s)
  BY <1>1 DEF Last
<1>3. /\ Last' = n + 1 /\ files'.series[n + 1] = r
      /\ \A i \in 1..n : files'.series[i] = files.series[i]
  BY <1>1, <1>2, AppendProperties DEF Last
<1>4. /\ agg'.win = agg.win /\ agg'.run = agg.run
      /\ \/ agg'.pc = "close" /\ agg'.seq = agg.seq
         \/ agg'.pc = "merge" /\ agg'.seq = agg.seq + 1 /\ "series" \in broken
  BY <1>0 DEF AppendWindow, LoseWindow, Aggregators
<1>5. n = agg.seq /\ Numbered /\ Summed
  <2>1. n = agg.seq + 0 /\ agg.seq \in Nat
    BY <1>0, <1>2 DEF SeriesOK, Aggregators
  <2> QED BY <1>0, <2>1 DEF SeriesOK
<1>6. Merged = n /\ Merged' = n /\ Last' = agg'.seq + (IF agg'.pc = "close" THEN 1 ELSE 0)
  <2>1. Merged = n
    BY <1>0, <1>5 DEF Merged
  <2>2. (n + 1) - 1 = n /\ (n + 1) + 0 = n + 1
    OBVIOUS
  <2> QED BY <1>3, <1>4, <1>5, <2>1, <2>2 DEF Merged
<1>7. Last' >= 1 /\ files'.series[Last'].stats = agg'.win
  BY <1>r, <1>3, <1>4
<1>8. Numbered'
  <2> SUFFICES ASSUME NEW i \in 1..n + 1
               PROVE  /\ files'.series[i].seq = i - 1
                      /\ \/ files'.series[i].closed \/ "series" \in broken
                         \/ i = n + 1 /\ agg'.pc = "close"
    BY <1>0, <1>3 DEF Numbered
  <2>1. CASE i = n + 1
    BY <1>r, <1>3, <1>4, <1>5, <2>1
  <2>2. CASE i # n + 1
    <3>1. i \in 1..n
      BY <2>2
    <3> QED BY <1>0, <1>2, <1>3, <1>5, <3>1 DEF Numbered
  <2> QED BY <2>1, <2>2
<1>9. Summed'
  <2>1. Merged \in 0..Last /\ Merged' = Merged
    BY <1>2, <1>6
  <2>2. \A i \in 1..Last : files'.series[i].stats = files.series[i].stats
    BY <1>2, <1>3
  <2> QED BY <1>0, <1>1, <1>4, <1>5, <2>1, <2>2, SummedOn
<1> QED BY <1>6, <1>7, <1>8, <1>9 DEF SeriesOK

\* The last window has been written, or not to its end.
LEMMA SeriesClose ==
  ASSUME Typed, SeriesOK, CloseWindow \/ CutWindow
  PROVE  SeriesOK'
<1> SUFFICES ASSUME Windows PROVE SeriesOK'
  BY DEF SeriesOK
<1>0. /\ agg \in Aggregators /\ files \in Files /\ Started /\ agg.pc = "close"
      /\ broken' = broken
  BY DEF Typed, CloseWindow, CutWindow
<1>1. PICK s \in Seq(Record) :
        /\ s = files.series /\ files'.profile = files.profile
        /\ \/ files'.series = [s EXCEPT ![Len(s)].closed = TRUE]
           \/ files'.series = s /\ "series" \in broken
  BY <1>0 DEF CloseWindow, CutWindow, Files
<1>2. PICK n \in Nat : n = Last /\ n = Len(s) /\ n >= 1
  BY <1>0, <1>1 DEF Last, SeriesOK
<1>3. /\ Last' = n
      /\ \A i \in 1..n :
           /\ files'.series[i].seq = files.series[i].seq
           /\ files'.series[i].stats = files.series[i].stats
           /\ files.series[i].closed => files'.series[i].closed
           /\ i = n => files'.series[i].closed \/ "series" \in broken
  <2>1. PICK u : u = [s EXCEPT ![Len(s)].closed = TRUE]
    OBVIOUS
  <2>2. /\ u \in Seq(Record) /\ Len(u) = Len(s)
        /\ \A i \in 1..Len(s) :
             /\ u[i].seq = s[i].seq /\ u[i].stats = s[i].stats
             /\ u[i].closed = IF i = Len(s) THEN TRUE ELSE s[i].closed
    BY <2>1, ClosedTyped
  <2>3. \/ files'.series = u
        \/ files'.series = s /\ "series" \in broken
    BY <1>1, <2>1
  <2>4. CASE files'.series = u
    BY <1>1, <1>2, <2>2, <2>4 DEF Last
  <2>5. CASE files'.series = s /\ "series" \in broken
    BY <1>1, <1>2, <2>5 DEF Last
  <2> QED BY <2>3, <2>4, <2>5
<1>n. n \in 1..n
  BY <1>2
<1>4. agg'.pc = "merge" /\ agg'.seq = agg.seq + 1 /\ agg'.win = agg.win /\ agg'.run = agg.run
  BY <1>0 DEF CloseWindow, CutWindow, Aggregators
<1>5. n = agg.seq + 1 /\ files.series[n].stats = agg.win /\ Numbered /\ Summed
  BY <1>0, <1>2 DEF SeriesOK
<1>6. Merged \in 0..Last /\ Merged' = Merged /\ Last' = agg'.seq + 0
  <2>1. PICK m \in Nat : m = agg.seq /\ n = m + 1
    BY <1>0, <1>5 DEF Aggregators
  <2>2. Merged = m /\ Merged' = (m + 1) - 1
    BY <1>0, <1>4, <2>1 DEF Merged
  <2> QED BY <1>2, <1>3, <1>4, <2>1, <2>2
<1>7. Last' >= 1 /\ files'.series[Last'].stats = agg'.win
  BY <1>2, <1>3, <1>4, <1>5, <1>n
<1>8. Numbered'
  BY <1>0, <1>2, <1>3, <1>5 DEF Numbered
<1>9. Summed'
  BY <1>0, <1>1, <1>2, <1>3, <1>4, <1>5, <1>6, SummedOn
<1> QED BY <1>4, <1>6, <1>7, <1>8, <1>9 DEF SeriesOK

LEMMA SeriesMerge ==
  ASSUME Typed, SeriesOK, WriteProfile
  PROVE  SeriesOK'
<1> SUFFICES ASSUME Windows PROVE SeriesOK'
  BY DEF SeriesOK
<1>0. /\ agg \in Aggregators /\ files \in Files /\ Started /\ agg.pc = "merge"
      /\ broken' = broken
  BY DEF Typed, WriteProfile
<1>1. PICK r \in Stats, w \in Stats : r = agg.run /\ w = agg.win
  BY <1>0 DEF Aggregators
<1>2. agg'.pc = "look" /\ agg'.run = mergeStats(r, w) /\ agg'.seq = agg.seq
  BY <1>0, <1>1 DEF WriteProfile, Aggregators
<1>3. /\ files'.series = files.series
      /\ \/ files'.profile = mergeStats(r, w)
         \/ "profile" \in broken /\ files'.profile \in {files.profile, None}
  BY <1>0, <1>1 DEF WriteProfile, Files
<1>4. PICK n \in Nat : n = Last /\ Last' = n
  BY <1>0, <1>3 DEF Last, Files
<1>5. n = agg.seq + 0 /\ n >= 1 /\ files.series[n].stats = w /\ Numbered /\ Summed
  BY <1>0, <1>1, <1>4 DEF SeriesOK
<1>6. PICK m \in Nat : n = m + 1 /\ Merged = m /\ Merged' = n /\ agg.seq = n
  <2>1. n = agg.seq /\ Merged = n - 1 /\ Merged' = n
    BY <1>0, <1>2, <1>5 DEF Merged, Aggregators
  <2>2. n - 1 \in Nat /\ n = (n - 1) + 1
    BY <1>5
  <2> QED BY <2>1, <2>2
<1>7. Total(files.series, n) = mergeStats(r, w)
  <2>1. r = Total(files.series, m)
    BY <1>1, <1>5, <1>6 DEF Summed
  <2> QED BY <1>5, <1>6, <2>1, TotalNext
<1>8. \E k \in 0..n : Profile' = Total(files.series, k) /\ (k = n \/ "profile" \in broken)
  <2>1. CASE files'.profile = mergeStats(r, w)
    <3>1. Profile' = mergeStats(r, w)
      BY <2>1, MergeTyped, NoneApart DEF Profile
    <3>2. n \in 0..n
      OBVIOUS
    <3> QED BY <1>7, <3>1, <3>2
  <2>2. CASE "profile" \in broken /\ files'.profile = files.profile
    <3>1. PICK k \in 0..m : Profile = Total(files.series, k)
      BY <1>5, <1>6 DEF Summed
    <3>2. k \in 0..n /\ Profile' = Profile
      BY <1>6, <2>2 DEF Profile
    <3> QED BY <2>2, <3>1, <3>2
  <2>3. CASE "profile" \in broken /\ files'.profile = None
    <3>1. Profile' = NoStats
      BY <2>3 DEF Profile
    <3>2. Total(files.series, 0) = NoStats /\ 0 \in 0..n
      BY TotalNext
    <3> QED BY <2>3, <3>1, <3>2
  <2> QED BY <1>3, <2>1, <2>2, <2>3
<1>9. Summed'
  BY <1>0, <1>2, <1>3, <1>6, <1>7, <1>8 DEF Summed
<1>10. Numbered'
  BY <1>0, <1>3, <1>4, <1>5 DEF Numbered
<1> QED BY <1>2, <1>4, <1>5, <1>9, <1>10 DEF SeriesOK

LEMMA SeriesStep ==
  ASSUME Typed, Fresh, SeriesOK, Next
  PROVE  SeriesOK'
<1>0. agg \in Aggregators
  BY DEF Typed
<1>1. CASE SamplerThread \/ GuestExits \/ Ask
  <2>1. Started /\ files' = files /\ broken' = broken /\ agg' = agg
    BY <1>1 DEF SamplerThread, SweepOn, LatchOnto, SweepFails, Measure, MeasureFails, Push, Drop,
         Publish, Unlatch, Sweeping, Measuring, GuestExits, Ask, Started
  <2> QED BY <2>1, SeriesSame
<1>2. CASE Look \/ Load \/ Read \/ Consume \/ NoReport
  <2>1. /\ Started /\ files' = files /\ broken' = broken /\ agg'.run = agg.run
        /\ agg'.seq = agg.seq
        /\ agg.pc \notin {"close", "merge"} /\ agg'.pc \notin {"close", "merge"}
    <3>1. CASE Look \/ Load
      BY <1>0, <3>1 DEF Look, Load, Aggregators
    <3>2. CASE Read
      BY <1>0, <3>2 DEF Read, Aggregators
    <3>3. CASE Consume \/ NoReport
      BY <1>0, <3>3 DEF Consume, NoReport, Aggregators
    <3> QED BY <1>2, <3>1, <3>2, <3>3
  <2> QED BY <2>1, SeriesSame
<1>3. CASE ReportDue \/ ReportFlush
  <2>1. CASE Windows
    <3>1. /\ Started /\ files' = files /\ broken' = broken /\ agg'.run = agg.run
          /\ agg'.seq = agg.seq
          /\ agg.pc \notin {"close", "merge"} /\ agg'.pc \notin {"close", "merge"}
      BY <1>0, <1>3, <2>1 DEF ReportDue, ReportFlush, Report, Aggregators
    <3> QED BY <3>1, SeriesSame
  <2>2. CASE ~ Windows
    BY <2>2 DEF SeriesOK
  <2> QED BY <2>1, <2>2
<1>4. CASE startSampler
  <2>1. /\ agg'.pc \in {"look", "off"} /\ agg'.seq = 0 /\ agg'.run = NoStats
    BY <1>0, <1>4 DEF startSampler, Fresh, NoAggregator, Aggregators
  <2>2. files'.series = <<>> /\ Profile' = NoStats
    BY <1>4 DEF startSampler, Cleared, Profile
  <2>3. Last' = 0 /\ Merged' = 0
    BY <2>1, <2>2 DEF Last, Merged
  <2>4. Total(files'.series, 0) = NoStats /\ 0 \in 0..0
    <3>1. 0 \in Nat
      OBVIOUS
    <3> QED BY <3>1, TotalNext
  <2>5. Summed' /\ Numbered'
    BY <2>1, <2>2, <2>3, <2>4 DEF Summed, Numbered
  <2> QED BY <2>1, <2>3, <2>5 DEF SeriesOK
<1>5. CASE Leave
  BY <1>5 DEF Leave, SeriesOK, Started
<1> QED BY <1>1, <1>2, <1>3, <1>4, <1>5, MainDoes, SeriesGrows, SeriesClose, SeriesMerge
        DEF Next, AggregatorThread

\* The windows that are complete, and what the profile is of them.
LEMMA SeriesTells ==
  ASSUME Typed, SeriesOK, Started
  PROVE  ProfileIsWindows
<1> SUFFICES ASSUME Windows PROVE ProfileIsWindows
  BY DEF ProfileIsWindows
<1>0. agg \in Aggregators /\ files \in Files
  BY DEF Typed
<1>1. PICK n \in Nat : n = Last /\ n = Len(files.series)
  BY <1>0 DEF Last, Files
<1>2. Numbered /\ Summed
  BY DEF SeriesOK
<1>3. PICK m \in Nat : m = Merged /\ m <= n /\ m >= n - 1
  <2>1. PICK q \in Nat : q = agg.seq /\ n = q + (IF agg.pc = "close" THEN 1 ELSE 0)
    BY <1>0, <1>1 DEF SeriesOK, Aggregators
  <2>2. CASE agg.pc = "merge"
    <3>1. n >= 1 /\ n = q /\ Merged = q - 1
      BY <1>1, <2>1, <2>2 DEF SeriesOK, Merged
    <3>2. q - 1 \in Nat /\ q - 1 <= q /\ q - 1 >= q - 1
      BY <3>1
    <3> QED BY <3>1, <3>2
  <2>3. CASE agg.pc # "merge"
    <3>1. Merged = q /\ (n = q \/ n = q + 1)
      BY <2>1, <2>3 DEF Merged
    <3>2. q <= n /\ q >= n - 1
      BY <3>1
    <3> QED BY <3>1, <3>2
  <2> QED BY <2>2, <2>3
<1>4. PICK k \in 0..m : Profile = Total(files.series, k) /\ (k = m \/ "profile" \in broken)
  BY <1>2, <1>3 DEF Summed
<1>5. k \in 0..n /\ (k >= n - 1 \/ "profile" \in broken)
  BY <1>3, <1>4
<1>6. \A i \in 1..n : /\ files.series[i].seq = i - 1
                      /\ files.series[i].closed \/ i = n \/ "series" \in broken
  BY <1>1, <1>2 DEF Numbered
<1> QED BY <1>1, <1>4, <1>5, <1>6 DEF ProfileIsWindows

LEMMA WindowsStep ==
  ASSUME Typed, Typed', Fresh, SeriesOK, ProfileIsWindows, Next
  PROVE  ProfileIsWindows'
<1>1. CASE Started'
  <2>1. SeriesOK'
    BY SeriesStep
  <2>2. (Typed /\ SeriesOK /\ Started => ProfileIsWindows)'
    BY SeriesTells, PTL
  <2> QED BY <1>1, <2>1, <2>2
<1>2. CASE ~ Started'
  <2>1. Leave
    <3>1. main' \in Mains
      BY DEF Typed
    <3>2. CASE startSampler \/ Ask
      BY <1>2, <3>2 DEF startSampler, Ask, Started, Typed, Mains
    <3>3. CASE SamplerThread \/ AggregatorThread \/ GuestExits
      <4>1. Started /\ main' = main
        BY <3>3, AggregatorLeaves DEF SamplerThread, SweepOn, LatchOnto, SweepFails, Measure,
           MeasureFails, Push, Drop, Publish, Unlatch, Sweeping, Measuring, GuestExits
      <4> QED BY <1>2, <4>1 DEF Started
    <3> QED BY <3>2, <3>3, MainDoes DEF Next
  <2>2. Started
    BY <2>1, <1>2, MainDoes DEF Next, startSampler, GuestExits, SamplerThread, Started,
      SweepOn, LatchOnto, SweepFails, Measure, MeasureFails, Push, Drop, Leave,
      Publish, Unlatch, Sweeping, Measuring, AggregatorThread, Look, Load, Read, Consume,
      ReportDue, ReportFlush, NoReport, AppendWindow, CloseWindow, CutWindow, LoseWindow,
      WriteProfile
  <2>3. files' = files /\ broken' = broken
    BY <2>1 DEF Leave
  <2>4. ProfileIsWindows /\ main.pc # "off"
    BY <2>2 DEF Started
  <2> QED BY <2>3, <2>4 DEF ProfileIsWindows, Profile
<1> QED BY <1>1, <1>2

-----------------------------------------------------------------------------
(* The peak *)

\* There is a widest sample.
LEMMA WidestIs == Widest \in Nat /\ \A s \in Samples : Width(s) <= Widest
<1> DEFINE W == {0} \cup {Width(s) : s \in Samples}
           Bounds(n) == \A s \in Samples : Width(s) <= n
<1>1. PICK D \in Nat : D = DepthRoom
  BY Room
<1>2. \A w \in W : w \in Nat /\ w <= D + 2
  BY <1>1, HeaderOf
<1>3. \E n \in W : Bounds(n)
  <2> SUFFICES ASSUME \A n \in W : ~Bounds(n) PROVE FALSE
    OBVIOUS
  <2> DEFINE S == {n \in Nat : ~Bounds(n)}
  <2>1. 0 \in S
    OBVIOUS
  <2>2. ASSUME NEW n \in Nat, n \in S PROVE n + 1 \in S
    <3> SUFFICES ASSUME Bounds(n + 1) PROVE FALSE
      OBVIOUS
    <3>1. PICK s \in Samples : ~(Width(s) <= n)
      BY <2>2
    <3>2. Width(s) \in W /\ Width(s) \in Nat /\ Width(s) <= n + 1
      BY <1>2
    <3>3. Width(s) = n + 1
      BY <3>1, <3>2
    <3> QED BY <3>2, <3>3
  <2>3. D + 2 \in S
    <3> HIDE DEF S
    <3>1. D + 2 \in Nat
      OBVIOUS
    <3> QED BY <2>1, <2>2, <3>1, Inductive
  <2> QED BY <1>2, <2>3
<1>4. Widest = CHOOSE n \in W : Bounds(n)
  BY DEF Widest
<1>5. Widest \in W /\ Bounds(Widest)
  <2> HIDE DEF W, Bounds
  <2> QED BY <1>3, <1>4
<1> QED BY <1>2, <1>5

\* A step after which neither the ring, the peak nor the fullest are others.
LEMMA PeakedSame ==
  ASSUME Peaked, highest' = highest, Level' = Level, agg'.peak = agg.peak,
         agg.pc = "load" => agg'.pc = "load", Level \in Nat, highest \in Nat
  PROVE  Peaked'
<1>1. PICK w \in Nat : w = Widest
  BY WidestIs
<1>2. Widest' = Widest
  BY DEF Widest, Samples, Width, Sample, Encode, sampleHeader, Resolved
<1>3. CASE highest <= agg.peak + w
  BY <1>1, <1>2, <1>3 DEF Peaked
<1>4. CASE highest <= Level + (IF agg.pc = "load" THEN w ELSE 0)
  <2>1. highest <= Level + (IF agg'.pc = "load" THEN w ELSE 0)
    BY <1>4
  <2> QED BY <1>1, <1>2, <2>1 DEF Peaked
<1> QED BY <1>1, <1>3, <1>4 DEF Peaked

\* When the indices are loaded, the peak is as high as that.
LEMMA PeakTold ==
  ASSUME Typed, RingOK, Peaked, Load
  PROVE  highest <= agg'.peak + Widest
<1>1. PICK w \in Nat, l \in Nat, p \in Nat, h \in Nat :
        w = Widest /\ l = Level /\ p = agg.peak /\ h = highest
  <2>1. Level \in Nat
    BY DEF RingOK, RingTyped, Level
  <2>2. agg.peak \in Nat /\ highest \in Nat
    BY DEF Typed, Aggregators
  <2> QED BY <2>1, <2>2, WidestIs
<1>2. agg.pc = "load" /\ agg'.peak = IF l > p THEN l ELSE p
  BY <1>1 DEF Load, Peak, Typed, Aggregators
<1>3. h <= p + w \/ h <= l + w
  BY <1>1, <1>2 DEF Peaked
<1> QED BY <1>1, <1>2, <1>3

LEMMA PeakedStep ==
  ASSUME Typed, Subject, Fresh, RingOK, Peaked, Next
  PROVE  Peaked'
<1>0. agg \in Aggregators /\ Level \in Nat /\ highest \in Nat
  BY DEF RingOK, RingTyped, Level, Typed
<1>w. PICK w \in Nat : w = Widest /\ w = Widest'
  <2>1. Widest' = Widest
    BY DEF Widest, Samples, Width, Sample, Encode, sampleHeader, Resolved
  <2> QED BY <2>1, WidestIs
<1>1. CASE \/ SweepOn \/ LatchOnto \/ SweepFails \/ Measure \/ MeasureFails \/ Unlatch
           \/ GuestExits \/ Ask
  <2>1. highest' = highest /\ ring' = ring /\ agg' = agg
    BY <1>1 DEF SweepOn, LatchOnto, SweepFails, Measure, MeasureFails, Unlatch, GuestExits, Ask
  <2> QED BY <1>0, <2>1, PeakedSame DEF Level
<1>2. CASE Push
  <2>1. highest' = highest /\ agg' = agg /\ sampler.sample \in Samples
    BY <1>2 DEF Push, Subject, Typed, Samplers
  <2>2. Level' = Level
    BY <1>2, <2>1, PushStep DEF RingOK
  <2> QED BY <1>0, <2>1, <2>2, PeakedSame
<1>3. CASE Drop
  <2>1. highest' = highest /\ agg' = agg
    BY <1>3 DEF Drop
  <2>2. Level' = Level
    BY <1>3, DropStep DEF RingOK
  <2> QED BY <1>0, <2>1, <2>2, PeakedSame
<1>4. CASE Publish
  <2>1. sampler.sample \in Samples /\ Written(sampler.sample) /\ agg' = agg
        /\ highest' = IF Level' > highest THEN Level' ELSE highest
    BY <1>4 DEF Publish, Subject, Typed, Samplers, RingOK
  <2>2. Level' = Level + Width(sampler.sample)
    <3>1. PICK s \in Samples : s = sampler.sample /\ Written(s)
      BY <2>1
    <3> QED BY <1>4, <3>1, PublishStep DEF RingOK
  <2>3. PICK n \in Nat, l \in Nat, h \in Nat, p \in Nat :
          n = Level' /\ l = Level /\ l <= n /\ h = highest /\ p = agg.peak
    <3>1. Width(sampler.sample) \in Nat
      BY <2>1, HeaderOf
    <3>2. agg.peak \in Nat
      BY <1>0 DEF Aggregators
    <3>3. Level' \in Nat /\ Level <= Level'
      BY <1>0, <2>2, <3>1
    <3> QED BY <1>0, <3>2, <3>3
  <2>4. CASE n > h
    <3>1. highest' = n
      BY <2>1, <2>3, <2>4
    <3>2. n <= n + (IF agg.pc = "load" THEN w ELSE 0)
      OBVIOUS
    <3> QED BY <1>w, <2>1, <2>3, <3>1, <3>2 DEF Peaked
  <2>5. CASE ~(n > h)
    <3>1. highest' = h
      BY <2>1, <2>3, <2>5
    <3>2. PICK a \in Nat : a = IF agg.pc = "load" THEN w ELSE 0
      OBVIOUS
    <3>3. h <= p + w \/ h <= l + a
      BY <1>w, <2>3, <3>2 DEF Peaked
    <3>4. h <= p + w \/ h <= n + a
      <4>1. l <= n
        BY <2>3
      <4>2. l + a <= n + a
        BY <4>1
      <4> QED BY <3>3, <4>2
    <3> QED BY <1>w, <2>1, <2>3, <3>1, <3>2, <3>4 DEF Peaked
  <2> QED BY <2>4, <2>5
<1>5. CASE Load
  <2>1. highest' = highest /\ highest <= agg'.peak + Widest
    BY <1>5, PeakTold DEF Load
  <2> QED BY <1>w, <2>1 DEF Peaked
<1>6. CASE Consume
  <2>1. agg'.pc = "load" /\ agg.pc = "consume" /\ agg'.peak = agg.peak /\ highest' = highest
        /\ Stored # <<>>
    BY <1>0, <1>6 DEF Consume, Aggregators, RingOK
  <2>2. Level' + Width(Stored[1]) = Level /\ Stored[1] \in Samples /\ RingTyped'
    BY <1>6, <2>1, ConsumeStep DEF RingOK
  <2>3. PICK n \in Nat, l \in Nat, h \in Nat, p \in Nat, c \in Nat :
          /\ n = Level' /\ l = Level /\ h = highest /\ p = agg.peak /\ c = Width(Stored[1])
          /\ n + c = l /\ c <= w
    <3>1. agg.peak \in Nat /\ Level' \in Nat
      BY <1>0, <2>2 DEF Aggregators, RingTyped, Level
    <3>2. Width(Stored[1]) \in Nat /\ Width(Stored[1]) <= w
      BY <1>w, <2>2, WidestIs, HeaderOf
    <3> QED BY <1>0, <2>2, <3>1, <3>2
  <2>4. h <= p + w \/ h <= l
    BY <1>w, <2>1, <2>3 DEF Peaked
  <2>5. h <= p + w \/ h <= n + w
    <3>1. n + c = l /\ c <= w
      BY <2>3
    <3>2. l <= n + w
      BY <3>1
    <3> QED BY <2>4, <3>2
  <2> QED BY <1>w, <2>1, <2>3, <2>5 DEF Peaked
<1>7. CASE Look \/ Read \/ ReportDue \/ ReportFlush \/ NoReport
  <2>1. highest' = highest /\ ring' = ring /\ agg'.peak = agg.peak /\ agg.pc # "load"
    <3>1. CASE Look \/ NoReport
      BY <1>0, <3>1 DEF Look, NoReport, Aggregators
    <3>2. CASE Read
      BY <1>0, <3>2 DEF Read, Aggregators
    <3>3. CASE ReportDue \/ ReportFlush
      BY <1>0, <3>3 DEF ReportDue, ReportFlush, Report, Aggregators
    <3> QED BY <1>7, <3>1, <3>2, <3>3
  <2> QED BY <1>0, <2>1, PeakedSame DEF Level
<1>8. CASE AppendWindow \/ CloseWindow \/ CutWindow \/ LoseWindow \/ WriteProfile
  <2>1. highest' = highest /\ ring' = ring /\ agg'.peak = agg.peak /\ agg.pc # "load"
    <3>1. CASE AppendWindow \/ CloseWindow
      BY <1>0, <3>1 DEF AppendWindow, CloseWindow, Aggregators
    <3>2. CASE CutWindow \/ LoseWindow \/ WriteProfile
      BY <1>0, <3>2 DEF CutWindow, LoseWindow, WriteProfile, Aggregators
    <3> QED BY <1>8, <3>1, <3>2
  <2> QED BY <1>0, <2>1, PeakedSame DEF Level
<1>9. CASE startSampler
  <2>1. highest' = 0 /\ agg'.peak = 0
    BY <1>0, <1>9 DEF startSampler, Fresh, NoAggregator, Aggregators
  <2> QED BY <1>w, <2>1 DEF Peaked
<1>10. CASE Leave
  <2>1. highest' = 0 /\ agg'.peak = 0
    BY <1>10 DEF Leave, NoAggregator
  <2> QED BY <1>w, <2>1 DEF Peaked
<1> QED BY <1>1, <1>2, <1>3, <1>4, <1>5, <1>6, <1>7, <1>8, <1>9, <1>10, MainDoes
        DEF Next, SamplerThread, AggregatorThread

-----------------------------------------------------------------------------
(* The invariant is inductive *)

Inv ==
  /\ Typed /\ Fresh /\ Subject /\ RingOK /\ Books /\ Flushing /\ SeriesOK /\ Peaked
  /\ PortsBalanced /\ ThrottleEarned /\ NeverOverclaims /\ ProfileIsWindows

LEMMA InvInitial == Init => Inv
<1> SUFFICES ASSUME Init PROVE Inv
  OBVIOUS
<1>1. /\ ring = EmptyRing /\ main.pc = "off" /\ sampler = NoSampler /\ latch = NoLatch
      /\ ports = NoPorts /\ counted = 0 /\ agg = NoAggregator /\ flush = NoFlush /\ highest = 0
  BY DEF Init
<1>2. RingTyped /\ Chained /\ Stored = <<>> /\ ring.dropped = 0
  BY <1>1, EmptyAtFirst DEF EmptyRing
<1>3. Typed /\ Fresh /\ Flushing /\ SeriesOK /\ NeverOverclaims /\ ProfileIsWindows
  BY <1>1, InitTyped DEF Fresh, Flushing, SeriesOK, NeverOverclaims, ProfileIsWindows, Started
<1>4. Subject /\ PortsBalanced /\ ThrottleEarned
  BY <1>1, NoneApart DEF NoSampler, NoLatch, NoPorts, Subject, PortsBalanced, ThrottleEarned
<1>5. RingOK
  BY <1>1, <1>2 DEF NoAggregator, NoSampler, RingOK
<1>6. Books
  <2>1. Recorded = 0
    BY <1>1, <1>2 DEF Recorded, NoAggregator, NoStats
  <2> QED BY <1>1, <1>2, <2>1 DEF Books, NoAggregator, NoStats, NoSampler, Closing
<1>7. Peaked
  BY <1>1, WidestIs DEF Peaked, NoAggregator
<1> QED BY <1>3, <1>4, <1>5, <1>6, <1>7 DEF Inv

LEMMA InvStep ==
  ASSUME Inv, Next
  PROVE  Inv'
<1>0. /\ Typed /\ Fresh /\ Subject /\ RingOK /\ Books /\ Flushing /\ SeriesOK /\ Peaked
      /\ PortsBalanced /\ ThrottleEarned /\ NeverOverclaims /\ ProfileIsWindows
  BY DEF Inv
<1>1. RingOK' /\ Typed' /\ Books' /\ Flushing'
  <2>1. CASE SamplerThread
    <3>1. RingOK' /\ Books' /\ Flushing'
      BY <1>0, <2>1, RingOKSampler, BooksSampler, FlushingSampler
    <3>2. RingTyped'
      BY <3>1 DEF RingOK
    <3> QED BY <1>0, <2>1, <3>1, <3>2, SamplerTyped
  <2>2. CASE AggregatorThread
    BY <1>0, <2>2, RingOKAggregator, AggregatorTyped, BooksAggregator, FlushingAggregator
  <2>3. CASE startSampler \/ GuestExits \/ Ask \/ Leave
    BY <1>0, <2>3, RingOKMain, MainTyped, BooksMain, FlushingMain
  <2> QED BY <2>1, <2>2, <2>3, MainDoes DEF Next
<1>2. Fresh' /\ Subject' /\ SeriesOK' /\ Peaked'
  BY <1>0, FreshStep, SubjectStep, SeriesStep, PeakedStep
<1>3. PortsBalanced' /\ ThrottleEarned' /\ NeverOverclaims' /\ ProfileIsWindows'
  BY <1>0, <1>1, PortsStep, ThrottleStep, OverclaimsStep, WindowsStep
<1> QED BY <1>1, <1>2, <1>3 DEF Inv

LEMMA InvStutter ==
  ASSUME Inv, UNCHANGED vars
  PROVE  Inv'
<1>0. /\ ring' = ring /\ main' = main /\ guest' = guest /\ sampler' = sampler
      /\ latch' = latch /\ ports' = ports /\ counted' = counted /\ agg' = agg
      /\ flush' = flush /\ files' = files /\ broken' = broken /\ highest' = highest
  BY DEF vars
<1>1. /\ Typed /\ Fresh /\ Subject /\ RingOK /\ Books /\ Flushing /\ SeriesOK /\ Peaked
      /\ PortsBalanced /\ ThrottleEarned /\ NeverOverclaims /\ ProfileIsWindows
  BY DEF Inv
<1>2. Typed' /\ Fresh' /\ Subject' /\ PortsBalanced' /\ ThrottleEarned'
  BY <1>0, <1>1 DEF Typed, Fresh, Subject, PortsBalanced, ThrottleEarned
<1>3. RingOK' /\ Stored' = Stored /\ Level' = Level
  BY <1>0, <1>1, RingOKSame, RingSame DEF RingOK
<1>4. Recorded' = Recorded /\ Recorded \in Nat /\ Level \in Nat /\ highest \in Nat
  BY <1>0, <1>1, <1>3, RecordedSame, RecordedIs DEF RingOK, RingTyped, Level, Typed
<1>5. Closing' <=> Closing
  BY <1>0 DEF Closing
<1>6. Books'
  BY <1>0, <1>1, <1>4, <1>5 DEF Books
<1>7. Flushing' /\ SeriesOK'
  <2>1. CASE Started
    BY <1>0, <1>1, <1>4, <1>5, <2>1, FlushingSame, SeriesSame DEF Flushing
  <2>2. CASE ~Started
    BY <1>0, <2>2 DEF Started, Flushing, SeriesOK
  <2> QED BY <2>1, <2>2
<1>8. Peaked'
  BY <1>0, <1>1, <1>3, <1>4, PeakedSame
<1>9. NeverOverclaims' /\ ProfileIsWindows'
  BY <1>0, <1>1 DEF NeverOverclaims, Profile, ProfileIsWindows
<1> QED BY <1>1, <1>2, <1>3, <1>6, <1>7, <1>8, <1>9 DEF Inv

LEMMA InvInductive == Inv /\ [Next]_vars => Inv'
BY InvStep, InvStutter

\* What a run of the sampler never leaves.
THEOREM InvHolds == Spec => []Inv
BY InvInitial, InvInductive, PTL DEF Spec

-----------------------------------------------------------------------------
(* What follows from it *)

\* Every variable of the sampler has its type in every state.
THEOREM TypeCorrect == Spec => []TypeOK
<1>1. Inv => TypeOK
  <2> SUFFICES ASSUME Inv PROVE TypeOK
    OBVIOUS
  <2>0. Typed /\ RingTyped /\ (latch.latched => latch.had)
    BY DEF Inv, RingOK, Subject
  <2>1. \A s \in Samples \cup {None} : SampleOK(s)
    BY SampleTyped DEF SampleOK
  <2>2. sampler \in Samplers /\ main \in Mains /\ agg \in Aggregators
    BY <2>0 DEF Typed
  <2>3. counted \in 0..MaxSamples
    BY <2>0, SamplerAssumption DEF Typed
  <2>4. /\ sampler.pc \in {"off", "tick", "push", "publish", "ended"}
        /\ sampler.thread \in Threads \cup {None} /\ SampleOK(sampler.sample)
        /\ sampler.sweeps \in 0..DiscoveryGiveUp
    BY <2>1, <2>2 DEF Samplers
  <2>5. /\ agg.pc \in {"off", "look", "load", "read", "consume", "report", "window", "close",
                       "merge"}
        /\ SampleOK(agg.got)
    BY <2>1, <2>2 DEF Aggregators
  <2>6. main.pc \in {"off", "waiting", "flushing", "left"} /\ broken \in Breakages
    BY <2>0, <2>2 DEF Mains, Typed
  <2> QED BY <2>0, <2>3, <2>4, <2>5, <2>6 DEF TypeOK, RingTyped
<1> QED BY <1>1, InvHolds, PTL

\* Each sample taken is recorded, in the ring, dropped, or in the sampler's hands.
THEOREM SamplesAccounted == Spec => []Accounted
<1>1. Inv => Accounted
  BY DEF Inv, Books, Accounted
<1> QED BY <1>1, InvHolds, PTL

\* A flush that was waited for has written all that was in the ring when it was
\* asked for.
THEOREM FlushWrites == Spec => []FlushComplete
<1>1. Inv => FlushComplete
  <2> SUFFICES ASSUME Inv, main.pc = "flushing", flush.done, "profile" \notin broken
               PROVE  Profile.samples >= main.asked
    BY DEF FlushComplete
  <2>1. Profile = agg.run /\ main.asked <= agg.run.samples
    BY DEF Inv, Flushing, Started
  <2>2. main.asked \in Nat /\ agg.run.samples \in Nat
    BY DEF Inv, Typed, Mains, Aggregators, Stats
  <2> QED BY <2>1, <2>2
<1> QED BY <1>1, InvHolds, PTL

\* A profile holds no more samples than it says were taken.
THEOREM ProfileHonest == Spec => []NeverOverclaims
BY InvHolds, PTL DEF Inv

\* Whatever SIGKILL or a failed write cuts off: the profile is the sum of the
\* windows up to the last one or the one before it, which in the series are
\* numbered through; all but the last are whole there, unless the series
\* cannot be written, and the profile is newest, unless it cannot.
THEOREM SeriesAddsUp == Spec => []ProfileIsWindows
BY InvHolds, PTL DEF Inv

\* The sidecar holds one right to the thread it samples, and none to another.
THEOREM PortsKept == Spec => []PortsBalanced
BY InvHolds, PTL DEF Inv

\* Discovery is slowed down only after a long search in vain.
THEOREM ThrottleKept == Spec => []ThrottleEarned
BY InvHolds, PTL DEF Inv

\* The level the aggregator reports is short of the highest by one sample at most.
THEOREM PeakReported == Spec => PeakKept
<1>1. Inv /\ [Next]_vars => [Load => highest <= agg'.peak + Widest]_vars
  <2> SUFFICES ASSUME Inv, Load PROVE highest <= agg'.peak + Widest
    OBVIOUS
  <2> QED BY PeakTold DEF Inv
<1> QED BY <1>1, InvHolds, PTL DEF Spec, PeakKept

-----------------------------------------------------------------------------
(* The ring implements the queue *)

QueueSame ==
  UNCHANGED <<sampler.sample, Stored, agg.got, ring.dropped, main.pc # "left">>

LEMMA QueueLoad ==
  ASSUME RingOK
  PROVE  Queue!Load = Level
<1>1. PICK pos : Chain(Stored, pos)
  BY DEF RingOK, Chained
<1> QED BY <1>1, LoadIs DEF RingOK

LEMMA QueueSampler ==
  ASSUME Typed, Subject, RingOK, Subject', Typed', SamplerThread
  PROVE  Queue!Next \/ QueueSame
<1>0. /\ sampler \in Samplers /\ main.pc # "left" /\ main' = main /\ agg' = agg
      /\ sampler' \in Samplers /\ Level \in Nat
  <2>1. Started /\ main' = main /\ agg' = agg
    BY DEF SamplerThread, SweepOn, LatchOnto, SweepFails, Measure, MeasureFails, Push, Drop,
         Publish, Unlatch, Sweeping, Measuring
  <2> QED BY <2>1 DEF Started, Typed, RingOK, RingTyped, Level
<1>1. CASE SweepOn \/ LatchOnto \/ SweepFails \/ MeasureFails \/ Unlatch
  <2>1. ring' = ring /\ sampler'.sample = sampler.sample
    BY <1>0, <1>1 DEF SweepOn, LatchOnto, Latched, SweepFails, MeasureFails, Unlatch, Samplers
  <2>2. Stored' = Stored
    BY <2>1, RingSame DEF RingOK
  <2> QED BY <1>0, <2>1, <2>2 DEF QueueSame
<1>2. CASE Measure
  <2>1. ring' = ring /\ sampler.sample = None /\ sampler'.sample \in Samples
    <3>1. ring' = ring /\ sampler.pc = "tick" /\ sampler'.pc = "push"
      BY <1>0, <1>2 DEF Measure, Measuring, Samplers
    <3> QED BY <1>0, <3>1 DEF Subject, Samplers
  <2>2. Stored' = Stored
    BY <2>1, RingSame DEF RingOK
  <2>3. Queue!Offer
    BY <1>0, <2>1, <2>2 DEF Queue!Offer
  <2> QED BY <2>3 DEF Queue!Next
<1>3. CASE Push
  <2>1. sampler'.sample = sampler.sample /\ sampler.sample \in Samples
        /\ ring'.dropped = ring.dropped
    BY <1>0, <1>3 DEF Push, Samplers, Subject, RingOK, RingTyped
  <2>2. Stored' = Stored
    BY <1>3, <2>1, PushStep DEF RingOK
  <2> QED BY <1>0, <2>1, <2>2 DEF QueueSame
<1>4. CASE Drop
  <2>1. sampler'.sample = None /\ sampler.sample # None /\ sampler.sample \in Samples
    BY <1>0, <1>4 DEF Drop, Samplers, Subject
  <2>2. Stored' = Stored /\ ring'.dropped = ring.dropped + 1
    BY <1>4, DropStep DEF RingOK
  <2>3. Queue!Load + Width(sampler.sample) > RingWords
    <3>1. Width(sampler.sample) \in Nat
      BY <2>1, HeaderOf
    <3>2. ~(Level + Width(sampler.sample) <= RingWords)
      BY <1>4 DEF Drop, Fits, Width
    <3> QED BY <1>0, <3>1, <3>2, QueueLoad, RingAssumption
  <2>4. Queue!Lose
    BY <1>0, <2>1, <2>2, <2>3 DEF Queue!Lose
  <2> QED BY <2>4 DEF Queue!Next
<1>5. CASE Publish
  <2>1. sampler'.sample = None /\ sampler.sample # None /\ sampler.sample \in Samples
    BY <1>0, <1>5 DEF Publish, Samplers, Subject
  <2>2. Written(sampler.sample) /\ Level + Width(sampler.sample) <= RingWords
    BY <1>5 DEF Publish, RingOK
  <2>3. Stored' = Append(Stored, sampler.sample) /\ ring'.dropped = ring.dropped
    <3> PICK s \in Samples : s = sampler.sample /\ Written(s)
      BY <2>1, <2>2
    <3>1. Stored' = Append(Stored, s) /\ ring'.dropped = ring.dropped
      BY <1>5, PublishStep DEF RingOK
    <3> QED BY <3>1
  <2>4. Queue!Put
    BY <1>0, <2>1, <2>2, <2>3, QueueLoad DEF Queue!Put
  <2> QED BY <2>4 DEF Queue!Next
<1> QED BY <1>1, <1>2, <1>3, <1>4, <1>5 DEF SamplerThread

LEMMA QueueAggregator ==
  ASSUME Typed, RingOK, RingOK', AggregatorThread
  PROVE  Queue!Next \/ QueueSame
<1>0. agg \in Aggregators /\ main.pc # "left" /\ main' = main /\ sampler' = sampler
  BY AggregatorLeaves DEF Typed, Started
<1>1. CASE Read
  <2>1. ring' = ring /\ agg.got = None /\ agg'.pc = "consume"
    BY <1>0, <1>1 DEF Read, RingOK, Aggregators
  <2>2. Stored' = Stored
    BY <2>1, RingSame DEF RingOK
  <2>3. Stored # <<>> /\ agg'.got = Head(Stored)
    BY <2>1, <2>2 DEF RingOK
  <2>4. Queue!See
    BY <1>0, <2>1, <2>2, <2>3 DEF Queue!See
  <2> QED BY <2>4 DEF Queue!Next
<1>2. CASE Consume
  <2>1. agg.got # None /\ agg'.got = None /\ Stored # <<>>
    BY <1>0, <1>2 DEF Consume, RingOK, Aggregators
  <2>2. Stored' = Tail(Stored) /\ ring'.dropped = ring.dropped
    BY <1>2, <2>1, ConsumeStep DEF RingOK
  <2>3. Queue!Advance
    BY <1>0, <2>1, <2>2 DEF Queue!Advance
  <2> QED BY <2>3 DEF Queue!Next
<1>3. CASE \/ Look \/ Load \/ ReportDue \/ ReportFlush \/ NoReport
           \/ AppendWindow \/ CloseWindow \/ CutWindow \/ LoseWindow \/ WriteProfile
  <2>1. ring' = ring /\ agg'.got = agg.got
    <3>1. CASE Look \/ Load \/ NoReport
      BY <1>0, <3>1 DEF Look, Load, NoReport, Aggregators
    <3>2. CASE ReportDue \/ ReportFlush
      BY <1>0, <3>2 DEF ReportDue, ReportFlush, Report, Aggregators
    <3>3. CASE AppendWindow \/ CloseWindow \/ CutWindow \/ LoseWindow \/ WriteProfile
      BY <1>0, <3>3 DEF AppendWindow, CloseWindow, CutWindow, LoseWindow, WriteProfile, Aggregators
    <3> QED BY <1>3, <3>1, <3>2, <3>3
  <2>2. Stored' = Stored
    BY <2>1, RingSame DEF RingOK
  <2> QED BY <1>0, <2>1, <2>2 DEF QueueSame
<1> QED BY <1>1, <1>2, <1>3 DEF AggregatorThread

LEMMA QueueMain ==
  ASSUME Typed, RingOK, startSampler \/ GuestExits \/ (Started /\ (Ask \/ Leave))
  PROVE  Queue!Next \/ QueueSame
<1>1. CASE startSampler \/ GuestExits \/ (Started /\ Ask)
  <2>1. /\ ring' = ring /\ main.pc # "left" /\ main'.pc # "left"
        /\ sampler'.sample = sampler.sample /\ agg'.got = agg.got
    BY <1>1 DEF startSampler, GuestExits, Ask, Started, Typed, Mains, Samplers, Aggregators
  <2>2. Stored' = Stored
    BY <2>1, RingSame DEF RingOK
  <2> QED BY <2>1, <2>2 DEF QueueSame
<1>2. CASE Started /\ Leave
  <2>1. /\ main.pc # "left" /\ main'.pc = "left" /\ ring' = EmptyRing
        /\ sampler'.sample = None /\ agg'.got = None
    BY <1>2 DEF Started, Leave, NoSampler, NoAggregator
  <2>2. Stored' = <<>> /\ ring'.dropped = 0
    BY <2>1, EmptyStep
  <2>3. Queue!End
    BY <2>1, <2>2 DEF Queue!End
  <2> QED BY <2>3 DEF Queue!Next
<1> QED BY <1>1, <1>2

LEMMA QueueStep ==
  ASSUME Inv, Inv', [Next]_vars
  PROVE  Queue!Next \/ QueueSame
<1>1. CASE Next
  <2>1. Typed /\ Subject /\ RingOK /\ Typed' /\ Subject' /\ RingOK'
    BY DEF Inv
  <2> QED BY <1>1, <2>1, QueueSampler, QueueAggregator, QueueMain, MainDoes DEF Next
<1>2. CASE UNCHANGED vars
  <2>1. Stored' = Stored
    BY <1>2, RingSame DEF vars, Inv, RingOK
  <2> QED BY <1>2, <2>1 DEF vars, QueueSame
<1> QED BY <1>1, <1>2

\* The ring and the two threads at its ends implement a bounded queue: a sample
\* goes in whole or is counted as lost, and they come out as they went in.
THEOREM RingIsQueue == Spec => QueueSpec
<1>1. Init => Queue!Init
  <2> SUFFICES ASSUME Init PROVE Queue!Init
    OBVIOUS
  <2>1. Stored = <<>>
    BY EmptyAtFirst DEF Init
  <2> QED BY <2>1 DEF Init, NoSampler, NoAggregator, EmptyRing, Queue!Init
<1>2. Inv /\ Inv' /\ [Next]_vars =>
        [Queue!Next]_<<sampler.sample, Stored, agg.got, ring.dropped, main.pc # "left">>
  BY QueueStep DEF QueueSame
<1> QED BY <1>1, <1>2, InvHolds, PTL DEF Spec, QueueSpec, Queue!Spec
=============================================================================
