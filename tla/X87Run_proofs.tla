--------------------------- MODULE X87Run_proofs ---------------------------
(***************************************************************************)
(* Runs: Inv is inductive, for every number of registers, every set of     *)
(* values and every length of run, if the program shuns the divergent      *)
(* sequences.                                                              *)
(*                                                                         *)
(* First the helpers of X87Cache, the translators of single instructions   *)
(* and every fusion, against the reference machine executing the           *)
(* instructions one by one.  Inside a translator, from x87_begin to        *)
(* x87_end, a state is Ready and shows a machine, Mid: memory with the     *)
(* deferred work done.  A flush leaves what is shown alone (Same), a push  *)
(* shows a push, a pop a pop, and a register is read and written where     *)
(* resolve_depth finds it.  From a Sound state a translator is Done with a *)
(* state that shows what the instruction makes of Now(S), and at the end   *)
(* of a run nothing is left deferred.  A fusion is Done with what its two  *)
(* to six instructions make of it.                                         *)
(*                                                                         *)
(* Then one lemma per group of actions, each from the lemmas on their      *)
(* translators; Replied counts the instructions of an answer.              *)
(***************************************************************************)
EXTENDS X87Run, TLAPS

\* The registers form a ring: one step up undoes one step down.
LEMMA Stack ==
  ASSUME NEW p \in Slots
  PROVE  /\ Inc(p) \in Slots /\ Dec(p) \in Slots
         /\ Inc(Dec(p)) = p /\ Dec(Inc(p)) = p
BY NSlotsAssumption DEF Inc, Dec, Slots

\* Naming a register by its depth below TOP and back is the identity.
LEMMA PhysDepth ==
  ASSUME NEW t \in Slots, NEW p \in Slots
  PROVE  /\ Phys(t, p) \in Slots /\ Depth(t, p) \in Slots
         /\ Phys(t, Depth(t, p)) = p /\ Depth(t, Phys(t, p)) = p
BY NSlotsAssumption DEF Phys, Depth, Slots

\* The two topmost registers, and that the ring has no fixed point.
LEMMA Neighbours ==
  ASSUME NEW t \in Slots
  PROVE  /\ 0 \in Slots /\ 1 \in Slots
         /\ Phys(t, 0) = t /\ Phys(t, 1) = Inc(t) /\ Depth(t, t) = 0
         /\ Inc(t) # t /\ Dec(t) # t
BY NSlotsAssumption DEF Phys, Depth, Inc, Dec, Slots

\* The reference machine works on the same ring.
LEMMA AData ==
  ASSUME NEW p, NEW q
  PROVE  A!Inc(p) = Inc(p) /\ A!Dec(p) = Dec(p) /\ A!Phys(p, q) = Phys(p, q)
         /\ A!Slots = Slots /\ A!Depth(p, q) = Depth(p, q)
BY DEF A!Inc, Inc, A!Dec, Dec, A!Phys, Phys, A!Slots, Slots, A!Depth, Depth

\* What a register of a machine holds: a value or, empty, NoVal.
Held == Vals \cup {NoVal}

\* The reference machine's type.
IsMach(a) ==
  /\ a = [top |-> a.top, tag |-> a.tag, st |-> a.st, cc |-> a.cc, out |-> a.out]
  /\ a.top \in Slots /\ a.tag \in [Slots -> BOOLEAN] /\ a.st \in [Slots -> Held]

\* Machines that agree everywhere are equal.
LEMMA MachEq ==
  ASSUME NEW a, NEW b, IsMach(a), IsMach(b), a.top = b.top, a.cc = b.cc, a.out = b.out,
         \A p \in Slots : (a.tag[p] <=> b.tag[p]) /\ a.st[p] = b.st[p]
  PROVE  a = b
<1>1. a.tag = b.tag /\ a.st = b.st
  BY DEF IsMach
<1> QED BY <1>1 DEF IsMach

\* What moving TOP changes.
LEMMA Move ==
  ASSUME NEW a, IsMach(a), NEW p \in Slots
  PROVE  LET b == A!Move(a, p)
         IN  IsMach(b) /\ b.top = p /\ b.tag = a.tag /\ b.st = a.st /\ b.cc = a.cc /\ b.out = a.out
BY DEF IsMach, A!Move

\* What marking a register in use changes.
LEMMA Take ==
  ASSUME NEW a, IsMach(a), NEW p \in Slots
  PROVE  LET b == A!Take(a, p)
         IN  IsMach(b) /\ b.top = a.top /\ b.st = a.st /\ b.cc = a.cc /\ b.out = a.out
             /\ \A q \in Slots : b.tag[q] <=> (q = p \/ a.tag[q])
<1> DEFINE f == [a.tag EXCEPT ![p] = TRUE]
<1>1. f \in [Slots -> BOOLEAN] /\ \A q \in Slots : f[q] <=> (q = p \/ a.tag[q])
  BY DEF IsMach
<1>2. A!Take(a, p) = [a EXCEPT !.tag = f]
  BY DEF A!Take, IsMach
<1> HIDE DEF f
<1>3. A!Take(a, p) = [top |-> a.top, tag |-> f, st |-> a.st, cc |-> a.cc, out |-> a.out]
  BY <1>2 DEF IsMach
<1> QED BY <1>1, <1>3 DEF IsMach

\* What marking a register empty changes.
LEMMA Free ==
  ASSUME NEW a, IsMach(a), NEW p \in Slots
  PROVE  LET b == A!Free(a, p)
         IN  IsMach(b) /\ b.top = a.top /\ b.st = a.st /\ b.cc = a.cc /\ b.out = a.out
             /\ \A q \in Slots : b.tag[q] <=> (q # p /\ a.tag[q])
<1> DEFINE f == [a.tag EXCEPT ![p] = FALSE]
<1>1. f \in [Slots -> BOOLEAN] /\ \A q \in Slots : f[q] <=> (q # p /\ a.tag[q])
  BY DEF IsMach
<1>2. A!Free(a, p) = [a EXCEPT !.tag = f]
  BY DEF A!Free, IsMach
<1> HIDE DEF f
<1>3. A!Free(a, p) = [top |-> a.top, tag |-> f, st |-> a.st, cc |-> a.cc, out |-> a.out]
  BY <1>2 DEF IsMach
<1> QED BY <1>1, <1>3 DEF IsMach

\* What writing a register changes.
LEMMA Hold ==
  ASSUME NEW a, IsMach(a), NEW p \in Slots, NEW v \in Held
  PROVE  LET b == A!Hold(a, p, v)
         IN  IsMach(b) /\ b.top = a.top /\ b.tag = a.tag /\ b.cc = a.cc /\ b.out = a.out
             /\ \A q \in Slots : b.st[q] = IF q = p THEN v ELSE a.st[q]
BY DEF IsMach, A!Hold

\* What handing a value to the guest changes.
LEMMA Hand ==
  ASSUME NEW a, IsMach(a), NEW v
  PROVE  LET b == A!Give(a, v)
         IN  IsMach(b) /\ b.top = a.top /\ b.tag = a.tag /\ b.cc = a.cc /\ b.out = v /\ b.st = a.st
BY DEF IsMach, A!Give

\* What a store to ST(d) changes.
LEMMA MachSet ==
  ASSUME NEW a, IsMach(a), NEW d \in Slots, NEW v \in Held
  PROVE  LET b == A!Set(a, d, v)
         IN  IsMach(b) /\ b.top = a.top /\ b.tag = a.tag /\ b.cc = a.cc /\ b.out = a.out
             /\ \A q \in Slots : b.st[q] = IF q = Phys(a.top, d) THEN v ELSE a.st[q]
<1>1. A!Phys(a.top, d) = Phys(a.top, d) /\ Phys(a.top, d) \in Slots
  BY AData, PhysDepth DEF IsMach
<1> QED BY <1>1, Hold DEF A!Set

\* What a push changes.
LEMMA MachPush ==
  ASSUME NEW a, IsMach(a), NEW v \in Held
  PROVE  LET b == A!PushSt(a, v)
         IN  /\ IsMach(b) /\ b.top = Dec(a.top) /\ b.cc = a.cc /\ b.out = a.out
             /\ \A q \in Slots : b.st[q] = IF q = Dec(a.top) THEN v ELSE a.st[q]
             /\ \A q \in Slots : b.tag[q] <=> (q = Dec(a.top) \/ a.tag[q])
<1> DEFINE p == Dec(a.top)
<1>1. A!Dec(a.top) = p /\ p \in Slots
  BY AData, Stack DEF IsMach
<1> HIDE DEF p
<1>2. PICK b : b = A!Move(a, p) /\ IsMach(b) /\ b.top = p /\ b.tag = a.tag /\ b.st = a.st
               /\ b.cc = a.cc /\ b.out = a.out
  BY <1>1, Move
<1>3. PICK c : c = A!Take(b, p) /\ IsMach(c) /\ c.top = b.top /\ c.st = b.st /\ c.cc = b.cc
               /\ c.out = b.out
             /\ \A q \in Slots : c.tag[q] <=> (q = p \/ b.tag[q])
  BY <1>1, <1>2, Take
<1>4. PICK e : e = A!Hold(c, p, v) /\ IsMach(e) /\ e.top = c.top /\ e.tag = c.tag /\ e.cc = c.cc
               /\ e.out = c.out
             /\ \A q \in Slots : e.st[q] = IF q = p THEN v ELSE c.st[q]
  BY <1>1, <1>3, Hold
<1>5. A!PushSt(a, v) = e
  BY <1>1, <1>2, <1>3, <1>4 DEF A!PushSt
<1> QED BY <1>1, <1>2, <1>3, <1>4, <1>5 DEF p

\* What emptying ST(d) changes.
LEMMA MachFree ==
  ASSUME NEW a, IsMach(a), NEW d \in Slots
  PROVE  LET b == A!FreeSt(a, d)
         IN  /\ IsMach(b) /\ b.top = a.top /\ b.cc = a.cc /\ b.out = a.out
             /\ \A q \in Slots : b.st[q] = IF q = Phys(a.top, d) THEN NoVal ELSE a.st[q]
             /\ \A q \in Slots : b.tag[q] <=> (q # Phys(a.top, d) /\ a.tag[q])
<1> DEFINE p == Phys(a.top, d)
<1>1. A!Phys(a.top, d) = p /\ p \in Slots /\ NoVal \in Held
  BY AData, PhysDepth DEF IsMach, Held
<1> HIDE DEF p
<1>2. PICK b : /\ b = A!Free(a, p) /\ IsMach(b) /\ b.top = a.top /\ b.st = a.st /\ b.cc = a.cc
               /\ b.out = a.out
               /\ \A q \in Slots : b.tag[q] <=> (q # p /\ a.tag[q])
  BY <1>1, Free
<1>3. PICK e : /\ e = A!Hold(b, p, NoVal) /\ IsMach(e) /\ e.top = b.top /\ e.tag = b.tag
               /\ e.cc = b.cc /\ e.out = b.out
               /\ \A q \in Slots : e.st[q] = IF q = p THEN NoVal ELSE b.st[q]
  BY <1>1, <1>2, Hold
<1>4. A!FreeSt(a, d) = e
  BY <1>1, <1>2, <1>3 DEF A!FreeSt
<1> QED BY <1>2, <1>3, <1>4 DEF p

\* What a pop changes.
LEMMA MachPop ==
  ASSUME NEW a, IsMach(a)
  PROVE  LET b == A!PopSt(a)
         IN  /\ IsMach(b) /\ b.top = Inc(a.top) /\ b.cc = a.cc /\ b.out = a.out
             /\ \A q \in Slots : b.st[q] = IF q = a.top THEN NoVal ELSE a.st[q]
             /\ \A q \in Slots : b.tag[q] <=> (q # a.top /\ a.tag[q])
<1>1. A!Inc(a.top) = Inc(a.top) /\ Inc(a.top) \in Slots /\ Phys(a.top, 0) = a.top /\ 0 \in Slots
  BY AData, Stack, Neighbours DEF IsMach
<1> DEFINE b == A!FreeSt(a, 0)
<1>2. /\ IsMach(b) /\ b.top = a.top /\ b.cc = a.cc /\ b.out = a.out
      /\ \A q \in Slots : b.st[q] = IF q = Phys(a.top, 0) THEN NoVal ELSE a.st[q]
      /\ \A q \in Slots : b.tag[q] <=> (q # Phys(a.top, 0) /\ a.tag[q])
  <2>1. 0 \in Slots
    BY <1>1
  <2> QED BY <2>1, MachFree
<1>3. A!PopSt(a) = A!Move(b, Inc(a.top))
  BY <1>1 DEF A!PopSt
<1> HIDE DEF b
<1>4. PICK c : c = A!Move(b, Inc(a.top)) /\ IsMach(c) /\ c.top = Inc(a.top) /\ c.tag = b.tag
               /\ c.st = b.st /\ c.cc = b.cc /\ c.out = b.out
  BY <1>1, <1>2, Move
<1> QED BY <1>1, <1>2, <1>3, <1>4

\* A state from its fields.
Rec(top, tag, st, cc, w, run, gv, td, tpp, dpc, perm, pd, out) ==
  [top |-> top, tag |-> tag, st |-> st, cc |-> cc, w |-> w, run |-> run,
   gv |-> gv, td |-> td, tpp |-> tpp, dpc |-> dpc, perm |-> perm, pd |-> pd,
   out |-> out]

\* Inside a translator: TOP is in its register.
Ready(S) ==
  /\ TypedState(S)
  /\ S.gv = (S.run > 0)
  /\ ~S.pd => S.perm = Identity
  /\ S.tpp => S.dpc = 0 /\ ~S.tag[S.w]
  /\ S.tpp /\ S.td => S.top = Inc(S.w)
  /\ ~S.td => S.top = S.w
  /\ S.run = 0 => ~S.tpp /\ S.dpc = 0

\* The machine a state inside a translator shows.
Mid(S) == LiveAt(S, S.w)

\* T differs from S in nothing a later instruction sees of the stack.
Same(S, T) == Ready(T) /\ Mid(T) = Mid(S) /\ T.run = S.run

\* States that agree on what is shown of them show the same machine.
LEMMA MidEqual ==
  ASSUME NEW S, NEW T, T.w = S.w, T.st = S.st, T.perm = S.perm, T.cc = S.cc,
         T.out = S.out, TagAt(T, S.w) = TagAt(S, S.w)
  PROVE  Mid(T) = Mid(S)
<1>1. StAt(T, S.w) = StAt(S, S.w)
  BY DEF StAt
<1> QED BY <1>1 DEF Mid, LiveAt

\* x87_flush_top stores TOP and shows the same machine.
LEMMA FlushTop ==
  ASSUME NEW S, Ready(S)
  PROVE  LET T == x87_flush_top(S)
         IN  /\ Same(S, T)
             /\ ~T.td /\ T.tpp = S.tpp /\ T.dpc = S.dpc /\ T.pd = S.pd
<1> SUFFICES ASSUME NEW T, T = x87_flush_top(S)
             PROVE  /\ Same(S, T)
                    /\ ~T.td /\ T.tpp = S.tpp /\ T.dpc = S.dpc /\ T.pd = S.pd
  OBVIOUS
<1>1. CASE ~S.td
  BY <1>1 DEF Same, x87_flush_top
<1>2. CASE S.td
  <2>1. T = Rec(S.w, S.tag, S.st, S.cc, S.w, S.run, S.gv, FALSE, S.tpp, S.dpc,
                S.perm, S.pd, S.out)
    BY <1>2 DEF Ready, TypedState, Rec, x87_flush_top, emit_store_top
  <2>2. Ready(T)
    BY <2>1 DEF Ready, TypedState, Rec
  <2>3. TagAt(T, S.w) = TagAt(S, S.w)
    BY <2>1 DEF TagAt, Rec
  <2> QED BY <2>1, <2>2, <2>3, MidEqual DEF Same, Rec
<1> QED BY <1>1, <1>2 DEF Ready, TypedState

\* x87_flush_pending_tag writes the tag of a push and shows the same machine.
LEMMA FlushTag ==
  ASSUME NEW S, Ready(S)
  PROVE  LET T == x87_flush_pending_tag(S)
         IN  /\ Same(S, T)
             /\ ~T.tpp /\ T.td = S.td /\ T.dpc = S.dpc /\ T.pd = S.pd
<1> SUFFICES ASSUME NEW T, T = x87_flush_pending_tag(S)
             PROVE  /\ Same(S, T)
                    /\ ~T.tpp /\ T.td = S.td /\ T.dpc = S.dpc /\ T.pd = S.pd
  OBVIOUS
<1>1. CASE ~S.tpp
  BY <1>1 DEF Same, x87_flush_pending_tag
<1>2. CASE S.tpp
  <2> DEFINE f == [S.tag EXCEPT ![S.w] = TRUE]
  <2>1. T = Rec(S.top, f, S.st, S.cc, S.w, S.run, S.gv, S.td, FALSE, S.dpc,
                S.perm, S.pd, S.out)
    BY <1>2 DEF Ready, TypedState, Rec, x87_flush_pending_tag,
                emit_x87_tag_clear
  <2>2. f \in [Slots -> BOOLEAN]
    BY DEF Ready, TypedState
  <2>3. \A p \in Slots : f[p] = (p = S.w \/ S.tag[p])
    BY DEF Ready, TypedState
  <2> HIDE DEF f
  <2>4. Ready(T)
    BY <1>2, <2>1, <2>2 DEF Ready, TypedState, Rec
  <2>5. S.dpc = 0 /\ T.dpc = 0
    BY <1>2, <2>1 DEF Ready, Rec
  <2>6. Above(S.w, 0) = {}
    BY DEF Above
  <2>7. TagAt(T, S.w) = TagAt(S, S.w)
    <3>1. ~T.tpp /\ T.tag = f
      BY <2>1 DEF Rec
    <3>2. \A p \in Slots :
             ((T.tpp /\ p = S.w) \/ (T.tag[p] /\ p \notin Above(S.w, T.dpc)))
         <=> ((S.tpp /\ p = S.w) \/ (S.tag[p] /\ p \notin Above(S.w, S.dpc)))
      BY <1>2, <3>1, <2>3, <2>5, <2>6
    <3> QED BY <3>2 DEF TagAt
  <2> QED BY <2>1, <2>4, <2>7, MidEqual DEF Same, Rec
<1> QED BY <1>1, <1>2 DEF Ready, TypedState

\* x87_flush_deferred_pops empties the popped registers and shows the same
\* machine.
LEMMA FlushPops ==
  ASSUME NEW S, Ready(S)
  PROVE  LET T == x87_flush_deferred_pops(S)
         IN  /\ Same(S, T)
             /\ T.dpc = 0 /\ T.tpp = S.tpp /\ T.td = S.td /\ T.pd = S.pd
<1> SUFFICES ASSUME NEW T, T = x87_flush_deferred_pops(S)
             PROVE  /\ Same(S, T)
                    /\ T.dpc = 0 /\ T.tpp = S.tpp /\ T.td = S.td /\ T.pd = S.pd
  OBVIOUS
<1>1. CASE ~(S.dpc > 0)
  <2>1. T = S /\ S.dpc = 0
    BY <1>1, NSlotsAssumption DEF x87_flush_deferred_pops, Ready, TypedState
  <2> QED BY <2>1 DEF Same
<1>2. CASE S.dpc > 0
  <2> DEFINE f == [p \in Slots |-> S.tag[p] /\ p \notin Above(S.w, S.dpc)]
  <2>1. T = Rec(S.top, f, S.st, S.cc, S.w, S.run, S.gv, S.td, S.tpp, 0,
                S.perm, S.pd, S.out)
    BY <1>2 DEF Ready, TypedState, Rec, x87_flush_deferred_pops,
                emit_x87_tag_set_empty_batch
  <2>2. f \in [Slots -> BOOLEAN]
    BY DEF Ready, TypedState
  <2>3. \A p \in Slots : f[p] = (S.tag[p] /\ p \notin Above(S.w, S.dpc))
    OBVIOUS
  <2> HIDE DEF f
  <2>4. Ready(T)
    BY <1>2, <2>1, <2>2, NSlotsAssumption DEF Ready, TypedState, Rec
  <2>5. Above(S.w, 0) = {}
    BY DEF Above
  <2>6. TagAt(T, S.w) = TagAt(S, S.w)
    <3>1. T.tpp = S.tpp /\ T.tag = f /\ T.dpc = 0
      BY <2>1 DEF Rec
    <3>2. \A p \in Slots :
             ((T.tpp /\ p = S.w) \/ (T.tag[p] /\ p \notin Above(S.w, T.dpc)))
         <=> ((S.tpp /\ p = S.w) \/ (S.tag[p] /\ p \notin Above(S.w, S.dpc)))
      BY <3>1, <2>3, <2>5
    <3> QED BY <3>2 DEF TagAt
  <2> QED BY <2>1, <2>4, <2>6, MidEqual DEF Same, Rec
<1> QED BY <1>1, <1>2

\* x87_flush_tags does both.
LEMMA FlushTags ==
  ASSUME NEW S, Ready(S)
  PROVE  LET T == x87_flush_tags(S)
         IN  /\ Same(S, T)
             /\ ~T.tpp /\ T.dpc = 0 /\ T.td = S.td /\ T.pd = S.pd
BY FlushPops, FlushTag DEF x87_flush_tags, Same

\* A permutation flush moves the registers and shows the same machine.
LEMMA FlushPerm ==
  ASSUME NEW S, Ready(S)
  PROVE  LET T == perm_flush_before_stack_change(S)
         IN  /\ Same(S, T)
             /\ ~T.pd /\ T.tpp = S.tpp /\ T.td = S.td /\ T.dpc = S.dpc
<1> SUFFICES ASSUME NEW T, T = perm_flush_before_stack_change(S)
             PROVE  /\ Same(S, T)
                    /\ ~T.pd /\ T.tpp = S.tpp /\ T.td = S.td /\ T.dpc = S.dpc
  OBVIOUS
<1>1. CASE ~S.pd
  BY <1>1 DEF perm_flush_before_stack_change, Same
<1>2. CASE S.pd
  <2> DEFINE f == [p \in Slots |-> S.st[Phys(S.w, S.perm[Depth(S.w, p)])]]
  <2>1. T = Rec(S.top, S.tag, f, S.cc, S.w, S.run, S.gv, S.td, S.tpp, S.dpc,
                Identity, FALSE, S.out)
    BY <1>2 DEF Ready, TypedState, Rec, perm_flush_before_stack_change,
                x87_emit_perm_flush, reset_perm, emit_x87_perm_flush
  <2>2. S.w \in Slots /\ S.perm \in [Slots -> Slots] /\ S.st \in [Slots -> Vals]
    BY DEF Ready, TypedState, Perms
  <2>3. \A p \in Slots : Phys(S.w, S.perm[Depth(S.w, p)]) \in Slots
    BY <2>2, PhysDepth
  <2>4. f \in [Slots -> Vals]
    BY <2>2, <2>3
  <2>5. Identity \in Perms
    BY DEF Identity, Perms
  <2>6. \A p \in Slots : f[p] = S.st[Phys(S.w, S.perm[Depth(S.w, p)])]
    OBVIOUS
  <2> HIDE DEF f
  <2>7. Ready(T)
    BY <2>1, <2>4, <2>5 DEF Ready, TypedState, Rec
  <2>8. TagAt(T, S.w) = TagAt(S, S.w)
    BY <2>1 DEF TagAt, Rec
  <2>9. \A p \in Slots : f[Phys(S.w, Identity[Depth(S.w, p)])]
                           = S.st[Phys(S.w, S.perm[Depth(S.w, p)])]
    BY <2>2, <2>6, PhysDepth DEF Identity
  <2>10. StAt(T, S.w) = StAt(S, S.w)
    BY <2>1, <2>8, <2>9 DEF StAt, Rec
  <2> QED BY <2>1, <2>7, <2>8, <2>10 DEF Same, Mid, LiveAt, Rec
<1> QED BY <1>1, <1>2 DEF Ready, TypedState

-----------------------------------------------------------------------------

\* The machine a state shows, field by field, with TOP given as t.
LEMMA MidFields ==
  ASSUME NEW S, TypedState(S), NEW t \in Slots
  PROVE  LET m == LiveAt(S, t)
         IN  /\ IsMach(m) /\ m.top = t /\ m.cc = S.cc /\ m.out = S.out
             /\ \A p \in Slots : m.tag[p]
                      <=> ((S.tpp /\ p = t) \/ (S.tag[p] /\ p \notin Above(t, S.dpc)))
             /\ \A p \in Slots : m.st[p] = IF m.tag[p]
                      THEN S.st[Phys(t, S.perm[Depth(t, p)])] ELSE NoVal
             /\ \A p \in Slots : S.st[Phys(t, S.perm[Depth(t, p)])] \in Vals
<1> DEFINE m == LiveAt(S, t)
<1>1. \A p \in Slots : S.st[Phys(t, S.perm[Depth(t, p)])] \in Vals
  BY PhysDepth DEF TypedState, Perms
<1>2. m.tag = TagAt(S, t) /\ m.st = StAt(S, t) /\ m.top = t /\ m.cc = S.cc /\ m.out = S.out
      /\ m = [top |-> m.top, tag |-> m.tag, st |-> m.st, cc |-> m.cc, out |-> m.out]
  BY DEF LiveAt
<1>3. TagAt(S, t) \in [Slots -> BOOLEAN]
      /\ \A p \in Slots : TagAt(S, t)[p]
               <=> ((S.tpp /\ p = t) \/ (S.tag[p] /\ p \notin Above(t, S.dpc)))
  BY DEF TagAt, TypedState
<1> HIDE DEF m
<1>4. StAt(S, t) \in [Slots -> Held]
      /\ \A p \in Slots : StAt(S, t)[p] = IF TagAt(S, t)[p]
               THEN S.st[Phys(t, S.perm[Depth(t, p)])] ELSE NoVal
  BY <1>1 DEF StAt, Held
<1> QED BY <1>1, <1>2, <1>3, <1>4 DEF IsMach, m

\* No pops, no registers above TOP to empty.
LEMMA NoneAbove ==
  ASSUME NEW t
  PROVE  Above(t, 0) = {}
BY DEF Above

\* CanMove: a permutation pending while no run is active cannot be flushed
\* by a push or a pop.
CanMove(S) == S.run > 0 \/ ~S.pd

\* Storing TOP, on a state given by its fields.
LEMMA StoreTop ==
  ASSUME NEW top, NEW tag, NEW st, NEW cc, NEW w, NEW run, NEW gv, NEW td, NEW tpp, NEW dpc,
         NEW perm, NEW pd, NEW out
  PROVE  emit_store_top(Rec(top, tag, st, cc, w, run, gv, td, tpp, dpc, perm, pd, out))
           = Rec(w, tag, st, cc, w, run, gv, td, tpp, dpc, perm, pd, out)
<1> SUFFICES ASSUME NEW S, S = Rec(top, tag, st, cc, w, run, gv, td, tpp, dpc, perm, pd, out)
             PROVE  emit_store_top(S) = Rec(w, tag, st, cc, w, run, gv, td, tpp, dpc, perm, pd, out)
  OBVIOUS
<1> QED BY DEF Rec, emit_store_top

\* A state that differs from F by a register in use above its TOP shows a
\* push.
LEMMA PushMid ==
  ASSUME NEW F, NEW P, NEW t \in Slots, F.w = t, TypedState(F), TypedState(P),
         ~F.tpp, F.dpc = 0, F.perm = Identity,
         P.w = Dec(t), P.dpc = 0, P.perm = Identity, P.st = F.st, P.cc = F.cc,
         P.out = F.out,
         \A p \in Slots : ((P.tpp /\ p = Dec(t)) \/ P.tag[p]) <=> (p = Dec(t) \/ F.tag[p])
  PROVE  Mid(P) = A!PushSt(Mid(F), F.st[Dec(t)])
<1> DEFINE d == Dec(t)
           m == LiveAt(F, t)
           n == LiveAt(P, d)
           a == A!PushSt(m, F.st[d])
<1>1. d \in Slots /\ F.st[d] \in Vals /\ F.st[d] \in Held
  BY Stack DEF TypedState, Held
<1>2. \A u \in Slots, p \in Slots : Phys(u, Identity[Depth(u, p)]) = p
  BY PhysDepth DEF Identity
<1>3. /\ IsMach(m) /\ m.top = t /\ m.cc = F.cc /\ m.out = F.out
      /\ \A p \in Slots : m.tag[p] <=> F.tag[p]
      /\ \A p \in Slots : m.st[p] = IF m.tag[p] THEN F.st[p] ELSE NoVal
  BY <1>2, MidFields, NoneAbove
<1>4. /\ IsMach(n) /\ n.top = d /\ n.cc = F.cc /\ n.out = F.out
      /\ \A p \in Slots : n.tag[p] <=> (p = d \/ F.tag[p])
      /\ \A p \in Slots : n.st[p] = IF n.tag[p] THEN F.st[p] ELSE NoVal
  BY <1>1, <1>2, MidFields, NoneAbove
<1> HIDE DEF m, n
<1>5. /\ IsMach(a) /\ a.top = Dec(m.top) /\ a.cc = m.cc /\ a.out = m.out
      /\ \A q \in Slots : a.st[q] = IF q = Dec(m.top) THEN F.st[d] ELSE m.st[q]
      /\ \A q \in Slots : a.tag[q] <=> (q = Dec(m.top) \/ m.tag[q])
  BY <1>1, <1>3, MachPush
<1> HIDE DEF a
<1>6. n = a
  BY <1>1, <1>3, <1>4, <1>5, MachEq
<1> QED BY <1>6 DEF Mid, m, n, a

\* x87_push makes room, one register up, in the machine that is shown.
LEMMA Push ==
  ASSUME NEW S, Ready(S), CanMove(S), A!Room(Mid(S))
  PROVE  LET T == x87_push(S)
         IN  /\ Ready(T) /\ ~T.pd /\ T.run = S.run
             /\ \E v \in Vals : Mid(T) = A!PushSt(Mid(S), v)
<1> SUFFICES ASSUME NEW T, T = x87_push(S)
             PROVE  /\ Ready(T) /\ ~T.pd /\ T.run = S.run
                    /\ \E v \in Vals : Mid(T) = A!PushSt(Mid(S), v)
  OBVIOUS
<1>1. CASE S.run > 0
  <2> DEFINE F1 == x87_flush_pending_tag(S)
             F2 == x87_flush_deferred_pops(F1)
             F3 == x87_flush_top(F2)
  <2>1. Same(S, F1) /\ ~F1.tpp
    BY FlushTag
  <2>2. Same(S, F2) /\ ~F2.tpp /\ F2.dpc = 0
    BY <2>1, FlushPops DEF Same
  <2>3. Same(S, F3) /\ ~F3.tpp /\ F3.dpc = 0 /\ ~F3.td
    BY <2>2, FlushTop DEF Same
  <2>4. PICK F : /\ F = perm_flush_before_stack_change(F3)
                 /\ Same(S, F) /\ ~F.tpp /\ F.dpc = 0 /\ ~F.td /\ ~F.pd
    BY <2>3, FlushPerm DEF Same
  <2>5. T = [emit_x87_push_fully_deferred(F) EXCEPT !.td = TRUE, !.tpp = TRUE]
    BY <1>1, <2>4 DEF x87_push
  <2>6. T = Rec(F.top, F.tag, F.st, F.cc, Dec(F.w), F.run, F.gv, TRUE, TRUE, F.dpc,
                F.perm, F.pd, F.out)
    BY ZenonT(60), <2>4, <2>5 DEF Same, Ready, TypedState, Rec, emit_x87_push_fully_deferred
  <2>7. F.w \in Slots /\ F.perm = Identity /\ F.top = F.w
    BY <2>4 DEF Same, Ready, TypedState
  <2>8. Dec(F.w) \in Slots /\ Inc(Dec(F.w)) = F.w
    BY <2>7, Stack
  <2>9. ~F.tag[Dec(F.w)]
    <3>1. ~TagAt(F, F.w)[Dec(F.w)]
      BY <2>4, <2>8, AData DEF Same, Mid, LiveAt, A!Room
    <3> QED BY <3>1, <2>4, <2>8, NoneAbove DEF TagAt
  <2>10. Ready(T)
    BY <1>1, <2>4, <2>6, <2>7, <2>8, <2>9 DEF Same, Ready, TypedState, Rec
  <2>11. Mid(T) = A!PushSt(Mid(F), F.st[Dec(F.w)])
    <3>1. TypedState(F) /\ TypedState(T)
      BY <2>4, <2>10 DEF Same, Ready
    <3>2. T.w = Dec(F.w) /\ T.dpc = 0 /\ T.perm = Identity /\ T.st = F.st /\ T.cc = F.cc
          /\ T.out = F.out /\ T.tag = F.tag /\ T.tpp
      BY <2>4, <2>6, <2>7 DEF Rec
    <3> QED BY <2>4, <2>7, <3>1, <3>2, PushMid
  <2>12. F.st[Dec(F.w)] \in Vals
    BY <2>4, <2>8 DEF Same, Ready, TypedState
  <2>13. ~T.pd /\ T.run = S.run
    BY <2>4, <2>6 DEF Same, Rec
  <2> QED BY <2>4, <2>10, <2>11, <2>12, <2>13 DEF Same
<1>2. CASE S.run = 0
  <2>1. ~S.pd /\ ~S.tpp /\ S.dpc = 0 /\ S.perm = Identity /\ S.w \in Slots
    BY <1>2 DEF Ready, CanMove, TypedState
  <2> DEFINE f == [S.tag EXCEPT ![Dec(S.w)] = TRUE]
  <2>2. Dec(S.w) \in Slots /\ S.tag \in [Slots -> BOOLEAN] /\ S.st \in [Slots -> Vals]
    BY <2>1, Stack DEF Ready, TypedState
  <2> DEFINE R == Rec(Dec(S.w), S.tag, S.st, S.cc, Dec(S.w), S.run, S.gv, S.td, S.tpp, S.dpc,
                      S.perm, S.pd, S.out)
  <2>0. [S EXCEPT !.w = Dec(S.w)] = Rec(S.top, S.tag, S.st, S.cc, Dec(S.w), S.run, S.gv, S.td,
                 S.tpp, S.dpc, S.perm, S.pd, S.out)
    BY DEF Ready, TypedState, Rec
  <2>90. PICK S1 : S1 = [S EXCEPT !.w = Dec(S.w)]
    OBVIOUS
  <2>91. emit_store_top(S1) = R
    BY <2>0, <2>90, StoreTop
  <2>92. T = emit_x87_tag_clear(emit_store_top([S EXCEPT !.w = Dec(S.w)]))
    BY <1>2 DEF x87_push, emit_x87_push
  <2>93. T = emit_x87_tag_clear(R)
    BY <2>90, <2>91, <2>92
  <2>3. T = Rec(Dec(S.w), f, S.st, S.cc, Dec(S.w), S.run, S.gv, S.td, S.tpp, S.dpc,
                S.perm, S.pd, S.out)
    BY <2>93 DEF Rec, emit_x87_tag_clear
  <2>4. f \in [Slots -> BOOLEAN]
    BY <2>2
  <2>5. \A p \in Slots : f[p] <=> (p = Dec(S.w) \/ S.tag[p])
    BY <2>2
  <2> HIDE DEF f
  <2>6. Ready(T)
    BY <1>2, <2>1, <2>2, <2>3, <2>4 DEF Ready, TypedState, Rec
  <2>7. T.w = Dec(S.w) /\ T.dpc = 0 /\ T.perm = Identity /\ T.st = S.st /\ T.cc = S.cc
        /\ T.out = S.out /\ T.tag = f /\ ~T.tpp /\ ~T.pd /\ T.run = S.run
    BY <2>1, <2>3 DEF Rec
  <2>8. Mid(T) = A!PushSt(Mid(S), S.st[Dec(S.w)])
    BY <2>1, <2>2, <2>5, <2>6, <2>7, PushMid DEF Ready
  <2> QED BY <2>2, <2>6, <2>7, <2>8
<1>3. S.run > 0 \/ S.run = 0
  BY DEF Ready, TypedState
<1> QED BY <1>1, <1>2, <1>3

\* One more pop adds the register just popped to those above TOP.
LEMMA AboveStep ==
  ASSUME NEW t \in Slots, NEW n \in 0 .. NSlots - 1, NEW p \in Slots
  PROVE  p \in Above(Inc(t), n + 1) <=> (p = t \/ p \in Above(t, n))
BY NSlotsAssumption DEF Above, Inc, Depth, Slots

\* While TOP's own register is in use not every register has been popped.
LEMMA AboveTop ==
  ASSUME NEW t \in Slots, NEW n \in 0 .. NSlots, t \notin Above(t, n)
  PROVE  n \in 0 .. NSlots - 1
BY NSlotsAssumption DEF Above, Slots

\* A state that differs from F by TOP's register being empty shows a pop.
LEMMA PopMid ==
  ASSUME NEW F, NEW P, NEW t \in Slots, F.w = t, TypedState(F), TypedState(P),
         F.perm = Identity, P.w = Inc(t), P.perm = Identity, P.st = F.st,
         P.cc = F.cc, P.out = F.out,
         \A p \in Slots :
           ((P.tpp /\ p = Inc(t)) \/ (P.tag[p] /\ p \notin Above(Inc(t), P.dpc)))
           <=> (p # t /\ ((F.tpp /\ p = t) \/ (F.tag[p] /\ p \notin Above(t, F.dpc))))
  PROVE  Mid(P) = A!PopSt(Mid(F))
<1> DEFINE d == Inc(t)
           m == LiveAt(F, t)
           n == LiveAt(P, d)
           a == A!PopSt(m)
<1>1. d \in Slots
  BY Stack
<1>2. \A u \in Slots, p \in Slots : Phys(u, Identity[Depth(u, p)]) = p
  BY PhysDepth DEF Identity
<1>3. /\ IsMach(m) /\ m.top = t /\ m.cc = F.cc /\ m.out = F.out
      /\ \A p \in Slots : m.tag[p] <=> ((F.tpp /\ p = t) \/ (F.tag[p] /\ p \notin Above(t, F.dpc)))
      /\ \A p \in Slots : m.st[p] = IF m.tag[p] THEN F.st[p] ELSE NoVal
  BY <1>2, MidFields
<1>4. /\ IsMach(n) /\ n.top = d /\ n.cc = F.cc /\ n.out = F.out
      /\ \A p \in Slots : n.tag[p] <=> ((P.tpp /\ p = d) \/ (P.tag[p] /\ p \notin Above(d, P.dpc)))
      /\ \A p \in Slots : n.st[p] = IF n.tag[p] THEN F.st[p] ELSE NoVal
  BY <1>1, <1>2, MidFields
<1>5. \A p \in Slots : n.tag[p] <=> (p # t /\ m.tag[p])
  BY <1>3, <1>4
<1> HIDE DEF m, n
<1>6. /\ IsMach(a) /\ a.top = Inc(m.top) /\ a.cc = m.cc /\ a.out = m.out
      /\ \A q \in Slots : a.st[q] = IF q = m.top THEN NoVal ELSE m.st[q]
      /\ \A q \in Slots : a.tag[q] <=> (q # m.top /\ m.tag[q])
  BY <1>3, MachPop
<1> HIDE DEF a
<1>7. n = a
  BY <1>1, <1>3, <1>4, <1>5, <1>6, MachEq
<1> QED BY <1>7 DEF Mid, m, n, a

\* ST(0) is in use by its tag in memory, or by one that is pending.
LEMMA FullTag ==
  ASSUME NEW S, Ready(S), A!Full(Mid(S), 0)
  PROVE  S.tpp \/ (S.tag[S.w] /\ S.w \notin Above(S.w, S.dpc))
<1>1. S.w \in Slots /\ TypedState(S)
  BY DEF Ready, TypedState
<1>2. Mid(S).tag[S.w] <=> (S.tpp \/ (S.tag[S.w] /\ S.w \notin Above(S.w, S.dpc)))
  BY <1>1, MidFields DEF Mid
<1>3. A!Full(Mid(S), 0) <=> Mid(S).tag[S.w]
  BY <1>1, AData, Neighbours DEF A!Full, Mid, LiveAt
<1> QED BY <1>2, <1>3

\* What the three ways x87_pop can go leave, as the step from S they are.
LEMMA PopCancels ==
  ASSUME NEW S, Ready(S), S.run > 0, ~S.pd, S.tpp, NEW T,
         T = Rec(Inc(S.w), S.tag, S.st, S.cc, Inc(S.w), S.run, S.gv, FALSE, FALSE, S.dpc, S.perm,
                 S.pd, S.out)
  PROVE  Ready(T) /\ ~T.pd /\ T.run = S.run /\ Mid(T) = A!PopSt(Mid(S))
<1>1. /\ S.w \in Slots /\ Inc(S.w) \in Slots /\ TypedState(S) /\ S.perm = Identity
      /\ Inc(S.w) # S.w /\ S.dpc = 0 /\ ~S.tag[S.w]
  BY Stack, Neighbours DEF Ready, TypedState
<1>2. Ready(T)
  BY <1>1 DEF Ready, TypedState, Rec
<1>3. /\ T.w = Inc(S.w) /\ T.perm = Identity /\ T.st = S.st /\ T.cc = S.cc /\ T.out = S.out
      /\ ~T.tpp /\ T.tag = S.tag /\ T.dpc = 0 /\ ~T.pd /\ T.run = S.run
  BY <1>1 DEF Rec
<1>4. \A p \in Slots :
         ((T.tpp /\ p = Inc(S.w)) \/ (T.tag[p] /\ p \notin Above(Inc(S.w), T.dpc)))
         <=> (p # S.w /\ ((S.tpp /\ p = S.w) \/ (S.tag[p] /\ p \notin Above(S.w, S.dpc))))
  BY <1>1, <1>3, NoneAbove
<1>90. TypedState(T)
  BY <1>2 DEF Ready
<1>5. Mid(T) = A!PopSt(Mid(S))
  BY ZenonT(60), <1>1, <1>90, <1>3, <1>4, PopMid
<1> QED BY <1>2, <1>3, <1>5

\* A pop within a run only counts.
LEMMA PopCounts ==
  ASSUME NEW S, Ready(S), S.run > 0, ~S.pd, ~S.tpp, A!Full(Mid(S), 0), NEW T,
         T = Rec(S.top, S.tag, S.st, S.cc, Inc(S.w), S.run, S.gv, TRUE, S.tpp, S.dpc + 1, S.perm,
                 S.pd, S.out)
  PROVE  Ready(T) /\ ~T.pd /\ T.run = S.run /\ Mid(T) = A!PopSt(Mid(S))
<1>1. /\ S.w \in Slots /\ Inc(S.w) \in Slots /\ TypedState(S) /\ S.perm = Identity
      /\ Inc(S.w) # S.w
  BY Stack, Neighbours DEF Ready, TypedState
<1>2. S.dpc \in 0 .. NSlots - 1
  BY <1>1, FullTag, AboveTop DEF TypedState
<1>3. S.dpc + 1 \in 0 .. NSlots
  BY <1>2, NSlotsAssumption
<1>4. Ready(T)
  BY <1>1, <1>3 DEF Ready, TypedState, Rec
<1>5. /\ T.w = Inc(S.w) /\ T.perm = Identity /\ T.st = S.st /\ T.cc = S.cc /\ T.out = S.out
      /\ ~T.tpp /\ T.tag = S.tag /\ T.dpc = S.dpc + 1 /\ ~T.pd /\ T.run = S.run
  BY <1>1 DEF Rec
<1>6. Mid(T) = A!PopSt(Mid(S))
  BY <1>1, <1>2, <1>4, <1>5, AboveStep, PopMid DEF Ready
<1> QED BY <1>4, <1>5, <1>6

\* A pop outside a run is done at once.
LEMMA PopAtOnce ==
  ASSUME NEW S, Ready(S), S.run = 0, ~S.pd, NEW f \in [Slots -> BOOLEAN],
         \A p \in Slots : f[p] <=> (p # S.w /\ S.tag[p]), NEW T,
         T = Rec(Inc(S.w), f, S.st, S.cc, Inc(S.w), S.run, S.gv, FALSE, S.tpp, S.dpc, S.perm,
                 S.pd, S.out)
  PROVE  Ready(T) /\ ~T.pd /\ T.run = S.run /\ Mid(T) = A!PopSt(Mid(S))
<1>1. /\ S.w \in Slots /\ Inc(S.w) \in Slots /\ TypedState(S) /\ S.perm = Identity
      /\ Inc(S.w) # S.w /\ S.dpc = 0 /\ ~S.tpp
  BY Stack, Neighbours DEF Ready, TypedState
<1>3. Ready(T)
  BY <1>1 DEF Ready, TypedState, Rec
<1>4. /\ T.w = Inc(S.w) /\ T.perm = Identity /\ T.st = S.st /\ T.cc = S.cc /\ T.out = S.out
      /\ ~T.tpp /\ T.tag = f /\ T.dpc = 0 /\ ~T.pd /\ T.run = S.run
  BY <1>1 DEF Rec
<1>5. \A p \in Slots :
         ((T.tpp /\ p = Inc(S.w)) \/ (T.tag[p] /\ p \notin Above(Inc(S.w), T.dpc)))
         <=> (p # S.w /\ ((S.tpp /\ p = S.w) \/ (S.tag[p] /\ p \notin Above(S.w, S.dpc))))
  BY <1>1, <1>4, NoneAbove
<1>90. TypedState(T)
  BY <1>3 DEF Ready
<1>6. Mid(T) = A!PopSt(Mid(S))
  BY ZenonT(60), <1>1, <1>90, <1>4, <1>5, PopMid
<1> QED BY <1>3, <1>4, <1>6

\* x87_pop shows a pop, whichever of the three ways it goes.
LEMMA Pop ==
  ASSUME NEW S, Ready(S), CanMove(S), A!Full(Mid(S), 0)
  PROVE  LET T == x87_pop(S)
         IN  Ready(T) /\ ~T.pd /\ T.run = S.run /\ Mid(T) = A!PopSt(Mid(S))
<1> SUFFICES ASSUME NEW T, T = x87_pop(S)
             PROVE  Ready(T) /\ ~T.pd /\ T.run = S.run /\ Mid(T) = A!PopSt(Mid(S))
  OBVIOUS
<1>1. CASE S.run > 0
  <2>1. PICK F : /\ F = perm_flush_before_stack_change(S)
                 /\ Same(S, F) /\ ~F.pd /\ F.tpp = S.tpp /\ F.td = S.td /\ F.dpc = S.dpc
    BY FlushPerm
  <2>2. Ready(F) /\ F.run > 0 /\ ~F.pd /\ A!Full(Mid(F), 0) /\ Mid(F) = Mid(S) /\ F.run = S.run
    BY <1>1, <2>1 DEF Same
  <2>3. PICK P : P = emit_x87_pop_top_only(F)
    OBVIOUS
  <2>4. P = Rec(F.top, F.tag, F.st, F.cc, Inc(F.w), F.run, F.gv, F.td, F.tpp, F.dpc, F.perm,
                F.pd, F.out)
    BY <2>2, <2>3 DEF Ready, TypedState, Rec, emit_x87_pop_top_only
  <2>5. T = IF F.tpp /\ F.td THEN [P EXCEPT !.tpp = FALSE, !.td = FALSE]
            ELSE IF F.tpp
            THEN [emit_store_top(P) EXCEPT !.tpp = FALSE, !.td = FALSE]
            ELSE [P EXCEPT !.dpc = F.dpc + 1, !.td = TRUE]
    BY <1>1, <2>1, <2>3 DEF x87_pop
  <2>6. CASE F.tpp
    <3>1. T = Rec(Inc(F.w), F.tag, F.st, F.cc, Inc(F.w), F.run, F.gv, FALSE, FALSE, F.dpc, F.perm,
                  F.pd, F.out)
      <4>1. CASE F.td
        <5>1. F.top = Inc(F.w)
          BY <2>2, <2>6, <4>1 DEF Ready
        <5> QED BY <2>4, <2>5, <2>6, <4>1, <5>1 DEF Rec
      <4>2. CASE ~F.td
        <5>1. PICK R : R = emit_store_top(P)
          OBVIOUS
        <5>2. R = Rec(Inc(F.w), F.tag, F.st, F.cc, Inc(F.w), F.run, F.gv, F.td, F.tpp, F.dpc,
                      F.perm, F.pd, F.out)
          BY <2>4, <5>1, StoreTop
        <5>3. T = [R EXCEPT !.tpp = FALSE, !.td = FALSE]
          BY <2>5, <2>6, <4>2, <5>1
        <5> QED BY <5>2, <5>3 DEF Rec
      <4> QED BY <4>1, <4>2
    <3> QED BY <2>2, <2>6, <3>1, PopCancels
  <2>7. CASE ~F.tpp
    <3>1. T = [P EXCEPT !.dpc = F.dpc + 1, !.td = TRUE]
      BY <2>5, <2>7
    <3>2. T = Rec(F.top, F.tag, F.st, F.cc, Inc(F.w), F.run, F.gv, TRUE, F.tpp, F.dpc + 1, F.perm,
                  F.pd, F.out)
      BY <2>4, <3>1 DEF Rec
    <3> QED BY <2>2, <2>7, <3>2, PopCounts
  <2> QED BY <2>6, <2>7
<1>2. CASE S.run = 0
  <2>1. ~S.pd
    BY <1>2 DEF CanMove
  <2> DEFINE f == [S.tag EXCEPT ![S.w] = FALSE]
  <2>2. f \in [Slots -> BOOLEAN] /\ \A p \in Slots : f[p] <=> (p # S.w /\ S.tag[p])
    BY DEF Ready, TypedState
  <2>3. PICK P : P = [S EXCEPT !.tag[S.w] = FALSE, !.w = Inc(S.w)]
    OBVIOUS
  <2>4. P = Rec(S.top, f, S.st, S.cc, Inc(S.w), S.run, S.gv, S.td, S.tpp, S.dpc, S.perm,
                S.pd, S.out)
    BY <2>3 DEF Ready, TypedState, Rec
  <2> HIDE DEF f
  <2>5. PICK R : R = emit_store_top(P)
    OBVIOUS
  <2>6. R = Rec(Inc(S.w), f, S.st, S.cc, Inc(S.w), S.run, S.gv, S.td, S.tpp, S.dpc, S.perm,
                S.pd, S.out)
    BY <2>4, <2>5, StoreTop
  <2>7. T = [R EXCEPT !.td = FALSE]
    BY <1>2, <2>3, <2>5 DEF x87_pop, emit_x87_pop
  <2>8. T = Rec(Inc(S.w), f, S.st, S.cc, Inc(S.w), S.run, S.gv, FALSE, S.tpp, S.dpc, S.perm,
                S.pd, S.out)
    BY <2>6, <2>7 DEF Rec
  <2> QED BY <1>2, <2>1, <2>2, <2>8, PopAtOnce
<1>3. S.run > 0 \/ S.run = 0
  BY DEF Ready, TypedState
<1> QED BY <1>1, <1>2, <1>3

\* The registers two pops leave behind.
LEMMA TwoPops ==
  ASSUME NEW t \in Slots
  PROVE  /\ Phys(t, 2) = Inc(Inc(t))
         /\ \A p \in Slots : Depth(t, p) >= 2 <=> (p # t /\ p # Inc(t))
BY NSlotsAssumption DEF Phys, Inc, Depth, Slots

\* A state that differs from F by its two topmost registers being empty shows
\* two pops.
LEMMA PopTwoMid ==
  ASSUME NEW F, NEW T, NEW t \in Slots, F.w = t, TypedState(F), TypedState(T),
         F.perm = Identity, ~F.tpp, F.dpc = 0, T.w = Inc(Inc(t)), T.perm = Identity,
         T.st = F.st, T.cc = F.cc, T.out = F.out, ~T.tpp, T.dpc = 0,
         \A p \in Slots : T.tag[p] <=> (F.tag[p] /\ p # t /\ p # Inc(t))
  PROVE  Mid(T) = A!PopSt(A!PopSt(Mid(F)))
<1> DEFINE f == [p \in Slots |-> F.tag[p] /\ p # t]
<1>1. f \in [Slots -> BOOLEAN] /\ \A p \in Slots : f[p] <=> (F.tag[p] /\ p # t)
  BY DEF TypedState
<1>2. Inc(t) \in Slots /\ Inc(Inc(t)) \in Slots
  BY Stack
<1> HIDE DEF f
<1>3. PICK P : P = Rec(F.top, f, F.st, F.cc, Inc(t), F.run, F.gv, F.td, F.tpp, F.dpc, F.perm,
                       F.pd, F.out)
  OBVIOUS
<1>4. TypedState(P)
  BY <1>1, <1>2, <1>3 DEF TypedState, Rec
<1>5. /\ P.w = Inc(t) /\ P.perm = Identity /\ P.st = F.st /\ P.cc = F.cc /\ P.out = F.out
      /\ ~P.tpp /\ P.tag = f /\ P.dpc = 0
  BY <1>3 DEF Rec
<1>6. Mid(P) = A!PopSt(Mid(F))
  <2>1. \A p \in Slots :
           ((P.tpp /\ p = Inc(t)) \/ (P.tag[p] /\ p \notin Above(Inc(t), P.dpc)))
           <=> (p # t /\ ((F.tpp /\ p = t) \/ (F.tag[p] /\ p \notin Above(t, F.dpc))))
    BY <1>1, <1>5, NoneAbove
  <2> QED BY <1>4, <1>5, <2>1, PopMid
<1>7. Mid(T) = A!PopSt(Mid(P))
  <2> DEFINE u == Inc(t)
  <2>1. \A p \in Slots :
           ((T.tpp /\ p = Inc(u)) \/ (T.tag[p] /\ p \notin Above(Inc(u), T.dpc)))
           <=> (p # u /\ ((P.tpp /\ p = u) \/ (P.tag[p] /\ p \notin Above(u, P.dpc))))
    BY <1>1, <1>5, NoneAbove
  <2>2. u \in Slots /\ P.w = u /\ T.w = Inc(u) /\ T.st = P.st /\ T.cc = P.cc /\ T.out = P.out
    BY <1>2, <1>5
  <2> HIDE DEF u
  <2> QED BY <1>4, <1>5, <2>1, <2>2, PopMid
<1> QED BY <1>6, <1>7

\* The new fields x87_pop_n writes keep their types.
LEMMA Retyped ==
  ASSUME NEW F, TypedState(F), NEW f \in [Slots -> BOOLEAN], NEW t \in Slots, NEW w \in Slots,
         NEW td \in BOOLEAN
  PROVE  TypedState(Rec(t, f, F.st, F.cc, w, F.run, F.gv, td, F.tpp, F.dpc, F.perm, F.pd, F.out))
<1> SUFFICES ASSUME NEW T, T = Rec(t, f, F.st, F.cc, w, F.run, F.gv, td, F.tpp, F.dpc, F.perm,
                                   F.pd, F.out)
             PROVE  TypedState(T)
  OBVIOUS
<1> QED BY DEF TypedState, Rec

\* x87_pop_n(2) shows two pops.
LEMMA PopTwo ==
  ASSUME NEW S, Ready(S), CanMove(S)
  PROVE  LET T == x87_pop_n(S, 2)
         IN  Ready(T) /\ ~T.pd /\ T.run = S.run /\ Mid(T) = A!PopSt(A!PopSt(Mid(S)))
<1> SUFFICES ASSUME NEW T, T = x87_pop_n(S, 2)
             PROVE  Ready(T) /\ ~T.pd /\ T.run = S.run /\ Mid(T) = A!PopSt(A!PopSt(Mid(S)))
  OBVIOUS
<1>1. PICK F1 : F1 = x87_flush_tags(S) /\ Same(S, F1) /\ ~F1.tpp /\ F1.dpc = 0 /\ F1.pd = S.pd
  BY FlushTags
<1>2. PICK F : /\ F = IF S.run > 0 THEN perm_flush_before_stack_change(F1) ELSE F1
               /\ Same(S, F) /\ ~F.tpp /\ F.dpc = 0 /\ ~F.pd
  <2>1. CASE S.run > 0
    BY <1>1, <2>1, FlushPerm DEF Same
  <2>2. CASE ~(S.run > 0)
    BY <1>1, <2>2 DEF CanMove
  <2> QED BY <2>1, <2>2
<1>3. /\ F.w \in Slots /\ TypedState(F) /\ F.perm = Identity
      /\ Inc(F.w) \in Slots /\ Inc(Inc(F.w)) \in Slots /\ Mid(F) = Mid(S) /\ F.run = S.run
  BY <1>2, Stack DEF Same, Ready, TypedState
<1> DEFINE f == [p \in Slots |-> F.tag[p] /\ Depth(F.w, p) >= 2]
<1>4. /\ f \in [Slots -> BOOLEAN]
      /\ \A p \in Slots : f[p] <=> (F.tag[p] /\ p # F.w /\ p # Inc(F.w))
  BY <1>3, TwoPops DEF TypedState
<1>90. f \in [Slots -> BOOLEAN]
  BY <1>4
<1>91. F.top \in Slots
  BY <1>3 DEF TypedState
<1>5. PICK P : P = emit_x87_pop_n_deferred(F, 2)
  OBVIOUS
<1>6. P = Rec(F.top, f, F.st, F.cc, Inc(Inc(F.w)), F.run, F.gv, F.td, F.tpp, F.dpc, F.perm,
              F.pd, F.out)
  <2>1. P = [F EXCEPT !.tag = f, !.w = Inc(Inc(F.w))]
    BY <1>3, <1>5, TwoPops DEF emit_x87_pop_n_deferred
  <2> HIDE DEF f
  <2> QED BY <1>3, <1>4, <2>1 DEF TypedState, Rec
<1> HIDE DEF f
<1>7. CASE S.run > 0
  <2>1. T = [P EXCEPT !.td = TRUE]
    BY <1>1, <1>2, <1>5, <1>7 DEF x87_pop_n
  <2>2. T = Rec(F.top, f, F.st, F.cc, Inc(Inc(F.w)), F.run, F.gv, TRUE, F.tpp, F.dpc, F.perm,
                F.pd, F.out)
    BY <1>6, <2>1 DEF Rec
  <2>3. TypedState(T)
    BY <1>3, <1>90, <2>2, <1>91, Retyped
  <2>4. /\ T.w = Inc(Inc(F.w)) /\ T.perm = Identity /\ T.st = F.st /\ T.cc = F.cc /\ T.out = F.out
        /\ ~T.tpp /\ T.dpc = 0 /\ T.tag = f /\ T.run = S.run /\ ~T.pd /\ T.td /\ T.gv = F.gv
    BY <1>2, <1>3, <2>2 DEF Rec
  <2>5. Ready(T)
    BY <1>2, <1>3, <2>3, <2>4 DEF Same, Ready
  <2>6. Mid(T) = A!PopSt(A!PopSt(Mid(F)))
    BY <1>2, <1>3, <1>4, <2>3, <2>4, PopTwoMid
  <2> QED BY <1>3, <2>4, <2>5, <2>6
<1>8. CASE ~(S.run > 0)
  <2>1. PICK R : R = emit_store_top(P)
    OBVIOUS
  <2>2. R = Rec(Inc(Inc(F.w)), f, F.st, F.cc, Inc(Inc(F.w)), F.run, F.gv, F.td, F.tpp, F.dpc,
                F.perm, F.pd, F.out)
    BY <1>6, <2>1, StoreTop
  <2>3. T = [R EXCEPT !.td = FALSE]
    BY <1>1, <1>2, <1>5, <1>8, <2>1 DEF x87_pop_n, emit_x87_pop_n
  <2>4. T = Rec(Inc(Inc(F.w)), f, F.st, F.cc, Inc(Inc(F.w)), F.run, F.gv, FALSE, F.tpp, F.dpc,
                F.perm, F.pd, F.out)
    BY <2>2, <2>3 DEF Rec
  <2>5. TypedState(T)
    BY <1>3, <1>90, <2>4, <1>91, Retyped
  <2>6. /\ T.w = Inc(Inc(F.w)) /\ T.perm = Identity /\ T.st = F.st /\ T.cc = F.cc /\ T.out = F.out
        /\ ~T.tpp /\ T.dpc = 0 /\ T.tag = f /\ T.run = S.run /\ ~T.pd /\ ~T.td /\ T.gv = F.gv
        /\ T.top = T.w
    BY <1>2, <1>3, <2>4 DEF Rec
  <2>7. Ready(T)
    BY <1>2, <1>3, <2>5, <2>6 DEF Same, Ready
  <2>8. Mid(T) = A!PopSt(A!PopSt(Mid(F)))
    BY <1>2, <1>3, <1>4, <2>5, <2>6, PopTwoMid
  <2> QED BY <1>3, <2>6, <2>7, <2>8
<1> QED BY <1>7, <1>8

-----------------------------------------------------------------------------

\* resolve_depth follows the permutation, which names each register once.
LEMMA Resolve ==
  ASSUME NEW S, Ready(S), NEW d \in Slots
  PROVE  /\ resolve_depth(S, d) = S.perm[d] /\ S.perm[d] \in Slots
         /\ S.w \in Slots /\ Phys(S.w, S.perm[d]) \in Slots /\ Phys(S.w, d) \in Slots
         /\ \A p \in Slots : Phys(S.w, S.perm[Depth(S.w, p)]) = Phys(S.w, S.perm[d])
                             <=> p = Phys(S.w, d)
<1>1. S.w \in Slots /\ S.perm \in [Slots -> Slots]
      /\ \A i, j \in Slots : S.perm[i] = S.perm[j] => i = j
  BY DEF Ready, TypedState, Perms
<1>2. resolve_depth(S, d) = S.perm[d]
  BY DEF resolve_depth, Ready, Identity
<1>3. ASSUME NEW p \in Slots
      PROVE  Phys(S.w, S.perm[Depth(S.w, p)]) = Phys(S.w, S.perm[d]) <=> p = Phys(S.w, d)
  <2>1. Depth(S.w, p) \in Slots /\ Phys(S.w, Depth(S.w, p)) = p /\ Depth(S.w, Phys(S.w, d)) = d
    BY <1>1, PhysDepth
  <2>2. \A a, b \in Slots : Phys(S.w, a) = Phys(S.w, b) => a = b
    <3>1. \A a \in Slots : Depth(S.w, Phys(S.w, a)) = a
      BY <1>1, PhysDepth
    <3> QED BY <3>1
  <2>3. S.perm[Depth(S.w, p)] \in Slots /\ S.perm[d] \in Slots
    BY <1>1, <2>1
  <2> QED BY <1>1, <2>1, <2>2, <2>3
<1> QED BY <1>1, <1>2, <1>3, PhysDepth

\* Reading a register at its resolved depth reads what ST(d) is shown to
\* hold.
LEMMA LoadSt ==
  ASSUME NEW S, Ready(S), NEW d \in Slots, A!Full(Mid(S), d)
  PROVE  /\ emit_load_st(S, resolve_depth(S, d)) = A!St(Mid(S), d)
         /\ A!St(Mid(S), d) \in Vals
<1> DEFINE m == LiveAt(S, S.w)
           q == Phys(S.w, d)
<1>1. TypedState(S) /\ S.w \in Slots /\ q \in Slots /\ Depth(S.w, q) = d
  BY PhysDepth DEF Ready, TypedState
<1>2. A!Full(m, d) /\ m.top = S.w
  BY DEF Mid, LiveAt
<1>3. m.tag[q] /\ A!St(m, d) = m.st[q]
  BY <1>2, AData DEF A!Full, A!St
<1>4. m.st[q] = S.st[Phys(S.w, S.perm[Depth(S.w, q)])] /\ m.st[q] \in Vals
  BY <1>1, <1>3, MidFields
<1>5. emit_load_st(S, resolve_depth(S, d)) = S.st[Phys(S.w, S.perm[d])]
  BY Resolve DEF emit_load_st
<1> QED BY <1>1, <1>3, <1>4, <1>5 DEF Mid

\* Writing a register at its resolved depth writes ST(d) of the machine
\* shown.
LEMMA StoreSt ==
  ASSUME NEW S, Ready(S), NEW d \in Slots, A!Full(Mid(S), d), NEW v \in Vals
  PROVE  LET T == emit_store_st(S, resolve_depth(S, d), v)
         IN  /\ Ready(T) /\ T.run = S.run /\ T.pd = S.pd /\ T.td = S.td /\ T.tpp = S.tpp
             /\ T.dpc = S.dpc /\ Mid(T) = A!Set(Mid(S), d, v)
<1> SUFFICES ASSUME NEW T, T = emit_store_st(S, resolve_depth(S, d), v)
             PROVE  /\ Ready(T) /\ T.run = S.run /\ T.pd = S.pd /\ T.td = S.td /\ T.tpp = S.tpp
                    /\ T.dpc = S.dpc /\ Mid(T) = A!Set(Mid(S), d, v)
  OBVIOUS
<1> DEFINE m == LiveAt(S, S.w)
           n == LiveAt(T, S.w)
           a == A!Set(m, d, v)
           x == Phys(S.w, S.perm[d])
           g == [S.st EXCEPT ![x] = v]
<1>1. /\ TypedState(S) /\ S.w \in Slots /\ x \in Slots /\ Phys(S.w, d) \in Slots
      /\ \A p \in Slots : Phys(S.w, S.perm[Depth(S.w, p)]) = x <=> p = Phys(S.w, d)
      /\ \A p \in Slots : Phys(S.w, S.perm[Depth(S.w, p)]) \in Slots
  BY ZenonT(60), Resolve, PhysDepth DEF Ready, TypedState, Perms
<1>2. g \in [Slots -> Vals] /\ \A q \in Slots : g[q] = IF q = x THEN v ELSE S.st[q]
  BY <1>1 DEF TypedState
<1>3. T = [S EXCEPT !.st = g]
  BY Resolve, <1>1 DEF emit_store_st, TypedState
<1> HIDE DEF g, x
<1>4. T = Rec(S.top, S.tag, g, S.cc, S.w, S.run, S.gv, S.td, S.tpp, S.dpc, S.perm, S.pd, S.out)
  BY <1>1, <1>3 DEF TypedState, Rec
<1>5. Ready(T)
  BY <1>2, <1>4 DEF Ready, TypedState, Rec
<1>6. /\ T.w = S.w /\ T.st = g /\ T.cc = S.cc /\ T.out = S.out /\ T.tag = S.tag /\ T.perm = S.perm
      /\ T.run = S.run /\ T.pd = S.pd /\ T.td = S.td /\ T.tpp = S.tpp /\ T.dpc = S.dpc
  BY <1>4 DEF Rec
<1>7. /\ IsMach(m) /\ m.top = S.w /\ m.cc = S.cc /\ m.out = S.out
      /\ \A p \in Slots : m.tag[p]
               <=> ((S.tpp /\ p = S.w) \/ (S.tag[p] /\ p \notin Above(S.w, S.dpc)))
      /\ \A p \in Slots : m.st[p] = IF m.tag[p]
               THEN S.st[Phys(S.w, S.perm[Depth(S.w, p)])] ELSE NoVal
  BY <1>1, MidFields
<1>8. /\ IsMach(n) /\ n.top = S.w /\ n.cc = S.cc /\ n.out = S.out
      /\ \A p \in Slots : n.tag[p]
               <=> ((S.tpp /\ p = S.w) \/ (S.tag[p] /\ p \notin Above(S.w, S.dpc)))
      /\ \A p \in Slots : n.st[p] = IF n.tag[p] THEN g[Phys(S.w, S.perm[Depth(S.w, p)])] ELSE NoVal
  <2>1. TypedState(T)
    BY <1>5 DEF Ready
  <2>2. /\ IsMach(n) /\ n.top = S.w /\ n.cc = T.cc /\ n.out = T.out
        /\ \A p \in Slots : n.tag[p]
                 <=> ((T.tpp /\ p = S.w) \/ (T.tag[p] /\ p \notin Above(S.w, T.dpc)))
        /\ \A p \in Slots : n.st[p] = IF n.tag[p]
                 THEN T.st[Phys(S.w, T.perm[Depth(S.w, p)])] ELSE NoVal
    BY <1>1, <2>1, MidFields, SMTT(60)
  <2> HIDE DEF n
  <2> QED BY <1>6, <2>2
<1>9. m.tag[Phys(S.w, d)]
  BY AData DEF A!Full, Mid, LiveAt
<1> HIDE DEF m, n
<1>10. /\ IsMach(a) /\ a.top = m.top /\ a.tag = m.tag /\ a.cc = m.cc /\ a.out = m.out
       /\ \A q \in Slots : a.st[q] = IF q = Phys(m.top, d) THEN v ELSE m.st[q]
  BY <1>7, MachSet DEF Held
<1> HIDE DEF a
<1>11. \A p \in Slots : (n.tag[p] <=> a.tag[p]) /\ n.st[p] = a.st[p]
  BY <1>1, <1>2, <1>7, <1>8, <1>9, <1>10
<1>12. n = a
  BY <1>7, <1>8, <1>10, <1>11, MachEq
<1> QED BY <1>5, <1>6, <1>12 DEF Mid, m, n, a

-----------------------------------------------------------------------------

\* Between instructions: Consistent, except that a permutation may be pending
\* without a run (an FXCH the fusion has absorbed).
Idle(S) ==
  /\ TypedState(S)
  /\ S.gv => S.run > 0
  /\ ~S.gv => ~S.td /\ ~S.tpp /\ S.dpc = 0
  /\ ~S.pd => S.perm = Identity
  /\ S.tpp => S.dpc = 0 /\ ~S.tag[S.w]
  /\ S.tpp /\ S.td => S.top = Inc(S.w)
  /\ S.gv /\ ~S.td => S.top = S.w

\* x87_begin loads TOP, or finds it loaded, and shows what memory and cache
\* held.
LEMMA Begin ==
  ASSUME NEW S, Idle(S)
  PROVE  LET T == x87_begin(S)
         IN  /\ Ready(T) /\ T.run = S.run /\ T.pd = S.pd /\ Mid(T) = Live(S)
             /\ T.tpp = S.tpp /\ T.td = S.td /\ T.dpc = S.dpc
<1> SUFFICES ASSUME NEW T, T = x87_begin(S)
             PROVE  /\ Ready(T) /\ T.run = S.run /\ T.pd = S.pd /\ Mid(T) = Live(S)
                    /\ T.tpp = S.tpp /\ T.td = S.td /\ T.dpc = S.dpc
  OBVIOUS
<1>0. TypedState(S) /\ S.run \in Nat /\ S.gv \in BOOLEAN
  BY DEF Idle, TypedState
<1>1. CASE S.gv
  <2>1. T = S
    BY <1>1 DEF x87_begin, Idle
  <2>90. S.run > 0 /\ S.gv = (S.run > 0)
    BY <1>0, <1>1 DEF Idle
  <2>91. S.run # 0
    BY <1>0, <2>90
  <2>2. Ready(S)
    BY <1>1, <2>90, <2>91 DEF Idle, Ready
  <2>3. Mid(S) = Live(S)
    BY <1>1 DEF Mid, Live, LiveTop
  <2> QED BY <2>1, <2>2, <2>3
<1>2. CASE ~S.gv
  <2>1. PICK L : L = emit_load_top(S)
    OBVIOUS
  <2>2. L = Rec(S.top, S.tag, S.st, S.cc, S.top, S.run, S.gv, S.td, S.tpp, S.dpc, S.perm, S.pd,
                S.out)
    BY <1>0, <2>1 DEF emit_load_top, TypedState, Rec
  <2> DEFINE b == S.run > 0
  <2>3. b \in BOOLEAN
    OBVIOUS
  <2>4. T = [L EXCEPT !.gv = b]
    BY <1>2, <2>1 DEF x87_begin
  <2>92. S.run = 0 \/ b
    BY <1>0
  <2>93. b <=> S.run > 0
    OBVIOUS
  <2> HIDE DEF b
  <2>5. T = Rec(S.top, S.tag, S.st, S.cc, S.top, S.run, b, S.td, S.tpp, S.dpc, S.perm, S.pd, S.out)
    BY <2>2, <2>4 DEF Rec
  <2>6. TypedState(T)
    BY <1>0, <2>3, <2>5 DEF TypedState, Rec
  <2>7. /\ T.w = S.top /\ T.top = S.top /\ T.st = S.st /\ T.cc = S.cc /\ T.out = S.out
        /\ T.tag = S.tag
        /\ T.perm = S.perm /\ T.run = S.run /\ T.pd = S.pd /\ T.td = S.td /\ T.tpp = S.tpp
        /\ T.dpc = S.dpc /\ T.gv = b
    BY <2>5 DEF Rec
  <2>8. Ready(T)
    BY <1>2, <2>3, <2>6, <2>7, <2>93 DEF Idle, Ready
  <2>9. TagAt(T, S.top) = TagAt(S, S.top)
    BY <2>7 DEF TagAt
  <2>10. StAt(T, S.top) = StAt(S, S.top)
    BY <2>7, <2>9 DEF StAt
  <2>11. Mid(T) = Live(S)
    BY <1>2, <2>7, <2>9, <2>10 DEF Mid, Live, LiveTop, LiveAt
  <2> QED BY <2>7, <2>8, <2>11
<1> QED BY <1>0, <1>1, <1>2

\* Nothing is deferred.
Clean(S) == ~S.pd /\ ~S.td /\ ~S.tpp /\ S.dpc = 0

\* x87_end shows the same machine and leaves nothing deferred at the end of a
\* run.
LEMMA End ==
  ASSUME NEW S, Ready(S), NEW c
  PROVE  LET T == x87_end(S, c)
         IN  Same(S, T) /\ (S.run <= c => Clean(T))
<1>1. CASE S.run <= c
  <2>1. PICK P : P = perm_flush_before_stack_change(S) /\ Same(S, P) /\ ~P.pd
    BY FlushPerm
  <2>2. PICK G : G = x87_flush_tags(P) /\ Same(S, G) /\ ~G.pd /\ ~G.tpp /\ G.dpc = 0
    BY <2>1, FlushTags DEF Same
  <2>3. PICK H : H = x87_flush_top(G) /\ Same(S, H) /\ ~H.pd /\ ~H.tpp /\ H.dpc = 0 /\ ~H.td
    BY <2>2, FlushTop DEF Same
  <2>4. x87_end(S, c) = H
    BY <1>1, <2>1, <2>2, <2>3 DEF x87_end
  <2> QED BY <2>3, <2>4 DEF Clean
<1>2. CASE ~(S.run <= c)
  BY <1>2 DEF x87_end, Same
<1> QED BY <1>1, <1>2

\* Handing a value to the guest, and setting the condition code.
LEMMA Handed ==
  ASSUME NEW S, Ready(S), NEW v
  PROVE  LET T == [S EXCEPT !.out = v]
         IN  /\ Ready(T) /\ Mid(T) = A!Give(Mid(S), v) /\ T.run = S.run
             /\ T.pd = S.pd /\ T.td = S.td /\ T.tpp = S.tpp /\ T.dpc = S.dpc
<1> SUFFICES ASSUME NEW T, T = Rec(S.top, S.tag, S.st, S.cc, S.w, S.run, S.gv, S.td, S.tpp, S.dpc,
                                   S.perm, S.pd, v)
             PROVE  /\ Ready(T) /\ Mid(T) = A!Give(Mid(S), v) /\ T.run = S.run
                    /\ T.pd = S.pd /\ T.td = S.td /\ T.tpp = S.tpp /\ T.dpc = S.dpc
  BY DEF Ready, TypedState, Rec
<1>1. Ready(T)
  BY DEF Ready, TypedState, Rec
<1>2. /\ T.w = S.w /\ T.st = S.st /\ T.cc = S.cc /\ T.out = v /\ T.tag = S.tag /\ T.perm = S.perm
      /\ T.run = S.run /\ T.pd = S.pd /\ T.td = S.td /\ T.tpp = S.tpp /\ T.dpc = S.dpc
  BY DEF Rec
<1>3. TagAt(T, S.w) = TagAt(S, S.w)
  BY <1>2 DEF TagAt
<1>4. StAt(T, S.w) = StAt(S, S.w)
  BY <1>2, <1>3 DEF StAt
<1>5. Mid(T) = A!Give(Mid(S), v)
  BY <1>2, <1>3, <1>4 DEF Mid, LiveAt, A!Give
<1> QED BY <1>1, <1>2, <1>5

\* Setting the condition code sets it in the machine shown.
LEMMA Compared ==
  ASSUME NEW S, Ready(S), NEW c \in Held
  PROVE  LET T == [S EXCEPT !.cc = c]
         IN  /\ Ready(T) /\ Mid(T) = [Mid(S) EXCEPT !.cc = c] /\ T.run = S.run
             /\ T.pd = S.pd /\ T.td = S.td /\ T.tpp = S.tpp /\ T.dpc = S.dpc
<1> SUFFICES ASSUME NEW T, T = Rec(S.top, S.tag, S.st, c, S.w, S.run, S.gv, S.td, S.tpp, S.dpc,
                                   S.perm, S.pd, S.out)
             PROVE  /\ Ready(T) /\ Mid(T) = [Mid(S) EXCEPT !.cc = c] /\ T.run = S.run
                    /\ T.pd = S.pd /\ T.td = S.td /\ T.tpp = S.tpp /\ T.dpc = S.dpc
  BY DEF Ready, TypedState, Rec
<1>1. Ready(T)
  BY DEF Ready, TypedState, Rec, Held
<1>2. /\ T.w = S.w /\ T.st = S.st /\ T.cc = c /\ T.out = S.out /\ T.tag = S.tag /\ T.perm = S.perm
      /\ T.run = S.run /\ T.pd = S.pd /\ T.td = S.td /\ T.tpp = S.tpp /\ T.dpc = S.dpc
  BY DEF Rec
<1>3. TagAt(T, S.w) = TagAt(S, S.w)
  BY <1>2 DEF TagAt
<1>4. StAt(T, S.w) = StAt(S, S.w)
  BY <1>2, <1>3 DEF StAt
<1>5. Mid(T) = [Mid(S) EXCEPT !.cc = c]
  BY <1>2, <1>3, <1>4 DEF Mid, LiveAt
<1> QED BY <1>1, <1>2, <1>5

-----------------------------------------------------------------------------
(* Facts about the reference machine *)

\* Handing a value over leaves the stack as it is.
LEMMA MachGive ==
  ASSUME NEW a, IsMach(a), NEW v, NEW d
  PROVE  /\ IsMach(A!Give(a, v)) /\ A!Give(a, v).top = a.top
         /\ A!Full(A!Give(a, v), d) = A!Full(a, d) /\ A!Room(A!Give(a, v)) = A!Room(a)
         /\ A!St(A!Give(a, v), d) = A!St(a, d)
BY Hand DEF A!Full, A!Room, A!St

\* Clearing what was handed over is handing over nothing.
LEMMA MachQuiet ==
  ASSUME NEW a
  PROVE  A!Quiet(a) = A!Give(a, NoVal)
BY DEF A!Quiet, A!Give

\* A store to a register changes no tag.
LEMMA MachSetKeeps ==
  ASSUME NEW a, IsMach(a), NEW d \in Slots, NEW v \in Held, NEW e
  PROVE  /\ IsMach(A!Set(a, d, v))
         /\ A!Full(A!Set(a, d, v), e) = A!Full(a, e) /\ A!Room(A!Set(a, d, v)) = A!Room(a)
<1>1. /\ IsMach(A!Set(a, d, v)) /\ A!Set(a, d, v).top = a.top /\ A!Set(a, d, v).tag = a.tag
  BY MachSet
<1> QED BY <1>1 DEF A!Full, A!Room

\* What a state shows is a machine.
LEMMA MidMach ==
  ASSUME NEW S, Ready(S)
  PROVE  IsMach(Mid(S)) /\ Mid(S).top \in Slots
<1>1. TypedState(S) /\ S.w \in Slots
  BY DEF Ready, TypedState
<1>2. IsMach(LiveAt(S, S.w))
  BY <1>1, MidFields
<1> QED BY <1>2 DEF Mid, IsMach

\* A register pushed twice holds what it was given last.
LEMMA SetPush ==
  ASSUME NEW a, IsMach(a), NEW u \in Held, NEW v \in Held
  PROVE  /\ A!Full(A!PushSt(a, u), 0)
         /\ A!Set(A!PushSt(a, u), 0, v) = A!PushSt(a, v)
<1>1. a.top \in Slots /\ Dec(a.top) \in Slots /\ 0 \in Slots /\ Phys(Dec(a.top), 0) = Dec(a.top)
  BY Stack, Neighbours DEF IsMach
<1>2. PICK b : /\ b = A!PushSt(a, u)
               /\ IsMach(b) /\ b.top = Dec(a.top) /\ b.cc = a.cc /\ b.out = a.out
               /\ \A q \in Slots : b.st[q] = IF q = Dec(a.top) THEN u ELSE a.st[q]
               /\ \A q \in Slots : b.tag[q] <=> (q = Dec(a.top) \/ a.tag[q])
  BY MachPush
<1>3. PICK c : /\ c = A!PushSt(a, v)
               /\ IsMach(c) /\ c.top = Dec(a.top) /\ c.cc = a.cc /\ c.out = a.out
               /\ \A q \in Slots : c.st[q] = IF q = Dec(a.top) THEN v ELSE a.st[q]
               /\ \A q \in Slots : c.tag[q] <=> (q = Dec(a.top) \/ a.tag[q])
  BY MachPush
<1> DEFINE e == A!Set(b, 0, v)
<1>4. /\ IsMach(e) /\ e.top = b.top /\ e.tag = b.tag /\ e.cc = b.cc /\ e.out = b.out
      /\ \A q \in Slots : e.st[q] = IF q = Phys(b.top, 0) THEN v ELSE b.st[q]
  <2>1. 0 \in Slots /\ IsMach(b)
    BY <1>1, <1>2
  <2> QED BY <2>1, MachSet
<1> HIDE DEF e
<1>5. e = c
  <2>1. \A q \in Slots : (e.tag[q] <=> c.tag[q]) /\ e.st[q] = c.st[q]
    BY <1>1, <1>2, <1>3, <1>4
  <2> QED BY <1>2, <1>3, <1>4, <2>1, MachEq
<1>6. A!Full(b, 0)
  BY <1>1, <1>2, AData DEF A!Full
<1> QED BY <1>2, <1>3, <1>4, <1>5, <1>6 DEF e

-----------------------------------------------------------------------------
(* Single steps of a translator *)

\* S, all of it, before and after: what has been answered stays answered.
Sound(S) == Idle(S) /\ CanMove(S)

\* T ends a reply to c instructions that makes the machine a.
Done(c, S, T, a) ==
  Ready(T) /\ Mid(T) = a /\ T.run = S.run /\ (S.run <= c => Clean(T))

\* Start shows the machine memory and cache held, with nothing handed over
\* yet.
LEMMA Started ==
  ASSUME NEW S, Idle(S)
  PROVE  LET B == Start(S)
         IN  /\ Ready(B) /\ (CanMove(S) => CanMove(B)) /\ B.run = S.run /\ B.pd = S.pd
             /\ Mid(B) = A!Quiet(Live(S)) /\ IsMach(Mid(B))
             /\ B.tpp = S.tpp /\ B.td = S.td /\ B.dpc = S.dpc
<1>1. PICK B : B = x87_begin(S) /\ Ready(B) /\ B.run = S.run /\ B.pd = S.pd /\ Mid(B) = Live(S)
               /\ B.tpp = S.tpp /\ B.td = S.td /\ B.dpc = S.dpc
  BY Begin
<1> DEFINE C == [B EXCEPT !.out = NoVal]
<1>2. /\ Ready(C) /\ Mid(C) = A!Give(Mid(B), NoVal) /\ C.run = B.run /\ C.pd = B.pd
      /\ C.tpp = B.tpp /\ C.td = B.td /\ C.dpc = B.dpc
  <2>1. Ready(B)
    BY <1>1
  <2> QED BY <2>1, Handed
<1>3. C = Start(S)
  BY <1>1 DEF Start, Give
<1> HIDE DEF C
<1> QED BY <1>1, <1>2, <1>3, MachQuiet, MidMach DEF CanMove

\* Handing a value over, as a step of a translator.
LEMMA GiveStep ==
  ASSUME NEW S, Ready(S), CanMove(S), NEW v
  PROVE  LET T == Give(S, v)
         IN  /\ Ready(T) /\ CanMove(T) /\ Mid(T) = A!Give(Mid(S), v) /\ T.run = S.run
             /\ T.pd = S.pd /\ T.td = S.td /\ T.tpp = S.tpp /\ T.dpc = S.dpc
BY Handed DEF Give, CanMove

\* A store to ST(d), as a step of a translator.
LEMMA SetStep ==
  ASSUME NEW S, Ready(S), CanMove(S), NEW d \in Slots, A!Full(Mid(S), d), NEW v \in Vals
  PROVE  LET T == SetSt(S, d, v)
         IN  /\ Ready(T) /\ CanMove(T) /\ T.run = S.run /\ Mid(T) = A!Set(Mid(S), d, v)
             /\ T.pd = S.pd /\ T.td = S.td /\ T.tpp = S.tpp /\ T.dpc = S.dpc
BY StoreSt DEF SetSt, CanMove

\* A pop, as a step of a translator.
LEMMA PopStep ==
  ASSUME NEW S, Ready(S), CanMove(S), A!Full(Mid(S), 0)
  PROVE  LET T == x87_pop(S)
         IN  /\ Ready(T) /\ CanMove(T) /\ ~T.pd /\ T.run = S.run /\ Mid(T) = A!PopSt(Mid(S))
BY Pop DEF CanMove

\* A push and the store of its value, as a step of a translator.
LEMMA PushStep ==
  ASSUME NEW S, Ready(S), CanMove(S), A!Room(Mid(S)), NEW v \in Vals
  PROVE  LET T == SetSt(x87_push(S), 0, v)
         IN  /\ Ready(T) /\ CanMove(T) /\ ~T.pd /\ T.run = S.run /\ Mid(T) = A!PushSt(Mid(S), v)
<1>1. PICK P : /\ P = x87_push(S) /\ Ready(P) /\ ~P.pd /\ P.run = S.run
               /\ \E u \in Vals : Mid(P) = A!PushSt(Mid(S), u)
  BY Push
<1>2. PICK u \in Vals : Mid(P) = A!PushSt(Mid(S), u)
  BY <1>1
<1>3. CanMove(P) /\ IsMach(Mid(S)) /\ 0 \in Slots /\ u \in Held /\ v \in Held
  BY <1>1, MidMach, NSlotsAssumption DEF CanMove, Slots, Held
<1>4. A!Full(Mid(P), 0) /\ A!Set(Mid(P), 0, v) = A!PushSt(Mid(S), v)
  BY <1>2, <1>3, SetPush
<1> QED BY <1>1, <1>3, <1>4, SetStep

\* A translator reads what ST(d) of the machine holds.
LEMMA ReadStep ==
  ASSUME NEW S, Ready(S), NEW d \in Slots, A!Full(Mid(S), d)
  PROVE  St(S, d) = A!St(Mid(S), d) /\ A!St(Mid(S), d) \in Vals
BY LoadSt DEF St

\* x87_end makes a state with the machine shown an answer.
LEMMA EndStep ==
  ASSUME NEW S, Ready(S), NEW c
  PROVE  Done(c, S, x87_end(S, c), Mid(S))
<1>1. PICK T : T = x87_end(S, c) /\ Same(S, T) /\ (S.run <= c => Clean(T))
  BY End
<1> QED BY <1>1 DEF Same, Done

-----------------------------------------------------------------------------
(* What translators are made of *)

\* PushValue answers with a push of v.
LEMMA PushValueDone ==
  ASSUME NEW B, Ready(B), CanMove(B), A!Room(Mid(B)), NEW v \in Vals
  PROVE  Done(1, B, PushValue(B, v), A!PushSt(Mid(B), v))
<1>1. PICK T : T = SetSt(x87_push(B), 0, v) /\ Ready(T) /\ T.run = B.run
               /\ Mid(T) = A!PushSt(Mid(B), v)
  BY PushStep
<1>2. Done(1, T, x87_end(T, 1), Mid(T))
  BY <1>1, EndStep
<1> QED BY <1>1, <1>2 DEF PushValue, Done

\* Apply answers with a store to ST(d).
LEMMA ApplyDone ==
  ASSUME NEW B, Ready(B), CanMove(B), NEW d \in Slots, A!Full(Mid(B), d), NEW r \in Vals
  PROVE  Done(1, B, Apply(B, d, r), A!Set(Mid(B), d, r))
<1>1. PICK T : T = SetSt(B, d, r) /\ Ready(T) /\ T.run = B.run /\ Mid(T) = A!Set(Mid(B), d, r)
  BY SetStep
<1>2. Done(1, T, x87_end(T, 1), Mid(T))
  BY <1>1, EndStep
<1> QED BY <1>1, <1>2 DEF Apply, Done

\* A store and a pop, as a step of a translator.
LEMMA SetPopStep ==
  ASSUME NEW B, Ready(B), CanMove(B), NEW d \in Slots, A!Full(Mid(B), d), A!Full(Mid(B), 0),
         NEW r \in Vals
  PROVE  LET T == x87_pop(SetSt(B, d, r))
         IN  /\ Ready(T) /\ CanMove(T) /\ ~T.pd /\ T.run = B.run
             /\ Mid(T) = A!PopSt(A!Set(Mid(B), d, r))
<1>1. PICK T : T = SetSt(B, d, r) /\ Ready(T) /\ CanMove(T) /\ T.run = B.run
               /\ Mid(T) = A!Set(Mid(B), d, r)
  BY SetStep
<1>2. A!Full(Mid(T), 0)
  BY <1>1, MidMach, MachSetKeeps DEF Held
<1> QED BY <1>1, <1>2, PopStep

\* ApplyPop answers with a store and a pop.
LEMMA ApplyPopDone ==
  ASSUME NEW B, Ready(B), CanMove(B), NEW i \in Slots, A!Full(Mid(B), i), A!Full(Mid(B), 0),
         NEW r \in Vals
  PROVE  Done(1, B, ApplyPop(B, i, r), A!PopSt(A!Set(Mid(B), i, r)))
<1>1. PICK T : T = x87_pop(SetSt(B, i, r)) /\ Ready(T) /\ T.run = B.run
               /\ Mid(T) = A!PopSt(A!Set(Mid(B), i, r))
  BY SetPopStep
<1>2. Done(1, T, x87_end(T, 1), Mid(T))
  BY <1>1, EndStep
<1> QED BY <1>1, <1>2 DEF ApplyPop, Done

\* The machine an instruction finds, and an operand it may name there.
Now(S) == A!Quiet(Live(S))
Op(a, x) == IF x.mem THEN x.v \in Vals ELSE x.i \in Slots /\ A!Full(a, x.i)

\* What answers from Start(S) answers from S.
LEMMA Lift ==
  ASSUME NEW S, Idle(S), NEW c, NEW T, NEW a, Done(c, Start(S), T, a)
  PROVE  Done(c, S, T, a)
<1>1. Start(S).run = S.run
  BY Started
<1> QED BY <1>1 DEF Done

\* Start finds the machine the instruction is to work on.
LEMMA NowMach ==
  ASSUME NEW S, Sound(S)
  PROVE  LET B == Start(S)
         IN  /\ Idle(S) /\ Ready(B) /\ CanMove(B) /\ Mid(B) = Now(S) /\ IsMach(Now(S))
             /\ B.run = S.run /\ B.pd = S.pd
BY Started DEF Now, Sound

\* A translator reads the operand the instruction names.
LEMMA OperandRead ==
  ASSUME NEW B, Ready(B), NEW x, Op(Mid(B), x)
  PROVE  Operand(B, x) = A!Val(Mid(B), x) /\ A!Val(Mid(B), x) \in Vals
<1>1. CASE x.mem
  BY <1>1 DEF Op, Operand, A!Val
<1>2. CASE ~x.mem
  <2>1. x.i \in Slots /\ A!Full(Mid(B), x.i)
    BY <1>2 DEF Op
  <2>2. St(B, x.i) = A!St(Mid(B), x.i) /\ A!St(Mid(B), x.i) \in Vals
    BY <2>1, ReadStep
  <2> QED BY <1>2, <2>2 DEF Operand, A!Val
<1> QED BY <1>1, <1>2

\* An operand in memory is its value, whatever the machine.
LEMMA Immediate ==
  ASSUME NEW v \in Vals, NEW a, NEW B
  PROVE  Op(a, Mem(v)) /\ A!Val(a, Mem(v)) = v /\ Operand(B, Mem(v)) = v
BY DEF Op, Mem, A!Val, Operand

\* Subtraction, either way round, stays within the values.
LEMMA SubRType ==
  ASSUME NEW a \in Vals, NEW b \in Vals, NEW rev
  PROVE  SubR(rev, a, b) \in Vals
BY ValsAssumption DEF SubR

\* So does arithmetic of every kind.
LEMMA ArithType ==
  ASSUME NEW a \in Vals, NEW b \in Vals, NEW k
  PROVE  Arith(k, a, b) \in Vals
<1>1. SubR(k = "subr", a, b) \in Vals /\ Add(a, b) \in Vals
  BY SubRType, ValsAssumption
<1> QED BY <1>1 DEF Arith

-----------------------------------------------------------------------------
(* Loads *)

\* FLDZ, FLD1, the other constants, FILD and FBLD push their value.
LEMMA Loads ==
  ASSUME NEW S, Sound(S), A!Room(Now(S)), NEW v \in Vals
  PROVE  /\ Done(1, S, translate_fldz(S), A!PushSt(Now(S), Zero))
         /\ Done(1, S, translate_fld1(S), A!PushSt(Now(S), One))
         /\ Done(1, S, translate_fld_const(S, v), A!PushSt(Now(S), v))
         /\ Done(1, S, translate_fild(S, v), A!PushSt(Now(S), v))
         /\ Done(1, S, translate_fbld(S, v), A!PushSt(Now(S), v))
<1>1. ASSUME NEW u \in Vals
      PROVE  Done(1, S, PushValue(Start(S), u), A!PushSt(Now(S), u))
  <2>1. PICK B : B = Start(S) /\ Ready(B) /\ CanMove(B) /\ Mid(B) = Now(S)
    BY NowMach
  <2>2. Done(1, B, PushValue(B, u), A!PushSt(Now(S), u))
    BY <2>1, PushValueDone
  <2> QED BY <2>1, <2>2, Lift DEF Sound
<1>2. Zero \in Vals /\ One \in Vals
  BY ValsAssumption
<1> QED BY <1>1, <1>2 DEF translate_fldz, translate_fld1, translate_fld_const,
                        translate_fild, translate_fbld

\* FLD pushes its operand, a register counted before the push.
LEMMA FldDone ==
  ASSUME NEW S, Sound(S), A!Room(Now(S)), NEW x, Op(Now(S), x)
  PROVE  Done(1, S, translate_fld(S, x), A!Fld(Now(S), x))
<1>1. PICK B : B = Start(S) /\ Ready(B) /\ CanMove(B) /\ Mid(B) = Now(S)
  BY NowMach
<1>2. PICK v \in Vals : v = Operand(B, x) /\ v = A!Val(Now(S), x)
  BY <1>1, OperandRead
<1>3. Done(1, B, PushValue(B, v), A!PushSt(Now(S), v))
  BY <1>1, PushValueDone
<1>4. Done(1, S, PushValue(B, v), A!PushSt(Now(S), v))
  BY <1>1, <1>3, Lift DEF Sound
<1> QED BY <1>1, <1>2, <1>4 DEF translate_fld, A!Fld

-----------------------------------------------------------------------------
(* Arithmetic *)

\* FADD and FMUL, in every form that does not pop.
LEMMA AddDone ==
  ASSUME NEW S, Sound(S), NEW d \in Slots, A!Full(Now(S), d), NEW x, Op(Now(S), x)
  PROVE  Done(1, S, AddInto(Start(S), d, x),
              A!Set(Now(S), d, Add(A!St(Now(S), d), A!Val(Now(S), x))))
<1>1. PICK B : B = Start(S) /\ Ready(B) /\ CanMove(B) /\ Mid(B) = Now(S)
  BY NowMach
<1>2. PICK v \in Vals : v = Operand(B, x) /\ v = A!Val(Now(S), x)
  BY <1>1, OperandRead
<1>3. PICK u \in Vals : u = St(B, d) /\ u = A!St(Now(S), d)
  BY <1>1, ReadStep
<1>4. Add(u, v) \in Vals
  BY ValsAssumption
<1>5. Done(1, B, Apply(B, d, Add(u, v)), A!Set(Now(S), d, Add(u, v)))
  BY <1>1, <1>4, ApplyDone
<1>6. Done(1, S, Apply(B, d, Add(u, v)), A!Set(Now(S), d, Add(u, v)))
  BY <1>1, <1>5, Lift DEF Sound
<1> QED BY <1>1, <1>2, <1>3, <1>6 DEF AddInto

\* FSUB and FDIV, in every form that does not pop.
LEMMA SubDone ==
  ASSUME NEW S, Sound(S), NEW d \in Slots, A!Full(Now(S), d), NEW x, Op(Now(S), x), NEW rev
  PROVE  Done(1, S, SubInto(Start(S), d, x, rev),
              A!Set(Now(S), d, SubR(rev, A!St(Now(S), d), A!Val(Now(S), x))))
<1>1. PICK B : B = Start(S) /\ Ready(B) /\ CanMove(B) /\ Mid(B) = Now(S)
  BY NowMach
<1>2. PICK v \in Vals : v = Operand(B, x) /\ v = A!Val(Now(S), x)
  BY <1>1, OperandRead
<1>3. PICK u \in Vals : u = St(B, d) /\ u = A!St(Now(S), d)
  BY <1>1, ReadStep
<1>4. PICK r \in Vals : r = SubR(rev, u, v)
  BY SubRType
<1>5. Done(1, B, Apply(B, d, r), A!Set(Now(S), d, r))
  BY <1>1, ApplyDone
<1>6. Done(1, S, Apply(B, d, r), A!Set(Now(S), d, r))
  BY <1>1, <1>5, Lift DEF Sound
<1> QED BY <1>1, <1>2, <1>3, <1>4, <1>6 DEF SubInto

\* ST(i) := r(ST(i), ST(0)), then a pop.
LEMMA PopDone ==
  ASSUME NEW S, Sound(S), NEW i \in Slots, A!Full(Now(S), i), A!Full(Now(S), 0)
  PROVE  LET B == Start(S)
             m == Now(S)
         IN  /\ Done(1, S, ApplyPop(B, i, Add(St(B, i), St(B, 0))),
                     A!PopSt(A!Set(m, i, Add(A!St(m, i), A!St(m, 0)))))
             /\ \A rev : Done(1, S, ApplyPop(B, i, SubR(rev, St(B, i), St(B, 0))),
                              A!PopSt(A!Set(m, i, SubR(rev, A!St(m, i), A!St(m, 0)))))
<1>1. PICK B : B = Start(S) /\ Ready(B) /\ CanMove(B) /\ Mid(B) = Now(S)
  BY NowMach
<1>2. PICK v \in Vals : v = St(B, 0) /\ v = A!St(Now(S), 0)
  BY <1>1, ReadStep, Neighbours DEF Slots
<1>3. PICK u \in Vals : u = St(B, i) /\ u = A!St(Now(S), i)
  BY <1>1, ReadStep
<1>4. ASSUME NEW r \in Vals
      PROVE  Done(1, S, ApplyPop(B, i, r), A!PopSt(A!Set(Now(S), i, r)))
  <2>1. Done(1, B, ApplyPop(B, i, r), A!PopSt(A!Set(Now(S), i, r)))
    BY <1>1, ApplyPopDone
  <2> QED BY <1>1, <2>1, Lift DEF Sound
<1>5. Add(u, v) \in Vals /\ \A rev : SubR(rev, u, v) \in Vals
  BY ValsAssumption, SubRType
<1>6. Done(1, S, ApplyPop(B, i, Add(u, v)), A!PopSt(A!Set(Now(S), i, Add(u, v))))
  BY <1>4, <1>5
<1>7. ASSUME NEW rev
      PROVE  Done(1, S, ApplyPop(B, i, SubR(rev, u, v)), A!PopSt(A!Set(Now(S), i, SubR(rev, u, v))))
  BY <1>4, <1>5
<1> QED BY <1>1, <1>2, <1>3, <1>6, <1>7

\* There are at least two registers.
LEMMA Zeroth == 0 \in Slots /\ 1 \in Slots
BY NSlotsAssumption DEF Slots

\* An instruction that rewrites ST(0) does so.
LEMMA RewriteDone ==
  ASSUME NEW S, Sound(S), A!Full(Now(S), 0)
  PROVE  Done(1, S, Rewrite(Start(S)), A!Set(Now(S), 0, Un(A!St(Now(S), 0))))
<1>1. PICK B : B = Start(S) /\ Ready(B) /\ CanMove(B) /\ Mid(B) = Now(S)
  BY NowMach
<1>2. PICK u \in Vals : u = St(B, 0) /\ u = A!St(Now(S), 0)
  BY <1>1, ReadStep, Zeroth
<1>3. Un(u) \in Vals
  BY ValsAssumption
<1>4. Done(1, B, Apply(B, 0, Un(u)), A!Set(Now(S), 0, Un(u)))
  BY <1>1, <1>3, ApplyDone, Zeroth
<1>5. Done(1, S, Apply(B, 0, Un(u)), A!Set(Now(S), 0, Un(u)))
  BY <1>1, <1>4, Lift DEF Sound
<1> QED BY <1>1, <1>2, <1>5 DEF Rewrite

\* Rewriting ST(0) and pushing a second result above it.
LEMMA SecondDone ==
  ASSUME NEW B, Ready(B), CanMove(B), A!Room(Mid(B)), A!Full(Mid(B), 0),
         NEW u \in Vals, NEW v \in Vals
  PROVE  /\ Done(1, B, PushSecond(SetSt(B, 0, u), v), A!PushSt(A!Set(Mid(B), 0, u), v))
         /\ ~B.pd => SetSt(B, 0, u) = emit_store_st(B, 0, u)
<1>1. PICK C : /\ C = SetSt(B, 0, u) /\ Ready(C) /\ CanMove(C) /\ C.run = B.run
               /\ Mid(C) = A!Set(Mid(B), 0, u)
  BY SetStep, Zeroth
<1>2. A!Room(Mid(C))
  BY <1>1, MidMach, MachSetKeeps, Zeroth DEF Held
<1>3. PICK P : P = x87_push(C) /\ ~P.pd
  BY <1>1, <1>2, Push
<1>4. SetSt(P, 0, v) = emit_store_st(P, 0, v)
  BY <1>3 DEF SetSt, resolve_depth
<1>5. PICK T : T = SetSt(P, 0, v) /\ Ready(T) /\ T.run = C.run /\ Mid(T) = A!PushSt(Mid(C), v)
  BY <1>1, <1>2, <1>3, PushStep
<1>6. Done(1, T, x87_end(T, 1), Mid(T))
  BY <1>5, EndStep
<1>7. x87_end(T, 1) = PushSecond(C, v)
  BY <1>3, <1>4, <1>5 DEF PushSecond
<1>8. Done(1, B, PushSecond(C, v), A!PushSt(Mid(C), v))
  BY <1>1, <1>5, <1>6, <1>7 DEF Done
<1>9. ~B.pd => SetSt(B, 0, u) = emit_store_st(B, 0, u)
  BY DEF SetSt, resolve_depth
<1> QED BY <1>1, <1>8, <1>9

\* FPTAN, FSINCOS, and FXTRACT when no exchange is pending.
LEMMA Seconds ==
  ASSUME NEW S, Sound(S), A!Room(Now(S)), A!Full(Now(S), 0)
  PROVE  LET m == Now(S)
             x == A!St(m, 0)
         IN  /\ Done(1, S, translate_fptan(S), A!PushSt(A!Set(m, 0, Un(x)), One))
             /\ Done(1, S, translate_fsincos(S), A!PushSt(A!Set(m, 0, Un(x)), Vn(x)))
             /\ ~S.pd => Done(1, S, translate_fxtract(S), A!PushSt(A!Set(m, 0, Un(x)), Vn(x)))
<1>1. PICK B : B = Start(S) /\ Ready(B) /\ CanMove(B) /\ Mid(B) = Now(S) /\ B.pd = S.pd
  BY NowMach
<1>2. PICK x \in Vals : x = St(B, 0) /\ x = A!St(Now(S), 0)
  BY <1>1, ReadStep, Zeroth
<1>3. Un(x) \in Vals /\ Vn(x) \in Vals /\ One \in Vals
  BY ValsAssumption
<1>4. ASSUME NEW v \in Vals
      PROVE  Done(1, S, PushSecond(SetSt(B, 0, Un(x)), v), A!PushSt(A!Set(Now(S), 0, Un(x)), v))
  <2>1. Done(1, B, PushSecond(SetSt(B, 0, Un(x)), v), A!PushSt(A!Set(Now(S), 0, Un(x)), v))
    BY <1>1, <1>3, SecondDone
  <2> QED BY <1>1, <2>1, Lift DEF Sound
<1>5. ~B.pd => SetSt(B, 0, Un(x)) = emit_store_st(B, 0, Un(x))
  BY <1>1, <1>3, SecondDone
<1> QED BY <1>1, <1>2, <1>3, <1>4, <1>5 DEF translate_fptan, translate_fsincos, translate_fxtract

-----------------------------------------------------------------------------
(* Stores *)

\* FST and FIST, FSTP and those that pop as it does, to memory.
LEMMA Stores ==
  ASSUME NEW S, Sound(S), A!Full(Now(S), 0)
  PROVE  /\ Done(1, S, StoreOut(Start(S)), A!Give(Now(S), A!St(Now(S), 0)))
         /\ Done(1, S, StoreOutPop(Start(S)), A!PopSt(A!Give(Now(S), A!St(Now(S), 0))))
<1>1. PICK B : B = Start(S) /\ Ready(B) /\ CanMove(B) /\ Mid(B) = Now(S) /\ IsMach(Now(S))
  BY NowMach
<1>2. PICK x : x = St(B, 0) /\ x = A!St(Now(S), 0)
  BY <1>1, ReadStep, Zeroth
<1>3. PICK G : G = Give(B, x) /\ Ready(G) /\ CanMove(G) /\ Mid(G) = A!Give(Now(S), x)
               /\ G.run = B.run
  BY <1>1, GiveStep
<1>4. Done(1, G, x87_end(G, 1), Mid(G))
  BY <1>3, EndStep
<1>5. A!Full(Mid(G), 0)
  BY <1>1, <1>3, MachGive
<1>6. PICK T : T = x87_pop(G) /\ Ready(T) /\ T.run = G.run /\ Mid(T) = A!PopSt(Mid(G))
  BY <1>3, <1>5, PopStep
<1>7. Done(1, T, x87_end(T, 1), Mid(T))
  BY <1>6, EndStep
<1>8. /\ Done(1, B, x87_end(G, 1), A!Give(Now(S), x))
      /\ Done(1, B, x87_end(T, 1), A!PopSt(A!Give(Now(S), x)))
  BY <1>3, <1>4, <1>6, <1>7 DEF Done
<1>9. /\ Done(1, S, x87_end(G, 1), A!Give(Now(S), x))
      /\ Done(1, S, x87_end(T, 1), A!PopSt(A!Give(Now(S), x)))
  BY <1>1, <1>8, Lift DEF Sound
<1> QED BY <1>1, <1>2, <1>3, <1>6, <1>9 DEF StoreOut, StoreOutPop

\* Writing back what a register already holds changes nothing.
LEMMA Unwritten ==
  ASSUME NEW a, IsMach(a), NEW d \in Slots
  PROVE  A!Set(a, d, A!St(a, d)) = a
<1>1. PICK p \in Slots : p = Phys(a.top, d) /\ p = A!Phys(a.top, d)
  BY AData, PhysDepth DEF IsMach
<1>2. [a.st EXCEPT ![p] = a.st[p]] = a.st
  BY DEF IsMach
<1> QED BY <1>1, <1>2 DEF A!Set, A!Hold, A!St, IsMach

\* A copy of ST(0) to ST(i), made or, to ST(0) itself, left out.
LEMMA Copied ==
  ASSUME NEW B, Ready(B), CanMove(B), NEW i \in Slots, A!Full(Mid(B), 0), A!Full(Mid(B), i)
  PROVE  LET C == CopySt(B, i)
         IN  /\ Ready(C) /\ CanMove(C) /\ C.run = B.run /\ A!Full(Mid(C), 0)
             /\ Mid(C) = A!Set(Mid(B), i, A!St(Mid(B), 0))
<1>1. PICK x \in Vals : x = St(B, 0) /\ x = A!St(Mid(B), 0)
  BY ReadStep, Zeroth
<1>2. IsMach(Mid(B)) /\ x \in Held
  BY MidMach DEF Held
<1>3. CASE i = 0
  BY <1>1, <1>2, <1>3, Unwritten DEF CopySt
<1>4. CASE i # 0
  <2>1. A!Full(A!Set(Mid(B), i, x), 0)
    BY <1>2, MachSetKeeps
  <2> QED BY <1>1, <1>4, <2>1, SetStep DEF CopySt
<1> QED BY <1>3, <1>4

\* FST ST(i) and FSTP ST(i).
LEMMA Copies ==
  ASSUME NEW S, Sound(S), NEW i \in Slots, A!Full(Now(S), 0), A!Full(Now(S), i)
  PROVE  /\ Done(1, S, translate_fst_sti(S, i), A!Set(Now(S), i, A!St(Now(S), 0)))
         /\ Done(1, S, translate_fstp_sti(S, i), A!PopSt(A!Set(Now(S), i, A!St(Now(S), 0))))
<1>1. PICK B : B = Start(S) /\ Ready(B) /\ CanMove(B) /\ Mid(B) = Now(S)
  BY NowMach
<1>2. PICK C : /\ C = CopySt(B, i) /\ Ready(C) /\ CanMove(C) /\ C.run = B.run /\ A!Full(Mid(C), 0)
               /\ Mid(C) = A!Set(Now(S), i, A!St(Now(S), 0))
  BY <1>1, Copied
<1>3. PICK T : T = x87_pop(C) /\ Ready(T) /\ T.run = C.run /\ Mid(T) = A!PopSt(Mid(C))
  BY <1>2, PopStep
<1>4. Done(1, C, x87_end(C, 1), Mid(C)) /\ Done(1, T, x87_end(T, 1), Mid(T))
  BY <1>2, <1>3, EndStep
<1>5. Done(1, B, x87_end(C, 1), Mid(C)) /\ Done(1, B, x87_end(T, 1), Mid(T))
  BY <1>2, <1>3, <1>4 DEF Done
<1>6. Done(1, S, x87_end(C, 1), Mid(C)) /\ Done(1, S, x87_end(T, 1), Mid(T))
  BY <1>1, <1>5, Lift DEF Sound
<1> QED BY <1>1, <1>2, <1>3, <1>6 DEF translate_fst_sti, translate_fstp_sti

-----------------------------------------------------------------------------
(* Comparisons and status *)

\* What setting the condition code changes.
LEMMA MachCompare ==
  ASSUME NEW a, IsMach(a), NEW c, NEW d
  PROVE  LET b == [a EXCEPT !.cc = c]
         IN  /\ IsMach(b) /\ b.top = a.top /\ b.tag = a.tag /\ b.st = a.st /\ b.cc = c
             /\ b.out = a.out
             /\ A!Full(b, d) = A!Full(a, d) /\ A!St(b, d) = A!St(a, d)
BY DEF IsMach, A!Full, A!St

\* A comparison, as a step of a translator: TOP is flushed before the status
\* word is read.
LEMMA CompareStep ==
  ASSUME NEW B, Ready(B), A!Full(Mid(B), 0), NEW x, Op(Mid(B), x)
  PROVE  LET C == Compare(B, x)
         IN  /\ Ready(C) /\ (CanMove(B) => CanMove(C)) /\ C.run = B.run
             /\ Mid(C) = A!Compare(Mid(B), A!Val(Mid(B), x))
             /\ A!Full(Mid(C), 0) /\ C.td = B.td /\ C.tpp = B.tpp /\ C.dpc = B.dpc /\ C.pd = B.pd
<1>1. PICK v \in Vals : v = Operand(B, x) /\ v = A!Val(Mid(B), x)
  BY OperandRead
<1>2. PICK u \in Vals : u = St(B, 0) /\ u = A!St(Mid(B), 0)
  BY ReadStep, Zeroth
<1>3. Cmp(u, v) \in Held
  BY ValsAssumption DEF Held
<1> DEFINE C == [B EXCEPT !.cc = Cmp(u, v)]
<1>4. /\ Ready(C) /\ Mid(C) = [Mid(B) EXCEPT !.cc = Cmp(u, v)] /\ C.run = B.run
      /\ C.pd = B.pd /\ C.td = B.td /\ C.tpp = B.tpp /\ C.dpc = B.dpc
  BY <1>3, Compared
<1>5. C = Compare(B, x)
  BY <1>1, <1>2 DEF Compare, emit_fcom_cc_write_sw
<1>6. Mid(C) = A!Compare(Mid(B), v)
  BY <1>2, <1>4 DEF A!Compare
<1>7. A!Full(Mid(C), 0)
  BY <1>4, MidMach, MachCompare
<1> QED BY <1>1, <1>4, <1>5, <1>6, <1>7 DEF CanMove

\* FCOM, FCOMP and FCOMPP, to their last step.
LEMMA Compares ==
  ASSUME NEW S, Sound(S), A!Full(Now(S), 0), NEW x, Op(Now(S), x)
  PROVE  LET m == Now(S)
             C == Compare(Start(S), x)
         IN  /\ Done(1, S, x87_end(C, 1), A!Fcom(m, x, 0))
             /\ Done(1, S, x87_end(x87_pop(C), 1), A!Fcom(m, x, 1))
             /\ Done(1, S, x87_end(x87_pop_n(C, 2), 1), A!Fcom(m, x, 2))
             /\ A!Fcom(m, x, 0) = A!Compare(m, A!Val(m, x))
             /\ A!Fcom(m, x, 1) = A!PopSt(A!Compare(m, A!Val(m, x)))
<1>1. PICK B : B = Start(S) /\ Ready(B) /\ CanMove(B) /\ Mid(B) = Now(S)
  BY NowMach
<1>2. PICK C : /\ C = Compare(B, x) /\ Ready(C) /\ CanMove(C) /\ C.run = B.run
               /\ Mid(C) = A!Compare(Now(S), A!Val(Now(S), x)) /\ A!Full(Mid(C), 0)
  BY <1>1, CompareStep
<1>3. PICK P : P = x87_pop(C) /\ Ready(P) /\ P.run = C.run /\ Mid(P) = A!PopSt(Mid(C))
  BY <1>2, PopStep
<1>4. PICK D : D = x87_pop_n(C, 2) /\ Ready(D) /\ D.run = C.run /\ Mid(D) = A!PopSt(A!PopSt(Mid(C)))
  BY <1>2, PopTwo
<1>5. /\ Done(1, C, x87_end(C, 1), Mid(C)) /\ Done(1, P, x87_end(P, 1), Mid(P))
      /\ Done(1, D, x87_end(D, 1), Mid(D))
  BY <1>2, <1>3, <1>4, EndStep
<1>6. /\ Done(1, B, x87_end(C, 1), Mid(C)) /\ Done(1, B, x87_end(P, 1), Mid(P))
      /\ Done(1, B, x87_end(D, 1), Mid(D))
  BY <1>2, <1>3, <1>4, <1>5 DEF Done
<1>7. /\ Done(1, S, x87_end(C, 1), Mid(C)) /\ Done(1, S, x87_end(P, 1), Mid(P))
      /\ Done(1, S, x87_end(D, 1), Mid(D))
  BY <1>1, <1>6, Lift DEF Sound
<1>8. /\ A!Fcom(Now(S), x, 0) = Mid(C) /\ A!Fcom(Now(S), x, 1) = Mid(P)
      /\ A!Fcom(Now(S), x, 2) = Mid(D)
  BY <1>2, <1>3, <1>4 DEF A!Fcom
<1> QED BY <1>1, <1>2, <1>3, <1>4, <1>7, <1>8

\* A translator that flushes and then works on what it has flushed.
LEMMA Flushed ==
  ASSUME NEW B, Ready(B), CanMove(B)
  PROVE  LET F == x87_flush_top(x87_flush_tags(B))
         IN  Ready(F) /\ CanMove(F) /\ Mid(F) = Mid(B) /\ F.run = B.run /\ F.pd = B.pd
<1>1. PICK G : G = x87_flush_tags(B) /\ Same(B, G) /\ G.pd = B.pd
  BY FlushTags
<1>2. PICK F : F = x87_flush_top(G) /\ Same(G, F) /\ F.pd = G.pd
  BY <1>1, FlushTop DEF Same
<1> QED BY <1>1, <1>2 DEF Same, CanMove

\* FTST compares with zero.
LEMMA FtstDone ==
  ASSUME NEW S, Sound(S), A!Full(Now(S), 0)
  PROVE  Done(1, S, translate_ftst(S), A!Compare(Now(S), Zero))
<1>1. PICK B : B = Start(S) /\ Ready(B) /\ CanMove(B) /\ Mid(B) = Now(S)
  BY NowMach
<1>2. PICK F : /\ F = x87_flush_top(x87_flush_tags(B)) /\ Ready(F) /\ CanMove(F)
               /\ Mid(F) = Mid(B) /\ F.run = B.run
  BY <1>1, Flushed
<1>3. Op(Mid(F), Mem(Zero)) /\ A!Val(Mid(F), Mem(Zero)) = Zero
  BY Immediate, ValsAssumption
<1>4. PICK C : /\ C = Compare(F, Mem(Zero)) /\ Ready(C) /\ C.run = F.run
               /\ Mid(C) = A!Compare(Mid(F), A!Val(Mid(F), Mem(Zero)))
  BY <1>1, <1>2, <1>3, CompareStep
<1>5. Done(1, C, x87_end(C, 1), Mid(C))
  BY <1>4, EndStep
<1>6. Done(1, B, x87_end(C, 1), Mid(C))
  BY <1>2, <1>4, <1>5 DEF Done
<1>7. Done(1, S, x87_end(C, 1), Mid(C))
  BY <1>1, <1>6, Lift DEF Sound
<1> QED BY <1>1, <1>2, <1>3, <1>4, <1>7 DEF translate_ftst

\* FCOMI and FCOMIP hand over the flags of the comparison.
LEMMA FlagsDone ==
  ASSUME NEW S, Sound(S), NEW i \in Slots, A!Full(Now(S), 0), A!Full(Now(S), i)
  PROVE  LET m == Now(S)
             a == A!Give(m, Cmp(A!St(m, 0), A!St(m, i)))
         IN  /\ Done(1, S, translate_fcomi(S, i), a)
             /\ Done(1, S, translate_fcomip(S, i), A!PopSt(a))
<1>1. PICK B : B = Start(S) /\ Ready(B) /\ CanMove(B) /\ Mid(B) = Now(S) /\ IsMach(Now(S))
  BY NowMach
<1>2. St(B, 0) = A!St(Now(S), 0) /\ St(B, i) = A!St(Now(S), i)
  BY <1>1, ReadStep, Zeroth
<1>3. PICK c : c = Cmp(St(B, 0), St(B, i))
  OBVIOUS
<1>4. PICK G : G = Give(B, c) /\ Ready(G) /\ CanMove(G) /\ Mid(G) = A!Give(Now(S), c)
               /\ G.run = B.run
  BY <1>1, GiveStep
<1>5. A!Full(Mid(G), 0)
  BY <1>1, <1>4, MachGive
<1>6. PICK T : T = x87_pop(G) /\ Ready(T) /\ T.run = G.run /\ Mid(T) = A!PopSt(Mid(G))
  BY <1>4, <1>5, PopStep
<1>7. Done(1, G, x87_end(G, 1), Mid(G)) /\ Done(1, T, x87_end(T, 1), Mid(T))
  BY <1>4, <1>6, EndStep
<1>8. Done(1, B, x87_end(G, 1), Mid(G)) /\ Done(1, B, x87_end(T, 1), Mid(T))
  BY <1>4, <1>6, <1>7 DEF Done
<1>9. Done(1, S, x87_end(G, 1), Mid(G)) /\ Done(1, S, x87_end(T, 1), Mid(T))
  BY <1>1, <1>8, Lift DEF Sound
<1> QED BY <1>1, <1>2, <1>3, <1>4, <1>6, <1>9 DEF translate_fcomi, translate_fcomip

\* FCMOV moves ST(i) to ST(0) when its condition holds.
LEMMA FcmovDone ==
  ASSUME NEW S, Sound(S), NEW i \in Slots, A!Full(Now(S), 0), A!Full(Now(S), i), NEW taken
  PROVE  Done(1, S, translate_fcmov(S, i, taken),
              A!Set(Now(S), 0, IF taken THEN A!St(Now(S), i) ELSE A!St(Now(S), 0)))
<1>1. PICK B : B = Start(S) /\ Ready(B) /\ CanMove(B) /\ Mid(B) = Now(S)
  BY NowMach
<1>2. PICK F : /\ F = x87_flush_top(x87_flush_tags(B)) /\ Ready(F) /\ CanMove(F)
               /\ Mid(F) = Now(S) /\ F.run = B.run
  BY <1>1, Flushed
<1>3. /\ St(F, 0) = A!St(Now(S), 0) /\ St(F, i) = A!St(Now(S), i)
      /\ A!St(Now(S), 0) \in Vals /\ A!St(Now(S), i) \in Vals
  BY <1>2, ReadStep, Zeroth
<1>4. PICK r \in Vals : r = IF taken THEN St(F, i) ELSE St(F, 0)
  BY <1>3
<1>5. Done(1, F, Apply(F, 0, r), A!Set(Now(S), 0, r))
  BY <1>2, ApplyDone, Zeroth
<1>6. Done(1, B, Apply(F, 0, r), A!Set(Now(S), 0, r))
  BY <1>2, <1>5 DEF Done
<1>7. Done(1, S, Apply(F, 0, r), A!Set(Now(S), 0, r))
  BY <1>1, <1>6, Lift DEF Sound
<1> QED BY <1>1, <1>2, <1>3, <1>4, <1>7 DEF translate_fcmov, Apply

\* FLDCW, FNSTCW and FNOP leave the machine alone.
LEMMA Controls ==
  ASSUME NEW S, Sound(S)
  PROVE  /\ Done(1, S, translate_fldcw(S), Now(S)) /\ Done(1, S, translate_fnstcw(S), Now(S))
         /\ Done(1, S, translate_fnop(S), Now(S))
<1>1. PICK B : B = Start(S) /\ Ready(B) /\ CanMove(B) /\ Mid(B) = Now(S)
  BY NowMach
<1>2. PICK F : F = x87_flush_top(B) /\ Same(B, F)
  BY <1>1, FlushTop
<1>3. Done(1, B, x87_end(B, 1), Mid(B)) /\ Done(1, F, x87_end(F, 1), Mid(F))
  BY <1>1, <1>2, EndStep DEF Same
<1>4. Done(1, B, x87_end(B, 1), Mid(B)) /\ Done(1, B, x87_end(F, 1), Mid(B))
  BY <1>2, <1>3 DEF Done, Same
<1>5. Done(1, S, x87_end(B, 1), Mid(B)) /\ Done(1, S, x87_end(F, 1), Mid(B))
  BY <1>1, <1>4, Lift DEF Sound
<1> QED BY <1>1, <1>2, <1>5 DEF translate_fldcw, translate_fnstcw, translate_fnop

\* Once a push is flushed and a pop is left to do, TOP's tag in memory says
\* if ST(0) is in use.
LEMMA TopTag ==
  ASSUME NEW F, Ready(F), ~F.tpp, F.dpc < NSlots
  PROVE  F.tag[F.w] <=> A!Full(Mid(F), 0)
<1>1. TypedState(F) /\ F.w \in Slots /\ F.dpc \in 0 .. NSlots /\ A!Phys(F.w, 0) = F.w
  BY Neighbours, AData DEF Ready, TypedState
<1> DEFINE m == LiveAt(F, F.w)
<1>2. /\ m.top = F.w
      /\ m.tag[F.w] <=> ((F.tpp /\ F.w = F.w) \/ (F.tag[F.w] /\ F.w \notin Above(F.w, F.dpc)))
  BY <1>1, MidFields
<1>3. F.w \notin Above(F.w, F.dpc)
  BY <1>1, NSlotsAssumption DEF Above
<1> HIDE DEF m
<1>4. A!Full(m, 0) = m.tag[F.w]
  BY <1>1, <1>2 DEF A!Full
<1> QED BY <1>2, <1>3, <1>4 DEF m, Mid

\* FXAM classifies ST(0), unless the pop of every register is deferred.
LEMMA FxamDone ==
  ASSUME NEW S, Sound(S), S.dpc < NSlots
  PROVE  Done(1, S, translate_fxam(S),
              [Now(S) EXCEPT !.cc = IF A!Full(Now(S), 0) THEN Un(A!St(Now(S), 0)) ELSE NoVal])
<1>1. PICK B : B = Start(S) /\ Ready(B) /\ CanMove(B) /\ Mid(B) = Now(S) /\ B.dpc = S.dpc
  BY Started DEF Now, Sound
<1>2. PICK F : /\ F = IF B.gv THEN x87_flush_pending_tag(x87_flush_top(B)) ELSE B
               /\ Ready(F) /\ Mid(F) = Now(S) /\ F.run = B.run /\ ~F.tpp /\ F.dpc = S.dpc
  <2>1. CASE B.gv
    <3>1. PICK G : G = x87_flush_top(B) /\ Same(B, G) /\ G.dpc = B.dpc
      BY <1>1, FlushTop
    <3>2. PICK H : H = x87_flush_pending_tag(G) /\ Same(G, H) /\ H.dpc = G.dpc /\ ~H.tpp
      BY <3>1, FlushTag DEF Same
    <3> QED BY <1>1, <2>1, <3>1, <3>2 DEF Same
  <2>2. CASE ~B.gv
    <3>1. ~(B.run > 0) /\ B.run \in Nat
      BY <1>1, <2>2 DEF Ready, TypedState
    <3>2. ~B.tpp
      BY <1>1, <3>1 DEF Ready
    <3> QED BY <1>1, <2>2, <3>2
  <2> QED BY <2>1, <2>2
<1>3. F.tag[F.w] <=> A!Full(Now(S), 0)
  BY <1>2, TopTag
<1>4. A!Full(Now(S), 0) => St(F, 0) = A!St(Now(S), 0) /\ A!St(Now(S), 0) \in Vals
  BY <1>2, ReadStep, Zeroth
<1>5. PICK c \in Held : /\ c = IF F.tag[F.w] THEN Un(St(F, 0)) ELSE NoVal
                        /\ c = IF A!Full(Now(S), 0) THEN Un(A!St(Now(S), 0)) ELSE NoVal
  BY <1>3, <1>4, ValsAssumption DEF Held
<1> DEFINE C == [F EXCEPT !.cc = c]
<1>6. Ready(C) /\ Mid(C) = [Mid(F) EXCEPT !.cc = c] /\ C.run = F.run
  BY <1>2, Compared
<1>7. Done(1, C, x87_end(C, 1), Mid(C))
  BY <1>6, EndStep
<1>8. x87_end(C, 1) = translate_fxam(S)
  BY <1>1, <1>2, <1>5 DEF translate_fxam, emit_fcom_cc_write_sw
<1> HIDE DEF C
<1>9. Done(1, B, translate_fxam(S), Mid(C))
  BY <1>2, <1>6, <1>7, <1>8 DEF Done
<1>10. Done(1, S, translate_fxam(S), Mid(C))
  BY <1>1, <1>9, Lift DEF Sound
<1> QED BY <1>2, <1>5, <1>6, <1>10

-----------------------------------------------------------------------------
(* Answers *)

\* T is a state the next instruction may start from, with everything in
\* memory if fewer than n instructions of the run were left.
Answers(n, S, T, a) ==
  Idle(T) /\ Live(T) = a /\ T.run <= S.run /\ (T.run <= n => Clean(T) /\ (T.gv => T.run > 0))

\* A state a translator leaves is one the next may start from.
LEMMA ReadyIdle ==
  ASSUME NEW T, Ready(T), T.run = 0 => ~T.td
  PROVE  Idle(T) /\ Live(T) = Mid(T)
<1>1. TypedState(T) /\ T.run \in Nat
  BY DEF Ready, TypedState
<1>2. CASE T.run = 0
  <2>1. ~(T.run > 0)
    BY <1>2
  <2>2. ~T.gv /\ T.top = T.w /\ ~T.td /\ ~T.tpp /\ T.dpc = 0
    BY <1>2, <2>1 DEF Ready
  <2> QED BY <1>1, <2>2 DEF Idle, Ready, Live, LiveTop, Mid
<1>3. CASE T.run # 0
  <2>1. T.run > 0
    BY <1>1, <1>3
  <2>2. T.gv
    BY <2>1 DEF Ready
  <2> QED BY <1>1, <2>1, <2>2 DEF Idle, Ready, Live, LiveTop, Mid
<1> QED BY <1>2, <1>3

\* A translator that ends as the others do answers its instructions.
LEMMA DoneAnswers ==
  ASSUME NEW n \in Nat, NEW S, Sound(S), NEW T, NEW a, Done(n, S, T, a)
  PROVE  Answers(n, S, T, a)
<1>1. Ready(T) /\ T.run = S.run /\ T.run \in Nat /\ (T.run <= n => Clean(T))
  BY DEF Done, Ready, TypedState
<1>2. T.run = 0 => ~T.td
  BY <1>1 DEF Clean
<1>3. Idle(T) /\ Live(T) = Mid(T)
  BY <1>1, <1>2, ReadyIdle
<1> QED BY <1>1, <1>3 DEF Answers, Done, Idle

\* FSTSW hands over TOP and the condition code.
LEMMA StatusGiven ==
  ASSUME NEW a, IsMach(a)
  PROVE  A!Fstsw(A!Quiet(a)) = A!Give(a, <<a.top, a.cc>>)
<1>1. A!Quiet(a).top = a.top /\ A!Quiet(a).cc = a.cc
  BY DEF A!Quiet, IsMach
<1>2. \A v : A!Give(A!Quiet(a), v) = A!Give(a, v)
  BY DEF A!Quiet, A!Give, IsMach
<1> QED BY <1>1, <1>2 DEF A!Fstsw, A!StatusWord

\* FSTSW answers, unless it ends the run with an exchange pending.
LEMMA FstswDone ==
  ASSUME NEW S, Sound(S), ~(S.pd /\ S.run = 1)
  PROVE  Answers(1, S, translate_fstsw(S), A!Fstsw(Now(S)))
<1>1. TypedState(S) /\ Idle(S) /\ S.run \in Nat
  BY DEF Sound, Idle, TypedState
<1>2. PICK B : B = x87_begin(S) /\ Ready(B) /\ B.run = S.run /\ B.pd = S.pd /\ Mid(B) = Live(S)
  BY <1>1, Begin
<1>3. IsMach(Live(S)) /\ Live(S).cc = S.cc
  BY <1>2, MidMach DEF Live, LiveAt
<1>4. CASE S.run > 0 /\ S.gv
  <2>1. B = S
    BY <1>2, <1>4 DEF x87_begin
  <2>2. PICK G : G = x87_flush_top(S) /\ Same(S, G) /\ ~G.td /\ G.pd = S.pd
    BY <1>2, <2>1, FlushTop
  <2>3. PICK F : F = x87_flush_tags(G) /\ Same(G, F) /\ ~F.td /\ ~F.tpp /\ F.dpc = 0 /\ F.pd = S.pd
    BY <2>2, FlushTags DEF Same
  <2>4. Ready(F) /\ Mid(F) = Live(S) /\ F.run = S.run /\ F.top = F.w
    BY <1>2, <2>1, <2>2, <2>3 DEF Same, Ready
  <2>5. Mid(F).top = F.top /\ Mid(F).cc = F.cc
    BY <2>4 DEF Mid, LiveAt
  <2> DEFINE T == [F EXCEPT !.out = <<F.top, F.cc>>]
  <2>6. /\ Ready(T) /\ Mid(T) = A!Give(Mid(F), <<F.top, F.cc>>) /\ T.run = F.run
        /\ T.td = F.td /\ T.tpp = F.tpp /\ T.dpc = F.dpc /\ T.pd = F.pd
    BY <2>4, Handed
  <2>7. T = translate_fstsw(S)
    BY <1>4, <2>2, <2>3 DEF translate_fstsw, Give
  <2> HIDE DEF T
  <2>8. Idle(T) /\ Live(T) = Mid(T)
    BY <2>3, <2>6, ReadyIdle
  <2>9. T.run <= 1 => Clean(T)
    BY <1>1, <1>4, <2>3, <2>4, <2>6 DEF Clean
  <2>10. A!Give(Mid(F), <<F.top, F.cc>>) = A!Fstsw(Now(S))
    BY <1>3, <2>4, <2>5, StatusGiven DEF Now
  <2> QED BY <1>1, <2>4, <2>6, <2>7, <2>8, <2>9, <2>10 DEF Answers, Idle
<1>5. CASE ~(S.run > 0 /\ S.gv)
  <2>1. ~S.gv /\ ~S.td /\ ~S.tpp /\ S.dpc = 0
    BY <1>1, <1>5 DEF Idle
  <2> DEFINE T == [S EXCEPT !.out = <<S.top, S.cc>>]
  <2>2. T = translate_fstsw(S)
    BY <1>5 DEF translate_fstsw, Give
  <2>3. T = Rec(S.top, S.tag, S.st, S.cc, S.w, S.run, S.gv, S.td, S.tpp, S.dpc, S.perm, S.pd,
                <<S.top, S.cc>>)
    BY <1>1 DEF TypedState, Rec
  <2> HIDE DEF T
  <2>4. TypedState(T)
    BY <1>1, <2>3 DEF TypedState, Rec
  <2>5. /\ T.top = S.top /\ T.tag = S.tag /\ T.st = S.st /\ T.cc = S.cc /\ T.run = S.run
        /\ T.gv = S.gv /\ T.td = S.td /\ T.tpp = S.tpp /\ T.dpc = S.dpc /\ T.perm = S.perm
        /\ T.pd = S.pd /\ T.out = <<S.top, S.cc>> /\ T.w = S.w
    BY <2>3 DEF Rec
  <2>6. Idle(T)
    BY <1>1, <2>1, <2>4, <2>5 DEF Idle
  <2>7. TagAt(T, S.top) = TagAt(S, S.top)
    BY <2>5 DEF TagAt
  <2>8. StAt(T, S.top) = StAt(S, S.top)
    BY <2>5, <2>7 DEF StAt
  <2>9. Live(T) = A!Fstsw(Now(S))
    <3>1. Live(T) = LiveAt(T, S.top) /\ Live(S) = LiveAt(S, S.top)
      BY <2>1, <2>5 DEF Live, LiveTop
    <3>2. LiveAt(T, S.top) = A!Give(LiveAt(S, S.top), <<S.top, S.cc>>)
      BY <2>5, <2>7, <2>8 DEF LiveAt, A!Give
    <3>3. LiveAt(S, S.top).top = S.top /\ LiveAt(S, S.top).cc = S.cc
      BY DEF LiveAt
    <3> QED BY <1>3, <3>1, <3>2, <3>3, StatusGiven DEF Now
  <2>10. T.run <= 1 => Clean(T)
    BY <1>1, <2>1, <2>5 DEF Clean, Sound, CanMove
  <2> QED BY <1>1, <2>1, <2>2, <2>5, <2>6, <2>9, <2>10 DEF Answers
<1> QED BY <1>4, <1>5

-----------------------------------------------------------------------------
(* The stack itself *)

\* What the exchange of two registers makes of a machine.
LEMMA MachXch ==
  ASSUME NEW a, IsMach(a), NEW i \in Slots
  PROVE  LET b == A!Xch(a, i)
             p == Phys(a.top, 0)
             q == Phys(a.top, i)
         IN  /\ IsMach(b) /\ b.top = a.top /\ b.tag = a.tag /\ b.cc = a.cc /\ b.out = a.out
             /\ \A r \in Slots : b.st[r] = IF r = q
                      THEN a.st[p] ELSE IF r = p THEN a.st[q] ELSE a.st[r]
<1>1. /\ a.top \in Slots /\ 0 \in Slots /\ Phys(a.top, 0) \in Slots /\ Phys(a.top, i) \in Slots
      /\ a.st \in [Slots -> Held]
  BY PhysDepth, Zeroth DEF IsMach
<1>2. PICK u \in Held : u = A!St(a, i) /\ u = a.st[Phys(a.top, i)]
  BY <1>1, AData DEF A!St
<1>3. PICK v \in Held : v = A!St(a, 0) /\ v = a.st[Phys(a.top, 0)]
  BY <1>1, AData DEF A!St
<1> DEFINE c == A!Set(a, 0, u)
<1>4. /\ IsMach(c) /\ c.top = a.top /\ c.tag = a.tag /\ c.cc = a.cc /\ c.out = a.out
      /\ \A r \in Slots : c.st[r] = IF r = Phys(a.top, 0) THEN u ELSE a.st[r]
  <2>1. 0 \in Slots
    BY <1>1
  <2> QED BY <2>1, MachSet
<1> HIDE DEF c
<1> DEFINE e == A!Set(c, i, v)
<1>5. /\ IsMach(e) /\ e.top = c.top /\ e.tag = c.tag /\ e.cc = c.cc /\ e.out = c.out
      /\ \A r \in Slots : e.st[r] = IF r = Phys(c.top, i) THEN v ELSE c.st[r]
  <2>1. IsMach(c)
    BY <1>4
  <2> QED BY <2>1, MachSet
<1> HIDE DEF e
<1>6. A!Xch(a, i) = e
  BY <1>2, <1>3 DEF A!Xch, c, e
<1> QED BY <1>2, <1>3, <1>4, <1>5, <1>6

\* Exchanging two entries of a permutation leaves one.
LEMMA Swapped ==
  ASSUME NEW f \in Perms, NEW i \in Slots
  PROVE  /\ swap(f, 0, i) \in Perms
         /\ \A d \in Slots : swap(f, 0, i)[d] = IF d = i THEN f[0] ELSE IF d = 0 THEN f[i] ELSE f[d]
<1> DEFINE g == swap(f, 0, i)
<1>1. f \in [Slots -> Slots] /\ \A j, k \in Slots : f[j] = f[k] => j = k
  BY DEF Perms
<1>2. /\ g \in [Slots -> Slots]
      /\ \A d \in Slots : g[d] = IF d = i THEN f[0] ELSE IF d = 0 THEN f[i] ELSE f[d]
  BY <1>1, Zeroth DEF swap
<1> HIDE DEF g
<1>3. \A j, k \in Slots : g[j] = g[k] => j = k
  BY <1>1, <1>2, Zeroth
<1>4. g \in Perms
  BY <1>2, <1>3 DEF Perms
<1> QED BY <1>2, <1>4 DEF g

\* Exchanging two names exchanges the registers.
Rename(B, i) == [B EXCEPT !.perm = swap(@, 0, i), !.pd = TRUE]

\* Exchanging two names exchanges the registers, with TOP given as w.
LEMMA RenamedAt ==
  ASSUME NEW B, TypedState(B), NEW w \in Slots, NEW i \in Slots,
         A!Full(LiveAt(B, w), 0), A!Full(LiveAt(B, w), i)
  PROVE  LET T == Rename(B, i)
         IN  /\ TypedState(T) /\ LiveAt(T, w) = A!Xch(LiveAt(B, w), i)
             /\ T.top = B.top /\ T.w = B.w /\ T.tag = B.tag /\ T.run = B.run /\ T.gv = B.gv
             /\ T.td = B.td /\ T.tpp = B.tpp /\ T.dpc = B.dpc /\ T.pd
<1> SUFFICES ASSUME NEW T, T = Rename(B, i)
             PROVE  /\ TypedState(T) /\ LiveAt(T, w) = A!Xch(LiveAt(B, w), i)
                    /\ T.top = B.top /\ T.w = B.w /\ T.tag = B.tag /\ T.run = B.run /\ T.gv = B.gv
                    /\ T.td = B.td /\ T.tpp = B.tpp /\ T.dpc = B.dpc /\ T.pd
  OBVIOUS
<1> DEFINE g == swap(B.perm, 0, i)
<1>0. T = Rec(B.top, B.tag, B.st, B.cc, B.w, B.run, B.gv, B.td, B.tpp, B.dpc, g, TRUE, B.out)
  BY DEF TypedState, Rename, Rec
<1> DEFINE m == LiveAt(B, w)
           n == LiveAt(T, w)
           a == A!Xch(m, i)
<1>1. /\ TypedState(B) /\ w \in Slots /\ B.perm \in Perms /\ 0 \in Slots
      /\ Phys(w, i) \in Slots /\ Phys(w, 0) \in Slots
      /\ Depth(w, Phys(w, 0)) = 0 /\ Depth(w, Phys(w, i)) = i
  BY Zeroth, PhysDepth DEF TypedState
<1>2. /\ g \in Perms
      /\ \A d \in Slots : g[d] = IF d = i THEN B.perm[0] ELSE IF d = 0 THEN B.perm[i] ELSE B.perm[d]
  BY <1>1, Swapped
<1>3. m.tag[Phys(w, 0)] /\ m.tag[Phys(w, i)]
  BY AData DEF A!Full, LiveAt
<1> HIDE DEF g
<1>4. TypedState(T)
  BY <1>0, <1>1, <1>2 DEF TypedState, Rec
<1>5. /\ T.w = B.w /\ T.top = B.top /\ T.gv = B.gv /\ T.st = B.st /\ T.cc = B.cc
      /\ T.out = B.out /\ T.tag = B.tag /\ T.perm = g
      /\ T.run = B.run /\ T.pd /\ T.td = B.td /\ T.tpp = B.tpp /\ T.dpc = B.dpc
  BY <1>0 DEF Rec
<1>6. /\ IsMach(m) /\ m.top = w /\ m.cc = B.cc /\ m.out = B.out
      /\ \A p \in Slots : m.tag[p] <=> ((B.tpp /\ p = w) \/ (B.tag[p] /\ p \notin Above(w, B.dpc)))
      /\ \A p \in Slots : m.st[p] = IF m.tag[p] THEN B.st[Phys(w, B.perm[Depth(w, p)])] ELSE NoVal
  BY <1>1, MidFields
<1>7. /\ IsMach(n) /\ n.top = w /\ n.cc = T.cc /\ n.out = T.out
      /\ \A p \in Slots : n.tag[p] <=> ((T.tpp /\ p = w) \/ (T.tag[p] /\ p \notin Above(w, T.dpc)))
      /\ \A p \in Slots : n.st[p] = IF n.tag[p] THEN T.st[Phys(w, T.perm[Depth(w, p)])] ELSE NoVal
  BY <1>1, <1>4, MidFields
<1> HIDE DEF m, n
<1>8. /\ IsMach(a) /\ a.top = m.top /\ a.tag = m.tag /\ a.cc = m.cc /\ a.out = m.out
      /\ \A r \in Slots : a.st[r] = IF r = Phys(m.top, i) THEN m.st[Phys(m.top, 0)]
                                    ELSE IF r = Phys(m.top, 0) THEN m.st[Phys(m.top, i)]
                                      ELSE m.st[r]
  BY <1>6, MachXch, ZenonT(60)
<1> HIDE DEF a
<1>9. ASSUME NEW p \in Slots
      PROVE  (n.tag[p] <=> a.tag[p]) /\ n.st[p] = a.st[p]
  <2>1. n.tag[p] <=> m.tag[p]
    BY <1>5, <1>6, <1>7
  <2>2. Depth(w, p) \in Slots /\ Phys(w, Depth(w, p)) = p
    BY <1>1, PhysDepth
  <2>3. n.st[p] = IF m.tag[p] THEN B.st[Phys(w, g[Depth(w, p)])] ELSE NoVal
    <3>1. n.st[p] = IF n.tag[p] THEN T.st[Phys(w, T.perm[Depth(w, p)])] ELSE NoVal
      BY <1>7
    <3> QED BY <1>5, <2>1, <3>1
  <2>4. CASE p = Phys(w, i)
    <3>1. g[Depth(w, p)] = B.perm[0]
      BY <1>1, <1>2, <2>4
    <3>2. n.st[p] = m.st[Phys(w, 0)]
      BY <1>1, <1>3, <1>6, <2>3, <2>4, <3>1
    <3> QED BY <1>6, <1>8, <2>1, <2>4, <3>2
  <2>5. CASE p # Phys(w, i) /\ p = Phys(w, 0)
    <3>1. g[Depth(w, p)] = B.perm[i]
      BY <1>1, <1>2, <2>2, <2>5
    <3>2. n.st[p] = m.st[Phys(w, i)]
      BY <1>1, <1>3, <1>6, <2>3, <2>5, <3>1
    <3> QED BY <1>6, <1>8, <2>1, <2>5, <3>2
  <2>6. CASE p # Phys(w, i) /\ p # Phys(w, 0)
    <3>1. g[Depth(w, p)] = B.perm[Depth(w, p)]
      BY <1>2, <2>2, <2>6
    <3>2. n.st[p] = m.st[p]
      BY <1>6, <2>3, <3>1
    <3> QED BY <1>6, <1>8, <2>1, <2>6, <3>2
  <2> QED BY <2>4, <2>5, <2>6
<1>10. n = a
  BY <1>5, <1>6, <1>7, <1>8, <1>9, MachEq
<1> QED BY <1>4, <1>5, <1>10 DEF n, m, a

\* The same for the machine a translator's state shows.
LEMMA Renamed ==
  ASSUME NEW B, Ready(B), NEW i \in Slots, A!Full(Mid(B), 0), A!Full(Mid(B), i)
  PROVE  LET T == Rename(B, i)
         IN  /\ Ready(T) /\ T.run = B.run /\ T.td = B.td /\ T.tpp = B.tpp /\ T.dpc = B.dpc
             /\ T.pd /\ Mid(T) = A!Xch(Mid(B), i)
<1>1. TypedState(B) /\ B.w \in Slots /\ Mid(B) = LiveAt(B, B.w)
  BY DEF Ready, TypedState, Mid
<1>2. PICK T : /\ T = Rename(B, i) /\ TypedState(T) /\ LiveAt(T, B.w) = A!Xch(LiveAt(B, B.w), i)
               /\ T.top = B.top /\ T.w = B.w /\ T.tag = B.tag /\ T.run = B.run /\ T.gv = B.gv
               /\ T.td = B.td /\ T.tpp = B.tpp /\ T.dpc = B.dpc /\ T.pd
  BY <1>1, RenamedAt
<1>3. Ready(T)
  BY <1>2 DEF Ready
<1> QED BY <1>1, <1>2, <1>3 DEF Mid

\* FXCH exchanges, deferred or at once.
LEMMA FxchDone ==
  ASSUME NEW S, Sound(S), NEW i \in Slots, A!Full(Now(S), 0), A!Full(Now(S), i),
         DeferFxch \/ ~S.pd
  PROVE  Done(1, S, translate_fxch(S, i), A!Xch(Now(S), i))
<1>1. PICK B : /\ B = Start(S) /\ Ready(B) /\ CanMove(B) /\ Mid(B) = Now(S) /\ B.pd = S.pd
               /\ IsMach(Now(S))
  BY NowMach
<1>2. PICK x \in Vals : x = St(B, 0) /\ x = A!St(Now(S), 0)
  BY <1>1, ReadStep, Zeroth
<1>3. PICK y \in Vals : y = St(B, i) /\ y = A!St(Now(S), i)
  BY <1>1, ReadStep, Zeroth
<1>4. PICK T : /\ x87_end(T, 1) = translate_fxch(S, i) /\ Ready(T) /\ T.run = B.run
               /\ Mid(T) = A!Xch(Now(S), i)
  <2>1. CASE i = 0
    <3>1. A!Set(Now(S), 0, x) = Now(S)
      BY <1>1, <1>2, Unwritten, Zeroth
    <3>2. A!Xch(Now(S), i) = Now(S)
      BY <1>2, <2>1, <3>1 DEF A!Xch
    <3> QED BY <1>1, <2>1, <3>2 DEF translate_fxch
  <2>2. CASE i # 0 /\ B.run > 0 /\ DeferFxch
    <3>1. PICK R : R = Rename(B, i) /\ Ready(R) /\ R.run = B.run /\ Mid(R) = A!Xch(Now(S), i)
      BY <1>1, Renamed
    <3> QED BY <1>1, <2>2, <3>1 DEF translate_fxch, Rename
  <2>3. CASE i # 0 /\ ~(B.run > 0 /\ DeferFxch)
    <3>1. ~B.pd
      BY <1>1, <2>3 DEF CanMove
    <3>2. PICK C : C = SetSt(B, 0, y) /\ Ready(C) /\ CanMove(C) /\ C.run = B.run /\ ~C.pd
                   /\ Mid(C) = A!Set(Now(S), 0, y)
      BY <1>1, <3>1, SetStep, Zeroth
    <3>3. A!Full(Mid(C), i)
      BY <1>1, <3>2, MachSetKeeps, Zeroth DEF Held
    <3>4. PICK D : D = SetSt(C, i, x) /\ Ready(D) /\ D.run = C.run /\ Mid(D) = A!Set(Mid(C), i, x)
      BY <3>2, <3>3, SetStep
    <3>5. Mid(D) = A!Xch(Now(S), i)
      BY <1>2, <1>3, <3>2, <3>4 DEF A!Xch
    <3>6. D = [B EXCEPT !.st = swap(@, Phys(B.w, 0), Phys(B.w, i))]
      <4>1. x = B.st[Phys(B.w, 0)] /\ y = B.st[Phys(B.w, i)]
        BY <1>2, <1>3, <3>1 DEF St, resolve_depth, emit_load_st
      <4>2. C = [B EXCEPT !.st[Phys(B.w, 0)] = y]
        BY <3>1, <3>2 DEF SetSt, resolve_depth, emit_store_st
      <4>3. D = [C EXCEPT !.st[Phys(C.w, i)] = x]
        BY <3>2, <3>4 DEF SetSt, resolve_depth, emit_store_st
      <4>4. TypedState(B)
        BY <1>1 DEF Ready
      <4> DEFINE f == [B.st EXCEPT ![Phys(B.w, 0)] = y]
                 g == [f EXCEPT ![Phys(B.w, i)] = x]
      <4>5. C = [B EXCEPT !.st = f]
        BY <4>2
      <4>6. C.st = f /\ C.w = B.w
        BY <4>4, <4>5 DEF TypedState
      <4>7. D = [C EXCEPT !.st = g]
        BY <4>3, <4>6
      <4>8. g = swap(B.st, Phys(B.w, 0), Phys(B.w, i))
        BY <4>1 DEF swap
      <4> HIDE DEF f, g
      <4>9. [C EXCEPT !.st = g] = [B EXCEPT !.st = g]
        BY <4>4, <4>5 DEF TypedState
      <4> QED BY <4>7, <4>8, <4>9
    <3> QED BY <1>1, <2>3, <3>2, <3>4, <3>5, <3>6 DEF translate_fxch
  <2> QED BY <2>1, <2>2, <2>3
<1>5. Done(1, T, x87_end(T, 1), Mid(T))
  BY <1>4, EndStep
<1>6. Done(1, B, x87_end(T, 1), Mid(T))
  BY <1>4, <1>5 DEF Done
<1>7. Done(1, S, x87_end(T, 1), Mid(T))
  BY <1>1, <1>6, Lift DEF Sound
<1> QED BY <1>4, <1>7

\* TOP moves past registers that keep their tags.
Shift(F, u) == [F EXCEPT !.w = u, !.td = TRUE]

\* Moving TOP with nothing else pending moves TOP of the machine.
LEMMA Moved ==
  ASSUME NEW F, Ready(F), ~F.pd, ~F.tpp, F.dpc = 0, NEW u \in Slots
  PROVE  LET T == Shift(F, u)
         IN  Ready(T) /\ T.run = F.run /\ Mid(T) = A!Move(Mid(F), u)
<1> SUFFICES ASSUME NEW T, T = Shift(F, u)
             PROVE  Ready(T) /\ T.run = F.run /\ Mid(T) = A!Move(Mid(F), u)
  OBVIOUS
<1>0. T = Rec(F.top, F.tag, F.st, F.cc, u, F.run, F.gv, TRUE, F.tpp, F.dpc, F.perm, F.pd, F.out)
  BY DEF Ready, TypedState, Shift, Rec
<1>1. TypedState(F) /\ F.w \in Slots /\ F.perm = Identity
  BY DEF Ready, TypedState
<1>2. Ready(T)
  BY <1>0 DEF Ready, TypedState, Rec
<1>3. /\ T.w = u /\ T.st = F.st /\ T.cc = F.cc /\ T.out = F.out /\ T.tag = F.tag
      /\ T.perm = Identity
      /\ T.run = F.run /\ ~T.pd /\ ~T.tpp /\ T.dpc = 0
  BY <1>0, <1>1 DEF Rec
<1>4. TagAt(T, u) = TagAt(F, F.w)
  BY <1>3, NoneAbove DEF TagAt
<1>5. \A p \in Slots : /\ Phys(u, Identity[Depth(u, p)]) = p
                       /\ Phys(F.w, Identity[Depth(F.w, p)]) = p
  BY <1>1, PhysDepth DEF Identity
<1>6. StAt(T, u) = StAt(F, F.w)
  BY <1>1, <1>3, <1>4, <1>5 DEF StAt
<1>7. LiveAt(T, u) = A!Move(LiveAt(F, F.w), u)
  BY <1>3, <1>4, <1>6 DEF LiveAt, A!Move
<1> QED BY <1>2, <1>3, <1>7 DEF Mid

\* FDECSTP and FINCSTP.
LEMMA Moves ==
  ASSUME NEW S, Sound(S)
  PROVE  /\ Done(1, S, translate_fdecstp(S), [Now(S) EXCEPT !.top = Dec(@)])
         /\ Done(1, S, translate_fincstp(S), [Now(S) EXCEPT !.top = Inc(@)])
<1>1. PICK B : B = Start(S) /\ Ready(B) /\ CanMove(B) /\ Mid(B) = Now(S) /\ IsMach(Now(S))
  BY NowMach
<1>2. PICK G : G = perm_flush_before_stack_change(B) /\ Same(B, G) /\ ~G.pd
  BY <1>1, FlushPerm
<1>3. PICK F : F = x87_flush_tags(G) /\ Same(G, F) /\ ~F.tpp /\ F.dpc = 0 /\ ~F.pd
  BY <1>2, FlushTags DEF Same
<1>4. /\ Ready(F) /\ F.run = B.run /\ Mid(F) = Now(S) /\ F.w \in Slots /\ F.w = Now(S).top
      /\ F = FlushForMove(B)
  BY <1>1, <1>2, <1>3 DEF Same, Ready, TypedState, Mid, LiveAt, FlushForMove
<1>5. ASSUME NEW u \in Slots
      PROVE  Done(1, S, MoveTop(F, u), [Now(S) EXCEPT !.top = u])
  <2> DEFINE T == Shift(F, u)
  <2>1. Ready(T) /\ T.run = F.run /\ Mid(T) = A!Move(Mid(F), u)
    BY <1>3, <1>4, Moved
  <2>2. MoveTop(F, u) = x87_end(T, 1)
    BY DEF MoveTop, Shift
  <2> HIDE DEF T
  <2>3. Done(1, T, x87_end(T, 1), Mid(T))
    BY <2>1, EndStep
  <2>4. Done(1, B, MoveTop(F, u), Mid(T))
    BY <1>4, <2>1, <2>2, <2>3 DEF Done
  <2>5. Done(1, S, MoveTop(F, u), Mid(T))
    BY <1>1, <2>4, Lift DEF Sound
  <2> QED BY <1>4, <2>1, <2>5 DEF A!Move
<1>6. Dec(F.w) \in Slots /\ Inc(F.w) \in Slots
  BY <1>4, Stack
<1> QED BY <1>1, <1>4, <1>5, <1>6 DEF translate_fdecstp, translate_fincstp

\* FFREE empties ST(i), when no exchange is pending.
LEMMA FfreeDone ==
  ASSUME NEW S, Sound(S), ~S.pd, NEW i \in Slots
  PROVE  Done(1, S, translate_ffree(S, i), A!FreeSt(Now(S), i))
<1>1. PICK B : /\ B = Start(S) /\ Ready(B) /\ CanMove(B) /\ Mid(B) = Now(S) /\ IsMach(Now(S))
               /\ ~B.pd
  BY NowMach
<1>2. PICK F : F = x87_flush_tags(B) /\ Same(B, F) /\ ~F.tpp /\ F.dpc = 0 /\ ~F.pd
  BY <1>1, FlushTags
<1> DEFINE q == Phys(F.w, i)
           f == [F.tag EXCEPT ![q] = FALSE]
           m == LiveAt(F, F.w)
           a == A!FreeSt(m, i)
<1>90. Ready(F) /\ F.run = B.run /\ Mid(F) = Now(S)
  BY <1>1, <1>2 DEF Same
<1>91. TypedState(F) /\ F.w \in Slots /\ F.perm = Identity
  BY <1>2, <1>90 DEF Ready, TypedState
<1>3. /\ Ready(F) /\ TypedState(F) /\ F.run = B.run /\ Mid(F) = Now(S) /\ F.w \in Slots
      /\ q \in Slots /\ F.perm = Identity
  BY <1>90, <1>91, PhysDepth
<1>4. f \in [Slots -> BOOLEAN] /\ \A p \in Slots : f[p] <=> (p # q /\ F.tag[p])
  BY <1>3 DEF TypedState
<1> DEFINE T == [F EXCEPT !.tag = f]
<1>5. translate_ffree(S, i) = x87_end(T, 1)
  BY <1>1, <1>2 DEF translate_ffree, resolve_depth
<1>6. T = Rec(F.top, f, F.st, F.cc, F.w, F.run, F.gv, F.td, F.tpp, F.dpc, F.perm, F.pd, F.out)
  <2> HIDE DEF f
  <2> QED BY <1>3 DEF TypedState, Rec
<1> HIDE DEF T, f
<1>7. Ready(T)
  BY <1>2, <1>3, <1>4, <1>6 DEF Ready, TypedState, Rec
<1>8. /\ T.w = F.w /\ T.st = F.st /\ T.cc = F.cc /\ T.out = F.out /\ T.tag = f /\ T.perm = F.perm
      /\ T.run = F.run /\ ~T.pd /\ ~T.tpp /\ T.dpc = 0
  BY <1>2, <1>6 DEF Rec
<1> DEFINE n == LiveAt(T, F.w)
<1>9. /\ IsMach(m) /\ m.top = F.w /\ m.cc = F.cc /\ m.out = F.out
      /\ \A p \in Slots : m.tag[p]
               <=> ((F.tpp /\ p = F.w) \/ (F.tag[p] /\ p \notin Above(F.w, F.dpc)))
      /\ \A p \in Slots : m.st[p] = IF m.tag[p]
               THEN F.st[Phys(F.w, F.perm[Depth(F.w, p)])] ELSE NoVal
  BY <1>3, MidFields
<1>10. /\ IsMach(n) /\ n.top = F.w /\ n.cc = T.cc /\ n.out = T.out
       /\ \A p \in Slots : n.tag[p]
                <=> ((T.tpp /\ p = F.w) \/ (T.tag[p] /\ p \notin Above(F.w, T.dpc)))
       /\ \A p \in Slots : n.st[p] = IF n.tag[p]
                THEN T.st[Phys(F.w, T.perm[Depth(F.w, p)])] ELSE NoVal
  <2>1. TypedState(T)
    BY <1>7 DEF Ready
  <2> QED BY <1>3, <2>1, MidFields
<1>11. Above(F.w, 0) = {}
  BY NoneAbove
<1> HIDE DEF m, n
<1>12. /\ IsMach(a) /\ a.top = m.top /\ a.cc = m.cc /\ a.out = m.out
       /\ \A p \in Slots : a.st[p] = IF p = Phys(m.top, i) THEN NoVal ELSE m.st[p]
       /\ \A p \in Slots : a.tag[p] <=> (p # Phys(m.top, i) /\ m.tag[p])
  BY <1>9, MachFree
<1> HIDE DEF a, q
<1>13. Phys(m.top, i) = q
  BY <1>9 DEF q
<1>14. ASSUME NEW p \in Slots
       PROVE  (n.tag[p] <=> a.tag[p]) /\ n.st[p] = a.st[p]
  <2>1. n.tag[p] <=> a.tag[p]
    BY <1>2, <1>4, <1>8, <1>9, <1>10, <1>11, <1>12, <1>13
  <2>2. n.st[p] = IF n.tag[p] THEN F.st[Phys(F.w, F.perm[Depth(F.w, p)])] ELSE NoVal
    BY <1>8, <1>10
  <2>3. m.st[p] = IF m.tag[p] THEN F.st[Phys(F.w, F.perm[Depth(F.w, p)])] ELSE NoVal
    BY <1>9
  <2> QED BY <1>12, <1>13, <2>1, <2>2, <2>3
<1>15. n = a
  BY <1>8, <1>9, <1>10, <1>12, <1>14, MachEq
<1>16. Mid(T) = n /\ Mid(F) = m
  BY <1>8 DEF n, m, Mid
<1>17. Done(1, T, x87_end(T, 1), Mid(T))
  BY <1>7, EndStep
<1>18. Done(1, B, x87_end(T, 1), Mid(T))
  BY <1>3, <1>8, <1>17 DEF Done
<1>19. Done(1, S, x87_end(T, 1), Mid(T))
  BY <1>1, <1>18, Lift DEF Sound
<1> QED BY <1>3, <1>5, <1>15, <1>16, <1>19 DEF a

\* A memory image as FSAVE writes it and FRSTOR reads it.
IsImage(img) ==
  /\ img.top \in Slots /\ img.tag \in [Slots -> BOOLEAN] /\ img.st \in [Slots -> Vals]
  /\ img.cc \in Held

\* What a state with nothing deferred is when all of the x87 state is new.
Reset(S, top, tag, st, cc, out) ==
  Rec(top, tag, st, cc, top, S.run, S.gv, FALSE, FALSE, 0, Identity, FALSE, out)

\* A state whose x87 state is new shows the new machine, and nothing is
\* deferred.
LEMMA Replaced ==
  ASSUME NEW S, TypedState(S), S.gv = (S.run > 0), NEW top \in Slots,
         NEW tag \in [Slots -> BOOLEAN],
         NEW st \in [Slots -> Vals], NEW cc \in Held, NEW out
  PROVE  LET T == Reset(S, top, tag, st, cc, out)
         IN  /\ Ready(T) /\ Clean(T) /\ T.run = S.run
             /\ Mid(T) = [top |-> top, tag |-> tag,
                          st |-> [p \in Slots |-> IF tag[p] THEN st[p] ELSE NoVal],
                          cc |-> cc, out |-> out]
<1> SUFFICES ASSUME NEW T, T = Reset(S, top, tag, st, cc, out)
             PROVE  /\ Ready(T) /\ Clean(T) /\ T.run = S.run
                    /\ Mid(T) = [top |-> top, tag |-> tag,
                                 st |-> [p \in Slots |-> IF tag[p] THEN st[p] ELSE NoVal],
                                 cc |-> cc, out |-> out]
  OBVIOUS
<1>1. Identity \in Perms
  BY DEF Identity, Perms
<1>2. /\ T.top = top /\ T.tag = tag /\ T.st = st /\ T.cc = cc /\ T.w = top /\ T.run = S.run
      /\ T.gv = S.gv /\ ~T.td /\ ~T.tpp /\ T.dpc = 0 /\ T.perm = Identity /\ ~T.pd /\ T.out = out
  BY DEF Reset, Rec
<1>3. TypedState(T)
  BY <1>1, NSlotsAssumption DEF TypedState, Reset, Rec, Held
<1>4. Ready(T) /\ Clean(T)
  BY <1>2, <1>3 DEF Ready, Clean
<1>5. TagAt(T, top) = tag
  BY <1>2, NoneAbove DEF TagAt
<1>6. \A p \in Slots : Phys(top, Identity[Depth(top, p)]) = p
  BY PhysDepth DEF Identity
<1>7. StAt(T, top) = [p \in Slots |-> IF tag[p] THEN st[p] ELSE NoVal]
  BY <1>2, <1>5, <1>6 DEF StAt
<1>8. Mid(T) = LiveAt(T, top)
  BY <1>2 DEF Mid
<1>9. Mid(T) = [top |-> top, tag |-> tag,
                st |-> [p \in Slots |-> IF tag[p] THEN st[p] ELSE NoVal], cc |-> cc, out |-> out]
  BY <1>2, <1>5, <1>7, <1>8 DEF LiveAt
<1> QED BY <1>2, <1>4, <1>9

\* The last writes of FRSTOR.
Restore(S, img) == [S EXCEPT !.top = img.top, !.w = img.top, !.tag = img.tag,
                             !.cc = img.cc, !.st = img.st]

\* What FRSTOR forgets.
Drop(S) == reset_perm([S EXCEPT !.td = FALSE, !.tpp = FALSE, !.dpc = 0])

\* FRSTOR's reads are such a replacement.
LEMMA Restored ==
  ASSUME NEW S, TypedState(S), NEW img, S.perm = Identity, ~S.pd, ~S.td, ~S.tpp, S.dpc = 0
  PROVE  Restore(S, img) = Reset(S, img.top, img.tag, img.st, img.cc, S.out)
<1> SUFFICES ASSUME NEW T, T = Restore(S, img)
             PROVE  T = Reset(S, img.top, img.tag, img.st, img.cc, S.out)
  OBVIOUS
<1>1. S.pd = FALSE /\ S.td = FALSE /\ S.tpp = FALSE
  BY DEF TypedState
<1>2. PICK top, tag, st, cc : top = img.top /\ tag = img.tag /\ st = img.st /\ cc = img.cc
  OBVIOUS
<1>3. T = Rec(top, tag, st, cc, top, S.run, S.gv, S.td, S.tpp, S.dpc, S.perm, S.pd, S.out)
  BY <1>2 DEF TypedState, Restore, Rec
<1> QED BY <1>1, <1>2, <1>3 DEF Reset

\* What FRSTOR drops: everything deferred.
LEMMA Dropped ==
  ASSUME NEW B, Ready(B)
  PROVE  LET D == Drop(B)
         IN  /\ TypedState(D) /\ D.perm = Identity /\ ~D.pd /\ ~D.td /\ ~D.tpp /\ D.dpc = 0
             /\ D.run = B.run /\ D.gv = B.gv /\ D.out = B.out
<1> SUFFICES ASSUME NEW D, D = Drop(B)
             PROVE  /\ TypedState(D) /\ D.perm = Identity /\ ~D.pd /\ ~D.td /\ ~D.tpp /\ D.dpc = 0
                    /\ D.run = B.run /\ D.gv = B.gv /\ D.out = B.out
  OBVIOUS
<1>1. D = Rec(B.top, B.tag, B.st, B.cc, B.w, B.run, B.gv, FALSE, FALSE, 0, Identity, FALSE, B.out)
  BY DEF Ready, TypedState, Drop, reset_perm, Rec
<1>2. Identity \in Perms
  BY DEF Identity, Perms
<1>3. TypedState(D)
  BY <1>1, <1>2, NSlotsAssumption DEF Ready, TypedState, Rec
<1> QED BY <1>1, <1>3 DEF Rec

\* FRSTOR leaves the machine the image describes.
LEMMA FrstorDone ==
  ASSUME NEW S, Sound(S), NEW img, IsImage(img)
  PROVE  Done(1, S, translate_frstor(S, img), A!FromImage(img))
<1>1. TypedState(S) /\ Idle(S) /\ S.run \in Nat /\ S.gv \in BOOLEAN
  BY DEF Sound, Idle, TypedState
<1>2. PICK D : /\ D = IF S.run = 0 THEN Give(S, NoVal) ELSE Drop(Start(S))
               /\ TypedState(D) /\ D.perm = Identity /\ ~D.pd /\ ~D.td /\ ~D.tpp /\ D.dpc = 0
               /\ D.run = S.run /\ D.gv = (D.run > 0) /\ D.out = NoVal
  <2>1. CASE S.run = 0
    <3>1. ~S.gv /\ ~S.td /\ ~S.tpp /\ S.dpc = 0 /\ ~S.pd /\ S.perm = Identity
      BY <1>1, <2>1 DEF Sound, CanMove, Idle
    <3> DEFINE D == Give(S, NoVal)
    <3>2. D = Rec(S.top, S.tag, S.st, S.cc, S.w, S.run, S.gv, S.td, S.tpp, S.dpc, S.perm, S.pd,
                  NoVal)
      BY <1>1 DEF TypedState, Give, Rec
    <3> HIDE DEF D
    <3>3. TypedState(D)
      BY <1>1, <3>2 DEF TypedState, Rec
    <3>4. /\ D.perm = S.perm /\ D.pd = S.pd /\ D.td = S.td /\ D.tpp = S.tpp /\ D.dpc = S.dpc
          /\ D.run = S.run /\ D.gv = S.gv /\ D.out = NoVal
      BY <3>2 DEF Rec
    <3>5. D.gv = (D.run > 0)
      BY <1>1, <2>1, <3>1, <3>4
    <3> QED BY <2>1, <3>1, <3>3, <3>4, <3>5 DEF D
  <2>2. CASE S.run # 0
    <3>1. PICK B : B = Start(S) /\ Ready(B) /\ B.run = S.run /\ B.gv = (B.run > 0) /\ B.out = NoVal
      <4>1. Start(S).out = NoVal
        <5>1. PICK C : C = x87_begin(S) /\ TypedState(C)
          BY <1>1, Begin DEF Ready
        <5> QED BY <5>1 DEF Start, Give, TypedState
      <4> QED BY <4>1, NowMach DEF Ready
    <3>2. PICK D : /\ D = Drop(B) /\ TypedState(D) /\ D.perm = Identity /\ ~D.pd /\ ~D.td /\ ~D.tpp
                   /\ D.dpc = 0 /\ D.run = B.run /\ D.gv = B.gv /\ D.out = B.out
      BY <3>1, Dropped
    <3> QED BY <2>2, <3>1, <3>2
  <2> QED BY <2>1, <2>2
<1>3. PICK R : R = Restore(D, img) /\ R = Reset(D, img.top, img.tag, img.st, img.cc, NoVal)
  BY <1>2, Restored
<1>4. /\ Ready(R) /\ Clean(R) /\ R.run = S.run
      /\ Mid(R) = [top |-> img.top, tag |-> img.tag,
                   st |-> [p \in Slots |-> IF img.tag[p] THEN img.st[p] ELSE NoVal],
                   cc |-> img.cc, out |-> NoVal]
  BY <1>2, <1>3, Replaced DEF IsImage
<1>5. Mid(R) = A!FromImage(img)
  BY <1>4 DEF A!FromImage, A!Slots, Slots
<1>6. translate_frstor(S, img) = IF S.run = 0 THEN R ELSE x87_end(R, 1)
  BY <1>2, <1>3 DEF translate_frstor, Restore, Drop
<1>7. Done(1, R, x87_end(R, 1), Mid(R))
  BY <1>4, EndStep
<1> QED BY <1>4, <1>5, <1>6, <1>7 DEF Done

\* The last writes of FSAVE.
Wipe(S, out) == [Give(S, out) EXCEPT !.top = 0, !.w = 0, !.cc = NoVal, !.td = FALSE,
                                     !.tag = [p \in Slots |-> FALSE]]

\* FSAVE's last writes are such a replacement.
LEMMA Wiped ==
  ASSUME NEW S, TypedState(S), S.perm = Identity, ~S.pd, ~S.tpp, S.dpc = 0, NEW out
  PROVE  Wipe(S, out) = Reset(S, 0, [p \in Slots |-> FALSE], S.st, NoVal, out)
<1> DEFINE f == [p \in Slots |-> FALSE]
<1>1. Wipe(S, out) = [Give(S, out) EXCEPT !.top = 0, !.w = 0, !.cc = NoVal, !.td = FALSE, !.tag = f]
  BY DEF Wipe
<1> HIDE DEF f
<1>2. Wipe(S, out) = Reset(S, 0, f, S.st, NoVal, out)
  BY <1>1 DEF TypedState, Give, Reset, Rec
<1> QED BY <1>2 DEF f

\* FSAVE hands over the image of the machine and leaves it empty.
LEMMA FsaveDone ==
  ASSUME NEW S, Sound(S)
  PROVE  Done(1, S, translate_fsave(S), A!Give(A!Empty, A!Image(Live(S))))
<1>1. PICK B : B = Start(S) /\ Ready(B) /\ CanMove(B) /\ Mid(B) = Now(S) /\ B.run = S.run
  BY NowMach
<1>2. PICK G : G = x87_flush_top(B) /\ Same(B, G) /\ ~G.td
  BY <1>1, FlushTop
<1>3. PICK H : H = x87_flush_tags(G) /\ Same(G, H) /\ ~H.td /\ ~H.tpp /\ H.dpc = 0
  BY <1>2, FlushTags DEF Same
<1>4. PICK F : F = perm_flush_before_stack_change(H) /\ Same(H, F) /\ ~F.td /\ ~F.tpp
               /\ F.dpc = 0 /\ ~F.pd
  BY <1>3, FlushPerm DEF Same
<1>5. /\ Ready(F) /\ TypedState(F) /\ F.run = B.run /\ Mid(F) = Now(S) /\ F.w \in Slots
      /\ F.top = F.w
      /\ F.perm = Identity
  BY <1>1, <1>2, <1>3, <1>4 DEF Same, Ready, TypedState
<1>6. A!Image(Live(S)) = FileImage(F)
  <2> DEFINE m == LiveAt(F, F.w)
  <2>1. /\ m.top = F.w /\ m.cc = F.cc
        /\ \A p \in Slots : m.tag[p]
                 <=> ((F.tpp /\ p = F.w) \/ (F.tag[p] /\ p \notin Above(F.w, F.dpc)))
        /\ \A p \in Slots : m.st[p] = IF m.tag[p]
                 THEN F.st[Phys(F.w, F.perm[Depth(F.w, p)])] ELSE NoVal
        /\ IsMach(m)
    BY <1>5, MidFields
  <2>2. m.top = Live(S).top /\ m.tag = Live(S).tag /\ m.st = Live(S).st /\ m.cc = Live(S).cc
    <3>1. m = A!Quiet(Live(S))
      BY <1>5 DEF Mid, Now
    <3>2. PICK a : a = Live(S)
      OBVIOUS
    <3>3. a = [top |-> a.top, tag |-> a.tag, st |-> a.st, cc |-> a.cc, out |-> a.out]
      BY <3>2 DEF Live, LiveAt
    <3>4. A!Quiet(a) = [top |-> a.top, tag |-> a.tag, st |-> a.st, cc |-> a.cc, out |-> NoVal]
      BY <3>3 DEF A!Quiet
    <3> QED BY <3>1, <3>2, <3>4
  <2> HIDE DEF m
  <2>3. \A p \in Slots : m.tag[p] <=> F.tag[p]
    BY <1>4, <2>1, NoneAbove
  <2>4. m.tag = F.tag
    BY <1>5, <2>1, <2>3 DEF IsMach, TypedState
  <2>5. \A p \in Slots : Phys(F.w, F.perm[Depth(F.w, p)]) = p
    BY <1>5, PhysDepth DEF Identity
  <2>6. \A p \in Slots : m.st[p] = IF F.tag[p] THEN F.st[p] ELSE NoVal
    BY <2>1, <2>4, <2>5
  <2>7. m.st = [p \in Slots |-> IF F.tag[p] THEN F.st[p] ELSE NoVal]
    BY <2>1, <2>6 DEF IsMach
  <2> QED BY <1>5, <2>1, <2>2, <2>4, <2>7 DEF A!Image, FileImage
<1> DEFINE e == [p \in Slots |-> FALSE]
<1>7. PICK R : R = Wipe(F, FileImage(F)) /\ R = Reset(F, 0, e, F.st, NoVal, FileImage(F))
  BY <1>4, <1>5, Wiped
<1>8. /\ Ready(R) /\ Clean(R) /\ R.run = F.run
      /\ Mid(R) = [top |-> 0, tag |-> e, st |-> [p \in Slots |-> IF e[p] THEN F.st[p] ELSE NoVal],
                   cc |-> NoVal, out |-> FileImage(F)]
  <2>1. e \in [Slots -> BOOLEAN] /\ F.st \in [Slots -> Vals] /\ NoVal \in Held /\ F.gv = (F.run > 0)
    BY <1>5 DEF TypedState, Held, Ready
  <2> HIDE DEF e
  <2> QED BY <1>5, <1>7, <2>1, Zeroth, Replaced
<1>9. [p \in Slots |-> IF e[p] THEN F.st[p] ELSE NoVal] = [p \in Slots |-> NoVal]
  OBVIOUS
<1>10. Mid(R) = A!Give(A!Empty, FileImage(F))
  <2>1. A!Empty = [top |-> 0, tag |-> e, st |-> [p \in Slots |-> NoVal], cc |-> NoVal,
                   out |-> NoVal]
    BY DEF A!Empty, A!Slots, Slots
  <2> HIDE DEF e
  <2> QED BY <1>8, <1>9, <2>1 DEF A!Give
<1>11. translate_fsave(S) = x87_end(R, 1)
  BY <1>1, <1>2, <1>3, <1>4, <1>7 DEF translate_fsave, Wipe
<1>12. Done(1, R, x87_end(R, 1), Mid(R))
  BY <1>8, EndStep
<1> QED BY <1>1, <1>5, <1>6, <1>8, <1>10, <1>11, <1>12 DEF Done

-----------------------------------------------------------------------------
(* Laws of the reference machine *)

\* A machine as Live shows one: empty registers hold no value.
Tidy(a) ==
  IsMach(a) /\ \A p \in Slots : IF a.tag[p] THEN a.st[p] \in Vals ELSE a.st[p] = NoVal

\* A register holds a value, or is empty.
LEMMA HeldVals == Vals \subseteq Held /\ NoVal \in Held
BY DEF Held

\* A register in use holds a value.
LEMMA TidyRead ==
  ASSUME NEW a, Tidy(a), NEW d \in Slots, A!Full(a, d)
  PROVE  A!St(a, d) \in Vals
<1>1. Phys(a.top, d) \in Slots /\ A!Phys(a.top, d) = Phys(a.top, d)
  BY AData, PhysDepth DEF Tidy, IsMach
<1> QED BY <1>1 DEF Tidy, A!Full, A!St

\* The reference machine does the same arithmetic.
LEMMA AArith ==
  ASSUME NEW k, NEW u, NEW v
  PROVE  A!Arith(k, u, v) = Arith(k, u, v)
BY DEF A!Arith, Arith, A!SubR, SubR

\* A store to a register in use keeps that, and is read back.
LEMMA TidySet ==
  ASSUME NEW a, Tidy(a), NEW d \in Slots, A!Full(a, d), NEW v \in Vals
  PROVE  Tidy(A!Set(a, d, v)) /\ A!St(A!Set(a, d, v), d) = v
<1> DEFINE b == A!Set(a, d, v)
<1>1. IsMach(a) /\ a.top \in Slots /\ Phys(a.top, d) \in Slots
  BY PhysDepth DEF Tidy, IsMach
<1>2. /\ IsMach(b) /\ b.top = a.top /\ b.tag = a.tag
      /\ \A q \in Slots : b.st[q] = IF q = Phys(a.top, d) THEN v ELSE a.st[q]
  BY <1>1, HeldVals, MachSet
<1> HIDE DEF b
<1>3. a.tag[Phys(a.top, d)]
  BY AData DEF A!Full
<1>4. A!St(b, d) = v
  BY <1>1, <1>2, AData DEF A!St
<1>5. Tidy(b)
  BY <1>1, <1>2, <1>3 DEF Tidy
<1> QED BY <1>4, <1>5 DEF b

\* So does a push.
LEMMA TidyPush ==
  ASSUME NEW a, Tidy(a), NEW v \in Vals
  PROVE  Tidy(A!PushSt(a, v)) /\ A!St(A!PushSt(a, v), 0) = v /\ A!Full(A!PushSt(a, v), 0)
<1> DEFINE b == A!PushSt(a, v)
<1>1. IsMach(a) /\ a.top \in Slots /\ Dec(a.top) \in Slots /\ Phys(Dec(a.top), 0) = Dec(a.top)
  BY Stack, Neighbours DEF Tidy, IsMach
<1>2. /\ IsMach(b) /\ b.top = Dec(a.top)
      /\ \A q \in Slots : b.st[q] = IF q = Dec(a.top) THEN v ELSE a.st[q]
      /\ \A q \in Slots : b.tag[q] <=> (q = Dec(a.top) \/ a.tag[q])
  BY <1>1, HeldVals, MachPush
<1> HIDE DEF b
<1>3. A!St(b, 0) = v /\ A!Full(b, 0)
  BY <1>1, <1>2, AData DEF A!St, A!Full
<1>4. Tidy(b)
  BY <1>1, <1>2 DEF Tidy
<1> QED BY <1>3, <1>4 DEF b

\* A push and a pop undo each other.
LEMMA PopPush ==
  ASSUME NEW a, Tidy(a), A!Room(a), NEW v \in Held
  PROVE  A!PopSt(A!PushSt(a, v)) = a
<1>1. IsMach(a) /\ a.top \in Slots /\ Dec(a.top) \in Slots /\ Inc(Dec(a.top)) = a.top
  BY Stack DEF Tidy, IsMach
<1> DEFINE b == A!PushSt(a, v)
           c == A!PopSt(b)
<1>2. /\ IsMach(b) /\ b.top = Dec(a.top) /\ b.cc = a.cc /\ b.out = a.out
      /\ \A q \in Slots : b.st[q] = IF q = Dec(a.top) THEN v ELSE a.st[q]
      /\ \A q \in Slots : b.tag[q] <=> (q = Dec(a.top) \/ a.tag[q])
  BY <1>1, MachPush
<1> HIDE DEF b
<1>3. /\ IsMach(c) /\ c.top = Inc(b.top) /\ c.cc = b.cc /\ c.out = b.out
      /\ \A q \in Slots : c.st[q] = IF q = b.top THEN NoVal ELSE b.st[q]
      /\ \A q \in Slots : c.tag[q] <=> (q # b.top /\ b.tag[q])
  BY <1>2, MachPop
<1> HIDE DEF c
<1>4. ~a.tag[Dec(a.top)] /\ a.st[Dec(a.top)] = NoVal
  BY <1>1, AData DEF A!Room, Tidy
<1>5. \A q \in Slots : (c.tag[q] <=> a.tag[q]) /\ c.st[q] = a.st[q]
  BY <1>2, <1>3, <1>4
<1>6. c = a
  BY <1>1, <1>2, <1>3, <1>5, MachEq
<1> QED BY <1>6 DEF b, c

\* A register one deeper than before.
LEMMA Under ==
  ASSUME NEW a, Tidy(a), A!Room(a), NEW i \in Slots, A!Full(a, i), NEW v \in Held
  PROVE  /\ i + 1 \in Slots /\ A!St(A!PushSt(a, v), i + 1) = A!St(a, i)
         /\ A!Full(A!PushSt(a, v), i + 1)
         /\ \A r \in Held : A!Set(A!PushSt(a, v), i + 1, r) = A!PushSt(A!Set(a, i, r), v)
<1> DEFINE t == a.top
           u == Dec(t)
           q == Phys(t, i)
<1>1. IsMach(a) /\ t \in Slots /\ u \in Slots /\ q \in Slots
  BY Stack, PhysDepth DEF Tidy, IsMach
<1>2. a.tag[q] /\ ~a.tag[u]
  BY AData DEF A!Full, A!Room
<1>3. i + 1 \in Slots /\ Phys(u, i + 1) = q /\ q # u
  <2>1. q # u
    BY <1>2
  <2> QED BY <1>1, <2>1, NSlotsAssumption DEF Slots, Phys, Dec
<1> HIDE DEF u, q
<1> DEFINE b == A!PushSt(a, v)
<1>4. /\ IsMach(b) /\ b.top = u /\ b.cc = a.cc /\ b.out = a.out
      /\ \A p \in Slots : b.st[p] = IF p = u THEN v ELSE a.st[p]
      /\ \A p \in Slots : b.tag[p] <=> (p = u \/ a.tag[p])
  BY <1>1, MachPush DEF u
<1> HIDE DEF b
<1>5. A!St(b, i + 1) = A!St(a, i) /\ A!Full(b, i + 1)
  BY <1>1, <1>2, <1>3, <1>4, AData DEF A!St, A!Full, q
<1>6. ASSUME NEW r \in Held
      PROVE  A!Set(b, i + 1, r) = A!PushSt(A!Set(a, i, r), v)
  <2>0. PICK j \in Slots : j = i + 1
    BY <1>3
  <2> DEFINE c == A!Set(b, j, r)
             d == A!Set(a, i, r)
             e == A!PushSt(d, v)
  <2>1. /\ IsMach(c) /\ c.top = b.top /\ c.tag = b.tag /\ c.cc = b.cc /\ c.out = b.out
        /\ \A p \in Slots : c.st[p] = IF p = Phys(b.top, j) THEN r ELSE b.st[p]
    <3>1. IsMach(b)
      BY <1>4
    <3> QED BY <3>1, MachSet
  <2>2. /\ IsMach(d) /\ d.top = a.top /\ d.tag = a.tag /\ d.cc = a.cc /\ d.out = a.out
        /\ \A p \in Slots : d.st[p] = IF p = Phys(a.top, i) THEN r ELSE a.st[p]
    BY <1>1, MachSet
  <2> HIDE DEF c, d
  <2>3. /\ IsMach(e) /\ e.top = Dec(d.top) /\ e.cc = d.cc /\ e.out = d.out
        /\ \A p \in Slots : e.st[p] = IF p = Dec(d.top) THEN v ELSE d.st[p]
        /\ \A p \in Slots : e.tag[p] <=> (p = Dec(d.top) \/ d.tag[p])
    BY <2>2, MachPush
  <2> HIDE DEF e
  <2>4. Dec(d.top) = u /\ Phys(a.top, i) = q /\ Phys(b.top, j) = q
    BY <1>3, <1>4, <2>0, <2>2 DEF u, q
  <2>5. \A p \in Slots : (c.tag[p] <=> e.tag[p]) /\ c.st[p] = e.st[p]
    BY <1>3, <1>4, <2>1, <2>2, <2>3, <2>4
  <2>6. c = e
    BY <1>4, <2>1, <2>2, <2>3, <2>4, <2>5, MachEq
  <2> QED BY <2>0, <2>6 DEF c, d, e
<1> QED BY <1>3, <1>5, <1>6 DEF b

\* What is handed over, or compared, is independent of the stack.
LEMMA PushHanded ==
  ASSUME NEW a, IsMach(a), NEW u \in Held, NEW v
  PROVE  A!Give(A!PushSt(a, u), v) = A!PushSt(A!Give(a, v), u)
<1>1. A!Dec(a.top) = Dec(a.top) /\ Dec(a.top) \in Slots
  BY AData, Stack DEF IsMach
<1> QED BY <1>1 DEF IsMach, A!Give, A!PushSt, A!Hold, A!Take, A!Move

\* A pop does not change what is handed over.
LEMMA PopHanded ==
  ASSUME NEW a, IsMach(a), NEW v
  PROVE  A!Give(A!PopSt(a), v) = A!PopSt(A!Give(a, v))
BY DEF IsMach, A!Give, A!PopSt, A!FreeSt, A!Hold, A!Free, A!Move

\* A push does not change the condition code.
LEMMA PushCompared ==
  ASSUME NEW a, IsMach(a), NEW u \in Held, NEW c
  PROVE  [A!PushSt(a, u) EXCEPT !.cc = c] = A!PushSt([a EXCEPT !.cc = c], u)
BY DEF IsMach, A!PushSt, A!Hold, A!Take, A!Move

\* A register that is popped need not have been written.
LEMMA PopUnwritten ==
  ASSUME NEW a, IsMach(a), NEW v \in Held
  PROVE  A!PopSt(A!Set(a, 0, v)) = A!PopSt(a)
<1> DEFINE b == A!Set(a, 0, v)
           c == A!PopSt(b)
           d == A!PopSt(a)
<1>1. a.top \in Slots /\ 0 \in Slots /\ Phys(a.top, 0) = a.top
  BY Neighbours DEF IsMach
<1>2. /\ IsMach(b) /\ b.top = a.top /\ b.tag = a.tag /\ b.cc = a.cc /\ b.out = a.out
      /\ \A q \in Slots : b.st[q] = IF q = Phys(a.top, 0) THEN v ELSE a.st[q]
  <2>1. 0 \in Slots
    BY <1>1
  <2> QED BY <2>1, MachSet
<1> HIDE DEF b
<1>3. /\ IsMach(c) /\ c.top = Inc(b.top) /\ c.cc = b.cc /\ c.out = b.out
      /\ \A q \in Slots : c.st[q] = IF q = b.top THEN NoVal ELSE b.st[q]
      /\ \A q \in Slots : c.tag[q] <=> (q # b.top /\ b.tag[q])
  BY <1>2, MachPop
<1>4. /\ IsMach(d) /\ d.top = Inc(a.top) /\ d.cc = a.cc /\ d.out = a.out
      /\ \A q \in Slots : d.st[q] = IF q = a.top THEN NoVal ELSE a.st[q]
      /\ \A q \in Slots : d.tag[q] <=> (q # a.top /\ a.tag[q])
  BY MachPop
<1> HIDE DEF c, d
<1>5. \A q \in Slots : (c.tag[q] <=> d.tag[q]) /\ c.st[q] = d.st[q]
  BY <1>1, <1>2, <1>3, <1>4
<1>6. c = d
  BY <1>2, <1>3, <1>4, <1>5, MachEq
<1> QED BY <1>6 DEF b, c, d

\* ST(d) after a pop was ST(d + 1) before it.
LEMMA Popped ==
  ASSUME NEW a, Tidy(a), A!Full(a, 0), NEW d \in Slots
  PROVE  /\ Tidy(A!PopSt(a)) /\ A!Room(A!PopSt(a))
         /\ A!Full(A!PopSt(a), d) => d + 1 \in Slots
         /\ d + 1 \in Slots => /\ A!Full(A!PopSt(a), d) = A!Full(a, d + 1)
                               /\ A!St(A!PopSt(a), d) = A!St(a, d + 1)
<1> DEFINE b == A!PopSt(a)
           t == a.top
<1>1. IsMach(a) /\ t \in Slots /\ Inc(t) \in Slots /\ Dec(Inc(t)) = t /\ Phys(Inc(t), d) \in Slots
  BY Stack, PhysDepth DEF Tidy, IsMach
<1>2. /\ IsMach(b) /\ b.top = Inc(t) /\ b.cc = a.cc /\ b.out = a.out
      /\ \A q \in Slots : b.st[q] = IF q = t THEN NoVal ELSE a.st[q]
      /\ \A q \in Slots : b.tag[q] <=> (q # t /\ a.tag[q])
  BY <1>1, MachPop
<1> HIDE DEF b
<1>3. Tidy(b)
  BY <1>1, <1>2 DEF Tidy
<1>4. A!Room(b)
  BY <1>1, <1>2, AData DEF A!Room
<1>5. /\ d + 1 \in Slots => Phys(Inc(t), d) = Phys(t, d + 1) /\ Phys(Inc(t), d) # t
      /\ d + 1 \notin Slots => Phys(Inc(t), d) = t
  BY <1>1, NSlotsAssumption DEF Slots, Inc, Phys
<1>6. b.tag[Phys(Inc(t), d)] = A!Full(b, d) /\ b.st[Phys(Inc(t), d)] = A!St(b, d)
  BY <1>2, AData DEF A!Full, A!St
<1>7. ASSUME d + 1 \in Slots
      PROVE  A!Full(b, d) = A!Full(a, d + 1) /\ A!St(b, d) = A!St(a, d + 1)
  <2>1. Phys(Inc(t), d) = Phys(t, d + 1) /\ Phys(Inc(t), d) # t
    BY <1>5, <1>7
  <2>2. b.st[Phys(Inc(t), d)] = a.st[Phys(t, d + 1)]
        /\ (b.tag[Phys(Inc(t), d)] <=> a.tag[Phys(t, d + 1)])
    BY <1>1, <1>2, <2>1
  <2>3. a.tag \in [Slots -> BOOLEAN] /\ b.tag \in [Slots -> BOOLEAN]
    BY <1>1, <1>2 DEF IsMach
  <2>4. b.tag[Phys(Inc(t), d)] = a.tag[Phys(t, d + 1)]
    BY <1>1, <2>1, <2>2, <2>3
  <2> QED BY <1>6, <2>2, <2>4, AData DEF A!Full, A!St
<1>8. A!Full(b, d) => d + 1 \in Slots
  <2>1. ~b.tag[t]
    BY <1>1, <1>2
  <2> QED BY <1>5, <1>6, <2>1
<1> QED BY <1>3, <1>4, <1>7, <1>8 DEF b

\* A pop and then a push is a store to ST(0).
LEMMA PushPopped ==
  ASSUME NEW a, Tidy(a), A!Full(a, 0), NEW v \in Held
  PROVE  A!PushSt(A!PopSt(a), v) = A!Set(a, 0, v)
<1> DEFINE b == A!PopSt(a)
           c == A!PushSt(b, v)
           e == A!Set(a, 0, v)
<1>1. /\ IsMach(a) /\ a.top \in Slots /\ 0 \in Slots /\ Phys(a.top, 0) = a.top
      /\ Dec(Inc(a.top)) = a.top /\ a.tag[a.top]
  BY Stack, Neighbours, AData DEF Tidy, IsMach, A!Full
<1>2. /\ IsMach(e) /\ e.top = a.top /\ e.tag = a.tag /\ e.cc = a.cc /\ e.out = a.out
      /\ \A q \in Slots : e.st[q] = IF q = Phys(a.top, 0) THEN v ELSE a.st[q]
  <2>1. 0 \in Slots /\ IsMach(a)
    BY <1>1
  <2> QED BY <2>1, MachSet
<1>3. /\ IsMach(b) /\ b.top = Inc(a.top) /\ b.cc = a.cc /\ b.out = a.out
      /\ \A q \in Slots : b.st[q] = IF q = a.top THEN NoVal ELSE a.st[q]
      /\ \A q \in Slots : b.tag[q] <=> (q # a.top /\ a.tag[q])
  BY <1>1, MachPop
<1> HIDE DEF b, e
<1>4. /\ IsMach(c) /\ c.top = Dec(b.top) /\ c.cc = b.cc /\ c.out = b.out
      /\ \A q \in Slots : c.st[q] = IF q = Dec(b.top) THEN v ELSE b.st[q]
      /\ \A q \in Slots : c.tag[q] <=> (q = Dec(b.top) \/ b.tag[q])
  BY <1>3, MachPush
<1> HIDE DEF c
<1>5. \A q \in Slots : (c.tag[q] <=> e.tag[q]) /\ c.st[q] = e.st[q]
  BY <1>1, <1>2, <1>3, <1>4
<1>6. c = e
  BY <1>1, <1>2, <1>3, <1>4, <1>5, MachEq
<1> QED BY <1>6 DEF b, c, e

\* ST(1) is written after the exchange and ST(0) popped: the exchange is lost.
LEMMA XchPopped ==
  ASSUME NEW a, IsMach(a), NEW v \in Held
  PROVE  A!PopSt(A!Set(A!Xch(a, 1), 1, v)) = A!PopSt(A!Set(a, 1, v))
<1> DEFINE x == A!Xch(a, 1)
           b == A!Set(x, 1, v)
           c == A!PopSt(b)
           d == A!Set(a, 1, v)
           e == A!PopSt(d)
<1>1. /\ a.top \in Slots /\ 0 \in Slots /\ 1 \in Slots /\ Phys(a.top, 0) = a.top
      /\ Phys(a.top, 1) # a.top
  BY Neighbours DEF IsMach
<1>2. /\ IsMach(x) /\ x.top = a.top /\ x.tag = a.tag /\ x.cc = a.cc /\ x.out = a.out
      /\ \A r \in Slots : x.st[r] = IF r = Phys(a.top, 1) THEN a.st[Phys(a.top, 0)]
                                    ELSE IF r = Phys(a.top, 0) THEN a.st[Phys(a.top, 1)]
                                      ELSE a.st[r]
  <2>1. 1 \in Slots
    BY <1>1
  <2> QED BY <2>1, MachXch
<1> HIDE DEF x
<1>3. /\ IsMach(b) /\ b.top = x.top /\ b.tag = x.tag /\ b.cc = x.cc /\ b.out = x.out
      /\ \A q \in Slots : b.st[q] = IF q = Phys(x.top, 1) THEN v ELSE x.st[q]
  <2>1. 1 \in Slots /\ IsMach(x)
    BY <1>1, <1>2
  <2> QED BY <2>1, MachSet
<1>4. /\ IsMach(d) /\ d.top = a.top /\ d.tag = a.tag /\ d.cc = a.cc /\ d.out = a.out
      /\ \A q \in Slots : d.st[q] = IF q = Phys(a.top, 1) THEN v ELSE a.st[q]
  <2>1. 1 \in Slots
    BY <1>1
  <2> QED BY <2>1, MachSet
<1> HIDE DEF b, d
<1>5. /\ IsMach(c) /\ c.top = Inc(b.top) /\ c.cc = b.cc /\ c.out = b.out
      /\ \A q \in Slots : c.st[q] = IF q = b.top THEN NoVal ELSE b.st[q]
      /\ \A q \in Slots : c.tag[q] <=> (q # b.top /\ b.tag[q])
  BY <1>3, MachPop
<1>6. /\ IsMach(e) /\ e.top = Inc(d.top) /\ e.cc = d.cc /\ e.out = d.out
      /\ \A q \in Slots : e.st[q] = IF q = d.top THEN NoVal ELSE d.st[q]
      /\ \A q \in Slots : e.tag[q] <=> (q # d.top /\ d.tag[q])
  BY <1>4, MachPop
<1> HIDE DEF c, e
<1>7. \A q \in Slots : (c.tag[q] <=> e.tag[q]) /\ c.st[q] = e.st[q]
  BY <1>1, <1>2, <1>3, <1>4, <1>5, <1>6
<1>8. c = e
  BY <1>2, <1>3, <1>4, <1>5, <1>6, <1>7, MachEq
<1> QED BY <1>8 DEF b, c, d, e, x

\* What an exchange changes, as ST(0) and ST(i) name it.
LEMMA XchRead ==
  ASSUME NEW a, IsMach(a), NEW i \in Slots
  PROVE  /\ IsMach(A!Xch(a, i)) /\ \A d : A!Full(A!Xch(a, i), d) = A!Full(a, d)
         /\ A!St(A!Xch(a, i), 0) = A!St(a, i) /\ A!St(A!Xch(a, i), i) = A!St(a, 0)
<1> DEFINE x == A!Xch(a, i)
           p == Phys(a.top, 0)
           q == Phys(a.top, i)
<1>1. p \in Slots /\ q \in Slots /\ a.top \in Slots
  BY PhysDepth, Zeroth DEF IsMach
<1>2. /\ IsMach(x) /\ x.top = a.top /\ x.tag = a.tag /\ x.cc = a.cc /\ x.out = a.out
      /\ \A r \in Slots : x.st[r] = IF r = q THEN a.st[p] ELSE IF r = p THEN a.st[q] ELSE a.st[r]
  BY MachXch
<1> HIDE DEF x
<1>3. x.st[p] = a.st[q] /\ x.st[q] = a.st[p]
  BY <1>1, <1>2
<1>4. A!St(x, 0) = x.st[p] /\ A!St(x, i) = x.st[q] /\ A!St(a, 0) = a.st[p] /\ A!St(a, i) = a.st[q]
  BY <1>2, AData DEF A!St
<1>5. \A d : A!Full(x, d) = A!Full(a, d)
  BY <1>2 DEF A!Full
<1> QED BY <1>2, <1>3, <1>4, <1>5 DEF x

\* A store does not change what is handed over.
LEMMA SetHanded ==
  ASSUME NEW a, IsMach(a), NEW d, NEW u, NEW v
  PROVE  A!Give(A!Set(a, d, u), v) = A!Set(A!Give(a, v), d, u)
BY DEF IsMach, A!Give, A!Set, A!Hold

-----------------------------------------------------------------------------
(* Steps fusions share *)

\* The machine a translator's state shows keeps no value in an empty
\* register.
LEMMA TidyMid ==
  ASSUME NEW B, Ready(B)
  PROVE  Tidy(Mid(B))
<1> DEFINE m == LiveAt(B, B.w)
<1>1. TypedState(B) /\ B.w \in Slots
  BY DEF Ready, TypedState
<1>2. /\ IsMach(m)
      /\ \A p \in Slots : m.st[p] = IF m.tag[p]
               THEN B.st[Phys(B.w, B.perm[Depth(B.w, p)])] ELSE NoVal
      /\ \A p \in Slots : B.st[Phys(B.w, B.perm[Depth(B.w, p)])] \in Vals
  BY <1>1, MidFields
<1> HIDE DEF m
<1>3. Tidy(m)
  BY <1>2 DEF Tidy
<1> QED BY <1>3 DEF m, Mid

\* The flushes of a fusion that leaves TOP where it was show the same
\* machine.
LEMMA NetStep ==
  ASSUME NEW B, Ready(B)
  PROVE  LET N == NetZero(B)
         IN  /\ Ready(N) /\ (CanMove(B) => CanMove(N)) /\ Mid(N) = Mid(B) /\ N.run = B.run
             /\ (~keep_pending(B) => N.top = N.w)
<1>1. PICK F : F = x87_flush_top(B) /\ Same(B, F) /\ ~F.td /\ F.pd = B.pd
  BY FlushTop
<1>2. F.top = F.w
  BY <1>1 DEF Same, Ready
<1> QED BY <1>1, <1>2 DEF NetZero, Same, CanMove

\* Such a fusion finds the machine its first instruction is to work on.
LEMMA NowNet ==
  ASSUME NEW S, Sound(S)
  PROVE  LET B == StartNetZero(S)
         IN  /\ Idle(S) /\ Ready(B) /\ CanMove(B) /\ Mid(B) = Now(S) /\ Tidy(Now(S))
             /\ B.run = S.run
<1>1. PICK C : C = Start(S) /\ Ready(C) /\ CanMove(C) /\ Mid(C) = Now(S) /\ C.run = S.run /\ Idle(S)
  BY NowMach
<1>2. Tidy(Now(S))
  BY <1>1, TidyMid
<1> QED BY <1>1, <1>2, NetStep DEF StartNetZero

\* A store to ST(d) and the end of the translator.
LEMMA SetEnd ==
  ASSUME NEW B, Ready(B), CanMove(B), NEW d \in Slots, A!Full(Mid(B), d), NEW r \in Vals, NEW c
  PROVE  Done(c, B, x87_end(SetSt(B, d, r), c), A!Set(Mid(B), d, r))
<1>1. PICK T : T = SetSt(B, d, r) /\ Ready(T) /\ T.run = B.run /\ Mid(T) = A!Set(Mid(B), d, r)
  BY SetStep
<1>2. Done(c, T, x87_end(T, c), Mid(T))
  BY <1>1, EndStep
<1> QED BY <1>1, <1>2 DEF Done

\* A value handed over and the end of the translator.
LEMMA GiveEnd ==
  ASSUME NEW B, Ready(B), CanMove(B), NEW v, NEW c
  PROVE  Done(c, B, x87_end(Give(B, v), c), A!Give(Mid(B), v))
<1>1. PICK T : T = Give(B, v) /\ Ready(T) /\ T.run = B.run /\ Mid(T) = A!Give(Mid(B), v)
  BY GiveStep
<1>2. Done(c, T, x87_end(T, c), Mid(T))
  BY <1>1, EndStep
<1> QED BY <1>1, <1>2 DEF Done

\* What answers from a state with the same run answers from S.
LEMMA Restart ==
  ASSUME NEW S, NEW B, B.run = S.run, NEW c, NEW T, NEW a, Done(c, B, T, a)
  PROVE  Done(c, S, T, a)
BY DEF Done

-----------------------------------------------------------------------------
(* FLD first *)

\* What follows FLD, on the reference machine.
LEMMA AfterFld ==
  ASSUME NEW a, Tidy(a), A!Room(a), NEW v \in Vals, NEW k
  PROVE  LET P == A!PushSt(a, v)
         IN  /\ A!Fstp(P) = A!Give(a, v)
             /\ \A w \in Vals : /\ A!Set(P, 0, w) = A!PushSt(a, w)
                                /\ A!Full(a, 0) => A!PopSt(A!Set(P, 1, w)) = A!Set(a, 0, w)
             /\ A!Full(a, 0) => /\ A!Farithp(P, k) = A!Set(a, 0, Arith(k, A!St(a, 0), v))
                                /\ A!FstpSti(P, 1) = A!Set(a, 0, v)
                                /\ A!St(P, 1) = A!St(a, 0)
             /\ A!St(P, 0) = v
<1> DEFINE P == A!PushSt(a, v)
<1>1. IsMach(a) /\ v \in Held /\ v \in Vals /\ 0 \in Slots
  BY HeldVals, Zeroth DEF Tidy
<1>2. A!St(P, 0) = v
  BY <1>1, TidyPush
<1>3. A!Fstp(P) = A!Give(a, v)
  <2>1. A!Give(P, v) = A!PushSt(A!Give(a, v), v)
    BY <1>1, PushHanded
  <2>2. Tidy(A!Give(a, v)) /\ A!Room(A!Give(a, v))
    <3>1. /\ IsMach(A!Give(a, v)) /\ A!Give(a, v).tag = a.tag /\ A!Give(a, v).st = a.st
          /\ A!Room(A!Give(a, v)) = A!Room(a)
      BY <1>1, Hand, MachGive
    <3> QED BY <3>1 DEF Tidy
  <2>3. A!PopSt(A!PushSt(A!Give(a, v), v)) = A!Give(a, v)
    BY <1>1, <2>2, PopPush
  <2> QED BY <1>2, <2>1, <2>3 DEF A!Fstp, A!Fst
<1>4. ASSUME NEW w \in Vals
      PROVE  A!Set(P, 0, w) = A!PushSt(a, w)
  BY <1>1, HeldVals, SetPush
<1>5. ASSUME NEW w \in Vals, A!Full(a, 0)
      PROVE  A!PopSt(A!Set(P, 1, w)) = A!Set(a, 0, w)
  <2>1. A!Set(P, 1, w) = A!PushSt(A!Set(a, 0, w), v)
    <3>1. A!Set(P, 0 + 1, w) = A!PushSt(A!Set(a, 0, w), v)
      BY <1>1, <1>5, HeldVals, Under
    <3> QED BY <3>1
  <2>2. Tidy(A!Set(a, 0, w))
    BY <1>1, <1>5, TidySet
  <2>3. A!Room(A!Set(a, 0, w))
    BY <1>1, <1>5, HeldVals, MachSetKeeps
  <2> QED BY <1>1, <2>1, <2>2, <2>3, PopPush
<1>6. ASSUME A!Full(a, 0)
      PROVE  /\ A!Farithp(P, k) = A!Set(a, 0, Arith(k, A!St(a, 0), v))
             /\ A!FstpSti(P, 1) = A!Set(a, 0, v) /\ A!St(P, 1) = A!St(a, 0)
  <2>1. A!St(P, 0 + 1) = A!St(a, 0)
    BY <1>1, <1>6, Under
  <2>2. A!St(P, 1) = A!St(a, 0)
    BY <2>1
  <2>3. Arith(k, A!St(a, 0), v) \in Vals
    BY <1>1, <1>6, TidyRead, ArithType
  <2>4. A!FstpSti(P, 1) = A!Set(a, 0, v)
    BY <1>1, <1>2, <1>5, <1>6 DEF A!FstpSti
  <2>5. A!Farithp(P, k) = A!PopSt(A!Set(P, 1, Arith(k, A!St(a, 0), v)))
    BY <1>2, <2>2, AArith DEF A!Farithp
  <2> QED BY <1>5, <1>6, <2>2, <2>3, <2>4, <2>5
<1> QED BY <1>2, <1>3, <1>4, <1>5, <1>6, HeldVals

\* FLD; FADDP and its kin: one operation on ST(0).
LEMMA FldArithpDone ==
  ASSUME NEW S, Sound(S), A!Room(Now(S)), A!Full(Now(S), 0), NEW x, Op(Now(S), x), NEW k
  PROVE  Done(2, S, try_fuse_fld_arithp(S, x, k), A!Farithp(A!Fld(Now(S), x), k))
<1>1. PICK B : B = StartNetZero(S) /\ Ready(B) /\ CanMove(B) /\ Mid(B) = Now(S) /\ Tidy(Now(S))
               /\ B.run = S.run
  BY NowNet
<1>2. PICK v \in Vals : v = Operand(B, x) /\ v = A!Val(Now(S), x)
  BY <1>1, OperandRead
<1>3. PICK u \in Vals : u = St(B, 0) /\ u = A!St(Now(S), 0)
  BY <1>1, ReadStep, Zeroth
<1>4. PICK r \in Vals : r = Arith(k, u, v)
  BY ArithType
<1>5. Done(2, B, x87_end(SetSt(B, 0, r), 2), A!Set(Now(S), 0, r))
  BY <1>1, SetEnd, Zeroth
<1>6. A!Farithp(A!Fld(Now(S), x), k) = A!Set(Now(S), 0, r)
  BY <1>1, <1>2, <1>3, <1>4, AfterFld DEF A!Fld
<1> QED BY <1>1, <1>2, <1>3, <1>4, <1>5, <1>6, Restart DEF try_fuse_fld_arithp

\* FLD; FADD m and its kin: the push of a result.
LEMMA FldArithDone ==
  ASSUME NEW S, Sound(S), A!Room(Now(S)), NEW x, Op(Now(S), x), NEW k, NEW v \in Vals
  PROVE  Done(2, S, try_fuse_fld_arith(S, x, k, v), A!Farith(A!Fld(Now(S), x), k, Mem(v)))
<1>1. PICK B : B = Start(S) /\ Ready(B) /\ CanMove(B) /\ Mid(B) = Now(S) /\ B.run = S.run
  BY NowMach
<1>2. PICK u \in Vals : u = Operand(B, x) /\ u = A!Val(Now(S), x)
  BY <1>1, OperandRead
<1>3. PICK r \in Vals : r = Arith(k, u, v)
  BY ArithType
<1>4. PICK T : T = SetSt(x87_push(B), 0, r) /\ Ready(T) /\ T.run = B.run
               /\ Mid(T) = A!PushSt(Now(S), r)
  BY <1>1, PushStep
<1>5. Done(2, T, x87_end(T, 2), Mid(T))
  BY <1>4, EndStep
<1>6. A!Farith(A!Fld(Now(S), x), k, Mem(v)) = A!PushSt(Now(S), r)
  <2>1. A!St(A!PushSt(Now(S), u), 0) = u /\ A!Set(A!PushSt(Now(S), u), 0, r) = A!PushSt(Now(S), r)
    BY <1>1, TidyMid, AfterFld
  <2> QED BY <1>2, <1>3, <2>1, AArith, Immediate DEF A!Fld, A!Farith
<1> QED BY <1>1, <1>2, <1>3, <1>4, <1>5, <1>6, Restart DEF try_fuse_fld_arith

\* FLD; FSTP: the value goes to memory or to ST(0), past the stack.
LEMMA FldFstpDone ==
  ASSUME NEW S, Sound(S), A!Room(Now(S)), NEW x, Op(Now(S), x)
  PROVE  /\ Done(2, S, try_fuse_fld_fstp(S, x, FALSE), A!Fstp(A!Fld(Now(S), x)))
         /\ A!Full(Now(S), 0) =>
              Done(2, S, try_fuse_fld_fstp(S, x, TRUE), A!FstpSti(A!Fld(Now(S), x), 1))
<1>1. PICK B : B = StartNetZero(S) /\ Ready(B) /\ CanMove(B) /\ Mid(B) = Now(S) /\ Tidy(Now(S))
               /\ B.run = S.run
  BY NowNet
<1>2. PICK v \in Vals : v = Operand(B, x) /\ v = A!Val(Now(S), x)
  BY <1>1, OperandRead
<1>3. Done(2, B, x87_end(Give(B, v), 2), A!Give(Now(S), v))
  BY <1>1, GiveEnd
<1>4. A!Full(Now(S), 0) => Done(2, B, x87_end(SetSt(B, 0, v), 2), A!Set(Now(S), 0, v))
  BY <1>1, SetEnd, Zeroth
<1>5. /\ A!Fstp(A!Fld(Now(S), x)) = A!Give(Now(S), v)
      /\ A!Full(Now(S), 0) => A!FstpSti(A!Fld(Now(S), x), 1) = A!Set(Now(S), 0, v)
  BY <1>1, <1>2, AfterFld DEF A!Fld
<1> QED BY <1>1, <1>2, <1>3, <1>4, <1>5, Restart DEF try_fuse_fld_fstp, StoreTo

\* FILD; FISTP and the 80-bit FLD; FSTP: copies past the stack.
LEMMA ExactCopyDone ==
  ASSUME NEW S, Sound(S), A!Room(Now(S)), NEW v \in Vals
  PROVE  /\ Done(2, S, try_fuse_fild_fistp(S, v), A!Fstp(A!Fld(Now(S), Mem(v))))
         /\ Done(2, S, try_fuse_fld_fstp_m80(S, v), A!Fstp(A!Fld(Now(S), Mem(v))))
<1>1. PICK B : B = StartNetZero(S) /\ Ready(B) /\ CanMove(B) /\ Mid(B) = Now(S) /\ Tidy(Now(S))
               /\ B.run = S.run
  BY NowNet
<1>2. Done(2, B, x87_end(Give(B, v), 2), A!Give(Now(S), v))
  BY <1>1, GiveEnd
<1>3. A!Fstp(A!Fld(Now(S), Mem(v))) = A!Give(Now(S), v)
  BY <1>1, AfterFld, Immediate DEF A!Fld
<1> QED BY <1>1, <1>2, <1>3, Restart DEF try_fuse_fild_fistp, try_fuse_fld_fstp_m80

\* What is handed over last is what is handed over.
LEMMA TidyGive ==
  ASSUME NEW a, Tidy(a), NEW v
  PROVE  /\ Tidy(A!Give(a, v)) /\ A!Room(A!Give(a, v)) = A!Room(a)
         /\ \A u : A!Give(A!Give(a, v), u) = A!Give(a, u)
<1>1. IsMach(a)
  BY DEF Tidy
<1>2. /\ IsMach(A!Give(a, v)) /\ A!Give(a, v).tag = a.tag /\ A!Give(a, v).st = a.st
      /\ A!Room(A!Give(a, v)) = A!Room(a)
  BY <1>1, Hand, MachGive
<1>3. \A u : A!Give(A!Give(a, v), u) = A!Give(a, u)
  BY <1>1 DEF A!Give, IsMach
<1> QED BY <1>2, <1>3 DEF Tidy

\* A copy loaded and stored again below others already loaded.
LEMMA Nested ==
  ASSUME NEW a, Tidy(a), A!Room(a), NEW u \in Vals, NEW v
  PROVE  A!Fstp(A!Give(A!Fld(a, Mem(u)), v)) = A!Give(a, u)
<1>1. IsMach(a) /\ u \in Held
  BY HeldVals DEF Tidy
<1>2. A!Give(A!Fld(a, Mem(u)), v) = A!Fld(A!Give(a, v), Mem(u))
  BY <1>1, Immediate, PushHanded DEF A!Fld
<1>3. Tidy(A!Give(a, v)) /\ A!Room(A!Give(a, v))
  BY TidyGive
<1>4. A!Fstp(A!Fld(A!Give(a, v), Mem(u))) = A!Give(A!Give(a, v), u)
  BY <1>3, AfterFld, Immediate DEF A!Fld
<1> QED BY <1>2, <1>4, TidyGive

\* Two or three nested copies.
LEMMA NestedDone ==
  ASSUME NEW S, Sound(S), A!Room(Now(S)), NEW v1 \in Vals, NEW v2 \in Vals,
         NEW a1, a1 = A!Fld(Now(S), Mem(v1)), A!Room(a1),
         NEW a2, a2 = A!Fld(a1, Mem(v2))
  PROVE  /\ Done(4, S, try_fuse_fild_fistp_nested(S, <<v1, v2>>),
                 A!Give(A!Fstp(A!Fstp(a2)), <<v2, v1>>))
         /\ A!Room(a2) => \A v3 \in Vals :
              Done(6, S, try_fuse_fild_fistp_nested(S, <<v1, v2, v3>>),
                   A!Give(A!Fstp(A!Fstp(A!Fstp(A!Fld(a2, Mem(v3))))), <<v3, v2, v1>>))
<1>1. PICK B : B = StartNetZero(S) /\ Ready(B) /\ CanMove(B) /\ Mid(B) = Now(S) /\ Tidy(Now(S))
               /\ B.run = S.run
  BY NowNet
<1>2. ASSUME NEW w, NEW c
      PROVE  Done(c, S, x87_end(Give(B, w), c), A!Give(Now(S), w))
  BY <1>1, GiveEnd, Restart
<1>3. Tidy(a1) /\ Tidy(a2)
  <2>1. A!Fld(Now(S), Mem(v1)) = A!PushSt(Now(S), v1)
    BY Immediate DEF A!Fld
  <2>2. Tidy(a1)
    BY <1>1, <2>1, TidyPush
  <2>3. A!Fld(a1, Mem(v2)) = A!PushSt(a1, v2)
    BY Immediate DEF A!Fld
  <2> QED BY <2>2, <2>3, TidyPush
<1>4. /\ A!Fstp(a2) = A!Give(a1, v2)
      /\ A!Fstp(A!Give(a1, v2)) = A!Give(Now(S), v1)
  <2>1. A!Fstp(a2) = A!Give(a1, v2)
    BY <1>3, AfterFld, Immediate DEF A!Fld
  <2> QED BY <1>1, <2>1, Nested
<1>5. A!Give(A!Fstp(A!Fstp(a2)), <<v2, v1>>) = A!Give(Now(S), <<v2, v1>>)
  BY <1>1, <1>4, TidyGive
<1>6. try_fuse_fild_fistp_nested(S, <<v1, v2>>) = x87_end(Give(B, <<v2, v1>>), 4)
  <2>1. Len(<<v1, v2>>) = 2 /\ [j \in 1 .. 2 |-> <<v1, v2>>[2 + 1 - j]] = <<v2, v1>>
    OBVIOUS
  <2> QED BY <1>1, <2>1 DEF try_fuse_fild_fistp_nested
<1>7. ASSUME A!Room(a2), NEW v3 \in Vals
      PROVE  Done(6, S, try_fuse_fild_fistp_nested(S, <<v1, v2, v3>>),
                  A!Give(A!Fstp(A!Fstp(A!Fstp(A!Fld(a2, Mem(v3))))), <<v3, v2, v1>>))
  <2>1. A!Fstp(A!Fld(a2, Mem(v3))) = A!Give(a2, v3)
    BY <1>3, <1>7, AfterFld, Immediate DEF A!Fld
  <2>2. A!Fstp(A!Give(a2, v3)) = A!Give(a1, v2)
    BY <1>3, Nested
  <2>3. A!Give(A!Fstp(A!Fstp(A!Fstp(A!Fld(a2, Mem(v3))))), <<v3, v2, v1>>)
          = A!Give(Now(S), <<v3, v2, v1>>)
    BY <1>1, <1>4, <2>1, <2>2, TidyGive
  <2>4. try_fuse_fild_fistp_nested(S, <<v1, v2, v3>>) = x87_end(Give(B, <<v3, v2, v1>>), 6)
    <3>1. Len(<<v1, v2, v3>>) = 3 /\ [j \in 1 .. 3 |-> <<v1, v2, v3>>[3 + 1 - j]] = <<v3, v2, v1>>
      OBVIOUS
    <3> QED BY <1>1, <3>1 DEF try_fuse_fild_fistp_nested
  <2> QED BY <1>2, <2>3, <2>4
<1> QED BY <1>2, <1>5, <1>6, <1>7

\* y is the second operand, and z the same operand named after FLD.
LEMMA FldArithFstpDone ==
  ASSUME NEW S, Sound(S), A!Room(Now(S)), NEW x, Op(Now(S), x), NEW k, NEW y, Op(Now(S), y),
         NEW z, \A u \in Vals : A!Val(A!PushSt(Now(S), u), z) = A!Val(Now(S), y)
  PROVE  LET a == A!Farith(A!Fld(Now(S), x), k, z)
         IN  /\ Done(3, S, try_fuse_fld_arith_fstp(S, x, k, y, FALSE), A!Fstp(a))
             /\ A!Full(Now(S), 0) =>
                  Done(3, S, try_fuse_fld_arith_fstp(S, x, k, y, TRUE), A!FstpSti(a, 1))
             /\ \A kp : A!Full(Now(S), 0) =>
                  Done(3, S, try_fuse_fld_arith_arithp(S, x, k, y, kp), A!Farithp(a, kp))
<1>1. PICK B : B = StartNetZero(S) /\ Ready(B) /\ CanMove(B) /\ Mid(B) = Now(S) /\ Tidy(Now(S))
               /\ B.run = S.run
  BY NowNet
<1>2. PICK u \in Vals : u = Operand(B, x) /\ u = A!Val(Now(S), x)
  BY <1>1, OperandRead
<1>3. PICK v \in Vals : v = Operand(B, y) /\ v = A!Val(Now(S), y)
  BY <1>1, OperandRead
<1>4. PICK r \in Vals : r = Arith(k, u, v)
  BY ArithType
<1>5. A!Farith(A!Fld(Now(S), x), k, z) = A!PushSt(Now(S), r)
  <2>1. A!St(A!PushSt(Now(S), u), 0) = u /\ A!Set(A!PushSt(Now(S), u), 0, r) = A!PushSt(Now(S), r)
    BY <1>1, AfterFld
  <2> QED BY <1>2, <1>3, <1>4, <2>1, AArith DEF A!Fld, A!Farith
<1>6. Done(3, S, try_fuse_fld_arith_fstp(S, x, k, y, FALSE), A!Fstp(A!PushSt(Now(S), r)))
  <2>1. Done(3, B, x87_end(Give(B, r), 3), A!Give(Now(S), r))
    BY <1>1, GiveEnd
  <2>2. A!Fstp(A!PushSt(Now(S), r)) = A!Give(Now(S), r)
    BY <1>1, AfterFld
  <2> QED BY <1>1, <1>2, <1>3, <1>4, <2>1, <2>2, Restart DEF try_fuse_fld_arith_fstp, StoreTo
<1>7. ASSUME A!Full(Now(S), 0)
      PROVE  Done(3, S, try_fuse_fld_arith_fstp(S, x, k, y, TRUE),
                  A!FstpSti(A!PushSt(Now(S), r), 1))
  <2>1. Done(3, B, x87_end(SetSt(B, 0, r), 3), A!Set(Now(S), 0, r))
    BY <1>1, <1>7, SetEnd, Zeroth
  <2>2. A!FstpSti(A!PushSt(Now(S), r), 1) = A!Set(Now(S), 0, r)
    BY <1>1, <1>7, AfterFld
  <2> QED BY <1>1, <1>2, <1>3, <1>4, <2>1, <2>2, Restart DEF try_fuse_fld_arith_fstp, StoreTo
<1>8. ASSUME A!Full(Now(S), 0), NEW kp
      PROVE  Done(3, S, try_fuse_fld_arith_arithp(S, x, k, y, kp),
                  A!Farithp(A!PushSt(Now(S), r), kp))
  <2>1. PICK w \in Vals : w = St(B, 0) /\ w = A!St(Now(S), 0)
    BY <1>1, <1>8, ReadStep, Zeroth
  <2>2. PICK q \in Vals : q = Arith(kp, w, r)
    BY ArithType
  <2>3. Done(3, B, x87_end(SetSt(B, 0, q), 3), A!Set(Now(S), 0, q))
    BY <1>1, <1>8, SetEnd, Zeroth
  <2>4. A!Farithp(A!PushSt(Now(S), r), kp) = A!Set(Now(S), 0, q)
    BY <1>1, <1>8, <2>1, <2>2, AfterFld
  <2> QED BY <1>1, <1>2, <1>3, <1>4, <2>1, <2>2, <2>3, <2>4, Restart DEF try_fuse_fld_arith_arithp
<1> QED BY <1>5, <1>6, <1>7, <1>8

\* CompareOnto sets the condition code, and hands the status word over if
\* asked to.
LEMMA OntoStep ==
  ASSUME NEW B, Ready(B), CanMove(B), NEW c \in Vals
  PROVE  LET a == [Mid(B) EXCEPT !.cc = c]
             F == CompareOnto(B, c, FALSE)
             T == CompareOnto(B, c, TRUE)
         IN  /\ Ready(F) /\ CanMove(F) /\ F.run = B.run /\ Mid(F) = a
             /\ Ready(T) /\ CanMove(T) /\ T.run = B.run /\ Mid(T) = A!Fstsw(a)
<1>1. PICK N : /\ N = NetZero(B) /\ Ready(N) /\ CanMove(N) /\ Mid(N) = Mid(B) /\ N.run = B.run
               /\ (~keep_pending(B) => N.top = N.w)
  BY NetStep
<1> DEFINE F == [N EXCEPT !.cc = c]
<1>2. Ready(F) /\ Mid(F) = [Mid(N) EXCEPT !.cc = c] /\ F.run = N.run /\ F.pd = N.pd
  BY <1>1, HeldVals, Compared
<1>3. F.top = N.top /\ F.w = N.w
  BY <1>1 DEF Ready, TypedState
<1>4. CompareOnto(B, c, FALSE) = F
  BY <1>1 DEF CompareOnto, emit_fcom_cc_write_sw
<1>5. CompareOnto(B, c, TRUE) = Give(F, <<IF keep_pending(B) THEN F.w ELSE F.top, F.cc>>)
  BY <1>1 DEF CompareOnto, emit_fcom_cc_write_sw
<1> HIDE DEF F
<1>6. CanMove(F)
  BY <1>1, <1>2 DEF CanMove
<1>7. <<IF keep_pending(B) THEN F.w ELSE F.top, F.cc>> = <<Mid(F).top, Mid(F).cc>>
  BY <1>1, <1>3 DEF Mid, LiveAt
<1>8. PICK T : /\ T = Give(F, <<Mid(F).top, Mid(F).cc>>) /\ Ready(T) /\ CanMove(T) /\ T.run = F.run
               /\ Mid(T) = A!Give(Mid(F), <<Mid(F).top, Mid(F).cc>>)
  BY <1>2, <1>6, GiveStep
<1>9. Mid(T) = A!Fstsw(Mid(F))
  BY <1>8 DEF A!Fstsw, A!StatusWord
<1> QED BY <1>1, <1>2, <1>4, <1>5, <1>6, <1>7, <1>8, <1>9

\* The same as a whole translator.
LEMMA OntoDone ==
  ASSUME NEW S, Sound(S), NEW c \in Vals, NEW n
  PROVE  LET a == [Now(S) EXCEPT !.cc = c]
         IN  /\ Done(n, S, x87_end(CompareOnto(Start(S), c, FALSE), n), a)
             /\ Done(n, S, x87_end(CompareOnto(Start(S), c, TRUE), n), A!Fstsw(a))
<1>1. PICK B : B = Start(S) /\ Ready(B) /\ CanMove(B) /\ Mid(B) = Now(S) /\ B.run = S.run
  BY NowMach
<1> DEFINE F == CompareOnto(B, c, FALSE)
           T == CompareOnto(B, c, TRUE)
           a == [Mid(B) EXCEPT !.cc = c]
<1>2. /\ Ready(F) /\ CanMove(F) /\ F.run = B.run /\ Mid(F) = a
      /\ Ready(T) /\ CanMove(T) /\ T.run = B.run /\ Mid(T) = A!Fstsw(a)
  BY <1>1, OntoStep
<1> HIDE DEF F, T
<1>3. Done(n, F, x87_end(F, n), Mid(F)) /\ Done(n, T, x87_end(T, n), Mid(T))
  BY <1>2, EndStep
<1>4. Done(n, S, x87_end(F, n), Mid(F)) /\ Done(n, S, x87_end(T, n), Mid(T))
  BY <1>1, <1>2, <1>3, Restart
<1> QED BY <1>1, <1>2, <1>4 DEF F, T

\* A comparison that pops what FLD pushed.
LEMMA FldCompared ==
  ASSUME NEW a, Tidy(a), A!Room(a), NEW u \in Vals, NEW c
  PROVE  A!PopSt([A!PushSt(a, u) EXCEPT !.cc = c]) = [a EXCEPT !.cc = c]
<1>1. IsMach(a) /\ u \in Held
  BY HeldVals DEF Tidy
<1> DEFINE b == [a EXCEPT !.cc = c]
<1>2. /\ IsMach(b) /\ b.top = a.top /\ b.tag = a.tag /\ b.st = a.st
  BY <1>1, MachCompare
<1>3. [A!PushSt(a, u) EXCEPT !.cc = c] = A!PushSt(b, u)
  BY <1>1, PushCompared
<1> HIDE DEF b
<1>4. Tidy(b) /\ A!Room(b)
  BY <1>2 DEF Tidy, A!Room
<1>5. A!PopSt(A!PushSt(b, u)) = b
  BY <1>1, <1>4, PopPush
<1> QED BY <1>3, <1>5 DEF b

\* FLD; FCOMP, and with FSTSW.
LEMMA FldFcompDone ==
  ASSUME NEW S, Sound(S), A!Room(Now(S)), NEW x, Op(Now(S), x), NEW y, Op(Now(S), y),
         NEW z, \A u \in Vals : A!Val(A!PushSt(Now(S), u), z) = A!Val(Now(S), y)
  PROVE  LET a == A!Fcom(A!Fld(Now(S), x), z, 1)
         IN  /\ Done(2, S, try_fuse_fld_fcomp(S, x, y), a)
             /\ Done(3, S, try_fuse_fld_fcomp_fstsw(S, x, y), A!Fstsw(a))
<1>1. PICK B : B = Start(S) /\ Ready(B) /\ CanMove(B) /\ Mid(B) = Now(S) /\ B.run = S.run
  BY NowMach
<1>2. PICK u \in Vals : u = Operand(B, x) /\ u = A!Val(Now(S), x)
  BY <1>1, OperandRead
<1>3. PICK v \in Vals : v = Operand(B, y) /\ v = A!Val(Now(S), y)
  BY <1>1, OperandRead
<1>4. PICK c \in Vals : c = Cmp(u, v)
  BY ValsAssumption
<1>5. A!Fcom(A!Fld(Now(S), x), z, 1) = [Now(S) EXCEPT !.cc = c]
  <2>1. A!St(A!PushSt(Now(S), u), 0) = u
    BY <1>1, TidyMid, AfterFld
  <2>2. A!Val(A!PushSt(Now(S), u), z) = v
    BY <1>3
  <2>3. A!PopSt([A!PushSt(Now(S), u) EXCEPT !.cc = c]) = [Now(S) EXCEPT !.cc = c]
    BY <1>1, TidyMid, FldCompared
  <2> QED BY <1>2, <1>4, <2>1, <2>2, <2>3 DEF A!Fld, A!Fcom, A!Compare
<1>6. \A n : /\ Done(n, S, x87_end(CompareOnto(B, c, FALSE), n), [Now(S) EXCEPT !.cc = c])
             /\ Done(n, S, x87_end(CompareOnto(B, c, TRUE), n), A!Fstsw([Now(S) EXCEPT !.cc = c]))
  BY <1>1, OntoDone
<1> QED BY <1>1, <1>2, <1>3, <1>4, <1>5, <1>6 DEF try_fuse_fld_fcomp, try_fuse_fld_fcomp_fstsw

\* The status word in AX, its TOP from the register: P is what the pops left.
LEMMA StatusEnd ==
  ASSUME NEW P, Ready(P), CanMove(P), NEW n
  PROVE  Done(n, P, x87_end(Give(P, <<P.w, P.cc>>), n), A!Fstsw(Mid(P)))
<1>1. Mid(P).top = P.w /\ Mid(P).cc = P.cc
  BY DEF Mid, LiveAt
<1>2. Done(n, P, x87_end(Give(P, <<P.w, P.cc>>), n), A!Give(Mid(P), <<P.w, P.cc>>))
  BY GiveEnd
<1> QED BY <1>1, <1>2 DEF A!Fstsw, A!StatusWord

\* Flushing TOP and setting the condition code.
LEMMA FlushCompare ==
  ASSUME NEW B, Ready(B), NEW c \in Vals
  PROVE  LET C == emit_fcom_cc_write_sw(x87_flush_top(B), c)
         IN  /\ Ready(C) /\ (CanMove(B) => CanMove(C)) /\ C.run = B.run
             /\ Mid(C) = [Mid(B) EXCEPT !.cc = c] /\ C.top = C.w /\ C.cc = c
<1>1. PICK F : F = x87_flush_top(B) /\ Same(B, F) /\ ~F.td /\ F.pd = B.pd
  BY FlushTop
<1>2. Ready(F) /\ F.top = F.w /\ TypedState(F)
  BY <1>1 DEF Same, Ready
<1> DEFINE C == [F EXCEPT !.cc = c]
<1>3. Ready(C) /\ Mid(C) = [Mid(F) EXCEPT !.cc = c] /\ C.run = F.run /\ C.pd = F.pd
  BY <1>2, HeldVals, Compared
<1>4. C.top = F.top /\ C.w = F.w /\ C.cc = c
  BY <1>2 DEF TypedState
<1> QED BY <1>1, <1>2, <1>3, <1>4 DEF Same, CanMove, emit_fcom_cc_write_sw

\* FLD; FCOMPP; FSTSW.
LEMMA FldFcomppDone ==
  ASSUME NEW S, Sound(S), A!Room(Now(S)), A!Full(Now(S), 0), NEW x, Op(Now(S), x)
  PROVE  Done(3, S, try_fuse_fld_fcompp_fstsw(S, x), A!Fstsw(A!Fcom(A!Fld(Now(S), x), Reg(1), 2)))
<1>1. PICK B : B = Start(S) /\ Ready(B) /\ CanMove(B) /\ Mid(B) = Now(S) /\ B.run = S.run
  BY NowMach
<1>2. PICK u \in Vals : u = Operand(B, x) /\ u = A!Val(Now(S), x)
  BY <1>1, OperandRead
<1>3. PICK v \in Vals : v = St(B, 0) /\ v = A!St(Now(S), 0)
  BY <1>1, ReadStep, Zeroth
<1>4. PICK c \in Vals : c = Cmp(u, v)
  BY ValsAssumption
<1> DEFINE C == emit_fcom_cc_write_sw(x87_flush_top(B), c)
           m == [Now(S) EXCEPT !.cc = c]
<1>5. Ready(C) /\ CanMove(C) /\ C.run = B.run /\ Mid(C) = m
  <2>1. c \in Vals /\ Ready(B) /\ CanMove(B) /\ m = [Mid(B) EXCEPT !.cc = c]
    BY <1>1, <1>4
  <2> QED BY <2>1, FlushCompare
<1>6. A!Full(Mid(C), 0)
  <2>1. IsMach(Now(S))
    BY <1>1, MidMach
  <2>2. A!Full(m, 0) = A!Full(Now(S), 0)
    BY <2>1, MachCompare
  <2> QED BY <1>5, <2>2
<1> HIDE DEF C
<1>7. PICK P : P = x87_pop(C) /\ Ready(P) /\ CanMove(P) /\ P.run = C.run /\ Mid(P) = A!PopSt(Mid(C))
  BY <1>5, <1>6, PopStep
<1>8. Done(3, P, x87_end(Give(P, <<P.w, P.cc>>), 3), A!Fstsw(Mid(P)))
  BY <1>7, StatusEnd
<1>9. A!Fcom(A!Fld(Now(S), x), Reg(1), 2) = Mid(P)
  <2>1. A!St(A!PushSt(Now(S), u), 0) = u /\ A!St(A!PushSt(Now(S), u), 1) = v
    BY <1>1, <1>3, TidyMid, AfterFld
  <2>2. A!PopSt([A!PushSt(Now(S), u) EXCEPT !.cc = c]) = [Now(S) EXCEPT !.cc = c]
    BY <1>1, TidyMid, FldCompared
  <2> QED BY <1>2, <1>4, <1>5, <1>7, <2>1, <2>2 DEF A!Fld, A!Fcom, A!Compare, A!Val, Reg
<1> QED BY <1>1, <1>2, <1>3, <1>4, <1>5, <1>7, <1>8, <1>9, Restart DEF try_fuse_fld_fcompp_fstsw, C

\* FLD; FLD; FUCOMPP, and with FSTSW.
LEMMA FldFldDone ==
  ASSUME NEW S, Sound(S), A!Room(Now(S)), NEW x1, Op(Now(S), x1),
         NEW a1, a1 = A!Fld(Now(S), x1), A!Room(a1), NEW x2, Op(a1, x2)
  PROVE  LET a == A!Fcom(A!Fld(a1, x2), Reg(1), 2)
         IN  /\ Done(3, S, try_fuse_fld_fld_fucompp(S, x1, x2, FALSE), a)
             /\ Done(4, S, try_fuse_fld_fld_fucompp(S, x1, x2, TRUE), A!Fstsw(a))
<1>1. PICK B : B = Start(S) /\ Ready(B) /\ CanMove(B) /\ Mid(B) = Now(S) /\ B.run = S.run
               /\ IsMach(Now(S))
  BY NowMach
<1>2. PICK u1 \in Vals : u1 = Operand(B, x1) /\ u1 = A!Val(Now(S), x1)
  BY <1>1, OperandRead
<1>3. a1 = A!PushSt(Now(S), u1) /\ Tidy(Now(S)) /\ Tidy(a1) /\ A!St(a1, 0) = u1 /\ A!Full(a1, 0)
  BY <1>1, <1>2, TidyMid, TidyPush DEF A!Fld
<1>4. PICK u2 \in Vals : /\ u2 = A!Val(a1, x2)
                         /\ u2 = IF x2.mem THEN x2.v ELSE IF x2.i = 0 THEN u1 ELSE St(B, x2.i - 1)
  <2>1. CASE x2.mem
    BY <2>1 DEF Op, A!Val
  <2>2. CASE ~x2.mem /\ x2.i = 0
    BY <1>3, <2>2 DEF A!Val
  <2>3. CASE ~x2.mem /\ x2.i # 0
    <3>0. x2.i \in Slots /\ A!Full(a1, x2.i)
      BY <2>3 DEF Op
    <3> DEFINE i == x2.i - 1
    <3>90. i \in Slots /\ x2.i = i + 1 /\ i + 1 \in Slots
      BY <2>3, <3>0, NSlotsAssumption DEF Slots
    <3> HIDE DEF i
    <3>1. i \in Slots /\ x2.i = i + 1 /\ i + 1 \in Slots /\ A!Full(a1, i + 1)
      BY <3>0, <3>90
    <3>2. A!Full(Now(S), i)
      <4>1. /\ a1.top = Dec(Now(S).top) /\ Now(S).top \in Slots /\ IsMach(Now(S))
            /\ \A q \in Slots : a1.tag[q] <=> (q = Dec(Now(S).top) \/ Now(S).tag[q])
        <5>1. IsMach(Now(S)) /\ u1 \in Held /\ Now(S).top \in Slots
          BY <1>1, HeldVals DEF IsMach
        <5> QED BY <1>3, <5>1, MachPush
      <4>2. /\ Phys(Dec(Now(S).top), i + 1) = Phys(Now(S).top, i) /\ Phys(Now(S).top, i) \in Slots
            /\ Phys(Now(S).top, i) # Dec(Now(S).top)
        BY <3>1, <4>1, NSlotsAssumption DEF Slots, Phys, Dec
      <4>3. a1.tag[Phys(Now(S).top, i)]
        BY <3>1, <4>1, <4>2, AData DEF A!Full
      <4> QED BY <4>1, <4>2, <4>3, AData DEF A!Full
    <3>3. A!St(a1, i + 1) = A!St(Now(S), i)
      BY <1>2, <1>3, <3>1, <3>2, HeldVals, Under
    <3>4. St(B, i) = A!St(Now(S), i) /\ A!St(Now(S), i) \in Vals
      BY <1>1, <3>1, <3>2, ReadStep
    <3> QED BY <2>3, <3>1, <3>3, <3>4 DEF A!Val, i
  <2> QED BY <2>1, <2>2, <2>3
<1>5. PICK c \in Vals : c = Cmp(u2, u1)
  BY ValsAssumption
<1>6. A!Fcom(A!Fld(a1, x2), Reg(1), 2) = [Now(S) EXCEPT !.cc = c]
  <2>1. A!St(A!PushSt(a1, u2), 0) = u2 /\ A!St(A!PushSt(a1, u2), 1) = u1
    BY <1>3, AfterFld
  <2>2. A!PopSt([A!PushSt(a1, u2) EXCEPT !.cc = c]) = [a1 EXCEPT !.cc = c]
    BY <1>3, FldCompared
  <2>3. A!PopSt([a1 EXCEPT !.cc = c]) = [Now(S) EXCEPT !.cc = c]
    BY <1>3, FldCompared
  <2> QED BY <1>4, <1>5, <2>1, <2>2, <2>3 DEF A!Fld, A!Fcom, A!Compare, A!Val, Reg
<1>7. \A n : /\ Done(n, S, x87_end(CompareOnto(B, c, FALSE), n), [Now(S) EXCEPT !.cc = c])
             /\ Done(n, S, x87_end(CompareOnto(B, c, TRUE), n), A!Fstsw([Now(S) EXCEPT !.cc = c]))
  BY <1>1, OntoDone
<1> QED BY <1>1, <1>2, <1>4, <1>5, <1>6, <1>7 DEF try_fuse_fld_fld_fucompp

-----------------------------------------------------------------------------
(* Comparisons that pop *)

\* The machine after n registers are popped.
PopsOf(a, n) == CASE n = 0 -> a
                  [] n = 1 -> A!PopSt(a)
                  [] OTHER -> A!PopSt(A!PopSt(a))

\* Pops pops what FCOM, FCOMP and FCOMPP do; a permutation may be pending
\* without a run only if none is popped.
LEMMA PopsStep ==
  ASSUME NEW C, Ready(C), NEW n \in {0, 1, 2}, n = 0 \/ CanMove(C), A!Full(Mid(C), 0)
  PROVE  LET P == Pops(C, n)
         IN  /\ Ready(P) /\ P.run = C.run /\ Mid(P) = PopsOf(Mid(C), n)
             /\ P.cc = C.cc /\ (n = 0 => P = C)
<1>1. IsMach(Mid(C)) /\ Mid(C).cc = C.cc
  BY MidMach DEF Mid, LiveAt
<1>2. CASE n = 0
  BY <1>2 DEF Pops, PopsOf
<1>3. CASE n = 1
  <2>1. PICK P : P = x87_pop(C) /\ Ready(P) /\ P.run = C.run /\ Mid(P) = A!PopSt(Mid(C))
    BY <1>3, PopStep
  <2>2. A!PopSt(Mid(C)).cc = Mid(C).cc
    BY <1>1, MachPop
  <2>3. P.cc = C.cc
    BY <1>1, <2>1, <2>2 DEF Mid, LiveAt
  <2> QED BY <1>3, <2>1, <2>3 DEF Pops, PopsOf
<1>4. CASE n = 2
  <2>1. PICK P : /\ P = x87_pop_n(C, 2) /\ Ready(P) /\ P.run = C.run
                 /\ Mid(P) = A!PopSt(A!PopSt(Mid(C)))
    BY <1>4, PopTwo
  <2>2. A!PopSt(A!PopSt(Mid(C))).cc = Mid(C).cc
    <3>1. IsMach(A!PopSt(Mid(C))) /\ A!PopSt(Mid(C)).cc = Mid(C).cc
      BY <1>1, MachPop
    <3>2. A!PopSt(A!PopSt(Mid(C))).cc = A!PopSt(Mid(C)).cc
      BY <3>1, MachPop
    <3> QED BY <3>1, <3>2
  <2>3. P.cc = C.cc
    BY <1>1, <2>1, <2>2 DEF Mid, LiveAt
  <2> QED BY <1>4, <2>1, <2>3 DEF Pops, PopsOf
<1> QED BY <1>2, <1>3, <1>4

\* The reference comparison, pops and all.
LEMMA FcomPops ==
  ASSUME NEW a, NEW x, NEW n \in {0, 1, 2}
  PROVE  A!Fcom(a, x, n) = PopsOf(A!Compare(a, A!Val(a, x)), n)
BY DEF A!Fcom, PopsOf

\* A comparison that pops n registers, from its start to its end.
LEMMA CompareEnd ==
  ASSUME NEW E, Idle(E), A!Full(Now(E), 0), NEW x, Op(Now(E), x), NEW n \in {0, 1, 2},
         n = 0 \/ CanMove(E), NEW k
  PROVE  Done(k, E, x87_end(Pops(Compare(Start(E), x), n), k), A!Fcom(Now(E), x, n))
<1>1. PICK B : /\ B = Start(E) /\ Ready(B) /\ (CanMove(E) => CanMove(B)) /\ B.run = E.run
               /\ Mid(B) = Now(E)
  BY Started DEF Now
<1>2. PICK C : /\ C = Compare(B, x) /\ Ready(C) /\ (CanMove(B) => CanMove(C)) /\ C.run = B.run
               /\ Mid(C) = A!Compare(Now(E), A!Val(Now(E), x)) /\ A!Full(Mid(C), 0)
  BY <1>1, CompareStep
<1>3. PICK P : P = Pops(C, n) /\ Ready(P) /\ P.run = C.run /\ Mid(P) = PopsOf(Mid(C), n)
  BY <1>1, <1>2, PopsStep
<1>4. Done(k, P, x87_end(P, k), Mid(P))
  BY <1>3, EndStep
<1> QED BY <1>1, <1>2, <1>3, <1>4, FcomPops, Restart

\* The translators are those.
LEMMA CompareForms ==
  ASSUME NEW E, NEW x
  PROVE  /\ translate_fcom(E, x) = x87_end(Pops(Compare(Start(E), x), 0), 1)
         /\ translate_fcomp(E, x) = x87_end(Pops(Compare(Start(E), x), 1), 1)
         /\ translate_fcompp(E) = x87_end(Pops(Compare(Start(E), Reg(1)), 2), 1)
BY DEF translate_fcom, translate_fcomp, translate_fcompp, Pops

\* FCOM, FCOMP or FCOMPP; FSTSW.
LEMMA FcomFstswDone ==
  ASSUME NEW E, Idle(E), A!Full(Now(E), 0), NEW x, Op(Now(E), x), NEW n \in {0, 1, 2},
         n = 0 \/ CanMove(E)
  PROVE  Done(2, E, try_fuse_fcom_fstsw(E, x, n), A!Fstsw(A!Fcom(Now(E), x, n)))
<1>1. PICK B : /\ B = Start(E) /\ Ready(B) /\ (CanMove(E) => CanMove(B)) /\ B.run = E.run
               /\ Mid(B) = Now(E) /\ IsMach(Now(E))
  BY Started DEF Now
<1>2. PICK u \in Vals : u = St(B, 0) /\ u = A!St(Now(E), 0)
  BY <1>1, ReadStep, Zeroth
<1>3. PICK v \in Vals : v = Operand(B, x) /\ v = A!Val(Now(E), x)
  BY <1>1, OperandRead
<1>4. PICK c \in Vals : c = Cmp(u, v)
  BY ValsAssumption
<1> DEFINE C == emit_fcom_cc_write_sw(x87_flush_top(B), c)
           m == [Now(E) EXCEPT !.cc = c]
<1>5. /\ Ready(C) /\ (CanMove(B) => CanMove(C)) /\ C.run = B.run /\ Mid(C) = m
      /\ C.top = C.w /\ C.cc = c
  <2>1. c \in Vals /\ Ready(B) /\ m = [Mid(B) EXCEPT !.cc = c]
    BY <1>1, <1>4
  <2> QED BY <2>1, FlushCompare
<1>6. A!Full(m, 0)
  BY <1>1, MachCompare
<1>7. m = A!Compare(Now(E), A!Val(Now(E), x))
  BY <1>2, <1>3, <1>4 DEF A!Compare
<1> HIDE DEF C, m
<1>8. PICK P : /\ P = Pops(C, n) /\ Ready(P) /\ P.run = C.run /\ Mid(P) = PopsOf(m, n)
               /\ P.cc = C.cc /\ (n = 0 => P = C)
  BY <1>1, <1>5, <1>6, PopsStep
<1>9. <<IF n = 0 THEN C.top ELSE P.w, C.cc>> = <<Mid(P).top, Mid(P).cc>>
  BY <1>5, <1>8 DEF Mid, LiveAt
<1> DEFINE w == <<Mid(P).top, Mid(P).cc>>
           T == Give(P, w)
<1>10. Ready(T) /\ T.run = P.run /\ Mid(T) = A!Give(Mid(P), w)
  <2> HIDE DEF w
  <2> QED BY <1>8, Handed DEF Give
<1>11. Done(2, T, x87_end(T, 2), A!Fstsw(Mid(P)))
  <2>1. A!Give(Mid(P), w) = A!Fstsw(Mid(P))
    BY DEF A!Fstsw, A!StatusWord
  <2> QED BY <1>10, <2>1, EndStep
<1>12. A!Fcom(Now(E), x, n) = Mid(P)
  BY <1>7, <1>8, FcomPops
<1>13. try_fuse_fcom_fstsw(E, x, n) = x87_end(T, 2)
  BY <1>1, <1>2, <1>3, <1>4, <1>8, <1>9, <1>10 DEF try_fuse_fcom_fstsw, C
<1> QED BY <1>1, <1>5, <1>8, <1>10, <1>11, <1>12, <1>13, Restart

-----------------------------------------------------------------------------
(* FXCH first *)

\* The tick FXCH takes early, away from the end of the run.
LEMMA AbsorbStep ==
  ASSUME NEW S, Idle(S), S.run # 1
  PROVE  LET E == Absorb(S)
         IN  /\ Idle(E) /\ (CanMove(S) => CanMove(E)) /\ Live(E) = Live(S)
             /\ E.run = IF S.run > 0 THEN S.run - 1 ELSE 0
<1> SUFFICES ASSUME NEW E, E = Absorb(S)
             PROVE  /\ Idle(E) /\ (CanMove(S) => CanMove(E)) /\ Live(E) = Live(S)
                    /\ E.run = IF S.run > 0 THEN S.run - 1 ELSE 0
  OBVIOUS
<1>1. TypedState(S) /\ S.run \in Nat
  BY DEF Idle, TypedState
<1>2. CASE S.run = 0
  BY <1>1, <1>2 DEF Absorb
<1>3. CASE S.run # 0
  <2> DEFINE n == S.run - 1
  <2>1. n \in Nat /\ n > 0 /\ S.run > 0
    BY <1>1, <1>3
  <2>2. E = [S EXCEPT !.run = n]
    BY <2>1 DEF Absorb
  <2>3. S.run - 1 = n
    OBVIOUS
  <2> HIDE DEF n
  <2>4. E = Rec(S.top, S.tag, S.st, S.cc, S.w, n, S.gv, S.td, S.tpp, S.dpc, S.perm, S.pd, S.out)
    BY <1>1, <2>2 DEF TypedState, Rec
  <2>5. TypedState(E)
    BY <1>1, <2>1, <2>4 DEF TypedState, Rec
  <2>6. /\ E.top = S.top /\ E.tag = S.tag /\ E.st = S.st /\ E.cc = S.cc /\ E.w = S.w /\ E.run = n
        /\ E.gv = S.gv /\ E.td = S.td /\ E.tpp = S.tpp /\ E.dpc = S.dpc /\ E.perm = S.perm
        /\ E.pd = S.pd /\ E.out = S.out
    BY <2>4 DEF Rec
  <2>7. Idle(E)
    BY <2>1, <2>5, <2>6 DEF Idle
  <2>8. LiveTop(E) = LiveTop(S) /\ \A t : TagAt(E, t) = TagAt(S, t)
    BY <2>6 DEF LiveTop, TagAt
  <2>9. Live(E) = Live(S)
    BY <2>6, <2>8 DEF Live, LiveAt, StAt
  <2> QED BY <2>1, <2>3, <2>6, <2>7, <2>9 DEF CanMove
<1> QED BY <1>2, <1>3

\* Counted again by the reply, the tick still leaves the last instruction of
\* the run to flush, if the run does not end between the two counts.
LEMMA AbsorbedAnswers ==
  ASSUME NEW S, TypedState(S), NEW n \in {1, 2}, S.run \notin {1, n + 2}, NEW E,
         E.run = IF S.run > 0 THEN S.run - 1 ELSE 0, NEW T, NEW a, Done(n, E, T, a)
  PROVE  Answers(n + 1, S, T, a)
<1>1. S.run \in Nat /\ Ready(T) /\ T.run = E.run /\ T.run \in Nat /\ Mid(T) = a
      /\ (T.run <= n => Clean(T))
  BY DEF Done, Ready, TypedState
<1>2. T.run <= S.run /\ (T.run <= n + 1 => T.run <= n)
  BY <1>1
<1>3. T.run = 0 => ~T.td
  BY <1>1 DEF Clean
<1>4. Idle(T) /\ Live(T) = Mid(T)
  BY <1>1, <1>3, ReadyIdle
<1> QED BY <1>1, <1>2, <1>4 DEF Answers, Idle

\* FXCH; FADDP and its kin, away from the end of the run.
LEMMA FxchArithpDone ==
  ASSUME NEW S, Sound(S), A!Full(Now(S), 0), A!Full(Now(S), 1), S.run \notin {1, 3},
         NEW k \in ArithOps
  PROVE  Answers(2, S, try_fuse_fxch_arithp(S, k), A!Farithp(A!Xch(Now(S), 1), k))
<1>1. PICK E : /\ E = Absorb(S) /\ Sound(E) /\ Now(E) = Now(S)
               /\ E.run = IF S.run > 0 THEN S.run - 1 ELSE 0
  BY AbsorbStep DEF Sound, Now
<1> DEFINE m == Now(S)
           u == A!St(m, 0)
           v == A!St(m, 1)
<1>2. IsMach(m) /\ u \in Vals /\ v \in Vals
  <2>1. PICK B : B = Start(S) /\ Ready(B) /\ Mid(B) = m /\ IsMach(m)
    BY NowMach
  <2> QED BY <2>1, ReadStep, Zeroth
<1>3. A!Farithp(A!Xch(m, 1), k) = A!PopSt(A!Set(m, 1, Arith(k, u, v)))
  <2>1. A!St(A!Xch(m, 1), 0) = v /\ A!St(A!Xch(m, 1), 1) = u
    BY <1>2, XchRead, Zeroth
  <2>2. Arith(k, u, v) \in Held
    BY <1>2, ArithType, HeldVals
  <2> HIDE DEF m
  <2>3. A!PopSt(A!Set(A!Xch(m, 1), 1, Arith(k, u, v))) = A!PopSt(A!Set(m, 1, Arith(k, u, v)))
    BY <1>2, <2>2, XchPopped
  <2> QED BY <2>1, <2>3, AArith DEF A!Farithp
<1> HIDE DEF m, u, v
<1>4. /\ Done(1, E, translate_faddp(E, 1), A!PopSt(A!Set(m, 1, Add(v, u))))
      /\ \A rev : Done(1, E, translate_fsubp(E, 1, rev), A!PopSt(A!Set(m, 1, SubR(rev, v, u))))
  BY <1>1, PopDone, Zeroth DEF translate_faddp, translate_fsubp, m, u, v
<1>5. CASE k = "add"
  <2>1. Arith(k, u, v) = Add(v, u)
    BY <1>2, <1>5, ValsAssumption DEF Arith
  <2>2. try_fuse_fxch_arithp(S, k) = translate_faddp(E, 1)
    BY <1>1, <1>5 DEF try_fuse_fxch_arithp
  <2>3. Done(1, E, try_fuse_fxch_arithp(S, k), A!Farithp(A!Xch(m, 1), k))
    BY <1>3, <1>4, <2>1, <2>2
  <2>4. Answers(1 + 1, S, try_fuse_fxch_arithp(S, k), A!Farithp(A!Xch(m, 1), k))
    BY <1>1, <2>3, AbsorbedAnswers DEF Sound, Idle
  <2> QED BY <2>4 DEF m
<1>6. CASE k # "add"
  <2>1. Arith(k, u, v) = SubR(k = "sub", v, u)
    BY <1>6 DEF Arith, SubR, ArithOps
  <2>2. try_fuse_fxch_arithp(S, k) = translate_fsubp(E, 1, k = "sub")
    BY <1>1, <1>6 DEF try_fuse_fxch_arithp
  <2>3. Done(1, E, try_fuse_fxch_arithp(S, k), A!Farithp(A!Xch(m, 1), k))
    BY <1>3, <1>4, <2>1, <2>2
  <2>4. Answers(1 + 1, S, try_fuse_fxch_arithp(S, k), A!Farithp(A!Xch(m, 1), k))
    BY <1>1, <2>3, AbsorbedAnswers DEF Sound, Idle
  <2> QED BY <2>4 DEF m
<1> QED BY <1>5, <1>6

\* FXCH; FSTP ST(1): a pop.
LEMMA FxchFstpDone ==
  ASSUME NEW S, Sound(S), A!Full(Now(S), 0), A!Full(Now(S), 1)
  PROVE  Done(2, S, try_fuse_fxch_fstp(S), A!FstpSti(A!Xch(Now(S), 1), 1))
<1>1. PICK B : B = Start(S) /\ Ready(B) /\ CanMove(B) /\ Mid(B) = Now(S) /\ B.run = S.run
               /\ IsMach(Now(S))
  BY NowMach
<1>2. PICK F : F = x87_flush_top(B) /\ Same(B, F) /\ F.pd = B.pd
  BY <1>1, FlushTop
<1>3. Ready(F) /\ CanMove(F) /\ Mid(F) = Now(S) /\ F.run = S.run
  BY <1>1, <1>2 DEF Same, CanMove
<1>4. PICK P : P = x87_pop(F) /\ Ready(P) /\ P.run = F.run /\ Mid(P) = A!PopSt(Now(S))
  BY <1>3, PopStep
<1>5. Done(2, P, x87_end(P, 2), Mid(P))
  BY <1>4, EndStep
<1>6. A!FstpSti(A!Xch(Now(S), 1), 1) = A!PopSt(Now(S))
  <2> DEFINE m == Now(S)
             u == A!St(m, 1)
  <2>1. IsMach(m) /\ u \in Held
    BY <1>1, ReadStep, Zeroth, HeldVals
  <2>2. A!St(A!Xch(m, 1), 0) = u
    BY <1>1, XchRead, Zeroth
  <2>3. A!Set(m, 1, u) = m
    BY <1>1, Unwritten, Zeroth
  <2> HIDE DEF m, u
  <2>4. A!PopSt(A!Set(A!Xch(m, 1), 1, u)) = A!PopSt(m)
    BY <2>1, <2>3, XchPopped
  <2> QED BY <2>2, <2>4 DEF A!FstpSti, m
<1> QED BY <1>1, <1>2, <1>3, <1>4, <1>5, <1>6, Restart DEF try_fuse_fxch_fstp

\* What is handed over makes no difference to an exchange.
LEMMA XchHanded ==
  ASSUME NEW a, IsMach(a), NEW i \in Slots, NEW v
  PROVE  A!Give(A!Xch(a, i), v) = A!Xch(A!Give(a, v), i)
<1> DEFINE p == A!St(a, 0)
           q == A!St(a, i)
           b == A!Set(a, 0, q)
<1>1. A!St(A!Give(a, v), 0) = p /\ A!St(A!Give(a, v), i) = q
  BY MachGive
<1>2. Phys(a.top, i) \in Slots /\ a.st[Phys(a.top, i)] \in Held
  BY PhysDepth DEF IsMach
<1>3. q \in Held
  BY <1>2, AData DEF A!St
<1> HIDE DEF p, q
<1>4. IsMach(b) /\ A!Give(b, v) = A!Set(A!Give(a, v), 0, q)
  <2>1. IsMach(b)
    BY <1>3, Zeroth, MachSetKeeps
  <2> QED BY <2>1, SetHanded
<1> HIDE DEF b
<1>5. A!Give(A!Set(b, i, p), v) = A!Set(A!Give(b, v), i, p)
  BY <1>4, SetHanded
<1>6. A!Xch(a, i) = A!Set(b, i, p)
  BY DEF A!Xch, b, p, q
<1>7. A!Xch(A!Give(a, v), i) = A!Set(A!Set(A!Give(a, v), 0, q), i, p)
  BY <1>1 DEF A!Xch
<1> QED BY <1>4, <1>5, <1>6, <1>7

\* The permutation FXCH leaves for the comparison it is fused with.
LEMMA ExchangedStep ==
  ASSUME NEW S, Idle(S), S.run # 1, NEW i \in Slots, A!Full(Now(S), 0), A!Full(Now(S), i)
  PROVE  LET E == Exchanged(S, i)
         IN  /\ Idle(E) /\ (S.run > 0 => CanMove(E)) /\ Now(E) = A!Xch(Now(S), i)
             /\ E.run = IF S.run > 0 THEN S.run - 1 ELSE 0
<1> DEFINE w == LiveTop(S)
           T == Rename(S, i)
<1>1. TypedState(S) /\ w \in Slots /\ Live(S) = LiveAt(S, w)
  BY DEF Idle, TypedState, LiveTop, Live
<1>2. IsMach(LiveAt(S, w))
  BY <1>1, MidFields
<1>3. A!Full(LiveAt(S, w), 0) /\ A!Full(LiveAt(S, w), i)
  <2>1. \A d : A!Full(Now(S), d) = A!Full(LiveAt(S, w), d)
    BY <1>1, <1>2, MachGive, MachQuiet DEF Now
  <2> QED BY <2>1
<1>4. /\ TypedState(T) /\ LiveAt(T, w) = A!Xch(LiveAt(S, w), i)
      /\ T.top = S.top /\ T.w = S.w /\ T.tag = S.tag /\ T.run = S.run /\ T.gv = S.gv
      /\ T.td = S.td /\ T.tpp = S.tpp /\ T.dpc = S.dpc /\ T.pd
  <2> HIDE DEF w
  <2> QED BY <1>1, <1>3, RenamedAt
<1> HIDE DEF T
<1>5. Idle(T) /\ LiveTop(T) = w
  BY <1>4 DEF Idle, LiveTop
<1> HIDE DEF w
<1>6. Live(T) = A!Xch(Live(S), i)
  BY <1>1, <1>4, <1>5 DEF Live
<1>7. Now(T) = A!Xch(Now(S), i)
  BY <1>1, <1>2, <1>6, XchHanded, MachQuiet DEF Now
<1>8. Exchanged(S, i) = Absorb(T)
  BY DEF Exchanged, T, Rename
<1> DEFINE E == Absorb(T)
<1>9. Idle(E) /\ Live(E) = Live(T) /\ E.run = IF S.run > 0 THEN S.run - 1 ELSE 0
  BY <1>4, <1>5, AbsorbStep
<1>10. Now(E) = A!Xch(Now(S), i)
  BY <1>7, <1>9 DEF Now
<1>11. S.run > 0 => CanMove(E)
  <2>1. S.run \in Nat
    BY <1>1 DEF TypedState
  <2> HIDE DEF E
  <2> QED BY <1>9, <2>1 DEF CanMove
<1> QED BY <1>8, <1>9, <1>10, <1>11

\* m pops after the exchange, and x the operand as the comparison names it.
LEMMA FxchFcomDone ==
  ASSUME NEW S, Idle(S), NEW i \in Slots, A!Full(Now(S), 0), A!Full(Now(S), i),
         NEW x, Op(A!Xch(Now(S), i), x), NEW m \in {0, 1, 2}, m = 2 => x = Reg(1),
         m = 0 \/ S.run > 0
  PROVE  LET a == A!Fcom(A!Xch(Now(S), i), x, m)
         IN  /\ S.run \notin {1, 3} => Answers(2, S, try_fuse_fxch_fcom(S, i, x, m), a)
             /\ S.run \notin {1, 4} =>
                  Answers(3, S, try_fuse_fxch_fcom_fstsw(S, i, x, m), A!Fstsw(a))
<1>1. CASE S.run = 1
  BY <1>1
<1>2. CASE S.run # 1
  <2>1. PICK E : /\ E = Exchanged(S, i) /\ Idle(E) /\ (S.run > 0 => CanMove(E))
                 /\ Now(E) = A!Xch(Now(S), i)
                 /\ E.run = IF S.run > 0 THEN S.run - 1 ELSE 0
    BY <1>2, ExchangedStep
  <2>2. A!Full(Now(E), 0)
    <3>1. IsMach(Now(S))
      BY Started DEF Now
    <3> QED BY <2>1, <3>1, XchRead
  <2>3. Done(1, E, x87_end(Pops(Compare(Start(E), x), m), 1), A!Fcom(Now(E), x, m))
    BY <2>1, <2>2, CompareEnd
  <2>4. try_fuse_fxch_fcom(S, i, x, m) = x87_end(Pops(Compare(Start(E), x), m), 1)
    <3>1. CASE m = 0
      BY <2>1, <3>1, CompareForms DEF try_fuse_fxch_fcom
    <3>2. CASE m = 1
      BY <2>1, <3>2, CompareForms DEF try_fuse_fxch_fcom
    <3>3. CASE m = 2
      BY <2>1, <3>3, CompareForms DEF try_fuse_fxch_fcom
    <3> QED BY <3>1, <3>2, <3>3
  <2>5. Done(2, E, try_fuse_fxch_fcom_fstsw(S, i, x, m), A!Fstsw(A!Fcom(Now(E), x, m)))
    BY <2>1, <2>2, FcomFstswDone DEF try_fuse_fxch_fcom_fstsw
  <2>6. TypedState(S)
    BY DEF Idle
  <2>7. ASSUME S.run \notin {1, 3}
        PROVE  Answers(1 + 1, S, try_fuse_fxch_fcom(S, i, x, m), A!Fcom(Now(E), x, m))
    BY <2>1, <2>3, <2>4, <2>6, <2>7, AbsorbedAnswers
  <2>8. ASSUME S.run \notin {1, 4}
        PROVE  Answers(2 + 1, S, try_fuse_fxch_fcom_fstsw(S, i, x, m),
                       A!Fstsw(A!Fcom(Now(E), x, m)))
    BY <2>1, <2>5, <2>6, <2>8, AbsorbedAnswers
  <2> QED BY <2>1, <2>7, <2>8
<1> QED BY <1>1, <1>2

-----------------------------------------------------------------------------
(* Arithmetic or FSTP first *)

\* A store to one register is not seen in another.
LEMMA SetRead ==
  ASSUME NEW a, IsMach(a), NEW d \in Slots, NEW e \in Slots, e # d, NEW v \in Held
  PROVE  A!St(A!Set(a, d, v), e) = A!St(a, e)
<1> DEFINE b == A!Set(a, d, v)
<1>1. /\ b.top = a.top
      /\ \A q \in Slots : b.st[q] = IF q = Phys(a.top, d) THEN v ELSE a.st[q]
  BY MachSet
<1>2. Phys(a.top, e) \in Slots /\ Phys(a.top, e) # Phys(a.top, d)
  <2>1. /\ a.top \in Slots /\ Depth(a.top, Phys(a.top, e)) = e
        /\ Depth(a.top, Phys(a.top, d)) = d /\ Phys(a.top, e) \in Slots
    BY PhysDepth DEF IsMach
  <2> QED BY <2>1
<1> HIDE DEF b
<1>3. A!St(b, e) = A!St(a, e)
  BY <1>1, <1>2, AData DEF A!St
<1> QED BY <1>3 DEF b

\* A store one below the register popped is a store to ST(0) after the pop.
LEMMA PopSet ==
  ASSUME NEW a, IsMach(a), NEW v \in Held
  PROVE  A!PopSt(A!Set(a, 1, v)) = A!Set(A!PopSt(a), 0, v)
<1> DEFINE b == A!Set(a, 1, v)
           c == A!PopSt(b)
           d == A!PopSt(a)
           e == A!Set(d, 0, v)
<1>1. /\ a.top \in Slots /\ 0 \in Slots /\ 1 \in Slots /\ Phys(a.top, 1) = Inc(a.top)
      /\ Inc(a.top) \in Slots /\ Phys(Inc(a.top), 0) = Inc(a.top) /\ Inc(a.top) # a.top
  BY Neighbours, Stack DEF IsMach
<1>2. /\ IsMach(b) /\ b.top = a.top /\ b.tag = a.tag /\ b.cc = a.cc /\ b.out = a.out
      /\ \A q \in Slots : b.st[q] = IF q = Phys(a.top, 1) THEN v ELSE a.st[q]
  <2>1. 1 \in Slots
    BY <1>1
  <2> QED BY <2>1, MachSet
<1>3. /\ IsMach(d) /\ d.top = Inc(a.top) /\ d.cc = a.cc /\ d.out = a.out
      /\ \A q \in Slots : d.st[q] = IF q = a.top THEN NoVal ELSE a.st[q]
      /\ \A q \in Slots : d.tag[q] <=> (q # a.top /\ a.tag[q])
  BY MachPop
<1> HIDE DEF b, d
<1>4. /\ IsMach(c) /\ c.top = Inc(b.top) /\ c.cc = b.cc /\ c.out = b.out
      /\ \A q \in Slots : c.st[q] = IF q = b.top THEN NoVal ELSE b.st[q]
      /\ \A q \in Slots : c.tag[q] <=> (q # b.top /\ b.tag[q])
  BY <1>2, MachPop
<1>5. /\ IsMach(e) /\ e.top = d.top /\ e.tag = d.tag /\ e.cc = d.cc /\ e.out = d.out
      /\ \A q \in Slots : e.st[q] = IF q = Phys(d.top, 0) THEN v ELSE d.st[q]
  <2>1. 0 \in Slots
    BY <1>1
  <2> QED BY <1>3, <2>1, MachSet
<1> HIDE DEF c, e
<1>6. \A q \in Slots : (c.tag[q] <=> e.tag[q]) /\ c.st[q] = e.st[q]
  BY <1>1, <1>2, <1>3, <1>4, <1>5
<1>7. c = e
  BY <1>2, <1>3, <1>4, <1>5, <1>6, MachEq
<1> QED BY <1>7 DEF b, c, d, e

\* Values that are popped need not be written first.
LEMMA PopsUnwritten ==
  ASSUME NEW a, IsMach(a), NEW u \in Held, NEW v \in Held
  PROVE  /\ A!PopSt(A!PopSt(A!Set(a, 1, v))) = A!PopSt(A!PopSt(a))
         /\ A!PopSt(A!Set(A!Set(a, 0, u), 1, v)) = A!PopSt(A!Set(a, 1, v))
<1>1. IsMach(A!PopSt(a))
  BY MachPop
<1>2. A!PopSt(A!Set(A!PopSt(a), 0, v)) = A!PopSt(A!PopSt(a))
  BY <1>1, PopUnwritten
<1>3. IsMach(A!Set(a, 0, u))
  BY MachSetKeeps, Zeroth
<1>4. A!PopSt(A!Set(A!Set(a, 0, u), 1, v)) = A!Set(A!PopSt(A!Set(a, 0, u)), 0, v)
  BY <1>3, PopSet
<1>5. A!PopSt(A!Set(a, 0, u)) = A!PopSt(a)
  BY PopUnwritten
<1> QED BY <1>2, <1>4, <1>5, PopSet

\* Handing over and then popping twice.
LEMMA GivePopTwo ==
  ASSUME NEW B, Ready(B), CanMove(B), NEW v, NEW n
  PROVE  Done(n, B, x87_end(x87_pop_n(Give(B, v), 2), n), A!Give(A!PopSt(A!PopSt(Mid(B))), v))
<1>1. PICK C : /\ C = Give(B, v) /\ Ready(C) /\ CanMove(C) /\ C.run = B.run
               /\ Mid(C) = A!Give(Mid(B), v)
  BY GiveStep
<1>2. PICK P : /\ P = x87_pop_n(C, 2) /\ Ready(P) /\ P.run = C.run
               /\ Mid(P) = A!PopSt(A!PopSt(Mid(C)))
  BY <1>1, PopTwo
<1>3. Done(n, P, x87_end(P, n), Mid(P))
  BY <1>2, EndStep
<1>4. Mid(P) = A!Give(A!PopSt(A!PopSt(Mid(B))), v)
  <2>1. IsMach(Mid(B)) /\ IsMach(A!PopSt(Mid(B)))
    BY MidMach, MachPop
  <2> QED BY <1>1, <1>2, <2>1, PopHanded
<1> QED BY <1>1, <1>2, <1>3, <1>4, Restart

\* FADDP and its kin; FSTP.
LEMMA ArithpFstpDone ==
  ASSUME NEW S, Sound(S), A!Full(Now(S), 0), A!Full(Now(S), 1), NEW k
  PROVE  Done(2, S, try_fuse_arithp_fstp(S, k), A!Fstp(A!Farithp(Now(S), k)))
<1> DEFINE m == Now(S)
<1>1. PICK B : /\ B = Start(S) /\ Ready(B) /\ CanMove(B) /\ Mid(B) = m /\ B.run = S.run
               /\ IsMach(m) /\ Tidy(m)
  BY NowMach, TidyMid
<1>2. PICK u \in Vals : u = St(B, 0) /\ u = A!St(m, 0)
  BY <1>1, ReadStep, Zeroth
<1>3. PICK v \in Vals : v = St(B, 1) /\ v = A!St(m, 1)
  BY <1>1, ReadStep, Zeroth
<1>4. PICK r \in Vals : r = Arith(k, v, u)
  BY ArithType
<1>5. Done(2, B, x87_end(x87_pop_n(Give(B, r), 2), 2), A!Give(A!PopSt(A!PopSt(m)), r))
  BY <1>1, GivePopTwo
<1> DEFINE c == A!Set(m, 1, r)
           p == A!PopSt(c)
<1>6. A!Farithp(m, k) = p
  BY <1>2, <1>3, <1>4, AArith DEF A!Farithp
<1>7. Tidy(c) /\ IsMach(c) /\ A!St(c, 1) = r /\ A!Full(c, 0)
  <2>1. Tidy(c) /\ A!St(c, 1) = r
    BY <1>1, TidySet, Zeroth
  <2>2. IsMach(m) /\ 1 \in Slots /\ r \in Held
    BY <1>1, HeldVals, Zeroth
  <2>3. A!Full(c, 0) = A!Full(m, 0)
    BY <2>2, MachSetKeeps
  <2> QED BY <2>1, <2>3 DEF Tidy
<1>8. A!St(p, 0) = r /\ IsMach(p)
  <2>1. 0 + 1 \in Slots /\ 0 \in Slots
    BY Zeroth
  <2>2. A!St(p, 0) = A!St(c, 0 + 1)
    BY <1>7, <2>1, Popped
  <2> QED BY <1>7, <2>2, MachPop
<1>9. A!PopSt(p) = A!PopSt(A!PopSt(m))
  BY <1>1, <1>4, HeldVals, PopsUnwritten
<1> HIDE DEF p
<1>10. A!Fstp(p) = A!Give(A!PopSt(A!PopSt(m)), r)
  BY <1>8, <1>9, PopHanded DEF A!Fstp, A!Fst
<1> QED BY <1>1, <1>2, <1>3, <1>4, <1>5, <1>6, <1>10, Restart DEF try_fuse_arithp_fstp

\* FADD and its kin; FSTP.
LEMMA ArithFstpDone ==
  ASSUME NEW S, Sound(S), A!Full(Now(S), 0), NEW x, Op(Now(S), x), NEW k
  PROVE  Done(2, S, try_fuse_arith_fstp(S, k, x), A!Fstp(A!Farith(Now(S), k, x)))
<1> DEFINE m == Now(S)
<1>1. PICK B : /\ B = Start(S) /\ Ready(B) /\ CanMove(B) /\ Mid(B) = m /\ B.run = S.run
               /\ IsMach(m) /\ Tidy(m)
  BY NowMach, TidyMid
<1>2. PICK u \in Vals : u = St(B, 0) /\ u = A!St(m, 0)
  BY <1>1, ReadStep, Zeroth
<1>3. PICK v \in Vals : v = Operand(B, x) /\ v = A!Val(m, x)
  BY <1>1, OperandRead
<1>4. PICK r \in Vals : r = Arith(k, u, v)
  BY ArithType
<1>5. PICK C : /\ C = Give(B, r) /\ Ready(C) /\ CanMove(C) /\ C.run = B.run
               /\ Mid(C) = A!Give(m, r)
  BY <1>1, GiveStep
<1>6. A!Full(Mid(C), 0)
  BY <1>1, <1>5, MachGive
<1>7. PICK P : P = x87_pop(C) /\ Ready(P) /\ P.run = C.run /\ Mid(P) = A!PopSt(Mid(C))
  BY <1>5, <1>6, PopStep
<1>8. Done(2, P, x87_end(P, 2), Mid(P))
  BY <1>7, EndStep
<1>9. A!Fstp(A!Farith(m, k, x)) = Mid(P)
  <2> DEFINE c == A!Set(m, 0, r)
  <2>1. A!Farith(m, k, x) = c
    BY <1>2, <1>3, <1>4, AArith DEF A!Farith
  <2>2. IsMach(c) /\ A!St(c, 0) = r
    BY <1>1, <1>4, TidySet, Zeroth DEF Tidy
  <2>3. A!PopSt(c) = A!PopSt(m)
    BY <1>1, <1>4, HeldVals, PopUnwritten
  <2> HIDE DEF c
  <2>4. A!Fstp(c) = A!Give(A!PopSt(m), r)
    BY <2>2, <2>3, PopHanded DEF A!Fstp, A!Fst
  <2>5. Mid(P) = A!Give(A!PopSt(m), r)
    BY <1>1, <1>5, <1>7, PopHanded
  <2> QED BY <2>1, <2>4, <2>5
<1> QED BY <1>1, <1>2, <1>3, <1>4, <1>5, <1>7, <1>8, <1>9, Restart DEF try_fuse_arith_fstp

\* FSTP; arithmetic with memory; FSTP.
LEMMA FstpArithFstpDone ==
  ASSUME NEW S, Sound(S), A!Full(Now(S), 0), A!Full(Now(S), 1), NEW k, NEW v \in Vals
  PROVE  LET a == A!Fstp(A!Farith(A!Fstp(Now(S)), k, Mem(v)))
         IN  Done(3, S, try_fuse_fstp_arith_fstp(S, k, v),
                  A!Give(a, <<A!St(Now(S), 0), a.out>>))
<1> DEFINE m == Now(S)
<1>1. PICK B : /\ B = Start(S) /\ Ready(B) /\ CanMove(B) /\ Mid(B) = m /\ B.run = S.run
               /\ IsMach(m) /\ Tidy(m)
  BY NowMach, TidyMid
<1>2. PICK u \in Vals : u = St(B, 0) /\ u = A!St(m, 0)
  BY <1>1, ReadStep, Zeroth
<1>3. PICK w \in Vals : w = St(B, 1) /\ w = A!St(m, 1)
  BY <1>1, ReadStep, Zeroth
<1>4. PICK r \in Vals : r = Arith(k, w, v)
  BY ArithType
<1>5. Done(3, B, x87_end(x87_pop_n(Give(B, <<u, r>>), 2), 3),
           A!Give(A!PopSt(A!PopSt(m)), <<u, r>>))
  BY <1>1, GivePopTwo
<1> DEFINE b == A!PopSt(m)
           c == A!Give(b, u)
           d == A!Set(c, 0, r)
<1>6. Tidy(b) /\ IsMach(b) /\ A!St(b, 0) = w /\ A!Full(b, 0)
  <2>1. 0 + 1 \in Slots /\ 0 \in Slots
    BY Zeroth
  <2>2. Tidy(b) /\ A!Full(b, 0) = A!Full(m, 0 + 1) /\ A!St(b, 0) = A!St(m, 0 + 1)
    BY <1>1, <2>1, Popped
  <2> QED BY <1>3, <2>2 DEF Tidy
<1>7. A!Fstp(m) = c
  BY <1>1, <1>2, PopHanded DEF A!Fstp, A!Fst
<1> HIDE DEF b
<1>8. Tidy(c) /\ IsMach(c) /\ A!St(c, 0) = w /\ A!Full(c, 0)
  BY <1>6, TidyGive, MachGive DEF Tidy
<1>9. A!Farith(c, k, Mem(v)) = d
  BY <1>4, <1>8, AArith, Immediate DEF A!Farith
<1>10. IsMach(d) /\ A!St(d, 0) = r
  BY <1>4, <1>8, TidySet, Zeroth DEF Tidy
<1>11. A!PopSt(d) = A!Give(A!PopSt(b), u)
  <2>1. A!PopSt(d) = A!PopSt(c)
    BY <1>4, <1>8, HeldVals, PopUnwritten
  <2> QED BY <1>6, <2>1, PopHanded
<1> HIDE DEF c, d
<1>12. A!Fstp(d) = A!Give(A!PopSt(d), r)
  BY <1>10, PopHanded DEF A!Fstp, A!Fst
<1>13. IsMach(A!PopSt(b)) /\ IsMach(A!PopSt(d))
  BY <1>6, <1>10, MachPop
<1>14. A!Fstp(d).out = r
  BY <1>12, <1>13, Hand
<1>15. A!Give(A!Fstp(d), <<u, r>>) = A!Give(A!PopSt(b), <<u, r>>)
  <2>1. \A y, z : A!Give(A!Give(A!PopSt(b), y), z) = A!Give(A!PopSt(b), z)
    BY <1>13 DEF A!Give, IsMach
  <2>2. A!Fstp(d) = A!Give(A!PopSt(b), r)
    BY <1>11, <1>12, <2>1
  <2> QED BY <2>1, <2>2
<1>16. A!Fstp(A!Farith(A!Fstp(m), k, Mem(v))) = A!Fstp(d)
  BY <1>7, <1>9
<1>17. try_fuse_fstp_arith_fstp(S, k, v) = x87_end(x87_pop_n(Give(B, <<u, r>>), 2), 3)
  BY <1>1, <1>2, <1>3, <1>4 DEF try_fuse_fstp_arith_fstp
<1>18. Done(3, S, try_fuse_fstp_arith_fstp(S, k, v), A!Give(A!Fstp(d), <<u, A!Fstp(d).out>>))
  BY <1>1, <1>5, <1>14, <1>15, <1>17, Restart DEF b
<1> QED BY <1>2, <1>16, <1>18

\* FADD and its kin; FADDP.
LEMMA ArithFaddpDone ==
  ASSUME NEW S, Sound(S), A!Full(Now(S), 0), A!Full(Now(S), 1), NEW x, Op(Now(S), x), NEW k
  PROVE  Done(2, S, try_fuse_arith_faddp(S, x, k), A!Farithp(A!Farith(Now(S), "add", x), k))
<1> DEFINE m == Now(S)
<1>1. PICK B : /\ B = Start(S) /\ Ready(B) /\ CanMove(B) /\ Mid(B) = m /\ B.run = S.run
               /\ IsMach(m) /\ Tidy(m)
  BY NowMach, TidyMid
<1>2. PICK u \in Vals : u = St(B, 0) /\ u = A!St(m, 0)
  BY <1>1, ReadStep, Zeroth
<1>3. PICK w \in Vals : w = St(B, 1) /\ w = A!St(m, 1)
  BY <1>1, ReadStep, Zeroth
<1>4. PICK v \in Vals : v = Operand(B, x) /\ v = A!Val(m, x)
  BY <1>1, OperandRead
<1>5. PICK y \in Vals : y = Add(u, v)
  BY ValsAssumption
<1>6. PICK r \in Vals : r = Arith(k, w, y)
  BY ArithType
<1>7. PICK P : /\ P = x87_pop(SetSt(B, 1, r)) /\ Ready(P) /\ P.run = B.run
               /\ Mid(P) = A!PopSt(A!Set(m, 1, r))
  BY <1>1, SetPopStep, Zeroth
<1>8. Done(2, P, x87_end(P, 2), Mid(P))
  BY <1>7, EndStep
<1> DEFINE c == A!Set(m, 0, y)
<1>9. A!Farith(m, "add", x) = c
  BY <1>2, <1>4, <1>5, AArith DEF A!Farith, Arith
<1>10. A!St(c, 0) = y /\ A!St(c, 1) = w
  <2>1. A!St(c, 0) = y
    BY <1>1, <1>5, TidySet, Zeroth
  <2>2. 0 \in Slots /\ 1 \in Slots /\ 0 # 1 /\ y \in Held
    BY <1>5, Zeroth, HeldVals
  <2>3. A!St(c, 1) = A!St(m, 1)
    <3> HIDE DEF m
    <3> QED BY <1>1, <2>2, SetRead
  <2> QED BY <1>3, <2>1, <2>3
<1>11. A!PopSt(A!Set(c, 1, r)) = A!PopSt(A!Set(m, 1, r))
  <2>1. IsMach(m) /\ y \in Held /\ r \in Held
    BY <1>1, <1>5, <1>6, HeldVals
  <2> HIDE DEF m
  <2> QED BY <2>1, PopsUnwritten
<1>12. A!Farithp(c, k) = Mid(P)
  BY <1>6, <1>7, <1>10, <1>11, AArith DEF A!Farithp
<1> QED BY <1>1, <1>2, <1>3, <1>4, <1>5, <1>6, <1>7, <1>8, <1>9, <1>12, Restart
        DEF try_fuse_arith_faddp

\* T after the store, t the machine then: the pop and the push are a store.
LEMMA FstpFldEnd ==
  ASSUME NEW T, Ready(T), CanMove(T), A!Full(Mid(T), 0), NEW x,
         Op(A!PopSt(Mid(T)), x)
  PROVE  Done(2, T, x87_end(SetSt(T, 0, IF x.mem THEN x.v ELSE St(T, x.i + 1)), 2),
              A!Fld(A!PopSt(Mid(T)), x))
<1> DEFINE t == Mid(T)
           p == A!PopSt(t)
<1>1. Tidy(t)
  BY TidyMid
<1>2. PICK v \in Vals : v = (IF x.mem THEN x.v ELSE St(T, x.i + 1)) /\ v = A!Val(p, x)
  <2>1. CASE x.mem
    BY <2>1 DEF Op, A!Val
  <2>2. CASE ~x.mem
    <3>1. x.i \in Slots /\ A!Full(p, x.i)
      BY <2>2 DEF Op
    <3>2. PICK i \in Slots : i = x.i
      BY <3>1
    <3>3. i + 1 \in Slots /\ A!Full(t, i + 1) /\ A!St(p, i) = A!St(t, i + 1)
      BY <1>1, <3>1, <3>2, Popped
    <3>4. St(T, i + 1) = A!St(t, i + 1) /\ A!St(t, i + 1) \in Vals
      BY <3>3, ReadStep
    <3> QED BY <2>2, <3>2, <3>3, <3>4 DEF A!Val
  <2> QED BY <2>1, <2>2
<1>3. Done(2, T, x87_end(SetSt(T, 0, v), 2), A!Set(t, 0, v))
  BY SetEnd, Zeroth
<1>4. A!PushSt(p, v) = A!Set(t, 0, v)
  BY <1>1, HeldVals, PushPopped
<1> QED BY <1>2, <1>3, <1>4 DEF A!Fld

\* FSTP; FLD: a store to ST(0), or to memory and to ST(0).
LEMMA FstpFldDone ==
  ASSUME NEW S, Sound(S), A!Full(Now(S), 0), NEW dst,
         ~dst.mem => dst.i \in Slots /\ A!Full(Now(S), dst.i),
         NEW p, p = IF dst.mem THEN A!Fstp(Now(S)) ELSE A!FstpSti(Now(S), dst.i),
         NEW x, Op(p, x)
  PROVE  Done(2, S, try_fuse_fstp_fld(S, dst, x), A!Fld(p, x))
<1> DEFINE m == Now(S)
<1>1. PICK B : /\ B = StartNetZero(S) /\ Ready(B) /\ CanMove(B) /\ Mid(B) = m
               /\ Tidy(m) /\ IsMach(m) /\ B.run = S.run
  BY NowNet DEF Tidy
<1>2. PICK u \in Vals : u = St(B, 0) /\ u = A!St(m, 0)
  BY <1>1, ReadStep, Zeroth
<1>3. CASE dst.mem
  <2>1. PICK T : /\ T = Give(B, u) /\ Ready(T) /\ CanMove(T) /\ T.run = B.run
                 /\ Mid(T) = A!Give(m, u)
    BY <1>1, GiveStep
  <2>2. A!Full(Mid(T), 0)
    BY <1>1, <2>1, MachGive
  <2>3. p = A!PopSt(Mid(T))
    BY <1>2, <1>3, <2>1 DEF A!Fstp, A!Fst
  <2> QED BY <1>1, <1>2, <1>3, <2>1, <2>2, <2>3, FstpFldEnd, Restart DEF try_fuse_fstp_fld
<1>4. CASE ~dst.mem
  <2>1. PICK i \in Slots : i = dst.i /\ A!Full(m, i)
    BY <1>4
  <2>2. PICK T : /\ T = SetSt(B, i, u) /\ Ready(T) /\ CanMove(T) /\ T.run = B.run
                 /\ Mid(T) = A!Set(m, i, u)
    BY <1>1, <2>1, SetStep
  <2>3. A!Full(Mid(T), 0)
    BY <1>1, <2>2, HeldVals, MachSetKeeps
  <2>4. p = A!PopSt(Mid(T))
    BY <1>2, <1>4, <2>1, <2>2 DEF A!FstpSti
  <2> QED BY <1>1, <1>2, <1>4, <2>1, <2>2, <2>3, <2>4, FstpFldEnd, Restart DEF try_fuse_fstp_fld
<1> QED BY <1>3, <1>4

-----------------------------------------------------------------------------
(* Between the steps *)

\* What the invariant says of the state a step starts from.
LEMMA Machine ==
  ASSUME Inv
  PROVE  /\ Sound(s) /\ Live(s) = arch /\ IsMach(arch)
         /\ Q = Now(s) /\ Room = A!Room(Now(s))
         /\ \A d : Full(d) = A!Full(Now(s), d) /\ X(d) = A!St(Now(s), d)
         /\ s.run \in Nat /\ s.run <= todo
         /\ \A x \in Operands : Op(Now(s), x)
<1>1. TypedState(s) /\ Consistent(s) /\ Live(s) = arch /\ s.run \in Nat /\ s.run <= todo
  BY DEF Inv, TypeOK, RunBound, Exclusive, Simulates, TypedState
<1>2. Idle(s)
  BY <1>1 DEF Idle, Consistent
<1>3. CanMove(s)
  BY <1>1 DEF CanMove, Consistent
<1>4. IsMach(arch)
  <2>1. LiveTop(s) \in Slots
    BY <1>1 DEF LiveTop, TypedState
  <2> QED BY <1>1, <2>1, MidFields DEF Live
<1>5. Q = Now(s)
  BY <1>1 DEF Q, Now
<1>6. Q = A!Give(arch, NoVal)
  BY MachQuiet DEF Q
<1>7. Room = A!Room(Now(s)) /\ \A d : Full(d) = A!Full(Now(s), d) /\ X(d) = A!St(Now(s), d)
  BY <1>4, <1>5, <1>6, MachGive DEF Room, Full, X
<1>8. ASSUME NEW x \in Operands
      PROVE  Op(Now(s), x)
  <2>1. CASE x \in {Mem(v) : v \in Vals}
    BY <2>1, Immediate
  <2>2. CASE x \in {Reg(i) : i \in Depths}
    BY <1>7, <2>2 DEF Reg, Depths, Op
  <2> QED BY <2>1, <2>2 DEF Operands
<1> QED BY <1>1, <1>2, <1>3, <1>4, <1>5, <1>7, <1>8 DEF Sound

\* Counting n instructions and letting go of TOP's register.
LEMMA Ticked ==
  ASSUME NEW T, Idle(T), NEW n \in Nat, T.run <= n => Clean(T)
  PROVE  LET U == tick(T, n)
             V == Release(U)
         IN  /\ TypedState(V) /\ Consistent(V) /\ Live(V) = Live(T)
             /\ V.run = (IF T.run <= n THEN 0 ELSE T.run - n)
             /\ U.run = V.run
<1>1. /\ TypedState(T) /\ T.run \in Nat /\ T.top \in Slots /\ T.w \in Slots /\ 0 \in Slots
      /\ T.gv \in BOOLEAN
  BY Zeroth DEF Idle, TypedState
<1> DEFINE k == T.run - n
           Z(w) == Rec(T.top, T.tag, T.st, T.cc, w, 0, FALSE, FALSE, FALSE, 0, T.perm, T.pd, T.out)
           R    == Rec(T.top, T.tag, T.st, T.cc, T.w, k, T.gv, T.td, T.tpp, T.dpc, T.perm, T.pd,
                       T.out)
<1>2. CASE T.run <= n
  <2>1. Clean(T) /\ T.perm = Identity
    BY <1>2 DEF Clean, Idle
  <2>2. tick(T, n) = Z(T.w)
    <3>1. CASE T.run = 0
      <4>1. ~T.gv
        BY <3>1 DEF Idle
      <4>2. tick(T, n) = T
        BY <3>1 DEF tick
      <4> QED BY <1>1, <2>1, <3>1, <4>1, <4>2 DEF TypedState, Rec, Clean
    <3>2. CASE T.run # 0
      <4>1. tick(T, n) = [T EXCEPT !.run = 0, !.gv = FALSE, !.td = FALSE, !.tpp = FALSE, !.dpc = 0]
        BY <1>1, <1>2, <3>2 DEF tick
      <4> QED BY <1>1, <4>1 DEF TypedState, Rec
    <3> QED BY <3>1, <3>2
  <2>3. Release(tick(T, n)) = Z(0)
    <3>1. Release(Z(T.w)) = Z(0)
      <4> SUFFICES ASSUME NEW Y, Y = Z(T.w)
                   PROVE  Release(Y) = Z(0)
        OBVIOUS
      <4>1. Y.run = 0
        BY DEF Rec
      <4>2. Release(Y) = [Y EXCEPT !.w = 0]
        <5>1. ~(Y.run > 0)
          BY <4>1 DEF Rec
        <5> QED BY <5>1 DEF Release, Rec
      <4> QED BY <4>2 DEF Rec
    <3> QED BY <2>2, <3>1
  <2>4. TypedState(Z(0))
    <3> SUFFICES ASSUME NEW Y, Y = Z(0)
                 PROVE  TypedState(Y)
      OBVIOUS
    <3>1. /\ Y.top = T.top /\ Y.tag = T.tag /\ Y.st = T.st /\ Y.cc = T.cc /\ Y.w = 0 /\ Y.run = 0
          /\ Y.gv = FALSE /\ Y.td = FALSE /\ Y.tpp = FALSE /\ Y.dpc = 0 /\ Y.perm = T.perm
          /\ Y.pd = T.pd /\ Y.out = T.out
      BY DEF Rec
    <3>2. Y = Rec(Y.top, Y.tag, Y.st, Y.cc, Y.w, Y.run, Y.gv, Y.td, Y.tpp, Y.dpc, Y.perm, Y.pd,
                  Y.out)
      BY <3>1
    <3>3. 0 \in 0 .. NSlots /\ 0 \in Nat
      BY NSlotsAssumption
    <3> QED BY <1>1, <3>1, <3>2, <3>3 DEF TypedState, Rec
  <2>5. Consistent(Z(0))
    BY <2>1 DEF Consistent, Rec, Clean
  <2>6. LiveTop(T) = T.top
    BY <2>1 DEF Idle, Clean, LiveTop
  <2>7. Live(Z(0)) = LiveAt(Z(0), T.top)
    BY DEF Live, LiveTop, Rec
  <2>8. TagAt(Z(0), T.top) = TagAt(T, T.top)
    BY <2>1 DEF TagAt, Rec, Clean
  <2>9. LiveAt(Z(0), T.top) = LiveAt(T, T.top)
    BY <2>8 DEF LiveAt, StAt, Rec
  <2>10. Z(0).run = 0 /\ Z(T.w).run = 0
    BY DEF Rec
  <2> QED BY <1>2, <2>2, <2>3, <2>4, <2>5, <2>6, <2>7, <2>9, <2>10 DEF Live
<1>3. CASE ~(T.run <= n)
  <2>1. k \in Nat /\ k > 0 /\ T.run > n /\ T.run # 0
    BY <1>1, <1>3
  <2>2. tick(T, n) = [T EXCEPT !.run = k]
    BY <2>1 DEF tick
  <2>3. T.run - n = k
    OBVIOUS
  <2> HIDE DEF k
  <2>4. tick(T, n) = R
    BY <1>1, <2>2 DEF TypedState, Rec
  <2>5. /\ R.top = T.top /\ R.tag = T.tag /\ R.st = T.st /\ R.cc = T.cc /\ R.w = T.w /\ R.run = k
        /\ R.gv = T.gv /\ R.td = T.td /\ R.tpp = T.tpp /\ R.dpc = T.dpc /\ R.perm = T.perm
        /\ R.pd = T.pd /\ R.out = T.out
    BY DEF Rec
  <2>6. TypedState(R)
    BY <1>1, <2>1 DEF TypedState, Rec
  <2> HIDE DEF R
  <2>7. Release(R) = R
    BY <2>1, <2>5 DEF Release
  <2>8. Consistent(R)
    BY <2>1, <2>5 DEF Idle, Consistent
  <2>9. LiveTop(R) = LiveTop(T) /\ \A t : TagAt(R, t) = TagAt(T, t)
    BY <2>5 DEF LiveTop, TagAt
  <2>10. Live(R) = Live(T)
    BY <2>5, <2>9 DEF Live, LiveAt, StAt
  <2> QED BY <1>3, <2>3, <2>4, <2>5, <2>6, <2>7, <2>8, <2>10
<1> QED BY <1>2, <1>3

\* A step of a reply.
LEMMA Replied ==
  ASSUME Inv, NEW n \in Nat \ {0}, NEW T, NEW a, Answer(n, T, a), Answers(n, s, T, a)
  PROVE  Inv'
<1>1. /\ Idle(T) /\ Live(T) = a /\ T.run <= s.run /\ (T.run <= n => Clean(T))
      /\ s.run \in Nat /\ T.run \in Nat /\ s.run <= todo /\ s.run <= MaxRun /\ todo \in 0 .. MaxRun
      /\ n \in Nat /\ n > 0 /\ MaxRun \in Nat
  BY Machine, MaxRunAssumption DEF Answers, Idle, TypedState, Inv, TypeOK
<1> DEFINE U == tick(T, n)
           V == Release(U)
<1>2. /\ TypedState(V) /\ Consistent(V) /\ Live(V) = Live(T)
      /\ V.run = (IF T.run <= n THEN 0 ELSE T.run - n) /\ U.run = V.run
  BY <1>1, Ticked
<1>3. s' = V /\ replying' = (U.run > 0) /\ n <= todo /\ todo' = todo - n /\ arch' = a
  BY DEF Answer, active
<1> HIDE DEF U, V
<1>4. V.run <= todo' /\ V.run <= MaxRun /\ todo' \in 0 .. MaxRun /\ (V.run > 0 => todo' > 0)
  BY <1>1, <1>2, <1>3
<1>5. TypeOK'
  BY <1>2, <1>3, <1>4 DEF TypeOK
<1>6. RunBound'
  BY <1>2, <1>3, <1>4 DEF RunBound, active
<1>7. Exclusive'
  BY <1>2, <1>3 DEF Exclusive
<1>8. Simulates'
  BY <1>1, <1>2, <1>3 DEF Simulates
<1> QED BY <1>5, <1>6, <1>7, <1>8 DEF Inv

\* The same for a translator that ends as the others do.
LEMMA RepliedDone ==
  ASSUME Inv, NEW n \in Nat \ {0}, NEW T, NEW a, Answer(n, T, a), Done(n, s, T, a)
  PROVE  Inv'
BY Machine, DoneAnswers, Replied

-----------------------------------------------------------------------------
(* One step of each kind *)

\* The same for one instruction.
LEMMA Did ==
  ASSUME Inv, NEW T, NEW a, Do(T, a), Done(1, s, T, a)
  PROVE  Inv'
BY RepliedDone DEF Do

\* Loads keep the invariant.
LEMMA LoadsKeep ==
  ASSUME Inv, Fldz \/ Fld1 \/ FldMem \/ Fld
  PROVE  Inv'
<1> USE Machine
<1>0. Room => \A v \in Vals :
        /\ Done(1, s, translate_fldz(s), A!PushSt(Q, Zero))
        /\ Done(1, s, translate_fld1(s), A!PushSt(Q, One))
        /\ Done(1, s, translate_fld_const(s, v), A!PushSt(Q, v))
        /\ Done(1, s, translate_fild(s, v), A!PushSt(Q, v))
        /\ Done(1, s, translate_fbld(s, v), A!PushSt(Q, v))
  BY Loads
<1>1. CASE Fldz
  <2>1. Done(1, s, translate_fldz(s), A!PushSt(Q, Zero)) /\ Do(translate_fldz(s), A!PushSt(Q, Zero))
    BY <1>0, <1>1, ValsAssumption DEF Fldz
  <2> QED BY <2>1, Did
<1>2. CASE Fld1
  <2>1. Done(1, s, translate_fld1(s), A!PushSt(Q, One)) /\ Do(translate_fld1(s), A!PushSt(Q, One))
    BY <1>0, <1>2, ValsAssumption DEF Fld1
  <2> QED BY <2>1, Did
<1>3. CASE FldMem
  <2>1. PICK v \in Vals :
          Room /\ \/ Do(translate_fld_const(s, v), A!PushSt(Q, v))
                  \/ Do(translate_fild(s, v), A!PushSt(Q, v))
                  \/ Do(translate_fbld(s, v), A!PushSt(Q, v))
    BY <1>3 DEF FldMem
  <2> QED BY <1>0, <2>1, Did
<1>4. CASE Fld
  <2>1. PICK x \in Operands : Room /\ Do(translate_fld(s, x), A!Fld(Q, x))
    BY <1>4 DEF Fld
  <2>2. Done(1, s, translate_fld(s, x), A!Fld(Q, x))
    BY <2>1, FldDone
  <2> QED BY <2>1, <2>2, Did
<1> QED BY <1>1, <1>2, <1>3, <1>4

\* A destination and a source are registers in use, or the source in memory.
LEMMA Named ==
  ASSUME Inv, NEW p \in DestSrc, Full(0)
  PROVE  p[1] \in Slots /\ A!Full(Now(s), p[1]) /\ Op(Now(s), p[2])
         /\ X(p[1]) = A!St(Now(s), p[1])
<1> USE Machine
<1>1. CASE p \in {0} \X Operands
  BY <1>1, Zeroth
<1>2. CASE p \in Depths \X {Reg(0)}
  BY <1>2, Zeroth DEF Depths, Op, Reg
<1> QED BY <1>1, <1>2 DEF DestSrc

\* Arithmetic keeps the invariant.
LEMMA ArithmeticKeeps ==
  ASSUME Inv, Fadd \/ Fsub \/ FiaddMem \/ FisubMem \/ Faddp \/ Fsubp
  PROVE  Inv'
<1> USE Machine
<1>1. CASE Fadd
  <2>1. PICK p \in DestSrc :
          /\ Full(0)
          /\ LET a == A!Set(Q, p[1], Add(X(p[1]), A!Val(Q, p[2])))
             IN  Do(translate_fadd(s, p[1], p[2]), a) \/ Do(translate_fmul(s, p[1], p[2]), a)
    BY <1>1 DEF Fadd
  <2>2. p[1] \in Slots /\ A!Full(Now(s), p[1]) /\ Op(Now(s), p[2]) /\ X(p[1]) = A!St(Now(s), p[1])
    BY <2>1, Named
  <2>3. Done(1, s, AddInto(Start(s), p[1], p[2]),
             A!Set(Q, p[1], Add(X(p[1]), A!Val(Q, p[2]))))
    BY <2>2, AddDone
  <2> QED BY <2>1, <2>3, Did DEF translate_fadd, translate_fmul
<1>2. CASE Fsub
  <2>1. PICK p \in DestSrc, rev \in BOOLEAN :
          /\ Full(0)
          /\ LET a == A!Set(Q, p[1], SubR(rev, X(p[1]), A!Val(Q, p[2])))
             IN  \/ Do(translate_fsub(s, p[1], p[2], rev), a)
                 \/ Do(translate_fdiv(s, p[1], p[2], rev), a)
    BY <1>2 DEF Fsub
  <2>2. p[1] \in Slots /\ A!Full(Now(s), p[1]) /\ Op(Now(s), p[2]) /\ X(p[1]) = A!St(Now(s), p[1])
    BY <2>1, Named
  <2>3. Done(1, s, SubInto(Start(s), p[1], p[2], rev),
             A!Set(Q, p[1], SubR(rev, X(p[1]), A!Val(Q, p[2]))))
    BY <2>2, SubDone
  <2> QED BY <2>1, <2>3, Did DEF translate_fsub, translate_fdiv
<1>3. CASE FiaddMem
  <2>1. PICK v \in Vals :
          /\ Full(0)
          /\ LET a == A!Farith(Q, "add", Mem(v))
             IN  Do(translate_fiadd(s, v), a) \/ Do(translate_fimul(s, v), a)
    BY <1>3 DEF FiaddMem
  <2>2. Done(1, s, AddInto(Start(s), 0, Mem(v)), A!Set(Q, 0, Add(X(0), A!Val(Q, Mem(v)))))
    BY <2>1, AddDone, Immediate, Zeroth
  <2>3. A!Set(Q, 0, Add(X(0), A!Val(Q, Mem(v)))) = A!Farith(Q, "add", Mem(v))
    BY AArith DEF A!Farith, Arith
  <2> QED BY <2>1, <2>2, <2>3, Did DEF translate_fiadd, translate_fimul
<1>4. CASE FisubMem
  <2>1. PICK v \in Vals :
          /\ Full(0)
          /\ \/ Do(translate_fisub(s, v), A!Set(Q, 0, Sub(X(0), v)))
             \/ Do(translate_fidiv(s, v), A!Set(Q, 0, Sub(X(0), v)))
             \/ Do(translate_fisubr(s, v), A!Set(Q, 0, Sub(v, X(0))))
             \/ Do(translate_fidivr(s, v), A!Set(Q, 0, Sub(v, X(0))))
    BY <1>4 DEF FisubMem
  <2>2. \A rev : Done(1, s, SubInto(Start(s), 0, Mem(v), rev),
                      A!Set(Q, 0, SubR(rev, X(0), A!Val(Q, Mem(v)))))
    BY <2>1, SubDone, Immediate, Zeroth
  <2>3. A!Val(Q, Mem(v)) = v
    BY Immediate
  <2>4. /\ Done(1, s, SubInto(Start(s), 0, Mem(v), FALSE), A!Set(Q, 0, Sub(X(0), v)))
        /\ Done(1, s, SubInto(Start(s), 0, Mem(v), TRUE), A!Set(Q, 0, Sub(v, X(0))))
    BY <2>2, <2>3 DEF SubR
  <2> QED BY <2>1, <2>4, Did
          DEF translate_fisub, translate_fidiv, translate_fisubr, translate_fidivr
<1>5. CASE Faddp
  <2>1. PICK i \in Depths \ {0} :
          /\ Full(0)
          /\ LET a == A!PopSt(A!Set(Q, i, Add(X(i), X(0))))
             IN  Do(translate_faddp(s, i), a) \/ Do(translate_fmulp(s, i), a)
    BY <1>5 DEF Faddp
  <2>2. LET B == Start(s)
        IN  Done(1, s, ApplyPop(B, i, Add(St(B, i), St(B, 0))),
                 A!PopSt(A!Set(Q, i, Add(X(i), X(0)))))
    BY <2>1, PopDone DEF Depths
  <2> QED BY <2>1, <2>2, Did DEF translate_faddp, translate_fmulp
<1>6. CASE Fsubp
  <2>1. PICK i \in Depths \ {0}, rev \in BOOLEAN :
          /\ Full(0)
          /\ LET a == A!PopSt(A!Set(Q, i, SubR(rev, X(i), X(0))))
             IN  Do(translate_fsubp(s, i, rev), a) \/ Do(translate_fdivp(s, i, rev), a)
    BY <1>6 DEF Fsubp
  <2>2. LET B == Start(s)
        IN  Done(1, s, ApplyPop(B, i, SubR(rev, St(B, i), St(B, 0))),
                 A!PopSt(A!Set(Q, i, SubR(rev, X(i), X(0)))))
    BY <2>1, PopDone DEF Depths
  <2> QED BY <2>1, <2>2, Did DEF translate_fsubp, translate_fdivp
<1> QED BY <1>1, <1>2, <1>3, <1>4, <1>5, <1>6

\* Instructions that rewrite ST(0), or leave a second result, keep the
\* invariant.
LEMMA RewritesKeep ==
  ASSUME Inv, Shun = Divergent, Unary \/ Scale \/ IntoOne \/ Fptan \/ Fsincos \/ Fxtract
  PROVE  Inv'
<1> USE Machine
<1>1. CASE Unary
  <2>1. Done(1, s, Rewrite(Start(s)), A!Set(Q, 0, Un(X(0))))
    BY <1>1, RewriteDone DEF Unary
  <2> QED BY <1>1, <2>1, Did
          DEF Unary, translate_fchs, translate_fabs, translate_fsqrt, translate_frndint,
              translate_fsin, translate_fcos, translate_f2xm1
<1>2. CASE Scale
  <2>1. Op(Now(s), Reg(1)) /\ A!Val(Now(s), Reg(1)) = X(1)
    BY <1>2, Zeroth DEF Scale, Op, Reg, A!Val
  <2>2. \A rev : Done(1, s, SubInto(Start(s), 0, Reg(1), rev),
                      A!Set(Q, 0, SubR(rev, X(0), A!Val(Q, Reg(1)))))
    BY <1>2, <2>1, SubDone, Zeroth DEF Scale
  <2>3. Done(1, s, SubInto(Start(s), 0, Reg(1), FALSE), A!Set(Q, 0, Sub(X(0), X(1))))
    BY <2>1, <2>2 DEF SubR
  <2> QED BY <1>2, <2>3, Did DEF Scale, translate_fscale, translate_fprem, translate_fprem1
<1>3. CASE IntoOne
  <2> DEFINE B == Start(s)
  <2>1. \A rev : Done(1, s, ApplyPop(B, 1, SubR(rev, St(B, 1), St(B, 0))),
                      A!PopSt(A!Set(Q, 1, SubR(rev, X(1), X(0)))))
    BY <1>3, PopDone, Zeroth DEF IntoOne
  <2>2. Done(1, s, ApplyPop(B, 1, Sub(St(B, 1), St(B, 0))), A!PopSt(A!Set(Q, 1, Sub(X(1), X(0)))))
    BY <2>1 DEF SubR
  <2> QED BY <1>3, <2>2, Did
          DEF IntoOne, IntoSt1, translate_fpatan, translate_fyl2x, translate_fyl2xp1
<1>4. CASE Fptan
  <2>1. Done(1, s, translate_fptan(s), A!PushSt(A!Set(Q, 0, Un(X(0))), One))
    BY <1>4, Seconds DEF Fptan
  <2> QED BY <1>4, <2>1, Did DEF Fptan
<1>5. CASE Fsincos
  <2>1. Done(1, s, translate_fsincos(s), A!PushSt(A!Set(Q, 0, Un(X(0))), Vn(X(0))))
    BY <1>5, Seconds DEF Fsincos
  <2> QED BY <1>5, <2>1, Did DEF Fsincos
<1>6. CASE Fxtract
  <2>1. ~s.pd
    BY <1>6 DEF Fxtract, Divergent, PermPending
  <2>2. Done(1, s, translate_fxtract(s), A!PushSt(A!Set(Q, 0, Un(X(0))), Vn(X(0))))
    BY <1>6, <2>1, Seconds DEF Fxtract
  <2> QED BY <1>6, <2>2, Did DEF Fxtract
<1> QED BY <1>1, <1>2, <1>3, <1>4, <1>5, <1>6

\* Stores keep the invariant.
LEMMA StoresKeep ==
  ASSUME Inv, Fst \/ Fstp \/ FstSti \/ FstpSti
  PROVE  Inv'
<1> USE Machine
<1>1. CASE Fst
  <2>1. Done(1, s, StoreOut(Start(s)), A!Give(Q, X(0)))
    BY <1>1, Stores DEF Fst
  <2> QED BY <1>1, <2>1, Did DEF Fst, translate_fst, translate_fist
<1>2. CASE Fstp
  <2>1. Done(1, s, StoreOutPop(Start(s)), A!PopSt(A!Give(Q, X(0))))
    BY <1>2, Stores DEF Fstp
  <2> QED BY <1>2, <2>1, Did
          DEF Fstp, translate_fstp, translate_fistp, translate_fisttp, translate_fbstp
<1>3. CASE FstSti
  <2>1. PICK i \in Depths : Full(0) /\ Do(translate_fst_sti(s, i), A!Set(Q, i, X(0)))
    BY <1>3 DEF FstSti
  <2>2. Done(1, s, translate_fst_sti(s, i), A!Set(Q, i, X(0)))
    BY <2>1, Copies DEF Depths
  <2> QED BY <2>1, <2>2, Did
<1>4. CASE FstpSti
  <2>1. PICK i \in Depths : Full(0) /\ Do(translate_fstp_sti(s, i), A!PopSt(A!Set(Q, i, X(0))))
    BY <1>4 DEF FstpSti
  <2>2. Done(1, s, translate_fstp_sti(s, i), A!PopSt(A!Set(Q, i, X(0))))
    BY <2>1, Copies DEF Depths
  <2> QED BY <2>1, <2>2, Did
<1> QED BY <1>1, <1>2, <1>3, <1>4

\* Comparisons keep the invariant.
LEMMA ComparisonsKeep ==
  ASSUME Inv, Fcom \/ Fcomp \/ Fcompp \/ Ficom \/ Ficomp \/ Ftst
  PROVE  Inv'
<1> USE Machine
<1>0. ASSUME NEW x, Op(Now(s), x), Full(0)
      PROVE  /\ Done(1, s, translate_fcom(s, x), A!Fcom(Q, x, 0))
             /\ Done(1, s, translate_fcomp(s, x), A!Fcom(Q, x, 1))
             /\ A!Fcom(Q, x, 0) = A!Compare(Q, A!Val(Q, x))
             /\ A!Fcom(Q, x, 1) = A!PopSt(A!Compare(Q, A!Val(Q, x)))
  BY <1>0, Compares DEF translate_fcom, translate_fcomp
<1>1. CASE Fcom
  <2>1. PICK x \in Operands : Full(0) /\ Do(translate_fcom(s, x), A!Fcom(Q, x, 0))
    BY <1>1 DEF Fcom
  <2> QED BY <1>0, <2>1, Did
<1>2. CASE Fcomp
  <2>1. PICK x \in Operands : Full(0) /\ Do(translate_fcomp(s, x), A!Fcom(Q, x, 1))
    BY <1>2 DEF Fcomp
  <2> QED BY <1>0, <2>1, Did
<1>3. CASE Fcompp
  <2>1. Op(Now(s), Reg(1))
    BY <1>3, Zeroth DEF Fcompp, Op, Reg
  <2>2. Done(1, s, translate_fcompp(s), A!Fcom(Q, Reg(1), 2))
    BY <1>3, <2>1, Compares DEF Fcompp, translate_fcompp
  <2> QED BY <1>3, <2>2, Did DEF Fcompp
<1>4. CASE Ficom
  <2>1. PICK v \in Vals : Full(0) /\ Do(translate_ficom(s, v), A!Compare(Q, v))
    BY <1>4 DEF Ficom
  <2>2. Op(Now(s), Mem(v)) /\ A!Val(Q, Mem(v)) = v
    BY Immediate
  <2>3. translate_ficom(s, v) = translate_fcom(s, Mem(v))
    BY DEF translate_ficom, translate_fcom
  <2> QED BY <1>0, <2>1, <2>2, <2>3, Did
<1>5. CASE Ficomp
  <2>1. PICK v \in Vals : Full(0) /\ Do(translate_ficomp(s, v), A!PopSt(A!Compare(Q, v)))
    BY <1>5 DEF Ficomp
  <2>2. Op(Now(s), Mem(v)) /\ A!Val(Q, Mem(v)) = v
    BY Immediate
  <2>3. translate_ficomp(s, v) = translate_fcomp(s, Mem(v))
    BY DEF translate_ficomp, translate_fcomp
  <2> QED BY <1>0, <2>1, <2>2, <2>3, Did
<1>6. CASE Ftst
  <2>1. Done(1, s, translate_ftst(s), A!Compare(Q, Zero))
    BY <1>6, FtstDone DEF Ftst
  <2> QED BY <1>6, <2>1, Did DEF Ftst
<1> QED BY <1>1, <1>2, <1>3, <1>4, <1>5, <1>6

\* Comparisons into flags, FCMOV, FXAM, FSTSW and the control word keep the
\* invariant.
LEMMA FlagsKeep ==
  ASSUME Inv, Shun = Divergent, Fcomi \/ Fcomip \/ Fcmov \/ Fxam \/ Fstsw \/ Control
  PROVE  Inv'
<1> USE Machine
<1>1. CASE Fcomi
  <2>1. PICK i \in Depths : Full(0) /\ Do(translate_fcomi(s, i), A!Give(Q, Cmp(X(0), X(i))))
    BY <1>1 DEF Fcomi
  <2>2. Done(1, s, translate_fcomi(s, i), A!Give(Q, Cmp(X(0), X(i))))
    BY <2>1, FlagsDone DEF Depths
  <2> QED BY <2>1, <2>2, Did
<1>2. CASE Fcomip
  <2>1. PICK i \in Depths :
          Full(0) /\ Do(translate_fcomip(s, i), A!PopSt(A!Give(Q, Cmp(X(0), X(i)))))
    BY <1>2 DEF Fcomip
  <2>2. Done(1, s, translate_fcomip(s, i), A!PopSt(A!Give(Q, Cmp(X(0), X(i)))))
    BY <2>1, FlagsDone DEF Depths
  <2> QED BY <2>1, <2>2, Did
<1>3. CASE Fcmov
  <2>1. PICK i \in Depths, taken \in BOOLEAN :
          Full(0) /\ Do(translate_fcmov(s, i, taken), A!Set(Q, 0, IF taken THEN X(i) ELSE X(0)))
    BY <1>3 DEF Fcmov
  <2>2. Done(1, s, translate_fcmov(s, i, taken), A!Set(Q, 0, IF taken THEN X(i) ELSE X(0)))
    BY <2>1, FcmovDone DEF Depths
  <2> QED BY <2>1, <2>2, Did
<1>4. CASE Fxam
  <2>1. s.dpc < NSlots
    BY <1>4 DEF Fxam, Divergent
  <2>2. Done(1, s, translate_fxam(s), [Q EXCEPT !.cc = IF Full(0) THEN Un(X(0)) ELSE NoVal])
    BY <2>1, FxamDone
  <2> QED BY <1>4, <2>2, Did DEF Fxam
<1>5. CASE Fstsw
  <2>1. ~(s.pd /\ s.run = 1)
    BY <1>5 DEF Fstsw, Divergent, PermPending
  <2>2. Answers(1, s, translate_fstsw(s), A!Fstsw(Q))
    BY <2>1, FstswDone
  <2> QED BY <1>5, <2>2, Replied DEF Fstsw, Do
<1>6. CASE Control
  <2>1. /\ Done(1, s, translate_fldcw(s), Q) /\ Done(1, s, translate_fnstcw(s), Q)
        /\ Done(1, s, translate_fnop(s), Q)
    BY Controls
  <2> QED BY <1>6, <2>1, Did DEF Control
<1> QED BY <1>1, <1>2, <1>3, <1>4, <1>5, <1>6

\* FXCH, moves of TOP, FFREE, FRSTOR and FSAVE keep the invariant.
LEMMA StackKeeps ==
  ASSUME Inv, Shun = Divergent, Fxch \/ Fdecstp \/ Fincstp \/ Ffree \/ Frstor \/ Fsave
  PROVE  Inv'
<1> USE Machine
<1>1. CASE Fxch
  <2>1. PICK i \in Depths :
          Full(0) /\ (DeferFxch \/ ~s.pd) /\ Do(translate_fxch(s, i), A!Xch(Q, i))
    BY <1>1 DEF Fxch, Divergent, PermPending
  <2>2. Done(1, s, translate_fxch(s, i), A!Xch(Q, i))
    BY <2>1, FxchDone DEF Depths
  <2> QED BY <2>1, <2>2, Did
<1>2. CASE Fdecstp
  <2>1. Done(1, s, translate_fdecstp(s), [Q EXCEPT !.top = Dec(@)])
    BY Moves
  <2> QED BY <1>2, <2>1, Did DEF Fdecstp
<1>3. CASE Fincstp
  <2>1. Done(1, s, translate_fincstp(s), [Q EXCEPT !.top = Inc(@)])
    BY Moves
  <2> QED BY <1>3, <2>1, Did DEF Fincstp
<1>4. CASE Ffree
  <2>1. PICK i \in Slots : ~s.pd /\ Do(translate_ffree(s, i), A!FreeSt(Q, i))
    BY <1>4 DEF Ffree, Divergent, PermPending
  <2>2. Done(1, s, translate_ffree(s, i), A!FreeSt(Q, i))
    BY <2>1, FfreeDone
  <2> QED BY <2>1, <2>2, Did
<1>5. CASE Frstor
  <2>1. PICK img \in Images : Do(translate_frstor(s, img), A!FromImage(img))
    BY <1>5 DEF Frstor
  <2>2. Done(1, s, translate_frstor(s, img), A!FromImage(img))
    BY ImagesAssumption, FrstorDone DEF IsImage, Held
  <2> QED BY <2>1, <2>2, Did
<1>6. CASE Fsave
  <2>1. Done(1, s, translate_fsave(s), A!Give(A!Empty, A!Image(arch)))
    BY FsaveDone
  <2> QED BY <1>6, <2>1, Did DEF Fsave
<1> QED BY <1>1, <1>2, <1>3, <1>4, <1>5, <1>6

-----------------------------------------------------------------------------
(* The fusions *)

\* Fusions of FLD with what consumes its value keep the invariant.
LEMMA FusedFldKeep ==
  ASSUME Inv, FusedFldArithp \/ FusedFldArith \/ FusedFldFstp \/ FusedExactCopy \/ FusedNestedCopy
  PROVE  Inv'
<1> USE Machine
<1>1. CASE FusedFldArithp
  <2>1. PICK x \in Operands, k \in ArithOps :
          /\ Room /\ Full(0)
          /\ Answer(2, try_fuse_fld_arithp(s, x, k), A!Farithp(A!Fld(Q, x), k))
    BY <1>1 DEF FusedFldArithp
  <2>2. Done(2, s, try_fuse_fld_arithp(s, x, k), A!Farithp(A!Fld(Q, x), k))
    BY <2>1, FldArithpDone
  <2> QED BY <2>1, <2>2, RepliedDone
<1>2. CASE FusedFldArith
  <2>1. PICK x \in Operands, k \in ArithOps, v \in Vals :
          /\ Room
          /\ Answer(2, try_fuse_fld_arith(s, x, k, v), A!Farith(A!Fld(Q, x), k, Mem(v)))
    BY <1>2 DEF FusedFldArith
  <2>2. Done(2, s, try_fuse_fld_arith(s, x, k, v), A!Farith(A!Fld(Q, x), k, Mem(v)))
    BY <2>1, FldArithDone
  <2> QED BY <2>1, <2>2, RepliedDone
<1>3. CASE FusedFldFstp
  <2>1. PICK x \in Operands, toSt1 \in BOOLEAN :
          /\ Room /\ (toSt1 => Full(0))
          /\ Answer(2, try_fuse_fld_fstp(s, x, toSt1), FstpBehind(A!Fld(Q, x), toSt1))
    BY <1>3 DEF FusedFldFstp
  <2>2. CASE toSt1
    <3>1. Done(2, s, try_fuse_fld_fstp(s, x, TRUE), A!FstpSti(A!Fld(Q, x), 1))
      BY <2>1, <2>2, FldFstpDone
    <3>2. toSt1 = TRUE
      BY <2>1, <2>2
    <3>3. Answer(2, try_fuse_fld_fstp(s, x, TRUE), A!FstpSti(A!Fld(Q, x), 1))
      BY <2>1, <3>2 DEF FstpBehind
    <3>4. \E T, a : Done(2, s, T, a) /\ Answer(2, T, a)
      BY <3>1, <3>3
    <3> QED BY <3>4, RepliedDone
  <2>3. CASE ~toSt1
    <3>1. Done(2, s, try_fuse_fld_fstp(s, x, FALSE), A!Fstp(A!Fld(Q, x)))
      BY <2>1, FldFstpDone
    <3>2. toSt1 = FALSE
      BY <2>1, <2>3
    <3>3. Answer(2, try_fuse_fld_fstp(s, x, FALSE), A!Fstp(A!Fld(Q, x)))
      BY <2>1, <3>2 DEF FstpBehind
    <3>4. \E T, a : Done(2, s, T, a) /\ Answer(2, T, a)
      BY <3>1, <3>3
    <3> QED BY <3>4, RepliedDone
  <2> QED BY <2>2, <2>3
<1>4. CASE FusedExactCopy
  <2>1. PICK v \in Vals :
          /\ Room
          /\ LET a == A!Fstp(A!Fld(Q, Mem(v)))
             IN  \/ Answer(2, try_fuse_fild_fistp(s, v), a)
                 \/ Answer(2, try_fuse_fld_fstp_m80(s, v), a)
    BY <1>4 DEF FusedExactCopy
  <2>2. /\ Done(2, s, try_fuse_fild_fistp(s, v), A!Fstp(A!Fld(Q, Mem(v))))
        /\ Done(2, s, try_fuse_fld_fstp_m80(s, v), A!Fstp(A!Fld(Q, Mem(v))))
    BY <2>1, ExactCopyDone
  <2> QED BY <2>1, <2>2, RepliedDone
<1>5. CASE FusedNestedCopy
  <2>1. PICK v1 \in Vals, v2 \in Vals :
          LET a1 == A!Fld(Q, Mem(v1))
              a2 == A!Fld(a1, Mem(v2))
          IN  /\ Room /\ A!Room(a1)
              /\ \/ Answer(4, try_fuse_fild_fistp_nested(s, <<v1, v2>>),
                           A!Give(A!Fstp(A!Fstp(a2)), <<v2, v1>>))
                 \/ /\ A!Room(a2)
                    /\ \E v3 \in Vals :
                         Answer(6, try_fuse_fild_fistp_nested(s, <<v1, v2, v3>>),
                           A!Give(A!Fstp(A!Fstp(A!Fstp(A!Fld(a2, Mem(v3))))), <<v3, v2, v1>>))
    BY <1>5 DEF FusedNestedCopy
  <2>2. PICK a1 : a1 = A!Fld(Q, Mem(v1))
    OBVIOUS
  <2>3. PICK a2 : a2 = A!Fld(a1, Mem(v2))
    OBVIOUS
  <2>4. A!Room(Now(s)) /\ A!Room(a1)
    BY <2>1, <2>2
  <2>5. /\ Done(4, s, try_fuse_fild_fistp_nested(s, <<v1, v2>>),
                A!Give(A!Fstp(A!Fstp(a2)), <<v2, v1>>))
        /\ A!Room(a2) => \A v3 \in Vals :
             Done(6, s, try_fuse_fild_fistp_nested(s, <<v1, v2, v3>>),
                  A!Give(A!Fstp(A!Fstp(A!Fstp(A!Fld(a2, Mem(v3))))), <<v3, v2, v1>>))
    BY <2>2, <2>3, <2>4, NestedDone
  <2>6. \/ Answer(4, try_fuse_fild_fistp_nested(s, <<v1, v2>>),
                  A!Give(A!Fstp(A!Fstp(a2)), <<v2, v1>>))
        \/ /\ A!Room(a2)
           /\ \E v3 \in Vals :
                Answer(6, try_fuse_fild_fistp_nested(s, <<v1, v2, v3>>),
                  A!Give(A!Fstp(A!Fstp(A!Fstp(A!Fld(a2, Mem(v3))))), <<v3, v2, v1>>))
    BY <2>1, <2>2, <2>3
  <2>7. \E n \in {4, 6} : \E T, a : Done(n, s, T, a) /\ Answer(n, T, a)
    BY <2>5, <2>6
  <2> QED BY <2>7, RepliedDone
<1> QED BY <1>1, <1>2, <1>3, <1>4, <1>5

\* An operand behind the one FLD pushes, and how it is named after the push.
LEMMA BehindNamed ==
  ASSUME Inv, Room, NEW y \in Behind
  PROVE  /\ Op(Now(s), y)
         /\ \A u \in Vals : A!Val(A!PushSt(Now(s), u), Deeper(y)) = A!Val(Now(s), y)
<1> USE Machine
<1>1. CASE y \in {Mem(v) : v \in Vals}
  <2>1. PICK v \in Vals : y = Mem(v)
    BY <1>1
  <2>2. Deeper(y) = Mem(v)
    BY <2>1 DEF Deeper, Mem
  <2> QED BY <2>1, <2>2, Immediate
<1>2. CASE y = Reg(0) /\ Full(0)
  <2>1. Op(Now(s), y)
    BY <1>2, Zeroth DEF Op, Reg
  <2>2. Deeper(y) = Reg(1)
    BY <1>2 DEF Deeper, Reg
  <2>3. Tidy(Now(s))
    BY NowMach, TidyMid
  <2>4. ASSUME NEW u \in Vals
        PROVE  A!Val(A!PushSt(Now(s), u), Reg(1)) = A!Val(Now(s), Reg(0))
    <3>1. A!St(A!PushSt(Now(s), u), 1) = A!St(Now(s), 0)
      BY <1>2, <2>3, AfterFld
    <3> QED BY <3>1 DEF A!Val, Reg
  <2> QED BY <1>2, <2>1, <2>2, <2>4
<1> QED BY <1>1, <1>2 DEF Behind

\* Fusions of FLD with two operations keep the invariant.
LEMMA FusedFldArithsKeep ==
  ASSUME Inv, FusedFldArithFstp \/ FusedFldArithArithp
  PROVE  Inv'
<1> USE Machine
<1>1. CASE FusedFldArithFstp
  <2>1. PICK x \in Operands, k \in ArithOps, y \in Behind, toSt1 \in BOOLEAN :
          /\ Room /\ (toSt1 => Full(0))
          /\ Answer(3, try_fuse_fld_arith_fstp(s, x, k, y, toSt1),
                    FstpBehind(A!Farith(A!Fld(Q, x), k, Deeper(y)), toSt1))
    BY <1>1 DEF FusedFldArithFstp
  <2>2. PICK z : z = Deeper(y)
    OBVIOUS
  <2>3. Op(Now(s), y) /\ \A u \in Vals : A!Val(A!PushSt(Now(s), u), z) = A!Val(Now(s), y)
    BY <2>1, <2>2, BehindNamed
  <2>4. PICK a : a = A!Farith(A!Fld(Q, x), k, z)
    OBVIOUS
  <2>5. /\ Done(3, s, try_fuse_fld_arith_fstp(s, x, k, y, FALSE), A!Fstp(a))
        /\ Full(0) => Done(3, s, try_fuse_fld_arith_fstp(s, x, k, y, TRUE), A!FstpSti(a, 1))
    BY <2>1, <2>3, <2>4, FldArithFstpDone
  <2>6. CASE toSt1
    <3>1. toSt1 = TRUE
      BY <2>1, <2>6
    <3>2. Answer(3, try_fuse_fld_arith_fstp(s, x, k, y, TRUE), A!FstpSti(a, 1))
      BY <2>1, <2>2, <2>4, <3>1 DEF FstpBehind
    <3>3. \E T, b : Done(3, s, T, b) /\ Answer(3, T, b)
      BY <2>1, <2>5, <2>6, <3>2
    <3> QED BY <3>3, RepliedDone
  <2>7. CASE ~toSt1
    <3>1. toSt1 = FALSE
      BY <2>1, <2>7
    <3>2. Answer(3, try_fuse_fld_arith_fstp(s, x, k, y, FALSE), A!Fstp(a))
      BY <2>1, <2>2, <2>4, <3>1 DEF FstpBehind
    <3>3. \E T, b : Done(3, s, T, b) /\ Answer(3, T, b)
      BY <2>5, <3>2
    <3> QED BY <3>3, RepliedDone
  <2> QED BY <2>6, <2>7
<1>2. CASE FusedFldArithArithp
  <2>1. PICK x \in Operands, k \in ArithOps, kp \in ArithOps, y \in Behind :
          /\ Room /\ Full(0)
          /\ Answer(3, try_fuse_fld_arith_arithp(s, x, k, y, kp),
                    A!Farithp(A!Farith(A!Fld(Q, x), k, Deeper(y)), kp))
    BY <1>2 DEF FusedFldArithArithp
  <2>2. PICK z : z = Deeper(y)
    OBVIOUS
  <2>3. Op(Now(s), y) /\ \A u \in Vals : A!Val(A!PushSt(Now(s), u), z) = A!Val(Now(s), y)
    BY <2>1, <2>2, BehindNamed
  <2>4. PICK a : a = A!Farith(A!Fld(Q, x), k, z)
    OBVIOUS
  <2>5. Done(3, s, try_fuse_fld_arith_arithp(s, x, k, y, kp), A!Farithp(a, kp))
    BY <2>1, <2>3, <2>4, FldArithFstpDone
  <2>6. Answer(3, try_fuse_fld_arith_arithp(s, x, k, y, kp), A!Farithp(a, kp))
    BY <2>1, <2>2, <2>4
  <2> QED BY <2>5, <2>6, RepliedDone
<1> QED BY <1>1, <1>2

\* Fusions of FLD with comparisons keep the invariant.
LEMMA FusedFldFcomsKeep ==
  ASSUME Inv, FusedFldFcomp \/ FusedFldFcompp \/ FusedFldFldFcompp
  PROVE  Inv'
<1> USE Machine
<1>1. CASE FusedFldFcomp
  <2>1. PICK x \in Operands, y \in Behind :
          /\ Room
          /\ LET a == A!Fcom(A!Fld(Q, x), Deeper(y), 1)
             IN  \/ Answer(2, try_fuse_fld_fcomp(s, x, y), a)
                 \/ Answer(3, try_fuse_fld_fcomp_fstsw(s, x, y), A!Fstsw(a))
    BY <1>1 DEF FusedFldFcomp
  <2>2. PICK z : z = Deeper(y)
    OBVIOUS
  <2>3. Op(Now(s), y) /\ \A u \in Vals : A!Val(A!PushSt(Now(s), u), z) = A!Val(Now(s), y)
    BY <2>1, <2>2, BehindNamed
  <2>4. PICK a : a = A!Fcom(A!Fld(Q, x), z, 1)
    OBVIOUS
  <2>5. /\ Done(2, s, try_fuse_fld_fcomp(s, x, y), a)
        /\ Done(3, s, try_fuse_fld_fcomp_fstsw(s, x, y), A!Fstsw(a))
    BY <2>1, <2>3, <2>4, FldFcompDone
  <2>6. \/ Answer(2, try_fuse_fld_fcomp(s, x, y), a)
        \/ Answer(3, try_fuse_fld_fcomp_fstsw(s, x, y), A!Fstsw(a))
    BY <2>1, <2>2, <2>4
  <2> QED BY <2>5, <2>6, RepliedDone
<1>2. CASE FusedFldFcompp
  <2>1. PICK x \in Operands :
          /\ Room /\ Full(0)
          /\ Answer(3, try_fuse_fld_fcompp_fstsw(s, x), A!Fstsw(A!Fcom(A!Fld(Q, x), Reg(1), 2)))
    BY <1>2 DEF FusedFldFcompp
  <2>2. Done(3, s, try_fuse_fld_fcompp_fstsw(s, x), A!Fstsw(A!Fcom(A!Fld(Q, x), Reg(1), 2)))
    BY <2>1, FldFcomppDone
  <2> QED BY <2>1, <2>2, RepliedDone
<1>3. CASE FusedFldFldFcompp
  <2>1. PICK x1 \in Operands :
          LET a1 == A!Fld(Q, x1) IN
          /\ Room /\ A!Room(a1)
          /\ \E x2 \in {Mem(v) : v \in Vals} \cup {Reg(i) : i \in Slots} :
               /\ ~x2.mem => A!Full(a1, x2.i)
               /\ LET a == A!Fcom(A!Fld(a1, x2), Reg(1), 2)
                  IN  \/ Answer(3, try_fuse_fld_fld_fucompp(s, x1, x2, FALSE), a)
                      \/ Answer(4, try_fuse_fld_fld_fucompp(s, x1, x2, TRUE), A!Fstsw(a))
    BY <1>3 DEF FusedFldFldFcompp
  <2>2. PICK a1 : a1 = A!Fld(Q, x1)
    OBVIOUS
  <2>3. PICK x2 \in {Mem(v) : v \in Vals} \cup {Reg(i) : i \in Slots} :
          /\ ~x2.mem => A!Full(a1, x2.i)
          /\ LET a == A!Fcom(A!Fld(a1, x2), Reg(1), 2)
             IN  \/ Answer(3, try_fuse_fld_fld_fucompp(s, x1, x2, FALSE), a)
                 \/ Answer(4, try_fuse_fld_fld_fucompp(s, x1, x2, TRUE), A!Fstsw(a))
    BY <2>1, <2>2
  <2>4. Op(a1, x2)
    BY <2>3 DEF Op, Mem, Reg
  <2>5. A!Room(Now(s)) /\ A!Room(a1) /\ Op(Now(s), x1)
    BY <2>1, <2>2
  <2>6. PICK a : a = A!Fcom(A!Fld(a1, x2), Reg(1), 2)
    OBVIOUS
  <2>7. /\ Done(3, s, try_fuse_fld_fld_fucompp(s, x1, x2, FALSE), a)
        /\ Done(4, s, try_fuse_fld_fld_fucompp(s, x1, x2, TRUE), A!Fstsw(a))
    BY <2>2, <2>4, <2>5, <2>6, FldFldDone
  <2>8. \/ Answer(3, try_fuse_fld_fld_fucompp(s, x1, x2, FALSE), a)
        \/ Answer(4, try_fuse_fld_fld_fucompp(s, x1, x2, TRUE), A!Fstsw(a))
    BY <2>3, <2>6
  <2>9. \E n \in {3, 4} : \E T, b : Done(n, s, T, b) /\ Answer(n, T, b)
    BY <2>7, <2>8
  <2> QED BY <2>9, RepliedDone
<1> QED BY <1>1, <1>2, <1>3

\* Fusions that start with FXCH or FCOM keep the invariant.
LEMMA FusedExchangesKeep ==
  ASSUME Inv, Shun = Divergent,
         FusedFxchArithp \/ FusedFxchFstp \/ FusedFcomFstsw \/ FusedFxchFcom
  PROVE  Inv'
<1> USE Machine
<1>1. CASE FusedFxchArithp
  <2>1. PICK k \in ArithOps :
          /\ Full(0) /\ Full(1) /\ s.run \notin {1, 3}
          /\ Answer(2, try_fuse_fxch_arithp(s, k), A!Farithp(A!Xch(Q, 1), k))
    BY <1>1 DEF FusedFxchArithp, CountsOnce, Divergent
  <2>2. Answers(2, s, try_fuse_fxch_arithp(s, k), A!Farithp(A!Xch(Q, 1), k))
    BY <2>1, FxchArithpDone
  <2> QED BY <2>1, <2>2, Replied
<1>2. CASE FusedFxchFstp
  <2>1. Done(2, s, try_fuse_fxch_fstp(s), A!FstpSti(A!Xch(Q, 1), 1))
    BY <1>2, FxchFstpDone DEF FusedFxchFstp
  <2> QED BY <1>2, <2>1, RepliedDone DEF FusedFxchFstp
<1>3. ASSUME NEW c \in Comparisons
      PROVE  c[1] \in Operands /\ c[2] \in {0, 1, 2} /\ (c[2] = 2 => c[1] = Reg(1))
  <2>1. CASE c \in Operands \X {0, 1}
    BY <2>1
  <2>2. CASE Full(1) /\ c = <<Reg(1), 2>>
    <3>1. Reg(1) \in Operands
      BY <2>2, Zeroth DEF Operands, Depths
    <3> QED BY <2>2, <3>1
  <2> QED BY <2>1, <2>2 DEF Comparisons
<1>4. CASE FusedFcomFstsw
  <2>1. PICK c \in Comparisons :
          /\ Full(0)
          /\ Answer(2, try_fuse_fcom_fstsw(s, c[1], c[2]), A!Fstsw(A!Fcom(Q, c[1], c[2])))
    BY <1>4 DEF FusedFcomFstsw
  <2>2. Idle(s) /\ CanMove(s) /\ Op(Now(s), c[1]) /\ c[2] \in {0, 1, 2}
    BY <1>3 DEF Sound
  <2>3. Done(2, s, try_fuse_fcom_fstsw(s, c[1], c[2]), A!Fstsw(A!Fcom(Q, c[1], c[2])))
    BY <2>1, <2>2, FcomFstswDone
  <2> QED BY <2>1, <2>3, RepliedDone
<1>5. CASE FusedFxchFcom
  <2>1. PICK i \in Depths \ {0}, c \in Comparisons :
          /\ Full(0) /\ (s.run > 0 \/ c[2] = 0)
          /\ LET a == A!Fcom(A!Xch(Q, i), c[1], c[2])
             IN  \/ /\ CountsOnce(2)
                    /\ Answer(2, try_fuse_fxch_fcom(s, i, c[1], c[2]), a)
                 \/ /\ CountsOnce(3)
                    /\ Answer(3, try_fuse_fxch_fcom_fstsw(s, i, c[1], c[2]), A!Fstsw(a))
    BY <1>5 DEF FusedFxchFcom, Divergent
  <2>2. PICK x, m : x = c[1] /\ m = c[2]
    OBVIOUS
  <2>3. x \in Operands /\ m \in {0, 1, 2} /\ (m = 2 => x = Reg(1)) /\ (m = 0 \/ s.run > 0)
    BY <1>3, <2>1, <2>2
  <2>4. i \in Slots /\ A!Full(Now(s), 0) /\ A!Full(Now(s), i) /\ Idle(s)
    BY <2>1 DEF Depths, Sound
  <2>5. \A d : A!Full(A!Xch(Now(s), i), d) = A!Full(Now(s), d)
    BY <2>4, XchRead, NowMach
  <2>6. Op(A!Xch(Now(s), i), x)
    <3>1. Op(Now(s), x)
      BY <2>3
    <3> QED BY <2>5, <3>1 DEF Op
  <2>7. PICK a : a = A!Fcom(A!Xch(Now(s), i), x, m)
    OBVIOUS
  <2>8. /\ s.run \notin {1, 3} => Answers(2, s, try_fuse_fxch_fcom(s, i, x, m), a)
        /\ s.run \notin {1, 4} => Answers(3, s, try_fuse_fxch_fcom_fstsw(s, i, x, m), A!Fstsw(a))
    BY <2>3, <2>4, <2>6, <2>7, FxchFcomDone
  <2>9. \/ s.run \notin {1, 3} /\ Answer(2, try_fuse_fxch_fcom(s, i, x, m), a)
        \/ s.run \notin {1, 4} /\ Answer(3, try_fuse_fxch_fcom_fstsw(s, i, x, m), A!Fstsw(a))
    BY <2>1, <2>2, <2>7 DEF CountsOnce, Divergent
  <2>10. \E n \in {2, 3} : \E T, b : Answers(n, s, T, b) /\ Answer(n, T, b)
    BY <2>8, <2>9
  <2> QED BY <2>10, Replied
<1> QED BY <1>1, <1>2, <1>4, <1>5

\* Fusions that start with arithmetic or FSTP keep the invariant.
LEMMA FusedStoresKeep ==
  ASSUME Inv,
         FusedArithpFstp \/ FusedArithFstp \/ FusedFstpArithFstp \/ FusedArithFaddp \/ FusedFstpFld
  PROVE  Inv'
<1> USE Machine
<1>1. CASE FusedArithpFstp
  <2>1. PICK k \in ArithOps :
          /\ Full(0) /\ Full(1)
          /\ Answer(2, try_fuse_arithp_fstp(s, k), A!Fstp(A!Farithp(Q, k)))
    BY <1>1 DEF FusedArithpFstp
  <2>2. Done(2, s, try_fuse_arithp_fstp(s, k), A!Fstp(A!Farithp(Q, k)))
    BY <2>1, ArithpFstpDone
  <2> QED BY <2>1, <2>2, RepliedDone
<1>2. CASE FusedArithFstp
  <2>1. PICK k \in ArithOps, x \in Operands :
          /\ Full(0)
          /\ Answer(2, try_fuse_arith_fstp(s, k, x), A!Fstp(A!Farith(Q, k, x)))
    BY <1>2 DEF FusedArithFstp
  <2>2. Done(2, s, try_fuse_arith_fstp(s, k, x), A!Fstp(A!Farith(Q, k, x)))
    BY <2>1, ArithFstpDone
  <2> QED BY <2>1, <2>2, RepliedDone
<1>3. CASE FusedFstpArithFstp
  <2>1. PICK k \in ArithOps, v \in Vals :
          /\ Full(0) /\ Full(1)
          /\ LET a == A!Fstp(A!Farith(A!Fstp(Q), k, Mem(v)))
             IN  Answer(3, try_fuse_fstp_arith_fstp(s, k, v), A!Give(a, <<X(0), a.out>>))
    BY <1>3 DEF FusedFstpArithFstp
  <2>2. PICK a : a = A!Fstp(A!Farith(A!Fstp(Now(s)), k, Mem(v)))
    OBVIOUS
  <2>3. Done(3, s, try_fuse_fstp_arith_fstp(s, k, v), A!Give(a, <<A!St(Now(s), 0), a.out>>))
    BY <2>1, <2>2, FstpArithFstpDone
  <2>4. Answer(3, try_fuse_fstp_arith_fstp(s, k, v), A!Give(a, <<A!St(Now(s), 0), a.out>>))
    BY <2>1, <2>2
  <2> QED BY <2>3, <2>4, RepliedDone
<1>4. CASE FusedArithFaddp
  <2>1. PICK x \in Operands, k \in ArithOps :
          /\ Full(0) /\ Full(1)
          /\ Answer(2, try_fuse_arith_faddp(s, x, k), A!Farithp(A!Farith(Q, "add", x), k))
    BY <1>4 DEF FusedArithFaddp
  <2>2. Done(2, s, try_fuse_arith_faddp(s, x, k), A!Farithp(A!Farith(Q, "add", x), k))
    BY <2>1, ArithFaddpDone
  <2> QED BY <2>1, <2>2, RepliedDone
<1>5. CASE FusedFstpFld
  <2>1. PICK dst \in {Mem(Zero)} \cup {Reg(i) : i \in Depths} :
          LET p == IF dst.mem THEN A!Fstp(Q) ELSE A!FstpSti(Q, dst.i) IN
          /\ Full(0)
          /\ \E x \in {Mem(v) : v \in Vals} \cup {Reg(i) : i \in Slots} :
               /\ ~x.mem => A!Full(p, x.i)
               /\ Answer(2, try_fuse_fstp_fld(s, dst, x), A!Fld(p, x))
    BY <1>5 DEF FusedFstpFld
  <2>2. PICK p : p = IF dst.mem THEN A!Fstp(Q) ELSE A!FstpSti(Q, dst.i)
    OBVIOUS
  <2>3. PICK x \in {Mem(v) : v \in Vals} \cup {Reg(i) : i \in Slots} :
          /\ ~x.mem => A!Full(p, x.i)
          /\ Answer(2, try_fuse_fstp_fld(s, dst, x), A!Fld(p, x))
    BY <2>1, <2>2
  <2>4. Op(p, x)
    BY <2>3 DEF Op, Mem, Reg
  <2>5. ~dst.mem => dst.i \in Slots /\ A!Full(Now(s), dst.i)
    BY <2>1 DEF Depths, Mem, Reg
  <2>6. Full(0)
    BY <2>1
  <2>7. Done(2, s, try_fuse_fstp_fld(s, dst, x), A!Fld(p, x))
    BY <2>2, <2>4, <2>5, <2>6, FstpFldDone
  <2> QED BY <2>3, <2>7, RepliedDone
<1> QED BY <1>1, <1>2, <1>3, <1>4, <1>5

-----------------------------------------------------------------------------
(* Between replies *)

\* With nothing deferred, the state in memory is the whole state.
Resting(S) ==
  TypedState(S) /\ ~S.gv /\ ~S.td /\ ~S.tpp /\ S.dpc = 0 /\ ~S.pd /\ S.perm = Identity

\* A state at rest is consistent, and memory is the machine.
LEMMA RestingLive ==
  ASSUME NEW S, Resting(S)
  PROVE  /\ Consistent(S) /\ LiveTop(S) = S.top
         /\ Live(S) = [top |-> S.top, tag |-> S.tag,
                       st |-> [p \in Slots |-> IF S.tag[p] THEN S.st[p] ELSE NoVal],
                       cc |-> S.cc, out |-> S.out]
<1>1. Consistent(S) /\ LiveTop(S) = S.top /\ S.top \in Slots /\ S.tag \in [Slots -> BOOLEAN]
  BY DEF Resting, Consistent, LiveTop, TypedState
<1>2. TagAt(S, S.top) = S.tag
  <2>1. \A p \in Slots : TagAt(S, S.top)[p] = S.tag[p]
    BY <1>1, NoneAbove DEF TagAt, Resting
  <2> QED BY <1>1, <2>1 DEF TagAt
<1>3. \A p \in Slots : S.perm[Depth(S.top, p)] = Depth(S.top, p) /\ Phys(S.top, Depth(S.top, p)) = p
  BY <1>1, PhysDepth DEF Resting, Identity
<1>4. StAt(S, S.top) = [p \in Slots |-> IF S.tag[p] THEN S.st[p] ELSE NoVal]
  BY <1>2, <1>3 DEF StAt
<1> QED BY <1>1, <1>2, <1>4 DEF Live, LiveAt

\* Between replies nothing is deferred.
LEMMA Rested ==
  ASSUME Inv, ~replying
  PROVE  Resting(s) /\ s.run = 0
<1>1. s.run = 0 /\ TypedState(s) /\ Consistent(s)
  BY DEF Inv, TypeOK, RunBound, Exclusive, active, TypedState
<1> QED BY <1>1 DEF Resting, Consistent

\* A request finds the state at rest and leaves it so, with a run to count.
LEMMA RequestKeeps ==
  ASSUME Inv, NEW n \in 1 .. MaxRun, NEW sameBlock \in BOOLEAN, Request(n, sameBlock)
  PROVE  Inv'
<1>1. Resting(s) /\ s.run = 0 /\ TypedState(s) /\ MaxRun \in Nat /\ n \in Nat
  BY Rested, MaxRunAssumption DEF Request, Resting
<1>2. Live(s) = arch
  BY DEF Inv, Simulates
<1> DEFINE N == IF CacheEnabled /\ n >= 2 THEN n ELSE 0
           V == [s EXCEPT !.run = N]
<1>3. invalidate(s) = s
  BY <1>1 DEF invalidate, reset_perm, TypedState, Resting
<1>4. s = [s EXCEPT !.run = 0]
  BY <1>1 DEF TypedState
<1>5. s' = V /\ todo' = n /\ replying' = TRUE /\ arch' = arch
  BY <1>3, <1>4 DEF Request, set_run
<1>6. N \in Nat /\ N <= n
  BY <1>1
<1> HIDE DEF N
<1>7. V = Rec(s.top, s.tag, s.st, s.cc, s.w, N, s.gv, s.td, s.tpp, s.dpc, s.perm, s.pd, s.out)
  BY <1>1 DEF TypedState, Rec
<1>8. /\ V.top = s.top /\ V.tag = s.tag /\ V.st = s.st /\ V.cc = s.cc /\ V.w = s.w /\ V.run = N
      /\ V.gv = s.gv /\ V.td = s.td /\ V.tpp = s.tpp /\ V.dpc = s.dpc /\ V.perm = s.perm
      /\ V.pd = s.pd /\ V.out = s.out
  BY <1>7 DEF Rec
<1>9. TypedState(V)
  BY <1>1, <1>6, <1>7 DEF TypedState, Rec
<1> HIDE DEF V
<1>10. Resting(V)
  BY <1>1, <1>8, <1>9 DEF Resting
<1>11. Consistent(V) /\ Live(V) = Live(s)
  BY <1>1, <1>8, <1>10, RestingLive
<1> QED BY <1>1, <1>2, <1>5, <1>6, <1>8, <1>9, <1>11
        DEF Inv, TypeOK, RunBound, Exclusive, Simulates

\* An instruction declined inside a run leaves the state at rest.
LEMMA DeclineKeeps ==
  ASSUME Inv, DeclineMidRun
  PROVE  Inv'
<1>1. Idle(s) /\ TypedState(s) /\ s.run > 0 /\ Live(s) = arch /\ MaxRun \in Nat
  BY Machine, MaxRunAssumption DEF Sound, DeclineMidRun, active, Idle
<1> DEFINE R == [s EXCEPT !.run = 1]
<1>2. R = Rec(s.top, s.tag, s.st, s.cc, s.w, 1, s.gv, s.td, s.tpp, s.dpc, s.perm, s.pd, s.out)
  BY <1>1 DEF TypedState, Rec
<1>3. /\ R.top = s.top /\ R.tag = s.tag /\ R.st = s.st /\ R.cc = s.cc /\ R.w = s.w /\ R.run = 1
      /\ R.gv = s.gv /\ R.td = s.td /\ R.tpp = s.tpp /\ R.dpc = s.dpc /\ R.perm = s.perm
      /\ R.pd = s.pd /\ R.out = s.out
  BY <1>2 DEF Rec
<1>4. TypedState(R)
  BY <1>1, <1>2 DEF TypedState, Rec
<1> HIDE DEF R
<1>5. Idle(R)
  BY <1>1, <1>3, <1>4 DEF Idle
<1>6. Live(R) = Live(s)
  <2>1. LiveTop(R) = LiveTop(s) /\ \A t : TagAt(R, t) = TagAt(s, t)
    BY <1>3 DEF LiveTop, TagAt
  <2> QED BY <1>3, <2>1 DEF Live, LiveAt, StAt
<1>7. PICK B : B = x87_begin(R) /\ Ready(B) /\ B.run = 1 /\ Mid(B) = Live(s)
  BY <1>3, <1>5, <1>6, Begin
<1>8. PICK E : E = x87_end(B, 1) /\ Same(B, E) /\ Clean(E)
  BY <1>7, End
<1>9. Ready(E) /\ E.run = 1 /\ Mid(E) = Live(s)
  BY <1>7, <1>8 DEF Same
<1>10. Idle(E) /\ Live(E) = Live(s)
  BY <1>9, ReadyIdle
<1>11. PICK V : /\ V = Release(tick(E, 1)) /\ TypedState(V) /\ Consistent(V)
                /\ Live(V) = Live(E) /\ V.run = 0
  BY <1>8, <1>9, <1>10, Ticked
<1>12. s' = V /\ todo' = 0 /\ ~replying' /\ replying' \in BOOLEAN /\ arch' = arch
  BY <1>7, <1>8, <1>11 DEF DeclineMidRun, flush_run_and_release, R
<1> QED BY <1>1, <1>10, <1>11, <1>12 DEF Inv, TypeOK, RunBound, Exclusive, Simulates, active

\* What FNINIT, run by stock, makes of the state.
Finit(S, f) == [S EXCEPT !.top = 0, !.tag = f, !.cc = NoVal, !.out = NoVal]

\* FNINIT's writes, on a state given by its fields.
LEMMA Finished ==
  ASSUME NEW S, TypedState(S), NEW f
  PROVE  Finit(S, f) = Rec(0, f, S.st, NoVal, S.w, S.run, S.gv, S.td, S.tpp, S.dpc, S.perm, S.pd,
                           NoVal)
<1> SUFFICES ASSUME NEW V, V = Finit(S, f)
             PROVE  V = Rec(0, f, S.st, NoVal, S.w, S.run, S.gv, S.td, S.tpp, S.dpc, S.perm,
                            S.pd, NoVal)
  OBVIOUS
<1>1. V = [S EXCEPT !.top = 0, !.tag = f, !.cc = NoVal, !.out = NoVal]
  BY DEF Finit
<1>2. S = [top |-> S.top, tag |-> S.tag, st |-> S.st, cc |-> S.cc, w |-> S.w,
           run |-> S.run, gv |-> S.gv, td |-> S.td, tpp |-> S.tpp,
           dpc |-> S.dpc, perm |-> S.perm, pd |-> S.pd, out |-> S.out]
  BY DEF TypedState
<1> QED BY <1>1, <1>2 DEF Rec

\* Stock's FNINIT works on memory at rest.
LEMMA StockFinitKeeps ==
  ASSUME Inv, StockFinit
  PROVE  Inv'
<1>1. Resting(s) /\ s.run = 0 /\ TypedState(s) /\ MaxRun \in Nat
  BY Rested, MaxRunAssumption DEF StockFinit, Resting
<1> DEFINE f == [p \in Slots |-> FALSE]
           V == Finit(s, f)
<1>2. s' = V /\ todo' = todo /\ todo = 0 /\ replying' = replying /\ ~replying /\ arch' = A!Empty
  BY DEF StockFinit, Finit
<1>3. f \in [Slots -> BOOLEAN] /\ \A p \in Slots : ~f[p]
  OBVIOUS
<1>4. [p \in Slots |-> IF f[p] THEN s.st[p] ELSE NoVal] = [p \in Slots |-> NoVal]
  OBVIOUS
<1>5. A!Empty = [top |-> 0, tag |-> f, st |-> [p \in Slots |-> NoVal], cc |-> NoVal, out |-> NoVal]
  BY DEF A!Empty, A!Slots, Slots
<1> HIDE DEF f
<1>6. V = Rec(0, f, s.st, NoVal, s.w, s.run, s.gv, s.td, s.tpp, s.dpc, s.perm, s.pd, NoVal)
  BY <1>1, Finished
<1>7. /\ V.top = 0 /\ V.tag = f /\ V.st = s.st /\ V.cc = NoVal /\ V.w = s.w /\ V.run = s.run
      /\ V.gv = s.gv /\ V.td = s.td /\ V.tpp = s.tpp /\ V.dpc = s.dpc /\ V.perm = s.perm
      /\ V.pd = s.pd /\ V.out = NoVal
  BY <1>6 DEF Rec
<1>8. TypedState(V)
  BY <1>1, <1>3, <1>6, Zeroth DEF TypedState, Rec
<1> HIDE DEF V
<1>9. Resting(V)
  BY <1>1, <1>7, <1>8 DEF Resting
<1>10. Consistent(V) /\ Live(V) = A!Empty
  BY <1>4, <1>5, <1>7, <1>9, RestingLive
<1> QED BY <1>1, <1>2, <1>7, <1>8, <1>10 DEF Inv, TypeOK, RunBound, Exclusive, Simulates, active

\* The initial states are at rest, with every register empty.
LEMMA InitInv ==
  Init => Inv
<1> SUFFICES ASSUME Init
             PROVE  Inv
  OBVIOUS
<1> DEFINE f == [p \in Slots |-> FALSE]
<1>1. PICK st0 \in [Slots -> Vals] :
        s = Rec(0, f, st0, NoVal, 0, 0, FALSE, FALSE, FALSE, 0, Identity, FALSE, NoVal)
  BY DEF Init, Rec
<1>2. todo = 0 /\ replying = FALSE /\ arch = A!Empty /\ MaxRun \in Nat
  BY MaxRunAssumption DEF Init
<1>3. /\ f \in [Slots -> BOOLEAN] /\ 0 \in 0 .. NSlots /\ 0 \in Nat /\ Identity \in Perms
      /\ 0 \in Slots
  BY NSlotsAssumption, Zeroth DEF Identity, Perms
<1>4. [p \in Slots |-> IF f[p] THEN st0[p] ELSE NoVal] = [p \in Slots |-> NoVal]
  OBVIOUS
<1>5. A!Empty = [top |-> 0, tag |-> f, st |-> [p \in Slots |-> NoVal], cc |-> NoVal, out |-> NoVal]
  BY DEF A!Empty, A!Slots, Slots
<1> HIDE DEF f
<1>6. /\ s.top = 0 /\ s.tag = f /\ s.st = st0 /\ s.cc = NoVal /\ s.w = 0 /\ s.run = 0
      /\ s.gv = FALSE /\ s.td = FALSE /\ s.tpp = FALSE /\ s.dpc = 0 /\ s.perm = Identity
      /\ s.pd = FALSE /\ s.out = NoVal
  BY <1>1 DEF Rec
<1>7. s = Rec(s.top, s.tag, s.st, s.cc, s.w, s.run, s.gv, s.td, s.tpp, s.dpc, s.perm, s.pd, s.out)
  BY <1>1, <1>6
<1>8. TypedState(s)
  BY <1>3, <1>6, <1>7 DEF TypedState, Rec
<1>9. Resting(s)
  BY <1>6, <1>8 DEF Resting
<1>10. Consistent(s) /\ Live(s) = A!Empty
  BY <1>4, <1>5, <1>6, <1>9, RestingLive
<1>11. TypeOK
  <2>1. s.run <= MaxRun /\ todo \in 0 .. MaxRun
    BY <1>2, <1>6
  <2>2. replying \in BOOLEAN
    BY <1>2
  <2> QED BY <1>8, <2>1, <2>2 DEF TypeOK
<1>12. RunBound
  BY <1>2, <1>6 DEF RunBound, active
<1> QED BY <1>2, <1>10, <1>11, <1>12 DEF Inv, Exclusive, Simulates

-----------------------------------------------------------------------------
(* Every step, and every behaviour *)

\* Every step of a program free of the divergent sequences keeps the invariant.
LEMMA NextInv ==
  ASSUME Shun = Divergent, Inv, [Next]_vars
  PROVE  Inv'
<1>1. CASE Next
  <2>1. CASE \E n \in 1 .. MaxRun, sameBlock \in BOOLEAN : Request(n, sameBlock)
    BY <2>1, RequestKeeps
  <2>2. CASE DeclineMidRun \/ StockFinit
    BY <2>2, DeclineKeeps, StockFinitKeeps
  <2>3. CASE Fldz \/ Fld1 \/ FldMem \/ Fld
    BY <2>3, LoadsKeep
  <2>4. CASE Fadd \/ Fsub \/ FiaddMem \/ FisubMem \/ Faddp \/ Fsubp
    BY <2>4, ArithmeticKeeps
  <2>5. CASE Unary \/ Scale \/ IntoOne \/ Fptan \/ Fsincos \/ Fxtract
    BY <2>5, RewritesKeep
  <2>6. CASE Fst \/ Fstp \/ FstSti \/ FstpSti
    BY <2>6, StoresKeep
  <2>7. CASE Fcom \/ Fcomp \/ Fcompp \/ Ficom \/ Ficomp \/ Ftst
    BY <2>7, ComparisonsKeep
  <2>8. CASE Fcomi \/ Fcomip \/ Fcmov \/ Fxam \/ Fstsw \/ Control
    BY <2>8, FlagsKeep
  <2>9. CASE Fxch \/ Fdecstp \/ Fincstp \/ Ffree \/ Frstor \/ Fsave
    BY <2>9, StackKeeps
  <2>10. CASE \/ FusedFldArithp \/ FusedFldArith \/ FusedFldFstp \/ FusedExactCopy
              \/ FusedNestedCopy
    BY <2>10, FusedFldKeep
  <2>11. CASE FusedFldArithFstp \/ FusedFldArithArithp
    BY <2>11, FusedFldArithsKeep
  <2>12. CASE FusedFldFcomp \/ FusedFldFcompp \/ FusedFldFldFcompp
    BY <2>12, FusedFldFcomsKeep
  <2>13. CASE FusedFxchArithp \/ FusedFxchFstp \/ FusedFcomFstsw \/ FusedFxchFcom
    BY <2>13, FusedExchangesKeep
  <2>14. CASE \/ FusedArithpFstp \/ FusedArithFstp \/ FusedFstpArithFstp \/ FusedArithFaddp
              \/ FusedFstpFld
    BY <2>14, FusedStoresKeep
  <2> QED BY <1>1, <2>1, <2>2, <2>3, <2>4, <2>5, <2>6, <2>7, <2>8, <2>9, <2>10, <2>11, <2>12,
             <2>13, <2>14 DEF Next
<1>2. CASE UNCHANGED vars
  BY <1>2 DEF vars, Inv, TypeOK, RunBound, Exclusive, Simulates, active
<1> QED BY <1>1, <1>2

\* Between replies memory alone is the architectural state.
LEMMA InvMapEntry ==
  Inv => MapEntry
<1> SUFFICES ASSUME Inv, ~replying
             PROVE  /\ s.top = arch.top /\ s.tag = arch.tag /\ s.cc = arch.cc
                    /\ \A p \in Slots : s.tag[p] => s.st[p] = arch.st[p]
                    /\ ~s.gv /\ ~s.td /\ ~s.tpp /\ s.dpc = 0
                    /\ ~s.pd /\ s.perm = Identity
  BY DEF MapEntry
<1>1. Resting(s)
  BY Rested
<1>2. arch = [top |-> s.top, tag |-> s.tag,
              st |-> [p \in Slots |-> IF s.tag[p] THEN s.st[p] ELSE NoVal],
              cc |-> s.cc, out |-> s.out]
  BY <1>1, RestingLive DEF Inv, Simulates
<1> QED BY <1>1, <1>2 DEF Resting

\* In every program free of the divergent sequences, for every number of
\* registers, every set of values and every length of run: the fields keep
\* their types, the run never outlasts the reply, deferred tags exclude each
\* other, and memory with the cache is the architectural state.
THEOREM Invariant ==
  ASSUME Shun = Divergent
  PROVE  Spec => []Inv
<1>1. Inv /\ [Next]_vars => Inv'
  BY NextInv
<1> QED BY <1>1, InitInv, PTL DEF Spec

\* The translator simulates the architecture: what it has put off changes no
\* result.
THEOREM Simulation ==
  ASSUME Shun = Divergent
  PROVE  Spec => []Simulates
<1>1. Inv => Simulates
  BY DEF Inv
<1> QED BY <1>1, Invariant, PTL

\* Nothing is left deferred where a signal, stock or the next block enters.
THEOREM MapEntries ==
  ASSUME Shun = Divergent
  PROVE  Spec => []MapEntry
BY InvMapEntry, Invariant, PTL

\* The fields keep their types.
THEOREM Types ==
  ASSUME Shun = Divergent
  PROVE  Spec => []TypeOK
<1>1. Inv => TypeOK
  BY DEF Inv
<1> QED BY <1>1, Invariant, PTL

\* A run never outlasts the instructions it was counted for, nor its reply.
THEOREM RunsEnd ==
  ASSUME Shun = Divergent
  PROVE  Spec => []RunBound
<1>1. Inv => RunBound
  BY DEF Inv
<1> QED BY <1>1, Invariant, PTL

\* A pushed register's pending tag and the pending tags of pops exclude each
\* other, and a push that a pop cancels finds the old TOP in memory.
THEOREM DeferralsExclude ==
  ASSUME Shun = Divergent
  PROVE  Spec => []Exclusive
<1>1. Inv => Exclusive
  BY DEF Inv
<1> QED BY <1>1, Invariant, PTL

=============================================================================
