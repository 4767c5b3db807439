------------------------------ MODULE X87Cache ------------------------------
(***************************************************************************)
(* The run cache of the translator and the code it defers.                 *)
(*                                                                         *)
(* Within a run of consecutive x87 instructions the translator keeps TOP   *)
(* in a register and puts off the stores that would keep the state in      *)
(* memory exact: the store of TOP, the tag of a pushed register, the tags  *)
(* of popped registers and the register moves of FXCH.  A translator       *)
(* state is a record that holds the x87 state in memory                    *)
(*    top, tag, st, cc     status word TOP and condition code, tag word,   *)
(*                         register file                                   *)
(* the register that holds TOP in the emitted code                         *)
(*    w                                                                    *)
(* the fields of X87Cache (X87Cache.h)                                     *)
(*    run    run_remaining            gv   gprs_valid                      *)
(*    td     top_dirty                tpp  tag_push_pending                *)
(*    dpc    deferred_pop_count       perm, pd  perm, perm_dirty           *)
(* and out, what the emitted code last handed to the guest.                *)
(*                                                                         *)
(* An operator below is one helper of the translator: it changes the       *)
(* cache as the helper does and memory as the code that it emits does.     *)
(* The emitted code of a run is executed in the order it is emitted, so    *)
(* the two can move together.                                              *)
(***************************************************************************)
EXTENDS X87Data

A == INSTANCE X87Arch   \* the machine this one implements

CONSTANTS
  CacheEnabled,   \* FALSE: X87_DISABLE_CACHE
  DeferFxch       \* FALSE: X87_DISABLE_DEFERRED_FXCH

ASSUME CacheAssumption == CacheEnabled \in BOOLEAN /\ DeferFxch \in BOOLEAN

Identity == [d \in Slots |-> d]

-----------------------------------------------------------------------------
(* X87Cache *)

active(S) == S.run > 0

reset_perm(S) == [S EXCEPT !.perm = Identity, !.pd = FALSE]

\* st_base_valid pins an address, not a value, and is left out throughout.
invalidate(S) ==
  reset_perm([S EXCEPT !.gv = FALSE, !.td = FALSE, !.tpp = FALSE,
                       !.dpc = 0, !.run = 0])

\* Faulty: lookahead counts the instruction that ends the run.
set_run_over(S, n) == IF n >= 2 THEN [S EXCEPT !.run = n + 1] ELSE S

set_run(S, n) == IF n >= 2 THEN [S EXCEPT !.run = n] ELSE S

\* n calls of tick().  The last instruction of a run drops whatever is still
\* deferred, except the permutation.
tick(S, n) ==
  IF S.run = 0 THEN S
  ELSE IF S.run > n THEN [S EXCEPT !.run = S.run - n]
  ELSE [S EXCEPT !.run = 0, !.gv = FALSE, !.td = FALSE, !.tpp = FALSE,
                 !.dpc = 0]

-----------------------------------------------------------------------------
(* Emitted accesses to the x87 state *)

emit_load_top(S)  == [S EXCEPT !.w = S.top]
emit_store_top(S) == [S EXCEPT !.top = S.w]

emit_load_st(S, d)     == S.st[Phys(S.w, d)]
emit_store_st(S, d, v) == [S EXCEPT !.st[Phys(S.w, d)] = v]

\* "clear" the two tag bits, which marks the register at TOP valid.
emit_x87_tag_clear(S) == [S EXCEPT !.tag[S.w] = TRUE]

\* Faulty: the last of the n pops is forgotten.
Above_short(t, n) ==
  {p \in Slots : (IF p = t THEN NSlots ELSE Depth(p, t)) \in 1 .. n - 1}

\* The n registers just above TOP, the ones n pops left behind.
Above(t, n) ==
  {p \in Slots : (IF p = t THEN NSlots ELSE Depth(p, t)) \in 1 .. n}
emit_x87_tag_set_empty_batch(S, n) ==
  [S EXCEPT !.tag = [p \in Slots |-> S.tag[p] /\ p \notin Above(S.w, n)]]

emit_x87_push(S) ==
  emit_x87_tag_clear(emit_store_top([S EXCEPT !.w = Dec(S.w)]))
emit_x87_push_fully_deferred(S) == [S EXCEPT !.w = Dec(S.w)]
emit_x87_pop_top_only(S) == [S EXCEPT !.w = Inc(S.w)]
emit_x87_pop(S) ==
  emit_store_top([S EXCEPT !.tag[S.w] = FALSE, !.w = Inc(S.w)])
\* Both empty the n registers from TOP on and move TOP past them.
emit_x87_pop_n_deferred(S, n) ==
  [S EXCEPT !.tag = [p \in Slots |-> S.tag[p] /\ Depth(S.w, p) >= n],
            !.w = Phys(S.w, n)]
emit_x87_pop_n(S, n) == emit_store_top(emit_x87_pop_n_deferred(S, n))

\* ST(i) becomes what ST(perm[i]) was.  Registers move, tags stay.
emit_x87_perm_flush(S) ==
  [S EXCEPT !.st = [p \in Slots |-> S.st[Phys(S.w, S.perm[Depth(S.w, p)])]]]

-----------------------------------------------------------------------------
(* TranslatorX87Internal.hpp *)

resolve_depth(S, d) == IF S.pd THEN S.perm[d] ELSE d

x87_begin(S) ==
  IF S.run > 0 /\ S.gv THEN S
  ELSE [emit_load_top(S) EXCEPT !.gv = S.run > 0]

x87_emit_perm_flush(S) == reset_perm(emit_x87_perm_flush(S))
\* Faulty: TOP moves with the permutation pending.
perm_flush_before_stack_change_none(S) == S
perm_flush_before_stack_change(S) == IF S.pd THEN x87_emit_perm_flush(S) ELSE S

x87_flush_top(S) == IF S.td THEN [emit_store_top(S) EXCEPT !.td = FALSE] ELSE S

x87_flush_deferred_pops(S) ==
  IF S.dpc > 0 THEN [emit_x87_tag_set_empty_batch(S, S.dpc) EXCEPT !.dpc = 0]
  ELSE S

x87_flush_pending_tag(S) ==
  IF S.tpp THEN [emit_x87_tag_clear(S) EXCEPT !.tpp = FALSE] ELSE S

x87_flush_tags(S) == x87_flush_pending_tag(x87_flush_deferred_pops(S))

\* Faulty: the last instruction of the run is taken for one before it.
x87_end_early(S, consumed) ==
  IF S.run < consumed
  THEN x87_flush_top(x87_flush_tags(perm_flush_before_stack_change(S)))
  ELSE S
\* Faulty: the permutation is not flushed.
x87_end_unpermuted(S, consumed) ==
  IF S.run <= consumed THEN x87_flush_top(x87_flush_tags(S)) ELSE S

\* The flushes of a run's last instruction, or of an instruction on its own.
x87_end(S, consumed) ==
  IF S.run <= consumed
  THEN x87_flush_top(x87_flush_tags(perm_flush_before_stack_change(S)))
  ELSE S

\* Faulty: the TOP before the push is not stored.
x87_push_unstored(S) ==
  IF S.run > 0
  THEN LET flushed == perm_flush_before_stack_change(
                        x87_flush_deferred_pops(x87_flush_pending_tag(S)))
       IN  [emit_x87_push_fully_deferred(flushed)
              EXCEPT !.td = TRUE, !.tpp = TRUE]
  ELSE emit_x87_push(S)
\* Faulty: the pops before the push stay deferred.
x87_push_over_pops(S) ==
  IF S.run > 0
  THEN LET flushed == perm_flush_before_stack_change(
                        x87_flush_top(x87_flush_pending_tag(S)))
       IN  [emit_x87_push_fully_deferred(flushed)
              EXCEPT !.td = TRUE, !.tpp = TRUE]
  ELSE emit_x87_push(S)

x87_push(S) ==
  IF S.run > 0
  THEN LET flushed == perm_flush_before_stack_change(x87_flush_top(
                        x87_flush_deferred_pops(x87_flush_pending_tag(S))))
       IN  [emit_x87_push_fully_deferred(flushed)
              EXCEPT !.td = TRUE, !.tpp = TRUE]
  ELSE emit_x87_push(S)

x87_pop(S) ==
  IF S.run > 0
  THEN LET P == emit_x87_pop_top_only(perm_flush_before_stack_change(S))
       IN  IF S.tpp /\ S.td THEN [P EXCEPT !.tpp = FALSE, !.td = FALSE]
           ELSE IF S.tpp
           THEN [emit_store_top(P) EXCEPT !.tpp = FALSE, !.td = FALSE]
           ELSE [P EXCEPT !.dpc = S.dpc + 1, !.td = TRUE]
  ELSE [emit_x87_pop(S) EXCEPT !.td = FALSE]

x87_pop_n(S, n) ==
  LET F == x87_flush_tags(S) IN
  IF S.run > 0
  THEN [emit_x87_pop_n_deferred(perm_flush_before_stack_change(F), n)
          EXCEPT !.td = TRUE]
  ELSE [emit_x87_pop_n(F, n) EXCEPT !.td = FALSE]

-----------------------------------------------------------------------------
(* States *)

Perms == {f \in [Slots -> Slots] : \A i, j \in Slots : f[i] = f[j] => i = j}

TypedState(S) ==
  /\ S = [top |-> S.top, tag |-> S.tag, st |-> S.st, cc |-> S.cc, w |-> S.w,
          run |-> S.run, gv |-> S.gv, td |-> S.td, tpp |-> S.tpp,
          dpc |-> S.dpc, perm |-> S.perm, pd |-> S.pd, out |-> S.out]
  /\ S.top \in Slots /\ S.w \in Slots
  /\ S.tag \in [Slots -> BOOLEAN] /\ S.st \in [Slots -> Vals]
  /\ S.cc \in Vals \cup {NoVal}
  /\ S.run \in Nat /\ S.dpc \in 0 .. NSlots /\ S.perm \in Perms
  /\ S.gv \in BOOLEAN /\ S.td \in BOOLEAN /\ S.tpp \in BOOLEAN
  /\ S.pd \in BOOLEAN

\* Between instructions nothing is deferred without a TOP register to go by,
\* a pending tag and pending pops are never outstanding together, and the
\* TOP in memory is one of the two a cancelled push may rely on.
Consistent(S) ==
  /\ S.gv => S.run > 0
  /\ ~S.gv => ~S.td /\ ~S.tpp /\ S.dpc = 0
  /\ S.run = 0 => ~S.pd
  /\ ~S.pd => S.perm = Identity
  /\ S.tpp => S.dpc = 0 /\ ~S.tag[S.w]
  /\ S.tpp /\ S.td => S.top = Inc(S.w)
  /\ S.gv /\ ~S.td => S.top = S.w

-----------------------------------------------------------------------------
(* What an observer of memory and of the cache reconstructs: the            *)
(* architectural state, deferred work included.                             *)

LiveTop(S) == IF S.gv THEN S.w ELSE S.top
\* The same with TOP given as t.
TagAt(S, t) == [p \in Slots |->
                  (S.tpp /\ p = t) \/ (S.tag[p] /\ p \notin Above(t, S.dpc))]
StAt(S, t)  == [p \in Slots |->
                  IF TagAt(S, t)[p] THEN S.st[Phys(t, S.perm[Depth(t, p)])]
                  ELSE NoVal]
LiveAt(S, t) == [top |-> t, tag |-> TagAt(S, t), st |-> StAt(S, t),
                 cc |-> S.cc, out |-> S.out]
Live(S) == LiveAt(S, LiveTop(S))
=============================================================================
