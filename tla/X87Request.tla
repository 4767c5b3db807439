---------------------------- MODULE X87Request ----------------------------
(***************************************************************************)
(* Translator::translate_instruction as the sidecar calls it: one request  *)
(* for the instruction at idx of a block, one answer that covers a run of  *)
(* instructions or declines.  Here a run is its length; what its code does *)
(* is the matter of X87Run.  This module is about what a request leaves in *)
(* the cache for the next one, and about the register mask it borrows.     *)
(*                                                                         *)
(* Indices count from 0, as the requests do.                               *)
(***************************************************************************)
EXTENDS Integers, Sequences, FiniteSetsExt

CONSTANTS
  Blocks,        \* addresses of IRBlock objects; stock reuses them
  NoBlock,
  Handled,       \* x87 instructions the translator has an emitter for
  StockX87,      \* x87 instructions left to stock (FINIT, FSTENV, ...)
  Arpl,          \* the one other instruction the translator claims
  Bridges,       \* instructions a bridged run may span
  Other,         \* all the rest
  Unexpected,    \* handled instructions whose emitter may decline inside a run
  CWWriters,     \* those that may change the control word (FLDCW, FRSTOR, ...)
  Contents,      \* what a block may decode to
  Registers,     \* general registers
  Masks,         \* words stock's register allocator keeps in free_gpr_mask
  ScratchPool,   \* kGprScratchMask
  CacheEnabled,  \* X87_DISABLE_CACHE is not set
  SplitRuns,     \* precise faults or native transport may end a run early
  MaxGap,        \* bridge_max_gap; 0 with bridging off
  MaxBridges,    \* bridge_max_total
  MayRunDry      \* the scratch register allocator can fail

Ops == Handled \cup StockX87 \cup {Arpl} \cup Bridges \cup Other

ASSUME BlocksAssumption == NoBlock \notin Blocks
ASSUME ContentsAssumption == Contents \subseteq Seq([pc : Nat, op : Ops]) \ {<<>>}
ASSUME OpsAssumption ==
  Unexpected \subseteq Handled /\ CWWriters \subseteq Ops /\ Arpl \notin Handled
ASSUME RegistersAssumption ==
  ScratchPool \subseteq Registers /\ Masks \subseteq SUBSET Registers
ASSUME SwitchesAssumption ==
  /\ {CacheEnabled, SplitRuns, MayRunDry} \subseteq BOOLEAN
  /\ {MaxGap, MaxBridges} \subseteq Nat

OpAt(ir, i) == ir[i + 1].op

\* Fusions answer for at most six instructions.
MaxFusion == 6

\* Not an index: stock translates; the process aborts.
None == -1
Aborted == -2

-----------------------------------------------------------------------------
(* The cache a request inherits *)

NotDeclined == [block |-> NoBlock, idx |-> -1, n |-> 0, pc |-> 0]

NewCache ==
  [run |-> 0, prev |-> NoBlock, lastInsn |-> -1, lastNext |-> -1,
   mask |-> ScratchPool, cw |-> FALSE, declined |-> NotDeclined]

invalidate(c) == [c EXCEPT !.run = 0]

WritesCW(ir) == \E i \in DOMAIN ir : ir[i].op \in CWWriters

\* The request belongs to the rest of a block given up for want of registers.
DeclinedRest(c, block, ir, idx) ==
  /\ c.declined.block = block
  /\ idx > c.declined.idx
  /\ Len(ir) = c.declined.n
  /\ ir[1].pc = c.declined.pc

\* Stock started the block's translation over.
Restarted(c, block, idx) ==
  /\ block = c.prev
  /\ \/ idx <= c.lastInsn
     \/ c.run > 0 /\ c.lastNext >= 0 /\ idx # c.lastNext

\* Faulty: the mask is taken over only with the block.
Enter_stale(c, mask, block, ir, idx) ==
  LET afresh == block # c.prev \/ Restarted(c, block, idx)
  IN IF afresh
     THEN [invalidate(c) EXCEPT !.prev = block, !.lastNext = -1, !.cw = WritesCW(ir),
                                !.mask = mask, !.lastInsn = idx]
     ELSE [c EXCEPT !.lastInsn = idx]

\* The top of translate_instruction_impl, with mask in the result.  A block's
\* control-word writers (block_has_cw_write) are looked for once.
Enter(c, mask, block, ir, idx) ==
  LET afresh == block # c.prev \/ Restarted(c, block, idx)
      d == IF afresh
           THEN [invalidate(c) EXCEPT !.prev = block, !.lastNext = -1, !.cw = WritesCW(ir)]
           ELSE c
  IN [d EXCEPT !.mask = IF d.run = 0 THEN mask ELSE @, !.lastInsn = idx]

\* Consecutive instructions with an emitter, from idx on.
lookahead(ir, idx) ==
  Cardinality({i \in idx..Len(ir) - 1 : \A j \in idx..i : OpAt(ir, j) \in Handled})

\* Where a bridged region from idx ends: two runs joined, three x87
\* instructions or more.  At its start when there is none.
lookahead_bridged(ir, idx) ==
  LET gaps(e) == {i \in idx..e - 1 : OpAt(ir, i) \in Bridges}
      joined(e) ==
        /\ OpAt(ir, e - 1) \in Handled
        /\ \A i \in idx..e - 1 : OpAt(ir, i) \in Handled \cup Bridges
        /\ \A i \in gaps(e) : ~ (i..i + MaxGap \subseteq gaps(e))
        /\ Cardinality(gaps(e)) \in 1..MaxBridges
        /\ e - idx - Cardinality(gaps(e)) >= 3
  IN Max({idx} \cup {e \in idx + 1..Len(ir) : joined(e)})

-----------------------------------------------------------------------------
(* What a request can come to: where stock goes on (or None), the cache and *)
(* the mask it leaves, and whether it ran out of registers.                 *)

Outcome(next, c, mask, dry) == [next |-> next, cache |-> c, mask |-> mask, dry |-> dry]

\* Stock's word without the registers an active run holds.
WriteBack(c) == IF c.run > 0 THEN c.mask \ ScratchPool ELSE c.mask

\* The reply loop calls again, for instruction k, with left instructions to go.
Again(c, block, ir, k, left) ==
  LET d == [c EXCEPT !.run = left, !.lastNext = k]
  IN Enter(d, WriteBack(d), block, ir, k)

\* A reply up to e: its last call was for k, which ended the run.
Reply(c, block, ir, idx, k, e) ==
  LET d == IF k = idx THEN c ELSE Again(c, block, ir, k, e - k)
      f == [d EXCEPT !.run = 0, !.lastNext = e]
  IN Outcome(e, f, WriteBack(f), FALSE)

\* Faulty: the run is not released.
DeclinedInside_held(c, block, ir, k) ==
  LET d == [Again(c, block, ir, k, 1) EXCEPT !.lastNext = k]
  IN Outcome(k, d, WriteBack(d), FALSE)

\* flush_run_and_release: the call for k was declined, the code before it kept.
DeclinedInside(c, block, ir, k) ==
  LET d == [Again(c, block, ir, k, 1) EXCEPT !.run = 0, !.lastNext = k]
  IN Outcome(k, d, WriteBack(d), FALSE)

Replies(c, block, ir, idx) ==
  LET run == lookahead(ir, idx)
      ends == IF SplitRuns THEN idx + 1..idx + run ELSE {idx + run}
      bridged == lookahead_bridged(ir, idx)
  IN IF ~CacheEnabled
     THEN {Reply(c, block, ir, idx, idx, idx + n) : n \in {n \in 1..run : n <= MaxFusion}}
     ELSE (UNION {{Reply(c, block, ir, idx, k, e) : k \in idx..e - 1} : e \in ends})
            \cup {Reply(c, block, ir, idx, idx, e) : e \in {bridged} \ {idx}}
            \cup {DeclinedInside(c, block, ir, k) :
                    k \in {k \in idx + 1..idx + run - 1 : OpAt(ir, k) \in Unexpected}}

\* Out of scratch registers: everything is put back, the block given up.
decline_after_alloc_failure(c, mask, block, ir, idx) ==
  LET again == c.prev = block /\ idx <= c.lastInsn
      same == c.prev = block /\ ~again
  IN Outcome(None,
             [invalidate(c) EXCEPT
                !.prev = IF again THEN NoBlock ELSE @,
                !.lastInsn = IF same THEN idx ELSE @,
                !.lastNext = -1,
                !.declined = [block |-> block, idx |-> idx, n |-> Len(ir), pc |-> ir[1].pc]],
             mask, TRUE)

translate_instruction(c, mask, block, ir, idx) ==
  LET op == OpAt(ir, idx)
      rest == DeclinedRest(c, block, ir, idx)
      kept == IF rest THEN c ELSE [c EXCEPT !.declined = NotDeclined]
      entered == Enter(kept, mask, block, ir, idx)
      dry == decline_after_alloc_failure(kept, mask, block, ir, idx)
      refused == [entered EXCEPT !.lastNext = -1]
  IN CASE op = Arpl ->
            {Reply(entered, block, ir, idx, idx, idx + 1)}
              \cup (IF MayRunDry THEN {[dry EXCEPT !.next = Aborted]} ELSE {})
       [] op # Arpl /\ rest -> {Outcome(None, [c EXCEPT !.lastNext = -1], mask, FALSE)}
       [] op \in Handled /\ ~rest ->
            Replies(entered, block, ir, idx) \cup (IF MayRunDry THEN {dry} ELSE {})
       [] OTHER -> {Outcome(None, refused, WriteBack(refused), FALSE)}
=============================================================================
