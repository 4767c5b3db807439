------------------------------ MODULE X87Region ------------------------------
(***************************************************************************)
(* A stretch of a block, translated instruction by instruction             *)
(* (Translator.cpp, translate_insn): a bridged attempt where the lookahead *)
(* found a region worth joining, an attempt to compile the rest of the run *)
(* behind a gate that may have flushed something in front of it, and       *)
(* otherwise the emitter of the one instruction.                           *)
(*                                                                         *)
(* The program is written first, one instruction after the other; the code *)
(* the translator emits is executed as it is emitted.  Fusions are off     *)
(* (X87_DISABLE_ALL_FUSIONS): X87Run has them.                             *)
(***************************************************************************)
EXTENDS X87Compile, X87Handlers

P == INSTANCE X87Program    \* what the program means

CONSTANTS
  Settings    \* configurations to try, each with the instructions to try it
              \* on and a bound on the length of programs

\* Registers are named by their depth or their encoding, operations by those
\* of X87IR.
Encodable(i) ==
  /\ i.k \in {"fld", "fst", "fxch", "fcom", "fcomi", "fcmov"} => i.i \in Slots
  /\ i.k \in {"arith", "arithp"} => i.d \in Slots
  /\ i.k = "arith" => i.s \in Slots
  /\ i.k \in {"arith", "arithm", "arithp", "binpop"} => i.op \in Binaries
  /\ i.k \in {"mov", "movi", "lea", "load", "ext", "alu", "alui", "alum"} => i.d \in Regs
  /\ i.k \in {"mov", "store", "ext", "alu", "alus"} => i.s \in Regs
ASSUME SettingsAssumption == \A t \in Settings :
  /\ t.fprs \subseteq Fprs
  /\ t.opts.fprs \in Nat /\ t.opts.gprs \in Nat
  /\ Len(t.start) \in Nat /\ DOMAIN t.start = 1 .. Len(t.start)
  /\ \A i \in t.letters \cup {t.start[n] : n \in DOMAIN t.start} : Encodable(i)

VARIABLES
  setting,  \* the one chosen
  prog,     \* the program
  path,     \* the machines it passes through: path[k] is before prog[k]
  at,       \* the next instruction to translate; 0 while prog is written
  s,        \* the translator's state
  pend,     \* bridge_pending_idx, _total, _plain and _x87
  stage,    \* where in translate_insn, or in compile_run, the translator is
  job       \* what it has found out there
vars == <<setting, prog, path, at, s, pend, stage, job>>

\* Of a job
\*    found   the state when the lookahead was done
\*    back    the state the gate found
\*    allow   what may be bridged, len  attempt_len, try  attempt
\*    c       the context
NoJob == [found |-> None, back |-> None, allow |-> "none", len |-> 0, try |-> 0,
          c |-> None]

IsX87(i) == i.k \notin P!Bridges
Opts == setting.opts

\* Nothing waits for the start of a region.
NoRegion == [idx |-> 0, total |-> 0, plain |-> 0, x87 |-> 0]

-----------------------------------------------------------------------------
(* X87Cache.cpp *)

lookahead(p, i) ==
  Cardinality({j \in i .. Len(p) : \A k \in i .. j : IsX87(p[k])})

\* A bridge counts once an instruction of the x87 follows it.
Joined(p, i, opts, R, j) ==
  IF ~R.on THEN R
  ELSE IF IsX87(p[j])
  THEN [R EXCEPT !.joins = IF R.gap > 0 THEN @ + 1 ELSE @,
                 !.bridges = @ + R.gap, !.gap = 0, !.x87 = @ + 1, !.total = j - i + 1]
  ELSE IF /\ Bridged(p[j], opts.allow)
          /\ R.gap < opts.max_gap /\ R.bridges + R.gap < opts.max_total
  THEN [R EXCEPT !.gap = @ + 1] ELSE [R EXCEPT !.on = FALSE]
lookahead_bridged(p, i, opts) ==
  LET End == Walk(LAMBDA R, j : Joined(p, i, opts, R, j),
                  [on |-> TRUE, joins |-> 0, bridges |-> 0, gap |-> 0, x87 |-> 0, total |-> 0],
                  [n \in 1 .. Len(p) - i + 1 |-> i + n - 1])
  IN  IF End.joins = 0 \/ End.x87 < 3 THEN [total |-> 0, x87 |-> 0]
      ELSE [total |-> End.total, x87 |-> End.x87]

-----------------------------------------------------------------------------
(* translate_insn, up to the attempts *)

Guest(S) == [mem |-> S.mem, reg |-> S.reg, nz |-> S.nz, cw |-> S.cw] @@ Live(S)

\* A run starts, and perhaps a region.
Looked(S) == IF active(S) THEN S ELSE set_run(S, lookahead(prog, at))
Pended(S) ==
  LET run == lookahead(prog, at)
      br  == lookahead_bridged(prog, at, Opts)
  IN  IF active(S) THEN pend
      ELSE IF Opts.allow # "none" /\ br.total > run
      THEN [idx |-> at, total |-> br.total, plain |-> run, x87 |-> br.x87] ELSE NoRegion

RegionDue(S, p) ==
  p.total > 0 /\ p.idx = at /\ ~S.td /\ ~S.tpp /\ S.dpc = 0 /\ ~S.pd
\* Faulty: a region that could not be compiled leaves the run covering it.
plain_run_region(S, p) == S
\* A region that could not be compiled falls back to its plain run.
plain_run(S, p) == [S EXCEPT !.run = IF p.plain >= 2 THEN p.plain ELSE 0]

\* The gate flushes one kind of deferred work and lets the rest through.
kMinRunForFlush == 3
GateRefuses(S) ==
  \/ S.run < kMinRunForFlush
  \/ (S.td \/ S.dpc # 0 \/ S.pd) /\ ~S.gv
  \/ ~S.td /\ S.dpc > 2
gate_flush(S) ==
  IF S.td THEN x87_flush_top(S)
  ELSE IF S.dpc # 0 THEN x87_flush_deferred_pops(S)
  ELSE IF S.pd THEN x87_emit_perm_flush(S) ELSE S
\* Faulty: the buffer is rewound, the cache stays flushed.
rollback_buffer(S, flushed) == [flushed EXCEPT !.top = S.top, !.tag = S.tag, !.st = S.st]
\* The buffer is rewound, and the one field put back.
rollback(S, flushed) ==
  LET R == [flushed EXCEPT !.top = S.top, !.tag = S.tag, !.st = S.st]
  IN  IF S.td THEN [R EXCEPT !.td = S.td]
      ELSE IF S.dpc # 0 THEN [R EXCEPT !.dpc = S.dpc]
      ELSE IF S.pd THEN [R EXCEPT !.pd = S.pd, !.perm = S.perm] ELSE R
rollback_allowed(S) == (S.td \/ S.dpc # 0) => Opts.rollback

\* After the last instruction of an attempt: ticks and pools.
Ticked(S, n) ==
  LET T == tick(S, n)
  IN  [T EXCEPT !.sb = @ /\ T.run > 0, !.fprs = setting.fprs,
                !.gprs = Gprs \ Pinned(T)]
\* What a lowering leaves in its scratch state is nobody's business later.
Tidied(S) == [S EXCEPT !.file = [r \in Fprs |-> NoVal], !.name = <<>>, !.node = <<>>,
                       !.cmp = <<>>, !.next = 0, !.out = NoVal,
                       !.rc = [on |-> FALSE, valid |-> FALSE, v |-> NoVal]]

-----------------------------------------------------------------------------
(* One instruction (TranslatorX87.cpp, TranslatorX87Transcendental.cpp) *)

IntoMem(B, i, v) == x87_end(IF i.pop THEN x87_pop(StoreMem(B, i.o, v))
                            ELSE StoreMem(B, i.o, v), 1)
Popped(B, n) == IF n = 0 THEN B ELSE IF n = 1 THEN x87_pop(B) ELSE x87_pop_n(B, 2)
Compared1(B, i, v) == x87_end(Popped(emit_fcom_cc_write_sw(B, Cmp(St(B, 0), v)), i.pops), 1)
emit_fcomi_nzcv(B, i) ==
  LET N == SetFlags(B, CompareFlags(St(B, 0), St(B, i.i)))
  IN  x87_end(IF i.pop THEN x87_pop(N) ELSE N, 1)

translate_one(S, i) ==
  LET B == [x87_begin(S) EXCEPT !.sb = S.run > 0]
  IN CASE i.k = "const"  -> PushValue(B, i.v)
       [] i.k = "fld"    -> PushValue(B, St(B, i.i))
       [] i.k = "fldm"   -> PushValue(B, LoadMem(B, i.w, i.o))
       [] i.k = "fst"    -> LET C == CopySt(B, i.i)
                            IN  x87_end(IF i.pop THEN x87_pop(C) ELSE C, 1)
       [] i.k = "fstm"   -> IntoMem(B, i, StoreAs(i.w, Nearest, St(B, 0)))
       [] i.k = "fist"   -> IntoMem(B, i, StoreAs(i.w, StoreRounding(B, i.trunc), St(B, 0)))
       [] i.k = "arith"  -> Apply(B, i.d, P!Op2(i.rev, i.op, St(B, i.d), St(B, i.s)))
       [] i.k = "arithm" -> Apply(B, 0, P!Op2(i.rev, i.op, St(B, 0), LoadMem(B, i.w, i.o)))
       [] i.k = "arithp" -> ApplyPop(B, i.d, P!Op2(i.rev, i.op, St(B, i.d), St(B, 0)))
       [] i.k = "unary"  -> Apply(B, 0, Una(i.op, St(B, 0)))
       [] i.k = "frndint" -> Apply(B, 0, Rnd(RC(B.cw), St(B, 0)))
       [] i.k = "trig"   -> Apply(SetCc(B, Cleared), 0, Una(i.op, St(B, 0)))
       [] i.k = "fsincos" -> PushSecond(SetCc(SetSt(B, 0, Una("FSin", St(B, 0))), Cleared),
                                          Una("FCos", St(B, 0)))
       [] i.k = "fptan"  -> PushSecond(SetCc(SetSt(B, 0, Una("FPtan", St(B, 0))), Cleared),
                                         One)
       [] i.k = "binpop" -> ApplyPop(B, 1, Bin(i.op, St(B, 1), St(B, 0)))
       [] i.k = "fscale" -> Apply(B, 0, Bin("FScale", St(B, 0), St(B, 1)))
       [] i.k = "fxch"   -> translate_fxch(B, i.i)
       [] i.k = "fcom"   -> Compared1(B, i, St(B, i.i))
       [] i.k = "fcomm"  -> Compared1(B, i, LoadMem(B, i.w, i.o))
       [] i.k = "ftst"   -> Compared1(x87_flush_top(x87_flush_tags(B)), [pops |-> 0], Zero)
       [] i.k = "fcomi"  -> emit_fcomi_nzcv(B, i)
       [] i.k = "fcmov"  -> LET T == x87_flush_top(x87_flush_tags(B))
                            IN  x87_end(IF Taken(i.cond, T.nz)
                                        THEN SetSt(T, 0, St(T, i.i)) ELSE T, 1)
       [] i.k = "fstsw"  -> LET T == translate_fstsw(S)
                            IN  SetReg(T, Ax, Status(T.reg[Ax], T.out[1], T.out[2]))
       [] i.k = "fldcw"  -> x87_end(SetCw(x87_flush_top(B), B.mem[P!At(B, i.o)]), 1)
       [] i.k = "fnstcw" -> x87_end(StoreMem(B, i.o, B.cw), 1)
       [] OTHER          -> x87_end(B, 1)

-----------------------------------------------------------------------------
(* The specification *)

Init ==
  /\ setting \in Settings
  /\ prog = <<>>
  /\ path = <<setting.entry>>
  /\ at = 0
  /\ s = [run |-> 0, gv |-> FALSE, td |-> FALSE, tpp |-> FALSE, dpc |-> 0,
          perm |-> Identity, pd |-> FALSE, w |-> 0, sb |-> FALSE,
          fprs |-> setting.fprs, gprs |-> Gprs, starved |-> FALSE, name |-> <<>>,
          file |-> [r \in Fprs |-> NoVal], node |-> <<>>, cmp |-> <<>>, next |-> 0,
          rc |-> [on |-> FALSE, valid |-> FALSE, v |-> NoVal],
          top |-> setting.entry.top, tag |-> setting.entry.tag, st |-> setting.entry.st,
          cc |-> setting.entry.cc, out |-> setting.entry.out, mem |-> setting.entry.mem,
          reg |-> setting.entry.reg, nz |-> setting.entry.nz, cw |-> setting.entry.cw]
  /\ pend = NoRegion
  /\ stage = "write"
  /\ job = NoJob

\* Programs that hit a known defect of the fusion of a comparison with the
\* FSTSWs after it: a second FSTSW finds the register of the first given back,
\* and a sine in between clears a condition code not written yet.
Since(q, kinds) == {j \in DOMAIN q : \A k \in j .. Len(q) : q[k].k \notin kinds}
Comparing == {"fcom", "fcomm", "ftst"}
Clearing  == {"trig", "fsincos", "fptan"}
Hits(shun, i) ==
  /\ i.k = "fstsw"
  /\ \E j \in Since(prog, Comparing) :
        \/ shun = "fstsw_twice" /\ prog[j].k = "fstsw"
        \/ shun = "fcom_trig_fstsw" /\ prog[j].k \in Clearing

\* A programmer writes one more instruction, the first ones as the setting
\* says, and hands the program over.
Letters == IF Len(prog) < Len(setting.start) THEN {setting.start[Len(prog) + 1]}
           ELSE setting.letters
Write(i) ==
  /\ stage = "write"
  /\ Len(prog) < setting.longest
  /\ ~\E shun \in setting.shun : Hits(shun, i)
  /\ P!Legal(Last(path), i)
  /\ prog' = Append(prog, i)
  /\ path' = Append(path, P!Step(Last(path), i))
  /\ UNCHANGED <<setting, at, s, pend, stage, job>>
Submit ==
  /\ stage = "write" /\ Len(prog) > Len(setting.start)
  /\ stage' = "look"
  /\ at' = 1
  /\ UNCHANGED <<setting, prog, path, s, pend, job>>

Past(n) ==
  /\ at' = at + n
  /\ stage' = "look"
  /\ job' = NoJob
  /\ UNCHANGED <<setting, prog, path>>

\* compile_run starts, again or for the first time.
Begin(J) ==
  /\ stage' = "build"
  /\ job' = [J EXCEPT !.c = InitContext(path[at])]

Look ==
  LET S == Looked(s)  p == Pended(s) IN
  /\ stage = "look" /\ at <= Len(prog) /\ IsX87(prog[at])
  /\ pend' = p
  /\ IF RegionDue(S, p)
     THEN /\ s' = set_run(S, p.total)
          /\ Begin([NoJob EXCEPT !.found = S, !.allow = Opts.allow, !.len = p.total])
     ELSE /\ s' = S
          /\ stage' = "gate"
          /\ job' = [NoJob EXCEPT !.found = S]
  /\ UNCHANGED <<setting, prog, path, at>>

Gate ==
  /\ stage = "gate"
  /\ pend' = NoRegion
  /\ IF ~active(s) \/ GateRefuses(s)
     THEN stage' = "single" /\ job' = [job EXCEPT !.back = s] /\ UNCHANGED s
     ELSE /\ s' = gate_flush(s)
          /\ Begin([job EXCEPT !.back = s, !.allow = "none", !.len = s.run, !.try = 0])
  /\ UNCHANGED <<setting, prog, path, at>>

Build ==
  /\ stage = "build"
  /\ \E r \in {build_arm(job.c, prog[at + job.c.consumed], job.allow)} :
     \E c \in {build_step(job.c, r)} :
       /\ job' = [job EXCEPT !.c = c]
       /\ stage' = IF c.ok /\ c.consumed < job.len THEN "build"
                   ELSE IF Worthwhile(c) /\ (job.allow # "none" => c.consumed = job.len)
                   THEN "optimize" ELSE "refuse"
  /\ UNCHANGED <<setting, prog, path, at, s, pend>>

Optimize ==
  /\ stage = "optimize"
  /\ job' = [job EXCEPT !.c = optimize(@, Opts)]
  /\ stage' = "relieve"
  /\ UNCHANGED <<setting, prog, path, at, s, pend>>

Relieve ==
  LET available == AvailableFprs(s, Opts) IN
  /\ stage = "relieve"
  /\ job' = IF Opts.remat /\ peak_live_fprs(job.c, available).peak > available
            THEN [job EXCEPT !.c = remat_relieve_fpr_pressure(@, available)] ELSE job
  /\ stage' = "fit"
  /\ UNCHANGED <<setting, prog, path, at, s, pend>>

\* A run that is over a budget is cut there and tried again, or refused.
Retry(over) ==
  IF MaySplit(job.c, over, job.len, job.try, job.allow, Opts)
  THEN Begin([job EXCEPT !.len = split_prefix_len(job.c, over, @), !.try = @ + 1])
  ELSE stage' = "refuse" /\ UNCHANGED job
Fit ==
  /\ stage = "fit"
  /\ \E fprs \in {peak_live_fprs(job.c, AvailableFprs(s, Opts))},
        gprs \in {peak_live_gprs(job.c, s, AvailableGprs(s, Opts))} :
       IF fprs.peak > fprs.budget THEN Retry(fprs.over)
       ELSE IF s.pd /\ 2 > fprs.budget THEN stage' = "refuse" /\ UNCHANGED job
       ELSE IF gprs.peak > gprs.budget THEN Retry(gprs.over)
       ELSE stage' = "lower" /\ UNCHANGED job
  /\ UNCHANGED <<setting, prog, path, at, s, pend>>

Lower ==
  /\ stage = "lower"
  /\ s' = Tidied(Ticked(lower(job.c, s), job.c.consumed))
  /\ pend' = NoRegion
  /\ Past(job.c.consumed)

Refuse ==
  /\ stage = "refuse"
  /\ IF job.allow # "none"
     THEN s' = plain_run(s, pend) /\ stage' = "gate"
     ELSE /\ s' = IF rollback_allowed(job.back) THEN rollback(job.back, s) ELSE s
          /\ stage' = "single"
  /\ job' = [job EXCEPT !.c = None]
  /\ UNCHANGED <<setting, prog, path, at, pend>>

TranslateOne ==
  /\ stage = "single"
  /\ s' = Tidied(Ticked(translate_one(s, prog[at]), 1))
  /\ UNCHANGED pend
  /\ Past(1)

\* Rosetta translates what is not of the x87.
TranslateStock ==
  /\ stage = "look" /\ at <= Len(prog) /\ ~IsX87(prog[at])
  /\ s' = P!Step(s, prog[at])
  /\ UNCHANGED pend
  /\ Past(1)

Translate == Look \/ Gate \/ Build \/ Optimize \/ Relieve \/ Fit \/ Lower \/ Refuse
               \/ TranslateOne \/ TranslateStock
Stop == stage = "look" /\ at > Len(prog) /\ UNCHANGED vars
Next == (\E i \in Letters : Write(i)) \/ Submit \/ Translate \/ Stop
Spec == Init /\ [][Next]_vars

-----------------------------------------------------------------------------
(* Properties *)

\* What has been emitted, and what is deferred, is what the program does:
\* on the stack, in memory, in the general registers and in the flags.
Implements == at > 0 => Guest(s) = path[at]

\* The counts compile_run holds against the two pools are no smaller than
\* what lowering takes: no body is given a placeholder register.
PoolSuffices == ~s.starved

\* What FSTSW leaves in AX is the condition code of the last instruction that
\* writes one ("which now has correct CC", X87IRLower.cpp:1471).
StatusRead == at > 0 => s.reg[Ax] = path[at].reg[Ax]

\* The run never covers an instruction that is not of the x87, whatever
\* attempt failed or consumed less than it was given: those are translated
\* with registers the run cache must not have pinned.
RunWithinX87 == stage = "look" => s.run <= lookahead(prog, at)

\* A refused attempt leaves no trace: not of the flush in front of it, if
\* rolling back is on, and not of the region that was tried.
RefusalRestores ==
  stage = "single" /\ rollback_allowed(job.back) => s = job.found

\* Every program is translated to its end: no refusal, split or fallback leads
\* back to the attempt it came from, each step leaving less to do in the order
\* of the program, the attempts at one place, the length of an attempt, the
\* work on it.
Attempt  == <<"lower", "refuse", "fit", "relieve", "optimize", "build">>
Phase ==
  CASE stage = "look" -> 4 [] stage = "gate" -> 2 [] stage = "single" -> 0
    [] OTHER -> IF job.allow # "none" THEN 3 ELSE 1
Remaining ==
  <<Len(prog) - at, Phase, job.len,
    IF \E k \in DOMAIN Attempt : Attempt[k] = stage
    THEN CHOOSE k \in DOMAIN Attempt : Attempt[k] = stage ELSE 0,
    IF stage = "build" THEN job.len - job.c.consumed ELSE 0>>
Less(a, b) ==
  \E k \in DOMAIN a : a[k] < b[k] /\ \A j \in 1 .. k - 1 : a[j] = b[j]
Finishes == [][at > 0 => Less(Remaining', Remaining)]_vars
=============================================================================
