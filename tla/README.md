# x87sidecar in TLA+

x87sidecar replaces the x87 part of Rosetta's just-in-time translator. Stubs
patched into a Rosetta process send every x87 instruction to a sidecar process,
which translates it to AArch64 and writes the code back. These modules model
four things:

- what a guest program computes: the translation of runs of x87 instructions,
  with everything the translator puts off until later. TLC checks it on small
  register stacks; TLAPS proves it for every size;
- regions compiled as a whole: from the gate in front of the IR through its
  passes, register budgets, splits and rollbacks to the code it leaves;
- whether the code gets there: requests, replies, caches and failures between
  guest threads and the sidecar;
- the life of the sidecar around it: how a target is launched, patched and
  released, and how it is sampled.

TLC checks all four. Of the last three TLAPS proves nearly every safety property
too; liveness, and that a region computes what its program does, are TLC's alone.

## The system

| Part | State | Operations | Talks to |
|---|---|---|---|
| Run cache (`X87Cache.h/.cpp`, `TranslatorX87Internal.hpp`, `TranslatorX87Helpers.cpp`) | run counter, pinned base and TOP registers, dirty TOP, pending tag, deferred pops, FXCH permutation, slot formats | lookahead, `set_run`, `tick`, `invalidate`, `x87_begin`, `x87_end`, push, pop, flushes | every emitter calls it; its state travels with the translation result |
| Direct emitters (`TranslatorX87*.cpp`) | none of their own | one `translate_*` per instruction | run cache, code buffer |
| Fusions (`TranslatorX87Fusion.cpp`) | none | one `try_fuse_*` per pattern of two to six instructions | run cache, direct emitters |
| IR (`X87IRBuild/Optimize/Lower.cpp`) | value graph of a region | build, optimise, lower; prefix and split retries | run cache at region entry and exit |
| Dispatcher (`Translator.cpp`) | block, request indices, declined block, stock's register masks | one request = one reply; gates, rollback, decline | all of the above |
| Sidecar loop (`sidecar.cpp`) | run cache and IR cache per translation result, thread-context offsets, pending reply | receive, read guest memory, translate, write back, reply | stubs, by Mach messages; guest memory |
| Stubs (`stub_asm.cpp`) | per-call message, stash of arguments | filter, send, wait, stash to stock | sidecar, stock translator |
| Loader (`main.cpp`, `mach_exception.cpp`) | task port, exception session, installed hooks | attach, patch, release, abandon; cooperative handshake | target process, kernel |
| Decode hook, ARPL (`TranslatorCustom.cpp`, stubs) | none | re-decode of `63 /r`, its translation | stock decoder, dispatcher |
| Sampler (`sidecar.cpp`, `guest_pc_map.cpp`) | single-producer ring, latch, windows, module map | sample, drain, report, flush at exit | threads of the sidecar |
| Tracing and profiling (`X87Trace.cpp`, `x87_trace.cpp`, `ProfileRuntime.cpp`) | event ring, block counters | record, freeze, dump | emitted code, sidecar exit |
| Encoders, opcode tables, configuration, offset finder, offline tools | tables and buffers | pure functions, parsing | - |

What makes each correct, in a sentence: the cache, emitters and fusions must
give the results an x87 would, whatever is deferred, and leave complete state in
memory wherever somebody else looks; the dispatcher must leave no run active
past its reply and undo a failed attempt entirely; the sidecar's caches must
never be used for a translation they do not describe; a guest thread that asks
must be answered or released; the loader must leave the target running, hooked
or untouched.

What is hard: there is little concurrency in the translator, but a long
sequence of legal calls decides which of several deferrals are outstanding, and
each emitter handles the combinations by hand. The sidecar and the loader are
hard for the usual reasons: partial failures, reused addresses, signals and
timeouts. `PROJECT.json` lists the hazards at their lines.

## What is modelled

| Module | What it is |
|---|---|
| `X87Data` | registers, TOP arithmetic, uninterpreted values and operations |
| `X87Arch` | the specification: an x87 as a record and its instructions as operators |
| `X87Cache` | the run cache, the code its helpers emit, the abstraction `Live` |
| `X87Handlers` | one operator per `translate_*` |
| `X87Fusions` | one operator per `try_fuse_*` |
| `X87Run` | requests, replies, mid-run declines, stock's FNINIT; one action per instruction or fusion, run next to the architectural machine |
| `X87Request` | what one request leaves in the cache for the next: indices, re-translated blocks, register mask, declined block |
| `X87GuestData`, `X87Program` | operands, conversions, memory, general registers; what each instruction of a region means |
| `X87IR`, `X87IRBuild`, `X87IROptimize` | the value graph, one build arm per instruction, the four passes |
| `X87Cores`, `X87IRLower` | the two register pools and the emitters that draw on them; lowering, its epilogue, what is pinned |
| `X87Compile`, `X87Walk` | `compile_run`: pressure counts, rematerialisation, the choice of a split; a fold with an accumulator |
| `X87Region` | a stretch of a block through lookahead, bridged attempt, gate, IR and single emitters; composes all of these with `X87Cache` and `X87Handlers` |
| `BlockTranslation` | the specification: a block gets the code of its own instructions |
| `SidecarIPC` | guest threads with their stubs, both ports, the receive loop with its caches; composes `X87Request` and implements `BlockTranslation` |
| `SampleQueue` | the specification: a bounded queue that loses only what does not fit |
| `SampleRing`, `Sampler` | the words of a sample in the ring; the sampler, aggregator and main threads and the files; implements `SampleQueue` |
| `TracedTask`, `Loader` | the target as its debugger sees it; launch, handshake or attach, patch, release, rollback |
| `MCX87Run`, `MCX87Region`, `MCSidecarIPC`, `MCSampler`, `MCLoader` | values, programs, memory images, blocks and options for TLC |
| `X87Run_proofs` | the proofs about the run: helpers, single instructions, fusions, replies |
| `X87Walk_proofs` | induction along a loop, for any loop |
| `X87Region_proofs` | attempts on a region: they leave no trace, keep the run within the x87 and end |
| `X87Lowering_proofs` | a body within both pressure counts is lowered with the registers there are |
| `X87Pools_proofs` | what is built and optimized is a graph those counts are right about: the pools suffice |
| `SidecarRefinement_proofs` | the messages counted; what a request may leave, the refinement, the register mask, blocks given up |
| `Sampler_proofs` | the ring as a queue; the profiler's accounts |
| `Loader_proofs` | types and safety of launch, patch and release |

### The run

**State.** `s` is one record: the x87 state in the guest's memory (`top`, `tag`,
`st`, `cc`), the register `w` that holds TOP in the emitted code, and the fields
of `X87Cache`: `run` is `run_remaining`, `gv` `gprs_valid`, `td` `top_dirty`,
`tpp` `tag_push_pending`, `dpc` `deferred_pop_count`, `perm` and `pd` the
permutation and `perm_dirty`. `out` is what an instruction hands to the guest: a
stored value, the status word in AX, the flags of FCOMI. The code of a run is
executed in the order it is emitted and translated once per execution here, so
one operator does both: it changes the cache as the helper does and memory as
the code does. `todo` counts the x87 instructions in front of the guest,
`replying` says a reply is being built, and `arch` is the reference machine.

**Actions.** `Request` is the start of a reply (`translate_instruction_impl`:
block change, lookahead, `set_run`). Each instruction action applies its
`translate_*`, then `tick`, as the dispatcher does; each fusion action applies
its `try_fuse_*` and ticks for all of its instructions. A reply goes on while
the cache is active. `DeclineMidRun` is `flush_run_and_release`. Any fusion may
be disabled by configuration, so single instructions are always possible too.

**Abstractions.** Arithmetic is two binary operators, one commutative, and two
unary ones: what matters is which register is read and written and when.
Memory operands are values. Rounding, exceptions flags, the control word, the
zero and special tags, and NZCV are left out. An empty register's contents are
not observed (`NoVal`): the code leaves them alone, but the machine's programs
that read them have underflowed.

**Preconditions.** The guest program neither overflows nor underflows the stack
(`Room`, `Full`), and stores with FST ST(i) only to registers in use: the
translator does not set a tag there. FXAM and FFREE may meet empty registers.
`Shun` excludes the sequences below on which the code departs from the machine.

### The region

**State.** `setting` is a configuration and the letters of a theme; `prog` the
program written in them and `path` the machines it passes through (`X87Program`).
`s` is the translator's record of `X87Run` with memory, general registers, the
flags, the control word and the two scratch pools added; `pend` holds the
`bridge_pending_*` fields; `stage` and `job` say where `translate_insn`, or
`compile_run` in it, is, with the state it found, the one the gate found, the
attempt and its context `c` (nodes, the stack of the region, FCMOV conditions,
stores, what has been consumed).

**Actions.** `Write` and `Submit` make the program, outside the code. `Look` is
the lookahead with its stash of a bridged region, and the bridged attempt when
one is due; `Gate` the cascade of refusals and its one flush; `Build`,
`Optimize`, `Relieve`, `Fit` and `Lower` are `compile_run`: one instruction per
`Build`, the passes in their order, `remat_relieve_fpr_pressure`, the two
budgets with a retry on a prefix or a split, and lowering. `Refuse` is the way
back: the plain run after a bridged attempt, otherwise the rewound buffer and
the one restored field. `TranslateOne` is the switch over single emitters,
`TranslateStock` an instruction that is Rosetta's. Emitted code is executed as
it is emitted.

**Abstractions.** Values are numbers modulo a prime and every operation has
coefficients of its own, so a swapped operand, a missed rounding or a conversion
too many shows as a number. Memory is cells of four bytes, one per access. A
pool is the set of free registers, drawn in the order of the code. Fusions are
off here (`X87_DISABLE_ALL_FUSIONS`), since `X87Run` has them. A reduction adds up
in the order of the program, where `lower_fma_reduce` has the products of even and
odd places in two lanes and adds these in the end (`X87IRLower.cpp:397-404`): the
rounding that this changes, as the comment there says, is not seen. `MaxNodes` is 14
where the code has `kMaxNodes` = 128: the programs are shorter than either.

### The request

**State.** A guest thread has one translation result (TR), so a thread names its
TR. `th` is a thread in stock's translator: `pc` says whether stock walks the
block, the stub waits, its receive was interrupted, or stock is to translate
after all; `block` is the address of the IRBlock, `ir` the instructions in it,
`at` the index. `tr` is the TR: `mask` is `free_gpr_mask`, `code` the
instructions up to the end of the code buffer. `service` and `replies` are the
two ports, `loop` is `runReceiveLoop`, and `x87` and `irc` are `g_x87Cache` and
`g_irCache`. `exited` says that the guest process has ended.

**Actions.** `Decode` is stock starting on a block: at any address, with any
contents, at any time it is not waiting, so blocks are abandoned, started over
and replaced at the same address. `Ask` is the stub's combined send and receive;
`Interrupted` and `ReceiveAgain` its loop around a signal; `Receive`,
`ReceiveWrong` and `AskNobody` its checks of what came back.
`processTranslateRequest` is one action for each way out, in the order of the
code: `NoTR`, `NoProbe`, `NoIR`, `NoOffsets`, `ServeStock`, `ArplAborts`,
`NoBuffer`, `NoWriteBack`, `Serve`. Each of them writes what the code has
written by then and leaves the rest as it is.

One action per request is as fine as it needs to be. The thread that asks is
blocked, every cache is keyed by its TR, the loop serves one request at a time,
and of the writes to the guest only the last one, the TR, moves the ends of code
and fixups: a sidecar that dies before it has shown nothing, one that dies after
it has still to reply, which `SidecarDies` does in state `reply`.

**Abstractions.** Here a run is its length, since `X87Run` has its semantics:
`Replies` offers every end that lookahead, a split, a bridged region or a
decline inside the run can give. An instruction is its address and its opcode. A
register mask is a set. The service port's dead name and the note of a destroyed
send-once right are the kernel's, and external.

### The sampler

**State.** `ring` is `g_ring`, word by word, with its head, tail and count of
dropped samples; `sampler`, `agg` and `main` are the three threads; `latch` is
`g_latch`, `ports` the rights to guest threads the sidecar holds, `flush` the
three atomics of the handshake at exit, `files` the profile and, of each window,
whether all of it has reached the series. `broken` is what may fail in a run: a
thread that cannot be started, the series or the profile that cannot be written,
each time or now and then. `highest` is history for one property.

**Actions.** A sample takes four steps of the sampler thread (measure, write the
words, publish or drop, next tick) and a record three of the aggregator (load
both ends, read, advance), so a drain may stop in the middle while the ring
fills. A report appends the window, closes it, merges it and rewrites the
profile, each in a step. `LoseWindow` is `appendWindow` without a file or a
buffer, `CutWindow` an `fwrite` or `fflush` that fails, at any window: the window
has its number and is merged all the same, as in the code. `WriteProfile` may keep
the old profile, or put one that is cut short in its place. SIGKILL needs no action: the invariants about files
hold in every state, which is where it leaves them. A signal or the guest's exit
asks for a flush and waits; `FlushLate` gives up.

**Abstractions.** A sample is what decides its words: kind, in range or not,
depth. Resolution of a pc, the module map, image detection and histograms are
left out; what remains of the statistics is samples recorded and samples taken.
A profile that is cut short counts as none, though it has no mark at its end by
which a reader could tell. What stdio keeps of a record it could not write, and may
still write ahead of the next, is not followed: the record stays cut.

### The loader

**State.** `orig` is the process the user started, until it is the target;
`child` the intermediate one; `side` the sidecar. `pipe` has the byte and who
could still write it, `env` and `images` the environment and every program that
was started with it. `hs` is the cooperative handshake, `task` the target of the
default attach as `TracedTask` has it: pending signals, the one exception raised
and not answered, the Mach suspend count. `text` is the code at the two patched
entries, `icache` what a core of the target may still fetch for it.

**Actions.** Each blocking call and each call whose failure leads elsewhere is
an action, named for what it does: `Prepare`, `Fork`, `Read`, `Launch` in the
original process; `ChildForks`; `Register` to `Adopt` or `Attach` to
`BreakpointLate` in the sidecar, then the two patches, `Spawn` and the release.
`detachReplyFirst` is one action per numbered step of its comment. `GiveUp` is
every early return, and every exception, before an entry is written; behind
that, `RestoreEntry` and `AbandonHook` are the rollback. The target's handshake
is `tests/coop_handshake.c`. `Fails` takes one of `MaxFaults` failures, and
`Killed` is a failure too. `Send` is `releaseTracee`, whose reply may fail: that is
printed (`said` has it) and changes nothing else, so the right to reply stays with
the sidecar until it exits, on the way out after a rollback, at the target's exit
otherwise.

**Abstractions.** Where the code is found, what the checks on it say and where
the stubs fit is one step that may fail. A write of code fails ahead of the
bytes or behind them, which is what the rollback has to allow for. Soft signals
are the three the loader uses and one of somebody else. A wait may run out at
any time: nothing in the sources bounds how slow a target is. `setBreakpoint` may
fail and plants nothing then; that it fails behind its write, or `removeBreakpoint`
fails, is left out: an instruction would stay in Rosetta's code that stops a target
nobody debugs any more.

## What is checked

`Simulates` is the refinement: memory and cache together, read through `Live`,
are always the machine, and the guest has been handed the same values.
`MapEntry` is the promise of `Translator.cpp:657-667`: between replies, where a
signal handler, stock code or the next block looks, memory alone is the machine.
`RunBound` and `Exclusive` are the facts the code's comments rely on: the
counter never outlives the reply; a pending tag never coexists with pending
pops; memory has the TOP a cancelled push needs. `TypeOK` is the type invariant.

`Translates` says that `SidecarIPC` implements `BlockTranslation`: whatever is
cached, lost or half written, the code of a block is that of its own
instructions, each once and in order. `OneInFlight` is what makes the protocol
safe against signals: as many messages are on their way as threads wait, and
none for a thread that does not. `MaskKept`: stock finds its own register word
again. `DeclinedToEnd`: a block in which registers ran out stays with stock.
`Answered`: a thread that asks goes on, or its process exits.

`Implements` is `Simulates` for whole programs, memory, general registers and
flags included. `PoolSuffices`: the counts made before lowering are never too
low, so no emitter is handed a placeholder register. `RefusalRestores`: a
refused attempt leaves the state it found. `RunWithinX87`: no attempt that
failed leaves a run that covers an instruction of Rosetta's. `Finishes` is the
termination measure of the retries.

`QueueSpec` says that `Sampler` implements `SampleQueue`; `Accounted` that each
sample is in one place; `ProfileIsWindows` that the profile is the sum of the
windows up to the last or the one before it, which is what a kill may leave, and
that the series has them, each under its number, but for the last, or, if writing
it fails, for any: then a window may be in the profile and not in the series;
`FlushComplete`, `Reported`, `NeverOverclaims` that what was sampled is what is
written; `PortsBalanced`, `ThrottleEarned` and `PeakKept` are about the latch's
rights, the slow sweeps and the reported peak.

`StartedOnce`: of three processes with the same argv, one starts the program,
once. `HookServed`: a cooperative target that runs with its entry patched has a
sidecar. `FreshCode`: it executes what is in memory, unless the sidecar was killed
or has said that it could not send its reply. `SuspendBalanced` and
`LeftAlone`: whatever the default attach met on the way, the target is not left
suspended, and not stopped or traced if the second stop came. `Unblocked`: no
target waits in its handshake for ever, but for a reply that fails when the hook
is in place (`Stranded`, below). `Told`: a target without a hook is
announced.

| Run | Instance | Shows |
|---|---|---|
| `X87Run` | 3 registers, 2 values, runs up to 4 | the first five, with everything on |
| `X87RunLong` | 4 registers, 1 value, runs up to 6 | `Simulates`, `MapEntry`, `Exclusive` on deeper stacks and longer permutations; registers differ by their tags |
| `SidecarOne` | 1 thread, 1 address, 4 blocks, everything that can fail | `TypeOK`, `OneInFlight`, `Translates`, `MaskKept`, `DeclinedToEnd` |
| `SidecarTwo` | 2 threads on one reply port, 2 blocks, under fairness | `OneInFlight`, `Translates`, `Answered` |
| `X87Region` | 8 registers, 30 settings of letters and options, programs up to nine | the five about regions |
| `Sampler` | 2 threads, 2 samples of five and four words in a ring of eight | the ten about sampling |
| `Loader` | 12 option sets, 3 failures, 2 signals of others | the eight about launching |

Bounds: `NSlots` is 8 in the program. Three registers already give a push and
pop cancelling across a third, a pop batch that wraps, and permutations that are
not their own inverse; four add disjoint exchanges. `MaxRun` bounds the run
lookahead finds, and no deferral spans a reply: four instructions hold push,
exchange and a fusion behind them, six the longest fusion, a copy of three
values. The proofs remove both bounds
and cover `X87_DISABLE_CACHE` and `X87_DISABLE_DEFERRED_FXCH`.

`SidecarOne` has a run that bridges an instruction, one that may decline inside,
ARPL, a block given to stock, and blocks that agree up to their last
instruction, all at one address, which is the case the caches must survive; two
masks tell stock's word from a constant. Two threads are enough for answers to
be confused, and two instructions each for one to be skipped. `Window` covers
every block: a run longer than `kProbeWindow` would be translated from cached IR
that nobody compared, which `sidecar.cpp:229-232` accepts; the theorem `Implements`
has that as its condition. Both runs keep
the run cache and the IR cache on.

Fairness of the sidecar runs, in `SidecarTwo` alone: the loop serves what has arrived and sends what
it has (weak), a thread that was interrupted receives again (weak), and receives
in the end although signals may interrupt it any number of times (strong: the
kernel delivers a message that is there when it is not interrupted). `Failures`
of `SidecarTwo` leave out a failing receive: the loop then returns with its port
alive, and a thread that asks waits for ever; `SidecarOne` includes it. Nothing
obliges a thread to ask or stock to go on.

`X87Run` and `X87Region` never get stuck, so deadlock is checked. In the other
runs processes may exit, so it is not.

On the shared reply port, all that keeps threads apart is the tag: a thread that
takes the answer to another ends the process (`ReceiveWrong`, `stub_asm.cpp`
kind 2). Nothing in the sources serialises threads in stock's translator, so the
model does not either. `Receive_any` shows what the check prevents.

A theme of `X87Region` has the few letters that meet in one part of the
compiler, so that all programs in them are enumerated: the stack; two or three
registers, with and without rematerialisation; deferred work of each kind in
front of an attempt, with and without rollback; a pool too shallow for the flush
of a permutation; conditions; rounding and the control word; the transcendental
bodies, which take most of a pool; fused multiply-adds and sums of products of
two arrays (nine instructions: a third product behind two that are given);
stores side by side; integer instructions between two runs. A
setting fixes its pool. What needs two themes at once is not seen.

In `Sampler` the second sample meets a ring that is full, half drained or
wrapped, and either may be the long one. In each instance one thing breaks, or
nothing; two windows and the one of the flush are enough for a hole in the middle
of the series. The theorems allow any combination. Fairness: the aggregator is scheduled,
and its report interval passes again and again (strong, because a flush may take
its place); the sampler and the guest owe nothing.

In `Loader` three failures are enough for a write, its undoing and the reply
to fail together, and two foreign signals for one to come ahead of each stop;
`MaxEvents` is 2 where `catchSoftSignal` has 8, so that it does run out. Each
process is scheduled (weak fairness): every wait ends by an event, a timeout or
the kernel's note of a port that has died. Nothing obliges a target to exit,
a signal to come or a call to fail.

Each of the other runs shows a place where the code does not do what its
comments, documents or tests say. Those of `X87Run` admit one sequence of
`Divergent` (`PROJECT.json` quotes the comments and tests that say otherwise):

| Run | Sequence |
|---|---|
| `X87Ffree` | FXCH, then FFREE: the tag of the exchanged register is cleared |
| `X87FxchFused` | fused FXCH next to the end of its run: counted twice |
| `X87RegionTwice` | FCOM, FSTSW, FSTSW in one region: the second takes the condition code from a register given back |
| `SidecarFastRound` | a block at the address of the one before, its first x87 instruction further on: translated with the control-word scan of the other block |
| `SidecarArpl` | a block with FBSTP and ARPL goes to stock whole, ARPL included |

`SidecarFastRound` needs X87_FAST_ROUND=2 for the scan to matter; the rest are
the default configuration.

Other disagreements have no run. Of the sequences in `Divergent`:

- FXCH, then FXTRACT: the exponent goes over another register;
- FXCH, FSTSW ending a run: the exchange is left behind;
- every register popped, then FXAM: popped is reported as in use;
- FXCH with FCOMP outside a run, which takes a debugging switch: popped before
  it is exchanged;
- with X87_DISABLE_DEFERRED_FXCH an FXCH fused with FCOM still defers, and an
  FXCH behind it ignores that (`fxch_fused_eager`).

Of regions: in FCOM, FSIN, FSTSW the FSTSW stores the comparison's code over
what FSIN cleared (`X87IROptimize.cpp:317` looks for other comparisons only).
The themes leave out this sequence and that of `X87RegionTwice`. The latter has
a second effect: `peak_live_gprs` takes one off what is held for every fused
FSTSW (`X87IRLower.cpp:1838`), also for the second behind a comparison, which has
no register to give back. In FCOM, FSTSW, FSTSW, FCOM, FPATAN, FSTSW the count
then lacks the register of the second comparison, the region is let through, and
the arctangent asks an empty pool after code has been emitted: TLC refutes
`PoolSuffices` for the settings of `X87RegionTwice` with FPATAN and six
instructions.

Comments that the code behind them does not keep: `Translator.cpp:1244-1247` has
every other flag clear while an exchange is pending, but a push before the FXCH
leaves its own set, and the code tests for them. `docs/internals.md:15-16` has
cached IR compared in the current instruction; `sidecar.cpp:2270` compares up to
32. `sidecar.cpp:3154` has the sampler told to stop when the aggregator cannot
be started, and `:384` has it load a flag every tick: `samplerMain` does not
read `g_sampler_running`, so it goes on filling a ring nobody drains.
`sidecar.cpp:1795-1798` has the profile as the sum of the window records "by
construction": a window that is lost (`:1555`) or cut short (`:1561`) is merged
into the profile and missing from the records.

`tests/coop_handshake.c:92` passes `30000 /*ms*/` to a receive without
`MACH_RCV_TIMEOUT`, so the kernel does not look at it. If the reply of the release
fails (`main.cpp:1611`), the sidecar goes on to watch for an exit of a target that
waits for it: both wait for ever. This is the exception in `Unblocked`. If the
reply of a rollback fails, the sidecar exits, and the target goes on at the kernel's
note without invalidating what was put back, which `main.cpp:2286-2287` replies
for. This is the exception in `FreshCode`.

Of the release: if SIGSTOP is caught too late while SIGCONT is blocked, the
SIGSTOP taken afterwards has its default effect once the ports are restored, and
the target stays stopped; `LeftAlone` is about targets whose SIGCONT stop came.
If a patched entry cannot be restored, the message of the rollback says that the
target will abort on its next translation, and the banner that follows says that
it is running; `HookServed` allows for that.

## What is proved

### The run

Every theorem of `X87Run_proofs` assumes `Shun = Divergent` and the assumptions
of `X87Data`, `X87Cache` and `X87Run` on the constants: at least two registers,
operations that stay within the values, an addition that commutes, well-formed
images. `Invariant` is that

    Inv == TypeOK /\ RunBound /\ Exclusive /\ Simulates

holds always; `Types`, `RunsEnd`, `DeferralsExclude` and `Simulation` are its
parts and `MapEntries` follows from it. None of the parts is inductive alone:
`Simulates` needs `Exclusive`, because a pop that cancels a push is right only
if memory has the older TOP and no pop is outstanding; `Exclusive` needs
`RunBound`, because a run that ended early would drop deferrals in `tick`.

The argument follows the code's layers.

1. *Between instructions* a state is `Idle`: typed, and nothing is deferred
   without a pinned TOP. `x87_begin` makes it `Ready`, with TOP in `w`.
2. *Inside an instruction* a state is `Mid` of a machine: the same as `Ready`,
   with the machine it stands for written out. The first lemmas say what each
   helper does to that machine: a flush nothing, a push or pop what `PushSt` or
   `PopSt` does, a read or write of ST(d) through `resolve_depth` what the
   machine's does. The permutation is a bijection and
   moves with nothing but its own flush.
3. `x87_end` yields `Done`: it leaves the machine alone and, at the end of a
   run, nothing deferred (`Clean`).
4. These are composed into one lemma per `translate_*` and `try_fuse_*`: from
   `Idle`, the operator `Answers` with the machine's instruction, or instructions.
5. The last part adds the counting: `tick` drops only what step 3 cleaned.

### The region

Four of the five properties of `X87Region`, for any program, any configuration,
any pools and any interpretation of the operations. The first three assume nothing
but what the modules assume of their constants.

| Theorem | Property | What has to be known |
|---|---|---|
| `RefusalLeavesNoTrace` | `RefusalRestores` | the gate flushes one kind of deferred work, and the rewound buffer with the one restored field is the state before (`RollbackIs`); a region tried in vain leaves the run that was found (`PlainIs`) |
| `RunStaysWithinX87` | `RunWithinX87` | an instruction takes one off the run, a region what it consumed, and lookahead falls by no more (`LookaheadOn`) |
| `TranslationFinishes` | `Finishes` | a context consumes one instruction a step, no pass changes how many, and a cut is shorter than what is cut (`CutIs`) |

`RemainingIsCounted` adds that what `Finishes` says goes down, in a lexicographic
order, is natural numbers: so translation ends. A node that overflows a budget
gives the cut, so `CutIs` needs that every node of a context knows its
instruction, after any passes and clones.

The three follow from one invariant, `IInv`, by where `translate_insn` is. None of
the properties is inductive: what a refusal restores is decided at `Look` and
`Gate`, many steps before it. `Tried` carries it along - the state is the flushed
one of the state the gate found, or, with a region, the one found with the run set
to the region's length - and `Compiled`, that a region is lowered whole or not at
all, since its run must be over with it.

`IInv` says nothing of nodes, registers or values, and needs two frames for it.
`Keeps`: whatever is lowered or emitted, through every loop and body, the
translator's state has the same fields and the run is as long. `Grows`: whatever a
pass or `remat_relieve_fpr_pressure` does, the context is a list of nodes with
their instructions, and no more is consumed. Both go through every operator of the
lowering and the passes. Loops are all `Walk`, with the turn as an operator; the
library's induction theorems cannot be used for that, so `X87Walk_proofs` has the
induction once, with the turn and what it keeps as constants, and each loop
instantiates it. Its lemmas take induction over the naturals as a hypothesis, which
`Induction` of `X87Region_proofs` proves.

### The pools

`PoolsSuffice` (`PoolSuffices`): no allocation meets an empty pool. It assumes of
the constants that FPRs and guest registers are numbers (`FprsAssumption`,
`RegsAssumption`) and that the settings offer instructions that can be encoded
(`SettingsAssumption`: a register of the stack is one of the stack, an arithmetic
opcode is one of the binaries). The theorem has one hypothesis, `Once`: the
settings shun a second FSTSW behind a comparison, for which the property is false
(above). The arithmetic, the number of FPRs, the length of the program, the
options and the budgets they imply are arbitrary.

The property is not inductive, nor nearly: `starved` is set in one step, `Lower`,
and what makes that step safe is a count made by other code, over a graph drawn,
rewritten and cut in all the steps before. There are two halves.

`X87Lowering_proofs` takes a graph as given and ends in `LowerFits`: a body within
both counts is lowered with no register missing. By layers:

1. *Bodies.* A transcendental `Owns` registers by name. Each body is followed event
   by event, in parts: it wants at most `Spike` FPRs beside what else is live, and
   as many GPRs as `Transient` says, and it ends with its result in one register
   and all others given back.
2. *Nodes.* Each arm of the switch `Serves`: the value of the node is in a register
   of its own, the values of other nodes are where they were (`Placed`: every FPR
   that is taken holds one value), and no GPR is kept, but by a comparison that is
   fused, whose FSTSW gives it back.
3. *Turns.* Lowering, `peak_live_fprs` and `peak_live_gprs` walk the nodes side by
   side (`Goes`): every value in a register is counted as live, and the GPRs that
   are missing are counted as held (`Coherent`). One turn of all three keeps that
   (`TurnGoes`), if the counts are within what is free at the first node. A node
   that is passed over - dead, in a group of stores, in a reduction - must bring
   nothing, and the last product of a reduction must be the one the count took for
   it (`TailIs`, `ChainIs`).
4. *Ends.* In front of the walk the run's registers are pinned and what is deferred
   is flushed; behind it the stack and its tags are stored. The count covers both.

It asks three things of the graph: `Wellformed`, inputs come before their nodes and
what acts on the guest is alive; `Reduced`, the products of a reduction are a chain
of its own; `Paired`, a fused FSTSW has a fused comparison of its own.

`X87Pools_proofs` shows that every graph that is lowered has them. A context that
is being built is `Drawn`: inputs in order, no pass's marks, no two FSTSWs for one
comparison. That last part needs the program: `Unfetched \/ Recent` says that the
comparison that would be fetched next has been fetched only if the last comparing
instruction of what is consumed has an FSTSW behind it. The passes keep it
(`Clean`) until `pass_fma_reduce` tags chains node by node (`ReducedTo`) and
`pass_fcom_fstsw_fusion` marks pairs; the result is `Ordered` (`OptimizeOrders`).
`remat_relieve_fpr_pressure` inserts a clone, renumbers every reference and may
kill the original; `Inserts` says what that is of a graph, and `InsertOrders` that
it stays `Ordered`. The invariant puts it together by stages:

    PInv == Chosen /\ Written /\ Aptly /\ Within /\ Drawing /\ Plotted /\ Orderly /\ Fitting

`Aptly` is that between instructions, and in the state an attempt goes back to,
nothing has starved and the pools hold what the run has not pinned; `Within`, that
an attempt consumes instructions of the program; `Drawing`, `Plotted` and `Orderly`
are about the context in each stage; `Fitting`, that what is about to be lowered is
within the budgets `Fit` compared. `PInv` is inductive beside `IInv`, which says
which stage has which record.

### The sidecar

The theorems assume `Threads` finite, distinct `Tag`s, and what `X87Request` and
`SidecarIPC` ask of blocks, operations and switches; nothing about how many
threads, blocks or messages there are, nor how long a block is.

`OneAnswerEach` (`OneInFlight`) counts. `OneInFlight` is not inductive: its sums
do not say that the message a step takes is in the port it is taken from, or
whose it is. `InFlight` adds the shape of the ports and the loop (`Shape`): a
request has the tag of the thread it names, and the loop holds one answer or
rests. Every step then moves one message from one place to the next, and the
counting lemmas (`Behind`, `Shift`, `Taken`, `Put`) say what that does to the
sums, for each thread (`Single`) and for all of them (`Even`).

`TypeCorrect` (`TypeOK`), `Implements` (`Translates`) and `MaskIsBorrowed`
(`MaskKept`) follow from `Faithful`: `InFlight`, types, and for each thread
`Agrees`, which ties what is in flight to the thread that waits for it. A request
carries the index and the length the thread has; while an answer is under way the
block's code already reaches the index it will name, and not further. The
refinement needs it because the sidecar writes code from the IR it has cached, and
stock adopts the index only when it receives the answer. What an answer is made
from comes first in `SidecarRefinement_proofs`: every outcome of a request is
`Settled` - the run is over, the mask is the one that came, and stock goes on
behind the instruction and in the block - whichever way the request failed.
`Implements` has one condition, `WindowCovers`: no block is longer than `Window`.
The other two need none; for the types `Varied` adds where cached IR stands, what
code is made of and what messages say.

`BlocksStayDeclined` (`DeclinedToEnd`) has a history to remember: the request
that ran dry is long answered when the next one comes, and the cached IR may have
been loaded again in between. `Abides` says where it is kept: the cache's record
of the block given up (`GivenUp`) names a place the guest has passed, with the pc
the block starts with in the IR that will be looked at, and that IR is from the
guest on the thread's own - in the message, in the loop or in the answer, wherever
the guest is waited for. `WindowCovers` is needed because only then is the cached
IR sure to be used again, and its first instruction the one on record.
It also needs that the translator handles no ARPL as an x87 instruction
(`OpsAssumption`); ARPL goes on being answered in a block given up, which is why
the property excepts it.

### The sampler

Nine properties for any ring size of at least a sample, any threads, samples,
windows and breakages. `Inv` is a conjunction in which each part is about one pair
of actors; none is inductive without `Typed` and `RingOK`.

| Theorem | by | which says |
|---|---|---|
| `RingIsQueue` | `RingOK` | the words between tail and head are whole samples, one behind the other (`Chain`), and the sample in the sampler's hands is written behind them, however the indices wrap |
| `SamplesAccounted` | `Books` | recorded, in the ring, dropped or in hand, through every step of a drain |
| `FlushWrites`, `ProfileHonest` | `Flushing`, `Books` | a request asks for no more than is recorded already, and is answered after a window that started later has been merged |
| `SeriesAddsUp` | `SeriesOK` | `Numbered`: each window has its number, and is whole unless it is being written or the series cannot be; `Summed`: the run is the sum of the windows merged, whole or not, and the profile of those up to the one it was last written with |
| `PeakReported` | `Peaked` | the highest level is one the aggregator has seen, or the one that is there, but for a sample |
| `PortsKept`, `ThrottleKept` | `Subject` | a right is held for the latched thread only |
| `TypeCorrect` | `Typed` | |

`RingIsQueue` maps the ring to `SampleQueue`: the queue holds `Stored`, what a
drain will decode between the two indices. `Chain` gives it without decoding, as
samples with the word each starts at; a sample's header tells its width, so the
words determine them. `Stored`, and `Total`, the sum of a series, are recursive
functions: what is needed of them is proved by induction over the numbers for
which it holds, as a set (`Inductive`, from the well-foundedness of `<`).

### The loader

Six theorems from the assumptions on `Configs` and `None`, for any bounds on
failures, foreign signals and events. Two invariants serve five of them: `Typed`,
and `Ready`, that the program is started behind a process that has read the pipe:
a byte, or that nobody is left who could register the service. Three of them use
`Waiting` too: while the sidecar works on a cooperative target, this waits for
its answer.

| Theorem | needs besides | which says |
|---|---|---|
| `ProgramStartedOnce` | nothing | |
| `PatchedIsServed` | `Served` | a patched entry is one the rollback knows of, or is served, or has outlived its target |
| `TargetSeesMemory` | `Covered` | an entry that may be stale is one the answer under way tells the target to invalidate; needed only until a reply has failed, which stays said (`SaidStays`) |
| `NoSuspendLeft` | `Balancing` | at most one suspend is outstanding, and somebody ahead takes it back |
| `TargetLeftAlone` | `Detached` | from the SIGCONT on no stop is pending, and the stop that was caught is detached from and answered |
| `TypeCorrect` | `Bounded` | one suspend, between the release and its answer; the counters, and that an exception held was raised |

### What is only model-checked

The divergences, and all liveness (`Answered`, `Reported`, `Unblocked`, `Told`):
the prover has no rule for liveness under fairness.

Of `X87Region`, `Implements`, which relates the graph, after passes, clones and any
lowering order, to the program. What a node stands for is an expression over the
nodes before it, with memory read when the node is built and again when it is
lowered; each pass preserves what the roots stand for and not the nodes, and each
emitter would have to be shown to compute its node with real operands. That is a
simulation, stage by stage, of which the proofs here have the skeleton only:
`Wellformed`, `Reduced` and `Ordered` for the graph, `Placed` and `Resident` for
where its values are. The values themselves are left to TLC.

## What is not modelled

- The native 80-bit layouts (`X87_NATIVE_SLOTS`, native transport) with their
  format tracker, X87_FAST_ROUND inside the IR, the single-instruction fast
  path, the precise-fault probe.
- Of the sidecar: `X87_ALWAYS_NONE` (every answer is None), the cache of
  ThreadContextOffsets (all of them describe one layout), growth of the guest's
  buffers, dumps and start-up. Of the stubs: the decode hook.
- Of the sampler: resolving a pc, unwinding, the module map and image detection.
  Of the loader: page protections, where code is found, rights on ports.
- The trace ring and the profile counters.
- Encoders, opcode tables, configuration, the offset finder and the offline
  tools are functions of their input: no state a model would show.

## Plan

Done: the run, the request and the messages, the loader, the sampler, with their
proofs; the region, with four of its properties proved. Left, in this order:

1. `Implements` proved: what the nodes stand for, through build and passes, then
   through lowering.
2. `X87Slots`: the slot tracker and native transport over `X87Cache`; no emitter
   reads a slot in a format it does not have.
3. `FaultProbe`, `DecodeHook`, `TraceRing`, `ProfileBlocks`.

The fault probe would join `X87Request`, the decode hook `SidecarIPC`; the trace
ring is shared between processes and needs a module of its own.
