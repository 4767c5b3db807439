------------------------------- MODULE Loader -------------------------------
(***************************************************************************)
(* The loader (main.cpp).  The original process forks and waits for a      *)
(* byte, then becomes the target; its grandchild is the sidecar, gets hold *)
(* of the target by a handshake (cooperative) or by ptrace (default),      *)
(* patches it, releases it and serves it.  Any call may fail, and any wait *)
(* may time out, in one process while the others go on; the one call that  *)
(* does not fail here is removeBreakpoint.                                 *)
(***************************************************************************)
EXTENDS TracedTask, Sequences, FiniteSets

CONSTANTS
  Configs,    \* cooperative, handshakes, disableHook, abandon, sigcontBlocked
  MaxFaults,  \* bound: calls that fail
  MaxOther,   \* bound: signals of others to the target of the default attach
  MaxEvents   \* catchSoftSignal gives up after so many

ASSUME ConfigsAssumption ==
  Configs \subseteq [cooperative : BOOLEAN, handshakes : BOOLEAN, disableHook : BOOLEAN,
                     abandon : 0 .. 3, sigcontBlocked : BOOLEAN]
ASSUME NoneAssumption == None \notin {"x", "n", "sent", "reply", "gone", Stop, Trap, Cont, Other, Brk}
ASSUME BoundsAssumption == {MaxFaults, MaxOther, MaxEvents} \subseteq Nat

VARIABLES
  conf,     \* options and the start mask of the signals; whether the program handshakes
  faults,   \* calls that may still fail
  orig,     \* the original process, until it is the target
  child,    \* the intermediate process
  pipe,     \* syncPipe: byte and the processes that hold its other end
  env,      \* of the original process: the service's name, ROSETTA_DISABLE_AOT
  images,   \* the programs started, with their environment
  target,   \* the target
  side,     \* the sidecar
  hs,       \* the handshake: service, request, reply, and what the reply invalidates
  text,     \* the two entries in Rosetta: code
  icache,   \* what a core of the target may still fetch for them
  task,     \* default attach: the target as its debugger sees it
  others,   \* signals of others so far
  said      \* what the user was told: of a missing hook, of a reply that failed

vars == <<conf, faults, orig, child, pipe, env, images, target, side, hs, text, icache, task,
          others, said>>
origVars == <<orig, env, images>>

Entries == {"translate", "decode"}
Inherited == [service |-> FALSE, aot |-> None]

NoSide == [pc |-> "none", prog |-> FALSE, handshook |-> FALSE, serving |-> FALSE,
           patched |-> <<>>, touched |-> FALSE, lost |-> FALSE,
           events |-> 0, gotSigcont |-> FALSE, killed |-> FALSE]

Init ==
  /\ conf \in Configs
  /\ faults = MaxFaults
  /\ orig = "start"
  /\ child = "none"
  /\ pipe = [byte |-> None, writers |-> {}]
  /\ env = Inherited
  /\ images = <<>>
  /\ target = "none"
  /\ side = NoSide
  /\ hs = [service |-> FALSE, request |-> None, reply |-> None, spans |-> {}]
  /\ text = [e \in Entries |-> "stock"]
  /\ icache = [e \in Entries |-> {"stock"}]
  /\ task = NoTask
  /\ others = 0
  /\ said = {}

\* A call fails.
Fails == faults > 0 /\ faults' = faults - 1

-----------------------------------------------------------------------------
(* The original process *)

\* Faulty: the child keeps the argv it was forked with.
Argv_kept(process) == conf.cooperative

\* g_unhookedArgv is set: only the original process may start the target.
Argv(process) == conf.cooperative /\ process = "orig"

\* The environment is put back and the target started in place.
runUnhooked ==
  /\ said' = said \cup {"banner"}
  /\ images' = Append(images, [env |-> Inherited, hooked |-> FALSE])
  /\ target' = "running"

notLaunching ==
  IF Argv("orig")
  THEN /\ runUnhooked
       /\ orig' = "image"
  ELSE /\ orig' = "failed"
       /\ UNCHANGED <<said, images, target>>

\* The runtime is unsupported, or something throws; later, pipe or fork fails.
Refuse ==
  /\ orig \in {"start", "prepared"}
  /\ Fails
  /\ notLaunching
  /\ UNCHANGED <<conf, child, pipe, env, side, hs, text, icache, task, others>>

\* The environment the target will inherit.
Prepare ==
  /\ orig = "start"
  /\ env' = [service |-> conf.cooperative, aot |-> "1"]
  /\ orig' = "prepared"
  /\ UNCHANGED <<conf, faults, child, pipe, images, target, side, hs, text, icache, task,
                 others, said>>

Fork ==
  /\ orig = "prepared"
  /\ orig' = "reading"
  /\ child' = "running"
  /\ pipe' = [pipe EXCEPT !.writers = {"child"}]
  /\ UNCHANGED <<conf, faults, env, images, target, side, hs, text, icache, task, others, said>>

\* The original process can run: nothing has stopped it.
Runs == Runnable(task)

\* read returns: a byte, or the end when nobody is left who could write one.
Read ==
  /\ orig = "reading" /\ Runs
  /\ pipe.byte # None \/ pipe.writers = {}
  /\ orig' = "reaping"
  /\ UNCHANGED <<conf, faults, child, pipe, env, images, target, side, hs, text, icache, task,
                 others, said>>

Reaped == orig = "reaping" /\ Runs /\ child = "gone"

\* execv: the target of the default attach stops behind it.
Launch ==
  /\ Reaped /\ pipe.byte = "x"
  /\ orig' = "image"
  /\ target' = "init"
  /\ images' = Append(images, [env |-> env, hooked |-> TRUE])
  /\ task' = IF task.traced THEN kill(task, Trap) ELSE task
  /\ UNCHANGED <<conf, faults, child, pipe, env, side, hs, text, icache, others, said>>

LaunchFails ==
  /\ Reaped /\ pipe.byte = "x"
  /\ Fails
  /\ orig' = "failed"
  /\ UNCHANGED <<conf, child, pipe, env, images, target, side, hs, text, icache, task, others,
                 said>>

NotAttached ==
  /\ Reaped /\ pipe.byte # "x"
  /\ notLaunching
  /\ UNCHANGED <<conf, faults, child, pipe, env, side, hs, text, icache, task, others>>

Original == Read \/ Launch \/ LaunchFails \/ NotAttached

-----------------------------------------------------------------------------
(* The intermediate process *)

ChildForks ==
  /\ child = "running"
  /\ child' = "exiting"
  /\ side' = [side EXCEPT !.pc = "start"]
  /\ pipe' = [pipe EXCEPT !.writers = @ \cup {"sidecar"}]
  /\ UNCHANGED <<conf, faults, origVars, target, hs, text, icache, task, others, said>>

ChildFails ==
  /\ child = "running"
  /\ Fails
  /\ child' = "exiting"
  /\ UNCHANGED <<conf, pipe, origVars, target, side, hs, text, icache, task, others, said>>

ChildExits ==
  /\ child = "exiting"
  /\ child' = "gone"
  /\ pipe' = [pipe EXCEPT !.writers = @ \ {"child"}]
  /\ UNCHANGED <<conf, faults, origVars, target, side, hs, text, icache, task, others, said>>

Child == ChildForks \/ ChildFails \/ ChildExits

-----------------------------------------------------------------------------
(* The target, up to its own code: the handshake of tests/coop_handshake.c *)

\* A program that does not handshake, or finds no service, runs on.
LookUp ==
  /\ conf.cooperative /\ target = "init"
  /\ target' = IF conf.handshakes /\ hs.service THEN "found" ELSE "running"
  /\ UNCHANGED <<conf, faults, origVars, child, pipe, side, hs, text, icache, task, others, said>>

\* The request is sent; it cannot be when the service is gone.
Ask ==
  /\ target = "found"
  /\ target' = IF hs.service THEN "waiting" ELSE "running"
  /\ hs' = [hs EXCEPT !.request = IF hs.service THEN "sent" ELSE None]
  /\ UNCHANGED <<conf, faults, origVars, child, pipe, side, text, icache, task, others, said>>

\* The reply carries code ranges to invalidate; anything else means that the
\* sidecar is gone.
Answered ==
  /\ target = "waiting" /\ hs.reply # None
  /\ target' = "running"
  /\ icache' = [e \in Entries |-> IF e \in hs.spans THEN {text[e]} ELSE icache[e]]
  /\ UNCHANGED <<conf, faults, origVars, child, pipe, side, hs, text, task, others, said>>

TargetExits ==
  /\ target = "running" /\ Runnable(task)
  /\ target' = "exited"
  /\ UNCHANGED <<conf, faults, origVars, child, pipe, side, hs, text, icache, task, others, said>>

(* The target of the default attach, and the kernel *)

Signalled ==
  /\ Runs
  /\ \E s \in task.pending :
       /\ ~(s = Cont /\ conf.sigcontBlocked)
       /\ task' = Take(task, s)
  /\ UNCHANGED <<conf, faults, origVars, child, pipe, target, side, hs, text, icache, others, said>>

HitBreakpoint ==
  /\ task.planted /\ target = "init" /\ Runnable(task)
  /\ task' = Raise(task, Brk)
  /\ UNCHANGED <<conf, faults, origVars, child, pipe, target, side, hs, text, icache, others, said>>

OtherSignal ==
  /\ task.traced /\ others < MaxOther
  /\ others' = others + 1
  /\ task' = kill(task, Other)
  /\ UNCHANGED <<conf, faults, origVars, child, pipe, target, side, hs, text, icache, said>>

Target == LookUp \/ Ask \/ Answered \/ Signalled \/ HitBreakpoint

-----------------------------------------------------------------------------
(* The sidecar: leaving *)

\* The service goes with the process, and a reply right nobody used: the
\* kernel notifies.
Gone == [hs EXCEPT !.service = FALSE,
                   !.reply = IF hs.request = "sent" /\ @ = None THEN "gone" ELSE @]

\* The notice is given on the way out.
Exit ==
  /\ side' = [side EXCEPT !.pc = "gone", !.prog = FALSE, !.serving = FALSE]
  /\ pipe' = [pipe EXCEPT !.writers = @ \ {"sidecar"}]
  /\ hs' = Gone
  /\ said' = IF side.prog THEN said \cup {IF side.handshook THEN "banner" ELSE "notice"}
                          ELSE said

\* The sidecar is killed, and does nothing more.
Killed ==
  /\ side.pc \notin {"none", "gone"}
  /\ Fails
  /\ side' = [side EXCEPT !.pc = "gone", !.prog = FALSE, !.serving = FALSE, !.killed = TRUE]
  /\ pipe' = [pipe EXCEPT !.writers = @ \ {"sidecar"}]
  /\ hs' = Gone
  /\ UNCHANGED <<conf, origVars, child, target, text, icache, task, others, said>>

At(pc) == side.pc = pc
To(pc) == side' = [side EXCEPT !.pc = pc]

\* Nothing of Rosetta's own code has been written.
Early == {"start", "receive", "adopt", "runtime", "barrier", "locate", "handler"}

\* A call fails, and the sidecar returns, or something throws.
GiveUp ==
  /\ side.pc \in Early \ {"receive"}
  /\ Fails
  /\ IF Argv("sidecar")
     THEN runUnhooked /\ side' = NoSide /\ UNCHANGED <<pipe, hs>>
     ELSE Exit /\ UNCHANGED <<images, target>>
  /\ UNCHANGED <<conf, orig, env, child, text, icache, task, others>>

-----------------------------------------------------------------------------
(* The sidecar: the cooperative handshake *)

\* Faulty: the notice is for targets that were heard of.
Launching_silent == [side EXCEPT !.pc = "receive"]

\* The target is launched from here on: leaving without a hook is announced.
Launching == [side EXCEPT !.pc = "receive", !.prog = TRUE]

Register ==
  /\ conf.cooperative /\ At("start")
  /\ side' = Launching
  /\ hs' = [hs EXCEPT !.service = TRUE]
  /\ pipe' = [byte |-> "x", writers |-> pipe.writers \ {"sidecar"}]
  /\ UNCHANGED <<conf, faults, origVars, child, target, text, icache, task, others, said>>

Receive ==
  /\ At("receive") /\ hs.request = "sent"
  /\ side' = [side EXCEPT !.pc = "adopt", !.handshook = TRUE]
  /\ UNCHANGED <<conf, faults, origVars, child, pipe, target, hs, text, icache, task, others, said>>

\* 30 s without a request.
ReceiveTimeout ==
  /\ At("receive") /\ hs.request = None
  /\ Exit
  /\ UNCHANGED <<conf, faults, origVars, child, target, text, icache, task, others>>

Adopt ==
  /\ At("adopt")
  /\ To("runtime")
  /\ UNCHANGED <<conf, faults, origVars, child, pipe, target, hs, text, icache, task, others, said>>

-----------------------------------------------------------------------------
(* The sidecar: the default attach *)

\* The intermediate process is gone; the exception port comes before the attach.
Attach ==
  /\ ~conf.cooperative /\ At("start") /\ child = "gone"
  /\ To("attach")
  /\ task' = kill([install(task) EXCEPT !.traced = TRUE], Stop)
  /\ UNCHANGED <<conf, faults, origVars, child, pipe, target, hs, text, icache, others, said>>

\* Any stop is good enough; another signal's leaves the attach stop for the
\* wait behind this one.
AttachStop ==
  /\ At("attach") /\ Waits(task)
  /\ task' = reply(waitForEvent(task))
  /\ pipe' = [byte |-> "x", writers |-> pipe.writers \ {"sidecar"}]
  /\ To("exec")
  /\ UNCHANGED <<conf, faults, origVars, child, target, hs, text, icache, others, said>>

\* waitForEvent times out: the sidecar says so and leaves.
AttachLate ==
  /\ At("attach") /\ ~Waits(task)
  /\ side' = [side EXCEPT !.pc = "gone"]
  /\ pipe' = [byte |-> "n", writers |-> pipe.writers \ {"sidecar"}]
  /\ UNCHANGED <<conf, faults, origVars, child, target, hs, text, icache, task, others, said>>

\* waitForStopped(SIGTRAP) suppresses what it does not wait for.
ExecStop ==
  /\ At("exec") /\ Waits(task)
  /\ IF task.raised = Trap
     THEN task' = waitForEvent(task) /\ To("runtime")
     ELSE task' = reply(waitForEvent(task)) /\ UNCHANGED side
  /\ UNCHANGED <<conf, faults, origVars, child, pipe, target, hs, text, icache, others, said>>

ExecLate ==
  /\ At("exec") /\ ~Waits(task)
  /\ Exit
  /\ UNCHANGED <<conf, faults, origVars, child, target, text, icache, task, others>>

\* The breakpoint at exports_fetch is planted, or is not, which nobody looks
\* at, and the target let go.
PlantBreakpoint ==
  /\ At("barrier")
  /\ \/ task' = reply([task EXCEPT !.planted = TRUE]) /\ UNCHANGED faults
     \/ task' = reply(task) /\ Fails
  /\ To("breakpoint")
  /\ UNCHANGED <<conf, origVars, child, pipe, target, hs, text, icache, others, said>>

\* Soft signals that come first are suppressed.
AwaitBreakpoint ==
  /\ At("breakpoint") /\ Waits(task)
  /\ IF task.raised = Brk
     THEN task' = [waitForEvent(task) EXCEPT !.planted = FALSE] /\ To("locate")
     ELSE task' = reply(waitForEvent(task)) /\ UNCHANGED side
  /\ UNCHANGED <<conf, faults, origVars, child, pipe, target, hs, text, icache, others, said>>

\* The target has not come by in time, and is patched while it runs.
BreakpointLate ==
  /\ At("breakpoint") /\ ~Waits(task)
  /\ task' = [task EXCEPT !.planted = FALSE]
  /\ To("locate")
  /\ UNCHANGED <<conf, faults, origVars, child, pipe, target, hs, text, icache, others, said>>

-----------------------------------------------------------------------------
(* The sidecar: the patch *)

FindRuntime ==
  /\ At("runtime")
  /\ To(IF conf.disableHook THEN "release" ELSE IF conf.cooperative THEN "locate" ELSE "barrier")
  /\ UNCHANGED <<conf, faults, origVars, child, pipe, target, hs, text, icache, task, others, said>>

\* translate_insn, its prologue, its region, the padding, the ports, the stubs.
Locate ==
  /\ At("locate")
  /\ To("handler")
  /\ UNCHANGED <<conf, faults, origVars, child, pipe, target, hs, text, icache, task, others, said>>

\* The handler and the constants, in padding that nothing executes.
WriteHandler ==
  /\ At("handler")
  /\ To("entry")
  /\ UNCHANGED <<conf, faults, origVars, child, pipe, target, hs, text, icache, task, others, said>>

\* Code is written, which the caches of the target need not see.
Write(e, v) ==
  /\ text' = [text EXCEPT ![e] = v]
  /\ icache' = [icache EXCEPT ![e] = @ \cup {v}]

\* writeText succeeds, or fails before the bytes are written or behind that.
writeText(e, v, ok) ==
  \/ ok /\ Write(e, v) /\ UNCHANGED faults
  \/ ~ok /\ Fails /\ (Write(e, v) \/ UNCHANGED <<text, icache>>)

\* Faulty: an entry counts as patched when its write has succeeded.
Noted_written(entries, e, ok) == IF ok THEN Append(entries, e) ELSE entries

\* The entry is noted ahead of its write.
Noted(entries, e, ok) == Append(entries, e)

PatchTranslate ==
  /\ At("entry")
  /\ \E ok \in BOOLEAN :
       /\ writeText("translate", "patched", ok)
       /\ side' = [side EXCEPT !.patched = Noted(@, "translate", ok),
                               !.pc = IF ok /\ conf.abandon # 1 THEN "decode" ELSE "rollback"]
  /\ UNCHANGED <<conf, origVars, child, pipe, target, hs, task, others, said>>

Abandons == IF conf.abandon = 2 THEN "rollback" ELSE "spawn"

\* decode_opcode is not located, does not fit, or its handler is not written:
\* the hook does without.
SkipDecode ==
  /\ At("decode")
  /\ To(Abandons)
  /\ UNCHANGED <<conf, faults, origVars, child, pipe, target, hs, text, icache, task, others, said>>

PatchDecode ==
  /\ At("decode")
  /\ \E ok \in BOOLEAN :
       /\ writeText("decode", "patched", ok)
       /\ side' = [side EXCEPT !.touched = TRUE,
                               !.patched = IF ok THEN Append(@, "decode") ELSE @,
                               !.pc = IF ok THEN Abandons ELSE "undecode"]
  /\ UNCHANGED <<conf, origVars, child, pipe, target, hs, task, others, said>>

\* A decode_opcode entry that was not written right is put back, as well as
\* that goes.
RestoreDecode ==
  /\ At("undecode")
  /\ \E ok \in BOOLEAN : writeText("decode", "stock", ok)
  /\ To(Abandons)
  /\ UNCHANGED <<conf, origVars, child, pipe, target, hs, task, others, said>>

\* spawnReceiveThread, which has to come before the release.
Spawn ==
  /\ At("spawn") /\ conf.abandon # 3
  /\ side' = [side EXCEPT !.serving = TRUE, !.pc = "release"]
  /\ UNCHANGED <<conf, faults, origVars, child, pipe, target, hs, text, icache, task, others, said>>

SpawnFails ==
  /\ At("spawn")
  /\ \/ conf.abandon = 3 /\ UNCHANGED faults
     \/ conf.abandon # 3 /\ Fails
  /\ To("rollback")
  /\ UNCHANGED <<conf, origVars, child, pipe, target, hs, text, icache, task, others, said>>

-----------------------------------------------------------------------------
(* The sidecar: release and rollback *)

\* Faulty: the entries that are patched.
EntrySpan_patched == {side.patched[i] : i \in DOMAIN side.patched} \cup {"translate"}

\* setEntryIcacheSpan: translate_insn's, and decode_opcode's once it was written.
EntrySpan == {"translate"} \cup (IF side.touched THEN {"decode"} ELSE {})

\* Faulty: a target without a hook is not waited for.
Replied_hooked == [hs EXCEPT !.reply = IF side.serving THEN "reply" ELSE @,
                             !.spans = EntrySpan]

\* The handshake is answered.
Replied == [hs EXCEPT !.reply = "reply",
                      !.spans = IF side.patched = <<>> THEN {} ELSE EntrySpan]

\* releaseTracee: the reply is sent, or cannot be, which is printed and no more.
\* The right to reply stays with the sidecar then.
Send(answer) ==
  \/ hs' = answer /\ UNCHANGED <<faults, said>>
  \/ Fails /\ said' = said \cup {"unanswered"} /\ UNCHANGED hs

\* Cooperative: the exit watch is armed and the target released; the notice is
\* not due any more, and nothing is rolled back, whatever became of the reply.
ReleaseReply ==
  /\ conf.cooperative /\ At("release")
  /\ Send(Replied)
  /\ side' = [side EXCEPT !.pc = "watching", !.prog = FALSE]
  /\ UNCHANGED <<conf, origVars, child, pipe, target, text, icache, task, others>>

\* The next of the patched entries is put back, or cannot be.
RestoreEntry ==
  /\ conf.cooperative /\ At("rollback")
  /\ side.patched # <<>>
  /\ \E ok \in BOOLEAN :
       /\ writeText(Head(side.patched), "stock", ok)
       /\ side' = [side EXCEPT !.patched = Tail(@), !.lost = @ \/ ~ok]
  /\ UNCHANGED <<conf, origVars, child, pipe, target, hs, task, others, said>>

\* All that could be put back has been: the target is released.
AbandonHook ==
  /\ conf.cooperative /\ At("rollback")
  /\ side.patched = <<>>
  /\ Send([hs EXCEPT !.reply = "reply", !.spans = EntrySpan])
  /\ To("leaving")
  /\ UNCHANGED <<conf, origVars, child, pipe, target, text, icache, task, others>>

\* The default attach puts nothing back.
LeavePatched == ~conf.cooperative /\ At("rollback")

Leave ==
  /\ At("leaving") \/ LeavePatched
  /\ Exit
  /\ UNCHANGED <<conf, faults, origVars, child, target, text, icache, task, others>>

\* NOTE_EXIT.
ExitSeen ==
  /\ At("watching") /\ target = "exited"
  /\ Exit
  /\ UNCHANGED <<conf, faults, origVars, child, target, text, icache, task, others>>

-----------------------------------------------------------------------------
(* The sidecar: detachReplyFirst, step by step *)

Step(from, to, new) ==
  /\ ~conf.cooperative /\ At(from)
  /\ side' = [side EXCEPT !.pc = to, !.events = 0]
  /\ task' = new
  /\ UNCHANGED <<conf, faults, origVars, child, pipe, target, hs, text, icache, others, said>>

\* Faulty: a second SIGSTOP.
SecondStop_stop == Stop

\* The signal of the stop that is detached from.
SecondStop == Cont

\* Faulty: one more.
EventsLeft_one_more == side.events <= MaxEvents

EventsLeft == side.events < MaxEvents

\* catchSoftSignal: the signal is held, or something else came first and is
\* suppressed.
Catch(expected, next) ==
  /\ Waits(task) /\ EventsLeft
  /\ IF task.raised = expected
     THEN /\ task' = waitForEvent(task)
          /\ side' = [side EXCEPT !.pc = next, !.gotSigcont = expected = SecondStop]
     ELSE /\ task' = reply(waitForEvent(task))
          /\ side' = [side EXCEPT !.events = @ + 1]
  /\ UNCHANGED <<conf, faults, origVars, child, pipe, target, hs, text, icache, others, said>>

\* 3 s without an event, or too many events.
CatchFails(next) ==
  /\ ~Waits(task) \/ ~EventsLeft
  /\ To(next)
  /\ UNCHANGED <<conf, faults, origVars, child, pipe, target, hs, text, icache, task, others, said>>

ReplyFirst == Step("release", "stop", reply(task))
SendStop   == Step("stop", "catchStop", kill(task, Stop))
CatchStop  == At("catchStop") /\ (Catch(Stop, "suspend") \/ CatchFails("suspend"))
Suspend    == Step("suspend", "answer", task_suspend(task))
Answer     == Step("answer", IF conf.sigcontBlocked THEN "ports" ELSE "cont", reply(task))
SendCont   == Step("cont", "resume", kill(task, SecondStop))
Resume     == Step("resume", "catchCont", task_resume(task))
CatchCont  == At("catchCont") /\ (Catch(SecondStop, "ports") \/ CatchFails("ports"))
RestorePorts == Step("ports", "detach", restoreAndTearDown(task))

Detach ==
  \/ Detachable(task) /\ Step("detach", "released", PT_DETACH(task))
  \/ ~Detachable(task) /\ Step("detach", "kept", task)

\* Behind a detach, or a suppressed stop of a target that stays traced.
ReleaseHeld ==
  \/ \E new \in Released(task) : Step("released", "balance", new)
  \/ Step("kept", "balance", reply(task))

\* Faulty: the suspend counts on the step that was skipped.
Balanced_never == task

\* The suspend, if step 4 was skipped.
Balanced == IF conf.sigcontBlocked THEN task_resume(task) ELSE task

Balance ==
  /\ ~conf.cooperative /\ At("balance")
  /\ To("watching")
  /\ task' = Balanced
  /\ target' = "running"
  /\ UNCHANGED <<conf, faults, origVars, child, pipe, hs, text, icache, others, said>>

Debugger ==
  \/ ReplyFirst \/ SendStop \/ CatchStop \/ Suspend \/ Answer \/ SendCont \/ Resume \/ CatchCont
  \/ RestorePorts \/ Detach \/ ReleaseHeld \/ Balance

Sidecar ==
  \/ Register \/ Receive \/ ReceiveTimeout \/ Adopt
  \/ Attach \/ AttachStop \/ AttachLate \/ ExecStop \/ ExecLate \/ PlantBreakpoint \/ AwaitBreakpoint
  \/ BreakpointLate
  \/ FindRuntime \/ Locate \/ WriteHandler \/ PatchTranslate
  \/ SkipDecode \/ PatchDecode \/ RestoreDecode \/ Spawn \/ SpawnFails
  \/ ReleaseReply \/ RestoreEntry \/ AbandonHook \/ Leave \/ ExitSeen
  \/ Debugger

Next ==
  \/ Refuse \/ Prepare \/ Fork \/ Original \/ Child
  \/ Target \/ OtherSignal \/ TargetExits
  \/ GiveUp \/ Killed \/ Sidecar

\* Each process is scheduled, and a wait that nobody ends runs out of time.
Fairness ==
  /\ WF_vars(Prepare \/ Fork \/ Original) /\ WF_vars(Child)
  /\ WF_vars(Target) /\ WF_vars(Sidecar)

Spec == Init /\ [][Next]_vars /\ Fairness

-----------------------------------------------------------------------------
TypeOK ==
  /\ conf \in Configs
  /\ faults \in 0 .. MaxFaults
  /\ orig \in {"start", "prepared", "reading", "reaping", "image", "failed"}
  /\ child \in {"none", "running", "exiting", "gone"}
  /\ pipe.byte \in {None, "x", "n"} /\ pipe.writers \subseteq {"child", "sidecar"}
  /\ target \in {"none", "init", "found", "waiting", "running", "exited"}
  /\ side.events \in 0 .. MaxEvents
  /\ text \in [Entries -> {"stock", "patched"}]
  /\ task.pending \subseteq SoftSignals /\ task.suspend \in 0 .. 1
  /\ task.held => task.raised # None
  /\ others \in 0 .. MaxOther
  /\ said \subseteq {"banner", "notice", "unanswered"}

\* The program is started once, whoever fails: with the loader's environment
\* by a process that has seen the sidecar ready, or with the inherited one.
StartedOnce ==
  /\ Len(images) <= 1
  /\ \A i \in DOMAIN images :
       IF images[i].hooked THEN pipe.byte = "x" /\ images[i].env.aot = "1"
                           ELSE images[i].env = Inherited /\ ~hs.service

\* A cooperative target that runs with translate_insn patched has a sidecar
\* that serves it, unless that was killed.  The one other exception is
\* announced ("a patched entry could not be restored").
HookServed ==
  conf.cooperative /\ target = "running" /\ text["translate"] = "patched"
    => side.serving \/ side.lost \/ side.killed

\* A cooperative target goes on with what is in memory, not with what its
\* cores have cached: every entry that was written is invalidated, those that
\* were put back too.  A sidecar that was killed, or could not send its reply
\* and said so ("cooperative reply failed"), has not told the target which.
FreshCode ==
  conf.cooperative /\ target = "running" /\ ~side.killed /\ "unanswered" \notin said
    => \A e \in Entries : icache[e] = {text[e]}

\* The default attach leaves no suspend behind, whatever came late.
SuspendBalanced ==
  ~conf.cooperative /\ side.pc = "watching" => task.suspend = 0

\* A target that was stopped on SIGCONT is not traced afterwards, and neither
\* stopped nor stuck in an exception of the release.
LeftAlone ==
  ~conf.cooperative /\ side.pc = "watching" /\ side.gotSigcont
    => ~task.traced /\ ~task.stopped /\ task.raised = None

\* A reply that could not be sent strands the target while the sidecar watches
\* for its exit: its receive has no time limit (it is not MACH_RCV_TIMEOUT).
Stranded == "unanswered" \in said /\ side.pc = "watching"

\* No target waits for an answer to its handshake for ever, unless it is
\* stranded; one whose reply failed in a rollback is freed when the sidecar
\* leaves.
Unblocked == target = "waiting" ~> target # "waiting" \/ Stranded

\* Whenever a cooperative target runs without a hook, and not on request, it
\* is said: at once, or when the sidecar leaves, if it is not killed.
Told ==
  conf.cooperative /\ ~conf.disableHook /\ target = "running"
    /\ text["translate"] = "stock" ~> {"banner", "notice"} \cap said # {} \/ side.killed
=============================================================================
