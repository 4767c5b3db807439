--------------------------- MODULE Loader_proofs ---------------------------
(***************************************************************************)
(* What the loader promises, for any options, failures and signals: the    *)
(* program is started once; a cooperative target is never left with a      *)
(* patched entry that nobody serves, nor goes on with a stale one if it    *)
(* could be answered; the release of the default attach leaves no suspend  *)
(* behind, and a target that was stopped on SIGCONT neither traced nor     *)
(* stopped.                                                                *)
(***************************************************************************)
EXTENDS Loader, SequenceTheorems, TLAPS

-----------------------------------------------------------------------------
(* Types *)

Environment == [service : BOOLEAN, aot : {None, "1"}]
Image == [env : Environment, hooked : BOOLEAN]
Pipe  == [byte : {None, "x", "n"}, writers : SUBSET {"child", "sidecar"}]
\* Where the sidecar is; in Detaching, behind the last signal.
Detaching == {"ports", "detach", "released", "kept", "balance"}
Pcs  ==
  {"none", "start", "receive", "adopt", "runtime", "barrier", "locate", "handler", "entry",
   "decode", "undecode", "spawn", "release", "rollback", "leaving", "watching", "gone",
   "attach", "exec", "breakpoint", "stop", "catchStop", "suspend", "answer", "cont", "resume",
   "catchCont"} \cup Detaching
Side ==
  [pc : Pcs, prog : BOOLEAN, handshook : BOOLEAN, serving : BOOLEAN,
   patched : Seq(Entries), touched : BOOLEAN, lost : BOOLEAN, events : Nat,
   gotSigcont : BOOLEAN, killed : BOOLEAN]
Handshake ==
  [service : BOOLEAN, request : {None, "sent"}, reply : {None, "reply", "gone"},
   spans : SUBSET Entries]

Task ==
  [traced : BOOLEAN, port : BOOLEAN, pending : SUBSET SoftSignals,
   raised : SoftSignals \cup {Brk, None}, held : BOOLEAN, suspend : Nat, stopped : BOOLEAN,
   planted : BOOLEAN]

Typed ==
  /\ conf \in Configs
  /\ orig \in {"start", "prepared", "reading", "reaping", "image", "failed"}
  /\ child \in {"none", "running", "exiting", "gone"}
  /\ target \in {"none", "init", "found", "waiting", "running", "exited"}
  /\ pipe \in Pipe /\ env \in Environment /\ images \in Seq(Image)
  /\ side \in Side /\ hs \in Handshake
  /\ task \in Task
  /\ text \in [Entries -> {"stock", "patched"}]
  /\ icache \in [Entries -> SUBSET {"stock", "patched"}]

\* An option that is chosen is on or off.
LEMMA ConfTyped ==
  ASSUME Typed
  PROVE  conf.cooperative \in BOOLEAN
BY ConfigsAssumption DEF Typed

\* What the sidecar and the kernel do to a task leaves a task.
LEMMA KillTyped ==
  ASSUME task \in Task, NEW s \in SoftSignals
  PROVE  kill(task, s) \in Task
BY DEF Task, kill, SoftSignals

LEMMA RaiseTyped ==
  ASSUME NEW t \in Task, NEW s \in SoftSignals \cup {Brk}
  PROVE  Raise(t, s) \in Task
BY DEF Task, Raise

LEMMA DefaultTyped ==
  ASSUME NEW t \in Task, NEW s
  PROVE  Default(t, s) \in Task
BY DEF Task, Default

LEMMA TakeTyped ==
  ASSUME task \in Task, NEW s \in task.pending
  PROVE  Take(task, s) \in Task
<1> DEFINE rest == [task EXCEPT !.pending = @ \ {s}]
<1>1. rest \in Task
  BY DEF Task
<1>2. s \in SoftSignals
  BY DEF Task
<1> QED BY <1>1, <1>2, RaiseTyped, DefaultTyped DEF Take

LEMMA ReplyTyped ==
  ASSUME NEW t \in Task
  PROVE  reply(t) \in Task /\ waitForEvent(t) \in Task
BY DEF Task, reply, waitForEvent

LEMMA ResumeTyped ==
  ASSUME NEW t \in Task
  PROVE  task_resume(t) \in Task /\ task_suspend(t) \in Task
BY DEF Task, task_resume, task_suspend

\* Programs are started with an environment.
LEMMA StartTyped ==
  ASSUME Typed
  PROVE  \A e \in Environment, h \in BOOLEAN : Append(images, [env |-> e, hooked |-> h]) \in Seq(Image)
BY DEF Typed, Image

LEMMA NotLaunchingTyped ==
  ASSUME Typed, notLaunching
  PROVE  /\ images' \in Seq(Image)
         /\ orig' \in {"image", "failed"}
         /\ target' \in {"none", "init", "found", "waiting", "running", "exited"}
<1>1. Inherited \in Environment
  BY DEF Inherited, Environment
<1> QED BY <1>1, StartTyped DEF notLaunching, runUnhooked, Typed

LEMMA OriginalTyped ==
  ASSUME Typed, Refuse \/ Prepare \/ Fork \/ Original
  PROVE  Typed'
<1> USE DEF Typed
<1>1. CASE Refuse
  BY <1>1, NotLaunchingTyped DEF Refuse
<1>2. CASE Prepare
  <2>1. env' \in Environment
    BY <1>2, ConfTyped DEF Prepare, Environment
  <2> QED BY <1>2, <2>1 DEF Prepare
<1>3. CASE Fork
  <2>1. pipe' \in Pipe
    BY <1>3 DEF Fork, Pipe
  <2> QED BY <1>3, <2>1 DEF Fork
<1>4. CASE Read
  BY <1>4 DEF Read
<1>5. CASE Launch
  <2>1. task' \in Task
    BY <1>5, KillTyped DEF Launch, SoftSignals
  <2> QED BY <1>5, <2>1, StartTyped DEF Launch
<1>6. CASE LaunchFails
  BY <1>6 DEF LaunchFails
<1>7. CASE NotAttached
  BY <1>7, NotLaunchingTyped DEF NotAttached
<1> QED BY <1>1, <1>2, <1>3, <1>4, <1>5, <1>6, <1>7 DEF Original

LEMMA ChildTyped ==
  ASSUME Typed, Child
  PROVE  Typed'
<1> USE DEF Typed
<1>1. CASE ChildForks
  <2>1. pipe' \in Pipe
    BY <1>1 DEF ChildForks, Pipe
  <2>2. side' \in Side
    BY <1>1 DEF ChildForks, Side, Pcs, Detaching
  <2> QED BY <1>1, <2>1, <2>2 DEF ChildForks, origVars
<1>2. CASE ChildFails
  BY <1>2 DEF ChildFails, origVars
<1>3. CASE ChildExits
  <2>1. pipe' \in Pipe
    BY <1>3 DEF ChildExits, Pipe
  <2> QED BY <1>3, <2>1 DEF ChildExits, origVars
<1> QED BY <1>1, <1>2, <1>3 DEF Child

LEMMA TargetTyped ==
  ASSUME Typed, Target \/ OtherSignal \/ TargetExits
  PROVE  Typed'
<1> USE DEF Typed, origVars
<1>1. CASE LookUp
  BY <1>1 DEF LookUp
<1>2. CASE Ask
  <2>1. hs' \in Handshake
    BY <1>2 DEF Ask, Handshake
  <2> QED BY <1>2, <2>1 DEF Ask
<1>3. CASE Answered
  BY <1>3 DEF Answered
<1>4. CASE Signalled
  BY <1>4, TakeTyped DEF Signalled
<1>5. CASE HitBreakpoint
  BY <1>5, RaiseTyped DEF HitBreakpoint
<1>6. CASE OtherSignal
  BY <1>6, KillTyped DEF OtherSignal, SoftSignals
<1>7. CASE TargetExits
  BY <1>7 DEF TargetExits
<1> QED BY <1>1, <1>2, <1>3, <1>4, <1>5, <1>6, <1>7 DEF Target

\* Going on, and leaving.
LEMMA ToTyped ==
  ASSUME Typed, NEW p \in Pcs, To(p)
  PROVE  side' \in Side
BY DEF Typed, To, Side

LEMMA GoneTyped ==
  ASSUME Typed
  PROVE  Gone \in Handshake
BY DEF Typed, Gone, Handshake

LEMMA WithoutTyped ==
  ASSUME Typed, NEW p
  PROVE  [pipe EXCEPT !.writers = @ \ {p}] \in Pipe
BY DEF Typed, Pipe

LEMMA ExitTyped ==
  ASSUME Typed, Exit
  PROVE  side' \in Side /\ pipe' \in Pipe /\ hs' \in Handshake
<1>1. [side EXCEPT !.pc = "gone", !.prog = FALSE, !.serving = FALSE] \in Side
  BY DEF Typed, Side, Pcs
<1> QED BY <1>1, GoneTyped, WithoutTyped DEF Exit

LEMMA LeavingTyped ==
  ASSUME Typed, Killed \/ GiveUp
  PROVE  Typed'
<1> USE DEF Typed, origVars
<1>1. CASE Killed
  <2>1. [side EXCEPT !.pc = "gone", !.prog = FALSE, !.serving = FALSE, !.killed = TRUE] \in Side
    BY DEF Side, Pcs
  <2> QED BY <1>1, <2>1, GoneTyped, WithoutTyped DEF Killed
<1>2. CASE GiveUp
  <2>1. ~Argv("sidecar")
    BY DEF Argv
  <2> QED BY <1>2, <2>1, ExitTyped DEF GiveUp
<1> QED BY <1>1, <1>2

\* The sidecar goes on, and nothing else of what is typed changes.
LEMMA GoesOnTyped ==
  ASSUME Typed, NEW p \in Pcs, To(p),
         UNCHANGED <<conf, origVars, child, pipe, target, hs, text, icache, task>>
  PROVE  Typed'
BY ToTyped DEF Typed, origVars

LEMMA WriteTyped ==
  ASSUME Typed, NEW e \in Entries, NEW v \in {"stock", "patched"}, NEW ok \in BOOLEAN,
         writeText(e, v, ok)
  PROVE  /\ text' \in [Entries -> {"stock", "patched"}]
         /\ icache' \in [Entries -> SUBSET {"stock", "patched"}]
BY DEF Typed, writeText, Write

LEMMA HandshakeTyped ==
  ASSUME Typed, Register \/ Receive \/ ReceiveTimeout \/ Adopt
  PROVE  Typed'
<1> USE DEF Typed, origVars
<1>1. CASE Register
  <2>1. side' \in Side
    BY <1>1 DEF Register, Launching, Side, Pcs
  <2>2. pipe' \in Pipe /\ hs' \in Handshake
    BY <1>1 DEF Register, Pipe, Handshake
  <2> QED BY <1>1, <2>1, <2>2 DEF Register
<1>2. CASE Receive
  <2>1. side' \in Side
    BY <1>2 DEF Receive, Side, Pcs
  <2> QED BY <1>2, <2>1 DEF Receive
<1>3. CASE ReceiveTimeout
  BY <1>3, ExitTyped DEF ReceiveTimeout
<1>4. CASE Adopt
  <2>1. "runtime" \in Pcs
    BY DEF Pcs
  <2> QED BY <1>4, <2>1, GoesOnTyped DEF Adopt
<1> QED BY <1>1, <1>2, <1>3, <1>4

LEMMA AttachTyped ==
  ASSUME Typed,
         \/ Attach \/ AttachStop \/ AttachLate \/ ExecStop \/ ExecLate \/ PlantBreakpoint
         \/ AwaitBreakpoint \/ BreakpointLate
  PROVE  Typed'
<1> USE DEF Typed, origVars
<1>0. /\ "attach" \in Pcs /\ "exec" \in Pcs /\ "runtime" \in Pcs
      /\ "breakpoint" \in Pcs /\ "locate" \in Pcs
  BY DEF Pcs
<1>1. CASE Attach
  <2>1. task' \in Task
    BY <1>1 DEF Attach, Task, kill, install, SoftSignals
  <2> QED BY <1>0, <1>1, <2>1, ToTyped DEF Attach
<1>2. CASE AttachStop
  <2>1. pipe' \in Pipe
    BY <1>2 DEF AttachStop, Pipe
  <2> QED BY <1>0, <1>2, <2>1, ToTyped, ReplyTyped DEF AttachStop
<1>3. CASE AttachLate
  <2>1. pipe' \in Pipe
    BY <1>3 DEF AttachLate, Pipe
  <2>2. side' \in Side
    BY <1>3 DEF AttachLate, Side, Pcs
  <2> QED BY <1>3, <2>1, <2>2 DEF AttachLate
<1>4. CASE ExecStop
  BY <1>0, <1>4, ToTyped, ReplyTyped DEF ExecStop
<1>5. CASE ExecLate
  BY <1>5, ExitTyped DEF ExecLate
<1>6. CASE PlantBreakpoint
  <2>1. [task EXCEPT !.planted = TRUE] \in Task
    BY DEF Task
  <2>2. task' \in Task
    BY <1>6, <2>1, ReplyTyped DEF PlantBreakpoint
  <2> QED BY <1>0, <1>6, <2>2, ToTyped DEF PlantBreakpoint
<1>7. CASE AwaitBreakpoint
  <2>1. [waitForEvent(task) EXCEPT !.planted = FALSE] \in Task
    BY ReplyTyped DEF Task
  <2> QED BY <1>0, <1>7, <2>1, ToTyped, ReplyTyped DEF AwaitBreakpoint
<1>8. CASE BreakpointLate
  <2>1. [task EXCEPT !.planted = FALSE] \in Task
    BY DEF Task
  <2> QED BY <1>0, <1>8, <2>1, ToTyped DEF BreakpointLate
<1> QED BY <1>1, <1>2, <1>3, <1>4, <1>5, <1>6, <1>7, <1>8

LEMMA PatchTyped ==
  ASSUME Typed,
         \/ FindRuntime \/ Locate \/ WriteHandler \/ PatchTranslate
         \/ SkipDecode \/ PatchDecode \/ RestoreDecode \/ Spawn \/ SpawnFails
  PROVE  Typed'
<1> USE DEF Typed, origVars
<1>0. /\ "release" \in Pcs /\ "locate" \in Pcs /\ "barrier" \in Pcs /\ "handler" \in Pcs
      /\ "entry" \in Pcs /\ "decode" \in Pcs /\ "undecode" \in Pcs /\ "rollback" \in Pcs
      /\ Abandons \in Pcs
  BY DEF Pcs, Abandons
<1>1. CASE FindRuntime
  BY <1>0, <1>1, GoesOnTyped DEF FindRuntime
<1>2. CASE Locate
  BY <1>0, <1>2, GoesOnTyped DEF Locate
<1>3. CASE WriteHandler
  BY <1>0, <1>3, GoesOnTyped DEF WriteHandler
<1>4. CASE PatchTranslate
  <2>1. side' \in Side
    <3>1. PICK ok \in BOOLEAN :
            side' = [side EXCEPT !.patched = Noted(@, "translate", ok),
                                 !.pc = IF ok /\ conf.abandon # 1 THEN "decode" ELSE "rollback"]
      BY <1>4 DEF PatchTranslate
    <3>2. Append(side.patched, "translate") \in Seq(Entries)
      BY DEF Side, Entries
    <3>3. PICK p \in Pcs : p = IF ok /\ conf.abandon # 1 THEN "decode" ELSE "rollback"
      BY <1>0
    <3> QED BY <3>1, <3>2, <3>3 DEF Noted, Side
  <2>2. /\ text' \in [Entries -> {"stock", "patched"}]
      /\ icache' \in [Entries -> SUBSET {"stock", "patched"}]
    BY <1>4, WriteTyped DEF PatchTranslate, Entries
  <2> QED BY <1>4, <2>1, <2>2 DEF PatchTranslate
<1>5. CASE SkipDecode
  BY <1>0, <1>5, GoesOnTyped DEF SkipDecode
<1>6. CASE PatchDecode
  <2>1. side' \in Side
    <3>1. PICK ok \in BOOLEAN :
            side' = [side EXCEPT !.touched = TRUE,
                                 !.patched = IF ok THEN Append(@, "decode") ELSE @,
                                 !.pc = IF ok THEN Abandons ELSE "undecode"]
      BY <1>6 DEF PatchDecode
    <3>a. side.patched \in Seq(Entries) /\ Append(side.patched, "decode") \in Seq(Entries)
      BY DEF Side, Entries
    <3>2. PICK q \in Seq(Entries) :
            q = IF ok THEN Append(side.patched, "decode") ELSE side.patched
      BY <3>a
    <3>3. PICK p \in Pcs : p = IF ok THEN Abandons ELSE "undecode"
      BY <1>0
    <3> QED BY <3>1, <3>2, <3>3 DEF Side
  <2>2. /\ text' \in [Entries -> {"stock", "patched"}]
      /\ icache' \in [Entries -> SUBSET {"stock", "patched"}]
    BY <1>6, WriteTyped DEF PatchDecode, Entries
  <2> QED BY <1>6, <2>1, <2>2 DEF PatchDecode
<1>7. CASE RestoreDecode
  <2>1. /\ text' \in [Entries -> {"stock", "patched"}]
      /\ icache' \in [Entries -> SUBSET {"stock", "patched"}]
    BY <1>7, WriteTyped DEF RestoreDecode, Entries
  <2> QED BY <1>0, <1>7, <2>1, ToTyped DEF RestoreDecode
<1>8. CASE Spawn
  <2>1. side' \in Side
    BY <1>8 DEF Spawn, Side, Pcs
  <2> QED BY <1>8, <2>1 DEF Spawn
<1>9. CASE SpawnFails
  BY <1>0, <1>9, GoesOnTyped DEF SpawnFails
<1> QED BY <1>1, <1>2, <1>3, <1>4, <1>5, <1>6, <1>7, <1>8, <1>9

LEMMA ReleaseTyped ==
  ASSUME Typed, ReleaseReply \/ RestoreEntry \/ AbandonHook \/ Leave \/ ExitSeen
  PROVE  Typed'
<1> USE DEF Typed, origVars
<1>0. EntrySpan \in SUBSET Entries
  BY DEF EntrySpan, Entries
<1>1. CASE ReleaseReply
  <2>1. side' \in Side
    BY <1>1 DEF ReleaseReply, Side, Pcs
  <2>2. hs' \in Handshake
    BY <1>0, <1>1 DEF ReleaseReply, Replied, Send, Handshake
  <2> QED BY <1>1, <2>1, <2>2 DEF ReleaseReply
<1>2. CASE RestoreEntry
  <2>0. side.patched \in Seq(Entries)
    BY DEF Side
  <2>1. Head(side.patched) \in Entries /\ Tail(side.patched) \in Seq(Entries)
    BY <1>2, <2>0, HeadTailProperties DEF RestoreEntry
  <2>2. side' \in Side
    BY <1>2, <2>1, ZenonT(30) DEF RestoreEntry, Side, Pcs
  <2>3. /\ text' \in [Entries -> {"stock", "patched"}]
      /\ icache' \in [Entries -> SUBSET {"stock", "patched"}]
    BY <1>2, <2>1, WriteTyped, ZenonT(30) DEF RestoreEntry
  <2> QED BY <1>2, <2>2, <2>3 DEF RestoreEntry
<1>3. CASE AbandonHook
  <2>1. hs' \in Handshake
    BY <1>0, <1>3 DEF AbandonHook, Send, Handshake
  <2>2. "leaving" \in Pcs
    BY DEF Pcs
  <2> QED BY <1>3, <2>1, <2>2, ToTyped DEF AbandonHook
<1>4. CASE Leave
  BY <1>4, ExitTyped DEF Leave
<1>5. CASE ExitSeen
  BY <1>5, ExitTyped DEF ExitSeen
<1> QED BY <1>1, <1>2, <1>3, <1>4, <1>5

LEMMA CatchTyped ==
  ASSUME Typed, NEW expected, NEW next \in Pcs,
         Catch(expected, next) \/ CatchFails(next)
  PROVE  Typed'
<1> USE DEF Typed, origVars
<1>1. CASE CatchFails(next)
  BY <1>1, GoesOnTyped DEF CatchFails
<1>2. CASE Catch(expected, next)
  <2>1. task' \in Task
    BY <1>2, ReplyTyped DEF Catch
  <2>2. side' \in Side
    <3>1. (expected = SecondStop) \in BOOLEAN
      OBVIOUS
    <3>2. CASE task.raised = expected
      BY <1>2, <3>1, <3>2 DEF Catch, Side
    <3>3. CASE task.raised # expected
      BY <1>2, <3>3 DEF Catch, Side
    <3> QED BY <3>2, <3>3
  <2> QED BY <1>2, <2>1, <2>2 DEF Catch
<1> QED BY <1>1, <1>2

LEMMA StepTyped ==
  ASSUME Typed, NEW from, NEW to \in Pcs, NEW new \in Task, Step(from, to, new)
  PROVE  Typed'
<1>1. side' \in Side
  BY DEF Typed, Step, Side
<1> QED BY <1>1 DEF Typed, origVars, Step

LEMMA DebuggerTyped ==
  ASSUME Typed, Debugger
  PROVE  Typed'
<1>0. /\ task \in Task
      /\ \A p \in Detaching : p \in Pcs
      /\ "stop" \in Pcs /\ "catchStop" \in Pcs /\ "suspend" \in Pcs /\ "answer" \in Pcs
      /\ "cont" \in Pcs /\ "resume" \in Pcs /\ "catchCont" \in Pcs /\ "watching" \in Pcs
      /\ "ports" \in Pcs /\ "detach" \in Pcs /\ "released" \in Pcs /\ "kept" \in Pcs
      /\ "balance" \in Pcs
  BY DEF Typed, Pcs, Detaching
<1>1. CASE ReplyFirst
  BY <1>0, <1>1, StepTyped, ReplyTyped DEF ReplyFirst
<1>2. CASE SendStop
  BY <1>0, <1>2, StepTyped, KillTyped DEF SendStop, SoftSignals
<1>3. CASE CatchStop
  BY <1>0, <1>3, CatchTyped DEF CatchStop, At
<1>4. CASE Suspend
  BY <1>0, <1>4, StepTyped, ResumeTyped DEF Suspend
<1>5. CASE Answer
  BY <1>0, <1>5, StepTyped, ReplyTyped DEF Answer
<1>6. CASE SendCont
  BY <1>0, <1>6, StepTyped, KillTyped DEF SendCont, SecondStop, SoftSignals
<1>7. CASE Resume
  BY <1>0, <1>7, StepTyped, ResumeTyped DEF Resume
<1>8. CASE CatchCont
  BY <1>0, <1>8, CatchTyped DEF CatchCont, At
<1>9. CASE RestorePorts
  <2>1. restoreAndTearDown(task) \in Task
    BY <1>0 DEF restoreAndTearDown, Task
  <2> QED BY <1>0, <1>9, <2>1, StepTyped DEF RestorePorts
<1>10. CASE Detach
  <2>1. PT_DETACH(task) \in Task
    <3>1. [task EXCEPT !.traced = FALSE] \in Task
      BY <1>0 DEF Task
    <3> QED BY <3>1, ResumeTyped DEF PT_DETACH
  <2> QED BY <1>0, <1>10, <2>1, StepTyped DEF Detach
<1>11. CASE ReleaseHeld
  <2>1. \A new \in Released(task) : new \in Task
    BY <1>0, ReplyTyped, DefaultTyped DEF Released
  <2> QED BY <1>0, <1>11, <2>1, StepTyped, ReplyTyped DEF ReleaseHeld
<1>12. CASE Balance
  <2>1. task' \in Task
    BY <1>0, <1>12, ResumeTyped DEF Balance, Balanced
  <2> QED BY <1>0, <1>12, <2>1, ToTyped DEF Balance, Typed, origVars
<1> QED
  BY <1>1, <1>2, <1>3, <1>4, <1>5, <1>6, <1>7, <1>8, <1>9, <1>10, <1>11, <1>12 DEF Debugger

LEMMA StepKeepsTyped ==
  ASSUME Typed, Next
  PROVE  Typed'
BY OriginalTyped, ChildTyped, TargetTyped, LeavingTyped, HandshakeTyped, AttachTyped, PatchTyped,
   ReleaseTyped, DebuggerTyped DEF Next, Sidecar

LEMMA InitTyped ==
  ASSUME Init
  PROVE  Typed
<1>1. side \in Side
  BY DEF Init, NoSide, Side, Pcs
<1>2. task \in Task
  BY DEF Init, NoTask, Task
<1>3. hs \in Handshake /\ pipe \in Pipe /\ env \in Environment
  BY DEF Init, Handshake, Pipe, Environment, Inherited
<1> QED BY <1>1, <1>2, <1>3 DEF Init, Typed

-----------------------------------------------------------------------------
(* The inductive invariants *)

\* The program is started by a process that has seen what became of the
\* sidecar: a byte, or that nobody is left who could register the service.
Ready ==
  /\ pipe.byte # None => side.pc \notin {"none", "start", "attach"}
  /\ side.pc \in {"start", "attach"} => "sidecar" \in pipe.writers
  /\ child = "running" => "child" \in pipe.writers /\ side.pc = "none"
  /\ child = "none" => side.pc = "none" /\ pipe.writers = {}
  /\ orig \in {"start", "prepared"} => child = "none"
  /\ orig \in {"start", "prepared", "reading", "reaping"} => images = <<>>
  /\ orig \in {"prepared", "reading", "reaping"} => env.aot = "1"
  /\ orig \in {"reaping", "image", "failed"} => pipe.byte # None \/ pipe.writers = {}
  /\ hs.service => pipe.byte = "x"

\* While the sidecar works on a target, this waits for its answer.
Busy == {"adopt", "runtime", "locate", "handler", "entry", "decode", "undecode", "spawn",
         "release", "rollback"}
Unheard == {"none", "start", "receive"}
Waiting ==
  conf.cooperative =>
    /\ target # "none" => orig = "image"
    /\ target \in {"none", "init", "found"} => hs.request = None
    /\ side.pc \in Unheard \cup Busy \cup {"leaving", "watching", "gone"}
    /\ side.pc \in Busy => target = "waiting" /\ hs.reply = None
    /\ side.pc \in Unheard => hs.reply = None /\ (hs.request = "sent" => target = "waiting")

\* A patched entry is still to be served or put back, is served, or has
\* outlived its target.
Noticed == \E i \in DOMAIN side.patched : side.patched[i] = "translate"
Served ==
  conf.cooperative /\ text["translate"] = "patched" =>
    \/ side.killed \/ side.lost
    \/ side.pc \in {"decode", "undecode", "spawn", "rollback"} /\ Noticed
    \/ side.pc \in {"release", "watching"} /\ side.serving
    \/ side.pc = "gone" /\ target = "exited"

\* What a core may have cached of an old entry will be invalidated.
Fresh(e) == icache[e] = {text[e]}
Unwritten == {"none", "start", "receive", "adopt", "runtime", "locate", "handler", "entry"}
Covered ==
  conf.cooperative /\ ~side.killed =>
    /\ side.pc \in Unwritten => side.patched = <<>> /\ ~side.touched /\ \A e \in Entries : Fresh(e)
    /\ side.pc \in {"decode", "undecode", "spawn"} => side.patched # <<>>
    /\ side.pc = "release" /\ side.patched = <<>> => \A e \in Entries : Fresh(e)
    /\ side.pc = "undecode" \/ (\E i \in DOMAIN side.patched : side.patched[i] = "decode")
         => side.touched
    /\ side.pc \in {"decode", "undecode", "spawn", "release", "rollback"} =>
         side.touched \/ Fresh("decode")
    /\ side.pc \in {"leaving", "watching", "gone"} =>
         \A e \in Entries : Fresh(e) \/ (target = "waiting" /\ hs.reply # None /\ e \in hs.spans)

\* The suspend of the release, and who takes it back.
Balancing ==
  ~conf.cooperative /\ side.pc # "gone" =>
    /\ task.suspend \in {0, 1}
    /\ \/ task.suspend = 0
       \/ side.pc \in {"answer", "cont", "resume"}
       \/ side.pc \in {"ports", "detach", "kept", "balance"} /\ conf.sigcontBlocked

\* From the SIGCONT on no stop is pending; one that was caught is detached
\* from, and answered.
Before   == {"attach", "exec", "runtime", "barrier", "breakpoint", "locate", "handler", "entry",
             "decode", "undecode", "spawn", "release", "stop", "catchStop", "suspend", "answer",
             "cont"}
Attached == Before \cup {"resume", "catchCont", "ports", "detach"}
Detached ==
  ~conf.cooperative =>
    /\ side.pc \notin {"receive", "adopt"}
    /\ side.pc \in Attached => task.traced
    /\ task.planted => side.pc \in {"breakpoint", "gone"}
    /\ side.pc \in {"resume", "catchCont"} => Stop \notin task.pending /\ ~task.stopped
    /\ side.gotSigcont =>
         /\ side.pc \in {"ports", "detach", "released", "balance", "watching", "gone"}
         /\ side.pc # "gone" => Stop \notin task.pending /\ ~task.stopped
         /\ side.pc \in {"ports", "detach", "released"} => task.raised = Cont /\ task.held
         /\ side.pc \in {"released", "balance", "watching"} => ~task.traced
         /\ side.pc \in {"balance", "watching"} => task.raised = None

-----------------------------------------------------------------------------
(* The program is started once *)

\* The sidecar is past its attach, and stays there.
LEMMA ReadyBehind ==
  ASSUME Typed, Ready, UNCHANGED <<child, orig, images, env>>,
         side.pc \notin {"none", "start", "attach"}, side'.pc \notin {"none", "start", "attach"},
         pipe'.byte = pipe.byte, pipe'.writers \in {pipe.writers, pipe.writers \ {"sidecar"}},
         hs'.service => hs.service
  PROVE  Ready'
BY DEF Ready

LEMMA OriginalReady ==
  ASSUME Typed, Ready, Refuse \/ Prepare \/ Fork \/ Original
  PROVE  Ready'
<1> USE DEF Ready
<1>1. CASE Refuse
  BY <1>1 DEF Refuse, notLaunching
<1>2. CASE Prepare
  BY <1>2 DEF Prepare
<1>3. CASE Fork
  <2>1. pipe'.byte = pipe.byte /\ pipe'.writers = {"child"}
    BY <1>3 DEF Fork, Typed, Pipe
  <2> QED BY <1>3, <2>1 DEF Fork
<1>4. CASE Read
  BY <1>4 DEF Read
<1>5. CASE Launch
  BY <1>5 DEF Launch, Reaped
<1>6. CASE LaunchFails
  BY <1>6 DEF LaunchFails, Reaped
<1>7. CASE NotAttached
  BY <1>7 DEF NotAttached, notLaunching, Reaped
<1> QED BY <1>1, <1>2, <1>3, <1>4, <1>5, <1>6, <1>7 DEF Original

LEMMA ChildReady ==
  ASSUME Typed, Ready, Child
  PROVE  Ready'
<1> USE DEF Ready
<1>0. side \in Side /\ pipe \in Pipe
  BY DEF Typed
<1>1. CASE ChildForks
  <2>1. pipe'.byte = pipe.byte /\ pipe'.writers = pipe.writers \cup {"sidecar"}
    BY <1>0, <1>1 DEF ChildForks, Pipe
  <2>2. side'.pc = "start"
    BY <1>0, <1>1 DEF ChildForks, Side
  <2> QED BY <1>1, <2>1, <2>2 DEF ChildForks, origVars
<1>2. CASE ChildFails
  BY <1>2 DEF ChildFails, origVars
<1>3. CASE ChildExits
  <2>1. pipe'.byte = pipe.byte /\ pipe'.writers = pipe.writers \ {"child"}
    BY <1>0, <1>3 DEF ChildExits, Pipe
  <2> QED BY <1>3, <2>1 DEF ChildExits, origVars
<1> QED BY <1>1, <1>2, <1>3 DEF Child

LEMMA TargetReady ==
  ASSUME Typed, Ready, Target \/ OtherSignal \/ TargetExits
  PROVE  Ready'
<1> USE DEF Ready, origVars
<1>1. CASE Ask
  <2>1. hs'.service = hs.service
    BY <1>1 DEF Ask, Typed, Handshake
  <2> QED BY <1>1, <2>1 DEF Ask
<1> QED BY <1>1 DEF Target, LookUp, Answered, Signalled, HitBreakpoint, OtherSignal, TargetExits

\* The sidecar leaves, from wherever it is.
LEMMA ExitFields ==
  ASSUME Typed, Exit
  PROVE  /\ side'.pc = "gone" /\ ~side'.serving
         /\ side'.killed = side.killed /\ side'.lost = side.lost
         /\ side'.gotSigcont = side.gotSigcont
         /\ side'.patched = side.patched /\ side'.touched = side.touched
         /\ pipe'.byte = pipe.byte /\ pipe'.writers = pipe.writers \ {"sidecar"}
         /\ ~hs'.service /\ hs'.request = hs.request /\ hs'.spans = hs.spans
         /\ hs'.reply # hs.reply => hs.reply = None /\ hs'.reply = "gone"
<1>1. side \in Side /\ pipe \in Pipe /\ hs \in Handshake
  BY DEF Typed
<1>2. /\ side'.pc = "gone" /\ ~side'.serving
      /\ side'.killed = side.killed /\ side'.lost = side.lost
      /\ side'.gotSigcont = side.gotSigcont
      /\ side'.patched = side.patched /\ side'.touched = side.touched
  BY <1>1 DEF Exit, Side
<1>3. pipe'.byte = pipe.byte /\ pipe'.writers = pipe.writers \ {"sidecar"}
  BY <1>1 DEF Exit, Pipe
<1>4. /\ ~hs'.service /\ hs'.request = hs.request /\ hs'.spans = hs.spans
      /\ hs'.reply # hs.reply => hs.reply = None /\ hs'.reply = "gone"
  BY <1>1 DEF Exit, Gone, Handshake
<1> QED BY <1>2, <1>3, <1>4

LEMMA KilledFields ==
  ASSUME Typed, Killed
  PROVE  /\ side'.pc = "gone" /\ side'.killed
         /\ pipe'.byte = pipe.byte /\ pipe'.writers = pipe.writers \ {"sidecar"}
         /\ ~hs'.service /\ hs'.request = hs.request
<1>1. side \in Side /\ pipe \in Pipe /\ hs \in Handshake
  BY DEF Typed
<1>2. side'.pc = "gone" /\ side'.killed
  BY <1>1 DEF Killed, Side
<1>3. pipe'.byte = pipe.byte /\ pipe'.writers = pipe.writers \ {"sidecar"}
  BY <1>1 DEF Killed, Pipe
<1>4. ~hs'.service /\ hs'.request = hs.request
  BY <1>1 DEF Killed, Gone, Handshake
<1> QED BY <1>2, <1>3, <1>4

LEMMA GiveUpExits ==
  ASSUME GiveUp
  PROVE  Exit /\ UNCHANGED <<conf, origVars, child, target, text, icache, task>>
BY DEF GiveUp, Argv, origVars

LEMMA LeavingReady ==
  ASSUME Typed, Ready,
         Killed \/ (Exit /\ UNCHANGED <<origVars, child>> /\ side.pc # "none")
  PROVE  Ready'
BY ExitFields, KilledFields DEF Killed, Ready, origVars

\* The field that says where the sidecar is.
LEMMA ToPc ==
  ASSUME Typed, NEW p, To(p)
  PROVE  side'.pc = p
BY DEF Typed, To, Side

LEMMA SidecarReady ==
  ASSUME Typed, Ready, GiveUp \/ Killed \/ Sidecar
  PROVE  Ready'
<1> USE DEF origVars, At
<1>0. side \in Side /\ pipe \in Pipe /\ hs \in Handshake
  BY DEF Typed
<1>1. CASE GiveUp \/ Killed
  BY <1>1, GiveUpExits, LeavingReady DEF GiveUp, Early
<1>2. CASE Register
  <2>1. /\ side'.pc = "receive" /\ hs'.service
        /\ pipe'.byte = "x" /\ pipe'.writers = pipe.writers \ {"sidecar"}
    BY <1>0, <1>2 DEF Register, Launching, Side, Handshake
  <2> QED BY <1>2, <2>1 DEF Register, Ready
<1>3. CASE Attach
  <2>1. side'.pc = "attach"
    BY <1>3, ToPc DEF Attach
  <2> QED BY <1>3, <2>1 DEF Attach, Ready
<1>4. CASE AttachStop
  <2>1. side'.pc = "exec"
    BY <1>4, ToPc DEF AttachStop
  <2>2. pipe'.byte = "x" /\ pipe'.writers = pipe.writers \ {"sidecar"}
    BY <1>4 DEF AttachStop
  <2> QED BY <1>4, <2>1, <2>2 DEF AttachStop, Ready
<1>5. CASE AttachLate
  <2>1. side'.pc = "gone"
    BY <1>0, <1>5 DEF AttachLate, Side
  <2>2. pipe'.byte = "n" /\ pipe'.writers = pipe.writers \ {"sidecar"}
    BY <1>5 DEF AttachLate
  <2> QED BY <1>5, <2>1, <2>2, NoneAssumption DEF AttachLate, Ready
<1>6. CASE ReceiveTimeout \/ ExecLate \/ Leave \/ ExitSeen
  BY <1>6, LeavingReady DEF ReceiveTimeout, ExecLate, Leave, LeavePatched, ExitSeen
<1>7. CASE Debugger
  <2>1. side.pc \notin {"none", "start", "attach"}
    BY <1>7 DEF Debugger, ReplyFirst, SendStop, CatchStop, Suspend, Answer, SendCont, Resume,
                CatchCont, RestorePorts, Detach, ReleaseHeld, Balance, Step
  <2>2. side'.pc \notin {"none", "start", "attach"}
    BY <1>0, <1>7
       DEF Debugger, ReplyFirst, SendStop, CatchStop, Suspend, Answer, SendCont, Resume,
           CatchCont, RestorePorts, Detach, ReleaseHeld, Balance, Step, To, Catch, CatchFails, Side
  <2>3. UNCHANGED <<child, orig, images, env, pipe, hs>>
    BY <1>7
       DEF Debugger, ReplyFirst, SendStop, CatchStop, Suspend, Answer, SendCont, Resume,
           CatchCont, RestorePorts, Detach, ReleaseHeld, Balance, Step, Catch, CatchFails
  <2> QED BY <2>1, <2>2, <2>3, ReadyBehind
<1>8. CASE \/ Receive \/ Adopt \/ ExecStop \/ PlantBreakpoint \/ AwaitBreakpoint \/ BreakpointLate
           \/ FindRuntime \/ Locate \/ WriteHandler \/ PatchTranslate
           \/ SkipDecode \/ PatchDecode \/ RestoreDecode \/ Spawn \/ SpawnFails
           \/ ReleaseReply \/ RestoreEntry \/ AbandonHook
  <2>1. /\ side.pc \notin {"none", "start", "attach"}
        /\ UNCHANGED <<child, orig, images, env, pipe>>
    BY <1>8 DEF Receive, Adopt, ExecStop, PlantBreakpoint, AwaitBreakpoint, BreakpointLate,
                FindRuntime, Locate, WriteHandler, PatchTranslate, SkipDecode, PatchDecode,
                RestoreDecode, Spawn, SpawnFails, ReleaseReply, RestoreEntry, AbandonHook
  <2>2. side'.pc \notin {"none", "start", "attach"}
    BY <1>0, <1>8
       DEF Receive, Adopt, ExecStop, PlantBreakpoint, AwaitBreakpoint, BreakpointLate,
           FindRuntime, Locate, WriteHandler, PatchTranslate, SkipDecode, PatchDecode,
           RestoreDecode, Spawn, SpawnFails, ReleaseReply, RestoreEntry, AbandonHook, To, Abandons,
           Side
  <2>3. hs'.service = hs.service
    BY <1>0, <1>8
       DEF Receive, Adopt, ExecStop, PlantBreakpoint, AwaitBreakpoint, BreakpointLate,
           FindRuntime, Locate, WriteHandler, PatchTranslate, SkipDecode, PatchDecode,
           RestoreDecode, Spawn, SpawnFails, ReleaseReply, RestoreEntry, AbandonHook, Replied,
           Send, Handshake
  <2> QED BY <2>1, <2>2, <2>3, ReadyBehind
<1> QED BY <1>1, <1>2, <1>3, <1>4, <1>5, <1>6, <1>7, <1>8 DEF Sidecar

\* Ready is inductive, relative to the types.
LEMMA StepKeepsReady ==
  ASSUME Typed, Ready, Next
  PROVE  Ready'
BY OriginalReady, ChildReady, TargetReady, SidecarReady DEF Next

\* What has been started stays, and what is known about it.
LEMMA StartedBehind ==
  ASSUME StartedOnce, images' = images, pipe'.byte = pipe.byte, hs'.service => hs.service
  PROVE  StartedOnce'
BY DEF StartedOnce

\* Before the sidecar is ready nothing has been started.
LEMMA NothingStarted ==
  ASSUME Typed, Ready, side.pc \in {"start", "attach"}
  PROVE  images = <<>>
BY DEF Typed, Ready

LEMMA StartStarts ==
  ASSUME NEW img, images = <<>>, images' = Append(images, img),
         IF img.hooked THEN pipe'.byte = "x" /\ img.env.aot = "1"
                       ELSE img.env = Inherited /\ ~hs'.service
  PROVE  StartedOnce'
<1>1. images' = <<img>>
  OBVIOUS
<1> QED BY <1>1 DEF StartedOnce

LEMMA OriginalStarts ==
  ASSUME Typed, Ready, StartedOnce, Refuse \/ Prepare \/ Fork \/ Original
  PROVE  StartedOnce'
<1>1. CASE notLaunching /\ UNCHANGED <<pipe, hs>> /\ images = <<>> /\ pipe.byte # "x"
  <2>1. ~hs.service
    BY <1>1 DEF Ready
  <2>2. CASE UNCHANGED images
    BY <1>1, <2>2, StartedBehind
  <2>3. CASE images' = Append(images, [env |-> Inherited, hooked |-> FALSE])
    BY <1>1, <2>1, <2>3, StartStarts
  <2> QED BY <1>1, <2>2, <2>3 DEF notLaunching, runUnhooked
<1>2. CASE Refuse
  BY <1>1, <1>2, NoneAssumption DEF Refuse, Ready
<1>3. CASE Prepare
  BY <1>3, StartedBehind DEF Prepare
<1>4. CASE Fork
  <2>1. pipe'.byte = pipe.byte
    BY <1>4 DEF Fork, Typed, Pipe
  <2> QED BY <1>4, <2>1, StartedBehind DEF Fork
<1>5. CASE Read \/ LaunchFails
  BY <1>5, StartedBehind DEF Read, LaunchFails
<1>6. CASE Launch
  <2>1. images = <<>> /\ env.aot = "1" /\ pipe'.byte = "x"
    BY <1>6 DEF Launch, Reaped, Ready
  <2> QED BY <1>6, <2>1, StartStarts DEF Launch
<1>7. CASE NotAttached
  BY <1>1, <1>7 DEF NotAttached, Reaped, Ready
<1> QED BY <1>2, <1>3, <1>4, <1>5, <1>6, <1>7 DEF Original

LEMMA OthersStart ==
  ASSUME Typed, Ready, StartedOnce, Child \/ Target \/ OtherSignal \/ TargetExits
  PROVE  StartedOnce'
<1>1. images' = images
  BY DEF Child, ChildForks, ChildFails, ChildExits, Target, LookUp, Ask, Answered, Signalled,
         HitBreakpoint, OtherSignal, TargetExits, origVars
<1>2. pipe'.byte = pipe.byte
  BY DEF Typed, Pipe, Child, ChildForks, ChildFails, ChildExits, Target, LookUp, Ask, Answered,
         Signalled, HitBreakpoint, OtherSignal, TargetExits
<1>3. hs'.service = hs.service
  BY DEF Typed, Handshake, Child, ChildForks, ChildFails, ChildExits, Target, LookUp, Ask,
         Answered, Signalled, HitBreakpoint, OtherSignal, TargetExits
<1> QED BY <1>1, <1>2, <1>3, StartedBehind

LEMMA SidecarStarts ==
  ASSUME Typed, Ready, StartedOnce, GiveUp \/ Killed \/ Sidecar
  PROVE  StartedOnce'
<1>0. side \in Side /\ pipe \in Pipe /\ hs \in Handshake
  BY DEF Typed
<1>1. CASE side.pc \in {"start", "attach"} /\ images' = images
  <2>1. images' = <<>>
    BY <1>1, NothingStarted
  <2> QED BY <2>1 DEF StartedOnce
<1>2. CASE Register \/ Attach \/ AttachStop \/ AttachLate
  BY <1>1, <1>2 DEF Register, Attach, AttachStop, AttachLate, At, origVars
<1>3. CASE GiveUp \/ ReceiveTimeout \/ ExecLate \/ Leave \/ ExitSeen
  BY <1>3, GiveUpExits, ExitFields, StartedBehind
     DEF ReceiveTimeout, ExecLate, Leave, ExitSeen, origVars
<1>4. CASE Killed
  BY <1>4, KilledFields, StartedBehind DEF Killed, origVars
<1>5. CASE Debugger
  BY <1>5, StartedBehind
     DEF Debugger, ReplyFirst, SendStop, CatchStop, Suspend, Answer, SendCont, Resume, CatchCont,
         RestorePorts, Detach, ReleaseHeld, Balance, Step, Catch, CatchFails, origVars
<1>6. CASE \/ Receive \/ Adopt \/ ExecStop \/ PlantBreakpoint \/ AwaitBreakpoint \/ BreakpointLate
           \/ FindRuntime \/ Locate \/ WriteHandler \/ PatchTranslate
           \/ SkipDecode \/ PatchDecode \/ RestoreDecode \/ Spawn \/ SpawnFails
           \/ ReleaseReply \/ RestoreEntry \/ AbandonHook
  <2>1. UNCHANGED <<images, pipe>> /\ hs'.service = hs.service
    BY <1>0, <1>6
       DEF Receive, Adopt, ExecStop, PlantBreakpoint, AwaitBreakpoint, BreakpointLate,
           FindRuntime, Locate, WriteHandler, PatchTranslate, SkipDecode, PatchDecode,
           RestoreDecode, Spawn, SpawnFails, ReleaseReply, RestoreEntry, AbandonHook, Replied,
           Send, Handshake, origVars
  <2> QED BY <2>1, StartedBehind
<1> QED BY <1>2, <1>3, <1>4, <1>5, <1>6 DEF Sidecar

Started == Typed /\ Ready /\ StartedOnce

\* The program is started once: with the loader's environment by a process
\* that has seen the sidecar ready, or with the inherited one.
THEOREM ProgramStartedOnce == Spec => []StartedOnce
<1>1. Init => Started
  <2> SUFFICES ASSUME Init PROVE Started
    OBVIOUS
  <2>1. Typed
    BY InitTyped
  <2>2. Ready
    BY DEF Init, NoSide, Ready
  <2>3. StartedOnce
    BY DEF Init, StartedOnce
  <2> QED BY <2>1, <2>2, <2>3 DEF Started
<1>2. Started /\ [Next]_vars => Started'
  <2> SUFFICES ASSUME Started, [Next]_vars PROVE Started'
    OBVIOUS
  <2> USE DEF Started
  <2>1. CASE Next
    <3>1. StartedOnce'
      BY <2>1, OriginalStarts, OthersStart, SidecarStarts DEF Next
    <3> QED BY <2>1, <3>1, StepKeepsTyped, StepKeepsReady
  <2>2. CASE UNCHANGED vars
    BY <2>2 DEF vars, Typed, Ready, StartedOnce
  <2> QED BY <2>1, <2>2
<1>3. Started => StartedOnce
  BY DEF Started
<1> QED BY <1>1, <1>2, <1>3, PTL DEF Spec

-----------------------------------------------------------------------------
(* The handshake: a target waits while the sidecar works on it *)

LEMMA OriginalWaits ==
  ASSUME Typed, Waiting, Refuse \/ Prepare \/ Fork \/ Original
  PROVE  Waiting'
<1> USE DEF Waiting
<1>0. conf' = conf /\ side' = side /\ hs' = hs
  BY DEF Refuse, Prepare, Fork, Original, Read, Launch, LaunchFails, NotAttached
<1>1. CASE target' = target /\ orig \notin {"image", "failed"}
  BY <1>0, <1>1
<1>2. CASE target = "none" /\ target' \in {"init", "running"} /\ orig' = "image"
  BY <1>0, <1>2, NoneAssumption DEF Busy, Unheard
<1>3. CASE notLaunching /\ orig \notin {"image", "failed"}
  <2>1. CASE Argv("orig")
    <3>1. target = "none"
      BY <1>3, <2>1 DEF Argv
    <3>2. target' = "running" /\ orig' = "image"
      BY <1>3, <2>1 DEF notLaunching, runUnhooked
    <3> QED BY <1>2, <3>1, <3>2
  <2>2. CASE ~Argv("orig")
    BY <1>1, <1>3, <2>2 DEF notLaunching
  <2> QED BY <2>1, <2>2
<1> QED BY <1>1, <1>2, <1>3
        DEF Refuse, Prepare, Fork, Original, Read, Launch, LaunchFails, NotAttached, Reaped

LEMMA ChildWaits ==
  ASSUME Typed, Ready, Waiting, Child
  PROVE  Waiting'
<1>1. UNCHANGED <<conf, target, orig, hs>>
  BY DEF Child, ChildForks, ChildFails, ChildExits, origVars
<1>2. side' = side \/ (side.pc = "none" /\ side'.pc = "start")
  BY DEF Child, ChildForks, ChildFails, ChildExits, Ready, Typed, Side
<1> QED BY <1>1, <1>2 DEF Waiting, Unheard, Busy

LEMMA TargetWaits ==
  ASSUME Typed, Waiting, Target \/ OtherSignal \/ TargetExits
  PROVE  Waiting'
<1>0. conf' = conf /\ side' = side /\ orig' = orig
  BY DEF Target, LookUp, Ask, Answered, Signalled, HitBreakpoint, OtherSignal, TargetExits, origVars
<1>1. CASE LookUp
  BY <1>0, <1>1, NoneAssumption DEF LookUp, Waiting
<1>2. CASE Ask
  <2>1. hs'.reply = hs.reply /\ hs'.request = IF hs.service THEN "sent" ELSE None
    BY <1>2 DEF Ask, Typed, Handshake
  <2> QED BY <1>0, <1>2, <2>1, NoneAssumption DEF Ask, Waiting
<1>3. CASE Answered
  BY <1>0, <1>3 DEF Answered, Waiting
<1>4. CASE Signalled \/ HitBreakpoint \/ OtherSignal
  BY <1>0, <1>4 DEF Signalled, HitBreakpoint, OtherSignal, Waiting
<1>5. CASE TargetExits
  BY <1>0, <1>5 DEF TargetExits, Waiting
<1> QED BY <1>1, <1>2, <1>3, <1>4, <1>5 DEF Target

\* The sidecar goes on without a word to the target.
LEMMA WaitsOn ==
  ASSUME Typed, Waiting, UNCHANGED <<conf, target, orig, hs>>,
         conf.cooperative =>
           \/ side'.pc \in {"leaving", "watching", "gone"}
           \/ side.pc \in Busy /\ side'.pc \in Busy
  PROVE  Waiting'
BY DEF Waiting, Busy, Unheard

LEMMA LeavingWaits ==
  ASSUME Typed, Waiting, UNCHANGED <<conf, target, orig>>,
         side'.pc \in {"leaving", "watching", "gone"}, hs'.request = hs.request
  PROVE  Waiting'
BY DEF Waiting, Busy, Unheard

LEMMA SidecarWaits ==
  ASSUME Typed, Waiting, GiveUp \/ Killed \/ Sidecar
  PROVE  Waiting'
<1> USE DEF origVars, At
<1>0. side \in Side /\ hs \in Handshake /\ conf.cooperative \in BOOLEAN
  BY ConfTyped DEF Typed
<1>1. CASE GiveUp \/ ReceiveTimeout \/ ExecLate \/ Leave \/ ExitSeen
  BY <1>1, GiveUpExits, ExitFields, LeavingWaits DEF ReceiveTimeout, ExecLate, Leave, ExitSeen
<1>2. CASE Killed
  BY <1>2, KilledFields, LeavingWaits DEF Killed
<1>3. CASE Register
  <2>1. side'.pc = "receive" /\ hs'.request = hs.request /\ hs'.reply = hs.reply
    BY <1>0, <1>3 DEF Register, Launching, Side, Handshake
  <2> QED BY <1>3, <2>1 DEF Register, Waiting, Unheard, Busy
<1>4. CASE Receive
  <2>1. side'.pc = "adopt"
    BY <1>0, <1>4 DEF Receive, Side
  <2> QED BY <1>4, <2>1 DEF Receive, Waiting, Unheard, Busy
<1>5. CASE \/ Attach \/ AttachStop \/ AttachLate \/ ExecStop \/ PlantBreakpoint \/ AwaitBreakpoint
           \/ BreakpointLate
  <2>1. ~conf.cooperative
    BY <1>5 DEF Attach, AttachStop, AttachLate, ExecStop, PlantBreakpoint, AwaitBreakpoint,
                BreakpointLate, Waiting, Unheard, Busy
  <2> QED BY <1>5, <2>1, WaitsOn
          DEF Attach, AttachStop, AttachLate, ExecStop, PlantBreakpoint, AwaitBreakpoint,
              BreakpointLate
<1>6. CASE Debugger
  <2>1. ~conf.cooperative
    BY <1>6 DEF Debugger, ReplyFirst, SendStop, CatchStop, Suspend, Answer, SendCont, Resume,
                CatchCont, RestorePorts, Detach, ReleaseHeld, Balance, Step, Waiting, Unheard, Busy
  <2>2. conf' = conf
    BY <1>6 DEF Debugger, ReplyFirst, SendStop, CatchStop, Suspend, Answer, SendCont, Resume,
                CatchCont, RestorePorts, Detach, ReleaseHeld, Balance, Step, Catch, CatchFails
  <2> QED BY <2>1, <2>2 DEF Waiting
<1>7. CASE \/ Adopt \/ FindRuntime \/ Locate \/ WriteHandler \/ PatchTranslate \/ SkipDecode
           \/ PatchDecode \/ RestoreDecode \/ Spawn \/ SpawnFails \/ RestoreEntry
  <2>1. side.pc \in Busy /\ UNCHANGED <<conf, target, orig, hs>>
    BY <1>7 DEF Adopt, FindRuntime, Locate, WriteHandler, PatchTranslate, SkipDecode, PatchDecode,
                RestoreDecode, Spawn, SpawnFails, RestoreEntry, Busy
  <2>2. conf.cooperative => side'.pc \in Busy
    BY <1>0, <1>7
       DEF Adopt, FindRuntime, Locate, WriteHandler, PatchTranslate, SkipDecode, PatchDecode,
           RestoreDecode, Spawn, SpawnFails, RestoreEntry, Busy, To, Abandons, Side
  <2> QED BY <2>1, <2>2, WaitsOn
<1>8. CASE ReleaseReply
  <2>1. side'.pc = "watching" /\ hs'.request = hs.request
    BY <1>0, <1>8 DEF ReleaseReply, Replied, Send, Side, Handshake
  <2> QED BY <1>8, <2>1, LeavingWaits DEF ReleaseReply
<1>9. CASE AbandonHook
  <2>1. side'.pc = "leaving" /\ hs'.request = hs.request
    BY <1>0, <1>9, ToPc DEF AbandonHook, Send, Handshake
  <2> QED BY <1>9, <2>1, LeavingWaits DEF AbandonHook
<1> QED BY <1>1, <1>2, <1>3, <1>4, <1>5, <1>6, <1>7, <1>8, <1>9 DEF Sidecar

LEMMA StepKeepsWaiting ==
  ASSUME Typed, Ready, Waiting, Next
  PROVE  Waiting'
BY OriginalWaits, ChildWaits, TargetWaits, SidecarWaits DEF Next

-----------------------------------------------------------------------------
(* A patched entry is served *)

\* Nobody but the sidecar touches the entries; a target that has gone stays so.
LEMMA ServedAnyhow ==
  ASSUME Served, UNCHANGED <<conf, side, text>>, target = "exited" => target' = "exited"
  PROVE  Served'
BY DEF Served, Noticed

LEMMA OthersServe ==
  ASSUME Typed, Ready, Waiting, Served,
         Refuse \/ Prepare \/ Fork \/ Original \/ Child \/ Target \/ OtherSignal \/ TargetExits
  PROVE  Served'
<1>1. CASE ChildForks
  <2>1. /\ side.pc = "none" /\ side'.pc = "start"
        /\ side'.killed = side.killed /\ side'.lost = side.lost
    BY <1>1 DEF ChildForks, Typed, Ready, Side
  <2> QED BY <1>1, <2>1 DEF ChildForks, Served
<1>2. CASE ~ChildForks
  <2>1. UNCHANGED <<conf, side, text>>
    BY <1>2 DEF Refuse, Prepare, Fork, Original, Read, Launch, LaunchFails, NotAttached,
                Child, ChildFails, ChildExits, Target, LookUp, Ask, Answered, Signalled,
                HitBreakpoint, OtherSignal, TargetExits
  <2>2. CASE conf.cooperative /\ target = "exited"
    <3>1. target' = target
      BY <2>2 DEF Refuse, Prepare, Fork, Original, Read, Launch, LaunchFails, NotAttached, Reaped,
                  notLaunching, Child, ChildForks, ChildFails, ChildExits, Target, LookUp, Ask,
                  Answered, Signalled, HitBreakpoint, OtherSignal, TargetExits, Waiting
    <3> QED BY <2>1, <3>1, ServedAnyhow
  <2>3. CASE ~(conf.cooperative /\ target = "exited")
    BY <2>1, <2>3 DEF Served, Noticed
  <2> QED BY <2>2, <2>3
<1> QED BY <1>1, <1>2

\* The sidecar gets on without a write.
LEMMA ServedOn ==
  ASSUME Typed, Served, UNCHANGED <<conf, text>>,
         side'.killed = side.killed, side'.lost = side.lost,
         conf.cooperative => side.pc \notin {"decode", "undecode", "spawn", "rollback", "release",
                                            "watching", "gone"}
  PROVE  Served'
BY DEF Served

\* The sidecar's own entry.
LEMMA PatchServes ==
  ASSUME Typed, Served, PatchTranslate
  PROVE  Served'
<1>1. /\ side'.pc \in {"decode", "rollback"}
      /\ side'.patched = Append(side.patched, "translate")
  BY DEF PatchTranslate, Noted, Typed, Side
<1>2. side.patched \in Seq(Entries)
  BY DEF Typed, Side
<1>3. /\ Len(side.patched) + 1 \in DOMAIN side'.patched
      /\ side'.patched[Len(side.patched) + 1] = "translate"
  BY <1>1, <1>2, AppendProperties DEF Entries
<1>4. Noticed'
  BY <1>3 DEF Noticed
<1> QED BY <1>1, <1>4 DEF Served

LEMMA PatchedFields ==
  ASSUME NEW s \in Side, NEW q, NEW b
  PROVE  LET new == [s EXCEPT !.patched = q, !.lost = b] IN
         /\ new.pc = s.pc /\ new.killed = s.killed /\ new.touched = s.touched
         /\ new.patched = q /\ new.lost = b
BY DEF Side

LEMMA RestoreServes ==
  ASSUME Typed, Served, RestoreEntry
  PROVE  Served'
<1>0. side \in Side /\ side.patched \in Seq(Entries) /\ side.patched # <<>>
  BY DEF Typed, Side, RestoreEntry
<1>1. PICK ok \in BOOLEAN :
        /\ writeText(Head(side.patched), "stock", ok)
        /\ side' = [side EXCEPT !.patched = Tail(@), !.lost = @ \/ ~ok]
  BY DEF RestoreEntry
<1>2. PICK lost \in BOOLEAN : lost = (side.lost \/ ~ok)
  OBVIOUS
<1>3. /\ side'.pc = side.pc /\ side.pc = "rollback" /\ side'.killed = side.killed
      /\ side'.patched = Tail(side.patched) /\ side'.lost = lost
  <2>1. side' = [side EXCEPT !.patched = Tail(@), !.lost = lost]
    BY <1>1, <1>2, Zenon
  <2>2. side' = [side EXCEPT !.patched = Tail(side.patched), !.lost = lost]
    BY <2>1
  <2>3. side.pc = "rollback"
    BY DEF RestoreEntry, At
  <2>4. PICK rest : rest = Tail(side.patched)
    OBVIOUS
  <2>5. side' = [side EXCEPT !.patched = rest, !.lost = lost]
    BY <2>2, <2>4
  <2> QED BY <1>0, <2>3, <2>4, <2>5, PatchedFields
<1>4. SUFFICES ASSUME conf.cooperative, text'["translate"] = "patched", ok,
                      ~side.killed, ~side.lost
               PROVE  Noticed'
  BY <1>2, <1>3 DEF Served, RestoreEntry
<1>5. Write(Head(side.patched), "stock")
  BY <1>1, <1>4 DEF writeText
<1>6. Head(side.patched) # "translate" /\ text["translate"] = "patched"
  BY <1>4, <1>5 DEF Write, Typed, Entries
<1>7. PICK i \in DOMAIN side.patched : side.patched[i] = "translate"
  BY <1>3, <1>4, <1>6 DEF Served, Noticed
<1>8. i \in 2 .. Len(side.patched)
  BY <1>0, <1>6, <1>7, HeadTailProperties
<1>9. i - 1 \in DOMAIN Tail(side.patched) /\ Tail(side.patched)[i - 1] = "translate"
  BY <1>0, <1>7, <1>8, HeadTailProperties
<1> QED BY <1>3, <1>9 DEF Noticed

\* The other entry does not matter.
LEMMA WriteDecodeServes ==
  ASSUME Typed, Served, NEW v, NEW ok \in BOOLEAN, writeText("decode", v, ok), conf' = conf,
         side.pc \in {"decode", "undecode", "spawn", "rollback"},
         side'.pc \in {"decode", "undecode", "spawn", "rollback"},
         side'.killed = side.killed, side'.lost = side.lost,
         Noticed => Noticed'
  PROVE  Served'
<1>1. text'["translate"] = text["translate"]
  BY DEF writeText, Write, Typed, Entries
<1> QED BY <1>1 DEF Served

LEMMA DecodeServes ==
  ASSUME Typed, Served, SkipDecode \/ PatchDecode \/ RestoreDecode
  PROVE  Served'
<1>0. side \in Side /\ side.patched \in Seq(Entries)
  BY DEF Typed, Side
<1>1. CASE SkipDecode
  <2>1. /\ side'.pc \in {"spawn", "rollback"} /\ side'.patched = side.patched
        /\ side'.killed = side.killed /\ side'.lost = side.lost
    BY <1>0, <1>1 DEF SkipDecode, To, Abandons, Side
  <2> QED BY <1>1, <2>1 DEF SkipDecode, At, Served, Noticed
<1>2. CASE PatchDecode
  <2>1. PICK ok \in BOOLEAN :
          /\ writeText("decode", "patched", ok)
          /\ side' = [side EXCEPT !.touched = TRUE,
                                  !.patched = IF ok THEN Append(@, "decode") ELSE @,
                                  !.pc = IF ok THEN Abandons ELSE "undecode"]
    BY <1>2 DEF PatchDecode
  <2>2. /\ side'.pc \in {"spawn", "rollback", "undecode"}
        /\ side'.killed = side.killed /\ side'.lost = side.lost
        /\ side'.patched \in {side.patched, Append(side.patched, "decode")}
    BY <1>0, <2>1 DEF Abandons, Side
  <2>3. Noticed => Noticed'
    BY <1>0, <2>2, AppendProperties DEF Noticed, Entries
  <2> QED BY <1>2, <2>1, <2>2, <2>3, WriteDecodeServes, ZenonT(30) DEF PatchDecode, At
<1>3. CASE RestoreDecode
  <2>1. PICK ok \in BOOLEAN : writeText("decode", "stock", ok)
    BY <1>3 DEF RestoreDecode
  <2>2. /\ side'.pc \in {"spawn", "rollback"} /\ side'.patched = side.patched
        /\ side'.killed = side.killed /\ side'.lost = side.lost
    BY <1>0, <1>3 DEF RestoreDecode, To, Abandons, Side
  <2>3. Noticed => Noticed'
    BY <2>2 DEF Noticed
  <2> QED BY <1>3, <2>1, <2>2, <2>3, WriteDecodeServes DEF RestoreDecode, At
<1> QED BY <1>1, <1>2, <1>3

LEMMA SpawnServes ==
  ASSUME Typed, Served, Spawn \/ SpawnFails
  PROVE  Served'
<1>1. CASE Spawn
  <2>1. side'.pc = "release" /\ side'.serving
    BY <1>1 DEF Spawn, Typed, Side
  <2> QED BY <2>1 DEF Served
<1>2. CASE SpawnFails
  <2>1. /\ side'.pc = "rollback" /\ side'.patched = side.patched
        /\ side'.killed = side.killed /\ side'.lost = side.lost
    BY <1>2 DEF SpawnFails, To, Typed, Side
  <2> QED BY <1>2, <2>1 DEF SpawnFails, At, Served, Noticed
<1> QED BY <1>1, <1>2

\* The target is released, and the sidecar leaves it.
LEMMA ReleaseServes ==
  ASSUME Typed, Served, ReleaseReply \/ AbandonHook \/ Leave \/ ExitSeen
  PROVE  Served'
<1>0. side \in Side
  BY DEF Typed
<1>1. CASE ReleaseReply
  <2>1. /\ side'.pc = "watching" /\ side'.serving = side.serving
        /\ side'.killed = side.killed /\ side'.lost = side.lost
    BY <1>0, <1>1 DEF ReleaseReply, Side
  <2> QED BY <1>1, <2>1 DEF ReleaseReply, At, Served
<1>2. CASE AbandonHook
  <2>1. side'.killed = side.killed /\ side'.lost = side.lost
    BY <1>0, <1>2 DEF AbandonHook, To, Side
  <2>2. ~Noticed
    BY <1>2 DEF AbandonHook, Noticed
  <2> QED BY <1>2, <2>1, <2>2 DEF AbandonHook, At, Served
<1>3. CASE Leave
  BY <1>3, ExitFields DEF Leave, LeavePatched, At, Served
<1>4. CASE ExitSeen
  BY <1>4, ExitFields DEF ExitSeen, At, Served
<1> QED BY <1>1, <1>2, <1>3, <1>4

LEMMA SidecarServes ==
  ASSUME Typed, Waiting, Served, GiveUp \/ Killed \/ Sidecar
  PROVE  Served'
<1>0. side \in Side
  BY DEF Typed
<1>1. CASE GiveUp
  BY <1>1, GiveUpExits, ExitFields, ServedOn DEF GiveUp, Early
<1>2. CASE Killed
  BY <1>2, KilledFields DEF Killed, Served
<1>3. CASE \/ Attach \/ AttachStop \/ AttachLate \/ ExecStop \/ ExecLate \/ PlantBreakpoint
           \/ AwaitBreakpoint \/ BreakpointLate \/ Debugger
  <2>1. ~conf.cooperative
    BY <1>3 DEF Attach, AttachStop, AttachLate, ExecStop, ExecLate, PlantBreakpoint,
                AwaitBreakpoint, BreakpointLate, Debugger, ReplyFirst, SendStop, CatchStop, Suspend,
                Answer, SendCont, Resume, CatchCont, RestorePorts, Detach, ReleaseHeld, Balance,
                Step, At, Waiting, Unheard, Busy
  <2>2. conf' = conf
    BY <1>3 DEF Attach, AttachStop, AttachLate, ExecStop, ExecLate, PlantBreakpoint,
                AwaitBreakpoint, BreakpointLate, Debugger, ReplyFirst, SendStop, CatchStop, Suspend,
                Answer, SendCont, Resume, CatchCont, RestorePorts, Detach, ReleaseHeld, Balance,
                Step, Catch, CatchFails
  <2> QED BY <2>1, <2>2 DEF Served
<1>4. CASE Register \/ Receive \/ ReceiveTimeout \/ Adopt \/ FindRuntime \/ Locate \/ WriteHandler
  <2>1. /\ UNCHANGED <<conf, text>>
        /\ side.pc \in {"start", "receive", "adopt", "runtime", "locate", "handler"}
    BY <1>4 DEF Register, Receive, ReceiveTimeout, Adopt, FindRuntime, Locate, WriteHandler, At
  <2>2. side'.killed = side.killed /\ side'.lost = side.lost
    BY <1>0, <1>4, ExitFields
       DEF Register, Launching, Receive, ReceiveTimeout, Adopt, FindRuntime, Locate, WriteHandler,
           To, Side
  <2> QED BY <2>1, <2>2, ServedOn
<1> QED BY <1>1, <1>2, <1>3, <1>4, PatchServes, RestoreServes, DecodeServes, SpawnServes,
           ReleaseServes DEF Sidecar

LEMMA StepKeepsServed ==
  ASSUME Typed, Ready, Waiting, Served, Next
  PROVE  Served'
BY OthersServe, SidecarServes DEF Next

HookInv == Typed /\ Ready /\ Waiting /\ Served

LEMMA HookInvInductive == HookInv /\ [Next]_vars => HookInv'
<1> SUFFICES ASSUME HookInv, [Next]_vars PROVE HookInv'
  OBVIOUS
<1> USE DEF HookInv
<1>1. CASE Next
  BY <1>1, StepKeepsTyped, StepKeepsReady, StepKeepsWaiting, StepKeepsServed
<1>2. CASE UNCHANGED vars
  BY <1>2 DEF vars, Typed, Ready, Waiting, Served, Noticed
<1> QED BY <1>1, <1>2

LEMMA HookInvInitial == Init => HookInv
<1> SUFFICES ASSUME Init PROVE HookInv
  OBVIOUS
<1>1. Typed
  BY InitTyped
<1>2. Ready
  BY DEF Init, NoSide, Ready
<1>3. Waiting
  BY NoneAssumption DEF Init, NoSide, Waiting, Unheard, Busy
<1>4. Served
  BY DEF Init, Served, Entries
<1> QED BY <1>1, <1>2, <1>3, <1>4 DEF HookInv

\* A cooperative target that runs with a patched translate_insn is served,
\* whatever fails: only killing the sidecar, or an entry that could not be put
\* back, leaves it without.
THEOREM PatchedIsServed == Spec => []HookServed
<1>1. HookInv => HookServed
  BY DEF HookInv, Waiting, Served, HookServed, Busy
<1> QED BY <1>1, HookInvInitial, HookInvInductive, PTL DEF Spec

-----------------------------------------------------------------------------
(* A target goes on with what is in memory *)

\* Nothing that matters here changes, but where the target is before it asks.
LEMMA CoveredAnyhow ==
  ASSUME Covered, UNCHANGED <<conf, text, icache, hs>>,
         conf.cooperative => target' = target \/ target # "waiting",
         side'.pc = side.pc \/ (side.pc \in Unwritten /\ side'.pc \in Unwritten),
         side'.killed = side.killed, side'.patched = side.patched, side'.touched = side.touched
  PROVE  Covered'
BY DEF Covered, Unwritten, Fresh

LEMMA OthersCover ==
  ASSUME Typed, Ready, Waiting, Covered,
         Refuse \/ Prepare \/ Fork \/ Original \/ Child \/ Target \/ OtherSignal \/ TargetExits
  PROVE  Covered'
<1>1. CASE Refuse \/ Prepare \/ Fork \/ Original
  <2>1. UNCHANGED <<conf, text, icache, hs, side>>
    BY <1>1 DEF Refuse, Prepare, Fork, Original, Read, Launch, LaunchFails, NotAttached
  <2>2. conf.cooperative => target' = target \/ target # "waiting"
    BY <1>1 DEF Refuse, Prepare, Fork, Original, Read, Launch, LaunchFails, NotAttached, Reaped,
                notLaunching, Waiting
  <2> QED BY <2>1, <2>2, CoveredAnyhow
<1>2. CASE Child
  <2>1. UNCHANGED <<conf, text, icache, hs, target>>
    BY <1>2 DEF Child, ChildForks, ChildFails, ChildExits
  <2>2. /\ side' = side \/ (side.pc = "none" /\ side'.pc = "start")
        /\ side'.killed = side.killed /\ side'.patched = side.patched
        /\ side'.touched = side.touched
    BY <1>2 DEF Child, ChildForks, ChildFails, ChildExits, Ready, Typed, Side
  <2> QED BY <2>1, <2>2, CoveredAnyhow DEF Unwritten
<1>3. CASE LookUp \/ Signalled \/ HitBreakpoint \/ OtherSignal \/ TargetExits
  BY <1>3, CoveredAnyhow DEF LookUp, Signalled, HitBreakpoint, OtherSignal, TargetExits
<1>4. CASE Ask
  <2>1. UNCHANGED <<conf, text, icache, side>> /\ target = "found"
    BY <1>4 DEF Ask
  <2> QED BY <2>1 DEF Covered, Fresh
<1>5. CASE Answered
  <2>1. UNCHANGED <<conf, text, hs, side>> /\ target = "waiting" /\ hs.reply # None
    BY <1>5 DEF Answered
  <2>2. \A e \in Entries : icache'[e] = IF e \in hs.spans THEN {text[e]} ELSE icache[e]
    BY <1>5 DEF Answered
  <2>3. conf.cooperative => side.pc \in {"leaving", "watching", "gone"}
    BY <2>1 DEF Waiting
  <2> QED BY <2>1, <2>2, <2>3 DEF Covered, Fresh, Unwritten
<1> QED BY <1>1, <1>2, <1>3, <1>4, <1>5 DEF Target

\* The sidecar leaves a target that it has not written to, or has answered.
LEMMA ExitCovers ==
  ASSUME Typed, Covered, Exit, UNCHANGED <<conf, text, icache, target>>,
         side.pc \in Unwritten \cup {"leaving", "watching", "gone"}
  PROVE  Covered'
<1>1. /\ side'.pc = "gone" /\ side'.killed = side.killed /\ hs'.spans = hs.spans
      /\ side'.patched = side.patched /\ side'.touched = side.touched
      /\ hs.reply # None => hs'.reply # None
  BY ExitFields
<1> QED BY <1>1 DEF Covered, Fresh, Unwritten

LEMMA EarlyCovers ==
  ASSUME Typed, Covered,
         Register \/ Receive \/ Adopt \/ FindRuntime \/ Locate \/ WriteHandler,
         conf.cooperative
  PROVE  Covered'
<1>0. side \in Side
  BY DEF Typed
<1>1. UNCHANGED <<conf, text, icache>> /\ side.pc \in Unwritten
  BY DEF Register, Receive, Adopt, FindRuntime, Locate, WriteHandler, At, Unwritten
<1>2. /\ side'.pc \in Unwritten \cup {"release"}
      /\ side'.killed = side.killed /\ side'.patched = side.patched
      /\ side'.touched = side.touched
  BY <1>0
     DEF Register, Launching, Receive, Adopt, FindRuntime, Locate, WriteHandler, To, Side, Unwritten
<1> QED BY <1>1, <1>2 DEF Covered, Fresh, Unwritten, Entries

\* A write leaves the other entry as fresh as it was.
LEMMA WriteOther ==
  ASSUME Typed, NEW e \in Entries, NEW v, NEW ok \in BOOLEAN, writeText(e, v, ok)
  PROVE  \A f \in Entries \ {e} : text'[f] = text[f] /\ icache'[f] = icache[f]
BY DEF Typed, writeText, Write

LEMMA PatchCovers ==
  ASSUME Typed, Covered, PatchTranslate
  PROVE  Covered'
<1>0. side \in Side /\ side.patched \in Seq(Entries)
  BY DEF Typed, Side
<1>1. /\ side'.pc \in {"decode", "rollback"} /\ side.pc = "entry" /\ conf' = conf
      /\ side'.patched = Append(side.patched, "translate")
      /\ side'.killed = side.killed /\ side'.touched = side.touched
  BY <1>0 DEF PatchTranslate, Noted, At, Side
<1>2. text'["decode"] = text["decode"] /\ icache'["decode"] = icache["decode"]
  BY WriteOther DEF PatchTranslate, Entries
<1>3. SUFFICES ASSUME conf.cooperative, ~side.killed PROVE Covered'
  BY <1>1 DEF Covered
<1>4. side.patched = <<>> /\ Fresh("decode")
  BY <1>1, <1>3 DEF Covered, Unwritten, Entries
<1>5. side'.patched = <<"translate">>
  BY <1>1, <1>4
<1> QED BY <1>1, <1>2, <1>4, <1>5 DEF Covered, Fresh, Unwritten

LEMMA DecodeCovers ==
  ASSUME Typed, Covered, SkipDecode \/ PatchDecode \/ RestoreDecode
  PROVE  Covered'
<1>0. side \in Side /\ side.patched \in Seq(Entries)
  BY DEF Typed, Side
<1>1. CASE SkipDecode
  <2>1. /\ side'.pc \in {"spawn", "rollback"} /\ side.pc = "decode"
        /\ side'.patched = side.patched /\ side'.killed = side.killed
        /\ side'.touched = side.touched
    BY <1>0, <1>1 DEF SkipDecode, To, At, Abandons, Side
  <2> QED BY <1>1, <2>1 DEF SkipDecode, Covered, Fresh, Unwritten
<1>2. CASE PatchDecode
  <2>1. PICK ok \in BOOLEAN :
          side' = [side EXCEPT !.touched = TRUE,
                               !.patched = IF ok THEN Append(@, "decode") ELSE @,
                               !.pc = IF ok THEN Abandons ELSE "undecode"]
    BY <1>2 DEF PatchDecode
  <2>2. /\ side'.pc \in {"spawn", "rollback", "undecode"} /\ side.pc = "decode"
        /\ side'.killed = side.killed /\ side'.touched /\ conf' = conf
        /\ side'.patched \in {side.patched, Append(side.patched, "decode")}
    BY <1>0, <1>2, <2>1 DEF PatchDecode, At, Abandons, Side
  <2>3. side.patched # <<>> => side'.patched # <<>>
    BY <1>0, <2>2, AppendProperties DEF Entries
  <2> QED BY <2>2, <2>3 DEF Covered, Unwritten
<1>3. CASE RestoreDecode
  <2>1. /\ side'.pc \in {"spawn", "rollback"} /\ side.pc = "undecode" /\ conf' = conf
        /\ side'.patched = side.patched /\ side'.killed = side.killed
        /\ side'.touched = side.touched
    BY <1>0, <1>3 DEF RestoreDecode, To, At, Abandons, Side
  <2> QED BY <2>1 DEF Covered, Unwritten
<1> QED BY <1>1, <1>2, <1>3

LEMMA SpawnCovers ==
  ASSUME Typed, Covered, Spawn \/ SpawnFails
  PROVE  Covered'
<1>1. /\ side'.pc \in {"release", "rollback"} /\ side.pc = "spawn"
      /\ side'.patched = side.patched /\ side'.killed = side.killed
      /\ side'.touched = side.touched
  BY DEF Spawn, SpawnFails, To, At, Typed, Side
<1>2. UNCHANGED <<conf, text, icache>>
  BY DEF Spawn, SpawnFails
<1> QED BY <1>1, <1>2 DEF Covered, Fresh, Unwritten

LEMMA RestoreCovers ==
  ASSUME Typed, Covered, RestoreEntry
  PROVE  Covered'
<1>0. side \in Side /\ side.patched \in Seq(Entries) /\ side.patched # <<>>
  BY DEF Typed, Side, RestoreEntry
<1>1. /\ side'.pc = "rollback" /\ side.pc = "rollback" /\ side'.killed = side.killed
      /\ side'.touched = side.touched /\ side'.patched = Tail(side.patched) /\ conf' = conf
  <2>1. PICK ok \in BOOLEAN : side' = [side EXCEPT !.patched = Tail(@), !.lost = @ \/ ~ok]
    BY DEF RestoreEntry
  <2>2. PICK lost \in BOOLEAN : lost = (side.lost \/ ~ok)
    OBVIOUS
  <2>3. PICK rest : rest = Tail(side.patched)
    OBVIOUS
  <2>4. side' = [side EXCEPT !.patched = Tail(@), !.lost = lost]
    BY <2>1, <2>2, Zenon
  <2>5. side' = [side EXCEPT !.patched = rest, !.lost = lost]
    BY <2>3, <2>4
  <2>6. side.pc = "rollback" /\ conf' = conf
    BY DEF RestoreEntry, At
  <2> QED BY <1>0, <2>3, <2>5, <2>6, PatchedFields
<1>2. \A i \in DOMAIN Tail(side.patched) :
        i + 1 \in DOMAIN side.patched /\ Tail(side.patched)[i] = side.patched[i + 1]
  BY <1>0, HeadTailProperties
<1>3. SUFFICES ASSUME conf.cooperative, ~side.killed, ~side.touched PROVE Fresh("decode")'
  BY <1>1, <1>2 DEF Covered, Unwritten
<1>4. 1 \in DOMAIN side.patched /\ Head(side.patched) = side.patched[1]
  BY <1>0
<1>5. Head(side.patched) = "translate"
  <2>1. Head(side.patched) \in Entries
    BY <1>0, HeadTailProperties
  <2>2. Head(side.patched) # "decode"
    BY <1>1, <1>3, <1>4 DEF Covered
  <2> QED BY <2>1, <2>2 DEF Entries
<1>6. text'["decode"] = text["decode"] /\ icache'["decode"] = icache["decode"]
  BY <1>5, WriteOther DEF RestoreEntry, Entries
<1> QED BY <1>1, <1>3, <1>6 DEF Covered, Fresh

\* The answer names what may be stale, if it can be sent.
LEMMA AnswerCovers ==
  ASSUME Typed, Waiting, Covered, ReleaseReply \/ AbandonHook, "unanswered" \notin said'
  PROVE  Covered'
<1>0. side \in Side /\ hs \in Handshake
  BY DEF Typed
<1>1. /\ side'.pc \in {"watching", "leaving"} /\ side.pc \in {"release", "rollback"}
      /\ side'.patched = side.patched /\ side'.killed = side.killed
      /\ side'.touched = side.touched
  BY <1>0 DEF ReleaseReply, AbandonHook, To, At, Side
<1>2. UNCHANGED <<conf, text, icache, target>> /\ conf.cooperative
  BY DEF ReleaseReply, AbandonHook
<1>3. target = "waiting"
  BY <1>1, <1>2 DEF Waiting, Busy
<1>4. hs'.reply # None
  BY <1>0, NoneAssumption DEF ReleaseReply, Replied, AbandonHook, Send, Handshake
<1>5. side.killed \/ \A e \in Entries : Fresh(e) \/ e \in hs'.spans
  <2>1. CASE side.pc = "release" /\ side.patched = <<>>
    BY <1>2, <2>1 DEF Covered
  <2>2. CASE ~(side.pc = "release" /\ side.patched = <<>>)
    <3>1. hs'.spans = EntrySpan
      BY <1>0, <1>1, <2>2 DEF ReleaseReply, Replied, AbandonHook, Send, At, Handshake
    <3> QED BY <1>1, <1>2, <3>1 DEF Covered, EntrySpan, Entries
  <2> QED BY <2>1, <2>2
<1> QED BY <1>1, <1>2, <1>3, <1>4, <1>5 DEF Covered, Fresh, Unwritten

LEMMA SidecarCovers ==
  ASSUME Typed, Waiting, Covered, GiveUp \/ Killed \/ Sidecar, "unanswered" \notin said'
  PROVE  Covered'
<1>1. CASE GiveUp
  <2>1. side.pc \in Unwritten \/ ~conf.cooperative
    BY <1>1 DEF GiveUp, Early, Unwritten, Waiting, Unheard, Busy
  <2>2. CASE conf.cooperative
    BY <1>1, <2>1, <2>2, GiveUpExits, ExitCovers
  <2>3. CASE ~conf.cooperative
    BY <1>1, <2>3 DEF GiveUp, Covered
  <2> QED BY <2>2, <2>3
<1>2. CASE Killed
  BY <1>2, KilledFields DEF Covered
<1>3. CASE ReceiveTimeout \/ Leave \/ ExitSeen
  <2>1. CASE LeavePatched
    BY <1>3, <2>1 DEF ReceiveTimeout, Leave, ExitSeen, LeavePatched, Covered
  <2>2. CASE ~LeavePatched
    BY <1>3, <2>2, ExitCovers DEF ReceiveTimeout, Leave, ExitSeen, At, Unwritten
  <2> QED BY <2>1, <2>2
<1>4. CASE \/ Attach \/ AttachStop \/ AttachLate \/ ExecStop \/ ExecLate \/ PlantBreakpoint
           \/ AwaitBreakpoint \/ BreakpointLate \/ Debugger
  <2>1. ~conf.cooperative
    BY <1>4 DEF Attach, AttachStop, AttachLate, ExecStop, ExecLate, PlantBreakpoint,
                AwaitBreakpoint, BreakpointLate, Debugger, ReplyFirst, SendStop, CatchStop, Suspend,
                Answer, SendCont, Resume, CatchCont, RestorePorts, Detach, ReleaseHeld, Balance,
                Step, At, Waiting, Unheard, Busy
  <2>2. conf' = conf
    BY <1>4 DEF Attach, AttachStop, AttachLate, ExecStop, ExecLate, PlantBreakpoint,
                AwaitBreakpoint, BreakpointLate, Debugger, ReplyFirst, SendStop, CatchStop, Suspend,
                Answer, SendCont, Resume, CatchCont, RestorePorts, Detach, ReleaseHeld, Balance,
                Step, Catch, CatchFails
  <2> QED BY <2>1, <2>2 DEF Covered
<1>5. CASE Register \/ Receive \/ Adopt \/ FindRuntime \/ Locate \/ WriteHandler
  <2>1. CASE ~conf.cooperative
    BY <1>5, <2>1 DEF Register, Receive, Adopt, FindRuntime, Locate, WriteHandler, Covered
  <2> QED BY <1>5, <2>1, EarlyCovers
<1> QED BY <1>1, <1>2, <1>3, <1>4, <1>5, PatchCovers, DecodeCovers, SpawnCovers, RestoreCovers,
           AnswerCovers DEF Sidecar

\* What was said stays said.
LEMMA SaidStays ==
  ASSUME Next, "unanswered" \in said
  PROVE  "unanswered" \in said'
<1>1. CASE Refuse \/ Prepare \/ Fork \/ Original \/ Child \/ Target \/ OtherSignal \/ TargetExits
  BY <1>1
     DEF Refuse, Prepare, Fork, Original, Read, Launch, LaunchFails, NotAttached, notLaunching,
         runUnhooked, Child, ChildForks, ChildFails, ChildExits, Target, LookUp, Ask, Answered,
         Signalled, HitBreakpoint, OtherSignal, TargetExits
<1>2. CASE GiveUp \/ Killed \/ ReceiveTimeout \/ ExecLate \/ Leave \/ ExitSeen
  BY <1>2 DEF GiveUp, Killed, ReceiveTimeout, ExecLate, Leave, ExitSeen, Exit, runUnhooked
<1>3. CASE Debugger
  BY <1>3 DEF Debugger, ReplyFirst, SendStop, CatchStop, Suspend, Answer, SendCont, Resume,
              CatchCont, RestorePorts, Detach, ReleaseHeld, Balance, Step, Catch, CatchFails
<1>4. CASE \/ Register \/ Receive \/ Adopt \/ Attach \/ AttachStop \/ AttachLate \/ ExecStop
           \/ PlantBreakpoint \/ AwaitBreakpoint \/ BreakpointLate
  BY <1>4 DEF Register, Receive, Adopt, Attach, AttachStop, AttachLate, ExecStop, PlantBreakpoint,
              AwaitBreakpoint, BreakpointLate
<1>5. CASE \/ FindRuntime \/ Locate \/ WriteHandler \/ PatchTranslate \/ SkipDecode
           \/ PatchDecode \/ RestoreDecode \/ Spawn \/ SpawnFails
           \/ ReleaseReply \/ RestoreEntry \/ AbandonHook
  BY <1>5 DEF FindRuntime, Locate, WriteHandler, PatchTranslate, SkipDecode, PatchDecode,
              RestoreDecode, Spawn, SpawnFails, ReleaseReply, RestoreEntry, AbandonHook, Send
<1> QED BY <1>1, <1>2, <1>3, <1>4, <1>5 DEF Next, Sidecar

FreshInv == Typed /\ Ready /\ Waiting /\ ("unanswered" \notin said => Covered)

LEMMA FreshInvInductive == FreshInv /\ [Next]_vars => FreshInv'
<1> SUFFICES ASSUME FreshInv, [Next]_vars PROVE FreshInv'
  OBVIOUS
<1> USE DEF FreshInv
<1>1. CASE Next
  <2>1. Typed' /\ Ready' /\ Waiting'
    BY <1>1, StepKeepsTyped, StepKeepsReady, StepKeepsWaiting
  <2>2. ASSUME "unanswered" \notin said' PROVE Covered'
    <3>1. Covered
      BY <1>1, <2>2, SaidStays
    <3> QED BY <1>1, <2>2, <3>1, OthersCover, SidecarCovers DEF Next
  <2> QED BY <2>1, <2>2
<1>2. CASE UNCHANGED vars
  BY <1>2 DEF vars, Typed, Ready, Waiting, Covered, Fresh
<1> QED BY <1>1, <1>2

LEMMA FreshInvInitial == Init => FreshInv
<1> SUFFICES ASSUME Init PROVE FreshInv
  OBVIOUS
<1>1. Typed /\ Ready /\ Waiting
  BY HookInvInitial DEF HookInv
<1>2. /\ side.pc = "none" /\ side.patched = <<>> /\ ~side.touched
      /\ \A e \in Entries : Fresh(e)
  BY DEF Init, NoSide, Fresh
<1> QED BY <1>1, <1>2 DEF FreshInv, Covered

\* A cooperative target goes on with the entries that are in memory, whatever
\* was written, failed or was put back before it was answered: only killing
\* the sidecar, or a reply that could not be sent and was said to have failed,
\* keeps from it which entries to invalidate.
THEOREM TargetSeesMemory == Spec => []FreshCode
<1>1. FreshInv => FreshCode
  BY DEF FreshInv, Waiting, Covered, Fresh, FreshCode, Unwritten, Unheard, Busy
<1> QED BY <1>1, FreshInvInitial, FreshInvInductive, PTL DEF Spec

-----------------------------------------------------------------------------
(* The release of the default attach takes its suspend back *)

\* Signals and exceptions leave the suspend count alone.
LEMMA SignalsKeepSuspend ==
  ASSUME NEW t \in Task, NEW s
  PROVE  /\ kill(t, s).suspend = t.suspend /\ Raise(t, s).suspend = t.suspend
         /\ Default(t, s).suspend = t.suspend
         /\ reply(t).suspend = t.suspend /\ waitForEvent(t).suspend = t.suspend
BY DEF Task, kill, Raise, Default, reply, waitForEvent

LEMMA TakeKeepsSuspend ==
  ASSUME task \in Task, NEW s
  PROVE  Take(task, s).suspend = task.suspend
<1> DEFINE rest == [task EXCEPT !.pending = @ \ {s}]
<1>1. rest \in Task /\ rest.suspend = task.suspend
  BY DEF Task
<1> QED BY <1>1, SignalsKeepSuspend DEF Take

LEMMA SuspendCounts ==
  ASSUME NEW t \in Task
  PROVE  /\ task_suspend(t).suspend = t.suspend + 1
         /\ task_resume(t).suspend = IF t.suspend = 0 THEN 0 ELSE t.suspend - 1
BY DEF Task, task_suspend, task_resume

\* Where a step leaves the sidecar and the task.
LEMMA StepFields ==
  ASSUME Typed, NEW from, NEW to, NEW new, Step(from, to, new)
  PROVE  /\ side.pc = from /\ side'.pc = to /\ task' = new /\ conf' = conf
         /\ side'.gotSigcont = side.gotSigcont /\ ~conf.cooperative
BY DEF Typed, Step, At, Side

LEMMA BalancingKept ==
  ASSUME Balancing, conf' = conf, task'.suspend = task.suspend,
         \/ side'.pc = side.pc
         \/ side'.pc = "gone"
         \/ side.pc \notin {"gone", "answer", "cont", "resume", "ports", "detach", "kept", "balance"}
  PROVE  Balancing'
BY DEF Balancing

LEMMA OthersBalance ==
  ASSUME Typed, Ready, Balancing,
         Refuse \/ Prepare \/ Fork \/ Original \/ Child \/ Target \/ OtherSignal \/ TargetExits
  PROVE  Balancing'
<1>0. task \in Task /\ side \in Side
  BY DEF Typed
<1>1. CASE Launch \/ OtherSignal
  <2>1. task'.suspend = task.suspend
    BY <1>0, <1>1, SignalsKeepSuspend DEF Launch, OtherSignal
  <2> QED BY <1>1, <2>1, BalancingKept DEF Launch, OtherSignal
<1>2. CASE Signalled \/ HitBreakpoint
  <2>1. task'.suspend = task.suspend
    BY <1>0, <1>2, SignalsKeepSuspend, TakeKeepsSuspend DEF Signalled, HitBreakpoint
  <2> QED BY <1>2, <2>1, BalancingKept DEF Signalled, HitBreakpoint
<1>3. CASE \/ Refuse \/ Prepare \/ Fork \/ Read \/ LaunchFails \/ NotAttached \/ LookUp \/ Ask \/ Answered
           \/ TargetExits
  BY <1>3, BalancingKept
     DEF Refuse, Prepare, Fork, Read, LaunchFails, NotAttached, LookUp, Ask, Answered, TargetExits
<1>4. CASE Child
  <2>1. UNCHANGED <<conf, task>>
    BY <1>4 DEF Child, ChildForks, ChildFails, ChildExits
  <2>2. side' = side \/ side.pc = "none"
    BY <1>4 DEF Child, ChildForks, ChildFails, ChildExits, Ready
  <2> QED BY <2>1, <2>2, BalancingKept
<1> QED BY <1>1, <1>2, <1>3, <1>4 DEF Original, Target

LEMMA AttachBalances ==
  ASSUME Typed, Balancing,
         \/ Attach \/ AttachStop \/ AttachLate \/ ExecStop \/ PlantBreakpoint
         \/ AwaitBreakpoint \/ BreakpointLate
  PROVE  Balancing'
<1>0. task \in Task
  BY DEF Typed
<1>1. conf' = conf /\ side.pc \in {"start", "attach", "exec", "barrier", "breakpoint"}
  BY DEF Attach, AttachStop, AttachLate, ExecStop, PlantBreakpoint, AwaitBreakpoint,
         BreakpointLate, At
<1>2. task'.suspend = task.suspend
  <2>1. CASE Attach
    <3> DEFINE t == [install(task) EXCEPT !.traced = TRUE]
    <3>1. t \in Task /\ t.suspend = task.suspend
      BY <1>0 DEF install, Task
    <3>2. task' = kill(t, Stop)
      BY <2>1 DEF Attach
    <3> QED BY <3>1, <3>2, SignalsKeepSuspend
  <2>2. CASE PlantBreakpoint
    <3> DEFINE t == [task EXCEPT !.planted = TRUE]
    <3>1. t \in Task /\ t.suspend = task.suspend
      BY <1>0 DEF Task
    <3>2. task' = reply(t) \/ task' = reply(task)
      BY <2>2 DEF PlantBreakpoint
    <3> QED BY <1>0, <3>1, <3>2, SignalsKeepSuspend
  <2>3. CASE AttachStop \/ AttachLate \/ ExecStop \/ AwaitBreakpoint \/ BreakpointLate
    <3>1. waitForEvent(task) \in Task /\ waitForEvent(task).suspend = task.suspend
      BY <1>0, ReplyTyped, SignalsKeepSuspend
    <3>2. \A t \in Task : [t EXCEPT !.planted = FALSE].suspend = t.suspend
      BY DEF Task
    <3> QED BY <1>0, <2>3, <3>1, <3>2, SignalsKeepSuspend
            DEF AttachStop, AttachLate, ExecStop, AwaitBreakpoint, BreakpointLate
  <2> QED BY <2>1, <2>2, <2>3
<1> QED BY <1>1, <1>2, BalancingKept

LEMMA DebuggerBalances ==
  ASSUME Typed, Balancing, Debugger
  PROVE  Balancing'
<1>0. task \in Task /\ task.suspend \in Nat /\ side \in Side
  BY DEF Typed, Task
<1>1. CASE ReplyFirst \/ SendStop \/ RestorePorts
  <2>1. task'.suspend = task.suspend
    BY <1>0, <1>1, StepFields, SignalsKeepSuspend
       DEF ReplyFirst, SendStop, RestorePorts, restoreAndTearDown, Task
  <2> QED BY <1>1, <2>1, StepFields DEF ReplyFirst, SendStop, RestorePorts, Balancing
<1>2. CASE CatchStop \/ CatchCont
  <2>1. conf' = conf /\ side.pc \in {"catchStop", "catchCont"}
    BY <1>2 DEF CatchStop, CatchCont, Catch, CatchFails, At
  <2>2. task'.suspend = task.suspend
    BY <1>0, <1>2, ReplyTyped, SignalsKeepSuspend DEF CatchStop, CatchCont, Catch, CatchFails
  <2> QED BY <2>1, <2>2, BalancingKept
<1>3. CASE Suspend
  <2>1. side.pc = "suspend" /\ side'.pc = "answer" /\ task' = task_suspend(task) /\ conf' = conf
    BY <1>3, StepFields DEF Suspend
  <2> QED BY <1>0, <2>1, SuspendCounts DEF Balancing
<1>4. CASE Answer \/ SendCont
  <2>1. task'.suspend = task.suspend
    BY <1>0, <1>4, StepFields, SignalsKeepSuspend DEF Answer, SendCont
  <2> QED BY <1>4, <2>1, StepFields DEF Answer, SendCont, Balancing
<1>5. CASE Resume
  <2>1. side.pc = "resume" /\ side'.pc = "catchCont" /\ task' = task_resume(task) /\ conf' = conf
    BY <1>5, StepFields DEF Resume
  <2> QED BY <1>0, <2>1, SuspendCounts DEF Balancing
<1>6. CASE Detach
  <2>1. CASE Step("detach", "released", PT_DETACH(task))
    <3> DEFINE t == [task EXCEPT !.traced = FALSE]
    <3>1. t \in Task /\ t.suspend = task.suspend
      BY <1>0 DEF Task
    <3>a. task' = task_resume(t)
      BY <2>1, StepFields DEF PT_DETACH
    <3> HIDE DEF t
    <3>2. task'.suspend = IF task.suspend = 0 THEN 0 ELSE task.suspend - 1
      BY <3>1, <3>a, SuspendCounts
    <3>3. side.pc = "detach" /\ side'.pc = "released" /\ conf' = conf
      BY <2>1, StepFields
    <3> QED BY <1>0, <3>2, <3>3 DEF Balancing
  <2>2. CASE Step("detach", "kept", task)
    BY <2>2, StepFields DEF Balancing
  <2> QED BY <1>6, <2>1, <2>2 DEF Detach
<1>7. CASE ReleaseHeld
  <2>1. /\ side.pc \in {"released", "kept"} /\ side'.pc = "balance" /\ conf' = conf
        /\ task' \in Released(task) \cup {reply(task)}
    BY <1>7, StepFields DEF ReleaseHeld
  <2>2. task'.suspend = task.suspend
    BY <1>0, <2>1, ReplyTyped, SignalsKeepSuspend DEF Released
  <2> QED BY <2>1, <2>2 DEF Balancing
<1>8. CASE Balance
  <2>1. /\ side.pc = "balance" /\ side'.pc = "watching" /\ conf' = conf
        /\ task' = IF conf.sigcontBlocked THEN task_resume(task) ELSE task
    BY <1>8, ToPc DEF Balance, Balanced, At
  <2> QED BY <1>0, <2>1, SuspendCounts DEF Balancing
<1> QED BY <1>1, <1>2, <1>3, <1>4, <1>5, <1>6, <1>7, <1>8 DEF Debugger

LEMMA SidecarBalances ==
  ASSUME Typed, Waiting, Balancing, GiveUp \/ Killed \/ Sidecar
  PROVE  Balancing'
<1>1. CASE GiveUp \/ ReceiveTimeout \/ ExecLate \/ Leave \/ ExitSeen
  BY <1>1, GiveUpExits, ExitFields DEF ReceiveTimeout, ExecLate, Leave, ExitSeen, Balancing
<1>2. CASE Killed
  BY <1>2, KilledFields DEF Balancing
<1>3. CASE \/ Register \/ Receive \/ Adopt \/ FindRuntime \/ Locate \/ WriteHandler \/ PatchTranslate
           \/ SkipDecode \/ PatchDecode \/ RestoreDecode \/ Spawn \/ SpawnFails
           \/ ReleaseReply \/ RestoreEntry \/ AbandonHook
  <2>1. /\ UNCHANGED <<conf, task>>
        /\ side.pc \notin {"gone", "answer", "cont", "resume", "ports", "detach", "kept", "balance"}
    BY <1>3 DEF Register, Receive, Adopt, FindRuntime, Locate, WriteHandler, PatchTranslate,
                SkipDecode, PatchDecode, RestoreDecode, Spawn, SpawnFails, ReleaseReply,
                RestoreEntry, AbandonHook, At
  <2> QED BY <2>1, BalancingKept
<1> QED BY <1>1, <1>2, <1>3, AttachBalances, DebuggerBalances DEF Sidecar

SuspendInv == Typed /\ Ready /\ Waiting /\ Balancing

LEMMA SuspendInvInductive == SuspendInv /\ [Next]_vars => SuspendInv'
<1> SUFFICES ASSUME SuspendInv, [Next]_vars PROVE SuspendInv'
  OBVIOUS
<1> USE DEF SuspendInv
<1>1. CASE Next
  BY <1>1, StepKeepsTyped, StepKeepsReady, StepKeepsWaiting, OthersBalance, SidecarBalances DEF Next
<1>2. CASE UNCHANGED vars
  BY <1>2 DEF vars, Typed, Ready, Waiting, Balancing
<1> QED BY <1>1, <1>2

\* The default attach leaves no suspend behind, whatever comes late, is lost or
\* is sent by others.
THEOREM NoSuspendLeft == Spec => []SuspendBalanced
<1>1. Init => SuspendInv
  <2> SUFFICES ASSUME Init PROVE SuspendInv
    OBVIOUS
  <2>1. Balancing
    BY DEF Init, NoTask, NoSide, Balancing
  <2> QED BY <2>1, HookInvInitial DEF HookInv, SuspendInv
<1>2. SuspendInv => SuspendBalanced
  BY DEF SuspendInv, Balancing, SuspendBalanced
<1> QED BY <1>1, <1>2, SuspendInvInductive, PTL DEF Spec

-----------------------------------------------------------------------------
(* A target that was stopped on SIGCONT is left alone *)

LEMMA KillFields ==
  ASSUME NEW t \in Task, NEW s \in SoftSignals \ {Stop}
  PROVE  LET new == kill(t, s) IN
         /\ new.traced = t.traced /\ new.raised = t.raised /\ new.held = t.held
         /\ new.planted = t.planted
         /\ Stop \in new.pending => Stop \in t.pending
         /\ new.stopped => t.stopped
         /\ s = Cont => Stop \notin new.pending /\ ~new.stopped
BY DEF Task, kill, SoftSignals, Stop, Trap, Cont, Other

LEMMA TakeFields ==
  ASSUME NEW t \in Task, NEW s \in t.pending
  PROVE  LET new == Take(t, s) IN
         /\ new.traced = t.traced /\ new.held = t.held /\ new.planted = t.planted
         /\ new.raised = t.raised \/ t.traced
         /\ Stop \in new.pending => Stop \in t.pending
         /\ new.stopped => t.stopped \/ Stop \in t.pending
BY DEF Task, Take, Raise, Default

LEMMA AnswerFields ==
  ASSUME NEW t \in Task
  PROVE  /\ reply(t).traced = t.traced /\ reply(t).planted = t.planted
         /\ reply(t).pending = t.pending /\ reply(t).stopped = t.stopped
         /\ t.held => reply(t).raised = None
         /\ waitForEvent(t).traced = t.traced /\ waitForEvent(t).planted = t.planted
         /\ waitForEvent(t).pending = t.pending /\ waitForEvent(t).stopped = t.stopped
         /\ waitForEvent(t).raised = t.raised /\ waitForEvent(t).held
BY DEF Task, reply, waitForEvent

LEMMA CountFields ==
  ASSUME NEW t \in Task, NEW new \in {task_suspend(t), task_resume(t)}
  PROVE  /\ new.traced = t.traced /\ new.planted = t.planted /\ new.pending = t.pending
         /\ new.stopped = t.stopped /\ new.raised = t.raised /\ new.held = t.held
BY DEF Task, task_suspend, task_resume

\* Nobody but the sidecar answers an exception or attaches.
LEMMA DetachedAnyhow ==
  ASSUME Detached, conf' = conf,
         side'.pc = side.pc \/ (side.pc = "none" /\ side'.pc = "start"),
         side'.gotSigcont = side.gotSigcont,
         task'.traced = task.traced, task'.planted = task.planted,
         Stop \in task'.pending => Stop \in task.pending,
         task'.stopped => task.stopped \/ Stop \in task.pending,
         task.raised # None => task'.raised = task.raised /\ task'.held = task.held,
         task'.raised # None => task.raised # None \/ task.traced \/ task.planted
  PROVE  Detached'
BY NoneAssumption DEF Detached, Before, Attached

LEMMA OthersLeave ==
  ASSUME Typed, Ready, Detached,
         Refuse \/ Prepare \/ Fork \/ Original \/ Child \/ Target \/ OtherSignal \/ TargetExits
  PROVE  Detached'
<1>0. task \in Task /\ side \in Side
  BY DEF Typed
<1>1. CASE Launch \/ OtherSignal
  BY <1>0, <1>1, KillFields, DetachedAnyhow
     DEF Launch, OtherSignal, SoftSignals, Stop, Trap, Other
<1>2. CASE Signalled
  <2>1. task.raised = None
    BY <1>2 DEF Signalled, Runs, Runnable
  <2>2. PICK s \in task.pending : task' = Take(task, s)
    BY <1>2 DEF Signalled
  <2> QED BY <1>0, <1>2, <2>1, <2>2, TakeFields, DetachedAnyhow DEF Signalled
<1>3. CASE HitBreakpoint
  <2>1. task.planted /\ task.raised = None
    BY <1>3 DEF HitBreakpoint, Runnable
  <2>2. /\ task'.traced = task.traced /\ task'.planted = task.planted
        /\ task'.pending = task.pending /\ task'.stopped = task.stopped
    BY <1>0, <1>3 DEF HitBreakpoint, Raise, Task
  <2> QED BY <1>3, <2>1, <2>2, DetachedAnyhow DEF HitBreakpoint
<1>4. CASE \/ Refuse \/ Prepare \/ Fork \/ Read \/ LaunchFails \/ NotAttached \/ LookUp \/ Ask \/ Answered
           \/ TargetExits
  BY <1>4, DetachedAnyhow
     DEF Refuse, Prepare, Fork, Read, LaunchFails, NotAttached, LookUp, Ask, Answered, TargetExits
<1>5. CASE Child
  <2>1. UNCHANGED <<conf, task>>
    BY <1>5 DEF Child, ChildForks, ChildFails, ChildExits
  <2>2. /\ side'.pc = side.pc \/ (side.pc = "none" /\ side'.pc = "start")
        /\ side'.gotSigcont = side.gotSigcont
    BY <1>0, <1>5 DEF Child, ChildForks, ChildFails, ChildExits, Ready, Side
  <2> QED BY <2>1, <2>2, DetachedAnyhow
<1> QED BY <1>1, <1>2, <1>3, <1>4, <1>5 DEF Original, Target

LEMMA AttachLeaves ==
  ASSUME Typed, Detached,
         \/ Attach \/ AttachStop \/ AttachLate \/ ExecStop \/ PlantBreakpoint
         \/ AwaitBreakpoint \/ BreakpointLate
  PROVE  Detached'
<1>0. task \in Task /\ side \in Side
  BY DEF Typed
<1>1. CASE Attach
  <2> DEFINE t == [install(task) EXCEPT !.traced = TRUE]
  <2>1. t \in Task /\ t.traced /\ t.planted = task.planted
    BY <1>0 DEF install, Task
  <2>2. task' = kill(t, Stop)
    BY <1>1 DEF Attach
  <2>3. task'.traced /\ task'.planted = task.planted
    BY <2>1, <2>2 DEF kill, Task
  <2>4. /\ side.pc = "start" /\ side'.pc = "attach" /\ side'.gotSigcont = side.gotSigcont
        /\ conf' = conf
    BY <1>0, <1>1 DEF Attach, At, To, Side
  <2> QED BY <2>3, <2>4 DEF Detached, Before, Attached
<1>2. CASE AttachStop \/ ExecStop
  <2>1. /\ side.pc \in {"attach", "exec"} /\ side'.pc \in {"exec", "runtime"}
        /\ side'.gotSigcont = side.gotSigcont /\ conf' = conf
    BY <1>0, <1>2 DEF AttachStop, ExecStop, At, To, Side
  <2>2. task'.traced = task.traced /\ task'.planted = task.planted
    BY <1>0, <1>2, ReplyTyped, AnswerFields DEF AttachStop, ExecStop
  <2> QED BY <2>1, <2>2 DEF Detached, Before, Attached
<1>3. CASE AttachLate
  <2>1. side'.pc = "gone" /\ UNCHANGED <<conf, task>>
    BY <1>0, <1>3 DEF AttachLate, Side
  <2> QED BY <2>1 DEF Detached, Before, Attached
<1>4. CASE PlantBreakpoint
  <2> DEFINE t == [task EXCEPT !.planted = TRUE]
  <2>1. t \in Task /\ t.traced = task.traced
    BY <1>0 DEF Task
  <2>2. task'.traced = task.traced
    BY <1>0, <1>4, <2>1, AnswerFields DEF PlantBreakpoint
  <2>3. /\ side.pc = "barrier" /\ side'.pc = "breakpoint" /\ side'.gotSigcont = side.gotSigcont
        /\ conf' = conf
    BY <1>0, <1>4 DEF PlantBreakpoint, At, To, Side
  <2> QED BY <2>2, <2>3 DEF Detached, Before, Attached
<1>5. CASE AwaitBreakpoint \/ BreakpointLate
  <2>1. /\ side.pc = "breakpoint" /\ side'.pc \in {"breakpoint", "locate"}
        /\ side'.gotSigcont = side.gotSigcont /\ conf' = conf
    BY <1>0, <1>5 DEF AwaitBreakpoint, BreakpointLate, At, To, Side
  <2>2. \A t \in Task : LET new == [t EXCEPT !.planted = FALSE] IN
          new.traced = t.traced /\ ~new.planted
    BY DEF Task
  <2>3. task'.traced = task.traced /\ (side'.pc = "breakpoint" \/ ~task'.planted)
    <3>1. waitForEvent(task) \in Task /\ waitForEvent(task).traced = task.traced
      BY <1>0, ReplyTyped, AnswerFields
    <3>2. CASE task' = reply(waitForEvent(task)) /\ side' = side
      BY <2>1, <3>1, <3>2, AnswerFields
    <3>3. CASE \/ task' = [waitForEvent(task) EXCEPT !.planted = FALSE]
               \/ task' = [task EXCEPT !.planted = FALSE]
      BY <1>0, <2>2, <3>1, <3>3
    <3> QED BY <1>5, <3>2, <3>3 DEF AwaitBreakpoint, BreakpointLate
  <2> QED BY <2>1, <2>3 DEF Detached, Before, Attached
<1> QED BY <1>1, <1>2, <1>3, <1>4, <1>5

LEMMA PatchLeaves ==
  ASSUME Typed, Detached,
         \/ Register \/ Receive \/ Adopt \/ FindRuntime \/ Locate \/ WriteHandler \/ PatchTranslate
         \/ SkipDecode \/ PatchDecode \/ RestoreDecode \/ Spawn \/ SpawnFails
         \/ ReleaseReply \/ RestoreEntry \/ AbandonHook
  PROVE  Detached'
<1>0. side \in Side
  BY DEF Typed
<1>1. CASE Register \/ ReleaseReply \/ RestoreEntry \/ AbandonHook
  BY <1>1 DEF Register, ReleaseReply, RestoreEntry, AbandonHook, Detached
<1>2. CASE Receive \/ Adopt
  BY <1>2 DEF Receive, Adopt, At, Detached
<1>3. CASE \/ FindRuntime \/ Locate \/ WriteHandler \/ PatchTranslate \/ SkipDecode \/ PatchDecode
           \/ RestoreDecode \/ Spawn \/ SpawnFails
  <2>1. UNCHANGED <<conf, task>> /\ side.pc \in Before \ {"breakpoint"}
    BY <1>3 DEF FindRuntime, Locate, WriteHandler, PatchTranslate, SkipDecode, PatchDecode,
                RestoreDecode, Spawn, SpawnFails, At, Before
  <2>2. side'.pc \in Before \cup {"rollback"} /\ side'.gotSigcont = side.gotSigcont
    BY <1>0, <1>3
       DEF FindRuntime, Locate, WriteHandler, PatchTranslate, SkipDecode, PatchDecode,
           RestoreDecode, Spawn, SpawnFails, To, Abandons, Side, Before
  <2> QED BY <2>1, <2>2 DEF Detached, Before, Attached
<1> QED BY <1>1, <1>2, <1>3

LEMMA ReleaseLeaves ==
  ASSUME Typed, Detached, ReplyFirst \/ SendStop \/ Suspend \/ Answer \/ SendCont \/ Resume
  PROVE  Detached'
<1>0. task \in Task
  BY DEF Typed
<1>1. CASE ReplyFirst \/ SendStop \/ Suspend \/ Answer
  <2>1. /\ side.pc \in {"release", "stop", "suspend", "answer"}
        /\ side'.pc \in {"stop", "catchStop", "answer", "cont", "ports"}
        /\ side'.gotSigcont = side.gotSigcont /\ conf' = conf
    BY <1>1, StepFields DEF ReplyFirst, SendStop, Suspend, Answer
  <2>2. kill(task, Stop).traced = task.traced /\ kill(task, Stop).planted = task.planted
    BY <1>0 DEF kill, Task
  <2>3. task'.traced = task.traced /\ task'.planted = task.planted
    BY <1>0, <1>1, <2>2, StepFields, AnswerFields, CountFields
       DEF ReplyFirst, SendStop, Suspend, Answer
  <2> QED BY <2>1, <2>3 DEF Detached, Before, Attached
<1>2. CASE SendCont
  <2>1. /\ side.pc = "cont" /\ side'.pc = "resume" /\ task' = kill(task, Cont)
        /\ side'.gotSigcont = side.gotSigcont /\ conf' = conf
    BY <1>2, StepFields DEF SendCont, SecondStop
  <2>2. Cont \in SoftSignals \ {Stop}
    BY DEF SoftSignals, Stop, Cont
  <2>3. /\ task'.traced = task.traced /\ task'.planted = task.planted
        /\ Stop \notin task'.pending /\ ~task'.stopped
    BY <1>0, <2>1, <2>2, KillFields
  <2> QED BY <2>1, <2>3 DEF Detached, Before, Attached
<1>3. CASE Resume
  <2>1. /\ side.pc = "resume" /\ side'.pc = "catchCont" /\ task' = task_resume(task)
        /\ side'.gotSigcont = side.gotSigcont /\ conf' = conf
    BY <1>3, StepFields DEF Resume
  <2>2. /\ task'.traced = task.traced /\ task'.planted = task.planted
        /\ task'.pending = task.pending /\ task'.stopped = task.stopped
    BY <1>0, <2>1, CountFields
  <2> QED BY <2>1, <2>2 DEF Detached, Before, Attached
<1> QED BY <1>1, <1>2, <1>3

LEMMA CatchLeaves ==
  ASSUME Typed, Detached, CatchStop \/ CatchCont, ~conf.cooperative
  PROVE  Detached'
<1>0. task \in Task /\ side \in Side
  BY DEF Typed
<1>1. CASE At("catchStop") /\ Catch(Stop, "suspend") /\ task.raised = Stop
  <2>1. ~(Stop = SecondStop)
    BY DEF Stop, SecondStop, Cont
  <2>2. side' = [side EXCEPT !.pc = "suspend", !.gotSigcont = FALSE]
    BY <1>1, <2>1 DEF Catch
  <2>3. side'.pc = "suspend" /\ ~side'.gotSigcont /\ conf' = conf /\ side.pc = "catchStop"
    BY <1>0, <1>1, <2>2 DEF Catch, At, Side
  <2>4. task'.traced = task.traced /\ task'.planted = task.planted
    BY <1>0, <1>1, AnswerFields DEF Catch
  <2> QED BY <2>3, <2>4 DEF Detached, Before, Attached
<1>2. CASE At("catchCont") /\ Catch(SecondStop, "ports") /\ task.raised = Cont
  <2>1. side' = [side EXCEPT !.pc = "ports", !.gotSigcont = TRUE] /\ task' = waitForEvent(task)
    BY <1>2 DEF Catch, SecondStop
  <2>2. side'.pc = "ports" /\ conf' = conf /\ side.pc = "catchCont"
    BY <1>0, <1>2, <2>1 DEF Catch, At, Side
  <2> QED BY <1>0, <1>2, <2>1, <2>2, AnswerFields DEF Detached, Before, Attached
<1>3. CASE \/ At("catchStop") /\ Catch(Stop, "suspend") /\ task.raised # Stop
           \/ At("catchCont") /\ Catch(SecondStop, "ports") /\ task.raised # Cont
  <2>1. /\ side.pc \in {"catchStop", "catchCont"} /\ side'.pc = side.pc
        /\ side'.gotSigcont = side.gotSigcont /\ conf' = conf
        /\ task' = reply(waitForEvent(task))
    BY <1>0, <1>3 DEF Catch, At, SecondStop, Side
  <2>2. /\ task'.traced = task.traced /\ task'.planted = task.planted
        /\ task'.pending = task.pending /\ task'.stopped = task.stopped
    BY <1>0, <2>1, ReplyTyped, AnswerFields
  <2> QED BY <2>1, <2>2 DEF Detached, Before, Attached
<1>4. CASE \/ At("catchStop") /\ CatchFails("suspend")
           \/ At("catchCont") /\ CatchFails("ports")
  <2>1. /\ \/ side.pc = "catchStop" /\ side'.pc = "suspend"
           \/ side.pc = "catchCont" /\ side'.pc = "ports"
        /\ side'.gotSigcont = side.gotSigcont /\ UNCHANGED <<conf, task>>
    BY <1>0, <1>4 DEF CatchFails, At, To, Side
  <2> QED BY <2>1 DEF Detached, Before, Attached
<1> QED BY <1>1, <1>2, <1>3, <1>4 DEF CatchStop, CatchCont, SecondStop

LEMMA DetachLeaves ==
  ASSUME Typed, Detached, RestorePorts \/ Detach \/ ReleaseHeld \/ Balance
  PROVE  Detached'
<1>0. task \in Task /\ side \in Side
  BY DEF Typed
<1>1. CASE RestorePorts
  <2>1. /\ side.pc = "ports" /\ side'.pc = "detach" /\ task' = restoreAndTearDown(task)
        /\ side'.gotSigcont = side.gotSigcont /\ conf' = conf
    BY <1>1, StepFields DEF RestorePorts
  <2>2. /\ task'.traced = task.traced /\ task'.planted = task.planted
        /\ task'.pending = task.pending /\ task'.stopped = task.stopped
        /\ task'.raised = task.raised /\ task'.held = task.held
    BY <1>0, <2>1 DEF restoreAndTearDown, Task
  <2> QED BY <2>1, <2>2 DEF Detached, Before, Attached
<1>2. CASE Detachable(task) /\ Step("detach", "released", PT_DETACH(task))
  <2> DEFINE t == [task EXCEPT !.traced = FALSE]
  <2>1. /\ t \in Task /\ ~t.traced /\ t.planted = task.planted
        /\ t.pending = task.pending /\ t.stopped = task.stopped
        /\ t.raised = task.raised /\ t.held = task.held
    BY <1>0 DEF Task
  <2>2. /\ side.pc = "detach" /\ side'.pc = "released" /\ task' = task_resume(t)
        /\ side'.gotSigcont = side.gotSigcont /\ conf' = conf
    BY <1>2, StepFields DEF PT_DETACH
  <2> HIDE DEF t
  <2>3. /\ ~task'.traced /\ task'.planted = task.planted
        /\ task'.pending = task.pending /\ task'.stopped = task.stopped
        /\ task'.raised = task.raised /\ task'.held = task.held
    BY <2>1, <2>2, CountFields
  <2> QED BY <2>2, <2>3 DEF Detached, Before, Attached
<1>3. CASE ~Detachable(task) /\ Step("detach", "kept", task)
  <2>1. /\ side.pc = "detach" /\ side'.pc = "kept" /\ task' = task
        /\ side'.gotSigcont = side.gotSigcont /\ conf' = conf /\ ~conf.cooperative
    BY <1>3, StepFields
  <2>2. ~side.gotSigcont
    BY <1>3, <2>1 DEF Detached, Before, Attached, Detachable, SoftSignals
  <2> QED BY <2>1, <2>2 DEF Detached, Before, Attached
<1>4. CASE ReleaseHeld
  <2>1. /\ side.pc \in {"released", "kept"} /\ side'.pc = "balance"
        /\ side'.gotSigcont = side.gotSigcont /\ conf' = conf /\ ~conf.cooperative
        /\ task' \in {reply(task), Default(reply(task), task.raised)}
    BY <1>4, StepFields DEF ReleaseHeld, Released
  <2>2. /\ task'.traced = task.traced /\ task'.planted = task.planted
        /\ task'.pending = task.pending
        /\ task.raised # Stop => task'.stopped = task.stopped
        /\ task.held => task'.raised = None
    <3>1. \A t \in Task : \A s :
            /\ Default(t, s).traced = t.traced /\ Default(t, s).planted = t.planted
            /\ Default(t, s).pending = t.pending /\ Default(t, s).raised = t.raised
            /\ s # Stop => Default(t, s).stopped = t.stopped
      BY DEF Default, Task
    <3> QED BY <1>0, <2>1, <3>1, ReplyTyped, AnswerFields
  <2> QED BY <2>1, <2>2 DEF Detached, Before, Attached, Stop, Cont
<1>5. CASE Balance
  <2>1. /\ side.pc = "balance" /\ side'.pc = "watching" /\ conf' = conf
        /\ side'.gotSigcont = side.gotSigcont
        /\ task' = task \/ task' = task_resume(task)
    BY <1>0, <1>5 DEF Balance, Balanced, At, To, Side
  <2>2. /\ task'.traced = task.traced /\ task'.planted = task.planted
        /\ task'.pending = task.pending /\ task'.stopped = task.stopped
        /\ task'.raised = task.raised
    BY <1>0, <2>1, CountFields
  <2> QED BY <2>1, <2>2 DEF Detached, Before, Attached
<1> QED BY <1>1, <1>2, <1>3, <1>4, <1>5 DEF Detach

LEMMA SidecarLeaves ==
  ASSUME Typed, Detached, GiveUp \/ Killed \/ Sidecar
  PROVE  Detached'
<1>1. CASE Exit /\ UNCHANGED <<conf, task>>
  BY <1>1, ExitFields DEF Detached, Before, Attached
<1>2. CASE GiveUp \/ ReceiveTimeout \/ ExecLate \/ Leave \/ ExitSeen
  BY <1>1, <1>2, GiveUpExits DEF ReceiveTimeout, ExecLate, Leave, ExitSeen
<1>3. CASE Killed
  <2>1. side'.pc = "gone" /\ UNCHANGED <<conf, task>>
    BY <1>3, KilledFields DEF Killed
  <2> QED BY <2>1 DEF Detached, Before, Attached
<1>4. CASE Debugger
  <2>1. CASE CatchStop \/ CatchCont
    <3>1. CASE conf.cooperative
      BY <2>1, <3>1 DEF CatchStop, CatchCont, Catch, CatchFails, Detached
    <3>2. CASE ~conf.cooperative
      BY <2>1, <3>2, ConfTyped, CatchLeaves
    <3> QED BY <3>1, <3>2
  <2> QED BY <1>4, <2>1, ReleaseLeaves, DetachLeaves DEF Debugger
<1> QED BY <1>2, <1>3, <1>4, AttachLeaves, PatchLeaves DEF Sidecar

DetachInv == Typed /\ Ready /\ Detached

LEMMA DetachInvInductive == DetachInv /\ [Next]_vars => DetachInv'
<1> SUFFICES ASSUME DetachInv, [Next]_vars PROVE DetachInv'
  OBVIOUS
<1> USE DEF DetachInv
<1>1. CASE Next
  BY <1>1, StepKeepsTyped, StepKeepsReady, OthersLeave, SidecarLeaves DEF Next
<1>2. CASE UNCHANGED vars
  BY <1>2 DEF vars, Typed, Ready, Detached
<1> QED BY <1>1, <1>2

\* A target that was stopped on SIGCONT is not traced afterwards, and neither
\* stopped nor stuck in an exception, whatever signals others send meanwhile.
THEOREM TargetLeftAlone == Spec => []LeftAlone
<1>1. Init => DetachInv
  <2> SUFFICES ASSUME Init PROVE DetachInv
    OBVIOUS
  <2>1. Detached
    BY DEF Init, NoTask, NoSide, Detached, Before, Attached
  <2> QED BY <2>1, HookInvInitial DEF HookInv, DetachInv
<1>2. DetachInv => LeftAlone
  BY DEF DetachInv, Detached, LeftAlone
<1> QED BY <1>1, <1>2, DetachInvInductive, PTL DEF Spec

-----------------------------------------------------------------------------
(* Types and bounds *)

\* Behind the suspend of the release, which there is one of.
Suspended == {"answer", "cont", "resume", "catchCont", "watching", "gone"} \cup Detaching
Bounded ==
  /\ faults \in 0 .. MaxFaults
  /\ side.events \in 0 .. MaxEvents
  /\ task.suspend \in 0 .. 1 /\ (side.pc \notin Suspended => task.suspend = 0)
  /\ task.held => task.raised # None
  /\ others \in 0 .. MaxOther
  /\ said \subseteq {"banner", "notice", "unanswered"}

\* A call that fails uses up a fault.
LEMMA FailsBounded ==
  ASSUME Bounded, Fails \/ faults' = faults
  PROVE  faults' \in 0 .. MaxFaults
BY BoundsAssumption DEF Bounded, Fails

\* A step that leaves the task's exception and suspend count alone.
LEMMA BoundedAnyhow ==
  ASSUME Typed, Bounded, faults' \in 0 .. MaxFaults, others' \in 0 .. MaxOther,
         said' \subseteq {"banner", "notice", "unanswered"},
         side'.events \in {0, side.events},
         side'.pc = side.pc \/ side'.pc \in Suspended \/ side.pc \notin Suspended,
         task'.suspend = task.suspend,
         task'.held => task'.raised # None
  PROVE  Bounded'
<1>1. side'.events \in 0 .. MaxEvents
  BY BoundsAssumption DEF Bounded
<1> QED BY <1>1 DEF Bounded

\* What keeps a held exception raised.
LEMMA HeldRaised ==
  ASSUME NEW t \in Task, t.held => t.raised # None
  PROVE  /\ \A s : /\ kill(t, s).held => kill(t, s).raised # None
                   /\ Default(t, s).held => Default(t, s).raised # None
         /\ ~reply(t).held
         /\ t.raised # None => waitForEvent(t).held /\ waitForEvent(t).raised # None
         /\ \A s \in SoftSignals \cup {Brk} : Raise(t, s).raised # None
         /\ \A s \in t.pending : Take(t, s).held => Take(t, s).raised # None
<1>1. \A s \in SoftSignals \cup {Brk} : s # None
  BY NoneAssumption DEF SoftSignals
<1>2. /\ \A s : /\ kill(t, s).held => kill(t, s).raised # None
                /\ Default(t, s).held => Default(t, s).raised # None
      /\ ~reply(t).held
      /\ t.raised # None => waitForEvent(t).held /\ waitForEvent(t).raised # None
  BY DEF Task, kill, Default, reply, waitForEvent
<1>3. \A s \in SoftSignals \cup {Brk} : Raise(t, s).raised # None
  BY <1>1 DEF Task, Raise
<1>4. ASSUME NEW s \in t.pending PROVE Take(t, s).held => Take(t, s).raised # None
  <2>1. s \in SoftSignals
    BY DEF Task
  <2> QED BY <1>1, <2>1 DEF Task, Take, Raise, Default
<1> QED BY <1>2, <1>3, <1>4

LEMMA OthersBounded ==
  ASSUME Typed, Ready, Bounded,
         Refuse \/ Prepare \/ Fork \/ Original \/ Child \/ Target \/ OtherSignal \/ TargetExits
  PROVE  Bounded'
<1>0. task \in Task /\ side \in Side /\ (task.held => task.raised # None)
  BY DEF Typed, Bounded
<1>1. CASE Launch \/ OtherSignal
  <2>1. /\ task'.suspend = task.suspend /\ (task'.held => task'.raised # None)
    BY <1>0, <1>1, SignalsKeepSuspend, HeldRaised DEF Launch, OtherSignal
  <2>2. others' \in 0 .. MaxOther
    BY <1>1, BoundsAssumption DEF Launch, OtherSignal, Bounded
  <2> QED BY <1>1, <2>1, <2>2, BoundedAnyhow DEF Launch, OtherSignal, Bounded
<1>2. CASE Signalled
  <2>1. PICK s \in task.pending : task' = Take(task, s)
    BY <1>2 DEF Signalled
  <2>2. /\ task'.suspend = task.suspend /\ (task'.held => task'.raised # None)
    BY <1>0, <2>1, TakeKeepsSuspend, HeldRaised
  <2> QED BY <1>2, <2>2, BoundedAnyhow DEF Signalled, Bounded
<1>3. CASE HitBreakpoint
  <2>1. /\ task'.suspend = task.suspend /\ (task'.held => task'.raised # None)
    BY <1>0, <1>3, SignalsKeepSuspend, HeldRaised DEF HitBreakpoint
  <2> QED BY <1>3, <2>1, BoundedAnyhow DEF HitBreakpoint, Bounded
<1>4. CASE Refuse \/ Prepare \/ Fork \/ Read \/ LaunchFails \/ NotAttached
  <2>1. UNCHANGED <<side, task, others>> /\ (Fails \/ faults' = faults)
    BY <1>4 DEF Refuse, Prepare, Fork, Read, LaunchFails, NotAttached
  <2>2. said' \subseteq {"banner", "notice", "unanswered"}
    BY <1>4 DEF Refuse, Prepare, Fork, Read, LaunchFails, NotAttached, notLaunching, runUnhooked,
                Bounded
  <2> QED BY <1>0, <2>1, <2>2, FailsBounded, BoundedAnyhow DEF Bounded
<1>5. CASE LookUp \/ Ask \/ Answered \/ TargetExits
  <2>1. UNCHANGED <<side, task, others, faults, said>>
    BY <1>5 DEF LookUp, Ask, Answered, TargetExits
  <2> QED BY <2>1 DEF Bounded
<1>6. CASE Child
  <2>1. UNCHANGED <<task, others, said>> /\ (Fails \/ faults' = faults)
    BY <1>6 DEF Child, ChildForks, ChildFails, ChildExits
  <2>2. side'.events = side.events /\ (side'.pc = side.pc \/ side.pc = "none")
    BY <1>0, <1>6 DEF Child, ChildForks, ChildFails, ChildExits, Ready, Side
  <2> QED BY <1>0, <2>1, <2>2, FailsBounded, BoundedAnyhow DEF Bounded, Suspended, Detaching
<1> QED BY <1>1, <1>2, <1>3, <1>4, <1>5, <1>6 DEF Original, Target

LEMMA AttachBounded ==
  ASSUME Typed, Bounded,
         \/ Attach \/ AttachStop \/ AttachLate \/ ExecStop \/ PlantBreakpoint
         \/ AwaitBreakpoint \/ BreakpointLate
  PROVE  Bounded'
<1>0. task \in Task /\ side \in Side /\ (task.held => task.raised # None)
  BY DEF Typed, Bounded
<1>1. /\ UNCHANGED <<others, said>> /\ (Fails \/ faults' = faults)
      /\ side.pc \in {"start", "attach", "exec", "barrier", "breakpoint"}
  BY DEF Attach, AttachStop, AttachLate, ExecStop, PlantBreakpoint, AwaitBreakpoint,
         BreakpointLate, At
<1>2. side'.events = side.events
  BY <1>0 DEF Attach, AttachStop, AttachLate, ExecStop, PlantBreakpoint, AwaitBreakpoint,
              BreakpointLate, To, Side
<1>3. task'.suspend = task.suspend /\ (task'.held => task'.raised # None)
  <2>1. CASE Attach
    <3> DEFINE t == [install(task) EXCEPT !.traced = TRUE]
    <3>1. t \in Task /\ t.suspend = task.suspend /\ (t.held => t.raised # None)
      BY <1>0 DEF install, Task
    <3>2. task' = kill(t, Stop)
      BY <2>1 DEF Attach
    <3> HIDE DEF t
    <3> QED BY <3>1, <3>2, SignalsKeepSuspend, HeldRaised
  <2>2. CASE PlantBreakpoint
    <3> DEFINE t == [task EXCEPT !.planted = TRUE]
    <3>1. t \in Task /\ t.suspend = task.suspend /\ (t.held => t.raised # None)
      BY <1>0 DEF Task
    <3>2. task' = reply(t) \/ task' = reply(task)
      BY <2>2 DEF PlantBreakpoint
    <3> HIDE DEF t
    <3> QED BY <1>0, <3>1, <3>2, SignalsKeepSuspend, HeldRaised
  <2>3. CASE AttachStop \/ ExecStop \/ AwaitBreakpoint
    <3>1. task.raised # None
      BY <2>3 DEF AttachStop, ExecStop, AwaitBreakpoint, Waits
    <3>2. /\ waitForEvent(task) \in Task /\ waitForEvent(task).suspend = task.suspend
          /\ waitForEvent(task).held /\ waitForEvent(task).raised # None
      BY <1>0, <3>1, ReplyTyped, SignalsKeepSuspend, HeldRaised
    <3>3. /\ reply(waitForEvent(task)).suspend = task.suspend
          /\ ~reply(waitForEvent(task)).held
      BY <3>2, SignalsKeepSuspend, HeldRaised
    <3>4. \A t \in Task : LET u == [t EXCEPT !.planted = FALSE]
                           IN  u.suspend = t.suspend /\ u.held = t.held /\ u.raised = t.raised
      BY DEF Task
    <3>5. CASE task' \in {waitForEvent(task), reply(waitForEvent(task))}
      BY <3>2, <3>3, <3>5
    <3>6. CASE task' = [waitForEvent(task) EXCEPT !.planted = FALSE]
      BY <3>2, <3>4, <3>6
    <3> QED BY <2>3, <3>5, <3>6 DEF AttachStop, ExecStop, AwaitBreakpoint
  <2>4. CASE AttachLate \/ BreakpointLate
    BY <1>0, <2>4 DEF AttachLate, BreakpointLate, Task
  <2> QED BY <2>1, <2>2, <2>3, <2>4
<1>4. side.pc \notin Suspended
  BY <1>1 DEF Suspended, Detaching
<1> QED BY <1>1, <1>2, <1>3, <1>4, FailsBounded, BoundedAnyhow DEF Bounded

\* A step of the patch: no exception, no event, no suspend.
Patches ==
  /\ UNCHANGED <<task, others, said>> /\ (Fails \/ faults' = faults)
  /\ side'.events = side.events /\ side.pc \notin Suspended

LEMMA WriteSteps ==
  ASSUME Typed
  PROVE  PatchTranslate \/ PatchDecode \/ RestoreDecode \/ RestoreEntry => Patches
<1> USE DEF Patches, writeText, At, Suspended, Detaching
<1>0. side \in Side
  BY DEF Typed
<1>1. ASSUME PatchTranslate PROVE Patches
  <2>1. side'.events = side.events
    BY <1>0, <1>1 DEF PatchTranslate, Side
  <2> QED BY <1>1, <2>1 DEF PatchTranslate
<1>2. ASSUME PatchDecode PROVE Patches
  <2>1. side'.events = side.events
    BY <1>0, <1>2 DEF PatchDecode, Side
  <2> QED BY <1>2, <2>1 DEF PatchDecode
<1>3. ASSUME RestoreEntry PROVE Patches
  <2>1. side'.events = side.events
    BY <1>0, <1>3 DEF RestoreEntry, Side
  <2> QED BY <1>3, <2>1 DEF RestoreEntry
<1>4. ASSUME RestoreDecode PROVE Patches
  BY <1>0, <1>4 DEF RestoreDecode, To, Side
<1> QED BY <1>1, <1>2, <1>3, <1>4

LEMMA PatchBounded ==
  ASSUME Typed, Bounded,
         \/ Register \/ Receive \/ Adopt \/ FindRuntime \/ Locate \/ WriteHandler
         \/ PatchTranslate \/ SkipDecode \/ PatchDecode \/ RestoreDecode \/ Spawn \/ SpawnFails
         \/ ReleaseReply \/ RestoreEntry \/ AbandonHook
  PROVE  Bounded'
<1>0. side \in Side
  BY DEF Typed
<1>1. CASE \/ Register \/ Receive \/ Adopt \/ FindRuntime \/ Locate \/ WriteHandler
           \/ SkipDecode \/ Spawn \/ SpawnFails \/ ReleaseReply \/ AbandonHook
  <2>1. /\ UNCHANGED <<task, others>> /\ (Fails \/ faults' = faults)
        /\ said' = said \/ said' = said \cup {"unanswered"}
    BY <1>1 DEF Register, Receive, Adopt, FindRuntime, Locate, WriteHandler, SkipDecode, Spawn,
                SpawnFails, ReleaseReply, AbandonHook, Send
  <2>2. side'.events = side.events
    BY <1>0, <1>1
       DEF Register, Receive, Adopt, FindRuntime, Locate, WriteHandler, SkipDecode, Spawn,
           SpawnFails, ReleaseReply, AbandonHook, To, Launching, Side
  <2>3. side.pc \notin Suspended
    BY <1>1 DEF Register, Receive, Adopt, FindRuntime, Locate, WriteHandler, SkipDecode, Spawn,
                SpawnFails, ReleaseReply, AbandonHook, At, Suspended, Detaching
  <2> QED BY <2>1, <2>2, <2>3, FailsBounded, BoundedAnyhow DEF Bounded
<1>2. CASE PatchTranslate \/ PatchDecode \/ RestoreDecode \/ RestoreEntry
  BY <1>2, WriteSteps, FailsBounded, BoundedAnyhow DEF Bounded, Patches
<1> QED BY <1>1, <1>2

LEMMA LeavingBounded ==
  ASSUME Typed, Bounded,
         GiveUp \/ Killed \/ ReceiveTimeout \/ ExecLate \/ Leave \/ ExitSeen
  PROVE  Bounded'
<1>0. side \in Side
  BY DEF Typed
<1>1. UNCHANGED <<task, others>> /\ (Fails \/ faults' = faults)
  BY DEF GiveUp, Killed, ReceiveTimeout, ExecLate, Leave, ExitSeen
<1>2. said' \subseteq {"banner", "notice", "unanswered"}
  BY DEF GiveUp, Killed, ReceiveTimeout, ExecLate, Leave, ExitSeen, Exit, Argv, Bounded
<1>3. side'.pc = "gone" /\ side'.events = side.events
  BY <1>0
     DEF GiveUp, Killed, ReceiveTimeout, ExecLate, Leave, ExitSeen, Exit, Argv, Side
<1> QED BY <1>1, <1>2, <1>3, FailsBounded, BoundedAnyhow DEF Bounded, Suspended

LEMMA CatchBounded ==
  ASSUME Typed, Bounded, NEW expected, NEW next \in {"suspend", "ports"},
         \/ side.pc = "catchStop" /\ next = "suspend"
         \/ side.pc = "catchCont" /\ next = "ports",
         Catch(expected, next) \/ CatchFails(next)
  PROVE  Bounded'
<1>0. task \in Task /\ side \in Side /\ (task.held => task.raised # None)
  BY DEF Typed, Bounded
<1>1. CASE CatchFails(next)
  <2>1. side'.pc = next /\ side'.events = side.events
    BY <1>0, <1>1 DEF CatchFails, To, Side
  <2> QED BY <1>0, <1>1, <2>1, BoundedAnyhow DEF CatchFails, Bounded, Suspended, Detaching
<1>2. CASE Catch(expected, next)
  <2>1. task'.suspend = task.suspend /\ (task'.held => task'.raised # None)
    BY <1>0, <1>2, ReplyTyped, SignalsKeepSuspend, HeldRaised DEF Catch, Waits
  <2>2. /\ side'.events \in {side.events, side.events + 1} /\ side.events < MaxEvents
        /\ side'.pc \in {side.pc, next}
    BY <1>0, <1>2 DEF Catch, EventsLeft, Side
  <2>3. side'.events \in 0 .. MaxEvents
    BY <2>2, BoundsAssumption DEF Bounded
  <2> QED BY <1>2, <2>1, <2>2, <2>3 DEF Catch, Bounded, Suspended, Detaching
<1> QED BY <1>1, <1>2

\* One step of the release.
LEMMA DebuggerStepBounded ==
  ASSUME Typed, Bounded, NEW from, NEW to, NEW new, Step(from, to, new),
         new.suspend \in 0 .. 1, to \notin Suspended => new.suspend = 0,
         new.held => new.raised # None
  PROVE  Bounded'
<1>1. side'.pc = to /\ side'.events = 0 /\ task' = new /\ UNCHANGED <<faults, others, said>>
  BY DEF Typed, Side, Step
<1> QED BY <1>1, BoundsAssumption DEF Bounded

LEMMA DebuggerBounded ==
  ASSUME Typed, Bounded, Debugger
  PROVE  Bounded'
<1>0. /\ task \in Task /\ side \in Side /\ (task.held => task.raised # None)
      /\ task.suspend \in 0 .. 1 /\ task.suspend \in Nat
      /\ side.pc \in {"release", "stop", "suspend"} => task.suspend = 0
  BY DEF Typed, Bounded, Suspended, Detaching
<1>1. /\ reply(task).suspend = task.suspend /\ ~reply(task).held
      /\ \A s : /\ kill(task, s).suspend = task.suspend
                /\ kill(task, s).held => kill(task, s).raised # None
  BY <1>0, SignalsKeepSuspend, HeldRaised
<1>2. CASE ReplyFirst
  BY <1>0, <1>1, <1>2, StepFields, DebuggerStepBounded DEF ReplyFirst
<1>3. CASE SendStop
  BY <1>0, <1>1, <1>3, StepFields, DebuggerStepBounded DEF SendStop
<1>4. CASE CatchStop
  BY <1>4, CatchBounded DEF CatchStop, At
<1>5. CASE Suspend
  <2>1. /\ task_suspend(task).suspend = 1
        /\ task_suspend(task).held => task_suspend(task).raised # None
    BY <1>0, <1>5, StepFields, SuspendCounts, CountFields DEF Suspend
  <2> QED BY <1>5, <2>1, DebuggerStepBounded DEF Suspend, Suspended
<1>6. CASE Answer
  BY <1>0, <1>1, <1>6, DebuggerStepBounded DEF Answer, Suspended, Detaching
<1>7. CASE SendCont
  BY <1>0, <1>1, <1>7, DebuggerStepBounded DEF SendCont, Suspended
<1>8. ASSUME NEW t \in Task, t.suspend \in 0 .. 1, t.held => t.raised # None
      PROVE  /\ task_resume(t).suspend \in 0 .. 1
             /\ task_resume(t).held => task_resume(t).raised # None
  BY <1>8, SuspendCounts, CountFields
<1>9. CASE Resume
  BY <1>0, <1>8, <1>9, DebuggerStepBounded DEF Resume, Suspended
<1>10. CASE CatchCont
  BY <1>10, CatchBounded DEF CatchCont, At
<1>11. CASE RestorePorts
  <2>1. /\ restoreAndTearDown(task).suspend = task.suspend
        /\ restoreAndTearDown(task).held => restoreAndTearDown(task).raised # None
    BY <1>0 DEF restoreAndTearDown, Task
  <2> QED BY <1>0, <1>11, <2>1, DebuggerStepBounded DEF RestorePorts, Suspended, Detaching
<1>12. CASE Detach
  <2> DEFINE t == [task EXCEPT !.traced = FALSE]
  <2>1. t \in Task /\ t.suspend \in 0 .. 1 /\ (t.held => t.raised # None)
    BY <1>0 DEF Task
  <2>2. PT_DETACH(task) = task_resume(t)
    BY DEF PT_DETACH
  <2> HIDE DEF t
  <2>3. /\ PT_DETACH(task).suspend \in 0 .. 1
        /\ PT_DETACH(task).held => PT_DETACH(task).raised # None
    BY <1>8, <2>1, <2>2
  <2> QED BY <1>0, <1>12, <2>3, DebuggerStepBounded DEF Detach, Suspended, Detaching
<1>13. CASE ReleaseHeld
  <2>1. \A s : Default(reply(task), s).suspend = task.suspend /\ ~Default(reply(task), s).held
    <3>1. reply(task) \in Task
      BY <1>0, ReplyTyped
    <3>2. \A s : Default(reply(task), s).held = reply(task).held
      BY <3>1 DEF Default, Task
    <3> QED BY <1>1, <3>1, <3>2, SignalsKeepSuspend
  <2>2. \/ \E new \in Released(task) : Step("released", "balance", new)
        \/ Step("kept", "balance", reply(task))
    BY <1>13 DEF ReleaseHeld
  <2>3. \A new \in Released(task) \cup {reply(task)} : new.suspend \in 0 .. 1 /\ ~new.held
    BY <1>0, <1>1, <2>1 DEF Released
  <2> QED BY <2>2, <2>3, DebuggerStepBounded DEF Suspended, Detaching
<1>14. CASE Balance
  <2>1. side'.pc = "watching" /\ side'.events = side.events
    BY <1>0, <1>14 DEF Balance, To, Side
  <2>2. task'.suspend \in 0 .. 1 /\ (task'.held => task'.raised # None)
    BY <1>0, <1>8, <1>14 DEF Balance, Balanced
  <2> QED BY <1>14, <2>1, <2>2 DEF Balance, Bounded, Suspended
<1> QED
  BY <1>2, <1>3, <1>4, <1>5, <1>6, <1>7, <1>9, <1>10, <1>11, <1>12, <1>13, <1>14 DEF Debugger

TypeInv == Typed /\ Ready /\ Bounded

LEMMA TypeInvInductive == TypeInv /\ [Next]_vars => TypeInv'
<1> SUFFICES ASSUME TypeInv, [Next]_vars PROVE TypeInv'
  OBVIOUS
<1> USE DEF TypeInv
<1>1. CASE Next
  BY <1>1, StepKeepsTyped, StepKeepsReady, OthersBounded, AttachBounded, PatchBounded,
     LeavingBounded, DebuggerBounded DEF Next, Sidecar
<1>2. CASE UNCHANGED vars
  BY <1>2 DEF vars, Typed, Ready, Bounded
<1> QED BY <1>1, <1>2

\* What each part of the loader's state may be: the target is suspended once at
\* most, and what its debugger holds was raised.
THEOREM TypeCorrect == Spec => []TypeOK
<1>1. Init => TypeInv
  <2> SUFFICES ASSUME Init PROVE TypeInv
    OBVIOUS
  <2>1. Bounded
    BY BoundsAssumption DEF Init, NoTask, NoSide, Bounded
  <2> QED BY <2>1, HookInvInitial DEF HookInv, TypeInv
<1>2. TypeInv => TypeOK
  <2> SUFFICES ASSUME TypeInv PROVE TypeOK
    OBVIOUS
  <2>1. task.pending \subseteq SoftSignals
    BY DEF TypeInv, Typed, Task
  <2>2. pipe.byte \in {None, "x", "n"} /\ pipe.writers \subseteq {"child", "sidecar"}
    BY DEF TypeInv, Typed, Pipe
  <2> QED BY <2>1, <2>2 DEF TypeInv, Typed, Bounded, TypeOK
<1> QED BY <1>1, <1>2, TypeInvInductive, PTL DEF Spec
=============================================================================
