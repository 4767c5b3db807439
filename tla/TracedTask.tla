----------------------------- MODULE TracedTask -----------------------------
(***************************************************************************)
(* The target of the default attach as its debugger sees it: signals that  *)
(* are pending, the one exception that is raised and not answered, the     *)
(* Mach suspend count, and whether it is traced (mach_exception.cpp, and   *)
(* the kernel as docs/internals.md and the comments of detachReplyFirst    *)
(* describe it).  A soft signal that is raised is a signal stop, which     *)
(* lasts until it is answered; a breakpoint is not.                        *)
(***************************************************************************)
EXTENDS Naturals

CONSTANT None   \* no signal, no byte, no message

\* What may be raised: the stops the loader looks for, a signal of somebody
\* else, and the planted BRK.
Stop  == "SIGSTOP"
Trap  == "SIGTRAP"
Cont  == "SIGCONT"
Other == "SIGOTHER"
Brk   == "BRK"
SoftSignals == {Stop, Trap, Cont, Other}

\* traced: P_LTRACED; port: ours is the task's EXC_SOFTWARE port; raised: what
\* is raised, held: waitForEvent has received it; stopped: state T.
NoTask == [traced |-> FALSE, port |-> FALSE, pending |-> {}, raised |-> None,
           held |-> FALSE, suspend |-> 0, stopped |-> FALSE, planted |-> FALSE]

Runnable(t) == t.suspend = 0 /\ ~t.stopped /\ t.raised = None

\* What a signal does that nobody catches.
Default(t, s) == IF s = Stop THEN [t EXCEPT !.stopped = TRUE] ELSE t

kill(t, s) ==
  IF s = Cont THEN [t EXCEPT !.pending = (@ \ {Stop}) \cup {s}, !.stopped = FALSE]
  ELSE [t EXCEPT !.pending = @ \cup {s}]

Raise(t, s) == [t EXCEPT !.raised = s]

\* A pending signal is taken: it stops a traced task for its debugger.
Take(t, s) ==
  LET rest == [t EXCEPT !.pending = @ \ {s}]
  IN  IF t.traced /\ t.port THEN Raise(rest, s) ELSE Default(rest, s)

task_suspend(t) == [t EXCEPT !.suspend = @ + 1]
task_resume(t)  == [t EXCEPT !.suspend = IF @ = 0 THEN 0 ELSE @ - 1]

-----------------------------------------------------------------------------
(* MachExceptionSession *)

install(t) == [t EXCEPT !.port = TRUE]

Waits(t) == t.raised # None /\ ~t.held
waitForEvent(t) == [t EXCEPT !.held = TRUE]

\* The signal is suppressed (PT_THUPDATE 0) and the exception answered.
reply(t) == IF t.held THEN [t EXCEPT !.raised = None, !.held = FALSE] ELSE t

\* What is raised and not received stays on a port nobody listens to any more.
restoreAndTearDown(t) == [t EXCEPT !.port = FALSE]

\* PT_DETACH wants a signal stop, and resumes a suspended task.
Detachable(t) == t.traced /\ t.held /\ t.raised \in SoftSignals
PT_DETACH(t) == task_resume([t EXCEPT !.traced = FALSE])

\* A plain answer to what was held when PT_DETACH succeeded: macOS 27 delivers
\* the signal, others drop it.
Released(t) == {reply(t), Default(reply(t), t.raised)}
=============================================================================
