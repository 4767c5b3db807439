------------------------- MODULE BlockTranslation -------------------------
(***************************************************************************)
(* What stock's translator promises the guest, hooked or not: the code of  *)
(* a block grows by the translations of its next instructions, each        *)
(* exactly once, in order, and of the block as it is now.  The process may *)
(* exit instead.                                                           *)
(***************************************************************************)
EXTENDS Naturals, Sequences

CONSTANTS
  Threads,    \* guest threads that translate
  Programs    \* instruction sequences a block may decode to

VARIABLES
  block,      \* the instructions each thread is translating
  code,       \* the instructions it has code for
  exited      \* the guest process is gone

vars == <<block, code, exited>>

Init ==
  /\ block = [t \in Threads |-> <<>>]
  /\ code = [t \in Threads |-> <<>>]
  /\ exited = FALSE

\* A thread starts on a block, or starts over.
Start(t, p) ==
  /\ ~exited
  /\ block' = [block EXCEPT ![t] = p]
  /\ code' = [code EXCEPT ![t] = <<>>]
  /\ UNCHANGED exited

\* Code for the next instructions, up to the n-th, is added.
Translate(t, n) ==
  /\ ~exited
  /\ n \in Len(code[t]) + 1 .. Len(block[t])
  /\ code' = [code EXCEPT ![t] = SubSeq(block[t], 1, n)]
  /\ UNCHANGED <<block, exited>>

Exit ==
  /\ exited' = TRUE
  /\ UNCHANGED <<block, code>>

Next ==
  \/ \E t \in Threads, p \in Programs : Start(t, p)
  \/ \E t \in Threads : \E n \in 1..Len(block[t]) : Translate(t, n)
  \/ Exit

Spec == Init /\ [][Next]_vars
=============================================================================
