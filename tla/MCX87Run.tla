----------------------------- MODULE MCX87Run -----------------------------
(* X87Run on one-bit values: enough to tell any two registers apart in     *)
(* some state, with a subtraction that does not commute.                   *)
EXTENDS X87Run

MCAdd(a, b) == IF a = b THEN 0 ELSE 1
MCSub(a, b) == IF a = 1 /\ b = 0 THEN 1 ELSE 0
MCUn(a) == 1 - a
MCVn(a) == a
MCCmp(a, b) == MCSub(a, b)

\* An image with the stack full and TOP in the middle, and one nearly empty.
MCImages == {
  [top |-> 1, tag |-> [p \in Slots |-> TRUE], cc |-> 1,
   st |-> [p \in Slots |-> IF p = 1 THEN 1 ELSE 0]],
  [top |-> 2, tag |-> [p \in Slots |-> p = 2], cc |-> 0,
   st |-> [p \in Slots |-> IF p = 2 THEN 0 ELSE 1]] }

\* With one value the registers are told apart by their tags alone; runs can
\* be longer and the stack deeper.
MCFirst(a, b) == a
MCSame(a) == a
MCFullImage == {[top |-> 1, tag |-> [p \in Slots |-> TRUE], cc |-> 0,
                 st |-> [p \in Slots |-> 0]]}
=============================================================================
