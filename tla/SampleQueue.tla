----------------------------- MODULE SampleQueue -----------------------------
(***************************************************************************)
(* What the ring between the two threads of the sampler promises: a        *)
(* bounded queue.  A sample that is offered goes in whole, behind the      *)
(* others, or is counted as lost, and that only when there is no room.     *)
(* The reader sees the oldest sample and removes it afterwards.  Nothing   *)
(* but the end of them all takes a sample from the queue otherwise.        *)
(***************************************************************************)
EXTENDS Naturals, Sequences

CONSTANTS
  Samples,
  Width(_),   \* words a sample takes
  Room,       \* words there are
  None

VARIABLES in, queue, out, lost, open

\* The words the queue takes.
Load ==
  LET upTo[n \in 0 .. Len(queue)] == IF n = 0 THEN 0 ELSE upTo[n - 1] + Width(queue[n])
  IN  upTo[Len(queue)]

Init == in = None /\ queue = <<>> /\ out = None /\ lost = 0 /\ open = TRUE

Offer ==
  /\ open /\ in = None
  /\ in' \in Samples
  /\ UNCHANGED <<queue, out, lost, open>>

Put ==
  /\ open /\ in # None
  /\ Load + Width(in) <= Room
  /\ queue' = Append(queue, in)
  /\ in' = None
  /\ UNCHANGED <<out, lost, open>>

Lose ==
  /\ open /\ in # None
  /\ Load + Width(in) > Room
  /\ lost' = lost + 1
  /\ in' = None
  /\ UNCHANGED <<queue, out, open>>

See ==
  /\ open /\ out = None /\ queue # <<>>
  /\ out' = Head(queue)
  /\ UNCHANGED <<in, queue, lost, open>>

Advance ==
  /\ open /\ out # None
  /\ queue' = Tail(queue)
  /\ out' = None
  /\ UNCHANGED <<in, lost, open>>

End ==
  /\ open
  /\ open' = FALSE
  /\ in' = None /\ queue' = <<>> /\ out' = None /\ lost' = 0

Next == Offer \/ Put \/ Lose \/ See \/ Advance \/ End

Spec == Init /\ [][Next]_<<in, queue, out, lost, open>>
=============================================================================
