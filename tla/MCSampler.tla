----------------------------- MODULE MCSampler -----------------------------
(* Values for the constants of Sampler. *)
EXTENDS Sampler

\* In the guest's range, with two frames; waiting in a syscall.
MCOutcomes ==
  {[kind |-> Resolved, inRange |-> TRUE, pcs |-> <<7, 8, 9>>],
   [kind |-> NotTranslated, inRange |-> FALSE, pcs |-> <<5, 6>>]}

MCThreads == 1 .. 2

MCBreakages == {{}, {"sampler"}, {"aggregator"}, {"series"}, {"profile"}}
=============================================================================
