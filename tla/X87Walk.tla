------------------------------ MODULE X87Walk ------------------------------
(* The loop over a sequence, and tables.  FoldLeft of the community        *)
(* modules is the same operator as Walk; this one is a recursive function, *)
(* which TLC evaluates in one pass over the long sequences X87IR has.      *)
EXTENDS Integers, Sequences, TLC

Walk(Op(_, _), base, seq) ==
  LET after[k \in 0 .. Len(seq)] ==
        IF k = 0 THEN base ELSE Op(after[k - 1], seq[k])
  IN  after[Len(seq)]

\* f with v at x, whether or not it had a value there.
Put(f, x, v) == [y \in DOMAIN f \cup {x} |-> IF y = x THEN v ELSE f[y]]
\* q itself, for a sequence: TLC evaluates a function anew at every
\* application, and a sequence that is joined once.
Row(q) == q \o <<>>
=============================================================================
