----------------------------- MODULE SampleRing -----------------------------
(***************************************************************************)
(* The handoff of the sampler (sidecar.cpp): a ring of words, filled by    *)
(* the sampler thread and drained by the aggregator thread.  A sample is   *)
(* two words and its addresses: the leaf and the frames of a resolved one, *)
(* the host pc and x16 of one nothing was translated to.                   *)
(***************************************************************************)
EXTENDS Naturals, Sequences

CONSTANT RingWords   \* kRingWords

ASSUME RingAssumption == RingWords \in Nat \ {0}

VARIABLE ring   \* g_ring: slots, head, tail, dropped

\* SampleKind.
Resolved      == 0
NotTranslated == 1
Unavailable   == 2

DepthRoom == 65536   \* bits 0 to 15 of the header

\* sampleHeader; the reason, which only the report reads, is left out.
sampleHeader(kind, inRange, depth) ==
  (kind * 2 + (IF inRange THEN 1 ELSE 0)) * DepthRoom + depth

Kind(hdr)    == hdr \div (2 * DepthRoom)
InRange(hdr) == (hdr \div DepthRoom) % 2 = 1
Depth(hdr)   == hdr % DepthRoom

\* sampleThread: the words of a sample.
Encode(s) ==
  LET depth == IF s.kind = Resolved THEN Len(s.pcs) - 1 ELSE 0
  IN  <<s.tid, sampleHeader(s.kind, s.inRange, depth)>> \o s.pcs

\* Faulty: the reason takes a word of its own.
Words_reason(hdr) ==
  CASE Kind(hdr) = Resolved      -> 3 + Depth(hdr)
    [] Kind(hdr) = NotTranslated -> 5
    [] OTHER                     -> 2

\* drainRing: how many words the header announces.
Words(hdr) ==
  CASE Kind(hdr) = Resolved      -> 3 + Depth(hdr)
    [] Kind(hdr) = NotTranslated -> 4
    [] OTHER                     -> 2

Slot(p) == ring.slots[p % RingWords]

\* drainRing: the sample whose first word is word p.
Decode(p) ==
  LET hdr == Slot(p + 1)
  IN  [tid |-> Slot(p), kind |-> Kind(hdr), inRange |-> InRange(hdr),
       pcs |-> [i \in 1 .. Words(hdr) - 2 |-> Slot(p + 1 + i)]]

Level == ring.head - ring.tail

EmptyRing == [slots |-> [i \in 0 .. RingWords - 1 |-> 0], head |-> 0, tail |-> 0, dropped |-> 0]

\* The samples between tail and head, as drainRing will find them.
Stored ==
  LET from[p \in ring.tail .. ring.head + 2 + DepthRoom] ==
        IF p + 2 > ring.head THEN <<>>
        ELSE <<Decode(p)>> \o from[p + Words(Slot(p + 1))]
  IN  from[ring.tail]
=============================================================================
