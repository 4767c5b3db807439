---------------------- MODULE SidecarRefinement_proofs ----------------------
(***************************************************************************)
(* First, one answer to a thread that waits, and none to another, for any  *)
(* number of threads on the reply port and whatever fails; nothing in that *)
(* depends on what a request comes to in the translator.                   *)
(*                                                                         *)
(* The messages and caches of SidecarIPC implement BlockTranslation, for   *)
(* any threads, blocks and failures, as long as the compared window covers *)
(* a block; every variable has its type; a request leaves stock's register *)
(* mask as it was; and a block that ran out of registers is not translated *)
(* again before its end.  What every answer has in common comes first: the *)
(* run is over, the mask is the one that came, and stock goes on behind    *)
(* the instruction it asked for and inside the block.                      *)
(***************************************************************************)
EXTENDS SidecarIPC, FunctionTheorems, SequenceTheorems, FiniteSetTheorems,
        WellFoundedInduction, TLAPS

-----------------------------------------------------------------------------
(* Counting positions *)

LEMMA FinitePositions ==
  ASSUME NEW n \in Int, NEW P \in SUBSET (1..n)
  PROVE  IsFiniteSet(P) /\ Cardinality(P) \in Nat
<1>1. IsFiniteSet(1..n)
  BY FS_Interval
<1>2. IsFiniteSet(P)
  BY <1>1, FS_Subset
<1> QED BY <1>2, FS_CardinalityType

\* What is behind the head moves up by one.
LEMMA Shift ==
  ASSUME NEW n \in Nat, NEW P \in SUBSET (1..n)
  PROVE  LET Q == {i \in 1..n-1 : i + 1 \in P}
         IN  Cardinality(Q) = IF 1 \in P THEN Cardinality(P) - 1 ELSE Cardinality(P)
<1> DEFINE Q == {i \in 1..n-1 : i + 1 \in P}
           R == P \ {1}
           f == [i \in Q |-> i + 1]
<1>1. IsFiniteSet(P)
  BY FinitePositions
<1>2. IsFiniteSet(Q)
  <2>1. Q \in SUBSET (1..n-1)
    OBVIOUS
  <2>2. n - 1 \in Int
    OBVIOUS
  <2> QED BY <2>1, <2>2, FinitePositions
<1>3. f \in Bijection(Q, R)
  <2>1. f \in [Q -> R]
    OBVIOUS
  <2>2. \A a, b \in Q : f[a] = f[b] => a = b
    OBVIOUS
  <2>3. \A j \in R : \E i \in Q : f[i] = j
    <3> SUFFICES ASSUME NEW j \in R PROVE \E i \in Q : f[i] = j
      OBVIOUS
    <3>1. j - 1 \in Q /\ f[j - 1] = j
      OBVIOUS
    <3> QED BY <3>1
  <2> QED BY <2>1, <2>2, <2>3, Fun_IsBij
<1>4. Cardinality(R) = Cardinality(Q)
  BY <1>2, <1>3, FS_Bijection DEF ExistsBijection
<1> QED BY <1>1, <1>4, FS_RemoveElement

\* A message behind the last.
LEMMA Behind ==
  ASSUME NEW n \in Nat, NEW P \in SUBSET (1..n)
  PROVE  Cardinality(P \cup {n + 1}) = Cardinality(P) + 1
<1>1. IsFiniteSet(P)
  BY FinitePositions
<1>2. n + 1 \notin P
  OBVIOUS
<1> QED BY <1>1, <1>2, FS_AddElement

-----------------------------------------------------------------------------
(* Messages of a thread *)

Asked(sv, t) == {i \in DOMAIN sv : sv[i].tr = t}
Sent(rp, t)  == {i \in DOMAIN rp : rp[i].id = Tag[t]}
Held(lp, t)  == IF lp.state = "reply" /\ lp.msg.id = Tag[t] THEN 1 ELSE 0

LEMMA Counts ==
  ASSUME NEW S, NEW s \in Seq(S), NEW t
  PROVE  Cardinality(Asked(s, t)) \in Nat /\ Cardinality(Sent(s, t)) \in Nat
<1>1. Asked(s, t) \in SUBSET (1..Len(s)) /\ Sent(s, t) \in SUBSET (1..Len(s))
  BY DEF Asked, Sent
<1>2. Len(s) \in Int
  OBVIOUS
<1>3. Cardinality(Asked(s, t)) \in Nat
  BY <1>1, <1>2, FinitePositions
<1>4. Cardinality(Sent(s, t)) \in Nat
  BY <1>1, <1>2, FinitePositions
<1> QED BY <1>3, <1>4

\* The head of a port is taken.
LEMMA Taken ==
  ASSUME NEW S, NEW s \in Seq(S), s # <<>>, NEW t
  PROVE  /\ Len(s) \in Nat \ {0} /\ Len(Tail(s)) = Len(s) - 1 /\ Tail(s) \in Seq(S)
         /\ \A i \in 1..Len(s) - 1 : Tail(s)[i] = s[i + 1]
         /\ Cardinality(Asked(Tail(s), t))
              = IF Head(s).tr = t THEN Cardinality(Asked(s, t)) - 1 ELSE Cardinality(Asked(s, t))
         /\ Cardinality(Sent(Tail(s), t))
              = IF Head(s).id = Tag[t] THEN Cardinality(Sent(s, t)) - 1
                                      ELSE Cardinality(Sent(s, t))
<1> PICK n \in Nat \ {0} : n = Len(s)
  OBVIOUS
<1> PICK rest : rest = Tail(s)
  OBVIOUS
<1>1. /\ rest \in Seq(S) /\ Len(rest) = n - 1 /\ DOMAIN rest = 1..n-1
      /\ \A i \in 1..n-1 : rest[i] = s[i + 1]
      /\ Head(s) = s[1] /\ DOMAIN s = 1..n
  BY HeadTailProperties
<1>2. Asked(s, t) \in SUBSET (1..n) /\ Sent(s, t) \in SUBSET (1..n)
  BY <1>1 DEF Asked, Sent
<1>3. Asked(rest, t) = {i \in 1..n-1 : i + 1 \in Asked(s, t)}
  BY <1>1 DEF Asked
<1>4. Sent(rest, t) = {i \in 1..n-1 : i + 1 \in Sent(s, t)}
  BY <1>1 DEF Sent
<1>5. Cardinality(Asked(rest, t))
        = IF 1 \in Asked(s, t) THEN Cardinality(Asked(s, t)) - 1 ELSE Cardinality(Asked(s, t))
  BY <1>2, <1>3, Shift
<1>6. Cardinality(Sent(rest, t))
        = IF 1 \in Sent(s, t) THEN Cardinality(Sent(s, t)) - 1 ELSE Cardinality(Sent(s, t))
  BY <1>2, <1>4, Shift
<1>7. 1 \in Asked(s, t) <=> Head(s).tr = t
  BY <1>1 DEF Asked
<1>8. 1 \in Sent(s, t) <=> Head(s).id = Tag[t]
  BY <1>1 DEF Sent
<1> QED BY <1>1, <1>5, <1>6, <1>7, <1>8

\* A message is put into a port.
LEMMA Put ==
  ASSUME NEW S, NEW s \in Seq(S), NEW m
  PROVE  /\ Len(s) \in Nat /\ Len(Append(s, m)) = Len(s) + 1
         /\ Append(s, m) \in Seq(S \cup {m})
         /\ Append(s, m)[Len(s) + 1] = m
         /\ \A i \in 1..Len(s) : Append(s, m)[i] = s[i]
<1>1. s \in Seq(S \cup {m})
  OBVIOUS
<1> QED BY <1>1, AppendProperties

LEMMA PutCounts ==
  ASSUME NEW n \in Nat, NEW s, NEW more, DOMAIN s = 1..n, DOMAIN more = 1..n+1,
         \A i \in 1..n : more[i] = s[i], NEW m, m = more[n + 1], NEW t
  PROVE  /\ Cardinality(Asked(more, t))
              = IF m.tr = t THEN Cardinality(Asked(s, t)) + 1 ELSE Cardinality(Asked(s, t))
         /\ Cardinality(Sent(more, t))
              = IF m.id = Tag[t] THEN Cardinality(Sent(s, t)) + 1 ELSE Cardinality(Sent(s, t))
<1>1. Asked(s, t) \in SUBSET (1..n) /\ Sent(s, t) \in SUBSET (1..n)
  BY DEF Asked, Sent
<1>2. Asked(more, t) = IF m.tr = t THEN Asked(s, t) \cup {n + 1} ELSE Asked(s, t)
  BY DEF Asked
<1>3. Sent(more, t) = IF m.id = Tag[t] THEN Sent(s, t) \cup {n + 1} ELSE Sent(s, t)
  BY DEF Sent
<1>4. /\ Cardinality(Asked(s, t) \cup {n + 1}) = Cardinality(Asked(s, t)) + 1
      /\ Cardinality(Sent(s, t) \cup {n + 1}) = Cardinality(Sent(s, t)) + 1
  BY <1>1, Behind
<1> QED BY <1>2, <1>3, <1>4

-----------------------------------------------------------------------------
(* The inductive invariant *)

Waiting == {t \in Threads : Waits(t)}

Idle == {Receiving, Returned, Gone}

\* A request is of the thread it names, and the loop has one answer at most.
Shape ==
  /\ DOMAIN th = Threads /\ \A t \in Threads : "pc" \in DOMAIN th[t]
  /\ service \in Seq(Range(service)) /\ replies \in Seq(Range(replies))
  /\ \A i \in DOMAIN service :
       service[i].tr \in Threads /\ service[i].id = Tag[service[i].tr]
  /\ loop \in Idle \/ loop.state = "reply"

\* A thread is meant by one message at most, and by none when it does not wait.
Single ==
  \A t \in Threads :
    Cardinality(Asked(service, t)) + Cardinality(Sent(replies, t)) + Held(loop, t)
      <= IF t \in Waiting THEN 1 ELSE 0

\* There are as many messages as waiting threads.
Even ==
  Len(service) + Len(replies) + (IF loop.state = "reply" THEN 1 ELSE 0) = Cardinality(Waiting)

InFlight == Shape /\ Single /\ Even

LEMMA Promised == InFlight => OneInFlight
BY DEF InFlight, Single, Even, OneInFlight, Outstanding, Meant, Asked, Sent, Held, Waiting

LEMMA Plain ==
  /\ \A lp \in Idle : lp.state # "reply"
  /\ \A lp \in Idle, t \in Threads : Held(lp, t) = 0
  /\ Receiving # Gone /\ Returned # Gone
  /\ \A t \in Threads : SendOnceNote.id # Tag[t]
BY TagAssumption DEF Idle, Receiving, Returned, Gone, SendOnceNote, Held

LEMMA Distinct == \A t, u \in Threads : Tag[t] = Tag[u] => t = u
BY TagAssumption DEF IsInjective

LEMMA WaitingFinite ==
  ASSUME NEW W \in SUBSET Threads
  PROVE  IsFiniteSet(W) /\ Cardinality(W) \in Nat
<1>1. IsFiniteSet(W)
  BY ThreadsAssumption, FS_Subset
<1> QED BY <1>1, FS_CardinalityType
-----------------------------------------------------------------------------
(* Steps that leave the messages alone *)

\* The loop may come to rest in another way.
LEMMA Alone ==
  ASSUME InFlight, service' = service, replies' = replies,
         loop' = loop \/ (loop \in Idle /\ loop' \in Idle),
         DOMAIN th' = Threads, \A t \in Threads : "pc" \in DOMAIN th'[t],
         \A t \in Threads : Waits(t)' = Waits(t)
  PROVE  InFlight'
<1> USE DEF InFlight
<1>1. Shape'
  BY DEF Shape
<1>2. Waiting' = Waiting
  BY DEF Waiting
<1>3. /\ loop'.state = "reply" <=> loop.state = "reply"
      /\ \A t \in Threads : Held(loop', t) = Held(loop, t)
  BY Plain
<1>4. Single'
  BY <1>2, <1>3 DEF Single
<1>5. Even'
  BY <1>2, <1>3 DEF Even
<1> QED BY <1>1, <1>4, <1>5

-----------------------------------------------------------------------------
(* A request *)

LEMMA Requested ==
  ASSUME InFlight, NEW t \in Threads, Ask(t)
  PROVE  InFlight'
<1> USE DEF InFlight
<1> PICK m : m = Request(t)
  OBVIOUS
<1>1. m.tr = t /\ m.id = Tag[t]
  BY DEF Request
<1>2. /\ service' = Append(service, m) /\ UNCHANGED <<replies, loop>>
      /\ th' = [th EXCEPT ![t].pc = "wait"] /\ th[t].pc = "walk"
  BY DEF Ask
<1>3. /\ Len(service) \in Nat /\ Len(service') = Len(service) + 1
      /\ service' \in Seq(Range(service) \cup {m})
      /\ service'[Len(service) + 1] = m
      /\ \A i \in 1..Len(service) : service'[i] = service[i]
      /\ DOMAIN service = 1..Len(service)
  <2>1. service \in Seq(Range(service))
    BY DEF Shape
  <2>2. /\ Len(service) \in Nat /\ Len(Append(service, m)) = Len(service) + 1
        /\ Append(service, m) \in Seq(Range(service) \cup {m})
        /\ Append(service, m)[Len(service) + 1] = m
        /\ \A i \in 1..Len(service) : Append(service, m)[i] = service[i]
    BY <2>1, Put
  <2> QED BY <1>2, <2>1, <2>2
<1>4. \A u \in Threads : Waits(u)' <=> (u = t \/ Waits(u))
  BY <1>2 DEF Shape, Waits
<1>5. Shape'
  <2>1. DOMAIN service' = 1..Len(service) + 1
    BY <1>3
  <2>2. service' \in Seq(Range(service'))
    BY <1>3 DEF Range
  <2>3. \A i \in DOMAIN service' :
          service'[i].tr \in Threads /\ service'[i].id = Tag[service'[i].tr]
    BY <1>1, <1>3, <2>1 DEF Shape
  <2> QED BY <1>2, <2>2, <2>3 DEF Shape
<1>6. t \notin Waiting /\ Waiting' = Waiting \cup {t} /\ Waiting \in SUBSET Threads
  BY <1>2, <1>4 DEF Waiting, Waits
<1>7. Single'
  <2> SUFFICES ASSUME NEW u \in Threads
               PROVE  Cardinality(Asked(service', u)) + Cardinality(Sent(replies, u)) + Held(loop, u)
                        <= IF u \in Waiting' THEN 1 ELSE 0
    BY <1>2 DEF Single
  <2>1. Cardinality(Asked(service', u))
          = IF m.tr = u THEN Cardinality(Asked(service, u)) + 1 ELSE Cardinality(Asked(service, u))
    <3>1. DOMAIN service' = 1..Len(service) + 1
      BY <1>3
    <3> QED BY <1>3, <3>1, PutCounts
  <2>2. /\ Cardinality(Asked(service, u)) \in Nat
        /\ Cardinality(Sent(replies, u)) \in Nat /\ Held(loop, u) \in Nat
    BY Counts DEF Shape, Held
  <2>3. Cardinality(Asked(service, u)) + Cardinality(Sent(replies, u)) + Held(loop, u)
          <= IF u \in Waiting THEN 1 ELSE 0
    BY DEF Single
  <2> QED BY <1>1, <1>6, <2>1, <2>2, <2>3
<1>8. Even'
  <2>1. Cardinality(Waiting') = Cardinality(Waiting) + 1
    BY <1>6, WaitingFinite, FS_AddElement
  <2>2. Len(replies) \in Nat /\ Cardinality(Waiting) \in Nat
    BY <1>6, WaitingFinite DEF Shape
  <2> QED BY <1>2, <1>3, <2>1, <2>2 DEF Even
<1> QED BY <1>5, <1>7, <1>8

-----------------------------------------------------------------------------
(* An answer received *)

LEMMA GotIt ==
  ASSUME InFlight, NEW t \in Threads, Receive(t)
  PROVE  InFlight'
<1> USE DEF InFlight
<1> PICK m : m = Head(replies)
  OBVIOUS
<1>1. /\ m.id = Tag[t] /\ replies # <<>> /\ replies' = Tail(replies)
      /\ UNCHANGED <<service, loop>> /\ th[t].pc = "wait"
  BY DEF Receive, Received
<1>2. /\ Len(replies) \in Nat \ {0} /\ Len(replies') = Len(replies) - 1
      /\ replies' \in Seq(Range(replies))
      /\ \A i \in 1..Len(replies) - 1 : replies'[i] = replies[i + 1]
  BY <1>1, Taken DEF Shape
<1>3. /\ DOMAIN th' = Threads /\ \A u \in Threads : "pc" \in DOMAIN th'[u]
      /\ \A u \in Threads : Waits(u)' <=> (u # t /\ Waits(u))
  <2>1. \/ th' = [th EXCEPT ![t].pc = "fall"]
        \/ \E next : th' = [th EXCEPT ![t].pc = "walk", ![t].at = next]
    BY DEF Receive
  <2>2. CASE th' = [th EXCEPT ![t].pc = "fall"]
    BY <2>2 DEF Shape, Waits
  <2>3. CASE \E next : th' = [th EXCEPT ![t].pc = "walk", ![t].at = next]
    BY <2>3 DEF Shape, Waits
  <2> QED BY <2>1, <2>2, <2>3
<1>4. Shape'
  <2>1. replies' \in Seq(Range(replies'))
    BY <1>2 DEF Range
  <2> QED BY <1>1, <1>3, <2>1 DEF Shape
<1>5. t \in Waiting /\ Waiting' = Waiting \ {t} /\ Waiting \in SUBSET Threads
  BY <1>1, <1>3 DEF Waiting, Waits
<1>6. Single'
  <2> SUFFICES ASSUME NEW u \in Threads
               PROVE  Cardinality(Asked(service, u)) + Cardinality(Sent(replies', u)) + Held(loop, u)
                        <= IF u \in Waiting' THEN 1 ELSE 0
    BY <1>1 DEF Single
  <2>1. Cardinality(Sent(replies', u))
          = IF m.id = Tag[u] THEN Cardinality(Sent(replies, u)) - 1 ELSE Cardinality(Sent(replies, u))
    BY <1>1, Taken DEF Shape
  <2>2. /\ Cardinality(Asked(service, u)) \in Nat
        /\ Cardinality(Sent(replies, u)) \in Nat /\ Held(loop, u) \in Nat
    BY Counts DEF Shape, Held
  <2>3. Cardinality(Asked(service, u)) + Cardinality(Sent(replies, u)) + Held(loop, u)
          <= IF u \in Waiting THEN 1 ELSE 0
    BY DEF Single
  <2> QED BY <1>1, <1>5, <2>1, <2>2, <2>3
<1>7. Even'
  <2>1. Cardinality(Waiting') = Cardinality(Waiting) - 1
    BY <1>5, WaitingFinite, FS_RemoveElement
  <2>2. Len(service) \in Nat /\ Cardinality(Waiting) \in Nat
    BY <1>5, WaitingFinite DEF Shape
  <2> QED BY <1>1, <1>2, <2>1, <2>2 DEF Even
<1> QED BY <1>4, <1>6, <1>7

-----------------------------------------------------------------------------
(* An answer made *)

LEMMA Answers ==
  ASSUME InFlight, NEW r, Serving(r), NEW next, Answer(r, next),
         DOMAIN th' = Threads, \A t \in Threads : "pc" \in DOMAIN th'[t],
         \A t \in Threads : Waits(t)' = Waits(t)
  PROVE  InFlight'
<1> USE DEF InFlight
<1>1. /\ r = Head(service) /\ service # <<>> /\ service' = Tail(service)
      /\ UNCHANGED replies /\ loop \in Idle /\ loop' = Replying(r, next)
  BY DEF Serving, Answer, Idle
<1>2. loop'.state = "reply" /\ loop'.msg.id = r.id
  BY <1>1 DEF Replying, ReplyMsg
<1>3. /\ Len(service) \in Nat \ {0} /\ Len(service') = Len(service) - 1
      /\ service' \in Seq(Range(service))
      /\ \A i \in 1..Len(service) - 1 : service'[i] = service[i + 1]
      /\ DOMAIN service = 1..Len(service)
  BY <1>1, Taken DEF Shape
<1>4. r.tr \in Threads /\ r.id = Tag[r.tr]
  <2>1. r = service[1] /\ 1 \in DOMAIN service
    BY <1>1, <1>3
  <2> QED BY <2>1 DEF Shape
<1>5. Shape'
  <2>1. DOMAIN service' = 1..Len(service) - 1
    BY <1>3
  <2>2. service' \in Seq(Range(service'))
    BY <1>3 DEF Range
  <2>3. \A i \in DOMAIN service' :
          service'[i].tr \in Threads /\ service'[i].id = Tag[service'[i].tr]
    BY <1>3, <2>1 DEF Shape
  <2> QED BY <1>1, <1>2, <2>2, <2>3 DEF Shape
<1>6. Waiting' = Waiting
  BY DEF Waiting
<1>7. Single'
  <2> SUFFICES ASSUME NEW u \in Threads
               PROVE  Cardinality(Asked(service', u)) + Cardinality(Sent(replies, u)) + Held(loop', u)
                        <= IF u \in Waiting THEN 1 ELSE 0
    BY <1>1, <1>6 DEF Single
  <2>1. Cardinality(Asked(service', u))
          = IF r.tr = u THEN Cardinality(Asked(service, u)) - 1 ELSE Cardinality(Asked(service, u))
    BY <1>1, Taken DEF Shape
  <2>2. /\ Cardinality(Asked(service, u)) \in Nat /\ Cardinality(Sent(replies, u)) \in Nat
    BY Counts DEF Shape
  <2>3. Held(loop, u) = 0 /\ Held(loop', u) = IF r.tr = u THEN 1 ELSE 0
    BY <1>1, <1>2, <1>4, Plain, Distinct DEF Held
  <2>4. Cardinality(Asked(service, u)) + Cardinality(Sent(replies, u)) + Held(loop, u)
          <= IF u \in Waiting THEN 1 ELSE 0
    BY DEF Single
  <2> QED BY <2>1, <2>2, <2>3, <2>4
<1>8. Even'
  <2>1. Len(replies) \in Nat /\ loop.state # "reply"
    BY <1>1, Plain DEF Shape
  <2> QED BY <1>1, <1>2, <1>3, <1>6, <2>1 DEF Even
<1> QED BY <1>5, <1>7, <1>8

-----------------------------------------------------------------------------
(* A message of the loop's sent *)

\* The answer in hand, or the note that there is none.
LEMMA Sends ==
  ASSUME InFlight, loop.state = "reply", NEW m, m = loop.msg \/ m = SendOnceNote,
         Len(replies') = Len(replies) + 1, replies' \in Seq(Range(replies) \cup {m}),
         m = replies'[Len(replies) + 1],
         \A i \in 1..Len(replies) : replies'[i] = replies[i],
         loop' = Receiving, UNCHANGED <<th, service>>
  PROVE  InFlight'
<1> USE DEF InFlight
<1>1. Len(replies) \in Nat
  BY DEF Shape
<1>2. loop' \in Idle
  BY DEF Idle
<1>3. Shape'
  <2>1. replies' \in Seq(Range(replies'))
    BY <1>1 DEF Range
  <2> QED BY <1>2, <2>1 DEF Shape
<1>4. Waiting' = Waiting
  BY DEF Waiting, Waits
<1>5. Single'
  <2> SUFFICES ASSUME NEW u \in Threads
               PROVE  Cardinality(Asked(service, u)) + Cardinality(Sent(replies', u)) + Held(loop', u)
                        <= IF u \in Waiting THEN 1 ELSE 0
    BY <1>4 DEF Single
  <2>1. Cardinality(Sent(replies', u))
          = IF m.id = Tag[u] THEN Cardinality(Sent(replies, u)) + 1 ELSE Cardinality(Sent(replies, u))
    <3>1. DOMAIN replies = 1..Len(replies) /\ DOMAIN replies' = 1..Len(replies) + 1
      BY <1>1 DEF Shape
    <3> QED BY <1>1, <3>1, PutCounts
  <2>2. /\ Cardinality(Asked(service, u)) \in Nat /\ Cardinality(Sent(replies, u)) \in Nat
    BY Counts DEF Shape
  <2>3. Held(loop', u) = 0
    BY <1>2, Plain
  <2>4. m.id = Tag[u] => Held(loop, u) = 1
    BY Plain DEF Held
  <2>5. Held(loop, u) \in Nat
    BY DEF Held
  <2>6. Cardinality(Asked(service, u)) + Cardinality(Sent(replies, u)) + Held(loop, u)
          <= IF u \in Waiting THEN 1 ELSE 0
    BY DEF Single
  <2> QED BY <2>1, <2>2, <2>3, <2>4, <2>5, <2>6
<1>6. Even'
  <2>1. Len(service) \in Nat /\ loop'.state # "reply"
    BY <1>2, Plain DEF Shape
  <2> QED BY <1>1, <1>4, <2>1 DEF Even
<1> QED BY <1>3, <1>5, <1>6

-----------------------------------------------------------------------------
(* The sidecar's end *)

\* As many notes as there were requests open, and none with a thread's id.
LEMMA Dies ==
  ASSUME InFlight, Die
  PROVE  InFlight'
<1> USE DEF InFlight
<1> PICK open : open = Len(service) + (IF loop.state = "reply" THEN 1 ELSE 0)
  OBVIOUS
<1> DEFINE notes == [i \in 1..open |-> SendOnceNote]
<1>1. /\ loop' = Gone /\ service' = <<>> /\ replies' = replies \o notes /\ UNCHANGED th
  BY DEF Die
<1>2. Len(service) \in Nat /\ Len(replies) \in Nat /\ open \in Nat
  BY DEF Shape
<1>3. notes \in Seq({SendOnceNote}) /\ Len(notes) = open
  BY <1>2
<1> PICK n : n = Len(replies)
  OBVIOUS
<1> PICK N : N = notes
  OBVIOUS
<1>4. \A i \in 1..open : N[i] = SendOnceNote
  OBVIOUS
<1> HIDE DEF notes
<1>5. /\ replies' \in Seq(Range(replies) \cup {SendOnceNote}) /\ Len(replies') = n + open
      /\ \A i \in 1..n : replies'[i] = replies[i]
      /\ \A i \in n+1..n+open : replies'[i] = SendOnceNote
  <2>1. /\ replies \in Seq(Range(replies) \cup {SendOnceNote})
        /\ N \in Seq(Range(replies) \cup {SendOnceNote}) /\ Len(N) = open
    BY <1>3 DEF Shape
  <2>2. /\ replies \o N \in Seq(Range(replies) \cup {SendOnceNote})
        /\ Len(replies \o N) = n + open
        /\ \A i \in 1..n + open :
             (replies \o N)[i] = IF i <= n THEN replies[i] ELSE N[i - n]
    <3>1. Len(replies \o N) = Len(replies) + Len(N)
      BY <2>1, ConcatProperties
    <3>2. \A i \in 1..Len(replies) + Len(N) :
            (replies \o N)[i] = IF i <= Len(replies) THEN replies[i] ELSE N[i - Len(replies)]
      BY <2>1, ConcatProperties
    <3>3. replies \o N \in Seq(Range(replies) \cup {SendOnceNote})
      BY <2>1, ConcatProperties
    <3> QED BY <2>1, <3>1, <3>2, <3>3
  <2>3. \A i \in 1..n : replies'[i] = replies[i]
    BY <1>1, <1>2, <2>2
  <2>4. \A i \in n+1..n+open : i - n \in 1..open
    BY <1>2
  <2>5. \A i \in n+1..n+open : replies'[i] = SendOnceNote
    BY <1>1, <1>2, <1>4, <2>2, <2>4
  <2> QED BY <1>1, <2>2, <2>3, <2>5
<1>6. loop' \in Idle
  BY <1>1 DEF Idle
<1>7. Shape'
  <2>1. replies' \in Seq(Range(replies'))
    BY <1>5 DEF Range
  <2>2. service' \in Seq(Range(service')) /\ DOMAIN service' = {}
    BY <1>1
  <2> QED BY <1>1, <1>6, <2>1, <2>2 DEF Shape
<1>8. Waiting' = Waiting
  BY <1>1 DEF Waiting, Waits
<1>9. Single'
  <2> SUFFICES ASSUME NEW u \in Threads
               PROVE  Cardinality(Asked(service', u)) + Cardinality(Sent(replies', u)) + Held(loop', u)
                        <= IF u \in Waiting THEN 1 ELSE 0
    BY <1>8 DEF Single
  <2>1. Asked(service', u) = {}
    BY <1>1 DEF Asked
  <2>2. Sent(replies', u) = Sent(replies, u)
    <3>1. DOMAIN replies' = 1..n+open /\ DOMAIN replies = 1..n
      BY <1>2, <1>5 DEF Shape
    <3>2. \A i \in n+1..n+open : i \notin Sent(replies', u)
      BY <1>5, Plain DEF Sent
    <3>3. \A i \in 1..n : i \in Sent(replies', u) <=> i \in Sent(replies, u)
      BY <1>2, <1>5, <3>1 DEF Sent
    <3> QED BY <1>2, <3>1, <3>2, <3>3 DEF Sent
  <2>3. Held(loop', u) = 0 /\ Held(loop, u) \in Nat
    BY <1>6, Plain DEF Held
  <2>4. /\ Cardinality(Asked(service, u)) \in Nat /\ Cardinality(Sent(replies, u)) \in Nat
    BY Counts DEF Shape
  <2>5. Cardinality(Asked(service, u)) + Cardinality(Sent(replies, u)) + Held(loop, u)
          <= IF u \in Waiting THEN 1 ELSE 0
    BY DEF Single
  <2> QED BY <2>1, <2>2, <2>3, <2>4, <2>5, FS_EmptySet
<1>10. Even'
  <2>1. loop'.state # "reply" /\ Len(service') = 0
    BY <1>1, <1>6, Plain
  <2>2. Len(replies') = n + open
    BY <1>5
  <2>3. n + open = Cardinality(Waiting)
    BY <1>2 DEF Even
  <2>4. Cardinality(Waiting') = Cardinality(Waiting)
    BY <1>8
  <2> QED BY <1>2, <2>1, <2>2, <2>3, <2>4 DEF Even
<1> QED BY <1>7, <1>9, <1>10
-----------------------------------------------------------------------------
(* Every step *)

LEMMA Starts == Init => InFlight
<1> SUFFICES ASSUME Init PROVE InFlight
  OBVIOUS
<1>1. /\ service = <<>> /\ replies = <<>> /\ loop = Receiving /\ DOMAIN th = Threads
      /\ \A t \in Threads : "pc" \in DOMAIN th[t] /\ ~Waits(t)
  BY DEF Init, Waits
<1>2. loop \in Idle /\ loop.state # "reply"
  BY <1>1, Plain DEF Idle
<1>3. Shape
  <2>1. service \in Seq(Range(service)) /\ replies \in Seq(Range(replies)) /\ DOMAIN service = {}
    BY <1>1
  <2> QED BY <1>1, <1>2, <2>1 DEF Shape
<1>4. Waiting = {}
  BY <1>1 DEF Waiting
<1>5. Single
  <2>1. \A t \in Threads : Asked(service, t) = {} /\ Sent(replies, t) = {}
    BY <1>1 DEF Asked, Sent
  <2>2. \A t \in Threads : Held(loop, t) = 0
    BY <1>2, Plain
  <2>3. \A t \in Threads :
          Cardinality(Asked(service, t)) = 0 /\ Cardinality(Sent(replies, t)) = 0
    BY <2>1, FS_EmptySet
  <2>4. \A t \in Threads :
          Cardinality(Asked(service, t)) + Cardinality(Sent(replies, t)) + Held(loop, t) = 0
    BY <2>2, <2>3
  <2> QED BY <2>4 DEF Single
<1>6. Even
  BY <1>1, <1>2, <1>4, FS_EmptySet DEF Even
<1> QED BY <1>3, <1>5, <1>6 DEF InFlight

\* Stock's steps, the signals, and the ends of the process and of the loop.
LEMMA GuestSteps ==
  ASSUME InFlight, NEW t \in Threads, Guest(t)
  PROVE  InFlight'
<1>0. DOMAIN th = Threads /\ \A u \in Threads : "pc" \in DOMAIN th[u]
  BY DEF InFlight, Shape
<1>1. CASE Decode(t)
  <2>1. /\ th[t].pc = "walk" /\ UNCHANGED <<service, replies, loop>>
        /\ \E b, c : th' = [th EXCEPT ![t] = [pc |-> "walk", block |-> b, ir |-> c, at |-> 0,
                                               dry |-> FALSE]]
    BY <1>1 DEF Decode
  <2>2. /\ DOMAIN th' = Threads
        /\ \A u \in Threads : "pc" \in DOMAIN th'[u] /\ th'[u].pc = th[u].pc
    BY <1>0, <2>1
  <2> QED BY <2>1, <2>2, Alone DEF Waits
<1>2. CASE Stock(t)
  <2>1. /\ th[t].pc \in {"walk", "fall"} /\ UNCHANGED <<service, replies, loop>>
        /\ th' = [th EXCEPT ![t].pc = "walk", ![t].at = @ + 1]
    BY <1>2 DEF Stock
  <2>2. /\ DOMAIN th' = Threads
        /\ \A u \in Threads : "pc" \in DOMAIN th'[u]
                               /\ th'[u].pc = IF u = t THEN "walk" ELSE th[u].pc
    BY <1>0, <2>1
  <2>3. \A u \in Threads : Waits(u)' = Waits(u)
    BY <2>1, <2>2 DEF Waits
  <2> QED BY <2>1, <2>2, <2>3, Alone
<1>3. CASE Ask(t)
  BY <1>3, Requested
<1>4. CASE AskNobody(t) \/ ReceiveWrong(t)
  <2>1. UNCHANGED <<th, service, replies, loop>>
    BY <1>4 DEF AskNobody, ReceiveWrong, Abort
  <2> QED BY <1>0, <2>1, Alone DEF Waits
<1>5. CASE Interrupted(t) \/ ReceiveAgain(t)
  <2>1. /\ th[t].pc \in {"wait", "retry"} /\ UNCHANGED <<service, replies, loop>>
        /\ \E p \in {"wait", "retry"} : th' = [th EXCEPT ![t].pc = p]
    BY <1>5 DEF Interrupted, ReceiveAgain
  <2>2. PICK p \in {"wait", "retry"} : th' = [th EXCEPT ![t].pc = p]
    BY <2>1
  <2>3. /\ DOMAIN th' = Threads
        /\ \A u \in Threads : "pc" \in DOMAIN th'[u]
                               /\ th'[u].pc = IF u = t THEN p ELSE th[u].pc
    BY <1>0, <2>2
  <2>4. \A u \in Threads : Waits(u)' = Waits(u)
    BY <2>1, <2>3 DEF Waits
  <2> QED BY <2>1, <2>3, <2>4, Alone
<1>6. CASE Receive(t)
  BY <1>6, GotIt
<1> QED BY <1>1, <1>2, <1>3, <1>4, <1>5, <1>6 DEF Guest

\* Whatever comes of a request, one answer: or the sidecar dies of it.
LEMMA ProcessSteps ==
  ASSUME InFlight, Process
  PROVE  InFlight'
<1>0. DOMAIN th = Threads /\ \A u \in Threads : "pc" \in DOMAIN th[u]
  BY DEF InFlight, Shape
<1>1. PICK r \in Range(service) :
        \/ NoTR(r) \/ NoProbe(r) \/ NoIR(r) \/ NoOffsets(r) \/ ServeStock(r) \/ ArplAborts(r)
        \/ \E o \in Outcomes(r) : NoBuffer(r, o) \/ NoWriteBack(r, o) \/ Serve(r, o)
  BY DEF Process
<1>2. CASE NoTR(r) \/ NoProbe(r) \/ NoIR(r) \/ NoOffsets(r) \/ ServeStock(r)
  <2>1. Serving(r) /\ Answer(r, None) /\ UNCHANGED th
    BY <1>2 DEF NoTR, NoProbe, NoIR, NoOffsets, ServeStock
  <2> QED BY <1>0, <2>1, Answers DEF Waits
<1>3. CASE ArplAborts(r)
  BY <1>3, Dies DEF ArplAborts
<1>4. ASSUME NEW o \in Outcomes(r), NoBuffer(r, o) \/ NoWriteBack(r, o) \/ Serve(r, o)
      PROVE  InFlight'
  <2>1. Translating(r, o) /\ \E next : Answer(r, next)
    BY <1>4 DEF NoBuffer, NoWriteBack, Serve
  <2>2. Serving(r) /\ th' = [th EXCEPT ![r.tr].dry = @ \/ o.dry]
    BY <2>1 DEF Translating
  <2>3. PICK dry : th' = [th EXCEPT ![r.tr].dry = dry]
    BY <2>2, Zenon
  <2>4. /\ DOMAIN th' = Threads
        /\ \A u \in Threads : "pc" \in DOMAIN th'[u] /\ th'[u].pc = th[u].pc
    BY <1>0, <2>3
  <2> QED BY <2>1, <2>2, <2>4, Answers DEF Waits
<1> QED BY <1>1, <1>2, <1>3, <1>4

LEMMA LoopSteps ==
  ASSUME InFlight, SendReply \/ SendFails \/ ReceiveFails \/ SidecarDies
  PROVE  InFlight'
<1>0. DOMAIN th = Threads /\ \A u \in Threads : "pc" \in DOMAIN th[u]
  BY DEF InFlight, Shape
<1>1. CASE SendReply \/ SendFails
  <2>1. PICK m : /\ m = loop.msg \/ m = SendOnceNote
                 /\ replies' = Append(replies, m)
    BY <1>1 DEF SendReply, SendFails
  <2>2. loop.state = "reply" /\ loop' = Receiving /\ UNCHANGED <<th, service>>
    BY <1>1 DEF SendReply, SendFails
  <2>3. replies \in Seq(Range(replies))
    BY DEF InFlight, Shape
  <2>4. /\ Len(replies') = Len(replies) + 1 /\ replies' \in Seq(Range(replies) \cup {m})
        /\ m = replies'[Len(replies) + 1]
        /\ \A i \in 1..Len(replies) : replies'[i] = replies[i]
    <3>1. /\ Len(Append(replies, m)) = Len(replies) + 1
          /\ Append(replies, m) \in Seq(Range(replies) \cup {m})
          /\ Append(replies, m)[Len(replies) + 1] = m
          /\ \A i \in 1..Len(replies) : Append(replies, m)[i] = replies[i]
      BY <2>3, Put
    <3> QED BY <2>1, <3>1
  <2> QED BY <2>1, <2>2, <2>4, Sends
<1>2. CASE ReceiveFails
  <2>1. /\ loop \in Idle /\ loop' \in Idle /\ UNCHANGED <<th, service, replies>>
    BY <1>2 DEF ReceiveFails, Idle
  <2> QED BY <1>0, <2>1, Alone DEF Waits
<1>3. CASE SidecarDies
  BY <1>3, Dies DEF SidecarDies
<1> QED BY <1>1, <1>2, <1>3

LEMMA Keeps == InFlight /\ [Next]_vars => InFlight'
<1> SUFFICES ASSUME InFlight, [Next]_vars PROVE InFlight'
  OBVIOUS
<1>1. CASE \E t \in Threads : Guest(t)
  BY <1>1, GuestSteps
<1>2. CASE Process
  BY <1>2, ProcessSteps
<1>3. CASE SendReply \/ SendFails \/ ReceiveFails \/ SidecarDies
  BY <1>3, LoopSteps
<1>4. CASE UNCHANGED vars
  <2>1. UNCHANGED <<th, service, replies, loop>>
    BY <1>4 DEF vars
  <2>2. DOMAIN th = Threads /\ \A u \in Threads : "pc" \in DOMAIN th[u]
    BY DEF InFlight, Shape
  <2> QED BY <2>1, <2>2, Alone DEF Waits
<1> QED BY <1>1, <1>2, <1>3, <1>4 DEF Next

\* Each waiting thread has one message on its way to it, a request, an answer
\* or the note that there is none, and no other thread has any: an answer a
\* thread did not wait for would be taken for its next (stub_asm.cpp:795-803).
THEOREM OneAnswerEach == Spec => []OneInFlight
BY Keeps, Starts, Promised, PTL DEF Spec

-----------------------------------------------------------------------------
(* The end of a stretch *)

\* A set of indices between a and b has a largest one.
LEMMA Largest ==
  ASSUME NEW a \in Int, NEW b \in Int, NEW E \in SUBSET (a..b), E # {}
  PROVE  Max(E) \in E
<1> DEFINE R == OpToRel(<, Nat)
           D == {d \in Nat : b - d \in E}
<1>1. D \subseteq Nat /\ D # {}
  <2>1. PICK e \in E : TRUE
    OBVIOUS
  <2>2. b - e \in D
    OBVIOUS
  <2> QED BY <2>2
<1>2. \E x \in D : \A y \in D : ~ (<<y, x>> \in R)
  <2> HIDE DEF D
  <2> QED BY <1>1, NatLessThanWellFounded, WFMin
<1>3. PICK x \in D : \A y \in D : ~ (<<y, x>> \in R)
  BY <1>2
<1>4. \A y \in D : ~ (y < x)
  BY <1>3 DEF OpToRel
<1>5. b - x \in E /\ \A e \in E : b - x >= e
  <2> SUFFICES ASSUME NEW e \in E PROVE b - x >= e
    OBVIOUS
  <2>1. b - e \in D
    OBVIOUS
  <2> QED BY <1>4, <2>1
<1> QED BY <1>5 DEF Max

\* A run of instructions stays in its block.
LEMMA RunInside ==
  ASSUME NEW ir \in Seq([pc : Nat, op : Ops]), NEW idx \in 0..Len(ir)
  PROVE  lookahead(ir, idx) \in 0..Len(ir) - idx
<1> PICK n \in Nat : n = Len(ir)
  OBVIOUS
<1> DEFINE I == {i \in idx..n - 1 : \A j \in idx..i : OpAt(ir, j) \in Handled}
<1>1. IsFiniteSet(idx..n - 1) /\ Cardinality(idx..n - 1) = n - idx
  <2>1. idx \in Int /\ n - 1 \in Int /\ idx <= n
    OBVIOUS
  <2>2. /\ IsFiniteSet(idx..n - 1)
        /\ Cardinality(idx..n - 1) = IF idx > n - 1 THEN 0 ELSE n - 1 - idx + 1
    BY <2>1, FS_Interval
  <2> QED BY <2>1, <2>2
<1>2. IsFiniteSet(I) /\ Cardinality(I) <= Cardinality(idx..n - 1)
  BY <1>1, FS_Subset
<1>3. Cardinality(I) \in Nat
  BY <1>2, FS_CardinalityType
<1> QED BY <1>1, <1>2, <1>3 DEF lookahead

\* A bridged region too.
LEMMA BridgedInside ==
  ASSUME NEW ir \in Seq([pc : Nat, op : Ops]), NEW idx \in 0..Len(ir)
  PROVE  lookahead_bridged(ir, idx) \in idx..Len(ir)
<1> PICK n \in Nat : n = Len(ir)
  OBVIOUS
<1> DEFINE gaps(e) == {i \in idx..e - 1 : OpAt(ir, i) \in Bridges}
           joined(e) ==
             /\ OpAt(ir, e - 1) \in Handled
             /\ \A i \in idx..e - 1 : OpAt(ir, i) \in Handled \cup Bridges
             /\ \A i \in gaps(e) : ~ (i..i + MaxGap \subseteq gaps(e))
             /\ Cardinality(gaps(e)) \in 1..MaxBridges
             /\ e - idx - Cardinality(gaps(e)) >= 3
           E == {idx} \cup {e \in idx + 1..n : joined(e)}
<1>1. lookahead_bridged(ir, idx) = Max(E)
  BY DEF lookahead_bridged
<1> HIDE DEF joined
<1>2. E \in SUBSET (idx..n) /\ E # {}
  OBVIOUS
<1> HIDE DEF E
<1>3. Max(E) \in E
  <2>1. idx \in Int /\ n \in Int
    OBVIOUS
  <2> QED BY <1>2, <2>1, Largest
<1> QED BY <1>1, <1>2, <1>3

-----------------------------------------------------------------------------
(* The cache through a request *)

Fields == {"run", "prev", "lastInsn", "lastNext", "mask", "cw", "declined"}

\* A cache between requests.
Resting(c) == DOMAIN c = Fields /\ c.run = 0 /\ c.mask \in SUBSET Registers

\* A cache that has entered block at idx, stock's register mask in it.
Entered(c, block, idx, mask) ==
  /\ Resting(c) /\ c.prev = block /\ c.lastInsn = idx /\ c.mask = mask

LEMMA Enters ==
  ASSUME NEW c, Resting(c), NEW mask \in SUBSET Registers, NEW block, NEW ir, NEW idx
  PROVE  Entered(Enter(c, mask, block, ir, idx), block, idx, mask)
<1> DEFINE afresh == block # c.prev \/ Restarted(c, block, idx)
           new == [invalidate(c) EXCEPT !.prev = block, !.lastNext = -1, !.cw = WritesCW(ir)]
           d == IF afresh THEN new ELSE c
           entered == [d EXCEPT !.mask = IF d.run = 0 THEN mask ELSE @, !.lastInsn = idx]
<1>1. Resting(new) /\ new.prev = block
  BY DEF Resting, Fields, invalidate
<1>2. Resting(d) /\ d.prev = block
  BY <1>1
<1>3. entered = Enter(c, mask, block, ir, idx)
  BY DEF Enter
<1> HIDE DEF d
<1>4. Entered(entered, block, idx, mask)
  BY <1>2 DEF Entered, Resting, Fields
<1> QED BY <1>3, <1>4

\* A later call of the reply loop is no new start, so the run keeps its mask.
LEMMA Continues ==
  ASSUME NEW c, NEW block, NEW idx \in Int, NEW mask, Entered(c, block, idx, mask),
         NEW ir, NEW k \in Int, k > idx, NEW left \in Int, left > 0
  PROVE  LET a == Again(c, block, ir, k, left)
         IN  DOMAIN a = Fields /\ a.mask = mask /\ a.prev = block
<1> DEFINE d == [c EXCEPT !.run = left, !.lastNext = k]
           e == [d EXCEPT !.mask = IF d.run = 0 THEN WriteBack(d) ELSE @, !.lastInsn = k]
<1>1. /\ DOMAIN d = Fields /\ d.run = left /\ d.lastNext = k
      /\ d.prev = block /\ d.lastInsn = idx /\ d.mask = mask
  BY DEF Entered, Resting, Fields
<1> HIDE DEF d
<1>2. ~Restarted(d, block, k)
  BY <1>1 DEF Restarted
<1>3. Enter(d, WriteBack(d), block, ir, k) = e
  BY <1>1, <1>2 DEF Enter
<1>4. DOMAIN e = Fields /\ e.mask = mask /\ e.prev = block
  BY <1>1 DEF Fields
<1> HIDE DEF e
<1>5. Again(c, block, ir, k, left) = e
  BY <1>3 DEF Again, d
<1> QED BY <1>4, <1>5

-----------------------------------------------------------------------------
(* Answers *)

\* An answer to a request for instruction idx of n.
Settled(o, idx, n, mask) ==
  /\ Resting(o.cache) /\ o.mask = mask /\ o.dry \in BOOLEAN
  /\ o.next \in {None, Aborted} \cup idx + 1..n

LEMMA Released ==
  ASSUME NEW c, DOMAIN c = Fields, NEW e, NEW mask \in SUBSET Registers, c.mask = mask
  PROVE  LET f == [c EXCEPT !.run = 0, !.lastNext = e]
         IN  Resting(f) /\ WriteBack(f) = mask
BY DEF Resting, Fields, WriteBack

LEMMA Replied ==
  ASSUME NEW c, NEW block, NEW idx \in Int, NEW mask \in SUBSET Registers,
         Entered(c, block, idx, mask), NEW ir, NEW n \in Int, NEW e \in idx + 1..n, NEW k \in idx..e - 1
  PROVE  Settled(Reply(c, block, ir, idx, k, e), idx, n, mask) /\ ~Reply(c, block, ir, idx, k, e).dry
<1> DEFINE d == IF k = idx THEN c ELSE Again(c, block, ir, k, e - k)
           f == [d EXCEPT !.run = 0, !.lastNext = e]
<1>1. DOMAIN d = Fields /\ d.mask = mask
  <2>1. CASE k = idx
    BY <2>1 DEF Entered, Resting
  <2>2. CASE k # idx
    <3>1. k > idx /\ e - k \in Int /\ e - k > 0
      BY <2>2
    <3> QED BY <2>2, <3>1, Continues
  <2> QED BY <2>1, <2>2
<1>2. Reply(c, block, ir, idx, k, e) = Outcome(e, f, WriteBack(f), FALSE)
  BY DEF Reply
<1> HIDE DEF d
<1>3. Resting(f) /\ WriteBack(f) = mask
  BY <1>1, Released
<1> HIDE DEF f
<1> QED BY <1>2, <1>3 DEF Outcome, Settled

LEMMA Declined ==
  ASSUME NEW c, NEW block, NEW idx \in Int, NEW mask \in SUBSET Registers,
         Entered(c, block, idx, mask), NEW ir, NEW n \in Int, NEW k \in idx + 1..n
  PROVE  Settled(DeclinedInside(c, block, ir, k), idx, n, mask) /\ ~DeclinedInside(c, block, ir, k).dry
<1> DEFINE a == Again(c, block, ir, k, 1)
           d == [a EXCEPT !.run = 0, !.lastNext = k]
<1>1. DOMAIN a = Fields /\ a.mask = mask
  BY Continues
<1>2. DeclinedInside(c, block, ir, k) = Outcome(k, d, WriteBack(d), FALSE)
  BY DEF DeclinedInside
<1> HIDE DEF a
<1>3. Resting(d) /\ WriteBack(d) = mask
  BY <1>1, Released
<1> HIDE DEF d
<1> QED BY <1>2, <1>3 DEF Outcome, Settled

LEMMA GaveUp ==
  ASSUME NEW c, Resting(c), NEW mask \in SUBSET Registers, NEW block, NEW ir, NEW idx, NEW n
  PROVE  Settled(decline_after_alloc_failure(c, mask, block, ir, idx), idx, n, mask)
BY DEF Settled, Outcome, decline_after_alloc_failure, Resting, Fields, invalidate

\* An emitter's answers: plain runs, split or not, bridged regions, declines
\* inside, and single fusions without the cache.
LEMMA AllReplies ==
  ASSUME NEW ir \in Seq([pc : Nat, op : Ops]), NEW idx \in 0..Len(ir) - 1,
         OpAt(ir, idx) \in Handled,
         NEW c, NEW block, NEW mask \in SUBSET Registers,
         Entered(c, block, idx, mask),
         NEW o \in Replies(c, block, ir, idx)
  PROVE  Settled(o, idx, Len(ir), mask) /\ ~o.dry
<1> PICK n \in Nat : n = Len(ir)
  OBVIOUS
<1> PICK run : run = lookahead(ir, idx)
  OBVIOUS
<1> PICK bridged : bridged = lookahead_bridged(ir, idx)
  OBVIOUS
<1>1. run \in 0..n - idx /\ bridged \in idx..n
  <2>1. idx \in 0..Len(ir)
    OBVIOUS
  <2> QED BY <2>1, RunInside, BridgedInside
<1>2. \/ \E m \in 1..run : o = Reply(c, block, ir, idx, idx, idx + m)
      \/ \E e \in idx + 1..idx + run : \E k \in idx..e - 1 : o = Reply(c, block, ir, idx, k, e)
      \/ \E k \in idx..idx + run - 1 : o = Reply(c, block, ir, idx, k, idx + run)
      \/ bridged # idx /\ o = Reply(c, block, ir, idx, idx, bridged)
      \/ \E k \in idx + 1..idx + run - 1 : o = DeclinedInside(c, block, ir, k)
  <2> DEFINE ends == IF SplitRuns THEN idx + 1..idx + run ELSE {idx + run}
             single == {Reply(c, block, ir, idx, idx, idx + m) : m \in {m \in 1..run : m <= MaxFusion}}
             plain(e) == {Reply(c, block, ir, idx, k, e) : k \in idx..e - 1}
             joined == {Reply(c, block, ir, idx, idx, e) : e \in {bridged} \ {idx}}
             inside == {DeclinedInside(c, block, ir, k) :
                          k \in {k \in idx + 1..idx + run - 1 : OpAt(ir, k) \in Unexpected}}
  <2> DEFINE U == UNION {plain(e) : e \in ends}
  <2>1. Replies(c, block, ir, idx) = IF ~CacheEnabled THEN single ELSE U \cup joined \cup inside
    BY DEF Replies
  <2>2. \/ o \in single \/ o \in joined \/ o \in inside
        \/ \E e \in ends : o \in plain(e)
    <3>1. o \in U => \E e \in ends : o \in plain(e)
      <4> HIDE DEF ends, plain
      <4> QED BY Zenon
    <3> HIDE DEF U, ends, single, plain, joined, inside
    <3>2. o \in single \/ o \in U \/ o \in joined \/ o \in inside
      BY <2>1
    <3> QED BY <3>1, <3>2
  <2>3. CASE o \in single
    BY <2>3
  <2>4. CASE o \in joined
    BY <2>4
  <2>5. CASE o \in inside
    BY <2>5
  <2>6. ASSUME NEW e \in ends, o \in plain(e)
        PROVE  \/ e \in idx + 1..idx + run /\ \E k \in idx..e - 1 : o = Reply(c, block, ir, idx, k, e)
               \/ \E k \in idx..idx + run - 1 : o = Reply(c, block, ir, idx, k, idx + run)
    <3>1. PICK k \in idx..e - 1 : o = Reply(c, block, ir, idx, k, e)
      BY <2>6
    <3>2. CASE SplitRuns
      BY <3>1, <3>2
    <3>3. CASE ~SplitRuns
      <4>1. e = idx + run
        BY <3>3
      <4> QED BY <3>1, <4>1
    <3> QED BY <3>2, <3>3
  <2> HIDE DEF ends, single, plain, joined, inside
  <2> QED BY <2>2, <2>3, <2>4, <2>5, <2>6
<1>3. ASSUME NEW e \in idx + 1..n, NEW k \in idx..e - 1, o = Reply(c, block, ir, idx, k, e)
      PROVE  Settled(o, idx, Len(ir), mask) /\ ~o.dry
  BY <1>3, Replied, SMTT(30)
<1>4. CASE \E m \in 1..run : o = Reply(c, block, ir, idx, idx, idx + m)
  BY <1>1, <1>3, <1>4, SMTT(30)
<1>5. CASE \E e \in idx + 1..idx + run : \E k \in idx..e - 1 :
             o = Reply(c, block, ir, idx, k, e)
  <2>1. PICK e \in idx + 1..idx + run : \E k \in idx..e - 1 : o = Reply(c, block, ir, idx, k, e)
    BY <1>5
  <2>2. e \in idx + 1..n
    BY <1>1
  <2> QED BY <1>3, <2>1, <2>2
<1>6. CASE \E k \in idx..idx + run - 1 : o = Reply(c, block, ir, idx, k, idx + run)
  <2>1. PICK k \in idx..idx + run - 1 : o = Reply(c, block, ir, idx, k, idx + run)
    BY <1>6
  <2>2. PICK e : e = idx + run
    OBVIOUS
  <2>3. e \in idx + 1..n /\ k \in idx..e - 1
    <3>1. idx \in Int /\ k \in Int /\ run \in Int /\ n \in Int /\ idx + run <= n
      BY <1>1, <2>1
    <3>2. idx <= k /\ k <= idx + run - 1
      BY <2>1, <3>1
    <3> QED BY <2>2, <3>1, <3>2
  <2>4. o = Reply(c, block, ir, idx, k, e)
    BY <2>1, <2>2
  <2> QED BY <1>3, <2>3, <2>4
<1>7. CASE bridged # idx /\ o = Reply(c, block, ir, idx, idx, bridged)
  BY <1>1, <1>3, <1>7
<1>8. CASE \E k \in idx + 1..idx + run - 1 : o = DeclinedInside(c, block, ir, k)
  <2>1. PICK k \in idx + 1..n : o = DeclinedInside(c, block, ir, k)
    BY <1>1, <1>8
  <2> QED BY <2>1, Declined
<1> QED BY <1>2, <1>4, <1>5, <1>6, <1>7, <1>8

\* The answers there are, one from an emitter apart.
Passing(c, mask) == Outcome(None, [c EXCEPT !.lastNext = -1], mask, FALSE)
Refusing(c) == LET d == [c EXCEPT !.lastNext = -1] IN Outcome(None, d, WriteBack(d), FALSE)

LEMMA Ways ==
  ASSUME NEW ir, NEW idx, NEW c, NEW block, NEW mask,
         NEW o \in translate_instruction(c, mask, block, ir, idx),
         NEW kept, kept = IF DeclinedRest(c, block, ir, idx) THEN c
                          ELSE [c EXCEPT !.declined = NotDeclined],
         NEW entered, entered = Enter(kept, mask, block, ir, idx),
         NEW dry, dry = decline_after_alloc_failure(kept, mask, block, ir, idx)
  PROVE  IF OpAt(ir, idx) = Arpl
         THEN o = Reply(entered, block, ir, idx, idx, idx + 1) \/ o = [dry EXCEPT !.next = Aborted]
         ELSE IF DeclinedRest(c, block, ir, idx) THEN o = Passing(c, mask)
         ELSE \/ OpAt(ir, idx) \in Handled /\ o \in Replies(entered, block, ir, idx)
              \/ o = dry \/ o = Refusing(entered)
<1> PICK rest \in BOOLEAN : rest <=> DeclinedRest(c, block, ir, idx)
  BY Zenon
<1> PICK all : all = translate_instruction(c, mask, block, ir, idx)
  OBVIOUS
<1>1. CASE OpAt(ir, idx) = Arpl
  <2>1. all = {Reply(entered, block, ir, idx, idx, idx + 1)}
                \cup (IF MayRunDry THEN {[dry EXCEPT !.next = Aborted]} ELSE {})
    BY <1>1, OpsAssumption DEF translate_instruction
  <2> QED BY <1>1, <2>1
<1>2. CASE OpAt(ir, idx) # Arpl /\ rest
  <2>1. all = {Passing(c, mask)}
    BY <1>2 DEF translate_instruction, Passing
  <2> QED BY <1>2, <2>1
<1>3. CASE OpAt(ir, idx) # Arpl /\ ~rest /\ OpAt(ir, idx) \in Handled
  <2>1. all = Replies(entered, block, ir, idx) \cup (IF MayRunDry THEN {dry} ELSE {})
    BY <1>3 DEF translate_instruction
  <2> QED BY <1>3, <2>1
<1>4. CASE OpAt(ir, idx) # Arpl /\ ~rest /\ OpAt(ir, idx) \notin Handled
  <2>1. all = {Refusing(entered)}
    BY <1>4 DEF translate_instruction, Refusing
  <2> QED BY <1>4, <2>1
<1> QED BY <1>1, <1>2, <1>3, <1>4

\* What is noted when a request of a block runs out of registers.
RestFrom(block, ir, idx) == [block |-> block, idx |-> idx, n |-> Len(ir), pc |-> ir[1].pc]

\* The request ran out of registers.
RanDry(o) == o.dry = TRUE

\* A request that runs out of registers gives up the rest of the block.
GivesUp(o, block, ir, idx) ==
  RanDry(o) => o.next \in {None, Aborted} /\ o.cache.declined = RestFrom(block, ir, idx)

\* The request leaves the record of a block given up as it was, and replies to
\* nothing but ARPL.
LeavesIt(o, c, ir, idx) ==
  /\ o.cache.declined = c.declined /\ ~RanDry(o)
  /\ o.next = None \/ (o.next = idx + 1 /\ OpAt(ir, idx) = Arpl)

\* Every outcome of a request.
LEMMA EveryOutcome ==
  ASSUME NEW ir \in Seq([pc : Nat, op : Ops]), NEW idx \in 0..Len(ir) - 1,
         NEW c, Resting(c), NEW block, NEW mask \in SUBSET Registers,
         NEW o \in translate_instruction(c, mask, block, ir, idx)
  PROVE  Settled(o, idx, Len(ir), mask) /\ GivesUp(o, block, ir, idx)
<1> USE DEF RanDry, GivesUp
<1> PICK kept : kept = IF DeclinedRest(c, block, ir, idx) THEN c
                       ELSE [c EXCEPT !.declined = NotDeclined]
  OBVIOUS
<1> PICK entered : entered = Enter(kept, mask, block, ir, idx)
  OBVIOUS
<1> PICK dry : dry = decline_after_alloc_failure(kept, mask, block, ir, idx)
  OBVIOUS
<1>1. Resting(kept)
  BY DEF Resting, Fields
<1>2. Entered(entered, block, idx, mask)
  BY <1>1, Enters
<1>3. Settled(dry, idx, Len(ir), mask) /\ DOMAIN dry = {"next", "cache", "mask", "dry"}
  BY <1>1, GaveUp DEF decline_after_alloc_failure, Outcome
<1>4. /\ dry.cache.declined = RestFrom(block, ir, idx)
      /\ dry.next = None
  BY <1>1 DEF decline_after_alloc_failure, Outcome, Resting, Fields, invalidate, RestFrom
<1>5. \/ o = Reply(entered, block, ir, idx, idx, idx + 1)
      \/ o = dry \/ o = [dry EXCEPT !.next = Aborted]
      \/ o = Passing(c, mask)
      \/ OpAt(ir, idx) \in Handled /\ o \in Replies(entered, block, ir, idx)
      \/ o = Refusing(entered)
  BY Ways
<1>6. CASE o = Reply(entered, block, ir, idx, idx, idx + 1)
  <2>1. idx \in Int /\ Len(ir) \in Int /\ idx + 1 \in idx + 1..Len(ir) /\ idx \in idx..idx + 1 - 1
    OBVIOUS
  <2> QED BY <1>2, <1>6, <2>1, Replied
<1>7. CASE o = dry \/ o = [dry EXCEPT !.next = Aborted]
  BY <1>3, <1>4, <1>7 DEF Settled
<1>8. CASE o = Passing(c, mask)
  <2> PICK passed : passed = [c EXCEPT !.lastNext = -1]
    OBVIOUS
  <2>1. Resting(passed)
    BY DEF Resting, Fields
  <2> QED BY <1>8, <2>1 DEF Settled, Outcome, Passing
<1>9. CASE OpAt(ir, idx) \in Handled /\ o \in Replies(entered, block, ir, idx)
  BY <1>2, <1>9, AllReplies
<1>10. CASE o = Refusing(entered)
  <2> PICK refused : refused = [entered EXCEPT !.lastNext = -1]
    OBVIOUS
  <2>1. Resting(refused) /\ refused.mask = mask
    BY <1>2 DEF Entered, Resting, Fields
  <2>2. WriteBack(refused) = mask
    BY <2>1 DEF WriteBack, Resting
  <2> QED BY <1>10, <2>1, <2>2 DEF Settled, Outcome, Refusing
<1> QED BY <1>5, <1>6, <1>7, <1>8, <1>9, <1>10

\* In the rest of a block that was given up there is ARPL, and nothing else.
LEMMA StaysDeclined ==
  ASSUME NEW ir, NEW idx \in Int, NEW c, Resting(c), NEW block, NEW mask,
         DeclinedRest(c, block, ir, idx),
         NEW o \in translate_instruction(c, mask, block, ir, idx), o.next # Aborted
  PROVE  LeavesIt(o, c, ir, idx)
<1> USE DEF RanDry, LeavesIt
<1> PICK entered : entered = Enter(c, mask, block, ir, idx)
  OBVIOUS
<1> PICK dry : dry = decline_after_alloc_failure(c, mask, block, ir, idx)
  OBVIOUS
<1>1. IF OpAt(ir, idx) = Arpl
      THEN o = Reply(entered, block, ir, idx, idx, idx + 1) \/ o = [dry EXCEPT !.next = Aborted]
      ELSE o = Passing(c, mask)
  BY Ways
<1>2. CASE OpAt(ir, idx) = Arpl
  <2>1. DOMAIN dry = {"next", "cache", "mask", "dry"}
    BY DEF decline_after_alloc_failure, Outcome
  <2>2. o = Reply(entered, block, ir, idx, idx, idx + 1)
    BY <1>1, <1>2, <2>1
  <2>3. entered.declined = c.declined /\ DOMAIN entered = Fields
    BY DEF Enter, invalidate, Resting, Fields
  <2> QED BY <1>2, <2>2, <2>3 DEF Reply, Outcome, Fields
<1>3. CASE OpAt(ir, idx) # Arpl
  BY <1>1, <1>3 DEF Passing, Outcome, Resting, Fields
<1> QED BY <1>2, <1>3

-----------------------------------------------------------------------------
(* The refinement mapping *)

\* No block is longer than the window compared before cached IR is used.
WindowCovers == \A c \in Contents : Len(c) <= Window

Insns == [pc : Nat, op : Ops]

\* What a thread may be translating; nothing, before its first block.
Decoded == Contents \cup {<<>>}

LEMMA DecodedType ==
  ASSUME NEW ir \in Decoded
  PROVE  ir \in Seq(Insns) /\ Len(ir) \in Nat /\ (Len(ir) > 0 => ir \in Contents)
<1>1. CASE ir \in Contents
  <2>1. ir \in Seq([pc : Nat, op : Ops])
    BY <1>1, ContentsAssumption
  <2>2. ir \in Seq(Insns)
    BY <2>1 DEF Insns
  <2> QED BY <1>1, <2>2
<1>2. CASE ir = <<>>
  BY <1>2
<1> QED BY <1>1, <1>2 DEF Decoded

-----------------------------------------------------------------------------
(* Code *)

\* Blocks that are one from an instruction on have the same stretch behind it.
LEMMA SameSlice ==
  ASSUME NEW S, NEW ir \in Seq(S), NEW a \in 0..Len(ir), NEW b \in a + 1..Len(ir),
         NEW other \in Seq(S), Len(other) = Len(ir),
         \A i \in a + 1..Len(ir) : other[i] = ir[i]
  PROVE  SubSeq(other, a + 1, b) = SubSeq(ir, a + 1, b)
<1>1. a \in Int /\ b \in Int /\ a + 1 \in Int
  OBVIOUS
<1>2. \A i \in a + 1..b : other[i] \in S /\ ir[i] \in S
  BY <1>1
<1>3. /\ SubSeq(other, a + 1, b) \in Seq(S) /\ Len(SubSeq(other, a + 1, b)) = b - (a + 1) + 1
      /\ \A i \in 1..b - (a + 1) + 1 : SubSeq(other, a + 1, b)[i] = other[a + 1 + i - 1]
  BY <1>1, <1>2, SubSeqProperties
<1>4. /\ SubSeq(ir, a + 1, b) \in Seq(S) /\ Len(SubSeq(ir, a + 1, b)) = b - (a + 1) + 1
      /\ \A i \in 1..b - (a + 1) + 1 : SubSeq(ir, a + 1, b)[i] = ir[a + 1 + i - 1]
  BY <1>1, <1>2, SubSeqProperties
<1>5. \A i \in 1..b - (a + 1) + 1 : a + 1 + i - 1 \in a + 1..Len(ir)
  BY <1>1
<1>6. \A i \in 1..b - (a + 1) + 1 : SubSeq(other, a + 1, b)[i] = SubSeq(ir, a + 1, b)[i]
  BY <1>3, <1>4, <1>5
<1> QED BY <1>3, <1>4, <1>6, SeqEqual

\* Code for the next instructions is added to the code for the first ones.
LEMMA Grows ==
  ASSUME NEW S, NEW ir \in Seq(S), NEW a \in 0..Len(ir), NEW b \in a + 1..Len(ir),
         NEW other \in Seq(S), Len(other) = Len(ir),
         \A i \in a + 1..Len(ir) : other[i] = ir[i]
  PROVE  SubSeq(ir, 1, a) \o SubSeq(other, a + 1, b) = SubSeq(ir, 1, b)
<1>1. SubSeq(other, a + 1, b) = SubSeq(ir, a + 1, b)
  BY SameSlice
<1>2. 1 \in 1..Len(ir) + 1 /\ a \in 1 - 1..Len(ir) /\ b \in a..Len(ir)
  OBVIOUS
<1>3. SubSeq(ir, 1, a) \o SubSeq(ir, a + 1, b) = SubSeq(ir, 1, b)
  BY <1>2, ConcatAdjacentSubSeq
<1> QED BY <1>1, <1>3

LEMMA GrowsByOne ==
  ASSUME NEW S, NEW ir \in Seq(S), NEW a \in 0..Len(ir) - 1
  PROVE  Append(SubSeq(ir, 1, a), ir[a + 1]) = SubSeq(ir, 1, a + 1)
<1> PICK n \in Nat : n = Len(ir)
  OBVIOUS
<1>1. \A i \in 1..a + 1 : ir[i] \in S
  OBVIOUS
<1>2. a \in Int /\ a + 1 \in Int /\ 1 \in Int
  OBVIOUS
<1>3. /\ SubSeq(ir, 1, a) \in Seq(S) /\ Len(SubSeq(ir, 1, a)) = a
      /\ \A i \in 1..a : SubSeq(ir, 1, a)[i] = ir[i]
  <2>1. \A i \in 1..a : ir[i] \in S
    BY <1>1
  <2>2. /\ SubSeq(ir, 1, a) \in Seq(S)
        /\ Len(SubSeq(ir, 1, a)) = IF 1 <= a THEN a - 1 + 1 ELSE 0
        /\ \A i \in 1..a - 1 + 1 : SubSeq(ir, 1, a)[i] = ir[1 + i - 1]
    BY <1>2, <2>1, SubSeqProperties
  <2> QED BY <2>2
<1>4. /\ SubSeq(ir, 1, a + 1) \in Seq(S) /\ Len(SubSeq(ir, 1, a + 1)) = a + 1
      /\ \A i \in 1..a + 1 : SubSeq(ir, 1, a + 1)[i] = ir[i]
  <2>2. /\ SubSeq(ir, 1, a + 1) \in Seq(S)
        /\ Len(SubSeq(ir, 1, a + 1)) = IF 1 <= a + 1 THEN a + 1 - 1 + 1 ELSE 0
        /\ \A i \in 1..a + 1 - 1 + 1 : SubSeq(ir, 1, a + 1)[i] = ir[1 + i - 1]
    BY <1>1, <1>2, SubSeqProperties
  <2> QED BY <2>2
<1> PICK pre : pre = SubSeq(ir, 1, a)
  OBVIOUS
<1> PICK all : all = SubSeq(ir, 1, a + 1)
  OBVIOUS
<1>5. ir[a + 1] \in S
  BY <1>1
<1>6. /\ Append(pre, ir[a + 1]) \in Seq(S) /\ Len(Append(pre, ir[a + 1])) = a + 1
      /\ \A i \in 1..a : Append(pre, ir[a + 1])[i] = pre[i]
      /\ Append(pre, ir[a + 1])[a + 1] = ir[a + 1]
  BY <1>3, <1>5, AppendProperties
<1>7. \A i \in 1..a + 1 : Append(pre, ir[a + 1])[i] = all[i]
  BY <1>3, <1>4, <1>6
<1> QED BY <1>4, <1>6, <1>7, SeqEqual

-----------------------------------------------------------------------------
(* Cached IR *)

\* A window that covers blocks shows the rest of one.
LEMMA Probed ==
  ASSUME WindowCovers, NEW s \in Contents, NEW k \in 0..Len(s) - 1, NEW i \in k + 1..Len(s)
  PROVE  Probe(s, k)[i - k] = s[i]
<1>0. s \in Seq(Insns)
  BY DecodedType DEF Decoded
<1> PICK n \in Nat : n = Len(s)
  BY <1>0
<1>1. n <= Window /\ Window \in Nat
  BY SidecarAssumption DEF WindowCovers
<1>2. Min({n, k + Window}) = n
  BY <1>1 DEF Min
<1>3. Probe(s, k) = SubSeq(s, k + 1, n)
  BY <1>2 DEF Probe
<1>4. \A j \in k + 1..n : s[j] \in Insns
  BY <1>0
<1>5. k + 1 \in Int /\ n \in Int
  OBVIOUS
<1>6. \A j \in 1..n - (k + 1) + 1 : SubSeq(s, k + 1, n)[j] = s[k + 1 + j - 1]
  BY <1>4, <1>5, SubSeqProperties
<1>7. i - k \in 1..n - (k + 1) + 1 /\ k + 1 + (i - k) - 1 = i
  OBVIOUS
<1> QED BY <1>3, <1>6, <1>7

\* Blocks that are one from an instruction on show the same there.
LEMMA SameProbe ==
  ASSUME NEW ir \in Seq(Insns), NEW a \in 0..Len(ir) - 1,
         NEW other \in Seq(Insns), Len(other) = Len(ir),
         \A i \in a + 1..Len(ir) : other[i] = ir[i]
  PROVE  Probe(ir, a) = Probe(other, a)
<1> PICK n \in Nat : n = Len(ir)
  OBVIOUS
<1> PICK b : b = Min({n, a + Window})
  OBVIOUS
<1>1. b \in a + 1..Len(ir)
  <2>1. Window \in Nat /\ Window > 0
    BY SidecarAssumption
  <2> QED BY <2>1 DEF Min
<1>2. a \in 0..Len(ir)
  OBVIOUS
<1>3. SubSeq(other, a + 1, b) = SubSeq(ir, a + 1, b)
  BY <1>1, <1>2, SameSlice
<1> QED BY <1>3 DEF Probe

\* What a request works with has the length of the thread's block, and, when
\* the window covers blocks, is the thread's block from the request on.
LEMMA Fresh ==
  ASSUME NEW ir \in Decoded, NEW e, e.ir \in Decoded, NEW r,
         r.n = Len(ir), r.idx \in 0..Len(ir) - 1
  PROVE  LET got == Loaded(e, r, ir).ir
         IN  /\ got \in Contents /\ got \in Seq(Insns) /\ Len(got) = Len(ir)
             /\ WindowCovers => \A i \in r.idx + 1..Len(ir) : got[i] = ir[i]
<1> PICK n \in Nat : n = Len(ir)
  BY DecodedType
<1> PICK k \in 0..n - 1 : k = r.idx
  OBVIOUS
<1>1. ir \in Contents /\ ir \in Seq(Insns)
  BY DecodedType
<1>2. Loaded(e, r, ir).ir = IF Reusable(e, r, ir) THEN e.ir ELSE ir
  BY DEF Loaded
<1>3. CASE ~Reusable(e, r, ir)
  BY <1>1, <1>2, <1>3
<1>4. CASE Reusable(e, r, ir)
  <2>1. Len(e.ir) = n /\ Probe(ir, k) = Probe(e.ir, k)
    BY <1>4 DEF Reusable, SameBlock
  <2>2. e.ir \in Contents /\ e.ir \in Seq(Insns)
    BY <2>1, DecodedType
  <2>3. ASSUME WindowCovers, NEW i \in k + 1..n PROVE e.ir[i] = ir[i]
    <3>1. Probe(ir, k)[i - k] = ir[i]
      BY <1>1, <2>3, Probed
    <3>2. Probe(e.ir, k)[i - k] = e.ir[i]
      BY <2>1, <2>2, <2>3, Probed
    <3> QED BY <2>1, <3>1, <3>2
  <2> QED BY <1>2, <1>4, <2>1, <2>2, <2>3
<1> QED BY <1>3, <1>4

-----------------------------------------------------------------------------
(* The inductive invariant *)

ThreadFields == {"pc", "block", "ir", "at", "dry"}

\* Translations, and what the sidecar keeps of them, are of blocks.
Typed ==
  /\ DOMAIN th = Threads /\ DOMAIN tr = Threads /\ DOMAIN x87 = Threads /\ DOMAIN irc = Threads
  /\ \A t \in Threads :
       /\ DOMAIN th[t] = ThreadFields
       /\ th[t].ir \in Decoded /\ th[t].at \in 0..Len(th[t].ir)
       /\ th[t].pc \in {"wait", "retry", "fall"} => th[t].at < Len(th[t].ir)
       /\ DOMAIN tr[t] = {"mask", "code"} /\ tr[t].mask \in SUBSET Registers
       /\ Resting(x87[t])
       /\ DOMAIN irc[t] = {"block", "ir", "next"} /\ irc[t].ir \in Decoded

\* There is code for the first k instructions of a block.
UpTo(ir, code, k) == WindowCovers => code = SubSeq(ir, 1, k)

\* Code is where an answer says stock goes on.
Covers(ir, code, at, next) ==
  \/ next = None /\ UpTo(ir, code, at)
  \/ next \in at + 1..Len(ir) /\ UpTo(ir, code, next)

\* A thread's messages are about the instruction it is at.
Agrees(t) ==
  /\ ~Waits(t) => UpTo(th[t].ir, tr[t].code, th[t].at)
  /\ Asked(service, t) # {} => UpTo(th[t].ir, tr[t].code, th[t].at)
  /\ \A i \in Asked(service, t) :
       service[i].n = Len(th[t].ir) /\ service[i].idx = th[t].at
  /\ \A i \in Sent(replies, t) : Covers(th[t].ir, tr[t].code, th[t].at, replies[i].next)
  /\ Held(loop, t) = 1 => Covers(th[t].ir, tr[t].code, th[t].at, loop.msg.next)

Faithful == InFlight /\ Typed /\ \A t \in Threads : Agrees(t)

-----------------------------------------------------------------------------
(* Whose messages there are *)

\* With one message in all, the others are none; with none, all.
LEMMA Sole ==
  ASSUME NEW S, NEW sv \in Seq(S), NEW R, NEW rp \in Seq(R), NEW lp, NEW t, NEW n \in {0, 1},
         Cardinality(Asked(sv, t)) + Cardinality(Sent(rp, t)) + Held(lp, t) <= n
  PROVE  /\ n = 0 => Asked(sv, t) = {} /\ Sent(rp, t) = {} /\ Held(lp, t) = 0
         /\ Asked(sv, t) # {} => Sent(rp, t) = {} /\ Held(lp, t) = 0
         /\ Held(lp, t) = 1 => Asked(sv, t) = {} /\ Sent(rp, t) = {}
         /\ Sent(rp, t) # {} => Asked(sv, t) = {} /\ Held(lp, t) = 0
<1>1. /\ Cardinality(Asked(sv, t)) \in Nat /\ Cardinality(Sent(rp, t)) \in Nat
      /\ Held(lp, t) \in {0, 1}
  BY Counts DEF Held
<1>2. IsFiniteSet(Asked(sv, t))
  <2>1. Asked(sv, t) \in SUBSET (1..Len(sv)) /\ Len(sv) \in Int
    BY DEF Asked
  <2> QED BY <2>1, FinitePositions
<1>3. IsFiniteSet(Sent(rp, t))
  <2>1. Sent(rp, t) \in SUBSET (1..Len(rp)) /\ Len(rp) \in Int
    BY DEF Sent
  <2> QED BY <2>1, FinitePositions
<1>4. /\ Cardinality(Asked(sv, t)) = 0 <=> Asked(sv, t) = {}
      /\ Cardinality(Sent(rp, t)) = 0 <=> Sent(rp, t) = {}
  BY <1>2, <1>3, FS_EmptySet
<1> QED BY <1>1, <1>4

LEMMA Mine ==
  ASSUME InFlight, NEW t \in Threads
  PROVE  /\ ~Waits(t) => Asked(service, t) = {} /\ Sent(replies, t) = {} /\ Held(loop, t) = 0
         /\ Asked(service, t) # {} => Sent(replies, t) = {} /\ Held(loop, t) = 0
         /\ Held(loop, t) = 1 => Asked(service, t) = {} /\ Sent(replies, t) = {}
         /\ Sent(replies, t) # {} => Asked(service, t) = {} /\ Held(loop, t) = 0
<1> PICK n \in {0, 1} : n = IF t \in Waiting THEN 1 ELSE 0
  OBVIOUS
<1>1. service \in Seq(Range(service)) /\ replies \in Seq(Range(replies))
  BY DEF InFlight, Shape
<1>2. Cardinality(Asked(service, t)) + Cardinality(Sent(replies, t)) + Held(loop, t) <= n
  BY DEF InFlight, Single
<1>3. ~Waits(t) => n = 0
  BY DEF Waiting
<1> QED BY <1>1, <1>2, <1>3, Sole

LEMMA MineNext ==
  ASSUME InFlight', NEW t \in Threads
  PROVE  /\ ~Waits(t)' => Asked(service', t) = {} /\ Sent(replies', t) = {} /\ Held(loop', t) = 0
         /\ Asked(service', t) # {} => Sent(replies', t) = {} /\ Held(loop', t) = 0
         /\ Held(loop', t) = 1 => Asked(service', t) = {} /\ Sent(replies', t) = {}
         /\ Sent(replies', t) # {} => Asked(service', t) = {} /\ Held(loop', t) = 0
<1> PICK n \in {0, 1} : n = IF t \in Waiting' THEN 1 ELSE 0
  OBVIOUS
<1>1. service' \in Seq(Range(service')) /\ replies' \in Seq(Range(replies'))
  BY DEF InFlight, Shape
<1>2. Cardinality(Asked(service', t)) + Cardinality(Sent(replies', t)) + Held(loop', t) <= n
  BY DEF InFlight, Single
<1>3. ~Waits(t)' => n = 0
  BY DEF Waiting
<1> QED BY <1>1, <1>2, <1>3, Sole

-----------------------------------------------------------------------------
(* What becomes of messages *)

\* No message of u's is new, or other than it was.
Carried(u) ==
  /\ \A i \in Asked(service', u) : \E j \in Asked(service, u) : service'[i] = service[j]
  /\ \A i \in Sent(replies', u) :
       \/ \E j \in Sent(replies, u) : replies'[i] = replies[j]
       \/ Held(loop, u) = 1 /\ replies'[i] = loop.msg
  /\ Held(loop', u) = 1 => Held(loop, u) = 1 /\ loop'.msg = loop.msg

LEMMA AskCarries ==
  ASSUME InFlight, NEW t \in Threads, Ask(t)
  PROVE  /\ \A u \in Threads \ {t} : Carried(u)
         /\ Asked(service', t) # {} /\ \A i \in Asked(service', t) : service'[i] = Request(t)
<1> PICK m : m = Request(t)
  OBVIOUS
<1>1. m.tr = t
  BY DEF Request
<1>2. service' = Append(service, m) /\ UNCHANGED <<replies, loop>> /\ th[t].pc = "walk"
  BY DEF Ask
<1> PICK n \in Nat : n = Len(service)
  BY DEF InFlight, Shape
<1>3. /\ DOMAIN service' = 1..n + 1 /\ service'[n + 1] = m
      /\ \A i \in 1..n : service'[i] = service[i]
      /\ DOMAIN service = 1..n
  <2>1. service \in Seq(Range(service))
    BY DEF InFlight, Shape
  <2>2. /\ Len(Append(service, m)) = n + 1
        /\ Append(service, m) \in Seq(Range(service) \cup {m})
        /\ Append(service, m)[n + 1] = m
        /\ \A i \in 1..n : Append(service, m)[i] = service[i]
    BY <2>1, Put
  <2> QED BY <1>2, <2>1, <2>2
<1>4. Asked(service, t) = {}
  BY <1>2, Mine DEF Waits
<1>5. n + 1 \in Asked(service', t)
  BY <1>1, <1>3 DEF Asked
<1>6. \A i \in Asked(service', t) : service'[i] = m
  BY <1>3, <1>4 DEF Asked
<1>7. ASSUME NEW u \in Threads \ {t} PROVE Carried(u)
  <2>1. \A i \in Asked(service', u) : \E j \in Asked(service, u) : service'[i] = service[j]
    BY <1>1, <1>3 DEF Asked
  <2> QED BY <1>2, <2>1 DEF Carried
<1> QED BY <1>5, <1>6, <1>7

LEMMA ReceiveCarries ==
  ASSUME InFlight, NEW t \in Threads, Receive(t)
  PROVE  /\ \A u \in Threads \ {t} : Carried(u)
         /\ 1 \in Sent(replies, t) /\ Head(replies) = replies[1]
<1> PICK m : m = Head(replies)
  OBVIOUS
<1>1. /\ m.id = Tag[t] /\ replies # <<>> /\ replies' = Tail(replies)
      /\ UNCHANGED <<service, loop>>
  BY DEF Receive, Received
<1> PICK n \in Nat \ {0} : n = Len(replies)
  BY <1>1 DEF InFlight, Shape
<1>2. /\ DOMAIN replies' = 1..n - 1 /\ \A i \in 1..n - 1 : replies'[i] = replies[i + 1]
      /\ DOMAIN replies = 1..n /\ m = replies[1]
  <2>1. replies \in Seq(Range(replies))
    BY DEF InFlight, Shape
  <2>2. /\ Len(replies') = n - 1 /\ replies' \in Seq(Range(replies))
        /\ \A i \in 1..n - 1 : replies'[i] = replies[i + 1]
    BY <1>1, <2>1, Taken
  <2> QED BY <2>1, <2>2
<1>3. 1 \in Sent(replies, t)
  BY <1>1, <1>2 DEF Sent
<1>4. ASSUME NEW u \in Threads \ {t} PROVE Carried(u)
  <2>1. \A i \in Sent(replies', u) : \E j \in Sent(replies, u) : replies'[i] = replies[j]
    <3> SUFFICES ASSUME NEW i \in Sent(replies', u)
                 PROVE  i + 1 \in Sent(replies, u) /\ replies'[i] = replies[i + 1]
      OBVIOUS
    <3> QED BY <1>2 DEF Sent
  <2> QED BY <1>1, <2>1 DEF Carried
<1> QED BY <1>2, <1>3, <1>4

LEMMA AnswerCarries ==
  ASSUME InFlight, NEW r, Serving(r), NEW next, Answer(r, next)
  PROVE  /\ r.tr \in Threads /\ 1 \in Asked(service, r.tr) /\ service[1] = r
         /\ Held(loop', r.tr) = 1 /\ loop'.msg.next = next
         /\ \A u \in Threads \ {r.tr} : Carried(u)
<1>1. /\ service # <<>> /\ r = Head(service) /\ service \in Seq(Range(service))
      /\ service' = Tail(service) /\ UNCHANGED replies
      /\ loop = Receiving /\ loop' = Replying(r, next)
  BY DEF Serving, Answer, InFlight, Shape
<1> PICK n \in Nat \ {0} : n = Len(service)
  BY <1>1
<1>2. /\ DOMAIN service' = 1..n - 1 /\ \A i \in 1..n - 1 : service'[i] = service[i + 1]
      /\ DOMAIN service = 1..n /\ r = service[1]
  <2>1. /\ Len(service') = n - 1 /\ service' \in Seq(Range(service))
        /\ \A i \in 1..n - 1 : service'[i] = service[i + 1]
    BY <1>1, Taken
  <2> QED BY <1>1, <2>1
<1>3. r.tr \in Threads /\ r.id = Tag[r.tr]
  BY <1>2 DEF InFlight, Shape
<1>4. 1 \in Asked(service, r.tr)
  BY <1>2 DEF Asked
<1>5. loop'.state = "reply" /\ loop'.msg.id = Tag[r.tr] /\ loop'.msg.next = next
  BY <1>1, <1>3 DEF Replying, ReplyMsg
<1>6. \A u \in Threads : Held(loop', u) = IF u = r.tr THEN 1 ELSE 0
  BY <1>3, <1>5, Distinct DEF Held
<1>7. ASSUME NEW u \in Threads \ {r.tr} PROVE Carried(u)
  <2>1. \A i \in Asked(service', u) : \E j \in Asked(service, u) : service'[i] = service[j]
    <3> SUFFICES ASSUME NEW i \in Asked(service', u)
                 PROVE  i + 1 \in Asked(service, u) /\ service'[i] = service[i + 1]
      OBVIOUS
    <3> QED BY <1>2 DEF Asked
  <2>2. \A i \in Sent(replies', u) : \E j \in Sent(replies, u) : replies'[i] = replies[j]
    BY <1>1
  <2>3. Held(loop', u) = 0
    BY <1>6
  <2> QED BY <2>1, <2>2, <2>3 DEF Carried
<1> QED BY <1>2, <1>3, <1>4, <1>5, <1>6, <1>7

LEMMA SendCarries ==
  ASSUME InFlight, SendReply \/ SendFails
  PROVE  \A u \in Threads : Carried(u)
<1>1. PICK m : replies' = Append(replies, m) /\ (m = loop.msg \/ m = SendOnceNote)
  BY DEF SendReply, SendFails
<1>2. loop.state = "reply" /\ loop' = Receiving /\ UNCHANGED service
  BY DEF SendReply, SendFails
<1> PICK n \in Nat : n = Len(replies)
  BY DEF InFlight, Shape
<1>3. /\ DOMAIN replies' = 1..n + 1 /\ replies'[n + 1] = m
      /\ \A i \in 1..n : replies'[i] = replies[i]
      /\ DOMAIN replies = 1..n
  <2>1. replies \in Seq(Range(replies))
    BY DEF InFlight, Shape
  <2>2. /\ Len(Append(replies, m)) = n + 1
        /\ Append(replies, m) \in Seq(Range(replies) \cup {m})
        /\ Append(replies, m)[n + 1] = m
        /\ \A i \in 1..n : Append(replies, m)[i] = replies[i]
    BY <2>1, Put
  <2> QED BY <1>1, <2>1, <2>2
<1> SUFFICES ASSUME NEW u \in Threads PROVE Carried(u)
  OBVIOUS
<1>4. ASSUME NEW i \in Sent(replies', u)
      PROVE  \/ \E j \in Sent(replies, u) : replies'[i] = replies[j]
             \/ Held(loop, u) = 1 /\ replies'[i] = loop.msg
  <2>1. replies'[i].id = Tag[u] /\ i \in 1..n + 1
    BY <1>3, <1>4 DEF Sent
  <2>2. CASE i \in 1..n
    BY <1>3, <2>1, <2>2 DEF Sent
  <2>3. CASE i = n + 1
    <3>1. m = loop.msg /\ m.id = Tag[u]
      BY <1>1, <1>3, <2>1, <2>3, Plain
    <3> QED BY <1>2, <1>3, <2>3, <3>1 DEF Held
  <2>4. i \in 1..n \/ i = n + 1
    BY <2>1
  <2> QED BY <2>2, <2>3, <2>4
<1>5. Held(loop', u) = 0
  BY <1>2, Plain DEF Idle
<1>6. \A i \in Asked(service', u) : \E j \in Asked(service, u) : service'[i] = service[j]
  BY <1>2
<1> QED BY <1>4, <1>5, <1>6 DEF Carried

LEMMA DieCarries ==
  ASSUME InFlight, Die
  PROVE  \A u \in Threads : Carried(u)
<1> PICK open : open = Len(service) + (IF loop.state = "reply" THEN 1 ELSE 0)
  OBVIOUS
<1> PICK notes : notes = [i \in 1..open |-> SendOnceNote]
  OBVIOUS
<1>1. loop' = Gone /\ service' = <<>> /\ replies' = replies \o notes
  BY DEF Die
<1> PICK n \in Nat : n = Len(replies)
  BY DEF InFlight, Shape
<1>2. Len(service) \in Nat /\ open \in Nat /\ replies \in Seq(Range(replies))
  BY DEF InFlight, Shape
<1>3. /\ notes \in Seq({SendOnceNote}) /\ Len(notes) = open
      /\ \A i \in 1..open : notes[i] = SendOnceNote
  BY <1>2
<1>4. /\ DOMAIN replies = 1..n /\ DOMAIN replies' = 1..n + open
      /\ \A i \in 1..n + open : replies'[i] = IF i <= n THEN replies[i] ELSE SendOnceNote
  <2>1. /\ replies \in Seq(Range(replies) \cup {SendOnceNote})
        /\ notes \in Seq(Range(replies) \cup {SendOnceNote})
    BY <1>2, <1>3
  <2>2. /\ replies \o notes \in Seq(Range(replies) \cup {SendOnceNote})
        /\ Len(replies \o notes) = n + open
    <3>1. Len(replies \o notes) = Len(replies) + Len(notes)
      BY <2>1, ConcatProperties
    <3>2. replies \o notes \in Seq(Range(replies) \cup {SendOnceNote})
      BY <2>1, ConcatProperties
    <3> QED BY <1>3, <3>1, <3>2
  <2>3. \A i \in 1..n + open :
          (replies \o notes)[i] = IF i <= n THEN replies[i] ELSE notes[i - n]
    <3>1. \A i \in 1..Len(replies) + Len(notes) :
            (replies \o notes)[i] = IF i <= Len(replies) THEN replies[i] ELSE notes[i - Len(replies)]
      BY <2>1, ConcatProperties
    <3> QED BY <1>3, <3>1
  <2>4. \A i \in 1..n + open : i > n => i - n \in 1..open
    BY <1>2
  <2> QED BY <1>1, <1>2, <1>3, <2>2, <2>3, <2>4
<1> SUFFICES ASSUME NEW u \in Threads PROVE Carried(u)
  OBVIOUS
<1>5. \A i \in Sent(replies', u) : \E j \in Sent(replies, u) : replies'[i] = replies[j]
  <2> SUFFICES ASSUME NEW i \in Sent(replies', u)
               PROVE  i \in Sent(replies, u) /\ replies'[i] = replies[i]
    OBVIOUS
  <2>1. i \in 1..n + open /\ replies'[i].id = Tag[u]
    BY <1>4 DEF Sent
  <2>2. i <= n
    BY <1>4, <2>1, Plain
  <2>3. i \in 1..n /\ replies'[i] = replies[i]
    BY <1>2, <1>4, <2>1, <2>2
  <2> QED BY <1>4, <2>1, <2>3 DEF Sent
<1>6. Held(loop', u) = 0
  BY <1>1, Plain DEF Idle
<1>7. Asked(service', u) = {}
  BY <1>1 DEF Asked
<1>8. \A i \in Asked(service', u) : \E j \in Asked(service, u) : service'[i] = service[j]
  BY <1>7
<1> QED BY <1>5, <1>6, <1>8 DEF Carried

-----------------------------------------------------------------------------
(* Threads that agree with their messages *)

\* Nothing of t's changes, and no message of its is new or other than it was.
LEMMA Undisturbed ==
  ASSUME NEW t, Agrees(t),
         th'[t].ir = th[t].ir, th'[t].at = th[t].at, Waits(t)' = Waits(t),
         tr'[t].code = tr[t].code,
         Carried(t)
  PROVE  Agrees(t)'
<1> USE DEF Agrees, Carried
<1>1. ~Waits(t)' => UpTo(th'[t].ir, tr'[t].code, th'[t].at)
  OBVIOUS
<1>2. Asked(service', t) # {} => UpTo(th'[t].ir, tr'[t].code, th'[t].at)
  OBVIOUS
<1>3. \A i \in Asked(service', t) :
        service'[i].n = Len(th'[t].ir) /\ service'[i].idx = th'[t].at
  OBVIOUS
<1>4. \A i \in Sent(replies', t) : Covers(th'[t].ir, tr'[t].code, th'[t].at, replies'[i].next)
  OBVIOUS
<1>5. Held(loop', t) = 1 => Covers(th'[t].ir, tr'[t].code, th'[t].at, loop'.msg.next)
  OBVIOUS
<1> QED BY <1>1, <1>2, <1>3, <1>4, <1>5

\* The ports and the loop are as they were.
LEMMA Quiet ==
  ASSUME NEW t, Agrees(t), UNCHANGED <<service, replies, loop>>,
         th'[t].ir = th[t].ir, th'[t].at = th[t].at, Waits(t)' = Waits(t),
         tr'[t].code = tr[t].code
  PROVE  Agrees(t)'
BY Undisturbed DEF Carried

\* A thread without messages that does not wait.
LEMMA Unasked ==
  ASSUME InFlight', NEW t \in Threads, ~Waits(t)',
         UpTo(th'[t].ir, tr'[t].code, th'[t].at)
  PROVE  Agrees(t)'
BY MineNext DEF Agrees

-----------------------------------------------------------------------------
(* Guest threads *)

Preserved == Typed' /\ \A u \in Threads : Agrees(u)'

LEMMA Decodes ==
  ASSUME Faithful, InFlight', NEW t \in Threads, Decode(t)
  PROVE  Preserved
<1>1. PICK b \in Blocks, c \in Contents, m \in Masks :
        /\ th' = [th EXCEPT ![t] = [pc |-> "walk", block |-> b, ir |-> c, at |-> 0, dry |-> FALSE]]
        /\ tr' = [tr EXCEPT ![t] = [mask |-> m, code |-> <<>>]]
  BY DEF Decode
<1>2. th[t].pc = "walk" /\ UNCHANGED <<service, replies, loop, x87, irc>>
  BY DEF Decode, sidecar
<1>3. c \in Decoded /\ 0 \in 0..Len(c)
  <2>1. c \in Decoded
    BY <1>1 DEF Decoded
  <2> QED BY <2>1, DecodedType
<1>4. /\ th'[t] = [pc |-> "walk", block |-> b, ir |-> c, at |-> 0, dry |-> FALSE]
      /\ tr'[t] = [mask |-> m, code |-> <<>>]
      /\ \A u \in Threads \ {t} : th'[u] = th[u] /\ tr'[u] = tr[u]
      /\ DOMAIN th' = Threads /\ DOMAIN tr' = Threads
  BY <1>1 DEF Faithful, Typed
<1>5. Typed'
  <2>1. /\ DOMAIN th'[t] = ThreadFields /\ DOMAIN tr'[t] = {"mask", "code"}
        /\ th'[t].ir \in Decoded /\ th'[t].at \in 0..Len(th'[t].ir) /\ th'[t].pc = "walk"
        /\ tr'[t].mask \in SUBSET Registers
    BY <1>3, <1>4, RegistersAssumption DEF ThreadFields
  <2> QED BY <1>2, <1>4, <2>1 DEF Faithful, Typed
<1>6. Agrees(t)'
  <2>1. ~Waits(t)'
    BY <1>4 DEF Waits
  <2>2. UpTo(th'[t].ir, tr'[t].code, th'[t].at)
    <3>1. SubSeq(c, 1, 0) = <<>>
      BY SubSeqEmpty
    <3> QED BY <1>4, <3>1 DEF UpTo
  <2> QED BY <2>1, <2>2, Unasked
<1>7. ASSUME NEW u \in Threads \ {t} PROVE Agrees(u)'
  BY <1>2, <1>4, Quiet DEF Faithful, Waits
<1> QED BY <1>5, <1>6, <1>7 DEF Preserved

LEMMA Stocks ==
  ASSUME Faithful, InFlight', NEW t \in Threads, Stock(t)
  PROVE  Preserved /\ th[t].at < Len(th[t].ir) /\ ~Waits(t)
<1>1. PICK m \in Masks :
        tr' = [tr EXCEPT ![t] = [mask |-> m, code |-> Append(@.code, th[t].ir[th[t].at + 1])]]
  BY DEF Stock
<1>2. /\ th' = [th EXCEPT ![t].pc = "walk", ![t].at = @ + 1]
      /\ UNCHANGED <<service, replies, loop, x87, irc>>
  BY DEF Stock, sidecar
<1>3. th[t].at < Len(th[t].ir) /\ ~Waits(t)
  BY DEF Stock, Faithful, Typed, Waits
<1>4. th[t].ir \in Decoded /\ th[t].at \in 0..Len(th[t].ir) /\ DOMAIN th[t] = ThreadFields
  BY DEF Faithful, Typed
<1>5. /\ th'[t].pc = "walk" /\ th'[t].ir = th[t].ir /\ th'[t].at = th[t].at + 1
      /\ DOMAIN th'[t] = ThreadFields
      /\ tr'[t] = [mask |-> m, code |-> Append(tr[t].code, th[t].ir[th[t].at + 1])]
      /\ \A u \in Threads \ {t} : th'[u] = th[u] /\ tr'[u] = tr[u]
      /\ DOMAIN th' = Threads /\ DOMAIN tr' = Threads
  BY <1>1, <1>2, <1>4 DEF Faithful, Typed, ThreadFields
<1> PICK ir \in Seq(Insns) : ir = th[t].ir
  BY <1>4, DecodedType
<1> PICK a \in 0..Len(ir) - 1 : a = th[t].at
  BY <1>3, <1>4
<1>6. Typed'
  <2>1. th'[t].at \in 0..Len(th'[t].ir) /\ tr'[t].mask \in SUBSET Registers
    BY <1>5, RegistersAssumption
  <2> QED BY <1>2, <1>5, <2>1 DEF Faithful, Typed
<1>7. Agrees(t)'
  <2>1. ~Waits(t)'
    BY <1>5 DEF Waits
  <2>2. UpTo(ir, tr[t].code, a)
    BY <1>3 DEF Faithful, Agrees
  <2>3. Append(SubSeq(ir, 1, a), ir[a + 1]) = SubSeq(ir, 1, a + 1)
    BY GrowsByOne
  <2>4. UpTo(th'[t].ir, tr'[t].code, th'[t].at)
    BY <1>5, <2>2, <2>3, SMTT(30) DEF UpTo
  <2> QED BY <2>1, <2>4, Unasked
<1>8. ASSUME NEW u \in Threads \ {t} PROVE Agrees(u)'
  BY <1>2, <1>5, Quiet DEF Faithful, Waits
<1> QED BY <1>3, <1>6, <1>7, <1>8 DEF Preserved

LEMMA Asks ==
  ASSUME Faithful, InFlight', NEW t \in Threads, Ask(t)
  PROVE  Preserved
<1> PICK m : m = Request(t)
  OBVIOUS
<1>1. m.tr = t /\ m.n = Len(th[t].ir) /\ m.idx = th[t].at
  BY DEF Request
<1>2. /\ service' = Append(service, m) /\ UNCHANGED <<tr, replies, loop, x87, irc>>
      /\ th' = [th EXCEPT ![t].pc = "wait"] /\ th[t].pc = "walk" /\ th[t].at < Len(th[t].ir)
  BY DEF Ask, Filtered, sidecar
<1>3. /\ DOMAIN th' = Threads
      /\ \A u \in Threads : /\ DOMAIN th'[u] = ThreadFields
                            /\ th'[u].ir = th[u].ir /\ th'[u].at = th[u].at
                            /\ th'[u].pc = IF u = t THEN "wait" ELSE th[u].pc
  BY <1>2 DEF Faithful, Typed, ThreadFields
<1>4. Typed'
  BY <1>2, <1>3 DEF Faithful, Typed
<1>5. /\ Asked(service', t) # {} /\ \A i \in Asked(service', t) : service'[i] = m
      /\ \A u \in Threads \ {t} : Carried(u)
  BY AskCarries DEF Faithful
<1>6. Agrees(t)'
  <2>1. Sent(replies', t) = {} /\ Held(loop', t) = 0
    BY <1>5, MineNext
  <2>2. ~Waits(t)
    BY <1>2 DEF Waits
  <2>3. UpTo(th'[t].ir, tr'[t].code, th'[t].at)
    BY <1>2, <1>3, <2>2 DEF Faithful, Agrees
  <2>4. \A i \in Asked(service', t) :
          service'[i].n = Len(th'[t].ir) /\ service'[i].idx = th'[t].at
    BY <1>1, <1>3, <1>5
  <2> QED BY <2>1, <2>3, <2>4 DEF Agrees
<1>7. ASSUME NEW u \in Threads \ {t} PROVE Agrees(u)'
  <2>1. Waits(u)' = Waits(u)
    BY <1>3 DEF Waits
  <2> QED BY <1>2, <1>3, <1>5, <2>1, Undisturbed DEF Faithful
<1> QED BY <1>4, <1>6, <1>7 DEF Preserved

\* The steps that move a thread between its two ways of waiting.
LEMMA Signals ==
  ASSUME Faithful, NEW t \in Threads, Interrupted(t) \/ ReceiveAgain(t)
  PROVE  Preserved
<1>1. /\ th[t].pc \in {"wait", "retry"} /\ UNCHANGED <<tr, service, replies, loop, x87, irc>>
      /\ \E p \in {"wait", "retry"} : th' = [th EXCEPT ![t].pc = p]
  BY DEF Interrupted, ReceiveAgain, sidecar
<1>2. PICK p \in {"wait", "retry"} : th' = [th EXCEPT ![t].pc = p]
  BY <1>1
<1>3. /\ DOMAIN th' = Threads
      /\ \A u \in Threads : /\ DOMAIN th'[u] = ThreadFields
                            /\ th'[u].ir = th[u].ir /\ th'[u].at = th[u].at
                            /\ th'[u].pc = IF u = t THEN p ELSE th[u].pc
  BY <1>2 DEF Faithful, Typed, ThreadFields
<1>4. Typed'
  BY <1>1, <1>3 DEF Faithful, Typed
<1>5. ASSUME NEW u \in Threads PROVE Agrees(u)'
  <2>1. Waits(u)' = Waits(u)
    BY <1>1, <1>3 DEF Waits
  <2> QED BY <1>1, <1>3, <2>1, Quiet DEF Faithful
<1> QED BY <1>4, <1>5 DEF Preserved

LEMMA Receives ==
  ASSUME Faithful, InFlight', NEW t \in Threads, Receive(t)
  PROVE  Preserved
<1> PICK m : m = Head(replies)
  OBVIOUS
<1>1. /\ m.id = Tag[t] /\ replies # <<>> /\ replies' = Tail(replies)
      /\ UNCHANGED <<tr, service, loop, x87, irc>> /\ th[t].pc = "wait"
      /\ th' = IF m.next = None THEN [th EXCEPT ![t].pc = "fall"]
                                ELSE [th EXCEPT ![t].pc = "walk", ![t].at = m.next]
  BY DEF Receive, Received, sidecar
<1>2. /\ \A u \in Threads \ {t} : Carried(u)
      /\ 1 \in Sent(replies, t) /\ m = replies[1]
  BY ReceiveCarries DEF Faithful
<1>3. Covers(th[t].ir, tr[t].code, th[t].at, m.next)
  BY <1>2 DEF Faithful, Agrees
<1>4. /\ th[t].ir \in Decoded /\ th[t].at \in 0..Len(th[t].ir) /\ DOMAIN th[t] = ThreadFields
      /\ th[t].at < Len(th[t].ir) /\ Len(th[t].ir) \in Nat
  BY <1>1, DecodedType DEF Faithful, Typed
<1>5. /\ DOMAIN th' = Threads /\ \A u \in Threads \ {t} : th'[u] = th[u]
      /\ DOMAIN th'[t] = ThreadFields /\ th'[t].ir = th[t].ir
      /\ \/ m.next = None /\ th'[t].pc = "fall" /\ th'[t].at = th[t].at
         \/ m.next # None /\ th'[t].pc = "walk" /\ th'[t].at = m.next
  <2>1. CASE m.next = None
    BY <1>1, <1>4, <2>1 DEF Faithful, Typed, ThreadFields
  <2>2. CASE m.next # None
    BY <1>1, <1>4, <2>2 DEF Faithful, Typed, ThreadFields
  <2> QED BY <2>1, <2>2
<1>6. /\ th'[t].at \in 0..Len(th[t].ir) /\ th'[t].pc \in {"walk", "fall"}
      /\ th'[t].pc = "fall" => th'[t].at < Len(th[t].ir)
      /\ UpTo(th[t].ir, tr[t].code, th'[t].at)
  <2>1. None \notin th[t].at + 1..Len(th[t].ir)
    BY <1>4 DEF None
  <2> QED BY <1>3, <1>4, <1>5, <2>1 DEF Covers
<1>7. Typed'
  BY <1>1, <1>4, <1>5, <1>6 DEF Faithful, Typed
<1>8. Agrees(t)'
  <2>1. ~Waits(t)'
    BY <1>6 DEF Waits
  <2> QED BY <1>1, <1>5, <1>6, <2>1, Unasked
<1>9. ASSUME NEW u \in Threads \ {t} PROVE Agrees(u)'
  <2>1. Waits(u)' = Waits(u)
    BY <1>5 DEF Waits
  <2> QED BY <1>1, <1>2, <1>5, <2>1, Undisturbed DEF Faithful
<1> QED BY <1>7, <1>8, <1>9 DEF Preserved

-----------------------------------------------------------------------------
(* The sidecar *)

\* The request in front is of a thread that waits, about where it is.
LEMMA InFront ==
  ASSUME Faithful, NEW r, Serving(r)
  PROVE  /\ r.tr \in Threads /\ Waits(r.tr)
         /\ th[r.tr].ir \in Decoded /\ r.n = Len(th[r.tr].ir)
         /\ r.idx = th[r.tr].at /\ r.idx \in 0..Len(th[r.tr].ir) - 1
         /\ UpTo(th[r.tr].ir, tr[r.tr].code, r.idx)
<1>1. service # <<>> /\ r = Head(service) /\ service \in Seq(Range(service))
  BY DEF Serving, Faithful, InFlight, Shape
<1>2. 1 \in DOMAIN service /\ r = service[1]
  BY <1>1
<1>3. r.tr \in Threads
  BY <1>2 DEF Faithful, InFlight, Shape
<1>4. 1 \in Asked(service, r.tr)
  BY <1>2 DEF Asked
<1>5. Waits(r.tr)
  BY <1>3, <1>4, Mine DEF Faithful
<1>6. /\ r.n = Len(th[r.tr].ir) /\ r.idx = th[r.tr].at
      /\ UpTo(th[r.tr].ir, tr[r.tr].code, th[r.tr].at)
  BY <1>2, <1>3, <1>4 DEF Faithful, Agrees
<1>7. /\ th[r.tr].ir \in Decoded /\ th[r.tr].at \in 0..Len(th[r.tr].ir)
      /\ th[r.tr].at < Len(th[r.tr].ir)
  BY <1>3, <1>5 DEF Faithful, Typed, Waits
<1>8. th[r.tr].at \in 0..Len(th[r.tr].ir) - 1
  BY <1>7, DecodedType
<1> QED BY <1>3, <1>5, <1>6, <1>7, <1>8

\* An answer that says where the code is.
LEMMA AnswerAgrees ==
  ASSUME Faithful, InFlight', NEW r, Serving(r), NEW next, Answer(r, next),
         \A u \in Threads : th'[u].ir = th[u].ir /\ th'[u].at = th[u].at /\ th'[u].pc = th[u].pc,
         \A u \in Threads \ {r.tr} : tr'[u].code = tr[u].code,
         Covers(th[r.tr].ir, tr'[r.tr].code, r.idx, next)
  PROVE  \A u \in Threads : Agrees(u)'
<1> PICK t \in Threads : t = r.tr
  BY InFront
<1>1. /\ Held(loop', t) = 1 /\ loop'.msg.next = next
      /\ \A u \in Threads \ {t} : Carried(u)
  BY AnswerCarries DEF Faithful
<1>2. Agrees(t)'
  <2>1. Asked(service', t) = {} /\ Sent(replies', t) = {}
    BY <1>1, MineNext
  <2>2. Waits(t)'
    BY InFront DEF Waits
  <2>3. Covers(th'[t].ir, tr'[t].code, th'[t].at, loop'.msg.next)
    BY <1>1, InFront
  <2> QED BY <2>1, <2>2, <2>3 DEF Agrees
<1>3. ASSUME NEW u \in Threads \ {t} PROVE Agrees(u)'
  <2>1. Waits(u)' = Waits(u)
    BY DEF Waits
  <2>2. /\ Agrees(u) /\ th'[u].ir = th[u].ir /\ th'[u].at = th[u].at
        /\ tr'[u].code = tr[u].code
    BY DEF Faithful
  <2> QED BY <1>1, <2>1, <2>2, Undisturbed
<1> QED BY <1>2, <1>3

\* Requests that come to nothing.
LEMMA NoCode ==
  ASSUME Faithful, InFlight', NEW r,
         NoTR(r) \/ NoProbe(r) \/ NoIR(r) \/ NoOffsets(r) \/ ServeStock(r)
  PROVE  Preserved /\ UNCHANGED <<th, tr>>
<1>1. Serving(r) /\ Answer(r, None) /\ UNCHANGED <<th, tr>>
  BY DEF NoTR, NoProbe, NoIR, NoOffsets, ServeStock
<1> PICK t \in Threads : t = r.tr
  BY <1>1, InFront
<1>2. Covers(th[t].ir, tr'[t].code, r.idx, None)
  BY <1>1, InFront DEF Covers
<1>3. \A u \in Threads : Agrees(u)'
  BY <1>1, <1>2, AnswerAgrees
<1>4. Resting(x87[t]) /\ DOMAIN x87 = Threads
  BY DEF Faithful, Typed
<1>5. UNCHANGED x87 \/ Bypass(t)
  BY DEF NoTR, NoProbe, NoIR, NoOffsets, ServeStock, sidecar
<1>6. DOMAIN x87' = Threads /\ \A u \in Threads : Resting(x87'[u])
  <2>1. CASE UNCHANGED x87
    BY <2>1 DEF Faithful, Typed
  <2>2. CASE Bypass(t)
    <3>1. Resting([invalidate(x87[t]) EXCEPT !.prev = NoBlock])
      BY <1>4 DEF Resting, Fields, invalidate
    <3> QED BY <2>2, <3>1 DEF Faithful, Typed, Bypass
  <2> QED BY <1>5, <2>1, <2>2
<1> PICK got : got = Loaded(irc[t], r, th[t].ir)
  OBVIOUS
<1>7. DOMAIN got = {"block", "ir", "next"} /\ got.ir \in Decoded
  <2>1. got.ir \in Contents
    BY <1>1, InFront, Fresh DEF Faithful, Typed
  <2> QED BY <2>1 DEF Loaded, Decoded
<1>8. \/ UNCHANGED irc \/ irc' = [irc EXCEPT ![t] = EmptyIR] \/ irc' = [irc EXCEPT ![t] = got]
  BY DEF NoTR, NoProbe, NoIR, NoOffsets, ServeStock, sidecar
<1>9. /\ DOMAIN irc' = Threads
      /\ \A u \in Threads : DOMAIN irc'[u] = {"block", "ir", "next"} /\ irc'[u].ir \in Decoded
  <2>1. CASE UNCHANGED irc
    BY <2>1 DEF Faithful, Typed
  <2>2. CASE irc' = [irc EXCEPT ![t] = EmptyIR]
    BY <2>2 DEF Faithful, Typed, EmptyIR, Decoded
  <2>3. CASE irc' = [irc EXCEPT ![t] = got]
    BY <1>7, <2>3 DEF Faithful, Typed
  <2> QED BY <1>8, <2>1, <2>2, <2>3
<1>10. Typed'
  BY <1>1, <1>6, <1>9 DEF Faithful, Typed
<1> QED BY <1>1, <1>3, <1>10 DEF Preserved

\* Two blocks are one from the a-th instruction on.
SameFrom(ir, other, a) ==
  WindowCovers => \A i \in a + 1..Len(ir) : other[i] = ir[i]

\* The code of a block's instructions from the a-th up to the b-th is added.
Adds(code, ir, a, b, new) == new = code \o SubSeq(ir, a + 1, b)

LEMMA Added ==
  ASSUME NEW ir \in Seq(Insns), NEW a \in 0..Len(ir) - 1, NEW b \in a + 1..Len(ir),
         NEW other \in Seq(Insns), Len(other) = Len(ir), SameFrom(ir, other, a),
         NEW code, UpTo(ir, code, a), NEW new, Adds(code, other, a, b, new)
  PROVE  UpTo(ir, new, b)
<1> SUFFICES ASSUME WindowCovers PROVE new = SubSeq(ir, 1, b)
  BY DEF UpTo
<1>1. a \in 0..Len(ir)
  OBVIOUS
<1>2. \A i \in a + 1..Len(ir) : other[i] = ir[i]
  BY DEF SameFrom
<1>3. SubSeq(ir, 1, a) \o SubSeq(other, a + 1, b) = SubSeq(ir, 1, b)
  BY <1>1, <1>2, Grows
<1> QED BY <1>3 DEF UpTo, Adds

\* The translator's answer, and what is written of it.
LEMMA AsTranslated ==
  ASSUME Faithful, NEW r, NEW o \in Outcomes(r), Translating(r, o)
  PROVE  /\ Serving(r) /\ r.tr \in Threads
         /\ \A u \in Threads : /\ DOMAIN th'[u] = ThreadFields
                               /\ th'[u].ir = th[u].ir /\ th'[u].at = th[u].at
                               /\ th'[u].pc = th[u].pc
         /\ DOMAIN th' = Threads /\ DOMAIN irc' = Threads
         /\ \A u \in Threads : DOMAIN irc'[u] = {"block", "ir", "next"} /\ irc'[u].ir \in Decoded
         /\ Settled(o, r.idx, Len(th[r.tr].ir), tr[r.tr].mask) /\ o.next # Aborted
         /\ irc'[r.tr].ir \in Seq(Insns) /\ Len(irc'[r.tr].ir) = Len(th[r.tr].ir)
         /\ WindowCovers => \A i \in r.idx + 1..Len(th[r.tr].ir) : irc'[r.tr].ir[i] = th[r.tr].ir[i]
<1>1. Serving(r)
  BY DEF Translating
<1> PICK t \in Threads : t = r.tr
  BY <1>1, InFront
<1> PICK got : got = Loaded(irc[t], r, th[t].ir)
  OBVIOUS
<1>2. /\ got.ir \in Contents /\ got.ir \in Seq(Insns) /\ Len(got.ir) = Len(th[t].ir)
      /\ WindowCovers => \A i \in r.idx + 1..Len(th[t].ir) : got.ir[i] = th[t].ir[i]
      /\ DOMAIN got = {"block", "ir", "next"}
  BY <1>1, InFront, Fresh DEF Faithful, Typed, Loaded
<1>3. /\ o \in translate_instruction(x87[t], tr[t].mask, r.block, got.ir, r.idx)
      /\ o.next # Aborted
      /\ irc' = [irc EXCEPT ![t] = [got EXCEPT !.next = IF o.next = None THEN @ ELSE o.next]]
      /\ th' = [th EXCEPT ![t].dry = @ \/ o.dry]
  BY DEF Translating
<1>4. PICK dry : th' = [th EXCEPT ![t].dry = dry]
  BY <1>3, Zenon
<1>5. /\ DOMAIN th' = Threads
      /\ \A u \in Threads : /\ DOMAIN th'[u] = ThreadFields
                            /\ th'[u].ir = th[u].ir /\ th'[u].at = th[u].at
                            /\ th'[u].pc = th[u].pc
  BY <1>4 DEF Faithful, Typed, ThreadFields
<1>6. /\ DOMAIN irc' = Threads /\ irc'[t].ir = got.ir
      /\ \A u \in Threads : DOMAIN irc'[u] = {"block", "ir", "next"} /\ irc'[u].ir \in Decoded
  BY <1>2, <1>3 DEF Faithful, Typed, Decoded
<1>7. Settled(o, r.idx, Len(th[t].ir), tr[t].mask)
  <2>1. r.idx \in 0..Len(got.ir) - 1 /\ Resting(x87[t]) /\ tr[t].mask \in SUBSET Registers
    BY <1>1, <1>2, InFront DEF Faithful, Typed
  <2>2. got.ir \in Seq([pc : Nat, op : Ops])
    BY <1>2 DEF Insns
  <2>3. Settled(o, r.idx, Len(got.ir), tr[t].mask)
    BY <1>3, <2>1, <2>2, EveryOutcome
  <2> QED BY <1>2, <2>3
<1> QED BY <1>1, <1>2, <1>3, <1>5, <1>6, <1>7

\* Some code: what it adds is the thread's own, and follows what there is.
LEMMA Served ==
  ASSUME Faithful, NEW r, NEW o \in Outcomes(r), Serve(r, o)
  PROVE  /\ \A u \in Threads \ {r.tr} : tr'[u] = tr[u]
         /\ DOMAIN tr' = Threads /\ DOMAIN tr'[r.tr] = {"mask", "code"}
         /\ tr'[r.tr].mask = tr[r.tr].mask
         /\ Covers(th[r.tr].ir, tr'[r.tr].code, r.idx, o.next)
         /\ o.next = None /\ WindowCovers => tr'[r.tr].code = tr[r.tr].code
<1>1. Translating(r, o) /\ Serving(r)
  BY DEF Serve, Translating
<1> PICK t \in Threads : t = r.tr
  BY <1>1, InFront
<1> PICK got : got = irc'[t].ir
  OBVIOUS
<1>2. tr' = [tr EXCEPT ![t].mask = o.mask,
                       ![t].code = @ \o SubSeq(got, r.idx + 1, o.next)]
  BY DEF Serve
<1>3. /\ \A u \in Threads \ {t} : tr'[u] = tr[u]
      /\ DOMAIN tr' = Threads /\ DOMAIN tr'[t] = {"mask", "code"}
      /\ tr'[t].mask = o.mask
      /\ tr'[t].code = tr[t].code \o SubSeq(got, r.idx + 1, o.next)
  BY <1>2 DEF Faithful, Typed
<1>4. Settled(o, r.idx, Len(th[t].ir), tr[t].mask) /\ o.next # Aborted
  BY <1>1, AsTranslated
<1> PICK ir \in Seq(Insns) : ir = th[t].ir
  BY <1>1, InFront, DecodedType
<1> PICK a \in 0..Len(ir) - 1 : a = r.idx
  BY <1>1, InFront
<1>5. UpTo(ir, tr[t].code, a)
  BY <1>1, InFront
<1>6. got \in Seq(Insns) /\ Len(got) = Len(ir)
  BY <1>1, AsTranslated
<1>7. WindowCovers => \A i \in a + 1..Len(ir) : got[i] = ir[i]
  BY <1>1, AsTranslated
<1>8. CASE o.next = None
  <2>1. SubSeq(got, a + 1, o.next) = <<>>
    BY <1>8, SubSeqEmpty DEF None
  <2>2. WindowCovers => tr[t].code \in Seq(Insns)
    <3>1. \A i \in 1..a : ir[i] \in Insns
      OBVIOUS
    <3>2. SubSeq(ir, 1, a) \in Seq(Insns)
      BY <3>1, SubSeqProperties
    <3> QED BY <1>5, <3>2 DEF UpTo
  <2>3. WindowCovers => tr'[t].code = tr[t].code
    BY <1>3, <2>1, <2>2, ConcatEmptySeq
  <2> QED BY <1>3, <1>4, <1>5, <1>8, <2>3 DEF Covers, UpTo, Settled
<1>9. CASE o.next # None
  <2>1. o.next \in a + 1..Len(ir)
    BY <1>4, <1>9 DEF Settled
  <2>2. Adds(tr[t].code, got, a, o.next, tr'[t].code) /\ SameFrom(ir, got, a)
    BY <1>3, <1>7 DEF Adds, SameFrom
  <2>3. UpTo(ir, tr'[t].code, o.next)
    BY <1>5, <1>6, <2>1, <2>2, Added
  <2> QED BY <1>3, <1>4, <1>9, <2>1, <2>3 DEF Covers, Settled
<1> QED BY <1>8, <1>9

LEMMA Translated ==
  ASSUME Faithful, InFlight', NEW r, NEW o \in Outcomes(r),
         NoBuffer(r, o) \/ NoWriteBack(r, o) \/ Serve(r, o)
  PROVE  Preserved
<1>1. Translating(r, o) /\ Serving(r)
  BY DEF Serve, NoBuffer, NoWriteBack, Translating
<1> PICK t \in Threads : t = r.tr
  BY <1>1, InFront
<1>2. /\ DOMAIN th' = Threads /\ DOMAIN irc' = Threads
      /\ \A u \in Threads : /\ DOMAIN th'[u] = ThreadFields
                            /\ th'[u].ir = th[u].ir /\ th'[u].at = th[u].at
                            /\ th'[u].pc = th[u].pc
      /\ \A u \in Threads : DOMAIN irc'[u] = {"block", "ir", "next"} /\ irc'[u].ir \in Decoded
      /\ Resting(o.cache)
  BY <1>1, AsTranslated DEF Settled
<1>3. DOMAIN x87' = Threads /\ \A u \in Threads : Resting(x87'[u])
  <2>1. UNCHANGED x87 \/ x87' = [x87 EXCEPT ![t] = o.cache]
    BY DEF Serve, NoBuffer, NoWriteBack
  <2>2. DOMAIN x87 = Threads /\ \A u \in Threads : Resting(x87[u])
    BY DEF Faithful, Typed
  <2> QED BY <1>2, <2>1, <2>2
<1>4. PICK next : /\ Answer(r, next) /\ Covers(th[t].ir, tr'[t].code, r.idx, next)
                  /\ \A u \in Threads \ {t} : tr'[u] = tr[u]
                  /\ DOMAIN tr' = Threads /\ DOMAIN tr'[t] = {"mask", "code"}
                  /\ tr'[t].mask = tr[t].mask
  <2>1. CASE Serve(r, o)
    BY <2>1, Served DEF Serve
  <2>2. CASE NoBuffer(r, o) \/ NoWriteBack(r, o)
    <3>1. Answer(r, None) /\ UNCHANGED tr
      BY <2>2 DEF NoBuffer, NoWriteBack
    <3>2. Covers(th[t].ir, tr'[t].code, r.idx, None)
      BY <1>1, <3>1, InFront DEF Covers
    <3> QED BY <3>1, <3>2 DEF Faithful, Typed
  <2> QED BY <2>1, <2>2
<1>5. \A u \in Threads : Agrees(u)'
  BY <1>1, <1>2, <1>4, AnswerAgrees
<1>6. Typed'
  BY <1>2, <1>3, <1>4 DEF Faithful, Typed
<1> QED BY <1>5, <1>6 DEF Preserved

-----------------------------------------------------------------------------
(* The receive loop *)

LEMMA LoopAgrees ==
  ASSUME Faithful, SendReply \/ SendFails
  PROVE  Preserved /\ UNCHANGED <<th, tr>>
<1>1. UNCHANGED <<th, tr, x87, irc>>
  BY DEF SendReply, SendFails, sidecar
<1>2. \A u \in Threads : Carried(u)
  BY SendCarries DEF Faithful
<1>3. ASSUME NEW u \in Threads PROVE Agrees(u)'
  <2>1. Waits(u)' = Waits(u)
    BY <1>1 DEF Waits
  <2> QED BY <1>1, <1>2, <2>1, Undisturbed DEF Faithful
<1>4. Typed'
  BY <1>1 DEF Faithful, Typed
<1> QED BY <1>1, <1>3, <1>4 DEF Preserved

LEMMA DieAgrees ==
  ASSUME Faithful, Die
  PROVE  Preserved /\ UNCHANGED <<th, tr, exited>>
<1>1. UNCHANGED <<th, tr, x87, irc, exited>>
  BY DEF Die, sidecar
<1>2. \A u \in Threads : Carried(u)
  BY DieCarries DEF Faithful
<1>3. ASSUME NEW u \in Threads PROVE Agrees(u)'
  <2>1. Waits(u)' = Waits(u)
    BY <1>1 DEF Waits
  <2> QED BY <1>1, <1>2, <2>1, Undisturbed DEF Faithful
<1>4. Typed'
  BY <1>1 DEF Faithful, Typed
<1> QED BY <1>1, <1>3, <1>4 DEF Preserved

\* Steps that touch neither threads nor messages, but for the loop at rest.
LEMMA Rests ==
  ASSUME Faithful, UNCHANGED <<th, tr, service, replies, x87, irc>>,
         loop' = loop \/ loop' \in Idle
  PROVE  Preserved
<1>1. Typed'
  BY DEF Faithful, Typed
<1>2. ASSUME NEW u \in Threads PROVE Agrees(u)'
  <2>1. Carried(u)
    BY Plain DEF Carried
  <2>2. Waits(u)' = Waits(u)
    BY DEF Waits
  <2> QED BY <2>1, <2>2, Undisturbed DEF Faithful
<1> QED BY <1>1, <1>2 DEF Preserved

-----------------------------------------------------------------------------
(* Every step *)

LEMMA FaithfulStarts == Init => Faithful
<1> SUFFICES ASSUME Init PROVE Faithful
  OBVIOUS
<1>1. InFlight
  BY Starts
<1>2. Typed
  BY RegistersAssumption
     DEF Init, Typed, ThreadFields, Decoded, Resting, Fields, NewCache, EmptyIR
<1>3. ASSUME NEW t \in Threads PROVE Agrees(t)
  <2>1. th[t].ir = <<>> /\ th[t].at = 0 /\ tr[t].code = <<>> /\ ~Waits(t)
    BY DEF Init, Waits
  <2>2. SubSeq(<<>>, 1, 0) = <<>>
    BY SubSeqEmpty
  <2>3. UpTo(th[t].ir, tr[t].code, th[t].at)
    BY <2>1, <2>2 DEF UpTo
  <2> QED BY <1>1, <2>1, <2>3, Mine DEF Agrees
<1> QED BY <1>1, <1>2, <1>3 DEF Faithful

LEMMA StaysFaithful == Faithful /\ [Next]_vars => Faithful'
<1> SUFFICES ASSUME Faithful, [Next]_vars PROVE Faithful'
  OBVIOUS
<1>1. InFlight'
  BY Keeps DEF Faithful
<1>2. ASSUME NEW t \in Threads, Guest(t) PROVE Preserved
  <2>1. CASE Decode(t)
    BY <1>1, <2>1, Decodes
  <2>2. CASE Stock(t)
    BY <1>1, <2>2, Stocks
  <2>3. CASE Ask(t)
    BY <1>1, <2>3, Asks
  <2>4. CASE AskNobody(t) \/ ReceiveWrong(t)
    BY <2>4, Rests DEF AskNobody, ReceiveWrong, Abort, sidecar
  <2>5. CASE Interrupted(t) \/ ReceiveAgain(t)
    BY <2>5, Signals
  <2>6. CASE Receive(t)
    BY <1>1, <2>6, Receives
  <2> QED BY <1>2, <2>1, <2>2, <2>3, <2>4, <2>5, <2>6 DEF Guest
<1>3. ASSUME Process PROVE Preserved
  <2>1. PICK r \in Range(service) :
          \/ NoTR(r) \/ NoProbe(r) \/ NoIR(r) \/ NoOffsets(r) \/ ServeStock(r) \/ ArplAborts(r)
          \/ \E o \in Outcomes(r) : NoBuffer(r, o) \/ NoWriteBack(r, o) \/ Serve(r, o)
    BY <1>3 DEF Process
  <2>2. CASE NoTR(r) \/ NoProbe(r) \/ NoIR(r) \/ NoOffsets(r) \/ ServeStock(r)
    BY <1>1, <2>2, NoCode
  <2>3. CASE ArplAborts(r)
    BY <2>3, DieAgrees DEF ArplAborts
  <2>4. CASE \E o \in Outcomes(r) : NoBuffer(r, o) \/ NoWriteBack(r, o) \/ Serve(r, o)
    BY <1>1, <2>4, Translated
  <2> QED BY <2>1, <2>2, <2>3, <2>4
<1>4. CASE SendReply \/ SendFails
  BY <1>1, <1>4, LoopAgrees DEF Faithful, Preserved
<1>5. CASE ReceiveFails
  BY <1>1, <1>5, Rests DEF ReceiveFails, Faithful, Preserved, sidecar, Idle
<1>6. CASE SidecarDies
  BY <1>1, <1>6, DieAgrees DEF SidecarDies, Faithful, Preserved
<1>7. CASE UNCHANGED vars
  BY <1>1, <1>7, Rests DEF vars, sidecar, Faithful, Preserved
<1> QED BY <1>1, <1>2, <1>3, <1>4, <1>5, <1>6, <1>7 DEF Next, Faithful, Preserved

-----------------------------------------------------------------------------
(* Types *)

\* What types say beyond Typed: threads, code, cached IR and messages.
Varied ==
  /\ \A t \in Threads :
       /\ th[t].pc \in {"walk", "wait", "retry", "fall"}
       /\ th[t].block \in Blocks \cup {NoBlock}
       /\ th[t].dry \in BOOLEAN
       /\ tr[t].code \in Seq(Insns)
       /\ irc[t].next \in 0..Len(irc[t].ir)
  /\ \A i \in DOMAIN replies : replies[i] \in MessageType
  /\ loop.state = "reply" => loop.msg \in MessageType
  /\ exited \in BOOLEAN

LEMMA Types == Faithful /\ Varied => TypeOK
<1> SUFFICES ASSUME Faithful, Varied PROVE TypeOK
  OBVIOUS
<1>1. replies \in Seq(MessageType)
  BY DEF Faithful, InFlight, Shape, Varied
<1>2. \/ loop \in {Receiving, Returned, Gone}
      \/ loop.state = "reply" /\ loop.msg \in MessageType
  BY DEF Faithful, InFlight, Shape, Varied, Idle
<1>3. \A t \in Threads : x87[t].run = 0 /\ x87[t].mask \in SUBSET Registers
  BY DEF Faithful, Typed, Resting
<1>4. \A i \in DOMAIN service : service[i].tr \in Threads
  BY DEF Faithful, InFlight, Shape
<1> QED BY <1>1, <1>2, <1>3, <1>4 DEF TypeOK, Faithful, Typed, Varied, Decoded, Insns

LEMMA MessageTypes ==
  /\ SendOnceNote \in MessageType
  /\ \A r, next : r.id \in Range(Tag) /\ next \in Nat \cup {None} => ReplyMsg(r, next) \in MessageType
BY DEF SendOnceNote, MessageType, ReplyMsg, None

LEMMA VariedStarts == Init => Varied
<1> SUFFICES ASSUME Init PROVE Varied
  OBVIOUS
<1>1. loop.state # "reply"
  BY Plain DEF Init, Idle
<1>2. DOMAIN replies = {} /\ <<>> \in Seq(Insns) /\ 0 \in 0..Len(<<>>)
  BY DEF Init
<1>3. exited \in BOOLEAN /\ \A t \in Threads : th[t].dry \in BOOLEAN
  BY Zenon DEF Init
<1>4. \A t \in Threads :
        /\ th[t].pc = "walk" /\ th[t].block = NoBlock
        /\ tr[t].code = <<>> /\ irc[t].next = 0 /\ irc[t].ir = <<>>
  BY DEF Init, EmptyIR
<1>5. \A t \in Threads :
        /\ th[t].pc \in {"walk", "wait", "retry", "fall"}
        /\ th[t].block \in Blocks \cup {NoBlock}
        /\ tr[t].code \in Seq(Insns)
        /\ irc[t].next \in 0..Len(irc[t].ir)
  BY <1>2, <1>4
<1> QED BY <1>1, <1>2, <1>3, <1>5 DEF Varied

\* A thread that changes neither its block nor its code.
LEMMA Moves ==
  ASSUME Faithful, Varied, NEW t \in Threads,
         Ask(t) \/ AskNobody(t) \/ Interrupted(t) \/ ReceiveAgain(t)
           \/ ReceiveWrong(t) \/ Receive(t)
  PROVE  Varied'
<1>1. /\ UNCHANGED <<tr, irc, loop>>
      /\ \/ UNCHANGED th
         \/ \E p \in {"walk", "wait", "retry", "fall"} : th' = [th EXCEPT ![t].pc = p]
         \/ \E n : th' = [th EXCEPT ![t].pc = "walk", ![t].at = n]
      /\ exited' = exited \/ exited' = TRUE
  BY DEF Ask, AskNobody, Interrupted, ReceiveAgain, ReceiveWrong, Receive, Abort, sidecar
<1>2. \A u \in Threads : /\ th'[u].pc \in {"walk", "wait", "retry", "fall"}
                         /\ th'[u].block = th[u].block /\ th'[u].dry = th[u].dry
  <2>1. CASE UNCHANGED th
    BY <2>1 DEF Varied
  <2>2. CASE \E p \in {"walk", "wait", "retry", "fall"} : th' = [th EXCEPT ![t].pc = p]
    BY <2>2 DEF Varied, Faithful, Typed, ThreadFields
  <2>3. CASE \E n : th' = [th EXCEPT ![t].pc = "walk", ![t].at = n]
    BY <2>3 DEF Varied, Faithful, Typed, ThreadFields
  <2> QED BY <1>1, <2>1, <2>2, <2>3
<1>3. \A i \in DOMAIN replies' : replies'[i] \in MessageType
  <2>1. replies' = replies \/ (replies # <<>> /\ replies' = Tail(replies))
    BY DEF Ask, AskNobody, Interrupted, ReceiveAgain, ReceiveWrong, Receive, Received, Abort
  <2>2. replies \in Seq(MessageType)
    BY DEF Faithful, InFlight, Shape, Varied
  <2>3. replies' \in Seq(MessageType)
    BY <2>1, <2>2
  <2> QED BY <2>3
<1> QED BY <1>1, <1>2, <1>3 DEF Varied

\* A thread that starts a block, or adds an instruction to its code.
LEMMA Writes ==
  ASSUME Faithful, Varied, NEW t \in Threads, Decode(t) \/ Stock(t)
  PROVE  Varied'
<1>1. UNCHANGED <<irc, replies, loop, exited>>
  BY DEF Decode, Stock, sidecar
<1>2. CASE Decode(t)
  <2>1. PICK b \in Blocks, c \in Contents, m \in Masks :
          /\ th' = [th EXCEPT ![t] = [pc |-> "walk", block |-> b, ir |-> c, at |-> 0, dry |-> FALSE]]
          /\ tr' = [tr EXCEPT ![t] = [mask |-> m, code |-> <<>>]]
    BY <1>2 DEF Decode
  <2>2. <<>> \in Seq(Insns)
    OBVIOUS
  <2>3. /\ th'[t].pc = "walk" /\ th'[t].block = b /\ th'[t].dry = FALSE /\ tr'[t].code = <<>>
        /\ \A u \in Threads \ {t} : th'[u] = th[u] /\ tr'[u] = tr[u]
    BY <2>1 DEF Faithful, Typed
  <2> QED BY <1>1, <2>2, <2>3 DEF Varied
<1>3. CASE Stock(t)
  <2>1. th[t].at \in 0..Len(th[t].ir) /\ th[t].at < Len(th[t].ir) /\ th[t].ir \in Decoded
    BY <1>3 DEF Stock, Faithful, Typed
  <2>2. th[t].ir[th[t].at + 1] \in Insns
    BY <2>1, DecodedType
  <2>3. /\ th' = [th EXCEPT ![t].pc = "walk", ![t].at = @ + 1]
        /\ \E m : tr' = [tr EXCEPT ![t] = [mask |-> m, code |-> Append(@.code, th[t].ir[th[t].at + 1])]]
    BY <1>3 DEF Stock
  <2>4. /\ \A u \in Threads : /\ th'[u].pc \in {"walk", "wait", "retry", "fall"}
                              /\ th'[u].block = th[u].block /\ th'[u].dry = th[u].dry
        /\ tr'[t].code = Append(tr[t].code, th[t].ir[th[t].at + 1])
        /\ \A u \in Threads \ {t} : tr'[u] = tr[u]
    BY <2>3 DEF Varied, Faithful, Typed, ThreadFields
  <2>5. Append(tr[t].code, th[t].ir[th[t].at + 1]) \in Seq(Insns)
    BY <2>2 DEF Varied
  <2> QED BY <1>1, <2>4, <2>5 DEF Varied
<1> QED BY <1>2, <1>3

\* An answer is a message, with an index or None.
LEMMA AnswerTyped ==
  ASSUME Faithful, Varied, NEW r, Serving(r), NEW next \in Nat \cup {None}, Answer(r, next)
  PROVE  /\ \A i \in DOMAIN replies' : replies'[i] \in MessageType
         /\ loop'.state = "reply" => loop'.msg \in MessageType
         /\ exited' \in BOOLEAN
<1>1. r.tr \in Threads /\ r.id = Tag[r.tr]
  <2>1. 1 \in DOMAIN service /\ r = service[1]
    BY DEF Serving, Faithful, InFlight, Shape
  <2> QED BY <2>1 DEF Faithful, InFlight, Shape
<1>2. r.id \in Range(Tag)
  BY <1>1, TagAssumption DEF Range
<1>3. ReplyMsg(r, next) \in MessageType
  BY <1>2, MessageTypes
<1> QED BY <1>3 DEF Answer, Replying, Varied

\* Cached IR is used from where the request was on.
LEMMA LoadedTyped ==
  ASSUME Faithful, NEW r, Serving(r)
  PROVE  LET got == Loaded(irc[r.tr], r, th[r.tr].ir)
         IN  /\ DOMAIN got = {"block", "ir", "next"} /\ got.next \in 0..Len(got.ir)
             /\ Len(got.ir) = Len(th[r.tr].ir) /\ got.ir \in Seq(Insns)
<1> PICK t \in Threads : t = r.tr
  BY InFront
<1> PICK got : got = Loaded(irc[t], r, th[t].ir)
  OBVIOUS
<1>1. got.ir \in Seq(Insns) /\ Len(got.ir) = Len(th[t].ir)
  BY InFront, Fresh, SMTT(30) DEF Faithful, Typed
<1>2. DOMAIN got = {"block", "ir", "next"} /\ got.next = r.idx + 1
  BY DEF Loaded
<1>3. r.idx \in 0..Len(got.ir) - 1
  BY <1>1, InFront
<1> QED BY <1>1, <1>2, <1>3

LEMMA VariesWithoutCode ==
  ASSUME Faithful, Varied, NEW r,
         NoTR(r) \/ NoProbe(r) \/ NoIR(r) \/ NoOffsets(r) \/ ServeStock(r)
  PROVE  Varied'
<1>1. Serving(r) /\ Answer(r, None) /\ UNCHANGED <<th, tr>>
  BY DEF NoTR, NoProbe, NoIR, NoOffsets, ServeStock
<1> PICK t \in Threads : t = r.tr
  BY <1>1, InFront
<1> PICK got : got = Loaded(irc[t], r, th[t].ir)
  OBVIOUS
<1>2. \/ UNCHANGED irc \/ irc' = [irc EXCEPT ![t] = EmptyIR] \/ irc' = [irc EXCEPT ![t] = got]
  BY DEF NoTR, NoProbe, NoIR, NoOffsets, ServeStock, sidecar
<1>3. got.next \in 0..Len(got.ir) /\ EmptyIR.next \in 0..Len(EmptyIR.ir)
  BY <1>1, LoadedTyped DEF EmptyIR
<1>4. \A u \in Threads : irc'[u].next \in 0..Len(irc'[u].ir)
  BY <1>2, <1>3 DEF Faithful, Typed, Varied
<1>5. None \in Nat \cup {None}
  OBVIOUS
<1> QED BY <1>1, <1>4, <1>5, AnswerTyped DEF Varied

\* A TR gets code of the block at hand.
LEMMA CodeTyped ==
  ASSUME NEW code \in Seq(Insns), NEW ir \in Seq(Insns), NEW a \in 0..Len(ir), NEW b,
         b = None \/ b \in a + 1..Len(ir)
  PROVE  code \o SubSeq(ir, a + 1, b) \in Seq(Insns)
<1>1. CASE b = None
  <2>1. SubSeq(ir, a + 1, b) = <<>>
    BY <1>1, SubSeqEmpty DEF None
  <2> QED BY <2>1, ConcatEmptySeq
<1>2. CASE b \in a + 1..Len(ir)
  <2>1. \A i \in a + 1..b : ir[i] \in Insns
    BY <1>2
  <2>2. SubSeq(ir, a + 1, b) \in Seq(Insns)
    BY <1>2, <2>1, SubSeqProperties
  <2> QED BY <2>2, ConcatProperties
<1> QED BY <1>1, <1>2

LEMMA VariesTranslated ==
  ASSUME Faithful, Varied, NEW r, NEW o \in Outcomes(r),
         NoBuffer(r, o) \/ NoWriteBack(r, o) \/ Serve(r, o)
  PROVE  Varied'
<1>1. Translating(r, o) /\ Serving(r)
  BY DEF Serve, NoBuffer, NoWriteBack, Translating
<1> PICK t \in Threads : t = r.tr
  BY <1>1, InFront
<1> PICK got : got = Loaded(irc[t], r, th[t].ir)
  OBVIOUS
<1> PICK n \in Nat : n = Len(th[t].ir)
  BY <1>1, InFront, DecodedType
<1>2. /\ DOMAIN got = {"block", "ir", "next"} /\ got.next \in 0..n
      /\ Len(got.ir) = n /\ got.ir \in Seq(Insns)
  BY <1>1, LoadedTyped
<1>3. o.dry \in BOOLEAN /\ (o.next = None \/ o.next \in r.idx + 1..n) /\ r.idx \in 0..n - 1
  BY <1>1, AsTranslated, InFront DEF Settled
<1>4. /\ irc' = [irc EXCEPT ![t] = [got EXCEPT !.next = IF o.next = None THEN @ ELSE o.next]]
      /\ th' = [th EXCEPT ![t].dry = @ \/ o.dry]
  BY <1>1 DEF Translating
<1>5. \A u \in Threads : irc'[u].next \in 0..Len(irc'[u].ir)
  BY <1>2, <1>3, <1>4 DEF Faithful, Typed, Varied
<1>6. irc'[t].ir = got.ir
  BY <1>2, <1>4 DEF Faithful, Typed
<1>7. PICK dry \in BOOLEAN : th' = [th EXCEPT ![t].dry = dry]
  <2>1. (th[t].dry \/ o.dry) \in BOOLEAN
    OBVIOUS
  <2> QED BY <1>4, <2>1, Zenon
<1>8. \A u \in Threads : /\ th'[u].pc = th[u].pc /\ th'[u].block = th[u].block
                         /\ th'[u].dry \in BOOLEAN
  BY <1>7 DEF Varied, Faithful, Typed, ThreadFields
<1>9. \A u \in Threads : tr'[u].code \in Seq(Insns)
  <2>1. CASE UNCHANGED tr
    BY <2>1 DEF Varied
  <2>2. CASE Serve(r, o)
    <3> PICK ir \in Seq(Insns) : ir = got.ir
      BY <1>2
    <3> PICK a \in 0..n - 1 : a = r.idx
      BY <1>3
    <3>0. Len(ir) = n /\ a \in 0..Len(ir) /\ (o.next = None \/ o.next \in a + 1..Len(ir))
      BY <1>2, <1>3
    <3>1. tr[t].code \o SubSeq(ir, a + 1, o.next) \in Seq(Insns)
      BY <3>0, CodeTyped DEF Varied
    <3>2. tr' = [tr EXCEPT ![t].mask = o.mask,
                           ![t].code = @ \o SubSeq(got.ir, r.idx + 1, o.next)]
      BY <1>6, <2>2 DEF Serve
    <3> QED BY <3>1, <3>2 DEF Varied, Faithful, Typed
  <2> QED BY <2>1, <2>2 DEF NoBuffer, NoWriteBack
<1>10. PICK next \in Nat \cup {None} : Answer(r, next)
  BY <1>3 DEF Serve, NoBuffer, NoWriteBack
<1>11. /\ \A i \in DOMAIN replies' : replies'[i] \in MessageType
       /\ loop'.state = "reply" => loop'.msg \in MessageType
       /\ exited' \in BOOLEAN
  BY <1>1, <1>10, AnswerTyped
<1> QED BY <1>5, <1>8, <1>9, <1>11 DEF Varied

LEMMA VariesInLoop ==
  ASSUME Faithful, Varied, SendReply \/ SendFails \/ ReceiveFails \/ Die
  PROVE  Varied'
<1>1. UNCHANGED <<th, tr, irc, exited>> /\ loop' \in Idle
  BY DEF SendReply, SendFails, ReceiveFails, Die, sidecar, Idle
<1>2. loop'.state # "reply"
  BY <1>1, Plain
<1>3. replies \in Seq(MessageType)
  BY DEF Faithful, InFlight, Shape, Varied
<1>4. replies' \in Seq(MessageType)
  <2>1. CASE SendReply \/ SendFails
    <3>1. \E m \in MessageType : replies' = Append(replies, m)
      BY <2>1, MessageTypes DEF SendReply, SendFails, Varied
    <3> QED BY <1>3, <3>1
  <2>2. CASE ReceiveFails
    BY <1>3, <2>2 DEF ReceiveFails
  <2>3. CASE Die
    <3>1. PICK open : replies' = replies \o [i \in 1..open |-> SendOnceNote]
                        /\ open = Len(service) + (IF loop.state = "reply" THEN 1 ELSE 0)
      BY <2>3 DEF Die
    <3>2. open \in Nat
      BY <3>1 DEF Faithful, InFlight, Shape
    <3>3. [i \in 1..open |-> SendOnceNote] \in Seq(MessageType)
      BY <3>2, MessageTypes
    <3> QED BY <1>3, <3>1, <3>3, ConcatProperties
  <2> QED BY <2>1, <2>2, <2>3
<1> QED BY <1>1, <1>2, <1>4 DEF Varied

\* Threads, TRs, caches and messages have their types, whatever fails: a
\* request leaves no run open and no register outside of the allocator's,
\* and cached IR is asked for inside its block.
THEOREM TypeCorrect == Spec => []TypeOK
<1>1. Faithful /\ Varied /\ [Next]_vars => Varied'
  <2> SUFFICES ASSUME Faithful, Varied, [Next]_vars PROVE Varied'
    OBVIOUS
  <2>1. ASSUME NEW t \in Threads, Guest(t) PROVE Varied'
    BY <2>1, Moves, Writes DEF Guest
  <2>2. ASSUME Process PROVE Varied'
    <3>1. PICK r \in Range(service) :
            \/ NoTR(r) \/ NoProbe(r) \/ NoIR(r) \/ NoOffsets(r) \/ ServeStock(r) \/ ArplAborts(r)
            \/ \E o \in Outcomes(r) : NoBuffer(r, o) \/ NoWriteBack(r, o) \/ Serve(r, o)
      BY <2>2 DEF Process
    <3>2. CASE NoTR(r) \/ NoProbe(r) \/ NoIR(r) \/ NoOffsets(r) \/ ServeStock(r)
      BY <3>2, VariesWithoutCode
    <3>3. CASE ArplAborts(r)
      BY <3>3, VariesInLoop DEF ArplAborts
    <3>4. CASE \E o \in Outcomes(r) : NoBuffer(r, o) \/ NoWriteBack(r, o) \/ Serve(r, o)
      BY <3>4, VariesTranslated
    <3> QED BY <3>1, <3>2, <3>3, <3>4
  <2>3. CASE SendReply \/ SendFails \/ ReceiveFails
    BY <2>3, VariesInLoop
  <2>4. CASE SidecarDies
    BY <2>4, VariesInLoop DEF SidecarDies
  <2>5. CASE UNCHANGED vars
    BY <2>5 DEF vars, sidecar, Varied
  <2> QED BY <2>1, <2>2, <2>3, <2>4, <2>5 DEF Next
<1> QED BY <1>1, FaithfulStarts, StaysFaithful, VariedStarts, Types, PTL DEF Spec

-----------------------------------------------------------------------------
(* The register mask *)

\* What guests do leaves the TR of a thread that waits alone.
LEMMA TheirsAlone ==
  ASSUME Faithful, NEW t \in Threads, Waits(t), NEW u \in Threads, Guest(u)
  PROVE  tr'[t] = tr[t]
<1>1. DOMAIN tr = Threads
  BY DEF Faithful, Typed
<1>2. CASE Decode(u) \/ Stock(u)
  <2>1. u # t
    BY <1>2 DEF Decode, Stock, Waits
  <2>2. \E x : tr' = [tr EXCEPT ![u] = x]
    BY <1>2 DEF Decode, Stock
  <2> QED BY <1>1, <2>1, <2>2
<1>3. CASE ~ (Decode(u) \/ Stock(u))
  BY <1>3 DEF Guest, Ask, AskNobody, Abort, Interrupted, ReceiveAgain, ReceiveWrong, Receive
<1> QED BY <1>2, <1>3

\* A request borrows free_gpr_mask: stock finds its own word again, answered,
\* declined or failed (Translator.cpp:779-787).
THEOREM MaskIsBorrowed == Spec => MaskKept
<1>1. Faithful /\ [Next]_vars => [\A t \in Threads : Waits(t) => tr'[t].mask = tr[t].mask]_vars
  <2> SUFFICES ASSUME Faithful, Next, NEW t \in Threads, Waits(t)
               PROVE  tr'[t].mask = tr[t].mask
    OBVIOUS
  <2>2. ASSUME NEW u \in Threads, Guest(u) PROVE tr'[t] = tr[t]
    BY <2>2, TheirsAlone
  <2>3. CASE Process
    <3>1. PICK r \in Range(service) :
            \/ NoTR(r) \/ NoProbe(r) \/ NoIR(r) \/ NoOffsets(r) \/ ServeStock(r) \/ ArplAborts(r)
            \/ \E o \in Outcomes(r) : NoBuffer(r, o) \/ NoWriteBack(r, o) \/ Serve(r, o)
      BY <2>3 DEF Process
    <3>2. ASSUME NEW o \in Outcomes(r), Serve(r, o) PROVE tr'[t].mask = tr[t].mask
      BY <3>2, Served
    <3>3. ASSUME NEW o \in Outcomes(r), NoBuffer(r, o) \/ NoWriteBack(r, o)
          PROVE  tr' = tr
      BY <3>3 DEF NoBuffer, NoWriteBack
    <3>4. CASE NoTR(r) \/ NoProbe(r) \/ NoIR(r) \/ NoOffsets(r) \/ ServeStock(r) \/ ArplAborts(r)
      BY <3>4 DEF NoTR, NoProbe, NoIR, NoOffsets, ServeStock, ArplAborts, Die
    <3> QED BY <3>1, <3>2, <3>3, <3>4
  <2>4. CASE SendReply \/ SendFails \/ ReceiveFails \/ SidecarDies
    BY <2>4 DEF SendReply, SendFails, ReceiveFails, SidecarDies, Die
  <2> QED BY <2>2, <2>3, <2>4 DEF Next
<1> QED BY <1>1, FaithfulStarts, StaysFaithful, PTL DEF Spec, MaskKept

-----------------------------------------------------------------------------
(* Blocks given up *)

\* A block, ir, is given up before its k-th instruction, as d says, and cached
\* IR, e, is found again there: it is what the thread has from there on.
GivenUp(d, e, block, ir, k) ==
  /\ d.block = block /\ d.n = Len(ir) /\ d.idx \in Int /\ d.idx < k
  /\ ~IrCacheOn => d.pc = ir[1].pc
  /\ IrCacheOn =>
       /\ e.block = block /\ Len(e.ir) = Len(ir) /\ e.next \in Int /\ e.next <= k
       /\ \A i \in k + 1..Len(ir) : e.ir[i] = ir[i]
       /\ d.pc = e.ir[1].pc

LEMMA FurtherOn ==
  ASSUME NEW d, NEW e, NEW block, NEW ir, NEW k \in Int, NEW l \in Int, k <= l, Len(ir) \in Nat,
         GivenUp(d, e, block, ir, k)
  PROVE  GivenUp(d, e, block, ir, l)
<1>1. l + 1..Len(ir) \subseteq k + 1..Len(ir)
  OBVIOUS
<1> QED BY <1>1 DEF GivenUp

\* Where a thread that asked goes on.
Past(t, next) == IF next = None THEN th[t].at + 1 ELSE next

\* A thread whose block ran out of registers is somewhere in the rest of it.
Abides(t) ==
  /\ \A i \in Asked(service, t) : service[i].block = th[t].block
  /\ th[t].dry =>
       LET from(k) == GivenUp(x87[t].declined, irc[t], th[t].block, th[t].ir, k)
       IN  /\ th[t].pc = "walk" \/ Asked(service, t) # {} => from(th[t].at)
           /\ th[t].pc = "fall" => from(th[t].at + 1)
           /\ \A i \in Sent(replies, t) : from(Past(t, replies[i].next))
           /\ Held(loop, t) = 1 => from(Past(t, loop.msg.next))

\* The request in front is about the block of its thread, and if that block is
\* given up, the sidecar works with the thread's instructions and knows it.
LEMMA StillDeclined ==
  ASSUME Faithful, NEW r, Serving(r), r.block = th[r.tr].block,
         GivenUp(x87[r.tr].declined, irc[r.tr], th[r.tr].block, th[r.tr].ir, r.idx)
  PROVE  LET t == r.tr
             got == Loaded(irc[t], r, th[t].ir)
         IN  /\ IrCacheOn => Reusable(irc[t], r, th[t].ir)
             /\ DeclinedRest(x87[t], r.block, got.ir, r.idx)
             /\ got.ir[r.idx + 1] = th[t].ir[r.idx + 1]
             /\ GivenUp(x87[t].declined, got, th[t].block, th[t].ir, r.idx + 1)
<1> PICK t \in Threads : t = r.tr
  BY InFront
<1> PICK ir \in Seq(Insns) : ir = th[t].ir
  BY InFront, DecodedType
<1> PICK e : e = irc[t]
  OBVIOUS
<1> PICK a \in 0..Len(ir) - 1 : a = r.idx
  BY InFront
<1> PICK n \in Nat : n = Len(ir)
  OBVIOUS
<1> PICK got : got = Loaded(e, r, ir)
  OBVIOUS
<1>1. r.n = n
  BY InFront
<1>2. got.block = r.block /\ got.next = a + 1 /\ got.ir = IF Reusable(e, r, ir) THEN e.ir ELSE ir
  BY DEF Loaded
<1>3. ASSUME IrCacheOn PROVE Reusable(e, r, ir) /\ got.ir = e.ir
  <2>1. /\ e.block = r.block /\ Len(e.ir) = n /\ e.next <= a /\ e.next \in Int
        /\ \A i \in a + 1..n : e.ir[i] = ir[i]
    BY <1>3 DEF GivenUp
  <2>2. SameBlock(e, r)
    BY <1>1, <1>3, <2>1 DEF SameBlock
  <2>3. e.ir \in Seq(Insns)
    BY DecodedType DEF Faithful, Typed
  <2>4. Probe(ir, a) = Probe(e.ir, a)
    <3>1. Len(e.ir) = Len(ir)
      BY <2>1
    <3>2. \A i \in a + 1..Len(ir) : e.ir[i] = ir[i]
      BY <2>1
    <3> QED BY <2>3, <3>1, <3>2, SameProbe
  <2> QED BY <1>2, <2>2, <2>4 DEF Reusable
<1>4. ASSUME ~IrCacheOn PROVE got.ir = ir
  BY <1>2, <1>4 DEF Reusable, SameBlock
<1>5. IrCacheOn \in BOOLEAN
  BY SidecarAssumption
<1>6. /\ Len(got.ir) = n /\ got.ir[1].pc = x87[t].declined.pc
      /\ \A i \in a + 1..n : got.ir[i] = ir[i]
  <2>1. CASE IrCacheOn
    BY <1>3, <2>1 DEF GivenUp
  <2>2. CASE ~IrCacheOn
    BY <1>4, <2>2 DEF GivenUp
  <2> QED BY <1>5, <2>1, <2>2
<1>7. DeclinedRest(x87[t], r.block, got.ir, r.idx)
  BY <1>6 DEF DeclinedRest, GivenUp
<1>8. GivenUp(x87[t].declined, got, th[t].block, ir, a + 1)
  <2>1. ~IrCacheOn => x87[t].declined.pc = ir[1].pc
    BY DEF GivenUp
  <2>2. /\ x87[t].declined.block = th[t].block /\ x87[t].declined.n = n
        /\ x87[t].declined.idx \in Int /\ x87[t].declined.idx < a + 1
    BY DEF GivenUp
  <2> QED BY <1>2, <1>6, <2>1, <2>2 DEF GivenUp
<1> QED BY <1>3, <1>6, <1>7, <1>8, SMTT(30)

\* A request runs out of registers: the block is given up behind it.
LEMMA NowDeclined ==
  ASSUME WindowCovers, Faithful, NEW r, Serving(r), r.block = th[r.tr].block,
         NEW got, got = Loaded(irc[r.tr], r, th[r.tr].ir), NEW d,
         d = RestFrom(r.block, got.ir, r.idx)
  PROVE  GivenUp(d, got, th[r.tr].block, th[r.tr].ir, r.idx + 1)
<1> PICK t \in Threads : t = r.tr
  BY InFront
<1> PICK ir \in Seq(Insns) : ir = th[t].ir
  BY InFront, DecodedType
<1> PICK a \in 0..Len(ir) - 1 : a = r.idx
  BY InFront
<1> PICK n \in Nat : n = Len(ir)
  OBVIOUS
<1>1. Len(got.ir) = n /\ \A i \in a + 1..n : got.ir[i] = ir[i]
  <2> PICK e : e = irc[t]
    OBVIOUS
  <2>1. e.ir \in Decoded
    BY DEF Faithful, Typed
  <2>2. ir \in Decoded /\ r.n = Len(ir) /\ r.idx \in 0..Len(ir) - 1
    BY InFront
  <2>3. Len(Loaded(e, r, ir).ir) = Len(ir)
        /\ \A i \in r.idx + 1..Len(ir) : Loaded(e, r, ir).ir[i] = ir[i]
    BY <2>1, <2>2, Fresh
  <2> QED BY <2>3
<1>2. got.block = r.block /\ got.next = a + 1
  BY DEF Loaded
<1>3. ~IrCacheOn => got.ir = ir
  BY DEF Loaded, Reusable, SameBlock
<1>4. d.block = th[t].block /\ d.idx = a /\ d.n = n /\ d.pc = got.ir[1].pc
  BY <1>1 DEF RestFrom
<1>5. d.block = th[t].block /\ d.n = Len(ir) /\ d.idx \in Int /\ d.idx < a + 1
  BY <1>4
<1>6. /\ got.block = th[t].block /\ Len(got.ir) = Len(ir) /\ got.next \in Int /\ got.next <= a + 1
      /\ \A i \in a + 1 + 1..Len(ir) : got.ir[i] = ir[i]
  BY <1>1, <1>2
<1> QED BY <1>3, <1>4, <1>5, <1>6 DEF GivenUp

-----------------------------------------------------------------------------
(* Steps in the rest of a block *)

\* Nothing about t changes but for how it waits.
LEMMA StillAbides ==
  ASSUME NEW t, Abides(t), Carried(t),
         th'[t].block = th[t].block, th'[t].ir = th[t].ir, th'[t].at = th[t].at,
         th'[t].dry = th[t].dry, x87'[t] = x87[t], irc'[t] = irc[t],
         th'[t].pc = th[t].pc \/ th'[t].pc \in {"wait", "retry"}
  PROVE  Abides(t)'
<1>1. \A i \in Asked(service', t) : service'[i].block = th'[t].block
  BY DEF Abides, Carried
<1> SUFFICES ASSUME th[t].dry
             PROVE  LET from(k) == GivenUp(x87[t].declined, irc[t], th[t].block, th[t].ir, k)
                    IN  /\ th'[t].pc = "walk" \/ Asked(service', t) # {} => from(th[t].at)
                        /\ th'[t].pc = "fall" => from(th[t].at + 1)
                        /\ \A i \in Sent(replies', t) : from(Past(t, replies'[i].next))
                        /\ Held(loop', t) = 1 => from(Past(t, loop'.msg.next))
  BY <1>1 DEF Abides, Past
<1> DEFINE from(k) == GivenUp(x87[t].declined, irc[t], th[t].block, th[t].ir, k)
<1>2. /\ th[t].pc = "walk" \/ Asked(service, t) # {} => from(th[t].at)
      /\ th[t].pc = "fall" => from(th[t].at + 1)
      /\ \A i \in Sent(replies, t) : from(Past(t, replies[i].next))
      /\ Held(loop, t) = 1 => from(Past(t, loop.msg.next))
  BY DEF Abides
<1> HIDE DEF from
<1>3. th'[t].pc = "walk" \/ Asked(service', t) # {} => from(th[t].at)
  BY <1>2 DEF Carried
<1>4. th'[t].pc = "fall" => from(th[t].at + 1)
  BY <1>2
<1>5. \A i \in Sent(replies', t) : from(Past(t, replies'[i].next))
  BY <1>2 DEF Carried
<1>6. Held(loop', t) = 1 => from(Past(t, loop'.msg.next))
  BY <1>2 DEF Carried
<1> QED BY <1>3, <1>4, <1>5, <1>6 DEF from

AllAbide == \A t \in Threads : Abides(t)

\* A thread without messages, at its next instruction.
LEMMA AbidesUnasked ==
  ASSUME InFlight', NEW t \in Threads, th'[t].pc \in {"walk", "fall"},
         th'[t].dry => GivenUp(x87'[t].declined, irc'[t], th'[t].block, th'[t].ir,
                               IF th'[t].pc = "walk" THEN th'[t].at ELSE th'[t].at + 1)
  PROVE  Abides(t)'
<1>1. Asked(service', t) = {} /\ Sent(replies', t) = {} /\ Held(loop', t) = 0
  BY MineNext DEF Waits
<1> QED BY <1>1 DEF Abides

LEMMA GuestAbides ==
  ASSUME Faithful, InFlight', AllAbide, NEW t \in Threads, Guest(t)
  PROVE  AllAbide'
<1>1. UNCHANGED <<x87, irc>>
  BY DEF Guest, Decode, Stock, Ask, AskNobody, Abort, Interrupted, ReceiveAgain, ReceiveWrong,
         Receive, sidecar
<1>2. DOMAIN th = Threads /\ \A u \in Threads : DOMAIN th[u] = ThreadFields
  BY DEF Faithful, Typed
<1> PICK at \in Nat : at = th[t].at
  BY DEF Faithful, Typed
<1>3. Len(th[t].ir) \in Nat
  BY DecodedType DEF Faithful, Typed
<1> DEFINE from(k) == GivenUp(x87[t].declined, irc[t], th[t].block, th[t].ir, k)
<1>4. ASSUME \A u \in Threads \ {t} : th'[u] = th[u] /\ Carried(u), Abides(t)'
      PROVE  AllAbide'
  <2>1. \A u \in Threads \ {t} : Abides(u)'
    BY <1>1, <1>4, StillAbides DEF AllAbide
  <2> QED BY <1>4, <2>1 DEF AllAbide
<1>5. CASE Decode(t)
  <2>1. \A u \in Threads : Carried(u)
    BY <1>5 DEF Decode, Carried
  <2>2. \E b, c : th' = [th EXCEPT ![t] = [pc |-> "walk", block |-> b, ir |-> c, at |-> 0,
                                           dry |-> FALSE]]
    BY <1>5 DEF Decode
  <2>3. th'[t].pc = "walk" /\ ~th'[t].dry /\ \A u \in Threads \ {t} : th'[u] = th[u]
    BY <1>2, <2>2
  <2>4. Abides(t)'
    BY <2>3, AbidesUnasked
  <2> QED BY <1>4, <2>1, <2>3, <2>4
<1>6. CASE Stock(t)
  <2>1. \A u \in Threads : Carried(u)
    BY <1>6 DEF Stock, Carried
  <2>2. th' = [th EXCEPT ![t].pc = "walk", ![t].at = @ + 1] /\ th[t].pc \in {"walk", "fall"}
    BY <1>6 DEF Stock
  <2>3. /\ th'[t].pc = "walk" /\ th'[t].at = at + 1 /\ th'[t].dry = th[t].dry
        /\ th'[t].block = th[t].block /\ th'[t].ir = th[t].ir
        /\ \A u \in Threads \ {t} : th'[u] = th[u]
    BY <1>2, <2>2 DEF ThreadFields
  <2>4. th[t].dry => from(at) \/ from(at + 1)
    BY <2>2 DEF AllAbide, Abides
  <2>5. from(at) => from(at + 1)
    BY <1>3, FurtherOn
  <2> HIDE DEF from
  <2>6. th'[t].dry => from(at + 1)
    BY <2>3, <2>4, <2>5
  <2>7. Abides(t)'
    BY <1>1, <2>3, <2>6, AbidesUnasked DEF from
  <2> QED BY <1>4, <2>1, <2>3, <2>7
<1>7. CASE Ask(t)
  <2>1. /\ \A u \in Threads \ {t} : Carried(u)
        /\ Asked(service', t) # {} /\ \A i \in Asked(service', t) : service'[i] = Request(t)
    BY <1>7, AskCarries DEF Faithful
  <2>2. Sent(replies', t) = {} /\ Held(loop', t) = 0
    BY <2>1, MineNext
  <2>3. th' = [th EXCEPT ![t].pc = "wait"] /\ th[t].pc = "walk"
    BY <1>7 DEF Ask
  <2>4. /\ th'[t].pc = "wait" /\ th'[t].at = at /\ th'[t].dry = th[t].dry
        /\ th'[t].block = th[t].block /\ th'[t].ir = th[t].ir
        /\ \A u \in Threads \ {t} : th'[u] = th[u]
    BY <1>2, <2>3 DEF ThreadFields
  <2>5. th[t].dry => from(at)
    BY <2>3 DEF AllAbide, Abides
  <2>6. \A i \in Asked(service', t) : service'[i].block = th'[t].block
    BY <2>1, <2>4 DEF Request
  <2>7. Abides(t)'
    BY <1>1, <2>2, <2>4, <2>5, <2>6 DEF Abides
  <2> QED BY <1>4, <2>1, <2>4, <2>7
<1>8. CASE AskNobody(t) \/ ReceiveWrong(t)
  <2>1. UNCHANGED <<th, service, replies, loop>>
    BY <1>8 DEF AskNobody, ReceiveWrong, Abort
  <2>2. \A u \in Threads : Carried(u)
    BY <2>1 DEF Carried
  <2>3. \A u \in Threads : Abides(u)'
    BY <1>1, <2>1, <2>2, StillAbides DEF AllAbide
  <2> QED BY <2>3 DEF AllAbide
<1>9. CASE Interrupted(t) \/ ReceiveAgain(t)
  <2>1. UNCHANGED <<service, replies, loop>>
    BY <1>9 DEF Interrupted, ReceiveAgain
  <2>2. \A u \in Threads : Carried(u)
    BY <2>1 DEF Carried
  <2>3. PICK p \in {"wait", "retry"} : th' = [th EXCEPT ![t].pc = p]
    BY <1>9 DEF Interrupted, ReceiveAgain
  <2>4. /\ th'[t].pc \in {"wait", "retry"} /\ th'[t].at = th[t].at /\ th'[t].dry = th[t].dry
        /\ th'[t].block = th[t].block /\ th'[t].ir = th[t].ir
        /\ \A u \in Threads \ {t} : th'[u] = th[u]
    BY <1>2, <2>3 DEF ThreadFields
  <2>5. Abides(t)'
    BY <1>1, <2>2, <2>4, StillAbides DEF AllAbide
  <2> QED BY <1>4, <2>2, <2>4, <2>5
<1>10. CASE Receive(t)
  <2> PICK next : next = Head(replies).next
    OBVIOUS
  <2>1. /\ \A u \in Threads \ {t} : Carried(u)
        /\ 1 \in Sent(replies, t) /\ replies[1].next = next
    BY <1>10, ReceiveCarries DEF Faithful
  <2>2. th' = IF next = None THEN [th EXCEPT ![t].pc = "fall"]
                             ELSE [th EXCEPT ![t].pc = "walk", ![t].at = next]
    BY <1>10 DEF Receive
  <2>3. th[t].dry => from(IF next = None THEN at + 1 ELSE next)
    BY <2>1 DEF AllAbide, Abides, Past
  <2>4. /\ th'[t].dry = th[t].dry /\ th'[t].block = th[t].block /\ th'[t].ir = th[t].ir
        /\ \A u \in Threads \ {t} : th'[u] = th[u]
        /\ next = None => th'[t].pc = "fall" /\ th'[t].at = at
        /\ next # None => th'[t].pc = "walk" /\ th'[t].at = next
    <3>1. CASE next = None
      BY <1>2, <2>2, <3>1 DEF ThreadFields
    <3>2. CASE next # None
      BY <1>2, <2>2, <3>2 DEF ThreadFields
    <3> QED BY <3>1, <3>2
  <2>5. Abides(t)'
    <3>1. CASE next = None
      BY <1>1, <2>3, <2>4, <3>1, AbidesUnasked
    <3>2. CASE next # None
      BY <1>1, <2>3, <2>4, <3>2, AbidesUnasked
    <3> QED BY <3>1, <3>2
  <2> QED BY <1>4, <2>1, <2>4, <2>5
<1> QED BY <1>5, <1>6, <1>7, <1>8, <1>9, <1>10 DEF Guest

\* An answer that does not give up what was given up.
LEMMA AnswerAbides ==
  ASSUME Faithful, InFlight', AllAbide, NEW r, Serving(r), NEW next, Answer(r, next),
         \A u \in Threads : /\ th'[u].ir = th[u].ir /\ th'[u].at = th[u].at
                            /\ th'[u].pc = th[u].pc /\ th'[u].block = th[u].block,
         \A u \in Threads \ {r.tr} :
           th'[u].dry = th[u].dry /\ x87'[u] = x87[u] /\ irc'[u] = irc[u],
         th'[r.tr].dry =>
           GivenUp(x87'[r.tr].declined, irc'[r.tr], th[r.tr].block, th[r.tr].ir,
                   IF next = None THEN r.idx + 1 ELSE next)
  PROVE  AllAbide'
<1> PICK t \in Threads : t = r.tr
  BY InFront
<1>1. /\ Held(loop', t) = 1 /\ loop'.msg.next = next
      /\ \A u \in Threads \ {t} : Carried(u)
  BY AnswerCarries DEF Faithful
<1>2. ASSUME NEW u \in Threads \ {t} PROVE Abides(u)'
  BY <1>1, StillAbides DEF AllAbide
<1>3. Asked(service', t) = {} /\ Sent(replies', t) = {}
  BY <1>1, MineNext
<1>4. Waits(t) /\ r.idx = th[t].at
  BY InFront
<1>5. th'[t].pc \notin {"walk", "fall"}
  BY <1>4 DEF Waits
<1>6. Past(t, next)' = IF next = None THEN r.idx + 1 ELSE next
  BY <1>4 DEF Past
<1>7. Abides(t)'
  BY <1>1, <1>3, <1>5, <1>6 DEF Abides, Past
<1> QED BY <1>2, <1>7 DEF AllAbide

\* The request in front, of a thread whose block is given up.
LEMMA FrontAbides ==
  ASSUME Faithful, AllAbide, NEW r, Serving(r)
  PROVE  /\ r.block = th[r.tr].block
         /\ th[r.tr].dry =>
              GivenUp(x87[r.tr].declined, irc[r.tr], th[r.tr].block, th[r.tr].ir, r.idx)
<1> PICK t \in Threads : t = r.tr
  BY InFront
<1>1. 1 \in DOMAIN service /\ r = service[1]
  BY DEF Serving, Faithful, InFlight, Shape
<1>2. 1 \in Asked(service, t)
  BY <1>1 DEF Asked
<1>3. r.idx = th[t].at
  BY InFront
<1> QED BY <1>1, <1>2, <1>3 DEF AllAbide, Abides

LEMMA AbidesWithoutCode ==
  ASSUME Faithful, InFlight', AllAbide, NEW r,
         NoTR(r) \/ NoProbe(r) \/ NoIR(r) \/ NoOffsets(r) \/ ServeStock(r)
  PROVE  AllAbide'
<1>1. Serving(r) /\ Answer(r, None) /\ UNCHANGED th
  BY DEF NoTR, NoProbe, NoIR, NoOffsets, ServeStock
<1> PICK t \in Threads : t = r.tr
  BY <1>1, InFront
<1> PICK got : got = Loaded(irc[t], r, th[t].ir)
  OBVIOUS
<1>2. DOMAIN x87 = Threads /\ DOMAIN irc = Threads /\ DOMAIN x87[t] = Fields
  BY DEF Faithful, Typed, Resting
<1>3. /\ UNCHANGED x87 \/ Bypass(t)
      /\ \/ UNCHANGED irc \/ irc' = [irc EXCEPT ![t] = got]
         \/ ~Reusable(irc[t], r, th[t].ir) /\ irc' = [irc EXCEPT ![t] = EmptyIR]
  BY DEF NoTR, NoProbe, NoIR, NoOffsets, ServeStock, sidecar
<1>4. /\ x87'[t].declined = x87[t].declined
      /\ \A u \in Threads \ {t} : x87'[u] = x87[u] /\ irc'[u] = irc[u]
      /\ \/ irc'[t] = irc[t] \/ irc'[t] = got
         \/ ~Reusable(irc[t], r, th[t].ir)
  <2>1. x87'[t].declined = x87[t].declined /\ \A u \in Threads \ {t} : x87'[u] = x87[u]
    <3> PICK c : c = [invalidate(x87[t]) EXCEPT !.prev = NoBlock]
      OBVIOUS
    <3>1. c.declined = x87[t].declined
      BY <1>2 DEF invalidate, Fields
    <3>2. UNCHANGED x87 \/ x87' = [x87 EXCEPT ![t] = c]
      BY <1>3 DEF Bypass
    <3> QED BY <1>2, <3>1, <3>2
  <2> QED BY <1>2, <1>3, <2>1
<1> DEFINE given(e, k) == GivenUp(x87[t].declined, e, th[t].block, th[t].ir, k)
<1>5. ASSUME th[t].dry PROVE given(irc'[t], r.idx + 1)
  <2>1. r.block = th[t].block /\ given(irc[t], r.idx)
    BY <1>1, <1>5, FrontAbides
  <2>2. IrCacheOn => Reusable(irc[t], r, th[t].ir)
    BY <1>1, <2>1, StillDeclined
  <2>3. given(got, r.idx + 1)
    BY <1>1, <2>1, StillDeclined
  <2>4. r.idx \in Int /\ Len(th[t].ir) \in Nat
    BY <1>1, InFront, DecodedType
  <2>5. given(irc[t], r.idx + 1)
    <3> PICK k \in Int : k = r.idx
      BY <2>4
    <3> QED BY <2>1, <2>4, FurtherOn
  <2>6. CASE ~Reusable(irc[t], r, th[t].ir)
    <3>1. ~IrCacheOn
      BY <2>2, <2>6
    <3> QED BY <2>5, <3>1 DEF GivenUp
  <2> QED BY <1>4, <2>3, <2>5, <2>6
<1>6. th'[t].dry => GivenUp(x87'[t].declined, irc'[t], th[t].block, th[t].ir,
                           IF None = None THEN r.idx + 1 ELSE None)
  BY <1>1, <1>4, <1>5
<1> QED BY <1>1, <1>4, <1>6, AnswerAbides

LEMMA AbidesTranslated ==
  ASSUME WindowCovers, Faithful, InFlight', AllAbide, NEW r, NEW o \in Outcomes(r),
         NoBuffer(r, o) \/ NoWriteBack(r, o) \/ Serve(r, o)
  PROVE  AllAbide'
<1>1. Translating(r, o) /\ Serving(r)
  BY DEF Serve, NoBuffer, NoWriteBack, Translating
<1> PICK t \in Threads : t = r.tr
  BY <1>1, InFront
<1> PICK got : got = Loaded(irc[t], r, th[t].ir)
  OBVIOUS
<1> PICK a \in Int : a = r.idx
  BY <1>1, InFront
<1>2. /\ DOMAIN x87 = Threads /\ DOMAIN irc = Threads /\ DOMAIN th = Threads
      /\ \A u \in Threads : DOMAIN th[u] = ThreadFields
      /\ Resting(x87[t]) /\ tr[t].mask \in SUBSET Registers
  BY DEF Faithful, Typed
<1>3. /\ o \in translate_instruction(x87[t], tr[t].mask, r.block, got.ir, a)
      /\ o.next # Aborted
      /\ irc' = [irc EXCEPT ![t] = [got EXCEPT !.next = IF o.next = None THEN @ ELSE o.next]]
  BY <1>1 DEF Translating
<1>4. /\ got.ir \in Seq([pc : Nat, op : Ops]) /\ Len(got.ir) = Len(th[t].ir) /\ a \in 0..Len(got.ir) - 1
      /\ got = [block |-> r.block, ir |-> got.ir, next |-> a + 1]
  <2>1. got.ir \in Seq(Insns) /\ Len(got.ir) = Len(th[t].ir)
    BY <1>1, LoadedTyped
  <2>2. r.idx \in 0..Len(th[t].ir) - 1
    BY <1>1, InFront
  <2> QED BY <2>1, <2>2 DEF Loaded, Insns
<1>5. Settled(o, a, Len(got.ir), tr[t].mask) /\ GivesUp(o, r.block, got.ir, a)
  BY <1>2, <1>3, <1>4, EveryOutcome
<1>6. DeclinedRest(x87[t], r.block, got.ir, a) => LeavesIt(o, x87[t], got.ir, a)
  BY <1>2, <1>3, StaysDeclined
<1>7. PICK dry \in BOOLEAN :
        /\ dry = (th[t].dry \/ RanDry(o))
        /\ th' = [th EXCEPT ![t].dry = dry]
  <2>1. (th[t].dry \/ o.dry) \in BOOLEAN
    OBVIOUS
  <2>2. th' = [th EXCEPT ![t].dry = @ \/ o.dry]
    BY <1>1 DEF Translating
  <2> QED BY <2>1, <2>2, Zenon DEF RanDry
<1>8. /\ \A u \in Threads : /\ th'[u].ir = th[u].ir /\ th'[u].at = th[u].at
                            /\ th'[u].pc = th[u].pc /\ th'[u].block = th[u].block
      /\ \A u \in Threads \ {t} : th'[u].dry = th[u].dry
      /\ th'[t].dry = dry
  BY <1>2, <1>7 DEF ThreadFields
<1>9. /\ irc'[t] = [block |-> r.block, ir |-> got.ir,
                    next |-> IF o.next = None THEN a + 1 ELSE o.next]
      /\ \A u \in Threads \ {t} : irc'[u] = irc[u]
  <2>1. [got EXCEPT !.next = IF o.next = None THEN @ ELSE o.next]
          = [block |-> r.block, ir |-> got.ir, next |-> IF o.next = None THEN a + 1 ELSE o.next]
    BY <1>4
  <2> QED BY <1>2, <1>3, <2>1
<1>10. (UNCHANGED x87 /\ o.next # None) \/ x87' = [x87 EXCEPT ![t] = o.cache]
  BY DEF Serve, NoBuffer, NoWriteBack
<1>11. PICK next : Answer(r, next) /\ next \in {None, o.next}
  BY DEF Serve, NoBuffer, NoWriteBack
<1>12. /\ \A u \in Threads \ {t} : x87'[u] = x87[u]
       /\ x87'[t].declined = o.cache.declined \/ (x87'[t].declined = x87[t].declined /\ o.next # None)
  BY <1>2, <1>10
<1>13. r.block = th[t].block
  BY <1>1, FrontAbides
<1> DEFINE given(d, e, k) == GivenUp(d, e, th[t].block, th[t].ir, k)
<1>14. ASSUME RanDry(o)
       PROVE  given(x87'[t].declined, irc'[t], a + 1) /\ next = None
  <2>1. o.next = None /\ o.cache.declined = RestFrom(r.block, got.ir, a)
    BY <1>3, <1>5, <1>14 DEF GivesUp
  <2>2. next = None /\ x87'[t].declined = o.cache.declined /\ irc'[t] = got
    BY <1>4, <1>9, <1>11, <1>12, <2>1
  <2>3. given(o.cache.declined, got, a + 1)
    BY <1>1, <1>13, <2>1, NowDeclined
  <2> QED BY <2>2, <2>3
<1>15. ASSUME th[t].dry
       PROVE  given(x87'[t].declined, irc'[t], a + 1) /\ next \in {None, a + 1}
  <2>1. given(x87[t].declined, irc[t], a)
    BY <1>1, <1>15, FrontAbides
  <2>2. /\ DeclinedRest(x87[t], r.block, got.ir, a)
        /\ given(x87[t].declined, got, a + 1)
    BY <1>1, <1>13, <2>1, StillDeclined
  <2>3. /\ o.cache.declined = x87[t].declined
        /\ o.next = None \/ (o.next = a + 1 /\ OpAt(got.ir, a) = Arpl)
    BY <1>6, <2>2 DEF LeavesIt
  <2>4. irc'[t] = got
    BY <1>4, <1>9, <2>3
  <2> QED BY <1>11, <1>12, <2>2, <2>3, <2>4
<1>16. th'[t].dry => GivenUp(x87'[t].declined, irc'[t], th[t].block, th[t].ir,
                            IF next = None THEN r.idx + 1 ELSE next)
  <2>1. th'[t].dry => th[t].dry \/ RanDry(o)
    BY <1>7, <1>8
  <2>2. (IF next = None THEN a + 1 ELSE next) = a + 1 \/ ~th'[t].dry
    BY <1>14, <1>15, <2>1
  <2> QED BY <1>14, <1>15, <2>1, <2>2
<1> QED BY <1>1, <1>8, <1>9, <1>11, <1>12, <1>16, AnswerAbides

LEMMA LoopAbides ==
  ASSUME Faithful, AllAbide, SendReply \/ SendFails \/ ReceiveFails \/ Die \/ UNCHANGED vars
  PROVE  AllAbide'
<1>1. UNCHANGED <<th, x87, irc>>
  BY DEF SendReply, SendFails, ReceiveFails, Die, sidecar, vars
<1>2. \A u \in Threads : Carried(u)
  <2>1. CASE SendReply \/ SendFails
    BY <2>1, SendCarries DEF Faithful
  <2>2. CASE Die
    BY <2>2, DieCarries DEF Faithful
  <2>3. CASE ReceiveFails \/ UNCHANGED vars
    <3>1. UNCHANGED <<service, replies>> /\ (loop' = loop \/ loop' \in Idle)
      BY <2>3 DEF ReceiveFails, vars, Idle
    <3> QED BY <3>1, Plain DEF Carried
  <2> QED BY <2>1, <2>2, <2>3
<1>3. \A u \in Threads : Abides(u)'
  BY <1>1, <1>2, StillAbides DEF AllAbide
<1> QED BY <1>3 DEF AllAbide

\* Once a request of a block has run out of registers, the sidecar adds no
\* more x87 code to the block (X87Cache.h:106-113), if no block is longer than
\* the window of cached IR that is compared.
THEOREM BlocksStayDeclined ==
  ASSUME WindowCovers
  PROVE  Spec => DeclinedToEnd
<1>1. Init => AllAbide
  <2> SUFFICES ASSUME Init, NEW t \in Threads PROVE Abides(t)
    BY DEF AllAbide
  <2>1. service = <<>> /\ ~th[t].dry
    BY DEF Init
  <2>2. Asked(service, t) = {}
    BY <2>1 DEF Asked
  <2> QED BY <2>1, <2>2 DEF Abides
<1>2. Faithful /\ InFlight' /\ AllAbide /\ [Next]_vars => AllAbide'
  <2> SUFFICES ASSUME Faithful, InFlight', AllAbide, [Next]_vars PROVE AllAbide'
    OBVIOUS
  <2>1. ASSUME NEW t \in Threads, Guest(t) PROVE AllAbide'
    BY <2>1, GuestAbides
  <2>2. ASSUME Process PROVE AllAbide'
    <3>1. PICK r \in Range(service) :
            \/ NoTR(r) \/ NoProbe(r) \/ NoIR(r) \/ NoOffsets(r) \/ ServeStock(r) \/ ArplAborts(r)
            \/ \E o \in Outcomes(r) : NoBuffer(r, o) \/ NoWriteBack(r, o) \/ Serve(r, o)
      BY <2>2 DEF Process
    <3>2. CASE NoTR(r) \/ NoProbe(r) \/ NoIR(r) \/ NoOffsets(r) \/ ServeStock(r)
      BY <3>2, AbidesWithoutCode
    <3>3. CASE ArplAborts(r)
      BY <3>3, LoopAbides DEF ArplAborts
    <3>4. CASE \E o \in Outcomes(r) : NoBuffer(r, o) \/ NoWriteBack(r, o) \/ Serve(r, o)
      BY <3>4, AbidesTranslated
    <3> QED BY <3>1, <3>2, <3>3, <3>4
  <2>3. CASE SendReply \/ SendFails \/ ReceiveFails \/ UNCHANGED vars
    BY <2>3, LoopAbides
  <2>4. CASE SidecarDies
    BY <2>4, LoopAbides DEF SidecarDies
  <2> QED BY <2>1, <2>2, <2>3, <2>4 DEF Next
<1>3. Faithful /\ AllAbide /\ [Next]_vars =>
        [\A t \in Threads : Waits(t) /\ th[t].dry /\ OpAt(th[t].ir, th[t].at) # Arpl
                              => tr'[t].code = tr[t].code]_vars
  <2> SUFFICES ASSUME Faithful, AllAbide, Next, NEW t \in Threads, Waits(t), th[t].dry,
                      OpAt(th[t].ir, th[t].at) # Arpl
               PROVE  tr'[t].code = tr[t].code
    OBVIOUS
  <2>1. ASSUME NEW u \in Threads, Guest(u) PROVE tr'[t] = tr[t]
    BY <2>1, TheirsAlone
  <2>2. CASE Process
    <3>1. PICK r \in Range(service) :
            \/ NoTR(r) \/ NoProbe(r) \/ NoIR(r) \/ NoOffsets(r) \/ ServeStock(r) \/ ArplAborts(r)
            \/ \E o \in Outcomes(r) : NoBuffer(r, o) \/ NoWriteBack(r, o) \/ Serve(r, o)
      BY <2>2 DEF Process
    <3>2. ASSUME NEW o \in Outcomes(r), Serve(r, o) PROVE tr'[t].code = tr[t].code
      <4>1. Translating(r, o) /\ Serving(r)
        BY <3>2 DEF Serve, Translating
      <4>2. CASE t # r.tr
        BY <3>2, <4>2, Served
      <4>3. CASE t = r.tr
        <5> PICK got : got = Loaded(irc[t], r, th[t].ir)
          OBVIOUS
        <5>1. r.idx = th[t].at /\ r.idx \in Int
          BY <4>1, <4>3, InFront
        <5>2. DeclinedRest(x87[t], r.block, got.ir, r.idx)
              /\ got.ir[r.idx + 1] = th[t].ir[r.idx + 1]
          BY <4>1, <4>3, FrontAbides, StillDeclined
        <5>3. OpAt(got.ir, r.idx) # Arpl
          BY <5>1, <5>2 DEF OpAt
        <5>4. o \in translate_instruction(x87[t], tr[t].mask, r.block, got.ir, r.idx)
              /\ o.next # Aborted
          BY <4>1, <4>3 DEF Translating
        <5>5. Resting(x87[t])
          BY DEF Faithful, Typed
        <5>6. o.next = None
          BY <5>1, <5>2, <5>3, <5>4, <5>5, StaysDeclined DEF LeavesIt
        <5> QED BY <3>2, <4>3, <5>6, Served
      <4> QED BY <4>2, <4>3
    <3>3. ASSUME NEW o \in Outcomes(r), NoBuffer(r, o) \/ NoWriteBack(r, o)
          PROVE  tr' = tr
      BY <3>3 DEF NoBuffer, NoWriteBack
    <3>4. CASE NoTR(r) \/ NoProbe(r) \/ NoIR(r) \/ NoOffsets(r) \/ ServeStock(r) \/ ArplAborts(r)
      BY <3>4 DEF NoTR, NoProbe, NoIR, NoOffsets, ServeStock, ArplAborts, Die
    <3> QED BY <3>1, <3>2, <3>3, <3>4
  <2>3. CASE SendReply \/ SendFails \/ ReceiveFails \/ SidecarDies
    BY <2>3 DEF SendReply, SendFails, ReceiveFails, SidecarDies, Die
  <2> QED BY <2>1, <2>2, <2>3 DEF Next
<1>4. Faithful => InFlight
  BY DEF Faithful
<1> QED BY <1>1, <1>2, <1>3, <1>4, FaithfulStarts, StaysFaithful, PTL DEF Spec, DeclinedToEnd

-----------------------------------------------------------------------------
(* The refinement *)

IRs   == [t \in Threads |-> th[t].ir]
Codes == [t \in Threads |-> tr[t].code]

LEMMA AbstractStarts == Init => Abstract!Init
<1> SUFFICES ASSUME Init PROVE Abstract!Init
  OBVIOUS
<1>1. IRs = [t \in Threads |-> <<>>] /\ Codes = [t \in Threads |-> <<>>] /\ exited = FALSE
  BY DEF Init, IRs, Codes
<1> QED BY <1>1 DEF Abstract!Init, IRs, Codes

\* Neither blocks nor code nor the process.
LEMMA Stutters ==
  ASSUME \A u \in Threads : th'[u].ir = th[u].ir /\ tr'[u].code = tr[u].code,
         exited' = exited
  PROVE  UNCHANGED Abstract!vars
<1>1. IRs' = IRs /\ Codes' = Codes
  BY DEF IRs, Codes
<1> QED BY <1>1 DEF Abstract!vars, IRs, Codes

LEMMA Exits ==
  ASSUME NEW t, AskNobody(t) \/ ReceiveWrong(t)
  PROVE  Abstract!Next
<1>1. exited' = TRUE /\ UNCHANGED <<th, tr>>
  BY DEF AskNobody, ReceiveWrong, Abort
<1>2. IRs' = IRs /\ Codes' = Codes
  BY <1>1 DEF IRs, Codes
<1>3. Abstract!Exit
  BY <1>1, <1>2 DEF Abstract!Exit, IRs, Codes
<1> QED BY <1>3 DEF Abstract!Next

LEMMA StartsBlock ==
  ASSUME Faithful, NEW t \in Threads, Decode(t)
  PROVE  Abstract!Next
<1>1. PICK b \in Blocks, c \in Contents, m \in Masks :
        /\ th' = [th EXCEPT ![t] = [pc |-> "walk", block |-> b, ir |-> c, at |-> 0, dry |-> FALSE]]
        /\ tr' = [tr EXCEPT ![t] = [mask |-> m, code |-> <<>>]]
  BY DEF Decode
<1>2. ~exited /\ UNCHANGED exited
  BY DEF Decode
<1>3. /\ th'[t].ir = c /\ tr'[t].code = <<>>
      /\ \A u \in Threads \ {t} : th'[u] = th[u] /\ tr'[u] = tr[u]
  BY <1>1 DEF Faithful, Typed
<1>4. IRs' = [IRs EXCEPT ![t] = c] /\ Codes' = [Codes EXCEPT ![t] = <<>>]
  BY <1>3 DEF IRs, Codes
<1>5. Abstract!Start(t, c)
  BY <1>2, <1>4 DEF Abstract!Start, IRs, Codes
<1> QED BY <1>1, <1>5 DEF Abstract!Next

\* Code up to the n-th instruction where there was code up to the a-th.
LEMMA AddsCode ==
  ASSUME NEW t \in Threads, ~exited, exited' = exited,
         \A u \in Threads : th'[u].ir = th[u].ir,
         \A u \in Threads \ {t} : tr'[u].code = tr[u].code,
         NEW ir \in Seq(Insns), ir = th[t].ir, NEW a \in 0..Len(ir), NEW n \in a + 1..Len(ir),
         tr[t].code = SubSeq(ir, 1, a), tr'[t].code = SubSeq(ir, 1, n)
  PROVE  Abstract!Next
<1>1. Len(tr[t].code) = a
  <2>1. \A i \in 1..a : ir[i] \in Insns
    OBVIOUS
  <2>2. Len(SubSeq(ir, 1, a)) = IF 1 <= a THEN a - 1 + 1 ELSE 0
    BY <2>1, SubSeqProperties
  <2> QED BY <2>2
<1>2. IRs' = IRs /\ Codes' = [Codes EXCEPT ![t] = SubSeq(IRs[t], 1, n)]
  BY DEF IRs, Codes
<1>3. Codes[t] = tr[t].code /\ IRs[t] = ir
  BY DEF IRs, Codes
<1>4. n \in Len(Codes[t]) + 1..Len(IRs[t]) /\ n \in 1..Len(IRs[t])
  BY <1>1, <1>3
<1>5. Abstract!Translate(t, n)
  BY <1>2, <1>4 DEF Abstract!Translate, IRs, Codes
<1>6. \E k \in 1..Len(IRs[t]) : Abstract!Translate(t, k)
  BY <1>4, <1>5
<1> QED BY <1>6 DEF Abstract!Next, IRs

LEMMA StockAdds ==
  ASSUME WindowCovers, Faithful, NEW t \in Threads, Stock(t)
  PROVE  Abstract!Next
<1>1. ~Waits(t) /\ th[t].at < Len(th[t].ir) /\ th[t].ir \in Decoded
      /\ th[t].at \in 0..Len(th[t].ir)
  BY DEF Stock, Faithful, Typed, Waits
<1> PICK ir \in Seq(Insns) : ir = th[t].ir
  BY <1>1, DecodedType
<1> PICK a \in 0..Len(ir) - 1 : a = th[t].at
  BY <1>1
<1>2. tr[t].code = SubSeq(ir, 1, a)
  BY <1>1 DEF Faithful, Agrees, UpTo
<1>3. /\ ~exited /\ exited' = exited
      /\ th' = [th EXCEPT ![t].pc = "walk", ![t].at = @ + 1]
      /\ \E m : tr' = [tr EXCEPT ![t] = [mask |-> m, code |-> Append(@.code, ir[a + 1])]]
  BY DEF Stock
<1>4. /\ \A u \in Threads : th'[u].ir = th[u].ir
      /\ \A u \in Threads \ {t} : tr'[u].code = tr[u].code
      /\ tr'[t].code = Append(tr[t].code, ir[a + 1])
  BY <1>3 DEF Faithful, Typed, ThreadFields
<1>5. tr'[t].code = SubSeq(ir, 1, a + 1)
  <2>1. Append(SubSeq(ir, 1, a), ir[a + 1]) = SubSeq(ir, 1, a + 1)
    BY GrowsByOne
  <2> QED BY <1>2, <1>4, <2>1
<1>6. a \in 0..Len(ir) /\ a + 1 \in a + 1..Len(ir)
  OBVIOUS
<1> QED BY <1>2, <1>3, <1>4, <1>5, <1>6, AddsCode

LEMMA ServeAdds ==
  ASSUME WindowCovers, Faithful, NEW r, NEW o \in Outcomes(r), Serve(r, o)
  PROVE  [Abstract!Next]_(Abstract!vars)
<1>1. Translating(r, o) /\ Serving(r) /\ ~exited /\ exited' = exited
  BY DEF Serve, Translating, Serving, Answer
<1> PICK t \in Threads : t = r.tr
  BY <1>1, InFront
<1>2. /\ \A u \in Threads \ {t} : tr'[u] = tr[u]
      /\ Covers(th[t].ir, tr'[t].code, r.idx, o.next)
      /\ o.next = None => tr'[t].code = tr[t].code
  BY Served
<1>3. \A u \in Threads : th'[u].ir = th[u].ir
  BY <1>1, AsTranslated
<1>4. CASE o.next = None
  <2>1. \A u \in Threads : tr'[u].code = tr[u].code
    BY <1>2, <1>4
  <2> QED BY <1>1, <1>3, <2>1, Stutters
<1>5. CASE o.next # None
  <2> PICK ir \in Seq(Insns) : ir = th[t].ir
    BY <1>1, InFront, DecodedType
  <2> PICK a \in 0..Len(ir) : a = r.idx
    BY <1>1, InFront
  <2>1. tr[t].code = SubSeq(ir, 1, a)
    BY <1>1, InFront DEF UpTo
  <2>2. o.next \in a + 1..Len(ir) /\ tr'[t].code = SubSeq(ir, 1, o.next)
    BY <1>2, <1>5 DEF Covers, UpTo
  <2>3. \A u \in Threads \ {t} : tr'[u].code = tr[u].code
    BY <1>2
  <2>4. Abstract!Next
    BY <1>1, <1>3, <2>1, <2>2, <2>3, AddsCode
  <2> QED BY <2>4
<1> QED BY <1>4, <1>5

\* The code of a block is that of its own instructions, each once and in
\* order, whatever is cached, lost or half written (processTranslateRequest),
\* if no block is longer than the window of cached IR that is compared.
THEOREM Implements ==
  ASSUME WindowCovers
  PROVE  Spec => Translates
<1>1. Faithful /\ [Next]_vars => [Abstract!Next]_(Abstract!vars)
  <2> SUFFICES ASSUME Faithful, [Next]_vars PROVE [Abstract!Next]_(Abstract!vars)
    OBVIOUS
  <2>0. DOMAIN th = Threads
    BY DEF Faithful, Typed
  <2>1. ASSUME NEW t \in Threads, Guest(t) PROVE [Abstract!Next]_(Abstract!vars)
    <3>1. CASE Decode(t)
      BY <3>1, StartsBlock
    <3>2. CASE Stock(t)
      BY <3>2, StockAdds
    <3>3. CASE AskNobody(t) \/ ReceiveWrong(t)
      BY <3>3, Exits
    <3>4. CASE Ask(t) \/ Interrupted(t) \/ ReceiveAgain(t) \/ Receive(t)
      <4>1. UNCHANGED <<tr, exited>>
        BY <3>4 DEF Ask, Interrupted, ReceiveAgain, Receive
      <4>2. \/ \E p : th' = [th EXCEPT ![t].pc = p]
            \/ \E p, n : th' = [th EXCEPT ![t].pc = p, ![t].at = n]
        BY <3>4 DEF Ask, Interrupted, ReceiveAgain, Receive
      <4>3. \A u \in Threads : th'[u].ir = th[u].ir
        <5>1. CASE \E p : th' = [th EXCEPT ![t].pc = p]
          BY <5>1 DEF Faithful, Typed, ThreadFields
        <5>2. CASE \E p, n : th' = [th EXCEPT ![t].pc = p, ![t].at = n]
          BY <5>2 DEF Faithful, Typed, ThreadFields
        <5> QED BY <4>2, <5>1, <5>2
      <4> QED BY <4>1, <4>3, Stutters
    <3> QED BY <2>1, <3>1, <3>2, <3>3, <3>4 DEF Guest
  <2>2. ASSUME Process PROVE [Abstract!Next]_(Abstract!vars)
    <3>1. PICK r \in Range(service) :
            \/ NoTR(r) \/ NoProbe(r) \/ NoIR(r) \/ NoOffsets(r) \/ ServeStock(r) \/ ArplAborts(r)
            \/ \E o \in Outcomes(r) : NoBuffer(r, o) \/ NoWriteBack(r, o) \/ Serve(r, o)
      BY <2>2 DEF Process
    <3>2. ASSUME NEW o \in Outcomes(r), Serve(r, o) PROVE [Abstract!Next]_(Abstract!vars)
      BY <3>2, ServeAdds
    <3>3. ASSUME NEW o \in Outcomes(r), NoBuffer(r, o) \/ NoWriteBack(r, o)
          PROVE  [Abstract!Next]_(Abstract!vars)
      <4>1. Translating(r, o) /\ UNCHANGED <<tr, exited>>
        BY <3>3 DEF NoBuffer, NoWriteBack, Answer
      <4>2. \A u \in Threads : th'[u].ir = th[u].ir
        BY <4>1, AsTranslated
      <4> QED BY <4>1, <4>2, Stutters
    <3>4. CASE NoTR(r) \/ NoProbe(r) \/ NoIR(r) \/ NoOffsets(r) \/ ServeStock(r) \/ ArplAborts(r)
      <4>1. UNCHANGED <<th, tr, exited>>
        BY <3>4 DEF NoTR, NoProbe, NoIR, NoOffsets, ServeStock, ArplAborts, Die, Answer
      <4> QED BY <4>1, Stutters
    <3> QED BY <3>1, <3>2, <3>3, <3>4
  <2>3. CASE SendReply \/ SendFails \/ ReceiveFails \/ SidecarDies
    <3>1. UNCHANGED <<th, tr, exited>>
      BY <2>3 DEF SendReply, SendFails, ReceiveFails, SidecarDies, Die
    <3> QED BY <3>1, Stutters
  <2>4. CASE UNCHANGED vars
    BY <2>4, Stutters DEF vars
  <2> QED BY <2>1, <2>2, <2>3, <2>4 DEF Next
<1> QED BY <1>1, AbstractStarts, FaithfulStarts, StaysFaithful, PTL
       DEF Spec, Translates, Abstract!Spec
=============================================================================
