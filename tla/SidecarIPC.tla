---------------------------- MODULE SidecarIPC ----------------------------
(***************************************************************************)
(* Guest threads translate blocks with stock's translator.  The stub in    *)
(* front of it sends x87 instructions to the sidecar and waits; the        *)
(* sidecar reads the block and the TranslationResult (TR) from the guest   *)
(* process, translates, writes back, and answers with the index to go on   *)
(* at, or with None: then stock translates the instruction after all.      *)
(*                                                                         *)
(* Each thread has one TR, so a thread names its TR.  All of the threads   *)
(* receive on one reply port.                                              *)
(***************************************************************************)
EXTENDS X87Request, Functions

CONSTANTS
  Threads,
  Tag,            \* msgh_id of a thread's requests: the SP without its low 20 bits
  IrCacheOn,      \* X87_NO_IR_CACHE is not set
  Window,         \* kProbeWindow: instructions compared before cached IR is used
  StockContents,  \* contents given to stock whole: BCD, X87_STOCK_HASH_LIST
  Failures        \* what may fail: see the actions

ASSUME ThreadsAssumption == IsFiniteSet(Threads)
ASSUME TagAssumption == Tag \in [Threads -> Nat] /\ IsInjective(Tag)
ASSUME SidecarAssumption ==
  /\ IrCacheOn \in BOOLEAN
  /\ Window \in Nat \ {0}
  /\ StockContents \subseteq Contents

VARIABLES
  th,       \* guest threads: control, and the block they translate
  tr,       \* their TRs: register mask, and the instructions there is code for
  service,  \* requests in the service port
  replies,  \* messages in the reply port
  loop,     \* the receive loop: receiving, about to reply, returned or gone
  x87,      \* g_x87Cache
  irc,      \* g_irCache
  exited    \* the guest process is gone

vars == <<th, tr, service, replies, loop, x87, irc, exited>>
sidecar == <<x87, irc>>

-----------------------------------------------------------------------------
(* Messages *)

\* stub_asm.cpp: emit_body_stores, emit_build_msgh_id.
Request(t) == [tr |-> t, block |-> th[t].block, n |-> Len(th[t].ir), idx |-> th[t].at,
               id |-> Tag[t]]

\* ReplyMsg.
ReplyMsg(r, next) == [id |-> r.id, next |-> next]

\* The kernel's word that a send-once right was destroyed: an id of its own.
SendOnceNote == [id |-> -1, next |-> None]

Receiving == [state |-> "receive"]
Replying(r, next) == [state |-> "reply", msg |-> ReplyMsg(r, next)]
Returned == [state |-> "returned"]
Gone == [state |-> "gone"]

-----------------------------------------------------------------------------
(* Cached IR *)

EmptyIR == [block |-> NoBlock, ir |-> <<>>, next |-> 0]

\* The window from idx on, as long as it lies inside the block.
Probe(ir, idx) == SubSeq(ir, idx + 1, Min({Len(ir), idx + Window}))

SameBlock(e, r) ==
  /\ IrCacheOn
  /\ e.block = r.block
  /\ Len(e.ir) = r.n
  /\ r.idx >= e.next

\* Faulty: one instruction is compared.
Reusable_one(e, r, ir) == SameBlock(e, r) /\ e.ir[r.idx + 1] = ir[r.idx + 1]

Reusable(e, r, ir) == SameBlock(e, r) /\ Probe(ir, r.idx) = Probe(e.ir, r.idx)

\* The entry a request works with; stock goes on behind it, for all we know.
Loaded(e, r, ir) ==
  [block |-> r.block, ir |-> IF Reusable(e, r, ir) THEN e.ir ELSE ir, next |-> r.idx + 1]

-----------------------------------------------------------------------------
Init ==
  /\ th = [t \in Threads |-> [pc |-> "walk", block |-> NoBlock, ir |-> <<>>, at |-> 0,
                              dry |-> FALSE]]
  /\ tr = [t \in Threads |-> [mask |-> ScratchPool, code |-> <<>>]]
  /\ service = <<>>
  /\ replies = <<>>
  /\ loop = Receiving
  /\ x87 = [t \in Threads |-> NewCache]
  /\ irc = [t \in Threads |-> EmptyIR]
  /\ exited = FALSE

-----------------------------------------------------------------------------
(* Stock's translator *)

\* Stock starts on a block, at any address it has used before, or starts over.
Decode(t) ==
  /\ ~exited
  /\ th[t].pc = "walk"
  /\ \E b \in Blocks, c \in Contents, m \in Masks :
       /\ th' = [th EXCEPT ![t] = [pc |-> "walk", block |-> b, ir |-> c, at |-> 0,
                                   dry |-> FALSE]]
       /\ tr' = [tr EXCEPT ![t] = [mask |-> m, code |-> <<>>]]
  /\ UNCHANGED <<service, replies, loop, sidecar, exited>>

\* The stub's filter: x87 opcodes and ARPL go to the sidecar.
Filtered(t) ==
  th[t].at < Len(th[t].ir) /\ OpAt(th[t].ir, th[t].at) \in Handled \cup StockX87 \cup {Arpl}

\* Stock translates an instruction, its own or one the sidecar would not.
Stock(t) ==
  /\ ~exited
  /\ \/ th[t].pc = "walk" /\ th[t].at < Len(th[t].ir) /\ ~Filtered(t)
     \/ th[t].pc = "fall"
  /\ \E m \in Masks :
       tr' = [tr EXCEPT ![t] = [mask |-> m, code |-> Append(@.code, th[t].ir[th[t].at + 1])]]
  /\ th' = [th EXCEPT ![t].pc = "walk", ![t].at = @ + 1]
  /\ UNCHANGED <<service, replies, loop, sidecar, exited>>

-----------------------------------------------------------------------------
(* The stub *)

\* SEND and RCV in one trap.  MACH_SEND_INTERRUPTED: the same trap again.
Ask(t) ==
  /\ ~exited
  /\ th[t].pc = "walk" /\ Filtered(t)
  /\ loop # Gone
  /\ service' = Append(service, Request(t))
  /\ th' = [th EXCEPT ![t].pc = "wait"]
  /\ UNCHANGED <<tr, replies, loop, sidecar, exited>>

Abort == exited' = TRUE /\ UNCHANGED <<th, tr, service, replies, loop, sidecar>>

\* The service port is dead: kind 0.
AskNobody(t) ==
  /\ ~exited
  /\ th[t].pc = "walk" /\ Filtered(t)
  /\ loop = Gone
  /\ Abort

\* Faulty: the request is sent again too.
Interrupted_resent(t) ==
  /\ ~exited
  /\ "signal" \in Failures
  /\ th[t].pc = "wait"
  /\ loop # Gone
  /\ th' = [th EXCEPT ![t].pc = "retry"]
  /\ service' = Append(service, Request(t))
  /\ UNCHANGED <<tr, replies, loop, sidecar, exited>>

\* MACH_RCV_INTERRUPTED: the request is out, so only the receive is repeated.
Interrupted(t) ==
  /\ ~exited
  /\ "signal" \in Failures
  /\ th[t].pc = "wait"
  /\ th' = [th EXCEPT ![t].pc = "retry"]
  /\ UNCHANGED <<tr, service, replies, loop, sidecar, exited>>

ReceiveAgain(t) ==
  /\ ~exited
  /\ th[t].pc = "retry"
  /\ th' = [th EXCEPT ![t].pc = "wait"]
  /\ UNCHANGED <<tr, service, replies, loop, sidecar, exited>>

Received(t) == ~exited /\ th[t].pc = "wait" /\ replies # <<>>

\* Too short (kind 1), or another thread's (kind 2).
ReceiveWrong(t) == Received(t) /\ Head(replies).id # Tag[t] /\ Abort

\* Faulty: any thread's answer will do.
Receive_any(t) ==
  /\ Received(t)
  /\ LET next == Head(replies).next
     IN th' = IF next = None THEN [th EXCEPT ![t].pc = "fall"]
                             ELSE [th EXCEPT ![t].pc = "walk", ![t].at = next]
  /\ replies' = Tail(replies)
  /\ UNCHANGED <<tr, service, loop, sidecar, exited>>

\* Some: the stub returns the index.  None: stock's translate_insn runs.
Receive(t) ==
  /\ Received(t)
  /\ Head(replies).id = Tag[t]
  /\ LET next == Head(replies).next
     IN th' = IF next = None THEN [th EXCEPT ![t].pc = "fall"]
                             ELSE [th EXCEPT ![t].pc = "walk", ![t].at = next]
  /\ replies' = Tail(replies)
  /\ UNCHANGED <<tr, service, loop, sidecar, exited>>

-----------------------------------------------------------------------------
(* processTranslateRequest: one action for each way out *)

Serving(r) == ~exited /\ loop = Receiving /\ service # <<>> /\ r = Head(service)

Answer(r, next) ==
  /\ loop' = Replying(r, next)
  /\ service' = Tail(service)
  /\ UNCHANGED <<replies, exited>>

\* Faulty: nothing of the cache is left.
Bypass_fresh(t) == x87' = [x87 EXCEPT ![t] = NewCache]

\* CacheBypassGuard, when the translator has not run.
Bypass(t) == x87' = [x87 EXCEPT ![t] = [invalidate(@) EXCEPT !.prev = NoBlock]]

\* Faulty: the request is dropped.
NoTR_dropped(r) ==
  /\ "tr" \in Failures
  /\ Serving(r)
  /\ service' = Tail(service)
  /\ UNCHANGED <<th, tr, replies, loop, sidecar, exited>>

\* The TR cannot be read: nothing has been looked up yet.
NoTR(r) ==
  /\ "tr" \in Failures
  /\ Serving(r)
  /\ Answer(r, None)
  /\ UNCHANGED <<th, tr, sidecar>>

\* The window cannot be read.
NoProbe(r) ==
  /\ "probe" \in Failures
  /\ Serving(r)
  /\ SameBlock(irc[r.tr], r)
  /\ Answer(r, None)
  /\ Bypass(r.tr)
  /\ UNCHANGED <<th, tr, irc>>

\* The block cannot be read: nothing is left of the entry.
NoIR(r) ==
  /\ "ir" \in Failures
  /\ Serving(r)
  /\ ~Reusable(irc[r.tr], r, th[r.tr].ir)
  /\ Answer(r, None)
  /\ Bypass(r.tr)
  /\ irc' = [irc EXCEPT ![r.tr] = EmptyIR]
  /\ UNCHANGED <<th, tr>>

\* ThreadContextOffsets cannot be read.
NoOffsets(r) ==
  /\ "offsets" \in Failures
  /\ Serving(r)
  /\ Answer(r, None)
  /\ Bypass(r.tr)
  /\ irc' = [irc EXCEPT ![r.tr] = Loaded(@, r, th[r.tr].ir)]
  /\ UNCHANGED <<th, tr>>

\* A block for stock: its TR goes back as it came.
ServeStock(r) ==
  /\ Serving(r)
  /\ LET entry == Loaded(irc[r.tr], r, th[r.tr].ir)
     IN /\ entry.ir \in StockContents
        /\ irc' = [irc EXCEPT ![r.tr] = entry]
  /\ Answer(r, None)
  /\ Bypass(r.tr)
  /\ UNCHANGED <<th, tr>>

\* The translator runs on the cached block, with o for an outcome.
Translating(r, o) ==
  /\ Serving(r)
  /\ LET entry == Loaded(irc[r.tr], r, th[r.tr].ir)
     IN /\ entry.ir \notin StockContents
        /\ o \in translate_instruction(x87[r.tr], tr[r.tr].mask, r.block, entry.ir, r.idx)
        /\ o.next # Aborted
        /\ irc' = [irc EXCEPT ![r.tr] = [entry EXCEPT !.next = IF o.next = None THEN @ ELSE o.next]]
        /\ th' = [th EXCEPT ![r.tr].dry = @ \/ o.dry]

\* Faulty: the TR has been written before the fixups fail.
NoBuffer_ended(r, o) ==
  /\ "buffer" \in Failures
  /\ Translating(r, o)
  /\ o.next # None
  /\ tr' = [tr EXCEPT ![r.tr].code = @ \o SubSeq(irc'[r.tr].ir, r.idx + 1, o.next)]
  /\ Answer(r, None)
  /\ UNCHANGED x87

\* Code or fixups cannot be written: stock's ends are where they were.
NoBuffer(r, o) ==
  /\ "buffer" \in Failures
  /\ Translating(r, o)
  /\ o.next # None
  /\ Answer(r, None)
  /\ UNCHANGED <<tr, x87>>

\* The TR cannot be written, with the cache already kept.
NoWriteBack(r, o) ==
  /\ "writeback" \in Failures
  /\ Translating(r, o)
  /\ x87' = [x87 EXCEPT ![r.tr] = o.cache]
  /\ Answer(r, None)
  /\ UNCHANGED tr

\* The TR is written, and with it the new ends of code and fixups.
Serve(r, o) ==
  /\ Translating(r, o)
  /\ x87' = [x87 EXCEPT ![r.tr] = o.cache]
  /\ tr' = [tr EXCEPT ![r.tr].mask = o.mask,
                      ![r.tr].code = @ \o SubSeq(irc'[r.tr].ir, r.idx + 1, o.next)]
  /\ Answer(r, o.next)

-----------------------------------------------------------------------------
(* runReceiveLoop, and the end of things *)

SendReply ==
  /\ ~exited
  /\ loop.state = "reply"
  /\ replies' = Append(replies, loop.msg)
  /\ loop' = Receiving
  /\ UNCHANGED <<th, tr, service, sidecar, exited>>

\* The reply is given up, its send-once right with it.
SendFails ==
  /\ ~exited
  /\ "send" \in Failures
  /\ loop.state = "reply"
  /\ replies' = Append(replies, SendOnceNote)
  /\ loop' = Receiving
  /\ UNCHANGED <<th, tr, service, sidecar, exited>>

\* A receive fails: the loop returns, the service port stays.
ReceiveFails ==
  /\ ~exited
  /\ "receive" \in Failures
  /\ loop = Receiving
  /\ loop' = Returned
  /\ UNCHANGED <<th, tr, service, replies, sidecar, exited>>

\* Every request that is not answered has a send-once right.
Die ==
  LET open == Len(service) + (IF loop.state = "reply" THEN 1 ELSE 0)
  IN /\ loop' = Gone
     /\ service' = <<>>
     /\ replies' = replies \o [i \in 1..open |-> SendOnceNote]
     /\ UNCHANGED <<th, tr, sidecar, exited>>

SidecarDies == ~exited /\ "crash" \in Failures /\ loop # Gone /\ Die

\* No registers for ARPL, which stock does not know.
ArplAborts(r) ==
  /\ Serving(r)
  /\ LET ir == Loaded(irc[r.tr], r, th[r.tr].ir).ir
     IN /\ ir \notin StockContents
        /\ \E o \in translate_instruction(x87[r.tr], tr[r.tr].mask, r.block, ir, r.idx) :
             o.next = Aborted
  /\ Die

-----------------------------------------------------------------------------
Guest(t) ==
  \/ Decode(t) \/ Stock(t)
  \/ Ask(t) \/ AskNobody(t)
  \/ Interrupted(t) \/ ReceiveAgain(t)
  \/ ReceiveWrong(t) \/ Receive(t)

Outcomes(r) ==
  translate_instruction(x87[r.tr], tr[r.tr].mask, r.block,
                        Loaded(irc[r.tr], r, th[r.tr].ir).ir, r.idx)

Process ==
  \E r \in Range(service) :
    \/ NoTR(r) \/ NoProbe(r) \/ NoIR(r) \/ NoOffsets(r) \/ ServeStock(r) \/ ArplAborts(r)
    \/ \E o \in Outcomes(r) : NoBuffer(r, o) \/ NoWriteBack(r, o) \/ Serve(r, o)

Next ==
  \/ \E t \in Threads : Guest(t)
  \/ Process
  \/ SendReply \/ SendFails \/ ReceiveFails \/ SidecarDies

Spec == Init /\ [][Next]_vars

\* The loop is woken when a request arrives and sends what it has; a thread
\* wakes for a message, and is not interrupted every time.
FairSpec ==
  /\ Spec
  /\ WF_vars(Process)
  /\ WF_vars(SendReply \/ SendFails)
  /\ \A t \in Threads :
       /\ WF_vars(ReceiveAgain(t))
       /\ SF_vars(Receive(t) \/ ReceiveWrong(t))

-----------------------------------------------------------------------------
(* Properties *)

Waits(t) == th[t].pc \in {"wait", "retry"}

MessageType == [id : Range(Tag) \cup {-1}, next : Nat \cup {None}]

TypeOK ==
  /\ \A t \in Threads :
       /\ th[t].pc \in {"walk", "wait", "retry", "fall"}
       /\ th[t].block \in Blocks \cup {NoBlock}
       /\ th[t].ir \in Contents \cup {<<>>}
       /\ th[t].at \in 0..Len(th[t].ir)
       /\ th[t].dry \in BOOLEAN
       /\ tr[t].mask \in SUBSET Registers
       /\ tr[t].code \in Seq([pc : Nat, op : Ops])
       /\ x87[t].run = 0
       /\ x87[t].mask \in SUBSET Registers
       /\ irc[t].ir \in Contents \cup {<<>>}
       /\ irc[t].next \in 0..Len(irc[t].ir)
  /\ \A i \in DOMAIN service : service[i].tr \in Threads
  /\ replies \in Seq(MessageType)
  /\ \/ loop \in {Receiving, Returned, Gone}
     \/ loop.state = "reply" /\ loop.msg \in MessageType
  /\ exited \in BOOLEAN

\* Whatever is cached, lost or half written, a block gets the code of its own
\* instructions, each once and in order (processTranslateRequest, all of it).
Abstract == INSTANCE BlockTranslation
             WITH Programs <- Contents,
                  block <- [t \in Threads |-> th[t].ir],
                  code <- [t \in Threads |-> tr[t].code]
Translates == Abstract!Spec

\* Nobody waits for an answer that is not on its way, and nobody has two
\* (stub_asm.cpp:795-803): the stale one would be taken for the next.
Outstanding == Len(service) + Len(replies) + (IF loop.state = "reply" THEN 1 ELSE 0)

Meant(t) ==
  Cardinality({i \in DOMAIN service : service[i].tr = t})
    + Cardinality({i \in DOMAIN replies : replies[i].id = Tag[t]})
    + (IF loop.state = "reply" /\ loop.msg.id = Tag[t] THEN 1 ELSE 0)

OneInFlight ==
  /\ Outstanding = Cardinality({t \in Threads : Waits(t)})
  /\ \A t \in Threads : Meant(t) <= IF Waits(t) THEN 1 ELSE 0

\* A request borrows free_gpr_mask: stock finds its own word again, answered,
\* declined or failed (Translator.cpp:779-787).
MaskKept == [][\A t \in Threads : Waits(t) => tr'[t].mask = tr[t].mask]_vars

\* Once a request of a block has run out of registers, the sidecar adds no
\* more x87 code to the block (X87Cache.h:106-113).
DeclinedToEnd ==
  [][\A t \in Threads :
       Waits(t) /\ th[t].dry /\ OpAt(th[t].ir, th[t].at) # Arpl
         => tr'[t].code = tr[t].code]_vars

\* A thread that asks goes on, or the process exits.
Answered == \A t \in Threads : Waits(t) ~> ~Waits(t) \/ exited

\* Code is added to a block with its control-word writers known.
ScansBlock ==
  [][\A t \in Threads :
       Waits(t) /\ tr'[t].code # tr[t].code => x87'[t].cw = WritesCW(th[t].ir)]_vars

\* Stock is never handed ARPL, which it has no opcode for.
ArplNotStock == \A t \in Threads : th[t].pc = "fall" => OpAt(th[t].ir, th[t].at) # Arpl
=============================================================================
