------------------------------ MODULE X87Arch ------------------------------
(***************************************************************************)
(* What an x87 promises its programs: the reference the translator is     *)
(* held to.  A machine is a record                                        *)
(*    top   the register that is ST(0)                                    *)
(*    tag   which registers are in use (the tag word)                     *)
(*    st    what they hold; NoVal where the tag says empty                *)
(*    cc    the condition code in the status word                         *)
(*    out   what the last instruction handed to the guest: a value stored *)
(*          to memory, the status word FSTSW wrote, the flags FCOMI set   *)
(* and an instruction is an operator from machine to machine, applied to   *)
(* the machine with its out cleared.  Programs that overflow or underflow  *)
(* the stack are outside this specification: Room and Full are the         *)
(* preconditions.                                                          *)
(***************************************************************************)
EXTENDS X87Data

Room(a)    == ~a.tag[Dec(a.top)]
Full(a, d) == a.tag[Phys(a.top, d)]
St(a, d)   == a.st[Phys(a.top, d)]

\* The machine after an instruction that hands nothing to the guest.
Quiet(a)   == [a EXCEPT !.out = NoVal]
Give(a, v) == [a EXCEPT !.out = v]

\* TOP moves to register p; p is in use, or empty; p comes to hold v.
Move(a, p)    == [a EXCEPT !.top = p]
Take(a, p)    == [a EXCEPT !.tag[p] = TRUE]
Free(a, p)    == [a EXCEPT !.tag[p] = FALSE]
Hold(a, p, v) == [a EXCEPT !.st[p] = v]

Set(a, d, v) == Hold(a, Phys(a.top, d), v)
PushSt(a, v) == LET p == Dec(a.top) IN Hold(Take(Move(a, p), p), p, v)
FreeSt(a, d) == LET p == Phys(a.top, d) IN Hold(Free(a, p), p, NoVal)
PopSt(a)     == Move(FreeSt(a, 0), Inc(a.top))

Xch(a, d) == Set(Set(a, 0, St(a, d)), d, St(a, 0))
\* Comparing sets the condition code in the status word.
Compare(a, v) == [a EXCEPT !.cc = Cmp(St(a, 0), v)]
StatusWord(a) == <<a.top, a.cc>>

\* The instructions fusions are made of.
Val(a, x)        == IF x.mem THEN x.v ELSE St(a, x.i)
Fld(a, x)        == PushSt(a, Val(a, x))
Farith(a, k, x)  == Set(a, 0, Arith(k, St(a, 0), Val(a, x)))
Farithp(a, k)    == PopSt(Set(a, 1, Arith(k, St(a, 1), St(a, 0))))
Fst(a)           == Give(a, St(a, 0))
Fstp(a)          == PopSt(Fst(a))
FstpSti(a, i)    == PopSt(Set(a, i, St(a, 0)))
\* FCOM, FCOMP and FCOMPP pop n registers.
Fcom(a, x, n)    == LET c == Compare(a, Val(a, x))
                    IN  CASE n = 0 -> c
                          [] n = 1 -> PopSt(c)
                          [] OTHER -> PopSt(PopSt(c))
Fstsw(a)         == Give(a, StatusWord(a))

Empty == [top |-> 0, tag |-> [p \in Slots |-> FALSE],
             st |-> [p \in Slots |-> NoVal], cc |-> NoVal, out |-> NoVal]

(***************************************************************************)
(* The memory image FSAVE writes and FRSTOR reads.                         *)
(***************************************************************************)
Image(a) == [top |-> a.top, tag |-> a.tag, st |-> a.st, cc |-> a.cc]
FromImage(img) == [top |-> img.top, tag |-> img.tag,
                   st |-> [p \in Slots |-> IF img.tag[p] THEN img.st[p]
                                           ELSE NoVal],
                   cc |-> img.cc, out |-> NoVal]
=============================================================================
