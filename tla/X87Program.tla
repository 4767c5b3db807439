----------------------------- MODULE X87Program -----------------------------
(***************************************************************************)
(* What a run of instructions promises: the machine of X87Arch together    *)
(* with guest memory, general registers, flags and control word, stepped   *)
(* one instruction at a time.  The intermediate representation and the     *)
(* code lowered from it are held to this.                                  *)
(*                                                                         *)
(* An instruction is a record whose k names its shape:                     *)
(*   const v, fld i, fldm w o, fst i pop, fstm w o pop, fist w o pop trunc *)
(*   arith op rev d s, arithm op rev w o, arithp op rev d                  *)
(*   unary op, frndint, trig op, fsincos, fptan, binpop op, fscale         *)
(*   fxch i, fcom i pops, fcomm w o pops, ftst, fcomi i pop, fcmov cond i  *)
(*   fstsw, fldcw o, fnstcw o, fnop                                        *)
(*   mov d s wide, movi d v wide, lea d o wide, load d o wide,             *)
(*   store s o wide, ext d s class wide, wait                              *)
(*   alu kind d s wide live, alui kind d v wide live,                      *)
(*   alum kind d o wide live, alus kind s o wide live                      *)
(* where the last four lines are integer instructions; live says that some *)
(* later instruction reads the flags this one writes.                      *)
(***************************************************************************)
EXTENDS X87Arch, X87GuestData

Op2(rev, op, a, b) == IF rev THEN Bin(op, b, a) ELSE Bin(op, a, b)
PopIf(m, pop) == IF pop THEN PopSt(m) ELSE m
PopN(m, n) == IF n = 0 THEN m ELSE IF n = 1 THEN PopSt(m) ELSE PopSt(PopSt(m))

X87Step(m, i) ==
  CASE i.k = "const"  -> PushSt(m, i.v)
    [] i.k = "fld"    -> PushSt(m, St(m, i.i))
    [] i.k = "fldm"   -> PushSt(m, LoadMem(m, i.w, i.o))
    [] i.k = "fst"    -> PopIf(Set(m, i.i, St(m, 0)), i.pop)
    [] i.k = "fstm"   -> PopIf(StoreMem(m, i.o, StoreAs(i.w, Nearest, St(m, 0))), i.pop)
    [] i.k = "fist"   -> PopIf(StoreMem(m, i.o,
                           StoreAs(i.w, StoreRounding(m, i.trunc), St(m, 0))), i.pop)
    [] i.k = "arith"  -> Set(m, i.d, Op2(i.rev, i.op, St(m, i.d), St(m, i.s)))
    [] i.k = "arithm" -> Set(m, 0, Op2(i.rev, i.op, St(m, 0), LoadMem(m, i.w, i.o)))
    [] i.k = "arithp" -> PopSt(Set(m, i.d, Op2(i.rev, i.op, St(m, i.d), St(m, 0))))
    [] i.k = "unary"  -> Set(m, 0, Una(i.op, St(m, 0)))
    [] i.k = "frndint" -> Set(m, 0, Rnd(RC(m.cw), St(m, 0)))
    [] i.k = "trig"   -> SetCc(Set(m, 0, Una(i.op, St(m, 0))), Cleared)
    [] i.k = "fsincos" -> SetCc(PushSt(Set(m, 0, Una("FSin", St(m, 0))),
                                       Una("FCos", St(m, 0))), Cleared)
    [] i.k = "fptan"  -> SetCc(PushSt(Set(m, 0, Una("FPtan", St(m, 0))), One), Cleared)
    [] i.k = "binpop" -> PopSt(Set(m, 1, Bin(i.op, St(m, 1), St(m, 0))))
    [] i.k = "fscale" -> Set(m, 0, Bin("FScale", St(m, 0), St(m, 1)))
    [] i.k = "fxch"   -> Xch(m, i.i)
    [] i.k = "fcom"   -> PopN(Compare(m, St(m, i.i)), i.pops)
    [] i.k = "fcomm"  -> PopN(Compare(m, LoadMem(m, i.w, i.o)), i.pops)
    [] i.k = "ftst"   -> Compare(m, Zero)
    [] i.k = "fcomi"  -> PopIf(SetFlags(m, CompareFlags(St(m, 0), St(m, i.i))), i.pop)
    [] i.k = "fcmov"  -> IF Taken(i.cond, m.nz) THEN Set(m, 0, St(m, i.i)) ELSE m
    [] i.k = "fstsw"  -> SetReg(m, Ax, Status(m.reg[Ax], m.top, m.cc))
    [] i.k = "fldcw"  -> SetCw(m, m.mem[At(m, i.o)])
    [] i.k = "fnstcw" -> StoreMem(m, i.o, m.cw)
    [] OTHER          -> m

\* Flags that are not live are never read: they are as good as left alone.
WithFlags(i, v, new) == IF i.live THEN SetFlags(new, AluFlags(v)) ELSE new
AluReg(m, i, v) == WithFlags(i, v, SetReg(m, i.d, Width(i.wide, v)))
AluMem(m, i, v) == WithFlags(i, v, StoreMem(m, i.o, Width(i.wide, v)))

IntegerStep(m, i) ==
  CASE i.k = "mov"   -> SetReg(m, i.d, Width(i.wide, m.reg[i.s]))
    [] i.k = "movi"  -> SetReg(m, i.d, Width(i.wide, i.v))
    [] i.k = "lea"   -> SetReg(m, i.d, Width(i.wide, Alu("add", m.reg[i.o.base], i.o.disp)))
    [] i.k = "load"  -> SetReg(m, i.d, Width(i.wide, m.mem[At(m, i.o)]))
    [] i.k = "store" -> StoreMem(m, i.o, Width(i.wide, m.reg[i.s]))
    [] i.k = "ext"   -> SetReg(m, i.d, Width(i.wide, Extend(i.class, m.reg[i.s])))
    [] i.k = "alu"   -> AluReg(m, i, Alu(i.kind, m.reg[i.d], m.reg[i.s]))
    [] i.k = "alui"  -> AluReg(m, i, Alu(i.kind, m.reg[i.d], i.v))
    [] i.k = "alum"  -> AluReg(m, i, Alu(i.kind, m.reg[i.d], m.mem[At(m, i.o)]))
    [] i.k = "alus"  -> AluMem(m, i, Alu(i.kind, m.mem[At(m, i.o)], m.reg[i.s]))
    [] OTHER         -> m

FlagWriters == {"alu", "alui", "alum", "alus"}
Bridges == {"mov", "movi", "lea", "load", "store", "ext", "wait"} \cup FlagWriters

Step(m, i) == IF i.k \in Bridges THEN IntegerStep(m, i) ELSE X87Step(m, i)

(***************************************************************************)
(* The registers an instruction needs in use, and whether it pushes: the   *)
(* programs considered neither overflow nor underflow the stack.           *)
(***************************************************************************)
Reads(i) ==
  CASE i.k = "fld"  -> {i.i}
    [] i.k \in {"fst", "fxch", "fcom", "fcomi", "fcmov"} -> {0, i.i}
    [] i.k \in {"fstm", "fist", "arithm", "unary", "frndint", "trig", "fsincos",
                "fptan", "fcomm", "ftst"} -> {0}
    [] i.k = "arith"  -> {i.d, i.s}
    [] i.k = "arithp" -> {i.d, 0}
    [] i.k \in {"binpop", "fscale"} -> {0, 1}
    [] OTHER -> {}
Pushes(i) == i.k \in {"const", "fld", "fldm", "fsincos", "fptan"}
Legal(m, i) == (\A d \in Reads(i) : Full(m, d)) /\ (Pushes(i) => Room(m))
=============================================================================
