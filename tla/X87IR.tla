------------------------------- MODULE X87IR -------------------------------
(***************************************************************************)
(* The intermediate representation of a run (X87IR.h): nodes in program    *)
(* order and a symbolic stack that says which node each register holds.    *)
(*                                                                         *)
(* A context is a record                                                   *)
(*    nodes        the nodes; node n is nodes[n + 1]                       *)
(*    val          slot_val: a node, -(d + 1) for the register that was    *)
(*                 d below TOP at entry, or PoppedPast                     *)
(*    delta        top_delta                                               *)
(*    read         initial_read: the node that read an entry register      *)
(*    fcmp, fcomi  last_fcmp, last_fcomi                                   *)
(*    consumed     instructions built                                      *)
(*    last         last_use, once compute_last_uses has run               *)
(*    ok           FALSE once an instruction could not be built            *)
(*    x            no field of the code: the machine the run started on    *)
(*                 with the effects of the nodes so far, on memory,        *)
(*                 general registers, flags, condition code and control    *)
(*                 word; its stack stays that of the entry                 *)
(* and a node                                                              *)
(*    op, in, flags                                                        *)
(*    arg          the payload: a memory operand, a depth, a constant      *)
(*    src          node_src: the instruction that made it                  *)
(*    v            no field of the code: the value it stands for           *)
(***************************************************************************)
EXTENDS X87GuestData, Sequences

CONSTANT MaxNodes   \* kMaxNodes, 128 in the program
ASSUME MaxNodesAssumption == MaxNodes \in Nat \ {0}
ASSUME RegsAssumption == Regs \subseteq Nat   \* their encodings

None == -1
PoppedPast == -100

\* Guest registers ride in inputs as numbers no node has.
Enc(r) == -(r + 2)
bridge_decode_reg(e) == -(e + 2)

\* TOP moved by a net number of pops (positive) or pushes (negative).
Shift(t, d) ==
  IF d >= 0 THEN Phys(t, d) ELSE IF t + d < 0 THEN t + d + NSlots ELSE t + d

-----------------------------------------------------------------------------
(* Nodes *)

Loads     == {"LoadF64", "LoadF32", "LoadI16", "LoadI32", "LoadI64"}
IntStores == {"StoreI16", "StoreI32", "StoreI64"}
Stores    == {"StoreF64", "StoreF32"} \cup IntStores
Consts    == {"ConstZero", "ConstOne", "ConstF64"}
Binaries  == {"FAdd", "FSub", "FMul", "FDiv", "FPatan", "FYl2x", "FScale"}
Fmas      == {"FMAdd", "FMSub", "FNMSub"}
Trigs     == {"FSin", "FCos", "FPtan"}
Unaries   == {"FNeg", "FAbs", "FSqrt"} \cup Trigs
Compares  == {"FCmp", "FTst"}
BridgeOps == {"BridgeMovRR", "BridgeMovRI", "BridgeLea", "BridgeLoadG", "BridgeStoreG",
              "BridgeExt", "BridgeAluRR", "BridgeAluRI", "BridgeAluRM", "BridgeAluMR"}
\* Nodes a value comes out of, and those that are run for what they do.
ValueOps  == Loads \cup Consts \cup Binaries \cup Fmas \cup Unaries
               \cup {"ReadSt", "FRndInt", "FCSel"}
EffectOps == Stores \cup Compares \cup BridgeOps \cup {"FStsw", "FComI", "StoreCW", "LoadCW"}

\* What a node computes from the values a of its inputs.
Value(x, op, a, arg) ==
  CASE op = "ReadSt"   -> x.st[Phys(x.top, arg)]
    [] op \in Loads    -> LoadMem(x, op, arg)
    [] op \in Consts   -> arg
    [] op \in Binaries -> Bin(op, a[1], a[2])
    [] op \in Unaries  -> Una(op, a[1])
    [] op = "FMAdd"    -> Bin("FAdd", Bin("FMul", a[1], a[2]), a[3])
    [] op = "FMSub"    -> Bin("FSub", a[3], Bin("FMul", a[1], a[2]))
    [] op = "FNMSub"   -> Bin("FSub", Bin("FMul", a[1], a[2]), a[3])
    [] op = "FRndInt"  -> Rnd(RC(x.cw), a[1])
    [] op = "FCSel"    -> IF Taken(arg, x.nz) THEN a[2] ELSE a[1]
    [] OTHER           -> NoVal

RoundingOf(x, op, flags) ==
  IF op \in IntStores THEN StoreRounding(x, "Truncate" \in flags) ELSE Nearest

\* What a bridge does; its registers are inputs d and s, the ALU kind arg[2].
BridgeEffect(x, op, in, arg, wide) ==
  LET d == bridge_decode_reg(in[1])
      s == bridge_decode_reg(in[2])
      Write(v) == SetReg(x, d, Width(wide, v))
  IN CASE op = "BridgeMovRR"  -> Write(x.reg[s])
       [] op = "BridgeMovRI"  -> Write(arg)
       [] op = "BridgeLea"    -> Write(Alu("add", x.reg[arg.base], arg.disp))
       [] op = "BridgeLoadG"  -> Write(x.mem[At(x, arg)])
       [] op = "BridgeStoreG" -> StoreMem(x, arg, Width(wide, x.reg[d]))
       [] op = "BridgeExt"    -> Write(Extend(arg, x.reg[s]))
       [] op = "BridgeAluRR"  -> Write(Alu(arg.kind, x.reg[d], x.reg[s]))
       [] op = "BridgeAluRI"  -> Write(Alu(arg.kind, x.reg[d], arg.v))
       [] op = "BridgeAluRM"  -> Write(Alu(arg.kind, x.reg[d], x.mem[At(x, arg.o)]))
       [] op = "BridgeAluMR"  -> StoreMem(x, arg.o,
                                   Width(wide, Alu(arg.kind, x.mem[At(x, arg.o)], x.reg[d])))

\* What running a node does to the guest.
Effect(x, op, in, a, arg, flags) ==
  CASE op \in Stores    -> StoreMem(x, arg, StoreAs(op, RoundingOf(x, op, flags), a[1]))
    [] op = "FCmp"      -> SetCc(x, Cmp(a[1], a[2]))
    [] op = "FTst"      -> SetCc(x, Cmp(a[1], Zero))
    [] op \in Trigs     -> SetCc(x, Cleared)
    [] op = "FComI"     -> SetFlags(x, CompareFlags(a[1], a[2]))
    [] op = "FStsw"     -> SetReg(x, in[2], Status(x.reg[in[2]], Shift(x.top, in[3]), x.cc))
    [] op = "StoreCW"   -> SetCw(x, x.mem[At(x, arg)])
    [] op = "LoadCW"    -> StoreMem(x, arg, x.cw)
    [] op \in BridgeOps -> BridgeEffect(x, op, in, arg, "Wide" \in flags)
    [] OTHER            -> x

-----------------------------------------------------------------------------
(* Contexts *)

InitContext(m) ==
  [nodes |-> <<>>, val |-> [d \in Slots |-> -(d + 1)], delta |-> 0,
   read |-> [d \in Slots |-> None], fcmp |-> None, fcomi |-> None,
   last |-> <<>>, consumed |-> 0, ok |-> TRUE, x |-> m]

Ids(c)    == 0 .. Len(c.nodes) - 1
NodeAt(c, n) == c.nodes[n + 1]
Newest(c) == Len(c.nodes) - 1
Fail(c)   == [c EXCEPT !.ok = FALSE]

InputValues(c, in) ==
  LET Of(n) == IF n \in Ids(c) THEN NodeAt(c, n).v ELSE NoVal
  IN  <<Of(in[1]), Of(in[2]), Of(in[3])>>

add_node(c, op, in, arg, flags) ==
  IF ~c.ok THEN c
  ELSE IF Len(c.nodes) >= MaxNodes THEN Fail(c)
  ELSE LET a == InputValues(c, in)
       IN  [c EXCEPT !.nodes = Append(@, [op |-> op, in |-> in, arg |-> arg,
                                          flags |-> flags, src |-> c.consumed,
                                          v |-> Value(c.x, op, a, arg)]),
                     !.x = Effect(@, op, in, a, arg, flags)]

\* The node ST(d) holds becomes val[d], read from the stack if need be.
resolve(c, d) ==
  IF c.val[d] >= 0 THEN c
  ELSE LET init == -(c.val[d] + 1)
       IN IF init \notin Slots THEN Fail(c)
          ELSE IF c.read[init] >= 0 THEN [c EXCEPT !.val[d] = c.read[init]]
          ELSE IF Len(c.nodes) >= MaxNodes THEN Fail(c)
          ELSE LET r == add_node([c EXCEPT !.ok = TRUE], "ReadSt", <<None, None, None>>,
                                 init, {})
               IN  [r EXCEPT !.ok = c.ok, !.read[init] = Newest(r), !.val[d] = Newest(r)]

\* The newest node becomes ST(d).
Place(c, d) == IF c.ok THEN [c EXCEPT !.val[d] = Newest(c)] ELSE c

push(c, n) ==
  IF c.ok THEN [c EXCEPT !.val = [d \in Slots |-> IF d = 0 THEN n ELSE @[d - 1]],
                         !.delta = @ - 1]
  ELSE c
pop(c) ==
  IF c.ok THEN [c EXCEPT !.val = [d \in Slots |-> IF d = NSlots - 1 THEN PoppedPast
                                                  ELSE @[d + 1]],
                         !.delta = @ + 1]
  ELSE c
pop_n(c, n) == IF n = 0 THEN c ELSE IF n = 1 THEN pop(c) ELSE pop(pop(c))
=============================================================================
