------------------------------- MODULE Unroll -------------------------------
(***************************************************************************)
(* UpdateFunctionGen::add_constraint and its handlers (check_regs.cpp and  *)
(* op_constraint.cpp): how the update function of one target, or of a      *)
(* vector of them, is unrolled over time.  Level 0 is the end of the       *)
(* instruction, level "bound" its beginning.  Registers lead one level     *)
(* further back, up to the function's arguments; an output of a sub-module *)
(* is a call of a function made once per module and output.  A target in a *)
(* sub-module has its module and those above it in the one function.       *)
(*                                                                         *)
(* The recursion of the C++ is an explicit stack.  Registers take their    *)
(* value at the beginning as with g_use_read_ASV.                          *)
(***************************************************************************)
EXTENDS LlvmOps

CONSTANTS
  Top,           \* the top module
  Node,          \* module -> name -> [kind, op, w, src, is], the ast
  Inputs,        \* module -> its inputs, in order, the clock left out
  Regs,          \* module -> its registers -> width
  InsMod,        \* module -> instance -> module
  MemOuts,       \* module -> the outputs of its memories, as [ins, port, w]
  Parent,        \* module -> [in, ins], its first parent, its instance there
  Conn,          \* module -> instance -> input -> operand
  FirstWire,     \* module -> input -> wire of its first instance's parent
  Rst,           \* module -> its reset input
  FlatMods,      \* modules whose static isFunctionedSubMod is false
  RstValue,      \* <<module, register>> -> the known value it starts from
  Jobs,          \* [in, dests]: a module and the targets in it
  Bounds,
  Instrs,        \* [len, word]: encodings of the top inputs, by cycle
  Nop,           \* g_nopInstr
  DelayMax       \* DELAY_MAX

(* Operands are variables, slices and numbers; a slice that is assigned    *)
(* directly is a node of its own.                                          *)
Whole(v)          == [v |-> v, cut |-> <<>>, direct |-> FALSE, lit |-> <<>>]
Slice(v, hi, lo)  == [v |-> v, cut |-> <<hi, lo>>, direct |-> FALSE, lit |-> <<>>]
Direct(v, hi, lo) == [v |-> v, cut |-> <<hi, lo>>, direct |-> TRUE, lit |-> <<>>]
Lit(x)            == [v |-> "", cut |-> <<>>, direct |-> FALSE, lit |-> x]

Kinds   == {"in", "reg", "two", "one", "sel", "cat", "ite", "case", "switch",
            "sub", "mem", "bb", "dynsel", "write"}
Ports(m) == Range(Inputs[m])
Fns     == {<<m, v>> : m \in DOMAIN Node, v \in UNION {DOMAIN Node[n] : n \in DOMAIN Node}}

Width(m, o) == IF o.lit # <<>> THEN Len(o.lit)
               ELSE IF o.cut # <<>> THEN o.cut[1] - o.cut[2] + 1 ELSE Node[m][o.v].w

(* What op_constraint.cpp takes for granted: "assume the destWidth is not  *)
(* smaller than opWidth" (484), bits for || (2113), one width for the      *)
(* branches of a choice, one variable for all alternatives of a case but   *)
(* the default (1286), no mixture of signed and unsigned but for shifts    *)
(* (549-558).  An operand of >>> is signed, or narrower than the result:   *)
(* the code shifts others by their own top bit (2241-2242).                *)
Fitting(m, n) ==
  LET W(k) == Width(m, n.src[k])
  IN /\ n.kind = "two" =>
          /\ n.op \in TwoOps
          /\ n.op \in Relations \cup {"&&", "||"} => n.w = 1
          /\ n.op = "||" => W(1) = 1 /\ W(2) = 1
          /\ n.op \in Arithmetic \cup Shifts =>
               \/ n.w >= Max({W(1), W(2)})
               \/ n.op = ">>>" /\ W(2) <= W(1)
          /\ n.op = ">>>" => n.is[1] \/ n.w > W(1)
          /\ n.op \notin Shifts => n.is[1] = n.is[2]
     /\ n.kind = "one" => n.w = IF n.op \in {"!", "|", "&"} THEN 1 ELSE W(1)
     /\ n.kind = "reg" => n.w = W(1)
     /\ n.kind = "sel" => n.w <= Max({W(1), W(2)})
     /\ n.kind = "cat" => n.w = FoldFunction(+, 0, [k \in DOMAIN n.src |-> W(k)])
     /\ n.kind = "ite" => W(1) = 1 /\ n.w = W(2) /\ n.w = W(3)
     /\ n.kind = "write" => W(1) = 1 /\ n.w = W(3)
     /\ n.kind = "case" =>
          /\ \A k \in 2 .. Len(n.src) : n.w = W(k)
          /\ \A j, k \in 2 .. Len(n.src) - 1 : n.src[j].v = n.src[k].v

(* A node has the operands its handler reads by position.                  *)
Sequence(s) == s \in Seq(Range(s))
Complete(n) ==
  /\ Sequence(n.src)
  /\ n.kind \in {"reg", "one", "switch", "dynsel"} => Len(n.src) = 1
  /\ n.kind \in {"two", "sel"} => Len(n.src) = 2
  /\ n.kind \in {"ite", "write"} => Len(n.src) = 3
  /\ n.kind = "cat" => Len(n.src) > 0
  /\ n.kind = "case" => Sequence(n.is) /\ Len(n.src) = Len(n.is) + 2
  /\ n.kind = "one" => n.op \in {"", "~", "-", "!", "|", "&"}
  /\ n.kind = "bb" => \A k \in DOMAIN n.src : n.is.delay[k] \in Nat

Known(m, o) == o.lit # <<>> \/ o.v \in DOMAIN Node[m]

ASSUME DesignAssumption ==
  /\ Top \in DOMAIN Node
  /\ \A m \in DOMAIN Node : \A v \in DOMAIN Node[m] :
       LET n == Node[m][v]
       IN /\ n.kind \in Kinds /\ n.w \in Nat \ {0} /\ Complete(n) /\ Fitting(m, n)
          /\ \A k \in DOMAIN n.src : Known(m, n.src[k])
          /\ n.kind = "in" => v \in Ports(m)
          /\ n.kind = "sub" => /\ n.is.ins \in DOMAIN InsMod[m]
                               /\ n.is.port \in DOMAIN Node[InsMod[m][n.is.ins]]
          /\ n.kind = "dynsel" =>
               m = Top /\ n.is \in DOMAIN Node[m] /\ Node[m][n.is].kind = "write"
  /\ Bounds \subseteq Nat /\ DelayMax \in Nat /\ \A n \in Bounds : n < DelayMax

(* No module is in itself; the inputs of an instance are connected.  The   *)
(* code asks the parent at hand for the width of the wire an input leads   *)
(* to (op_constraint.cpp:221-225).                                         *)
ASSUME HierarchyAssumption ==
  /\ IsFiniteSet(DOMAIN Node) /\ Top \notin FlatMods
  /\ \A m \in DOMAIN Node :
       /\ Sequence(Inputs[m])
       /\ \A p \in Ports(m) : p \in DOMAIN Node[m] /\ Node[m][p].kind = "in"
  /\ \A m \in DOMAIN Node : \A i \in DOMAIN InsMod[m] :
       LET sub == InsMod[m][i]
       IN /\ sub \in DOMAIN Node \ {Top}
          /\ \A p \in Ports(sub) : Known(m, Conn[m][i][p])
          /\ sub \in FlatMods => \A p \in Ports(sub) : FirstWire[sub][p] \in DOMAIN Node[m]
  /\ \E rank \in [DOMAIN Node -> 0 .. Cardinality(DOMAIN Node)] :
       \A m \in DOMAIN Node : \A i \in DOMAIN InsMod[m] : rank[InsMod[m][i]] < rank[m]
  /\ \A m \in DOMAIN Node \ {Top} :
       /\ Parent[m].in \in DOMAIN Node /\ Parent[m].ins \in DOMAIN InsMod[Parent[m].in]
       /\ InsMod[Parent[m].in][Parent[m].ins] = m

(* A vector's targets are of the top module and of one width; a module     *)
(* with targets, and those above it, have one parent and one instance      *)
(* there, and lose the static isFunctionedSubMod (ast.cpp:197-214).        *)
Ancestry[m \in DOMAIN Node] ==
  IF m = Top THEN <<Top>> ELSE Append(Ancestry[Parent[m].in], m)
Above(m) == Range(Ancestry[m]) \ {Top}
ASSUME JobAssumption ==
  \A j \in Jobs :
    /\ j.in \in DOMAIN Node /\ Sequence(j.dests) /\ j.dests # <<>>
    /\ Range(j.dests) \subseteq DOMAIN Node[j.in] /\ Above(j.in) \subseteq FlatMods
    /\ Len(j.dests) > 1 => j.in = Top
    /\ \A d, e \in Range(j.dests) : Node[j.in][d].w = Node[j.in][e].w

(* A word of an encoding is DIRTY or a sequence of pieces [w, bits], one   *)
(* without bits being x; x alone is <<>>.  An input marked DIRTY has a     *)
(* number in the NOP instruction; if not, the code falls off the end of    *)
(* input_constraint.                                                       *)
ASSUME EncodingAssumption ==
  /\ \A e \in Instrs :
       /\ e.len \in Nat /\ DOMAIN e.word = Ports(Top)
       /\ \A p \in Ports(Top) :
            /\ Sequence(e.word[p]) /\ Len(e.word[p]) >= e.len
            /\ \A k \in DOMAIN e.word[p] :
                 /\ Sequence(e.word[p][k].pieces)
                 /\ e.word[p][k].dirty => p \in DOMAIN Nop /\ Len(Nop[p]) = 1
  /\ \A p \in DOMAIN Nop : Sequence(Nop[p])

VARIABLES
  job, bound, instr,  \* of this print_llvm_ir
  stack,      \* the calls of add_constraint under way, the innermost last
  ret,        \* the value just returned, as a sequence of at most one
  memo,       \* existedExpr: <<function, name, level>> -> value
  funcs,      \* out2FuncMp: <<module, output>> -> body
  minDelay,   \* <<module, output>> -> input -> least level it is read at
  arrays,     \* memDynInfo: array -> [last, levels, stores]
  result,     \* the values of the targets done
  aborted     \* an assertion failed

given == <<job, bound, instr>>
ends  == <<result, aborted>>
vars  == <<given, stack, ret, memo, funcs, minDelay, arrays, ends>>

(* The arguments of a function: the registers of the module and of what is *)
(* in it, then level by level the outputs of memories and the inputs.      *)
Arg(fn, kind, name, t) == <<fn, kind, name, t>>
In(ins, found) == {[e EXCEPT !.name = <<ins>> \o @] : e \in found}
Within(m, found) == UNION {In(i, found[InsMod[m][i]]) : i \in DOMAIN InsMod[m]}

RegsIn[m \in DOMAIN Node] ==
  {[name |-> <<r>>, w |-> Regs[m][r]] : r \in DOMAIN Regs[m]} \cup Within(m, RegsIn)
MemsIn[m \in DOMAIN Node] ==
  {[name |-> <<o.ins, o.port>>, w |-> o.w] : o \in MemOuts[m]} \cup Within(m, MemsIn)
PortsOf(m) == {[name |-> <<p>>, w |-> Node[m][p].w] : p \in Ports(m)}

Param(kind, e, t) == [arg |-> <<kind, e.name, t>>, w |-> e.w]
Params(m, b) ==
  {Param("reg", e, b) : e \in RegsIn[m]}
    \cup {Param("mem", e, t) : e \in MemsIn[m], t \in 0 .. b}
    \cup {Param("in", e, t) : e \in PortsOf(m), t \in 0 .. b}

(* module -> bound -> name of an argument -> its width.                    *)
Signature ==
  [m \in DOMAIN Node |-> [b \in Bounds |->
    [a \in {p.arg : p \in Params(m, b)} |-> (CHOOSE p \in Params(m, b) : p.arg = a).w]]]

NameOf(leaf) == Tail(leaf)
Declared(fn) == {<<fn>> \o a : a \in DOMAIN Signature[fn[1]][bound]}
WidthOf(fn, leaf) == Signature[fn[1]][bound][NameOf(leaf)]

(* The contexts entered, the current last, as [m, tgt, ins]: a module, the *)
(* target it is entered for, the instance.  A target's module and those    *)
(* above it share the function of the top module.                          *)
DestName(j) == IF j.in = Top THEN j.dests[1] ELSE "sub-module's " \o j.dests[1]
Ctx(m, tgt, ins) == [m |-> m, tgt |-> tgt, ins |-> ins]
ChainTo(m, tgt) ==
  [k \in DOMAIN Ancestry[m] |->
    LET n == Ancestry[m][k] IN Ctx(n, tgt, IF n = Top THEN Top ELSE Parent[n].ins)]
Shared == Above(job.in) \cup {Top}
MainFn == <<Top, "main">>
FnOf(cell) == IF cell[1] \in Shared THEN MainFn ELSE cell
Path(hier) == [k \in 1 .. Len(hier) - 1 |-> hier[k + 1].ins]

(* asks: the operands to be had, as [o, t]; got: those had, in order.      *)
Frame(hier, v, t) ==
  [hier |-> hier, v |-> v, t |-> t, step |-> "enter", asks |-> <<>>, got |-> <<>>]
Item(o, t) == [o |-> o, t |-> t]

Put(f, x, y) == [z \in DOMAIN f \cup {x} |-> IF z = x THEN y ELSE f[z]]

F      == Last(stack)
Here   == Last(F.hier)
Fn     == <<Here.m, Here.tgt>>
N      == Node[Here.m][F.v]
Prefix == IF Here.m \in Shared THEN Path(F.hier) ELSE <<>>
MemoKey == <<Fn, F.v, F.t>>
Active(step) == stack # <<>> /\ F.step = step /\ ret = <<>>
Entering     == Active("enter") /\ F.t <= bound /\ MemoKey \notin DOMAIN memo

Become(frame) == stack' = Append(Front(stack), frame)
Return(val)   == stack' = Front(stack) /\ ret' = <<val>>
Keep(val)     == Return(val) /\ memo' = Put(memo, MemoKey, val)

Unread(m) == [p \in Ports(m) |-> DelayMax]

Init ==
  /\ job \in Jobs /\ bound \in Bounds /\ instr \in Instrs
  /\ stack = <<Frame(ChainTo(job.in, DestName(job)), job.dests[1], 0)>>
  /\ ret = <<>> /\ memo = <<>> /\ funcs = <<>> /\ arrays = <<>>
  /\ minDelay = [f \in {<<m, DestName(job)>> : m \in Above(job.in)} |-> Unread(f[1])]
  /\ result = <<>> /\ aborted = FALSE

(* What lies before the instruction is 0: it is asked for only by the      *)
(* selector of a switch, by a write and by a black box.                    *)
CutOff ==
  /\ Active("enter") /\ F.t > bound
  /\ Return(Unfit(Zero(N)))
  /\ UNCHANGED <<given, memo, funcs, minDelay, arrays, ends>>

Hit ==
  /\ Active("enter") /\ F.t <= bound /\ MemoKey \in DOMAIN memo
  /\ Return(memo[MemoKey])
  /\ UNCHANGED <<given, memo, funcs, minDelay, arrays, ends>>

NopWord(p) == IF p \in DOMAIN Nop THEN Nop[p] ELSE <<>>
GivenWord(w, p) == IF w.dirty THEN NopWord(p) ELSE w.pieces

LateWord(p, t) ==  \* mutant
  IF t + instr.len > bound + 1 THEN GivenWord(instr.word[p][bound - t + 1], p)
                               ELSE NopWord(p)
(* What a top input carries at a level: a word of the instruction in its   *)
(* first instrLen cycles, the NOP's word after them.                       *)
InputWord(p, t) ==
  IF t + instr.len >= bound + 1 THEN GivenWord(instr.word[p][bound - t + 1], p)
                                ELSE NopWord(p)

(* The lowest bit of piece k: pieces are written from the top down.        *)
PieceLo(pieces, k) ==
  FoldFunctionOnSet(+, 0, [j \in DOMAIN pieces |-> pieces[j].w], k + 1 .. Len(pieces))
MixedValue(pieces, a) ==
  CatOp([k \in DOMAIN pieces |->
    LET lo == PieceLo(pieces, k)
    IN IF pieces[k].bits = <<>> THEN Extract(a, lo + pieces[k].w - 1, lo)
                                ELSE Const(pieces[k].bits)])

InputLeaf(p, t) ==
  LET a == Argument(Arg(FnOf(Fn), "in", <<p>>, t), N.w)
      pieces == InputWord(p, t)
  IN IF Here.m # Top \/ pieces = <<>> THEN a
     ELSE IF Len(pieces) = 1 THEN Const(Fit(pieces[1].bits, N.w))
     ELSE MixedValue(pieces, a)

(* A register, or the part of one that is assigned on its own.             *)
RegLeaf(r) ==
  IF <<Here.m, r.var>> \in DOMAIN RstValue
  THEN Const(Part(RstValue[<<Here.m, r.var>>], r.hi, r.lo))
  ELSE Extract(Argument(Arg(FnOf(Fn), "reg", Append(Prefix, r.var), bound), r.w), r.hi, r.lo)

MemLeaf(m, t) == Argument(Arg(FnOf(Fn), "mem", Prefix \o <<m.ins, m.port>>, t), N.w)

FromParent == N.kind = "in" /\ Here.m \in FlatMods
PastBound  == \/ N.kind = "in" /\ ~FromParent  \* mutant
              \/ N.kind = "reg" /\ F.t > bound
              \/ N.kind = "mem"
IsLeaf     == \/ N.kind = "in" /\ ~FromParent
              \/ N.kind = "reg" /\ F.t = bound
              \/ N.kind = "mem"

FirstRead(d, p, t) == IF d[p] = DelayMax THEN [d EXCEPT ![p] = t] ELSE d  \* mutant
LeastRead(d, p, t) == IF t < d[p] THEN [d EXCEPT ![p] = t] ELSE d

(* A read of a sub-module's input, the reset excepted, is noted.           *)
NoteRead ==
  minDelay' = IF N.kind = "in" /\ Here.m # Top /\ F.v # Rst[Here.m]
              THEN [minDelay EXCEPT ![Fn] = LeastRead(@, F.v, F.t)] ELSE minDelay

LeafValue == CASE N.kind = "in"  -> InputLeaf(F.v, F.t)
               [] N.kind = "reg" -> RegLeaf(N.is)
               [] N.kind = "mem" -> MemLeaf(N.is, F.t)

Leaf ==
  /\ Entering /\ IsLeaf
  /\ NoteRead
  /\ \E val \in {LeafValue} : Keep(val)
  /\ UNCHANGED <<given, funcs, arrays, ends>>

Delay(n, k) == CASE n.kind \in {"reg", "switch", "write"} -> 1
                 [] n.kind = "bb" -> n.is.delay[k]
                 [] OTHER -> 0
OperandLevel(k) == F.t + Delay(N, k)

(* Operands are of the same level, the source of a register, the selector  *)
(* of a switch and what a write needs of the next, the inputs of a black   *)
(* box as many levels on as its output lags behind them; with the static   *)
(* flag off, an input goes on in the caller, on the wire its first         *)
(* instance has there.                                                     *)
Operands ==
  IF FromParent THEN <<Item(Whole(FirstWire[Here.m][F.v]), F.t)>>
                ELSE [k \in DOMAIN N.src |-> Item(N.src[k], OperandLevel(k))]

Array(a) == IF a \in DOMAIN arrays THEN arrays[a] ELSE [last |-> 0, levels |-> <<>>, stores |-> <<>>]
NoteWrite ==
  arrays' = IF N.kind = "write"
            THEN Put(arrays, F.v, [Array(F.v) EXCEPT !.last = Max({@, F.t})]) ELSE arrays

Expand ==
  /\ Entering /\ ~IsLeaf /\ N.kind # "sub"
  /\ NoteRead /\ NoteWrite
  /\ Become([F EXCEPT !.step = "collect", !.asks = Operands])
  /\ UNCHANGED <<given, ret, memo, funcs, ends>>

Callee == <<InsMod[Here.m][N.is.ins], N.is.port>>
Reenters == N.kind = "sub" /\ Callee[1] \in Shared

NeverZero(d, i) == TRUE  \* mutant
IsLive(d, i)    == i >= d

(* Row i of a call's inputs is what they carry at the caller's level t + i *)
(* as far as there are levels; inputs below the least level they are read  *)
(* at are given 0.                                                         *)
InputItem(p, i) ==
  Item(IF IsLive(minDelay[Callee][p], i) THEN Conn[Here.m][N.is.ins][p]
       ELSE Lit(Zeros(Node[Callee[1]][p].w)),
       F.t + i)
InputRows ==
  LET ins == Inputs[Callee[1]]
  IN [k \in 1 .. (bound - F.t + 1) * Len(ins) |->
        InputItem(ins[1 + ((k - 1) % Len(ins))], (k - 1) \div Len(ins))]

(* The sub-function exists: only its arguments are needed.                 *)
Call ==
  /\ Entering /\ N.kind = "sub" /\ ~Reenters /\ Callee \in DOMAIN funcs
  /\ Become([F EXCEPT !.step = "collect", !.asks = InputRows])
  /\ UNCHANGED <<given, ret, memo, funcs, minDelay, arrays, ends>>

(* It does not: its body is elaborated first, always from level 0.         *)
Elaborate ==
  /\ Entering /\ N.kind = "sub" /\ ~Reenters /\ Callee \notin DOMAIN funcs
  /\ minDelay' = Put(minDelay, Callee, Unread(Callee[1]))
  /\ stack' = Front(stack) \o
              << [F EXCEPT !.step = "body"],
                 Frame(Append(F.hier, Ctx(Callee[1], Callee[2], N.is.ins)), Callee[2], 0) >>
  /\ UNCHANGED <<given, ret, memo, funcs, arrays, ends>>

(* An output of the target's own module, or of one above it, is met on the *)
(* way: the code means to go on inside, in the same function, but asserts  *)
(* that this is called "top_function", which is the other one.             *)
Abort ==
  /\ Entering /\ Reenters
  /\ aborted' = TRUE /\ stack' = <<>>
  /\ UNCHANGED <<given, ret, memo, funcs, minDelay, arrays, result>>

BodyDone ==
  /\ stack # <<>> /\ F.step = "body" /\ ret # <<>>
  /\ funcs' = Put(funcs, Callee, ret[1])
  /\ Become([F EXCEPT !.step = "collect", !.asks = InputRows])
  /\ ret' = <<>>
  /\ UNCHANGED <<given, memo, minDelay, arrays, ends>>

(* A write gives no value; a read of an array loads after its first one.   *)
Stored  == Instr("stored", 0, <<>>, <<>>)
LoadDue == N.kind = "dynsel" /\ Len(F.got) = 2 /\ F.got[2].op = "stored"
Asking == Active("collect") /\ Len(F.got) < Len(F.asks) /\ ~LoadDue
Asked  == F.asks[Len(F.got) + 1]

OnlyLast(got, v) == <<v>>  \* mutant
Grown(got, v)    == Append(got, v)

(* A number needs no call.                                                 *)
Number ==
  /\ Asking /\ Asked.o.lit # <<>>
  /\ Become([F EXCEPT !.got = Grown(@, Const(Asked.o.lit))])
  /\ UNCHANGED <<given, ret, memo, funcs, minDelay, arrays, ends>>

Descend ==
  /\ Asking /\ Asked.o.lit = <<>>
  /\ stack' = Append(stack, Frame(IF FromParent THEN Front(F.hier) ELSE F.hier,
                                  Asked.o.v, Asked.t))
  /\ UNCHANGED <<given, ret, memo, funcs, minDelay, arrays, ends>>

(* The value returned for a slice that is assigned directly is the slice's *)
(* own, else the whole variable's.                                         *)
Cut(o, v) == IF o.cut = <<>> \/ o.direct THEN v ELSE Extract(v, o.cut[1], o.cut[2])

Receive ==
  /\ stack # <<>> /\ F.step = "collect" /\ ret # <<>>
  /\ Become([F EXCEPT !.got = Grown(@, Cut(Asked.o, ret[1]))])
  /\ ret' = <<>>
  /\ UNCHANGED <<given, memo, funcs, minDelay, arrays, ends>>

(* What a call gives for an argument of the body: the caller's own         *)
(* argument for a register or a memory in the instance, the inputs row by  *)
(* row, and rows of 0 at the end.                                          *)
Actual(leaf, w) ==
  LET ins == Inputs[Callee[1]]
      k   == leaf[4] * Len(ins) + CHOOSE j \in DOMAIN ins : <<ins[j]>> = leaf[3]
      over == IF leaf[2] = "reg" /\ Here.m \in FlatMods THEN Path(F.hier) ELSE <<>>
  IN IF leaf[2] \in {"reg", "mem"}
     THEN Argument(Arg(FnOf(Fn), leaf[2], over \o <<N.is.ins>> \o leaf[3], leaf[4]), w)
     ELSE IF k \in DOMAIN F.got THEN F.got[k] ELSE Const(Zeros(w))

(* The body reaches back "bound" levels from its own level 0, where the    *)
(* caller, at level t, has only bound - t of them: its registers and       *)
(* memories are asked t levels too early, its last inputs are rows of 0.   *)
(* The reset input is given 0 at every level.                              *)
DoesNotFit ==
  \E leaf \in Args(funcs[Callee]) :
     \/ leaf[2] \in {"reg", "mem"} /\ F.t > 0
     \/ leaf[2] = "in" /\ F.t + leaf[4] > bound
     \/ leaf[2] = "in" /\ leaf[3] = <<Rst[Callee[1]]>>

CallValue ==
  LET body == funcs[Callee]
      call == Instr("call", body.w, Callee,
                    [leaf \in Args(body) |-> Actual(leaf, WidthOf(Callee, leaf))])
  IN IF DoesNotFit \/ ~Fits(body) THEN Unfit(call) ELSE call

(* A black box's output is a call of a function that is only declared.     *)
BlackBoxCall == Instr("black box", N.w, N.is.fn, F.got)

Value ==
  LET x == F.got
  IN CASE N.kind \in {"in", "reg"} -> x[1]
       [] N.kind = "two"    -> TwoOp(N.op, N.is[1], x[1], x[2], N.w)
       [] N.kind = "one"    -> OneOp(N.op, x[1])
       [] N.kind = "sel"    -> SelOp(x[1], x[2], N.w)
       [] N.kind = "cat"    -> CatOp(x)
       [] N.kind = "ite"    -> Ite(x[1], x[2], x[3])
       [] N.kind = "case"   -> CaseOp(x[1], N.is, SubSeq(x, 2, Len(x) - 1), Last(x))
       [] N.kind = "switch" -> Load(N.is, x[1])
       [] N.kind = "sub"    -> CallValue
       [] N.kind = "bb"     -> BlackBoxCall
       [] N.kind = "dynsel" -> x[2]

Collected == Active("collect") /\ Len(F.got) = Len(F.asks) /\ ~LoadDue

Finish ==
  /\ Collected /\ N.kind \notin {"dynsel", "write"}
  /\ \E val \in {Value} : Keep(val)
  /\ UNCHANGED <<given, funcs, minDelay, arrays, ends>>

(* The address is had; the write of this level is done before the load,    *)
(* those between the last write there was and this one after it.           *)
FindWrites ==
  /\ Collected /\ N.kind = "dynsel" /\ Len(F.got) = 1
  /\ LET last == Array(N.is).last
         Write(t) == Item(Whole(N.is), t)
     IN Become([F EXCEPT !.asks = @ \o <<Write(F.t)>>
                  \o IF last > 0 THEN [i \in 1 .. F.t - last |-> Write(last + i)] ELSE <<>>])
  /\ UNCHANGED <<given, ret, memo, funcs, minDelay, arrays, ends>>

(* A load at level t is the RTL's if just the writes of the earlier levels *)
(* have been stored, the earliest first.                                   *)
InOrder(levels, t) ==
  /\ Range(levels) = t .. bound - 1
  /\ \A j, k \in DOMAIN levels : j < k => levels[j] >= levels[k]

LoadArray ==
  /\ Active("collect") /\ LoadDue
  /\ LET a == Array(N.is)
         v == Instr("array", N.w, N.is, <<F.got[1]>> \o a.stores)
     IN Become([F EXCEPT !.got = <<@[1], IF InOrder(a.levels, F.t) THEN v ELSE Unfit(v)>>])
  /\ UNCHANGED <<given, ret, memo, funcs, minDelay, arrays, ends>>

EndRead ==
  /\ Collected /\ N.kind = "dynsel" /\ Len(F.got) > 1
  /\ Keep(Value)
  /\ UNCHANGED <<given, funcs, minDelay, arrays, ends>>

(* A branch on the condition around a store; the condition of what lies    *)
(* before the instruction is 0.                                            *)
Store ==
  /\ Collected /\ N.kind = "write"
  /\ arrays' = IF F.t = bound THEN arrays
               ELSE [arrays EXCEPT ![F.v].levels = Append(@, F.t), ![F.v].stores = @ \o F.got]
  /\ Return(Stored)
  /\ UNCHANGED <<given, memo, funcs, minDelay, ends>>

(* The value of a target is returned, or, of each target of a vector, kept *)
(* for the array returned; their expressions are not shared.               *)
Deliver ==
  /\ stack = <<>> /\ ret # <<>>
  /\ result' = Append(result, ret[1]) /\ ret' = <<>>
  /\ LET next == Len(result) + 2
     IN stack' = IF next \notin DOMAIN job.dests THEN <<>>
                 ELSE <<Frame(ChainTo(Top, job.dests[next]), job.dests[next], 0)>>
  /\ UNCHANGED <<given, memo, funcs, minDelay, arrays, aborted>>

Next == \/ CutOff \/ Hit \/ Leaf \/ Expand \/ Call \/ Elaborate \/ BodyDone \/ Abort
        \/ Number \/ Descend \/ Receive \/ Finish
        \/ FindWrites \/ LoadArray \/ EndRead \/ Store \/ Deliver

Spec == Init /\ [][Next]_vars

(* One call of print_llvm_ir runs on one thread, without waiting.          *)
FairSpec == Spec /\ WF_vars(Next)
-----------------------------------------------------------------------------
(* Frames, memo and bodies have their types, every value the width of its  *)
(* node and only arguments its function declares (get_arg would abort),    *)
(* and no level exceeds the bound but for what may lie before it.          *)
TypeOK ==
  /\ \A k \in DOMAIN stack :
       /\ stack[k].step \in {"enter", "collect", "body"}
       /\ stack[k].v \in DOMAIN Node[Last(stack[k].hier).m]
       /\ \/ stack[k].t \in 0 .. bound
          \/ k > 1 /\ Node[Last(stack[k - 1].hier).m][stack[k - 1].v].kind
                        \in {"switch", "write", "bb"}
  /\ \A key \in DOMAIN memo :
       /\ memo[key].w = Node[key[1][1]][key[2]].w
       /\ Args(memo[key]) \subseteq Declared(FnOf(key[1]))
  /\ DOMAIN minDelay \subseteq Fns \cup {<<m, DestName(job)>> : m \in Above(job.in)}
  /\ DOMAIN funcs \subseteq DOMAIN minDelay
  /\ \A f \in DOMAIN minDelay : minDelay[f] \in [Ports(f[1]) -> (0 .. bound) \cup {DelayMax}]
  /\ Len(ret) <= 1 /\ Len(result) <= Len(job.dests) /\ aborted \in BOOLEAN

(* An output of a sub-module that depends on none of an input's levels may *)
(* feed that input: giving 0 for what is not read keeps the elaboration    *)
(* from going round (op_constraint.cpp:1782-1789).                         *)
NoCircularElaboration ==
  \A j, k \in DOMAIN stack :
    Last(stack[j].hier) = Last(stack[k].hier) /\ stack[j].v = stack[k].v
      /\ stack[j].t = stack[k].t => j = k

(* When it does: in no module is there a loop within one cycle, taking an  *)
(* output of an instance to read what is connected to those of its inputs  *)
(* that it reads in that cycle.  rank: module -> name -> a number that     *)
(* falls along every such reading; reads: the inputs it leads to.          *)
Acyclic(order) ==
  \A m \in DOMAIN Node : \A v \in DOMAIN Node[m] :
    LET n == Node[m][v]
        AtOnce(u) == /\ order.rank[m][u] < order.rank[m][v]
                     /\ order.reads[m][u] \subseteq order.reads[m][v]
    IN /\ order.rank[m][v] \in Nat
       /\ n.kind = "in" => v \in order.reads[m][v]
       /\ n.kind = "dynsel" => AtOnce(n.is)
       /\ \A k \in DOMAIN n.src :
            n.src[k].lit = <<>> /\ Delay(n, k) = 0 => AtOnce(n.src[k].v)
       /\ n.kind = "sub" =>
            \A p \in Ports(InsMod[m][n.is.ins]) :
              LET wire == Conn[m][n.is.ins][p]
              IN wire.lit = <<>> /\ p \in order.reads[InsMod[m][n.is.ins]][n.is.port]
                   => AtOnce(wire.v)

(* A read of an array that is under way asks for writes of its level and   *)
(* later ones only; and no module with the static flag off, but for the    *)
(* target's and those above it, has been entered: its inputs go on in the  *)
(* caller at the level they are read at inside.                            *)
ReadsAhead(frame) ==
  Node[Last(frame.hier).m][frame.v].kind = "dynsel"
    => \A k \in DOMAIN frame.asks : frame.asks[k].t >= frame.t
Ahead  == \A k \in DOMAIN stack : ReadsAhead(stack[k])
Inside == \A f \in DOMAIN minDelay : f[1] \in FlatMods => f[1] \in Shared

(* The inputs a call gives 0 because they "would not be used" are not used *)
(* by the body, the reset excepted (op_constraint.cpp:1782-1783).          *)
ZeroedInputsUnused ==
  \A f \in DOMAIN funcs : \A leaf \in Args(funcs[f]) :
    leaf[1] = f /\ leaf[2] = "in" /\ leaf[3][1] # Rst[f[1]]
      => leaf[4] >= minDelay[f][leaf[3][1]]

(* A sub-module's function is general: it reads its own arguments and not  *)
(* the caller's (op_constraint.cpp:202-206).                               *)
OwnArgumentsOnly ==
  \A f \in DOMAIN funcs : \A leaf \in Args(funcs[f]) : leaf[1] = f

(* The elaboration ends with a value for every target, or is aborted.      *)
Terminates == <>(aborted \/ Len(result) = Len(job.dests))
=============================================================================
