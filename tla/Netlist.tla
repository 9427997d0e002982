------------------------------ MODULE Netlist ------------------------------
(***************************************************************************)
(* Verilog netlists line by line, in the forms Yosys writes and func_extract *)
(* reads, and what they mean: for every output, register, array and        *)
(* instance input, bit by bit, the expression over inputs and registers    *)
(* that drives it.  Two texts, or a text and the tables parsed from it,    *)
(* agree when these expressions do.                                        *)
(*                                                                         *)
(* Operand: the bits cut of variable var, or, when base > 0, a number of w *)
(* bits written with digits of base bits.  A group is what stands between  *)
(* braces, or one operand.  Lines are records with a kind k:               *)
(*   comment; module var; endmodule; decl as var w; mem var w; wireis (a   *)
(*   wire declared with what drives it); assign dest = op key of; func key *)
(*   (a function with a case over its formals); case; inst mod name conns; *)
(*   always rst, and under it nb, ifnb, elsenb, elifnb, if, else, memif.   *)
(***************************************************************************)
EXTENDS Naturals, FiniteSets, SequencesExt

V(x)       == [var |-> x, cut |-> <<>>, base |-> 0, w |-> 0, digits |-> <<>>]
S(x, h, l) == [V(x) EXCEPT !.cut = <<h, l>>]
Num(w, b, ds) == [var |-> <<"'">>, cut |-> <<>>, base |-> b, w |-> w, digits |-> ds]
IsNum(o)   == o.base > 0

\* A bit: op applied to whole vectors, its at-th result bit; vectors have their
\* most significant bit first.
Bit(op, at, key, of) == [op |-> op, at |-> at, key |-> key, of |-> of]
Const(b)  == Bit(b, 0, <<>>, <<>>)
Leaves(v, w) == [i \in 1..w |-> Bit("bit", w - i, v, <<>>)]

Resize(s, w) == IF Len(s) >= w THEN SubSeq(s, Len(s) - w + 1, Len(s))
                ELSE [i \in 1..(w - Len(s)) |-> Const("0")] \o s

\* Digit 99 stands for an x or a ? of that digit.
Digit(d, b) == [i \in 1..b |-> Const(IF d = 99 THEN "?" ELSE IF (d \div 2^(b - i)) % 2 = 1 THEN "1" ELSE "0")]
NumBits(o)  == Resize(FlattenSeq([k \in DOMAIN o.digits |-> Digit(o.digits[k], o.base)]), o.w)

-----------------------------------------------------------------------------
(* A module: its ports and signals, what drives its wires, what its        *)
(* registers become, its instances.  A driver gives dest the bits part of  *)
(* the expression's total bits.                                            *)

NoModule == [inputs |-> {}, outputs |-> {}, width |-> <<>>, drivers |-> {}, slices |-> <<>>,
             nexts |-> {}, funcs |-> {}, insts |-> {}]

WidthOf(M, o) == CASE IsNum(o) -> o.w
                   [] o.cut # <<>> -> o.cut[1] - o.cut[2] + 1
                   [] OTHER -> M.width[o.var]

Sum(s) == FoldLeft(LAMBDA a, x : a + x, 0, s)
GroupWidth(M, g) == Sum([k \in DOMAIN g |-> WidthOf(M, g[k])])

Regs(M) == {n.dest.var : n \in {m \in M.nexts : m.body[1].k # "memif"}}
DrivenBy(M, v) == {d \in M.drivers : d.dest.var = v}

\* vec: the vector of every variable
Cut(s, c) == IF c = <<>> THEN s ELSE SubSeq(s, Len(s) - c[1], Len(s) - c[2])
Bits(vec, o)  == IF IsNum(o) THEN NumBits(o) ELSE Cut(vec[o.var], o.cut)
Group(vec, g) == FlattenSeq([k \in DOMAIN g |-> Bits(vec, g[k])])

\* case and function: of is the selector, then value and result in turns, then the default.
Pick(of, w) ==
  LET kept(k) == k % 2 = 0 /\ k < Len(of)
      sized == [k \in DOMAIN of |-> IF k = 1 \/ kept(k) THEN of[k] ELSE Resize(of[k], w)]
  IN [i \in 1..w |-> Bit("case", 0, <<>>, [k \in DOMAIN of |->
                          IF k = 1 \/ kept(k) THEN of[k] ELSE <<sized[k][i]>>])]

Call(f, args, w) == \* the vectors of the arguments
  LET arg == [k \in 1..3 |-> Resize(args[k], f.formals[k].w)]
      of(o) == arg[CHOOSE k \in 1..3 : f.formals[k].var = o.var]
      at(o) == IF IsNum(o) THEN NumBits(o) ELSE Cut(of(o), o.cut)
  IN Resize(Pick([k \in DOMAIN f.of |-> at(f.of[k][1])], f.w), w)

\* The expression of driver d with the operands' vectors of.
Expr(M, d, of) ==
  LET w == d.total IN
  CASE d.op \in {"=", "{}"} -> Resize(of[1], w)
    [] d.op = "?" -> LET x == Resize(of[2], w)
                         y == Resize(of[3], w)
                     IN [i \in 1..w |-> Bit("?", 0, <<>>, <<of[1], <<x[i]>>, <<y[i]>> >>)]
    [] d.op = "case" -> Pick(of, w)
    [] d.op = "call" -> Call(CHOOSE f \in M.funcs : f.key = d.key, of, w)
    [] OTHER -> [i \in 1..w |-> Bit(d.op, w - i, d.key, of)]

Driven(M, vec, d) ==
  LET e == Expr(M, d, [k \in DOMAIN d.of |-> Group(vec, d.of[k])])
  IN SubSeq(e, d.total - d.part[1], d.total - d.part[2])

\* The drivers of a variable from its highest bits down.
DriversDown(M, v) == IF v \in DOMAIN M.slices
                     THEN [k \in DOMAIN M.slices[v] |-> CHOOSE d \in M.drivers : d.dest = M.slices[v][k]]
                     ELSE <<CHOOSE d \in DrivenBy(M, v) : TRUE>>

Vecs(M) ==
  LET vec[v \in DOMAIN M.width] ==
        IF v \in M.inputs \cup Regs(M) \/ DrivenBy(M, v) = {} THEN Leaves(v, M.width[v])
        ELSE LET ds == DriversDown(M, v) IN FlattenSeq([k \in DOMAIN ds |-> Driven(M, vec, ds[k])])
  IN vec

-----------------------------------------------------------------------------
(* What a clock edge does: body is the statement under an always           *)

Choose(c, neg, x, y) == LET p == IF neg THEN y ELSE x
                            q == IF neg THEN x ELSE y
                        IN [i \in DOMAIN x |-> Bit("?", 0, <<>>, <<c, <<p[i]>>, <<q[i]>> >>)]

\* From the i-th if of a statement on: else, else if, or the register keeps its value.
IfNb(vec, b, w) ==
  LET from[i \in 1..(Len(b) + 1)] ==
        IF i > Len(b) THEN Leaves(b[1].dest[1].var, w)
        ELSE LET then == Resize(Group(vec, b[i].of[1]), w)
             IN IF b[i].k = "elsenb" THEN then ELSE Choose(Bits(vec, b[i].cond), b[i].neg, then, from[i + 1])
  IN from[1]

NextVal(vec, b, w) ==
  CASE b[1].k = "nb"     -> Resize(Group(vec, b[1].of[1]), w)
    [] b[1].k = "ifnb"   -> IfNb(vec, b, w)
    [] b[1].k = "if" -> LET rest == Tail(b)
                            then == IF rest[1].k = "nb" THEN Resize(Group(vec, rest[1].of[1]), w) ELSE IfNb(vec, rest, w)
                            else == IF rest[1].k = "nb" THEN Resize(Group(vec, b[4].of[1]), w)
                                                        ELSE Leaves(rest[1].dest[1].var, w)
                        IN Choose(Bits(vec, b[1].cond), b[1].neg, then, else)

Written(M, vec, b) == <<b.dest[1], Bits(vec, b.addr), Bits(vec, b.cond),
                        Resize(Group(vec, b.of[1]), M.width[b.dest[1].var])>>

Meaning(M) ==
  LET vec == Vecs(M) IN
  [outs  |-> [o \in M.outputs |-> vec[o]],
   regs  |-> [r \in Regs(M) |-> NextVal(vec, (CHOOSE n \in M.nexts : n.dest.var = r).body, M.width[r])],
   mems  |-> {Written(M, vec, n.body[1]) : n \in {m \in M.nexts : m.body[1].k = "memif"}},
   ports |-> UNION {{<<i.mod, i.name, p, Group(vec, i.conns[p])>> : p \in DOMAIN i.conns \ i.outs} : i \in M.insts}]

-----------------------------------------------------------------------------
(* Reading a text by the rules of the language                             *)

\* Braces on the left: each destination takes its part of the expression.
Parts(M, dest) ==
  LET total == GroupWidth(M, dest)
  IN {<<dest[k], LET hi == total - 1 - GroupWidth(M, SubSeq(dest, 1, k - 1))
                 IN <<hi, hi + 1 - WidthOf(M, dest[k])>> >> : k \in DOMAIN dest}

DriversOf(M, l) == {[dest |-> p[1], part |-> p[2], total |-> GroupWidth(M, l.dest),
                     op |-> l.op, key |-> l.key, of |-> l.of] : p \in Parts(M, l.dest)}

\* The slices that are driven on their own, by variable, highest first.
SlicesOf(drivers) ==
  LET cut == {d.dest : d \in {e \in drivers : e.dest.cut # <<>>}}
  IN [v \in {o.var : o \in cut} |->
        SetToSortSeq({o \in cut : o.var = v}, LAMBDA x, y : x.cut[1] > y.cut[1])]

Stmts == {"nb", "ifnb", "elsenb", "elifnb", "if", "else", "memif"}

\* The statements under the always at line i.
Under(ls, i) ==
  LET last == CHOOSE j \in i..Len(ls) : /\ \A k \in (i + 1)..j : ls[k].k \in Stmts
                                        /\ j = Len(ls) \/ ls[j + 1].k \notin Stmts
  IN SubSeq(ls, i + 1, last)

DestOf(body) == IF body[1].k = "if" THEN body[2].dest[1] ELSE body[1].dest[1]

Only(ls, k) == {ls[i] : i \in {j \in DOMAIN ls : ls[j].k = k}}
Conns(l)    == [p \in {c[1] : c \in Range(l.conns)} |-> (CHOOSE c \in Range(l.conns) : c[1] = p)[2]]

\* An instance's output drives the wires at that port.
PortDriver(name, p, wires) == [dest |-> wires, op |-> "port", key |-> <<name, p>>, of |-> <<>>]

ReadModule(ls, outs) ==
  LET decls == Only(ls, "decl") \cup Only(ls, "mem") \cup Only(ls, "wireis")
      M0    == [NoModule EXCEPT !.width = [v \in {d.var : d \in decls} |-> (CHOOSE d \in decls : d.var = v).w]]
      inst  == Only(ls, "inst")
      ported == UNION {{PortDriver(l.name, p, Conns(l)[p]) :
                          p \in {q \in DOMAIN Conns(l) \cap outs[l.mod] : Conns(l)[q] # <<>>}} : l \in inst}
      inline == {[dest |-> <<V(d.var)>>, op |-> "=", key |-> <<>>, of |-> << <<d.src>> >>] : d \in Only(ls, "wireis")}
      drivers == UNION {DriversOf(M0, l) : l \in Only(ls, "assign") \cup Only(ls, "case") \cup ported \cup inline}
      bodies == {Under(ls, i) : i \in {j \in DOMAIN ls : ls[j].k = "always"}}
      declared(as) == {d.var : d \in {e \in Only(ls, "decl") : e.as = as}}
  IN [M0 EXCEPT !.inputs = declared("input"), !.outputs = declared("output"),
                !.drivers = drivers, !.slices = SlicesOf(drivers),
                !.nexts = {[dest |-> DestOf(b), body |-> b] : b \in bodies},
                !.funcs = Only(ls, "func"),
                !.insts = {[mod |-> l.mod, name |-> l.name, outs |-> outs[l.mod], conns |-> Conns(l)] : l \in inst}]

Modules(text) == {text[i].var : i \in {j \in DOMAIN text : text[j].k = "module"}}
LinesOf(text, m) ==
  LET b == CHOOSE i \in DOMAIN text : text[i].k = "module" /\ text[i].var = m
      e == CHOOSE i \in DOMAIN text : i > b /\ text[i].k = "endmodule"
                                       /\ \A j \in b..(i - 1) : text[j].k # "endmodule"
  IN SelectSeq(SubSeq(text, b + 1, e - 1), LAMBDA l : l.k # "comment")

OutputsOf(text) == [m \in Modules(text) |->
  {d.var : d \in {l \in Range(LinesOf(text, m)) : l.k = "decl" /\ l.as = "output"}}]
Read(text) == [m \in Modules(text) |-> ReadModule(LinesOf(text, m), OutputsOf(text))]
MeaningOf(text) == [m \in Modules(text) |-> Meaning(Read(text)[m])]
=============================================================================
