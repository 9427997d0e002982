------------------------------ MODULE LlvmOps ------------------------------
(***************************************************************************)
(* The LLVM values that op_constraint.cpp builds for the operators of the  *)
(* netlist, with the widths it gives them.  A value is a tree of           *)
(* instructions [op, w, is, of]: its width, what the instruction carries   *)
(* besides operands, its operands.  Names of values, which the code also   *)
(* uses to find an extension or a slice made before, are left out.         *)
(***************************************************************************)
EXTENDS Words

(* args: the function arguments in the tree.  fits: FALSE if, somewhere in *)
(* it, the code leaves the RTL (see Unroll).  Choosing from a set of one   *)
(* has TLC evaluate the operands once.                                     *)
Instr(op, w, is, of) ==
  LET Made(x) == [op |-> op, w |-> w, is |-> is, of |-> x,
                  args |-> IF op = "arg" THEN {is} ELSE UNION {x[k].args : k \in DOMAIN x},
                  fits |-> \A k \in DOMAIN x : x[k].fits]
  IN CHOOSE v \in {Made(x) : x \in {of}} : TRUE

Args(v)  == v.args
Fits(v)  == v.fits
Unfit(v) == [v EXCEPT !.fits = FALSE]

Const(x)       == Instr("const", Len(x), x, <<>>)
Argument(a, w) == Instr("arg", w, a, <<>>)

Cast(op, v, w) ==
  IF v.w = w THEN v ELSE Instr(IF v.w > w THEN "trunc" ELSE op, w, <<>>, <<v>>)
Zext(v, w) == Cast("zext", v, w)
Sext(v, w) == Cast("sext", v, w)
Ext(signed, v, w) == IF signed THEN Sext(v, w) ELSE Zext(v, w)

Bin(op, a, b) == Instr(op, a.w, <<>>, <<a, b>>)
Icmp(rel, signed, a, b) == Instr("icmp", 1, [rel |-> rel, signed |-> signed], <<a, b>>)
Zero(v) == Const(Zeros(v.w))

Extract(v, hi, lo) == Cast("trunc", Bin("lshr", v, Const(Word(lo, v.w))), hi - lo + 1)

Concat2(a, b) ==
  LET w == a.w + b.w
  IN Bin("add", Bin("shl", Zext(a, w), Const(Word(b.w, w))), Zext(b, w))

Arithmetic == {"&", "|", "^", "+", "-", "*", "%"}
Shifts     == {"<<", ">>", ">>>"}
Relations  == {"==", "===", "!=", "<", "<=", ">", ">=", "$<", "$<=", "$>", "$>="}
SignedRelations == {"$<", "$<=", "$>", "$>="}
TwoOps     == Arithmetic \cup Shifts \cup Relations \cup {"&&", "||"}

ArithName(op, signed) ==
  CASE op = "&" -> "and" [] op = "|" -> "or"  [] op = "^" -> "xor"
    [] op = "+" -> "add" [] op = "-" -> "sub" [] op = "*" -> "mul"
    [] op = "%" -> IF signed THEN "srem" ELSE "urem"

RelName(op) ==
  CASE op \in {"==", "==="} -> "eq" [] op = "!=" -> "ne"
    [] op \in {"<", "$<"} -> "lt"   [] op \in {"<=", "$<="} -> "le"
    [] op \in {">", "$>"} -> "gt"   [] op \in {">=", "$>="} -> "ge"

Nonzero(v) == Icmp("ne", FALSE, v, Zero(v))

(* Arithmetic is done at the width of what is assigned, a comparison at    *)
(* that of the wider operand.                                              *)
TwoOp(op, signed, a, b, w) ==
  LET wide == Max({a.w, b.w})
  IN CASE op \in Arithmetic ->
            Bin(ArithName(op, signed), Ext(signed, a, w), Ext(signed, b, w))
       [] op = "<<" -> Bin("shl", Ext(signed, a, w), Zext(b, w))
       [] op = ">>" -> Bin("lshr", Ext(signed, a, w), Zext(b, w))
       [] op = ">>>" ->
            IF w >= a.w THEN Bin("ashr", Ext(signed, a, w), Zext(b, w))
                        ELSE Extract(Bin("ashr", a, Ext(signed, b, a.w)), w - 1, 0)
       [] op = "&&" -> Bin("and", Nonzero(a), Nonzero(b))
       [] op = "||" -> Bin("or", a, b)
       [] op \in Relations ->
            Icmp(RelName(op), signed \/ op \in SignedRelations,
                 Ext(signed \/ op \in SignedRelations, a, wide),
                 Ext(signed \/ op \in SignedRelations, b, wide))

Not(v) == Bin("xor", v, Const(Fill(v.w, TRUE)))
OneOp(op, v) ==
  CASE op = ""  -> v
    [] op = "~" -> Not(v)
    [] op = "-" -> Bin("sub", Zero(v), v)
    [] op = "!" -> Icmp("eq", FALSE, v, Zero(v))
    [] op = "|" -> Nonzero(v)
    [] op = "&" -> Icmp("eq", FALSE, Not(v), Zero(v))

SelOp(a, b, w) == Extract(TwoOp(">>", FALSE, a, b, Max({a.w, b.w})), w - 1, 0)

(* The last is taken first, the others are put on top of it.               *)
CatOp(vs) ==
  LET cat[k \in 0 .. Len(vs) - 1] ==
        IF k = 0 THEN vs[Len(vs)] ELSE Concat2(vs[Len(vs) - k], cat[k - 1])
  IN cat[Len(vs) - 1]

Select(c, a, b) == Instr("select", a.w, <<>>, <<c, a, b>>)
IsOne(v)  == Icmp("eq", FALSE, v, Const(<<TRUE>>))
Ite(c, a, b) == Select(IsOne(c), a, b)

(* The first value whose bit of the selector is set, else the default.     *)
CaseOp(sel, at, vals, default) ==
  LET Chosen(k, rest) == Select(IsOne(Extract(sel, at[k], at[k])), vals[k], rest)
      from[k \in 0 .. Len(at)] ==
        IF k = 0 THEN default ELSE Chosen(Len(at) + 1 - k, from[k - 1])
  IN from[Len(at)]

Load(table, index) == Instr("load", Len(table[1]), table, <<index>>)
=============================================================================
