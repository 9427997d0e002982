----------------------------- MODULE MCFrontEnd -----------------------------
(***************************************************************************)
(* FrontEnd on small designs that hold every form of statement between     *)
(* them.  In Leaf and Top no two modules give one name two widths.         *)
(***************************************************************************)
EXTENDS FrontEnd

N(x) == <<x>>
v(x) == V(N(x))
s(x, h, l) == S(N(x), h, l)
Module(m)  == [k |-> "module", var |-> N(m)]
End        == [k |-> "endmodule"]
Comment    == [k |-> "comment"]
Decl(as, x, w) == [k |-> "decl", as |-> as, var |-> N(x), w |-> w]
Mem(x, w)  == [k |-> "mem", as |-> "mem", var |-> N(x), w |-> w]
WireIs(x, w, o) == [k |-> "wireis", as |-> "wire", var |-> N(x), w |-> w, src |-> o]
A(dest, op, of) == Assign(dest, op, of)
Read2(dest, m, addr) == [Assign(dest, "read", << <<addr>> >>) EXCEPT !.key = N(m)]
CallF(dest, f, args) == [Assign(dest, "call", args) EXCEPT !.key = N(f)]
Always     == [k |-> "always", rst |-> <<>>]
AlwaysRst(r) == [k |-> "always", rst |-> N(r)]
Nb(x, src) == [k |-> "nb", dest |-> <<v(x)>>, of |-> <<src>>]
IfNb_(c, neg, x, src)   == [k |-> "ifnb", cond |-> c, neg |-> neg, dest |-> <<v(x)>>, of |-> <<src>>]
ElifNb(c, neg, x, src) == [k |-> "elifnb", cond |-> c, neg |-> neg, dest |-> <<v(x)>>, of |-> <<src>>]
ElseNb(x, src)         == [k |-> "elsenb", dest |-> <<v(x)>>, of |-> <<src>>]
If(c, neg) == [k |-> "if", cond |-> c, neg |-> neg]
Else       == [k |-> "else"]
MemIf(c, m, addr, src) == [k |-> "memif", cond |-> c, dest |-> <<v(m)>>, addr |-> addr, of |-> <<src>>]
Inst(m, name, conns) == [k |-> "inst", mod |-> N(m), name |-> name, conns |-> conns]
P(x, g)    == <<N(x), g>>
Formal(x, w) == [var |-> N(x), w |-> w]
Func(f, w, ws, of) == [k |-> "func", key |-> N(f), w |-> w, of |-> of,
                       formals |-> <<Formal("a", ws[1]), Formal("b", ws[2]), Formal("s", ws[3])>>]

\* 33'b1010... in one concatenation, split into 16 + 16 + 1
LongBin == Num(33, 1, [i \in 1..33 |-> i % 2])
LongHex == Num(36, 4, <<1, 2, 3, 4, 5, 6, 7, 8, 9>>)

Leaf == <<Module("leaf"), Comment,
  Decl("input", "clk", 1), Decl("input", "rst", 1), Decl("input", "d", 4), Decl("output", "y", 4), Decl("reg", "y", 4),
  Decl("wire", "n", 4), Decl("wire", "m", 2), Decl("wire", "k", 2),
  A(<<v("m"), v("k")>>, "=", << <<v("d")>> >>),
  A(<<v("n")>>, "+", << <<v("d")>>, <<v("k"), v("m")>> >>),
  AlwaysRst("rst"), If(v("rst"), TRUE), Nb("y", <<Num(4, 4, <<0>>)>>), Else, Nb("y", <<v("n")>>),
  End>>

Top == <<Module("top"),
  Decl("input", "clk", 1), Decl("input", "rst", 1), Decl("input", "in1", 4), Decl("input", "in2", 4), Decl("input", "en", 1),
  Decl("output", "o", 4), Decl("output", "c", 1), Decl("output", "t", 2), Decl("output", "t2", 2), Decl("output", "rd", 4),
  Decl("wire", "h", 1), Decl("wire", "l", 3), Decl("wire", "sum", 4), Decl("wire", "w", 4), Decl("wire", "u", 2),
  Decl("wire", "x", 2), Decl("wire", "z", 1), Decl("wire", "z2", 2),
  Decl("reg", "q", 4), Decl("reg", "r", 4), Decl("reg", "p", 4), Mem("ram", 4),
  Inst("leaf", "u1", <<P("clk", <<v("clk")>>), P("rst", <<v("rst")>>),
                       P("d", <<s("in1", 1, 0), s("q", 3, 2)>>), P("y", <<v("h"), v("l")>>)>>),
  A(<<v("c"), v("sum")>>, "+", << <<v("in1")>>, <<v("h"), v("l")>> >>),
  Func("fn", 2, <<2, 4, 2>>, << <<v("s")>>, <<Num(2, 1, <<99, 1>>)>>, <<s("b", 1, 0)>>,
                               <<Num(2, 1, <<1, 99>>)>>, <<s("b", 3, 2)>>, <<v("a")>> >>),
  CallF(<<v("t")>>, "fn", << <<s("sum", 1, 0)>>, <<v("h"), v("l")>>, <<v("u")>> >>),
  Func("fh", 2, <<2, 4, 2>>, << <<v("s")>>, <<Num(2, 1, <<0, 1>>)>>, <<s("b", 1, 0)>>,
                               <<Num(2, 1, <<1, 0>>)>>, <<s("b", 3, 2)>>, <<v("a")>> >>),
  CallF(<<v("t2")>>, "fh", << <<v("u")>>, <<Num(4, 4, <<6>>)>>, <<v("t")>> >>),
  A(<<s("w", 1, 0)>>, "&", << <<v("u")>>, <<v("t")>> >>),
  A(<<s("w", 3, 2)>>, "{}", << <<v("z"), v("en")>> >>),
  A(<<v("x"), v("z"), v("u")>>, "{}", << <<v("en"), s("q", 2, 2), v("h"), s("r", 1, 0)>> >>),
  A(<<v("o")>>, "?", << <<v("en")>>, <<v("w")>>, <<v("x"), v("x")>> >>),
  Always, MemIf(v("en"), "ram", v("u"), <<v("sum")>>),
  Read2(<<v("rd")>>, "ram", v("x")),
  Always, Nb("q", <<v("l"), v("h")>>),
  Always, IfNb_(v("rst"), TRUE, "r", <<Num(4, 1, <<0, 1, 0, 1>>)>>), ElifNb(v("en"), FALSE, "r", <<v("sum")>>),
  Always, If(v("en"), FALSE), IfNb_(v("rst"), FALSE, "p", <<v("q")>>), ElseNb("p", <<v("r")>>),
  End>>

\* A second edition; its unused wires d1, d2 are assigned from one wire between braces.
Other == <<Module("top"),
  Decl("input", "clk", 1), Decl("input", "i", 36), Decl("input", "e", 1), Decl("output", "o", 36), Decl("output", "b", 2),
  Decl("reg", "r", 2), Decl("reg", "r2", 2), Decl("wire", "d1", 1), Decl("wire", "d2", 1), WireIs("j", 2, s("i", 3, 2)),
  A(<<v("d1"), v("d2")>>, "{}", << <<v("r")>> >>),
  A(<<v("o")>>, "^", << <<v("i")>>, <<LongHex, v("e")>> >>),
  A(<<v("b")>>, "|", << <<v("j")>>, <<v("e"), LongBin>> >>),
  Always, IfNb_(v("e"), TRUE, "r", <<v("j")>>),
  Always, IfNb_(v("e"), FALSE, "r2", <<v("j")>>), ElseNb("r2", <<v("b")>>),
  End>>

\* j has no width when it is met between braces.
Stops == <<Module("top"), Decl("input", "e", 1), Decl("output", "o", 3), WireIs("j", 2, v("e")),
  A(<<v("o")>>, "^", << <<v("e")>>, <<v("j"), v("e")>> >>), End>>

MCClk   == N("clk")
MCTexts == <<Leaf \o Top, Other, Stops>>
=============================================================================
