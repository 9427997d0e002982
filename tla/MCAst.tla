------------------------------- MODULE MCAst -------------------------------
(***************************************************************************)
(* Ast on a design of five modules.  "cell" is used twice by top and once  *)
(* by mid; mid has no reset, so that the clock of "core" and of its "leaf" *)
(* is not found at first.  top has loops through registers, through a      *)
(* variable assigned by slices and through both of its cells.              *)
(***************************************************************************)
EXTENDS Ast, TLC

A(k, s)    == [kind |-> k, src |-> s, ins |-> "", port |-> ""]
In         == A("in", <<>>)
Num        == A("num", <<>>)
Out(i, p)  == [kind |-> "sub", src |-> <<>>, ins |-> i, port |-> p]

TopM ==
  "clk" :> In @@ "rst" :> In @@ "a" :> In @@ "b" :> In @@ "0" :> Num
  @@ "w1" :> Out("u1", "y") @@ "z2" :> Out("u2", "z") @@ "t1" :> Out("u1", "t")
  @@ "mo" :> Out("m1", "out") @@ "k" :> Out("k1", "out") @@ "rd" :> Out("h1", "rd")
  @@ "r" :> A("reg", <<"w1">>) @@ "q1" :> A("reg", <<"n1">>) @@ "q2" :> A("reg", <<"z2">>)
  @@ "q" :> A("slices", <<"q1", "q2", "0">>) @@ "n1" :> A("op", <<"q", "a">>)
  @@ "v" :> A("op", <<"r", "b">>) @@ "sel" :> A("op", <<"a", "rd", "dy">>)
  @@ "mm" :> A("op", <<"a", "b", "dy">>) @@ "dy" :> A("op", <<"mm", "a">>)
  @@ "cs" :> A("case", <<"sel", "v[1]", "v[0]", "0">>) @@ "sw" :> A("switch", <<"sel">>)
  @@ "p" :> A("reg", <<"mo">>)
  @@ "o" :> A("op", <<"q", "r", "k">>) @@ "o3" :> A("op", <<"cs", "sw", "p", "t1">>)
  @@ "sk" :> A("op", <<"a", "o">>)
Cell ==
  "clk" :> In @@ "rst" :> In @@ "a" :> In @@ "y" :> A("reg", <<"n">>)
  @@ "n" :> A("op", <<"y", "a">>) @@ "z" :> A("op", <<"y", "a">>) @@ "t" :> A("op", <<"n", "rst">>)
Mid ==
  "clk" :> In @@ "e" :> In @@ "0" :> Num @@ "s" :> A("reg", <<"x">>) @@ "x" :> A("op", <<"e", "s">>)
  @@ "ct" :> Out("c1", "t") @@ "go" :> Out("g1", "co") @@ "out" :> A("op", <<"s", "ct", "go">>)
Core == "clk" :> In @@ "d" :> In @@ "co" :> Out("l1", "lq")
Leaf == "clk" :> In @@ "d" :> In @@ "lq" :> A("reg", <<"nx">>) @@ "nx" :> A("op", <<"d", "lq">>)

MCAssign == "top" :> TopM @@ "cell" :> Cell @@ "mid" :> Mid @@ "core" :> Core @@ "leaf" :> Leaf
            @@ "box" :> <<>> @@ "ram" :> <<>>
MCWhole  == "v[1]" :> "v" @@ "v[0]" :> "v"
MCPorts  == "cell" :> <<"clk", "rst", "a">> @@ "mid" :> <<"clk", "e">> @@ "core" :> <<"clk", "d">>
            @@ "leaf" :> <<"clk", "d">> @@ "box" :> <<"in">> @@ "ram" :> <<"addr">>
MCInsMod == "top" :> ("u1" :> "cell" @@ "u2" :> "cell" @@ "m1" :> "mid" @@ "k1" :> "box" @@ "h1" :> "ram")
            @@ "cell" :> <<>> @@ "mid" :> ("c1" :> "cell" @@ "g1" :> "core")
            @@ "core" :> ("l1" :> "leaf") @@ "leaf" :> <<>> @@ "box" :> <<>> @@ "ram" :> <<>>
MCConn ==
  "top" :> ("u1" :> ("clk" :> "clk" @@ "rst" :> "rst" @@ "a" :> "q1")
            @@ "u2" :> ("clk" :> "clk" @@ "rst" :> "rst" @@ "a" :> "w1")
            @@ "m1" :> ("clk" :> "clk" @@ "e" :> "r")
            @@ "k1" :> ("in" :> "b") @@ "h1" :> ("addr" :> "a"))
  @@ "cell" :> <<>>
  @@ "mid" :> ("c1" :> ("clk" :> "clk" @@ "rst" :> "0" @@ "a" :> "s")
               @@ "g1" :> ("clk" :> "clk" @@ "d" :> "e"))
  @@ "core" :> ("l1" :> ("clk" :> "clk" @@ "d" :> "d")) @@ "leaf" :> <<>>
  @@ "box" :> <<>> @@ "ram" :> <<>>
MCClock == [m \in DOMAIN MCAssign |-> IF m \in {"box", "ram"} THEN "" ELSE "clk"]

Tgt(path, name) == [path |-> path, name |-> name]
Note        == [k |-> "note"]
T(tgt, d)   == [k |-> "target", tgt |-> tgt, delay |-> d]
OpenB       == [k |-> "["]
CloseB(d)   == [k |-> "]", delay |-> d]
MCOutputs == {Tgt(<<>>, "o"), Tgt(<<>>, "o3"), Tgt(<<>>, "sk")}
\* Two delays for "r", a vector below top, one of two registers; a note between
\* brackets, and brackets that are not closed.
MCFiles == {
  <<Note, T(Tgt(<<>>, "r"), <<2>>), OpenB, T(Tgt(<<"m1">>, "s"), <<>>), CloseB(<<3>>),
    T(Tgt(<<>>, "r"), <<1>>), Note, OpenB, T(Tgt(<<"m1", "g1", "l1">>, "lq"), <<>>), T(Tgt(<<>>, "q"), <<>>),
    CloseB(<<>>), T(Tgt(<<>>, "sk"), <<>>)>>,
  <<T(Tgt(<<>>, "q"), <<>>), OpenB, Note, T(Tgt(<<>>, "r"), <<>>), CloseB(<<>>)>>,
  <<OpenB, T(Tgt(<<>>, "r"), <<>>)>>}
MCSkipped == {"sk"}
=============================================================================
