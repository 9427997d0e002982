------------------------------ MODULE MCUnroll ------------------------------
(***************************************************************************)
(* Unroll on a three-level design.  "alu" is combinational: o1 reads x and *)
(* o2 reads y.  "cell" registers what its own alu makes of d, and reads d  *)
(* at two levels for its output m.  "top" feeds o1 of an alu back into its *)
(* y, has two cells, a memory, a register of two parts, an array that is   *)
(* read where it is written and read besides, a black box that lags, and   *)
(* one node for each operator, over a memory and an input.  "sole", in     *)
(* which there are targets, has an alu of its own; its f comes back to it. *)
(***************************************************************************)
EXTENDS UnrollRtl

Nod(k, op, w, src, is) == [kind |-> k, op |-> op, w |-> w, src |-> src, is |-> is]
InW(w)     == Nod("in", "", w, <<>>, <<>>)
Reg(v, w, o) == Nod("reg", "", w, <<o>>, [var |-> v, w |-> w, hi |-> w - 1, lo |-> 0])
PartReg(v, whole, hi, lo, o) ==
  Nod("reg", "", hi - lo + 1, <<o>>, [var |-> v, w |-> whole, hi |-> hi, lo |-> lo])
Two(op, w, a, b) == Nod("two", op, w, <<a, b>>, <<FALSE, FALSE>>)
Signed(op, w, a, b) == Nod("two", op, w, <<a, b>>, <<TRUE, op \notin Shifts>>)
One(op, w, a)    == Nod("one", op, w, <<a>>, <<>>)
Out(i, p, w)     == Nod("sub", "", w, <<>>, [ins |-> i, port |-> p])

Alu  == "x" :> InW(2) @@ "y" :> InW(2) @@ "o1" :> One("~", 2, Whole("x"))
        @@ "o2" :> Two("+", 2, Whole("y"), Lit(<<TRUE>>))
Cell == "d" :> InW(2) @@ "rst" :> InW(1) @@ "n" :> Out("u", "o1", 2)
        @@ "q" :> Reg("q", 2, Whole("n"))
        @@ "m" :> Two("-", 2, Whole("q"), Whole("d"))
        @@ "h" :> Nod("ite", "", 2, <<Whole("rst"), Lit(<<FALSE, FALSE>>), Whole("q")>>, <<>>)

Narrow == {"&&", "||"} \cup Relations
Zoo == [op \in TwoOps |->
          IF op = "||" THEN Two(op, 1, Slice("a", 1, 1), Slice("ram", 0, 0))
          ELSE Two(op, IF op \in Narrow THEN 1 ELSE 3, Whole("ram"), Whole("a"))]
SignedZoo == [op \in {"s" \o o : o \in TwoOps \ {"&&", "||"}} |->
          LET o == SubSeq(op, 2, Len(op))
          IN IF o \in Narrow THEN Signed(o, 1, Whole("a"), Slice("ram", 0, 0))
                            ELSE Signed(o, 3, Whole("a"), Whole("ram"))]
OneZoo == [op \in {"u~", "u-", "u!", "u|", "u&"} |->
          LET o == SubSeq(op, 2, 2) IN One(o, IF o \in {"~", "-"} THEN 2 ELSE 1, Whole("ram"))]

Sole == "e" :> InW(2) @@ "f" :> InW(2)
        @@ "g" :> Reg("g", 2, Whole("v")) @@ "v" :> Two("&", 2, Whole("n"), Whole("e"))
        @@ "n" :> Out("u", "o2", 2) @@ "back" :> Reg("back", 2, Whole("f"))

TopM == "a" :> InW(2) @@ "b" :> InW(2) @@ "rst" :> InW(1)
        @@ "w1" :> Out("u", "o1", 2) @@ "w2" :> Out("u", "o2", 2)
        @@ "r" :> Reg("r", 2, Whole("w2")) @@ "s" :> Reg("s", 2, Whole("k"))
        @@ "k" :> Two("^", 2, Whole("s"), Whole("b"))
        @@ "m1" :> Out("c1", "m", 2) @@ "m2" :> Out("c2", "m", 2) @@ "h1" :> Out("c1", "h", 2)
        @@ "z" :> Nod("cat", "", 4, <<Slice("m1", 0, 0), Whole("m2"), Slice("s", 1, 1)>>, <<>>)
        @@ "late" :> Reg("late", 2, Whole("m1")) @@ "lost" :> One("", 2, Whole("h1"))
        \* a register of two parts, read whole and by part
        @@ "p[2:1]" :> PartReg("p", 3, 2, 1, Whole("a"))
        @@ "p[0:0]" :> PartReg("p", 3, 0, 0, Slice("k", 1, 1))
        @@ "p" :> Nod("cat", "", 3, <<Direct("p[2:1]", 2, 1), Direct("p[0:0]", 0, 0)>>, <<>>)
        @@ "part" :> Two("+", 3, Direct("p[2:1]", 2, 1), Slice("p", 1, 0))
        @@ "sel" :> Nod("sel", "", 2, <<Whole("p"), Slice("a", 0, 0)>>, <<>>)
        @@ "pick" :> Nod("case", "", 2,
             <<Whole("s"), Slice("p", 1, 0), Slice("p", 2, 1), Whole("r")>>, <<0, 1>>)
        @@ "rom" :> Nod("switch", "", 2, <<Whole("k")>>,
             <<<<TRUE, TRUE>>, <<FALSE, TRUE>>, <<TRUE, FALSE>>, <<FALSE, FALSE>>>>)
        @@ "ram" :> Nod("mem", "", 2, <<>>, [ins |-> "ram", port |-> "out"])
        @@ "sum" :> Two("+", 2, Whole("ram"), Whole("late"))
        @@ "top bit" :> Signed(">>>", 1, Whole("a"), Whole("ram"))
        \* an array with a write that depends on a read, read again later
        @@ "arr" :> Nod("write", "", 2, <<Slice("a", 0, 0), Whole("b"), Whole("old")>>, <<>>)
        @@ "old" :> Nod("dynsel", "", 2, <<Whole("b")>>, "arr")
        @@ "ld" :> Nod("dynsel", "", 2, <<Whole("a")>>, "arr")
        @@ "read" :> Two("^", 2, Whole("ld"), Whole("held")) @@ "held" :> Reg("held", 2, Whole("ld"))
        @@ "box" :> Nod("bb", "", 2, <<Whole("a"), Whole("s")>>, [fn |-> <<"box", "o">>, delay |-> <<1, 0>>])
        @@ "boxed" :> Reg("boxed", 2, Whole("box"))
        @@ "x" :> Two("|", 2, Whole("b"), Whole("s")) @@ "y" :> Out("only", "g", 2)
        @@ Zoo @@ SignedZoo @@ OneZoo

MCNode   == "top" :> TopM @@ "cell" :> Cell @@ "alu" :> Alu @@ "sole" :> Sole
MCInputs == "sole" :> <<"e", "f">> @@ "top" :> <<"a", "b", "rst">> @@ "cell" :> <<"d", "rst">> @@ "alu" :> <<"x", "y">>
MCRegs   == "top" :> ("r" :> 2 @@ "s" :> 2 @@ "p" :> 3 @@ "late" :> 2 @@ "rom" :> 2
                      @@ "held" :> 2 @@ "boxed" :> 2)
            @@ "sole" :> ("g" :> 2 @@ "back" :> 2) @@ "cell" :> ("q" :> 2) @@ "alu" :> <<>>
MCMemOuts == "top" :> {[ins |-> "ram", port |-> "out", w |-> 2]} @@ [m \in {"cell", "alu", "sole"} |-> {}]
MCInsMod == "top" :> ("u" :> "alu" @@ "c1" :> "cell" @@ "c2" :> "cell" @@ "only" :> "sole")
            @@ "sole" :> ("u" :> "alu") @@ "cell" :> ("u" :> "alu") @@ "alu" :> <<>>
MCConn   == "top" :> ("u" :> ("x" :> Whole("a") @@ "y" :> Whole("w1"))
                      @@ "only" :> ("e" :> Whole("x") @@ "f" :> Whole("y"))
                      @@ "c1" :> ("d" :> Whole("w2") @@ "rst" :> Whole("rst"))
                      @@ "c2" :> ("d" :> Slice("p", 2, 1) @@ "rst" :> Whole("rst")))
            @@ "cell" :> ("u" :> ("x" :> Whole("d") @@ "y" :> Lit(<<TRUE, FALSE>>)))
            @@ "alu" :> <<>> @@ "sole" :> ("u" :> ("x" :> Whole("e") @@ "y" :> Whole("g")))
MCFirstWire == "sole" :> ("e" :> "x" @@ "f" :> "y") @@ "cell" :> ("d" :> "w2" @@ "rst" :> "rst")
               @@ "alu" :> ("x" :> "a" @@ "y" :> "w1")
MCParent == "sole" :> [in |-> "top", ins |-> "only"] @@ "cell" :> [in |-> "top", ins |-> "c1"]
            @@ "alu" :> [in |-> "top", ins |-> "u"]
MCRst    == "sole" :> "" @@ "top" :> "rst" @@ "cell" :> "rst" @@ "alu" :> ""

Given(n) == [dirty |-> FALSE, pieces |-> <<[w |-> 2, bits |-> Word(n, 2)]>>]
Low      == [dirty |-> FALSE, pieces |-> <<[w |-> 1, bits |-> <<FALSE>>]>>]
X        == [dirty |-> FALSE, pieces |-> <<>>]
Mixed    == [dirty |-> FALSE, pieces |-> <<[w |-> 1, bits |-> <<>>], [w |-> 1, bits |-> <<TRUE>>]>>]
Dirty    == [dirty |-> TRUE,  pieces |-> <<>>]
Words2(a, b) == "a" :> a @@ "b" :> b @@ "rst" :> <<Low, Low>>
MCInstrs == { [len |-> 1, word |-> Words2(<<Mixed, X>>, <<Given(3), X>>)],
              [len |-> 2, word |-> Words2(<<Given(1), X>>, <<X, Dirty>>)] }
MCNop    == "b" :> Given(2).pieces @@ "rst" :> Low.pieces
MCRst0   == <<"top", "s">> :> Word(2, 2)
Alone(m, v) == [in |-> m, dests |-> <<v>>]
MCJobs == {Alone("top", v) :
             v \in {"z", "lost", "r", "p", "part", "sel", "pick", "rom", "sum", "top bit",
                   "read", "boxed"} \cup DOMAIN Zoo \cup DOMAIN SignedZoo \cup DOMAIN OneZoo}
          \cup {Alone("sole", "g"), Alone("sole", "back"), [in |-> "top", dests |-> <<"late", "r", "s">>]}

\* There is no loop within a cycle: a name's place in what is read at once.
Chains == "top" :> <<"w1", "w2", "k", "m1", "p", "m2", "arr", "old", "ld", "h1">>
          @@ "cell" :> <<"n", "m">> @@ "alu" :> <<"o1", "o2">> @@ "sole" :> <<"n", "v">>
Leaves == {"in", "reg", "mem", "switch"}
RankOf(m, v) == IF MCNode[m][v].kind \in Leaves THEN 0
               ELSE IF v \in Range(Chains[m]) THEN CHOOSE k \in DOMAIN Chains[m] : Chains[m][k] = v
               ELSE 1 + Len(Chains[m])
ReadAtOnce == "alu" :> [v \in DOMAIN Alu |-> IF v \in {"o1", "x"} THEN {"x"} ELSE {"y"}]
              @@ "cell" :> [v \in DOMAIN Cell |-> IF v \in {"n", "m", "d"} THEN {"d"} ELSE IF v = "q" THEN {} ELSE {"rst"}]
              @@ "sole" :> [v \in DOMAIN Sole |-> IF v \in {"e", "v"} THEN {"e"} ELSE IF v = "f" THEN {"f"} ELSE {}]
              @@ "top" :> [v \in DOMAIN TopM |-> Range(MCInputs["top"])]
ASSUME Acyclic([rank |-> [m \in DOMAIN MCNode |-> [v \in DOMAIN MCNode[m] |-> RankOf(m, v)]], reads |-> ReadAtOnce])
LateJob == {Alone("top", "late")}
FlatJob == {Alone("top", "z")}
=============================================================================
