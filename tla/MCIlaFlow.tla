----------------------------- MODULE MCIlaFlow -----------------------------
(***************************************************************************)
(* Instance of IlaFlow: a two-instruction machine as a design whose        *)
(* instructions come on its inputs and as one that fetches them, a machine *)
(* that loads data and maps variables, and files the tools give up on.     *)
(***************************************************************************)
EXTENDS IlaFlow

\* Lines of instr.txt.
Clk       == <<[k |-> "clk", v |-> "clk"], [k |-> "rst", v |-> "rstn"]>>
Sect(s)   == [k |-> "head", s |-> s]
Nm(v)     == [k |-> "name", v |-> v, mod |-> ""]
In_(v, w) == [k |-> "word", var |-> v, word |-> w]
Cyc       == [k |-> "cycle"]
Ins(v)    == [k |-> "instr", name |-> v]
Reg(v, d) == [k |-> "reg", v |-> v, delay |-> d, skip |-> FALSE]
X(w)      == Field(w, "x", 0)
Common    == Clk \o <<Sect("TOP"), Nm("cpu"), Sect("INVAR"), Nm("mode"),
                      [k |-> "name", v |-> "cfg", mod |-> "alu"],
                      Sect("NOP"), In_("ready", <<Num(1, 0)>>), In_("word", <<Field(0, "plain", 0)>>),
                      In_("ready", <<Num(1, 1)>>), Sect("RESET"), In_("acc", <<Num(2, 1)>>)>>

\* A main function for t: the registers have the widths of asv, the inputs three bits.
Main(asv, t, args) ==
  LET width(v) == IF v \in DOMAIN asv THEN asv[v] ELSE 3
  IN t :> [array |-> FALSE, ret |-> width(t), args |-> args,
           widths |-> [n \in DOMAIN args |-> width(args[n])]]

Setup(design, lines, asv, fns) ==
  [design |-> design, text |-> lines, asv |-> asv, fns |-> fns, refine |-> <<>>,
   skipped |-> {}, mem |-> <<>>, rst |-> "acc" :> 1, ignored |-> {}]

\* "mov" takes two cycles, "jmp" two; the delay before the words of "jmp" is taken for "mov".
MoveJump(w, last) ==
  Common \o
  <<Ins("mov"), In_("mem_rdata", <<Num(1, 0), X(w)>>), In_("ready", <<Num(1, 1)>>),
    Cyc, In_("mem_rdata", <<Num(1, 0), X(w)>>), In_("ready", <<Num(1, 1)>>),
    [k |-> "delay", n |-> 2, ex |-> <<>>], [k |-> "iaddr", v |-> "pc"],
    Sect("W"), Reg("acc", 1), [k |-> "vec", regs |-> <<"r0", "r1">>, delay |-> 2], Sect("R"), Nm("pc"),
    Ins("jmp"), [k |-> "delay", n |-> 3, ex |-> <<"tmp", 1>>],
    Cyc, In_("mem_rdata", <<Num(1, 1), X(w)>>), In_("ready", <<Num(1, 1)>>),
    Cyc, In_("mem_rdata", <<Num(1, 1), last>>), In_("ready", <<Num(1, 1)>>),
    [k |-> "extra", n |-> 1], [k |-> "iaddr", v |-> "pc"],
    Sect("W"), [Reg("u0.q", 2) EXCEPT !.skip = TRUE],
    Sect("MEM"), Nm("regfile"), Sect("FIFO"), [k |-> "fifo", v |-> "q", n |-> 4]>>
\* Registers that fill a register of the machine, and wider ones that C passes by reference.
MoveJumpAsv == "pc" :> 32 @@ "acc" :> 70 @@ "tmp" :> 64 @@ "u0.q" :> 65
MoveJumpFns ==
  LET F(t, args) == Main(MoveJumpAsv, t, args)
  IN "mov" :> (F("acc", <<"tmp", "mem_rdata", "acc">>) @@ F("tmp", <<"acc">>) @@ F("pc", <<"pc">>))
     @@ "jmp" :> (F("pc", <<"mem_rdata", "tmp">>) @@ F("u0.q", <<"u0.q", "acc">>))

\* "ld" loads from the address it computes, "odd" differs from it in the widths of its fields only,
\* "use" takes the loaded word as the second of two
\* arguments of the same name; the function of "wr" gives "x1" its value.
LoadUse ==
  Common \o
  <<Ins("ld"), In_("cmd", <<Num(1, 1), Field(2, "Zp", 1), Field(2, "Z", 0)>>), In_("sub", <<X(1)>>),
    [k |-> "daddr", v |-> "ad", array |-> FALSE], [k |-> "map", pairs |-> <<<<"ad", "ad">>>>],
    Ins("use"), In_("cmd", <<Num(1, 0), Field(3, "Zm", 1), Field(3, "Z", 0)>>), In_("sub", <<Field(0, "plain", 1)>>),
    [k |-> "need", tgt |-> "acc", arg |-> "acc", idx |-> 2],
    [k |-> "map", pairs |-> <<<<"x1", "wr">>>>],
    Ins("odd"), In_("cmd", <<Num(1, 1), X(3), Num(3, 1)>>), In_("sub", <<Num(1, 1)>>)>>
LoadUseAsv == [v \in {"ad", "acc", "wr", "x1"} |-> 16]
LoadUseFns ==
  LET F(t, args) == Main(LoadUseAsv, t, args)
  IN "ld" :> (F("ad", <<"acc", "sub">>) @@ F("acc", <<"ad", "cmd">>))
     @@ "use" :> (F("acc", <<"acc", "acc">>) @@ F("wr", <<"acc", "x1">>) @@ F("x1", <<"x1">>))
     @@ "odd" :> F("acc", <<"cmd">>)

OnInputs  == Setup("OTHER", MoveJump(2, Num(2, 1)), MoveJumpAsv, MoveJumpFns)
Fetching  == Setup("PICO", MoveJump(5, X(5)), MoveJumpAsv, MoveJumpFns)
Loading   == [Setup("OTHER", LoadUse, LoadUseAsv, LoadUseFns) EXCEPT !.mem = <<2, 3, 1>>]
SomeLeft  == [OnInputs EXCEPT !.text = MoveJump(1, Num(1, 0)), !.skipped = {"tmp"}, !.ignored = {"pc"}]
\* The refinement names the register of the RTL that "tmp" stands for after "mov".
Renamed   == [SomeLeft EXCEPT !.skipped = {}, !.refine = <<[k |-> "instr", name |-> "mov"],
                                           [k |-> "entry", ila |-> "tmp", rtl |-> "tmp_q"]>>]
\* What the tools give up on: sim_gen declares no next value for an array; a directive before any
\* word; an instruction without functions; a target asv_info.txt does not name; a Z without a value;
\* two blocks of loaded data for one target; a plain 2 opposite an open field; a value of the RTL
\* that fills a long int.
Arr       == "Arr" :> [array |-> TRUE, ret |-> 140, args |-> <<"acc", "tmp">>, widths |-> <<70, 64>>]
WithArray == [OnInputs EXCEPT !.fns["jmp"] = Arr @@ @]
TooEarly  == [OnInputs EXCEPT !.text = Clk \o <<Ins("mov"), [k |-> "extra", n |-> 1]>>]
NoFuncs   == [SomeLeft EXCEPT !.fns = "mov" :> Main(MoveJumpAsv, "acc", <<"acc">>)]
NoTarget  == [SomeLeft EXCEPT !.fns = "mov" :> Main(MoveJumpAsv, "r9", <<"acc">>)]
ZFirst    == [Loading EXCEPT !.text = Common \o <<Ins("ld"), In_("cmd", <<Field(3, "Z", 0), Field(3, "Zp", 1)>>)>>]
Twice     == [Loading EXCEPT !.text = Append(@, [k |-> "need", tgt |-> "acc", arg |-> "cmd", idx |-> 1])]

PlainTwo  == [Loading EXCEPT !.fns = "odd" :> Main(LoadUseAsv, "acc", <<"cmd">>),
                             !.text = Common \o
  <<Ins("ld"), In_("cmd", <<Num(1, 1), Field(2, "Zp", 1), Field(2, "Z", 0)>>), In_("sub", <<X(1)>>),
    [k |-> "daddr", v |-> "u0.q", array |-> TRUE],
    Ins("odd"), In_("cmd", <<Num(1, 1), X(2), X(2)>>), In_("sub", <<Field(0, "plain", 2)>>)>>]
AllOnes   == [SomeLeft EXCEPT !.rst = @ @@ "tmp" :> Long]

MCSetups    == {OnInputs, Fetching, Loading, SomeLeft, Renamed, WithArray, TooEarly, Twice,
                NoFuncs, NoTarget, ZFirst, PlainTwo, AllOnes}
MCNameOrder == <<"Arr", "acc", "ad", "cmd", "jmp", "ld", "mem_rdata", "mov", "odd", "pc", "r9", "ready",
                 "sub", "tmp", "u0.q", "use", "word", "wr", "x1">>
MCCNames    == "u0.q" :> "u0_q"

\* Addresses are multiples of 4; those of 32 bits may have the top bit set, those of 64 a bit of
\* the upper half.
MCFn(instr, tgt, args) ==
  LET sum == FoldLeft(LAMBDA a, n : a + n * args[n], Len(args), [n \in DOMAIN args |-> n])
      top(w) == IF sum % 4 = 3 THEN w ELSE 0
  IN CASE tgt = "pc"  -> ((4 * sum) % 16) + top(Uint \div 2)
       [] tgt = "ad"  -> (4 * sum) % 16
       [] tgt = "tmp" -> (sum % 4) + top(Uint)
       [] OTHER       -> sum % 4

\* The RTL computes three targets otherwise, for some values only: the upper half of one, both
\* halves of it, or the whole word.
MCRtlFn(instr, tgt, args) ==
  LET v == MCFn(instr, tgt, args)
  IN CASE instr = "mov" /\ tgt = "acc" /\ v = 3 -> 0
       [] tgt = "tmp" /\ v = 2                  -> v + Uint
       [] tgt = "tmp" /\ v = 1                  -> v + Uint + 1
       [] instr = "mov" /\ tgt = "pc" /\ v = 4  -> 8
       [] instr = "use" /\ tgt = "wr"           -> (v + 1) % 4
       [] OTHER                                 -> v
=============================================================================
