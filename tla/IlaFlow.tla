------------------------------ MODULE IlaFlow ------------------------------
(***************************************************************************)
(* The flow of make_simulations.txt, one tool after the other: test_gen    *)
(* draws tests from instr.txt and writes tb.txt, sim_gen prints ila.cpp,   *)
(* which is compiled and run, tb_gen prints a test bench, the RTL runs     *)
(* under it, and cmp compares what the two printed.  For a design that     *)
(* fetches its instructions, ila.cpp and the RTL run the same memory       *)
(* image instead.  The RTL and the update functions are external.          *)
(***************************************************************************)
EXTENDS InstrFile, IlaProgram

CONSTANTS Fn(_, _, _),      \* the update functions: Fn(instr, target, args)
          RtlFn(_, _, _),   \* what the RTL does
          Setups,           \* the files a user may have, with g_design
          TestNum,          \* bound: number of instructions, argument of test_gen
          Uint,             \* scaled: 2^32, the numbers of a uint32_t
          Long              \* scaled: 2^63, the numbers of a long int that are not negative

\* The scale keeps what the widths are to each other, and 75, the number cmp makes of a brace.
ASSUME UintAssumption == Uint \in Nat /\ Uint % 2 = 0 /\ Uint > 75
ASSUME LongAssumption == Long \in Nat /\ Long % Uint = 0 /\ Long > Uint

VARIABLES files, phase,
          tb, drawn, mk, regValue,     \* test_gen: tb.txt, instructions drawn, locals, regValueMap
          sg, job,                     \* sim_gen: files and blocks; what the tests ask for
          prog, cv, pos, out,          \* ila.cpp: the program, C variables, program counter, output
          bench, bpc, inputs, hw, rtlOut,   \* test bench, next statement, inputs, RTL and its output
          cols,                        \* cmp: the values read so far, the line of the output
          report                       \* differences cmp reports

reader  == <<text, rd, tab>>
testgen == <<tb, drawn, mk, regValue>>
sim     == <<sg, job, prog, cv, pos, out>>
rtl     == <<bench, bpc, inputs, hw, rtlOut>>
vars    == <<files, phase, reader, testgen, sim, rtl, cols, report>>

Design == files.design
Fetch  == Design = "PICO"       \* g_fetch_instr_from_mem
Tests  == ReadToDo(tb)
Idle   == [idx |-> 0, cyc |-> 0, left |-> <<>>]

Init ==
  /\ files \in Setups
  /\ text = files.text /\ ReaderInit
  /\ phase = "read"
  /\ tb = <<>> /\ drawn = <<>> /\ mk = Idle /\ regValue = <<>>
  /\ sg = <<>> /\ job = <<>> /\ prog = <<>> /\ cv = <<>> /\ pos = <<0, 0, 0>> /\ out = <<>>
  /\ bench = <<>> /\ bpc = 1 /\ inputs = <<>> /\ hw = <<>> /\ rtlOut = <<>>
  /\ cols = [rtl |-> <<>>, ila |-> <<>>, at |-> 1] /\ report = {}

Reading == /\ phase = "read" /\ ReadLine
           /\ UNCHANGED <<files, phase, testgen, sim, rtl, cols, report>>

\* The end of instr.txt; every tool reads it anew and gets the same tables.
EndOfFile == /\ phase = "read"
             /\ rd.dead \/ rd.at > Len(text)
             /\ phase' = IF Read THEN "draw" ELSE "stopped"
             /\ UNCHANGED <<files, reader, testgen, sim, rtl, cols, report>>

-----------------------------------------------------------------------------
(* test_gen *)

NoteLine(name)      == [k |-> "note", name |-> name]
CycleLine           == [k |-> "cycle"]
WordLine(var, word) == [k |-> "word", var |-> var, word |-> word]

\* instrEncoding.begin()->second.size()
InstrLen(enc) == Len(enc[Sorted(DOMAIN enc)[1]])

MakeInstr ==
  /\ phase = "draw" /\ mk = Idle /\ Len(drawn) < TestNum
  /\ \E i \in DOMAIN tab.instrs :
       /\ drawn' = Append(drawn, i)
       /\ mk' = [idx |-> i, cyc |-> 1, left |-> Sorted(DOMAIN tab.instrs[i].enc)]
       /\ tb' = tb \o <<NoteLine(tab.instrs[i].name), CycleLine>>
  /\ UNCHANGED <<files, phase, reader, regValue, sim, rtl, cols, report>>

\* For a design that keeps the word on its input for some cycles, the later cycles repeat the first.
ToAssign(v) == IF Fetch /\ mk.cyc > 1 THEN regValue[v] ELSE tab.instrs[mk.idx].enc[v][mk.cyc]

AssignInstrValue ==
  /\ phase = "draw" /\ mk.left # <<>>
  /\ LET v == Head(mk.left) IN
     \E word \in ReplaceX(Design, ToAssign(v)) :
       /\ tb' = Append(tb, WordLine(v, word))
       /\ regValue' = Assigned(regValue, v, word)
  /\ mk' = [mk EXCEPT !.left = Tail(@)]
  /\ UNCHANGED <<files, phase, reader, drawn, sim, rtl, cols, report>>

\* A Z before the field that gives it its value.
DrawFails == /\ phase = "draw" /\ mk.left # <<>>
             /\ ReplaceX(Design, ToAssign(Head(mk.left))) = {}
             /\ phase' = "stopped"
             /\ UNCHANGED <<files, reader, testgen, sim, rtl, cols, report>>

NextWord ==
  /\ phase = "draw" /\ mk # Idle /\ mk.left = <<>>
  /\ IF mk.cyc < InstrLen(tab.instrs[mk.idx].enc)
     THEN /\ mk' = [mk EXCEPT !.cyc = @ + 1, !.left = Sorted(DOMAIN tab.instrs[mk.idx].enc)]
          /\ tb' = Append(tb, CycleLine)
     ELSE mk' = Idle /\ UNCHANGED tb
  /\ UNCHANGED <<files, phase, reader, drawn, regValue, sim, rtl, cols, report>>

-----------------------------------------------------------------------------
(* What the tests ask for: the job of the abstract ILA *)

\* v is updated by the function of s: its own, or the one VarMap gives it.
Updates(i) ==
  LET info == tab.instrs[i]
      srcs == DOMAIN sg.types[i] \ files.skipped
      given == UNION {info.map[s] : s \in srcs \cap DOMAIN info.map}
  IN {<<v, s>> \in (DOMAIN files.asv) \X srcs :
        IF s \in DOMAIN info.map THEN v \in info.map[s] ELSE v = s /\ v \notin given}

StepOf(i, word) ==
  LET info == tab.instrs[i] IN
  [name |-> info.name, word |-> word, load |-> info.load, next |-> info.iaddr,
   addr |-> IF info.daddr = {} THEN "" ELSE CHOOSE d \in info.daddr : TRUE,
   upd  |-> [v \in {u[1] : u \in Updates(i)} |->
               LET s == CHOOSE s \in DOMAIN sg.types[i] : <<v, s>> \in Updates(i)
               IN [src |-> s, args |-> sg.types[i][s].args]]]

Operands(test) == [v \in DOMAIN test |-> SingleApint(test[v][1]).v]

JobOf(mem) == [steps |-> [k \in 1..TestNum |-> StepOf(drawn[k], Operands(sg.tests[k]))],
               rst   |-> [v \in DOMAIN files.asv |-> RstOf(files.rst, v)],
               mem   |-> mem, fetch |-> Fetch, runs |-> TestNum]

-----------------------------------------------------------------------------
(* sim_gen and the program it prints, with PRINT_ALL set *)

Line(name, val) == [k |-> "value", name |-> name, v |-> val]

\* A number printed is digits, a minus sign with digits, or the words of a long one in braces.
Digits(v) == [k |-> "digits", v |-> v]
Minus     == [k |-> "minus"]
Braces    == [k |-> "braces"]

\* build_printf: %d and %ld take the word as signed.
Printed(w, v) == CASE w > 64                                   -> Braces
                   [] v >= (IF w <= 32 THEN Uint \div 2 ELSE Long) -> Minus
                   [] OTHER                                    -> Digits(v)
Shown(s, c) == Line(s.dst, Printed(s.w, c[s.src]))
ShowAll(stmts, c) == [n \in DOMAIN stmts |-> Shown(stmts[n], c)]

ReadSimFiles ==
  /\ phase = "draw" /\ mk = Idle /\ Len(drawn) = TestNum
  /\ sg' = SimFiles(tab.instrs, Tests, files)
  /\ phase' = IF sg'.dead \/ (Fetch /\ \E k \in 1..TestNum : "mem_rdata" \notin DOMAIN sg'.tests[k])
              THEN "stopped" ELSE "gen"
  /\ UNCHANGED <<files, reader, testgen, job, prog, cv, pos, out, rtl, cols, report>>

\* An instruction func_info.txt has no function for stops sim_gen.
DecodeTest ==
  /\ phase = "gen" /\ sg.instr = 0 /\ Len(sg.blocks) < TestNum
  /\ LET i == Decode(tab.instrs, sg.tests[Len(sg.blocks) + 1])
     IN IF i = 0 \/ sg.types[i] = <<>> THEN phase' = "stopped" /\ UNCHANGED sg
        ELSE sg' = [sg EXCEPT !.instr = i] /\ UNCHANGED phase
  /\ UNCHANGED <<files, reader, testgen, job, prog, cv, pos, out, rtl, cols, report>>

PrintInstrCalls ==
  /\ phase = "gen" /\ sg.instr # 0
  /\ LET info  == tab.instrs[sg.instr]
         types == sg.types[sg.instr]
         calls == InstrCalls(info, types, sg.tests[Len(sg.blocks) + 1],
                             FuncCalls(info, types, files.skipped), sg.arrs, sg.refine)
     IN sg' = [sg EXCEPT !.instr = 0,
                         !.blocks = Append(@, IF Fetch THEN calls \o UpdateAllAsvs(files.asv) ELSE calls)]
  /\ UNCHANGED <<files, phase, reader, testgen, job, prog, cv, pos, out, rtl, cols, report>>

\* ila.cpp is complete; the compiler accepts it and the program starts, or the flow ends.
Compile ==
  /\ phase = "gen" /\ sg.instr = 0 /\ Len(sg.blocks) = TestNum
  /\ prog' = [decl   |-> Declared(files.asv, files.rst),
              prints |-> InitialPrints(files.asv, sg.refine),
              blocks |-> sg.blocks, fetch |-> Fetch, mem |-> MemOf(Fetch, sg.tests, files),
              types  |-> sg.types]
  /\ IF Compiles(prog')
     THEN /\ phase' = "run" /\ cv' = prog'.decl /\ pos' = <<1, 1, 1>>
          /\ out' = ShowAll(prog'.prints, prog'.decl) /\ job' = JobOf(prog'.mem)
     ELSE phase' = "stopped" /\ UNCHANGED <<cv, pos, out, job>>
  /\ UNCHANGED <<files, reader, testgen, sg, rtl, cols, report>>

Block == prog.blocks[pos[2]]
S     == Block[pos[3]]
Slot(v) == ((v \div 4) % Len(drawn)) + 1        \* (x >> 2) % memSize
Running(op) == phase = "run" /\ pos[3] <= Len(Block) /\ S.op = op

Value(arg) == IF arg.k = "lit" THEN arg.v ELSE cv[arg.v]
Store(x, v) == cv' = [cv EXCEPT ![x] = v]
Advance == pos' = [pos EXCEPT ![3] = @ + 1] /\ UNCHANGED <<files, phase, reader, testgen, sg, job, prog, rtl, cols, report>>

DoNote  == Running("note") /\ out' = Append(out, NoteLine(S.dst)) /\ UNCHANGED cv /\ Advance
\* Through the wrapper func_extract put around the function.
DoCall  == /\ Running("call")
           /\ LET type  == prog.types[ByName(tab.instrs, S.fn[1])][S.fn[2]]
                  main  == files.fns[S.fn[1]][S.fn[2]]
                  slots == Passed(type, S.dst, [n \in DOMAIN S.args |-> Value(S.args[n])])
                  got   == Delivered(main, type, S.dst, slots,
                                     Fn(S.fn[1], S.fn[2], MainArgs(main, slots)))
              IN Store(got[1], got[2])
           /\ UNCHANGED out /\ Advance
DoSet   == Running("set") /\ Store(S.dst, cv[S.src]) /\ UNCHANGED out /\ Advance
DoLoad  == Running("load") /\ Store(DataIn, prog.mem[Slot(cv[DataAddr])]) /\ UNCHANGED out /\ Advance
DoPrint == Running("print") /\ out' = Append(out, Shown(S, cv)) /\ UNCHANGED cv /\ Advance

\* The next test, or with instructions fetched from memory the one zy_instr_addr selects.
EndOfBlock ==
  /\ phase = "run" /\ pos[3] > Len(Block)
  /\ IF pos[1] = TestNum THEN phase' = "bench" /\ UNCHANGED pos
     ELSE /\ pos' = <<pos[1] + 1, IF prog.fetch THEN Slot(cv[InstrAddr]) ELSE pos[2] + 1, 1>>
          /\ UNCHANGED phase
  /\ UNCHANGED <<files, reader, testgen, sg, job, prog, cv, out, rtl, cols, report>>

-----------------------------------------------------------------------------
(* The program implements the abstract ILA *)

\* The registers change, for the ILA, when the last function of the instruction has been called.
Working == phase = "run" /\ pos[3] <= Len(Block)
Called  == \A n \in pos[3]..Len(Block) : Block[n].op # "call"
Sets(x) == \E n \in DOMAIN Block : Block[n].op \in {"set", "load"} /\ Block[n].dst = x
RegsBar == IF job = <<>> THEN <<>>
           ELSE [v \in DOMAIN files.asv |->
                   cv[IF Working /\ Called /\ Sets(Cur(v)) THEN Nxt(v) ELSE Cur(v)]]
DinBar  == IF job = <<>> THEN 0
           ELSE IF Working /\ Called /\ Sets(DataIn) THEN prog.mem[Slot(cv[DataAddr])] ELSE cv[DataIn]
Past    == pos[3] > Len(Block) \/ Called
DoneBar == IF job = <<>> THEN 0 ELSE IF Past THEN pos[1] ELSE pos[1] - 1
AtBar   == CASE job = <<>> -> 1
             [] ~prog.fetch -> DoneBar + 1
             [] ~Past       -> pos[2]
             [] OTHER       -> Slot(cv[InstrAddr])

I == INSTANCE Ila WITH regs <- RegsBar, din <- DinBar, at <- AtBar, done <- DoneBar
R == INSTANCE Ila WITH Fn <- RtlFn, regs <- RegsBar, din <- DinBar, at <- AtBar,
                       done <- DoneBar

-----------------------------------------------------------------------------
(* tb_gen and the RTL *)

Drive(var, word) == [op |-> "drive", var |-> var, word |-> word]
Flag(b)          == [op |-> "flag", var |-> "INSTR_IN_ZY", word |-> <<Field(0, "plain", b)>>]
Clock            == [op |-> "clock"]
Issue            == [op |-> "issue"]

AssignInstr(test) ==
  LET i    == Decode(tab.instrs, test)
      cyc(c) == Flat(Sorted(DOMAIN test), LAMBDA v : <<Drive(v, test[v][c])>>) \o <<Clock>>
  IN <<Issue, Flag(1)>>
       \o FlattenSeq([c \in 1..InstrLen(tab.instrs[i].enc) |-> cyc(c)]) \o <<Flag(0)>>

\* Registers cleared, NOP on the inputs during the reset, the tests, one more issue, $finish.
BenchOf(tests) ==
  <<[op |-> "clear"]>>
    \o Flat(Sorted(DOMAIN tab.nop \ {tab.clk, tab.rstn}), LAMBDA v : <<Drive(v, tab.nop[v])>>)
    \o <<Flag(0), [op |-> "reset"]>> \o Flat(tests, AssignInstr) \o <<Issue>>

WriteBench == /\ phase = "bench" /\ bench = <<>> /\ ~Fetch
              /\ bench' = BenchOf(Tests)
              /\ UNCHANGED <<files, phase, reader, testgen, sim, bpc, inputs, hw, rtlOut, cols, report>>

\* Values the RTL prints at every issue, names as instr.txt and asv_info.txt write them.
Display(rs) == LET vs == Sorted(DOMAIN rs) IN [n \in DOMAIN vs |-> Line(vs[n], Digits(rs[vs[n]]))]

\* External: the RTL takes the word that is on its inputs in the first cycle of an instruction.
FirstWord(i) == \A v \in DOMAIN tab.instrs[i].enc :
                  v \in DOMAIN inputs /\ IsCompatible(<<tab.instrs[i].enc[v][1]>>, <<inputs[v]>>)
Taken == LET i == CHOOSE i \in DOMAIN tab.instrs : FirstWord(i)
         IN StepOf(i, [v \in DOMAIN inputs |-> SingleApint(inputs[v]).v])
Issued == inputs["INSTR_IN_ZY"][1].v = 1

B == bench[bpc]
Simulating(op) == phase = "bench" /\ bpc <= Len(bench) /\ B.op = op
Onward == bpc' = bpc + 1 /\ UNCHANGED <<files, phase, reader, testgen, sim, bench, cols, report>>

ClearRegs == /\ Simulating("clear")
             /\ hw' = [s |-> R!Start([job EXCEPT !.rst = [v \in DOMAIN @ |-> 0]]), busy |-> FALSE]
             /\ UNCHANGED <<inputs, rtlOut>> /\ Onward
ResetRtl  == /\ Simulating("reset") /\ hw' = [hw EXCEPT !.s = R!Start(job)]
             /\ UNCHANGED <<inputs, rtlOut>> /\ Onward
DriveInput == /\ Simulating("drive") \/ Simulating("flag")
              /\ inputs' = Assigned(inputs, B.var, B.word)
              /\ hw' = IF B.op = "flag" THEN [hw EXCEPT !.busy = FALSE] ELSE hw
              /\ UNCHANGED rtlOut /\ Onward
ClockTick == /\ Simulating("clock")
             /\ hw' = IF Issued /\ ~hw.busy
                      THEN [s |-> R!After([job EXCEPT !.steps[hw.s.at] = Taken], hw.s), busy |-> TRUE]
                      ELSE hw
             /\ UNCHANGED <<inputs, rtlOut>> /\ Onward
IssueInstr == /\ Simulating("issue") /\ rtlOut' = rtlOut \o Display(hw.s.regs)
              /\ UNCHANGED <<inputs, hw>> /\ Onward

\* External: the RTL runs the memory image; it prints at every instruction it fetches.
RunImage ==
  /\ phase = "bench" /\ Fetch /\ bpc <= TestNum + 1
  /\ LET s == IF hw = <<>> THEN R!Start(job) ELSE R!After(job, hw.s)
     IN hw' = [s |-> s, busy |-> FALSE] /\ rtlOut' = rtlOut \o Display(s.regs)
  /\ bpc' = bpc + 1
  /\ UNCHANGED <<files, phase, reader, testgen, sim, bench, inputs, cols, report>>

EndOfBench == /\ phase = "bench"
              /\ IF Fetch THEN bpc > TestNum + 1 ELSE bench # <<>> /\ bpc > Len(bench)
              /\ phase' = "cmp"
              /\ UNCHANGED <<files, reader, testgen, sim, rtl, cols, report>>

-----------------------------------------------------------------------------
(* cmp *)

Longest(cs) == Max({0} \cup {Len(cs[v]) : v \in DOMAIN cs})

\* Mutant of Align: a variable an instruction does not print counts as 0.
AlignZero(cs) == [v \in DOMAIN cs |-> IF Len(cs[v]) < Longest(cs) THEN Append(cs[v], 0) ELSE cs[v]]

\* align_map_size: the last value stands for one the instruction did not print.
Align(cs) == [v \in DOMAIN cs |-> IF Len(cs[v]) < Longest(cs) THEN Append(cs[v], cs[v][Len(cs[v])])
                                  ELSE cs[v]]

\* to_int: a number goes through a long int into a uint32_t; of any other text the first
\* character counts, '-' for -3 and '{' for 75.
ToInt(t) == CASE t.k = "digits" -> t.v % Uint
              [] t.k = "minus"  -> Uint - 3
              [] t.k = "braces" -> 75

\* Only names asv_info.txt has, once converted, are kept.
Kept == SelectSeq(rtlOut, LAMBDA l : l.name \in {CName(v) : v \in DOMAIN files.asv})

ReadRtlValues ==
  /\ phase = "cmp" /\ cols.rtl = <<>>
  /\ \A n \in DOMAIN Kept : Kept[n].v.v < Long
  /\ LET column(v) == SelectSeq(Kept, LAMBDA l : l.name = v)
     IN cols' = [cols EXCEPT !.rtl = [v \in {Kept[n].name : n \in DOMAIN Kept} |->
                                        [n \in DOMAIN column(v) |-> ToInt(column(v)[n].v)]]]
  /\ UNCHANGED <<files, phase, reader, testgen, sim, rtl, report>>

\* stol throws on a number a long int does not hold.
OutOfRange == /\ phase = "cmp" /\ cols.rtl = <<>>
              /\ \E n \in DOMAIN Kept : Kept[n].v.v >= Long
              /\ phase' = "stopped"
              /\ UNCHANGED <<files, reader, testgen, sim, rtl, cols, report>>

\* One line of the output of the program; the name of the next instruction ends a row.
ReadIlaValue ==
  /\ phase = "cmp" /\ cols.at <= Len(out)
  /\ LET l == out[cols.at] IN
     cols' = [cols EXCEPT !.at = @ + 1,
                          !.ila = IF l.k = "note" THEN Align(@)
                                  ELSE Assigned(@, l.name, Append(At(@, l.name, <<>>), ToInt(l.v)))]
  /\ UNCHANGED <<files, phase, reader, testgen, sim, rtl, report>>

\* compare_results: the first item is the state before any instruction; a register the program
\* never printed aborts.
Compare ==
  /\ phase = "cmp" /\ cols.rtl # <<>> /\ cols.at > Len(out)
  /\ LET r == cols.rtl
         l == Align(cols.ila)
         len == Min({Longest(r), Longest(l)})
         compared == DOMAIN r \ {CName(x) : x \in files.ignored}
     IN IF len > 1 /\ ~(compared \subseteq DOMAIN l)
        THEN phase' = "stopped" /\ UNCHANGED report
        ELSE /\ report' = {<<v, k>> \in compared \X (1..(len - 1)) : r[v][k + 1] # l[v][k + 1]}
             /\ phase' = "done"
  /\ UNCHANGED <<files, reader, testgen, sim, rtl, cols>>

\* All tools have run, or one of them gave up.
Finished == phase \in {"done", "stopped"} /\ UNCHANGED vars

Next ==
  \/ Reading \/ EndOfFile
  \/ MakeInstr \/ AssignInstrValue \/ DrawFails \/ NextWord
  \/ ReadSimFiles \/ DecodeTest \/ PrintInstrCalls \/ Compile
  \/ DoNote \/ DoCall \/ DoSet \/ DoLoad \/ DoPrint \/ EndOfBlock
  \/ WriteBench \/ ClearRegs \/ ResetRtl \/ DriveInput \/ ClockTick \/ IssueInstr
  \/ RunImage \/ EndOfBench \/ ReadRtlValues \/ OutOfRange \/ ReadIlaValue \/ Compare \/ Finished

Spec == Init /\ [][Next]_vars

-----------------------------------------------------------------------------
(* Properties *)

\* Every instruction of instr.txt is read with the words of all its cycles, its delay, addresses,
\* data and mappings, and nothing of another's: a directive counts for the last instruction whose
\* words have begun.  The NOP word of a signal is the first one given.
ReadAsWritten == phase = "read" => AsWritten

\* No test of instruction j can be taken for one of i.
Apart(f, g) == \/ ~Open(f) /\ ~Open(g) /\ f.v # g.v
               \/ Open(f) /\ g.k # "plain" /\ f.w # g.w
Distinct(i, j) ==
  \E v \in DOMAIN tab.instrs[j].enc :
    LET a == WordsFor(tab.instrs[i].enc, v)
        b == tab.instrs[j].enc[v]
    IN Len(a) = Len(b) => \E c \in DOMAIN a :
         Len(a[c]) = Len(b[c]) => \E n \in DOMAIN a[c] : Apart(a[c][n], b[c][n])

\* word is one of those asked for: the fields given are kept, the others fit their width and stand
\* in the relation asked for.
Instance(asked, word) ==
  /\ Len(asked) = Len(word)
  /\ \A n \in DOMAIN word : IF Open(asked[n]) THEN word[n].w = asked[n].w /\ word[n].v < 2^word[n].w
                             ELSE word[n] = asked[n]
  /\ \A n, m \in DOMAIN word : asked[n].k \in {"Zp", "Zm"} /\ asked[m].k = "Z" =>
       word[n].v = word[m].v + (IF asked[n].k = "Zp" THEN asked[n].v ELSE -asked[n].v)

\* Every test of tb.txt is a word of the instruction it was drawn for, cycle by cycle, and every
\* tool that reads tb.txt decodes it to that instruction, unless an earlier instruction of
\* instr.txt admits the same words, or cannot be compared with them.
TestsDecode ==
  phase = "draw" /\ mk = Idle =>
    \A k \in DOMAIN drawn :
      LET enc == tab.instrs[drawn[k]].enc
          test == Tests[k]
      IN /\ DOMAIN test = DOMAIN enc
         /\ \A v \in DOMAIN enc : /\ Len(test[v]) = Len(enc[v])
                                  /\ \A c \in DOMAIN test[v] :
                                       Instance(enc[v][IF Fetch THEN 1 ELSE c], test[v][c])
         /\ (\A i \in 1..(drawn[k] - 1) : Distinct(i, drawn[k])) =>
              Decode(tab.instrs, test) = drawn[k]

\* The program sim_gen prints runs the tests as the ILA promises: each instruction's functions see
\* the registers as they were before it, none sees a value another has just produced, a mapped
\* variable gets its source's value, and the next instruction is the next test or the one fetched.
ImplementsIla == I!Spec

History(After(_, _)) ==
  LET h[k \in 0..TestNum] == IF k = 0 THEN I!Start(job) ELSE After(job, h[k - 1])
  IN h

\* The k-th value cmp takes for a register is, on both sides, the one after k instructions: for a
\* register of up to 32 bits a difference is reported exactly where the RTL goes other ways than
\* the update functions, for one of up to 64 bits exactly where their lower 32 bits differ, so
\* nothing is reported that is not a difference.  This is said of values the program prints
\* without a sign, not of registers above 64 bits, and not of registers of sub-modules, whose
\* names are converted on one side only.
VerdictRight ==
  phase = "done" /\ files.refine = <<>> =>
    LET ila == History(I!After)
        hwd == History(R!After)
        cmp == {v \in DOMAIN files.asv \ files.ignored : CName(v) = v}
        plain == {<<v, k>> \in cmp \X (1..TestNum) :
                    Printed(files.asv[v], ila[k].regs[v]).k = "digits"}
        differ(v, k) == IF files.asv[v] <= 32 THEN ila[k].regs[v] # hwd[k].regs[v]
                        ELSE ila[k].regs[v] % Uint # hwd[k].regs[v] % Uint
    IN /\ report \subseteq cmp \X (1..TestNum)
       /\ report \cap plain = {p \in plain : differ(p[1], p[2])}
=============================================================================
