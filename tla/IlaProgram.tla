---------------------------- MODULE IlaProgram ----------------------------
(***************************************************************************)
(* sim_gen: from instr.txt, func_info.txt, asv_info.txt, tb.txt and the    *)
(* optional files it prints ila.cpp, a program that runs the tests one     *)
(* after the other: the update functions of an instruction are called into *)
(* x_nxt, then x = x_nxt for all of them, then their values are printed.   *)
(* A program is kept as its declarations and its statements.               *)
(***************************************************************************)
EXTENDS Encodings

Flat(S, Op(_)) == FlattenSeq([n \in DOMAIN S |-> Op(S[n])])

-----------------------------------------------------------------------------
(* The files read *)

\* The lines with a key in ks from one line to the next of the same kind.
Begin(lines, ks)  == {p \in DOMAIN lines : lines[p].k \in ks}
Opener(lines, ks, p) == Max({q \in Begin(lines, ks) : q < p})
Within(lines, ks, p) == {q \in DOMAIN lines : q > p /\ Opener(lines, ks, q) = p}

\* read_to_do_instr: a comment line starts a test, "var = word" adds a cycle's word.
ReadToDo(lines) ==
  LET notes    == SetToSortSeq(Begin(lines, {"note"}), <)
      words(b) == {q \in Within(lines, {"note"}, b) : lines[q].k = "word"}
      of(b, v) == SetToSortSeq({q \in words(b) : lines[q].var = v}, <)
  IN [n \in DOMAIN notes |->
        [v \in {lines[q].var : q \in words(notes[n])} |->
           LET qs == of(notes[n], v) IN [c \in DOMAIN qs |-> lines[qs[c]].word]]]

\* print_func_info: the main functions func_extract kept, with the arguments and widths LLVM gives them.
PrintFuncInfo(fns) ==
  Flat(Sorted(DOMAIN fns), LAMBDA i :
    <<[k |-> "instr", name |-> i]>> \o
      Flat(Sorted(DOMAIN fns[i]), LAMBDA t :
        LET main == fns[i][t]
        IN <<[k |-> IF main.array THEN "array" ELSE "target", name |-> t]>> \o
             [n \in DOMAIN main.args |->
                [k |-> "arg", name |-> main.args[n], w |-> main.widths[n]]]))

\* read_func_info: types[i][target] is the width returned (0: an array) and the arguments with
\* theirs; a target asv_info.txt does not name stops the program.
ReadFuncInfo(lines, instrs, asv) ==
  LET heads    == {"instr", "target", "array"}
      tgts(i)  == {q \in Begin(lines, {"target", "array"}) :
                     ByName(instrs, lines[Opener(lines, {"instr"}, q)].name) = i}
      args(q)  == SetToSortSeq({a \in Within(lines, heads, q) : lines[a].k = "arg"}, <)
      type(q)  == [ret  |-> IF lines[q].name \in DOMAIN asv THEN asv[lines[q].name] ELSE 0,
                   args |-> LET as == args(q) IN [n \in DOMAIN as |-> lines[as[n]].name],
                   widths |-> LET as == args(q) IN [n \in DOMAIN as |-> lines[as[n]].w]]
  IN [dead  |-> \E q \in Begin(lines, {"target"}) : lines[q].name \notin DOMAIN asv,
      arrs  |-> {lines[q].name : q \in Begin(lines, {"array"})},
      types |-> [i \in DOMAIN instrs |->
                   [t \in {lines[q].name : q \in tgts(i)} |->
                      type(Max({q \in tgts(i) : lines[q].name = t}))]]]

\* A second block for an instruction aborts.
NamedTwice(lines) == \E p, q \in Begin(lines, {"instr"}) : p # q /\ lines[p].name = lines[q].name
\* read_refinement: $instr starts a block, the first entry of a variable stays.
ReadRefinement(lines) ==
  LET entries(i) == {q \in Begin(lines, {"entry"}) : lines[Opener(lines, {"instr"}, q)].name = i}
  IN [i \in {lines[q].name : q \in Begin(lines, {"instr"})} |->
        [v \in {lines[q].ila : q \in entries(i)} |->
           lines[Min({q \in entries(i) : lines[q].ila = v})].rtl]]

-----------------------------------------------------------------------------
(* One instruction *)

\* C variables: <<x, "cur">>, <<x, "nxt">> and the three of the memory interface.
Cur(v) == <<CName(v), "cur">>
Nxt(v) == <<CName(v), "nxt">>
InstrAddr == <<"zy_instr_addr", "cur">>
DataAddr  == <<"zy_data_addr", "cur">>
DataIn    == <<"zy_data_in", "cur">>

\* Targets whose value addresses memory are called first, the later ones before the earlier ones.
Ordered(info, types) ==
  LET all == Sorted(DOMAIN types)
  IN Reverse(SelectSeq(all, LAMBDA t : t \in info.daddr)) \o SelectSeq(all, LAMBDA t : t \notin info.daddr)

\* The functions to call, each with the variables it updates: a target that is skipped, or that an
\* earlier function is mapped to, is left out.
FuncCalls(info, types, skipped) ==
  LET order == Ordered(info, types)
      called[n \in DOMAIN order] ==
        /\ order[n] \notin skipped
        /\ \A m \in 1..(n - 1) :
             order[m] \in DOMAIN info.map /\ order[n] \in info.map[order[m]] => ~called[m]
      call(n) == LET t == order[n]
                 IN [orig |-> t, vars |-> Sorted(IF t \in DOMAIN info.map THEN info.map[t] ELSE {t})]
  IN Flat(SetToSortSeq({n \in DOMAIN order : called[n]}, <), LAMBDA n : <<call(n)>>)

\* func_call: an argument is the loaded word, the first cycle's word of an input, or a variable.
Args(type, test, data) ==
  [n \in DOMAIN type.args |->
     LET a == type.args[n]
         earlier == Cardinality({m \in 1..(n - 1) : type.args[m] = a})
     IN CASE data # <<>> /\ a = data[1] /\ earlier = data[2] - 1 -> [k |-> "var", v |-> DataIn]
          [] a \in DOMAIN test -> [k |-> "lit", v |-> SingleApint(test[a][1]).v]
          [] OTHER             -> [k |-> "var", v |-> Cur(a)]]

Stmt(op, dst, src) == [op |-> op, dst |-> dst, src |-> src, fn |-> <<>>, args |-> <<>>]
CallOf(dst, info, t, type, test, data) ==
  [op |-> "call", dst |-> dst, src |-> <<>>, fn |-> <<info.name, t>>, args |-> Args(type, test, data)]

\* What follows the statement for variable v: the two addresses are kept up to date.
IsInstrAddr(info, v) == info.iaddr # "" /\ CName(v) = CName(info.iaddr)
IsDataAddr(info, v)  == ~IsInstrAddr(info, v) /\ CName(v) \in DOMAIN info.map

DataOf(info, t) == IF t \in DOMAIN info.load THEN info.load[t] ELSE <<>>

CallStmts(info, types, test, calls) ==
  Flat(calls, LAMBDA c : Flat(c.vars, LAMBDA v :
    LET call(dst, data) == CallOf(dst, info, c.orig, types[c.orig], test, data)
    IN <<call(Nxt(v), DataOf(info, c.orig))>>
         \o CASE IsInstrAddr(info, v) -> <<call(InstrAddr, <<>>)>>
              [] IsDataAddr(info, v)  -> <<call(DataAddr, DataOf(info, c.orig))>>
              [] OTHER                -> <<>>))

SetStmts(info, calls, arrs) ==
  Flat(calls, LAMBDA c : Flat(c.vars, LAMBDA v :
    (IF CName(v) \in arrs THEN <<>> ELSE <<Stmt("set", Cur(v), Nxt(v))>>)
      \o CASE IsInstrAddr(info, v) -> <<Stmt("set", InstrAddr, Nxt(v))>>
           [] IsDataAddr(info, v)  -> <<Stmt("load", DataIn, DataAddr)>>
           [] OTHER                -> <<>>))

\* The format goes by the width w: "%d", "%ld" or "{%ld, %ld}".
Show(name, var, w) == [op |-> "print", dst |-> name, src |-> var, w |-> w]

\* A variable is printed as wide as what its function returns.
PrintStmts(info, types, calls, refine) ==
  Flat(calls, LAMBDA c : Flat(c.vars, LAMBDA v :
    LET renamed == IF info.name \in DOMAIN refine THEN refine[info.name] ELSE <<>>
        name    == IF CName(v) \in DOMAIN renamed THEN renamed[CName(v)] ELSE CName(v)
    IN <<Show(name, Cur(v), types[c.orig].ret)>>
         \o CASE IsInstrAddr(info, v) -> <<Show("zy_instr_addr", InstrAddr, 32)>>
              [] IsDataAddr(info, v)  -> <<Show("zy_data_addr", DataAddr, 32)>>
              [] OTHER                -> <<>>))

\* Mutant of InstrCalls: a variable is updated as soon as its function has been called.
InstrCallsInPlace(info, types, test, calls, arrs, refine) ==
  <<Stmt("note", info.name, <<>>)>>
    \o Flat(calls, LAMBDA c : CallStmts(info, types, test, <<c>>) \o SetStmts(info, <<c>>, arrs))
    \o PrintStmts(info, types, calls, refine)

\* print_instr_calls: all functions are called before any variable is updated.
InstrCalls(info, types, test, calls, arrs, refine) ==
  <<Stmt("note", info.name, <<>>)>> \o CallStmts(info, types, test, calls)
    \o SetStmts(info, calls, arrs) \o PrintStmts(info, types, calls, refine)

UpdateAllAsvs(asv) == LET vs == Sorted(DOMAIN asv)
                      IN [n \in DOMAIN vs |-> Stmt("set", Cur(vs[n]), Nxt(vs[n]))]

-----------------------------------------------------------------------------
(* The interface between ila.cpp and the LLVM functions *)

\* c_type: bits of the C type for a word; a width it has no type for is a long int.
CBits(w) == CASE w \in 1..16 -> 16
              [] w \in 17..32 -> 32
              [] w > 64       -> 64 * ((w + 63) \div 64)
              [] OTHER        -> 64

\* What C passes for a prototype: more than 64 bits by reference, and a result of more than 64
\* bits is stored through a last reference.
Passed(type, dst, vals) ==
  LET slot(w, v) == [by |-> IF w > 64 THEN "pointer" ELSE "value", bits |-> CBits(w), v |-> v]
  IN [n \in DOMAIN vals |-> slot(type.widths[n], vals[n])]
       \o IF type.ret > 64 THEN <<slot(type.ret, dst)>> ELSE <<>>

\* What is read where the two sides disagree on how a word is passed.
Junk == -1

\* Mutant of Small: a word that just fills a register goes by pointer.
SmallBelow(w) == w < 64
\* isSmallType: passed in a register.
Small(w) == w <= 64

\* create_wrapper_function: the wrapper takes what is not small through a pointer and loads it.
Loaded(slot, w) == IF slot.by = (IF Small(w) THEN "value" ELSE "pointer") /\ slot.bits >= w
                   THEN slot.v ELSE Junk
MainArgs(main, slots) == [n \in DOMAIN main.args |-> Loaded(slots[n], main.widths[n])]

\* A small result is returned, a larger one is stored through the pointer after the arguments.
Delivered(main, type, dst, slots, v) ==
  CASE Small(main.ret) /\ type.ret <= 64 -> <<dst, v>>
    [] ~Small(main.ret) /\ type.ret > 64 -> <<slots[Len(main.args) + 1].v, v>>
    [] OTHER                             -> <<dst, Junk>>

-----------------------------------------------------------------------------
(* The program *)

\* print_asv_values: every register, then every variable the refinement renames.
InitialPrints(asv, refine) ==
  LET vs == Sorted(DOMAIN asv)
  IN [n \in DOMAIN vs |-> Show(CName(vs[n]), Cur(vs[n]), asv[vs[n]])]
       \o Flat(Sorted(DOMAIN refine), LAMBDA i :
            Flat(Sorted(DOMAIN refine[i]), LAMBDA v : <<Show(refine[i][v], <<v, "cur">>, 64)>>))

RstOf(rst, v) == IF v \in DOMAIN rst THEN rst[v] ELSE 0

Declared(asv, rst) ==
  [x \in {Cur(v) : v \in DOMAIN asv} \cup {Nxt(v) : v \in DOMAIN asv}
           \cup {InstrAddr, DataAddr, DataIn} |->
     IF x \in {InstrAddr, DataAddr, DataIn} THEN 0
     ELSE RstOf(rst, CHOOSE v \in DOMAIN asv : x \in {Cur(v), Nxt(v)})]

\* The files sim_gen reads; dead when it aborts.
SimFiles(instrs, tests, f) ==
  LET info == ReadFuncInfo(PrintFuncInfo(f.fns), instrs, f.asv)
  IN [tests |-> tests, types |-> info.types, arrs |-> info.arrs,
      dead |-> info.dead \/ NamedTwice(f.refine),
      refine |-> ReadRefinement(f.refine), instr |-> 0, blocks |-> <<>>]

\* The word of a test in the memory image, or mem.txt as loaded data.
MemOf(fetch, tests, f) ==
  [k \in DOMAIN tests |-> IF fetch THEN SingleNum(tests[k]["mem_rdata"][1])
                          ELSE IF k \in DOMAIN f.mem THEN f.mem[k] ELSE 0]

\* print_func_declare: a parameter that comes again gets a number; a result of more than 64 bits is
\* one more parameter after a comma.
Params(type) ==
  [n \in DOMAIN type.args |->
     LET again == Cardinality({m \in 1..(n - 1) : CName(type.args[m]) = CName(type.args[n])})
     IN IF again = 0 THEN CName(type.args[n]) ELSE CName(type.args[n]) \o ToString(again)]

WellDeclared(type) == /\ IsInjective(Params(type))
                      /\ type.ret > 64 => type.args # <<>>

\* The C++ compiler accepts ila.cpp and ila.h: every variable is declared.
Compiles(prog) ==
  /\ \A n \in DOMAIN prog.prints : prog.prints[n].src \in DOMAIN prog.decl
  /\ \A k \in DOMAIN prog.blocks : \A n \in DOMAIN prog.blocks[k] :
       LET s == prog.blocks[k][n] IN
       /\ s.op \in {"call", "set"} => s.dst \in DOMAIN prog.decl
       /\ s.op \in {"set", "print"} => s.src \in DOMAIN prog.decl
       /\ s.op = "call" => \A m \in DOMAIN s.args : s.args[m].k = "var" => s.args[m].v \in DOMAIN prog.decl
  /\ \A i \in DOMAIN prog.types : \A t \in DOMAIN prog.types[i] : WellDeclared(prog.types[i][t])
=============================================================================
