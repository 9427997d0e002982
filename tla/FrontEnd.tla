------------------------------ MODULE FrontEnd ------------------------------
(***************************************************************************)
(* From design.v to the tables of func_extract: clean_file writes          *)
(* design.v.nocomment, get_io collects the ports, remove_functions writes  *)
(* design.v.clean and parse_verilog fills the tables, each one line at a   *)
(* time.  A later run starts from design.v.clean when it is newer than     *)
(* design.v.  The process may be killed while it writes, and design.v may  *)
(* be edited between runs and while a run is past reading it.              *)
(***************************************************************************)
EXTENDS Netlist, TLC

CONSTANTS Texts,      \* the editions of design.v
          Clk,        \* the clock #CLK of instr.txt names
          MaxRuns,    \* bound: runs of func_extract
          MaxEdits, MaxKills   \* bounds: edits of design.v, kills

VARIABLES design, edits,            \* the edition design.v holds, edits so far
          nocomment, clean,         \* the files written
          cleanIs,                  \* design.v.clean against design.v: missing, older, newer
          madeOf, whole, late,      \* the edition clean was made of; was it written to its end;
                                    \* was design.v edited after it was read
          pc, at, mode, started,    \* step of the run, next line, clean flag, edition at its start
          runs, kills,
          fresh, width, held,       \* NEW_FANGYUAN, varWidth, rsvdLine
          tables, cur, yuzeng       \* g_moduleInfoMap, g_currentModuleName, g_new_var

disk   == <<nocomment, clean, cleanIs, madeOf, whole, late>>
run    == <<mode, started, runs, kills>>
memory == <<fresh, width, held>>
parsed == <<tables, cur, yuzeng>>
vars   == <<design, edits, disk, pc, at, run, memory, parsed>>

Source == CASE pc = "clean" -> Texts[design] [] pc = "remove" -> nocomment [] OTHER -> clean
Line   == Source[at]
More   == at <= Len(Source)

-----------------------------------------------------------------------------
(* Widths and names *)

\* var_width_insert keeps the first width given.
Insert(w, v, n) == IF v \in DOMAIN w THEN w ELSE (v :> n) @@ w

\* get_var_slice_width, with the widths of all modules read so far in one map.
Known(o)  == IsNum(o) \/ o.cut # <<>> \/ o.var \in DOMAIN width
Width(o)  == WidthOf([width |-> width], o)
Total(g)  == Sum([k \in DOMAIN g |-> Width(g[k])])

Added(n)    == <<"addedVar", n>>
Fangyuan(n) == <<"fangyuan", n>>
Yuzeng(n)   == <<"yuzeng", n>>

Wire(v, w)          == [k |-> "decl", as |-> "wire", var |-> v, w |-> w]
Assign(dest, op, of) == [k |-> "assign", dest |-> dest, op |-> op, key |-> <<>>, of |-> of]

\* split_long_bin, split_long_hex: pieces of 16 bits, what is left in the last.
Pieces(o, count) ==
  [c \in 1..count |->
     LET per  == 16 \div o.base
         pos  == (c - 1) * per
         sub  == IF o.w - pos * o.base < 16 THEN o.w - pos * o.base ELSE 16
     IN Num(sub, o.base, SubSeq(o.digits, pos + 1, IF sub = 16 THEN pos + per ELSE Len(o.digits)))]

SplitLong(o) == CASE o.base = 1 /\ o.w >= 31 -> Pieces(o, (o.w + 15) \div 16)
                  [] o.base = 4 /\ o.w >= 32 -> Pieces(o, (o.w \div 4 + 3) \div 4)
                  [] OTHER -> <<o>>
Split(g) == FlattenSeq([k \in DOMAIN g |-> SplitLong(g[k])])

-----------------------------------------------------------------------------
(* clean_file *)

IsBoth(l) == l.k = "assign" /\ Len(l.dest) > 1 /\ l.op = "{}"

\* is_srcConcat, is_destConcat, is_srcDestConcat: nothing but braces around names.
Plain(l) == \/ l.op = "{}"
            \/ Len(l.dest) > 1 /\ l.op = "="

Braces(l) == SelectSeq(<<l.dest>> \o l.of, LAMBDA g : Len(g) > 1)
Extracted(l) == \/ l.k = "assign" /\ Braces(l) # <<>> /\ ~Plain(l)
                \/ l.k = "nb" /\ Len(l.of[1]) > 1

\* The n-th braces of the line become an added variable.
NumberOf(l, k) == fresh + Cardinality({j \in 0..(k - 1) : Len((<<l.dest>> \o l.of)[j + 1]) > 1})
WithAdded(l) ==
  LET name(g, k) == IF Len(g) > 1 THEN <<V(Added(NumberOf(l, k)))>> ELSE g
  IN [l EXCEPT !.dest = name(l.dest, 0), !.of = [k \in DOMAIN l.of |-> name(l.of[k], k)]]

AddedLines(l) ==
  FlattenSeq([j \in DOMAIN Braces(l) |->
    LET g == Split(Braces(l)[j])
        v == Added(fresh + j - 1)
    IN <<Wire(v, Total(g)),
         IF j = 1 /\ Len(l.dest) > 1 THEN Assign(g, "=", << <<V(v)>> >>) ELSE Assign(<<V(v)>>, "{}", <<g>>)>>])

\* BOTH_CONCAT: cut wherever sources and destinations end together.
Pair(lhs, rhs) == Assign(lhs, "{}", <<rhs>>)
Step(srcs, a, d) ==
  LET rem  == a.rem + Width(d)
      left(n) == rem - Total(SubSeq(srcs, a.next, a.next + n - 1))
      n    == CHOOSE n \in 0..Len(srcs) : left(n) <= 0 /\ \A i \in 0..(n - 1) : left(i) > 0
      lhs  == Append(a.lhs, d)
      from == IF Len(lhs) = 1 THEN a.next ELSE a.from
  IN IF left(n) = 0
     THEN [out |-> Append(a.out, Pair(lhs, SubSeq(srcs, from, a.next + n - 1))),
           lhs |-> <<>>, from |-> from, next |-> a.next + n, rem |-> 0]
     ELSE [a EXCEPT !.lhs = lhs, !.from = from, !.next = a.next + n, !.rem = left(n)]
Separated(l) == FoldLeft(LAMBDA a, d : Step(l.of[1], a, d),
                         [out |-> <<>>, lhs |-> <<>>, from |-> 1, next |-> 1, rem |-> 0], l.dest).out

Operands(l) == UNION {Range(g) : g \in Range(Braces(l))}

\* What every line of a pass does when it prints ls.
PrintNc(ls) == nocomment' = nocomment \o ls /\ at' = at + 1
Cleaning == /\ pc = "clean" /\ More
            /\ UNCHANGED <<design, edits, clean, cleanIs, madeOf, whole, late, run, parsed>>

DropComment == Cleaning /\ Line.k = "comment" /\ PrintNc(<<>>) /\ UNCHANGED <<pc, memory>>

HoldAlways == /\ Cleaning /\ Line.k = "always" /\ Line.rst = <<>>
              /\ held' = <<Line>>
              /\ PrintNc(<<>>) /\ UNCHANGED <<pc, fresh, width>>

\* g_remove_adff: the reset edge goes.
ClockOnly == /\ Cleaning /\ Line.k = "always" /\ Line.rst # <<>>
             /\ PrintNc(<<[Line EXCEPT !.rst = <<>>]>>) /\ UNCHANGED <<pc, memory>>

SeparateConcat == /\ Cleaning /\ IsBoth(Line)
                  /\ \A o \in Operands(Line) : Known(o)
                  /\ PrintNc(Separated(Line)) /\ UNCHANGED <<pc, memory>>

\* The added variables come before the statement, after a clocked one.
ExtractConcat ==
  /\ Cleaning /\ Extracted(Line)
  /\ \A o \in Operands(Line) : Known(o)
  /\ LET ls == AddedLines(Line)
         l  == WithAdded(Line)
     IN /\ PrintNc(IF Line.k = "nb" THEN held \o <<l>> \o ls ELSE ls \o held \o <<l>>)
        /\ width' = FoldLeft(LAMBDA w, d : IF d.k = "decl" THEN Insert(w, d.var, d.w) ELSE w, width, ls)
  /\ fresh' = fresh + Len(Braces(Line))
  /\ held' = <<>>
  /\ UNCHANGED pc

\* A wire declared with what drives it: its width is not recorded.
SplitDeclaration ==
  /\ Cleaning /\ Line.k = "wireis"
  /\ PrintNc(<<Wire(Line.var, Line.w), Assign(<<V(Line.var)>>, "=", << <<Line.src>> >>)>>)
  /\ UNCHANGED <<pc, memory>>

CopyLine ==
  /\ Cleaning
  /\ Line.k \notin {"comment", "always", "wireis"} /\ ~IsBoth(Line) /\ ~Extracted(Line)
  /\ PrintNc(held \o <<Line>>)
  /\ held' = <<>>
  /\ width' = IF Line.k = "decl" THEN Insert(width, Line.var, Line.w) ELSE width
  /\ UNCHANGED <<pc, fresh>>

\* "0 width found": a name between braces that no declaration gave a width.
NoWidth == /\ Cleaning /\ (IsBoth(Line) \/ Extracted(Line))
           /\ \E o \in Operands(Line) : ~Known(o)
           /\ pc' = "aborted"
           /\ UNCHANGED <<nocomment, at, memory>>

CleanFile == DropComment \/ HoldAlways \/ ClockOnly \/ SeparateConcat \/ ExtractConcat
             \/ SplitDeclaration \/ CopyLine \/ NoWidth

-----------------------------------------------------------------------------
(* get_io *)

\* Function lines are not told apart from the module's: their formals count as inputs.
Ports(ls, as) == {l.var : l \in {d \in Only(ls, "decl") : d.as = as}}
Formals(ls)   == UNION {Range(f.formals) : f \in Only(ls, "func")}

Widths(ls) == FoldLeft(LAMBDA w, l :
                CASE l.k = "decl" -> Insert(w, l.var, l.w)
                  [] l.k = "func" -> FoldLeft(LAMBDA x, f : Insert(x, f.var, f.w), w, l.formals)
                  [] OTHER -> w, <<>>, ls)

IoOf(ls) == [NoModule EXCEPT !.inputs = (Ports(ls, "input") \cup {f.var : f \in Formals(ls)}) \ {Clk},
                             !.outputs = Ports(ls, "output"), !.width = Widths(ls)]

\* The lines from a module line on: a text cut short has no end for its last module.
FromModule(text, m) ==
  LET b == CHOOSE i \in DOMAIN text : text[i].k = "module" /\ text[i].var = m
      ends == {i \in DOMAIN text : i > b /\ text[i].k = "module"}
      e == IF ends = {} THEN Len(text) + 1 ELSE CHOOSE i \in ends : \A j \in ends : i <= j
  IN SubSeq(text, b + 1, e - 1)

\* A cleaning run reads what clean_file wrote, and empties design.v.clean next.
Cleans == mode = "clean"
GetIo ==
  /\ pc = "io"
  /\ LET text == IF Cleans THEN nocomment ELSE clean
     IN tables' = [m \in Modules(text) |-> IoOf(FromModule(text, m))]
  /\ at' = 1
  /\ IF Cleans
     THEN /\ pc' = "remove"
          /\ clean' = <<>> /\ cleanIs' = "newer" /\ madeOf' = started
          /\ whole' = FALSE /\ late' = (design # started)
     ELSE /\ pc' = "parse"
          /\ UNCHANGED <<clean, cleanIs, madeOf, whole, late>>
  /\ UNCHANGED <<design, edits, nocomment, run, memory, cur, yuzeng>>

-----------------------------------------------------------------------------
(* remove_functions, clean_submod *)

Removing == /\ pc = "remove" /\ More
            /\ UNCHANGED <<design, edits, nocomment, madeOf, whole, late, run, parsed>>
PrintClean(ls, n) == clean' = clean \o ls /\ cleanIs' = "newer" /\ at' = at + n

\* The call is looked for in the next eight lines; what is before it is copied.
Calls == {j \in (at + 1)..(at + 8) : j <= Len(Source) /\ Source[j].k = "assign" /\ Source[j].op = "call"}
CallAt == CHOOSE j \in Calls : \A i \in Calls : j <= i

Binary(o) == FlattenSeq([k \in DOMAIN o.digits |->
               [i \in 1..o.base |-> (o.digits[k] \div 2^(o.base - i)) % 2]])
ExtractBin(o, hi, lo) == LET b == Binary(o)
                         IN Num(hi - lo + 1, 1, SubSeq(b, Len(b) - hi, Len(b) - lo))

\* The function's case over the arguments a (default), b (results), s (selector).
CaseOf(f, call) ==
  LET a == call.of[1]  b == call.of[2][1]  s == call.of[3]
      result(o) == IF IsNum(b) THEN ExtractBin(b, o.cut[1], o.cut[2]) ELSE [b EXCEPT !.cut = o.cut]
  IN [k |-> "case", dest |-> call.dest, op |-> "case", key |-> <<>>,
      of |-> [k \in DOMAIN f.of |-> CASE k = 1 -> s
                                      [] k = Len(f.of) -> a
                                      [] k # 1 /\ k # Len(f.of) /\ k % 2 = 0 -> f.of[k]
                                      [] OTHER -> <<result(f.of[k][1])>>]]

RemoveFunction ==
  /\ Removing /\ Line.k = "func" /\ Calls # {}
  /\ LET call == Source[CallAt]
         b    == call.of[2][1]
     IN /\ PrintClean(SubSeq(Source, at + 1, CallAt - 1) \o <<CaseOf(Line, call)>>, CallAt - at + 1)
        /\ fresh' = IF IsNum(b) THEN fresh + 1 ELSE fresh
        /\ width' = IF IsNum(b) THEN Insert(width, Added(fresh), b.w) ELSE width
  /\ UNCHANGED <<pc, held>>

\* Braces at a port become a wire, driven or driving by the port's direction.
Braced(l) == SelectSeq(l.conns, LAMBDA c : Len(c[2]) > 1)
BraceNo(l, p) == CHOOSE n \in DOMAIN Braced(l) : Braced(l)[n][1] = p
PortWires(l) ==
  FlattenSeq([n \in DOMAIN Braced(l) |->
    LET c == Braced(l)[n]  v == Fangyuan(fresh + n - 1)
    IN <<Wire(v, Total(c[2])),
         IF c[1] \in tables[l.mod].inputs THEN Assign(<<V(v)>>, "{}", <<c[2]>>)
                                          ELSE Assign(c[2], "=", << <<V(v)>> >>)>>])
CleanSubmod ==
  /\ Removing /\ Line.k = "inst"
  /\ LET wire(c) == IF Len(c[2]) > 1 THEN <<V(Fangyuan(fresh + BraceNo(Line, c[1]) - 1))>> ELSE c[2]
     IN PrintClean(PortWires(Line) \o
                   <<[Line EXCEPT !.conns = [k \in DOMAIN Line.conns |->
                                              <<Line.conns[k][1], wire(Line.conns[k])>>]]>>, 1)
  /\ fresh' = fresh + Len(Braced(Line))
  /\ UNCHANGED <<pc, width, held>>

CopyClean == /\ Removing /\ Line.k \notin {"func", "inst"}
             /\ PrintClean(<<Line>>, 1)
             /\ UNCHANGED <<pc, memory>>

RemoveFunctions == RemoveFunction \/ CleanSubmod \/ CopyClean

-----------------------------------------------------------------------------
(* parse_verilog *)

M == tables[cur]

\* put_into_reg2Slice keeps the slices sorted, highest first.
SliceOf(sl, o) ==
  IF o.cut = <<>> THEN sl
  ELSE LET old == IF o.var \in DOMAIN sl THEN sl[o.var] ELSE <<>>
       IN (o.var :> SortSeq(Append(old, o), LAMBDA x, y : x.cut[1] > y.cut[1])) @@ sl

Put(m, dest, op, key, of) ==
  LET w == WidthOf(m, dest)
  IN [m EXCEPT !.drivers = @ \cup {[dest |-> dest, part |-> <<w - 1, 0>>, total |-> w,
                                    op |-> op, key |-> key, of |-> of]},
               !.slices = SliceOf(@, dest)]

PutWire(m, v, w, op, of) == Put([m EXCEPT !.width = Insert(@, v, w)], V(v), op, <<>>, of)
PutIte(m, v, w, cond, neg, x, y) ==
  PutWire(m, v, w, "?", IF neg THEN << <<cond>>, y, x>> ELSE << <<cond>>, x, y>>)
PutNext(m, dest, src) ==
  [m EXCEPT !.nexts = @ \cup {[dest |-> dest, body |-> <<[k |-> "nb", dest |-> <<dest>>, of |-> <<src>>]>>]}]

Stored(dest) == \E d \in M.drivers : d.dest = dest

\* Mutant of PutParts: the first destination takes the lowest bits.
PutPartsUp(m, dest, src) ==
  LET low(k) == GroupWidth(m, SubSeq(dest, 1, k - 1))
  IN FoldLeft(LAMBDA n, k : Put(n, dest[k], "=", <<>>,
                                << <<S(src, low(k) + WidthOf(m, dest[k]) - 1, low(k))>> >>),
              m, [k \in DOMAIN dest |-> k])

\* a part of src for each destination, from the highest bits down
PutParts(m, dest, src) ==
  LET low(k) == GroupWidth(m, SubSeq(dest, k + 1, Len(dest)))
  IN FoldLeft(LAMBDA n, k : Put(n, dest[k], "=", <<>>,
                                << <<S(src, low(k) + WidthOf(m, dest[k]) - 1, low(k))>> >>),
              m, [k \in DOMAIN dest |-> k])

Parsing == /\ pc = "parse" /\ More
           /\ UNCHANGED <<design, edits, disk, run, memory>>
SetM(m) == tables' = [tables EXCEPT ![cur] = m] /\ UNCHANGED cur
Go(n)   == at' = at + n /\ pc' = pc
Same    == UNCHANGED yuzeng

ParseModule == /\ Parsing /\ Line.k = "module"
               /\ cur' = Line.var /\ Go(1) /\ UNCHANGED <<tables, yuzeng>>

ParseDecl == /\ Parsing /\ Line.k \in {"decl", "mem"}
             /\ SetM([M EXCEPT !.width = Insert(@, Line.var, Line.w)]) /\ Go(1) /\ Same

SkipLine == Parsing /\ Line.k = "endmodule" /\ Go(1) /\ UNCHANGED parsed

SingleLine == /\ Parsing /\ Line.k = "assign" /\ Len(Line.dest) = 1 /\ ~Stored(Line.dest[1])
              /\ SetM(Put(M, Line.dest[1], Line.op, Line.key, Line.of)) /\ Go(1) /\ Same

DestConcat == /\ Parsing /\ Line.k = "assign" /\ Len(Line.dest) > 1 /\ Line.op = "="
              /\ Line.of[1][1].cut = <<>>
              /\ SetM(PutParts(M, Line.dest, Line.of[1][1].var)) /\ Go(1) /\ Same

\* The line itself is stored for the new wire, and no expression is read from such a line.
BothConcat == /\ Parsing /\ IsBoth(Line)
              /\ LET y == Yuzeng(yuzeng)
                     m == PutWire(M, y, GroupWidth(M, Line.dest), "unread", Line.of)
                 IN SetM(PutParts(m, Line.dest, y))
              /\ yuzeng' = yuzeng + 1
              /\ Go(1)

CaseExpr == /\ Parsing /\ Line.k = "case"
            /\ SetM(Put(M, Line.dest[1], "case", <<>>, Line.of)) /\ Go(1) /\ Same

Stmt(i) == Source[at + i]
NextIs(i, ks) == at + i <= Len(Source) /\ Stmt(i).k \in ks

NbExpr == /\ Parsing /\ Line.k = "always" /\ NextIs(1, {"nb"})
          /\ SetM(PutNext(M, Stmt(1).dest[1], Stmt(1).of[1])) /\ Go(2) /\ Same

MemIfAssign == /\ Parsing /\ Line.k = "always" /\ NextIs(1, {"memif"})
               /\ SetM([M EXCEPT !.nexts = @ \cup {[dest |-> Stmt(1).dest[1], body |-> <<Stmt(1)>>]}])
               /\ Go(2) /\ Same

\* The if at line i with what follows it: the new tables, the wire that stands
\* for it, the wire it returns to if_expr, the lines read, the wires made.
IfExpr(i) ==
  LET l == Stmt(i)  n == Stmt(i + 1)
      dest == l.dest[1]  w == WidthOf(M, dest)
      y == Yuzeng(yuzeng)  y2 == Yuzeng(yuzeng + 1)
  IN CASE NextIs(i + 1, {"elifnb"}) ->
            [m |-> PutIte(PutIte(M, y, w, n.cond, n.neg, n.of[1], <<dest>>), y2, w, l.cond, l.neg, l.of[1], <<V(y)>>),
             all |-> y2, back |-> y, lines |-> 2, wires |-> 2]
       [] NextIs(i + 1, {"elsenb"}) ->
            [m |-> PutIte(M, y, w, l.cond, l.neg, l.of[1], n.of[1]), all |-> y, back |-> y, lines |-> 2, wires |-> 1]
       [] OTHER ->
            [m |-> PutIte(M, y, w, l.cond, l.neg, l.of[1], <<dest>>), all |-> y, back |-> y, lines |-> 1, wires |-> 1]

NonblockIf == /\ Parsing /\ Line.k = "always" /\ NextIs(1, {"ifnb"})
              /\ LET r == IfExpr(1)
                 IN /\ SetM(PutNext(r.m, Stmt(1).dest[1], <<V(r.all)>>))
                    /\ yuzeng' = yuzeng + r.wires
                    /\ Go(1 + r.lines)

\* A negated outer condition is stored as it stands: no expression is read from such a line.
IfNested == /\ Parsing /\ Line.k = "always" /\ NextIs(1, {"if"}) /\ NextIs(2, {"ifnb"})
            /\ LET r == IfExpr(2)
                   dest == Stmt(2).dest[1]
                   y == Yuzeng(yuzeng + r.wires)
                   m == PutWire(r.m, y, WidthOf(M, dest), IF Stmt(1).neg THEN "unread" ELSE "?",
                                << <<Stmt(1).cond>>, <<V(r.back)>>, <<dest>> >>)
               IN /\ SetM(PutNext(m, dest, <<V(y)>>))
                  /\ yuzeng' = yuzeng + r.wires + 1
                  /\ Go(2 + r.lines)

AlwaysIfElse ==
  /\ Parsing /\ Line.k = "always" /\ NextIs(1, {"if"}) /\ NextIs(2, {"nb"})
  /\ NextIs(3, {"else"}) /\ NextIs(4, {"nb"})
  /\ LET x == Stmt(2).of[1]  z == Stmt(4).of[1]
         w1 == GroupWidth(M, x)  w2 == GroupWidth(M, z)
         y == Yuzeng(yuzeng)
     IN SetM(PutNext(PutIte(M, y, IF w1 > w2 THEN w1 ELSE w2, Stmt(1).cond, Stmt(1).neg, x, z),
                     Stmt(2).dest[1], <<V(y)>>))
  /\ yuzeng' = yuzeng + 1
  /\ Go(5)

Submodule ==
  /\ Parsing /\ Line.k = "inst"
  /\ LET cs   == [p \in {q \in DOMAIN Conns(Line) : Conns(Line)[q] # <<>>} |-> Conns(Line)[p]]
         outs == tables[Line.mod].outputs
         drive(m, c) == IF c[1] \in outs /\ c[2] # <<>> THEN Put(m, c[2][1], "port", <<Line.name, c[1]>>, <<>>) ELSE m
     IN SetM([FoldLeft(drive, M, Line.conns) EXCEPT
                !.insts = @ \cup {[mod |-> Line.mod, name |-> Line.name, outs |-> outs, conns |-> cs]}])
  /\ Go(1) /\ Same

\* "Error in parsing nonblocking": what a text cut short leaves of a clocked statement.
Readable == \/ NextIs(1, {"nb", "memif", "ifnb"})
            \/ NextIs(1, {"if"}) /\ NextIs(2, {"ifnb"})
            \/ NextIs(1, {"if"}) /\ NextIs(2, {"nb"}) /\ NextIs(3, {"else"}) /\ NextIs(4, {"nb"})
ParseError == /\ Parsing /\ Line.k = "always" /\ ~Readable
              /\ pc' = "aborted" /\ UNCHANGED <<at, parsed>>

ParseLine == ParseModule \/ ParseDecl \/ SkipLine \/ SingleLine \/ DestConcat \/ BothConcat \/ CaseExpr
             \/ NbExpr \/ MemIfAssign \/ NonblockIf \/ IfNested \/ AlwaysIfElse \/ Submodule
             \/ ParseError

-----------------------------------------------------------------------------
(* A run, and what happens around it *)

Resting == pc \in {"idle", "parsed", "aborted"}

\* Mutant of ModeOf: a file once made is never out of date.
ModeIfMissing(flag) == CASE flag = "1" \/ (flag = "-" /\ cleanIs = "missing") -> "clean"
                         [] flag = "-" /\ cleanIs # "missing" -> "reuse"
                         [] flag = "0" -> "forced"

\* "-": clean only when design.v.clean is missing or design.v is newer; "1" and "0" override.
ModeOf(flag) == CASE flag = "1" \/ (flag = "-" /\ cleanIs # "newer") -> "clean"
                  [] flag = "-" /\ cleanIs = "newer" -> "reuse"
                  [] flag = "0" -> "forced"

Start == /\ Resting /\ runs < MaxRuns
         /\ mode' \in {ModeOf(flag) : flag \in {"-", "1", "0"}}
         /\ runs' = runs + 1 /\ started' = design
         /\ at' = 1 /\ fresh' = 0 /\ width' = <<>> /\ held' = <<>>
         /\ tables' = <<>> /\ cur' = <<>> /\ yuzeng' = 0
         /\ IF mode' = "clean" THEN pc' = "clean" /\ nocomment' = <<>>
            ELSE pc' = (IF cleanIs = "missing" THEN "aborted" ELSE "io") /\ UNCHANGED nocomment
         /\ UNCHANGED <<design, edits, clean, cleanIs, madeOf, whole, late, kills>>

Close == /\ ~More
         /\ \/ pc = "clean" /\ pc' = "io" /\ UNCHANGED whole
            \/ pc = "remove" /\ pc' = "parse" /\ whole' = TRUE
            \/ pc = "parse" /\ pc' = "parsed" /\ UNCHANGED whole
         /\ at' = 1
         /\ UNCHANGED <<design, edits, nocomment, clean, cleanIs, madeOf, late, run, memory, parsed>>

\* What is written stays: every line is flushed.
Kill == /\ pc \in {"clean", "io", "remove", "parse"} /\ kills < MaxKills
        /\ pc' = "idle" /\ kills' = kills + 1 /\ at' = 1
        /\ UNCHANGED <<design, edits, disk, mode, started, runs, memory, parsed>>

Edit == /\ pc # "clean" /\ edits < MaxEdits
        /\ design' \in DOMAIN Texts \ {design}
        /\ edits' = edits + 1
        /\ cleanIs' = IF cleanIs = "missing" THEN "missing" ELSE "older"
        /\ late' = (late \/ pc = "remove")
        /\ UNCHANGED <<nocomment, clean, madeOf, whole, pc, at, run, memory, parsed>>

Init == /\ design \in DOMAIN Texts /\ edits = 0
        /\ nocomment = <<>> /\ clean = <<>> /\ cleanIs = "missing"
        /\ madeOf = 0 /\ whole = FALSE /\ late = FALSE
        /\ pc = "idle" /\ at = 1 /\ mode = "reuse" /\ started = design /\ runs = 0 /\ kills = 0
        /\ fresh = 0 /\ width = <<>> /\ held = <<>>
        /\ tables = <<>> /\ cur = <<>> /\ yuzeng = 0

Run  == CleanFile \/ GetIo \/ RemoveFunctions \/ ParseLine \/ Close
\* Nothing more has to happen; a run that cannot go on is a deadlock.
Terminating == Resting /\ UNCHANGED vars

Next == Run \/ Start \/ Kill \/ Edit \/ Terminating
Spec == Init /\ [][Next]_vars

-----------------------------------------------------------------------------
(* Properties *)

\* The tables mean what the design means: for every output, register, array
\* write and instance input of every module the expression that drives it is the
\* one of the design text, whatever braces, functions, slices and nested ifs
\* were rewritten on the way and in whichever run, cleaning or reusing.
MeaningKept == pc = "parsed" /\ whole =>
                 [m \in DOMAIN tables |-> Meaning(tables[m])] = MeaningOf(Texts[madeOf])

\* The tables are those of the design.v the run was started on, unless the user
\* forced the old file, a kill cut design.v.clean short, or design.v was edited
\* while design.v.clean was being written.
TablesCurrent == pc = "parsed" /\ mode # "forced" /\ whole /\ ~late => madeOf = started
=============================================================================
