----------------------------- MODULE InstrFile -----------------------------
(***************************************************************************)
(* The reader of instr.txt, shared by func_extract, test_gen, sim_gen and  *)
(* tb_gen: one line a step, a state that says which section a line belongs *)
(* to, and the tables it fills.  A directive such as #delay goes to the    *)
(* last instruction whose first word has been read, which is not always    *)
(* the one it stands under.                                                *)
(***************************************************************************)
EXTENDS Encodings

VARIABLES text,   \* the lines of instr.txt; blank lines and comments are left out
          rd,     \* at, state, firstWord, seen, name, dead: the locals of read_in_instructions
          tab     \* instrs and the other tables it fills

L    == text[rd.at]
More == ~rd.dead /\ rd.at <= Len(text)
Is(k) == More /\ L.k = k
In(s) == rd.state = s

NewInstr(name, var, word) ==
  [name |-> name, enc |-> var :> <<word>>, len |-> 1, writes |-> {}, skip |-> {},
   vec |-> <<>>, vecDelay |-> 0, delay |-> 0, extra |-> 0, exc |-> <<>>,
   iaddr |-> "", daddr |-> {}, load |-> <<>>, map |-> <<>>]

ReaderInit ==
  /\ rd = [at |-> 1, state |-> "none", firstWord |-> TRUE, seen |-> FALSE, name |-> "", dead |-> FALSE]
  /\ tab = [instrs |-> <<>>, nop |-> <<>>, rst |-> <<>>, clk |-> "", rstn |-> "", top |-> "",
            invar |-> {}, reads |-> {}, mem |-> {}, fifo |-> <<>>, as |-> {}]

\* emplace: the first value stays.
Emplace(f, key, val) == f @@ (key :> val)
Assigned(f, key, val) == (key :> val) @@ f
At(f, key, none) == IF key \in DOMAIN f THEN f[key] ELSE none

Next1    == rd' = [rd EXCEPT !.at = @ + 1]
Enter(s) == rd' = [rd EXCEPT !.at = @ + 1, !.state = s]
Same     == UNCHANGED text

-----------------------------------------------------------------------------
(* Directives: they change g_instrInfo.back() *)

Owned == tab.instrs # <<>>
Back  == tab.instrs[Len(tab.instrs)]
SetBack(info) == tab' = [tab EXCEPT !.instrs[Len(tab.instrs)] = info]

ReadClock == /\ Is("clk") \/ Is("rst")
             /\ tab' = IF L.k = "clk" THEN [tab EXCEPT !.clk = L.v] ELSE [tab EXCEPT !.rstn = L.v]
             /\ Next1 /\ Same

\* #delay:8 and #delay:8 (reg:3)
ReadDelay ==
  /\ Is("delay") /\ Owned
  /\ SetBack([Back EXCEPT !.delay = L.n,
                          !.exc = IF L.ex = <<>> THEN @ ELSE Emplace(@, L.ex[1], L.ex[2])])
  /\ Next1 /\ Same

ReadExtraDelay == Is("extra") /\ Owned /\ SetBack([Back EXCEPT !.extra = L.n]) /\ Next1 /\ Same

\* #instrAddr and #memAddr fill the same field.
ReadInstrAddr == Is("iaddr") /\ Owned /\ SetBack([Back EXCEPT !.iaddr = L.v]) /\ Next1 /\ Same

\* #dataAddr v (array): the pointer to the array v.
Address(line) == IF line.array THEN CName(line.v) \o "_Arr" ELSE line.v

ReadDataAddr == /\ Is("daddr") /\ Owned
                /\ SetBack([Back EXCEPT !.daddr = @ \cup {Address(L)}])
                /\ Next1 /\ Same

\* #needDataTgt reg { #dataIn arg (idx) }: a second block for the same target aborts.
ReadNeedData ==
  /\ Is("need") /\ Owned
  /\ IF L.tgt \in DOMAIN Back.load
     THEN rd' = [rd EXCEPT !.dead = TRUE] /\ UNCHANGED tab
     ELSE Next1 /\ SetBack([Back EXCEPT !.load = Assigned(@, L.tgt, <<L.arg, L.idx>>)])
  /\ Same

\* #VarMap { mapped: source ... }
ReadVarMap ==
  /\ Is("map") /\ Owned
  /\ SetBack([Back EXCEPT !.map = [src \in DOMAIN @ \cup {p[2] : p \in ToSet(L.pairs)} |->
                At(@, src, {}) \cup {p[1] : p \in {q \in ToSet(L.pairs) : q[2] = src}}]])
  /\ Next1 /\ Same

\* back() of an empty vector: what happens then is undefined, the model stops.
ReadTooEarly ==
  /\ More /\ ~Owned
  /\ \/ L.k \in {"delay", "extra", "iaddr", "daddr", "need", "map"}
     \/ L.k \in {"reg", "vec"} /\ In("W")
  /\ rd' = [rd EXCEPT !.dead = TRUE]
  /\ UNCHANGED <<tab, text>>

-----------------------------------------------------------------------------
(* Sections *)

\* Mutant of BeginInstr: the flag that a first word was seen stays up.
BeginInstrKeepsSeen ==
  /\ Is("instr")
  /\ rd' = [rd EXCEPT !.at = @ + 1, !.name = L.name, !.state = "First", !.firstWord = TRUE]
  /\ UNCHANGED tab /\ Same

BeginInstr ==
  /\ Is("instr")
  /\ rd' = [rd EXCEPT !.at = @ + 1, !.name = L.name, !.state = "First",
                      !.firstWord = TRUE, !.seen = FALSE]
  /\ UNCHANGED tab /\ Same

NextCycle == Is("cycle") /\ Enter("First") /\ UNCHANGED tab /\ Same
Header    == Is("head") /\ Enter(L.s) /\ UNCHANGED tab /\ Same

\* The first signal of a cycle; that of the first cycle makes the instruction.
FirstSignal ==
  /\ Is("word") /\ In("First")
  /\ LET first == rd.firstWord /\ ~rd.seen IN
     /\ rd' = [rd EXCEPT !.at = @ + 1, !.state = "Other", !.firstWord = first, !.seen = TRUE]
     /\ IF first
        THEN tab' = [tab EXCEPT !.instrs = Append(@, NewInstr(rd.name, L.var, L.word))]
        ELSE SetBack([Back EXCEPT !.enc = Assigned(@, L.var, Append(At(@, L.var, <<>>), L.word)),
                                  !.len = @ + 1])
  /\ Same

OtherSignal ==
  /\ Is("word") /\ In("Other")
  /\ SetBack([Back EXCEPT !.enc = IF rd.firstWord THEN Emplace(@, L.var, <<L.word>>)
                                  ELSE Assigned(@, L.var, Append(At(@, L.var, <<>>), L.word))])
  /\ Next1 /\ Same

\* W: reg, reg (skip) 3
WriteASV ==
  /\ Is("reg") /\ In("W") /\ Owned
  /\ tab' = [tab EXCEPT !.instrs[Len(tab.instrs)] =
                          [@ EXCEPT !.writes = @ \cup {<<L.delay, L.v>>},
                                    !.skip = IF L.skip THEN @ \cup {L.v} ELSE @],
                        !.as = @ \cup {L.v}]
  /\ Next1 /\ Same

\* W: [ regs ] 3
WriteVec ==
  /\ Is("vec") /\ In("W") /\ Owned
  /\ tab' = [tab EXCEPT !.instrs[Len(tab.instrs)] =
                          [@ EXCEPT !.vec = @ \o L.regs, !.vecDelay = L.delay,
                                    !.skip = @ \cup ToSet(L.regs)],
                        !.as = @ \cup ToSet(L.regs)]
  /\ Next1 /\ Same

ReadASV  == /\ Is("name") /\ In("R")
            /\ tab' = [tab EXCEPT !.reads = @ \cup {L.v}, !.as = @ \cup {L.v}] /\ Next1 /\ Same
ReadMEM  == Is("name") /\ In("MEM") /\ tab' = [tab EXCEPT !.mem = @ \cup {L.v}] /\ Next1 /\ Same
ReadFIFO == /\ Is("fifo") /\ In("FIFO")
            /\ tab' = [tab EXCEPT !.fifo = Emplace(@, L.v, L.n)] /\ Next1 /\ Same
ReadNOP  == /\ Is("word") /\ In("NOP")
            /\ tab' = [tab EXCEPT !.nop = Emplace(@, L.var, L.word)] /\ Next1 /\ Same
ResetVal == /\ Is("word") /\ In("RESET")
            /\ tab' = [tab EXCEPT !.rst = Emplace(@, L.var, L.word)] /\ Next1 /\ Same
\* A register of the top module takes the module's name as it is known at this line.
InvarRegs == /\ Is("name") /\ In("INVAR")
             /\ tab' = [tab EXCEPT !.invar = @ \cup {<<IF L.mod = "" THEN tab.top ELSE L.mod, L.v>>}]
             /\ Next1 /\ Same
TopMod   == Is("name") /\ In("TOP") /\ tab' = [tab EXCEPT !.top = L.v] /\ Next1 /\ Same

\* The file has been read; without clock and top module the program aborts.
Read == rd.at > Len(text) /\ ~rd.dead /\ tab.clk # "" /\ tab.top # ""

ReadLine ==
  \/ ReadClock \/ ReadDelay \/ ReadExtraDelay \/ ReadInstrAddr \/ ReadDataAddr
  \/ ReadNeedData \/ ReadVarMap \/ ReadTooEarly
  \/ BeginInstr \/ NextCycle \/ Header \/ FirstSignal \/ OtherSignal
  \/ WriteASV \/ WriteVec \/ ReadASV \/ ReadMEM \/ ReadFIFO \/ ReadNOP \/ ResetVal
  \/ InvarRegs \/ TopMod

-----------------------------------------------------------------------------
(* What the text says *)

Lines(ks)     == {p \in DOMAIN text : text[p].k \in ks}
Latest(S)       == CHOOSE p \in S : \A q \in S : q <= p
HeadOf(p)     == Latest({q \in Lines({"instr", "cycle", "head"}) : q < p})
SectionOf(p)  == IF text[HeadOf(p)].k = "head" THEN text[HeadOf(p)].s ELSE "words"
BlockOf(p)    == Latest({q \in Lines({"instr"}) : q < p})
WordLines(b)  == {p \in Lines({"word"}) : p > b /\ SectionOf(p) = "words" /\ BlockOf(p) = b}
Blocks        == {b \in Lines({"instr"}) : WordLines(b) # {}}
\* The block a directive or a W: line is taken for: the last one with a word before it.
OwnerOf(p)    == Latest({b \in Blocks : \E w \in WordLines(b) : w < p})
Of(b, ks)     == {p \in Lines(ks) : OwnerOf(p) = b}
InOrder(S)    == SetToSortSeq(S, <)
WordsOf(b, v) == LET ps == InOrder({p \in WordLines(b) : text[p].var = v})
                 IN [n \in DOMAIN ps |-> text[ps[n]].word]

Says(b, info) ==
  /\ info.name = text[b].name
  /\ info.enc = [v \in {text[p].var : p \in WordLines(b)} |-> WordsOf(b, v)]
  /\ info.len = Cardinality({HeadOf(p) : p \in WordLines(b)})
  /\ info.delay = IF Of(b, {"delay"}) = {} THEN 0 ELSE text[Latest(Of(b, {"delay"}))].n
  /\ info.iaddr = IF Of(b, {"iaddr"}) = {} THEN "" ELSE text[Latest(Of(b, {"iaddr"}))].v
  /\ info.daddr = {Address(text[p]) : p \in Of(b, {"daddr"})}
  /\ info.writes = {<<text[p].delay, text[p].v>> : p \in Of(b, {"reg"})}
  /\ ToSet(info.vec) = UNION {ToSet(text[p].regs) : p \in Of(b, {"vec"})}
  /\ info.skip = ToSet(info.vec) \cup {text[p].v : p \in {q \in Of(b, {"reg"}) : text[q].skip}}
  /\ \A p \in Of(b, {"need"}) : info.load[text[p].tgt] = <<text[p].arg, text[p].idx>>
  /\ \A p \in Of(b, {"map"}) : \A n \in DOMAIN text[p].pairs :
       text[p].pairs[n][1] \in info.map[text[p].pairs[n][2]]

\* The tables say what the text does.
AsWritten ==
  Read =>
    /\ Len(tab.instrs) = Cardinality(Blocks)
    /\ \A n \in DOMAIN tab.instrs : Says(InOrder(Blocks)[n], tab.instrs[n])
    /\ \A p \in {q \in Lines({"word"}) : SectionOf(q) = "NOP"} :
         text[p].var \in DOMAIN tab.nop
    /\ \A v \in DOMAIN tab.nop :
         LET ps == {p \in Lines({"word"}) : SectionOf(p) = "NOP" /\ text[p].var = v}
         IN tab.nop[v] = text[CHOOSE p \in ps : \A q \in ps : p <= q].word
=============================================================================
