------------------------------ MODULE TaintSim ------------------------------
(***************************************************************************)
(* A small design with the signals live_analysis adds to it and those      *)
(* write_taint adds to it, simulated side by side: inputs change in any    *)
(* order, a clock edge updates the registers and their flags.              *)
(*                                                                         *)
(* A design is a sequence of nodes, the operands of a combinational node   *)
(* before it.  Node: k, its statement ("in", "reg", "two", "one", "red",   *)
(* "sel", "cat", "ite", "case"); w, its width; op; ops, its operands; top, *)
(* is it an output of the top module; rst, a register's reset value.       *)
(* Operand: the slice hi..lo of node n, or the literal val when n = 0.     *)
(***************************************************************************)
EXTENDS TaintRules

CONSTANT Nets   \* the designs: [node, regsel, whole]

Width(o) == o.hi - o.lo + 1

\* An operand that reads one of the first n nodes or a literal.
OperandOK(o, n) ==
  /\ o.n \in 0..n
  /\ o.lo \in Nat /\ o.hi \in Nat /\ o.lo <= o.hi
  /\ o.n = 0 => o.val \in Words(Width(o))

OneOps  == {"", "~", "-"}
SomeOps == {"&", "|", "^", "+", "-", "*", "&&", "||", "==", "<", "<<", ">>"}

\* Statement i: its operands and their number.  A comparison and a reduction
\* give one bit (two_op_taint_gen and reduce_one_op_taint_gen assert it).
StatementOK(nd, i, len) ==
  LET Operands(n) == DOMAIN nd.ops = 1..n
  IN /\ nd.w \in Nat \ {0} /\ nd.top \in BOOLEAN
     /\ \A k \in DOMAIN nd.ops : OperandOK(nd.ops[k], IF nd.k = "reg" THEN len ELSE i - 1)
     /\ \/ nd.k = "in" /\ Operands(0)
        \/ nd.k = "reg" /\ Operands(1)
        \/ nd.k = "two" /\ Operands(2) /\ nd.op \in SomeOps /\ (nd.op \in CompareOps => nd.w = 1)
        \/ nd.k = "one" /\ Operands(1) /\ nd.op \in OneOps
        \/ nd.k = "red" /\ Operands(1) /\ nd.op \in {"|", "&", "!", "^"} /\ nd.w = 1
        \/ nd.k = "sel" /\ Operands(2)
        \/ /\ nd.k = "cat" /\ Len(nd.ops) \in Nat \ {0} /\ Operands(Len(nd.ops))
           /\ nd.w = Len(Concat([k \in DOMAIN nd.ops |-> Zeros(Width(nd.ops[k]))]))
        \/ nd.k \in {"ite", "case"} /\ Operands(3)

ASSUME NetAssumption ==
  \A d \in Nets : /\ Len(d.node) \in Nat /\ DOMAIN d.node = 1..Len(d.node)
                  /\ \A i \in DOMAIN d.node : StatementOK(d.node[i], i, Len(d.node))

VARIABLES net,          \* the design simulated; the register REG_SEL points at, or 0;
                        \* whether inputs are tainted as a whole, as INSTR_IN_ZY does
          inV, inT,     \* value and taint of the inputs
          inR,          \* relevance of the top's outputs, an input of the tainted top
          val,          \* the registers
          t, tflag, rflag,  \* live_analysis: taint and flags of the registers
          tz            \* write_taint: taint of the registers
vars == <<net, inV, inT, inR, val, t, tflag, rflag, tz>>

Node   == net.node
Nodes  == DOMAIN Node
Kind(k) == {i \in Nodes : Node[i].k = k}
Inputs == Kind("in")
Regs   == Kind("reg")
Comb   == Nodes \ (Inputs \cup Regs)
Tops   == {i \in Nodes : Node[i].top}

InputTaints(i) == IF net.whole THEN {Fill(Node[i].w, b) : b \in BOOLEAN} ELSE Words(Node[i].w)

-----------------------------------------------------------------------------
(* The design itself *)

Get(f, o) == IF o.n = 0 THEN o.val ELSE Part(f[o.n], o.hi, o.lo)

Apply(nd, vs) ==
  CASE nd.k = "two" -> TwoOpValue(nd.op, nd.w, vs[1], vs[2])
    [] nd.k = "one" -> OneOpValue(nd.op, nd.w, vs[1])
    [] nd.k = "red" -> ReduceValue(nd.op, vs[1])
    [] nd.k = "sel" -> Part(vs[1], Num(vs[2]) + nd.w - 1, Num(vs[2]))
    [] nd.k = "cat" -> Concat(vs)
    [] nd.k = "ite" -> Fit(IF AnyBit(vs[1]) THEN vs[2] ELSE vs[3], nd.w)
    [] nd.k = "case" -> IF CaseTaken(vs[1]) = 0 THEN vs[3] ELSE Field(vs[2], CaseTaken(vs[1]), nd.w)

ValueAt(f, i) == CASE i \in Inputs -> inV[i]
                   [] i \in Regs   -> val[i]
                   [] i \in Comb   -> Apply(Node[i], [k \in DOMAIN Node[i].ops |-> Get(f, Node[i].ops[k])])

-----------------------------------------------------------------------------
(* The signals added *)

\* reg_taint_gen hands out the numbers after the reserved ones.
SigOf(i) == 2 + Cardinality({j \in Regs : j <= i})

View(o, v, tn, sig) ==
  [num |-> o.n = 0, n |-> o.n, v |-> Get(v, o),
   t |-> IF o.n = 0 THEN Zeros(Len(o.val)) ELSE Part(tn[o.n], o.hi, o.lo),
   s |-> IF o.n = 0 THEN NoSig ELSE sig[o.n]]

NoSigs == [i \in Nodes |-> NoSig]
Views(i, v, tn, sig) == [k \in DOMAIN Node[i].ops |-> View(Node[i].ops[k], v, tn, sig)]

LiveT(nd, x) ==
  CASE nd.k = "two" -> TwoOpT(nd.op, nd.w, x[1], x[2])
    [] nd.k = "one" -> OneOpT(nd.w, x[1])
    [] nd.k = "red" -> ReduceT(x[1])
    [] nd.k = "sel" -> SelT(nd.w, x[1], x[2])
    [] nd.k = "cat" -> ConcatT(x)
    [] nd.k = "ite" -> IteT(nd.w, x[1], x[2], x[3])
    [] nd.k = "case" -> CaseT(nd.w, x[1], x[2], x[3])

WriteT(nd, x) ==
  CASE nd.k = "two" -> WTwoOpT(nd.op, nd.w, x[1], x[2])
    [] nd.k = "one" -> WOneOpT(nd.w, x[1])
    [] nd.k = "red" -> WReduceT(x[1])
    [] nd.k = "sel" -> WSelT(nd.w, x[1], x[2])
    [] nd.k = "cat" -> WConcatT(x)
    [] nd.k = "ite" -> WIteT(nd.w, x[1], x[2], x[3])
    [] nd.k = "case" -> WCaseT(nd.w, x[1], x[2], x[3])

TaintAt(v, f, i) == CASE i \in Inputs -> inT[i]
                      [] i \in Regs   -> t[i]
                      [] i \in Comb   -> LiveT(Node[i], Views(i, v, f, NoSigs))

WriteTaintAt(v, f, i) ==
  CASE i \in Inputs -> inT[i]
    [] i \in Regs   -> WRegT(tz[i], net.regsel = i, val[i] = Node[i].rst)
    [] i \in Comb   -> WriteT(Node[i], Views(i, v, f, NoSigs))

\* The fields a case finds in its data, if they come from a concatenation.
FieldSigs(i, v, f) ==
  LET b == Node[i].ops[2].n
  IN IF b # 0 /\ Node[b].k = "cat" THEN PackSigs(Views(b, v, v, f), Node[i].w) ELSE <<>>

SigAt(v, f, i) ==
  LET x == Views(i, v, v, f)
  IN CASE i \in Regs        -> SigOf(i)
       [] Node[i].k = "one" -> OneOpSig(Node[i].op, x[1])
       [] Node[i].k = "ite" -> IteSig(x[1], x[2], x[3])
       [] Node[i].k = "case" -> CaseSig(x[1], x[2], x[3], FieldSigs(i, v, f))
       [] OTHER             -> NoSig

\* The wires settle node by node, each from those before it.
At(signal, v, f, i) ==
  CASE signal = "value" -> ValueAt(f, i)
    [] signal = "taint" -> TaintAt(v, f, i)
    [] signal = "write" -> WriteTaintAt(v, f, i)
    [] signal = "sig"   -> SigAt(v, f, i)

Settled(signal, v) ==
  LET upto[n \in 0..Len(Node)] == IF n = 0 THEN <<>> ELSE Append(upto[n - 1], At(signal, v, upto[n - 1], n))
  IN upto[Len(Node)]

Value           == Settled("value", <<>>)
TaintOf(v)      == Settled("taint", v)
WriteTaintOf(v) == Settled("write", v)
SigsOf(v)       == Settled("sig", v)
Taint           == TaintOf(Value)
WriteTaint      == WriteTaintOf(Value)

Src(q)  == Node[q].ops[1]
Keeps(sg) == {q \in Regs : Src(q).n # 0 /\ sg[Src(q).n] = SigOf(q)}
Keeping   == Keeps(SigsOf(Value))

\* What statement j says of its operand k, of operands x, given the
\* relevance r of its destination.
OperandR(j, k, x, r, keeping) ==
  LET nd == Node[j]
  IN CASE nd.k = "two" -> TwoOpR(nd.op, r, x[k], x[3 - k], nd.top)
       [] nd.k = "one" -> OneOpR(r, x[1])
       [] nd.k = "red" -> ReduceR(nd.op, r, x[1])
       [] nd.k = "sel" -> IF k = 1 THEN SelDataR(nd.w, r, x[1], x[2]) ELSE SelIndexR(r, x[2])
       [] nd.k = "cat" -> ConcatR(r, x, k)
       [] nd.k = "ite" -> IF k = 1 THEN IteCondR(r, x[2], x[3])
                          ELSE IteDataR(r, AnyBit(x[1].v) = (k = 2))
       [] nd.k = "case" -> <<CaseSelR(r, x[1], x[2], x[3]), CaseDataR(nd.w, r, x[1], x[2]),
                             CaseDefaultR(r, x[1])>>[k]
       [] nd.k = "reg" -> NonblockR(x[1], j \in keeping, Node[Src(j).n].k = "ite")

Reads(i) == {rd \in UNION {{j} \X DOMAIN Node[j].ops : j \in Nodes} : Node[rd[1]].ops[rd[2]].n = i}

\* The relevance of a variable merges that of all its reads; from the last
\* node to the first.
RelevanceAt(v, tn, keeping, later, i) ==
  LET RelOf(j) == IF j \in Regs THEN <<>> ELSE later[j - i]
      said == {LET o == Node[rd[1]].ops[rd[2]]
               IN Place(OperandR(rd[1], rd[2], Views(rd[1], v, tn, NoSigs), RelOf(rd[1]), keeping),
                        o.hi, o.lo, Node[i].w) : rd \in Reads(i)}
  IN [b \in 1..Node[i].w |-> (i \in Tops /\ inR[i][b]) \/ \E r \in said : r[b]]

RelevanceOf(v, tn, keeping) ==
  LET last[n \in 0..Len(Node)] ==
        IF n = 0 THEN <<>>
        ELSE <<RelevanceAt(v, tn, keeping, last[n - 1], Len(Node) + 1 - n)>> \o last[n - 1]
  IN last[Len(Node)]
Relevance == RelevanceOf(Value, Taint, Keeping)

-----------------------------------------------------------------------------
Init ==
  /\ net \in Nets
  /\ inV \in [Inputs -> UNION {Words(Node[i].w) : i \in Inputs}]
  /\ \A i \in Inputs : Len(inV[i]) = Node[i].w
  /\ inT = [i \in Inputs |-> Zeros(Node[i].w)]
  /\ inR = [i \in Tops |-> Zeros(Node[i].w)]
  /\ val \in [Regs -> UNION {Words(Node[i].w) : i \in Regs}]
  /\ \A i \in Regs : Len(val[i]) = Node[i].w
  /\ t  = [i \in Regs |-> Zeros(Node[i].w)]
  /\ tz = t
  /\ tflag = [i \in Regs |-> FALSE]
  /\ rflag = [i \in Regs |-> FALSE]

Drive(i) ==
  /\ \E v \in Words(Node[i].w) : inV' = [inV EXCEPT ![i] = v]
  /\ UNCHANGED <<net, inT, inR, val, t, tflag, rflag, tz>>

TaintInput(i) ==
  /\ \E x \in InputTaints(i) : inT' = [inT EXCEPT ![i] = x]
  /\ UNCHANGED <<net, inV, inR, val, t, tflag, rflag, tz>>

AskOutput(i) ==
  /\ \E r \in Words(Node[i].w) : inR' = [inR EXCEPT ![i] = r]
  /\ UNCHANGED <<net, inV, inT, val, t, tflag, rflag, tz>>

\* A literal on the right-hand side: the taint and the flags are 0 for good.
Clock(rst) ==
  LET v  == Value
      tn == TaintOf(v)
      wt == WriteTaintOf(v)
      keeping  == Keeps(SigsOf(v))
      rel      == RelevanceOf(v, tn, keeping)
      Loads(q) == Src(q).n # 0
      Whole(f, q) == IF Loads(q) THEN f[Src(q).n] ELSE <<>>
  IN /\ val' = [q \in Regs |-> Get(v, Src(q))]
     /\ t'   = [q \in Regs |-> NonblockT(Node[q].w, rst, Whole(tn, q), q \in keeping)]
     /\ tz'  = [q \in Regs |-> WNonblockTz(Node[q].w, rst, Whole(wt, q))]
     /\ tflag' = [q \in Regs |-> Loads(q) /\ TFlag(rst, tflag[q], Whole(tn, q), q \in keeping)]
     /\ rflag' = [q \in Regs |-> Loads(q) /\ RFlag(rst, rflag[q], tflag[q], rel[q], val[q] = Node[q].rst)]
     /\ UNCHANGED <<net, inV, inT, inR>>

Next ==
  \/ \E i \in Inputs : Drive(i) \/ TaintInput(i)
  \/ \E i \in Tops : AskOutput(i)
  \/ Regs # {} /\ \E rst \in BOOLEAN : Clock(rst)

Spec == Init /\ [][Next]_vars

-----------------------------------------------------------------------------
(* Properties *)

\* The operands of statement i that are variables; what its result would be
\* were operand k another word x.
VarSlots(i) == {k \in DOMAIN Node[i].ops : Node[i].ops[k].n # 0}
Instead(v, i, k, x) ==
  Apply(Node[i], [m \in DOMAIN Node[i].ops |-> IF m = k THEN x ELSE Get(v, Node[i].ops[m])])

\* The patterns of a case exclude each other: at most one bit of its
\* selector is set (Yosys writes parallel_case).
Legal(i, k, x) == Node[i].k = "case" /\ k = 1 => Cardinality({b \in DOMAIN x : x[b]}) <= 1
Parallel(v, i) == \A k \in VarSlots(i) : Legal(i, k, Get(v, Node[i].ops[k]))

LogicOps == {"&&", "||"}
SumOps   == {"+", "-", "*"}

\* Where the rules know the widths they are written for.  A "&&" or "||" with
\* a literal passes the taint of the other operand on bit by bit, so that has
\* to be one bit.  The relevance of an operand is that of the result bit by
\* bit ("FIXME: the width of op1/op2 and dest are not necessarily the same"):
\* a sum needs operands as wide as it is, "|" operands of one width.
ForwardWidths(nd) ==
  nd.k = "two" /\ nd.op \in LogicOps /\ (\E k \in 1..2 : nd.ops[k].n = 0)
    => \A k \in 1..2 : Width(nd.ops[k]) = 1
RelevanceWidths(nd) ==
  /\ nd.k \in {"one", "two"} /\ nd.op \in SumOps => \A k \in DOMAIN nd.ops : Width(nd.ops[k]) >= nd.w
  /\ nd.k = "two" /\ nd.op = "|" => Width(nd.ops[1]) = Width(nd.ops[2])

\* No statement loses the forward taint: if changing only the tainted bits of
\* one operand changes the result, some bit of the result is tainted, in both
\* instrumentations (op_taint_gen.cpp, the "_t" assignments).
ForwardSound ==
  LET v == Value
      Kept(tn) ==
        \A i \in Comb : Parallel(v, i) => \A k \in VarSlots(i) :
          LET own == Get(v, Node[i].ops[k])
              may == Get(tn, Node[i].ops[k])
          IN AnyBit(tn[i]) \/ \A x \in Words(Len(own)) :
               (\A b \in DOMAIN own : x[b] # own[b] => may[b]) /\ Legal(i, k, x)
                  => Instead(v, i, k, x) = v[i]
  IN Kept(TaintOf(v)) /\ Kept(WriteTaintOf(v))

\* Where the code names no bit as the reason: a reduction at its absorbing
\* value, and the selector of a case that takes its default.
Nameless(v, i, k) ==
  LET x == Get(v, Node[i].ops[k])
  IN \/ Node[i].k = "red" /\ Node[i].op = "|" /\ ~AnyBit(x)
     \/ Node[i].k = "red" /\ Node[i].op = "&" /\ ~AnyBit(BitNot(x))
     \/ Node[i].k = "case" /\ k = 1 /\ CaseTaken(x) = 0

\* No statement loses the relevance: if changing one operand changes a
\* relevant bit of the result, some bit of that operand is relevant to the
\* statement (op_taint_gen.cpp, the "_r" assignments).
RelevantSound ==
  LET v   == Value
      tn  == TaintOf(v)
      rel == RelevanceOf(v, tn, Keeping)
  IN \A i \in Comb : Parallel(v, i) => \A k \in VarSlots(i) :
       \/ Nameless(v, i, k)
       \/ AnyBit(OperandR(i, k, Views(i, v, tn, NoSigs), rel[i], {}))
       \/ \A x \in Words(Len(Get(v, Node[i].ops[k]))) : \A b \in 1..Node[i].w :
            rel[i][b] /\ Legal(i, k, x) => Instead(v, i, k, x)[b] = v[i][b]

\* Where a signature does not name what is passed on: the one-bit literal 0
\* under a true condition, read as 1; a literal that a case takes, named
\* after the selector; a slice, named after the whole variable.
Misnamed(v, i) ==
  LET nd == Node[i]
      x  == Views(i, v, v, NoSigs)
      f  == FieldSigs(i, v, NoSigs)
  IN \/ nd.k = "ite" /\ AnyBit(x[1].v) /\ IsStoiOne(x[2]) /\ ~AnyBit(x[2].v)
     \/ nd.k = "case" /\ CaseTaken(x[1].v) \in DOMAIN f /\ f[CaseTaken(x[1].v)] = ConstSig
     \/ \E k \in VarSlots(i) : Len(x[k].v) < Node[nd.ops[k].n].w

\* A register is taken to keep its value only when the word about to be
\* clocked in is the word it holds (nonblock_taint_gen: dest_sig == op1_sig),
\* unless some signature does not name what it stands for.
SigFaithful ==
  LET v == Value
  IN (\E i \in Comb : Misnamed(v, i)) \/ \A q \in Keeping : Get(v, Src(q)) = val[q]

\* What live_analysis takes as written, write_taint does: its taint, with no
\* signatures, is a superset, on every wire and in every register.
WriteCoversLive ==
  LET live == Taint
      write == WriteTaint
  IN \A i \in Nodes : \A b \in DOMAIN live[i] : live[i][b] => write[i][b]

\* The flags of a register give one verdict between two resets, and a
\* register overwritten first is never called read afterwards.
Verdict(q) == IF rflag[q] THEN "read" ELSE IF tflag[q] THEN "written" ELSE "idle"
Monitor == INSTANCE FlagMonitor WITH status <- [q \in Regs |-> Verdict(q)]
FlagsGiveOneVerdict == Monitor!Spec
=============================================================================
