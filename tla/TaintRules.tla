----------------------------- MODULE TaintRules -----------------------------
(***************************************************************************)
(* The Verilog that live_analysis and write_taint add to one statement of  *)
(* a cleaned design (op_taint_gen.cpp of each): for a destination d and    *)
(* its operands,                                                           *)
(*   d_t    the forward taint, a bit set where the data may come from the  *)
(*          instruction's inputs,                                          *)
(*   x_rN   the relevance of operand x to this statement, from d_r,        *)
(*   d_sig  the signature: the number of the register whose value d has.   *)
(*                                                                         *)
(* An operand is a record: num, whether it is a literal; v, its bits; t,   *)
(* its taint; n and s, name and signature of the variable it is a slice    *)
(* of.                                                                     *)
(***************************************************************************)
EXTENDS Words

CompareOps == {"==", "!=", "<", "<=", ">", ">="}
ShiftOps   == {"<<", ">>"}

NoSig    == 0
ConstSig == 1

-----------------------------------------------------------------------------
(* Forward taint, live_analysis *)

\* What operand x brings in while y is what it is.
Through(op, x, y) ==
  CASE op = "&&" -> Truth(AnyBit(x.t) /\ AnyBit(y.v))
    [] op = "||" -> Truth(AnyBit(x.t) /\ Num(y.v) # 1)
    [] op = "&"  -> BitAnd(x.t, y.v)
    [] op = "|"  -> BitAnd(x.t, BitNot(Fit(y.v, Widest(x.v, y.v))))
    [] OTHER     -> x.t

TwoOpT(op, w, x, y) ==
  IF x.num /\ y.num THEN Zeros(w)
  ELSE CASE op \in ShiftOps   -> Fill(w, AnyBit(x.t) \/ AnyBit(y.t))
         [] op \in CompareOps -> Fit(Truth(AnyBit(x.t) \/ AnyBit(y.t)), w)
         [] OTHER -> Fit(CASE x.num -> y.t
                           [] y.num -> x.t
                           [] OTHER -> BitOr(Through(op, x, y), Through(op, y, x)), w)

OneOpT(w, x) == IF x.num THEN Zeros(w) ELSE Fit(x.t, w)

\* Also the concatenations' and the slice's: no bit is added or dropped.
ConcatT(xs) == Concat([i \in DOMAIN xs |-> xs[i].t])

\* Mutant: the index is forgotten.
DataOnlySelT(w, x, y) == IF x.num THEN Zeros(w) ELSE Part(x.t, Num(y.v) + w - 1, Num(y.v))

\* d = x[y +: w]
SelT(w, x, y) ==
  LET at == Num(y.v)
  IN IF x.num THEN Fill(w, AnyBit(y.t))
     ELSE BitOr(Part(x.t, at + w - 1, at), Fill(w, ~y.num /\ AnyBit(y.t)))

ReduceT(x) == Truth(AnyBit(x.t))

\* d = c ? x : y
IteT(w, c, x, y) ==
  LET chosen == IF AnyBit(c.v) THEN x ELSE y
  IN Fit(BitOr(Fill(w, AnyBit(c.t)), IF chosen.num THEN Zeros(w) ELSE chosen.t), w)

\* casez (s) with one pattern per bit of s, the first bit first (the
\* functions Yosys writes for a $pmux): pattern i takes field i of b, and
\* none of them a.
CaseTaken(s)   == IF AnyBit(s) THEN CHOOSE i \in DOMAIN s : s[i] /\ \A j \in 1..(i - 1) : ~s[j] ELSE 0
Field(x, i, w) == Part(x, w * i - 1, w * (i - 1))

CaseT(w, s, b, a) ==
  LET i == CaseTaken(s.v)
  IN IF i = 0 THEN BitOr(IF a.num THEN Zeros(w) ELSE a.t, Fill(w, AnyBit(s.t)))
     ELSE BitOr(IF b.num THEN Zeros(w) ELSE Field(b.t, i, w), Fill(w, s.t[i]))

-----------------------------------------------------------------------------
(* Relevance, live_analysis: r is d_r, the result the relevance of operand *)
(* x, the other operand being y; top says that d is an output of the top.  *)

TwoOpR(op, r, x, y, top) ==
  LET w == Len(x.v)
      Unless(blocked) == Fit(BitAnd(r, Fill(Len(y.v), ~blocked)), w)
  IN CASE op \in CompareOps -> Fill(w, Bit(r, 1))
       [] op \in ShiftOps   -> Fill(w, AnyBit(r))
       [] OTHER ->
            CASE top \/ y.num        -> Fit(r, w)
              [] ~top /\ ~y.num ->
                   CASE op = "||"         -> Unless(AnyBit(y.v))
                     [] op \in {"&&","&"} -> Unless(~AnyBit(y.v))
                     [] op = "|"          -> Unless(Num(y.v) = Num(Fill(w, TRUE)))
                     [] OTHER             -> Fit(r, w)

OneOpR(r, x) == Fit(r, Len(x.v))

\* Operand k of a concatenation, the most significant first.
ConcatR(r, xs, k) ==
  LET lo == Len(Concat([i \in 1..(Len(xs) - k) |-> xs[k + i].v]))
  IN Part(r, lo + Len(xs[k].v) - 1, lo)

SelDataR(w, r, x, y) == Place(r, Num(y.v) + w - 1, Num(y.v), Len(x.v))
SelIndexR(r, y)      == Fill(Len(y.v), AnyBit(r))

ReduceR(op, r, x) ==
  LET all == Fill(Len(x.v), Bit(r, 1))
  IN CASE op = "|" -> BitAnd(all, x.v)
       [] op = "&" -> BitAnd(all, BitNot(x.v))
       [] OTHER    -> all

IteCondR(r, x, y)  == Truth(AnyBit(r) /\ Num(x.v) # Num(y.v))
\* Mutant: the branches are swapped.
OtherDataR(r, taken) == BitAnd(Fill(Len(r), ~taken), r)

IteDataR(r, taken) == BitAnd(Fill(Len(r), taken), r)

CaseDataR(w, r, s, b) ==
  LET i == CaseTaken(s.v)
  IN IF i = 0 THEN Zeros(Len(b.v)) ELSE Place(r, w * i - 1, w * (i - 1), Len(b.v))
CaseDefaultR(r, s) == BitAnd(r, Fill(Len(r), CaseTaken(s.v) = 0))
CaseSelR(r, s, b, a) ==
  IF a.num \/ b.num THEN Fill(Len(s.v), AnyBit(r))
  ELSE [i \in DOMAIN s.v |-> AnyBit(r) /\ i = CaseTaken(s.v)]

-----------------------------------------------------------------------------
(* Signatures, live_analysis.  std::stoi reads the digits before the quote *)
(* of a literal, which are its width: "1" is any literal of one bit, and   *)
(* no sized literal is "0".                                                *)

IsStoiOne(x) == x.num /\ Len(x.v) = 1

\* Mutant: every one-operand statement is taken for a copy.
CopySig(op, x) == IF x.num THEN ConstSig ELSE x.s

OneOpSig(op, x) == IF x.num THEN ConstSig ELSE IF op = "" THEN x.s ELSE NoSig

IteSig(c, x, y) ==
  IF AnyBit(c.v) THEN IF x.num THEN IF IsStoiOne(x) THEN c.s ELSE NoSig ELSE x.s
                 ELSE IF y.num THEN NoSig ELSE y.s

\* The signatures of the fields of width w a concatenation xs (the most
\* significant first) is cut into; a field of one variable and literals
\* counts as the variable, and so does one that a variable begins and ends.
PackSigs(xs, w) ==
  LET none == [n |-> -1, s |-> NoSig]
      zero == [n |-> 0, s |-> NoSig]
      Put(st, x) ==
        LET room == IF st.over > 0 THEN w - st.over ELSE IF st.room = 0 THEN w ELSE st.room
            rest == Len(x.v) - room
            own  == [n |-> x.n, s |-> x.s]
            sig  == IF st.cur = none THEN IF x.num THEN ConstSig ELSE x.s
                    ELSE IF x.num \/ st.cur.n = x.n THEN st.cur.s ELSE NoSig
        IN IF rest >= 0
           THEN [sigs |-> <<sig>> \o st.sigs, cur |-> none, room |-> 0, over |-> rest % w,
                 skip |-> rest \div w]
           ELSE [sigs |-> st.sigs, room |-> -rest, over |-> 0, skip |-> 0,
                 cur |-> IF x.num THEN st.cur ELSE IF st.cur = none THEN own
                         ELSE IF st.cur = own THEN zero ELSE st.cur]
      Skip(st) == [st EXCEPT !.sigs = [i \in 1..st.skip |-> NoSig] \o @, !.skip = 0]
  IN FoldLeft(LAMBDA st, x : Skip(Put(st, x)),
              [sigs |-> <<>>, cur |-> none, room |-> 0, over |-> 0, skip |-> 0], xs).sigs

\* fields: the signatures of b's fields if b is a concatenation, else <<>>.
CaseSig(s, b, a, fields) ==
  LET i == CaseTaken(s.v)
      OrSelector(sig) == IF sig = ConstSig THEN s.s ELSE sig
  IN CASE b.num              -> IF i = 0 /\ ~a.num THEN a.s ELSE ConstSig
       [] ~b.num /\ fields = <<>> -> NoSig
       [] ~b.num /\ fields # <<>> /\ a.num  -> IF i = 0 THEN ConstSig ELSE fields[i]
       [] ~b.num /\ fields # <<>> /\ ~a.num -> OrSelector(IF i = 0 THEN a.s ELSE fields[i])

-----------------------------------------------------------------------------
(* Registers, live_analysis: q <= x at the clock edge, keep being          *)
(* q_sig == x_sig.  q_t reads the whole of the variable x is a slice of.   *)

NonblockT(w, rst, whole_t, keep) ==
  IF rst THEN Zeros(w) ELSE BitAnd(Fit(whole_t, w), Fill(w, ~keep))
NonblockR(x, keep, isIteDest) ==
  IF isIteDest THEN BitAnd(x.t, Fill(Len(x.t), ~keep)) ELSE Zeros(Len(x.t))
TFlag(rst, flag, whole_t, keep) == ~rst /\ (flag \/ (AnyBit(whole_t) /\ ~keep))
\* Mutant: reads after the first write count.
LateRFlag(rst, rflag, tflag, r, atReset) == ~rst /\ (rflag \/ (AnyBit(r) /\ ~atReset))

RFlag(rst, rflag, tflag, r, atReset) == ~rst /\ (rflag \/ (~tflag /\ AnyBit(r) /\ ~atReset))

-----------------------------------------------------------------------------
(* Forward taint, write_taint: no relevance, no signatures, and a register *)
(* is also a source of taint while REG_SEL points at it and it is not at   *)
(* its reset value.                                                        *)

WTwoOpT(op, w, x, y) ==
  LET any == AnyBit(x.t) \/ AnyBit(y.t)
      Guarded(a, b) == CASE op = "&&" -> Truth(AnyBit(a.t) /\ AnyBit(b.v))
                         [] op = "||" -> Truth(AnyBit(a.t) /\ Num(b.v) # 1)
                         [] op = "&"  -> BitAnd(a.t, b.v)
                         [] op = "|"  -> BitAnd(a.t, BitNot(Fit(b.v, Widest(a.v, b.v))))
                         [] OTHER     -> a.t
  IN IF x.num /\ y.num THEN Zeros(w)
     ELSE CASE op \in CompareOps -> Fit(Truth(any), w)
            [] op \in ShiftOps   -> Fill(w, any)
            [] OTHER -> Fit(IF x.num THEN y.t ELSE IF y.num THEN x.t
                            ELSE BitOr(Guarded(x, y), Guarded(y, x)), w)

WOneOpT(w, x) == Fit(IF x.num THEN Zeros(w) ELSE x.t, w)
WSelT(w, x, y) ==
  LET index == Fill(w, ~y.num /\ AnyBit(y.t))
      data  == IF x.num THEN Zeros(w) ELSE Part(x.t, Num(y.v) + w - 1, Num(y.v))
  IN BitOr(data, index)
WReduceT(x)  == Truth(AnyBit(x.t))
WConcatT(xs) == Concat([i \in DOMAIN xs |-> xs[i].t])
\* Mutant: the condition is forgotten.
WDataOnlyIteT(w, c, x, y) == IF AnyBit(c.v) THEN Fit(x.t, w) ELSE Fit(y.t, w)

WIteT(w, c, x, y) ==
  LET cond == Fill(w, AnyBit(c.t))
      Side(o) == IF o.num THEN cond ELSE Fit(BitOr(cond, o.t), w)
  IN IF AnyBit(c.v) THEN Side(x) ELSE Side(y)
WCaseT(w, s, b, a) ==
  LET i == CaseTaken(s.v)
      selector == Fill(w, IF i = 0 THEN AnyBit(s.t) ELSE s.t[i])
      taken    == IF i = 0 THEN a ELSE b
  IN IF taken.num THEN selector
     ELSE BitOr(selector, IF i = 0 THEN a.t ELSE Field(b.t, i, w))
WNonblockTz(w, rst, whole_t) == IF rst THEN Zeros(w) ELSE Fit(whole_t, w)
WRegT(tz, selected, atReset) == BitOr(tz, Fill(Len(tz), selected /\ ~atReset))
=============================================================================
