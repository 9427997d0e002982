---------------------------- MODULE Unroll_proofs ----------------------------
(***************************************************************************)
(* The inputs of an instance that a call gives 0 are not read by the body, *)
(* for every design, target, bound and encoding.                           *)
(***************************************************************************)
EXTENDS Unroll, FiniteSetTheorems, SequenceTheorems, TLAPS

(* A sequence over some set; one that is given element by element.         *)
LEMMA IsSequence == ASSUME NEW S, NEW s, s \in Seq(S) PROVE Sequence(s)
<1>1. PICK n \in Nat : s \in [1 .. n -> S]
  BY SeqDef
<1>2. s \in [1 .. n -> Range(s)]
  <2>1. \A k \in 1 .. n : s[k] \in Range(s)
    BY <1>1 DEF Range
  <2> QED BY <1>1, <2>1
<1> QED BY <1>2, SeqDef DEF Sequence

LEMMA SequenceIs == ASSUME NEW s, Sequence(s) PROVE Len(s) \in Nat /\ DOMAIN s = 1 .. Len(s)
BY DEF Sequence

LEMMA FunIs ==
  ASSUME NEW n \in Nat, NEW f, f = [k \in 1 .. n |-> f[k]]
  PROVE  Sequence(f) /\ Len(f) = n
<1> PICK S : S = {f[k] : k \in 1 .. n}
  OBVIOUS
<1>1. f \in [1 .. n -> S]
  <2>1. \A k \in 1 .. n : f[k] \in S
    OBVIOUS
  <2> QED BY <2>1
<1>2. f \in Seq(S)
  BY <1>1, SeqDef
<1>3. Len(f) = n
  BY <1>1, <1>2
<1> QED BY <1>2, <1>3, IsSequence

(* Induction over a set of numbers.                                        *)
LEMMA NatSetInduction ==
  ASSUME NEW S, 0 \in S, \A n \in Nat : n \in S => n + 1 \in S
  PROVE  Nat \subseteq S
<1>1. SUFFICES ASSUME NEW x \in Nat, x \notin S PROVE FALSE
  OBVIOUS
<1> DEFINE T == (0..x) \ S
           f == [y \in T |-> y - 1]
<1>2. \A y \in T : y \in Nat /\ y # 0 /\ y - 1 \in Nat /\ y - 1 \in T \ {x}
  <2> SUFFICES ASSUME NEW y \in T PROVE y \in Nat /\ y # 0 /\ y - 1 \in Nat /\ y - 1 \in T \ {x}
    OBVIOUS
  <2>1. y \in Nat /\ y # 0 /\ y <= x /\ y \notin S
    OBVIOUS
  <2>2. y - 1 \in Nat /\ y - 1 < x /\ (y - 1) + 1 = y
    BY <2>1
  <2>3. y - 1 \notin S
    BY <2>1, <2>2
  <2> QED BY <2>1, <2>2, <2>3
<1>3. f \in [T -> T \ {x}]
  BY <1>2
<1>4. IsFiniteSet(T) /\ IsFiniteSet(T \ {x}) /\ Cardinality(T \ {x}) < Cardinality(T)
  <2>1. IsFiniteSet(0..x) /\ T \in SUBSET (0..x) /\ x \in T
    BY <1>1, FS_Interval
  <2>2. IsFiniteSet(T) /\ Cardinality(T) \in Nat
        /\ IsFiniteSet(T \ {x}) /\ Cardinality(T \ {x}) = Cardinality(T) - 1
    <3> HIDE DEF T
    <3> QED BY <2>1, FS_Subset, FS_RemoveElement, FS_CardinalityType
  <2> QED BY <2>2
<1>5. \E y, z \in T : y # z /\ f[y] = f[z]
  <2> HIDE DEF T, f
  <2> QED BY <1>3, <1>4, FS_PigeonHole
<1> QED BY <1>2, <1>5

-----------------------------------------------------------------------------
(* The arguments in what the operators make of their operands.             *)
LEMMA InstrArgs ==
  ASSUME NEW op, NEW w, NEW is, NEW of
  PROVE  Args(Instr(op, w, is, of)) =
           IF op = "arg" THEN {is} ELSE UNION {Args(of[k]) : k \in DOMAIN of}
<1> DEFINE Made == [op |-> op, w |-> w, is |-> is, of |-> of,
                    args |-> IF op = "arg" THEN {is} ELSE UNION {of[k].args : k \in DOMAIN of},
                    fits |-> \A k \in DOMAIN of : of[k].fits]
<1>1. Instr(op, w, is, of) = CHOOSE v \in {Made} : TRUE
  BY DEF Instr
<1>2. Instr(op, w, is, of) = Made
  <2> HIDE DEF Made
  <2> QED BY <1>1
<1>3. Made.args = IF op = "arg" THEN {is} ELSE UNION {of[k].args : k \in DOMAIN of}
  OBVIOUS
<1> HIDE DEF Made
<1> QED BY <1>2, <1>3 DEF Args

LEMMA OneArgs ==
  ASSUME NEW op, op # "arg", NEW w, NEW is, NEW a
  PROVE  Args(Instr(op, w, is, <<a>>)) = Args(a)
<1>1. UNION {Args(<<a>>[k]) : k \in DOMAIN <<a>>} = Args(a)
  OBVIOUS
<1>2. Args(Instr(op, w, is, <<a>>)) = UNION {Args(<<a>>[k]) : k \in DOMAIN <<a>>}
  <2>1. PICK of : of = <<a>>
    OBVIOUS
  <2>2. Args(Instr(op, w, is, of)) = UNION {Args(of[k]) : k \in DOMAIN of}
    BY InstrArgs
  <2> QED BY <2>1, <2>2
<1> QED BY <1>1, <1>2

LEMMA TwoArgs ==
  ASSUME NEW op, op # "arg", NEW w, NEW is, NEW a, NEW b
  PROVE  Args(Instr(op, w, is, <<a, b>>)) = Args(a) \cup Args(b)
<1>1. UNION {Args(<<a, b>>[k]) : k \in DOMAIN <<a, b>>} = Args(a) \cup Args(b)
  OBVIOUS
<1>2. Args(Instr(op, w, is, <<a, b>>)) = UNION {Args(<<a, b>>[k]) : k \in DOMAIN <<a, b>>}
  <2>1. PICK of : of = <<a, b>>
    OBVIOUS
  <2>2. Args(Instr(op, w, is, of)) = UNION {Args(of[k]) : k \in DOMAIN of}
    BY InstrArgs
  <2> QED BY <2>1, <2>2
<1> QED BY <1>1, <1>2

LEMMA ThreeArgs ==
  ASSUME NEW op, op # "arg", NEW w, NEW is, NEW a, NEW b, NEW c
  PROVE  Args(Instr(op, w, is, <<a, b, c>>)) = Args(a) \cup Args(b) \cup Args(c)
<1>1. UNION {Args(<<a, b, c>>[k]) : k \in DOMAIN <<a, b, c>>} = Args(a) \cup Args(b) \cup Args(c)
  OBVIOUS
<1>2. Args(Instr(op, w, is, <<a, b, c>>)) = UNION {Args(<<a, b, c>>[k]) : k \in DOMAIN <<a, b, c>>}
  <2>1. PICK of : of = <<a, b, c>>
    OBVIOUS
  <2>2. Args(Instr(op, w, is, of)) = UNION {Args(of[k]) : k \in DOMAIN of}
    BY InstrArgs
  <2> QED BY <2>1, <2>2
<1> QED BY <1>1, <1>2

LEMMA NoArgs == \A x : Args(Const(x)) = {}
<1> SUFFICES ASSUME NEW x PROVE Args(Const(x)) = {}
  OBVIOUS
<1>1. UNION {Args(<<>>[k]) : k \in DOMAIN <<>>} = {}
  OBVIOUS
<1>2. "const" # "arg"
  OBVIOUS
<1> QED BY <1>1, <1>2, InstrArgs DEF Const

LEMMA ExtArgs ==
  ASSUME NEW v, NEW w, NEW signed
  PROVE  Args(Zext(v, w)) = Args(v) /\ Args(Ext(signed, v, w)) = Args(v)
<1>1. \A op \in {"zext", "sext"} : Args(Cast(op, v, w)) = Args(v)
  BY OneArgs DEF Cast
<1> QED BY <1>1 DEF Ext, Zext, Sext

LEMMA BinArgs ==
  ASSUME NEW op, op # "arg", NEW a, NEW b
  PROVE  Args(Bin(op, a, b)) = Args(a) \cup Args(b)
<1>1. Args(Instr(op, a.w, <<>>, <<a, b>>)) = Args(a) \cup Args(b)
  BY TwoArgs
<1> QED BY <1>1 DEF Bin

LEMMA IcmpArgs ==
  ASSUME NEW rel, NEW signed, NEW a, NEW b
  PROVE  Args(Icmp(rel, signed, a, b)) = Args(a) \cup Args(b)
<1>1. "icmp" # "arg"
  OBVIOUS
<1> QED BY <1>1, TwoArgs DEF Icmp

LEMMA ExtractArgs ==
  ASSUME NEW v, NEW hi, NEW lo
  PROVE  Args(Extract(v, hi, lo)) = Args(v)
<1>1. Args(Bin("lshr", v, Const(Word(lo, v.w)))) = Args(v)
  <2>1. "lshr" # "arg"
    OBVIOUS
  <2>2. PICK c : c = Const(Word(lo, v.w))
    OBVIOUS
  <2>3. Args(c) = {}
    BY <2>2, NoArgs
  <2>4. Args(Bin("lshr", v, c)) = Args(v) \cup Args(c)
    BY <2>1, BinArgs
  <2> QED BY <2>2, <2>3, <2>4
<1>2. \A u, w : Args(Cast("trunc", u, w)) = Args(u)
  BY OneArgs DEF Cast
<1> QED BY <1>1, <1>2 DEF Extract

LEMMA UnfitArgs == \A v : Args(Unfit(v)) = Args(v)
BY DEF Unfit, Args

LEMMA ZeroArgs == \A v : Args(Zero(v)) = {}
<1> SUFFICES ASSUME NEW v PROVE Args(Zero(v)) = {}
  OBVIOUS
<1>1. \A x : Args(Const(x)) = {}
  BY NoArgs
<1> HIDE DEF Zeros
<1> QED BY <1>1 DEF Zero

LEMMA TwoOpArgs ==
  ASSUME NEW op \in TwoOps, NEW signed, NEW a, NEW b, NEW w
  PROVE  Args(TwoOp(op, signed, a, b, w)) \subseteq Args(a) \cup Args(b)
<1> DEFINE S == Args(a) \cup Args(b)
<1>1. \A v, n, s : Args(Zext(v, n)) = Args(v) /\ Args(Ext(s, v, n)) = Args(v)
  BY ExtArgs
<1>2. \A name, u, v : name # "arg" => Args(Bin(name, u, v)) = Args(u) \cup Args(v)
  BY BinArgs
<1>3. \A r, s, u, v : Args(Icmp(r, s, u, v)) = Args(u) \cup Args(v)
  BY IcmpArgs
<1>4. \A v, hi, lo : Args(Extract(v, hi, lo)) = Args(v)
  BY ExtractArgs
<1>5. \A v : Args(Nonzero(v)) = Args(v)
  BY <1>3, ZeroArgs DEF Nonzero
<1>6. PICK wide : wide = Max({a.w, b.w})
  OBVIOUS
<1>7. CASE op \in Arithmetic
  <2>1. ArithName(op, signed) # "arg"
    BY <1>7 DEF ArithName, Arithmetic
  <2>2. TwoOp(op, signed, a, b, w) = Bin(ArithName(op, signed), Ext(signed, a, w), Ext(signed, b, w))
    BY <1>7 DEF TwoOp, Arithmetic, Relations
  <2> QED BY <1>1, <1>2, <2>1, <2>2
<1>8. CASE op \in Relations
  <2>1. PICK s : s = (signed \/ op \in SignedRelations)
    OBVIOUS
  <2>2. TwoOp(op, signed, a, b, w) = Icmp(RelName(op), s, Ext(s, a, wide), Ext(s, b, wide))
    BY <1>6, <1>8, <2>1 DEF TwoOp, Arithmetic, Relations
  <2> QED BY <1>1, <1>3, <2>2
<1>9. CASE op \in Shifts
  <2>1. \/ \E name \in {"shl", "lshr", "ashr"} :
             TwoOp(op, signed, a, b, w) = Bin(name, Ext(signed, a, w), Zext(b, w))
        \/ TwoOp(op, signed, a, b, w) = Extract(Bin("ashr", a, Ext(signed, b, a.w)), w - 1, 0)
    BY <1>9 DEF TwoOp, Shifts, Arithmetic, Relations
  <2>2. "shl" # "arg" /\ "lshr" # "arg" /\ "ashr" # "arg"
    OBVIOUS
  <2> QED BY <1>1, <1>2, <1>4, <2>1, <2>2
<1>10. CASE op = "&&"
  <2>1. TwoOp(op, signed, a, b, w) = Bin("and", Nonzero(a), Nonzero(b)) /\ "and" # "arg"
    BY <1>10 DEF TwoOp, Arithmetic, Relations, Shifts
  <2> QED BY <1>2, <1>5, <2>1
<1>11. CASE op = "||"
  <2>1. TwoOp(op, signed, a, b, w) = Bin("or", a, b) /\ "or" # "arg"
    BY <1>11 DEF TwoOp, Arithmetic, Relations, Shifts
  <2> QED BY <1>2, <2>1
<1> QED BY <1>7, <1>8, <1>9, <1>10, <1>11 DEF TwoOps

Unsigned(rel, a, b) == Icmp(rel, FALSE, a, b)

LEMMA UnsignedArgs ==
  ASSUME NEW rel, NEW a, NEW b
  PROVE  Args(Unsigned(rel, a, b)) = Args(a) \cup Args(b)
<1>1. PICK is : is = [rel |-> rel, signed |-> FALSE]
  OBVIOUS
<1>2. Unsigned(rel, a, b) = Instr("icmp", 1, is, <<a, b>>)
  BY <1>1 DEF Icmp, Unsigned
<1>3. "icmp" # "arg"
  OBVIOUS
<1> QED BY <1>2, <1>3, TwoArgs

LEMMA OneOpArgs ==
  ASSUME NEW v
  PROVE  \A op \in {"", "~", "-", "!", "|", "&"} : Args(OneOp(op, v)) \subseteq Args(v)
<1>1. Args(Zero(v)) = {} /\ Args(Zero(Not(v))) = {}
  BY ZeroArgs
<1>2. Args(Not(v)) = Args(v)
  <2>1. PICK c : c = Const(Fill(v.w, TRUE))
    OBVIOUS
  <2>2. "xor" # "arg" /\ Args(c) = {}
    BY <2>1, NoArgs
  <2>3. Args(Bin("xor", v, c)) = Args(v) \cup Args(c)
    BY <2>2, BinArgs
  <2> QED BY <2>1, <2>2, <2>3 DEF Not
<1>3. Args(Unsigned("ne", v, Zero(v))) = Args(v)
  BY <1>1, UnsignedArgs
<1>4. Args(Bin("sub", Zero(v), v)) = Args(v)
  <2>1. "sub" # "arg"
    OBVIOUS
  <2>2. Args(Bin("sub", Zero(v), v)) = Args(Zero(v)) \cup Args(v)
    BY <2>1, BinArgs
  <2> QED BY <1>1, <2>2
<1>5. Args(Unsigned("eq", v, Zero(v))) = Args(v)
  BY <1>1, UnsignedArgs
<1>6. Args(Unsigned("eq", Not(v), Zero(v))) = Args(v)
  BY <1>1, <1>2, UnsignedArgs
<1>7. /\ OneOp("", v) = v /\ OneOp("~", v) = Not(v) /\ OneOp("-", v) = Bin("sub", Zero(v), v)
      /\ OneOp("!", v) = Unsigned("eq", v, Zero(v)) /\ OneOp("|", v) = Unsigned("ne", v, Zero(v))
      /\ OneOp("&", v) = Unsigned("eq", Not(v), Zero(v))
  BY DEF OneOp, Unsigned, Nonzero
<1> QED BY <1>2, <1>3, <1>4, <1>5, <1>6, <1>7

LEMMA SelOpArgs ==
  ASSUME NEW a, NEW b, NEW w
  PROVE  Args(SelOp(a, b, w)) \subseteq Args(a) \cup Args(b)
<1>1. PICK x : x = TwoOp(">>", FALSE, a, b, Max({a.w, b.w}))
  OBVIOUS
<1>2. Args(x) \subseteq Args(a) \cup Args(b)
  BY <1>1, TwoOpArgs DEF TwoOps, Shifts
<1> QED BY <1>1, <1>2, ExtractArgs DEF SelOp

LEMMA IteArgs ==
  ASSUME NEW c, NEW a, NEW b
  PROVE  /\ Args(Select(c, a, b)) = Args(c) \cup Args(a) \cup Args(b)
         /\ Args(IsOne(c)) = Args(c)
         /\ Args(Ite(c, a, b)) = Args(c) \cup Args(a) \cup Args(b)
<1>1. "select" # "arg"
  OBVIOUS
<1>2. \A d : Args(Select(d, a, b)) = Args(d) \cup Args(a) \cup Args(b)
  BY <1>1, ThreeArgs DEF Select
<1>3. Args(IsOne(c)) = Args(c)
  <2>1. PICK one : one = Const(<<TRUE>>)
    OBVIOUS
  <2>2. Args(one) = {}
    BY <2>1, NoArgs
  <2>3. IsOne(c) = Unsigned("eq", c, one)
    BY <2>1 DEF IsOne, Unsigned
  <2>4. Args(Unsigned("eq", c, one)) = Args(c) \cup Args(one)
    BY UnsignedArgs
  <2> QED BY <2>2, <2>3, <2>4
<1> QED BY <1>2, <1>3 DEF Ite

LEMMA Concat2Args ==
  ASSUME NEW a, NEW b
  PROVE  Args(Concat2(a, b)) = Args(a) \cup Args(b)
<1>1. \A name, u, x : name # "arg" => Args(Bin(name, u, x)) = Args(u) \cup Args(x)
  BY BinArgs
<1>2. \A u, n : Args(Zext(u, n)) = Args(u)
  BY ExtArgs
<1>3. PICK c : c = Const(Word(b.w, a.w + b.w))
  OBVIOUS
<1>4. Args(c) = {} /\ "add" # "arg" /\ "shl" # "arg"
  BY <1>3, NoArgs
<1>5. Concat2(a, b) = Bin("add", Bin("shl", Zext(a, a.w + b.w), c), Zext(b, a.w + b.w))
  BY <1>3 DEF Concat2
<1> QED BY <1>1, <1>2, <1>4, <1>5

LEMMA CatArgs ==
  ASSUME NEW vs, Sequence(vs), Len(vs) > 0
  PROVE  Args(CatOp(vs)) \subseteq UNION {Args(vs[k]) : k \in DOMAIN vs}
<1> DEFINE top == Len(vs)
           S == UNION {Args(vs[k]) : k \in DOMAIN vs}
           Rule(f, n) == f = [k \in 0 .. n |-> IF k = 0 THEN vs[top] ELSE Concat2(vs[top - k], f[k - 1])]
           A == {n \in Nat : \E f : Rule(f, n)}
<1> HIDE DEF Rule
<1>1. 0 \in A
  <2>1. PICK h : h = [k \in 0 .. 0 |-> vs[top]]
    OBVIOUS
  <2>2. \A k \in 0 .. 0 : k = 0
    OBVIOUS
  <2>3. Rule(h, 0)
    BY <2>1, <2>2 DEF Rule
  <2> QED BY <2>3
<1>2. \A n \in Nat : n \in A => n + 1 \in A
  <2> SUFFICES ASSUME NEW n \in Nat, n \in A PROVE \E f : Rule(f, n + 1)
    OBVIOUS
  <2>1. PICK f : Rule(f, n)
    OBVIOUS
  <2> DEFINE g == [k \in 0 .. n + 1 |-> IF k = 0 THEN vs[top] ELSE Concat2(vs[top - k], f[k - 1])]
  <2>2. \A k \in 0 .. n : g[k] = f[k]
    BY <2>1 DEF Rule
  <2>3. \A k \in 1 .. n + 1 : k - 1 \in 0 .. n
    OBVIOUS
  <2>4. \A k \in 0 .. n + 1 : k # 0 => g[k - 1] = f[k - 1]
    <3> HIDE DEF g
    <3> QED BY <2>2, <2>3
  <2>5. Rule(g, n + 1)
    <3>1. PICK h : h = g
      OBVIOUS
    <3>2. h = [k \in 0 .. n + 1 |-> IF k = 0 THEN vs[top] ELSE Concat2(vs[top - k], f[k - 1])]
      BY <3>1
    <3>3. \A k \in 0 .. n + 1 : k # 0 => h[k - 1] = f[k - 1]
      BY <2>4, <3>1
    <3>4. Rule(h, n + 1)
      BY <3>2, <3>3 DEF Rule
    <3> QED BY <3>1, <3>4
  <2> HIDE DEF g
  <2> QED BY <2>5
<1>3. top - 1 \in Nat
  BY DEF Sequence
<1>4. \E f : Rule(f, top - 1)
  <2>1. Nat \subseteq A
    <3> HIDE DEF A
    <3> QED BY <1>1, <1>2, NatSetInduction
  <2> QED BY <1>3, <2>1
<1>5. PICK f : Rule(f, top - 1) /\ CatOp(vs) = f[top - 1]
  <2>1. CatOp(vs) = (CHOOSE f : Rule(f, top - 1))[top - 1]
    BY DEF CatOp, Rule
  <2> QED BY <1>4, <2>1
<1>6. \A k \in 0 .. top - 1 : f[k] = IF k = 0 THEN vs[top] ELSE Concat2(vs[top - k], f[k - 1])
  BY <1>5 DEF Rule
<1> DEFINE B == {n \in Nat : n <= top - 1 => Args(f[n]) \subseteq S}
<1>7. 0 \in B
  <2>1. f[0] = vs[top] /\ top \in DOMAIN vs
    BY <1>3, <1>6 DEF Sequence
  <2> QED BY <2>1
<1>8. \A n \in Nat : n \in B => n + 1 \in B
  <2> SUFFICES ASSUME NEW n \in Nat, n \in B, n + 1 <= top - 1 PROVE Args(f[n + 1]) \subseteq S
    OBVIOUS
  <2>1. n + 1 \in 0 .. top - 1 /\ n + 1 # 0 /\ (n + 1) - 1 = n /\ n <= top - 1 /\ top - (n + 1) \in DOMAIN vs
    BY <1>3 DEF Sequence
  <2>2. f[n + 1] = Concat2(vs[top - (n + 1)], f[n])
    BY <1>6, <2>1
  <2>3. Args(f[n]) \subseteq S /\ Args(vs[top - (n + 1)]) \subseteq S
    BY <2>1
  <2> QED BY <2>2, <2>3, Concat2Args
<1>9. Nat \subseteq B
  <2> HIDE DEF B
  <2> QED BY <1>7, <1>8, NatSetInduction
<1>10. top - 1 \in B
  <2> HIDE DEF B
  <2> QED BY <1>3, <1>9
<1>11. Args(f[top - 1]) \subseteq S
  BY <1>3, <1>10
<1> HIDE DEF S
<1>12. Args(CatOp(vs)) \subseteq S
  BY <1>5, <1>11
<1> QED BY <1>12 DEF S

LEMMA CaseArgs ==
  ASSUME NEW sel, NEW at, NEW vals, NEW default, NEW S, Sequence(at),
         Args(sel) \subseteq S, Args(default) \subseteq S,
         \A k \in DOMAIN at : Args(vals[k]) \subseteq S
  PROVE  Args(CaseOp(sel, at, vals, default)) \subseteq S
<1> DEFINE top == Len(at)
           Pick(k, rest) == Select(IsOne(Extract(sel, at[k], at[k])), vals[k], rest)
           Rule(f, n) == f = [k \in 0 .. n |-> IF k = 0 THEN default ELSE Pick(top + 1 - k, f[k - 1])]
           A == {n \in Nat : \E f : Rule(f, n)}
<1> HIDE DEF Rule, Pick
<1>1. 0 \in A
  <2>1. PICK h : h = [k \in 0 .. 0 |-> default]
    OBVIOUS
  <2>2. \A k \in 0 .. 0 : k = 0
    OBVIOUS
  <2>3. Rule(h, 0)
    BY <2>1, <2>2 DEF Rule
  <2> QED BY <2>3
<1>2. \A n \in Nat : n \in A => n + 1 \in A
  <2> SUFFICES ASSUME NEW n \in Nat, n \in A PROVE \E f : Rule(f, n + 1)
    OBVIOUS
  <2>1. PICK f : Rule(f, n)
    OBVIOUS
  <2> DEFINE g == [k \in 0 .. n + 1 |-> IF k = 0 THEN default ELSE Pick(top + 1 - k, f[k - 1])]
  <2>2. \A k \in 0 .. n : g[k] = f[k]
    BY <2>1 DEF Rule
  <2>3. \A k \in 1 .. n + 1 : k - 1 \in 0 .. n
    OBVIOUS
  <2>4. \A k \in 0 .. n + 1 : k # 0 => g[k - 1] = f[k - 1]
    <3> HIDE DEF g
    <3> QED BY <2>2, <2>3
  <2>5. Rule(g, n + 1)
    <3>1. PICK h : h = g
      OBVIOUS
    <3>2. h = [k \in 0 .. n + 1 |-> IF k = 0 THEN default ELSE Pick(top + 1 - k, f[k - 1])]
      BY <3>1
    <3>3. \A k \in 0 .. n + 1 : k # 0 => h[k - 1] = f[k - 1]
      BY <2>4, <3>1
    <3>4. Rule(h, n + 1)
      BY <3>2, <3>3 DEF Rule
    <3> QED BY <3>1, <3>4
  <2> HIDE DEF g
  <2> QED BY <2>5
<1>3. top \in Nat /\ DOMAIN at = 1 .. top
  BY DEF Sequence
<1>4. \E f : Rule(f, top)
  <2>1. Nat \subseteq A
    <3> HIDE DEF A
    <3> QED BY <1>1, <1>2, NatSetInduction
  <2> QED BY <1>3, <2>1
<1>5. PICK f : Rule(f, top) /\ CaseOp(sel, at, vals, default) = f[top]
  <2>1. CaseOp(sel, at, vals, default) = (CHOOSE f : Rule(f, top))[top]
    BY DEF CaseOp, Rule, Pick
  <2> QED BY <1>4, <2>1
<1>6. \A k \in 0 .. top : f[k] = IF k = 0 THEN default ELSE Pick(top + 1 - k, f[k - 1])
  BY <1>5 DEF Rule
<1>7. \A k \in DOMAIN at : \A rest : Args(rest) \subseteq S => Args(Pick(k, rest)) \subseteq S
  <2> SUFFICES ASSUME NEW k \in DOMAIN at, NEW rest, Args(rest) \subseteq S
               PROVE  Args(Pick(k, rest)) \subseteq S
    OBVIOUS
  <2>1. PICK b : b = Extract(sel, at[k], at[k])
    OBVIOUS
  <2>2. Args(b) \subseteq S
    BY <2>1, ExtractArgs
  <2>3. Args(IsOne(b)) = Args(b)
    BY IteArgs
  <2>4. Args(Select(IsOne(b), vals[k], rest)) = Args(IsOne(b)) \cup Args(vals[k]) \cup Args(rest)
    BY IteArgs
  <2> QED BY <2>1, <2>2, <2>3, <2>4 DEF Pick
<1> DEFINE B == {n \in Nat : n <= top => Args(f[n]) \subseteq S}
<1>8. 0 \in B
  BY <1>3, <1>6
<1>9. \A n \in Nat : n \in B => n + 1 \in B
  <2> SUFFICES ASSUME NEW n \in Nat, n \in B, n + 1 <= top PROVE Args(f[n + 1]) \subseteq S
    OBVIOUS
  <2>1. n + 1 \in 0 .. top /\ n + 1 # 0 /\ (n + 1) - 1 = n /\ n <= top /\ top + 1 - (n + 1) \in DOMAIN at
    BY <1>3
  <2>2. f[n + 1] = Pick(top + 1 - (n + 1), f[n])
    BY <1>6, <2>1
  <2>3. Args(f[n]) \subseteq S
    BY <2>1
  <2> QED BY <1>7, <2>1, <2>2, <2>3
<1>10. top \in B
  <2>1. Nat \subseteq B
    <3> HIDE DEF B
    <3> QED BY <1>8, <1>9, NatSetInduction
  <2> HIDE DEF B
  <2> QED BY <1>3, <2>1
<1> QED BY <1>3, <1>5, <1>10

LEMMA MixedArgs ==
  ASSUME NEW pieces, Sequence(pieces), Len(pieces) > 0, NEW a
  PROVE  Args(MixedValue(pieces, a)) \subseteq Args(a)
<1> DEFINE Piece(k) == LET lo == PieceLo(pieces, k)
                       IN IF pieces[k].bits = <<>> THEN Extract(a, lo + pieces[k].w - 1, lo)
                                                   ELSE Const(pieces[k].bits)
<1>1. \A k \in DOMAIN pieces : Args(Piece(k)) \subseteq Args(a)
  <2> SUFFICES ASSUME NEW k \in DOMAIN pieces PROVE Args(Piece(k)) \subseteq Args(a)
    OBVIOUS
  <2>1. PICK lo, hi : lo = PieceLo(pieces, k) /\ hi = lo + pieces[k].w - 1
    OBVIOUS
  <2>2. Piece(k) = IF pieces[k].bits = <<>> THEN Extract(a, hi, lo) ELSE Const(pieces[k].bits)
    BY <2>1
  <2> HIDE DEF Piece
  <2> QED BY <2>2, ExtractArgs, NoArgs
<1>2. PICK vs : vs = [k \in DOMAIN pieces |-> Piece(k)]
  OBVIOUS
<1>3. MixedValue(pieces, a) = CatOp(vs)
  BY <1>2 DEF MixedValue
<1> HIDE DEF Piece
<1>4. Sequence(vs) /\ Len(vs) > 0 /\ \A k \in DOMAIN vs : Args(vs[k]) \subseteq Args(a)
  <2>1. DOMAIN vs = 1 .. Len(pieces) /\ Len(pieces) \in Nat
    BY <1>2 DEF Sequence
  <2>2. Len(vs) = Len(pieces)
    BY <2>1
  <2>3. Sequence(vs)
    BY <1>2, <2>1, FunIs
  <2> QED BY <1>1, <1>2, <2>1, <2>2, <2>3
<1>5. UNION {Args(vs[k]) : k \in DOMAIN vs} \subseteq Args(a)
  BY <1>4
<1>6. Args(CatOp(vs)) \subseteq UNION {Args(vs[k]) : k \in DOMAIN vs}
  BY <1>4, CatArgs
<1> QED BY <1>3, <1>5, <1>6
-----------------------------------------------------------------------------
(* The modules above one, from Top down.                                   *)
LEMMA Rank ==
  \E rank \in [DOMAIN Node -> 0 .. Cardinality(DOMAIN Node)] :
    /\ Cardinality(DOMAIN Node) \in Nat
    /\ \A m \in DOMAIN Node : \A i \in DOMAIN InsMod[m] :
         InsMod[m][i] \in DOMAIN Node /\ rank[InsMod[m][i]] < rank[m]
    /\ \A m \in DOMAIN Node \ {Top} :
         Parent[m].in \in DOMAIN Node /\ rank[m] < rank[Parent[m].in]
<1>1. Cardinality(DOMAIN Node) \in Nat
  BY HierarchyAssumption, FS_CardinalityType
<1>2. PICK rank \in [DOMAIN Node -> 0 .. Cardinality(DOMAIN Node)] :
        \A m \in DOMAIN Node : \A i \in DOMAIN InsMod[m] : rank[InsMod[m][i]] < rank[m]
  BY HierarchyAssumption
<1>3. \A m \in DOMAIN Node : \A i \in DOMAIN InsMod[m] : InsMod[m][i] \in DOMAIN Node
  BY HierarchyAssumption
<1>4. \A m \in DOMAIN Node \ {Top} :
        /\ Parent[m].in \in DOMAIN Node /\ Parent[m].ins \in DOMAIN InsMod[Parent[m].in]
        /\ InsMod[Parent[m].in][Parent[m].ins] = m
  BY HierarchyAssumption
<1>5. \A m \in DOMAIN Node \ {Top} : Parent[m].in \in DOMAIN Node /\ rank[m] < rank[Parent[m].in]
  BY <1>2, <1>4
<1> QED BY <1>1, <1>2, <1>3, <1>5

Upward(m, s) ==
  /\ s \in Seq(DOMAIN Node) /\ Len(s) > 0 /\ s[1] = Top /\ s[Len(s)] = m
  /\ \A k \in 2 .. Len(s) : s[k] # Top /\ s[k - 1] = Parent[s[k]].in

LEMMA AncestryIs ==
  /\ Ancestry = [m \in DOMAIN Node |-> Ancestry[m]] /\ Ancestry[Top] = <<Top>>
  /\ \A m \in DOMAIN Node \ {Top} : Ancestry[m] = Append(Ancestry[Parent[m].in], m)
<1> DEFINE C == Cardinality(DOMAIN Node)
<1>1. PICK rank \in [DOMAIN Node -> 0 .. C] :
        /\ C \in Nat
        /\ \A m \in DOMAIN Node \ {Top} : Parent[m].in \in DOMAIN Node /\ rank[m] < rank[Parent[m].in]
  BY Rank
<1> DEFINE D(n) == {m \in DOMAIN Node : C - rank[m] <= n}
           Rule(f, S) == f = [m \in S |-> IF m = Top THEN <<Top>> ELSE Append(f[Parent[m].in], m)]
           A == {n \in Nat : \E f : Rule(f, D(n))}
<1> HIDE DEF C
<1>2. \A m \in DOMAIN Node : C - rank[m] \in Nat
  BY <1>1
<1>3. \A n \in Nat : \A m \in D(n + 1) : m = Top \/ Parent[m].in \in D(n)
  <2> SUFFICES ASSUME NEW n \in Nat, NEW m \in D(n + 1), m # Top PROVE Parent[m].in \in D(n)
    OBVIOUS
  <2>1. rank[m] \in Nat /\ rank[Parent[m].in] \in Nat /\ Parent[m].in \in DOMAIN Node
    BY <1>1
  <2>2. rank[m] < rank[Parent[m].in] /\ C - rank[m] <= n + 1
    BY <1>1
  <2> QED BY <1>1, <2>1, <2>2
<1>4. \A m \in D(0) : m = Top
  <2> SUFFICES ASSUME NEW m \in DOMAIN Node, C - rank[m] <= 0, m # Top PROVE FALSE
    OBVIOUS
  <2>1. rank[m] \in 0 .. C /\ rank[Parent[m].in] \in 0 .. C /\ rank[m] < rank[Parent[m].in]
    BY <1>1
  <2> QED BY <1>1, <2>1
<1> HIDE DEF D, Rule
<1>5. 0 \in A
  <2>1. PICK h : h = [m \in D(0) |-> <<Top>>]
    OBVIOUS
  <2>2. Rule(h, D(0))
    BY <1>4, <2>1 DEF Rule
  <2> QED BY <2>2
<1>6. \A n \in Nat : n \in A => n + 1 \in A
  <2> SUFFICES ASSUME NEW n \in Nat, n \in A PROVE \E f : Rule(f, D(n + 1))
    OBVIOUS
  <2>1. PICK f : Rule(f, D(n))
    OBVIOUS
  <2>2. D(n) \subseteq D(n + 1)
    BY <1>2 DEF D
  <2>3. PICK g : g = [m \in D(n + 1) |-> IF m = Top THEN <<Top>> ELSE Append(f[Parent[m].in], m)]
    OBVIOUS
  <2>4. \A m \in D(n) : g[m] = f[m]
    BY <2>1, <2>2, <2>3 DEF Rule
  <2>5. \A m \in D(n + 1) : m # Top => g[Parent[m].in] = f[Parent[m].in]
    BY <1>3, <2>4
  <2>6. Rule(g, D(n + 1))
    BY <2>3, <2>5 DEF Rule
  <2> QED BY <2>6
<1>7. Nat \subseteq A
  <2> HIDE DEF A
  <2> QED BY <1>5, <1>6, NatSetInduction
<1>8. D(C) = DOMAIN Node
  <2>1. \A m \in DOMAIN Node : C - rank[m] <= C
    BY <1>1
  <2> QED BY <2>1 DEF D
<1>9. \E f : Rule(f, DOMAIN Node)
  BY <1>1, <1>7, <1>8
<1>10. Rule(Ancestry, DOMAIN Node)
  <2>1. Ancestry = CHOOSE f : Rule(f, DOMAIN Node)
    BY DEF Ancestry, Rule
  <2> QED BY <1>9, <2>1
<1>11. PICK f : f = Ancestry
  OBVIOUS
<1>12. f = [m \in DOMAIN Node |-> IF m = Top THEN <<Top>> ELSE Append(f[Parent[m].in], m)]
  BY <1>10, <1>11 DEF Rule
<1>13. /\ f = [m \in DOMAIN Node |-> f[m]] /\ f[Top] = <<Top>>
       /\ \A m \in DOMAIN Node \ {Top} : f[m] = Append(f[Parent[m].in], m)
  BY <1>12, DesignAssumption
<1> QED BY <1>11, <1>13

LEMMA AncestryUp == \A m \in DOMAIN Node : Upward(m, Ancestry[m])
<1> DEFINE C == Cardinality(DOMAIN Node)
<1>1. PICK rank \in [DOMAIN Node -> 0 .. C] :
        /\ C \in Nat
        /\ \A m \in DOMAIN Node \ {Top} : Parent[m].in \in DOMAIN Node /\ rank[m] < rank[Parent[m].in]
  BY Rank
<1> DEFINE B == {n \in Nat : \A m \in DOMAIN Node : C - rank[m] < n => Upward(m, Ancestry[m])}
<1> HIDE DEF C
<1>2. 0 \in B
  BY <1>1
<1>3. \A n \in Nat : n \in B => n + 1 \in B
  <2> SUFFICES ASSUME NEW n \in Nat, n \in B, NEW m \in DOMAIN Node, C - rank[m] < n + 1
               PROVE  Upward(m, Ancestry[m])
    OBVIOUS
  <2>1. CASE m = Top
    <3>1. PICK s : s = <<Top>>
      OBVIOUS
    <3>2. Upward(Top, s)
      BY <3>1, DesignAssumption DEF Upward
    <3> QED BY <2>1, <3>1, <3>2, AncestryIs
  <2>2. CASE m # Top
    <3>1. PICK p : p = Parent[m].in
      OBVIOUS
    <3>2. p \in DOMAIN Node /\ rank[m] < rank[p] /\ rank[m] \in Nat /\ rank[p] \in Nat
      BY <1>1, <2>2, <3>1
    <3>3. C - rank[p] < n
      BY <1>1, <3>2
    <3>4. Upward(p, Ancestry[p])
      BY <3>2, <3>3
    <3>5. PICK s, t : s = Ancestry[p] /\ t = Ancestry[m] /\ t = Append(s, m)
      BY <2>2, <3>1, AncestryIs
    <3>6. s \in Seq(DOMAIN Node) /\ Len(s) > 0 /\ s[1] = Top /\ s[Len(s)] = p
          /\ \A k \in 2 .. Len(s) : s[k] # Top /\ s[k - 1] = Parent[s[k]].in
      BY <3>4, <3>5 DEF Upward
    <3>7. t \in Seq(DOMAIN Node) /\ Len(t) = Len(s) + 1 /\ t[Len(t)] = m /\ \A k \in 1 .. Len(s) : t[k] = s[k]
      BY <3>5, <3>6
    <3>8. \A k \in 2 .. Len(t) : t[k] # Top /\ t[k - 1] = Parent[t[k]].in
      <4> SUFFICES ASSUME NEW k \in 2 .. Len(t) PROVE t[k] # Top /\ t[k - 1] = Parent[t[k]].in
        OBVIOUS
      <4> PICK n0 \in Nat : n0 = Len(s)
        BY <3>6
      <4>0. n0 > 0 /\ Len(t) = n0 + 1 /\ k \in 2 .. n0 + 1
        BY <3>6, <3>7
      <4>1. CASE k = Len(t)
        <5>1. k - 1 = n0 /\ n0 \in 1 .. n0
          BY <4>0, <4>1
        <5>2. t[k] = m /\ t[k - 1] = s[n0] /\ s[n0] = p
          BY <3>6, <3>7, <4>1, <5>1
        <5> QED BY <2>2, <3>1, <5>2
      <4>2. CASE k # Len(t)
        <5>1. k \in 2 .. Len(s) /\ k - 1 \in 1 .. Len(s)
          BY <4>0, <4>2
        <5>2. t[k] = s[k] /\ t[k - 1] = s[k - 1]
          BY <3>7, <5>1
        <5> QED BY <3>6, <5>1, <5>2
      <4> QED BY <4>1, <4>2
    <3>9. t[1] = Top /\ Len(t) > 0
      BY <3>6, <3>7
    <3>10. Upward(m, t)
      BY <3>7, <3>8, <3>9 DEF Upward
    <3> QED BY <3>5, <3>10
  <2> QED BY <2>1, <2>2
<1>4. Nat \subseteq B
  <2> HIDE DEF B
  <2> QED BY <1>2, <1>3, NatSetInduction
<1>5. \A m \in DOMAIN Node : C - rank[m] < C + 1 /\ C + 1 \in Nat
  BY <1>1
<1>6. C + 1 \in B
  BY <1>1, <1>4
<1> QED BY <1>5, <1>6
-----------------------------------------------------------------------------
(* In what follows d stands for minDelay and sh for Shared, so that what a *)
(* step does to a stack can be said of any stack.                          *)
(* An input of a module with a function of its own is noted, at the level  *)
(* it is read at or an earlier one.                                        *)
Noted(leaf, d, sh) ==
  leaf[2] = "in" /\ leaf[1][1] \notin sh /\ leaf[3][1] # Rst[leaf[1][1]]
    => /\ leaf[1][1] \notin FlatMods /\ leaf[1] \in DOMAIN d
       /\ leaf[3][1] \in Ports(leaf[1][1]) /\ leaf[4] \in Nat
       /\ d[leaf[1]][leaf[3][1]] <= leaf[4]
Good(v, d, sh)    == \A leaf \in Args(v) : Noted(leaf, d, sh)
GoodSeq(s, d, sh) == Sequence(s) /\ \A k \in 1 .. Len(s) : Good(s[k], d, sh)

DelaysOK(d) ==
  d = [f \in DOMAIN d |-> d[f]] /\ \A f \in DOMAIN d : d[f] \in [Ports(f[1]) -> Nat]

(* Notes are added and lowered.                                            *)
Falls(d, e, sh) ==
  /\ DelaysOK(d) /\ DelaysOK(e) /\ DOMAIN d \subseteq DOMAIN e
  /\ \A f \in DOMAIN d : f[1] \notin sh \cup FlatMods => \A p \in Ports(f[1]) : e[f][p] <= d[f][p]

(* A path of instances from Top.                                           *)
HierOK(h, d, sh) ==
  /\ Sequence(h) /\ Len(h) > 0 /\ h[1].m = Top
  /\ \A k \in 1 .. Len(h) : /\ h[k].m \in DOMAIN Node
                            /\ h[k].m \in sh \/ <<h[k].m, h[k].tgt>> \in DOMAIN d
  /\ \A k \in 2 .. Len(h) : \E i \in DOMAIN InsMod[h[k - 1].m] : h[k].m = InsMod[h[k - 1].m][i]

Mod(h)       == Last(h).m
NodeOf(fr)   == Node[Mod(fr.hier)][fr.v]
Through(fr)  == NodeOf(fr).kind = "in" /\ Mod(fr.hier) \in FlatMods
Asker(fr)    == IF Through(fr) THEN Front(fr.hier) ELSE fr.hier
CalleeOf(fr) == <<InsMod[Mod(fr.hier)][NodeOf(fr).is.ins], NodeOf(fr).is.port>>

(* A call collects as many operands as its handler reads.                  *)
Arity(fr) ==
  LET n == NodeOf(fr)
  IN /\ n.kind # "mem" /\ (n.kind = "in" => Through(fr) /\ Len(fr.asks) = 1)
     /\ n.kind \notin {"in", "sub", "dynsel"} => Len(fr.asks) = Len(n.src)

FrameOK(fr, d, sh) ==
  /\ fr = [hier |-> fr.hier, v |-> fr.v, t |-> fr.t, step |-> fr.step, asks |-> fr.asks, got |-> fr.got]
  /\ HierOK(fr.hier, d, sh) /\ fr.v \in DOMAIN Node[Mod(fr.hier)] /\ fr.t \in Nat
  /\ fr.step = "body" => NodeOf(fr).kind = "sub" /\ CalleeOf(fr)[1] \notin sh
  /\ fr.step = "collect" => Arity(fr)
  /\ Sequence(fr.asks) /\ GoodSeq(fr.got, d, sh)
  /\ \A k \in 1 .. Len(fr.asks) : fr.asks[k].t \in Nat /\ Known(Mod(Asker(fr)), fr.asks[k].o)

(* What is elaborated for a body stays within the instance of the call.    *)
Height == CHOOSE rank \in [DOMAIN Node -> 0 .. Cardinality(DOMAIN Node)] :
            \A m \in DOMAIN Node : \A i \in DOMAIN InsMod[m] : rank[InsMod[m][i]] < rank[m]
Elaborates(fr) == fr.step = "body" /\ CalleeOf(fr)[1] \notin FlatMods
Under(h, fr) ==
  LET n == Len(fr.hier)
  IN /\ Len(h) > n /\ h[n + 1].m = CalleeOf(fr)[1]
     /\ \A k \in n + 1 .. Len(h) : Height[h[k].m] <= Height[CalleeOf(fr)[1]]

StackOK(s, d, sh) ==
  /\ Sequence(s) /\ \A k \in 1 .. Len(s) : FrameOK(s[k], d, sh)
  /\ \A j, k \in 1 .. Len(s) : k < j /\ Elaborates(s[k]) => Under(s[j].hier, s[k])

(* What has notes has a body, or is being elaborated.                      *)
Traced(d, fs, s, sh) ==
  \A f \in DOMAIN d : \/ f[1] \in sh \/ f \in DOMAIN fs
                      \/ \E k \in 1 .. Len(s) : s[k].step = "body" /\ CalleeOf(s[k]) = f

RetOK(r, d, sh) == r = <<>> \/ \E v : r = <<v>> /\ Good(v, d, sh)

StoresOK(mm, fs, ar, d, sh) ==
  /\ \A key \in DOMAIN mm : Good(mm[key], d, sh)
  /\ \A f \in DOMAIN fs : f[1] \notin sh /\ Good(fs[f], d, sh)
  /\ ar = [a \in DOMAIN ar |-> ar[a]]
  /\ \A a \in DOMAIN ar :
       /\ ar[a] = [last |-> ar[a].last, levels |-> ar[a].levels, stores |-> ar[a].stores]
       /\ ar[a].last \in Nat /\ GoodSeq(ar[a].stores, d, sh)

IInv ==
  /\ job \in Jobs /\ bound \in Bounds /\ instr \in Instrs
  /\ DelaysOK(minDelay) /\ StackOK(stack, minDelay, Shared) /\ RetOK(ret, minDelay, Shared)
  /\ StoresOK(memo, funcs, arrays, minDelay, Shared)
  /\ IF aborted THEN stack = <<>> /\ ret = <<>> ELSE Traced(minDelay, funcs, stack, Shared)
  /\ Sequence(result)

LEMMA HeightFalls ==
  /\ Height \in [DOMAIN Node -> 0 .. Cardinality(DOMAIN Node)] /\ Cardinality(DOMAIN Node) \in Nat
  /\ \A m \in DOMAIN Node : \A i \in DOMAIN InsMod[m] : Height[InsMod[m][i]] < Height[m]
BY Rank DEF Height

LEMMA GoodKept ==
  ASSUME NEW d, NEW e, NEW sh, Falls(d, e, sh), NEW v, Good(v, d, sh)
  PROVE  Good(v, e, sh)
<1> SUFFICES ASSUME NEW leaf \in Args(v), Noted(leaf, d, sh) PROVE Noted(leaf, e, sh)
  BY DEF Good
<1> PICK f, p, n : f = leaf[1] /\ p = leaf[3][1] /\ n = leaf[4]
  OBVIOUS
<1> SUFFICES ASSUME leaf[2] = "in", f[1] \notin sh, p # Rst[f[1]]
             PROVE  f[1] \notin FlatMods /\ f \in DOMAIN e /\ p \in Ports(f[1]) /\ n \in Nat /\ e[f][p] <= n
  BY DEF Noted
<1>1. f[1] \notin FlatMods /\ f \in DOMAIN d /\ p \in Ports(f[1]) /\ n \in Nat /\ d[f][p] <= n
  BY DEF Noted
<1>2. f \in DOMAIN e /\ e[f][p] <= d[f][p] /\ d[f] \in [Ports(f[1]) -> Nat] /\ e[f] \in [Ports(f[1]) -> Nat]
  BY <1>1 DEF Falls, DelaysOK
<1> QED BY <1>1, <1>2

LEMMA SeqKept ==
  ASSUME NEW d, NEW e, NEW sh, Falls(d, e, sh), NEW s, GoodSeq(s, d, sh)
  PROVE  GoodSeq(s, e, sh)
BY GoodKept DEF GoodSeq

LEMMA FrameKept ==
  ASSUME NEW d, NEW e, NEW sh, Falls(d, e, sh), NEW fr, FrameOK(fr, d, sh)
  PROVE  FrameOK(fr, e, sh)
<1>1. HierOK(fr.hier, e, sh)
  BY DEF FrameOK, HierOK, Falls
<1>2. GoodSeq(fr.got, e, sh)
  BY SeqKept DEF FrameOK
<1> QED BY <1>1, <1>2 DEF FrameOK

LEMMA StackKept ==
  ASSUME NEW d, NEW e, NEW sh, Falls(d, e, sh), NEW s, StackOK(s, d, sh)
  PROVE  StackOK(s, e, sh)
BY FrameKept DEF StackOK

LEMMA StoresKept ==
  ASSUME NEW d, NEW e, NEW sh, Falls(d, e, sh), NEW mm, NEW fs, NEW ar, StoresOK(mm, fs, ar, d, sh)
  PROVE  StoresOK(mm, fs, ar, e, sh)
BY GoodKept, SeqKept DEF StoresOK
-----------------------------------------------------------------------------
(* Stacks with a frame less, more or changed.                              *)
LEMMA FrontIs ==
  ASSUME NEW s, Sequence(s), Len(s) > 0
  PROVE  /\ Sequence(Front(s)) /\ Len(Front(s)) = Len(s) - 1 /\ Len(s) \in Nat
         /\ \A k \in 1 .. Len(s) - 1 : Front(s)[k] = s[k]
         /\ Last(s) = s[Len(s)]
<1> PICK S : s \in Seq(S)
  BY DEF Sequence
<1> PICK f : f = SubSeq(s, 1, Len(s) - 1)
  OBVIOUS
<1>1. f \in Seq(S) /\ Len(f) = Len(s) - 1 /\ \A k \in 1 .. Len(s) - 1 : f[k] = s[k]
  <2>1. Len(s) \in Nat /\ Len(s) - 1 \in Nat /\ \A k \in 1 .. Len(s) : s[k] \in S
    OBVIOUS
  <2>2. PICK n : n = Len(s) - 1
    OBVIOUS
  <2>3. n \in Nat /\ 1 \in Int /\ n \in Int /\ \A k \in 1 .. n : s[k] \in S
    BY <2>1, <2>2
  <2>4. /\ SubSeq(s, 1, n) \in Seq(S) /\ Len(SubSeq(s, 1, n)) = IF 1 <= n THEN n - 1 + 1 ELSE 0
        /\ \A k \in 1 .. n - 1 + 1 : SubSeq(s, 1, n)[k] = s[1 + k - 1]
    BY ONLY <2>3, SubSeqProperties
  <2>5. f \in Seq(S) /\ Len(f) = n /\ \A k \in 1 .. n : f[k] = s[k]
    BY <2>2, <2>3, <2>4
  <2> QED BY <2>2, <2>5
<1>2. f = Front(s)
  BY DEF Front
<1>3. Sequence(f)
  BY <1>1, IsSequence
<1> QED BY <1>1, <1>2, <1>3 DEF Last

LEMMA AppendIs ==
  ASSUME NEW s, Sequence(s), NEW x
  PROVE  /\ Sequence(Append(s, x)) /\ Len(Append(s, x)) = Len(s) + 1 /\ Len(s) \in Nat
         /\ Append(s, x)[Len(s) + 1] = x /\ \A k \in 1 .. Len(s) : Append(s, x)[k] = s[k]
         /\ Last(Append(s, x)) = x
<1> PICK S : s \in Seq(S)
  BY DEF Sequence
<1> PICK T, a : T = S \cup {x} /\ a = Append(s, x)
  OBVIOUS
<1>1. s \in Seq(T) /\ x \in T
  BY SeqMonotonic
<1>2. a \in Seq(T) /\ Len(a) = Len(s) + 1 /\ a[Len(s) + 1] = x /\ \A k \in 1 .. Len(s) : a[k] = s[k]
  BY <1>1
<1>3. Sequence(a)
  BY <1>2, IsSequence
<1> QED BY <1>2, <1>3 DEF Last

LEMMA NothingIs == Sequence(<<>>) /\ Len(<<>>) = 0
<1>1. PICK s : s = <<>>
  OBVIOUS
<1>2. s \in Seq(Nat) /\ Len(s) = 0
  BY <1>1, EmptySeq
<1> QED BY <1>1, <1>2, IsSequence

LEMMA PopOK ==
  ASSUME NEW s, NEW d, NEW sh, StackOK(s, d, sh), Len(s) > 0
  PROVE  StackOK(Front(s), d, sh)
BY FrontIs DEF StackOK

LEMMA PushOK ==
  ASSUME NEW s, NEW d, NEW sh, StackOK(s, d, sh), NEW fr, FrameOK(fr, d, sh),
         \A k \in 1 .. Len(s) : Elaborates(s[k]) => Under(fr.hier, s[k])
  PROVE  StackOK(Append(s, fr), d, sh)
<1> PICK t, n : t = Append(s, fr) /\ n = Len(s)
  OBVIOUS
<1>1. Sequence(t) /\ Len(t) = n + 1 /\ n \in Nat /\ t[n + 1] = fr /\ \A k \in 1 .. n : t[k] = s[k]
  BY AppendIs DEF StackOK
<1>2. \A k \in 1 .. Len(t) : k = n + 1 \/ k \in 1 .. n
  BY <1>1
<1>3. \A k \in 1 .. Len(t) : FrameOK(t[k], d, sh)
  BY <1>1, <1>2 DEF StackOK
<1>4. ASSUME NEW j \in 1 .. Len(t), NEW k \in 1 .. Len(t), k < j, Elaborates(t[k])
      PROVE  Under(t[j].hier, t[k])
  <2>1. k \in 1 .. n /\ t[k] = s[k]
    BY <1>1, <1>2, <1>4
  <2>2. CASE j = n + 1
    BY <1>1, <1>4, <2>1, <2>2
  <2>3. CASE j \in 1 .. n
    BY <1>1, <1>4, <2>1, <2>3 DEF StackOK
  <2> QED BY <1>2, <2>2, <2>3
<1> QED BY <1>1, <1>3, <1>4 DEF StackOK

LEMMA SwapOK ==
  ASSUME NEW s, NEW d, NEW sh, StackOK(s, d, sh), Len(s) > 0, NEW fr, FrameOK(fr, d, sh),
         fr.hier = Last(s).hier
  PROVE  StackOK(Append(Front(s), fr), d, sh)
<1>1. StackOK(Front(s), d, sh)
  BY PopOK
<1>2. /\ Len(Front(s)) = Len(s) - 1 /\ Len(s) \in Nat
      /\ \A k \in 1 .. Len(s) - 1 : Front(s)[k] = s[k]
      /\ Last(s) = s[Len(s)]
  BY FrontIs DEF StackOK
<1>3. \A k \in 1 .. Len(Front(s)) : Elaborates(Front(s)[k]) => Under(fr.hier, Front(s)[k])
  BY <1>2 DEF StackOK
<1> QED BY <1>1, <1>3, PushOK

LEMMA PopTraced ==
  ASSUME NEW s, Sequence(s), Len(s) > 0, Last(s).step # "body", NEW d, NEW e, NEW fs, NEW sh,
         Traced(d, fs, s, sh), DOMAIN e = DOMAIN d
  PROVE  Traced(e, fs, Front(s), sh)
<1>1. /\ Len(Front(s)) = Len(s) - 1 /\ Len(s) \in Nat
      /\ \A k \in 1 .. Len(s) - 1 : Front(s)[k] = s[k]
      /\ Last(s) = s[Len(s)]
  BY FrontIs
<1> SUFFICES ASSUME NEW f \in DOMAIN d, f[1] \notin sh, f \notin DOMAIN fs
             PROVE  \E k \in 1 .. Len(Front(s)) : Front(s)[k].step = "body" /\ CalleeOf(Front(s)[k]) = f
  BY DEF Traced
<1>2. PICK k \in 1 .. Len(s) : s[k].step = "body" /\ CalleeOf(s[k]) = f
  BY DEF Traced
<1>3. k \in 1 .. Len(s) - 1
  BY <1>1, <1>2
<1> QED BY <1>1, <1>2, <1>3

LEMMA PushTraced ==
  ASSUME NEW s, Sequence(s), NEW fr, NEW d, NEW e, NEW fs, NEW sh, Traced(d, fs, s, sh),
         DOMAIN e \subseteq DOMAIN d \cup (IF fr.step = "body" THEN {CalleeOf(fr)} ELSE {})
  PROVE  Traced(e, fs, Append(s, fr), sh)
<1>1. /\ Len(Append(s, fr)) = Len(s) + 1 /\ Len(s) \in Nat
      /\ Append(s, fr)[Len(s) + 1] = fr /\ \A k \in 1 .. Len(s) : Append(s, fr)[k] = s[k]
  BY AppendIs
<1> SUFFICES ASSUME NEW f \in DOMAIN e, f[1] \notin sh, f \notin DOMAIN fs
             PROVE  \E k \in 1 .. Len(Append(s, fr)) : /\ Append(s, fr)[k].step = "body"
                                                       /\ CalleeOf(Append(s, fr)[k]) = f
  BY DEF Traced
<1>2. CASE f \in DOMAIN d
  <2>1. PICK k \in 1 .. Len(s) : s[k].step = "body" /\ CalleeOf(s[k]) = f
    BY <1>2 DEF Traced
  <2> QED BY <1>1, <2>1
<1>3. CASE fr.step = "body" /\ f = CalleeOf(fr)
  BY <1>1, <1>3
<1> QED BY <1>2, <1>3

LEMMA SameDelays == ASSUME NEW d, NEW sh, DelaysOK(d) PROVE Falls(d, d, sh)
<1>1. \A f \in DOMAIN d : \A p \in Ports(f[1]) : d[f][p] \in Nat
  BY DEF DelaysOK
<1>2. \A f \in DOMAIN d : \A p \in Ports(f[1]) : d[f][p] <= d[f][p]
  BY <1>1
<1> QED BY <1>2 DEF Falls

(* The call that is innermost.                                             *)
LEMMA TopFrame ==
  ASSUME IInv, stack # <<>>
  PROVE  /\ Sequence(stack) /\ Len(stack) > 0 /\ ~aborted /\ Traced(minDelay, funcs, stack, Shared)
         /\ FrameOK(F, minDelay, Shared)
         /\ Here.m = Mod(F.hier) /\ N = NodeOf(F) /\ FromParent = Through(F) /\ Callee = CalleeOf(F)
<1>1. Sequence(stack) /\ StackOK(stack, minDelay, Shared) /\ ~aborted
  BY DEF IInv, StackOK
<1>2. Len(stack) \in Nat /\ Len(stack) > 0
  <2> PICK S : stack \in Seq(S)
    BY <1>1 DEF Sequence
  <2> QED OBVIOUS
<1>3. F = stack[Len(stack)] /\ Len(stack) \in 1 .. Len(stack)
  BY <1>2 DEF F, Last
<1>4. FrameOK(F, minDelay, Shared)
  BY <1>1, <1>3 DEF StackOK
<1>5. Here.m = Mod(F.hier)
  BY DEF Here, Mod
<1>6. N = NodeOf(F)
  BY <1>5 DEF N, NodeOf
<1>7. FromParent = Through(F)
  BY <1>5, <1>6 DEF FromParent, Through
<1>8. Callee = CalleeOf(F)
  BY <1>5, <1>6 DEF Callee, CalleeOf
<1> QED BY <1>1, <1>2, <1>4, <1>5, <1>6, <1>7, <1>8 DEF IInv

LEMMA AnyStep ==
  ASSUME IInv, UNCHANGED given, Sequence(result'),
         StackOK(stack', minDelay', Shared), RetOK(ret', minDelay', Shared),
         StoresOK(memo', funcs', arrays', minDelay', Shared), DelaysOK(minDelay'),
         IF aborted' THEN stack' = <<>> /\ ret' = <<>> ELSE Traced(minDelay', funcs', stack', Shared)
  PROVE  IInv'
<1>1. Shared' = Shared
  BY DEF given, Shared
<1> QED BY <1>1 DEF IInv, given

LEMMA ReturnStep ==
  ASSUME IInv, stack # <<>>, F.step # "body", UNCHANGED <<given, funcs, ends>>,
         Falls(minDelay, minDelay', Shared), DOMAIN minDelay' = DOMAIN minDelay,
         NEW val, Return(val), Good(val, minDelay', Shared),
         StoresOK(memo', funcs', arrays', minDelay', Shared)
  PROVE  IInv'
<1>1. Sequence(stack) /\ Len(stack) > 0 /\ ~aborted /\ Traced(minDelay, funcs, stack, Shared)
  BY TopFrame
<1>2. StackOK(stack, minDelay', Shared)
  BY StackKept DEF IInv
<1>3. StackOK(stack', minDelay', Shared)
  BY <1>1, <1>2, PopOK DEF Return
<1>4. Traced(minDelay', funcs', stack', Shared)
  BY <1>1, PopTraced DEF Return, F
<1>5. RetOK(ret', minDelay', Shared)
  BY DEF Return, RetOK
<1> QED BY <1>1, <1>3, <1>4, <1>5, AnyStep DEF ends, Falls, IInv

LEMMA BecomeStep ==
  ASSUME IInv, stack # <<>>, F.step # "body", UNCHANGED <<given, funcs, ends>>,
         Falls(minDelay, minDelay', Shared), DOMAIN minDelay' = DOMAIN minDelay,
         NEW fr, Become(fr), FrameOK(fr, minDelay', Shared), fr.hier = F.hier, fr.step # "body",
         ret' \in {ret, <<>>}, StoresOK(memo', funcs', arrays', minDelay', Shared)
  PROVE  IInv'
<1>1. Sequence(stack) /\ Len(stack) > 0 /\ ~aborted /\ Traced(minDelay, funcs, stack, Shared)
  BY TopFrame
<1>2. StackOK(stack, minDelay', Shared)
  BY StackKept DEF IInv
<1>3. StackOK(stack', minDelay', Shared)
  BY <1>1, <1>2, SwapOK DEF Become, F
<1>4. Traced(minDelay', funcs', stack', Shared)
  <2>1. Traced(minDelay', funcs, Front(stack), Shared)
    BY <1>1, PopTraced DEF F
  <2>2. Sequence(Front(stack))
    BY <1>1, FrontIs
  <2> QED BY <2>1, <2>2, PushTraced DEF Become
<1>5. RetOK(ret', minDelay', Shared)
  BY GoodKept DEF RetOK, IInv
<1> QED BY <1>1, <1>3, <1>4, <1>5, AnyStep DEF ends, Falls, IInv
-----------------------------------------------------------------------------
(* Frames as they are made.                                                *)
LEMMA HierMod ==
  ASSUME NEW h, NEW d, NEW sh, HierOK(h, d, sh)
  PROVE  /\ Len(h) \in Nat /\ Len(h) > 0 /\ Last(h) = h[Len(h)] /\ Mod(h) = h[Len(h)].m
         /\ Mod(h) \in DOMAIN Node
         /\ Mod(h) \in sh \/ <<Mod(h), Last(h).tgt>> \in DOMAIN d
<1>1. Len(h) \in Nat /\ Len(h) > 0 /\ Last(h) = h[Len(h)]
  BY FrontIs DEF HierOK
<1>2. Len(h) \in 1 .. Len(h)
  BY <1>1
<1> QED BY <1>1, <1>2 DEF HierOK, Mod

LEMMA NewFrame ==
  ASSUME NEW h, NEW d, NEW sh, HierOK(h, d, sh), NEW v, v \in DOMAIN Node[Mod(h)], NEW t \in Nat
  PROVE  FrameOK(Frame(h, v, t), d, sh) /\ Frame(h, v, t).step = "enter" /\ Frame(h, v, t).hier = h
<1> PICK e : e = <<>>
  OBVIOUS
<1> PICK fr : fr = [hier |-> h, v |-> v, t |-> t, step |-> "enter", asks |-> e, got |-> e]
  OBVIOUS
<1>1. fr = Frame(h, v, t)
  BY DEF Frame
<1>2. Sequence(e) /\ Len(e) = 0
  BY NothingIs
<1>3. FrameOK(fr, d, sh)
  BY <1>2 DEF FrameOK, GoodSeq
<1> QED BY <1>1, <1>3

LEMMA ChainOK ==
  ASSUME NEW m \in DOMAIN Node, NEW tgt, NEW d, NEW sh, Range(Ancestry[m]) \subseteq sh
  PROVE  HierOK(ChainTo(m, tgt), d, sh) /\ Mod(ChainTo(m, tgt)) = m
<1> PICK s, h : s = Ancestry[m] /\ h = ChainTo(m, tgt)
  OBVIOUS
<1>1. /\ s \in Seq(DOMAIN Node) /\ Len(s) > 0 /\ s[1] = Top /\ s[Len(s)] = m
      /\ \A k \in 2 .. Len(s) : s[k] # Top /\ s[k - 1] = Parent[s[k]].in
  BY AncestryUp DEF Upward
<1>2. PICK n \in Nat : n = Len(s) /\ n > 0 /\ DOMAIN s = 1 .. n /\ \A k \in 1 .. n : s[k] \in DOMAIN Node
  BY <1>1
<1>3. h = [k \in 1 .. n |-> Ctx(s[k], tgt, IF s[k] = Top THEN Top ELSE Parent[s[k]].ins)]
  BY <1>2 DEF ChainTo
<1>4. h = [k \in 1 .. n |-> h[k]] /\ \A k \in 1 .. n : h[k].m = s[k]
  BY <1>3 DEF Ctx
<1>5. Sequence(h) /\ Len(h) = n
  BY <1>4, FunIs
<1>6. \A k \in 1 .. n : s[k] \in sh
  BY <1>2 DEF Range
<1>7. \A k \in 2 .. n : \E i \in DOMAIN InsMod[h[k - 1].m] : h[k].m = InsMod[h[k - 1].m][i]
  <2> SUFFICES ASSUME NEW k \in 2 .. n
               PROVE  \E i \in DOMAIN InsMod[h[k - 1].m] : h[k].m = InsMod[h[k - 1].m][i]
    OBVIOUS
  <2>1. k \in 1 .. n /\ k - 1 \in 1 .. n
    BY <1>2
  <2>2. s[k] \in DOMAIN Node \ {Top} /\ h[k].m = s[k] /\ h[k - 1].m = Parent[s[k]].in
    BY <1>1, <1>2, <1>4, <2>1
  <2>3. /\ Parent[s[k]].ins \in DOMAIN InsMod[Parent[s[k]].in]
        /\ InsMod[Parent[s[k]].in][Parent[s[k]].ins] = s[k]
    BY <2>2, HierarchyAssumption
  <2> QED BY <2>2, <2>3
<1>8. 1 \in 1 .. n /\ n \in 1 .. n
  BY <1>2
<1>9. HierOK(h, d, sh)
  <2>1. Len(h) > 0 /\ h[1].m = Top
    BY <1>1, <1>2, <1>4, <1>5, <1>8
  <2>2. \A k \in 1 .. Len(h) : h[k].m \in DOMAIN Node /\ h[k].m \in sh
    BY <1>2, <1>4, <1>5, <1>6
  <2>3. \A k \in 2 .. Len(h) : \E i \in DOMAIN InsMod[h[k - 1].m] : h[k].m = InsMod[h[k - 1].m][i]
    BY <1>5, <1>7
  <2> QED BY <1>5, <2>1, <2>2, <2>3 DEF HierOK
<1>10. Mod(h) = m
  <2>1. Mod(h) = h[Len(h)].m
    BY <1>9, HierMod
  <2>2. h[n].m = s[n] /\ s[n] = m
    BY <1>1, <1>2, <1>4, <1>8
  <2> QED BY <1>5, <2>1, <2>2
<1> QED BY <1>9, <1>10

LEMMA OneCall ==
  ASSUME NEW fr, NEW d, NEW sh, FrameOK(fr, d, sh), fr.step # "body", NEW fs, Traced(d, fs, <<>>, sh)
  PROVE  StackOK(<<fr>>, d, sh) /\ Traced(d, fs, <<fr>>, sh)
<1> PICK e : e = <<>>
  OBVIOUS
<1>1. Sequence(e) /\ Len(e) = 0 /\ Append(e, fr) = <<fr>>
  BY NothingIs
<1>2. StackOK(e, d, sh)
  BY <1>1 DEF StackOK
<1>3. StackOK(Append(e, fr), d, sh)
  <2>1. \A k \in 1 .. Len(e) : Elaborates(e[k]) => Under(fr.hier, e[k])
    BY <1>1
  <2> QED BY <1>2, <2>1, PushOK
<1>4. Traced(d, fs, Append(e, fr), sh)
  BY <1>1, PushTraced
<1> QED BY <1>1, <1>3, <1>4
-----------------------------------------------------------------------------
(* The initial states, and the next target of a vector.                    *)
LEMMA JobIs ==
  ASSUME job \in Jobs
  PROVE  /\ job.in \in DOMAIN Node /\ Top \in DOMAIN Node
         /\ Range(Ancestry[job.in]) \subseteq Shared /\ Range(Ancestry[Top]) \subseteq Shared
         /\ Sequence(job.dests) /\ job.dests # <<>>
         /\ \A k \in DOMAIN job.dests : job.dests[k] \in DOMAIN Node[job.in]
         /\ Len(job.dests) > 1 => job.in = Top
         /\ \A m \in Shared : m = Top \/ m \in FlatMods
<1>1. /\ job.in \in DOMAIN Node /\ Sequence(job.dests) /\ job.dests # <<>>
      /\ Range(job.dests) \subseteq DOMAIN Node[job.in] /\ Above(job.in) \subseteq FlatMods
      /\ Len(job.dests) > 1 => job.in = Top
  BY JobAssumption
<1>2. Range(Ancestry[job.in]) \subseteq Shared
  BY DEF Shared, Above
<1>3. Range(Ancestry[Top]) \subseteq Shared
  <2>1. PICK s : s = <<Top>>
    OBVIOUS
  <2>2. Range(s) = {Top}
    BY <2>1 DEF Range
  <2> QED BY <2>1, <2>2, AncestryIs DEF Shared
<1>4. \A k \in DOMAIN job.dests : job.dests[k] \in Range(job.dests)
  BY DEF Range
<1> QED BY <1>1, <1>2, <1>3, <1>4, DesignAssumption DEF Shared

LEMMA TargetCall ==
  ASSUME job \in Jobs, NEW d, NEW tgt, NEW v, NEW m \in DOMAIN Node, Range(Ancestry[m]) \subseteq Shared,
         v \in DOMAIN Node[m], NEW fs, Traced(d, fs, <<>>, Shared)
  PROVE  LET s == <<Frame(ChainTo(m, tgt), v, 0)>>
         IN StackOK(s, d, Shared) /\ Traced(d, fs, s, Shared)
<1> PICK h, sh : h = ChainTo(m, tgt) /\ sh = Shared
  OBVIOUS
<1>1. HierOK(h, d, sh) /\ Mod(h) = m
  BY ChainOK
<1>2. FrameOK(Frame(h, v, 0), d, sh) /\ Frame(h, v, 0).step = "enter"
  BY <1>1, NewFrame
<1>3. PICK fr : fr = Frame(h, v, 0)
  OBVIOUS
<1>4. StackOK(<<fr>>, d, sh) /\ Traced(d, fs, <<fr>>, sh)
  BY <1>2, <1>3, OneCall
<1> QED BY <1>3, <1>4

LEMMA InitOK == Init => IInv
<1> SUFFICES ASSUME Init PROVE IInv
  OBVIOUS
<1>1. job \in Jobs /\ bound \in Bounds /\ instr \in Instrs /\ ~aborted
  BY DEF Init
<1>2. DelaysOK(minDelay) /\ \A f \in DOMAIN minDelay : f[1] \in Shared
  <2>1. PICK D : D = {<<m, DestName(job)>> : m \in Above(job.in)}
    OBVIOUS
  <2>2. minDelay = [f \in D |-> Unread(f[1])]
    BY <2>1 DEF Init
  <2>3. \A f \in D : f[1] \in Shared
    BY <2>1 DEF Shared
  <2>4. \A m : Unread(m) \in [Ports(m) -> Nat]
    BY DesignAssumption DEF Unread
  <2> QED BY <2>2, <2>3, <2>4 DEF DelaysOK
<1>3. Traced(minDelay, funcs, <<>>, Shared)
  BY <1>2 DEF Traced
<1>4. job.dests[1] \in DOMAIN Node[job.in]
  <2>1. PICK s, S : s = job.dests /\ s \in Seq(S) /\ s # <<>> /\ \A k \in DOMAIN s : s[k] \in DOMAIN Node[job.in]
    BY <1>1, JobIs DEF Sequence
  <2>2. 1 \in DOMAIN s
    BY <2>1
  <2> QED BY <2>1, <2>2
<1>5. StackOK(stack, minDelay, Shared) /\ Traced(minDelay, funcs, stack, Shared)
  BY <1>1, <1>3, <1>4, JobIs, TargetCall DEF Init
<1>6. StoresOK(memo, funcs, arrays, minDelay, Shared)
  <2>1. PICK e : e = <<>>
    OBVIOUS
  <2>2. DOMAIN e = {} /\ e = [a \in DOMAIN e |-> e[a]]
    BY <2>1
  <2>3. memo = e /\ funcs = e /\ arrays = e
    BY <2>1 DEF Init
  <2> QED BY <2>2, <2>3 DEF StoresOK
<1>7. RetOK(ret, minDelay, Shared) /\ Sequence(result)
  BY NothingIs DEF Init, RetOK
<1> QED BY <1>1, <1>2, <1>5, <1>6, <1>7 DEF IInv

LEMMA DeliverStep == ASSUME IInv, Deliver PROVE IInv'
<1>1. /\ stack = <<>> /\ ret # <<>> /\ ret' = <<>>
      /\ result' = Append(result, ret[1])
      /\ UNCHANGED <<given, memo, funcs, minDelay, arrays, aborted>>
  BY DEF Deliver
<1>2. PICK next : next = Len(result) + 2
  OBVIOUS
<1>3. stack' = IF next \notin DOMAIN job.dests THEN <<>>
               ELSE <<Frame(ChainTo(Top, job.dests[next]), job.dests[next], 0)>>
  BY <1>2 DEF Deliver
<1>4. ~aborted /\ Traced(minDelay, funcs, <<>>, Shared) /\ Sequence(result) /\ job \in Jobs
  BY <1>1 DEF IInv
<1>5. StackOK(stack', minDelay, Shared) /\ Traced(minDelay, funcs, stack', Shared)
  <2>1. CASE next \notin DOMAIN job.dests
    BY <1>1, <1>3, <1>4, <2>1 DEF IInv
  <2>2. CASE next \in DOMAIN job.dests
    <3>1. Len(result) \in Nat
      BY <1>4, SequenceIs
    <3>2. Sequence(job.dests) /\ Len(job.dests) \in Nat /\ DOMAIN job.dests = 1 .. Len(job.dests)
      BY <1>4, JobIs, SequenceIs
    <3>3. job.in = Top
      BY <1>2, <1>4, <2>2, <3>1, <3>2, JobIs
    <3>4. job.dests[next] \in DOMAIN Node[Top] /\ Top \in DOMAIN Node /\ Range(Ancestry[Top]) \subseteq Shared
      BY <1>4, <2>2, <3>3, JobIs
    <3> QED BY <1>3, <1>4, <2>2, <3>4, TargetCall
  <2> QED BY <2>1, <2>2
<1>6. Sequence(result')
  BY <1>1, <1>4, AppendIs
<1>7. RetOK(ret', minDelay', Shared)
  BY <1>1 DEF RetOK
<1> QED BY <1>1, <1>4, <1>5, <1>6, <1>7, AnyStep DEF IInv, given

LEMMA AbortStep == ASSUME IInv, Abort PROVE IInv'
<1>1. StackOK(<<>>, minDelay, Shared)
  <2>1. PICK e : e = <<>>
    OBVIOUS
  <2>2. Sequence(e) /\ Len(e) = 0
    BY <2>1, NothingIs
  <2>3. StackOK(e, minDelay, Shared)
    BY <2>2 DEF StackOK
  <2> QED BY <2>1, <2>3
<1>2. ret = <<>>
  BY DEF Abort, Entering, Active
<1> QED BY <1>1, <1>2, AnyStep DEF Abort, IInv, given

LEMMA CutOffStep == ASSUME IInv, CutOff PROVE IInv'
<1>1. stack # <<>> /\ F.step = "enter" /\ Return(Unfit(Zero(N)))
  BY DEF CutOff, Active
<1>2. PICK val : val = Unfit(Zero(N))
  OBVIOUS
<1>3. Good(val, minDelay, Shared)
  <2>1. PICK z : z = Zero(N)
    OBVIOUS
  <2>2. Args(z) = {}
    BY <2>1, ZeroArgs
  <2>3. Args(val) = {}
    BY <1>2, <2>1, <2>2, UnfitArgs
  <2> QED BY <2>3 DEF Good
<1>4. UNCHANGED <<given, memo, funcs, minDelay, arrays, ends>>
  BY DEF CutOff
<1>5. Falls(minDelay, minDelay', Shared) /\ StoresOK(memo', funcs', arrays', minDelay', Shared)
  BY <1>4, SameDelays DEF IInv
<1> QED BY <1>1, <1>2, <1>3, <1>4, <1>5, ReturnStep

LEMMA HitStep == ASSUME IInv, Hit PROVE IInv'
<1>1. stack # <<>> /\ F.step = "enter" /\ MemoKey \in DOMAIN memo /\ Return(memo[MemoKey])
  BY DEF Hit, Active
<1>2. UNCHANGED <<given, memo, funcs, minDelay, arrays, ends>>
  BY DEF Hit
<1>3. Falls(minDelay, minDelay', Shared) /\ StoresOK(memo', funcs', arrays', minDelay', Shared)
  BY <1>2, SameDelays DEF IInv
<1>4. Good(memo[MemoKey], minDelay', Shared)
  BY <1>1, <1>2 DEF IInv, StoresOK
<1> QED BY <1>1, <1>2, <1>3, <1>4, ReturnStep
-----------------------------------------------------------------------------
(* Frames and stores as a step changes them.                               *)
LEMMA AskOK ==
  ASSUME NEW fr, NEW d, NEW sh, FrameOK(fr, d, sh), NEW asks, Sequence(asks),
         \A k \in 1 .. Len(asks) : asks[k].t \in Nat /\ Known(Mod(Asker(fr)), asks[k].o),
         NodeOf(fr).kind # "mem", NodeOf(fr).kind = "in" => Through(fr) /\ Len(asks) = 1,
         NodeOf(fr).kind \notin {"in", "sub", "dynsel"} => Len(asks) = Len(NodeOf(fr).src)
  PROVE  LET g == [fr EXCEPT !.step = "collect", !.asks = asks]
         IN FrameOK(g, d, sh) /\ g.hier = fr.hier /\ g.step # "body"
<1> PICK g : g = [fr EXCEPT !.step = "collect", !.asks = asks]
  OBVIOUS
<1>1. /\ g.hier = fr.hier /\ g.v = fr.v /\ g.t = fr.t /\ g.step = "collect" /\ g.asks = asks /\ g.got = fr.got
      /\ g = [hier |-> g.hier, v |-> g.v, t |-> g.t, step |-> g.step, asks |-> g.asks, got |-> g.got]
  BY DEF FrameOK
<1>2. NodeOf(g) = NodeOf(fr) /\ Through(g) = Through(fr) /\ Asker(g) = Asker(fr)
  BY <1>1 DEF NodeOf, Through, Asker
<1>3. Arity(g)
  BY <1>1, <1>2 DEF Arity
<1>4. FrameOK(g, d, sh)
  <2>1. /\ HierOK(g.hier, d, sh) /\ g.v \in DOMAIN Node[Mod(g.hier)] /\ g.t \in Nat
        /\ Sequence(g.asks) /\ GoodSeq(g.got, d, sh) /\ g.step # "body"
    BY <1>1 DEF FrameOK
  <2>2. \A k \in 1 .. Len(g.asks) : g.asks[k].t \in Nat /\ Known(Mod(Asker(g)), g.asks[k].o)
    BY <1>1, <1>2
  <2> QED BY <1>1, <1>3, <2>1, <2>2 DEF FrameOK
<1> QED BY <1>1, <1>4

LEMMA GotOK ==
  ASSUME NEW fr, NEW d, NEW sh, FrameOK(fr, d, sh), NEW got, GoodSeq(got, d, sh),
         NEW g, g = [fr EXCEPT !.got = got]
  PROVE  FrameOK(g, d, sh) /\ g.hier = fr.hier /\ g.step = fr.step
<1>1. /\ g.hier = fr.hier /\ g.v = fr.v /\ g.t = fr.t /\ g.step = fr.step /\ g.asks = fr.asks /\ g.got = got
      /\ g = [hier |-> g.hier, v |-> g.v, t |-> g.t, step |-> g.step, asks |-> g.asks, got |-> g.got]
  BY DEF FrameOK
<1>2. /\ NodeOf(g) = NodeOf(fr) /\ Through(g) = Through(fr) /\ Asker(g) = Asker(fr)
      /\ CalleeOf(g) = CalleeOf(fr)
  BY <1>1 DEF NodeOf, Through, Asker, CalleeOf
<1>3. Arity(fr) => Arity(g)
  BY <1>1, <1>2 DEF Arity
<1>4. FrameOK(g, d, sh)
  BY <1>1, <1>2, <1>3 DEF FrameOK
<1> QED BY <1>1, <1>4

LEMMA GoodAppend ==
  ASSUME NEW s, NEW d, NEW sh, GoodSeq(s, d, sh), NEW v, Good(v, d, sh)
  PROVE  GoodSeq(Append(s, v), d, sh)
<1> PICK a, n : a = Append(s, v) /\ n = Len(s)
  OBVIOUS
<1>1. /\ Sequence(a) /\ Len(a) = n + 1 /\ n \in Nat /\ a[n + 1] = v /\ \A k \in 1 .. n : a[k] = s[k]
      /\ \A k \in 1 .. n : Good(s[k], d, sh)
  BY AppendIs DEF GoodSeq
<1>2. \A k \in 1 .. Len(a) : k = n + 1 \/ k \in 1 .. n
  BY <1>1
<1>3. \A k \in 1 .. Len(a) : Good(a[k], d, sh)
  BY <1>1, <1>2
<1> QED BY <1>1, <1>3 DEF GoodSeq

LEMMA KeepStores ==
  ASSUME NEW mm, NEW fs, NEW ar, NEW d, NEW sh, StoresOK(mm, fs, ar, d, sh), NEW key, NEW v, Good(v, d, sh)
  PROVE  StoresOK(Put(mm, key, v), fs, ar, d, sh)
<1> PICK D, q : D = DOMAIN mm \cup {key} /\ q = [z \in D |-> IF z = key THEN v ELSE mm[z]]
  OBVIOUS
<1>1. \A k \in DOMAIN q : q[k] = v \/ (k \in DOMAIN mm /\ q[k] = mm[k])
  OBVIOUS
<1>2. \A k \in DOMAIN q : Good(q[k], d, sh)
  BY <1>1 DEF StoresOK
<1>3. q = Put(mm, key, v)
  BY DEF Put
<1> QED BY <1>2, <1>3 DEF StoresOK

LEMMA ArrayOK ==
  ASSUME NEW mm, NEW fs, NEW d, NEW sh, StoresOK(mm, fs, arrays, d, sh), NEW a
  PROVE  /\ Array(a) = [last |-> Array(a).last, levels |-> Array(a).levels, stores |-> Array(a).stores]
         /\ Array(a).last \in Nat /\ GoodSeq(Array(a).stores, d, sh)
<1>1. CASE a \in DOMAIN arrays
  BY <1>1 DEF Array, StoresOK
<1>2. CASE a \notin DOMAIN arrays
  <2>1. PICK e : e = <<>>
    OBVIOUS
  <2>2. Array(a) = [last |-> 0, levels |-> e, stores |-> e]
    BY <1>2, <2>1 DEF Array
  <2>3. GoodSeq(e, d, sh)
    BY <2>1, NothingIs DEF GoodSeq
  <2> QED BY <2>2, <2>3
<1> QED BY <1>1, <1>2

LEMMA PutArray ==
  ASSUME NEW mm, NEW fs, NEW ar, NEW d, NEW sh, StoresOK(mm, fs, ar, d, sh), NEW a,
         NEW x, x = [last |-> x.last, levels |-> x.levels, stores |-> x.stores],
         x.last \in Nat, GoodSeq(x.stores, d, sh)
  PROVE  StoresOK(mm, fs, Put(ar, a, x), d, sh)
<1> PICK D, q : D = DOMAIN ar \cup {a} /\ q = [z \in D |-> IF z = a THEN x ELSE ar[z]]
  OBVIOUS
<1>1. /\ q = [b \in DOMAIN q |-> q[b]]
      /\ \A b \in DOMAIN q : q[b] = x \/ (b \in DOMAIN ar /\ q[b] = ar[b])
  OBVIOUS
<1>2. \A b \in DOMAIN q : /\ q[b] = [last |-> q[b].last, levels |-> q[b].levels, stores |-> q[b].stores]
                          /\ q[b].last \in Nat /\ GoodSeq(q[b].stores, d, sh)
  BY <1>1 DEF StoresOK
<1>3. q = Put(ar, a, x)
  BY DEF Put
<1> QED BY <1>1, <1>2, <1>3 DEF StoresOK

LEMMA FrontHier ==
  ASSUME NEW h, NEW d, NEW sh, HierOK(h, d, sh), Mod(h) # Top
  PROVE  /\ HierOK(Front(h), d, sh) /\ Len(Front(h)) = Len(h) - 1
         /\ \A k \in 1 .. Len(h) - 1 : Front(h)[k] = h[k]
         /\ \E i \in DOMAIN InsMod[Mod(Front(h))] : Mod(h) = InsMod[Mod(Front(h))][i]
<1> PICK f, n : f = Front(h) /\ n = Len(h)
  OBVIOUS
<1>1. /\ Sequence(f) /\ Len(f) = n - 1 /\ n \in Nat /\ n > 0 /\ Mod(h) = h[n].m
      /\ \A k \in 1 .. n - 1 : f[k] = h[k]
  BY FrontIs, HierMod DEF HierOK
<1>2. n > 1
  BY <1>1 DEF HierOK
<1>3. HierOK(f, d, sh)
  <2>1. f[1].m = Top /\ Len(f) > 0
    BY <1>1, <1>2 DEF HierOK
  <2>2. \A k \in 1 .. Len(f) : f[k].m \in DOMAIN Node /\ (f[k].m \in sh \/ <<f[k].m, f[k].tgt>> \in DOMAIN d)
    BY <1>1 DEF HierOK
  <2>3. \A k \in 2 .. Len(f) : k - 1 \in 1 .. n - 1 /\ k \in 1 .. n - 1 /\ k \in 2 .. n
    BY <1>1
  <2>4. \A k \in 2 .. Len(f) : \E i \in DOMAIN InsMod[f[k - 1].m] : f[k].m = InsMod[f[k - 1].m][i]
    <3> SUFFICES ASSUME NEW k \in 2 .. Len(f)
                 PROVE  \E i \in DOMAIN InsMod[f[k - 1].m] : f[k].m = InsMod[f[k - 1].m][i]
      OBVIOUS
    <3>1. f[k] = h[k] /\ f[k - 1] = h[k - 1] /\ k \in 2 .. Len(h)
      BY <1>1, <2>3
    <3>2. \E i \in DOMAIN InsMod[h[k - 1].m] : h[k].m = InsMod[h[k - 1].m][i]
      BY <3>1 DEF HierOK
    <3> QED BY <3>1, <3>2
  <2> QED BY <1>1, <2>1, <2>2, <2>4 DEF HierOK
<1>4. Mod(f) = h[n - 1].m
  <2>1. Mod(f) = f[Len(f)].m
    BY <1>3, HierMod
  <2> QED BY <1>1, <1>2, <2>1
<1>5. \E i \in DOMAIN InsMod[h[n - 1].m] : h[n].m = InsMod[h[n - 1].m][i]
  <2>1. n \in 2 .. Len(h)
    BY <1>1, <1>2
  <2> QED BY <2>1 DEF HierOK
<1> QED BY <1>1, <1>3, <1>4, <1>5

LEMMA AskerIs ==
  ASSUME NEW fr, NEW d, NEW sh, FrameOK(fr, d, sh)
  PROVE  /\ HierOK(Asker(fr), d, sh)
         /\ Through(fr) => /\ Mod(fr.hier) # Top /\ Asker(fr) = Front(fr.hier) /\ fr.v \in Ports(Mod(fr.hier))
                           /\ FirstWire[Mod(fr.hier)][fr.v] \in DOMAIN Node[Mod(Asker(fr))]
         /\ ~Through(fr) => Asker(fr) = fr.hier
<1>1. CASE ~Through(fr)
  BY <1>1 DEF FrameOK, Asker
<1>2. CASE Through(fr)
  <2>1. PICK h, m : h = fr.hier /\ m = Mod(h)
    OBVIOUS
  <2>2. /\ HierOK(h, d, sh) /\ m \in DOMAIN Node /\ fr.v \in DOMAIN Node[m] /\ Node[m][fr.v].kind = "in"
        /\ m \in FlatMods /\ m # Top /\ Asker(fr) = Front(h)
    BY <1>2, <2>1, HierMod, HierarchyAssumption DEF FrameOK, Through, NodeOf, Asker
  <2>3. fr.v \in Ports(m)
    BY <2>2, DesignAssumption
  <2>4. PICK i \in DOMAIN InsMod[Mod(Front(h))] : m = InsMod[Mod(Front(h))][i]
    BY <2>1, <2>2, FrontHier
  <2>5. HierOK(Front(h), d, sh) /\ Mod(Front(h)) \in DOMAIN Node
    BY <2>1, <2>2, FrontHier, HierMod
  <2>6. \A p \in Ports(m) : FirstWire[m][p] \in DOMAIN Node[Mod(Front(h))]
    BY <2>2, <2>4, <2>5, HierarchyAssumption
  <2> QED BY <1>2, <2>1, <2>2, <2>3, <2>5, <2>6
<1> QED BY <1>1, <1>2
-----------------------------------------------------------------------------
(* Reads are noted, at the level they are made or an earlier one.          *)
LEMMA NoteReadOK ==
  ASSUME IInv, stack # <<>>, NoteRead
  PROVE  /\ Falls(minDelay, minDelay', Shared) /\ DOMAIN minDelay' = DOMAIN minDelay
         /\ N.kind = "in" /\ Here.m \notin Shared /\ F.v # Rst[Here.m]
              => /\ Fn \in DOMAIN minDelay /\ F.v \in Ports(Here.m) /\ F.t \in Nat
                 /\ minDelay'[Fn][F.v] <= F.t
<1> PICK d, e, m, v, t, fn : /\ d = minDelay /\ e = minDelay' /\ m = Here.m /\ v = F.v /\ t = F.t
                             /\ fn = <<m, Here.tgt>>
  OBVIOUS
<1>1. /\ DelaysOK(d) /\ FrameOK(F, d, Shared) /\ N = Node[m][v] /\ m \in DOMAIN Node /\ t \in Nat
      /\ v \in DOMAIN Node[m] /\ fn = Fn /\ (m \in Shared \/ fn \in DOMAIN d) /\ Top \in Shared
  <2>1. HierOK(F.hier, d, Shared) /\ F.t \in Nat /\ F.v \in DOMAIN Node[Mod(F.hier)] /\ Here.m = Mod(F.hier)
    BY TopFrame DEF FrameOK
  <2>2. Mod(F.hier) \in DOMAIN Node /\ (Mod(F.hier) \in Shared \/ <<Mod(F.hier), Last(F.hier).tgt>> \in DOMAIN d)
    BY <2>1, HierMod
  <2>3. Here = Last(F.hier)
    BY DEF Here
  <2> QED BY <2>1, <2>2, <2>3, TopFrame DEF IInv, N, Fn, Shared
<1>2. N.kind = "in" => v \in Ports(m)
  BY <1>1, DesignAssumption
<1>3. CASE N.kind = "in" /\ m # Top /\ v # Rst[m]
  <2>1. e = [d EXCEPT ![fn] = LeastRead(@, v, t)]
    BY <1>1, <1>3 DEF NoteRead
  <2>2. DOMAIN e = DOMAIN d /\ e = [f \in DOMAIN e |-> e[f]]
    BY <1>1, <2>1 DEF DelaysOK
  <2>3. \A f \in DOMAIN d : /\ f # fn => e[f] = d[f]
                            /\ f = fn => e[f] = LeastRead(d[fn], v, t)
    BY <1>1, <2>1 DEF DelaysOK
  <2>4. ASSUME fn \in DOMAIN d
        PROVE  /\ LeastRead(d[fn], v, t) \in [Ports(m) -> Nat] /\ LeastRead(d[fn], v, t)[v] <= t
               /\ \A p \in Ports(m) : LeastRead(d[fn], v, t)[p] <= d[fn][p]
    <3>1. PICK g, h : g = d[fn] /\ h = LeastRead(g, v, t)
      OBVIOUS
    <3>2. g \in [Ports(m) -> Nat] /\ v \in Ports(m)
      BY <1>1, <1>2, <1>3, <2>4, <3>1 DEF DelaysOK
    <3>3. h = IF t < g[v] THEN [g EXCEPT ![v] = t] ELSE g
      BY <3>1 DEF LeastRead
    <3>4. h \in [Ports(m) -> Nat] /\ h[v] <= t /\ \A p \in Ports(m) : h[p] <= g[p]
      BY <1>1, <3>2, <3>3
    <3> QED BY <3>1, <3>4
  <2>5. DelaysOK(e)
    <3>1. \A f \in DOMAIN e : e[f] \in [Ports(f[1]) -> Nat]
      <4> SUFFICES ASSUME NEW f \in DOMAIN d PROVE e[f] \in [Ports(f[1]) -> Nat]
        BY <2>2
      <4>1. CASE f = fn
        <5>1. f[1] = m
          BY <4>1
        <5> QED BY <2>3, <2>4, <4>1, <5>1
      <4>2. CASE f # fn
        BY <1>1, <2>3, <4>2 DEF DelaysOK
      <4> QED BY <4>1, <4>2
    <3> QED BY <2>2, <3>1 DEF DelaysOK
  <2>6. \A f \in DOMAIN d : \A p \in Ports(f[1]) : e[f][p] <= d[f][p]
    <3> SUFFICES ASSUME NEW f \in DOMAIN d, NEW p \in Ports(f[1]) PROVE e[f][p] <= d[f][p]
      OBVIOUS
    <3>1. CASE f = fn
      BY <2>3, <2>4, <3>1
    <3>2. CASE f # fn
      <4>1. e[f] = d[f] /\ d[f][p] \in Nat
        BY <1>1, <2>3, <3>2 DEF DelaysOK
      <4> QED BY <4>1
    <3> QED BY <3>1, <3>2
  <2>7. Falls(d, e, Shared)
    BY <1>1, <2>2, <2>5, <2>6 DEF Falls
  <2> QED BY <1>1, <1>2, <1>3, <2>2, <2>3, <2>4, <2>7
<1>4. CASE ~(N.kind = "in" /\ m # Top /\ v # Rst[m])
  <2>1. e = d
    BY <1>4 DEF NoteRead
  <2> QED BY <1>1, <1>4, <2>1, SameDelays
<1> QED BY <1>3, <1>4

LEMMA OwnArgument ==
  ASSUME NEW d, NEW a, NEW w,
         a[2] = "in" /\ a[1][1] \notin Shared /\ a[3][1] # Rst[a[1][1]] => Noted(a, d, Shared)
  PROVE  Good(Argument(a, w), d, Shared) /\ Args(Argument(a, w)) = {a}
<1>1. Args(Argument(a, w)) = {a}
  BY InstrArgs DEF Argument
<1> QED BY <1>1 DEF Good, Noted

LEMMA Stateless ==
  ASSUME NEW d, NEW fn, NEW kind, kind # "in", NEW name, NEW t, NEW w
  PROVE  Good(Argument(Arg(fn, kind, name, t), w), d, Shared)
<1> PICK a : a = Arg(fn, kind, name, t)
  OBVIOUS
<1>1. a[2] = kind
  BY DEF Arg
<1> QED BY <1>1, OwnArgument

LEMMA ConstGood == \A x, d, sh : Good(Const(x), d, sh)
BY NoArgs DEF Good

LEMMA WithinArgs ==
  ASSUME NEW d, NEW sh, NEW a, Good(a, d, sh), NEW v, Args(v) \subseteq Args(a)
  PROVE  Good(v, d, sh)
BY DEF Good

LEMMA InputGood ==
  ASSUME IInv, Entering, N.kind = "in", ~FromParent, NoteRead
  PROVE  Good(InputLeaf(F.v, F.t), minDelay', Shared)
<1> PICK d, a, pieces : /\ d = minDelay' /\ a = Argument(Arg(FnOf(Fn), "in", <<F.v>>, F.t), N.w)
                        /\ pieces = InputWord(F.v, F.t)
  OBVIOUS
<1>0. stack # <<>> /\ F.t <= bound
  BY DEF Entering, Active
<1>1. Good(a, d, Shared)
  <2>1. PICK leaf, fn : leaf = Arg(FnOf(Fn), "in", <<F.v>>, F.t) /\ fn = FnOf(Fn)
    OBVIOUS
  <2>2. leaf[1] = fn /\ leaf[3][1] = F.v /\ leaf[4] = F.t
    BY <2>1 DEF Arg
  <2>3. fn[1] \notin Shared => fn = Fn /\ fn[1] = Here.m
    BY <2>1 DEF FnOf, MainFn, Shared, Fn
  <2>4. Here.m \notin FlatMods
    BY DEF FromParent
  <2>5. fn[1] \notin Shared /\ F.v # Rst[fn[1]] => Noted(leaf, d, Shared)
    <3> SUFFICES ASSUME fn[1] \notin Shared, F.v # Rst[fn[1]] PROVE Noted(leaf, d, Shared)
      OBVIOUS
    <3>1. fn = Fn /\ fn[1] = Here.m
      BY <2>3
    <3>2. /\ DOMAIN d = DOMAIN minDelay /\ Fn \in DOMAIN minDelay /\ F.v \in Ports(Here.m) /\ F.t \in Nat
          /\ d[Fn][F.v] <= F.t
      BY <1>0, <3>1, NoteReadOK
    <3> QED BY <2>2, <2>4, <3>1, <3>2 DEF Noted
  <2> QED BY <2>1, <2>2, <2>5, OwnArgument
<1>2. CASE Here.m # Top \/ pieces = <<>>
  BY <1>1, <1>2 DEF InputLeaf
<1>3. CASE ~(Here.m # Top \/ pieces = <<>>) /\ Len(pieces) = 1
  <2>1. InputLeaf(F.v, F.t) = Const(Fit(pieces[1].bits, N.w))
    BY <1>3 DEF InputLeaf
  <2>2. PICK x : x = Fit(pieces[1].bits, N.w)
    OBVIOUS
  <2> QED BY <2>1, <2>2, ConstGood
<1>4. CASE ~(Here.m # Top \/ pieces = <<>>) /\ Len(pieces) # 1
  <2>1. InputLeaf(F.v, F.t) = MixedValue(pieces, a)
    BY <1>4 DEF InputLeaf
  <2>2. Sequence(pieces)
    <3>1. F.t \in Nat /\ bound \in Nat /\ F.v \in Ports(Top)
      <4>1. F.t \in Nat /\ F.v \in DOMAIN Node[Here.m] /\ N = Node[Here.m][F.v]
        BY <1>0, TopFrame DEF FrameOK, NodeOf
      <4> QED BY <1>4, <4>1, DesignAssumption DEF IInv
    <3>2. /\ instr.len \in Nat /\ Sequence(instr.word[F.v]) /\ Len(instr.word[F.v]) >= instr.len
          /\ \A k \in DOMAIN instr.word[F.v] : Sequence(instr.word[F.v][k].pieces)
      BY <3>1, EncodingAssumption DEF IInv
    <3>3. Sequence(NopWord(F.v))
      BY EncodingAssumption, NothingIs DEF NopWord
    <3>4. PICK k, w : k = bound - F.t + 1 /\ w = instr.word[F.v][k]
      OBVIOUS
    <3>5. CASE F.t + instr.len >= bound + 1
      <4>1. k \in DOMAIN instr.word[F.v]
        <5>1. Len(instr.word[F.v]) \in Nat /\ DOMAIN instr.word[F.v] = 1 .. Len(instr.word[F.v])
          BY <3>2, SequenceIs
        <5>2. k \in 1 .. Len(instr.word[F.v])
          BY <1>0, <3>1, <3>2, <3>4, <3>5, <5>1
        <5> QED BY <5>1, <5>2
      <4>2. Sequence(w.pieces)
        BY <3>2, <3>4, <4>1
      <4>3. pieces = GivenWord(w, F.v)
        BY <3>4, <3>5 DEF InputWord
      <4> QED BY <3>3, <4>2, <4>3 DEF GivenWord
    <3>6. CASE ~(F.t + instr.len >= bound + 1)
      BY <3>3, <3>6 DEF InputWord
    <3> QED BY <3>5, <3>6
  <2>3. Len(pieces) > 0
    <3>1. PICK S : pieces \in Seq(S)
      BY <2>2 DEF Sequence
    <3> QED BY <1>4, <3>1
  <2>4. Args(MixedValue(pieces, a)) \subseteq Args(a)
    BY <2>2, <2>3, MixedArgs
  <2> QED BY <1>1, <2>1, <2>4, WithinArgs
<1> QED BY <1>2, <1>3, <1>4

LEMMA LeafStep == ASSUME IInv, Leaf PROVE IInv'
<1>1. /\ stack # <<>> /\ F.step = "enter" /\ Entering /\ IsLeaf /\ NoteRead
      /\ UNCHANGED <<given, funcs, arrays, ends>>
  BY DEF Leaf, Entering, Active
<1>2. Keep(LeafValue)
  BY DEF Leaf
<1>3. PICK d, val : d = minDelay' /\ val = LeafValue
  OBVIOUS
<1>4. Falls(minDelay, d, Shared) /\ DOMAIN d = DOMAIN minDelay
  BY <1>1, <1>3, NoteReadOK
<1>5. Good(val, d, Shared)
  <2>1. CASE N.kind = "in"
    <3>1. val = InputLeaf(F.v, F.t)
      BY <1>3, <2>1 DEF LeafValue
    <3>2. ~FromParent
      BY <1>1, <2>1 DEF IsLeaf
    <3> QED BY <1>1, <1>3, <2>1, <3>1, <3>2, InputGood
  <2>2. CASE N.kind = "reg"
    <3>1. val = RegLeaf(N.is)
      BY <1>3, <2>2, Zenon DEF LeafValue
    <3>2. PICK r : r = N.is
      OBVIOUS
    <3>3. CASE <<Here.m, r.var>> \in DOMAIN RstValue
      <4>1. RegLeaf(r) = Const(Part(RstValue[<<Here.m, r.var>>], r.hi, r.lo))
        BY <3>3 DEF RegLeaf
      <4>2. PICK x : x = Part(RstValue[<<Here.m, r.var>>], r.hi, r.lo)
        OBVIOUS
      <4> QED BY <3>1, <3>2, <4>1, <4>2, ConstGood
    <3>4. CASE <<Here.m, r.var>> \notin DOMAIN RstValue
      <4>1. PICK a : a = Argument(Arg(FnOf(Fn), "reg", Append(Prefix, r.var), bound), r.w)
        OBVIOUS
      <4>2. RegLeaf(r) = Extract(a, r.hi, r.lo)
        BY <3>4, <4>1 DEF RegLeaf
      <4>3. "reg" # "in"
        OBVIOUS
      <4>4. Good(a, d, Shared)
        BY <4>1, <4>3, Stateless
      <4>5. Args(Extract(a, r.hi, r.lo)) = Args(a)
        BY ExtractArgs
      <4> QED BY <3>1, <3>2, <4>2, <4>4, <4>5, WithinArgs
    <3> QED BY <3>3, <3>4
  <2>3. CASE N.kind = "mem"
    <3>1. val = MemLeaf(N.is, F.t)
      BY <1>3, <2>3, Zenon DEF LeafValue
    <3>2. "mem" # "in"
      OBVIOUS
    <3> QED BY <3>1, <3>2, Stateless DEF MemLeaf
  <2> QED BY <1>1, <2>1, <2>2, <2>3 DEF IsLeaf
<1>6. StoresOK(memo', funcs', arrays', d, Shared)
  <2>1. StoresOK(memo, funcs, arrays, d, Shared)
    BY <1>4, StoresKept DEF IInv
  <2> QED BY <1>1, <1>2, <1>3, <1>5, <2>1, KeepStores DEF Keep
<1> QED BY <1>1, <1>2, <1>3, <1>4, <1>5, <1>6, ReturnStep DEF Keep
-----------------------------------------------------------------------------
(* What a call asks for.                                                   *)
LEMMA OperandsOK ==
  ASSUME IInv, stack # <<>>, N.kind # "mem", N.kind = "in" => FromParent
  PROVE  /\ Sequence(Operands)
         /\ \A k \in 1 .. Len(Operands) :
              Operands[k].t \in Nat /\ Known(Mod(Asker(F)), Operands[k].o)
         /\ FromParent => Len(Operands) = 1
         /\ ~FromParent => Len(Operands) = Len(N.src)
<1> PICK d, sh, m : d = minDelay /\ sh = Shared /\ m = Mod(F.hier)
  OBVIOUS
<1>1. /\ FrameOK(F, d, sh) /\ N = NodeOf(F) /\ FromParent = Through(F) /\ Here.m = m
      /\ m \in DOMAIN Node /\ F.v \in DOMAIN Node[m] /\ N = Node[m][F.v] /\ F.t \in Nat
  <2>1. FrameOK(F, d, sh) /\ N = NodeOf(F) /\ FromParent = Through(F) /\ Here.m = m
    BY TopFrame
  <2>2. m \in DOMAIN Node
    BY <2>1, HierMod DEF FrameOK
  <2> QED BY <2>1, <2>2 DEF FrameOK, NodeOf
<1>2. CASE FromParent
  <2>1. PICK x, o : o = Whole(FirstWire[m][F.v]) /\ x = <<Item(o, F.t)>>
    OBVIOUS
  <2>2. Operands = x
    BY <1>1, <1>2, <2>1 DEF Operands
  <2>3. Sequence(x) /\ Len(x) = 1 /\ x[1].t = F.t /\ x[1].o = o
    <3>1. PICK i : i = Item(o, F.t)
      OBVIOUS
    <3>2. x = <<i>> /\ x \in Seq({i}) /\ Len(x) = 1 /\ x[1] = i
      BY <2>1, <3>1
    <3>3. Sequence(x)
      BY <3>2, IsSequence
    <3> QED BY <3>1, <3>2, <3>3 DEF Item
  <2>4. Known(Mod(Asker(F)), o)
    <3>1. FirstWire[m][F.v] \in DOMAIN Node[Mod(Asker(F))]
      BY <1>1, <1>2, AskerIs
    <3>2. o.v = FirstWire[m][F.v]
      BY <2>1 DEF Whole
    <3> QED BY <3>1, <3>2 DEF Known
  <2> QED BY <1>1, <1>2, <2>2, <2>3, <2>4
<1>3. CASE ~FromParent
  <2>1. PICK x, n : n = Len(N.src) /\ x = [k \in 1 .. n |-> Item(N.src[k], OperandLevel(k))]
    OBVIOUS
  <2>2. /\ n \in Nat /\ DOMAIN N.src = 1 .. n /\ \A k \in 1 .. n : Known(m, N.src[k])
        /\ N.kind = "bb" => \A k \in 1 .. n : N.is.delay[k] \in Nat
        /\ N.kind \in Kinds
    <3>1. Complete(N) /\ N.kind \in Kinds /\ \A k \in DOMAIN N.src : Known(m, N.src[k])
      BY <1>1, DesignAssumption
    <3>2. Sequence(N.src) /\ (N.kind = "bb" => \A k \in DOMAIN N.src : N.is.delay[k] \in Nat)
      BY <3>1 DEF Complete
    <3>3. n \in Nat /\ DOMAIN N.src = 1 .. n
      BY <2>1, <3>2, SequenceIs
    <3> QED BY <3>1, <3>2, <3>3
  <2>3. Operands = x
    BY <1>3, <2>1, <2>2 DEF Operands
  <2>4. \A k \in 1 .. n : OperandLevel(k) \in Nat
    <3> SUFFICES ASSUME NEW k \in 1 .. n PROVE OperandLevel(k) \in Nat
      OBVIOUS
    <3> PICK c : c = OperandLevel(k) - F.t
      OBVIOUS
    <3>1. CASE N.kind \in {"reg", "switch", "write"}
      <4>1. OperandLevel(k) = F.t + 1
        BY <3>1, Zenon DEF OperandLevel, Delay
      <4> QED BY <1>1, <4>1
    <3>2. CASE N.kind = "bb"
      <4>1. OperandLevel(k) = F.t + N.is.delay[k]
        BY <3>2, Zenon DEF OperandLevel, Delay
      <4> QED BY <1>1, <2>2, <3>2, <4>1
    <3>3. CASE N.kind \notin {"reg", "switch", "write"} /\ N.kind # "bb"
      <4>1. OperandLevel(k) = F.t + 0
        BY <3>3, Zenon DEF OperandLevel, Delay
      <4> QED BY <1>1, <4>1
    <3> QED BY <3>1, <3>2, <3>3
  <2>5. Sequence(x) /\ Len(x) = n
    <3>1. x = [k \in 1 .. n |-> x[k]]
      BY <2>1
    <3> QED BY <2>2, <3>1, FunIs
  <2>6. \A k \in 1 .. n : x[k].o = N.src[k] /\ x[k].t = OperandLevel(k)
    BY <2>1 DEF Item
  <2>7. Mod(Asker(F)) = m
    BY <1>1, <1>3, AskerIs
  <2> QED BY <1>3, <2>1, <2>2, <2>3, <2>4, <2>5, <2>6, <2>7
<1> QED BY <1>2, <1>3

LEMMA NoteWriteOK ==
  ASSUME NEW d, StoresOK(memo, funcs, arrays, d, Shared), F.t \in Nat, NoteWrite
  PROVE  StoresOK(memo, funcs, arrays', d, Shared)
<1>1. CASE N.kind = "write"
  <2>1. PICK a, x : a = Array(F.v) /\ x = [a EXCEPT !.last = Max({@, F.t})]
    OBVIOUS
  <2>2. /\ a = [last |-> a.last, levels |-> a.levels, stores |-> a.stores]
        /\ a.last \in Nat /\ GoodSeq(a.stores, d, Shared)
    BY <2>1, ArrayOK
  <2>3. /\ x = [last |-> x.last, levels |-> x.levels, stores |-> x.stores] /\ x.stores = a.stores
        /\ x.last \in Nat
    <3>1. PICK n \in Nat : n = Max({a.last, F.t})
      <4>1. \E n \in {a.last, F.t} : \A k \in {a.last, F.t} : n >= k
        BY <2>2
      <4>2. Max({a.last, F.t}) \in {a.last, F.t}
        BY <4>1 DEF Max
      <4> QED BY <2>2, <4>2
    <3>2. x = [a EXCEPT !.last = n]
      BY <2>1, <3>1
    <3> QED BY <2>2, <3>2
  <2>4. arrays' = Put(arrays, F.v, x)
    BY <1>1, <2>1 DEF NoteWrite
  <2> QED BY <2>2, <2>3, <2>4, PutArray
<1>2. CASE N.kind # "write"
  BY <1>2 DEF NoteWrite
<1> QED BY <1>1, <1>2

LEMMA ExpandStep == ASSUME IInv, Expand PROVE IInv'
<1>1. /\ stack # <<>> /\ F.step = "enter" /\ ~IsLeaf /\ N.kind # "sub" /\ NoteRead /\ NoteWrite
      /\ UNCHANGED <<given, ret, memo, funcs, ends>>
  BY DEF Expand, Entering, Active
<1>2. PICK d, x, fr : d = minDelay' /\ x = Operands /\ fr = [F EXCEPT !.step = "collect", !.asks = x]
  OBVIOUS
<1>3. Become(fr)
  BY <1>2 DEF Expand
<1>4. Falls(minDelay, d, Shared) /\ DOMAIN d = DOMAIN minDelay
  BY <1>1, <1>2, NoteReadOK
<1>5. N.kind # "mem" /\ (N.kind = "in" => FromParent)
  BY <1>1 DEF IsLeaf
<1>6. FrameOK(fr, d, Shared) /\ fr.hier = F.hier /\ fr.step # "body"
  <2>1. FrameOK(F, minDelay, Shared) /\ N = NodeOf(F) /\ FromParent = Through(F)
    BY <1>1, TopFrame
  <2>2. FrameOK(F, d, Shared)
    BY <1>4, <2>1, FrameKept
  <2>3. /\ Sequence(x) /\ \A k \in 1 .. Len(x) : x[k].t \in Nat /\ Known(Mod(Asker(F)), x[k].o)
        /\ FromParent => Len(x) = 1
        /\ ~FromParent => Len(x) = Len(N.src)
    BY <1>1, <1>2, <1>5, OperandsOK
  <2>4. FromParent => N.kind = "in"
    BY DEF FromParent
  <2> QED BY <1>2, <1>5, <2>1, <2>2, <2>3, <2>4, AskOK
<1>7. StoresOK(memo', funcs', arrays', d, Shared)
  <2>1. StoresOK(memo, funcs, arrays, d, Shared)
    BY <1>4, StoresKept DEF IInv
  <2>2. F.t \in Nat
    BY <1>1, TopFrame DEF FrameOK
  <2> QED BY <1>1, <2>1, <2>2, NoteWriteOK
<1> QED BY <1>1, <1>2, <1>3, <1>4, <1>6, <1>7, BecomeStep
-----------------------------------------------------------------------------
(* The rows of a call's inputs.                                            *)
LEMMA RangeIs ==
  ASSUME NEW n \in Int, NEW f, f = [k \in 1 .. n |-> f[k]]
  PROVE  Sequence(f) /\ \A k \in 1 .. Len(f) : k \in 1 .. n
<1>1. CASE n \in Nat
  BY <1>1, FunIs
<1>2. CASE n \notin Nat
  <2>1. 1 .. n = {} /\ 1 .. 0 = {} /\ 0 \in Nat
    BY <1>2
  <2>2. f = [k \in 1 .. 0 |-> f[k]]
    BY <2>1
  <2>3. Sequence(f) /\ Len(f) = 0
    BY <2>1, <2>2, FunIs
  <2> QED BY <2>1, <2>3
<1> QED BY <1>1, <1>2

LEMMA DivMod ==
  ASSUME NEW a \in Nat, NEW n \in Nat, n # 0
  PROVE  1 + (a % n) \in 1 .. n /\ a \div n \in Nat
<1>1. a % n \in 0 .. n - 1
  OBVIOUS
<1>2. a \div n \in Int /\ a = n * (a \div n) + (a % n)
  OBVIOUS
<1>3. a \div n >= 0
  BY <1>1, <1>2
<1> QED BY <1>1, <1>2, <1>3

LEMMA CalleeIs ==
  ASSUME IInv, stack # <<>>, N.kind = "sub"
  PROVE  /\ Here.m \in DOMAIN Node /\ N.is.ins \in DOMAIN InsMod[Here.m]
         /\ Callee[1] = InsMod[Here.m][N.is.ins] /\ Callee[2] = N.is.port
         /\ Callee = <<Callee[1], Callee[2]>> /\ Callee[1] \in DOMAIN Node \ {Top}
         /\ Callee[2] \in DOMAIN Node[Callee[1]]
         /\ Mod(Asker(F)) = Here.m /\ F.t \in Nat /\ bound \in Nat
<1>1. FrameOK(F, minDelay, Shared) /\ Here.m = Mod(F.hier) /\ N = NodeOf(F)
  BY TopFrame
<1>2. Here.m \in DOMAIN Node /\ F.v \in DOMAIN Node[Here.m] /\ N = Node[Here.m][F.v] /\ F.t \in Nat
  BY <1>1, HierMod DEF FrameOK, NodeOf
<1>3. N.is.ins \in DOMAIN InsMod[Here.m] /\ N.is.port \in DOMAIN Node[InsMod[Here.m][N.is.ins]]
  BY <1>2, DesignAssumption
<1>4. InsMod[Here.m][N.is.ins] \in DOMAIN Node \ {Top}
  BY <1>2, <1>3, HierarchyAssumption
<1>5. Mod(Asker(F)) = Here.m
  BY <1>1 DEF Asker, Through
<1>6. bound \in Nat
  BY DesignAssumption DEF IInv
<1> QED BY <1>2, <1>3, <1>4, <1>5, <1>6 DEF Callee

LEMMA InputRowsOK ==
  ASSUME IInv, stack # <<>>, N.kind = "sub"
  PROVE  /\ Sequence(InputRows)
         /\ \A k \in 1 .. Len(InputRows) :
              InputRows[k].t \in Nat /\ Known(Mod(Asker(F)), InputRows[k].o)
<1> PICK m, i, sub, ins, n, rows, x :
       /\ m = Here.m /\ i = N.is.ins /\ sub = Callee[1] /\ ins = Inputs[sub] /\ n = Len(ins)
       /\ rows = bound - F.t + 1 /\ x = InputRows
  OBVIOUS
<1>1. /\ m \in DOMAIN Node /\ i \in DOMAIN InsMod[m] /\ sub = InsMod[m][i] /\ sub \in DOMAIN Node
      /\ Mod(Asker(F)) = m /\ F.t \in Nat /\ rows \in Int
  BY CalleeIs
<1>2. n \in Nat /\ DOMAIN ins = 1 .. n /\ \A j \in 1 .. n : ins[j] \in Ports(sub)
  <2>1. Sequence(ins)
    BY <1>1, HierarchyAssumption
  <2> QED BY <2>1, SequenceIs DEF Ports, Range
<1>3. \A p \in Ports(sub) : /\ Known(m, Conn[m][i][p])
                            /\ p \in DOMAIN Node[sub] /\ Node[sub][p].w \in Nat \ {0}
  BY <1>1, HierarchyAssumption, DesignAssumption
<1>4. \A p \in Ports(sub) : \A r : InputItem(p, r).t = F.t + r /\ Known(m, InputItem(p, r).o)
  <2> SUFFICES ASSUME NEW p \in Ports(sub), NEW r
               PROVE  InputItem(p, r).t = F.t + r /\ Known(m, InputItem(p, r).o)
    OBVIOUS
  <2>1. PICK o : o = IF IsLive(minDelay[Callee][p], r) THEN Conn[m][i][p] ELSE Lit(Zeros(Node[sub][p].w))
    OBVIOUS
  <2>2. InputItem(p, r).t = F.t + r /\ InputItem(p, r).o = o
    BY <2>1 DEF InputItem, Item
  <2>3. Known(m, Lit(Zeros(Node[sub][p].w)))
    <3>1. PICK w, z : w = Node[sub][p].w /\ z = Zeros(w)
      OBVIOUS
    <3>2. z # <<>>
      <4>1. w \in Nat \ {0}
        BY <1>3, <3>1
      <4>2. DOMAIN z = 1 .. w /\ 1 \in 1 .. w
        BY <3>1, <4>1 DEF Zeros, Fill
      <4>3. PICK e : e = <<>>
        OBVIOUS
      <4>4. DOMAIN e = {}
        BY <4>3
      <4> QED BY <4>2, <4>3, <4>4
    <3>3. Lit(z).lit = z
      BY DEF Lit
    <3> QED BY <3>1, <3>2, <3>3 DEF Known
  <2> QED BY <1>3, <2>1, <2>2, <2>3
<1>5. x = [k \in 1 .. rows * n |-> InputItem(ins[1 + ((k - 1) % n)], (k - 1) \div n)]
  BY DEF InputRows
<1>6. rows * n \in Int
  BY <1>1, <1>2
<1>7. \A k \in 1 .. rows * n : x[k] = InputItem(ins[1 + ((k - 1) % n)], (k - 1) \div n)
  BY <1>5
<1>8. Sequence(x) /\ \A k \in 1 .. Len(x) : k \in 1 .. rows * n
  <2>1. x = [k \in 1 .. rows * n |-> x[k]]
    BY <1>5
  <2> QED BY <1>6, <2>1, RangeIs
<1>9. ASSUME NEW k \in 1 .. Len(x) PROVE x[k].t \in Nat /\ Known(m, x[k].o)
  <2>1. k \in 1 .. rows * n
    BY <1>8, <1>9
  <2>2. k - 1 \in Nat /\ n # 0
    BY <1>1, <1>2, <2>1
  <2>3. PICK j, r : j = 1 + ((k - 1) % n) /\ r = (k - 1) \div n
    OBVIOUS
  <2>4. j \in 1 .. n /\ r \in Nat
    BY <1>2, <2>2, <2>3, DivMod
  <2>5. PICK p \in Ports(sub) : p = ins[j]
    BY <1>2, <2>4
  <2>6. x[k] = InputItem(p, r)
    BY <1>7, <2>1, <2>3, <2>5
  <2>7. x[k].t = F.t + r /\ Known(m, x[k].o)
    BY <1>4, <2>6
  <2> QED BY <1>1, <2>4, <2>7
<1> QED BY <1>1, <1>8, <1>9

LEMMA CallFrame ==
  ASSUME IInv, stack # <<>>, N.kind = "sub", NEW d, FrameOK(F, d, Shared)
  PROVE  LET fr == [F EXCEPT !.step = "collect", !.asks = InputRows]
         IN FrameOK(fr, d, Shared) /\ fr.hier = F.hier /\ fr.step # "body"
<1> PICK x : x = InputRows
  OBVIOUS
<1>1. Sequence(x) /\ \A k \in 1 .. Len(x) : x[k].t \in Nat /\ Known(Mod(Asker(F)), x[k].o)
  BY InputRowsOK
<1>2. N = NodeOf(F)
  BY TopFrame
<1> QED BY <1>1, <1>2, AskOK

LEMMA CallStep == ASSUME IInv, Call PROVE IInv'
<1>1. /\ stack # <<>> /\ F.step = "enter" /\ N.kind = "sub"
      /\ UNCHANGED <<given, ret, memo, funcs, minDelay, arrays, ends>>
  BY DEF Call, Entering, Active
<1>2. PICK fr : fr = [F EXCEPT !.step = "collect", !.asks = InputRows]
  OBVIOUS
<1>3. Become(fr)
  BY <1>2 DEF Call
<1>4. FrameOK(fr, minDelay, Shared) /\ fr.hier = F.hier /\ fr.step # "body"
  BY <1>1, <1>2, TopFrame, CallFrame
<1>5. Falls(minDelay, minDelay', Shared) /\ StoresOK(memo', funcs', arrays', minDelay', Shared)
  BY <1>1, SameDelays DEF IInv
<1> QED BY <1>1, <1>3, <1>4, <1>5, BecomeStep

LEMMA BodyDoneStep == ASSUME IInv, BodyDone PROVE IInv'
<1>1. /\ stack # <<>> /\ F.step = "body" /\ ret # <<>> /\ ret' = <<>>
      /\ funcs' = Put(funcs, Callee, ret[1])
      /\ UNCHANGED <<given, memo, minDelay, arrays, ends>>
  BY DEF BodyDone
<1>2. PICK d, sh, fr : d = minDelay /\ sh = Shared /\ fr = [F EXCEPT !.step = "collect", !.asks = InputRows]
  OBVIOUS
<1>3. stack' = Append(Front(stack), fr)
  BY <1>2 DEF BodyDone, Become
<1>4. /\ Sequence(stack) /\ Len(stack) > 0 /\ ~aborted /\ Traced(d, funcs, stack, sh) /\ FrameOK(F, d, sh)
      /\ N = NodeOf(F) /\ N.kind = "sub" /\ Callee = CalleeOf(F)
  BY <1>1, <1>2, TopFrame DEF FrameOK
<1>5. FrameOK(fr, d, sh) /\ fr.hier = F.hier /\ fr.step # "body"
  BY <1>1, <1>2, <1>4, CallFrame
<1>6. StackOK(stack', d, sh)
  BY <1>2, <1>3, <1>4, <1>5, SwapOK DEF F, IInv
<1>7. PICK x, v, fs : x = Callee /\ v = ret[1] /\ fs = Put(funcs, x, v)
  OBVIOUS
<1>8. DOMAIN fs = DOMAIN funcs \cup {x} /\ \A f \in DOMAIN fs : fs[f] = v \/ (f \in DOMAIN funcs /\ fs[f] = funcs[f])
  <2>1. PICK D, q : D = DOMAIN funcs \cup {x} /\ q = [z \in D |-> IF z = x THEN v ELSE funcs[z]]
    OBVIOUS
  <2>2. DOMAIN q = D /\ \A f \in D : q[f] = v \/ (f \in DOMAIN funcs /\ q[f] = funcs[f])
    BY <2>1
  <2>3. q = fs
    BY <1>7, <2>1 DEF Put
  <2> QED BY <2>1, <2>2, <2>3
<1>9. Good(v, d, sh)
  <2>1. PICK u : ret = <<u>> /\ Good(u, d, sh)
    BY <1>1, <1>2 DEF IInv, RetOK
  <2> QED BY <1>7, <2>1
<1>10. x[1] \notin sh
  BY <1>1, <1>4, <1>7 DEF FrameOK
<1>11. StoresOK(memo', funcs', arrays', minDelay', sh)
  <2>1. \A f \in DOMAIN fs : f[1] \notin sh /\ Good(fs[f], d, sh)
    BY <1>2, <1>8, <1>9, <1>10 DEF IInv, StoresOK
  <2> QED BY <1>1, <1>2, <1>7, <2>1 DEF IInv, StoresOK
<1>12. Traced(d, fs, stack', sh)
  <2>1. /\ Len(Front(stack)) = Len(stack) - 1 /\ Len(stack) \in Nat
        /\ \A k \in 1 .. Len(stack) - 1 : Front(stack)[k] = stack[k]
        /\ F = stack[Len(stack)] /\ Sequence(Front(stack))
    BY <1>4, FrontIs DEF F
  <2>2. /\ Len(stack') = Len(stack) /\ \A k \in 1 .. Len(stack) - 1 : stack'[k] = stack[k]
    <3>1. PICK g : g = Front(stack)
      OBVIOUS
    <3>2. Len(Append(g, fr)) = Len(g) + 1 /\ \A k \in 1 .. Len(g) : Append(g, fr)[k] = g[k]
      BY <2>1, <3>1, AppendIs
    <3> QED BY <1>3, <2>1, <3>1, <3>2
  <2> SUFFICES ASSUME NEW f \in DOMAIN d, f[1] \notin sh, f \notin DOMAIN fs
               PROVE  \E k \in 1 .. Len(stack') : stack'[k].step = "body" /\ CalleeOf(stack'[k]) = f
    BY DEF Traced
  <2>3. PICK k \in 1 .. Len(stack) : stack[k].step = "body" /\ CalleeOf(stack[k]) = f
    BY <1>4, <1>8 DEF Traced
  <2>4. k # Len(stack)
    BY <1>4, <1>7, <1>8, <2>1, <2>3
  <2>5. k \in 1 .. Len(stack) - 1 /\ k \in 1 .. Len(stack')
    BY <2>1, <2>2, <2>4
  <2> QED BY <2>2, <2>3, <2>5
<1> QED BY <1>1, <1>2, <1>4, <1>6, <1>7, <1>11, <1>12, AnyStep DEF ends, IInv, RetOK
-----------------------------------------------------------------------------
(* A body is elaborated once, and what it calls is below it.               *)
LEMMA TwoMore ==
  ASSUME NEW s, Sequence(s), NEW x, NEW y
  PROVE  s \o <<x, y>> = Append(Append(s, x), y)
<1> PICK S, T : s \in Seq(S) /\ T = S \cup {x, y}
  BY DEF Sequence
<1>1. s \in Seq(T) /\ x \in T /\ y \in T
  BY SeqMonotonic
<1>2. Append(s, x) \in Seq(T) /\ Append(Append(s, x), y) \in Seq(T) /\ <<x, y>> \in Seq(T)
  BY <1>1
<1> QED BY <1>1, <1>2

LEMMA UnderAppend ==
  ASSUME NEW h, NEW d, NEW sh, HierOK(h, d, sh), NEW c, NEW fr, Sequence(fr.hier),
         CalleeOf(fr)[1] \in DOMAIN Node, Under(h, fr),
         NEW i \in DOMAIN InsMod[Mod(h)], c.m = InsMod[Mod(h)][i]
  PROVE  Under(Append(h, c), fr)
<1> PICK g, n, l, top : g = Append(h, c) /\ n = Len(fr.hier) /\ l = Len(h) /\ top = CalleeOf(fr)[1]
  OBVIOUS
<1>1. /\ l \in Nat /\ Len(g) = l + 1 /\ g[l + 1] = c /\ \A k \in 1 .. l : g[k] = h[k]
  BY AppendIs DEF HierOK
<1>2. n \in Nat
  BY SequenceIs
<1>3. l > n /\ h[n + 1].m = top /\ \A k \in n + 1 .. l : Height[h[k].m] <= Height[top]
  BY DEF Under
<1>4. Mod(h) = h[l].m /\ Mod(h) \in DOMAIN Node
  BY HierMod
<1>5. Height[c.m] <= Height[top]
  <2>1. c.m \in DOMAIN Node /\ Height[c.m] < Height[Mod(h)]
    BY <1>4, HeightFalls, HierarchyAssumption
  <2>2. Height[Mod(h)] <= Height[top]
    BY <1>1, <1>2, <1>3, <1>4
  <2>3. Height[c.m] \in Nat /\ Height[Mod(h)] \in Nat /\ Height[top] \in Nat
    BY <1>4, <2>1, HeightFalls
  <2> QED BY <2>1, <2>2, <2>3
<1>6. g[n + 1] = h[n + 1] /\ Len(g) > n
  BY <1>1, <1>2, <1>3
<1>7. \A k \in n + 1 .. Len(g) : Height[g[k].m] <= Height[top]
  <2> SUFFICES ASSUME NEW k \in n + 1 .. Len(g) PROVE Height[g[k].m] <= Height[top]
    OBVIOUS
  <2>1. CASE k = l + 1
    BY <1>1, <1>5, <2>1
  <2>2. CASE k # l + 1
    <3>1. k \in n + 1 .. l /\ g[k] = h[k]
      BY <1>1, <1>2, <2>2
    <3> QED BY <1>3, <3>1
  <2> QED BY <2>1, <2>2
<1> QED BY <1>3, <1>6, <1>7 DEF Under

LEMMA HierAppend ==
  ASSUME NEW h, NEW d, NEW sh, HierOK(h, d, sh), NEW c, <<c.m, c.tgt>> \in DOMAIN d,
         NEW i \in DOMAIN InsMod[Mod(h)], c.m = InsMod[Mod(h)][i]
  PROVE  HierOK(Append(h, c), d, sh) /\ Mod(Append(h, c)) = c.m
<1> PICK g, l : g = Append(h, c) /\ l = Len(h)
  OBVIOUS
<1>1. /\ Sequence(g) /\ l \in Nat /\ l > 0 /\ Len(g) = l + 1 /\ g[l + 1] = c /\ \A k \in 1 .. l : g[k] = h[k]
      /\ Last(g) = c
  BY AppendIs DEF HierOK
<1>2. Mod(h) = h[l].m /\ Mod(h) \in DOMAIN Node /\ c.m \in DOMAIN Node
  BY HierMod, HierarchyAssumption
<1>3. g[1].m = Top
  <2>1. 1 \in 1 .. l
    BY <1>1
  <2> QED BY <1>1, <2>1 DEF HierOK
<1>4. \A k \in 1 .. Len(g) : g[k].m \in DOMAIN Node /\ (g[k].m \in sh \/ <<g[k].m, g[k].tgt>> \in DOMAIN d)
  <2> SUFFICES ASSUME NEW k \in 1 .. Len(g)
               PROVE  g[k].m \in DOMAIN Node /\ (g[k].m \in sh \/ <<g[k].m, g[k].tgt>> \in DOMAIN d)
    OBVIOUS
  <2>1. CASE k = l + 1
    BY <1>1, <1>2, <2>1
  <2>2. CASE k # l + 1
    <3>1. k \in 1 .. l /\ g[k] = h[k]
      BY <1>1, <2>2
    <3> QED BY <3>1 DEF HierOK
  <2> QED BY <2>1, <2>2
<1>5. \A k \in 2 .. Len(g) : \E j \in DOMAIN InsMod[g[k - 1].m] : g[k].m = InsMod[g[k - 1].m][j]
  <2> SUFFICES ASSUME NEW k \in 2 .. Len(g)
               PROVE  \E j \in DOMAIN InsMod[g[k - 1].m] : g[k].m = InsMod[g[k - 1].m][j]
    OBVIOUS
  <2>1. CASE k = l + 1
    <3>1. g[k] = c /\ g[k - 1].m = Mod(h)
      BY <1>1, <1>2, <2>1
    <3> QED BY <3>1
  <2>2. CASE k # l + 1
    <3>1. k \in 2 .. l /\ g[k] = h[k] /\ g[k - 1] = h[k - 1]
      BY <1>1, <2>2
    <3>2. \E j \in DOMAIN InsMod[h[k - 1].m] : h[k].m = InsMod[h[k - 1].m][j]
      BY <3>1 DEF HierOK
    <3> QED BY <3>1, <3>2
  <2> QED BY <2>1, <2>2
<1> QED BY <1>1, <1>3, <1>4, <1>5 DEF HierOK, Mod

(* The notes on a function with a body to come are not made anew.          *)
LEMMA NotTwice ==
  ASSUME IInv, stack # <<>>, F.step # "body", N.kind = "sub", Callee[1] \notin Shared \cup FlatMods,
         Callee \notin DOMAIN funcs
  PROVE  Callee \notin DOMAIN minDelay
<1> SUFFICES ASSUME Callee \in DOMAIN minDelay PROVE FALSE
  OBVIOUS
<1> PICK l, h : l = Len(stack) /\ h = F.hier
  OBVIOUS
<1>1. /\ StackOK(stack, minDelay, Shared) /\ Traced(minDelay, funcs, stack, Shared)
      /\ l \in Nat /\ l > 0 /\ F = stack[l] /\ HierOK(h, minDelay, Shared) /\ Here.m = Mod(h)
  BY TopFrame, SequenceIs DEF IInv, FrameOK, F, Last
<1>2. PICK k \in 1 .. l : stack[k].step = "body" /\ CalleeOf(stack[k]) = Callee
  BY <1>1 DEF Traced
<1>3. k < l /\ l \in 1 .. l /\ Elaborates(stack[k])
  BY <1>1, <1>2 DEF Elaborates
<1>4. Under(h, stack[k]) /\ Sequence(stack[k].hier)
  BY <1>1, <1>3 DEF StackOK, FrameOK, HierOK
<1>5. Height[h[Len(h)].m] <= Height[Callee[1]]
  <2>1. Len(stack[k].hier) \in Nat /\ Len(h) \in Nat
    BY <1>1, <1>4, SequenceIs, HierMod
  <2>2. Len(h) \in Len(stack[k].hier) + 1 .. Len(h)
    BY <1>4, <2>1 DEF Under
  <2> QED BY <1>2, <1>4, <2>2 DEF Under
<1>6. Height[Callee[1]] < Height[Here.m] /\ Height[Callee[1]] \in Nat /\ Height[Here.m] \in Nat
  BY CalleeIs, HeightFalls
<1>7. Here.m = h[Len(h)].m
  BY <1>1, HierMod
<1> QED BY <1>5, <1>6, <1>7

LEMMA CalleeKnown ==
  ASSUME NEW fr, NEW d, NEW sh, FrameOK(fr, d, sh), fr.step = "body"
  PROVE  CalleeOf(fr)[1] \in DOMAIN Node
<1>1. Mod(fr.hier) \in DOMAIN Node /\ fr.v \in DOMAIN Node[Mod(fr.hier)] /\ NodeOf(fr).kind = "sub"
  BY HierMod DEF FrameOK
<1>2. NodeOf(fr).is.ins \in DOMAIN InsMod[Mod(fr.hier)]
  BY <1>1, DesignAssumption DEF NodeOf
<1> QED BY <1>1, <1>2, HierarchyAssumption DEF CalleeOf

LEMMA ElaborateStep == ASSUME IInv, Elaborate PROVE IInv'
<1>1. /\ stack # <<>> /\ F.step = "enter" /\ ret = <<>> /\ N.kind = "sub" /\ Callee[1] \notin Shared
      /\ Callee \notin DOMAIN funcs /\ UNCHANGED <<given, ret, memo, funcs, arrays, ends>>
  BY DEF Elaborate, Entering, Active, Reenters
<1>2. PICK d, e, sh, x, i : d = minDelay /\ e = minDelay' /\ sh = Shared /\ x = Callee /\ i = N.is.ins
  OBVIOUS
<1>3. PICK c, h, a, b : /\ c = Ctx(x[1], x[2], i) /\ h = Append(F.hier, c)
                        /\ a = [F EXCEPT !.step = "body"] /\ b = Frame(h, x[2], 0)
  OBVIOUS
<1>4. e = Put(d, x, Unread(x[1])) /\ stack' = Front(stack) \o <<a, b>>
  BY <1>2, <1>3 DEF Elaborate
<1>5. /\ Sequence(stack) /\ Len(stack) > 0 /\ ~aborted /\ Traced(d, funcs, stack, sh) /\ FrameOK(F, d, sh)
      /\ N = NodeOf(F) /\ x = CalleeOf(F) /\ Here.m = Mod(F.hier) /\ F = Last(stack)
      /\ StackOK(stack, d, sh) /\ DelaysOK(d)
  BY <1>1, <1>2, TopFrame DEF IInv, F
<1>6. /\ i \in DOMAIN InsMod[Mod(F.hier)] /\ x[1] = InsMod[Mod(F.hier)][i] /\ x = <<x[1], x[2]>>
      /\ x[1] \in DOMAIN Node /\ x[2] \in DOMAIN Node[x[1]]
  BY <1>1, <1>2, <1>5, CalleeIs
<1>7. DOMAIN e = DOMAIN d \cup {x} /\ Falls(d, e, sh)
  <2>1. PICK D, u, q : /\ D = DOMAIN d \cup {x} /\ u = Unread(x[1])
                       /\ q = [f \in D |-> IF f = x THEN u ELSE d[f]]
    OBVIOUS
  <2>2. q = e
    BY <1>4, <2>1 DEF Put
  <2>3. u \in [Ports(x[1]) -> Nat]
    BY <2>1, DesignAssumption DEF Unread
  <2>4. DOMAIN q = D /\ DelaysOK(q)
    BY <1>5, <2>1, <2>3 DEF DelaysOK
  <2>5. ASSUME NEW f \in DOMAIN d, f[1] \notin sh \cup FlatMods, NEW p \in Ports(f[1])
        PROVE  q[f][p] <= d[f][p]
    <3>1. f # x
      BY <1>1, <1>2, <2>5, NotTwice
    <3>2. q[f] = d[f] /\ d[f][p] \in Nat
      BY <1>5, <2>1, <3>1 DEF DelaysOK
    <3> QED BY <3>2
  <2> QED BY <1>5, <2>1, <2>2, <2>4, <2>5 DEF Falls
<1>8. FrameOK(F, e, sh) /\ StackOK(stack, e, sh)
  BY <1>5, <1>7, FrameKept, StackKept
<1>9. /\ a.hier = F.hier /\ a.v = F.v /\ a.t = F.t /\ a.step = "body" /\ a.asks = F.asks /\ a.got = F.got
      /\ a = [hier |-> a.hier, v |-> a.v, t |-> a.t, step |-> a.step, asks |-> a.asks, got |-> a.got]
  BY <1>3, <1>8 DEF FrameOK
<1>10. NodeOf(a) = NodeOf(F) /\ Asker(a) = Asker(F) /\ CalleeOf(a) = x
  BY <1>5, <1>9 DEF NodeOf, Asker, Through, CalleeOf
<1>11. FrameOK(a, e, sh)
  BY <1>1, <1>2, <1>5, <1>8, <1>9, <1>10 DEF FrameOK
<1>12. HierOK(F.hier, e, sh)
  BY <1>8 DEF FrameOK
<1>13. c.m = x[1] /\ c.tgt = x[2]
  BY <1>3 DEF Ctx
<1>14. HierOK(h, e, sh) /\ Mod(h) = x[1]
  BY <1>3, <1>6, <1>7, <1>12, <1>13, HierAppend
<1>15. FrameOK(b, e, sh) /\ b.step = "enter" /\ b.hier = h
  <2>1. PICK v : v = x[2] /\ v \in DOMAIN Node[Mod(h)]
    BY <1>6, <1>14
  <2>2. FrameOK(Frame(h, v, 0), e, sh) /\ Frame(h, v, 0).step = "enter" /\ Frame(h, v, 0).hier = h
    BY <1>14, <2>1, NewFrame
  <2> QED BY <1>3, <2>1, <2>2
<1>16. PICK s : s = Append(Front(stack), a)
  OBVIOUS
<1>17. StackOK(s, e, sh)
  BY <1>5, <1>8, <1>9, <1>11, <1>16, SwapOK
<1>18. /\ Len(s) = Len(stack) /\ Len(stack) \in Nat /\ s[Len(stack)] = a /\ Sequence(Front(stack))
       /\ \A k \in 1 .. Len(stack) - 1 : s[k] = stack[k]
  <2>1. PICK f : f = Front(stack)
    OBVIOUS
  <2>2. /\ Sequence(f) /\ Len(f) = Len(stack) - 1 /\ Len(stack) \in Nat
        /\ \A k \in 1 .. Len(stack) - 1 : f[k] = stack[k]
    BY <1>5, <2>1, FrontIs
  <2>3. /\ Len(Append(f, a)) = Len(f) + 1 /\ Append(f, a)[Len(f) + 1] = a
        /\ \A k \in 1 .. Len(f) : Append(f, a)[k] = f[k]
    BY <2>2, AppendIs
  <2> QED BY <1>16, <2>1, <2>2, <2>3
<1>19. Under(h, a)
  <2>1. Len(F.hier) \in Nat /\ Len(h) = Len(F.hier) + 1 /\ h[Len(F.hier) + 1] = c
    BY <1>3, <1>12, AppendIs DEF HierOK
  <2>2. Height[x[1]] \in Nat
    BY <1>6, HeightFalls
  <2>3. \A k \in Len(F.hier) + 1 .. Len(h) : h[k].m = x[1]
    BY <1>13, <2>1
  <2> QED BY <1>9, <1>10, <1>13, <2>1, <2>2, <2>3 DEF Under
<1>20. ASSUME NEW k \in 1 .. Len(s), Elaborates(s[k]) PROVE Under(h, s[k])
  <2>1. CASE k = Len(stack)
    BY <1>18, <1>19, <2>1
  <2>2. CASE k # Len(stack)
    <3>1. k \in 1 .. Len(stack) - 1 /\ Len(stack) \in 1 .. Len(stack) /\ k \in 1 .. Len(stack) /\ k < Len(stack)
      BY <1>5, <1>18, <2>2
    <3>2. s[k] = stack[k] /\ stack[Len(stack)] = F
      BY <1>5, <1>18, <3>1 DEF Last
    <3>3. Under(F.hier, s[k]) /\ FrameOK(s[k], e, sh)
      BY <1>8, <1>20, <3>1, <3>2 DEF StackOK
    <3>4. Sequence(s[k].hier) /\ CalleeOf(s[k])[1] \in DOMAIN Node
      BY <1>20, <3>3, CalleeKnown DEF FrameOK, HierOK, Elaborates
    <3> QED BY <1>3, <1>6, <1>12, <1>13, <3>3, <3>4, UnderAppend
  <2> QED BY <2>1, <2>2
<1>21. StackOK(stack', e, sh) /\ stack' = Append(s, b)
  <2>1. stack' = Append(s, b)
    BY <1>4, <1>16, <1>18, TwoMore
  <2> QED BY <1>15, <1>17, <1>20, <2>1, PushOK
<1>22. Traced(e, funcs, stack', sh)
  <2>1. Traced(d, funcs, Front(stack), sh)
    BY <1>1, <1>5, PopTraced
  <2>2. Traced(e, funcs, s, sh)
    BY <1>7, <1>9, <1>10, <1>16, <1>18, <2>1, PushTraced
  <2>3. Sequence(s)
    BY <1>17 DEF StackOK
  <2> QED BY <1>15, <1>21, <2>2, <2>3, PushTraced
<1>23. StoresOK(memo, funcs, arrays, e, sh)
  BY <1>2, <1>7, StoresKept DEF IInv
<1>24. RetOK(ret', e, sh)
  BY <1>1 DEF RetOK
<1> QED BY <1>1, <1>2, <1>5, <1>7, <1>21, <1>22, <1>23, <1>24, AnyStep DEF ends, IInv, Falls
-----------------------------------------------------------------------------
(* The operands of a call are had one after the other.                     *)
LEMMA GotStep ==
  ASSUME IInv, stack # <<>>, F.step # "body", NEW v, Good(v, minDelay, Shared),
         Become([F EXCEPT !.got = Append(F.got, v)]), ret' \in {ret, <<>>},
         UNCHANGED <<given, memo, funcs, minDelay, arrays, ends>>
  PROVE  IInv'
<1> PICK g, fr : g = Append(F.got, v) /\ fr = [F EXCEPT !.got = g]
  OBVIOUS
<1>1. FrameOK(F, minDelay, Shared)
  BY TopFrame
<1>2. GoodSeq(g, minDelay, Shared)
  BY <1>1, GoodAppend DEF FrameOK
<1>3. FrameOK(fr, minDelay', Shared) /\ fr.hier = F.hier /\ fr.step # "body"
  <2>1. PICK f, d, sh : f = F /\ d = minDelay /\ sh = Shared
    OBVIOUS
  <2>2. fr = [f EXCEPT !.got = g] /\ FrameOK(f, d, sh) /\ GoodSeq(g, d, sh)
    BY <1>1, <1>2, <2>1
  <2>3. FrameOK(fr, d, sh) /\ fr.hier = f.hier /\ fr.step = f.step
    BY ONLY <2>2, GotOK
  <2>4. minDelay' = minDelay
    OBVIOUS
  <2> QED BY <2>1, <2>3, <2>4
<1>4. Falls(minDelay, minDelay', Shared) /\ StoresOK(memo', funcs', arrays', minDelay', Shared)
  BY SameDelays DEF IInv
<1> QED BY <1>3, <1>4, BecomeStep

LEMMA NumberStep == ASSUME IInv, Number PROVE IInv'
<1>1. /\ stack # <<>> /\ F.step = "collect" /\ ret' = ret
      /\ UNCHANGED <<given, memo, funcs, minDelay, arrays, ends>>
  BY DEF Number, Asking, Active
<1>2. PICK x : x = Asked.o.lit
  OBVIOUS
<1>3. PICK v : v = Const(x)
  OBVIOUS
<1>4. Become([F EXCEPT !.got = Append(F.got, v)])
  BY <1>2, <1>3 DEF Number, Grown
<1>5. Good(v, minDelay, Shared)
  BY <1>3, ConstGood
<1> QED BY <1>1, <1>4, <1>5, GotStep

LEMMA ReceiveStep == ASSUME IInv, Receive PROVE IInv'
<1>1. /\ stack # <<>> /\ F.step = "collect" /\ ret # <<>> /\ ret' = <<>>
      /\ UNCHANGED <<given, memo, funcs, minDelay, arrays, ends>>
  BY DEF Receive
<1>2. PICK u : ret = <<u>> /\ Good(u, minDelay, Shared)
  BY <1>1 DEF IInv, RetOK
<1>3. PICK o, v : o = Asked.o /\ v = Cut(o, u)
  OBVIOUS
<1>4. Become([F EXCEPT !.got = Append(F.got, v)])
  <2>1. ret[1] = u
    BY <1>2
  <2> QED BY <1>3, <2>1 DEF Receive, Grown
<1>5. Good(v, minDelay, Shared)
  <2>1. PICK hi, lo : hi = o.cut[1] /\ lo = o.cut[2]
    OBVIOUS
  <2>2. v = u \/ v = Extract(u, hi, lo)
    BY <1>3, <2>1 DEF Cut
  <2>3. Args(v) = Args(u)
    BY <2>2, ExtractArgs
  <2> QED BY <1>2, <2>3, WithinArgs
<1> QED BY <1>1, <1>4, <1>5, GotStep

LEMMA DescendStep == ASSUME IInv, Descend PROVE IInv'
<1>1. /\ stack # <<>> /\ F.step = "collect" /\ ret = <<>> /\ Len(F.got) < Len(F.asks) /\ Asked.o.lit = <<>>
      /\ UNCHANGED <<given, ret, memo, funcs, minDelay, arrays, ends>>
  BY DEF Descend, Asking, Active
<1>2. PICK d, sh, h, o, t, fr : /\ d = minDelay /\ sh = Shared /\ h = Asker(F) /\ o = Asked.o /\ t = Asked.t
                                /\ fr = Frame(h, o.v, t)
  OBVIOUS
<1>3. /\ Sequence(stack) /\ StackOK(stack, d, sh) /\ ~aborted /\ Traced(d, funcs, stack, sh)
      /\ FrameOK(F, d, sh) /\ FromParent = Through(F) /\ F = Last(stack) /\ Len(stack) > 0
  BY <1>1, <1>2, TopFrame DEF IInv, F
<1>4. stack' = Append(stack, fr)
  BY <1>2, <1>3 DEF Descend, Asker
<1>5. t \in Nat /\ o.v \in DOMAIN Node[Mod(h)]
  <2>1. /\ Sequence(F.got) /\ Sequence(F.asks)
        /\ \A k \in 1 .. Len(F.asks) : F.asks[k].t \in Nat /\ Known(Mod(h), F.asks[k].o)
    BY <1>2, <1>3 DEF FrameOK, GoodSeq
  <2>2. Len(F.got) + 1 \in 1 .. Len(F.asks)
    BY <1>1, <2>1, SequenceIs
  <2>3. t \in Nat /\ Known(Mod(h), o)
    BY <1>2, <2>1, <2>2 DEF Asked
  <2> QED BY <1>1, <1>2, <2>3 DEF Known
<1>6. HierOK(h, d, sh)
  BY <1>2, <1>3, AskerIs
<1>7. FrameOK(fr, d, sh) /\ fr.step = "enter" /\ fr.hier = h
  <2>1. PICK v : v = o.v
    OBVIOUS
  <2>2. FrameOK(Frame(h, v, t), d, sh) /\ Frame(h, v, t).step = "enter" /\ Frame(h, v, t).hier = h
    BY <1>5, <1>6, <2>1, NewFrame
  <2> QED BY <1>2, <2>1, <2>2
<1>8. ASSUME NEW k \in 1 .. Len(stack), Elaborates(stack[k]) PROVE Under(h, stack[k])
  <2>1. Len(stack) \in Nat /\ F = stack[Len(stack)] /\ Len(stack) \in 1 .. Len(stack)
    BY <1>3, SequenceIs DEF Last
  <2>2. k < Len(stack)
    BY <1>1, <1>8, <2>1 DEF Elaborates
  <2>3. Under(F.hier, stack[k]) /\ FrameOK(stack[k], d, sh)
    BY <1>3, <1>8, <2>1, <2>2 DEF StackOK
  <2>4. CASE ~Through(F)
    BY <1>2, <1>3, <2>3, <2>4, AskerIs
  <2>5. CASE Through(F)
    <3>1. PICK g, n, l : g = F.hier /\ n = Len(stack[k].hier) /\ l = Len(g)
      OBVIOUS
    <3>2. Mod(g) # Top /\ h = Front(g) /\ HierOK(g, d, sh)
      BY <1>2, <1>3, <2>5, <3>1, AskerIs DEF FrameOK
    <3>3. /\ Len(h) = l - 1 /\ l \in Nat /\ Mod(g) = g[l].m
          /\ \A j \in 1 .. l - 1 : h[j] = g[j]
      BY <3>1, <3>2, FrontHier, HierMod
    <3>4. n \in Nat /\ l > n /\ g[n + 1].m = CalleeOf(stack[k])[1]
          /\ \A j \in n + 1 .. l : Height[g[j].m] <= Height[CalleeOf(stack[k])[1]]
      BY <2>3, <3>1, SequenceIs DEF Under, FrameOK, HierOK
    <3>5. n + 1 # l
      BY <1>8, <2>5, <3>1, <3>3, <3>4 DEF Elaborates, Through
    <3>6. Len(h) > n /\ h[n + 1] = g[n + 1]
      BY <3>3, <3>4, <3>5
    <3>7. \A j \in n + 1 .. Len(h) : h[j] = g[j] /\ j \in n + 1 .. l
      BY <3>3, <3>4
    <3> QED BY <3>1, <3>4, <3>6, <3>7 DEF Under
  <2> QED BY <2>4, <2>5
<1>9. StackOK(stack', d, sh)
  BY <1>3, <1>4, <1>7, <1>8, PushOK
<1>10. Traced(d, funcs, stack', sh)
  BY <1>3, <1>4, <1>7, PushTraced
<1> QED BY <1>1, <1>2, <1>3, <1>9, <1>10, AnyStep DEF ends, IInv
-----------------------------------------------------------------------------
(* Reads of arrays, and stores.                                            *)
LEMMA ConcatIs ==
  ASSUME NEW s, Sequence(s), NEW t, Sequence(t)
  PROVE  /\ Sequence(s \o t) /\ Len(s \o t) = Len(s) + Len(t)
         /\ \A k \in 1 .. Len(s \o t) :
              \/ k \in 1 .. Len(s) /\ (s \o t)[k] = s[k]
              \/ \E j \in 1 .. Len(t) : (s \o t)[k] = t[j]
<1> PICK S, U, T, c : s \in Seq(S) /\ t \in Seq(U) /\ T = S \cup U /\ c = s \o t
  BY DEF Sequence
<1>1. s \in Seq(T) /\ t \in Seq(T)
  BY SeqMonotonic
<1>2. c \in Seq(T) /\ Len(c) = Len(s) + Len(t) /\ Len(s) \in Nat /\ Len(t) \in Nat
  BY <1>1
<1>3. \A k \in 1 .. Len(c) : c[k] = IF k <= Len(s) THEN s[k] ELSE t[k - Len(s)]
  BY <1>1, <1>2
<1>4. ASSUME NEW k \in 1 .. Len(c), k \notin 1 .. Len(s) PROVE \E j \in 1 .. Len(t) : c[k] = t[j]
  <2>1. k - Len(s) \in 1 .. Len(t) /\ ~(k <= Len(s))
    BY <1>2, <1>4
  <2>2. c[k] = t[k - Len(s)]
    BY <1>3, <2>1
  <2> QED BY <2>1, <2>2
<1>5. \A k \in 1 .. Len(s) : k \in 1 .. Len(c) /\ c[k] = s[k]
  BY <1>2, <1>3
<1>6. Sequence(c)
  BY <1>2, IsSequence
<1> QED BY <1>2, <1>4, <1>5, <1>6

LEMMA GoodConcat ==
  ASSUME NEW s, NEW t, NEW d, NEW sh, GoodSeq(s, d, sh), GoodSeq(t, d, sh)
  PROVE  GoodSeq(s \o t, d, sh)
<1>1. Sequence(s) /\ Sequence(t)
  BY DEF GoodSeq
<1>2. \A k \in 1 .. Len(s \o t) : Good((s \o t)[k], d, sh)
  <2> SUFFICES ASSUME NEW k \in 1 .. Len(s \o t) PROVE Good((s \o t)[k], d, sh)
    OBVIOUS
  <2>1. CASE k \in 1 .. Len(s) /\ (s \o t)[k] = s[k]
    BY <2>1 DEF GoodSeq
  <2>2. CASE \E j \in 1 .. Len(t) : (s \o t)[k] = t[j]
    BY <2>2 DEF GoodSeq
  <2> QED BY <1>1, <2>1, <2>2, ConcatIs
<1> QED BY <1>1, <1>2, ConcatIs DEF GoodSeq

LEMMA GoodOne ==
  ASSUME NEW v, NEW d, NEW sh, Good(v, d, sh)
  PROVE  GoodSeq(<<v>>, d, sh)
<1> PICK s : s = <<v>>
  OBVIOUS
<1>1. s \in Seq({v}) /\ Len(s) = 1 /\ s[1] = v
  OBVIOUS
<1>2. \A k \in 1 .. Len(s) : s[k] = v
  BY <1>1
<1> QED BY <1>1, <1>2, IsSequence DEF GoodSeq

LEMMA Combined ==
  ASSUME NEW s, NEW d, NEW sh, GoodSeq(s, d, sh),
         NEW v, Args(v) \subseteq UNION {Args(s[k]) : k \in 1 .. Len(s)}
  PROVE  Good(v, d, sh)
BY DEF Good, GoodSeq

LEMMA InstrGood ==
  ASSUME NEW s, NEW d, NEW sh, GoodSeq(s, d, sh), NEW op, op # "arg", NEW w, NEW is
  PROVE  Good(Instr(op, w, is, s), d, sh)
<1>1. Args(Instr(op, w, is, s)) = UNION {Args(s[k]) : k \in DOMAIN s}
  BY InstrArgs
<1>2. DOMAIN s = 1 .. Len(s)
  BY SequenceIs DEF GoodSeq
<1> PICK v : v = Instr(op, w, is, s)
  OBVIOUS
<1>3. Args(v) \subseteq UNION {Args(s[k]) : k \in 1 .. Len(s)}
  BY <1>1, <1>2
<1>4. Good(v, d, sh)
  BY <1>3, Combined
<1> QED BY <1>4

LEMMA FindWritesStep == ASSUME IInv, FindWrites PROVE IInv'
<1>1. /\ stack # <<>> /\ F.step = "collect" /\ ret = <<>> /\ N.kind = "dynsel"
      /\ UNCHANGED <<given, ret, memo, funcs, minDelay, arrays, ends>>
  BY DEF FindWrites, Collected, Active
<1>2. PICK d, sh, m, last, o : /\ d = minDelay /\ sh = Shared /\ m = Here.m /\ last = Array(N.is).last
                               /\ o = Whole(N.is)
  OBVIOUS
<1>3. /\ FrameOK(F, d, sh) /\ N = NodeOf(F) /\ m = Mod(F.hier) /\ Mod(Asker(F)) = m /\ F.t \in Nat
      /\ last \in Nat /\ Known(m, o) /\ Sequence(F.asks)
      /\ \A k \in 1 .. Len(F.asks) : F.asks[k].t \in Nat /\ Known(m, F.asks[k].o)
  <2>1. FrameOK(F, d, sh) /\ N = NodeOf(F) /\ m = Mod(F.hier)
    BY <1>1, <1>2, TopFrame
  <2>2. Mod(Asker(F)) = m
    BY <1>1, <2>1 DEF Asker, Through
  <2>3. m \in DOMAIN Node /\ F.v \in DOMAIN Node[m] /\ N = Node[m][F.v] /\ F.t \in Nat
    BY <2>1, HierMod DEF FrameOK, NodeOf
  <2>4. N.is \in DOMAIN Node[m]
    BY <1>1, <2>3, DesignAssumption
  <2>5. Known(m, o)
    BY <1>2, <2>4 DEF Known, Whole
  <2>6. last \in Nat
    BY <1>2, ArrayOK DEF IInv
  <2> QED BY <2>1, <2>2, <2>3, <2>5, <2>6 DEF FrameOK
<1>4. PICK w1, w2, b, y : /\ w1 = <<Item(o, F.t)>> /\ w2 = [i \in 1 .. F.t - last |-> Item(o, last + i)]
                          /\ b = (IF last > 0 THEN w2 ELSE <<>>) /\ y = F.asks \o w1 \o b
  OBVIOUS
<1>5. Sequence(w1) /\ \A k \in 1 .. Len(w1) : w1[k].t \in Nat /\ Known(m, w1[k].o)
  <2> PICK i : i = Item(o, F.t)
    OBVIOUS
  <2>1. i.t = F.t /\ i.o = o
    BY DEF Item
  <2>2. w1 \in Seq({i}) /\ Len(w1) = 1 /\ w1[1] = i
    BY <1>4
  <2>3. \A k \in 1 .. Len(w1) : w1[k] = i
    BY <2>2
  <2> QED BY <1>3, <2>1, <2>2, <2>3, IsSequence
<1>6. Sequence(b) /\ \A k \in 1 .. Len(b) : b[k].t \in Nat /\ Known(m, b[k].o)
  <2>1. CASE last > 0
    <3>1. b = w2 /\ w2 = [i \in 1 .. F.t - last |-> w2[i]] /\ F.t - last \in Int
      BY <1>3, <1>4, <2>1
    <3>2. Sequence(w2) /\ \A k \in 1 .. Len(w2) : k \in 1 .. F.t - last
      BY <3>1, RangeIs
    <3>3. \A k \in 1 .. F.t - last : w2[k].t = last + k /\ w2[k].o = o
      BY <1>4 DEF Item
    <3>4. \A k \in 1 .. F.t - last : last + k \in Nat
      BY <1>3
    <3> QED BY <1>3, <3>1, <3>2, <3>3, <3>4
  <2>2. CASE ~(last > 0)
    BY <1>4, <2>2, NothingIs
  <2> QED BY <2>1, <2>2
<1>7. Sequence(y) /\ \A k \in 1 .. Len(y) : y[k].t \in Nat /\ Known(m, y[k].o)
  <2>1. PICK q : q = F.asks \o w1
    OBVIOUS
  <2>2. Sequence(q) /\ \A k \in 1 .. Len(q) : q[k].t \in Nat /\ Known(m, q[k].o)
    BY <1>3, <1>5, <2>1, ConcatIs
  <2>3. y = q \o b
    BY <1>4, <2>1
  <2> HIDE DEF Known
  <2> QED BY <1>6, <2>2, <2>3, ConcatIs
<1>8. PICK fr : fr = [F EXCEPT !.step = "collect", !.asks = y]
  OBVIOUS
<1>9. FrameOK(fr, d, sh) /\ fr.hier = F.hier /\ fr.step # "body"
  <2>1. NodeOf(F).kind = "dynsel"
    BY <1>1, <1>3
  <2> QED BY <1>3, <1>7, <1>8, <2>1, AskOK
<1>10. Become(fr)
  <2>1. fr = [F EXCEPT !.asks = y]
    BY <1>1, <1>3, <1>8 DEF FrameOK
  <2>2. Become([F EXCEPT !.asks = y])
    BY <1>2, <1>4 DEF FindWrites
  <2> QED BY <2>1, <2>2
<1>11. Falls(minDelay, minDelay', Shared) /\ StoresOK(memo', funcs', arrays', minDelay', Shared)
  BY <1>1, SameDelays DEF IInv
<1> QED BY <1>1, <1>2, <1>9, <1>10, <1>11, BecomeStep

LEMMA LoadArrayStep == ASSUME IInv, LoadArray PROVE IInv'
<1>1. /\ stack # <<>> /\ F.step = "collect" /\ ret' = ret /\ Len(F.got) = 2
      /\ UNCHANGED <<given, ret, memo, funcs, minDelay, arrays, ends>>
  BY DEF LoadArray, LoadDue, Active
<1>2. PICK d, sh, x, a, w, is : /\ d = minDelay /\ sh = Shared /\ x = F.got[1] /\ a = Array(N.is)
                                /\ w = N.w /\ is = N.is
  OBVIOUS
<1>3. PICK v, u, g : /\ v = Instr("array", w, is, <<x>> \o a.stores)
                     /\ u = (IF InOrder(a.levels, F.t) THEN v ELSE Unfit(v)) /\ g = <<x, u>>
  OBVIOUS
<1>4. FrameOK(F, d, sh) /\ Good(x, d, sh)
  <2>1. FrameOK(F, d, sh)
    BY <1>1, <1>2, TopFrame
  <2>2. 1 \in 1 .. Len(F.got)
    BY <1>1
  <2> QED BY <1>2, <2>1, <2>2 DEF FrameOK, GoodSeq
<1>5. Good(u, d, sh)
  <2>1. GoodSeq(<<x>> \o a.stores, d, sh)
    BY <1>2, <1>4, GoodOne, ArrayOK, GoodConcat DEF IInv
  <2>2. PICK s, op : s = <<x>> \o a.stores /\ op = "array"
    OBVIOUS
  <2>5. op # "arg"
    BY <2>2
  <2>3. Good(v, d, sh)
    BY <1>3, <2>1, <2>2, <2>5, InstrGood
  <2>4. Args(u) = Args(v)
    BY <1>3, UnfitArgs
  <2> QED BY <2>3, <2>4, WithinArgs
<1>6. GoodSeq(g, d, sh)
  <2>1. PICK s : s = <<x>>
    OBVIOUS
  <2>2. GoodSeq(s, d, sh)
    BY <1>4, <2>1, GoodOne
  <2>3. g = Append(s, u)
    BY <1>3, <2>1
  <2> QED BY <1>5, <2>2, <2>3, GoodAppend
<1>7. PICK f, fr : f = F /\ fr = [f EXCEPT !.got = g] /\ FrameOK(f, d, sh)
  BY <1>4
<1>8. FrameOK(fr, d, sh) /\ fr.hier = f.hier /\ fr.step = f.step
  BY ONLY <1>6, <1>7, GotOK
<1>9. Become(fr)
  BY <1>2, <1>3, <1>7 DEF LoadArray
<1>10. Falls(minDelay, minDelay', Shared) /\ StoresOK(memo', funcs', arrays', minDelay', Shared)
  BY <1>1, SameDelays DEF IInv
<1>11. FrameOK(fr, minDelay', Shared) /\ fr.hier = F.hier /\ fr.step # "body"
  BY <1>1, <1>2, <1>7, <1>8
<1> QED BY <1>1, <1>9, <1>10, <1>11, BecomeStep

LEMMA KeepStep ==
  ASSUME IInv, stack # <<>>, F.step # "body", NEW val, Good(val, minDelay, Shared), Keep(val),
         UNCHANGED <<given, funcs, minDelay, arrays, ends>>
  PROVE  IInv'
<1>1. Falls(minDelay, minDelay', Shared)
  BY SameDelays DEF IInv
<1>2. StoresOK(memo', funcs', arrays', minDelay', Shared)
  BY KeepStores DEF Keep, IInv
<1> QED BY <1>1, <1>2, ReturnStep DEF Keep

LEMMA EndReadStep == ASSUME IInv, EndRead PROVE IInv'
<1>1. /\ stack # <<>> /\ F.step = "collect" /\ N.kind = "dynsel" /\ Len(F.got) > 1
      /\ UNCHANGED <<given, funcs, minDelay, arrays, ends>>
  BY DEF EndRead, Collected, Active
<1>2. PICK val : val = Value
  OBVIOUS
<1>3. Keep(val)
  BY <1>2 DEF EndRead
<1>4. val = F.got[2]
  BY <1>1, <1>2, Zenon DEF Value
<1>5. Good(val, minDelay, Shared)
  <2>1. GoodSeq(F.got, minDelay, Shared)
    BY <1>1, TopFrame DEF FrameOK
  <2>2. 2 \in 1 .. Len(F.got)
    BY <1>1, <2>1, SequenceIs DEF GoodSeq
  <2> QED BY <1>4, <2>1, <2>2 DEF GoodSeq
<1> QED BY <1>1, <1>3, <1>5, KeepStep

LEMMA StoreStep == ASSUME IInv, Store PROVE IInv'
<1>1. /\ stack # <<>> /\ F.step = "collect" /\ UNCHANGED <<given, memo, funcs, minDelay, ends>>
  BY DEF Store, Collected, Active
<1>2. PICK val : val = Stored
  OBVIOUS
<1>3. Return(val)
  BY <1>2 DEF Store
<1>4. Good(val, minDelay, Shared)
  <2>1. PICK op, e : op = "stored" /\ op # "arg" /\ e = <<>>
    OBVIOUS
  <2>2. GoodSeq(e, minDelay, Shared)
    BY <2>1, NothingIs DEF GoodSeq
  <2>3. val = Instr(op, 0, e, e)
    BY <1>2, <2>1 DEF Stored
  <2> QED BY <2>1, <2>2, <2>3, InstrGood
<1>5. StoresOK(memo', funcs', arrays', minDelay', Shared)
  <2>1. PICK ar, d, sh : ar = arrays' /\ d = minDelay /\ sh = Shared
    OBVIOUS
  <2>2. CASE F.t = bound
    BY <1>1, <2>2 DEF Store, IInv
  <2>3. CASE F.t # bound
    <3>1. PICK v, g : v = F.v /\ g = F.got /\ GoodSeq(g, d, sh)
      BY <1>1, <2>1, TopFrame DEF FrameOK
    <3>2. ar = [arrays EXCEPT ![v].levels = Append(@, F.t), ![v].stores = @ \o g]
      BY <2>1, <2>3, <3>1 DEF Store
    <3>3. PICK y : y = [arrays[v] EXCEPT !.levels = Append(@, F.t), !.stores = @ \o g]
      OBVIOUS
    <3>4. /\ arrays = [a \in DOMAIN arrays |-> arrays[a]]
          /\ \A a \in DOMAIN arrays :
               /\ arrays[a] = [last |-> arrays[a].last, levels |-> arrays[a].levels, stores |-> arrays[a].stores]
               /\ arrays[a].last \in Nat /\ GoodSeq(arrays[a].stores, d, sh)
      BY <2>1 DEF IInv, StoresOK
    <3>5. /\ ar = [a \in DOMAIN ar |-> ar[a]] /\ DOMAIN ar = DOMAIN arrays
          /\ \A a \in DOMAIN arrays : ar[a] = IF a = v THEN y ELSE arrays[a]
      BY <3>2, <3>3, <3>4
    <3>6. ASSUME v \in DOMAIN arrays
          PROVE  /\ y = [last |-> y.last, levels |-> y.levels, stores |-> y.stores]
                 /\ y.last \in Nat /\ GoodSeq(y.stores, d, sh)
      <4>1. PICK x, l, s : x = arrays[v] /\ l = Append(x.levels, F.t) /\ s = x.stores \o g
        OBVIOUS
      <4>2. /\ x = [last |-> x.last, levels |-> x.levels, stores |-> x.stores]
            /\ x.last \in Nat /\ GoodSeq(x.stores, d, sh)
        BY <3>4, <3>6, <4>1
      <4>3. y = [last |-> x.last, levels |-> l, stores |-> s]
        BY <3>3, <4>1, <4>2
      <4>4. GoodSeq(s, d, sh)
        BY <3>1, <4>1, <4>2, GoodConcat
      <4> QED BY <4>2, <4>3, <4>4
    <3>7. \A a \in DOMAIN ar :
            /\ ar[a] = [last |-> ar[a].last, levels |-> ar[a].levels, stores |-> ar[a].stores]
            /\ ar[a].last \in Nat /\ GoodSeq(ar[a].stores, d, sh)
      BY <3>4, <3>5, <3>6
    <3> QED BY <1>1, <2>1, <3>5, <3>7 DEF IInv, StoresOK
  <2> QED BY <2>2, <2>3
<1>6. Falls(minDelay, minDelay', Shared)
  BY <1>1, SameDelays DEF IInv
<1>7. Good(val, minDelay', Shared)
  BY <1>1, <1>4
<1> QED BY <1>1, <1>3, <1>5, <1>6, <1>7, ReturnStep
-----------------------------------------------------------------------------
(* The value of a node has no arguments but those of its operands, that of *)
(* a call those it is given.                                               *)
LEMMA CallGood ==
  ASSUME NEW d, NEW sh, sh = Shared, GoodSeq(F.got, d, sh)
  PROVE  Good(CallValue, d, sh)
<1> PICK body, x, g : body = funcs[Callee] /\ x = Callee /\ g = F.got
  OBVIOUS
<1> PICK S, a : S = Args(body) /\ a = [leaf \in S |-> Actual(leaf, WidthOf(x, leaf))]
  OBVIOUS
<1> PICK w, op, v : w = body.w /\ op = "call" /\ v = Instr(op, w, x, a)
  OBVIOUS
<1>1. CallValue = v \/ CallValue = Unfit(v)
  BY DEF CallValue
<1>2. \A leaf, n : Good(Actual(leaf, n), d, sh)
  <2> SUFFICES ASSUME NEW leaf, NEW n PROVE Good(Actual(leaf, n), d, sh)
    OBVIOUS
  <2>1. CASE leaf[2] \in {"reg", "mem"}
    <3>1. PICK name, kind : /\ name = (IF leaf[2] = "reg" /\ Here.m \in FlatMods THEN Path(F.hier) ELSE <<>>)
                                        \o <<N.is.ins>> \o leaf[3]
                            /\ kind = leaf[2]
      OBVIOUS
    <3>2. Actual(leaf, n) = Argument(Arg(FnOf(Fn), kind, name, leaf[4]), n)
      BY <2>1, <3>1 DEF Actual
    <3>3. kind # "in"
      BY <2>1, <3>1
    <3> QED BY <3>2, <3>3, Stateless
  <2>2. CASE leaf[2] \notin {"reg", "mem"}
    <3>1. PICK k : k = LET ins == Inputs[Callee[1]]
                       IN leaf[4] * Len(ins) + CHOOSE j \in DOMAIN ins : <<ins[j]>> = leaf[3]
      OBVIOUS
    <3>2. PICK z : z = Zeros(n)
      OBVIOUS
    <3>3. Actual(leaf, n) = IF k \in DOMAIN g THEN g[k] ELSE Const(z)
      BY <2>2, <3>1, <3>2 DEF Actual
    <3>4. k \in DOMAIN g => Good(g[k], d, sh)
      BY SequenceIs DEF GoodSeq
    <3>5. Good(Const(z), d, sh)
      BY ConstGood
    <3> QED BY <3>3, <3>4, <3>5
  <2> QED BY <2>1, <2>2
<1>3. Args(v) = UNION {Args(a[leaf]) : leaf \in S}
  <2>1. op # "arg" /\ DOMAIN a = S
    OBVIOUS
  <2>2. Args(v) = UNION {Args(a[leaf]) : leaf \in DOMAIN a}
    BY <2>1, InstrArgs
  <2> QED BY <2>1, <2>2
<1>4. \A leaf \in S : Good(a[leaf], d, sh)
  BY <1>2
<1>5. Good(v, d, sh)
  BY <1>3, <1>4 DEF Good
<1>6. Args(Unfit(v)) = Args(v)
  BY UnfitArgs
<1> QED BY <1>1, <1>5, <1>6, WithinArgs

LEMMA CaseGood ==
  ASSUME NEW x, NEW d, NEW sh, GoodSeq(x, d, sh), NEW at, Sequence(at), Len(x) = Len(at) + 2
  PROVE  Good(CaseOp(x[1], at, SubSeq(x, 2, Len(x) - 1), Last(x)), d, sh)
<1> PICK S : S = UNION {Args(x[k]) : k \in 1 .. Len(x)}
  OBVIOUS
<1>1. \A k \in 1 .. Len(x) : Args(x[k]) \subseteq S
  OBVIOUS
<1>2. Sequence(x) /\ Len(x) \in Nat /\ Len(at) \in Nat /\ DOMAIN at = 1 .. Len(at)
  BY SequenceIs DEF GoodSeq
<1>3. PICK first, last, vals, n : /\ first = x[1] /\ last = Last(x) /\ n = Len(x) - 1
                                  /\ vals = SubSeq(x, 2, Len(x) - 1)
  OBVIOUS
<1>4. Args(first) \subseteq S /\ Args(last) \subseteq S
  BY <1>1, <1>2, <1>3 DEF Last
<1>5. \A k \in DOMAIN at : Args(vals[k]) \subseteq S
  <2>1. PICK T : x \in Seq(T)
    BY <1>2 DEF Sequence
  <2>2. n \in Int /\ 2 \in Int /\ \A i \in 2 .. n : x[i] \in T
    BY <1>2, <1>3, <2>1
  <2>3. \A i \in 1 .. n - 2 + 1 : SubSeq(x, 2, n)[i] = x[2 + i - 1]
    BY ONLY <2>2, SubSeqProperties
  <2> SUFFICES ASSUME NEW k \in 1 .. Len(at) PROVE Args(vals[k]) \subseteq S
    BY <1>2
  <2>4. k \in 1 .. n - 2 + 1 /\ 2 + k - 1 \in 1 .. Len(x)
    BY <1>2, <1>3
  <2>5. vals[k] = x[2 + k - 1]
    BY <1>3, <2>3, <2>4
  <2> QED BY <1>1, <2>4, <2>5
<1> PICK v : v = CaseOp(first, at, vals, last)
  OBVIOUS
<1>6. Args(v) \subseteq S
  <2>1. Sequence(at)
    OBVIOUS
  <2>2. Args(CaseOp(first, at, vals, last)) \subseteq S
    BY ONLY <1>4, <1>5, <2>1, CaseArgs
  <2> QED BY <2>2
<1>7. Good(v, d, sh)
  BY <1>6, Combined
<1> QED BY <1>3, <1>7

LEMMA ValueGood ==
  ASSUME IInv, Collected, N.kind \notin {"dynsel", "write"}
  PROVE  Good(Value, minDelay, Shared)
<1> PICK d, sh, x, n, val : d = minDelay /\ sh = Shared /\ x = F.got /\ n = Len(N.src) /\ val = Value
  OBVIOUS
<1>1. stack # <<>> /\ F.step = "collect" /\ Len(x) = Len(F.asks)
  BY DEF Collected, Active
<1>2. /\ FrameOK(F, d, sh) /\ N = NodeOf(F) /\ Arity(F) /\ GoodSeq(x, d, sh)
      /\ Mod(F.hier) \in DOMAIN Node /\ F.v \in DOMAIN Node[Mod(F.hier)] /\ N = Node[Mod(F.hier)][F.v]
  <2>1. FrameOK(F, d, sh) /\ N = NodeOf(F)
    BY <1>1, TopFrame
  <2> QED BY <1>1, <2>1, HierMod DEF FrameOK, NodeOf
<1>3. /\ N.kind \in Kinds \ {"mem", "dynsel", "write"} /\ Complete(N) /\ (N.kind = "two" => N.op \in TwoOps)
      /\ N.kind = "in" => Len(x) = 1
      /\ N.kind \notin {"in", "sub"} => Len(x) = n
  <2>1. N.kind \in Kinds /\ Complete(N) /\ Fitting(Mod(F.hier), N)
    BY <1>2, DesignAssumption
  <2>2. N.kind = "two" => N.op \in TwoOps
    BY <2>1 DEF Fitting
  <2>3. N.kind # "mem" /\ (N.kind = "in" => Len(x) = 1) /\ (N.kind \notin {"in", "sub"} => Len(x) = n)
    BY <1>1, <1>2 DEF Arity
  <2> QED BY <2>1, <2>2, <2>3
<1>4. Sequence(x) /\ Len(x) \in Nat /\ DOMAIN x = 1 .. Len(x)
  BY <1>2, SequenceIs DEF GoodSeq
<1> PICK S : S = UNION {Args(x[k]) : k \in 1 .. Len(x)}
  OBVIOUS
<1>5. \A k \in 1 .. Len(x) : Args(x[k]) \subseteq S
  OBVIOUS
<1>6. \A v : Args(v) \subseteq S => Good(v, d, sh)
  BY <1>2, Combined
<1> PICK y1, y2, y3 : y1 = x[1] /\ y2 = x[2] /\ y3 = x[3]
  OBVIOUS
<1>7. /\ Len(x) >= 1 => Args(y1) \subseteq S
      /\ Len(x) >= 2 => Args(y1) \cup Args(y2) \subseteq S
      /\ Len(x) >= 3 => Args(y1) \cup Args(y2) \cup Args(y3) \subseteq S
  <2>1. /\ Len(x) >= 1 => 1 \in 1 .. Len(x)
        /\ Len(x) >= 2 => 1 \in 1 .. Len(x) /\ 2 \in 1 .. Len(x)
        /\ Len(x) >= 3 => 1 \in 1 .. Len(x) /\ 2 \in 1 .. Len(x) /\ 3 \in 1 .. Len(x)
    BY <1>4
  <2> QED BY <1>5, <2>1
<1>8. CASE N.kind \in {"in", "reg"}
  <2>1. Len(x) = 1
    BY <1>3, <1>8 DEF Complete
  <2>2. val = y1
    BY <1>8, Zenon DEF Value
  <2> QED BY <1>6, <1>7, <2>1, <2>2
<1>9. CASE N.kind = "two"
  <2>1. Len(x) = 2 /\ N.op \in TwoOps
    BY <1>3, <1>9 DEF Complete
  <2>2. PICK op, s, w : op = N.op /\ s = N.is[1] /\ w = N.w
    OBVIOUS
  <2>3. val = TwoOp(op, s, y1, y2, w)
    BY <1>9, <2>2, Zenon DEF Value
  <2>4. Args(val) \subseteq Args(y1) \cup Args(y2)
    BY <2>1, <2>2, <2>3, TwoOpArgs
  <2> QED BY <1>6, <1>7, <2>1, <2>4
<1>10. CASE N.kind = "one"
  <2>1. Len(x) = 1
    BY <1>3, <1>10 DEF Complete
  <2>4. N.op \in {"", "~", "-", "!", "|", "&"}
    BY <1>3, <1>10 DEF Complete
  <2>2. val = OneOp(N.op, y1)
    BY <1>10, Zenon DEF Value
  <2>3. Args(val) \subseteq Args(y1)
    BY <2>2, <2>4, OneOpArgs
  <2> QED BY <1>6, <1>7, <2>1, <2>3
<1>11. CASE N.kind = "sel"
  <2>1. Len(x) = 2
    BY <1>3, <1>11 DEF Complete
  <2>2. PICK w : w = N.w
    OBVIOUS
  <2>3. val = SelOp(y1, y2, w)
    BY <1>11, <2>2, Zenon DEF Value
  <2>4. Args(val) \subseteq Args(y1) \cup Args(y2)
    BY <2>3, SelOpArgs
  <2> QED BY <1>6, <1>7, <2>1, <2>4
<1>12. CASE N.kind = "cat"
  <2>1. Len(x) > 0
    BY <1>3, <1>12 DEF Complete
  <2>2. val = CatOp(x)
    BY <1>12, Zenon DEF Value
  <2>3. Args(val) \subseteq UNION {Args(x[k]) : k \in DOMAIN x}
    BY <1>4, <2>1, <2>2, CatArgs
  <2> QED BY <1>4, <1>6, <2>3
<1>13. CASE N.kind = "ite"
  <2>1. Len(x) = 3
    BY <1>3, <1>13 DEF Complete
  <2>2. val = Ite(y1, y2, y3)
    BY <1>13, Zenon DEF Value
  <2>3. Args(val) = Args(y1) \cup Args(y2) \cup Args(y3)
    BY <2>2, IteArgs
  <2>4. Args(val) \subseteq S
    BY <1>7, <2>1, <2>3
  <2> QED BY <1>6, <2>4
<1>14. CASE N.kind = "case"
  <2>1. PICK at : at = N.is
    OBVIOUS
  <2>2. Sequence(at) /\ Len(x) = Len(at) + 2
    BY <1>3, <1>14, <2>1 DEF Complete
  <2>3. val = CaseOp(x[1], at, SubSeq(x, 2, Len(x) - 1), Last(x))
    BY <1>14, <2>1, Zenon DEF Value
  <2> QED BY <1>2, <2>2, <2>3, CaseGood
<1>15. CASE N.kind = "switch"
  <2>1. Len(x) = 1
    BY <1>3, <1>15 DEF Complete
  <2>2. PICK table, w, op, s : table = N.is /\ w = Len(table[1]) /\ op = "load" /\ s = <<y1>>
    OBVIOUS
  <2>3. op # "arg"
    BY <2>2
  <2>4. val = Instr(op, w, table, s)
    <3>1. val = Load(table, y1)
      BY <1>15, <2>2, Zenon DEF Value
    <3> QED BY <2>2, <3>1 DEF Load
  <2>5. GoodSeq(s, d, sh)
    BY <1>6, <1>7, <2>1, <2>2, GoodOne
  <2> QED BY <2>3, <2>4, <2>5, InstrGood
<1>16. CASE N.kind = "sub"
  <2>1. val = CallValue
    BY <1>16, Zenon DEF Value
  <2> QED BY <1>2, <2>1, CallGood
<1>17. CASE N.kind = "bb"
  <2>1. val = BlackBoxCall
    BY <1>17, Zenon DEF Value
  <2>2. PICK op, w, fn : op = "black box" /\ w = N.w /\ fn = N.is.fn
    OBVIOUS
  <2>3. op # "arg"
    BY <2>2
  <2>4. val = Instr(op, w, fn, x)
    BY <2>1, <2>2 DEF BlackBoxCall
  <2> QED BY <1>2, <2>3, <2>4, InstrGood
<1> QED BY <1>3, <1>8, <1>9, <1>10, <1>11, <1>12, <1>13, <1>14, <1>15, <1>16, <1>17 DEF Kinds

LEMMA FinishStep == ASSUME IInv, Finish PROVE IInv'
<1>1. /\ Collected /\ N.kind \notin {"dynsel", "write"} /\ stack # <<>> /\ F.step = "collect"
      /\ UNCHANGED <<given, funcs, minDelay, arrays, ends>>
  BY DEF Finish, Collected, Active
<1>2. PICK val : val = Value
  OBVIOUS
<1>3. Keep(val)
  BY <1>2 DEF Finish
<1>4. Good(val, minDelay, Shared)
  BY <1>1, <1>2, ValueGood
<1> QED BY <1>1, <1>3, <1>4, KeepStep
-----------------------------------------------------------------------------
LEMMA StepKeeps == IInv /\ [Next]_vars => IInv'
<1> SUFFICES ASSUME IInv, [Next]_vars PROVE IInv'
  OBVIOUS
<1>1. CASE UNCHANGED vars
  BY <1>1, AnyStep DEF vars, given, ends, IInv
<1>2. CASE Next
  BY <1>2, CutOffStep, HitStep, LeafStep, ExpandStep, CallStep, ElaborateStep, BodyDoneStep, AbortStep,
     NumberStep, DescendStep, ReceiveStep, FinishStep, FindWritesStep, LoadArrayStep, EndReadStep,
     StoreStep, DeliverStep DEF Next
<1> QED BY <1>1, <1>2

LEMMA InvZeroed == IInv => ZeroedInputsUnused
<1> SUFFICES ASSUME IInv, NEW f \in DOMAIN funcs, NEW leaf \in Args(funcs[f]),
                    leaf[1] = f, leaf[2] = "in", leaf[3][1] # Rst[f[1]]
             PROVE  leaf[4] >= minDelay[f][leaf[3][1]]
  BY DEF ZeroedInputsUnused
<1>1. Noted(leaf, minDelay, Shared) /\ f[1] \notin Shared
  BY DEF IInv, StoresOK, Good
<1>2. PICK p, t : p = leaf[3][1] /\ t = leaf[4]
  OBVIOUS
<1>3. f \in DOMAIN minDelay /\ p \in Ports(f[1]) /\ t \in Nat /\ minDelay[f][p] <= t
  BY <1>1, <1>2 DEF Noted
<1>4. minDelay[f] \in [Ports(f[1]) -> Nat]
  BY <1>3 DEF IInv, DelaysOK
<1>5. minDelay[f][p] \in Nat
  BY <1>3, <1>4
<1> QED BY <1>2, <1>3, <1>5

(* The inputs a call gives 0 because they "would not be used" are not used *)
(* by the body, whatever the design, the target, the bound and the         *)
(* encoding: what is read of an instance is noted at its least level, and  *)
(* no note is made anew by elaborating a function a second time            *)
(* (op_constraint.cpp:1773-1814).                                          *)
THEOREM UnrollZeroedInputsUnused == Spec => []ZeroedInputsUnused
<1>1. Init => IInv
  BY InitOK
<1>2. IInv /\ [Next]_vars => IInv'
  BY StepKeeps
<1>3. IInv => ZeroedInputsUnused
  BY InvZeroed
<1> QED BY <1>1, <1>2, <1>3, PTL DEF Spec
-----------------------------------------------------------------------------
(* Nothing is elaborated under itself. order is an order as Acyclic asks   *)
(* for; the frames of a stack lead away from each other by it.             *)
Order == CHOOSE order : Acyclic(order)
NoLoops == \E order : Acyclic(order)

RankOf(fr) == Order.rank[Mod(fr.hier)][fr.v]
ReadBy(fr, v) == Order.reads[Mod(fr.hier)][v]

(* Frame b comes after frame a: in one context, at a later level or nearer *)
(* to the inputs; or out of the target's module, towards Top; or into an   *)
(* instance.                                                               *)
Passes(a, b, sh) ==
  \/ a.hier = b.hier /\ (a.t < b.t \/ (a.t = b.t /\ RankOf(b) < RankOf(a)))
  \/ Mod(a.hier) \in sh /\ Mod(b.hier) \in sh /\ Len(b.hier) < Len(a.hier)
  \/ Mod(b.hier) \notin sh /\ (Mod(a.hier) \in sh \/ Height[Mod(b.hier)] < Height[Mod(a.hier)])

(* What a frame asks for comes after it, but for writes before the read.   *)
Onward(fr, ask) ==
  \/ ask.o.lit # <<>> \/ fr.t < ask.t
  \/ fr.t = ask.t /\ Order.rank[Mod(fr.hier)][ask.o.v] < RankOf(fr)
       /\ ReadBy(fr, ask.o.v) \subseteq ReadBy(fr, fr.v)
  \/ ask.t < fr.t /\ NodeOf(fr).kind = "dynsel"

(* At level 0 a function reads no more than its output does.               *)
InStep(fr, d, sh) ==
  /\ Mod(fr.hier) \in sh => fr.hier = ChainTo(Mod(fr.hier), Last(fr.hier).tgt)
  /\ Mod(fr.hier) \notin sh /\ fr.t = 0 => ReadBy(fr, fr.v) \subseteq ReadBy(fr, Last(fr.hier).tgt)
  /\ fr.step = "body" => CalleeOf(fr) \in DOMAIN d
  /\ ~Through(fr) => \A k \in 1 .. Len(fr.asks) : Onward(fr, fr.asks[k])

Leads(s, d, sh) ==
  /\ \A k \in 1 .. Len(s) : InStep(s[k], d, sh)
  /\ \A j, k \in 1 .. Len(s) :
       j < k /\ (\A i \in j .. k - 1 : ReadsAhead(s[i])) => Passes(s[j], s[k], sh)

(* An input noted at level 0 is among those the output reads at once.      *)
NotedAtOnce(d, sh) ==
  \A f \in DOMAIN d : f[1] \notin sh =>
    \A p \in Ports(f[1]) : d[f][p] = 0 => p \in Order.reads[f[1]][f[2]]

LeadsInv ==
  Inside => /\ Leads(stack, minDelay, Shared) /\ NotedAtOnce(minDelay, Shared)
            /\ DOMAIN funcs \subseteq DOMAIN minDelay

LEMMA OrderIs == ASSUME NoLoops PROVE Acyclic(Order)
BY DEF NoLoops, Order

LEMMA RankIs ==
  ASSUME NoLoops, NEW fr, NEW d, NEW sh, FrameOK(fr, d, sh)
  PROVE  /\ fr.t \in Nat /\ RankOf(fr) \in Nat /\ Len(fr.hier) \in Nat
         /\ Mod(fr.hier) \in DOMAIN Node /\ Height[Mod(fr.hier)] \in Nat
<1>1. fr.t \in Nat /\ Mod(fr.hier) \in DOMAIN Node /\ fr.v \in DOMAIN Node[Mod(fr.hier)] /\ Len(fr.hier) \in Nat
  BY HierMod DEF FrameOK
<1>2. RankOf(fr) \in Nat
  BY <1>1, OrderIs DEF Acyclic, RankOf
<1>3. Height[Mod(fr.hier)] \in Nat
  BY <1>1, HeightFalls
<1> QED BY <1>1, <1>2, <1>3

LEMMA PassesOn ==
  ASSUME NoLoops, NEW d, NEW sh, NEW a, NEW b, NEW c, FrameOK(a, d, sh), FrameOK(b, d, sh), FrameOK(c, d, sh),
         Passes(a, b, sh), Passes(b, c, sh)
  PROVE  Passes(a, c, sh)
<1> PICK ha, hb, hc, la, lb, lc, ra, rb, rc :
       /\ ha = a.hier /\ hb = b.hier /\ hc = c.hier /\ la = Len(ha) /\ lb = Len(hb) /\ lc = Len(hc)
       /\ ra = RankOf(a) /\ rb = RankOf(b) /\ rc = RankOf(c)
  OBVIOUS
<1> PICK ma, mb, mc, ta, tb, tc, ga, gb, gc :
       /\ ma = Mod(ha) /\ mb = Mod(hb) /\ mc = Mod(hc) /\ ta = a.t /\ tb = b.t /\ tc = c.t
       /\ ga = Height[ma] /\ gb = Height[mb] /\ gc = Height[mc]
  OBVIOUS
<1>1. /\ ta \in Nat /\ tb \in Nat /\ tc \in Nat /\ ra \in Nat /\ rb \in Nat /\ rc \in Nat
      /\ la \in Nat /\ lb \in Nat /\ lc \in Nat /\ ga \in Nat /\ gb \in Nat /\ gc \in Nat
  BY RankIs
<1>2. ha = hb => ma = mb /\ la = lb /\ ga = gb
  OBVIOUS
<1>3. hb = hc => mb = mc /\ lb = lc /\ gb = gc
  OBVIOUS
<1>4. \/ ha = hb /\ (ta < tb \/ (ta = tb /\ rb < ra))
      \/ ma \in sh /\ mb \in sh /\ lb < la
      \/ mb \notin sh /\ (ma \in sh \/ gb < ga)
  BY DEF Passes
<1>5. \/ hb = hc /\ (tb < tc \/ (tb = tc /\ rc < rb))
      \/ mb \in sh /\ mc \in sh /\ lc < lb
      \/ mc \notin sh /\ (mb \in sh \/ gc < gb)
  BY DEF Passes
<1>6. \/ ha = hc /\ (ta < tc \/ (ta = tc /\ rc < ra))
      \/ ma \in sh /\ mc \in sh /\ lc < la
      \/ mc \notin sh /\ (ma \in sh \/ gc < ga)
  BY ONLY <1>1, <1>2, <1>3, <1>4, <1>5
<1> QED BY <1>6 DEF Passes

(* In the function of the top module, the module's place says the path.    *)
LEMMA ChainFront ==
  ASSUME job \in Jobs, NEW m \in Shared, m # Top, NEW tgt
  PROVE  /\ Front(ChainTo(m, tgt)) = ChainTo(Parent[m].in, tgt)
         /\ Parent[m].in \in Shared /\ Parent[m].in \in DOMAIN Node /\ m \in DOMAIN Node
         /\ Len(Front(ChainTo(m, tgt))) < Len(ChainTo(m, tgt))
<1> PICK p, a : p = Parent[m].in /\ a = Ancestry[job.in]
  OBVIOUS
<1>1. /\ a \in Seq(DOMAIN Node) /\ a[1] = Top
      /\ \A k \in 2 .. Len(a) : a[k] # Top /\ a[k - 1] = Parent[a[k]].in
  BY AncestryUp, JobIs DEF Upward
<1>2. PICK k \in 1 .. Len(a) : m = a[k]
  BY <1>1 DEF Shared, Above, Range
<1>3. k \in 2 .. Len(a) /\ k - 1 \in 1 .. Len(a) /\ m \in DOMAIN Node
  BY <1>1, <1>2
<1>4. p = a[k - 1] /\ p \in DOMAIN Node /\ p \in Shared
  BY <1>1, <1>2, <1>3 DEF Shared, Above, Range
<1> PICK s, u, n : s = Ancestry[m] /\ u = Ancestry[p] /\ n = Len(u)
  OBVIOUS
<1>5. s = Append(u, m)
  BY <1>3, AncestryIs
<1>6. u \in Seq(DOMAIN Node) /\ n \in Nat /\ DOMAIN u = 1 .. n
  BY <1>4, AncestryUp DEF Upward
<1>7. DOMAIN s = 1 .. n + 1 /\ \A j \in 1 .. n : s[j] = u[j]
  BY <1>3, <1>5, <1>6
<1> DEFINE Entry(q) == Ctx(q, tgt, IF q = Top THEN Top ELSE Parent[q].ins)
<1>8. ChainTo(m, tgt) = [j \in 1 .. n + 1 |-> Entry(s[j])]
  BY <1>7 DEF ChainTo
<1>9. ChainTo(p, tgt) = [j \in 1 .. n |-> Entry(u[j])]
  BY <1>6 DEF ChainTo
<1> HIDE DEF Entry
<1> PICK h, g, f : h = ChainTo(m, tgt) /\ g = ChainTo(p, tgt) /\ f = Front(h)
  OBVIOUS
<1>10. Sequence(h) /\ Len(h) = n + 1
  <2>1. h = [j \in 1 .. n + 1 |-> h[j]] /\ n + 1 \in Nat
    BY <1>6, <1>8
  <2> QED BY <2>1, FunIs
<1>11. Sequence(g) /\ Len(g) = n
  <2>1. g = [j \in 1 .. n |-> g[j]] /\ n \in Nat
    BY <1>6, <1>9
  <2> QED BY <2>1, FunIs
<1>12. Sequence(f) /\ Len(f) = n /\ \A j \in 1 .. n : f[j] = h[j]
  BY <1>6, <1>10, FrontIs
<1>13. \A j \in 1 .. n : f[j] = g[j]
  BY <1>7, <1>8, <1>9, <1>12
<1>14. f = g
  <2>1. PICK S, T : f \in Seq(S) /\ g \in Seq(T)
    BY <1>11, <1>12 DEF Sequence
  <2> QED BY <1>11, <1>12, <1>13, <2>1, SeqEqual
<1> QED BY <1>3, <1>4, <1>6, <1>10, <1>12, <1>14

LEMMA ChainTgt ==
  ASSUME NEW m \in DOMAIN Node, NEW tgt
  PROVE  Last(ChainTo(m, tgt)).tgt = tgt
<1> PICK s, h : s = Ancestry[m] /\ h = ChainTo(m, tgt)
  OBVIOUS
<1>1. s \in Seq(DOMAIN Node) /\ Len(s) > 0
  BY AncestryUp DEF Upward
<1>2. PICK n \in Nat : n = Len(s) /\ n > 0 /\ DOMAIN s = 1 .. n
  BY <1>1
<1>3. h = [k \in 1 .. n |-> Ctx(s[k], tgt, IF s[k] = Top THEN Top ELSE Parent[s[k]].ins)]
  BY <1>2 DEF ChainTo
<1>4. h = [k \in 1 .. n |-> h[k]] /\ \A k \in 1 .. n : h[k].tgt = tgt
  BY <1>3 DEF Ctx
<1>5. Len(h) = n /\ n \in 1 .. n
  BY <1>2, <1>4, FunIs
<1> QED BY <1>4, <1>5 DEF Last

LEMMA PopLeads ==
  ASSUME NEW s, NEW d, NEW sh, Leads(s, d, sh), Sequence(s), Len(s) > 0
  PROVE  Leads(Front(s), d, sh)
<1> PICK f, n : f = Front(s) /\ n = Len(s) - 1
  OBVIOUS
<1>1. Len(f) = n /\ n \in Nat /\ Len(s) = n + 1 /\ \A k \in 1 .. n : f[k] = s[k]
  BY FrontIs
<1>2. \A k \in 1 .. n : k \in 1 .. Len(s)
  BY <1>1
<1>3. \A k \in 1 .. n : InStep(f[k], d, sh)
  BY <1>1, <1>2 DEF Leads
<1>4. ASSUME NEW j \in 1 .. n, NEW k \in 1 .. n, j < k, \A i \in j .. k - 1 : ReadsAhead(f[i])
      PROVE  Passes(f[j], f[k], sh)
  <2>1. \A i \in j .. k - 1 : i \in 1 .. n
    BY <1>1
  <2>2. \A i \in j .. k - 1 : ReadsAhead(s[i])
    BY <1>1, <1>4, <2>1
  <2> QED BY <1>1, <1>2, <1>4, <2>2 DEF Leads
<1> QED BY <1>1, <1>3, <1>4 DEF Leads

LEMMA PushLeads ==
  ASSUME NoLoops, NEW s, NEW d, NEW sh, Leads(s, d, sh), Sequence(s), \A k \in 1 .. Len(s) : FrameOK(s[k], d, sh),
         NEW fr, FrameOK(fr, d, sh), InStep(fr, d, sh),
         Len(s) > 0 /\ ReadsAhead(s[Len(s)]) => Passes(s[Len(s)], fr, sh)
  PROVE  Leads(Append(s, fr), d, sh)
<1> PICK t, n : t = Append(s, fr) /\ n = Len(s)
  OBVIOUS
<1>1. Sequence(t) /\ Len(t) = n + 1 /\ n \in Nat /\ t[n + 1] = fr /\ \A k \in 1 .. n : t[k] = s[k]
  BY AppendIs
<1>2. \A k \in 1 .. Len(t) : k = n + 1 \/ k \in 1 .. n
  BY <1>1
<1>3. \A k \in 1 .. Len(t) : InStep(t[k], d, sh)
  BY <1>1, <1>2 DEF Leads
<1>4. ASSUME NEW j \in 1 .. Len(t), NEW k \in 1 .. Len(t), j < k, \A i \in j .. k - 1 : ReadsAhead(t[i])
      PROVE  Passes(t[j], t[k], sh)
  <2>1. \A i \in j .. k - 1 : i \in 1 .. n /\ ReadsAhead(s[i])
    <3>1. \A i \in j .. k - 1 : i \in 1 .. n
      BY <1>1
    <3> QED BY <1>1, <1>4, <3>1
  <2>2. j \in 1 .. n /\ t[j] = s[j]
    BY <1>1, <1>2, <1>4
  <2>3. CASE k \in 1 .. n
    BY <1>1, <1>4, <2>1, <2>2, <2>3 DEF Leads
  <2>4. CASE k = n + 1
    <3>1. n \in j .. k - 1 /\ n > 0 /\ n \in 1 .. n
      BY <1>1, <2>2, <2>4
    <3>2. Passes(s[n], fr, sh) /\ t[k] = fr
      BY <1>1, <2>1, <2>4, <3>1
    <3>3. CASE j = n
      BY <2>2, <3>2, <3>3
    <3>4. CASE j # n
      <4>1. j < n /\ \A i \in j .. n - 1 : i \in j .. k - 1
        BY <1>1, <2>2, <2>4, <3>4
      <4>2. Passes(s[j], s[n], sh)
        BY <2>1, <2>2, <3>1, <4>1 DEF Leads
      <4>3. FrameOK(s[j], d, sh) /\ FrameOK(s[n], d, sh)
        BY <2>2, <3>1
      <4>4. PICK a, b : a = s[j] /\ b = s[n]
        OBVIOUS
      <4>5. Passes(a, fr, sh)
        BY <3>2, <4>2, <4>3, <4>4, PassesOn
      <4> QED BY <2>2, <3>2, <4>4, <4>5
    <3> QED BY <3>3, <3>4
  <2> QED BY <1>2, <2>3, <2>4
<1> QED BY <1>1, <1>3, <1>4 DEF Leads

(* A frame in the place of one of the same call.                           *)
SameCall(a, b) == a.hier = b.hier /\ a.v = b.v /\ a.t = b.t

LEMMA SwapLeads ==
  ASSUME NEW s, NEW d, NEW sh, Leads(s, d, sh), Sequence(s), Len(s) > 0,
         NEW fr, SameCall(fr, Last(s)), InStep(fr, d, sh)
  PROVE  Leads(Append(Front(s), fr), d, sh)
<1> PICK f, t, n : f = Front(s) /\ t = Append(f, fr) /\ n = Len(s)
  OBVIOUS
<1>1. Sequence(f) /\ Len(f) = n - 1 /\ n \in Nat /\ n > 0 /\ s[n] = Last(s) /\ \A k \in 1 .. n - 1 : f[k] = s[k]
  BY FrontIs
<1>2. Len(t) = n /\ t[n] = fr /\ \A k \in 1 .. n - 1 : t[k] = s[k]
  <2>1. Len(t) = Len(f) + 1 /\ t[Len(f) + 1] = fr /\ \A k \in 1 .. Len(f) : t[k] = f[k]
    BY <1>1, AppendIs
  <2> QED BY <1>1, <2>1
<1>3. \A k \in 1 .. n : k = n \/ k \in 1 .. n - 1
  BY <1>1
<1>4. \A k \in 1 .. n : InStep(t[k], d, sh)
  BY <1>2, <1>3 DEF Leads
<1>5. ASSUME NEW j \in 1 .. n, NEW k \in 1 .. n, j < k, \A i \in j .. k - 1 : ReadsAhead(t[i])
      PROVE  Passes(t[j], t[k], sh)
  <2>1. j \in 1 .. n - 1 /\ \A i \in j .. k - 1 : i \in 1 .. n - 1
    BY <1>1, <1>5
  <2>2. \A i \in j .. k - 1 : ReadsAhead(s[i])
    BY <1>2, <1>5, <2>1
  <2>3. Passes(s[j], s[k], sh)
    BY <1>5, <2>2 DEF Leads
  <2>4. t[j] = s[j]
    BY <1>2, <2>1
  <2>5. SameCall(t[k], s[k])
    BY <1>1, <1>2, <1>3 DEF SameCall
  <2>6. RankOf(t[k]) = RankOf(s[k])
    BY <2>5 DEF RankOf, SameCall
  <2> QED BY <2>3, <2>4, <2>5, <2>6 DEF Passes, SameCall
<1> QED BY <1>2, <1>4, <1>5 DEF Leads

(* Notes are only added.                                                   *)
LEMMA LeadsKept ==
  ASSUME NEW s, NEW d, NEW e, NEW sh, Leads(s, d, sh), DOMAIN d \subseteq DOMAIN e
  PROVE  Leads(s, e, sh)
BY DEF Leads, InStep

(* The frame of a step that only changes what has been had or asked for.   *)
LEMMA SameInStep ==
  ASSUME NEW a, NEW b, NEW d, NEW sh, InStep(a, d, sh), SameCall(b, a), b.asks = a.asks,
         b.step = "body" => CalleeOf(b) \in DOMAIN d
  PROVE  InStep(b, d, sh)
<1>1. /\ b.hier = a.hier /\ b.v = a.v /\ b.t = a.t /\ NodeOf(b) = NodeOf(a) /\ Through(b) = Through(a)
      /\ RankOf(b) = RankOf(a)
  BY DEF SameCall, NodeOf, Through, RankOf
<1>2. \A v : ReadBy(b, v) = ReadBy(a, v)
  BY <1>1 DEF ReadBy
<1>3. \A ask : Onward(a, ask) => Onward(b, ask)
  BY <1>1, <1>2 DEF Onward
<1> QED BY <1>1, <1>2, <1>3 DEF InStep

LEMMA AskInStep ==
  ASSUME NEW a, NEW b, NEW d, NEW sh, InStep(a, d, sh), SameCall(b, a), b.step # "body",
         ~Through(a) => \A k \in 1 .. Len(b.asks) : Onward(a, b.asks[k])
  PROVE  InStep(b, d, sh)
<1>1. /\ b.hier = a.hier /\ b.v = a.v /\ b.t = a.t /\ NodeOf(b) = NodeOf(a) /\ Through(b) = Through(a)
      /\ RankOf(b) = RankOf(a)
  BY DEF SameCall, NodeOf, Through, RankOf
<1>2. \A v : ReadBy(b, v) = ReadBy(a, v)
  BY <1>1 DEF ReadBy
<1>3. \A ask : Onward(a, ask) => Onward(b, ask)
  BY <1>1, <1>2 DEF Onward
<1> QED BY <1>1, <1>2, <1>3 DEF InStep

LEMMA LeadsStep ==
  ASSUME LeadsInv, UNCHANGED given, DOMAIN minDelay \subseteq DOMAIN minDelay',
         Inside => /\ Leads(stack', minDelay', Shared) /\ NotedAtOnce(minDelay', Shared)
                   /\ DOMAIN funcs' \subseteq DOMAIN minDelay'
  PROVE  LeadsInv'
<1>1. Shared' = Shared
  BY DEF given, Shared
<1>2. Inside' => Inside
  BY <1>1 DEF Inside
<1> QED BY <1>1, <1>2 DEF LeadsInv

LEMMA TopLeads ==
  ASSUME IInv, LeadsInv, Inside, stack # <<>>
  PROVE  /\ Leads(stack, minDelay, Shared) /\ NotedAtOnce(minDelay, Shared) /\ DOMAIN funcs \subseteq DOMAIN minDelay
         /\ InStep(F, minDelay, Shared) /\ F = stack[Len(stack)] /\ StackOK(stack, minDelay, Shared)
<1>1. Sequence(stack) /\ Len(stack) > 0 /\ F = stack[Len(stack)]
  BY TopFrame DEF F, Last
<1>2. Len(stack) \in 1 .. Len(stack)
  BY <1>1, SequenceIs
<1>3. Leads(stack, minDelay, Shared) /\ NotedAtOnce(minDelay, Shared) /\ DOMAIN funcs \subseteq DOMAIN minDelay
  BY DEF LeadsInv
<1> QED BY <1>1, <1>2, <1>3 DEF Leads, IInv

LEMMA PopsLeads ==
  ASSUME IInv, LeadsInv, stack # <<>>, stack' = Front(stack), UNCHANGED <<given, funcs, minDelay>>
  PROVE  LeadsInv'
<1>1. Inside => Leads(stack', minDelay, Shared)
  BY TopLeads, TopFrame, PopLeads
<1> QED BY <1>1, LeadsStep DEF LeadsInv

LEMMA GotLeads ==
  ASSUME IInv, LeadsInv, stack # <<>>, F.step # "body", NEW got,
         Become([F EXCEPT !.got = got]), UNCHANGED <<given, funcs, minDelay>>
  PROVE  LeadsInv'
<1> PICK fr : fr = [F EXCEPT !.got = got]
  OBVIOUS
<1>1. FrameOK(F, minDelay, Shared) /\ Sequence(stack) /\ Len(stack) > 0
  BY TopFrame
<1>2. SameCall(fr, F) /\ fr.step = F.step /\ fr.asks = F.asks
  BY <1>1 DEF FrameOK, SameCall
<1>3. ASSUME Inside PROVE Leads(stack', minDelay, Shared)
  <2>1. InStep(fr, minDelay, Shared)
    BY <1>2, <1>3, TopLeads, SameInStep
  <2>2. stack' = Append(Front(stack), fr) /\ Leads(stack, minDelay, Shared)
    BY <1>3, TopLeads DEF Become
  <2> QED BY <1>1, <1>2, <2>1, <2>2, SwapLeads DEF F
<1> QED BY <1>3, LeadsStep DEF LeadsInv

LEMMA AskLeads ==
  ASSUME IInv, LeadsInv, Inside, stack # <<>>, NEW asks, Become([F EXCEPT !.step = "collect", !.asks = asks]),
         DOMAIN minDelay \subseteq DOMAIN minDelay',
         ~FromParent => \A k \in 1 .. Len(asks) : Onward(F, asks[k])
  PROVE  Leads(stack', minDelay', Shared)
<1> PICK fr : fr = [F EXCEPT !.step = "collect", !.asks = asks]
  OBVIOUS
<1>1. FrameOK(F, minDelay, Shared) /\ Sequence(stack) /\ Len(stack) > 0 /\ FromParent = Through(F)
  BY TopFrame
<1>2. SameCall(fr, F) /\ fr.step # "body" /\ fr.asks = asks
  BY <1>1 DEF FrameOK, SameCall
<1>3. InStep(fr, minDelay, Shared)
  BY <1>1, <1>2, TopLeads, AskInStep
<1>4. stack' = Append(Front(stack), fr)
  BY DEF Become
<1>5. Leads(stack', minDelay, Shared)
  BY <1>1, <1>2, <1>3, <1>4, TopLeads, SwapLeads DEF F
<1> QED BY <1>5, LeadsKept

LEMMA NoteReadAtOnce ==
  ASSUME NoLoops, IInv, LeadsInv, Inside, stack # <<>>, NoteRead
  PROVE  NotedAtOnce(minDelay', Shared)
<1> PICK d, e, m, v, t, fn, tgt, sh : /\ d = minDelay /\ e = minDelay' /\ m = Here.m /\ v = F.v /\ t = F.t
                                      /\ tgt = Here.tgt /\ fn = <<m, tgt>> /\ sh = Shared
  OBVIOUS
<1>1. /\ DelaysOK(d) /\ FrameOK(F, d, sh) /\ N = NodeOf(F) /\ Here.m = Mod(F.hier) /\ Here = Last(F.hier)
      /\ NotedAtOnce(d, sh) /\ InStep(F, d, sh)
  BY TopFrame, TopLeads DEF IInv, Here
<1>2. N = Node[m][v] /\ m \in DOMAIN Node /\ t \in Nat /\ v \in DOMAIN Node[m] /\ fn = Fn
  BY <1>1, HierMod DEF FrameOK, NodeOf, Fn
<1>3. CASE e = d
  BY <1>1, <1>3
<1>4. CASE N.kind = "in" /\ e = [d EXCEPT ![fn] = LeastRead(@, v, t)]
  <2> SUFFICES ASSUME NEW f \in DOMAIN e, f[1] \notin sh, NEW p \in Ports(f[1]), e[f][p] = 0
               PROVE  p \in Order.reads[f[1]][f[2]]
    BY DEF NotedAtOnce
  <2>1. f \in DOMAIN d /\ (f # fn => e[f] = d[f]) /\ (f = fn => e[f] = LeastRead(d[fn], v, t))
    BY <1>1, <1>4 DEF DelaysOK
  <2>2. CASE d[f][p] = 0
    BY <1>1, <2>1, <2>2 DEF NotedAtOnce
  <2>3. CASE d[f][p] # 0
    <3>1. f = fn
      BY <2>1, <2>3
    <3>2. f[1] = m /\ f[2] = tgt
      BY <3>1
    <3>3. PICK g : g = d[fn] /\ g \in [Ports(m) -> Nat]
      BY <1>1, <2>1, <3>1, <3>2 DEF DelaysOK
    <3>4. e[f] = IF t < g[v] THEN [g EXCEPT ![v] = t] ELSE g
      BY <2>1, <3>1, <3>3 DEF LeastRead
    <3>5. p = v /\ t = 0
      BY <2>3, <3>1, <3>2, <3>3, <3>4
    <3>6. ReadBy(F, v) \subseteq ReadBy(F, tgt)
      BY <1>1, <3>2, <3>5 DEF InStep
    <3>7. v \in Order.reads[m][v]
      BY <1>2, <1>4, OrderIs DEF Acyclic
    <3> QED BY <1>1, <3>2, <3>5, <3>6, <3>7 DEF ReadBy
  <2> QED BY <2>2, <2>3
<1> QED BY <1>2, <1>3, <1>4 DEF NoteRead

(* What an operator reads.                                                 *)
LEMMA OperandsOnward ==
  ASSUME NoLoops, IInv, stack # <<>>, ~FromParent
  PROVE  \A k \in 1 .. Len(Operands) : Onward(F, Operands[k])
<1> PICK m, v, t, n, fr : m = Mod(F.hier) /\ v = F.v /\ t = F.t /\ n = Node[m][v] /\ fr = F
  OBVIOUS
<1>1. FrameOK(fr, minDelay, Shared) /\ N = n /\ m \in DOMAIN Node /\ v \in DOMAIN Node[m] /\ t \in Nat
  <2>1. FrameOK(fr, minDelay, Shared) /\ N = NodeOf(fr)
    BY TopFrame
  <2>2. m \in DOMAIN Node
    BY <2>1, HierMod DEF FrameOK
  <2> QED BY <2>1, <2>2 DEF FrameOK, NodeOf
<1>2. Operands = [k \in DOMAIN n.src |-> Item(n.src[k], t + Delay(n, k))]
  BY <1>1 DEF Operands, OperandLevel
<1>3. Complete(n) /\ Sequence(n.src)
  BY <1>1, DesignAssumption DEF Complete
<1>4. PICK l \in Nat : l = Len(n.src) /\ DOMAIN n.src = 1 .. l
  BY <1>3, SequenceIs
<1>5. Len(Operands) = l
  <2>1. PICK x : x = Operands
    OBVIOUS
  <2>2. x = [k \in 1 .. l |-> x[k]]
    BY <1>2, <1>4, <2>1
  <2> QED BY <2>1, <2>2, FunIs
<1>6. \A k \in 1 .. l : Delay(n, k) \in Nat
  <2> SUFFICES ASSUME NEW k \in 1 .. l PROVE Delay(n, k) \in Nat
    OBVIOUS
  <2>1. CASE n.kind \in {"reg", "switch", "write"}
    <3>1. Delay(n, k) = 1
      BY <2>1, Zenon DEF Delay
    <3> QED BY <3>1
  <2>2. CASE n.kind = "bb"
    <3>1. Delay(n, k) = n.is.delay[k]
      BY <2>2, Zenon DEF Delay
    <3> QED BY <1>3, <1>4, <2>2, <3>1 DEF Complete
  <2>3. CASE n.kind \notin {"reg", "switch", "write"} /\ n.kind # "bb"
    <3>1. Delay(n, k) = 0
      BY <2>3, Zenon DEF Delay
    <3> QED BY <3>1
  <2> QED BY <2>1, <2>2, <2>3
<1>7. ASSUME NEW k \in 1 .. l PROVE Onward(fr, Operands[k])
  <2>1. PICK a, o, c : a = Operands[k] /\ o = n.src[k] /\ c = Delay(n, k)
    OBVIOUS
  <2>2. a.o = o /\ a.t = t + c /\ c \in Nat
    BY <1>2, <1>4, <1>6, <2>1 DEF Item
  <2>3. CASE o.lit = <<>> /\ c = 0
    <3>1. Order.rank[m][o.v] < Order.rank[m][v] /\ Order.reads[m][o.v] \subseteq Order.reads[m][v]
      BY <1>1, <1>4, <2>1, <2>3, OrderIs DEF Acyclic
    <3>2. RankOf(fr) = Order.rank[m][v] /\ \A u : ReadBy(fr, u) = Order.reads[m][u]
      BY DEF RankOf, ReadBy
    <3> QED BY <1>1, <2>1, <2>2, <2>3, <3>1, <3>2 DEF Onward
  <2>4. CASE o.lit # <<>> \/ c # 0
    BY <1>1, <2>1, <2>2, <2>4 DEF Onward
  <2> QED BY <2>3, <2>4
<1> QED BY <1>5, <1>7

AtOnce(m, u, v) ==
  Order.rank[m][u] < Order.rank[m][v] /\ Order.reads[m][u] \subseteq Order.reads[m][v]
Wire(m, v, p) == Conn[m][Node[m][v].is.ins][p]
InnerReads(m, v) == Order.reads[InsMod[m][Node[m][v].is.ins]][Node[m][v].is.port]

LEMMA ConnectedAtOnce ==
  ASSUME NoLoops, NEW m \in DOMAIN Node, NEW v \in DOMAIN Node[m], Node[m][v].kind = "sub",
         NEW p \in Ports(InsMod[m][Node[m][v].is.ins]), p \in InnerReads(m, v), Wire(m, v, p).lit = <<>>
  PROVE  AtOnce(m, Wire(m, v, p).v, v)
BY OrderIs DEF Acyclic, AtOnce, Wire, InnerReads

(* What a call reads: what is connected to an input at the call's own      *)
(* level only if the output reads that input at once.                      *)
LEMMA RowsOnward ==
  ASSUME NoLoops, IInv, LeadsInv, Inside, stack # <<>>, N.kind = "sub", Callee[1] \notin Shared,
         Callee \in DOMAIN minDelay
  PROVE  \A k \in 1 .. Len(InputRows) : Onward(F, InputRows[k])
<1> PICK fr, m, v, t, n, i, x, ins, l, rows, q :
       /\ fr = F /\ m = Here.m /\ v = F.v /\ t = F.t /\ n = N /\ i = N.is.ins /\ x = Callee
       /\ ins = Inputs[x[1]] /\ l = Len(ins) /\ rows = bound - F.t + 1 /\ q = InputRows
  OBVIOUS
<1>1. /\ m \in DOMAIN Node /\ i \in DOMAIN InsMod[m] /\ x[1] = InsMod[m][i] /\ x[1] \in DOMAIN Node
      /\ x[2] = n.is.port /\ t \in Nat /\ rows \in Int
  BY CalleeIs
<1>2. FrameOK(F, minDelay, Shared) /\ n = Node[m][v] /\ v \in DOMAIN Node[m] /\ m = Mod(F.hier)
  BY TopFrame DEF FrameOK, NodeOf
<1>3. l \in Nat /\ DOMAIN ins = 1 .. l /\ \A j \in 1 .. l : ins[j] \in Ports(x[1])
  <2>1. Sequence(ins)
    BY <1>1, HierarchyAssumption
  <2> QED BY <2>1, SequenceIs DEF Ports, Range
<1>4. ASSUME NEW p \in Ports(x[1]), NEW r \in Nat
      PROVE  Onward(F, InputItem(p, r))
  <2>1. PICK a, o : a = InputItem(p, r) /\ o = Conn[m][i][p]
    OBVIOUS
  <2>2. a.t = t + r /\ (a.o.lit # <<>> \/ (a.o = o /\ minDelay[x][p] <= r))
    <3>1. CASE IsLive(minDelay[x][p], r)
      BY <2>1, <3>1 DEF InputItem, Item, IsLive
    <3>2. CASE ~IsLive(minDelay[x][p], r)
      <4>1. PICK w, z : w = Node[x[1]][p].w /\ z = Zeros(w)
        OBVIOUS
      <4>2. a.t = t + r /\ a.o = Lit(z)
        BY <2>1, <3>2, <4>1 DEF InputItem, Item
      <4>3. w \in Nat \ {0}
        BY <1>1, <4>1, HierarchyAssumption, DesignAssumption
      <4>4. DOMAIN z = 1 .. w /\ 1 \in 1 .. w
        BY <4>1, <4>3 DEF Zeros, Fill
      <4>5. PICK e : e = <<>>
        OBVIOUS
      <4>6. z # e
        <5>1. DOMAIN e = {}
          BY <4>5
        <5> QED BY <4>4, <5>1
      <4>7. Lit(z).lit = z
        BY DEF Lit
      <4>8. a.o.lit = z
        BY <4>2, <4>7
      <4>9. a.o.lit # e
        BY <4>6, <4>8
      <4>10. a.o.lit # <<>>
        BY <4>5, <4>9, Zenon
      <4> QED BY <4>2, <4>10
    <3> QED BY <3>1, <3>2
  <2>3. CASE a.o.lit = <<>> /\ r = 0
    <3>1. a.o = o /\ minDelay[x][p] = 0
      <4>1. minDelay[x] \in [Ports(x[1]) -> Nat]
        BY DEF IInv, DelaysOK
      <4>2. minDelay[x][p] \in Nat
        BY <4>1
      <4> QED BY <2>2, <2>3, <4>2
    <3>2. p \in Order.reads[x[1]][x[2]]
      BY <3>1, TopLeads DEF NotedAtOnce
    <3>3. Order.rank[m][o.v] < Order.rank[m][v] /\ Order.reads[m][o.v] \subseteq Order.reads[m][v]
      <4>1. /\ m \in DOMAIN Node /\ v \in DOMAIN Node[m] /\ Node[m][v].kind = "sub"
            /\ p \in Ports(InsMod[m][Node[m][v].is.ins])
        BY <1>1, <1>2
      <4>2. p \in InnerReads(m, v)
        BY <1>1, <1>2, <3>2 DEF InnerReads
      <4>3. Wire(m, v, p) = o
        BY <1>2, <2>1 DEF Wire
      <4>4. Wire(m, v, p).lit = <<>>
        BY <2>3, <3>1, <4>3, Zenon
      <4>5. AtOnce(m, Wire(m, v, p).v, v)
        BY <4>1, <4>2, <4>4, ConnectedAtOnce, Zenon
      <4> QED BY <4>3, <4>5 DEF AtOnce
    <3>4. RankOf(fr) = Order.rank[m][v] /\ Mod(fr.hier) = m /\ \A u : ReadBy(fr, u) = Order.reads[m][u]
      BY <1>2 DEF RankOf, ReadBy
    <3>5. fr.t = a.t /\ fr.v = v
      BY <1>1, <2>2, <2>3
    <3>6. Onward(fr, a)
      BY <3>1, <3>3, <3>4, <3>5 DEF Onward
    <3> QED BY <2>1, <3>6
  <2>4. CASE a.o.lit # <<>> \/ r # 0
    BY <1>1, <2>1, <2>2, <2>4 DEF Onward
  <2> QED BY <2>3, <2>4
<1>5. q = [k \in 1 .. rows * l |-> InputItem(ins[1 + ((k - 1) % l)], (k - 1) \div l)]
  BY DEF InputRows
<1>6. \A k \in 1 .. Len(q) : k \in 1 .. rows * l
  <2>1. q = [k \in 1 .. rows * l |-> q[k]]
    BY <1>5
  <2>2. rows * l \in Int
    BY <1>1, <1>3
  <2> QED BY <2>1, <2>2, RangeIs
<1>7. ASSUME NEW k \in 1 .. Len(q) PROVE Onward(F, q[k])
  <2>1. k \in 1 .. rows * l
    BY <1>6
  <2>2. k - 1 \in Nat /\ l # 0
    BY <1>1, <1>3, <2>1
  <2>3. PICK j, r : j = 1 + ((k - 1) % l) /\ r = (k - 1) \div l
    OBVIOUS
  <2>4. j \in 1 .. l /\ r \in Nat
    BY <1>3, <2>2, <2>3, DivMod
  <2>5. q[k] = InputItem(ins[j], r)
    BY <1>5, <2>1, <2>3
  <2> QED BY <1>3, <1>4, <2>4, <2>5
<1> QED BY <1>7

LEMMA AbortLeads == ASSUME IInv, LeadsInv, Abort PROVE LeadsInv'
<1>1. PICK e : e = <<>>
  OBVIOUS
<1>2. Len(e) = 0 /\ stack' = e
  BY <1>1, NothingIs DEF Abort
<1>3. Leads(e, minDelay, Shared)
  BY <1>2 DEF Leads
<1> QED BY <1>2, <1>3, LeadsStep DEF Abort, LeadsInv

LEMMA LeafLeads == ASSUME NoLoops, IInv, LeadsInv, Leaf PROVE LeadsInv'
<1>1. stack # <<>> /\ NoteRead /\ stack' = Front(stack) /\ UNCHANGED <<given, funcs>>
  BY DEF Leaf, Entering, Active, Keep, Return
<1>2. DOMAIN minDelay' = DOMAIN minDelay
  BY <1>1, NoteReadOK
<1>3. ASSUME Inside PROVE Leads(stack', minDelay', Shared) /\ NotedAtOnce(minDelay', Shared)
  <2>1. Leads(Front(stack), minDelay, Shared)
    BY <1>1, <1>3, TopLeads, TopFrame, PopLeads
  <2> QED BY <1>1, <1>2, <1>3, <2>1, LeadsKept, NoteReadAtOnce
<1> QED BY <1>1, <1>2, <1>3, LeadsStep DEF LeadsInv

LEMMA ExpandLeads == ASSUME NoLoops, IInv, LeadsInv, Expand PROVE LeadsInv'
<1>1. /\ stack # <<>> /\ NoteRead /\ UNCHANGED <<given, funcs>>
      /\ Become([F EXCEPT !.step = "collect", !.asks = Operands])
  BY DEF Expand, Entering, Active
<1>2. DOMAIN minDelay' = DOMAIN minDelay
  BY <1>1, NoteReadOK
<1>3. PICK asks : asks = Operands
  OBVIOUS
<1>4. ASSUME Inside PROVE Leads(stack', minDelay', Shared) /\ NotedAtOnce(minDelay', Shared)
  <2>1. ~FromParent => \A k \in 1 .. Len(asks) : Onward(F, asks[k])
    BY <1>1, <1>3, OperandsOnward
  <2>2. Leads(stack', minDelay', Shared)
    BY <1>1, <1>2, <1>3, <1>4, <2>1, AskLeads
  <2> QED BY <1>1, <1>4, <2>2, NoteReadAtOnce
<1> QED BY <1>1, <1>2, <1>4, LeadsStep DEF LeadsInv

LEMMA CallLeads == ASSUME NoLoops, IInv, LeadsInv, Call PROVE LeadsInv'
<1>1. /\ stack # <<>> /\ N.kind = "sub" /\ Callee[1] \notin Shared /\ Callee \in DOMAIN funcs
      /\ Become([F EXCEPT !.step = "collect", !.asks = InputRows]) /\ UNCHANGED <<given, funcs, minDelay>>
  BY DEF Call, Entering, Active, Reenters
<1>2. PICK asks : asks = InputRows
  OBVIOUS
<1>3. ASSUME Inside PROVE Leads(stack', minDelay', Shared)
  <2>1. Callee \in DOMAIN minDelay
    BY <1>1, <1>3, TopLeads
  <2>2. \A k \in 1 .. Len(asks) : Onward(F, asks[k])
    BY <1>1, <1>2, <1>3, <2>1, RowsOnward
  <2> QED BY <1>1, <1>2, <1>3, <2>2, AskLeads
<1> QED BY <1>1, <1>3, LeadsStep DEF LeadsInv

LEMMA BodyDoneLeads == ASSUME NoLoops, IInv, LeadsInv, BodyDone PROVE LeadsInv'
<1>1. /\ stack # <<>> /\ F.step = "body" /\ funcs' = Put(funcs, Callee, ret[1])
      /\ Become([F EXCEPT !.step = "collect", !.asks = InputRows]) /\ UNCHANGED <<given, minDelay>>
  BY DEF BodyDone
<1>2. PICK asks : asks = InputRows
  OBVIOUS
<1>3. FrameOK(F, minDelay, Shared) /\ N = NodeOf(F) /\ Callee = CalleeOf(F)
  BY <1>1, TopFrame
<1>4. N.kind = "sub" /\ Callee[1] \notin Shared
  BY <1>1, <1>3 DEF FrameOK
<1>5. ASSUME Inside PROVE Leads(stack', minDelay', Shared) /\ DOMAIN funcs' \subseteq DOMAIN minDelay
  <2>1. Callee \in DOMAIN minDelay
    BY <1>1, <1>3, <1>5, TopLeads DEF InStep
  <2>2. \A k \in 1 .. Len(asks) : Onward(F, asks[k])
    BY <1>1, <1>2, <1>4, <1>5, <2>1, RowsOnward
  <2>3. Leads(stack', minDelay', Shared)
    BY <1>1, <1>2, <1>5, <2>2, AskLeads
  <2>4. DOMAIN funcs' = DOMAIN funcs \cup {Callee}
    <3>1. PICK x, y : x = Callee /\ y = ret[1]
      OBVIOUS
    <3> QED BY <1>1, <3>1 DEF Put
  <2> QED BY <1>1, <1>5, <2>1, <2>3, <2>4, TopLeads
<1> QED BY <1>1, <1>5, LeadsStep DEF LeadsInv

LEMMA OneLeads ==
  ASSUME NEW fr, NEW d, NEW sh, InStep(fr, d, sh)
  PROVE  Leads(<<fr>>, d, sh)
<1> PICK s : s = <<fr>>
  OBVIOUS
<1>1. Len(s) = 1 /\ s[1] = fr
  OBVIOUS
<1>2. \A k \in 1 .. Len(s) : k = 1
  BY <1>1
<1> QED BY <1>1, <1>2 DEF Leads

(* A target's own call, in the module its place says.                      *)
LEMMA TargetLeads ==
  ASSUME job \in Jobs, NEW m \in Shared, m \in DOMAIN Node, NEW tgt, NEW v, NEW d
  PROVE  Leads(<<Frame(ChainTo(m, tgt), v, 0)>>, d, Shared)
<1> PICK fr, h, e : fr = Frame(h, v, 0) /\ h = ChainTo(m, tgt) /\ e = <<>>
  OBVIOUS
<1>1. Mod(h) = m /\ Last(h).tgt = tgt
  BY ChainOK, ChainTgt
<1>2. fr.hier = h /\ fr.step = "enter" /\ fr.asks = e
  BY DEF Frame
<1>3. Len(e) = 0
  BY NothingIs
<1>4. InStep(fr, d, Shared)
  BY <1>1, <1>2, <1>3 DEF InStep
<1> QED BY <1>4, OneLeads

LEMMA ModuleShared ==
  ASSUME job \in Jobs
  PROVE  job.in \in Shared /\ Top \in Shared /\ Top \in DOMAIN Node /\ job.in \in DOMAIN Node
<1>1. job.in \in DOMAIN Node /\ Range(Ancestry[job.in]) \subseteq Shared
  BY JobIs
<1> PICK s, n : s = Ancestry[job.in] /\ n = Len(s)
  OBVIOUS
<1>2. s \in Seq(DOMAIN Node) /\ n > 0 /\ s[n] = job.in
  BY <1>1, AncestryUp DEF Upward
<1>3. n \in DOMAIN s
  BY <1>2
<1>4. job.in \in Shared
  BY <1>1, <1>2, <1>3 DEF Range
<1> QED BY <1>1, <1>4, JobIs DEF Shared

LEMMA InitLeads == Init => LeadsInv
<1> SUFFICES ASSUME Init PROVE LeadsInv
  OBVIOUS
<1>1. job \in Jobs
  BY DEF Init
<1>2. Leads(stack, minDelay, Shared)
  BY <1>1, ModuleShared, TargetLeads DEF Init
<1>3. NotedAtOnce(minDelay, Shared)
  <2>1. PICK D : D = {<<m, DestName(job)>> : m \in Above(job.in)}
    OBVIOUS
  <2>2. minDelay = [f \in D |-> Unread(f[1])]
    BY <2>1 DEF Init
  <2>3. \A f \in D : f[1] \in Shared
    BY <2>1 DEF Shared
  <2> QED BY <2>2, <2>3 DEF NotedAtOnce
<1>4. DOMAIN funcs \subseteq DOMAIN minDelay
  <2>1. PICK e : e = <<>>
    OBVIOUS
  <2>2. DOMAIN e = {} /\ funcs = e
    BY <2>1 DEF Init
  <2> QED BY <2>2
<1> QED BY <1>2, <1>3, <1>4 DEF LeadsInv

LEMMA DeliverLeads == ASSUME IInv, LeadsInv, Deliver PROVE LeadsInv'
<1>1. UNCHANGED <<given, funcs, minDelay>> /\ job \in Jobs
  BY DEF Deliver, IInv
<1>2. PICK next : next = Len(result) + 2
  OBVIOUS
<1>3. stack' = IF next \notin DOMAIN job.dests THEN <<>>
               ELSE <<Frame(ChainTo(Top, job.dests[next]), job.dests[next], 0)>>
  BY <1>2 DEF Deliver
<1>4. Leads(stack', minDelay, Shared)
  <2>1. CASE next \notin DOMAIN job.dests
    <3>1. PICK e : e = <<>>
      OBVIOUS
    <3>2. Len(e) = 0 /\ stack' = e
      BY <1>3, <2>1, <3>1, NothingIs
    <3> QED BY <3>2 DEF Leads
  <2>2. CASE next \in DOMAIN job.dests
    <3>1. PICK v : v = job.dests[next]
      OBVIOUS
    <3>2. Leads(<<Frame(ChainTo(Top, v), v, 0)>>, minDelay, Shared)
      BY <1>1, ModuleShared, TargetLeads
    <3>3. stack' = <<Frame(ChainTo(Top, v), v, 0)>>
      BY <1>3, <2>2, <3>1
    <3> QED BY <3>2, <3>3
  <2> QED BY <2>1, <2>2
<1> QED BY <1>1, <1>4, LeadsStep DEF LeadsInv

(* Returns, and what is had of the operands.                               *)
LEMMA ReturnLeads ==
  ASSUME IInv, LeadsInv, CutOff \/ Hit \/ Finish \/ EndRead \/ Store
  PROVE  LeadsInv'
<1>1. stack # <<>> /\ stack' = Front(stack) /\ UNCHANGED <<given, funcs, minDelay>>
  <2>1. CASE CutOff
    BY <2>1 DEF CutOff, Active, Return
  <2>2. CASE Hit
    BY <2>2 DEF Hit, Active, Return
  <2>3. CASE Finish
    BY <2>3 DEF Finish, Collected, Active, Keep, Return
  <2>4. CASE EndRead
    BY <2>4 DEF EndRead, Collected, Active, Keep, Return
  <2>5. CASE Store
    BY <2>5 DEF Store, Collected, Active, Return
  <2> QED BY <2>1, <2>2, <2>3, <2>4, <2>5
<1> QED BY <1>1, PopsLeads

LEMMA NumberLeads == ASSUME IInv, LeadsInv, Number PROVE LeadsInv'
<1>1. stack # <<>> /\ F.step = "collect" /\ UNCHANGED <<given, funcs, minDelay>>
  BY DEF Number, Asking, Active
<1>2. PICK got : got = Grown(F.got, Const(Asked.o.lit))
  OBVIOUS
<1>3. Become([F EXCEPT !.got = got])
  BY <1>2 DEF Number
<1> QED BY <1>1, <1>3, GotLeads

LEMMA ReceiveLeads == ASSUME IInv, LeadsInv, Receive PROVE LeadsInv'
<1>1. stack # <<>> /\ F.step = "collect" /\ UNCHANGED <<given, funcs, minDelay>>
  BY DEF Receive
<1>2. PICK got : got = Grown(F.got, Cut(Asked.o, ret[1]))
  OBVIOUS
<1>3. Become([F EXCEPT !.got = got])
  BY <1>2 DEF Receive
<1> QED BY <1>1, <1>3, GotLeads

LEMMA LoadArrayLeads == ASSUME IInv, LeadsInv, LoadArray PROVE LeadsInv'
<1>1. stack # <<>> /\ F.step = "collect" /\ UNCHANGED <<given, funcs, minDelay>>
  BY DEF LoadArray, Active
<1>2. PICK a, v : a = Array(N.is) /\ v = Instr("array", N.w, N.is, <<F.got[1]>> \o a.stores)
  OBVIOUS
<1>3. PICK got : got = <<F.got[1], IF InOrder(a.levels, F.t) THEN v ELSE Unfit(v)>>
  OBVIOUS
<1>4. Become([F EXCEPT !.got = got])
  BY <1>2, <1>3 DEF LoadArray
<1> QED BY <1>1, <1>4, GotLeads

(* A read of an array asks for its writes: of its own level at once, of    *)
(* others earlier or later.                                                *)
LEMMA FindWritesLeads == ASSUME NoLoops, IInv, LeadsInv, FindWrites PROVE LeadsInv'
<1>1. /\ stack # <<>> /\ F.step = "collect" /\ N.kind = "dynsel" /\ UNCHANGED <<given, funcs, minDelay>>
  BY DEF FindWrites, Collected, Active
<1>2. PICK d, sh, m, last, o, fr : /\ d = minDelay /\ sh = Shared /\ m = Here.m /\ last = Array(N.is).last
                                   /\ o = Whole(N.is) /\ fr = F
  OBVIOUS
<1>3. /\ FrameOK(fr, d, sh) /\ N = NodeOf(fr) /\ m = Mod(fr.hier) /\ fr.t \in Nat /\ last \in Nat
      /\ m \in DOMAIN Node /\ fr.v \in DOMAIN Node[m] /\ N = Node[m][fr.v] /\ Sequence(fr.asks)
  <2>1. FrameOK(fr, d, sh) /\ N = NodeOf(fr) /\ m = Mod(fr.hier)
    BY <1>1, <1>2, TopFrame
  <2>2. m \in DOMAIN Node /\ fr.v \in DOMAIN Node[m] /\ N = Node[m][fr.v] /\ fr.t \in Nat
    BY <2>1, HierMod DEF FrameOK, NodeOf
  <2>3. last \in Nat
    BY <1>2, ArrayOK DEF IInv
  <2> QED BY <2>1, <2>2, <2>3 DEF FrameOK
<1>4. ASSUME NEW t \in Nat PROVE Onward(fr, Item(o, t))
  <2>1. PICK a, u : a = Item(o, t) /\ u = N.is
    OBVIOUS
  <2>2. a.o.v = u /\ a.t = t
    BY <1>2, <2>1 DEF Item, Whole
  <2>3. CASE t = fr.t
    <3>1. Order.rank[m][u] < Order.rank[m][fr.v] /\ Order.reads[m][u] \subseteq Order.reads[m][fr.v]
      BY <1>1, <1>3, <2>1, OrderIs DEF Acyclic
    <3>2. RankOf(fr) = Order.rank[m][fr.v] /\ \A x : ReadBy(fr, x) = Order.reads[m][x]
      BY <1>3 DEF RankOf, ReadBy
    <3>3. Onward(fr, a)
      BY <1>3, <2>2, <2>3, <3>1, <3>2 DEF Onward
    <3> QED BY <2>1, <3>3
  <2>4. CASE t < fr.t
    <3>1. Onward(fr, a)
      BY <1>1, <1>3, <2>2, <2>4 DEF Onward
    <3> QED BY <2>1, <3>1
  <2>5. CASE fr.t < t
    <3>1. Onward(fr, a)
      BY <2>2, <2>5 DEF Onward
    <3> QED BY <2>1, <3>1
  <2> QED BY <1>3, <2>3, <2>4, <2>5
<1>5. PICK w1, w2, b, y : /\ w1 = <<Item(o, F.t)>> /\ w2 = [i \in 1 .. F.t - last |-> Item(o, last + i)]
                          /\ b = (IF last > 0 THEN w2 ELSE <<>>) /\ y = F.asks \o w1 \o b
  OBVIOUS
<1>6. Sequence(w1) /\ \A k \in 1 .. Len(w1) : Onward(fr, w1[k])
  <2> PICK i : i = Item(o, F.t)
    OBVIOUS
  <2>1. w1 \in Seq({i}) /\ Len(w1) = 1 /\ w1[1] = i
    BY <1>5
  <2>2. \A k \in 1 .. Len(w1) : w1[k] = i
    BY <2>1
  <2>3. Onward(fr, i)
    BY <1>2, <1>3, <1>4
  <2> QED BY <2>1, <2>2, <2>3, IsSequence
<1>7. Sequence(b) /\ \A k \in 1 .. Len(b) : Onward(fr, b[k])
  <2>1. CASE last > 0
    <3>1. b = w2 /\ w2 = [i \in 1 .. F.t - last |-> w2[i]] /\ F.t - last \in Int
      BY <1>2, <1>3, <1>5, <2>1
    <3>2. Sequence(w2) /\ \A k \in 1 .. Len(w2) : k \in 1 .. F.t - last
      BY <3>1, RangeIs
    <3>3. ASSUME NEW k \in 1 .. F.t - last PROVE Onward(fr, w2[k])
      <4>1. PICK t : t = last + k
        OBVIOUS
      <4>2. w2[k] = Item(o, t) /\ t \in Nat
        BY <1>3, <1>5, <4>1
      <4> QED BY <1>4, <4>2
    <3> QED BY <3>1, <3>2, <3>3
  <2>2. CASE ~(last > 0)
    BY <1>5, <2>2, NothingIs
  <2> QED BY <2>1, <2>2
<1>8. Become([F EXCEPT !.step = "collect", !.asks = y])
  <2>1. [F EXCEPT !.step = "collect", !.asks = y] = [F EXCEPT !.asks = y]
    BY <1>1, <1>2, <1>3 DEF FrameOK
  <2>2. Become([F EXCEPT !.asks = y])
    BY <1>2, <1>5 DEF FindWrites
  <2> QED BY <2>1, <2>2
<1>9. ASSUME Inside PROVE Leads(stack', minDelay', Shared)
  <2>1. InStep(fr, d, sh) /\ ~Through(fr)
    BY <1>1, <1>2, <1>3, <1>9, TopLeads DEF Through
  <2>2. \A k \in 1 .. Len(F.asks) : Onward(fr, F.asks[k])
    BY <1>2, <2>1 DEF InStep
  <2>3. PICK q : q = F.asks \o w1
    OBVIOUS
  <2>4. Sequence(q) /\ \A k \in 1 .. Len(q) : Onward(fr, q[k])
    <3>1. PICK s : s = F.asks
      OBVIOUS
    <3>2. Sequence(s) /\ q = s \o w1 /\ \A k \in 1 .. Len(s) : Onward(fr, s[k])
      BY <1>2, <1>3, <2>2, <2>3, <3>1
    <3> QED BY ONLY <1>6, <3>2, ConcatIs
  <2>5. y = q \o b
    BY <1>5, <2>3
  <2>6. \A k \in 1 .. Len(y) : Onward(fr, y[k])
    BY <1>7, <2>4, <2>5, ConcatIs
  <2> QED BY <1>1, <1>2, <1>8, <1>9, <2>6, AskLeads
<1> QED BY <1>1, <1>9, LeadsStep DEF LeadsInv

(* Into a callee, which is below the module at hand.                       *)
LEMMA ElaborateLeads == ASSUME NoLoops, IInv, LeadsInv, Elaborate PROVE LeadsInv'
<1>1. /\ stack # <<>> /\ N.kind = "sub" /\ Callee[1] \notin Shared /\ UNCHANGED <<given, funcs>>
  BY DEF Elaborate, Entering, Active, Reenters
<1>2. PICK d, e, sh, x, i : d = minDelay /\ e = minDelay' /\ sh = Shared /\ x = Callee /\ i = N.is.ins
  OBVIOUS
<1>3. PICK c, h, a, b : /\ c = Ctx(x[1], x[2], i) /\ h = Append(F.hier, c)
                        /\ a = [F EXCEPT !.step = "body"] /\ b = Frame(h, x[2], 0)
  OBVIOUS
<1>4. e = Put(d, x, Unread(x[1])) /\ stack' = Front(stack) \o <<a, b>>
  BY <1>2, <1>3 DEF Elaborate
<1>5. /\ Sequence(stack) /\ Len(stack) > 0 /\ FrameOK(F, d, sh) /\ Sequence(F.hier)
      /\ x = CalleeOf(F) /\ F = Last(stack) /\ DelaysOK(d) /\ StackOK(stack', e, sh)
  <2>1. IInv' /\ Shared' = sh
    BY <1>1, <1>2, ElaborateStep DEF given, Shared
  <2>2. StackOK(stack', e, sh)
    BY <1>2, <2>1 DEF IInv
  <2> QED BY <1>1, <1>2, <2>2, TopFrame DEF IInv, F, FrameOK, HierOK
<1>6. DOMAIN e = DOMAIN d \cup {x} /\ e[x] = Unread(x[1]) /\ \A f \in DOMAIN d : f = x \/ e[f] = d[f]
  <2>1. PICK D, u : D = DOMAIN d \cup {x} /\ u = Unread(x[1])
    OBVIOUS
  <2>2. e = [f \in D |-> IF f = x THEN u ELSE d[f]]
    BY <1>4, <2>1 DEF Put
  <2> QED BY <2>1, <2>2
<1>7. /\ a.hier = F.hier /\ a.v = F.v /\ a.t = F.t /\ a.step = "body" /\ a.asks = F.asks /\ CalleeOf(a) = x
      /\ SameCall(a, F)
  BY <1>3, <1>5 DEF FrameOK, SameCall, CalleeOf, NodeOf
<1>8. c.m = x[1] /\ c.tgt = x[2] /\ Last(h) = c
  BY <1>3, <1>5, AppendIs DEF Ctx
<1>9. PICK s : s = Append(Front(stack), a)
  OBVIOUS
<1>10. stack' = Append(s, b) /\ Sequence(s) /\ s[Len(s)] = a /\ Len(s) \in Nat
  <2>1. Sequence(Front(stack))
    BY <1>5, FrontIs
  <2>2. /\ Sequence(s) /\ Len(s) = Len(Front(stack)) + 1 /\ s[Len(Front(stack)) + 1] = a
    BY <1>9, <2>1, AppendIs
  <2> QED BY <1>4, <1>9, <2>1, <2>2, TwoMore, SequenceIs
<1>11. (\A k \in 1 .. Len(s) : FrameOK(s[k], e, sh)) /\ FrameOK(b, e, sh)
  <2>1. PICK r, n : r = Append(s, b) /\ n = Len(s)
    OBVIOUS
  <2>2. Len(r) = n + 1 /\ n \in Nat /\ r[n + 1] = b /\ \A k \in 1 .. n : r[k] = s[k]
    BY <1>10, <2>1, AppendIs
  <2>3. \A k \in 1 .. n + 1 : FrameOK(r[k], e, sh)
    BY <1>5, <1>10, <2>1, <2>2 DEF StackOK
  <2>4. n + 1 \in 1 .. n + 1 /\ \A k \in 1 .. n : k \in 1 .. n + 1
    BY <2>2
  <2> QED BY <2>1, <2>2, <2>3, <2>4
<1>12. InStep(b, e, sh)
  <2>1. PICK z : z = <<>>
    OBVIOUS
  <2>2. b.hier = h /\ b.v = x[2] /\ b.step = "enter" /\ b.asks = z /\ Len(z) = 0
    BY <1>3, <2>1, NothingIs DEF Frame
  <2>3. Mod(h) \notin sh /\ Last(h).tgt = x[2]
    BY <1>1, <1>2, <1>8 DEF Mod
  <2> QED BY <2>2, <2>3 DEF InStep
<1>13. Passes(a, b, sh)
  <2>1. b.hier = h /\ Mod(h) = x[1]
    BY <1>3, <1>8 DEF Frame, Mod
  <2>2. Here.m \in DOMAIN Node /\ i \in DOMAIN InsMod[Here.m] /\ x[1] = InsMod[Here.m][i] /\ Here.m = Mod(F.hier)
    BY <1>1, <1>2, CalleeIs, TopFrame
  <2>3. Height[x[1]] < Height[Mod(a.hier)]
    BY <1>7, <2>2, HeightFalls
  <2> QED BY <1>1, <1>2, <2>1, <2>3 DEF Passes
<1>14. ASSUME Inside PROVE Leads(stack', e, sh) /\ NotedAtOnce(e, sh) /\ DOMAIN funcs \subseteq DOMAIN e
  <2>1. /\ Leads(stack, d, sh) /\ NotedAtOnce(d, sh) /\ DOMAIN funcs \subseteq DOMAIN d /\ InStep(F, d, sh)
    BY <1>1, <1>2, <1>14, TopLeads
  <2>2. Leads(stack, e, sh) /\ InStep(F, e, sh)
    BY <1>6, <2>1, LeadsKept DEF InStep
  <2>3. InStep(a, e, sh)
    BY <1>6, <1>7, <2>2, SameInStep
  <2>4. Leads(s, e, sh)
    BY <1>5, <1>7, <1>9, <2>2, <2>3, SwapLeads
  <2>5. Leads(Append(s, b), e, sh)
    BY <1>10, <1>11, <1>12, <1>13, <2>4, PushLeads
  <2>6. NotedAtOnce(e, sh)
    <3> SUFFICES ASSUME NEW f \in DOMAIN e, f[1] \notin sh, NEW p \in Ports(f[1]), e[f][p] = 0
                 PROVE  p \in Order.reads[f[1]][f[2]]
      BY DEF NotedAtOnce
    <3>1. f # x
      <4>1. DelayMax # 0
        BY DesignAssumption DEF IInv
      <4>2. f = x => e[f][p] = DelayMax
        BY <1>6 DEF Unread
      <4> QED BY <4>1, <4>2
    <3>2. f \in DOMAIN d /\ e[f] = d[f]
      BY <1>6, <3>1
    <3> QED BY <2>1, <3>2 DEF NotedAtOnce
  <2> QED BY <1>6, <1>10, <2>1, <2>5, <2>6
<1> QED BY <1>1, <1>2, <1>6, <1>14, LeadsStep

(* An operand of a frame that reads ahead comes after the frame.           *)
LEMMA OperandAfter ==
  ASSUME NoLoops, NEW fr, NEW d, NEW sh, Top \in sh, FrameOK(fr, d, sh), InStep(fr, d, sh), ~Through(fr),
         NEW k \in 1 .. Len(fr.asks), fr.asks[k].o.lit = <<>>,
         NEW b, b = Frame(fr.hier, fr.asks[k].o.v, fr.asks[k].t)
  PROVE  InStep(b, d, sh) /\ (ReadsAhead(fr) => Passes(fr, b, sh))
<1> PICK a, h, m, v, u, t, r : /\ a = fr.asks[k] /\ h = fr.hier /\ m = Mod(h) /\ v = fr.v /\ u = a.o.v /\ t = fr.t
                               /\ r = a.t
  OBVIOUS
<1>1. b.hier = h /\ b.v = u /\ b.t = r /\ b.step = "enter" /\ Len(b.asks) = 0
  <2>1. PICK z : z = <<>>
    OBVIOUS
  <2>2. b.asks = z /\ Len(z) = 0
    BY <2>1, NothingIs DEF Frame
  <2> QED BY <2>2 DEF Frame
<1>2. Onward(fr, a)
  BY DEF InStep
<1>3. \/ t < r
      \/ t = r /\ RankOf(b) < RankOf(fr) /\ Order.reads[m][u] \subseteq Order.reads[m][v]
      \/ r < t /\ NodeOf(fr).kind = "dynsel"
  BY <1>1, <1>2 DEF Onward, RankOf, ReadBy
<1>4. t \in Nat /\ r \in Nat /\ m \in DOMAIN Node /\ v \in DOMAIN Node[m] /\ DOMAIN fr.asks = 1 .. Len(fr.asks)
  BY HierMod, SequenceIs DEF FrameOK
<1>5. NodeOf(fr).kind = "dynsel" => m \in sh
  BY <1>4, DesignAssumption DEF NodeOf
<1>6. InStep(b, d, sh)
  <2>1. m \in sh => h = ChainTo(m, Last(h).tgt)
    BY DEF InStep
  <2>2. m \notin sh /\ r = 0 => Order.reads[m][u] \subseteq Order.reads[m][Last(h).tgt]
    <3> SUFFICES ASSUME m \notin sh, r = 0 PROVE Order.reads[m][u] \subseteq Order.reads[m][Last(h).tgt]
      OBVIOUS
    <3>1. t = 0 /\ Order.reads[m][u] \subseteq Order.reads[m][v]
      <4>1. ~(t < r) /\ NodeOf(fr).kind # "dynsel"
        BY <1>4, <1>5
      <4> QED BY <1>3, <4>1, Zenon
    <3>2. Order.reads[m][v] \subseteq Order.reads[m][Last(h).tgt]
      BY <3>1 DEF InStep, ReadBy
    <3> QED BY <3>1, <3>2
  <2>3. Mod(b.hier) = m /\ \A w : ReadBy(b, w) = Order.reads[m][w]
    BY <1>1 DEF ReadBy
  <2>4. \A j \in 1 .. Len(b.asks) : Onward(b, b.asks[j])
    BY <1>1
  <2>5. b.step # "body" /\ Last(b.hier).tgt = Last(h).tgt /\ b.hier = h
    BY <1>1
  <2> QED BY <1>1, <2>1, <2>2, <2>3, <2>4, <2>5 DEF InStep
<1>7. ASSUME ReadsAhead(fr) PROVE Passes(fr, b, sh)
  <2>1. NodeOf(fr).kind = "dynsel" => t <= r
    BY <1>4, <1>7 DEF ReadsAhead, NodeOf, Mod
  <2>2. t < r \/ (t = r /\ RankOf(b) < RankOf(fr))
    BY <1>3, <1>4, <2>1
  <2> QED BY <1>1, <2>2 DEF Passes
<1> QED BY <1>6, <1>7

(* An input of the target's module goes on above it.                       *)
LEMMA CallerAfter ==
  ASSUME IInv, LeadsInv, Inside, stack # <<>>, Through(F), NEW v, NEW t
  PROVE  LET b == Frame(Front(F.hier), v, t)
         IN InStep(b, minDelay, Shared) /\ Passes(F, b, Shared)
<1> PICK d, sh, g, m, tgt, h, b : /\ d = minDelay /\ sh = Shared /\ g = F.hier /\ m = Mod(g) /\ tgt = Last(g).tgt
                                  /\ h = Front(g) /\ b = Frame(h, v, t)
  OBVIOUS
<1>1. FrameOK(F, d, sh) /\ InStep(F, d, sh) /\ job \in Jobs
  BY TopFrame, TopLeads DEF IInv
<1>2. m \in DOMAIN Node /\ m \in FlatMods /\ (m \in sh \/ <<m, tgt>> \in DOMAIN d)
  BY <1>1, HierMod DEF FrameOK, Through
<1>3. m \in sh
  <2>1. PICK f : f = <<m, tgt>>
    OBVIOUS
  <2>2. f[1] = m
    BY <2>1
  <2>3. f \in DOMAIN minDelay => (f[1] \in FlatMods => f[1] \in Shared)
    BY DEF Inside
  <2> QED BY <1>2, <2>1, <2>2, <2>3
<1>4. m # Top /\ g = ChainTo(m, tgt)
  BY <1>1, <1>2, <1>3, HierarchyAssumption DEF InStep
<1>5. PICK p : p = Parent[m].in
  OBVIOUS
<1>6. h = ChainTo(p, tgt) /\ p \in sh /\ p \in DOMAIN Node /\ Len(h) < Len(g)
  <2>1. job \in Jobs /\ m \in Shared /\ m # Top
    BY <1>1, <1>3, <1>4, <1>2, HierarchyAssumption
  <2>2. /\ Front(ChainTo(m, tgt)) = ChainTo(Parent[m].in, tgt)
        /\ Parent[m].in \in Shared /\ Parent[m].in \in DOMAIN Node
        /\ Len(Front(ChainTo(m, tgt))) < Len(ChainTo(m, tgt))
    BY <2>1, ChainFront, Zenon
  <2> QED BY <1>4, <1>5, <2>2
<1>7. Mod(h) = p /\ Last(h).tgt = tgt
  BY <1>6, ChainOK, ChainTgt
<1>8. b.hier = h /\ b.step = "enter" /\ Len(b.asks) = 0
  <2>1. PICK z : z = <<>>
    OBVIOUS
  <2>2. b.asks = z /\ Len(z) = 0
    BY <2>1, NothingIs DEF Frame
  <2> QED BY <2>2 DEF Frame
<1>9. InStep(b, d, sh)
  BY <1>6, <1>7, <1>8 DEF InStep
<1>10. Passes(F, b, sh)
  BY <1>3, <1>6, <1>7, <1>8 DEF Passes
<1> QED BY <1>9, <1>10

LEMMA DescendLeads == ASSUME NoLoops, IInv, LeadsInv, Descend PROVE LeadsInv'
<1>1. /\ stack # <<>> /\ Len(F.got) < Len(F.asks) /\ Asked.o.lit = <<>> /\ UNCHANGED <<given, funcs, minDelay>>
  BY DEF Descend, Asking, Active
<1>2. PICK d, sh, l, k, b : /\ d = minDelay /\ sh = Shared /\ l = Len(stack) /\ k = Len(F.got) + 1
                            /\ b = Frame(Asker(F), Asked.o.v, Asked.t)
  OBVIOUS
<1>3. /\ Sequence(stack) /\ FrameOK(F, d, sh) /\ FromParent = Through(F) /\ F = stack[l] /\ l > 0 /\ l \in Nat
      /\ \A j \in 1 .. l : FrameOK(stack[j], d, sh)
  BY <1>1, <1>2, TopFrame, SequenceIs DEF IInv, StackOK, F, Last
<1>4. stack' = Append(stack, b)
  BY <1>2, <1>3 DEF Descend, Asker
<1>5. FrameOK(b, d, sh)
  <2>1. IInv' /\ Shared' = sh
    BY <1>1, <1>2, DescendStep DEF given, Shared
  <2>2. StackOK(stack', d, sh)
    BY <1>1, <1>2, <2>1 DEF IInv
  <2>3. PICK r : r = Append(stack, b)
    OBVIOUS
  <2>4. Len(r) = l + 1 /\ r[l + 1] = b /\ l + 1 \in 1 .. l + 1
    BY <1>2, <1>3, <2>3, AppendIs
  <2> QED BY <1>4, <2>2, <2>3, <2>4 DEF StackOK
<1>6. ASSUME Inside PROVE Leads(stack', d, sh)
  <2>1. Leads(stack, d, sh) /\ InStep(F, d, sh)
    BY <1>1, <1>2, <1>6, TopLeads
  <2>2. InStep(b, d, sh) /\ (ReadsAhead(F) => Passes(F, b, sh))
    <3>1. CASE Through(F)
      <4>1. PICK v, t : v = Asked.o.v /\ t = Asked.t
        OBVIOUS
      <4>2. b = Frame(Front(F.hier), v, t)
        BY <1>2, <3>1, <4>1 DEF Asker
      <4> QED BY <1>1, <1>2, <1>6, <3>1, <4>2, CallerAfter
    <3>2. CASE ~Through(F)
      <4>1. k \in 1 .. Len(F.asks)
        BY <1>1, <1>2, <1>3, SequenceIs DEF FrameOK, GoodSeq
      <4>2. Asked = F.asks[k] /\ Asker(F) = F.hier /\ Top \in sh
        BY <1>2, <3>2 DEF Asked, Asker, Shared
      <4>3. F.asks[k].o.lit = <<>>
        BY <1>1, <4>2, Zenon
      <4>4. PICK fr : fr = F
        OBVIOUS
      <4>5. b = Frame(fr.hier, fr.asks[k].o.v, fr.asks[k].t)
        BY <1>2, <4>2, <4>4
      <4>6. InStep(b, d, sh) /\ (ReadsAhead(fr) => Passes(fr, b, sh))
        BY <1>3, <2>1, <3>2, <4>1, <4>2, <4>3, <4>4, <4>5, OperandAfter
      <4> QED BY <4>4, <4>6
    <3> QED BY <3>1, <3>2
  <2> QED BY <1>2, <1>3, <1>4, <1>5, <2>1, <2>2, PushLeads
<1> QED BY <1>1, <1>2, <1>6, LeadsStep DEF LeadsInv

LEMMA StepLeads == NoLoops /\ IInv /\ LeadsInv /\ [Next]_vars => LeadsInv'
<1> SUFFICES ASSUME NoLoops, IInv, LeadsInv, [Next]_vars PROVE LeadsInv'
  OBVIOUS
<1>1. CASE UNCHANGED vars
  BY <1>1, LeadsStep DEF vars, LeadsInv
<1>2. CASE Next
  BY <1>2, ReturnLeads, LeafLeads, ExpandLeads, CallLeads, ElaborateLeads, BodyDoneLeads, AbortLeads,
     NumberLeads, DescendLeads, ReceiveLeads, FindWritesLeads, LoadArrayLeads, DeliverLeads DEF Next
<1> QED BY <1>1, <1>2

(* No frame comes after one of its context, name and level.                *)
LEMMA NotAfterItself ==
  ASSUME NoLoops, NEW a, NEW b, NEW d, NEW sh, FrameOK(a, d, sh), FrameOK(b, d, sh),
         InStep(a, d, sh), InStep(b, d, sh), Passes(a, b, sh),
         Last(a.hier) = Last(b.hier), a.v = b.v, a.t = b.t
  PROVE  FALSE
<1>1. Mod(a.hier) = Mod(b.hier) /\ RankOf(a) = RankOf(b)
  BY DEF Mod, RankOf
<1>2. /\ RankOf(a) \in Nat /\ a.t \in Nat /\ Len(a.hier) \in Nat /\ Len(b.hier) \in Nat
      /\ Height[Mod(a.hier)] \in Nat
  BY RankIs
<1>3. Mod(a.hier) \in sh => a.hier = b.hier
  BY <1>1 DEF InStep
<1> QED BY <1>1, <1>2, <1>3 DEF Passes

LEMMA InvNoCircle == NoLoops /\ IInv /\ LeadsInv => (Ahead /\ Inside => NoCircularElaboration)
<1> SUFFICES ASSUME NoLoops, IInv, LeadsInv, Ahead, Inside,
                    NEW j \in DOMAIN stack, NEW k \in DOMAIN stack, j < k,
                    Last(stack[j].hier) = Last(stack[k].hier), stack[j].v = stack[k].v, stack[j].t = stack[k].t
             PROVE  FALSE
  <2>1. DOMAIN stack = 1 .. Len(stack) /\ Len(stack) \in Nat
    BY SequenceIs DEF IInv, StackOK
  <2> QED BY <2>1 DEF NoCircularElaboration
<1>1. DOMAIN stack = 1 .. Len(stack) /\ Len(stack) \in Nat /\ StackOK(stack, minDelay, Shared)
  BY SequenceIs DEF IInv, StackOK
<1>2. Leads(stack, minDelay, Shared)
  BY DEF LeadsInv
<1>3. PICK a, b : a = stack[j] /\ b = stack[k]
  OBVIOUS
<1>4. FrameOK(a, minDelay, Shared) /\ FrameOK(b, minDelay, Shared)
  BY <1>1, <1>3 DEF StackOK
<1>5. InStep(a, minDelay, Shared) /\ InStep(b, minDelay, Shared)
  BY <1>1, <1>2, <1>3 DEF Leads
<1>6. Passes(a, b, Shared)
  <2>1. \A i \in j .. k - 1 : ReadsAhead(stack[i])
    BY <1>1 DEF Ahead
  <2> QED BY <1>1, <1>2, <1>3, <2>1 DEF Leads
<1> QED BY <1>3, <1>4, <1>5, <1>6, NotAfterItself

(* The elaboration does not go round, whatever the bound, the targets and  *)
(* the encoding, in a design without a loop within one cycle that goes     *)
(* through what each output reads at once: the inputs given 0 are those a  *)
(* loop could go through (op_constraint.cpp:1782-1789).  A read of an      *)
(* array that has asked for earlier writes again, and a module that has    *)
(* lost its static flag without being the target's, can still go round.    *)
THEOREM UnrollNoCircularElaboration ==
  NoLoops /\ Spec => [](Ahead /\ Inside => NoCircularElaboration)
<1> SUFFICES ASSUME NoLoops PROVE Spec => [](Ahead /\ Inside => NoCircularElaboration)
  OBVIOUS
<1>1. Init => IInv /\ LeadsInv
  BY InitOK, InitLeads
<1>2. IInv /\ LeadsInv /\ [Next]_vars => (IInv /\ LeadsInv)'
  BY StepKeeps, StepLeads
<1>3. IInv /\ LeadsInv => (Ahead /\ Inside => NoCircularElaboration)
  BY InvNoCircle
<1> QED BY <1>1, <1>2, <1>3, PTL DEF Spec
=============================================================================
