----------------------------- MODULE UnrollRtl -----------------------------
(***************************************************************************)
(* What Unroll's values mean, by LLVM's rules, and what the RTL computes,  *)
(* by Verilog's: the values Unroll keeps are the RTL's.                    *)
(***************************************************************************)
EXTENDS Unroll

CONSTANT Samples  \* how many valuations of the arguments are looked at

Undefined == <<>>  \* poison, or a load from outside

(* The arguments of fn under valuation s: a different word for each name   *)
(* and level.                                                              *)
ArgNames == UNION {{a[2] : a \in DOMAIN Signature[m][b]} : m \in DOMAIN Node, b \in Bounds}
Numbering == FoldSet(LAMBDA n, f : f @@ (n :> Cardinality(DOMAIN f)), <<>>, ArgNames)
Valuation(fn, s) ==
  [leaf \in Declared(fn) |->
     Word((s % 4) * Numbering[leaf[3]] + (s \div 4) * (1 + leaf[4]), WidthOf(fn, leaf))]

(* What an array holds at first, and what a black box makes of its inputs: *)
(* anything, but the same in both.                                         *)
Held(addr, w)     == Word(Num(addr) + 1, w)
BlackBox(x, w)    == Word(FoldLeft(LAMBDA a, b : 2 * a + Num(b) + 1, 0, x), w)

Compare(rel, a, b) ==
  CASE rel = "eq" -> a = b [] rel = "ne" -> a # b
    [] rel = "lt" -> a < b [] rel = "le" -> a <= b
    [] rel = "gt" -> a > b [] rel = "ge" -> a >= b

(* The remainder takes the sign of the dividend.                           *)
Remainder(a, b) == LET Abs(i) == IF i < 0 THEN -i ELSE i
                       r == Abs(a) % Abs(b) IN IF a < 0 THEN -r ELSE r

ShiftRight(signed, x, n, w) ==
  [i \in 1 .. w |-> IF i + n <= w THEN x[i + n] ELSE signed /\ x[w]]

(* The array read at addr after conditional stores of data, each given as  *)
(* condition, address, data.                                               *)
Loaded(x, w) ==
  LET hits == {k \in 2 .. Len(x) - 2 : k % 3 = 2 /\ x[k] = <<TRUE>>}
      same == {k \in hits : x[k + 1] = x[1]}
  IN IF \E a \in {x[1]} \cup {x[k + 1] : k \in hits} : SNum(a) < 0 THEN Undefined
     ELSE IF same = {} THEN Held(x[1], w) ELSE x[Max(same) + 2]

(* LLVM's instructions on defined operands.                                *)
Computed(v, x) ==
  LET a == Num(x[1])  b == Num(x[2])  w == v.w
  IN CASE v.op = "zext" -> Fit(x[1], w)
       [] v.op = "sext" -> SFit(x[1], w)
       [] v.op = "trunc" -> Fit(x[1], w)
       [] v.op = "and" -> BitAnd(x[1], x[2])
       [] v.op = "or"  -> BitOr(x[1], x[2])
       [] v.op = "xor" -> BitXor(x[1], x[2])
       [] v.op = "add" -> Word(a + b, w)
       [] v.op = "sub" -> Word((a - b) % 2^w, w)
       [] v.op = "mul" -> Word(a * b, w)
       [] v.op = "urem" -> IF b = 0 THEN Undefined ELSE Word(a % b, w)
       [] v.op = "srem" -> IF b = 0 THEN Undefined
                           ELSE Word(Remainder(SNum(x[1]), SNum(x[2])) % 2^w, w)
       [] v.op = "shl"  -> IF b >= w THEN Undefined ELSE Word(a * 2^b, w)
       [] v.op = "lshr" -> IF b >= w THEN Undefined ELSE ShiftRight(FALSE, x[1], b, w)
       [] v.op = "ashr" -> IF b >= w THEN Undefined ELSE ShiftRight(TRUE, x[1], b, w)
       [] v.op = "icmp" -> Truth(Compare(v.is.rel, NumberOf(v.is.signed, x[1]),
                                                   NumberOf(v.is.signed, x[2])))
       [] v.op = "black box" -> BlackBox(x, w)
       [] v.op = "array" -> Loaded(x, w)
       \* An index is signed, that of an array too.
       [] v.op = "load" -> IF SNum(x[1]) + 1 \in DOMAIN v.is THEN v.is[SNum(x[1]) + 1]
                           ELSE Undefined

RECURSIVE Meaning(_, _, _)
(* A value's word, in the functions "fs", for arguments "env".             *)
Meaning(v, fs, env) ==
  CASE v.op = "const" -> v.is
    [] v.op = "arg"   -> env[v.is]
    [] v.op = "call"  -> Meaning(fs[v.is], fs, [a \in DOMAIN v.of |-> Meaning(v.of[a], fs, env)])
    [] v.op = "select" ->
         LET c == Meaning(v.of[1], fs, env)
         IN IF c = Undefined THEN Undefined
            ELSE Meaning(v.of[IF c[1] THEN 2 ELSE 3], fs, env)
    [] OTHER ->
         LET x == [k \in DOMAIN v.of |-> Meaning(v.of[k], fs, env)]
         IN IF \E k \in DOMAIN x : x[k] = Undefined THEN Undefined ELSE Computed(v, x)
-----------------------------------------------------------------------------
(* Verilog: operands grow to the widest of them and the result, as signed  *)
(* only if all are; what a shift is by stands alone.                       *)
VerilogTwoOp(n, x, y) ==
  LET shift  == n.op \in Shifts
      signed == \/ n.is[1] /\ (shift \/ n.is[2])
                \/ n.op \in SignedRelations
      wide   == Max({n.w, Len(x), Len(y)})
      X == SignedFit(signed, x, wide)
      Y == SignedFit(signed /\ ~shift, y, wide)
  IN CASE n.op \in Relations ->
            Truth(Compare(RelName(n.op), NumberOf(signed, X), NumberOf(signed, Y)))
       [] n.op = "%" -> Fit(Word(Remainder(NumberOf(signed, X), NumberOf(signed, Y)) % 2^wide,
                                 wide), n.w)
       [] n.op \in {">>", ">>>"} ->
            Fit(ShiftRight(signed /\ n.op = ">>>", X, Num(y), wide), n.w)
       [] OTHER -> Fit(TwoOpValue(n.op, wide, X, Y), n.w)

RtlWord(n, x) ==
  CASE n.kind \in {"reg", "write"} -> Last(x)
    [] n.kind = "bb" -> BlackBox(x, n.w)
    [] n.kind = "two" -> VerilogTwoOp(n, x[1], x[2])
    [] n.kind = "one" /\ n.op \in {"", "~", "-"} -> OneOpValue(n.op, n.w, x[1])
    [] n.kind = "one" /\ n.op \in {"!", "|", "&"} -> ReduceValue(n.op, x[1])
    [] n.kind = "sel" -> LET lo == Num(x[2]) IN Part(x[1], lo + n.w - 1, lo)
    [] n.kind = "cat" -> Concat(x)
    [] n.kind = "ite" -> IF AnyBit(x[1]) THEN x[2] ELSE x[3]
    [] n.kind = "case" ->
         LET hit == {k \in DOMAIN n.is : Bit(x[1], n.is[k] + 1)}
         IN IF hit = {} THEN Last(x) ELSE x[Min(hit) + 1]
    [] n.kind = "switch" -> n.is[Num(x[1]) + 1]

(* The word of the encoding in cycle k, over the input's own word a.       *)
RtlInput(p, k, a) ==
  LET pieces == IF k < instr.len THEN GivenWord(instr.word[p][k + 1], p) ELSE NopWord(p)
      From(j) == PieceLo(pieces, j)
  IN IF pieces = <<>> THEN a
     ELSE Fit(Concat([j \in DOMAIN pieces |->
                        IF pieces[j].bits = <<>> THEN Part(a, From(j) + pieces[j].w - 1, From(j))
                                                 ELSE pieces[j].bits]), Len(a))

(* The RTL run forward from the arguments "env" of fn: what node v of the  *)
(* instance at "path" has in cycle k, which is level bound - k.  Registers *)
(* hold their arguments in cycle 0; what a black box read before it is not *)
(* known.                                                                  *)
Rtl(fn, env) ==
  LET ModAt(path) == IF path = <<>> THEN fn[1] ELSE InsMod[Last(path).in][Last(path).ins]
      Names(path) == [j \in DOMAIN path |-> path[j].ins]
      val[x \in Seq([in : DOMAIN Node, ins : STRING]) \X STRING \X (0 .. bound)] ==
        LET path == x[1]  m == ModAt(path)  k == x[3]  n == Node[m][x[2]]
            clocked == n.kind \in {"reg", "switch"}
            Of(o, at, c) == IF o.lit # <<>> THEN o.lit
                            ELSE IF o.cut = <<>> \/ o.direct THEN val[<<at, o.v, c>>]
                            ELSE Part(val[<<at, o.v, c>>], o.cut[1], o.cut[2])
            from == Last(path)
            held == IF n.kind = "switch" THEN [var |-> x[2], w |-> n.w, hi |-> n.w - 1, lo |-> 0]
                                         ELSE n.is
            At(j) == CASE clocked -> k - 1 [] n.kind = "bb" -> k - n.is.delay[j] [] OTHER -> k
            Written(addr) ==
              LET w == Node[m][n.is].src
              IN {c \in 0 .. k - 1 : /\ Of(w[1], path, c) = <<TRUE>>
                                     /\ Of(w[2], path, c) = addr}
        IN CASE clocked /\ k = 0 ->
                  Part(IF <<m, held.var>> \in DOMAIN RstValue THEN RstValue[<<m, held.var>>]
                       ELSE env[Arg(fn, "reg", Append(Names(path), held.var), bound)],
                       held.hi, held.lo)
             [] n.kind = "sub" -> val[<<Append(path, [in |-> m, ins |-> n.is.ins]), n.is.port, k>>]
             [] n.kind = "mem" ->
                  env[Arg(fn, "mem", Names(path) \o <<n.is.ins, n.is.port>>, bound - k)]
             [] n.kind = "in" /\ path # <<>> ->
                  Of(Conn[from.in][from.ins][x[2]], Front(path), k)
             [] n.kind = "in" /\ path = <<>> ->
                  LET a == env[Arg(fn, "in", <<x[2]>>, bound - k)]
                  IN IF fn[1] = Top THEN RtlInput(x[2], k, a) ELSE a
             [] n.kind = "bb" /\ \E j \in DOMAIN n.src : At(j) < 0 -> Undefined
             [] n.kind = "dynsel" ->
                  LET addr == Of(n.src[1], path, k)
                      hits == Written(addr)
                  IN IF hits = {} THEN Held(addr, n.w) ELSE Of(Node[m][n.is].src[3], path, Max(hits))
             [] OTHER -> RtlWord(n, [j \in DOMAIN n.src |-> Of(n.src[j], path, At(j))])
  IN val

(* Where in the design the nodes of a function are.                        *)
PathTo(cell) ==
  LET to[m \in DOMAIN Node] == IF m = Top THEN <<>> ELSE Append(to[Parent[m].in], Parent[m])
  IN IF FnOf(cell) = cell THEN <<>> ELSE to[cell[1]]

IsRtl(val, fs, cell, v, t) ==
  \A s \in 0 .. Samples - 1 :
    LET env  == Valuation(FnOf(cell), s)
        word == Meaning(val, fs, env)
    IN word = Undefined \/ word = Rtl(FnOf(cell), env)[<<PathTo(cell), v, bound - t>>]
-----------------------------------------------------------------------------
(* An expression is memoised only if it is what the RTL computes at that   *)
(* level, whatever instance, caller or order of evaluation it was made     *)
(* for, its width rules those of Verilog, as long as every call in it      *)
(* fitted its body (check_regs.cpp:1088-1091, op_constraint.cpp:17-29).    *)
MemoIsRTL ==
  [][\A key \in DOMAIN memo' \ DOMAIN memo :
       Fits(memo'[key]) => IsRtl(memo'[key], funcs, key[1], key[2], key[3])]_vars

(* The function printed is the RTL's, for every target, bound and encoding *)
(* (README.md:5).                                                          *)
ResultIsRTL ==
  \A k \in DOMAIN result : IsRtl(result[k], funcs, <<job.in, DestName(job)>>, job.dests[k], 0)
=============================================================================
