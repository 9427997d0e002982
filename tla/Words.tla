------------------------------- MODULE Words --------------------------------
(***************************************************************************)
(* Verilog bit vectors: a word is a sequence of Booleans, the least        *)
(* significant bit first.  What is here is Verilog's, not the program's:   *)
(* the taint tools emit Verilog text and these are the meanings of the few *)
(* operators they emit, and of the operators of the designs they read.     *)
(***************************************************************************)
EXTENDS Integers, Sequences, FiniteSets, SequencesExt

Words(w)      == [1..w -> BOOLEAN]
Fill(w, b)    == [i \in 1..w |-> b]
Zeros(w)      == Fill(w, FALSE)
AnyBit(x)     == \E i \in DOMAIN x : x[i]
Bit(x, i)     == i \in DOMAIN x /\ x[i]
Widest(x, y)  == IF Len(x) >= Len(y) THEN Len(x) ELSE Len(y)

\* An assignment cuts or zero-extends, a binary operator zero-extends.
Fit(x, w)     == [i \in 1..w |-> Bit(x, i)]
BitNot(x)     == [i \in 1..Len(x) |-> ~x[i]]
BitAnd(x, y)  == [i \in 1..Widest(x, y) |-> Bit(x, i) /\ Bit(y, i)]
BitOr(x, y)   == [i \in 1..Widest(x, y) |-> Bit(x, i) \/ Bit(y, i)]
BitXor(x, y)  == [i \in 1..Widest(x, y) |-> Bit(x, i) # Bit(y, i)]
Part(x, hi, lo) == [i \in 1..(hi - lo + 1) |-> Bit(x, lo + i)]
\* x placed at bits hi..lo of a word of width w, 0 elsewhere.
Place(x, hi, lo, w) == [i \in 1..w |-> i - 1 \in lo..hi /\ Bit(x, i - lo)]

\* The number a word stands for, from the top bit down, and back by halving;
\* of a number too large or negative, a word keeps what fits.
Num(x) == LET from[k \in 0..Len(x)] == IF k = 0 THEN 0
                                       ELSE 2 * from[k - 1] + IF x[Len(x) + 1 - k] THEN 1 ELSE 0
          IN from[Len(x)]
Word(n, w) == LET half[k \in 0..w] == IF k = 0 THEN n ELSE half[k - 1] \div 2
              IN [i \in 1..w |-> half[i - 1] % 2 = 1]
Truth(b)   == <<b>>

\* {x1, x2, ...} with the most significant first.
Concat(xs) == LET upto[k \in 0..Len(xs)] == IF k = 0 THEN <<>> ELSE xs[k] \o upto[k - 1]
              IN upto[Len(xs)]

\* As a signed number, and extended to a width as one.
SNum(x)       == Num(x) - IF x[Len(x)] THEN 2^Len(x) ELSE 0
SFit(x, w)    == [i \in 1..w |-> IF i <= Len(x) THEN x[i] ELSE x[Len(x)]]
SignedFit(signed, x, w) == IF signed THEN SFit(x, w) ELSE Fit(x, w)
NumberOf(signed, x)     == IF signed THEN SNum(x) ELSE Num(x)

TwoOpValue(op, w, x, y) ==
  CASE op = "&"  -> Fit(BitAnd(x, y), w)
    [] op = "|"  -> Fit(BitOr(x, y), w)
    [] op = "^"  -> Fit(BitXor(x, y), w)
    [] op = "+"  -> Word(Num(x) + Num(y), w)
    [] op = "-"  -> Word(Num(x) - Num(y), w)
    [] op = "*"  -> Word(Num(x) * Num(y), w)
    [] op = "&&" -> Fit(Truth(AnyBit(x) /\ AnyBit(y)), w)
    [] op = "||" -> Fit(Truth(AnyBit(x) \/ AnyBit(y)), w)
    [] op = "==" -> Truth(Num(x) = Num(y))
    [] op = "<"  -> Truth(Num(x) < Num(y))
    [] op = "<<" -> Word(Num(x) * 2^Num(y), w)
    [] op = ">>" -> Word(Num(x) \div 2^Num(y), w)

OneOpValue(op, w, x) ==
  CASE op = ""  -> Fit(x, w)
    [] op = "~" -> Fit(BitNot(x), w)
    [] op = "-" -> Word(- Num(x), w)

ReduceValue(op, x) ==
  CASE op = "|" -> Truth(AnyBit(x))
    [] op = "&" -> Truth(~AnyBit(BitNot(x)))
    [] op = "!" -> Truth(~AnyBit(x))
    [] op = "^" -> Truth(Cardinality({i \in DOMAIN x : x[i]}) % 2 = 1)
=============================================================================
