----------------------------- MODULE Encodings -----------------------------
(***************************************************************************)
(* Instruction words as instr.txt and tb.txt write them, e.g.              *)
(* 7'b0+5'bx+2'h3: a sequence of fields.  What test_gen draws for the      *)
(* fields it leaves open, the number a word stands for, and how the other  *)
(* programs tell from the words which instruction they see.                *)
(***************************************************************************)
EXTENDS Integers, Sequences, SequencesExt, FiniteSets, TLC

CONSTANTS NameOrder,   \* all names, in the order std::map keeps them
          CNames       \* var_name_convert of the names it changes

Sorted(S) == SelectSeq(NameOrder, LAMBDA v : v \in S)
CName(v)  == IF v \in DOMAIN CNames THEN CNames[v] ELSE v

\* A field has width w, kind k and number v.  Kinds: "num", a number of that width; "plain", a
\* number without a width; "x", any number; "Zp" and "Zm", Z plus and minus v; "Z", their Z;
\* "bad", a width with no digits.
Field(w, k, v) == [w |-> w, k |-> k, v |-> v]
Num(w, v)      == Field(w, "num", v)
Open(f)        == f.k \in {"x", "Zp", "Zm", "Z"}
Concat(word)   == Len(word) > 1

\* Bound: of the numbers rand() % base can be, the two smallest and the largest.
Rand(base) == (0..(base - 1)) \cap {0, 1, base - 1}

-----------------------------------------------------------------------------
(* test_gen: numbers for the open fields *)

MaterializeNum(f) ==
  IF f.k # "x" THEN {f}
  ELSE {Num(f.w, r) : r \in IF f.w = 5 THEN {3 + s : s \in Rand(29)}
                            ELSE IF f.w > 0 THEN Rand(2^f.w) ELSE Rand(2)}

\* An x among other fields; a 5-bit register number is drawn as the design needs it.
DrawX(design, f) ==
  IF f.w # 5 THEN {Num(f.w, r) : r \in Rand(2^(f.w - 1))}
  ELSE CASE design = "PICO" -> {Num(5, r) : r \in {0, 1, 2, 31}}
         [] design = "URV"  -> {Num(5, 3 + r) : r \in Rand(29)}
         [] design = "BI"   -> {Num(5, 1 + r) : r \in Rand(31)}
         [] OTHER           -> {Field(5, "bad", 0)}

\* A field that takes part in a relation, with the value it gives to Z; -1 is no value yet.
DrawZ(f, z) ==
  CASE f.k = "Zp" -> {<<Num(f.w, r + f.v), r>> : r \in Rand(2^(f.w - 1) - f.v)}
    [] f.k = "Zm" -> {<<Num(f.w, r), r + f.v>> : r \in Rand(2^(f.w - 1) - f.v)}
    [] f.k = "Z"  -> IF z = -1 THEN {} ELSE {<<Num(f.w, z), z>>}

\* All words replace_x may make of a word; none when it aborts.
ReplaceX(design, word) ==
  IF ~Concat(word) THEN {<<f>> : f \in MaterializeNum(word[1])}
  ELSE LET made[n \in 0..Len(word)] ==
             IF n = 0 THEN {<<<<>>, -1>>}
             ELSE UNION {LET f == word[n]
                             drawn == CASE f.k = "x" -> {<<g, m[2]>> : g \in DrawX(design, f)}
                                        [] f.k \in {"Zp", "Zm", "Z"} -> DrawZ(f, m[2])
                                        [] OTHER -> {<<f, m[2]>>}
                         IN {<<Append(m[1], d[1]), d[2]>> : d \in drawn} : m \in made[n - 1]}
       IN {m[1] : m \in made[Len(word)]}

-----------------------------------------------------------------------------
(* The number a word stands for *)

\* hdb2apint: x digits count as 0, a number without a width gets 64 bits.
Apint(f) == [w |-> IF f.k = "plain" THEN 64 ELSE f.w,
             v |-> IF Open(f) THEN 0 ELSE f.v]

\* convert_to_single_apint: the fields side by side, the first one on top.
SingleApint(word) ==
  IF ~Concat(word) THEN Apint(word[1])
  ELSE FoldLeft(LAMBDA acc, f : [w |-> acc.w + f.w, v |-> acc.v * 2^f.w + Apint(f).v],
                [w |-> 0, v |-> 0], word)

\* convert_to_single_num: the same in a uint32_t; bound: the words of the models are shorter.
SingleNum(word) == SingleApint(word).v

-----------------------------------------------------------------------------
(* decode: the first instruction the words are compatible with *)

\* Mutant of SameValue: an open field matches a number of any width.
SameValueAnyWidth(f, g) == Open(f) \/ Apint(f).v = Apint(g).v

\* f is a field of the instruction, g a field of the test.
SameValue(f, g) ==
  IF Open(f) THEN \/ g.k = "num" /\ g.w = f.w
                  \/ g.k = "plain" /\ (g.v = 0 \/ (g.v = 1 /\ f.w = 1))
  ELSE Apint(f).v = Apint(g).v

\* The comparison aborts: no digits, or a plain number above 1 for an open field.
Aborts(f, g) == g.k = "bad" \/ (Open(f) /\ g.k = "plain" /\ g.v > 1)

\* What the comparisons of the fields say, in the order the code makes them.
Answer(f, g) == IF Aborts(f, g) THEN "abort" ELSE IF SameValue(f, g) THEN "same" ELSE "differ"
Side(Op(_, _), a, b) == IF Len(a) # Len(b) THEN <<"differ">>
                        ELSE FlattenSeq([n \in DOMAIN a |-> Op(a[n], b[n])])
Answers(words, given) ==
  Side(LAMBDA s, t : Side(LAMBDA f, g : <<Answer(f, g)>>, s, t), words, given)

IsCompatible(words, given) == ToSet(Answers(words, given)) \subseteq {"same"}

\* instr.instrEncoding[varName]: no words for a variable the instruction does not name.
WordsFor(enc, var) == IF var \in DOMAIN enc THEN enc[var] ELSE <<>>

\* The first comparison that does not find the same decides: "differ", "abort" or all the "same".
Compared(instr, test) ==
  LET vs  == Sorted(DOMAIN test)
      all == FlattenSeq([n \in DOMAIN vs |-> Answers(WordsFor(instr.enc, vs[n]), test[vs[n]])])
  IN Head(SelectSeq(all, LAMBDA a : a # "same") \o <<"same">>)

\* Index of the instruction; 0 when decode aborts, in a comparison or because none fits.
Decode(instrs, test) ==
  LET ends == SelectSeq([i \in DOMAIN instrs |-> i],
                        LAMBDA i : Compared(instrs[i], test) # "differ")
  IN IF ends = <<>> \/ Compared(instrs[Head(ends)], test) = "abort" THEN 0 ELSE Head(ends)

\* get_instr_by_name
ByName(instrs, name) ==
  CHOOSE i \in DOMAIN instrs : /\ instrs[i].name = name
                               /\ \A j \in 1..(i - 1) : instrs[j].name # name
=============================================================================
