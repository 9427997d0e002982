-------------------------- MODULE FrontEnd_proofs --------------------------
(***************************************************************************)
(* A run of func_extract works on the design.v it was started on, whatever *)
(* edits, kills and earlier runs there were, for any texts and bounds.     *)
(***************************************************************************)
EXTENDS FrontEnd, TLAPS

(* What the date of design.v.clean is good for: a file that was written to *)
(* its end, and newer than a design.v nobody edited meanwhile, was made of *)
(* the design.v there is.                                                  *)
Trustworthy == cleanIs = "newer" /\ whole /\ ~late => madeOf = design

(* While it is written it is not whole, and an edit makes it late.         *)
Writing == pc = "remove" => /\ mode = "clean" /\ ~whole /\ madeOf = started
                            /\ ~late => madeOf = design

(* What a run takes for its input, from the moment it has decided on it.   *)
Chosen == /\ pc = "clean" => mode = "clean"
          /\ pc \in {"io", "parse", "parsed"} /\ mode = "reuse" /\ whole /\ ~late => madeOf = started
          /\ pc \in {"parse", "parsed"} /\ mode = "clean" => madeOf = started
          /\ mode \in {"clean", "reuse", "forced"}

DatesInv == Trustworthy /\ Writing /\ Chosen

LEMMA InitDates == Init => DatesInv
BY DEF Init, DatesInv, Trustworthy, Writing, Chosen

(* Cleaning leaves design.v.clean and what is known of it alone.           *)
LEMMA CleaningDates ==
  ASSUME DatesInv, CleanFile PROVE DatesInv'
<1>1. /\ pc = "clean" /\ pc' \in {"clean", "aborted"}
      /\ UNCHANGED <<design, cleanIs, madeOf, whole, late, mode, started>>
  <2>1. Cleaning
    BY DEF CleanFile, DropComment, HoldAlways, ClockOnly, SeparateConcat, ExtractConcat,
           SplitDeclaration, CopyLine, NoWidth
  <2>2. pc' \in {pc, "aborted"}
    BY DEF CleanFile, DropComment, HoldAlways, ClockOnly, SeparateConcat, ExtractConcat,
           SplitDeclaration, CopyLine, NoWidth
  <2> QED BY <2>1, <2>2 DEF Cleaning, run
<1> QED BY <1>1 DEF DatesInv, Trustworthy, Writing, Chosen

(* Removing functions writes to it, which keeps it the newer of the two.   *)
LEMMA RemovingDates ==
  ASSUME DatesInv, RemoveFunctions PROVE DatesInv'
<1>1. /\ pc = "remove" /\ pc' = pc
      /\ UNCHANGED <<design, madeOf, whole, late, mode, started>>
  BY DEF RemoveFunctions, RemoveFunction, CleanSubmod, CopyClean, Removing, run
<1> QED BY <1>1 DEF DatesInv, Trustworthy, Writing, Chosen

(* Parsing writes no file.                                                 *)
LEMMA ParsingDates ==
  ASSUME DatesInv, ParseLine PROVE DatesInv'
<1>1. /\ pc = "parse" /\ pc' \in {"parse", "aborted"}
      /\ UNCHANGED <<design, cleanIs, madeOf, whole, late, mode, started>>
  <2>1. Parsing
    BY DEF ParseLine, ParseModule, ParseDecl, SkipLine, SingleLine, DestConcat, BothConcat,
           CaseExpr, NbExpr, MemIfAssign, NonblockIf, IfNested, AlwaysIfElse, Submodule, ParseError
  <2>2. pc' \in {pc, "aborted"}
    BY DEF ParseLine, ParseModule, ParseDecl, SkipLine, SingleLine, DestConcat, BothConcat,
           CaseExpr, NbExpr, MemIfAssign, NonblockIf, IfNested, AlwaysIfElse, Submodule, ParseError,
           Go
  <2> QED BY <2>1, <2>2 DEF Parsing, disk, run
<1> QED BY <1>1 DEF DatesInv, Trustworthy, Writing, Chosen

(* A run that starts takes the file only when it is newer.                 *)
LEMMA StartDates ==
  ASSUME DatesInv, Start PROVE DatesInv'
<1>1. /\ pc' \in {"clean", "io", "aborted"} /\ started' = design
      /\ pc' = "clean" => mode' = "clean"
      /\ mode' \in {"clean", "reuse", "forced"}
      /\ UNCHANGED <<design, cleanIs, madeOf, whole, late>>
  BY DEF Start, ModeOf
<1>2. mode' = "reuse" => cleanIs = "newer"
  BY DEF Start, ModeOf
<1> QED BY <1>1, <1>2 DEF DatesInv, Trustworthy, Writing, Chosen

LEMMA StepDates ==
  ASSUME DatesInv, [Next]_vars PROVE DatesInv'
<1>1. CASE CleanFile BY <1>1, CleaningDates
<1>2. CASE RemoveFunctions BY <1>2, RemovingDates
<1>3. CASE ParseLine BY <1>3, ParsingDates
<1>4. CASE Start BY <1>4, StartDates
<1>5. CASE GetIo
  BY <1>5 DEF GetIo, Cleans, run, DatesInv, Trustworthy, Writing, Chosen
<1>6. CASE Close
  BY <1>6 DEF Close, run, DatesInv, Trustworthy, Writing, Chosen
<1>7. CASE Kill
  BY <1>7 DEF Kill, disk, DatesInv, Trustworthy, Writing, Chosen
<1>8. CASE Edit
  BY <1>8 DEF Edit, run, DatesInv, Trustworthy, Writing, Chosen
<1>9. CASE UNCHANGED vars
  BY <1>9 DEF vars, disk, run, DatesInv, Trustworthy, Writing, Chosen
<1> QED BY <1>1, <1>2, <1>3, <1>4, <1>5, <1>6, <1>7, <1>8, <1>9 DEF Next, Run, Terminating

(* The tables are those of the design.v the run was started on, unless the *)
(* old file was forced, a kill cut design.v.clean short, or design.v was   *)
(* edited while it was written (app/func_extract.cpp:112-163).             *)
THEOREM TablesAreCurrent == Spec => []TablesCurrent
<1>1. DatesInv => TablesCurrent BY DEF DatesInv, Chosen, TablesCurrent
<1>2. Spec => []DatesInv BY InitDates, StepDates, PTL DEF Spec
<1> QED BY <1>1, <1>2, PTL
=============================================================================
