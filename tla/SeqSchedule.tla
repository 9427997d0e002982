---------------------------- MODULE SeqSchedule -----------------------------
(***************************************************************************)
(* get_all_update without g_use_multi_thread: one target at a time and,    *)
(* for each, one instruction and one delay after the other, every call     *)
(* inline.  Registers come before vectors.                                 *)
(***************************************************************************)
EXTENDS TargetConfig

CONSTANT NoTarget
ASSUME NoTargetAssumption == NoTarget \notin Targets

VARIABLES
  phase,      \* "loop" or "printed"
  target,     \* the target in hand, or NoTarget between two of them
  instr,      \* the instruction of the inner loop
  delayTodo,  \* delays not yet called for
  vecTodo     \* the local copy of g_allowedTgtVec

schedVars == <<phase, target, instr, delayTodo, vecTodo>>
vars == <<callVars, schedVars>>

TypeOK ==
  /\ CallTypeOK
  /\ phase \in {"loop", "printed"}
  /\ target \in Targets \cup {NoTarget}
  /\ instr \in Instr
  /\ delayTodo \in Seq(Delays)
  /\ vecTodo \in Seq(Vecs)

Init ==
  /\ CallInit(InitialWork, InitialAsvs)
  /\ files \in [FileKey -> {NoFile}]
  /\ published \in [FileKey -> {NoFile}]
  /\ phase = "loop" /\ target = NoTarget /\ instr = 1
  /\ delayTodo = <<>> /\ vecTodo = AllowedVecs

Between == phase = "loop" /\ target = NoTarget

TakeUp(t) == target' = t /\ instr' = 1 /\ delayTodo' = CallDelays(1, t)

PoppedUnlessSkipped(t) == IF t \in PassOver THEN workSet ELSE workSet \ {t}  \* mutant
Popped(t) == workSet \ {t}

TakeTarget ==
  /\ Between
  /\ \E t \in workSet :
       /\ workSet' = Popped(t)
       /\ IF t \in PassOver
          THEN UNCHANGED <<target, instr, delayTodo>>
          ELSE TakeUp(t)
  /\ UNCHANGED <<visited, asvSet, depInstrs, recorded, dep, linked, currInstr,
                 disk, locals, faulty, crashes, phase, vecTodo>>

TakeVec ==
  /\ Between /\ workSet = {} /\ vecTodo # <<>>
  /\ TakeUp(vecTodo[Len(vecTodo)])
  /\ vecTodo' = SubSeq(vecTodo, 1, Len(vecTodo) - 1)
  /\ UNCHANGED <<callVars, phase>>

CallOver == Running = {}

CallUpdate ==
  /\ target # NoTarget /\ delayTodo # <<>> /\ CallOver
  /\ StartCalls({<<target, Head(delayTodo)>>}, instr)
  /\ delayTodo' = Tail(delayTodo)
  /\ UNCHANGED <<tables, currInstr, disk, faulty, crashes,
                 phase, target, instr, vecTodo>>

InstrOver == target # NoTarget /\ delayTodo = <<>> /\ CallOver

NextInstr ==
  /\ InstrOver /\ instr < NumInstrs
  /\ instr' = instr + 1
  /\ delayTodo' = CallDelays(instr + 1, target)
  /\ RetireCalls
  /\ UNCHANGED <<tables, currInstr, disk, faulty, crashes, phase, target, vecTodo>>

LastInstr == instr = NumInstrs

TargetRegs == IF target \in Vecs THEN VecRegs[target] ELSE {target}

FinishTarget ==
  /\ InstrOver /\ LastInstr
  /\ visited' = visited \cup TargetRegs
  /\ target' = NoTarget
  /\ RetireCalls
  /\ UNCHANGED <<workSet, asvSet, depInstrs, recorded, dep, linked, currInstr,
                 disk, faulty, crashes, phase, instr, delayTodo, vecTodo>>

PrintResults ==
  /\ Between /\ workSet = {} /\ vecTodo = <<>>
  /\ phase' = "printed"
  /\ UNCHANGED <<callVars, target, instr, delayTodo, vecTodo>>

Crash ==
  /\ phase # "printed"
  /\ CallCrash(InitialWork, InitialAsvs)
  /\ phase' = "loop" /\ target' = NoTarget /\ instr' = 1
  /\ delayTodo' = <<>> /\ vecTodo' = AllowedVecs

CallNext == /\ \E c \in Call : CallStep(c)
            /\ UNCHANGED schedVars

MainStep == TakeTarget \/ TakeVec \/ CallUpdate \/ NextInstr \/ FinishTarget
            \/ PrintResults

Next == MainStep \/ CallNext \/ Crash

Spec == Init /\ [][Next]_vars

(* One thread does everything: it keeps running.                           *)
FairSpec == Spec /\ WF_vars(MainStep \/ CallNext)
-----------------------------------------------------------------------------
Known == workSet \cup visited \cup ({target} \cap Asvs)

(* Inline calls never overlap: the encoding a function is built from is    *)
(* its own instruction's, whole (get_all_update.cpp:350).                  *)
OwnInstrOnly == \A c \in Call : pc[c] = "generate" => currInstr = own[c]

(* An argument of a function on record is never forgotten: once its call   *)
(* is over it is in asv_info's table and, when new targets are pushed, it  *)
(* has been worked on, is in hand or is waiting in the work set.           *)
NoArgLost == ArgsKept(Known)

(* A visited register that was not skipped has, for every instruction, the *)
(* arguments of one of its own update functions on record, unless that job *)
(* is known to have gone wrong; a register a vector covers may have none.  *)
VisitedIsRecorded ==
  \A t \in Wanted(visited), i \in Instr : RecordedUnlessFaulty(i, t)

(* Of several delays allowed for a register it is the first in the file    *)
(* whose arguments func_info.txt shows.                                    *)
FirstDelayRecorded ==
  \A x \in recorded :
    LET first == <<x[1], <<x[2], CallDelays(x[1], x[2])[1]>>>>
    IN first \notin faulty => dep[x] = ReadArgs(first)

(* When the results are printed and nothing went wrong, the registers      *)
(* worked on are the closure of the first targets: nothing the update      *)
(* functions depend on is missing, and nothing else is among them.         *)
VisitedIsClosure ==
  phase = "printed" /\ faulty = {} => CoversExactly(Wanted(visited))

(* For each update function the arguments on record are its own            *)
(* (get_all_update.cpp:33-36).                                             *)
OwnArgumentsRecorded == OwnRecords

(* The update functions on record are linked once each, from the file that *)
(* holds them: a register the function of another, or its own, asks for    *)
(* again while it is in hand is not worked on a second time, whatever was  *)
(* left by a run that was killed (get_all_update.cpp:170, 413-419).        *)
LinkedExactlyOnce == phase = "printed" => RecordsLinked

(* The run comes to an end and prints.                                     *)
Terminates == <>(phase = "printed")

(* The promise of DepClosure.                                              *)
Closure == INSTANCE DepClosure WITH
  Dep <- WantedDeps, Covers <- WantedVecRegs, Vecs <- VecsInUse,
  StartFrom <- Wanted(InitialWork),
  known <- Wanted(Known), done <- Wanted(visited), degraded <- faulty # {}
ImplementsClosure == Closure!CSpec
=============================================================================
