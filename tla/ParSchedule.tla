---------------------------- MODULE ParSchedule -----------------------------
(***************************************************************************)
(* get_all_update with g_use_multi_thread: rounds over the work set.  Each *)
(* round takes the whole set and, for one instruction after the other,     *)
(* starts one thread per target and delay and joins them all; targets the  *)
(* threads find are left for the next round.                               *)
(***************************************************************************)
EXTENDS TargetConfig

VARIABLES
  phase,       \* "loop", "spawn" or "printed"
  instr,       \* the instruction of the for loop
  oldWorkSet,  \* the targets of this round
  localWorkSet, localWorkVec,  \* those not started yet
  vecTodo      \* g_allowedTgtVec

schedVars == <<phase, instr, oldWorkSet, localWorkSet, localWorkVec, vecTodo>>
vars == <<callVars, schedVars>>

TypeOK ==
  /\ CallTypeOK
  /\ phase \in {"loop", "spawn", "printed"}
  /\ instr \in Instr
  /\ oldWorkSet \subseteq Asvs /\ localWorkSet \subseteq Asvs
  /\ localWorkVec \in Seq(Vecs) /\ vecTodo \in Seq(Vecs)

SchedInit ==
  /\ phase = "loop" /\ instr = 1
  /\ oldWorkSet = {} /\ localWorkSet = {} /\ localWorkVec = <<>>
  /\ vecTodo = AllowedVecs

Init ==
  /\ CallInit(InitialWork, InitialAsvs)
  /\ files \in [FileKey -> {NoFile}]
  /\ published \in [FileKey -> {NoFile}]
  /\ SchedInit

(* copy and clear, both while no thread runs.                              *)
BeginRound ==
  /\ phase = "loop" /\ (workSet # {} \/ vecTodo # <<>>)
  /\ phase' = "spawn" /\ instr' = 1
  /\ oldWorkSet' = workSet /\ workSet' = {}
  /\ localWorkSet' = workSet /\ localWorkVec' = vecTodo
  /\ UNCHANGED <<visited, asvSet, depInstrs, recorded, dep, linked, currInstr,
                 disk, locals, faulty, crashes, vecTodo>>

PoppedUnlessSkipped(t) == IF t \in PassOver THEN localWorkSet ELSE localWorkSet \ {t}  \* mutant
Popped(t) == localWorkSet \ {t}

SkipTarget ==
  /\ phase = "spawn"
  /\ \E t \in localWorkSet \cap PassOver : localWorkSet' = Popped(t)
  /\ UNCHANGED <<callVars, phase, instr, oldWorkSet, localWorkVec, vecTodo>>

SingleDelayOnly(t) == {c \in Calls(instr, t) : DelaySet(instr, t) = {c[2]}}  \* mutant
ThreadsFor(t)      == Calls(instr, t)

SpawnTarget ==
  /\ phase = "spawn"
  /\ \E t \in localWorkSet \ PassOver :
       /\ localWorkSet' = Popped(t)
       /\ StartCalls(ThreadsFor(t), instr)
  /\ UNCHANGED <<tables, currInstr, disk, faulty, crashes,
                 phase, instr, oldWorkSet, localWorkVec, vecTodo>>

(* Vectors come after the single registers, the last one first.            *)
SpawnVec ==
  /\ phase = "spawn" /\ localWorkSet = {} /\ localWorkVec # <<>>
  /\ LET v == localWorkVec[Len(localWorkVec)] IN StartCalls(ThreadsFor(v), instr)
  /\ localWorkVec' = SubSeq(localWorkVec, 1, Len(localWorkVec) - 1)
  /\ UNCHANGED <<tables, currInstr, disk, faulty, crashes,
                 phase, instr, oldWorkSet, localWorkSet, vecTodo>>

AllStarted == phase = "spawn" /\ localWorkSet = {} /\ localWorkVec = <<>>
NotJoined  == AllStarted  \* mutant
AllJoined  == AllStarted /\ Running = {}

LocalCopy == oldWorkSet

NextInstr ==
  /\ AllJoined /\ instr < NumInstrs
  /\ instr' = instr + 1
  /\ localWorkSet' = LocalCopy /\ localWorkVec' = vecTodo
  /\ RetireCalls
  /\ UNCHANGED <<tables, currInstr, disk, faulty, crashes, phase, oldWorkSet, vecTodo>>

RoundTargets == oldWorkSet \cup UNION {VecRegs[vecTodo[k]] : k \in DOMAIN vecTodo}

(* After the last instruction all of the round's targets, the skipped ones *)
(* too, count as visited; vectors take part in one round only.             *)
EndRound ==
  /\ AllJoined /\ instr = NumInstrs
  /\ visited' = visited \cup RoundTargets
  /\ vecTodo' = <<>>
  /\ phase' = "loop" /\ oldWorkSet' = {}
  /\ RetireCalls
  /\ UNCHANGED <<workSet, asvSet, depInstrs, recorded, dep, linked, currInstr,
                 disk, faulty, crashes, instr, localWorkSet, localWorkVec>>

(* func_info.txt, asv_info.txt and link.sh are written at the very end.    *)
PrintResults ==
  /\ phase = "loop" /\ workSet = {} /\ vecTodo = <<>>
  /\ phase' = "printed"
  /\ UNCHANGED <<callVars, instr, oldWorkSet, localWorkSet, localWorkVec, vecTodo>>

Crash ==
  /\ phase # "printed"
  /\ CallCrash(InitialWork, InitialAsvs)
  /\ phase' = "loop" /\ instr' = 1
  /\ oldWorkSet' = {} /\ localWorkSet' = {} /\ localWorkVec' = <<>>
  /\ vecTodo' = AllowedVecs

CallNext == /\ \E c \in Call : CallStep(c)
            /\ UNCHANGED schedVars

MainStep == \/ BeginRound \/ SkipTarget \/ SpawnTarget \/ SpawnVec
            \/ NextInstr \/ EndRound \/ PrintResults

Next == MainStep \/ CallNext \/ Crash

Spec == Init /\ [][Next]_vars

(* The operating system runs the main thread and every worker.             *)
FairSpec == /\ Spec
            /\ WF_vars(MainStep)
            /\ \A c \in Call : WF_vars(CallStep(c) /\ UNCHANGED schedVars)
-----------------------------------------------------------------------------
Known   == workSet \cup visited \cup oldWorkSet

(* A thread builds its function from the global g_currInstrInfo, which all *)
(* threads of a round overwrite: what it finds there is never another      *)
(* instruction's encoding (get_all_update.cpp:350, op_constraint.cpp:274). *)
NeverForeignInstr ==
  \A c \in Call : pc[c] = "generate" /\ currInstr \in Instr => currInstr = own[c]

(* An argument of a function on record is never forgotten: once its call   *)
(* is over it is in asv_info's table and, when new targets are pushed, it  *)
(* has been worked on, is being worked on or is waiting for a round.       *)
NoArgLost == ArgsKept(Known)

(* A visited register that was not skipped has, for every instruction, the *)
(* arguments of one of its own update functions on record, unless that job *)
(* is known to have gone wrong; a register a vector covers may have none.  *)
VisitedIsRecorded ==
  \A t \in Wanted(visited), i \in Instr : RecordedUnlessFaulty(i, t)

(* When the results are printed and nothing went wrong, the registers      *)
(* worked on are the closure of the first targets: nothing the update      *)
(* functions depend on is missing, and nothing else is among them.         *)
VisitedIsClosure ==
  phase = "printed" /\ faulty = {} => CoversExactly(Wanted(visited))

(* The update functions on record are linked once each, from the file that *)
(* holds them (print_llvm_script, get_all_update.cpp:413-419).             *)
LinkedExactlyOnce == phase = "printed" => RecordsLinked

(* For each update function the arguments on record are its own            *)
(* (get_all_update.cpp:33-36).                                             *)
OwnArgumentsRecorded == OwnRecords

(* Without g_overwrite_existing_llvm an artefact, once written, stays as   *)
(* it is through the run and through every kill and rerun.                 *)
ArtefactsKept ==
  [][\A k \in FileKey : ~Overwrite /\ files[k] # NoFile => files'[k] = files[k]]_vars

(* Every rerun gets to the end and prints.                                 *)
Terminates == <>(phase = "printed")

(* The promise of DepClosure.                                              *)
Closure == INSTANCE DepClosure WITH
  Dep <- WantedDeps, Covers <- WantedVecRegs, Vecs <- VecsInUse,
  StartFrom <- Wanted(InitialWork),
  known <- Wanted(Known), done <- Wanted(visited), degraded <- faulty # {}
ImplementsClosure == Closure!CSpec
=============================================================================
