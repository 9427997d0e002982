----------------------------- MODULE UpdateCall -----------------------------
(***************************************************************************)
(* get_update_function (func_extract/src/get_all_update.cpp): the work one *)
(* call, run inline or on a thread of its own, does for one target         *)
(* register, one instruction and one delay bound, and the tables all calls *)
(* share: the work set, the visited targets, the dependency map behind     *)
(* func_info.txt, the register table behind asv_info.txt, the file list    *)
(* behind link.sh, the global g_currInstrInfo and the artefacts on disk.   *)
(*                                                                         *)
(* What the LLVM function of a target depends on is a parameter, UpdateFn: *)
(* the module is about who calls what, when, and what is recorded.         *)
(* SeqSchedule and ParSchedule extend it with the two schedules of         *)
(* get_all_update.                                                         *)
(***************************************************************************)
EXTENDS Naturals, FiniteSets, Sequences

CONSTANTS
  Asvs,            \* names of registers and ports
  Vecs,            \* the register vectors of allowed_target.txt
  NumInstrs,       \* g_instrInfo.size()
  Delays,          \* delay bounds, in cycles
  UpdateFn,        \* (instr, target, delay) -> [live, kept]: arguments the
                   \*   optimised main function still has, and whether a
                   \*   function of the searched name survives opt
  TopArgs,         \* the arguments of the exported top_function
  FileBase,        \* target -> DestInfo::get_dest_name()
  PushNewTarget,   \* g_push_new_target
  Overwrite,       \* g_overwrite_existing_llvm
  TornArgs,        \* what a read of g_currInstrInfo inside a race may lead to
  OptMayFail,      \* opt may fail: system()'s result is ignored
  MaxCrashes,      \* bound on the times the process is killed and rerun
  NoFile, Broken,  \* no artefact; one that parseIRFile rejects
  NoAsv, Torn, Smashed, NoInstr

Instr   == 1 .. NumInstrs
Targets == Asvs \cup Vecs
Call    == Targets \X Delays
Job     == Instr \X Call
FileKey == Instr \X {FileBase[t] : t \in Targets} \X Delays
Module  == [of : Job, args : SUBSET Asvs]

ASSUME InstrsAssumption == NumInstrs \in Nat \ {0}
ASSUME NamesAssumption ==
  /\ NoAsv \notin Asvs
  /\ {NoFile, Broken} \cap Module = {} /\ NoFile # Broken
  /\ {Torn, Smashed, NoInstr} \cap Instr = {}
  /\ Torn # Smashed /\ Torn # NoInstr /\ Smashed # NoInstr
ASSUME UpdateFnAssumption ==
  /\ UpdateFn \in [Job -> [live : SUBSET Asvs, kept : BOOLEAN]]
  /\ TopArgs \subseteq Asvs /\ TornArgs \subseteq SUBSET Asvs /\ TornArgs # {}
ASSUME SwitchAssumption ==
  /\ PushNewTarget \in BOOLEAN /\ Overwrite \in BOOLEAN
  /\ OptMayFail \in BOOLEAN /\ MaxCrashes \in Nat

VARIABLES
  workSet,     \* g_workSet
  visited,     \* g_visitedTgt
  asvSet,      \* g_asvSet (names; a width is fixed by the name)
  depInstrs,   \* keys of g_dependVarMap
  recorded,    \* its (instruction, target) pairs
  dep,         \* the argument vector of each
  linked,      \* g_fileNameVec, as a count per file
  currInstr,   \* g_currInstrInfo, by index; Torn or Smashed inside a race
  files,       \* the _clean.o3.ll artefacts
  published,   \* the <instr>_<dest>_<delay>.ll files link.sh links
  pc, own, fn, todo, pend,  \* locals of each call
  faulty,      \* history: jobs that did not get this run's own function
  crashes      \* history: kills so far

tables  == <<workSet, visited, asvSet, depInstrs, recorded, dep, linked>>
disk    == <<files, published>>
locals  == <<pc, own, fn, todo, pend>>
callVars == <<tables, currInstr, disk, locals, faulty, crashes>>

KeyNoDelay(i, c) == <<i, FileBase[c[1]], 1>>  \* mutant
Key(i, c)  == <<i, FileBase[c[1]], c[2]>>
MyKey(c)   == Key(own[c], c)
MyJob(c)   == <<own[c], c>>
Running    == {c \in Call : pc[c] \notin {"idle", "done"}}

(* What read_clean_optimized reads from an intact artefact: the arguments  *)
(* of the main function or, when opt left none of that name, those of      *)
(* top_function, renamed to take its place.                                *)
ReadArgs(j) == IF UpdateFn[j].kept THEN UpdateFn[j].live ELSE TopArgs
Right(j)    == [of |-> j, args |-> ReadArgs(j)]

(* What a call holds at each point of its way.                             *)
LocalsOK ==
  \A c \in Call :
    /\ pc[c] \in {"emit", "name", "record"} => fn[c] \in Module
    /\ pc[c] \in {"insert", "register"} => pend[c] \in Asvs
    /\ pc[c] \notin {"idle", "create", "done"} => own[c] \in depInstrs

CallTypeOK ==
  /\ LocalsOK
  /\ workSet \subseteq Asvs /\ visited \subseteq Asvs /\ asvSet \subseteq Asvs
  /\ depInstrs \subseteq Instr
  /\ recorded \subseteq depInstrs \X Targets
  /\ dep \in [Instr \X Targets -> SUBSET Asvs]
  /\ linked \in [FileKey -> Nat]
  /\ currInstr \in Instr \cup {NoInstr, Torn, Smashed}
  /\ files \in [FileKey -> Module \cup {NoFile, Broken}]
  /\ published \in [FileKey -> Module \cup {NoFile}]
  /\ pc \in [Call -> {"idle", "create", "assign", "assigning", "generate",
                      "emit", "read", "name", "record", "push", "insert",
                      "register", "done"}]
  /\ own \in [Call -> Instr]
  /\ fn \in [Call -> Module \cup {NoFile}]
  /\ todo \in [Call -> SUBSET Asvs]
  /\ pend \in [Call -> Asvs \cup {NoAsv}]
  /\ faulty \subseteq Job
  /\ crashes \in 0 .. MaxCrashes

IdleLocals ==
  /\ pc = [c \in Call |-> "idle"]
  /\ own = [c \in Call |-> 1]
  /\ fn = [c \in Call |-> NoFile]
  /\ todo = [c \in Call |-> {}]
  /\ pend = [c \in Call |-> NoAsv]

(* Memory as a fresh process has it; the disk is left to the caller.       *)
CallInit(work, asvs) ==
  /\ workSet = work /\ visited = {} /\ asvSet = asvs
  /\ depInstrs = {}
  /\ recorded = {} /\ dep = [x \in Instr \X Targets |-> {}]
  /\ linked = [k \in FileKey |-> 0]
  /\ currInstr = NoInstr
  /\ IdleLocals
  /\ faulty = {} /\ crashes = 0

(* The schedules hand the calls in C to get_update_function, by value.     *)
StartCalls(C, i) ==
  /\ pc'  = [c \in Call |-> IF c \in C THEN "create" ELSE pc[c]]
  /\ own' = [c \in Call |-> IF c \in C THEN i ELSE own[c]]
  /\ UNCHANGED <<fn, todo, pend>>

RetireCalls ==
  /\ pc' = [c \in Call |-> IF pc[c] = "done" THEN "idle" ELSE pc[c]]
  /\ UNCHANGED <<own, fn, todo, pend>>

At(c, from, to) == pc[c] = from /\ pc' = [pc EXCEPT ![c] = to]

WithEntry(i) == depInstrs \cup {i}

(* The locked creation of the instruction's entry in g_dependVarMap.       *)
CreateEntry(c) ==
  /\ At(c, "create", "assign")
  /\ depInstrs' = WithEntry(own[c])
  /\ UNCHANGED <<workSet, visited, asvSet, recorded, dep, linked, currInstr,
                 disk, own, fn, todo, pend, faulty, crashes>>

(* g_currInstrInfo = instrInfo, under no lock: a copy of a structure of    *)
(* maps, so it has a beginning and an end.  Two copies that overlap may    *)
(* leave the structure unusable.                                           *)
BeginAssign(c) ==
  /\ At(c, "assign", "assigning")
  /\ currInstr' = IF currInstr \in {Torn, Smashed} THEN Smashed ELSE Torn
  /\ UNCHANGED <<tables, disk, own, fn, todo, pend, faulty, crashes>>

EndAssign(c) ==
  /\ At(c, "assigning", "generate")
  /\ currInstr' \in {own[c]} \cup ({currInstr} \cap {Smashed})
  /\ UNCHANGED <<tables, disk, own, fn, todo, pend, faulty, crashes>>

AlwaysGenerate(c)  == TRUE  \* mutant
NeedsGeneration(c) == Overwrite \/ files[MyKey(c)] = NoFile

(* An artefact of that name is reused when g_overwrite_existing_llvm is    *)
(* off: only its existence is looked at.                                   *)
SkipGeneration(c) ==
  /\ ~NeedsGeneration(c)
  /\ At(c, "generate", "read")
  /\ UNCHANGED <<tables, currInstr, disk, own, fn, todo, pend, faulty, crashes>>

(* print_llvm_ir: the encoding comes from g_currInstrInfo, not from the    *)
(* call's own copy.  Read inside a race it may come out as anything.       *)
Generate(c) ==
  /\ NeedsGeneration(c)
  /\ At(c, "generate", "emit")
  /\ \E args \in IF currInstr \in Instr THEN {ReadArgs(<<currInstr, c>>)}
                                        ELSE TornArgs :
       fn' = [fn EXCEPT ![c] = [of |-> MyJob(c), args |-> args]]
  /\ UNCHANGED <<tables, currInstr, disk, own, todo, pend, faulty, crashes>>

(* The two opt commands: <file>_clean.ll, then <file>_clean.o3.ll.  When   *)
(* they fail the artefact stays what it was.                               *)
Emit(c) ==
  /\ At(c, "emit", "read")
  /\ \/ files' = [files EXCEPT ![MyKey(c)] = fn[c]]
     \/ OptMayFail /\ UNCHANGED files
  /\ UNCHANGED <<tables, currInstr, published, own, fn, todo, pend, faulty, crashes>>

(* read_clean_optimized and the mv that publishes its output.  A file that *)
(* is missing or does not parse reads as "NOT affected", with no argument. *)
ReadClean(c) ==
  LET m == files[MyKey(c)] IN
  /\ faulty' = IF m = Right(MyJob(c)) THEN faulty ELSE faulty \cup {MyJob(c)}
  /\ \/ /\ m \in {NoFile, Broken}
        /\ At(c, "read", "done")
        /\ UNCHANGED <<fn, published>>
     \/ /\ m \notin {NoFile, Broken}
        /\ At(c, "read", "name")
        /\ fn' = [fn EXCEPT ![c] = m]
        /\ published' = [published EXCEPT ![MyKey(c)] = m]
  /\ UNCHANGED <<tables, currInstr, files, own, todo, pend, crashes>>

PushName(c) ==
  /\ At(c, "name", "record")
  /\ linked' = [linked EXCEPT ![MyKey(c)] = @ + 1]
  /\ UNCHANGED <<workSet, visited, asvSet, depInstrs, recorded, dep, currInstr,
                 disk, own, fn, todo, pend, faulty, crashes>>

MyTarget(c)   == <<own[c], c[1]>>
LatestArgs(c) == fn[c].args  \* mutant
FirstArgs(c)  == IF MyTarget(c) \in recorded THEN dep[MyTarget(c)] ELSE fn[c].args

(* Under g_dependVarMapMtx: the first argument vector of a target stays,   *)
(* a later one only prints a warning.                                      *)
RecordDep(c) ==
  /\ At(c, "record", "push")
  /\ recorded' = recorded \cup {MyTarget(c)}
  /\ dep' = [dep EXCEPT ![MyTarget(c)] = FirstArgs(c)]
  /\ todo' = [todo EXCEPT ![c] = fn[c].args]
  /\ UNCHANGED <<workSet, visited, asvSet, depInstrs, linked, currInstr, disk,
                 own, fn, pend, faulty, crashes>>

MustPushVisited(r) == PushNewTarget /\ r \in visited  \* mutant
MustPush(r)        == PushNewTarget /\ r \notin visited

(* One turn of the loop over argVec: the locked test of g_visitedTgt ...   *)
CheckArg(c) ==
  \E r \in todo[c] :
    /\ At(c, "push", IF MustPush(r) THEN "insert" ELSE "register")
    /\ todo' = [todo EXCEPT ![c] = @ \ {r}]
    /\ pend' = [pend EXCEPT ![c] = r]
    /\ UNCHANGED <<tables, currInstr, disk, own, fn, faulty, crashes>>

OnlyPushed(r) == {r}  \* mutant
WithPushed(r) == workSet \cup {r}

(* ... under another lock, the insertion into g_workSet ...                *)
InsertArg(c) ==
  /\ At(c, "insert", "register")
  /\ workSet' = WithPushed(pend[c])
  /\ UNCHANGED <<visited, asvSet, depInstrs, recorded, dep, linked, currInstr,
                 disk, own, fn, todo, pend, faulty, crashes>>

(* ... and, under a third, the one into g_asvSet.                          *)
RegisterArg(c) ==
  /\ At(c, "register", "push")
  /\ asvSet' = asvSet \cup {pend[c]}
  /\ pend' = [pend EXCEPT ![c] = NoAsv]
  /\ UNCHANGED <<workSet, visited, depInstrs, recorded, dep, linked, currInstr,
                 disk, own, fn, todo, faulty, crashes>>

ReturnCall(c) ==
  /\ todo[c] = {}
  /\ At(c, "push", "done")
  /\ UNCHANGED <<tables, currInstr, disk, own, fn, todo, pend, faulty, crashes>>

CallStep(c) ==
  \/ CreateEntry(c) \/ BeginAssign(c) \/ EndAssign(c)
  \/ SkipGeneration(c) \/ Generate(c) \/ Emit(c) \/ ReadClean(c)
  \/ PushName(c) \/ RecordDep(c)
  \/ CheckArg(c) \/ InsertArg(c) \/ RegisterArg(c) \/ ReturnCall(c)

(* The process is killed and started again over the same directory.  An    *)
(* artefact whose opt command was running may be left cut short.           *)
CallCrash(work, asvs) ==
  /\ crashes < MaxCrashes /\ crashes' = crashes + 1
  /\ \E cut \in SUBSET {MyKey(c) : c \in {d \in Call : pc[d] = "emit"}} :
       files' = [k \in FileKey |-> IF k \in cut THEN Broken ELSE files[k]]
  /\ workSet' = work /\ visited' = {} /\ asvSet' = asvs
  /\ depInstrs' = {}
  /\ recorded' = {} /\ dep' = [x \in Instr \X Targets |-> {}]
  /\ linked' = [k \in FileKey |-> 0]
  /\ currInstr' = NoInstr
  /\ pc' = [c \in Call |-> "idle"]
  /\ own' = [c \in Call |-> 1]
  /\ fn' = [c \in Call |-> NoFile]
  /\ todo' = [c \in Call |-> {}]
  /\ pend' = [c \in Call |-> NoAsv]
  /\ faulty' = {}
  /\ UNCHANGED published
=============================================================================
