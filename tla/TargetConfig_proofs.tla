------------------------- MODULE TargetConfig_proofs ------------------------
(***************************************************************************)
(* What the proofs about both schedules rest on: every step of a call, and *)
(* every crash, keeps the types of the tables, of the disk and of the      *)
(* calls' locals; what a step of a call touches; and the types of the      *)
(* targets, delays and calls the files give.                               *)
(***************************************************************************)
EXTENDS TargetConfig, TLAPS

(* Jobs, keys and the functions read for them have the types the tables    *)
(* are declared with.                                                      *)
LEMMA KeyType ==
  ASSUME NEW i \in Instr, NEW c \in Call PROVE Key(i, c) \in FileKey
BY DEF Key, FileKey, Call

LEMMA RightType ==
  ASSUME NEW j \in Job PROVE ReadArgs(j) \in SUBSET Asvs /\ Right(j) \in Module
BY UpdateFnAssumption DEF ReadArgs, Right, Module

(* A fresh process is well typed.                                          *)
LEMMA CallInitTypeOK ==
  ASSUME NEW work \in SUBSET Asvs, NEW asvs \in SUBSET Asvs,
         CallInit(work, asvs),
         files \in [FileKey -> {NoFile}], published \in [FileKey -> {NoFile}]
  PROVE  CallTypeOK
BY InstrsAssumption, SwitchAssumption DEF CallInit, IdleLocals, CallTypeOK, LocalsOK, Instr

(* Handing calls to get_update_function, and taking their results, only    *)
(* touches their program counters and instructions.                        *)
LEMMA StartTypeOK ==
  ASSUME CallTypeOK, NEW C \in SUBSET Call, NEW i \in Instr, StartCalls(C, i),
         UNCHANGED <<tables, currInstr, disk, faulty, crashes>>
  PROVE  CallTypeOK'
BY DEF CallTypeOK, LocalsOK, StartCalls, tables, disk

LEMMA RetireTypeOK ==
  ASSUME CallTypeOK, RetireCalls,
         UNCHANGED <<asvSet, depInstrs, recorded, dep, linked, currInstr, disk,
                     faulty, crashes>>,
         workSet' \subseteq Asvs, visited' \subseteq Asvs
  PROVE  CallTypeOK'
BY DEF CallTypeOK, LocalsOK, RetireCalls, disk

(* The steps of a call.                                                    *)
LEMMA CallStepTypeOK ==
  ASSUME CallTypeOK, NEW c \in Call, CallStep(c) PROVE CallTypeOK'
<1> USE DEF CallTypeOK, LocalsOK, tables, disk, At
<1>1. MyKey(c) \in FileKey /\ MyJob(c) \in Job
  BY KeyType DEF MyKey, MyJob, Job
<1>2. MyTarget(c) \in Instr \X Targets
  BY DEF MyTarget, Call
<1>3. CASE CreateEntry(c)
  BY <1>3 DEF CreateEntry, WithEntry
<1>4. CASE BeginAssign(c)
  BY <1>4 DEF BeginAssign
<1>5. CASE EndAssign(c)
  <2>1. currInstr' \in Instr \cup {NoInstr, Torn, Smashed}
    BY <1>5 DEF EndAssign
  <2> QED BY <1>5, <2>1 DEF EndAssign
<1>6. CASE SkipGeneration(c)
  BY <1>6 DEF SkipGeneration
<1>7. CASE Generate(c)
  <2>1. PICK args \in (IF currInstr \in Instr THEN {ReadArgs(<<currInstr, c>>)}
                                              ELSE TornArgs) :
          fn' = [fn EXCEPT ![c] = [of |-> MyJob(c), args |-> args]]
    BY <1>7 DEF Generate
  <2>2. args \in SUBSET Asvs
    BY RightType, UpdateFnAssumption DEF Job
  <2>3. fn' \in [Call -> Module \cup {NoFile}]
    BY <1>1, <2>1, <2>2 DEF Module
  <2>4. fn'[c] \in Module
    BY <1>1, <2>1, <2>2 DEF Module
  <2>5. LocalsOK'
    BY <1>7, <2>1, <2>4 DEF Generate
  <2> QED BY <1>7, <2>3, <2>5 DEF Generate
<1>8. CASE Emit(c)
  <2>1. files' \in [FileKey -> Module \cup {NoFile, Broken}]
    BY <1>1, <1>8 DEF Emit
  <2> QED BY <1>8, <2>1 DEF Emit
<1>9. CASE ReadClean(c)
  <2>1. faulty' \subseteq Job
    BY <1>1, <1>9 DEF ReadClean
  <2>2. CASE files[MyKey(c)] \in {NoFile, Broken}
    BY <1>9, <2>1, <2>2 DEF ReadClean
  <2>3. CASE files[MyKey(c)] \notin {NoFile, Broken}
    <3>1. files[MyKey(c)] \in Module
      BY <1>1, <2>3
    <3>2. /\ At(c, "read", "name")
          /\ fn' = [fn EXCEPT ![c] = files[MyKey(c)]]
          /\ published' = [published EXCEPT ![MyKey(c)] = files[MyKey(c)]]
      BY <1>9, <2>3 DEF ReadClean
    <3> QED BY <1>1, <1>9, <2>1, <3>1, <3>2 DEF ReadClean
  <2> QED BY <2>2, <2>3
<1>10. CASE PushName(c)
  <2>1. linked' \in [FileKey -> Nat]
    BY <1>1, <1>10 DEF PushName
  <2> QED BY <1>10, <2>1 DEF PushName
<1>11. CASE RecordDep(c)
  <2>1. fn[c].args \in SUBSET Asvs
    BY <1>11 DEF RecordDep, Module
  <2>2. FirstArgs(c) \in SUBSET Asvs
    BY <1>2, <2>1 DEF FirstArgs
  <2>3. /\ dep' \in [Instr \X Targets -> SUBSET Asvs]
        /\ todo' \in [Call -> SUBSET Asvs]
    BY <1>2, <1>11, <2>1, <2>2 DEF RecordDep
  <2>4. recorded' \subseteq depInstrs' \X Targets
    BY <1>11 DEF RecordDep, MyTarget, Call
  <2> QED BY <1>11, <2>3, <2>4 DEF RecordDep
<1>12. CASE CheckArg(c)
  BY <1>12 DEF CheckArg
<1>13. CASE InsertArg(c)
  BY <1>13 DEF InsertArg, WithPushed
<1>14. CASE RegisterArg(c)
  BY <1>14 DEF RegisterArg
<1>15. CASE ReturnCall(c)
  BY <1>15 DEF ReturnCall
<1> QED
  BY <1>3, <1>4, <1>5, <1>6, <1>7, <1>8, <1>9, <1>10, <1>11, <1>12, <1>13,
     <1>14, <1>15 DEF CallStep

(* Memory after a crash is that of a fresh process; artefacts that were    *)
(* being written may be cut short.                                         *)
LEMMA CrashTypeOK ==
  ASSUME CallTypeOK, NEW work \in SUBSET Asvs, NEW asvs \in SUBSET Asvs,
         CallCrash(work, asvs)
  PROVE  CallTypeOK'
<1>1. files' \in [FileKey -> Module \cup {NoFile, Broken}]
  BY DEF CallCrash, CallTypeOK
<1>2. crashes' \in 0 .. MaxCrashes
  BY SwitchAssumption DEF CallCrash, CallTypeOK
<1> QED
  BY <1>1, <1>2, InstrsAssumption DEF CallCrash, CallTypeOK, LocalsOK, Instr

(* A step belongs to a running call and starts no other one.               *)
LEMMA StepRunning ==
  ASSUME CallTypeOK, NEW c \in Call, CallStep(c)
  PROVE  /\ c \in Running /\ Running' \subseteq Running
         /\ own' = own /\ visited' = visited /\ crashes' = crashes
<1>1. /\ pc[c] \notin {"idle", "done"}
      /\ \A d \in Call \ {c} : pc'[d] = pc[d]
      /\ own' = own /\ visited' = visited /\ crashes' = crashes
  <2> USE DEF CallTypeOK, At, tables, disk
  <2>1. CASE CreateEntry(c) BY <2>1 DEF CreateEntry
  <2>2. CASE BeginAssign(c) BY <2>2 DEF BeginAssign
  <2>3. CASE EndAssign(c) BY <2>3 DEF EndAssign
  <2>4. CASE SkipGeneration(c) BY <2>4 DEF SkipGeneration
  <2>5. CASE Generate(c) BY <2>5 DEF Generate
  <2>6. CASE Emit(c) BY <2>6 DEF Emit
  <2>7. CASE ReadClean(c) BY <2>7 DEF ReadClean
  <2>8. CASE PushName(c) BY <2>8 DEF PushName
  <2>9. CASE RecordDep(c) BY <2>9 DEF RecordDep
  <2>10. CASE CheckArg(c) BY <2>10 DEF CheckArg
  <2>11. CASE InsertArg(c) BY <2>11 DEF InsertArg
  <2>12. CASE RegisterArg(c) BY <2>12 DEF RegisterArg
  <2>13. CASE ReturnCall(c) BY <2>13 DEF ReturnCall
  <2> QED
    BY <2>1, <2>2, <2>3, <2>4, <2>5, <2>6, <2>7, <2>8, <2>9, <2>10, <2>11,
       <2>12, <2>13 DEF CallStep
<1> QED BY <1>1 DEF Running

LEMMA StartRunning ==
  ASSUME CallTypeOK, NEW C \in SUBSET Call, NEW i \in Instr, StartCalls(C, i)
  PROVE  /\ Running' = Running \cup C
         /\ \A c \in C : own'[c] = i
         /\ \A c \in Call \ C : own'[c] = own[c] /\ pc'[c] = pc[c]
BY DEF CallTypeOK, StartCalls, Running

(* The argument CheckArg found unvisited and InsertArg has yet to insert.  *)
Pending(c) == IF pc[c] = "insert" THEN {pend[c]} ELSE {}

(* What a step does to the tables: they only grow, and each in one place.  *)
LEMMA StepTables ==
  ASSUME CallTypeOK, NEW c \in Call, CallStep(c)
  PROVE  /\ workSet' = IF InsertArg(c) THEN workSet \cup {pend[c]} ELSE workSet
         /\ visited' = visited /\ own' = own
         /\ recorded \subseteq recorded'
         /\ \A k \in FileKey : linked[k] <= linked'[k]
         /\ faulty' = faulty \/ (ReadClean(c) /\ faulty' = faulty \cup {MyJob(c)})
         /\ \A d \in Call \ {c} : /\ pc'[d] = pc[d] /\ todo'[d] = todo[d]
                                  /\ pend'[d] = pend[d] /\ fn'[d] = fn[d]
<1> USE DEF CallTypeOK, At, tables, disk
<1>1. \A n \in Nat : n <= n /\ n <= n + 1
  OBVIOUS
<1>2. CASE CreateEntry(c) BY <1>1, <1>2 DEF CreateEntry, InsertArg
<1>3. CASE BeginAssign(c) BY <1>1, <1>3 DEF BeginAssign, InsertArg
<1>4. CASE EndAssign(c) BY <1>1, <1>4 DEF EndAssign, InsertArg
<1>5. CASE SkipGeneration(c) BY <1>1, <1>5 DEF SkipGeneration, InsertArg
<1>6. CASE Generate(c) BY <1>1, <1>6 DEF Generate, InsertArg
<1>7. CASE Emit(c) BY <1>1, <1>7 DEF Emit, InsertArg
<1>8. CASE ReadClean(c) BY <1>1, <1>8 DEF ReadClean, InsertArg
<1>9. CASE PushName(c)
  <2>1. MyKey(c) \in FileKey
    BY KeyType DEF MyKey
  <2>2. \A k \in FileKey : linked[k] <= linked'[k]
    BY <1>9, <2>1 DEF PushName
  <2> QED BY <1>9, <2>2 DEF PushName, InsertArg
<1>10. CASE RecordDep(c) BY <1>1, <1>10 DEF RecordDep, InsertArg
<1>11. CASE CheckArg(c) BY <1>1, <1>11 DEF CheckArg, InsertArg
<1>12. CASE InsertArg(c) BY <1>1, <1>12 DEF InsertArg, WithPushed
<1>13. CASE RegisterArg(c) BY <1>1, <1>13 DEF RegisterArg, InsertArg
<1>14. CASE ReturnCall(c) BY <1>1, <1>14 DEF ReturnCall, InsertArg
<1> QED
  BY <1>2, <1>3, <1>4, <1>5, <1>6, <1>7, <1>8, <1>9, <1>10, <1>11, <1>12,
     <1>13, <1>14 DEF CallStep

LEMMA RetireRunning ==
  ASSUME CallTypeOK, RetireCalls
  PROVE  /\ Running' = Running /\ own' = own
         /\ \A c \in Running : pc'[c] = pc[c]
BY DEF CallTypeOK, RetireCalls, Running
-----------------------------------------------------------------------------
(* The first targets, vectors and instruction.                             *)
LEMMA ConfigTypes ==
  /\ InitialWork \in SUBSET Asvs /\ InitialAsvs \in SUBSET Asvs
  /\ AllowedVecs \in Seq(Vecs)
  /\ 1 \in Instr
BY ConfigAssumption, InstrsAssumption
DEF InitialWork, InitialAsvs, SeedTargets, Instr

LEMMA DelayBoundType ==
  ASSUME NEW i \in Instr, NEW t \in Targets PROVE DelayBound(i, t) \in Delays
<1>1. CASE t \in Vecs
  BY <1>1, ConfigAssumption DEF DelayBound, Targets
<1>2. CASE t \in DOMAIN DelayException[i]
  BY <1>2, ConfigAssumption DEF DelayBound
<1>3. CASE t \notin Vecs /\ t \notin DOMAIN DelayException[i]
  <2>1. CASE t \in DOMAIN Allowed /\ Allowed[t] # <<>>
    <3>1. Allowed[t] \in Seq(Delays) /\ Allowed[t] # <<>>
      BY <2>1, ConfigAssumption
    <3>2. Allowed[t][1] \in Delays
      BY <3>1
    <3> QED BY <1>3, <2>1, <3>2 DEF DelayBound
  <2>2. CASE ~(t \in DOMAIN Allowed /\ Allowed[t] # <<>>)
    <3>1. DelayBound(i, t) = InstrDelay[i]
      BY <1>3, <2>2 DEF DelayBound
    <3> QED BY <3>1, ConfigAssumption
  <2> QED BY <2>1, <2>2
<1> QED
  <2>1. t \in Vecs => t \notin DOMAIN DelayException[i]
    BY ConfigAssumption
  <2> QED BY <1>1, <1>2, <1>3, <2>1

LEMMA CallDelaysType ==
  ASSUME NEW i \in Instr, NEW t \in Targets PROVE CallDelays(i, t) \in Seq(Delays)
<1>1. CASE t \in DOMAIN Allowed /\ Len(Allowed[t]) > 1
  BY <1>1, ConfigAssumption DEF CallDelays
<1>2. CASE ~(t \in DOMAIN Allowed /\ Len(Allowed[t]) > 1)
  BY <1>2, DelayBoundType DEF CallDelays
<1> QED BY <1>1, <1>2

(* A target's calls are calls on that target.                              *)
LEMMA CallsType ==
  ASSUME NEW i \in Instr, NEW t \in Targets
  PROVE  Calls(i, t) \in SUBSET Call /\ \A c \in Calls(i, t) : c[1] = t
<1>1. CallDelays(i, t) \in Seq(Delays)
  BY CallDelaysType
<1>2. DelaySet(i, t) \subseteq Delays
  BY <1>1 DEF DelaySet
<1> QED BY <1>2 DEF Calls, Call
-----------------------------------------------------------------------------
(* There is at least one call for each target and instruction: the one for *)
(* the first of its delays.                                                *)
LEMMA CallsNonEmpty ==
  ASSUME NEW i \in Instr, NEW t \in Targets
  PROVE  /\ CallDelays(i, t) # <<>>
         /\ <<t, CallDelays(i, t)[1]>> \in Calls(i, t)
<1>1. CallDelays(i, t) \in Seq(Delays)
  BY CallDelaysType
<1>2. CallDelays(i, t) # <<>>
  <2>1. CASE t \in DOMAIN Allowed /\ Len(Allowed[t]) > 1
    <3>1. Allowed[t] # <<>>
      BY <2>1, ConfigAssumption
    <3> QED BY <2>1, <3>1 DEF CallDelays
  <2>2. CASE ~(t \in DOMAIN Allowed /\ Len(Allowed[t]) > 1)
    BY <2>2 DEF CallDelays
  <2> QED BY <2>1, <2>2
<1>3. 1 \in DOMAIN CallDelays(i, t)
  BY <1>1, <1>2
<1> QED BY <1>2, <1>3 DEF Calls, DelaySet

(* What is on record is about instructions and targets there are.          *)
LEMMA RecordedType ==
  ASSUME CallTypeOK, NEW x \in recorded
  PROVE  /\ x[1] \in Instr /\ x[2] \in Targets /\ x = <<x[1], x[2]>>
         /\ Calls(x[1], x[2]) \subseteq Call
<1>1. x[1] \in Instr /\ x[2] \in Targets /\ x = <<x[1], x[2]>>
  BY DEF CallTypeOK
<1> QED BY <1>1, CallsType

(* A record, once made, stays; only RecordDep makes one.                   *)
LEMMA StepDep ==
  ASSUME CallTypeOK, NEW c \in Call, CallStep(c)
  PROVE  /\ \A x \in recorded : dep'[x] = dep[x]
         /\ recorded' # recorded => RecordDep(c)
<1> USE DEF CallTypeOK, At
<1>1. CASE RecordDep(c)
  <2>1. MyTarget(c) \in Instr \X Targets
    BY DEF MyTarget, Call
  <2>2. \A x \in recorded : x \in Instr \X Targets
    OBVIOUS
  <2> QED BY <1>1, <2>1, <2>2 DEF RecordDep, FirstArgs
<1>2. CASE ~RecordDep(c)
  <2>1. dep' = dep /\ recorded' = recorded
    BY <1>2 DEF CallStep, CreateEntry, BeginAssign, EndAssign, SkipGeneration,
       Generate, Emit, ReadClean, PushName, CheckArg, InsertArg, RegisterArg,
       ReturnCall, tables
  <2> QED BY <2>1
<1> QED BY <1>1, <1>2

(* The lists of targets and delays still to do.                            *)
InSeq(x, s) == \E k \in DOMAIN s : s[k] = x

LEMMA InTail ==
  ASSUME NEW S, NEW s \in Seq(S), s # <<>>, NEW x, InSeq(x, s)
  PROVE  x = Head(s) \/ InSeq(x, Tail(s))
<1>1. PICK k \in DOMAIN s : s[k] = x
  BY DEF InSeq
<1>2. CASE k = 1
  BY <1>1, <1>2
<1>3. CASE k # 1
  <2>1. k - 1 \in DOMAIN Tail(s) /\ Tail(s)[k - 1] = x
    BY <1>1, <1>3
  <2> QED BY <2>1 DEF InSeq
<1> QED BY <1>2, <1>3

LEMMA OfTail ==
  ASSUME NEW S, NEW s \in Seq(S), s # <<>>, NEW x, InSeq(x, Tail(s))
  PROVE  InSeq(x, s)
<1>1. PICK k \in DOMAIN Tail(s) : Tail(s)[k] = x
  BY DEF InSeq
<1>2. k + 1 \in DOMAIN s /\ s[k + 1] = x
  BY <1>1
<1> QED BY <1>2 DEF InSeq

LEMMA InFront ==
  ASSUME NEW S, NEW s \in Seq(S), s # <<>>, NEW x
  PROVE  InSeq(x, s) <=> x = s[Len(s)] \/ InSeq(x, SubSeq(s, 1, Len(s) - 1))
<1> DEFINE f == SubSeq(s, 1, Len(s) - 1)
<1>1. Len(s) \in Nat \ {0} /\ DOMAIN s = 1 .. Len(s)
  OBVIOUS
<1>2. DOMAIN f = 1 .. Len(s) - 1 /\ \A k \in DOMAIN f : f[k] = s[k]
  BY <1>1
<1> HIDE DEF f
<1>3. InSeq(x, s) <=> x = s[Len(s)] \/ InSeq(x, f)
  BY <1>1, <1>2 DEF InSeq
<1> QED BY <1>3 DEF f
-----------------------------------------------------------------------------
(* Files.  Two targets whose names get_dest_name maps to the same file     *)
(* name would share their files (check_regs.cpp:166); what follows is      *)
(* about designs without such a pair.                                      *)
DistinctFiles == \A t, u \in Targets : FileBase[t] = FileBase[u] => t = u

LEMMA KeyOfOne ==
  ASSUME DistinctFiles, NEW i \in Instr, NEW j \in Instr, NEW c \in Call, NEW d \in Call,
         Key(i, c) = Key(j, d)
  PROVE  i = j /\ c = d
<1>1. i = j /\ FileBase[c[1]] = FileBase[d[1]] /\ c[2] = d[2]
  BY DEF Key
<1>2. c[1] = d[1]
  BY <1>1 DEF DistinctFiles, Call
<1> QED BY <1>1, <1>2 DEF Call

(* A job's file is linked no more than once, and not before its call has   *)
(* pushed the name.  From then on the file published is the job's own,     *)
(* unless the job went wrong.                                              *)
BeforeName == {"create", "assign", "assigning", "generate", "emit", "read", "name"}

OneLink ==
  /\ \A i \in Instr : \A c \in Call :
       /\ linked[Key(i, c)] <= 1
       /\ linked[Key(i, c)] = 1 /\ <<i, c>> \notin faulty
            => published[Key(i, c)] = Right(<<i, c>>)
  /\ \A c \in Call : pc[c] \in BeforeName => linked[MyKey(c)] = 0
  /\ \A c \in Call : pc[c] = "name" /\ MyJob(c) \notin faulty
            => published[MyKey(c)] = Right(MyJob(c))

(* A schedule touches no file; the calls it starts are not in the list.    *)
LEMMA FrameOneLink ==
  ASSUME CallTypeOK, CallTypeOK', OneLink, UNCHANGED <<linked, published, faulty>>,
         \A c \in Call : pc'[c] \in BeforeName =>
            \/ pc'[c] = pc[c] /\ own'[c] = own[c]
            \/ pc'[c] = "create" /\ linked[Key(own'[c], c)] = 0
  PROVE  OneLink'
<1>1. \A c \in Call : pc'[c] \in BeforeName => linked[Key(own'[c], c)] = 0
  BY DEF OneLink, MyKey
<1>2. \A c \in Call : pc'[c] = "name" => pc[c] = "name" /\ own'[c] = own[c]
  BY DEF BeforeName
<1>3. \A c \in Call : pc'[c] = "name" /\ <<own'[c], c>> \notin faulty
            => published[Key(own'[c], c)] = Right(<<own'[c], c>>)
  BY <1>2 DEF OneLink, MyKey, MyJob
<1> QED BY <1>1, <1>3 DEF OneLink, MyKey, MyJob

(* A step of a call adds to the list no more than its own job's file.      *)
LEMMA StepLinks ==
  ASSUME DistinctFiles, CallTypeOK, CallTypeOK', OneLink, NEW c \in Call, CallStep(c)
  PROVE  /\ OneLink'
         /\ \A i \in Instr : \A d \in Call :
              <<i, d>> # MyJob(c) => linked'[Key(i, d)] = linked[Key(i, d)]
<1> USE DEF CallTypeOK, At
<1>1. c \in Running /\ own' = own
  BY StepRunning
<1>2. /\ \A d \in Call \ {c} : pc'[d] = pc[d]
      /\ faulty \subseteq faulty'
  BY StepTables
<1>3. \A i \in Instr : \A d \in Call : <<i, d>> = MyJob(c) <=> i = own[c] /\ d = c
  BY DEF MyJob
<1>4. \A i \in Instr : \A d \in Call : Key(i, d) = MyKey(c) <=> i = own[c] /\ d = c
  BY KeyOfOne DEF MyKey
<1>5. \A d \in Call : /\ MyKey(d)' = MyKey(d) /\ MyJob(d)' = MyJob(d)
                      /\ MyKey(d) = Key(own[d], d) /\ own[d] \in Instr
                      /\ (d # c => MyKey(d) # MyKey(c))
  BY <1>1, <1>4 DEF MyKey, MyJob
<1>6. CASE PushName(c)
  <2>1. /\ linked' = [linked EXCEPT ![MyKey(c)] = @ + 1] /\ pc[c] = "name"
        /\ pc'[c] = "record" /\ published' = published /\ faulty' = faulty
    BY <1>6 DEF PushName, disk
  <2>2. MyKey(c) \in FileKey
    BY KeyType DEF MyKey
  <2>3. linked'[MyKey(c)] = 1
    BY <2>1, <2>2 DEF OneLink, BeforeName
  <2>4. \A i \in Instr : \A d \in Call :
          Key(i, d) # MyKey(c) => linked'[Key(i, d)] = linked[Key(i, d)]
    BY <2>1, <2>2, KeyType
  <2>5. ASSUME NEW i \in Instr, NEW d \in Call
        PROVE  /\ linked'[Key(i, d)] <= 1
               /\ linked'[Key(i, d)] = 1 /\ <<i, d>> \notin faulty
                    => published[Key(i, d)] = Right(<<i, d>>)
    <3>1. CASE Key(i, d) = MyKey(c)
      <4>1. i = own[c] /\ d = c
        BY <1>4, <3>1
      <4>2. <<own[c], c>> \notin faulty => published[MyKey(c)] = Right(<<own[c], c>>)
        BY <2>1 DEF OneLink, MyJob
      <4> QED BY <2>3, <3>1, <4>1, <4>2
    <3>2. CASE Key(i, d) # MyKey(c)
      BY <2>4, <3>2 DEF OneLink
    <3> QED BY <3>1, <3>2
  <2>6. ASSUME NEW d \in Call, pc'[d] \in BeforeName
        PROVE  linked'[MyKey(d)] = 0
    <3>1. d # c /\ pc[d] \in BeforeName
      BY <1>2, <2>1, <2>6 DEF BeforeName
    <3> QED BY <1>5, <2>4, <3>1 DEF OneLink
  <2>7. ASSUME NEW d \in Call, pc'[d] = "name", MyJob(d) \notin faulty
        PROVE  published[MyKey(d)] = Right(MyJob(d))
    <3>1. pc[d] = "name"
      BY <1>2, <2>1, <2>7
    <3> QED BY <2>7, <3>1 DEF OneLink
  <2> QED BY <1>3, <1>4, <1>5, <2>1, <2>4, <2>5, <2>6, <2>7 DEF OneLink
<1>7. CASE ReadClean(c)
  <2>1. /\ linked' = linked /\ pc[c] = "read" /\ pc'[c] \in {"name", "done"}
        /\ published' = published \/ published' = [published EXCEPT ![MyKey(c)] = files[MyKey(c)]]
        /\ pc'[c] = "name" => published' = [published EXCEPT ![MyKey(c)] = files[MyKey(c)]]
        /\ MyJob(c) \notin faulty' => files[MyKey(c)] = Right(MyJob(c))
    BY <1>7 DEF ReadClean, tables
  <2>2. linked[MyKey(c)] = 0
    BY <2>1 DEF OneLink, BeforeName
  <2>3. MyKey(c) \in FileKey
    BY KeyType DEF MyKey
  <2>4. \A i \in Instr : \A d \in Call :
          Key(i, d) # MyKey(c) => published'[Key(i, d)] = published[Key(i, d)]
    BY <2>1, <2>3, KeyType
  <2>5. ASSUME NEW i \in Instr, NEW d \in Call
        PROVE  /\ linked[Key(i, d)] <= 1
               /\ linked[Key(i, d)] = 1 /\ <<i, d>> \notin faulty'
                    => published'[Key(i, d)] = Right(<<i, d>>)
    BY <1>2, <2>2, <2>4 DEF OneLink
  <2>6. ASSUME NEW d \in Call, pc'[d] \in BeforeName
        PROVE  linked[MyKey(d)] = 0
    <3>1. CASE d = c
      BY <2>2, <3>1
    <3>2. CASE d # c
      BY <1>2, <2>6, <3>2 DEF OneLink
    <3> QED BY <3>1, <3>2
  <2>7. ASSUME NEW d \in Call, pc'[d] = "name", MyJob(d) \notin faulty'
        PROVE  published'[MyKey(d)] = Right(MyJob(d))
    <3>1. CASE d = c
      BY <2>1, <2>3, <2>7, <3>1
    <3>2. CASE d # c
      BY <1>2, <1>5, <2>4, <2>7, <3>2 DEF OneLink
    <3> QED BY <3>1, <3>2
  <2> QED BY <1>5, <2>1, <2>5, <2>6, <2>7 DEF OneLink
<1>8. CASE ~PushName(c) /\ ~ReadClean(c)
  <2>1. /\ linked' = linked /\ published' = published /\ faulty' = faulty
        /\ pc'[c] \in BeforeName => pc[c] \in BeforeName
        /\ pc'[c] # "name"
    BY <1>8 DEF CallStep, CreateEntry, BeginAssign, EndAssign, SkipGeneration,
       Generate, Emit, RecordDep, CheckArg, InsertArg, RegisterArg, ReturnCall,
       tables, disk, BeforeName
  <2>2. \A d \in Call : /\ pc'[d] \in BeforeName => pc[d] \in BeforeName
                        /\ pc'[d] = "name" => pc[d] = "name"
    BY <1>2, <2>1
  <2> QED BY <1>5, <2>1, <2>2 DEF OneLink
<1> QED BY <1>6, <1>7, <1>8
=============================================================================
