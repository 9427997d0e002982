------------------------- MODULE ParSchedule_proofs -------------------------
(***************************************************************************)
(* The multi-threaded schedule, for any number of targets, vectors,        *)
(* instructions, delays and crashes: its types, the barrier between two    *)
(* instructions, that no argument on record is forgotten, and that it      *)
(* implements DepClosure: what it prints is the closure of the first       *)
(* targets, with every function on record, linked once and never           *)
(* overwritten.                                                            *)
(***************************************************************************)
EXTENDS ParSchedule, TargetConfig_proofs

(* The types.                                                              *)
LEMMA InitTypeOK == Init => TypeOK
<1> SUFFICES ASSUME Init PROVE TypeOK OBVIOUS
<1>1. CallTypeOK
  BY ConfigTypes, CallInitTypeOK DEF Init
<1> QED BY <1>1, ConfigTypes DEF Init, SchedInit, TypeOK

LEMMA NextTypeOK ==
  ASSUME TypeOK, [Next]_vars PROVE TypeOK'
<1> USE DEF TypeOK
<1>1. CASE BeginRound
  <2>1. CallTypeOK'
    BY <1>1 DEF BeginRound, CallTypeOK, LocalsOK, disk, locals
  <2> QED BY <1>1, <2>1, ConfigTypes DEF BeginRound, CallTypeOK
<1>2. CASE SkipTarget
  <2>1. CallTypeOK'
    BY <1>2 DEF SkipTarget, callVars, tables, disk, locals, CallTypeOK, LocalsOK
  <2> QED BY <1>2, <2>1 DEF SkipTarget, Popped
<1>3. CASE SpawnTarget
  <2>1. PICK t \in localWorkSet \ PassOver :
          localWorkSet' = localWorkSet \ {t} /\ StartCalls(Calls(instr, t), instr)
    BY <1>3 DEF SpawnTarget, ThreadsFor, Popped
  <2>2. Calls(instr, t) \in SUBSET Call
    BY CallsType DEF Targets
  <2>3. CallTypeOK'
    BY <1>3, <2>1, <2>2, StartTypeOK DEF SpawnTarget
  <2> QED BY <1>3, <2>1, <2>3 DEF SpawnTarget
<1>4. CASE SpawnVec
  <2> DEFINE v == localWorkVec[Len(localWorkVec)]
  <2>1. v \in Vecs
    BY <1>4 DEF SpawnVec
  <2>2. Calls(instr, v) \in SUBSET Call
    BY <2>1, CallsType DEF Targets
  <2>3. CallTypeOK'
    BY <1>4, <2>2, StartTypeOK DEF SpawnVec, ThreadsFor
  <2>4. localWorkVec' \in Seq(Vecs)
    BY <1>4 DEF SpawnVec
  <2> QED BY <1>4, <2>3, <2>4 DEF SpawnVec
<1>5. CASE NextInstr
  <2>1. CallTypeOK'
    BY <1>5, RetireTypeOK DEF NextInstr, tables, CallTypeOK
  <2>2. instr' \in Instr
    BY <1>5, InstrsAssumption DEF NextInstr, Instr
  <2> QED BY <1>5, <2>1, <2>2 DEF NextInstr, LocalCopy
<1>6. CASE EndRound
  <2>1. RoundTargets \subseteq Asvs
    BY ConfigAssumption DEF RoundTargets
  <2>2. CallTypeOK'
    BY <1>6, <2>1, RetireTypeOK DEF EndRound, CallTypeOK
  <2> QED BY <1>6, <2>2 DEF EndRound
<1>7. CASE PrintResults
  <2>1. CallTypeOK'
    BY <1>7 DEF PrintResults, callVars, tables, disk, locals, CallTypeOK, LocalsOK
  <2> QED BY <1>7, <2>1 DEF PrintResults
<1>8. CASE CallNext
  <2>1. CallTypeOK'
    BY <1>8, CallStepTypeOK DEF CallNext
  <2> QED BY <1>8, <2>1 DEF CallNext, schedVars
<1>9. CASE Crash
  <2>1. CallTypeOK'
    BY <1>9, CrashTypeOK, ConfigTypes DEF Crash
  <2> QED BY <1>9, <2>1, ConfigTypes DEF Crash
<1>10. CASE UNCHANGED vars
  BY <1>10 DEF vars, callVars, schedVars, tables, disk, locals, CallTypeOK, LocalsOK
<1> QED
  BY <1>1, <1>2, <1>3, <1>4, <1>5, <1>6, <1>7, <1>8, <1>9, <1>10
  DEF Next, MainStep

(* Every variable keeps its type in every behaviour.                       *)
THEOREM ParTypeCorrect == Spec => []TypeOK
BY InitTypeOK, NextTypeOK, PTL DEF Spec
-----------------------------------------------------------------------------
(* The barrier: threads run only while a round's threads are being started *)
(* or joined, for the loop's instruction, and on targets already taken out *)
(* of the local work sets.                                                 *)
StartedOnly ==
  \A c \in Running : /\ own[c] = instr
                     /\ c[1] \notin localWorkSet
                     /\ \A k \in DOMAIN localWorkVec : c[1] # localWorkVec[k]

OneByOne(s) == \A j, k \in DOMAIN s : s[j] = s[k] => j = k

GlobalInstrOK ==
  \A c \in Call : pc[c] = "generate" /\ currInstr \in Instr => currInstr = instr

Barrier ==
  /\ phase # "spawn" => Running = {}
  /\ phase # "spawn" => oldWorkSet = {}
  /\ OneByOne(localWorkVec) /\ OneByOne(vecTodo)
  /\ StartedOnly
  /\ GlobalInstrOK

LEMMA InitBarrier == Init => Barrier
<1> SUFFICES ASSUME Init PROVE Barrier OBVIOUS
<1>1. Running = {} /\ \A c \in Call : pc[c] = "idle"
  BY DEF Init, CallInit, IdleLocals, Running
<1> QED
  BY <1>1, ConfigAssumption DEF Init, SchedInit, Barrier, StartedOnly, OneByOne, GlobalInstrOK

(* What a step of a call may do to g_currInstrInfo.                        *)
LEMMA StepGlobalInstr ==
  ASSUME CallTypeOK, StartedOnly, GlobalInstrOK, NEW c \in Call, CallStep(c), instr' = instr
  PROVE  GlobalInstrOK'
<1> USE DEF CallTypeOK, GlobalInstrOK, At
<1>1. c \in Running /\ own[c] = instr
  BY StepRunning DEF StartedOnly
<1>2. CASE BeginAssign(c)
  <2>1. currInstr' \notin Instr
    BY <1>2, NamesAssumption DEF BeginAssign
  <2> QED BY <1>2, <2>1 DEF BeginAssign
<1>3. CASE EndAssign(c)
  <2>1. currInstr' = instr \/ currInstr' \notin Instr
    BY <1>1, <1>3, NamesAssumption DEF EndAssign
  <2> QED BY <1>3, <2>1
<1>4. CASE ~BeginAssign(c) /\ ~EndAssign(c)
  <2>1. currInstr' = currInstr /\ \A d \in Call : pc'[d] = "generate" => pc[d] = "generate"
    BY <1>4 DEF CallStep, CreateEntry, SkipGeneration, Generate, Emit, ReadClean,
       PushName, RecordDep, CheckArg, InsertArg, RegisterArg, ReturnCall, tables
  <2> QED BY <2>1
<1> QED BY <1>2, <1>3, <1>4

LEMMA NextBarrier ==
  ASSUME TypeOK, Barrier, [Next]_vars PROVE Barrier'
<1> USE DEF TypeOK, Barrier
<1>1. CASE BeginRound
  <2>1. Running' = {}
    BY <1>1 DEF BeginRound, locals, Running
  <2> QED BY <1>1, <2>1 DEF BeginRound, StartedOnly, OneByOne, GlobalInstrOK, Running, locals
<1>2. CASE SkipTarget
  <2>1. Running' = Running /\ own' = own /\ pc' = pc /\ currInstr' = currInstr
    BY <1>2 DEF SkipTarget, callVars, locals, Running
  <2> QED BY <1>2, <2>1 DEF SkipTarget, Popped, StartedOnly, OneByOne, GlobalInstrOK
<1>3. CASE SpawnTarget
  <2>1. PICK t \in localWorkSet \ PassOver :
          localWorkSet' = localWorkSet \ {t} /\ StartCalls(Calls(instr, t), instr)
    BY <1>3 DEF SpawnTarget, ThreadsFor, Popped
  <2>2. /\ Calls(instr, t) \in SUBSET Call
        /\ \A c \in Calls(instr, t) : c[1] = t
    BY CallsType DEF Targets
  <2>3. /\ Running' = Running \cup Calls(instr, t)
        /\ \A c \in Calls(instr, t) : own'[c] = instr
        /\ \A c \in Call \ Calls(instr, t) : own'[c] = own[c] /\ pc'[c] = pc[c]
    BY <2>1, <2>2, StartRunning
  <2>4. \A c \in Calls(instr, t) : pc'[c] = "create"
    BY <2>1, <2>2 DEF StartCalls
  <2>5. t \in Asvs /\ \A k \in DOMAIN localWorkVec : t # localWorkVec[k]
    BY ConfigAssumption
  <2>6. StartedOnly'
    BY <1>3, <2>1, <2>2, <2>3, <2>5 DEF SpawnTarget, StartedOnly, Running
  <2>7. GlobalInstrOK'
    BY <1>3, <2>2, <2>3, <2>4 DEF SpawnTarget, GlobalInstrOK
  <2> QED BY <1>3, <2>6, <2>7 DEF SpawnTarget, OneByOne
<1>4. CASE SpawnVec
  <2> DEFINE v == localWorkVec[Len(localWorkVec)]
  <2>1. v \in Vecs /\ StartCalls(Calls(instr, v), instr)
    BY <1>4 DEF SpawnVec, ThreadsFor
  <2>2. /\ Calls(instr, v) \in SUBSET Call
        /\ \A c \in Calls(instr, v) : c[1] = v
    BY <2>1, CallsType DEF Targets
  <2>3. /\ Running' = Running \cup Calls(instr, v)
        /\ \A c \in Calls(instr, v) : own'[c] = instr
        /\ \A c \in Call \ Calls(instr, v) : own'[c] = own[c] /\ pc'[c] = pc[c]
    BY <2>1, <2>2, StartRunning
  <2>4. \A c \in Calls(instr, v) : pc'[c] = "create"
    BY <2>1, <2>2 DEF StartCalls
  <2>5. /\ DOMAIN localWorkVec' \subseteq DOMAIN localWorkVec
        /\ \A k \in DOMAIN localWorkVec' : localWorkVec'[k] = localWorkVec[k] /\ k < Len(localWorkVec)
    BY <1>4 DEF SpawnVec
  <2>6. \A k \in DOMAIN localWorkVec' : v # localWorkVec'[k]
    BY <1>4, <2>5 DEF OneByOne, SpawnVec
  <2>7. StartedOnly'
    BY <1>4, <2>1, <2>2, <2>3, <2>5, <2>6 DEF SpawnVec, StartedOnly, Running
  <2>8. GlobalInstrOK'
    BY <1>4, <2>2, <2>3, <2>4 DEF SpawnVec, GlobalInstrOK
  <2>9. OneByOne(localWorkVec)'
    BY <2>5 DEF OneByOne
  <2> QED BY <1>4, <2>7, <2>8, <2>9 DEF SpawnVec, OneByOne
<1>5. CASE NextInstr
  <2>1. Running' = {} /\ \A c \in Call : pc'[c] # "generate"
    BY <1>5, RetireRunning DEF NextInstr, AllJoined, Running, RetireCalls
  <2> QED BY <1>5, <2>1 DEF NextInstr, StartedOnly, OneByOne, GlobalInstrOK
<1>6. CASE EndRound
  <2>1. Running' = {} /\ \A c \in Call : pc'[c] # "generate"
    BY <1>6, RetireRunning DEF EndRound, AllJoined, Running, RetireCalls
  <2> QED BY <1>6, <2>1 DEF EndRound, StartedOnly, OneByOne, GlobalInstrOK
<1>7. CASE PrintResults
  <2>1. Running' = Running /\ own' = own /\ pc' = pc /\ currInstr' = currInstr
    BY <1>7 DEF PrintResults, callVars, locals, Running
  <2> QED BY <1>7, <2>1 DEF PrintResults, StartedOnly, OneByOne, GlobalInstrOK
<1>8. CASE CallNext
  <2>1. PICK c \in Call : CallStep(c)
    BY <1>8 DEF CallNext
  <2>2. /\ c \in Running /\ Running' \subseteq Running /\ own' = own
    BY <2>1, StepRunning
  <2>3. StartedOnly'
    BY <1>8, <2>2 DEF CallNext, schedVars, StartedOnly
  <2>4. GlobalInstrOK'
    BY <1>8, <2>1, StepGlobalInstr DEF CallNext, schedVars
  <2> QED BY <1>8, <2>2, <2>3, <2>4 DEF CallNext, schedVars, OneByOne
<1>9. CASE Crash
  <2>1. Running' = {} /\ \A c \in Call : pc'[c] = "idle"
    BY <1>9 DEF Crash, CallCrash, Running
  <2> QED BY <1>9, <2>1, ConfigAssumption DEF Crash, StartedOnly, OneByOne, GlobalInstrOK
<1>10. CASE UNCHANGED vars
  BY <1>10 DEF vars, callVars, schedVars, locals, StartedOnly, OneByOne, GlobalInstrOK, Running
<1> QED
  BY <1>1, <1>2, <1>3, <1>4, <1>5, <1>6, <1>7, <1>8, <1>9, <1>10
  DEF Next, MainStep

(* A thread never builds its function from another instruction's encoding: *)
(* all threads are joined before the loop goes on to the next instruction. *)
THEOREM ParNeverForeignInstr == Spec => []NeverForeignInstr
<1>1. TypeOK /\ Barrier => NeverForeignInstr
  <2> SUFFICES ASSUME TypeOK, Barrier, NEW c \in Call,
                      pc[c] = "generate", currInstr \in Instr
               PROVE  currInstr = own[c]
    BY DEF NeverForeignInstr
  <2> QED BY DEF Barrier, GlobalInstrOK, StartedOnly, Running
<1> QED
  BY <1>1, InitTypeOK, NextTypeOK, InitBarrier, NextBarrier, PTL DEF Spec
-----------------------------------------------------------------------------
(* No argument on record is forgotten: until it is registered and, when    *)
(* new targets are pushed, known, it is still in the hands of a call.      *)
Handled(r) == r \in asvSet /\ (PushNewTarget => r \in Known)

InHand(c, r) ==
  \/ pc[c] \in {"push", "insert", "register"} /\ r \in todo[c]
  \/ pc[c] = "insert" /\ pend[c] = r
  \/ pc[c] = "register" /\ pend[c] = r /\ (PushNewTarget => r \in Known)

ArgsAccountedFor ==
  \A x \in recorded : \A r \in dep[x] :
    Handled(r) \/ \E c \in Call : MyTarget(c) = x /\ InHand(c, r)

(* Steps that touch neither the record nor a call in hand, and lose no     *)
(* known target and no registered one.                                     *)
LEMMA FrameArgs ==
  ASSUME ArgsAccountedFor, recorded' = recorded, dep' = dep,
         asvSet \subseteq asvSet', Known \subseteq Known',
         \A c \in Running : /\ pc'[c] = pc[c] /\ own'[c] = own[c]
                            /\ todo'[c] = todo[c] /\ pend'[c] = pend[c]
  PROVE  ArgsAccountedFor'
<1> SUFFICES ASSUME NEW x \in recorded, NEW r \in dep[x]
             PROVE  Handled(r)' \/ \E c \in Call : MyTarget(c)' = x /\ InHand(c, r)'
  BY DEF ArgsAccountedFor
<1>1. CASE Handled(r)
  BY <1>1 DEF Handled
<1>2. CASE \E c \in Call : MyTarget(c) = x /\ InHand(c, r)
  <2>1. PICK c \in Call : MyTarget(c) = x /\ InHand(c, r)
    BY <1>2
  <2>2. c \in Running
    BY <2>1 DEF InHand, Running
  <2> QED BY <2>1, <2>2 DEF InHand, MyTarget
<1> QED BY <1>1, <1>2 DEF ArgsAccountedFor

LEMMA StepArgs ==
  ASSUME TypeOK, ArgsAccountedFor, NEW c \in Call, CallStep(c), UNCHANGED schedVars
  PROVE  ArgsAccountedFor'
<1> USE DEF TypeOK, CallTypeOK, At
<1>1. /\ Known \subseteq Known' /\ asvSet \subseteq asvSet' /\ own' = own
      /\ \A d \in Call \ {c} : pc'[d] = pc[d] /\ todo'[d] = todo[d] /\ pend'[d] = pend[d]
  BY DEF CallStep, CreateEntry, BeginAssign, EndAssign, SkipGeneration, Generate,
     Emit, ReadClean, PushName, RecordDep, CheckArg, InsertArg, WithPushed,
     RegisterArg, ReturnCall, tables, schedVars, Known
<1>2. ASSUME NEW d \in Call \ {c}, NEW r, InHand(d, r) PROVE InHand(d, r)'
  BY <1>1, <1>2 DEF InHand
<1>3. ASSUME NEW r, Handled(r) PROVE Handled(r)'
  BY <1>1, <1>3 DEF Handled
<1>4. \A d \in Call : MyTarget(d)' = MyTarget(d)
  BY <1>1 DEF MyTarget
<1>5. CASE RecordDep(c)
  <2> SUFFICES ASSUME NEW x \in recorded', NEW r \in dep'[x]
               PROVE  Handled(r)' \/ \E d \in Call : MyTarget(d)' = x /\ InHand(d, r)'
    BY DEF ArgsAccountedFor
  <2>1. MyTarget(c) \in Instr \X Targets
    BY DEF MyTarget, Call
  <2>2. CASE x \in recorded
    <3>1. r \in dep[x]
      BY <1>5, <2>1, <2>2 DEF RecordDep, FirstArgs
    <3>2. CASE Handled(r)
      BY <1>3, <3>2
    <3>3. CASE \E d \in Call : MyTarget(d) = x /\ InHand(d, r)
      <4>1. PICK d \in Call : MyTarget(d) = x /\ InHand(d, r)
        BY <3>3
      <4>2. d # c
        BY <1>5, <4>1 DEF RecordDep, InHand
      <4> QED BY <1>2, <1>4, <4>1, <4>2
    <3> QED BY <2>2, <3>1, <3>2, <3>3 DEF ArgsAccountedFor
  <2>3. CASE x \notin recorded
    <3>1. x = MyTarget(c) /\ r \in fn[c].args
      BY <1>5, <2>1, <2>3 DEF RecordDep, FirstArgs
    <3>2. pc'[c] = "push" /\ r \in todo'[c]
      BY <1>5, <3>1 DEF RecordDep
    <3> QED BY <1>4, <3>1, <3>2 DEF InHand
  <2> QED BY <2>2, <2>3
<1>6. CASE ~RecordDep(c)
  <2>1. recorded' = recorded /\ dep' = dep
    BY <1>6 DEF CallStep, CreateEntry, BeginAssign, EndAssign, SkipGeneration,
       Generate, Emit, ReadClean, PushName, CheckArg, InsertArg, RegisterArg,
       ReturnCall, tables
  <2>2. ASSUME NEW r, InHand(c, r) PROVE Handled(r)' \/ InHand(c, r)'
    <3>1. CASE CheckArg(c)
      <4>1. pc[c] = "push" /\ r \in todo[c]
        BY <2>2, <3>1 DEF CheckArg, InHand
      <4>2. PICK q \in todo[c] :
              /\ pc' = [pc EXCEPT ![c] = IF MustPush(q) THEN "insert" ELSE "register"]
              /\ todo' = [todo EXCEPT ![c] = @ \ {q}]
              /\ pend' = [pend EXCEPT ![c] = q]
        BY <3>1 DEF CheckArg
      <4>3. CASE r # q
        BY <4>1, <4>2, <4>3 DEF InHand
      <4>4. CASE r = q /\ MustPush(q)
        BY <4>2, <4>4 DEF InHand
      <4>5. CASE r = q /\ ~MustPush(q)
        BY <1>1, <4>2, <4>5 DEF InHand, MustPush, Known
      <4> QED BY <4>3, <4>4, <4>5
    <3>2. CASE InsertArg(c)
      <4>1. /\ pc'[c] = "register" /\ todo' = todo /\ pend' = pend
            /\ pend[c] \in Known'
        BY <3>2 DEF InsertArg, WithPushed, Known
      <4> QED BY <2>2, <3>2, <4>1 DEF InHand, InsertArg
    <3>3. CASE RegisterArg(c)
      <4>1. pc[c] = "register" /\ pc'[c] = "push" /\ todo' = todo /\ pend[c] \in asvSet'
        BY <3>3 DEF RegisterArg
      <4> QED BY <1>1, <2>2, <4>1 DEF InHand, Handled
    <3>4. CASE ReturnCall(c)
      BY <2>2, <3>4 DEF ReturnCall, InHand
    <3>5. pc[c] \in {"push", "insert", "register"}
      BY <2>2 DEF InHand
    <3> QED
      BY <1>6, <3>1, <3>2, <3>3, <3>4, <3>5
      DEF CallStep, CreateEntry, BeginAssign, EndAssign, SkipGeneration, Generate,
          Emit, ReadClean, PushName
  <2> SUFFICES ASSUME NEW x \in recorded, NEW r \in dep[x]
               PROVE  Handled(r)' \/ \E d \in Call : MyTarget(d)' = x /\ InHand(d, r)'
    BY <2>1 DEF ArgsAccountedFor
  <2>3. CASE Handled(r)
    BY <1>3, <2>3
  <2>4. CASE \E d \in Call : MyTarget(d) = x /\ InHand(d, r)
    BY <1>2, <1>4, <2>2, <2>4
  <2> QED BY <2>3, <2>4 DEF ArgsAccountedFor
<1> QED BY <1>5, <1>6

LEMMA InitArgs == Init => ArgsAccountedFor
BY DEF Init, CallInit, ArgsAccountedFor

(* The main thread's steps lose no known target, and give a call a new     *)
(* beginning only when it is not running.                                  *)
LEMMA NextArgs ==
  ASSUME TypeOK, Barrier, ArgsAccountedFor, [Next]_vars PROVE ArgsAccountedFor'
<1> USE DEF TypeOK, Known
<1>1. CASE BeginRound
  <2>1. Known \subseteq Known'
    BY <1>1 DEF BeginRound, Barrier
  <2> QED BY <1>1, <2>1, FrameArgs DEF BeginRound, locals
<1>2. CASE SkipTarget
  BY <1>2, FrameArgs DEF SkipTarget, callVars, tables, locals
<1>3. CASE SpawnTarget
  <2>1. PICK t \in localWorkSet \ PassOver :
          localWorkSet' = localWorkSet \ {t} /\ StartCalls(Calls(instr, t), instr)
    BY <1>3 DEF SpawnTarget, ThreadsFor, Popped
  <2>2. /\ Calls(instr, t) \in SUBSET Call
        /\ \A c \in Calls(instr, t) : c[1] = t
    BY CallsType DEF Targets
  <2>3. \A c \in Running : c \in Call \ Calls(instr, t)
    BY <2>1, <2>2 DEF Barrier, StartedOnly, Running
  <2>4. \A c \in Running : pc'[c] = pc[c] /\ own'[c] = own[c]
    BY <2>1, <2>2, <2>3, StartRunning
  <2> QED BY <1>3, <2>1, <2>4, FrameArgs DEF SpawnTarget, StartCalls, tables
<1>4. CASE SpawnVec
  <2> DEFINE v == localWorkVec[Len(localWorkVec)]
  <2>1. v \in Vecs /\ StartCalls(Calls(instr, v), instr)
    BY <1>4 DEF SpawnVec, ThreadsFor
  <2>2. /\ Calls(instr, v) \in SUBSET Call
        /\ \A c \in Calls(instr, v) : c[1] = v
    BY <2>1, CallsType DEF Targets
  <2>3. \A c \in Running : c \in Call \ Calls(instr, v)
    BY <1>4, <2>2 DEF SpawnVec, Barrier, StartedOnly, Running
  <2>4. \A c \in Running : pc'[c] = pc[c] /\ own'[c] = own[c]
    BY <2>1, <2>2, <2>3, StartRunning
  <2> QED BY <1>4, <2>1, <2>4, FrameArgs DEF SpawnVec, StartCalls, tables
<1>5. CASE NextInstr
  BY <1>5, FrameArgs, RetireRunning DEF NextInstr, RetireCalls, tables
<1>6. CASE EndRound
  <2>1. Known \subseteq Known'
    BY <1>6 DEF EndRound, RoundTargets
  <2> QED BY <1>6, <2>1, FrameArgs, RetireRunning DEF EndRound, RetireCalls
<1>7. CASE PrintResults
  BY <1>7, FrameArgs DEF PrintResults, callVars, tables, locals
<1>8. CASE CallNext
  BY <1>8, StepArgs DEF CallNext
<1>9. CASE Crash
  BY <1>9 DEF Crash, CallCrash, ArgsAccountedFor
<1>10. CASE UNCHANGED vars
  BY <1>10, FrameArgs DEF vars, callVars, schedVars, tables, locals
<1> QED
  BY <1>1, <1>2, <1>3, <1>4, <1>5, <1>6, <1>7, <1>8, <1>9, <1>10
  DEF Next, MainStep

(* No argument of a function on record is forgotten: when its call is over *)
(* it is registered and, when new targets are pushed, it waits for a       *)
(* round, is in one or has been in one.                                    *)
THEOREM ParNoArgLost == Spec => []NoArgLost
<1>1. TypeOK /\ ArgsAccountedFor => NoArgLost
  <2> SUFFICES ASSUME TypeOK, ArgsAccountedFor, NEW x \in recorded,
                      \A c \in Running : x # <<own[c], c[1]>>
               PROVE  /\ dep[x] \subseteq asvSet
                      /\ PushNewTarget => Wanted(dep[x]) \subseteq Known
    BY DEF NoArgLost, ArgsKept
  <2>1. ASSUME NEW r \in dep[x] PROVE Handled(r)
    <3>1. ASSUME NEW c \in Call, MyTarget(c) = x PROVE ~InHand(c, r)
      BY <3>1 DEF InHand, Running, MyTarget
    <3> QED BY <3>1 DEF ArgsAccountedFor
  <2> QED BY <2>1 DEF Handled, Wanted
<1> QED
  BY <1>1, InitTypeOK, NextTypeOK, InitBarrier, NextBarrier, InitArgs, NextArgs, PTL
  DEF Spec
-----------------------------------------------------------------------------
(* Call c has done its work for instruction i: its target is on record,    *)
(* its file in the list and all that its function depends on is known; or  *)
(* it went wrong.                                                          *)
Sat(i, c) ==
  \/ <<i, c>> \in faulty
  \/ /\ <<i, c[1]>> \in recorded
     /\ linked[Key(i, c)] > 0
     /\ PushNewTarget => Wanted(ReadArgs(<<i, c>>)) \subseteq Known

(* What a call under way has done so far.                                  *)
CallOK(c) ==
  /\ pc[c] = "insert" => PushNewTarget
  /\ MyJob(c) \notin faulty =>
       /\ pc[c] \in {"name", "record"} => fn[c].args = ReadArgs(MyJob(c))
       /\ pc[c] \in {"record", "push", "insert", "register"} => linked[MyKey(c)] > 0
       /\ pc[c] \in {"push", "insert", "register"} =>
            /\ MyTarget(c) \in recorded
            /\ todo[c] \cup Pending(c) \subseteq ReadArgs(MyJob(c))
            /\ PushNewTarget => Wanted(ReadArgs(MyJob(c)))
                                  \subseteq Known \cup todo[c] \cup Pending(c)

(* The targets a round works on, and those it has yet to start for the     *)
(* instruction in hand.                                                    *)
RoundTarget(t) == t \in oldWorkSet \ PassOver \/ InSeq(t, vecTodo)
Waiting(t)     == t \in localWorkSet \/ InSeq(t, localWorkVec)

RoundOK ==
  /\ localWorkSet \subseteq oldWorkSet
  /\ \A v \in Vecs : InSeq(v, localWorkVec) => InSeq(v, vecTodo)
  /\ \A c \in Running : RoundTarget(c[1]) /\ c \in Calls(instr, c[1])
  /\ \A t \in Targets : RoundTarget(t) =>
       /\ \A i \in Instr : i < instr => \A c \in Calls(i, t) : Sat(i, c)
       /\ \A c \in Calls(instr, t) : Waiting(t) \/ c \in Running \/ Sat(instr, c)

Rounds ==
  /\ \A v \in Vecs : InSeq(v, vecTodo) => v \in VecsInUse
  /\ \A c \in Call : CallOK(c)
  /\ phase = "spawn" => RoundOK
  /\ phase = "printed" => workSet = {} /\ vecTodo = <<>>

(* The calls of a target on record for an instruction have all been made,  *)
(* or run now; what is on record is a function of its own.                 *)
RecordsOK ==
  \A x \in recorded :
    /\ \A c \in Calls(x[1], x[2]) :
         \/ Sat(x[1], c)
         \/ phase = "spawn" /\ x[1] = instr /\ c \in Running
    /\ \/ HasOwnRecord(x[1], x[2])
       \/ \E c \in Calls(x[1], x[2]) : <<x[1], c>> \in faulty

(* What is known lies between the first targets and every closed set, and  *)
(* what is finished with has all it needs known.                           *)
VecDone(v) == InSeq(v, vecTodo) \/ WantedVecRegs(v) \cup WantedDeps(v) \subseteq Known

Covered(t) == \E v \in VecsInUse : t \in VecRegs[v]

Closed ==
  /\ Wanted(InitialWork) \subseteq Known
  /\ \A t \in Wanted(visited) :
       Covered(t) \/ \A i \in Instr : \A c \in Calls(i, t) : Sat(i, c)
  /\ faulty = {} =>
       /\ \A v \in VecsInUse : VecDone(v)
       /\ \A T \in SUBSET Asvs : IsClosed(T) => Wanted(Known) \subseteq T

(* The file of a job still to be called is not in the list.                *)
ToCall(i, t) ==
  /\ t \in Asvs \ visited \/ InSeq(t, vecTodo)
  /\ phase = "spawn" /\ RoundTarget(t) => instr < i \/ (instr = i /\ Waiting(t))

LinksOK ==
  /\ OneLink
  /\ \A i \in Instr : \A c \in Call : ToCall(i, c[1]) => linked[Key(i, c)] = 0

(* An artefact is written only where none was.                             *)
EmitFresh ==
  ~Overwrite => \A c \in Call : pc[c] = "emit" => files[MyKey(c)] = NoFile
-----------------------------------------------------------------------------
(* What is known, on record, linked or known to be wrong only grows, until *)
(* the process is killed; what a call has done it has done for good.       *)
Grow ==
  /\ Known \subseteq Known' /\ faulty \subseteq faulty' /\ recorded \subseteq recorded'
  /\ \A k \in FileKey : linked[k] <= linked'[k]

LEMMA LinkedGrows ==
  ASSUME TypeOK, NEW i \in Instr, NEW c \in Call, Grow, linked[Key(i, c)] > 0,
         TypeOK'
  PROVE  linked'[Key(i, c)] > 0
<1>1. Key(i, c) \in FileKey
  BY KeyType
<1>2. linked[Key(i, c)] \in Nat /\ linked'[Key(i, c)] \in Nat
  BY <1>1 DEF TypeOK, CallTypeOK
<1> QED BY <1>1, <1>2 DEF Grow

LEMMA SatStays ==
  ASSUME TypeOK, TypeOK', Grow, NEW i \in Instr, NEW c \in Call, Sat(i, c)
  PROVE  Sat(i, c)'
<1>1. linked[Key(i, c)] > 0 => linked'[Key(i, c)] > 0
  BY LinkedGrows
<1> QED BY <1>1 DEF Sat, Grow

LEMMA CallOKStays ==
  ASSUME TypeOK, TypeOK', Grow, NEW c \in Call, CallOK(c),
         pc'[c] = pc[c], own'[c] = own[c], fn'[c] = fn[c], todo'[c] = todo[c],
         pend'[c] = pend[c]
  PROVE  CallOK(c)'
<1>1. linked[MyKey(c)] > 0 => linked'[MyKey(c)] > 0
  BY LinkedGrows DEF MyKey, TypeOK, CallTypeOK
<1>2. MyJob(c)' = MyJob(c) /\ MyTarget(c)' = MyTarget(c) /\ MyKey(c)' = MyKey(c)
      /\ Pending(c)' = Pending(c)
  BY DEF MyJob, MyTarget, MyKey, Pending
<1> QED BY <1>1, <1>2 DEF CallOK, Grow

(* A step of a call, seen from the sets above.                             *)
LEMMA StepGrows ==
  ASSUME TypeOK, NEW c \in Call, CallStep(c), UNCHANGED schedVars
  PROVE  /\ Grow
         /\ Known' = IF InsertArg(c) THEN Known \cup {pend[c]} ELSE Known
<1>1. /\ workSet' = IF InsertArg(c) THEN workSet \cup {pend[c]} ELSE workSet
      /\ visited' = visited /\ oldWorkSet' = oldWorkSet
  BY StepTables DEF TypeOK, schedVars
<1>2. Known' = IF InsertArg(c) THEN Known \cup {pend[c]} ELSE Known
  BY <1>1 DEF Known
<1>3. /\ faulty \subseteq faulty' /\ recorded \subseteq recorded'
      /\ \A k \in FileKey : linked[k] <= linked'[k]
  BY StepTables DEF TypeOK
<1> QED BY <1>2, <1>3 DEF Grow

(* A step of the call itself; when it was the last, its work is done.      *)
LEMMA StepCallOK ==
  ASSUME TypeOK, TypeOK', NEW c \in Call, CallOK(c), CallStep(c), UNCHANGED schedVars
  PROVE  CallOK(c)' /\ (c \in Running' \/ Sat(own[c], c)')
<1> USE DEF TypeOK, CallTypeOK, LocalsOK, At
<1> DEFINE j == MyJob(c)
           k == MyKey(c)
           x == MyTarget(c)
<1>1. /\ Grow /\ Known \subseteq Known' /\ faulty \subseteq faulty'
      /\ recorded \subseteq recorded'
  BY StepGrows DEF Grow
<1>2. /\ own' = own /\ MyJob(c)' = j /\ MyKey(c)' = k /\ MyTarget(c)' = x
      /\ j \in Job /\ k \in FileKey
  <2>1. own' = own
    BY StepTables
  <2> QED BY <2>1, KeyType DEF MyJob, MyKey, MyTarget, Job
<1>3. linked[k] > 0 => linked'[k] > 0
  BY <1>1, LinkedGrows DEF MyKey
<1>4. CASE CreateEntry(c) \/ BeginAssign(c) \/ EndAssign(c) \/ SkipGeneration(c)
           \/ Generate(c) \/ Emit(c)
  <2>1. pc'[c] \in {"assign", "assigning", "generate", "emit", "read"}
    BY <1>4 DEF CreateEntry, BeginAssign, EndAssign, SkipGeneration, Generate, Emit
  <2> QED BY <2>1 DEF CallOK, Running
<1>5. CASE ReadClean(c)
  <2> DEFINE m == files[MyKey(c)]
  <2>1. Right(j) \in Module /\ Right(j).args = ReadArgs(j)
    BY <1>2, RightType DEF Right
  <2>2. CASE m = Right(j)
    <3>1. /\ pc'[c] = "name" /\ fn' = [fn EXCEPT ![c] = m]
      BY <1>5, <2>1, <2>2, NamesAssumption DEF ReadClean
    <3>2. fn'[c].args = ReadArgs(j)
      BY <2>1, <2>2, <3>1
    <3> QED BY <1>2, <3>1, <3>2 DEF CallOK, Running
  <2>3. CASE m # Right(j)
    <3>1. j \in faulty' /\ pc'[c] \in {"name", "done"}
      BY <1>5, <2>3 DEF ReadClean
    <3> QED BY <1>2, <3>1 DEF CallOK, Running, Sat, MyJob
  <2> QED BY <2>2, <2>3
<1>6. CASE PushName(c)
  <2>1. /\ pc[c] = "name" /\ pc'[c] = "record" /\ fn' = fn /\ faulty' = faulty
        /\ linked' = [linked EXCEPT ![k] = @ + 1]
    BY <1>6 DEF PushName
  <2>2. linked'[k] > 0
    BY <1>2, <2>1
  <2> QED BY <1>2, <2>1, <2>2 DEF CallOK, Running
<1>7. CASE RecordDep(c)
  <2>1. /\ pc[c] = "record" /\ pc'[c] = "push" /\ faulty' = faulty
        /\ todo'[c] = fn[c].args /\ x \in recorded'
    BY <1>7 DEF RecordDep
  <2>2. j \notin faulty => fn[c].args = ReadArgs(j) /\ linked[k] > 0
    BY <2>1 DEF CallOK
  <2>3. Pending(c)' = {}
    BY <2>1 DEF Pending
  <2> HIDE DEF j, k, x
  <2>4. c \in Running'
    BY <2>1 DEF Running
  <2>5. j \notin faulty => /\ todo'[c] \cup Pending(c)' \subseteq ReadArgs(j)
                           /\ Wanted(ReadArgs(j)) \subseteq todo'[c]
    BY <2>1, <2>2, <2>3 DEF Wanted
  <2> QED BY <1>2, <1>3, <2>1, <2>2, <2>4, <2>5 DEF CallOK
<1>8. CASE CheckArg(c)
  <2>1. PICK r \in todo[c] :
          /\ pc[c] = "push"
          /\ pc'[c] = (IF MustPush(r) THEN "insert" ELSE "register")
          /\ todo'[c] = todo[c] \ {r} /\ pend'[c] = r /\ faulty' = faulty
    BY <1>8 DEF CheckArg
  <2>2. Pending(c) = {} /\ Pending(c)' = IF MustPush(r) THEN {r} ELSE {}
    BY <2>1 DEF Pending
  <2>3. MustPush(r) \/ (PushNewTarget => r \in Known')
    BY <1>1 DEF MustPush, Known
  <2>4. pc'[c] = "insert" => PushNewTarget
    BY <2>1 DEF MustPush
  <2>5. c \in Running'
    BY <2>1 DEF Running
  <2> HIDE DEF j, k, x
  <2>6. j \notin faulty =>
          /\ linked[k] > 0 /\ x \in recorded
          /\ todo'[c] \cup Pending(c)' \subseteq ReadArgs(j)
          /\ PushNewTarget => Wanted(ReadArgs(j)) \subseteq Known' \cup todo'[c] \cup Pending(c)'
    <3> SUFFICES ASSUME j \notin faulty PROVE
          /\ linked[k] > 0 /\ x \in recorded
          /\ todo'[c] \cup Pending(c)' \subseteq ReadArgs(j)
          /\ PushNewTarget => Wanted(ReadArgs(j)) \subseteq Known' \cup todo'[c] \cup Pending(c)'
      OBVIOUS
    <3>1. /\ linked[k] > 0 /\ x \in recorded
          /\ todo[c] \subseteq ReadArgs(j)
          /\ PushNewTarget => Wanted(ReadArgs(j)) \subseteq Known \cup todo[c]
      BY <2>1, <2>2 DEF CallOK, j, k, x
    <3>2. Pending(c)' \subseteq {r}
      BY <2>2
    <3> QED BY <1>1, <2>1, <2>2, <2>3, <3>1, <3>2
  <2> QED BY <1>1, <1>2, <1>3, <2>1, <2>4, <2>5, <2>6 DEF CallOK, Wanted
<1>9. CASE InsertArg(c) \/ RegisterArg(c)
  <2>1. /\ pc[c] \in {"insert", "register"} /\ pc'[c] \in {"register", "push"}
        /\ todo' = todo /\ faulty' = faulty
        /\ pc[c] = "insert" => pend[c] \in Known'
    BY <1>9 DEF InsertArg, RegisterArg, WithPushed, Known
  <2>2. /\ Pending(c) = IF pc[c] = "insert" THEN {pend[c]} ELSE {}
        /\ Pending(c)' = {}
    BY <2>1 DEF Pending
  <2> HIDE DEF j, k, x
  <2>3. j \notin faulty =>
          /\ linked[k] > 0 /\ x \in recorded
          /\ todo[c] \subseteq ReadArgs(j)
          /\ PushNewTarget => Wanted(ReadArgs(j)) \subseteq Known' \cup todo[c]
    BY <1>1, <2>1, <2>2 DEF CallOK, j, k, x
  <2> QED BY <1>1, <1>2, <1>3, <2>1, <2>2, <2>3 DEF CallOK, Running, Wanted
<1>10. CASE ReturnCall(c)
  <2>1. /\ pc[c] = "push" /\ pc'[c] = "done" /\ todo[c] = {} /\ faulty' = faulty
    BY <1>10 DEF ReturnCall
  <2>2. j \notin faulty => /\ linked[k] > 0 /\ x \in recorded
                           /\ PushNewTarget => Wanted(ReadArgs(j)) \subseteq Known
    BY <2>1 DEF CallOK, Pending
  <2>3. Sat(own[c], c)'
    BY <1>1, <1>2, <1>3, <2>1, <2>2 DEF Sat, MyJob, MyKey, MyTarget, Wanted
  <2> QED BY <2>1, <2>3 DEF CallOK
<1> QED
  BY <1>4, <1>5, <1>6, <1>7, <1>8, <1>9, <1>10 DEF CallStep
-----------------------------------------------------------------------------
(* The round's bookkeeping.                                                *)
LEMMA InitRounds == Init => Rounds
BY DEF Init, CallInit, IdleLocals, SchedInit, Rounds, CallOK, InSeq, VecsInUse

(* Nothing that Sat speaks of is touched by the main thread within a round.*)
LEMMA SameSat ==
  ASSUME TypeOK, UNCHANGED <<tables, faulty, oldWorkSet>>
  PROVE  /\ Known' = Known /\ Grow
         /\ \A i, c : Sat(i, c)' = Sat(i, c)
         /\ PassOver' = PassOver
<1>1. \A k \in FileKey : linked[k] <= linked'[k]
  <2>1. \A k \in FileKey : linked[k] \in Nat
    BY DEF TypeOK, CallTypeOK
  <2> QED BY <2>1 DEF tables
<1> QED BY <1>1 DEF tables, Known, Grow, Sat, PassOver, Wanted

(* Starting the calls of one target that waits.                            *)
LEMMA SpawnRoundOK ==
  ASSUME TypeOK, RoundOK, NEW t \in Targets, RoundTarget(t),
         StartCalls(Calls(instr, t), instr),
         UNCHANGED <<tables, faulty, oldWorkSet, instr, vecTodo>>,
         localWorkSet' \subseteq localWorkSet,
         \A v \in Vecs : InSeq(v, localWorkVec') => InSeq(v, localWorkVec),
         \A u \in Targets : RoundTarget(u) /\ Waiting(u) => u = t \/ Waiting(u)'
  PROVE  RoundOK'
<1>1. /\ Calls(instr, t) \in SUBSET Call
      /\ \A c \in Calls(instr, t) : c[1] = t
  BY CallsType DEF TypeOK
<1>2. Running' = Running \cup Calls(instr, t)
  BY <1>1, StartRunning DEF TypeOK
<1>3. /\ \A i, c : Sat(i, c)' = Sat(i, c)
      /\ PassOver' = PassOver
  BY SameSat
<1>4. \A u : RoundTarget(u)' = RoundTarget(u)
  BY <1>3 DEF RoundTarget
<1>5. \A c \in Running' : RoundTarget(c[1])' /\ c \in Calls(instr', c[1])
  BY <1>1, <1>2, <1>4 DEF RoundOK
<1>6. ASSUME NEW u \in Targets, RoundTarget(u)
      PROVE  /\ \A i \in Instr : i < instr => \A c \in Calls(i, u) : Sat(i, c)'
             /\ \A c \in Calls(instr, u) : Waiting(u)' \/ c \in Running' \/ Sat(instr, c)'
  <2>1. \A i \in Instr : i < instr => \A c \in Calls(i, u) : Sat(i, c)'
    BY <1>3, <1>6 DEF RoundOK
  <2>2. \A c \in Calls(instr, u) : Waiting(u) \/ c \in Running \/ Sat(instr, c)
    BY <1>6 DEF RoundOK
  <2>3. \A c \in Calls(instr, u) : Sat(instr, c) => Sat(instr, c)'
    BY <1>3
  <2>4. ASSUME NEW c \in Calls(instr, u), Waiting(u) PROVE Waiting(u)' \/ c \in Running'
    BY <1>2, <1>6, <2>4
  <2> QED BY <1>2, <2>1, <2>2, <2>3, <2>4
<1>7. \A u \in Targets : RoundTarget(u)' =>
         /\ \A i \in Instr : i < instr' => \A c \in Calls(i, u) : Sat(i, c)'
         /\ \A c \in Calls(instr', u) : Waiting(u)' \/ c \in Running' \/ Sat(instr, c)'
  BY <1>4, <1>6 DEF Sat
<1> QED BY <1>5, <1>7 DEF RoundOK

LEMMA SpawnCallOK ==
  ASSUME TypeOK, TypeOK', Rounds, NEW C \in SUBSET Call, StartCalls(C, instr),
         UNCHANGED <<tables, faulty, oldWorkSet>>
  PROVE  \A c \in Call : CallOK(c)'
<1> SUFFICES ASSUME NEW c \in Call PROVE CallOK(c)' OBVIOUS
<1>1. CASE c \in C
  BY <1>1 DEF StartCalls, TypeOK, CallTypeOK, CallOK
<1>2. CASE c \notin C
  <2>1. /\ pc'[c] = pc[c] /\ own'[c] = own[c] /\ fn' = fn /\ todo' = todo /\ pend' = pend
    BY <1>2 DEF StartCalls, TypeOK, CallTypeOK
  <2>2. Grow
    BY SameSat
  <2> QED BY <2>1, <2>2, CallOKStays DEF Rounds
<1> QED BY <1>1, <1>2

(* A step of one call.                                                     *)
LEMMA StepRounds ==
  ASSUME TypeOK, TypeOK', Barrier, Rounds, NEW c \in Call, CallStep(c), UNCHANGED schedVars
  PROVE  Rounds'
<1>1. /\ c \in Running /\ Running' \subseteq Running /\ own' = own /\ visited' = visited
      /\ own[c] = instr /\ phase = "spawn"
  BY StepRunning DEF Barrier, StartedOnly, TypeOK
<1>2. /\ Grow
      /\ \A d \in Call \ {c} : /\ pc'[d] = pc[d] /\ todo'[d] = todo[d]
                               /\ pend'[d] = pend[d] /\ fn'[d] = fn[d]
  BY StepGrows, StepTables DEF TypeOK
<1>3. CallOK(c)' /\ (c \in Running' \/ Sat(instr, c)')
  <2>1. CallOK(c) BY DEF Rounds
  <2>2. CallOK(c)' /\ (c \in Running' \/ Sat(own[c], c)')
    BY <2>1, StepCallOK
  <2> QED BY <1>1, <2>2 DEF Sat, schedVars
<1>4. ASSUME NEW d \in Call PROVE CallOK(d)'
  <2>1. CASE d = c BY <1>3, <2>1
  <2>2. CASE d # c
    BY <1>1, <1>2, <2>2, CallOKStays DEF Rounds
  <2> QED BY <2>1, <2>2
<1>5. ASSUME NEW d \in Call \ {c} PROVE d \in Running => d \in Running'
  BY <1>2 DEF Running
<1>6. RoundOK /\ RoundOK'
  <2>1. RoundOK
    BY <1>1 DEF Rounds
  <2>2. \A u : RoundTarget(u)' = RoundTarget(u) /\ Waiting(u)' = Waiting(u)
    BY <1>1 DEF RoundTarget, Waiting, PassOver, schedVars
  <2>3. ASSUME NEW u \in Targets, RoundTarget(u)
        PROVE  /\ \A i \in Instr : i < instr => \A d \in Calls(i, u) : Sat(i, d)'
               /\ \A d \in Calls(instr, u) : Waiting(u) \/ d \in Running' \/ Sat(instr, d)'
    <3>1. \A i \in Instr : Calls(i, u) \subseteq Call
      BY CallsType
    <3>2. \A i \in Instr : i < instr => \A d \in Calls(i, u) : Sat(i, d)'
      BY <1>2, <2>1, <2>3, <3>1, SatStays DEF RoundOK
    <3>3. ASSUME NEW d \in Calls(instr, u)
          PROVE  Waiting(u) \/ d \in Running' \/ Sat(instr, d)'
      <4>1. instr \in Instr /\ d \in Call
        BY <3>1 DEF TypeOK
      <4>2. Waiting(u) \/ d \in Running \/ Sat(instr, d)
        BY <2>1, <2>3 DEF RoundOK
      <4>3. Sat(instr, d) => Sat(instr, d)'
        <5>1. Sat(instr, d) => \A i \in {instr} : Sat(i, d)'
          BY <1>2, <4>1, SatStays
        <5> QED BY <5>1 DEF Sat, schedVars
      <4> QED BY <1>3, <1>5, <4>1, <4>2, <4>3
    <3> QED BY <3>2, <3>3
  <2>4. instr' = instr
    BY DEF schedVars, Sat
  <2>5. \A u \in Targets : RoundTarget(u)' =>
         /\ \A i \in Instr : i < instr' => \A d \in Calls(i, u) : Sat(i, d)'
         /\ \A d \in Calls(instr', u) : Waiting(u)' \/ d \in Running' \/ Sat(instr, d)'
    BY <2>2, <2>3, <2>4
  <2> QED BY <1>1, <2>1, <2>2, <2>4, <2>5 DEF RoundOK, schedVars
<1>7. phase' = "spawn" /\ UNCHANGED vecTodo
  BY <1>1 DEF schedVars
<1> QED BY <1>4, <1>6, <1>7 DEF Rounds
(* When all threads of an instruction are joined its calls have done their *)
(* work, and those of the instructions before it.                          *)
LEMMA JoinedSat ==
  ASSUME TypeOK, Rounds, AllJoined,
         NEW t \in Targets, RoundTarget(t), NEW i \in Instr, i <= instr,
         NEW c \in Calls(i, t)
  PROVE  Sat(i, c)
<1>1. RoundOK /\ Running = {} /\ ~Waiting(t)
  BY DEF AllJoined, AllStarted, Rounds, Waiting, InSeq
<1>2. i < instr \/ i = instr
  BY DEF TypeOK, Instr
<1> QED BY <1>1, <1>2 DEF RoundOK

LEMMA NextRounds ==
  ASSUME TypeOK, TypeOK', Barrier, Rounds, [Next]_vars PROVE Rounds'
<1> USE DEF TypeOK
<1>0. VecsInUse \subseteq Vecs /\ Vecs \subseteq Targets /\ Asvs \subseteq Targets
      /\ Vecs \cap Asvs = {}
  BY ConfigAssumption DEF VecsInUse, Targets
<1>1. CASE BeginRound
  <2>1. /\ Running = {} /\ Running' = {} /\ vecTodo' = vecTodo /\ instr' = 1
        /\ localWorkSet' = workSet /\ oldWorkSet' = workSet /\ localWorkVec' = vecTodo
        /\ phase' = "spawn"
    BY <1>1 DEF BeginRound, Barrier, Running, locals
  <2>2. \A c \in Call : CallOK(c)'
    BY <2>1 DEF Running, CallOK
  <2>3. \A u : RoundTarget(u)' => Waiting(u)'
    BY <2>1 DEF RoundTarget, Waiting
  <2>4. \A i \in Instr : ~(i < instr')
    BY <2>1 DEF Instr
  <2>5. RoundOK'
    BY <2>1, <2>3, <2>4 DEF RoundOK
  <2> QED BY <2>1, <2>2, <2>5 DEF Rounds
<1>2. CASE SkipTarget
  <2>1. PICK t \in localWorkSet \cap PassOver : localWorkSet' = localWorkSet \ {t}
    BY <1>2 DEF SkipTarget, Popped
  <2>2. /\ UNCHANGED <<callVars, phase, instr, oldWorkSet, localWorkVec, vecTodo>>
        /\ phase = "spawn" /\ RoundOK
    BY <1>2 DEF SkipTarget, Rounds
  <2>3. /\ \A u : RoundTarget(u)' = RoundTarget(u)
        /\ \A i, c : Sat(i, c)' = Sat(i, c)
        /\ Running' = Running
    BY <2>2 DEF RoundTarget, Sat, Known, Wanted, PassOver, Running, callVars, tables, locals
  <2>4. \A u \in Targets : RoundTarget(u) /\ Waiting(u) => Waiting(u)'
    <3>1. ~RoundTarget(t)
      BY <1>0, <2>1 DEF RoundTarget, InSeq
    <3> QED BY <2>1, <2>2, <3>1 DEF Waiting
  <2>5. ASSUME NEW u \in Targets, RoundTarget(u)
        PROVE  /\ \A i \in Instr : i < instr => \A c \in Calls(i, u) : Sat(i, c)
               /\ \A c \in Calls(instr, u) : Waiting(u)' \/ c \in Running \/ Sat(instr, c)
    BY <2>2, <2>4, <2>5 DEF RoundOK
  <2>6. /\ \A u \in Targets : RoundTarget(u)' =>
             /\ \A i \in Instr : i < instr' => \A c \in Calls(i, u) : Sat(i, c)'
             /\ \A c \in Calls(instr', u) : Waiting(u)' \/ c \in Running' \/ Sat(instr, c)'
    BY <2>2, <2>3, <2>5 DEF Sat
  <2>7. RoundOK'
    BY <2>1, <2>2, <2>3, <2>6 DEF RoundOK
  <2>8. \A c \in Call : CallOK(c)' = CallOK(c)
    BY <2>2 DEF CallOK, callVars, tables, locals, Known, Pending, MyJob, MyTarget, MyKey
  <2> QED BY <2>2, <2>7, <2>8 DEF Rounds
<1>3. CASE SpawnTarget
  <2>1. PICK t \in localWorkSet \ PassOver :
          localWorkSet' = localWorkSet \ {t} /\ StartCalls(Calls(instr, t), instr)
    BY <1>3 DEF SpawnTarget, ThreadsFor, Popped
  <2>2. /\ UNCHANGED <<tables, faulty, oldWorkSet, instr, vecTodo, localWorkVec, phase>>
        /\ phase = "spawn" /\ RoundOK
    BY <1>3 DEF SpawnTarget, Rounds
  <2>3. t \in Targets /\ RoundTarget(t)
    BY <1>0, <2>1, <2>2 DEF RoundTarget, RoundOK
  <2>4. \A u \in Targets : RoundTarget(u) /\ Waiting(u) => u = t \/ Waiting(u)'
    BY <2>1, <2>2 DEF Waiting
  <2>5. RoundOK'
    BY <2>1, <2>2, <2>3, <2>4, SpawnRoundOK
  <2>6. \A c \in Call : CallOK(c)'
    BY <2>1, <2>2, <2>3, CallsType, SpawnCallOK
  <2> QED BY <2>2, <2>5, <2>6 DEF Rounds
<1>4. CASE SpawnVec
  <2> DEFINE v == localWorkVec[Len(localWorkVec)]
  <2>1. v \in Vecs /\ StartCalls(Calls(instr, v), instr)
    BY <1>4 DEF SpawnVec, ThreadsFor
  <2>2. /\ UNCHANGED <<tables, faulty, oldWorkSet, instr, vecTodo, localWorkSet, phase>>
        /\ phase = "spawn" /\ RoundOK
    BY <1>4 DEF SpawnVec, Rounds
  <2>3. \A u : InSeq(u, localWorkVec) <=> u = v \/ InSeq(u, localWorkVec')
    BY <1>4, InFront DEF SpawnVec
  <2>4. v \in Targets /\ RoundTarget(v)
    BY <1>0, <2>1, <2>2, <2>3 DEF RoundTarget, RoundOK
  <2> HIDE DEF v
  <2>5. \A u \in Targets : RoundTarget(u) /\ Waiting(u) => u = v \/ Waiting(u)'
    BY <2>2, <2>3 DEF Waiting
  <2>6. RoundOK'
    BY <2>1, <2>2, <2>3, <2>4, <2>5, SpawnRoundOK
  <2>7. \A c \in Call : CallOK(c)'
    BY <2>1, <2>2, <2>4, CallsType, SpawnCallOK
  <2> QED BY <2>2, <2>6, <2>7 DEF Rounds
<1>5. CASE NextInstr
  <2>1. /\ Running = {} /\ Running' = {} /\ phase = "spawn" /\ AllJoined
        /\ instr' = instr + 1 /\ instr' \in Instr
        /\ localWorkSet' = oldWorkSet /\ localWorkVec' = vecTodo
        /\ UNCHANGED <<tables, faulty, oldWorkSet, vecTodo, phase>>
    BY <1>5, RetireRunning, InstrsAssumption
    DEF NextInstr, AllJoined, AllStarted, LocalCopy, Instr
  <2>2. \A c \in Call : CallOK(c)'
    BY <2>1 DEF CallOK, Running
  <2>3. /\ \A i, c : Sat(i, c)' = Sat(i, c)
        /\ PassOver' = PassOver
    BY <2>1, SameSat
  <2>4. \A u : RoundTarget(u)' = RoundTarget(u) /\ (RoundTarget(u) => Waiting(u)')
    BY <2>1, <2>3 DEF RoundTarget, Waiting
  <2>5. \A i \in Instr : i < instr' => i <= instr
    BY <2>1 DEF Instr
  <2>6. \A u \in Targets : RoundTarget(u) =>
          \A i \in Instr : i < instr' => \A c \in Calls(i, u) : Sat(i, c)'
    BY <2>1, <2>3, <2>5, JoinedSat
  <2>7. RoundOK'
    BY <2>1, <2>4, <2>6 DEF RoundOK
  <2> QED BY <2>1, <2>2, <2>7 DEF Rounds
<1>6. CASE EndRound
  <2>1. Running' = {} /\ phase' = "loop" /\ vecTodo' = <<>>
    BY <1>6, RetireRunning DEF EndRound, AllJoined
  <2> QED BY <2>1 DEF Rounds, CallOK, Running, InSeq
<1>7. CASE PrintResults
  <2>1. /\ UNCHANGED <<callVars, vecTodo>> /\ phase = "loop" /\ phase' = "printed"
        /\ workSet = {} /\ vecTodo = <<>>
    BY <1>7 DEF PrintResults
  <2>2. Running' = {}
    BY <2>1 DEF callVars, locals, Running, Barrier
  <2> QED BY <2>1, <2>2 DEF Rounds, CallOK, Running, callVars, tables
<1>8. CASE CallNext
  BY <1>8, StepRounds DEF CallNext
<1>9. CASE Crash
  <2>1. /\ \A c \in Call : pc'[c] = "idle"
        /\ phase' = "loop" /\ vecTodo' = AllowedVecs
    BY <1>9 DEF Crash, CallCrash
  <2> QED BY <2>1 DEF Rounds, CallOK, Running, InSeq, VecsInUse
<1>10. CASE UNCHANGED vars
  BY <1>10 DEF vars, callVars, schedVars, tables, locals, Rounds, RoundOK, RoundTarget,
     Waiting, CallOK, Running, Sat, Known, Wanted, PassOver, Pending, MyJob, MyTarget,
     MyKey, InSeq
<1> QED
  BY <1>1, <1>2, <1>3, <1>4, <1>5, <1>6, <1>7, <1>8, <1>9, <1>10
  DEF Next, MainStep
-----------------------------------------------------------------------------
(* Steps that make no record and end no call before its work is done.      *)
LEMMA FrameRecords ==
  ASSUME TypeOK, TypeOK', RecordsOK, Grow, recorded' = recorded, dep' = dep,
         faulty' = faulty,
         Running # {} => phase' = phase /\ instr' = instr /\ Running \subseteq Running'
  PROVE  RecordsOK'
<1> SUFFICES ASSUME NEW x \in recorded
             PROVE  /\ \A c \in Calls(x[1], x[2]) :
                         \/ Sat(x[1], c)'
                         \/ phase' = "spawn" /\ x[1] = instr' /\ c \in Running'
                    /\ \/ HasOwnRecord(x[1], x[2])'
                       \/ \E c \in Calls(x[1], x[2]) : <<x[1], c>> \in faulty'
  BY DEF RecordsOK
<1>1. x[1] \in Instr /\ Calls(x[1], x[2]) \subseteq Call
  BY RecordedType DEF TypeOK
<1>2. HasOwnRecord(x[1], x[2])' = HasOwnRecord(x[1], x[2])
  BY DEF HasOwnRecord
<1>3. ASSUME NEW c \in Calls(x[1], x[2])
      PROVE  Sat(x[1], c)' \/ (phase' = "spawn" /\ x[1] = instr' /\ c \in Running')
  <2>1. CASE Sat(x[1], c)
    BY <1>1, <2>1, SatStays
  <2>2. CASE phase = "spawn" /\ x[1] = instr /\ c \in Running
    BY <2>2
  <2> QED BY <2>1, <2>2 DEF RecordsOK
<1> QED BY <1>2, <1>3 DEF RecordsOK

LEMMA StepRecords ==
  ASSUME TypeOK, TypeOK', Barrier, Rounds, RecordsOK,
         NEW c \in Call, CallStep(c), UNCHANGED schedVars
  PROVE  RecordsOK'
<1>1. /\ c \in Running /\ own[c] = instr /\ phase = "spawn" /\ RoundOK
      /\ phase' = "spawn" /\ instr' = instr /\ instr \in Instr
  BY StepRunning DEF Barrier, StartedOnly, Rounds, TypeOK, schedVars
<1>2. /\ Grow /\ faulty \subseteq faulty'
      /\ \A d \in Call \ {c} : d \in Running => d \in Running'
  BY StepGrows, StepTables DEF TypeOK, Grow, Running
<1>3. c \in Running' \/ Sat(instr, c)'
  <2>1. CallOK(c) BY DEF Rounds
  <2>2. c \in Running' \/ Sat(own[c], c)'
    BY <2>1, StepCallOK
  <2> QED BY <1>1, <2>2, StepTables DEF Sat, TypeOK
<1>4. ASSUME NEW i \in Instr, NEW d \in Call, i = instr,
             d \in Running \/ Sat(i, d)
      PROVE  d \in Running' \/ Sat(i, d)'
  <2>1. CASE d = c
    BY <1>1, <1>3, <1>4, <2>1 DEF Sat
  <2>2. CASE d # c
    BY <1>2, <1>4, <2>2, SatStays
  <2> QED BY <2>1, <2>2
<1>5. MyTarget(c) = <<instr, c[1]>> /\ c[1] \in Targets /\ c \in Calls(instr, c[1])
  BY <1>1 DEF MyTarget, Call, RoundOK
<1>6. ASSUME NEW x \in recorded'
      PROVE  \A d \in Calls(x[1], x[2]) :
               Sat(x[1], d)' \/ (phase' = "spawn" /\ x[1] = instr' /\ d \in Running')
  <2>1. x[1] \in Instr /\ Calls(x[1], x[2]) \subseteq Call
    <3>1. x[1] \in Instr /\ x[2] \in Targets
      BY DEF TypeOK, CallTypeOK
    <3> QED BY <3>1, CallsType
  <2>2. CASE x \in recorded
    BY <1>1, <1>2, <1>4, <2>1, <2>2, SatStays DEF RecordsOK
  <2>3. CASE x \notin recorded
    <3>1. x = <<instr, c[1]>>
      BY <1>5, <2>3, StepDep DEF RecordDep, TypeOK
    <3>2. \A d \in Calls(instr, c[1]) : Waiting(c[1]) \/ d \in Running \/ Sat(instr, d)
      BY <1>1, <1>5 DEF RoundOK
    <3>3. ~Waiting(c[1])
      BY <1>1 DEF Barrier, StartedOnly, Waiting, InSeq
    <3> QED BY <1>1, <1>4, <2>1, <3>1, <3>2, <3>3
  <2> QED BY <2>2, <2>3
<1>7. ASSUME NEW x \in recorded'
      PROVE  \/ HasOwnRecord(x[1], x[2])'
             \/ \E d \in Calls(x[1], x[2]) : <<x[1], d>> \in faulty'
  <2>1. CASE x \in recorded
    <3>1. x = <<x[1], x[2]>>
      BY <2>1, RecordedType DEF TypeOK
    <3>2. dep'[x] = dep[x]
      BY <2>1, StepDep DEF TypeOK
    <3> QED BY <1>2, <2>1, <3>1, <3>2 DEF RecordsOK, HasOwnRecord
  <2>2. CASE x \notin recorded
    <3>1. RecordDep(c) /\ x = MyTarget(c)
      BY <2>2, StepDep DEF RecordDep, TypeOK
    <3>2. dep'[x] = fn[c].args /\ pc[c] = "record" /\ faulty' = faulty
      BY <1>5, <2>2, <3>1 DEF RecordDep, FirstArgs, At, TypeOK, CallTypeOK
    <3>3. <<instr, c>> \in faulty \/ dep'[x] = ReadArgs(<<instr, c>>)
      BY <1>1, <3>2 DEF Rounds, CallOK, MyJob
    <3>4. x = <<instr, c[1]>>
      BY <1>5, <3>1
    <3> QED BY <1>5, <3>2, <3>3, <3>4 DEF HasOwnRecord
  <2> QED BY <2>1, <2>2
<1> QED BY <1>6, <1>7 DEF RecordsOK

LEMMA InitRecords == Init => RecordsOK
BY DEF Init, CallInit, RecordsOK

(* What is known changes only by InsertArg and with a killed process, and  *)
(* by the registers of a vector that has been worked on.                   *)
LEMMA MainKnown ==
  ASSUME TypeOK, Barrier, MainStep
  PROVE  /\ Known' = IF EndRound THEN Known \cup RoundTargets ELSE Known
         /\ visited' = IF EndRound THEN visited \cup RoundTargets ELSE visited
         /\ faulty' = faulty /\ recorded' = recorded /\ dep' = dep /\ Grow
<1>1. /\ linked' = linked /\ recorded' = recorded /\ dep' = dep /\ faulty' = faulty
  BY DEF MainStep, BeginRound, SkipTarget, SpawnTarget, SpawnVec, NextInstr, EndRound,
     PrintResults, callVars, tables
<1>2. \A k \in FileKey : linked[k] <= linked'[k]
  <2>1. \A k \in FileKey : linked[k] \in Nat
    BY DEF TypeOK, CallTypeOK
  <2> QED BY <1>1, <2>1
<1>3. CASE EndRound
  <2>1. Known' = Known \cup RoundTargets /\ visited' = visited \cup RoundTargets
    BY <1>3 DEF EndRound, Known, RoundTargets
  <2> QED BY <1>1, <1>2, <1>3, <2>1 DEF Grow
<1>4. CASE ~EndRound
  <2>1. Known' = Known /\ visited' = visited
    BY <1>4 DEF MainStep, BeginRound, SkipTarget, SpawnTarget, SpawnVec, NextInstr,
       PrintResults, callVars, tables, Known, Barrier
  <2> QED BY <1>1, <1>2, <1>4, <2>1 DEF Grow
<1> QED BY <1>3, <1>4

LEMMA NextRecords ==
  ASSUME TypeOK, TypeOK', Barrier, Rounds, RecordsOK, [Next]_vars PROVE RecordsOK'
<1>1. CASE MainStep
  <2>1. faulty' = faulty /\ recorded' = recorded /\ dep' = dep /\ Grow
    BY <1>1, MainKnown
  <2>2. Running # {} => phase' = phase /\ instr' = instr /\ Running \subseteq Running'
    <3> SUFFICES ASSUME Running # {}
                 PROVE  phase' = phase /\ instr' = instr /\ Running \subseteq Running'
      OBVIOUS
    <3>1. phase = "spawn" /\ ~NextInstr /\ ~EndRound
      BY DEF Barrier, NextInstr, EndRound, AllJoined
    <3>2. CASE SkipTarget
      BY <3>2 DEF SkipTarget, callVars, locals, Running
    <3>3. CASE SpawnTarget
      BY <3>3 DEF SpawnTarget, StartCalls, Running, TypeOK, CallTypeOK
    <3>4. CASE SpawnVec
      BY <3>4 DEF SpawnVec, StartCalls, Running, TypeOK, CallTypeOK
    <3> QED BY <1>1, <3>1, <3>2, <3>3, <3>4 DEF MainStep, BeginRound, PrintResults
  <2> QED BY <2>1, <2>2, FrameRecords
<1>2. CASE CallNext
  BY <1>2, StepRecords DEF CallNext
<1>3. CASE Crash
  BY <1>3 DEF Crash, CallCrash, RecordsOK
<1>4. CASE UNCHANGED vars
  <2>1. UNCHANGED <<tables, faulty, oldWorkSet>> /\ Running' = Running
        /\ phase' = phase /\ instr' = instr /\ recorded' = recorded /\ dep' = dep
        /\ faulty' = faulty
    BY <1>4 DEF vars, callVars, schedVars, tables, locals, Running
  <2> QED BY <2>1, SameSat, FrameRecords
<1> QED BY <1>1, <1>2, <1>3, <1>4 DEF Next
-----------------------------------------------------------------------------
(* The steps that matter, seen from DepClosure: a register is found ...    *)
LEMMA InsertedIsDep ==
  ASSUME TypeOK, Barrier, Rounds, NEW c \in Call, InsertArg(c), faulty = {}
  PROVE  /\ c[1] \in Targets /\ RoundTarget(c[1])
         /\ pend[c] \in Deps(c[1])
<1>1. c \in Running /\ own[c] = instr /\ instr \in Instr /\ pc[c] = "insert"
  BY DEF InsertArg, At, Running, Barrier, StartedOnly, TypeOK
<1>2. c \in Calls(instr, c[1]) /\ RoundTarget(c[1]) /\ CallOK(c) /\ c[1] \in Targets
  BY <1>1 DEF Barrier, Rounds, RoundOK, Call
<1>3. PushNewTarget /\ pend[c] \in ReadArgs(<<instr, c>>)
  BY <1>1, <1>2 DEF CallOK, Pending, MyJob
<1>4. ReadArgs(<<instr, c>>) \in {ReadArgs(<<instr, d>>) : d \in Calls(instr, c[1])}
  BY <1>2
<1> QED BY <1>1, <1>2, <1>3, <1>4 DEF Deps

(* ... by a target that is known and not yet done, or by a vector; ...     *)
LEMMA RoundTargetEligible ==
  ASSUME TypeOK, Rounds, NEW t \in Targets, RoundTarget(t)
  PROVE  \/ t \in Asvs /\ t \in Wanted(Known) /\ t \notin Wanted(visited)
         \/ t \in Vecs /\ t \in VecsInUse
BY ConfigAssumption DEF RoundTarget, Rounds, Known, Wanted, PassOver, TypeOK, InSeq

(* ... and when a round ends, all its targets depend on is known.          *)
LEMMA SatDeps ==
  ASSUME NEW t \in Targets, faulty = {},
         \A i \in Instr : \A c \in Calls(i, t) : Sat(i, c)
  PROVE  WantedDeps(t) \subseteq Known
<1>1. CASE PushNewTarget
  <2>1. \A i \in Instr : \A c \in Calls(i, t) : Wanted(ReadArgs(<<i, c>>)) \subseteq Known
    BY <1>1 DEF Sat
  <2> SUFFICES ASSUME NEW r \in WantedDeps(t) PROVE r \in Known
    OBVIOUS
  <2>2. PICK i \in Instr : r \in UNION {ReadArgs(<<i, c>>) : c \in Calls(i, t)}
    BY <1>1 DEF WantedDeps, Deps, Wanted
  <2>3. PICK c \in Calls(i, t) : r \in ReadArgs(<<i, c>>)
    BY <2>2
  <2>4. r \notin Skipped
    BY DEF WantedDeps, Wanted
  <2> QED BY <2>1, <2>3, <2>4 DEF Wanted
<1>2. CASE ~PushNewTarget
  BY <1>2 DEF WantedDeps, Deps, Wanted
<1> QED BY <1>1, <1>2

LEMMA EndRoundSat ==
  ASSUME TypeOK, Rounds, EndRound, NEW t \in Targets, RoundTarget(t)
  PROVE  \A i \in Instr : \A c \in Calls(i, t) : Sat(i, c)
<1>1. AllJoined /\ \A i \in Instr : i <= instr
  BY InstrsAssumption DEF EndRound, Instr
<1> QED BY <1>1, JoinedSat

(* A register of the round is one of its targets, was passed over or is    *)
(* covered by one of its vectors.                                          *)
LEMMA OfRound ==
  ASSUME NEW t \in RoundTargets
  PROVE  \/ t \in PassOver \/ RoundTarget(t)
         \/ \E v : InSeq(v, vecTodo) /\ t \in VecRegs[v]
BY DEF RoundTargets, RoundTarget, InSeq

LEMMA RoundTargetsType ==
  ASSUME TypeOK
  PROVE  /\ RoundTargets \subseteq Asvs
         /\ \A v : InSeq(v, vecTodo) => v \in Vecs /\ RoundTarget(v) /\ v \in Targets
                                        /\ VecRegs[v] \subseteq RoundTargets
BY ConfigAssumption DEF TypeOK, RoundTargets, RoundTarget, InSeq, Targets

LEMMA StepImplements ==
  ASSUME TypeOK, Barrier, Rounds, [Next]_vars
  PROVE  [Closure!CNext]_(Closure!cvars)
<1> USE DEF Closure!CNext, Closure!cvars
<1>1. CASE MainStep /\ ~EndRound
  BY <1>1, MainKnown DEF Wanted
<1>2. CASE EndRound
  <2> DEFINE T == Wanted(RoundTargets) \ visited
  <2>1. /\ Known' = Known \cup RoundTargets /\ visited' = visited \cup RoundTargets
        /\ faulty' = faulty
    BY <1>2, MainKnown DEF MainStep
  <2>2. RoundTargets \subseteq Asvs /\ visited \subseteq Known /\ Asvs \subseteq Targets
    BY RoundTargetsType DEF Known, Targets
  <2>3. ASSUME faulty = {}, NEW u \in Targets, RoundTarget(u)
        PROVE  WantedDeps(u) \subseteq Wanted(Known)
    <3>1. WantedDeps(u) \subseteq Known
      BY <1>2, <2>3, EndRoundSat, SatDeps
    <3> QED BY <3>1 DEF WantedDeps, Wanted
  <2>4. ASSUME faulty = {}, NEW t \in T PROVE Closure!Finished(t)
    <3>1. t \notin PassOver /\ t \in RoundTargets /\ t \in Targets
      BY <2>2 DEF PassOver, Wanted
    <3>2. CASE RoundTarget(t)
      <4>1. t \in Wanted(Known)
        BY <2>2, <3>1, <3>2, RoundTargetEligible, ConfigAssumption
      <4> QED BY <2>3, <2>4, <3>1, <3>2, <4>1 DEF Closure!Finished
    <3>3. CASE \E v : InSeq(v, vecTodo) /\ t \in VecRegs[v]
      <4>1. PICK v : InSeq(v, vecTodo) /\ t \in VecRegs[v]
        BY <3>3
      <4>2. v \in Targets /\ RoundTarget(v) /\ v \in VecsInUse
        BY <4>1, RoundTargetsType DEF Rounds
      <4>3. t \in WantedVecRegs(v)
        BY <3>1, <4>1 DEF WantedVecRegs, Wanted, PassOver
      <4> QED BY <2>3, <2>4, <4>2, <4>3 DEF Closure!Finished
    <3> QED BY <3>1, <3>2, <3>3, OfRound
  <2>5. /\ Wanted(Known)' = Wanted(Known) \cup T /\ Wanted(visited)' = Wanted(visited) \cup T
        /\ T \in SUBSET Asvs
    BY <2>1, <2>2 DEF Wanted
  <2> HIDE DEF T
  <2>6. Closure!Complete(T)
    BY <2>1, <2>4, <2>5 DEF Closure!Complete
  <2> QED BY <2>5, <2>6
<1>3. CASE CallNext
  <2>1. PICK c \in Call : CallStep(c) /\ UNCHANGED schedVars
    BY <1>3 DEF CallNext
  <2>2. /\ Known' = IF InsertArg(c) THEN Known \cup {pend[c]} ELSE Known
        /\ visited' = visited
        /\ faulty' = faulty \/ (ReadClean(c) /\ faulty' = faulty \cup {MyJob(c)})
    BY <2>1, StepGrows, StepTables DEF TypeOK
  <2>3. CASE InsertArg(c)
    <3>1. faulty' = faulty
      BY <2>3 DEF InsertArg
    <3>2. CASE pend[c] \in Skipped
      BY <2>2, <2>3, <3>1, <3>2 DEF Wanted
    <3>3. CASE pend[c] \notin Skipped
      <4>1. pend[c] \in Asvs
        BY <2>3 DEF InsertArg, At, TypeOK, CallTypeOK, LocalsOK
      <4>2. Wanted(Known)' = Wanted(Known) \cup {pend[c]} /\ Wanted(visited)' = Wanted(visited)
        BY <2>2, <2>3, <3>3 DEF Wanted
      <4>3. faulty # {} \/ \E t \in Asvs \cup VecsInUse :
                             Closure!Eligible(t) /\ pend[c] \in WantedDeps(t)
        <5>1. CASE faulty = {}
          <6>1. /\ c[1] \in Targets /\ RoundTarget(c[1])
                /\ pend[c] \in WantedDeps(c[1])
            BY <2>3, <3>3, <5>1, InsertedIsDep DEF WantedDeps, Wanted
          <6>2. c[1] \in Asvs \cup VecsInUse /\ Closure!Eligible(c[1])
            BY <6>1, RoundTargetEligible DEF Closure!Eligible
          <6> QED BY <6>1, <6>2
        <5> QED BY <5>1
      <4>4. Closure!Discover(pend[c])
        BY <3>1, <4>2, <4>3 DEF Closure!Discover
      <4> QED BY <4>1, <4>4
    <3> QED BY <3>2, <3>3
  <2>4. CASE ~InsertArg(c)
    <3>1. Wanted(Known)' = Wanted(Known) /\ Wanted(visited)' = Wanted(visited)
      BY <2>2, <2>4 DEF Wanted
    <3> QED BY <2>2, <3>1 DEF Closure!Degrade
  <2> QED BY <2>3, <2>4
<1>4. CASE Crash
  <2>1. /\ workSet' = InitialWork /\ visited' = {} /\ faulty' = {} /\ oldWorkSet' = {}
    BY <1>4 DEF Crash, CallCrash
  <2>2. Known' = InitialWork
    BY <2>1 DEF Known
  <2>3. Closure!Restart
    BY <2>1, <2>2 DEF Closure!Restart, Wanted
  <2> QED BY <2>3
<1>5. CASE UNCHANGED vars
  BY <1>5 DEF vars, callVars, schedVars, tables, Known, Wanted
<1> QED BY <1>1, <1>2, <1>3, <1>4, <1>5 DEF Next

(* The multi-threaded schedule implements DepClosure, whatever the order   *)
(* its threads run in: a register enters a round only when it is one of    *)
(* the first targets or a function of an unfinished target depends on it,  *)
(* and a round ends only when all its targets depend on is known.          *)
THEOREM ParImplementsClosure == Spec => ImplementsClosure
<1>1. Init => Closure!CInit
  BY DEF Init, CallInit, SchedInit, Closure!CInit, Known, Wanted
<1> QED
  BY <1>1, StepImplements, InitTypeOK, NextTypeOK, InitBarrier, NextBarrier,
     InitRounds, NextRounds, PTL DEF Spec, ImplementsClosure, Closure!CSpec
-----------------------------------------------------------------------------
(* What is known, and what is done.                                        *)
LEMMA InitClosed == Init => Closed
<1> SUFFICES ASSUME Init PROVE Closed OBVIOUS
<1>1. visited = {} /\ Known = InitialWork
  BY DEF Init, CallInit, SchedInit, Known
<1>2. \A v \in VecsInUse : VecDone(v)
  BY DEF Init, SchedInit, VecDone, InSeq, VecsInUse
<1> QED BY <1>1, <1>2 DEF Closed, Wanted, IsClosed

(* Nothing is lost when what is known grows and no vector leaves the list. *)
LEMMA GrowClosed ==
  ASSUME TypeOK, TypeOK', Closed, Grow, visited' = visited, vecTodo' = vecTodo,
         faulty = {} => \A T \in SUBSET Asvs : IsClosed(T) => Wanted(Known)' \subseteq T
  PROVE  Closed'
<1>1. Wanted(InitialWork) \subseteq Known'
  BY DEF Closed, Grow
<1>2. ASSUME NEW t \in Wanted(visited)
      PROVE  Covered(t) \/ \A i \in Instr : \A c \in Calls(i, t) : Sat(i, c)'
  <2>1. t \in Targets
    BY DEF Wanted, TypeOK, CallTypeOK, Targets
  <2>2. \A i \in Instr : Calls(i, t) \subseteq Call
    BY <2>1, CallsType
  <2> QED BY <2>2, SatStays DEF Closed
<1>3. ASSUME faulty' = {}
      PROVE  /\ \A v \in VecsInUse : VecDone(v)'
             /\ \A T \in SUBSET Asvs : IsClosed(T) => Wanted(Known)' \subseteq T
  <2>1. faulty = {}
    BY <1>3 DEF Grow
  <2>2. \A v \in VecsInUse : VecDone(v)'
    BY <2>1 DEF Closed, VecDone, Grow
  <2> QED BY <2>1, <2>2
<1> QED BY <1>1, <1>2, <1>3 DEF Closed, Wanted, Covered

LEMMA NextClosed ==
  ASSUME TypeOK, TypeOK', Barrier, Rounds, Closed, [Next]_vars PROVE Closed'
<1>1. CASE EndRound
  <2>1. /\ Known' = Known \cup RoundTargets /\ visited' = visited \cup RoundTargets
        /\ faulty' = faulty /\ Grow
    BY <1>1, MainKnown DEF MainStep
  <2>2. /\ RoundTargets \subseteq Asvs /\ Asvs \subseteq Targets
        /\ \A v : InSeq(v, vecTodo) => /\ v \in Vecs /\ RoundTarget(v) /\ v \in Targets
                                       /\ VecRegs[v] \subseteq RoundTargets
        /\ \A v \in Vecs : InSeq(v, vecTodo) => v \in VecsInUse
    BY RoundTargetsType DEF Targets, Rounds
  <2>3. ASSUME NEW t \in Wanted(visited)'
        PROVE  Covered(t) \/ \A i \in Instr : \A c \in Calls(i, t) : Sat(i, c)'
    <3>1. /\ t \in visited \/ t \in RoundTargets
          /\ t \in Targets /\ t \notin Skipped
      BY <2>1, <2>2 DEF Wanted, TypeOK, CallTypeOK
    <3>2. \A i \in Instr : Calls(i, t) \subseteq Call
      BY <3>1, CallsType
    <3>3. ASSUME ~Covered(t) PROVE \A i \in Instr : \A c \in Calls(i, t) : Sat(i, c)
      <4>1. CASE t \in visited
        BY <3>1, <3>3, <4>1 DEF Closed, Wanted
      <4>2. CASE t \notin visited
        <5>1. RoundTarget(t)
          <6>1. t \notin PassOver
            BY <3>1, <4>2 DEF PassOver
          <6>2. \A v : InSeq(v, vecTodo) => t \notin VecRegs[v]
            BY <2>2, <3>3 DEF Covered
          <6> QED BY <3>1, <4>2, <6>1, <6>2, OfRound
        <5> QED BY <1>1, <3>1, <5>1, EndRoundSat
      <4> QED BY <4>1, <4>2
    <3> QED BY <2>1, <3>2, <3>3, SatStays
  <2>4. ASSUME faulty = {}, NEW v \in VecsInUse PROVE VecDone(v)'
    <3>1. CASE InSeq(v, vecTodo)
      <4>1. v \in Targets /\ RoundTarget(v) /\ VecRegs[v] \subseteq RoundTargets
        BY <2>2, <3>1
      <4>2. WantedDeps(v) \subseteq Known
        BY <1>1, <2>4, <4>1, EndRoundSat, SatDeps
      <4> QED BY <2>1, <4>1, <4>2 DEF VecDone, WantedVecRegs, Wanted
    <3>2. CASE ~InSeq(v, vecTodo)
      BY <2>1, <2>4, <3>2 DEF Closed, VecDone
    <3> QED BY <3>1, <3>2
  <2>5. ASSUME faulty = {}, NEW T \in SUBSET Asvs, IsClosed(T)
        PROVE  Wanted(Known)' \subseteq T
    <3>1. Wanted(Known) \subseteq T
      BY <2>5 DEF Closed
    <3>2. Wanted(RoundTargets) \subseteq T
      <4>1. oldWorkSet \subseteq Known
        BY DEF Known
      <4>2. \A k \in DOMAIN vecTodo : Wanted(VecRegs[vecTodo[k]]) \subseteq T
        <5>1. \A k \in DOMAIN vecTodo : vecTodo[k] \in VecsInUse
          BY <2>2 DEF InSeq
        <5> QED BY <2>5, <5>1 DEF IsClosed, WantedVecRegs
      <4> QED BY <3>1, <4>1, <4>2 DEF RoundTargets, Wanted
    <3> QED BY <2>1, <3>1, <3>2 DEF Wanted
  <2>6. Wanted(InitialWork) \subseteq Known'
    BY <2>1 DEF Closed
  <2> QED BY <2>1, <2>3, <2>4, <2>5, <2>6 DEF Closed, Wanted, Covered
<1>2. CASE MainStep /\ ~EndRound
  <2>1. Known' = Known /\ visited' = visited /\ Grow
    BY <1>2, MainKnown
  <2>2. vecTodo' = vecTodo
    BY <1>2 DEF MainStep, BeginRound, SkipTarget, SpawnTarget, SpawnVec, NextInstr,
       PrintResults
  <2>3. faulty = {} => \A T \in SUBSET Asvs : IsClosed(T) => Wanted(Known)' \subseteq T
    BY <2>1 DEF Closed, Wanted
  <2> QED BY <2>1, <2>2, <2>3, GrowClosed
<1>3. CASE CallNext
  <2>1. PICK c \in Call : CallStep(c) /\ UNCHANGED schedVars
    BY <1>3 DEF CallNext
  <2>2. /\ Known' = IF InsertArg(c) THEN Known \cup {pend[c]} ELSE Known
        /\ Grow /\ visited' = visited /\ vecTodo' = vecTodo
    BY <2>1, StepGrows, StepTables DEF TypeOK, schedVars
  <2>3. ASSUME faulty = {}, NEW T \in SUBSET Asvs, IsClosed(T)
        PROVE  Wanted(Known)' \subseteq T
    <3>1. Wanted(Known) \subseteq T
      BY <2>3 DEF Closed
    <3>2. CASE InsertArg(c)
      <4>1. c[1] \in Targets /\ RoundTarget(c[1]) /\ pend[c] \in Deps(c[1])
        BY <2>3, <3>2, InsertedIsDep
      <4>2. WantedDeps(c[1]) \subseteq T
        BY <2>3, <3>1, <4>1, RoundTargetEligible DEF IsClosed
      <4> QED BY <2>2, <3>1, <3>2, <4>1, <4>2 DEF WantedDeps, Wanted
    <3>3. CASE ~InsertArg(c)
      BY <2>2, <3>1, <3>3 DEF Wanted
    <3> QED BY <3>2, <3>3
  <2> QED BY <2>2, <2>3, GrowClosed
<1>4. CASE Crash
  <2>1. /\ workSet' = InitialWork /\ visited' = {} /\ oldWorkSet' = {}
        /\ vecTodo' = AllowedVecs
    BY <1>4 DEF Crash, CallCrash
  <2>2. Known' = InitialWork
    BY <2>1 DEF Known
  <2>3. \A v \in VecsInUse : VecDone(v)'
    BY <2>1 DEF VecDone, InSeq, VecsInUse
  <2> QED BY <2>1, <2>2, <2>3 DEF Closed, Wanted, IsClosed
<1>5. CASE UNCHANGED vars
  <2>1. UNCHANGED <<tables, faulty, oldWorkSet>> /\ visited' = visited /\ vecTodo' = vecTodo
    BY <1>5 DEF vars, callVars, schedVars, tables
  <2>2. Known' = Known /\ Grow
    BY <2>1, SameSat
  <2>3. faulty = {} => \A T \in SUBSET Asvs : IsClosed(T) => Wanted(Known)' \subseteq T
    BY <2>2 DEF Closed, Wanted
  <2> QED BY <2>1, <2>2, <2>3, GrowClosed
<1> QED BY <1>1, <1>2, <1>3, <1>4, <1>5 DEF Next, MainStep

(* When the results are printed and no call went wrong, the registers      *)
(* worked on are exactly the closure of the first targets, in whatever     *)
(* order the threads found them.                                           *)
THEOREM ParVisitedIsClosure == Spec => []VisitedIsClosure
<1>1. TypeOK /\ Barrier /\ Rounds /\ Closed => VisitedIsClosure
  <2> SUFFICES ASSUME TypeOK, Barrier, Rounds, Closed, phase = "printed", faulty = {}
               PROVE  CoversExactly(Wanted(visited))
    BY DEF VisitedIsClosure
  <2>1. Known = visited /\ \A v : ~InSeq(v, vecTodo)
    BY DEF Barrier, Rounds, Known, InSeq
  <2>2. \A S : Wanted(S) \subseteq Known => Wanted(S) \subseteq Wanted(visited)
    BY <2>1 DEF Wanted
  <2>3. \A v \in VecsInUse : WantedVecRegs(v) \cup WantedDeps(v) \subseteq Known
    BY <2>1 DEF Closed, VecDone
  <2>4. \A v \in VecsInUse : WantedVecRegs(v) \cup WantedDeps(v) \subseteq Wanted(visited)
    BY <2>2, <2>3 DEF WantedVecRegs, WantedDeps
  <2>5. ASSUME NEW t \in Wanted(visited), ~Covered(t)
        PROVE  WantedDeps(t) \subseteq Wanted(visited)
    <3>1. t \in Targets /\ \A i \in Instr : \A c \in Calls(i, t) : Sat(i, c)
      BY <2>5 DEF Closed, Wanted, TypeOK, CallTypeOK, Targets
    <3>2. WantedDeps(t) \subseteq Known
      BY <3>1, SatDeps
    <3> QED BY <2>2, <3>2 DEF WantedDeps
  <2>6. Wanted(InitialWork) \subseteq Wanted(visited)
    BY <2>2 DEF Closed
  <2>7. \A T \in SUBSET Asvs : IsClosed(T) => Wanted(visited) \subseteq T
    BY <2>1 DEF Closed
  <2> QED BY <2>4, <2>5, <2>6, <2>7 DEF CoversExactly, Covered
<1> QED
  BY <1>1, InitTypeOK, NextTypeOK, InitBarrier, NextBarrier, InitRounds, NextRounds,
     InitClosed, NextClosed, PTL DEF Spec

(* A visited register has, for every instruction, the arguments of one of  *)
(* its own functions on record, unless one of its jobs went wrong or a     *)
(* vector stands for it: no target is crossed off before its functions are *)
(* in asv_info and func_info.                                              *)
THEOREM ParVisitedIsRecorded == Spec => []VisitedIsRecorded
<1>1. TypeOK /\ RecordsOK /\ Closed => VisitedIsRecorded
  <2> SUFFICES ASSUME TypeOK, RecordsOK, Closed, NEW t \in Wanted(visited), NEW i \in Instr
               PROVE  RecordedUnlessFaulty(i, t)
    BY DEF VisitedIsRecorded
  <2>1. CASE <<i, t>> \in recorded
    BY <2>1 DEF RecordsOK, RecordedUnlessFaulty
  <2>2. CASE <<i, t>> \notin recorded /\ Covered(t)
    BY <2>2 DEF Covered, RecordedUnlessFaulty
  <2>3. CASE <<i, t>> \notin recorded /\ ~Covered(t)
    <3>1. t \in Targets
      BY DEF Wanted, TypeOK, CallTypeOK, Targets
    <3>2. PICK c \in Calls(i, t) : Sat(i, c)
      BY <2>3, <3>1, CallsNonEmpty DEF Closed
    <3>3. c[1] = t
      BY <3>1, CallsType
    <3> QED BY <2>3, <3>2, <3>3 DEF Sat, RecordedUnlessFaulty
  <2> QED BY <2>1, <2>2, <2>3
<1> QED
  BY <1>1, InitTypeOK, NextTypeOK, InitBarrier, NextBarrier, InitRounds, NextRounds,
     InitRecords, NextRecords, InitClosed, NextClosed, PTL DEF Spec
-----------------------------------------------------------------------------
(* The files, for designs without two targets that share them.             *)
LEMMA InitLinks == Init => LinksOK
<1> SUFFICES ASSUME Init PROVE LinksOK OBVIOUS
<1>1. \A c \in Call : pc[c] = "idle"
  BY DEF Init, CallInit, IdleLocals
<1>2. \A i \in Instr : \A c \in Call : linked[Key(i, c)] = 0
  BY KeyType DEF Init, CallInit
<1> QED BY <1>1, <1>2 DEF LinksOK, OneLink, BeforeName

(* The main thread touches no file; it takes targets off the lists and     *)
(* starts calls whose names are not in the list.                           *)
LEMMA FrameLinks ==
  ASSUME TypeOK, TypeOK', LinksOK, UNCHANGED <<linked, published, faulty>>,
         \A i \in Instr : \A t \in Targets : ToCall(i, t)' => ToCall(i, t),
         \A c \in Call : pc'[c] \in BeforeName =>
            \/ pc'[c] = pc[c] /\ own'[c] = own[c]
            \/ pc'[c] = "create" /\ ToCall(own'[c], c[1])
  PROVE  LinksOK'
<1>1. \A c \in Call : c[1] \in Targets
  BY DEF Call
<1>2. \A c \in Call : pc'[c] = "create" /\ ToCall(own'[c], c[1]) => linked[Key(own'[c], c)] = 0
  BY DEF LinksOK, TypeOK, CallTypeOK
<1>3. OneLink'
  BY <1>2, FrameOneLink DEF LinksOK, TypeOK
<1> QED BY <1>1, <1>3 DEF LinksOK

LEMMA CallLinks ==
  ASSUME DistinctFiles, TypeOK, TypeOK', Barrier, Rounds, LinksOK,
         NEW c \in Call, CallStep(c), UNCHANGED schedVars
  PROVE  LinksOK'
<1> USE DEF TypeOK
<1>1. /\ c \in Running /\ own[c] = instr /\ phase = "spawn"
      /\ visited' = visited /\ RoundOK
  BY StepRunning DEF Barrier, StartedOnly, Rounds
<1>2. /\ OneLink'
      /\ \A i \in Instr : \A d \in Call :
           <<i, d>> # MyJob(c) => linked'[Key(i, d)] = linked[Key(i, d)]
  BY StepLinks DEF LinksOK
<1>3. \A i, t : ToCall(i, t)' = ToCall(i, t)
  BY <1>1 DEF ToCall, RoundTarget, Waiting, PassOver, schedVars
<1>4. ~ToCall(instr, c[1])
  <2>1. RoundTarget(c[1]) /\ ~Waiting(c[1])
    BY <1>1 DEF Barrier, StartedOnly, RoundOK, Waiting, InSeq
  <2>2. ~(instr < instr)
    BY DEF Instr
  <2> QED BY <1>1, <2>1, <2>2 DEF ToCall
<1>5. \A i \in Instr : \A d \in Call : <<i, d>> = MyJob(c) => i = instr /\ d = c
  BY <1>1 DEF MyJob
<1> QED BY <1>2, <1>3, <1>4, <1>5 DEF LinksOK

LEMMA NextLinks ==
  ASSUME DistinctFiles, TypeOK, TypeOK', Barrier, Rounds, LinksOK, [Next]_vars
  PROVE  LinksOK'
<1> USE DEF TypeOK
<1>0. Vecs \cap Asvs = {} /\ Vecs \subseteq Targets /\ Asvs \subseteq Targets
  BY ConfigAssumption DEF Targets
<1>1. CASE BeginRound \/ PrintResults
  <2>1. UNCHANGED <<linked, published, faulty, visited, vecTodo, pc, own>> /\ phase = "loop"
    BY <1>1 DEF BeginRound, PrintResults, callVars, tables, disk, locals
  <2>2. \A i \in Instr : \A t \in Targets : ToCall(i, t)' => ToCall(i, t)
    BY <2>1 DEF ToCall
  <2> QED BY <2>1, <2>2, FrameLinks
<1>2. CASE SkipTarget
  <2>1. PICK t \in localWorkSet \cap PassOver : localWorkSet' = localWorkSet \ {t}
    BY <1>2 DEF SkipTarget, Popped
  <2>2. /\ UNCHANGED <<linked, published, faulty, visited, vecTodo, pc, own, phase, instr,
                       oldWorkSet, localWorkVec>>
    BY <1>2 DEF SkipTarget, callVars, tables, disk, locals
  <2>3. \A i \in Instr : \A u \in Targets : ToCall(i, u)' => ToCall(i, u)
    BY <2>1, <2>2 DEF ToCall, RoundTarget, Waiting, PassOver
  <2> QED BY <2>2, <2>3, FrameLinks
<1>3. CASE SpawnTarget
  <2>1. PICK t \in localWorkSet \ PassOver :
          localWorkSet' = localWorkSet \ {t} /\ StartCalls(Calls(instr, t), instr)
    BY <1>3 DEF SpawnTarget, ThreadsFor, Popped
  <2>2. /\ UNCHANGED <<linked, published, faulty, visited, vecTodo, phase, instr,
                       oldWorkSet, localWorkVec>>
        /\ phase = "spawn" /\ RoundOK
    BY <1>3 DEF SpawnTarget, tables, disk, Rounds
  <2>3. \A i \in Instr : \A u \in Targets : ToCall(i, u)' => ToCall(i, u)
    BY <2>1, <2>2 DEF ToCall, RoundTarget, Waiting, PassOver
  <2>4. ToCall(instr, t) /\ t \in Targets
    BY <1>0, <2>1, <2>2 DEF ToCall, Waiting, PassOver
  <2>5. \A c \in Calls(instr, t) : c[1] = t
    BY <2>4, CallsType
  <2>6. \A c \in Call : \/ pc'[c] = pc[c] /\ own'[c] = own[c]
                        \/ pc'[c] = "create" /\ own'[c] = instr /\ ToCall(instr, c[1])
    BY <2>1, <2>4, <2>5 DEF StartCalls
  <2>7. \A c \in Call : own'[c] = instr /\ ToCall(instr, c[1]) => ToCall(own'[c], c[1])
    OBVIOUS
  <2> QED BY <2>2, <2>3, <2>6, <2>7, FrameLinks
<1>4. CASE SpawnVec
  <2> DEFINE v == localWorkVec[Len(localWorkVec)]
  <2>1. v \in Vecs /\ StartCalls(Calls(instr, v), instr)
    BY <1>4 DEF SpawnVec, ThreadsFor
  <2>2. /\ UNCHANGED <<linked, published, faulty, visited, vecTodo, phase, instr,
                       oldWorkSet, localWorkSet>>
        /\ phase = "spawn" /\ RoundOK
    BY <1>4 DEF SpawnVec, tables, disk, Rounds
  <2>3. \A u : InSeq(u, localWorkVec) <=> u = v \/ InSeq(u, localWorkVec')
    BY <1>4, InFront DEF SpawnVec
  <2> HIDE DEF v
  <2>4. \A i \in Instr : \A u \in Targets : ToCall(i, u)' => ToCall(i, u)
    BY <2>2, <2>3 DEF ToCall, RoundTarget, Waiting, PassOver
  <2>5. ToCall(instr, v) /\ v \in Targets
    BY <1>0, <2>1, <2>2, <2>3 DEF ToCall, Waiting, RoundOK
  <2>6. \A c \in Calls(instr, v) : c[1] = v
    BY <2>5, CallsType
  <2>7. \A c \in Call : \/ pc'[c] = pc[c] /\ own'[c] = own[c]
                        \/ pc'[c] = "create" /\ own'[c] = instr /\ ToCall(instr, c[1])
    BY <2>1, <2>5, <2>6 DEF StartCalls
  <2>8. \A c \in Call : own'[c] = instr /\ ToCall(instr, c[1]) => ToCall(own'[c], c[1])
    OBVIOUS
  <2> QED BY <2>2, <2>4, <2>7, <2>8, FrameLinks
<1>5. CASE NextInstr
  <2>1. /\ UNCHANGED <<linked, published, faulty, visited, vecTodo, phase, oldWorkSet, own>>
        /\ instr' = instr + 1 /\ instr' \in Instr /\ phase = "spawn"
        /\ \A c \in Call : pc'[c] \in BeforeName => pc'[c] = pc[c]
    BY <1>5, InstrsAssumption
    DEF NextInstr, tables, disk, AllJoined, AllStarted, Instr, RetireCalls, BeforeName
  <2>2. \A i \in Instr : instr' < i \/ instr' = i => instr < i
    BY <2>1 DEF Instr
  <2>3. \A i \in Instr : \A u \in Targets : ToCall(i, u)' => ToCall(i, u)
    BY <2>1, <2>2 DEF ToCall, RoundTarget, PassOver
  <2> QED BY <2>1, <2>3, FrameLinks
<1>6. CASE EndRound
  <2>1. /\ UNCHANGED <<linked, published, faulty, own>>
        /\ visited' = visited \cup RoundTargets /\ vecTodo' = <<>>
        /\ \A c \in Call : pc'[c] \in BeforeName => pc'[c] = pc[c]
    BY <1>6 DEF EndRound, disk, RetireCalls, BeforeName
  <2>2. \A i \in Instr : \A u \in Targets : ToCall(i, u)' => ToCall(i, u)
    <3> SUFFICES ASSUME NEW i \in Instr, NEW u \in Targets, ToCall(i, u)'
                 PROVE  ToCall(i, u)
      OBVIOUS
    <3>1. u \in Asvs /\ u \notin visited /\ u \notin RoundTargets
      BY <2>1 DEF ToCall, InSeq
    <3>2. ~RoundTarget(u)
      BY <1>0, <3>1 DEF RoundTarget, RoundTargets, InSeq
    <3> QED BY <3>1, <3>2 DEF ToCall
  <2> QED BY <2>1, <2>2, FrameLinks
<1>7. CASE CallNext
  BY <1>7, CallLinks DEF CallNext
<1>8. CASE Crash
  <2>1. /\ \A c \in Call : pc'[c] = "idle"
        /\ \A i \in Instr : \A c \in Call : linked'[Key(i, c)] = 0
    BY <1>8, KeyType DEF Crash, CallCrash
  <2> QED BY <2>1 DEF LinksOK, OneLink, BeforeName
<1>9. CASE UNCHANGED vars
  BY <1>9 DEF vars, callVars, schedVars, tables, disk, locals, LinksOK, OneLink, ToCall, RoundTarget,
     Waiting, PassOver, MyKey, MyJob
<1> QED
  BY <1>1, <1>2, <1>3, <1>4, <1>5, <1>6, <1>7, <1>8, <1>9 DEF Next, MainStep

(* Every function on record is linked once, from the file published for    *)
(* it, unless its job went wrong; even then it is not linked twice.        *)
THEOREM ParLinkedExactlyOnce ==
  ASSUME DistinctFiles PROVE Spec => []LinkedExactlyOnce
<1>1. TypeOK /\ RecordsOK /\ LinksOK => LinkedExactlyOnce
  <2> SUFFICES ASSUME TypeOK, RecordsOK, LinksOK, phase = "printed",
                      NEW x \in recorded, NEW c \in Calls(x[1], x[2])
               PROVE  /\ linked[Key(x[1], c)] <= 1
                      /\ <<x[1], c>> \notin faulty
                           => /\ linked[Key(x[1], c)] = 1
                              /\ published[Key(x[1], c)] = Right(<<x[1], c>>)
    BY DEF LinkedExactlyOnce, RecordsLinked
  <2>1. x[1] \in Instr /\ c \in Call
    BY RecordedType DEF TypeOK
  <2>2. linked[Key(x[1], c)] \in Nat /\ linked[Key(x[1], c)] <= 1
    BY <2>1, KeyType DEF LinksOK, OneLink, TypeOK, CallTypeOK
  <2>3. Sat(x[1], c)
    BY DEF RecordsOK
  <2>4. <<x[1], c>> \notin faulty => linked[Key(x[1], c)] = 1
    BY <2>2, <2>3 DEF Sat
  <2> QED BY <2>1, <2>2, <2>4 DEF LinksOK, OneLink
<1>2. TypeOK /\ TypeOK' /\ Barrier /\ Rounds /\ LinksOK /\ [Next]_vars => LinksOK'
  BY NextLinks
<1> QED
  BY <1>1, <1>2, InitTypeOK, NextTypeOK, InitBarrier, NextBarrier, InitRounds, NextRounds,
     InitRecords, NextRecords, InitLinks, PTL DEF Spec

(* An artefact is written only where there was none.                       *)
LEMMA NextEmit ==
  ASSUME DistinctFiles, TypeOK, Barrier, EmitFresh, [Next]_vars
  PROVE  EmitFresh'
<1> USE DEF TypeOK, CallTypeOK, At
<1>1. CASE CallNext
  <2>1. PICK c \in Call : CallStep(c)
    BY <1>1 DEF CallNext
  <2>2. own' = own /\ \A d \in Call \ {c} : pc'[d] = pc[d]
    BY <2>1, StepTables
  <2>3. \A d \in Call : MyKey(d)' = MyKey(d) /\ (MyKey(d) = MyKey(c) => d = c)
    BY <2>2, KeyOfOne DEF MyKey
  <2> SUFFICES ASSUME ~Overwrite, NEW d \in Call, pc'[d] = "emit"
               PROVE  files'[MyKey(d)] = NoFile
    BY <2>3 DEF EmitFresh
  <2>4. MyKey(d) \in FileKey /\ MyKey(c) \in FileKey
    BY KeyType DEF MyKey
  <2>5. CASE d = c
    <3>1. Generate(c)
      BY <2>1, <2>5 DEF CallStep, CreateEntry, BeginAssign, EndAssign, SkipGeneration,
         Emit, ReadClean, PushName, RecordDep, CheckArg, InsertArg, RegisterArg, ReturnCall
    <3> QED BY <2>5, <3>1 DEF Generate, NeedsGeneration, disk
  <2>6. CASE d # c
    <3>1. files[MyKey(d)] = NoFile
      BY <2>2, <2>6 DEF EmitFresh
    <3>2. files' = files \/ files' = [files EXCEPT ![MyKey(c)] = fn[c]]
      BY <2>1 DEF CallStep, CreateEntry, BeginAssign, EndAssign, SkipGeneration,
         Generate, Emit, ReadClean, PushName, RecordDep, CheckArg, InsertArg,
         RegisterArg, ReturnCall, disk
    <3> QED BY <2>3, <2>4, <2>6, <3>1, <3>2
  <2> QED BY <2>5, <2>6
<1>2. CASE MainStep
  <2>1. files' = files
    BY <1>2 DEF MainStep, BeginRound, SkipTarget, SpawnTarget, SpawnVec, NextInstr,
       EndRound, PrintResults, callVars, disk
  <2>2. \A c \in Call : pc'[c] = "emit" => pc[c] = "emit" /\ own'[c] = own[c]
    <3>1. ASSUME NEW C, NEW i, StartCalls(C, i)
          PROVE  \A c \in Call : pc'[c] = "emit" => pc[c] = "emit" /\ own'[c] = own[c]
      BY <3>1 DEF StartCalls
    <3>2. CASE SpawnTarget \/ SpawnVec
      BY <3>1, <3>2 DEF SpawnTarget, SpawnVec
    <3>3. CASE BeginRound \/ SkipTarget \/ PrintResults
      BY <3>3 DEF BeginRound, SkipTarget, PrintResults, callVars, locals
    <3>4. CASE NextInstr \/ EndRound
      BY <3>4 DEF NextInstr, EndRound, RetireCalls
    <3> QED BY <1>2, <3>2, <3>3, <3>4 DEF MainStep
  <2> QED BY <2>1, <2>2 DEF EmitFresh, MyKey
<1>3. CASE Crash
  BY <1>3 DEF Crash, CallCrash, EmitFresh
<1>4. CASE UNCHANGED vars
  BY <1>4 DEF vars, callVars, disk, locals, EmitFresh, MyKey
<1> QED BY <1>1, <1>2, <1>3, <1>4 DEF Next

(* Without g_overwrite_existing_llvm an artefact, once written, is never   *)
(* written again or cut short, through every kill and rerun.               *)
THEOREM ParArtefactsKept ==
  ASSUME DistinctFiles PROVE Spec => ArtefactsKept
<1>1. Init => EmitFresh
  BY DEF Init, CallInit, IdleLocals, EmitFresh
<1>2. TypeOK /\ Barrier /\ EmitFresh /\ [Next]_vars => EmitFresh'
  BY NextEmit
<1>3. TypeOK /\ EmitFresh /\ [Next]_vars
        => [\A k \in FileKey : ~Overwrite /\ files[k] # NoFile => files'[k] = files[k]]_vars
  <2> SUFFICES ASSUME TypeOK, EmitFresh, Next, NEW k \in FileKey,
                      ~Overwrite, files[k] # NoFile
               PROVE  files'[k] = files[k]
    OBVIOUS
  <2> USE DEF TypeOK, CallTypeOK, At
  <2>1. CASE MainStep
    BY <2>1 DEF MainStep, BeginRound, SkipTarget, SpawnTarget, SpawnVec, NextInstr,
       EndRound, PrintResults, callVars, disk
  <2>2. CASE CallNext
    <3>1. PICK c \in Call : CallStep(c)
      BY <2>2 DEF CallNext
    <3>2. CASE Emit(c)
      <4>1. files[MyKey(c)] = NoFile
        BY <3>2 DEF Emit, EmitFresh
      <4> QED BY <3>2, <4>1 DEF Emit
    <3>3. CASE ~Emit(c)
      BY <3>1, <3>3 DEF CallStep, CreateEntry, BeginAssign, EndAssign, SkipGeneration,
         Generate, ReadClean, PushName, RecordDep, CheckArg, InsertArg, RegisterArg,
         ReturnCall, disk
    <3> QED BY <3>2, <3>3
  <2>3. CASE Crash
    <3>1. PICK cut \in SUBSET {MyKey(c) : c \in {d \in Call : pc[d] = "emit"}} :
            files' = [q \in FileKey |-> IF q \in cut THEN Broken ELSE files[q]]
      BY <2>3 DEF Crash, CallCrash
    <3>2. k \notin cut
      BY DEF EmitFresh
    <3> QED BY <3>1, <3>2
  <2> QED BY <2>1, <2>2, <2>3 DEF Next
<1> QED
  BY <1>1, <1>2, <1>3, InitTypeOK, NextTypeOK, InitBarrier, NextBarrier, PTL
  DEF Spec, ArtefactsKept
=============================================================================
