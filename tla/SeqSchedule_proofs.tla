------------------------- MODULE SeqSchedule_proofs -------------------------
(***************************************************************************)
(* The single-threaded schedule, for any number of targets, vectors,       *)
(* instructions, delays and crashes: its types, that calls never overlap,  *)
(* that no argument on record is forgotten, that it implements the         *)
(* closure, whose arguments are on record and which files are linked.      *)
(***************************************************************************)
EXTENDS SeqSchedule, TargetConfig_proofs

(* The types.                                                              *)
LEMMA InitTypeOK == Init => TypeOK
<1> SUFFICES ASSUME Init PROVE TypeOK OBVIOUS
<1>1. CallTypeOK
  BY ConfigTypes, CallInitTypeOK DEF Init
<1> QED BY <1>1, ConfigTypes DEF Init, TypeOK

LEMMA TakeUpType ==
  ASSUME NEW t \in Targets, TakeUp(t)
  PROVE  target' \in Targets /\ instr' \in Instr /\ delayTodo' \in Seq(Delays)
BY CallDelaysType, ConfigTypes DEF TakeUp

LEMMA NextTypeOK ==
  ASSUME TypeOK, [Next]_vars PROVE TypeOK'
<1> USE DEF TypeOK
<1>1. CASE TakeTarget
  <2>1. PICK t \in workSet :
          /\ workSet' = workSet \ {t}
          /\ IF t \in PassOver THEN UNCHANGED <<target, instr, delayTodo>> ELSE TakeUp(t)
    BY <1>1 DEF TakeTarget, Popped
  <2>2. t \in Targets
    BY DEF CallTypeOK, Targets
  <2>3. target' \in Targets \cup {NoTarget} /\ instr' \in Instr /\ delayTodo' \in Seq(Delays)
    BY <2>1, <2>2, TakeUpType
  <2>4. CallTypeOK'
    BY <1>1, <2>1 DEF TakeTarget, CallTypeOK, LocalsOK, disk, locals
  <2> QED BY <1>1, <2>3, <2>4 DEF TakeTarget
<1>2. CASE TakeVec
  <2> DEFINE v == vecTodo[Len(vecTodo)]
  <2>1. v \in Targets
    BY <1>2 DEF TakeVec, Targets
  <2>2. target' \in Targets /\ instr' \in Instr /\ delayTodo' \in Seq(Delays)
    BY <1>2, <2>1, TakeUpType DEF TakeVec
  <2>3. vecTodo' \in Seq(Vecs)
    BY <1>2 DEF TakeVec
  <2>4. CallTypeOK'
    BY <1>2 DEF TakeVec, callVars, tables, disk, locals, CallTypeOK, LocalsOK
  <2> QED BY <1>2, <2>2, <2>3, <2>4 DEF TakeVec
<1>3. CASE CallUpdate
  <2>1. target \in Targets /\ Head(delayTodo) \in Delays /\ delayTodo' \in Seq(Delays)
    BY <1>3 DEF CallUpdate
  <2>2. {<<target, Head(delayTodo)>>} \in SUBSET Call
    BY <2>1 DEF Call
  <2>3. CallTypeOK'
    BY <1>3, <2>2, StartTypeOK DEF CallUpdate
  <2> QED BY <1>3, <2>1, <2>3 DEF CallUpdate
<1>4. CASE NextInstr
  <2>1. CallTypeOK'
    BY <1>4, RetireTypeOK DEF NextInstr, tables, CallTypeOK
  <2>2. instr' \in Instr
    BY <1>4, InstrsAssumption DEF NextInstr, Instr
  <2>3. delayTodo' \in Seq(Delays)
    BY <1>4, <2>2, CallDelaysType DEF NextInstr, InstrOver
  <2> QED BY <1>4, <2>1, <2>2, <2>3 DEF NextInstr
<1>5. CASE FinishTarget
  <2>1. TargetRegs \subseteq Asvs
    BY <1>5, ConfigAssumption DEF FinishTarget, InstrOver, TargetRegs, Targets
  <2>2. CallTypeOK'
    BY <1>5, <2>1, RetireTypeOK DEF FinishTarget, CallTypeOK
  <2> QED BY <1>5, <2>2 DEF FinishTarget
<1>6. CASE PrintResults
  <2>1. CallTypeOK'
    BY <1>6 DEF PrintResults, callVars, tables, disk, locals, CallTypeOK, LocalsOK
  <2> QED BY <1>6, <2>1 DEF PrintResults
<1>7. CASE CallNext
  <2>1. CallTypeOK'
    BY <1>7, CallStepTypeOK DEF CallNext
  <2> QED BY <1>7, <2>1 DEF CallNext, schedVars
<1>8. CASE Crash
  <2>1. CallTypeOK'
    BY <1>8, CrashTypeOK, ConfigTypes DEF Crash
  <2> QED BY <1>8, <2>1, ConfigTypes DEF Crash
<1>9. CASE UNCHANGED vars
  BY <1>9 DEF vars, callVars, schedVars, tables, disk, locals, CallTypeOK, LocalsOK
<1> QED
  BY <1>1, <1>2, <1>3, <1>4, <1>5, <1>6, <1>7, <1>8, <1>9 DEF Next, MainStep

(* Every variable keeps its type in every behaviour.                       *)
THEOREM SeqTypeCorrect == Spec => []TypeOK
BY InitTypeOK, NextTypeOK, PTL DEF Spec
-----------------------------------------------------------------------------
(* Calls are inline: at most one is under way, on the target and for the   *)
(* instruction in hand, and g_currInstrInfo is whole but while it is being *)
(* assigned.                                                               *)
Inline ==
  /\ \A c \in Running : own[c] = instr /\ c[1] = target
  /\ \A c, d \in Running : c = d
  /\ currInstr # Smashed
  /\ currInstr = Torn => \E c \in Call : pc[c] = "assigning"
  /\ OwnInstrOnly
  /\ phase = "printed" => target = NoTarget /\ workSet = {} /\ vecTodo = <<>>

LEMMA InitInline == Init => Inline
<1> SUFFICES ASSUME Init PROVE Inline OBVIOUS
<1>1. Running = {} /\ \A c \in Call : pc[c] = "idle"
  BY DEF Init, CallInit, IdleLocals, Running
<1> QED BY <1>1, NamesAssumption DEF Init, CallInit, Inline, OwnInstrOnly

(* Steps between calls.                                                    *)
LEMMA IdleInline ==
  ASSUME TypeOK, Inline, Running = {}, Running' = {}, currInstr' = currInstr,
         phase' = "printed" => target' = NoTarget /\ workSet' = {} /\ vecTodo' = <<>>
  PROVE  Inline'
<1>1. \A c \in Call : pc[c] # "assigning" /\ pc'[c] # "generate"
  BY DEF Running
<1> QED BY <1>1 DEF Inline, OwnInstrOnly

LEMMA StepInline ==
  ASSUME TypeOK, Inline, NEW c \in Call, CallStep(c), UNCHANGED schedVars
  PROVE  Inline'
<1> USE DEF TypeOK, CallTypeOK, At
<1>1. /\ c \in Running /\ Running' \subseteq Running /\ own' = own
      /\ \A d \in Running : d = c
      /\ target # NoTarget
  <2>1. c \in Running /\ Running' \subseteq Running /\ own' = own
    BY StepRunning
  <2> QED BY <2>1, NoTargetAssumption DEF Inline, Call
<1>2. \A d \in Call \ {c} : pc[d] \in {"idle", "done"} /\ pc'[d] = pc[d]
  <2>1. \A d \in Call \ {c} : pc[d] \in {"idle", "done"}
    BY <1>1 DEF Running
  <2>2. \A d \in Call \ {c} : pc'[d] = pc[d]
    BY DEF CallStep, CreateEntry, BeginAssign, EndAssign, SkipGeneration, Generate,
       Emit, ReadClean, PushName, RecordDep, CheckArg, InsertArg, RegisterArg, ReturnCall
  <2> QED BY <2>1, <2>2
<1>3. phase' # "printed"
  BY <1>1 DEF Inline, schedVars
<1>4. /\ \A d \in Running' : own'[d] = instr' /\ d[1] = target'
      /\ \A d, e \in Running' : d = e
  BY <1>1 DEF Inline, schedVars
<1>5. CASE BeginAssign(c)
  <2>1. pc[c] = "assign" /\ pc'[c] = "assigning"
    BY <1>5 DEF BeginAssign
  <2>2. currInstr # Torn
    BY <1>2, <2>1 DEF Inline
  <2>3. currInstr' = Torn
    BY <1>5, <2>2 DEF BeginAssign, Inline
  <2>4. \A d \in Call : pc'[d] # "generate"
    BY <1>2, <2>1
  <2> QED BY <1>3, <1>4, <2>1, <2>3, <2>4, NamesAssumption DEF Inline, OwnInstrOnly
<1>6. CASE EndAssign(c)
  <2>1. currInstr' = own[c] /\ own[c] \in Instr
    BY <1>6 DEF EndAssign, Inline
  <2>2. \A d \in Call : pc'[d] = "generate" => d = c
    BY <1>2
  <2>3. OwnInstrOnly'
    BY <1>1, <2>1, <2>2 DEF OwnInstrOnly
  <2>4. currInstr' # Torn /\ currInstr' # Smashed
    BY <2>1, NamesAssumption
  <2> QED BY <1>3, <1>4, <2>3, <2>4 DEF Inline
<1>7. CASE ~BeginAssign(c) /\ ~EndAssign(c)
  <2>1. /\ currInstr' = currInstr
        /\ pc[c] # "assigning" /\ (pc'[c] # "generate")
    BY <1>7 DEF CallStep, CreateEntry, SkipGeneration, Generate, Emit, ReadClean,
       PushName, RecordDep, CheckArg, InsertArg, RegisterArg, ReturnCall, tables
  <2>2. currInstr # Torn
    BY <1>2, <2>1 DEF Inline
  <2>3. OwnInstrOnly'
    BY <1>2, <2>1 DEF OwnInstrOnly
  <2> QED BY <1>3, <1>4, <2>1, <2>2, <2>3 DEF Inline
<1> QED BY <1>5, <1>6, <1>7

LEMMA NextInline ==
  ASSUME TypeOK, Inline, [Next]_vars PROVE Inline'
<1> USE DEF TypeOK
<1>0. target = NoTarget => Running = {}
  BY NoTargetAssumption DEF Inline, Running, Call
<1>1. CASE TakeTarget
  BY <1>0, <1>1, IdleInline DEF TakeTarget, Between, Running, locals
<1>2. CASE TakeVec
  BY <1>0, <1>2, IdleInline DEF TakeVec, Between, Running, locals, callVars
<1>3. CASE CallUpdate
  <2> DEFINE c == <<target, Head(delayTodo)>>
  <2>1. c \in Call /\ Running = {} /\ StartCalls({c}, instr)
    BY <1>3 DEF CallUpdate, CallOver, Call
  <2> HIDE DEF c
  <2>a. {c} \in SUBSET Call
    BY <2>1
  <2>2. Running' = {c} /\ own'[c] = instr
    BY <2>1, <2>a, StartRunning
  <2>3. \A d \in Call : pc'[d] \notin {"assigning", "generate"} /\ pc[d] # "assigning"
    BY <2>1 DEF StartCalls, Running
  <2>4. phase' = phase /\ phase # "printed"
    BY <1>3 DEF CallUpdate, Inline
  <2> QED BY <1>3, <2>2, <2>3, <2>4 DEF c, CallUpdate, Inline, OwnInstrOnly
<1>4. CASE NextInstr
  BY <1>4, RetireRunning, IdleInline DEF NextInstr, InstrOver, CallOver, Inline
<1>5. CASE FinishTarget
  BY <1>5, RetireRunning, IdleInline DEF FinishTarget, InstrOver, CallOver, Inline
<1>6. CASE PrintResults
  BY <1>0, <1>6, IdleInline DEF PrintResults, Between, Running, locals, callVars, tables
<1>7. CASE CallNext
  BY <1>7, StepInline DEF CallNext
<1>8. CASE Crash
  <2>1. Running' = {} /\ \A c \in Call : pc'[c] = "idle"
    BY <1>8 DEF Crash, CallCrash, Running
  <2> QED BY <1>8, <2>1, NamesAssumption DEF Crash, CallCrash, Inline, OwnInstrOnly
<1>9. CASE UNCHANGED vars
  BY <1>9 DEF vars, callVars, schedVars, tables, locals, Inline, OwnInstrOnly, Running
<1> QED
  BY <1>1, <1>2, <1>3, <1>4, <1>5, <1>6, <1>7, <1>8, <1>9 DEF Next, MainStep

(* The encoding a function is built from is its own instruction's, whole.  *)
THEOREM SeqOwnInstrOnly == Spec => []OwnInstrOnly
<1>1. Inline => OwnInstrOnly
  BY DEF Inline
<1> QED BY <1>1, InitTypeOK, NextTypeOK, InitInline, NextInline, PTL DEF Spec
-----------------------------------------------------------------------------
(* What the steps do to the registers known.                               *)
MainSame == TakeTarget \/ TakeVec \/ CallUpdate \/ NextInstr \/ PrintResults

LEMMA SameKnown ==
  ASSUME TypeOK, MainSame
  PROVE  /\ Wanted(Known)' = Wanted(Known) /\ visited' = visited /\ faulty' = faulty
         /\ recorded' = recorded /\ dep' = dep /\ asvSet' = asvSet
<1> USE DEF TypeOK, Known, Wanted
<1>1. CASE TakeTarget
  <2>1. PICK t \in workSet :
          /\ workSet' = workSet \ {t}
          /\ IF t \in PassOver THEN UNCHANGED target ELSE target' = t
    BY <1>1 DEF TakeTarget, Popped, TakeUp
  <2>2. t \in Asvs /\ target \notin Asvs
    BY <1>1, NoTargetAssumption DEF TakeTarget, Between, CallTypeOK, Targets
  <2>3. visited' = visited
    BY <1>1 DEF TakeTarget
  <2>6. Wanted(Known)' = Wanted(Known)
    <3>1. CASE t \in PassOver
      BY <2>1, <2>3, <3>1 DEF PassOver
    <3>2. CASE t \notin PassOver
      BY <2>1, <2>2, <2>3, <3>2
    <3> QED BY <3>1, <3>2
  <2> QED BY <1>1, <2>6 DEF TakeTarget
<1>2. CASE TakeVec
  <2>1. target' \in Vecs
    BY <1>2 DEF TakeVec, TakeUp
  <2>2. target \notin Asvs /\ target' \notin Asvs
    BY <1>2, <2>1, NoTargetAssumption, ConfigAssumption DEF TakeVec, Between, Targets
  <2> QED BY <1>2, <2>2 DEF TakeVec, callVars, tables
<1>3. CASE CallUpdate
  BY <1>3 DEF CallUpdate, tables
<1>4. CASE NextInstr
  BY <1>4 DEF NextInstr, tables
<1>5. CASE PrintResults
  BY <1>5 DEF PrintResults, callVars, tables
<1> QED BY <1>1, <1>2, <1>3, <1>4, <1>5 DEF MainSame

LEMMA FinishKnown ==
  ASSUME TypeOK, FinishTarget
  PROVE  /\ TargetRegs \subseteq Asvs
         /\ Known' = Known \cup TargetRegs /\ visited' = visited \cup TargetRegs
         /\ faulty' = faulty /\ recorded' = recorded /\ dep' = dep /\ asvSet' = asvSet
<1>1. CASE target \in Vecs
  <2>1. target \notin Asvs /\ target' \notin Asvs
    BY <1>1, ConfigAssumption, NoTargetAssumption DEF FinishTarget, Targets
  <2>2. TargetRegs \subseteq Asvs
    BY <1>1, ConfigAssumption DEF TargetRegs
  <2> QED BY <2>1, <2>2 DEF FinishTarget, Known
<1>2. CASE target \notin Vecs
  <2>1. target \in Asvs /\ target' \notin Asvs
    BY <1>2, NoTargetAssumption DEF TypeOK, FinishTarget, InstrOver, Targets
  <2>2. TargetRegs = {target}
    BY <1>2 DEF TargetRegs
  <2> QED BY <2>1, <2>2 DEF FinishTarget, Known
<1> QED BY <1>1, <1>2

LEMMA StepKnown ==
  ASSUME TypeOK, NEW c \in Call, CallStep(c), UNCHANGED schedVars
  PROVE  /\ Known' = IF InsertArg(c) THEN Known \cup {pend[c]} ELSE Known
         /\ visited' = visited /\ asvSet \subseteq asvSet'
         /\ faulty' = faulty \/ (ReadClean(c) /\ faulty' = faulty \cup {MyJob(c)})
         /\ own' = own
         /\ \A d \in Call \ {c} : /\ pc'[d] = pc[d] /\ todo'[d] = todo[d]
                                  /\ pend'[d] = pend[d] /\ fn'[d] = fn[d]
<1> USE DEF TypeOK, CallTypeOK, At, tables, disk, Known, schedVars
<1>1. CASE CreateEntry(c) BY <1>1 DEF CreateEntry, InsertArg
<1>2. CASE BeginAssign(c) BY <1>2 DEF BeginAssign, InsertArg
<1>3. CASE EndAssign(c) BY <1>3 DEF EndAssign, InsertArg
<1>4. CASE SkipGeneration(c) BY <1>4 DEF SkipGeneration, InsertArg
<1>5. CASE Generate(c) BY <1>5 DEF Generate, InsertArg
<1>6. CASE Emit(c) BY <1>6 DEF Emit, InsertArg
<1>7. CASE ReadClean(c) BY <1>7 DEF ReadClean, InsertArg
<1>8. CASE PushName(c) BY <1>8 DEF PushName, InsertArg
<1>9. CASE RecordDep(c) BY <1>9 DEF RecordDep, InsertArg
<1>10. CASE CheckArg(c) BY <1>10 DEF CheckArg, InsertArg
<1>11. CASE InsertArg(c) BY <1>11 DEF InsertArg, WithPushed
<1>12. CASE RegisterArg(c) BY <1>12 DEF RegisterArg, InsertArg
<1>13. CASE ReturnCall(c) BY <1>13 DEF ReturnCall, InsertArg
<1> QED
  BY <1>1, <1>2, <1>3, <1>4, <1>5, <1>6, <1>7, <1>8, <1>9, <1>10, <1>11, <1>12,
     <1>13 DEF CallStep
-----------------------------------------------------------------------------
(* No argument on record is forgotten: until it is registered and, when    *)
(* new targets are pushed, known, it is still in the hands of the call.    *)
Pushed(r)  == PushNewTarget /\ r \notin Skipped => r \in Known
Handled(r) == r \in asvSet /\ Pushed(r)

InHand(c, r) ==
  \/ pc[c] \in {"push", "insert", "register"} /\ r \in todo[c]
  \/ pc[c] = "insert" /\ pend[c] = r
  \/ pc[c] = "register" /\ pend[c] = r /\ Pushed(r)

ArgsAccountedFor ==
  \A x \in recorded : \A r \in dep[x] :
    Handled(r) \/ \E c \in Call : MyTarget(c) = x /\ InHand(c, r)

(* Steps between calls.                                                    *)
LEMMA IdleArgs ==
  ASSUME ArgsAccountedFor, Running = {}, recorded' = recorded, dep' = dep,
         asvSet' = asvSet, Wanted(Known) \subseteq Wanted(Known)'
  PROVE  ArgsAccountedFor'
<1> SUFFICES ASSUME NEW x \in recorded, NEW r \in dep[x] PROVE Handled(r)'
  BY DEF ArgsAccountedFor
<1>1. Handled(r)
  BY DEF ArgsAccountedFor, InHand, Running
<1> QED BY <1>1 DEF Handled, Pushed, Wanted

LEMMA StepArgs ==
  ASSUME TypeOK, ArgsAccountedFor, NEW c \in Call, CallStep(c), UNCHANGED schedVars
  PROVE  ArgsAccountedFor'
<1> USE DEF TypeOK, CallTypeOK, At
<1>1. /\ Known \subseteq Known' /\ asvSet \subseteq asvSet' /\ own' = own
      /\ \A d \in Call \ {c} : pc'[d] = pc[d] /\ todo'[d] = todo[d] /\ pend'[d] = pend[d]
  BY StepKnown
<1>2. ASSUME NEW d \in Call \ {c}, NEW r, InHand(d, r) PROVE InHand(d, r)'
  BY <1>1, <1>2 DEF InHand, Pushed
<1>3. ASSUME NEW r, Handled(r) PROVE Handled(r)'
  BY <1>1, <1>3 DEF Handled, Pushed
<1>4. \A d \in Call : MyTarget(d)' = MyTarget(d)
  BY <1>1 DEF MyTarget
<1>5. CASE RecordDep(c)
  <2> SUFFICES ASSUME NEW x \in recorded', NEW r \in dep'[x]
               PROVE  Handled(r)' \/ \E d \in Call : MyTarget(d)' = x /\ InHand(d, r)'
    BY DEF ArgsAccountedFor
  <2>1. MyTarget(c) \in Instr \X Targets
    BY DEF MyTarget, Call
  <2>2. CASE x \in recorded
    <3>1. r \in dep[x]
      BY <1>5, <2>1, <2>2 DEF RecordDep, FirstArgs
    <3>2. CASE Handled(r)
      BY <1>3, <3>2
    <3>3. CASE \E d \in Call : MyTarget(d) = x /\ InHand(d, r)
      <4>1. PICK d \in Call : MyTarget(d) = x /\ InHand(d, r)
        BY <3>3
      <4>2. d # c
        BY <1>5, <4>1 DEF RecordDep, InHand
      <4> QED BY <1>2, <1>4, <4>1, <4>2
    <3> QED BY <2>2, <3>1, <3>2, <3>3 DEF ArgsAccountedFor
  <2>3. CASE x \notin recorded
    <3>1. x = MyTarget(c) /\ r \in fn[c].args
      BY <1>5, <2>1, <2>3 DEF RecordDep, FirstArgs
    <3>2. pc'[c] = "push" /\ r \in todo'[c]
      BY <1>5, <3>1 DEF RecordDep
    <3> QED BY <1>4, <3>1, <3>2 DEF InHand
  <2> QED BY <2>2, <2>3
<1>6. CASE ~RecordDep(c)
  <2>1. recorded' = recorded /\ dep' = dep
    BY <1>6 DEF CallStep, CreateEntry, BeginAssign, EndAssign, SkipGeneration,
       Generate, Emit, ReadClean, PushName, CheckArg, InsertArg, RegisterArg,
       ReturnCall, tables
  <2>2. ASSUME NEW r, InHand(c, r) PROVE Handled(r)' \/ InHand(c, r)'
    <3>1. CASE CheckArg(c)
      <4>1. pc[c] = "push" /\ r \in todo[c]
        BY <2>2, <3>1 DEF CheckArg, InHand
      <4>2. PICK q \in todo[c] :
              /\ pc' = [pc EXCEPT ![c] = IF MustPush(q) THEN "insert" ELSE "register"]
              /\ todo' = [todo EXCEPT ![c] = @ \ {q}]
              /\ pend' = [pend EXCEPT ![c] = q]
        BY <3>1 DEF CheckArg
      <4>3. CASE r # q
        BY <4>1, <4>2, <4>3 DEF InHand
      <4>4. CASE r = q /\ MustPush(q)
        BY <4>2, <4>4 DEF InHand
      <4>5. CASE r = q /\ ~MustPush(q)
        BY <1>1, <4>2, <4>5 DEF InHand, MustPush, Known, Pushed
      <4> QED BY <4>3, <4>4, <4>5
    <3>2. CASE InsertArg(c)
      <4>1. /\ pc'[c] = "register" /\ todo' = todo /\ pend' = pend
            /\ pend[c] \in Known'
        BY <3>2 DEF InsertArg, WithPushed, Known
      <4> QED BY <2>2, <3>2, <4>1 DEF InHand, InsertArg, Pushed
    <3>3. CASE RegisterArg(c)
      <4>1. pc[c] = "register" /\ pc'[c] = "push" /\ todo' = todo /\ pend[c] \in asvSet'
        BY <3>3 DEF RegisterArg
      <4> QED BY <1>1, <2>2, <4>1 DEF InHand, Handled, Pushed
    <3>4. CASE ReturnCall(c)
      BY <2>2, <3>4 DEF ReturnCall, InHand
    <3>5. pc[c] \in {"push", "insert", "register"}
      BY <2>2 DEF InHand
    <3> QED
      BY <1>6, <3>1, <3>2, <3>3, <3>4, <3>5
      DEF CallStep, CreateEntry, BeginAssign, EndAssign, SkipGeneration, Generate,
          Emit, ReadClean, PushName
  <2> SUFFICES ASSUME NEW x \in recorded, NEW r \in dep[x]
               PROVE  Handled(r)' \/ \E d \in Call : MyTarget(d)' = x /\ InHand(d, r)'
    BY <2>1 DEF ArgsAccountedFor
  <2>3. CASE Handled(r)
    BY <1>3, <2>3
  <2>4. CASE \E d \in Call : MyTarget(d) = x /\ InHand(d, r)
    BY <1>2, <1>4, <2>2, <2>4
  <2> QED BY <2>3, <2>4 DEF ArgsAccountedFor
<1> QED BY <1>5, <1>6

LEMMA NextArgs ==
  ASSUME TypeOK, Inline, ArgsAccountedFor, [Next]_vars PROVE ArgsAccountedFor'
<1>0. target = NoTarget => Running = {}
  BY NoTargetAssumption DEF Inline, Running, Call
<1>1. CASE MainSame
  <2>1. Running = {}
    BY <1>0, <1>1 DEF MainSame, TakeTarget, TakeVec, Between, CallUpdate, NextInstr,
       InstrOver, CallOver, PrintResults
  <2> QED BY <1>1, <2>1, SameKnown, IdleArgs
<1>2. CASE FinishTarget
  <2>1. Wanted(Known) \subseteq Wanted(Known)'
    BY <1>2, FinishKnown DEF Wanted
  <2> QED BY <1>2, <2>1, FinishKnown, IdleArgs DEF FinishTarget, InstrOver, CallOver
<1>3. CASE CallNext
  BY <1>3, StepArgs DEF CallNext
<1>4. CASE Crash
  BY <1>4 DEF Crash, CallCrash, ArgsAccountedFor
<1>5. CASE UNCHANGED vars
  BY <1>5 DEF vars, callVars, schedVars, tables, locals, ArgsAccountedFor, Handled,
     Pushed, Known, InHand, MyTarget
<1> QED BY <1>1, <1>2, <1>3, <1>4, <1>5 DEF Next, MainStep, MainSame

(* No argument of a function on record is forgotten: when its call is over *)
(* it is registered and, when new targets are pushed, it waits, is in hand *)
(* or has been worked on.                                                  *)
THEOREM SeqNoArgLost == Spec => []NoArgLost
<1>1. TypeOK /\ ArgsAccountedFor => NoArgLost
  <2> SUFFICES ASSUME TypeOK, ArgsAccountedFor, NEW x \in recorded,
                      \A c \in Running : x # <<own[c], c[1]>>
               PROVE  /\ dep[x] \subseteq asvSet
                      /\ PushNewTarget => Wanted(dep[x]) \subseteq Known
    BY DEF NoArgLost, ArgsKept
  <2>1. ASSUME NEW r \in dep[x] PROVE Handled(r)
    <3>1. ASSUME NEW c \in Call, MyTarget(c) = x PROVE ~InHand(c, r)
      BY <3>1 DEF InHand, Running, MyTarget
    <3> QED BY <3>1 DEF ArgsAccountedFor
  <2> QED BY <2>1 DEF Handled, Pushed, Wanted
<1>2. Init => ArgsAccountedFor
  BY DEF Init, CallInit, ArgsAccountedFor
<1> QED
  BY <1>1, <1>2, InitTypeOK, NextTypeOK, InitInline, NextInline, NextArgs, PTL DEF Spec
-----------------------------------------------------------------------------
(* The single-threaded schedule implements DepClosure, and what it prints  *)
(* is the closure of the first targets under "is an argument of".          *)

(* Call c has done its work for instruction i: its target is on record and *)
(* all that its function depends on is known; or it went wrong.            *)
Sat(i, c) ==
  \/ <<i, c>> \in faulty
  \/ /\ <<i, c[1]>> \in recorded
     /\ PushNewTarget => Wanted(ReadArgs(<<i, c>>)) \subseteq Known

CallOK(c) ==
  /\ pc[c] = "insert" => PushNewTarget
  /\ MyJob(c) \notin faulty =>
       /\ pc[c] \in {"name", "record"} => fn[c].args = ReadArgs(MyJob(c))
       /\ pc[c] \in {"push", "insert", "register"} =>
            /\ MyTarget(c) \in recorded
            /\ todo[c] \cup Pending(c) \subseteq ReadArgs(MyJob(c))
            /\ PushNewTarget => Wanted(ReadArgs(MyJob(c)))
                                  \subseteq Known \cup todo[c] \cup Pending(c)

TargetOK ==
  /\ target \in Vecs => target \in VecsInUse
  /\ target \in Asvs => target \notin visited \cup Skipped
  /\ \A x : InSeq(x, delayTodo) => x \in DelaySet(instr, target)
  /\ \A i \in Instr : i < instr => \A c \in Calls(i, target) : Sat(i, c)
  /\ \A c \in Calls(instr, target) :
       InSeq(c[2], delayTodo) \/ c \in Running \/ Sat(instr, c)

Progress ==
  /\ \A c \in Running : c \in Calls(instr, target)
  /\ \A c \in Call : CallOK(c)
  /\ target # NoTarget => TargetOK
  /\ \A v : InSeq(v, vecTodo) => v \in VecsInUse

LEMMA InitProgress == Init => Progress
BY ConfigAssumption
DEF Init, CallInit, IdleLocals, Progress, CallOK, Running, InSeq, VecsInUse

(* One step of the call under way.                                         *)
LEMMA StepCallOK ==
  ASSUME TypeOK, NEW c \in Call, CallOK(c), CallStep(c), UNCHANGED schedVars
  PROVE  CallOK(c)' /\ (c \in Running' \/ Sat(own[c], c)')
<1> USE DEF TypeOK, CallTypeOK, LocalsOK, At
<1> DEFINE j == MyJob(c)
           x == MyTarget(c)
<1>1. /\ Known \subseteq Known' /\ own' = own /\ faulty \subseteq faulty'
      /\ recorded \subseteq recorded'
      /\ MyJob(c)' = j /\ MyTarget(c)' = x /\ j \in Job
  <2>1. /\ Known \subseteq Known' /\ own' = own /\ faulty \subseteq faulty'
        /\ recorded \subseteq recorded'
    BY StepKnown, StepTables
  <2> QED BY <2>1 DEF MyJob, MyTarget, Job
<1>2. CASE CreateEntry(c) \/ BeginAssign(c) \/ EndAssign(c) \/ SkipGeneration(c)
           \/ Generate(c) \/ Emit(c)
  <2>1. pc'[c] \in {"assign", "assigning", "generate", "emit", "read"}
    BY <1>2 DEF CreateEntry, BeginAssign, EndAssign, SkipGeneration, Generate, Emit
  <2> QED BY <2>1 DEF CallOK, Running
<1>3. CASE ReadClean(c)
  <2> DEFINE m == files[MyKey(c)]
  <2>1. Right(j) \in Module /\ Right(j).args = ReadArgs(j)
    BY <1>1, RightType DEF Right
  <2>2. CASE m = Right(j)
    <3>1. /\ pc'[c] = "name" /\ fn' = [fn EXCEPT ![c] = m]
      BY <1>3, <2>1, <2>2, NamesAssumption DEF ReadClean
    <3>2. fn'[c].args = ReadArgs(j)
      BY <2>1, <2>2, <3>1
    <3> QED BY <1>1, <3>1, <3>2 DEF CallOK, Running
  <2>3. CASE m # Right(j)
    <3>1. j \in faulty' /\ pc'[c] \in {"name", "done"}
      BY <1>3, <2>3 DEF ReadClean
    <3> QED BY <1>1, <3>1 DEF CallOK, Running, Sat, MyJob
  <2> QED BY <2>2, <2>3
<1>4. CASE PushName(c)
  <2>1. /\ pc[c] = "name" /\ pc'[c] = "record" /\ fn' = fn /\ faulty' = faulty
    BY <1>4 DEF PushName
  <2> QED BY <1>1, <2>1 DEF CallOK, Running
<1>5. CASE RecordDep(c)
  <2>1. /\ pc[c] = "record" /\ pc'[c] = "push" /\ faulty' = faulty
        /\ todo'[c] = fn[c].args /\ x \in recorded'
    BY <1>5 DEF RecordDep
  <2>2. j \notin faulty => fn[c].args = ReadArgs(j)
    BY <2>1 DEF CallOK
  <2>3. Pending(c)' = {}
    BY <2>1 DEF Pending
  <2> HIDE DEF j, x
  <2>4. c \in Running'
    BY <2>1 DEF Running
  <2>5. j \notin faulty => /\ todo'[c] \cup Pending(c)' \subseteq ReadArgs(j)
                           /\ Wanted(ReadArgs(j)) \subseteq todo'[c]
    BY <2>1, <2>2, <2>3 DEF Wanted
  <2> QED BY <1>1, <2>1, <2>4, <2>5 DEF CallOK
<1>6. CASE CheckArg(c)
  <2>1. PICK r \in todo[c] :
          /\ pc[c] = "push"
          /\ pc'[c] = (IF MustPush(r) THEN "insert" ELSE "register")
          /\ todo'[c] = todo[c] \ {r} /\ pend'[c] = r /\ faulty' = faulty
    BY <1>6 DEF CheckArg
  <2>2. Pending(c) = {} /\ Pending(c)' = IF MustPush(r) THEN {r} ELSE {}
    BY <2>1 DEF Pending
  <2>3. MustPush(r) \/ (PushNewTarget => r \in Known')
    BY <1>1 DEF MustPush, Known
  <2>4. pc'[c] = "insert" => PushNewTarget
    BY <2>1 DEF MustPush
  <2>5. c \in Running'
    BY <2>1 DEF Running
  <2> HIDE DEF j, x
  <2>6. j \notin faulty =>
          /\ x \in recorded
          /\ todo'[c] \cup Pending(c)' \subseteq ReadArgs(j)
          /\ PushNewTarget => Wanted(ReadArgs(j)) \subseteq Known' \cup todo'[c] \cup Pending(c)'
    <3> SUFFICES ASSUME j \notin faulty PROVE
          /\ x \in recorded
          /\ todo'[c] \cup Pending(c)' \subseteq ReadArgs(j)
          /\ PushNewTarget => Wanted(ReadArgs(j)) \subseteq Known' \cup todo'[c] \cup Pending(c)'
      OBVIOUS
    <3>1. /\ x \in recorded
          /\ todo[c] \subseteq ReadArgs(j)
          /\ PushNewTarget => Wanted(ReadArgs(j)) \subseteq Known \cup todo[c]
      BY <2>1, <2>2 DEF CallOK, j, x
    <3>2. Pending(c)' \subseteq {r}
      BY <2>2
    <3> QED BY <1>1, <2>1, <2>2, <2>3, <3>1, <3>2
  <2> QED BY <1>1, <2>1, <2>4, <2>5, <2>6 DEF CallOK, Wanted
<1>7. CASE InsertArg(c)
  <2>1. /\ pc[c] = "insert" /\ pc'[c] = "register" /\ todo' = todo /\ faulty' = faulty
        /\ pend[c] \in Known'
    BY <1>7 DEF InsertArg, WithPushed, Known
  <2>2. Pending(c) = {pend[c]} /\ Pending(c)' = {}
    BY <2>1 DEF Pending
  <2> HIDE DEF j, x
  <2>3. j \notin faulty =>
          /\ x \in recorded
          /\ todo[c] \subseteq ReadArgs(j)
          /\ PushNewTarget => Wanted(ReadArgs(j)) \subseteq Known' \cup todo[c]
    BY <1>1, <2>1, <2>2 DEF CallOK, j, x
  <2> QED BY <1>1, <2>1, <2>2, <2>3 DEF CallOK, Running, Wanted
<1>8. CASE RegisterArg(c)
  <2>1. /\ pc[c] = "register" /\ pc'[c] = "push" /\ todo' = todo /\ faulty' = faulty
    BY <1>8 DEF RegisterArg
  <2>2. Pending(c) = {} /\ Pending(c)' = {}
    BY <2>1 DEF Pending
  <2> HIDE DEF j, x
  <2>3. j \notin faulty =>
          /\ x \in recorded
          /\ todo[c] \subseteq ReadArgs(j)
          /\ PushNewTarget => Wanted(ReadArgs(j)) \subseteq Known' \cup todo[c]
    BY <1>1, <2>1, <2>2 DEF CallOK, j, x
  <2> QED BY <1>1, <2>1, <2>2, <2>3 DEF CallOK, Running, Wanted
<1>9. CASE ReturnCall(c)
  <2>1. /\ pc[c] = "push" /\ pc'[c] = "done" /\ todo[c] = {} /\ faulty' = faulty
    BY <1>9 DEF ReturnCall
  <2>2. j \notin faulty => /\ x \in recorded
                           /\ PushNewTarget => Wanted(ReadArgs(j)) \subseteq Known
    BY <2>1 DEF CallOK, Pending
  <2>3. Sat(own[c], c)'
    BY <1>1, <2>1, <2>2 DEF Sat, MyJob, MyTarget, Wanted
  <2> QED BY <2>1, <2>3 DEF CallOK
<1> QED
  BY <1>2, <1>3, <1>4, <1>5, <1>6, <1>7, <1>8, <1>9 DEF CallStep

LEMMA StepProgress ==
  ASSUME TypeOK, Inline, Progress, NEW c \in Call, CallStep(c), UNCHANGED schedVars
  PROVE  Progress'
<1>1. /\ c \in Running /\ Running' \subseteq Running /\ own[c] = instr
      /\ \A d \in Running : d = c
  BY StepRunning DEF Inline, TypeOK
<1>2. /\ Known \subseteq Known' /\ own' = own /\ faulty \subseteq faulty'
      /\ visited' = visited /\ recorded \subseteq recorded'
      /\ \A d \in Call \ {c} : /\ pc'[d] = pc[d] /\ todo'[d] = todo[d]
                               /\ pend'[d] = pend[d] /\ fn'[d] = fn[d]
  BY StepKnown, StepTables DEF TypeOK
<1>3. CallOK(c)' /\ (c \in Running' \/ Sat(instr, c)')
  <2>1. CallOK(c) BY DEF Progress
  <2>2. CallOK(c)' /\ (c \in Running' \/ Sat(own[c], c)')
    BY <2>1, StepCallOK
  <2> QED BY <1>1, <1>2, <2>2 DEF Sat, schedVars
<1>4. \A d \in Call \ {c} : pc'[d] \in {"idle", "done"}
  BY <1>1, <1>2 DEF Running, TypeOK, CallTypeOK
<1>5. \A d \in Call : CallOK(d)'
  BY <1>3, <1>4 DEF CallOK
<1>6. \A i, d : Sat(i, d) => Sat(i, d)'
  BY <1>2 DEF Sat, Wanted
<1>7. target # NoTarget /\ TargetOK
  <2>1. target # NoTarget
    BY <1>1, NoTargetAssumption DEF Inline, Call
  <2> QED BY <2>1 DEF Progress
<1>8. TargetOK'
  <2>1. \A d \in Calls(instr, target) :
          InSeq(d[2], delayTodo) \/ d \in Running' \/ Sat(instr, d)'
    <3> SUFFICES ASSUME NEW d \in Calls(instr, target)
                 PROVE  InSeq(d[2], delayTodo) \/ d \in Running' \/ Sat(instr, d)'
      OBVIOUS
    <3>1. CASE d \in Running
      BY <1>1, <1>3, <3>1
    <3>2. CASE d \notin Running
      BY <1>2, <1>7, <3>2 DEF TargetOK, Sat, Wanted, schedVars
    <3> QED BY <3>1, <3>2
  <2>2. \A i \in Instr : i < instr => \A d \in Calls(i, target) : Sat(i, d)'
    BY <1>6, <1>7 DEF TargetOK
  <2> QED BY <1>2, <1>7, <2>1, <2>2 DEF TargetOK, schedVars
<1>9. \A d \in Running' : d \in Calls(instr', target')
  BY <1>1 DEF Progress, schedVars
<1> QED BY <1>5, <1>8, <1>9 DEF Progress, schedVars

(* Taking up a target: all its calls for the first instruction are to do.  *)
LEMMA TakeUpTargetOK ==
  ASSUME TypeOK, NEW t \in Targets, TakeUp(t),
         t \in Vecs => t \in VecsInUse,
         t \in Asvs => t \notin visited' \cup Skipped
  PROVE  TargetOK'
<1>1. CallDelays(1, t) \in Seq(Delays) /\ delayTodo' = CallDelays(1, t)
      /\ instr' = 1 /\ target' = t
  BY CallDelaysType, ConfigTypes DEF TakeUp
<1>2. \A x : InSeq(x, delayTodo') <=> x \in DelaySet(1, t)
  BY <1>1 DEF InSeq, DelaySet
<1>3. \A c \in Calls(1, t) : c[2] \in DelaySet(1, t)
  BY DEF Calls
<1>4. \A i \in Instr : ~(i < 1)
  BY DEF Instr
<1> QED BY <1>1, <1>2, <1>3, <1>4 DEF TargetOK

LEMMA NextProgress ==
  ASSUME TypeOK, Inline, Progress, [Next]_vars PROVE Progress'
<1> USE DEF TypeOK
<1>0. target = NoTarget => Running = {}
  BY NoTargetAssumption DEF Inline, Running, Call
<1>1. CASE TakeTarget
  <2>1. PICK t \in workSet :
          /\ workSet' = workSet \ {t}
          /\ IF t \in PassOver THEN UNCHANGED <<target, instr, delayTodo>> ELSE TakeUp(t)
    BY <1>1 DEF TakeTarget, Popped
  <2>2. t \in Asvs /\ t \in Targets /\ t \notin Vecs
    BY ConfigAssumption DEF CallTypeOK, Targets
  <2>3. target = NoTarget /\ Running' = {}
    BY <1>0, <1>1 DEF TakeTarget, Between, Running, locals
  <2>4. \A c \in Call : CallOK(c)'
    BY <2>3 DEF CallOK, Running
  <2>5. target' # NoTarget => TargetOK'
    <3>1. CASE t \in PassOver
      BY <2>1, <2>3, <3>1
    <3>2. CASE t \notin PassOver
      <4>1. TakeUp(t) /\ visited' = visited /\ t \notin visited \cup Skipped
        BY <1>1, <2>1, <3>2 DEF TakeTarget, PassOver
      <4> QED BY <2>2, <4>1, TakeUpTargetOK
    <3> QED BY <3>1, <3>2
  <2>6. vecTodo' = vecTodo
    BY <1>1 DEF TakeTarget
  <2> QED BY <2>3, <2>4, <2>5, <2>6 DEF Progress
<1>2. CASE TakeVec
  <2> DEFINE v == vecTodo[Len(vecTodo)]
  <2>1. v \in Vecs /\ v \in Targets /\ v \notin Asvs
    BY <1>2, ConfigAssumption DEF TakeVec, Targets
  <2>2. target = NoTarget /\ Running' = {} /\ TakeUp(v)
    BY <1>0, <1>2 DEF TakeVec, Between, Running, locals, callVars
  <2>3. \A c \in Call : CallOK(c)'
    BY <2>2 DEF CallOK, Running
  <2>4. \A x : InSeq(x, vecTodo) <=> x = v \/ InSeq(x, vecTodo')
    BY <1>2, InFront DEF TakeVec
  <2>5. v \in VecsInUse
    BY <2>4 DEF Progress
  <2> HIDE DEF v
  <2>6. TargetOK'
    BY <2>1, <2>2, <2>5, TakeUpTargetOK
  <2> QED BY <2>2, <2>3, <2>4, <2>6 DEF Progress
<1>3. CASE CallUpdate
  <2> DEFINE c == <<target, Head(delayTodo)>>
  <2>1. /\ c \in Call /\ Running = {} /\ StartCalls({c}, instr)
        /\ target # NoTarget /\ delayTodo # <<>> /\ delayTodo' = Tail(delayTodo)
    BY <1>3 DEF CallUpdate, CallOver, Call
  <2>2. UNCHANGED <<tables, faulty, phase, target, instr, vecTodo>>
    BY <1>3 DEF CallUpdate
  <2>3. InSeq(Head(delayTodo), delayTodo)
    BY <2>1 DEF InSeq
  <2>4. TargetOK
    BY <2>1 DEF Progress
  <2>5. c \in Calls(instr, target)
    BY <2>3, <2>4 DEF TargetOK, Calls
  <2>6. \A d \in Calls(instr, target) : d = <<target, d[2]>>
    BY DEF Calls
  <2>7. \A x : InSeq(x, delayTodo) => x = Head(delayTodo) \/ InSeq(x, delayTodo')
    BY <2>1, InTail
  <2>8. \A x : InSeq(x, delayTodo') => InSeq(x, delayTodo)
    BY <2>1, OfTail
  <2> HIDE DEF c
  <2>9. {c} \in SUBSET Call
    BY <2>1
  <2>10. Running' = {c}
    BY <2>1, <2>9, StartRunning
  <2>11. \A d \in Call : pc'[d] \in {"create", "idle", "done"}
    BY <2>1 DEF StartCalls, Running, CallTypeOK
  <2>12. \A d \in Call : CallOK(d)'
    BY <2>11 DEF CallOK
  <2>13. Known' = Known /\ \A i, d : Sat(i, d)' = Sat(i, d)
    BY <2>2 DEF Sat, Known, tables, Wanted
  <2>14. \A d \in Calls(instr, target) :
           InSeq(d[2], delayTodo') \/ d \in Running' \/ Sat(instr, d)'
    <3> SUFFICES ASSUME NEW d \in Calls(instr, target)
                 PROVE  InSeq(d[2], delayTodo') \/ d \in Running' \/ Sat(instr, d)'
      OBVIOUS
    <3>1. InSeq(d[2], delayTodo) \/ Sat(instr, d)
      BY <2>1, <2>4 DEF TargetOK
    <3>2. CASE d[2] = Head(delayTodo)
      BY <2>6, <2>10, <3>2 DEF c
    <3>3. Sat(instr, d) => Sat(instr, d)'
      BY <2>2, <2>13 DEF Sat, Wanted, tables
    <3> QED BY <2>7, <3>1, <3>2, <3>3
  <2>15. TargetOK'
    BY <2>2, <2>4, <2>8, <2>13, <2>14 DEF TargetOK, tables
  <2> QED BY <2>2, <2>5, <2>10, <2>12, <2>15 DEF Progress
<1>4. CASE NextInstr
  <2>1. /\ Running = {} /\ Running' = {} /\ target # NoTarget /\ delayTodo = <<>>
        /\ instr' = instr + 1 /\ instr' \in Instr
        /\ delayTodo' = CallDelays(instr', target)
        /\ UNCHANGED <<tables, faulty, target, vecTodo>>
    BY <1>4, RetireRunning, InstrsAssumption DEF NextInstr, InstrOver, CallOver, Instr
  <2>2. target \in Targets /\ TargetOK
    BY <2>1 DEF Progress
  <2>3. \A c \in Call : CallOK(c)'
    BY <2>1 DEF CallOK, Running
  <2>4. Known' = Known /\ \A i, d : Sat(i, d)' = Sat(i, d)
    BY <2>1 DEF Sat, Known, tables, Wanted
  <2>5. \A c \in Calls(instr, target) : Sat(instr, c)
    <3>1. \A x : ~InSeq(x, delayTodo)
      BY <2>1 DEF InSeq
    <3> QED BY <2>1, <2>2, <3>1 DEF TargetOK
  <2>6. \A i \in Instr : i < instr' => \A c \in Calls(i, target) : Sat(i, c)
    <3>1. \A i \in Instr : i < instr' => i < instr \/ i = instr
      BY <2>1 DEF Instr
    <3> QED BY <2>2, <2>5, <3>1 DEF TargetOK
  <2>7. \A x : InSeq(x, delayTodo') <=> x \in DelaySet(instr', target)
    BY <2>1, <2>2, CallDelaysType DEF InSeq, DelaySet
  <2>8. \A c \in Calls(instr', target) : c[2] \in DelaySet(instr', target)
    BY DEF Calls
  <2>9. TargetOK'
    BY <2>1, <2>2, <2>4, <2>6, <2>7, <2>8 DEF TargetOK, tables
  <2> QED BY <2>1, <2>3, <2>9 DEF Progress
<1>5. CASE FinishTarget
  <2>1. Running' = {} /\ target' = NoTarget /\ vecTodo' = vecTodo
    BY <1>5, RetireRunning DEF FinishTarget, InstrOver, CallOver
  <2> QED BY <2>1 DEF Progress, CallOK, Running
<1>6. CASE PrintResults
  <2>1. UNCHANGED <<callVars, target, vecTodo>> /\ target = NoTarget
    BY <1>6 DEF PrintResults, Between
  <2>2. Running' = {}
    BY <1>0, <2>1 DEF callVars, locals, Running
  <2> QED BY <2>1, <2>2 DEF Progress, CallOK, Running
<1>7. CASE CallNext
  BY <1>7, StepProgress DEF CallNext
<1>8. CASE Crash
  <2>1. /\ \A c \in Call : pc'[c] = "idle"
        /\ target' = NoTarget /\ vecTodo' = AllowedVecs
    BY <1>8 DEF Crash, CallCrash
  <2> QED BY <2>1 DEF Progress, CallOK, Running, InSeq, VecsInUse
<1>9. CASE UNCHANGED vars
  BY <1>9 DEF vars, callVars, schedVars, tables, locals, Progress, TargetOK, CallOK,
     Running, Sat, Known, Wanted, Pending, MyJob, MyTarget, InSeq
<1> QED
  BY <1>1, <1>2, <1>3, <1>4, <1>5, <1>6, <1>7, <1>8, <1>9 DEF Next, MainStep

(* When a target is finished with, all its functions depend on is known.   *)
LEMMA FinishedKnown ==
  ASSUME TypeOK, Progress, FinishTarget, faulty = {}
  PROVE  WantedDeps(target) \subseteq Known
<1>1. /\ target \in Targets /\ delayTodo = <<>> /\ Running = {} /\ instr = NumInstrs
      /\ TargetOK
  BY DEF TypeOK, FinishTarget, InstrOver, CallOver, LastInstr, Progress
<1>2. \A x : ~InSeq(x, delayTodo)
  BY <1>1 DEF InSeq
<1>3. \A i \in Instr : \A c \in Calls(i, target) : Sat(i, c)
  <2>1. \A i \in Instr : i < instr \/ i = instr
    BY <1>1, InstrsAssumption DEF Instr
  <2> QED BY <1>1, <1>2, <2>1 DEF TargetOK
<1>4. CASE PushNewTarget
  <2>1. \A i \in Instr : \A c \in Calls(i, target) : Wanted(ReadArgs(<<i, c>>)) \subseteq Known
    BY <1>3, <1>4 DEF Sat
  <2> SUFFICES ASSUME NEW r \in WantedDeps(target) PROVE r \in Known
    OBVIOUS
  <2>2. PICK i \in Instr : r \in UNION {ReadArgs(<<i, c>>) : c \in Calls(i, target)}
    BY <1>4 DEF WantedDeps, Deps, Wanted
  <2>3. PICK c \in Calls(i, target) : r \in ReadArgs(<<i, c>>)
    BY <2>2
  <2>4. r \notin Skipped
    BY DEF WantedDeps, Wanted
  <2> QED BY <2>1, <2>3, <2>4 DEF Wanted
<1>5. CASE ~PushNewTarget
  BY <1>5 DEF WantedDeps, Deps, Wanted
<1> QED BY <1>4, <1>5
-----------------------------------------------------------------------------
(* The one step that finds a new register, and the one that ends a target, *)
(* seen from DepClosure.                                                   *)
LEMMA InsertedIsDep ==
  ASSUME TypeOK, Inline, Progress, NEW c \in Call, InsertArg(c), faulty = {}
  PROVE  /\ target \in Targets /\ TargetOK
         /\ pend[c] \in Deps(target)
<1>1. c \in Running /\ own[c] = instr /\ instr \in Instr /\ pc[c] = "insert"
  BY DEF InsertArg, At, Running, Inline, TypeOK
<1>2. c \in Calls(instr, target) /\ CallOK(c)
  BY <1>1 DEF Progress
<1>3. target \in Targets
  <2>1. target = c[1] /\ c[1] \in Targets
    BY <1>1 DEF Inline, Call
  <2> QED BY <2>1
<1>4. PushNewTarget /\ pend[c] \in ReadArgs(<<instr, c>>)
  BY <1>1, <1>2 DEF CallOK, Pending, MyJob
<1>5. pend[c] \in Deps(target)
  <2>1. ReadArgs(<<instr, c>>) \in {ReadArgs(<<instr, d>>) : d \in Calls(instr, target)}
    BY <1>2
  <2> QED BY <1>1, <1>4, <2>1 DEF Deps
<1> QED BY <1>3, <1>5, NoTargetAssumption DEF Progress

LEMMA TargetKnown ==
  ASSUME TypeOK, TargetOK, target \in Asvs
  PROVE  target \in Wanted(Known) /\ target \notin Wanted(visited)
BY DEF TargetOK, Known, Wanted

LEMMA StepImplements ==
  ASSUME TypeOK, Inline, Progress, [Next]_vars
  PROVE  [Closure!CNext]_(Closure!cvars)
<1> USE DEF Closure!CNext, Closure!cvars
<1>1. CASE MainSame
  BY <1>1, SameKnown DEF Wanted
<1>2. CASE FinishTarget
  <2> DEFINE T == Wanted(TargetRegs)
  <2>1. /\ TargetRegs \subseteq Asvs
        /\ Known' = Known \cup TargetRegs /\ visited' = visited \cup TargetRegs
        /\ faulty' = faulty
    BY <1>2, FinishKnown
  <2>2. target \in Targets /\ TargetOK
    BY <1>2 DEF FinishTarget, InstrOver, Progress, TypeOK
  <2>3. ASSUME faulty = {}, NEW t \in T PROVE Closure!Finished(t)
    <3>1. WantedDeps(target) \subseteq Wanted(Known)
      BY <1>2, <2>3, FinishedKnown DEF WantedDeps, Wanted
    <3>2. CASE target \in Vecs
      <4>1. target \in VecsInUse /\ t \in WantedVecRegs(target)
        BY <2>2, <2>3, <3>2 DEF TargetOK, TargetRegs, WantedVecRegs
      <4> QED BY <3>1, <4>1 DEF Closure!Finished
    <3>3. CASE target \notin Vecs
      <4>1. t = target /\ t \in Wanted(Known)
        BY <2>2, <2>3, <3>3, TargetKnown DEF TargetRegs, Wanted, Targets
      <4> QED BY <3>1, <4>1 DEF Closure!Finished
    <3> QED BY <3>2, <3>3
  <2>4. /\ Wanted(Known)' = Wanted(Known) \cup T /\ Wanted(visited)' = Wanted(visited) \cup T
        /\ T \in SUBSET Asvs
    BY <2>1 DEF Wanted
  <2> HIDE DEF T
  <2>5. Closure!Complete(T)
    BY <2>1, <2>3, <2>4 DEF Closure!Complete
  <2> QED BY <2>4, <2>5
<1>3. CASE CallNext
  <2>1. PICK c \in Call : CallStep(c) /\ UNCHANGED schedVars
    BY <1>3 DEF CallNext
  <2>2. /\ Known' = IF InsertArg(c) THEN Known \cup {pend[c]} ELSE Known
        /\ visited' = visited
        /\ faulty' = faulty \/ (ReadClean(c) /\ faulty' = faulty \cup {MyJob(c)})
    BY <2>1, StepKnown
  <2>3. CASE InsertArg(c)
    <3>1. faulty' = faulty
      BY <2>3 DEF InsertArg
    <3>2. CASE pend[c] \in Skipped
      BY <2>2, <2>3, <3>1, <3>2 DEF Wanted
    <3>3. CASE pend[c] \notin Skipped
      <4>1. pend[c] \in Asvs
        BY <2>3 DEF InsertArg, At, TypeOK, CallTypeOK, LocalsOK
      <4>2. Wanted(Known)' = Wanted(Known) \cup {pend[c]} /\ Wanted(visited)' = Wanted(visited)
        BY <2>2, <2>3, <3>3 DEF Wanted
      <4>3. faulty # {} \/ \E t \in Asvs \cup VecsInUse :
                             Closure!Eligible(t) /\ pend[c] \in WantedDeps(t)
        <5>1. CASE faulty = {}
          <6>1. /\ target \in Targets /\ TargetOK
                /\ pend[c] \in WantedDeps(target)
            BY <2>3, <3>3, <5>1, InsertedIsDep DEF WantedDeps, Wanted
          <6>2. target \in Asvs \cup VecsInUse /\ Closure!Eligible(target)
            BY <6>1, TargetKnown DEF Targets, TargetOK, Closure!Eligible
          <6> QED BY <6>1, <6>2
        <5> QED BY <5>1
      <4>4. Closure!Discover(pend[c])
        BY <3>1, <4>2, <4>3 DEF Closure!Discover
      <4> QED BY <4>1, <4>4
    <3> QED BY <3>2, <3>3
  <2>4. CASE ~InsertArg(c)
    <3>1. Wanted(Known)' = Wanted(Known) /\ Wanted(visited)' = Wanted(visited)
      BY <2>2, <2>4 DEF Wanted
    <3> QED BY <2>2, <3>1 DEF Closure!Degrade
  <2> QED BY <2>3, <2>4
<1>4. CASE Crash
  <2>1. /\ workSet' = InitialWork /\ visited' = {} /\ faulty' = {} /\ target' = NoTarget
    BY <1>4 DEF Crash, CallCrash
  <2>2. Known' = InitialWork
    BY <2>1, NoTargetAssumption DEF Known, Targets
  <2>3. Closure!Restart
    BY <2>1, <2>2 DEF Closure!Restart, Wanted
  <2> QED BY <2>3
<1>5. CASE UNCHANGED vars
  BY <1>5 DEF vars, callVars, schedVars, tables, Known, Wanted
<1> QED BY <1>1, <1>2, <1>3, <1>4, <1>5 DEF Next, MainStep, MainSame

(* The single-threaded schedule implements DepClosure: every register it   *)
(* takes up is one of the first targets or one that a function of an       *)
(* unfinished target depends on, and it is finished with a target only     *)
(* when all of that is known.                                              *)
THEOREM SeqImplementsClosure == Spec => ImplementsClosure
<1>1. Init => Closure!CInit
  BY NoTargetAssumption DEF Init, CallInit, Closure!CInit, Known, Wanted, Targets
<1> QED
  BY <1>1, StepImplements, InitTypeOK, NextTypeOK, InitInline, NextInline,
     InitProgress, NextProgress, PTL DEF Spec, ImplementsClosure, Closure!CSpec
-----------------------------------------------------------------------------
(* What is known is between the first targets and every closed set; what a *)
(* finished register depends on is known, and a vector not waiting and not *)
(* in hand is covered.                                                     *)
VecDone(v) ==
  InSeq(v, vecTodo) \/ v = target \/ WantedVecRegs(v) \cup WantedDeps(v) \subseteq Known

Closed ==
  /\ Wanted(InitialWork) \subseteq Known
  /\ faulty = {} =>
       /\ \A t \in Wanted(visited) : \/ WantedDeps(t) \subseteq Known
                                     \/ \E v \in VecsInUse : t \in VecRegs[v]
       /\ \A v \in VecsInUse : VecDone(v)
       /\ \A T \in SUBSET Asvs : IsClosed(T) => Wanted(Known) \subseteq T

LEMMA InitClosed == Init => Closed
<1> SUFFICES ASSUME Init PROVE Closed OBVIOUS
<1>1. visited = {} /\ Known = InitialWork
  BY NoTargetAssumption DEF Init, CallInit, Known, Targets
<1>2. \A v \in VecsInUse : VecDone(v)
  BY DEF Init, VecDone, InSeq, VecsInUse
<1> QED BY <1>1, <1>2 DEF Closed, Wanted, IsClosed

(* Nothing is lost when what is known grows and no vector leaves the list. *)
LEMMA GrowClosed ==
  ASSUME Closed, Wanted(Known) \subseteq Wanted(Known)',
         visited' = visited, faulty \subseteq faulty',
         \A v \in VecsInUse : InSeq(v, vecTodo) => InSeq(v, vecTodo') \/ v = target',
         target \in VecsInUse => target' = target,
         faulty = {} => \A T \in SUBSET Asvs : IsClosed(T) => Wanted(Known)' \subseteq T
  PROVE  Closed'
<1>1. Wanted(InitialWork) \subseteq Known'
  BY DEF Closed, Wanted
<1>2. \A t : /\ WantedDeps(t) \subseteq Known => WantedDeps(t) \subseteq Known'
             /\ WantedVecRegs(t) \subseteq Known => WantedVecRegs(t) \subseteq Known'
  BY DEF WantedDeps, WantedVecRegs, Wanted
<1>3. ASSUME faulty' = {}
      PROVE  /\ \A t \in Wanted(visited') : \/ WantedDeps(t) \subseteq Known'
                                            \/ \E v \in VecsInUse : t \in VecRegs[v]
             /\ \A v \in VecsInUse : VecDone(v)'
             /\ \A T \in SUBSET Asvs : IsClosed(T) => Wanted(Known)' \subseteq T
  <2>1. faulty = {}
    BY <1>3
  <2>2. \A v \in VecsInUse : VecDone(v)'
    <3> SUFFICES ASSUME NEW v \in VecsInUse PROVE VecDone(v)'
      OBVIOUS
    <3>1. VecDone(v)
      BY <2>1 DEF Closed
    <3> QED BY <1>2, <3>1 DEF VecDone
  <2> QED BY <1>2, <2>1, <2>2 DEF Closed
<1> QED BY <1>1, <1>3 DEF Closed, Wanted

LEMMA NextClosed ==
  ASSUME TypeOK, Inline, Progress, Closed, [Next]_vars PROVE Closed'
<1>0. /\ VecsInUse \subseteq Vecs /\ NoTarget \notin Asvs /\ NoTarget \notin VecsInUse
      /\ VecsInUse \cap Asvs = {}
  BY NoTargetAssumption, ConfigAssumption DEF VecsInUse, Targets
<1>1. CASE TakeVec
  <2>1. Wanted(Known)' = Wanted(Known) /\ visited' = visited /\ faulty' = faulty
    BY <1>1, SameKnown DEF MainSame
  <2>2. \A x : InSeq(x, vecTodo) <=> x = target' \/ InSeq(x, vecTodo')
    BY <1>1, InFront DEF TakeVec, TakeUp, TypeOK
  <2>3. target = NoTarget
    BY <1>1 DEF TakeVec, Between
  <2>4. faulty = {} => \A T \in SUBSET Asvs : IsClosed(T) => Wanted(Known)' \subseteq T
    BY <2>1 DEF Closed
  <2> QED BY <1>0, <2>1, <2>2, <2>3, <2>4, GrowClosed
<1>2. CASE TakeTarget \/ CallUpdate \/ NextInstr \/ PrintResults
  <2>1. Wanted(Known)' = Wanted(Known) /\ visited' = visited /\ faulty' = faulty
    BY <1>2, SameKnown DEF MainSame
  <2>2. vecTodo' = vecTodo /\ (target \in VecsInUse => target' = target)
    BY <1>0, <1>2 DEF TakeTarget, Between, CallUpdate, NextInstr, PrintResults
  <2>3. faulty = {} => \A T \in SUBSET Asvs : IsClosed(T) => Wanted(Known)' \subseteq T
    BY <2>1 DEF Closed
  <2> QED BY <2>1, <2>2, <2>3, GrowClosed
<1>3. CASE FinishTarget
  <2>1. /\ TargetRegs \subseteq Asvs
        /\ Known' = Known \cup TargetRegs /\ visited' = visited \cup TargetRegs
        /\ faulty' = faulty /\ target' = NoTarget /\ vecTodo' = vecTodo
    BY <1>3, FinishKnown DEF FinishTarget
  <2>2. target \in Targets /\ TargetOK
    BY <1>3 DEF FinishTarget, InstrOver, Progress, TypeOK
  <2>3. faulty = {} => WantedDeps(target) \subseteq Known
    BY <1>3, FinishedKnown
  <2>4. ASSUME faulty = {}, NEW t \in Wanted(visited')
        PROVE  WantedDeps(t) \subseteq Known' \/ \E v \in VecsInUse : t \in VecRegs[v]
    <3>1. CASE t \in Wanted(visited)
      <4>1. WantedDeps(t) \subseteq Known \/ \E v \in VecsInUse : t \in VecRegs[v]
        BY <2>4, <3>1 DEF Closed
      <4> QED BY <2>1, <4>1
    <3>2. CASE t \notin Wanted(visited)
      <4>1. t \in TargetRegs
        BY <2>1, <2>4, <3>2 DEF Wanted
      <4> QED BY <2>1, <2>2, <2>3, <2>4, <4>1 DEF TargetRegs, TargetOK
    <3> QED BY <3>1, <3>2
  <2>5. ASSUME faulty = {}, NEW v \in VecsInUse PROVE VecDone(v)'
    <3>1. VecDone(v)
      BY <2>5 DEF Closed
    <3>2. CASE v = target
      <4>1. TargetRegs = VecRegs[v]
        BY <1>0, <3>2 DEF TargetRegs
      <4>2. WantedVecRegs(v) \cup WantedDeps(v) \subseteq Known'
        BY <2>1, <2>3, <2>5, <3>2, <4>1 DEF WantedVecRegs, Wanted
      <4> QED BY <4>2 DEF VecDone
    <3>3. CASE v # target
      BY <2>1, <3>1, <3>3 DEF VecDone
    <3> QED BY <3>2, <3>3
  <2>6. ASSUME faulty = {}, NEW T \in SUBSET Asvs, IsClosed(T)
        PROVE  Wanted(Known') \subseteq T
    <3>1. Wanted(Known) \subseteq T
      BY <2>6 DEF Closed
    <3>2. CASE target \in Vecs
      <4>1. Wanted(TargetRegs) \subseteq T
        BY <2>2, <2>6, <3>2 DEF TargetOK, TargetRegs, IsClosed, WantedVecRegs
      <4> QED BY <2>1, <3>1, <4>1 DEF Wanted
    <3>3. CASE target \notin Vecs
      <4>1. target \in Wanted(Known) /\ TargetRegs = {target}
        BY <2>2, <3>3, TargetKnown DEF TargetRegs, Targets
      <4> QED BY <2>1, <3>1, <4>1 DEF Wanted
    <3> QED BY <3>2, <3>3
  <2>7. Wanted(InitialWork) \subseteq Known'
    BY <2>1 DEF Closed
  <2> QED BY <2>1, <2>4, <2>5, <2>6, <2>7 DEF Closed, Wanted
<1>4. CASE CallNext
  <2>1. PICK c \in Call : CallStep(c) /\ UNCHANGED schedVars
    BY <1>4 DEF CallNext
  <2>2. /\ Known' = IF InsertArg(c) THEN Known \cup {pend[c]} ELSE Known
        /\ visited' = visited /\ faulty \subseteq faulty'
    BY <2>1, StepKnown
  <2>3. Wanted(Known) \subseteq Wanted(Known)'
    BY <2>2 DEF Wanted
  <2>4. ASSUME faulty = {}, NEW T \in SUBSET Asvs, IsClosed(T)
        PROVE  Wanted(Known)' \subseteq T
    <3>1. Wanted(Known) \subseteq T
      BY <2>4 DEF Closed
    <3>2. CASE InsertArg(c)
      <4>1. target \in Targets /\ TargetOK /\ pend[c] \in Deps(target)
        BY <2>4, <3>2, InsertedIsDep
      <4>2. WantedDeps(target) \subseteq T
        <5>1. CASE target \in Asvs
          <6>1. target \in Wanted(Known)
            BY <4>1, <5>1, TargetKnown
          <6>2. target \in T
            BY <3>1, <6>1
          <6> QED BY <2>4, <6>2 DEF IsClosed
        <5>2. CASE target \in Vecs
          BY <2>4, <4>1, <5>2 DEF IsClosed, TargetOK
        <5> QED BY <4>1, <5>1, <5>2 DEF Targets
      <4> QED BY <2>2, <3>1, <3>2, <4>1, <4>2 DEF WantedDeps, Wanted
    <3>3. CASE ~InsertArg(c)
      BY <2>2, <3>1, <3>3 DEF Wanted
    <3> QED BY <3>2, <3>3
  <2> QED BY <2>1, <2>2, <2>3, <2>4, GrowClosed DEF schedVars
<1>5. CASE Crash
  <2>1. /\ workSet' = InitialWork /\ visited' = {} /\ target' = NoTarget
        /\ vecTodo' = AllowedVecs
    BY <1>5 DEF Crash, CallCrash
  <2>2. Known' = InitialWork
    BY <1>0, <2>1 DEF Known
  <2>3. \A v \in VecsInUse : VecDone(v)'
    BY <2>1 DEF VecDone, InSeq, VecsInUse
  <2> QED BY <2>1, <2>2, <2>3 DEF Closed, Wanted, IsClosed
<1>6. CASE UNCHANGED vars
  BY <1>6 DEF vars, callVars, schedVars, tables, Closed, Known, Wanted, VecDone, InSeq
<1> QED
  BY <1>1, <1>2, <1>3, <1>4, <1>5, <1>6 DEF Next, MainStep

(* When the results are printed and no call went wrong, the registers      *)
(* worked on are exactly the closure of the first targets.                 *)
THEOREM SeqVisitedIsClosure == Spec => []VisitedIsClosure
<1>1. TypeOK /\ Inline /\ Closed => VisitedIsClosure
  <2> SUFFICES ASSUME TypeOK, Inline, Closed, phase = "printed", faulty = {}
               PROVE  CoversExactly(Wanted(visited))
    BY DEF VisitedIsClosure
  <2>1. target = NoTarget /\ workSet = {} /\ \A v : ~InSeq(v, vecTodo)
    BY DEF Inline, InSeq
  <2>2. Known = visited
    BY <2>1, NoTargetAssumption DEF Known, Targets
  <2>3. \A S : Wanted(S) \subseteq Known => Wanted(S) \subseteq Wanted(visited)
    BY <2>2 DEF Wanted
  <2>4. \A v \in VecsInUse : WantedVecRegs(v) \cup WantedDeps(v) \subseteq Known
    <3>1. \A v \in VecsInUse : v # NoTarget
      BY NoTargetAssumption, ConfigAssumption DEF VecsInUse, Targets
    <3> QED BY <2>1, <3>1 DEF Closed, VecDone
  <2>5. \A v \in VecsInUse : WantedVecRegs(v) \cup WantedDeps(v) \subseteq Wanted(visited)
    BY <2>3, <2>4 DEF WantedVecRegs, WantedDeps
  <2>6. \A t \in Wanted(visited) : \/ WantedDeps(t) \subseteq Wanted(visited)
                                   \/ \E v \in VecsInUse : t \in VecRegs[v]
    BY <2>3 DEF Closed, WantedDeps
  <2> QED BY <2>2, <2>3, <2>5, <2>6 DEF CoversExactly, Closed
<1> QED
  BY <1>1, InitTypeOK, NextTypeOK, InitInline, NextInline, InitProgress, NextProgress,
     InitClosed, NextClosed, PTL DEF Spec
-----------------------------------------------------------------------------
(* Of several delays the first is called for first: as long as its call    *)
(* has not run nothing is on record, from then on its arguments are.       *)
FirstCall(i, t) == <<t, CallDelays(i, t)[1]>>

Begun ==
  target # NoTarget =>
    \/ delayTodo = CallDelays(instr, target) /\ Running = {}
    \/ FirstCall(instr, target) \in Running
    \/ <<instr, FirstCall(instr, target)>> \in faulty
    \/ <<instr, target>> \in recorded

FirstInv == Begun /\ FirstDelayRecorded

LEMMA FirstCallType ==
  ASSUME NEW i \in Instr, NEW t \in Targets
  PROVE  FirstCall(i, t) \in Calls(i, t) /\ FirstCall(i, t) \in Call
BY CallsNonEmpty, CallsType DEF FirstCall

LEMMA SameFirst ==
  ASSUME FirstDelayRecorded, recorded' = recorded, dep' = dep, faulty' = faulty
  PROVE  FirstDelayRecorded'
BY DEF FirstDelayRecorded

LEMMA StepFirst ==
  ASSUME TypeOK, Inline, Progress, FirstInv,
         NEW c \in Call, CallStep(c), UNCHANGED schedVars
  PROVE  FirstInv'
<1>1. /\ c \in Running /\ own[c] = instr /\ c[1] = target /\ \A d \in Running : d = c
      /\ instr \in Instr /\ target \in Targets /\ target # NoTarget
      /\ instr' = instr /\ target' = target /\ own' = own
  <2>1. /\ c \in Running /\ own[c] = instr /\ c[1] = target /\ \A d \in Running : d = c
        /\ own' = own
    BY StepRunning DEF Inline, TypeOK
  <2>2. c[1] \in Targets
    BY DEF Call
  <2> QED BY <2>1, <2>2, NoTargetAssumption DEF TypeOK, schedVars
<1>2. /\ faulty \subseteq faulty' /\ recorded \subseteq recorded'
      /\ \A x \in recorded : dep'[x] = dep[x]
      /\ recorded' # recorded => RecordDep(c)
  BY StepTables, StepDep DEF TypeOK
<1>3. CallOK(c) /\ CallOK(c)' /\ (c \in Running' \/ Sat(instr, c)')
  <2>1. CallOK(c) BY DEF Progress
  <2>2. CallOK(c)' /\ (c \in Running' \/ Sat(own[c], c)')
    BY <2>1, StepCallOK
  <2> QED BY <1>1, <2>1, <2>2 DEF Sat
<1>4. \/ FirstCall(instr, target) = c
      \/ <<instr, FirstCall(instr, target)>> \in faulty
      \/ <<instr, target>> \in recorded
  BY <1>1 DEF FirstInv, Begun
<1>5. Begun'
  <2>1. CASE FirstCall(instr, target) = c
    <3>1. c \in Running' \/ <<instr, c>> \in faulty' \/ <<instr, c[1]>> \in recorded'
      BY <1>1, <1>3 DEF Sat
    <3> QED BY <1>1, <2>1, <3>1 DEF Begun, FirstCall
  <2>2. CASE FirstCall(instr, target) # c
    BY <1>1, <1>2, <1>4, <2>2 DEF Begun, FirstCall
  <2> QED BY <2>1, <2>2
<1>6. ASSUME NEW x \in recorded', <<x[1], FirstCall(x[1], x[2])>> \notin faulty'
      PROVE  dep'[x] = ReadArgs(<<x[1], FirstCall(x[1], x[2])>>)
  <2>1. CASE x \in recorded
    BY <1>2, <1>6, <2>1 DEF FirstInv, FirstDelayRecorded, FirstCall
  <2>2. CASE x \notin recorded
    <3>1. RecordDep(c) /\ x = MyTarget(c)
      BY <1>2, <2>2 DEF RecordDep
    <3>2. x = <<instr, target>> /\ x \in Instr \X Targets
      BY <1>1, <3>1 DEF MyTarget
    <3>3. dep'[x] = fn[c].args /\ pc[c] = "record" /\ faulty' = faulty
      BY <2>2, <3>1, <3>2 DEF RecordDep, FirstArgs, At, TypeOK, CallTypeOK
    <3>4. FirstCall(instr, target) = c
      BY <1>4, <1>6, <2>2, <3>2, <3>3
    <3>5. fn[c].args = ReadArgs(<<instr, c>>)
      BY <1>1, <1>3, <1>6, <3>2, <3>3, <3>4 DEF CallOK, MyJob
    <3> QED BY <3>2, <3>3, <3>4, <3>5
  <2> QED BY <2>1, <2>2
<1> QED BY <1>5, <1>6 DEF FirstInv, FirstDelayRecorded, FirstCall

LEMMA NextFirst ==
  ASSUME TypeOK, Inline, Progress, FirstInv, [Next]_vars PROVE FirstInv'
<1> USE DEF TypeOK
<1>0. NoTarget \notin Targets /\ Asvs \subseteq Targets /\ Vecs \subseteq Targets
  BY NoTargetAssumption DEF Targets
<1>1. CASE TakeTarget \/ TakeVec
  <2>1. /\ recorded' = recorded /\ dep' = dep /\ faulty' = faulty
        /\ target = NoTarget /\ UNCHANGED locals
        /\ target' = NoTarget \/ (delayTodo' = CallDelays(1, target') /\ instr' = 1)
    BY <1>1 DEF TakeTarget, TakeVec, Between, TakeUp, callVars, tables
  <2>2. Running' = {}
    BY <1>0, <2>1 DEF Inline, Running, Call, locals
  <2> QED BY <2>1, <2>2, SameFirst DEF FirstInv, Begun
<1>2. CASE CallUpdate
  <2> DEFINE c == <<target, Head(delayTodo)>>
  <2>1. /\ c \in Call /\ Running = {} /\ StartCalls({c}, instr)
        /\ target \in Targets /\ target # NoTarget /\ delayTodo # <<>>
        /\ UNCHANGED <<recorded, dep, faulty, target, instr>>
    BY <1>2 DEF CallUpdate, CallOver, Call, tables
  <2>2. {c} \in SUBSET Call
    BY <2>1
  <2>3. Running' = {c}
    <3> HIDE DEF c
    <3> QED BY <2>1, <2>2, StartRunning
  <2>4. delayTodo = CallDelays(instr, target) => c = FirstCall(instr, target)
    BY <2>1 DEF FirstCall
  <2>5. Begun
    BY DEF FirstInv
  <2> HIDE DEF c
  <2>6. Begun'
    BY <2>1, <2>3, <2>4, <2>5 DEF Begun, FirstCall
  <2> QED BY <2>1, <2>6, SameFirst DEF FirstInv
<1>3. CASE NextInstr
  <2>1. /\ recorded' = recorded /\ dep' = dep /\ faulty' = faulty /\ target' = target
        /\ instr' = instr + 1 /\ delayTodo' = CallDelays(instr', target) /\ Running' = {}
    BY <1>3, RetireRunning DEF NextInstr, InstrOver, CallOver, tables
  <2> QED BY <2>1, SameFirst DEF FirstInv, Begun
<1>4. CASE FinishTarget
  BY <1>4, SameFirst DEF FinishTarget, FirstInv, Begun
<1>5. CASE PrintResults
  <2>1. recorded' = recorded /\ dep' = dep /\ faulty' = faulty /\ target' = NoTarget
    BY <1>5 DEF PrintResults, Between, callVars, tables
  <2> QED BY <2>1, SameFirst DEF FirstInv, Begun
<1>6. CASE CallNext
  BY <1>6, StepFirst DEF CallNext
<1>7. CASE Crash
  BY <1>7 DEF Crash, CallCrash, FirstInv, Begun, FirstDelayRecorded
<1>8. CASE UNCHANGED vars
  BY <1>8 DEF vars, callVars, schedVars, tables, locals, FirstInv, Begun, FirstDelayRecorded,
     Running
<1> QED
  BY <1>1, <1>2, <1>3, <1>4, <1>5, <1>6, <1>7, <1>8 DEF Next, MainStep

(* Of several delays allowed for a register, the arguments on record are   *)
(* those of its function for the first one, unless that job went wrong.    *)
THEOREM SeqFirstDelayRecorded == Spec => []FirstDelayRecorded
<1>1. Init => FirstInv
  BY DEF Init, CallInit, FirstInv, Begun, FirstDelayRecorded
<1>2. FirstInv => FirstDelayRecorded
  BY DEF FirstInv
<1> QED
  BY <1>1, <1>2, InitTypeOK, NextTypeOK, InitInline, NextInline, InitProgress, NextProgress,
     NextFirst, PTL DEF Spec
-----------------------------------------------------------------------------
(* The list of files to link, for designs without two targets that share   *)
(* their files and an allowed_target.txt that names no delay twice.        *)
NoRepeat(s)    == \A j, k \in DOMAIN s : s[j] = s[k] => j = k
DistinctDelays == \A t \in DOMAIN Allowed : NoRepeat(Allowed[t])

(* Call c for instruction i is still to be made.                           *)
ToMake(i, c) ==
  \/ c[1] # target /\ (c[1] \in Asvs \ visited \/ InSeq(c[1], vecTodo))
  \/ c[1] = target /\ (instr < i \/ (i = instr /\ InSeq(c[2], delayTodo)))

Linked(i, c) == <<i, c>> \in faulty \/ linked[Key(i, c)] = 1

(* Nothing is to be done twice: no call that is to be made has its file in *)
(* the list, and no list of what is to do names the same thing again.      *)
OnceOnly ==
  /\ \A i \in Instr : \A c \in Call : ToMake(i, c) => linked[Key(i, c)] = 0
  /\ NoRepeat(vecTodo) /\ NoRepeat(delayTodo)
  /\ target \in Vecs => ~InSeq(target, vecTodo)
  /\ \A c \in Running : ~InSeq(c[2], delayTodo)

(* Nothing is left out: the target in hand has calls to make, under way or *)
(* linked, and all functions of the other targets on record are linked.    *)
AllLinked ==
  /\ target # NoTarget =>
       \A c \in Calls(instr, target) :
         InSeq(c[2], delayTodo) \/ pc[c] \in BeforeName \/ Linked(instr, c)
  /\ \A x \in recorded : x # <<instr, target>> =>
       \A c \in Calls(x[1], x[2]) : Linked(x[1], c)

LinksOK == OneLink /\ OnceOnly /\ AllLinked

LEMMA InitLinks == Init => LinksOK
<1> SUFFICES ASSUME Init PROVE LinksOK OBVIOUS
<1>1. /\ \A c \in Call : pc[c] = "idle"
      /\ \A i \in Instr : \A c \in Call : linked[Key(i, c)] = 0
  BY KeyType DEF Init, CallInit, IdleLocals
<1>2. NoRepeat(AllowedVecs)
  BY ConfigAssumption DEF NoRepeat
<1>3. OneLink
  BY <1>1 DEF OneLink, BeforeName
<1>4. Running = {} /\ recorded = {} /\ target = NoTarget /\ target \notin Vecs
  BY <1>1, NoTargetAssumption DEF Running, Init, CallInit, Targets
<1>5. vecTodo = AllowedVecs /\ delayTodo = <<>>
  BY DEF Init
<1> QED BY <1>1, <1>2, <1>3, <1>4, <1>5 DEF LinksOK, OnceOnly, AllLinked, NoRepeat

(* Delays of a target come once each.                                      *)
LEMMA CallDelaysOnce ==
  ASSUME DistinctDelays, NEW i \in Instr, NEW t \in Targets
  PROVE  /\ NoRepeat(CallDelays(i, t))
         /\ \A x : InSeq(x, CallDelays(i, t)) <=> x \in DelaySet(i, t)
<1>1. NoRepeat(CallDelays(i, t))
  <2>1. CASE t \in DOMAIN Allowed /\ Len(Allowed[t]) > 1
    BY <2>1 DEF DistinctDelays, CallDelays
  <2>2. CASE ~(t \in DOMAIN Allowed /\ Len(Allowed[t]) > 1)
    <3>1. CallDelays(i, t) = <<DelayBound(i, t)>>
      BY <2>2 DEF CallDelays
    <3> QED BY <3>1 DEF NoRepeat
  <2> QED BY <2>1, <2>2
<1>2. \A x : InSeq(x, CallDelays(i, t)) <=> x \in DelaySet(i, t)
  BY DEF InSeq, DelaySet
<1> QED BY <1>1, <1>2

LEMMA TailOnce ==
  ASSUME NEW S, NEW s \in Seq(S), s # <<>>, NoRepeat(s)
  PROVE  NoRepeat(Tail(s)) /\ ~InSeq(Head(s), Tail(s))
<1>1. \A k \in DOMAIN Tail(s) : k + 1 \in DOMAIN s /\ Tail(s)[k] = s[k + 1] /\ k + 1 # 1
  OBVIOUS
<1>2. Head(s) = s[1] /\ 1 \in DOMAIN s /\ \A j, k \in DOMAIN Tail(s) : j + 1 = k + 1 => j = k
  OBVIOUS
<1> QED BY <1>1, <1>2 DEF NoRepeat, InSeq

LEMMA FrontOnce ==
  ASSUME NEW S, NEW s \in Seq(S), s # <<>>, NoRepeat(s)
  PROVE  LET f == SubSeq(s, 1, Len(s) - 1) IN NoRepeat(f) /\ ~InSeq(s[Len(s)], f)
<1> DEFINE f == SubSeq(s, 1, Len(s) - 1)
<1>1. Len(s) \in Nat \ {0} /\ DOMAIN s = 1 .. Len(s)
  OBVIOUS
<1>2. DOMAIN f = 1 .. Len(s) - 1 /\ \A k \in DOMAIN f : f[k] = s[k]
  BY <1>1
<1> HIDE DEF f
<1>3. NoRepeat(f) /\ ~InSeq(s[Len(s)], f)
  BY <1>1, <1>2 DEF NoRepeat, InSeq
<1> QED BY <1>3 DEF f

(* A function that is linked, or known to have gone wrong, stays so.       *)
LEMMA LinkedStays ==
  ASSUME CallTypeOK, CallTypeOK', OneLink', faulty \subseteq faulty',
         \A k \in FileKey : linked[k] <= linked'[k],
         NEW i \in Instr, NEW c \in Call, Linked(i, c)
  PROVE  Linked(i, c)'
<1>1. Key(i, c) \in FileKey
  BY KeyType
<1>2. linked[Key(i, c)] \in Nat /\ linked'[Key(i, c)] \in Nat /\ linked'[Key(i, c)] <= 1
  BY <1>1 DEF CallTypeOK, OneLink
<1> QED BY <1>1, <1>2 DEF Linked

LEMMA CallLinks ==
  ASSUME DistinctFiles, TypeOK, TypeOK', Inline, LinksOK,
         NEW c \in Call, CallStep(c), UNCHANGED schedVars
  PROVE  LinksOK'
<1> USE DEF TypeOK
<1>1. /\ c \in Running /\ Running' \subseteq Running /\ own[c] = instr /\ c[1] = target
      /\ own' = own /\ visited' = visited /\ instr' = instr /\ target' = target
  BY StepRunning DEF Inline, schedVars
<1>2. /\ OneLink'
      /\ \A i \in Instr : \A d \in Call :
           <<i, d>> # <<instr, c>> => linked'[Key(i, d)] = linked[Key(i, d)]
  BY <1>1, StepLinks DEF LinksOK, MyJob
<1>3. /\ \A d \in Call \ {c} : pc'[d] = pc[d]
      /\ faulty \subseteq faulty' /\ \A k \in FileKey : linked[k] <= linked'[k]
      /\ recorded' = recorded \/ recorded' = recorded \cup {<<instr, target>>}
  <2>1. /\ \A d \in Call \ {c} : pc'[d] = pc[d]
        /\ faulty \subseteq faulty' /\ \A k \in FileKey : linked[k] <= linked'[k]
    BY StepTables
  <2>2. recorded' = recorded \/ recorded' = recorded \cup {<<instr, target>>}
    BY <1>1, StepDep DEF RecordDep, MyTarget
  <2> QED BY <2>1, <2>2
<1>4. OnceOnly'
  <2>1. \A i, d : ToMake(i, d)' = ToMake(i, d)
    BY <1>1 DEF ToMake, schedVars
  <2>2. ~ToMake(instr, c)
    <3>1. ~(instr < instr)
      BY DEF Instr
    <3> QED BY <1>1, <3>1 DEF ToMake, LinksOK, OnceOnly
  <2>3. ASSUME NEW i \in Instr, NEW d \in Call, ToMake(i, d)' PROVE linked'[Key(i, d)] = 0
    <3>1. ToMake(i, d) /\ linked[Key(i, d)] = 0
      BY <2>1, <2>3 DEF LinksOK, OnceOnly
    <3>2. <<i, d>> # <<instr, c>>
      BY <2>2, <3>1
    <3> QED BY <1>2, <3>1, <3>2
  <2> QED BY <1>1, <2>3 DEF LinksOK, OnceOnly, schedVars
<1>5. ASSUME NEW i \in Instr, NEW d \in Call, Linked(i, d) PROVE Linked(i, d)'
  BY <1>2, <1>3, <1>5, LinkedStays
<1>6. pc[c] \in BeforeName => pc'[c] \in BeforeName \/ Linked(instr, c)'
  <2> USE DEF CallTypeOK, At
  <2>1. CASE PushName(c)
    <3>1. MyKey(c) \in FileKey /\ linked[MyKey(c)] = 0
      BY <2>1, KeyType DEF MyKey, PushName, LinksOK, OneLink, BeforeName
    <3>2. linked'[MyKey(c)] = 1
      BY <2>1, <3>1 DEF PushName
    <3>3. linked'[Key(instr, c)] = 1
      BY <1>1, <3>2 DEF MyKey
    <3> QED BY <1>1, <3>3 DEF Linked
  <2>2. CASE ReadClean(c)
    <3>1. pc'[c] = "name" \/ MyJob(c) \in faulty'
      <4>1. MyJob(c) \in Job /\ Right(MyJob(c)) \in Module
        <5>1. MyJob(c) \in Job
          BY DEF MyJob, Job
        <5> QED BY <5>1, RightType
      <4>2. NoFile \notin Module /\ Broken \notin Module
        BY NamesAssumption
      <4> QED BY <2>2, <4>1, <4>2 DEF ReadClean
    <3>2. MyJob(c) = <<instr, c>>
      BY <1>1 DEF MyJob
    <3> QED BY <1>1, <3>1, <3>2 DEF Linked, BeforeName
  <2>3. CASE ~PushName(c) /\ ~ReadClean(c)
    BY <2>3 DEF CallStep, CreateEntry, BeginAssign, EndAssign, SkipGeneration,
       Generate, Emit, RecordDep, CheckArg, InsertArg, RegisterArg, ReturnCall, BeforeName
  <2> QED BY <2>1, <2>2, <2>3
<1>7. AllLinked'
  <2>1. target \in Targets /\ target # NoTarget
    BY <1>1, NoTargetAssumption DEF Call
  <2>2. Calls(instr, target) \subseteq Call
    BY <2>1, CallsType
  <2>3. ASSUME NEW d \in Calls(instr, target)
        PROVE  InSeq(d[2], delayTodo) \/ pc'[d] \in BeforeName \/ Linked(instr, d)'
    <3>1. InSeq(d[2], delayTodo) \/ pc[d] \in BeforeName \/ Linked(instr, d)
      BY <2>1 DEF LinksOK, AllLinked
    <3>2. d \in Call /\ instr \in Instr
      BY <2>2
    <3>3. \A i \in Instr : Linked(i, d) => Linked(i, d)'
      BY <1>5, <3>2
    <3>4. pc[d] \in BeforeName => pc'[d] \in BeforeName \/ Linked(instr, d)'
      <4>1. CASE d = c
        BY <1>6, <4>1
      <4>2. CASE d # c
        BY <1>3, <3>2, <4>2
      <4> QED BY <4>1, <4>2
    <3> QED BY <1>1, <3>1, <3>2, <3>3, <3>4 DEF Linked
  <2>4. ASSUME NEW x \in recorded', x # <<instr, target>>, NEW d \in Calls(x[1], x[2])
        PROVE  Linked(x[1], d)'
    <3>1. x \in recorded
      BY <1>3, <2>4
    <3>2. x[1] \in Instr /\ d \in Call
      BY <3>1, RecordedType
    <3>3. Linked(x[1], d)
      BY <2>4, <3>1 DEF LinksOK, AllLinked
    <3> QED BY <1>5, <3>2, <3>3
  <2> QED BY <2>3, <2>4 DEF AllLinked, schedVars
<1> QED BY <1>2, <1>4, <1>7 DEF LinksOK

(* The main thread touches no file: it lists what is to be made and starts *)
(* calls that are.                                                         *)
LEMMA FrameLinks ==
  ASSUME TypeOK, TypeOK', LinksOK, UNCHANGED <<linked, published, faulty>>,
         \A c \in Call : pc'[c] \in BeforeName =>
            \/ pc'[c] = pc[c] /\ own'[c] = own[c]
            \/ pc'[c] = "create" /\ ToMake(own'[c], c),
         \A i \in Instr : \A c \in Call : ToMake(i, c)' => ToMake(i, c)
  PROVE  /\ OneLink'
         /\ \A i \in Instr : \A c \in Call : ToMake(i, c)' => linked'[Key(i, c)] = 0
         /\ \A i, c : Linked(i, c) => <<i, c>> \in faulty' \/ linked'[Key(i, c)] = 1
<1>1. \A i \in Instr : \A c \in Call : ToMake(i, c) => linked[Key(i, c)] = 0
  BY DEF LinksOK, OnceOnly
<1>2. \A c \in Call : own'[c] \in Instr
  BY DEF TypeOK, CallTypeOK
<1>3. OneLink'
  BY <1>1, <1>2, FrameOneLink DEF LinksOK, TypeOK
<1> QED BY <1>1, <1>3 DEF Linked

(* When the target in hand has no call left for its instruction, the       *)
(* functions of all records are linked.                                    *)
LEMMA AllDone ==
  ASSUME TypeOK, AllLinked, delayTodo = <<>> \/ target = NoTarget, Running = {}
  PROVE  \A x \in recorded : \A c \in Calls(x[1], x[2]) : Linked(x[1], c)
<1>1. SUFFICES ASSUME NEW x \in recorded, NEW c \in Calls(x[1], x[2])
               PROVE  Linked(x[1], c)
  OBVIOUS
<1>2. CASE x = <<instr, target>>
  <2>1. x[1] = instr /\ x[2] = target /\ target \in Targets /\ c \in Call
    BY <1>2, RecordedType DEF TypeOK
  <2>2. target # NoTarget
    BY <2>1, NoTargetAssumption
  <2>3. pc[c] \notin BeforeName
    BY <2>1 DEF Running, BeforeName
  <2>4. ~InSeq(c[2], delayTodo)
    BY <2>2 DEF InSeq
  <2> QED BY <2>1, <2>2, <2>3, <2>4 DEF AllLinked
<1>3. CASE x # <<instr, target>>
  BY <1>3 DEF AllLinked
<1> QED BY <1>2, <1>3

LEMMA NextLinks ==
  ASSUME DistinctFiles, DistinctDelays, TypeOK, TypeOK', Inline, LinksOK, [Next]_vars
  PROVE  LinksOK'
<1> USE DEF TypeOK
<1>0. /\ Asvs \subseteq Targets /\ Vecs \subseteq Targets /\ Vecs \cap Asvs = {}
      /\ NoTarget \notin Targets
  BY NoTargetAssumption, ConfigAssumption DEF Targets
<1>1. target = NoTarget => Running = {}
  BY NoTargetAssumption DEF Inline, Running, Call
<1>2. CASE TakeTarget \/ TakeVec
  <2>1. /\ UNCHANGED <<linked, published, faulty, recorded, visited, pc, own>>
        /\ target = NoTarget /\ Running = {} /\ Running' = {}
    BY <1>1, <1>2 DEF TakeTarget, TakeVec, Between, callVars, tables, disk, locals, Running
  <2>2. \/ target' = NoTarget /\ UNCHANGED <<instr, delayTodo, vecTodo>>
        \/ /\ instr' = 1 /\ delayTodo' = CallDelays(1, target')
           /\ \/ target' \in Asvs \ visited /\ vecTodo' = vecTodo
              \/ /\ target' = vecTodo[Len(vecTodo)] /\ target' \in Vecs /\ vecTodo # <<>>
                 /\ vecTodo' = SubSeq(vecTodo, 1, Len(vecTodo) - 1)
    <3>1. CASE TakeTarget
      <4>1. PICK t \in workSet : IF t \in PassOver THEN UNCHANGED <<target, instr, delayTodo>>
                                                   ELSE TakeUp(t)
        BY <3>1 DEF TakeTarget
      <4>2. t \in Asvs /\ vecTodo' = vecTodo
        BY <3>1 DEF TakeTarget, CallTypeOK
      <4> QED BY <2>1, <4>1, <4>2 DEF TakeUp, PassOver
    <3>2. CASE TakeVec
      BY <3>2 DEF TakeVec, TakeUp
    <3> QED BY <1>2, <3>1, <3>2
  <2>3. /\ NoRepeat(vecTodo') /\ NoRepeat(delayTodo')
        /\ \A v : InSeq(v, vecTodo') => InSeq(v, vecTodo)
        /\ target' \in Vecs => InSeq(target', vecTodo) /\ ~InSeq(target', vecTodo')
    <3>1. NoRepeat(vecTodo) /\ NoRepeat(delayTodo)
      BY DEF LinksOK, OnceOnly
    <3>2. 1 \in Instr
      BY InstrsAssumption DEF Instr
    <3>3. target' \in Targets => NoRepeat(CallDelays(1, target'))
      BY <3>2, CallDelaysOnce
    <3>4. vecTodo # <<>> =>
            LET f == SubSeq(vecTodo, 1, Len(vecTodo) - 1)
            IN  /\ NoRepeat(f) /\ ~InSeq(vecTodo[Len(vecTodo)], f)
                /\ InSeq(vecTodo[Len(vecTodo)], vecTodo)
                /\ \A v : InSeq(v, f) => InSeq(v, vecTodo)
      BY <3>1, FrontOnce, InFront
    <3> QED BY <1>0, <2>2, <3>1, <3>3, <3>4
  <2>4. \A i \in Instr : \A c \in Call : ToMake(i, c)' => ToMake(i, c)
    <3>1. SUFFICES ASSUME NEW i \in Instr, NEW c \in Call, ToMake(i, c)' PROVE ToMake(i, c)
      OBVIOUS
    <3>2. c[1] \in Targets /\ c[1] # target
      BY <1>0, <2>1 DEF Call
    <3>3. CASE c[1] # target'
      BY <2>1, <2>3, <3>1, <3>2, <3>3 DEF ToMake
    <3>4. CASE c[1] = target'
      <4>1. target' \in Asvs \ visited \/ target' \in Vecs
        BY <1>0, <2>2, <3>2, <3>4
      <4> QED BY <2>3, <3>2, <3>4, <4>1 DEF ToMake
    <3> QED BY <3>3, <3>4
  <2>5. /\ OneLink'
        /\ \A i \in Instr : \A c \in Call : ToMake(i, c)' => linked'[Key(i, c)] = 0
        /\ \A i, c : Linked(i, c) => <<i, c>> \in faulty' \/ linked'[Key(i, c)] = 1
    BY <2>1, <2>4, FrameLinks
  <2>6. OnceOnly'
    BY <2>1, <2>3, <2>5 DEF OnceOnly
  <2>7. AllLinked'
    <3>1. target' # NoTarget =>
            \A c \in Calls(instr', target') : InSeq(c[2], delayTodo')
      BY <2>1, <2>2 DEF Calls, DelaySet, InSeq
    <3>2. \A x \in recorded : \A c \in Calls(x[1], x[2]) : Linked(x[1], c)
      BY <2>1, AllDone DEF LinksOK
    <3> QED BY <2>1, <2>5, <3>1, <3>2 DEF AllLinked, Linked
  <2> QED BY <2>5, <2>6, <2>7 DEF LinksOK
<1>3. CASE CallUpdate
  <2> DEFINE h == <<target, Head(delayTodo)>>
  <2>1. /\ h \in Call /\ Running = {} /\ StartCalls({h}, instr)
        /\ target # NoTarget /\ delayTodo # <<>> /\ delayTodo' = Tail(delayTodo)
        /\ UNCHANGED <<linked, published, faulty, recorded, visited, target, instr, vecTodo>>
    BY <1>3 DEF CallUpdate, CallOver, Call, tables, disk
  <2>2. h[1] = target /\ h[2] = Head(delayTodo)
    OBVIOUS
  <2>3. /\ InSeq(h[2], delayTodo) /\ ~InSeq(h[2], delayTodo') /\ NoRepeat(delayTodo')
        /\ \A d : InSeq(d, delayTodo') => InSeq(d, delayTodo)
        /\ \A d : InSeq(d, delayTodo) => d = h[2] \/ InSeq(d, delayTodo')
    <3>1. NoRepeat(delayTodo) /\ delayTodo \in Seq(Delays)
      BY DEF LinksOK, OnceOnly
    <3>2. delayTodo[1] = Head(delayTodo) /\ 1 \in DOMAIN delayTodo
      BY <2>1, <3>1
    <3>3. NoRepeat(delayTodo') /\ ~InSeq(h[2], delayTodo')
      BY <2>1, <2>2, <3>1, TailOnce
    <3>4. \A d : InSeq(d, delayTodo') => InSeq(d, delayTodo)
      BY <2>1, <3>1, OfTail
    <3>5. \A d : InSeq(d, delayTodo) => d = h[2] \/ InSeq(d, delayTodo')
      BY <2>1, <2>2, <3>1, InTail
    <3> QED BY <2>2, <3>2, <3>3, <3>4, <3>5 DEF InSeq
  <2> HIDE DEF h
  <2>4. {h} \in SUBSET Call
    BY <2>1
  <2>5. Running' = {h}
    BY <2>1, <2>4, StartRunning
  <2>6. /\ pc'[h] = "create" /\ own'[h] = instr
        /\ \A c \in Call \ {h} : pc'[c] = pc[c] /\ own'[c] = own[c]
    BY <2>1 DEF StartCalls, CallTypeOK
  <2>7. ToMake(instr, h)
    BY <2>2, <2>3 DEF ToMake
  <2>8. \A i \in Instr : \A c \in Call : ToMake(i, c)' => ToMake(i, c)
    BY <2>1, <2>3 DEF ToMake
  <2>9. /\ OneLink'
        /\ \A i \in Instr : \A c \in Call : ToMake(i, c)' => linked'[Key(i, c)] = 0
        /\ \A i, c : Linked(i, c) => <<i, c>> \in faulty' \/ linked'[Key(i, c)] = 1
    <3>1. \A c \in Call : \/ pc'[c] = pc[c] /\ own'[c] = own[c]
                          \/ pc'[c] = "create" /\ ToMake(own'[c], c)
      BY <2>6, <2>7
    <3> QED BY <2>1, <2>8, <3>1, FrameLinks
  <2>10. OnceOnly'
    BY <2>1, <2>3, <2>5, <2>9 DEF OnceOnly, LinksOK
  <2>11. AllLinked'
    <3>1. ASSUME NEW c \in Calls(instr, target)
          PROVE  InSeq(c[2], delayTodo') \/ pc'[c] \in BeforeName \/ <<instr, c>> \in faulty'
                 \/ linked'[Key(instr, c)] = 1
      <4>1. target \in Targets /\ c \in Call /\ c[1] = target
        BY <2>1, CallsType
      <4>2. InSeq(c[2], delayTodo) \/ pc[c] \in BeforeName \/ Linked(instr, c)
        BY <2>1 DEF LinksOK, AllLinked
      <4>3. pc[c] \notin BeforeName
        BY <2>1, <4>1 DEF Running, BeforeName
      <4>4. c[2] = h[2] => c = h
        BY <2>1, <2>2, <4>1 DEF Call
      <4> QED BY <2>3, <2>6, <2>9, <4>2, <4>3, <4>4 DEF BeforeName
    <3>2. \A x \in recorded : x # <<instr, target>> =>
            \A c \in Calls(x[1], x[2]) : Linked(x[1], c)
      BY DEF LinksOK, AllLinked
    <3> QED BY <2>1, <2>9, <3>1, <3>2 DEF AllLinked, Linked
  <2> QED BY <2>9, <2>10, <2>11 DEF LinksOK
<1>4. CASE NextInstr \/ FinishTarget
  <2>1. /\ UNCHANGED <<linked, published, faulty, recorded, own, vecTodo>>
        /\ target # NoTarget /\ delayTodo = <<>> /\ Running = {} /\ RetireCalls
    BY <1>4 DEF NextInstr, FinishTarget, InstrOver, CallOver, RetireCalls, tables, disk
  <2>2. \/ /\ target' = target /\ instr' = instr + 1 /\ visited' = visited
           /\ delayTodo' = CallDelays(instr', target)
        \/ /\ target' = NoTarget /\ delayTodo' = delayTodo
           /\ visited' = visited \cup TargetRegs
    BY <1>4 DEF NextInstr, FinishTarget, tables
  <2>3. Running' = {} /\ target \in Targets
    BY <2>1, RetireRunning
  <2>4. \A c \in Call : pc'[c] \in BeforeName => pc'[c] = pc[c] /\ own'[c] = own[c]
    BY <2>1 DEF RetireCalls, BeforeName, CallTypeOK
  <2>5. \A i \in Instr : \A c \in Call : ToMake(i, c)' => ToMake(i, c)
    <3>1. SUFFICES ASSUME NEW i \in Instr, NEW c \in Call, ToMake(i, c)' PROVE ToMake(i, c)
      OBVIOUS
    <3>2. CASE target' = target
      <4>1. instr' < i \/ i = instr' => instr < i
        BY <2>1, <2>2, <3>2 DEF Instr
      <4> QED BY <2>1, <2>2, <3>1, <3>2, <4>1 DEF ToMake
    <3>3. CASE target' = NoTarget
      <4>1. c[1] # NoTarget /\ visited' = visited \cup TargetRegs
        BY <1>0, <2>1, <2>2, <3>3 DEF Call
      <4>2. c[1] \in Asvs \ visited' \/ InSeq(c[1], vecTodo)
        BY <2>1, <3>1, <3>3, <4>1 DEF ToMake
      <4>3. c[1] # target
        <5>1. CASE target \in Vecs
          BY <1>0, <4>2, <5>1 DEF LinksOK, OnceOnly
        <5>2. CASE target \notin Vecs
          <6>1. target \in visited'
            BY <4>1, <5>2 DEF TargetRegs
          <6>2. ~InSeq(target, vecTodo)
            BY <5>2 DEF InSeq
          <6> QED BY <4>2, <6>1, <6>2
        <5> QED BY <5>1, <5>2
      <4> QED BY <4>1, <4>2, <4>3 DEF ToMake
    <3> QED BY <2>2, <3>2, <3>3
  <2>6. /\ OneLink'
        /\ \A i \in Instr : \A c \in Call : ToMake(i, c)' => linked'[Key(i, c)] = 0
        /\ \A i, c : Linked(i, c) => <<i, c>> \in faulty' \/ linked'[Key(i, c)] = 1
    BY <2>1, <2>4, <2>5, FrameLinks
  <2>7. NoRepeat(delayTodo') /\ (target' \in Vecs => ~InSeq(target', vecTodo))
    <3>1. NoRepeat(delayTodo) /\ (target \in Vecs => ~InSeq(target, vecTodo))
      BY DEF LinksOK, OnceOnly
    <3>2. instr' \in Instr /\ target \in Targets
      BY <2>3
    <3> QED BY <1>0, <2>2, <3>1, <3>2, CallDelaysOnce
  <2>8. OnceOnly'
    BY <2>1, <2>3, <2>6, <2>7 DEF OnceOnly, LinksOK
  <2>9. AllLinked'
    <3>1. target' # NoTarget => \A c \in Calls(instr', target') : InSeq(c[2], delayTodo')
      BY <2>2 DEF Calls, DelaySet, InSeq
    <3>2. \A x \in recorded : \A c \in Calls(x[1], x[2]) : Linked(x[1], c)
      BY <2>1, AllDone DEF LinksOK
    <3> QED BY <2>1, <2>6, <3>1, <3>2 DEF AllLinked, Linked
  <2> QED BY <2>6, <2>8, <2>9 DEF LinksOK
<1>5. CASE PrintResults \/ UNCHANGED vars
  <2>1. UNCHANGED <<callVars, target, instr, delayTodo, vecTodo>>
    BY <1>5 DEF PrintResults, vars, schedVars
  <2> QED BY <2>1 DEF callVars, tables, disk, locals, LinksOK, OneLink, OnceOnly, AllLinked,
       ToMake, Linked, Running, MyKey, MyJob
<1>6. CASE CallNext
  BY <1>6, CallLinks DEF CallNext
<1>7. CASE Crash
  <2>1. /\ \A c \in Call : pc'[c] = "idle"
        /\ \A i \in Instr : \A c \in Call : linked'[Key(i, c)] = 0
    BY <1>7, KeyType DEF Crash, CallCrash
  <2>2. OneLink'
    BY <2>1 DEF OneLink, BeforeName
  <2>3. Running' = {} /\ recorded' = {} /\ target' = NoTarget /\ target' \notin Vecs
    BY <1>0, <1>7, <2>1 DEF Running, Crash, CallCrash
  <2>4. vecTodo' = AllowedVecs /\ delayTodo' = <<>> /\ NoRepeat(AllowedVecs)
    BY <1>7, ConfigAssumption DEF Crash, NoRepeat
  <2> QED BY <2>1, <2>2, <2>3, <2>4 DEF LinksOK, OnceOnly, AllLinked, NoRepeat
<1> QED
  BY <1>2, <1>3, <1>4, <1>5, <1>6, <1>7 DEF Next, MainStep

(* When the results are printed the functions on record are linked once    *)
(* each, from the file that holds them, for designs without two targets    *)
(* that share their files and lists without a delay given twice: a         *)
(* function that asks for its own register again, or for one another       *)
(* asked for before, does not bring a second file into link.sh.            *)
THEOREM SeqLinkedExactlyOnce ==
  ASSUME DistinctFiles, DistinctDelays PROVE Spec => []LinkedExactlyOnce
<1>1. LinksOK /\ TypeOK /\ Inline => LinkedExactlyOnce
  <2> SUFFICES ASSUME LinksOK, TypeOK, Inline, phase = "printed",
                      NEW x \in recorded, NEW c \in Calls(x[1], x[2])
               PROVE  LET k == Key(x[1], c) IN
                      /\ linked[k] <= 1
                      /\ <<x[1], c>> \notin faulty
                           => linked[k] = 1 /\ published[k] = Right(<<x[1], c>>)
    BY DEF LinkedExactlyOnce, RecordsLinked
  <2>1. target = NoTarget
    BY DEF Inline
  <2>2. x[1] \in Instr /\ c \in Call /\ x[2] \in Targets /\ x = <<x[1], x[2]>>
    BY RecordedType DEF TypeOK
  <2>3. x # <<instr, target>>
    BY <2>1, <2>2, NoTargetAssumption
  <2>4. Linked(x[1], c)
    BY <2>3 DEF LinksOK, AllLinked
  <2> QED BY <2>2, <2>4 DEF Linked, LinksOK, OneLink
<1> QED
  BY <1>1, InitTypeOK, NextTypeOK, InitInline, NextInline, InitLinks, NextLinks, PTL DEF Spec
=============================================================================
