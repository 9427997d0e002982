---------------------------- MODULE TargetConfig ----------------------------
(***************************************************************************)
(* Where get_all_update's targets come from and how many cycles each is    *)
(* unrolled for: the top-level outputs, the FIFO registers and             *)
(* added_work_set.txt or, when allowed_target.txt names targets, only      *)
(* those; the delay bounds of allowed_target.txt and instr.txt.            *)
(***************************************************************************)
EXTENDS UpdateCall

CONSTANTS
  TopOutputs,      \* outputs of the top module
  FifoOutputs,     \* those is_fifo_output accepts
  FifoRegs,        \* <instance>.r0 ... of every FIFO instance
  AddedLines,      \* the lines of added_work_set.txt
  Allowed,         \* g_allowedTgt: register -> its delays, in file order
  AllowedVecs,     \* g_allowedTgtVec, a sequence of vectors
  VecRegs,         \* vector -> its registers
  VecDelay,        \* vector -> the delay after its closing bracket
  InstrDelay,      \* InstrInfo_t::delayBound
  DelayException,  \* InstrInfo_t::delayExceptions, per instruction
  Skipped          \* g_skippedOutput

ASSUME ConfigAssumption ==
  /\ Vecs \cap Asvs = {}
  /\ TopOutputs \subseteq Asvs /\ FifoOutputs \subseteq TopOutputs
  /\ FifoRegs \subseteq Asvs /\ AddedLines \subseteq Asvs /\ Skipped \subseteq Asvs
  /\ DOMAIN Allowed \subseteq Asvs
  /\ \A t \in DOMAIN Allowed : Allowed[t] \in Seq(Delays)
  /\ AllowedVecs \in Seq(Vecs)
  /\ \A j, k \in DOMAIN AllowedVecs : AllowedVecs[j] = AllowedVecs[k] => j = k
  /\ VecRegs \in [Vecs -> SUBSET Asvs] /\ VecDelay \in [Vecs -> Delays]
  /\ InstrDelay \in [Instr -> Delays]
  /\ \A i \in Instr : /\ DOMAIN DelayException[i] \subseteq Asvs
                      /\ \A t \in DOMAIN DelayException[i] :
                           DelayException[i][t] \in Delays

SeedTargets == TopOutputs \ FifoOutputs

(* The work set the main loop starts from.                                 *)
InitialWork ==
  CASE DOMAIN Allowed # {}   -> DOMAIN Allowed
    [] DOMAIN Allowed = {} /\ AllowedVecs # <<>> -> {}
    [] OTHER                 -> SeedTargets \cup AddedLines \cup FifoRegs

(* Seeding registers a width for everything but the added lines.           *)
InitialAsvs == SeedTargets \cup FifoRegs \cup DOMAIN Allowed

DelayBound(i, t) ==
  CASE t \in Vecs                     -> VecDelay[t]
    [] t \in DOMAIN DelayException[i] -> DelayException[i][t]
    [] t \in DOMAIN Allowed \ DOMAIN DelayException[i] /\ Allowed[t] # <<>>
                                      -> Allowed[t][1]
    [] OTHER                          -> InstrDelay[i]

(* Several delays for one register: one call each, whatever instr.txt      *)
(* says; otherwise the one get_delay_bound picks.                          *)
CallDelays(i, t) ==
  IF t \in DOMAIN Allowed /\ Len(Allowed[t]) > 1
  THEN Allowed[t] ELSE <<DelayBound(i, t)>>

DelaySet(i, t) == {CallDelays(i, t)[k] : k \in DOMAIN CallDelays(i, t)}
Calls(i, t)    == {t} \X DelaySet(i, t)

(* What a target's update functions depend on, over all instructions.      *)
Deps(t) ==
  IF PushNewTarget
  THEN UNION {UNION {ReadArgs(<<i, c>>) : c \in Calls(i, t)} : i \in Instr}
  ELSE {}

VecsInUse == {AllowedVecs[k] : k \in DOMAIN AllowedVecs}

SkippedOnly == Skipped  \* mutant
(* Targets the loops pass over.                                            *)
PassOver == visited \cup Skipped

(* Skipped outputs are dropped from the work set: what is to be worked on. *)
Wanted(S) == S \ Skipped
WantedDeps(t) == Wanted(Deps(t))
WantedVecRegs(v) == Wanted(VecRegs[v])

(* S holds the first targets, the vectors' registers and everything that   *)
(* the update functions of its members and of the vectors depend on.       *)
IsClosed(S) ==
  /\ Wanted(InitialWork) \subseteq S
  /\ \A t \in S : WantedDeps(t) \subseteq S
  /\ \A v \in VecsInUse : WantedVecRegs(v) \cup WantedDeps(v) \subseteq S

(* Exactly what has to be worked on: registers only a vector mentions are  *)
(* not followed up one by one.                                             *)
CoversExactly(S) ==
  /\ \A T \in SUBSET Asvs : IsClosed(T) => S \subseteq T
  /\ Wanted(InitialWork) \subseteq S
  /\ \A t \in S : \/ WantedDeps(t) \subseteq S
                  \/ \E v \in VecsInUse : t \in VecRegs[v]
  /\ \A v \in VecsInUse : WantedVecRegs(v) \cup WantedDeps(v) \subseteq S

(* Every argument on record whose call is over is registered and, when     *)
(* new targets are pushed, among the targets in "known".                   *)
ArgsKept(known) ==
  \A x \in recorded :
    (\A c \in Running : x # <<own[c], c[1]>>)
    => /\ dep[x] \subseteq asvSet
       /\ PushNewTarget => Wanted(dep[x]) \subseteq known

(* Target t has, for instruction i, the arguments of one of its own update *)
(* functions on record.                                                    *)
HasOwnRecord(i, t) ==
  /\ <<i, t>> \in recorded
  /\ \E c \in Calls(i, t) : dep[<<i, t>>] = ReadArgs(<<i, c>>)

(* The functions of a recorded job are linked once each, from the file     *)
(* that holds them, unless the job is known to have gone wrong.            *)
RecordsLinked ==
  \A x \in recorded : \A c \in Calls(x[1], x[2]) :
    LET k == Key(x[1], c) IN
    /\ linked[k] <= 1
    /\ <<x[1], c>> \notin faulty => linked[k] = 1 /\ published[k] = Right(<<x[1], c>>)

OwnRecords == \A x \in recorded : HasOwnRecord(x[1], x[2])

RecordedUnlessFaulty(i, t) ==
  \/ HasOwnRecord(i, t)
  \/ \E c \in Calls(i, t) : <<i, c>> \in faulty
  \/ <<i, t>> \notin recorded /\ \E v \in VecsInUse : t \in VecRegs[v]
=============================================================================
