------------------------------ MODULE TaintGen ------------------------------
(***************************************************************************)
(* How live_analysis goes over a design: modules bottom-up                 *)
(* (app/main.cpp), the lines of a module one by one (taint_gen.cpp), and   *)
(* the bookkeeping that lines share:                                       *)
(*   - every reading of a variable gets bits of a relevance word x_r0,     *)
(*     x_r1, ... of its own (find_version_num); at the end of the module   *)
(*     x_r is their disjunction (merge_taints);                            *)
(*   - every register gets a signature.                                    *)
(* The lines themselves are open: any readings in any order.               *)
(***************************************************************************)
EXTENDS Integers, Sequences, FiniteSets

CONSTANTS Modules, Top,
          Child,     \* module -> the modules it has instances of
          Regs,      \* module -> its registers' names
          Outs,      \* module -> its outputs
          Vars,      \* names of variables, the same in every module
          Width,     \* variable -> its number of bits
          SigWidth,  \* bits of a signature
          MaxReads   \* bound on the readings in a module

Registers == {p \in Modules \X UNION {Regs[m] : m \in Modules} : p[2] \in Regs[p[1]]}
\* separate_modules counts names, whichever module they are in.
RegCount  == Cardinality(UNION {Regs[m] : m \in Modules})

ASSUME HierarchyAssumption ==
  /\ IsFiniteSet(Modules) /\ Top \in Modules
  /\ Child \in [Modules -> SUBSET Modules]
  /\ \A m \in Modules : Top \notin Child[m]
  /\ \E rank \in [Modules -> 0..Cardinality(Modules)] :
       \A m \in Modules : \A c \in Child[m] : rank[c] < rank[m]
ASSUME VariablesAssumption ==
  /\ Width \in [Vars -> Nat]
  /\ Outs \in [Modules -> SUBSET Vars]
  /\ MaxReads \in Nat
ASSUME RegistersAssumption ==
  /\ DOMAIN Regs = Modules
  /\ \A m \in Modules : IsFiniteSet(Regs[m])
\* add_file_taints: the logarithm of g_reg_count + 3, rounded up.
ASSUME SigWidthAssumption ==
  /\ SigWidth \in Nat /\ 2^SigWidth \in Nat
  /\ RegCount + 3 <= 2^SigWidth

VARIABLES stage,          \* "walk": between modules; "lines": in Head(stack); "aborted"
          stack,          \* the calls of add_taint_bottom_up, the innermost first
          ready, order,   \* modules taken up, and their order in order.txt
          known,          \* modules in moduleInputsMap
          wired, declared,\* this module: instances, registers and outputs passed
          reads,          \* this module: readings so far
          nextVersion,    \* variable -> number of its relevance words
          nxtVerBits,     \* variable -> bits of the last word that are taken
          driven, twice,  \* bits assigned; bits assigned more than once
          nextSig, g_next_sig,  \* next signature: main's, this module's
          sigs            \* register -> signature
walkVars == <<stack, ready, order, known>>
lineVars == <<wired, declared, reads, nextVersion, nxtVerBits, driven, twice>>
sigVars  == <<nextSig, g_next_sig, sigs>>
vars     == <<stage, walkVars, lineVars, sigVars>>

Bits(v)  == 0..(Width[v] - 1)
Cur      == Head(stack)
Slices(v) == {lo..hi : lo, hi \in Bits(v)} \ {{}}

FirstSig == 3   \* 0, 1 and 2 stand for none, a literal and reset
-----------------------------------------------------------------------------
Init ==
  /\ stage = "walk" /\ stack = <<>> /\ ready = {} /\ order = <<>> /\ known = {}
  /\ wired = {} /\ declared = {} /\ reads = 0
  /\ nextVersion = [v \in Vars |-> 0] /\ nxtVerBits = [v \in Vars |-> {}]
  /\ driven = {} /\ twice = {}
  /\ nextSig = 0 /\ g_next_sig = 0 /\ sigs = [p \in {} |-> 0]

(* The walk over the hierarchy *)

\* Mutant: a module is written as it comes, its children later.
AsTheyCome == IF stack = <<>> THEN Modules \ ready ELSE {}

\* What the innermost call goes into next: main takes any module, a call any
\* child of its module.
Waiting == IF stack = <<>> THEN Modules \ ready ELSE Child[Cur] \ ready

Enter(m) ==
  /\ stage = "walk" /\ m \in Waiting
  /\ stack' = <<m>> \o stack
  /\ UNCHANGED <<stage, ready, order, known, lineVars, sigVars>>

\* Mutant: every module starts with the first signature.
AlwaysFirst(sig) == FirstSig

StartSig(sig) == IF sig = 0 THEN FirstSig ELSE sig

Begin ==
  /\ stage = "walk" /\ stack # <<>> /\ Waiting = {}
  /\ stage' = "lines"
  /\ ready' = ready \cup {Cur}
  /\ order' = Append(order, Cur)
  /\ wired' = {} /\ declared' = {} /\ reads' = 0
  /\ nextVersion' = [v \in Vars |-> 0] /\ nxtVerBits' = [v \in Vars |-> {}]
  /\ driven' = {} /\ twice' = {}
  /\ g_next_sig' = StartSig(nextSig)
  /\ UNCHANGED <<stack, known, nextSig, sigs>>

(* The lines of a module *)

Drive(new) ==
  /\ driven' = driven \cup new
  /\ twice'  = twice \cup (new \cap driven)

DeclareReg(r) ==
  /\ stage = "lines" /\ r \in Regs[Cur] /\ <<"reg", r>> \notin declared
  /\ declared' = declared \cup {<<"reg", r>>}
  /\ sigs' = [p \in DOMAIN sigs \cup {<<Cur, r>>} |-> IF p = <<Cur, r>> THEN g_next_sig ELSE sigs[p]]
  /\ g_next_sig' = g_next_sig + 1
  /\ UNCHANGED <<stage, walkVars, wired, reads, nextVersion, nxtVerBits, driven, twice, nextSig>>

\* The first relevance word of an output is an input of the tainted module.
DeclareOutput(v) ==
  /\ stage = "lines" /\ v \in Outs[Cur] /\ nextVersion[v] = 0
  /\ declared' = declared \cup {<<"out", v>>}
  /\ nextVersion' = [nextVersion EXCEPT ![v] = 1]
  /\ nxtVerBits'  = [nxtVerBits EXCEPT ![v] = Bits(v)]
  /\ Drive({<<v, 0, b>> : b \in Bits(v)})
  /\ UNCHANGED <<stage, walkVars, wired, reads, sigVars>>

\* A variable without a slice always conflicts.
NoConflict(v, bits, sliced) == sliced /\ bits \cap nxtVerBits[v] = {}

FreeBits(v) == {<<v, nextVersion[v] - 1, b>> : b \in Bits(v) \ nxtVerBits[v]}

\* Mutant: the bits of the former word are kept.
KeptBits(v, bits, new) == nxtVerBits[v] \cup bits

TakenBits(v, bits, new) == IF new THEN bits ELSE nxtVerBits[v] \cup bits

\* One call of find_version_num and the assignment its caller prints.
ReadOperand(v, bits, sliced, forceNewVer) ==
  LET first == nextVersion[v] = 0
      new   == first \/ forceNewVer \/ ~NoConflict(v, bits, sliced)
      ver   == IF new THEN nextVersion[v] ELSE nextVersion[v] - 1
  IN /\ stage = "lines" /\ reads < MaxReads
     /\ v \in Outs[Cur] => ~first
     /\ reads' = reads + 1
     /\ nextVersion' = [nextVersion EXCEPT ![v] = ver + 1]
     /\ nxtVerBits'  = [nxtVerBits EXCEPT ![v] = TakenBits(v, bits, new)]
     /\ Drive((IF new /\ ~first THEN FreeBits(v) ELSE {}) \cup {<<v, ver, b>> : b \in bits})
     /\ UNCHANGED <<stage, walkVars, wired, declared, sigVars>>

\* "Error: IO ports of sub-modules not found!"
InstanceLine(c) ==
  /\ stage = "lines" /\ c \in Child[Cur] \ wired
  /\ wired' = wired \cup {c}
  /\ stage' = IF c \in known THEN "lines" ELSE "aborted"
  /\ UNCHANGED <<walkVars, declared, reads, nextVersion, nxtVerBits, driven, twice, sigVars>>

\* merge_taints and add_module_name.
Finish ==
  /\ stage = "lines"
  /\ wired = Child[Cur]
  /\ declared = {<<"reg", r>> : r \in Regs[Cur]} \cup {<<"out", v>> : v \in Outs[Cur]}
  /\ Drive(UNION {FreeBits(v) : v \in {x \in Vars : nextVersion[x] > 0}})
  /\ known' = IF Cur = Top THEN known ELSE known \cup {Cur}
  /\ nextSig' = g_next_sig
  /\ stage' = "walk" /\ stack' = Tail(stack)
  /\ UNCHANGED <<ready, order, wired, declared, reads, nextVersion, nxtVerBits, g_next_sig, sigs>>

Next ==
  \/ \E m \in Modules : Enter(m)
  \/ Begin
  \/ \E m \in Modules : \E r \in Regs[m] : DeclareReg(r)
  \/ \E v \in Vars : DeclareOutput(v)
  \/ \E v \in Vars : \E bits \in Slices(v), force \in BOOLEAN : ReadOperand(v, bits, TRUE, force)
  \/ \E v \in Vars : \E force \in BOOLEAN : ReadOperand(v, Bits(v), FALSE, force)
  \/ \E c \in Modules : InstanceLine(c)
  \/ Finish

Spec == Init /\ [][Next]_vars

-----------------------------------------------------------------------------
(* Properties *)

\* Words that are begun, each with all bits of its variable.
Begun == UNION {{v} \X (0..(nextVersion[v] - 1)) \X Bits(v) : v \in Vars}

\* Every variable keeps its type; relevance bits are bits of their variable.
TypeOK ==
  /\ stage \in {"walk", "lines", "aborted"}
  /\ stack \in Seq(Modules) /\ ready \subseteq Modules /\ order \in Seq(Modules)
  /\ known \subseteq Modules /\ wired \subseteq Modules
  /\ reads \in Nat
  /\ nextVersion \in [Vars -> Nat]
  /\ DOMAIN nxtVerBits = Vars /\ \A v \in Vars : nxtVerBits[v] \subseteq Bits(v)
  /\ driven \subseteq Begun /\ twice \subseteq Begun
  /\ nextSig \in Nat /\ g_next_sig \in Nat
  /\ DOMAIN sigs \subseteq Registers /\ \A p \in DOMAIN sigs : sigs[p] \in Nat

\* However a variable is read, by slices or as a whole, no bit of a relevance
\* word is assigned twice, and once the module is written each bit of each
\* word that is merged is assigned, and no other (find_version_num,
\* merge_taints).
DrivenOnce ==
  /\ twice = {}
  /\ stage = "walk" => driven = Begun

\* Modules are written once each, after the modules they have instances of,
\* and no instance is met whose ports are unknown (add_taint_bottom_up,
\* extend_module_instantiation).
ChildrenFirst ==
  /\ stage # "aborted"
  /\ \A i, j \in DOMAIN order : order[i] = order[j] => i = j
  /\ \A i \in DOMAIN order : \A c \in Child[order[i]] : \E j \in 1..(i - 1) : order[j] = c

\* What the SigWidth bits of a signal hold of a signature.
SigValue(p) == sigs[p] % 2^SigWidth

\* If no two modules have registers of one name, all registers of the design
\* have signatures of their own, none of them a reserved one (reg_taint_gen,
\* clean_global_data).
SigUnique ==
  RegCount = Cardinality(Registers) =>
    /\ \A p \in DOMAIN sigs : SigValue(p) \notin 0..(FirstSig - 1)
    /\ \A p, q \in DOMAIN sigs : SigValue(p) = SigValue(q) => p = q
=============================================================================
