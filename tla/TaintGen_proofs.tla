-------------------------- MODULE TaintGen_proofs --------------------------
(***************************************************************************)
(* For every hierarchy, every width and every order of the lines: the      *)
(* types, that no relevance bit is assigned twice, that modules come after *)
(* those they use, and that signatures are unique.                         *)
(***************************************************************************)
EXTENDS TaintGen, TLAPS, FiniteSetTheorems

\* Child[Cur] and the like are known to be modules.
LEMMA ChildModules == \A m \in Modules : Child[m] \subseteq Modules
BY HierarchyAssumption

\* What a number of bits is.
LEMMA BitsNat == \A v \in Vars : Bits(v) \subseteq Nat
BY VariablesAssumption DEF Bits

\* A member of Begun is a variable, a version and a bit.
LEMMA BegunMembers ==
  ASSUME NEW w
  PROVE  w \in Begun <=> \E v \in Vars : \E k \in 0..(nextVersion[v] - 1) : \E b \in Bits(v) : w = <<v, k, b>>
BY DEF Begun

-----------------------------------------------------------------------------
\* A stack that is not empty has a head that is a module.
LEMMA HeadOfStack ==
  ASSUME stack \in Seq(Modules), stack # <<>>
  PROVE  /\ Cur \in Modules /\ Cur = stack[1] /\ Tail(stack) \in Seq(Modules)
         /\ Len(stack) \in Nat \ {0} /\ Len(Tail(stack)) = Len(stack) - 1
         /\ \A i \in 1..Len(Tail(stack)) : Tail(stack)[i] = stack[i + 1]
BY DEF Cur

\* The types without the assigned bits, which DrivenInv gives.
Types ==
  /\ stage \in {"walk", "lines", "aborted"}
  /\ stack \in Seq(Modules) /\ ready \subseteq Modules /\ order \in Seq(Modules)
  /\ stage # "walk" => stack # <<>>
  /\ known \subseteq Modules /\ wired \subseteq Modules
  /\ reads \in Nat
  /\ nextVersion \in [Vars -> Nat]
  /\ nxtVerBits \in [Vars -> SUBSET Nat] /\ \A v \in Vars : nxtVerBits[v] \subseteq Bits(v)
  /\ nextSig \in Nat /\ g_next_sig \in Nat
  /\ DOMAIN sigs \subseteq Registers /\ \A p \in DOMAIN sigs : sigs[p] \in Nat

LEMMA TypesInit == Init => Types
BY DEF Init, Types

LEMMA TypesNext == Types /\ [Next]_vars => Types'
<1> SUFFICES ASSUME Types, [Next]_vars PROVE Types'
  OBVIOUS
<1> USE DEF Types
<1>1. ASSUME NEW m \in Modules, Enter(m) PROVE Types'
  <2>1. stack' \in Seq(Modules) /\ stage' = "walk"
    BY <1>1 DEF Enter
  <2> QED BY <1>1, <2>1 DEF Enter, lineVars, sigVars
<1>2. CASE Begin
  <2>1. Cur \in Modules
    BY <1>2, HeadOfStack DEF Begin
  <2>2. order' \in Seq(Modules) /\ ready' \subseteq Modules
    BY <1>2, <2>1 DEF Begin
  <2>3. /\ nextVersion' \in [Vars -> Nat] /\ nxtVerBits' \in [Vars -> SUBSET Nat]
        /\ \A v \in Vars : nxtVerBits'[v] \subseteq Bits(v)
    BY <1>2 DEF Begin
  <2>4. g_next_sig' \in Nat
    BY <1>2 DEF Begin, StartSig, FirstSig
  <2> QED BY <1>2, <2>2, <2>3, <2>4 DEF Begin
<1>3. ASSUME NEW r, DeclareReg(r) PROVE Types'
  <2>1. Cur \in Modules
    BY <1>3, HeadOfStack DEF DeclareReg
  <2>2. <<Cur, r>> \in Registers
    BY <1>3, <2>1 DEF DeclareReg, Registers
  <2>3. DOMAIN sigs' \subseteq Registers /\ \A p \in DOMAIN sigs' : sigs'[p] \in Nat
    BY <1>3, <2>2 DEF DeclareReg
  <2> QED BY <1>3, <2>3 DEF DeclareReg, walkVars
<1>4. ASSUME NEW v \in Vars, DeclareOutput(v) PROVE Types'
  <2>1. /\ nextVersion' \in [Vars -> Nat] /\ nxtVerBits' \in [Vars -> SUBSET Nat]
        /\ \A x \in Vars : nxtVerBits'[x] \subseteq Bits(x)
    BY <1>4, BitsNat DEF DeclareOutput
  <2> QED BY <1>4, <2>1 DEF DeclareOutput, walkVars, sigVars
<1>5. ASSUME NEW v \in Vars, NEW bits \in SUBSET Bits(v), NEW sliced \in BOOLEAN, NEW force \in BOOLEAN,
             ReadOperand(v, bits, sliced, force)
      PROVE Types'
  <2>1. /\ nextVersion' \in [Vars -> Nat] /\ nxtVerBits' \in [Vars -> SUBSET Nat]
        /\ \A x \in Vars : nxtVerBits'[x] \subseteq Bits(x)
    BY <1>5, BitsNat DEF ReadOperand, TakenBits, NoConflict
  <2> QED BY <1>5, <2>1 DEF ReadOperand, walkVars, sigVars
<1>6. ASSUME NEW c \in Modules, InstanceLine(c) PROVE Types'
  BY <1>6 DEF InstanceLine, walkVars, sigVars
<1>7. CASE Finish
  BY <1>7, HeadOfStack DEF Finish
<1>8. CASE UNCHANGED vars
  BY <1>8 DEF vars, walkVars, lineVars, sigVars
<1>9. \A v \in Vars : Slices(v) \subseteq SUBSET Bits(v) /\ Bits(v) \in SUBSET Bits(v)
  BY VariablesAssumption DEF Slices, Bits
<1> QED BY <1>1, <1>2, <1>3, <1>4, <1>5, <1>6, <1>7, <1>8, <1>9 DEF Next

-----------------------------------------------------------------------------
\* Every bit of a word before the last is assigned; of the last word, those
\* that are taken, or all when the module is finished.
Filled(v, k, b) ==
  /\ k \in 0..(nextVersion[v] - 1)
  /\ b \in Bits(v)
  /\ k < nextVersion[v] - 1 \/ b \in nxtVerBits[v] \/ stage = "walk"

DrivenInv ==
  /\ twice = {}
  /\ driven \subseteq Begun
  /\ \A v \in Vars, k \in Nat, b \in Nat : <<v, k, b>> \in driven <=> Filled(v, k, b)

\* An assignment of new bits keeps what is true of the old ones.
LEMMA DriveMembers ==
  ASSUME NEW new, Drive(new), twice = {}, \A w \in new : w \notin driven
  PROVE  twice' = {} /\ \A w : w \in driven' <=> w \in driven \/ w \in new
BY DEF Drive

LEMMA BegunPrime ==
  ASSUME NEW w
  PROVE  w \in Begun' <=> \E v \in Vars : \E k \in 0..(nextVersion'[v] - 1) : \E b \in Bits(v) : w = <<v, k, b>>
BY DEF Begun, Bits

LEMMA DrivenInit == Init => DrivenInv
BY DEF Init, DrivenInv, Filled, Begun

LEMMA DrivenNext == Types /\ DrivenInv /\ [Next]_vars => DrivenInv'
<1> SUFFICES ASSUME Types, DrivenInv, [Next]_vars PROVE DrivenInv'
  OBVIOUS
<1>a. ASSUME UNCHANGED <<nextVersion, nxtVerBits, driven, twice>>, stage' = "walk" <=> stage = "walk"
      PROVE  DrivenInv'
  BY <1>a DEF DrivenInv, Filled, Begun, Bits
<1>1. ASSUME NEW m \in Modules, Enter(m) PROVE DrivenInv'
  BY <1>1, <1>a DEF Enter, lineVars
<1>2. CASE Begin
  BY <1>2 DEF Begin, DrivenInv, Filled, Begun
<1>3. ASSUME NEW r, DeclareReg(r) PROVE DrivenInv'
  BY <1>3, <1>a DEF DeclareReg
<1>4. ASSUME NEW v \in Vars, DeclareOutput(v) PROVE DrivenInv'
  <2> DEFINE new == {<<v, 0, b>> : b \in Bits(v)}
  <2>1. /\ nextVersion' = [nextVersion EXCEPT ![v] = 1] /\ nextVersion[v] = 0
        /\ nxtVerBits' = [nxtVerBits EXCEPT ![v] = Bits(v)]
        /\ stage' = "lines" /\ stage = "lines" /\ Drive(new)
    BY <1>4 DEF DeclareOutput
  <2>2. \A w \in new : w \notin driven
    BY <2>1, BitsNat DEF DrivenInv, Filled
  <2>3. twice' = {} /\ \A w : w \in driven' <=> w \in driven \/ w \in new
    BY <2>1, <2>2, DriveMembers DEF DrivenInv
  <2>4. ASSUME NEW w, w \in driven' PROVE w \in Begun'
    <3>1. CASE w \in driven
      <4>1. PICK x \in Vars : \E k \in 0..(nextVersion[x] - 1) : \E b \in Bits(x) : w = <<x, k, b>>
        BY <3>1, BegunMembers DEF DrivenInv
      <4>2. nextVersion'[x] = nextVersion[x] \/ x = v
        BY <2>1 DEF Types
      <4> QED BY <2>1, <4>1, <4>2, BegunPrime DEF Types
    <3>2. CASE w \in new
      BY <3>2, <2>1, BegunPrime DEF Types
    <3> QED BY <2>3, <2>4, <3>1, <3>2
  <2>5. ASSUME NEW x \in Vars, NEW k \in Nat, NEW b \in Nat
        PROVE  <<x, k, b>> \in driven' <=> Filled(x, k, b)'
    <3>1. <<x, k, b>> \in driven <=> Filled(x, k, b)
      BY DEF DrivenInv
    <3>2. <<x, k, b>> \in new <=> x = v /\ k = 0 /\ b \in Bits(v)
      OBVIOUS
    <3>3. CASE x = v
      BY <2>1, <2>3, <3>1, <3>2, <3>3 DEF Filled, Bits, Types
    <3>4. CASE x # v
      BY <2>1, <2>3, <3>1, <3>2, <3>4 DEF Filled, Bits, Types
    <3> QED BY <3>3, <3>4
  <2> QED BY <2>3, <2>4, <2>5 DEF DrivenInv
<1>5. ASSUME NEW v \in Vars, NEW bits \in SUBSET Bits(v), NEW sliced \in BOOLEAN, NEW force \in BOOLEAN,
             ReadOperand(v, bits, sliced, force)
      PROVE DrivenInv'
  <2> DEFINE first == nextVersion[v] = 0
             isNew == first \/ force \/ ~NoConflict(v, bits, sliced)
             ver   == IF isNew THEN nextVersion[v] ELSE nextVersion[v] - 1
             new   == (IF isNew /\ ~first THEN FreeBits(v) ELSE {}) \cup {<<v, ver, b>> : b \in bits}
  <2>1. /\ nextVersion' = [nextVersion EXCEPT ![v] = ver + 1]
        /\ nxtVerBits' = [nxtVerBits EXCEPT ![v] = TakenBits(v, bits, isNew)]
        /\ stage' = "lines" /\ stage = "lines" /\ Drive(new)
    BY <1>5 DEF ReadOperand
  <2>2. nextVersion[v] \in Nat /\ ver \in Nat /\ (ver = nextVersion[v] \/ (ver = nextVersion[v] - 1 /\ ~isNew))
    BY DEF Types
  <2>3. ASSUME NEW x \in Vars, NEW k \in Nat, NEW b \in Nat
        PROVE  <<x, k, b>> \in new <=>
                 /\ x = v /\ b \in Bits(v)
                 /\ \/ isNew /\ ~first /\ k = nextVersion[v] - 1 /\ b \notin nxtVerBits[v]
                    \/ k = ver /\ b \in bits
    BY <2>2 DEF FreeBits
  <2>4. ASSUME NEW w \in new PROVE w \notin driven
    <3>1. PICK k \in Nat, b \in Nat : w = <<v, k, b>>
      BY <2>2, BitsNat DEF FreeBits
    <3>2. <<v, k, b>> \in driven <=> Filled(v, k, b)
      BY DEF DrivenInv
    <3>3. ~isNew => bits \cap nxtVerBits[v] = {}
      BY DEF NoConflict
    <3> QED BY <2>1, <2>2, <2>3, <3>1, <3>2, <3>3 DEF Filled
  <2>5. twice' = {} /\ \A w : w \in driven' <=> w \in driven \/ w \in new
    BY <2>1, <2>4, DriveMembers DEF DrivenInv
  <2>6. nextVersion[v] <= ver + 1 /\ nextVersion'[v] = ver + 1 /\ \A x \in Vars : x # v => nextVersion'[x] = nextVersion[x]
    BY <2>1, <2>2 DEF Types
  <2>7. ASSUME NEW w, w \in driven' PROVE w \in Begun'
    <3>1. CASE w \in driven
      <4>1. PICK x \in Vars : \E k \in 0..(nextVersion[x] - 1) : \E b \in Bits(x) : w = <<x, k, b>>
        BY <3>1, BegunMembers DEF DrivenInv
      <4>2. nextVersion[x] \in Nat /\ nextVersion'[x] \in Nat /\ nextVersion[x] <= nextVersion'[x]
        <5>1. CASE x = v
          BY <5>1, <2>2, <2>6
        <5>2. CASE x # v
          BY <5>2, <2>6 DEF Types
        <5> QED BY <5>1, <5>2
      <4>3. \A k \in 0..(nextVersion[x] - 1) : k \in 0..(nextVersion'[x] - 1)
        BY <4>2
      <4> QED BY <4>1, <4>3, BegunPrime
    <3>2. CASE w \in new
      <4>1. PICK k \in 0..ver, b \in Bits(v) : w = <<v, k, b>>
        BY <3>2, <2>2 DEF FreeBits
      <4> QED BY <4>1, <2>2, <2>6, BegunPrime
    <3> QED BY <2>5, <2>7, <3>1, <3>2
  <2>8. ASSUME NEW x \in Vars, NEW k \in Nat, NEW b \in Nat
        PROVE  <<x, k, b>> \in driven' <=> Filled(x, k, b)'
    <3>1. <<x, k, b>> \in driven <=> Filled(x, k, b)
      BY DEF DrivenInv
    <3>2. CASE x = v
      <4>1. nxtVerBits'[v] = IF isNew THEN bits ELSE nxtVerBits[v] \cup bits
        BY <2>1 DEF Types, TakenBits
      <4> HIDE DEF new
      <4>2. CASE isNew
        BY <2>1, <2>2, <2>3, <2>5, <2>6, <3>1, <3>2, <4>1, <4>2 DEF Filled, Bits
      <4>3. CASE ~isNew
        BY <2>1, <2>2, <2>3, <2>5, <2>6, <3>1, <3>2, <4>1, <4>3 DEF Filled, Bits
      <4> QED BY <4>2, <4>3
    <3>3. CASE x # v
      <4>1. <<x, k, b>> \notin new
        BY <2>3, <3>3
      <4> QED BY <2>1, <2>5, <2>6, <3>1, <3>3, <4>1 DEF Filled, Bits, Types
    <3> QED BY <3>2, <3>3
  <2> QED BY <2>5, <2>7, <2>8 DEF DrivenInv
<1>6. ASSUME NEW c \in Modules, InstanceLine(c) PROVE DrivenInv'
  BY <1>6, <1>a DEF InstanceLine
<1>7. CASE Finish
  <2> DEFINE new == UNION {FreeBits(v) : v \in {x \in Vars : nextVersion[x] > 0}}
  <2>1. /\ stage = "lines" /\ stage' = "walk" /\ Drive(new)
        /\ UNCHANGED <<nextVersion, nxtVerBits>>
    BY <1>7 DEF Finish
  <2>2. ASSUME NEW w
        PROVE  w \in new <=> \E v \in Vars : nextVersion[v] > 0 /\ \E b \in Bits(v) \ nxtVerBits[v] : w = <<v, nextVersion[v] - 1, b>>
    BY DEF FreeBits
  <2>3. ASSUME NEW v \in Vars, NEW b \in Bits(v) PROVE b \in Nat /\ nextVersion[v] \in Nat
    BY BitsNat DEF Types
  <2> HIDE DEF new
  <2>4. ASSUME NEW w \in new PROVE w \notin driven
    <3>1. PICK v \in Vars : nextVersion[v] > 0 /\ \E b \in Bits(v) \ nxtVerBits[v] : w = <<v, nextVersion[v] - 1, b>>
      BY <2>2
    <3>2. PICK b \in Bits(v) \ nxtVerBits[v] : w = <<v, nextVersion[v] - 1, b>>
      BY <3>1
    <3>3. <<v, nextVersion[v] - 1, b>> \in driven <=> Filled(v, nextVersion[v] - 1, b)
      BY <2>3, <3>1 DEF DrivenInv
    <3> QED BY <2>1, <2>3, <3>1, <3>2, <3>3 DEF Filled
  <2>5. twice' = {} /\ \A w : w \in driven' <=> w \in driven \/ w \in new
    BY <2>1, <2>4, DriveMembers DEF DrivenInv
  <2>6. ASSUME NEW w, w \in driven' PROVE w \in Begun'
    <3>1. CASE w \in driven
      BY <3>1, <2>1, BegunMembers, BegunPrime DEF DrivenInv
    <3>2. CASE w \in new
      <4>1. PICK v \in Vars : nextVersion[v] > 0 /\ \E b \in Bits(v) \ nxtVerBits[v] : w = <<v, nextVersion[v] - 1, b>>
        BY <3>2, <2>2
      <4>2. nextVersion[v] \in Nat /\ nextVersion[v] - 1 \in 0..(nextVersion[v] - 1)
        BY <4>1 DEF Types
      <4> QED BY <2>1, <4>1, <4>2, BegunPrime
    <3> QED BY <2>5, <2>6, <3>1, <3>2
  <2>7. ASSUME NEW x \in Vars, NEW k \in Nat, NEW b \in Nat
        PROVE  <<x, k, b>> \in driven' <=> Filled(x, k, b)'
    <3>1. <<x, k, b>> \in driven <=> Filled(x, k, b)
      BY DEF DrivenInv
    <3>2. <<x, k, b>> \in new <=> nextVersion[x] > 0 /\ k = nextVersion[x] - 1 /\ b \in Bits(x) \ nxtVerBits[x]
      BY <2>2
    <3>3. nextVersion[x] \in Nat
      BY DEF Types
    <3> QED BY <2>1, <2>5, <3>1, <3>2, <3>3 DEF Filled, Bits
  <2> QED BY <2>5, <2>6, <2>7 DEF DrivenInv
<1>8. CASE UNCHANGED vars
  BY <1>8, <1>a DEF vars, walkVars, lineVars, sigVars
<1>9. \A v \in Vars : Slices(v) \subseteq SUBSET Bits(v) /\ Bits(v) \in SUBSET Bits(v)
  BY VariablesAssumption DEF Slices, Bits
<1> QED BY <1>1, <1>2, <1>3, <1>4, <1>5, <1>6, <1>7, <1>8, <1>9 DEF Next

\* Every variable keeps its type, whatever the lines of the modules are.
THEOREM TypeCorrect == Spec => []TypeOK
<1>1. Types /\ DrivenInv => TypeOK
  BY DEF Types, DrivenInv, TypeOK, Begun
<1>2. Init => Types /\ DrivenInv
  BY TypesInit, DrivenInit
<1>3. Types /\ DrivenInv /\ [Next]_vars => (Types /\ DrivenInv)'
  BY TypesNext, DrivenNext
<1> QED BY <1>1, <1>2, <1>3, PTL DEF Spec

\* However variables are read, no relevance bit is assigned twice and none is
\* left out when the module is finished.
THEOREM DrivenOnceHolds == Spec => []DrivenOnce
<1>1. Types /\ DrivenInv => DrivenOnce
  <2> SUFFICES ASSUME Types, DrivenInv, stage = "walk" PROVE Begun \subseteq driven
    BY DEF DrivenInv, DrivenOnce
  <2> SUFFICES ASSUME NEW w \in Begun PROVE w \in driven
    OBVIOUS
  <2>1. PICK v \in Vars : \E k \in 0..(nextVersion[v] - 1) : \E b \in Bits(v) : w = <<v, k, b>>
    BY BegunMembers
  <2>2. PICK k \in 0..(nextVersion[v] - 1), b \in Bits(v) : w = <<v, k, b>>
    BY <2>1
  <2>3. k \in Nat /\ b \in Nat
    BY BitsNat DEF Types
  <2> QED BY <2>2, <2>3 DEF DrivenInv, Filled
<1>2. Init => Types /\ DrivenInv
  BY TypesInit, DrivenInit
<1>3. Types /\ DrivenInv /\ [Next]_vars => (Types /\ DrivenInv)'
  BY TypesNext, DrivenNext
<1> QED BY <1>1, <1>2, <1>3, PTL DEF Spec

-----------------------------------------------------------------------------
\* A numbering that shows that no module is below itself.
Rank == CHOOSE rank \in [Modules -> 0..Cardinality(Modules)] :
          \A m \in Modules : \A c \in Child[m] : rank[c] < rank[m]

LEMMA RankDecreases ==
  /\ \A m \in Modules : Rank[m] \in Int
  /\ \A m \in Modules : \A c \in Child[m] : c \in Modules /\ Rank[c] < Rank[m]
<1>1. \E rank \in [Modules -> 0..Cardinality(Modules)] :
        \A m \in Modules : \A c \in Child[m] : rank[c] < rank[m]
  BY HierarchyAssumption
<1>2. /\ Rank \in [Modules -> 0..Cardinality(Modules)]
      /\ \A m \in Modules : \A c \in Child[m] : Rank[c] < Rank[m]
  BY <1>1 DEF Rank
<1> QED BY <1>2, ChildModules

\* The calls on the stack go down the hierarchy and none of them is of a
\* module taken up already, but for the one whose lines are read; what is
\* taken up is known when its lines are done and has its children before it.
WalkInv ==
  /\ stage # "aborted"
  /\ \A i, j \in 1..Len(stack) : i < j => Rank[stack[i]] < Rank[stack[j]]
  /\ \A i \in 1..Len(stack) : stack[i] \in ready => i = 1 /\ stage = "lines"
  /\ stage = "lines" => Cur \in ready
  /\ \A m \in ready : m \in known \/ m = Top \/ (stage = "lines" /\ m = Cur)
  /\ \A m \in ready : Child[m] \subseteq ready
  /\ \A i \in 1..Len(order) : order[i] \in ready
  /\ \A m \in ready : \E i \in 1..Len(order) : order[i] = m
  /\ ChildrenFirst

LEMMA WalkInit == Init => WalkInv
BY DEF Init, WalkInv, ChildrenFirst

LEMMA WalkNext == Types /\ WalkInv /\ [Next]_vars => WalkInv'
<1> SUFFICES ASSUME Types, WalkInv, [Next]_vars PROVE WalkInv'
  OBVIOUS
<1>a. ASSUME UNCHANGED <<stage, walkVars>> PROVE WalkInv'
  BY <1>a DEF WalkInv, ChildrenFirst, Cur, walkVars
<1>1. ASSUME NEW m \in Modules, Enter(m) PROVE WalkInv'
  <2>1. /\ stage = "walk" /\ m \in Waiting /\ stack' = <<m>> \o stack
        /\ UNCHANGED <<stage, ready, order, known>>
    BY <1>1 DEF Enter
  <2>2. /\ Len(stack') = Len(stack) + 1 /\ stack'[1] = m
        /\ \A i \in 2..Len(stack') : i - 1 \in 1..Len(stack) /\ stack'[i] = stack[i - 1]
    BY <2>1 DEF Types
  <2>3. m \notin ready
    BY <2>1 DEF Waiting
  <2>4. \A j \in 1..Len(stack) : Rank[m] < Rank[stack[j]]
    <3> SUFFICES ASSUME NEW j \in 1..Len(stack) PROVE Rank[m] < Rank[stack[j]]
      OBVIOUS
    <3>1. stack # <<>>
      BY DEF Types
    <3>2. Cur \in Modules /\ Cur = stack[1] /\ stack[j] \in Modules
      BY <3>1, HeadOfStack DEF Types
    <3>3. Rank[m] < Rank[Cur] /\ Rank[m] \in Int /\ Rank[Cur] \in Int /\ Rank[stack[j]] \in Int
      BY <2>1, <3>1, <3>2, RankDecreases DEF Waiting
    <3>4. j = 1 \/ Rank[stack[1]] < Rank[stack[j]]
      BY <3>1 DEF WalkInv, Types
    <3> QED BY <3>2, <3>3, <3>4
  <2>5. ASSUME NEW i \in 1..Len(stack'), NEW j \in 1..Len(stack'), i < j
        PROVE  Rank[stack'[i]] < Rank[stack'[j]]
    <3>1. j \in 2..Len(stack') /\ Len(stack) \in Nat
      BY <2>5, <2>2 DEF Types
    <3>2. stack'[j] = stack[j - 1] /\ j - 1 \in 1..Len(stack)
      BY <3>1, <2>2
    <3>3. CASE i = 1
      BY <3>2, <3>3, <2>2, <2>4
    <3>4. CASE i # 1
      <4>1. i \in 2..Len(stack')
        BY <3>1, <3>4, <2>2
      <4>2. stack'[i] = stack[i - 1] /\ i - 1 \in 1..Len(stack) /\ i - 1 < j - 1
        BY <4>1, <2>2, <2>5
      <4> QED BY <3>2, <4>2 DEF WalkInv
    <3> QED BY <3>3, <3>4
  <2>6. ASSUME NEW i \in 1..Len(stack'), stack'[i] \in ready' PROVE FALSE
    <3>1. CASE i = 1
      BY <3>1, <2>1, <2>2, <2>3, <2>6
    <3>2. CASE i # 1
      <4>1. i \in 2..Len(stack')
        BY <3>2, <2>2 DEF Types
      <4>2. stack[i - 1] \in ready /\ i - 1 \in 1..Len(stack)
        BY <4>1, <2>1, <2>2, <2>6
      <4> QED BY <4>2, <2>1 DEF WalkInv
    <3> QED BY <3>1, <3>2
  <2>7. ChildrenFirst'
    BY <2>1 DEF WalkInv, ChildrenFirst
  <2> QED BY <2>1, <2>5, <2>6, <2>7 DEF WalkInv
<1>2. CASE Begin
  <2>1. /\ stage = "walk" /\ stack # <<>> /\ Waiting = {} /\ stage' = "lines"
        /\ ready' = ready \cup {Cur} /\ order' = Append(order, Cur)
        /\ stack' = stack /\ known' = known
    BY <1>2 DEF Begin
  <2>2. Cur \in Modules /\ Cur = stack[1] /\ Cur' = Cur /\ Len(stack) \in Nat \ {0}
    BY <2>1, HeadOfStack DEF Types, Cur
  <2>3. Cur \notin ready
    BY <2>1, <2>2 DEF WalkInv
  <2>4. Child[Cur] \subseteq ready
    BY <2>1 DEF Waiting
  <2>5. ASSUME NEW i \in 1..Len(stack'), stack'[i] \in ready' PROVE i = 1
    <3>1. stack[i] = Cur
      BY <2>1, <2>5 DEF WalkInv
    <3>2. i # 1 => Rank[stack[1]] < Rank[stack[i]]
      BY <2>1, <2>2 DEF WalkInv
    <3> QED BY <2>2, <3>1, <3>2, RankDecreases
  <2>6. /\ Len(order) \in Nat /\ Len(order') = Len(order) + 1 /\ order'[Len(order) + 1] = Cur
        /\ \A i \in 1..Len(order) : order'[i] = order[i]
        /\ DOMAIN order = 1..Len(order) /\ DOMAIN order' = 1..Len(order')
    BY <2>1, <2>2 DEF Types
  <2>7. \A i \in 1..Len(order') : order'[i] \in ready'
    BY <2>1, <2>6 DEF WalkInv
  <2>8. \A m \in ready' : \E i \in 1..Len(order') : order'[i] = m
    <3> SUFFICES ASSUME NEW m \in ready' PROVE \E i \in 1..Len(order') : order'[i] = m
      OBVIOUS
    <3>1. CASE m = Cur
      BY <3>1, <2>6
    <3>2. CASE m # Cur
      <4>1. PICK i \in 1..Len(order) : order[i] = m
        BY <3>2, <2>1 DEF WalkInv
      <4> QED BY <4>1, <2>6
    <3> QED BY <3>1, <3>2
  <2>9. ChildrenFirst'
    <3>1. ASSUME NEW i \in 1..Len(order'), NEW j \in 1..Len(order'), order'[i] = order'[j] PROVE i = j
      <4>1. CASE i \in 1..Len(order) /\ j \in 1..Len(order)
        BY <3>1, <4>1, <2>6 DEF WalkInv, ChildrenFirst
      <4>2. CASE i = Len(order) + 1 /\ j \in 1..Len(order)
        BY <3>1, <4>2, <2>3, <2>6 DEF WalkInv
      <4>3. CASE j = Len(order) + 1 /\ i \in 1..Len(order)
        BY <3>1, <4>3, <2>3, <2>6 DEF WalkInv
      <4> QED BY <4>1, <4>2, <4>3, <2>6
    <3>2. ASSUME NEW i \in 1..Len(order'), NEW c \in Child[order'[i]]
          PROVE  \E j \in 1..(i - 1) : order'[j] = c
      <4>1. CASE i \in 1..Len(order)
        <5>1. PICK j \in 1..(i - 1) : order[j] = c
          BY <4>1, <3>2, <2>6 DEF WalkInv, ChildrenFirst
        <5> QED BY <4>1, <5>1, <2>6
      <4>2. CASE i = Len(order) + 1
        <5>1. c \in ready
          BY <4>2, <3>2, <2>4, <2>6
        <5>2. PICK j \in 1..Len(order) : order[j] = c
          BY <5>1 DEF WalkInv
        <5> QED BY <4>2, <5>2, <2>6
      <4> QED BY <4>1, <4>2, <2>6
    <3> QED BY <2>1, <2>6, <3>1, <3>2 DEF ChildrenFirst
  <2>10. \A i, j \in 1..Len(stack') : i < j => Rank[stack'[i]] < Rank[stack'[j]]
    BY <2>1 DEF WalkInv
  <2>11. \A m \in ready' : m \in known' \/ m = Top \/ m = Cur'
    BY <2>1, <2>2 DEF WalkInv
  <2>12. \A m \in ready' : Child[m] \subseteq ready'
    BY <2>1, <2>4 DEF WalkInv
  <2> QED BY <2>1, <2>2, <2>5, <2>7, <2>8, <2>9, <2>10, <2>11, <2>12 DEF WalkInv
<1>3. ASSUME NEW r, DeclareReg(r) PROVE WalkInv'
  BY <1>3, <1>a DEF DeclareReg
<1>4. ASSUME NEW v, DeclareOutput(v) PROVE WalkInv'
  BY <1>4, <1>a DEF DeclareOutput
<1>5. ASSUME NEW v, NEW bits, NEW sliced, NEW force, ReadOperand(v, bits, sliced, force) PROVE WalkInv'
  BY <1>5, <1>a DEF ReadOperand
<1>6. ASSUME NEW c \in Modules, InstanceLine(c) PROVE WalkInv'
  <2>1. stage = "lines" /\ c \in Child[Cur] /\ UNCHANGED walkVars
    BY <1>6 DEF InstanceLine
  <2>2. Cur \in Modules /\ Cur \in ready /\ c # Top
    BY <2>1, HeadOfStack, HierarchyAssumption DEF Types, WalkInv
  <2>3. c \in ready /\ c # Cur
    BY <2>1, <2>2, RankDecreases DEF WalkInv
  <2>4. stage' = "lines"
    BY <1>6, <2>2, <2>3 DEF InstanceLine, WalkInv
  <2> QED BY <2>1, <2>4, <1>a
<1>7. CASE Finish
  <2>1. /\ stage = "lines" /\ stage' = "walk" /\ stack' = Tail(stack)
        /\ known' = (IF Cur = Top THEN known ELSE known \cup {Cur})
        /\ UNCHANGED <<ready, order>>
    BY <1>7 DEF Finish
  <2>2. /\ Len(stack) \in Nat \ {0} /\ Len(stack') = Len(stack) - 1
        /\ \A i \in 1..Len(stack') : stack'[i] = stack[i + 1] /\ i + 1 \in 2..Len(stack)
    BY <2>1, HeadOfStack DEF Types
  <2>3. \A i, j \in 1..Len(stack') : i < j => Rank[stack'[i]] < Rank[stack'[j]]
    <3>1. \A i, j \in 1..Len(stack) : i < j => Rank[stack[i]] < Rank[stack[j]]
      BY DEF WalkInv
    <3> SUFFICES ASSUME NEW i \in 1..Len(stack'), NEW j \in 1..Len(stack'), i < j
                 PROVE  Rank[stack'[i]] < Rank[stack'[j]]
      OBVIOUS
    <3>2. /\ stack'[i] = stack[i + 1] /\ stack'[j] = stack[j + 1]
          /\ i + 1 \in 1..Len(stack) /\ j + 1 \in 1..Len(stack) /\ i + 1 < j + 1
      BY <2>2
    <3> HIDE DEF Rank
    <3> QED BY <3>1, <3>2
  <2>4. \A i \in 1..Len(stack') : stack'[i] \notin ready'
    BY <2>1, <2>2 DEF WalkInv
  <2>5. \A m \in ready' : m \in known' \/ m = Top
    BY <2>1 DEF WalkInv
  <2>6. ChildrenFirst'
    BY <2>1 DEF WalkInv, ChildrenFirst
  <2> QED BY <2>1, <2>3, <2>4, <2>5, <2>6 DEF WalkInv
<1>8. CASE UNCHANGED vars
  BY <1>8, <1>a DEF vars
<1> QED BY <1>1, <1>2, <1>3, <1>4, <1>5, <1>6, <1>7, <1>8 DEF Next

\* In every hierarchy modules are written once each and after those they have
\* instances of; an instance never meets a module whose ports are unknown.
THEOREM ChildrenFirstHolds == Spec => []ChildrenFirst
<1>1. Init => Types /\ WalkInv
  BY TypesInit, WalkInit
<1>2. Types /\ WalkInv /\ [Next]_vars => (Types /\ WalkInv)'
  BY TypesNext, WalkNext
<1>3. WalkInv => ChildrenFirst
  BY DEF WalkInv
<1> QED BY <1>1, <1>2, <1>3, PTL DEF Spec

-----------------------------------------------------------------------------
LEMMA RegistersFinite == IsFiniteSet(Registers)
<1> DEFINE S == {Regs[m] : m \in Modules}
           f == [m \in Modules |-> Regs[m]]
<1>1. f \in Surjection(Modules, S)
  BY DEF Surjection
<1>2. IsFiniteSet(S)
  <2> HIDE DEF S, f
  <2> QED BY <1>1, FS_Surjection, HierarchyAssumption
<1>3. \A T \in S : IsFiniteSet(T)
  BY RegistersAssumption
<1>4. IsFiniteSet(UNION S)
  <2> HIDE DEF S
  <2> QED BY <1>2, <1>3, FS_UNION
<1>5. IsFiniteSet(Modules \X UNION S)
  <2> HIDE DEF S
  <2> QED BY <1>4, FS_Product, HierarchyAssumption
<1>6. Registers \subseteq Modules \X UNION S
  BY DEF Registers
<1> QED
  <2> HIDE DEF S
  <2> QED BY <1>5, <1>6, FS_Subset

\* The registers declared so far have the numbers from 3 on, each its own.
Given == DOMAIN sigs
SigInv ==
  /\ IF stage = "walk" THEN StartSig(nextSig) = FirstSig + Cardinality(Given)
                       ELSE g_next_sig = FirstSig + Cardinality(Given)
  /\ \A p \in Given : sigs[p] \in FirstSig..(FirstSig + Cardinality(Given) - 1)
  /\ \A p, q \in Given : sigs[p] = sigs[q] => p = q
  /\ \A p \in Given : p[1] \in ready
  /\ stage = "lines" => \A p \in Given : p[1] = Cur => <<"reg", p[2]>> \in declared

LEMMA SigInit == Init => SigInv
BY FS_EmptySet DEF Init, SigInv, Given, StartSig, FirstSig

LEMMA SigNext == Types /\ WalkInv /\ SigInv /\ [Next]_vars => SigInv'
<1> SUFFICES ASSUME Types, WalkInv, SigInv, [Next]_vars PROVE SigInv'
  OBVIOUS
<1>c. IsFiniteSet(Given) /\ Cardinality(Given) \in Nat
  BY RegistersFinite, FS_Subset, FS_CardinalityType DEF Types, Given
<1>a. ASSUME UNCHANGED <<stage, stack, ready, nextSig, g_next_sig, sigs>>, declared \subseteq declared' PROVE SigInv'
  BY <1>a DEF SigInv, Given, Cur, StartSig
<1>1. ASSUME NEW m \in Modules, Enter(m) PROVE SigInv'
  BY <1>1 DEF Enter, sigVars, lineVars, SigInv, Given, StartSig
<1>2. CASE Begin
  <2>1. /\ stage = "walk" /\ stack # <<>> /\ stage' = "lines" /\ ready' = ready \cup {Cur}
        /\ g_next_sig' = StartSig(nextSig) /\ UNCHANGED <<stack, sigs>>
    BY <1>2 DEF Begin
  <2>2. Cur' = Cur /\ Given' = Given
    BY <2>1 DEF Cur, Given
  <2>3. Cur \notin ready
    BY <2>1, HeadOfStack DEF WalkInv, Types
  <2> QED BY <2>1, <2>2, <2>3 DEF SigInv
<1>3. ASSUME NEW r, DeclareReg(r) PROVE SigInv'
  <2> DEFINE p0 == <<Cur, r>>
  <2>1. /\ stage = "lines" /\ <<"reg", r>> \notin declared
        /\ declared' = declared \cup {<<"reg", r>>}
        /\ sigs' = [p \in Given \cup {p0} |-> IF p = p0 THEN g_next_sig ELSE sigs[p]]
        /\ g_next_sig' = g_next_sig + 1
        /\ UNCHANGED <<stage, stack, ready, nextSig>>
    BY <1>3 DEF DeclareReg, walkVars, Given
  <2>2. p0 \notin Given /\ Cur \in ready /\ Cur' = Cur
    BY <2>1 DEF SigInv, WalkInv, Cur
  <2> HIDE DEF p0
  <2>3. Given' = Given \cup {p0}
    BY <2>1 DEF Given
  <2>4. Cardinality(Given') = Cardinality(Given) + 1
    BY <2>2, <2>3, <1>c, FS_AddElement
  <2>5. g_next_sig = FirstSig + Cardinality(Given)
    BY <2>1 DEF SigInv
  <2>6. \A p \in Given' : \/ p = p0 /\ sigs'[p] = g_next_sig
                          \/ p \in Given /\ p # p0 /\ sigs'[p] = sigs[p]
    <3>1. sigs' = [p \in Given \cup {p0} |-> IF p = p0 THEN g_next_sig ELSE sigs[p]]
      BY <2>1
    <3> QED BY <2>3, <3>1
  <2>7. \A p \in Given' : sigs'[p] \in FirstSig..(FirstSig + Cardinality(Given') - 1)
    BY <2>4, <2>5, <2>6, <1>c DEF SigInv, FirstSig
  <2>8. \A p, q \in Given' : sigs'[p] = sigs'[q] => p = q
    BY <2>5, <2>6, <1>c DEF SigInv, FirstSig
  <2>9. p0[1] = Cur /\ p0[2] = r
    BY DEF p0
  <2>10. \A p \in Given' : p[1] \in ready'
    BY <2>1, <2>2, <2>3, <2>9 DEF SigInv
  <2>11. \A p \in Given' : p[1] = Cur' => <<"reg", p[2]>> \in declared'
    BY <2>1, <2>2, <2>3, <2>9 DEF SigInv
  <2>12. g_next_sig' = FirstSig + Cardinality(Given')
    BY <2>1, <2>4, <2>5, <1>c DEF FirstSig
  <2>13. stage' = "lines"
    BY <2>1
  <2> QED BY <2>7, <2>8, <2>10, <2>11, <2>12, <2>13 DEF SigInv
<1>4. ASSUME NEW v, DeclareOutput(v) PROVE SigInv'
  BY <1>4, <1>a DEF DeclareOutput, walkVars, sigVars
<1>5. ASSUME NEW v, NEW bits, NEW sliced, NEW force, ReadOperand(v, bits, sliced, force) PROVE SigInv'
  BY <1>5, <1>a DEF ReadOperand, walkVars, sigVars
<1>6. ASSUME NEW c \in Modules, InstanceLine(c) PROVE SigInv'
  BY <1>6 DEF InstanceLine, walkVars, sigVars, SigInv, Given, Cur
<1>7. CASE Finish
  <2>1. /\ stage = "lines" /\ stage' = "walk" /\ nextSig' = g_next_sig /\ UNCHANGED <<ready, sigs>>
    BY <1>7 DEF Finish
  <2>2. Given' = Given /\ StartSig(nextSig') = g_next_sig
    BY <2>1, <1>c DEF Given, StartSig, SigInv, FirstSig
  <2>3. StartSig(nextSig)' = StartSig(nextSig')
    BY DEF StartSig, FirstSig
  <2> QED BY <2>1, <2>2, <2>3 DEF SigInv, FirstSig
<1>8. CASE UNCHANGED vars
  BY <1>8, <1>a DEF vars, walkVars, lineVars, sigVars
<1> QED BY <1>1, <1>2, <1>3, <1>4, <1>5, <1>6, <1>7, <1>8 DEF Next

\* When register names are distinct, every register of the design has a
\* signature of its own that none of the reserved ones equals, and SigWidth
\* bits hold it.
THEOREM SigUniqueHolds == Spec => []SigUnique
<1>1. Init => Types /\ WalkInv /\ SigInv
  BY TypesInit, WalkInit, SigInit
<1>2. Types /\ WalkInv /\ SigInv /\ [Next]_vars => (Types /\ WalkInv /\ SigInv)'
  BY TypesNext, WalkNext, SigNext
<1>3. Types /\ SigInv => SigUnique
  <2> SUFFICES ASSUME Types, SigInv, RegCount = Cardinality(Registers)
               PROVE  /\ \A p \in Given : SigValue(p) \notin 0..(FirstSig - 1)
                      /\ \A p, q \in Given : SigValue(p) = SigValue(q) => p = q
    BY DEF SigUnique, Given
  <2>1. /\ Cardinality(Given) \in Nat /\ Cardinality(Registers) \in Nat
        /\ Cardinality(Given) <= Cardinality(Registers)
    BY RegistersFinite, FS_Subset, FS_CardinalityType DEF Types, Given
  <2>2. 2^SigWidth \in Nat /\ Cardinality(Registers) + 3 <= 2^SigWidth
    BY SigWidthAssumption
  <2>3. \A n, M \in Nat : n < M => n % M = n
    OBVIOUS
  <2>4. \A p \in Given : SigValue(p) = sigs[p] /\ sigs[p] >= FirstSig
    BY <2>1, <2>2, <2>3 DEF SigInv, SigValue, FirstSig
  <2> QED BY <2>1, <2>4 DEF SigInv, FirstSig
<1> QED BY <1>1, <1>2, <1>3, PTL DEF Spec
=============================================================================
