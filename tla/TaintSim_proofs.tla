--------------------------- MODULE TaintSim_proofs ---------------------------
(***************************************************************************)
(* Proofs about TaintSim, for every set of designs.                        *)
(***************************************************************************)
EXTENDS TaintSim, FiniteSetTheorems, SequenceTheorems, TLAPS

\* The flags are single bits, and those of a register that only ever gets a
\* literal are never set.
FlagInv ==
  /\ tflag \in [Regs -> BOOLEAN]
  /\ rflag \in [Regs -> BOOLEAN]
  /\ \A q \in Regs : Src(q).n = 0 => ~tflag[q] /\ ~rflag[q]

\* What one clock edge may do to the flags of a register, whatever the design.
FlagStep(rst, q) ==
  /\ tflag'[q] \in BOOLEAN /\ rflag'[q] \in BOOLEAN
  /\ Src(q).n = 0 \/ rst => ~tflag'[q] /\ ~rflag'[q]
  /\ Src(q).n # 0 /\ ~rst => /\ tflag[q] => tflag'[q]
                             /\ rflag[q] => rflag'[q]
                             /\ tflag[q] /\ ~rflag[q] => ~rflag'[q]

LEMMA ClockFlags ==
  ASSUME NEW rst \in BOOLEAN, FlagInv, Clock(rst)
  PROVE  /\ net' = net
         /\ tflag' \in [Regs -> BOOLEAN]
         /\ rflag' \in [Regs -> BOOLEAN]
         /\ \A q \in Regs : FlagStep(rst, q)
<1>1. PICK tn, keeping, rel :
        /\ tflag' = [q \in Regs |-> Src(q).n # 0 /\ TFlag(rst, tflag[q], tn[q], q \in keeping)]
        /\ rflag' = [q \in Regs |-> Src(q).n # 0 /\ RFlag(rst, rflag[q], tflag[q], rel[q], val[q] = Node[q].rst)]
  <2> DEFINE w == [q \in Regs |-> IF Src(q).n # 0 THEN TaintOf(Value)[Src(q).n] ELSE <<>>]
             k == Keeps(SigsOf(Value))
             r == RelevanceOf(Value, TaintOf(Value), k)
  <2>1. tflag' = [q \in Regs |-> Src(q).n # 0 /\ TFlag(rst, tflag[q], w[q], q \in k)]
    BY DEF Clock
  <2>2. rflag' = [q \in Regs |-> Src(q).n # 0 /\ RFlag(rst, rflag[q], tflag[q], r[q], val[q] = Node[q].rst)]
    BY DEF Clock
  <2> HIDE DEF w, k, r
  <2> QED BY <2>1, <2>2
<1>2. \A q \in Regs : FlagStep(rst, q)
  BY <1>1 DEF FlagStep, TFlag, RFlag, FlagInv
<1> QED BY <1>1, <1>2 DEF Clock, TFlag, RFlag

\* The flags stay what they are while signals settle between edges.
LEMMA FlagInvStep == FlagInv /\ [Next]_vars => FlagInv'
<1> SUFFICES ASSUME FlagInv, [Next]_vars PROVE FlagInv'
  OBVIOUS
<1>1. CASE \E rst \in BOOLEAN : Clock(rst)
  <2> PICK rst \in BOOLEAN : Clock(rst)
    BY <1>1
  <2> QED BY ClockFlags DEF FlagInv, FlagStep, Regs, Kind, Nodes, Node, Src
<1>2. CASE UNCHANGED <<net, tflag, rflag>>
  BY <1>2 DEF FlagInv, Regs, Kind, Nodes, Node, Src
<1> QED BY <1>1, <1>2 DEF Next, Drive, TaintInput, AskOutput, vars

LEMMA FlagInvariant == Spec => []FlagInv
<1>1. Init => FlagInv
  BY DEF Init, FlagInv
<1> QED BY <1>1, FlagInvStep, PTL DEF Spec

\* Every step of the simulation is one of the monitor's: a reset, a verdict
\* reached, or nothing.
LEMMA MonitorStep == FlagInv /\ [Next]_vars => [Monitor!Next]_([q \in Regs |-> Verdict(q)])
<1> SUFFICES ASSUME FlagInv, [Next]_vars
             PROVE  Monitor!Next \/ UNCHANGED [q \in Regs |-> Verdict(q)]
  OBVIOUS
<1>1. CASE \E rst \in BOOLEAN : Clock(rst)
  <2> PICK rst \in BOOLEAN : Clock(rst)
    BY <1>1
  <2>1. Regs' = Regs
    BY ClockFlags DEF Regs, Kind, Nodes, Node
  <2>2. \A q \in Regs : Verdict(q) \in {"idle", "read", "written"} /\ Verdict(q)' \in {"idle", "read", "written"}
    BY DEF Verdict
  <2>3. CASE rst
    <3>1. \A q \in Regs : Verdict(q)' = "idle"
      BY <2>3, ClockFlags DEF FlagStep, Verdict
    <3> QED BY <3>1, <2>1 DEF Monitor!Next, Monitor!Reset
  <2>4. CASE ~rst
    <3>1. \A q \in Regs : Verdict(q) # "idle" => Verdict(q)' = Verdict(q)
      BY <2>4, ClockFlags DEF FlagStep, FlagInv, Verdict
    <3> QED BY <3>1, <2>1, <2>2 DEF Monitor!Next, Monitor!Observe, Monitor!Verdicts
  <2> QED BY <2>3, <2>4
<1>2. CASE UNCHANGED <<net, tflag, rflag>>
  BY <1>2 DEF Verdict, Regs, Kind, Nodes, Node
<1> QED BY <1>1, <1>2 DEF Next, Drive, TaintInput, AskOutput, vars

\* For every set of designs, whatever the inputs do: between two resets a
\* register gets at most one verdict, and one that was overwritten with
\* tainted data first is never reported as read (nonblock_taint_gen, the
\* assignments to "_t_flag" and "_r_flag").
THEOREM FlagsRefineMonitor == Spec => FlagsGiveOneVerdict
<1>1. Init => Monitor!Init
  <2> SUFFICES ASSUME Init PROVE Monitor!Init
    OBVIOUS
  <2>1. \A q \in Regs : Verdict(q) = "idle"
    BY DEF Init, Verdict
  <2> QED BY <2>1 DEF Monitor!Init
<1> QED BY <1>1, MonitorStep, FlagInvariant, PTL DEF Spec, FlagsGiveOneVerdict, Monitor!Spec
-----------------------------------------------------------------------------
(* Words and numbers                                                       *)

\* Induction over a set of numbers, and by it that what is defined from one
\* number to the next exists.
LEMMA NatSetInduction ==
  ASSUME NEW S, 0 \in S, \A n \in Nat : n \in S => n + 1 \in S
  PROVE  Nat \subseteq S
<1>1. SUFFICES ASSUME NEW x \in Nat, x \notin S PROVE FALSE
  OBVIOUS
<1> DEFINE T == (0..x) \ S
           f == [y \in T |-> y - 1]
<1>2. \A y \in T : y \in Nat /\ y # 0 /\ y - 1 \in Nat /\ y - 1 \in T \ {x}
  <2> SUFFICES ASSUME NEW y \in T PROVE y \in Nat /\ y # 0 /\ y - 1 \in Nat /\ y - 1 \in T \ {x}
    OBVIOUS
  <2>1. y \in Nat /\ y # 0 /\ y <= x /\ y \notin S
    OBVIOUS
  <2>2. y - 1 \in Nat /\ y - 1 < x /\ (y - 1) + 1 = y
    BY <2>1
  <2>3. y - 1 \notin S
    BY <2>1, <2>2
  <2> QED BY <2>1, <2>2, <2>3
<1>3. f \in [T -> T \ {x}]
  BY <1>2
<1>4. IsFiniteSet(T) /\ IsFiniteSet(T \ {x}) /\ Cardinality(T \ {x}) < Cardinality(T)
  <2>1. IsFiniteSet(0..x) /\ T \in SUBSET (0..x) /\ x \in T
    BY <1>1, FS_Interval
  <2>2. IsFiniteSet(T) /\ Cardinality(T) \in Nat
        /\ IsFiniteSet(T \ {x}) /\ Cardinality(T \ {x}) = Cardinality(T) - 1
    <3> HIDE DEF T
    <3> QED BY <2>1, FS_Subset, FS_RemoveElement, FS_CardinalityType
  <2> QED BY <2>2
<1>5. \E y, z \in T : y # z /\ f[y] = f[z]
  <2> HIDE DEF T, f
  <2> QED BY <1>3, <1>4, FS_PigeonHole
<1> QED BY <1>2, <1>5

IsRun(f, S, n, e, Step) ==
  f \in [0..n -> S] /\ f[0] = e /\ \A k \in 1..n : f[k] = Step[<<f[k - 1], k>>]

LEMMA RecursionExists ==
  ASSUME NEW S, NEW m \in Nat, NEW e \in S, NEW Step \in [S \X (1..m) -> S]
  PROVE  \E f : IsRun(f, S, m, e, Step)
<1> DEFINE Is(f, n) == f[0] = e /\ \A k \in 1..n : f[k] = Step[<<f[k - 1], k>>]
           A == {n \in Nat : n <= m => \E f \in [0..n -> S] : Is(f, n)}
<1>1. 0 \in A
  <2>1. Is([k \in 0..0 |-> e], 0) /\ [k \in 0..0 |-> e] \in [0..0 -> S]
    OBVIOUS
  <2> QED BY <2>1
<1>2. \A n \in Nat : n \in A => n + 1 \in A
  <2> SUFFICES ASSUME NEW n \in Nat, n \in A, n + 1 <= m
               PROVE  \E f \in [0..n + 1 -> S] : Is(f, n + 1)
    OBVIOUS
  <2>1. PICK f \in [0..n -> S] : Is(f, n)
    OBVIOUS
  <2> DEFINE g == [k \in 0..n + 1 |-> IF k = n + 1 THEN Step[<<f[n], n + 1>>] ELSE f[k]]
  <2>2. f[n] \in S /\ n + 1 \in 1..m
    BY <2>1
  <2>3. g \in [0..n + 1 -> S]
    BY <2>2
  <2>4. \A k \in 1..n : k - 1 \in 0..n /\ g[k] = f[k] /\ g[k - 1] = f[k - 1]
    <3> SUFFICES ASSUME NEW k \in 1..n PROVE k - 1 \in 0..n /\ g[k] = f[k] /\ g[k - 1] = f[k - 1]
      OBVIOUS
    <3>1. k \in 0..n + 1 /\ k # n + 1 /\ k - 1 \in 0..n + 1 /\ k - 1 # n + 1 /\ k - 1 \in 0..n
      OBVIOUS
    <3> HIDE DEF Is
    <3> QED BY <3>1
  <2>5. g[0] = e /\ g[n + 1] = Step[<<g[n], n + 1>>]
    <3>1. {0, n, n + 1} \subseteq 0..n + 1 /\ n # n + 1 /\ 0 # n + 1
      OBVIOUS
    <3>2. g[0] = f[0] /\ g[n] = f[n] /\ g[n + 1] = Step[<<f[n], n + 1>>]
      <4> HIDE DEF Is
      <4> QED BY <3>1
    <3> QED BY <2>1, <3>2
  <2>6. Is(g, n + 1)
    <3> SUFFICES ASSUME NEW k \in 1..n + 1 PROVE g[k] = Step[<<g[k - 1], k>>]
      BY <2>5
    <3>1. CASE k = n + 1
      BY <2>5, <3>1
    <3>2. CASE k \in 1..n
      BY <2>1, <2>4, <3>2
    <3> QED BY <3>1, <3>2
  <2> HIDE DEF g, Is
  <2> QED BY <2>3, <2>6
<1>3. m \in A
  <2> HIDE DEF A
  <2> QED BY <1>1, <1>2, NatSetInduction
<1>4. \E f \in [0..m -> S] : Is(f, m)
  BY <1>3
<1> QED BY <1>4 DEF IsRun

IsNum(f, x, n) ==
  /\ f \in [0..n -> Nat] /\ f[0] = 0
  /\ \A k \in 1..n : k - 1 \in 0..n /\ f[k] = 2 * f[k - 1] + IF x[n + 1 - k] THEN 1 ELSE 0
  /\ Num(x) = f[n]

LEMMA NumIs ==
  ASSUME NEW n \in Nat, NEW x \in Words(n)
  PROVE  \E f : IsNum(f, x, n)
<1>1. Len(x) = n
  BY DEF Words
<1> DEFINE bit(k) == IF x[n + 1 - k] THEN 1 ELSE 0
           Step == [p \in Nat \X (1..n) |-> 2 * p[1] + bit(p[2])]
           Rule(u) == u = [k \in 0..Len(x) |-> IF k = 0 THEN 0 ELSE 2 * u[k - 1] + IF x[Len(x) + 1 - k] THEN 1 ELSE 0]
<1>2. Step \in [Nat \X (1..n) -> Nat]
  OBVIOUS
<1>3. PICK f : IsRun(f, Nat, n, 0, Step)
  <2> HIDE DEF Step
  <2> QED BY <1>2, RecursionExists
<1>4. f \in [0..n -> Nat] /\ f[0] = 0 /\ \A k \in 1..n : k - 1 \in 0..n /\ f[k] = 2 * f[k - 1] + bit(k)
  <2>1. f \in [0..n -> Nat] /\ f[0] = 0
    BY <1>3 DEF IsRun
  <2> SUFFICES ASSUME NEW k \in 1..n PROVE k - 1 \in 0..n /\ f[k] = 2 * f[k - 1] + bit(k)
    BY <2>1
  <2>2. k - 1 \in 0..n
    OBVIOUS
  <2>3. <<f[k - 1], k>> \in Nat \X (1..n)
    BY <2>1, <2>2
  <2>4. Step[<<f[k - 1], k>>] = 2 * f[k - 1] + bit(k)
    BY <2>3
  <2> HIDE DEF Step
  <2> QED BY <1>3, <2>2, <2>4 DEF IsRun
<1>5. Rule(f)
  <2>1. \A k \in 0..n : f[k] = IF k = 0 THEN 0 ELSE 2 * f[k - 1] + bit(k)
    BY <1>4
  <2>2. f = [k \in 0..n |-> f[k]]
    BY <1>4
  <2> QED BY <1>1, <2>1, <2>2
<1>6. Num(x) = (CHOOSE u : Rule(u))[n]
  BY <1>1 DEF Num
<1>7. Rule(CHOOSE u : Rule(u))
  <2> HIDE DEF Rule
  <2> QED BY <1>5
<1>8. PICK u : u = (CHOOSE w : Rule(w))
  OBVIOUS
<1>9. u = [k \in 0..n |-> IF k = 0 THEN 0 ELSE 2 * u[k - 1] + bit(k)]
  BY <1>1, <1>7, <1>8
<1>10. DOMAIN u = 0..n /\ u[0] = 0 /\ (\A k \in 1..n : u[k] = 2 * u[k - 1] + bit(k)) /\ u = [k \in 0..n |-> u[k]]
  <2>1. PICK r : r = [k \in 0..n |-> IF k = 0 THEN 0 ELSE 2 * u[k - 1] + bit(k)]
    OBVIOUS
  <2>2. DOMAIN r = 0..n /\ r[0] = 0 /\ (\A k \in 1..n : r[k] = 2 * u[k - 1] + bit(k)) /\ r = [k \in 0..n |-> r[k]]
    <3> HIDE DEF bit
    <3> QED BY <2>1
  <2> HIDE DEF bit
  <2> QED BY <1>9, <2>1, <2>2
<1>11. \A k \in 0..n : u[k] \in Nat
  <2> DEFINE A == {k \in Nat : k <= n => u[k] \in Nat}
  <2>1. 0 \in A
    BY <1>10
  <2>2. \A k \in Nat : k \in A => k + 1 \in A
    <3> SUFFICES ASSUME NEW k \in Nat, k \in A, k + 1 <= n PROVE u[k + 1] \in Nat
      OBVIOUS
    <3>1. k + 1 \in 1..n /\ (k + 1) - 1 = k /\ u[k] \in Nat
      OBVIOUS
    <3> QED BY <1>10, <3>1
  <2>3. Nat \subseteq A
    <3> HIDE DEF A
    <3> QED BY <2>1, <2>2, NatSetInduction
  <2> QED BY <2>3
<1>12. u \in [0..n -> Nat]
  BY <1>10, <1>11
<1>13. \A k \in 1..n : k - 1 \in 0..n
  OBVIOUS
<1> QED BY <1>6, <1>8, <1>10, <1>12, <1>13 DEF IsNum

LEMMA NumType ==
  ASSUME NEW n \in Nat, NEW x \in Words(n)
  PROVE  Num(x) \in Nat
BY NumIs DEF IsNum

IsHalving(h, a, w) ==
  /\ h \in [0..w -> Int] /\ h[0] = a
  /\ \A k \in 1..w : k - 1 \in 0..w /\ h[k] = h[k - 1] \div 2
  /\ Word(a, w) = [i \in 1..w |-> h[i - 1] % 2 = 1]

LEMMA WordIs ==
  ASSUME NEW a \in Int, NEW w \in Nat
  PROVE  \E h : IsHalving(h, a, w)
<1> DEFINE Step == [p \in Int \X (1..w) |-> p[1] \div 2]
           Rule(u) == u = [k \in 0..w |-> IF k = 0 THEN a ELSE u[k - 1] \div 2]
<1>1. Step \in [Int \X (1..w) -> Int]
  OBVIOUS
<1>2. PICK f : IsRun(f, Int, w, a, Step)
  <2> HIDE DEF Step
  <2> QED BY <1>1, RecursionExists
<1>3. f \in [0..w -> Int] /\ f[0] = a /\ \A k \in 1..w : k - 1 \in 0..w /\ f[k] = f[k - 1] \div 2
  <2>1. f \in [0..w -> Int] /\ f[0] = a
    BY <1>2 DEF IsRun
  <2> SUFFICES ASSUME NEW k \in 1..w PROVE k - 1 \in 0..w /\ f[k] = f[k - 1] \div 2
    BY <2>1
  <2>2. k - 1 \in 0..w
    OBVIOUS
  <2>3. <<f[k - 1], k>> \in Int \X (1..w)
    BY <2>1, <2>2
  <2>4. Step[<<f[k - 1], k>>] = f[k - 1] \div 2
    BY <2>3
  <2> HIDE DEF Step
  <2> QED BY <1>2, <2>2, <2>4 DEF IsRun
<1>4. Rule(f)
  <2>1. \A k \in 0..w : f[k] = IF k = 0 THEN a ELSE f[k - 1] \div 2
    BY <1>3
  <2>2. f = [k \in 0..w |-> f[k]]
    BY <1>3
  <2> QED BY <2>1, <2>2
<1>5. Rule(CHOOSE u : Rule(u))
  <2> HIDE DEF Rule
  <2> QED BY <1>4
<1>6. PICK u : u = (CHOOSE z : Rule(z))
  OBVIOUS
<1>7. Word(a, w) = [i \in 1..w |-> u[i - 1] % 2 = 1]
  BY <1>6 DEF Word
<1>8. u = [k \in 0..w |-> IF k = 0 THEN a ELSE u[k - 1] \div 2]
  BY <1>5, <1>6
<1>9. DOMAIN u = 0..w /\ u[0] = a /\ (\A k \in 1..w : u[k] = u[k - 1] \div 2) /\ u = [k \in 0..w |-> u[k]]
  <2>1. PICK r : r = [k \in 0..w |-> IF k = 0 THEN a ELSE u[k - 1] \div 2]
    OBVIOUS
  <2>2. DOMAIN r = 0..w /\ r[0] = a /\ (\A k \in 1..w : r[k] = u[k - 1] \div 2) /\ r = [k \in 0..w |-> r[k]]
    BY <2>1
  <2> QED BY <1>8, <2>1, <2>2
<1>10. \A k \in 0..w : u[k] \in Int
  <2> DEFINE A == {k \in Nat : k <= w => u[k] \in Int}
  <2>1. 0 \in A
    BY <1>9
  <2>2. \A k \in Nat : k \in A => k + 1 \in A
    <3> SUFFICES ASSUME NEW k \in Nat, k \in A, k + 1 <= w PROVE u[k + 1] \in Int
      OBVIOUS
    <3>1. k + 1 \in 1..w /\ (k + 1) - 1 = k /\ u[k] \in Int
      OBVIOUS
    <3>2. u[k + 1] = u[k] \div 2
      BY <1>9, <3>1
    <3> QED BY <3>1, <3>2
  <2>3. Nat \subseteq A
    <3> HIDE DEF A
    <3> QED BY <2>1, <2>2, NatSetInduction
  <2> QED BY <2>3
<1>11. u \in [0..w -> Int]
  BY <1>9, <1>10
<1>12. \A k \in 1..w : k - 1 \in 0..w
  OBVIOUS
<1>13. \A k \in 1..w : u[k] = u[k - 1] \div 2
  BY <1>9
<1>14. u[0] = a
  BY <1>9
<1>15. \A k \in 1..w : k - 1 \in 0..w /\ u[k] = u[k - 1] \div 2
  BY <1>12, <1>13
<1>16. IsHalving(u, a, w)
  BY <1>7, <1>11, <1>14, <1>15, Zenon DEF IsHalving
<1> QED BY <1>16

LEMMA WordBits ==
  ASSUME NEW a \in Int, NEW w \in Nat
  PROVE  /\ Word(a, w) \in Words(w)
         /\ w >= 1 => (Word(a, w)[1] <=> a % 2 = 1)
<1>1. PICK h : IsHalving(h, a, w)
  BY WordIs
<1>2. Word(a, w) \in Words(w)
  BY <1>1 DEF IsHalving, Words
<1>3. ASSUME w >= 1 PROVE Word(a, w)[1] <=> a % 2 = 1
  <2>1. 1 \in 1..w /\ h[1 - 1] = a
    BY <1>1, <1>3 DEF IsHalving
  <2>2. Word(a, w) = [i \in 1..w |-> h[i - 1] % 2 = 1]
    BY <1>1 DEF IsHalving
  <2> QED BY <2>1, <2>2
<1> QED BY <1>2, <1>3

\* The bits of a word are those of its number.
LEMMA WordNum ==
  ASSUME NEW n \in Nat, NEW x \in Words(n), NEW w \in Nat, NEW b \in 1..w
  PROVE  Word(Num(x), w)[b] <=> Bit(x, b)
<1>1. PICK f : IsNum(f, x, n)
  BY NumIs
<1>2. Num(x) \in Int /\ Num(x) = f[n] /\ DOMAIN x = 1..n /\ \A i \in 1..n : x[i] \in BOOLEAN
  BY <1>1, NumType DEF IsNum, Words
<1>3. PICK h : IsHalving(h, Num(x), w)
  BY <1>2, WordIs
<1> DEFINE A == {k \in Nat : k <= w => h[k] = IF k <= n THEN f[n - k] ELSE 0}
<1>4. 0 \in A
  BY <1>2, <1>3 DEF IsHalving
<1>5. \A k \in Nat : k \in A => k + 1 \in A
  <2> SUFFICES ASSUME NEW k \in Nat, k \in A, k + 1 <= w
               PROVE  h[k + 1] = IF k + 1 <= n THEN f[n - (k + 1)] ELSE 0
    OBVIOUS
  <2>1. k + 1 \in 1..w /\ (k + 1) - 1 = k
    OBVIOUS
  <2>2. h[k + 1] = h[k] \div 2
    BY <1>3, <2>1 DEF IsHalving
  <2>3. CASE k + 1 <= n
    <3>1. n - k \in 1..n /\ (n - k) - 1 = n - (k + 1) /\ n - (k + 1) \in 0..n
      BY <2>3
    <3>2. h[k] = f[n - k]
      BY <2>3
    <3>3. PICK c : c \in {0, 1} /\ f[n - k] = 2 * f[n - (k + 1)] + c
      BY <1>1, <3>1 DEF IsNum
    <3>4. f[n - (k + 1)] \in Nat
      BY <1>1, <3>1 DEF IsNum
    <3>5. PICK d : d = f[n - (k + 1)]
      OBVIOUS
    <3>6. (2 * d + c) \div 2 = d
      BY <3>3, <3>4, <3>5
    <3> QED BY <2>2, <2>3, <3>2, <3>3, <3>5, <3>6
  <2>4. CASE ~(k + 1 <= n)
    <3>1. h[k] = 0
      BY <1>1, <2>4 DEF IsNum
    <3> QED BY <2>2, <2>4, <3>1
  <2> QED BY <2>3, <2>4
<1>6. Nat \subseteq A
  <2> HIDE DEF A
  <2> QED BY <1>4, <1>5, NatSetInduction
<1>7. Word(Num(x), w)[b] <=> h[b - 1] % 2 = 1
  BY <1>3 DEF IsHalving
<1>8. h[b - 1] = IF b - 1 <= n THEN f[n - (b - 1)] ELSE 0
  BY <1>6
<1>9. CASE b <= n
  <2>1. n - (b - 1) \in 1..n /\ (n - (b - 1)) - 1 \in 0..n /\ n + 1 - (n - (b - 1)) = b /\ b \in 1..n
    BY <1>9
  <2>2. f[n - (b - 1)] = 2 * f[(n - (b - 1)) - 1] + IF x[b] THEN 1 ELSE 0
    BY <1>1, <2>1 DEF IsNum
  <2>3. PICK d \in Nat : d = f[(n - (b - 1)) - 1]
    BY <1>1, <2>1 DEF IsNum
  <2>4. h[b - 1] = 2 * d + IF x[b] THEN 1 ELSE 0
    BY <1>8, <1>9, <2>2, <2>3
  <2>5. h[b - 1] % 2 = 1 <=> x[b]
    BY <2>3, <2>4
  <2> QED BY <1>2, <1>7, <2>1, <2>5 DEF Bit
<1>10. CASE ~(b <= n)
  <2>1. h[b - 1] = 0
    BY <1>1, <1>8, <1>10 DEF IsNum
  <2> QED BY <1>2, <1>7, <1>10, <2>1 DEF Bit
<1> QED BY <1>9, <1>10

\* Words with the same number have the same bits.
LEMMA NumDecides ==
  ASSUME NEW n \in Nat, NEW m \in Nat, NEW x \in Words(n), NEW y \in Words(m), Num(x) = Num(y),
         NEW b \in Nat \ {0}
  PROVE  Bit(x, b) <=> Bit(y, b)
<1>1. b \in 1..b
  OBVIOUS
<1>2. Word(Num(x), b)[b] <=> Bit(x, b)
  BY <1>1, WordNum
<1>3. Word(Num(y), b)[b] <=> Bit(y, b)
  BY <1>1, WordNum
<1> QED BY <1>2, <1>3

LEMMA NumOne ==
  ASSUME NEW n \in Nat, NEW x \in Words(n), Num(x) = 1
  PROVE  AnyBit(x)
<1>1. Word(1, 1)[1]
  BY WordBits
<1>2. Word(Num(x), 1)[1] <=> Bit(x, 1)
  BY WordNum
<1> QED BY <1>1, <1>2 DEF Bit, AnyBit

\* Arithmetic on words: the low bits of a sum, a difference and a product
\* depend on the low bits of the operands alone.
SameLow(a, b, w) == Word(a, w) = Word(b, w)

LEMMA WordHalf ==
  ASSUME NEW a \in Int, NEW w \in Nat, NEW i \in 1..w
  PROVE  Word(a, w + 1)[i + 1] <=> Word(a \div 2, w)[i]
<1>1. a \div 2 \in Int /\ w + 1 \in Nat
  OBVIOUS
<1>2. PICK h : IsHalving(h, a, w + 1)
  BY <1>1, WordIs
<1>3. PICK g : IsHalving(g, a \div 2, w)
  BY <1>1, WordIs
<1> DEFINE A == {k \in Nat : k <= w => g[k] = h[k + 1]}
<1>4. 0 \in A
  <2>1. 1 \in 1..w + 1 /\ 1 - 1 = 0
    OBVIOUS
  <2>2. h[1] = h[0] \div 2 /\ h[0] = a /\ g[0] = a \div 2
    BY <1>2, <1>3, <2>1 DEF IsHalving
  <2> QED BY <2>2
<1>5. \A k \in Nat : k \in A => k + 1 \in A
  <2> SUFFICES ASSUME NEW k \in Nat, k \in A, k + 1 <= w PROVE g[k + 1] = h[(k + 1) + 1]
    OBVIOUS
  <2>1. k + 1 \in 1..w /\ (k + 1) + 1 \in 1..w + 1 /\ (k + 1) - 1 = k /\ ((k + 1) + 1) - 1 = k + 1
    OBVIOUS
  <2>2. g[k + 1] = g[k] \div 2
    BY <1>3, <2>1 DEF IsHalving
  <2>3. h[(k + 1) + 1] = h[k + 1] \div 2
    BY <1>2, <2>1 DEF IsHalving
  <2> QED BY <2>2, <2>3
<1>6. Nat \subseteq A
  <2> HIDE DEF A
  <2> QED BY <1>4, <1>5, NatSetInduction
<1>7. g[i - 1] = h[(i + 1) - 1]
  <2>1. i - 1 \in Nat /\ i - 1 <= w /\ (i - 1) + 1 = (i + 1) - 1
    OBVIOUS
  <2>2. g[i - 1] = h[(i - 1) + 1]
    BY <1>6, <2>1
  <2> QED BY <2>1, <2>2
<1>8. Word(a, w + 1)[i + 1] <=> h[(i + 1) - 1] % 2 = 1
  <2>1. i + 1 \in 1..w + 1
    OBVIOUS
  <2> QED BY <1>2, <2>1 DEF IsHalving
<1>9. Word(a \div 2, w)[i] <=> g[i - 1] % 2 = 1
  BY <1>3 DEF IsHalving
<1> QED BY <1>7, <1>8, <1>9

LEMMA WordsEqual ==
  ASSUME NEW w \in Nat, NEW x \in Words(w), NEW y \in Words(w), \A i \in 1..w : x[i] <=> y[i]
  PROVE  x = y
<1>1. \A i \in 1..w : x[i] = y[i]
  BY DEF Words
<1>2. x \in [1..w -> BOOLEAN] /\ y \in [1..w -> BOOLEAN]
  BY DEF Words
<1> QED BY <1>1, <1>2

LEMMA SameLowStep ==
  ASSUME NEW a \in Int, NEW b \in Int, NEW w \in Nat
  PROVE  SameLow(a, b, w + 1) <=> a % 2 = b % 2 /\ SameLow(a \div 2, b \div 2, w)
<1>1. a \div 2 \in Int /\ b \div 2 \in Int /\ w + 1 \in Nat /\ w + 1 >= 1
  OBVIOUS
<1>2. /\ Word(a, w + 1) \in Words(w + 1) /\ Word(b, w + 1) \in Words(w + 1)
      /\ Word(a \div 2, w) \in Words(w) /\ Word(b \div 2, w) \in Words(w)
  BY <1>1, WordBits
<1>3. (Word(a, w + 1)[1] <=> a % 2 = 1) /\ (Word(b, w + 1)[1] <=> b % 2 = 1)
  BY <1>1, WordBits
<1>4. a % 2 \in {0, 1} /\ b % 2 \in {0, 1}
  OBVIOUS
<1>5. \A i \in 1..w : /\ Word(a, w + 1)[i + 1] <=> Word(a \div 2, w)[i]
                      /\ Word(b, w + 1)[i + 1] <=> Word(b \div 2, w)[i]
  BY WordHalf
<1>6. ASSUME SameLow(a, b, w + 1) PROVE a % 2 = b % 2 /\ SameLow(a \div 2, b \div 2, w)
  <2>1. a % 2 = b % 2
    BY <1>3, <1>4, <1>6 DEF SameLow
  <2>2. \A i \in 1..w : Word(a \div 2, w)[i] <=> Word(b \div 2, w)[i]
    BY <1>5, <1>6 DEF SameLow
  <2>3. SameLow(a \div 2, b \div 2, w)
    BY <1>2, <2>2, WordsEqual DEF SameLow
  <2> QED BY <2>1, <2>3
<1>7. ASSUME a % 2 = b % 2, SameLow(a \div 2, b \div 2, w) PROVE SameLow(a, b, w + 1)
  <2>1. ASSUME NEW j \in 1..w + 1 PROVE Word(a, w + 1)[j] <=> Word(b, w + 1)[j]
    <3>1. CASE j = 1
      BY <1>3, <1>7, <3>1
    <3>2. CASE j # 1
      <4>1. j - 1 \in 1..w /\ (j - 1) + 1 = j
        BY <3>2
      <4>2. /\ Word(a, w + 1)[(j - 1) + 1] <=> Word(a \div 2, w)[j - 1]
            /\ Word(b, w + 1)[(j - 1) + 1] <=> Word(b \div 2, w)[j - 1]
        BY <1>5, <4>1
      <4> QED BY <1>7, <4>1, <4>2 DEF SameLow
    <3> QED BY <3>1, <3>2
  <2> QED BY <1>1, <1>2, <2>1, WordsEqual DEF SameLow
<1> QED BY <1>6, <1>7

LEMMA SameLowZero ==
  ASSUME NEW a \in Int, NEW b \in Int
  PROVE  SameLow(a, b, 0)
<1>1. Word(a, 0) \in Words(0) /\ Word(b, 0) \in Words(0)
  BY WordBits
<1> QED BY <1>1, WordsEqual DEF SameLow

LEMMA SameLowSum ==
  ASSUME NEW w \in Nat, NEW a \in Int, NEW b \in Int, NEW y \in Int, SameLow(a, b, w)
  PROVE  SameLow(a + y, b + y, w)
<1> DEFINE Sums(n) == \A c, d, z \in Int : SameLow(c, d, n) => SameLow(c + z, d + z, n)
           A == {n \in Nat : Sums(n)}
<1>1. 0 \in A
  BY SameLowZero
<1>2. \A n \in Nat : n \in A => n + 1 \in A
  <2> SUFFICES ASSUME NEW n \in Nat, Sums(n) PROVE Sums(n + 1)
    <3> HIDE DEF Sums
    <3> QED OBVIOUS
  <2> SUFFICES ASSUME NEW c \in Int, NEW d \in Int, NEW z \in Int, SameLow(c, d, n + 1)
               PROVE  SameLow(c + z, d + z, n + 1)
    OBVIOUS
  <2>1. c % 2 = d % 2 /\ SameLow(c \div 2, d \div 2, n)
    BY SameLowStep
  <2>2. c + z \in Int /\ d + z \in Int /\ c \div 2 \in Int /\ d \div 2 \in Int
    OBVIOUS
  <2> DEFINE y1 == (z + (c % 2)) \div 2
  <2>3. y1 \in Int /\ (c + z) \div 2 = (c \div 2) + y1 /\ (d + z) \div 2 = (d \div 2) + y1
    BY <2>1
  <2>4. (c + z) % 2 = (d + z) % 2
    BY <2>1
  <2>5. SameLow((c \div 2) + y1, (d \div 2) + y1, n)
    <3> HIDE DEF y1
    <3> QED BY <2>1, <2>2, <2>3
  <2>6. SameLow((c + z) \div 2, (d + z) \div 2, n)
    <3> HIDE DEF y1
    <3> QED BY <2>3, <2>5
  <2> QED BY <2>2, <2>4, <2>6, SameLowStep
<1>3. Nat \subseteq A
  <2> HIDE DEF A
  <2> QED BY <1>1, <1>2, NatSetInduction
<1> QED BY <1>3

LEMMA SameLowProduct ==
  ASSUME NEW w \in Nat, NEW a \in Int, NEW b \in Int, NEW y \in Int, SameLow(a, b, w)
  PROVE  SameLow(a * y, b * y, w)
<1> DEFINE A == {n \in Nat : \A c, d \in Int : SameLow(c, d, n) => SameLow(c * y, d * y, n)}
<1>1. 0 \in A
  <2>1. \A c, d \in Int : c * y \in Int /\ d * y \in Int
    OBVIOUS
  <2> QED BY <2>1, SameLowZero
<1>2. \A n \in Nat : n \in A => n + 1 \in A
  <2> SUFFICES ASSUME NEW n \in Nat, n \in A, NEW c \in Int, NEW d \in Int, SameLow(c, d, n + 1)
               PROVE  SameLow(c * y, d * y, n + 1)
    OBVIOUS
  <2>1. c % 2 = d % 2 /\ SameLow(c \div 2, d \div 2, n)
    BY SameLowStep
  <2>2. PICK q \in Int, p \in Int, r \in {0, 1} : q = c \div 2 /\ p = d \div 2 /\ r = c % 2
    OBVIOUS
  <2>3. c = 2 * q + r /\ d = 2 * p + r
    BY <2>1, <2>2
  <2>4. PICK m1 \in Int, m2 \in Int, s \in {0, y} : m1 = q * y /\ m2 = p * y /\ s = r * y
    <3>1. q * y \in Int /\ p * y \in Int /\ r * y \in {0, y}
      BY <2>2
    <3> QED BY <3>1
  <2>5. c * y = 2 * m1 + s /\ d * y = 2 * m2 + s
    <3>1. (2 * q + r) * y = 2 * (q * y) + r * y /\ (2 * p + r) * y = 2 * (p * y) + r * y
      <4>1. CASE r = 0
        BY <4>1
      <4>2. CASE r = 1
        BY <4>2
      <4> QED BY <4>1, <4>2
    <3> QED BY <2>3, <2>4, <3>1
  <2>6. s \in Int
    OBVIOUS
  <2> DEFINE y1 == s \div 2
  <2>7. y1 \in Int /\ (2 * m1 + s) \div 2 = m1 + y1 /\ (2 * m2 + s) \div 2 = m2 + y1 /\ (2 * m1 + s) % 2 = (2 * m2 + s) % 2
    BY <2>6
  <2>8. SameLow(m1, m2, n)
    BY <2>1, <2>2, <2>4
  <2>9. SameLow(m1 + y1, m2 + y1, n)
    <3> HIDE DEF y1
    <3> QED BY <2>7, <2>8, SameLowSum
  <2>10. c * y \in Int /\ d * y \in Int /\ (c * y) % 2 = (d * y) % 2 /\ (c * y) \div 2 = m1 + y1 /\ (d * y) \div 2 = m2 + y1
    <3> HIDE DEF y1
    <3> QED BY <2>5, <2>6, <2>7
  <2> HIDE DEF y1
  <2>11. SameLow((c * y) \div 2, (d * y) \div 2, n)
    BY <2>9, <2>10
  <2> QED BY <2>10, <2>11, SameLowStep
<1>3. Nat \subseteq A
  <2> HIDE DEF A
  <2> QED BY <1>1, <1>2, NatSetInduction
<1> QED BY <1>3

\* Two words that agree below w have numbers that do.
LEMMA NumLow ==
  ASSUME NEW w \in Nat, NEW n \in Nat, NEW m \in Nat, NEW x \in Words(n), NEW y \in Words(m),
         \A b \in 1..w : Bit(x, b) <=> Bit(y, b)
  PROVE  SameLow(Num(x), Num(y), w)
<1>1. Num(x) \in Int /\ Num(y) \in Int
  BY NumType
<1>2. \A b \in 1..w : Word(Num(x), w)[b] <=> Word(Num(y), w)[b]
  BY WordNum
<1> QED BY <1>1, <1>2, WordBits, WordsEqual DEF SameLow

\* Words as sequences, and what a concatenation is made of.
LEMMA FunSeq ==
  ASSUME NEW S, NEW n \in Nat, NEW f \in [1..n -> S]
  PROVE  f \in Seq(S) /\ Len(f) = n /\ DOMAIN f = 1..n
<1>1. f \in Seq(S)
  BY SeqDef
<1> QED BY <1>1

LEMMA WordSeq ==
  ASSUME NEW n \in Nat, NEW x \in Words(n)
  PROVE  x \in Seq(BOOLEAN) /\ Len(x) = n /\ DOMAIN x = 1..n
BY FunSeq DEF Words

LEMMA SeqWord ==
  ASSUME NEW x \in Seq(BOOLEAN)
  PROVE  Len(x) \in Nat /\ x \in Words(Len(x)) /\ DOMAIN x = 1..Len(x)
BY DEF Words

LEMMA CatBits ==
  ASSUME NEW x \in Seq(BOOLEAN), NEW y \in Seq(BOOLEAN)
  PROVE  /\ x \o y \in Seq(BOOLEAN) /\ Len(x \o y) = Len(x) + Len(y)
         /\ \A b \in 1..Len(x) + Len(y) : (x \o y)[b] = IF b <= Len(x) THEN x[b] ELSE y[b - Len(x)]
OBVIOUS

IsConcat(c, xs, n) ==
  /\ c \in [0..n -> Seq(BOOLEAN)] /\ c[0] = <<>>
  /\ \A k \in 1..n : k - 1 \in 0..n /\ c[k] = xs[k] \o c[k - 1]
  /\ Concat(xs) = c[n]

LEMMA ConcatIs ==
  ASSUME NEW n \in Nat, NEW xs \in [1..n -> Seq(BOOLEAN)]
  PROVE  \E c : IsConcat(c, xs, n)
<1>1. Len(xs) = n
  BY FunSeq
<1> DEFINE Step == [p \in Seq(BOOLEAN) \X (1..n) |-> xs[p[2]] \o p[1]]
           put(u, k) == xs[k] \o u[k - 1]
           Rule(u) == u = [k \in 0..Len(xs) |-> IF k = 0 THEN <<>> ELSE xs[k] \o u[k - 1]]
<1>2. Step \in [Seq(BOOLEAN) \X (1..n) -> Seq(BOOLEAN)]
  <2>1. \A s \in Seq(BOOLEAN) : \A k \in 1..n : xs[k] \o s \in Seq(BOOLEAN)
    BY CatBits
  <2> QED BY <2>1
<1>3. PICK f : IsRun(f, Seq(BOOLEAN), n, <<>>, Step)
  <2>1. <<>> \in Seq(BOOLEAN)
    OBVIOUS
  <2> HIDE DEF Step
  <2> QED BY <1>2, <2>1, RecursionExists
<1>4. f \in [0..n -> Seq(BOOLEAN)] /\ f[0] = <<>> /\ \A k \in 1..n : k - 1 \in 0..n /\ f[k] = xs[k] \o f[k - 1]
  <2>1. f \in [0..n -> Seq(BOOLEAN)] /\ f[0] = <<>>
    BY <1>3 DEF IsRun
  <2> SUFFICES ASSUME NEW k \in 1..n PROVE k - 1 \in 0..n /\ f[k] = xs[k] \o f[k - 1]
    BY <2>1
  <2>2. k - 1 \in 0..n
    OBVIOUS
  <2>3. <<f[k - 1], k>> \in Seq(BOOLEAN) \X (1..n)
    BY <2>1, <2>2
  <2>4. Step[<<f[k - 1], k>>] = xs[k] \o f[k - 1]
    BY <2>3
  <2> HIDE DEF Step
  <2> QED BY <1>3, <2>2, <2>4 DEF IsRun
<1>5. Rule(f)
  <2>1. \A k \in 1..n : f[k] = put(f, k)
    BY <1>4
  <2>2. f = [k \in 0..n |-> f[k]] /\ f[0] = <<>>
    BY <1>4
  <2>3. f = [k \in 0..n |-> IF k = 0 THEN <<>> ELSE put(f, k)]
    <3> HIDE DEF put
    <3> QED BY <2>1, <2>2
  <2> QED BY <1>1, <2>3
<1>6. Rule(CHOOSE u : Rule(u))
  <2> HIDE DEF Rule
  <2> QED BY <1>5
<1>7. PICK u : u = (CHOOSE z : Rule(z))
  OBVIOUS
<1>8. Concat(xs) = u[n]
  BY <1>1, <1>7 DEF Concat
<1>9. u = [k \in 0..n |-> IF k = 0 THEN <<>> ELSE put(u, k)]
  BY <1>1, <1>6, <1>7
<1>10. DOMAIN u = 0..n /\ u[0] = <<>> /\ (\A k \in 1..n : u[k] = put(u, k)) /\ u = [k \in 0..n |-> u[k]]
  <2>1. PICK r : r = [k \in 0..n |-> IF k = 0 THEN <<>> ELSE put(u, k)]
    OBVIOUS
  <2> HIDE DEF put
  <2>2. DOMAIN r = 0..n /\ r[0] = <<>> /\ (\A k \in 1..n : r[k] = put(u, k)) /\ r = [k \in 0..n |-> r[k]]
    BY <2>1
  <2> QED BY <1>9, <2>1, <2>2
<1>11. \A k \in 0..n : u[k] \in Seq(BOOLEAN)
  <2> DEFINE A == {k \in Nat : k <= n => u[k] \in Seq(BOOLEAN)}
  <2>1. 0 \in A
    BY <1>10
  <2>2. \A k \in Nat : k \in A => k + 1 \in A
    <3> SUFFICES ASSUME NEW k \in Nat, k \in A, k + 1 <= n PROVE u[k + 1] \in Seq(BOOLEAN)
      OBVIOUS
    <3>1. k + 1 \in 1..n /\ (k + 1) - 1 = k /\ u[k] \in Seq(BOOLEAN)
      OBVIOUS
    <3>2. u[k + 1] = xs[k + 1] \o u[k] /\ xs[k + 1] \in Seq(BOOLEAN)
      BY <1>10, <3>1
    <3> QED BY <3>1, <3>2, CatBits
  <2>3. Nat \subseteq A
    <3> HIDE DEF A
    <3> QED BY <2>1, <2>2, NatSetInduction
  <2> QED BY <2>3
<1>12. u \in [0..n -> Seq(BOOLEAN)]
  BY <1>10, <1>11
<1>13. \A k \in 1..n : k - 1 \in 0..n /\ u[k] = xs[k] \o u[k - 1]
  <2>1. \A k \in 1..n : k - 1 \in 0..n
    OBVIOUS
  <2>2. \A k \in 1..n : u[k] = xs[k] \o u[k - 1]
    BY <1>10, Zenon
  <2> QED BY <2>1, <2>2, Zenon
<1>14. u[0] = <<>>
  BY <1>10
<1>15. IsConcat(u, xs, n)
  BY <1>8, <1>12, <1>13, <1>14, Zenon DEF IsConcat
<1> QED BY <1>15

LEMMA ConcatType ==
  ASSUME NEW n \in Nat, NEW xs \in [1..n -> Seq(BOOLEAN)]
  PROVE  Concat(xs) \in Seq(BOOLEAN)
<1>1. PICK c : IsConcat(c, xs, n)
  BY ConcatIs
<1> QED BY <1>1 DEF IsConcat

\* No bit of a part is lost.
LEMMA ConcatAny ==
  ASSUME NEW n \in Nat, NEW xs \in [1..n -> Seq(BOOLEAN)], NEW k \in 1..n, AnyBit(xs[k])
  PROVE  AnyBit(Concat(xs))
<1>1. PICK c : IsConcat(c, xs, n)
  BY ConcatIs
<1>2. \A j \in 1..n : AnyBit(c[j - 1]) \/ AnyBit(xs[j]) => AnyBit(c[j])
  <2> SUFFICES ASSUME NEW j \in 1..n, AnyBit(c[j - 1]) \/ AnyBit(xs[j]) PROVE AnyBit(c[j])
    OBVIOUS
  <2>1. xs[j] \in Seq(BOOLEAN) /\ c[j - 1] \in Seq(BOOLEAN) /\ c[j] = xs[j] \o c[j - 1]
    BY <1>1 DEF IsConcat
  <2>2. DOMAIN c[j] = 1..Len(xs[j]) + Len(c[j - 1])
    BY <2>1
  <2>3. CASE AnyBit(xs[j])
    <3>1. PICK b \in 1..Len(xs[j]) : xs[j][b]
      BY <2>1, <2>3 DEF AnyBit
    <3>2. b \in 1..Len(xs[j]) + Len(c[j - 1]) /\ b <= Len(xs[j])
      BY <2>1
    <3>3. c[j][b]
      BY <2>1, <3>1, <3>2, CatBits
    <3> QED BY <2>2, <3>2, <3>3 DEF AnyBit
  <2>4. CASE AnyBit(c[j - 1])
    <3>1. PICK b \in 1..Len(c[j - 1]) : c[j - 1][b]
      BY <2>1, <2>4 DEF AnyBit
    <3>2. /\ b + Len(xs[j]) \in 1..Len(xs[j]) + Len(c[j - 1]) /\ ~(b + Len(xs[j]) <= Len(xs[j]))
          /\ (b + Len(xs[j])) - Len(xs[j]) = b
      BY <2>1
    <3>3. c[j][b + Len(xs[j])] = c[j - 1][b]
      BY <2>1, <3>2, CatBits
    <3> QED BY <2>2, <3>1, <3>2, <3>3 DEF AnyBit
  <2> QED BY <2>3, <2>4
<1> DEFINE A == {m \in Nat : k + m <= n => AnyBit(c[k + m])}
<1>3. 0 \in A
  BY <1>2
<1>4. \A m \in Nat : m \in A => m + 1 \in A
  <2> SUFFICES ASSUME NEW m \in Nat, m \in A, k + (m + 1) <= n PROVE AnyBit(c[k + (m + 1)])
    OBVIOUS
  <2>1. k + (m + 1) \in 1..n /\ (k + (m + 1)) - 1 = k + m /\ AnyBit(c[k + m])
    OBVIOUS
  <2> QED BY <1>2, <2>1
<1>5. Nat \subseteq A
  <2> HIDE DEF A
  <2> QED BY <1>3, <1>4, NatSetInduction
<1>6. AnyBit(c[n])
  <2>1. n - k \in Nat /\ k + (n - k) = n /\ k + (n - k) <= n
    OBVIOUS
  <2>2. n - k \in A
    <3> HIDE DEF A
    <3> QED BY <1>5, <2>1
  <2>3. AnyBit(c[k + (n - k)])
    BY <2>1, <2>2
  <2> QED BY <2>1, <2>3
<1> QED BY <1>1, <1>6 DEF IsConcat

\* c covers a: at least the bits of a are set in c.
Covers(a, c) ==
  /\ a \in Seq(BOOLEAN) /\ c \in Seq(BOOLEAN) /\ Len(a) = Len(c)
  /\ \A b \in 1..Len(a) : a[b] => c[b]

LEMMA ConcatCovers ==
  ASSUME NEW n \in Nat, NEW xs \in [1..n -> Seq(BOOLEAN)], NEW ys \in [1..n -> Seq(BOOLEAN)],
         \A k \in 1..n : Covers(xs[k], ys[k])
  PROVE  Covers(Concat(xs), Concat(ys))
<1>1. PICK c : IsConcat(c, xs, n)
  BY ConcatIs
<1>2. PICK d : IsConcat(d, ys, n)
  BY ConcatIs
<1> DEFINE A == {k \in Nat : k <= n => Covers(c[k], d[k])}
<1>3. 0 \in A
  BY <1>1, <1>2 DEF IsConcat, Covers
<1>4. \A k \in Nat : k \in A => k + 1 \in A
  <2> SUFFICES ASSUME NEW k \in Nat, k \in A, k + 1 <= n PROVE Covers(c[k + 1], d[k + 1])
    OBVIOUS
  <2>1. k + 1 \in 1..n /\ (k + 1) - 1 = k /\ Covers(c[k], d[k])
    OBVIOUS
  <2>2. c[k + 1] = xs[k + 1] \o c[k] /\ d[k + 1] = ys[k + 1] \o d[k] /\ Covers(xs[k + 1], ys[k + 1])
    BY <1>1, <1>2, <2>1 DEF IsConcat
  <2>3. PICK x1, x2, y1, y2 : x1 = xs[k + 1] /\ x2 = c[k] /\ y1 = ys[k + 1] /\ y2 = d[k]
    OBVIOUS
  <2>4. Covers(x1, y1) /\ Covers(x2, y2)
    BY <2>1, <2>2, <2>3
  <2>5. Covers(x1 \o x2, y1 \o y2)
    <3>1. /\ x1 \o x2 \in Seq(BOOLEAN) /\ Len(x1 \o x2) = Len(x1) + Len(x2)
          /\ y1 \o y2 \in Seq(BOOLEAN) /\ Len(y1 \o y2) = Len(x1) + Len(x2)
      <4>1. /\ x1 \in Seq(BOOLEAN) /\ x2 \in Seq(BOOLEAN) /\ y1 \in Seq(BOOLEAN) /\ y2 \in Seq(BOOLEAN)
            /\ Len(y1) = Len(x1) /\ Len(y2) = Len(x2)
        BY <2>4 DEF Covers
      <4>2. x1 \o x2 \in Seq(BOOLEAN) /\ Len(x1 \o x2) = Len(x1) + Len(x2)
        BY <4>1, CatBits
      <4>3. y1 \o y2 \in Seq(BOOLEAN) /\ Len(y1 \o y2) = Len(y1) + Len(y2)
        BY <4>1, CatBits
      <4> QED BY <4>1, <4>2, <4>3
    <3>2. ASSUME NEW b \in 1..Len(x1) + Len(x2), (x1 \o x2)[b] PROVE (y1 \o y2)[b]
      <4>1. (x1 \o x2)[b] = IF b <= Len(x1) THEN x1[b] ELSE x2[b - Len(x1)]
        BY <2>4, CatBits DEF Covers
      <4>2. (y1 \o y2)[b] = IF b <= Len(x1) THEN y1[b] ELSE y2[b - Len(x1)]
        BY <2>4, CatBits DEF Covers
      <4>3. Len(x1) \in Nat /\ Len(x2) \in Nat
        BY <2>4 DEF Covers
      <4>4. CASE b <= Len(x1)
        <5>1. b \in 1..Len(x1) /\ x1[b]
          BY <3>2, <4>1, <4>3, <4>4
        <5> QED BY <2>4, <4>2, <4>4, <5>1 DEF Covers
      <4>5. CASE ~(b <= Len(x1))
        <5>1. b - Len(x1) \in 1..Len(x2) /\ x2[b - Len(x1)]
          BY <3>2, <4>1, <4>3, <4>5
        <5> QED BY <2>4, <4>2, <4>5, <5>1 DEF Covers
      <4> QED BY <4>4, <4>5
    <3> QED BY <3>1, <3>2 DEF Covers
  <2> QED BY <2>2, <2>3, <2>5
<1>5. Nat \subseteq A
  <2> HIDE DEF A
  <2> QED BY <1>3, <1>4, NatSetInduction
<1>6. Covers(c[n], d[n])
  BY <1>5
<1> QED BY <1>1, <1>2, <1>6 DEF IsConcat

\* Where the part changes that one operand of a concatenation makes up.
LEMMA ConcatElsewhere ==
  ASSUME NEW n \in Nat, NEW xs \in [1..n -> Seq(BOOLEAN)], NEW ys \in [1..n -> Seq(BOOLEAN)], NEW k \in 1..n,
         Len(xs[k]) = Len(ys[k]), \A j \in 1..n : j # k => xs[j] = ys[j],
         NEW tail \in [1..(n - k) -> Seq(BOOLEAN)], \A j \in 1..(n - k) : tail[j] = xs[k + j]
  PROVE  /\ Len(Concat(xs)) = Len(Concat(ys)) /\ Len(Concat(tail)) \in Nat
         /\ \A b \in 1..Len(Concat(xs)) :
              ~(b - Len(Concat(tail)) \in 1..Len(xs[k])) => (Concat(xs)[b] <=> Concat(ys)[b])
<1>1. PICK c : IsConcat(c, xs, n)
  BY ConcatIs
<1>2. PICK d : IsConcat(d, ys, n)
  BY ConcatIs
<1>3. PICK e : IsConcat(e, tail, n - k)
  <2>1. n - k \in Nat
    OBVIOUS
  <2> QED BY <2>1, ConcatIs
<1> DEFINE Same(x, y, lo) == /\ x \in Seq(BOOLEAN) /\ y \in Seq(BOOLEAN) /\ Len(x) = Len(y)
                             /\ \A b \in 1..Len(x) : ~(b - lo \in 1..Len(xs[k])) => (x[b] <=> y[b])
           A == {m \in Nat : m <= n - k => Same(c[k + m], d[k + m], Len(e[m]))}
           B == {m \in Nat : m <= n /\ m < k => c[m] = d[m]}
<1>4. xs[k] \in Seq(BOOLEAN) /\ ys[k] \in Seq(BOOLEAN) /\ Len(xs[k]) \in Nat
  OBVIOUS
<1>5. c[k - 1] = d[k - 1] /\ c[k - 1] \in Seq(BOOLEAN)
  <2>1. 0 \in B
    BY <1>1, <1>2 DEF IsConcat
  <2>2. \A m \in Nat : m \in B => m + 1 \in B
    <3> SUFFICES ASSUME NEW m \in Nat, m \in B, m + 1 <= n, m + 1 < k PROVE c[m + 1] = d[m + 1]
      OBVIOUS
    <3>1. m + 1 \in 1..n /\ (m + 1) - 1 = m /\ c[m] = d[m] /\ xs[m + 1] = ys[m + 1]
      OBVIOUS
    <3>2. c[m + 1] = xs[m + 1] \o c[m] /\ d[m + 1] = ys[m + 1] \o d[m]
      BY <1>1, <1>2, <3>1 DEF IsConcat
    <3> QED BY <3>1, <3>2
  <2>3. Nat \subseteq B
    <3> HIDE DEF B
    <3> QED BY <2>1, <2>2, NatSetInduction
  <2>4. k - 1 \in Nat /\ k - 1 <= n /\ k - 1 < k /\ k - 1 \in 0..n
    OBVIOUS
  <2>5. c[k - 1] = d[k - 1]
    BY <2>3, <2>4
  <2> QED BY <1>1, <2>4, <2>5 DEF IsConcat
<1>6. 0 \in A
  <2>1. c[k] = xs[k] \o c[k - 1] /\ d[k] = ys[k] \o c[k - 1] /\ Len(e[0]) = 0 /\ k + 0 = k
    <3>1. c[k] = xs[k] \o c[k - 1]
      BY <1>1 DEF IsConcat
    <3>2. d[k] = ys[k] \o d[k - 1]
      BY <1>2 DEF IsConcat
    <3>3. e[0] = <<>>
      BY <1>3 DEF IsConcat
    <3>4. Len(<<>>) = 0 /\ k + 0 = k
      OBVIOUS
    <3> QED BY <1>5, <3>1, <3>2, <3>3, <3>4
  <2>2. PICK x, y, z : x = xs[k] /\ y = ys[k] /\ z = c[k - 1]
    OBVIOUS
  <2>3. x \in Seq(BOOLEAN) /\ y \in Seq(BOOLEAN) /\ z \in Seq(BOOLEAN) /\ Len(x) = Len(y) /\ Len(x) \in Nat /\ Len(z) \in Nat
    BY <1>4, <1>5, <2>2
  <2>4. x \o z \in Seq(BOOLEAN) /\ Len(x \o z) = Len(x) + Len(z)
    BY <2>3, CatBits
  <2>5. y \o z \in Seq(BOOLEAN) /\ Len(y \o z) = Len(x) + Len(z)
    BY <2>3, CatBits
  <2>6. ASSUME NEW b \in 1..Len(x) + Len(z), ~(b \in 1..Len(x)) PROVE (x \o z)[b] = (y \o z)[b]
    <3>1. (x \o z)[b] = IF b <= Len(x) THEN x[b] ELSE z[b - Len(x)]
      BY <2>3, CatBits
    <3>2. (y \o z)[b] = IF b <= Len(x) THEN y[b] ELSE z[b - Len(x)]
      BY <2>3, CatBits
    <3>3. ~(b <= Len(x))
      BY <2>3, <2>6
    <3> QED BY <3>1, <3>2, <3>3
  <2>7. Same(x \o z, y \o z, 0)
    <3>1. PICK p, q : p = x \o z /\ q = y \o z
      OBVIOUS
    <3>2. \A b \in 1..Len(x) + Len(z) : ~(b \in 1..Len(x)) => p[b] = q[b]
      BY <2>6, <3>1
    <3>3. p \in Seq(BOOLEAN) /\ q \in Seq(BOOLEAN) /\ Len(p) = Len(x) + Len(z) /\ Len(q) = Len(x) + Len(z)
      BY <2>4, <2>5, <3>1
    <3>4. \A b \in 1..Len(p) : b - 0 = b
      BY <2>3, <3>3
    <3>5. \A b \in 1..Len(p) : ~(b - 0 \in 1..Len(xs[k])) => (p[b] <=> q[b])
      BY <2>2, <3>2, <3>3, <3>4
    <3>6. Same(p, q, 0)
      BY <3>3, <3>5
    <3> HIDE DEF Same
    <3> QED BY <3>1, <3>6
  <2> HIDE DEF Same
  <2> QED BY <2>1, <2>2, <2>7
<1>7. \A m \in Nat : m \in A => m + 1 \in A
  <2> SUFFICES ASSUME NEW m \in Nat, m \in A, m + 1 <= n - k
               PROVE  Same(c[k + (m + 1)], d[k + (m + 1)], Len(e[m + 1]))
    <3> HIDE DEF Same
    <3> QED OBVIOUS
  <2>1. /\ k + (m + 1) \in 1..n /\ (k + (m + 1)) - 1 = k + m /\ m + 1 \in 1..n - k /\ (m + 1) - 1 = m
        /\ k + (m + 1) # k /\ m <= n - k
    OBVIOUS
  <2>2. Same(c[k + m], d[k + m], Len(e[m]))
    <3> HIDE DEF Same
    <3> QED BY <2>1
  <2>3. PICK x, u, y, z : x = xs[k + (m + 1)] /\ u = e[m] /\ y = c[k + m] /\ z = d[k + m]
    OBVIOUS
  <2>4. c[k + (m + 1)] = x \o y /\ d[k + (m + 1)] = x \o z /\ e[m + 1] = x \o u
    <3>1. c[k + (m + 1)] = x \o y
      BY <1>1, <2>1, <2>3 DEF IsConcat
    <3>2. d[k + (m + 1)] = x \o z
      BY <1>2, <2>1, <2>3 DEF IsConcat
    <3>3. e[m + 1] = x \o u
      BY <1>3, <2>1, <2>3 DEF IsConcat
    <3> QED BY <3>1, <3>2, <3>3
  <2>5. x \in Seq(BOOLEAN) /\ y \in Seq(BOOLEAN) /\ z \in Seq(BOOLEAN) /\ Len(y) = Len(z) /\ Len(x) \in Nat /\ Len(y) \in Nat
    <3>1. x \in Seq(BOOLEAN)
      BY <2>1, <2>3
    <3>2. y \in Seq(BOOLEAN) /\ z \in Seq(BOOLEAN) /\ Len(y) = Len(z)
      BY <2>2, <2>3
    <3> QED BY <3>1, <3>2
  <2>6. u \in Seq(BOOLEAN) /\ Len(u) \in Nat
    <3>1. m \in 0..n - k
      BY <2>1
    <3>2. u \in Seq(BOOLEAN)
      BY <1>3, <2>3, <3>1 DEF IsConcat
    <3> QED BY <3>2
  <2>7. Len(x \o u) = Len(x) + Len(u)
    BY <2>5, <2>6
  <2>8. x \o y \in Seq(BOOLEAN) /\ Len(x \o y) = Len(x) + Len(y)
    BY <2>5, CatBits
  <2>9. x \o z \in Seq(BOOLEAN) /\ Len(x \o z) = Len(x) + Len(y)
    BY <2>5, CatBits
  <2>10. ASSUME NEW b \in 1..Len(x) + Len(y), ~(b - (Len(x) + Len(u)) \in 1..Len(xs[k]))
         PROVE  (x \o y)[b] <=> (x \o z)[b]
    <3>1. (x \o y)[b] = IF b <= Len(x) THEN x[b] ELSE y[b - Len(x)]
      BY <2>5, CatBits
    <3>2. (x \o z)[b] = IF b <= Len(x) THEN x[b] ELSE z[b - Len(x)]
      BY <2>5, CatBits
    <3>3. CASE b <= Len(x)
      BY <3>1, <3>2, <3>3
    <3>4. CASE ~(b <= Len(x))
      <4>1. b - Len(x) \in 1..Len(y) /\ (b - Len(x)) - Len(u) = b - (Len(x) + Len(u))
        <5>1. PICK p \in Nat, q \in Nat, r \in Nat : p = Len(x) /\ q = Len(y) /\ r = Len(u)
          BY <2>5, <2>6
        <5>2. b \in 1..p + q /\ ~(b <= p)
          BY <3>4, <5>1
        <5>3. b - p \in 1..q /\ (b - p) - r = b - (p + r)
          BY <5>2
        <5> QED BY <5>1, <5>3
      <4>2. y[b - Len(x)] <=> z[b - Len(x)]
        BY <2>2, <2>3, <2>10, <4>1
      <4> QED BY <3>1, <3>2, <3>4, <4>2
    <3> QED BY <3>3, <3>4
  <2>11. Same(x \o y, x \o z, Len(x \o u))
    <3>1. PICK len : len = Len(x) + Len(u)
      OBVIOUS
    <3>2. Same(x \o y, x \o z, len)
      BY <2>8, <2>9, <2>10, <3>1
    <3> HIDE DEF Same
    <3> QED BY <2>7, <3>1, <3>2
  <2> HIDE DEF Same
  <2> QED BY <2>4, <2>11
<1>8. Nat \subseteq A
  <2> HIDE DEF A
  <2> QED BY <1>6, <1>7, NatSetInduction
<1>9. Same(c[n], d[n], Len(e[n - k]))
  <2>1. n - k \in Nat /\ n - k <= n - k /\ k + (n - k) = n
    OBVIOUS
  <2>2. n - k \in A
    <3> HIDE DEF A
    <3> QED BY <1>8, <2>1
  <2>3. Same(c[k + (n - k)], d[k + (n - k)], Len(e[n - k]))
    <3> HIDE DEF Same
    <3> QED BY <2>1, <2>2
  <2> HIDE DEF Same
  <2> QED BY <2>1, <2>3
<1>10. Concat(xs) = c[n] /\ Concat(ys) = d[n] /\ Concat(tail) = e[n - k]
  BY <1>1, <1>2, <1>3 DEF IsConcat
<1>11. Same(Concat(xs), Concat(ys), Len(Concat(tail)))
  <2> HIDE DEF Same
  <2> QED BY <1>9, <1>10
<1>12. Len(Concat(tail)) \in Nat
  <2>1. n - k \in Nat
    OBVIOUS
  <2>2. Concat(tail) \in Seq(BOOLEAN)
    BY <2>1, ConcatType
  <2> QED BY <2>2
<1> QED BY <1>11, <1>12
-----------------------------------------------------------------------------
(* The rules on one statement                                              *)

LEMMA BitIs == ASSUME NEW x \in Seq(BOOLEAN), NEW b PROVE Bit(x, b) \in BOOLEAN /\ (Bit(x, b) <=> b \in 1..Len(x) /\ x[b])
BY DEF Bit

LEMMA FillIs ==
  ASSUME NEW w \in Nat, NEW p \in BOOLEAN
  PROVE  Fill(w, p) \in Seq(BOOLEAN) /\ Len(Fill(w, p)) = w /\ \A b \in 1..w : Fill(w, p)[b] <=> p
<1>1. Fill(w, p) \in [1..w -> BOOLEAN]
  BY DEF Fill
<1> QED BY <1>1, FunSeq DEF Fill

LEMMA ZerosAre ==
  ASSUME NEW w \in Nat
  PROVE  Zeros(w) \in Seq(BOOLEAN) /\ Len(Zeros(w)) = w /\ \A b \in 1..w : ~Zeros(w)[b]
<1>1. Zeros(w) \in [1..w -> BOOLEAN]
  BY DEF Zeros, Fill
<1> QED BY <1>1, FunSeq DEF Zeros, Fill

LEMMA FitIs ==
  ASSUME NEW w \in Nat, NEW x
  PROVE  Fit(x, w) \in Seq(BOOLEAN) /\ Len(Fit(x, w)) = w /\ \A b \in 1..w : Fit(x, w)[b] <=> Bit(x, b)
<1>1. Fit(x, w) \in [1..w -> BOOLEAN]
  BY DEF Fit, Bit
<1> QED BY <1>1, FunSeq DEF Fit

LEMMA PartIs ==
  ASSUME NEW w \in Nat, NEW x, NEW hi, NEW lo, hi - lo + 1 = w
  PROVE  Part(x, hi, lo) \in Seq(BOOLEAN) /\ Len(Part(x, hi, lo)) = w /\ \A b \in 1..w : Part(x, hi, lo)[b] <=> Bit(x, lo + b)
<1>1. Part(x, hi, lo) \in [1..w -> BOOLEAN]
  BY DEF Part, Bit
<1> QED BY <1>1, FunSeq DEF Part

LEMMA WidestIs ==
  ASSUME NEW x \in Seq(BOOLEAN), NEW y \in Seq(BOOLEAN)
  PROVE  Widest(x, y) \in Nat /\ Widest(x, y) >= Len(x) /\ Widest(x, y) >= Len(y) /\ Widest(x, y) \in {Len(x), Len(y)}
BY DEF Widest

LEMMA OrIs ==
  ASSUME NEW x \in Seq(BOOLEAN), NEW y \in Seq(BOOLEAN)
  PROVE  /\ BitOr(x, y) \in Seq(BOOLEAN) /\ Len(BitOr(x, y)) = Widest(x, y)
         /\ \A b \in 1..Widest(x, y) : BitOr(x, y)[b] <=> Bit(x, b) \/ Bit(y, b)
<1>1. Widest(x, y) \in Nat
  BY WidestIs
<1>2. BitOr(x, y) \in [1..Widest(x, y) -> BOOLEAN]
  BY DEF BitOr
<1> QED BY <1>1, <1>2, FunSeq DEF BitOr

LEMMA AndIs ==
  ASSUME NEW x \in Seq(BOOLEAN), NEW y \in Seq(BOOLEAN)
  PROVE  /\ BitAnd(x, y) \in Seq(BOOLEAN) /\ Len(BitAnd(x, y)) = Widest(x, y)
         /\ \A b \in 1..Widest(x, y) : BitAnd(x, y)[b] <=> Bit(x, b) /\ Bit(y, b)
<1>1. Widest(x, y) \in Nat
  BY WidestIs
<1>2. BitAnd(x, y) \in [1..Widest(x, y) -> BOOLEAN]
  BY DEF BitAnd
<1> QED BY <1>1, <1>2, FunSeq DEF BitAnd

LEMMA XorIs ==
  ASSUME NEW x \in Seq(BOOLEAN), NEW y \in Seq(BOOLEAN)
  PROVE  /\ BitXor(x, y) \in Seq(BOOLEAN) /\ Len(BitXor(x, y)) = Widest(x, y)
         /\ \A b \in 1..Widest(x, y) : BitXor(x, y)[b] <=> ~(Bit(x, b) <=> Bit(y, b))
<1>1. Widest(x, y) \in Nat
  BY WidestIs
<1>2. BitXor(x, y) \in [1..Widest(x, y) -> BOOLEAN]
  BY DEF BitXor
<1>3. \A b : Bit(x, b) \in BOOLEAN /\ Bit(y, b) \in BOOLEAN
  BY DEF Bit
<1> QED BY <1>1, <1>2, <1>3, FunSeq DEF BitXor

LEMMA NotIs ==
  ASSUME NEW x \in Seq(BOOLEAN)
  PROVE  BitNot(x) \in Seq(BOOLEAN) /\ Len(BitNot(x)) = Len(x) /\ \A b \in 1..Len(x) : BitNot(x)[b] <=> ~x[b]
<1>1. BitNot(x) \in [1..Len(x) -> BOOLEAN]
  BY DEF BitNot
<1>2. BitNot(x) \in Seq(BOOLEAN) /\ Len(BitNot(x)) = Len(x)
  BY <1>1, FunSeq
<1>3. ASSUME NEW b \in 1..Len(x) PROVE BitNot(x)[b] <=> ~x[b]
  <2>1. BitNot(x)[b] = ~x[b]
    BY DEF BitNot
  <2> QED BY <2>1
<1> QED BY <1>2, <1>3

LEMMA TruthIs ==
  ASSUME NEW p \in BOOLEAN
  PROVE  Truth(p) \in Seq(BOOLEAN) /\ Len(Truth(p)) = 1 /\ (Truth(p)[1] <=> p) /\ (AnyBit(Truth(p)) <=> p)
BY DEF Truth, AnyBit

LEMMA AnyBitIs ==
  ASSUME NEW x \in Seq(BOOLEAN)
  PROVE  AnyBit(x) \in BOOLEAN /\ (AnyBit(x) <=> \E b \in 1..Len(x) : x[b])
BY DEF AnyBit

LEMMA AnyCovers == ASSUME NEW a, NEW c, Covers(a, c), AnyBit(a) PROVE AnyBit(c)
BY DEF Covers, AnyBit

LEMMA BitCovers == ASSUME NEW a, NEW c, Covers(a, c), NEW b, Bit(a, b) PROVE Bit(c, b)
BY DEF Covers, Bit

LEMMA FitCovers == ASSUME NEW a, NEW c, Covers(a, c), NEW w \in Nat PROVE Covers(Fit(a, w), Fit(c, w))
<1>1. \A b : Bit(a, b) => Bit(c, b)
  BY BitCovers
<1>2. Fit(a, w) \in Seq(BOOLEAN) /\ Len(Fit(a, w)) = w /\ \A b \in 1..w : Fit(a, w)[b] <=> Bit(a, b)
  BY FitIs
<1>3. Fit(c, w) \in Seq(BOOLEAN) /\ Len(Fit(c, w)) = w /\ \A b \in 1..w : Fit(c, w)[b] <=> Bit(c, b)
  BY FitIs
<1> QED BY <1>1, <1>2, <1>3 DEF Covers

LEMMA PartCovers ==
  ASSUME NEW a, NEW c, Covers(a, c), NEW w \in Nat, NEW hi, NEW lo, hi - lo + 1 = w
  PROVE  Covers(Part(a, hi, lo), Part(c, hi, lo))
<1>1. \A b : Bit(a, b) => Bit(c, b)
  BY BitCovers
<1>2. Part(a, hi, lo) \in Seq(BOOLEAN) /\ Len(Part(a, hi, lo)) = w /\ \A b \in 1..w : Part(a, hi, lo)[b] <=> Bit(a, lo + b)
  BY PartIs
<1>3. Part(c, hi, lo) \in Seq(BOOLEAN) /\ Len(Part(c, hi, lo)) = w /\ \A b \in 1..w : Part(c, hi, lo)[b] <=> Bit(c, lo + b)
  BY PartIs
<1> QED BY <1>1, <1>2, <1>3 DEF Covers

LEMMA FillCovers ==
  ASSUME NEW w \in Nat, NEW p \in BOOLEAN, NEW q \in BOOLEAN, p => q
  PROVE  Covers(Fill(w, p), Fill(w, q))
<1>1. Fill(w, p) \in Seq(BOOLEAN) /\ Len(Fill(w, p)) = w /\ \A b \in 1..w : Fill(w, p)[b] <=> p
  BY FillIs
<1>2. Fill(w, q) \in Seq(BOOLEAN) /\ Len(Fill(w, q)) = w /\ \A b \in 1..w : Fill(w, q)[b] <=> q
  BY FillIs
<1> QED BY <1>1, <1>2 DEF Covers

LEMMA TruthCovers == ASSUME NEW p \in BOOLEAN, NEW q \in BOOLEAN, p => q PROVE Covers(Truth(p), Truth(q))
BY DEF Covers, Truth

LEMMA SelfCovers == ASSUME NEW a \in Seq(BOOLEAN) PROVE Covers(a, a)
BY DEF Covers

LEMMA OrCovers ==
  ASSUME NEW a, NEW c, Covers(a, c), NEW d, NEW e, Covers(d, e)
  PROVE  Covers(BitOr(a, d), BitOr(c, e)) /\ Covers(BitOr(a, d), BitOr(e, c))
<1>1. (\A b : Bit(a, b) => Bit(c, b)) /\ (\A b : Bit(d, b) => Bit(e, b))
  BY BitCovers
<1>2. /\ a \in Seq(BOOLEAN) /\ c \in Seq(BOOLEAN) /\ d \in Seq(BOOLEAN) /\ e \in Seq(BOOLEAN)
      /\ Widest(c, e) = Widest(a, d) /\ Widest(e, c) = Widest(a, d)
  BY DEF Covers, Widest
<1> DEFINE w == Widest(a, d)
<1>3. BitOr(a, d) \in Seq(BOOLEAN) /\ Len(BitOr(a, d)) = w /\ \A b \in 1..w : BitOr(a, d)[b] <=> Bit(a, b) \/ Bit(d, b)
  BY <1>2, OrIs
<1>4. BitOr(c, e) \in Seq(BOOLEAN) /\ Len(BitOr(c, e)) = w /\ \A b \in 1..w : BitOr(c, e)[b] <=> Bit(c, b) \/ Bit(e, b)
  BY <1>2, OrIs
<1>5. BitOr(e, c) \in Seq(BOOLEAN) /\ Len(BitOr(e, c)) = w /\ \A b \in 1..w : BitOr(e, c)[b] <=> Bit(e, b) \/ Bit(c, b)
  BY <1>2, OrIs
<1> HIDE DEF w
<1>6. Covers(BitOr(a, d), BitOr(c, e))
  BY <1>1, <1>3, <1>4 DEF Covers
<1>7. Covers(BitOr(a, d), BitOr(e, c))
  BY <1>1, <1>3, <1>5 DEF Covers
<1> QED BY <1>6, <1>7

LEMMA AndCovers ==
  ASSUME NEW a, NEW c, Covers(a, c), NEW d \in Seq(BOOLEAN)
  PROVE  Covers(BitAnd(a, d), BitAnd(c, d))
<1>1. \A b : Bit(a, b) => Bit(c, b)
  BY BitCovers
<1>2. a \in Seq(BOOLEAN) /\ c \in Seq(BOOLEAN) /\ Widest(c, d) = Widest(a, d)
  BY DEF Covers, Widest
<1> DEFINE w == Widest(a, d)
<1>3. BitAnd(a, d) \in Seq(BOOLEAN) /\ Len(BitAnd(a, d)) = w /\ \A b \in 1..w : BitAnd(a, d)[b] <=> Bit(a, b) /\ Bit(d, b)
  BY <1>2, AndIs
<1>4. BitAnd(c, d) \in Seq(BOOLEAN) /\ Len(BitAnd(c, d)) = w /\ \A b \in 1..w : BitAnd(c, d)[b] <=> Bit(c, b) /\ Bit(d, b)
  BY <1>2, AndIs
<1> HIDE DEF w
<1> QED BY <1>1, <1>3, <1>4 DEF Covers

\* The same operand as live_analysis sees it and as write_taint does, with
\* at least the taint.
Above(x, z) ==
  /\ x.num \in BOOLEAN /\ x.v \in Seq(BOOLEAN) /\ Len(x.t) = Len(x.v)
  /\ z.num = x.num /\ z.v = x.v /\ Covers(x.t, z.t)

WThrough(op, a, b) ==
  CASE op = "&&" -> Truth(AnyBit(a.t) /\ AnyBit(b.v))
    [] op = "||" -> Truth(AnyBit(a.t) /\ Num(b.v) # 1)
    [] op = "&"  -> BitAnd(a.t, b.v)
    [] op = "|"  -> BitAnd(a.t, BitNot(Fit(b.v, Widest(a.v, b.v))))
    [] OTHER     -> a.t

LEMMA ThroughCovers ==
  ASSUME NEW op, NEW x, NEW x2, Above(x, x2), NEW y, NEW y2, Above(y, y2)
  PROVE  Covers(Through(op, x, y), WThrough(op, x2, y2))
<1>1. /\ x.v \in Seq(BOOLEAN) /\ y.v \in Seq(BOOLEAN) /\ Covers(x.t, x2.t)
      /\ x2.v = x.v /\ y2.v = y.v
  BY DEF Above
<1>2. AnyBit(x.t) => AnyBit(x2.t)
  BY <1>1, AnyCovers
<1>3. AnyBit(x.t) \in BOOLEAN /\ AnyBit(x2.t) \in BOOLEAN /\ AnyBit(y.v) \in BOOLEAN
  BY DEF AnyBit
<1>4. CASE op = "&&"
  <2>1. Through(op, x, y) = Truth(AnyBit(x.t) /\ AnyBit(y.v)) /\ WThrough(op, x2, y2) = Truth(AnyBit(x2.t) /\ AnyBit(y.v))
    BY <1>1, <1>4 DEF Through, WThrough
  <2> DEFINE p == AnyBit(x.t) /\ AnyBit(y.v)
             q == AnyBit(x2.t) /\ AnyBit(y.v)
  <2>2. p \in BOOLEAN /\ q \in BOOLEAN /\ (p => q)
    BY <1>2, <1>3
  <2> HIDE DEF p, q
  <2> QED BY <2>1, <2>2, TruthCovers DEF p, q
<1>5. CASE op = "||"
  <2>1. Through(op, x, y) = Truth(AnyBit(x.t) /\ Num(y.v) # 1) /\ WThrough(op, x2, y2) = Truth(AnyBit(x2.t) /\ Num(y.v) # 1)
    BY <1>1, <1>5 DEF Through, WThrough
  <2> DEFINE p == AnyBit(x.t) /\ Num(y.v) # 1
             q == AnyBit(x2.t) /\ Num(y.v) # 1
  <2>2. p \in BOOLEAN /\ q \in BOOLEAN /\ (p => q)
    BY <1>2, <1>3
  <2> HIDE DEF p, q
  <2> QED BY <2>1, <2>2, TruthCovers DEF p, q
<1>6. CASE op = "&"
  <2>1. Through(op, x, y) = BitAnd(x.t, y.v) /\ WThrough(op, x2, y2) = BitAnd(x2.t, y.v)
    BY <1>1, <1>6 DEF Through, WThrough
  <2> QED BY <1>1, <2>1, AndCovers
<1>7. CASE op = "|"
  <2> DEFINE m == BitNot(Fit(y.v, Widest(x.v, y.v)))
  <2>1. Through(op, x, y) = BitAnd(x.t, m) /\ WThrough(op, x2, y2) = BitAnd(x2.t, m)
    BY <1>1, <1>7 DEF Through, WThrough
  <2>2. Fit(y.v, Widest(x.v, y.v)) \in Seq(BOOLEAN)
    BY <1>1, WidestIs, FitIs
  <2>3. m \in Seq(BOOLEAN)
    BY <2>2, NotIs
  <2> HIDE DEF m
  <2> QED BY <1>1, <2>1, <2>3, AndCovers
<1>8. CASE op \notin {"&&", "||", "&", "|"}
  <2>1. Through(op, x, y) = x.t /\ WThrough(op, x2, y2) = x2.t
    BY <1>8 DEF Through, WThrough
  <2> QED BY <1>1, <2>1
<1> QED BY <1>4, <1>5, <1>6, <1>7, <1>8

LEMMA TwoOpCovers ==
  ASSUME NEW op, NEW w \in Nat, NEW x, NEW x2, Above(x, x2), NEW y, NEW y2, Above(y, y2)
  PROVE  Covers(TwoOpT(op, w, x, y), WTwoOpT(op, w, x2, y2))
<1> DEFINE any == AnyBit(x.t) \/ AnyBit(y.t)
           any2 == AnyBit(x2.t) \/ AnyBit(y2.t)
<1>1. any \in BOOLEAN /\ any2 \in BOOLEAN /\ (any => any2)
  <2>1. AnyBit(x.t) \in BOOLEAN /\ AnyBit(x2.t) \in BOOLEAN /\ AnyBit(y.t) \in BOOLEAN /\ AnyBit(y2.t) \in BOOLEAN
    BY DEF AnyBit
  <2>2. (AnyBit(x.t) => AnyBit(x2.t)) /\ (AnyBit(y.t) => AnyBit(y2.t))
    BY AnyCovers DEF Above
  <2> QED BY <2>1, <2>2
<1>2. x2.num = x.num /\ y2.num = y.num /\ Covers(x.t, x2.t) /\ Covers(y.t, y2.t)
  BY DEF Above
<1>3. CASE x.num /\ y.num
  <2>1. TwoOpT(op, w, x, y) = Zeros(w) /\ WTwoOpT(op, w, x2, y2) = Zeros(w)
    BY <1>2, <1>3 DEF TwoOpT, WTwoOpT
  <2> QED BY <2>1, ZerosAre, SelfCovers
<1>4. CASE ~(x.num /\ y.num) /\ op \in ShiftOps
  <2>1. op \notin CompareOps
    BY <1>4 DEF ShiftOps, CompareOps
  <2>2. TwoOpT(op, w, x, y) = Fill(w, any) /\ WTwoOpT(op, w, x2, y2) = Fill(w, any2)
    BY <1>2, <1>4, <2>1 DEF TwoOpT, WTwoOpT
  <2> HIDE DEF any, any2
  <2> QED BY <1>1, <2>2, FillCovers
<1>5. CASE ~(x.num /\ y.num) /\ op \in CompareOps
  <2>1. op \notin ShiftOps
    BY <1>5 DEF ShiftOps, CompareOps
  <2>2. TwoOpT(op, w, x, y) = Fit(Truth(any), w) /\ WTwoOpT(op, w, x2, y2) = Fit(Truth(any2), w)
    BY <1>2, <1>5, <2>1 DEF TwoOpT, WTwoOpT
  <2> HIDE DEF any, any2
  <2>3. Covers(Truth(any), Truth(any2))
    BY <1>1, TruthCovers
  <2> QED BY <2>2, <2>3, FitCovers
<1>6. CASE ~(x.num /\ y.num) /\ op \notin ShiftOps /\ op \notin CompareOps
  <2> DEFINE d == CASE x.num -> y.t [] y.num -> x.t [] OTHER -> BitOr(Through(op, x, y), Through(op, y, x))
             e == IF x.num THEN y2.t ELSE IF y.num THEN x2.t ELSE BitOr(WThrough(op, x2, y2), WThrough(op, y2, x2))
  <2>1. TwoOpT(op, w, x, y) = Fit(d, w)
    BY <1>6 DEF TwoOpT
  <2>2. WTwoOpT(op, w, x2, y2) = Fit(e, w)
    BY <1>2, <1>6 DEF WTwoOpT, WThrough
  <2>3. Covers(d, e)
    <3>1. CASE x.num
      <4>1. d = y.t /\ e = y2.t
        BY <1>6, <3>1
      <4> QED BY <1>2, <4>1
    <3>2. CASE ~x.num /\ y.num
      <4>1. d = x.t /\ e = x2.t
        BY <3>2
      <4> QED BY <1>2, <4>1
    <3>3. CASE ~x.num /\ ~y.num
      <4>1. d = BitOr(Through(op, x, y), Through(op, y, x)) /\ e = BitOr(WThrough(op, x2, y2), WThrough(op, y2, x2))
        BY <3>3
      <4> QED BY <4>1, ThroughCovers, OrCovers
    <3> QED BY <3>1, <3>2, <3>3
  <2> HIDE DEF d, e
  <2> QED BY <2>1, <2>2, <2>3, FitCovers
<1> QED BY <1>3, <1>4, <1>5, <1>6

LEMMA SelCovers ==
  ASSUME NEW w \in Nat, NEW x, NEW x2, Above(x, x2), NEW y, NEW y2, Above(y, y2),
         y.num => y.t = Zeros(Len(y.v))
  PROVE  Covers(SelT(w, x, y), WSelT(w, x2, y2))
<1>1. /\ x2.num = x.num /\ y2.num = y.num /\ x2.v = x.v /\ y2.v = y.v
      /\ y.v \in Seq(BOOLEAN) /\ Len(y.v) \in Nat /\ Covers(x.t, x2.t)
  BY DEF Above
<1>2. Num(y.v) \in Nat
  BY <1>1, SeqWord, NumType
<1>3. PICK at \in Nat : at = Num(y.v)
  BY <1>2
<1>4. (at + w - 1) - at + 1 = w
  OBVIOUS
<1> DEFINE p == ~y.num /\ AnyBit(y.t)
           q == ~y.num /\ AnyBit(y2.t)
<1>5. p \in BOOLEAN /\ q \in BOOLEAN /\ (p => q)
  <2>1. AnyBit(y.t) \in BOOLEAN /\ AnyBit(y2.t) \in BOOLEAN /\ y.num \in BOOLEAN
    BY DEF AnyBit, Above
  <2>2. AnyBit(y.t) => AnyBit(y2.t)
    BY AnyCovers DEF Above
  <2> QED BY <2>1, <2>2
<1>6. Covers(Fill(w, p), Fill(w, q))
  <2> HIDE DEF p, q
  <2> QED BY <1>5, FillCovers
<1>7. CASE x.num
  <2>1. AnyBit(y.t) = p
    <3>1. CASE y.num
      <4>1. ~AnyBit(y.t)
        BY <1>1, <3>1, ZerosAre, AnyBitIs
      <4> QED BY <3>1, <4>1 DEF AnyBit
    <3>2. CASE ~y.num
      BY <3>2 DEF AnyBit
    <3> QED BY <3>1, <3>2
  <2> HIDE DEF p, q
  <2>2. SelT(w, x, y) = Fill(w, p)
    BY <1>7, <2>1 DEF SelT
  <2>3. WSelT(w, x2, y2) = BitOr(Zeros(w), Fill(w, q))
    BY <1>1, <1>7 DEF WSelT, q
  <2>4. Fill(w, p) \in Seq(BOOLEAN) /\ Len(Fill(w, p)) = w /\ \A b \in 1..w : Fill(w, p)[b] <=> p
    BY <1>5, FillIs
  <2>5. Fill(w, q) \in Seq(BOOLEAN) /\ Len(Fill(w, q)) = w /\ \A b \in 1..w : Fill(w, q)[b] <=> q
    BY <1>5, FillIs
  <2>6. Widest(Zeros(w), Fill(w, q)) = w
    BY <2>5, ZerosAre DEF Widest
  <2>7. /\ BitOr(Zeros(w), Fill(w, q)) \in Seq(BOOLEAN) /\ Len(BitOr(Zeros(w), Fill(w, q))) = w
        /\ \A b \in 1..w : BitOr(Zeros(w), Fill(w, q))[b] <=> Bit(Zeros(w), b) \/ Bit(Fill(w, q), b)
    BY <2>5, <2>6, ZerosAre, OrIs
  <2>8. \A b \in 1..w : Fill(w, p)[b] => BitOr(Zeros(w), Fill(w, q))[b]
    <3> SUFFICES ASSUME NEW b \in 1..w, Fill(w, p)[b] PROVE BitOr(Zeros(w), Fill(w, q))[b]
      OBVIOUS
    <3>1. q
      BY <1>5, <2>4
    <3>2. Bit(Fill(w, q), b)
      BY <2>5, <3>1, BitIs
    <3> QED BY <2>7, <3>2
  <2>9. Covers(Fill(w, p), BitOr(Zeros(w), Fill(w, q)))
    BY <2>4, <2>7, <2>8 DEF Covers
  <2> QED BY <2>2, <2>3, <2>9
<1>8. CASE ~x.num
  <2>1. SelT(w, x, y) = BitOr(Part(x.t, at + w - 1, at), Fill(w, p))
    BY <1>3, <1>8 DEF SelT
  <2>2. WSelT(w, x2, y2) = BitOr(Part(x2.t, at + w - 1, at), Fill(w, q))
    BY <1>1, <1>3, <1>8 DEF WSelT
  <2> HIDE DEF p, q
  <2>3. Covers(Part(x.t, at + w - 1, at), Part(x2.t, at + w - 1, at))
    BY <1>1, <1>4, PartCovers
  <2> QED BY <1>6, <2>1, <2>2, <2>3, OrCovers
<1> QED BY <1>7, <1>8

LEMMA OneOpCovers ==
  ASSUME NEW w \in Nat, NEW x, NEW x2, Above(x, x2)
  PROVE  Covers(OneOpT(w, x), WOneOpT(w, x2))
<1>1. x2.num = x.num /\ Covers(x.t, x2.t)
  BY DEF Above
<1>2. CASE x.num
  <2>1. OneOpT(w, x) = Zeros(w) /\ WOneOpT(w, x2) = Fit(Zeros(w), w)
    BY <1>1, <1>2 DEF OneOpT, WOneOpT
  <2>2. Fit(Zeros(w), w) \in Seq(BOOLEAN) /\ Len(Fit(Zeros(w), w)) = w
    BY FitIs
  <2>3. Zeros(w) \in Seq(BOOLEAN) /\ Len(Zeros(w)) = w /\ \A b \in 1..w : ~Zeros(w)[b]
    BY ZerosAre
  <2> QED BY <2>1, <2>2, <2>3 DEF Covers
<1>3. CASE ~x.num
  <2>1. OneOpT(w, x) = Fit(x.t, w) /\ WOneOpT(w, x2) = Fit(x2.t, w)
    BY <1>1, <1>3 DEF OneOpT, WOneOpT
  <2> QED BY <1>1, <2>1, FitCovers
<1> QED BY <1>2, <1>3

LEMMA ReduceCovers ==
  ASSUME NEW x, NEW x2, Above(x, x2)
  PROVE  Covers(ReduceT(x), WReduceT(x2))
<1>1. AnyBit(x.t) \in BOOLEAN /\ AnyBit(x2.t) \in BOOLEAN /\ (AnyBit(x.t) => AnyBit(x2.t))
  BY AnyCovers DEF Above, AnyBit
<1>2. PICK p, q : p = AnyBit(x.t) /\ q = AnyBit(x2.t)
  OBVIOUS
<1>3. Covers(Truth(p), Truth(q))
  BY <1>1, <1>2, TruthCovers
<1> QED BY <1>2, <1>3 DEF ReduceT, WReduceT

LEMMA CatCovers ==
  ASSUME NEW n \in Nat, NEW x, NEW x2, DOMAIN x = 1..n, DOMAIN x2 = 1..n, \A k \in 1..n : Above(x[k], x2[k])
  PROVE  Covers(ConcatT(x), WConcatT(x2))
<1> DEFINE a == [k \in 1..n |-> x[k].t]
           c == [k \in 1..n |-> x2[k].t]
<1>1. \A k \in 1..n : Covers(x[k].t, x2[k].t)
  BY DEF Above
<1>2. a \in [1..n -> Seq(BOOLEAN)] /\ c \in [1..n -> Seq(BOOLEAN)]
  BY <1>1 DEF Covers
<1>3. \A k \in 1..n : Covers(a[k], c[k])
  BY <1>1
<1>4. ConcatT(x) = Concat(a) /\ WConcatT(x2) = Concat(c)
  BY DEF ConcatT, WConcatT
<1> HIDE DEF a, c
<1> QED BY <1>2, <1>3, <1>4, ConcatCovers

LEMMA IteCovers ==
  ASSUME NEW w \in Nat, NEW c, NEW c2, Above(c, c2), NEW x, NEW x2, Above(x, x2), NEW y, NEW y2, Above(y, y2)
  PROVE  Covers(IteT(w, c, x, y), WIteT(w, c2, x2, y2))
<1> DEFINE o == IF AnyBit(c.v) THEN x ELSE y
           o2 == IF AnyBit(c.v) THEN x2 ELSE y2
           f == Fill(w, AnyBit(c.t))
           f2 == Fill(w, AnyBit(c2.t))
<1>1. c2.v = c.v /\ Above(o, o2)
  BY DEF Above
<1>2. Covers(f, f2)
  <2>1. AnyBit(c.t) \in BOOLEAN /\ AnyBit(c2.t) \in BOOLEAN /\ (AnyBit(c.t) => AnyBit(c2.t))
    BY AnyCovers DEF Above, AnyBit
  <2> QED BY <2>1, FillCovers
<1>3. IteT(w, c, x, y) = Fit(BitOr(f, IF o.num THEN Zeros(w) ELSE o.t), w)
  BY DEF IteT
<1>4. WIteT(w, c2, x2, y2) = IF o2.num THEN f2 ELSE Fit(BitOr(f2, o2.t), w)
  BY <1>1 DEF WIteT
<1>5. o2.num = o.num /\ Covers(o.t, o2.t)
  BY <1>1 DEF Above
<1> HIDE DEF o, o2
<1>6. CASE o.num
  <2>1. f \in Seq(BOOLEAN) /\ f2 \in Seq(BOOLEAN) /\ Len(f) = w /\ Len(f2) = w /\ \A b \in 1..w : f[b] => f2[b]
    <3>1. AnyBit(c.t) \in BOOLEAN
      BY DEF AnyBit
    <3>2. Len(f) = w
      BY <3>1, FillIs
    <3> HIDE DEF f, f2
    <3> QED BY <1>2, <3>2 DEF Covers
  <2> HIDE DEF f, f2
  <2>2. Zeros(w) \in Seq(BOOLEAN) /\ \A b : ~Bit(Zeros(w), b)
    BY ZerosAre, BitIs
  <2>3. Widest(f, Zeros(w)) = w
    BY <2>1, ZerosAre DEF Widest
  <2>4. BitOr(f, Zeros(w)) \in Seq(BOOLEAN) /\ Len(BitOr(f, Zeros(w))) = w /\ \A b \in 1..w : BitOr(f, Zeros(w))[b] <=> Bit(f, b)
    BY <2>1, <2>2, <2>3, OrIs
  <2>5. PICK g : g = BitOr(f, Zeros(w))
    OBVIOUS
  <2>6. Fit(g, w) \in Seq(BOOLEAN) /\ Len(Fit(g, w)) = w /\ \A b \in 1..w : Fit(g, w)[b] <=> Bit(g, b)
    BY FitIs
  <2>7. \A b \in 1..w : Bit(g, b) => f2[b]
    BY <2>1, <2>4, <2>5 DEF Bit
  <2>8. Covers(Fit(g, w), f2)
    BY <2>1, <2>6, <2>7 DEF Covers
  <2> QED BY <1>3, <1>4, <1>5, <1>6, <2>5, <2>8
<1>7. CASE ~o.num
  <2>1. Covers(BitOr(f, o.t), BitOr(f2, o2.t))
    <3> HIDE DEF f, f2
    <3> QED BY <1>2, <1>5, OrCovers
  <2>2. Covers(Fit(BitOr(f, o.t), w), Fit(BitOr(f2, o2.t), w))
    <3> HIDE DEF f, f2
    <3> QED BY <2>1, FitCovers
  <2> QED BY <1>3, <1>4, <1>5, <1>7, <2>2
<1> QED BY <1>6, <1>7

\* A case takes the first pattern that matches, or none.
LEMMA CaseTakenIs ==
  ASSUME NEW s \in Seq(BOOLEAN)
  PROVE  \/ CaseTaken(s) = 0 /\ ~AnyBit(s)
         \/ CaseTaken(s) \in 1..Len(s) /\ s[CaseTaken(s)] /\ AnyBit(s) /\ CaseTaken(s) # 0
<1>1. CASE ~AnyBit(s)
  BY <1>1 DEF CaseTaken
<1>2. CASE AnyBit(s)
  <2>1. \E i \in DOMAIN s : s[i] /\ \A j \in 1..(i - 1) : ~s[j]
    <3> SUFFICES ASSUME ~(\E i \in DOMAIN s : s[i] /\ \A j \in 1..(i - 1) : ~s[j]) PROVE FALSE
      OBVIOUS
    <3> DEFINE A == {n \in Nat : \A j \in 1..n : j \in DOMAIN s => ~s[j]}
    <3>1. 0 \in A
      OBVIOUS
    <3>2. \A n \in Nat : n \in A => n + 1 \in A
      <4> SUFFICES ASSUME NEW n \in Nat, n \in A, NEW j \in 1..n + 1, j \in DOMAIN s PROVE ~s[j]
        OBVIOUS
      <4>1. CASE j \in 1..n
        BY <4>1
      <4>2. CASE j = n + 1
        <5>1. \A i \in 1..(j - 1) : i \in DOMAIN s /\ ~s[i]
          BY <4>2
        <5> QED BY <5>1
      <4> QED BY <4>1, <4>2
    <3>3. Nat \subseteq A
      <4> HIDE DEF A
      <4> QED BY <3>1, <3>2, NatSetInduction
    <3>4. PICK i \in DOMAIN s : s[i]
      BY <1>2 DEF AnyBit
    <3>5. i \in Nat /\ i \in 1..i
      OBVIOUS
    <3> QED BY <3>3, <3>4, <3>5
  <2>2. PICK i : i = CaseTaken(s) /\ i \in DOMAIN s /\ s[i]
    BY <1>2, <2>1 DEF CaseTaken
  <2> QED BY <1>2, <2>2
<1> QED BY <1>1, <1>2

LEMMA FieldWidth ==
  ASSUME NEW w \in Nat, NEW i \in Nat
  PROVE  (w * i - 1) - w * (i - 1) + 1 = w
<1>1. PICK a \in Int : a = w * (i - 1) /\ w * i = a + w
  <2>1. w * (i - 1) \in Int /\ w * i = w * (i - 1) + w
    OBVIOUS
  <2> QED BY <2>1
<1> QED BY <1>1

LEMMA CaseCovers ==
  ASSUME NEW w \in Nat, NEW s, NEW s2, Above(s, s2), NEW b, NEW b2, Above(b, b2), NEW a, NEW a2, Above(a, a2)
  PROVE  Covers(CaseT(w, s, b, a), WCaseT(w, s2, b2, a2))
<1>1. /\ s2.v = s.v /\ s.v \in Seq(BOOLEAN) /\ Covers(s.t, s2.t) /\ Len(s.t) = Len(s.v)
      /\ b2.num = b.num /\ a2.num = a.num /\ Covers(b.t, b2.t) /\ Covers(a.t, a2.t)
  BY DEF Above
<1>2. PICK i : i = CaseTaken(s.v) /\ (i = 0 \/ i \in 1..Len(s.v))
  BY <1>1, CaseTakenIs
<1> DEFINE p == IF i = 0 THEN AnyBit(s.t) ELSE s.t[i]
           q == IF i = 0 THEN AnyBit(s2.t) ELSE s2.t[i]
           z == IF (IF i = 0 THEN a ELSE b).num THEN Zeros(w) ELSE IF i = 0 THEN a.t ELSE Field(b.t, i, w)
           z2 == IF i = 0 THEN a2.t ELSE Field(b2.t, i, w)
<1>3. p \in BOOLEAN /\ q \in BOOLEAN /\ (p => q)
  <2>1. CASE i = 0
    BY <1>1, <2>1, AnyCovers DEF AnyBit
  <2>2. CASE i # 0
    <3>1. /\ s.t \in Seq(BOOLEAN) /\ s2.t \in Seq(BOOLEAN) /\ i \in 1..Len(s.t) /\ i \in 1..Len(s2.t)
          /\ s.t[i] => s2.t[i]
      BY <1>1, <1>2, <2>2 DEF Covers
    <3>2. s.t[i] \in BOOLEAN /\ s2.t[i] \in BOOLEAN
      BY <3>1
    <3> QED BY <2>2, <3>1, <3>2
  <2> QED BY <2>1, <2>2
<1>4. CaseT(w, s, b, a) = BitOr(z, Fill(w, p))
  BY <1>2 DEF CaseT
<1>5. WCaseT(w, s2, b2, a2) = IF (IF i = 0 THEN a ELSE b).num THEN Fill(w, q) ELSE BitOr(Fill(w, q), z2)
  BY <1>1, <1>2 DEF WCaseT
<1>6. Covers(Fill(w, p), Fill(w, q))
  <2> HIDE DEF p, q
  <2> QED BY <1>3, FillCovers
<1>7. CASE (IF i = 0 THEN a ELSE b).num
  <2>1. z = Zeros(w)
    BY <1>7
  <2> HIDE DEF p, q, z
  <2>2. Fill(w, p) \in Seq(BOOLEAN) /\ Len(Fill(w, p)) = w /\ \A j \in 1..w : Fill(w, p)[j] <=> p
    BY <1>3, FillIs
  <2>3. Fill(w, q) \in Seq(BOOLEAN) /\ Len(Fill(w, q)) = w /\ \A j \in 1..w : Fill(w, q)[j] <=> q
    BY <1>3, FillIs
  <2>4. Zeros(w) \in Seq(BOOLEAN) /\ \A j : ~Bit(Zeros(w), j)
    BY ZerosAre, BitIs
  <2>5. Widest(Zeros(w), Fill(w, p)) = w
    BY <2>2, ZerosAre DEF Widest
  <2>6. /\ BitOr(Zeros(w), Fill(w, p)) \in Seq(BOOLEAN) /\ Len(BitOr(Zeros(w), Fill(w, p))) = w
        /\ \A j \in 1..w : BitOr(Zeros(w), Fill(w, p))[j] <=> Bit(Fill(w, p), j)
    BY <2>2, <2>4, <2>5, OrIs
  <2>7. \A j \in 1..w : Bit(Fill(w, p), j) => Fill(w, q)[j]
    BY <1>3, <2>2, <2>3 DEF Bit
  <2>8. Covers(BitOr(Zeros(w), Fill(w, p)), Fill(w, q))
    BY <2>3, <2>6, <2>7 DEF Covers
  <2> QED BY <1>4, <1>5, <1>7, <2>1, <2>8
<1>8. CASE ~(IF i = 0 THEN a ELSE b).num
  <2>1. Covers(z, z2)
    <3>1. CASE i = 0
      BY <1>1, <1>8, <3>1
    <3>2. CASE i # 0
      <4>1. z = Field(b.t, i, w) /\ z2 = Field(b2.t, i, w)
        BY <1>8, <3>2
      <4>2. i \in Nat /\ (w * i - 1) - w * (i - 1) + 1 = w
        BY <1>1, <1>2, <3>2, FieldWidth
      <4>3. PICK hi, lo : hi = w * i - 1 /\ lo = w * (i - 1) /\ hi - lo + 1 = w
        BY <4>2
      <4>4. Covers(Part(b.t, hi, lo), Part(b2.t, hi, lo))
        BY <1>1, <4>3, PartCovers
      <4> QED BY <4>1, <4>3, <4>4 DEF Field
    <3> QED BY <3>1, <3>2
  <2> HIDE DEF p, q, z, z2
  <2>2. Covers(BitOr(z, Fill(w, p)), BitOr(Fill(w, q), z2))
    BY <1>6, <2>1, OrCovers
  <2> QED BY <1>4, <1>5, <1>8, <2>2
<1> QED BY <1>7, <1>8
-----------------------------------------------------------------------------
(* The wires                                                               *)

LEMMA NetIs ==
  ASSUME net \in Nets
  PROVE  Len(Node) \in Nat /\ Nodes = 1..Len(Node) /\ \A i \in Nodes : StatementOK(Node[i], i, Len(Node))
BY NetAssumption DEF Nodes, Node

\* Each node settles on what it is of the nodes before it.
LEMMA SettledIs ==
  ASSUME net \in Nets, NEW signal, NEW v, NEW i \in Nodes
  PROVE  \E f : /\ Settled(signal, v)[i] = At(signal, v, f, i)
                /\ \A j \in 1..(i - 1) : f[j] = Settled(signal, v)[j]
<1> DEFINE n == Len(Node)
           ap(f, k) == At(signal, v, f, k)
           put(u, k) == Append(u[k - 1], ap(u[k - 1], k))
           Rule(u, m) == u = [k \in 0..m |-> IF k = 0 THEN <<>> ELSE put(u, k)]
           A == {m \in Nat : \E u : Rule(u, m)}
<1>1. n \in Nat /\ i \in 1..n
  BY NetIs
<1>2. 0 \in A
  <2>1. Rule([k \in 0..0 |-> <<>>], 0)
    OBVIOUS
  <2> QED BY <2>1
<1>3. \A m \in Nat : m \in A => m + 1 \in A
  <2> SUFFICES ASSUME NEW m \in Nat, NEW u, Rule(u, m) PROVE \E g : Rule(g, m + 1)
    <3> HIDE DEF Rule
    <3> QED OBVIOUS
  <2> DEFINE e == put(u, m + 1)
             g == [k \in 0..m + 1 |-> IF k = m + 1 THEN e ELSE u[k]]
  <2>1. (\A k \in 0..m : g[k] = u[k]) /\ g[m + 1] = e
    <3> HIDE DEF e
    <3> QED OBVIOUS
  <2>2. \A k \in 1..m + 1 : put(g, k) = put(u, k)
    <3>1. \A k \in 1..m + 1 : k - 1 \in 0..m
      OBVIOUS
    <3>2. \A k \in 1..m + 1 : g[k - 1] = u[k - 1]
      <4> HIDE DEF g
      <4> QED BY <2>1, <3>1
    <3> HIDE DEF g, ap
    <3> QED BY <3>2
  <2>3. \A k \in 0..m : u[k] = IF k = 0 THEN <<>> ELSE put(u, k)
    <3>1. PICK r : r = [k \in 0..m |-> IF k = 0 THEN <<>> ELSE put(u, k)]
      OBVIOUS
    <3>2. \A k \in 0..m : r[k] = IF k = 0 THEN <<>> ELSE put(u, k)
      <4> HIDE DEF put
      <4> QED BY <3>1
    <3>3. u = r
      <4> HIDE DEF put
      <4> QED BY <3>1
    <3> HIDE DEF put
    <3> QED BY <3>2, <3>3
  <2>4. \A k \in 0..m + 1 : g[k] = IF k = 0 THEN <<>> ELSE put(g, k)
    <3> SUFFICES ASSUME NEW k \in 0..m + 1 PROVE g[k] = IF k = 0 THEN <<>> ELSE put(g, k)
      OBVIOUS
    <3>1. CASE k = m + 1
      <4>1. g[k] = put(u, k) /\ k \in 1..m + 1 /\ k # 0
        <5> HIDE DEF g, put
        <5> QED BY <2>1, <3>1
      <4> HIDE DEF g, put
      <4> QED BY <2>2, <4>1
    <3>2. CASE k \in 0..m
      <4>1. k # 0 => k \in 1..m + 1
        BY <3>2
      <4> HIDE DEF g, put
      <4> QED BY <2>1, <2>2, <2>3, <3>2, <4>1
    <3> QED BY <3>1, <3>2
  <2>5. g = [k \in 0..m + 1 |-> g[k]]
    <3> HIDE DEF e
    <3> QED OBVIOUS
  <2>6. PICK h : h = g
    OBVIOUS
  <2>7. h = [k \in 0..m + 1 |-> h[k]] /\ \A k \in 0..m + 1 : h[k] = IF k = 0 THEN <<>> ELSE put(h, k)
    <3> HIDE DEF g, put
    <3> QED BY <2>4, <2>5, <2>6
  <2>8. Rule(h, m + 1)
    <3> HIDE DEF g, put
    <3> QED BY <2>7
  <2> QED BY <2>8
<1>4. Nat \subseteq A
  <2> HIDE DEF A
  <2> QED BY <1>2, <1>3, NatSetInduction
<1>5. \E u : Rule(u, n)
  <2>1. n \in A
    <3> HIDE DEF A, n
    <3> QED BY <1>1, <1>4
  <2> HIDE DEF Rule, n
  <2> QED BY <2>1
<1>6. PICK u : Rule(u, n) /\ Settled(signal, v) = u[n]
  <2>1. Settled(signal, v) = (CHOOSE z : Rule(z, n))[n]
    BY DEF Settled
  <2> HIDE DEF Rule
  <2> QED BY <1>5, <2>1
<1>7. u[0] = <<>> /\ \A k \in 1..n : u[k] = Append(u[k - 1], ap(u[k - 1], k))
  <2>1. PICK r : r = [k \in 0..n |-> IF k = 0 THEN <<>> ELSE put(u, k)]
    OBVIOUS
  <2>2. r[0] = <<>> /\ \A k \in 1..n : r[k] = put(u, k)
    <3> HIDE DEF put, n
    <3> QED BY <1>1, <2>1
  <2>3. u = r
    <3> HIDE DEF put
    <3> QED BY <1>6, <2>1
  <2>4. u[0] = <<>> /\ \A k \in 1..n : u[k] = put(u, k)
    <3> HIDE DEF put
    <3> QED BY <2>2, <2>3
  <2> HIDE DEF ap
  <2> QED BY <2>4
<1> HIDE DEF ap, n
<1> DEFINE Typed(k) == \E S : u[k] \in Seq(S) /\ Len(u[k]) = k
           B == {k \in Nat : k <= n => Typed(k)}
<1>8. 0 \in B
  <2>1. u[0] \in Seq({}) /\ Len(u[0]) = 0
    BY <1>7
  <2> QED BY <2>1
<1>9. \A k \in Nat : k \in B => k + 1 \in B
  <2> SUFFICES ASSUME NEW k \in Nat, k + 1 <= n, Typed(k) PROVE Typed(k + 1)
    <3>1. \A k \in Nat : k + 1 <= n => k <= n
      BY <1>1
    <3> HIDE DEF Typed
    <3> QED BY <3>1
  <2>1. PICK S : u[k] \in Seq(S) /\ Len(u[k]) = k
    OBVIOUS
  <2>2. k + 1 \in 1..n /\ (k + 1) - 1 = k
    BY <1>1
  <2>3. PICK e : e = ap(u[k], k + 1) /\ u[k + 1] = Append(u[k], e)
    BY <1>7, <2>2
  <2>4. Append(u[k], e) \in Seq(S \cup {e}) /\ Len(Append(u[k], e)) = k + 1
    <3>1. u[k] \in Seq(S \cup {e}) /\ e \in S \cup {e}
      BY <2>1, SeqMonotonic
    <3> QED BY <2>1, <3>1
  <2> QED BY <2>3, <2>4
<1>10. Nat \subseteq B
  <2> HIDE DEF B
  <2> QED BY <1>8, <1>9, NatSetInduction
<1>11. \A k \in Nat : k + 1 <= n => u[k + 1][k + 1] = ap(u[k], k + 1) /\ \A j \in 1..k : u[k + 1][j] = u[k][j]
  <2> SUFFICES ASSUME NEW k \in Nat, k + 1 <= n
               PROVE  u[k + 1][k + 1] = ap(u[k], k + 1) /\ \A j \in 1..k : u[k + 1][j] = u[k][j]
    OBVIOUS
  <2>1. k + 1 \in 1..n /\ (k + 1) - 1 = k /\ k <= n
    BY <1>1
  <2>2. PICK e : e = ap(u[k], k + 1) /\ u[k + 1] = Append(u[k], e)
    BY <1>7, <2>1
  <2>3. Typed(k)
    <3> HIDE DEF Typed
    <3> QED BY <1>10, <2>1
  <2>4. PICK S, s : s = u[k] /\ s \in Seq(S) /\ Len(s) = k
    BY <2>3
  <2>5. Append(s, e)[k + 1] = e /\ \A j \in 1..k : Append(s, e)[j] = s[j]
    BY <2>4
  <2> QED BY <2>2, <2>4, <2>5
<1> DEFINE C == {m \in Nat : i + m <= n => \A j \in 1..i : u[i + m][j] = u[i][j]}
<1>12. 0 \in C
  BY <1>1
<1>13. \A m \in Nat : m \in C => m + 1 \in C
  <2> SUFFICES ASSUME NEW m \in Nat, m \in C, i + (m + 1) <= n, NEW j \in 1..i
               PROVE  u[i + (m + 1)][j] = u[i][j]
    OBVIOUS
  <2>1. i + m \in Nat /\ (i + m) + 1 <= n /\ i + (m + 1) = (i + m) + 1 /\ j \in 1..(i + m) /\ i + m <= n
    BY <1>1
  <2>2. u[(i + m) + 1][j] = u[i + m][j]
    BY <1>11, <2>1
  <2> QED BY <2>1, <2>2
<1>14. Nat \subseteq C
  <2> HIDE DEF C
  <2> QED BY <1>12, <1>13, NatSetInduction
<1>15. \A j \in 1..i : u[n][j] = u[i][j]
  <2>1. n - i \in Nat /\ i + (n - i) = n /\ i + (n - i) <= n
    BY <1>1
  <2>2. n - i \in C
    <3> HIDE DEF C
    <3> QED BY <1>14, <2>1
  <2> QED BY <2>1, <2>2
<1>16. i - 1 \in Nat /\ (i - 1) + 1 = i /\ i <= n /\ i \in 1..i /\ 1..(i - 1) \subseteq 1..i
  BY <1>1
<1>17. u[i][i] = ap(u[i - 1], i) /\ \A j \in 1..(i - 1) : u[i][j] = u[i - 1][j]
  <2>1. u[(i - 1) + 1][(i - 1) + 1] = ap(u[i - 1], (i - 1) + 1) /\ \A j \in 1..(i - 1) : u[(i - 1) + 1][j] = u[i - 1][j]
    BY <1>11, <1>16
  <2> QED BY <1>16, <2>1
<1>18. Settled(signal, v)[i] = ap(u[i - 1], i) /\ \A j \in 1..(i - 1) : u[i - 1][j] = Settled(signal, v)[j]
  BY <1>6, <1>15, <1>16, <1>17
<1> QED BY <1>18 DEF ap

LEMMA CombIs ==
  ASSUME net \in Nets, NEW i \in Comb
  PROVE  /\ i \in Nodes /\ i \notin Inputs /\ i \notin Regs
         /\ Node[i].w \in Nat \ {0}
         /\ StatementOK(Node[i], i, Len(Node))
         /\ \A k \in DOMAIN Node[i].ops : OperandOK(Node[i].ops[k], i - 1)
         /\ Node[i].k \in {"two", "one", "red", "sel", "cat", "ite", "case"}
         /\ \E n \in Nat \ {0} : DOMAIN Node[i].ops = 1..n
<1>1. i \in Nodes /\ i \notin Inputs /\ i \notin Regs
  BY DEF Comb
<1>2. Node[i].k # "in" /\ Node[i].k # "reg"
  BY <1>1 DEF Inputs, Regs, Kind
<1>3. StatementOK(Node[i], i, Len(Node))
  BY <1>1, NetIs
<1>4. /\ Node[i].w \in Nat \ {0}
      /\ \A k \in DOMAIN Node[i].ops : OperandOK(Node[i].ops[k], i - 1)
      /\ Node[i].k \in {"two", "one", "red", "sel", "cat", "ite", "case"}
  BY <1>2, <1>3 DEF StatementOK
<1>5. \E n \in Nat \ {0} : DOMAIN Node[i].ops = 1..n
  <2>1. \/ DOMAIN Node[i].ops = 1..1 \/ DOMAIN Node[i].ops = 1..2 \/ DOMAIN Node[i].ops = 1..3
        \/ Len(Node[i].ops) \in Nat \ {0} /\ DOMAIN Node[i].ops = 1..Len(Node[i].ops)
    BY <1>2, <1>3 DEF StatementOK
  <2>2. 1 \in Nat \ {0} /\ 2 \in Nat \ {0} /\ 3 \in Nat \ {0}
    OBVIOUS
  <2>3. PICK len : len = Len(Node[i].ops)
    OBVIOUS
  <2> QED BY <2>1, <2>2, <2>3, Zenon
<1> QED BY <1>1, <1>3, <1>4, <1>5

LEMMA GetAgrees ==
  ASSUME NEW i \in Nat, NEW f, NEW g, \A j \in 1..(i - 1) : f[j] = g[j], NEW o, OperandOK(o, i - 1)
  PROVE  Get(f, o) = Get(g, o) /\ \A v : View(o, v, f, NoSigs) = View(o, v, g, NoSigs)
<1>1. o.n # 0 => f[o.n] = g[o.n]
  BY DEF OperandOK
<1> QED BY <1>1 DEF Get, View

LEMMA ViewsAgree ==
  ASSUME net \in Nets, NEW i \in Comb, NEW f, NEW g, \A j \in 1..(i - 1) : f[j] = g[j], NEW v
  PROVE  /\ Views(i, v, f, NoSigs) = Views(i, v, g, NoSigs)
         /\ [k \in DOMAIN Node[i].ops |-> Get(f, Node[i].ops[k])] = [k \in DOMAIN Node[i].ops |-> Get(g, Node[i].ops[k])]
<1>1. i \in Nat /\ \A k \in DOMAIN Node[i].ops : OperandOK(Node[i].ops[k], i - 1)
  BY CombIs, NetIs
<1>2. \A k \in DOMAIN Node[i].ops : /\ Get(f, Node[i].ops[k]) = Get(g, Node[i].ops[k])
                                    /\ View(Node[i].ops[k], v, f, NoSigs) = View(Node[i].ops[k], v, g, NoSigs)
  BY <1>1, GetAgrees
<1> QED BY <1>2 DEF Views

LEMMA ValueIs ==
  ASSUME net \in Nets, NEW i \in Comb
  PROVE  Value[i] = Apply(Node[i], [k \in DOMAIN Node[i].ops |-> Get(Value, Node[i].ops[k])])
<1>1. i \in Nodes /\ i \notin Inputs /\ i \notin Regs
  BY CombIs
<1>2. PICK f : Value[i] = At("value", <<>>, f, i) /\ \A j \in 1..(i - 1) : f[j] = Value[j]
  BY <1>1, SettledIs DEF Value
<1>3. At("value", <<>>, f, i) = ValueAt(f, i)
  BY DEF At
<1>4. ValueAt(f, i) = Apply(Node[i], [k \in DOMAIN Node[i].ops |-> Get(f, Node[i].ops[k])])
  BY <1>1 DEF ValueAt
<1>5. [k \in DOMAIN Node[i].ops |-> Get(f, Node[i].ops[k])] = [k \in DOMAIN Node[i].ops |-> Get(Value, Node[i].ops[k])]
  BY <1>2, ViewsAgree
<1> QED BY <1>2, <1>3, <1>4, <1>5

LEMMA TaintIs ==
  ASSUME net \in Nets, NEW v, NEW i \in Nodes
  PROVE  /\ i \in Inputs => TaintOf(v)[i] = inT[i]
         /\ i \in Regs => TaintOf(v)[i] = t[i]
         /\ i \in Comb => TaintOf(v)[i] = LiveT(Node[i], Views(i, v, TaintOf(v), NoSigs))
<1>1. PICK f : TaintOf(v)[i] = At("taint", v, f, i) /\ \A j \in 1..(i - 1) : f[j] = TaintOf(v)[j]
  BY SettledIs DEF TaintOf
<1>2. TaintOf(v)[i] = TaintAt(v, f, i)
  BY <1>1 DEF At
<1>3. Inputs \cap Regs = {} /\ Comb \cap Inputs = {} /\ Comb \cap Regs = {}
  BY DEF Comb, Inputs, Regs, Kind
<1>4. CASE i \in Comb
  <2>1. Views(i, v, f, NoSigs) = Views(i, v, TaintOf(v), NoSigs)
    BY <1>1, <1>4, ViewsAgree
  <2>2. TaintAt(v, f, i) = LiveT(Node[i], Views(i, v, f, NoSigs))
    BY <1>3, <1>4 DEF TaintAt
  <2> QED BY <1>2, <1>3, <1>4, <2>1, <2>2
<1>5. CASE i \notin Comb
  BY <1>2, <1>3, <1>5 DEF TaintAt
<1> QED BY <1>4, <1>5

LEMMA WriteTaintIs ==
  ASSUME net \in Nets, NEW v, NEW i \in Nodes
  PROVE  /\ i \in Inputs => WriteTaintOf(v)[i] = inT[i]
         /\ i \in Regs => WriteTaintOf(v)[i] = WRegT(tz[i], net.regsel = i, val[i] = Node[i].rst)
         /\ i \in Comb => WriteTaintOf(v)[i] = WriteT(Node[i], Views(i, v, WriteTaintOf(v), NoSigs))
<1>1. PICK f : WriteTaintOf(v)[i] = At("write", v, f, i) /\ \A j \in 1..(i - 1) : f[j] = WriteTaintOf(v)[j]
  BY SettledIs DEF WriteTaintOf
<1>2. WriteTaintOf(v)[i] = WriteTaintAt(v, f, i)
  BY <1>1 DEF At
<1>3. Inputs \cap Regs = {} /\ Comb \cap Inputs = {} /\ Comb \cap Regs = {}
  BY DEF Comb, Inputs, Regs, Kind
<1>4. CASE i \in Comb
  <2>1. Views(i, v, f, NoSigs) = Views(i, v, WriteTaintOf(v), NoSigs)
    BY <1>1, <1>4, ViewsAgree
  <2>2. WriteTaintAt(v, f, i) = WriteT(Node[i], Views(i, v, f, NoSigs))
    BY <1>3, <1>4 DEF WriteTaintAt
  <2> QED BY <1>2, <1>3, <1>4, <2>1, <2>2
<1>5. CASE i \notin Comb
  BY <1>2, <1>3, <1>5 DEF WriteTaintAt
<1> QED BY <1>4, <1>5

\* An operand of a statement: as wide as it says, and a literal untainted.
LEMMA ViewIs ==
  ASSUME NEW n \in Nat, NEW o, OperandOK(o, n), NEW v, NEW f, NEW g
  PROVE  LET x == View(o, v, f, NoSigs)
             z == View(o, v, g, NoSigs)
         IN /\ Width(o) \in Nat \ {0}
            /\ x.num \in BOOLEAN /\ (x.num <=> o.n = 0) /\ z.num = x.num
            /\ x.v = Get(v, o) /\ z.v = x.v /\ x.v \in Seq(BOOLEAN) /\ Len(x.v) = Width(o)
            /\ x.t \in Seq(BOOLEAN) /\ Len(x.t) = Width(o)
            /\ x.num => x.t = Zeros(Len(x.v))
            /\ o.n # 0 => x.t = Get(f, o)
            /\ (o.n # 0 => Covers(f[o.n], g[o.n])) => Covers(x.t, z.t)
<1> DEFINE x == View(o, v, f, NoSigs)
           z == View(o, v, g, NoSigs)
<1>1. Width(o) \in Nat \ {0} /\ o.hi - o.lo + 1 = Width(o)
  BY DEF OperandOK, Width
<1>2. x.num = (o.n = 0) /\ z.num = (o.n = 0) /\ x.v = Get(v, o) /\ z.v = Get(v, o)
  BY DEF View
<1>3. CASE o.n = 0
  <2>1. o.val \in Seq(BOOLEAN) /\ Len(o.val) = Width(o)
    BY <1>1, <1>3, WordSeq DEF OperandOK
  <2>2. x.v = o.val
    BY <1>2, <1>3 DEF Get
  <2>3. x.t = Zeros(Width(o)) /\ z.t = Zeros(Width(o))
    BY <1>3, <2>1 DEF View
  <2>4. Zeros(Width(o)) \in Seq(BOOLEAN) /\ Len(Zeros(Width(o))) = Width(o)
    BY <1>1, ZerosAre
  <2>5. Covers(x.t, z.t)
    BY <2>3, <2>4, SelfCovers
  <2> QED BY <1>1, <1>2, <1>3, <2>1, <2>2, <2>3, <2>4, <2>5
<1>4. CASE o.n # 0
  <2>1. x.v = Part(v[o.n], o.hi, o.lo) /\ x.t = Part(f[o.n], o.hi, o.lo) /\ z.t = Part(g[o.n], o.hi, o.lo)
        /\ x.t = Get(f, o)
    BY <1>2, <1>4 DEF Get, View
  <2>2. Part(v[o.n], o.hi, o.lo) \in Seq(BOOLEAN) /\ Len(Part(v[o.n], o.hi, o.lo)) = Width(o)
    BY <1>1, PartIs
  <2>3. Part(f[o.n], o.hi, o.lo) \in Seq(BOOLEAN) /\ Len(Part(f[o.n], o.hi, o.lo)) = Width(o)
    BY <1>1, PartIs
  <2>4. Covers(f[o.n], g[o.n]) => Covers(x.t, z.t)
    BY <1>1, <2>1, PartCovers
  <2> QED BY <1>1, <1>2, <1>4, <2>1, <2>2, <2>3, <2>4
<1> QED BY <1>3, <1>4

LEMMA StatementCovers ==
  ASSUME net \in Nets, NEW i \in Comb, NEW v, NEW f, NEW g,
         \A k \in DOMAIN Node[i].ops : Node[i].ops[k].n # 0 => Covers(f[Node[i].ops[k].n], g[Node[i].ops[k].n])
  PROVE  Covers(LiveT(Node[i], Views(i, v, f, NoSigs)), WriteT(Node[i], Views(i, v, g, NoSigs)))
<1> DEFINE nd == Node[i]
           x == Views(i, v, f, NoSigs)
           z == Views(i, v, g, NoSigs)
<1>1. /\ nd.w \in Nat \ {0} /\ i - 1 \in Nat
      /\ \A k \in DOMAIN nd.ops : OperandOK(nd.ops[k], i - 1)
      /\ nd.k \in {"two", "one", "red", "sel", "cat", "ite", "case"}
      /\ DOMAIN x = DOMAIN nd.ops /\ DOMAIN z = DOMAIN nd.ops
  BY CombIs, NetIs DEF Views
<1>2. PICK n \in Nat \ {0} : DOMAIN nd.ops = 1..n
  BY CombIs
<1>3. \A k \in DOMAIN nd.ops : Above(x[k], z[k]) /\ (x[k].num => x[k].t = Zeros(Len(x[k].v)))
  <2> SUFFICES ASSUME NEW k \in DOMAIN nd.ops
               PROVE  Above(x[k], z[k]) /\ (x[k].num => x[k].t = Zeros(Len(x[k].v)))
    OBVIOUS
  <2>1. PICK o : o = nd.ops[k]
    OBVIOUS
  <2>2. OperandOK(o, i - 1) /\ (o.n # 0 => Covers(f[o.n], g[o.n]))
    BY <1>1, <2>1
  <2>3. x[k] = View(o, v, f, NoSigs) /\ z[k] = View(o, v, g, NoSigs)
    BY <2>1 DEF Views
  <2>4. PICK a, b : a = View(o, v, f, NoSigs) /\ b = View(o, v, g, NoSigs)
    OBVIOUS
  <2>5. /\ a.num \in BOOLEAN /\ b.num = a.num /\ b.v = a.v /\ a.v \in Seq(BOOLEAN) /\ Len(a.v) = Width(o)
        /\ Len(a.t) = Width(o) /\ Covers(a.t, b.t) /\ (a.num => a.t = Zeros(Len(a.v)))
    BY <1>1, <2>2, <2>4, ViewIs
  <2> QED BY <2>3, <2>4, <2>5 DEF Above
<1>4. StatementOK(nd, i, Len(Node))
  BY CombIs
<1> SUFFICES Covers(LiveT(nd, x), WriteT(nd, z))
  OBVIOUS
<1> HIDE DEF x, z, nd
<1>5. CASE nd.k = "two"
  <2>1. LiveT(nd, x) = TwoOpT(nd.op, nd.w, x[1], x[2]) /\ WriteT(nd, z) = WTwoOpT(nd.op, nd.w, z[1], z[2])
    BY <1>5 DEF LiveT, WriteT
  <2>2. 1 \in DOMAIN nd.ops /\ 2 \in DOMAIN nd.ops
    BY <1>4, <1>5 DEF StatementOK
  <2>3. Above(x[1], z[1]) /\ Above(x[2], z[2])
    BY <1>3, <2>2
  <2>4. Covers(TwoOpT(nd.op, nd.w, x[1], x[2]), WTwoOpT(nd.op, nd.w, z[1], z[2]))
    BY <1>1, <2>3, TwoOpCovers
  <2> QED BY <2>1, <2>4
<1>6. CASE nd.k = "one"
  <2>1. LiveT(nd, x) = OneOpT(nd.w, x[1]) /\ WriteT(nd, z) = WOneOpT(nd.w, z[1])
    BY <1>6 DEF LiveT, WriteT
  <2>0. DOMAIN nd.ops = 1..1
    BY <1>4, <1>6 DEF StatementOK
  <2>2. 1 \in DOMAIN nd.ops
    BY <2>0
  <2>3. Above(x[1], z[1])
    BY <1>3, <2>2
  <2>4. Covers(OneOpT(nd.w, x[1]), WOneOpT(nd.w, z[1]))
    BY <1>1, <2>3, OneOpCovers
  <2> QED BY <2>1, <2>4
<1>7. CASE nd.k = "red"
  <2>1. LiveT(nd, x) = ReduceT(x[1]) /\ WriteT(nd, z) = WReduceT(z[1])
    BY <1>7 DEF LiveT, WriteT
  <2>2. 1 \in DOMAIN nd.ops
    BY <1>4, <1>7 DEF StatementOK
  <2>3. Above(x[1], z[1])
    BY <1>3, <2>2
  <2>4. Covers(ReduceT(x[1]), WReduceT(z[1]))
    BY <1>1, <2>3, ReduceCovers
  <2> QED BY <2>1, <2>4
<1>8. CASE nd.k = "sel"
  <2>1. LiveT(nd, x) = SelT(nd.w, x[1], x[2]) /\ WriteT(nd, z) = WSelT(nd.w, z[1], z[2])
    BY <1>8 DEF LiveT, WriteT
  <2>2. 1 \in DOMAIN nd.ops /\ 2 \in DOMAIN nd.ops
    BY <1>4, <1>8 DEF StatementOK
  <2>3. Above(x[1], z[1]) /\ Above(x[2], z[2]) /\ (x[2].num => x[2].t = Zeros(Len(x[2].v)))
    BY <1>3, <2>2
  <2>4. Covers(SelT(nd.w, x[1], x[2]), WSelT(nd.w, z[1], z[2]))
    BY <1>1, <2>3, SelCovers
  <2> QED BY <2>1, <2>4
<1>9. CASE nd.k = "cat"
  <2>1. LiveT(nd, x) = ConcatT(x) /\ WriteT(nd, z) = WConcatT(z)
    BY <1>9 DEF LiveT, WriteT
  <2>4. Covers(ConcatT(x), WConcatT(z))
    BY <1>1, <1>2, <1>3, CatCovers
  <2> QED BY <2>1, <2>4
<1>10. CASE nd.k = "ite"
  <2>1. LiveT(nd, x) = IteT(nd.w, x[1], x[2], x[3]) /\ WriteT(nd, z) = WIteT(nd.w, z[1], z[2], z[3])
    BY <1>10 DEF LiveT, WriteT
  <2>2. 1 \in DOMAIN nd.ops /\ 2 \in DOMAIN nd.ops /\ 3 \in DOMAIN nd.ops
    BY <1>4, <1>10 DEF StatementOK
  <2>3. Above(x[1], z[1]) /\ Above(x[2], z[2]) /\ Above(x[3], z[3])
    BY <1>3, <2>2
  <2>4. Covers(IteT(nd.w, x[1], x[2], x[3]), WIteT(nd.w, z[1], z[2], z[3]))
    BY <1>1, <2>3, IteCovers
  <2> QED BY <2>1, <2>4
<1>11. CASE nd.k = "case"
  <2>1. LiveT(nd, x) = CaseT(nd.w, x[1], x[2], x[3]) /\ WriteT(nd, z) = WCaseT(nd.w, z[1], z[2], z[3])
    BY <1>11 DEF LiveT, WriteT
  <2>2. 1 \in DOMAIN nd.ops /\ 2 \in DOMAIN nd.ops /\ 3 \in DOMAIN nd.ops
    BY <1>4, <1>11 DEF StatementOK
  <2>3. Above(x[1], z[1]) /\ Above(x[2], z[2]) /\ Above(x[3], z[3])
    BY <1>3, <2>2
  <2>4. Covers(CaseT(nd.w, x[1], x[2], x[3]), WCaseT(nd.w, z[1], z[2], z[3]))
    BY <1>1, <2>3, CaseCovers
  <2> QED BY <2>1, <2>4
<1>12. \/ nd.k = "two" \/ nd.k = "one" \/ nd.k = "red" \/ nd.k = "sel" \/ nd.k = "cat" \/ nd.k = "ite" \/ nd.k = "case"
  BY <1>1
<1> QED BY <1>5, <1>6, <1>7, <1>8, <1>9, <1>10, <1>11, <1>12

\* What the registers hold between edges: a design that is one of those
\* given, and in write_taint at least the taint of live_analysis.
TaintInv ==
  /\ net \in Nets
  /\ inT \in [Inputs -> Seq(BOOLEAN)]
  /\ \A q \in Regs : Covers(t[q], tz[q])

LEMMA RegCovers ==
  ASSUME NEW a, NEW c, Covers(a, c), NEW p \in BOOLEAN, NEW q \in BOOLEAN
  PROVE  Covers(a, WRegT(c, p, q))
<1>1. a \in Seq(BOOLEAN) /\ c \in Seq(BOOLEAN) /\ Len(c) = Len(a) /\ Len(c) \in Nat /\ \A b \in 1..Len(a) : a[b] => c[b]
  BY DEF Covers
<1>2. PICK r \in BOOLEAN : r = (p /\ ~q)
  OBVIOUS
<1>3. Fill(Len(c), r) \in Seq(BOOLEAN) /\ Len(Fill(Len(c), r)) = Len(c)
  BY <1>1, FillIs
<1>4. Widest(c, Fill(Len(c), r)) = Len(c)
  BY <1>1, <1>3 DEF Widest
<1>5. /\ BitOr(c, Fill(Len(c), r)) \in Seq(BOOLEAN) /\ Len(BitOr(c, Fill(Len(c), r))) = Len(c)
      /\ \A b \in 1..Len(c) : BitOr(c, Fill(Len(c), r))[b] <=> Bit(c, b) \/ Bit(Fill(Len(c), r), b)
  BY <1>1, <1>3, <1>4, OrIs
<1>6. WRegT(c, p, q) = BitOr(c, Fill(Len(c), r))
  BY <1>2 DEF WRegT
<1>7. \A b \in 1..Len(a) : a[b] => Bit(c, b)
  BY <1>1 DEF Bit
<1> QED BY <1>1, <1>5, <1>6, <1>7 DEF Covers

LEMMA WiresCovered ==
  ASSUME TaintInv, NEW v, NEW i \in Nodes
  PROVE  Covers(TaintOf(v)[i], WriteTaintOf(v)[i])
<1> DEFINE Ok(j) == Covers(TaintOf(v)[j], WriteTaintOf(v)[j])
           A == {m \in Nat : \A j \in Nodes : j <= m => Ok(j)}
<1>1. net \in Nets
  BY DEF TaintInv
<1>2. Nodes = 1..Len(Node) /\ Len(Node) \in Nat
  BY <1>1, NetIs
<1>3. 0 \in A
  BY <1>2
<1>4. \A m \in Nat : m \in A => m + 1 \in A
  <2> SUFFICES ASSUME NEW m \in Nat, \A j \in Nodes : j <= m => Ok(j), NEW j \in Nodes, j = m + 1 PROVE Ok(j)
    <3>1. \A m \in Nat : \A j \in Nodes : j <= m + 1 <=> j <= m \/ j = m + 1
      BY <1>2
    <3> HIDE DEF Ok
    <3> QED BY <3>1
  <2>1. CASE j \in Inputs
    <3>1. TaintOf(v)[j] = inT[j] /\ WriteTaintOf(v)[j] = inT[j]
      BY <1>1, <2>1, TaintIs, WriteTaintIs
    <3> QED BY <2>1, <3>1, SelfCovers DEF TaintInv
  <2>2. CASE j \in Regs
    <3>1. TaintOf(v)[j] = t[j] /\ WriteTaintOf(v)[j] = WRegT(tz[j], net.regsel = j, val[j] = Node[j].rst)
      BY <1>1, <2>2, TaintIs, WriteTaintIs
    <3>2. PICK p \in BOOLEAN, q \in BOOLEAN : p = (net.regsel = j) /\ q = (val[j] = Node[j].rst)
      OBVIOUS
    <3>3. Covers(t[j], WRegT(tz[j], p, q))
      BY <2>2, RegCovers DEF TaintInv
    <3> QED BY <3>1, <3>2, <3>3
  <2>3. CASE j \in Comb
    <3>1. /\ TaintOf(v)[j] = LiveT(Node[j], Views(j, v, TaintOf(v), NoSigs))
          /\ WriteTaintOf(v)[j] = WriteT(Node[j], Views(j, v, WriteTaintOf(v), NoSigs))
      BY <1>1, <2>3, TaintIs, WriteTaintIs
    <3>2. \A k \in DOMAIN Node[j].ops : OperandOK(Node[j].ops[k], j - 1)
      BY <1>1, <2>3, CombIs
    <3>3. \A k \in DOMAIN Node[j].ops : Node[j].ops[k].n # 0 => Node[j].ops[k].n \in Nodes /\ Node[j].ops[k].n <= m
      BY <1>2, <3>2 DEF OperandOK
    <3>4. \A k \in DOMAIN Node[j].ops : Node[j].ops[k].n # 0
            => Covers(TaintOf(v)[Node[j].ops[k].n], WriteTaintOf(v)[Node[j].ops[k].n])
      BY <3>3
    <3> QED BY <1>1, <2>3, <3>1, <3>4, StatementCovers
  <2> QED BY <2>1, <2>2, <2>3 DEF Comb
<1>5. Nat \subseteq A
  <2> HIDE DEF A
  <2> QED BY <1>3, <1>4, NatSetInduction
<1>6. i \in Nat /\ i <= i
  BY <1>2
<1>7. i \in A
  <2> HIDE DEF A
  <2> QED BY <1>5, <1>6
<1> QED BY <1>6, <1>7
LEMMA TaintInvInit == Init => TaintInv
<1> SUFFICES ASSUME Init PROVE TaintInv
  OBVIOUS
<1>1. net \in Nets /\ inT = [i \in Inputs |-> Zeros(Node[i].w)] /\ tz = t /\ t = [i \in Regs |-> Zeros(Node[i].w)]
  BY DEF Init
<1>2. \A i \in Nodes : Node[i].w \in Nat
  BY <1>1, NetIs DEF StatementOK
<1>3. inT \in [Inputs -> Seq(BOOLEAN)]
  <2>1. \A i \in Inputs : Zeros(Node[i].w) \in Seq(BOOLEAN)
    BY <1>2, ZerosAre DEF Inputs, Kind
  <2> QED BY <1>1, <2>1
<1>4. \A q \in Regs : Covers(t[q], tz[q])
  <2> SUFFICES ASSUME NEW q \in Regs PROVE Covers(t[q], tz[q])
    OBVIOUS
  <2>1. t[q] = Zeros(Node[q].w) /\ tz[q] = t[q]
    BY <1>1
  <2>2. Zeros(Node[q].w) \in Seq(BOOLEAN)
    BY <1>2, ZerosAre DEF Regs, Kind
  <2> QED BY <2>1, <2>2, SelfCovers
<1> QED BY <1>1, <1>3, <1>4 DEF TaintInv

LEMMA SameNet ==
  ASSUME UNCHANGED net
  PROVE  Node' = Node /\ Nodes' = Nodes /\ Inputs' = Inputs /\ Regs' = Regs /\ Comb' = Comb
BY DEF Node, Nodes, Inputs, Regs, Comb, Kind

\* What a clock edge loads, in the two instrumentations.
LEMMA ClockCovers ==
  ASSUME TaintInv, NEW q \in Regs, NEW v, NEW rst \in BOOLEAN, NEW keep \in BOOLEAN
  PROVE  LET Whole(f) == IF Src(q).n # 0 THEN f[Src(q).n] ELSE <<>>
         IN Covers(NonblockT(Node[q].w, rst, Whole(TaintOf(v)), keep),
                   WNonblockTz(Node[q].w, rst, Whole(WriteTaintOf(v))))
<1>1. net \in Nets /\ q \in Nodes /\ Nodes = 1..Len(Node) /\ Len(Node) \in Nat
  BY NetIs DEF TaintInv, Regs, Kind
<1>2. PICK w \in Nat : w = Node[q].w
  BY <1>1, NetIs DEF StatementOK
<1>3. OperandOK(Src(q), Len(Node))
  <2>1. StatementOK(Node[q], q, Len(Node)) /\ Node[q].k = "reg"
    BY <1>1, NetIs DEF TaintInv, Regs, Kind
  <2>2. DOMAIN Node[q].ops = 1..1
    BY <2>1, SMTT(30) DEF StatementOK
  <2>3. \A k \in DOMAIN Node[q].ops : OperandOK(Node[q].ops[k], Len(Node))
    BY <2>1 DEF StatementOK
  <2> QED BY <2>2, <2>3 DEF Src
<1>4. PICK a, c : /\ a = (IF Src(q).n # 0 THEN TaintOf(v)[Src(q).n] ELSE <<>>)
                  /\ c = (IF Src(q).n # 0 THEN WriteTaintOf(v)[Src(q).n] ELSE <<>>)
  OBVIOUS
<1>5. Covers(a, c)
  <2>1. CASE Src(q).n = 0
    <3>1. a = <<>> /\ c = <<>> /\ <<>> \in Seq(BOOLEAN)
      BY <1>4, <2>1
    <3> QED BY <3>1, SelfCovers
  <2>2. CASE Src(q).n # 0
    <3>1. Src(q).n \in Nodes
      BY <1>1, <1>3, <2>2 DEF OperandOK
    <3>2. Covers(TaintOf(v)[Src(q).n], WriteTaintOf(v)[Src(q).n])
      BY <3>1, WiresCovered
    <3> QED BY <1>4, <2>2, <3>2
  <2> QED BY <2>1, <2>2
<1>6. Covers(NonblockT(w, rst, a, keep), WNonblockTz(w, rst, c))
  <2>1. CASE rst
    <3>1. NonblockT(w, rst, a, keep) = Zeros(w) /\ WNonblockTz(w, rst, c) = Zeros(w) /\ Zeros(w) \in Seq(BOOLEAN)
      BY <2>1, ZerosAre DEF NonblockT, WNonblockTz
    <3> QED BY <3>1, SelfCovers
  <2>2. CASE ~rst
    <3>1. NonblockT(w, rst, a, keep) = BitAnd(Fit(a, w), Fill(w, ~keep)) /\ WNonblockTz(w, rst, c) = Fit(c, w)
      BY <2>2 DEF NonblockT, WNonblockTz
    <3>2. PICK p, r, m : p = Fit(a, w) /\ r = Fit(c, w) /\ m = Fill(w, ~keep)
      OBVIOUS
    <3>3. Covers(p, r)
      BY <1>5, <3>2, FitCovers
    <3>4. p \in Seq(BOOLEAN) /\ Len(p) = w /\ m \in Seq(BOOLEAN) /\ Len(m) = w
      BY <1>5, <3>2, FitIs, FillIs DEF Covers
    <3>5. Widest(p, m) = w
      BY <3>4 DEF Widest
    <3>6. /\ BitAnd(p, m) \in Seq(BOOLEAN) /\ Len(BitAnd(p, m)) = w
          /\ \A b \in 1..w : BitAnd(p, m)[b] => Bit(p, b)
      BY <3>4, <3>5, AndIs
    <3>7. \A b \in 1..w : BitAnd(p, m)[b] => p[b]
      BY <3>6 DEF Bit
    <3>8. Covers(BitAnd(p, m), r)
      BY <3>3, <3>4, <3>6, <3>7 DEF Covers
    <3> QED BY <3>1, <3>2, <3>8
  <2> QED BY <2>1, <2>2
<1> QED BY <1>2, <1>4, <1>6

LEMMA TaintInvStep == TaintInv /\ [Next]_vars => TaintInv'
<1> SUFFICES ASSUME TaintInv, [Next]_vars PROVE TaintInv'
  OBVIOUS
<1>1. net' = net
  BY DEF Next, Drive, TaintInput, AskOutput, Clock, vars
<1>2. net' \in Nets /\ Regs' = Regs /\ Inputs' = Inputs
  BY <1>1, SameNet DEF TaintInv
<1>3. CASE inT' = inT /\ t' = t /\ tz' = tz
  BY <1>2, <1>3 DEF TaintInv
<1>4. ASSUME NEW i \in Inputs, TaintInput(i) PROVE TaintInv'
  <2>1. PICK x \in InputTaints(i) : inT' = [inT EXCEPT ![i] = x]
    BY <1>4 DEF TaintInput
  <2>2. Node[i].w \in Nat
    BY NetIs DEF TaintInv, StatementOK, Inputs, Kind
  <2>3. \A b \in BOOLEAN : Fill(Node[i].w, b) \in Seq(BOOLEAN)
    BY <2>2, FillIs
  <2>4. Words(Node[i].w) \subseteq Seq(BOOLEAN)
    BY <2>2, WordSeq
  <2>5. x \in Seq(BOOLEAN)
    BY <2>3, <2>4 DEF InputTaints
  <2>6. inT' \in [Inputs -> Seq(BOOLEAN)]
    BY <2>1, <2>5 DEF TaintInv
  <2>7. t' = t /\ tz' = tz
    BY <1>4 DEF TaintInput
  <2> QED BY <1>2, <2>6, <2>7 DEF TaintInv
<1>5. ASSUME NEW rst \in BOOLEAN, Clock(rst) PROVE TaintInv'
  <2>1. inT' = inT
    BY <1>5 DEF Clock
  <2>2. \A q \in Regs : Covers(t'[q], tz'[q])
    <3> SUFFICES ASSUME NEW q \in Regs PROVE Covers(t'[q], tz'[q])
      OBVIOUS
    <3>0. (q \in Keeps(SigsOf(Value))) \in BOOLEAN
      BY SMT
    <3>1. PICK keep \in BOOLEAN : keep = (q \in Keeps(SigsOf(Value)))
      BY <3>0
    <3>2. PICK a, c : /\ a = (IF Src(q).n # 0 THEN TaintOf(Value)[Src(q).n] ELSE <<>>)
                      /\ c = (IF Src(q).n # 0 THEN WriteTaintOf(Value)[Src(q).n] ELSE <<>>)
      OBVIOUS
    <3>3. t'[q] = NonblockT(Node[q].w, rst, a, keep) /\ tz'[q] = WNonblockTz(Node[q].w, rst, c)
      BY <1>5, <3>1, <3>2 DEF Clock
    <3>4. Covers(NonblockT(Node[q].w, rst, IF Src(q).n # 0 THEN TaintOf(Value)[Src(q).n] ELSE <<>>, keep),
                 WNonblockTz(Node[q].w, rst, IF Src(q).n # 0 THEN WriteTaintOf(Value)[Src(q).n] ELSE <<>>))
      BY ClockCovers
    <3>5. Covers(NonblockT(Node[q].w, rst, a, keep), WNonblockTz(Node[q].w, rst, c))
      BY <3>2, <3>4
    <3> QED BY <3>3, <3>5
  <2> QED BY <1>2, <2>1, <2>2 DEF TaintInv
<1>6. CASE UNCHANGED vars
  BY <1>3, <1>6 DEF vars
<1>7. ASSUME NEW i \in Inputs, Drive(i) PROVE TaintInv'
  BY <1>3, <1>7 DEF Drive
<1>8. ASSUME NEW i \in Tops, AskOutput(i) PROVE TaintInv'
  BY <1>3, <1>8 DEF AskOutput
<1> QED BY <1>4, <1>5, <1>6, <1>7, <1>8 DEF Next

LEMMA TaintInvAlways == Spec => []TaintInv
BY TaintInvInit, TaintInvStep, PTL DEF Spec

LEMMA CoveredNow == TaintInv => WriteCoversLive
<1> SUFFICES ASSUME TaintInv, NEW i \in Nodes, NEW b \in DOMAIN Taint[i], Taint[i][b]
             PROVE  WriteTaint[i][b]
  BY DEF WriteCoversLive
<1>1. Covers(Taint[i], WriteTaint[i])
  BY WiresCovered DEF Taint, WriteTaint
<1> QED BY <1>1 DEF Covers

\* What live_analysis takes as written, write_taint does: on every wire and in
\* every register of every design its taint covers that of live_analysis
\* (op_taint_gen.cpp of the two programs, rule against rule).
THEOREM TaintCovered == Spec => []WriteCoversLive
BY TaintInvAlways, CoveredNow, PTL
-----------------------------------------------------------------------------
(* The forward taint of one statement                                      *)

\* An operand of a statement, and a word that differs from it at most where
\* it is tainted.
Operand(x) ==
  /\ x.num \in BOOLEAN /\ x.v \in Seq(BOOLEAN) /\ x.t \in Seq(BOOLEAN)
  /\ Len(x.v) \in Nat \ {0} /\ Len(x.t) = Len(x.v)
  /\ x.num => x.t = Zeros(Len(x.v))

Differs(x, u) ==
  /\ u \in Seq(BOOLEAN) /\ Len(u) = Len(x.v)
  /\ \A b : ~Bit(x.t, b) => (Bit(u, b) <=> Bit(x.v, b))

LEMMA OperandAbove == ASSUME NEW x, Operand(x) PROVE Above(x, x)
BY SelfCovers DEF Operand, Above

LEMMA FillAny == ASSUME NEW w \in Nat \ {0}, NEW p \in BOOLEAN PROVE AnyBit(Fill(w, p)) <=> p
<1>1. Fill(w, p) \in Seq(BOOLEAN) /\ Len(Fill(w, p)) = w /\ \A b \in 1..w : Fill(w, p)[b] <=> p
  BY FillIs
<1>2. 1 \in 1..w
  OBVIOUS
<1> QED BY <1>1, <1>2, AnyBitIs

LEMMA FitQuiet ==
  ASSUME NEW w \in Nat, NEW z, ~AnyBit(Fit(z, w)), NEW b \in 1..w
  PROVE  ~Bit(z, b)
<1>1. Fit(z, w) \in Seq(BOOLEAN) /\ Len(Fit(z, w)) = w /\ \A c \in 1..w : Fit(z, w)[c] <=> Bit(z, c)
  BY FitIs
<1> QED BY <1>1, AnyBitIs

LEMMA OrBit ==
  ASSUME NEW x \in Seq(BOOLEAN), NEW y \in Seq(BOOLEAN), NEW b
  PROVE  Bit(BitOr(x, y), b) <=> Bit(x, b) \/ Bit(y, b)
<1>1. /\ BitOr(x, y) \in Seq(BOOLEAN) /\ Len(BitOr(x, y)) = Widest(x, y)
      /\ \A c \in 1..Widest(x, y) : BitOr(x, y)[c] <=> Bit(x, c) \/ Bit(y, c)
  BY OrIs
<1>2. Bit(BitOr(x, y), b) <=> b \in 1..Widest(x, y) /\ BitOr(x, y)[b]
  BY <1>1, BitIs
<1>3. Bit(x, b) \/ Bit(y, b) => b \in 1..Widest(x, y)
  <2>1. (Bit(x, b) => b \in 1..Len(x)) /\ (Bit(y, b) => b \in 1..Len(y))
    BY BitIs
  <2> QED BY <2>1, WidestIs
<1>4. CASE b \in 1..Widest(x, y)
  BY <1>1, <1>2, <1>4
<1> QED BY <1>2, <1>3, <1>4

LEMMA AndBit ==
  ASSUME NEW x \in Seq(BOOLEAN), NEW y \in Seq(BOOLEAN), NEW b
  PROVE  Bit(BitAnd(x, y), b) <=> Bit(x, b) /\ Bit(y, b)
<1>1. /\ BitAnd(x, y) \in Seq(BOOLEAN) /\ Len(BitAnd(x, y)) = Widest(x, y)
      /\ \A c \in 1..Widest(x, y) : BitAnd(x, y)[c] <=> Bit(x, c) /\ Bit(y, c)
  BY AndIs
<1>2. Bit(BitAnd(x, y), b) <=> b \in 1..Widest(x, y) /\ BitAnd(x, y)[b]
  BY <1>1, BitIs
<1>3. Bit(x, b) => b \in 1..Widest(x, y)
  <2>1. Bit(x, b) => b \in 1..Len(x)
    BY BitIs
  <2> QED BY <2>1, WidestIs
<1>4. CASE b \in 1..Widest(x, y)
  BY <1>1, <1>2, <1>4
<1> QED BY <1>2, <1>3, <1>4

LEMMA OrAny ==
  ASSUME NEW x \in Seq(BOOLEAN), NEW y \in Seq(BOOLEAN)
  PROVE  AnyBit(BitOr(x, y)) <=> AnyBit(x) \/ AnyBit(y)
<1>1. BitOr(x, y) \in Seq(BOOLEAN)
  BY OrIs
<1>2. \A z \in Seq(BOOLEAN) : AnyBit(z) <=> \E b : Bit(z, b)
  BY DEF AnyBit, Bit
<1>3. \A b : Bit(BitOr(x, y), b) <=> Bit(x, b) \/ Bit(y, b)
  BY OrBit
<1> QED BY <1>1, <1>2, <1>3

\* Where operand x of a two-operand statement lets nothing through.
Quiet(op, w, x, y) ==
  IF op \in ShiftOps \cup CompareOps THEN ~AnyBit(x.t)
  ELSE \A b \in 1..w : ~Bit(IF y.num THEN x.t ELSE Through(op, x, y), b)

LEMMA TwoQuiet ==
  ASSUME NEW op, NEW w \in Nat \ {0}, NEW x, Operand(x), NEW y, Operand(y), ~x.num,
         ~AnyBit(TwoOpT(op, w, x, y)) \/ ~AnyBit(TwoOpT(op, w, y, x))
  PROVE  Quiet(op, w, x, y)
<1>1. CASE op \in ShiftOps
  <2>1. PICK p \in BOOLEAN, q \in BOOLEAN : p = (AnyBit(x.t) \/ AnyBit(y.t)) /\ q = (AnyBit(y.t) \/ AnyBit(x.t))
    OBVIOUS
  <2>0. /\ TwoOpT(op, w, x, y) = Fill(w, AnyBit(x.t) \/ AnyBit(y.t))
        /\ TwoOpT(op, w, y, x) = Fill(w, AnyBit(y.t) \/ AnyBit(x.t))
    BY <1>1 DEF TwoOpT, ShiftOps, CompareOps
  <2>2. TwoOpT(op, w, x, y) = Fill(w, p) /\ TwoOpT(op, w, y, x) = Fill(w, q)
    BY <2>0, <2>1
  <2>3. (AnyBit(Fill(w, p)) <=> p) /\ (AnyBit(Fill(w, q)) <=> q)
    BY FillAny
  <2>4. ~p \/ ~q
    BY <2>2, <2>3
  <2>5. ~AnyBit(x.t)
    BY <2>1, <2>4
  <2> QED BY <1>1, <2>5 DEF Quiet
<1>2. CASE op \in CompareOps
  <2>1. PICK p \in BOOLEAN, q \in BOOLEAN : p = (AnyBit(x.t) \/ AnyBit(y.t)) /\ q = (AnyBit(y.t) \/ AnyBit(x.t))
    OBVIOUS
  <2>2. TwoOpT(op, w, x, y) = Fit(Truth(p), w) /\ TwoOpT(op, w, y, x) = Fit(Truth(q), w)
    BY <1>2, <2>1 DEF TwoOpT, CompareOps, ShiftOps
  <2>3. 1 \in 1..w /\ (Bit(Truth(p), 1) <=> p) /\ (Bit(Truth(q), 1) <=> q)
    BY TruthIs, BitIs
  <2>4. ~p \/ ~q
    BY <2>2, <2>3, FitQuiet
  <2>5. ~AnyBit(x.t)
    BY <2>1, <2>4
  <2> QED BY <1>2, <2>5 DEF Quiet
<1>3. CASE op \notin ShiftOps /\ op \notin CompareOps
  <2>1. CASE y.num
    <3>1. TwoOpT(op, w, x, y) = Fit(x.t, w) /\ TwoOpT(op, w, y, x) = Fit(x.t, w)
      BY <1>3, <2>1 DEF TwoOpT
    <3>2. \A b \in 1..w : ~Bit(x.t, b)
      BY <3>1, FitQuiet
    <3> QED BY <1>3, <2>1, <3>2 DEF Quiet
  <2>2. CASE ~y.num
    <3>1. PICK a, c : a = Through(op, x, y) /\ c = Through(op, y, x)
      OBVIOUS
    <3>2. a \in Seq(BOOLEAN) /\ c \in Seq(BOOLEAN)
      BY <3>1, OperandAbove, ThroughCovers DEF Covers
    <3>3. TwoOpT(op, w, x, y) = Fit(BitOr(a, c), w) /\ TwoOpT(op, w, y, x) = Fit(BitOr(c, a), w)
      BY <1>3, <2>2, <3>1 DEF TwoOpT
    <3>4. \A b \in 1..w : ~Bit(BitOr(a, c), b) \/ ~Bit(BitOr(c, a), b)
      BY <3>3, FitQuiet
    <3>5. \A b \in 1..w : ~Bit(a, b)
      BY <3>2, <3>4, OrBit
    <3> QED BY <1>3, <2>2, <3>1, <3>5 DEF Quiet
  <2> QED BY <2>1, <2>2
<1> QED BY <1>1, <1>2, <1>3

LEMMA ThroughBit ==
  ASSUME NEW op, NEW x, Operand(x), NEW y, Operand(y), NEW b \in Nat \ {0}
  PROVE  /\ op = "&" => (Bit(Through(op, x, y), b) <=> Bit(x.t, b) /\ Bit(y.v, b))
         /\ op = "|" => (Bit(Through(op, x, y), b) <=> Bit(x.t, b) /\ ~Bit(y.v, b))
<1>1. x.v \in Seq(BOOLEAN) /\ x.t \in Seq(BOOLEAN) /\ y.v \in Seq(BOOLEAN) /\ Len(x.t) = Len(x.v)
  BY DEF Operand
<1>2. CASE op = "&"
  <2>1. Through(op, x, y) = BitAnd(x.t, y.v)
    BY <1>2 DEF Through
  <2> QED BY <1>1, <1>2, <2>1, AndBit
<1>3. CASE op = "|"
  <2>1. PICK m \in Nat : m = Widest(x.v, y.v) /\ m >= Len(x.v) /\ m >= Len(y.v)
    BY <1>1, WidestIs
  <2>2. PICK z, u : z = Fit(y.v, m) /\ u = BitNot(z)
    OBVIOUS
  <2>3. z \in Seq(BOOLEAN) /\ Len(z) = m /\ \A c \in 1..m : z[c] <=> Bit(y.v, c)
    BY <2>2, FitIs
  <2>4. u \in Seq(BOOLEAN) /\ Len(u) = m /\ \A c \in 1..m : u[c] <=> ~z[c]
    BY <2>2, <2>3, NotIs
  <2>5. Through(op, x, y) = BitAnd(x.t, u)
    BY <1>3, <2>1, <2>2 DEF Through
  <2>6. Bit(Through(op, x, y), b) <=> Bit(x.t, b) /\ Bit(u, b)
    BY <1>1, <2>4, <2>5, AndBit
  <2>7. Bit(x.t, b) => b \in 1..m
    <3>1. Bit(x.t, b) => b \in 1..Len(x.t)
      BY <1>1, BitIs
    <3> QED BY <1>1, <2>1, <3>1
  <2>8. b \in 1..m => (Bit(u, b) <=> ~Bit(y.v, b))
    BY <2>3, <2>4, BitIs
  <2> QED BY <1>3, <2>6, <2>7, <2>8
<1>4. "&" # "|"
  OBVIOUS
<1> QED BY <1>2, <1>3, <1>4

LEMMA FitsEqual ==
  ASSUME NEW w \in Nat, NEW x, NEW y, \A b \in 1..w : Bit(x, b) <=> Bit(y, b)
  PROVE  Fit(x, w) = Fit(y, w)
<1>1. \A b \in 1..w : Bit(x, b) = Bit(y, b)
  BY DEF Bit
<1> QED BY <1>1 DEF Fit

LEMMA SameWord ==
  ASSUME NEW x, Operand(x), NEW u, Differs(x, u), ~AnyBit(x.t)
  PROVE  u = x.v
<1>1. x.v \in Seq(BOOLEAN) /\ x.t \in Seq(BOOLEAN) /\ u \in Seq(BOOLEAN) /\ Len(u) = Len(x.v)
  BY DEF Operand, Differs
<1>2. \A b : ~Bit(x.t, b)
  BY <1>1 DEF AnyBit, Bit
<1>3. \A b \in 1..Len(u) : u[b] <=> x.v[b]
  BY <1>1, <1>2, BitIs DEF Differs
<1>4. u \in Words(Len(u)) /\ x.v \in Words(Len(u)) /\ Len(u) \in Nat
  BY <1>1, SeqWord
<1> QED BY <1>3, <1>4, WordsEqual

LEMMA XorBit ==
  ASSUME NEW x \in Seq(BOOLEAN), NEW y \in Seq(BOOLEAN), NEW b
  PROVE  Bit(BitXor(x, y), b) <=> ~(Bit(x, b) <=> Bit(y, b))
<1>1. /\ BitXor(x, y) \in Seq(BOOLEAN) /\ Len(BitXor(x, y)) = Widest(x, y)
      /\ \A c \in 1..Widest(x, y) : BitXor(x, y)[c] <=> ~(Bit(x, c) <=> Bit(y, c))
  BY XorIs
<1>2. Bit(BitXor(x, y), b) <=> b \in 1..Widest(x, y) /\ BitXor(x, y)[b]
  BY <1>1, BitIs
<1>3. Bit(x, b) \/ Bit(y, b) => b \in 1..Widest(x, y)
  <2>1. (Bit(x, b) => b \in 1..Len(x)) /\ (Bit(y, b) => b \in 1..Len(y))
    BY BitIs
  <2> QED BY <2>1, WidestIs
<1>4. CASE b \in 1..Widest(x, y)
  BY <1>1, <1>2, <1>4
<1> QED BY <1>2, <1>3, <1>4

\* Sums: what the low bits of an operand do not change.
LEMMA SumSame ==
  ASSUME NEW op \in SumOps, NEW w \in Nat, NEW x \in Seq(BOOLEAN), NEW u \in Seq(BOOLEAN), NEW y \in Seq(BOOLEAN),
         \A b \in 1..w : Bit(u, b) <=> Bit(x, b)
  PROVE  /\ TwoOpValue(op, w, u, y) = TwoOpValue(op, w, x, y)
         /\ TwoOpValue(op, w, y, u) = TwoOpValue(op, w, y, x)
<1>1. Num(x) \in Nat /\ Num(u) \in Nat /\ Num(y) \in Nat
  BY SeqWord, NumType
<1>2. PICK a \in Int, c \in Int, d \in Int : a = Num(u) /\ c = Num(x) /\ d = Num(y)
  BY <1>1
<1>3. SameLow(a, c, w)
  BY <1>2, SeqWord, NumLow
<1>4. SameLow(a + d, c + d, w) /\ SameLow(a + (-d), c + (-d), w) /\ SameLow(a * d, c * d, w)
  <2>1. SameLow(a + d, c + d, w)
    BY <1>3, SameLowSum
  <2>2. \A e \in Int : SameLow(a + e, c + e, w)
    BY <1>3, SameLowSum
  <2>3. -d \in Int
    OBVIOUS
  <2>4. SameLow(a * d, c * d, w)
    BY <1>3, SameLowProduct
  <2> QED BY <2>1, <2>2, <2>3, <2>4
<1>5. SameLow(d + a, d + c, w) /\ SameLow(a - d, c - d, w) /\ SameLow(d * a, d * c, w)
  <2>1. d + a = a + d /\ d + c = c + d /\ a - d = a + (-d) /\ c - d = c + (-d) /\ d * a = a * d /\ d * c = c * d
    BY SMT
  <2> QED BY <1>4, <2>1
<1>6. SameLow(d - a, d - c, w)
  <2>1. PICK m \in Int : m = -1
    OBVIOUS
  <2>2. SameLow(a * m, c * m, w)
    BY <1>3, SameLowProduct
  <2>3. PICK e \in Int, g \in Int : e = a * m /\ g = c * m
    OBVIOUS
  <2>4. SameLow(e + d, g + d, w)
    BY <2>2, <2>3, SameLowSum
  <2>5. e + d = d - a /\ g + d = d - c
    BY <2>1, <2>3
  <2> QED BY <2>4, <2>5
<1>7. CASE op = "+"
  BY <1>2, <1>4, <1>5, <1>7 DEF TwoOpValue, SameLow
<1>8. CASE op = "-"
  BY <1>2, <1>5, <1>6, <1>8 DEF TwoOpValue, SameLow
<1>9. CASE op = "*"
  BY <1>2, <1>4, <1>5, <1>9 DEF TwoOpValue, SameLow
<1> QED BY <1>7, <1>8, <1>9 DEF SumOps

\* Bit by bit: what the bits below w do not change.
LEMMA BitwiseSame ==
  ASSUME NEW op \in {"&", "|", "^"}, NEW w \in Nat,
         NEW x \in Seq(BOOLEAN), NEW u \in Seq(BOOLEAN), NEW y \in Seq(BOOLEAN),
         \A b \in 1..w : (Bit(u, b) <=> Bit(x, b)) \/ (op = "&" /\ ~Bit(y, b)) \/ (op = "|" /\ Bit(y, b))
  PROVE  /\ TwoOpValue(op, w, u, y) = TwoOpValue(op, w, x, y)
         /\ TwoOpValue(op, w, y, u) = TwoOpValue(op, w, y, x)
<1>1. CASE op = "&"
  <2>1. \A b \in 1..w : /\ Bit(BitAnd(u, y), b) <=> Bit(BitAnd(x, y), b)
                        /\ Bit(BitAnd(y, u), b) <=> Bit(BitAnd(y, x), b)
    BY <1>1, AndBit
  <2>2. Fit(BitAnd(u, y), w) = Fit(BitAnd(x, y), w)
    BY <2>1, FitsEqual
  <2>3. Fit(BitAnd(y, u), w) = Fit(BitAnd(y, x), w)
    BY <2>1, FitsEqual
  <2> QED BY <1>1, <2>2, <2>3 DEF TwoOpValue
<1>2. CASE op = "|"
  <2>1. \A b \in 1..w : /\ Bit(BitOr(u, y), b) <=> Bit(BitOr(x, y), b)
                        /\ Bit(BitOr(y, u), b) <=> Bit(BitOr(y, x), b)
    BY <1>2, OrBit
  <2>2. Fit(BitOr(u, y), w) = Fit(BitOr(x, y), w)
    BY <2>1, FitsEqual
  <2>3. Fit(BitOr(y, u), w) = Fit(BitOr(y, x), w)
    BY <2>1, FitsEqual
  <2> QED BY <1>2, <2>2, <2>3 DEF TwoOpValue
<1>3. CASE op = "^"
  <2>1. \A b \in 1..w : Bit(u, b) <=> Bit(x, b)
    BY <1>3
  <2>2. \A b \in 1..w : /\ Bit(BitXor(u, y), b) <=> Bit(BitXor(x, y), b)
                        /\ Bit(BitXor(y, u), b) <=> Bit(BitXor(y, x), b)
    BY <2>1, XorBit
  <2>3. Fit(BitXor(u, y), w) = Fit(BitXor(x, y), w)
    BY <2>2, FitsEqual
  <2>4. Fit(BitXor(y, u), w) = Fit(BitXor(y, x), w)
    BY <2>2, FitsEqual
  <2> QED BY <1>3, <2>3, <2>4 DEF TwoOpValue
<1> QED BY <1>1, <1>2, <1>3

LEMMA TwoForward ==
  ASSUME NEW op \in SomeOps, NEW w \in Nat \ {0}, NEW x, Operand(x), NEW y, Operand(y), NEW u, Differs(x, u),
         op \in LogicOps /\ y.num => Len(x.v) = 1, Quiet(op, w, x, y)
  PROVE  /\ TwoOpValue(op, w, u, y.v) = TwoOpValue(op, w, x.v, y.v)
         /\ TwoOpValue(op, w, y.v, u) = TwoOpValue(op, w, y.v, x.v)
<1>1. /\ x.v \in Seq(BOOLEAN) /\ x.t \in Seq(BOOLEAN) /\ y.v \in Seq(BOOLEAN) /\ u \in Seq(BOOLEAN)
      /\ Len(x.t) = Len(x.v) /\ Len(u) = Len(x.v)
      /\ \A b : ~Bit(x.t, b) => (Bit(u, b) <=> Bit(x.v, b))
  BY DEF Operand, Differs
<1>2. CASE ~AnyBit(x.t)
  <2>1. u = x.v
    BY <1>2, SameWord
  <2> QED BY <2>1
<1>3. CASE AnyBit(x.t)
  <2>1. op \notin ShiftOps \cup CompareOps
    BY <1>3 DEF Quiet
  <2>2. \A b \in 1..w : ~Bit(IF y.num THEN x.t ELSE Through(op, x, y), b)
    BY <2>1 DEF Quiet
  <2>3. op \in {"&", "|", "^"} \cup SumOps \cup LogicOps
    BY <2>1 DEF SomeOps, ShiftOps, CompareOps, SumOps, LogicOps
  <2>4. CASE op \in SumOps
    <3>1. Through(op, x, y) = x.t
      BY <2>4 DEF Through, SumOps
    <3>2. \A b \in 1..w : ~Bit(x.t, b)
      BY <2>2, <3>1
    <3>3. \A b \in 1..w : Bit(u, b) <=> Bit(x.v, b)
      BY <1>1, <3>2
    <3> QED BY <1>1, <2>4, <3>3, SumSame
  <2>5. CASE op \in {"&", "|", "^"}
    <3>1. \A b \in 1..w : (Bit(u, b) <=> Bit(x.v, b)) \/ (op = "&" /\ ~Bit(y.v, b)) \/ (op = "|" /\ Bit(y.v, b))
      <4> SUFFICES ASSUME NEW b \in 1..w, ~(op = "&" /\ ~Bit(y.v, b)), ~(op = "|" /\ Bit(y.v, b))
                   PROVE  Bit(u, b) <=> Bit(x.v, b)
        OBVIOUS
      <4>1. ~Bit(x.t, b)
        <5>1. CASE y.num
          BY <2>2, <5>1
        <5>2. CASE ~y.num
          <6>1. ~Bit(Through(op, x, y), b)
            BY <2>2, <5>2
          <6>2. op = "^" => Through(op, x, y) = x.t
            BY DEF Through
          <6>3. b \in Nat \ {0}
            OBVIOUS
          <6> QED BY <2>5, <6>1, <6>2, <6>3, ThroughBit
        <5> QED BY <5>1, <5>2
      <4> QED BY <1>1, <4>1
    <3> QED BY <1>1, <2>5, <3>1, BitwiseSame
  <2>6. CASE op \in LogicOps
    <3>0. op = "&&" \/ op = "||"
      BY <2>6 DEF LogicOps
    <3>1. ~y.num
      <4> SUFFICES ASSUME y.num PROVE FALSE
        BY DEF Operand
      <4>1. Len(x.t) = 1 /\ 1 \in 1..w
        BY <1>1, <2>6
      <4>2. ~Bit(x.t, 1)
        BY <2>2, <4>1
      <4>3. ~AnyBit(x.t)
        BY <1>1, <4>1, <4>2, AnyBitIs, BitIs
      <4> QED BY <1>3, <4>3
    <3>2. ~Bit(Through(op, x, y), 1)
      BY <2>2, <3>1
    <3>3. CASE op = "&&"
      <4>1. PICK p \in BOOLEAN : p = (AnyBit(x.t) /\ AnyBit(y.v))
        OBVIOUS
      <4>2. Through(op, x, y) = Truth(p)
        BY <3>3, <4>1 DEF Through
      <4>3. ~p
        BY <3>2, <4>2, TruthIs, BitIs
      <4>4. ~AnyBit(y.v)
        BY <1>3, <4>1, <4>3
      <4>5. /\ TwoOpValue(op, w, u, y.v) = Fit(Truth(AnyBit(u) /\ AnyBit(y.v)), w)
            /\ TwoOpValue(op, w, x.v, y.v) = Fit(Truth(AnyBit(x.v) /\ AnyBit(y.v)), w)
            /\ TwoOpValue(op, w, y.v, u) = Fit(Truth(AnyBit(y.v) /\ AnyBit(u)), w)
            /\ TwoOpValue(op, w, y.v, x.v) = Fit(Truth(AnyBit(y.v) /\ AnyBit(x.v)), w)
        BY <3>3 DEF TwoOpValue
      <4>6. \A z : (AnyBit(z) /\ AnyBit(y.v)) = FALSE /\ (AnyBit(y.v) /\ AnyBit(z)) = FALSE
        BY <4>4
      <4> QED BY <4>5, <4>6
    <3>4. CASE op = "||"
      <4>1. PICK p \in BOOLEAN : p = (AnyBit(x.t) /\ Num(y.v) # 1)
        OBVIOUS
      <4>2. Through(op, x, y) = Truth(p)
        BY <3>4, <4>1 DEF Through
      <4>3. ~p
        BY <3>2, <4>2, TruthIs, BitIs
      <4>4. Num(y.v) = 1
        BY <1>3, <4>1, <4>3
      <4>5. AnyBit(y.v)
        BY <1>1, <4>4, SeqWord, NumOne
      <4>6. /\ TwoOpValue(op, w, u, y.v) = Fit(Truth(AnyBit(u) \/ AnyBit(y.v)), w)
            /\ TwoOpValue(op, w, x.v, y.v) = Fit(Truth(AnyBit(x.v) \/ AnyBit(y.v)), w)
            /\ TwoOpValue(op, w, y.v, u) = Fit(Truth(AnyBit(y.v) \/ AnyBit(u)), w)
            /\ TwoOpValue(op, w, y.v, x.v) = Fit(Truth(AnyBit(y.v) \/ AnyBit(x.v)), w)
        BY <3>4 DEF TwoOpValue
      <4>7. \A z : (AnyBit(z) \/ AnyBit(y.v)) = TRUE /\ (AnyBit(y.v) \/ AnyBit(z)) = TRUE
        BY <4>5
      <4> QED BY <4>6, <4>7
    <3> QED BY <3>0, <3>3, <3>4
  <2> QED BY <2>3, <2>4, <2>5, <2>6
<1> QED BY <1>2, <1>3

LEMMA NegSame ==
  ASSUME NEW w \in Nat, NEW x \in Seq(BOOLEAN), NEW u \in Seq(BOOLEAN), \A b \in 1..w : Bit(u, b) <=> Bit(x, b)
  PROVE  Word(- Num(u), w) = Word(- Num(x), w)
<1>1. Num(x) \in Nat /\ Num(u) \in Nat
  BY SeqWord, NumType
<1>2. PICK a \in Int, c \in Int : a = Num(u) /\ c = Num(x)
  BY <1>1
<1>3. SameLow(a, c, w)
  BY <1>2, SeqWord, NumLow
<1>4. PICK m \in Int : m = -1
  OBVIOUS
<1>5. SameLow(a * m, c * m, w)
  BY <1>3, SameLowProduct
<1>6. a * m = - a /\ c * m = - c
  BY <1>4
<1> QED BY <1>2, <1>5, <1>6 DEF SameLow

\* A copy, an inversion and a negation keep what the low bits say.
LEMMA OneSame ==
  ASSUME NEW op \in OneOps, NEW w \in Nat, NEW x \in Seq(BOOLEAN), NEW u \in Seq(BOOLEAN), Len(u) = Len(x),
         \A b \in 1..w : Bit(u, b) <=> Bit(x, b)
  PROVE  OneOpValue(op, w, u) = OneOpValue(op, w, x)
<1>1. CASE op = ""
  <2>1. Fit(u, w) = Fit(x, w)
    BY FitsEqual
  <2>2. OneOpValue("", w, u) = Fit(u, w) /\ OneOpValue("", w, x) = Fit(x, w)
    BY DEF OneOpValue
  <2> QED BY <1>1, <2>1, <2>2
<1>2. CASE op = "~"
  <2>1. PICK y, z : y = BitNot(u) /\ z = BitNot(x)
    OBVIOUS
  <2>2. /\ y \in Seq(BOOLEAN) /\ Len(y) = Len(u) /\ \A b \in 1..Len(u) : y[b] <=> ~u[b]
        /\ z \in Seq(BOOLEAN) /\ Len(z) = Len(x) /\ \A b \in 1..Len(x) : z[b] <=> ~x[b]
    BY <2>1, NotIs
  <2>3. \A b \in 1..w : Bit(y, b) <=> Bit(z, b)
    <3> SUFFICES ASSUME NEW b \in 1..w PROVE Bit(y, b) <=> Bit(z, b)
      OBVIOUS
    <3>1. /\ Bit(y, b) <=> b \in 1..Len(u) /\ ~u[b]
          /\ Bit(z, b) <=> b \in 1..Len(u) /\ ~x[b]
      BY <2>2, BitIs
    <3>2. b \in 1..Len(u) => (u[b] <=> x[b])
      BY BitIs
    <3> QED BY <3>1, <3>2
  <2>4. Fit(y, w) = Fit(z, w)
    BY <2>3, FitsEqual
  <2> QED BY <1>2, <2>1, <2>4 DEF OneOpValue
<1>3. CASE op = "-"
  <2>1. Word(- Num(u), w) = Word(- Num(x), w)
    BY NegSame
  <2> QED BY <1>3, <2>1, Zenon DEF OneOpValue
<1> QED BY <1>1, <1>2, <1>3 DEF OneOps

\* A copy, an inversion and a negation: the same.
LEMMA OneForward ==
  ASSUME NEW op \in OneOps, NEW w \in Nat \ {0}, NEW x, Operand(x), ~x.num, NEW u, Differs(x, u),
         ~AnyBit(OneOpT(w, x))
  PROVE  OneOpValue(op, w, u) = OneOpValue(op, w, x.v)
<1>1. /\ x.v \in Seq(BOOLEAN) /\ u \in Seq(BOOLEAN) /\ Len(u) = Len(x.v) /\ Len(u) \in Nat
      /\ \A b : ~Bit(x.t, b) => (Bit(u, b) <=> Bit(x.v, b))
  BY DEF Operand, Differs
<1>2. OneOpT(w, x) = Fit(x.t, w)
  BY DEF OneOpT
<1>3. \A b \in 1..w : Bit(u, b) <=> Bit(x.v, b)
  BY <1>1, <1>2, FitQuiet
<1> QED BY <1>1, <1>3, OneSame

LEMMA ReduceForward ==
  ASSUME NEW x, Operand(x), NEW u, Differs(x, u), ~AnyBit(ReduceT(x))
  PROVE  u = x.v
<1>1. PICK p \in BOOLEAN : p = AnyBit(x.t)
  BY DEF AnyBit
<1>2. ReduceT(x) = Truth(p)
  BY <1>1 DEF ReduceT
<1>3. ~p
  BY <1>2, TruthIs
<1> QED BY <1>1, <1>3, SameWord

LEMMA PartsEqual ==
  ASSUME NEW w \in Nat, NEW hi, NEW lo, hi - lo + 1 = w, NEW x, NEW y, \A b \in 1..w : Bit(x, lo + b) <=> Bit(y, lo + b)
  PROVE  Part(x, hi, lo) = Part(y, hi, lo)
<1>1. \A b \in 1..w : Bit(x, lo + b) = Bit(y, lo + b)
  BY DEF Bit
<1> QED BY <1>1 DEF Part

\* A slice that is not tainted.
LEMMA PartQuiet ==
  ASSUME NEW w \in Nat, NEW hi, NEW lo, hi - lo + 1 = w, NEW x, NEW u, Differs(x, u), ~AnyBit(Part(x.t, hi, lo))
  PROVE  Part(u, hi, lo) = Part(x.v, hi, lo)
<1>1. /\ Part(x.t, hi, lo) \in Seq(BOOLEAN) /\ Len(Part(x.t, hi, lo)) = w
      /\ \A b \in 1..w : Part(x.t, hi, lo)[b] <=> Bit(x.t, lo + b)
  BY PartIs
<1>2. \A b \in 1..w : ~Bit(x.t, lo + b)
  BY <1>1, AnyBitIs
<1>3. \A b \in 1..w : Bit(u, lo + b) <=> Bit(x.v, lo + b)
  BY <1>2 DEF Differs
<1> QED BY <1>3, PartsEqual

LEMMA SelForward ==
  ASSUME NEW w \in Nat \ {0}, NEW x, Operand(x), NEW y, Operand(y), ~AnyBit(SelT(w, x, y)), NEW u
  PROVE  /\ ~x.num /\ Differs(x, u) => Part(u, Num(y.v) + w - 1, Num(y.v)) = Part(x.v, Num(y.v) + w - 1, Num(y.v))
         /\ ~y.num /\ Differs(y, u) => u = y.v
<1>1. Num(y.v) \in Nat
  BY SeqWord, NumType DEF Operand
<1>2. PICK at \in Nat, hi \in Int : at = Num(y.v) /\ hi = at + w - 1 /\ hi - at + 1 = w
  BY <1>1
<1>3. PICK z : z = Part(x.t, hi, at) /\ z \in Seq(BOOLEAN)
  BY <1>2, PartIs
<1>4. ASSUME ~x.num, Differs(x, u) PROVE Part(u, hi, at) = Part(x.v, hi, at)
  <2>1. PICK p \in BOOLEAN : p = (~y.num /\ AnyBit(y.t))
    OBVIOUS
  <2>2. SelT(w, x, y) = BitOr(z, Fill(w, p))
    BY <1>2, <1>3, <1>4, <2>1 DEF SelT
  <2>3. Fill(w, p) \in Seq(BOOLEAN)
    BY FillIs
  <2>4. ~AnyBit(z)
    BY <1>3, <2>2, <2>3, OrAny
  <2>5. ~AnyBit(Part(x.t, hi, at))
    BY <1>3, <2>4
  <2>6. hi - at + 1 = w /\ w \in Nat
    BY <1>2
  <2> QED BY <1>4, <2>5, <2>6, PartQuiet
<1>5. ASSUME ~y.num, Differs(y, u) PROVE u = y.v
  <2>1. PICK p \in BOOLEAN : p = AnyBit(y.t)
    BY DEF AnyBit
  <2>2. AnyBit(Fill(w, p)) <=> p
    BY FillAny
  <2>3. ~AnyBit(Fill(w, p))
    <3>1. CASE x.num
      <4>1. SelT(w, x, y) = Fill(w, p)
        BY <2>1, <3>1 DEF SelT
      <4> QED BY <4>1
    <3>2. CASE ~x.num
      <4>1. (~y.num /\ AnyBit(y.t)) = p
        BY <1>5, <2>1
      <4>2. SelT(w, x, y) = BitOr(z, Fill(w, ~y.num /\ AnyBit(y.t)))
        BY <1>2, <1>3, <3>2 DEF SelT
      <4>3. SelT(w, x, y) = BitOr(z, Fill(w, p))
        BY <4>1, <4>2
      <4>4. Fill(w, p) \in Seq(BOOLEAN)
        BY FillIs
      <4> QED BY <1>3, <4>3, <4>4, OrAny
    <3> QED BY <3>1, <3>2
  <2> QED BY <1>5, <2>1, <2>2, <2>3, SameWord
<1> QED BY <1>2, <1>4, <1>5

LEMMA IteForward ==
  ASSUME NEW w \in Nat \ {0}, NEW c, Operand(c), NEW x, Operand(x), NEW y, Operand(y), ~AnyBit(IteT(w, c, x, y)), NEW u
  PROVE  /\ Differs(c, u) => u = c.v
         /\ ~x.num /\ Differs(x, u) /\ AnyBit(c.v) => Fit(u, w) = Fit(x.v, w)
         /\ ~y.num /\ Differs(y, u) /\ ~AnyBit(c.v) => Fit(u, w) = Fit(y.v, w)
<1>1. PICK p \in BOOLEAN : p = AnyBit(c.t)
  BY DEF AnyBit
<1>2. PICK o : o = IF AnyBit(c.v) THEN x ELSE y
  OBVIOUS
<1>3. PICK z : z = IF o.num THEN Zeros(w) ELSE o.t
  OBVIOUS
<1>4. IteT(w, c, x, y) = Fit(BitOr(Fill(w, p), z), w)
  BY <1>1, <1>2, <1>3 DEF IteT
<1>5. Operand(o)
  BY <1>2
<1>6. Fill(w, p) \in Seq(BOOLEAN) /\ Len(Fill(w, p)) = w /\ \A b \in 1..w : Fill(w, p)[b] <=> p
  BY FillIs
<1>7. z \in Seq(BOOLEAN)
  BY <1>3, <1>5, ZerosAre DEF Operand
<1>8. \A b \in 1..w : ~Bit(Fill(w, p), b) /\ ~Bit(z, b)
  BY <1>4, <1>6, <1>7, FitQuiet, OrBit
<1>9. ~p
  <2>1. 1 \in 1..w
    OBVIOUS
  <2> QED BY <1>6, <1>8, <2>1, BitIs
<1>10. ASSUME ~o.num, Differs(o, u) PROVE Fit(u, w) = Fit(o.v, w)
  <2>1. \A b \in 1..w : Bit(u, b) <=> Bit(o.v, b)
    BY <1>3, <1>8, <1>10 DEF Differs
  <2> QED BY <2>1, FitsEqual
<1> QED BY <1>1, <1>2, <1>9, <1>10, SameWord

AtMostOne(x) == Cardinality({b \in DOMAIN x : x[b]}) <= 1

\* A selector with at most one bit set takes the pattern of that bit.
LEMMA CaseTakenOne ==
  ASSUME NEW u \in Seq(BOOLEAN), AtMostOne(u), NEW i \in 1..Len(u), u[i]
  PROVE  CaseTaken(u) = i
<1>1. PICK j : j = CaseTaken(u) /\ j \in 1..Len(u) /\ u[j]
  <2>1. AnyBit(u)
    BY DEF AnyBit
  <2> QED BY <2>1, CaseTakenIs
<1> DEFINE T == {b \in DOMAIN u : u[b]}
<1>2. IsFiniteSet(T)
  <2>1. IsFiniteSet(1..Len(u))
    BY FS_Interval
  <2>2. T \subseteq 1..Len(u)
    OBVIOUS
  <2> QED BY <2>1, <2>2, FS_Subset
<1>3. i \in T /\ j \in T
  BY <1>1
<1>4. CASE i # j
  <2> HIDE DEF T
  <2>1. IsFiniteSet(T \ {i}) /\ Cardinality(T \ {i}) = Cardinality(T) - 1
    BY <1>2, <1>3, FS_RemoveElement
  <2>2. j \in T \ {i}
    BY <1>3, <1>4
  <2>3. Cardinality(T \ {i}) # 0
    BY <2>1, <2>2, FS_EmptySet
  <2>4. Cardinality(T \ {i}) \in Nat /\ Cardinality(T) \in Nat
    BY <1>2, <2>1, FS_CardinalityType
  <2>5. Cardinality(T) <= 1
    BY DEF T, AtMostOne
  <2> QED BY <2>1, <2>3, <2>4, <2>5
<1> QED BY <1>1, <1>4

LEMMA CaseForward ==
  ASSUME NEW w \in Nat \ {0}, NEW s, Operand(s), NEW b, Operand(b), NEW a, Operand(a), ~AnyBit(CaseT(w, s, b, a)),
         NEW u
  PROVE  /\ Differs(s, u) /\ AtMostOne(u) => CaseTaken(u) = CaseTaken(s.v)
         /\ ~b.num /\ Differs(b, u) /\ CaseTaken(s.v) # 0
              => Field(u, CaseTaken(s.v), w) = Field(b.v, CaseTaken(s.v), w)
         /\ ~a.num /\ Differs(a, u) /\ CaseTaken(s.v) = 0 => u = a.v
<1>1. /\ s.v \in Seq(BOOLEAN) /\ s.t \in Seq(BOOLEAN) /\ Len(s.t) = Len(s.v)
      /\ a.t \in Seq(BOOLEAN) /\ b.t \in Seq(BOOLEAN)
  BY DEF Operand
<1>2. PICK i : i = CaseTaken(s.v) /\ (i = 0 \/ (i \in 1..Len(s.v) /\ s.v[i] /\ i # 0))
  BY <1>1, CaseTakenIs
<1> SUFFICES /\ Differs(s, u) /\ AtMostOne(u) => CaseTaken(u) = i
             /\ ~b.num /\ Differs(b, u) /\ i # 0 => Field(u, i, w) = Field(b.v, i, w)
             /\ ~a.num /\ Differs(a, u) /\ i = 0 => u = a.v
  BY <1>2
<1>3. CASE i = 0
  <2>1. PICK p \in BOOLEAN : p = AnyBit(s.t)
    BY DEF AnyBit
  <2>2. PICK z : z = IF a.num THEN Zeros(w) ELSE a.t
    OBVIOUS
  <2>3. CaseT(w, s, b, a) = BitOr(z, Fill(w, p))
    BY <1>2, <1>3, <2>1, <2>2 DEF CaseT
  <2>4. z \in Seq(BOOLEAN) /\ Fill(w, p) \in Seq(BOOLEAN)
    BY <1>1, <2>2, ZerosAre, FillIs
  <2>5. ~AnyBit(z) /\ ~AnyBit(Fill(w, p))
    BY <2>3, <2>4, OrAny
  <2>6. ~AnyBit(s.t)
    BY <2>1, <2>5, FillAny
  <2>7. Differs(s, u) => u = s.v
    BY <2>6, SameWord
  <2>8. ~a.num /\ Differs(a, u) => u = a.v
    BY <2>2, <2>5, SameWord
  <2> QED BY <1>2, <1>3, <2>7, <2>8
<1>4. CASE i # 0
  <2>1. i \in 1..Len(s.v) /\ s.v[i] /\ s.t[i] \in BOOLEAN
    BY <1>1, <1>2, <1>4
  <2>2. PICK p \in BOOLEAN : p = s.t[i]
    BY <2>1
  <2>3. PICK hi \in Int, lo \in Int : hi = w * i - 1 /\ lo = w * (i - 1) /\ hi - lo + 1 = w
    <3>1. (w * i - 1) - w * (i - 1) + 1 = w
      BY <2>1, FieldWidth
    <3>2. w * i - 1 \in Int /\ w * (i - 1) \in Int
      BY <2>1
    <3> QED BY <3>1, <3>2
  <2>4. PICK z : z = IF b.num THEN Zeros(w) ELSE Part(b.t, hi, lo)
    OBVIOUS
  <2>5. CaseT(w, s, b, a) = BitOr(z, Fill(w, p))
    BY <1>2, <1>4, <2>2, <2>3, <2>4 DEF CaseT, Field
  <2>6. z \in Seq(BOOLEAN) /\ Fill(w, p) \in Seq(BOOLEAN)
    <3>1. Part(b.t, hi, lo) \in Seq(BOOLEAN)
      BY <2>3, PartIs
    <3> QED BY <2>4, <3>1, ZerosAre, FillIs
  <2>7. ~AnyBit(z) /\ ~p
    BY <2>5, <2>6, OrAny, FillAny
  <2>8. ASSUME Differs(s, u), AtMostOne(u) PROVE CaseTaken(u) = i
    <3>1. ~Bit(s.t, i) /\ Bit(s.v, i)
      BY <1>1, <2>1, <2>2, <2>7, BitIs
    <3>2. Bit(u, i) /\ u \in Seq(BOOLEAN)
      BY <2>8, <3>1 DEF Differs
    <3>3. i \in 1..Len(u) /\ u[i]
      BY <3>2, BitIs
    <3> QED BY <2>8, <3>2, <3>3, CaseTakenOne
  <2>9. ASSUME ~b.num, Differs(b, u) PROVE Field(u, i, w) = Field(b.v, i, w)
    <3>1. ~AnyBit(Part(b.t, hi, lo))
      BY <2>4, <2>7, <2>9
    <3>2. Part(u, hi, lo) = Part(b.v, hi, lo)
      BY <2>3, <2>9, <3>1, PartQuiet
    <3> QED BY <2>3, <3>2 DEF Field
  <2> QED BY <1>4, <2>8, <2>9
<1> QED BY <1>3, <1>4

\* The operands of a statement, and a word in place of one of them.
LEMMA SlotsAre ==
  ASSUME net \in Nets, NEW i \in Comb, NEW v, NEW f
  PROVE  \A m \in DOMAIN Node[i].ops :
           LET x == Views(i, v, f, NoSigs)[m]
           IN /\ Operand(x) /\ x.v = Get(v, Node[i].ops[m]) /\ (x.num <=> Node[i].ops[m].n = 0)
              /\ Len(x.v) = Width(Node[i].ops[m])
              /\ ~x.num => x.t = Get(f, Node[i].ops[m])
<1> SUFFICES ASSUME NEW m \in DOMAIN Node[i].ops
             PROVE  LET x == Views(i, v, f, NoSigs)[m]
                    IN /\ Operand(x) /\ x.v = Get(v, Node[i].ops[m]) /\ (x.num <=> Node[i].ops[m].n = 0)
                       /\ Len(x.v) = Width(Node[i].ops[m])
                       /\ ~x.num => x.t = Get(f, Node[i].ops[m])
  OBVIOUS
<1>1. PICK o : o = Node[i].ops[m]
  OBVIOUS
<1>2. OperandOK(o, i - 1) /\ i - 1 \in Nat
  BY <1>1, CombIs, NetIs
<1>3. PICK x : x = View(o, v, f, NoSigs)
  OBVIOUS
<1>4. Views(i, v, f, NoSigs)[m] = x
  BY <1>1, <1>3 DEF Views
<1>5. /\ Width(o) \in Nat \ {0} /\ x.num \in BOOLEAN /\ (x.num <=> o.n = 0) /\ x.v = Get(v, o)
      /\ x.v \in Seq(BOOLEAN) /\ Len(x.v) = Width(o) /\ x.t \in Seq(BOOLEAN) /\ Len(x.t) = Width(o)
      /\ x.num => x.t = Zeros(Len(x.v))
      /\ o.n # 0 => x.t = Get(f, o)
  BY <1>2, <1>3, ViewIs
<1>6. Operand(x)
  BY <1>5 DEF Operand
<1> QED BY <1>1, <1>4, <1>5, <1>6

Words1(i, v, k, u) == [m \in DOMAIN Node[i].ops |-> IF m = k THEN u ELSE Get(v, Node[i].ops[m])]
Words0(i, v)       == [m \in DOMAIN Node[i].ops |-> Get(v, Node[i].ops[m])]

LEMMA InsteadIs ==
  ASSUME NEW i, NEW v, NEW k, NEW u
  PROVE  /\ Instead(v, i, k, u) = Apply(Node[i], Words1(i, v, k, u))
         /\ \A m \in DOMAIN Node[i].ops : /\ Words0(i, v)[m] = Get(v, Node[i].ops[m])
                                          /\ Words1(i, v, k, u)[m] = IF m = k THEN u ELSE Get(v, Node[i].ops[m])
BY DEF Instead, Words1, Words0

LEMMA StatementForward ==
  ASSUME net \in Nets, NEW i \in Comb, ForwardWidths(Node[i]), NEW v, NEW f, NEW k \in VarSlots(i), NEW u,
         Differs(Views(i, v, f, NoSigs)[k], u), Legal(i, k, u),
         ~AnyBit(LiveT(Node[i], Views(i, v, f, NoSigs)))
  PROVE  Instead(v, i, k, u) = Apply(Node[i], Words0(i, v))
<1> DEFINE nd == Node[i]
           x == Views(i, v, f, NoSigs)
           us == Words1(i, v, k, u)
           vs == Words0(i, v)
<1>1. nd.w \in Nat \ {0} /\ StatementOK(nd, i, Len(Node))
  BY CombIs
<1>2. \/ nd.k = "two" \/ nd.k = "one" \/ nd.k = "red" \/ nd.k = "sel" \/ nd.k = "cat" \/ nd.k = "ite" \/ nd.k = "case"
  BY CombIs
<1>3. k \in DOMAIN nd.ops /\ nd.ops[k].n # 0
  BY DEF VarSlots
<1>4. \A m \in DOMAIN nd.ops : Operand(x[m]) /\ Len(x[m].v) = Width(nd.ops[m]) /\ (x[m].num <=> nd.ops[m].n = 0)
  BY SlotsAre
<1>5. \A m \in DOMAIN nd.ops : vs[m] = x[m].v /\ us[m] = IF m = k THEN u ELSE x[m].v
  BY SlotsAre, InsteadIs
<1>6. DOMAIN us = DOMAIN nd.ops /\ DOMAIN vs = DOMAIN nd.ops /\ DOMAIN x = DOMAIN nd.ops
  BY DEF Words1, Words0, Views
<1>7. Instead(v, i, k, u) = Apply(nd, us)
  BY InsteadIs
<1>8. PICK n \in Nat : DOMAIN nd.ops = 1..n
  BY CombIs
<1>9. ForwardWidths(nd) /\ Legal(i, k, u) /\ ~AnyBit(LiveT(nd, x)) /\ Differs(x[k], u) /\ ~x[k].num
  BY <1>3, <1>4
<1>10. nd.k = "case" /\ k = 1 => AtMostOne(u)
  BY <1>9 DEF Legal, AtMostOne
<1>11. SUFFICES Apply(nd, us) = Apply(nd, vs)
  BY <1>7
<1> HIDE DEF nd, x, us, vs
<1>12. CASE nd.k = "two"
  <2>1. DOMAIN nd.ops = 1..2 /\ nd.op \in SomeOps
    BY <1>1, <1>12 DEF StatementOK
  <2>2. 1 \in DOMAIN nd.ops /\ 2 \in DOMAIN nd.ops /\ (k = 1 \/ k = 2)
    BY <1>3, <2>1
  <2>3. PICK a, c : a = x[1] /\ c = x[2] /\ Operand(a) /\ Operand(c)
    BY <1>4, <2>2
  <2>4. LiveT(nd, x) = TwoOpT(nd.op, nd.w, a, c)
    BY <1>12, <2>3 DEF LiveT
  <2>5. \A y : Apply(nd, y) = TwoOpValue(nd.op, nd.w, y[1], y[2])
    BY <1>12 DEF Apply
  <2>6. nd.op \in LogicOps /\ (a.num \/ c.num) => Len(a.v) = 1 /\ Len(c.v) = 1
    <3>1. nd.op \in LogicOps /\ (\E m \in 1..2 : nd.ops[m].n = 0) => \A m \in 1..2 : Width(nd.ops[m]) = 1
      BY <1>9, <1>12 DEF ForwardWidths
    <3> QED BY <1>4, <2>1, <2>2, <2>3, <3>1
  <2>7. CASE k = 1
    <3>1. Differs(a, u) /\ ~a.num /\ us[1] = u /\ us[2] = c.v /\ vs[1] = a.v /\ vs[2] = c.v
      BY <1>5, <1>9, <2>2, <2>3, <2>7
    <3>2. ~AnyBit(TwoOpT(nd.op, nd.w, a, c))
      BY <1>9, <2>4
    <3>3. Quiet(nd.op, nd.w, a, c)
      BY <1>1, <2>3, <3>1, <3>2, TwoQuiet
    <3>4. TwoOpValue(nd.op, nd.w, u, c.v) = TwoOpValue(nd.op, nd.w, a.v, c.v)
      BY <1>1, <2>1, <2>3, <2>6, <3>1, <3>3, TwoForward
    <3> QED BY <2>5, <3>1, <3>4
  <2>8. CASE k = 2
    <3>1. Differs(c, u) /\ ~c.num /\ us[1] = a.v /\ us[2] = u /\ vs[1] = a.v /\ vs[2] = c.v
      BY <1>5, <1>9, <2>2, <2>3, <2>8
    <3>2. ~AnyBit(TwoOpT(nd.op, nd.w, a, c))
      BY <1>9, <2>4
    <3>3. Quiet(nd.op, nd.w, c, a)
      BY <1>1, <2>3, <3>1, <3>2, TwoQuiet
    <3>4. TwoOpValue(nd.op, nd.w, a.v, u) = TwoOpValue(nd.op, nd.w, a.v, c.v)
      BY <1>1, <2>1, <2>3, <2>6, <3>1, <3>3, TwoForward
    <3> QED BY <2>5, <3>1, <3>4
  <2> QED BY <2>2, <2>7, <2>8
<1>13. CASE nd.k = "one"
  <2>1. DOMAIN nd.ops = 1..1
    BY <1>1, <1>13 DEF StatementOK
  <2>2. nd.op \in OneOps
    BY <1>1, <1>13 DEF StatementOK
  <2>3. k = 1
    BY <1>3, <2>1
  <2>4. PICK a : a = x[1] /\ Operand(a) /\ ~a.num /\ Differs(a, u) /\ us[1] = u /\ vs[1] = a.v
    BY <1>3, <1>4, <1>5, <1>9, <2>3
  <2>5. LiveT(nd, x) = OneOpT(nd.w, a)
    BY <1>13, <2>4 DEF LiveT
  <2>6. \A y : Apply(nd, y) = OneOpValue(nd.op, nd.w, y[1])
    BY <1>13 DEF Apply
  <2>7. ~AnyBit(OneOpT(nd.w, a))
    BY <1>9, <2>5
  <2>8. OneOpValue(nd.op, nd.w, u) = OneOpValue(nd.op, nd.w, a.v)
    <3>1. nd.w \in Nat \ {0}
      BY <1>1
    <3>2. Operand(a)
      BY <2>4
    <3>3. ~a.num
      BY <2>4
    <3>4. Differs(a, u)
      BY <2>4
    <3> QED BY <2>2, <2>7, <3>1, <3>2, <3>3, <3>4, OneForward
  <2> QED BY <2>4, <2>6, <2>8
<1>14. CASE nd.k = "red"
  <2>1. DOMAIN nd.ops = 1..1
    BY <1>1, <1>14 DEF StatementOK
  <2>2. k = 1
    BY <1>3, <2>1
  <2>3. PICK a : a = x[1] /\ Operand(a) /\ ~a.num /\ Differs(a, u) /\ us[1] = u /\ vs[1] = a.v
    BY <1>3, <1>4, <1>5, <1>9, <2>2
  <2>4. LiveT(nd, x) = ReduceT(a)
    BY <1>14, <2>3 DEF LiveT
  <2>5. \A y : Apply(nd, y) = ReduceValue(nd.op, y[1])
    BY <1>14 DEF Apply
  <2>6. ~AnyBit(ReduceT(a))
    BY <1>9, <2>4
  <2>7. u = a.v
    BY <2>3, <2>6, ReduceForward
  <2> QED BY <2>3, <2>5, <2>7
<1>15. CASE nd.k = "sel"
  <2>1. DOMAIN nd.ops = 1..2
    BY <1>1, <1>15 DEF StatementOK
  <2>2. 1 \in DOMAIN nd.ops /\ 2 \in DOMAIN nd.ops /\ (k = 1 \/ k = 2)
    BY <1>3, <2>1
  <2>3. PICK a, c : a = x[1] /\ c = x[2] /\ Operand(a) /\ Operand(c)
    BY <1>4, <2>2
  <2>4. LiveT(nd, x) = SelT(nd.w, a, c)
    BY <1>15, <2>3 DEF LiveT
  <2>5. \A y : Apply(nd, y) = Part(y[1], Num(y[2]) + nd.w - 1, Num(y[2]))
    BY <1>15 DEF Apply
  <2>6. ~AnyBit(SelT(nd.w, a, c))
    BY <1>9, <2>4
  <2>7. CASE k = 1
    <3>1. Differs(a, u) /\ ~a.num /\ us[1] = u /\ us[2] = c.v /\ vs[1] = a.v /\ vs[2] = c.v
      BY <1>5, <1>9, <2>2, <2>3, <2>7
    <3>2. Part(u, Num(c.v) + nd.w - 1, Num(c.v)) = Part(a.v, Num(c.v) + nd.w - 1, Num(c.v))
      BY <1>1, <2>3, <2>6, <3>1, SelForward
    <3> QED BY <2>5, <3>1, <3>2
  <2>8. CASE k = 2
    <3>1. Differs(c, u) /\ ~c.num /\ us[1] = a.v /\ us[2] = u /\ vs[1] = a.v /\ vs[2] = c.v
      BY <1>5, <1>9, <2>2, <2>3, <2>8
    <3>2. u = c.v
      BY <1>1, <2>3, <2>6, <3>1, SelForward
    <3> QED BY <2>5, <3>1, <3>2
  <2> QED BY <2>2, <2>7, <2>8
<1>16. CASE nd.k = "cat"
  <2> DEFINE ts == [m \in DOMAIN x |-> x[m].t]
  <2>1. LiveT(nd, x) = Concat(ts)
    BY <1>16 DEF LiveT, ConcatT
  <2>2. ts \in [1..n -> Seq(BOOLEAN)] /\ k \in 1..n
    BY <1>3, <1>4, <1>6, <1>8 DEF Operand
  <2>3. ts[k] = x[k].t
    BY <1>3, <1>6
  <2> HIDE DEF ts
  <2>4. ~AnyBit(x[k].t)
    BY <1>9, <2>1, <2>2, <2>3, ConcatAny
  <2>5. Operand(x[k]) /\ Differs(x[k], u)
    BY <1>3, <1>4, <1>9
  <2>6. u = x[k].v
    BY <2>4, <2>5, SameWord
  <2>7. \A m \in DOMAIN nd.ops : us[m] = vs[m]
    BY <1>5, <2>6
  <2>8. us = vs
    BY <1>6, <2>7 DEF us, vs, Words1, Words0, nd
  <2> QED BY <2>8
<1>17. CASE nd.k = "ite"
  <2>1. DOMAIN nd.ops = 1..3
    BY <1>1, <1>17 DEF StatementOK
  <2>2. 1 \in DOMAIN nd.ops /\ 2 \in DOMAIN nd.ops /\ 3 \in DOMAIN nd.ops /\ (k = 1 \/ k = 2 \/ k = 3)
    BY <1>3, <2>1
  <2>3. PICK c, a, e : c = x[1] /\ a = x[2] /\ e = x[3] /\ Operand(c) /\ Operand(a) /\ Operand(e)
    BY <1>4, <2>2
  <2>4. LiveT(nd, x) = IteT(nd.w, c, a, e)
    BY <1>17, <2>3 DEF LiveT
  <2>5. \A y : Apply(nd, y) = Fit(IF AnyBit(y[1]) THEN y[2] ELSE y[3], nd.w)
    BY <1>17 DEF Apply
  <2>6. ~AnyBit(IteT(nd.w, c, a, e))
    BY <1>9, <2>4
  <2>7. /\ Differs(c, u) => u = c.v
        /\ ~a.num /\ Differs(a, u) /\ AnyBit(c.v) => Fit(u, nd.w) = Fit(a.v, nd.w)
        /\ ~e.num /\ Differs(e, u) /\ ~AnyBit(c.v) => Fit(u, nd.w) = Fit(e.v, nd.w)
    BY <1>1, <2>3, <2>6, IteForward
  <2>8. vs[1] = c.v /\ vs[2] = a.v /\ vs[3] = e.v
    BY <1>5, <2>2, <2>3
  <2>9. CASE k = 1
    <3>1. Differs(c, u) /\ us[1] = u /\ us[2] = a.v /\ us[3] = e.v
      BY <1>5, <1>9, <2>2, <2>3, <2>9
    <3> QED BY <2>5, <2>7, <2>8, <3>1
  <2>10. CASE k = 2
    <3>1. Differs(a, u) /\ ~a.num /\ us[1] = c.v /\ us[2] = u /\ us[3] = e.v
      BY <1>5, <1>9, <2>2, <2>3, <2>10
    <3> QED BY <2>5, <2>7, <2>8, <3>1
  <2>11. CASE k = 3
    <3>1. Differs(e, u) /\ ~e.num /\ us[1] = c.v /\ us[2] = a.v /\ us[3] = u
      BY <1>5, <1>9, <2>2, <2>3, <2>11
    <3> QED BY <2>5, <2>7, <2>8, <3>1
  <2> QED BY <2>2, <2>9, <2>10, <2>11
<1>18. CASE nd.k = "case"
  <2>1. DOMAIN nd.ops = 1..3
    BY <1>1, <1>18 DEF StatementOK
  <2>2. 1 \in DOMAIN nd.ops /\ 2 \in DOMAIN nd.ops /\ 3 \in DOMAIN nd.ops /\ (k = 1 \/ k = 2 \/ k = 3)
    BY <1>3, <2>1
  <2>3. PICK s, a, e : s = x[1] /\ a = x[2] /\ e = x[3] /\ Operand(s) /\ Operand(a) /\ Operand(e)
    BY <1>4, <2>2
  <2>4. LiveT(nd, x) = CaseT(nd.w, s, a, e)
    BY <1>18, <2>3 DEF LiveT
  <2>5. \A y : Apply(nd, y) = IF CaseTaken(y[1]) = 0 THEN y[3] ELSE Field(y[2], CaseTaken(y[1]), nd.w)
    BY <1>18 DEF Apply
  <2>6. ~AnyBit(CaseT(nd.w, s, a, e))
    BY <1>9, <2>4
  <2>7. PICK j : j = CaseTaken(s.v)
    OBVIOUS
  <2>13. /\ Differs(s, u) /\ AtMostOne(u) => CaseTaken(u) = CaseTaken(s.v)
         /\ ~a.num /\ Differs(a, u) /\ CaseTaken(s.v) # 0
              => Field(u, CaseTaken(s.v), nd.w) = Field(a.v, CaseTaken(s.v), nd.w)
         /\ ~e.num /\ Differs(e, u) /\ CaseTaken(s.v) = 0 => u = e.v
    BY <1>1, <2>3, <2>6, CaseForward
  <2>8. /\ Differs(s, u) /\ AtMostOne(u) => CaseTaken(u) = j
        /\ ~a.num /\ Differs(a, u) /\ j # 0 => Field(u, j, nd.w) = Field(a.v, j, nd.w)
        /\ ~e.num /\ Differs(e, u) /\ j = 0 => u = e.v
    BY <2>7, <2>13
  <2>9. vs[1] = s.v /\ vs[2] = a.v /\ vs[3] = e.v
    BY <1>5, <2>2, <2>3
  <2>10. CASE k = 1
    <3>1. Differs(s, u) /\ us[1] = u /\ us[2] = a.v /\ us[3] = e.v
      BY <1>5, <1>9, <2>2, <2>3, <2>10
    <3>2. CaseTaken(u) = j
      BY <1>10, <1>18, <2>8, <2>10, <3>1
    <3> QED BY <2>5, <2>7, <2>9, <3>1, <3>2
  <2>11. CASE k = 2
    <3>1. Differs(a, u) /\ ~a.num /\ us[1] = s.v /\ us[2] = u /\ us[3] = e.v
      BY <1>5, <1>9, <2>2, <2>3, <2>11
    <3> QED BY <2>5, <2>7, <2>8, <2>9, <3>1
  <2>12. CASE k = 3
    <3>1. Differs(e, u) /\ ~e.num /\ us[1] = s.v /\ us[2] = a.v /\ us[3] = u
      BY <1>5, <1>9, <2>2, <2>3, <2>12
    <3> QED BY <2>5, <2>7, <2>8, <2>9, <3>1
  <2> QED BY <2>2, <2>10, <2>11, <2>12
<1> QED BY <1>2, <1>12, <1>13, <1>14, <1>15, <1>16, <1>17, <1>18

LEMMA KeptOn ==
  ASSUME net \in Nets, NEW i \in Comb, ForwardWidths(Node[i]), NEW f, NEW k \in VarSlots(i),
         NEW u \in Words(Len(Get(Value, Node[i].ops[k]))),
         \A b \in DOMAIN Get(Value, Node[i].ops[k]) : u[b] # Get(Value, Node[i].ops[k])[b] => Get(f, Node[i].ops[k])[b],
         Legal(i, k, u), ~AnyBit(LiveT(Node[i], Views(i, Value, f, NoSigs)))
  PROVE  Instead(Value, i, k, u) = Value[i]
<1>1. PICK v : v = Value
  OBVIOUS
<1>2. PICK x : x = Views(i, v, f, NoSigs)[k]
  OBVIOUS
<1>3. k \in DOMAIN Node[i].ops /\ Node[i].ops[k].n # 0
  BY DEF VarSlots
<1>4. Operand(x) /\ x.v = Get(v, Node[i].ops[k]) /\ ~x.num /\ x.t = Get(f, Node[i].ops[k])
  BY <1>2, <1>3, SlotsAre
<1>5. Len(x.v) \in Nat /\ u \in Words(Len(x.v)) /\ \A b \in DOMAIN x.v : u[b] # x.v[b] => x.t[b]
  BY <1>1, <1>4 DEF Operand
<1>6. u \in Seq(BOOLEAN) /\ Len(u) = Len(x.v)
  BY <1>5, WordSeq
<1>7. Differs(x, u)
  <2> SUFFICES ASSUME NEW b, ~Bit(x.t, b) PROVE Bit(u, b) <=> Bit(x.v, b)
    BY <1>6 DEF Differs
  <2>1. /\ Bit(u, b) <=> b \in 1..Len(u) /\ u[b]
        /\ Bit(x.v, b) <=> b \in 1..Len(x.v) /\ x.v[b]
        /\ Bit(x.t, b) <=> b \in 1..Len(x.t) /\ x.t[b]
    BY <1>4, <1>6, BitIs DEF Operand
  <2>2. CASE b \in 1..Len(u)
    <3>1. b \in DOMAIN x.v /\ ~x.t[b]
      BY <1>4, <1>6, <2>1, <2>2 DEF Operand
    <3>2. u[b] = x.v[b]
      BY <1>5, <3>1
    <3> QED BY <1>6, <2>1, <3>2
  <2>3. CASE b \notin 1..Len(u)
    BY <1>6, <2>1, <2>3
  <2> QED BY <2>2, <2>3
<1>8. Instead(v, i, k, u) = Apply(Node[i], Words0(i, v))
  BY <1>1, <1>2, <1>7, StatementForward
<1>9. Value[i] = Apply(Node[i], Words0(i, v))
  BY <1>1, ValueIs DEF Words0
<1> QED BY <1>1, <1>8, <1>9

\* The designs given are of the widths the rules are written for.
ForwardNets == \A d \in Nets : \A i \in DOMAIN d.node : ForwardWidths(d.node[i])

LEMMA ForwardNow == ForwardNets /\ TaintInv => ForwardSound
<1> SUFFICES ASSUME ForwardNets, TaintInv PROVE ForwardSound
  OBVIOUS
<1>1. net \in Nets
  BY DEF TaintInv
<1>2. \A i \in Comb : i \in Nodes /\ ForwardWidths(Node[i])
  BY <1>1 DEF ForwardNets, Comb, Nodes, Node
<1> DEFINE Kept(tn) ==
      \A i \in Comb : Parallel(Value, i) => \A k \in VarSlots(i) :
        LET own == Get(Value, Node[i].ops[k])
            may == Get(tn, Node[i].ops[k])
        IN AnyBit(tn[i]) \/ \A x \in Words(Len(own)) :
             (\A b \in DOMAIN own : x[b] # own[b] => may[b]) /\ Legal(i, k, x)
                => Instead(Value, i, k, x) = Value[i]
           Loud(tn) == \A i \in Comb : AnyBit(LiveT(Node[i], Views(i, Value, tn, NoSigs))) => AnyBit(tn[i])
<1>3. ASSUME NEW tn, Loud(tn) PROVE Kept(tn)
  <2> SUFFICES ASSUME NEW i \in Comb, NEW k \in VarSlots(i), ~AnyBit(tn[i]),
                      NEW x \in Words(Len(Get(Value, Node[i].ops[k]))),
                      \A b \in DOMAIN Get(Value, Node[i].ops[k]) :
                         x[b] # Get(Value, Node[i].ops[k])[b] => Get(tn, Node[i].ops[k])[b],
                      Legal(i, k, x)
               PROVE  Instead(Value, i, k, x) = Value[i]
    OBVIOUS
  <2>1. ~AnyBit(LiveT(Node[i], Views(i, Value, tn, NoSigs)))
    BY <1>3
  <2> QED BY <1>1, <1>2, <2>1, KeptOn
<1>4. Loud(TaintOf(Value))
  BY <1>1, <1>2, TaintIs
<1>5. Loud(WriteTaintOf(Value))
  <2> SUFFICES ASSUME NEW i \in Comb, AnyBit(LiveT(Node[i], Views(i, Value, WriteTaintOf(Value), NoSigs)))
               PROVE  AnyBit(WriteTaintOf(Value)[i])
    OBVIOUS
  <2>1. PICK f : f = WriteTaintOf(Value)
    OBVIOUS
  <2>2. \A j \in Nodes : Covers(f[j], f[j])
    <3>1. \A j \in Nodes : Covers(TaintOf(Value)[j], f[j])
      BY <2>1, WiresCovered
    <3> QED BY <3>1, SelfCovers DEF Covers
  <2>3. \A k \in DOMAIN Node[i].ops : Node[i].ops[k].n # 0 => Node[i].ops[k].n \in Nodes
    <3>1. \A k \in DOMAIN Node[i].ops : OperandOK(Node[i].ops[k], i - 1)
      BY <1>1, CombIs
    <3>2. Nodes = 1..Len(Node) /\ Len(Node) \in Nat /\ i \in Nodes
      BY <1>1, <1>2, NetIs
    <3> QED BY <3>1, <3>2 DEF OperandOK
  <2>4. Covers(LiveT(Node[i], Views(i, Value, f, NoSigs)), WriteT(Node[i], Views(i, Value, f, NoSigs)))
    BY <1>1, <2>2, <2>3, StatementCovers
  <2>5. AnyBit(WriteT(Node[i], Views(i, Value, f, NoSigs)))
    BY <2>1, <2>4, AnyCovers
  <2>6. f[i] = WriteT(Node[i], Views(i, Value, f, NoSigs))
    BY <1>1, <1>2, <2>1, WriteTaintIs
  <2> QED BY <2>1, <2>5, <2>6
<1>6. Kept(TaintOf(Value)) /\ Kept(WriteTaintOf(Value))
  BY <1>3, <1>4, <1>5
<1> QED BY <1>6 DEF ForwardSound

\* No statement loses the forward taint, of every design whose "&&" and "||"
\* with a literal are of single bits: in both instrumentations, data that
\* tainted bits of an operand can change is marked (op_taint_gen.cpp, the
\* "_t" assignments).
THEOREM ForwardTaintSound == ForwardNets /\ Spec => []ForwardSound
<1>1. ForwardNets /\ TaintInv => ForwardSound
  BY ForwardNow
<1>2. CASE ForwardNets
  <2>1. TaintInv => ForwardSound
    BY <1>1, <1>2
  <2>2. Spec => []ForwardSound
    BY <2>1, TaintInvAlways, PTL
  <2> QED BY <2>2
<1> QED BY <1>2
-----------------------------------------------------------------------------
(* The relevance of one statement                                          *)

LEMMA RelevanceAtIs ==
  ASSUME net \in Nets, NEW v, NEW tn, NEW keeping, NEW later, NEW i \in Nodes
  PROVE  LET r == RelevanceAt(v, tn, keeping, later, i)
         IN r \in Seq(BOOLEAN) /\ Len(r) = Node[i].w
<1>1. PICK w \in Nat : w = Node[i].w
  BY NetIs DEF StatementOK
<1>2. RelevanceAt(v, tn, keeping, later, i) \in [1..w -> BOOLEAN]
  BY <1>1 DEF RelevanceAt
<1> QED BY <1>1, <1>2, FunSeq

\* The relevance of every variable is a word as wide as it.
LEMMA RelevanceIs ==
  ASSUME net \in Nets, NEW v, NEW tn, NEW keeping, NEW i \in Nodes
  PROVE  /\ RelevanceOf(v, tn, keeping)[i] \in Seq(BOOLEAN)
         /\ Len(RelevanceOf(v, tn, keeping)[i]) = Node[i].w
<1> DEFINE n == Len(Node)
           S == Seq(Seq(BOOLEAN))
           rl(later, j) == RelevanceAt(v, tn, keeping, later, j)
           put(u, k) == <<rl(u[k - 1], n + 1 - k)>> \o u[k - 1]
           Rule(u) == u = [k \in 0..n |-> IF k = 0 THEN <<>> ELSE put(u, k)]
           Step == [p \in S \X (1..n) |-> <<rl(p[1], n + 1 - p[2])>> \o p[1]]
<1>1. n \in Nat /\ Nodes = 1..n /\ i \in 1..n
  BY NetIs
<1>2. \A later : \A j \in Nodes : rl(later, j) \in Seq(BOOLEAN) /\ Len(rl(later, j)) = Node[j].w
  BY RelevanceAtIs
<1>3. RelevanceOf(v, tn, keeping) = (CHOOSE u : Rule(u))[n]
  BY DEF RelevanceOf
<1> HIDE DEF rl, n
<1>4. Step \in [S \X (1..n) -> S]
  <2> SUFFICES ASSUME NEW s \in S, NEW k \in 1..n PROVE <<rl(s, n + 1 - k)>> \o s \in S
    OBVIOUS
  <2>1. n + 1 - k \in Nodes
    BY <1>1
  <2>2. PICK e \in Seq(BOOLEAN) : e = rl(s, n + 1 - k)
    BY <1>2, <2>1
  <2> QED BY <2>2
<1>5. PICK f : IsRun(f, S, n, <<>>, Step)
  <2>1. <<>> \in S
    OBVIOUS
  <2> HIDE DEF Step, S
  <2> QED BY <1>1, <1>4, <2>1, RecursionExists
<1>6. f \in [0..n -> S] /\ f[0] = <<>> /\ \A k \in 1..n : f[k] = put(f, k)
  <2>1. f \in [0..n -> S] /\ f[0] = <<>>
    BY <1>5 DEF IsRun
  <2> SUFFICES ASSUME NEW k \in 1..n PROVE f[k] = put(f, k)
    BY <2>1
  <2>2. k - 1 \in 0..n
    BY <1>1
  <2>3. <<f[k - 1], k>> \in S \X (1..n)
    BY <2>1, <2>2
  <2>4. Step[<<f[k - 1], k>>] = put(f, k)
    <3> HIDE DEF S
    <3> QED BY <2>3
  <2>5. f[k] = Step[<<f[k - 1], k>>]
    BY <1>5 DEF IsRun
  <2> QED BY <2>4, <2>5
<1>7. Rule(f)
  <2>1. f = [k \in 0..n |-> f[k]] /\ f[0] = <<>> /\ \A k \in 1..n : f[k] = put(f, k)
    BY <1>6
  <2> HIDE DEF put
  <2> QED BY <1>1, <2>1
<1>8. Rule(CHOOSE u : Rule(u))
  <2> HIDE DEF Rule
  <2> QED BY <1>7
<1>9. PICK u : u = (CHOOSE z : Rule(z))
  OBVIOUS
<1>10. u = [k \in 0..n |-> IF k = 0 THEN <<>> ELSE put(u, k)]
  BY <1>8, <1>9
<1>11. u[0] = <<>> /\ \A k \in 1..n : u[k] = put(u, k)
  <2>1. PICK r : r = [k \in 0..n |-> IF k = 0 THEN <<>> ELSE put(u, k)]
    OBVIOUS
  <2> HIDE DEF put
  <2>2. r[0] = <<>> /\ \A k \in 1..n : r[k] = put(u, k)
    BY <1>1, <2>1
  <2> QED BY <1>10, <2>1, <2>2
<1> DEFINE Good(s, k) == /\ s \in S /\ Len(s) = k
                         /\ \A j \in 1..k : s[j] \in Seq(BOOLEAN) /\ Len(s[j]) = Node[n - k + j].w
           A == {k \in Nat : k <= n => Good(u[k], k)}
<1>12. 0 \in A
  <2>1. u[0] \in S /\ Len(u[0]) = 0 /\ 1..0 = {}
    BY <1>11
  <2>2. Good(u[0], 0)
    <3> HIDE DEF S
    <3> QED BY <2>1
  <2> HIDE DEF Good
  <2> QED BY <2>2
<1>13. \A k \in Nat : k \in A => k + 1 \in A
  <2> SUFFICES ASSUME NEW k \in Nat, k + 1 <= n, Good(u[k], k) PROVE Good(u[k + 1], k + 1)
    <3>1. \A m \in Nat : m + 1 <= n => m <= n
      BY <1>1
    <3> HIDE DEF Good
    <3> QED BY <3>1
  <2>1. k + 1 \in 1..n /\ (k + 1) - 1 = k /\ n + 1 - (k + 1) = n - k /\ n - k \in Nodes
    BY <1>1
  <2>2. PICK e : e = rl(u[k], n - k) /\ e \in Seq(BOOLEAN) /\ Len(e) = Node[n - k].w
    BY <1>2, <2>1
  <2>3. PICK s : s = u[k] /\ s \in S /\ Len(s) = k
    OBVIOUS
  <2>4. u[k + 1] = <<e>> \o s
    BY <1>11, <2>1, <2>2, <2>3
  <2>5. PICK c : c = <<e>> \o s /\ c \in S /\ Len(c) = k + 1 /\ c[1] = e /\ \A j \in 1..k : c[j + 1] = s[j]
    <3>1. <<e>> \in Seq(Seq(BOOLEAN)) /\ Len(<<e>>) = 1 /\ <<e>>[1] = e
      BY <2>2
    <3>2. <<e>> \o s \in S /\ Len(<<e>> \o s) = k + 1 /\ (<<e>> \o s)[1] = e /\ \A j \in 1..k : (<<e>> \o s)[j + 1] = s[j]
      BY <2>3, <3>1
    <3> QED BY <3>2
  <2>6. \A j \in 1..k + 1 : c[j] \in Seq(BOOLEAN) /\ Len(c[j]) = Node[n - (k + 1) + j].w
    <3> SUFFICES ASSUME NEW j \in 1..k + 1 PROVE c[j] \in Seq(BOOLEAN) /\ Len(c[j]) = Node[n - (k + 1) + j].w
      OBVIOUS
    <3>1. CASE j = 1
      <4>1. n - (k + 1) + j = n - k
        BY <1>1, <3>1
      <4> QED BY <2>2, <2>5, <3>1, <4>1
    <3>2. CASE j # 1
      <4>1. PICK m \in 1..k : j = m + 1
        <5>1. j - 1 \in 1..k /\ j = (j - 1) + 1
          BY <3>2
        <5> QED BY <5>1
      <4>2. c[j] = s[m]
        BY <2>5, <4>1
      <4>3. n - (k + 1) + j = n - k + m
        BY <1>1, <4>1
      <4>4. s[m] \in Seq(BOOLEAN) /\ Len(s[m]) = Node[n - k + m].w
        BY <2>3
      <4> QED BY <4>2, <4>3, <4>4
    <3> QED BY <3>1, <3>2
  <2>7. Good(c, k + 1)
    BY <2>5, <2>6
  <2> HIDE DEF Good, S
  <2> QED BY <2>4, <2>5, <2>7
<1>14. Nat \subseteq A
  <2> HIDE DEF A
  <2> QED BY <1>12, <1>13, NatSetInduction
<1>15. Good(u[n], n)
  <2>1. n \in A /\ n <= n
    <3> HIDE DEF A
    <3> QED BY <1>1, <1>14
  <2> HIDE DEF Good
  <2> QED BY <2>1
<1>16. n - n + i = i
  BY <1>1
<1>17. RelevanceOf(v, tn, keeping) = u[n]
  BY <1>3, <1>9
<1> QED BY <1>1, <1>15, <1>16, <1>17

LEMMA UnlessQuiet ==
  ASSUME NEW r \in Seq(BOOLEAN), NEW b \in 1..Len(r), r[b], NEW m \in Nat, NEW n \in Nat, NEW p \in BOOLEAN,
         ~AnyBit(Fit(BitAnd(r, Fill(m, ~p)), n))
  PROVE  p \/ b > n \/ b > m
<1> SUFFICES ASSUME ~p, b <= n, b <= m PROVE FALSE
  OBVIOUS
<1>1. Fill(m, ~p) \in Seq(BOOLEAN) /\ Len(Fill(m, ~p)) = m /\ \A c \in 1..m : Fill(m, ~p)[c] <=> ~p
  BY FillIs
<1>2. PICK f : f = Fill(m, ~p)
  OBVIOUS
<1>3. Bit(f, b) /\ Bit(r, b)
  BY <1>1, <1>2, BitIs
<1>4. Bit(BitAnd(r, f), b)
  BY <1>1, <1>2, <1>3, AndBit
<1>5. b \in 1..n /\ ~AnyBit(Fit(BitAnd(r, f), n))
  BY <1>2
<1> QED BY <1>4, <1>5, FitQuiet

LEMMA FitRelevant ==
  ASSUME NEW r \in Seq(BOOLEAN), NEW b \in 1..Len(r), r[b], NEW n \in Nat, ~AnyBit(Fit(r, n))
  PROVE  b > n
<1> SUFFICES ASSUME b <= n PROVE FALSE
  OBVIOUS
<1>1. Bit(r, b) /\ b \in 1..n
  BY BitIs
<1> QED BY <1>1, FitQuiet

LEMMA TwoBits ==
  ASSUME NEW op, NEW w \in Nat \ {0}, NEW b \in 1..w, NEW x \in Seq(BOOLEAN), NEW y \in Seq(BOOLEAN)
  PROVE  /\ op = "&" => TwoOpValue(op, w, x, y)[b] = (Bit(x, b) /\ Bit(y, b))
         /\ op = "|" => TwoOpValue(op, w, x, y)[b] = (Bit(x, b) \/ Bit(y, b))
         /\ op = "^" => TwoOpValue(op, w, x, y)[b] = ~(Bit(x, b) <=> Bit(y, b))
         /\ op = "&&" => TwoOpValue(op, w, x, y)[b] = (b = 1 /\ AnyBit(x) /\ AnyBit(y))
         /\ op = "||" => TwoOpValue(op, w, x, y)[b] = (b = 1 /\ (AnyBit(x) \/ AnyBit(y)))
<1>1. \A z : Fit(z, w)[b] = Bit(z, b)
  BY DEF Fit
<1>2. \A z : Bit(z, b) \in BOOLEAN
  BY DEF Bit
<1>3. op = "&" => TwoOpValue(op, w, x, y)[b] = (Bit(x, b) /\ Bit(y, b))
  <2> SUFFICES ASSUME op = "&" PROVE TwoOpValue(op, w, x, y)[b] = (Bit(x, b) /\ Bit(y, b))
    OBVIOUS
  <2>1. TwoOpValue(op, w, x, y) = Fit(BitAnd(x, y), w)
    BY DEF TwoOpValue
  <2> QED BY <1>1, <1>2, <2>1, AndBit
<1>4. op = "|" => TwoOpValue(op, w, x, y)[b] = (Bit(x, b) \/ Bit(y, b))
  <2> SUFFICES ASSUME op = "|" PROVE TwoOpValue(op, w, x, y)[b] = (Bit(x, b) \/ Bit(y, b))
    OBVIOUS
  <2>1. TwoOpValue(op, w, x, y) = Fit(BitOr(x, y), w)
    BY DEF TwoOpValue
  <2> QED BY <1>1, <1>2, <2>1, OrBit
<1>5. op = "^" => TwoOpValue(op, w, x, y)[b] = ~(Bit(x, b) <=> Bit(y, b))
  <2> SUFFICES ASSUME op = "^" PROVE TwoOpValue(op, w, x, y)[b] = ~(Bit(x, b) <=> Bit(y, b))
    OBVIOUS
  <2>1. TwoOpValue(op, w, x, y) = Fit(BitXor(x, y), w)
    BY DEF TwoOpValue
  <2> QED BY <1>1, <1>2, <2>1, XorBit
<1>6. ASSUME NEW p \in BOOLEAN PROVE Fit(Truth(p), w)[b] = (b = 1 /\ p)
  <2>1. PICK z \in Seq(BOOLEAN) : z = Truth(p) /\ Len(z) = 1 /\ (z[1] <=> p)
    BY TruthIs
  <2>2. Bit(z, b) <=> b \in 1..Len(z) /\ z[b]
    BY <2>1, BitIs
  <2>3. Bit(z, b) <=> b = 1 /\ p
    <3>1. CASE b = 1
      BY <2>1, <2>2, <3>1
    <3>2. CASE b # 1
      BY <2>1, <2>2, <3>2
    <3> QED BY <3>1, <3>2
  <2> QED BY <1>1, <1>2, <2>1, <2>3
<1>7. AnyBit(x) \in BOOLEAN /\ AnyBit(y) \in BOOLEAN
  BY DEF AnyBit
<1>8. op = "&&" => TwoOpValue(op, w, x, y)[b] = (b = 1 /\ AnyBit(x) /\ AnyBit(y))
  <2> SUFFICES ASSUME op = "&&" PROVE TwoOpValue(op, w, x, y)[b] = (b = 1 /\ AnyBit(x) /\ AnyBit(y))
    OBVIOUS
  <2>1. TwoOpValue(op, w, x, y) = Fit(Truth(AnyBit(x) /\ AnyBit(y)), w)
    BY DEF TwoOpValue
  <2>2. PICK p \in BOOLEAN : p = (AnyBit(x) /\ AnyBit(y))
    OBVIOUS
  <2>3. TwoOpValue(op, w, x, y)[b] = (b = 1 /\ p)
    BY <1>6, <2>1, <2>2
  <2> QED BY <2>2, <2>3
<1>9. op = "||" => TwoOpValue(op, w, x, y)[b] = (b = 1 /\ (AnyBit(x) \/ AnyBit(y)))
  <2> SUFFICES ASSUME op = "||" PROVE TwoOpValue(op, w, x, y)[b] = (b = 1 /\ (AnyBit(x) \/ AnyBit(y)))
    OBVIOUS
  <2>1. TwoOpValue(op, w, x, y) = Fit(Truth(AnyBit(x) \/ AnyBit(y)), w)
    BY DEF TwoOpValue
  <2>2. PICK p \in BOOLEAN : p = (AnyBit(x) \/ AnyBit(y))
    OBVIOUS
  <2>3. TwoOpValue(op, w, x, y)[b] = (b = 1 /\ p)
    BY <1>6, <2>1, <2>2
  <2> QED BY <2>2, <2>3
<1> QED BY <1>3, <1>4, <1>5, <1>8, <1>9

\* Why a relevant bit b of the result asks for nothing of operand x.
Asks(op, x, y, b) ==
  \/ b > Len(x.v)
  \/ op = "||" /\ AnyBit(y.v)
  \/ op \in {"&&", "&"} /\ ~AnyBit(y.v)
  \/ op = "|" /\ Num(y.v) = Num(Fill(Len(x.v), TRUE))
  \/ op \in {"||", "&&", "&", "|"} /\ b > Len(y.v)

LEMMA TwoAsks ==
  ASSUME NEW op, NEW w \in Nat \ {0}, NEW x, Operand(x), NEW y, Operand(y),
         NEW r \in Seq(BOOLEAN), Len(r) = w, NEW b \in 1..w, r[b], NEW top \in BOOLEAN,
         op \in CompareOps => w = 1, ~AnyBit(TwoOpR(op, r, x, y, top))
  PROVE  op \notin CompareOps /\ op \notin ShiftOps /\ Asks(op, x, y, b)
<1>1. /\ Len(x.v) \in Nat \ {0} /\ Len(y.v) \in Nat \ {0} /\ y.num \in BOOLEAN
      /\ x.v \in Seq(BOOLEAN) /\ y.v \in Seq(BOOLEAN)
  BY DEF Operand
<1>2. PICK n \in Nat \ {0}, m \in Nat \ {0} : n = Len(x.v) /\ m = Len(y.v)
  BY <1>1
<1>3. op \notin CompareOps
  <2> SUFFICES ASSUME op \in CompareOps PROVE FALSE
    OBVIOUS
  <2>1. w = 1 /\ b = 1
    OBVIOUS
  <2>2. PICK p \in BOOLEAN : p = Bit(r, 1)
    BY DEF Bit
  <2>3. p
    BY <2>1, <2>2, BitIs
  <2>4. TwoOpR(op, r, x, y, top) = Fill(Len(x.v), Bit(r, 1))
    BY DEF TwoOpR, CompareOps, ShiftOps
  <2>5. TwoOpR(op, r, x, y, top) = Fill(n, p)
    BY <1>2, <2>2, <2>4
  <2>6. AnyBit(Fill(n, p))
    BY <2>3, FillAny
  <2> QED BY <2>5, <2>6
<1>4. op \notin ShiftOps
  <2> SUFFICES ASSUME op \in ShiftOps PROVE FALSE
    OBVIOUS
  <2>1. PICK p \in BOOLEAN : p = AnyBit(r)
    BY DEF AnyBit
  <2>2. p
    BY <2>1, AnyBitIs
  <2>3. TwoOpR(op, r, x, y, top) = Fill(Len(x.v), AnyBit(r))
    BY DEF TwoOpR, CompareOps, ShiftOps
  <2>4. TwoOpR(op, r, x, y, top) = Fill(n, p)
    BY <1>2, <2>1, <2>3
  <2>5. AnyBit(Fill(n, p))
    BY <2>2, FillAny
  <2> QED BY <2>4, <2>5
<1>5. CASE top \/ y.num
  <2>1. TwoOpR(op, r, x, y, top) = Fit(r, Len(x.v))
    BY <1>3, <1>4, <1>5 DEF TwoOpR
  <2>2. b > Len(x.v)
    BY <1>1, <2>1, FitRelevant
  <2> QED BY <1>3, <1>4, <2>2 DEF Asks
<1>6. CASE ~top /\ ~y.num
  <2>1. CASE op = "||"
    <3>1. PICK p \in BOOLEAN : p = AnyBit(y.v)
      BY DEF AnyBit
    <3>2. TwoOpR(op, r, x, y, top) = Fit(BitAnd(r, Fill(Len(y.v), ~AnyBit(y.v))), Len(x.v))
      BY <1>3, <1>4, <1>6, <2>1 DEF TwoOpR
    <3>3. TwoOpR(op, r, x, y, top) = Fit(BitAnd(r, Fill(m, ~p)), n)
      BY <1>2, <3>1, <3>2
    <3>4. p \/ b > n \/ b > m
      BY <3>3, UnlessQuiet
    <3> QED BY <1>2, <1>3, <1>4, <2>1, <3>1, <3>4 DEF Asks
  <2>2. CASE op \in {"&&", "&"}
    <3>1. PICK p \in BOOLEAN : p = ~AnyBit(y.v)
      OBVIOUS
    <3>2. TwoOpR(op, r, x, y, top) = Fit(BitAnd(r, Fill(Len(y.v), ~(~AnyBit(y.v)))), Len(x.v))
      BY <1>3, <1>4, <1>6, <2>2 DEF TwoOpR
    <3>3. TwoOpR(op, r, x, y, top) = Fit(BitAnd(r, Fill(m, ~p)), n)
      BY <1>2, <3>1, <3>2
    <3>4. p \/ b > n \/ b > m
      BY <3>3, UnlessQuiet
    <3> QED BY <1>2, <1>3, <1>4, <2>2, <3>1, <3>4 DEF Asks
  <2>3. CASE op = "|"
    <3>1. PICK p \in BOOLEAN : p = (Num(y.v) = Num(Fill(Len(x.v), TRUE)))
      OBVIOUS
    <3>2. TwoOpR(op, r, x, y, top)
            = Fit(BitAnd(r, Fill(Len(y.v), ~(Num(y.v) = Num(Fill(Len(x.v), TRUE))))), Len(x.v))
      BY <1>3, <1>4, <1>6, <2>3 DEF TwoOpR
    <3>3. TwoOpR(op, r, x, y, top) = Fit(BitAnd(r, Fill(m, ~p)), n)
      BY <1>2, <3>1, <3>2
    <3>4. p \/ b > n \/ b > m
      BY <3>3, UnlessQuiet
    <3> QED BY <1>2, <1>3, <1>4, <2>3, <3>1, <3>4 DEF Asks
  <2>4. CASE op \notin {"||", "&&", "&", "|"}
    <3>1. TwoOpR(op, r, x, y, top) = Fit(r, Len(x.v))
      BY <1>3, <1>4, <1>6, <2>4 DEF TwoOpR
    <3>2. b > Len(x.v)
      BY <1>1, <3>1, FitRelevant
    <3> QED BY <1>3, <1>4, <3>2 DEF Asks
  <2> QED BY <2>1, <2>2, <2>3, <2>4
<1> QED BY <1>5, <1>6

LEMMA TwoRelevance ==
  ASSUME NEW op \in SomeOps, NEW w \in Nat \ {0}, NEW x, Operand(x), NEW y, Operand(y),
         NEW u \in Seq(BOOLEAN), Len(u) = Len(x.v), NEW b \in 1..w,
         op \in SumOps => Len(x.v) >= w, op = "|" => Len(x.v) = Len(y.v),
         op \notin CompareOps, op \notin ShiftOps, Asks(op, x, y, b)
  PROVE  /\ TwoOpValue(op, w, u, y.v)[b] = TwoOpValue(op, w, x.v, y.v)[b]
         /\ TwoOpValue(op, w, y.v, u)[b] = TwoOpValue(op, w, y.v, x.v)[b]
<1>1. /\ Len(x.v) \in Nat \ {0} /\ Len(y.v) \in Nat \ {0} /\ x.v \in Seq(BOOLEAN) /\ y.v \in Seq(BOOLEAN)
  BY DEF Operand
<1>2. PICK n \in Nat \ {0}, m \in Nat \ {0} : n = Len(x.v) /\ m = Len(y.v) /\ n = Len(u)
  BY <1>1
<1>3. PICK a, c : a = x.v /\ c = y.v /\ a \in Seq(BOOLEAN) /\ c \in Seq(BOOLEAN)
  BY <1>1
<1>4. b > n => ~Bit(u, b) /\ ~Bit(a, b)
  BY <1>2, <1>3, BitIs
<1>5. b > m => ~Bit(c, b)
  BY <1>2, <1>3, BitIs
<1>6. \/ op = "&" \/ op = "|" \/ op = "^" \/ op = "&&" \/ op = "||" \/ op \in SumOps
  BY DEF SomeOps, SumOps, CompareOps, ShiftOps
<1>7. Bit(u, b) \in BOOLEAN /\ Bit(a, b) \in BOOLEAN /\ Bit(c, b) \in BOOLEAN /\ AnyBit(c) \in BOOLEAN
  BY DEF Bit, AnyBit
<1>8. CASE op = "&"
  <2>1. b > n \/ b > m \/ ~AnyBit(c)
    BY <1>2, <1>3, <1>8 DEF Asks
  <2>2. ~AnyBit(c) => ~Bit(c, b)
    BY DEF AnyBit, Bit
  <2>3. /\ (Bit(u, b) /\ Bit(c, b)) = (Bit(a, b) /\ Bit(c, b))
        /\ (Bit(c, b) /\ Bit(u, b)) = (Bit(c, b) /\ Bit(a, b))
    BY <1>4, <1>5, <2>1, <2>2
  <2> QED BY <1>3, <1>8, <2>3, TwoBits
<1>9. CASE op = "|"
  <2>1. b > n \/ Num(c) = Num(Fill(n, TRUE))
    BY <1>2, <1>3, <1>9 DEF Asks
  <2>2. Num(c) = Num(Fill(n, TRUE)) /\ b <= n => Bit(c, b)
    <3>1. PICK f : f = Fill(n, TRUE) /\ f \in Seq(BOOLEAN) /\ Len(f) = n /\ \A j \in 1..n : f[j]
      BY FillIs
    <3>2. f \in Words(n) /\ c \in Words(m)
      BY <1>2, <1>3, <3>1, SeqWord
    <3>5. Bit(f, b) <=> b \in 1..Len(f) /\ f[b]
      BY <3>1, BitIs
    <3>3. b <= n => Bit(f, b)
      <4> SUFFICES ASSUME b <= n PROVE Bit(f, b)
        OBVIOUS
      <4>1. b \in 1..n
        OBVIOUS
      <4>2. Len(f) = n /\ f[b]
        BY <3>1, <4>1, Zenon
      <4> QED BY <3>5, <4>1, <4>2, Zenon
    <3>4. Num(c) = Num(f) => (Bit(c, b) <=> Bit(f, b))
      BY <3>2, NumDecides
    <3> QED BY <3>1, <3>3, <3>4
  <2>3. /\ (Bit(u, b) \/ Bit(c, b)) = (Bit(a, b) \/ Bit(c, b))
        /\ (Bit(c, b) \/ Bit(u, b)) = (Bit(c, b) \/ Bit(a, b))
    <3>1. CASE b > n
      BY <1>4, <1>7, <3>1
    <3>2. CASE b <= n
      <4>1. ~(b > n)
        BY <3>2
      <4>2. Bit(c, b)
        BY <2>1, <2>2, <3>2, <4>1, Zenon
      <4> QED BY <1>7, <4>2
    <3> QED BY <3>1, <3>2
  <2> QED BY <1>3, <1>9, <2>3, TwoBits
<1>10. CASE op = "^"
  <2>1. b > n
    BY <1>2, <1>10 DEF Asks
  <2>2. Bit(u, b) = Bit(a, b)
    BY <1>4, <1>7, <2>1
  <2> QED BY <1>3, <1>10, <2>2, TwoBits
<1>11. CASE op = "&&"
  <2>1. b > n \/ b > m \/ ~AnyBit(c)
    BY <1>2, <1>3, <1>11 DEF Asks
  <2>2. b = 1 => ~AnyBit(c)
    BY <2>1
  <2>3. /\ (b = 1 /\ AnyBit(u) /\ AnyBit(c)) = (b = 1 /\ AnyBit(a) /\ AnyBit(c))
        /\ (b = 1 /\ AnyBit(c) /\ AnyBit(u)) = (b = 1 /\ AnyBit(c) /\ AnyBit(a))
    <3>1. CASE b = 1
      BY <2>2, <3>1
    <3>2. CASE b # 1
      BY <3>2
    <3> QED BY <3>1, <3>2
  <2> QED BY <1>3, <1>11, <2>3, TwoBits
<1>12. CASE op = "||"
  <2>1. b > n \/ b > m \/ AnyBit(c)
    BY <1>2, <1>3, <1>12 DEF Asks
  <2>2. b = 1 => AnyBit(c)
    BY <2>1
  <2>3. /\ (b = 1 /\ (AnyBit(u) \/ AnyBit(c))) = (b = 1 /\ (AnyBit(a) \/ AnyBit(c)))
        /\ (b = 1 /\ (AnyBit(c) \/ AnyBit(u))) = (b = 1 /\ (AnyBit(c) \/ AnyBit(a)))
    <3>1. CASE b = 1
      BY <2>2, <3>1
    <3>2. CASE b # 1
      BY <3>2
    <3> QED BY <3>1, <3>2
  <2> QED BY <1>3, <1>12, <2>3, TwoBits
<1>13. CASE op \in SumOps
  <2>1. b > Len(x.v)
    BY <1>13 DEF Asks, SumOps
  <2> QED BY <1>1, <1>13, <2>1
<1> QED BY <1>6, <1>8, <1>9, <1>10, <1>11, <1>12, <1>13

LEMMA OneRelevance ==
  ASSUME NEW op \in OneOps, NEW w \in Nat \ {0}, NEW x \in Seq(BOOLEAN), NEW u \in Seq(BOOLEAN), Len(u) = Len(x),
         NEW b \in 1..w, b > Len(x), op # "-"
  PROVE  OneOpValue(op, w, u)[b] = OneOpValue(op, w, x)[b]
<1>1. \A z : Fit(z, w)[b] = Bit(z, b)
  BY DEF Fit
<1>2. Bit(u, b) = FALSE /\ Bit(x, b) = FALSE
  BY BitIs
<1>3. BitNot(u) \in Seq(BOOLEAN) /\ Len(BitNot(u)) = Len(x) /\ BitNot(x) \in Seq(BOOLEAN) /\ Len(BitNot(x)) = Len(x)
  BY NotIs
<1>4. Bit(BitNot(u), b) = FALSE /\ Bit(BitNot(x), b) = FALSE
  BY <1>3, BitIs
<1>5. op = "" \/ op = "~"
  BY DEF OneOps
<1>6. CASE op = ""
  <2>1. OneOpValue(op, w, u) = Fit(u, w) /\ OneOpValue(op, w, x) = Fit(x, w)
    BY <1>6, Zenon DEF OneOpValue
  <2> QED BY <1>1, <1>2, <2>1, Zenon
<1>7. CASE op = "~"
  <2>1. OneOpValue(op, w, u) = Fit(BitNot(u), w) /\ OneOpValue(op, w, x) = Fit(BitNot(x), w)
    BY <1>7, Zenon DEF OneOpValue
  <2> QED BY <1>1, <1>4, <2>1, Zenon
<1> QED BY <1>5, <1>6, <1>7, Zenon

\* A slice at a number, and where its bits come from.
LEMMA PartRelevance ==
  ASSUME NEW hi \in Int, NEW lo \in Nat, NEW x \in Seq(BOOLEAN), NEW u \in Seq(BOOLEAN), Len(u) = Len(x),
         NEW r, NEW b \in 1..(hi - lo + 1), Bit(r, b), ~AnyBit(Place(r, hi, lo, Len(x)))
  PROVE  Part(u, hi, lo)[b] = Part(x, hi, lo)[b]
<1>1. \A z : Part(z, hi, lo)[b] = Bit(z, lo + b)
  BY DEF Part
<1>2. lo + b \in Nat /\ lo + b - 1 \in lo..hi /\ (lo + b) - lo = b /\ Len(x) \in Nat
  BY SeqWord
<1>3. ~(lo + b \in 1..Len(x))
  <2> SUFFICES ASSUME lo + b \in 1..Len(x) PROVE FALSE
    OBVIOUS
  <2>1. Place(r, hi, lo, Len(x)) = [i \in 1..Len(x) |-> i - 1 \in lo..hi /\ Bit(r, i - lo)]
    BY DEF Place
  <2>2. PICK j : j = lo + b /\ j \in 1..Len(x) /\ j - 1 \in lo..hi /\ j - lo = b
    BY <1>2
  <2>3. PICK p : p = Place(r, hi, lo, Len(x))
    OBVIOUS
  <2>4. DOMAIN p = 1..Len(x) /\ p[j] = (j - 1 \in lo..hi /\ Bit(r, j - lo))
    BY <2>1, <2>2, <2>3
  <2>5. p[j]
    BY <2>2, <2>4
  <2> QED BY <2>2, <2>3, <2>4, <2>5 DEF AnyBit
<1>4. Bit(u, lo + b) = FALSE /\ Bit(x, lo + b) = FALSE
  BY <1>3, BitIs
<1> QED BY <1>1, <1>4

LEMMA PlaceBits ==
  ASSUME NEW w \in Nat, NEW i \in Nat \ {0}
  PROVE  w * i - 1 \in Int /\ w * (i - 1) \in Nat /\ (w * i - 1) - w * (i - 1) + 1 = w
<1>1. i - 1 \in Nat
  OBVIOUS
<1>2. w * (i - 1) \in Nat /\ w * i \in Nat
  BY <1>1
<1>3. (w * i - 1) - w * (i - 1) + 1 = w
  BY FieldWidth
<1> QED BY <1>2, <1>3

\* Operands of the same widths make a concatenation of the same width.
LEMMA ConcatLen ==
  ASSUME NEW n \in Nat, NEW xs \in [1..n -> Seq(BOOLEAN)]
  PROVE  Len(Concat([k \in 1..n |-> Zeros(Len(xs[k]))])) = Len(Concat(xs)) /\ Len(Concat(xs)) \in Nat
<1> DEFINE zs == [k \in 1..n |-> Zeros(Len(xs[k]))]
<1>1. \A k \in 1..n : Zeros(Len(xs[k])) \in Seq(BOOLEAN) /\ Covers(Zeros(Len(xs[k])), xs[k])
  <2> SUFFICES ASSUME NEW k \in 1..n PROVE Zeros(Len(xs[k])) \in Seq(BOOLEAN) /\ Covers(Zeros(Len(xs[k])), xs[k])
    OBVIOUS
  <2>1. PICK x \in Seq(BOOLEAN) : x = xs[k] /\ Len(x) \in Nat
    BY SeqWord
  <2>2. Zeros(Len(x)) \in Seq(BOOLEAN) /\ Len(Zeros(Len(x))) = Len(x) /\ \A b \in 1..Len(x) : ~Zeros(Len(x))[b]
    BY <2>1, ZerosAre
  <2> QED BY <2>1, <2>2 DEF Covers
<1>2. zs \in [1..n -> Seq(BOOLEAN)] /\ \A k \in 1..n : Covers(zs[k], xs[k])
  BY <1>1
<1> HIDE DEF zs
<1>3. Covers(Concat(zs), Concat(xs))
  BY <1>2, ConcatCovers
<1>4. Len(Concat(zs)) = Len(Concat(xs)) /\ Concat(xs) \in Seq(BOOLEAN)
  BY <1>3 DEF Covers
<1>5. Len(Concat(xs)) \in Nat
  BY <1>4, SeqWord
<1> QED BY <1>4, <1>5 DEF zs

\* The part of a concatenation's relevance that an operand is not given.
LEMMA ConcatRelevance ==
  ASSUME NEW n \in Nat, NEW x, DOMAIN x = 1..n, Len(x) = n, \A m \in 1..n : x[m].v \in Seq(BOOLEAN),
         NEW k \in 1..n, NEW us \in [1..n -> Seq(BOOLEAN)], NEW vs \in [1..n -> Seq(BOOLEAN)],
         \A m \in 1..n : vs[m] = x[m].v /\ (m # k => us[m] = vs[m]), Len(us[k]) = Len(vs[k]),
         NEW r \in Seq(BOOLEAN), Len(r) = Len(Concat(vs)), NEW b \in 1..Len(r), r[b],
         ~AnyBit(ConcatR(r, x, k))
  PROVE  Concat(us)[b] = Concat(vs)[b]
<1> DEFINE tail == [j \in 1..(n - k) |-> x[k + j].v]
<1>1. \A j \in 1..(n - k) : k + j \in 1..n /\ k + j # k
  OBVIOUS
<1>2. tail \in [1..(n - k) -> Seq(BOOLEAN)] /\ \A j \in 1..(n - k) : tail[j] = vs[k + j] /\ tail[j] = us[k + j]
  BY <1>1
<1>3. n - k \in Nat
  OBVIOUS
<1>4. ConcatR(r, x, k) = Part(r, Len(Concat(tail)) + Len(x[k].v) - 1, Len(Concat(tail)))
  BY DEF ConcatR
<1> HIDE DEF tail
<1>5. /\ Len(Concat(us)) = Len(Concat(vs)) /\ Len(Concat(tail)) \in Nat
      /\ \A c \in 1..Len(Concat(us)) :
           ~(c - Len(Concat(tail)) \in 1..Len(us[k])) => (Concat(us)[c] <=> Concat(vs)[c])
  <2>1. \A j \in 1..n : j # k => us[j] = vs[j]
    OBVIOUS
  <2>2. \A j \in 1..(n - k) : tail[j] = us[k + j]
    BY <1>2
  <2>3. tail \in [1..(n - k) -> Seq(BOOLEAN)]
    BY <1>2
  <2> QED BY <2>1, <2>2, <2>3, ConcatElsewhere
<1>6. PICK lo \in Nat, len \in Nat : lo = Len(Concat(tail)) /\ len = Len(x[k].v) /\ len = Len(us[k])
  <2>1. Len(x[k].v) \in Nat
    BY SeqWord
  <2> QED BY <1>5, <2>1
<1>7. PICK hi \in Int : hi = lo + len - 1 /\ hi - lo + 1 = len
  OBVIOUS
<1>8. PICK p : p = Part(r, hi, lo) /\ p \in Seq(BOOLEAN) /\ Len(p) = len /\ \A c \in 1..len : p[c] <=> Bit(r, lo + c)
  <2>1. hi - lo + 1 = len
    BY <1>7
  <2>2. /\ Part(r, hi, lo) \in Seq(BOOLEAN) /\ Len(Part(r, hi, lo)) = len
        /\ \A c \in 1..len : Part(r, hi, lo)[c] <=> Bit(r, lo + c)
    BY <2>1, PartIs
  <2> QED BY <2>2
<1>9. ~AnyBit(p)
  BY <1>4, <1>6, <1>7, <1>8
<1>10. ~(b - lo \in 1..len)
  <2> SUFFICES ASSUME b - lo \in 1..len PROVE FALSE
    OBVIOUS
  <2>1. PICK c \in 1..len : c = b - lo /\ lo + c = b
    OBVIOUS
  <2>2. Bit(r, b)
    BY BitIs
  <2>3. p[c]
    BY <1>8, <2>1, <2>2
  <2> QED BY <1>8, <1>9, <2>3, AnyBitIs
<1>11. b \in 1..Len(Concat(us))
  BY <1>5
<1>12. Concat(us)[b] <=> Concat(vs)[b]
  BY <1>5, <1>6, <1>10, <1>11
<1>13. Concat(us) \in Seq(BOOLEAN) /\ Concat(vs) \in Seq(BOOLEAN)
  BY ConcatType
<1>14. Concat(us)[b] \in BOOLEAN /\ Concat(vs)[b] \in BOOLEAN
  BY <1>11, <1>13, <1>5
<1> QED BY <1>12, <1>14

LEMMA MaskQuiet ==
  ASSUME NEW r \in Seq(BOOLEAN), NEW b \in 1..Len(r), r[b], NEW p \in BOOLEAN
  PROVE  (~AnyBit(BitAnd(Fill(Len(r), p), r)) => ~p) /\ (~AnyBit(BitAnd(r, Fill(Len(r), p))) => ~p)
<1>1. Len(r) \in Nat
  BY SeqWord
<1>2. PICK f : f = Fill(Len(r), p) /\ f \in Seq(BOOLEAN) /\ Len(f) = Len(r) /\ \A c \in 1..Len(r) : f[c] <=> p
  <2>1. PICK m \in Nat : m = Len(r)
    BY <1>1
  <2>2. Fill(m, p) \in Seq(BOOLEAN) /\ Len(Fill(m, p)) = m /\ \A c \in 1..m : Fill(m, p)[c] <=> p
    BY FillIs
  <2>3. PICK f : f = Fill(m, p)
    OBVIOUS
  <2>4. f \in Seq(BOOLEAN) /\ Len(f) = m /\ \A c \in 1..m : f[c] <=> p
    BY <2>2, <2>3
  <2>5. f = Fill(Len(r), p) /\ Len(f) = Len(r) /\ \A c \in 1..Len(r) : f[c] <=> p
    BY <2>1, <2>3, <2>4, Zenon
  <2> QED BY <2>4, <2>5, Zenon
<1>3. p => Bit(f, b) /\ Bit(r, b)
  BY <1>2, BitIs
<1>4. p => Bit(BitAnd(f, r), b) /\ Bit(BitAnd(r, f), b)
  BY <1>2, <1>3, AndBit
<1>5. p => AnyBit(BitAnd(f, r)) /\ AnyBit(BitAnd(r, f))
  BY <1>4 DEF Bit, AnyBit
<1> QED BY <1>2, <1>5

LEMMA ReduceRelevance ==
  ASSUME NEW op, NEW x, Operand(x), NEW r \in Seq(BOOLEAN), Len(r) = 1, r[1], ~AnyBit(ReduceR(op, r, x))
  PROVE  (op = "|" /\ ~AnyBit(x.v)) \/ (op = "&" /\ ~AnyBit(BitNot(x.v)))
<1>1. x.v \in Seq(BOOLEAN) /\ Len(x.v) \in Nat \ {0}
  BY DEF Operand
<1>2. PICK p \in BOOLEAN : p = Bit(r, 1)
  BY DEF Bit
<1>4. PICK f : f = Fill(Len(x.v), p) /\ f \in Seq(BOOLEAN) /\ Len(f) = Len(x.v) /\ \A c \in 1..Len(x.v) : f[c] <=> p
  <2>1. PICK m \in Nat : m = Len(x.v)
    BY <1>1
  <2>2. Fill(m, p) \in Seq(BOOLEAN) /\ Len(Fill(m, p)) = m /\ \A c \in 1..m : Fill(m, p)[c] <=> p
    BY FillIs
  <2>3. PICK f : f = Fill(m, p)
    OBVIOUS
  <2>4. f \in Seq(BOOLEAN) /\ Len(f) = m /\ \A c \in 1..m : f[c] <=> p
    BY <2>2, <2>3
  <2>5. f = Fill(Len(x.v), p) /\ Len(f) = Len(x.v) /\ \A c \in 1..Len(x.v) : f[c] <=> p
    BY <2>1, <2>3, <2>4, Zenon
  <2> QED BY <2>4, <2>5, Zenon
<1>3. p
  BY <1>2, BitIs
<1>5. ASSUME NEW z \in Seq(BOOLEAN), Len(z) = Len(x.v), ~AnyBit(BitAnd(f, z)) PROVE ~AnyBit(z)
  <2> SUFFICES ASSUME NEW c \in 1..Len(z), z[c] PROVE FALSE
    BY <1>5, AnyBitIs
  <2>1. Bit(f, c) /\ Bit(z, c)
    BY <1>3, <1>4, <1>5, BitIs
  <2>2. Bit(BitAnd(f, z), c)
    BY <1>4, <2>1, AndBit
  <2> QED BY <1>5, <2>2 DEF Bit, AnyBit
<1>6. CASE op = "|"
  <2>1. ReduceR(op, r, x) = BitAnd(f, x.v)
    BY <1>2, <1>4, <1>6 DEF ReduceR
  <2> QED BY <1>1, <1>5, <1>6, <2>1
<1>7. CASE op = "&"
  <2>1. ReduceR(op, r, x) = BitAnd(f, BitNot(x.v))
    BY <1>2, <1>4, <1>7 DEF ReduceR
  <2>2. BitNot(x.v) \in Seq(BOOLEAN) /\ Len(BitNot(x.v)) = Len(x.v)
    BY <1>1, NotIs
  <2> QED BY <1>5, <1>7, <2>1, <2>2
<1>8. CASE op # "|" /\ op # "&"
  <2>1. ReduceR(op, r, x) = f
    BY <1>2, <1>4, <1>8 DEF ReduceR
  <2>2. AnyBit(f)
    BY <1>1, <1>3, <1>4, FillAny
  <2> QED BY <2>1, <2>2
<1> QED BY <1>6, <1>7, <1>8

LEMMA StatementRelevance ==
  ASSUME net \in Nets, NEW i \in Comb, RelevanceWidths(Node[i]), NEW v, NEW tn, NEW k \in VarSlots(i),
         NEW u \in Seq(BOOLEAN), Len(u) = Len(Get(v, Node[i].ops[k])),
         NEW r \in Seq(BOOLEAN), Len(r) = Node[i].w, NEW b \in 1..Node[i].w, r[b], ~Nameless(v, i, k),
         ~AnyBit(OperandR(i, k, Views(i, v, tn, NoSigs), r, {}))
  PROVE  Instead(v, i, k, u)[b] = Apply(Node[i], Words0(i, v))[b]
<1> DEFINE nd == Node[i]
           x == Views(i, v, tn, NoSigs)
           us == Words1(i, v, k, u)
           vs == Words0(i, v)
           no == OperandR(i, k, x, r, {})
<1>1. nd.w \in Nat \ {0} /\ nd.top \in BOOLEAN /\ StatementOK(nd, i, Len(Node))
  BY CombIs DEF StatementOK
<1>2. \/ nd.k = "two" \/ nd.k = "one" \/ nd.k = "red" \/ nd.k = "sel" \/ nd.k = "cat" \/ nd.k = "ite" \/ nd.k = "case"
  BY CombIs
<1>3. k \in DOMAIN nd.ops /\ nd.ops[k].n # 0
  BY DEF VarSlots
<1>4. \A m \in DOMAIN nd.ops : /\ Operand(x[m]) /\ Len(x[m].v) = Width(nd.ops[m]) /\ (x[m].num <=> nd.ops[m].n = 0)
                               /\ x[m].v = Get(v, nd.ops[m])
  BY SlotsAre
<1>5. \A m \in DOMAIN nd.ops : vs[m] = x[m].v /\ us[m] = IF m = k THEN u ELSE x[m].v
  BY SlotsAre, InsteadIs
<1>6. DOMAIN us = DOMAIN nd.ops /\ DOMAIN vs = DOMAIN nd.ops /\ DOMAIN x = DOMAIN nd.ops
  BY DEF Words1, Words0, Views
<1>7. Instead(v, i, k, u) = Apply(nd, us)
  BY InsteadIs
<1>8. PICK n \in Nat : DOMAIN nd.ops = 1..n
  BY CombIs
<1>9. /\ RelevanceWidths(nd) /\ ~AnyBit(no) /\ ~x[k].num /\ Len(u) = Len(x[k].v) /\ Len(r) = nd.w /\ b \in 1..nd.w
      /\ x[k].v = Get(v, nd.ops[k])
  BY <1>3, <1>4
<1>10. Bit(r, b) /\ AnyBit(r)
  BY <1>9, BitIs, AnyBitIs
<1>11. ~Nameless(v, i, k) => /\ ~(nd.k = "red" /\ nd.op = "|" /\ ~AnyBit(x[k].v))
                             /\ ~(nd.k = "red" /\ nd.op = "&" /\ ~AnyBit(BitNot(x[k].v)))
                             /\ ~(nd.k = "case" /\ k = 1 /\ CaseTaken(x[k].v) = 0)
  BY <1>9 DEF Nameless
<1>12. /\ nd.k = "two" => no = TwoOpR(nd.op, r, x[k], x[3 - k], nd.top)
       /\ nd.k = "one" => no = OneOpR(r, x[1])
       /\ nd.k = "red" => no = ReduceR(nd.op, r, x[1])
       /\ nd.k = "sel" => no = IF k = 1 THEN SelDataR(nd.w, r, x[1], x[2]) ELSE SelIndexR(r, x[2])
       /\ nd.k = "cat" => no = ConcatR(r, x, k)
       /\ nd.k = "ite" => no = IF k = 1 THEN IteCondR(r, x[2], x[3]) ELSE IteDataR(r, AnyBit(x[1].v) = (k = 2))
       /\ nd.k = "case" => no = <<CaseSelR(r, x[1], x[2], x[3]), CaseDataR(nd.w, r, x[1], x[2]),
                                  CaseDefaultR(r, x[1])>>[k]
  BY DEF OperandR
<1>13. \A m \in DOMAIN nd.ops : x[m].v \in Seq(BOOLEAN) /\ Len(x[m].v) \in Nat \ {0}
  BY <1>4 DEF Operand
<1>14. SUFFICES Apply(nd, us)[b] = Apply(nd, vs)[b]
  BY <1>7
<1> HIDE DEF nd, x, us, vs, no
<1>15. CASE nd.k = "two"
  <2>1. DOMAIN nd.ops = 1..2 /\ nd.op \in SomeOps /\ (nd.op \in CompareOps => nd.w = 1)
    BY <1>1, <1>15 DEF StatementOK
  <2>2. 1 \in DOMAIN nd.ops /\ 2 \in DOMAIN nd.ops /\ (k = 1 \/ k = 2)
    BY <1>3, <2>1
  <2>3. PICK a, c : a = x[1] /\ c = x[2] /\ Operand(a) /\ Operand(c) /\ vs[1] = a.v /\ vs[2] = c.v
    BY <1>4, <1>5, <2>2
  <2>4. \A y : Apply(nd, y) = TwoOpValue(nd.op, nd.w, y[1], y[2])
    BY <1>15 DEF Apply
  <2>5. /\ nd.op \in SumOps => Len(a.v) >= nd.w /\ Len(c.v) >= nd.w
        /\ nd.op = "|" => Len(a.v) = Len(c.v)
    <3>1. /\ nd.op \in SumOps => \A m \in DOMAIN nd.ops : Width(nd.ops[m]) >= nd.w
          /\ nd.op = "|" => Width(nd.ops[1]) = Width(nd.ops[2])
      BY <1>9, <1>15 DEF RelevanceWidths
    <3>2. Len(a.v) = Width(nd.ops[1]) /\ Len(c.v) = Width(nd.ops[2])
      BY <1>4, <2>2, <2>3
    <3> QED BY <2>2, <3>1, <3>2
  <2>6. CASE k = 1
    <3>1. us[1] = u /\ us[2] = c.v /\ Len(u) = Len(a.v)
      BY <1>5, <1>9, <2>2, <2>3, <2>6
    <3>2. 3 - k = 2 /\ ~AnyBit(TwoOpR(nd.op, r, a, c, nd.top))
      BY <1>9, <1>12, <1>15, <2>3, <2>6
    <3>3. nd.op \notin CompareOps /\ nd.op \notin ShiftOps /\ Asks(nd.op, a, c, b)
      BY <1>1, <1>9, <2>1, <2>3, <3>2, TwoAsks
    <3>4. TwoOpValue(nd.op, nd.w, u, c.v)[b] = TwoOpValue(nd.op, nd.w, a.v, c.v)[b]
      <4>1. PICK w \in Nat \ {0} : w = nd.w
        BY <1>1
      <4>2. PICK op \in SomeOps : op = nd.op
        BY <2>1
      <4>3. Operand(a) /\ Operand(c) /\ Len(u) = Len(a.v)
        BY <2>3, <3>1
      <4>4. b \in 1..w
        BY <1>9, <4>1
      <4>5. op \in SumOps => Len(a.v) >= w
        BY <2>5, <4>1, <4>2
      <4>6. op = "|" => Len(a.v) = Len(c.v)
        BY <2>5, <4>2
      <4>7. op \notin CompareOps /\ op \notin ShiftOps /\ Asks(op, a, c, b)
        BY <3>3, <4>2
      <4>8. TwoOpValue(op, w, u, c.v)[b] = TwoOpValue(op, w, a.v, c.v)[b]
        BY <4>3, <4>4, <4>5, <4>6, <4>7, TwoRelevance
      <4> QED BY <4>1, <4>2, <4>8
    <3> QED BY <2>3, <2>4, <3>1, <3>4
  <2>7. CASE k = 2
    <3>1. us[1] = a.v /\ us[2] = u /\ Len(u) = Len(c.v)
      BY <1>5, <1>9, <2>2, <2>3, <2>7
    <3>2. 3 - k = 1 /\ ~AnyBit(TwoOpR(nd.op, r, c, a, nd.top))
      BY <1>9, <1>12, <1>15, <2>3, <2>7
    <3>3. nd.op \notin CompareOps /\ nd.op \notin ShiftOps /\ Asks(nd.op, c, a, b)
      BY <1>1, <1>9, <2>1, <2>3, <3>2, TwoAsks
    <3>4. TwoOpValue(nd.op, nd.w, a.v, u)[b] = TwoOpValue(nd.op, nd.w, a.v, c.v)[b]
      <4>1. PICK w \in Nat \ {0} : w = nd.w
        BY <1>1
      <4>2. PICK op \in SomeOps : op = nd.op
        BY <2>1
      <4>3. Operand(a) /\ Operand(c) /\ Len(u) = Len(c.v)
        BY <2>3, <3>1
      <4>4. b \in 1..w
        BY <1>9, <4>1
      <4>5. op \in SumOps => Len(c.v) >= w
        BY <2>5, <4>1, <4>2
      <4>6. op = "|" => Len(c.v) = Len(a.v)
        BY <2>5, <4>2
      <4>7. op \notin CompareOps /\ op \notin ShiftOps /\ Asks(op, c, a, b)
        BY <3>3, <4>2
      <4>8. TwoOpValue(op, w, a.v, u)[b] = TwoOpValue(op, w, a.v, c.v)[b]
        BY <4>3, <4>4, <4>5, <4>6, <4>7, TwoRelevance
      <4> QED BY <4>1, <4>2, <4>8
    <3> QED BY <2>3, <2>4, <3>1, <3>4
  <2> QED BY <2>2, <2>6, <2>7
<1>16. CASE nd.k = "one"
  <2>1. DOMAIN nd.ops = 1..1 /\ nd.op \in OneOps
    BY <1>1, <1>16 DEF StatementOK
  <2>2. k = 1
    BY <1>3, <2>1
  <2>3. PICK a : a = x[1] /\ a.v \in Seq(BOOLEAN) /\ Len(a.v) = Len(u) /\ us[1] = u /\ vs[1] = a.v
    BY <1>3, <1>5, <1>9, <1>13, <2>2
  <2>4. \A y : Apply(nd, y) = OneOpValue(nd.op, nd.w, y[1])
    BY <1>16 DEF Apply
  <2>5. ~AnyBit(Fit(r, Len(a.v)))
    BY <1>9, <1>12, <1>16, <2>3 DEF OneOpR
  <2>6. Len(a.v) \in Nat
    BY <2>3, SeqWord
  <2>7. b > Len(a.v)
    BY <1>9, <2>5, <2>6, FitRelevant
  <2>8. nd.op # "-"
    <3> SUFFICES ASSUME nd.op = "-" PROVE FALSE
      OBVIOUS
    <3>1. Width(nd.ops[1]) >= nd.w
      BY <1>3, <1>9, <1>16, <2>2 DEF RelevanceWidths, SumOps
    <3>2. Len(a.v) = Width(nd.ops[1])
      BY <1>3, <1>4, <2>2, <2>3
    <3> QED BY <1>1, <1>9, <2>6, <2>7, <3>1, <3>2
  <2>9. OneOpValue(nd.op, nd.w, u)[b] = OneOpValue(nd.op, nd.w, a.v)[b]
    BY <1>1, <1>9, <2>1, <2>3, <2>7, <2>8, OneRelevance
  <2> QED BY <2>3, <2>4, <2>9
<1>17. CASE nd.k = "red"
  <2>1. DOMAIN nd.ops = 1..1 /\ nd.w = 1
    BY <1>1, <1>17 DEF StatementOK
  <2>2. k = 1
    BY <1>3, <2>1
  <2>3. PICK a : a = x[1] /\ Operand(a)
    BY <1>3, <1>4, <2>2
  <2>4. ~AnyBit(ReduceR(nd.op, r, a)) /\ Len(r) = 1 /\ r[1]
    BY <1>9, <1>12, <1>17, <2>1, <2>3
  <2>5. (nd.op = "|" /\ ~AnyBit(a.v)) \/ (nd.op = "&" /\ ~AnyBit(BitNot(a.v)))
    BY <2>3, <2>4, ReduceRelevance
  <2> QED BY <1>11, <1>17, <2>2, <2>3, <2>5
<1>18. CASE nd.k = "sel"
  <2>1. DOMAIN nd.ops = 1..2
    BY <1>1, <1>18 DEF StatementOK
  <2>2. 1 \in DOMAIN nd.ops /\ 2 \in DOMAIN nd.ops /\ (k = 1 \/ k = 2)
    BY <1>3, <2>1
  <2>3. PICK a, c : a = x[1] /\ c = x[2] /\ Operand(a) /\ Operand(c) /\ vs[1] = a.v /\ vs[2] = c.v
    BY <1>4, <1>5, <2>2
  <2>4. \A y : Apply(nd, y) = Part(y[1], Num(y[2]) + nd.w - 1, Num(y[2]))
    BY <1>18 DEF Apply
  <2>5. a.v \in Seq(BOOLEAN) /\ c.v \in Seq(BOOLEAN) /\ Len(c.v) \in Nat \ {0}
    BY <2>3 DEF Operand
  <2>6. Num(c.v) \in Nat
    BY <2>5, SeqWord, NumType
  <2>7. PICK at \in Nat, hi \in Int : at = Num(c.v) /\ hi = at + nd.w - 1 /\ hi - at + 1 = nd.w
    <3>1. PICK at \in Nat : at = Num(c.v)
      BY <2>6
    <3>2. PICK w \in Nat : w = nd.w
      BY <1>1
    <3>3. at + w - 1 \in Int /\ (at + w - 1) - at + 1 = w
      OBVIOUS
    <3> QED BY <3>1, <3>2, <3>3
  <2>8. CASE k = 1
    <3>1. us[1] = u /\ us[2] = c.v /\ Len(u) = Len(a.v)
      BY <1>5, <1>9, <2>2, <2>3, <2>8
    <3>2. ~AnyBit(Place(r, hi, at, Len(a.v)))
      BY <1>9, <1>12, <1>18, <2>3, <2>7, <2>8 DEF SelDataR
    <3>3. Part(u, hi, at)[b] = Part(a.v, hi, at)[b]
      <4>1. PICK w \in Nat : w = nd.w
        BY <1>1
      <4>2. b \in 1..w /\ Bit(r, b) /\ hi - at + 1 = w
        BY <1>9, <1>10, <2>7, <4>1
      <4>3. Len(u) = Len(a.v) /\ a.v \in Seq(BOOLEAN)
        BY <2>5, <3>1
      <4>4. ~AnyBit(Place(r, hi, at, Len(a.v)))
        BY <3>2
      <4>5. hi \in Int /\ at \in Nat
        BY <2>7
      <4>6. b \in 1..(hi - at + 1) /\ Bit(r, b)
        BY <4>2
            <4>7. PICK y \in Seq(BOOLEAN) : y = a.v /\ Len(u) = Len(y) /\ ~AnyBit(Place(r, hi, at, Len(y)))
        BY <4>3, <4>4
      <4>8. Part(u, hi, at)[b] = Part(y, hi, at)[b]
        BY <4>5, <4>6, <4>7, PartRelevance
      <4> QED BY <4>7, <4>8
    <3> QED BY <2>3, <2>4, <2>7, <3>1, <3>3
  <2>9. CASE k = 2
    <3>1. PICK p \in BOOLEAN : p = AnyBit(r)
      BY DEF AnyBit
    <3>2. no = Fill(Len(c.v), p)
      BY <1>12, <1>18, <2>3, <2>9, <3>1 DEF SelIndexR
    <3>3. AnyBit(Fill(Len(c.v), p)) <=> p
      BY <2>5, FillAny
    <3> QED BY <1>9, <1>10, <3>1, <3>2, <3>3
  <2> QED BY <2>2, <2>8, <2>9
<1>19. CASE nd.k = "cat"
  <2>1. k \in 1..n /\ us \in [1..n -> Seq(BOOLEAN)] /\ vs \in [1..n -> Seq(BOOLEAN)]
    <3>1. us = [m \in DOMAIN us |-> us[m]] /\ vs = [m \in DOMAIN vs |-> vs[m]]
      BY DEF us, vs, Words0, Words1
    <3> QED BY <1>3, <1>5, <1>6, <1>8, <1>13, <3>1
  <2>2. Len(x) = n /\ nd.w = Len(Concat([m \in DOMAIN nd.ops |-> Zeros(Width(nd.ops[m]))]))
    <3>1. x = [m \in 1..n |-> x[m]]
      BY <1>6, <1>8 DEF x, Views
    <3>2. Len(x) = n
      BY <3>1
    <3> QED BY <1>1, <1>19, <3>2 DEF StatementOK
  <2>3. \A m \in 1..n : Zeros(Width(nd.ops[m])) = Zeros(Len(vs[m]))
    BY <1>4, <1>5, <1>8
  <2>4. [m \in DOMAIN nd.ops |-> Zeros(Width(nd.ops[m]))] = [m \in 1..n |-> Zeros(Len(vs[m]))]
    BY <1>8, <2>3
  <2>5. nd.w = Len(Concat(vs))
    <3>1. Len(Concat([m \in 1..n |-> Zeros(Len(vs[m]))])) = Len(Concat(vs))
      BY <2>1, ConcatLen
    <3> QED BY <2>2, <2>4, <3>1
  <2>6. ~AnyBit(ConcatR(r, x, k))
    BY <1>9, <1>12, <1>19
  <2>7. \A m \in 1..n : x[m].v \in Seq(BOOLEAN) /\ vs[m] = x[m].v /\ (m # k => us[m] = vs[m])
    BY <1>5, <1>8, <1>13
  <2>8. Len(us[k]) = Len(vs[k])
    BY <1>3, <1>5, <1>9
  <2>9. DOMAIN x = 1..n /\ Len(r) = Len(Concat(vs)) /\ b \in 1..Len(r)
    BY <1>6, <1>8, <1>9, <2>5
  <2>10. Concat(us)[b] = Concat(vs)[b]
    <3>1. k \in 1..n /\ us \in [1..n -> Seq(BOOLEAN)] /\ vs \in [1..n -> Seq(BOOLEAN)]
      BY <2>1
    <3>2. DOMAIN x = 1..n /\ Len(x) = n /\ \A m \in 1..n : x[m].v \in Seq(BOOLEAN)
      BY <2>2, <2>7, <2>9
    <3>3. \A m \in 1..n : vs[m] = x[m].v /\ (m # k => us[m] = vs[m])
      BY <2>7
    <3>4. Len(r) = Len(Concat(vs)) /\ b \in 1..Len(r)
      BY <2>9
    <3> QED BY <2>6, <2>8, <3>1, <3>2, <3>3, <3>4, ConcatRelevance
  <2>11. \A y : Apply(nd, y) = Concat(y)
    BY <1>19 DEF Apply
  <2> QED BY <2>10, <2>11
<1>20. CASE nd.k = "ite"
  <2>1. DOMAIN nd.ops = 1..3
    BY <1>1, <1>20 DEF StatementOK
  <2>2. 1 \in DOMAIN nd.ops /\ 2 \in DOMAIN nd.ops /\ 3 \in DOMAIN nd.ops /\ (k = 1 \/ k = 2 \/ k = 3)
    BY <1>3, <2>1
  <2>3. PICK c, a, e : c = x[1] /\ a = x[2] /\ e = x[3] /\ Operand(c) /\ Operand(a) /\ Operand(e)
    BY <1>4, <2>2
  <2>4. vs[1] = c.v /\ vs[2] = a.v /\ vs[3] = e.v /\ a.v \in Seq(BOOLEAN) /\ e.v \in Seq(BOOLEAN)
    BY <1>5, <1>13, <2>2, <2>3
  <2>5. \A y : Apply(nd, y) = Fit(IF AnyBit(y[1]) THEN y[2] ELSE y[3], nd.w)
    BY <1>20 DEF Apply
  <2>6. CASE k = 1
    <3>1. us[1] = u /\ us[2] = a.v /\ us[3] = e.v
      BY <1>5, <2>2, <2>3, <2>6
    <3>2. PICK p \in BOOLEAN : p = (AnyBit(r) /\ Num(a.v) # Num(e.v))
      OBVIOUS
    <3>3. no = Truth(p)
      BY <1>12, <1>20, <2>3, <2>6, <3>2 DEF IteCondR
    <3>4. ~p
      BY <1>9, <3>3, TruthIs
    <3>5. Num(a.v) = Num(e.v)
      BY <1>10, <3>2, <3>4
    <3>6. \A j \in 1..nd.w : Bit(a.v, j) <=> Bit(e.v, j)
      <4>1. a.v \in Words(Len(a.v)) /\ e.v \in Words(Len(e.v)) /\ Len(a.v) \in Nat /\ Len(e.v) \in Nat
        BY <2>4, SeqWord
      <4>2. \A j \in Nat \ {0} : Bit(a.v, j) <=> Bit(e.v, j)
        BY <3>5, <4>1, NumDecides
      <4> QED BY <4>2
    <3>7. Fit(a.v, nd.w) = Fit(e.v, nd.w)
      BY <1>1, <3>6, FitsEqual
    <3> QED BY <2>4, <2>5, <3>1, <3>7
  <2>7. CASE k # 1
    <3>1. PICK p \in BOOLEAN : p = (AnyBit(c.v) = (k = 2))
      OBVIOUS
    <3>2. no = BitAnd(Fill(Len(r), p), r)
      BY <1>12, <1>20, <2>3, <2>7, <3>1 DEF IteDataR
    <3>3. ~p
      BY <1>9, <3>2, MaskQuiet
    <3>4. AnyBit(c.v) \in BOOLEAN
      BY DEF AnyBit
    <3>5. CASE k = 2
      <4>1. us[1] = c.v /\ us[3] = e.v
        BY <1>5, <2>2, <2>3, <3>5
      <4>2. ~AnyBit(c.v)
        BY <3>1, <3>3, <3>4, <3>5
      <4> QED BY <2>4, <2>5, <4>1, <4>2
    <3>6. CASE k = 3
      <4>1. us[1] = c.v /\ us[2] = a.v
        BY <1>5, <2>2, <2>3, <3>6
      <4>2. AnyBit(c.v)
        BY <3>1, <3>3, <3>4, <3>6
      <4> QED BY <2>4, <2>5, <4>1, <4>2
    <3> QED BY <2>2, <2>7, <3>5, <3>6
  <2> QED BY <2>6, <2>7
<1>21. CASE nd.k = "case"
  <2>1. DOMAIN nd.ops = 1..3
    BY <1>1, <1>21 DEF StatementOK
  <2>2. 1 \in DOMAIN nd.ops /\ 2 \in DOMAIN nd.ops /\ 3 \in DOMAIN nd.ops /\ (k = 1 \/ k = 2 \/ k = 3)
    BY <1>3, <2>1
  <2>3. PICK s, a, e : s = x[1] /\ a = x[2] /\ e = x[3]
    OBVIOUS
  <2>4. vs[1] = s.v /\ vs[2] = a.v /\ vs[3] = e.v /\ s.v \in Seq(BOOLEAN) /\ a.v \in Seq(BOOLEAN) /\ Len(s.v) \in Nat \ {0}
    BY <1>5, <1>13, <2>2, <2>3
  <2>5. \A y : Apply(nd, y) = IF CaseTaken(y[1]) = 0 THEN y[3] ELSE Field(y[2], CaseTaken(y[1]), nd.w)
    BY <1>21 DEF Apply
  <2>6. PICK j : j = CaseTaken(s.v) /\ (j = 0 \/ j \in 1..Len(s.v))
    BY <2>4, CaseTakenIs
  <2>7. CASE k = 1
    <3>1. j # 0
      BY <1>11, <1>21, <2>3, <2>6, <2>7
    <3>2. no = CaseSelR(r, s, a, e)
      BY <1>12, <1>21, <2>3, <2>7
    <3>3. CASE e.num \/ a.num
      <4>1. PICK p \in BOOLEAN : p = AnyBit(r)
        BY DEF AnyBit
      <4>2. no = Fill(Len(s.v), p)
        BY <3>2, <3>3, <4>1 DEF CaseSelR
      <4>3. AnyBit(Fill(Len(s.v), p)) <=> p
        BY <2>4, FillAny
      <4> QED BY <1>9, <1>10, <4>1, <4>2, <4>3
    <3>4. CASE ~(e.num \/ a.num)
      <4>1. no = [m \in DOMAIN s.v |-> AnyBit(r) /\ m = CaseTaken(s.v)]
        BY <3>2, <3>4 DEF CaseSelR
      <4>2. j \in DOMAIN s.v
        BY <2>4, <2>6, <3>1
      <4>3. no[j] /\ j \in DOMAIN no
        BY <1>10, <2>6, <4>1, <4>2
      <4> QED BY <1>9, <4>3 DEF AnyBit
    <3> QED BY <3>3, <3>4
  <2>8. CASE k = 2
    <3>1. us[1] = s.v /\ us[2] = u /\ us[3] = e.v /\ Len(u) = Len(a.v)
      BY <1>5, <1>9, <2>2, <2>3, <2>8
    <3>2. CASE j = 0
      BY <2>4, <2>5, <2>6, <3>1, <3>2
    <3>3. CASE j # 0
      <4>1. PICK hi \in Int, lo \in Nat : hi = nd.w * j - 1 /\ lo = nd.w * (j - 1) /\ hi - lo + 1 = nd.w
        <5>1. j \in Nat \ {0}
          BY <2>4, <2>6, <3>3
        <5>2. nd.w * j - 1 \in Int /\ nd.w * (j - 1) \in Nat /\ (nd.w * j - 1) - nd.w * (j - 1) + 1 = nd.w
          BY <1>1, <5>1, PlaceBits
        <5> QED BY <5>2
      <4>2. no = CaseDataR(nd.w, r, s, a)
        BY <1>12, <1>21, <2>3, <2>8
      <4>3. no = Place(r, hi, lo, Len(a.v))
        BY <2>6, <3>3, <4>1, <4>2 DEF CaseDataR
      <4>4. Part(u, hi, lo)[b] = Part(a.v, hi, lo)[b]
        <5>1. PICK w \in Nat : w = nd.w
          BY <1>1
        <5>2. b \in 1..w /\ Bit(r, b) /\ hi - lo + 1 = w
          BY <1>9, <1>10, <4>1, <5>1
        <5>3. Len(u) = Len(a.v) /\ a.v \in Seq(BOOLEAN)
          BY <2>4, <3>1
        <5>4. ~AnyBit(Place(r, hi, lo, Len(a.v)))
          BY <1>9, <4>3
        <5>5. hi \in Int /\ lo \in Nat
          BY <4>1
        <5>6. b \in 1..(hi - lo + 1) /\ Bit(r, b)
          BY <5>2
                <5>7. PICK y \in Seq(BOOLEAN) : y = a.v /\ Len(u) = Len(y) /\ ~AnyBit(Place(r, hi, lo, Len(y)))
          BY <5>3, <5>4
        <5>8. Part(u, hi, lo)[b] = Part(y, hi, lo)[b]
          BY <5>5, <5>6, <5>7, PartRelevance
        <5> QED BY <5>7, <5>8
      <4>5. Field(u, j, nd.w)[b] = Field(a.v, j, nd.w)[b]
        BY <4>1, <4>4 DEF Field
      <4> QED BY <2>4, <2>5, <2>6, <3>1, <3>3, <4>5
    <3> QED BY <3>2, <3>3
  <2>9. CASE k = 3
    <3>1. us[1] = s.v /\ us[2] = a.v
      BY <1>5, <2>2, <2>3, <2>9
    <3>2. PICK p \in BOOLEAN : p = (j = 0)
      OBVIOUS
    <3>3. no = CaseDefaultR(r, s)
      BY <1>12, <1>21, <2>3, <2>9
    <3>4. no = BitAnd(r, Fill(Len(r), p))
      BY <2>6, <3>2, <3>3 DEF CaseDefaultR
    <3>5. ~p
      BY <1>9, <3>4, MaskQuiet
    <3> QED BY <2>4, <2>5, <2>6, <3>1, <3>2, <3>5
  <2> QED BY <2>2, <2>7, <2>8, <2>9
<1> QED BY <1>2, <1>15, <1>16, <1>17, <1>18, <1>19, <1>20, <1>21

\* The designs given are of the widths the relevance rules are written for.
RelevanceNets == \A d \in Nets : \A i \in DOMAIN d.node : RelevanceWidths(d.node[i])

LEMMA AskedFor ==
  ASSUME net \in Nets, NEW i \in Comb, RelevanceWidths(Node[i]), NEW tn, NEW keeping, NEW k \in VarSlots(i),
         NEW u \in Words(Len(Get(Value, Node[i].ops[k]))), NEW b \in 1..Node[i].w,
         RelevanceOf(Value, tn, keeping)[i][b], ~Nameless(Value, i, k),
         ~AnyBit(OperandR(i, k, Views(i, Value, tn, NoSigs), RelevanceOf(Value, tn, keeping)[i], {}))
  PROVE  Instead(Value, i, k, u)[b] = Value[i][b]
<1>1. PICK v : v = Value
  OBVIOUS
<1>2. PICK r : r = RelevanceOf(v, tn, keeping)[i]
  OBVIOUS
<1>3. r \in Seq(BOOLEAN) /\ Len(r) = Node[i].w
  BY <1>2, CombIs, RelevanceIs
<1>4. r[b] /\ ~Nameless(v, i, k) /\ ~AnyBit(OperandR(i, k, Views(i, v, tn, NoSigs), r, {}))
  BY <1>1, <1>2
<1>5. k \in DOMAIN Node[i].ops
  BY DEF VarSlots
<1>6. PICK x : x = Views(i, v, tn, NoSigs)[k]
  OBVIOUS
<1>7. Operand(x) /\ x.v = Get(v, Node[i].ops[k])
  BY <1>5, <1>6, SlotsAre
<1>8. Len(x.v) \in Nat /\ u \in Words(Len(x.v))
  BY <1>1, <1>7 DEF Operand
<1>9. u \in Seq(BOOLEAN) /\ Len(u) = Len(Get(v, Node[i].ops[k]))
  BY <1>7, <1>8, WordSeq
<1>10. Instead(v, i, k, u)[b] = Apply(Node[i], Words0(i, v))[b]
  BY <1>3, <1>4, <1>9, StatementRelevance
<1>11. Value[i] = Apply(Node[i], Words0(i, v))
  BY <1>1, ValueIs DEF Words0
<1> QED BY <1>1, <1>10, <1>11

LEMMA RelevantNow == RelevanceNets /\ TaintInv => RelevantSound
<1> SUFFICES ASSUME RelevanceNets, TaintInv PROVE RelevantSound
  OBVIOUS
<1>1. net \in Nets
  BY DEF TaintInv
<1>2. \A i \in Comb : RelevanceWidths(Node[i])
  BY <1>1 DEF RelevanceNets, Comb, Nodes, Node
<1>3. \A i \in Comb : \A k \in VarSlots(i) :
        \/ Nameless(Value, i, k)
        \/ AnyBit(OperandR(i, k, Views(i, Value, TaintOf(Value), NoSigs),
                           RelevanceOf(Value, TaintOf(Value), Keeping)[i], {}))
        \/ \A x \in Words(Len(Get(Value, Node[i].ops[k]))) : \A b \in 1..Node[i].w :
             RelevanceOf(Value, TaintOf(Value), Keeping)[i][b] => Instead(Value, i, k, x)[b] = Value[i][b]
  BY <1>1, <1>2, AskedFor
<1> QED BY <1>3 DEF RelevantSound

\* No statement loses the relevance, of every design of the widths the rules
\* are written for: data that can change a relevant bit of a result is asked
\* of the operand, unless the rules name no bit as the reason
\* (op_taint_gen.cpp, the "_r" assignments).
THEOREM RelevanceSound == RelevanceNets /\ Spec => []RelevantSound
<1>1. RelevanceNets /\ TaintInv => RelevantSound
  BY RelevantNow
<1>2. CASE RelevanceNets
  <2>1. TaintInv => RelevantSound
    BY <1>1, <1>2
  <2>2. Spec => []RelevantSound
    BY <2>1, TaintInvAlways, PTL
  <2> QED BY <2>2
<1> QED BY <1>2
=============================================================================
