----------------------------- MODULE Ast_proofs -----------------------------
(***************************************************************************)
(* The trees of Ast, for every design, file and set of targets: that the   *)
(* stack of instances is always a path, that no name is built while it is  *)
(* being built, that every node has the children its handler reads, and    *)
(* that allowed_target.txt is read as it is written.                       *)
(***************************************************************************)
EXTENDS Ast, FiniteSetTheorems, TLAPS

(* What nodes and calls are made of.                                       *)
Node   == [dest : STRING \cup {Empty.dest}, wire : Seq(STRING), child : Seq(Nat)]
Frames == [id : Nat, mod : Modules, name : STRING, pend : Seq(STRING), enter : BOOLEAN,
           saved : Seq(Entry), back : BOOLEAN]
AllTargets == Outputs \cup UNION {TargetsIn(f) : f \in Files}

(* A call f under way while the stack is c: it belongs to the stack w it   *)
(* was begun with, and P is what it goes over.  After d of them its node   *)
(* has the children for these.                                             *)
Progress(n, f, c, P, d) ==
  /\ n.dest = f.name
  /\ IF Kind(f.mod, f.name) = "sub"
     THEN /\ Len(n.child) = Len(n.wire)
          /\ \A k \in DOMAIN n.child : IsNodeOf(n.child[k], f.mod, n.wire[k])
     ELSE /\ Len(n.child) = d
          /\ \A k \in DOMAIN n.child : IsNodeOf(n.child[k], Mod(c), P[k])
  /\ FromParent(f.mod, f.name) => n.wire = P

FrameOK(f, c) ==
  LET w == c \o f.saved
      P == Pending(w, f.name)
  IN /\ f \in Frames /\ f.id \in DOMAIN nodes
     /\ Path(c) /\ Path(w) /\ Mod(w) = f.mod
     /\ f.name \in DOMAIN Assign[f.mod] /\ f.name \in DOMAIN visited[f.mod]
     /\ f.saved = IF FromParent(f.mod, f.name) THEN <<Last(w)>> ELSE <<>>
     /\ f.enter => Kind(f.mod, f.name) = "sub"
     /\ \E d \in 0..Len(P) : /\ f.pend = SubSeq(P, d + 1, Len(P))
                             /\ Progress(nodes[f.id], f, c, P, d)

(* H: the stack while each of the calls is the innermost; H[0] is the one  *)
(* of the target.                                                          *)
Stacked(H) ==
  /\ H[Len(calls)] = ctx
  /\ \A k \in DOMAIN calls : FrameOK(calls[k], H[k]) /\ H[k - 1] = Restored(calls[k], H[k])
  /\ H[0] # <<>> => Path(H[0])
  /\ calls # <<>> \/ names # <<>> => H[0] # <<>>
  /\ \A k \in DOMAIN names : Finds(Mod(H[0]), names[k])
StackOK == \E H \in [0..Len(calls) -> Seq(Entry)] : Stacked(H)

StoreOK ==
  /\ calls \in Seq(Frames) /\ names \in Seq(STRING) /\ nodes \in Seq(Node) /\ ctx \in Seq(Entry)
  /\ visited = [m \in Modules |-> visited[m]] /\ clk = [m \in Modules |-> clk[m]]
  /\ \A m \in Modules : /\ visited[m] \in [DOMAIN visited[m] -> DOMAIN nodes]
                        /\ DOMAIN visited[m] \subseteq DOMAIN Assign[m]
                        /\ clk[m] \in {NoClock, Clock[m]}
  /\ outport \in [DOMAIN outport -> DOMAIN nodes]
  /\ left \subseteq Outputs \cup TargetsIn(text) /\ flat \subseteq Modules \ {Top}

FileOK ==
  /\ text \in Files /\ at \in Nat \ {0} /\ tgtVec \in Seq(TargetsIn(text))
  /\ allowed = [t \in DOMAIN allowed |-> allowed[t]]
  /\ DOMAIN allowed \subseteq TargetsIn(text)
  /\ allowedVec \in Seq(Seq(TargetsIn(text)) \X Nat)

(* A node belongs to one name and to one call at most.                     *)
Owned ==
  /\ \A m, n \in Modules : \A x \in DOMAIN visited[m], y \in DOMAIN visited[n] :
       visited[m][x] = visited[n][y] => m = n /\ x = y
  /\ \A k \in DOMAIN calls : \A m \in Modules : \A x \in DOMAIN visited[m] :
       visited[m][x] = calls[k].id => m = calls[k].mod /\ x = calls[k].name
  /\ \A j, k \in DOMAIN calls : calls[j].id = calls[k].id => j = k

(* A node whose call has returned has all its children.                    *)
Built ==
  \A m \in Modules : \A x \in DOMAIN visited[m] :
    Finished(visited[m][x]) =>
      Faithful(nodes[visited[m][x]], m, x) /\ Complete(nodes[visited[m][x]], m, x)

IInv == FileOK /\ StoreOK /\ StackOK /\ Owned /\ NoReentry /\ Built

-----------------------------------------------------------------------------
(* What the assumptions say of a name and of an instance.                  *)
LEMMA NameFacts ==
  ASSUME NEW m \in Modules, NEW x \in DOMAIN Assign[m]
  PROVE  /\ x \in STRING
         /\ Src(m, x) \in Seq({s \in STRING : Finds(m, s)})
         /\ Kind(m, x) = "case" =>
              /\ Len(Src(m, x)) > 2
              /\ \A v \in 2..Len(Src(m, x)) - 1 : Assigned(m, Src(m, x)[v]) = Assigned(m, Src(m, x)[2])
         /\ Kind(m, x) = "sub" =>
              /\ Assign[m][x].ins \in DOMAIN InsMod[m]
              /\ SubOf(m, x) \notin BlackBox \cup Mems => Assign[m][x].port \in DOMAIN Assign[SubOf(m, x)]
BY DesignAssumption

LEMMA InstanceFacts ==
  ASSUME NEW m \in Modules, NEW i \in DOMAIN InsMod[m], NEW sub, sub = InsMod[m][i]
  PROVE  /\ sub \in Modules \ {Top}
         /\ Ports[sub] \in Seq({p \in STRING : p \in DOMAIN Conn[m][i]})
         /\ \A p \in DOMAIN Conn[m][i] : Conn[m][i][p] \in STRING /\ Finds(m, Conn[m][i][p])
         /\ \A x \in DOMAIN Assign[sub] : Kind(sub, x) = "in" => x \in DOMAIN Conn[m][i]
BY DesignAssumption

(* Facts about stacks of instances.                                        *)
LEMMA PathFront ==
  ASSUME NEW c, Path(c), Len(c) > 1 PROVE Path(Front(c)) /\ Front(c) \o <<Last(c)>> = c
<1>1. c \in Seq(Entry) BY DEF Path
<1>2. Front(c) \in Seq(Entry) /\ Len(Front(c)) = Len(c) - 1 /\ \A k \in 1..Len(c) - 1 : Front(c)[k] = c[k]
  BY <1>1 DEF Front
<1>3. Front(c) \o <<Last(c)>> = c
  BY <1>1, <1>2 DEF Last
<1>4. Front(c) # <<>> /\ Front(c)[1] = c[1]
  BY <1>1, <1>2
<1>5. \A k \in 2..Len(Front(c)) : Front(c)[k] = c[k] /\ Front(c)[k - 1] = c[k - 1] /\ k \in 2..Len(c)
  BY <1>1, <1>2
<1> QED BY <1>2, <1>3, <1>4, <1>5 DEF Path

LEMMA PathMod ==
  ASSUME NEW c, Path(c)
  PROVE  c \in Seq(Entry) /\ Len(c) > 0 /\ Last(c) \in Entry /\ Mod(c) \in Modules
<1>1. c \in Seq(Entry) /\ Len(c) > 0
  BY DEF Path
<1>2. Last(c) \in Entry
  BY <1>1 DEF Last
<1> QED BY <1>1, <1>2 DEF Mod, Entry

LEMMA PathTop ==
  ASSUME NEW c, Path(c), Mod(c) # Top PROVE Len(c) > 1
BY DEF Path, Mod, Last

LEMMA PathInside ==
  ASSUME NEW c, Path(c), Len(c) > 1
  PROVE  LET p == c[Len(c) - 1].mod
         IN /\ p = Mod(Front(c)) /\ p \in Modules
            /\ Last(c).ins \in DOMAIN InsMod[p] /\ InsMod[p][Last(c).ins] = Mod(c)
<1>1. c \in Seq(Entry) BY DEF Path
<1>2. Len(c) \in 2..Len(c) /\ Len(c) - 1 \in 1..Len(c) BY <1>1
<1>3. c[Len(c) - 1] \in Entry BY <1>1, <1>2
<1>4. Mod(Front(c)) = c[Len(c) - 1].mod
  BY <1>1, <1>2 DEF Mod, Last, Front
<1> QED BY <1>1, <1>2, <1>3, <1>4 DEF Path, Mod, Last, Entry

LEMMA PathAppend ==
  ASSUME NEW c, Path(c), NEW i \in DOMAIN InsMod[Mod(c)], NEW e,
         e = [ins |-> i, mod |-> InsMod[Mod(c)][i]]
  PROVE  Path(Append(c, e)) /\ Mod(Append(c, e)) = e.mod /\ Front(Append(c, e)) = c
<1>1. c \in Seq(Entry) /\ Len(c) > 0 /\ Mod(c) \in Modules BY PathMod
<1>2. e \in Entry
  BY <1>1, InstanceFacts DEF Entry
<1>3. Append(c, e) \in Seq(Entry) /\ Len(Append(c, e)) = Len(c) + 1
      /\ \A k \in 1..Len(c) + 1 : Append(c, e)[k] = IF k = Len(c) + 1 THEN e ELSE c[k]
  BY <1>1, <1>2
<1>4. Front(Append(c, e)) = c
  BY <1>1, <1>3 DEF Front
<1>5. Last(Append(c, e)) = e
  BY <1>1, <1>3 DEF Last
<1>6. \A k \in 2..Len(c) + 1 :
        /\ Append(c, e)[k].ins \in DOMAIN InsMod[Append(c, e)[k - 1].mod]
        /\ Append(c, e)[k].mod = InsMod[Append(c, e)[k - 1].mod][Append(c, e)[k].ins]
  BY <1>1, <1>3 DEF Path, Mod, Last
<1>7. Path(Append(c, e))
  BY <1>1, <1>3, <1>6 DEF Path
<1> QED BY <1>4, <1>5, <1>7 DEF Mod

(* What a call goes over: names that are assigned where it looks for them, *)
(* or the inputs of its instance.                                          *)
LEMMA PendingType ==
  ASSUME NEW w, Path(w), NEW x \in DOMAIN Assign[Mod(w)], NEW c,
         c = IF FromParent(Mod(w), x) THEN Front(w) ELSE w
  PROVE  /\ Pending(w, x) \in Seq(STRING)
         /\ Path(c) /\ (FromParent(Mod(w), x) => Len(w) > 1)
         /\ Kind(Mod(w), x) # "sub" => \A k \in DOMAIN Pending(w, x) : Finds(Mod(c), Pending(w, x)[k])
         /\ Kind(Mod(w), x) = "sub" =>
              \A k \in DOMAIN Pending(w, x) :
                Pending(w, x)[k] \in DOMAIN Conn[Mod(w)][Assign[Mod(w)][x].ins]
<1> DEFINE m == Mod(w) src == Src(m, x)
<1>1. m \in Modules BY PathMod
<1>2. CASE FromParent(m, x)
  <2>1. Len(w) > 1
    BY <1>2, PathTop DEF FromParent
  <2>2. PICK p : p = w[Len(w) - 1].mod OBVIOUS
  <2>3. /\ p = Mod(Front(w)) /\ p \in Modules /\ Last(w).ins \in DOMAIN InsMod[p]
        /\ InsMod[p][Last(w).ins] = m
    BY <2>1, <2>2, PathInside
  <2>4. x \in DOMAIN Conn[p][Last(w).ins]
    BY <1>2, <2>3, InstanceFacts DEF FromParent
  <2>5. Wire(w, x) \in STRING /\ Finds(p, Wire(w, x))
    <3>1. Wire(w, x) = Conn[p][Last(w).ins][x]
      BY <2>2 DEF Wire
    <3> QED BY <2>3, <2>4, <3>1, InstanceFacts
  <2>6. Pending(w, x) = <<Wire(w, x)>> /\ Kind(m, x) # "sub"
    BY <1>2 DEF Pending, FromParent
  <2>7. Path(Front(w)) BY <2>1, PathFront
  <2> QED BY <1>2, <2>1, <2>3, <2>5, <2>6, <2>7
<1>3. CASE ~FromParent(m, x) /\ Kind(m, x) = "sub"
  <2> DEFINE i == Assign[m][x].ins
             In == {p \in STRING : p \in DOMAIN Conn[m][i]}
  <2>1. i \in DOMAIN InsMod[m] /\ SubOf(m, x) = InsMod[m][i]
    BY <1>1, <1>3, NameFacts DEF SubOf
  <2>2. Ports[SubOf(m, x)] \in Seq(In)
    BY <1>1, <2>1, InstanceFacts
  <2>3. Pending(w, x) = IF SubOf(m, x) \in Mems THEN <<>> ELSE Ports[SubOf(m, x)]
    BY <1>3 DEF Pending
  <2>4. Pending(w, x) \in Seq(In)
    <3> HIDE DEF In
    <3> QED BY <2>2, <2>3
  <2> QED BY <1>3, <2>4
<1>4. CASE ~FromParent(m, x) /\ Kind(m, x) # "sub"
  <2> DEFINE On == {s \in STRING : Finds(m, s)}
  <2>1. src \in Seq(On)
    BY <1>1, NameFacts
  <2>2. Pending(w, x) \in Seq(On)
    <3> HIDE DEF On
    <3>1. CASE Kind(m, x) = "case"
      <4>1. Len(src) > 2
        BY <1>1, <3>1, NameFacts
      <4>2. src[1] \in On /\ src[2] \in On /\ src[Len(src)] \in On
        BY <4>1, <2>1
      <4> QED BY <1>4, <3>1, <4>2 DEF Pending, Last
    <3>2. CASE Kind(m, x) # "case"
      BY <1>4, <3>2, <2>1 DEF Pending
    <3> QED BY <3>1, <3>2
  <2> QED BY <1>4, <2>2
<1> QED BY <1>2, <1>3, <1>4

-----------------------------------------------------------------------------
(* Names are noted and never forgotten.                                    *)
Grows == \A m \in Modules : /\ DOMAIN visited[m] \subseteq DOMAIN visited'[m]
                            /\ \A x \in DOMAIN visited[m] : visited'[m][x] = visited[m][x]

LEMMA NodeKept ==
  ASSUME Grows, NEW m \in Modules, NEW id, NEW s, IsNodeOf(id, m, s)
  PROVE  IsNodeOf(id, m, s)'
BY DEF Grows, IsNodeOf

(* A call whose node is left alone.                                        *)
LEMMA FrameKept ==
  ASSUME NEW f, NEW c, FrameOK(f, c), Grows, f.id \in DOMAIN nodes', nodes'[f.id] = nodes[f.id]
  PROVE  FrameOK(f, c)'
<1> DEFINE w == c \o f.saved
           P == Pending(w, f.name)
           n == nodes[f.id]
<1>1. f.mod \in Modules /\ Mod(c) \in Modules /\ f.name \in DOMAIN visited'[f.mod]
  BY PathMod DEF FrameOK, Frames, Grows
<1>2. PICK d \in 0..Len(P) : f.pend = SubSeq(P, d + 1, Len(P)) /\ Progress(n, f, c, P, d)
  BY DEF FrameOK
<1>3. PICK k : k = n OBVIOUS
<1>4. Progress(k, f, c, P, d)'
  BY <1>1, <1>2, <1>3, NodeKept DEF Progress
<1> HIDE DEF P
<1>5. Progress(nodes[f.id], f, c, P, d)'
  BY <1>3, <1>4
<1> QED BY <1>1, <1>2, <1>5 DEF FrameOK, P

(* A call that is begun.                                                   *)
LEMMA Opened ==
  ASSUME StoreOK, NEW c, Path(c), NEW x, Finds(Mod(c), x), NEW back \in BOOLEAN,
         NEW cs, NEW ns \in Seq(Node), NEW id \in DOMAIN ns, ns[id] = Empty,
         NEW y, y = Assigned(Mod(c), x),
         NEW f, f = Frame(id, c, y, back),
         NEW d, d = IF FromParent(Mod(c), y) THEN Front(c) ELSE c,
         Open(x, id, c, back, ns, cs)
  PROVE  /\ calls' = Append(cs, f) /\ f \in Frames
         /\ f.id = id /\ f.mod = Mod(c) /\ f.name = y /\ f.mod \in Modules /\ y \in DOMAIN Assign[f.mod]
         /\ ctx' = d /\ Path(d) /\ Restored(f, d) = IF back THEN Front(c) ELSE c
         /\ visited' = [k \in Modules |-> visited'[k]] /\ visited'[f.mod] = Mark(visited[f.mod], y, id)
         /\ \A k \in Modules \ {f.mod} : visited'[k] = visited[k]
         /\ nodes' \in Seq(Node) /\ DOMAIN nodes' = DOMAIN ns
         /\ \A k \in DOMAIN ns \ {id} : nodes'[k] = ns[k]
         /\ FrameOK(f, d)'
<1> DEFINE m == Mod(c)
           P == Pending(c, y)
           wire == IF FromParent(m, y) THEN <<Wire(c, y)>> ELSE <<>>
<1>1. m \in Modules /\ c \in Seq(Entry) /\ Len(c) > 0 /\ Last(c) \in Entry
  BY PathMod
<1>2. y \in DOMAIN Assign[m] /\ y \in STRING
  BY <1>1, NameFacts DEF Finds
<1>3. /\ P \in Seq(STRING) /\ Path(d) /\ (FromParent(m, y) => Len(c) > 1)
  BY <1>2, PendingType
<1>4. /\ visited' = [visited EXCEPT ![m] = Mark(@, y, id)]
      /\ nodes' = [ns EXCEPT ![id].dest = y, ![id].wire = wire]
      /\ calls' = Append(cs, f) /\ ctx' = d
  BY DEF Open
<1>5. /\ f.id = id /\ f.mod = m /\ f.name = y /\ f.pend = P /\ f.enter = (Kind(m, y) = "sub")
      /\ f.saved = (IF FromParent(m, y) THEN <<Last(c)>> ELSE <<>>) /\ f.back = back
  BY DEF Frame
<1>6. d \o f.saved = c
  <2>1. CASE FromParent(m, y)
    BY <2>1, <1>3, <1>5, PathFront
  <2>2. CASE ~FromParent(m, y)
    BY <2>2, <1>1, <1>5
  <2> QED BY <2>1, <2>2
<1>7. FromParent(m, y) => wire = P
  BY DEF Pending
<1>8. wire \in Seq(STRING)
  <2>1. CASE FromParent(m, y)
    <3> HIDE DEF wire, P
    <3> QED BY <2>1, <1>3, <1>7
  <2>2. CASE ~FromParent(m, y)
    <3>1. wire = <<>> BY <2>2
    <3>2. <<>> \in Seq(STRING) OBVIOUS
    <3> HIDE DEF wire, m
    <3> QED BY <3>1, <3>2, Zenon
  <2> QED BY <2>1, <2>2
<1>9. f \in Frames
  <2>1. f = [id |-> id, mod |-> m, name |-> y, pend |-> P, enter |-> Kind(m, y) = "sub",
             saved |-> IF FromParent(m, y) THEN <<Last(c)>> ELSE <<>>, back |-> back]
    BY DEF Frame
  <2>2. (IF FromParent(m, y) THEN <<Last(c)>> ELSE <<>>) \in Seq(Entry)
    BY <1>1
  <2>3. id \in Nat OBVIOUS
  <2> HIDE DEF m, P
  <2> QED BY <2>1, <2>2, <2>3, <1>1, <1>2, <1>3 DEF Frames
<1>10. /\ nodes' \in Seq(Node) /\ DOMAIN nodes' = DOMAIN ns
       /\ \A k \in DOMAIN ns \ {id} : nodes'[k] = ns[k]
       /\ nodes'[id].dest = y /\ nodes'[id].wire = wire /\ nodes'[id].child = <<>>
  <2> HIDE DEF wire, m
  <2>1. nodes'[id] = [ns[id] EXCEPT !.dest = y, !.wire = wire]
    BY <1>4
  <2>2. ns[id] \in Node /\ ns[id].child = <<>>
    <3>1. ns[id] \in Node OBVIOUS
    <3>2. Empty.child = <<>> BY DEF Empty
    <3>3. ns[id].child = <<>> BY <3>2
    <3> QED BY <3>1, <3>3
  <2>5. /\ nodes'[id] \in Node
        /\ nodes'[id].dest = y /\ nodes'[id].wire = wire /\ nodes'[id].child = <<>>
    BY <2>1, <2>2, <1>2, <1>8 DEF Node
  <2>3. /\ DOMAIN nodes' = DOMAIN ns /\ nodes' = [k \in DOMAIN ns |-> nodes'[k]]
        /\ \A k \in DOMAIN ns \ {id} : nodes'[k] = ns[k]
    BY <1>4
  <2>4. nodes' \in Seq(Node)
    BY <2>5, <2>3
  <2> QED BY <2>3, <2>4, <2>5
<1>11. y \in DOMAIN visited'[m]
  <2>1. visited'[m] = Mark(visited[m], y, id)
    BY <1>1, <1>4 DEF StoreOK
  <2> QED BY <2>1 DEF Mark, Put
<1>12. Progress(nodes[f.id], f, d, P, 0)'
  <2>1. nodes'[f.id].child = <<>> /\ nodes'[f.id].wire = wire /\ nodes'[f.id].dest = y
    BY <1>5, <1>10
  <2>2. Kind(m, y) = "sub" => wire = <<>>
    BY DEF FromParent
  <2> HIDE DEF P, wire, m
  <2> QED BY <2>1, <2>2, <1>5, <1>7 DEF Progress
<1>13. FrameOK(f, d)'
  <2>1. f.pend = SubSeq(P, 0 + 1, Len(P)) /\ 0 \in 0..Len(P)
    BY <1>3, <1>5
  <2>2. FromParent(f.mod, f.name) = FromParent(m, y) /\ Kind(f.mod, f.name) = Kind(m, y)
    BY <1>5
  <2>3. f.id \in DOMAIN nodes' /\ f.name \in DOMAIN Assign[f.mod] /\ f.name \in DOMAIN visited'[f.mod]
    BY <1>2, <1>5, <1>10, <1>11
  <2> HIDE DEF P
  <2>4. Pending(d \o f.saved, f.name) = P
    BY <1>5, <1>6 DEF P
  <2> QED BY <2>1, <2>2, <2>3, <2>4, <1>3, <1>5, <1>6, <1>9, <1>12 DEF FrameOK
<1>14. Restored(f, d) = IF back THEN Front(c) ELSE c
  BY <1>5, <1>6 DEF Restored
<1>15. /\ visited' = [k \in Modules |-> visited'[k]] /\ visited'[f.mod] = Mark(visited[f.mod], y, id)
       /\ \A k \in Modules \ {f.mod} : visited'[k] = visited[k]
  BY <1>1, <1>4, <1>5 DEF StoreOK
<1> HIDE DEF m
<1> QED BY <1>1, <1>2, <1>3, <1>4, <1>5, <1>9, <1>10, <1>13, <1>14, <1>15 DEF m

LEMMA FaithfulKept ==
  ASSUME Grows, NEW n, NEW m \in Modules, NEW x, Faithful(n, m, x)
  PROVE  Faithful(n, m, x)'
<1>1. \A pi \in Instances(m) : pi[1] \in Modules
  BY DEF Instances
<1>2. ASSUME NEW srcs, ChildrenAre(n, m, srcs) PROVE ChildrenAre(n, m, srcs)'
  BY <1>2, NodeKept DEF ChildrenAre
<1>3. n.dest = x BY DEF Faithful
<1>4. ASSUME FromParent(m, x)
      PROVE  \A k \in DOMAIN n.child : \E pi \in Instances(m) :
               n.wire = <<Conn[pi[1]][pi[2]][x]>> /\ IsNodeOf(n.child[k], pi[1], n.wire[1])'
  <2>1. \A k \in DOMAIN n.child : \E pi \in Instances(m) :
          n.wire = <<Conn[pi[1]][pi[2]][x]>> /\ IsNodeOf(n.child[k], pi[1], n.wire[1])
    BY <1>4 DEF Faithful
  <2> QED BY <2>1, <1>1, NodeKept
<1> QED BY <1>2, <1>3, <1>4 DEF Faithful

(* A node whose call is under way is faithful so far, and complete when    *)
(* the call has nothing left.                                              *)
LEMMA FrameFaithful ==
  ASSUME NEW f, NEW c, FrameOK(f, c), nodes \in Seq(Node)
  PROVE  /\ Faithful(nodes[f.id], f.mod, f.name)
         /\ f.pend = <<>> => Complete(nodes[f.id], f.mod, f.name)
<1> DEFINE w == c \o f.saved
           m == f.mod
           x == f.name
           n == nodes[f.id]
           P == Pending(w, x)
           src == Src(m, x)
<1>1. /\ f.id \in DOMAIN nodes /\ Path(c) /\ Path(w) /\ Mod(w) = m /\ x \in DOMAIN Assign[m]
      /\ f.saved = IF FromParent(m, x) THEN <<Last(w)>> ELSE <<>>
  BY DEF FrameOK
<1>2. PICK d \in 0..Len(P) : f.pend = SubSeq(P, d + 1, Len(P)) /\ Progress(n, f, c, P, d)
  BY DEF FrameOK
<1>3. m \in Modules /\ n \in Node
  BY <1>1, PathMod
<1>4. n.child \in Seq(Nat) /\ n.wire \in Seq(STRING) /\ n.dest = x
  BY <1>2, <1>3 DEF Node, Progress
<1>5. P \in Seq(STRING)
  BY <1>1, PendingType
<1>6. f.pend = <<>> => d = Len(P)
  <2> HIDE DEF P
  <2> QED BY <1>2, <1>5
<1>7. c \in Seq(Entry) /\ w \in Seq(Entry) /\ Len(w) > 0 /\ Last(w) \in Entry
  BY <1>1, PathMod
<1>8. CASE FromParent(m, x)
  <2>1. Kind(m, x) # "sub" BY <1>8 DEF FromParent
  <2>2. P = <<Wire(w, x)>> BY <1>1, <1>8 DEF Pending
  <2>3. Len(n.child) = d /\ n.wire = P /\ \A k \in DOMAIN n.child : IsNodeOf(n.child[k], Mod(c), P[k])
    <3> HIDE DEF P, n
    <3> QED BY <1>2, <1>8, <2>1 DEF Progress
  <2>4. Front(w) = c
    <3>1. w = c \o <<Last(w)>> BY <1>1, <1>8
    <3>2. Len(w) = Len(c) + 1 /\ \A k \in 1..Len(c) : w[k] = c[k]
      BY <1>7, <3>1
    <3> HIDE DEF w
    <3> QED BY <1>7, <3>2 DEF Front
  <2>5. Len(w) > 1
    BY <1>1, <1>8, PathTop DEF FromParent
  <2>6. PICK p : p = Mod(c) OBVIOUS
  <2>7. /\ w[Len(w) - 1].mod = p /\ p \in Modules /\ Last(w).ins \in DOMAIN InsMod[p]
        /\ InsMod[p][Last(w).ins] = m
    BY <1>1, <2>4, <2>5, <2>6, PathInside
  <2>8. PICK i : i = Last(w).ins OBVIOUS
  <2>9. <<p, i>> \in Instances(m) /\ Wire(w, x) = Conn[p][i][x]
    BY <2>7, <2>8 DEF Instances, Wire
  <2>10. \A k \in DOMAIN n.child :
           n.wire = <<Conn[p][i][x]>> /\ IsNodeOf(n.child[k], p, n.wire[1])
    <3> SUFFICES ASSUME NEW k \in DOMAIN n.child
                 PROVE  n.wire = <<Conn[p][i][x]>> /\ IsNodeOf(n.child[k], p, n.wire[1])
      OBVIOUS
    <3>1. n.wire = <<Conn[p][i][x]>> BY <2>2, <2>3, <2>9
    <3>2. k = 1 BY <1>4, <2>2, <2>3
    <3> HIDE DEF P, n
    <3> QED BY <3>1, <3>2, <2>3, <2>6
  <2>11. \A k \in DOMAIN n.child : \E pi \in Instances(m) :
           n.wire = <<Conn[pi[1]][pi[2]][x]>> /\ IsNodeOf(n.child[k], pi[1], n.wire[1])
    <3> HIDE DEF n
    <3> QED BY <2>9, <2>10
  <2>12. Faithful(n, m, x)
    BY <1>4, <1>8, <2>1, <2>11 DEF Faithful, FromParent
  <2>13. f.pend = <<>> => Complete(n, m, x)
    <3>1. Len(P) = 1 BY <2>2
    <3>2. f.pend = <<>> => Len(n.child) = 1
      <4> HIDE DEF P, n
      <4> QED BY <1>6, <2>3, <3>1
    <3> HIDE DEF P, n, m, x
    <3> QED BY <1>8, <3>2 DEF Complete, FromParent
  <2> QED BY <2>12, <2>13
<1>9. CASE ~FromParent(m, x)
  <2>1. w = c
    BY <1>1, <1>7, <1>9
  <2>2. CASE Kind(m, x) = "sub"
    <3>1. Len(n.child) = Len(n.wire) /\ \A k \in DOMAIN n.child : IsNodeOf(n.child[k], m, n.wire[k])
      BY <1>2, <2>2 DEF Progress
    <3>2. ChildrenAre(n, m, n.wire)
      BY <1>4, <3>1 DEF ChildrenAre
    <3> QED BY <1>4, <1>9, <2>2, <3>1, <3>2 DEF Faithful, Complete
  <2>3. CASE Kind(m, x) # "sub"
    <3>1. Len(n.child) = d /\ \A k \in DOMAIN n.child : IsNodeOf(n.child[k], m, P[k])
      BY <1>1, <1>2, <2>1, <2>3 DEF Progress
    <3>2. CASE Kind(m, x) = "case"
      <4>1. P = <<src[1], src[2], Last(src)>>
        BY <1>1, <1>9, <3>2 DEF Pending
      <4>2. \A v \in 2..Len(src) - 1 : Assigned(m, src[v]) = Assigned(m, src[2])
        BY <1>1, <1>3, <3>2, NameFacts
      <4>3. Len(n.child) <= 3 /\ (f.pend = <<>> => Len(n.child) = 3)
        BY <3>1, <4>1, <1>6
      <4>4. ASSUME NEW v \in 2..Len(src) - 1 PROVE ChildrenAre(n, m, <<src[1], src[v], Last(src)>>)
        <5>1. ASSUME NEW k \in DOMAIN n.child PROVE IsNodeOf(n.child[k], m, <<src[1], src[v], Last(src)>>[k])
          <6>1. k \in 1..3
            <7> HIDE DEF n, src
            <7> QED BY <1>4, <4>3
          <6>2. IsNodeOf(n.child[k], m, P[k]) BY <3>1
          <6> QED BY <6>1, <6>2, <4>1, <4>2 DEF IsNodeOf
        <5> QED BY <5>1, <4>3 DEF ChildrenAre
      <4> QED BY <1>4, <1>9, <3>2, <4>3, <4>4 DEF Faithful, Complete
    <3>3. CASE Kind(m, x) # "case"
      <4>1. P = src
        BY <1>1, <1>9, <2>3, <3>3 DEF Pending
      <4>2. ChildrenAre(n, m, src) /\ (f.pend = <<>> => Len(n.child) = Len(src))
        BY <1>4, <3>1, <4>1, <1>6 DEF ChildrenAre
      <4> QED BY <1>4, <1>9, <2>3, <3>3, <4>2 DEF Faithful, Complete
    <3> QED BY <3>2, <3>3
  <2> QED BY <2>2, <2>3
<1> QED BY <1>8, <1>9

-----------------------------------------------------------------------------
(* cs: the calls with the innermost advanced.                              *)
SameCalls(cs, H) ==
  /\ cs \in Seq(Frames) /\ Len(cs) = Len(calls)
  /\ \A k \in 1..Len(calls) - 1 : cs[k] = calls[k]
  /\ \A k \in DOMAIN calls :
       /\ cs[k].id = calls[k].id /\ cs[k].mod = calls[k].mod /\ cs[k].name = calls[k].name
       /\ Restored(cs[k], H[k]) = Restored(calls[k], H[k])

(* A step of the innermost call that begins no other.                      *)
LEMMA TopStep ==
  ASSUME StoreOK, Owned, NoReentry, Built, calls # <<>>,
         NEW H \in [0..Len(calls) -> Seq(Entry)], Stacked(H),
         NEW cs, SameCalls(cs, H), calls' = cs, ctx' = ctx, visited' = visited, names' = names,
         nodes' \in Seq(Node), DOMAIN nodes \subseteq DOMAIN nodes',
         \A k \in DOMAIN nodes : k # F.id => nodes'[k] = nodes[k],
         NEW t, t = ctx, FrameOK(cs[Len(cs)], t)'
  PROVE  StackOK' /\ Owned' /\ NoReentry' /\ Built'
<1>1. Grows
  BY DEF Grows
<1>2. Len(calls) \in Nat /\ Len(calls) > 0 /\ DOMAIN cs = DOMAIN calls /\ Len(calls') = Len(calls)
  BY DEF StoreOK, SameCalls
<1>3. Stacked(H)'
  <2>1. ASSUME NEW k \in DOMAIN cs PROVE FrameOK(cs[k], H[k])' /\ H[k - 1] = Restored(cs[k], H[k])
    <3>1. H[k - 1] = Restored(cs[k], H[k])
      BY <1>2, <2>1 DEF SameCalls, Stacked
    <3>2. CASE k = Len(calls)
      <4>1. H[k] = t BY <3>2 DEF Stacked
      <4> QED BY <1>2, <3>1, <3>2, <4>1
    <3>3. CASE k # Len(calls)
      <4>1. k \in 1..Len(calls) - 1 /\ k \in DOMAIN calls /\ Len(calls) \in DOMAIN calls
        BY <1>2, <2>1, <3>3
      <4>2. cs[k] = calls[k] BY <4>1 DEF SameCalls
      <4>3. PICK f, d : f = calls[k] /\ d = H[k] OBVIOUS
      <4>4. FrameOK(f, d) BY <4>1, <4>3 DEF Stacked
      <4>5. f.id \in DOMAIN nodes BY <4>4 DEF FrameOK
      <4>6. f.id # F.id
        BY <4>1, <4>3, <3>3 DEF Owned, F, Last
      <4>7. FrameOK(f, d)'
        BY <1>1, <4>4, <4>5, <4>6, FrameKept
      <4> QED BY <3>1, <4>2, <4>3, <4>7
    <3> QED BY <3>2, <3>3
  <2> QED BY <1>2, <2>1 DEF Stacked
<1>4. StackOK'
  BY <1>2, <1>3 DEF StackOK
<1>5. Owned' /\ NoReentry'
  <2>1. \A k \in DOMAIN calls' : /\ k \in DOMAIN calls /\ calls'[k].id = calls[k].id
                                  /\ calls'[k].mod = calls[k].mod /\ calls'[k].name = calls[k].name
    BY <1>2 DEF SameCalls
  <2> QED BY <2>1 DEF Owned, NoReentry
<1>6. Built'
  <2> SUFFICES ASSUME NEW m \in Modules, NEW x \in DOMAIN visited[m], NEW id, id = visited[m][x], Finished(id)'
               PROVE  Faithful(nodes[id], m, x)' /\ Complete(nodes[id], m, x)'
    BY DEF Built
  <2>1. Finished(id) /\ id # F.id
    BY <1>2 DEF Finished, SameCalls, F, Last
  <2>2. id \in DOMAIN nodes BY DEF StoreOK
  <2>3. PICK n : n = nodes[id] OBVIOUS
  <2>4. nodes'[id] = n BY <2>1, <2>2, <2>3
  <2>5. Faithful(n, m, x) /\ Complete(n, m, x)
    BY <2>1, <2>3 DEF Built
  <2>6. Faithful(n, m, x)'
    BY <1>1, <2>5, FaithfulKept
  <2> QED BY <2>4, <2>5, <2>6
<1> QED BY <1>4, <1>5, <1>6

(* A step that begins a call.                                              *)
LEMMA PushStep ==
  ASSUME StoreOK, Owned, NoReentry, Built,
         NEW H \in [0..Len(calls) -> Seq(Entry)], Stacked(H), H[0] # <<>>,
         NEW c, Path(c), NEW x, Finds(Mod(c), x), NEW back \in BOOLEAN,
         (IF back THEN Front(c) ELSE c) = ctx,
         NEW y, y = Assigned(Mod(c), x),
         calls # <<>> => y \notin DOMAIN visited[Mod(c)],
         NEW cs, SameCalls(cs, H),
         NEW ns \in Seq(Node), NEW id, id = Len(nodes) + 1, Len(ns) = id, ns[id] = Empty,
         \A k \in DOMAIN nodes : (calls = <<>> \/ k # F.id) => ns[k] = nodes[k],
         Open(x, id, c, back, ns, cs),
         NEW t, t = ctx, calls # <<>> => FrameOK(cs[Len(cs)], t)',
         \A k \in DOMAIN names' : Finds(Mod(H[0]), names'[k])
  PROVE  /\ StackOK' /\ Owned' /\ NoReentry' /\ Built'
         /\ calls' \in Seq(Frames) /\ nodes' \in Seq(Node) /\ DOMAIN nodes' = 1..id /\ ctx' \in Seq(Entry)
         /\ visited' = [m \in Modules |-> visited'[m]]
         /\ \A m \in Modules : /\ visited'[m] \in [DOMAIN visited'[m] -> DOMAIN nodes']
                               /\ DOMAIN visited'[m] \subseteq DOMAIN Assign[m]
<1>0. PICK m0, L : m0 = Mod(c) /\ L = Len(calls) OBVIOUS
<1>1. PICK f : f = Frame(id, c, y, back) OBVIOUS
<1>2. PICK d : d = IF FromParent(Mod(c), y) THEN Front(c) ELSE c OBVIOUS
<1>3. nodes \in Seq(Node) /\ id \in Nat /\ id \in DOMAIN ns /\ DOMAIN nodes = 1..id - 1 /\ DOMAIN ns = 1..id
      /\ id \notin DOMAIN nodes
  BY DEF StoreOK
<1>4. /\ calls' = Append(cs, f) /\ f \in Frames
      /\ f.id = id /\ f.mod = m0 /\ f.name = y /\ m0 \in Modules /\ y \in DOMAIN Assign[m0]
      /\ ctx' = d /\ Path(d) /\ Restored(f, d) = t
      /\ visited' = [k \in Modules |-> visited'[k]] /\ visited'[m0] = Mark(visited[m0], y, id)
      /\ \A k \in Modules \ {m0} : visited'[k] = visited[k]
      /\ nodes' \in Seq(Node) /\ DOMAIN nodes' = DOMAIN ns
      /\ \A k \in DOMAIN ns \ {id} : nodes'[k] = ns[k]
      /\ FrameOK(f, d)'
  <2>1. /\ calls' = Append(cs, f) /\ f \in Frames
        /\ f.id = id /\ f.mod = Mod(c) /\ f.name = y /\ f.mod \in Modules /\ y \in DOMAIN Assign[f.mod]
        /\ ctx' = d /\ Path(d) /\ Restored(f, d) = IF back THEN Front(c) ELSE c
        /\ visited' = [k \in Modules |-> visited'[k]] /\ visited'[f.mod] = Mark(visited[f.mod], y, id)
        /\ \A k \in Modules \ {f.mod} : visited'[k] = visited[k]
        /\ nodes' \in Seq(Node) /\ DOMAIN nodes' = DOMAIN ns
        /\ \A k \in DOMAIN ns \ {id} : nodes'[k] = ns[k]
        /\ FrameOK(f, d)'
    BY <1>1, <1>2, <1>3, Opened
  <2>2. f.mod = m0 BY <1>0, <2>1
  <2>3. Restored(f, d) = t BY <2>1
  <2> QED BY <2>1, <2>2, <2>3
<1>20. /\ m0 \in Modules /\ visited' = [k \in Modules |-> visited'[k]]
       /\ visited'[m0] = Mark(visited[m0], y, id)
       /\ \A k \in Modules \ {m0} : visited'[k] = visited[k]
  BY <1>4
<1>21. f.id = id /\ f.mod = m0 /\ f.name = y
  BY <1>4
<1>5. /\ Grows /\ DOMAIN visited'[m0] = DOMAIN visited[m0] \cup {y}
      /\ y \notin DOMAIN visited[m0] => visited'[m0][y] = id
      /\ visited'[m0] \in [DOMAIN visited'[m0] -> DOMAIN nodes \cup {id}]
  <2>1. visited[m0] \in [DOMAIN visited[m0] -> DOMAIN nodes]
    BY <1>20 DEF StoreOK
  <2>2. visited'[m0] = [z \in DOMAIN visited[m0] \cup {y} |->
                          IF z \in DOMAIN visited[m0] THEN visited[m0][z] ELSE id]
    BY <1>20, <2>1 DEF Mark, Put
  <2>3. /\ DOMAIN visited'[m0] = DOMAIN visited[m0] \cup {y}
        /\ y \notin DOMAIN visited[m0] => visited'[m0][y] = id
        /\ visited'[m0] \in [DOMAIN visited'[m0] -> DOMAIN nodes \cup {id}]
        /\ \A z \in DOMAIN visited[m0] : visited'[m0][z] = visited[m0][z]
    BY <2>1, <2>2
  <2>4. Grows
    BY <1>20, <2>3 DEF Grows
  <2> QED BY <2>3, <2>4
<1>6. \A m \in Modules : visited[m] \in [DOMAIN visited[m] -> DOMAIN nodes] /\ DOMAIN visited[m] \subseteq DOMAIN Assign[m]
  BY DEF StoreOK
<1>7. \A m \in Modules : /\ visited'[m] \in [DOMAIN visited'[m] -> DOMAIN nodes']
                         /\ DOMAIN visited'[m] \subseteq DOMAIN Assign[m]
  <2> SUFFICES ASSUME NEW m \in Modules
               PROVE  /\ visited'[m] \in [DOMAIN visited'[m] -> DOMAIN nodes']
                      /\ DOMAIN visited'[m] \subseteq DOMAIN Assign[m]
    OBVIOUS
  <2>1. DOMAIN nodes \subseteq DOMAIN nodes' /\ id \in DOMAIN nodes'
    BY <1>3, <1>4
  <2>2. CASE m = m0
    BY <2>1, <2>2, <1>4, <1>5, <1>6
  <2>3. CASE m # m0
    <3> QED BY <2>1, <2>3, <1>20, <1>6
  <2> QED BY <2>2, <2>3
\* Old names keep old nodes; a node that is new belongs to y.
<1>8. ASSUME NEW m \in Modules, NEW z \in DOMAIN visited'[m]
      PROVE  \/ z \in DOMAIN visited[m] /\ visited'[m][z] = visited[m][z] /\ visited[m][z] \in DOMAIN nodes
             \/ m = m0 /\ z = y /\ visited'[m][z] = id
  <2> QED BY <1>4, <1>5, <1>6, <1>8 DEF Grows
<1>9. L \in Nat /\ Len(cs) = L /\ cs \in Seq(Frames) /\ DOMAIN cs = 1..L /\ DOMAIN calls = 1..L
      /\ DOMAIN calls' = 1..L + 1 /\ Len(calls') = L + 1 /\ calls'[L + 1] = f /\ calls' \in Seq(Frames)
      /\ \A k \in 1..L : calls'[k] = cs[k]
  BY <1>0, <1>4 DEF StoreOK, SameCalls
<1>10. \A k \in 1..L : /\ calls'[k].id = calls[k].id /\ calls'[k].mod = calls[k].mod
                       /\ calls'[k].name = calls[k].name /\ calls'[k].id \in DOMAIN nodes
                       /\ calls[k].name \in DOMAIN visited[calls[k].mod]
  <2> SUFFICES ASSUME NEW k \in 1..L
               PROVE  /\ calls'[k].id = calls[k].id /\ calls'[k].mod = calls[k].mod
                      /\ calls'[k].name = calls[k].name /\ calls'[k].id \in DOMAIN nodes
                      /\ calls[k].name \in DOMAIN visited[calls[k].mod]
    OBVIOUS
  <2>1. PICK g, e : g = calls[k] /\ e = H[k] OBVIOUS
  <2>2. FrameOK(g, e) BY <2>1, <1>9 DEF Stacked
  <2>3. g.id \in DOMAIN nodes /\ g.name \in DOMAIN visited[g.mod] BY <2>2 DEF FrameOK
  <2> QED BY <2>1, <2>3, <1>9 DEF SameCalls
<1>17. PICK H2 : H2 = [k \in 0..L + 1 |-> IF k \in 0..L THEN H[k] ELSE d] OBVIOUS
<1>11. Stacked(H2)' /\ H2 \in [0..L + 1 -> Seq(Entry)]
  <2>1. H2 \in [0..L + 1 -> Seq(Entry)] /\ H2[0] = H[0] /\ H2[L + 1] = d /\ H2[L] = t
        /\ \A k \in 0..L : H2[k] = H[k]
    <3>1. d \in Seq(Entry) BY <1>4, PathMod
    <3>2. H[L] = t BY <1>0 DEF Stacked
    <3>3. L + 1 \notin 0..L /\ L \in 0..L /\ 0 \in 0..L /\ \A k \in 0..L : k \in 0..L + 1 BY <1>9
    <3> QED BY <3>1, <3>2, <3>3, <1>0, <1>9, <1>17
  <2>2. ASSUME NEW k \in 1..L PROVE FrameOK(cs[k], H[k])' /\ H[k - 1] = Restored(cs[k], H[k])
    <3>1. H[k - 1] = Restored(cs[k], H[k])
      BY <1>9, <2>2 DEF SameCalls, Stacked
    <3>2. CASE k = L
      <4>1. H[k] = t BY <1>0, <3>2 DEF Stacked
      <4>2. calls # <<>> BY <1>9, <3>2
      <4> QED BY <1>9, <3>1, <3>2, <4>1, <4>2
    <3>3. CASE k # L
      <4>1. k \in 1..L - 1 /\ k \in DOMAIN calls /\ L \in DOMAIN calls
        BY <1>9, <2>2, <3>3
      <4>2. cs[k] = calls[k] BY <1>0, <4>1 DEF SameCalls
      <4>3. PICK g, e : g = calls[k] /\ e = H[k] OBVIOUS
      <4>4. FrameOK(g, e) BY <4>1, <4>3 DEF Stacked
      <4>5. g.id \in DOMAIN nodes BY <4>4 DEF FrameOK
      <4>6. g.id # F.id
        BY <1>0, <4>1, <4>3, <3>3 DEF Owned, F, Last
      <4>7. nodes'[g.id] = nodes[g.id] /\ g.id \in DOMAIN nodes'
        BY <1>3, <1>4, <4>5, <4>6
      <4>8. FrameOK(g, e)'
        BY <1>5, <4>4, <4>7, FrameKept
      <4> QED BY <3>1, <4>2, <4>3, <4>8
    <3> QED BY <3>2, <3>3
  <2>3. ASSUME NEW k \in 1..L + 1
        PROVE  FrameOK(calls[k], H2[k])' /\ H2[k - 1] = Restored(calls'[k], H2[k])
    <3>1. CASE k \in 1..L
      <4>1. H2[k] = H[k] /\ H2[k - 1] = H[k - 1] /\ calls'[k] = cs[k]
        <5>1. k - 1 \in 0..L /\ k \in 0..L BY <3>1, <1>9
        <5> QED BY <1>9, <2>1, <3>1, <5>1
      <4>2. FrameOK(cs[k], H[k])' /\ H[k - 1] = Restored(cs[k], H[k]) BY <2>2, <3>1
      <4> QED BY <4>1, <4>2
    <3>2. CASE k = L + 1
      <4>1. H2[k] = d /\ H2[k - 1] = t /\ calls'[k] = f
        <5>1. k - 1 = L BY <3>2, <1>9
        <5> QED BY <1>9, <2>1, <3>2, <5>1
      <4> QED BY <4>1, <1>4
    <3> QED BY <1>9, <3>1, <3>2
  <2>4. H[0] # <<>> => Path(H[0]) BY DEF Stacked
  <2> QED BY <1>4, <1>9, <2>1, <2>3, <2>4 DEF Stacked
<1>12. StackOK'
  <2> QED BY <1>9, <1>11 DEF StackOK
<1>13. Owned'
  <2>1. ASSUME NEW m \in Modules, NEW n \in Modules, NEW z \in DOMAIN visited'[m], NEW u \in DOMAIN visited'[n],
               visited'[m][z] = visited'[n][u]
        PROVE  m = n /\ z = u
    BY <2>1, <1>3, <1>8 DEF Owned
  <2>2. ASSUME NEW k \in 1..L + 1, NEW m \in Modules, NEW z \in DOMAIN visited'[m], visited'[m][z] = calls'[k].id
        PROVE  m = calls'[k].mod /\ z = calls'[k].name
    <3>1. CASE k = L + 1
      <4>1. calls'[k].id = id /\ calls'[k].mod = m0 /\ calls'[k].name = y BY <3>1, <1>9, <1>21
      <4>2. visited'[m][z] \notin DOMAIN nodes BY <2>2, <4>1, <1>3
      <4> QED BY <4>1, <4>2, <1>8
    <3>2. CASE k \in 1..L
      <4>1. calls'[k].id = calls[k].id /\ calls'[k].id # id /\ calls'[k].mod = calls[k].mod /\ calls'[k].name = calls[k].name
        BY <3>2, <1>3, <1>10
      <4>2. z \in DOMAIN visited[m] /\ visited[m][z] = calls[k].id
        BY <2>2, <4>1, <1>8
      <4> QED BY <3>2, <4>1, <4>2, <1>9 DEF Owned
    <3> QED BY <1>9, <3>1, <3>2
  <2>3. ASSUME NEW j \in 1..L + 1, NEW k \in 1..L + 1, calls'[j].id = calls'[k].id
        PROVE  j = k
    <3>1. \A i \in 1..L : calls'[i].id # id BY <1>3, <1>10
    <3>2. calls'[L + 1].id = id BY <1>4, <1>9
    <3>3. CASE j \in 1..L /\ k \in 1..L
      <4>1. calls[j].id = calls[k].id BY <2>3, <3>3, <1>10
      <4>2. j \in DOMAIN calls /\ k \in DOMAIN calls BY <3>3, <1>9
      <4> QED BY <4>1, <4>2 DEF Owned
    <3> QED BY <1>9, <2>3, <3>1, <3>2, <3>3
  <2> QED BY <1>9, <2>1, <2>2, <2>3 DEF Owned
<1>14. NoReentry'
  <2> SUFFICES ASSUME NEW j \in 1..L + 1, NEW k \in 1..L + 1,
                      calls'[j].mod = calls'[k].mod, calls'[j].name = calls'[k].name
               PROVE  j = k
    BY <1>9 DEF NoReentry
  <2>1. ASSUME NEW i \in 1..L, calls'[i].mod = f.mod, calls'[i].name = f.name PROVE FALSE
    <3>1. calls # <<>> BY <2>1, <1>9
    <3>2. y \notin DOMAIN visited[m0] BY <3>1, <1>0
    <3>3. calls[i].mod = m0 /\ calls[i].name = y BY <2>1, <1>10, <1>21
    <3> QED BY <2>1, <3>2, <3>3, <1>10
  <2>2. CASE j \in 1..L /\ k \in 1..L
    <3>1. calls[j].mod = calls[k].mod /\ calls[j].name = calls[k].name
      BY <2>2, <1>10
    <3>2. j \in DOMAIN calls /\ k \in DOMAIN calls BY <2>2, <1>9
    <3> QED BY <3>1, <3>2 DEF NoReentry
  <2>3. calls'[L + 1] = f /\ \A i \in 1..L + 1 : i \in 1..L \/ i = L + 1 BY <1>9
  <2> QED BY <2>1, <2>2, <2>3
<1>15. Built'
  <2> SUFFICES ASSUME NEW m \in Modules, NEW z \in DOMAIN visited'[m], NEW i, i = visited'[m][z], Finished(i)'
               PROVE  Faithful(nodes[i], m, z)' /\ Complete(nodes[i], m, z)'
    BY DEF Built
  <2>1. i # id
    <3>1. L + 1 \in DOMAIN calls' BY <1>9
    <3> QED BY <3>1, <1>4, <1>9 DEF Finished
  <2>2. z \in DOMAIN visited[m] /\ i = visited[m][z] /\ i \in DOMAIN nodes
    <3> QED BY <1>8, <2>1
  <2>3. ASSUME NEW k \in 1..L PROVE calls[k].id # i
    <3>1. k \in DOMAIN calls' BY <1>9
    <3>2. calls'[k].id = calls[k].id BY <1>10
    <3> QED BY <3>1, <3>2 DEF Finished
  <2>4. Finished(i) BY <1>9, <2>3 DEF Finished
  <2>5. calls = <<>> \/ i # F.id
    BY <1>0, <1>9, <2>3 DEF F, Last
  <2>6. PICK n : n = nodes[i] OBVIOUS
  <2>7. nodes'[i] = n
    BY <1>3, <1>4, <2>2, <2>5, <2>6
  <2>8. Faithful(n, m, z) /\ Complete(n, m, z)
    BY <2>2, <2>4, <2>6 DEF Built
  <2>9. Faithful(n, m, z)'
    BY <1>5, <2>8, FaithfulKept
  <2> QED BY <2>7, <2>8, <2>9
<1>16. ctx' \in Seq(Entry)
  <2>1. ctx' = d /\ Path(d) BY <1>4
  <2> QED BY <2>1, PathMod
<1> QED BY <1>3, <1>4, <1>5, <1>7, <1>9, <1>12, <1>13, <1>14, <1>15, <1>16

-----------------------------------------------------------------------------
(* The innermost call advances.                                            *)
LEMMA Advances ==
  ASSUME calls \in Seq(Frames), calls # <<>>, NEW H,
         NEW g \in Frames, g.id = F.id, g.mod = F.mod, g.name = F.name, g.saved = F.saved, g.back = F.back,
         NEW cs, cs = [calls EXCEPT ![Len(calls)] = g]
  PROVE  SameCalls(cs, H) /\ cs[Len(cs)] = g
<1>1. Len(calls) \in DOMAIN calls /\ F = calls[Len(calls)]
  BY DEF F, Last
<1>2. cs \in Seq(Frames) /\ Len(cs) = Len(calls) /\ cs[Len(calls)] = g
      /\ \A k \in DOMAIN calls : k # Len(calls) => cs[k] = calls[k]
  BY <1>1
<1>3. \A c : Restored(g, c) = Restored(F, c)
  BY DEF Restored
<1>4. \A k \in 1..Len(calls) - 1 : k \in DOMAIN calls /\ k # Len(calls)
  BY <1>1
<1> QED BY <1>1, <1>2, <1>3, <1>4, Zenon DEF SameCalls

\* Its instance is entered.
LEMMA FrameEntered ==
  ASSUME NEW f, NEW c, FrameOK(f, c), NEW g, g = [f EXCEPT !.enter = FALSE],
         Grows, f.id \in DOMAIN nodes', nodes'[f.id] = nodes[f.id]
  PROVE  /\ g \in Frames /\ g.id = f.id /\ g.mod = f.mod /\ g.name = f.name /\ g.saved = f.saved /\ g.back = f.back
         /\ FrameOK(g, c)'
<1>1. f \in Frames BY DEF FrameOK
<1>2. /\ g \in Frames /\ g.id = f.id /\ g.mod = f.mod /\ g.name = f.name /\ g.saved = f.saved /\ g.back = f.back
      /\ g.pend = f.pend /\ g.enter = FALSE
  BY <1>1 DEF Frames
<1>3. FrameOK(f, c)' BY FrameKept
<1> DEFINE P == Pending(c \o f.saved, f.name)
<1>4. PICK d \in 0..Len(P) : f.pend = SubSeq(P, d + 1, Len(P)) /\ Progress(nodes[f.id], f, c, P, d)'
  BY <1>3 DEF FrameOK
<1>5. PICK n : n = nodes'[f.id] OBVIOUS
<1> HIDE DEF P
<1>6. Progress(n, f, c, P, d)' BY <1>4, <1>5
<1>7. Progress(n, g, c, P, d)' BY <1>2, <1>6 DEF Progress
<1>8. Progress(nodes[g.id], g, c, P, d)' BY <1>2, <1>5, <1>7
<1>9. /\ g.id \in DOMAIN nodes' /\ Path(c) /\ Path(c \o g.saved) /\ Mod(c \o g.saved) = g.mod
      /\ g.name \in DOMAIN Assign[g.mod] /\ g.name \in DOMAIN visited'[g.mod]
      /\ g.saved = IF FromParent(g.mod, g.name) THEN <<Last(c \o g.saved)>> ELSE <<>>
  BY <1>2, <1>3 DEF FrameOK
<1>10. Pending(c \o g.saved, g.name) = P BY <1>2 DEF P
<1> QED BY <1>2, <1>4, <1>8, <1>9, <1>10 DEF FrameOK

\* The next of what a call goes over.
Token(f, c) == IF Kind(f.mod, f.name) = "sub"
               THEN Conn[Mod(c)][Assign[Mod(c)][f.name].ins][Head(f.pend)] ELSE Head(f.pend)

LEMMA TokenFound ==
  ASSUME NEW f, NEW c, FrameOK(f, c), f.pend # <<>>
  PROVE  /\ Finds(Mod(c), Token(f, c)) /\ Token(f, c) \in STRING /\ Mod(c) \in Modules
         /\ Kind(f.mod, f.name) = "sub" =>
              /\ Mod(c) = f.mod /\ Assign[Mod(c)][f.name].ins \in DOMAIN InsMod[Mod(c)]
              /\ Head(f.pend) \in DOMAIN Conn[Mod(c)][Assign[Mod(c)][f.name].ins]
<1> DEFINE w == c \o f.saved
           m == f.mod
           x == f.name
           P == Pending(w, x)
<1>1. /\ Path(c) /\ Path(w) /\ Mod(w) = m /\ x \in DOMAIN Assign[m]
      /\ f.saved = IF FromParent(m, x) THEN <<Last(w)>> ELSE <<>>
  BY DEF FrameOK
<1>2. PICK d \in 0..Len(P) : f.pend = SubSeq(P, d + 1, Len(P))
  BY DEF FrameOK
<1>3. P \in Seq(STRING) BY <1>1, PendingType
<1>4. d + 1 \in DOMAIN P /\ Head(f.pend) = P[d + 1] /\ Head(f.pend) \in STRING
  <2> HIDE DEF P
  <2> QED BY <1>2, <1>3
<1>5. c \in Seq(Entry) /\ m \in Modules /\ Mod(c) \in Modules /\ w \in Seq(Entry) /\ Len(w) > 0 /\ Last(w) \in Entry
  BY <1>1, PathMod
<1>6. CASE Kind(m, x) = "sub"
  <2>1. ~FromParent(m, x) BY <1>6 DEF FromParent
  <2>2. w = c BY <1>1, <1>5, <2>1
  <2>3. P[d + 1] \in DOMAIN Conn[m][Assign[m][x].ins]
    BY <1>1, <1>4, <1>6, <2>1, PendingType
  <2>4. Assign[m][x].ins \in DOMAIN InsMod[m]
    BY <1>1, <1>5, <1>6, NameFacts
  <2>5. Mod(c) = m BY <1>1, <2>2
  <2>6. /\ Conn[m][Assign[m][x].ins][P[d + 1]] \in STRING
        /\ Finds(m, Conn[m][Assign[m][x].ins][P[d + 1]])
    BY <1>5, <2>3, <2>4, InstanceFacts
  <2> HIDE DEF P
  <2> QED BY <1>4, <1>5, <1>6, <2>3, <2>4, <2>5, <2>6, Zenon DEF Token
<1>7. CASE Kind(m, x) # "sub"
  <2>1. c = IF FromParent(m, x) THEN Front(w) ELSE w
    <3>1. CASE FromParent(m, x)
      <4>1. w = c \o <<Last(w)>> BY <1>1, <3>1
      <4>2. Len(w) = Len(c) + 1 /\ \A k \in 1..Len(c) : w[k] = c[k]
        BY <1>5, <4>1
      <4> HIDE DEF w
      <4> QED BY <1>5, <3>1, <4>2 DEF Front
    <3>2. CASE ~FromParent(m, x)
      BY <1>1, <1>5, <3>2
    <3> QED BY <3>1, <3>2
  <2>2. Finds(Mod(c), P[d + 1])
    BY <1>1, <1>4, <1>7, <2>1, PendingType
  <2> HIDE DEF P
  <2> QED BY <1>4, <1>5, <1>7, <2>2 DEF Token
<1> QED BY <1>6, <1>7

LEMMA SubSeqNext ==
  ASSUME NEW S, NEW P \in Seq(S), NEW d \in 0..Len(P), SubSeq(P, d + 1, Len(P)) # <<>>
  PROVE  /\ d + 1 \in 1..Len(P) /\ Head(SubSeq(P, d + 1, Len(P))) = P[d + 1]
         /\ Tail(SubSeq(P, d + 1, Len(P))) = SubSeq(P, (d + 1) + 1, Len(P))
<1>1. d < Len(P) OBVIOUS
<1>2. /\ SubSeq(P, d + 1, Len(P)) \in Seq(S) /\ Len(SubSeq(P, d + 1, Len(P))) = Len(P) - d
      /\ \A i \in 1..Len(P) - d : SubSeq(P, d + 1, Len(P))[i] = P[d + i]
  BY <1>1
<1>3. /\ SubSeq(P, d + 2, Len(P)) \in Seq(S) /\ Len(SubSeq(P, d + 2, Len(P))) = Len(P) - d - 1
      /\ \A i \in 1..Len(P) - d - 1 : SubSeq(P, d + 2, Len(P))[i] = P[d + 1 + i]
  BY <1>1
<1>4. PICK T : T = SubSeq(P, d + 1, Len(P)) OBVIOUS
<1>5. /\ Tail(T) \in Seq(S) /\ Len(Tail(T)) = Len(P) - d - 1
      /\ \A i \in 1..Len(P) - d - 1 : Tail(T)[i] = T[i + 1]
  BY <1>1, <1>2, <1>4
<1>6. \A i \in 1..Len(P) - d - 1 : Tail(T)[i] = P[d + 1 + i]
  BY <1>1, <1>2, <1>4, <1>5
<1>7. Tail(T) = SubSeq(P, d + 2, Len(P))
  <2>1. PICK U, V : U = Tail(T) /\ V = SubSeq(P, d + 2, Len(P)) OBVIOUS
  <2>2. U \in Seq(S) /\ V \in Seq(S) /\ Len(U) = Len(V)
    BY <1>3, <1>5, <2>1
  <2>3. \A i \in 1..Len(U) : U[i] = V[i]
    BY <1>3, <1>5, <1>6, <2>1
  <2>4. U = [i \in 1..Len(U) |-> U[i]] /\ V = [i \in 1..Len(V) |-> V[i]]
    BY <2>2
  <2> QED BY <2>1, <2>2, <2>3, <2>4
<1>8. (d + 1) + 1 = d + 2 OBVIOUS
<1> QED BY <1>1, <1>2, <1>4, <1>7, <1>8

\* A child is added to its node.
LEMMA FrameChild ==
  ASSUME NEW f, NEW c, FrameOK(f, c), f.pend # <<>>, NEW g, g = [f EXCEPT !.pend = Tail(f.pend)],
         nodes \in Seq(Node), Grows, NEW id, id \in Nat, NEW s, s = Token(f, c),
         f.id \in DOMAIN nodes', IsNodeOf(id, Mod(c), s)', ~f.enter,
         nodes'[f.id].dest = nodes[f.id].dest,
         nodes'[f.id].child = Append(nodes[f.id].child, id),
         Kind(f.mod, f.name) = "sub" => nodes'[f.id].wire = Append(nodes[f.id].wire, s),
         Kind(f.mod, f.name) # "sub" => nodes'[f.id].wire = nodes[f.id].wire
  PROVE  FrameOK(g, c)'
<1> DEFINE w == c \o f.saved
           m == f.mod
           x == f.name
           P == Pending(w, x)
<1>0. PICK n : n = nodes[f.id] OBVIOUS
<1>1. /\ f \in Frames /\ Path(c) /\ Path(w) /\ Mod(w) = m /\ x \in DOMAIN Assign[m] /\ x \in DOMAIN visited[m]
      /\ f.saved = IF FromParent(m, x) THEN <<Last(w)>> ELSE <<>>
      /\ f.id \in DOMAIN nodes
  BY DEF FrameOK
<1>2. PICK d \in 0..Len(P) : f.pend = SubSeq(P, d + 1, Len(P)) /\ Progress(n, f, c, P, d)
  BY <1>0 DEF FrameOK
<1>3. P \in Seq(STRING) BY <1>1, PendingType
<1>4. f.pend \in Seq(STRING) /\ Tail(f.pend) \in Seq(STRING)
  BY <1>1 DEF Frames
<1>5. /\ g \in Frames /\ g.id = f.id /\ g.mod = f.mod /\ g.name = f.name /\ g.saved = f.saved /\ g.back = f.back
      /\ g.pend = Tail(f.pend) /\ g.enter = f.enter
  BY <1>1, <1>4 DEF Frames
<1>6. /\ d + 1 \in 0..Len(P) /\ Tail(f.pend) = SubSeq(P, (d + 1) + 1, Len(P)) /\ Head(f.pend) = P[d + 1]
  <2> HIDE DEF P
  <2>1. f.pend = SubSeq(P, d + 1, Len(P)) BY <1>2
  <2>2. d + 1 \in 1..Len(P) /\ Head(f.pend) = P[d + 1] /\ Tail(f.pend) = SubSeq(P, (d + 1) + 1, Len(P))
    BY <1>2, <1>3, <2>1, SubSeqNext
  <2>3. d + 1 \in 0..Len(P) BY <2>2, <1>3
  <2> QED BY <2>2, <2>3
<1>7. n \in Node /\ n.child \in Seq(Nat) /\ n.wire \in Seq(STRING) /\ m \in Modules /\ Mod(c) \in Modules
  <2>1. n \in Node BY <1>0, <1>1
  <2>2. m \in Modules /\ Mod(c) \in Modules BY <1>1, PathMod
  <2> QED BY <2>1, <2>2 DEF Node
<1>8. PICK k : k = nodes'[f.id] OBVIOUS
<1>9. k.dest = x
  BY <1>0, <1>2, <1>8 DEF Progress
<1>10. ASSUME Kind(m, x) = "sub"
       PROVE  Len(k.child) = Len(k.wire) /\ \A j \in DOMAIN k.child : IsNodeOf(k.child[j], m, k.wire[j])'
  <2>1. Len(n.child) = Len(n.wire) /\ \A j \in DOMAIN n.child : IsNodeOf(n.child[j], m, n.wire[j])
    BY <1>2, <1>10 DEF Progress
  <2>2. k.child = Append(n.child, id) /\ k.wire = Append(n.wire, s)
    BY <1>0, <1>8, <1>10
  <2>3. Mod(c) = m /\ s \in STRING BY <1>10, TokenFound
  <2>4. IsNodeOf(id, m, s)' BY <2>3
  <2>5. \A j \in DOMAIN n.child : IsNodeOf(n.child[j], m, n.wire[j])' BY <1>7, <2>1, NodeKept
  <2> HIDE DEF m, x
  <2>6. Len(k.child) = Len(n.child) + 1 /\ Len(k.wire) = Len(n.wire) + 1 BY <1>7, <2>2, <2>3
  <2>7. ASSUME NEW j \in DOMAIN k.child PROVE IsNodeOf(k.child[j], m, k.wire[j])'
    <3>1. CASE j \in DOMAIN n.child
      <4>1. k.child[j] = n.child[j] /\ k.wire[j] = n.wire[j] BY <1>7, <2>1, <2>2, <2>3, <3>1
      <4> QED BY <4>1, <2>5, <3>1
    <3>2. CASE j = Len(n.child) + 1
      <4>1. k.child[j] = id /\ k.wire[j] = s BY <1>7, <2>1, <2>2, <2>3, <3>2
      <4> QED BY <4>1, <2>4
    <3>3. j \in DOMAIN n.child \/ j = Len(n.child) + 1
      BY <1>7, <2>2
    <3> QED BY <3>1, <3>2, <3>3
  <2> QED BY <2>1, <2>6, <2>7
<1>11. ASSUME Kind(m, x) # "sub"
       PROVE  Len(k.child) = d + 1 /\ (\A j \in DOMAIN k.child : IsNodeOf(k.child[j], Mod(c), P[j])') /\ k.wire = n.wire
  <2>1. Len(n.child) = d /\ \A j \in DOMAIN n.child : IsNodeOf(n.child[j], Mod(c), P[j])
    BY <1>2, <1>11 DEF Progress
  <2>2. k.child = Append(n.child, id) /\ k.wire = n.wire
    BY <1>0, <1>8, <1>11
  <2>3. s = P[d + 1] BY <1>6, <1>11 DEF Token
  <2>5. \A j \in DOMAIN n.child : IsNodeOf(n.child[j], Mod(c), P[j])' BY <1>7, <2>1, NodeKept
  <2> HIDE DEF m, x, P
  <2>6. Len(k.child) = Len(n.child) + 1 BY <1>7, <2>2
  <2>7. ASSUME NEW j \in DOMAIN k.child PROVE IsNodeOf(k.child[j], Mod(c), P[j])'
    <3>1. CASE j \in DOMAIN n.child
      <4>1. k.child[j] = n.child[j] BY <1>7, <2>2, <3>1
      <4> QED BY <4>1, <2>5, <3>1
    <3>2. CASE j = Len(n.child) + 1
      <4>1. k.child[j] = id /\ P[j] = s BY <1>7, <2>1, <2>2, <2>3, <3>2
      <4>2. IsNodeOf(id, Mod(c), s)' OBVIOUS
      <4> QED BY <4>1, <4>2
    <3>3. j \in DOMAIN n.child \/ j = Len(n.child) + 1
      BY <1>7, <2>2
    <3> QED BY <3>1, <3>2, <3>3
  <2> QED BY <2>1, <2>2, <2>6, <2>7
<1>12. FromParent(m, x) => k.wire = P
  <2>1. FromParent(m, x) => Kind(m, x) # "sub" BY DEF FromParent
  <2>2. FromParent(m, x) => n.wire = P BY <1>2 DEF Progress
  <2> HIDE DEF m, x, P
  <2> QED BY <2>1, <2>2, <1>11
<1>13. Progress(k, g, c, P, d + 1)'
  <2> HIDE DEF P
  <2> QED BY <1>5, <1>9, <1>10, <1>11, <1>12 DEF Progress
<1>14. Progress(nodes[g.id], g, c, P, d + 1)'
  <2> HIDE DEF P
  <2> QED BY <1>5, <1>8, <1>13
<1>15. /\ g.id \in DOMAIN nodes' /\ Path(c) /\ Path(c \o g.saved) /\ Mod(c \o g.saved) = g.mod
       /\ g.name \in DOMAIN Assign[g.mod] /\ g.name \in DOMAIN visited'[g.mod]
       /\ g.saved = IF FromParent(g.mod, g.name) THEN <<Last(c \o g.saved)>> ELSE <<>>
  BY <1>1, <1>5, <1>7 DEF Grows
<1>16. Pending(c \o g.saved, g.name) = P /\ ~g.enter BY <1>5
<1> HIDE DEF P
<1> QED BY <1>5, <1>6, <1>14, <1>15, <1>16 DEF FrameOK

\* An input that is wired to the clock is passed over.
LEMMA FrameSkips ==
  ASSUME NEW f, NEW c, FrameOK(f, c), f.pend # <<>>, NEW g, g = [f EXCEPT !.pend = Tail(@)],
         Kind(f.mod, f.name) = "sub", ~f.enter, UNCHANGED <<nodes, visited>>
  PROVE  /\ g \in Frames /\ g.id = f.id /\ g.mod = f.mod /\ g.name = f.name /\ g.saved = f.saved /\ g.back = f.back
         /\ FrameOK(g, c)'
<1> DEFINE P == Pending(c \o f.saved, f.name)
<1>1. f \in Frames /\ Path(c \o f.saved) /\ f.name \in DOMAIN Assign[Mod(c \o f.saved)]
  BY DEF FrameOK
<1>2. P \in Seq(STRING) BY <1>1, PendingType
<1>3. f.pend \in Seq(STRING) /\ Tail(f.pend) \in Seq(STRING)
  BY <1>1 DEF Frames
<1>4. /\ g \in Frames /\ g.id = f.id /\ g.mod = f.mod /\ g.name = f.name /\ g.saved = f.saved /\ g.back = f.back
      /\ g.pend = Tail(f.pend) /\ g.enter = f.enter
  BY <1>1, <1>3 DEF Frames
<1>5. FrameOK(f, c)' BY FrameKept DEF Grows, FrameOK
<1>6. PICK d \in 0..Len(P) : f.pend = SubSeq(P, d + 1, Len(P)) /\ Progress(nodes[f.id], f, c, P, d)'
  BY <1>5 DEF FrameOK
<1>7. /\ d + 1 \in 0..Len(P) /\ Tail(f.pend) = SubSeq(P, (d + 1) + 1, Len(P))
  <2> HIDE DEF P
  <2>1. f.pend = SubSeq(P, d + 1, Len(P)) BY <1>6
  <2>2. d + 1 \in 1..Len(P) /\ Tail(f.pend) = SubSeq(P, (d + 1) + 1, Len(P))
    BY <1>2, <1>6, <2>1, SubSeqNext
  <2>3. d + 1 \in 0..Len(P) BY <2>2, <1>2
  <2> QED BY <2>2, <2>3
<1>8. PICK n : n = nodes'[f.id] OBVIOUS
<1> HIDE DEF P
<1>9. Progress(n, f, c, P, d)' BY <1>6, <1>8
<1>10. Progress(n, g, c, P, d + 1)' BY <1>4, <1>9 DEF Progress
<1>11. Progress(nodes[g.id], g, c, P, d + 1)' BY <1>4, <1>8, <1>10
<1>12. /\ g.id \in DOMAIN nodes' /\ Path(c) /\ Path(c \o g.saved) /\ Mod(c \o g.saved) = g.mod
       /\ g.name \in DOMAIN Assign[g.mod] /\ g.name \in DOMAIN visited'[g.mod]
       /\ g.saved = IF FromParent(g.mod, g.name) THEN <<Last(c \o g.saved)>> ELSE <<>>
  BY <1>4, <1>5 DEF FrameOK
<1>13. Pending(c \o g.saved, g.name) = P /\ ~g.enter BY <1>4 DEF P
<1> QED BY <1>4, <1>7, <1>11, <1>12, <1>13 DEF FrameOK
-----------------------------------------------------------------------------
(* What holds of the trees.                                                *)
Trees == StoreOK /\ StackOK /\ Owned /\ NoReentry /\ Built

\* The innermost call.
LEMMA TopFrame ==
  ASSUME StoreOK, calls # <<>>, NEW H \in [0..Len(calls) -> Seq(Entry)], Stacked(H)
  PROVE  /\ Len(calls) \in DOMAIN calls /\ F = calls[Len(calls)] /\ FrameOK(F, ctx)
         /\ Path(ctx) /\ Here \in Modules /\ H[0] # <<>>
<1>1. Len(calls) \in DOMAIN calls /\ F = calls[Len(calls)]
  BY DEF StoreOK, F, Last
<1>2. FrameOK(calls[Len(calls)], H[Len(calls)]) /\ H[Len(calls)] = ctx /\ H[0] # <<>>
  BY <1>1 DEF Stacked
<1>3. FrameOK(F, ctx) BY <1>1, <1>2
<1>4. Path(ctx) BY <1>3 DEF FrameOK
<1> QED BY <1>1, <1>2, <1>3, <1>4, PathMod DEF Here

\* Steps that leave the trees alone.
LEMMA TreesKept ==
  ASSUME Trees, UNCHANGED <<names, ctx, calls, nodes, visited, outport, clk, flat>>,
         left' \subseteq Outputs \cup TargetsIn(text'), flat' \subseteq Modules \ {Top}
  PROVE  Trees'
<1>1. StoreOK' BY DEF Trees, StoreOK
<1>2. Grows BY DEF Grows
<1>3. PICK H \in [0..Len(calls) -> Seq(Entry)] : Stacked(H)
  BY DEF Trees, StackOK
<1>4. ASSUME NEW k \in DOMAIN calls PROVE FrameOK(calls[k], H[k])'
  <2>1. PICK f, c : f = calls[k] /\ c = H[k] OBVIOUS
  <2>2. FrameOK(f, c) BY <1>3, <2>1 DEF Stacked
  <2>3. FrameOK(f, c)' BY <1>2, <2>2, FrameKept DEF FrameOK
  <2> QED BY <2>1, <2>3
<1>5. Stacked(H)' BY <1>3, <1>4 DEF Stacked
<1>6. StackOK' BY <1>5 DEF StackOK
<1>7. Owned' /\ NoReentry' BY DEF Trees, Owned, NoReentry
<1>8. Built'
  <2> SUFFICES ASSUME NEW m \in Modules, NEW x \in DOMAIN visited[m], NEW id, id = visited[m][x], Finished(id)'
               PROVE  Faithful(nodes[id], m, x)' /\ Complete(nodes[id], m, x)'
    BY DEF Built
  <2>1. PICK n : n = nodes[id] OBVIOUS
  <2>2. Finished(id) BY DEF Finished
  <2>3. Faithful(n, m, x) /\ Complete(n, m, x) BY <2>1, <2>2 DEF Trees, Built
  <2>4. Faithful(n, m, x)' BY <1>2, <2>3, FaithfulKept
  <2> QED BY <2>1, <2>3, <2>4
<1> QED BY <1>1, <1>6, <1>7, <1>8 DEF Trees

\* The next target.
LEMMA TakesRoot ==
  ASSUME Trees, text \in Files, TakeRoot
  PROVE  Trees'
<1>1. PICK r \in left :
        /\ left' = left \ {r}
        /\ IF r.name \in Skipped THEN UNCHANGED <<names, ctx, flat>>
           ELSE /\ ctx' = Along(r.path) /\ names' = InPieces(r.name)
                /\ flat' = flat \cup {c.mod : c \in Range(Tail(Along(r.path)))}
  BY DEF TakeRoot
<1>2. calls = <<>> /\ names = <<>> /\ UNCHANGED <<file, calls, nodes, visited, outport, clk>>
  BY DEF TakeRoot
<1>3. UNCHANGED <<text, calls, nodes, visited, outport, clk>>
  BY <1>2 DEF file
<1>4. left \subseteq Outputs \cup TargetsIn(text) /\ flat \subseteq Modules \ {Top}
  BY DEF Trees, StoreOK
<1>5. left' \subseteq Outputs \cup TargetsIn(text')
  BY <1>1, <1>3, <1>4
<1>6. CASE r.name \in Skipped
  BY <1>1, <1>3, <1>4, <1>5, <1>6, TreesKept
<1>7. CASE r.name \notin Skipped
  <2>1. PICK c : c = Along(r.path) OBVIOUS
  <2>2. Path(c) /\ InPieces(r.name) \in Seq({s \in STRING : Finds(Mod(c), s)})
    BY <1>1, <1>4, <1>7, <2>1, TargetAssumption
  <2>3. ctx' = c /\ names' = InPieces(r.name) /\ flat' = flat \cup {e.mod : e \in Range(Tail(c))}
    BY <1>1, <1>7, <2>1
  <2>4. c \in Seq(Entry) /\ Len(c) > 0 BY <2>2, PathMod
  <2>5. ASSUME NEW k \in 2..Len(c) PROVE c[k].mod \in Modules \ {Top}
    <3>1. k - 1 \in DOMAIN c BY <2>4
    <3>2. c[k - 1] \in Entry BY <2>4, <3>1
    <3>3. c[k - 1].mod \in Modules BY <3>2 DEF Entry
    <3>4. c[k].ins \in DOMAIN InsMod[c[k - 1].mod] /\ c[k].mod = InsMod[c[k - 1].mod][c[k].ins]
      BY <2>2 DEF Path
    <3> QED BY <3>3, <3>4, InstanceFacts
  <2>6. ASSUME NEW e \in Range(Tail(c)) PROVE e.mod \in Modules \ {Top}
    <3>1. PICK k \in DOMAIN Tail(c) : e = Tail(c)[k] BY DEF Range
    <3>2. k + 1 \in 2..Len(c) /\ Tail(c)[k] = c[k + 1] BY <2>4, <3>1
    <3> QED BY <3>1, <3>2, <2>5
  <2>7. flat' \subseteq Modules \ {Top}
    BY <2>3, <2>6, <1>4
  <2>8. names' \in Seq(STRING) /\ \A k \in DOMAIN names' : Finds(Mod(c), names'[k])
    <3> DEFINE On == {s \in STRING : Finds(Mod(c), s)}
    <3>1. names' \in Seq(On) BY <2>2, <2>3
    <3>2. \A s \in On : s \in STRING /\ Finds(Mod(c), s) OBVIOUS
    <3> HIDE DEF On
    <3> QED BY <3>1, <3>2
  <2>9. StoreOK'
    BY <1>3, <1>5, <2>3, <2>4, <2>7, <2>8 DEF Trees, StoreOK
  <2>10. StackOK'
    <3>1. PICK H : H = [k \in 0..0 |-> c] OBVIOUS
    <3>2. H \in [0..Len(calls') -> Seq(Entry)] /\ H[0] = c BY <1>2, <2>4, <3>1
    <3>3. Stacked(H)' BY <1>2, <2>2, <2>3, <2>4, <2>8, <3>2 DEF Stacked
    <3> QED BY <3>2, <3>3 DEF StackOK
  <2>11. Owned' /\ NoReentry' BY <1>3 DEF Trees, Owned, NoReentry
  <2>12. Built'
    <3> SUFFICES ASSUME NEW m \in Modules, NEW x \in DOMAIN visited[m], NEW id, id = visited[m][x], Finished(id)'
                 PROVE  Faithful(nodes[id], m, x)' /\ Complete(nodes[id], m, x)'
      BY <1>3 DEF Built
    <3>1. PICK n : n = nodes[id] OBVIOUS
    <3>2. Finished(id) BY <1>3 DEF Finished
    <3>3. Faithful(n, m, x) /\ Complete(n, m, x) BY <3>1, <3>2 DEF Trees, Built
    <3>4. Grows BY <1>3 DEF Grows
    <3>5. Faithful(n, m, x)' BY <3>3, <3>4, FaithfulKept
    <3> QED BY <1>3, <3>1, <3>3, <3>5
  <2> QED BY <2>9, <2>10, <2>11, <2>12 DEF Trees
<1> QED BY <1>6, <1>7

\* What a call that is begun leaves of the nodes and names.
LEMMA OpenGrows ==
  ASSUME StoreOK, NEW c, Path(c), NEW x, Finds(Mod(c), x), NEW back \in BOOLEAN,
         NEW cs, NEW ns \in Seq(Node), NEW id \in DOMAIN ns, ns[id] = Empty,
         NEW y, y = Assigned(Mod(c), x), Open(x, id, c, back, ns, cs)
  PROVE  /\ Grows /\ DOMAIN nodes' = DOMAIN ns
         /\ \A k \in DOMAIN ns \ {id} : nodes'[k] = ns[k]
         /\ y \notin DOMAIN visited[Mod(c)] => IsNodeOf(id, Mod(c), x)'
<1>1. PICK wire : wire = IF FromParent(Mod(c), y) THEN <<Wire(c, y)>> ELSE <<>> OBVIOUS
<1>2. /\ visited' = [visited EXCEPT ![Mod(c)] = Mark(@, y, id)]
      /\ nodes' = [ns EXCEPT ![id].dest = y, ![id].wire = wire]
  BY <1>1 DEF Open
<1>3. PICK m : m = Mod(c) OBVIOUS
<1>4. DOMAIN nodes' = DOMAIN ns /\ \A k \in DOMAIN ns \ {id} : nodes'[k] = ns[k]
  BY <1>2
<1>5. /\ m \in Modules /\ visited'[m] = Mark(visited[m], y, id)
      /\ \A k \in Modules \ {m} : visited'[k] = visited[k]
  BY <1>2, <1>3, PathMod DEF StoreOK
<1>6. visited'[m] = [z \in DOMAIN visited[m] \cup {y} |->
                       IF z \in DOMAIN visited[m] THEN visited[m][z] ELSE id]
  <2>1. visited[m] \in [DOMAIN visited[m] -> DOMAIN nodes] BY <1>5 DEF StoreOK
  <2> QED BY <1>5, <2>1 DEF Mark, Put
<1>7. /\ DOMAIN visited[m] \subseteq DOMAIN visited'[m] /\ y \in DOMAIN visited'[m]
      /\ \A z \in DOMAIN visited[m] : visited'[m][z] = visited[m][z]
      /\ y \notin DOMAIN visited[m] => visited'[m][y] = id
  BY <1>6
<1>8. Grows BY <1>5, <1>7 DEF Grows
<1>9. Assigned(m, x) = y BY <1>3
<1>10. y \notin DOMAIN visited[m] => IsNodeOf(id, m, x)'
  BY <1>7, <1>9 DEF IsNodeOf
<1> QED BY <1>3, <1>4, <1>8, <1>10

\* The nodes, with one more that is empty.
LEMMA OneMore ==
  ASSUME NEW ns \in Seq(Node), NEW id, id = Len(ns) + 1, NEW more, more = Append(ns, Empty)
  PROVE  /\ more \in Seq(Node) /\ Len(more) = id /\ more[id] = Empty /\ id \in DOMAIN more /\ id \notin DOMAIN ns
         /\ DOMAIN ns \subseteq DOMAIN more /\ \A k \in DOMAIN ns : more[k] = ns[k]
<1>1. Empty \in Node
  <2>1. <<>> \in Seq(STRING) /\ <<>> \in Seq(Nat) OBVIOUS
  <2> QED BY <2>1, Zenon DEF Empty, Node
<1>2. PICK e : e = Empty OBVIOUS
<1>3. /\ Append(ns, e) \in Seq(Node) /\ Len(Append(ns, e)) = id /\ Append(ns, e)[id] = e
      /\ id \in DOMAIN Append(ns, e) /\ id \notin DOMAIN ns
      /\ DOMAIN ns \subseteq DOMAIN Append(ns, e) /\ \A k \in DOMAIN ns : Append(ns, e)[k] = ns[k]
  BY <1>1, <1>2
<1> QED BY <1>2, <1>3

\* The next of what is built for a target.
LEMMA StartsRoot ==
  ASSUME Trees, StartRoot
  PROVE  Trees'
<1>1. /\ calls = <<>> /\ names # <<>> /\ names' = Tail(names)
      /\ UNCHANGED <<text, left, outport, clk, flat>>
  BY DEF StartRoot, file
<1>2. PICK H \in [0..Len(calls) -> Seq(Entry)] : Stacked(H)
  BY DEF Trees, StackOK
<1>3. H[0] = ctx /\ H[0] # <<>> /\ Path(ctx)
  BY <1>1, <1>2 DEF Stacked
<1>4. /\ names \in Seq(STRING) /\ names' \in Seq(STRING)
      /\ Head(names) = names[1] /\ 1 \in DOMAIN names
      /\ \A k \in DOMAIN names' : k + 1 \in DOMAIN names /\ names'[k] = names[k + 1]
  BY <1>1 DEF Trees, StoreOK
<1>5. Finds(Mod(ctx), Head(names)) /\ \A k \in DOMAIN names' : Finds(Mod(H[0]), names'[k])
  BY <1>2, <1>3, <1>4 DEF Stacked
<1>6. CASE Head(names) \in DOMAIN visited[Here]
  <2>1. UNCHANGED <<calls, nodes, visited, ctx>> BY <1>6 DEF StartRoot
  <2>2. StoreOK' BY <1>1, <1>4, <2>1 DEF Trees, StoreOK
  <2>3. Stacked(H)' BY <1>1, <1>2, <1>3, <1>5, <2>1 DEF Stacked
  <2>4. StackOK' BY <2>1, <2>3 DEF StackOK
  <2>5. Owned' /\ NoReentry' BY <2>1 DEF Trees, Owned, NoReentry
  <2>6. Built'
    <3> SUFFICES ASSUME NEW m \in Modules, NEW x \in DOMAIN visited[m], NEW id, id = visited[m][x], Finished(id)'
                 PROVE  Faithful(nodes[id], m, x)' /\ Complete(nodes[id], m, x)'
      BY <2>1 DEF Built
    <3>1. PICK n : n = nodes[id] OBVIOUS
    <3>2. Finished(id) BY <2>1 DEF Finished
    <3>3. Faithful(n, m, x) /\ Complete(n, m, x) BY <3>1, <3>2 DEF Trees, Built
    <3>4. Grows BY <2>1 DEF Grows
    <3>5. Faithful(n, m, x)' BY <3>3, <3>4, FaithfulKept
    <3> QED BY <2>1, <3>1, <3>3, <3>5
  <2> QED BY <2>2, <2>4, <2>5, <2>6 DEF Trees
<1>7. CASE Head(names) \notin DOMAIN visited[Here]
  <2>1. PICK x, y, id, ns, c, t, back, cs :
          /\ x = Head(names) /\ y = Assigned(Mod(ctx), x) /\ id = Len(nodes) + 1
          /\ ns = Append(nodes, Empty) /\ c = ctx /\ t = ctx /\ back = FALSE /\ cs = <<>>
    OBVIOUS
  <2>2. Open(x, id, c, back, ns, cs) BY <1>7, <2>1 DEF StartRoot
  <2>3. nodes \in Seq(Node) BY DEF Trees, StoreOK
  <2>4. /\ ns \in Seq(Node) /\ Len(ns) = id /\ ns[id] = Empty
        /\ \A k \in DOMAIN nodes : ns[k] = nodes[k]
    BY <2>1, <2>3, OneMore
  <2>5. SameCalls(cs, H) BY <1>1, <2>1 DEF SameCalls
  <2>6. /\ StackOK' /\ Owned' /\ NoReentry' /\ Built'
        /\ calls' \in Seq(Frames) /\ nodes' \in Seq(Node) /\ DOMAIN nodes' = 1..id /\ ctx' \in Seq(Entry)
        /\ visited' = [m \in Modules |-> visited'[m]]
        /\ \A m \in Modules : /\ visited'[m] \in [DOMAIN visited'[m] -> DOMAIN nodes']
                              /\ DOMAIN visited'[m] \subseteq DOMAIN Assign[m]
    <3>1. /\ Path(c) /\ Finds(Mod(c), x) /\ back \in BOOLEAN /\ (IF back THEN Front(c) ELSE c) = ctx
          /\ y = Assigned(Mod(c), x) /\ t = ctx /\ id = Len(nodes) + 1 /\ Len(ns) = id /\ ns[id] = Empty
      BY <1>3, <1>5, <2>1, <2>4
    <3>2. /\ calls # <<>> => y \notin DOMAIN visited[Mod(c)]
          /\ calls # <<>> => FrameOK(cs[Len(cs)], t)'
          /\ \A k \in DOMAIN nodes : (calls = <<>> \/ k # F.id) => ns[k] = nodes[k]
      BY <1>1, <2>4
    <3>3. StoreOK /\ Owned /\ NoReentry /\ Built BY DEF Trees
    <3> QED BY <1>2, <1>3, <1>5, <2>2, <2>4, <2>5, <3>1, <3>2, <3>3, PushStep
  <2>7. DOMAIN nodes \subseteq DOMAIN nodes' BY <2>1, <2>3, <2>6
  <2>8. StoreOK' BY <1>1, <1>4, <2>6, <2>7 DEF Trees, StoreOK
  <2> QED BY <2>6, <2>8 DEF Trees
<1> QED BY <1>6, <1>7

\* An instance is entered through its output.
LEMMA EntersPort ==
  ASSUME Trees, EnterPort
  PROVE  Trees'
<1>0. StoreOK /\ Owned /\ NoReentry /\ Built BY DEF Trees
<1>1. calls # <<>> /\ F.enter /\ UNCHANGED <<text, left, names, clk, flat>>
  BY DEF EnterPort, file
<1>2. PICK H \in [0..Len(calls) -> Seq(Entry)] : Stacked(H)
  BY DEF Trees, StackOK
<1>3. /\ Len(calls) \in DOMAIN calls /\ F = calls[Len(calls)] /\ FrameOK(F, ctx)
      /\ Path(ctx) /\ Here \in Modules /\ H[0] # <<>>
  BY <1>0, <1>1, <1>2, TopFrame
<1>4. PICK f, t : f = F /\ t = ctx OBVIOUS
<1>5. PICK g : g = [f EXCEPT !.enter = FALSE] OBVIOUS
<1>6. PICK m, x, sub, out, id :
        /\ m = Here /\ x = f.name /\ sub = SubOf(m, x) /\ out = Assign[m][x].port /\ id = Len(nodes) + 1
  OBVIOUS
<1>7. PICK e : e = [ins |-> Assign[m][x].ins, mod |-> sub] OBVIOUS
<1>8. PICK c : c = Append(ctx, e) OBVIOUS
<1>9. PICK cs : cs = [calls EXCEPT ![Len(calls)] = g] OBVIOUS
<1>10. PICK ns : ns = Append(nodes, Empty) OBVIOUS
<1>11. /\ f \in Frames /\ f.id \in DOMAIN nodes /\ Kind(f.mod, x) = "sub" /\ x \in DOMAIN Assign[f.mod]
       /\ f.mod = m /\ m \in Modules
  <2>1. /\ f \in Frames /\ f.id \in DOMAIN nodes /\ Kind(f.mod, x) = "sub" /\ x \in DOMAIN Assign[f.mod]
        /\ f.saved = (IF FromParent(f.mod, x) THEN <<Last(t \o f.saved)>> ELSE <<>>)
        /\ Mod(t \o f.saved) = f.mod
    BY <1>1, <1>3, <1>4, <1>6 DEF FrameOK
  <2>2. f.saved = <<>> BY <2>1 DEF FromParent
  <2>3. t \in Seq(Entry) BY <1>3, <1>4, PathMod
  <2>4. t \o f.saved = t BY <2>2, <2>3
  <2> QED BY <1>3, <1>4, <1>6, <2>1, <2>4 DEF Here
<1>12. [calls EXCEPT ![Len(calls)].enter = FALSE] = cs
  BY <1>3, <1>4, <1>5, <1>9
<1>13. nodes \in Seq(Node) BY <1>0 DEF StoreOK
<1>14. /\ ns \in Seq(Node) /\ Len(ns) = id /\ ns[id] = Empty /\ id \in DOMAIN ns /\ id \notin DOMAIN nodes
       /\ DOMAIN nodes \subseteq DOMAIN ns /\ \A k \in DOMAIN nodes : ns[k] = nodes[k]
  BY <1>6, <1>10, <1>13, OneMore
<1>15. /\ g \in Frames /\ g.id = f.id /\ g.mod = f.mod /\ g.name = f.name /\ g.saved = f.saved /\ g.back = f.back
  BY <1>5, <1>11 DEF Frames
<1>16. SameCalls(cs, H) /\ cs[Len(cs)] = g
  <2>1. calls \in Seq(Frames) BY <1>0 DEF StoreOK
  <2> QED BY <1>1, <1>4, <1>9, <1>15, <2>1, Advances
<1>17. ASSUME Grows, DOMAIN nodes \subseteq DOMAIN nodes', \A k \in DOMAIN nodes : nodes'[k] = nodes[k]
       PROVE  FrameOK(cs[Len(cs)], t)'
  <2>1. f.id \in DOMAIN nodes' /\ nodes'[f.id] = nodes[f.id] BY <1>11, <1>17
  <2>2. FrameOK(f, t) BY <1>3, <1>4
  <2>3. FrameOK(g, t)' BY <1>5, <1>17, <2>1, <2>2, FrameEntered
  <2> QED BY <1>16, <2>3
<1>18. IF sub \in BlackBox \cup Mems \/ IsStored(sub, out)
       THEN calls' = cs /\ UNCHANGED <<ctx, nodes, visited, outport>>
       ELSE /\ outport' = Put(outport, <<sub, out>>, id)
            /\ IF out \in DOMAIN visited[sub]
               THEN calls' = cs /\ nodes' = ns /\ UNCHANGED <<ctx, visited>>
               ELSE Open(out, id, c, TRUE, ns, cs)
  BY <1>4, <1>6, <1>7, <1>8, <1>10, <1>12 DEF EnterPort
<1>19. ASSUME calls' = cs, UNCHANGED <<ctx, visited>>, nodes' \in Seq(Node), DOMAIN nodes \subseteq DOMAIN nodes',
              \A k \in DOMAIN nodes : nodes'[k] = nodes[k],
              outport' \in [DOMAIN outport' -> DOMAIN nodes']
       PROVE  Trees'
  <2>1. Grows BY <1>19 DEF Grows
  <2>2. FrameOK(cs[Len(cs)], t)' BY <1>17, <1>19, <2>1
  <2>3. StackOK' /\ Owned' /\ NoReentry' /\ Built'
    BY <1>0, <1>1, <1>2, <1>4, <1>16, <1>19, <2>2, TopStep
  <2>4. cs \in Seq(Frames) BY <1>16 DEF SameCalls
  <2>5. StoreOK' BY <1>0, <1>1, <1>19, <2>4 DEF StoreOK
  <2> QED BY <2>3, <2>5 DEF Trees
<1>20. outport \in [DOMAIN outport -> DOMAIN nodes] BY <1>0 DEF StoreOK
<1>21. CASE sub \in BlackBox \cup Mems \/ IsStored(sub, out)
  BY <1>13, <1>18, <1>19, <1>20, <1>21
<1>22. CASE ~(sub \in BlackBox \cup Mems \/ IsStored(sub, out))
  <2>1. ASSUME DOMAIN nodes' = DOMAIN ns PROVE outport' \in [DOMAIN outport' -> DOMAIN nodes']
    BY <1>14, <1>18, <1>20, <1>22, <2>1 DEF Put
  <2>2. CASE out \in DOMAIN visited[sub]
    BY <1>14, <1>18, <1>19, <1>22, <2>1, <2>2
  <2>3. CASE out \notin DOMAIN visited[sub]
    <3>1. Open(out, id, c, TRUE, ns, cs) BY <1>18, <1>22, <2>3
    <3>2. /\ Assign[m][x].ins \in DOMAIN InsMod[m]
          /\ SubOf(m, x) \notin BlackBox \cup Mems => Assign[m][x].port \in DOMAIN Assign[SubOf(m, x)]
      BY <1>11, NameFacts
    <3>3. out \in DOMAIN Assign[sub] /\ sub = InsMod[m][e.ins] /\ e.ins \in DOMAIN InsMod[m]
          /\ e = [ins |-> e.ins, mod |-> InsMod[m][e.ins]]
      BY <1>6, <1>7, <1>22, <3>2 DEF SubOf
    <3>4. Path(c) /\ Mod(c) = sub /\ Front(c) = ctx
      BY <1>3, <1>6, <1>7, <1>8, <3>3, PathAppend DEF Here
    <3>5. Finds(Mod(c), out) /\ out = Assigned(Mod(c), out)
      BY <3>3, <3>4 DEF Finds, Assigned
    <3>6. PICK back : back = TRUE OBVIOUS
    <3>7. Grows /\ DOMAIN nodes' = DOMAIN ns /\ \A k \in DOMAIN ns \ {id} : nodes'[k] = ns[k]
      <4>1. back \in BOOLEAN /\ Open(out, id, c, back, ns, cs) BY <3>1, <3>6
      <4> QED BY <1>0, <1>14, <3>4, <3>5, <4>1, OpenGrows
    <3>8. DOMAIN nodes \subseteq DOMAIN nodes' /\ \A k \in DOMAIN nodes : nodes'[k] = nodes[k]
      BY <1>14, <3>7
    <3>9. FrameOK(cs[Len(cs)], t)' BY <1>17, <3>7, <3>8
    <3>10. /\ StackOK' /\ Owned' /\ NoReentry' /\ Built'
           /\ calls' \in Seq(Frames) /\ nodes' \in Seq(Node) /\ DOMAIN nodes' = 1..id /\ ctx' \in Seq(Entry)
           /\ visited' = [k \in Modules |-> visited'[k]]
           /\ \A k \in Modules : /\ visited'[k] \in [DOMAIN visited'[k] -> DOMAIN nodes']
                                 /\ DOMAIN visited'[k] \subseteq DOMAIN Assign[k]
      <4>1. /\ back \in BOOLEAN /\ (IF back THEN Front(c) ELSE c) = ctx /\ Open(out, id, c, back, ns, cs)
            /\ t = ctx /\ id = Len(nodes) + 1
        BY <1>4, <1>6, <3>1, <3>4, <3>6
      <4>2. /\ calls # <<>> => out \notin DOMAIN visited[Mod(c)]
            /\ calls # <<>> => FrameOK(cs[Len(cs)], t)'
            /\ \A k \in DOMAIN nodes : (calls = <<>> \/ k # F.id) => ns[k] = nodes[k]
        BY <1>14, <2>3, <3>4, <3>9
      <4>3. \A k \in DOMAIN names' : Finds(Mod(H[0]), names'[k])
        BY <1>1, <1>2 DEF Stacked
      <4> QED BY <1>0, <1>2, <1>3, <1>14, <1>16, <3>4, <3>5, <4>1, <4>2, <4>3, PushStep
    <3>11. outport' \in [DOMAIN outport' -> DOMAIN nodes'] BY <2>1, <3>7
    <3>12. StoreOK' BY <1>0, <1>1, <3>8, <3>10, <3>11 DEF StoreOK
    <3> QED BY <3>10, <3>12 DEF Trees
  <2> QED BY <2>2, <2>3
<1> QED BY <1>21, <1>22

\* The call under way goes on.
LEMMA WorkingFrame ==
  ASSUME Trees, Working, NEW H \in [0..Len(calls) -> Seq(Entry)], Stacked(H), NEW f, f = F, NEW t, t = ctx
  PROVE  /\ FrameOK(f, t) /\ ~f.enter /\ f.pend # <<>> /\ f.id \in DOMAIN nodes /\ f \in Frames
         /\ IsPort = (Kind(f.mod, f.name) = "sub") /\ NextWire = Token(f, t)
         /\ Path(t) /\ Mod(t) = Here /\ Here \in Modules /\ H[0] # <<>>
         /\ calls \in Seq(Frames) /\ Len(calls) \in DOMAIN calls /\ calls[Len(calls)] = f
<1>1. StoreOK BY DEF Trees
<1>2. calls # <<>> /\ ~f.enter /\ f.pend # <<>> BY DEF Working
<1>3. /\ Len(calls) \in DOMAIN calls /\ F = calls[Len(calls)] /\ FrameOK(F, ctx)
      /\ Path(ctx) /\ Here \in Modules /\ H[0] # <<>>
  BY <1>1, <1>2, TopFrame
<1>4. IsPort = (Kind(f.mod, f.name) = "sub") BY DEF IsPort
<1>5. NextWire = Token(f, t) BY <1>4 DEF NextWire, Token, Here
<1>6. calls \in Seq(Frames) BY <1>1 DEF StoreOK
<1>7. FrameOK(f, t) /\ Mod(t) = Here BY <1>3 DEF Here
<1> QED BY <1>2, <1>3, <1>4, <1>5, <1>6, <1>7 DEF FrameOK

\* The clock of an instance is passed over.
LEMMA SkipsClock ==
  ASSUME Trees, SkipClock
  PROVE  Trees'
<1>0. StoreOK /\ Owned /\ NoReentry /\ Built BY DEF Trees
<1>1. /\ Working /\ IsPort /\ NextWire = clk[Here] /\ calls' = Advanced
      /\ clk' = [clk EXCEPT ![SubOf(Here, F.name)] = Head(F.pend)]
      /\ UNCHANGED <<text, left, names, ctx, nodes, visited, outport, flat>>
  BY DEF SkipClock, file
<1>2. PICK H \in [0..Len(calls) -> Seq(Entry)] : Stacked(H)
  BY DEF Trees, StackOK
<1>3. PICK f, t : f = F /\ t = ctx OBVIOUS
<1>4. /\ FrameOK(f, t) /\ ~f.enter /\ f.pend # <<>> /\ f.id \in DOMAIN nodes /\ f \in Frames
      /\ IsPort = (Kind(f.mod, f.name) = "sub") /\ NextWire = Token(f, t)
      /\ Path(t) /\ Mod(t) = Here /\ Here \in Modules /\ H[0] # <<>>
      /\ calls \in Seq(Frames) /\ Len(calls) \in DOMAIN calls /\ calls[Len(calls)] = f
  BY <1>1, <1>2, <1>3, WorkingFrame
<1>5. PICK g : g = [f EXCEPT !.pend = Tail(@)] OBVIOUS
<1>6. PICK cs : cs = [calls EXCEPT ![Len(calls)] = g] OBVIOUS
<1>7. calls' = cs BY <1>1, <1>4, <1>5, <1>6 DEF Advanced
<1>8. /\ g \in Frames /\ g.id = f.id /\ g.mod = f.mod /\ g.name = f.name /\ g.saved = f.saved /\ g.back = f.back
      /\ FrameOK(g, t)'
  <2>1. Kind(f.mod, f.name) = "sub" /\ UNCHANGED <<nodes, visited>> BY <1>1, <1>4
  <2>2. FrameOK(f, t) /\ ~f.enter /\ f.pend # <<>> BY <1>4
  <2> QED BY <1>5, <2>1, <2>2, FrameSkips
<1>9. SameCalls(cs, H) /\ cs[Len(cs)] = g
  <2>1. calls # <<>> BY <1>1 DEF Working
  <2> QED BY <1>3, <1>4, <1>6, <1>8, <2>1, Advances
<1>10. FrameOK(cs[Len(cs)], t)' BY <1>8, <1>9
<1>11. StackOK' /\ Owned' /\ NoReentry' /\ Built'
  <2>1. calls # <<>> BY <1>1 DEF Working
  <2>2. nodes \in Seq(Node) BY <1>0 DEF StoreOK
  <2>3. /\ ctx' = ctx /\ visited' = visited /\ names' = names /\ nodes' \in Seq(Node)
        /\ DOMAIN nodes \subseteq DOMAIN nodes' /\ \A k \in DOMAIN nodes : k # F.id => nodes'[k] = nodes[k]
    BY <1>1, <2>2
  <2> QED BY <1>0, <1>2, <1>3, <1>7, <1>9, <1>10, <2>1, <2>3, TopStep
<1>12. /\ Mod(t) = f.mod /\ Assign[Mod(t)][f.name].ins \in DOMAIN InsMod[Mod(t)]
       /\ Head(f.pend) \in DOMAIN Conn[Mod(t)][Assign[Mod(t)][f.name].ins]
  BY <1>1, <1>4, TokenFound
<1>13. PICK m, i, p : m = Here /\ i = Assign[m][f.name].ins /\ p = Head(f.pend) OBVIOUS
<1>14. m \in Modules /\ i \in DOMAIN InsMod[m] /\ p \in DOMAIN Conn[m][i] /\ SubOf(m, f.name) = InsMod[m][i]
  BY <1>4, <1>12, <1>13 DEF SubOf
<1>15. Conn[m][i][p] = clk[m]
  BY <1>1, <1>4, <1>13 DEF Token
<1>16. clk[m] \in {NoClock, Clock[m]} BY <1>0, <1>14 DEF StoreOK
<1>17. p = Clock[InsMod[m][i]] /\ InsMod[m][i] \in Modules
  <2>1. Conn[m][i][p] # NoClock /\ (Conn[m][i][p] = Clock[m] => p = Clock[InsMod[m][i]])
    BY <1>14, ClockAssumption
  <2>2. InsMod[m][i] \in Modules BY <1>14, InstanceFacts
  <2> QED BY <1>15, <1>16, <2>1, <2>2
<1>18. /\ clk' = [k \in Modules |-> clk'[k]]
       /\ \A k \in Modules : clk'[k] \in {NoClock, Clock[k]}
  <2>1. clk' = [clk EXCEPT ![InsMod[m][i]] = p] BY <1>1, <1>3, <1>13, <1>14
  <2>2. clk = [k \in Modules |-> clk[k]] /\ \A k \in Modules : clk[k] \in {NoClock, Clock[k]}
    BY <1>0 DEF StoreOK
  <2> QED BY <2>1, <2>2, <1>17
<1>19. StoreOK'
  <2>1. cs \in Seq(Frames) BY <1>9 DEF SameCalls
  <2> QED BY <1>0, <1>1, <1>7, <1>18, <2>1 DEF StoreOK
<1> QED BY <1>11, <1>19 DEF Trees

\* A child is added, and built if its name is new.
LEMMA AddsChild ==
  ASSUME Trees, AddChild
  PROVE  Trees'
<1>0. StoreOK /\ Owned /\ NoReentry /\ Built BY DEF Trees
<1>1. Working /\ ~(IsPort /\ NextWire = clk[Here]) /\ UNCHANGED <<text, left, names, outport, clk, flat>>
  BY DEF AddChild, file
<1>2. PICK H \in [0..Len(calls) -> Seq(Entry)] : Stacked(H)
  BY DEF Trees, StackOK
<1>3. PICK f, t : f = F /\ t = ctx OBVIOUS
<1>4. /\ FrameOK(f, t) /\ ~f.enter /\ f.pend # <<>> /\ f.id \in DOMAIN nodes /\ f \in Frames
      /\ IsPort = (Kind(f.mod, f.name) = "sub") /\ NextWire = Token(f, t)
      /\ Path(t) /\ Mod(t) = Here /\ Here \in Modules /\ H[0] # <<>>
      /\ calls \in Seq(Frames) /\ Len(calls) \in DOMAIN calls /\ calls[Len(calls)] = f
  BY <1>1, <1>2, <1>3, WorkingFrame
<1>5. PICK g : g = [f EXCEPT !.pend = Tail(@)] OBVIOUS
<1>6. PICK cs : cs = [calls EXCEPT ![Len(calls)] = g] OBVIOUS
<1>7. Advanced = cs BY <1>4, <1>5, <1>6 DEF Advanced
<1>8. PICK m, s, x : m = Here /\ s = NextWire /\ x = Assigned(m, s)
  OBVIOUS
<1>9. PICK id : id = IF x \in DOMAIN visited[m] THEN visited[m][x] ELSE Len(nodes) + 1 OBVIOUS
<1>10. PICK ns : ns = [nodes EXCEPT ![f.id].child = Append(@, id),
                                    ![f.id].wire = IF IsPort THEN Append(@, s) ELSE @]
  OBVIOUS
<1>11. IF x \in DOMAIN visited[m] THEN nodes' = ns /\ calls' = cs /\ UNCHANGED <<ctx, visited>>
       ELSE Open(x, id, t, FALSE, Append(ns, Empty), cs)
  BY <1>3, <1>7, <1>8, <1>9, <1>10 DEF AddChild
<1>12. Finds(m, s) /\ s \in STRING /\ m \in Modules /\ m = Mod(t) /\ s = Token(f, t)
  BY <1>4, <1>8, TokenFound
<1>13. x \in DOMAIN Assign[m] /\ Assigned(m, x) = x /\ Finds(m, x)
  BY <1>8, <1>12 DEF Finds, Assigned
<1>14. nodes \in Seq(Node) /\ Len(nodes) \in Nat /\ visited[m] \in [DOMAIN visited[m] -> DOMAIN nodes]
  BY <1>0, <1>12 DEF StoreOK
<1>15. id \in Nat
  <2>1. CASE x \in DOMAIN visited[m]
    <3>1. id \in DOMAIN nodes BY <1>9, <1>14, <2>1
    <3> QED BY <1>14, <3>1
  <2>2. CASE x \notin DOMAIN visited[m]
    BY <1>9, <1>14, <2>2
  <2> QED BY <2>1, <2>2
<1>16. /\ ns \in Seq(Node) /\ Len(ns) = Len(nodes) /\ DOMAIN ns = DOMAIN nodes
       /\ \A k \in DOMAIN nodes : k # f.id => ns[k] = nodes[k]
       /\ ns[f.id].dest = nodes[f.id].dest /\ ns[f.id].child = Append(nodes[f.id].child, id)
       /\ ns[f.id].wire = IF Kind(f.mod, f.name) = "sub" THEN Append(nodes[f.id].wire, s) ELSE nodes[f.id].wire
  <2>1. PICK n : n = nodes[f.id] OBVIOUS
  <2>2. n \in Node BY <1>4, <1>14, <2>1
  <2>3. n.dest \in STRING \cup {Empty.dest} /\ n.wire \in Seq(STRING) /\ n.child \in Seq(Nat)
    BY <2>2 DEF Node
  <2>4. PICK wire, child : wire = (IF IsPort THEN Append(n.wire, s) ELSE n.wire) /\ child = Append(n.child, id)
    OBVIOUS
  <2>5. wire \in Seq(STRING) /\ child \in Seq(Nat)
    <3>1. child \in Seq(Nat) BY <1>15, <2>3, <2>4
    <3>2. Append(n.wire, s) \in Seq(STRING) BY <1>12, <2>3
    <3> QED BY <2>3, <2>4, <3>1, <3>2
  <2>6. PICK k : k = [n EXCEPT !.child = child, !.wire = wire] OBVIOUS
  <2>7. k \in Node /\ k.dest = n.dest /\ k.child = child /\ k.wire = wire
    BY <2>2, <2>3, <2>5, <2>6 DEF Node
  <2>8. ns = [nodes EXCEPT ![f.id] = k]
    BY <1>4, <1>10, <1>14, <2>1, <2>4, <2>6
  <2>9. /\ ns \in Seq(Node) /\ Len(ns) = Len(nodes) /\ DOMAIN ns = DOMAIN nodes
        /\ \A j \in DOMAIN nodes : j # f.id => ns[j] = nodes[j]
        /\ ns[f.id] = k
    BY <1>4, <1>14, <2>7, <2>8
  <2>10. wire = IF Kind(f.mod, f.name) = "sub" THEN Append(n.wire, s) ELSE n.wire
    BY <1>4, <2>4
  <2> QED BY <2>1, <2>4, <2>7, <2>9, <2>10
<1>17. ASSUME Grows, f.id \in DOMAIN nodes', IsNodeOf(id, m, s)', nodes'[f.id] = ns[f.id]
       PROVE  SameCalls(cs, H) /\ cs[Len(cs)] = g /\ FrameOK(cs[Len(cs)], t)'
  <2>1. /\ g \in Frames /\ g.id = f.id /\ g.mod = f.mod /\ g.name = f.name /\ g.saved = f.saved /\ g.back = f.back
        /\ FrameOK(g, t)'
    <3>1. /\ nodes'[f.id].dest = nodes[f.id].dest
          /\ nodes'[f.id].child = Append(nodes[f.id].child, id)
          /\ Kind(f.mod, f.name) = "sub" => nodes'[f.id].wire = Append(nodes[f.id].wire, s)
          /\ Kind(f.mod, f.name) # "sub" => nodes'[f.id].wire = nodes[f.id].wire
      BY <1>16, <1>17
    <3>2. IsNodeOf(id, Mod(t), s)' BY <1>12, <1>17
    <3>3. /\ FrameOK(f, t) /\ f.pend # <<>> /\ nodes \in Seq(Node) /\ id \in Nat /\ s = Token(f, t)
          /\ ~f.enter /\ Grows /\ f.id \in DOMAIN nodes'
      BY <1>4, <1>12, <1>14, <1>15, <1>17
    <3>4. g = [f EXCEPT !.pend = Tail(f.pend)] BY <1>5
    <3>5. FrameOK(g, t)' BY <3>1, <3>2, <3>3, <3>4, FrameChild
    <3>6. f.pend \in Seq(STRING) /\ Tail(f.pend) \in Seq(STRING) BY <1>4 DEF Frames
    <3> QED BY <1>4, <3>4, <3>5, <3>6 DEF Frames
  <2>2. calls # <<>> BY <1>1 DEF Working
  <2>3. SameCalls(cs, H) /\ cs[Len(cs)] = g
    BY <1>3, <1>4, <1>6, <2>1, <2>2, Advances
  <2> QED BY <2>1, <2>3
<1>18. calls # <<>> BY <1>1 DEF Working
<1>19. CASE x \in DOMAIN visited[m]
  <2>1. nodes' = ns /\ calls' = cs /\ UNCHANGED <<ctx, visited>> BY <1>11, <1>19
  <2>2. Grows BY <2>1 DEF Grows
  <2>3. IsNodeOf(id, m, s)' BY <1>8, <1>9, <1>19, <2>1 DEF IsNodeOf
  <2>4. f.id \in DOMAIN nodes' /\ nodes'[f.id] = ns[f.id] BY <1>4, <1>16, <2>1
  <2>5. SameCalls(cs, H) /\ FrameOK(cs[Len(cs)], t)' BY <1>17, <2>2, <2>3, <2>4
  <2>6. /\ ctx' = ctx /\ visited' = visited /\ names' = names /\ nodes' \in Seq(Node)
        /\ DOMAIN nodes \subseteq DOMAIN nodes' /\ \A k \in DOMAIN nodes : k # F.id => nodes'[k] = nodes[k]
    BY <1>1, <1>3, <1>16, <2>1
  <2>7. StackOK' /\ Owned' /\ NoReentry' /\ Built'
    BY <1>0, <1>2, <1>3, <1>18, <2>1, <2>5, <2>6, TopStep
  <2>8. cs \in Seq(Frames) BY <2>5 DEF SameCalls
  <2>9. DOMAIN nodes' = DOMAIN nodes BY <1>16, <2>1
  <2>10. StoreOK' BY <1>0, <1>1, <2>1, <2>6, <2>8, <2>9 DEF StoreOK
  <2> QED BY <2>7, <2>10 DEF Trees
<1>20. CASE x \notin DOMAIN visited[m]
  <2>1. PICK more, back : more = Append(ns, Empty) /\ back = FALSE OBVIOUS
  <2>2. Open(x, id, t, back, more, cs) /\ back \in BOOLEAN BY <1>11, <1>20, <2>1
  <2>3. id = Len(nodes) + 1 /\ id = Len(ns) + 1 BY <1>9, <1>16, <1>20
  <2>4. /\ more \in Seq(Node) /\ Len(more) = id /\ more[id] = Empty /\ id \in DOMAIN more /\ id \notin DOMAIN ns
        /\ DOMAIN ns \subseteq DOMAIN more /\ \A k \in DOMAIN ns : more[k] = ns[k]
    <3>1. ns \in Seq(Node) BY <1>16
    <3> QED BY <2>1, <2>3, <3>1, OneMore
  <2>5. Finds(Mod(t), x) /\ x = Assigned(Mod(t), x) /\ Path(t) BY <1>4, <1>12, <1>13
  <2>6. /\ Grows /\ DOMAIN nodes' = DOMAIN more
        /\ \A k \in DOMAIN more \ {id} : nodes'[k] = more[k]
        /\ x \notin DOMAIN visited[Mod(t)] => IsNodeOf(id, Mod(t), x)'
    BY <1>0, <2>2, <2>4, <2>5, OpenGrows
  <2>7. IsNodeOf(id, m, s)' BY <1>8, <1>12, <1>13, <1>20, <2>6 DEF IsNodeOf
  <2>8. f.id \in DOMAIN nodes' /\ nodes'[f.id] = ns[f.id]
    BY <1>4, <1>16, <2>4, <2>6
  <2>9. SameCalls(cs, H) /\ FrameOK(cs[Len(cs)], t)' BY <1>17, <2>6, <2>7, <2>8
  <2>10. /\ StackOK' /\ Owned' /\ NoReentry' /\ Built'
         /\ calls' \in Seq(Frames) /\ nodes' \in Seq(Node) /\ DOMAIN nodes' = 1..id /\ ctx' \in Seq(Entry)
         /\ visited' = [k \in Modules |-> visited'[k]]
         /\ \A k \in Modules : /\ visited'[k] \in [DOMAIN visited'[k] -> DOMAIN nodes']
                               /\ DOMAIN visited'[k] \subseteq DOMAIN Assign[k]
    <3>1. (IF back THEN Front(t) ELSE t) = ctx /\ t = ctx BY <1>3, <2>1
    <3>2. /\ calls # <<>> => x \notin DOMAIN visited[Mod(t)]
          /\ calls # <<>> => FrameOK(cs[Len(cs)], t)'
          /\ \A k \in DOMAIN nodes : (calls = <<>> \/ k # F.id) => more[k] = nodes[k]
      BY <1>3, <1>8, <1>12, <1>16, <1>18, <1>20, <2>4, <2>9
    <3>3. \A k \in DOMAIN names' : Finds(Mod(H[0]), names'[k])
      BY <1>1, <1>2 DEF Stacked
    <3>4. more \in Seq(Node) /\ Len(more) = id /\ more[id] = Empty /\ id = Len(nodes) + 1 /\ H[0] # <<>>
      BY <1>4, <2>3, <2>4
    <3> QED BY <1>0, <1>2, <2>2, <2>5, <2>9, <3>1, <3>2, <3>3, <3>4, PushStep
  <2>11. DOMAIN nodes \subseteq DOMAIN nodes' BY <1>16, <2>4, <2>6
  <2>12. StoreOK' BY <1>0, <1>1, <2>10, <2>11 DEF StoreOK
  <2> QED BY <2>10, <2>12 DEF Trees
<1> QED BY <1>19, <1>20

\* A call returns.
LEMMA Returns ==
  ASSUME Trees, Return
  PROVE  Trees'
<1>0. StoreOK /\ Owned /\ NoReentry /\ Built BY DEF Trees
<1>1. /\ calls # <<>> /\ F.pend = <<>> /\ calls' = Front(calls) /\ ctx' = Restored(F, ctx)
      /\ UNCHANGED <<text, left, names, nodes, visited, outport, clk, flat>>
  BY DEF Return, file
<1>2. PICK H \in [0..Len(calls) -> Seq(Entry)] : Stacked(H)
  BY DEF Trees, StackOK
<1>3. /\ Len(calls) \in DOMAIN calls /\ F = calls[Len(calls)] /\ FrameOK(F, ctx) /\ H[0] # <<>>
  BY <1>0, <1>1, <1>2, TopFrame
<1>4. PICK L : L = Len(calls) OBVIOUS
<1>5. PICK f, t : f = F /\ t = ctx OBVIOUS
<1>6. /\ L \in Nat /\ L > 0 /\ calls \in Seq(Frames) /\ DOMAIN calls = 1..L
      /\ calls' \in Seq(Frames) /\ Len(calls') = L - 1 /\ DOMAIN calls' = 1..L - 1
      /\ \A k \in 1..L - 1 : calls'[k] = calls[k]
  <2>1. calls \in Seq(Frames) BY <1>0 DEF StoreOK
  <2> QED BY <1>1, <1>4, <2>1 DEF Front
<1>7. PICK H2 : H2 = [k \in 0..L - 1 |-> H[k]] OBVIOUS
<1>8. H2 \in [0..L - 1 -> Seq(Entry)] /\ \A k \in 0..L - 1 : H2[k] = H[k]
  BY <1>4, <1>6, <1>7
<1>9. Grows BY <1>1 DEF Grows
<1>10. ctx' = H[L - 1] /\ ctx' \in Seq(Entry)
  <2>1. H[L - 1] = Restored(calls[L], H[L]) /\ H[L] = ctx
    BY <1>2, <1>4, <1>6 DEF Stacked
  <2> QED BY <1>1, <1>2, <1>3, <1>4, <1>6, <2>1
<1>11. ASSUME NEW k \in 1..L - 1 PROVE FrameOK(calls[k], H2[k])' /\ H2[k - 1] = Restored(calls'[k], H2[k])
  <2>1. k \in DOMAIN calls /\ k \in 0..L - 1 /\ k - 1 \in 0..L - 1 BY <1>6
  <2>2. H2[k] = H[k] /\ H2[k - 1] = H[k - 1] BY <1>8, <2>1
  <2>3. PICK e, c : e = calls[k] /\ c = H[k] OBVIOUS
  <2>4. FrameOK(e, c) /\ H[k - 1] = Restored(e, c) BY <1>2, <2>1, <2>3 DEF Stacked
  <2>5. e.id \in DOMAIN nodes' /\ nodes'[e.id] = nodes[e.id] BY <1>1, <2>4 DEF FrameOK
  <2>6. FrameOK(e, c)' BY <1>9, <2>4, <2>5, FrameKept
  <2>7. calls'[k] = e BY <1>6, <2>3
  <2> QED BY <2>2, <2>3, <2>4, <2>6, <2>7
<1>12. Stacked(H2)'
  <2>1. 0 \in 0..L - 1 /\ L - 1 \in 0..L - 1 BY <1>6
  <2>2. H2[0] = H[0] /\ H2[L - 1] = ctx' BY <1>8, <1>10, <2>1
  <2>3. (H[0] # <<>> => Path(H[0])) /\ \A k \in DOMAIN names : Finds(Mod(H[0]), names[k])
    BY <1>2 DEF Stacked
  <2> QED BY <1>1, <1>3, <1>6, <1>11, <2>2, <2>3 DEF Stacked
<1>13. StackOK' BY <1>6, <1>8, <1>12 DEF StackOK
<1>14. Owned' /\ NoReentry'
  <2>1. \A k \in DOMAIN calls' : k \in DOMAIN calls /\ calls'[k] = calls[k] BY <1>6
  <2> QED BY <1>0, <1>1, <2>1 DEF Owned, NoReentry
<1>15. Built'
  <2> SUFFICES ASSUME NEW m \in Modules, NEW x \in DOMAIN visited[m], NEW id, id = visited[m][x], Finished(id)'
               PROVE  Faithful(nodes[id], m, x)' /\ Complete(nodes[id], m, x)'
    BY <1>1 DEF Built
  <2>1. PICK n : n = nodes[id] OBVIOUS
  <2>2. Faithful(n, m, x) /\ Complete(n, m, x)
    <3>1. CASE id = f.id
      <4>1. m = f.mod /\ x = f.name
        <5>1. f = calls[L] /\ L \in DOMAIN calls /\ visited[m][x] = calls[L].id
          BY <1>3, <1>4, <1>5, <3>1
        <5> QED BY <1>0, <5>1 DEF Owned
      <4>2. FrameOK(f, t) /\ nodes \in Seq(Node) /\ f.pend = <<>> BY <1>0, <1>1, <1>3, <1>5 DEF StoreOK
      <4>3. Faithful(nodes[f.id], f.mod, f.name) /\ Complete(nodes[f.id], f.mod, f.name)
        BY <4>2, FrameFaithful
      <4> QED BY <2>1, <3>1, <4>1, <4>3
    <3>2. CASE id # f.id
      <4>1. \A k \in DOMAIN calls : k = L \/ k \in 1..L - 1 BY <1>6
      <4>2. \A k \in 1..L - 1 : calls[k].id # id BY <1>6 DEF Finished
      <4>3. Finished(id) BY <1>3, <1>4, <1>5, <3>2, <4>1, <4>2 DEF Finished
      <4> QED BY <1>0, <2>1, <4>3 DEF Built
    <3> QED BY <3>1, <3>2
  <2>3. Faithful(n, m, x)' BY <1>9, <2>2, FaithfulKept
  <2> QED BY <1>1, <2>1, <2>2, <2>3
<1>16. StoreOK' BY <1>0, <1>1, <1>6, <1>10 DEF StoreOK
<1> QED BY <1>13, <1>14, <1>15, <1>16 DEF Trees

-----------------------------------------------------------------------------
(* The line that is read.                                                  *)
LEMMA LineFacts ==
  ASSUME FileOK, at <= Len(text)
  PROVE  /\ at \in DOMAIN text /\ at + 1 \in Nat \ {0}
         /\ Line.k = "target" => Line.tgt \in TargetsIn(text)
         /\ Line.k = "]" => (IF Line.delay = <<>> THEN 0 ELSE Line.delay[1]) \in Nat
<1>1. text \in Files /\ at \in Nat \ {0} BY DEF FileOK
<1>2. text \in Seq(Range(text)) BY <1>1, FilesAssumption
<1>3. at \in DOMAIN text BY <1>1, <1>2
<1>4. Line.k = "target" => Line.tgt \in TargetsIn(text)
  BY <1>3 DEF Line, TargetsIn
<1>5. ASSUME Line.k = "]" PROVE (IF Line.delay = <<>> THEN 0 ELSE Line.delay[1]) \in Nat
  <2>1. text[at].delay \in Seq(Nat) BY <1>1, <1>3, <1>5, FilesAssumption DEF Line
  <2>2. text[at].delay # <<>> => text[at].delay[1] \in Nat BY <2>1
  <2> QED BY <2>2 DEF Line
<1> QED BY <1>1, <1>3, <1>4, <1>5

(* The file is read: the trees stay.                                       *)
LEMMA FileSteps ==
  ASSUME FileOK, Trees,
         OpenFile \/ SkipNote \/ ReadTarget \/ OpenVec \/ AddMember \/ CloseVec \/ Stuck \/ EndOfFile \/ Stop
  PROVE  FileOK' /\ Trees'
<1>1. left \subseteq Outputs \cup TargetsIn(text) /\ flat \subseteq Modules \ {Top}
  BY DEF Trees, StoreOK
<1>2. ASSUME Reading PROVE Trees' /\ FileOK' = FileOK' /\ at <= Len(text) /\ at' = at + 1 /\ text' = text
  <2>1. UNCHANGED <<text, left, names, ctx, calls, nodes, visited, outport, clk, flat>>
    BY <1>2 DEF Reading
  <2>2. Trees' BY <1>1, <2>1, TreesKept
  <2> QED BY <1>2, <2>2 DEF Reading
<1>3. CASE OpenFile
  <2>1. UNCHANGED <<text, at, inside, tgtVec, allowed, allowedVec, left, names, ctx, calls, nodes, visited, outport, clk, flat>>
    BY <1>3 DEF OpenFile
  <2>2. Trees' BY <1>1, <2>1, TreesKept
  <2> QED BY <2>1, <2>2 DEF FileOK
<1>4. CASE SkipNote
  <2>1. Reading /\ UNCHANGED <<tgtVec, allowed, allowedVec>> BY <1>4 DEF SkipNote
  <2> QED BY <1>2, <2>1, LineFacts DEF FileOK
<1>5. CASE ReadTarget
  <2>1. Reading /\ Line.k = "target" /\ allowed' = AddDelay(allowed, Line) /\ UNCHANGED <<tgtVec, allowedVec>>
    BY <1>5 DEF ReadTarget
  <2>2. Line.tgt \in TargetsIn(text) /\ at + 1 \in Nat \ {0} BY <1>2, <2>1, LineFacts
  <2>3. DOMAIN allowed' = DOMAIN allowed \cup {Line.tgt} /\ allowed' = [t \in DOMAIN allowed' |-> allowed'[t]]
    BY <2>1 DEF AddDelay, Put
  <2> QED BY <1>2, <2>1, <2>2, <2>3 DEF FileOK
<1>6. CASE OpenVec
  <2>1. Reading /\ tgtVec' = <<>> /\ UNCHANGED <<allowed, allowedVec>> BY <1>6 DEF OpenVec
  <2> QED BY <1>2, <2>1, LineFacts DEF FileOK
<1>7. CASE AddMember
  <2>1. Reading /\ Line.k = "target" /\ tgtVec' = Append(tgtVec, Line.tgt) /\ UNCHANGED <<allowed, allowedVec>>
    BY <1>7 DEF AddMember
  <2>2. Line.tgt \in TargetsIn(text) /\ at + 1 \in Nat \ {0} BY <1>2, <2>1, LineFacts
  <2> QED BY <1>2, <2>1, <2>2 DEF FileOK
<1>8. CASE CloseVec
  <2>1. PICK n : n = IF Line.delay = <<>> THEN 0 ELSE Line.delay[1] OBVIOUS
  <2>2. Reading /\ Line.k = "]" /\ allowedVec' = Append(allowedVec, <<tgtVec, n>>) /\ UNCHANGED <<tgtVec, allowed>>
    BY <1>8, <2>1 DEF CloseVec
  <2>3. n \in Nat /\ at + 1 \in Nat \ {0} BY <1>2, <2>1, <2>2, LineFacts
  <2>4. allowedVec' \in Seq(Seq(TargetsIn(text)) \X Nat)
    <3>1. <<tgtVec, n>> \in Seq(TargetsIn(text)) \X Nat BY <2>3 DEF FileOK
    <3>2. allowedVec \in Seq(Seq(TargetsIn(text)) \X Nat) BY DEF FileOK
    <3> QED BY <2>2, <3>1, <3>2
  <2> QED BY <1>2, <2>2, <2>3, <2>4 DEF FileOK
<1>9. CASE Stuck \/ Stop
  <2>1. UNCHANGED <<text, at, inside, tgtVec, allowed, allowedVec, left, names, ctx, calls, nodes, visited, outport, clk, flat>>
    BY <1>9 DEF Stuck, Stop, vars, file
  <2>2. Trees' BY <1>1, <2>1, TreesKept
  <2> QED BY <2>1, <2>2 DEF FileOK
<1>10. CASE EndOfFile
  <2>1. /\ left' = DOMAIN allowed \cup UNION {Range(v[1]) : v \in Range(allowedVec)}
        /\ UNCHANGED <<text, at, inside, tgtVec, allowed, allowedVec>>
        /\ UNCHANGED <<names, ctx, calls, nodes, visited, outport, clk, flat>>
    BY <1>10 DEF EndOfFile
  <2>2. ASSUME NEW v \in Range(allowedVec) PROVE Range(v[1]) \subseteq TargetsIn(text)
    <3>1. v \in Seq(TargetsIn(text)) \X Nat BY DEF FileOK, Range
    <3>2. v[1] \in Seq(TargetsIn(text)) BY <3>1
    <3> QED BY <3>2 DEF Range
  <2>3. left' \subseteq Outputs \cup TargetsIn(text')
    <3>1. DOMAIN allowed \subseteq TargetsIn(text) BY DEF FileOK
    <3> QED BY <2>1, <2>2, <3>1
  <2>4. Trees' BY <1>1, <2>1, <2>3, TreesKept
  <2> QED BY <2>1, <2>4 DEF FileOK
<1> QED BY <1>3, <1>4, <1>5, <1>6, <1>7, <1>8, <1>9, <1>10

LEMMA AstInit == Init => IInv
<1> SUFFICES ASSUME Init PROVE IInv OBVIOUS
<1>1. /\ text \in Files /\ at = 1 /\ tgtVec = <<>> /\ allowed = <<>> /\ allowedVec = <<>>
      /\ left = Outputs /\ names = <<>> /\ ctx = <<>> /\ calls = <<>>
      /\ nodes = <<>> /\ visited = [m \in Modules |-> <<>>] /\ outport = <<>>
      /\ clk = FirstClk /\ flat = {}
  BY DEF Init
<1>2. FileOK BY <1>1 DEF FileOK
<1>3. StoreOK
  <2>1. clk = [m \in Modules |-> clk[m]] BY <1>1, Zenon DEF FirstClk
  <2>2. \A m \in Modules : clk[m] \in {NoClock, Clock[m]} BY <1>1, ClockAssumption
  <2> QED BY <1>1, <2>1, <2>2 DEF StoreOK
<1>4. StackOK
  <2>1. PICK H : H = [k \in 0..0 |-> <<>>] OBVIOUS
  <2>2. H \in [0..Len(calls) -> Seq(Entry)] /\ H[0] = <<>> BY <1>1, <2>1
  <2>3. Stacked(H) BY <1>1, <2>2 DEF Stacked
  <2> QED BY <2>2, <2>3 DEF StackOK
<1>5. Owned /\ NoReentry /\ Built BY <1>1 DEF Owned, NoReentry, Built
<1> QED BY <1>2, <1>3, <1>4, <1>5 DEF IInv

LEMMA AstStep == IInv /\ [Next]_vars => IInv'
<1> SUFFICES ASSUME IInv, [Next]_vars PROVE IInv' OBVIOUS
<1>1. FileOK /\ Trees BY DEF IInv, Trees
<1>2. text \in Files BY DEF IInv, FileOK
<1>3. ASSUME UNCHANGED file PROVE FileOK'
  BY <1>1, <1>3 DEF FileOK, file
<1>4. CASE OpenFile \/ SkipNote \/ ReadTarget \/ OpenVec \/ AddMember \/ CloseVec \/ Stuck \/ EndOfFile \/ Stop
  BY <1>1, <1>4, FileSteps DEF IInv, Trees
<1>5. CASE TakeRoot
  BY <1>1, <1>2, <1>3, <1>5, TakesRoot DEF TakeRoot, IInv, Trees
<1>6. CASE StartRoot
  BY <1>1, <1>3, <1>6, StartsRoot DEF StartRoot, IInv, Trees
<1>7. CASE EnterPort
  BY <1>1, <1>3, <1>7, EntersPort DEF EnterPort, IInv, Trees
<1>8. CASE SkipClock
  BY <1>1, <1>3, <1>8, SkipsClock DEF SkipClock, IInv, Trees
<1>9. CASE AddChild
  BY <1>1, <1>3, <1>9, AddsChild DEF AddChild, IInv, Trees
<1>10. CASE Return
  BY <1>1, <1>3, <1>10, Returns DEF Return, IInv, Trees
<1>11. CASE UNCHANGED vars
  <2>1. UNCHANGED <<text, left, names, ctx, calls, nodes, visited, outport, clk, flat>> /\ UNCHANGED file
    BY <1>11 DEF vars, file
  <2>2. left \subseteq Outputs \cup TargetsIn(text) /\ flat \subseteq Modules \ {Top}
    BY <1>1 DEF Trees, StoreOK
  <2>3. Trees' BY <1>1, <2>1, <2>2, TreesKept
  <2> QED BY <1>3, <2>1, <2>3 DEF IInv, Trees
<1> QED BY <1>4, <1>5, <1>6, <1>7, <1>8, <1>9, <1>10, <1>11 DEF Next

LEMMA AstInvariant == Spec => []IInv
<1> QED BY AstInit, AstStep, PTL DEF Spec

-----------------------------------------------------------------------------
(* The stack of instances is a path at every moment, although the walk     *)
(* leaves an instance through an input and takes it up again; the call     *)
(* under way belongs to where it ends.  (get_parentMod, g_insContextStk)   *)
THEOREM AstTypeOK == Spec => []TypeOK
<1>1. ASSUME IInv PROVE TypeOK
  <2>1. Trees /\ StoreOK BY <1>1 DEF IInv, Trees
  <2>2. PICK H \in [0..Len(calls) -> Seq(Entry)] : Stacked(H) BY <1>1 DEF IInv, StackOK
  <2>3. (ctx # <<>> => Path(ctx)) /\ (calls # <<>> => F.mod = Mod(ctx \o F.saved))
    <3>1. CASE calls = <<>>
      BY <2>2, <3>1 DEF Stacked
    <3>2. CASE calls # <<>>
      <4>1. FrameOK(F, ctx) /\ Path(ctx) BY <2>1, <2>2, <3>2, TopFrame
      <4> QED BY <4>1 DEF FrameOK
    <3> QED BY <3>1, <3>2
  <2> QED BY <2>1, <2>3 DEF StoreOK, TypeOK
<1> QED BY <1>1, AstInvariant, PTL

(* No name of a module is built while it is being built: add_node marks a  *)
(* name before it follows what is assigned to it, so the recursion over    *)
(* registers and over outputs that come back through inputs ends.          *)
THEOREM AstNoReentry == Spec => []NoReentry
<1>1. IInv => NoReentry BY DEF IInv
<1> QED BY <1>1, AstInvariant, PTL

(* Every node that a name stands for has the children its constraint       *)
(* handler reads by position, in whichever order and through whichever     *)
(* instances the walk came to it; while its call is under way it has the   *)
(* first of them.                                                          *)
THEOREM AstNodesFaithful == Spec => []NodesFaithful
<1>1. ASSUME IInv PROVE NodesFaithful
  <2> SUFFICES ASSUME NEW m \in Modules, NEW x \in DOMAIN visited[m], NEW id, id = visited[m][x]
               PROVE  Faithful(nodes[id], m, x) /\ (Finished(id) => Complete(nodes[id], m, x))
    BY DEF NodesFaithful
  <2>1. StoreOK /\ Owned /\ Built BY <1>1 DEF IInv
  <2>2. CASE Finished(id)
    BY <2>1, <2>2 DEF Built
  <2>3. CASE ~Finished(id)
    <3>1. PICK k \in DOMAIN calls : calls[k].id = id BY <2>3 DEF Finished
    <3>2. m = calls[k].mod /\ x = calls[k].name BY <2>1, <3>1 DEF Owned
    <3>3. PICK H \in [0..Len(calls) -> Seq(Entry)] : Stacked(H) BY <1>1 DEF IInv, StackOK
    <3>4. PICK f, c : f = calls[k] /\ c = H[k] OBVIOUS
    <3>5. FrameOK(f, c) BY <3>1, <3>3, <3>4 DEF Stacked
    <3>6. Faithful(nodes[f.id], f.mod, f.name) BY <2>1, <3>5, FrameFaithful DEF StoreOK
    <3> QED BY <2>3, <3>1, <3>2, <3>4, <3>6
  <2> QED BY <2>2, <2>3
<1> QED BY <1>1, AstInvariant, PTL
-----------------------------------------------------------------------------
(* Induction over a set of numbers, and by it that what is defined from    *)
(* one number to the next exists.                                          *)
LEMMA NatSetInduction ==
  ASSUME NEW S, 0 \in S, \A n \in Nat : n \in S => n + 1 \in S
  PROVE  Nat \subseteq S
<1>1. SUFFICES ASSUME NEW x \in Nat, x \notin S PROVE FALSE
  OBVIOUS
<1> DEFINE T == (0..x) \ S
           f == [y \in T |-> y - 1]
<1>2. \A y \in T : y \in Nat /\ y # 0 /\ y - 1 \in Nat /\ y - 1 \in T \ {x}
  <2> SUFFICES ASSUME NEW y \in T PROVE y \in Nat /\ y # 0 /\ y - 1 \in Nat /\ y - 1 \in T \ {x}
    OBVIOUS
  <2>1. y \in Nat /\ y # 0 /\ y <= x /\ y \notin S
    OBVIOUS
  <2>2. y - 1 \in Nat /\ y - 1 < x /\ (y - 1) + 1 = y
    BY <2>1
  <2>3. y - 1 \notin S
    BY <2>1, <2>2
  <2> QED BY <2>1, <2>2, <2>3
<1>3. f \in [T -> T \ {x}]
  BY <1>2
<1>4. IsFiniteSet(T) /\ IsFiniteSet(T \ {x}) /\ Cardinality(T \ {x}) < Cardinality(T)
  <2>1. IsFiniteSet(0..x) /\ T \in SUBSET (0..x) /\ x \in T
    BY <1>1, FS_Interval
  <2>2. IsFiniteSet(T) /\ Cardinality(T) \in Nat
        /\ IsFiniteSet(T \ {x}) /\ Cardinality(T \ {x}) = Cardinality(T) - 1
    <3> HIDE DEF T
    <3> QED BY <2>1, FS_Subset, FS_RemoveElement, FS_CardinalityType
  <2> QED BY <2>2
<1>5. \E y, z \in T : y # z /\ f[y] = f[z]
  <2> HIDE DEF T, f
  <2> QED BY <1>3, <1>4, FS_PigeonHole
<1> QED BY <1>2, <1>5

IsRun(f, S, N, e, Step) ==
  f \in [0..N -> S] /\ f[0] = e /\ \A k \in 1..N : f[k] = Step[<<f[k - 1], k>>]

LEMMA RecursionExists ==
  ASSUME NEW S, NEW N \in Nat, NEW e \in S, NEW Step \in [S \X (1..N) -> S]
  PROVE  \E f : IsRun(f, S, N, e, Step)
<1> DEFINE Is(f, n) == f[0] = e /\ \A k \in 1..n : f[k] = Step[<<f[k - 1], k>>]
           A == {n \in Nat : n <= N => \E f \in [0..n -> S] : Is(f, n)}
<1>1. 0 \in A
  <2>1. Is([k \in 0..0 |-> e], 0) /\ [k \in 0..0 |-> e] \in [0..0 -> S]
    OBVIOUS
  <2> QED BY <2>1
<1>2. \A n \in Nat : n \in A => n + 1 \in A
  <2> SUFFICES ASSUME NEW n \in Nat, n \in A, n + 1 <= N
               PROVE  \E f \in [0..n + 1 -> S] : Is(f, n + 1)
    OBVIOUS
  <2>1. PICK f \in [0..n -> S] : Is(f, n)
    OBVIOUS
  <2> DEFINE g == [k \in 0..n + 1 |-> IF k = n + 1 THEN Step[<<f[n], n + 1>>] ELSE f[k]]
  <2>2. f[n] \in S /\ n + 1 \in 1..N
    BY <2>1
  <2>3. g \in [0..n + 1 -> S]
    BY <2>2
  <2>4. \A k \in 1..n : k - 1 \in 0..n /\ g[k] = f[k] /\ g[k - 1] = f[k - 1]
    <3> SUFFICES ASSUME NEW k \in 1..n PROVE k - 1 \in 0..n /\ g[k] = f[k] /\ g[k - 1] = f[k - 1]
      OBVIOUS
    <3>1. k \in 0..n + 1 /\ k # n + 1 /\ k - 1 \in 0..n + 1 /\ k - 1 # n + 1 /\ k - 1 \in 0..n
      OBVIOUS
    <3> HIDE DEF Is
    <3> QED BY <3>1
  <2>5. g[0] = e /\ g[n + 1] = Step[<<g[n], n + 1>>]
    <3>1. {0, n, n + 1} \subseteq 0..n + 1 /\ n # n + 1 /\ 0 # n + 1
      OBVIOUS
    <3>2. g[0] = f[0] /\ g[n] = f[n] /\ g[n + 1] = Step[<<f[n], n + 1>>]
      <4> HIDE DEF Is
      <4> QED BY <3>1
    <3> QED BY <2>1, <3>2
  <2>6. Is(g, n + 1)
    <3> SUFFICES ASSUME NEW k \in 1..n + 1 PROVE g[k] = Step[<<g[k - 1], k>>]
      BY <2>5
    <3>1. CASE k = n + 1
      BY <2>5, <3>1
    <3>2. CASE k \in 1..n
      BY <2>1, <2>4, <3>2
    <3> QED BY <3>1, <3>2
  <2> HIDE DEF g, Is
  <2> QED BY <2>3, <2>6
<1>3. N \in A
  <2> HIDE DEF A
  <2> QED BY <1>1, <1>2, NatSetInduction
<1>4. \E f \in [0..N -> S] : Is(f, N)
  BY <1>3
<1> QED BY <1>4 DEF IsRun

(* What a line says of the delays of a target, and the delays up to a line.*)
Given(tgt, k) ==
  IF text[k].k = "target" /\ text[k].tgt = tgt /\ ~Within(text, k) THEN text[k].delay ELSE <<>>

LEMMA DelaysUptoIs ==
  ASSUME text \in Files, NEW tgt
  PROVE  /\ DelaysUpto(tgt) \in [0..Len(text) -> Seq(Nat)] /\ DelaysUpto(tgt)[0] = <<>>
         /\ \A k \in 1..Len(text) : DelaysUpto(tgt)[k] = DelaysUpto(tgt)[k - 1] \o Given(tgt, k)
<1> DEFINE N == Len(text)
           Step == [p \in Seq(Nat) \X (1..N) |-> p[1] \o Given(tgt, p[2])]
<1>1. N \in Nat /\ DOMAIN text = 1..N
  BY FilesAssumption
<1>2. \A k \in 1..N : Given(tgt, k) \in Seq(Nat)
  BY <1>1, FilesAssumption DEF Given
<1>3. \A s \in Seq(Nat) : \A k \in 1..N : s \o Given(tgt, k) \in Seq(Nat)
  BY <1>2
<1>4. Step \in [Seq(Nat) \X (1..N) -> Seq(Nat)]
  BY <1>3
<1>5. <<>> \in Seq(Nat)
  OBVIOUS
<1>6. PICK f \in [0..N -> Seq(Nat)] : f[0] = <<>> /\ \A k \in 1..N : f[k] = Step[<<f[k - 1], k>>]
  <2>1. PICK S, e : S = Seq(Nat) /\ e = <<>>
    OBVIOUS
  <2>2. e \in S /\ Step \in [S \X (1..N) -> S]
    BY <1>4, <1>5, <2>1
  <2> HIDE DEF Step, N
  <2>3. \E f : IsRun(f, S, N, e, Step)
    BY <1>1, <2>2, RecursionExists
  <2> QED BY <2>1, <2>3 DEF IsRun
<1>7. \A k \in 1..N : k - 1 \in 0..N /\ f[k] = f[k - 1] \o Given(tgt, k)
  <2> SUFFICES ASSUME NEW k \in 1..N PROVE k - 1 \in 0..N /\ f[k] = f[k - 1] \o Given(tgt, k)
    OBVIOUS
  <2>1. k - 1 \in 0..N
    BY <1>1
  <2>2. <<f[k - 1], k>> \in Seq(Nat) \X (1..N)
    BY <2>1
  <2>3. Step[<<f[k - 1], k>>] = f[k - 1] \o Given(tgt, k)
    BY <2>2
  <2> HIDE DEF Step
  <2> QED BY <1>6, <2>1, <2>3
<1> DEFINE Rule(u) == u = [k \in 0..Len(text) |-> IF k = 0 THEN <<>> ELSE u[k - 1] \o Given(tgt, k)]
<1>8. Rule(f)
  <2>1. f = [k \in 0..N |-> f[k]]
    BY <1>6
  <2>2. \A k \in 0..N : f[k] = IF k = 0 THEN <<>> ELSE f[k - 1] \o Given(tgt, k)
    BY <1>1, <1>6, <1>7
  <2> QED BY <2>1, <2>2
<1>9. DelaysUpto(tgt) = CHOOSE u : Rule(u)
  BY DEF DelaysUpto, Given
<1>10. Rule(DelaysUpto(tgt))
  <2> HIDE DEF Rule
  <2> QED BY <1>8, <1>9
<1>11. \E u : u = DelaysUpto(tgt)
  OBVIOUS
<1>12. PICK u : u = DelaysUpto(tgt)
  BY <1>11
<1>13. u = [k \in 0..N |-> IF k = 0 THEN <<>> ELSE u[k - 1] \o Given(tgt, k)]
  BY <1>10, <1>12
<1>14. DOMAIN u = 0..N /\ u = [k \in 0..N |-> u[k]] /\ u[0] = <<>>
       /\ \A k \in 1..N : u[k] = u[k - 1] \o Given(tgt, k)
  <2>1. PICK r : r = [k \in 0..N |-> IF k = 0 THEN <<>> ELSE u[k - 1] \o Given(tgt, k)]
    OBVIOUS
  <2>2. DOMAIN r = 0..N /\ r = [k \in 0..N |-> r[k]] /\ r[0] = <<>>
        /\ \A k \in 1..N : r[k] = u[k - 1] \o Given(tgt, k)
    <3> HIDE DEF N
    <3> QED BY <1>1, <2>1
  <2>3. u = r
    BY <1>13, <2>1
  <2> HIDE DEF N
  <2> QED BY <2>2, <2>3
<1>15. \A k \in 0..N : u[k] \in Seq(Nat)
  <2> DEFINE A == {k \in Nat : k <= N => u[k] \in Seq(Nat)}
  <2>1. 0 \in A
    BY <1>5, <1>14
  <2>2. \A n \in Nat : n \in A => n + 1 \in A
    <3> SUFFICES ASSUME NEW n \in Nat, n \in A, n + 1 <= N PROVE u[n + 1] \in Seq(Nat)
      OBVIOUS
    <3>1. u[n] \in Seq(Nat) /\ n + 1 \in 1..N /\ (n + 1) - 1 = n
      BY <1>1
    <3> QED BY <1>3, <1>14, <3>1
  <2>3. Nat \subseteq A
    <3> HIDE DEF A
    <3> QED BY <2>1, <2>2, NatSetInduction
  <2> QED BY <1>1, <2>3
<1> QED BY <1>12, <1>14, <1>15
-----------------------------------------------------------------------------
(* allowed_target.txt as far as it has been read: the delays of the lines  *)
(* above at, the vectors between the brackets closed above it, and the     *)
(* members after the bracket that is open, at o.                           *)
OpenAt(o) ==
  /\ text[o].k = "[" /\ \A i \in o + 1..at - 1 : text[i].k = "target"
  /\ tgtVec = [k \in 1..at - 1 - o |-> text[o + k].tgt]

VecsSoFar ==
  \E from \in [DOMAIN allowedVec -> Ends("[")], to \in [DOMAIN allowedVec -> Ends("]")], o \in 0..at - 1 :
    /\ {i \in Ends("[") : i < at} = Range(from) \cup (IF inside THEN {o} ELSE {})
    /\ {i \in Ends("]") : i < at} = Range(to)
    /\ Bracketed(from, to)
    /\ inside => o > 0 /\ OpenAt(o)

DelaysSoFar ==
  /\ DOMAIN allowed = {text[k].tgt : k \in {i \in 1..at - 1 : text[i].k = "target" /\ ~Within(text, i)}}
  /\ \A tgt \in TargetsIn(text) :
       (IF tgt \in DOMAIN allowed THEN allowed[tgt] ELSE <<>>) = DelaysUpto(tgt)[at - 1]

ReadSoFar ==
  /\ at <= Len(text) + 1 /\ inside = Within(text, at) /\ DelaysSoFar /\ VecsSoFar
  /\ pass = "allowed" => ~inside /\ at = Len(text) + 1

LEMMA WithinNext ==
  ASSUME text \in Files, NEW i \in DOMAIN text
  PROVE  Within(text, i + 1) <=> (text[i].k = "[" \/ (Within(text, i) /\ text[i].k # "]"))
<1>1. i \in Nat \ {0}
  BY FilesAssumption
<1>2. ASSUME text[i].k = "[" PROVE Within(text, i + 1)
  <2>1. i \in 1..(i + 1) - 1 /\ \A k \in i..(i + 1) - 1 : text[k].k # "]"
    BY <1>1, <1>2
  <2> QED BY <1>2, <2>1 DEF Within
<1>3. ASSUME Within(text, i), text[i].k # "]" PROVE Within(text, i + 1)
  <2>1. PICK j \in 1..(i - 1) : text[j].k = "[" /\ \A k \in j..(i - 1) : text[k].k # "]"
    BY <1>3 DEF Within
  <2>2. j \in 1..(i + 1) - 1 /\ \A k \in j..(i + 1) - 1 : k = i \/ k \in j..(i - 1)
    BY <1>1
  <2> QED BY <1>3, <2>1, <2>2 DEF Within
<1>4. ASSUME Within(text, i + 1), text[i].k # "[" PROVE Within(text, i) /\ text[i].k # "]"
  <2>1. PICK j \in 1..(i + 1) - 1 : text[j].k = "[" /\ \A k \in j..(i + 1) - 1 : text[k].k # "]"
    BY <1>4 DEF Within
  <2>2. j # i /\ j \in 1..(i - 1) /\ i \in j..(i + 1) - 1 /\ \A k \in j..(i - 1) : k \in j..(i + 1) - 1
    BY <1>1, <1>4, <2>1
  <2> QED BY <2>1, <2>2 DEF Within
<1> QED BY <1>2, <1>3, <1>4

(* The line that is read is one more.                                      *)
LEMMA LineRead ==
  ASSUME FileOK, ReadSoFar, Reading
  PROVE  /\ text \in Files /\ at \in DOMAIN text /\ text' = text /\ at' = at + 1 /\ at \in 1..Len(text)
         /\ at' <= Len(text') + 1 /\ pass' = "file"
         /\ \A i : i \in 1..at' - 1 <=> i \in 1..at - 1 \/ i = at
         /\ \A k : {i \in Ends(k) : i < at'} = {i \in Ends(k) : i < at} \cup {i \in {at} : text[i].k = k}
<1>1. text \in Files /\ at \in Nat \ {0} /\ text' = text /\ at' = at + 1 /\ at <= Len(text) /\ pass' = "file"
  BY DEF Reading, FileOK
<1>2. at \in DOMAIN text /\ DOMAIN text = 1..Len(text) /\ Len(text) \in Nat
  BY <1>1, FilesAssumption
<1>3. \A k : {i \in Ends(k) : i < at'} = {i \in Ends(k) : i < at} \cup {i \in {at} : text[i].k = k}
  BY <1>1, <1>2 DEF Ends
<1> QED BY <1>1, <1>2, <1>3

(* What the delays become.                                                 *)
LEMMA DelaysStep ==
  ASSUME FileOK, ReadSoFar, Reading,
         IF ~inside /\ Line.k = "target" THEN allowed' = AddDelay(allowed, Line) ELSE allowed' = allowed
  PROVE  DelaysSoFar'
<1>1. /\ text \in Files /\ at \in DOMAIN text /\ text' = text /\ at' = at + 1 /\ at \in 1..Len(text)
      /\ \A i : i \in 1..at' - 1 <=> i \in 1..at - 1 \/ i = at
  BY LineRead
<1>2. inside = Within(text, at) /\ DelaysSoFar
  BY DEF ReadSoFar
<1>3. \A tgt : DelaysUpto(tgt)' = DelaysUpto(tgt)
  BY <1>1 DEF DelaysUpto
<1>4. \A tgt : DelaysUpto(tgt)[at] = DelaysUpto(tgt)[at - 1] \o Given(tgt, at)
               /\ DelaysUpto(tgt)[at - 1] \in Seq(Nat)
  <2> SUFFICES ASSUME NEW tgt PROVE DelaysUpto(tgt)[at] = DelaysUpto(tgt)[at - 1] \o Given(tgt, at)
                                    /\ DelaysUpto(tgt)[at - 1] \in Seq(Nat)
    OBVIOUS
  <2>1. at - 1 \in 0..Len(text)
    BY <1>1
  <2>2. DelaysUpto(tgt) \in [0..Len(text) -> Seq(Nat)]
    BY <1>1, DelaysUptoIs
  <2> QED BY <1>1, <2>1, <2>2, DelaysUptoIs
<1>5. CASE ~inside /\ Line.k = "target"
  <2>1. Line = text[at] /\ Line.tgt \in TargetsIn(text) /\ ~Within(text, at)
    BY <1>1, <1>2, <1>5 DEF Line, TargetsIn
  <2>2. /\ DOMAIN allowed' = DOMAIN allowed \cup {Line.tgt}
        /\ \A t \in DOMAIN allowed' :
             allowed'[t] = IF t = Line.tgt
                           THEN (IF t \in DOMAIN allowed THEN allowed[t] ELSE <<>>) \o Line.delay
                           ELSE allowed[t]
    BY <1>5 DEF AddDelay, Put
  <2>3. DOMAIN allowed' = {text[k].tgt : k \in {i \in 1..at' - 1 : text[i].k = "target" /\ ~Within(text, i)}}
    <3>1. {i \in 1..at' - 1 : text[i].k = "target" /\ ~Within(text, i)}
            = {i \in 1..at - 1 : text[i].k = "target" /\ ~Within(text, i)} \cup {at}
      BY <1>1, <1>5, <2>1
    <3> QED BY <1>2, <2>1, <2>2, <3>1 DEF DelaysSoFar
  <2>4. ASSUME NEW tgt \in TargetsIn(text)
        PROVE  (IF tgt \in DOMAIN allowed' THEN allowed'[tgt] ELSE <<>>) = DelaysUpto(tgt)[at]
    <3>1. DelaysUpto(tgt)[at - 1] = IF tgt \in DOMAIN allowed THEN allowed[tgt] ELSE <<>>
      BY <1>2 DEF DelaysSoFar
    <3>2. CASE tgt = Line.tgt
      <4>1. Given(tgt, at) = Line.delay
        BY <1>5, <2>1, <3>2 DEF Given
      <4> QED BY <1>4, <2>2, <3>1, <3>2, <4>1
    <3>3. CASE tgt # Line.tgt
      <4>1. Given(tgt, at) = <<>>
        BY <2>1, <3>3 DEF Given
      <4>2. DelaysUpto(tgt)[at] = DelaysUpto(tgt)[at - 1]
        BY <1>4, <4>1
      <4> QED BY <2>2, <3>1, <3>3, <4>2
    <3> QED BY <3>2, <3>3
  <2>5. at' - 1 = at
    BY <1>1
  <2>6. TargetsIn(text)' = TargetsIn(text) /\ \A i : Within(text, i)' = Within(text, i)
    BY <1>1
  <2> QED BY <1>1, <1>3, <2>3, <2>4, <2>5, <2>6 DEF DelaysSoFar
<1>6. CASE inside \/ Line.k # "target"
  <2>1. Line = text[at] /\ allowed' = allowed /\ (text[at].k = "target" => Within(text, at))
    BY <1>2, <1>6 DEF Line
  <2>2. {i \in 1..at' - 1 : text[i].k = "target" /\ ~Within(text, i)}
          = {i \in 1..at - 1 : text[i].k = "target" /\ ~Within(text, i)}
    BY <1>1, <2>1
  <2>3. ASSUME NEW tgt PROVE DelaysUpto(tgt)[at] = DelaysUpto(tgt)[at - 1]
    <3>1. Given(tgt, at) = <<>>
      BY <2>1 DEF Given
    <3>2. PICK s, r : s = DelaysUpto(tgt)[at - 1] /\ r = DelaysUpto(tgt)[at]
      OBVIOUS
    <3>3. s \in Seq(Nat) /\ r = s \o <<>>
      BY <1>4, <3>1, <3>2
    <3>4. r = s
      BY <3>3
    <3> QED BY <3>2, <3>4
  <2>4. at' - 1 = at
    BY <1>1
  <2> QED BY <1>1, <1>2, <1>3, <2>1, <2>2, <2>3, <2>4 DEF DelaysSoFar
<1> QED BY <1>5, <1>6

(* What the vectors become: nothing but a line outside brackets, a bracket *)
(* opened, a member, a bracket closed.                                     *)
LEMMA VecsStep ==
  ASSUME FileOK, ReadSoFar, SkipNote \/ ReadTarget \/ OpenVec \/ AddMember \/ CloseVec
  PROVE  VecsSoFar'
<1>1. Reading
  BY DEF SkipNote, ReadTarget, OpenVec, AddMember, CloseVec
<1>2. /\ text \in Files /\ at \in DOMAIN text /\ text' = text /\ at' = at + 1 /\ at \in 1..Len(text)
      /\ \A k : {i \in Ends(k) : i < at'} = {i \in Ends(k) : i < at} \cup {i \in {at} : text[i].k = k}
  BY <1>1, LineRead
<1>3. \A k : Ends(k)' = Ends(k)
  BY <1>2 DEF Ends
<1>4. Line = text[at]
  BY DEF Line
<1>5. PICK from \in [DOMAIN allowedVec -> Ends("[")], to \in [DOMAIN allowedVec -> Ends("]")], o \in 0..at - 1 :
        /\ {i \in Ends("[") : i < at} = Range(from) \cup (IF inside THEN {o} ELSE {})
        /\ {i \in Ends("]") : i < at} = Range(to)
        /\ Bracketed(from, to)
        /\ inside => o > 0 /\ OpenAt(o)
  BY DEF ReadSoFar, VecsSoFar
<1>6. CASE SkipNote \/ ReadTarget
  <2>1. ~inside /\ ~inside' /\ allowedVec' = allowedVec /\ text[at].k # "[" /\ text[at].k # "]"
    <3>1. SkipNote => ~inside /\ inside' = inside /\ allowedVec' = allowedVec /\ text[at].k = "note"
      BY <1>4 DEF SkipNote
    <3>2. ReadTarget => ~inside /\ inside' = inside /\ allowedVec' = allowedVec /\ text[at].k = "target"
      BY <1>4 DEF ReadTarget
    <3> QED BY <1>6, <3>1, <3>2
  <2>2. {i \in Ends("[") : i < at'} = Range(from) /\ {i \in Ends("]") : i < at'} = Range(to)
    BY <1>2, <1>5, <2>1
  <2>3. Bracketed(from, to)'
    BY <1>2, <1>5, <2>1 DEF Bracketed
  <2>4. 0 \in 0..at' - 1
    BY <1>2
  <2>5. from \in [DOMAIN allowedVec' -> Ends("[")'] /\ to \in [DOMAIN allowedVec' -> Ends("]")']
    BY <1>3, <1>5, <2>1
  <2>6. {i \in Ends("[")' : i < at'} = Range(from) \cup (IF inside' THEN {0} ELSE {})
        /\ {i \in Ends("]")' : i < at'} = Range(to)
    BY <1>3, <2>1, <2>2
  <2> QED BY <2>1, <2>3, <2>4, <2>5, <2>6 DEF VecsSoFar
<1>7. CASE OpenVec
  <2>1. ~inside /\ inside' /\ allowedVec' = allowedVec /\ text[at].k = "[" /\ text[at].k # "]" /\ tgtVec' = <<>>
    BY <1>4, <1>7 DEF OpenVec
  <2>0. PICK b : b = at
    OBVIOUS
  <2>2. {i \in Ends("[")' : i < at'} = Range(from) \cup (IF inside' THEN {b} ELSE {})
        /\ {i \in Ends("]")' : i < at'} = Range(to)
    BY <1>2, <1>3, <1>5, <2>0, <2>1
  <2>3. Bracketed(from, to)'
    BY <1>2, <1>5, <2>1 DEF Bracketed
  <2>4. b \in 0..at' - 1 /\ b > 0 /\ at' - 1 - b = 0 /\ b + 1..at' - 1 = {}
    BY <1>2, <2>0
  <2>5. from \in [DOMAIN allowedVec' -> Ends("[")'] /\ to \in [DOMAIN allowedVec' -> Ends("]")']
    BY <1>3, <1>5, <2>1
  <2>6. OpenAt(b)'
    <3>1. tgtVec' = [k \in 1..0 |-> text'[b + k].tgt]
      BY <2>1
    <3> QED BY <1>2, <2>0, <2>1, <2>4, <3>1 DEF OpenAt
  <2> QED BY <2>2, <2>3, <2>4, <2>5, <2>6 DEF VecsSoFar
<1>8. CASE AddMember
  <2>1. inside /\ inside' /\ allowedVec' = allowedVec /\ text[at].k = "target" /\ text[at].k # "["
        /\ text[at].k # "]" /\ tgtVec' = Append(tgtVec, text[at].tgt)
    BY <1>4, <1>8 DEF AddMember
  <2>2. {i \in Ends("[")' : i < at'} = Range(from) \cup (IF inside' THEN {o} ELSE {})
        /\ {i \in Ends("]")' : i < at'} = Range(to)
    BY <1>2, <1>3, <1>5, <2>1
  <2>3. Bracketed(from, to)'
    BY <1>2, <1>5, <2>1 DEF Bracketed
  <2>4. o \in 0..at' - 1 /\ o > 0 /\ o <= at - 1 /\ OpenAt(o)
    BY <1>2, <1>5, <2>1
  <2>5. from \in [DOMAIN allowedVec' -> Ends("[")'] /\ to \in [DOMAIN allowedVec' -> Ends("]")']
    BY <1>3, <1>5, <2>1
  <2>6. OpenAt(o)'
    <3>1. \A i \in o + 1..at' - 1 : text[i].k = "target"
      BY <1>2, <2>1, <2>4 DEF OpenAt
    <3>2. tgtVec' = [k \in 1..at' - 1 - o |-> text[o + k].tgt]
      <4> DEFINE n == at - 1 - o
      <4>1. n \in Nat /\ at' - 1 - o = n + 1 /\ o + (n + 1) = at
        BY <1>2, <2>4
      <4>2. tgtVec = [k \in 1..n |-> text[o + k].tgt]
        BY <2>4 DEF OpenAt
      <4>3. Append(tgtVec, text[at].tgt) = [k \in 1..n + 1 |-> text[o + k].tgt]
        <5> HIDE DEF n
        <5> QED BY <4>1, <4>2
      <4> QED BY <2>1, <4>1, <4>3
    <3> QED BY <1>2, <2>4, <3>1, <3>2 DEF OpenAt
  <2> QED BY <2>2, <2>3, <2>4, <2>5, <2>6 DEF VecsSoFar
<1>9. CASE CloseVec
  <2>1. PICK d : d = IF text[at].delay = <<>> THEN 0 ELSE text[at].delay[1]
    OBVIOUS
  <2>2. inside /\ ~inside' /\ allowedVec' = Append(allowedVec, <<tgtVec, d>>)
        /\ text[at].k = "]" /\ text[at].k # "["
    BY <1>4, <1>9, <2>1 DEF CloseVec
  <2>3. PICK N : N = Len(allowedVec)
    OBVIOUS
  <2>4. N \in Nat /\ DOMAIN allowedVec = 1..N /\ DOMAIN allowedVec' = 1..N + 1
        /\ allowedVec'[N + 1] = <<tgtVec, d>> /\ \A n \in 1..N : allowedVec'[n] = allowedVec[n]
    BY <2>2, <2>3 DEF FileOK
  <2>5. o \in Nat \ {0} /\ o < at /\ OpenAt(o) /\ o \in Ends("[")
    BY <1>2, <1>5, <2>2 DEF Ends, OpenAt
  <2>6. at \in Ends("]")
    BY <1>2, <2>2 DEF Ends
  <2>7. \A n \in 1..N : to[n] < o /\ to[n] \in Nat
    <3> SUFFICES ASSUME NEW n \in 1..N PROVE to[n] < o /\ to[n] \in Nat
      OBVIOUS
    <3>1. to[n] \in Ends("]") /\ to[n] \in Range(to)
      BY <1>5, <2>4 DEF Range
    <3>2. to[n] < at /\ text[to[n]].k = "]" /\ to[n] \in Nat
      BY <1>2, <1>5, <3>1, FilesAssumption DEF Ends
    <3>3. to[n] # o /\ to[n] \notin o + 1..at - 1
      BY <2>5, <3>2 DEF OpenAt
    <3> QED BY <1>2, <2>5, <3>2, <3>3
  <2>8. PICK f : f = [n \in 1..N + 1 |-> IF n = N + 1 THEN o ELSE from[n]]
    OBVIOUS
  <2>9. PICK t : t = [n \in 1..N + 1 |-> IF n = N + 1 THEN at ELSE to[n]]
    OBVIOUS
  <2>10. /\ f[N + 1] = o /\ t[N + 1] = at
         /\ \A n \in 1..N : f[n] = from[n] /\ t[n] = to[n]
         /\ \A n \in 1..N + 1 : n = N + 1 \/ n \in 1..N
    BY <2>4, <2>8, <2>9
  <2>11. f \in [1..N + 1 -> Ends("[")] /\ t \in [1..N + 1 -> Ends("]")]
    BY <1>5, <2>4, <2>5, <2>6, <2>8, <2>9
  <2>12. Range(f) = Range(from) \cup {o} /\ Range(t) = Range(to) \cup {at}
    <3>1. DOMAIN f = 1..N + 1 /\ DOMAIN t = 1..N + 1 /\ DOMAIN from = 1..N /\ DOMAIN to = 1..N
          /\ N + 1 \in 1..N + 1 /\ 1..N \subseteq 1..N + 1
      BY <1>5, <2>4, <2>8, <2>9
    <3> QED BY <2>10, <3>1 DEF Range
  <2>13. {i \in Ends("[")' : i < at'} = Range(f) \cup (IF inside' THEN {o} ELSE {})
         /\ {i \in Ends("]")' : i < at'} = Range(t)
    BY <1>2, <1>3, <1>5, <2>2, <2>12
  <2>14. Bracketed(f, t)'
    <3> SUFFICES ASSUME NEW n \in 1..N + 1
                 PROVE  /\ f[n] < t[n] /\ (n > 1 => t[n - 1] < f[n])
                        /\ allowedVec'[n] = <<[k \in 1..(t[n] - f[n] - 1) |-> text[f[n] + k].tgt],
                                              IF text[t[n]].delay = <<>> THEN 0 ELSE text[t[n]].delay[1]>>
      BY <1>2, <2>4 DEF Bracketed
    <3>1. CASE n = N + 1
      <4>1. n > 1 => n - 1 \in 1..N /\ t[n - 1] = to[n - 1]
        BY <2>4, <2>10, <3>1
      <4>2. at - 1 - o = at - o - 1
        BY <1>2, <2>5
      <4>3. tgtVec = [k \in 1..(at - o - 1) |-> text[o + k].tgt]
        BY <2>5, <4>2 DEF OpenAt
      <4> QED BY <2>1, <2>4, <2>5, <2>7, <2>10, <3>1, <4>1, <4>3
    <3>2. CASE n \in 1..N
      <4>1. n > 1 => n - 1 \in 1..N /\ t[n - 1] = to[n - 1]
        BY <2>4, <2>10, <3>2
      <4> QED BY <1>5, <2>4, <2>10, <3>2, <4>1 DEF Bracketed
    <3> QED BY <2>10, <3>1, <3>2
  <2>15. f \in [DOMAIN allowedVec' -> Ends("[")'] /\ t \in [DOMAIN allowedVec' -> Ends("]")']
    BY <1>3, <2>4, <2>11
  <2>16. o \in 0..at' - 1
    BY <1>2, <2>5
  <2> QED BY <2>2, <2>13, <2>14, <2>15, <2>16 DEF VecsSoFar
<1> QED BY <1>6, <1>7, <1>8, <1>9

LEMMA ReadStep ==
  ASSUME FileOK, ReadSoFar, [Next]_vars
  PROVE  ReadSoFar'
<1>1. CASE SkipNote \/ ReadTarget \/ OpenVec \/ AddMember \/ CloseVec
  <2>1. Reading
    BY <1>1 DEF SkipNote, ReadTarget, OpenVec, AddMember, CloseVec
  <2>2. /\ text \in Files /\ at \in DOMAIN text /\ text' = text /\ at' = at + 1
        /\ at' <= Len(text') + 1 /\ pass' = "file" /\ Line = text[at]
    BY <2>1, LineRead DEF Line
  <2>3. IF ~inside /\ Line.k = "target" THEN allowed' = AddDelay(allowed, Line) ELSE allowed' = allowed
    BY <1>1 DEF SkipNote, ReadTarget, OpenVec, AddMember, CloseVec
  <2>4. inside' = Within(text, at + 1)
    <3>1. inside = Within(text, at)
      BY DEF ReadSoFar
    <3>2. Within(text, at + 1) \in BOOLEAN /\ Within(text, at) \in BOOLEAN
      BY DEF Within
    <3>3. CASE SkipNote \/ ReadTarget
      BY <2>2, <3>1, <3>2, <3>3, WithinNext DEF SkipNote, ReadTarget
    <3>4. CASE OpenVec
      BY <2>2, <3>1, <3>2, <3>4, WithinNext DEF OpenVec
    <3>5. CASE AddMember
      BY <2>2, <3>1, <3>2, <3>5, WithinNext DEF AddMember
    <3>6. CASE CloseVec
      BY <2>2, <3>1, <3>2, <3>6, WithinNext DEF CloseVec
    <3> QED BY <1>1, <3>3, <3>4, <3>5, <3>6
  <2>5. DelaysSoFar' /\ VecsSoFar'
    BY <1>1, <2>1, <2>3, DelaysStep, VecsStep
  <2> QED BY <2>2, <2>4, <2>5 DEF ReadSoFar
<1>2. ASSUME UNCHANGED <<text, at, inside, tgtVec, allowed, allowedVec>>,
             pass' = "allowed" => ~inside /\ at = Len(text) + 1
      PROVE  ReadSoFar'
  <2>1. (\A i : Within(text, i)' = Within(text, i)) /\ TargetsIn(text)' = TargetsIn(text)
        /\ \A tgt : DelaysUpto(tgt)' = DelaysUpto(tgt)
    BY <1>2 DEF DelaysUpto
  <2>2. DelaysSoFar'
    BY <1>2, <2>1 DEF ReadSoFar, DelaysSoFar
  <2>3. (\A k : Ends(k)' = Ends(k)) /\ (\A f, t : Bracketed(f, t)' = Bracketed(f, t))
        /\ (\A o : OpenAt(o)' = OpenAt(o))
    BY <1>2 DEF Ends, Bracketed, OpenAt
  <2>4. VecsSoFar'
    BY <1>2, <2>3 DEF ReadSoFar, VecsSoFar
  <2> QED BY <1>2, <2>1, <2>2, <2>4 DEF ReadSoFar
<1>3. CASE OpenFile
  BY <1>2, <1>3 DEF OpenFile
<1>4. CASE EndOfFile
  <2>1. at = Len(text) + 1
    <3>1. text \in Files /\ at \in Nat
      BY DEF FileOK
    <3>2. Len(text) \in Nat
      BY <3>1, FilesAssumption
    <3> QED BY <1>4, <3>1, <3>2 DEF EndOfFile, ReadSoFar
  <2> QED BY <1>2, <1>4, <2>1 DEF EndOfFile
<1>5. CASE UNCHANGED file
  BY <1>2, <1>5 DEF file, ReadSoFar
<1>6. TakeRoot \/ StartRoot \/ EnterPort \/ SkipClock \/ AddChild \/ Return \/ Stuck \/ Stop \/ UNCHANGED vars
        => UNCHANGED file
  BY DEF TakeRoot, StartRoot, EnterPort, SkipClock, AddChild, Return, Stuck, Stop, vars
<1> QED BY <1>1, <1>3, <1>4, <1>5, <1>6 DEF Next

LEMMA ReadInit == Init => ReadSoFar
<1> SUFFICES ASSUME Init PROVE ReadSoFar
  OBVIOUS
<1>1. /\ text \in Files /\ pass = "outputs" /\ at = 1 /\ inside = FALSE
      /\ allowed = <<>> /\ allowedVec = <<>>
  BY DEF Init
<1>2. Len(text) \in Nat /\ DOMAIN text = 1..Len(text)
  BY <1>1, FilesAssumption
<1>3. Within(text, at) = FALSE
  BY <1>1 DEF Within
<1>4. DelaysSoFar
  <2>1. \A tgt : DelaysUpto(tgt)[at - 1] = <<>>
    BY <1>1, DelaysUptoIs
  <2> QED BY <1>1, <2>1 DEF DelaysSoFar
<1>5. VecsSoFar
  <2>1. {i \in Ends("[") : i < at} = {} /\ {i \in Ends("]") : i < at} = {}
    BY <1>1, <1>2 DEF Ends
  <2>2. PICK f : f = <<>>
    OBVIOUS
  <2>3. DOMAIN allowedVec = {} /\ Range(f) = {} /\ Bracketed(f, f)
        /\ f \in [DOMAIN allowedVec -> Ends("[")] /\ f \in [DOMAIN allowedVec -> Ends("]")]
    BY <1>1, <2>2 DEF Range, Bracketed
  <2>4. 0 \in 0..at - 1
    BY <1>1
  <2> QED BY <1>1, <2>1, <2>3, <2>4 DEF VecsSoFar
<1>6. at <= Len(text) + 1 /\ pass # "allowed"
  BY <1>1, <1>2
<1>7. inside = Within(text, at)
  BY <1>1, <1>3, Zenon
<1> QED BY <1>4, <1>5, <1>6, <1>7 DEF ReadSoFar

(* The reader of allowed_target.txt keeps all delays of a target in the    *)
(* order of its lines, and each pair of brackets gives one vector, in      *)
(* order, with one delay (build_ast_tree, ast.cpp:81-146).                  *)
THEOREM AstAllowedAsWritten == Spec => []AllowedAsWritten
<1>1. ASSUME FileOK, ReadSoFar PROVE AllowedAsWritten
  <2> SUFFICES ASSUME pass = "allowed"
               PROVE  /\ DOMAIN allowed = {text[k].tgt : k \in {i \in DOMAIN text : text[i].k = "target" /\ ~Within(text, i)}}
                      /\ \A tgt \in DOMAIN allowed : allowed[tgt] = DelaysOf(tgt)
                      /\ VecsWritten
    BY DEF AllowedAsWritten
  <2>1. text \in Files /\ ~inside /\ at = Len(text) + 1 /\ DelaysSoFar /\ VecsSoFar
        /\ DOMAIN allowed \subseteq TargetsIn(text)
    BY <1>1 DEF FileOK, ReadSoFar
  <2>2. Len(text) \in Nat /\ DOMAIN text = 1..Len(text) /\ at - 1 = Len(text)
    BY <2>1, FilesAssumption
  <2>3. \A k : {i \in Ends(k) : i < at} = Ends(k)
    BY <2>1, <2>2 DEF Ends
  <2>4. VecsWritten
    BY <2>1, <2>3 DEF VecsSoFar, VecsWritten
  <2>5. \A tgt \in DOMAIN allowed : allowed[tgt] = DelaysOf(tgt)
    BY <2>1, <2>2 DEF DelaysSoFar, DelaysOf
  <2> QED BY <2>1, <2>2, <2>4, <2>5 DEF DelaysSoFar
<1>2. IInv => FileOK
  BY DEF IInv
<1> QED BY <1>1, <1>2, AstInvariant, ReadInit, ReadStep, PTL DEF Spec
=============================================================================
