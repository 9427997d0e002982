--------------------------------- MODULE Ast ---------------------------------
(***************************************************************************)
(* build_ast_tree (ast.cpp): the trees that Unroll reads.  A node is made  *)
(* once for a name of a module, whichever instance is met first; the walk  *)
(* goes into a sub-module through its output, out of it through its        *)
(* inputs, and the stack of instances follows.  The recursion of the C++   *)
(* is an explicit stack.  Between the targets of the instructions and its  *)
(* own, allowed_target.txt is read.                                        *)
(***************************************************************************)
EXTENDS Naturals, SequencesExt

CONSTANTS
  Top,
  Assign,    \* module -> what is assigned -> [kind, src, ins, port]
  Whole,     \* slice -> its variable
  Ports,     \* module -> its inputs, in order
  InsMod,    \* module -> instance -> module
  Conn,      \* module -> instance -> input -> wire
  Clock,     \* module -> its clock
  Reset,     \* the reset of Top
  BlackBox,  \* modules without a tree
  Mems,      \* modules that are memories
  Outputs,   \* targets of the instructions, as [path, name]; path: the
             \* instances from Top down
  Files,     \* texts of allowed_target.txt; lines are [k, tgt, delay] with k
             \* "note" (a comment, an empty line), "target", "[", "]"
  Skipped    \* targets that are left out

Kinds == {"in", "num", "reg", "op", "slices", "case", "switch", "sub"}

Modules == DOMAIN Assign

Mod(c)      == Last(c).mod
Src(m, x)   == Assign[m][x].src
Kind(m, x)  == Assign[m][x].kind
SubOf(m, x) == InsMod[m][Assign[m][x].ins]

\* A slice that is not assigned by itself stands for its variable.
Assigned(m, s) == IF s \in DOMAIN Assign[m] THEN s ELSE Whole[s]

\* add_node finds an assignment of s in m; it aborts otherwise.
Finds(m, s) == Assigned(m, s) \in DOMAIN Assign[m]

(* Every name is assigned in its module, an output in the module of its    *)
(* instance, and an instance has a wire for each input: the handlers abort *)
(* otherwise.  Of a case, all values but the last are cut from one         *)
(* variable: add_case_node looks at the first only.                        *)
ASSUME DesignAssumption ==
  /\ Top \in Modules
  /\ \A m \in Modules : \A x \in DOMAIN Assign[m] :
       LET src == Src(m, x)
       IN /\ x \in STRING /\ Kind(m, x) \in Kinds
          /\ src \in Seq({s \in STRING : Finds(m, s)})
          /\ Kind(m, x) = "case" =>
               /\ Len(src) > 2
               /\ \A v \in 2..Len(src) - 1 : Assigned(m, src[v]) = Assigned(m, src[2])
          /\ Kind(m, x) = "sub" =>
               /\ Assign[m][x].ins \in DOMAIN InsMod[m]
               /\ SubOf(m, x) \notin BlackBox \cup Mems => Assign[m][x].port \in DOMAIN Assign[SubOf(m, x)]
  /\ \A m \in Modules : \A i \in DOMAIN InsMod[m] :
       LET sub == InsMod[m][i]
       IN /\ sub \in Modules \ {Top}
          /\ Ports[sub] \in Seq({p \in STRING : p \in DOMAIN Conn[m][i]})
          /\ \A p \in DOMAIN Conn[m][i] : Conn[m][i][p] \in STRING /\ Finds(m, Conn[m][i][p])
          /\ \A x \in DOMAIN Assign[sub] : Kind(sub, x) = "in" => x \in DOMAIN Conn[m][i]

\* A stack of instances: from Top down, each an instance in the one before.
Entry   == [ins : {Top} \cup UNION {DOMAIN InsMod[m] : m \in Modules}, mod : Modules]
Path(c) ==
  /\ c \in Seq(Entry) /\ c # <<>> /\ c[1] = [ins |-> Top, mod |-> Top]
  /\ \A k \in 2..Len(c) : /\ c[k].ins \in DOMAIN InsMod[c[k - 1].mod]
                          /\ c[k].mod = InsMod[c[k - 1].mod][c[k].ins]

Along(path) ==
  LET ModAt[k \in 0..Len(path)] == IF k = 0 THEN Top ELSE InsMod[ModAt[k - 1]][path[k]]
  IN [k \in 1..Len(path) + 1 |-> [ins |-> IF k = 1 THEN Top ELSE path[k - 1], mod |-> ModAt[k - 1]]]

InPieces(name) ==
  IF name \in DOMAIN Assign[Top] /\ Kind(Top, name) = "slices"
  THEN SelectSeq(Src(Top, name), LAMBDA s : Kind(Top, s) # "num") ELSE <<name>>

TargetsIn(f) == {f[i].tgt : i \in {j \in DOMAIN f : f[j].k = "target"}}
Within(f, i) == \E j \in 1..(i - 1) : f[j].k = "[" /\ \A k \in j..(i - 1) : f[k].k # "]"

(* A target is assigned in the module its path leads to.  One below Top    *)
(* has no name of a variable of Top that is assigned by slices: those      *)
(* slices would be looked for in the sub-module.                           *)
ASSUME TargetAssumption ==
  \A r \in Outputs \cup UNION {TargetsIn(f) : f \in Files} :
    r.name \notin Skipped =>
      /\ Path(Along(r.path))
      /\ InPieces(r.name) \in Seq({s \in STRING : Finds(Mod(Along(r.path)), s)})
      /\ r.path # <<>> /\ r.name \in DOMAIN Assign[Top] => Kind(Top, r.name) # "slices"
(* Lines are of one of the kinds, and brackets are not nested.             *)
ASSUME FilesAssumption ==
  \A f \in Files :
    /\ f \in Seq(Range(f))
    /\ \A i \in DOMAIN f :
         /\ f[i].k \in {"note", "target", "[", "]"}
         /\ f[i].k \in {"target", "]"} => f[i].delay \in Seq(Nat)
         /\ f[i].k = "[" => ~Within(f, i)
         /\ f[i].k = "]" => Within(f, i)
         /\ (f[i].k = "target" /\ Within(f, i)) => f[i].delay = <<>>

VARIABLES
  text, pass,   \* allowed_target.txt; "outputs", then "file", then "allowed"
  at, inside,   \* line to be read, between brackets
  tgtVec,       \* targets read since the bracket
  allowed,      \* g_allowedTgt: target -> delays
  allowedVec,   \* g_allowedTgtVec: sequence of targets with their delay
  left,     \* targets not yet taken
  names,    \* what is to be built for the current target
  ctx,      \* g_insContextStk, as [ins, mod]
  calls,    \* the calls of add_node under way, the innermost last
  nodes,    \* the nodes made: [dest, wire, child]
  visited,  \* module -> name -> number of its node
  outport,  \* <<module, output>> -> number of the node it is entered by
  clk,      \* module -> its clock as found so far
  flat      \* modules that are not made functions
file == <<text, pass, at, inside, tgtVec, allowed, allowedVec>>
vars == <<file, left, names, ctx, calls, nodes, visited, outport, clk, flat>>

NoClock == ""
Empty   == [dest |-> "", wire |-> <<>>, child |-> <<>>]

Put(f, x, y) == [z \in DOMAIN f \cup {x} |-> IF z = x THEN y ELSE f[z]]

FromParent(m, x) == Kind(m, x) = "in" /\ m # Top
Wire(c, x) == Conn[c[Len(c) - 1].mod][Last(c).ins][x]

\* Mutant: the default of a case comes before its values.
DefaultFirst(c, x) ==
  LET m == Mod(c) src == Src(m, x)
  IN IF FromParent(m, x) THEN <<Wire(c, x)>>
     ELSE IF Kind(m, x) = "case" THEN <<src[1], Last(src), src[2]>>
     ELSE IF Kind(m, x) = "sub" THEN (IF SubOf(m, x) \in Mems THEN <<>> ELSE Ports[SubOf(m, x)])
     ELSE src

\* What the loops and calls of a handler go over: names, or the ports of an
\* instance.
Pending(c, x) ==
  LET m == Mod(c) src == Src(m, x)
  IN IF FromParent(m, x) THEN <<Wire(c, x)>>
     ELSE IF Kind(m, x) = "case" THEN <<src[1], src[2], Last(src)>>
     ELSE IF Kind(m, x) = "sub" THEN (IF SubOf(m, x) \in Mems THEN <<>> ELSE Ports[SubOf(m, x)])
     ELSE src

Frame(id, c, x, back) ==
  [id |-> id, mod |-> Mod(c), name |-> x, pend |-> Pending(c, x),
   enter |-> Kind(Mod(c), x) = "sub",   \* the instance is still to be entered
   saved |-> IF FromParent(Mod(c), x) THEN <<Last(c)>> ELSE <<>>,
   back  |-> back]  \* begun at an output: the instance is left at the end

\* set_clk_rst: clocks and resets found from Top down; it goes on below an
\* instance only when both are found.
Found == [Modules -> [clk : STRING, rst : STRING]]
SetClk[m \in Modules, found \in Found] ==
  LET Below(i, f) ==
        LET sub == InsMod[m][i]
            At(w, old) == LET p == {q \in DOMAIN Conn[m][i] : Conn[m][i][q] = w}
                          IN IF p = {} THEN old ELSE CHOOSE q \in p : TRUE
            g == [f EXCEPT ![sub] = [clk |-> At(f[m].clk, f[sub].clk), rst |-> At(f[m].rst, f[sub].rst)]]
        IN IF f[sub].clk # NoClock /\ f[sub].rst # NoClock THEN f
           ELSE IF {f[m].clk, f[m].rst} \subseteq Range(Conn[m][i]) THEN SetClk[sub, g] ELSE g
  IN FoldSet(Below, found, DOMAIN InsMod[m])

FirstClk ==
  LET found == SetClk[Top, [m \in Modules |-> IF m = Top THEN [clk |-> Clock[Top], rst |-> Reset]
                                                         ELSE [clk |-> NoClock, rst |-> NoClock]]]
  IN [m \in Modules |-> found[m].clk]

(* A clock goes into instances as their clock, and it is the one found.    *)
ASSUME ClockAssumption ==
  \A m \in Modules :
    /\ FirstClk[m] \in {NoClock, Clock[m]}
    /\ \A i \in DOMAIN InsMod[m] : \A p \in DOMAIN Conn[m][i] :
         /\ Conn[m][i][p] # NoClock
         /\ Conn[m][i][p] = Clock[m] => p = Clock[InsMod[m][i]]

Init ==
  /\ text \in Files /\ pass = "outputs" /\ at = 1 /\ inside = FALSE /\ tgtVec = <<>>
  /\ allowed = <<>> /\ allowedVec = <<>>
  /\ left = Outputs /\ names = <<>> /\ ctx = <<>> /\ calls = <<>>
  /\ nodes = <<>> /\ visited = [m \in Modules |-> <<>>] /\ outport = <<>>
  /\ clk = FirstClk /\ flat = {}

-----------------------------------------------------------------------------
F    == Last(calls)
Here == Mod(ctx)

\* Mutant: a node is noted only when it is complete.
NotYet(f, x, id) == f
Mark(f, x, id) == IF x \in DOMAIN f THEN f ELSE Put(f, x, id)

(* add_node: node id stands for x in the instance c ends at; cs are the    *)
(* calls below this one, ns the nodes with this one empty.                 *)
Open(x, id, c, back, ns, cs) ==
  LET y == Assigned(Mod(c), x)
  IN /\ visited' = [visited EXCEPT ![Mod(c)] = Mark(@, y, id)]
     /\ nodes' = [ns EXCEPT ![id].dest = y,
                            ![id].wire = IF FromParent(Mod(c), y) THEN <<Wire(c, y)>> ELSE <<>>]
     /\ calls' = Append(cs, Frame(id, c, y, back))
     /\ ctx' = IF FromParent(Mod(c), y) THEN Front(c) ELSE c

(* set_stk_build_tree.  The modules of a path are not made functions.      *)
TakeRoot ==
  /\ calls = <<>> /\ names = <<>>
  /\ \E r \in left :
       /\ left' = left \ {r}
       /\ IF r.name \in Skipped THEN UNCHANGED <<names, ctx, flat>>
          ELSE /\ ctx' = Along(r.path) /\ names' = InPieces(r.name)
               /\ flat' = flat \cup {c.mod : c \in Range(Tail(Along(r.path)))}
  /\ UNCHANGED <<file, calls, nodes, visited, outport, clk>>

(* build_tree_for_single_as                                                *)
StartRoot ==
  /\ calls = <<>> /\ names # <<>> /\ names' = Tail(names)
  /\ IF Head(names) \in DOMAIN visited[Here] THEN UNCHANGED <<calls, nodes, visited, ctx>>
     ELSE Open(Head(names), Len(nodes) + 1, ctx, FALSE, Append(nodes, Empty), <<>>)
  /\ UNCHANGED <<file, left, outport, clk, flat>>

\* Mutant: a module is built for the first of its outputs only.
AnyOutput(m, o) == \E k \in DOMAIN outport : k[1] = m
IsStored(m, o) == <<m, o>> \in DOMAIN outport

(* add_submod_node up to its loop over the inputs.  An output that was met *)
(* inside its module before gets a node that add_node leaves as it is.     *)
EnterPort ==
  /\ calls # <<>> /\ F.enter
  /\ LET sub == SubOf(Here, F.name)
         out == Assign[Here][F.name].port
         id  == Len(nodes) + 1
         c   == Append(ctx, [ins |-> Assign[Here][F.name].ins, mod |-> sub])
         cs  == [calls EXCEPT ![Len(calls)].enter = FALSE]
     IN IF sub \in BlackBox \cup Mems \/ IsStored(sub, out)
        THEN calls' = cs /\ UNCHANGED <<ctx, nodes, visited, outport>>
        ELSE /\ outport' = Put(outport, <<sub, out>>, id)
             /\ IF out \in DOMAIN visited[sub]
                THEN calls' = cs /\ nodes' = Append(nodes, Empty) /\ UNCHANGED <<ctx, visited>>
                ELSE Open(out, id, c, TRUE, Append(nodes, Empty), cs)
  /\ UNCHANGED <<file, left, names, clk, flat>>

Working == calls # <<>> /\ ~F.enter /\ F.pend # <<>>
IsPort  == Kind(F.mod, F.name) = "sub"
NextWire == IF IsPort THEN Conn[Here][Assign[Here][F.name].ins][Head(F.pend)] ELSE Head(F.pend)
Advanced == [calls EXCEPT ![Len(calls)].pend = Tail(@)]

(* The input of an instance that is wired to the clock                     *)
SkipClock ==
  /\ Working /\ IsPort /\ NextWire = clk[Here]
  /\ clk' = [clk EXCEPT ![SubOf(Here, F.name)] = Head(F.pend)]
  /\ calls' = Advanced
  /\ UNCHANGED <<file, left, names, ctx, nodes, visited, outport, flat>>

(* add_child_node, for an operand, a register's next value, a slice, the   *)
(* parent's wire, an input of an instance                                  *)
AddChild ==
  /\ Working /\ ~(IsPort /\ NextWire = clk[Here])
  /\ LET x  == Assigned(Here, NextWire)
         known == x \in DOMAIN visited[Here]
         id == IF known THEN visited[Here][x] ELSE Len(nodes) + 1
         ns == [nodes EXCEPT ![F.id].child = Append(@, id),
                             ![F.id].wire = IF IsPort THEN Append(@, NextWire) ELSE @]
     IN IF known THEN nodes' = ns /\ calls' = Advanced /\ UNCHANGED <<ctx, visited>>
        ELSE Open(x, id, ctx, FALSE, Append(ns, Empty), Advanced)
  /\ UNCHANGED <<file, left, names, outport, clk, flat>>

\* Mutant: the instance whose input was followed outwards is not taken up.
NotRestored(f, c) == IF f.back THEN Front(c) ELSE c
Restored(f, c) == IF f.back THEN Front(c \o f.saved) ELSE c \o f.saved

Return ==
  /\ calls # <<>> /\ ~F.enter /\ F.pend = <<>>
  /\ calls' = Front(calls) /\ ctx' = Restored(F, ctx)
  /\ UNCHANGED <<file, left, names, nodes, visited, outport, clk, flat>>

AllTaken == left = {} /\ names = <<>> /\ calls = <<>>

-----------------------------------------------------------------------------
(* allowed_target.txt                                                      *)

Line == text[at]
Reading == /\ pass = "file" /\ at <= Len(text) /\ at' = at + 1
           /\ UNCHANGED <<text, pass, left, names, ctx, calls, nodes, visited, outport, clk, flat>>

OpenFile == /\ pass = "outputs" /\ AllTaken /\ pass' = "file"
            /\ UNCHANGED <<text, at, inside, tgtVec, allowed, allowedVec>>
            /\ UNCHANGED <<left, names, ctx, calls, nodes, visited, outport, clk, flat>>

SkipNote == /\ Reading /\ ~inside /\ Line.k = "note"
            /\ UNCHANGED <<inside, tgtVec, allowed, allowedVec>>

\* Mutant: a target that is known keeps the delays it has.
FirstLineOnly(old, line) == IF line.tgt \in DOMAIN old THEN old ELSE Put(old, line.tgt, line.delay)
\* The delays given for a target, in the order of the lines.
AddDelay(old, line) ==
  Put(old, line.tgt, (IF line.tgt \in DOMAIN old THEN old[line.tgt] ELSE <<>>) \o line.delay)

ReadTarget == /\ Reading /\ ~inside /\ Line.k = "target"
              /\ allowed' = AddDelay(allowed, Line)
              /\ UNCHANGED <<inside, tgtVec, allowedVec>>

OpenVec == /\ Reading /\ ~inside /\ Line.k = "["
           /\ inside' = TRUE /\ tgtVec' = <<>> /\ UNCHANGED <<allowed, allowedVec>>

AddMember == /\ Reading /\ inside /\ Line.k = "target"
             /\ tgtVec' = Append(tgtVec, Line.tgt) /\ UNCHANGED <<inside, allowed, allowedVec>>

CloseVec == /\ Reading /\ inside /\ Line.k = "]"
            /\ inside' = FALSE
            /\ allowedVec' = Append(allowedVec, <<tgtVec, IF Line.delay = <<>> THEN 0 ELSE Line.delay[1]>>)
            /\ UNCHANGED <<tgtVec, allowed>>

\* Between brackets a note is passed over without reading the next line, and
\* so is the end of the file: the reader goes round forever.
Stuck == /\ pass = "file" /\ inside
         /\ at <= Len(text) => Line.k = "note"
         /\ UNCHANGED vars

EndOfFile == /\ pass = "file" /\ ~inside /\ at > Len(text)
             /\ pass' = "allowed"
             /\ left' = DOMAIN allowed \cup UNION {Range(v[1]) : v \in Range(allowedVec)}
             /\ UNCHANGED <<text, at, inside, tgtVec, allowed, allowedVec>>
             /\ UNCHANGED <<names, ctx, calls, nodes, visited, outport, clk, flat>>

Done == pass = "allowed" /\ AllTaken
Stop == Done /\ UNCHANGED vars

Next == OpenFile \/ SkipNote \/ ReadTarget \/ OpenVec \/ AddMember \/ CloseVec \/ Stuck \/ EndOfFile
        \/ TakeRoot \/ StartRoot \/ EnterPort \/ SkipClock \/ AddChild \/ Return \/ Stop
Spec == Init /\ [][Next]_vars
-----------------------------------------------------------------------------
(* What allowed_target.txt says: outside brackets the delays of a target   *)
(* in the order of the lines, the first of which the search uses first;    *)
(* between brackets a vector, in order, with one delay.                    *)
DelaysUpto(tgt) ==
  LET Upto[k \in 0..Len(text)] ==
        IF k = 0 THEN <<>>
        ELSE Upto[k - 1] \o (IF text[k].k = "target" /\ text[k].tgt = tgt /\ ~Within(text, k)
                             THEN text[k].delay ELSE <<>>)
  IN Upto
DelaysOf(tgt) == DelaysUpto(tgt)[Len(text)]

Ends(k) == {i \in DOMAIN text : text[i].k = k}
(* The n-th vector is what stands between the brackets from[n] and to[n].  *)
Bracketed(from, to) ==
  \A n \in DOMAIN allowedVec :
    /\ from[n] < to[n] /\ (n > 1 => to[n - 1] < from[n])
    /\ allowedVec[n] = <<[k \in 1..(to[n] - from[n] - 1) |-> text[from[n] + k].tgt],
                         IF text[to[n]].delay = <<>> THEN 0 ELSE text[to[n]].delay[1]>>
VecsWritten ==
  \E from \in [DOMAIN allowedVec -> Ends("[")], to \in [DOMAIN allowedVec -> Ends("]")] :
    Ends("[") = Range(from) /\ Ends("]") = Range(to) /\ Bracketed(from, to)
AllowedAsWritten ==
  pass = "allowed" =>
    /\ DOMAIN allowed = {text[k].tgt : k \in {i \in DOMAIN text : text[i].k = "target" /\ ~Within(text, i)}}
    /\ \A tgt \in DOMAIN allowed : allowed[tgt] = DelaysOf(tgt)
    /\ VecsWritten

(* The types.  The context is a path of instances from Top down            *)
(* (get_parentMod asserts it of its last two), the call under way belongs  *)
(* to the module it ends in or, for an input, to the instance just left.   *)
TypeOK ==
  /\ left \subseteq Outputs \cup TargetsIn(text) /\ flat \subseteq Modules \ {Top}
  /\ ctx # <<>> => Path(ctx)
  /\ calls # <<>> => F.mod = Mod(ctx \o F.saved)
  /\ \A m \in Modules : /\ visited[m] \in [DOMAIN visited[m] -> DOMAIN nodes]
                        /\ DOMAIN visited[m] \subseteq DOMAIN Assign[m]
                        /\ clk[m] \in {NoClock, Clock[m]}
  /\ outport \in [DOMAIN outport -> DOMAIN nodes]

(* No name of a module is built while it is being built: the recursion of  *)
(* add_node ends although registers, and outputs that come back through    *)
(* inputs, close loops.                                                    *)
NoReentry ==
  \A j, k \in DOMAIN calls :
    calls[j].mod = calls[k].mod /\ calls[j].name = calls[k].name => j = k

Instances(m) == {pi \in UNION {{p} \X DOMAIN InsMod[p] : p \in Modules} : InsMod[pi[1]][pi[2]] = m}
IsNodeOf(id, m, s) == Assigned(m, s) \in DOMAIN visited[m] /\ visited[m][Assigned(m, s)] = id
Finished(id) == \A k \in DOMAIN calls : calls[k].id # id

ChildrenAre(n, m, srcs) ==
  /\ Len(n.child) <= Len(srcs)
  /\ \A k \in DOMAIN n.child : IsNodeOf(n.child[k], m, srcs[k])

Complete(n, m, x) ==
  Len(n.child) = CASE FromParent(m, x) -> 1
                   [] Kind(m, x) = "case" -> 3
                   [] Kind(m, x) = "sub" -> Len(n.wire)
                   [] OTHER -> Len(Src(m, x))

(* A node has the children its constraint handler reads by position: the   *)
(* operands in order; of a case the selector, the variable that all values *)
(* but the last are cut from, and the default; of an instance the wires of *)
(* its inputs; of an input the wire of an instance of its module, whichever*)
(* way it was reached.                                                     *)
Faithful(n, m, x) ==
  LET src == Src(m, x)
  IN /\ n.dest = x
     /\ FromParent(m, x) =>
          \A k \in DOMAIN n.child : \E pi \in Instances(m) :
            n.wire = <<Conn[pi[1]][pi[2]][x]>> /\ IsNodeOf(n.child[k], pi[1], n.wire[1])
     /\ Kind(m, x) = "case" =>
          \A v \in 2..Len(src) - 1 : ChildrenAre(n, m, <<src[1], src[v], Last(src)>>)
     /\ Kind(m, x) = "sub" => ChildrenAre(n, m, n.wire)
     /\ ~FromParent(m, x) /\ Kind(m, x) \notin {"case", "sub"} => ChildrenAre(n, m, src)
NodesFaithful ==
  \A m \in Modules : \A x \in DOMAIN visited[m] :
    LET id == visited[m][x]
    IN Faithful(nodes[id], m, x) /\ (Finished(id) => Complete(nodes[id], m, x))

(* What the inputs of an instance are wired to, without the clock unless   *)
(* set_clk_rst did not get down to this module.                            *)
InputWires(m, i) ==
  LET w == [k \in DOMAIN Ports[InsMod[m][i]] |-> Conn[m][i][Ports[InsMod[m][i]][k]]]
  IN IF FirstClk[m] = NoClock THEN w ELSE SelectSeq(w, LAMBDA x : x # Clock[m])

(* What add_constraint comes to from the targets: through an instance to   *)
(* its output and its inputs, out of a module only if it is not a function.*)
Reads(m, x) ==
  LET subs == SubOf(m, x)
  IN CASE Kind(m, x) = "in" ->
            IF m \in flat THEN {<<pi[1], Conn[pi[1]][pi[2]][x]>> : pi \in Instances(m)} ELSE {}
       [] Kind(m, x) = "sub" ->
            IF subs \in Mems THEN {}
            ELSE {<<m, w>> : w \in Range(InputWires(m, Assign[m][x].ins))}
                 \cup IF subs \in BlackBox THEN {} ELSE {<<subs, Assign[m][x].port>>}
       [] OTHER -> {<<m, s>> : s \in Range(Src(m, x))}
Pairs == UNION {{m} \X DOMAIN Assign[m] : m \in Modules}
Reached[old \in SUBSET Pairs, new \in SUBSET Pairs] ==
  IF new = {} THEN old
  ELSE LET all == old \cup new
           more == UNION {{<<r[1], Assigned(r[1], r[2])>> : r \in Reads(k[1], k[2])} : k \in new}
       IN Reached[all, more \ all]

Targets == {<<Mod(Along(r.path)), r.name>> : r \in {q \in Outputs \cup TargetsIn(text) : q.name \notin Skipped}}
InnerRead(m, o) == \/ \E x \in DOMAIN Assign[m] : o \in {Assigned(m, s) : s \in Range(Src(m, x))}
                   \/ <<m, o>> \in Targets

(* When all targets are done, all that add_constraint comes to has its     *)
(* node; the node of an instance has the wires of all its inputs in order; *)
(* and every output it enters a module by is stored with the tree of that  *)
(* output -- not so for outputs that are read inside their module, or are  *)
(* targets: met there first, the stored node stays empty.                  *)
NothingMissing ==
  Done => \A k \in Reached[{}, Targets] :
    LET m == k[1] x == k[2] sub == SubOf(m, x) out == Assign[m][x].port
    IN /\ \/ x \in DOMAIN visited[m] /\ nodes[visited[m][x]].dest = x
          \/ m = Top /\ Kind(m, x) = "slices" /\ k \in Targets
       /\ Kind(m, x) = "sub" /\ sub \notin Mems =>
            nodes[visited[m][x]].wire = InputWires(m, Assign[m][x].ins)
       /\ Kind(m, x) = "sub" /\ sub \notin BlackBox \cup Mems =>
            /\ <<sub, out>> \in DOMAIN outport
            /\ nodes[outport[<<sub, out>>]].dest = out \/ InnerRead(sub, out)
=============================================================================
