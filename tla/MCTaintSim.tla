----------------------------- MODULE MCTaintSim -----------------------------
(***************************************************************************)
(* TaintSim on one design per operator, whose inputs stand for any wires,  *)
(* and on designs with registers that hold their value in the ways the     *)
(* signatures are to recognise.                                            *)
(***************************************************************************)
EXTENDS TaintSim

N(k, w, op, ops) == [k |-> k, w |-> w, op |-> op, ops |-> ops, top |-> FALSE, rst |-> Zeros(w)]
Top(nd)          == [nd EXCEPT !.top = TRUE]
In(w)            == N("in", w, "", <<>>)
Reg(w, o)        == N("reg", w, "", <<o>>)
V(n, w)          == [n |-> n, hi |-> w - 1, lo |-> 0, val |-> <<>>]
Sl(n, hi, lo)    == [n |-> n, hi |-> hi, lo |-> lo, val |-> <<>>]
K(x, w)          == [n |-> 0, hi |-> w - 1, lo |-> 0, val |-> Word(x, w)]
Net(nd)          == [node |-> nd, regsel |-> 0, whole |-> \E i \in DOMAIN nd : nd[i].k = "reg"]
Case(w, s, b, a) == N("case", w, "", <<s, b, a>>)
Ite(w, c, x, y)  == N("ite", w, "", <<c, x, y>>)

\* One statement over two wires, its result seen through an inverter.
Stmt(w, nd) == Net(<<In(2), In(2), nd, Top(N("one", w, "~", <<V(3, w)>>))>>)

TwoOps == {"&", "|", "^", "+", "-", "*", "<<", ">>"}
OpNets ==
  {Stmt(2, N("two", 2, op, <<V(1, 2), V(2, 2)>>)) : op \in TwoOps}
  \cup {Stmt(1, N("two", 1, op, <<V(1, 2), V(2, 2)>>)) : op \in {"&&", "||", "==", "<"}}
  \cup {Stmt(2, N("two", 2, op, <<V(1, 2), K(n, 2)>>)) : op \in {"&", "|", "+"}, n \in {1, 3}}
  \cup {Stmt(2, N("two", 2, op, <<K(2, 2), V(2, 2)>>)) : op \in {"&", "-", "<<"}}
  \cup {Stmt(1, N("two", 1, op, <<Sl(1, 0, 0), K(1, 1)>>)) : op \in {"==", "&&", "||"}}
  \cup {Stmt(2, N("one", 2, op, <<V(1, 2)>>)) : op \in {"", "~", "-"}}
  \cup {Stmt(1, N("red", 1, op, <<V(1, 2)>>)) : op \in {"|", "&", "!", "^"}}
  \cup {Stmt(1, N("sel", 1, "", <<V(1, 2), Sl(2, i, i)>>)) : i \in {0, 1}}
  \cup {Stmt(1, N("sel", 1, "", <<V(1, 2), K(1, 1)>>)), Stmt(1, N("sel", 1, "", <<K(2, 2), Sl(2, 0, 0)>>))}
  \cup {Stmt(4, N("cat", 4, "", <<Sl(2, 0, 0), V(1, 2), Sl(2, 1, 1)>>)),
        Stmt(3, N("cat", 3, "", <<V(1, 2), K(1, 1)>>))}
  \cup {Stmt(2, Ite(2, Sl(1, 0, 0), V(2, 2), o)) : o \in {K(0, 2), K(3, 2)}}
  \cup {Stmt(1, Ite(1, Sl(1, 0, 0), o, Sl(2, 1, 1))) : o \in {K(1, 1), Sl(1, 1, 1)}}
  \cup {Stmt(2, Ite(2, Sl(1, 0, 0), K(1, 2), K(2, 2)))}
  \* a case of two patterns: data and default variables or literals
  \cup {Net(<<In(2), In(3), N("cat", 4, "", <<Sl(2, 1, 0), V(1, 2)>>), Case(2, V(1, 2), b, a),
              Top(N("one", 2, "~", <<V(4, 2)>>))>>) : b \in {V(3, 4), K(9, 4)}, a \in {Sl(2, 2, 1), K(2, 2)}}
  \cup {Net(<<In(2), In(2), Top(N("two", 2, op, <<V(1, 2), V(2, 2)>>))>>) : op \in {"&", "+"}}

RegNets ==
  { \* q <= en ? d : q
    Net(<<In(1), In(1), Top(Reg(1, V(4, 1))), Ite(1, V(1, 1), V(2, 1), V(3, 1))>>),
    \* two registers that swap, shift or hold, through two multiplexers and a copy
    Net(<<In(1), In(1), Reg(1, V(6, 1)), Top(Reg(1, V(7, 1))),
          Ite(1, V(1, 1), V(4, 1), V(3, 1)),
          Ite(1, V(2, 1), V(5, 1), V(3, 1)), N("one", 1, "", <<V(5, 1)>>)>>),
    \* the condition itself as data: p <= p ? 1 : d;  q <= p ? d : 0
    Net(<<In(1), Reg(1, V(4, 1)), Top(Reg(1, V(5, 1))),
          Ite(1, V(2, 1), K(1, 1), V(1, 1)), Ite(1, V(2, 1), V(1, 1), K(0, 1))>>),
    \* a register that is cleared for good is read into another
    Net(<<In(1), Reg(1, V(4, 1)), Top(Reg(1, K(0, 1))), Ite(1, V(1, 1), V(3, 1), V(2, 1))>>),
    \* q <= en ? ~q : q, and a register that follows it
    Net(<<In(1), Reg(1, V(5, 1)), Top(Reg(1, V(2, 1))), N("one", 1, "~", <<V(2, 1)>>),
          Ite(1, V(1, 1), V(4, 1), V(2, 1))>>),
    \* a register of two bits that adds its input or holds
    Net(<<In(1), In(2), [Top(Reg(2, V(5, 2))) EXCEPT !.rst = Word(2, 2)],
          N("two", 2, "+", <<V(3, 2), V(2, 2)>>), Ite(2, V(1, 1), V(4, 2), V(3, 2))>>),
    \* q <= casez (en) 1: d;  2: q;  default: q, and a register of two bits
    \* cleared by 1'h0 while it is set
    Net(<<In(2), In(1), Top(Reg(1, V(5, 1))), N("cat", 2, "", <<V(3, 1), V(2, 1)>>),
          Case(1, V(1, 2), V(4, 2), V(3, 1))>>),
    Net(<<In(1), Top(Reg(1, V(3, 1))), Ite(1, V(2, 1), K(0, 1), V(1, 1))>>),
    \* one-hot states that follow each other, held while nothing is on
    Net(<<In(1), Top(Reg(2, V(4, 2))), N("cat", 4, "", <<K(1, 2), K(2, 2)>>),
          Case(2, V(2, 2), V(3, 4), V(2, 2))>>),
    \* fields of several pieces: a whole register, pieces of two, a literal
    Net(<<In(2), Reg(2, V(5, 2)), Top(Reg(2, V(2, 2))),
          N("cat", 4, "", <<V(2, 2), V(3, 2)>>), Case(2, V(1, 2), V(4, 4), V(3, 2))>>) }

MCNets == OpNets \cup UNION {{[n EXCEPT !.regsel = i] : i \in {0} \cup {j \in DOMAIN n.node : n.node[j].k = "reg"}} : n \in RegNets}

ASSUME \A d \in MCNets : \A i \in DOMAIN d.node : ForwardWidths(d.node[i]) /\ RelevanceWidths(d.node[i])
=============================================================================
