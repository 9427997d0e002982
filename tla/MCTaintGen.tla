----------------------------- MODULE MCTaintGen -----------------------------
(***************************************************************************)
(* A module used by two others of which one uses the other; as many        *)
(* registers as three bits name; two variables, one of them an output of   *)
(* the inner modules, and four readings in each module.                    *)
(***************************************************************************)
EXTENDS TaintGen

CONSTANTS top, mid, cell, x, y

MCModules == {top, mid, cell}
MCVars    == {x, y}
MCChild   == [m \in MCModules |-> CASE m = top -> {mid, cell} [] m = mid -> {cell} [] m = cell -> {}]
MCRegs    == [m \in MCModules |-> CASE m = top -> {"a", "b"} [] m = mid -> {"c"} [] m = cell -> {"d", "e"}]
MCOuts    == [m \in MCModules |-> IF m = top THEN {} ELSE {y}]
MCWidth   == [v \in MCVars |-> IF v = x THEN 3 ELSE 1]
=============================================================================
