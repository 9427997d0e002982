----------------------------- MODULE MCParRerun ------------------------------
(***************************************************************************)
(* ParSchedule started from allowed_target.txt: register a with two        *)
(* delays, a vector of b and c, one instruction.  opt may fail; the        *)
(* process may be killed once and rerun over its artefacts, which it does  *)
(* not overwrite.                                                          *)
(***************************************************************************)
EXTENDS ParSchedule, TLC

CONSTANTS a, b, c, bc

Live(t, d) == CASE t = a /\ d = 1 -> {b}
                [] t = bc         -> {b}
                [] OTHER          -> {}

MCUpdateFn == [j \in Job |-> [live |-> Live(j[2][1], j[2][2]), kept |-> TRUE]]
MCFileBase == [t \in Targets |-> t]
MCAllowed  == [t \in {a} |-> <<2, 1>>]
MCAllowedVecs == <<bc>>
MCVecRegs  == [w \in Vecs |-> {b, c}]
MCVecDelay == [w \in Vecs |-> 2]
MCInstrDelay == [i \in Instr |-> 1]
MCDelayException == [i \in Instr |-> [t \in {} |-> 1]]
=============================================================================
