----------------------------- MODULE MCParRounds -----------------------------
(***************************************************************************)
(* ParSchedule with targets from the outputs: two outputs, one of a FIFO,  *)
(* one instruction that reaches a further register and one that reaches a  *)
(* skipped output.                                                         *)
(***************************************************************************)
EXTENDS ParSchedule, TLC

CONSTANTS a, b, c, s

Live(i, t) == CASE i = 1 /\ t = a -> {a, b}
                [] i = 2 /\ t = a -> {s}
                [] i = 2 /\ t = b -> {c}
                [] OTHER          -> {}

MCUpdateFn == [j \in Job |-> [live |-> Live(j[1], j[2][1]), kept |-> TRUE]]
MCFileBase == [t \in Targets |-> t]
MCAllowed  == [t \in {} |-> <<>>]
MCAllowedVecs == <<>>
MCVecRegs  == [v \in Vecs |-> {}]
MCVecDelay == [v \in Vecs |-> 1]
MCInstrDelay == [i \in Instr |-> 1]
MCDelayException == [i \in Instr |-> MCAllowed]
=============================================================================
