-------------------------------- MODULE MCSeq --------------------------------
(***************************************************************************)
(* SeqSchedule started from allowed_target.txt: register a with two        *)
(* delays, c with none of its own, a vector of b and c, and an instruction *)
(* with a delay exception for c.  The process may be killed once and rerun *)
(* over its artefacts, which it does not overwrite.                        *)
(***************************************************************************)
EXTENDS SeqSchedule, TLC

CONSTANTS a, b, c, d, s, bc

Live(i, t, n) == CASE t = a /\ n = 1          -> {a, b}
                   [] i = 1 /\ t = a /\ n = 2 -> {c, d, s}
                   [] t = bc                  -> {b}
                   [] i = 2 /\ t = c          -> {a}
                   [] OTHER                   -> {}

MCUpdateFn == [j \in Job |-> [live |-> Live(j[1], j[2][1], j[2][2]), kept |-> TRUE]]
MCFileBase == [t \in Targets |-> t]
MCAllowed  == [t \in {a, c} |-> IF t = a THEN <<2, 1>> ELSE <<>>]
MCAllowedVecs == <<bc>>
MCVecRegs  == [w \in Vecs |-> {b, c}]
MCVecDelay == [w \in Vecs |-> 2]
MCInstrDelay == [i \in Instr |-> 1]
MCDelayException == [i \in Instr |-> [t \in IF i = 1 THEN {c} ELSE {} |-> 2]]
=============================================================================
