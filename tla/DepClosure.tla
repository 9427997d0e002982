----------------------------- MODULE DepClosure -----------------------------
(***************************************************************************)
(* What get_all_update promises, whatever the schedule: starting from the  *)
(* given targets it works on every register their update functions depend  *)
(* on, and on nothing else.  "known" are the registers found so far,       *)
(* "done" those it is finished with.  "degraded" says that some update     *)
(* function was not this run's own (a failed opt, a broken or a stale      *)
(* artefact, a race): nothing is promised from then on.                    *)
(***************************************************************************)
CONSTANTS
  Asvs, Vecs,      \* single registers, vectors of registers
  Dep(_),          \* what a target's update functions depend on
  Covers(_),       \* the registers of a vector
  StartFrom        \* the first targets

VARIABLES known, done, degraded

cvars == <<known, done, degraded>>

CInit == known = StartFrom /\ done = {} /\ degraded = FALSE

Eligible(t) == t \in (known \ done) \cup Vecs

Discover(r) ==
  /\ degraded \/ \E t \in Asvs \cup Vecs : Eligible(t) /\ r \in Dep(t)
  /\ known' = known \cup {r}
  /\ UNCHANGED <<done, degraded>>

(* A register is finished with when all it depends on is known, or when a  *)
(* vector of which that holds covers it.                                   *)
Finished(t) ==
  \/ t \in known /\ Dep(t) \subseteq known
  \/ \E v \in Vecs : t \in Covers(v) /\ Dep(v) \subseteq known

Complete(T) ==
  /\ \A t \in T : degraded \/ Finished(t)
  /\ done' = done \cup T
  /\ known' = known \cup T
  /\ UNCHANGED degraded

Degrade == degraded' = TRUE /\ UNCHANGED <<known, done>>

(* Killed and run again from the start.                                    *)
Restart == known' = StartFrom /\ done' = {} /\ degraded' = FALSE

CNext == \/ \E r \in Asvs : Discover(r)
         \/ \E T \in SUBSET Asvs : Complete(T)
         \/ Degrade \/ Restart

CSpec == CInit /\ [][CNext]_cvars
=============================================================================
