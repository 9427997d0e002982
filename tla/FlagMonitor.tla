----------------------------- MODULE FlagMonitor ----------------------------
(***************************************************************************)
(* What the two flags of a register are to tell, per register: nothing yet *)
(* ("idle"), its old value was used before anything tainted was written    *)
(* ("read": architectural state), or it was overwritten first ("written":  *)
(* not architectural state in this instruction).  The verdict stands until *)
(* the next reset.                                                         *)
(***************************************************************************)
VARIABLE status

Verdicts == {"idle", "read", "written"}

Init  == status = [q \in DOMAIN status |-> "idle"]

Reset == status' = [q \in DOMAIN status |-> "idle"]
Observe ==
  /\ DOMAIN status' = DOMAIN status
  /\ \A q \in DOMAIN status :
       /\ status'[q] \in Verdicts
       /\ status[q] # "idle" => status'[q] = status[q]

Next == Reset \/ Observe
Spec == Init /\ [][Next]_status
=============================================================================
