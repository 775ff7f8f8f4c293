--------------------------- MODULE TrajectoryLease ---------------------------
(***************************************************************************)
(* What the parking server promises the vehicle about trajectories, with   *)
(* nothing of how it plans: at most one trajectory is out at a time, ids   *)
(* only grow, a trajectory that was put on hold is never driven again, and *)
(* one that was finished is only ever withdrawn.                           *)
(***************************************************************************)
EXTENDS Naturals

VARIABLES
    lease,      \* what may be done with the trajectory that is out
    id,         \* its id, 0 when none is out
    last        \* the greatest id ever out

vars == <<lease, id, last>>

Leases == {"none", "offered", "running", "held", "done"}

Init == lease = "none" /\ id = 0 /\ last = 0

Offer == /\ lease = "none"
         /\ id' \in Nat /\ id' > last
         /\ last' = id'
         /\ lease' = "offered"

Run == /\ lease \in {"offered", "running"} /\ lease' = "running"
       /\ UNCHANGED <<id, last>>

Hold == /\ lease \in {"offered", "running", "held"} /\ lease' = "held"
        /\ UNCHANGED <<id, last>>

Finish == /\ lease \in {"offered", "running"} /\ lease' = "done"
          /\ UNCHANGED <<id, last>>

Withdraw == /\ lease # "none" /\ lease' = "none"
            /\ id' = 0
            /\ UNCHANGED last

Next == Offer \/ Run \/ Hold \/ Finish \/ Withdraw

Spec == Init /\ [][Next]_vars
=============================================================================
