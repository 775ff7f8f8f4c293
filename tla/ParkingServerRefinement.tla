----------------------- MODULE ParkingServerRefinement -----------------------
(***************************************************************************)
(* A server with one connection at a time implements TrajectoryLease.  An  *)
(* id is out from the step that announces it, so the one a handler has     *)
(* drawn and not announced does not count yet.                             *)
(***************************************************************************)
EXTENDS ParkingServer

LeaseOf(state) ==
    CASE state = "TRAJECTORY_READY" -> "offered"
      [] state = "EXECUTING" -> "running"
      [] state = "PAUSED" -> "held"
      [] state = "COMPLETED" -> "done"
      [] OTHER -> "none"

LastAnnounced == IF \E h \in Handlers : Announcing(h) THEN issued - 1 ELSE issued

Lease == INSTANCE TrajectoryLease WITH
            lease <- LeaseOf(session.state),
            id <- session.active,
            last <- LastAnnounced

\* Every step of the server is a step the lease allows, or none: in particular
\* no message, in any order, takes a paused trajectory back to execution, and a
\* new one is announced only when the old one has been withdrawn.
ImplementsLease == Lease!Spec
=============================================================================
