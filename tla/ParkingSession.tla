--------------------------- MODULE ParkingSession ---------------------------
(***************************************************************************)
(* The session state machine of server_v1/parking_session_v1.py.  Every    *)
(* method of the class runs under the session's RLock, so each is one      *)
(* operator from a session record to a session record.                     *)
(*                                                                         *)
(* Left out: _session_id, _reason, _transition_seq, _replan_count and      *)
(* _last_target_slot, which the server only reports and never reads back.  *)
(***************************************************************************)
EXTENDS Naturals

CONSTANTS
    Slots,      \* the parking slots of the map
    NoSlot      \* Python's None, for a slot

ASSUME NoSlotAssumption == NoSlot \notin Slots

SessionStates == {"IDLE", "WAITING_INPUT", "PLANNING", "TRAJECTORY_READY",
                  "EXECUTING", "PAUSED", "REPLAN", "COMPLETED"}

\* Trajectory ids are positive: 0 stands for None.
NoTid == 0

Session == [state   : SessionStates,
            active  : Nat,              \* _active_trajectory_id
            target  : Slots \cup {NoSlot},
            pending : BOOLEAN,          \* _replan_pending
            pause   : BOOLEAN]          \* _pause_reason is not None

InitSession == [state |-> "IDLE", active |-> NoTid, target |-> NoSlot,
                pending |-> FALSE, pause |-> FALSE]

NewSession(s) == [InitSession EXCEPT !.state = "WAITING_INPUT"]

Started(s) == IF s.state = "IDLE" THEN NewSession(s) ELSE s

\* Every caller of set_waiting passes replan_pending=True.
Waiting(s) == [Started(s) EXCEPT !.state = "WAITING_INPUT", !.pending = TRUE]

StartPlanning(s) == [Started(s) EXCEPT !.state = "PLANNING"]

TrajectoryReady(s, tid, slot) ==
    [state |-> "TRAJECTORY_READY", active |-> tid, target |-> slot,
     pending |-> FALSE, pause |-> FALSE]

\* _match_active_locked and active_matches agree on the ids a message carries.
Matches(s, tid) == s.active # NoTid /\ tid = s.active

Running(s) == s.state \in {"TRAJECTORY_READY", "EXECUTING"}

\* mark_received only answers; it moves nothing.
CanReceive(s, tid) == Matches(s, tid) /\ Running(s)

\* A mutation of Executing: without the check of the state.
ExecutingAnyway(s, tid) ==
    IF Matches(s, tid) THEN [s EXCEPT !.state = "EXECUTING"] ELSE s

Executing(s, tid) ==
    IF Matches(s, tid) /\ Running(s) THEN [s EXCEPT !.state = "EXECUTING"] ELSE s

Completed(s, tid) ==
    IF Matches(s, tid) /\ Running(s)
    THEN [s EXCEPT !.state = "COMPLETED", !.pending = FALSE, !.pause = FALSE]
    ELSE s

\* mark_paused without a trajectory id skips the match.
CanPause(s, tid) == /\ tid # NoTid => Matches(s, tid)
                    /\ Running(s) \/ s.state = "PAUSED"

Paused(s, tid, replanPending) ==
    IF CanPause(s, tid)
    THEN [s EXCEPT !.state = "PAUSED", !.pause = TRUE,
                   !.pending = @ \/ replanPending]
    ELSE s

\* Mutations of Replan: the pause reason, or the target, is left behind.
ReplanKeepsPause(s) == [InitSession EXCEPT !.state = "REPLAN", !.pending = TRUE,
                                           !.pause = s.pause]
ReplanKeepsTarget(s) == [InitSession EXCEPT !.state = "REPLAN", !.pending = TRUE,
                                            !.target = s.target]

\* request_replan overwrites all five fields, whatever the state was (a session
\* that was IDLE is started first).
Replan(s) == [InitSession EXCEPT !.state = "REPLAN", !.pending = TRUE]

\* A mutation of CanClearSafety: not while a replan is pending.
CanClearUnlessPending(s) == s.state = "PAUSED" /\ ~s.pending

CanClearSafety(s) == s.state = "PAUSED"

SafetyCleared(s) == IF CanClearSafety(s) THEN Replan(s) ELSE s

\* A mutation of InvalidTargetReplans: only a trajectory under way is dropped.
ExecutingTargetReplans(s) == s.target # NoSlot /\ s.state = "EXECUTING"

\* target_became_invalid answers "REPLAN" when the trajectory was dropped.
InvalidTargetReplans(s) == s.target # NoSlot /\ s.state # "PAUSED"

TargetInvalid(s) ==
    IF InvalidTargetReplans(s) THEN Replan(s)
    ELSE IF s.target = NoSlot THEN s
    ELSE [s EXCEPT !.pending = TRUE]          \* "DEFERRED_WHILE_PAUSED"
=============================================================================
