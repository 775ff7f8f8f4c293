-------------------------- MODULE LaneChangePlanner --------------------------
(***************************************************************************)
(* LaneChangePlanner::update and the members it keeps between calls, as    *)
(* operators on a record.  A candidate is a target lane and a duration;    *)
(* the simulation of a candidate against the obstacle is reduced to the    *)
(* distance from which it passes, and its cost to the part that does not   *)
(* depend on the obstacle (the other parts vanish for a candidate that     *)
(* passes).  Distances are decimetres, costs are tenths.                   *)
(***************************************************************************)
EXTENDS Integers

CONSTANTS Durations,     \* the durations of T_SET the steering limit permits
          PassesFrom,    \* duration -> shortest obstacle distance at which it passes
          ChangeCost,    \* duration -> cost of a change that passes
          Trigger,       \* trigger_distance_
          HoldFrames,    \* hold_frames_
          SettleFrames   \* settle_frames_

Sides == {"LEFT", "RIGHT"}
Opposite(side) == IF side = "LEFT" THEN "RIGHT" ELSE "LEFT"

(* The biases and the slack of selectBestCandidate, in tenths. *)
StayBias == -70
LeaveBias == 120
ReverseBias == 70
LatchSlack == 120
CollisionCost == 10000000

ASSUME PlannerAssumption ==
  /\ Durations \subseteq Nat \ {0}
  /\ PassesFrom \in [Durations -> Nat]
  /\ ChangeCost \in [Durations -> Nat]
  /\ Trigger \in Nat
  /\ HoldFrames \in Nat \ {0}
  /\ SettleFrames \in Nat

(* At 0.15 m/s a permitted change costs its curvature, at most 1.85, a quarter *)
(* of its duration, at most 2.5, and a jerk of hundredths: giving one up is  *)
(* always dearer than carrying it on.                                        *)
ASSUME TuningAssumption == \A t \in Durations : ChangeCost[t] < LeaveBias - StayBias

Planners == [state : {"KEEP_LANE", "CHANGE_USING_DASHED", "FOLLOW_LANE"},
             direction : Sides \cup {"NONE"},
             hold : 0..HoldFrames, settle : 0..SettleFrames]

Idle == [state |-> "KEEP_LANE", direction |-> "NONE", hold |-> 0, settle |-> 0]

\* A mutation of Reset: the counters run on.
ResetKeepsCounters(p) == [p EXCEPT !.state = "KEEP_LANE", !.direction = "NONE"]
Reset(p) == Idle

Changing(p) == p.state = "CHANGE_USING_DASHED"
Committed(p) == Changing(p) /\ p.hold > 0 /\ p.direction # "NONE"

\* A mutation of Less: counters run on below zero.
LessUnchecked(n) == n - 1
Less(n) == IF n > 0 THEN n - 1 ELSE 0
CountDown(p) == [p EXCEPT !.hold = Less(@), !.settle = Less(@)]

(* buildStaticObstacle: a distance that stands for no obstacle is not one. *)
Blocks(distance) == distance > 0

(* canChangeLeft, canChangeRight: no obstacle (-1) is nearer than any trigger *)
CanChange(side, distance, dashed) == distance <= Trigger /\ side \in dashed

\* Mutations of Allowed: a change under way is not carried on without the line
\* and the obstacle; the other side is not barred.
AllowedAnew(p, distance, dashed) ==
  {side \in Sides :
     /\ CanChange(side, distance, dashed)
     /\ ~(p.direction = Opposite(side) /\ (Changing(p) \/ p.settle > 0))}
AllowedBoth(p, distance, dashed) ==
  {side \in Sides :
     CanChange(side, distance, dashed) \/ (Committed(p) /\ p.direction = side)}

Allowed(p, distance, dashed) ==
  {side \in Sides :
     /\ CanChange(side, distance, dashed) \/ (Committed(p) /\ p.direction = side)
     /\ ~(p.direction = Opposite(side) /\ (Changing(p) \/ p.settle > 0))}

Keep == [lane |-> "KEEP", time |-> 0]
Candidates(allowed) == {Keep} \cup [lane : allowed, time : Durations]

(* The obstacle stands in the lane: whoever keeps the lane runs into it. *)
Collides(c, distance) ==
  Blocks(distance) /\ (c = Keep \/ distance < PassesFrom[c.time])

Bias(p, lane) ==
  CASE p.hold = 0 \/ p.direction = "NONE" -> 0
    [] lane = p.direction -> StayBias
    [] lane = "KEEP" -> LeaveBias
    [] OTHER -> ReverseBias

Cost(p, c, distance) ==
  IF Collides(c, distance) THEN CollisionCost
  ELSE (IF c = Keep THEN 0 ELSE ChangeCost[c.time]) + Bias(p, c.lane)

(* The order in which the candidates are generated decides between equals. *)
Before(c, d) ==
  \/ c = Keep
  \/ c.lane = "LEFT" /\ d.lane = "RIGHT"
  \/ c.lane = d.lane /\ c.time <= d.time

IsBest(p, c, cs, distance) ==
  \A d \in cs : \/ Cost(p, c, distance) < Cost(p, d, distance)
                \/ Cost(p, c, distance) = Cost(p, d, distance) /\ Before(c, d)

(* The last candidate in the committed direction, if there is one *)
IsLatched(p, c, cs) ==
  /\ p.hold > 0 /\ c.lane = p.direction
  /\ \A d \in cs : d.lane = c.lane => d.time <= c.time

(* It is preferred to the best unless it is much dearer. *)
Selected(p, c, cs, distance) ==
  \E best \in cs :
    /\ IsBest(p, best, cs, distance)
    /\ LET kept == {d \in cs : /\ IsLatched(p, d, cs)
                               /\ Cost(p, d, distance) <= Cost(p, best, distance) + LatchSlack}
       IN  IF kept = {} THEN c = best ELSE c \in kept

UpdatePlannerState(p, lane) ==
  IF lane = "KEEP"
  THEN CASE Changing(p) /\ p.hold > 0 -> p
         [] Changing(p) /\ p.hold = 0 ->
              [p EXCEPT !.state = "FOLLOW_LANE", !.settle = SettleFrames]
         [] OTHER -> [p EXCEPT !.state = "KEEP_LANE",
                               !.direction = IF p.settle = 0 THEN "NONE" ELSE @]
  ELSE [p EXCEPT !.state = "CHANGE_USING_DASHED", !.direction = lane,
                 !.hold = IF Changing(p) /\ p.direction = lane THEN @ ELSE HoldFrames]

(* update: what comes of a call, the planner after it and the lane it   *)
(* steers for; "NONE" when every candidate collides and the path is empty. *)
Outcome(p, c, distance) ==
  IF Collides(c, distance)
    THEN [planner |-> p, course |-> "NONE"]
    ELSE [planner |-> UpdatePlannerState(p, c.lane), course |-> c.lane]

Outcomes(p, distance, dashed) ==
  LET q == CountDown(p)
      cs == Candidates(Allowed(q, distance, dashed))
  IN  {Outcome(q, c, distance) : c \in {c \in cs : Selected(q, c, cs, distance)}}
=============================================================================
