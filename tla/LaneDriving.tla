----------------------------- MODULE LaneDriving -----------------------------
(***************************************************************************)
(* Executive::run and the ticks of lane driving: one thread that goes      *)
(* through the tasks whose period has passed.  Messages on the blackboard  *)
(* carry their age in units of time; Time lets a unit pass at any point of *)
(* the loop.  The camera and the detector process may deliver anything, or *)
(* nothing, at any of their ticks: an answer that was lost, delayed,       *)
(* repeated or kept waiting in the socket is among what YoloTick may read. *)
(***************************************************************************)
EXTENDS LaneTracking

CONSTANTS Period,         \* task -> period
          FrameTimeout, LaneTimeout, ObstacleTimeout,
          BehaviorTimeout, TrajectoryTimeout,
          Emergency,      \* emergency_stop_distance_m
          Distances,      \* the detector's answers, -1 for no obstacle
          Sights,         \* what frames may show
          MaxLag          \* bound on the time one round of the loop takes

\* A mutation of Order: the plan is made before the decision.
PlanFirst == <<"camera", "yolo", "perception", "planning", "decision", "control">>

Order == <<"camera", "yolo", "perception", "decision", "planning", "control">>
Tasks == {Order[i] : i \in DOMAIN Order}

ASSUME LaneDrivingAssumption ==
  /\ Period \in [Tasks -> Nat \ {0}]
  /\ {FrameTimeout, LaneTimeout, ObstacleTimeout, BehaviorTimeout,
      TrajectoryTimeout, MaxLag} \subseteq Nat \ {0}
  /\ Emergency \in Nat
  /\ Distances \subseteq Int
  /\ Sights \subseteq AllSights

VARIABLES
  running,     \* "running", "quitting" (running_ is false), "ended" (run returned)
  runRequest,  \* user_run_request_
  due,         \* the tasks this round of the loop still has to do
  since,       \* task -> time since its last mark
  lag,         \* time since the loop took its "now"
  frame, lane, obstacle, behavior, trajectory,   \* the blackboard
  tracking,    \* LaneDetectorCore
  latched,     \* emergency_stop_latched_
  planner,     \* LaneChangePlanner
  moving,      \* the command last sent has speed
  owed         \* what the operator must still press after an emergency (history)

board == <<frame, lane, obstacle, behavior, trajectory>>
vars == <<running, runRequest, due, since, lag, board, tracking, latched,
          planner, moving, owed>>

-----------------------------------------------------------------------------
(* Time and the scheduler *)

Fresh(m, timeout) == m.valid /\ m.age <= timeout
Older(m, timeout) == IF Fresh(m, timeout) THEN [m EXCEPT !.age = @ + 1] ELSE m

PlanLimit == LaneTimeout + TrajectoryTimeout
ReportLimit == ObstacleTimeout + BehaviorTimeout
OldestLane == FrameTimeout + LaneTimeout + 1

First(t) ==
  \E i \in DOMAIN Order :
    Order[i] = t /\ t \in due /\ \A j \in 1..(i - 1) : Order[j] \notin due

(* Where the time of a round goes: sleeping, sending and processing images, planning. *)
Takes == due = {} \/ First("perception") \/ First("decision") \/ First("control")

(* A unit of time passes.  Ages stop one beyond the limit anyone reads. *)
Time ==
  /\ running # "ended" /\ lag < MaxLag /\ Takes
  /\ lag' = lag + 1
  /\ since' = [t \in Tasks |-> IF since[t] < Period[t] THEN since[t] + 1 ELSE since[t]]
  /\ frame' = Older(frame, FrameTimeout)
  /\ lane' = Older(lane, LaneTimeout)
  /\ obstacle' = Older(obstacle, ReportLimit)
  /\ behavior' = Older(behavior, BehaviorTimeout)
  /\ trajectory' = Older(trajectory, TrajectoryTimeout)
  /\ UNCHANGED <<running, runRequest, due, tracking, latched, planner, moving, owed>>

Ready == {t \in Tasks : since[t] >= Period[t]}

(* A new round: the ready tasks are those ready now, and now marks them. *)
Round ==
  /\ running = "running" /\ due = {}
  /\ due' = Ready
  /\ since' = [t \in Tasks |-> IF t \in Ready THEN 0 ELSE since[t]]
  /\ lag' = 0
  /\ UNCHANGED <<running, runRequest, board, tracking, latched, planner, moving, owed>>

Turn(t) ==
  /\ First(t)
  /\ due' = due \ {t}
  /\ UNCHANGED <<running, runRequest, since, lag>>

(* The keyboard is read before the tasks of a round, more often than they  *)
(* are due.                                                                *)
Key(request) ==
  /\ running = "running" /\ due = {}
  /\ runRequest' = request
  /\ owed' = CASE owed = "stop" /\ ~request -> "run"
               [] owed = "run" /\ request -> "none"
               [] OTHER -> owed
  /\ UNCHANGED <<running, due, since, lag, board, tracking, latched, planner, moving>>

PressRun == Key(TRUE)
PressStop == Key(FALSE)

(* Q, and the rest of the round: its tasks still run. *)
PressQuit ==
  /\ running = "running" /\ due = {}
  /\ running' = "quitting" /\ runRequest' = FALSE
  /\ due' = Ready
  /\ since' = [t \in Tasks |-> IF t \in Ready THEN 0 ELSE since[t]]
  /\ lag' = 0
  /\ owed' = IF owed = "stop" THEN "run" ELSE owed
  /\ UNCHANGED <<board, tracking, latched, planner, moving>>

(* After the loop a neutral command is sent. *)
End ==
  /\ running = "quitting" /\ due = {}
  /\ running' = "ended" /\ moving' = FALSE
  /\ UNCHANGED <<runRequest, due, since, lag, board, tracking, latched, planner, owed>>

-----------------------------------------------------------------------------
(* The ticks *)

(* frame is the frame that perception has not processed yet, if any *)
NoFrame == [valid |-> FALSE, age |-> 0]

CameraTick ==
  /\ Turn("camera")
  /\ \/ frame' = [valid |-> TRUE, age |-> 0]
     \/ frame' = frame    \* grab fails
  /\ UNCHANGED <<lane, obstacle, behavior, trajectory, tracking, latched,
                 planner, moving, owed>>

(* receiveObstacle: one answer is read, if any is there that can be parsed, *)
(* and stamped with the time of reading.                                    *)
ReceiveObstacle ==
  \/ \E d \in Distances : obstacle' = [valid |-> TRUE, age |-> 0, distance |-> d]
  \/ obstacle' = obstacle

(* That a frame is sent out, and which, leaves nothing behind. *)
YoloTick ==
  /\ Turn("yolo")
  /\ ReceiveObstacle
  /\ UNCHANGED <<frame, lane, behavior, trajectory, tracking, latched, planner,
                 moving, owed>>

(* LanePerceptionModule::process: the lane keeps the frame's time of        *)
(* acquisition; without a lane the old one stays on the blackboard.        *)
PerceiveLane(s) ==
  /\ tracking' = ProcessFrame(tracking, s)
  /\ lane' = IF ValidLane(tracking, s)
              THEN [valid |-> TRUE, age |-> frame.age, lines |-> Found(tracking, s)]
              ELSE lane

PerceptionTick ==
  /\ Turn("perception")
  /\ \/ /\ Fresh(frame, FrameTimeout)
        /\ frame' = NoFrame
        /\ \E s \in Sights : PerceiveLane(s)
     \/ /\ ~Fresh(frame, FrameTimeout)
        /\ UNCHANGED <<frame, lane, tracking>>
  /\ UNCHANGED <<obstacle, behavior, trajectory, latched, planner, moving, owed>>

\* A mutation of HasObstacle: what is very near counts as noise.
HasFarObstacle == obstacle.distance > Emergency

HasObstacle == obstacle.distance > 0

Modes == {"STOP", "EMERGENCY_STOP", "KEEP_LANE", "AVOID_OBSTACLE"}
Stops(mode) == mode \in {"STOP", "EMERGENCY_STOP"}

(* MissionSupervisor::update, past the run request and the latch *)
\* A mutation of Alarm: an old report counts.
AlarmOnLane ==
  ~Fresh(lane, LaneTimeout) \/ (HasObstacle /\ obstacle.distance <= Emergency)

Alarm ==
  \/ ~Fresh(lane, LaneTimeout)
  \/ ~Fresh(obstacle, ObstacleTimeout)
  \/ HasObstacle /\ obstacle.distance <= Emergency

\* A mutation of Decision: the latch is not looked at.
DecisionUnlatched ==
  CASE ~runRequest -> "STOP"
    [] runRequest /\ Alarm -> "EMERGENCY_STOP"
    [] OTHER -> IF HasObstacle /\ obstacle.distance <= Trigger
                THEN "AVOID_OBSTACLE" ELSE "KEEP_LANE"

Decision ==
  CASE ~runRequest -> "STOP"
    [] runRequest /\ (latched \/ Alarm) -> "EMERGENCY_STOP"
    [] OTHER -> IF HasObstacle /\ obstacle.distance <= Trigger
                THEN "AVOID_OBSTACLE" ELSE "KEEP_LANE"

DecisionTick ==
  /\ Turn("decision")
  /\ behavior' = [valid |-> TRUE, age |-> 0, mode |-> Decision]
  /\ latched' = (Decision = "EMERGENCY_STOP")
  /\ owed' = IF Decision = "EMERGENCY_STOP" /\ ~latched THEN "stop" ELSE owed
  /\ UNCHANGED <<frame, lane, obstacle, trajectory, tracking, planner, moving>>

PlannerDistance ==
  IF behavior.mode = "AVOID_OBSTACLE" /\ obstacle.valid /\ HasObstacle
    THEN obstacle.distance ELSE -1

(* The plan keeps, for the record only, how old its lane was (seen). *)
Plan(course) ==
  [valid |-> course # "NONE", age |-> 0, mode |-> behavior.mode, course |-> course,
   seen |-> IF course \in {"NONE", "UNCHECKED"} THEN 0 ELSE lane.age]

(* LaneChangePlannerModule::process.  The plan for a stop is the lane       *)
(* itself, not checked for collisions.  The types of the lines are chosen  *)
(* here, where they are read.                                              *)
MakePlan ==
  \/ /\ ~lane.valid
     /\ planner' = planner /\ trajectory' = Plan("NONE")
  \/ /\ lane.valid /\ Stops(behavior.mode)
     /\ planner' = Reset(planner) /\ trajectory' = Plan("UNCHECKED")
  \/ /\ lane.valid /\ ~Stops(behavior.mode)
     /\ \E dashed \in SUBSET lane.lines :
        \E u \in Outcomes(planner, PlannerDistance, dashed) :
          planner' = u.planner /\ trajectory' = Plan(u.course)

(* The result is published in any case. *)
PlanningTick ==
  /\ Turn("planning")
  /\ MakePlan
  /\ UNCHANGED <<frame, lane, obstacle, behavior, tracking, latched, moving, owed>>

(* computeRawCommand: whether there is anything to drive along *)
Drivable == ~Stops(behavior.mode) /\ trajectory.valid

(* SafetyFilterModule::filter *)
StopRequired ==
  \/ ~Fresh(behavior, BehaviorTimeout)
  \/ Stops(behavior.mode)
  \/ ~Fresh(lane, LaneTimeout)
  \/ ~Fresh(trajectory, TrajectoryTimeout)

\* A mutation of ControlTick: nothing is sent when there is nothing to drive.
ControlTickSilent ==
  /\ Turn("control")
  /\ \E steered \in BOOLEAN :
       moving' = IF Drivable /\ ~StopRequired THEN steered ELSE moving
  /\ UNCHANGED <<board, tracking, latched, planner, owed>>

(* The controllers may fail, which gives a command without speed. *)
ControlTick ==
  /\ Turn("control")
  /\ \E steered \in BOOLEAN : moving' = (steered /\ Drivable /\ ~StopRequired)
  /\ UNCHANGED <<board, tracking, latched, planner, owed>>

-----------------------------------------------------------------------------
Init ==
  /\ running = "running" /\ runRequest = FALSE
  /\ due = {} /\ since = [t \in Tasks |-> 0] /\ lag = 0
  /\ frame = NoFrame
  /\ lane = [valid |-> FALSE, age |-> 0, lines |-> {}]
  /\ obstacle = [valid |-> FALSE, age |-> 0, distance |-> -1]
  /\ behavior = [valid |-> FALSE, age |-> 0, mode |-> "STOP"]
  /\ trajectory = [valid |-> FALSE, age |-> 0, mode |-> "KEEP_LANE", course |-> "NONE", seen |-> 0]
  /\ tracking = NoTracking /\ latched = FALSE /\ planner = Idle
  /\ moving = FALSE /\ owed = "none"

Loop ==
  \/ Round \/ End
  \/ CameraTick \/ YoloTick \/ PerceptionTick \/ DecisionTick \/ PlanningTick
  \/ ControlTick

Next == Time \/ Loop \/ PressRun \/ PressStop \/ PressQuit

Spec == Init /\ [][Next]_vars

(* The loop is a thread that is never blocked for good, and time passes.   *)
(* Nothing is assumed of the operator, the camera or the detector.         *)
FairSpec == Spec /\ WF_vars(Loop) /\ WF_vars(Time)

-----------------------------------------------------------------------------
(* Properties *)

LaneTypeOK ==
  /\ running \in {"running", "quitting", "ended"}
  /\ {runRequest, latched, moving} \subseteq BOOLEAN
  /\ due \subseteq Tasks /\ lag \in 0..MaxLag
  /\ \A t \in Tasks : since[t] \in 0..Period[t]
  /\ frame \in [valid : BOOLEAN, age : 0..(FrameTimeout + 1)]
  /\ lane \in [valid : BOOLEAN, age : 0..OldestLane, lines : SUBSET Sides]
  /\ obstacle \in [valid : BOOLEAN, age : 0..(ReportLimit + 1),
                   distance : Distances \cup {-1}]
  /\ behavior \in [valid : BOOLEAN, age : 0..(BehaviorTimeout + 1),
                   mode : Modes]
  /\ trajectory \in [valid : BOOLEAN, age : 0..(TrajectoryTimeout + 1),
                     mode : Modes, course : Sides \cup {"KEEP", "NONE", "UNCHECKED"},
                     seen : 0..OldestLane]
  /\ tracking \in [initialized : BOOLEAN, prev : SUBSET Sides]
  /\ planner \in Planners
  /\ owed \in {"none", "stop", "run"}

(* The biases look at the hold counter and the direction without asking for *)
(* the state: a counter that outlived its lane change would bend the next   *)
(* choice (evaluateCandidate, selectBestCandidate).                         *)
PlannerCoherent ==
  /\ planner.hold > 0 => Changing(planner)
  /\ Changing(planner) \/ planner.state = "FOLLOW_LANE" \/ planner.settle > 0
       => planner.direction # "NONE"

Drives == ControlTick /\ moving'

(* MissionSupervisor.cpp: "The operator must press S and then R before      *)
(* motion can resume after any emergency-stop condition."                   *)
MovesOnlyWhenCleared == [][Drives => owed = "none"]_vars

(* The plan for a stop is published as free of collisions without a check:  *)
(* no command with speed may follow it, nor any plan for another decision.  *)
DrivesPresentPlan ==
  [][Drives => trajectory.mode = behavior.mode /\ trajectory.course # "UNCHECKED"]_vars

(* Four ages are checked in four places; together they bound how old the    *)
(* frame behind the path and the obstacle report behind the decision are    *)
(* when a command with speed goes out.  The planning tick reads the clock   *)
(* again after the decision tick, and here no unit of time passes between   *)
(* the two: in the code the bound holds up to the moment between them.      *)
DrivesOnFreshData ==
  [][Drives => trajectory.seen + trajectory.age <= PlanLimit /\ obstacle.age <= ReportLimit]_vars

(* An obstacle at emergency distance is driven towards for no longer than   *)
(* the next decision takes, also when rounds of the loop are late.          *)
EmergencyHeeded ==
  [][Drives /\ obstacle.valid /\ obstacle.distance \in 1..Emergency
       => obstacle.age < Period["decision"] + MaxLag]_vars

(* LaneChangePlanner.cpp: "Once the vehicle starts crossing a dashed line,  *)
(* a temporary detector dropout must not make it steer abruptly back into   *)
(* the original lane."                                                      *)
CourseKept ==
  [][PlanningTick /\ lane.valid /\ ~Stops(behavior.mode) /\ PlannerDistance = -1
       /\ Changing(planner) /\ planner.hold > 1
       => trajectory'.course = planner.direction]_vars

(* A change to the other side waits until this one has ended and settled,   *)
(* or until a stop.                                                         *)
NoSwerveBack ==
  [][planner.direction # "NONE" /\ planner'.direction = Opposite(planner.direction)
       => planner.state # "CHANGE_USING_DASHED" /\ planner.settle <= 1]_vars

(* LaneDetectorCore.cpp: if one line is lost, the other is kept, "but both  *)
(* lines are no longer tracked" (translated): the search over the whole     *)
(* image resumes.                                                           *)
LostLineEndsTracking ==
  [][PerceptionTick /\ CanTrack(tracking) /\ lane.lines = Sides /\ lane'.lines # Sides
       => ~CanTrack(tracking')]_vars

(* S stops the car, whatever the camera and the detector do.                *)
StopObeyed == ~runRequest ~> (~moving \/ runRequest)

(* best_AI.py: no packet is sent after an inference failure, "The C++       *)
(* obstacle timeout will stop the vehicle."                                 *)
SilenceStops == <>[][obstacle'.age >= obstacle.age]_vars => <>[]~moving
=============================================================================
