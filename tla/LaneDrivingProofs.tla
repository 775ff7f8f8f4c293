--------------------------- MODULE LaneDrivingProofs ---------------------------
(***************************************************************************)
(* Theorems about lane driving, for any periods and timeouts, any answers  *)
(* of the detector, anything frames may show, and any tuning of the lane   *)
(* change planner.                                                         *)
(***************************************************************************)
EXTENDS LaneDriving, TLAPS

Frames == [valid : BOOLEAN, age : 0..(FrameTimeout + 1)]
Lanes == [valid : BOOLEAN, age : 0..OldestLane, lines : SUBSET Sides]
Reports == [valid : BOOLEAN, age : 0..(ReportLimit + 1), distance : Distances \cup {-1}]
Behaviors == [valid : BOOLEAN, age : 0..(BehaviorTimeout + 1), mode : Modes]
Courses == Sides \cup {"KEEP", "NONE", "UNCHECKED"}
Trajectories == [valid : BOOLEAN, age : 0..(TrajectoryTimeout + 1), mode : Modes,
                 course : Courses, seen : 0..OldestLane]
Trackings == [initialized : BOOLEAN, prev : SUBSET Sides]

-----------------------------------------------------------------------------
\* The order of the tasks, as the provers can use it.
LEMMA OrderFacts ==
    /\ Tasks = {"camera", "yolo", "perception", "decision", "planning", "control"}
    /\ First("yolo") => "camera" \notin due
    /\ First("perception") => "camera" \notin due /\ "yolo" \notin due
    /\ First("decision") =>
         "camera" \notin due /\ "yolo" \notin due /\ "perception" \notin due
    /\ First("planning") =>
         "camera" \notin due /\ "yolo" \notin due /\ "perception" \notin due /\ "decision" \notin due
    /\ First("control") =>
         /\ "camera" \notin due /\ "yolo" \notin due /\ "perception" \notin due
         /\ "decision" \notin due /\ "planning" \notin due
    /\ \A t \in Tasks : First(t) => t \in due
<1>1. DOMAIN Order = 1..6
  BY DEF Order
<1>2. /\ Order[1] = "camera" /\ Order[2] = "yolo" /\ Order[3] = "perception"
      /\ Order[4] = "decision" /\ Order[5] = "planning" /\ Order[6] = "control"
  BY DEF Order
<1>3. \A i \in 1..6 : i = 1 \/ i = 2 \/ i = 3 \/ i = 4 \/ i = 5 \/ i = 6
  OBVIOUS
<1> HIDE DEF Order
<1>4. Tasks = {"camera", "yolo", "perception", "decision", "planning", "control"}
  BY <1>1, <1>2, <1>3 DEF Tasks
<1>5. \A t : First(t) => t \in due
  BY DEF First
<1>6. ASSUME NEW n \in 1..6, First(Order[n]) PROVE \A j \in 1..(n - 1) : Order[j] \notin due
  <2>1. PICK i \in 1..6 : Order[i] = Order[n] /\ \A j \in 1..(i - 1) : Order[j] \notin due
    BY <1>1, <1>6 DEF First
  <2>2. i = n
    BY <1>2, <1>3, <2>1
  <2> QED BY <2>1, <2>2
<1>7. First(Order[2]) => Order[1] \notin due
  BY <1>6
<1>8. First(Order[3]) => Order[1] \notin due /\ Order[2] \notin due
  BY <1>6
<1>9. First(Order[4]) => Order[1] \notin due /\ Order[2] \notin due /\ Order[3] \notin due
  BY <1>6
<1>10. First(Order[5]) => /\ Order[1] \notin due /\ Order[2] \notin due
                          /\ Order[3] \notin due /\ Order[4] \notin due
  BY <1>6
<1>11. First(Order[6]) => /\ Order[1] \notin due /\ Order[2] \notin due /\ Order[3] \notin due
                          /\ Order[4] \notin due /\ Order[5] \notin due
  BY <1>6
<1> QED BY <1>2, <1>4, <1>5, <1>7, <1>8, <1>9, <1>10, <1>11

\* The candidate a call of the planner settles on, and what comes of it.
LEMMA OutcomeFacts ==
    ASSUME NEW p \in Planners, NEW distance, NEW dashed, NEW u \in Outcomes(p, distance, dashed)
    PROVE  \E c \in Candidates(Allowed(CountDown(p), distance, dashed)) :
             u = Outcome(CountDown(p), c, distance)
BY DEF Outcomes

LEMMA CandidateLanes ==
    ASSUME NEW allowed \in SUBSET Sides, NEW c \in Candidates(allowed)
    PROVE  c.lane \in allowed \cup {"KEEP"}
BY DEF Candidates, Keep

LEMMA CountDownType ==
    ASSUME NEW p \in Planners
    PROVE  /\ CountDown(p) \in Planners
           /\ CountDown(p).state = p.state /\ CountDown(p).direction = p.direction
           /\ CountDown(p).hold = (IF p.hold > 0 THEN p.hold - 1 ELSE 0)
           /\ CountDown(p).settle = (IF p.settle > 0 THEN p.settle - 1 ELSE 0)
<1>1. /\ p.hold \in 0..HoldFrames /\ p.settle \in 0..SettleFrames
      /\ HoldFrames \in Nat /\ SettleFrames \in Nat
  BY PlannerAssumption DEF Planners
<1>2. /\ Less(p.hold) \in 0..HoldFrames /\ Less(p.settle) \in 0..SettleFrames
      /\ Less(p.hold) = (IF p.hold > 0 THEN p.hold - 1 ELSE 0)
      /\ Less(p.settle) = (IF p.settle > 0 THEN p.settle - 1 ELSE 0)
  BY <1>1 DEF Less
<1>3. CountDown(p) = [p EXCEPT !.hold = Less(p.hold), !.settle = Less(p.settle)]
  BY DEF CountDown
<1> QED BY <1>2, <1>3 DEF Planners

\* PlannerCoherent, of any record.
Coherent(p) ==
    /\ p.hold > 0 => Changing(p)
    /\ Changing(p) \/ p.state = "FOLLOW_LANE" \/ p.settle > 0 => p.direction # "NONE"

LEMMA UpdateType ==
    ASSUME NEW p \in Planners, NEW lane1 \in Sides \cup {"KEEP"}
    PROVE  UpdatePlannerState(p, lane1) \in Planners
<1>1. HoldFrames \in 0..HoldFrames /\ SettleFrames \in 0..SettleFrames
  BY PlannerAssumption
<1>2. CASE lane1 = "KEEP"
  BY <1>1, <1>2 DEF UpdatePlannerState, Planners
<1>3. CASE lane1 # "KEEP"
  BY <1>1, <1>3 DEF UpdatePlannerState, Planners
<1> QED BY <1>2, <1>3

LEMMA UpdateCoherent ==
    ASSUME NEW p \in Planners, Coherent(p), NEW lane1 \in Sides \cup {"KEEP"}
    PROVE  Coherent(UpdatePlannerState(p, lane1))
<1>1. /\ p.hold \in Nat /\ p.settle \in Nat
      /\ p.state \in {"KEEP_LANE", "CHANGE_USING_DASHED", "FOLLOW_LANE"}
  BY PlannerAssumption DEF Planners
<1>2. CASE lane1 = "KEEP"
  BY <1>1, <1>2 DEF UpdatePlannerState, Planners, Coherent, Changing
<1>3. CASE lane1 # "KEEP"
  BY <1>1, <1>3 DEF UpdatePlannerState, Planners, Coherent, Changing, Sides
<1> QED BY <1>2, <1>3

\* A call of the planner: types, coherence, and no swerve to the other side.
LEMMA OutcomesSafe ==
    ASSUME NEW p \in Planners, Coherent(p), NEW distance, NEW dashed,
           NEW u \in Outcomes(p, distance, dashed)
    PROVE  /\ u.planner \in Planners /\ Coherent(u.planner)
           /\ u.course \in Sides \cup {"KEEP", "NONE"}
           /\ p.direction # "NONE" /\ u.planner.direction = Opposite(p.direction)
                => p.state # "CHANGE_USING_DASHED" /\ p.settle <= 1
<1> DEFINE q == CountDown(p)
           allowed == Allowed(q, distance, dashed)
<1>1. PICK c \in Candidates(allowed) : u = Outcome(q, c, distance)
  BY OutcomeFacts
<1>2. allowed \in SUBSET Sides
  BY DEF Allowed
<1>3. c.lane \in allowed \cup {"KEEP"} /\ c.lane \in Sides \cup {"KEEP"}
  BY <1>1, <1>2, CandidateLanes
<1>4. /\ q \in Planners /\ q.state = p.state /\ q.direction = p.direction
      /\ q.hold = (IF p.hold > 0 THEN p.hold - 1 ELSE 0)
      /\ q.settle = (IF p.settle > 0 THEN p.settle - 1 ELSE 0)
  BY CountDownType
<1>5. p.hold \in Nat /\ p.settle \in Nat
  BY PlannerAssumption DEF Planners
<1>6. Coherent(q)
  BY <1>4, <1>5 DEF Coherent, Changing
<1> HIDE DEF q, allowed
<1>7. CASE Collides(c, distance)
  <2>1. u.planner = q /\ u.course = "NONE"
    BY <1>1, <1>7 DEF Outcome
  <2>2. Opposite(p.direction) # p.direction
    BY DEF Opposite
  <2> QED BY <1>4, <1>6, <2>1, <2>2
<1>8. CASE ~Collides(c, distance)
  <2>1. u.planner = UpdatePlannerState(q, c.lane) /\ u.course = c.lane
    BY <1>1, <1>8 DEF Outcome
  <2>2. u.planner \in Planners /\ Coherent(u.planner)
    BY <1>3, <1>4, <1>6, <2>1, UpdateType, UpdateCoherent
  <2>3. ASSUME p.direction # "NONE", u.planner.direction = Opposite(p.direction)
        PROVE  p.state # "CHANGE_USING_DASHED" /\ p.settle <= 1
    <3>1. p.direction \in Sides /\ Opposite(p.direction) \in Sides
          /\ Opposite(p.direction) # p.direction /\ Opposite(p.direction) # "NONE"
          /\ Opposite(p.direction) # "KEEP" /\ Opposite(Opposite(p.direction)) = p.direction
      BY <2>3 DEF Planners, Opposite, Sides
    <3>2. c.lane = Opposite(p.direction)
      <4>1. CASE c.lane = "KEEP"
        <5>1. u.planner.direction \in {q.direction, "NONE"}
          BY <1>4, <2>1, <4>1 DEF UpdatePlannerState, Planners
        <5> QED BY <1>4, <2>3, <3>1, <5>1
      <4>2. CASE c.lane # "KEEP"
        BY <1>4, <2>1, <2>3, <4>2 DEF UpdatePlannerState, Planners
      <4> QED BY <4>1, <4>2
    <3>3. Opposite(p.direction) \in allowed
      BY <1>3, <3>1, <3>2
    <3>4. ~(Changing(q) \/ q.settle > 0)
      BY <1>4, <3>1, <3>3 DEF Allowed, allowed
    <3> QED BY <1>4, <1>5, <3>4 DEF Changing
  <2> QED BY <1>3, <2>1, <2>2, <2>3
<1> QED BY <1>7, <1>8

-----------------------------------------------------------------------------
\* Ageing a message keeps its type.
LEMMA TimeTypes ==
    ASSUME LaneTypeOK, Time
    PROVE  /\ frame' \in Frames /\ lane' \in Lanes /\ obstacle' \in Reports
           /\ behavior' \in Behaviors /\ trajectory' \in Trajectories
<1>1. /\ FrameTimeout \in Nat /\ LaneTimeout \in Nat /\ ObstacleTimeout \in Nat
      /\ BehaviorTimeout \in Nat /\ TrajectoryTimeout \in Nat /\ ReportLimit \in Nat
  BY LaneDrivingAssumption DEF ReportLimit
<1>2. /\ frame \in Frames /\ lane \in Lanes /\ obstacle \in Reports
      /\ behavior \in Behaviors /\ trajectory \in Trajectories
  BY DEF LaneTypeOK, Frames, Lanes, Reports, Behaviors, Trajectories, Courses
<1>3. frame' \in Frames
  BY <1>1, <1>2 DEF Time, Older, Fresh, Frames
<1>4. lane' \in Lanes
  <2>1. OldestLane \in Nat /\ LaneTimeout < OldestLane
    BY LaneDrivingAssumption DEF OldestLane
  <2> QED BY <1>1, <1>2, <2>1 DEF Time, Older, Fresh, Lanes
<1>5. obstacle' \in Reports
  BY <1>1, <1>2 DEF Time, Older, Fresh, Reports
<1>6. behavior' \in Behaviors
  BY <1>1, <1>2 DEF Time, Older, Fresh, Behaviors
<1>7. trajectory' \in Trajectories
  BY <1>1, <1>2 DEF Time, Older, Fresh, Trajectories
<1> QED BY <1>3, <1>4, <1>5, <1>6, <1>7

\* What the planning tick publishes.
LEMMA PlanType ==
    ASSUME LaneTypeOK, NEW course \in Courses
    PROVE  /\ Plan(course) \in Trajectories
           /\ Plan(course).mode = behavior.mode /\ Plan(course).course = course
           /\ Plan(course).age = 0
           /\ Plan(course).seen = (IF course \in {"NONE", "UNCHECKED"} THEN 0 ELSE lane.age)
<1>1. behavior.mode \in Modes /\ lane.age \in 0..OldestLane
  BY DEF LaneTypeOK
<1>2. 0 \in 0..(TrajectoryTimeout + 1) /\ 0 \in 0..OldestLane
  BY LaneDrivingAssumption DEF OldestLane
<1> QED BY <1>1, <1>2 DEF Plan, Trajectories

LEMMA PlanningTypes ==
    ASSUME LaneTypeOK, PlannerCoherent, PlanningTick
    PROVE  /\ planner' \in Planners /\ Coherent(planner')
           /\ \E course \in Courses :
                /\ trajectory' = Plan(course)
                /\ course = "UNCHECKED" => Stops(behavior.mode)
                /\ course \notin {"NONE", "UNCHECKED"} => ~Stops(behavior.mode)
           /\ planner.direction # "NONE" /\ planner'.direction = Opposite(planner.direction)
                => planner.state # "CHANGE_USING_DASHED" /\ planner.settle <= 1
<1>1. planner \in Planners /\ Coherent(planner)
  BY DEF LaneTypeOK, PlannerCoherent, Coherent
<1>2. planner.direction # "NONE" => Opposite(planner.direction) \notin {planner.direction, "NONE"}
  BY DEF Opposite
<1>3. CASE ~lane.valid /\ planner' = planner /\ trajectory' = Plan("NONE")
  BY <1>1, <1>2, <1>3 DEF Courses
<1>4. CASE lane.valid /\ Stops(behavior.mode) /\ planner' = Reset(planner)
           /\ trajectory' = Plan("UNCHECKED")
  <2>1. planner' = Idle
    BY <1>4 DEF Reset
  <2>2. Idle \in Planners /\ Coherent(Idle) /\ Idle.direction = "NONE"
    BY PlannerAssumption DEF Idle, Planners, Coherent, Changing
  <2> QED BY <1>2, <1>4, <2>1, <2>2 DEF Courses
<1>5. CASE /\ lane.valid /\ ~Stops(behavior.mode)
           /\ \E dashed \in SUBSET lane.lines :
                \E u \in Outcomes(planner, PlannerDistance, dashed) :
                  planner' = u.planner /\ trajectory' = Plan(u.course)
  <2>0. PICK dashed \in SUBSET lane.lines :
          \E u \in Outcomes(planner, PlannerDistance, dashed) :
            planner' = u.planner /\ trajectory' = Plan(u.course)
    BY <1>5
  <2>1. PICK u \in Outcomes(planner, PlannerDistance, dashed) :
          planner' = u.planner /\ trajectory' = Plan(u.course)
    BY <2>0
  <2>2. /\ u.planner \in Planners /\ Coherent(u.planner)
        /\ u.course \in Sides \cup {"KEEP", "NONE"}
        /\ planner.direction # "NONE" /\ u.planner.direction = Opposite(planner.direction)
             => planner.state # "CHANGE_USING_DASHED" /\ planner.settle <= 1
    BY <1>1, OutcomesSafe
  <2>3. u.course \in Courses /\ u.course # "UNCHECKED"
    BY <2>2 DEF Courses, Sides
  <2> QED BY <1>5, <2>1, <2>2, <2>3
<1> QED BY <1>3, <1>4, <1>5 DEF PlanningTick, MakePlan

LEMMA ProcessFrameType ==
    ASSUME NEW t \in Trackings, NEW s \in AllSights
    PROVE  ProcessFrame(t, s) \in Trackings /\ Found(t, s) \in SUBSET Sides
<1>1. t.prev \in SUBSET Sides /\ s.lines \in SUBSET Sides /\ s.wide \in BOOLEAN
  BY DEF Trackings, AllSights
<1>2. Found(t, s) \in SUBSET Sides
  BY <1>1 DEF Found
<1>3. (s.lines = Sides /\ s.wide) \in BOOLEAN /\ (t.prev \cup Found(t, s) = Sides) \in BOOLEAN
  BY <1>1
<1>4. NoTracking \in Trackings
  BY DEF NoTracking, Trackings
<1>5. CASE ErrorLane(t, s)
  <2>1. ProcessFrame(t, s) = NoTracking
    BY <1>5 DEF ProcessFrame, ErrorLane
  <2> QED BY <1>2, <1>4, <2>1
<1>6. CASE ~ErrorLane(t, s)
  <2> DEFINE prev == t.prev \cup Found(t, s)
             whole == s.lines = Sides /\ s.wide
             both == prev = Sides
  <2>1. prev \in SUBSET Sides /\ whole \in BOOLEAN /\ both \in BOOLEAN
    BY <1>1, <1>2, <1>3
  <2>2. ProcessFrame(t, s) = [initialized |-> whole, prev |-> prev]
        \/ ProcessFrame(t, s) = [initialized |-> both, prev |-> prev]
    BY <1>6 DEF ProcessFrame
  <2> HIDE DEF prev, whole, both
  <2>3. [initialized |-> whole, prev |-> prev] \in Trackings
    BY <2>1 DEF Trackings
  <2>4. [initialized |-> both, prev |-> prev] \in Trackings
    BY <2>1 DEF Trackings
  <2> QED BY <1>2, <2>2, <2>3, <2>4
<1> QED BY <1>2, <1>5, <1>6

\* The scheduler: marks stay within their periods.
LEMMA RoundTypes ==
    ASSUME LaneTypeOK, NEW s,
           s = [t \in Tasks |-> IF t \in Ready THEN 0 ELSE since[t]]
    PROVE  /\ \A t \in Tasks : s[t] \in 0..Period[t]
           /\ Ready \subseteq Tasks
BY LaneDrivingAssumption DEF LaneTypeOK, Ready

LEMMA TimeSince ==
    ASSUME LaneTypeOK, Time
    PROVE  \A t \in Tasks : since'[t] \in 0..Period[t]
<1>1. \A t \in Tasks : since[t] \in 0..Period[t] /\ Period[t] \in Nat
  BY LaneDrivingAssumption DEF LaneTypeOK
<1>2. since' = [t \in Tasks |-> IF since[t] < Period[t] THEN since[t] + 1 ELSE since[t]]
  BY DEF Time
<1> QED BY <1>1, <1>2

-----------------------------------------------------------------------------
\* LaneTypeOK is inductive beside the coherence of the planner.
TypeInv == LaneTypeOK /\ PlannerCoherent

LEMMA TypeInit == ASSUME Init PROVE TypeInv
<1>1. Idle \in Planners /\ Coherent(Idle)
  BY PlannerAssumption DEF Idle, Planners, Coherent, Changing
<1>2. /\ FrameTimeout \in Nat /\ LaneTimeout \in Nat /\ ReportLimit \in Nat /\ MaxLag \in Nat
      /\ BehaviorTimeout \in Nat /\ TrajectoryTimeout \in Nat /\ OldestLane \in Nat
      /\ \A t \in Tasks : Period[t] \in Nat
  BY LaneDrivingAssumption DEF ReportLimit, OldestLane
<1>3. /\ frame \in Frames /\ lane \in Lanes /\ obstacle \in Reports
      /\ behavior \in Behaviors /\ tracking \in Trackings
  BY <1>2 DEF Init, NoFrame, NoTracking, Frames, Lanes, Reports, Behaviors, Modes, Trackings
<1>4. trajectory \in Trajectories
  BY <1>2 DEF Init, Trajectories, Modes, Courses
<1>5. PlannerCoherent /\ planner \in Planners
  BY <1>1 DEF Init, PlannerCoherent, Coherent
<1>6. \A t \in Tasks : since[t] \in 0..Period[t]
  BY <1>2 DEF Init
<1>7. /\ running \in {"running", "quitting", "ended"} /\ due \subseteq Tasks
      /\ owed \in {"none", "stop", "run"}
  BY DEF Init
<1>8. {runRequest, latched, moving} \subseteq BOOLEAN
  BY DEF Init
<1>9. lag \in 0..MaxLag
  BY <1>2 DEF Init
<1> QED BY <1>3, <1>4, <1>5, <1>6, <1>7, <1>8, <1>9
        DEF TypeInv, LaneTypeOK, Frames, Lanes, Reports, Behaviors, Trajectories, Courses, Trackings

LEMMA TypeStep == ASSUME TypeInv, [Next]_vars PROVE TypeInv'
<1> USE DEF TypeInv, board
<1>1. /\ running \in {"running", "quitting", "ended"} /\ runRequest \in BOOLEAN
      /\ latched \in BOOLEAN /\ moving \in BOOLEAN
      /\ due \subseteq Tasks /\ lag \in 0..MaxLag /\ owed \in {"none", "stop", "run"}
      /\ \A t \in Tasks : since[t] \in 0..Period[t]
      /\ frame \in Frames /\ lane \in Lanes /\ obstacle \in Reports
      /\ behavior \in Behaviors /\ trajectory \in Trajectories /\ tracking \in Trackings
      /\ planner \in Planners /\ PlannerCoherent
  BY DEF LaneTypeOK, Frames, Lanes, Reports, Behaviors, Trajectories, Courses, Trackings
<1>2. /\ FrameTimeout \in Nat /\ LaneTimeout \in Nat /\ ReportLimit \in Nat /\ MaxLag \in Nat
      /\ BehaviorTimeout \in Nat /\ TrajectoryTimeout \in Nat
  BY LaneDrivingAssumption DEF ReportLimit
<1>3. SUFFICES
        /\ running' \in {"running", "quitting", "ended"} /\ runRequest' \in BOOLEAN
        /\ latched' \in BOOLEAN /\ moving' \in BOOLEAN
        /\ due' \subseteq Tasks /\ lag' \in 0..MaxLag /\ owed' \in {"none", "stop", "run"}
        /\ \A t \in Tasks : since'[t] \in 0..Period[t]
        /\ frame' \in Frames /\ lane' \in Lanes /\ obstacle' \in Reports
        /\ behavior' \in Behaviors /\ trajectory' \in Trajectories /\ tracking' \in Trackings
        /\ planner' \in Planners /\ PlannerCoherent'
  BY DEF LaneTypeOK, Frames, Lanes, Reports, Behaviors, Trajectories, Courses, Trackings
<1>4. CASE Time
  <2>1. lag' \in 0..MaxLag
    BY <1>1, <1>2, <1>4 DEF Time
  <2> QED BY <1>1, <1>4, <2>1, TimeTypes, TimeSince DEF Time, PlannerCoherent, Changing
<1>5. CASE Round \/ PressQuit
  <2>1. since' = [t \in Tasks |-> IF t \in Ready THEN 0 ELSE since[t]]
    BY <1>5 DEF Round, PressQuit
  <2>2. (\A t \in Tasks : since'[t] \in 0..Period[t]) /\ Ready \subseteq Tasks
    BY <2>1, RoundTypes
  <2>3. 0 \in 0..MaxLag
    BY <1>2
  <2> QED BY <1>1, <1>5, <2>2, <2>3 DEF Round, PressQuit, PlannerCoherent, Changing
<1>6. CASE PressRun \/ PressStop \/ End
  BY <1>1, <1>6 DEF PressRun, PressStop, Key, End, PlannerCoherent, Changing
<1>7. CASE CameraTick
  <2>1. [valid |-> TRUE, age |-> 0] \in Frames
    BY <1>2 DEF Frames
  <2> QED BY <1>1, <1>7, <2>1 DEF CameraTick, Turn, PlannerCoherent, Changing
<1>8. CASE YoloTick
  <2>1. \A d \in Distances : [valid |-> TRUE, age |-> 0, distance |-> d] \in Reports
    BY <1>2 DEF Reports
  <2> QED BY <1>1, <1>8, <2>1 DEF YoloTick, ReceiveObstacle, Turn, PlannerCoherent, Changing
<1>9. CASE PerceptionTick
  <2>1. frame' \in Frames
    <3>1. NoFrame \in Frames
      BY <1>2 DEF NoFrame, Frames
    <3>2. frame' = NoFrame \/ frame' = frame
      BY <1>9 DEF PerceptionTick
    <3> QED BY <1>1, <3>1, <3>2
  <2>2. tracking' \in Trackings /\ lane' \in Lanes
    <3>1. CASE Fresh(frame, FrameTimeout)
      <4>1. PICK s \in Sights :
              /\ tracking' = ProcessFrame(tracking, s)
              /\ lane' = IF ValidLane(tracking, s)
                          THEN [valid |-> TRUE, age |-> frame.age, lines |-> Found(tracking, s)]
                          ELSE lane
        BY <1>9, <3>1 DEF PerceptionTick, PerceiveLane
      <4>2. s \in AllSights
        BY LaneDrivingAssumption
      <4>3. ProcessFrame(tracking, s) \in Trackings /\ Found(tracking, s) \in SUBSET Sides
        BY <1>1, <4>2, ProcessFrameType
      <4>4. frame.age \in 0..OldestLane
        BY <1>1, <1>2, <3>1, LaneDrivingAssumption DEF Fresh, Frames, OldestLane
      <4> QED BY <1>1, <4>1, <4>3, <4>4 DEF Lanes
    <3>2. CASE ~Fresh(frame, FrameTimeout)
      BY <1>1, <1>9, <3>2 DEF PerceptionTick
    <3> QED BY <3>1, <3>2
  <2> QED BY <1>1, <1>9, <2>1, <2>2 DEF PerceptionTick, Turn, PlannerCoherent, Changing
<1>10. CASE DecisionTick
  <2>1. Decision \in Modes
    BY DEF Decision, Modes
  <2>2. behavior' \in Behaviors
    BY <1>2, <1>10, <2>1 DEF DecisionTick, Behaviors
  <2> QED BY <1>1, <1>10, <2>2 DEF DecisionTick, Turn, PlannerCoherent, Changing
<1>11. CASE PlanningTick
  <2>1. trajectory' \in Trajectories
    BY <1>11, PlanningTypes, PlanType
  <2>2. planner' \in Planners /\ PlannerCoherent'
    BY <1>11, PlanningTypes DEF PlannerCoherent, Coherent, Changing
  <2> QED BY <1>1, <1>11, <2>1, <2>2 DEF PlanningTick, Turn
<1>12. CASE ControlTick
  <2>1. moving' \in BOOLEAN
    BY <1>12 DEF ControlTick
  <2> QED BY <1>1, <1>12, <2>1 DEF ControlTick, Turn, PlannerCoherent, Changing
<1>13. CASE UNCHANGED vars
  BY <1>1, <1>13 DEF vars, PlannerCoherent, Changing
<1> QED BY <1>4, <1>5, <1>6, <1>7, <1>8, <1>9, <1>10, <1>11, <1>12, <1>13 DEF Next, Loop

(* Whatever the loop does, its state keeps its type: the tables of the      *)
(* scheduler, the blackboard, the detector and the lane change planner.     *)
THEOREM LaneTypes == Spec => []LaneTypeOK
<1>1. Spec => []TypeInv
  BY TypeInit, TypeStep, PTL DEF Spec
<1>2. TypeInv => LaneTypeOK
  BY DEF TypeInv
<1> QED BY <1>1, <1>2, PTL

(* The planner's counters and its direction never outlive the lane change   *)
(* they belong to, so that they bend no later choice.                       *)
THEOREM PlannerStaysCoherent == Spec => []PlannerCoherent
<1>1. Spec => []TypeInv
  BY TypeInit, TypeStep, PTL DEF Spec
<1>2. TypeInv => PlannerCoherent
  BY DEF TypeInv
<1> QED BY <1>1, <1>2, PTL

(* A change to one side is never turned into one to the other before it has *)
(* ended and settled, or the car was told to stop.                          *)
THEOREM NoSwerve == Spec => NoSwerveBack
<1>1. Spec => []TypeInv
  BY TypeInit, TypeStep, PTL DEF Spec
<1>2. ASSUME TypeInv, [Next]_vars
      PROVE  planner.direction # "NONE" /\ planner'.direction = Opposite(planner.direction)
               => planner.state # "CHANGE_USING_DASHED" /\ planner.settle <= 1
  <2>1. CASE PlanningTick
    BY <1>2, <2>1, PlanningTypes DEF TypeInv
  <2>2. CASE UNCHANGED planner
    BY <2>2 DEF Opposite
  <2>3. PlanningTick \/ UNCHANGED planner
    BY <1>2 DEF Next, Loop, vars, Time, Round, PressRun, PressStop, Key, PressQuit, End,
         CameraTick, YoloTick, PerceptionTick, DecisionTick, ControlTick
  <2> QED BY <2>1, <2>2, <2>3
<1> QED BY <1>1, <1>2, PTL DEF Spec, NoSwerveBack

-----------------------------------------------------------------------------
\* A committed change under way, and nothing the detector reports: the change is
\* the only one allowed, and keeping the lane is dearer than any duration of it.
LEMMA CommittedCourse ==
    ASSUME NEW p \in Planners, Coherent(p), Changing(p), p.hold > 1, Durations # {},
           NEW dashed, NEW u \in Outcomes(p, -1, dashed)
    PROVE  u.course = p.direction
<1> DEFINE q == CountDown(p)
           allowed == Allowed(q, -1, dashed)
           cs == Candidates(allowed)
<1>1. /\ q.state = p.state /\ q.direction = p.direction /\ q.hold > 0
      /\ p.direction \in Sides
  BY CountDownType, PlannerAssumption DEF Planners, Coherent
<1> HIDE DEF q
<1>2. allowed = {p.direction}
  <2>1. Changing(q) /\ Committed(q)
    BY <1>1 DEF Changing, Committed, Sides
  <2>2. \A side \in Sides : side = p.direction \/ p.direction = Opposite(side)
    BY <1>1 DEF Sides, Opposite
  <2>3. p.direction # Opposite(p.direction)
    BY <1>1 DEF Sides, Opposite
  <2> QED BY <1>1, <2>1, <2>2, <2>3 DEF Allowed
<1>3. PICK t \in Durations : TRUE
  OBVIOUS
<1> DEFINE d == [lane |-> p.direction, time |-> t]
<1>4. d \in cs /\ \A c \in cs : c = Keep \/ c.lane = p.direction
  BY <1>2, <1>3 DEF Candidates
<1>5. \A c : ~Collides(c, -1)
  BY DEF Collides, Blocks
<1>6. Cost(q, Keep, -1) = 120
  <2>1. Bias(q, "KEEP") = LeaveBias
    BY <1>1 DEF Bias, Sides
  <2> QED BY <1>5, <2>1 DEF Cost, Keep, LeaveBias
<1>7. Cost(q, d, -1) = ChangeCost[t] - 70
  <2>1. Bias(q, d.lane) = StayBias
    BY <1>1 DEF Bias, Sides
  <2>2. d # Keep
    BY <1>1 DEF Keep, Sides
  <2> QED BY <1>3, <1>5, <2>1, <2>2, PlannerAssumption DEF Cost, StayBias
<1>8. ChangeCost[t] \in Nat /\ ChangeCost[t] - 70 < 120
  BY <1>3, PlannerAssumption, TuningAssumption DEF LeaveBias, StayBias
<1>9. PICK c \in cs : Selected(q, c, cs, -1) /\ u = Outcome(q, c, -1)
  BY DEF Outcomes, q
<1> HIDE DEF allowed, cs, d
<1>10. \A best \in cs : IsBest(q, best, cs, -1) => best.lane = p.direction
  <2>1. ASSUME IsBest(q, Keep, cs, -1) PROVE FALSE
    <3>1. Cost(q, Keep, -1) < Cost(q, d, -1) \/ Cost(q, Keep, -1) = Cost(q, d, -1)
      BY <1>4, <2>1 DEF IsBest
    <3> QED BY <1>6, <1>7, <1>8, <3>1
  <2> QED BY <1>4, <2>1
<1>11. c.lane = p.direction
  BY <1>1, <1>9, <1>10 DEF Selected, IsLatched
<1> QED BY <1>5, <1>9, <1>11 DEF Outcome

\* A change is only ever under way when there is a duration for it.
ChangeHasDuration == Changing(planner) => Durations # {}

LEMMA DurationStep ==
    ASSUME TypeInv, ChangeHasDuration, [Next]_vars PROVE ChangeHasDuration'
<1> USE DEF ChangeHasDuration
<1>1. CASE planner' = planner
  BY <1>1 DEF Changing
<1>2. CASE PlanningTick /\ planner' # planner
  <2>1. CASE planner' = Idle
    BY <2>1 DEF Idle, Changing
  <2>2. CASE \E dashed : \E u \in Outcomes(planner, PlannerDistance, dashed) :
               planner' = u.planner
    <3>0. PICK dashed : \E u \in Outcomes(planner, PlannerDistance, dashed) : planner' = u.planner
      BY <2>2
    <3>1. PICK u \in Outcomes(planner, PlannerDistance, dashed) : planner' = u.planner
      BY <3>0
    <3> DEFINE q == CountDown(planner)
    <3>2. planner \in Planners
      BY DEF TypeInv, LaneTypeOK
    <3>3. PICK c \in Candidates(Allowed(q, PlannerDistance, dashed)) :
            u = Outcome(q, c, PlannerDistance)
      BY <3>2, OutcomeFacts
    <3>4. q \in Planners /\ q.state = planner.state
      BY <3>2, CountDownType
    <3> HIDE DEF q
    <3>5. CASE c.lane = "KEEP"
      <4>1. planner' = q \/ planner' = UpdatePlannerState(q, "KEEP")
        BY <3>1, <3>3, <3>5 DEF Outcome
      <4>2. Changing(UpdatePlannerState(q, "KEEP")) => Changing(q)
        BY <3>4 DEF UpdatePlannerState, Changing, Planners
      <4> QED BY <3>4, <4>1, <4>2 DEF Changing
    <3>6. CASE c.lane # "KEEP"
      BY <3>3, <3>6 DEF Candidates, Keep
    <3> QED BY <3>5, <3>6
  <2> QED BY <1>2, <2>1, <2>2 DEF PlanningTick, MakePlan, Reset
<1>3. PlanningTick \/ UNCHANGED planner
  BY DEF Next, Loop, vars, Time, Round, PressRun, PressStop, Key, PressQuit, End,
     CameraTick, YoloTick, PerceptionTick, DecisionTick, ControlTick
<1> QED BY <1>1, <1>2, <1>3

(* While the car crosses a dashed line, a frame in which the detector sees  *)
(* no obstacle any more does not turn it back: as long as the hold counter  *)
(* runs, every plan steers for the side of the change.                      *)
THEOREM CourseStaysKept == Spec => CourseKept
<1>1. Spec => []TypeInv
  BY TypeInit, TypeStep, PTL DEF Spec
<1>2. Init => ChangeHasDuration
  BY DEF Init, ChangeHasDuration, Changing, Idle
<1>3. Spec => []ChangeHasDuration
  BY <1>1, <1>2, DurationStep, PTL DEF Spec
<1>4. ASSUME TypeInv, ChangeHasDuration, PlanningTick, lane.valid, ~Stops(behavior.mode),
             PlannerDistance = -1, Changing(planner), planner.hold > 1
      PROVE  trajectory'.course = planner.direction
  <2>1. planner \in Planners /\ Coherent(planner) /\ Durations # {}
    BY <1>4 DEF TypeInv, LaneTypeOK, PlannerCoherent, Coherent, ChangeHasDuration
  <2>2. PICK dashed \in SUBSET lane.lines :
          \E u \in Outcomes(planner, PlannerDistance, dashed) : trajectory' = Plan(u.course)
    BY <1>4 DEF PlanningTick, MakePlan
  <2>3. PICK u \in Outcomes(planner, -1, dashed) : trajectory' = Plan(u.course)
    BY <1>4, <2>2
  <2>4. u.course = planner.direction
    BY <1>4, <2>1, <2>3, CommittedCourse
  <2> QED BY <2>3, <2>4 DEF Plan
<1> QED BY <1>1, <1>3, <1>4, PTL DEF CourseKept

-----------------------------------------------------------------------------
\* What an emergency leaves behind until S and then R were pressed.
OwedInv ==
  /\ owed = "stop" => latched /\ runRequest /\ Stops(behavior.mode)
  /\ owed = "run" => ~runRequest /\ Stops(behavior.mode)

LEMMA OwedStep == ASSUME OwedInv, [Next]_vars PROVE OwedInv'
<1> USE DEF OwedInv, board
<1>1. CASE Time
  <2>1. behavior'.mode = behavior.mode
    BY <1>1 DEF Time, Older
  <2> QED BY <1>1, <2>1 DEF Time, Stops
<1>2. CASE PressRun \/ PressStop
  BY <1>2 DEF PressRun, PressStop, Key, Stops
<1>3. CASE PressQuit
  BY <1>3 DEF PressQuit, Stops
<1>4. CASE DecisionTick
  <2>1. behavior'.mode = Decision
    BY <1>4 DEF DecisionTick
  <2>2. /\ Decision = "EMERGENCY_STOP" => runRequest
        /\ ~runRequest => Decision = "STOP"
        /\ runRequest /\ latched => Decision = "EMERGENCY_STOP"
    BY DEF Decision
  <2>3. runRequest' = runRequest
    BY <1>4 DEF DecisionTick, Turn
  <2>4. CASE Decision = "EMERGENCY_STOP" /\ ~latched
    BY <1>4, <2>1, <2>2, <2>3, <2>4 DEF DecisionTick, Stops
  <2>5. CASE ~(Decision = "EMERGENCY_STOP" /\ ~latched)
    BY <1>4, <2>1, <2>2, <2>3, <2>5 DEF DecisionTick, Stops
  <2> QED BY <2>4, <2>5
<1>5. CASE Round \/ End \/ CameraTick \/ YoloTick \/ PerceptionTick \/ PlanningTick \/ ControlTick
  BY <1>5 DEF Round, End, CameraTick, YoloTick, PerceptionTick, PlanningTick, ControlTick, Turn, Stops
<1>6. CASE UNCHANGED vars
  BY <1>6 DEF vars, Stops
<1> QED BY <1>1, <1>2, <1>3, <1>4, <1>5, <1>6 DEF Next, Loop

(* After an emergency no command with speed goes out before the operator    *)
(* has pressed S and then R.                                                *)
THEOREM Cleared == Spec => MovesOnlyWhenCleared
<1>1. Init => OwedInv
  BY DEF Init, OwedInv
<1>2. ASSUME OwedInv, Drives PROVE owed # "stop" /\ owed # "run"
  BY <1>2 DEF OwedInv, Drives, ControlTick, Drivable
<1>3. Spec => []OwedInv
  BY <1>1, OwedStep, PTL DEF Spec
<1>4. Spec => []TypeInv
  BY TypeInit, TypeStep, PTL DEF Spec
<1>5. ASSUME OwedInv, TypeInv, [Next]_vars PROVE Drives => owed = "none"
  BY <1>2, <1>5 DEF TypeInv, LaneTypeOK
<1> QED BY <1>3, <1>4, <1>5, PTL DEF Spec, MovesOnlyWhenCleared

-----------------------------------------------------------------------------
\* What one round after another leaves on the blackboard when the decision and
\* the plan are made equally often: every decision has its plan.
PlanInv ==
  /\ since["decision"] = since["planning"]
  /\ "decision" \in due => "planning" \in due
  /\ "planning" \in due /\ "decision" \notin due =>
       /\ "camera" \notin due /\ "yolo" \notin due /\ "perception" \notin due
       /\ ~Stops(behavior.mode) => Fresh(lane, LaneTimeout)
  /\ "planning" \notin due /\ trajectory.valid => trajectory.mode = behavior.mode
  /\ trajectory.course = "UNCHECKED" => Stops(trajectory.mode)
  /\ trajectory.seen <= LaneTimeout
  /\ ~Stops(behavior.mode) /\ Fresh(behavior, BehaviorTimeout)
       => obstacle.age <= ObstacleTimeout + behavior.age

LEMMA PlanInit == ASSUME Init PROVE PlanInv
<1>1. "decision" \in Tasks /\ "planning" \in Tasks
  BY OrderFacts
<1>2. LaneTimeout \in Nat
  BY LaneDrivingAssumption
<1> QED BY <1>1, <1>2 DEF Init, PlanInv, Stops

LEMMA PlanStep ==
    ASSUME Period["decision"] = Period["planning"], TypeInv, PlanInv, [Next]_vars
    PROVE  PlanInv'
<1> USE DEF PlanInv, board
<1>1. "decision" \in Tasks /\ "planning" \in Tasks
  BY OrderFacts
<1>2. /\ LaneTimeout \in Nat /\ ObstacleTimeout \in Nat /\ BehaviorTimeout \in Nat
      /\ TrajectoryTimeout \in Nat /\ ReportLimit = ObstacleTimeout + BehaviorTimeout
  BY LaneDrivingAssumption DEF ReportLimit
<1>3. /\ lane \in Lanes /\ obstacle \in Reports /\ behavior \in Behaviors
      /\ trajectory \in Trajectories /\ due \subseteq Tasks
  BY DEF TypeInv, LaneTypeOK, Lanes, Reports, Behaviors, Trajectories, Courses
<1>4. CASE Time
  <2>1. ~("planning" \in due /\ "decision" \notin due)
    BY <1>4, OrderFacts DEF Time, Takes
  <2>2. since'["decision"] = since'["planning"]
    BY <1>1, <1>4 DEF Time
  <2>3. /\ trajectory'.mode = trajectory.mode /\ trajectory'.course = trajectory.course
        /\ trajectory'.seen = trajectory.seen /\ behavior'.mode = behavior.mode
        /\ trajectory'.valid = trajectory.valid
    BY <1>3, <1>4 DEF Time, Older, Trajectories, Behaviors
  <2>4. ~Stops(behavior'.mode) /\ Fresh(behavior', BehaviorTimeout)
          => obstacle'.age <= ObstacleTimeout + behavior'.age
    <3>1. CASE Fresh(behavior, BehaviorTimeout)
      <4>1. behavior'.age = behavior.age + 1 /\ behavior.age \in Nat /\ obstacle.age \in Nat
        BY <1>2, <1>3, <1>4, <3>1 DEF Time, Older, Behaviors, Reports
      <4>2. obstacle'.age <= obstacle.age + 1
        BY <1>2, <1>3, <1>4 DEF Time, Older, Reports
      <4>3. obstacle'.age \in Nat
        BY <1>4, TimeTypes, <1>2 DEF TypeInv, Reports
      <4> QED BY <1>2, <2>3, <3>1, <4>1, <4>2, <4>3
    <3>2. CASE ~Fresh(behavior, BehaviorTimeout)
      <4>1. behavior' = behavior
        BY <1>4, <3>2 DEF Time, Older
      <4> QED BY <3>2, <4>1 DEF Fresh
    <3> QED BY <3>1, <3>2
  <2> QED BY <1>4, <2>1, <2>2, <2>3, <2>4 DEF Time, Stops, Fresh
<1>5. CASE Round \/ PressQuit
  <2>1. since' = [t \in Tasks |-> IF t \in Ready THEN 0 ELSE since[t]] /\ due' = Ready
    BY <1>5 DEF Round, PressQuit
  <2>2. "decision" \in Ready <=> "planning" \in Ready
    BY <1>1 DEF Ready
  <2>3. since'["decision"] = since'["planning"]
    BY <1>1, <2>1, <2>2
  <2>4. due = {} /\ UNCHANGED <<frame, lane, obstacle, behavior, trajectory>>
    BY <1>5 DEF Round, PressQuit
  <2> QED BY <2>1, <2>2, <2>3, <2>4 DEF Stops, Fresh
<1>6. CASE PressRun \/ PressStop \/ End
  BY <1>6 DEF PressRun, PressStop, Key, End, Stops, Fresh
<1>7. CASE CameraTick
  BY <1>7, OrderFacts DEF CameraTick, Turn, Stops, Fresh
<1>8. CASE YoloTick
  <2>1. obstacle' = obstacle \/ obstacle'.age = 0
    BY <1>8 DEF YoloTick, ReceiveObstacle
  <2>2. behavior.age \in Nat
    BY <1>2, <1>3 DEF Behaviors
  <2> QED BY <1>2, <1>8, <2>1, <2>2, OrderFacts DEF YoloTick, Turn, Stops, Fresh
<1>9. CASE PerceptionTick
  <2>1. "planning" \in due => "decision" \in due
    BY <1>9 DEF PerceptionTick, Turn, First, Tasks
  <2> QED BY <1>9, <2>1, OrderFacts DEF PerceptionTick, Turn, Stops, Fresh
<1>10. CASE DecisionTick
  <2>1. /\ First("decision") /\ due' = due \ {"decision"}
        /\ behavior' = [valid |-> TRUE, age |-> 0, mode |-> Decision]
        /\ UNCHANGED <<since, lane, obstacle, trajectory>>
    BY <1>10 DEF DecisionTick, Turn
  <2>2. "decision" \in due /\ "planning" \in due
    BY <1>1, <2>1, OrderFacts
  <2>3. ~Stops(Decision) => Fresh(lane, LaneTimeout) /\ Fresh(obstacle, ObstacleTimeout)
    BY DEF Decision, Alarm, Stops
  <2> QED BY <1>2, <1>3, <2>1, <2>2, <2>3, OrderFacts DEF Stops, Fresh, Reports
<1>11. CASE PlanningTick
  <2>1. /\ First("planning") /\ due' = due \ {"planning"}
        /\ UNCHANGED <<since, lane, obstacle, behavior>>
    BY <1>11 DEF PlanningTick, Turn
  <2>2. "planning" \in due /\ "decision" \notin due
    BY <1>1, <2>1, OrderFacts
  <2>3. PICK course \in Courses :
          /\ trajectory' = Plan(course)
          /\ course = "UNCHECKED" => Stops(behavior.mode)
          /\ course \notin {"NONE", "UNCHECKED"} => ~Stops(behavior.mode)
    BY <1>11, PlanningTypes DEF TypeInv
  <2>4. /\ trajectory'.mode = behavior.mode /\ trajectory'.course = course
        /\ trajectory'.seen = (IF course \in {"NONE", "UNCHECKED"} THEN 0 ELSE lane.age)
    BY <2>3, PlanType DEF TypeInv
  <2>5. trajectory'.seen <= LaneTimeout
    BY <1>2, <2>2, <2>3, <2>4 DEF Fresh
  <2> QED BY <2>1, <2>2, <2>3, <2>4, <2>5 DEF Stops, Fresh
<1>12. CASE ControlTick
  BY <1>12, OrderFacts DEF ControlTick, Turn, Stops, Fresh
<1>13. CASE UNCHANGED vars
  BY <1>13 DEF vars, Stops, Fresh
<1> QED BY <1>4, <1>5, <1>6, <1>7, <1>8, <1>9, <1>10, <1>11, <1>12, <1>13 DEF Next, Loop

(* When decision and plan have the same period, no command with speed       *)
(* follows the unchecked plan of a stop or the plan of an earlier decision.  *)
THEOREM PresentPlan ==
  ASSUME Period["decision"] = Period["planning"] PROVE Spec => DrivesPresentPlan
<1>1. Spec => []TypeInv
  BY TypeInit, TypeStep, PTL DEF Spec
<1>2. TypeInv /\ PlanInv /\ [Next]_vars => PlanInv'
  BY PlanStep
<1>3. Spec => []PlanInv
  BY <1>1, <1>2, PlanInit, PTL DEF Spec
<1>4. ASSUME PlanInv, Drives
      PROVE  trajectory.mode = behavior.mode /\ trajectory.course # "UNCHECKED"
  BY <1>4, OrderFacts DEF PlanInv, Drives, ControlTick, Turn, Drivable
<1> QED BY <1>3, <1>4, PTL DEF DrivesPresentPlan

(* Under the same condition the frame behind the path and the report behind *)
(* the decision are no older than the timeouts together allow.              *)
THEOREM FreshData ==
  ASSUME Period["decision"] = Period["planning"] PROVE Spec => DrivesOnFreshData
<1>1. Spec => []TypeInv
  BY TypeInit, TypeStep, PTL DEF Spec
<1>2. TypeInv /\ PlanInv /\ [Next]_vars => PlanInv'
  BY PlanStep
<1>3. Spec => []PlanInv
  BY <1>1, <1>2, PlanInit, PTL DEF Spec
<1>4. ASSUME TypeInv, PlanInv, Drives
      PROVE  trajectory.seen + trajectory.age <= PlanLimit /\ obstacle.age <= ReportLimit
  <2>1. /\ ~Stops(behavior.mode) /\ Fresh(behavior, BehaviorTimeout)
        /\ Fresh(trajectory, TrajectoryTimeout)
    BY <1>4 DEF Drives, ControlTick, Drivable, StopRequired
  <2>2. /\ trajectory.age <= TrajectoryTimeout /\ behavior.age <= BehaviorTimeout
        /\ trajectory.seen <= LaneTimeout /\ obstacle.age <= ObstacleTimeout + behavior.age
    BY <1>4, <2>1 DEF Fresh, PlanInv
  <2>3. trajectory \in Trajectories /\ obstacle \in Reports /\ behavior \in Behaviors
    BY <1>4 DEF TypeInv, LaneTypeOK, Trajectories, Courses, Reports, Behaviors
  <2>4. /\ LaneTimeout \in Nat /\ ObstacleTimeout \in Nat /\ BehaviorTimeout \in Nat
        /\ TrajectoryTimeout \in Nat /\ FrameTimeout \in Nat
    BY LaneDrivingAssumption
  <2>5. /\ trajectory.seen \in Nat /\ trajectory.age \in Nat
        /\ obstacle.age \in Nat /\ behavior.age \in Nat
    BY <2>3, <2>4 DEF Trajectories, Reports, Behaviors, OldestLane, ReportLimit
  <2> QED BY <2>2, <2>4, <2>5 DEF PlanLimit, ReportLimit
<1> QED BY <1>1, <1>3, <1>4, PTL DEF DrivesOnFreshData

-----------------------------------------------------------------------------
\* The car drives although something is at emergency distance: no decision was
\* made since, so that the report is as old as the last mark of the decision at
\* most, or was so when this round began.
Unheeded == ~Stops(behavior.mode) /\ obstacle.valid /\ obstacle.distance \in 1..Emergency

HeedInv ==
  Unheeded /\ "decision" \notin due =>
    /\ obstacle.age < Period["decision"] + lag
    /\ since["decision"] < Period["decision"] => obstacle.age <= since["decision"]

LEMMA HeedStep == ASSUME TypeInv, HeedInv, [Next]_vars PROVE HeedInv'
<1> USE DEF HeedInv, board
<1> DEFINE P == Period["decision"]
<1>1. "decision" \in Tasks /\ P \in Nat \ {0}
  BY OrderFacts, LaneDrivingAssumption
<1>2. /\ lag \in Nat /\ obstacle.age \in Nat /\ since["decision"] \in 0..P
      /\ ReportLimit \in Nat
  BY <1>1, LaneDrivingAssumption DEF TypeInv, LaneTypeOK, ReportLimit
<1> HIDE DEF P
<1>3. CASE Time
  <2>1. obstacle' = Older(obstacle, ReportLimit) /\ obstacle \in Reports
    BY <1>3 DEF Time, TypeInv, LaneTypeOK, Reports
  <2>2. /\ obstacle'.valid = obstacle.valid /\ obstacle'.distance = obstacle.distance
        /\ obstacle'.age \in {obstacle.age, obstacle.age + 1}
    BY <2>1 DEF Older, Reports
  <2>3. behavior'.mode = behavior.mode
    BY <1>3 DEF Time, Older
  <2>4. since'["decision"] = IF since["decision"] < P THEN since["decision"] + 1
                                                      ELSE since["decision"]
    BY <1>1, <1>3 DEF Time, P
  <2>5. due' = due /\ lag' = lag + 1
    BY <1>3 DEF Time
  <2>6. Unheeded' = Unheeded
    BY <2>2, <2>3 DEF Unheeded, Stops
  <2>7. CASE Unheeded /\ "decision" \notin due
    BY <1>1, <1>2, <2>2, <2>4, <2>5, <2>7 DEF P
  <2> QED BY <2>5, <2>6, <2>7
<1>4. CASE Round \/ PressQuit
  <2>1. /\ since' = [t \in Tasks |-> IF t \in Ready THEN 0 ELSE since[t]] /\ due' = Ready
        /\ due = {} /\ lag' = 0 /\ UNCHANGED <<obstacle, behavior>>
    BY <1>4 DEF Round, PressQuit
  <2>2. Unheeded' = Unheeded
    BY <2>1 DEF Unheeded, Stops
  <2>3. CASE "decision" \in Ready
    BY <2>1, <2>3
  <2>4. CASE "decision" \notin Ready
    <3>1. since'["decision"] = since["decision"] /\ since["decision"] < P
      BY <1>1, <1>2, <2>1, <2>4 DEF Ready, P
    <3> QED BY <1>1, <1>2, <2>1, <2>2, <3>1 DEF P
  <2> QED BY <2>3, <2>4
<1>5. CASE PressRun \/ PressStop \/ End
  BY <1>5 DEF PressRun, PressStop, Key, End, Unheeded, Stops
<1>6. CASE CameraTick \/ PerceptionTick \/ PlanningTick \/ ControlTick
  <2>1. /\ UNCHANGED <<obstacle, behavior, since, lag>>
        /\ \E t \in {"camera", "perception", "planning", "control"} : due' = due \ {t}
    BY <1>6 DEF CameraTick, PerceptionTick, PlanningTick, ControlTick, Turn
  <2>2. "decision" \notin due' => "decision" \notin due
    BY <2>1
  <2> QED BY <2>1, <2>2 DEF Unheeded, Stops
<1>7. CASE YoloTick
  <2>1. (obstacle' = obstacle \/ obstacle'.age = 0) /\ UNCHANGED <<behavior, since, lag>>
        /\ due' = due \ {"yolo"}
    BY <1>7 DEF YoloTick, ReceiveObstacle, Turn
  <2>2. CASE obstacle'.age = 0
    BY <1>1, <1>2, <2>1, <2>2 DEF P
  <2>3. CASE obstacle' = obstacle
    BY <2>1, <2>3 DEF Unheeded, Stops
  <2> QED BY <2>1, <2>2, <2>3
<1>8. CASE DecisionTick
  <2>1. behavior'.mode = Decision /\ obstacle' = obstacle
    BY <1>8 DEF DecisionTick
  <2>2. ~Stops(Decision) => ~(HasObstacle /\ obstacle.distance <= Emergency)
    BY DEF Decision, Alarm, Stops
  <2>3. Emergency \in Nat
    BY LaneDrivingAssumption
  <2>4. ~Unheeded'
    BY <2>1, <2>2, <2>3 DEF Unheeded, Stops, HasObstacle
  <2> QED BY <2>4
<1>9. CASE UNCHANGED vars
  BY <1>9 DEF vars, Unheeded, Stops
<1> QED BY <1>3, <1>4, <1>5, <1>6, <1>7, <1>8, <1>9 DEF Next, Loop

(* Whatever the periods and however late a round, a command with speed      *)
(* towards an obstacle at emergency distance goes out no later than the     *)
(* next decision is due and the round in progress takes.                    *)
THEOREM Heeded == Spec => EmergencyHeeded
<1>1. Spec => []TypeInv
  BY TypeInit, TypeStep, PTL DEF Spec
<1>2. Init => HeedInv
  BY DEF Init, HeedInv, Unheeded
<1>3. Spec => []HeedInv
  BY <1>1, <1>2, HeedStep, PTL DEF Spec
<1>4. ASSUME TypeInv, HeedInv, Drives, obstacle.valid, obstacle.distance \in 1..Emergency
      PROVE  obstacle.age < Period["decision"] + MaxLag
  <2>1. Unheeded /\ "decision" \notin due
    BY <1>4, OrderFacts DEF Drives, ControlTick, Turn, Drivable, Unheeded
  <2>2. obstacle.age < Period["decision"] + lag
    BY <1>4, <2>1 DEF HeedInv
  <2>3. /\ lag \in 0..MaxLag /\ MaxLag \in Nat /\ obstacle.age \in Nat
        /\ Period["decision"] \in Nat
    BY <1>4, OrderFacts, LaneDrivingAssumption DEF TypeInv, LaneTypeOK, ReportLimit
  <2> QED BY <2>2, <2>3
<1> QED BY <1>1, <1>3, <1>4, PTL DEF EmergencyHeeded
=============================================================================
