SPECIFICATION FairSpec
CONSTANTS
  Durations <- MCDurations
  PassesFrom <- MCPassesFrom
  ChangeCost <- MCChangeCost
  Trigger = 18
  HoldFrames = 2
  SettleFrames = 2
  Period <- MCPeriod
  FrameTimeout = 1
  LaneTimeout = 1
  ObstacleTimeout = 3
  BehaviorTimeout = 2
  TrajectoryTimeout = 2
  Emergency = 5
  Distances <- MCDistances
  Sights <- MCSights
  MaxLag = 2
INVARIANTS
  LaneTypeOK
  PlannerCoherent
PROPERTIES
  MovesOnlyWhenCleared
  DrivesPresentPlan
  DrivesOnFreshData
  EmergencyHeeded
  CourseKept
  NoSwerveBack
  StopObeyed
  SilenceStops
CHECK_DEADLOCK FALSE
