SPECIFICATION Spec
CONSTANTS
  Durations <- MCDurations
  PassesFrom <- MCPassesFrom
  ChangeCost <- MCChangeCost
  Trigger = 18
  HoldFrames = 2
  SettleFrames = 2
  Period <- MCPeriod
  FrameTimeout = 1
  LaneTimeout = 1
  ObstacleTimeout = 3
  BehaviorTimeout = 2
  TrajectoryTimeout = 2
  Emergency = 5
  Distances <- MCNoObstacle
  Sights <- MCAllSights
  MaxLag = 2
PROPERTIES
  LostLineEndsTracking
CHECK_DEADLOCK FALSE
