SPECIFICATION FairSpec
CONSTANTS
  FrameBytes = 2
  MaxLine = 3
  Capacity = 2
  SeqModulus = 10
  StartupTime = 1
  FirstSeqs <- MCFirstSeqs
  MaxFrames = 4
  MaxTime = 4
  MaxStep = 1
INVARIANTS
  TelemetryTypeOK
  Accounted
  LossesCounted
  ClosedIsQuiet
  ChecksumTellsApart
  ChecksumIsRemainder
PROPERTIES
  WholeFrameParsed
  PoseStepsMatchTime
  CloseEnds
CHECK_DEADLOCK FALSE
