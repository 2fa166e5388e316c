CONSTANTS
  Interval = 2
  Frames = 4
  ErrorLimit = 3
  MaxEarly = 1
  MaxSignals = 2
SPECIFICATION LoggedFairSpec
INVARIANTS
  ReleasedAtExit
  SequenceCountsPackets
  WireInOrder
  StatsMatchWire
  CameraErrorsStop
PROPERTIES
  SignalStops
  LoopEnds
