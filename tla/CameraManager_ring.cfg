CONSTANTS
  NumBuffers = 3
  MinGranted = 1
  ErrorLimit = 3
  Shots = 4
SPECIFICATION FairSpec
INVARIANTS
  DriverWritesLiveMemory
  OneOwner
  ReleasedAtEnd
PROPERTIES
  FramesOrStop
