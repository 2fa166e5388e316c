CONSTANTS
  NumBuffers = 1
  CameraErrorLimit = 2
  UsbErrorLimit = 2
  MaxFrames = 1
  MaxSignals = 1
  MaxLaunches = 1
  SignalInCritical = TRUE
  SignalNoMutex = FALSE
SPECIFICATION FairSpec
PROPERTIES
  SignalStops
CHECK_DEADLOCK FALSE
