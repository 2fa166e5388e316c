CONSTANTS
  NumBuffers = 2
  CameraErrorLimit = 2
  UsbErrorLimit = 2
  MaxFrames = 2
  MaxSignals = 1
  MaxLaunches = 1
  SignalInCritical = FALSE
  SignalNoMutex = FALSE
SPECIFICATION FairSpec
PROPERTIES
  ShutdownCompletes
  SignalStops
  PacketsMove
  CameraGetsBuffer
