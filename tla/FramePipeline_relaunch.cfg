CONSTANTS
  NumBuffers = 1
  CameraErrorLimit = 2
  UsbErrorLimit = 2
  MaxFrames = 1
  MaxSignals = 1
  MaxLaunches = 2
  SignalInCritical = FALSE
  SignalNoMutex = FALSE
SPECIFICATION Spec
INVARIANTS
  RunsUntilStopped
CHECK_DEADLOCK FALSE
