CONSTANTS
  NumBuffers = 2
  CameraErrorLimit = 2
  UsbErrorLimit = 2
  MaxFrames = 3
  MaxSignals = 1
  MaxLaunches = 2
  SignalInCritical = TRUE
  SignalNoMutex = TRUE
SPECIFICATION Spec
INVARIANTS
  BufferConservation
  NoLostWakeup
  WireInOrder
  NoUseAfterFree
  CleanExit
  IInv
PROPERTIES
  ImplementsChannel
CHECK_DEADLOCK FALSE
