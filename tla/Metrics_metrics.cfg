CONSTANTS
  Second = 3
  Wrap = 100
  Modulus = 60
  PacketSize = 3
  Word = 4
  MaxTime = 8
  MaxFrames = 3
  MaxLaunches = 2
SPECIFICATION Spec
CHECK_DEADLOCK FALSE
INVARIANTS
  NeverLate
  PacketsWereCaptured
PROPERTIES
  OncePerClockSecond
