CONSTANTS
  NumBuffers = 3
SPECIFICATION Spec
INVARIANTS
  DepthInRange
PROPERTIES
  ImplementsQueues
