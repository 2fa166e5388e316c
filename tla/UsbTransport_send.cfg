CONSTANTS
  PacketSize = 4
  MaxRetry = 3
  MaxOpen = 2
  ErrorLimit = 2
  MaxPackets = 3
SPECIFICATION FairSpec
INVARIANTS
  TypeOK
  NoGapOnWire
  ResultIsTrue
PROPERTIES
  ImplementsChannel
  UnplugStops
