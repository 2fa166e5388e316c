CONSTANTS
  MaxJpeg = 6
  Numbers = 2
  Checksum <- mjpeg_crc16_ccitt
  Bytes = {255, 216, 217}
  MaxInput = 7
SPECIFICATION Spec
INVARIANTS
  TypeOK
  RoundTrip
  CrcIsRemainder
