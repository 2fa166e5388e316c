--------------------------- MODULE MCMjpegProtocol ---------------------------
(***************************************************************************)
(* MjpegProtocol on small instances, with the code's checksum, which is    *)
(* itself compared with its definition.                                    *)
(***************************************************************************)
EXTENDS MjpegProtocol, Crc16

(* The messages CrcIsRemainder is about: their bytes and their length.     *)
MessageBytes == {0, 1, 33, 128, FF, SOI}
MaxMessage == 4
Messages == UNION {[1 .. n -> MessageBytes] : n \in 0 .. MaxMessage}

(* "CRC-16-CCITT checksum (polynomial 0x1021, init 0xFFFF)": what the      *)
(* function returns is the remainder of the division that defines that     *)
(* checksum, on messages of a few bytes.  (It is enough to look at it      *)
(* before the first packet.)                                               *)
CrcIsRemainder ==
  packet[1] # SyncWord[1] =>
    \A message \in Messages : mjpeg_crc16_ccitt(message) = Ccitt(message)
=============================================================================
