----------------------------- MODULE MjpegProtocol -----------------------------
(***************************************************************************)
(* mjpeg_pack_frame of mjpeg_protocol.c, with the validation of the JPEG   *)
(* and the removal of its padding, called again and again on one packet    *)
(* buffer and one sequence counter, and mjpeg_validate_header.             *)
(*                                                                         *)
(* A packet is its bytes: sync word, sequence number and size in four      *)
(* bytes each, the JPEG, and the checksum of all of it, the least          *)
(* significant byte first.  The callers' buffers hold the largest packet.  *)
(* The checksum is a parameter; Crc16 has the code's.                      *)
(*                                                                         *)
(* The definitions no action refers to (FirstEoi, ...) are faulty variants *)
(* of the definition that follows them.                                    *)
(***************************************************************************)
EXTENDS Integers, Sequences

CONSTANTS
  MaxJpeg,      \* MJPEG_MAX_JPEG_SIZE (98304)
  Numbers,      \* how many numbers the sequence counter has (2^32)
  Checksum(_),  \* mjpeg_crc16_ccitt
  Bytes,        \* bound: the bytes of the camera's frames
  MaxInput      \* bound: bytes in a frame

(* The values of uint16_t and uint32_t.                                    *)
IsUint16(n) == n \in Nat /\ n < 65536
IsUint32(n) == n \in Nat /\ IsUint16(n \div 65536)

ASSUME SizesAssumption ==
  /\ IsUint32(MaxJpeg) /\ MaxJpeg >= 4
  /\ Numbers \in Nat \ {0} /\ IsUint32(Numbers - 1)
  /\ Bytes \subseteq 0 .. 255
  /\ MaxInput \in Nat

VARIABLES
  sequence,  \* *sequence
  packet,    \* the packet buffer: the last packet, and what was there before
  result,    \* what mjpeg_pack_frame returned: a size or a negative error
  expected   \* history: the JPEG the last call should pack, or none

vars == <<sequence, packet, result, expected>>

FF == 255
SOI == 216
EOI == 217
Frames == UNION {[1 .. n -> Bytes] : n \in 0 .. MaxInput}
None == <<>>

HeaderSize == 12
CrcSize == 2
SyncWord == <<190, 186, 254, 202>>  \* 0xCAFEBABE

EINVAL == -22
EBADMSG == -77

(* Numbers in memory, and the numbers read from a place in it.             *)
Uint16(n) == <<n % 256, n \div 256>>
Uint32(n) == Uint16(n % 65536) \o Uint16(n \div 65536)

Uint16At(bytes, i) == bytes[i] + 256 * bytes[i + 1]
Uint32At(bytes, i) == Uint16At(bytes, i) + 65536 * Uint16At(bytes, i + 2)
-----------------------------------------------------------------------------
IsMarkerAt(jpeg, i, code) == jpeg[i] = FF /\ jpeg[i + 1] = code

FirstEoi(jpeg) ==
  LET search[i \in 1 .. Len(jpeg)] ==
        IF i = Len(jpeg) THEN 0
        ELSE IF IsMarkerAt(jpeg, i, EOI) THEN i + 1 ELSE search[i + 1]
  IN  search[1]

(* The search for the EOI marker, from the end: the position of its second *)
(* byte, or 0.                                                             *)
LastEoi(jpeg) ==
  LET search[i \in 0 .. Len(jpeg) - 1] ==
        IF i = 0 THEN 0
        ELSE IF IsMarkerAt(jpeg, i, EOI) THEN i + 1 ELSE search[i - 1]
  IN  search[Len(jpeg) - 1]

(* mjpeg_validate_jpeg_data: the actual size of the JPEG, or an error.     *)
mjpeg_validate_jpeg_data(jpeg) ==
  IF Len(jpeg) \notin 4 .. MaxJpeg THEN EINVAL
  ELSE IF ~IsMarkerAt(jpeg, 1, SOI) \/ LastEoi(jpeg) = 0 THEN EBADMSG
  ELSE LastEoi(jpeg)

(* The buffer after some bytes were copied to its start.                   *)
Written(bytes) == bytes \o SubSeq(packet, Len(bytes) + 1, Len(packet))

Header(number, size) ==
  SyncWord \o Uint32(number) \o Uint32(size)

WithCrc(bytes) == bytes \o Uint16(Checksum(bytes))

(* The checksum is a uint16_t.                                             *)
ASSUME ChecksumAssumption ==
  \A number \in 0 .. Numbers - 1, jpeg \in Frames :
    IsUint16(Checksum(Header(number, Len(jpeg)) \o jpeg))

(* What the call should do, by definition: pack the longest part of the    *)
(* frame that begins with SOI and ends with EOI.                           *)
Complete(jpeg) == {n \in 4 .. Len(jpeg) : /\ IsMarkerAt(jpeg, 1, SOI)
                                          /\ IsMarkerAt(jpeg, n - 1, EOI)}
ShouldPack(jpeg) ==
  IF Len(jpeg) > MaxJpeg \/ Complete(jpeg) = {} THEN None
  ELSE SubSeq(jpeg, 1, CHOOSE n \in Complete(jpeg) :
                         \A m \in Complete(jpeg) : m <= n)

NextWithoutWrap(number) == number + 1

Successor(number) == (number + 1) % Numbers

(* mjpeg_pack_frame on a valid JPEG.                                       *)
Pack(jpeg) ==
  LET size == mjpeg_validate_jpeg_data(jpeg)
  IN  /\ size > 0
      /\ packet' = Written(WithCrc(Header(sequence, size) \o SubSeq(jpeg, 1, size)))
      /\ result' = HeaderSize + size + CrcSize
      /\ sequence' = Successor(sequence)
      /\ expected' = ShouldPack(jpeg)

(* mjpeg_pack_frame on anything else.                                      *)
Reject(jpeg) ==
  LET error == mjpeg_validate_jpeg_data(jpeg)
  IN  /\ error < 0
      /\ result' = error
      /\ expected' = ShouldPack(jpeg)
      /\ UNCHANGED <<sequence, packet>>

mjpeg_validate_header(bytes) ==
  /\ SubSeq(bytes, 1, 4) = SyncWord
  /\ Uint32At(bytes, 9) \in 1 .. MaxJpeg
-----------------------------------------------------------------------------
Init ==
  /\ sequence = 0
  /\ packet = [i \in 1 .. HeaderSize + MaxJpeg + CrcSize |-> 0]
  /\ result = EINVAL /\ expected = None

Next == \E jpeg \in Frames : Pack(jpeg) \/ Reject(jpeg)

Spec == Init /\ [][Next]_vars
-----------------------------------------------------------------------------
(* Every variable has its type.                                            *)
TypeOK ==
  /\ sequence \in 0 .. Numbers - 1
  /\ packet \in [1 .. HeaderSize + MaxJpeg + CrcSize -> 0 .. 255]
  /\ result \in {EINVAL, EBADMSG}
             \cup HeaderSize + 4 + CrcSize .. HeaderSize + MaxJpeg + CrcSize
  /\ expected = None \/ Len(expected) \in 4 .. MaxJpeg

(* A receiver that checks the header, reads as many bytes as it says and   *)
(* then the checksum, finds the JPEG of the frame without its padding, its *)
(* number and the right checksum, whatever longer packet the buffer held   *)
(* before; and a frame is rejected exactly when it has no complete JPEG of *)
(* a legal size.                                                           *)
RoundTrip ==
  IF expected = None THEN result < 0
  ELSE LET end == HeaderSize + Uint32At(packet, 9)
       IN  /\ mjpeg_validate_header(packet)
           /\ Successor(Uint32At(packet, 5)) = sequence
           /\ SubSeq(packet, HeaderSize + 1, end) = expected
           /\ Uint16At(packet, end + 1) = Checksum(SubSeq(packet, 1, end))
           /\ result = end + CrcSize
=============================================================================
