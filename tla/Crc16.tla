--------------------------------- MODULE Crc16 ---------------------------------
(***************************************************************************)
(* mjpeg_crc16_ccitt of mjpeg_protocol.c on the bits of its register, and  *)
(* the polynomial division that defines what it should return.             *)
(*                                                                         *)
(* A number is its bits, the most significant first.                       *)
(*                                                                         *)
(* ShiftWithoutCarry is a faulty variant of the definition that follows it.*)
(***************************************************************************)
EXTENDS Integers, Sequences

Bit == {0, 1}
Width == 16  \* bits of the register, a uint16_t

Registers == [1 .. Width -> Bit]

Start      == <<1, 1, 1, 1,  1, 1, 1, 1,  1, 1, 1, 1,  1, 1, 1, 1>>  \* 0xFFFF
Polynomial == <<0, 0, 0, 1,  0, 0, 0, 0,  0, 0, 1, 0,  0, 0, 0, 1>>  \* 0x1021

(* The eight bits of a byte, and the byte of the eight bits after i.       *)
Weight == <<128, 64, 32, 16, 8, 4, 2, 1>>
BitsOf(byte) == [k \in 1 .. 8 |-> (byte \div Weight[k]) % 2]
ByteAt(bits, i) ==
  128 * bits[i + 1] + 64 * bits[i + 2] + 32 * bits[i + 3] + 16 * bits[i + 4]
    + 8 * bits[i + 5] + 4 * bits[i + 6] + 2 * bits[i + 7] + bits[i + 8]

Number(bits) == 256 * ByteAt(bits, 0) + ByteAt(bits, 8)
-----------------------------------------------------------------------------
Xor(a, b) == [k \in 1 .. Width |-> (a[k] + b[k]) % 2]
ShiftLeft(crc) == Tail(crc) \o <<0>>

ShiftWithoutCarry == [crc \in Registers |-> ShiftLeft(crc)]

(* One iteration of the inner loop: uint16_t drops the bit shifted out.    *)
Shift ==
  [crc \in Registers |->
     IF crc[1] = 1 THEN Xor(ShiftLeft(crc), Polynomial) ELSE ShiftLeft(crc)]

EightShifts(crc) ==
  Shift[Shift[Shift[Shift[Shift[Shift[Shift[Shift[crc]]]]]]]]

(* One iteration of the outer loop: the byte is added to the upper half.   *)
NextByte(crc, byte) ==
  EightShifts(Xor(crc, BitsOf(byte) \o <<0, 0, 0, 0, 0, 0, 0, 0>>))

mjpeg_crc16_ccitt(data) ==
  LET crc[i \in 0 .. Len(data)] ==
        IF i = 0 THEN Start ELSE NextByte(crc[i - 1], data[i])
  IN  Number(crc[Len(data)])
-----------------------------------------------------------------------------
(* The bits of a polynomial over GF(2) are its coefficients, the one of    *)
(* the highest power first.  Those of its product with the divisor,        *)
(* x^16 + x^12 + x^5 + 1, one by one.                                      *)
At(q, k) == IF k \in DOMAIN q THEN q[k] ELSE 0
TimesDivisor(q, k) == (At(q, k) + At(q, k - 4) + At(q, k - 11) + At(q, k - 16)) % 2

(* The quotient: its product with the divisor agrees with the dividend     *)
(* down to the power sixteen.                                              *)
Quotient(bits) ==
  LET q[k \in 1 .. Len(bits) - Width] ==
        LET Earlier(d) == IF k > d THEN q[k - d] ELSE 0
        IN  (bits[k] + Earlier(4) + Earlier(11) + Earlier(16)) % 2
  IN  q

(* The remainder: what that product and the dividend differ by.            *)
Remainder(bits) ==
  LET n == Len(bits) - Width
  IN  [l \in 1 .. Width |->
         (bits[n + l] + TimesDivisor(Quotient(bits), n + l)) % 2]

(* The message as the sender must see it: sixteen zeros after it, and the  *)
(* initial value of the register added to its first sixteen bits.          *)
MessageBit(message, k) ==
  IF k <= 8 * Len(message)
  THEN BitsOf(message[(k - 1) \div 8 + 1])[((k - 1) % 8) + 1] ELSE 0
Padded(message) ==
  [k \in 1 .. 8 * Len(message) + Width |->
     (MessageBit(message, k) + (IF k <= Width THEN 1 ELSE 0)) % 2]

(* CRC-16-CCITT, by definition.                                            *)
Ccitt(message) == Number(Remainder(Padded(message)))
=============================================================================
