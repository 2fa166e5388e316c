------------------------- MODULE MjpegProtocolProofs -------------------------
(***************************************************************************)
(* Proofs about MjpegProtocol, for any limit of the JPEG's size, any       *)
(* checksum of sixteen bits and any bytes; and about Crc16, that the       *)
(* code's checksum is the one its definition says.                         *)
(***************************************************************************)
EXTENDS MCMjpegProtocol, SequenceTheorems, WellFoundedInduction, TLAPS

Byte == {b \in Nat : b < 256}
BufferSize == HeaderSize + MaxJpeg + CrcSize

-----------------------------------------------------------------------------
(* A set of numbers has a least one.                                       *)
LEMMA Least ==
  ASSUME NEW T \in SUBSET Nat, T # {}
  PROVE  \E n \in T : \A m \in T : n <= m
<1> DEFINE R == OpToRel(<, Nat)
<1>1. IsWellFoundedOn(R, Nat)
  BY NatLessThanWellFounded
<1>2. \A m, n \in Nat : m < n => <<m, n>> \in R
  BY DEF OpToRel
<1> HIDE DEF R
<1>3. PICK n \in T : \A m \in T : ~ (<<m, n>> \in R)
  BY <1>1, WFMin
<1>4. ASSUME NEW m \in T PROVE n <= m
  <2>1. m \in Nat /\ n \in Nat
    OBVIOUS
  <2>2. ~ (<<m, n>> \in R)
    BY <1>3
  <2>3. ~ (m < n)
    BY ZenonT(30), <2>1, <2>2, <1>2
  <2> QED BY <2>1, <2>3
<1> QED BY <1>4

(* The search for EOI has come to i from above the first i places: e is    *)
(* what it should find among them.                                         *)
Found(jpeg, i, e) ==
  \/ e = 0 /\ \A k \in 1 .. i : ~IsMarkerAt(jpeg, k, EOI)
  \/ /\ e \in 2 .. i + 1 /\ IsMarkerAt(jpeg, e - 1, EOI)
     /\ \A k \in e .. i : ~IsMarkerAt(jpeg, k, EOI)

(* There is one thing to find.                                             *)
LEMMA FoundOnce ==
  ASSUME NEW jpeg, NEW i \in Nat
  PROVE  /\ \E e \in Nat : Found(jpeg, i, e)
         /\ \A e, f \in Nat : Found(jpeg, i, e) /\ Found(jpeg, i, f) => e = f
<1> DEFINE Is(k) == IsMarkerAt(jpeg, k, EOI)
<1>1. \A e : Found(jpeg, i, e) <=>
        \/ e = 0 /\ \A k \in 1 .. i : ~Is(k)
        \/ e \in 2 .. i + 1 /\ Is(e - 1) /\ \A k \in e .. i : ~Is(k)
  BY DEF Found
<1> HIDE DEF Is
<1>2. \E e \in Nat : Found(jpeg, i, e)
  <2>1. CASE \A k \in 1 .. i : ~Is(k)
    BY <1>1, <2>1
  <2>2. CASE \E k \in 1 .. i : Is(k)
    <3> DEFINE T == {d \in 0 .. i - 1 : Is(i - d)}
    <3>1. PICK k \in 1 .. i : Is(k)
      BY <2>2
    <3>2. T \in SUBSET Nat /\ T # {}
      <4>1. i - k \in 0 .. i - 1 /\ i - (i - k) = k
        OBVIOUS
      <4>2. i - k \in T
        BY <3>1, <4>1
      <4> QED BY <4>2
    <3>3. PICK d \in T : \A c \in T : d <= c
      BY <3>2, Least
    <3> DEFINE e == i - d + 1
    <3>4. d \in 0 .. i - 1 /\ e \in 2 .. i + 1 /\ e - 1 = i - d /\ Is(e - 1)
      BY <3>3
    <3>5. ASSUME NEW j \in e .. i, Is(j) PROVE FALSE
      <4>1. i - j \in 0 .. i - 1 /\ i - (i - j) = j /\ i - j < d
        BY <3>4
      <4>2. i - j \in T
        BY <3>5, <4>1
      <4>3. d <= i - j
        <5> HIDE DEF T
        <5> QED BY <4>2, <3>3
      <4> QED BY <4>1, <4>3, <3>4
    <3> HIDE DEF e
    <3>6. e \in Nat /\ Found(jpeg, i, e)
      BY <3>4, <3>5, <1>1
    <3> QED BY <3>6
  <2> QED BY <2>1, <2>2
<1>3. ASSUME NEW e \in Nat, NEW f \in Nat, Found(jpeg, i, e), Found(jpeg, i, f)
      PROVE  e = f
  <2>1. ASSUME NEW a \in Nat, NEW b \in Nat, a < b,
               Found(jpeg, i, a), Found(jpeg, i, b)
        PROVE  FALSE
    <3>1. b \in 2 .. i + 1 /\ Is(b - 1)
      BY <1>1, <2>1
    <3>2. b - 1 \in 1 .. i /\ a <= b - 1
      BY <3>1, <2>1
    <3>3. CASE a = 0
      BY <1>1, <2>1, <3>1, <3>2, <3>3
    <3>4. CASE a # 0
      <4>1. b - 1 \in a .. i /\ \A k \in a .. i : ~Is(k)
        BY <1>1, <2>1, <3>2, <3>4
      <4> QED BY <4>1, <3>1
    <3> QED BY <3>3, <3>4
  <2> QED BY <2>1, <1>3
<1> QED BY <1>2, <1>3

(* The search from the end finds the last EOI marker.                      *)
LEMMA LastEoiFinds ==
  ASSUME NEW jpeg, Len(jpeg) \in Nat, Len(jpeg) >= 1
  PROVE  LastEoi(jpeg) \in Nat /\ Found(jpeg, Len(jpeg) - 1, LastEoi(jpeg))
<1> DEFINE I == 0 .. Len(jpeg) - 1
           Is(k) == IsMarkerAt(jpeg, k, EOI)
           Body(f, i) == IF i = 0 THEN 0 ELSE IF Is(i) THEN i + 1 ELSE f[i - 1]
           search == CHOOSE f : f = [i \in I |-> Body(f, i)]
           g == [i \in I |-> CHOOSE e \in Nat : Found(jpeg, i, e)]
<1>1. LastEoi(jpeg) = search[Len(jpeg) - 1]
  BY DEF LastEoi
<1>2. \A i \in Nat : \A e : Found(jpeg, i, e) <=>
        \/ e = 0 /\ \A k \in 1 .. i : ~Is(k)
        \/ e \in 2 .. i + 1 /\ Is(e - 1) /\ \A k \in e .. i : ~Is(k)
  BY DEF Found
<1> HIDE DEF Is
<1>3. ASSUME NEW i \in Nat, i > 0, Is(i) PROVE Found(jpeg, i, i + 1)
  BY <1>2, <1>3
<1>4. ASSUME NEW i \in Nat, i > 0, ~Is(i), NEW e \in Nat, Found(jpeg, i - 1, e)
      PROVE  Found(jpeg, i, e)
  <2>1. i - 1 \in Nat
    BY <1>4
  <2>2. CASE e = 0 /\ \A k \in 1 .. i - 1 : ~Is(k)
    BY <1>2, <1>4, <2>2
  <2>3. CASE e \in 2 .. i /\ Is(e - 1) /\ \A k \in e .. i - 1 : ~Is(k)
    BY <1>2, <1>4, <2>3
  <2>4. (i - 1) + 1 = i
    BY <1>4
  <2> QED BY <1>2, <1>4, <2>1, <2>2, <2>3, <2>4
<1>5. Found(jpeg, 0, 0)
  BY <1>2
<1>6. ASSUME NEW i \in I PROVE g[i] \in Nat /\ Found(jpeg, i, g[i])
  BY FoundOnce
<1>7. ASSUME NEW i \in I PROVE g[i] = Body(g, i)
  <2> HIDE DEF g
  <2>0. i \in Nat /\ g[i] \in Nat /\ Found(jpeg, i, g[i])
    BY <1>6
  <2>1. CASE i = 0
    BY <2>0, <2>1, <1>5, FoundOnce
  <2>2. CASE i # 0 /\ Is(i)
    BY <2>0, <2>2, <1>3, FoundOnce
  <2>3. CASE i # 0 /\ ~Is(i)
    <3>1. i - 1 \in I
      BY <2>3
    <3>2. g[i - 1] \in Nat /\ Found(jpeg, i - 1, g[i - 1])
      BY <3>1, <1>6
    <3>3. Found(jpeg, i, g[i - 1])
      BY <3>2, <2>0, <2>3, <1>4
    <3> QED BY <2>0, <2>3, <3>2, <3>3, FoundOnce
  <2> QED BY <2>1, <2>2, <2>3
<1>8. g = [i \in I |-> Body(g, i)]
  <2>1. g = [i \in I |-> g[i]]
    OBVIOUS
  <2> HIDE DEF g
  <2> QED BY <2>1, <1>7
<1>9. search = [i \in I |-> Body(search, i)]
  BY <1>8
<1> HIDE DEF search, g
<1>10. \A i \in I : search[i] \in Nat /\ Found(jpeg, i, search[i])
  <2> DEFINE D == {i \in I : ~(search[i] \in Nat /\ Found(jpeg, i, search[i]))}
  <2> SUFFICES ASSUME D # {} PROVE FALSE
    OBVIOUS
  <2>1. D \in SUBSET Nat
    OBVIOUS
  <2>2. PICK i \in D : \A j \in D : i <= j
    BY <2>1, Least
  <2>3. i \in I /\ i \in Nat /\ search[i] = Body(search, i)
    BY <1>9, <2>2
  <2>4. CASE i = 0
    BY <2>2, <2>3, <2>4, <1>5
  <2>5. CASE i # 0 /\ Is(i)
    BY <2>2, <2>3, <2>5, <1>3
  <2>6. CASE i # 0 /\ ~Is(i)
    <3>1. i - 1 \in I /\ i - 1 \notin D
      BY <2>2, <2>3, <2>6
    <3>2. search[i - 1] \in Nat /\ Found(jpeg, i - 1, search[i - 1])
      BY <3>1
    <3>3. Found(jpeg, i, search[i - 1])
      BY <3>2, <2>3, <2>6, <1>4
    <3> QED BY <2>2, <2>3, <2>6, <3>2, <3>3
  <2> QED BY <2>4, <2>5, <2>6
<1> QED BY <1>1, <1>10

(* The result of the validation is right: an error when there is nothing   *)
(* to pack, and otherwise the size of what should be packed.               *)
LEMMA ValidateIs ==
  ASSUME NEW jpeg \in Frames
  PROVE  LET size == mjpeg_validate_jpeg_data(jpeg) IN
         \/ size \in {EINVAL, EBADMSG} /\ ShouldPack(jpeg) = None
         \/ /\ size \in 4 .. MaxJpeg /\ size <= Len(jpeg)
            /\ ShouldPack(jpeg) = SubSeq(jpeg, 1, size)
<1> DEFINE n == Len(jpeg)
           e == LastEoi(jpeg)
           C == Complete(jpeg)
<1>1. n \in Nat /\ MaxJpeg \in Nat
  BY SizesAssumption DEF Frames, IsUint32
<1>2. CASE n \notin 4 .. MaxJpeg
  <2>1. n > MaxJpeg \/ C = {}
    BY <1>1, <1>2 DEF Complete
  <2> QED BY <1>2, <2>1 DEF mjpeg_validate_jpeg_data, ShouldPack
<1>3. CASE n \in 4 .. MaxJpeg /\ ~IsMarkerAt(jpeg, 1, SOI)
  <2>1. C = {}
    BY <1>3 DEF Complete
  <2> QED BY <1>3, <2>1 DEF mjpeg_validate_jpeg_data, ShouldPack
<1>4. CASE n \in 4 .. MaxJpeg /\ IsMarkerAt(jpeg, 1, SOI)
  <2>1. /\ e \in Nat
        /\ \/ e = 0 /\ \A k \in 1 .. n - 1 : ~IsMarkerAt(jpeg, k, EOI)
           \/ /\ e \in 2 .. n /\ IsMarkerAt(jpeg, e - 1, EOI)
              /\ \A k \in e .. n - 1 : ~IsMarkerAt(jpeg, k, EOI)
    BY <1>1, <1>4, LastEoiFinds DEF Found
  <2> HIDE DEF e, n
  <2>2. \A m : m \in C <=> m \in 4 .. n /\ IsMarkerAt(jpeg, m - 1, EOI)
    BY <1>4 DEF Complete, n
  <2>3. CASE e = 0
    <3>1. C = {}
      BY <1>1, <2>1, <2>2, <2>3
    <3> QED BY <1>4, <2>3, <3>1 DEF mjpeg_validate_jpeg_data, ShouldPack, e, n
  <2>4. CASE e # 0
    <3>1. jpeg[1] = 255 /\ jpeg[2] = 216
      BY <1>4 DEF IsMarkerAt, FF, SOI
    <3>2. e # 2 /\ e # 3
      BY <2>1, <2>4, <3>1 DEF IsMarkerAt, FF, EOI
    <3>3. e \in 4 .. n /\ e \in C
      BY <1>1, <2>1, <2>2, <2>4, <3>2
    <3>4. ASSUME NEW m \in C PROVE m <= e
      <4>1. m \in 4 .. n /\ IsMarkerAt(jpeg, m - 1, EOI)
        BY <2>2
      <4>2. m - 1 \notin e .. n - 1
        BY <2>1, <2>4, <4>1
      <4> QED BY <1>1, <3>3, <4>1, <4>2
    <3> DEFINE c == CHOOSE m \in C : \A k \in C : k <= m
    <3>5. c \in C /\ \A k \in C : k <= c
      BY <3>3, <3>4
    <3>6. c = e
      <4>1. c \in Nat /\ e \in Nat
        BY <1>1, <2>2, <3>3, <3>5
      <4>2. c <= e /\ e <= c
        BY <3>3, <3>4, <3>5
      <4> HIDE DEF c
      <4> QED BY <4>1, <4>2
    <3>7. ShouldPack(jpeg) = SubSeq(jpeg, 1, e)
      <4>1. ~(n > MaxJpeg) /\ C # {}
        BY <1>1, <1>4, <3>3
      <4>2. ShouldPack(jpeg) = SubSeq(jpeg, 1, c)
        BY <4>1 DEF ShouldPack, n
      <4> QED BY <4>2, <3>6
    <3>8. mjpeg_validate_jpeg_data(jpeg) = e
      BY <1>4, <2>4 DEF mjpeg_validate_jpeg_data, e, n
    <3>9. e \in 4 .. MaxJpeg /\ e <= n
      BY <1>1, <1>4, <3>3
    <3> QED BY <3>7, <3>8, <3>9 DEF n
  <2> QED BY <2>3, <2>4
<1> QED BY <1>2, <1>3, <1>4

-----------------------------------------------------------------------------
(* A number of 16 or 32 bits is read back as it was written.               *)
LEMMA Uint16Parts ==
  ASSUME NEW n, IsUint16(n)
  PROVE  /\ Uint16(n) \in Seq(Byte) /\ Len(Uint16(n)) = 2
         /\ Uint16(n)[1] \in Byte /\ Uint16(n)[2] \in Byte
         /\ Uint16(n)[1] + 256 * Uint16(n)[2] = n
<1>1. n % 256 \in Byte /\ n \div 256 \in Byte /\ (n % 256) + 256 * (n \div 256) = n
  BY DEF Byte, IsUint16
<1> QED BY <1>1 DEF Uint16

(* Two sequences of bytes, one after the other.                            *)
LEMMA Joined ==
  ASSUME NEW s \in Seq(Byte), NEW t \in Seq(Byte)
  PROVE  /\ s \o t \in Seq(Byte) /\ Len(s \o t) = Len(s) + Len(t)
         /\ \A i \in 1 .. Len(s) : (s \o t)[i] = s[i]
         /\ \A i \in 1 .. Len(t) : (s \o t)[Len(s) + i] = t[i]
<1>1. /\ s \o t \in Seq(Byte) /\ Len(s \o t) = Len(s) + Len(t)
      /\ Len(s) \in Nat /\ Len(t) \in Nat
      /\ \A i \in 1 .. Len(s) + Len(t) :
           (s \o t)[i] = IF i <= Len(s) THEN s[i] ELSE t[i - Len(s)]
  BY ConcatProperties
<1>2. ASSUME NEW i \in 1 .. Len(t) PROVE (s \o t)[Len(s) + i] = t[i]
  <2>1. /\ Len(s) + i \in 1 .. Len(s) + Len(t) /\ ~(Len(s) + i <= Len(s))
        /\ (Len(s) + i) - Len(s) = i
    BY <1>1
  <2> QED BY <1>1, <2>1
<1>3. ASSUME NEW i \in 1 .. Len(s) PROVE (s \o t)[i] = s[i]
  BY <1>1
<1> QED BY <1>1, <1>2, <1>3

(* The same of four bytes.                                                 *)
LEMMA Uint32Parts ==
  ASSUME NEW n, IsUint32(n)
  PROVE  /\ Uint32(n) \in Seq(Byte) /\ Len(Uint32(n)) = 4
         /\ \A i \in 1 .. 4 : Uint32(n)[i] \in Byte
         /\ Uint32At(Uint32(n), 1) = n
<1> DEFINE l == n % 65536
           h == n \div 65536
           s == Uint16(l)
           t == Uint16(h)
<1>1. IsUint16(l) /\ IsUint16(h) /\ l + 65536 * h = n
  BY DEF IsUint32, IsUint16
<1> HIDE DEF l, h
<1>2. /\ s \in Seq(Byte) /\ Len(s) = 2 /\ s[1] \in Byte /\ s[2] \in Byte
      /\ s[1] + 256 * s[2] = l
  BY <1>1, Uint16Parts
<1>3. /\ t \in Seq(Byte) /\ Len(t) = 2 /\ t[1] \in Byte /\ t[2] \in Byte
      /\ t[1] + 256 * t[2] = h
  BY <1>1, Uint16Parts
<1> HIDE DEF s, t
<1>4. /\ s \o t \in Seq(Byte) /\ Len(s \o t) = 4
      /\ (s \o t)[1] = s[1] /\ (s \o t)[2] = s[2]
      /\ (s \o t)[3] = t[1] /\ (s \o t)[4] = t[2]
  <2>1. /\ s \o t \in Seq(Byte) /\ Len(s \o t) = Len(s) + Len(t)
        /\ \A i \in 1 .. Len(s) : (s \o t)[i] = s[i]
        /\ \A i \in 1 .. Len(t) : (s \o t)[Len(s) + i] = t[i]
    BY <1>2, <1>3, Joined
  <2>2. 1 \in 1 .. 2 /\ 2 \in 1 .. 2 /\ 2 + 1 = 3 /\ 2 + 2 = 4
    OBVIOUS
  <2> QED BY <2>1, <2>2, <1>2, <1>3
<1>5. Uint32(n) = s \o t
  BY DEF Uint32, s, t, l, h
<1>6. \A i \in 1 .. 4 : i = 1 \/ i = 2 \/ i = 3 \/ i = 4
  OBVIOUS
<1>7. Uint32At(s \o t, 1) = n
  BY <1>1, <1>2, <1>3, <1>4 DEF Uint32At, Uint16At
<1> QED BY <1>2, <1>3, <1>4, <1>5, <1>6, <1>7

(* The header: the sync word, the number and the size.                     *)
LEMMA HeaderParts ==
  ASSUME NEW number, IsUint32(number), NEW size, IsUint32(size)
  PROVE  LET h == Header(number, size) IN
         /\ h \in Seq(Byte) /\ Len(h) = HeaderSize
         /\ \A i \in 1 .. 4 : /\ h[i] = SyncWord[i]
                             /\ h[4 + i] = Uint32(number)[i]
                             /\ h[8 + i] = Uint32(size)[i]
<1> DEFINE a == SyncWord
           b == Uint32(number)
           c == Uint32(size)
<1>1. a \in Seq(Byte) /\ Len(a) = 4
  BY DEF SyncWord, Byte
<1>2. b \in Seq(Byte) /\ Len(b) = 4 /\ c \in Seq(Byte) /\ Len(c) = 4
  BY Uint32Parts
<1>3. Header(number, size) = (a \o b) \o c
  BY DEF Header
<1> HIDE DEF a, b, c
<1> DEFINE d == a \o b
           h == d \o c
<1>4. /\ d \in Seq(Byte) /\ Len(d) = Len(a) + Len(b)
      /\ \A i \in 1 .. Len(a) : d[i] = a[i]
      /\ \A i \in 1 .. Len(b) : d[Len(a) + i] = b[i]
  BY <1>1, <1>2, Joined
<1> HIDE DEF d
<1>5. /\ h \in Seq(Byte) /\ Len(h) = Len(d) + Len(c)
      /\ \A i \in 1 .. Len(d) : h[i] = d[i]
      /\ \A i \in 1 .. Len(c) : h[Len(d) + i] = c[i]
  BY <1>2, <1>4, Joined
<1> HIDE DEF h
<1>6. ASSUME NEW i \in 1 .. 4
      PROVE  h[i] = a[i] /\ h[4 + i] = b[i] /\ h[8 + i] = c[i]
  <2>1. i \in 1 .. 8 /\ 4 + i \in 1 .. 8 /\ Len(d) = 8
    BY <1>1, <1>2, <1>4
  <2> QED BY <2>1, <1>1, <1>2, <1>4, <1>5
<1>7. h \in Seq(Byte) /\ Len(h) = 12
  BY <1>1, <1>2, <1>4, <1>5
<1> QED BY <1>3, <1>6, <1>7 DEF a, b, c, d, h, HeaderSize

(* The first bytes of a frame.                                             *)
LEMMA Prefix ==
  ASSUME NEW jpeg \in Frames, NEW n \in Nat, n <= Len(jpeg)
  PROVE  LET part == SubSeq(jpeg, 1, n) IN
         /\ part \in Frames /\ part \in Seq(Byte) /\ Len(part) = n
         /\ \A i \in 1 .. n : part[i] = jpeg[i]
<1>1. Len(jpeg) \in 0 .. MaxInput /\ \A i \in 1 .. Len(jpeg) : jpeg[i] \in Bytes
  BY SizesAssumption DEF Frames
<1>2. \A b \in Bytes : b \in Byte
  BY SizesAssumption DEF Byte
<1> DEFINE part == SubSeq(jpeg, 1, n)
<1>3. \A i \in 1 .. n : jpeg[i] \in Bytes
  BY <1>1
<1>4. /\ part \in Seq(Bytes) /\ Len(part) = IF 1 <= n THEN n - 1 + 1 ELSE 0
      /\ \A i \in 1 .. n - 1 + 1 : part[i] = jpeg[1 + i - 1]
  BY <1>3, SubSeqProperties
<1> HIDE DEF part
<1>5. Len(part) = n /\ \A i \in 1 .. n : part[i] = jpeg[i]
  BY <1>4
<1>6. part \in [1 .. n -> Bytes] /\ n \in 0 .. MaxInput
  <2>1. n \in 0 .. MaxInput
    BY <1>1, SizesAssumption
  <2>2. part \in Seq(Bytes) /\ Len(part) = n
    BY <1>4, <1>5
  <2> QED BY <2>1, <2>2
<1>7. part \in Frames
  BY <1>6 DEF Frames
<1>8. part \in Seq(Byte)
  BY <1>2, <1>4
<1> QED BY <1>5, <1>7, <1>8 DEF part

(* The bytes the checksum is of.                                           *)
Body(jpeg, size) == Header(sequence, size) \o SubSeq(jpeg, 1, size)

(* What mjpeg_pack_frame leaves in the buffer: the header and the JPEG,    *)
(* then the checksum, then what was there before.                          *)
LEMMA PacketIs ==
  ASSUME packet \in Seq(Byte), Len(packet) = BufferSize, IsUint32(sequence),
         sequence \in 0 .. Numbers - 1,
         NEW jpeg \in Frames, NEW size \in 4 .. MaxJpeg, size <= Len(jpeg)
  PROVE  LET body == Body(jpeg, size)
             new == Written(WithCrc(body)) IN
         /\ body \in Seq(Byte) /\ Len(body) = HeaderSize + size
         /\ \A i \in 1 .. HeaderSize : body[i] = Header(sequence, size)[i]
         /\ \A i \in 1 .. size : body[HeaderSize + i] = jpeg[i]
         /\ IsUint16(Checksum(body))
         /\ new \in Seq(Byte) /\ Len(new) = BufferSize
         /\ \A i \in 1 .. HeaderSize + size : new[i] = body[i]
         /\ new[HeaderSize + size + 1] = Uint16(Checksum(body))[1]
         /\ new[HeaderSize + size + 2] = Uint16(Checksum(body))[2]
<1> DEFINE h == Header(sequence, size)
           part == SubSeq(jpeg, 1, size)
           body == Body(jpeg, size)
           new == Written(WithCrc(body))
           crc == Uint16(Checksum(body))
<1>1. size \in Nat /\ MaxJpeg \in Nat /\ size >= 4 /\ size <= MaxJpeg /\ IsUint32(size)
  BY SizesAssumption DEF IsUint32, IsUint16
<1>2. h \in Seq(Byte) /\ Len(h) = 12
  BY <1>1, HeaderParts DEF HeaderSize
<1>3. /\ part \in Frames /\ part \in Seq(Byte) /\ Len(part) = size
      /\ \A i \in 1 .. size : part[i] = jpeg[i]
  BY <1>1, Prefix
<1>4. IsUint16(Checksum(body))
  BY <1>3, ChecksumAssumption DEF Body
<1>5. crc \in Seq(Byte) /\ Len(crc) = 2
  BY <1>4, Uint16Parts
<1>6. body = h \o part
  BY DEF Body
<1> HIDE DEF h, part, body
<1>7. /\ body \in Seq(Byte) /\ Len(body) = 12 + size
      /\ \A i \in 1 .. 12 : body[i] = h[i]
      /\ \A i \in 1 .. size : body[12 + i] = part[i]
  <2>1. /\ h \o part \in Seq(Byte) /\ Len(h \o part) = Len(h) + Len(part)
        /\ \A i \in 1 .. Len(h) : (h \o part)[i] = h[i]
        /\ \A i \in 1 .. Len(part) : (h \o part)[Len(h) + i] = part[i]
    BY <1>2, <1>3, Joined
  <2> QED BY <2>1, <1>2, <1>3, <1>6
<1> DEFINE bytes == body \o crc
           rest == SubSeq(packet, Len(bytes) + 1, Len(packet))
<1> HIDE DEF crc
<1>8. /\ bytes \in Seq(Byte) /\ Len(bytes) = Len(body) + Len(crc)
      /\ \A i \in 1 .. Len(body) : bytes[i] = body[i]
      /\ \A i \in 1 .. Len(crc) : bytes[Len(body) + i] = crc[i]
  BY <1>5, <1>7, Joined
<1>9. new = bytes \o rest
  BY DEF Written, WithCrc, crc
<1> HIDE DEF bytes, new
<1>10. /\ Len(bytes) = 14 + size
       /\ bytes[13 + size] = crc[1] /\ bytes[14 + size] = crc[2]
  <2>1. 1 \in 1 .. Len(crc) /\ 2 \in 1 .. Len(crc)
    BY <1>5
  <2>2. bytes[Len(body) + 1] = crc[1] /\ bytes[Len(body) + 2] = crc[2]
    BY <1>8, <2>1
  <2>3. Len(body) + 1 = 13 + size /\ Len(body) + 2 = 14 + size
    BY <1>1, <1>7
  <2>4. Len(bytes) = Len(body) + 2 /\ Len(body) + 2 = 14 + size
    BY <2>3, <1>5, <1>8
  <2> QED BY <2>2, <2>3, <2>4
<1>11. rest \in Seq(Byte) /\ Len(rest) = MaxJpeg - size
  <2>1. Len(packet) = 14 + MaxJpeg
    BY <1>1 DEF BufferSize, HeaderSize, CrcSize
  <2>2. \A i \in 15 + size .. 14 + MaxJpeg : packet[i] \in Byte
    BY <1>1, <2>1
  <2>3. rest = SubSeq(packet, 15 + size, 14 + MaxJpeg)
    BY <1>1, <1>10, <2>1
  <2> HIDE DEF rest
  <2>4. 15 + size \in Int /\ 14 + MaxJpeg \in Int
    BY <1>1
  <2>5. /\ rest \in Seq(Byte)
        /\ Len(rest) = IF 15 + size <= 14 + MaxJpeg
                       THEN (14 + MaxJpeg) - (15 + size) + 1 ELSE 0
    BY <2>2, <2>3, <2>4, SubSeqProperties
  <2> QED BY <1>1, <2>5
<1> HIDE DEF rest
<1>12. /\ new \in Seq(Byte) /\ Len(new) = Len(bytes) + Len(rest)
       /\ \A i \in 1 .. Len(bytes) : new[i] = bytes[i]
  <2>1. /\ bytes \o rest \in Seq(Byte) /\ Len(bytes \o rest) = Len(bytes) + Len(rest)
        /\ \A i \in 1 .. Len(bytes) : (bytes \o rest)[i] = bytes[i]
    BY <1>8, <1>11, Joined
  <2> QED BY <2>1, <1>9
<1>13. Len(new) = BufferSize
  BY <1>1, <1>10, <1>11, <1>12 DEF BufferSize, HeaderSize, CrcSize
<1>14. ASSUME NEW i \in 1 .. 12 + size PROVE new[i] = body[i]
  <2>1. i \in 1 .. 14 + size
    BY <1>1
  <2>2. i \in 1 .. Len(bytes) /\ i \in 1 .. Len(body)
    BY <2>1, <1>7, <1>10
  <2> QED BY <2>2, <1>8, <1>12
<1>15. new[13 + size] = crc[1] /\ new[14 + size] = crc[2]
  <2>1. 13 + size \in 1 .. Len(bytes) /\ 14 + size \in 1 .. Len(bytes)
    BY <1>1, <1>10
  <2> QED BY <2>1, <1>10, <1>12
<1>16. HeaderSize = 12 /\ 12 + size + 1 = 13 + size /\ 12 + size + 2 = 14 + size
  BY <1>1 DEF HeaderSize
<1>17. \A i \in 1 .. size : body[12 + i] = jpeg[i]
  BY <1>3, <1>7
<1> QED BY <1>4, <1>7, <1>12, <1>13, <1>14, <1>15, <1>16, <1>17
        DEF h, crc, body, new

(* A byte is a number of eight bits.                                       *)
LEMMA ByteIs == 0 .. 255 = Byte
<1>1. \A m : m = 255 => 0 .. m = Byte
  BY DEF Byte
<1> QED BY Zenon, <1>1

(* The packet buffer as a sequence of bytes.                               *)
LEMMA BufferIs ==
  ASSUME NEW p
  PROVE  p \in [1 .. BufferSize -> Byte] <=> p \in Seq(Byte) /\ Len(p) = BufferSize
<1>1. BufferSize \in Nat
  BY SizesAssumption DEF BufferSize, HeaderSize, CrcSize, IsUint32
<1> HIDE DEF BufferSize
<1>2. ASSUME p \in [1 .. BufferSize -> Byte]
      PROVE  p \in Seq(Byte) /\ Len(p) = BufferSize
  BY <1>1, <1>2, SeqDef, LenProperties
<1>3. ASSUME p \in Seq(Byte), Len(p) = BufferSize
      PROVE  p \in [1 .. BufferSize -> Byte]
  BY <1>3, LenProperties
<1> QED BY <1>2, <1>3

(* Type correctness in the words of the lemmas above.                      *)
LEMMA TypeIs ==
  TypeOK <=> /\ sequence \in 0 .. Numbers - 1
             /\ packet \in Seq(Byte) /\ Len(packet) = BufferSize
             /\ result \in {EINVAL, EBADMSG}
                        \cup HeaderSize + 4 + CrcSize .. BufferSize
             /\ expected = None \/ Len(expected) \in 4 .. MaxJpeg
<1>1. [1 .. HeaderSize + MaxJpeg + CrcSize -> 0 .. 255]
        = [1 .. BufferSize -> Byte]
  BY Zenon, ByteIs DEF BufferSize
<1> QED BY Zenon, <1>1, BufferIs DEF TypeOK, BufferSize

-----------------------------------------------------------------------------
(* The sequence number fits its field, and so does its successor.          *)
LEMMA SequenceFits ==
  ASSUME sequence \in 0 .. Numbers - 1
  PROVE  IsUint32(sequence) /\ Successor(sequence) \in 0 .. Numbers - 1
<1>1. /\ Numbers \in Nat /\ Numbers > 0
      /\ (Numbers - 1) \div 65536 \in Nat /\ (Numbers - 1) \div 65536 < 65536
  BY SizesAssumption DEF IsUint32, IsUint16
<1>2. sequence \in Nat /\ sequence <= Numbers - 1
  BY <1>1
<1>3. sequence \div 65536 \in Nat /\ sequence \div 65536 <= (Numbers - 1) \div 65536
  BY <1>1, <1>2
<1>4. IsUint32(sequence)
  BY <1>1, <1>2, <1>3 DEF IsUint32, IsUint16
<1>5. Successor(sequence) \in 0 .. Numbers - 1
  BY <1>1, <1>2 DEF Successor
<1> QED BY <1>4, <1>5

(* Four bytes of a sequence that are those of a number in memory are read  *)
(* as that number.                                                         *)
LEMMA ReadBack ==
  ASSUME NEW n, IsUint32(n), NEW bytes, NEW k \in Nat, NEW m, m = k + 1,
         \A i \in 1 .. 4 : bytes[k + i] = Uint32(n)[i]
  PROVE  Uint32At(bytes, m) = n
<1>1. /\ bytes[k + 1] = Uint32(n)[1] /\ bytes[k + 2] = Uint32(n)[2]
      /\ bytes[k + 3] = Uint32(n)[3] /\ bytes[k + 4] = Uint32(n)[4]
  BY 1 \in 1 .. 4, 2 \in 1 .. 4, 3 \in 1 .. 4, 4 \in 1 .. 4
<1> DEFINE Value(a, b, c, d) == (a + 256 * b) + 65536 * (c + 256 * d)
<1>2. /\ Uint32At(bytes, m)
           = Value(bytes[k + 1], bytes[k + 2], bytes[k + 3], bytes[k + 4])
      /\ Uint32At(Uint32(n), 1)
           = Value(Uint32(n)[1], Uint32(n)[2], Uint32(n)[3], Uint32(n)[4])
  <2>1. /\ m + 1 = k + 2 /\ m + 2 = k + 3 /\ (k + 3) + 1 = k + 4
        /\ 1 + 1 = 2 /\ 1 + 2 = 3 /\ 3 + 1 = 4
    OBVIOUS
  <2> QED BY <2>1 DEF Uint32At, Uint16At
<1>3. Uint32At(Uint32(n), 1) = n
  BY Uint32Parts
<1> HIDE DEF Value
<1> QED BY Zenon, <1>1, <1>2, <1>3

(* A part of a sequence of bytes that agrees with another sequence is it.  *)
LEMMA PartIs ==
  ASSUME NEW s \in Seq(Byte), NEW t \in Seq(Byte), NEW k \in Nat,
         k + Len(t) <= Len(s), \A i \in 1 .. Len(t) : s[k + i] = t[i]
  PROVE  SubSeq(s, k + 1, k + Len(t)) = t
<1> DEFINE n == Len(t)
           part == SubSeq(s, k + 1, k + n)
<1>1. n \in Nat /\ k + 1 \in Int /\ k + n \in Int
  BY LenProperties
<1>2. \A i \in k + 1 .. k + n : s[i] \in Byte
  BY <1>1
<1>3. /\ part \in Seq(Byte)
      /\ Len(part) = IF k + 1 <= k + n THEN (k + n) - (k + 1) + 1 ELSE 0
      /\ \A i \in 1 .. (k + n) - (k + 1) + 1 : part[i] = s[(k + 1) + i - 1]
  BY <1>1, <1>2, SubSeqProperties
<1> HIDE DEF n, part
<1>4. Len(part) = n
  BY <1>1, <1>3
<1>5. ASSUME NEW i \in 1 .. n PROVE part[i] = t[i]
  <2>1. i \in 1 .. (k + n) - (k + 1) + 1 /\ (k + 1) + i - 1 = k + i
    BY <1>1
  <2> QED BY <2>1, <1>3 DEF n
<1> QED BY <1>3, <1>4, <1>5, SeqEqual DEF n, part

-----------------------------------------------------------------------------
(* A valid JPEG: the packet can be read back.                              *)
LEMMA PackStep ==
  ASSUME TypeOK, NEW jpeg \in Frames, Pack(jpeg)
  PROVE  TypeOK' /\ RoundTrip'
<1> DEFINE size == mjpeg_validate_jpeg_data(jpeg)
           h == Header(sequence, size)
           part == SubSeq(jpeg, 1, size)
           body == Body(jpeg, size)
           new == Written(WithCrc(body))
<1>1. /\ sequence \in 0 .. Numbers - 1
      /\ packet \in Seq(Byte) /\ Len(packet) = BufferSize
  BY TypeIs
<1>2. /\ size > 0 /\ packet' = new
      /\ result' = HeaderSize + size + CrcSize
      /\ sequence' = Successor(sequence)
      /\ expected' = ShouldPack(jpeg)
  BY DEF Pack, Body
<1>3. /\ size \in 4 .. MaxJpeg /\ size <= Len(jpeg)
      /\ ShouldPack(jpeg) = part
  BY <1>2, ValidateIs DEF EINVAL, EBADMSG
<1> HIDE DEF size
<1>4. /\ size \in Nat /\ size >= 4 /\ size <= MaxJpeg /\ MaxJpeg \in Nat
      /\ IsUint32(size)
  BY <1>3, SizesAssumption DEF IsUint32, IsUint16
<1>5. IsUint32(sequence) /\ Successor(sequence) \in 0 .. Numbers - 1
  BY <1>1, SequenceFits
<1>6. /\ h \in Seq(Byte) /\ Len(h) = HeaderSize
      /\ \A i \in 1 .. 4 : /\ h[i] = SyncWord[i]
                          /\ h[4 + i] = Uint32(sequence)[i]
                          /\ h[8 + i] = Uint32(size)[i]
  BY <1>4, <1>5, HeaderParts
<1>7. /\ part \in Seq(Byte) /\ Len(part) = size
      /\ \A i \in 1 .. size : part[i] = jpeg[i]
  BY <1>3, <1>4, Prefix
<1>8. /\ body \in Seq(Byte) /\ Len(body) = HeaderSize + size
      /\ \A i \in 1 .. HeaderSize : body[i] = h[i]
      /\ \A i \in 1 .. size : body[HeaderSize + i] = jpeg[i]
      /\ IsUint16(Checksum(body))
      /\ new \in Seq(Byte) /\ Len(new) = BufferSize
      /\ \A i \in 1 .. HeaderSize + size : new[i] = body[i]
      /\ new[HeaderSize + size + 1] = Uint16(Checksum(body))[1]
      /\ new[HeaderSize + size + 2] = Uint16(Checksum(body))[2]
  BY <1>1, <1>3, <1>5, PacketIs
<1> HIDE DEF h, part, body, new
<1>9. HeaderSize = 12 /\ CrcSize = 2 /\ BufferSize = 14 + MaxJpeg
  BY <1>4 DEF HeaderSize, CrcSize, BufferSize
<1>10. ASSUME NEW i \in 1 .. HeaderSize PROVE new[i] = h[i]
  <2>1. i \in 1 .. HeaderSize + size
    BY <1>4, <1>9
  <2> QED BY <2>1, <1>8
<1>11. /\ Uint32At(new, 5) = sequence
       /\ Uint32At(new, 9) = size
  <2>1. ASSUME NEW i \in 1 .. 4
        PROVE  new[4 + i] = Uint32(sequence)[i] /\ new[8 + i] = Uint32(size)[i]
    <3>1. 4 + i \in 1 .. HeaderSize /\ 8 + i \in 1 .. HeaderSize
      BY <1>9
    <3> QED BY <3>1, <1>6, <1>10
  <2>2. ASSUME NEW k, k = 4, NEW m, m = 5 PROVE Uint32At(new, m) = sequence
    <3>1. k \in Nat /\ m = k + 1
      BY <2>2
    <3>2. \A i \in 1 .. 4 : new[k + i] = Uint32(sequence)[i]
      BY <2>1, <2>2
    <3> QED BY <3>1, <3>2, <1>5, ReadBack
  <2>3. ASSUME NEW k, k = 8, NEW m, m = 9 PROVE Uint32At(new, m) = size
    <3>1. k \in Nat /\ m = k + 1
      BY <2>3
    <3>2. \A i \in 1 .. 4 : new[k + i] = Uint32(size)[i]
      BY <2>1, <2>3
    <3> QED BY <3>1, <3>2, <1>4, ReadBack
  <2> QED BY <2>2, <2>3
<1>12. SubSeq(new, 1, 4) = SyncWord
  <2>1. SyncWord \in Seq(Byte) /\ Len(SyncWord) = 4
    BY DEF SyncWord, Byte
  <2>2. ASSUME NEW i \in 1 .. 4 PROVE new[0 + i] = SyncWord[i]
    <3>1. i \in 1 .. HeaderSize /\ 0 + i = i
      BY <1>9
    <3> QED BY <3>1, <1>6, <1>10
  <2>3. 0 + Len(SyncWord) <= Len(new)
    BY <2>1, <1>4, <1>8, <1>9
  <2>4. SubSeq(new, 0 + 1, 0 + Len(SyncWord)) = SyncWord
    BY <2>1, <2>2, <2>3, <1>8, PartIs
  <2> QED BY <2>1, <2>4
<1>13. SubSeq(new, 12 + 1, 12 + size) = part
  <2>1. ASSUME NEW i \in 1 .. size PROVE new[12 + i] = part[i]
    <3>1. 12 + i \in 1 .. 12 + size
      BY <1>4
    <3> QED BY <3>1, <1>7, <1>8, <1>9
  <2>2. 12 + Len(part) <= Len(new)
    BY <1>4, <1>7, <1>8, <1>9
  <2> QED BY <2>1, <2>2, <1>7, <1>8, PartIs
<1>14. SubSeq(new, 1, 12 + size) = body
  <2>1. ASSUME NEW i \in 1 .. Len(body) PROVE new[0 + i] = body[i]
    BY <1>4, <1>8, <1>9
  <2>2. 0 + Len(body) <= Len(new)
    BY <1>4, <1>8, <1>9
  <2>3. SubSeq(new, 0 + 1, 0 + Len(body)) = body
    BY <2>1, <2>2, <1>8, PartIs
  <2> QED BY <2>3, <1>4, <1>8, <1>9
<1>15. Uint16At(new, 12 + size + 1) = Checksum(body)
  <2>1. Uint16(Checksum(body))[1] + 256 * Uint16(Checksum(body))[2] = Checksum(body)
    BY <1>8, Uint16Parts
  <2>2. 12 + size + 1 + 1 = 12 + size + 2
    BY <1>4
  <2>3. Uint16At(new, 12 + size + 1)
          = new[12 + size + 1] + 256 * new[12 + size + 2]
    BY <2>2 DEF Uint16At
  <2>4. /\ new[12 + size + 1] = Uint16(Checksum(body))[1]
        /\ new[12 + size + 2] = Uint16(Checksum(body))[2]
    BY <1>8, <1>9
  <2> QED BY Zenon, <2>1, <2>3, <2>4
<1>16. mjpeg_validate_header(new)
  BY <1>3, <1>4, <1>11, <1>12 DEF mjpeg_validate_header
<1>17. expected' = part /\ part # None
  BY <1>2, <1>3, <1>4, <1>7 DEF None
<1>18. RoundTrip'
  <2> DEFINE end == HeaderSize + Uint32At(new, 9)
  <2>1. end = 12 + size
    BY <1>9, <1>11
  <2>2. /\ mjpeg_validate_header(new)
        /\ Successor(Uint32At(new, 5)) = sequence'
        /\ SubSeq(new, HeaderSize + 1, end) = expected'
        /\ Uint16At(new, end + 1) = Checksum(SubSeq(new, 1, end))
        /\ result' = end + CrcSize
    <3> HIDE DEF end
    <3> QED BY Zenon, <2>1, <1>2, <1>9, <1>11, <1>13, <1>14, <1>15, <1>16, <1>17
  <2>3. expected' # None
    BY <1>17
  <2> QED BY Zenon, <2>2, <2>3, <1>2
         DEF RoundTrip
<1>19. TypeOK'
  <2>1. packet' \in [1 .. BufferSize -> Byte]
    BY <1>2, <1>8, BufferIs
  <2>2. packet' \in [1 .. HeaderSize + MaxJpeg + CrcSize -> 0 .. 255]
    BY Zenon, <2>1, ByteIs DEF BufferSize
  <2>3. result' \in HeaderSize + 4 + CrcSize .. HeaderSize + MaxJpeg + CrcSize
    BY <1>2, <1>4, <1>9
  <2>4. Len(expected') \in 4 .. MaxJpeg
    BY <1>3, <1>7, <1>17
  <2> QED BY Zenon, <2>2, <2>3, <2>4, <1>2, <1>5 DEF TypeOK
<1> QED BY <1>18, <1>19

(* Anything else: an error, and nothing was to be packed.                  *)
LEMMA RejectStep ==
  ASSUME TypeOK, NEW jpeg \in Frames, Reject(jpeg)
  PROVE  TypeOK' /\ RoundTrip'
<1> DEFINE size == mjpeg_validate_jpeg_data(jpeg)
<1>1. /\ size < 0 /\ result' = size /\ expected' = ShouldPack(jpeg)
      /\ sequence' = sequence /\ packet' = packet
  BY DEF Reject
<1>2. MaxJpeg \in Nat
  BY SizesAssumption DEF IsUint32
<1>3. size \in {EINVAL, EBADMSG} /\ ShouldPack(jpeg) = None
  <2> HIDE DEF size
  <2>1. size \notin 4 .. MaxJpeg
    BY <1>1, <1>2
  <2> QED BY <2>1, ValidateIs DEF size
<1> HIDE DEF size
<1>4. TypeOK'
  BY Zenon, <1>1, <1>3 DEF TypeOK
<1>5. RoundTrip'
  BY Zenon, <1>1, <1>3 DEF RoundTrip
<1> QED BY <1>4, <1>5

(* The buffer before the first packet.                                     *)
LEMMA InitTyped == Init => TypeOK /\ RoundTrip
<1> SUFFICES ASSUME Init PROVE TypeOK /\ RoundTrip
  OBVIOUS
<1>1. /\ Numbers \in Nat \ {0} /\ sequence = 0
      /\ packet = [i \in 1 .. BufferSize |-> 0]
      /\ result = EINVAL /\ expected = None
  BY SizesAssumption DEF Init, BufferSize
<1>2. sequence \in 0 .. Numbers - 1
  BY <1>1
<1>3. packet \in [1 .. BufferSize -> Byte]
  BY <1>1, 0 \in Byte DEF Byte
<1>4. packet \in [1 .. HeaderSize + MaxJpeg + CrcSize -> 0 .. 255]
  BY Zenon, <1>3, ByteIs DEF BufferSize
<1>5. result < 0
  BY <1>1 DEF EINVAL
<1>6. TypeOK
  BY Zenon, <1>1, <1>2, <1>4 DEF TypeOK
<1> QED BY Zenon, <1>1, <1>5, <1>6 DEF RoundTrip

(* Every packet of every run of mjpeg_pack_frame is well formed, and the   *)
(* receiver finds in it the JPEG that should have been packed, its number  *)
(* and the right checksum.                                                 *)
LEMMA Both == Spec => [](TypeOK /\ RoundTrip)
<1>1. Init => TypeOK /\ RoundTrip
  BY InitTyped
<1>2. TypeOK /\ RoundTrip /\ [Next]_vars => (TypeOK /\ RoundTrip)'
  <2> SUFFICES ASSUME TypeOK, RoundTrip, [Next]_vars PROVE TypeOK' /\ RoundTrip'
    BY Zenon
  <2>1. CASE UNCHANGED vars
    <3>1. TypeOK'
      BY Zenon, <2>1 DEF TypeOK, vars
    <3>2. RoundTrip'
      BY Zenon, <2>1 DEF RoundTrip, vars
    <3> QED BY <3>1, <3>2
  <2>2. ASSUME NEW jpeg \in Frames, Pack(jpeg) PROVE TypeOK' /\ RoundTrip'
    BY <2>2, PackStep
  <2>3. ASSUME NEW jpeg \in Frames, Reject(jpeg) PROVE TypeOK' /\ RoundTrip'
    BY <2>3, RejectStep
  <2> QED BY <2>1, <2>2, <2>3 DEF Next
<1> QED BY <1>1, <1>2, PTL DEF Spec

(* Type correctness: the size mjpeg_pack_frame returns never exceeds the   *)
(* packet buffer, and the buffer keeps its length and holds bytes.         *)
THEOREM TypeCorrect == Spec => []TypeOK
BY Both, PTL

(* A receiver that checks the header, reads as many bytes as it says and   *)
(* then the checksum, gets the JPEG of the camera's frame without padding, *)
(* with its number, and a frame is rejected exactly when it holds no       *)
(* complete JPEG of a legal size.                                          *)
THEOREM RoundTripHolds == Spec => []RoundTrip
BY Both, PTL
-----------------------------------------------------------------------------
(* The checksum.                                                           *)

(* A sequence of bits without its first one, and a zero after it.          *)
LEMMA ShiftLeftIs ==
  ASSUME NEW w \in Nat, w >= 1, NEW r \in [1 .. w -> Bit]
  PROVE  /\ ShiftLeft(r) \in [1 .. w -> Bit]
         /\ \A l \in 1 .. w : ShiftLeft(r)[l] = IF l < w THEN r[l + 1] ELSE 0
<1> DEFINE t == Tail(r)
           z == <<0>>
<1>1. r \in Seq(Bit) /\ Len(r) = w
  BY SeqDef, LenProperties
<1>2. r # <<>>
  BY <1>1
<1>3. /\ t \in Seq(Bit) /\ Len(t) = w - 1
      /\ \A l \in 1 .. w - 1 : t[l] = r[l + 1]
  <2>1. /\ t \in Seq(Bit) /\ Len(t) = Len(r) - 1
        /\ \A l \in 1 .. Len(t) : t[l] = r[l + 1]
    BY <1>1, <1>2, HeadTailProperties
  <2> HIDE DEF t
  <2> QED BY <2>1, <1>1
<1>4. z \in Seq(Bit) /\ Len(z) = 1 /\ z[1] = 0
  BY DEF Bit
<1> HIDE DEF t, z
<1> DEFINE s == t \o z
<1>5. /\ s \in Seq(Bit) /\ Len(s) = Len(t) + Len(z)
      /\ \A l \in 1 .. Len(t) + Len(z) :
           s[l] = IF l <= Len(t) THEN t[l] ELSE z[l - Len(t)]
  BY <1>3, <1>4, ConcatProperties
<1> HIDE DEF s
<1>6. Len(t) + Len(z) = w
  BY <1>3, <1>4
<1>7. ASSUME NEW l \in 1 .. w PROVE s[l] = IF l < w THEN r[l + 1] ELSE 0
  <2>1. CASE l < w
    <3>1. l \in 1 .. w - 1 /\ l <= Len(t)
      BY <2>1, <1>3
    <3> QED BY <3>1, <2>1, <1>3, <1>5, <1>6
  <2>2. CASE l = w
    <3>1. ~(l <= Len(t)) /\ l - Len(t) = 1
      BY <2>2, <1>3
    <3> QED BY <3>1, <2>2, <1>4, <1>5, <1>6
  <2> QED BY <2>1, <2>2
<1>8. s \in [1 .. w -> Bit]
  BY <1>5, <1>6, LenProperties
<1> QED BY <1>7, <1>8 DEF ShiftLeft, s, t, z

(* Which powers the divisor has.                                           *)
LEMMA PolynomialIs ==
  \A l \in 1 .. 16 :
    Polynomial[l] = IF l = 4 \/ l = 11 \/ l = 16 THEN 1 ELSE 0
BY DEF Polynomial

(* Sums of bits.                                                           *)
LEMMA SumOfBits ==
  ASSUME NEW a \in Bit, NEW b \in Bit
  PROVE  (a + b) % 2 \in Bit
BY DEF Bit

LEMMA ParityAdds ==
  ASSUME NEW x \in Nat, NEW b \in Bit
  PROVE  x % 2 \in Bit /\ (x + b) % 2 = ((x % 2) + b) % 2
BY DEF Bit

(* A register that is shifted: the next bit moves up, and the bit shifted  *)
(* out is added where the divisor has its other powers.                    *)
LEMMA ShiftIs ==
  ASSUME NEW r \in Registers
  PROVE  /\ Shift[r] \in Registers
         /\ \A l \in 1 .. 15 :
              Shift[r][l] = (r[l + 1] + (IF l = 4 \/ l = 11 THEN r[1] ELSE 0)) % 2
         /\ Shift[r][16] = r[1]
<1> DEFINE s == ShiftLeft(r)
<1>1. \E w : w = 16
  OBVIOUS
<1>2. PICK w : w = 16
  BY <1>1
<1>3. w \in Nat /\ w >= 1 /\ Registers = [1 .. w -> Bit]
  BY <1>2 DEF Registers, Width
<1>4. /\ s \in Registers
      /\ \A l \in 1 .. w : s[l] = IF l < w THEN r[l + 1] ELSE 0
  BY <1>3, ShiftLeftIs
<1> HIDE DEF s
<1>5. \A l \in 1 .. w : r[l] \in Bit /\ s[l] \in Bit
  BY <1>3, <1>4
<1>6. r[1] = 0 \/ r[1] = 1
  <2>1. 1 \in 1 .. w
    BY <1>3
  <2> QED BY <2>1, <1>5 DEF Bit
<1>7. \A l \in 1 .. w :
        Polynomial[l] = IF l = 4 \/ l = 11 \/ l = w THEN 1 ELSE 0
  BY <1>2, PolynomialIs
<1>8. CASE r[1] = 0
  <2>1. Shift[r] = s
    BY <1>8 DEF Shift, s
  <2>2. ASSUME NEW l \in 1 .. w, l < w
        PROVE  s[l] = (r[l + 1] + (IF l = 4 \/ l = 11 THEN r[1] ELSE 0)) % 2
    <3>1. l + 1 \in 1 .. w
      BY <1>3, <2>2
    <3>2. s[l] = r[l + 1] /\ (r[l + 1] = 0 \/ r[l + 1] = 1)
      BY <3>1, <2>2, <1>4, <1>5 DEF Bit
    <3> QED BY <3>2, <1>8
  <2>3. s[w] = r[1]
    BY <1>3, <1>4, <1>8
  <2> QED BY <2>1, <2>2, <2>3, <1>2, <1>4
<1>9. CASE r[1] = 1
  <2> DEFINE x == Xor(s, Polynomial)
  <2>1. Shift[r] = x
    BY <1>9 DEF Shift, s
  <2>2. x = [l \in 1 .. w |-> (s[l] + Polynomial[l]) % 2]
    BY <1>2 DEF Xor, Width
  <2> HIDE DEF x
  <2>3. x \in Registers
    <3>1. ASSUME NEW l \in 1 .. w PROVE (s[l] + Polynomial[l]) % 2 \in Bit
      <4>1. Polynomial[l] \in Bit
        BY <1>7 DEF Bit
      <4> QED BY <4>1, <1>5, SumOfBits
    <3> QED BY <3>1, <2>2, <1>3
  <2>4. ASSUME NEW l \in 1 .. w, l < w
        PROVE  x[l] = (r[l + 1] + (IF l = 4 \/ l = 11 THEN r[1] ELSE 0)) % 2
    <3>1. s[l] = r[l + 1] /\ l # w
      BY <2>4, <1>3, <1>4
    <3>2. Polynomial[l] = IF l = 4 \/ l = 11 THEN r[1] ELSE 0
      BY <3>1, <1>7, <1>9
    <3> QED BY <3>1, <3>2, <2>2
  <2>5. x[w] = r[1]
    <3>1. w \in 1 .. w /\ s[w] = 0 /\ Polynomial[w] = 1
      BY <1>3, <1>4, <1>7
    <3> QED BY <3>1, <2>2, <1>9
  <2> QED BY <2>1, <2>3, <2>4, <2>5, <1>2
<1> QED BY <1>6, <1>8, <1>9

(* Division so far: with some quotient of n bits, p is the product of the  *)
(* quotient and the divisor, and r is left in the next sixteen bits.       *)
Divided(p, n, r) ==
  \E q \in [1 .. n -> Bit] :
    \A k \in 1 .. n + 16 : p[k] = (TimesDivisor(q, k) + At(r, k - n)) % 2

(* A coefficient of a product is a bit.                                     *)
LEMMA ProductOfBits ==
  ASSUME NEW n \in Nat, NEW q \in [1 .. n -> Bit], NEW k \in Int
  PROVE  TimesDivisor(q, k) \in Bit
<1> DEFINE a0 == At(q, k)
           a4 == At(q, k - 4)
           a11 == At(q, k - 11)
           a16 == At(q, k - 16)
<1>1. ASSUME NEW j \in Int PROVE At(q, j) \in Bit
  BY DEF At, Bit
<1>2. k - 4 \in Int /\ k - 11 \in Int /\ k - 16 \in Int
  OBVIOUS
<1>3. a0 \in Bit /\ a4 \in Bit /\ a11 \in Bit /\ a16 \in Bit
  BY <1>1, <1>2
<1>4. TimesDivisor(q, k) = (a0 + a4 + a11 + a16) % 2
  BY DEF TimesDivisor
<1> HIDE DEF a0, a4, a11, a16
<1>5. a0 \in Nat /\ a4 \in Nat /\ a11 \in Nat /\ a16 \in Nat
  BY <1>3 DEF Bit
<1> QED BY <1>4, <1>5 DEF Bit

(* Adding three bits in either order.                                       *)
LEMMA ParityAssociates ==
  \A t, a, b \in Bit : /\ (((t + a) % 2) + b) % 2 = (t + ((a + b) % 2)) % 2
                       /\ (((t + a) % 2) + t) % 2 = a
<1> SUFFICES ASSUME NEW t \in Bit, NEW a \in Bit, NEW b \in Bit
             PROVE  /\ (((t + a) % 2) + b) % 2 = (t + ((a + b) % 2)) % 2
                    /\ (((t + a) % 2) + t) % 2 = a
  BY Zenon
<1>1. (t = 0 \/ t = 1) /\ (a = 0 \/ a = 1) /\ (b = 0 \/ b = 1)
  BY DEF Bit
<1> QED BY <1>1

(* One more bit of the quotient.                                           *)
LEMMA TimesMore ==
  ASSUME NEW n \in Nat, NEW q \in [1 .. n -> Bit], NEW b \in Bit,
         NEW k \in 1 .. n + 17
  PROVE  LET more == [j \in 1 .. n + 1 |-> IF j <= n THEN q[j] ELSE b]
             l == k - (n + 1)
         IN  /\ more \in [1 .. n + 1 -> Bit]
             /\ TimesDivisor(q, k) \in Bit
             /\ TimesDivisor(more, k) =
                  IF l = 0 \/ l = 4 \/ l = 11 \/ l = 16
                  THEN (TimesDivisor(q, k) + b) % 2 ELSE TimesDivisor(q, k)
<1> DEFINE more == [j \in 1 .. n + 1 |-> IF j <= n THEN q[j] ELSE b]
           l == k - (n + 1)
<1>1. more \in [1 .. n + 1 -> Bit]
  OBVIOUS
<1>2. ASSUME NEW j \in Int
      PROVE  /\ At(q, j) \in Bit
             /\ At(more, j) = IF j = n + 1 THEN b ELSE At(q, j)
             /\ j = n + 1 => At(q, j) = 0
  BY DEF At, Bit
<1> HIDE DEF more
<1> DEFINE a0 == At(q, k)
           a4 == At(q, k - 4)
           a11 == At(q, k - 11)
           a16 == At(q, k - 16)
<1>3. /\ a0 \in Nat /\ a4 \in Nat /\ a11 \in Nat /\ a16 \in Nat /\ b \in Nat
  BY <1>2 DEF Bit
<1>4. /\ At(more, k) = (IF l = 0 THEN b ELSE a0) /\ (l = 0 => a0 = 0)
      /\ At(more, k - 4) = (IF l = 4 THEN b ELSE a4) /\ (l = 4 => a4 = 0)
      /\ At(more, k - 11) = (IF l = 11 THEN b ELSE a11) /\ (l = 11 => a11 = 0)
      /\ At(more, k - 16) = (IF l = 16 THEN b ELSE a16) /\ (l = 16 => a16 = 0)
  <2>1. /\ k \in Int /\ k - 4 \in Int /\ k - 11 \in Int /\ k - 16 \in Int
        /\ l = 0 <=> k = n + 1
        /\ l = 4 <=> k - 4 = n + 1
        /\ l = 11 <=> k - 11 = n + 1
        /\ l = 16 <=> k - 16 = n + 1
    OBVIOUS
  <2> HIDE DEF l
  <2> QED BY <1>2, <2>1
<1>5. TimesDivisor(q, k) = (a0 + a4 + a11 + a16) % 2
  BY DEF TimesDivisor
<1>6. TimesDivisor(more, k) =
        (At(more, k) + At(more, k - 4) + At(more, k - 11) + At(more, k - 16)) % 2
  BY DEF TimesDivisor
<1> HIDE DEF a0, a4, a11, a16, l
<1>7. TimesDivisor(q, k) \in Bit
  BY <1>3, <1>5 DEF Bit
<1>8. ASSUME l = 0
       PROVE  TimesDivisor(more, k) = (TimesDivisor(q, k) + b) % 2
  <2> DEFINE x == a4 + a11 + a16
  <2>1. /\ a0 = 0 /\ At(more, k) = b /\ At(more, k - 4) = a4
        /\ At(more, k - 11) = a11 /\ At(more, k - 16) = a16
    BY <1>4, <1>8
  <2>2. x \in Nat /\ a0 + a4 + a11 + a16 = x /\ b + a4 + a11 + a16 = x + b
    BY <2>1, <1>3
  <2>3. TimesDivisor(q, k) = x % 2 /\ TimesDivisor(more, k) = (x + b) % 2
    BY Zenon, <2>1, <2>2, <1>5, <1>6
  <2> HIDE DEF x
  <2> QED BY <2>2, <2>3, ParityAdds
<1>9. ASSUME l = 4
       PROVE  TimesDivisor(more, k) = (TimesDivisor(q, k) + b) % 2
  <2> DEFINE x == a0 + a11 + a16
  <2>1. /\ a4 = 0 /\ At(more, k) = a0 /\ At(more, k - 4) = b
        /\ At(more, k - 11) = a11 /\ At(more, k - 16) = a16
    BY <1>4, <1>9
  <2>2. x \in Nat /\ a0 + a4 + a11 + a16 = x /\ a0 + b + a11 + a16 = x + b
    BY <2>1, <1>3
  <2>3. TimesDivisor(q, k) = x % 2 /\ TimesDivisor(more, k) = (x + b) % 2
    BY Zenon, <2>1, <2>2, <1>5, <1>6
  <2> HIDE DEF x
  <2> QED BY <2>2, <2>3, ParityAdds
<1>10. ASSUME l = 11
       PROVE  TimesDivisor(more, k) = (TimesDivisor(q, k) + b) % 2
  <2> DEFINE x == a0 + a4 + a16
  <2>1. /\ a11 = 0 /\ At(more, k) = a0 /\ At(more, k - 4) = a4
        /\ At(more, k - 11) = b /\ At(more, k - 16) = a16
    BY <1>4, <1>10
  <2>2. x \in Nat /\ a0 + a4 + a11 + a16 = x /\ a0 + a4 + b + a16 = x + b
    BY <2>1, <1>3
  <2>3. TimesDivisor(q, k) = x % 2 /\ TimesDivisor(more, k) = (x + b) % 2
    BY Zenon, <2>1, <2>2, <1>5, <1>6
  <2> HIDE DEF x
  <2> QED BY <2>2, <2>3, ParityAdds
<1>11. ASSUME l = 16
       PROVE  TimesDivisor(more, k) = (TimesDivisor(q, k) + b) % 2
  <2> DEFINE x == a0 + a4 + a11
  <2>1. /\ a16 = 0 /\ At(more, k) = a0 /\ At(more, k - 4) = a4
        /\ At(more, k - 11) = a11 /\ At(more, k - 16) = b
    BY <1>4, <1>11
  <2>2. x \in Nat /\ a0 + a4 + a11 + a16 = x /\ a0 + a4 + a11 + b = x + b
    BY <2>1, <1>3
  <2>3. TimesDivisor(q, k) = x % 2 /\ TimesDivisor(more, k) = (x + b) % 2
    BY Zenon, <2>1, <2>2, <1>5, <1>6
  <2> HIDE DEF x
  <2> QED BY <2>2, <2>3, ParityAdds
<1>12. ASSUME ~(l = 0 \/ l = 4 \/ l = 11 \/ l = 16)
       PROVE  TimesDivisor(more, k) = TimesDivisor(q, k)
  <2>1. /\ At(more, k) = a0 /\ At(more, k - 4) = a4
        /\ At(more, k - 11) = a11 /\ At(more, k - 16) = a16
    BY <1>4, <1>12
  <2> QED BY Zenon, <2>1, <1>5, <1>6
<1> QED BY <1>1, <1>7, <1>8, <1>9, <1>10, <1>11, <1>12 DEF more, l

(* One shift of the register is one step of the division.                  *)
LEMMA ShiftDivides ==
  ASSUME NEW n \in Nat, NEW p, NEW r \in Registers,
         Divided(p, n, r), p[n + 17] = 0
  PROVE  Divided(p, n + 1, Shift[r])
<1>1. PICK q \in [1 .. n -> Bit] :
        \A k \in 1 .. n + 16 : p[k] = (TimesDivisor(q, k) + At(r, k - n)) % 2
  BY DEF Divided
<1> DEFINE b == r[1]
           s == Shift[r]
           more == [j \in 1 .. n + 1 |-> IF j <= n THEN q[j] ELSE b]
<1>2. /\ DOMAIN r = 1 .. 16 /\ \A l \in 1 .. 16 : r[l] \in Bit
      /\ b \in Bit
  BY DEF Registers, Width
<1>3. /\ DOMAIN s = 1 .. 16
      /\ \A l \in 1 .. 15 :
           s[l] = (r[l + 1] + (IF l = 4 \/ l = 11 THEN b ELSE 0)) % 2
      /\ s[16] = b
  BY ShiftIs DEF Registers, Width
<1> HIDE DEF b, s, more
<1>4. ASSUME NEW k \in 1 .. n + 17
      PROVE  p[k] = (TimesDivisor(more, k) + At(s, k - (n + 1))) % 2
  <2> DEFINE l == k - (n + 1)
             t == TimesDivisor(q, k)
  <2>1. /\ more \in [1 .. n + 1 -> Bit] /\ t \in Bit
        /\ TimesDivisor(more, k) =
             IF l = 0 \/ l = 4 \/ l = 11 \/ l = 16 THEN (t + b) % 2 ELSE t
    BY <1>2, TimesMore DEF more
  <2>2. k \in 1 .. n + 16 => p[k] = (t + At(r, k - n)) % 2
    BY <1>1
  <2>3. l \in Int /\ l <= 16 /\ k - n = l + 1 /\ (l < 16 => k \in 1 .. n + 16)
        /\ (l = 16 => k = n + 17)
    OBVIOUS
  <2>4. (t = 0 \/ t = 1) /\ (b = 0 \/ b = 1)
    BY <1>2, <2>1 DEF Bit
  <2> HIDE DEF l
  <2>5. CASE l < 0
    <3>1. At(r, k - n) = 0 /\ At(s, l) = 0
      BY <1>2, <1>3, <2>3, <2>5 DEF At
    <3> QED BY <3>1, <2>1, <2>2, <2>3, <2>5 DEF l
  <2>6. CASE l = 0
    <3>1. At(r, k - n) = b /\ At(s, l) = 0
      BY <1>2, <1>3, <2>3, <2>6 DEF At, b
    <3>2. p[k] = (t + b) % 2 /\ TimesDivisor(more, k) = (t + b) % 2
      BY <3>1, <2>1, <2>2, <2>3, <2>6
    <3> QED BY <3>1, <3>2, <2>4 DEF l
  <2>7. CASE l \in 1 .. 15
    <3>1. At(r, k - n) = r[l + 1] /\ At(s, l) = s[l] /\ r[l + 1] \in Bit
      BY <1>2, <1>3, <2>3, <2>7 DEF At
    <3>2. s[l] = (r[l + 1] + (IF l = 4 \/ l = 11 THEN b ELSE 0)) % 2
      BY <1>3, <2>7
    <3>3. p[k] = (t + r[l + 1]) % 2
      BY <3>1, <2>2, <2>3, <2>7
    <3>4. TimesDivisor(more, k) = IF l = 4 \/ l = 11 THEN (t + b) % 2 ELSE t
      BY <2>1, <2>7
    <3>5. r[l + 1] = 0 \/ r[l + 1] = 1
      BY <3>1 DEF Bit
    <3>6. p[k] = (TimesDivisor(more, k) + s[l]) % 2
      BY <3>2, <3>3, <3>4, <3>5, <2>4
    <3> QED BY <3>1, <3>6 DEF l
  <2>8. CASE l = 16
    <3>1. t = 0
      <4>1. /\ At(q, k) = 0 /\ At(q, k - 4) = 0 /\ At(q, k - 11) = 0
            /\ At(q, k - 16) = 0
        BY <2>3, <2>8 DEF At
      <4> QED BY <4>1 DEF TimesDivisor
    <3>2. At(s, l) = b
      BY <1>3, <2>8 DEF At
    <3>3. p[k] = 0
      BY <2>3, <2>8
    <3>4. TimesDivisor(more, k) = b
      BY <3>1, <2>1, <2>4, <2>8
    <3> QED BY <3>2, <3>3, <3>4, <2>4 DEF l
  <2> QED BY <2>3, <2>5, <2>6, <2>7, <2>8
<1>5. more \in [1 .. n + 1 -> Bit]
  BY <1>2 DEF more
<1>6. (n + 1) + 16 = n + 17
  OBVIOUS
<1> QED BY <1>4, <1>5, <1>6 DEF Divided, s

(* p2 is the dividend p with the bits b added to the sixteen after n.      *)
Added(p, p2, n, b) ==
  /\ \A k \in 1 .. n : p2[k] = p[k]
  /\ \A l \in 1 .. 16 : p2[n + l] = (p[n + l] + b[l]) % 2

(* Bits added to what is left are bits added to the dividend.              *)
LEMMA AddDivides ==
  ASSUME NEW n \in Nat, NEW p, NEW p2, NEW r \in Registers, NEW b \in Registers,
         Divided(p, n, r), Added(p, p2, n, b)
  PROVE  Xor(r, b) \in Registers /\ Divided(p2, n, Xor(r, b))
<1>1. PICK q \in [1 .. n -> Bit] :
        \A k \in 1 .. n + 16 : p[k] = (TimesDivisor(q, k) + At(r, k - n)) % 2
  BY DEF Divided
<1> DEFINE x == Xor(r, b)
<1>2. PICK w : w = 16
  OBVIOUS
<1>3. w \in Nat /\ Registers = [1 .. w -> Bit]
  BY <1>2 DEF Registers, Width
<1>4. x = [l \in 1 .. w |-> (r[l] + b[l]) % 2]
  BY <1>2 DEF Xor, Width
<1>5. ASSUME NEW l \in 1 .. w
      PROVE  r[l] \in Bit /\ b[l] \in Bit /\ (r[l] + b[l]) % 2 \in Bit
  BY <1>3, SumOfBits
<1>6. x \in Registers
  BY <1>3, <1>4, <1>5
<1> HIDE DEF x
<1>7. ASSUME NEW k \in 1 .. n + w
      PROVE  p2[k] = (TimesDivisor(q, k) + At(x, k - n)) % 2
  <2> DEFINE t == TimesDivisor(q, k)
  <2>1. t \in Bit
    <3>1. k \in Int
      BY <1>3
    <3> QED BY <3>1, ProductOfBits
  <2>2. p[k] = (t + At(r, k - n)) % 2
    BY <1>1, <1>2
  <2> HIDE DEF t
  <2>3. CASE k <= n
    <3>1. k \in 1 .. n /\ At(r, k - n) = At(x, k - n)
      BY <2>3, <1>3, <1>6 DEF At
    <3>2. p2[k] = p[k]
      BY <3>1 DEF Added
    <3> QED BY Zenon, <3>1, <3>2, <2>2 DEF t
  <2>4. CASE k > n
    <3> DEFINE l == k - n
    <3>1. l \in 1 .. w /\ k = n + l
      BY <2>4, <1>3
    <3> HIDE DEF l
    <3>2. At(r, l) = r[l] /\ At(x, l) = x[l] /\ x[l] = (r[l] + b[l]) % 2
      BY <3>1, <1>3, <1>4, <1>6 DEF At
    <3>3. p2[k] = (p[k] + b[l]) % 2
      BY <3>1, <1>2 DEF Added
    <3>4. p[k] = (t + r[l]) % 2
      BY <3>2, <2>2 DEF l
    <3>5. r[l] \in Bit /\ b[l] \in Bit
      BY <3>1, <1>5
    <3>6. (((t + r[l]) % 2) + b[l]) % 2 = (t + ((r[l] + b[l]) % 2)) % 2
      BY <3>5, <2>1, ParityAssociates
    <3> QED BY Zenon, <3>2, <3>3, <3>4, <3>6 DEF l, t
  <2> QED BY <2>3, <2>4, <1>3
<1>8. Divided(p2, n, x)
  BY <1>2, <1>7 DEF Divided
<1> QED BY <1>6, <1>8 DEF x

(* The bits of the quotient follow from the ones before them.              *)
QuotientBit(p, q, k) ==
  (p[k] + (IF k > 4 THEN q[k - 4] ELSE 0) + (IF k > 11 THEN q[k - 11] ELSE 0)
        + (IF k > 16 THEN q[k - 16] ELSE 0)) % 2

(* So there is one quotient and one remainder.                             *)
LEMMA RemainderIs ==
  ASSUME NEW n \in Nat, NEW p \in [1 .. n + 16 -> Bit], NEW r \in Registers,
         Divided(p, n, r)
  PROVE  Remainder(p) = r
<1>1. PICK q \in [1 .. n -> Bit] :
        \A k \in 1 .. n + 16 : p[k] = (TimesDivisor(q, k) + At(r, k - n)) % 2
  BY DEF Divided
<1>2. PICK w : w = 16
  OBVIOUS
<1>3. w \in Nat /\ Registers = [1 .. w -> Bit] /\ w = Width
  BY <1>2 DEF Registers, Width
<1>4. Len(p) - Width = n
  <2>1. p \in [1 .. n + w -> Bit]
    BY <1>2
  <2>2. Len(p) = n + w
    BY <2>1, <1>3, LenProperties, SeqDef
  <2> QED BY <2>2, <1>3
<1>5. \A k \in 1 .. n : q[k] = QuotientBit(p, q, k)
  <2> SUFFICES ASSUME NEW k \in 1 .. n PROVE q[k] = QuotientBit(p, q, k)
    OBVIOUS
  <2> DEFINE a4 == IF k > 4 THEN q[k - 4] ELSE 0
             a11 == IF k > 11 THEN q[k - 11] ELSE 0
             a16 == IF k > 16 THEN q[k - 16] ELSE 0
  <2>1. /\ At(q, k) = q[k] /\ At(q, k - 4) = a4 /\ At(q, k - 11) = a11
        /\ At(q, k - 16) = a16 /\ At(r, k - n) = 0
    BY <1>3 DEF At
  <2>2. q[k] \in Bit /\ p[k] \in Bit /\ a4 \in Nat /\ a11 \in Nat /\ a16 \in Nat
    BY DEF Bit
  <2> HIDE DEF a4, a11, a16
  <2> DEFINE x == a4 + a11 + a16
  <2>3. x \in Nat /\ q[k] + a4 + a11 + a16 = x + q[k] /\ p[k] + a4 + a11 + a16 = x + p[k]
    BY <2>2 DEF Bit
  <2>4. k \in 1 .. n + 16
    OBVIOUS
  <2>5. p[k] = (((x + q[k]) % 2) + 0) % 2
    <3>1. p[k] = (TimesDivisor(q, k) + At(r, k - n)) % 2
      BY <1>1, <2>4
    <3>2. TimesDivisor(q, k) = (x + q[k]) % 2
      BY Zenon, <2>1, <2>3 DEF TimesDivisor
    <3> QED BY Zenon, <3>1, <3>2, <2>1
  <2>6. QuotientBit(p, q, k) = (x + p[k]) % 2
    BY Zenon, <2>3 DEF QuotientBit, a4, a11, a16
  <2> HIDE DEF x
  <2>7. (q[k] = 0 \/ q[k] = 1) /\ (p[k] = 0 \/ p[k] = 1)
    BY <2>2 DEF Bit
  <2>8. q[k] = (x + p[k]) % 2
    BY <2>3, <2>5, <2>7
  <2> QED BY <2>6, <2>8
<1>6. Quotient(p) = q
  <2> DEFINE f == CHOOSE f : f = [k \in 1 .. n |-> QuotientBit(p, f, k)]
  <2>1. Quotient(p) = f
    BY <1>4 DEF Quotient, QuotientBit
  <2>2. q = [k \in 1 .. n |-> QuotientBit(p, q, k)]
    <3>1. q = [k \in 1 .. n |-> q[k]]
      OBVIOUS
    <3> QED BY <3>1, <1>5
  <2>3. f = [k \in 1 .. n |-> QuotientBit(p, f, k)]
    BY <2>2
  <2> HIDE DEF f
  <2> DEFINE D == {k \in 1 .. n : f[k] # q[k]}
  <2>4. ASSUME D # {} PROVE FALSE
    <3>1. D \in SUBSET Nat
      OBVIOUS
    <3>2. PICK k \in D : \A j \in D : k <= j
      BY <2>4, <3>1, Least
    <3>3. k \in 1 .. n /\ f[k] # q[k]
      OBVIOUS
    <3>4. \A j \in 1 .. n : j < k => f[j] = q[j]
      BY <3>2, <3>3
    <3>5. QuotientBit(p, f, k) = QuotientBit(p, q, k)
      <4>1. /\ k > 4 => f[k - 4] = q[k - 4]
            /\ k > 11 => f[k - 11] = q[k - 11]
            /\ k > 16 => f[k - 16] = q[k - 16]
        BY <3>3, <3>4
      <4> QED BY Zenon, <4>1 DEF QuotientBit
    <3> QED BY <2>2, <2>3, <3>3, <3>5
  <2>5. \A k \in 1 .. n : f[k] = q[k]
    BY <2>4
  <2> QED BY <2>1, <2>2, <2>3, <2>5
<1>7. Remainder(p) = [l \in 1 .. w |-> (p[n + l] + TimesDivisor(q, n + l)) % 2]
  BY Zenon, <1>3, <1>4, <1>6 DEF Remainder
<1>8. ASSUME NEW l \in 1 .. w
      PROVE  (p[n + l] + TimesDivisor(q, n + l)) % 2 = r[l]
  <2> DEFINE t == TimesDivisor(q, n + l)
  <2>1. t \in Bit
    <3>1. n + l \in Int
      BY <1>3
    <3> QED BY <3>1, ProductOfBits
  <2>2. n + l \in 1 .. n + 16 /\ n + l - n = l
    BY <1>2
  <2>3. p[n + l] = (t + At(r, l)) % 2
    <3>1. PICK k \in 1 .. n + 16 : k = n + l
      BY <2>2
    <3>2. k - n = l
      BY <3>1, <2>2
    <3>3. p[k] = (TimesDivisor(q, k) + At(r, k - n)) % 2
      BY <1>1
    <3>4. p[k] = (TimesDivisor(q, k) + At(r, l)) % 2
      BY Zenon, <3>2, <3>3
    <3> QED BY Zenon, <3>1, <3>4
  <2>4. At(r, l) = r[l] /\ r[l] \in Bit
    BY <1>3 DEF At
  <2> HIDE DEF t
  <2>5. (((t + r[l]) % 2) + t) % 2 = r[l]
    BY Zenon, <2>1, <2>4, ParityAssociates
  <2>6. (p[n + l] + t) % 2 = (((t + r[l]) % 2) + t) % 2
    BY Zenon, <2>3, <2>4
  <2> QED BY Zenon, <2>5, <2>6 DEF t
<1>9. Remainder(p) = [l \in 1 .. w |-> r[l]]
  BY <1>7, <1>8
<1> QED BY <1>3, <1>9

Zeros == <<0, 0, 0, 0, 0, 0, 0, 0>>

(* The bits of a byte, and as the upper half of a register.                *)
LEMMA ByteBits ==
  ASSUME NEW byte \in Byte
  PROVE  LET b == BitsOf(byte) \o Zeros
         IN  /\ b \in Registers
             /\ \A l \in 1 .. 16 : b[l] = IF l <= 8 THEN BitsOf(byte)[l] ELSE 0
             /\ \A l \in 1 .. 8 : BitsOf(byte)[l] \in Bit
<1> DEFINE u == BitsOf(byte)
           z == Zeros
<1>1. PICK e \in Nat : e = 8
  OBVIOUS
<1>2. ASSUME NEW l \in 1 .. e PROVE (byte \div Weight[l]) % 2 \in Bit
  <2>1. l \in 1 .. 8
    BY <1>1
  <2>2. Weight[l] \in Nat /\ Weight[l] > 0
    BY <2>1 DEF Weight
  <2>3. byte \in Nat
    BY DEF Byte
  <2> DEFINE d == Weight[l]
             h == byte \div d
  <2>4. h \in Nat
    <3> HIDE DEF d
    <3> QED BY <2>2, <2>3 DEF d
  <2> HIDE DEF h
  <2>5. h % 2 \in Bit
    BY <2>4 DEF Bit
  <2> QED BY <2>5 DEF h
<1>3. u = [l \in 1 .. e |-> (byte \div Weight[l]) % 2]
  BY <1>1 DEF BitsOf
<1>4. u \in [1 .. e -> Bit]
  BY <1>2, <1>3
<1>5. u \in Seq(Bit) /\ Len(u) = e /\ \A l \in 1 .. e : u[l] \in Bit
  <2> HIDE DEF u
  <2> QED BY <1>4, SeqDef, LenProperties
<1>6. z \in Seq(Bit) /\ Len(z) = e /\ \A l \in 1 .. e : z[l] = 0
  BY <1>1 DEF Zeros, Bit
<1> DEFINE b == u \o z
<1> HIDE DEF u, z
<1>7. /\ b \in Seq(Bit) /\ Len(b) = Len(u) + Len(z)
      /\ \A l \in 1 .. Len(u) + Len(z) :
           b[l] = IF l <= Len(u) THEN u[l] ELSE z[l - Len(u)]
  BY <1>5, <1>6, ConcatProperties
<1> HIDE DEF b
<1>8. PICK w \in Nat : w = 16
  OBVIOUS
<1>9. Len(b) = w /\ Len(u) + Len(z) = w /\ w = e + e
  BY <1>1, <1>5, <1>6, <1>7, <1>8
<1>10. b \in [1 .. w -> Bit]
  BY <1>7, <1>9, LenProperties
<1>11. ASSUME NEW l \in 1 .. w
       PROVE  b[l] = IF l <= e THEN u[l] ELSE 0
  <2>1. b[l] = IF l <= e THEN u[l] ELSE z[l - e]
    BY <1>5, <1>7, <1>9
  <2>2. ~(l <= e) => l - e \in 1 .. e
    BY <1>9
  <2> QED BY <2>1, <2>2, <1>6
<1>12. Registers = [1 .. w -> Bit]
  BY <1>8 DEF Registers, Width
<1>13. b \in Registers
  BY <1>10, <1>12
<1>14. \A l \in 1 .. 8 : u[l] \in Bit
  BY <1>1, <1>5
<1>15. \A l \in 1 .. 16 : b[l] = IF l <= 8 THEN u[l] ELSE 0
  BY <1>1, <1>8, <1>11
<1> QED BY <1>13, <1>14, <1>15 DEF b, u, z

(* What the checksum of the first i bytes of a message divides: their bits *)
(* and zeros, with the initial value of the register added to the start.   *)
Dividend(message, i) ==
  [k \in Nat |->
     ((IF k <= 8 * i THEN MessageBit(message, k) ELSE 0)
        + (IF k <= Width THEN 1 ELSE 0)) % 2]

(* Before the first byte the register is what is left of it.               *)
LEMMA StartDivides ==
  ASSUME NEW message
  PROVE  Start \in Registers /\ Divided(Dividend(message, 0), 0, Start)
<1> DEFINE p == Dividend(message, 0)
           q == [j \in 1 .. 0 |-> 0]
<1>1. PICK w \in Nat : w = 16
  OBVIOUS
<1>2. Registers = [1 .. w -> Bit]
  BY <1>1 DEF Registers, Width
<1>3. \A l \in 1 .. w : Start[l] = 1
  BY <1>1 DEF Start
<1>4. Start \in Registers /\ DOMAIN Start = 1 .. w
  <2>1. Start \in Seq(Bit) /\ Len(Start) = w
    BY <1>1 DEF Start, Bit
  <2> QED BY <2>1, <1>2, LenProperties
<1>5. q \in [1 .. 0 -> Bit] /\ \A j \in Int : At(q, j) = 0
  BY DEF At
<1> HIDE DEF q
<1>6. ASSUME NEW k \in 1 .. w
      PROVE  p[k] = (TimesDivisor(q, k) + At(Start, k - 0)) % 2
  <2>1. k \in Int /\ k - 4 \in Int /\ k - 11 \in Int /\ k - 16 \in Int /\ k - 0 = k
    OBVIOUS
  <2>2. TimesDivisor(q, k) = 0
    <3>1. /\ At(q, k) = 0 /\ At(q, k - 4) = 0 /\ At(q, k - 11) = 0
          /\ At(q, k - 16) = 0
      BY <2>1, <1>5
    <3> QED BY <3>1 DEF TimesDivisor
  <2>3. At(Start, k - 0) = 1
    BY <2>1, <1>3, <1>4 DEF At
  <2>4. p[k] = 1
    <3>1. k \in Nat /\ ~(k <= 8 * 0) /\ k <= Width
      BY <1>1 DEF Width
    <3> QED BY <3>1 DEF Dividend
  <2> QED BY <2>2, <2>3, <2>4
<1> HIDE DEF p
<1>7. Divided(p, 0, Start)
  <2>1. 1 .. 0 + 16 = 1 .. w
    BY <1>1
  <2> QED BY <2>1, <1>5, <1>6 DEF Divided
<1> QED BY <1>4, <1>7 DEF p

(* The next byte adds its bits to the dividend.                            *)
LEMMA DividendGrows ==
  ASSUME NEW message \in Seq(Byte), NEW i \in 0 .. Len(message) - 1
  PROVE  LET p == Dividend(message, i)
             p2 == Dividend(message, i + 1)
             b == BitsOf(message[i + 1]) \o Zeros
         IN  /\ Added(p, p2, 8 * i, b)
             /\ \A k \in Nat : k > 8 * i + 16 => p2[k] = 0
<1> DEFINE p == Dividend(message, i)
           p2 == Dividend(message, i + 1)
           byte == message[i + 1]
           b == BitsOf(byte) \o Zeros
           First(k) == IF k <= Width THEN 1 ELSE 0
<1>1. i \in Nat /\ i + 1 \in 1 .. Len(message) /\ byte \in Byte /\ Len(message) \in Nat
  BY ElementOfSeq
<1>2. \A k \in Nat :
        /\ p[k] = ((IF k <= 8 * i THEN MessageBit(message, k) ELSE 0) + First(k)) % 2
        /\ p2[k] = ((IF k <= 8 * (i + 1) THEN MessageBit(message, k) ELSE 0) + First(k)) % 2
  BY DEF Dividend
<1> HIDE DEF p, p2
<1>3. \A k \in Nat : First(k) \in Bit /\ (k > 16 => First(k) = 0)
  BY DEF Bit, Width
<1> HIDE DEF First
<1>4. ASSUME NEW k \in 1 .. 8 * i PROVE p2[k] = p[k]
  <2>1. k \in Nat /\ k <= 8 * i /\ k <= 8 * (i + 1)
    BY <1>1
  <2> QED BY Zenon, <2>1, <1>2
<1>5. ASSUME NEW k \in Nat, k > 8 * i + 16 PROVE p2[k] = 0
  <2>1. ~(k <= 8 * (i + 1)) /\ k > 16
    BY <1>1, <1>5
  <2>2. p2[k] = (0 + 0) % 2
    BY Zenon, <2>1, <1>2, <1>3
  <2> QED BY <2>2
<1>6. PICK w \in Nat : w = 16
  OBVIOUS
<1>7. ASSUME NEW l \in 1 .. w
      PROVE  p2[8 * i + l] = (p[8 * i + l] + b[l]) % 2
  <2> DEFINE k == 8 * i + l
  <2>1. k \in Nat /\ ~(k <= 8 * i) /\ (k <= 8 * (i + 1) <=> l <= 8)
    BY <1>1
  <2>2. b[l] = IF l <= 8 THEN BitsOf(byte)[l] ELSE 0
    BY <1>1, <1>6, ByteBits
  <2>3. First(k) \in Bit
    BY <2>1, <1>3
  <2>4. p[k] = (0 + First(k)) % 2
    BY Zenon, <2>1, <1>2
  <2>5. CASE l <= 8
    <3>1. k <= 8 * Len(message) /\ (k - 1) \div 8 = i /\ ((k - 1) % 8) + 1 = l
      BY <1>1, <2>5
    <3>2. MessageBit(message, k) = BitsOf(byte)[l]
      <4> HIDE DEF k
      <4> QED BY Zenon, <3>1 DEF MessageBit
    <3>3. BitsOf(byte)[l] \in Bit
      <4>1. \A j \in 1 .. 8 : BitsOf(byte)[j] \in Bit
        BY <1>1, ByteBits
      <4>2. l \in 1 .. 8
        BY <2>5
      <4> QED BY Zenon, <4>1, <4>2
    <3>4. p2[k] = (BitsOf(byte)[l] + First(k)) % 2
      BY Zenon, <3>2, <2>1, <2>5, <1>2
    <3> DEFINE x == BitsOf(byte)[l]
               y == First(k)
    <3>5. ASSUME NEW a \in Bit, NEW c \in Bit
          PROVE  (a + c) % 2 = (((0 + c) % 2) + a) % 2
      BY DEF Bit
    <3>6. (x + y) % 2 = (((0 + y) % 2) + x) % 2
      BY Zenon, <3>3, <2>3, <3>5
    <3>7. b[l] = x
      BY Zenon, <2>2, <2>5
    <3> QED BY Zenon, <3>4, <3>6, <3>7, <2>4
  <2>6. CASE ~(l <= 8)
    <3>1. p2[k] = (0 + First(k)) % 2 /\ b[l] = 0
      BY Zenon, <2>1, <2>2, <2>6, <1>2
    <3>2. ASSUME NEW c \in Bit PROVE (0 + c) % 2 = (((0 + c) % 2) + 0) % 2
      BY DEF Bit
    <3> HIDE DEF k
    <3>3. (0 + First(k)) % 2 = (((0 + First(k)) % 2) + 0) % 2
      BY Zenon, <3>2, <2>3
    <3>4. p2[k] = (p[k] + b[l]) % 2
      BY Zenon, <3>1, <3>3, <2>4
    <3> QED BY <3>4 DEF k
  <2> QED BY <2>5, <2>6
<1>8. \A l \in 1 .. 16 : p2[8 * i + l] = (p[8 * i + l] + b[l]) % 2
  BY Zenon, <1>6, <1>7
<1> QED BY Zenon, <1>4, <1>5, <1>8 DEF Added, p, p2, b, byte

(* The register stays a register.                                          *)
LEMMA NextByteIs ==
  ASSUME NEW r \in Registers, NEW byte \in Byte
  PROVE  NextByte(r, byte) \in Registers
<1> DEFINE b == BitsOf(byte) \o Zeros
           x == Xor(r, b)
<1>1. b \in Registers
  BY ByteBits
<1> HIDE DEF b
<1>2. x \in Registers
  <2>1. PICK w : w = Width
    OBVIOUS
  <2>2. Registers = [1 .. w -> Bit] /\ x = [l \in 1 .. w |-> (r[l] + b[l]) % 2]
    BY <2>1 DEF Registers, Xor
  <2>3. ASSUME NEW l \in 1 .. w PROVE (r[l] + b[l]) % 2 \in Bit
    BY <2>2, <1>1, SumOfBits
  <2> QED BY <2>2, <2>3
<1> HIDE DEF x
<1>3. \A s \in Registers : Shift[s] \in Registers
  BY ShiftIs
<1>4. EightShifts(x) \in Registers
  BY <1>2, <1>3 DEF EightShifts
<1> QED BY <1>4 DEF NextByte, x, b, Zeros

(* The checksum of one byte more.                                          *)
LEMMA NextDivides ==
  ASSUME NEW message \in Seq(Byte), NEW i \in 0 .. Len(message) - 1,
         NEW r \in Registers, Divided(Dividend(message, i), 8 * i, r)
  PROVE  Divided(Dividend(message, i + 1), 8 * (i + 1), NextByte(r, message[i + 1]))
<1> DEFINE p == Dividend(message, i)
           p2 == Dividend(message, i + 1)
           byte == message[i + 1]
           b == BitsOf(byte) \o Zeros
           n == 8 * i
           x == Xor(r, b)
<1>1. i \in Nat /\ i + 1 \in 1 .. Len(message) /\ byte \in Byte
  BY ElementOfSeq
<1>2. b \in Registers
  BY <1>1, ByteBits
<1>3. /\ Added(p, p2, n, b)
      /\ \A k \in Nat : k > n + 16 => p2[k] = 0
  BY DividendGrows
<1>4. n \in Nat /\ Divided(p, n, r)
  BY <1>1
<1> HIDE DEF p, p2, byte, b, n
<1>5. x \in Registers /\ Divided(p2, n, x)
  BY <1>2, <1>3, <1>4, AddDivides
<1> HIDE DEF x
<1>6. ASSUME NEW m \in Nat, m >= n, NEW s \in Registers, Divided(p2, m, s)
      PROVE  Shift[s] \in Registers /\ Divided(p2, m + 1, Shift[s])
  <2>1. p2[m + 17] = 0
    BY <1>3, <1>4, <1>6
  <2> QED BY <2>1, <1>6, ShiftDivides, ShiftIs
<1> DEFINE s1 == Shift[x]
           s2 == Shift[s1]
           s3 == Shift[s2]
           s4 == Shift[s3]
           s5 == Shift[s4]
           s6 == Shift[s5]
           s7 == Shift[s6]
           s8 == Shift[s7]
<1>7. s1 \in Registers /\ Divided(p2, n + 1, s1)
  BY <1>4, <1>5, <1>6
<1>8. ASSUME NEW j \in Nat, NEW s \in Registers, Divided(p2, n + j, s)
      PROVE  Shift[s] \in Registers /\ Divided(p2, n + (j + 1), Shift[s])
  <2>1. n + j \in Nat /\ n + j >= n /\ (n + j) + 1 = n + (j + 1)
    BY <1>4
  <2> QED BY <2>1, <1>6, <1>8
<1>9. s2 \in Registers /\ Divided(p2, n + 2, s2)
  <2> HIDE DEF s1
  <2> QED BY <1>7, <1>8, 1 + 1 = 2
<1>10. s3 \in Registers /\ Divided(p2, n + 3, s3)
  <2> HIDE DEF s2
  <2> QED BY <1>9, <1>8, 2 + 1 = 3
<1>11. s4 \in Registers /\ Divided(p2, n + 4, s4)
  <2> HIDE DEF s3
  <2> QED BY <1>10, <1>8, 3 + 1 = 4
<1>12. s5 \in Registers /\ Divided(p2, n + 5, s5)
  <2> HIDE DEF s4
  <2> QED BY <1>11, <1>8, 4 + 1 = 5
<1>13. s6 \in Registers /\ Divided(p2, n + 6, s6)
  <2> HIDE DEF s5
  <2> QED BY <1>12, <1>8, 5 + 1 = 6
<1>14. s7 \in Registers /\ Divided(p2, n + 7, s7)
  <2> HIDE DEF s6
  <2> QED BY <1>13, <1>8, 6 + 1 = 7
<1>15. s8 \in Registers /\ Divided(p2, n + 8, s8)
  <2> HIDE DEF s7
  <2> QED BY <1>14, <1>8, 7 + 1 = 8
<1>16. n + 8 = 8 * (i + 1)
  BY <1>1 DEF n
<1>17. s8 = NextByte(r, byte)
  BY DEF NextByte, EightShifts, x, b, Zeros
<1> HIDE DEF s8
<1>18. Divided(p2, 8 * (i + 1), NextByte(r, byte))
  BY <1>15, <1>16, <1>17
<1> QED BY <1>18 DEF p2, byte

(* The register along the first n bytes of a message.                      *)
Runs(message, n, g) ==
  /\ g \in [0 .. n -> Registers]
  /\ \A i \in 0 .. n :
       g[i] = IF i = 0 THEN Start ELSE NextByte(g[i - 1], message[i])

(* The recursion of the loop has a value.                                  *)
LEMMA RunExists ==
  ASSUME NEW message \in Seq(Byte)
  PROVE  \E g : Runs(message, Len(message), g)
<1> DEFINE N == Len(message)
           T == {j \in 0 .. N : ~\E g : Runs(message, j, g)}
<1>1. N \in Nat
  OBVIOUS
<1> HIDE DEF N
<1>2. T = {}
  <2> SUFFICES ASSUME T # {} PROVE FALSE
    OBVIOUS
  <2>1. T \in SUBSET Nat
    OBVIOUS
  <2>2. PICK j \in T : \A m \in T : j <= m
    BY <2>1, Least
  <2>3. j \in 0 .. N /\ ~\E g : Runs(message, j, g)
    OBVIOUS
  <2>4. CASE j = 0
    <3> DEFINE g == [i \in 0 .. 0 |-> Start]
    <3>1. Runs(message, 0, g)
      BY StartDivides DEF Runs
    <3> QED BY <3>1, <2>3, <2>4
  <2>5. CASE j # 0
    <3>1. j - 1 \in 0 .. N /\ j \in 1 .. N
      BY <2>3, <2>5, <1>1
    <3>2. j - 1 \notin T
      BY <2>2, <3>1
    <3>3. PICK g : Runs(message, j - 1, g)
      BY <3>1, <3>2
    <3> DEFINE new == NextByte(g[j - 1], message[j])
               h == [i \in 0 .. j |-> IF i = j THEN new ELSE g[i]]
    <3>4. /\ g \in [0 .. j - 1 -> Registers]
          /\ \A i \in 0 .. j - 1 :
               g[i] = IF i = 0 THEN Start ELSE NextByte(g[i - 1], message[i])
      BY <3>3 DEF Runs
    <3>5. message[j] \in Byte
      BY <3>1, ElementOfSeq DEF N
    <3>6. new \in Registers
      <4>1. g[j - 1] \in Registers
        BY <3>1, <3>4
      <4> QED BY <4>1, <3>5, NextByteIs
    <3>7. h \in [0 .. j -> Registers]
      <4> HIDE DEF new
      <4> QED BY <3>1, <3>4, <3>6
    <3>8. ASSUME NEW i \in 0 .. j
          PROVE  h[i] = IF i = 0 THEN Start ELSE NextByte(h[i - 1], message[i])
      <4>1. CASE i = j
        <5>1. h[i] = new /\ h[i - 1] = g[j - 1] /\ i # 0
          <6> HIDE DEF new
          <6> QED BY <4>1, <3>1
        <5> HIDE DEF h
        <5> QED BY Zenon, <5>1, <4>1
      <4>2. CASE i # j
        <5>1. i \in 0 .. j - 1 /\ h[i] = g[i] /\ (i # 0 => h[i - 1] = g[i - 1])
          <6> HIDE DEF new
          <6> QED BY <4>2, <3>1
        <5> HIDE DEF h
        <5> QED BY Zenon, <5>1, <3>4
      <4> QED BY <4>1, <4>2
    <3> HIDE DEF h
    <3>9. Runs(message, j, h)
      BY <3>7, <3>8 DEF Runs
    <3> QED BY <3>9, <2>3
  <2> QED BY <2>4, <2>5
<1>3. N \notin T
  BY <1>2
<1> QED BY <1>1, <1>3 DEF N

(* After every byte, the register is what is left of the division of the   *)
(* message so far.                                                         *)
LEMMA RunDivides ==
  ASSUME NEW message \in Seq(Byte), NEW g, Runs(message, Len(message), g)
  PROVE  \A i \in 0 .. Len(message) : Divided(Dividend(message, i), 8 * i, g[i])
<1> DEFINE N == Len(message)
           T == {j \in 0 .. N : ~Divided(Dividend(message, j), 8 * j, g[j])}
<1>1. N \in Nat
  OBVIOUS
<1>2. /\ g \in [0 .. N -> Registers]
      /\ \A i \in 0 .. N :
           g[i] = IF i = 0 THEN Start ELSE NextByte(g[i - 1], message[i])
  BY DEF Runs
<1> HIDE DEF N
<1>3. T = {}
  <2> SUFFICES ASSUME T # {} PROVE FALSE
    OBVIOUS
  <2>1. T \in SUBSET Nat
    OBVIOUS
  <2>2. PICK j \in T : \A m \in T : j <= m
    BY <2>1, Least
  <2>3. j \in 0 .. N /\ ~Divided(Dividend(message, j), 8 * j, g[j])
    OBVIOUS
  <2>4. CASE j = 0
    <3>1. g[0] = Start /\ 8 * 0 = 0
      BY <1>1, <1>2
    <3> QED BY Zenon, <3>1, <2>3, <2>4, StartDivides
  <2>5. CASE j # 0
    <3> DEFINE i == j - 1
    <3>1. i \in 0 .. N - 1 /\ i \in 0 .. N /\ i + 1 = j /\ i < j
      BY <2>3, <2>5, <1>1
    <3>2. Divided(Dividend(message, i), 8 * i, g[i])
      <4>1. i \notin T
        BY <2>2, <3>1
      <4> HIDE DEF i
      <4> QED BY <4>1, <3>1
    <3>3. g[i] \in Registers /\ g[j] = NextByte(g[i], message[j])
      BY <1>2, <2>3, <2>5, <3>1
    <3> HIDE DEF i
    <3>4. Divided(Dividend(message, i + 1), 8 * (i + 1), NextByte(g[i], message[i + 1]))
      BY <3>1, <3>2, <3>3, NextDivides DEF N
    <3> QED BY Zenon, <3>1, <3>3, <3>4, <2>3
  <2> QED BY <2>4, <2>5
<1> QED BY <1>3 DEF N

(* The message as it is divided by definition is the one that the loop     *)
(* divides.                                                                *)
LEMMA PaddedIs ==
  ASSUME NEW message \in Seq(Byte)
  PROVE  LET n == 8 * Len(message)
         IN  /\ Padded(message) \in [1 .. n + 16 -> Bit]
             /\ \A k \in 1 .. n + 16 :
                  Padded(message)[k] = Dividend(message, Len(message))[k]
<1> DEFINE N == Len(message)
           n == 8 * N
<1>1. N \in Nat /\ n \in Nat
  OBVIOUS
<1>2. PICK w \in Nat : w = 16
  OBVIOUS
<1>3. ASSUME NEW k \in 1 .. n + w PROVE MessageBit(message, k) \in Bit
  <2>1. CASE k <= n
    <3> DEFINE i == (k - 1) \div 8
               l == ((k - 1) % 8) + 1
    <3>1. i + 1 \in 1 .. N /\ l \in 1 .. 8
      BY <2>1, <1>1
    <3>2. message[i + 1] \in Byte
      BY <3>1, ElementOfSeq
    <3>3. \A j \in 1 .. 8 : BitsOf(message[i + 1])[j] \in Bit
      BY <3>2, ByteBits
    <3> HIDE DEF i, l
    <3>4. BitsOf(message[i + 1])[l] \in Bit
      BY Zenon, <3>1, <3>3
    <3>5. MessageBit(message, k) = BitsOf(message[i + 1])[l]
      BY Zenon, <2>1 DEF MessageBit, i, l
    <3> QED BY <3>4, <3>5
  <2>2. CASE ~(k <= n)
    BY <2>2 DEF MessageBit, Bit
  <2> QED BY <2>1, <2>2
<1>4. Padded(message) =
        [k \in 1 .. n + w |->
           (MessageBit(message, k) + (IF k <= Width THEN 1 ELSE 0)) % 2]
  BY <1>2 DEF Padded, Width
<1>5. ASSUME NEW k \in 1 .. n + w
      PROVE  (MessageBit(message, k) + (IF k <= Width THEN 1 ELSE 0)) % 2 \in Bit
  <2>1. (IF k <= Width THEN 1 ELSE 0) \in Bit
    BY DEF Bit
  <2> QED BY <2>1, <1>3, SumOfBits
<1>6. ASSUME NEW k \in 1 .. n + w
      PROVE  Padded(message)[k] = Dividend(message, N)[k]
  <2>1. k \in Nat
    OBVIOUS
  <2> DEFINE bit == MessageBit(message, k)
             part == IF k <= 8 * N THEN MessageBit(message, k) ELSE 0
             first == IF k <= Width THEN 1 ELSE 0
  <2>2. part = bit
    BY Zenon DEF MessageBit
  <2>3. Dividend(message, N)[k] = (part + first) % 2
    BY <2>1 DEF Dividend
  <2>4. Padded(message)[k] = (bit + first) % 2
    <3> DEFINE e(j) == (MessageBit(message, j) + (IF j <= Width THEN 1 ELSE 0)) % 2
    <3>1. Padded(message) = [j \in 1 .. n + w |-> e(j)]
      BY <1>4
    <3> HIDE DEF e, n
    <3>2. Padded(message)[k] = e(k)
      BY <3>1
    <3> QED BY Zenon, <3>2 DEF e
  <2> HIDE DEF bit, part, first
  <2> QED BY Zenon, <2>2, <2>3, <2>4
<1>7. Padded(message) \in [1 .. n + w -> Bit]
  BY Zenon, <1>4, <1>5
<1> QED BY Zenon, <1>2, <1>6, <1>7

(* For every message, the function returns the remainder of the division   *)
(* that defines the checksum.                                              *)
LEMMA ChecksumIsRemainder ==
  ASSUME NEW message \in Seq(Byte)
  PROVE  \E r \in Registers : /\ mjpeg_crc16_ccitt(message) = Number(r)
                              /\ Remainder(Padded(message)) = r
<1> DEFINE N == Len(message)
           AfterByte(f, i) ==
             IF i = 0 THEN Start ELSE NextByte(f[i - 1], message[i])
           crc == CHOOSE f : f = [i \in 0 .. N |-> AfterByte(f, i)]
<1>1. mjpeg_crc16_ccitt(message) = Number(crc[N])
  BY DEF mjpeg_crc16_ccitt
<1>2. \E g : Runs(message, N, g)
  BY RunExists
<1>3. N \in Nat
  OBVIOUS
<1> HIDE DEF N
<1>4. crc = [i \in 0 .. N |-> AfterByte(crc, i)]
  <2>1. PICK g : Runs(message, N, g)
    BY <1>2
  <2>2. g \in [0 .. N -> Registers] /\ \A i \in 0 .. N : g[i] = AfterByte(g, i)
    BY <2>1 DEF Runs
  <2> HIDE DEF AfterByte
  <2>3. g = [i \in 0 .. N |-> AfterByte(g, i)]
    BY <2>2
  <2> QED BY <2>3
<1> HIDE DEF crc
<1>5. \A i \in 0 .. N : crc[i] = AfterByte(crc, i)
  <2> HIDE DEF AfterByte
  <2> QED BY <1>4
<1>6. \A i \in 0 .. N : crc[i] \in Registers
  <2> DEFINE T == {i \in 0 .. N : crc[i] \notin Registers}
  <2>1. ASSUME T # {} PROVE FALSE
    <3>1. T \in SUBSET Nat
      OBVIOUS
    <3>2. PICK j \in T : \A m \in T : j <= m
      BY <2>1, <3>1, Least
    <3>3. j \in 0 .. N /\ crc[j] \notin Registers
      OBVIOUS
    <3>4. j # 0
      <4>1. crc[0] = Start
        BY <1>3, <1>5
      <4> QED BY Zenon, <4>1, <3>3, StartDivides
    <3>5. j - 1 \in 0 .. N /\ j - 1 < j /\ j \in 1 .. N
      BY <3>3, <3>4, <1>3
    <3>6. crc[j - 1] \in Registers
      BY <3>2, <3>5
    <3>7. message[j] \in Byte
      BY <3>5, ElementOfSeq DEF N
    <3>8. NextByte(crc[j - 1], message[j]) \in Registers
      BY <3>6, <3>7, NextByteIs
    <3> QED BY Zenon, <3>3, <3>4, <3>8, <1>5
  <2> QED BY <2>1
<1>7. Runs(message, N, crc)
  <2>1. DOMAIN crc = 0 .. N
    <3> HIDE DEF AfterByte
    <3> QED BY <1>4
  <2>2. crc \in [0 .. N -> Registers]
    <3>1. crc = [i \in 0 .. N |-> crc[i]]
      <4> HIDE DEF AfterByte
      <4> QED BY <1>4
    <3> QED BY <3>1, <1>6
  <2> QED BY <2>2, <1>5 DEF Runs
<1> DEFINE r == crc[N]
           n == 8 * N
           p == Padded(message)
<1>8. r \in Registers /\ n \in Nat
  BY <1>3, <1>6
<1>9. Divided(Dividend(message, N), n, r)
  BY <1>3, <1>7, RunDivides DEF N
<1>10. p \in [1 .. n + 16 -> Bit] /\ \A k \in 1 .. n + 16 : p[k] = Dividend(message, N)[k]
  BY PaddedIs DEF N
<1> HIDE DEF r, n, p
<1>11. Divided(p, n, r)
  BY Zenon, <1>9, <1>10 DEF Divided
<1>12. Remainder(p) = r
  BY <1>8, <1>10, <1>11, RemainderIs
<1> QED BY <1>1, <1>8, <1>12 DEF r, p

(* Two bytes make a uint16_t.                                              *)
LEMMA NumberIs ==
  ASSUME NEW r \in Registers
  PROVE  IsUint16(Number(r))
<1>1. PICK w \in Nat : w = 16
  OBVIOUS
<1>2. r \in [1 .. w -> Bit]
  BY <1>1 DEF Registers, Width
<1>3. ASSUME NEW i \in {0, 8} PROVE ByteAt(r, i) \in Nat /\ ByteAt(r, i) < 256
  <2>1. \A j \in 1 .. w : r[j] \in Nat /\ r[j] < 2
    BY <1>2 DEF Bit
  <2>2. /\ i + 1 \in 1 .. w /\ i + 2 \in 1 .. w /\ i + 3 \in 1 .. w /\ i + 4 \in 1 .. w
        /\ i + 5 \in 1 .. w /\ i + 6 \in 1 .. w /\ i + 7 \in 1 .. w /\ i + 8 \in 1 .. w
    BY <1>1
  <2> DEFINE a == 128 * r[i + 1] + 64 * r[i + 2] + 32 * r[i + 3] + 16 * r[i + 4]
             b == 8 * r[i + 5] + 4 * r[i + 6] + 2 * r[i + 7] + r[i + 8]
  <2>3. a \in Nat /\ a <= 240
    BY <2>1, <2>2
  <2>4. b \in Nat /\ b <= 15
    BY <2>1, <2>2
  <2>5. ByteAt(r, i) = a + b
    <3>1. \A j \in 1 .. w : r[j] \in Int
      BY <2>1
    <3> QED BY <2>2, <3>1 DEF ByteAt
  <2> HIDE DEF a, b
  <2> QED BY <2>3, <2>4, <2>5
<1>4. /\ ByteAt(r, 0) \in Nat /\ ByteAt(r, 0) < 256
      /\ ByteAt(r, 8) \in Nat /\ ByteAt(r, 8) < 256
  BY <1>3
<1> QED BY <1>4 DEF Number, IsUint16

(* mjpeg_crc16_ccitt computes CRC-16-CCITT: for every message, of any      *)
(* length and any bytes, it returns the remainder of the polynomial        *)
(* division that defines that checksum.                                    *)
THEOREM CrcIsCcitt ==
  \A message \in Seq(Byte) : mjpeg_crc16_ccitt(message) = Ccitt(message)
BY Zenon, ChecksumIsRemainder DEF Ccitt

(* What it returns fits the two bytes it is sent in, as RoundTripHolds     *)
(* assumes of a checksum.                                                  *)
THEOREM CrcIsUint16 ==
  \A message \in Seq(Byte) : IsUint16(mjpeg_crc16_ccitt(message))
<1> SUFFICES ASSUME NEW message \in Seq(Byte)
             PROVE  IsUint16(mjpeg_crc16_ccitt(message))
  OBVIOUS
<1>1. PICK r \in Registers : mjpeg_crc16_ccitt(message) = Number(r)
  BY ChecksumIsRemainder
<1> QED BY Zenon, <1>1, NumberIs

(* So the checksum is the right one on the messages of the run.            *)
THEOREM CrcHolds == Spec => []CrcIsRemainder
<1>1. Messages \subseteq Seq(Byte)
  <2> SUFFICES ASSUME NEW n \in 0 .. MaxMessage, NEW message \in [1 .. n -> MessageBytes]
               PROVE  message \in Seq(Byte)
    BY DEF Messages
  <2>1. MessageBytes \subseteq Byte
    BY DEF MessageBytes, Byte, FF, SOI
  <2>2. n \in Nat
    BY DEF MaxMessage
  <2>3. message \in [1 .. n -> Byte]
    BY <2>1
  <2> QED BY <2>2, <2>3, SeqDef
<1>2. CrcIsRemainder
  BY <1>1, CrcIsCcitt DEF CrcIsRemainder
<1>3. CrcIsRemainder'
  BY <1>1, CrcIsCcitt DEF CrcIsRemainder
<1> QED BY <1>2, <1>3, PTL
=============================================================================
