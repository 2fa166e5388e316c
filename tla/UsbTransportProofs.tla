-------------------------- MODULE UsbTransportProofs --------------------------
(***************************************************************************)
(* Proofs about UsbTransport, for any packet size, any number of retries   *)
(* and attempts and any error limit.                                       *)
(***************************************************************************)
EXTENDS UsbTransport, SequenceTheorems, FiniteSetTheorems, TLAPS

(* The loops leave a step before their limits.                             *)
LoopInv ==
  /\ pc = "open" => attempts < MaxOpen /\ errors = 0
  /\ pc \in {"idle", "writing", "returned"} => errors < ErrorLimit
  /\ pc = "writing" => retry < MaxRetry /\ written < PacketSize

(* The units of the current packet are the last ones on the wire, as many  *)
(* as usb_transport_send_bytes has counted; the others are of earlier      *)
(* packets.                                                                *)
TailInv ==
  /\ written <= Len(wire)
  /\ \A k \in 1 .. written : wire[Len(wire) - written + k] = <<packet, k>>
  /\ \A i \in 1 .. Len(wire) - written : wire[i][1] < packet

(* The stream, unit after unit: the first conjunct of NoGapOnWire.         *)
StreamInv ==
  \A i \in DOMAIN wire :
    IF i = 1 \/ wire[i][2] = 1
    THEN wire[i][2] = 1 /\ (i > 1 => wire[i - 1][1] < wire[i][1])
    ELSE wire[i] = <<wire[i - 1][1], wire[i - 1][2] + 1>>

(* A send succeeds when, and only when, it has written the whole packet.   *)
ReturnInv == pc = "returned" => (result = "ok" <=> written = PacketSize)

SendInv == TypeOK /\ LoopInv /\ TailInv /\ StreamInv /\ ReturnInv

Units == Nat \X (1 .. PacketSize)

USE DEF device, send

-----------------------------------------------------------------------------
(* What write() adds to the wire.                                          *)
LEMMA WireGrows ==
  ASSUME TypeOK, NEW n \in Nat, n <= PacketSize - written, wire' = wire \o Chunk(n)
  PROVE  /\ wire' \in Seq(Units)
         /\ Len(wire) \in Nat /\ Len(wire') = Len(wire) + n
         /\ \A i \in 1 .. Len(wire) : wire'[i] = wire[i]
         /\ \A k \in 1 .. n : wire'[Len(wire) + k] = <<packet, written + k>>
<1>1. /\ wire \in Seq(Units) /\ packet \in Nat /\ written \in Nat
      /\ PacketSize \in Nat /\ Len(wire) \in Nat
  BY SizesAssumption DEF TypeOK, Units
<1>2. \A i \in 1 .. n : <<packet, written + i>> \in Units
  BY <1>1 DEF Units
<1>3. Chunk(n) \in Seq(Units) /\ Len(Chunk(n)) = n
  <2>1. Chunk(n) \in [1 .. n -> Units]
    BY <1>2 DEF Chunk
  <2>2. Chunk(n) \in Seq(Units)
    BY <2>1
  <2> QED BY <2>1, <2>2
<1>4. \A i \in 1 .. n : Chunk(n)[i] = <<packet, written + i>>
  BY DEF Chunk
<1> DEFINE c == Chunk(n)
<1>5. c \in Seq(Units) /\ Len(c) = n /\ wire' = wire \o c
  BY <1>3
<1> HIDE DEF c
<1>6. /\ wire \o c \in Seq(Units) /\ Len(wire \o c) = Len(wire) + Len(c)
      /\ \A i \in 1 .. Len(wire) + Len(c) :
           (wire \o c)[i] = IF i <= Len(wire) THEN wire[i] ELSE c[i - Len(wire)]
  BY <1>1, <1>5, ConcatProperties
<1>7. ASSUME NEW i \in 1 .. Len(wire) PROVE wire'[i] = wire[i]
  BY <1>1, <1>5, <1>6
<1>8. ASSUME NEW k \in 1 .. n PROVE wire'[Len(wire) + k] = <<packet, written + k>>
  <2>1. /\ Len(wire) + k \in 1 .. Len(wire) + Len(c) /\ ~(Len(wire) + k <= Len(wire))
        /\ (Len(wire) + k) - Len(wire) = k
    BY <1>1, <1>5, <1>6
  <2>2. wire'[Len(wire) + k] = c[k]
    BY <2>1, <1>5, <1>6
  <2> QED BY <2>2, <1>4 DEF c
<1> QED BY <1>1, <1>5, <1>6, <1>7, <1>8

(* All that a write changes of what the invariant is about.                *)
LEMMA WriteParts ==
  ASSUME TypeOK, LoopInv, NEW n \in 1 .. PacketSize - written, Write(n)
  PROVE  /\ pc = "writing" /\ n \in Nat /\ n >= 1 /\ n <= PacketSize - written
         /\ written \in Nat /\ packet \in Nat
         /\ wire' = wire \o Chunk(n) /\ written' = written + n /\ packet' = packet
         /\ written' <= PacketSize
<1>1. written \in Nat /\ PacketSize \in Nat /\ packet \in Nat
  BY SizesAssumption DEF TypeOK
<1> QED BY <1>1 DEF Write

(* The end of an iteration stays in the loop below the limit.              *)
LEMMA TryParts ==
  ASSUME retry \in 0 .. MaxRetry, retry < MaxRetry, pc = "writing", NextTry
  PROVE  /\ retry' \in 0 .. MaxRetry
         /\ \/ pc' = "writing" /\ retry' < MaxRetry /\ UNCHANGED <<connected, result>>
            \/ pc' = "returned" /\ connected' = FALSE /\ result' = "disconnected"
<1>1. retry' \in 0 .. MaxRetry
  BY SizesAssumption DEF NextTry
<1> QED BY <1>1 DEF NextTry

(* Every step keeps the types and the limits of the loops.                 *)
LEMMA TypeStep ==
  ASSUME TypeOK, LoopInv, [Next]_vars
  PROVE  TypeOK' /\ LoopInv'
<1> USE SizesAssumption DEF TypeOK, LoopInv, Failed
<1>1. CASE Open
  BY <1>1 DEF Open
<1>2. CASE OpenFails
  BY <1>2 DEF OpenFails
<1>3. CASE SendPacket
  BY <1>3 DEF SendPacket
<1>4. ASSUME NEW n \in 1 .. PacketSize - written, Write(n)
      PROVE  TypeOK' /\ LoopInv'
  <2>1. /\ n \in Nat /\ n <= PacketSize - written
        /\ wire' = wire \o Chunk(n) /\ pc = "writing"
        /\ written' = written + n /\ written' \in 0 .. PacketSize
    BY <1>4, WriteParts
  <2>2. wire' \in Seq(Nat \X (1 .. PacketSize))
    BY <2>1, WireGrows DEF Units
  <2>3. CASE written' = PacketSize
    BY <2>1, <2>2, <2>3, <1>4 DEF Write
  <2>4. CASE written' # PacketSize
    <3>1. NextTry /\ retry < MaxRetry /\ written' < PacketSize
      BY <2>1, <2>4, <1>4 DEF Write
    <3>2. /\ UNCHANGED <<device, packet, errno, errors>>
      BY <1>4 DEF Write
    <3>3. /\ retry' \in 0 .. MaxRetry
          /\ \/ pc' = "writing" /\ retry' < MaxRetry /\ UNCHANGED <<connected, result>>
             \/ pc' = "returned" /\ connected' = FALSE /\ result' = "disconnected"
      BY <2>1, <3>1, TryParts
    <3> HIDE DEF TypeOK, LoopInv
    <3>4. TypeOK'
      <4>1. CASE pc' = "writing" /\ UNCHANGED <<connected, result>>
        BY <4>1, <2>1, <2>2, <3>2, <3>3 DEF TypeOK
      <4>2. CASE pc' = "returned" /\ connected' = FALSE /\ result' = "disconnected"
        BY <4>2, <2>1, <2>2, <3>2, <3>3 DEF TypeOK
      <4> QED BY <4>1, <4>2, <3>3
    <3>5. LoopInv'
      BY <2>1, <3>1, <3>2, <3>3 DEF LoopInv
    <3> QED BY <3>4, <3>5
  <2> QED BY <2>3, <2>4
<1>5. CASE WriteNothing
  <2>1. /\ retry' \in 0 .. MaxRetry
        /\ \/ pc' = "writing" /\ retry' < MaxRetry /\ UNCHANGED <<connected, result>>
           \/ pc' = "returned" /\ connected' = FALSE /\ result' = "disconnected"
    BY <1>5, TryParts DEF WriteNothing
  <2>2. /\ UNCHANGED <<device, packet, written, wire, errors>>
        /\ errno' \in {errno, "EAGAIN"} /\ pc = "writing"
    BY <1>5 DEF WriteNothing
  <2> QED BY <2>1, <2>2
<1>6. CASE WriteFails
  BY <1>6 DEF WriteFails
<1>7. CASE Sent \/ Disconnected
  BY <1>7 DEF Sent, Disconnected
<1>8. CASE SendError
  BY <1>8 DEF SendError
<1>9. CASE Cleanup
  BY <1>9 DEF Cleanup
<1>10. CASE Shutdown \/ Unplug
  BY <1>10 DEF Shutdown, Unplug
<1>11. CASE Terminated \/ UNCHANGED vars
  <2>1. UNCHANGED vars
    BY <1>11 DEF Terminated
  <2> QED BY <2>1 DEF vars
<1> QED BY <1>1, <1>2, <1>3, <1>4, <1>5, <1>6, <1>7, <1>8, <1>9, <1>10, <1>11
           DEF Next, UsbThread, SendBytes

(* Only a new packet and a write change what is on the wire, or what the   *)
(* program says of it.                                                     *)
LEMMA Others ==
  ASSUME TypeOK, [Next]_vars
  PROVE  \/ SendPacket
         \/ \E n \in 1 .. PacketSize - written : Write(n)
         \/ /\ UNCHANGED <<wire, written, packet>>
            /\ \/ UNCHANGED <<pc, result>>
               \/ pc' # "returned"
               \/ WriteNothing \/ WriteFails
BY DEF Next, UsbThread, SendBytes, Open, OpenFails, WriteNothing, WriteFails, Sent,
       Disconnected, SendError, Cleanup, Shutdown, Unplug, Terminated, vars

(* The packet being sent stays at the end of the wire.                     *)
LEMMA TailStep ==
  ASSUME TypeOK, LoopInv, TailInv, [Next]_vars
  PROVE  TailInv'
<1>0. /\ wire \in Seq(Units) /\ Len(wire) \in Nat /\ written \in Nat /\ packet \in Nat
      /\ written <= Len(wire)
  BY SizesAssumption DEF TypeOK, Units, TailInv
<1>1. CASE SendPacket
  <2>1. /\ packet' = packet + 1 /\ written' = 0 /\ wire' = wire
    BY <1>1 DEF SendPacket
  <2>2. ASSUME NEW i \in 1 .. Len(wire) PROVE wire[i][1] < packet + 1
    <3>1. CASE i <= Len(wire) - written
      <4>1. wire[i][1] < packet
        BY <3>1, <1>0 DEF TailInv
      <4>2. wire[i][1] \in Nat
        BY <1>0 DEF Units
      <4> QED BY <4>1, <4>2, <1>0
    <3>2. CASE i > Len(wire) - written
      <4> DEFINE k == i - (Len(wire) - written)
      <4>1. k \in 1 .. written /\ Len(wire) - written + k = i
        BY <3>2, <1>0
      <4>2. wire[i] = <<packet, k>>
        BY <4>1 DEF TailInv
      <4> QED BY <4>2, <1>0
    <3> QED BY <3>1, <3>2, <1>0
  <2>3. Len(wire) - 0 = Len(wire)
    BY <1>0
  <2> QED BY <2>1, <2>2, <2>3, <1>0 DEF TailInv
<1>2. ASSUME NEW n \in 1 .. PacketSize - written, Write(n)
      PROVE  TailInv'
  <2>1. /\ n \in Nat /\ n <= PacketSize - written /\ wire' = wire \o Chunk(n)
        /\ written' = written + n /\ packet' = packet
    BY <1>2, WriteParts
  <2>2. /\ Len(wire') = Len(wire) + n
        /\ \A i \in 1 .. Len(wire) : wire'[i] = wire[i]
        /\ \A k \in 1 .. n : wire'[Len(wire) + k] = <<packet, written + k>>
    BY <2>1, WireGrows
  <2>3. written' <= Len(wire') /\ Len(wire') - written' = Len(wire) - written
    BY <2>1, <2>2, <1>0
  <2>4. ASSUME NEW k \in 1 .. written + n
        PROVE  wire'[Len(wire) - written + k] = <<packet, k>>
    <3>1. CASE k <= written
      <4>1. Len(wire) - written + k \in 1 .. Len(wire) /\ k \in 1 .. written
        BY <3>1, <1>0
      <4> QED BY <4>1, <2>2 DEF TailInv
    <3>2. CASE k > written
      <4> DEFINE j == k - written
      <4>1. /\ j \in 1 .. n /\ Len(wire) - written + k = Len(wire) + j
            /\ written + j = k
        BY <3>2, <2>1, <1>0
      <4> QED BY <4>1, <2>2
    <3>3. written + n \in Nat
      BY <1>0, <2>1
    <3>4. k <= written \/ k > written
      BY <1>0, <3>3
    <3> QED BY <3>1, <3>2, <3>4
  <2>5. ASSUME NEW i \in 1 .. Len(wire) - written
        PROVE  wire'[i][1] < packet
    <3>1. i \in 1 .. Len(wire)
      BY <1>0
    <3> QED BY <3>1, <2>2 DEF TailInv
  <2> QED BY <2>1, <2>3, <2>4, <2>5 DEF TailInv
<1>3. CASE UNCHANGED <<wire, written, packet>>
  BY <1>3 DEF TailInv
<1> QED BY <1>1, <1>2, <1>3, Others

(* A write continues the packet it belongs to, or begins a later one.      *)
LEMMA StreamStep ==
  ASSUME TypeOK, LoopInv, TailInv, StreamInv, [Next]_vars
  PROVE  StreamInv'
<1>0. /\ wire \in Seq(Units) /\ Len(wire) \in Nat /\ written \in Nat /\ packet \in Nat
      /\ written <= Len(wire) /\ DOMAIN wire = 1 .. Len(wire)
  BY SizesAssumption DEF TypeOK, Units, TailInv
<1>1. ASSUME NEW n \in 1 .. PacketSize - written, Write(n)
      PROVE  StreamInv'
  <2> DEFINE L == Len(wire)
  <2>1. /\ n \in Nat /\ n <= PacketSize - written /\ wire' = wire \o Chunk(n)
    BY <1>1, WriteParts
  <2>2. /\ wire' \in Seq(Units) /\ Len(wire') = L + n
        /\ \A i \in 1 .. L : wire'[i] = wire[i]
        /\ \A k \in 1 .. n : wire'[L + k] = <<packet, written + k>>
    BY <2>1, WireGrows
  <2>3. DOMAIN wire' = 1 .. L + n
    BY <2>2
  <2>4. ASSUME NEW i \in 1 .. L + n
        PROVE  IF i = 1 \/ wire'[i][2] = 1
               THEN wire'[i][2] = 1 /\ (i > 1 => wire'[i - 1][1] < wire'[i][1])
               ELSE wire'[i] = <<wire'[i - 1][1], wire'[i - 1][2] + 1>>
    <3>1. CASE i <= L
      <4>1. i \in DOMAIN wire /\ wire'[i] = wire[i]
        BY <3>1, <2>2, <1>0
      <4>2. i > 1 => wire'[i - 1] = wire[i - 1]
        BY <3>1, <2>2, <1>0
      <4>3. i = 1 \/ i > 1
        BY <3>1, <1>0
      <4> HIDE DEF L
      <4> QED BY <4>1, <4>2, <4>3 DEF StreamInv
    <3>2. CASE i = L + 1
      <4>1. wire'[i] = <<packet, written + 1>>
        <5>1. 1 \in 1 .. n
          BY <1>1, <2>1
        <5> QED BY <5>1, <3>2, <2>2
      <4>2. CASE written = 0
        <5>1. i > 1 => wire'[i - 1][1] < packet
          <6>1. ASSUME i > 1 PROVE wire'[i - 1][1] < packet
            <7>1. i - 1 \in 1 .. L /\ i - 1 \in 1 .. Len(wire) - written
              BY <6>1, <4>2, <3>2, <1>0
            <7> QED BY <7>1, <2>2 DEF TailInv
          <6> QED BY <6>1
        <5> QED BY <4>1, <4>2, <5>1
      <4>3. CASE written > 0
        <5>1. /\ L \in 1 .. L /\ i - 1 = L /\ i # 1
              /\ written \in 1 .. written /\ Len(wire) - written + written = L
          BY <4>3, <3>2, <1>0
        <5>2. wire'[i - 1] = <<packet, written>>
          BY <5>1, <2>2 DEF TailInv
        <5> QED BY <4>1, <4>3, <5>1, <5>2, <1>0
      <4> QED BY <4>2, <4>3, <1>0
    <3>3. CASE i > L + 1
      <4> DEFINE k == i - L
      <4>1. /\ k \in 1 .. n /\ k - 1 \in 1 .. n /\ k > 1
            /\ L + k = i /\ L + (k - 1) = i - 1
        BY <3>3, <2>1, <1>0
      <4>2. wire'[i] = <<packet, written + k>> /\ wire'[i - 1] = <<packet, written + (k - 1)>>
        BY <4>1, <2>2
      <4>3. written + k # 1 /\ written + k = written + (k - 1) + 1 /\ i # 1
        BY <4>1, <3>3, <1>0
      <4> QED BY <4>2, <4>3
    <3>4. L \in Nat /\ n \in Nat
      BY <1>0, <2>1
    <3> HIDE DEF L
    <3>5. i <= L \/ i = L + 1 \/ i > L + 1
      BY <3>4
    <3> QED BY <3>1, <3>2, <3>3, <3>5
  <2> QED BY <2>3, <2>4 DEF StreamInv
<1>2. CASE UNCHANGED wire
  BY <1>2 DEF StreamInv
<1> QED BY <1>1, <1>2, Others DEF SendPacket

(* usb_transport_send_bytes returns what it has written.                   *)
LEMMA ReturnStep ==
  ASSUME TypeOK, LoopInv, ReturnInv, [Next]_vars
  PROVE  ReturnInv'
<1>1. CASE SendPacket
  BY <1>1 DEF SendPacket, ReturnInv
<1>2. ASSUME NEW n \in 1 .. PacketSize - written, Write(n)
      PROVE  ReturnInv'
  <2>1. CASE written' = PacketSize
    BY <2>1, <1>2 DEF Write, ReturnInv
  <2>2. CASE written' # PacketSize
    BY <2>2, <1>2 DEF Write, NextTry, ReturnInv, LoopInv
  <2> QED BY <2>1, <2>2
<1>3. CASE WriteNothing \/ WriteFails
  <2>1. pc = "writing" /\ written' = written /\ written # PacketSize
    BY <1>3, SizesAssumption DEF WriteNothing, WriteFails, LoopInv, TypeOK
  <2> QED BY <2>1, <1>3 DEF WriteNothing, WriteFails, NextTry, ReturnInv
<1>4. CASE UNCHANGED <<written, pc, result>> \/ pc' # "returned"
  BY <1>4 DEF ReturnInv
<1> QED BY <1>1, <1>2, <1>3, <1>4, Others

(* Nothing is on the wire at first.                                        *)
LEMMA SendStart == Init => SendInv
<1> SUFFICES ASSUME Init PROVE SendInv
  OBVIOUS
<1>1. TypeOK
  <2>1. <<>> \in Seq(Nat \X (1 .. PacketSize))
    OBVIOUS
  <2>2. /\ 0 \in 0 .. MaxOpen /\ 0 \in 0 .. PacketSize /\ 0 \in 0 .. MaxRetry
        /\ 0 \in 0 .. ErrorLimit /\ 0 \in Nat
    BY SizesAssumption
  <2> QED BY <2>1, <2>2, Zenon DEF Init, TypeOK, Failed
<1>2. LoopInv /\ ReturnInv
  BY SizesAssumption DEF Init, LoopInv, ReturnInv
<1>3. Len(wire) = 0 /\ DOMAIN wire = {} /\ written = 0
  BY DEF Init
<1>4. TailInv /\ StreamInv
  BY <1>3 DEF TailInv, StreamInv
<1> QED BY <1>1, <1>2, <1>4 DEF SendInv

(* SendInv is inductive.                                                   *)
LEMMA SendStep == SendInv /\ [Next]_vars => SendInv'
BY TypeStep, TailStep, StreamStep, ReturnStep DEF SendInv

(* Whatever write() accepts, refuses or fails with, the loop of            *)
(* usb_transport_send_bytes knows how much of its packet is on the wire.   *)
THEOREM SendInvariance == Spec => []SendInv
<1>1. Init => SendInv
  BY SendStart
<1>2. SendInv /\ [Next]_vars => SendInv'
  BY SendStep
<1> QED BY <1>1, <1>2, PTL DEF Spec

(* Every variable of usb_transport.c and of the thread that uses it has its*)
(* type; no loop passes its limit.                                         *)
THEOREM TypeCorrectness == Spec => []TypeOK
<1>1. SendInv => TypeOK
  BY DEF SendInv
<1> QED BY <1>1, SendInvariance, PTL

(* A packet is truncated at worst: after any unit on the wire comes the    *)
(* next one of its packet or the first of a later packet, for packets of   *)
(* any size and any sequence of short writes and failures.                 *)
THEOREM NoGap == Spec => []NoGapOnWire
<1>1. SendInv => NoGapOnWire
  <2> SUFFICES ASSUME SendInv, written > 0
               PROVE  wire[Len(wire)] = <<packet, written>>
    BY DEF SendInv, StreamInv, NoGapOnWire
  <2>1. Len(wire) \in Nat /\ written \in Nat
    BY SizesAssumption DEF SendInv, TypeOK
  <2>2. written \in 1 .. written /\ Len(wire) - written + written = Len(wire)
    BY <2>1
  <2> QED BY <2>2 DEF SendInv, TailInv
<1> QED BY <1>1, SendInvariance, PTL

(* usb_transport_send_bytes reports success exactly for the packets that   *)
(* the host finds whole in the stream.                                     *)
THEOREM TrueResult == Spec => []ResultIsTrue
<1>1. SendInv => ResultIsTrue
  <2> SUFFICES ASSUME SendInv, pc = "returned"
               PROVE  (written = PacketSize)
                        <=> \E i \in DOMAIN wire : WholeAt(i) /\ wire[i][1] = packet
    BY DEF SendInv, ReturnInv, ResultIsTrue
  <2> DEFINE L == Len(wire)
  <2>1. /\ L \in Nat /\ written \in 0 .. PacketSize /\ written <= L /\ packet \in Nat
        /\ PacketSize \in Nat /\ PacketSize >= 1 /\ DOMAIN wire = 1 .. L
        /\ wire \in Seq(Units)
    BY SizesAssumption DEF SendInv, TypeOK, TailInv, Units
  <2>2. \A k \in 1 .. written : wire[L - written + k] = <<packet, k>>
    BY DEF SendInv, TailInv
  <2>3. \A i \in 1 .. L - written : wire[i][1] < packet
    BY DEF SendInv, TailInv
  <2> HIDE DEF L
  <2>4. ASSUME written = PacketSize
        PROVE  \E i \in DOMAIN wire : WholeAt(i) /\ wire[i][1] = packet
    <3>1. L \in DOMAIN wire /\ L >= PacketSize
      BY <2>1, <2>4
    <3>2. wire[L] = <<packet, PacketSize>>
      <4>1. PacketSize \in 1 .. written /\ L - written + PacketSize = L
        BY <2>1, <2>4
      <4> QED BY <4>1, <2>2
    <3>3. \A k \in 1 .. PacketSize : wire[L - PacketSize + k] = <<wire[L][1], k>>
      BY <3>2, <2>2, <2>4
    <3> QED BY <3>1, <3>2, <3>3 DEF WholeAt
  <2>5. ASSUME NEW i \in DOMAIN wire, WholeAt(i), wire[i][1] = packet
        PROVE  written = PacketSize
    <3>1. i \in 1 .. L /\ i > L - written
      <4>1. i \in 1 .. L /\ ~(wire[i][1] < packet)
        BY <2>1, <2>5
      <4> QED BY <4>1, <2>1, <2>3
    <3>2. wire[i] = <<packet, PacketSize>>
      <4>1. PacketSize \in 1 .. PacketSize /\ i - PacketSize + PacketSize = i
        BY <2>1, <3>1
      <4> QED BY <4>1, <2>5 DEF WholeAt
    <3> DEFINE k == i - (L - written)
    <3>3. k \in 1 .. written /\ L - written + k = i
      BY <3>1, <2>1
    <3>4. wire[i] = <<packet, k>>
      BY <3>3, <2>2
    <3>5. k = PacketSize
      BY <3>2, <3>4
    <3> QED BY <3>3, <3>5, <2>1
  <2> QED BY <2>4, <2>5
<1> QED BY <1>1, SendInvariance, PTL
-----------------------------------------------------------------------------
(* A finite set of numbers, listed from the least on: it has a member of   *)
(* every rank.                                                             *)
Ranked(S) ==
  /\ S \in SUBSET Nat /\ IsFiniteSet(S)
  /\ \A j \in 1 .. Cardinality(S) : \E i \in S : Rank(S, i) = j

(* Different members have different ranks.                                 *)
LEMMA RankOnce ==
  ASSUME NEW S \in SUBSET Nat, IsFiniteSet(S), NEW i \in S, NEW k \in S,
         Rank(S, i) = Rank(S, k)
  PROVE  i = k
<1>1. ASSUME NEW a \in S, NEW b \in S, a < b, Rank(S, a) = Rank(S, b)
      PROVE  FALSE
  <2> DEFINE A == {e \in S : e <= a}
             B == {e \in S : e <= b}
  <2>1. A \in SUBSET B
    <3>1. \A e \in S : e <= a => e <= b
      <4>1. \A e \in S : e \in Nat
        OBVIOUS
      <4> QED BY <4>1, <1>1
    <3> QED BY <3>1
  <2>2. IsFiniteSet(B)
    BY FS_Subset
  <2>3. Cardinality(A) = Cardinality(B)
    BY <1>1 DEF Rank
  <2>4. A = B
    BY <2>1, <2>2, <2>3, FS_Subset
  <2>5. b \in B /\ b \notin A
    BY <1>1
  <2> QED BY <2>4, <2>5
<1>2. i < k \/ k < i \/ i = k
  OBVIOUS
<1> QED BY <1>1, <1>2

(* The member of a rank.                                                   *)
LEMMA NthIs ==
  ASSUME NEW S, Ranked(S), NEW j \in 1 .. Cardinality(S)
  PROVE  /\ Nth(S, j) \in S /\ Rank(S, Nth(S, j)) = j
         /\ \A i \in S : Rank(S, i) = j => i = Nth(S, j)
<1>1. \E i \in S : Rank(S, i) = j
  BY DEF Ranked
<1>2. Nth(S, j) \in S /\ Rank(S, Nth(S, j)) = j
  BY <1>1 DEF Nth
<1>3. ASSUME NEW i \in S, Rank(S, i) = j PROVE i = Nth(S, j)
  BY <1>2, <1>3, RankOnce DEF Ranked
<1> QED BY <1>2, <1>3

(* A new greatest member comes after the others, which keep their ranks.   *)
LEMMA RankMore ==
  ASSUME NEW S, Ranked(S), NEW x \in Nat, \A e \in S : e < x
  PROVE  /\ Ranked(S \cup {x}) /\ Cardinality(S) \in Nat
         /\ Cardinality(S \cup {x}) = Cardinality(S) + 1
         /\ \A j \in 1 .. Cardinality(S) : Nth(S \cup {x}, j) = Nth(S, j)
         /\ Nth(S \cup {x}, Cardinality(S) + 1) = x
<1> DEFINE T == S \cup {x}
           c == Cardinality(S)
<1>1. S \in SUBSET Nat /\ IsFiniteSet(S) /\ x \notin S /\ c \in Nat
  BY FS_CardinalityType DEF Ranked
<1>2. T \in SUBSET Nat /\ IsFiniteSet(T) /\ Cardinality(T) = c + 1
  BY <1>1, FS_AddElement
<1>3. ASSUME NEW i \in S PROVE Rank(T, i) = Rank(S, i)
  <2>1. {e \in T : e <= i} = {e \in S : e <= i}
    BY <1>1
  <2> QED BY <2>1 DEF Rank
<1>4. Rank(T, x) = c + 1
  <2>1. \A e \in T : e <= x
    BY <1>1
  <2>2. {e \in T : e <= x} = T
    BY <2>1
  <2> QED BY <2>2, <1>2 DEF Rank
<1>5. Ranked(T)
  <2>1. ASSUME NEW j \in 1 .. c + 1 PROVE \E i \in T : Rank(T, i) = j
    <3>1. CASE j \in 1 .. c
      <4>1. PICK i \in S : Rank(S, i) = j
        BY <3>1 DEF Ranked
      <4> QED BY <4>1, <1>3
    <3>2. CASE j = c + 1
      BY <3>2, <1>4
    <3>3. j \in 1 .. c \/ j = c + 1
      BY <1>1
    <3> QED BY <3>1, <3>2, <3>3
  <2> QED BY <2>1, <1>2 DEF Ranked
<1>6. ASSUME NEW j \in 1 .. c PROVE Nth(T, j) = Nth(S, j)
  <2>1. Nth(S, j) \in S /\ Rank(S, Nth(S, j)) = j
    BY NthIs
  <2>2. Nth(S, j) \in T /\ Rank(T, Nth(S, j)) = j
    BY <2>1, <1>3
  <2>3. j \in 1 .. Cardinality(T)
    BY <1>1, <1>2
  <2> HIDE DEF T, c
  <2> QED BY <2>2, <2>3, <1>5, NthIs
<1>7. Nth(T, c + 1) = x
  <2>1. c + 1 \in 1 .. Cardinality(T) /\ x \in T
    BY <1>1, <1>2
  <2> HIDE DEF T, c
  <2> QED BY <2>1, <1>4, <1>5, NthIs
<1> QED BY <1>1, <1>2, <1>5, <1>6, <1>7

(* A write completes the packet it belongs to or adds no whole packet to   *)
(* the stream; those that were there stay.                                 *)
LEMMA EndsKept ==
  ASSUME TypeOK, LoopInv, TailInv, TailInv', NEW n \in 1 .. PacketSize - written, Write(n)
  PROVE  /\ Ends' = IF written' = PacketSize THEN Ends \cup {Len(wire')} ELSE Ends
         /\ Len(wire') \in Nat /\ \A e \in Ends : e < Len(wire') /\ wire'[e] = wire[e]
         /\ written' = PacketSize => wire'[Len(wire')][1] = packet
<1> DEFINE L == Len(wire)
<1>1. /\ n \in Nat /\ n >= 1 /\ n <= PacketSize - written /\ wire' = wire \o Chunk(n)
      /\ written \in Nat /\ written' = written + n /\ packet' = packet
  BY WriteParts
<1>2. /\ L \in Nat /\ Len(wire') = L + n
      /\ \A i \in 1 .. L : wire'[i] = wire[i]
      /\ \A k \in 1 .. n : wire'[L + k] = <<packet, written + k>>
      /\ wire' \in Seq(Units) /\ wire \in Seq(Units)
  BY <1>1, WireGrows DEF TypeOK, Units
<1>3. DOMAIN wire = 1 .. L /\ DOMAIN wire' = 1 .. L + n /\ PacketSize \in Nat /\ PacketSize >= 1
  BY <1>2, SizesAssumption
<1>4. ASSUME written' = PacketSize
      PROVE  /\ L + n >= PacketSize
             /\ \A k \in 1 .. PacketSize : wire'[L + n - PacketSize + k] = <<packet, k>>
  <2>1. /\ written' <= Len(wire')
        /\ \A k \in 1 .. written' : wire'[Len(wire') - written' + k] = <<packet', k>>
    BY DEF TailInv
  <2>2. ASSUME NEW k \in 1 .. PacketSize
        PROVE  wire'[L + n - PacketSize + k] = <<packet, k>>
    <3>1. k \in 1 .. written' /\ Len(wire') - written' + k = L + n - PacketSize + k
      <4>1. Len(wire') = L + n /\ written' = PacketSize /\ k \in Nat
        BY <1>2, <1>3, <1>4
      <4> QED BY <4>1, <1>1, <1>2, <1>3
    <3>2. wire'[Len(wire') - written' + k] = <<packet', k>>
      BY <2>1, <3>1
    <3> QED BY <3>1, <3>2, <1>1
  <2>3. L + n >= PacketSize
    BY <2>1, <1>2, <1>4
  <2> QED BY <2>2, <2>3
<1> HIDE DEF L
<1>6. ASSUME NEW i \in 1 .. L PROVE WholeAt(i)' <=> WholeAt(i)
  <2>1. CASE i >= PacketSize
    <3>1. \A k \in 1 .. PacketSize : i - PacketSize + k \in 1 .. L
      BY <2>1, <1>2, <1>3
    <3>2. /\ \A k \in 1 .. PacketSize : wire'[i - PacketSize + k] = wire[i - PacketSize + k]
          /\ wire'[i] = wire[i]
      BY <3>1, <1>2
    <3> QED BY <3>2 DEF WholeAt
  <2>2. CASE ~(i >= PacketSize)
    BY <2>2 DEF WholeAt
  <2> QED BY <2>1, <2>2
<1>7. ASSUME NEW i \in 1 .. L + n, i > L, WholeAt(i)'
      PROVE  i = L + n /\ written' = PacketSize
  <2> DEFINE k == i - L
  <2>1. k \in 1 .. n /\ L + k = i
    BY <1>7, <1>1, <1>2
  <2>2. wire'[i] = <<packet, written + k>>
    BY <2>1, <1>2
  <2>3. PacketSize \in 1 .. PacketSize /\ i - PacketSize + PacketSize = i
    BY <1>2, <1>3
  <2>4. wire'[i][2] = PacketSize
    <3>1. wire'[i - PacketSize + PacketSize] = <<wire'[i][1], PacketSize>>
      BY <2>3, <1>7 DEF WholeAt
    <3> QED BY <3>1, <2>3
  <2>5. written + k = PacketSize
    BY <2>2, <2>4
  <2> QED BY <2>1, <2>5, <1>1, <1>2, <1>3
<1>8. ASSUME written' = PacketSize, NEW i \in 1 .. L + n, i = L + n
      PROVE  WholeAt(i)' /\ wire'[i] = <<packet, PacketSize>>
  <2>1. /\ PacketSize \in 1 .. PacketSize /\ i - PacketSize + PacketSize = i
        /\ i >= PacketSize
        /\ \A k \in 1 .. PacketSize : wire'[i - PacketSize + k] = <<packet, k>>
    <3>1. PacketSize \in 1 .. PacketSize /\ i - PacketSize + PacketSize = i
      BY <1>1, <1>2, <1>3
    <3>2. /\ L + n >= PacketSize
          /\ \A k \in 1 .. PacketSize : wire'[L + n - PacketSize + k] = <<packet, k>>
      BY <1>4, <1>8
    <3>3. i = L + n
      BY <1>8
    <3>4. ASSUME NEW k \in 1 .. PacketSize PROVE wire'[i - PacketSize + k] = <<packet, k>>
      <4>1. i - PacketSize + k = L + n - PacketSize + k
        BY <3>3, <1>1, <1>2, <1>3
      <4> QED BY <4>1, <3>2
    <3>5. i >= PacketSize
      BY <3>2, <3>3
    <3> QED BY <3>1, <3>4, <3>5
  <2>2. wire'[i] = <<packet, PacketSize>>
    <3>1. wire'[i - PacketSize + PacketSize] = <<packet, PacketSize>>
      BY <2>1
    <3> QED BY <2>1, <3>1
  <2>3. \A k \in 1 .. PacketSize : wire'[i - PacketSize + k] = <<wire'[i][1], k>>
    BY <2>1, <2>2
  <2> QED BY <2>1, <2>2, <2>3 DEF WholeAt
<1>9. ASSUME written' = PacketSize PROVE Ends' = Ends \cup {L + n}
  <2>1. ASSUME NEW i PROVE i \in Ends' <=> i \in Ends \cup {L + n}
    <3>1. i \in Ends' <=> i \in 1 .. L + n /\ WholeAt(i)'
      BY <1>3 DEF Ends
    <3>2. i \in Ends <=> i \in 1 .. L /\ WholeAt(i)
      BY <1>3 DEF Ends
    <3>3. i \in 1 .. L + n <=> i \in 1 .. L \/ (i \in 1 .. L + n /\ i > L)
      BY <1>1, <1>2
    <3>4. L + n \in 1 .. L + n /\ ~(L + n \in 1 .. L)
      BY <1>1, <1>2
    <3> QED BY <3>1, <3>2, <3>3, <3>4, <1>6, <1>7, <1>8, <1>9
  <2> QED BY <2>1
<1>10. ASSUME written' # PacketSize PROVE Ends' = Ends
  <2>1. ASSUME NEW i PROVE i \in Ends' <=> i \in Ends
    <3>1. i \in Ends' <=> i \in 1 .. L + n /\ WholeAt(i)'
      BY <1>3 DEF Ends
    <3>2. i \in Ends <=> i \in 1 .. L /\ WholeAt(i)
      BY <1>3 DEF Ends
    <3>3. i \in 1 .. L + n <=> i \in 1 .. L \/ (i \in 1 .. L + n /\ i > L)
      BY <1>1, <1>2
    <3> QED BY <3>1, <3>2, <3>3, <1>6, <1>7, <1>10
  <2> QED BY <2>1
<1>11. ASSUME NEW e \in Ends PROVE e < L + n /\ wire'[e] = wire[e]
  BY <1>1, <1>2, <1>3 DEF Ends
<1>12. ASSUME written' = PacketSize PROVE wire'[L + n][1] = packet
  <2>1. L + n \in 1 .. L + n
    BY <1>1, <1>2
  <2> QED BY <2>1, <1>8, <1>12
<1>13. Len(wire') = L + n /\ L + n \in Nat
  BY <1>1, <1>2
<1>14. Ends' = IF written' = PacketSize THEN Ends \cup {L + n} ELSE Ends
  BY <1>9, <1>10
<1> QED BY <1>11, <1>12, <1>13, <1>14

(* The stream has a whole packet of every rank.                            *)
WireInv == SendInv /\ Ranked(Ends)

(* The host finds as many packets as end on the wire.                      *)
LEMMA DecodedType ==
  ASSUME WireInv
  PROVE  Decoded \in Seq(Nat) /\ Len(Decoded) = Cardinality(Ends)
<1>1. Ranked(Ends) /\ Cardinality(Ends) \in Nat
  BY FS_CardinalityType DEF WireInv, Ranked
<1>2. wire \in Seq(Units)
  BY DEF WireInv, SendInv, TypeOK, Units
<1>3. ASSUME NEW j \in 1 .. Cardinality(Ends) PROVE wire[Nth(Ends, j)][1] \in Nat
  <2>1. Nth(Ends, j) \in DOMAIN wire
    <3>1. Nth(Ends, j) \in Ends
      BY <1>1, NthIs
    <3> QED BY <3>1 DEF Ends
  <2>2. wire[Nth(Ends, j)] \in Units
    BY <2>1, <1>2
  <2> QED BY <2>2 DEF Units
<1>4. Decoded \in [1 .. Cardinality(Ends) -> Nat]
  BY <1>3 DEF Decoded
<1> QED BY <1>1, <1>4

(* What a write does to the packets the host has found.                    *)
LEMMA DecodeStep ==
  ASSUME WireInv, TailInv', NEW n \in 1 .. PacketSize - written, Write(n)
  PROVE  /\ Ranked(Ends)'
         /\ Decoded' = IF written' = PacketSize THEN Append(Decoded, packet) ELSE Decoded
<1> DEFINE c == Cardinality(Ends)
           S == Ends
           x == Len(wire')
<1>1. /\ Ends' = IF written' = PacketSize THEN Ends \cup {x} ELSE Ends
      /\ x \in Nat /\ \A e \in Ends : e < x /\ wire'[e] = wire[e]
      /\ written' = PacketSize => wire'[x][1] = packet
  BY EndsKept DEF WireInv, SendInv
<1>2. Decoded = [j \in 1 .. c |-> wire[Nth(Ends, j)][1]]
  BY DEF Decoded
<1>3. Decoded' = [j \in 1 .. Cardinality(Ends') |-> wire'[Nth(Ends', j)][1]]
  BY DEF Decoded, Nth, Rank
<1>4. Ranked(Ends)' <=> Ranked(Ends')
  BY DEF Ranked, Rank
<1>5. Ranked(Ends) /\ c \in Nat
  BY FS_CardinalityType DEF WireInv, Ranked
<1>6. ASSUME NEW j \in 1 .. c PROVE wire'[Nth(Ends, j)] = wire[Nth(Ends, j)]
  BY <1>1, <1>5, NthIs
<1>7. CASE written' # PacketSize
  <2>1. Decoded' = [j \in 1 .. c |-> wire'[Nth(Ends, j)][1]]
    BY <1>1, <1>3, <1>7
  <2>2. Decoded' = Decoded
    BY <2>1, <1>2, <1>6
  <2> QED BY <2>2, <1>1, <1>4, <1>5, <1>7
<1>8. CASE written' = PacketSize
  <2> DEFINE T == Ends \cup {x}
  <2>1. /\ Ranked(T) /\ Cardinality(T) = c + 1 /\ Nth(T, c + 1) = x
        /\ \A j \in 1 .. c : Nth(T, j) = Nth(Ends, j)
    BY <1>1, <1>5, RankMore
  <2>2. Ends' = T
    BY <1>1, <1>8
  <2> HIDE DEF T, c, x
  <2>3. Decoded' = [j \in 1 .. c + 1 |-> wire'[Nth(T, j)][1]]
    BY <2>1, <2>2, <1>3
  <2>4. ASSUME NEW j \in 1 .. c PROVE wire'[Nth(T, j)][1] = Decoded[j]
    BY <2>1, <1>2, <1>6
  <2>5. wire'[Nth(T, c + 1)][1] = packet
    BY <2>1, <1>1, <1>8
  <2>6. Decoded \in Seq(Nat) /\ Len(Decoded) = c /\ packet \in Nat
    BY DecodedType DEF WireInv, SendInv, TypeOK, c
  <2>7. /\ Append(Decoded, packet) \in Seq(Nat) /\ Len(Append(Decoded, packet)) = c + 1
        /\ \A j \in 1 .. c : Append(Decoded, packet)[j] = Decoded[j]
        /\ Append(Decoded, packet)[c + 1] = packet
    BY <2>6, AppendProperties
  <2>8. Append(Decoded, packet) = [j \in 1 .. c + 1 |-> Append(Decoded, packet)[j]]
    <3> DEFINE q == Append(Decoded, packet)
    <3>1. q \in Seq(Nat) /\ Len(q) = c + 1
      BY <2>7
    <3> HIDE DEF q
    <3>2. q = [j \in 1 .. c + 1 |-> q[j]]
      BY <3>1
    <3> QED BY <3>2 DEF q
  <2>9. ASSUME NEW j \in 1 .. c + 1
        PROVE  wire'[Nth(T, j)][1] = Append(Decoded, packet)[j]
    <3>1. j \in 1 .. c \/ j = c + 1
      BY <1>5 DEF c
    <3> QED BY <3>1, <2>4, <2>5, <2>7
  <2>10. Decoded' = Append(Decoded, packet)
    BY <2>3, <2>8, <2>9
  <2> QED BY <2>1, <2>2, <2>10, <1>4, <1>8
<1> QED BY <1>7, <1>8
(* No packet is whole on the wire at first.                                *)
LEMMA WireStart ==
  ASSUME Init
  PROVE  WireInv /\ Decoded = <<>>
<1>1. Ends = {}
  BY DEF Init, Ends
<1>2. IsFiniteSet(Ends) /\ Cardinality(Ends) = 0
  BY <1>1, FS_EmptySet
<1>3. Ranked(Ends)
  BY <1>1, <1>2 DEF Ranked
<1>4. WireInv
  BY <1>3, SendStart DEF WireInv
<1>5. Decoded \in Seq(Nat) /\ Len(Decoded) = 0
  BY <1>2, <1>4, DecodedType
<1> QED BY <1>4, <1>5, EmptySeq

(* WireInv is inductive.                                                   *)
LEMMA WireStep ==
  ASSUME WireInv, [Next]_vars
  PROVE  WireInv'
<1>1. SendInv' /\ TailInv'
  BY SendStep DEF WireInv, SendInv
<1>2. ASSUME NEW n \in 1 .. PacketSize - written, Write(n) PROVE WireInv'
  BY <1>1, <1>2, DecodeStep DEF WireInv
<1>3. CASE wire' = wire
  <2>1. Ends' = Ends
    BY <1>3 DEF Ends, WholeAt
  <2>2. Ranked(Ends)' <=> Ranked(Ends')
    BY DEF Ranked, Rank
  <2> QED BY <1>1, <2>1, <2>2 DEF WireInv
<1>4. TypeOK
  BY DEF WireInv, SendInv
<1> QED BY <1>2, <1>3, <1>4, Others DEF SendPacket

(* The packets of the channel, which are numbered from 0.                  *)
Lowered(q) == [j \in DOMAIN q |-> q[j] - 1]

LEMMA LoweredAppend ==
  ASSUME NEW q \in Seq(Nat), NEW p \in Nat
  PROVE  Lowered(Append(q, p)) = Append(Lowered(q), p - 1)
<1> DEFINE a == Append(q, p)
           b == Append(Lowered(q), p - 1)
<1>1. /\ a \in Seq(Nat) /\ Len(a) = Len(q) + 1 /\ Len(q) \in Nat
      /\ \A j \in 1 .. Len(q) : a[j] = q[j]
      /\ a[Len(q) + 1] = p
  BY AppendProperties
<1>2. Lowered(q) \in Seq(Int) /\ Len(Lowered(q)) = Len(q)
  <2>1. Lowered(q) = [j \in 1 .. Len(q) |-> q[j] - 1]
    BY DEF Lowered
  <2> QED BY <2>1, <1>1
<1>3. /\ b \in Seq(Int) /\ Len(b) = Len(q) + 1
      /\ \A j \in 1 .. Len(q) : b[j] = Lowered(q)[j]
      /\ b[Len(q) + 1] = p - 1
  BY <1>2, AppendProperties
<1>4. \A j \in 1 .. Len(q) : Lowered(q)[j] = q[j] - 1
  BY DEF Lowered
<1> HIDE DEF a, b
<1>5. Lowered(a) \in Seq(Int) /\ Len(Lowered(a)) = Len(q) + 1
      /\ \A j \in 1 .. Len(q) + 1 : Lowered(a)[j] = a[j] - 1
  <2>1. Lowered(a) = [j \in 1 .. Len(q) + 1 |-> a[j] - 1]
    BY <1>1 DEF Lowered
  <2> QED BY <2>1, <1>1
<1>6. ASSUME NEW j \in 1 .. Len(q) + 1 PROVE Lowered(a)[j] = b[j]
  <2>1. j \in 1 .. Len(q) \/ j = Len(q) + 1
    BY <1>1
  <2> QED BY <2>1, <1>1, <1>3, <1>4, <1>5
<1>7. Lowered(a) = b
  BY <1>3, <1>5, <1>6, SeqEqual
<1> QED BY <1>7 DEF a, b

(* The steps of a send, and those between two of them.                     *)
LEMMA SendCases ==
  ASSUME TypeOK, [Next]_vars
  PROVE  \/ SendPacket
         \/ \E n \in 1 .. PacketSize - written : Write(n)
         \/ WriteNothing \/ WriteFails
         \/ /\ UNCHANGED <<wire, packet>>
            /\ pc' = pc \/ (pc # "writing" /\ pc' # "writing")
BY DEF Next, UsbThread, SendBytes, Open, OpenFails, Sent, Disconnected, SendError,
       Cleanup, Shutdown, Unplug, Terminated, vars

(* A send accepts a packet into the channel; it leaves it with the write   *)
(* that completes it, or is lost when usb_transport_send_bytes gives up.   *)
LEMMA ChannelStep ==
  ASSUME WireInv, [Next]_vars
  PROVE  [Channel!Next]_Channel!chan
<1> DEFINE arrived == [j \in DOMAIN Decoded |-> Decoded[j] - 1]
           lost    == pc = "writing" /\ pc' # "writing" /\ packet' = packet /\ arrived' = arrived
           idle    == packet' = packet /\ arrived' = arrived
                      /\ (pc' = "writing" <=> pc = "writing")
<1>1. TypeOK /\ LoopInv /\ packet \in Nat /\ Decoded \in Seq(Nat) /\ TailInv'
  BY DecodedType, SendStep DEF WireInv, SendInv, TypeOK
<1>2. ASSUME wire' = wire PROVE arrived' = arrived
  BY <1>2 DEF Decoded, Ends, WholeAt, Nth, Rank
<1>3. CASE SendPacket
  <2>1. /\ pc # "writing" /\ pc' = "writing" /\ packet' = packet + 1 /\ arrived' = arrived
        /\ packet' - 1 = packet
    BY <1>1, <1>2, <1>3 DEF SendPacket
  <2>2. Len(<<>>) < 1 /\ Append(<<>>, packet) = <<packet>>
    OBVIOUS
  <2>3. Channel!Accept
    BY <2>1, <2>2 DEF Channel!Accept
  <2> QED BY <2>3 DEF Channel!Next
<1>4. CASE lost
  <2>1. Tail(<<packet - 1>>) = <<>> /\ <<packet - 1>> # <<>>
    OBVIOUS
  <2>2. Channel!Lose
    BY <1>4, <2>1 DEF Channel!Lose
  <2> QED BY <2>2 DEF Channel!Next
<1>5. CASE idle
  BY <1>5 DEF Channel!chan
<1>6. CASE WriteNothing
  <2>1. pc = "writing" /\ UNCHANGED <<packet, wire>> /\ (pc' = pc \/ pc' = "returned")
    BY <1>6 DEF WriteNothing, NextTry
  <2> QED BY <2>1, <1>2, <1>4, <1>5
<1>7. CASE WriteFails
  <2>1. pc = "writing" /\ UNCHANGED <<packet, wire>> /\ pc' = "returned"
    BY <1>7 DEF WriteFails
  <2> QED BY <2>1, <1>2, <1>4
<1>8. ASSUME NEW n \in 1 .. PacketSize - written, Write(n)
      PROVE  [Channel!Next]_Channel!chan
  <2>1. pc = "writing" /\ packet' = packet
    BY <1>1, <1>8, WriteParts
  <2>2. Decoded' = IF written' = PacketSize THEN Append(Decoded, packet) ELSE Decoded
    BY <1>1, <1>8, DecodeStep
  <2>3. CASE written' = PacketSize
    <3>1. arrived' = Append(arrived, packet - 1)
      BY <2>2, <2>3, <1>1, LoweredAppend DEF Lowered
    <3>2. pc' = "returned"
      BY <2>3, <1>8 DEF Write
    <3>3. /\ Tail(<<packet - 1>>) = <<>> /\ <<packet - 1>> # <<>>
          /\ Head(<<packet - 1>>) = packet - 1
      OBVIOUS
    <3>4. Channel!Deliver
      BY <2>1, <3>1, <3>2, <3>3 DEF Channel!Deliver
    <3> QED BY <3>4 DEF Channel!Next
  <2>4. CASE written' # PacketSize
    <3>1. arrived' = arrived
      BY <2>2, <2>4
    <3>2. pc' = pc \/ pc' = "returned"
      BY <2>4, <1>8 DEF Write, NextTry
    <3> QED BY <2>1, <3>1, <3>2, <1>4, <1>5
  <2> QED BY <2>3, <2>4
<1>9. CASE UNCHANGED <<wire, packet>> /\ (pc' = pc \/ (pc # "writing" /\ pc' # "writing"))
  BY <1>2, <1>5, <1>9
<1> QED BY <1>1, <1>3, <1>6, <1>7, <1>8, <1>9, SendCases

(* The host sees a lossy channel that keeps the order: whatever write()    *)
(* accepts, the packets it finds whole in the stream are sent ones, in the *)
(* order of their sending and each at most once, for packets of any size.  *)
THEOREM ChannelRefinement == Spec => ImplementsChannel
<1>1. Init => Channel!Init
  <2> SUFFICES ASSUME Init PROVE Channel!Init
    OBVIOUS
  <2>1. Decoded = <<>> /\ DOMAIN Decoded = {}
    BY WireStart
  <2>2. [j \in DOMAIN Decoded |-> Decoded[j] - 1] = <<>>
    <3>1. [j \in DOMAIN Decoded |-> Decoded[j] - 1] = [j \in 1 .. 0 |-> Decoded[j] - 1]
      BY <2>1
    <3> QED BY <3>1
  <2> QED BY <2>2 DEF Init, Channel!Init
<1>2. Init => WireInv
  BY WireStart
<1>3. WireInv /\ [Next]_vars => WireInv'
  BY WireStep
<1>4. WireInv /\ [Next]_vars => [Channel!Next]_Channel!chan
  BY ChannelStep
<1> QED BY <1>1, <1>2, <1>3, <1>4, PTL DEF Spec, ImplementsChannel, Channel!Spec
=============================================================================
