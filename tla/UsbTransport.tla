----------------------------- MODULE UsbTransport -----------------------------
(***************************************************************************)
(* usb_transport.c as the USB thread of camera_threads.c uses it: opening  *)
(* the CDC device, usb_transport_send_bytes with its retry loop around     *)
(* write(), the thread's reaction to each result, and the final close.     *)
(* The definitions no action refers to (WriteRestarts, ...) are faulty     *)
(* variants of the definition that follows them.                           *)
(*                                                                         *)
(* A packet is PacketSize units; write() accepts any number of them, or    *)
(* none, or fails.  The wire is the sequence of units the device accepted: *)
(* <<p, i>> is the i-th unit of packet p.                                  *)
(***************************************************************************)
EXTENDS Integers, Sequences, FiniteSets

CONSTANTS
  PacketSize,   \* units in a packet
  MaxRetry,     \* writes per send, CONFIG_MAX_RECONNECT_RETRY (3)
  MaxOpen,      \* attempts to open the device (10)
  ErrorLimit,   \* consecutive failed sends that stop the thread (10)
  MaxPackets    \* bound: packets offered while the device is plugged in

ASSUME SizesAssumption ==
  /\ PacketSize \in Nat \ {0}
  /\ MaxRetry \in Nat \ {0}
  /\ MaxOpen \in Nat \ {0}
  /\ ErrorLimit \in Nat \ {0}
  /\ MaxPackets \in Nat

VARIABLES
  pc,         \* where the program is
  attempts,   \* failed attempts to open the device
  plugged,    \* the cable is in (the environment's)
  connected,  \* g_usb_transport.connected
  open,       \* g_usb_transport.fd >= 0
  packet,     \* number of the last packet taken from the action queue
  written,    \* total_written
  retry,      \* retry
  result,     \* what usb_transport_send_bytes returned last
  errno,      \* errno of the write that made it fail, or "none"
  errors,     \* error_count of the USB thread
  wire        \* the units the device accepted

device == <<attempts, plugged, open>>
send   == <<packet, written, retry, wire>>
vars   == <<pc, device, connected, send, result, errno, errors>>

Failed == {"write", "disconnected"}
-----------------------------------------------------------------------------
(* usb_transport_init: ten attempts, one second apart.                     *)
Open ==
  /\ pc = "open"
  /\ plugged
  /\ open' = TRUE
  /\ connected' = TRUE
  /\ pc' = "idle"
  /\ UNCHANGED <<attempts, plugged, send, result, errno, errors>>

OpenFails ==
  /\ pc = "open"
  /\ attempts' = attempts + 1
  /\ pc' = IF attempts' = MaxOpen THEN "closed" ELSE "open"
  /\ UNCHANGED <<plugged, open, connected, send, result, errno, errors>>

(* The bound on the packets offered: once the device is gone, as many more *)
(* as the thread needs to reach its error limit.                           *)
Offered == packet < MaxPackets + (IF plugged THEN 0 ELSE ErrorLimit)

SendAgainAfterError ==
  /\ pc = "idle"
  /\ Offered
  /\ packet' = IF result = "write" THEN packet ELSE packet + 1
  /\ written' = 0
  /\ retry' = 0
  /\ pc' = "writing"
  /\ UNCHANGED <<device, connected, wire, result, errno, errors>>

(* The thread takes a packet and calls usb_transport_send_bytes.           *)
SendPacket ==
  /\ pc = "idle"
  /\ Offered
  /\ packet' = packet + 1
  /\ written' = 0
  /\ retry' = 0
  /\ pc' = "writing"
  /\ UNCHANGED <<device, connected, wire, result, errno, errors>>

NextTryOffByOne ==
  /\ retry' = retry + 1
  /\ IF retry' <= MaxRetry
     THEN UNCHANGED <<pc, connected, result>>
     ELSE /\ pc' = "returned"
          /\ connected' = FALSE
          /\ result' = "disconnected"

(* The end of an iteration of the retry loop that did not return.          *)
NextTry ==
  /\ retry' = retry + 1
  /\ IF retry' < MaxRetry
     THEN UNCHANGED <<pc, connected, result>>
     ELSE /\ pc' = "returned"
          /\ connected' = FALSE
          /\ result' = "disconnected"

Chunk(n) == [i \in 1 .. n |-> <<packet, written + i>>]

ChunkFromStart(n) == [i \in 1 .. n |-> <<packet, i>>]

WriteRestarts(n) ==
  /\ pc = "writing"
  /\ plugged
  /\ wire' = wire \o ChunkFromStart(n)
  /\ written' = written + n
  /\ IF written' = PacketSize
     THEN /\ pc' = "returned"
          /\ result' = "ok"
          /\ UNCHANGED <<retry, connected>>
     ELSE NextTry
  /\ UNCHANGED <<device, packet, errno, errors>>

WriteOnce(n) ==
  /\ pc = "writing"
  /\ plugged
  /\ wire' = wire \o Chunk(n)
  /\ written' = written + n
  /\ pc' = "returned"
  /\ result' = "ok"
  /\ UNCHANGED <<retry, connected, device, packet, errno, errors>>

(* write() accepted n units: all that was left, or only some.              *)
Write(n) ==
  /\ pc = "writing"
  /\ plugged
  /\ wire' = wire \o Chunk(n)
  /\ written' = written + n
  /\ IF written' = PacketSize
     THEN /\ pc' = "returned"
          /\ result' = "ok"
          /\ UNCHANGED <<retry, connected>>
     ELSE NextTry
  /\ UNCHANGED <<device, packet, errno, errors>>

(* write() returned 0, or -1 with EAGAIN; errno keeps its old value for 0. *)
WriteNothing ==
  /\ pc = "writing"
  /\ NextTry
  /\ errno' \in {errno, "EAGAIN"}
  /\ UNCHANGED <<device, packet, written, wire, errors>>

(* write() failed otherwise: ENXIO and EIO say that the device is gone.    *)
WriteFails ==
  /\ pc = "writing"
  /\ errno' \in {"ENXIO", "EIO", "EINTR"}
  /\ connected' = FALSE
  /\ result' = "write"
  /\ pc' = "returned"
  /\ UNCHANGED <<device, send, errors>>

(* usb_thread_func looks at the result.  Its test for ENXIO and EIO never  *)
(* succeeds: usb_transport_send_bytes returns its own error codes.         *)
Sent ==
  /\ pc = "returned" /\ result = "ok"
  /\ errors' = 0
  /\ pc' = "idle"
  /\ UNCHANGED <<device, connected, send, result, errno>>

DisconnectedIgnored ==
  /\ pc = "returned" /\ result = "disconnected"
  /\ pc' = "idle"
  /\ UNCHANGED <<device, connected, send, result, errno, errors>>

Disconnected ==
  /\ pc = "returned" /\ result = "disconnected"
  /\ pc' = "stopped"
  /\ UNCHANGED <<device, connected, send, result, errno, errors>>

SendError ==
  /\ pc = "returned" /\ result = "write"
  /\ errors' = errors + 1
  /\ pc' = IF errors' >= ErrorLimit THEN "stopped" ELSE "idle"
  /\ UNCHANGED <<device, connected, send, result, errno>>

(* Another thread requested the shutdown.                                  *)
Shutdown ==
  /\ pc = "idle"
  /\ pc' = "stopped"
  /\ UNCHANGED <<device, connected, send, result, errno, errors>>

(* usb_transport_cleanup, called by main after the thread has been joined. *)
Cleanup ==
  /\ pc = "stopped"
  /\ open' = FALSE
  /\ connected' = FALSE
  /\ pc' = "closed"
  /\ UNCHANGED <<attempts, plugged, send, result, errno, errors>>

(* The user pulls the cable out; it stays out.                             *)
Unplug ==
  /\ plugged
  /\ plugged' = FALSE
  /\ UNCHANGED <<pc, attempts, open, connected, send, result, errno, errors>>

usb_transport_is_connected == connected /\ open
-----------------------------------------------------------------------------
Init ==
  /\ pc = "open" /\ attempts = 0 /\ plugged = TRUE
  /\ connected = FALSE /\ open = FALSE
  /\ packet = 0 /\ written = 0 /\ retry = 0 /\ wire = <<>>
  /\ result = "none" /\ errno = "none" /\ errors = 0

SendBytes ==
  \/ \E n \in 1 .. PacketSize - written : Write(n)
  \/ WriteNothing \/ WriteFails

UsbThread ==
  \/ Open \/ OpenFails
  \/ SendPacket \/ SendBytes
  \/ Sent \/ Disconnected \/ SendError
  \/ Cleanup

Terminated == pc = "closed" /\ UNCHANGED vars

Next == UsbThread \/ Shutdown \/ Unplug \/ Terminated

Spec == Init /\ [][Next]_vars

(* The thread runs, and packets keep coming while the device is gone.      *)
FairSpec == Spec /\ WF_vars(UsbThread)
-----------------------------------------------------------------------------
(* Every variable has its type.                                            *)
TypeOK ==
  /\ pc \in {"open", "idle", "writing", "returned", "stopped", "closed"}
  /\ attempts \in 0 .. MaxOpen
  /\ plugged \in BOOLEAN /\ connected \in BOOLEAN /\ open \in BOOLEAN
  /\ packet \in Nat
  /\ written \in 0 .. PacketSize
  /\ retry \in 0 .. MaxRetry
  /\ result \in {"none", "ok"} \cup Failed
  /\ errno \in {"none", "EAGAIN", "ENXIO", "EIO", "EINTR"}
  /\ errors \in 0 .. ErrorLimit
  /\ wire \in Seq(Nat \X (1 .. PacketSize))

(* The packets a host finds whole in the byte stream, whatever truncated   *)
(* packets stand between them, in the order it finds them.                 *)
WholeAt(i) == /\ i >= PacketSize
              /\ \A k \in 1 .. PacketSize :
                   wire[i - PacketSize + k] = <<wire[i][1], k>>
Ends == {i \in DOMAIN wire : WholeAt(i)}

(* How many of S are not above i: 1 for the least, 2 for the next, ...     *)
Rank(S, i) == Cardinality({e \in S : e <= i})
Nth(S, j) == CHOOSE i \in S : Rank(S, i) = j

Decoded == [j \in 1 .. Cardinality(Ends) |-> wire[Nth(Ends, j)][1]]

(* A packet that failed half way leaves a truncated packet on the wire,    *)
(* never a gap or a repetition: after any unit comes the next one of the   *)
(* same packet or the first of a later one.                                *)
NoGapOnWire ==
  /\ \A i \in DOMAIN wire :
       IF i = 1 \/ wire[i][2] = 1
       THEN wire[i][2] = 1 /\ (i > 1 => wire[i - 1][1] < wire[i][1])
       ELSE wire[i] = <<wire[i - 1][1], wire[i - 1][2] + 1>>
  /\ written > 0 => wire[Len(wire)] = <<packet, written>>

(* "Bytes sent" is reported exactly for the packets that are whole on the  *)
(* wire.                                                                   *)
ResultIsTrue ==
  pc = "returned" =>
    (result = "ok" <=> \E i \in DOMAIN wire : WholeAt(i) /\ wire[i][1] = packet)

(* Whatever write() reports after the cable is pulled out, the USB thread  *)
(* stops, and main can close the device.                                   *)
UnplugStops == ~plugged ~> pc = "closed"

(* "Immediate shutdown on USB disconnect": after a write that failed       *)
(* because the device is gone, the thread does not go on.                  *)
ImmediateShutdown ==
  errno \in {"ENXIO", "EIO"} => pc \in {"returned", "stopped", "closed"}

(* "Check if USB is connected": a device that has just taken a packet is.  *)
ConnectedAfterSend ==
  pc = "returned" /\ result = "ok" => usb_transport_is_connected
-----------------------------------------------------------------------------
(* The host sees the lossy ordered channel of FrameChannel: packets it     *)
(* finds whole in the stream arrive in order and at most once.             *)
Channel == INSTANCE FrameChannel WITH
  Capacity  <- 1,
  next      <- packet,
  pending   <- IF pc = "writing" THEN <<packet - 1>> ELSE <<>>,
  delivered <- [j \in DOMAIN Decoded |-> Decoded[j] - 1]

ImplementsChannel == Channel!Spec
=============================================================================
