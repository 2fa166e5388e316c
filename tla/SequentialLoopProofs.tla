------------------------- MODULE SequentialLoopProofs -------------------------
(***************************************************************************)
(* Proofs of the safety of SequentialLoop, for any frame limit and any     *)
(* error limit, and of its composition with PerfLogger, for any length of  *)
(* the window: the statistics lose no frame and count none twice, and      *)
(* logging changes nothing of the loop that is logged.                     *)
(***************************************************************************)
EXTENDS PerfLogger, TLAPS

(* What main holds at each point of its start-up.                          *)
HoldsInv ==
  /\ pc \in {"camera", "exit"} => resources = {}
  /\ pc = "packet_buffer" => resources = {"camera"}
  /\ pc = "usb" => resources = {"camera", "packet_buffer"}
  /\ pc \notin {"camera", "packet_buffer", "usb", "exit"} => resources = Resources

(* The counters before the loop, and what the guards have established.     *)
CountInv ==
  /\ pc \in {"camera", "packet_buffer", "usb", "threads"} =>
       sequence = 0 /\ early = 0 /\ frames = 0 /\ jpegErrors = 0 /\ wire = <<>>
  /\ pc = "capture" => frames < Frames
  /\ pc \in {"pack", "send"} => jpegErrors < frames
  /\ SequenceCountsPackets

(* Every failure of the camera is in error_count, which the two devices    *)
(* share and either resets, and error_count is below its limit for as long *)
(* as the loop goes on.                                                    *)
ErrorInv ==
  /\ streak.camera <= errors
  /\ pc \in {"pack", "send"} => streak.camera = 0
  /\ errors = ErrorLimit => pc \in {"cleanup", "exit"}

IInv == TypeOK /\ HoldsInv /\ CountInv /\ ErrorInv /\ WireInOrder

(* main starts with nothing acquired and nothing counted.                  *)
LEMMA InitHolds == Init => IInv
  BY LimitsAssumption
  DEF Init, IInv, TypeOK, HoldsInv, CountInv, ErrorInv, WireInOrder,
      SequenceCountsPackets, Resources

(* Appending a number above all the others keeps the wire in order.        *)
LEMMA AppendInOrder ==
  ASSUME NEW s \in Seq(Nat), NEW n \in Nat,
         \A i, j \in DOMAIN s : i < j => s[i] < s[j],
         \A i \in DOMAIN s : s[i] < n
  PROVE  /\ \A i, j \in DOMAIN Append(s, n) :
              i < j => Append(s, n)[i] < Append(s, n)[j]
         /\ \A i \in DOMAIN Append(s, n) : Append(s, n)[i] < n + 1
<1>1. /\ DOMAIN Append(s, n) = 1 .. Len(s) + 1
      /\ Append(s, n)[Len(s) + 1] = n
      /\ \A i \in 1 .. Len(s) : Append(s, n)[i] = s[i]
      /\ DOMAIN s = 1 .. Len(s) /\ Len(s) \in Nat
      /\ \A i \in 1 .. Len(s) : s[i] \in Nat
  OBVIOUS
<1>2. \A i \in 1 .. Len(s) + 1 : i = Len(s) + 1 \/ i \in 1 .. Len(s)
  BY <1>1
<1>. QED
  BY <1>1, <1>2

(* What one more failure of a device does to the history.                  *)
LEMMA StreakGrows ==
  ASSUME NEW s \in [camera : Nat, usb : Nat]
  PROVE  /\ [s EXCEPT !.camera = @ + 1] \in [camera : Nat, usb : Nat]
         /\ [s EXCEPT !.camera = @ + 1].camera = s.camera + 1
         /\ [s EXCEPT !.usb = @ + 1] \in [camera : Nat, usb : Nat]
         /\ [s EXCEPT !.usb = @ + 1].camera = s.camera
  OBVIOUS

(* Each step of main and of the signal handler preserves the invariant.    *)
LEMMA StepHolds == IInv /\ [Next]_vars => IInv'
<1>. SUFFICES ASSUME IInv, [Next]_vars PROVE IInv'
  OBVIOUS
<1>. USE LimitsAssumption
         DEF IInv, TypeOK, HoldsInv, CountInv, ErrorInv, SequenceCountsPackets,
             Resources, loop, sig, At
<1>1. CASE CameraInit
  BY <1>1 DEF CameraInit, WireInOrder
<1>2. CASE AllocatePacketBuffer
  BY <1>2 DEF AllocatePacketBuffer, WireInOrder
<1>3. CASE UsbInit
  BY <1>3 DEF UsbInit, WireInOrder
<1>4. CASE FallBack
  BY <1>4 DEF FallBack, WireInOrder
<1>5. CASE Top
  BY <1>5 DEF Top, WireInOrder
<1>6. CASE CameraTimeout
  BY <1>6 DEF CameraTimeout, WireInOrder
<1>7. CASE CameraError
  <2>1. /\ streak' \in [camera : Nat, usb : Nat]
        /\ streak'.camera = streak.camera + 1
    BY <1>7, StreakGrows DEF CameraError
  <2>2. errors < ErrorLimit
    BY <1>7 DEF CameraError
  <2>3. (TypeOK /\ HoldsInv /\ ErrorInv)'
    <3>1. /\ pc' = IF errors + 1 >= ErrorLimit THEN "cleanup" ELSE "loop"
          /\ errors' = errors + 1
          /\ UNCHANGED <<resources, sig, frames, jpegErrors, sequence, wire, early>>
          /\ resources = Resources
      BY <1>7 DEF CameraError
    <3>2. HoldsInv' /\ ErrorInv'
      BY <2>1, <2>2, <3>1
    <3>. QED
      BY <2>1, <2>2, <3>1, <3>2
  <2>4. CountInv'
    BY <1>7 DEF CameraError
  <2>5. WireInOrder'
    <3>1. pc = "capture" /\ pc' # "send" /\ UNCHANGED <<wire, sequence>>
      BY <1>7 DEF CameraError
    <3>. QED
      BY <3>1 DEF WireInOrder
  <2>. QED
    BY <2>3, <2>4, <2>5
<1>8. CASE CameraFrame
  <2>1. /\ streak' \in [camera : Nat, usb : Nat]
        /\ streak'.camera = 0
    BY <1>8 DEF CameraFrame
  <2>2. /\ frames' \in 0 .. Frames
        /\ jpegErrors' \in 0 .. frames'
        /\ jpegErrors' < frames'
    BY <1>8 DEF CameraFrame
  <2>3. TypeOK' /\ HoldsInv' /\ ErrorInv'
    BY <1>8, <2>1, <2>2 DEF CameraFrame
  <2>4. CountInv'
    BY <1>8, <2>2 DEF CameraFrame
  <2>5. WireInOrder'
    BY <1>8 DEF CameraFrame, WireInOrder
  <2>. QED
    BY <2>3, <2>4, <2>5
<1>9. CASE PackFrame
  BY <1>9 DEF PackFrame, WireInOrder
<1>10. CASE PackError
  BY <1>10 DEF PackError, WireInOrder
<1>11. CASE Send
  <2>0. /\ streak' \in [camera : Nat, usb : Nat]
        /\ streak'.camera = streak.camera
    BY <1>11 DEF Send
  <2>. DEFINE n == sequence - 1
  <2>1. n \in Nat /\ wire' = Append(wire, n) /\ sequence' = n + 1 /\ pc' = "loop"
    BY <1>11 DEF Send
  <2>2. (TypeOK /\ HoldsInv /\ ErrorInv)'
    <3>1. wire' \in Seq(Nat)
      BY <2>1
    <3>. HIDE DEF n
    <3>2. /\ sequence' = sequence /\ errors' = 0 /\ ErrorLimit > 0
          /\ UNCHANGED <<resources, sig, frames, jpegErrors, early>>
          /\ errors \in Nat
      BY <1>11 DEF Send
    <3>3. streak'.camera <= errors' /\ errors' # ErrorLimit
      BY <1>11, <2>0, <3>2 DEF Send
    <3>4. TypeOK'
      BY <2>0, <2>1, <3>1, <3>2
    <3>5. HoldsInv'
      BY <1>11, <2>1, <3>2 DEF Send
    <3>. QED
      BY <2>1, <3>3, <3>4, <3>5
  <2>3. CountInv'
    BY <1>11 DEF Send
  <2>4. WireInOrder'
    <3>1. /\ \A i, j \in DOMAIN wire : i < j => wire[i] < wire[j]
          /\ \A i \in DOMAIN wire : wire[i] < n
      BY <1>11 DEF Send, WireInOrder
    <3>. HIDE DEF n
    <3>2. /\ \A i, j \in DOMAIN wire' : i < j => wire'[i] < wire'[j]
          /\ \A i \in DOMAIN wire' : wire'[i] < n + 1
      BY <2>1, <3>1, AppendInOrder
    <3>3. sequence' - (IF pc' = "send" THEN 1 ELSE 0) = n + 1
      BY <2>1
    <3>. QED
      BY <3>2, <3>3 DEF WireInOrder
  <2>. QED
    BY <2>2, <2>3, <2>4
<1>12. CASE SendFails
  <2>1. /\ streak' \in [camera : Nat, usb : Nat]
        /\ streak'.camera = streak.camera
    BY <1>12, StreakGrows DEF SendFails
  <2>2. errors < ErrorLimit
    BY <1>12 DEF SendFails
  <2>3. (TypeOK /\ HoldsInv /\ ErrorInv)'
    <3>1. /\ pc' = IF errors + 1 >= ErrorLimit THEN "cleanup" ELSE "loop"
          /\ errors' = errors + 1
          /\ UNCHANGED <<resources, sig, frames, jpegErrors, sequence, wire, early>>
          /\ resources = Resources
      BY <1>12 DEF SendFails
    <3>2. HoldsInv' /\ ErrorInv'
      BY <2>1, <2>2, <3>1
    <3>. QED
      BY <2>1, <2>2, <3>1, <3>2
  <2>4. CountInv'
    BY <1>12 DEF SendFails
  <2>5. WireInOrder'
    <3>1. pc = "send" /\ pc' # "send" /\ UNCHANGED <<wire, sequence>>
      BY <1>12 DEF SendFails
    <3>. QED
      BY <3>1 DEF WireInOrder
  <2>. QED
    BY <2>3, <2>4, <2>5
<1>13. CASE Cleanup
  BY <1>13 DEF Cleanup, WireInOrder
<1>14. CASE Signal \/ HandlerLock
  <2>1. /\ UNCHANGED <<pc, resources, frames, errors, jpegErrors, sequence, wire,
                       early, streak>>
        /\ running' \in BOOLEAN /\ handler' \in {"idle", "lock", "stuck"}
        /\ signals' \in 0 .. MaxSignals
    <3>1. CASE Signal
      <4>1. signals + 1 \in 0 .. MaxSignals
        BY <3>1 DEF Signal
      <4>. QED
        BY <3>1, <4>1 DEF Signal
    <3>2. CASE HandlerLock
      BY <3>2 DEF HandlerLock
    <3>. QED
      BY <1>14, <3>1, <3>2
  <2>2. TypeOK'
    BY <2>1
  <2>3. HoldsInv' /\ CountInv' /\ ErrorInv'
    BY <2>1
  <2>4. WireInOrder'
    BY <2>1 DEF WireInOrder
  <2>. QED
    BY <2>2, <2>3, <2>4
<1>15. CASE UNCHANGED vars
  BY <1>15 DEF vars, WireInOrder
<1>. QED
  BY <1>1, <1>2, <1>3, <1>4, <1>5, <1>6, <1>7, <1>8, <1>9, <1>10, <1>11, <1>12,
     <1>13, <1>14, <1>15 DEF Next, Main, Ended

(* The inductive invariant holds in every reachable state.                  *)
THEOREM Invariance == Spec => []IInv
  BY InitHolds, StepHolds, PTL DEF Spec

(* However the start-up fails and the loop ends, main returns with the     *)
(* camera, the packet buffer and the USB device released.                  *)
THEOREM Released == Spec => []ReleasedAtExit
<1>1. IInv => ReleasedAtExit
  BY DEF IInv, HoldsInv, ReleasedAtExit
<1>. QED
  BY <1>1, Invariance, PTL

(* Sequence numbers count the packets, whatever frames are skipped.        *)
THEOREM NumbersCountPackets == Spec => []SequenceCountsPackets
<1>1. IInv => SequenceCountsPackets
  BY DEF IInv, CountInv
<1>. QED
  BY <1>1, Invariance, PTL

(* Numbers grow along the wire, whatever sends fail.                       *)
THEOREM NumbersInOrder == Spec => []WireInOrder
<1>1. IInv => WireInOrder
  BY DEF IInv
<1>. QED
  BY <1>1, Invariance, PTL

(* The loop never outlives ten camera errors in a row.                     *)
THEOREM CameraErrorsBounded == Spec => []CameraErrorsStop
<1>1. IInv => CameraErrorsStop
  BY LimitsAssumption DEF IInv, TypeOK, ErrorInv, CameraErrorsStop
<1>. QED
  BY <1>1, Invariance, PTL

(* The frame that is sent has reset error_count, which both devices share. *)
FreshCount == pc \in {"pack", "send"} => errors = 0

(* A failed send is always the first error, so that it never reaches a     *)
(* limit above one.                                                        *)
SendErrorsForgotten ==
  [][SendFails => /\ errors' = 1
                  /\ ErrorLimit > 1 => pc' = "loop"]_vars

(* "Too many USB errors, exiting" is never reached: each captured frame    *)
(* resets the count that a failed send increments, so the loop goes on     *)
(* however many sends fail in a row.                                       *)
THEOREM UsbErrorsNeverStop == Spec => SendErrorsForgotten
<1>1. Init => FreshCount
  BY DEF Init, FreshCount
<1>2. FreshCount /\ [Next]_vars => FreshCount'
  BY DEF FreshCount, At, vars, loop, Next, Main, Signal, HandlerLock, Ended,
         CameraInit, AllocatePacketBuffer, UsbInit, FallBack, Top, CameraTimeout, CameraError,
         CameraFrame, PackFrame, PackError, Send, SendFails, Cleanup
<1>3. FreshCount /\ SendFails => errors' = 1 /\ (ErrorLimit > 1 => pc' = "loop")
  BY LimitsAssumption DEF FreshCount, SendFails, At
<1>. QED
  BY <1>1, <1>2, <1>3, PTL DEF Spec, SendErrorsForgotten

-----------------------------------------------------------------------------
(* The composition with the logger.                                        *)
Counts == [frames : Nat, written : Nat]

LoggedTypeOK == window \in Counts /\ printed \in Counts /\ total \in Nat

(* Every step of the composition is a step of the loop, or none of it.     *)
LEMMA LoggedStep == [LoggedNext]_loggedVars => [Next]_vars
  BY DEF LoggedNext, LoggedMain, LoggedSend, LoggedSendFails, LoggedCleanup,
         LoggedHandler, Unlogged, loggedVars, Next, Main

(* The composition is the sequential loop: what is proved of the loop      *)
(* holds while it is logged.                                               *)
THEOREM LoggingIsPassive == LoggedSpec => Spec
<1>1. LoggedInit => Init
  BY DEF LoggedInit
<1>. QED
  BY <1>1, LoggedStep, PTL DEF LoggedSpec, Spec

(* Adding up windows.                                                      *)
LEMMA PlusCounts ==
  ASSUME NEW a \in Counts, NEW b \in Counts
  PROVE  /\ Plus(a, b) \in Counts
         /\ Plus(a, b).frames = a.frames + b.frames
         /\ Plus(a, b).written = a.written + b.written
  BY DEF Plus, Counts

(* Printing a window moves its counts, or leaves them where they are.      *)
LEMMA PrintMoves ==
  ASSUME NEW current \in Counts, NEW force \in BOOLEAN, LoggedTypeOK,
         perf_logger_print_stats(current, force)
  PROVE  /\ window' \in Counts /\ printed' \in Counts
         /\ Plus(printed, window)'.frames = printed.frames + current.frames
         /\ Plus(printed, window)'.written = printed.written + current.written
<1>1. \/ printed' = Plus(printed, current) /\ window' = Empty
      \/ printed' = printed /\ window' = current
  BY DEF perf_logger_print_stats
<1>2. Empty \in Counts /\ Empty.frames = 0 /\ Empty.written = 0
  BY DEF Empty, Counts
<1>3. window' \in Counts /\ printed' \in Counts
  BY <1>1, <1>2, PlusCounts DEF LoggedTypeOK
<1>4. /\ Plus(printed, window)'.frames = printed'.frames + window'.frames
      /\ Plus(printed, window)'.written = printed'.written + window'.written
  BY <1>3 DEF Plus
<1>5. printed.frames \in Nat /\ printed.written \in Nat
  BY DEF LoggedTypeOK, Counts
<1>6. current.frames \in Nat /\ current.written \in Nat
  BY DEF Counts
<1>7. CASE printed' = Plus(printed, current) /\ window' = Empty
  BY <1>2, <1>3, <1>4, <1>5, <1>6, <1>7, PlusCounts DEF LoggedTypeOK
<1>8. CASE printed' = printed /\ window' = current
  BY <1>3, <1>4, <1>8
<1>. QED
  BY <1>1, <1>7, <1>8

(* Adding one, or some number, on both sides.                              *)
LEMMA AddOne ==
  ASSUME NEW a \in Nat, NEW b \in Nat, NEW c \in Nat, a + b = c
  PROVE  a + (b + 1) = c + 1
  OBVIOUS

(* The same, of n frames or bytes.                                         *)
LEMMA AddSome ==
  ASSUME NEW a \in Nat, NEW b \in Nat, NEW c \in Nat, a + b = c, NEW n \in Nat
  PROVE  a + (b + n) = c + n
  OBVIOUS

(* Recording a frame adds it to the totals.                                *)
LEMMA RecordAdds ==
  ASSUME NEW w \in {0, 1}, LoggedTypeOK, StatsMatchWire, Len(wire) \in Nat,
         perf_logger_record_frame(w), Len(wire)' = Len(wire) + w
  PROVE  LoggedTypeOK' /\ StatsMatchWire'
<1> DEFINE one == [frames |-> 1, written |-> w]
<1>1. one \in Counts /\ one.frames = 1 /\ one.written = w
  BY DEF Counts
<1>2. /\ window \in Counts
      /\ Plus(window, one) \in Counts
      /\ Plus(window, one).frames = window.frames + 1
      /\ Plus(window, one).written = window.written + w
  BY <1>1, PlusCounts DEF LoggedTypeOK
<1>3. perf_logger_print_stats(Plus(window, one), FALSE) /\ total' = total + 1
  BY DEF perf_logger_record_frame
<1>4. /\ window' \in Counts /\ printed' \in Counts
      /\ Plus(printed, window)'.frames = printed.frames + Plus(window, one).frames
      /\ Plus(printed, window)'.written = printed.written + Plus(window, one).written
  BY <1>2, <1>3, PrintMoves
<1>5. /\ printed.frames + window.frames = total
      /\ printed.written + window.written = Len(wire)
      /\ total >= Len(wire)
  BY DEF StatsMatchWire, Plus
<1>6. /\ printed.frames \in Nat /\ printed.written \in Nat
      /\ window.frames \in Nat /\ window.written \in Nat /\ total \in Nat
  BY DEF LoggedTypeOK, Counts
<1>7. LoggedTypeOK'
  BY <1>3, <1>4 DEF LoggedTypeOK
<1>8. Plus(printed, window)'.frames = total'
  <2>1. Plus(printed, window)'.frames = printed.frames + (window.frames + 1)
    BY <1>2, <1>4
  <2>2. /\ printed.frames + window.frames = total
        /\ printed.frames \in Nat /\ window.frames \in Nat /\ total \in Nat
    BY <1>5, <1>6
  <2>3. printed.frames + (window.frames + 1) = total + 1
    <3> HIDE DEF one
    <3>. QED
      BY <2>2, AddOne
  <2>. QED
    BY <1>3, <2>1, <2>3
<1>9. Plus(printed, window)'.written = Len(wire)'
  <2>1. Plus(printed, window)'.written = printed.written + (window.written + w)
    BY <1>2, <1>4
  <2>2. w \in Nat
    OBVIOUS
  <2>3. printed.written + (window.written + w) = Len(wire) + w
    BY <1>5, <1>6, <2>2, AddSome
  <2>. QED
    BY <2>1, <2>3
<1>10. total' >= Len(wire)'
  BY <1>3, <1>5, <1>6
<1>. QED
  BY <1>7, <1>8, <1>9, <1>10 DEF StatsMatchWire

(* Every frame is in exactly one window, and the windows say what is on    *)
(* the wire.                                                               *)
THEOREM WindowsMatchWire == LoggedSpec => []StatsMatchWire
<1>1. LoggedInit => LoggedTypeOK /\ StatsMatchWire
  BY DEF LoggedInit, Init, LoggedTypeOK, StatsMatchWire, Counts, Plus, Empty
<1>2. IInv /\ LoggedTypeOK /\ StatsMatchWire /\ [LoggedNext]_loggedVars
        => LoggedTypeOK' /\ StatsMatchWire'
  <2> SUFFICES ASSUME IInv, LoggedTypeOK, StatsMatchWire, [LoggedNext]_loggedVars
               PROVE  LoggedTypeOK' /\ StatsMatchWire'
    OBVIOUS
  <2>1. wire \in Seq(Nat) /\ Len(wire) \in Nat /\ sequence - 1 \in Int
    BY DEF IInv, TypeOK
  <2>2. CASE LoggedSend
    <3>1. wire' = Append(wire, sequence - 1) /\ perf_logger_record_frame(1)
      BY <2>2 DEF LoggedSend, Send
    <3>2. Len(wire)' = Len(wire) + 1
      BY <2>1, <3>1
    <3>. QED
      BY <2>1, <3>1, <3>2, RecordAdds
  <2>3. CASE LoggedSendFails
    <3>1. wire' = wire
      BY <2>3 DEF LoggedSendFails, SendFails
    <3>2. CASE perf_logger_record_frame(0)
      <4>1. Len(wire)' = Len(wire) + 0
        BY <2>1, <3>1
      <4>. QED
        BY <2>1, <3>2, <4>1, RecordAdds
    <3>3. CASE UNCHANGED stats
      BY <3>1, <3>3 DEF stats, LoggedTypeOK, StatsMatchWire
    <3>. QED
      BY <2>3, <3>2, <3>3 DEF LoggedSendFails
  <2>4. CASE LoggedCleanup
    <3>1. wire' = wire /\ total' = total /\ perf_logger_print_stats(window, TRUE)
      BY <2>4 DEF LoggedCleanup, Cleanup, perf_logger_cleanup, loop
    <3>2. /\ window' \in Counts /\ printed' \in Counts
          /\ Plus(printed, window)'.frames = printed.frames + window.frames
          /\ Plus(printed, window)'.written = printed.written + window.written
      BY <3>1, PrintMoves DEF LoggedTypeOK
    <3>3. /\ printed.frames + window.frames = total
          /\ printed.written + window.written = Len(wire)
          /\ total >= Len(wire)
      BY DEF StatsMatchWire, Plus
    <3>. QED
      BY <3>1, <3>2, <3>3 DEF LoggedTypeOK, StatsMatchWire
  <2>5. CASE UNCHANGED stats /\ wire' = wire
    BY <2>5 DEF stats, LoggedTypeOK, StatsMatchWire
  <2>6. CASE Unlogged
    <3>1. UNCHANGED stats /\ wire' = wire
      BY <2>6 DEF Unlogged, CameraInit, AllocatePacketBuffer, UsbInit, FallBack,
                  Top, CameraTimeout, CameraError, CameraFrame, PackFrame, PackError,
                  loop
    <3>. QED
      BY <2>5, <3>1
  <2>7. CASE LoggedHandler \/ (Ended /\ UNCHANGED stats)
    BY <2>5, <2>7 DEF LoggedHandler, Signal, HandlerLock, Ended, vars, loop
  <2>8. CASE UNCHANGED loggedVars
    BY <2>5, <2>8 DEF loggedVars, vars, loop
  <2>. QED
    BY <2>2, <2>3, <2>4, <2>6, <2>7, <2>8 DEF LoggedNext, LoggedMain
<1>3. LoggedSpec => []IInv
  <2>1. LoggedInit => Init
    BY DEF LoggedInit
  <2>. QED
    BY <2>1, LoggedStep, InitHolds, StepHolds, PTL DEF LoggedSpec
<1>. QED
  BY <1>1, <1>2, <1>3, PTL DEF LoggedSpec
=============================================================================
