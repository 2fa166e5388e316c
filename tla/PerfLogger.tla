------------------------------ MODULE PerfLogger ------------------------------
(***************************************************************************)
(* perf_logger.c, composed with the sequential loop that calls it: the     *)
(* statistics of a window of frames, printed and reset when the window is  *)
(* full and when main cleans up.                                           *)
(*                                                                         *)
(* Sizes are counted in packets; latencies, intervals, least and greatest  *)
(* values are left out.  A window in which the clock has not moved is not  *)
(* printed: that is a choice here.                                         *)
(*                                                                         *)
(* The definitions no action refers to (PrintTwice, ...) are faulty        *)
(* variants of the definition that follows them.                           *)
(***************************************************************************)
EXTENDS SequentialLoop

CONSTANT Interval  \* PERF_LOG_INTERVAL_FRAMES (30)

ASSUME IntervalAssumption == Interval \in Nat \ {0}

VARIABLES
  window,   \* g_perf_stats: frames_in_window, and total_usb_bytes in packets
  total,    \* g_total_frames
  printed   \* history: the sums of the windows printed

stats      == <<window, total, printed>>
loggedVars == <<vars, stats>>

Empty == [frames |-> 0, written |-> 0]
Plus(a, b) == [frames  |-> a.frames + b.frames, written |-> a.written + b.written]
-----------------------------------------------------------------------------
PrintTwice(current, force) ==
  IF current.frames > 0 /\ (force \/ current.frames >= Interval)
  THEN /\ printed' = Plus(printed, current)
       /\ window' = current
  ELSE UNCHANGED printed /\ window' = current

(* perf_logger_print_stats, for the window as it is by now.                *)
perf_logger_print_stats(current, force) ==
  IF current.frames > 0 /\ (force \/ current.frames >= Interval)
  THEN \E clockMoved \in BOOLEAN :
         /\ printed' = IF clockMoved THEN Plus(printed, current) ELSE printed
         /\ window' = IF clockMoved THEN Empty ELSE current
  ELSE UNCHANGED printed /\ window' = current

(* perf_logger_record_frame: also for a packet that could not be sent.     *)
perf_logger_record_frame(written) ==
  /\ total' = total + 1
  /\ perf_logger_print_stats(Plus(window, [frames |-> 1, written |-> written]), FALSE)

perf_logger_cleanup ==
  /\ perf_logger_print_stats(window, TRUE)
  /\ UNCHANGED total
-----------------------------------------------------------------------------
LoggedInit == Init /\ window = Empty /\ total = 0 /\ printed = Empty

LoggedSend == Send /\ perf_logger_record_frame(1)

(* After the last error the loop is left before the frame is recorded.     *)
LoggedSendFails ==
  /\ SendFails
  /\ IF pc' = "loop" THEN perf_logger_record_frame(0) ELSE UNCHANGED stats

(* perf_logger_cleanup comes before the release of the resources.          *)
LoggedCleanup == Cleanup /\ perf_logger_cleanup

Unlogged ==
  /\ \/ CameraInit \/ AllocatePacketBuffer \/ UsbInit \/ FallBack
     \/ Top \/ CameraTimeout \/ CameraError \/ CameraFrame
     \/ PackFrame \/ PackError
  /\ UNCHANGED stats

LoggedMain == LoggedSend \/ LoggedSendFails \/ LoggedCleanup \/ Unlogged

LoggedHandler == (Signal \/ HandlerLock) /\ UNCHANGED stats

LoggedNext == LoggedMain \/ LoggedHandler \/ (Ended /\ UNCHANGED stats)

LoggedSpec == LoggedInit /\ [][LoggedNext]_loggedVars

(* The fairness of SequentialLoop.                                         *)
LoggedFairSpec ==
  /\ LoggedSpec
  /\ WF_loggedVars(LoggedMain)
  /\ WF_loggedVars(HandlerLock /\ UNCHANGED stats)
-----------------------------------------------------------------------------
(* "Frames processed in window", "Total USB bytes sent": every frame is in *)
(* exactly one window, and the windows together say what is on the wire.   *)
StatsMatchWire ==
  LET all == Plus(printed, window)
  IN  all.frames = total /\ all.written = Len(wire) /\ total >= Len(wire)
=============================================================================
