-------------------------------- MODULE Metrics --------------------------------
(***************************************************************************)
(* The metrics of camera_threads.c: the counters that the camera thread    *)
(* and the USB thread keep without a mutex, the timer that the camera      *)
(* thread looks at after each frame, and the packet it then makes of them  *)
(* (send_metrics_packet, mjpeg_pack_metrics).                              *)
(*                                                                         *)
(* Each access to a counter of the other thread is one step; the 64-bit    *)
(* byte count is two words.  The queue is the number of frames in it (the  *)
(* depth that the packet reports is in FrameQueueList).  CLOCK_MONOTONIC   *)
(* counts ticks.  A second launch of the program finds the counters as the *)
(* first one left them.                                                    *)
(*                                                                         *)
(* The definitions no action refers to (TooSoonOffByOne, ...) are faulty    *)
(* variants of the definition that follows them.                           *)
(***************************************************************************)
EXTENDS Integers

CONSTANTS
  Second,      \* ticks of the clock in a second; METRICS_INTERVAL_MS
  Wrap,        \* 2^64 nanoseconds in ticks: what the unsigned type adds to a
               \* negative difference of tv_nsec
  Modulus,     \* the width of timestamp_ms, in ticks
  PacketSize,  \* bytes in a packet
  Word,        \* what one word of the byte count holds (2^32)
  MaxTime,     \* bound: ticks that pass
  MaxFrames,   \* bound: frames captured or failed
  MaxLaunches  \* bound: launches of the program

ASSUME MetricsAssumption ==
  /\ Second \in Nat \ {0} /\ MaxTime \in Nat
  /\ Wrap \in Nat /\ Wrap > MaxTime + Second
  /\ Modulus \in Nat \ {0} /\ Word \in Nat \ {0} /\ PacketSize \in Nat \ {0}
  /\ MaxFrames \in Nat /\ MaxLaunches \in Nat \ {0}

VARIABLES
  pc,       \* where the camera thread and the USB thread are
  clock,    \* CLOCK_MONOTONIC
  start,    \* g_start_time
  last,     \* g_last_metrics_time
  frames,   \* g_total_camera_frames
  errors,   \* g_total_errors
  packets,  \* g_total_usb_packets
  low,      \* g_total_packet_bytes, its lower word
  high,     \* and its upper word
  number,   \* g_metrics_sequence
  queued,   \* frames in the action queue
  now,      \* the local variable now of camera_thread_func
  uptime,   \* the local variable uptime_ms of send_metrics_packet
  average,  \* its local variable avg_packet_size
  seen,     \* g_total_usb_packets as it was read for the average
  seenLow,  \* the lower word as it was read for the average
  report,   \* the last packet sent
  sentAt,   \* history: when it was sent, or the launch if none was sent since
  failed,   \* history: packets that could not be sent over USB
  launches  \* history: launches of the program

timer    == <<start, last, now>>
camera   == <<frames, errors, number>>
usb      == <<packets, low, high>>
local    == <<uptime, average, seen, seenLow>>
history  == <<report, sentAt, failed, launches>>
vars     == <<pc, clock, timer, camera, usb, queued, local, history>>

Threads == {"camera", "usb"}
At(thread, point) == pc[thread] = point
Goto(thread, point) == pc' = [pc EXCEPT ![thread] = point]

(* The difference of two times as the code computes it: seconds and        *)
(* nanoseconds apart, and the latter in an unsigned type.                  *)
Elapsed(from, to) ==
  LET nanoseconds == (to % Second) - (from % Second)
  IN  (to \div Second - from \div Second) * Second
      + (IF nanoseconds < 0 THEN Wrap + nanoseconds ELSE nanoseconds)

-----------------------------------------------------------------------------
(* The camera thread.                                                      *)

(* An error of the camera or of the JPEG: back to the top of the loop, past*)
(* the timer.                                                              *)
CaptureFails ==
  /\ At("camera", "capture")
  /\ frames + errors < MaxFrames
  /\ errors' = errors + 1
  /\ UNCHANGED <<pc, clock, timer, frames, number, usb, queued, local, history>>

CountFrame ==
  /\ At("camera", "capture")
  /\ frames + errors < MaxFrames
  /\ frames' = frames + 1
  /\ Goto("camera", "publish")
  /\ UNCHANGED <<clock, timer, errors, number, usb, queued, local, history>>

Publish ==
  /\ At("camera", "publish")
  /\ queued' = queued + 1
  /\ Goto("camera", "check")
  /\ UNCHANGED <<clock, timer, camera, usb, local, history>>

TooSoonOffByOne ==
  /\ At("camera", "check")
  /\ Elapsed(last, clock) <= Second
  /\ now' = clock
  /\ Goto("camera", "capture")
  /\ UNCHANGED <<clock, start, last, camera, usb, queued, local, history>>

TooSoon ==
  /\ At("camera", "check")
  /\ Elapsed(last, clock) < Second
  /\ now' = clock
  /\ Goto("camera", "capture")
  /\ UNCHANGED <<clock, start, last, camera, usb, queued, local, history>>

ItIsTime ==
  /\ At("camera", "check")
  /\ Elapsed(last, clock) >= Second
  /\ now' = clock
  /\ Goto("camera", "uptime")
  /\ UNCHANGED <<clock, start, last, camera, usb, queued, local, history>>

get_uptime_ms ==
  /\ At("camera", "uptime")
  /\ uptime' = Elapsed(start, clock) % Modulus
  /\ Goto("camera", "average")
  /\ UNCHANGED <<clock, timer, camera, usb, queued, average, seen, seenLow, history>>

ReadPackets ==
  /\ At("camera", "average")
  /\ seen' = packets
  /\ IF packets = 0
     THEN average' = 0 /\ Goto("camera", "send")
     ELSE Goto("camera", "low") /\ UNCHANGED average
  /\ UNCHANGED <<clock, timer, camera, usb, queued, uptime, seenLow, history>>

ReadLow ==
  /\ At("camera", "low")
  /\ seenLow' = low
  /\ Goto("camera", "high")
  /\ UNCHANGED <<clock, timer, camera, usb, queued, uptime, average, seen, history>>

ReadHigh ==
  /\ At("camera", "high")
  /\ average' = (high * Word + seenLow) \div seen
  /\ Goto("camera", "send")
  /\ UNCHANGED <<clock, timer, camera, usb, queued, uptime, seen, seenLow, history>>

SendWithoutStamp ==
  /\ At("camera", "send")
  /\ report' = [number  |-> number,  uptime  |-> uptime, frames |-> frames,
                packets |-> packets, average |-> average, errors |-> errors]
  /\ number' = number + 1
  /\ sentAt' = now
  /\ Goto("camera", "capture")
  /\ UNCHANGED <<clock, timer, frames, errors, usb, queued, local, failed, launches>>

(* The counters are read again, the number advances whether the packet is  *)
(* written or not, and the result is ignored.                              *)
SendMetrics ==
  /\ At("camera", "send")
  /\ report' = [number  |-> number,  uptime  |-> uptime, frames |-> frames,
                packets |-> packets, average |-> average, errors |-> errors]
  /\ number' = number + 1
  /\ last' = now
  /\ sentAt' = now
  /\ Goto("camera", "capture")
  /\ UNCHANGED <<clock, start, now, frames, errors, usb, queued, local, failed,
                 launches>>
-----------------------------------------------------------------------------
(* The USB thread.                                                         *)

Take ==
  /\ At("usb", "take")
  /\ queued > 0
  /\ queued' = queued - 1
  /\ Goto("usb", "transmit")
  /\ UNCHANGED <<clock, timer, camera, usb, local, history>>

TransmitFails ==
  /\ At("usb", "transmit")
  /\ failed' = failed + 1
  /\ Goto("usb", "take")
  /\ UNCHANGED <<clock, timer, camera, usb, queued, local, report, sentAt, launches>>

CountPacket ==
  /\ At("usb", "transmit")
  /\ packets' = packets + 1
  /\ Goto("usb", "low")
  /\ UNCHANGED <<clock, timer, camera, low, high, queued, local, history>>

(* The sum is stored one word after the other.                             *)
StoreLow ==
  /\ At("usb", "low")
  /\ low' = (low + PacketSize) % Word
  /\ Goto("usb", "high")
  /\ UNCHANGED <<clock, timer, camera, packets, high, queued, local, history>>

StoreHigh ==
  /\ At("usb", "high")
  /\ high' = high + (IF low < PacketSize % Word THEN 1 ELSE 0) + PacketSize \div Word
  /\ Goto("usb", "take")
  /\ UNCHANGED <<clock, timer, camera, packets, low, queued, local, history>>
-----------------------------------------------------------------------------
RelaunchHalfReset ==
  /\ At("camera", "capture") /\ At("usb", "take")
  /\ launches < MaxLaunches
  /\ start' = clock /\ last' = clock
  /\ frames' = 0 /\ errors' = 0
  /\ queued' = 0
  /\ sentAt' = clock
  /\ launches' = launches + 1
  /\ UNCHANGED <<pc, clock, now, number, usb, local, report, failed>>

(* Both threads have left their loops, and the program is started again.   *)
Relaunch ==
  /\ At("camera", "capture") /\ At("usb", "take")
  /\ launches < MaxLaunches
  /\ start' = clock /\ last' = clock
  /\ queued' = 0
  /\ sentAt' = clock
  /\ launches' = launches + 1
  /\ UNCHANGED <<pc, clock, now, camera, usb, local, report, failed>>

Tick ==
  /\ clock < MaxTime
  /\ clock' = clock + 1
  /\ UNCHANGED <<pc, timer, camera, usb, queued, local, history>>

(* The first launch, at any fraction of a second.                          *)
Init ==
  /\ pc = [camera |-> "capture", usb |-> "take"]
  /\ clock \in 0 .. Second - 1
  /\ start = clock /\ last = clock /\ now = clock /\ sentAt = clock
  /\ frames = 0 /\ errors = 0 /\ packets = 0 /\ low = 0 /\ high = 0
  /\ number = 0 /\ queued = 0
  /\ uptime = 0 /\ average = 0 /\ seen = 0 /\ seenLow = 0
  /\ report = [number |-> 0, uptime |-> 0, frames |-> 0, packets |-> 0,
               average |-> 0, errors |-> 0]
  /\ failed = 0 /\ launches = 1

CameraThread ==
  \/ CaptureFails \/ CountFrame \/ Publish \/ TooSoon \/ ItIsTime
  \/ get_uptime_ms \/ ReadPackets \/ ReadLow \/ ReadHigh \/ SendMetrics

UsbThread == Take \/ TransmitFails \/ CountPacket \/ StoreLow \/ StoreHigh

Next == CameraThread \/ UsbThread \/ Relaunch \/ Tick

Spec == Init /\ [][Next]_vars
-----------------------------------------------------------------------------
(* Every variable has its type.                                            *)
TypeOK ==
  /\ pc \in [Threads -> {"capture", "publish", "check", "uptime", "average", "low",
                         "high", "send", "take", "transmit"}]
  /\ {clock, start, last, now, sentAt} \subseteq Nat
  /\ frames + errors <= MaxFrames /\ {frames, errors, packets, failed} \subseteq Nat
  /\ low \in 0 .. Word - 1 /\ {high, seen, seenLow, average} \subseteq Nat
  /\ queued \in 0 .. MaxFrames
  /\ uptime \in 0 .. Modulus - 1
  /\ number \in Nat /\ launches \in 1 .. MaxLaunches

(* "Send metrics every 1 second": the unsigned difference may only bring a *)
(* packet forward.  When the camera thread has looked at the timer, less   *)
(* than a second has passed since the last packet or the launch.           *)
NeverLate == At("camera", "capture") => now - sentAt < Second

(* And it does not bring it forward by much: no two packets are sent in    *)
(* the same second of the clock, at whatever rate the frames come.         *)
OncePerClockSecond ==
  [][number' # number => sentAt' \div Second > sentAt \div Second]_vars

(* The counters are read without a mutex while the USB thread goes on, but *)
(* no report claims more packets sent than frames captured.                *)
PacketsWereCaptured == report.packets <= report.frames

(* "Get elapsed time since start in milliseconds".  The code does not have *)
(* this property.                                                          *)
UptimeIsElapsed ==
  [][uptime' # uptime => uptime' = (clock - start) % Modulus]_vars

(* "Average MJPEG packet size (bytes)", where all packets have one size.   *)
(* The code does not have this property.                                   *)
AverageIsASize == report.packets > 0 => report.average \in {0, PacketSize}

(* "Total error count".  The code does not have this property.             *)
FailuresAreErrors == At("usb", "take") => failed <= errors

(* The totals reported are those of the launch that reports them.  The     *)
(* code does not have this property.                                       *)
TotalsSinceLaunch == [][launches' # launches => frames = 0]_vars
=============================================================================
