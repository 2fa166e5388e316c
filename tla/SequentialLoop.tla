---------------------------- MODULE SequentialLoop ----------------------------
(***************************************************************************)
(* camera_app_main.c when the threads cannot be started: what main         *)
(* acquires and releases, and the sequential loop it falls back to.        *)
(* The threaded mode is in FramePipeline.                                  *)
(*                                                                         *)
(* The definitions no action refers to (UsbInitLeaks, ...) are faulty      *)
(* variants of the definition that follows them.                           *)
(***************************************************************************)
EXTENDS Integers, Sequences

CONSTANTS
  Frames,      \* frames captured before the loop ends (90)
  ErrorLimit,  \* errors in a row that end the loop (10)
  MaxEarly,    \* packets the camera thread may pack before the fallback:
               \* the buffers of the pool (3)
  MaxSignals   \* bound: signals that arrive

ASSUME LimitsAssumption ==
  /\ Frames \in Nat
  /\ ErrorLimit \in Nat \ {0}
  /\ MaxEarly \in Nat
  /\ MaxSignals \in Nat

VARIABLES
  pc,          \* where main is
  resources,   \* what main has acquired and not released
  running,     \* g_running
  handler,     \* where signal_handler is
  signals,     \* signals that have arrived
  frames,      \* frame_count
  errors,      \* error_count
  jpegErrors,  \* jpeg_validation_error_count
  sequence,    \* sequence, the number of the next packet
  wire,        \* the numbers of the packets sent whole
  early,       \* history: the value of sequence when the loop began
  streak       \* history: failures in a row of each device

loop == <<frames, errors, jpegErrors, sequence, wire, early, streak>>
sig  == <<running, handler, signals>>
vars == <<pc, resources, sig, loop>>

Resources == {"camera", "packet_buffer", "usb"}

(* main stands still while the handler runs on it.                         *)
At(p) == pc = p /\ handler = "idle"
-----------------------------------------------------------------------------
(* Start-up.  Each failure releases what was acquired before it.           *)

CameraInit ==
  /\ At("camera")
  /\ \/ resources' = resources \cup {"camera"} /\ pc' = "packet_buffer"
     \/ resources' = resources /\ pc' = "exit"
  /\ UNCHANGED <<sig, loop>>

AllocatePacketBuffer ==
  /\ At("packet_buffer")
  /\ \/ resources' = resources \cup {"packet_buffer"} /\ pc' = "usb"
     \/ resources' = resources \ {"camera"} /\ pc' = "exit"
  /\ UNCHANGED <<sig, loop>>

UsbInitLeaks ==
  /\ At("usb")
  /\ \/ resources' = resources \cup {"usb"} /\ pc' = "threads"
     \/ resources' = resources \ {"packet_buffer"} /\ pc' = "exit"
  /\ UNCHANGED <<sig, loop>>

UsbInit ==
  /\ At("usb")
  /\ \/ resources' = resources \cup {"usb"} /\ pc' = "threads"
     \/ resources' = resources \ {"packet_buffer", "camera"} /\ pc' = "exit"
  /\ UNCHANGED <<sig, loop>>

(* camera_threads_init failed.  A camera thread that was started before    *)
(* the USB thread failed to start may have packed a few frames.            *)
FallBack ==
  /\ At("threads")
  /\ early' \in 0 .. MaxEarly
  /\ sequence' = early'
  /\ pc' = "loop"
  /\ UNCHANGED <<resources, sig, frames, errors, jpegErrors, wire, streak>>
-----------------------------------------------------------------------------
(* while (g_running && frame_count < 90)                                   *)

TopIgnoresSignal ==
  /\ At("loop")
  /\ pc' = IF frames < Frames THEN "capture" ELSE "cleanup"
  /\ UNCHANGED <<resources, sig, loop>>

Top ==
  /\ At("loop")
  /\ pc' = IF running /\ frames < Frames THEN "capture" ELSE "cleanup"
  /\ UNCHANGED <<resources, sig, loop>>

TimeoutResets ==
  /\ At("capture")
  /\ pc' = "loop"
  /\ errors' = 0
  /\ UNCHANGED <<resources, sig, frames, jpegErrors, sequence, wire, early,
                 streak>>

CameraTimeout ==
  /\ At("capture")
  /\ pc' = "loop"
  /\ UNCHANGED <<resources, sig, loop>>

CameraError ==
  /\ At("capture")
  /\ errors' = errors + 1
  /\ pc' = IF errors' >= ErrorLimit THEN "cleanup" ELSE "loop"
  /\ streak' = [streak EXCEPT !.camera = @ + 1]
  /\ UNCHANGED <<resources, sig, frames, jpegErrors, sequence, wire, early>>

CameraFrame ==
  /\ At("capture")
  /\ errors' = 0
  /\ frames' = frames + 1
  /\ pc' = "pack"
  /\ streak' = [streak EXCEPT !.camera = 0]
  /\ UNCHANGED <<resources, sig, jpegErrors, sequence, wire, early>>

PackReusesNumber ==
  /\ At("pack")
  /\ sequence' \in {sequence, sequence + 1}
  /\ pc' = "send"
  /\ UNCHANGED <<resources, sig, frames, errors, jpegErrors, wire, early,
                 streak>>

(* mjpeg_pack_frame takes the number of the packet.                        *)
PackFrame ==
  /\ At("pack")
  /\ sequence' = sequence + 1
  /\ pc' = "send"
  /\ UNCHANGED <<resources, sig, frames, errors, jpegErrors, wire, early,
                 streak>>

PackErrorTakesNumber ==
  /\ At("pack")
  /\ jpegErrors' = jpegErrors + 1
  /\ sequence' = sequence + 1
  /\ pc' = "loop"
  /\ UNCHANGED <<resources, sig, frames, errors, wire, early, streak>>

PackErrorUncounted ==
  /\ At("pack")
  /\ frames' = frames - 1
  /\ pc' = "loop"
  /\ UNCHANGED <<resources, sig, jpegErrors, errors, sequence, wire, early,
                 streak>>

PackError ==
  /\ At("pack")
  /\ jpegErrors' = jpegErrors + 1
  /\ pc' = "loop"
  /\ UNCHANGED <<resources, sig, frames, errors, sequence, wire, early,
                 streak>>

Send ==
  /\ At("send")
  /\ wire' = Append(wire, sequence - 1)
  /\ errors' = 0
  /\ pc' = "loop"
  /\ streak' = [streak EXCEPT !.usb = 0]
  /\ UNCHANGED <<resources, sig, frames, jpegErrors, sequence, early>>

SendFails ==
  /\ At("send")
  /\ errors' = errors + 1
  /\ pc' = IF errors' >= ErrorLimit THEN "cleanup" ELSE "loop"
  /\ streak' = [streak EXCEPT !.usb = @ + 1]
  /\ UNCHANGED <<resources, sig, frames, jpegErrors, sequence, wire, early>>
-----------------------------------------------------------------------------
(* packet_buffer, usb_transport_cleanup, camera_manager_cleanup.           *)
Cleanup ==
  /\ At("cleanup")
  /\ resources' = {}
  /\ pc' = "exit"
  /\ UNCHANGED <<sig, loop>>

(* signal_handler interrupts main, and locks g_queue_mutex whether or not  *)
(* there are threads.  Here there is no such mutex: it does not exist      *)
(* before camera_threads_init, and does not any more when that has failed. *)
Signal ==
  /\ handler = "idle" /\ pc # "exit"
  /\ signals < MaxSignals
  /\ signals' = signals + 1
  /\ running' = FALSE
  /\ handler' = "lock"
  /\ UNCHANGED <<pc, resources, loop>>

(* The lock of a mutex that does not exist returns or blocks for ever; so  *)
(* it does at pc = "threads", where main itself may own the mutex.  Nobody *)
(* here reads g_shutdown_requested, or waits for the broadcast.            *)
HandlerLock ==
  /\ handler = "lock"
  /\ handler' \in {"idle", "stuck"}
  /\ UNCHANGED <<pc, resources, running, signals, loop>>

Init ==
  /\ pc = "camera"
  /\ resources = {}
  /\ running = TRUE /\ handler = "idle" /\ signals = 0
  /\ frames = 0 /\ errors = 0 /\ jpegErrors = 0
  /\ sequence = 0 /\ wire = <<>> /\ early = 0
  /\ streak = [camera |-> 0, usb |-> 0]

Main ==
  \/ CameraInit \/ AllocatePacketBuffer \/ UsbInit \/ FallBack
  \/ Top \/ CameraTimeout \/ CameraError \/ CameraFrame
  \/ PackFrame \/ PackError \/ Send \/ SendFails
  \/ Cleanup

Ended == (pc = "exit" \/ handler = "stuck") /\ UNCHANGED vars

Next == Main \/ Signal \/ HandlerLock \/ Ended

Spec == Init /\ [][Next]_vars

(* main and the handler run: poll gives up after one second, writes return;*)
(* the lock of the handler need not.                                       *)
FairSpec == Spec /\ WF_vars(Main) /\ WF_vars(HandlerLock)
-----------------------------------------------------------------------------
(* Every variable has its type.                                            *)
TypeOK ==
  /\ pc \in {"camera", "packet_buffer", "usb", "threads", "loop", "capture",
             "pack", "send", "cleanup", "exit"}
  /\ resources \subseteq Resources
  /\ running \in BOOLEAN
  /\ handler \in {"idle", "lock", "stuck"} /\ signals \in 0 .. MaxSignals
  /\ frames \in 0 .. Frames
  /\ errors \in 0 .. ErrorLimit
  /\ jpegErrors \in 0 .. frames
  /\ sequence \in Nat
  /\ wire \in Seq(Nat)
  /\ early \in 0 .. MaxEarly
  /\ streak \in [camera : Nat, usb : Nat]

(* Whichever step of the start-up fails, and however the loop ends, main   *)
(* returns with nothing left acquired; and it uses what it has acquired.   *)
ReleasedAtExit ==
  /\ pc = "exit" => resources = {}
  /\ pc \in {"loop", "capture", "pack", "send"} => resources = Resources

(* Sequence numbers count packets: a frame that is not a valid JPEG takes  *)
(* no number.                                                              *)
SequenceCountsPackets ==
  sequence + jpegErrors + (IF pc = "pack" THEN 1 ELSE 0) = early + frames

(* No sequence number appears twice on the wire, and the numbers grow.     *)
WireInOrder ==
  /\ \A i, j \in DOMAIN wire : i < j => wire[i] < wire[j]
  /\ \A i \in DOMAIN wire :
       wire[i] < sequence - (IF pc = "send" THEN 1 ELSE 0)

(* "Too many camera errors, exiting": the camera never fails more than ten *)
(* times in a row, whatever timeouts come in between.                      *)
CameraErrorsStop ==
  /\ streak.camera <= ErrorLimit
  /\ streak.camera = ErrorLimit => pc \in {"cleanup", "exit"}

(* "Too many USB errors, exiting": the same for the USB device.            *)
UsbErrorsStop ==
  /\ streak.usb <= ErrorLimit
  /\ streak.usb = ErrorLimit => pc \in {"cleanup", "exit"}

(* A signal ends the program, or its handler blocks for ever in the lock   *)
(* of the mutex.                                                           *)
SignalStops == ~running ~> pc = "exit" \/ handler = "stuck"

(* The program ends, unless the camera does nothing but time out forever   *)
(* or a signal handler blocks for ever.                                    *)
LoopEnds ==
  \/ <>(pc = "exit" \/ handler = "stuck")
  \/ <>[][CameraTimeout \/ Top]_vars

(* "Handle signals for graceful shutdown": a signal ends the program.  The *)
(* code does not have this property.                                       *)
GracefulShutdown == ~running ~> pc = "exit"
=============================================================================
