----------------------------- MODULE CameraManager -----------------------------
(***************************************************************************)
(* camera_manager.c: the V4L2 device and its ring of user buffers, from    *)
(* camera_manager_init to camera_manager_cleanup, with the driver that     *)
(* fills the buffers meanwhile and the camera thread, which reads the      *)
(* frame it got, counts errors in a row and stops after some of them.      *)
(*                                                                         *)
(* The driver is external.  In RING mode it fills the buffers queued to    *)
(* it, oldest first; when there is none it overwrites the oldest frame     *)
(* nobody has taken.  Closing the device makes it drop its buffers.        *)
(*                                                                         *)
(* The definitions no action refers to (FreeFirst, ...) are faulty         *)
(* variants of the definition that follows them.                           *)
(***************************************************************************)
EXTENDS Integers, Sequences, FiniteSets

CONSTANTS
  NumBuffers,  \* CAMERA_BUFFER_NUM (3)
  MinGranted,  \* the fewest buffers the driver grants
  ErrorLimit,  \* errors in a row that stop the camera thread (3)
  Shots        \* bound: captures are numbered modulo this

ASSUME RingAssumption ==
  /\ NumBuffers \in Nat \ {0}
  /\ MinGranted \in 1 .. NumBuffers
  /\ {ErrorLimit, Shots} \subseteq Nat \ {0}

VARIABLES
  pc,           \* where the camera manager or its caller is
  open,         \* g_camera_mgr.fd is an open device
  initialized,  \* g_camera_mgr.initialized
  count,        \* actual_buffer_count
  index,        \* i, the buffer being set up
  allocated,    \* the buffers whose memory is allocated
  streaming,    \* the driver captures
  ring,         \* the buffers queued to the driver
  done,         \* the buffers the driver has filled, oldest first
  content,      \* the capture each buffer holds
  captured,     \* the number of the last capture
  errors,       \* error_count of camera_thread_func
  frame,        \* the buffer last dequeued, frame->buf
  shot,         \* history: the capture it held when it was dequeued
  lost,         \* history: buffers the driver refused to take back
  refused       \* history: the driver refused VIDIOC_STREAMOFF

memory == <<count, index, allocated>>
driver == <<open, streaming, ring, done>>
taken  == <<frame, shot, lost>>
thread == <<pc, errors>>
past   == <<captured, taken, refused>>
vars   == <<thread, initialized, memory, driver, content, past>>

Buffers == 1 .. NumBuffers
NoFrame == 0
-----------------------------------------------------------------------------
(* camera_manager_init                                                     *)

Close ==
  /\ open' = FALSE
  /\ streaming' = FALSE
  /\ ring' = <<>>
  /\ done' = <<>>

GiveUp(kept) ==
  /\ Close
  /\ allocated' = kept
  /\ pc' = "failed"
  /\ UNCHANGED <<errors, initialized, count, index, content, past>>

Open ==
  /\ pc = "start"
  /\ \/ open' = TRUE /\ pc' = "request"
     \/ open' = FALSE /\ pc' = "failed"
  /\ UNCHANGED <<errors, initialized, memory, streaming, ring, done, content, past>>

(* VIDIOC_S_FMT, VIDIOC_S_PARM and VIDIOC_REQBUFS: the driver may grant    *)
(* fewer buffers.                                                          *)
RequestBuffers ==
  /\ pc = "request"
  /\ count' \in MinGranted .. NumBuffers
  /\ index' = 1
  /\ pc' = "allocate"
  /\ UNCHANGED <<errors, initialized, allocated, driver, content, past>>

RequestFails == pc = "request" /\ GiveUp({})

Allocate ==
  /\ pc = "allocate"
  /\ allocated' = allocated \cup {index}
  /\ pc' = "queue"
  /\ UNCHANGED <<errors, initialized, count, index, driver, content, past>>

AllocateFails == pc = "allocate" /\ GiveUp({})

QueueBuffer ==
  /\ pc = "queue"
  /\ ring' = Append(ring, index)
  /\ index' = index + 1
  /\ pc' = IF index' <= count THEN "allocate" ELSE "stream"
  /\ UNCHANGED <<errors, initialized, count, allocated, open, streaming, done,
                 content, past>>

QueueFailsKeepsLast == pc = "queue" /\ GiveUp({index})

QueueFails == pc = "queue" /\ GiveUp({})

StreamOn ==
  /\ pc = "stream"
  /\ streaming' = TRUE
  /\ initialized' = TRUE
  /\ pc' = "ready"
  /\ UNCHANGED <<errors, memory, open, ring, done, content, past>>

(* The device is closed, and the buffers stay allocated.                   *)
StreamOnFails == pc = "stream" /\ GiveUp(allocated)
-----------------------------------------------------------------------------
(* camera_get_frame, and what the camera thread makes of its result        *)

CaptureError ==
  /\ errors' = errors + 1
  /\ pc' = IF errors' = ErrorLimit THEN "stop" ELSE "ready"

Poll ==
  /\ pc = "ready"
  /\ done # <<>>
  /\ pc' = "dequeue"
  /\ UNCHANGED <<errors, initialized, memory, driver, content, past>>

(* A second without a frame: the thread comes back, and counts nothing.    *)
PollTimeout ==
  /\ pc = "ready"
  /\ done = <<>>
  /\ UNCHANGED vars

PollFails ==
  /\ pc = "ready"
  /\ CaptureError
  /\ UNCHANGED <<initialized, memory, driver, content, past>>

Dequeue ==
  /\ pc = "dequeue"
  /\ frame' = Head(done)
  /\ done' = Tail(done)
  /\ shot' = content[frame']
  /\ pc' = "requeue"
  /\ UNCHANGED <<errors, initialized, memory, open, streaming, ring, content,
                 captured, lost, refused>>

DequeueUncounted ==
  /\ pc = "dequeue"
  /\ pc' = "ready"
  /\ UNCHANGED <<errors, initialized, memory, driver, content, past>>

DequeueFails ==
  /\ pc = "dequeue"
  /\ CaptureError
  /\ UNCHANGED <<initialized, memory, driver, content, past>>

Requeue ==
  /\ pc = "requeue"
  /\ ring' = Append(ring, frame)
  /\ pc' = "use"
  /\ UNCHANGED <<errors, initialized, memory, open, streaming, done, content, past>>

(* The buffer has left the ring for good.                                  *)
RequeueFails ==
  /\ pc = "requeue"
  /\ lost' = lost \cup {frame}
  /\ CaptureError
  /\ UNCHANGED <<initialized, memory, driver, content, captured, frame, shot,
                 refused>>

UseAndRequeue ==
  /\ pc = "use"
  /\ ring' = Append(ring, frame)
  /\ errors' = 0
  /\ pc' = "ready"
  /\ UNCHANGED <<initialized, memory, open, streaming, done, content, past>>

(* The frame ends a row of errors, and mjpeg_pack_frame reads it at some   *)
(* moment of pc = "use".                                                   *)
Use ==
  /\ pc = "use"
  /\ errors' = 0
  /\ pc' = "ready"
  /\ UNCHANGED <<initialized, memory, driver, content, past>>
-----------------------------------------------------------------------------
(* camera_manager_cleanup                                                  *)

FreeFirst ==
  /\ pc \in {"ready", "stop"}
  /\ allocated' = {}
  /\ pc' = "free"
  /\ UNCHANGED <<errors, initialized, count, index, driver, content, past>>

(* Main stops the threads between two frames, or they have stopped.        *)
StreamOff ==
  /\ pc \in {"ready", "stop"}
  /\ streaming' = FALSE
  /\ pc' = "free"
  /\ UNCHANGED <<errors, initialized, memory, open, ring, done, content, past>>

(* The result of VIDIOC_STREAMOFF is not looked at: the clean-up goes on.  *)
StreamOffFails ==
  /\ pc \in {"ready", "stop"}
  /\ refused' = TRUE
  /\ pc' = "free"
  /\ UNCHANGED <<errors, initialized, memory, driver, content, captured, taken>>

Free ==
  /\ pc = "free"
  /\ allocated' = {}
  /\ pc' = "close"
  /\ UNCHANGED <<errors, initialized, count, index, driver, content, past>>

CloseDevice ==
  /\ pc = "close"
  /\ Close
  /\ initialized' = FALSE
  /\ pc' = "closed"
  /\ UNCHANGED <<errors, memory, content, past>>
-----------------------------------------------------------------------------
(* The driver captures a frame.                                            *)
Capture ==
  /\ streaming
  /\ captured' = (captured + 1) % Shots
  /\ \/ /\ ring # <<>>
        /\ content' = [content EXCEPT ![Head(ring)] = captured']
        /\ ring' = Tail(ring)
        /\ done' = Append(done, Head(ring))
     \/ /\ ring = <<>> /\ done # <<>>
        /\ content' = [content EXCEPT ![Head(done)] = captured']
        /\ done' = Append(Tail(done), Head(done))
        /\ UNCHANGED ring
  /\ UNCHANGED <<thread, initialized, memory, open, streaming, taken, refused>>

Init ==
  /\ pc = "start" /\ open = FALSE /\ initialized = FALSE
  /\ count = 0 /\ index = 1 /\ allocated = {}
  /\ streaming = FALSE /\ ring = <<>> /\ done = <<>>
  /\ content = [b \in Buffers |-> 0] /\ captured = 0
  /\ frame = NoFrame /\ shot = 0 /\ lost = {} /\ refused = FALSE
  /\ errors = 0

CameraInit ==
  \/ Open \/ RequestBuffers \/ RequestFails \/ Allocate \/ AllocateFails
  \/ QueueBuffer \/ QueueFails \/ StreamOn \/ StreamOnFails

GetFrame ==
  \/ Poll \/ PollTimeout \/ PollFails
  \/ Dequeue \/ DequeueFails \/ Requeue \/ RequeueFails

CameraCleanup == StreamOff \/ StreamOffFails \/ Free \/ CloseDevice

Ended == pc \in {"failed", "closed"} /\ UNCHANGED vars

Next == CameraInit \/ GetFrame \/ Use \/ CameraCleanup \/ Capture \/ Ended

Spec == Init /\ [][Next]_vars

(* The camera thread goes on (without a frame it may go on timing out), and*)
(* the camera goes on capturing as long as it has a buffer.                *)
FairSpec ==
  /\ Spec
  /\ WF_vars((pc # "ready" \/ done # <<>>) /\ (GetFrame \/ Use))
  /\ WF_vars(Capture)
-----------------------------------------------------------------------------
Elements(s) == {s[i] : i \in DOMAIN s}

(* Every variable has its type.                                            *)
TypeOK ==
  /\ pc \in {"start", "request", "allocate", "queue", "stream", "ready",
             "dequeue", "requeue", "use", "stop", "free", "close", "failed", "closed"}
  /\ open \in BOOLEAN /\ initialized \in BOOLEAN /\ streaming \in BOOLEAN
  /\ count \in 0 .. NumBuffers /\ index \in 1 .. NumBuffers + 1
  /\ allocated \subseteq Buffers
  /\ ring \in Seq(Buffers) /\ done \in Seq(Buffers)
  /\ content \in [Buffers -> 0 .. Shots - 1] /\ captured \in 0 .. Shots - 1
  /\ errors \in 0 .. ErrorLimit
  /\ frame \in Buffers \cup {NoFrame} /\ shot \in 0 .. Shots - 1
  /\ lost \subseteq Buffers /\ refused \in BOOLEAN

(* While the driver captures, it owns only memory that is allocated, up to *)
(* one gap: between the free and the close when it has refused to stop.    *)
DriverWritesLiveMemory ==
  streaming => \/ Elements(ring) \cup Elements(done) \subseteq allocated
               \/ refused /\ pc = "close"

(* While the camera runs, each buffer is in one place: queued, filled, out *)
(* of the driver, or refused by it.  No buffer leaves the ring otherwise.  *)
OneOwner ==
  pc \in {"ready", "dequeue", "requeue", "use", "stop"} =>
    LET out == IF pc = "requeue" THEN {frame} ELSE {}
    IN  /\ Elements(ring) \cup Elements(done) \cup out \cup lost = 1 .. count
        /\ Len(ring) + Len(done) + Cardinality(out) + Cardinality(lost) = count

(* Whatever fails, the device is closed and the memory is freed, except    *)
(* that a failure to start the stream keeps the memory.                    *)
ReleasedAtEnd ==
  /\ pc = "closed" => ~open /\ ~initialized /\ allocated = {}
  /\ pc = "failed" => ~open /\ ~initialized
  /\ pc = "failed" /\ allocated # {} => index > count /\ allocated = 1 .. count

(* While a buffer is left to the camera, the thread gets a frame or stops, *)
(* however the device fails.                                               *)
FramesOrStop ==
  pc = "ready" ~> (pc \in {"use", "stop", "free"} \/ lost = 1 .. count)

(* A thread whose camera has lost all its buffers comes to a stop.  The    *)
(* code does not have this property.                                       *)
DeadCameraStops == lost = 1 .. count /\ pc = "ready" ~> pc \in {"stop", "free"}

(* The driver never captures into freed memory, not even when it refuses to*)
(* stop.  The code does not have this property.                            *)
NeverWritesFreed ==
  streaming => Elements(ring) \cup Elements(done) \subseteq allocated

(* No memory is leaked when the initialisation fails.                      *)
NoLeak == pc = "failed" => allocated = {}

(* The frame that camera_get_frame returned does not change while its      *)
(* caller reads it.                                                        *)
FrameStable == pc = "use" => content[frame] = shot
=============================================================================
