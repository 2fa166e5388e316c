---------------------------- MODULE FramePipeline ----------------------------
(***************************************************************************)
(* The threaded mode of security_camera: the camera thread, the USB thread *)
(* and the main thread of camera_threads.c, frame_queue.c and              *)
(* camera_app_main.c, with the SIGINT/SIGTERM handler that runs on top of  *)
(* the main thread.                                                        *)
(*                                                                         *)
(* Buffers circulate between two queues: the camera thread takes one from  *)
(* "empty", fills it with a packet and puts it on "action"; the USB thread *)
(* takes it from there, sends it and puts it back on "empty".  One mutex   *)
(* protects both queues and one condition variable serves both threads.    *)
(*                                                                         *)
(* A thread whose pc is a lock point is about to call pthread_mutex_lock;  *)
(* once it owns the mutex (mutex = t) the action of that point runs the    *)
(* critical section, up to and including the unlock.                       *)
(*                                                                         *)
(* The definitions no action refers to (PushAtHead, PublishSilently, ...)  *)
(* are faulty variants of the definition that follows them, used to see    *)
(* that the properties notice such a fault.                                *)
(***************************************************************************)
EXTENDS Integers, Sequences, FiniteSets

CONSTANTS
  NumBuffers,        \* buffers in the pool (MAX_QUEUE_DEPTH, 3 in the code)
  CameraErrorLimit,  \* consecutive capture errors that stop the system (3)
  UsbErrorLimit,     \* consecutive send errors that stop the system (10)
  MaxFrames,         \* bound: frames packed in a behaviour
  MaxSignals,        \* bound: signals delivered to one run of the command
  MaxLaunches,       \* bound: runs of the command in a behaviour
  SignalInCritical,  \* a signal may arrive while the main thread owns the mutex
  SignalNoMutex      \* a signal may arrive while the mutex does not exist

ASSUME NumBuffersAssumption == NumBuffers \in Nat \ {0}
ASSUME LimitsAssumption ==
  /\ CameraErrorLimit \in Nat \ {0}
  /\ UsbErrorLimit \in Nat \ {0}
ASSUME BoundsAssumption ==
  MaxFrames \in Nat /\ MaxSignals \in Nat /\ MaxLaunches \in Nat
ASSUME SignalAssumption ==
  SignalInCritical \in BOOLEAN /\ SignalNoMutex \in BOOLEAN

VARIABLES
  pc,        \* where each thread is
  mutex,     \* the owner of g_queue_mutex, or "free"
  live,      \* g_queue_mutex and g_queue_cond are initialised
  waiters,   \* the threads blocked in pthread_cond_wait on g_queue_cond
  shutdown,  \* g_shutdown_requested
  running,   \* g_running
  queue,     \* g_empty_queue and g_action_queue
  pool,      \* the buffer pool is allocated
  held,      \* the local variable buffer of each worker
  data,      \* the sequence number of the packet in each buffer
  errors,    \* the local variable error_count of each worker
  sequence,  \* *ctx->sequence: the number of the next packet
  sent,      \* the packets written to the USB device, oldest first
  threaded,  \* camera_threads_init has returned 0
  handler,   \* where signal_handler is
  signals,   \* signals delivered to this run of the command
  launches   \* runs of the command so far, this one included

sync  == <<mutex, live, waiters, shutdown>>
store == <<queue, pool, held, data>>
io    == <<errors, sequence, sent>>
app   == <<running, threaded, launches>>
sig   == <<handler, signals>>
vars  == <<pc, sync, store, io, app, sig>>

Workers == {"camera", "usb"}
Threads == Workers \cup {"main"}
Queues == {"empty", "action"}
Buffers == 1 .. NumBuffers
NoBuffer == 0

(* The queue each worker takes its buffers from.                           *)
Input == [w \in Workers |-> IF w = "camera" THEN "empty" ELSE "action"]

Limit == [w \in Workers |-> IF w = "camera" THEN CameraErrorLimit
                                            ELSE UsbErrorLimit]

EmptyQueues == [q \in Queues |-> <<>>]

LockPoints == {"lock", "publish", "giveback", "stop", "surrender",
               "fill", "abort", "cleanup", "drain"}
-----------------------------------------------------------------------------
(* frame_queue.c                                                           *)

PushAtHead(q, b) == queue' = [queue EXCEPT ![q] = <<b>> \o @]

frame_queue_push(q, b) == queue' = [queue EXCEPT ![q] = Append(@, b)]

frame_queue_pull(q) == queue' = [queue EXCEPT ![q] = Tail(@)]

(* pthread_mutex_lock: a normal mutex, so the owner that locks again waits *)
(* for itself.                                                             *)
Acquire(t) ==
  /\ pc[t] \in LockPoints
  /\ t = "main" => handler = "idle"
  /\ mutex = "free"
  /\ mutex' = t
  /\ UNCHANGED <<pc, live, waiters, shutdown, store, io, app, sig>>

(* t runs the critical section of lock point p.                            *)
Locked(t, p) == /\ pc[t] = p
                /\ mutex = t
                /\ t = "main" => handler = "idle"

(* pthread_cond_signal and pthread_cond_broadcast: the woken threads must  *)
(* take the mutex again before pthread_cond_wait returns.                  *)
Wake(woken, pcs) ==
  /\ waiters' = waiters \ woken
  /\ pc' = [t \in Threads |-> IF t \in woken THEN "lock" ELSE pcs[t]]

Signal(pcs) == IF waiters = {} THEN Wake({}, pcs)
                               ELSE \E w \in waiters : Wake({w}, pcs)

SetShutdownSilently(pcs) ==
  /\ shutdown' = TRUE /\ mutex' = "free" /\ pc' = pcs /\ UNCHANGED waiters

(* A critical section that sets g_shutdown_requested, wakes everybody and  *)
(* unlocks.                                                                *)
SetShutdown(pcs) ==
  /\ shutdown' = TRUE
  /\ mutex' = "free"
  /\ Wake(waiters, pcs)

(* A condition wait may return without a signal.                           *)
SpuriousWakeup(w) ==
  /\ w \in waiters
  /\ Wake({w}, pc)
  /\ UNCHANGED <<mutex, live, shutdown, store, io, app, sig>>
-----------------------------------------------------------------------------
(* The loop the two worker threads share.                                  *)

(* while (!g_shutdown_requested), read without the mutex.                  *)
Top(w) ==
  /\ pc[w] = "top"
  /\ pc' = [pc EXCEPT ![w] = IF shutdown THEN "exited" ELSE "lock"]
  /\ UNCHANGED <<sync, store, io, app, sig>>

WaitDespiteShutdown(w) ==
  /\ Locked(w, "lock")
  /\ queue[Input[w]] = <<>>
  /\ waiters' = waiters \cup {w}
  /\ pc' = [pc EXCEPT ![w] = "wait"]
  /\ mutex' = "free"
  /\ UNCHANGED <<live, shutdown, store, io, app, sig>>

Wait(w) ==
  /\ Locked(w, "lock")
  /\ queue[Input[w]] = <<>>
  /\ ~shutdown
  /\ waiters' = waiters \cup {w}
  /\ pc' = [pc EXCEPT ![w] = "wait"]
  /\ mutex' = "free"
  /\ UNCHANGED <<live, shutdown, store, io, app, sig>>

Leave(w) ==
  /\ Locked(w, "lock")
  /\ shutdown
  /\ pc' = [pc EXCEPT ![w] = "exited"]
  /\ mutex' = "free"
  /\ UNCHANGED <<live, waiters, shutdown, store, io, app, sig>>

Take(w, next) ==
  /\ Locked(w, "lock")
  /\ ~shutdown
  /\ queue[Input[w]] # <<>>
  /\ held' = [held EXCEPT ![w] = Head(queue[Input[w]])]
  /\ frame_queue_pull(Input[w])
  /\ pc' = [pc EXCEPT ![w] = next]
  /\ mutex' = "free"
  /\ UNCHANGED <<live, waiters, shutdown, pool, data, io, app, sig>>

(* A device error: count it; at the limit, ask everybody to stop.          *)
Fail(w) ==
  /\ errors' = [errors EXCEPT ![w] = @ + 1]
  /\ pc' = [pc EXCEPT ![w] = IF errors'[w] >= Limit[w] THEN "stop"
                                                       ELSE "giveback"]
  /\ UNCHANGED <<sync, store, sequence, sent, app, sig>>

Stop(w) ==
  /\ Locked(w, "stop")
  /\ SetShutdown([pc EXCEPT ![w] = "surrender"])
  /\ UNCHANGED <<live, store, io, app, sig>>

(* "Return buffer before exiting": a second critical section, no signal.   *)
Surrender(w) ==
  /\ Locked(w, "surrender")
  /\ frame_queue_push("empty", held[w])
  /\ held' = [held EXCEPT ![w] = NoBuffer]
  /\ pc' = [pc EXCEPT ![w] = "exited"]
  /\ mutex' = "free"
  /\ UNCHANGED <<live, waiters, shutdown, pool, data, io, app, sig>>
-----------------------------------------------------------------------------
(* camera_thread_func                                                      *)

CameraTop   == Top("camera")
CameraWait  == Wait("camera")
CameraLeave == Leave("camera")
CameraTake  == Take("camera", "capture")

CameraTimeout ==
  /\ pc["camera"] = "capture"
  /\ pc' = [pc EXCEPT !["camera"] = "giveback"]
  /\ UNCHANGED <<sync, store, io, app, sig>>

CameraError == pc["camera"] = "capture" /\ Fail("camera")

CameraFrame ==
  /\ pc["camera"] = "capture"
  /\ errors' = [errors EXCEPT !["camera"] = 0]
  /\ pc' = [pc EXCEPT !["camera"] = "pack"]
  /\ UNCHANGED <<sync, store, sequence, sent, app, sig>>

(* mjpeg_pack_frame writes the packet into the buffer and takes the next   *)
(* sequence number; when the JPEG data is not valid it does neither.       *)
PackFrame ==
  /\ pc["camera"] = "pack"
  /\ sequence < MaxFrames
  /\ data' = [data EXCEPT ![held["camera"]] = sequence]
  /\ sequence' = sequence + 1
  /\ pc' = [pc EXCEPT !["camera"] = "publish"]
  /\ UNCHANGED <<sync, queue, pool, held, errors, sent, app, sig>>

PackErrorKeepsBuffer ==
  /\ pc["camera"] = "pack"
  /\ pc' = [pc EXCEPT !["camera"] = "top"]
  /\ UNCHANGED <<sync, store, io, app, sig>>

PackError ==
  /\ pc["camera"] = "pack"
  /\ pc' = [pc EXCEPT !["camera"] = "giveback"]
  /\ UNCHANGED <<sync, store, io, app, sig>>

PublishSilently ==
  /\ Locked("camera", "publish")
  /\ frame_queue_push("action", held["camera"])
  /\ held' = [held EXCEPT !["camera"] = NoBuffer]
  /\ pc' = [pc EXCEPT !["camera"] = "top"]
  /\ mutex' = "free"
  /\ UNCHANGED <<live, waiters, shutdown, pool, data, io, app, sig>>

CameraPublish ==
  /\ Locked("camera", "publish")
  /\ frame_queue_push("action", held["camera"])
  /\ held' = [held EXCEPT !["camera"] = NoBuffer]
  /\ Signal([pc EXCEPT !["camera"] = "top"])
  /\ mutex' = "free"
  /\ UNCHANGED <<live, shutdown, pool, data, io, app, sig>>

(* The buffer of a failed capture or a failed pack: no signal.             *)
CameraGiveBack ==
  /\ Locked("camera", "giveback")
  /\ frame_queue_push("empty", held["camera"])
  /\ held' = [held EXCEPT !["camera"] = NoBuffer]
  /\ pc' = [pc EXCEPT !["camera"] = "top"]
  /\ mutex' = "free"
  /\ UNCHANGED <<live, waiters, shutdown, pool, data, io, app, sig>>

CameraStop      == Stop("camera")
CameraSurrender == Surrender("camera")

CameraThread ==
  \/ CameraTop \/ CameraWait \/ CameraLeave \/ CameraTake
  \/ CameraTimeout \/ CameraError \/ CameraFrame
  \/ PackFrame \/ PackError \/ CameraPublish \/ CameraGiveBack
  \/ CameraStop \/ CameraSurrender
-----------------------------------------------------------------------------
(* usb_thread_func                                                         *)

UsbTop   == Top("usb")
UsbWait  == Wait("usb")
UsbLeave == Leave("usb")
UsbTake  == Take("usb", "send")

UsbSent ==
  /\ pc["usb"] = "send"
  /\ sent' = Append(sent, data[held["usb"]])
  /\ errors' = [errors EXCEPT !["usb"] = 0]
  /\ pc' = [pc EXCEPT !["usb"] = "giveback"]
  /\ UNCHANGED <<sync, store, sequence, app, sig>>

(* usb_transport_send_bytes reports a disconnected device.                 *)
UsbDisconnected ==
  /\ pc["usb"] = "send"
  /\ pc' = [pc EXCEPT !["usb"] = "stop"]
  /\ UNCHANGED <<sync, store, io, app, sig>>

UsbErrorKeepsBuffer ==
  /\ pc["usb"] = "send"
  /\ pc' = [pc EXCEPT !["usb"] = "top"]
  /\ UNCHANGED <<sync, store, io, app, sig>>

(* Any other error; below the limit the packet is dropped.                 *)
UsbError == pc["usb"] = "send" /\ Fail("usb")

UsbGiveBackSilently ==
  /\ Locked("usb", "giveback")
  /\ frame_queue_push("empty", held["usb"])
  /\ held' = [held EXCEPT !["usb"] = NoBuffer]
  /\ pc' = [pc EXCEPT !["usb"] = "top"]
  /\ mutex' = "free"
  /\ UNCHANGED <<live, waiters, shutdown, pool, data, io, app, sig>>

UsbGiveBack ==
  /\ Locked("usb", "giveback")
  /\ frame_queue_push("empty", held["usb"])
  /\ held' = [held EXCEPT !["usb"] = NoBuffer]
  /\ Signal([pc EXCEPT !["usb"] = "top"])
  /\ mutex' = "free"
  /\ UNCHANGED <<live, shutdown, pool, data, io, app, sig>>

UsbStop      == Stop("usb")
UsbSurrender == Surrender("usb")

UsbThread ==
  \/ UsbTop \/ UsbWait \/ UsbLeave \/ UsbTake
  \/ UsbSent \/ UsbDisconnected \/ UsbError \/ UsbGiveBack
  \/ UsbStop \/ UsbSurrender
-----------------------------------------------------------------------------
(* The main thread: camera_threads_init, the monitor loop of main and      *)
(* camera_threads_cleanup.  It runs while no signal handler sits on it.    *)

At(p) == pc["main"] = p /\ handler = "idle"

Goto(p) == pc' = [pc EXCEPT !["main"] = p]

(* frame_queue_init: the queues and the flag are reset even when creating  *)
(* the mutex or the condition variable then fails.                         *)
QueueInit ==
  /\ At("init")
  /\ queue' = EmptyQueues
  /\ shutdown' = FALSE
  /\ \/ live' = TRUE /\ Goto("allocate")
     \/ live' = FALSE /\ Goto("sequential")
  /\ UNCHANGED <<mutex, waiters, pool, held, data, io, app, sig>>

(* frame_queue_allocate_buffers: on failure nothing stays allocated.       *)
AllocateBuffers ==
  /\ At("allocate")
  /\ \/ pool' = TRUE /\ Goto("fill")
     \/ pool' = FALSE /\ Goto("drain")
  /\ UNCHANGED <<sync, queue, held, data, io, app, sig>>

FillEmptyQueue ==
  /\ Locked("main", "fill")
  /\ queue' = [queue EXCEPT !["empty"] = @ \o [b \in Buffers |-> b]]
  /\ Goto("createCamera")
  /\ mutex' = "free"
  /\ UNCHANGED <<live, waiters, shutdown, pool, held, data, io, app, sig>>

CreateCameraThread ==
  /\ At("createCamera")
  /\ \/ pc' = [pc EXCEPT !["camera"] = "top", !["main"] = "createUsb"]
     \/ Goto("drain")
  /\ UNCHANGED <<sync, store, io, app, sig>>

CreateUsbThread ==
  /\ At("createUsb")
  /\ \/ /\ pc' = [pc EXCEPT !["usb"] = "top", !["main"] = "monitor"]
        /\ threaded' = TRUE
     \/ Goto("abort") /\ UNCHANGED threaded
  /\ UNCHANGED <<sync, store, io, running, launches, sig>>

(* The USB thread could not be created: stop the camera thread and join it.*)
AbortInit ==
  /\ Locked("main", "abort")
  /\ SetShutdown([pc EXCEPT !["main"] = "abortJoin"])
  /\ UNCHANGED <<live, store, io, app, sig>>

AbortWithoutJoin ==
  /\ At("abortJoin")
  /\ Goto("drain")
  /\ UNCHANGED <<sync, store, io, app, sig>>

AbortJoin ==
  /\ At("abortJoin")
  /\ pc["camera"] = "exited"
  /\ Goto("drain")
  /\ UNCHANGED <<sync, store, io, app, sig>>

(* The monitor loop polls every 100 ms until one of the flags stops it.    *)
Monitor ==
  /\ At("monitor")
  /\ shutdown \/ ~running
  /\ running' = FALSE
  /\ Goto("stop")
  /\ UNCHANGED <<sync, store, io, threaded, launches, sig>>

MainStop ==
  /\ Locked("main", "stop")
  /\ SetShutdown([pc EXCEPT !["main"] = "cleanup"])
  /\ UNCHANGED <<live, store, io, app, sig>>

ThreadsCleanup ==
  /\ Locked("main", "cleanup")
  /\ SetShutdown([pc EXCEPT !["main"] = "joinCamera"])
  /\ UNCHANGED <<live, store, io, app, sig>>

JoinCamera ==
  /\ At("joinCamera")
  /\ pc["camera"] = "exited"
  /\ Goto("joinUsb")
  /\ UNCHANGED <<sync, store, io, app, sig>>

JoinUsb ==
  /\ At("joinUsb")
  /\ pc["usb"] = "exited"
  /\ Goto("drain")
  /\ UNCHANGED <<sync, store, io, app, sig>>

(* frame_queue_cleanup, in its three parts.                                *)
QueueCleanup ==
  /\ Locked("main", "drain")
  /\ SetShutdown([pc EXCEPT !["main"] = "free"])
  /\ UNCHANGED <<live, store, io, app, sig>>

FreeBuffers ==
  /\ At("free")
  /\ pool' = FALSE
  /\ Goto("destroy")
  /\ UNCHANGED <<sync, queue, held, data, io, app, sig>>

ClearQueuesOnly ==
  /\ At("destroy")
  /\ queue' = EmptyQueues
  /\ Goto(IF threaded THEN "done" ELSE "sequential")
  /\ UNCHANGED <<sync, pool, held, data, io, app, sig>>

DestroySync ==
  /\ At("destroy")
  /\ live' = FALSE
  /\ queue' = EmptyQueues
  /\ Goto(IF threaded THEN "done" ELSE "sequential")
  /\ UNCHANGED <<mutex, waiters, shutdown, pool, held, data, io, app, sig>>

(* The fallback loop, which uses none of this module's state.              *)
SequentialMode ==
  /\ At("sequential")
  /\ Goto("done")
  /\ UNCHANGED <<sync, store, io, app, sig>>

(* The command is run again.  Locals start afresh, and so do the threads,  *)
(* the packets and the connection; in a flat build statics keep the values *)
(* the last run left, so g_running, which nothing sets again, stays false. *)
Relaunch ==
  /\ At("done")
  /\ launches < MaxLaunches
  /\ launches' = launches + 1
  /\ pc' = [t \in Threads |-> IF t = "main" THEN "init" ELSE "none"]
  /\ data' = [b \in Buffers |-> 0]
  /\ errors' = [w \in Workers |-> 0]
  /\ sequence' = 0 /\ sent' = <<>>
  /\ threaded' = FALSE /\ signals' = 0
  /\ UNCHANGED <<sync, queue, pool, held, running, handler>>

MainThread ==
  \/ QueueInit \/ AllocateBuffers \/ FillEmptyQueue
  \/ CreateCameraThread \/ CreateUsbThread \/ AbortInit \/ AbortJoin
  \/ Monitor \/ MainStop \/ ThreadsCleanup \/ JoinCamera \/ JoinUsb
  \/ QueueCleanup \/ FreeBuffers \/ DestroySync \/ SequentialMode
-----------------------------------------------------------------------------
(* signal_handler, which interrupts the main thread.                       *)

SignalArrives ==
  /\ At(pc["main"])
  /\ pc["main"] # "done"
  /\ signals < MaxSignals
  /\ mutex = "main" => SignalInCritical
  /\ ~live => SignalNoMutex
  /\ signals' = signals + 1
  /\ running' = FALSE
  /\ handler' = "lock"
  /\ UNCHANGED <<pc, sync, store, io, threaded, launches>>

HandlerLock ==
  /\ handler = "lock"
  /\ live
  /\ mutex = "free"
  /\ mutex' = "main"
  /\ handler' = "locked"
  /\ UNCHANGED <<pc, live, waiters, shutdown, store, io, app, signals>>

(* Locking a mutex that was never initialised, or was destroyed, may       *)
(* return or may block for ever.                                           *)
HandlerLockDead ==
  /\ handler = "lock"
  /\ ~live
  /\ handler' \in {"locked", "stuck"}
  /\ UNCHANGED <<pc, sync, store, io, app, signals>>

HandlerShutdown ==
  /\ handler = "locked"
  /\ SetShutdown(pc)
  /\ handler' = "idle"
  /\ UNCHANGED <<live, store, io, app, signals>>

SignalHandler == HandlerLock \/ HandlerLockDead \/ HandlerShutdown
-----------------------------------------------------------------------------
(* main has called nothing of camera_threads.c yet: the mutex, the         *)
(* condition variable and the queues are the zeros of static storage.      *)
Init ==
  /\ pc = [t \in Threads |-> IF t = "main" THEN "init" ELSE "none"]
  /\ mutex = "free" /\ live = FALSE /\ waiters = {} /\ shutdown = FALSE
  /\ queue = EmptyQueues
  /\ pool = FALSE
  /\ held = [w \in Workers |-> NoBuffer]
  /\ data = [b \in Buffers |-> 0]
  /\ errors = [w \in Workers |-> 0]
  /\ sequence = 0 /\ sent = <<>>
  /\ running = TRUE /\ threaded = FALSE
  /\ handler = "idle" /\ signals = 0 /\ launches = 1

(* main has returned.                                                      *)
Terminated == pc["main"] = "done" /\ UNCHANGED vars

Next ==
  \/ \E t \in Threads : Acquire(t)
  \/ \E w \in Workers : SpuriousWakeup(w)
  \/ CameraThread
  \/ UsbThread
  \/ MainThread
  \/ SignalArrives
  \/ SignalHandler
  \/ Relaunch
  \/ Terminated

Spec == Init /\ [][Next]_vars

(* Every thread that can run gets to run; device calls return (poll has a  *)
(* one second timeout); the kernel hands the mutex to a waiting thread.    *)
Fairness ==
  /\ WF_vars(CameraThread)
  /\ WF_vars(UsbThread)
  /\ WF_vars(MainThread)
  /\ WF_vars(SignalHandler)
  /\ \A t \in Threads : SF_vars(Acquire(t))
  /\ SF_vars(HandlerLock)

FairSpec == Spec /\ Fairness
-----------------------------------------------------------------------------
(* Safety                                                                  *)

WorkerPoints == {"none", "top", "lock", "wait", "capture", "pack", "publish",
                 "send", "giveback", "stop", "surrender", "exited"}

MainPoints == {"init", "allocate", "fill", "createCamera", "createUsb",
               "abort", "abortJoin", "monitor", "stop", "cleanup",
               "joinCamera", "joinUsb", "drain", "free", "destroy",
               "sequential", "done"}

(* Every variable has its type.                                            *)
TypeOK ==
  /\ pc \in [Threads -> WorkerPoints \cup MainPoints]
  /\ \A w \in Workers : pc[w] \in WorkerPoints
  /\ pc["main"] \in MainPoints
  /\ mutex \in Threads \cup {"free"}
  /\ live \in BOOLEAN
  /\ waiters \in SUBSET Workers
  /\ shutdown \in BOOLEAN
  /\ queue \in [Queues -> Seq(Buffers)]
  /\ pool \in BOOLEAN
  /\ held \in [Workers -> Buffers \cup {NoBuffer}]
  /\ data \in [Buffers -> Nat]
  /\ errors \in [Workers -> Nat]
  /\ sequence \in Nat
  /\ sent \in Seq(Nat)
  /\ running \in BOOLEAN
  /\ threaded \in BOOLEAN
  /\ handler \in {"idle", "lock", "locked", "stuck"}
  /\ signals \in Nat
  /\ launches \in Nat

Started == {w \in Workers : pc[w] \notin {"none", "exited"}}

Content(q) == {queue[q][i] : i \in DOMAIN queue[q]}

(* Where buffer b is: in a queue, or in the hands of a thread.             *)
Owners(b) == {q \in Queues : b \in Content(q)}
             \cup {w \in Workers : held[w] = b}

(* Whatever fails in either thread, no buffer is lost or handed out twice: *)
(* from the creation of the threads until they have exited each buffer has *)
(* exactly one owner and stands once in its queue.                         *)
BufferConservation ==
  /\ \A q \in Queues : \A i, j \in DOMAIN queue[q] :
       queue[q][i] = queue[q][j] => i = j
  /\ \A b \in Buffers : \A x, y \in Owners(b) : x = y
  /\ Started # {} => \A b \in Buffers : Owners(b) # {}

(* One condition variable, woken with signal rather than broadcast, serves *)
(* both threads, and the camera thread returns buffers without signalling: *)
(* still nobody sleeps while there is a buffer to take or a shutdown to    *)
(* obey, and the two threads never sleep together.                         *)
NoLostWakeup ==
  /\ \A w \in waiters : queue[Input[w]] = <<>> /\ ~shutdown
  /\ waiters # Workers

(* The packets in the pipeline, oldest first.                              *)
InFlight ==
  (IF pc["usb"] = "send" THEN <<data[held["usb"]]>> ELSE <<>>)
  \o [i \in DOMAIN queue["action"] |-> data[queue["action"][i]]]
  \o (IF pc["camera"] = "publish" THEN <<data[held["camera"]]>> ELSE <<>>)

Increasing(s) == \A i, j \in DOMAIN s : i < j => s[i] < s[j]

(* The host receives packets in capture order, none twice: the numbers of  *)
(* the packets sent and in flight only grow, up to the last number used.   *)
WireInOrder ==
  LET all == sent \o InFlight IN
  /\ Increasing(all)
  /\ \A i \in DOMAIN all : all[i] < sequence

(* The pool is freed and the mutex destroyed only after every thread that  *)
(* was created has left its loop, in the normal exit and when creating a   *)
(* thread failed half way.                                                 *)
NoUseAfterFree ==
  /\ Started # {} => pool /\ live
  /\ pool => live
  /\ mutex # "free" => live

(* When main returns, nothing the threaded mode acquired is left behind.   *)
CleanExit ==
  pc["main"] = "done" =>
    Started = {} /\ ~pool /\ ~live /\ waiters = {} /\ mutex = "free"

(* "Signal threads to shutdown if threading is enabled": the handler locks *)
(* the mutex only while the mutex exists.                                  *)
HandlerLocksLiveMutex == handler # "idle" => live

(* "Run continuously until Ctrl+C": the monitor loop ends because one of   *)
(* the threads asked for the shutdown or because of a signal.              *)
RunsUntilStopped == pc["main"] = "stop" => shutdown \/ signals > 0
-----------------------------------------------------------------------------
(* Liveness                                                                *)

(* A shutdown requested by anybody while the threads run ends with main    *)
(* returning, which includes joining both threads.                         *)
ShutdownCompletes == (shutdown /\ threaded) ~> pc["main"] = "done"

(* Ctrl+C stops the program.                                               *)
SignalStops == (signals > 0) ~> pc["main"] = "done"

(* A packet never stays in the pipeline: it is sent or dropped, unless the *)
(* system is shutting down.                                                *)
InPipeline(n) == n \in {InFlight[i] : i \in DOMAIN InFlight}
PacketsMove == \A n \in 0 .. MaxFrames :
                 InPipeline(n) ~> (~InPipeline(n) \/ shutdown)

(* The camera thread is not starved of buffers.                            *)
CameraGetsBuffer == pc["camera"] = "wait" ~> pc["camera"] # "wait"
-----------------------------------------------------------------------------
(* The inductive invariant                                                 *)

Before    == {"init", "allocate", "fill", "createCamera"}
Operating == {"createCamera", "createUsb", "abort", "abortJoin", "monitor",
              "stop", "cleanup", "joinCamera", "joinUsb"}
After     == {"drain", "free", "destroy", "sequential", "done"}
Holding   == {"capture", "pack", "publish", "send", "giveback", "stop",
              "surrender"}

(* The owner of the mutex is inside a critical section.                    *)
MutexInv ==
  /\ mutex # "free" => live
  /\ mutex \in Workers => pc[mutex] \in LockPoints
  /\ mutex = "main" => pc["main"] \in LockPoints \/ handler = "locked"

(* The wait set is the set of threads in pthread_cond_wait, and those have *)
(* nothing to take and nothing to obey.  A thread that surrenders its      *)
(* buffer, which it does without a signal, has requested the shutdown.     *)
WaitInv ==
  /\ \A w \in Workers : w \in waiters <=> pc[w] = "wait"
  /\ \A w \in waiters : queue[Input[w]] = <<>> /\ ~shutdown
  /\ \A w \in Workers : pc[w] = "surrender" => shutdown

(* Which threads exist, and whether the pool and the mutex do, follows     *)
(* from the place the main thread has reached.                             *)
LifeInv ==
  /\ pc["main"] \in Before => pc["camera"] = "none"
  /\ pc["main"] \in Before \cup {"createUsb", "abort", "abortJoin"}
       => pc["usb"] = "none"
  /\ pc["main"] = "joinUsb" => pc["camera"] = "exited"
  /\ pc["main"] \in After => \A w \in Workers : pc[w] \in {"none", "exited"}
  /\ pc["main"] \in Operating \cup {"fill"} => pool
  /\ pool => pc["main"] \in Operating \cup {"fill", "drain", "free"}
  /\ live <=> pc["main"] \notin {"init", "sequential", "done"}

(* A thread holds a buffer exactly between taking and returning it, and    *)
(* each thread only visits its own points.                                 *)
HeldInv ==
  /\ \A w \in Workers : held[w] # NoBuffer <=> pc[w] \in Holding
  /\ pc["camera"] # "send"
  /\ pc["usb"] \notin {"capture", "pack", "publish"}

(* Buffers are conserved.                                                  *)
FlowInv ==
  /\ \A q \in Queues : \A i, j \in DOMAIN queue[q] :
       queue[q][i] = queue[q][j] => i = j
  /\ \A b \in Buffers : \A x, y \in Owners(b) : x = y
  /\ pc["main"] \in {"init", "allocate", "fill", "sequential", "done"}
       => queue = EmptyQueues
  /\ pc["main"] \in Operating => \A b \in Buffers : Owners(b) # {}

(* Together they are preserved by every step.                              *)
IInv == TypeOK /\ MutexInv /\ WaitInv /\ LifeInv /\ HeldInv /\ FlowInv
=============================================================================
