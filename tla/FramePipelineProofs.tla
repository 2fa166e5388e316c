------------------------- MODULE FramePipelineProofs -------------------------
(***************************************************************************)
(* Proofs about FramePipeline, for any number of buffers, any error limits *)
(* and any bounds: the inductive invariant and what follows from it, then  *)
(* that the pipeline implements FrameChannel, step by step, and that the   *)
(* packets stay in order.                                                  *)
(***************************************************************************)
EXTENDS FramePipelineRefinement, SequenceTheorems, FiniteSetTheorems, TLAPS

-----------------------------------------------------------------------------
(* Type correctness.  A queue only holds buffers because a thread only     *)
(* pushes the buffer it holds, so the types need HeldInv.                  *)

PcType ==
  /\ pc \in [Threads -> WorkerPoints \cup MainPoints]
  /\ \A w \in Workers : pc[w] \in WorkerPoints
  /\ pc["main"] \in MainPoints
  /\ waiters \in SUBSET Workers

StoreType ==
  /\ queue \in [Queues -> Seq(Buffers)]
  /\ held \in [Workers -> Buffers \cup {NoBuffer}]
  /\ data \in [Buffers -> Nat]
  /\ errors \in [Workers -> Nat]
  /\ sequence \in Nat
  /\ sent \in Seq(Nat)

FlagType ==
  /\ mutex \in Threads \cup {"free"}
  /\ live \in BOOLEAN
  /\ shutdown \in BOOLEAN
  /\ pool \in BOOLEAN
  /\ running \in BOOLEAN
  /\ threaded \in BOOLEAN
  /\ handler \in {"idle", "lock", "locked", "stuck"}
  /\ signals \in Nat
  /\ launches \in Nat

USE DEF Threads, Workers, Queues, NoBuffer, sync, store, io, app, sig

(* TypeOK in three parts.                                                  *)
LEMMA TypeParts == TypeOK <=> PcType /\ StoreType /\ FlagType
BY DEF TypeOK, PcType, StoreType, FlagType

(* Every thread stays at points of its own code.                           *)
LEMMA PcStep ==
  ASSUME PcType, WaitInv, [Next]_vars
  PROVE  PcType'
<1> USE DEF PcType, WorkerPoints, MainPoints
<1>1. ASSUME NEW t \in Threads, Acquire(t)
      PROVE  PcType'
  BY <1>1 DEF Acquire
<1>2. ASSUME NEW w \in Workers, SpuriousWakeup(w)
      PROVE  PcType'
  BY <1>2 DEF SpuriousWakeup, Wake, WaitInv
<1>3. ASSUME NEW w \in Workers, Top(w)
      PROVE  PcType'
  BY <1>3 DEF Top
<1>4. ASSUME NEW w \in Workers, Wait(w)
      PROVE  PcType'
  BY <1>4 DEF Wait, Locked
<1>5. ASSUME NEW w \in Workers, Leave(w)
      PROVE  PcType'
  BY <1>5 DEF Leave, Locked
<1>6. CASE CameraTake \/ UsbTake
  BY <1>6 DEF CameraTake, UsbTake, Take, Locked, frame_queue_pull, Input
<1>7. CASE CameraError \/ UsbError
  BY <1>7 DEF CameraError, UsbError, Fail
<1>8. ASSUME NEW w \in Workers, Stop(w)
      PROVE  PcType'
  BY <1>8 DEF Stop, SetShutdown, Locked, Wake, WaitInv
<1>9. ASSUME NEW w \in Workers, Surrender(w)
      PROVE  PcType'
  BY <1>9 DEF Surrender, Locked, frame_queue_push
<1>10. CASE CameraTimeout \/ CameraFrame \/ PackError
  BY <1>10 DEF CameraTimeout, CameraFrame, PackError
<1>11. CASE PackFrame
  BY <1>11 DEF PackFrame
<1>12. CASE CameraPublish
  <2>1. PICK woken \in SUBSET waiters : Wake(woken, [pc EXCEPT !["camera"] = "top"])
    BY <1>12 DEF CameraPublish, Signal
  <2> QED BY <2>1, <1>12 DEF Wake
<1>13. CASE CameraGiveBack
  BY <1>13 DEF CameraGiveBack, Locked, frame_queue_push
<1>14. CASE UsbSent
  BY <1>14 DEF UsbSent
<1>15. CASE UsbDisconnected
  BY <1>15 DEF UsbDisconnected
<1>16. CASE UsbGiveBack
  <2>1. PICK woken \in SUBSET waiters : Wake(woken, [pc EXCEPT !["usb"] = "top"])
    BY <1>16 DEF UsbGiveBack, Signal
  <2> QED BY <2>1, <1>16 DEF Wake
<1>17. CASE QueueInit
  BY <1>17 DEF QueueInit, At, Goto, EmptyQueues
<1>18. CASE AllocateBuffers
  BY <1>18 DEF AllocateBuffers, At, Goto
<1>19. CASE FillEmptyQueue
  BY <1>19 DEF FillEmptyQueue, Locked, Goto
<1>20. CASE CreateCameraThread \/ CreateUsbThread
  BY <1>20 DEF CreateCameraThread, CreateUsbThread, At, Goto
<1>21. CASE AbortInit \/ MainStop \/ ThreadsCleanup \/ QueueCleanup
  <2>1. PICK p \in MainPoints : SetShutdown([pc EXCEPT !["main"] = p])
    BY <1>21 DEF AbortInit, MainStop, ThreadsCleanup, QueueCleanup
  <2>2. /\ waiters' = {}
        /\ pc' = [t \in Threads |-> IF t \in waiters THEN "lock"
                                    ELSE [pc EXCEPT !["main"] = p][t]]
    BY <2>1 DEF SetShutdown, Wake
  <2>3. [pc EXCEPT !["main"] = p] \in [Threads -> WorkerPoints \cup MainPoints]
    OBVIOUS
  <2> QED BY <2>2, <2>3
<1>22. CASE AbortJoin \/ JoinCamera \/ JoinUsb
  BY <1>22 DEF AbortJoin, JoinCamera, JoinUsb, At, Goto
<1>23. CASE Monitor
  BY <1>23 DEF Monitor, At, Goto
<1>24. CASE FreeBuffers
  BY <1>24 DEF FreeBuffers, At, Goto
<1>25. CASE DestroySync
  BY <1>25 DEF DestroySync, At, Goto, EmptyQueues
<1>26. CASE SequentialMode
  BY <1>26 DEF SequentialMode, At, Goto
<1>27. CASE SignalArrives
  BY <1>27 DEF SignalArrives, At
<1>28. CASE HandlerLock \/ HandlerLockDead
  BY <1>28 DEF HandlerLock, HandlerLockDead
<1>29. CASE HandlerShutdown
  BY <1>29 DEF HandlerShutdown, SetShutdown, Wake, WaitInv
<1>30. CASE Relaunch
  BY <1>30 DEF Relaunch, At
<1>31. CASE UNCHANGED vars
  BY <1>31 DEF vars
<1> QED
  BY <1>1, <1>2, <1>3, <1>4, <1>5, <1>6, <1>7, <1>8, <1>9, <1>10, <1>11, <1>12, <1>13, <1>14, <1>15, <1>16, <1>17, <1>18, <1>19, <1>20, <1>21, <1>22, <1>23, <1>24, <1>25, <1>26, <1>27, <1>28, <1>29, <1>30, <1>31
  DEF Next, CameraThread, UsbThread, MainThread, SignalHandler, Terminated,
      CameraTop, CameraWait, CameraLeave, CameraStop, CameraSurrender,
      UsbTop, UsbWait, UsbLeave, UsbStop, UsbSurrender

(* Buffers stay buffers, whoever holds them.                               *)
LEMMA StoreStep ==
  ASSUME PcType, StoreType, HeldInv, [Next]_vars
  PROVE  StoreType'
<1> USE DEF StoreType, HeldInv, Holding, Buffers
<1>1. ASSUME NEW t \in Threads, Acquire(t)
      PROVE  StoreType'
  BY <1>1 DEF Acquire
<1>2. ASSUME NEW w \in Workers, SpuriousWakeup(w)
      PROVE  StoreType'
  BY <1>2 DEF SpuriousWakeup, Wake
<1>3. ASSUME NEW w \in Workers, Top(w)
      PROVE  StoreType'
  BY <1>3 DEF Top
<1>4. ASSUME NEW w \in Workers, Wait(w)
      PROVE  StoreType'
  BY <1>4 DEF Wait, Locked
<1>5. ASSUME NEW w \in Workers, Leave(w)
      PROVE  StoreType'
  BY <1>5 DEF Leave, Locked
<1>6. CASE CameraTake \/ UsbTake
  <2>1. ASSUME NEW w \in Workers, Take(w, "capture") \/ Take(w, "send")
        PROVE  StoreType'
    <3>1. /\ queue[Input[w]] \in Seq(Buffers) /\ queue[Input[w]] # <<>>
          /\ Input[w] \in Queues
      BY <2>1 DEF Take, Input
    <3>2. /\ Head(queue[Input[w]]) \in Buffers
          /\ Tail(queue[Input[w]]) \in Seq(Buffers)
      BY <3>1, HeadTailProperties
    <3>3. held' \in [Workers -> Buffers \cup {NoBuffer}]
      BY <2>1, <3>2 DEF Take
    <3>4. queue' \in [Queues -> Seq(Buffers)]
      <4>1. queue' = [queue EXCEPT ![Input[w]] = Tail(queue[Input[w]])]
        BY <2>1 DEF Take, frame_queue_pull
      <4> QED BY <4>1, <3>1, <3>2
    <3> QED BY <2>1, <3>3, <3>4 DEF Take
  <2> QED BY <1>6, <2>1 DEF CameraTake, UsbTake
<1>7. CASE CameraError \/ UsbError
  BY <1>7 DEF CameraError, UsbError, Fail
<1>8. ASSUME NEW w \in Workers, Stop(w)
      PROVE  StoreType'
  BY <1>8 DEF Stop, SetShutdown, Locked, Wake
<1>9. ASSUME NEW w \in Workers, Surrender(w)
      PROVE  StoreType'
  BY <1>9 DEF Surrender, Locked, frame_queue_push
<1>10. CASE CameraTimeout \/ CameraFrame \/ PackError
  BY <1>10 DEF CameraTimeout, CameraFrame, PackError
<1>11. CASE PackFrame
  BY <1>11 DEF PackFrame
<1>12. CASE CameraPublish
  BY <1>12 DEF CameraPublish, Locked, frame_queue_push, Signal, Wake
<1>13. CASE CameraGiveBack
  BY <1>13 DEF CameraGiveBack, Locked, frame_queue_push
<1>14. CASE UsbSent
  BY <1>14 DEF UsbSent
<1>15. CASE UsbDisconnected
  BY <1>15 DEF UsbDisconnected
<1>16. CASE UsbGiveBack
  BY <1>16 DEF UsbGiveBack, Locked, frame_queue_push, Signal, Wake
<1>17. CASE QueueInit
  BY <1>17 DEF QueueInit, At, Goto, EmptyQueues
<1>18. CASE AllocateBuffers
  BY <1>18 DEF AllocateBuffers, At, Goto
<1>19. CASE FillEmptyQueue
  <2>1. [b \in Buffers |-> b] \in Seq(Buffers)
    BY NumBuffersAssumption
  <2>2. queue["empty"] \o [b \in Buffers |-> b] \in Seq(Buffers)
    BY <2>1, ConcatProperties
  <2> QED BY <1>19, <2>2 DEF FillEmptyQueue
<1>20. CASE CreateCameraThread \/ CreateUsbThread
  BY <1>20 DEF CreateCameraThread, CreateUsbThread, At, Goto
<1>21. CASE AbortInit \/ MainStop \/ ThreadsCleanup \/ QueueCleanup
  BY <1>21 DEF AbortInit, MainStop, ThreadsCleanup, QueueCleanup, SetShutdown, Locked, Wake
<1>22. CASE AbortJoin \/ JoinCamera \/ JoinUsb
  BY <1>22 DEF AbortJoin, JoinCamera, JoinUsb, At, Goto
<1>23. CASE Monitor
  BY <1>23 DEF Monitor, At, Goto
<1>24. CASE FreeBuffers
  BY <1>24 DEF FreeBuffers, At, Goto
<1>25. CASE DestroySync
  BY <1>25 DEF DestroySync, At, Goto, EmptyQueues
<1>26. CASE SequentialMode
  BY <1>26 DEF SequentialMode, At, Goto
<1>27. CASE SignalArrives
  BY <1>27 DEF SignalArrives, At
<1>28. CASE HandlerLock \/ HandlerLockDead
  BY <1>28 DEF HandlerLock, HandlerLockDead
<1>29. CASE HandlerShutdown
  BY <1>29 DEF HandlerShutdown, SetShutdown, Wake
<1>30. CASE Relaunch
  BY <1>30 DEF Relaunch, At
<1>31. CASE UNCHANGED vars
  BY <1>31 DEF vars
<1> QED
  BY <1>1, <1>2, <1>3, <1>4, <1>5, <1>6, <1>7, <1>8, <1>9, <1>10, <1>11, <1>12, <1>13, <1>14, <1>15, <1>16, <1>17, <1>18, <1>19, <1>20, <1>21, <1>22, <1>23, <1>24, <1>25, <1>26, <1>27, <1>28, <1>29, <1>30, <1>31
  DEF Next, CameraThread, UsbThread, MainThread, SignalHandler, Terminated,
      CameraTop, CameraWait, CameraLeave, CameraStop, CameraSurrender,
      UsbTop, UsbWait, UsbLeave, UsbStop, UsbSurrender

(* Locks, counters and flags keep their types.                             *)
LEMMA FlagStep ==
  ASSUME FlagType, [Next]_vars
  PROVE  FlagType'
<1> USE DEF FlagType
<1>1. ASSUME NEW t \in Threads, Acquire(t)
      PROVE  FlagType'
  BY <1>1 DEF Acquire
<1>2. ASSUME NEW w \in Workers, SpuriousWakeup(w)
      PROVE  FlagType'
  BY <1>2 DEF SpuriousWakeup, Wake
<1>3. ASSUME NEW w \in Workers, Top(w)
      PROVE  FlagType'
  BY <1>3 DEF Top
<1>4. ASSUME NEW w \in Workers, Wait(w)
      PROVE  FlagType'
  BY <1>4 DEF Wait, Locked
<1>5. ASSUME NEW w \in Workers, Leave(w)
      PROVE  FlagType'
  BY <1>5 DEF Leave, Locked
<1>6. CASE CameraTake \/ UsbTake
  BY <1>6 DEF CameraTake, UsbTake, Take, Locked, frame_queue_pull, Input
<1>7. CASE CameraError \/ UsbError
  BY <1>7 DEF CameraError, UsbError, Fail
<1>8. ASSUME NEW w \in Workers, Stop(w)
      PROVE  FlagType'
  BY <1>8 DEF Stop, SetShutdown, Locked, Wake
<1>9. ASSUME NEW w \in Workers, Surrender(w)
      PROVE  FlagType'
  BY <1>9 DEF Surrender, Locked, frame_queue_push
<1>10. CASE CameraTimeout \/ CameraFrame \/ PackError
  BY <1>10 DEF CameraTimeout, CameraFrame, PackError
<1>11. CASE PackFrame
  BY <1>11 DEF PackFrame
<1>12. CASE CameraPublish
  BY <1>12 DEF CameraPublish, Locked, frame_queue_push, Signal, Wake
<1>13. CASE CameraGiveBack
  BY <1>13 DEF CameraGiveBack, Locked, frame_queue_push
<1>14. CASE UsbSent
  BY <1>14 DEF UsbSent
<1>15. CASE UsbDisconnected
  BY <1>15 DEF UsbDisconnected
<1>16. CASE UsbGiveBack
  BY <1>16 DEF UsbGiveBack, Locked, frame_queue_push, Signal, Wake
<1>17. CASE QueueInit
  BY <1>17 DEF QueueInit, At, Goto, EmptyQueues
<1>18. CASE AllocateBuffers
  BY <1>18 DEF AllocateBuffers, At, Goto
<1>19. CASE FillEmptyQueue
  BY <1>19 DEF FillEmptyQueue, Locked, Goto
<1>20. CASE CreateCameraThread \/ CreateUsbThread
  BY <1>20 DEF CreateCameraThread, CreateUsbThread, At, Goto
<1>21. CASE AbortInit \/ MainStop \/ ThreadsCleanup \/ QueueCleanup
  BY <1>21 DEF AbortInit, MainStop, ThreadsCleanup, QueueCleanup, SetShutdown, Locked, Wake
<1>22. CASE AbortJoin \/ JoinCamera \/ JoinUsb
  BY <1>22 DEF AbortJoin, JoinCamera, JoinUsb, At, Goto
<1>23. CASE Monitor
  BY <1>23 DEF Monitor, At, Goto
<1>24. CASE FreeBuffers
  BY <1>24 DEF FreeBuffers, At, Goto
<1>25. CASE DestroySync
  BY <1>25 DEF DestroySync, At, Goto, EmptyQueues
<1>26. CASE SequentialMode
  BY <1>26 DEF SequentialMode, At, Goto
<1>27. CASE SignalArrives
  <2>1. /\ signals' = signals + 1 /\ running' = FALSE /\ handler' = "lock"
        /\ UNCHANGED <<mutex, live, shutdown, pool, threaded, launches>>
    BY <1>27, Zenon DEF SignalArrives
  <2>2. signals' \in Nat
    BY <2>1
  <2> QED BY <2>1, <2>2, Zenon
<1>28. CASE HandlerLock \/ HandlerLockDead
  BY <1>28 DEF HandlerLock, HandlerLockDead
<1>29. CASE HandlerShutdown
  BY <1>29 DEF HandlerShutdown, SetShutdown, Wake
<1>30. CASE Relaunch
  <2>1. /\ launches' = launches + 1 /\ signals' = 0 /\ threaded' = FALSE
        /\ UNCHANGED <<mutex, live, shutdown, pool, running, handler>>
    BY <1>30, Zenon DEF Relaunch
  <2>2. launches' \in Nat /\ signals' \in Nat
    BY <2>1
  <2> QED BY <2>1, <2>2, Zenon
<1>31. CASE UNCHANGED vars
  BY <1>31 DEF vars
<1> QED
  BY <1>1, <1>2, <1>3, <1>4, <1>5, <1>6, <1>7, <1>8, <1>9, <1>10, <1>11, <1>12, <1>13, <1>14, <1>15, <1>16, <1>17, <1>18, <1>19, <1>20, <1>21, <1>22, <1>23, <1>24, <1>25, <1>26, <1>27, <1>28, <1>29, <1>30, <1>31
  DEF Next, CameraThread, UsbThread, MainThread, SignalHandler, Terminated,
      CameraTop, CameraWait, CameraLeave, CameraStop, CameraSurrender,
      UsbTop, UsbWait, UsbLeave, UsbStop, UsbSurrender

(* A worker holds a buffer between pull and push, and at no other point.   *)
LEMMA HeldStep ==
  ASSUME PcType, StoreType, HeldInv, WaitInv, LifeInv, [Next]_vars
  PROVE  HeldInv'
<1> USE DEF PcType, HeldInv, Holding, StoreType, Buffers
<1>1. ASSUME NEW t \in Threads, Acquire(t)
      PROVE  HeldInv'
  BY <1>1 DEF Acquire
<1>2. ASSUME NEW w \in Workers, SpuriousWakeup(w)
      PROVE  HeldInv'
  BY <1>2 DEF SpuriousWakeup, Wake, WaitInv
<1>3. ASSUME NEW w \in Workers, Top(w)
      PROVE  HeldInv'
  BY <1>3 DEF Top
<1>4. ASSUME NEW w \in Workers, Wait(w)
      PROVE  HeldInv'
  BY <1>4 DEF Wait, Locked
<1>5. ASSUME NEW w \in Workers, Leave(w)
      PROVE  HeldInv'
  BY <1>5 DEF Leave, Locked
<1>6. CASE CameraTake \/ UsbTake
  <2>1. ASSUME NEW w \in Workers, Take(w, "capture") \/ Take(w, "send")
        PROVE  /\ held'[w] # NoBuffer /\ pc[w] = "lock"
               /\ \A v \in Workers \ {w} : held'[v] = held[v] /\ pc'[v] = pc[v]
               /\ pc'[w] = "capture" \/ pc'[w] = "send"
    <3>1. /\ queue[Input[w]] \in Seq(Buffers) /\ queue[Input[w]] # <<>>
      BY <2>1 DEF Take, Input
    <3>2. Head(queue[Input[w]]) \in Buffers
      BY <3>1, HeadTailProperties
    <3> QED BY <2>1, <3>2 DEF Take, Locked
  <2> QED BY <1>6, <2>1 DEF CameraTake, UsbTake, Take
<1>7. CASE CameraError \/ UsbError
  BY <1>7 DEF CameraError, UsbError, Fail
<1>8. ASSUME NEW w \in Workers, Stop(w)
      PROVE  HeldInv'
  BY <1>8 DEF Stop, SetShutdown, Locked, Wake, WaitInv
<1>9. ASSUME NEW w \in Workers, Surrender(w)
      PROVE  HeldInv'
  BY <1>9 DEF Surrender, Locked, frame_queue_push
<1>10. CASE CameraTimeout \/ CameraFrame \/ PackError
  BY <1>10 DEF CameraTimeout, CameraFrame, PackError
<1>11. CASE PackFrame
  BY <1>11 DEF PackFrame
<1>12. CASE CameraPublish
  BY <1>12 DEF CameraPublish, Locked, frame_queue_push, Signal, Wake, WaitInv
<1>13. CASE CameraGiveBack
  BY <1>13 DEF CameraGiveBack, Locked, frame_queue_push
<1>14. CASE UsbSent
  BY <1>14 DEF UsbSent
<1>15. CASE UsbDisconnected
  BY <1>15 DEF UsbDisconnected
<1>16. CASE UsbGiveBack
  BY <1>16 DEF UsbGiveBack, Locked, frame_queue_push, Signal, Wake, WaitInv
<1>17. CASE QueueInit
  BY <1>17 DEF QueueInit, At, Goto, EmptyQueues
<1>18. CASE AllocateBuffers
  BY <1>18 DEF AllocateBuffers, At, Goto
<1>19. CASE FillEmptyQueue
  BY <1>19 DEF FillEmptyQueue, Locked, Goto
<1>20. CASE CreateCameraThread \/ CreateUsbThread
  BY <1>20 DEF CreateCameraThread, CreateUsbThread, At, Goto, LifeInv, Before
<1>21. CASE AbortInit \/ MainStop \/ ThreadsCleanup \/ QueueCleanup
  BY <1>21 DEF AbortInit, MainStop, ThreadsCleanup, QueueCleanup, SetShutdown, Locked, Wake, WaitInv
<1>22. CASE AbortJoin \/ JoinCamera \/ JoinUsb
  BY <1>22 DEF AbortJoin, JoinCamera, JoinUsb, At, Goto
<1>23. CASE Monitor
  BY <1>23 DEF Monitor, At, Goto
<1>24. CASE FreeBuffers
  BY <1>24 DEF FreeBuffers, At, Goto
<1>25. CASE DestroySync
  BY <1>25 DEF DestroySync, At, Goto, EmptyQueues
<1>26. CASE SequentialMode
  BY <1>26 DEF SequentialMode, At, Goto
<1>27. CASE SignalArrives
  BY <1>27 DEF SignalArrives, At
<1>28. CASE HandlerLock \/ HandlerLockDead
  BY <1>28 DEF HandlerLock, HandlerLockDead
<1>29. CASE HandlerShutdown
  BY <1>29 DEF HandlerShutdown, SetShutdown, Wake, WaitInv
<1>30. CASE Relaunch
  BY <1>30 DEF Relaunch, At, LifeInv, After
<1>31. CASE UNCHANGED vars
  BY <1>31 DEF vars
<1> QED
  BY <1>1, <1>2, <1>3, <1>4, <1>5, <1>6, <1>7, <1>8, <1>9, <1>10, <1>11, <1>12, <1>13, <1>14, <1>15, <1>16, <1>17, <1>18, <1>19, <1>20, <1>21, <1>22, <1>23, <1>24, <1>25, <1>26, <1>27, <1>28, <1>29, <1>30, <1>31
  DEF Next, CameraThread, UsbThread, MainThread, SignalHandler, Terminated,
      CameraTop, CameraWait, CameraLeave, CameraStop, CameraSurrender,
      UsbTop, UsbWait, UsbLeave, UsbStop, UsbSurrender

(* Threads, pool and mutex keep to what the point main has reached says of *)
(* them.                                                                   *)
LEMMA LifeStep ==
  ASSUME PcType, WaitInv, LifeInv, [Next]_vars
  PROVE  LifeInv'
<1> USE DEF PcType, LifeInv, Before, Operating, After, WorkerPoints, MainPoints
<1>1. ASSUME NEW t \in Threads, Acquire(t)
      PROVE  LifeInv'
  BY <1>1 DEF Acquire
<1>2. ASSUME NEW w \in Workers, SpuriousWakeup(w)
      PROVE  LifeInv'
  BY <1>2 DEF SpuriousWakeup, Wake, WaitInv
<1>3. ASSUME NEW w \in Workers, Top(w)
      PROVE  LifeInv'
  BY <1>3 DEF Top
<1>4. ASSUME NEW w \in Workers, Wait(w)
      PROVE  LifeInv'
  BY <1>4 DEF Wait, Locked
<1>5. ASSUME NEW w \in Workers, Leave(w)
      PROVE  LifeInv'
  BY <1>5 DEF Leave, Locked
<1>6. CASE CameraTake \/ UsbTake
  BY <1>6 DEF CameraTake, UsbTake, Take, Locked, frame_queue_pull, Input
<1>7. CASE CameraError \/ UsbError
  BY <1>7 DEF CameraError, UsbError, Fail
<1>8. ASSUME NEW w \in Workers, Stop(w)
      PROVE  LifeInv'
  BY <1>8 DEF Stop, SetShutdown, Locked, Wake, WaitInv
<1>9. ASSUME NEW w \in Workers, Surrender(w)
      PROVE  LifeInv'
  BY <1>9 DEF Surrender, Locked, frame_queue_push
<1>10. CASE CameraTimeout \/ CameraFrame \/ PackError
  BY <1>10 DEF CameraTimeout, CameraFrame, PackError
<1>11. CASE PackFrame
  BY <1>11 DEF PackFrame
<1>12. CASE CameraPublish
  BY <1>12 DEF CameraPublish, Locked, frame_queue_push, Signal, Wake, WaitInv
<1>13. CASE CameraGiveBack
  BY <1>13 DEF CameraGiveBack, Locked, frame_queue_push
<1>14. CASE UsbSent
  BY <1>14 DEF UsbSent
<1>15. CASE UsbDisconnected
  BY <1>15 DEF UsbDisconnected
<1>16. CASE UsbGiveBack
  BY <1>16 DEF UsbGiveBack, Locked, frame_queue_push, Signal, Wake, WaitInv
<1>17. CASE QueueInit
  BY <1>17 DEF QueueInit, At, Goto, EmptyQueues
<1>18. CASE AllocateBuffers
  BY <1>18 DEF AllocateBuffers, At, Goto
<1>19. CASE FillEmptyQueue
  BY <1>19 DEF FillEmptyQueue, Locked, Goto
<1>20. CASE CreateCameraThread \/ CreateUsbThread
  BY <1>20 DEF CreateCameraThread, CreateUsbThread, At, Goto
<1>21. CASE AbortInit \/ MainStop \/ ThreadsCleanup \/ QueueCleanup
  BY <1>21 DEF AbortInit, MainStop, ThreadsCleanup, QueueCleanup, SetShutdown, Locked, Wake, WaitInv
<1>22. CASE AbortJoin \/ JoinCamera \/ JoinUsb
  BY <1>22 DEF AbortJoin, JoinCamera, JoinUsb, At, Goto
<1>23. CASE Monitor
  BY <1>23 DEF Monitor, At, Goto
<1>24. CASE FreeBuffers
  BY <1>24 DEF FreeBuffers, At, Goto
<1>25. CASE DestroySync
  BY <1>25 DEF DestroySync, At, Goto, EmptyQueues
<1>26. CASE SequentialMode
  BY <1>26 DEF SequentialMode, At, Goto
<1>27. CASE SignalArrives
  BY <1>27 DEF SignalArrives, At
<1>28. CASE HandlerLock \/ HandlerLockDead
  BY <1>28 DEF HandlerLock, HandlerLockDead
<1>29. CASE HandlerShutdown
  BY <1>29 DEF HandlerShutdown, SetShutdown, Wake, WaitInv
<1>30. CASE Relaunch
  BY <1>30 DEF Relaunch, At
<1>31. CASE UNCHANGED vars
  BY <1>31 DEF vars
<1> QED
  BY <1>1, <1>2, <1>3, <1>4, <1>5, <1>6, <1>7, <1>8, <1>9, <1>10, <1>11, <1>12, <1>13, <1>14, <1>15, <1>16, <1>17, <1>18, <1>19, <1>20, <1>21, <1>22, <1>23, <1>24, <1>25, <1>26, <1>27, <1>28, <1>29, <1>30, <1>31
  DEF Next, CameraThread, UsbThread, MainThread, SignalHandler, Terminated,
      CameraTop, CameraWait, CameraLeave, CameraStop, CameraSurrender,
      UsbTop, UsbWait, UsbLeave, UsbStop, UsbSurrender

(* The mutex passes only to threads at a point where they may own it.      *)
LEMMA MutexStep ==
  ASSUME PcType, FlagType, WaitInv, LifeInv, MutexInv, [Next]_vars
  PROVE  MutexInv'
<1> USE DEF PcType, FlagType, MutexInv, LockPoints, WorkerPoints, MainPoints
<1>1. ASSUME NEW t \in Threads, Acquire(t)
      PROVE  MutexInv'
  BY <1>1 DEF Acquire, LifeInv, Before, After
<1>2. ASSUME NEW w \in Workers, SpuriousWakeup(w)
      PROVE  MutexInv'
  BY <1>2 DEF SpuriousWakeup, Wake, WaitInv
<1>3. ASSUME NEW w \in Workers, Top(w)
      PROVE  MutexInv'
  BY <1>3 DEF Top
<1>4. ASSUME NEW w \in Workers, Wait(w)
      PROVE  MutexInv'
  BY <1>4 DEF Wait, Locked
<1>5. ASSUME NEW w \in Workers, Leave(w)
      PROVE  MutexInv'
  BY <1>5 DEF Leave, Locked
<1>6. CASE CameraTake \/ UsbTake
  BY <1>6 DEF CameraTake, UsbTake, Take, Locked, frame_queue_pull, Input
<1>7. CASE CameraError \/ UsbError
  BY <1>7 DEF CameraError, UsbError, Fail
<1>8. ASSUME NEW w \in Workers, Stop(w)
      PROVE  MutexInv'
  BY <1>8 DEF Stop, SetShutdown, Locked, Wake, WaitInv
<1>9. ASSUME NEW w \in Workers, Surrender(w)
      PROVE  MutexInv'
  BY <1>9 DEF Surrender, Locked, frame_queue_push
<1>10. CASE CameraTimeout \/ CameraFrame \/ PackError
  BY <1>10 DEF CameraTimeout, CameraFrame, PackError
<1>11. CASE PackFrame
  BY <1>11 DEF PackFrame
<1>12. CASE CameraPublish
  BY <1>12 DEF CameraPublish, Locked, frame_queue_push, Signal, Wake, WaitInv
<1>13. CASE CameraGiveBack
  BY <1>13 DEF CameraGiveBack, Locked, frame_queue_push
<1>14. CASE UsbSent
  BY <1>14 DEF UsbSent
<1>15. CASE UsbDisconnected
  BY <1>15 DEF UsbDisconnected
<1>16. CASE UsbGiveBack
  BY <1>16 DEF UsbGiveBack, Locked, frame_queue_push, Signal, Wake, WaitInv
<1>17. CASE QueueInit
  BY <1>17 DEF QueueInit, At, Goto, EmptyQueues, LifeInv
<1>18. CASE AllocateBuffers
  BY <1>18 DEF AllocateBuffers, At, Goto
<1>19. CASE FillEmptyQueue
  BY <1>19 DEF FillEmptyQueue, Locked, Goto
<1>20. CASE CreateCameraThread \/ CreateUsbThread
  BY <1>20 DEF CreateCameraThread, CreateUsbThread, At, Goto, LifeInv, Before
<1>21. CASE AbortInit \/ MainStop \/ ThreadsCleanup \/ QueueCleanup
  BY <1>21 DEF AbortInit, MainStop, ThreadsCleanup, QueueCleanup, SetShutdown, Locked, Wake, WaitInv
<1>22. CASE AbortJoin \/ JoinCamera \/ JoinUsb
  BY <1>22 DEF AbortJoin, JoinCamera, JoinUsb, At, Goto
<1>23. CASE Monitor
  BY <1>23 DEF Monitor, At, Goto
<1>24. CASE FreeBuffers
  BY <1>24 DEF FreeBuffers, At, Goto
<1>25. CASE DestroySync
  BY <1>25 DEF DestroySync, At, Goto, EmptyQueues, LifeInv, Before, After
<1>26. CASE SequentialMode
  BY <1>26 DEF SequentialMode, At, Goto
<1>27. CASE SignalArrives
  BY <1>27 DEF SignalArrives, At
<1>28. CASE HandlerLock \/ HandlerLockDead
  BY <1>28 DEF HandlerLock, HandlerLockDead
<1>29. CASE HandlerShutdown
  BY <1>29 DEF HandlerShutdown, SetShutdown, Wake, WaitInv
<1>30. CASE Relaunch
  BY <1>30 DEF Relaunch, At, LifeInv
<1>31. CASE UNCHANGED vars
  BY <1>31 DEF vars
<1> QED
  BY <1>1, <1>2, <1>3, <1>4, <1>5, <1>6, <1>7, <1>8, <1>9, <1>10, <1>11, <1>12, <1>13, <1>14, <1>15, <1>16, <1>17, <1>18, <1>19, <1>20, <1>21, <1>22, <1>23, <1>24, <1>25, <1>26, <1>27, <1>28, <1>29, <1>30, <1>31
  DEF Next, CameraThread, UsbThread, MainThread, SignalHandler, Terminated,
      CameraTop, CameraWait, CameraLeave, CameraStop, CameraSurrender,
      UsbTop, UsbWait, UsbLeave, UsbStop, UsbSurrender

(* No step leaves a worker asleep with work to do and no wake-up under     *)
(* way.                                                                    *)
LEMMA WaitStep ==
  ASSUME PcType, StoreType, FlagType, WaitInv, LifeInv, HeldInv, [Next]_vars
  PROVE  WaitInv'
<1> USE DEF PcType, WaitInv
<1>q. /\ queue \in [Queues -> Seq(Buffers)] /\ held \in [Workers -> Buffers \cup {NoBuffer}]
  BY DEF StoreType
<1>i. /\ Input["camera"] = "empty" /\ Input["usb"] = "action"
  BY DEF Input
<1>1. ASSUME NEW t \in Threads, Acquire(t)
      PROVE  WaitInv'
  BY <1>1, <1>q, <1>i DEF Acquire
<1>2. ASSUME NEW w \in Workers, SpuriousWakeup(w)
      PROVE  WaitInv'
  BY <1>2, <1>q, <1>i DEF SpuriousWakeup, Wake
<1>3. ASSUME NEW w \in Workers, Top(w)
      PROVE  WaitInv'
  BY <1>3, <1>q, <1>i DEF Top
<1>4. ASSUME NEW w \in Workers, Wait(w)
      PROVE  WaitInv'
  BY <1>4, <1>q, <1>i DEF Wait, Locked
<1>5. ASSUME NEW w \in Workers, Leave(w)
      PROVE  WaitInv'
  BY <1>5, <1>q, <1>i DEF Leave, Locked
<1>6. CASE CameraTake \/ UsbTake
  <2>1. CASE CameraTake
    BY <2>1, <1>q, <1>i DEF CameraTake, Take, Locked, frame_queue_pull
  <2>2. CASE UsbTake
    BY <2>2, <1>q, <1>i DEF UsbTake, Take, Locked, frame_queue_pull
  <2> QED BY <1>6, <2>1, <2>2
<1>7. CASE CameraError \/ UsbError
  <2>1. CASE CameraError
    BY <2>1, <1>q, <1>i DEF CameraError, Fail
  <2>2. CASE UsbError
    BY <2>2, <1>q, <1>i DEF UsbError, Fail
  <2> QED BY <1>7, <2>1, <2>2
<1>8. ASSUME NEW w \in Workers, Stop(w)
      PROVE  WaitInv'
  BY <1>8, <1>q, <1>i DEF Stop, SetShutdown, Locked, Wake
<1>9. ASSUME NEW w \in Workers, Surrender(w)
      PROVE  WaitInv'
  BY <1>9, <1>q, <1>i DEF Surrender, Locked, frame_queue_push
<1>10. CASE CameraTimeout \/ CameraFrame \/ PackError
  <2>1. CASE CameraTimeout
    BY <2>1, <1>q, <1>i DEF CameraTimeout
  <2>2. CASE CameraFrame
    BY <2>2, <1>q, <1>i DEF CameraFrame
  <2>3. CASE PackError
    BY <2>3, <1>q, <1>i DEF PackError
  <2> QED BY <1>10, <2>1, <2>2, <2>3
<1>11. CASE PackFrame
  BY <1>11, <1>q, <1>i DEF PackFrame
<1>12. CASE CameraPublish
  <2>1. waiters \in {{}, {"usb"}} /\ "camera" \notin waiters
    BY <1>12 DEF CameraPublish, Locked
  <2>2. Wake(waiters, [pc EXCEPT !["camera"] = "top"])
    <3>1. CASE waiters = {}
      BY <3>1, <1>12 DEF CameraPublish, Signal
    <3>2. CASE waiters = {"usb"}
      BY <3>2, <1>12 DEF CameraPublish, Signal
    <3> QED BY <2>1, <3>1, <3>2
  <2>3. /\ waiters' = {}
        /\ pc'["camera"] = "top"
        /\ pc'["usb"] = IF "usb" \in waiters THEN "lock" ELSE pc["usb"]
    BY <2>1, <2>2 DEF Wake
  <2>4. /\ queue'["action"] = Append(queue["action"], held["camera"])
        /\ queue'["empty"] = queue["empty"]
        /\ UNCHANGED shutdown
    BY <1>12, <1>q DEF CameraPublish, frame_queue_push
  <2> QED BY <2>3, <2>4
<1>13. CASE CameraGiveBack
  BY <1>13, <1>q, <1>i DEF CameraGiveBack, Locked, frame_queue_push
<1>14. CASE UsbSent
  BY <1>14, <1>q, <1>i DEF UsbSent
<1>15. CASE UsbDisconnected
  BY <1>15, <1>q, <1>i DEF UsbDisconnected
<1>16. CASE UsbGiveBack
  <2>1. waiters \in {{}, {"camera"}} /\ "usb" \notin waiters
    BY <1>16 DEF UsbGiveBack, Locked
  <2>2. Wake(waiters, [pc EXCEPT !["usb"] = "top"])
    <3>1. CASE waiters = {}
      BY <3>1, <1>16 DEF UsbGiveBack, Signal
    <3>2. CASE waiters = {"camera"}
      BY <3>2, <1>16 DEF UsbGiveBack, Signal
    <3> QED BY <2>1, <3>1, <3>2
  <2>3. /\ waiters' = {}
        /\ pc'["usb"] = "top"
        /\ pc'["camera"] = IF "camera" \in waiters THEN "lock" ELSE pc["camera"]
    BY <2>1, <2>2 DEF Wake
  <2>4. /\ queue'["empty"] = Append(queue["empty"], held["usb"])
        /\ queue'["action"] = queue["action"]
        /\ UNCHANGED shutdown
    BY <1>16, <1>q DEF UsbGiveBack, frame_queue_push
  <2> QED BY <2>3, <2>4
<1>17. CASE QueueInit
  BY <1>17, <1>q, <1>i DEF QueueInit, At, Goto, EmptyQueues, LifeInv, Before
<1>18. CASE AllocateBuffers
  BY <1>18, <1>q, <1>i DEF AllocateBuffers, At, Goto
<1>19. CASE FillEmptyQueue
  BY <1>19, <1>q, <1>i DEF FillEmptyQueue, Locked, Goto, LifeInv, Before
<1>20. CASE CreateCameraThread \/ CreateUsbThread
  <2>1. CASE CreateCameraThread
    BY <2>1, <1>q, <1>i DEF CreateCameraThread, At, Goto, LifeInv, Before
  <2>2. CASE CreateUsbThread
    BY <2>2, <1>q, <1>i DEF CreateUsbThread, At, Goto, LifeInv, Before
  <2> QED BY <1>20, <2>1, <2>2
<1>21. CASE AbortInit \/ MainStop \/ ThreadsCleanup \/ QueueCleanup
  BY <1>21, <1>q, <1>i DEF AbortInit, MainStop, ThreadsCleanup, QueueCleanup, SetShutdown, Locked, Wake
<1>22. CASE AbortJoin \/ JoinCamera \/ JoinUsb
  <2>1. CASE AbortJoin
    BY <2>1, <1>q, <1>i DEF AbortJoin, At, Goto
  <2>2. CASE JoinCamera
    BY <2>2, <1>q, <1>i DEF JoinCamera, At, Goto
  <2>3. CASE JoinUsb
    BY <2>3, <1>q, <1>i DEF JoinUsb, At, Goto
  <2> QED BY <1>22, <2>1, <2>2, <2>3
<1>23. CASE Monitor
  BY <1>23, <1>q, <1>i DEF Monitor, At, Goto
<1>24. CASE FreeBuffers
  BY <1>24, <1>q, <1>i DEF FreeBuffers, At, Goto
<1>25. CASE DestroySync
  BY <1>25, <1>q, <1>i DEF DestroySync, At, Goto, EmptyQueues
<1>26. CASE SequentialMode
  BY <1>26, <1>q, <1>i DEF SequentialMode, At, Goto
<1>27. CASE SignalArrives
  BY <1>27, <1>q, <1>i DEF SignalArrives, At
<1>28. CASE HandlerLock \/ HandlerLockDead
  <2>1. CASE HandlerLock
    BY <2>1, <1>q, <1>i DEF HandlerLock
  <2>2. CASE HandlerLockDead
    BY <2>2, <1>q, <1>i DEF HandlerLockDead
  <2> QED BY <1>28, <2>1, <2>2
<1>29. CASE HandlerShutdown
  BY <1>29, <1>q, <1>i DEF HandlerShutdown, SetShutdown, Wake
<1>30. CASE Relaunch
  BY <1>30 DEF Relaunch, At, LifeInv, After
<1>31. CASE UNCHANGED vars
  BY <1>31, <1>q, <1>i DEF vars
<1> QED
  BY <1>1, <1>2, <1>3, <1>4, <1>5, <1>6, <1>7, <1>8, <1>9, <1>10, <1>11, <1>12, <1>13, <1>14, <1>15, <1>16, <1>17, <1>18, <1>19, <1>20, <1>21, <1>22, <1>23, <1>24, <1>25, <1>26, <1>27, <1>28, <1>29, <1>30, <1>31
  DEF Next, CameraThread, UsbThread, MainThread, SignalHandler, Terminated,
      CameraTop, CameraWait, CameraLeave, CameraStop, CameraSurrender,
      UsbTop, UsbWait, UsbLeave, UsbStop, UsbSurrender

-----------------------------------------------------------------------------
(* Conservation of the buffers.                                            *)

Elements(s) == {s[i] : i \in DOMAIN s}
Distinct(s) == \A i, j \in DOMAIN s : s[i] = s[j] => i = j

(* A buffer that is queued joins the elements of the queue.                *)
LEMMA AppendElements ==
  ASSUME NEW S, NEW s \in Seq(S), NEW x \in S
  PROVE  /\ Elements(Append(s, x)) = Elements(s) \cup {x}
         /\ Distinct(s) /\ x \notin Elements(s) => Distinct(Append(s, x))
<1>1. /\ DOMAIN s = 1 .. Len(s) /\ Len(s) \in Nat
      /\ DOMAIN Append(s, x) = 1 .. Len(s) + 1
      /\ \A i \in 1 .. Len(s) : Append(s, x)[i] = s[i]
      /\ Append(s, x)[Len(s) + 1] = x
  OBVIOUS
<1>2. Elements(Append(s, x)) = Elements(s) \cup {x}
  BY <1>1 DEF Elements
<1>3. Distinct(s) /\ x \notin Elements(s) => Distinct(Append(s, x))
  BY <1>1 DEF Elements, Distinct
<1> QED BY <1>2, <1>3

(* The buffer that is taken leaves the elements of the queue.              *)
LEMMA TailElements ==
  ASSUME NEW S, NEW s \in Seq(S), s # <<>>, Distinct(s)
  PROVE  /\ Head(s) \in Elements(s)
         /\ Elements(Tail(s)) = Elements(s) \ {Head(s)}
         /\ Distinct(Tail(s))
<1>1. /\ DOMAIN s = 1 .. Len(s) /\ Len(s) \in Nat \ {0}
      /\ Head(s) = s[1]
      /\ DOMAIN Tail(s) = 1 .. Len(s) - 1
      /\ \A i \in 1 .. Len(s) - 1 : Tail(s)[i] = s[i + 1]
  BY HeadTailProperties, EmptySeq, LenProperties
<1>2. Head(s) \in Elements(s)
  BY <1>1 DEF Elements
<1>3. ASSUME NEW y \in Elements(Tail(s)) PROVE y \in Elements(s) \ {Head(s)}
  BY <1>1, <1>3 DEF Elements, Distinct
<1>4. ASSUME NEW y \in Elements(s) \ {Head(s)} PROVE y \in Elements(Tail(s))
  <2>1. PICK i \in 1 .. Len(s) : y = s[i] /\ i # 1
    BY <1>1, <1>4 DEF Elements
  <2>2. i - 1 \in 1 .. Len(s) - 1 /\ Tail(s)[i - 1] = y
    BY <1>1, <2>1
  <2> QED BY <1>1, <2>2 DEF Elements
<1>5. Distinct(Tail(s))
  BY <1>1 DEF Distinct
<1> QED BY <1>2, <1>3, <1>4, <1>5

(* FlowInv for any contents qs of the queues and any hands hs: who owns b, *)
(* that each buffer has at most one owner and stands at most once in its   *)
(* queue, and that no buffer is missing.                                   *)
OwnersIn(qs, hs, b) == {q \in Queues : b \in Elements(qs[q])}
                       \cup {w \in Workers : hs[w] = b}
Once(qs, hs) == /\ \A q \in Queues : Distinct(qs[q])
                /\ \A b \in Buffers : \A x, y \in OwnersIn(qs, hs, b) : x = y
Complete(qs, hs) == \A b \in Buffers : OwnersIn(qs, hs, b) # {}

(* Owners, before and after the step, as functions of queues and hands.    *)
LEMMA OwnersInNow ==
  /\ \A b : Owners(b) = OwnersIn(queue, held, b)
  /\ \A b : Owners(b)' = OwnersIn(queue', held', b)
BY DEF Owners, Content, Elements, OwnersIn

FlowOf(qs, hs, main) ==
  /\ Once(qs, hs)
  /\ main \in {"init", "allocate", "fill", "sequential", "done"}
       => qs = EmptyQueues
  /\ main \in Operating => Complete(qs, hs)

(* FlowInv, before and after the step, as a function of queues and hands.  *)
LEMMA FlowParts ==
  /\ FlowInv <=> FlowOf(queue, held, pc["main"])
  /\ FlowInv' <=> FlowOf(queue', held', pc'["main"])
<1>1. FlowInv <=> FlowOf(queue, held, pc["main"])
  BY OwnersInNow DEF FlowInv, FlowOf, Once, Complete, Distinct
<1>2. FlowInv' <=> FlowOf(queue', held', pc'["main"])
  BY DEF Owners, Content, Elements, OwnersIn, FlowInv, FlowOf, Once, Complete, Distinct
<1> QED BY <1>1, <1>2

(* A thread that pushes the buffer h it holds moves that buffer only.      *)
LEMMA PushMoves ==
  ASSUME NEW qs \in [Queues -> Seq(Buffers)], NEW q \in Queues,
         NEW hs \in [Workers -> Buffers \cup {NoBuffer}], NEW w \in Workers,
         NEW h \in Buffers, hs[w] = h, Once(qs, hs)
  PROVE  LET qs2 == [qs EXCEPT ![q] = Append(@, h)]
             hs2 == [hs EXCEPT ![w] = NoBuffer]
         IN  Once(qs2, hs2) /\ (Complete(qs, hs) => Complete(qs2, hs2))
<1> DEFINE qs2 == [qs EXCEPT ![q] = Append(@, h)]
           hs2 == [hs EXCEPT ![w] = NoBuffer]
<1>1. /\ \A r \in Queues : h \notin Elements(qs[r])
      /\ \A v \in Workers \ {w} : hs[v] # h
  BY DEF Once, OwnersIn
<1>2. /\ Distinct(qs2[q])
      /\ Elements(qs2[q]) = Elements(qs[q]) \cup {h}
  <2>1. Distinct(qs[q]) /\ qs[q] \in Seq(Buffers) /\ qs2[q] = Append(qs[q], h)
    BY DEF Once
  <2> QED BY <2>1, <1>1, AppendElements
<1>3. \A r \in Queues \ {q} : qs2[r] = qs[r]
  OBVIOUS
<1>4. \A v \in Workers : hs2[v] = IF v = w THEN NoBuffer ELSE hs[v]
  OBVIOUS
<1> HIDE DEF qs2, hs2
<1>5. \A r \in Queues : Distinct(qs2[r])
  BY <1>2, <1>3 DEF Once
<1>6. OwnersIn(qs2, hs2, h) = {q}
  BY <1>1, <1>2, <1>3, <1>4 DEF OwnersIn, Buffers
<1>7. \A b \in Buffers \ {h} : OwnersIn(qs2, hs2, b) = OwnersIn(qs, hs, b)
  BY <1>2, <1>3, <1>4 DEF OwnersIn, Buffers
<1>8. Once(qs2, hs2)
  BY <1>5, <1>6, <1>7 DEF Once
<1>9. Complete(qs, hs) => Complete(qs2, hs2)
  BY <1>6, <1>7 DEF Complete
<1> QED BY <1>8, <1>9 DEF qs2, hs2

(* A thread that pulls a buffer into its empty hands moves that one only.  *)
LEMMA PullMoves ==
  ASSUME NEW qs \in [Queues -> Seq(Buffers)], NEW q \in Queues,
         NEW hs \in [Workers -> Buffers \cup {NoBuffer}], NEW w \in Workers,
         hs[w] = NoBuffer, qs[q] # <<>>, Once(qs, hs)
  PROVE  LET qs2 == [qs EXCEPT ![q] = Tail(@)]
             hs2 == [hs EXCEPT ![w] = Head(qs[q])]
         IN  Once(qs2, hs2) /\ (Complete(qs, hs) => Complete(qs2, hs2))
<1> DEFINE h == Head(qs[q])
           qs2 == [qs EXCEPT ![q] = Tail(@)]
           hs2 == [hs EXCEPT ![w] = h]
<1>1. h \in Buffers
  BY HeadTailProperties
<1>2. /\ h \in Elements(qs[q])
      /\ Distinct(qs2[q])
      /\ Elements(qs2[q]) = Elements(qs[q]) \ {h}
  <2>1. Distinct(qs[q]) /\ qs[q] \in Seq(Buffers) /\ qs2[q] = Tail(qs[q])
    BY DEF Once
  <2> QED BY <2>1, TailElements
<1>3. \A r \in Queues \ {q} : qs2[r] = qs[r]
  OBVIOUS
<1>4. \A v \in Workers : hs2[v] = IF v = w THEN h ELSE hs[v]
  OBVIOUS
<1> HIDE DEF h, qs2, hs2
<1>5. /\ \A r \in Queues \ {q} : h \notin Elements(qs[r])
      /\ \A v \in Workers : hs[v] # h
  BY <1>1, <1>2 DEF Once, OwnersIn
<1>6. \A r \in Queues : Distinct(qs2[r])
  BY <1>2, <1>3 DEF Once
<1>7. OwnersIn(qs2, hs2, h) = {w}
  BY <1>2, <1>3, <1>4, <1>5 DEF OwnersIn
<1>8. \A b \in Buffers \ {h} : OwnersIn(qs2, hs2, b) = OwnersIn(qs, hs, b)
  BY <1>2, <1>3, <1>4 DEF OwnersIn, Buffers
<1>9. Once(qs2, hs2)
  BY <1>6, <1>7, <1>8 DEF Once
<1>10. Complete(qs, hs) => Complete(qs2, hs2)
  BY <1>7, <1>8 DEF Complete
<1> QED BY <1>9, <1>10 DEF qs2, hs2, h

(* Every step moves at most one buffer, from one place to one place.       *)
LEMMA FlowStep ==
  ASSUME PcType, StoreType, WaitInv, LifeInv, HeldInv, FlowInv, [Next]_vars
  PROVE  FlowInv'
<1> SUFFICES FlowOf(queue', held', pc'["main"])
  BY FlowParts
<1>a. FlowOf(queue, held, pc["main"])
  BY FlowParts
<1>b. /\ queue \in [Queues -> Seq(Buffers)]
      /\ held \in [Workers -> Buffers \cup {NoBuffer}]
      /\ pc \in [Threads -> WorkerPoints \cup MainPoints]
      /\ waiters \in SUBSET Workers
  BY DEF StoreType, PcType
<1>c. \A w \in Workers : pc[w] \notin {"none", "exited"} => pc["main"] \in Operating
  BY DEF LifeInv, PcType, WorkerPoints, MainPoints, Before, After, Operating
<1>d. pc["main"] \notin Operating => held = [w \in Workers |-> NoBuffer]
  BY <1>b, <1>c DEF HeldInv, Holding, PcType
<1>1. ASSUME UNCHANGED <<queue, held>>,
             pc'["main"] \in {"init", "allocate", "fill", "sequential", "done"}
               => pc["main"] \in {"init", "allocate", "fill", "sequential", "done"},
             pc'["main"] \in Operating => pc["main"] \in Operating
      PROVE  FlowOf(queue', held', pc'["main"])
  BY <1>a, <1>1 DEF FlowOf
<1>2. ASSUME NEW w \in Workers, NEW q \in Queues, pc[w] \in Holding,
             frame_queue_push(q, held[w]),
             held' = [held EXCEPT ![w] = NoBuffer],
             pc'["main"] = pc["main"]
      PROVE  FlowOf(queue', held', pc'["main"])
  <2>1. held[w] \in Buffers /\ pc["main"] \in Operating
    BY <1>2, <1>b, <1>c DEF HeldInv, Holding
  <2>2. /\ queue' = [queue EXCEPT ![q] = Append(@, held[w])]
        /\ Once(queue, held) /\ Complete(queue, held)
    BY <1>a, <1>2, <2>1 DEF FlowOf, frame_queue_push
  <2>3. Once(queue', held') /\ Complete(queue', held')
    BY <2>1, <2>2, <1>b, <1>2, PushMoves
  <2> QED BY <2>1, <2>3, <1>2 DEF FlowOf, Operating
<1>3. ASSUME NEW w \in Workers, NEW p, Take(w, p)
      PROVE  FlowOf(queue', held', pc'["main"])
  <2>1. /\ held[w] = NoBuffer /\ Input[w] \in Queues
        /\ queue[Input[w]] # <<>>
        /\ pc'["main"] = pc["main"] /\ pc["main"] \in Operating
    BY <1>3, <1>b, <1>c DEF HeldInv, Holding, Take, Locked, Input
  <2>2. /\ queue' = [queue EXCEPT ![Input[w]] = Tail(@)]
        /\ held' = [held EXCEPT ![w] = Head(queue[Input[w]])]
        /\ Once(queue, held) /\ Complete(queue, held)
    BY <1>a, <1>3, <2>1 DEF FlowOf, Take, frame_queue_pull
  <2>3. Once(queue', held') /\ Complete(queue', held')
    BY <2>1, <2>2, <1>b, PullMoves
  <2> QED BY <2>1, <2>3 DEF FlowOf, Operating
<1>4. ASSUME queue' = EmptyQueues, UNCHANGED held,
             pc["main"] \notin Operating, pc'["main"] \notin Operating
      PROVE  FlowOf(queue', held', pc'["main"])
  BY <1>4, <1>d DEF FlowOf, Once, OwnersIn, Distinct, Elements, EmptyQueues, Buffers
<1>5. CASE FillEmptyQueue
  <2> DEFINE all == [b \in Buffers |-> b]
  <2>1. queue = EmptyQueues /\ held = [w \in Workers |-> NoBuffer]
    BY <1>5, <1>a, <1>d DEF FillEmptyQueue, Locked, FlowOf, Operating
  <2>2. all \in Seq(Buffers) /\ <<>> \o all = all
    BY NumBuffersAssumption DEF Buffers
  <2>3. queue'["empty"] = all /\ queue'["action"] = <<>> /\ held' = held
    BY <1>5, <2>1, <2>2 DEF FillEmptyQueue, EmptyQueues
  <2>4. Distinct(all) /\ Elements(all) = Buffers /\ Distinct(<<>>) /\ Elements(<<>>) = {}
    BY DEF Distinct, Elements
  <2> HIDE DEF all
  <2>5. \A b \in Buffers : OwnersIn(queue', held', b) = {"empty"}
    <3> SUFFICES ASSUME NEW b \in Buffers PROVE OwnersIn(queue', held', b) = {"empty"}
      OBVIOUS
    <3>1. \A q \in Queues : b \in Elements(queue'[q]) <=> q = "empty"
      BY <2>3, <2>4
    <3>2. \A w \in Workers : held'[w] # b
      BY <2>1, <2>3 DEF Buffers
    <3> QED BY <3>1, <3>2 DEF OwnersIn
  <2>6. pc'["main"] = "createCamera"
    BY <1>5, <1>b DEF FillEmptyQueue, Goto
  <2> QED BY <2>3, <2>4, <2>5, <2>6 DEF FlowOf, Once, Complete
<1> USE <1>b
<1>6. CASE \E w \in Workers : Surrender(w)
  BY <1>6, <1>2 DEF Surrender, Locked, Holding
<1>7. CASE CameraPublish
  <2>1. PICK woken \in SUBSET waiters : Wake(woken, [pc EXCEPT !["camera"] = "top"])
    BY <1>7 DEF CameraPublish, Signal
  <2>2. pc'["main"] = pc["main"]
    BY <2>1, <1>b DEF Wake
  <2> QED BY <1>7, <1>2, <2>2 DEF CameraPublish, Locked, Holding
<1>8. CASE UsbGiveBack
  <2>1. PICK woken \in SUBSET waiters : Wake(woken, [pc EXCEPT !["usb"] = "top"])
    BY <1>8 DEF UsbGiveBack, Signal
  <2>2. pc'["main"] = pc["main"]
    BY <2>1, <1>b DEF Wake
  <2> QED BY <1>8, <1>2, <2>2 DEF UsbGiveBack, Locked, Holding
<1>9. CASE CameraGiveBack
  BY <1>9, <1>2 DEF CameraGiveBack, Locked, Holding
<1>10. CASE QueueInit \/ DestroySync
  BY <1>10, <1>4 DEF QueueInit, DestroySync, At, Goto, Operating
<1>11. CASE \E t \in Threads : Acquire(t)
  BY <1>11, <1>1 DEF Acquire
<1>12. CASE \E w \in Workers : SpuriousWakeup(w)
  BY <1>12, <1>1 DEF SpuriousWakeup, Wake
<1>13. CASE \E w \in Workers : Top(w) \/ Wait(w) \/ Leave(w)
  BY <1>13, <1>1 DEF Top, Wait, Leave, Locked
<1>14. CASE \E w \in Workers : Stop(w)
  BY <1>14, <1>1 DEF Stop, SetShutdown, Wake, WaitInv
<1>15. CASE CameraError \/ UsbError
  BY <1>15, <1>1 DEF CameraError, UsbError, Fail
<1>16. CASE CameraTimeout \/ CameraFrame \/ PackError \/ PackFrame
            \/ UsbSent \/ UsbDisconnected
  BY <1>16, <1>1 DEF CameraTimeout, CameraFrame, PackError, PackFrame,
                     UsbSent, UsbDisconnected
<1>17. CASE AllocateBuffers \/ CreateCameraThread \/ CreateUsbThread
  BY <1>17, <1>1 DEF AllocateBuffers, CreateCameraThread, CreateUsbThread,
                     At, Goto, Operating
<1>18. CASE AbortInit \/ MainStop \/ ThreadsCleanup \/ QueueCleanup
  BY <1>18, <1>1 DEF AbortInit, MainStop, ThreadsCleanup, QueueCleanup,
                     SetShutdown, Wake, Locked, Operating, PcType, WorkerPoints
<1>19. CASE AbortJoin \/ Monitor \/ JoinCamera \/ JoinUsb \/ FreeBuffers
            \/ SequentialMode
  BY <1>19, <1>1 DEF AbortJoin, Monitor, JoinCamera, JoinUsb, FreeBuffers,
                     SequentialMode, At, Goto, Operating
<1>20. CASE SignalArrives \/ HandlerLock \/ HandlerLockDead
  BY <1>20, <1>1 DEF SignalArrives, HandlerLock, HandlerLockDead
<1>21. CASE HandlerShutdown
  BY <1>21, <1>1 DEF HandlerShutdown, SetShutdown, Wake, PcType
<1>22. CASE Relaunch
  BY <1>22, <1>1 DEF Relaunch, At, Operating
<1>23. CASE UNCHANGED vars
  BY <1>23, <1>1 DEF vars
<1> QED
  BY <1>3, <1>5, <1>6, <1>7, <1>8, <1>9, <1>10, <1>11, <1>12, <1>13, <1>14,
     <1>15, <1>16, <1>17, <1>18, <1>19, <1>20, <1>21, <1>22, <1>23
  DEF Next, CameraThread, UsbThread, MainThread, SignalHandler, Terminated,
      CameraTop, CameraWait, CameraLeave, CameraTake, CameraStop,
      CameraSurrender, UsbTop, UsbWait, UsbLeave, UsbTake, UsbStop, UsbSurrender

-----------------------------------------------------------------------------
(* The invariant and what follows from it.                                 *)

(* The program starts with no buffers, no threads and no mutex.            *)
LEMMA Initially == Init => IInv
<1> SUFFICES ASSUME Init PROVE IInv
  OBVIOUS
<1>1. PcType
  BY DEF Init, PcType, WorkerPoints, MainPoints
<1>2. StoreType
  BY DEF Init, StoreType, EmptyQueues
<1>3. FlagType
  BY DEF Init, FlagType
<1>4. MutexInv
  BY DEF Init, MutexInv
<1>5. WaitInv
  BY DEF Init, WaitInv
<1>6. LifeInv
  BY DEF Init, LifeInv, Before, Operating, After
<1>7. HeldInv
  BY DEF Init, HeldInv, Holding
<1>8. FlowOf(queue, held, pc["main"])
  BY DEF Init, FlowOf, Once, OwnersIn, Distinct, Elements, EmptyQueues, Buffers, Operating
<1> QED
  BY <1>1, <1>2, <1>3, <1>4, <1>5, <1>6, <1>7, <1>8, TypeParts, FlowParts DEF IInv

(* IInv is inductive.                                                      *)
LEMMA Inductive ==
  ASSUME IInv, [Next]_vars
  PROVE  IInv'
<1>1. PcType /\ StoreType /\ FlagType /\ MutexInv /\ WaitInv /\ LifeInv
      /\ HeldInv /\ FlowInv
  BY TypeParts DEF IInv
<1>2. PcType' /\ StoreType' /\ FlagType'
  BY <1>1, PcStep, StoreStep, FlagStep
<1>3. MutexInv' /\ WaitInv' /\ LifeInv'
  BY <1>1, MutexStep, WaitStep, LifeStep
<1>4. HeldInv' /\ FlowInv'
  BY <1>1, HeldStep, FlowStep
<1>5. TypeOK'
  BY <1>2 DEF TypeOK, PcType, StoreType, FlagType
<1> QED BY <1>3, <1>4, <1>5 DEF IInv

(* Every state the program reaches satisfies IInv.                         *)
THEOREM Invariance == Spec => []IInv
<1>1. Init => IInv
  BY Initially
<1>2. IInv /\ [Next]_vars => IInv'
  BY Inductive
<1> QED BY <1>1, <1>2, PTL DEF Spec

(* Type correctness of every variable the three threads and the handler    *)
(* share.                                                                  *)
THEOREM TypeCorrect == Spec => []TypeOK
<1>1. IInv => TypeOK
  BY DEF IInv
<1> QED BY <1>1, Invariance, PTL

(* No error path of either thread loses a buffer or hands one out twice,   *)
(* for any number of buffers.                                              *)
THEOREM BuffersConserved == Spec => []BufferConservation
<1>1. IInv => BufferConservation
  <2> SUFFICES ASSUME IInv PROVE BufferConservation
    OBVIOUS
  <2>1. Started # {} => pc["main"] \in Operating
    BY DEF IInv, TypeOK, LifeInv, Started, MainPoints, Before, After, Operating
  <2> QED BY <2>1 DEF IInv, FlowInv, BufferConservation
<1> QED BY <1>1, Invariance, PTL

(* A thread only sleeps while it has nothing to take and no shutdown to    *)
(* obey, and the two threads never sleep together.                         *)
THEOREM WakeupsNotLost == Spec => []NoLostWakeup
<1>1. IInv => NoLostWakeup
  <2> SUFFICES ASSUME IInv PROVE NoLostWakeup
    OBVIOUS
  <2>1. \A w \in waiters : queue[Input[w]] = <<>> /\ ~shutdown
    BY DEF IInv, WaitInv
  <2>2. ASSUME waiters = Workers PROVE FALSE
    <3>1. \A w \in Workers : pc[w] = "wait"
      BY <2>2 DEF IInv, WaitInv
    <3>2. pc["main"] \in Operating
      BY <3>1 DEF IInv, TypeOK, LifeInv, MainPoints, Before, After, Operating
    <3>3. queue["empty"] = <<>> /\ queue["action"] = <<>>
      BY <2>1, <2>2 DEF Input
    <3>4. \A w \in Workers : held[w] = NoBuffer
      BY <3>1 DEF IInv, HeldInv, Holding
    <3>5. 1 \in Buffers /\ Owners(1) = {}
      BY <3>3, <3>4, NumBuffersAssumption DEF Owners, Content, Buffers
    <3> QED BY <3>2, <3>5 DEF IInv, FlowInv
  <2> QED BY <2>1, <2>2 DEF NoLostWakeup
<1> QED BY <1>1, Invariance, PTL

(* The pool and the mutex outlive the threads that use them, on every exit *)
(* path.                                                                   *)
THEOREM NothingFreedInUse == Spec => []NoUseAfterFree
<1>1. IInv => NoUseAfterFree
  BY DEF IInv, TypeOK, MutexInv, LifeInv, NoUseAfterFree, Started,
         MainPoints, Before, After, Operating
<1> QED BY <1>1, Invariance, PTL

(* main never returns with a thread, the pool or the mutex left behind.    *)
THEOREM ExitsClean == Spec => []CleanExit
<1>1. IInv => CleanExit
  <2> SUFFICES ASSUME IInv, pc["main"] = "done"
               PROVE  Started = {} /\ ~pool /\ ~live /\ waiters = {} /\ mutex = "free"
    BY DEF CleanExit
  <2>1. Started = {} /\ ~pool /\ ~live
    BY DEF IInv, LifeInv, Started, After, Operating
  <2>2. waiters = {}
    BY <2>1 DEF IInv, TypeOK, WaitInv, Started
  <2>3. mutex = "free"
    BY <2>1 DEF IInv, MutexInv
  <2> QED BY <2>1, <2>2, <2>3
<1> QED BY <1>1, Invariance, PTL

-----------------------------------------------------------------------------
(* The two queues, as FrameQueueList implements them.                      *)
Pools == INSTANCE BufferQueues

(* From the end of frame_queue_allocate_buffers until the queues are reset *)
(* in frame_queue_cleanup.                                                 *)
Circulating == Operating \cup {"drain", "free", "destroy"}

(* The steps that touch neither the queues nor the hands.                  *)
LEMMA OtherSteps ==
  ASSUME [Next]_vars, pc["main"] \in Circulating, ~DestroySync,
         ~CameraTake, ~UsbTake, ~CameraPublish, ~CameraGiveBack, ~UsbGiveBack,
         ~CameraSurrender, ~UsbSurrender
  PROVE  UNCHANGED <<queue, held>>
<1>1. CASE UNCHANGED vars
  BY <1>1 DEF vars, store
<1>2. CASE \/ \E t \in Threads : Acquire(t)
           \/ \E w \in Workers : SpuriousWakeup(w)
  BY <1>2 DEF Acquire, SpuriousWakeup, store
<1>3. CASE CameraThread
  BY <1>3 DEF CameraThread, CameraTop, CameraWait, CameraLeave, CameraTimeout,
              CameraError, CameraFrame, PackFrame, PackError, CameraStop, Top, Wait,
              Leave, Fail, Stop, store
<1>4. CASE UsbThread
  BY <1>4 DEF UsbThread, UsbTop, UsbWait, UsbLeave, UsbSent, UsbDisconnected,
              UsbError, UsbStop, Top, Wait, Leave, Fail, Stop, store
<1>5. CASE MainThread
  <2>1. ~QueueInit /\ ~AllocateBuffers /\ ~FillEmptyQueue
    BY DEF Circulating, Operating, QueueInit, AllocateBuffers, FillEmptyQueue, At, Locked
  <2> QED BY <1>5, <2>1 DEF MainThread, CreateCameraThread, CreateUsbThread,
              AbortInit, AbortJoin, Monitor, MainStop, ThreadsCleanup, JoinCamera,
              JoinUsb, QueueCleanup, FreeBuffers, SequentialMode, store
<1>6. CASE SignalArrives \/ SignalHandler \/ Terminated
  BY <1>6 DEF SignalArrives, SignalHandler, HandlerLock, HandlerLockDead,
              HandlerShutdown, Terminated, vars, store
<1>7. CASE Relaunch
  BY <1>7 DEF Relaunch
<1> QED BY <1>1, <1>2, <1>3, <1>4, <1>5, <1>6, <1>7 DEF Next

(* A worker takes with empty hands and gives back what it holds.           *)
LEMMA WorkerSteps ==
  ASSUME IInv, \/ CameraTake \/ UsbTake \/ CameraPublish \/ CameraGiveBack
               \/ UsbGiveBack \/ CameraSurrender \/ UsbSurrender
  PROVE  Pools!Next
<1>0. /\ \A w \in Workers : held[w] # NoBuffer <=> pc[w] \in Holding
      /\ {"camera", "usb"} = Workers /\ {"empty", "action"} = Queues
  BY DEF IInv, HeldInv, Workers, Queues
<1>1. ASSUME NEW w \in Workers, NEW p, Take(w, p) PROVE Pools!Next
  <2>1. held[w] = NoBuffer /\ Input[w] \in Queues
    BY <1>0, <1>1 DEF Take, Locked, Holding, Input
  <2>2. Pools!Pull(w, Input[w])
    BY <1>1, <2>1 DEF Take, frame_queue_pull, Pools!Pull
  <2> QED BY <2>1, <2>2 DEF Pools!Next
<1>2. ASSUME NEW w \in Workers, NEW q \in Queues, pc[w] \in Holding,
             frame_queue_push(q, held[w]),
             held' = [held EXCEPT ![w] = NoBuffer]
      PROVE  Pools!Next
  <2>1. Pools!Push(w, q)
    BY <1>0, <1>2 DEF frame_queue_push, Pools!Push
  <2> QED BY <2>1 DEF Pools!Next
<1>3. CASE CameraTake \/ UsbTake
  BY <1>0, <1>1, <1>3 DEF CameraTake, UsbTake
<1>4. CASE CameraPublish
  BY <1>0, <1>2, <1>4 DEF CameraPublish, Locked, Holding
<1>5. CASE CameraGiveBack \/ UsbGiveBack
  BY <1>0, <1>2, <1>5 DEF CameraGiveBack, UsbGiveBack, Locked, Holding
<1>6. CASE CameraSurrender \/ UsbSurrender
  BY <1>0, <1>2, <1>6 DEF CameraSurrender, UsbSurrender, Surrender, Locked, Holding
<1> QED BY <1>3, <1>4, <1>5, <1>6

(* frame_queue_allocate_buffers finds both queues and all hands empty.     *)
LEMMA FillStarts ==
  ASSUME IInv, FillEmptyQueue
  PROVE  Pools!Init'
<1>1. queue = EmptyQueues /\ pc["main"] = "fill"
  BY DEF IInv, FlowInv, FillEmptyQueue, Locked
<1>2. \A w \in Workers : held[w] = NoBuffer
  BY <1>1 DEF IInv, LifeInv, HeldInv, Holding, Before, Workers
<1>3. held \in [Workers -> Buffers \cup {NoBuffer}] /\ held' = held
  BY DEF IInv, TypeOK, FillEmptyQueue
<1>4. held' = [w \in Workers |-> NoBuffer]
  BY <1>2, <1>3
<1> DEFINE all == [b \in Buffers |-> b]
<1>5. all \in Seq(Buffers)
  BY NumBuffersAssumption, SeqDef DEF Buffers
<1> HIDE DEF all
<1>6. <<>> \o all = all
  BY <1>5, ConcatEmptySeq
<1>7. queue' = [queue EXCEPT !["empty"] = queue["empty"] \o all]
  BY DEF FillEmptyQueue, all
<1>8. queue["empty"] = <<>> /\ queue["action"] = <<>> /\ DOMAIN queue = Queues
  BY <1>1 DEF EmptyQueues, Queues
<1>9. queue' = [q \in Queues |-> IF q = "empty" THEN all ELSE <<>>]
  BY <1>6, <1>7, <1>8 DEF Queues
<1> QED BY <1>4, <1>9 DEF Pools!Init, all

(* The queues and the hands of the threads are those of BufferQueues: they *)
(* start with every buffer in the empty queue, and until frame_queue_cleanup *)
(* resets them every step of main, of the threads and of the handler       *)
(* leaves them alone or is one pull or one push.                           *)
CirculateAsQueues ==
  [][ /\ FillEmptyQueue => Pools!Init'
      /\ pc["main"] \in Circulating /\ ~DestroySync
           => [Pools!Next]_(Pools!pool) ]_vars

(* So the linked lists of FrameQueueList, which implement BufferQueues, can *)
(* stand for the queues of FramePipeline.                                  *)
THEOREM BuffersCirculate == Spec => CirculateAsQueues
<1>1. ASSUME IInv, [Next]_vars
      PROVE  /\ FillEmptyQueue => Pools!Init'
             /\ pc["main"] \in Circulating /\ ~DestroySync
                  => [Pools!Next]_(Pools!pool)
  <2>1. FillEmptyQueue => Pools!Init'
    BY <1>1, FillStarts
  <2>2. ASSUME pc["main"] \in Circulating, ~DestroySync
        PROVE  [Pools!Next]_(Pools!pool)
    <3>1. CASE \/ CameraTake \/ UsbTake \/ CameraPublish \/ CameraGiveBack
               \/ UsbGiveBack \/ CameraSurrender \/ UsbSurrender
      BY <1>1, <3>1, WorkerSteps
    <3>2. CASE ~(\/ CameraTake \/ UsbTake \/ CameraPublish \/ CameraGiveBack
                 \/ UsbGiveBack \/ CameraSurrender \/ UsbSurrender)
      BY <1>1, <2>2, <3>2, OtherSteps DEF Pools!pool
    <3> QED BY <3>1, <3>2
  <2> QED BY <2>1, <2>2
<1> QED BY <1>1, Invariance, PTL DEF Spec, CirculateAsQueues

-----------------------------------------------------------------------------
(* The packets of the buffers in s.                                        *)
Packets(s) == [i \in DOMAIN s |-> data[s[i]]]

(* The three parts of InFlight.                                            *)
UsbPart    == IF pc["usb"] = "send" THEN <<data[held["usb"]]>> ELSE <<>>
QueuePart  == Packets(queue["action"])
CameraPart == IF pc["camera"] = "publish" THEN <<data[held["camera"]]>> ELSE <<>>

(* A step that concerns no packet.                                         *)
Quiet ==
  /\ queue'["action"] = queue["action"]
  /\ pc'["usb"] = "send" <=> pc["usb"] = "send"
  /\ pc["usb"] = "send" => held'["usb"] = held["usb"]
  /\ pc'["camera"] = "publish" <=> pc["camera"] = "publish"
  /\ pc["camera"] = "publish" => held'["camera"] = held["camera"]
  /\ UNCHANGED <<data, sent, sequence>>

-----------------------------------------------------------------------------
(* Sequences.                                                              *)
LEMMA AppendConcat ==
  ASSUME NEW S, NEW a \in Seq(S), NEW e \in S
  PROVE  Append(a, e) = a \o <<e>> /\ <<e>> \in Seq(S) /\ Append(a, e) \in Seq(S)
BY AppendIsConcat, AppendProperties

(* The first element of a sequence, put in front of the rest.              *)
LEMMA HeadFirst ==
  ASSUME NEW S, NEW e \in S, NEW t \in Seq(S)
  PROVE  /\ <<e>> \o t \in Seq(S) /\ <<e>> \o t # <<>>
         /\ Head(<<e>> \o t) = e /\ Tail(<<e>> \o t) = t
<1> DEFINE s == <<e>> \o t
<1>1. /\ <<e>> \in Seq(S) /\ Len(<<e>>) = 1 /\ <<e>>[1] = e /\ Len(t) \in Nat
  OBVIOUS
<1>2. /\ s \in Seq(S) /\ Len(s) = 1 + Len(t)
      /\ \A i \in 1 .. 1 + Len(t) : s[i] = IF i <= 1 THEN e ELSE t[i - 1]
  <2>1. /\ s \in Seq(S) /\ Len(s) = Len(<<e>>) + Len(t)
        /\ \A i \in 1 .. Len(<<e>>) + Len(t) :
             s[i] = IF i <= Len(<<e>>) THEN <<e>>[i] ELSE t[i - Len(<<e>>)]
    BY <1>1, ConcatProperties
  <2>2. \A i \in 1 .. 1 + Len(t) : i <= 1 => i = 1
    BY <1>1
  <2> QED BY <2>1, <2>2, <1>1
<1> HIDE DEF s
<1>3. s # <<>>
  BY <1>1, <1>2
<1>4. /\ Head(s) = e /\ Tail(s) \in Seq(S) /\ Len(Tail(s)) = Len(t)
      /\ \A i \in 1 .. Len(t) : Tail(s)[i] = t[i]
  <2>1. /\ Tail(s) \in Seq(S) /\ Len(Tail(s)) = Len(s) - 1
        /\ \A i \in 1 .. Len(Tail(s)) : Tail(s)[i] = s[i + 1]
    BY <1>2, <1>3, HeadTailProperties
  <2>2. Head(s) = s[1]
    BY <1>2
  <2>3. s[1] = e
    BY <1>1, <1>2
  <2>4. Len(Tail(s)) = Len(t)
    BY <1>1, <1>2, <2>1
  <2>5. ASSUME NEW i \in 1 .. Len(t) PROVE Tail(s)[i] = t[i]
    <3>1. i + 1 \in 1 .. 1 + Len(t) /\ ~(i + 1 <= 1) /\ (i + 1) - 1 = i
      BY <1>1
    <3> QED BY <3>1, <2>1, <2>4, <1>2
  <2> QED BY <2>1, <2>2, <2>3, <2>4, <2>5
<1>5. Tail(s) = t
  BY <1>4, SeqEqual
<1> QED BY <1>2, <1>3, <1>4, <1>5 DEF s

-----------------------------------------------------------------------------
(* What a queue of buffers and its packets have in common.                 *)
LEMMA PacketsType ==
  ASSUME data \in [Buffers -> Nat], NEW s \in Seq(Buffers)
  PROVE  Packets(s) \in Seq(Nat) /\ Len(Packets(s)) = Len(s)
<1>1. Packets(s) \in [1 .. Len(s) -> Nat]
  BY DEF Packets
<1> QED BY <1>1

(* The first packet of a queue is the one in its first buffer.             *)
LEMMA PacketsHead ==
  ASSUME data \in [Buffers -> Nat], NEW s \in Seq(Buffers), s # <<>>
  PROVE  Packets(s) = <<data[Head(s)]>> \o Packets(Tail(s))
<1>1. /\ Head(s) \in Buffers /\ Tail(s) \in Seq(Buffers) /\ Len(Tail(s)) = Len(s) - 1
      /\ \A i \in 1 .. Len(Tail(s)) : Tail(s)[i] = s[i + 1]
      /\ Len(s) \in Nat /\ Len(s) >= 1 /\ Head(s) = s[1]
  BY HeadTailProperties, EmptySeq, LenProperties
<1> DEFINE e == data[Head(s)]  t == Packets(Tail(s))
<1>2. /\ e \in Nat /\ t \in Seq(Nat) /\ Len(t) = Len(s) - 1
      /\ \A i \in 1 .. Len(s) - 1 : t[i] = data[s[i + 1]]
  <2>1. t \in Seq(Nat) /\ Len(t) = Len(Tail(s))
    BY <1>1, PacketsType
  <2> QED BY <2>1, <1>1 DEF Packets
<1>3. /\ Packets(s) \in Seq(Nat) /\ Len(Packets(s)) = Len(s)
      /\ \A i \in 1 .. Len(s) : Packets(s)[i] = data[s[i]]
  BY PacketsType DEF Packets
<1>4. e = data[s[1]]
  BY <1>1
<1> HIDE DEF e, t
<1>5. /\ <<e>> \o t \in Seq(Nat) /\ Len(<<e>> \o t) = 1 + Len(t)
      /\ \A i \in 1 .. 1 + Len(t) :
           (<<e>> \o t)[i] = IF i <= 1 THEN <<e>>[i] ELSE t[i - 1]
  <2>1. <<e>> \in Seq(Nat) /\ Len(<<e>>) = 1
    BY <1>2
  <2> QED BY <2>1, <1>2, ConcatProperties
<1>6. ASSUME NEW i \in 1 .. Len(s) PROVE Packets(s)[i] = (<<e>> \o t)[i]
  <2>1. CASE i = 1
    BY <2>1, <1>1, <1>2, <1>3, <1>4, <1>5
  <2>2. CASE i # 1
    <3>1. i - 1 \in 1 .. Len(s) - 1 /\ (i - 1) + 1 = i /\ ~(i <= 1) /\ i \in 1 .. 1 + Len(t)
      BY <2>2, <1>1, <1>2
    <3> QED BY <3>1, <1>2, <1>3, <1>5
  <2> QED BY <2>1, <2>2
<1>7. Packets(s) = <<e>> \o t
  <2> DEFINE p == Packets(s)  r == <<e>> \o t
  <2>1. p \in Seq(Nat) /\ r \in Seq(Nat) /\ Len(p) = Len(s) /\ Len(r) = Len(s)
    <3>1. Len(s) \in Nat /\ Len(t) = Len(s) - 1
      BY <1>1, <1>2
    <3>2. 1 + Len(t) = Len(s)
      BY <3>1
    <3> QED BY <3>2, <1>3, <1>5
  <2>2. \A i \in 1 .. Len(s) : p[i] = r[i]
    BY <1>6
  <2> HIDE DEF p, r
  <2>3. p = r
    BY <2>1, <2>2, SeqEqual
  <2> QED BY <2>3 DEF p, r
<1> QED BY <1>7 DEF e, t

(* A buffer at the end of the queue puts its packet behind the others.     *)
LEMMA PacketsAppend ==
  ASSUME data \in [Buffers -> Nat], NEW s \in Seq(Buffers), NEW b \in Buffers
  PROVE  Packets(Append(s, b)) = Packets(s) \o <<data[b]>>
<1>1. /\ Append(s, b) \in Seq(Buffers) /\ Len(Append(s, b)) = Len(s) + 1
      /\ Len(s) \in Nat
      /\ \A i \in 1 .. Len(s) : Append(s, b)[i] = s[i]
      /\ Append(s, b)[Len(s) + 1] = b
  BY AppendProperties
<1> DEFINE p == Packets(s)  q == Packets(Append(s, b))  e == data[b]
<1>2. /\ p \in Seq(Nat) /\ Len(p) = Len(s) /\ e \in Nat
      /\ \A i \in 1 .. Len(s) : p[i] = data[s[i]]
  BY PacketsType DEF Packets
<1>3. /\ q \in Seq(Nat) /\ Len(q) = Len(s) + 1
      /\ \A i \in 1 .. Len(s) + 1 : q[i] = data[Append(s, b)[i]]
  <2>1. q \in Seq(Nat) /\ Len(q) = Len(Append(s, b))
    BY <1>1, PacketsType
  <2>2. DOMAIN Append(s, b) = 1 .. Len(s) + 1
    BY <1>1
  <2> QED BY <2>1, <2>2, <1>1 DEF Packets
<1>4. e = data[b]
  OBVIOUS
<1> HIDE DEF p, q, e
<1>5. /\ Append(p, e) \in Seq(Nat) /\ Len(Append(p, e)) = Len(p) + 1
      /\ \A i \in 1 .. Len(p) : Append(p, e)[i] = p[i]
      /\ Append(p, e)[Len(p) + 1] = e
  BY <1>2, AppendProperties
<1>6. ASSUME NEW i \in 1 .. Len(s) + 1 PROVE q[i] = Append(p, e)[i]
  <2>1. CASE i = Len(s) + 1
    BY <2>1, <1>1, <1>2, <1>3, <1>4, <1>5
  <2>2. CASE i # Len(s) + 1
    <3>1. i \in 1 .. Len(s)
      BY <2>2, <1>1
    <3> QED BY <3>1, <1>1, <1>2, <1>3, <1>5
  <2> QED BY <2>1, <2>2
<1>7. q = Append(p, e)
  BY <1>2, <1>3, <1>5, <1>6, SeqEqual
<1>8. Append(p, e) = p \o <<e>>
  BY <1>2, AppendIsConcat
<1> QED BY <1>7, <1>8 DEF p, q, e


-----------------------------------------------------------------------------
(* The types the steps below need.                                         *)
LEMMA Types ==
  ASSUME IInv
  PROVE  /\ queue["action"] \in Seq(Buffers) /\ data \in [Buffers -> Nat]
         /\ pc["usb"] = "send" => held["usb"] \in Buffers
         /\ pc["camera"] \in {"pack", "publish"} => held["camera"] \in Buffers
         /\ sequence \in Nat /\ sent \in Seq(Nat)
         /\ UsbPart \in Seq(Nat) /\ QueuePart \in Seq(Nat) /\ CameraPart \in Seq(Nat)
         /\ InFlight = UsbPart \o QueuePart \o CameraPart
         /\ InFlight = UsbPart \o (QueuePart \o CameraPart)
         /\ InFlight \in Seq(Nat)
<1>1. /\ queue \in [Queues -> Seq(Buffers)] /\ data \in [Buffers -> Nat]
      /\ held \in [Workers -> Buffers \cup {NoBuffer}]
      /\ sequence \in Nat /\ sent \in Seq(Nat)
  BY DEF IInv, TypeOK
<1>2. /\ pc["usb"] = "send" => held["usb"] \in Buffers
      /\ pc["camera"] \in {"pack", "publish"} => held["camera"] \in Buffers
  BY <1>1 DEF IInv, HeldInv, Holding
<1>3. UsbPart \in Seq(Nat) /\ CameraPart \in Seq(Nat)
  BY <1>1, <1>2 DEF UsbPart, CameraPart
<1>4. queue["action"] \in Seq(Buffers)
  BY <1>1
<1>5. QueuePart \in Seq(Nat)
  BY <1>1, <1>4, PacketsType DEF QueuePart
<1>6. InFlight = UsbPart \o QueuePart \o CameraPart
  BY DEF InFlight, UsbPart, QueuePart, CameraPart, Packets
<1>7. UsbPart \o QueuePart \o CameraPart \in Seq(Nat)
  BY <1>3, <1>5, ConcatProperties
<1>8. UsbPart \o QueuePart \o CameraPart = UsbPart \o (QueuePart \o CameraPart)
  BY <1>3, <1>5, ConcatAssociative
<1> QED BY <1>1, <1>2, <1>3, <1>4, <1>5, <1>6, <1>7, <1>8

(* InFlight after the step, in its three parts.                            *)
LEMMA InFlightNext ==
  InFlight' = UsbPart' \o QueuePart' \o CameraPart'
BY DEF InFlight, UsbPart, QueuePart, CameraPart, Packets

(* A quiet step changes nothing that the channel shows.                    *)
LEMMA QuietStep ==
  ASSUME IInv, Quiet
  PROVE  UNCHANGED <<sequence, InFlight, sent>>
<1>1. UsbPart' = UsbPart
  BY DEF Quiet, UsbPart
<1>2. CameraPart' = CameraPart
  BY DEF Quiet, CameraPart
<1>3. QueuePart' = QueuePart
  BY DEF Quiet, QueuePart, Packets
<1> QED BY <1>1, <1>2, <1>3, Types, InFlightNext DEF Quiet

(* The USB thread takes the oldest packet of the queue.                    *)
LEMMA TakeStep ==
  ASSUME IInv, UsbTake
  PROVE  UNCHANGED <<sequence, InFlight, sent>>
<1> DEFINE q == queue["action"]
<1>1. /\ q \in Seq(Buffers) /\ q # <<>> /\ data \in [Buffers -> Nat]
      /\ pc["usb"] = "lock" /\ pc'["usb"] = "send" /\ pc'["camera"] = pc["camera"]
      /\ held'["usb"] = Head(q) /\ held'["camera"] = held["camera"]
      /\ queue'["action"] = Tail(q)
      /\ UNCHANGED <<data, sent, sequence>>
  BY Types DEF UsbTake, Take, Locked, Input, frame_queue_pull, IInv, TypeOK
<1> HIDE DEF q
<1>2. UsbPart = <<>> /\ UsbPart' = <<data[Head(q)]>>
  BY <1>1 DEF UsbPart
<1>3. CameraPart' = CameraPart
  BY <1>1 DEF CameraPart
<1>4. QueuePart = <<data[Head(q)]>> \o QueuePart'
  <2>1. QueuePart' = Packets(Tail(q))
    BY <1>1 DEF QueuePart, Packets
  <2> QED BY <2>1, <1>1, PacketsHead DEF QueuePart, q
<1>5. QueuePart \in Seq(Nat) /\ UsbPart \o QueuePart = QueuePart
  BY <1>2, Types, ConcatEmptySeq
<1>6. InFlight = QueuePart \o CameraPart
  BY <1>5, Types
<1> QED BY <1>1, <1>2, <1>3, <1>4, <1>6, InFlightNext

(* The camera thread publishes its packet behind the others.               *)
LEMMA PublishStep ==
  ASSUME IInv, CameraPublish
  PROVE  UNCHANGED <<sequence, InFlight, sent>>
<1> DEFINE q == queue["action"]  b == held["camera"]
<1>1. /\ q \in Seq(Buffers) /\ b \in Buffers /\ data \in [Buffers -> Nat]
      /\ pc["camera"] = "publish"
  BY Types DEF CameraPublish, Locked
<1>2. PICK woken \in SUBSET waiters : Wake(woken, [pc EXCEPT !["camera"] = "top"])
  BY DEF CameraPublish, Signal
<1>3. /\ pc'["camera"] # "publish"
      /\ pc'["usb"] = "send" <=> pc["usb"] = "send"
  BY <1>2 DEF Wake, IInv, TypeOK, WaitInv
<1>4. /\ held'["usb"] = held["usb"] /\ queue'["action"] = Append(q, b)
      /\ UNCHANGED <<data, sent, sequence>>
  BY DEF CameraPublish, frame_queue_push, IInv, TypeOK
<1> HIDE DEF q, b
<1>5. UsbPart' = UsbPart
  BY <1>3, <1>4 DEF UsbPart
<1>6. CameraPart = <<data[b]>> /\ CameraPart' = <<>>
  BY <1>1, <1>3 DEF CameraPart, b
<1>7. QueuePart' = QueuePart \o <<data[b]>>
  <2>1. QueuePart' = Packets(Append(q, b))
    BY <1>4 DEF QueuePart, Packets
  <2> QED BY <2>1, <1>1, PacketsAppend DEF QueuePart, q
<1>8. InFlight = UsbPart \o (QueuePart \o <<data[b]>>)
  <2>1. InFlight = UsbPart \o (QueuePart \o CameraPart)
    BY Types
  <2> QED BY <2>1, <1>6
<1>9. /\ UsbPart \o (QueuePart \o <<data[b]>>) \in Seq(Nat)
  BY <1>8, Types
<1>10. InFlight' = UsbPart \o (QueuePart \o <<data[b]>>)
  BY <1>5, <1>6, <1>7, <1>9, InFlightNext, ConcatEmptySeq
<1> QED BY <1>4, <1>8, <1>10

(* usb_transport_send_bytes returns: the oldest packet leaves the channel. *)
LEMMA UsbReturns ==
  ASSUME IInv, pc["usb"] = "send", pc'["usb"] # "send",
         queue' = queue, held' = held, data' = data, sequence' = sequence,
         pc'["camera"] = pc["camera"]
  PROVE  /\ InFlight # <<>> /\ data[held["usb"]] = Head(InFlight)
         /\ InFlight' = Tail(InFlight)
<1> DEFINE e == data[held["usb"]]  t == QueuePart \o CameraPart
<1>1. /\ e \in Nat /\ t \in Seq(Nat)
  BY Types, ConcatProperties
<1>2. UsbPart = <<e>> /\ UsbPart' = <<>>
  BY DEF UsbPart
<1>3. QueuePart' = QueuePart /\ CameraPart' = CameraPart
  BY DEF QueuePart, CameraPart, Packets
<1>4. InFlight = <<e>> \o t
  <2>1. InFlight = UsbPart \o (QueuePart \o CameraPart)
    BY Types
  <2> QED BY <2>1, <1>2
<1>5. InFlight' = t
  <2>1. UsbPart' \o QueuePart' = QueuePart
    BY <1>2, <1>3, Types, ConcatEmptySeq
  <2> QED BY <2>1, <1>3, InFlightNext
<1> HIDE DEF t
<1>6. /\ InFlight # <<>> /\ Head(InFlight) = e /\ Tail(InFlight) = t
  BY <1>1, <1>4, HeadFirst
<1> QED BY <1>5, <1>6

(* The USB thread and the queue hold fewer buffers than there are while the*)
(* camera thread holds one: no buffer has two owners.                      *)
LEMMA RoomForOne ==
  ASSUME IInv, pc["camera"] = "pack"
  PROVE  Len(UsbPart \o QueuePart) < NumBuffers
<1> DEFINE q == queue["action"]  D == Elements(q)
           U == IF pc["usb"] = "send" THEN {held["usb"]} ELSE {}
           c == held["camera"]
<1>1. /\ q \in Seq(Buffers) /\ c \in Buffers /\ U \subseteq Buffers /\ Len(q) \in Nat
  BY Types
<1>2. NumBuffers \in Nat /\ IsFiniteSet(Buffers) /\ Cardinality(Buffers) = NumBuffers
  BY NumBuffersAssumption, FS_Interval DEF Buffers
<1>3. Distinct(q) /\ D \subseteq Buffers
  BY <1>1 DEF IInv, FlowInv, Distinct, Elements
<1>4. \A b \in Buffers : \A x, y \in OwnersIn(queue, held, b) : x = y
  BY OwnersInNow DEF IInv, FlowInv
<1>5. /\ c \notin D /\ c \notin U /\ U \cap D = {}
  <2>1. \A b \in D : "action" \in OwnersIn(queue, held, b)
    BY DEF OwnersIn
  <2>2. "camera" \in OwnersIn(queue, held, c)
    BY DEF OwnersIn
  <2>3. \A b \in U : "usb" \in OwnersIn(queue, held, b)
    BY DEF OwnersIn
  <2> HIDE DEF U, c, D
  <2> QED BY <1>1, <1>3, <1>4, <2>1, <2>2, <2>3
<1>6. IsFiniteSet(D) /\ Cardinality(D) = Len(q)
  <2>1. q \in Bijection(1 .. Len(q), D)
    <3>1. q \in [1 .. Len(q) -> D] /\ DOMAIN q = 1 .. Len(q)
      BY <1>1 DEF Elements
    <3>2. \A d \in D : \E i \in 1 .. Len(q) : q[i] = d
      BY <3>1 DEF Elements
    <3>3. \A i, j \in 1 .. Len(q) : q[i] = q[j] => i = j
      BY <3>1, <1>3 DEF Distinct
    <3> HIDE DEF q, D
    <3>4. q \in Injection(1 .. Len(q), D)
      BY <3>1, <3>3 DEF Injection, IsInjective
    <3>5. q \in Surjection(1 .. Len(q), D)
      BY <3>1, <3>2 DEF Surjection
    <3> QED BY <3>4, <3>5 DEF Bijection
  <2>2. ExistsBijection(1 .. Len(q), D)
    BY <2>1 DEF ExistsBijection
  <2>3. IsFiniteSet(D)
    BY <1>2, <1>3, FS_Subset
  <2> QED BY <1>1, <2>2, <2>3, FS_CountingElements
<1>7. Len(UsbPart) = Cardinality(U) /\ IsFiniteSet(U)
  BY FS_EmptySet, FS_Singleton DEF UsbPart
<1> HIDE DEF q, D, U, c
<1>8. Cardinality(D \cup U) = Len(q) + Len(UsbPart) /\ IsFiniteSet(D \cup U)
  <2>1. (D \cap U) = {}
    BY <1>5
  <2>2. Cardinality(U) \in Nat
    BY <1>7, FS_CardinalityType
  <2>3. /\ IsFiniteSet(D \cup U)
        /\ Cardinality(D \cup U) = Cardinality(D) + Cardinality(U) - Cardinality(D \cap U)
    BY <1>6, <1>7, FS_Union
  <2>4. Cardinality(D \cap U) = 0
    BY <2>1, FS_EmptySet, Zenon
  <2> QED BY <2>2, <2>3, <2>4, <1>1, <1>6, <1>7
<1>9. /\ IsFiniteSet((D \cup U) \cup {c})
      /\ Cardinality((D \cup U) \cup {c}) = Len(q) + Len(UsbPart) + 1
  BY <1>5, <1>8, FS_AddElement
<1>10. (D \cup U) \cup {c} \subseteq Buffers
  BY <1>1, <1>3
<1>11. Len(q) + Len(UsbPart) + 1 <= NumBuffers
  BY <1>2, <1>9, <1>10, FS_Subset
<1>12. Len(UsbPart \o QueuePart) = Len(UsbPart) + Len(q)
  <2>1. Len(QueuePart) = Len(q)
    BY Types, PacketsType DEF QueuePart, q
  <2>2. Len(UsbPart \o QueuePart) = Len(UsbPart) + Len(QueuePart)
    <3>1. UsbPart \in Seq(Nat) /\ QueuePart \in Seq(Nat)
      BY Types
    <3> QED BY <3>1, ConcatProperties, Zenon
  <2> QED BY <2>1, <2>2
<1>13. Len(UsbPart) \in Nat
  BY Types
<1> QED BY <1>1, <1>2, <1>11, <1>12, <1>13

(* mjpeg_pack_frame: the channel accepts a packet.                         *)
LEMMA PackStep ==
  ASSUME IInv, PackFrame
  PROVE  Channel!Accept
<1> DEFINE q == queue["action"]  c == held["camera"]
<1>1. /\ q \in Seq(Buffers) /\ c \in Buffers /\ data \in [Buffers -> Nat]
      /\ pc["camera"] = "pack" /\ sequence \in Nat
      /\ pc["usb"] = "send" => held["usb"] \in Buffers
  BY Types DEF PackFrame
<1>2. /\ data' = [data EXCEPT ![c] = sequence]
      /\ pc'["camera"] = "publish" /\ pc'["usb"] = pc["usb"]
      /\ queue' = queue /\ held' = held /\ sequence' = sequence + 1 /\ sent' = sent
  BY DEF PackFrame, IInv, TypeOK
<1>3. /\ c \notin Elements(q)
      /\ pc["usb"] = "send" => held["usb"] # c
  <2>1. \A x, y \in OwnersIn(queue, held, c) : x = y
    BY <1>1, OwnersInNow DEF IInv, FlowInv
  <2>2. "camera" \in OwnersIn(queue, held, c)
    BY DEF OwnersIn
  <2>3. c \in Elements(q) => "action" \in OwnersIn(queue, held, c)
    BY DEF OwnersIn
  <2>4. held["usb"] = c => "usb" \in OwnersIn(queue, held, c)
    BY DEF OwnersIn
  <2> QED BY <2>1, <2>2, <2>3, <2>4
<1>4. UsbPart' = UsbPart
  BY <1>1, <1>2, <1>3 DEF UsbPart
<1>5. QueuePart' = QueuePart
  <2>1. \A i \in DOMAIN q : data'[q[i]] = data[q[i]]
    <3>1. ASSUME NEW i \in DOMAIN q PROVE data'[q[i]] = data[q[i]]
      <4>1. q[i] \in Buffers /\ q[i] # c
        BY <1>1, <1>3 DEF Elements
      <4> HIDE DEF q, c
      <4> QED BY <4>1, <1>1, <1>2
    <3> QED BY <3>1
  <2> QED BY <2>1, <1>2 DEF QueuePart, Packets
<1>6. CameraPart = <<>> /\ CameraPart' = <<sequence>>
  <2>1. data'[c] = sequence
    BY <1>1, <1>2
  <2> QED BY <2>1, <1>1, <1>2 DEF CameraPart
<1> HIDE DEF q, c
<1>7. InFlight = UsbPart \o QueuePart
  <2>1. UsbPart \o QueuePart \in Seq(Nat)
    BY Types, ConcatProperties
  <2> QED BY <2>1, <1>6, Types, ConcatEmptySeq
<1>8. InFlight' = Append(InFlight, sequence)
  <2>1. InFlight' = InFlight \o <<sequence>>
    BY <1>4, <1>5, <1>6, <1>7, InFlightNext
  <2> QED BY <2>1, Types, AppendConcat
<1>9. Len(InFlight) < NumBuffers
  BY <1>1, <1>7, RoomForOne
<1> QED BY <1>2, <1>8, <1>9 DEF Channel!Accept

(* usb_transport_send_bytes succeeds or fails.                             *)
LEMMA SentStep ==
  ASSUME IInv, UsbSent
  PROVE  Channel!Deliver
<1>1. /\ pc["usb"] = "send" /\ pc'["usb"] # "send" /\ pc'["camera"] = pc["camera"]
      /\ sent' = Append(sent, data[held["usb"]])
      /\ UNCHANGED <<queue, held, data, sequence>>
  BY DEF UsbSent, IInv, TypeOK
<1>2. /\ InFlight # <<>> /\ data[held["usb"]] = Head(InFlight)
      /\ InFlight' = Tail(InFlight)
  BY <1>1, UsbReturns
<1> QED BY <1>1, <1>2 DEF Channel!Deliver

(* A packet whose sending fails is the oldest one, and is lost.            *)
LEMMA LoseStep ==
  ASSUME IInv, UsbError \/ UsbDisconnected
  PROVE  Channel!Lose
<1>1. /\ pc["usb"] = "send" /\ pc'["usb"] # "send" /\ pc'["camera"] = pc["camera"]
      /\ UNCHANGED <<queue, held, data, sequence, sent>>
  BY DEF UsbError, Fail, UsbDisconnected, IInv, TypeOK
<1>2. /\ InFlight # <<>> /\ InFlight' = Tail(InFlight)
  BY <1>1, UsbReturns
<1> QED BY <1>1, <1>2 DEF Channel!Lose

(* Without threads, an empty action queue is an empty channel.             *)
LEMMA EmptyNow ==
  ASSUME queue["action"] = <<>>, pc["usb"] # "send", pc["camera"] # "publish"
  PROVE  InFlight = <<>>
<1>1. /\ UsbPart = <<>> /\ CameraPart = <<>> /\ QueuePart = <<>>
  BY DEF UsbPart, CameraPart, QueuePart, Packets
<1>2. InFlight = UsbPart \o QueuePart \o CameraPart
  BY DEF InFlight, UsbPart, QueuePart, CameraPart, Packets
<1> QED BY <1>1, <1>2

(* The same after the step.                                                *)
LEMMA EmptyNext ==
  ASSUME queue'["action"] = <<>>, pc'["usb"] # "send", pc'["camera"] # "publish"
  PROVE  InFlight' = <<>>
<1>1. /\ UsbPart' = <<>> /\ CameraPart' = <<>> /\ QueuePart' = <<>>
  BY DEF UsbPart, CameraPart, QueuePart, Packets
<1> QED BY <1>1, InFlightNext

(* frame_queue_init and frame_queue_cleanup empty the queues when no       *)
(* thread runs.                                                            *)
LEMMA DiscardStep ==
  ASSUME IInv, QueueInit \/ DestroySync
  PROVE  Channel!Discard
<1>1. \A w \in Workers : pc[w] \in {"none", "exited"}
  BY DEF QueueInit, DestroySync, At, IInv, LifeInv, Before, After
<1>2. /\ queue' = EmptyQueues /\ sequence' = sequence /\ sent' = sent
      /\ pc'["usb"] = pc["usb"] /\ pc'["camera"] = pc["camera"]
  BY DEF QueueInit, DestroySync, Goto, IInv, TypeOK
<1>3. InFlight' = <<>>
  BY <1>1, <1>2, EmptyNext DEF EmptyQueues
<1> QED BY <1>2, <1>3 DEF Channel!Discard

(* The program runs again.                                                 *)
LEMMA ReopenStep ==
  ASSUME IInv, Relaunch
  PROVE  Channel!Reopen
<1>1. /\ queue = EmptyQueues /\ queue' = queue
      /\ \A w \in Workers : pc[w] \in {"none", "exited"}
  BY DEF Relaunch, At, IInv, LifeInv, FlowInv, After
<1>2. /\ pc' = [t \in Threads |-> IF t = "main" THEN "init" ELSE "none"]
      /\ sequence' = 0 /\ sent' = <<>>
  BY DEF Relaunch
<1>3. InFlight = <<>>
  BY <1>1, EmptyNow DEF EmptyQueues
<1>4. InFlight' = <<>>
  BY <1>1, <1>2, EmptyNext DEF EmptyQueues
<1> QED BY <1>2, <1>3, <1>4 DEF Channel!Reopen

(* All the other steps are quiet.                                          *)
LEMMA QuietSteps ==
  ASSUME IInv, [Next]_vars,
         ~UsbTake, ~CameraPublish, ~PackFrame, ~UsbSent, ~UsbError,
         ~UsbDisconnected, ~QueueInit, ~DestroySync, ~Relaunch
  PROVE  Quiet
<1>0. /\ pc \in [Threads -> WorkerPoints \cup MainPoints]
      /\ queue \in [Queues -> Seq(Buffers)]
      /\ held \in [Workers -> Buffers \cup {NoBuffer}]
      /\ waiters \in SUBSET Workers
      /\ \A w \in Workers : w \in waiters <=> pc[w] = "wait"
      /\ pc["camera"] # "send" /\ pc["usb"] # "publish"
  BY DEF IInv, TypeOK, WaitInv, HeldInv
<1>1. CASE \E t \in Threads : Acquire(t)
  BY <1>1 DEF Acquire, Quiet
<1>2. CASE \E w \in Workers : SpuriousWakeup(w)
  BY <1>0, <1>2 DEF SpuriousWakeup, Wake, Quiet
<1>3. CASE \E w \in Workers : Top(w) \/ Wait(w) \/ Leave(w)
  BY <1>0, <1>3 DEF Top, Wait, Leave, Locked, Quiet
<1>4. CASE \E w \in Workers : Stop(w)
  BY <1>0, <1>4 DEF Stop, SetShutdown, Wake, Locked, Quiet
<1>5. CASE \E w \in Workers : Surrender(w)
  BY <1>0, <1>5 DEF Surrender, Locked, frame_queue_push, Quiet
<1>6. CASE CameraTake
  BY <1>0, <1>6 DEF CameraTake, Take, Locked, Input, frame_queue_pull, Quiet
<1>7. CASE CameraError
  BY <1>0, <1>7 DEF CameraError, Fail, Quiet
<1>8. CASE CameraTimeout \/ CameraFrame \/ PackError
  BY <1>0, <1>8 DEF CameraTimeout, CameraFrame, PackError, Quiet
<1>9. CASE CameraGiveBack
  BY <1>0, <1>9 DEF CameraGiveBack, Locked, frame_queue_push, Quiet
<1>10. CASE UsbGiveBack
  <2>1. PICK woken \in SUBSET waiters : Wake(woken, [pc EXCEPT !["usb"] = "top"])
    BY <1>10 DEF UsbGiveBack, Signal
  <2>2. /\ pc'["usb"] # "send" /\ pc["usb"] # "send"
        /\ pc'["camera"] = "publish" <=> pc["camera"] = "publish"
    BY <2>1, <1>0, <1>10 DEF Wake, UsbGiveBack, Locked
  <2> QED BY <2>2, <1>0, <1>10 DEF UsbGiveBack, frame_queue_push, Quiet
<1>11. CASE AllocateBuffers \/ CreateCameraThread \/ CreateUsbThread
  BY <1>0, <1>11 DEF AllocateBuffers, CreateCameraThread, CreateUsbThread, At, Goto,
                     IInv, LifeInv, Before, Quiet
<1>12. CASE FillEmptyQueue
  BY <1>0, <1>12 DEF FillEmptyQueue, Goto, Quiet
<1>13. CASE AbortInit \/ MainStop \/ ThreadsCleanup \/ QueueCleanup
  BY <1>0, <1>13 DEF AbortInit, MainStop, ThreadsCleanup, QueueCleanup, SetShutdown,
                     Wake, Locked, Quiet
<1>14. CASE AbortJoin \/ Monitor \/ JoinCamera \/ JoinUsb \/ FreeBuffers
            \/ SequentialMode
  BY <1>0, <1>14 DEF AbortJoin, Monitor, JoinCamera, JoinUsb, FreeBuffers,
                     SequentialMode, Goto, Quiet
<1>15. CASE SignalArrives \/ HandlerLock \/ HandlerLockDead
  BY <1>0, <1>15 DEF SignalArrives, HandlerLock, HandlerLockDead, Quiet
<1>16. CASE HandlerShutdown
  BY <1>0, <1>16 DEF HandlerShutdown, SetShutdown, Wake, Quiet
<1>17. CASE UNCHANGED vars
  BY <1>17 DEF vars, Quiet
<1> QED
  BY <1>1, <1>2, <1>3, <1>4, <1>5, <1>6, <1>7, <1>8, <1>9, <1>10, <1>11, <1>12,
     <1>13, <1>14, <1>15, <1>16, <1>17
  DEF Next, CameraThread, UsbThread, MainThread, SignalHandler, Terminated,
      CameraTop, CameraWait, CameraLeave, CameraStop, CameraSurrender,
      UsbTop, UsbWait, UsbLeave, UsbStop, UsbSurrender

(* Every step of the pipeline is a step of the channel or changes nothing  *)
(* that the channel shows.                                                 *)
LEMMA ChannelStep ==
  ASSUME IInv, [Next]_vars
  PROVE  [Channel!Next]_(Channel!chan)
<1>1. CASE UsbTake \/ CameraPublish
  BY <1>1, TakeStep, PublishStep DEF Channel!chan
<1>2. CASE PackFrame
  BY <1>2, PackStep DEF Channel!Next
<1>3. CASE UsbSent
  BY <1>3, SentStep DEF Channel!Next
<1>4. CASE UsbError \/ UsbDisconnected
  BY <1>4, LoseStep DEF Channel!Next
<1>5. CASE QueueInit \/ DestroySync
  BY <1>5, DiscardStep DEF Channel!Next
<1>6. CASE Relaunch
  BY <1>6, ReopenStep DEF Channel!Next
<1>7. CASE ~( \/ UsbTake \/ CameraPublish \/ PackFrame \/ UsbSent \/ UsbError
              \/ UsbDisconnected \/ QueueInit \/ DestroySync \/ Relaunch)
  BY <1>7, QuietSteps, QuietStep DEF Channel!chan
<1> QED BY <1>1, <1>2, <1>3, <1>4, <1>5, <1>6, <1>7

(* Nothing is in the channel before the program runs.                      *)
LEMMA ChannelStart == Init => Channel!Init
<1> SUFFICES ASSUME Init PROVE Channel!Init
  OBVIOUS
<1>1. InFlight = <<>>
  BY EmptyNow DEF Init, EmptyQueues
<1> QED BY <1>1 DEF Init, Channel!Init

(* The threads, the queues and every error path of FramePipeline implement *)
(* the channel of FrameChannel, which holds at most NumBuffers packets,    *)
(* loses some, and never reorders, repeats or invents one.                 *)
THEOREM Refinement == Spec => ImplementsChannel
<1>1. Init => Channel!Init
  BY ChannelStart
<1>2. IInv /\ [Next]_vars => [Channel!Next]_(Channel!chan)
  BY ChannelStep
<1> QED BY <1>1, <1>2, Invariance, PTL DEF Spec, ImplementsChannel, Channel!Spec

-----------------------------------------------------------------------------
(* The order on the wire follows from the channel alone.                   *)

(* All the numbers in s are below n.                                       *)
Below(s, n) == \A i \in DOMAIN s : s[i] < n

(* WireInOrder, of any channel.                                            *)
InOrder(n, p, d) == Increasing(d \o p) /\ Below(d \o p, n)

(* InOrder, apart for what was delivered and what is pending.              *)
LEMMA OrderParts ==
  ASSUME NEW d \in Seq(Nat), NEW p \in Seq(Nat), NEW n \in Nat
  PROVE  InOrder(n, p, d)
           <=> /\ Increasing(d) /\ Below(d, n) /\ Increasing(p) /\ Below(p, n)
               /\ \A i \in DOMAIN d, j \in DOMAIN p : d[i] < p[j]
<1> DEFINE s == d \o p  a == Len(d)  b == Len(p)
<1>1. /\ a \in Nat /\ b \in Nat /\ DOMAIN d = 1 .. a /\ DOMAIN p = 1 .. b
      /\ s \in Seq(Nat) /\ DOMAIN s = 1 .. a + b
      /\ \A i \in 1 .. a + b : s[i] = IF i <= a THEN d[i] ELSE p[i - a]
  <2>1. /\ s \in Seq(Nat) /\ Len(s) = a + b
        /\ \A i \in 1 .. a + b : s[i] = IF i <= a THEN d[i] ELSE p[i - a]
    BY ConcatProperties
  <2>2. a \in Nat /\ b \in Nat /\ DOMAIN d = 1 .. a /\ DOMAIN p = 1 .. b
    OBVIOUS
  <2> HIDE DEF s, a, b
  <2> QED BY <2>1, <2>2
<1> HIDE DEF s, a, b
<1>2. /\ \A i \in 1 .. a : i \in 1 .. a + b /\ s[i] = d[i]
      /\ \A j \in 1 .. b : a + j \in 1 .. a + b /\ s[a + j] = p[j]
  <2>1. ASSUME NEW i \in 1 .. a PROVE i \in 1 .. a + b /\ s[i] = d[i]
    BY <1>1
  <2>2. ASSUME NEW j \in 1 .. b PROVE a + j \in 1 .. a + b /\ s[a + j] = p[j]
    <3>1. a + j \in 1 .. a + b /\ ~(a + j <= a) /\ (a + j) - a = j
      BY <1>1
    <3> QED BY <3>1, <1>1
  <2> QED BY <2>1, <2>2
<1>3. ASSUME Increasing(s), Below(s, n)
      PROVE  /\ Increasing(d) /\ Below(d, n) /\ Increasing(p) /\ Below(p, n)
             /\ \A i \in DOMAIN d, j \in DOMAIN p : d[i] < p[j]
  <2>1. \A i, j \in 1 .. a + b : i < j => s[i] < s[j]
    BY <1>1, <1>3 DEF Increasing
  <2>2. \A i \in 1 .. a + b : s[i] < n
    BY <1>1, <1>3 DEF Below
  <2>3. ASSUME NEW i \in 1 .. a, NEW j \in 1 .. a, i < j PROVE d[i] < d[j]
    BY <2>1, <2>3, <1>2
  <2>4. ASSUME NEW i \in 1 .. b, NEW j \in 1 .. b, i < j PROVE p[i] < p[j]
    <3>1. a + i < a + j
      BY <2>4, <1>1
    <3> QED BY <3>1, <2>1, <1>2
  <2>5. ASSUME NEW i \in 1 .. a, NEW j \in 1 .. b PROVE d[i] < p[j]
    <3>1. i < a + j
      BY <1>1
    <3> QED BY <3>1, <2>1, <1>2
  <2>6. (\A i \in 1 .. a : d[i] < n) /\ (\A j \in 1 .. b : p[j] < n)
    BY <2>2, <1>2
  <2> QED BY <2>3, <2>4, <2>5, <2>6, <1>1 DEF Increasing, Below
<1>4. ASSUME Increasing(d), Below(d, n), Increasing(p), Below(p, n),
             \A i \in DOMAIN d, j \in DOMAIN p : d[i] < p[j]
      PROVE  Increasing(s) /\ Below(s, n)
  <2>1. ASSUME NEW i \in 1 .. a + b
        PROVE  \/ i \in 1 .. a /\ s[i] = d[i]
               \/ i - a \in 1 .. b /\ s[i] = p[i - a] /\ i > a
    BY <1>1
  <2>2. ASSUME NEW i \in 1 .. a + b PROVE s[i] < n
    BY <2>1, <1>1, <1>4 DEF Below
  <2>3. ASSUME NEW i \in 1 .. a + b, NEW j \in 1 .. a + b, i < j PROVE s[i] < s[j]
    <3>1. CASE i \in 1 .. a /\ j \in 1 .. a
      BY <3>1, <2>3, <1>1, <1>2, <1>4 DEF Increasing
    <3>2. CASE i \in 1 .. a /\ j > a
      <4>1. j - a \in 1 .. b /\ s[j] = p[j - a] /\ s[i] = d[i]
        BY <3>2, <2>1, <1>1, <1>2
      <4> QED BY <4>1, <3>2, <1>1, <1>4
    <3>3. CASE i > a /\ j > a
      <4>1. /\ j - a \in 1 .. b /\ s[j] = p[j - a] /\ i - a \in 1 .. b /\ s[i] = p[i - a]
            /\ i - a < j - a
        BY <3>3, <2>1, <2>3, <1>1
      <4> QED BY <4>1, <1>1, <1>4 DEF Increasing
    <3>4. /\ i \in Nat /\ j \in Nat /\ i >= 1 /\ j >= 1
      BY <1>1
    <3>5. \/ i \in 1 .. a /\ j \in 1 .. a
          \/ i \in 1 .. a /\ j > a
          \/ i > a /\ j > a
      BY <3>4, <2>3, <1>1
    <3> QED BY <3>1, <3>2, <3>3, <3>5
  <2> QED BY <2>2, <2>3, <1>1 DEF Increasing, Below
<1> QED BY <1>3, <1>4 DEF InOrder, s

(* A channel in order stays in order.                                      *)
LEMMA ChannelKeepsOrder ==
  ASSUME sequence \in Nat, InFlight \in Seq(Nat), sent \in Seq(Nat),
         InOrder(sequence, InFlight, sent), Channel!Next
  PROVE  InOrder(sequence', InFlight', sent')
<1> DEFINE n == sequence  p == InFlight  d == sent
<1>1. /\ Increasing(d) /\ Below(d, n) /\ Increasing(p) /\ Below(p, n)
      /\ \A i \in DOMAIN d, j \in DOMAIN p : d[i] < p[j]
  BY OrderParts
<1>2. /\ Len(p) \in Nat /\ DOMAIN p = 1 .. Len(p)
      /\ Len(d) \in Nat /\ DOMAIN d = 1 .. Len(d)
  OBVIOUS
<1>t. ASSUME p # <<>>
      PROVE  /\ Head(p) \in Nat /\ Tail(p) \in Seq(Nat) /\ Head(p) = p[1]
             /\ 1 \in DOMAIN p /\ DOMAIN Tail(p) = 1 .. Len(p) - 1
             /\ \A i \in DOMAIN Tail(p) : i + 1 \in DOMAIN p /\ Tail(p)[i] = p[i + 1]
  <2>1. /\ Head(p) \in Nat /\ Tail(p) \in Seq(Nat) /\ Len(Tail(p)) = Len(p) - 1
        /\ \A i \in 1 .. Len(Tail(p)) : Tail(p)[i] = p[i + 1]
    BY <1>t, HeadTailProperties
  <2>2. Len(p) >= 1 /\ Head(p) = p[1]
    BY <1>t, <1>2, EmptySeq
  <2>3. DOMAIN Tail(p) = 1 .. Len(p) - 1
    BY <2>1, <1>2
  <2> QED BY <2>1, <2>2, <2>3, <1>2
<1>u. ASSUME p # <<>>
      PROVE  /\ Increasing(Tail(p)) /\ Below(Tail(p), n)
             /\ \A i \in DOMAIN d, j \in DOMAIN Tail(p) : d[i] < Tail(p)[j]
             /\ \A j \in DOMAIN Tail(p) : Head(p) < Tail(p)[j]
  <2>1. /\ Head(p) = p[1] /\ 1 \in DOMAIN p /\ DOMAIN Tail(p) = 1 .. Len(p) - 1
        /\ \A i \in DOMAIN Tail(p) : i + 1 \in DOMAIN p /\ Tail(p)[i] = p[i + 1]
    BY <1>u, <1>t
  <2> DEFINE t == Tail(p)
  <2>2. /\ Head(p) = p[1] /\ 1 \in DOMAIN p /\ DOMAIN t = 1 .. Len(p) - 1
        /\ \A i \in DOMAIN t : i + 1 \in DOMAIN p /\ t[i] = p[i + 1]
    BY <2>1
  <2> HIDE DEF t, p
  <2>3. ASSUME NEW i \in DOMAIN t, NEW j \in DOMAIN t, i < j PROVE t[i] < t[j]
    <3>1. i + 1 < j + 1
      BY <2>2, <2>3, <1>2
    <3> QED BY <3>1, <2>2, <1>1 DEF Increasing
  <2>4. ASSUME NEW j \in DOMAIN t PROVE t[j] < n /\ Head(p) < t[j]
    <3>1. 1 < j + 1
      BY <2>2, <1>2
    <3> QED BY <3>1, <2>2, <1>1 DEF Increasing, Below
  <2>5. ASSUME NEW i \in DOMAIN d, NEW j \in DOMAIN t PROVE d[i] < t[j]
    BY <2>2, <1>1
  <2> QED BY <2>3, <2>4, <2>5 DEF t, Increasing, Below
<1>a. ASSUME NEW s \in Seq(Nat), NEW e \in Nat, NEW m \in Nat,
             Increasing(s), Below(s, e), e < m
      PROVE  /\ Append(s, e) \in Seq(Nat) /\ Increasing(Append(s, e))
             /\ Below(Append(s, e), m)
             /\ DOMAIN Append(s, e) = 1 .. Len(s) + 1 /\ Len(s) \in Nat
             /\ \A i \in 1 .. Len(s) : Append(s, e)[i] = s[i]
             /\ Append(s, e)[Len(s) + 1] = e
  <2>1. /\ Append(s, e) \in Seq(Nat)
        /\ DOMAIN Append(s, e) = 1 .. Len(s) + 1
        /\ \A i \in 1 .. Len(s) : Append(s, e)[i] = s[i]
        /\ Append(s, e)[Len(s) + 1] = e
        /\ Len(s) \in Nat /\ DOMAIN s = 1 .. Len(s)
    OBVIOUS
  <2>2. \A i \in 1 .. Len(s) : s[i] < e /\ s[i] \in Nat
    <3>1. \A i \in 1 .. Len(s) : s[i] \in Nat
      OBVIOUS
    <3> HIDE DEF InOrder
    <3>2. \A i \in DOMAIN s : s[i] < e
      BY ONLY <1>a DEF Below
    <3> QED BY ONLY <2>1, <3>1, <3>2
  <2>3. Increasing(Append(s, e))
    BY <2>1, <2>2, <1>a DEF Increasing
  <2>4. Below(Append(s, e), m)
    <3>1. ASSUME NEW i \in 1 .. Len(s) + 1 PROVE Append(s, e)[i] < m
      <4>1. CASE i \in 1 .. Len(s)
        BY <4>1, <2>1, <2>2, <1>a
      <4>2. CASE i = Len(s) + 1
        BY <4>2, <2>1, <1>a
      <4> QED BY <4>1, <4>2, <2>1
    <3> QED BY <3>1, <2>1 DEF Below
  <2> QED BY <2>1, <2>3, <2>4
<1>3. CASE Channel!Accept
  <2>1. /\ p' = Append(p, n) /\ n' = n + 1 /\ d' = d
    BY <1>3 DEF Channel!Accept
  <2> HIDE DEF p, d, n
  <2>2. /\ p' \in Seq(Nat) /\ Increasing(p') /\ Below(p', n')
        /\ DOMAIN p' = 1 .. Len(p) + 1
        /\ \A i \in 1 .. Len(p) : p'[i] = p[i]
        /\ p'[Len(p) + 1] = n
    <3>1. n \in Nat /\ p \in Seq(Nat) /\ n + 1 \in Nat /\ n < n + 1
      BY DEF n, p
    <3> QED BY <3>1, <2>1, <1>1, <1>a
  <2>3. d \in Seq(Nat) /\ n \in Nat /\ d' \in Seq(Nat)
    BY <2>1 DEF d, n
  <2>4. Increasing(d') /\ Below(d', n')
    BY <2>1, <2>3, <1>1, <1>2 DEF Below
  <2>5. \A i \in DOMAIN d', j \in DOMAIN p' : d'[i] < p'[j]
    <3>1. ASSUME NEW i \in DOMAIN d, NEW j \in 1 .. Len(p) + 1 PROVE d[i] < p'[j]
      <4>1. CASE j \in 1 .. Len(p)
        BY <4>1, <2>2, <1>1, <1>2
      <4>2. CASE j = Len(p) + 1
        BY <4>2, <2>2, <1>1 DEF Below
      <4> QED BY <4>1, <4>2, <1>2
    <3> QED BY <3>1, <2>1, <2>2
  <2>6. n' \in Nat
    BY <2>1, <2>3
  <2>7. InOrder(n', p', d')
    BY <2>2, <2>3, <2>4, <2>5, <2>6, OrderParts
  <2> QED BY <2>7 DEF n, p, d
<1>4. CASE Channel!Deliver
  <2>1. /\ p # <<>> /\ d' = Append(d, Head(p)) /\ p' = Tail(p) /\ n' = n
    BY <1>4 DEF Channel!Deliver
  <2>2. /\ Head(p) \in Nat /\ Tail(p) \in Seq(Nat) /\ Head(p) = p[1] /\ 1 \in DOMAIN p
    BY <2>1, <1>t
  <2> DEFINE h == Head(p)  t == Tail(p)
  <2>3. /\ Increasing(t) /\ Below(t, n)
        /\ \A i \in DOMAIN d, j \in DOMAIN t : d[i] < t[j]
        /\ \A j \in DOMAIN t : h < t[j]
    BY <2>1, <1>u
  <2>4. /\ h \in Nat /\ t \in Seq(Nat) /\ h < n /\ Below(d, h)
        /\ n \in Nat /\ d \in Seq(Nat)
    BY <2>2, <1>1 DEF Below
  <2> HIDE DEF h, t, p, d, n
  <2>5. /\ Append(d, h) \in Seq(Nat) /\ Increasing(Append(d, h)) /\ Below(Append(d, h), n)
        /\ DOMAIN Append(d, h) = 1 .. Len(d) + 1
        /\ \A i \in 1 .. Len(d) : Append(d, h)[i] = d[i]
        /\ Append(d, h)[Len(d) + 1] = h
    BY <2>4, <1>1, <1>a
  <2>6. \A i \in DOMAIN Append(d, h), j \in DOMAIN t : Append(d, h)[i] < t[j]
    <3>1. ASSUME NEW i \in 1 .. Len(d) + 1, NEW j \in DOMAIN t
          PROVE  Append(d, h)[i] < t[j]
      <4>1. CASE i \in 1 .. Len(d)
        BY <4>1, <2>3, <2>5, <1>2
      <4>2. CASE i = Len(d) + 1
        BY <4>2, <2>3, <2>5
      <4> QED BY <4>1, <4>2, <1>2
    <3> QED BY <3>1, <2>5
  <2>7. InOrder(n, t, Append(d, h))
    BY <2>3, <2>4, <2>5, <2>6, OrderParts
  <2> QED BY <2>1, <2>7 DEF h, t, p, d, n
<1>5. CASE Channel!Lose
  <2>1. /\ p # <<>> /\ p' = Tail(p) /\ n' = n /\ d' = d
    BY <1>5 DEF Channel!Lose
  <2>2. InOrder(n, Tail(p), d)
    BY <2>1, <1>t, <1>u, <1>1, OrderParts
  <2> QED BY <2>1, <2>2
<1>6. CASE Channel!Discard
  <2>1. /\ p' = <<>> /\ n' = n /\ d' = d
    BY <1>6 DEF Channel!Discard
  <2>2. <<>> \in Seq(Nat) /\ Increasing(<<>>) /\ Below(<<>>, n) /\ DOMAIN <<>> = {}
    BY DEF Increasing, Below
  <2>3. InOrder(n, <<>>, d)
    BY <2>2, <1>1, OrderParts
  <2> QED BY <2>1, <2>3
<1>7. CASE Channel!Reopen
  <2>1. /\ p' = <<>> /\ n' = 0 /\ d' = <<>>
    BY <1>7 DEF Channel!Reopen
  <2>2. <<>> \in Seq(Nat) /\ Increasing(<<>>) /\ Below(<<>>, 0) /\ DOMAIN <<>> = {}
    BY DEF Increasing, Below
  <2>3. InOrder(0, <<>>, <<>>)
    BY <2>2, OrderParts
  <2> QED BY <2>1, <2>3
<1> QED BY <1>3, <1>4, <1>5, <1>6, <1>7 DEF Channel!Next

(* WireInOrder is InOrder of the channel the pipeline implements.          *)
LEMMA OrderNow == WireInOrder <=> InOrder(sequence, InFlight, sent)
BY DEF WireInOrder, InOrder, Below

(* The same after the step.                                                *)
LEMMA OrderNext == WireInOrder' <=> InOrder(sequence', InFlight', sent')
BY DEF WireInOrder, InOrder, Below, Increasing, InFlight

(* The host receives the packets in the order in which they were numbered, *)
(* none of them twice, whatever the devices do and whenever the threads    *)
(* are stopped.                                                            *)
THEOREM OrderHolds == Spec => []WireInOrder
<1>1. Init => WireInOrder
  <2> SUFFICES ASSUME Init PROVE WireInOrder
    OBVIOUS
  <2>1. InFlight = <<>> /\ sent = <<>> /\ sequence = 0
    BY ChannelStart DEF Channel!Init
  <2>2. <<>> \in Seq(Nat) /\ Increasing(<<>>) /\ Below(<<>>, 0) /\ DOMAIN <<>> = {}
    BY DEF Increasing, Below
  <2>3. InOrder(0, <<>>, <<>>)
    BY <2>2, OrderParts
  <2> QED BY <2>1, <2>3, OrderNow
<1>2. ASSUME IInv, WireInOrder, [Next]_vars PROVE WireInOrder'
  <2>1. sequence \in Nat /\ InFlight \in Seq(Nat) /\ sent \in Seq(Nat)
    BY <1>2, Types
  <2>2. CASE Channel!Next
    BY <1>2, <2>1, <2>2, ChannelKeepsOrder, OrderNow, OrderNext
  <2>3. CASE UNCHANGED Channel!chan
    <3>1. UNCHANGED <<sequence, InFlight, sent>>
      BY <2>3 DEF Channel!chan
    <3> QED BY <3>1, <1>2, OrderNow, OrderNext
  <2> QED BY <1>2, <2>2, <2>3, ChannelStep
<1> QED BY <1>1, <1>2, Invariance, PTL DEF Spec
=============================================================================
