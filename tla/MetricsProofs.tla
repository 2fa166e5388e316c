----------------------------- MODULE MetricsProofs -----------------------------
(***************************************************************************)
(* Proofs about Metrics, for any rate of frames, any length of a second    *)
(* and any bounds.                                                         *)
(***************************************************************************)
EXTENDS Metrics, TLAPS

(* The clock and the times the camera thread keeps of it: what it knows of *)
(* the last packet is true, and from the test of the timer to the packet   *)
(* it holds a time in a later second of the clock.                         *)
TimerInv ==
  /\ pc \in [Threads -> {"capture", "publish", "check", "uptime", "average",
                         "low", "high", "send", "take", "transmit"}]
  /\ clock \in Nat /\ last \in Nat /\ now \in Nat
  /\ last = sentAt /\ last <= clock /\ now <= clock
  /\ At("camera", "capture") => now - last < Second
  /\ pc["camera"] \in {"uptime", "average", "low", "high", "send"}
       => now \div Second > last \div Second

(* Every packet counted, queued or in the hands of the USB thread is a     *)
(* frame that was counted, and so is one that is not queued yet.           *)
CountInv ==
  /\ frames \in Nat /\ packets \in Nat /\ queued \in Nat
  /\ packets + queued + (IF At("usb", "transmit") THEN 1 ELSE 0)
             + (IF At("camera", "publish") THEN 1 ELSE 0) <= frames
  /\ PacketsWereCaptured

-----------------------------------------------------------------------------
(* Division as the code uses it.                                           *)
LEMMA Parts ==
  ASSUME NEW t \in Nat
  PROVE  /\ t = Second * (t \div Second) + (t % Second)
         /\ t % Second \in 0 .. Second - 1
         /\ t \div Second \in Nat
BY MetricsAssumption

(* A later time is in the same second or a later one.                      *)
LEMMA Monotone ==
  ASSUME NEW a \in Nat, NEW b \in Nat, a <= b
  PROVE  a \div Second <= b \div Second
<1> DEFINE x == a \div Second  y == b \div Second
           u == a % Second     v == b % Second
<1>1. /\ a = Second * x + u /\ u \in 0 .. Second - 1 /\ x \in Nat
  BY Parts
<1>2. /\ b = Second * y + v /\ v \in 0 .. Second - 1 /\ y \in Nat
  BY Parts
<1>3. Second \in Nat
  BY MetricsAssumption
<1> HIDE DEF x, y, u, v
<1>4. ASSUME x > y PROVE FALSE
  <2>1. x - y - 1 \in Nat
    BY <1>1, <1>2, <1>4
  <2>2. Second * (x - y - 1) \in Nat
    BY <2>1, <1>3
  <2>3. Second * (x - y - 1) = Second * x - Second * y - Second
    BY <1>1, <1>2, <1>3
  <2>4. Second * x \in Nat /\ Second * y \in Nat
    BY <1>1, <1>2, <1>3
  <2> QED BY <2>2, <2>3, <2>4, <1>1, <1>2, <1>3
<1> QED BY <1>1, <1>2, <1>4 DEF x, y

(* What the unsigned difference of nanoseconds leaves of the time between  *)
(* two readings: in one second of the clock it is exact, and from one      *)
(* second of the clock to a later one it is never less than a second.      *)
LEMMA ElapsedParts ==
  ASSUME NEW from \in Nat, NEW to \in Nat, from <= to
  PROVE  \/ /\ Elapsed(from, to) < Second
            /\ to - from < Second
         \/ /\ Elapsed(from, to) >= Second
            /\ to \div Second > from \div Second
<1> DEFINE x == from \div Second  y == to \div Second
           u == from % Second     v == to % Second
           e == (y - x) * Second + (IF v - u < 0 THEN Wrap + (v - u) ELSE v - u)
<1>1. /\ from = Second * x + u /\ u \in 0 .. Second - 1 /\ x \in Nat
  BY Parts
<1>2. /\ to = Second * y + v /\ v \in 0 .. Second - 1 /\ y \in Nat
  BY Parts
<1>3. Second \in Nat /\ Wrap \in Nat /\ Wrap > Second
  BY MetricsAssumption
<1>4. x <= y
  BY Monotone
<1>5. Elapsed(from, to) = e
  BY DEF Elapsed
<1>6. (e < Second /\ to - from < Second) \/ (e >= Second /\ y > x)
  <2> HIDE DEF x, y, u, v
  <2>1. CASE x = y
    <3>1. (y - x) * Second = 0
      BY <2>1, <1>1, <1>3
    <3>2. to - from = v - u
      BY <2>1, <1>1, <1>2, <1>3
    <3> QED BY <3>1, <3>2, <1>1, <1>2, <1>3
  <2>2. CASE y > x
    <3>1. y - x - 1 \in Nat
      BY <2>2, <1>1, <1>2
    <3>2. (y - x - 1) * Second \in Nat
      BY <3>1, <1>3
    <3>3. (y - x) * Second = (y - x - 1) * Second + Second
      BY <1>1, <1>2, <1>3
    <3> HIDE DEF e
    <3>4. e = (y - x - 1) * Second + Second
                + (IF v - u < 0 THEN Wrap + (v - u) ELSE v - u)
      BY <3>3 DEF e
    <3> DEFINE d == (y - x - 1) * Second
    <3>5. d \in Nat /\ e = d + Second + (IF v - u < 0 THEN Wrap + (v - u) ELSE v - u)
      BY <3>2, <3>4
    <3> HIDE DEF d
    <3> QED BY <3>5, <2>2, <1>1, <1>2, <1>3
  <2> QED BY <2>1, <2>2, <1>1, <1>2, <1>4
<1> HIDE DEF e
<1> QED BY <1>5, <1>6

-----------------------------------------------------------------------------
(* The timer.                                                              *)
LEMMA TimerInit == Init => TimerInv
<1> SUFFICES ASSUME Init PROVE TimerInv
  OBVIOUS
<1>1. clock \in Nat /\ Second \in Nat \ {0}
  BY MetricsAssumption DEF Init
<1> QED BY <1>1 DEF Init, TimerInv, At, Threads

(* TimerInv is inductive.                                                  *)
LEMMA TimerStep == TimerInv /\ [Next]_vars => TimerInv'
<1> SUFFICES ASSUME TimerInv, [Next]_vars PROVE TimerInv'
  OBVIOUS
<1> USE DEF TimerInv, At, Goto, timer, history
<1>0. Second \in Nat \ {0}
  BY MetricsAssumption
<1>1. CASE CaptureFails
  BY <1>1 DEF CaptureFails
<1>2. CASE CountFrame
  BY <1>2 DEF CountFrame, Threads
<1>3. CASE Publish
  BY <1>3 DEF Publish, Threads
<1>4. CASE TooSoon
  <2>1. clock - last < Second
    <3>1. Elapsed(last, clock) \in Int
      BY MetricsAssumption DEF Elapsed
    <3> QED BY <1>4, <3>1, <1>0, ElapsedParts DEF TooSoon
  <2> QED BY <1>4, <2>1 DEF TooSoon, Threads
<1>5. CASE ItIsTime
  <2>1. clock \div Second > last \div Second
    <3>1. Elapsed(last, clock) \in Int
      BY MetricsAssumption DEF Elapsed
    <3> QED BY <1>5, <3>1, <1>0, ElapsedParts DEF ItIsTime
  <2> QED BY <1>5, <2>1 DEF ItIsTime, Threads
<1>6. CASE get_uptime_ms
  BY <1>6 DEF get_uptime_ms, Threads
<1>7. CASE ReadPackets
  BY <1>7 DEF ReadPackets, Threads
<1>8. CASE ReadLow
  BY <1>8 DEF ReadLow, Threads
<1>9. CASE ReadHigh
  BY <1>9 DEF ReadHigh, Threads
<1>10. CASE SendMetrics
  BY <1>0, <1>10 DEF SendMetrics, Threads
<1>11. CASE UsbThread
  BY <1>11 DEF UsbThread, Take, TransmitFails, CountPacket, StoreLow, StoreHigh,
               Threads
<1>12. CASE Relaunch
  BY <1>0, <1>12 DEF Relaunch
<1>13. CASE Tick
  BY <1>13 DEF Tick
<1>14. CASE UNCHANGED vars
  BY <1>14 DEF vars
<1> QED BY <1>1, <1>2, <1>3, <1>4, <1>5, <1>6, <1>7, <1>8, <1>9, <1>10, <1>11,
           <1>12, <1>13, <1>14 DEF Next, CameraThread

(* The timer's invariant holds in every state.                             *)
THEOREM TimerInvariance == Spec => []TimerInv
<1>1. Init => TimerInv
  BY TimerInit
<1>2. TimerInv /\ [Next]_vars => TimerInv'
  BY TimerStep
<1> QED BY <1>1, <1>2, PTL DEF Spec

(* Whenever the camera thread is back at the top of its loop, less than a  *)
(* second has passed, at its last look at the timer, since the last packet *)
(* or the launch: the comparison of camera_thread_func never misses a      *)
(* packet that is due, for any number of ticks in a second.                *)
THEOREM NeverLateHolds == Spec => []NeverLate
<1>1. TimerInv => NeverLate
  BY DEF TimerInv, NeverLate
<1> QED BY <1>1, TimerInvariance, PTL

(* No two packets are sent in the same second of CLOCK_MONOTONIC, although *)
(* the nanoseconds of an earlier and a later time are subtracted unsigned. *)
THEOREM OncePerClockSecondHolds == Spec => OncePerClockSecond
<1>1. ASSUME TimerInv, [Next]_vars, number' # number
      PROVE  sentAt' \div Second > sentAt \div Second
  <2>1. SendMetrics
    BY <1>1 DEF Next, CameraThread, CaptureFails, CountFrame, Publish, TooSoon,
         ItIsTime, get_uptime_ms, ReadPackets, ReadLow, ReadHigh, UsbThread, Take,
         TransmitFails, CountPacket, StoreLow, StoreHigh, Relaunch, Tick,
         vars, camera
  <2> QED BY <1>1, <2>1 DEF SendMetrics, TimerInv, At
<1>2. TimerInv /\ [Next]_vars
        => [number' # number => sentAt' \div Second > sentAt \div Second]_vars
  BY <1>1
<1> QED BY <1>2, TimerInvariance, PTL DEF Spec, OncePerClockSecond

-----------------------------------------------------------------------------
(* The counters.                                                           *)
LEMMA CountInit == Init => CountInv
BY DEF Init, CountInv, At, Threads, PacketsWereCaptured

(* CountInv is inductive together with TimerInv, whose types it needs.     *)
LEMMA CountStep == TimerInv /\ CountInv /\ [Next]_vars => CountInv'
<1> SUFFICES ASSUME TimerInv, CountInv, [Next]_vars PROVE CountInv'
  OBVIOUS
<1>0. pc \in [Threads -> {"capture", "publish", "check", "uptime", "average",
                          "low", "high", "send", "take", "transmit"}]
  BY DEF TimerInv
<1> USE DEF CountInv, At, Goto, PacketsWereCaptured, Threads, camera, usb, history
<1>1. CASE CaptureFails
  BY <1>1 DEF CaptureFails
<1>2. CASE CountFrame
  BY <1>0, <1>2 DEF CountFrame
<1>3. CASE Publish
  BY <1>0, <1>3 DEF Publish
<1>4. CASE TooSoon \/ ItIsTime \/ get_uptime_ms \/ ReadLow \/ ReadHigh
  BY <1>0, <1>4 DEF TooSoon, ItIsTime, get_uptime_ms, ReadLow, ReadHigh
<1>5. CASE ReadPackets
  BY <1>0, <1>5 DEF ReadPackets
<1>6. CASE SendMetrics
  BY <1>0, <1>6 DEF SendMetrics
<1>7. CASE Take
  BY <1>0, <1>7 DEF Take
<1>8. CASE TransmitFails
  BY <1>0, <1>8 DEF TransmitFails
<1>9. CASE CountPacket
  BY <1>0, <1>9 DEF CountPacket
<1>10. CASE StoreLow \/ StoreHigh
  BY <1>0, <1>10 DEF StoreLow, StoreHigh
<1>11. CASE Relaunch
  BY <1>0, <1>11 DEF Relaunch
<1>12. CASE Tick
  BY <1>12 DEF Tick
<1>13. CASE UNCHANGED vars
  BY <1>13 DEF vars
<1> QED BY <1>1, <1>2, <1>3, <1>4, <1>5, <1>6, <1>7, <1>8, <1>9, <1>10, <1>11,
           <1>12, <1>13 DEF Next, CameraThread, UsbThread

(* No report claims more packets sent than frames captured: the counters   *)
(* are shared without a mutex, but a frame is counted before it is queued  *)
(* and a packet after its frame was taken out of the queue, and a relaunch *)
(* drops the queue and keeps both counters.                                *)
THEOREM PacketsWereCapturedHolds == Spec => []PacketsWereCaptured
<1>1. Init => TimerInv /\ CountInv
  BY TimerInit, CountInit
<1>2. TimerInv /\ CountInv /\ [Next]_vars => (TimerInv /\ CountInv)'
  BY TimerStep, CountStep
<1>3. CountInv => PacketsWereCaptured
  BY DEF CountInv
<1> QED BY <1>1, <1>2, <1>3, PTL DEF Spec
=============================================================================
