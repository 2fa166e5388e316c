-------------------------- MODULE CameraManagerProofs --------------------------
(***************************************************************************)
(* Proofs about CameraManager, for any number of buffers, any number the   *)
(* driver grants and any error limit.                                      *)
(***************************************************************************)
EXTENDS CameraManager, SequenceTheorems, FiniteSetTheorems, TLAPS

(* Where the camera manager is set up, before the stream is on.            *)
SettingUp == {"start", "request", "allocate", "queue", "stream"}

(* Where the camera thread is while the camera runs.                       *)
Running == {"ready", "dequeue", "requeue", "use", "stop"}

(* The buffer that is out of the driver.                                   *)
Out == IF pc = "requeue" THEN {frame} ELSE {}

(* The errors in a row stop the thread before they pass their limit.       *)
ErrorInv == pc \in {"ready", "dequeue", "requeue", "use"} => errors < ErrorLimit

(* Until the stream is on, the buffers are allocated and queued one by one,*)
(* and nothing is filled or lost.                                          *)
SetUpInv ==
  pc \in SettingUp =>
    /\ ~streaming /\ ~initialized /\ done = <<>> /\ lost = {} /\ errors = 0
    /\ pc = "start" => ~open
    /\ pc \in {"start", "request"} => ring = <<>> /\ allocated = {}
    /\ pc \in {"allocate", "queue", "stream"} =>
         /\ Len(ring) = index - 1 /\ Elements(ring) = 1 .. index - 1
         /\ allocated = 1 .. (IF pc = "queue" THEN index ELSE index - 1)
    /\ pc \in {"allocate", "queue"} => index <= count
    /\ pc = "stream" => index = count + 1

(* While the camera runs, all its buffers are allocated; each of them is   *)
(* queued, filled, out of the driver or lost, and they are as many as the  *)
(* places, so that none is in two places (OutOfDriver).                    *)
RunInv ==
  pc \in Running =>
    /\ allocated = 1 .. count
    /\ Elements(ring) \cup Elements(done) \cup Out \cup lost = 1 .. count
    /\ Len(ring) + Len(done) + (IF pc = "requeue" THEN 1 ELSE 0) + Cardinality(lost)
         = count
    /\ pc = "dequeue" => done # <<>>
    /\ pc = "requeue" => frame \in Buffers

(* The driver captures only while the camera runs, or in the clean-up when *)
(* it has refused to stop; until the free, what it owns is allocated.      *)
StreamInv ==
  /\ streaming => pc \in Running \/ (refused /\ pc \in {"free", "close"})
  /\ pc = "free" => Elements(ring) \cup Elements(done) \subseteq allocated

CameraInv ==
  /\ TypeOK /\ ErrorInv /\ SetUpInv /\ RunInv /\ StreamInv /\ ReleasedAtEnd
  /\ pc = "close" => allocated = {}

-----------------------------------------------------------------------------
(* Sequences and their elements.                                           *)
LEMMA EmptyElements == Elements(<<>>) = {} /\ Len(<<>>) = 0
BY DEF Elements

(* A queued buffer joins the elements of the queue.                        *)
LEMMA AppendElements ==
  ASSUME NEW S, NEW s \in Seq(S), NEW e \in S
  PROVE  /\ Append(s, e) \in Seq(S)
         /\ Elements(Append(s, e)) = Elements(s) \cup {e}
         /\ Len(Append(s, e)) = Len(s) + 1
         /\ Append(s, e) # <<>>
<1>1. /\ Append(s, e) \in Seq(S) /\ Len(Append(s, e)) = Len(s) + 1
      /\ \A i \in 1 .. Len(s) : Append(s, e)[i] = s[i]
      /\ Append(s, e)[Len(s) + 1] = e
  BY AppendProperties
<1>2. /\ DOMAIN s = 1 .. Len(s) /\ DOMAIN Append(s, e) = 1 .. Len(s) + 1
      /\ Len(s) \in Nat
  BY <1>1
<1>3. Append(s, e) # <<>>
  BY <1>1
<1>4. Elements(Append(s, e)) = Elements(s) \cup {e}
  BY <1>1, <1>2 DEF Elements
<1> QED BY <1>1, <1>3, <1>4

(* The first buffer leaves the elements of the queue.                      *)
LEMMA TailElements ==
  ASSUME NEW S, NEW s \in Seq(S), s # <<>>
  PROVE  /\ Head(s) \in S /\ Tail(s) \in Seq(S)
         /\ Elements(s) = Elements(Tail(s)) \cup {Head(s)}
         /\ Len(s) = Len(Tail(s)) + 1
<1>1. /\ Head(s) \in S /\ Tail(s) \in Seq(S) /\ Len(Tail(s)) = Len(s) - 1
      /\ \A i \in 1 .. Len(Tail(s)) : Tail(s)[i] = s[i + 1]
  BY HeadTailProperties
<1>2. /\ Len(s) \in Nat /\ Len(s) >= 1 /\ DOMAIN s = 1 .. Len(s)
      /\ DOMAIN Tail(s) = 1 .. Len(s) - 1 /\ Head(s) = s[1]
  BY <1>1, EmptySeq
<1>3. Elements(s) \subseteq Elements(Tail(s)) \cup {Head(s)}
  <2>1. ASSUME NEW i \in DOMAIN s PROVE s[i] \in Elements(Tail(s)) \cup {Head(s)}
    <3>1. CASE i = 1
      BY <3>1, <1>2
    <3>2. CASE i # 1
      <4>1. i - 1 \in DOMAIN Tail(s) /\ Tail(s)[i - 1] = s[i]
        BY <3>2, <1>1, <1>2
      <4> QED BY <4>1 DEF Elements
    <3> QED BY <3>1, <3>2
  <2> QED BY <2>1 DEF Elements
<1>4. Elements(Tail(s)) \cup {Head(s)} \subseteq Elements(s)
  <2>1. ASSUME NEW i \in DOMAIN Tail(s) PROVE Tail(s)[i] \in Elements(s)
    <3>1. i + 1 \in DOMAIN s /\ Tail(s)[i] = s[i + 1]
      BY <1>1, <1>2
    <3> QED BY <3>1 DEF Elements
  <2>2. Head(s) \in Elements(s)
    BY <1>2 DEF Elements
  <2> QED BY <2>1, <2>2 DEF Elements
<1> QED BY <1>1, <1>2, <1>3, <1>4

(* The elements of a sequence are elements of its set.                     *)
LEMMA ElementsType ==
  ASSUME NEW S, NEW s \in Seq(S)
  PROVE  Elements(s) \subseteq S
BY DEF Elements

(* A union has no more elements than its parts.                            *)
LEMMA UnionBound ==
  ASSUME NEW S, NEW T, IsFiniteSet(S), IsFiniteSet(T)
  PROVE  /\ IsFiniteSet(S \cup T) /\ Cardinality(S \cup T) \in Nat
         /\ Cardinality(S \cup T) <= Cardinality(S) + Cardinality(T)
<1>1. /\ IsFiniteSet(S \cup T)
      /\ Cardinality(S \cup T) = Cardinality(S) + Cardinality(T) - Cardinality(S \cap T)
  BY FS_Union
<1>2. IsFiniteSet(S \cap T)
  BY FS_Subset
<1>3. /\ Cardinality(S) \in Nat /\ Cardinality(T) \in Nat
      /\ Cardinality(S \cup T) \in Nat /\ Cardinality(S \cap T) \in Nat
  BY <1>1, <1>2, FS_CardinalityType
<1> QED BY <1>1, <1>3

(* A sequence has no more elements than places.                            *)
LEMMA ElementsBound ==
  ASSUME NEW S, NEW s \in Seq(S)
  PROVE  IsFiniteSet(Elements(s)) /\ Cardinality(Elements(s)) <= Len(s)
<1>1. s \in Surjection(1 .. Len(s), Elements(s))
  BY DEF Surjection, Elements
<1>2. Len(s) \in Nat
  OBVIOUS
<1>3. IsFiniteSet(1 .. Len(s)) /\ Cardinality(1 .. Len(s)) = Len(s)
  <2> DEFINE n == Len(s)
  <2>1. n \in Nat
    BY <1>2
  <2> HIDE DEF n
  <2>2. IsFiniteSet(1 .. n) /\ Cardinality(1 .. n) = IF 1 > n THEN 0 ELSE n - 1 + 1
    BY <2>1, FS_Interval
  <2>3. Cardinality(1 .. n) = n
    BY <2>1, <2>2
  <2> QED BY <2>2, <2>3 DEF n
<1> QED BY <1>1, <1>3, FS_Surjection

-----------------------------------------------------------------------------
USE DEF memory, driver, taken, past, thread

(* Every step keeps the types and the limit of errors.                     *)
LEMMA TypeStep ==
  ASSUME TypeOK, ErrorInv, SetUpInv, RunInv, [Next]_vars
  PROVE  TypeOK'
<1> USE RingAssumption DEF TypeOK
<1>0. <<>> \in Seq(Buffers)
  OBVIOUS
<1>1. CASE Open
  BY <1>1 DEF Open
<1>2. CASE RequestBuffers
  BY <1>2 DEF RequestBuffers
<1>3. CASE RequestFails \/ AllocateFails \/ QueueFails \/ StreamOnFails
  BY <1>0, <1>3 DEF RequestFails, AllocateFails, QueueFails, StreamOnFails, GiveUp, Close
<1>4. CASE Allocate
  <2>1. index \in Buffers
    BY <1>4 DEF Allocate, SetUpInv, SettingUp, Buffers
  <2> QED BY <2>1, <1>4 DEF Allocate
<1>5. CASE QueueBuffer
  <2>1. index \in Buffers
    BY <1>5 DEF QueueBuffer, SetUpInv, SettingUp, Buffers
  <2>2. Append(ring, index) \in Seq(Buffers)
    BY <2>1, AppendElements
  <2>3. index' \in 1 .. NumBuffers + 1
    BY <2>1, <1>5 DEF QueueBuffer, Buffers
  <2> QED BY <2>2, <2>3, <1>5 DEF QueueBuffer
<1>6. CASE StreamOn
  BY <1>6 DEF StreamOn
<1>7. CASE Poll \/ PollTimeout
  BY <1>7 DEF Poll, PollTimeout, vars
<1>8. CASE PollFails \/ DequeueFails
  <2>1. /\ errors' \in 0 .. ErrorLimit /\ pc' \in {"ready", "stop"}
        /\ UNCHANGED <<initialized, memory, driver, content, past>>
    BY <1>8 DEF PollFails, DequeueFails, CaptureError, ErrorInv
  <2> QED BY <2>1
<1>9. CASE Dequeue
  <2>1. done # <<>>
    BY <1>9 DEF Dequeue, RunInv, Running
  <2>2. Head(done) \in Buffers /\ Tail(done) \in Seq(Buffers)
    BY <2>1, TailElements
  <2> QED BY <2>2, <1>9 DEF Dequeue
<1>10. CASE Requeue
  <2>1. Append(ring, frame) \in Seq(Buffers)
    BY <1>10, AppendElements DEF Requeue, RunInv, Running
  <2> QED BY <2>1, <1>10 DEF Requeue
<1>11. CASE RequeueFails
  BY <1>11 DEF RequeueFails, CaptureError, ErrorInv, RunInv, Running
<1>12. CASE Use
  BY <1>12 DEF Use
<1>13. CASE CameraCleanup
  BY <1>0, <1>13 DEF CameraCleanup, StreamOff, StreamOffFails, Free, CloseDevice, Close
<1>14. CASE Capture
  <2>1. captured' \in 0 .. Shots - 1
    <3>1. Shots \in Nat \ {0} /\ captured + 1 \in Nat
      OBVIOUS
    <3>2. (captured + 1) % Shots \in 0 .. Shots - 1
      BY <3>1, Z3
    <3> QED BY <3>2, <1>14, Zenon DEF Capture
  <2>2. CASE ring # <<>>
    <3>1. Head(ring) \in Buffers /\ Tail(ring) \in Seq(Buffers)
      BY <2>2, TailElements
    <3>2. Append(done, Head(ring)) \in Seq(Buffers)
      BY <3>1, AppendElements
    <3> QED BY <2>1, <2>2, <3>1, <3>2, <1>14 DEF Capture
  <2>3. CASE ring = <<>> /\ done # <<>>
    <3>1. Head(done) \in Buffers /\ Tail(done) \in Seq(Buffers)
      BY <2>3, TailElements
    <3>2. Append(Tail(done), Head(done)) \in Seq(Buffers)
      BY <3>1, AppendElements
    <3> QED BY <2>1, <2>3, <3>1, <3>2, <1>14 DEF Capture
  <2> QED BY <2>2, <2>3, <1>14 DEF Capture
<1>15. CASE Ended \/ UNCHANGED vars
  BY <1>15 DEF Ended, vars
<1> QED BY <1>1, <1>2, <1>3, <1>4, <1>5, <1>6, <1>7, <1>8, <1>9, <1>10, <1>11,
           <1>12, <1>13, <1>14, <1>15 DEF Next, CameraInit, GetFrame

(* A capture moves a buffer from one end of the driver's queues to another.*)
LEMMA CaptureMoves ==
  ASSUME TypeOK, Capture
  PROVE  /\ Elements(ring') \cup Elements(done') = Elements(ring) \cup Elements(done)
         /\ Len(ring') + Len(done') = Len(ring) + Len(done)
         /\ Len(ring') \in Nat /\ Len(done') \in Nat /\ done' # <<>>
<1>0. Len(ring) \in Nat /\ Len(done) \in Nat
  BY DEF TypeOK
<1>1. CASE ring # <<>>
  <2> DEFINE h == Head(ring)  t == Tail(ring)
  <2>1. /\ h \in Buffers /\ t \in Seq(Buffers) /\ Len(t) \in Nat
        /\ Elements(ring) = Elements(t) \cup {h}
        /\ Len(ring) = Len(t) + 1
    BY <1>1, TailElements DEF TypeOK
  <2>2. ring' = t /\ done' = Append(done, h)
    BY <1>1 DEF Capture
  <2>0. done \in Seq(Buffers)
    BY DEF TypeOK
  <2> HIDE DEF h, t
  <2>3. /\ Elements(Append(done, h)) = Elements(done) \cup {h}
        /\ Len(Append(done, h)) = Len(done) + 1
        /\ Append(done, h) # <<>>
    BY <2>0, <2>1, AppendElements
  <2>4. Len(done') \in Nat /\ done' # <<>>
    BY <2>2, <2>3, <1>0
  <2>5. Elements(ring') \cup Elements(done') = Elements(ring) \cup Elements(done)
    BY <2>1, <2>2, <2>3
  <2>6. Len(ring') + Len(done') = Len(ring) + Len(done)
    BY <2>1, <2>2, <2>3, <1>0
  <2> QED BY <2>1, <2>2, <2>4, <2>5, <2>6
<1>2. CASE ring = <<>> /\ done # <<>>
  <2> DEFINE h == Head(done)  t == Tail(done)
  <2>1. /\ h \in Buffers /\ t \in Seq(Buffers)
        /\ Elements(done) = Elements(t) \cup {h}
        /\ Len(done) = Len(t) + 1
    BY <1>2, TailElements DEF TypeOK
  <2>3. ring' = ring /\ done' = Append(t, h)
    BY <1>2 DEF Capture
  <2> HIDE DEF h, t
  <2>2. /\ Elements(Append(t, h)) = Elements(t) \cup {h}
        /\ Len(Append(t, h)) = Len(t) + 1
        /\ Append(t, h) # <<>>
    BY <2>1, AppendElements
  <2> QED BY <2>1, <2>2, <2>3, <1>0
<1> QED BY <1>1, <1>2 DEF Capture

(* The flags, the errors and the end.                                      *)
LEMMA FlagStep ==
  ASSUME TypeOK, ErrorInv, SetUpInv, RunInv, StreamInv, ReleasedAtEnd,
         pc = "close" => allocated = {}, [Next]_vars
  PROVE  /\ ErrorInv' /\ StreamInv' /\ ReleasedAtEnd'
         /\ (pc = "close" => allocated = {})'
<1> USE RingAssumption
    DEF TypeOK, ErrorInv, StreamInv, ReleasedAtEnd, Running
<1>1. CASE Open \/ RequestBuffers \/ Allocate
  BY <1>1 DEF Open, RequestBuffers, Allocate, SetUpInv, SettingUp
<1>2. CASE QueueBuffer
  BY <1>2 DEF QueueBuffer, SetUpInv, SettingUp
<1>3. CASE RequestFails \/ AllocateFails \/ QueueFails
  BY <1>3 DEF RequestFails, AllocateFails, QueueFails, GiveUp, Close,
              SetUpInv, SettingUp
<1>4. CASE StreamOn
  BY <1>4 DEF StreamOn, SetUpInv, SettingUp
<1>5. CASE StreamOnFails
  BY <1>5 DEF StreamOnFails, GiveUp, Close, SetUpInv, SettingUp
<1>6. CASE Poll \/ PollTimeout \/ Dequeue \/ Requeue \/ Use
  BY <1>6 DEF Poll, PollTimeout, Dequeue, Requeue, Use, vars
<1>7. CASE PollFails \/ DequeueFails \/ RequeueFails
  BY <1>7 DEF PollFails, DequeueFails, RequeueFails, CaptureError
<1>8. CASE StreamOff \/ StreamOffFails
  <2>1. pc \in Running /\ pc # "requeue" /\ UNCHANGED <<ring, done, allocated>>
    BY <1>8 DEF StreamOff, StreamOffFails
  <2>2. Elements(ring) \cup Elements(done) \subseteq allocated
    BY <2>1 DEF RunInv, Out
  <2>3. /\ pc' = "free" /\ UNCHANGED <<open, initialized, index, count>>
        /\ streaming' => refused'
    BY <1>8 DEF StreamOff, StreamOffFails
  <2> QED BY <2>1, <2>2, <2>3
<1>9. CASE Free
  BY <1>9 DEF Free
<1>10. CASE CloseDevice
  BY <1>10 DEF CloseDevice, Close
<1>11. CASE Capture
  <2>1. UNCHANGED <<pc, allocated, open, streaming, initialized, index, count, errors, refused>>
    BY <1>11 DEF Capture
  <2>2. Elements(ring') \cup Elements(done') = Elements(ring) \cup Elements(done)
    BY <1>11, CaptureMoves
  <2> QED BY <2>1, <2>2
<1>12. CASE Ended \/ UNCHANGED vars
  BY <1>12 DEF Ended, vars
<1> QED BY <1>1, <1>2, <1>3, <1>4, <1>5, <1>6, <1>7, <1>8, <1>9, <1>10, <1>11,
           <1>12 DEF Next, CameraInit, GetFrame, CameraCleanup

(* Every step of camera_manager_init keeps what is allocated and queued so *)
(* far.                                                                    *)
LEMMA SetUpStep ==
  ASSUME TypeOK, SetUpInv, StreamInv, [Next]_vars
  PROVE  SetUpInv'
<1> USE RingAssumption DEF TypeOK, SetUpInv, SettingUp
<1>1. CASE Open
  BY <1>1 DEF Open
<1>2. CASE RequestBuffers
  BY <1>2, EmptyElements DEF RequestBuffers
<1>3. CASE Allocate
  <2>1. allocated' = 1 .. index
    <3>1. index - 1 \in Nat /\ allocated = 1 .. index - 1
      BY <1>3 DEF Allocate
    <3>2. (1 .. index - 1) \cup {index} = 1 .. index
      BY <3>1
    <3> QED BY <3>1, <3>2, <1>3 DEF Allocate
  <2> QED BY <2>1, <1>3 DEF Allocate
<1>4. CASE QueueBuffer
  <2>1. index \in Buffers /\ index <= count
    BY <1>4 DEF QueueBuffer, Buffers
  <2>2. /\ Elements(ring') = Elements(ring) \cup {index}
        /\ Len(ring') = Len(ring) + 1
    BY <2>1, <1>4, AppendElements DEF QueueBuffer
  <2>3. (1 .. index - 1) \cup {index} = 1 .. index
    <3>1. index \in Nat /\ index >= 1
      BY <2>1 DEF Buffers
    <3> HIDE DEF TypeOK, SetUpInv
    <3> QED BY <3>1
  <2>4. Elements(ring') = 1 .. index /\ Len(ring') = index
    BY <2>1, <2>2, <2>3, <1>4 DEF QueueBuffer, Buffers
  <2>5. index' = index + 1 /\ index' - 1 = index
    BY <2>1, <1>4 DEF QueueBuffer, Buffers
  <2> QED BY <2>1, <2>4, <2>5, <1>4 DEF QueueBuffer
<1>5. CASE RequestFails \/ AllocateFails \/ QueueFails \/ StreamOn \/ StreamOnFails
  BY <1>5 DEF RequestFails, AllocateFails, QueueFails, StreamOn, StreamOnFails,
              GiveUp, Close
<1>6. CASE GetFrame \/ Use
  BY <1>6 DEF GetFrame, Poll, PollTimeout, PollFails, Dequeue, DequeueFails,
              Requeue, RequeueFails, CaptureError, Use, vars
<1>7. CASE CameraCleanup
  BY <1>7 DEF CameraCleanup, StreamOff, StreamOffFails, Free, CloseDevice
<1>8. CASE Capture
  BY <1>8 DEF Capture, StreamInv, Running
<1>9. CASE Ended \/ UNCHANGED vars
  BY <1>9 DEF Ended, vars
<1> QED BY <1>1, <1>2, <1>3, <1>4, <1>5, <1>6, <1>7, <1>8, <1>9
           DEF Next, CameraInit

(* The buffer that is out of the driver is in no queue and not lost: the   *)
(* others could not be all the rest.                                       *)
LEMMA OutOfDriver ==
  ASSUME TypeOK, RunInv, pc = "requeue"
  PROVE  frame \notin Elements(ring) \cup Elements(done) \cup lost
<1> DEFINE R == Elements(ring)  D == Elements(done)  U == R \cup D \cup lost
<1>1. /\ U \cup {frame} = 1 .. count
      /\ Len(ring) + Len(done) + 1 + Cardinality(lost) = count
  BY DEF RunInv, Running, Out
<1>2. /\ ring \in Seq(Buffers) /\ done \in Seq(Buffers) /\ lost \subseteq Buffers
      /\ Len(ring) \in Nat /\ Len(done) \in Nat /\ count \in Nat
  BY RingAssumption DEF TypeOK
<1>3. /\ IsFiniteSet(R) /\ Cardinality(R) \in Nat /\ Cardinality(R) <= Len(ring)
      /\ IsFiniteSet(D) /\ Cardinality(D) \in Nat /\ Cardinality(D) <= Len(done)
  BY <1>2, ElementsBound, FS_CardinalityType
<1>4. IsFiniteSet(lost) /\ Cardinality(lost) \in Nat
  <2>1. IsFiniteSet(Buffers)
    BY RingAssumption, FS_Interval DEF Buffers
  <2> QED BY <2>1, <1>2, FS_Subset, FS_CardinalityType
<1> HIDE DEF R, D
<1>5. IsFiniteSet(U) /\ Cardinality(U) <= Cardinality(R) + Cardinality(D) + Cardinality(lost)
  <2>1. /\ IsFiniteSet(R \cup D) /\ Cardinality(R \cup D) \in Nat
        /\ Cardinality(R \cup D) <= Cardinality(R) + Cardinality(D)
    BY <1>3, UnionBound
  <2>2. /\ IsFiniteSet(U) /\ Cardinality(U) \in Nat
        /\ Cardinality(U) <= Cardinality(R \cup D) + Cardinality(lost)
    BY <2>1, <1>4, UnionBound
  <2> HIDE DEF U
  <2> QED BY <2>1, <2>2, <1>3, <1>4
<1>6. Cardinality(1 .. count) = count
  BY <1>2, FS_Interval
<1>7. ASSUME frame \in U PROVE FALSE
  <2>1. U = 1 .. count
    BY <1>1, <1>7, Zenon
  <2> HIDE DEF U
  <2> QED BY <2>1, <1>1, <1>2, <1>3, <1>4, <1>5, <1>6
<1> QED BY <1>7 DEF R, D

(* A buffer goes round: queued, filled, out, queued again, or lost.        *)
LEMMA RunStep ==
  ASSUME TypeOK, SetUpInv, RunInv, StreamInv, [Next]_vars
  PROVE  RunInv'
<1> USE DEF RunInv, Running, Out
<1>0. /\ IsFiniteSet(lost) /\ Cardinality(lost) \in Nat
      /\ Len(ring) \in Nat /\ Len(done) \in Nat
  <2>1. IsFiniteSet(Buffers)
    BY RingAssumption, FS_Interval DEF Buffers
  <2>2. IsFiniteSet(lost)
    BY <2>1, FS_Subset DEF TypeOK
  <2>3. Cardinality(lost) \in Nat
    BY <2>2, FS_CardinalityType
  <2> QED BY <2>2, <2>3 DEF TypeOK
<1>1. CASE Open \/ RequestBuffers \/ Allocate \/ QueueBuffer
  BY <1>1 DEF Open, RequestBuffers, Allocate, QueueBuffer
<1>2. CASE RequestFails \/ AllocateFails \/ QueueFails \/ StreamOnFails
  BY <1>2 DEF RequestFails, AllocateFails, QueueFails, StreamOnFails, GiveUp, Close
<1>3. CASE StreamOn
  <2>1. /\ done = <<>> /\ lost = {} /\ index = count + 1 /\ count \in Nat
        /\ allocated = 1 .. index - 1 /\ Elements(ring) = 1 .. index - 1
        /\ Len(ring) = index - 1
        /\ pc' = "ready" /\ UNCHANGED <<done, lost, count, allocated, ring>>
    BY <1>3 DEF StreamOn, SetUpInv, SettingUp, TypeOK
  <2>2. Cardinality(lost) = 0 /\ Elements(done) = {} /\ Len(done) = 0
    BY <2>1, FS_EmptySet, EmptyElements
  <2>3. index - 1 = count
    BY <2>1
  <2> QED BY <2>1, <2>2, <2>3
<1>4. CASE Poll \/ PollTimeout
  BY <1>4 DEF Poll, PollTimeout, vars
<1>5. CASE PollFails \/ DequeueFails \/ Use
  BY <1>5 DEF PollFails, DequeueFails, Use, CaptureError
<1>6. CASE Dequeue
  <2>1. done \in Seq(Buffers) /\ done # <<>>
    BY <1>6 DEF Dequeue, TypeOK
  <2>2. /\ Head(done) \in Buffers
        /\ Elements(done) = Elements(Tail(done)) \cup {Head(done)}
        /\ Len(done) = Len(Tail(done)) + 1
        /\ Len(Tail(done)) \in Nat
    BY <2>1, TailElements
  <2>3. Out = {} /\ Out' = {Head(done)}
    BY <1>6 DEF Dequeue
  <2>4. Elements(ring) \cup Elements(Tail(done)) \cup {Head(done)} \cup lost = 1 .. count
    BY <2>2, <2>3, <1>6 DEF Dequeue
  <2>5. Len(ring) + Len(Tail(done)) + 1 + Cardinality(lost) = count
    BY <2>2, <1>0, <1>6 DEF Dequeue
  <2> QED BY <2>2, <2>4, <2>5, <1>0, <1>6 DEF Dequeue
<1>7. CASE Requeue
  <2>1. frame \in Buffers /\ ring \in Seq(Buffers)
    BY <1>7 DEF Requeue, TypeOK
  <2>2. /\ Elements(Append(ring, frame)) = Elements(ring) \cup {frame}
        /\ Len(Append(ring, frame)) = Len(ring) + 1
    BY <2>1, AppendElements
  <2> QED BY <2>2, <1>0, <1>7 DEF Requeue
<1>8. CASE RequeueFails
  <2>1. frame \notin lost
    BY <1>8, OutOfDriver DEF RequeueFails
  <2>2. Cardinality(lost \cup {frame}) = Cardinality(lost) + 1
    BY <2>1, <1>0, FS_AddElement
  <2> QED BY <2>2, <1>0, <1>8 DEF RequeueFails, CaptureError
<1>9. CASE CameraCleanup
  BY <1>9 DEF CameraCleanup, StreamOff, StreamOffFails, Free, CloseDevice
<1>10. CASE Capture
  <2> SUFFICES ASSUME pc \in Running PROVE RunInv'
    BY <1>10 DEF Capture
  <2>0. pc \in Running /\ UNCHANGED <<pc, allocated, count, lost, frame>>
    BY <1>10 DEF Capture
  <2>1. /\ Elements(ring') \cup Elements(done') = Elements(ring) \cup Elements(done)
        /\ Len(ring') + Len(done') = Len(ring) + Len(done)
        /\ Len(ring') \in Nat /\ Len(done') \in Nat /\ done' # <<>>
    BY <1>10, CaptureMoves
  <2>2. Out' = Out
    BY <2>0
  <2> HIDE DEF Out
  <2>3. Elements(ring') \cup Elements(done') \cup Out' \cup lost' = 1 .. count'
    BY <2>0, <2>1, <2>2
  <2>4. Len(ring') + Len(done') + (IF pc' = "requeue" THEN 1 ELSE 0)
           + Cardinality(lost') = count'
    BY <2>0, <2>1, <2>2
  <2> QED BY <2>0, <2>1, <2>3, <2>4
<1>11. CASE Ended \/ UNCHANGED vars
  BY <1>11 DEF Ended, vars
<1> QED BY <1>1, <1>2, <1>3, <1>4, <1>5, <1>6, <1>7, <1>8, <1>9, <1>10, <1>11
           DEF Next, CameraInit, GetFrame

(* Before camera_manager_init nothing is open, queued or allocated.        *)
LEMMA CameraStart == Init => CameraInv
<1> SUFFICES ASSUME Init PROVE CameraInv
  OBVIOUS
<1>1. <<>> \in Seq(Buffers)
  OBVIOUS
<1>2. TypeOK
  <2>1. /\ NumBuffers \in Nat \ {0} /\ ErrorLimit \in Nat \ {0} /\ Shots \in Nat \ {0}
    BY RingAssumption
  <2>2. content \in [Buffers -> 0 .. Shots - 1]
    BY <2>1 DEF Init
  <2>3. 0 \in 0 .. NumBuffers /\ 1 \in 1 .. NumBuffers + 1
        /\ 0 \in 0 .. Shots - 1 /\ 0 \in 0 .. ErrorLimit
    BY <2>1
  <2> QED BY <1>1, <2>2, <2>3, Zenon DEF Init, TypeOK, NoFrame
<1> QED BY <1>2 DEF Init, CameraInv, ErrorInv, SetUpInv, SettingUp, RunInv, Running,
                    StreamInv, ReleasedAtEnd

(* CameraInv is inductive.                                                 *)
LEMMA CameraStep == CameraInv /\ [Next]_vars => CameraInv'
BY TypeStep, FlagStep, SetUpStep, RunStep DEF CameraInv

(* The ring, the stages of the initialisation and the errors in a row are  *)
(* as the invariant says in every state, whatever the device does.         *)
THEOREM CameraInvariance == Spec => []CameraInv
<1>1. Init => CameraInv
  BY CameraStart
<1>2. CameraInv /\ [Next]_vars => CameraInv'
  BY CameraStep
<1> QED BY <1>1, <1>2, PTL DEF Spec

(* Every variable of camera_manager.c has its type; the camera thread      *)
(* counts no more errors than its limit.                                   *)
THEOREM TypeCorrectness == Spec => []TypeOK
<1>1. CameraInv => TypeOK
  BY DEF CameraInv
<1> QED BY <1>1, CameraInvariance, PTL

(* While the driver captures, all the buffers it may write are allocated,  *)
(* whatever fails in the initialisation, the capture or the clean-up, with *)
(* one exception: the driver has refused VIDIOC_STREAMOFF, and the memory  *)
(* is freed and the device not yet closed.                                 *)
THEOREM LiveMemory == Spec => []DriverWritesLiveMemory
<1>1. CameraInv => DriverWritesLiveMemory
  BY DEF CameraInv, StreamInv, RunInv, DriverWritesLiveMemory
<1> QED BY <1>1, CameraInvariance, PTL

(* While the camera runs, each of its buffers is in one place, for any     *)
(* number of buffers granted: queued to the driver, filled by it, out of   *)
(* it, or refused by it when it was queued again.                          *)
THEOREM Ownership == Spec => []OneOwner
<1>1. CameraInv => OneOwner
  <2> SUFFICES ASSUME CameraInv, pc \in Running
               PROVE  /\ Elements(ring) \cup Elements(done) \cup Out \cup lost = 1 .. count
                      /\ Len(ring) + Len(done) + Cardinality(Out) + Cardinality(lost)
                           = count
    BY DEF OneOwner, Running, Out
  <2>1. Cardinality(Out) = IF pc = "requeue" THEN 1 ELSE 0
    BY FS_EmptySet, FS_Singleton DEF Out
  <2> QED BY <2>1 DEF CameraInv, RunInv
<1> QED BY <1>1, CameraInvariance, PTL

(* Whatever fails, the device ends closed and the memory freed, except that*)
(* a failure to start the stream keeps the memory.                         *)
THEOREM Released == Spec => []ReleasedAtEnd
<1>1. CameraInv => ReleasedAtEnd
  BY DEF CameraInv
<1> QED BY <1>1, CameraInvariance, PTL
=============================================================================
