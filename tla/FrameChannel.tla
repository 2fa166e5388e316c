----------------------------- MODULE FrameChannel -----------------------------
(***************************************************************************)
(* What the two worker threads and their two queues promise the host PC:   *)
(* a bounded channel that numbers the frames it accepts, may lose some,    *)
(* and delivers the others in the order it accepted them, each at most     *)
(* once.                                                                   *)
(***************************************************************************)
EXTENDS Naturals, Sequences

CONSTANT Capacity  \* frames the channel holds

VARIABLES
  next,      \* the number of the next frame accepted
  pending,   \* the frames accepted and not yet delivered or lost
  delivered  \* the frames delivered, oldest first

chan == <<next, pending, delivered>>

Init == next = 0 /\ pending = <<>> /\ delivered = <<>>

Accept ==
  /\ Len(pending) < Capacity
  /\ pending' = Append(pending, next)
  /\ next' = next + 1
  /\ UNCHANGED delivered

Deliver ==
  /\ pending # <<>>
  /\ delivered' = Append(delivered, Head(pending))
  /\ pending' = Tail(pending)
  /\ UNCHANGED next

(* The frame being sent is lost.                                           *)
Lose ==
  /\ pending # <<>>
  /\ pending' = Tail(pending)
  /\ UNCHANGED <<next, delivered>>

(* The channel is torn down with frames in it.                             *)
Discard ==
  /\ pending' = <<>>
  /\ UNCHANGED <<next, delivered>>

(* The empty channel starts again, with another connection.                *)
Reopen ==
  /\ pending = <<>>
  /\ next' = 0
  /\ delivered' = <<>>
  /\ UNCHANGED pending

Next == Accept \/ Deliver \/ Lose \/ Discard \/ Reopen

Spec == Init /\ [][Next]_chan
=============================================================================
