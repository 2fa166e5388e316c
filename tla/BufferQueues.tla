----------------------------- MODULE BufferQueues -----------------------------
(***************************************************************************)
(* What the linked lists of frame_queue.c stand for: two FIFO queues of    *)
(* buffers, and each worker thread with one buffer in its hands, or none.  *)
(***************************************************************************)
EXTENDS Naturals, Sequences

CONSTANTS Queues, Workers, Buffers, NoBuffer

VARIABLES
  queue,  \* the buffers of each queue, the next one to pull first
  held    \* the buffer each worker holds

pool == <<queue, held>>

(* Every buffer starts in the queue of empty ones.                         *)
Init == /\ queue = [q \in Queues |->
                     IF q = "empty" THEN [b \in Buffers |-> b] ELSE <<>>]
        /\ held = [w \in Workers |-> NoBuffer]

Pull(w, q) == /\ held[w] = NoBuffer
              /\ queue[q] # <<>>
              /\ held' = [held EXCEPT ![w] = Head(queue[q])]
              /\ queue' = [queue EXCEPT ![q] = Tail(@)]

Push(w, q) == /\ held[w] # NoBuffer
              /\ queue' = [queue EXCEPT ![q] = Append(@, held[w])]
              /\ held' = [held EXCEPT ![w] = NoBuffer]

Next == \E w \in Workers, q \in Queues : Pull(w, q) \/ Push(w, q)

Spec == Init /\ [][Next]_pool
=============================================================================
