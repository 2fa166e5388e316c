---------------------------- MODULE FrameQueueList ----------------------------
(***************************************************************************)
(* frame_queue.c at the level of the next pointers, with the two worker    *)
(* threads that pull and push under the mutex, one memory access at a      *)
(* time, and with the metrics sampler of camera_threads.c, which walks the *)
(* action queue without the mutex (send_metrics_packet).                   *)
(*                                                                         *)
(* Threads block in pthread_cond_wait when their queue is empty: here, the *)
(* step that enters the critical section to pull needs a non-empty queue.  *)
(*                                                                         *)
(* The definitions no action refers to (FindStopsEarly, ...) are faulty    *)
(* variants of the definition that follows them.                           *)
(***************************************************************************)
EXTENDS Integers, Sequences, FiniteSets

CONSTANT NumBuffers  \* buffers in the pool

ASSUME NumBuffersAssumption == NumBuffers \in Nat \ {0}

VARIABLES
  pc,      \* where each worker is
  mutex,   \* the worker that owns g_queue_mutex, or "free"
  head,    \* g_empty_queue and g_action_queue
  next,    \* the field next of each buffer
  held,    \* the local variable buffer of each worker
  target,  \* the queue a worker pushes to
  current, \* the local variable current of frame_queue_push
  walker,  \* the local variable current of frame_queue_depth
  count,   \* the local variable count of frame_queue_depth
  depth,   \* the last queue depth reported
  during   \* history: the depths the action queue had during the last walk

lists == <<head, next>>
local == <<held, target, current>>
walk  == <<walker, count, depth, during>>
vars  == <<pc, mutex, lists, local, walk>>

Workers == {"camera", "usb"}
Queues == {"empty", "action"}
Buffers == 1 .. NumBuffers
NULL == 0

Input == [w \in Workers |-> IF w = "camera" THEN "empty" ELSE "action"]

(* The list that starts at a node, as a sequence.                          *)
Path(first, nextOf) ==
  LET node[i \in 1 .. NumBuffers + 1] ==
        IF i = 1 THEN first
        ELSE IF node[i - 1] = NULL THEN NULL ELSE nextOf[node[i - 1]]
      length == Cardinality({i \in 1 .. NumBuffers + 1 : node[i] # NULL})
  IN  [i \in 1 .. length |-> node[i]]
-----------------------------------------------------------------------------
(* frame_queue_pull, with the lock, the unlock and the wait around it.     *)

LockPull(w) ==
  /\ pc[w] = "lockPull"
  /\ mutex = "free"
  /\ head[Input[w]] # NULL
  /\ mutex' = w
  /\ pc' = [pc EXCEPT ![w] = "unlink"]
  /\ UNCHANGED <<lists, local, walk>>

(* What the history variable notices of a step that changes the lists.     *)
Observe ==
  during' = IF pc["camera"] = "walk"
            THEN during \cup {Len(Path(head'["action"], next'))}
            ELSE during

Unlink(w) ==
  /\ pc[w] = "unlink"
  /\ held' = [held EXCEPT ![w] = head[Input[w]]]
  /\ head' = [head EXCEPT ![Input[w]] = next[@]]
  /\ pc' = [pc EXCEPT ![w] = "detach"]
  /\ UNCHANGED <<mutex, next, target, current, walker, count, depth>>
  /\ Observe

Detach(w) ==
  /\ pc[w] = "detach"
  /\ next' = [next EXCEPT ![held[w]] = NULL]
  /\ mutex' = "free"
  /\ pc' = [pc EXCEPT ![w] = "use"]
  /\ UNCHANGED <<head, local, walk>>

(* The buffer is filled or sent.  The camera thread returns it unused when *)
(* the capture or the packing fails.                                       *)
Use(w) ==
  /\ pc[w] = "use"
  /\ target' = [target EXCEPT ![w] = IF w = "camera" THEN "action" ELSE "empty"]
  /\ pc' = [pc EXCEPT ![w] = "lockPush"]
  /\ UNCHANGED <<mutex, lists, held, current, walk>>

CaptureFails ==
  /\ pc["camera"] = "use"
  /\ target' = [target EXCEPT !["camera"] = "empty"]
  /\ pc' = [pc EXCEPT !["camera"] = "lockPush"]
  /\ UNCHANGED <<mutex, lists, held, current, walk>>
-----------------------------------------------------------------------------
(* frame_queue_push, with the lock and the unlock around it.               *)

LockPush(w) ==
  /\ pc[w] = "lockPush"
  /\ mutex = "free"
  /\ mutex' = w
  /\ pc' = [pc EXCEPT ![w] = "terminate"]
  /\ UNCHANGED <<lists, local, walk>>

(* Where a worker goes after a push: the camera thread may find that it is *)
(* time to send metrics.                                                   *)
Pushed(w) ==
  /\ held' = [held EXCEPT ![w] = NULL]
  /\ mutex' = "free"
  /\ \E p \in {"lockPull"} \cup
              (IF w = "camera" /\ target[w] = "action" THEN {"sample"} ELSE {}) :
       pc' = [pc EXCEPT ![w] = p]

TerminateAtHead(w) ==
  /\ pc[w] = "terminate"
  /\ next' = [next EXCEPT ![held[w]] = head[target[w]]]
  /\ head' = [head EXCEPT ![target[w]] = held[w]]
  /\ Pushed(w)
  /\ Observe
  /\ UNCHANGED <<target, current, walker, count, depth>>

(* buf->next = NULL, and the push to an empty queue.                       *)
Terminate(w) ==
  /\ pc[w] = "terminate"
  /\ next' = [next EXCEPT ![held[w]] = NULL]
  /\ IF head[target[w]] = NULL
     THEN /\ head' = [head EXCEPT ![target[w]] = held[w]]
          /\ Pushed(w)
          /\ Observe
          /\ UNCHANGED current
     ELSE /\ current' = [current EXCEPT ![w] = head[target[w]]]
          /\ pc' = [pc EXCEPT ![w] = "find"]
          /\ UNCHANGED <<head, held, mutex, during>>
  /\ UNCHANGED <<target, walker, count, depth>>

FindStopsEarly(w) ==
  /\ pc[w] = "find"
  /\ pc' = [pc EXCEPT ![w] = "link"]
  /\ UNCHANGED <<mutex, lists, local, walk>>

(* One iteration of the search for the tail.                               *)
Find(w) ==
  /\ pc[w] = "find"
  /\ IF next[current[w]] # NULL
     THEN current' = [current EXCEPT ![w] = next[@]] /\ UNCHANGED pc
     ELSE pc' = [pc EXCEPT ![w] = "link"] /\ UNCHANGED current
  /\ UNCHANGED <<mutex, lists, held, target, walk>>

Link(w) ==
  /\ pc[w] = "link"
  /\ next' = [next EXCEPT ![current[w]] = held[w]]
  /\ Pushed(w)
  /\ UNCHANGED <<head, target, current, walker, count, depth>>
  /\ Observe
-----------------------------------------------------------------------------
(* frame_queue_depth as send_metrics_packet calls it: no mutex.            *)

Sample ==
  /\ pc["camera"] = "sample"
  /\ walker' = head["action"]
  /\ count' = 0
  /\ during' = {Len(Path(head["action"], next))}
  /\ pc' = [pc EXCEPT !["camera"] = "walk"]
  /\ UNCHANGED <<mutex, lists, local, depth>>

Step ==
  /\ pc["camera"] = "walk"
  /\ walker # NULL
  /\ count' = count + 1
  /\ walker' = next[walker]
  /\ UNCHANGED <<pc, mutex, lists, local, depth, during>>

Report ==
  /\ pc["camera"] = "walk"
  /\ walker = NULL
  /\ depth' = count
  /\ pc' = [pc EXCEPT !["camera"] = "lockPull"]
  /\ UNCHANGED <<mutex, lists, local, walker, count, during>>
-----------------------------------------------------------------------------
(* frame_queue_allocate_buffers has pushed every buffer on the empty queue.*)
Init ==
  /\ pc = [w \in Workers |-> "lockPull"]
  /\ mutex = "free"
  /\ head = [q \in Queues |-> IF q = "empty" THEN 1 ELSE NULL]
  /\ next = [b \in Buffers |-> IF b = NumBuffers THEN NULL ELSE b + 1]
  /\ held = [w \in Workers |-> NULL]
  /\ target = [w \in Workers |-> "empty"]
  /\ current = [w \in Workers |-> NULL]
  /\ walker = NULL /\ count = 0 /\ depth = 0 /\ during = {0}

Worker(w) ==
  \/ LockPull(w) \/ Unlink(w) \/ Detach(w) \/ Use(w)
  \/ LockPush(w) \/ Terminate(w) \/ Find(w) \/ Link(w)

Sampler == Sample \/ Step \/ Report

Next == (\E w \in Workers : Worker(w)) \/ CaptureFails \/ Sampler

Spec == Init /\ [][Next]_vars
-----------------------------------------------------------------------------
(* Every variable has its type.                                            *)
TypeOK ==
  /\ pc \in [Workers -> {"lockPull", "unlink", "detach", "use", "lockPush",
                         "terminate", "find", "link", "sample", "walk"}]
  /\ mutex \in Workers \cup {"free"}
  /\ head \in [Queues -> Buffers \cup {NULL}]
  /\ next \in [Buffers -> Buffers \cup {NULL}]
  /\ held \in [Workers -> Buffers \cup {NULL}]
  /\ target \in [Workers -> Queues]
  /\ current \in [Workers -> Buffers \cup {NULL}]
  /\ walker \in Buffers \cup {NULL}
  /\ count \in Nat /\ depth \in Nat /\ during \subseteq Nat

(* "Current action queue depth (0-3)": although the sampler walks the list *)
(* while the USB thread moves its nodes to the other queue, it never       *)
(* counts more nodes than there are, so that the walk also ends.           *)
DepthInRange == count <= NumBuffers /\ depth <= NumBuffers

(* "Current action queue depth": the number reported was the depth of the  *)
(* queue at some moment of the walk.                                       *)
DepthWasReal == pc["camera"] = "walk" /\ walker = NULL => count \in during

(* Taking memory accesses one by one, the lists behave as FIFO queues, and *)
(* the walk of the sampler disturbs nothing.                               *)
Fifo == INSTANCE BufferQueues WITH
          NoBuffer <- NULL,
          queue    <- [q \in Queues |-> Path(head[q], next)]

ImplementsQueues == Fifo!Spec
=============================================================================
