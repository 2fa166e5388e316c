-------------------------- MODULE MCFrameQueueList --------------------------
(* FrameQueueList on small instances; the configurations give the number   *)
(* of buffers.                                                             *)
EXTENDS FrameQueueList
=============================================================================
