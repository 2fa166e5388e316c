----------------------- MODULE FramePipelineRefinement -----------------------
(***************************************************************************)
(* The threads, queues and teardown of FramePipeline implement the frame   *)
(* channel: a frame is accepted when mjpeg_pack_frame gives it a number,   *)
(* delivered or lost when usb_transport_send_bytes returns, and discarded  *)
(* when frame_queue_cleanup clears the queues.                             *)
(***************************************************************************)
EXTENDS FramePipeline

Channel == INSTANCE FrameChannel WITH
             Capacity  <- NumBuffers,
             next      <- sequence,
             pending   <- InFlight,
             delivered <- sent

(* The pipeline is a bounded channel that loses frames but never reorders, *)
(* duplicates or invents one, whatever the devices do and whenever a       *)
(* signal stops it.                                                        *)
ImplementsChannel == Channel!Spec
=============================================================================
