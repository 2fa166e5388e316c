--------------------------- MODULE MCCameraManager ---------------------------
(* CameraManager on small instances; the configurations give the numbers.  *)
EXTENDS CameraManager
=============================================================================
