--------------------------- MODULE MCSequentialLoop ---------------------------
(* SequentialLoop with PerfLogger on small instances; the configuration    *)
(* gives the limits.                                                       *)
EXTENDS PerfLogger
=============================================================================
