------------------------------ MODULE MCMetrics ------------------------------
(* Metrics on small instances; the configuration gives the sizes.          *)
EXTENDS Metrics
=============================================================================
