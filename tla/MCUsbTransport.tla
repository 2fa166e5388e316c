--------------------------- MODULE MCUsbTransport ---------------------------
(* UsbTransport on small instances; the configurations give the constants  *)
(* their values.                                                           *)
EXTENDS UsbTransport
=============================================================================
