------------------------------ MODULE MCSaadc ------------------------------
(* Three conversions per example, and any sequence of up to eleven calls:  *)
(* the driver is used, given up in the middle of a buffer and used again.  *)
EXTENDS SaadcInterrupt
=============================================================================
