------------------------------- MODULE MCLogRam -------------------------------
(* A ring that two messages overfill, chunks that do not divide it, and    *)
(* a reset at every step.                                                  *)
EXTENDS LogRam
=============================================================================
