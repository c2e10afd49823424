---------------------------- MODULE MCTrainUpload ----------------------------
(* Packets of two samples, records of up to three samples, so up to three  *)
(* packets, one sample of padding, one press of the button.                *)
EXTENDS TrainUpload
=============================================================================
