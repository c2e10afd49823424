--------------------------- MODULE MCTrainRecorder ---------------------------
(* A buffer of three samples that wraps at least once before the train     *)
(* must come, a record of up to seven samples.                             *)
EXTENDS TrainRecorder
=============================================================================
