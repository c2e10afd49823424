---------------------------- MODULE MCGnssSample ----------------------------
(* Every build; a queue and a heap of which either may be full; a request  *)
(* for each of the reasons to ignore one, one for ephemerides, one for all.*)
EXTENDS GnssSample

MCRequests == {{}, {NeQuick}, {Ephemerides}, Everything}
=============================================================================
