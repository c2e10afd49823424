------------------------------ MODULE MCLisUnit ------------------------------
(* Two messages and one power failure over any number of reboots: a CFG    *)
(* cut short, a repeated command, a command that arrives with an error.    *)
EXTENDS LisUnit
=============================================================================
