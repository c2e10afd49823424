-------------------------- MODULE MCAwsConnection --------------------------
(* Two good images and a faulty one, and up to two resets.                 *)
EXTENDS AwsConnection
=============================================================================
