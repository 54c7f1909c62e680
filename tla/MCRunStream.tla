---------------------------- MODULE MCRunStream ----------------------------
(* Module of the runs of RunStream; their constants are in the cfg files. *)
EXTENDS RunStream
=============================================================================
