--------------------------- MODULE MCTermination ---------------------------
(* Instances of Termination for TLC.                                       *)
EXTENDS Termination

=============================================================================
