---------------------------- MODULE MCCheckRound ----------------------------
(* Instances of CheckRound for TLC.                                        *)
EXTENDS CheckRound

=============================================================================
