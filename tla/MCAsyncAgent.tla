---------------------------- MODULE MCAsyncAgent ----------------------------
(* Instances of AsyncAgent for TLC.                                        *)
EXTENDS AsyncAgent

=============================================================================
