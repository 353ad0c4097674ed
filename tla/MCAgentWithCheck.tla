-------------------------- MODULE MCAgentWithCheck --------------------------
(* Instances of AgentWithCheck for TLC.                                    *)
EXTENDS AgentWithCheck

=============================================================================
