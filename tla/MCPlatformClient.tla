-------------------------- MODULE MCPlatformClient -------------------------
(* TLC's instance of the platform clients.                                  *)
EXTENDS PlatformClient

=============================================================================
