------------------------- MODULE MC_GracefulShutdown -------------------------
(* A small instance of GracefulShutdown: one always-on port, one on demand. *)
EXTENDS GracefulShutdown

CONSTANTS c1, c2
=============================================================================
