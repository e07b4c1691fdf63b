--------------------------- MODULE MC_HealthTracker ---------------------------
(* A small instance of HealthTracker: two upstreams, two samples to flip.    *)
EXTENDS HealthTracker

CONSTANTS i1, i2, none
=============================================================================
