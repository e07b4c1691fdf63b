---------------------------- MODULE MC_Dashboard ----------------------------
(* A small instance of Dashboard: two asynchronous functions at a time, a *)
(* refresh of two parts, a daemon that may be restarted with another token. *)
EXTENDS Dashboard

CONSTANTS f1, f2, lbs, ports, t1, t2, notoken
=============================================================================
