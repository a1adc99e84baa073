---------------------------- MODULE MCRedundancy ----------------------------
(* Redundancy for TLC: the worker threads are model values. *)
EXTENDS Redundancy, TLC

CONSTANTS t1, t2
=============================================================================
