---------------------------- MODULE MCStripeCodes ----------------------------
(* Instances of StripeCodes for TLC. *)
EXTENDS StripeCodes, TLC

CONSTANTS Both   \* the types under which method 1 of ./recover is used too

MCMethods == [rt \in RaidTypes |-> IF rt \in Both THEN {0, 1} ELSE {0}]

(* The lists of rows of MDR-1, on which the theorems rest. *)
ASSUME ListsFit == Mdr1Lists
=============================================================================
