---------------------------- MODULE MCFieldCodes -----------------------------
(* Instances of FieldCodes for TLC. *)
EXTENDS FieldCodes, TLC

CONSTANTS Rows6, Rows62   \* rows of the two RAID 6 layouts

MCTotal == [c \in Types |-> IF c = 1000 THEN 4 ELSE 5]
MCData == [c \in Types |-> IF c = 1000 THEN 2 ELSE 3]
MCRows == (6 :> Rows6) @@ (62 :> Rows62) @@ (13 :> 0 .. 1)
          @@ (130 :> 0 .. 2) @@ (1000 :> 0 .. 2)
=============================================================================
