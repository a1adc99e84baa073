--------------------------- MODULE MCDeviceStatus ---------------------------
(* Instances of DeviceStatus for TLC. *)
EXTENDS DeviceStatus, TLC

CONSTANTS Several   \* the types under which any number of disks may fail

MCMaxFailed == [rt \in RaidTypes |-> IF rt \in Several THEN N ELSE 1]
=============================================================================
