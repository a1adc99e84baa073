------------------------- MODULE MCRepairScheduler ---------------------------
EXTENDS RepairScheduler
=============================================================================
