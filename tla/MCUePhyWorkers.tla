--------------------------- MODULE MCUePhyWorkers ---------------------------
(* UePhyWorkers with two workers in each pool: the workers of two subframes
   overlap, and the command thread competes for one of them.                 *)
EXTENDS UePhyWorkers
=============================================================================
