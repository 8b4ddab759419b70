------------------------ MODULE MCMemoryAllocation ------------------------
(* Instance of MemoryAllocation for TLC.                                   *)
EXTENDS MemoryAllocation
=============================================================================
