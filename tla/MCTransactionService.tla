------------------------ MODULE MCTransactionService ------------------------
(* Instances of TransactionService for TLC.                                *)
EXTENDS TransactionService, TLC

Symmetry == Permutations(Hashes) \cup Permutations(ShortIds) \cup Permutations(Blocks)
=============================================================================
