------------------------ MODULE MCBlockCompression ------------------------
(* Constants that a configuration cannot write.                           *)
EXTENDS BlockCompression, TLC

CONSTANTS h1, h2, s1, s2, s3

MCHashes == {h1, h2}
MCHashOf == s1 :> h1 @@ s2 :> h2 @@ s3 :> h1
MCBlocks == {<<h1, h2, h1>>, <<h2>>}
=============================================================================
