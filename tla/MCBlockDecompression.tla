------------------------ MODULE MCBlockDecompression ------------------------
(* Constants that a configuration cannot write.                           *)
EXTENDS BlockDecompression, TLC

CONSTANTS h1, h2, s1, s2, s3, null

MCSizeOf == h1 :> 2 @@ h2 :> 3
MCHashOf == s1 :> h1 @@ s2 :> h2 @@ s3 :> h2

\* A block over both sub tasks; one with a short id that is not known; one with a
\* short id too few; three that are larger than their size says, in the last part,
\* in the first part and with the merkle root; an empty one; NULL_TX_SID.
MCMessages == {
    [txs |-> <<Short, h2, Short, Short>>, sids |-> <<s1, s1, s2>>, size |-> 12],
    [txs |-> <<Short>>, sids |-> <<s3>>, size |-> 5],
    [txs |-> <<h1, h1, Short, Short>>, sids |-> <<s1>>, size |-> 10],
    [txs |-> <<h1, h1, h2, h2>>, sids |-> <<>>, size |-> 3],
    [txs |-> <<h2, h2, h2, h1>>, sids |-> <<>>, size |-> 3],
    [txs |-> <<h1, h1, h1, h1>>, sids |-> <<>>, size |-> 3],
    [txs |-> <<>>, sids |-> <<>>, size |-> 2],
    [txs |-> <<h1, Short>>, sids |-> <<null>>, size |-> 6]}
=============================================================================
