------------------------- MODULE MCCachesAndCleanup -------------------------
(***************************************************************************)
(* SenderNonces, ContentCache and BlockCleanup share no variable, so the   *)
(* run explores one of them, as part says, instead of their product; the   *)
(* others stay in one initial state.                                       *)
(*                                                                         *)
(* The transactions of SenderNonces: two of one sender and nonce, of which *)
(* the second pays twice as much, one of another sender, one that pays too *)
(* little, and one whose signature is not valid.  In BlockCleanup two      *)
(* short ids belong to h1; a block repeats both transactions, and the      *)
(* confirmations name a short id or a hash twice.                          *)
(***************************************************************************)
EXTENDS SenderNonces, ContentCache, BlockCleanup, TLC

CONSTANTS first, dearer, other, cheap, forged, alice, bob,
          h1, h2, s1, s2, s3, b1, b2

VARIABLE part

MCTxs == {first, dearer, other, cheap, forged}
MCSender == (first :> alice) @@ (dearer :> alice) @@ (other :> bob) @@ (cheap :> bob) @@ (forged :> bob)
MCPrice == (first :> 10) @@ (dearer :> 20) @@ (other :> 10) @@ (cheap :> 1) @@ (forged :> 10)
MCForm == [tx \in MCTxs |-> IF tx = forged THEN "invalid_signature" ELSE "good"]
MCSettings == {[age |-> 2, num |-> 21, den |-> 10], [age |-> 1, num |-> 11, den |-> 10]}

MCHashOf == s1 :> h1 @@ s2 :> h2 @@ s3 :> h1
MCSizeOf == h1 :> 2 @@ h2 :> 3
MCBlocks == {<<h1, h2, h1, h2>>, <<h2>>}
MCConfirmations == {
    [block |-> b1, sids |-> <<s1, s2, s1>>, hashes |-> <<h2, h1>>],
    [block |-> b2, sids |-> <<s2>>, hashes |-> <<h2, h1, h1>>]}

MCInit ==
    /\ NoncesInit
    /\ ContentsInit
    /\ Init
    /\ part \in {"nonces", "contents", "cleanup"}
    /\ part # "nonces" => setting = CHOOSE s \in Settings : TRUE
    /\ part # "cleanup" => task.proto = CHOOSE p \in Protocols : TRUE

MCNext ==
    \/ part = "nonces" /\ NoncesNext /\ UNCHANGED <<part, contentsVars, vars>>
    \/ part = "contents" /\ ContentsNext /\ UNCHANGED <<part, noncesVars, vars>>
    \/ part = "cleanup" /\ Next /\ UNCHANGED <<part, noncesVars, contentsVars>>

MCSpec == MCInit /\ [][MCNext]_<<part, noncesVars, contentsVars, vars>>

=============================================================================
