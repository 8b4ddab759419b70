----------------------- MODULE MCCompactBlockMapping -----------------------
(***************************************************************************)
(* Two scenarios for CompactBlockMapping, because all tasks, blocks and    *)
(* calls of the service at once are too many states:                       *)
(*   "collisions"  one task at a time maps blocks by whose keys the two    *)
(*                 transactions collide, also one that has a compact id    *)
(*                 twice, and transactions come and go;                    *)
(*   "overlap"     two tasks map a block without collisions at once, while *)
(*                 contents arrive and transactions are seen in blocks.    *)
(***************************************************************************)
EXTENDS CompactBlockMapping, TLC

CONSTANTS h1, h2, c1, c2

VARIABLE scenario

MCHashes == {h1, h2}
MCColliding == [ids |-> <<c1, c2>>, compactOf |-> h1 :> c1 @@ h2 :> c1]
MCDistinct == [ids |-> <<c1, c2>>, compactOf |-> h1 :> c1 @@ h2 :> c2]
MCRepeated == [ids |-> <<c1, c1>>, compactOf |-> h1 :> c1 @@ h2 :> c1]
MCBlocks == {MCColliding, MCDistinct, MCRepeated}
\* Without collisions or repetitions: each compact id is one transaction's.
MCDistinctOnly == {MCDistinct}
MCSymmetry == Permutations(Tasks)

MCInit == Init /\ scenario \in {"collisions", "overlap"}

OneTaskAtATime(t) == \A other \in Tasks \ {t} : job[other].pc = "idle"

Collisions ==
    \/ \E t \in Tasks : OneTaskAtATime(t) /\ (TaskStep(t) \/ Start(t, MCColliding) \/ Start(t, MCRepeated))
    \/ \E h \in Hashes : AddTransaction(h) \/ RemoveTransaction(h)

Overlap ==
    \/ \E t \in Tasks : TaskStep(t) \/ Start(t, MCDistinct)
    \/ \E h \in Hashes : SetContents(h) \/ TrackSeen(h)

MCNext ==
    /\ \/ scenario = "collisions" /\ Collisions
       \/ scenario = "overlap" /\ Overlap
    /\ UNCHANGED scenario

MCSpec == MCInit /\ [][MCNext]_<<vars, scenario>>

\* All calls of the service at once, for configurations small enough.
AllSpec == (Init /\ scenario = "all") /\ [][Next /\ UNCHANGED scenario]_<<vars, scenario>>

=============================================================================
