----------------------------- MODULE OrderedMaps -----------------------------
(***************************************************************************)
(* utils::common::OrderedMap: a list of items in the order they came, and  *)
(* an index of it by key.  A value is the list, a sequence of records with *)
(* the fields key and val; the index is what Position computes.            *)
(***************************************************************************)
EXTENDS Naturals, Sequences, FiniteSetsExt

Keys(map) == {map[i].key : i \in DOMAIN map}

\* The index of a key that the map has.
Position(map, k) == CHOOSE i \in DOMAIN map : map[i].key = k

\* insert and both forms of emplace leave the item of a key that is there alone.
Emplaced(map, k, v) ==
    IF k \in Keys(map) THEN map ELSE Append(map, [key |-> k, val |-> v])

\* __setitem__ of the bindings: over the value that is there, in its place, or at
\* the end.
Assigned(map, k, v) ==
    IF k \in Keys(map) THEN [map EXCEPT ![Position(map, k)].val = v] ELSE Append(map, [key |-> k, val |-> v])

\* erase of a key.
WithoutItem(map, p) == SubSeq(map, 1, p - 1) \o SubSeq(map, p + 1, Len(map))
Erased(map, k) == IF k \in Keys(map) THEN WithoutItem(map, Position(map, k)) ELSE map

\* What is left when items are erased from the front as long as the front is one
\* of those that go, given by their places in the list before the first erasure.
FrontErased(map, going) == SubSeq(map, Min((1..(Len(map) + 1)) \ going), Len(map))

=============================================================================
