----------------------------- MODULE RecencyMap -----------------------------
(***************************************************************************)
(* A JavaScript Map whose keys are kept in order of use, as the throttle   *)
(* (packages/snap/src/rpc/throttle.ts) and the rate limiter (limiter.ts)   *)
(* keep theirs: a use deletes and re-inserts its key, and a full map evicts*)
(* its first key.  A map is a sequence of entries with distinct keys, the  *)
(* least recently used first.                                              *)
(***************************************************************************)
EXTENDS Sequences, Naturals

HasKey(map, key) == \E i \in DOMAIN map : map[i].key = key

Place(map, key) == CHOOSE i \in DOMAIN map : map[i].key = key

Lookup(map, key, default) ==
    IF HasKey(map, key) THEN map[Place(map, key)].value ELSE default

\* Map.delete.
Without(map, i) == SubSeq(map, 1, i - 1) \o SubSeq(map, i + 1, Len(map))

Delete(map, key) == IF HasKey(map, key) THEN Without(map, Place(map, key)) ELSE map

\* Map.set on a key the map does not hold: it becomes the most recent.
Insert(map, key, value) == Append(map, [key |-> key, value |-> value])

\* Map.set on a key the map holds, which keeps its place.
Replace(map, key, value) ==
    [i \in DOMAIN map |-> IF map[i].key = key THEN [key |-> key, value |-> value]
                          ELSE map[i]]

Touch(map, key, value) == Insert(Delete(map, key), key, value)

\* Room for one more key in a map that may hold cap of them.
EvictIfFull(map, cap) == IF Len(map) >= cap THEN Tail(map) ELSE map
=============================================================================
