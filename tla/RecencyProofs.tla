---------------------------- MODULE RecencyProofs ----------------------------
(***************************************************************************)
(* What the operators of RecencyMap do to a map with distinct keys: which  *)
(* keys it holds afterwards, their values and their order.  The throttle,  *)
(* the limiter and the balance cache are proved from these facts.          *)
(***************************************************************************)
EXTENDS RecencyMap, SequenceTheorems, TLAPS

Distinct(map) == \A i, j \in DOMAIN map : map[i].key = map[j].key => i = j

EntriesOf(K, V) == [key : K, value : V]

\* A map from keys of K to values of V.
MapOK(map, K, V) == map \in Seq(EntriesOf(K, V)) /\ Distinct(map)

\* Every entry of map n is one of map m, and entries keep their order.
Within(n, m) ==
    \A i, j \in DOMAIN n : i <= j =>
        \E k, l \in DOMAIN m : k <= l /\ n[i] = m[k] /\ n[j] = m[l]

-----------------------------------------------------------------------------
\* A key the map holds has its entry at its place.
LEMMA PlaceFound ==
    ASSUME NEW map, NEW key, HasKey(map, key)
    PROVE  Place(map, key) \in DOMAIN map /\ map[Place(map, key)].key = key
BY DEF HasKey, Place

\* The entry of a key is where the key is found, and its value is looked up.
LEMMA EntryFound ==
    ASSUME NEW map, Distinct(map), NEW i \in DOMAIN map
    PROVE  /\ HasKey(map, map[i].key) /\ Place(map, map[i].key) = i
           /\ \A none : Lookup(map, map[i].key, none) = map[i].value
<1>1. HasKey(map, map[i].key)
  BY DEF HasKey
<1>2. Place(map, map[i].key) = i
  BY <1>1, PlaceFound DEF Distinct
<1> QED BY <1>1, <1>2 DEF Lookup

\* What is looked up is the value of an entry, or the default.
LEMMA LookupType ==
    ASSUME NEW K, NEW V, NEW map, MapOK(map, K, V), NEW key, NEW none
    PROVE  /\ HasKey(map, key) => key \in K /\ Lookup(map, key, none) \in V
           /\ ~HasKey(map, key) => Lookup(map, key, none) = none
<1>1. ASSUME HasKey(map, key) PROVE key \in K /\ Lookup(map, key, none) \in V
  <2>1. map[Place(map, key)] \in EntriesOf(K, V)
    BY <1>1, PlaceFound, ElementOfSeq, LenProperties DEF MapOK
  <2> QED BY <1>1, <2>1, PlaceFound DEF Lookup, EntriesOf
<1> QED BY <1>1 DEF Lookup

\* A map within another one has its keys with their values.
LEMMA WithinFound ==
    ASSUME NEW m, Distinct(m), NEW K, NEW V, NEW n, MapOK(n, K, V), Within(n, m),
           NEW key, HasKey(n, key)
    PROVE  HasKey(m, key) /\ \A none : Lookup(n, key, none) = Lookup(m, key, none)
<1>1. PICK j \in DOMAIN n : n[j].key = key
  BY DEF HasKey
<1>2. j <= j
  <2>1. DOMAIN n = 1 .. Len(n) /\ Len(n) \in Nat
    BY LenProperties DEF MapOK
  <2> QED BY <2>1
<1>3. PICK i \in DOMAIN m : n[j] = m[i]
  BY <1>2 DEF Within
<1> QED BY <1>1, <1>3, EntryFound DEF MapOK

\* Taking one entry out shifts those after it.
LEMMA WithoutIs ==
    ASSUME NEW S, NEW map \in Seq(S), NEW i \in 1 .. Len(map)
    PROVE  /\ Without(map, i) \in Seq(S) /\ Len(Without(map, i)) = Len(map) - 1
           /\ \A j \in 1 .. Len(map) - 1 :
                 Without(map, i)[j] = map[IF j < i THEN j ELSE j + 1]
<1> DEFINE before == SubSeq(map, 1, i - 1)
           after  == SubSeq(map, i + 1, Len(map))
<1>1. \A j \in 1 .. Len(map) : map[j] \in S
  BY ElementOfSeq
<1>2. /\ before \in Seq(S) /\ Len(before) = i - 1
      /\ \A j \in 1 .. i - 1 : before[j] = map[j]
  <2>1. Len(map) \in Nat /\ \A j \in 1 .. i - 1 : map[j] \in S
    BY <1>1, LenProperties
  <2> QED BY <2>1, SubSeqProperties
<1>3. /\ after \in Seq(S) /\ Len(after) = Len(map) - i
      /\ \A j \in 1 .. Len(map) - i : after[j] = map[i + j]
  <2>1. Len(map) \in Nat /\ \A j \in i + 1 .. Len(map) : map[j] \in S
    BY <1>1, LenProperties
  <2>2. /\ after \in Seq(S)
        /\ Len(after) = IF i + 1 <= Len(map) THEN Len(map) - (i + 1) + 1 ELSE 0
        /\ \A j \in 1 .. Len(map) - (i + 1) + 1 : after[j] = map[(i + 1) + j - 1]
    BY <2>1, SubSeqProperties
  <2> HIDE DEF after
  <2> QED BY <2>1, <2>2
<1>4. /\ Without(map, i) \in Seq(S) /\ Len(Without(map, i)) = Len(map) - 1
      /\ \A j \in 1 .. Len(map) - 1 :
            Without(map, i)[j] = IF j <= i - 1 THEN before[j] ELSE after[j - (i - 1)]
  <2>1. Len(map) \in Nat /\ Without(map, i) = before \o after
    BY LenProperties DEF Without
  <2> HIDE DEF before, after
  <2>2. Len(before) + Len(after) = Len(map) - 1
    BY <1>2, <1>3, <2>1
  <2>3. /\ before \o after \in Seq(S) /\ Len(before \o after) = Len(map) - 1
        /\ \A j \in 1 .. Len(map) - 1 : (before \o after)[j] =
              IF j <= Len(before) THEN before[j] ELSE after[j - Len(before)]
    <3>1. /\ before \o after \in Seq(S) /\ Len(before \o after) = Len(before) + Len(after)
          /\ \A j \in 1 .. Len(before) + Len(after) : (before \o after)[j] =
                IF j <= Len(before) THEN before[j] ELSE after[j - Len(before)]
      BY <1>2, <1>3, ConcatProperties, Zenon
    <3> QED BY <2>2, <3>1, Zenon
  <2> QED BY <1>2, <2>1, <2>3
<1>5. ASSUME NEW j \in 1 .. Len(map) - 1
      PROVE  Without(map, i)[j] = map[IF j < i THEN j ELSE j + 1]
  <2>1. Len(map) \in Nat
    BY LenProperties
  <2> HIDE DEF before, after
  <2>2. CASE j < i
    BY <1>2, <1>4, <2>1, <2>2
  <2>3. CASE ~(j < i)
    <3>1. j - (i - 1) \in 1 .. Len(map) - i /\ i + (j - (i - 1)) = j + 1
      BY <2>1, <2>3
    <3> QED BY <1>3, <1>4, <2>1, <2>3, <3>1
  <2> QED BY <2>2, <2>3
<1> QED BY <1>4, <1>5

\* Taking an entry out of a map leaves the others, in their order.
LEMMA WithoutMap ==
    ASSUME NEW K, NEW V, NEW map, MapOK(map, K, V), NEW i \in DOMAIN map
    PROVE  /\ MapOK(Without(map, i), K, V) /\ Within(Without(map, i), map)
           /\ Len(Without(map, i)) = Len(map) - 1
           /\ \A key : HasKey(Without(map, i), key) <=> HasKey(map, key) /\ key # map[i].key
<1> DEFINE rest == Without(map, i)
<1>1. /\ map \in Seq(EntriesOf(K, V)) /\ Distinct(map)
      /\ Len(map) \in Nat /\ DOMAIN map = 1 .. Len(map)
  BY LenProperties DEF MapOK
<1>2. /\ rest \in Seq(EntriesOf(K, V)) /\ Len(rest) = Len(map) - 1
      /\ DOMAIN rest = 1 .. Len(map) - 1
      /\ \A j \in 1 .. Len(map) - 1 : rest[j] = map[IF j < i THEN j ELSE j + 1]
  <2>1. rest \in Seq(EntriesOf(K, V)) /\ Len(rest) = Len(map) - 1
        /\ \A j \in 1 .. Len(map) - 1 : rest[j] = map[IF j < i THEN j ELSE j + 1]
    BY <1>1, WithoutIs
  <2> HIDE DEF rest
  <2> QED BY <2>1, LenProperties
<1> HIDE DEF rest
<1>3. Within(rest, map)
  <2> SUFFICES ASSUME NEW j \in DOMAIN rest, NEW k \in DOMAIN rest, j <= k
               PROVE  \E a, b \in DOMAIN map : a <= b /\ rest[j] = map[a] /\ rest[k] = map[b]
    BY DEF Within
  <2> DEFINE a == IF j < i THEN j ELSE j + 1
             b == IF k < i THEN k ELSE k + 1
  <2>1. a \in DOMAIN map /\ b \in DOMAIN map /\ a <= b
    BY <1>1, <1>2
  <2>2. rest[j] = map[a] /\ rest[k] = map[b]
    BY <1>2
  <2> HIDE DEF a, b
  <2> QED BY <2>1, <2>2
<1>4. \A j \in DOMAIN rest : \E a \in DOMAIN map \ {i} :
         rest[j] = map[a] /\ a = IF j < i THEN j ELSE j + 1
  BY <1>1, <1>2
<1>5. Distinct(rest)
  <2> SUFFICES ASSUME NEW j \in DOMAIN rest, NEW k \in DOMAIN rest, rest[j].key = rest[k].key
               PROVE  j = k
    BY DEF Distinct
  <2>1. PICK a \in DOMAIN map \ {i} : rest[j] = map[a] /\ a = IF j < i THEN j ELSE j + 1
    BY <1>4
  <2>2. PICK b \in DOMAIN map \ {i} : rest[k] = map[b] /\ b = IF k < i THEN k ELSE k + 1
    BY <1>4
  <2>3. a = b
    BY <1>1, <2>1, <2>2 DEF Distinct
  <2> QED BY <1>1, <1>2, <2>1, <2>2, <2>3
<1>6. ASSUME NEW key PROVE HasKey(rest, key) <=> HasKey(map, key) /\ key # map[i].key
  <2>1. ASSUME HasKey(rest, key) PROVE HasKey(map, key) /\ key # map[i].key
    BY <1>1, <1>4, <2>1 DEF HasKey, Distinct
  <2>2. ASSUME HasKey(map, key), key # map[i].key PROVE HasKey(rest, key)
    <3>1. PICK j \in DOMAIN map : map[j].key = key
      BY <2>2 DEF HasKey
    <3>2. CASE j < i
      BY <1>1, <1>2, <3>1, <3>2 DEF HasKey
    <3>3. CASE j > i
      <4>1. j - 1 \in DOMAIN rest /\ rest[j - 1] = map[j]
        BY <1>1, <1>2, <3>3
      <4> QED BY <3>1, <4>1 DEF HasKey
    <3>4. j # i
      BY <2>2, <3>1
    <3> QED BY <1>1, <3>2, <3>3, <3>4
  <2> QED BY <2>1, <2>2
<1> QED BY <1>2, <1>3, <1>5, <1>6 DEF MapOK, rest
\* Map.delete drops the key, and nothing else.
LEMMA DeleteMap ==
    ASSUME NEW K, NEW V, NEW map, MapOK(map, K, V), NEW key
    PROVE  /\ MapOK(Delete(map, key), K, V) /\ Within(Delete(map, key), map)
           /\ Len(Delete(map, key)) = IF HasKey(map, key) THEN Len(map) - 1 ELSE Len(map)
           /\ \A k : HasKey(Delete(map, key), k) <=> HasKey(map, k) /\ k # key
<1>1. CASE HasKey(map, key)
  <2>1. Delete(map, key) = Without(map, Place(map, key))
    BY <1>1 DEF Delete
  <2> QED BY <1>1, <2>1, PlaceFound, WithoutMap
<1>2. CASE ~HasKey(map, key)
  <2>1. Within(map, map)
    BY DEF Within
  <2> QED BY <1>2, <2>1 DEF Delete
<1> QED BY <1>1, <1>2

\* A full map gives up its first key, and only that.
LEMMA EvictMap ==
    ASSUME NEW K, NEW V, NEW map, MapOK(map, K, V), NEW cap \in Nat \ {0}
    PROVE  /\ MapOK(EvictIfFull(map, cap), K, V) /\ Within(EvictIfFull(map, cap), map)
           /\ Len(EvictIfFull(map, cap)) = IF Len(map) >= cap THEN Len(map) - 1 ELSE Len(map)
           /\ Len(map) >= cap => map # << >> /\ Head(map) = map[1]
           /\ \A k : HasKey(EvictIfFull(map, cap), k)
                        <=> HasKey(map, k) /\ ~(Len(map) >= cap /\ k = Head(map).key)
<1>1. map \in Seq(EntriesOf(K, V)) /\ Len(map) \in Nat /\ DOMAIN map = 1 .. Len(map)
  BY LenProperties DEF MapOK
<1>2. CASE Len(map) >= cap
  <2>1. 1 \in DOMAIN map /\ map # << >>
    BY <1>1, <1>2, EmptySeq
  <2>2. Head(map) = map[1]
    BY <1>1, <2>1
  <2>3. Tail(map) = Without(map, 1)
    <3>1. SubSeq(map, 1, 1 - 1) = << >>
      BY SubSeqEmpty
    <3>2. Tail(map) = SubSeq(map, 1 + 1, Len(map))
      BY <1>1, <2>1, TailIsSubSeq
    <3>3. Tail(map) \in Seq(EntriesOf(K, V))
      BY <1>1, <2>1, HeadTailProperties
    <3>4. << >> \o Tail(map) = Tail(map)
      BY <3>3, ConcatEmptySeq
    <3> QED BY <3>1, <3>2, <3>4 DEF Without
  <2>4. EvictIfFull(map, cap) = Without(map, 1)
    BY <1>2, <2>3 DEF EvictIfFull
  <2>5. /\ MapOK(Without(map, 1), K, V) /\ Within(Without(map, 1), map)
        /\ Len(Without(map, 1)) = Len(map) - 1
        /\ \A k : HasKey(Without(map, 1), k) <=> HasKey(map, k) /\ k # map[1].key
    BY <2>1, WithoutMap
  <2> QED BY <1>2, <2>1, <2>2, <2>4, <2>5
<1>3. CASE ~(Len(map) >= cap)
  <2>1. Within(map, map)
    BY DEF Within
  <2> QED BY <1>3, <2>1 DEF EvictIfFull
<1> QED BY <1>2, <1>3

\* A new key comes last, and the map keeps the others.
LEMMA InsertMap ==
    ASSUME NEW K, NEW V, NEW map, MapOK(map, K, V), NEW key \in K, NEW value \in V,
           ~HasKey(map, key)
    PROVE  /\ MapOK(Insert(map, key, value), K, V)
           /\ Len(Insert(map, key, value)) = Len(map) + 1
           /\ \A k : HasKey(Insert(map, key, value), k) <=> k = key \/ HasKey(map, k)
<1> DEFINE entry == [key |-> key, value |-> value]
           grown == Insert(map, key, value)
<1>1. map \in Seq(EntriesOf(K, V)) /\ Distinct(map)
  BY DEF MapOK
<1>2. Len(map) \in Nat /\ DOMAIN map = 1 .. Len(map)
  BY <1>1, LenProperties
<1>3. /\ grown \in Seq(EntriesOf(K, V)) /\ Len(grown) = Len(map) + 1
      /\ DOMAIN grown = 1 .. Len(map) + 1
      /\ \A i \in 1 .. Len(map) : grown[i] = map[i]
      /\ grown[Len(map) + 1].key = key
  <2>1. grown = Append(map, entry) /\ entry \in EntriesOf(K, V)
    BY DEF Insert, EntriesOf
  <2>2. entry.key = key /\ entry.value = value
    OBVIOUS
  <2> HIDE DEF grown, entry
  <2>3. /\ grown \in Seq(EntriesOf(K, V)) /\ Len(grown) = Len(map) + 1
        /\ \A i \in 1 .. Len(map) : grown[i] = map[i]
        /\ grown[Len(map) + 1] = entry
    BY <1>1, <2>1, AppendProperties
  <2>4. DOMAIN grown = 1 .. Len(grown)
    BY <2>3, LenProperties
  <2> QED BY <1>2, <2>2, <2>3, <2>4
<1> HIDE DEF grown
<1>4. \A i \in DOMAIN map : map[i].key # key
  BY DEF HasKey
<1>5. Distinct(grown)
  <2> SUFFICES ASSUME NEW i \in DOMAIN grown, NEW j \in DOMAIN grown,
                      grown[i].key = grown[j].key
               PROVE  i = j
    BY DEF Distinct
  <2>1. CASE i \in DOMAIN map /\ j \in DOMAIN map
    BY <1>1, <1>2, <1>3, <2>1 DEF Distinct
  <2>2. CASE i \in DOMAIN map /\ j \notin DOMAIN map
    <3>1. j = Len(map) + 1
      BY <1>2, <1>3, <2>2
    <3> QED BY <1>2, <1>3, <1>4, <2>2, <3>1
  <2>3. CASE i \notin DOMAIN map
    <3>1. i = Len(map) + 1
      BY <1>2, <1>3, <2>3
    <3>2. grown[j].key = key
      BY <1>3, <3>1
    <3>3. j \notin DOMAIN map
      BY <1>2, <1>3, <1>4, <3>2
    <3> QED BY <1>2, <1>3, <3>1, <3>3
  <2> QED BY <2>1, <2>2, <2>3
<1>6. \A k : HasKey(grown, k) <=> k = key \/ HasKey(map, k)
  <2>1. \A k : HasKey(grown, k) <=> \E i \in 1 .. Len(map) + 1 : grown[i].key = k
    BY <1>3 DEF HasKey
  <2>2. \A i \in 1 .. Len(map) + 1 : i \in 1 .. Len(map) \/ i = Len(map) + 1
    BY <1>2
  <2>3. Len(map) + 1 \in 1 .. Len(map) + 1 /\ \A i \in 1 .. Len(map) : i \in 1 .. Len(map) + 1
    BY <1>2
  <2> QED BY <1>2, <1>3, <2>1, <2>2, <2>3 DEF HasKey
<1>7. MapOK(grown, K, V)
  BY <1>3, <1>5 DEF MapOK
<1> QED BY <1>3, <1>6, <1>7 DEF grown

\* The new key has its value, and the others keep theirs.
LEMMA InsertValue ==
    ASSUME NEW K, NEW V, NEW map, MapOK(map, K, V), NEW key \in K, NEW value \in V,
           ~HasKey(map, key), NEW k, NEW none
    PROVE  Lookup(Insert(map, key, value), k, none)
               = IF k = key THEN value ELSE Lookup(map, k, none)
<1> DEFINE entry == [key |-> key, value |-> value]
           grown == Insert(map, key, value)
<1>1. map \in Seq(EntriesOf(K, V)) /\ Distinct(map) /\ Distinct(grown)
  BY InsertMap DEF MapOK
<1>2. Len(map) \in Nat /\ DOMAIN map = 1 .. Len(map)
  BY LenProperties DEF MapOK
<1>3. /\ DOMAIN grown = 1 .. Len(map) + 1
      /\ \A i \in DOMAIN map : grown[i] = map[i]
      /\ grown[Len(map) + 1].key = key /\ grown[Len(map) + 1].value = value
  <2>1. grown = Append(map, entry) /\ entry \in EntriesOf(K, V)
    BY DEF Insert, EntriesOf
  <2>2. entry.key = key /\ entry.value = value
    OBVIOUS
  <2> HIDE DEF grown, entry
  <2>3. /\ grown \in Seq(EntriesOf(K, V)) /\ Len(grown) = Len(map) + 1
        /\ \A i \in 1 .. Len(map) : grown[i] = map[i]
        /\ grown[Len(map) + 1] = entry
    BY <1>1, <2>1, AppendProperties
  <2>4. DOMAIN grown = 1 .. Len(grown)
    BY <2>3, LenProperties
  <2> QED BY <1>2, <2>2, <2>3, <2>4
<1>4. HasKey(grown, k) <=> k = key \/ HasKey(map, k)
  BY InsertMap
<1> HIDE DEF grown
<1>5. CASE k = key
  <2>1. Len(map) + 1 \in DOMAIN grown
    BY <1>2, <1>3
  <2>2. Lookup(grown, grown[Len(map) + 1].key, none) = grown[Len(map) + 1].value
    BY <1>1, <2>1, EntryFound
  <2> QED BY <1>3, <1>5, <2>2 DEF grown
<1>6. CASE k # key /\ HasKey(map, k)
  <2>1. PICK i \in DOMAIN map : map[i].key = k
    BY <1>6 DEF HasKey
  <2>2. i \in DOMAIN grown /\ grown[i] = map[i]
    BY <1>2, <1>3
  <2>3. /\ Lookup(grown, grown[i].key, none) = grown[i].value
        /\ Lookup(map, map[i].key, none) = map[i].value
    BY <1>1, <2>1, <2>2, EntryFound
  <2> QED BY <1>6, <2>1, <2>2, <2>3 DEF grown
<1>7. CASE k # key /\ ~HasKey(map, k)
  <2>1. Lookup(grown, k, none) = none /\ Lookup(map, k, none) = none
    BY <1>4, <1>7 DEF Lookup
  <2> QED BY <1>7, <2>1 DEF grown
<1> QED BY <1>5, <1>6, <1>7

\* A key that is used comes last.
LEMMA TouchMap ==
    ASSUME NEW K, NEW V, NEW map, MapOK(map, K, V), NEW key \in K, NEW value \in V
    PROVE  /\ MapOK(Touch(map, key, value), K, V)
           /\ Len(Touch(map, key, value)) = IF HasKey(map, key) THEN Len(map) ELSE Len(map) + 1
           /\ \A k : HasKey(Touch(map, key, value), k) <=> k = key \/ HasKey(map, k)
<1> DEFINE rest == Delete(map, key)
<1>1. /\ MapOK(rest, K, V) /\ ~HasKey(rest, key)
      /\ Len(rest) = IF HasKey(map, key) THEN Len(map) - 1 ELSE Len(map)
      /\ \A k : HasKey(rest, k) <=> HasKey(map, k) /\ k # key
  BY DeleteMap
<1>2. Len(map) \in Nat /\ Touch(map, key, value) = Insert(rest, key, value)
  BY LenProperties DEF MapOK, Touch
<1> HIDE DEF rest
<1>3. /\ MapOK(Insert(rest, key, value), K, V)
      /\ Len(Insert(rest, key, value)) = Len(rest) + 1
      /\ \A k : HasKey(Insert(rest, key, value), k) <=> k = key \/ HasKey(rest, k)
  BY <1>1, InsertMap
<1>4. Len(rest) + 1 = IF HasKey(map, key) THEN Len(map) ELSE Len(map) + 1
  BY <1>1, <1>2
<1> QED BY <1>1, <1>2, <1>3, <1>4

\* It has its new value, and the others keep theirs.
LEMMA TouchValue ==
    ASSUME NEW K, NEW V, NEW map, MapOK(map, K, V), NEW key \in K, NEW value \in V,
           NEW k, NEW none
    PROVE  Lookup(Touch(map, key, value), k, none)
               = IF k = key THEN value ELSE Lookup(map, k, none)
<1> DEFINE rest == Delete(map, key)
<1>1. /\ MapOK(rest, K, V) /\ ~HasKey(rest, key) /\ Within(rest, map)
      /\ HasKey(rest, k) <=> HasKey(map, k) /\ k # key
  BY DeleteMap
<1>2. Touch(map, key, value) = Insert(rest, key, value)
  BY DEF Touch
<1> HIDE DEF rest
<1>3. Lookup(Insert(rest, key, value), k, none) = IF k = key THEN value ELSE Lookup(rest, k, none)
  BY <1>1, InsertValue
<1>4. k # key => Lookup(rest, k, none) = Lookup(map, k, none)
  <2>1. CASE HasKey(rest, k)
    <3>1. Distinct(map) /\ Distinct(rest)
      BY <1>1 DEF MapOK
    <3> QED BY <1>1, <2>1, <3>1, WithinFound
  <2>2. CASE ~HasKey(rest, k)
    BY <1>1, <2>2 DEF Lookup
  <2> QED BY <2>1, <2>2
<1> QED BY <1>2, <1>3, <1>4

\* Setting a key in its place changes its value only.
LEMMA ReplaceMap ==
    ASSUME NEW K, NEW V, NEW map, MapOK(map, K, V), NEW key \in K, NEW value \in V
    PROVE  /\ MapOK(Replace(map, key, value), K, V)
           /\ Len(Replace(map, key, value)) = Len(map)
           /\ \A k : HasKey(Replace(map, key, value), k) <=> HasKey(map, k)
           /\ \A k, none : Lookup(Replace(map, key, value), k, none)
                  = IF k = key /\ HasKey(map, k) THEN value ELSE Lookup(map, k, none)
<1> DEFINE set == Replace(map, key, value)
<1>1. map \in Seq(EntriesOf(K, V)) /\ Distinct(map)
  BY DEF MapOK
<1>2. Len(map) \in Nat /\ DOMAIN map = 1 .. Len(map) /\ map \in [DOMAIN map -> EntriesOf(K, V)]
  BY <1>1, LenProperties
<1>3. /\ DOMAIN set = DOMAIN map
      /\ \A i \in DOMAIN map :
            /\ set[i] \in EntriesOf(K, V) /\ set[i].key = map[i].key
            /\ map[i].key = key => set[i].value = value
            /\ map[i].key # key => set[i] = map[i]
  BY <1>2 DEF Replace, EntriesOf
<1>4. set \in Seq(EntriesOf(K, V)) /\ Len(set) = Len(map)
  <2>1. set = [i \in 1 .. Len(map) |-> set[i]] /\ \A i \in 1 .. Len(map) : set[i] \in EntriesOf(K, V)
    BY <1>2, <1>3 DEF Replace
  <2> HIDE DEF set
  <2> QED BY <1>2, <2>1
<1> HIDE DEF set
<1>5. Distinct(set) /\ \A k : HasKey(set, k) <=> HasKey(map, k)
  BY <1>1, <1>3 DEF Distinct, HasKey
<1>6. ASSUME NEW k, NEW none
      PROVE  /\ k = key /\ HasKey(map, k) => Lookup(set, k, none) = value
             /\ k # key \/ ~HasKey(map, k) =>
                   Lookup(set, k, none) = Lookup(map, k, none)
  <2>1. CASE HasKey(map, k)
    <3>1. PICK i \in DOMAIN map : map[i].key = k
      BY <2>1 DEF HasKey
    <3>2. Lookup(set, k, none) = set[i].value /\ Lookup(map, k, none) = map[i].value
      BY <1>1, <1>3, <1>5, <3>1, EntryFound
    <3> QED BY <1>3, <2>1, <3>1, <3>2
  <2>2. CASE ~HasKey(map, k)
    BY <1>5, <2>2 DEF Lookup
  <2> QED BY <2>1, <2>2
<1> QED BY <1>4, <1>5, <1>6 DEF MapOK, set
==============================================================================
