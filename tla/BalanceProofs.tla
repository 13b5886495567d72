---------------------------- MODULE BalanceProofs ----------------------------
(***************************************************************************)
(* What BalanceCache owes its readers holds for every number of readers,   *)
(* wallets and lookups, and every length of the window: BalanceInv is      *)
(* inductive.  The token-read budget plays no part in it.                  *)
(***************************************************************************)
EXTENDS BalanceCache, RecencyProofs

CacheKeys   == {KeyOf(q) : q \in Queries}
CacheValues == [at : Nat, lookup : Nat]
NoEntry     == [at |-> 0, lookup |-> 0]

LookupRecords ==
    [status : Status, query : Queries \cup {NoQuery}, tokens : TokenCounts \cup {0},
     at : Nat, served : Nat, omitted : BOOLEAN]

ReaderRecords ==
    [at : {"idle", "waiting", "checking"}, query : Queries \cup {NoQuery},
     lookup : Nat, since : Nat]

TypesInv ==
    /\ clock \in 0 .. MaxClock /\ started \in 0 .. MaxLookups
    /\ MapOK(balanceCache, CacheKeys, CacheValues)
    /\ Len(balanceCache) <= MAX_BALANCE_CACHE_ENTRIES
    /\ lookup \in [1 .. MaxLookups -> LookupRecords]
    /\ reader \in [Readers -> ReaderRecords]

\* A lookup was served no earlier than it began.
LookupsInv ==
    /\ \A l \in 1 .. started :
          /\ lookup[l].status # "none" /\ lookup[l].query \in Queries
          /\ lookup[l].at <= clock /\ lookup[l].served <= clock
          /\ lookup[l].status \in {"reading", "done"} => lookup[l].at <= lookup[l].served
    /\ \A l \in 1 .. MaxLookups : l > started => lookup[l] = NoLookup

\* An entry names a lookup of its own wallet that has not failed.
CacheInv ==
    \A q \in Queries : HasKey(balanceCache, KeyOf(q)) =>
        /\ Entry(q).lookup \in 1 .. started
        /\ lookup[Entry(q).lookup].query = q
        /\ lookup[Entry(q).lookup].status # "failed"
        /\ Entry(q).at = lookup[Entry(q).lookup].at

\* A lookup that has not failed nor made room is cached for its window.
Cached(l) ==
    /\ HasKey(balanceCache, KeyOf(lookup[l].query))
    /\ Entry(lookup[l].query).lookup = l

HeldInv ==
    \A l \in 1 .. started :
        \/ lookup[l].status = "failed" \/ l \in displaced \/ Cached(l)
        \/ clock - lookup[l].at >= BALANCE_CACHE_TTL_MS

\* A reader waits for a lookup of its own wallet that began within a window
\* of its call, and checks the phrase once that lookup is done.
ReaderOK(w) ==
    /\ w.lookup <= started /\ w.since <= clock
    /\ w.at # "idle" =>
          /\ w.lookup \in 1 .. started
          /\ lookup[w.lookup].query = w.query
          /\ w.since - lookup[w.lookup].at < BALANCE_CACHE_TTL_MS
    /\ w.at = "checking" => lookup[w.lookup].status = "done"

ReadersInv == \A r \in Readers : ReaderOK(reader[r])

BalanceInv ==
    TypesInv /\ LookupsInv /\ CacheInv /\ HeldInv /\ ReadersInv /\ OneLookupPerWindow
-----------------------------------------------------------------------------
(***************************************************************************)
(* Wallets, their keys and their entries.                                  *)
(***************************************************************************)

\* Two wallets have two keys.
LEMMA KeysDiffer ==
    ASSUME NEW p \in Queries, NEW q \in Queries, KeyOf(p) = KeyOf(q)
    PROVE  p = q
<1>1. p.network = q.network /\ p.address = q.address
  BY DEF KeyOf
<1>2. /\ p = [network |-> p.network, address |-> p.address]
      /\ q = [network |-> q.network, address |-> q.address]
  BY BalanceAssumption
<1> QED BY <1>1, <1>2, Zenon

\* An entry holds a time and the number of a lookup.
LEMMA EntryType ==
    ASSUME TypesInv, NEW q \in Queries
    PROVE  /\ KeyOf(q) \in CacheKeys
           /\ Entry(q) \in CacheValues /\ Entry(q).at \in Nat /\ Entry(q).lookup \in Nat
<1>1. KeyOf(q) \in CacheKeys
  BY DEF CacheKeys
<1>2. NoEntry \in CacheValues
  BY DEF NoEntry, CacheValues
<1>3. Lookup(balanceCache, KeyOf(q), NoEntry) \in CacheValues
  <2>1. MapOK(balanceCache, CacheKeys, CacheValues)
    BY DEF TypesInv
  <2>2. /\ HasKey(balanceCache, KeyOf(q)) =>
              Lookup(balanceCache, KeyOf(q), NoEntry) \in CacheValues
        /\ ~HasKey(balanceCache, KeyOf(q)) =>
              Lookup(balanceCache, KeyOf(q), NoEntry) = NoEntry
    BY <2>1, LookupType
  <2> QED BY <1>2, <2>2, Zenon
<1>4. Entry(q) = Lookup(balanceCache, KeyOf(q), NoEntry)
  BY DEF Entry, NoEntry
<1>5. Entry(q) \in CacheValues
  BY <1>3, <1>4, Zenon
<1>6. Entry(q).at \in Nat /\ Entry(q).lookup \in Nat
  BY <1>5 DEF CacheValues
<1> QED BY <1>1, <1>5, <1>6

\* Map.set holds the key with its value, and changes no other.
LEMMA SetMap ==
    ASSUME NEW K, NEW V, NEW map, MapOK(map, K, V), NEW key \in K, NEW value \in V
    PROVE  /\ MapOK(Set(map, key, value), K, V)
           /\ Len(Set(map, key, value)) <= Len(map) + 1
           /\ \A k : HasKey(Set(map, key, value), k) <=> k = key \/ HasKey(map, k)
<1>0. Len(map) \in Nat
  BY LenProperties DEF MapOK
<1>1. CASE HasKey(map, key)
  <2>1. Set(map, key, value) = Replace(map, key, value)
    BY <1>1 DEF Set
  <2>2. /\ MapOK(Replace(map, key, value), K, V) /\ Len(Replace(map, key, value)) = Len(map)
        /\ \A k : HasKey(Replace(map, key, value), k) <=> HasKey(map, k)
    BY ReplaceMap
  <2> QED BY <1>0, <1>1, <2>1, <2>2
<1>2. CASE ~HasKey(map, key)
  <2>1. Set(map, key, value) = Insert(map, key, value)
    BY <1>2 DEF Set
  <2>2. /\ MapOK(Insert(map, key, value), K, V) /\ Len(Insert(map, key, value)) = Len(map) + 1
        /\ \A k : HasKey(Insert(map, key, value), k) <=> k = key \/ HasKey(map, k)
    BY <1>2, InsertMap
  <2> QED BY <1>0, <2>1, <2>2
<1> QED BY <1>1, <1>2

\* The values of the keys after Map.set.
LEMMA SetValue ==
    ASSUME NEW K, NEW V, NEW map, MapOK(map, K, V), NEW key \in K, NEW value \in V,
           NEW k, NEW none
    PROVE  Lookup(Set(map, key, value), k, none)
               = IF k = key THEN value ELSE Lookup(map, k, none)
<1>1. CASE HasKey(map, key)
  <2>1. Set(map, key, value) = Replace(map, key, value)
    BY <1>1 DEF Set
  <2>2. Lookup(Replace(map, key, value), k, none)
            = IF k = key /\ HasKey(map, k) THEN value ELSE Lookup(map, k, none)
    BY ReplaceMap
  <2> QED BY <1>1, <2>1, <2>2
<1>2. CASE ~HasKey(map, key)
  <2>1. Set(map, key, value) = Insert(map, key, value)
    BY <1>2 DEF Set
  <2>2. Lookup(Insert(map, key, value), k, none)
            = IF k = key THEN value ELSE Lookup(map, k, none)
    BY <1>2, InsertValue
  <2> QED BY <2>1, <2>2
<1> QED BY <1>1, <1>2

\* Room for one more entry costs the first one at most, and displaces its
\* lookup unless its key is about to be set.
LEMMA RoomMade ==
    ASSUME TypesInv, NEW q \in Queries, NEW p \in Queries \ {q}
    PROVE  /\ MapOK(Room, CacheKeys, CacheValues) /\ Len(Room) + 1 <= MAX_BALANCE_CACHE_ENTRIES
           /\ HasKey(Room, KeyOf(p)) =>
                 /\ HasKey(balanceCache, KeyOf(p))
                 /\ Lookup(Room, KeyOf(p), NoEntry) = Entry(p)
           /\ HasKey(balanceCache, KeyOf(p)) /\ ~HasKey(Room, KeyOf(p)) =>
                 /\ Room # balanceCache /\ Head(balanceCache).key # KeyOf(q)
                 /\ Head(balanceCache).value.lookup = Entry(p).lookup
<1> DEFINE cap == MAX_BALANCE_CACHE_ENTRIES
<1>1. /\ MapOK(balanceCache, CacheKeys, CacheValues) /\ cap \in Nat \ {0}
      /\ Len(balanceCache) \in Nat /\ Len(balanceCache) <= cap
      /\ DOMAIN balanceCache = 1 .. Len(balanceCache)
  BY BalanceAssumption, LenProperties DEF TypesInv, MapOK
<1>2. Room = EvictIfFull(balanceCache, cap)
  BY DEF Room, EvictIfFull
<1>3. /\ MapOK(Room, CacheKeys, CacheValues) /\ Within(Room, balanceCache)
      /\ Len(Room) = IF Len(balanceCache) >= cap THEN Len(balanceCache) - 1
                     ELSE Len(balanceCache)
      /\ Len(balanceCache) >= cap =>
            balanceCache # << >> /\ Head(balanceCache) = balanceCache[1]
      /\ \A k : HasKey(Room, k) <=> HasKey(balanceCache, k)
                    /\ ~(Len(balanceCache) >= cap /\ k = Head(balanceCache).key)
  BY <1>1, <1>2, EvictMap
<1>4. Len(Room) + 1 <= cap
  <2>1. Len(Room) = IF Len(balanceCache) >= cap THEN Len(balanceCache) - 1
                    ELSE Len(balanceCache)
    BY <1>3, Zenon
  <2>2. Len(balanceCache) \in Nat /\ cap \in Nat /\ Len(balanceCache) <= cap
    BY <1>1
  <2> HIDE DEF cap
  <2> QED BY <2>1, <2>2
<1>5. Entry(p) = Lookup(balanceCache, KeyOf(p), NoEntry)
  BY DEF Entry, NoEntry
<1>6. HasKey(Room, KeyOf(p)) => Lookup(Room, KeyOf(p), NoEntry) = Entry(p)
  <2>1. Distinct(balanceCache) /\ Distinct(Room)
    BY <1>1, <1>3 DEF MapOK
  <2>2. HasKey(Room, KeyOf(p)) =>
           Lookup(Room, KeyOf(p), NoEntry) = Lookup(balanceCache, KeyOf(p), NoEntry)
    BY <1>3, <2>1, WithinFound
  <2> QED BY <1>5, <2>2
<1>7. ASSUME HasKey(balanceCache, KeyOf(p)), ~HasKey(Room, KeyOf(p))
      PROVE  /\ Room # balanceCache /\ Head(balanceCache).key # KeyOf(q)
             /\ Head(balanceCache).value.lookup = Entry(p).lookup
  <2>1. Len(balanceCache) >= cap /\ Head(balanceCache).key = KeyOf(p)
    BY <1>3, <1>7
  <2>2. 1 \in DOMAIN balanceCache /\ Head(balanceCache) = balanceCache[1]
    BY <1>1, <1>3, <2>1
  <2>3. Distinct(balanceCache)
    BY <1>1 DEF MapOK
  <2>4. Lookup(balanceCache, balanceCache[1].key, NoEntry) = balanceCache[1].value
    BY <2>2, <2>3, EntryFound
  <2>5. Head(balanceCache).key # KeyOf(q)
    BY <2>1, KeysDiffer
  <2> QED BY <1>5, <1>7, <2>1, <2>2, <2>4, <2>5
<1> QED BY <1>3, <1>4, <1>6, <1>7

\* What the cache holds once a call has started a lookup of its wallet.
LEMMA CacheSet ==
    ASSUME TypesInv, NEW q \in Queries, NEW l \in Nat,
           balanceCache' = Set(Room, KeyOf(q), Fresh(l))
    PROVE  /\ MapOK(balanceCache', CacheKeys, CacheValues)
           /\ Len(balanceCache') <= MAX_BALANCE_CACHE_ENTRIES
           /\ HasKey(balanceCache', KeyOf(q)) /\ Entry(q)' = Fresh(l)
           /\ \A p \in Queries \ {q} :
                 /\ HasKey(balanceCache', KeyOf(p)) <=> HasKey(Room, KeyOf(p))
                 /\ HasKey(Room, KeyOf(p)) =>
                       HasKey(balanceCache, KeyOf(p)) /\ Entry(p)' = Entry(p)
<1> DEFINE new == Set(Room, KeyOf(q), Fresh(l))
<1>1. MapOK(Room, CacheKeys, CacheValues) /\ Len(Room) + 1 <= MAX_BALANCE_CACHE_ENTRIES
  <2>1. MapOK(balanceCache, CacheKeys, CacheValues) /\ MAX_BALANCE_CACHE_ENTRIES \in Nat \ {0}
        /\ Len(balanceCache) <= MAX_BALANCE_CACHE_ENTRIES
    BY BalanceAssumption DEF TypesInv
  <2>2. Room = EvictIfFull(balanceCache, MAX_BALANCE_CACHE_ENTRIES)
    BY DEF Room, EvictIfFull
  <2>3. Len(balanceCache) \in Nat
    BY <2>1, LenProperties DEF MapOK
  <2>4. /\ MapOK(Room, CacheKeys, CacheValues)
        /\ Len(Room) = IF Len(balanceCache) >= MAX_BALANCE_CACHE_ENTRIES
                       THEN Len(balanceCache) - 1 ELSE Len(balanceCache)
    BY <2>1, <2>2, EvictMap
  <2> QED BY <2>1, <2>3, <2>4
<1>2. KeyOf(q) \in CacheKeys /\ Fresh(l) \in CacheValues
  BY EntryType DEF TypesInv, Fresh, CacheValues
<1>3. /\ MapOK(new, CacheKeys, CacheValues) /\ Len(new) <= Len(Room) + 1
      /\ \A k : HasKey(new, k) <=> k = KeyOf(q) \/ HasKey(Room, k)
  BY <1>1, <1>2, SetMap
<1>4. Len(new) \in Nat /\ Len(Room) \in Nat /\ MAX_BALANCE_CACHE_ENTRIES \in Nat
  BY <1>1, <1>3, BalanceAssumption, LenProperties DEF MapOK
<1>5. \A p : Entry(p)' = Lookup(new, KeyOf(p), NoEntry)
  BY DEF Entry, NoEntry, KeyOf
<1>6. \A k : Lookup(new, k, NoEntry) = IF k = KeyOf(q) THEN Fresh(l) ELSE Lookup(Room, k, NoEntry)
  BY <1>1, <1>2, SetValue
<1>7. balanceCache' = new
  OBVIOUS
<1> HIDE DEF new
<1>8. ASSUME NEW p \in Queries \ {q}
      PROVE  /\ HasKey(balanceCache', KeyOf(p)) <=> HasKey(Room, KeyOf(p))
             /\ HasKey(Room, KeyOf(p)) =>
                   HasKey(balanceCache, KeyOf(p)) /\ Entry(p)' = Entry(p)
  <2>1. KeyOf(p) # KeyOf(q)
    BY KeysDiffer
  <2> QED BY <1>3, <1>5, <1>6, <1>7, <2>1, RoomMade
<1> QED BY <1>1, <1>3, <1>4, <1>5, <1>6, <1>7, <1>8

-----------------------------------------------------------------------------
(***************************************************************************)
(* The steps of the readers.                                               *)
(***************************************************************************)

\* The bounds are natural numbers, and a window is not empty.
LEMMA Bounds ==
    /\ BALANCE_CACHE_TTL_MS \in Nat \ {0} /\ MAX_BALANCE_CACHE_ENTRIES \in Nat \ {0}
    /\ MaxClock \in Nat /\ MaxLookups \in Nat
BY BalanceAssumption

\* A reader that moves on as it may keeps the invariant.
LEMMA ReaderMoves ==
    ASSUME BalanceInv, NEW r \in Readers, NEW w \in ReaderRecords, ReaderOK(w),
           reader' = [reader EXCEPT ![r] = w],
           UNCHANGED <<clock, balanceCache, lookup, started, displaced>>
    PROVE  BalanceInv'
<1>1. TypesInv' /\ \A p \in Readers : reader'[p] = IF p = r THEN w ELSE reader[p]
  BY DEF BalanceInv, TypesInv
<1>2. \A p \in Readers : ReaderOK(reader[p])
  BY DEF BalanceInv, ReadersInv
<1>3. ReadersInv'
  <2> SUFFICES ASSUME NEW p \in Readers PROVE ReaderOK(reader[p])'
    BY DEF ReadersInv
  <2>1. CASE p = r
    BY <1>1, <2>1 DEF ReaderOK
  <2>2. CASE p # r
    BY <1>1, <1>2, <2>2 DEF ReaderOK
  <2> QED BY <2>1, <2>2
<1>4. LookupsInv' /\ OneLookupPerWindow'
  BY DEF BalanceInv, LookupsInv, OneLookupPerWindow, Begun
<1>5. CacheInv' /\ HeldInv'
  BY DEF BalanceInv, CacheInv, HeldInv, Cached, Entry, KeyOf
<1> QED BY <1>1, <1>3, <1>4, <1>5 DEF BalanceInv

\* A reader that goes, answered or refused.
LEMMA ReaderGoes ==
    ASSUME BalanceInv, NEW r \in Readers, reader' = [reader EXCEPT ![r] = NoReader],
           UNCHANGED <<clock, balanceCache, lookup, started, displaced>>
    PROVE  BalanceInv'
<1>1. NoReader \in ReaderRecords /\ ReaderOK(NoReader)
  BY DEF NoReader, ReaderRecords, ReaderOK, BalanceInv, TypesInv
<1> QED BY <1>1, ReaderMoves

\* A live entry names a lookup of the wallet that has not failed and began
\* within the window.
LEMMA LiveEntry ==
    ASSUME BalanceInv, NEW q \in Queries, Live(q)
    PROVE  /\ Entry(q).lookup \in 1 .. started
           /\ lookup[Entry(q).lookup].query = q
           /\ lookup[Entry(q).lookup].status # "failed"
           /\ clock - lookup[Entry(q).lookup].at < BALANCE_CACHE_TTL_MS
BY DEF BalanceInv, CacheInv, Live

\* A call that shares a lookup.
LEMMA ShareSafe ==
    ASSUME BalanceInv, NEW r \in Readers, NEW q \in Queries, Share(r, q),
           UNCHANGED clock
    PROVE  BalanceInv'
<1> DEFINE w == [at |-> "waiting", query |-> q, lookup |-> Entry(q).lookup, since |-> clock]
<1>1. /\ Entry(q).lookup \in 1 .. started
      /\ lookup[Entry(q).lookup].query = q
      /\ clock - lookup[Entry(q).lookup].at < BALANCE_CACHE_TTL_MS
  BY LiveEntry DEF Share
<1>2. clock \in Nat /\ started \in Nat
  BY Bounds DEF BalanceInv, TypesInv
<1>3. w \in ReaderRecords
  BY <1>1, <1>2 DEF ReaderRecords
<1>4. ReaderOK(w)
  BY <1>1, <1>2 DEF ReaderOK
<1>5. /\ reader' = [reader EXCEPT ![r] = w]
      /\ UNCHANGED <<clock, balanceCache, lookup, started, displaced>>
  BY DEF Share, WaitFor
<1> QED BY <1>3, <1>4, <1>5, ReaderMoves

\* A call whose lookup is settled.
LEMMA ResumeSafe ==
    ASSUME BalanceInv, NEW r \in Readers, Resume(r)
    PROVE  BalanceInv'
<1>1. UNCHANGED <<clock, balanceCache, lookup, started, displaced>>
  BY DEF Resume
<1>2. CASE reader' = [reader EXCEPT ![r] = NoReader]
  BY <1>1, <1>2, ReaderGoes
<1>3. CASE /\ reader[r].at = "waiting" /\ lookup[reader[r].lookup].status = "done"
           /\ reader' = [reader EXCEPT ![r].at = "checking"]
  <2> DEFINE w == [reader[r] EXCEPT !.at = "checking"]
  <2>1. reader[r] \in ReaderRecords /\ ReaderOK(reader[r])
    BY DEF BalanceInv, TypesInv, ReadersInv
  <2>2. w \in ReaderRecords /\ w.at = "checking" /\ w.query = reader[r].query
        /\ w.lookup = reader[r].lookup /\ w.since = reader[r].since
    BY <2>1 DEF ReaderRecords
  <2>3. reader' = [reader EXCEPT ![r] = w]
    BY <1>3
  <2> HIDE DEF w
  <2>4. ReaderOK(w)
    BY <1>3, <2>1, <2>2 DEF ReaderOK
  <2> QED BY <1>1, <2>2, <2>3, <2>4, ReaderMoves
<1> QED BY <1>2, <1>3 DEF Resume

-----------------------------------------------------------------------------
(***************************************************************************)
(* A call that starts a lookup.                                            *)
(***************************************************************************)

\* What a lookup looks like when it begins, and that the others stay.
LEMMA LookupBegun ==
    ASSUME BalanceInv, NEW r \in Readers, NEW q \in Queries, NEW tokens \in TokenCounts,
           LookUp(r, q, tokens), UNCHANGED clock
    PROVE  /\ started \in Nat /\ started' = started + 1 /\ started + 1 \in 1 .. MaxLookups
           /\ started' \in 0 .. MaxLookups /\ clock \in Nat
           /\ lookup' \in [1 .. MaxLookups -> LookupRecords]
           /\ lookup'[started + 1].status = "asking" /\ lookup'[started + 1].query = q
           /\ lookup'[started + 1].at = clock /\ lookup'[started + 1].served = 0
           /\ \A l \in 1 .. MaxLookups : l # started + 1 => lookup'[l] = lookup[l]
<1> DEFINE n == [NoLookup EXCEPT !.status = "asking", !.query = q, !.tokens = tokens,
                                 !.at = clock]
<1>1. clock \in Nat /\ started \in 0 .. MaxLookups /\ started < MaxLookups
      /\ started' = started + 1 /\ lookup' = [lookup EXCEPT ![started + 1] = n]
      /\ lookup \in [1 .. MaxLookups -> LookupRecords]
  BY Bounds DEF LookUp, BalanceInv, TypesInv
<1>2. n \in LookupRecords /\ n.status = "asking" /\ n.query = q /\ n.at = clock
      /\ n.served = 0
  BY <1>1 DEF NoLookup, LookupRecords, Status
<1> HIDE DEF n
<1>3. started \in Nat /\ started + 1 \in 1 .. MaxLookups /\ started + 1 \in 0 .. MaxLookups
  BY <1>1, Bounds
<1> QED BY <1>1, <1>2, <1>3

\* The cache and the record of the displaced lookups, when a lookup begins.
LEMMA LookupCached ==
    ASSUME BalanceInv, NEW r \in Readers, NEW q \in Queries, NEW tokens \in TokenCounts,
           LookUp(r, q, tokens), UNCHANGED clock
    PROVE  /\ MapOK(balanceCache', CacheKeys, CacheValues)
           /\ Len(balanceCache') <= MAX_BALANCE_CACHE_ENTRIES
           /\ HasKey(balanceCache', KeyOf(q)) /\ Entry(q)' = Fresh(started + 1)
           /\ displaced \subseteq displaced'
           /\ \A p \in Queries \ {q} :
                 /\ HasKey(balanceCache', KeyOf(p)) =>
                       HasKey(balanceCache, KeyOf(p)) /\ Entry(p)' = Entry(p)
                 /\ HasKey(balanceCache, KeyOf(p)) =>
                       HasKey(balanceCache', KeyOf(p)) \/ Entry(p).lookup \in displaced'
<1>1. TypesInv /\ started + 1 \in Nat
  BY LookupBegun DEF BalanceInv
<1>2. balanceCache' = Set(Room, KeyOf(q), Fresh(started + 1))
      /\ displaced' = displaced \cup
            (IF Room = balanceCache \/ Head(balanceCache).key = KeyOf(q) THEN {}
             ELSE {Head(balanceCache).value.lookup})
  BY DEF LookUp
<1>3. /\ MapOK(balanceCache', CacheKeys, CacheValues)
      /\ Len(balanceCache') <= MAX_BALANCE_CACHE_ENTRIES
      /\ HasKey(balanceCache', KeyOf(q)) /\ Entry(q)' = Fresh(started + 1)
      /\ \A p \in Queries \ {q} :
            /\ HasKey(balanceCache', KeyOf(p)) <=> HasKey(Room, KeyOf(p))
            /\ HasKey(Room, KeyOf(p)) =>
                  HasKey(balanceCache, KeyOf(p)) /\ Entry(p)' = Entry(p)
  BY <1>1, <1>2, CacheSet
<1>4. ASSUME NEW p \in Queries \ {q}, HasKey(balanceCache, KeyOf(p))
      PROVE  HasKey(balanceCache', KeyOf(p)) \/ Entry(p).lookup \in displaced'
  <2>1. CASE HasKey(Room, KeyOf(p))
    BY <1>3, <2>1
  <2>2. CASE ~HasKey(Room, KeyOf(p))
    <3>1. Room # balanceCache /\ Head(balanceCache).key # KeyOf(q)
          /\ Head(balanceCache).value.lookup = Entry(p).lookup
      BY <1>1, <1>4, <2>2, RoomMade
    <3> QED BY <1>2, <3>1
  <2> QED BY <2>1, <2>2
<1> QED BY <1>2, <1>3, <1>4

\* A wallet's earlier lookups have failed, made room or outlived their window
\* when a new one begins.
LEMMA EarlierOver ==
    ASSUME BalanceInv, NEW q \in Queries, ~Live(q), NEW l \in 1 .. started,
           lookup[l].query = q
    PROVE  \/ lookup[l].status = "failed" \/ l \in displaced
           \/ clock - lookup[l].at >= BALANCE_CACHE_TTL_MS
<1>1. CASE Cached(l)
  <2>1. HasKey(balanceCache, KeyOf(q)) /\ Entry(q).lookup = l
    BY <1>1 DEF Cached
  <2>2. Entry(q).at = lookup[l].at
    BY <2>1 DEF BalanceInv, CacheInv
  <2>3. Entry(q).at \in Nat /\ clock \in Nat /\ BALANCE_CACHE_TTL_MS \in Nat
    BY EntryType, Bounds DEF BalanceInv, TypesInv
  <2> QED BY <2>1, <2>2, <2>3 DEF Live
<1>2. CASE ~Cached(l)
  BY <1>2 DEF BalanceInv, HeldInv
<1> QED BY <1>1, <1>2

\* A call that starts a lookup keeps the invariant.
LEMMA LookUpSafe ==
    ASSUME BalanceInv, NEW r \in Readers, NEW q \in Queries, NEW tokens \in TokenCounts,
           LookUp(r, q, tokens), UNCHANGED clock
    PROVE  BalanceInv'
<1> DEFINE n == started + 1
           w == [at |-> "waiting", query |-> q, lookup |-> n, since |-> clock]
<1>1. /\ started \in Nat /\ started' = n /\ n \in 1 .. MaxLookups
      /\ started' \in 0 .. MaxLookups /\ clock \in Nat
      /\ lookup' \in [1 .. MaxLookups -> LookupRecords]
      /\ lookup'[n].status = "asking" /\ lookup'[n].query = q
      /\ lookup'[n].at = clock /\ lookup'[n].served = 0
      /\ \A l \in 1 .. MaxLookups : l # n => lookup'[l] = lookup[l]
  BY LookupBegun
<1>2. /\ MapOK(balanceCache', CacheKeys, CacheValues)
      /\ Len(balanceCache') <= MAX_BALANCE_CACHE_ENTRIES
      /\ HasKey(balanceCache', KeyOf(q)) /\ Entry(q)' = Fresh(n)
      /\ displaced \subseteq displaced'
      /\ \A p \in Queries \ {q} :
            /\ HasKey(balanceCache', KeyOf(p)) =>
                  HasKey(balanceCache, KeyOf(p)) /\ Entry(p)' = Entry(p)
            /\ HasKey(balanceCache, KeyOf(p)) =>
                  HasKey(balanceCache', KeyOf(p)) \/ Entry(p).lookup \in displaced'
  BY LookupCached
<1>3. Fresh(n).at = clock /\ Fresh(n).lookup = n /\ ~Live(q)
      /\ reader' = [reader EXCEPT ![r] = w]
  BY DEF Fresh, LookUp, WaitFor
<1>4. \A l \in 1 .. n : l = n \/ (l \in 1 .. started /\ l \in 1 .. MaxLookups /\ l # n)
  BY <1>1, Bounds
<1>5. \A l \in 1 .. started : l \in 1 .. n /\ l \in 1 .. MaxLookups /\ lookup'[l] = lookup[l]
  <2>1. \A l \in 1 .. started : l \in 1 .. n /\ l \in 1 .. MaxLookups /\ l # n
    BY <1>1, Bounds
  <2> HIDE DEF n
  <2> QED BY <1>1, <2>1
<1>6. TypesInv'
  <2>1. w \in ReaderRecords
    BY <1>1 DEF ReaderRecords
  <2> HIDE DEF w, n
  <2>2. reader' \in [Readers -> ReaderRecords]
    BY <1>3, <2>1 DEF BalanceInv, TypesInv
  <2>3. clock \in 0 .. MaxClock
    BY DEF BalanceInv, TypesInv
  <2> QED BY <1>1, <1>2, <2>2, <2>3 DEF TypesInv
<1>7. LookupsInv'
  <2> HIDE DEF w, n
  <2>1. \A l \in 1 .. n :
           /\ lookup'[l].status # "none" /\ lookup'[l].query \in Queries
           /\ lookup'[l].at <= clock /\ lookup'[l].served <= clock
           /\ lookup'[l].status \in {"reading", "done"} =>
                 lookup'[l].at <= lookup'[l].served
    BY <1>1, <1>4, <1>5 DEF BalanceInv, LookupsInv
  <2>2. \A l \in 1 .. MaxLookups : l > n => lookup'[l] = NoLookup
    BY <1>1 DEF BalanceInv, LookupsInv, n
  <2> QED BY <1>1, <2>1, <2>2 DEF LookupsInv
<1>8. CacheInv'
  <2> SUFFICES ASSUME NEW p \in Queries, HasKey(balanceCache', KeyOf(p))
               PROVE  /\ Entry(p)'.lookup \in 1 .. started'
                      /\ lookup'[Entry(p)'.lookup].query = p
                      /\ lookup'[Entry(p)'.lookup].status # "failed"
                      /\ Entry(p)'.at = lookup'[Entry(p)'.lookup].at
    BY DEF CacheInv, KeyOf
  <2>1. CASE p = q
    BY <1>1, <1>2, <1>3, <2>1
  <2>2. CASE p # q
    <3>1. HasKey(balanceCache, KeyOf(p)) /\ Entry(p)' = Entry(p)
      BY <1>2, <2>2
    <3>2. /\ Entry(p).lookup \in 1 .. started
          /\ lookup[Entry(p).lookup].query = p
          /\ lookup[Entry(p).lookup].status # "failed"
          /\ Entry(p).at = lookup[Entry(p).lookup].at
      BY <3>1 DEF BalanceInv, CacheInv
    <3> QED BY <1>1, <1>5, <3>1, <3>2
  <2> QED BY <2>1, <2>2
<1>9. HeldInv'
  <2> SUFFICES ASSUME NEW l \in 1 .. n
               PROVE  \/ lookup'[l].status = "failed" \/ l \in displaced' \/ Cached(l)'
                      \/ clock - lookup'[l].at >= BALANCE_CACHE_TTL_MS
    BY <1>1 DEF HeldInv
  <2>1. CASE l = n
    BY <1>1, <1>2, <1>3, <2>1 DEF Cached, KeyOf, Entry
  <2>2. CASE l \in 1 .. started
    <3>1. lookup'[l] = lookup[l] /\ lookup[l].query \in Queries
      BY <1>5, <2>2 DEF BalanceInv, LookupsInv
    <3>2. CASE lookup[l].query = q
      BY <1>2, <1>3, <2>2, <3>1, <3>2, EarlierOver
    <3>3. CASE lookup[l].query # q /\ Cached(l)
      <4>1. PICK p \in Queries \ {q} : /\ p = lookup[l].query /\ Entry(p).lookup = l
                                      /\ HasKey(balanceCache, KeyOf(p))
        BY <3>1, <3>3 DEF Cached
      <4>2. CASE l \in displaced'
        BY <4>2
      <4>3. CASE HasKey(balanceCache', KeyOf(p))
        <5>1. Entry(p)' = Entry(p)
          BY <1>2, <4>1, <4>3
        <5>2. lookup'[l].query = p /\ Entry(p)'.lookup = l
          BY <3>1, <4>1, <5>1
        <5> QED BY <4>3, <5>2 DEF Cached, KeyOf, Entry
      <4> QED BY <1>2, <4>1, <4>2, <4>3
    <3>4. CASE ~Cached(l)
      BY <1>2, <2>2, <3>1, <3>4 DEF BalanceInv, HeldInv
    <3> QED BY <3>2, <3>3, <3>4
  <2> QED BY <1>4, <2>1, <2>2
<1> HIDE DEF w, n
<1>10. ReadersInv'
  <2> SUFFICES ASSUME NEW p \in Readers PROVE ReaderOK(reader[p])'
    BY DEF ReadersInv
  <2>1. CASE p = r
    <3>1. reader'[p] = w
      BY <1>3, <2>1 DEF BalanceInv, TypesInv
    <3>2. w.at = "waiting" /\ w.query = q /\ w.lookup = n /\ w.since = clock
      BY DEF w
    <3>3. n <= started' /\ n \in 1 .. started' /\ clock <= clock' /\ clock - clock < BALANCE_CACHE_TTL_MS
      BY <1>1, Bounds
    <3> QED BY <1>1, <3>1, <3>2, <3>3 DEF ReaderOK
  <2>2. CASE p # r
    <3>1. reader'[p] = reader[p] /\ ReaderOK(reader[p]) /\ reader[p] \in ReaderRecords
      BY <1>3, <2>2 DEF BalanceInv, TypesInv, ReadersInv
    <3>2. reader[p].lookup \in Nat
      BY <3>1 DEF ReaderRecords
    <3>3. reader[p].at \in {"idle", "waiting", "checking"}
      BY <3>1 DEF ReaderRecords
    <3> QED BY <1>1, <1>5, <3>1, <3>2, <3>3 DEF ReaderOK, n
  <2> QED BY <2>1, <2>2
<1>11. OneLookupPerWindow'
  <2> SUFFICES ASSUME NEW l \in 1 .. n, NEW m \in 1 .. n, l < m,
                      lookup'[l].query = lookup'[m].query,
                      lookup'[m].at - lookup'[l].at < BALANCE_CACHE_TTL_MS
               PROVE  lookup'[l].status = "failed" \/ l \in displaced'
    BY <1>1 DEF OneLookupPerWindow, Begun
  <2>1. l \in 1 .. started /\ lookup'[l] = lookup[l]
    BY <1>1, <1>4, <1>5
  <2>2. CASE m = n
    <3>1. lookup[l].query = q /\ clock - lookup[l].at < BALANCE_CACHE_TTL_MS
      BY <1>1, <2>1, <2>2
    <3>2. lookup[l].at \in Nat /\ BALANCE_CACHE_TTL_MS \in Nat
      <4>1. lookup[l] \in LookupRecords
        BY <1>5, <2>1 DEF BalanceInv, TypesInv
      <4> QED BY <4>1, Bounds DEF LookupRecords
    <3> QED BY <1>1, <1>2, <1>3, <2>1, <3>1, <3>2, EarlierOver
  <2>3. CASE m \in 1 .. started
    <3>1. lookup'[m] = lookup[m] /\ l \in Begun /\ m \in Begun
      BY <1>5, <2>1, <2>3 DEF BalanceInv, LookupsInv, Begun
    <3> QED BY <1>2, <2>1, <3>1 DEF BalanceInv, OneLookupPerWindow
  <2> QED BY <1>4, <2>2, <2>3
<1> QED BY <1>6, <1>7, <1>8, <1>9, <1>10, <1>11 DEF BalanceInv

-----------------------------------------------------------------------------
(***************************************************************************)
(* The steps of a lookup.                                                  *)
(***************************************************************************)

\* A lookup that goes on keeps its wallet and its beginning; when it fails,
\* its own entry goes and every other one stays.
LEMMA LookupMoves ==
    ASSUME BalanceInv, NEW l \in 1 .. started, lookup[l].status \in {"asking", "reading"},
           NEW x \in LookupRecords, x.query = lookup[l].query, x.at = lookup[l].at,
           x.served <= clock, x.status \in {"reading", "done", "failed"},
           x.status # "failed" => x.at <= x.served,
           lookup' = [lookup EXCEPT ![l] = x],
           UNCHANGED <<clock, started, reader, displaced>>,
           MapOK(balanceCache', CacheKeys, CacheValues),
           Len(balanceCache') <= MAX_BALANCE_CACHE_ENTRIES,
           \A p \in Queries : HasKey(balanceCache', KeyOf(p)) =>
               /\ HasKey(balanceCache, KeyOf(p)) /\ Entry(p)' = Entry(p)
               /\ x.status = "failed" => Entry(p).lookup # l,
           \A p \in Queries : HasKey(balanceCache, KeyOf(p)) =>
               \/ HasKey(balanceCache', KeyOf(p))
               \/ x.status = "failed" /\ Entry(p).lookup = l
    PROVE  BalanceInv'
<1>1. /\ \A m \in 1 .. started : m \in 1 .. MaxLookups
      /\ lookup' \in [1 .. MaxLookups -> LookupRecords] /\ lookup'[l] = x
      /\ \A m \in 1 .. MaxLookups : m # l => lookup'[m] = lookup[m]
  BY Bounds DEF BalanceInv, TypesInv
<1>2. \A m \in 1 .. MaxLookups :
         lookup'[m].query = lookup[m].query /\ lookup'[m].at = lookup[m].at
  BY <1>1
<1>3. TypesInv'
  BY <1>1 DEF BalanceInv, TypesInv
<1>4. LookupsInv'
  <2>1. \A m \in 1 .. started :
           /\ lookup'[m].status # "none" /\ lookup'[m].query \in Queries
           /\ lookup'[m].at <= clock /\ lookup'[m].served <= clock
           /\ lookup'[m].status \in {"reading", "done"} =>
                 lookup'[m].at <= lookup'[m].served
    BY <1>1 DEF BalanceInv, LookupsInv
  <2>2. \A m \in 1 .. MaxLookups : m > started => lookup'[m] = NoLookup
    <3>1. ~(l > started)
      BY Bounds DEF BalanceInv, TypesInv
    <3> QED BY <1>1, <3>1 DEF BalanceInv, LookupsInv
  <2> QED BY <2>1, <2>2 DEF LookupsInv
<1>5. CacheInv'
  <2> SUFFICES ASSUME NEW p \in Queries, HasKey(balanceCache', KeyOf(p))
               PROVE  /\ Entry(p)'.lookup \in 1 .. started'
                      /\ lookup'[Entry(p)'.lookup].query = p
                      /\ lookup'[Entry(p)'.lookup].status # "failed"
                      /\ Entry(p)'.at = lookup'[Entry(p)'.lookup].at
    BY DEF CacheInv, KeyOf
  <2>1. /\ HasKey(balanceCache, KeyOf(p)) /\ Entry(p)' = Entry(p)
        /\ x.status = "failed" => Entry(p).lookup # l
    OBVIOUS
  <2>2. /\ Entry(p).lookup \in 1 .. started
        /\ lookup[Entry(p).lookup].query = p
        /\ lookup[Entry(p).lookup].status # "failed"
        /\ Entry(p).at = lookup[Entry(p).lookup].at
    BY <2>1 DEF BalanceInv, CacheInv
  <2>3. lookup'[Entry(p).lookup].status # "failed"
    BY <1>1, <2>1, <2>2
  <2> QED BY <1>1, <1>2, <2>1, <2>2, <2>3
<1>6. HeldInv'
  <2> SUFFICES ASSUME NEW m \in 1 .. started
               PROVE  \/ lookup'[m].status = "failed" \/ m \in displaced' \/ Cached(m)'
                      \/ clock - lookup'[m].at >= BALANCE_CACHE_TTL_MS
    BY DEF HeldInv
  <2>1. m \in 1 .. MaxLookups /\ lookup'[m].query = lookup[m].query
        /\ lookup'[m].at = lookup[m].at /\ lookup[m].query \in Queries
    BY <1>1, <1>2 DEF BalanceInv, LookupsInv
  <2>2. CASE Cached(m)
    <3>1. PICK p \in Queries : /\ p = lookup[m].query /\ Entry(p).lookup = m
                               /\ HasKey(balanceCache, KeyOf(p))
      BY <2>1, <2>2 DEF Cached
    <3>2. CASE HasKey(balanceCache', KeyOf(p))
      <4>1. lookup'[m].query = p /\ Entry(p)'.lookup = m
        BY <2>1, <3>1, <3>2
      <4> QED BY <3>2, <4>1 DEF Cached, KeyOf, Entry
    <3>3. CASE ~HasKey(balanceCache', KeyOf(p))
      <4>1. x.status = "failed" /\ m = l
        BY <3>1, <3>3
      <4> QED BY <1>1, <4>1
    <3> QED BY <3>2, <3>3
  <2>3. CASE lookup[m].status = "failed"
    <3>1. m # l
      BY <2>3
    <3> QED BY <1>1, <2>1, <2>3, <3>1
  <2>4. CASE m \in displaced \/ clock - lookup[m].at >= BALANCE_CACHE_TTL_MS
    BY <2>1, <2>4
  <2> QED BY <2>2, <2>3, <2>4 DEF BalanceInv, HeldInv
<1>7. ReadersInv'
  <2> SUFFICES ASSUME NEW p \in Readers PROVE ReaderOK(reader[p])'
    BY DEF ReadersInv
  <2>1. ReaderOK(reader[p]) /\ reader[p] \in ReaderRecords
    BY DEF BalanceInv, TypesInv, ReadersInv
  <2>2. reader[p].at # "idle" => reader[p].lookup \in 1 .. MaxLookups
    BY <1>1, <2>1 DEF ReaderOK
  <2>3. reader[p].at = "checking" => reader[p].lookup # l
    BY <2>1 DEF ReaderOK
  <2> QED BY <1>1, <1>2, <2>1, <2>2, <2>3 DEF ReaderOK
<1>8. OneLookupPerWindow'
  <2> SUFFICES ASSUME NEW k \in 1 .. started, NEW m \in 1 .. started, k < m,
                      lookup'[k].query = lookup'[m].query,
                      lookup'[m].at - lookup'[k].at < BALANCE_CACHE_TTL_MS
               PROVE  lookup'[k].status = "failed" \/ k \in displaced'
    BY DEF OneLookupPerWindow, Begun
  <2>1. lookup[k].query = lookup[m].query
        /\ lookup[m].at - lookup[k].at < BALANCE_CACHE_TTL_MS
    BY <1>1, <1>2
  <2>2. k \in Begun /\ m \in Begun
    BY DEF BalanceInv, LookupsInv, Begun
  <2>3. lookup[k].status = "failed" \/ k \in displaced
    BY <2>1, <2>2 DEF BalanceInv, OneLookupPerWindow
  <2>4. lookup[k].status = "failed" => lookup'[k].status = "failed"
    <3>1. lookup[k].status = "failed" => k # l
      OBVIOUS
    <3> QED BY <1>1, <3>1
  <2> QED BY <2>3, <2>4
<1> QED BY <1>3, <1>4, <1>5, <1>6, <1>7, <1>8 DEF BalanceInv

\* A lookup that is answered leaves the cache as it is.
LEMMA AnsweredSafe ==
    ASSUME BalanceInv, NEW l \in 1 .. started, HorizonAnswers(l) \/ TokensRead(l)
    PROVE  BalanceInv'
<1>1. /\ lookup[l] \in LookupRecords /\ l \in 1 .. MaxLookups
      /\ lookup[l].at <= clock /\ lookup[l].served <= clock /\ clock \in Nat
      /\ lookup[l].status = "reading" => lookup[l].at <= lookup[l].served
  BY Bounds DEF BalanceInv, TypesInv, LookupsInv
<1>2. UNCHANGED <<clock, balanceCache, started, reader, displaced>>
  BY DEF HorizonAnswers, TokensRead
<1>3. /\ MapOK(balanceCache', CacheKeys, CacheValues)
      /\ Len(balanceCache') <= MAX_BALANCE_CACHE_ENTRIES
      /\ \A p \in Queries : Entry(p)' = Entry(p)
  BY <1>2 DEF BalanceInv, TypesInv, Entry, KeyOf
<1>4. PICK x \in LookupRecords :
         /\ x.query = lookup[l].query /\ x.at = lookup[l].at /\ x.served <= clock
         /\ x.status \in {"reading", "done"} /\ x.at <= x.served
         /\ lookup' = [lookup EXCEPT ![l] = x]
         /\ lookup[l].status \in {"asking", "reading"}
  <2>1. CASE HorizonAnswers(l)
    <3>1. PICK status \in {"reading", "done"}, omitted \in BOOLEAN :
             lookup' = [lookup EXCEPT ![l].status = status, ![l].served = clock,
                                      ![l].omitted = omitted]
      BY <2>1 DEF HorizonAnswers
    <3> DEFINE x == [lookup[l] EXCEPT !.status = status, !.served = clock,
                                      !.omitted = omitted]
    <3>2. /\ x \in LookupRecords /\ x.query = lookup[l].query /\ x.at = lookup[l].at
          /\ x.served = clock /\ x.status = status
      BY <1>1 DEF LookupRecords, Status
    <3>3. lookup' = [lookup EXCEPT ![l] = x] /\ lookup[l].status = "asking"
      BY <2>1, <3>1 DEF HorizonAnswers
    <3> HIDE DEF x
    <3>4. x.served <= clock /\ x.at <= x.served /\ x.status \in {"reading", "done"}
          /\ lookup[l].status \in {"asking", "reading"}
      BY <1>1, <3>2, <3>3
    <3> QED BY <3>2, <3>3, <3>4, Zenon
  <2>2. CASE TokensRead(l)
    <3> DEFINE x == [lookup[l] EXCEPT !.status = "done"]
    <3>1. /\ x \in LookupRecords /\ x.query = lookup[l].query /\ x.at = lookup[l].at
          /\ x.served = lookup[l].served /\ x.status = "done"
      BY <1>1 DEF LookupRecords, Status
    <3>2. lookup' = [lookup EXCEPT ![l] = x] /\ lookup[l].status = "reading"
      BY <2>2 DEF TokensRead
    <3> HIDE DEF x
    <3> QED BY <1>1, <3>1, <3>2
  <2> QED BY <2>1, <2>2
<1>5. x.status # "failed"
  BY <1>4
<1>6. \A p \in Queries :
         HasKey(balanceCache', KeyOf(p)) <=> HasKey(balanceCache, KeyOf(p))
  BY <1>2
<1> QED BY <1>2, <1>3, <1>4, <1>5, <1>6, LookupMoves

\* A lookup that fails takes its own entry with it, and no other.
LEMMA FailsSafe ==
    ASSUME BalanceInv, NEW l \in 1 .. started, LookupFails(l)
    PROVE  BalanceInv'
<1> DEFINE x == [lookup[l] EXCEPT !.status = "failed"]
           q == lookup[l].query
<1>1. /\ lookup[l] \in LookupRecords /\ l \in 1 .. MaxLookups /\ q \in Queries
      /\ lookup[l].served <= clock /\ MapOK(balanceCache, CacheKeys, CacheValues)
      /\ Len(balanceCache) <= MAX_BALANCE_CACHE_ENTRIES
  BY Bounds DEF BalanceInv, TypesInv, LookupsInv
<1>2. /\ x \in LookupRecords /\ x.query = q /\ x.at = lookup[l].at
      /\ x.served = lookup[l].served /\ x.status = "failed"
  BY <1>1 DEF LookupRecords, Status
<1>3. /\ lookup' = [lookup EXCEPT ![l] = x] /\ lookup[l].status = "asking"
      /\ UNCHANGED <<clock, started, reader, displaced>> /\ balanceCache' = Dropped(l)
  BY DEF LookupFails
<1>4. \A p \in Queries : HasKey(balanceCache, KeyOf(p)) /\ Entry(p).lookup = l => p = q
  BY DEF BalanceInv, CacheInv
<1>5. /\ MapOK(Dropped(l), CacheKeys, CacheValues)
      /\ Len(Dropped(l)) <= MAX_BALANCE_CACHE_ENTRIES
      /\ \A p \in Queries :
            /\ HasKey(Dropped(l), KeyOf(p)) <=>
                  HasKey(balanceCache, KeyOf(p)) /\ Entry(p).lookup # l
            /\ HasKey(Dropped(l), KeyOf(p)) =>
                  Lookup(Dropped(l), KeyOf(p), NoEntry) = Lookup(balanceCache, KeyOf(p), NoEntry)
  <2>1. CASE Entry(q).lookup = l
    <3> DEFINE rest == Delete(balanceCache, KeyOf(q))
    <3>1. Dropped(l) = rest
      BY <2>1 DEF Dropped
    <3>2. /\ MapOK(rest, CacheKeys, CacheValues) /\ Within(rest, balanceCache)
          /\ Len(rest) = IF HasKey(balanceCache, KeyOf(q)) THEN Len(balanceCache) - 1
                         ELSE Len(balanceCache)
          /\ \A k : HasKey(rest, k) <=> HasKey(balanceCache, k) /\ k # KeyOf(q)
      BY <1>1, DeleteMap
    <3> HIDE DEF rest
    <3>3. Len(rest) <= MAX_BALANCE_CACHE_ENTRIES
      <4>1. Len(balanceCache) \in Nat /\ MAX_BALANCE_CACHE_ENTRIES \in Nat
        BY <1>1, Bounds, LenProperties DEF MapOK
      <4> QED BY <1>1, <3>2, <4>1
    <3>4. ASSUME NEW p \in Queries, HasKey(rest, KeyOf(p))
          PROVE  Lookup(rest, KeyOf(p), NoEntry) = Lookup(balanceCache, KeyOf(p), NoEntry)
      <4>1. Distinct(rest) /\ Distinct(balanceCache)
        BY <1>1, <3>2 DEF MapOK
      <4> QED BY <3>2, <3>4, <4>1, WithinFound
    <3>5. \A p \in Queries : HasKey(rest, KeyOf(p)) <=>
                                HasKey(balanceCache, KeyOf(p)) /\ Entry(p).lookup # l
      BY <1>1, <1>4, <2>1, <3>2, KeysDiffer
    <3> QED BY <3>1, <3>2, <3>3, <3>4, <3>5
  <2>2. CASE Entry(q).lookup # l
    <3>1. Dropped(l) = balanceCache
      BY <2>2 DEF Dropped
    <3>2. \A p \in Queries : HasKey(balanceCache, KeyOf(p)) => Entry(p).lookup # l
      BY <1>4, <2>2
    <3> QED BY <1>1, <3>1, <3>2
  <2> QED BY <2>1, <2>2
<1>6. \A p \in Queries : /\ Entry(p) = Lookup(balanceCache, KeyOf(p), NoEntry)
                         /\ Entry(p)' = Lookup(balanceCache', KeyOf(p), NoEntry)
  BY DEF Entry, NoEntry, KeyOf
<1>7. \A p \in Queries :
         /\ HasKey(balanceCache', KeyOf(p)) =>
               /\ HasKey(balanceCache, KeyOf(p)) /\ Entry(p)' = Entry(p)
               /\ Entry(p).lookup # l
         /\ HasKey(balanceCache, KeyOf(p)) =>
               HasKey(balanceCache', KeyOf(p)) \/ Entry(p).lookup = l
  BY <1>3, <1>5, <1>6
<1>8. MapOK(balanceCache', CacheKeys, CacheValues)
      /\ Len(balanceCache') <= MAX_BALANCE_CACHE_ENTRIES
  BY <1>3, <1>5
<1> HIDE DEF x
<1> QED BY <1>1, <1>2, <1>3, <1>7, <1>8, LookupMoves

-----------------------------------------------------------------------------
(***************************************************************************)
(* Every behaviour.                                                        *)
(***************************************************************************)

\* The snap has just started.
Started ==
    /\ clock \in 0 .. MaxClock /\ balanceCache = << >> /\ started = 0
    /\ lookup = [l \in 1 .. MaxLookups |-> NoLookup]
    /\ reader = [r \in Readers |-> NoReader]

\* A snap that starts has cached nothing.
LEMMA NothingCached == Started => BalanceInv
<1> SUFFICES ASSUME Started PROVE BalanceInv
  OBVIOUS
<1> USE DEF Started
<1>1. NoLookup \in LookupRecords /\ NoReader \in ReaderRecords /\ NoReader.at = "idle"
      /\ NoReader.lookup = 0 /\ NoReader.since = 0
  BY DEF NoLookup, NoReader, LookupRecords, ReaderRecords, Status
<1>2. MapOK(balanceCache, CacheKeys, CacheValues) /\ Len(balanceCache) = 0
      /\ DOMAIN balanceCache = {}
  <2>1. << >> \in Seq(EntriesOf(CacheKeys, CacheValues)) /\ Len(<< >>) = 0
        /\ DOMAIN << >> = {}
    BY EmptySeq
  <2> QED BY <2>1 DEF MapOK, Distinct
<1>3. \A k : ~HasKey(balanceCache, k)
  BY <1>2 DEF HasKey
<1>4. TypesInv
  BY <1>1, <1>2, Bounds DEF TypesInv
<1>5. LookupsInv /\ HeldInv /\ OneLookupPerWindow
  BY Bounds DEF LookupsInv, HeldInv, OneLookupPerWindow, Begun
<1>6. CacheInv /\ ReadersInv
  BY <1>1, <1>3, Bounds DEF CacheInv, ReadersInv, ReaderOK
<1> QED BY <1>4, <1>5, <1>6 DEF BalanceInv

\* Time passes: an entry that outlives its window no longer counts.
LEMMA TickSafe ==
    ASSUME BalanceInv, Tick
    PROVE  BalanceInv'
<1>1. /\ clock \in Nat /\ clock' = clock + 1 /\ clock' \in 0 .. MaxClock
      /\ UNCHANGED <<balanceCache, lookup, started, reader, displaced>>
  BY Bounds DEF Tick, BalanceInv, TypesInv
<1>2. \A l \in 1 .. started : lookup[l] \in LookupRecords /\ lookup[l].at \in Nat
                              /\ lookup[l].served \in Nat
  BY Bounds DEF BalanceInv, TypesInv, LookupRecords
<1>3. TypesInv'
  BY <1>1 DEF BalanceInv, TypesInv
<1>4. LookupsInv'
  <2>1. \A l \in 1 .. started : lookup[l].at <= clock + 1 /\ lookup[l].served <= clock + 1
    BY <1>1, <1>2 DEF BalanceInv, LookupsInv
  <2> QED BY <1>1, <2>1 DEF BalanceInv, LookupsInv
<1>5. CacheInv' /\ OneLookupPerWindow'
  BY <1>1 DEF BalanceInv, CacheInv, OneLookupPerWindow, Begun, Entry, KeyOf
<1>6. HeldInv'
  <2> SUFFICES ASSUME NEW l \in 1 .. started
               PROVE  \/ lookup'[l].status = "failed" \/ l \in displaced' \/ Cached(l)'
                      \/ clock' - lookup'[l].at >= BALANCE_CACHE_TTL_MS
    BY <1>1 DEF HeldInv
  <2>1. Cached(l) => Cached(l)'
    BY <1>1 DEF Cached, Entry, KeyOf
  <2>2. clock - lookup[l].at >= BALANCE_CACHE_TTL_MS
           => clock' - lookup'[l].at >= BALANCE_CACHE_TTL_MS
    BY <1>1, <1>2, Bounds
  <2> QED BY <1>1, <2>1, <2>2 DEF BalanceInv, HeldInv
<1>7. ReadersInv'
  <2> SUFFICES ASSUME NEW r \in Readers PROVE ReaderOK(reader[r])'
    BY DEF ReadersInv
  <2>1. ReaderOK(reader[r]) /\ reader[r].since \in Nat
    BY DEF BalanceInv, TypesInv, ReadersInv, ReaderRecords
  <2>2. reader[r].since <= clock + 1
    BY <1>1, <2>1 DEF ReaderOK
  <2> QED BY <1>1, <2>1, <2>2 DEF ReaderOK
<1> QED BY <1>3, <1>4, <1>5, <1>6, <1>7 DEF BalanceInv

\* BalanceInv is inductive.
LEMMA NextBalances ==
    ASSUME BalanceInv, [Next]_vars
    PROVE  BalanceInv'
<1>1. CASE \E r \in Readers, q \in Queries, tokens \in TokenCounts : getBalances(r, q, tokens)
  BY <1>1, ShareSafe, LookUpSafe DEF getBalances
<1>2. CASE \E r \in Readers : Resume(r) \/ Disclose(r)
  <2>1. PICK r \in Readers : Resume(r) \/ Disclose(r)
    BY <1>2
  <2>2. CASE Resume(r)
    BY <2>2, ResumeSafe
  <2>3. CASE Disclose(r)
    BY <2>3, ReaderGoes DEF Disclose
  <2> QED BY <2>1, <2>2, <2>3
<1>3. CASE \E l \in 1 .. started : HorizonAnswers(l) \/ TokensRead(l) \/ LookupFails(l)
  BY <1>3, AnsweredSafe, FailsSafe
<1>4. CASE Tick
  BY <1>4, TickSafe
<1>5. CASE Terminate
  <2>1. Started'
    BY <1>5 DEF Started, Terminate, BalanceInv, TypesInv
  <2> QED BY <2>1, NothingCached, PTL
<1>6. CASE UNCHANGED vars
  BY <1>6 DEF vars, BalanceInv, TypesInv, LookupsInv, CacheInv, HeldInv, ReadersInv,
              OneLookupPerWindow, Begun, Cached, Entry, KeyOf, ReaderOK
<1> QED BY <1>1, <1>2, <1>3, <1>4, <1>5, <1>6 DEF Next, Quiet

\* BalanceInv holds in every behaviour of the cache.
LEMMA BalancesSound == Spec => []BalanceInv
<1>1. Init => BalanceInv
  <2>1. Init => Started
    BY Bounds DEF Init, Started
  <2> QED BY <2>1, NothingCached
<1>2. BalanceInv /\ [Next]_vars => BalanceInv'
  BY NextBalances
<1> QED BY <1>1, <1>2, PTL DEF Spec

\* In every behaviour the variables of the cache have their types, and an
\* entry names a lookup that has started, whatever was evicted since.
THEOREM BalancesTyped == Spec => []BalanceTypeOK
<1>1. BalanceInv => BalanceTypeOK
  <2> SUFFICES ASSUME BalanceInv PROVE BalanceTypeOK
    OBVIOUS
  <2>1. clock \in Nat /\ started \in Nat
    BY Bounds DEF BalanceInv, TypesInv
  <2>2. ASSUME NEW i \in DOMAIN balanceCache
        PROVE  balanceCache[i].value \in [at : 0 .. clock, lookup : 1 .. started]
    <3>1. /\ MapOK(balanceCache, CacheKeys, CacheValues) /\ Distinct(balanceCache)
          /\ balanceCache \in Seq(EntriesOf(CacheKeys, CacheValues))
      BY DEF BalanceInv, TypesInv, MapOK
    <3>2. balanceCache[i] \in EntriesOf(CacheKeys, CacheValues)
      BY <3>1, ElementOfSeq, LenProperties
    <3>3. PICK q \in Queries : balanceCache[i].key = KeyOf(q)
      BY <3>2 DEF EntriesOf, CacheKeys
    <3>4. HasKey(balanceCache, KeyOf(q)) /\ Entry(q) = balanceCache[i].value
      <4>1. HasKey(balanceCache, balanceCache[i].key)
            /\ Lookup(balanceCache, balanceCache[i].key, NoEntry) = balanceCache[i].value
        BY <3>1, EntryFound
      <4> QED BY <3>3, <4>1 DEF Entry, NoEntry
    <3>5. Entry(q).lookup \in 1 .. started /\ Entry(q).at = lookup[Entry(q).lookup].at
          /\ Entry(q).at <= clock
      BY <3>4 DEF BalanceInv, CacheInv, LookupsInv
    <3>6. Entry(q) \in CacheValues
      BY EntryType DEF BalanceInv
    <3> QED BY <2>1, <3>4, <3>5, <3>6 DEF CacheValues
  <2>3. ASSUME NEW l \in 1 .. MaxLookups
        PROVE  /\ lookup[l].status \in Status /\ lookup[l].tokens \in TokenCounts \cup {0}
               /\ lookup[l].at \in 0 .. clock /\ lookup[l].served \in 0 .. clock
    <3>1. lookup[l] \in LookupRecords
      BY DEF BalanceInv, TypesInv
    <3>2. lookup[l].at <= clock /\ lookup[l].served <= clock
      <4>1. CASE l \in 1 .. started
        BY <4>1 DEF BalanceInv, LookupsInv
      <4>2. CASE l > started
        BY <2>1, <4>2 DEF BalanceInv, LookupsInv, NoLookup
      <4> QED BY <2>1, <4>1, <4>2
    <3> QED BY <2>1, <3>1, <3>2 DEF LookupRecords
  <2>4. ASSUME NEW r \in Readers
        PROVE  /\ reader[r].at \in {"idle", "waiting", "checking"}
               /\ reader[r].lookup \in 0 .. started /\ reader[r].since \in 0 .. clock
    <3>1. reader[r] \in ReaderRecords /\ ReaderOK(reader[r])
      BY DEF BalanceInv, TypesInv, ReadersInv
    <3> QED BY <2>1, <3>1 DEF ReaderRecords, ReaderOK
  <2> QED BY <2>2, <2>3, <2>4 DEF BalanceTypeOK, BalanceInv, TypesInv
<1> QED BY <1>1, BalancesSound, PTL

\* In every behaviour the cache keeps to its limit, and holds a wallet once.
THEOREM CacheKeepsItsLimit == Spec => []CacheBounded
<1>1. BalanceInv => CacheBounded
  BY DEF BalanceInv, TypesInv, MapOK, Distinct, CacheBounded
<1> QED BY <1>1, BalancesSound, PTL

\* In every behaviour a wallet is looked up once in a window, unless the
\* lookup failed or its entry had to make room.
THEOREM LookupsAreShared == Spec => []OneLookupPerWindow
<1>1. BalanceInv => OneLookupPerWindow
  BY DEF BalanceInv
<1> QED BY <1>1, BalancesSound, PTL

\* In every behaviour a call waits for a lookup that has not failed.
THEOREM FailuresAreNotServed == Spec => FailureNotServed
<1> DEFINE Served == \A r \in Readers :
              reader[r].at = "idle" /\ reader'[r].at = "waiting" =>
                  lookup'[reader'[r].lookup].status # "failed"
<1>1. ASSUME BalanceInv, [Next]_vars PROVE [Served]_vars
  <2> SUFFICES ASSUME NEW r \in Readers, reader[r].at = "idle", reader'[r].at = "waiting"
               PROVE  lookup'[reader'[r].lookup].status # "failed"
    OBVIOUS
  <2>1. reader \in [Readers -> ReaderRecords]
    BY <1>1 DEF BalanceInv, TypesInv
  <2>2. PICK s \in Readers, q \in Queries, tokens \in TokenCounts : getBalances(s, q, tokens)
    <3>1. reader'[r] # reader[r]
      OBVIOUS
    <3>2. ~(UNCHANGED reader)
      BY <3>1
    <3>3. ~Tick /\ ~Quiet /\ ~(UNCHANGED vars)
          /\ \A l \in 1 .. started : ~(HorizonAnswers(l) \/ TokensRead(l) \/ LookupFails(l))
      BY <3>2 DEF Tick, Quiet, vars, HorizonAnswers, TokensRead, LookupFails
    <3>4. ~Terminate
      BY DEF Terminate, NoReader
    <3>5. ASSUME NEW s \in Readers, Resume(s) \/ Disclose(s) PROVE FALSE
      BY <2>1, <3>5 DEF Resume, Disclose, NoReader
    <3> QED BY <1>1, <3>3, <3>4, <3>5 DEF Next
  <2>3. s = r
    BY <2>1, <2>2 DEF getBalances, Share, LookUp, WaitFor
  <2>4. CASE Share(r, q)
    <3>1. reader'[r].lookup = Entry(q).lookup /\ lookup' = lookup /\ Live(q)
      BY <2>1, <2>4 DEF Share, WaitFor
    <3> QED BY <1>1, <3>1, LiveEntry
  <2>5. CASE LookUp(r, q, tokens)
    <3>1. lookup'[started + 1].status = "asking"
      BY <1>1, <2>2, <2>5, LookupBegun DEF getBalances
    <3>2. reader'[r].lookup = started + 1
      BY <2>1, <2>5 DEF LookUp, WaitFor
    <3> QED BY <3>1, <3>2
  <2> QED BY <2>2, <2>3, <2>4, <2>5 DEF getBalances
<1>2. BalanceInv /\ [Next]_vars => [Served]_vars
  BY <1>1
<1> QED BY <1>2, BalancesSound, PTL DEF Spec, FailureNotServed

\* In every behaviour an answer is about the wallet that was asked for, and
\* younger than a window when it was.
THEOREM AnswersAreTheCallers == Spec => AnswersTheCall
<1> DEFINE Answered == \A r \in Readers :
              reader[r].at = "checking" /\ reader'[r].at = "idle"
                /\ terminations' = terminations =>
                  LET l == lookup[reader[r].lookup]
                  IN /\ l.query = reader[r].query
                     /\ reader[r].since - l.served < BALANCE_CACHE_TTL_MS
<1>1. ASSUME BalanceInv PROVE Answered
  <2> SUFFICES ASSUME NEW r \in Readers, reader[r].at = "checking"
               PROVE  /\ lookup[reader[r].lookup].query = reader[r].query
                      /\ reader[r].since - lookup[reader[r].lookup].served
                             < BALANCE_CACHE_TTL_MS
    OBVIOUS
  <2> DEFINE n == reader[r].lookup
  <2>1. reader[r] \in ReaderRecords /\ ReaderOK(reader[r])
    BY <1>1 DEF BalanceInv, TypesInv, ReadersInv
  <2>2. n \in 1 .. started /\ lookup[n].query = reader[r].query
        /\ reader[r].since - lookup[n].at < BALANCE_CACHE_TTL_MS
        /\ lookup[n].status = "done"
    BY <2>1 DEF ReaderOK
  <2>3. lookup[n].at <= lookup[n].served
    BY <1>1, <2>2 DEF BalanceInv, LookupsInv
  <2>4. lookup[n] \in LookupRecords
    BY <1>1, <2>2, Bounds DEF BalanceInv, TypesInv
  <2>5. lookup[n].at \in Nat /\ lookup[n].served \in Nat /\ reader[r].since \in Nat
    BY <2>1, <2>4 DEF LookupRecords, ReaderRecords
  <2> QED BY <2>2, <2>3, <2>5, Bounds
<1>2. BalanceInv => [Answered]_vars
  BY <1>1
<1> QED BY <1>2, BalancesSound, PTL DEF AnswersTheCall

=============================================================================
