---------------------------- MODULE BalanceCache ----------------------------
(***************************************************************************)
(* getBalances and the cache that coalesces its lookups                    *)
(* (packages/snap/src/handlers/account.tsx): readers of one wallet share a *)
(* lookup, in flight or settled, for a short window from its start.  A     *)
(* lookup asks Horizon, then reads the token contracts if the budget of    *)
(* RequestLimits has room for all of them.                                 *)
(*                                                                         *)
(* A lookup may outlive its window, and its failure may outlive its entry. *)
(***************************************************************************)
EXTENDS RecencyMap, Integers, FiniteSets

CONSTANTS
    Readers,                   \* the calls of getBalances that may be pending
    Queries,                   \* pairs of a network and an own address
    TokenCounts,               \* how many tokens a wallet may track
    BALANCE_CACHE_TTL_MS,
    MAX_BALANCE_CACHE_ENTRIES,
    TokenWindow,               \* PREDIALOG_WINDOW_MS
    TokenReads,                \* MAX_TOKEN_READ_LOOKUPS
    MaxClock,                  \* bound on the clock
    MaxLookups,                \* bound on the lookups started
    MaxTerminations            \* bound on the terminations of the snap

ASSUME BalanceAssumption ==
    /\ {BALANCE_CACHE_TTL_MS, MAX_BALANCE_CACHE_ENTRIES} \subseteq Nat \ {0}
    /\ {TokenWindow, TokenReads, MaxClock, MaxLookups, MaxTerminations} \subseteq Nat
    /\ TokenCounts \subseteq Nat
    /\ \A q \in Queries : q = [network |-> q.network, address |-> q.address]

VARIABLES
    clock,        \* Date.now()
    balanceCache, \* Map: key -> the start of a lookup and its promise, by insertion
    lookup,       \* the lookups, by number
    started,      \* how many of them have started
    reader,       \* the pending calls
    tokenReadLog, \* times of the token contract reads
    displaced,    \* the lookups whose entries made room for others
    terminations

vars == <<clock, balanceCache, lookup, started, reader, tokenReadLog, displaced,
          terminations>>

\* Only the token-read budget of the limiter is used here.
Limits == INSTANCE RequestLimits WITH
    requestLog <- << >>, inflight <- << >>, inflightTotal <- 0, predialogLog <- << >>,
    RATE_LIMITS <- << >>, WINDOW_MS <- TokenWindow, MAX_TRACKED_KEYS <- 1,
    MAX_INFLIGHT_PER_ORIGIN <- 0, MAX_INFLIGHT_GLOBAL <- 0,
    MAX_INFLIGHT_UNCONNECTED <- 0, MAX_PREDIALOG_LOOKUPS <- 0,
    MAX_PREDIALOG_UNCONNECTED <- 0, MAX_TOKEN_READ_LOOKUPS <- TokenReads

NoQuery == [network |-> "none", address |-> "none"]

\* at: when it started; served: when Horizon answered; omitted: whether the
\* answer leaves its token rows out, and says so.
NoLookup == [status |-> "none", query |-> NoQuery, tokens |-> 0, at |-> 0, served |-> 0,
             omitted |-> FALSE]

NoReader == [at |-> "idle", query |-> NoQuery, lookup |-> 0, since |-> 0]

Init ==
    /\ clock = 0 /\ balanceCache = << >>
    /\ lookup = [l \in 1 .. MaxLookups |-> NoLookup] /\ started = 0
    /\ reader = [r \in Readers |-> NoReader]
    /\ tokenReadLog = << >> /\ displaced = {} /\ terminations = 0

-----------------------------------------------------------------------------
(***************************************************************************)
(* A call, up to the lookup it waits for.                                  *)
(***************************************************************************)
KeyOf(q) == <<q.network, q.address>>

Entry(q) == Lookup(balanceCache, KeyOf(q), [at |-> 0, lookup |-> 0])

\* A hit: the entry is still in its window.
Live(q) ==
    /\ HasKey(balanceCache, KeyOf(q))
    /\ clock - Entry(q).at < BALANCE_CACHE_TTL_MS

WaitFor(r, q, l) ==
    reader' = [reader EXCEPT ![r] = [at |-> "waiting", query |-> q, lookup |-> l,
                                     since |-> clock]]

\* Mutant: a hit starts the window over.
ShareAndRenew(r, q) ==
    /\ Live(q)
    /\ WaitFor(r, q, Entry(q).lookup)
    /\ balanceCache' = Replace(balanceCache, KeyOf(q), [Entry(q) EXCEPT !.at = clock])
    /\ UNCHANGED <<lookup, started, displaced>>

Share(r, q) ==
    /\ Live(q)
    /\ WaitFor(r, q, Entry(q).lookup)
    /\ UNCHANGED <<balanceCache, lookup, started, displaced>>

\* Mutant: room is made only once the cache is over its limit.
RoomWhenOver == IF Len(balanceCache) > MAX_BALANCE_CACHE_ENTRIES
                THEN Tail(balanceCache) ELSE balanceCache

\* At the limit the entry inserted first makes room, whether or not the key
\* to be set is a new one.
Room == IF Len(balanceCache) >= MAX_BALANCE_CACHE_ENTRIES
        THEN Tail(balanceCache) ELSE balanceCache

\* Map.set: a key the map holds keeps its place.
Set(map, key, value) ==
    IF HasKey(map, key) THEN Replace(map, key, value) ELSE Insert(map, key, value)

\* Mutant: an entry keeps the end of its window.
FreshUntil(l) == [at |-> clock + BALANCE_CACHE_TTL_MS, lookup |-> l]

\* A new entry keeps the start of its window.
Fresh(l) == [at |-> clock, lookup |-> l]

LookUp(r, q, tokens) ==
    /\ ~Live(q) /\ started < MaxLookups
    /\ LET l == started + 1
       IN /\ started' = l
          /\ lookup' = [lookup EXCEPT ![l] =
                [NoLookup EXCEPT !.status = "asking", !.query = q, !.tokens = tokens,
                                 !.at = clock]]
          /\ balanceCache' = Set(Room, KeyOf(q), Fresh(l))
          /\ displaced' = displaced \cup
                (IF Room = balanceCache \/ Head(balanceCache).key = KeyOf(q) THEN {}
                 ELSE {Head(balanceCache).value.lookup})
          /\ WaitFor(r, q, l)

getBalances(r, q, tokens) ==
    /\ reader[r].at = "idle"
    /\ Share(r, q) \/ LookUp(r, q, tokens)
    /\ UNCHANGED <<clock, tokenReadLog, terminations>>

-----------------------------------------------------------------------------
(***************************************************************************)
(* A lookup, whoever waits for it.                                         *)
(***************************************************************************)
\* Horizon answers; the token reads claim their budget, all or none.
HorizonAnswers(l) ==
    /\ lookup[l].status = "asking"
    /\ LET tokens == lookup[l].tokens
           budgeted == tokens = 0 \/ Limits!TokenReadAllows(tokens, clock)
       IN /\ lookup' = [lookup EXCEPT ![l].status = IF budgeted /\ tokens > 0
                                                    THEN "reading" ELSE "done",
                                      ![l].served = clock,
                                      ![l].omitted = ~budgeted]
          /\ IF tokens = 0 THEN UNCHANGED tokenReadLog
             ELSE Limits!takeTokenReadBudget(tokens, clock)
    /\ UNCHANGED <<clock, balanceCache, started, reader, displaced, terminations>>

\* The contracts answer; a read that fails leaves its row out.
TokensRead(l) ==
    /\ lookup[l].status = "reading"
    /\ lookup' = [lookup EXCEPT ![l].status = "done"]
    /\ UNCHANGED <<clock, balanceCache, started, reader, tokenReadLog, displaced,
                   terminations>>

\* Mutant: the failure evicts whatever is cached under its key.
DropByKey(l) == Delete(balanceCache, KeyOf(lookup[l].query))

\* Mutant: a failure stays for the rest of its window.
DropNothing(l) == balanceCache

\* The catch of the promise: only its own entry is evicted.
Dropped(l) ==
    IF Entry(lookup[l].query).lookup = l
    THEN Delete(balanceCache, KeyOf(lookup[l].query))
    ELSE balanceCache

LookupFails(l) ==
    /\ lookup[l].status = "asking"
    /\ lookup' = [lookup EXCEPT ![l].status = "failed"]
    /\ balanceCache' = Dropped(l)
    /\ UNCHANGED <<clock, started, reader, tokenReadLog, displaced, terminations>>

-----------------------------------------------------------------------------
(***************************************************************************)
(* The answer: disclose.                                                   *)
(***************************************************************************)
Resume(r) ==
    /\ reader[r].at = "waiting"
    /\ \/ /\ lookup[reader[r].lookup].status = "done"
          /\ reader' = [reader EXCEPT ![r].at = "checking"]
       \/ /\ lookup[reader[r].lookup].status = "failed"
          /\ reader' = [reader EXCEPT ![r] = NoReader]
    /\ UNCHANGED <<clock, balanceCache, lookup, started, tokenReadLog, displaced,
                   terminations>>

\* assertPhraseUnchanged (module EntropyBinding) lets the answer go or refuses.
Disclose(r) ==
    /\ reader[r].at = "checking"
    /\ reader' = [reader EXCEPT ![r] = NoReader]
    /\ UNCHANGED <<clock, balanceCache, lookup, started, tokenReadLog, displaced,
                   terminations>>

Tick ==
    /\ clock < MaxClock /\ clock' = clock + 1
    /\ UNCHANGED <<balanceCache, lookup, started, reader, tokenReadLog, displaced,
                   terminations>>

\* The snap is terminated: the replies of its lookups find nobody.
Terminate ==
    /\ terminations < MaxTerminations /\ terminations' = terminations + 1
    /\ balanceCache' = << >> /\ tokenReadLog' = << >>
    /\ reader' = [r \in Readers |-> NoReader]
    /\ lookup' = [l \in 1 .. MaxLookups |-> NoLookup]
    /\ started' = 0 /\ displaced' = {}
    /\ UNCHANGED clock

\* Nobody waits for an answer.
Quiet == (\A r \in Readers : reader[r].at = "idle") /\ UNCHANGED vars

Next ==
    \/ \E r \in Readers, q \in Queries, tokens \in TokenCounts : getBalances(r, q, tokens)
    \/ \E r \in Readers : Resume(r) \/ Disclose(r)
    \/ \E l \in 1 .. started : HorizonAnswers(l) \/ TokensRead(l) \/ LookupFails(l)
    \/ Tick \/ Terminate \/ Quiet

Spec == Init /\ [][Next]_vars

-----------------------------------------------------------------------------
(***************************************************************************)
(* What the cache owes its readers and the network.                        *)
(***************************************************************************)
Status == {"none", "asking", "reading", "done", "failed"}

\* The type of every variable; an entry names a lookup that has started.
BalanceTypeOK ==
    /\ clock \in 0 .. MaxClock /\ started \in 0 .. MaxLookups
    /\ \A i \in DOMAIN balanceCache :
          balanceCache[i].value \in [at : 0 .. clock, lookup : 1 .. started]
    /\ \A l \in 1 .. MaxLookups :
          /\ lookup[l].status \in Status /\ lookup[l].tokens \in TokenCounts \cup {0}
          /\ lookup[l].at \in 0 .. clock /\ lookup[l].served \in 0 .. clock
    /\ \A r \in Readers :
          /\ reader[r].at \in {"idle", "waiting", "checking"}
          /\ reader[r].lookup \in 0 .. started /\ reader[r].since \in 0 .. clock

Begun == {l \in 1 .. started : lookup[l].status # "none"}

\* Two lookups of one wallet begin within a window only when the first had
\* failed or its entry had made room: in particular the late failure of an
\* expired lookup never evicts the one in flight that replaced it.
OneLookupPerWindow ==
    \A l, m \in Begun :
        l < m /\ lookup[l].query = lookup[m].query
          /\ lookup[m].at - lookup[l].at < BALANCE_CACHE_TTL_MS
            => lookup[l].status = "failed" \/ l \in displaced

\* The cache never holds more entries than its limit, nor two under one key,
\* though an expired key is set anew in place while others are evicted.
CacheBounded ==
    /\ Len(balanceCache) <= MAX_BALANCE_CACHE_ENTRIES
    /\ \A i, j \in DOMAIN balanceCache :
          balanceCache[i].key = balanceCache[j].key => i = j

\* A caller is never handed a failure that was settled before it called.
FailureNotServed ==
    [][\A r \in Readers :
          reader[r].at = "idle" /\ reader'[r].at = "waiting" =>
              lookup'[reader'[r].lookup].status # "failed"]_vars

\* An answer is about the network and the address of the call it answers, and
\* was read from the network less than a window before that call was made.
AnswersTheCall ==
    [][\A r \in Readers :
          reader[r].at = "checking" /\ reader'[r].at = "idle"
            /\ terminations' = terminations =>
              LET l == lookup[reader[r].lookup]
              IN /\ l.query = reader[r].query
                 /\ reader[r].since - l.served < BALANCE_CACHE_TTL_MS]_vars
=============================================================================
