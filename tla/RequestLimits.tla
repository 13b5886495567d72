---------------------------- MODULE RequestLimits ----------------------------
(***************************************************************************)
(* The bounds on the work requests cause (packages/snap/src/rpc/limiter.ts)*)
(* : a sliding window per site and method, slots for executing requests,   *)
(* and two global budgets of outbound lookups.  One window length serves   *)
(* every limit of the code.                                                *)
(***************************************************************************)
EXTENDS RecencyMap, FiniteSets

CONSTANTS
    RATE_LIMITS,               \* method -> requests allowed in a window
    WINDOW_MS,
    MAX_TRACKED_KEYS,          \* limiter.ts's own MAX_TRACKED_ORIGINS
    MAX_INFLIGHT_PER_ORIGIN,
    MAX_INFLIGHT_GLOBAL,
    MAX_INFLIGHT_UNCONNECTED,
    MAX_PREDIALOG_LOOKUPS,
    MAX_PREDIALOG_UNCONNECTED,
    MAX_TOKEN_READ_LOOKUPS

ASSUME LimitsAssumption ==
    /\ {WINDOW_MS, MAX_TRACKED_KEYS, MAX_INFLIGHT_PER_ORIGIN, MAX_INFLIGHT_GLOBAL,
        MAX_INFLIGHT_UNCONNECTED, MAX_PREDIALOG_LOOKUPS, MAX_PREDIALOG_UNCONNECTED,
        MAX_TOKEN_READ_LOOKUPS} \subseteq Nat
    /\ MAX_TRACKED_KEYS > 0 /\ WINDOW_MS > 0 /\ MAX_INFLIGHT_PER_ORIGIN > 0
    /\ MAX_INFLIGHT_UNCONNECTED <= MAX_INFLIGHT_GLOBAL
    /\ \A m \in DOMAIN RATE_LIMITS : RATE_LIMITS[m] \in Nat

VARIABLES
    requestLog,    \* recency map: <<site, method>> -> times of its requests
    inflight,      \* site -> its executing requests
    inflightTotal, \* the executing requests of every site
    predialogLog,  \* times of the lookups made before signing dialogs
    tokenReadLog   \* times of the token contract reads

\* The times of a log that are in the last span, at time now; logs are in
\* order, so those that are past come first.
Past(times, span, now) == {i \in DOMAIN times : times[i] + span <= now}

Lately(times, span, now) ==
    SubSeq(times, Cardinality(Past(times, span, now)) + 1, Len(times))

Recent(log, now) == Lately(log, WINDOW_MS, now)

Key(o, method) == <<o, method>>

Window(o, method, now) == Recent(Lookup(requestLog, Key(o, method), << >>), now)

RateAllowed(o, method, now) ==
    method \in DOMAIN RATE_LIMITS =>
        Len(Window(o, method, now)) < RATE_LIMITS[method]

\* Mutant: a refused request is counted too.
CountEveryRequest(o, method, now) ==
    requestLog' =
        IF method \notin DOMAIN RATE_LIMITS THEN requestLog
        ELSE Touch(IF HasKey(requestLog, Key(o, method)) THEN requestLog
                   ELSE EvictIfFull(requestLog, MAX_TRACKED_KEYS),
                   Key(o, method), Append(Window(o, method, now), now))

\* Mutant: a full map evicts a key without asking whether this one is in it.
EvictFirst(o, method, now) ==
    requestLog' =
        IF method \notin DOMAIN RATE_LIMITS THEN requestLog
        ELSE Touch(EvictIfFull(requestLog, MAX_TRACKED_KEYS), Key(o, method),
                   IF RateAllowed(o, method, now)
                   THEN Append(Window(o, method, now), now)
                   ELSE Window(o, method, now))

\* assertRateAllowed: the key is used, whatever the answer; only an allowed
\* request is counted.
RateChecked(o, method, now) ==
    requestLog' =
        IF method \notin DOMAIN RATE_LIMITS THEN requestLog
        ELSE Touch(IF HasKey(requestLog, Key(o, method)) THEN requestLog
                   ELSE EvictIfFull(requestLog, MAX_TRACKED_KEYS),
                   Key(o, method),
                   IF RateAllowed(o, method, now)
                   THEN Append(Window(o, method, now), now)
                   ELSE Window(o, method, now))

-----------------------------------------------------------------------------
\* The slots of withInflightBudget, for a site known to be connected or not.
\* Mutant: one ceiling for every site.
SharedCeiling(connected) == MAX_INFLIGHT_UNCONNECTED

Ceiling(connected) ==
    IF connected THEN MAX_INFLIGHT_GLOBAL ELSE MAX_INFLIGHT_UNCONNECTED

SlotFree(connected) == inflightTotal < Ceiling(connected)

SiteSlotFree(o) == inflight[o] < MAX_INFLIGHT_PER_ORIGIN

TakeSlot(o) ==
    /\ inflight' = [inflight EXCEPT ![o] = @ + 1]
    /\ inflightTotal' = inflightTotal + 1

\* The finally block; a site's count is dropped from the map at zero.
ReleaseSlot(o) ==
    /\ inflight' = [inflight EXCEPT ![o] = IF @ > 0 THEN @ - 1 ELSE 0]
    /\ inflightTotal' = inflightTotal - 1

-----------------------------------------------------------------------------
\* takeWindowedBudget: count slots of a budget, all or nothing.
BudgetAllows(log, ceiling, count, now) == Len(Recent(log, now)) + count <= ceiling

BudgetTaken(log, ceiling, count, now) ==
    IF BudgetAllows(log, ceiling, count, now)
    THEN Recent(log, now) \o [i \in 1 .. count |-> now]
    ELSE Recent(log, now)

\* Mutant: one share for every site.
SharedPool(connected) == MAX_PREDIALOG_LOOKUPS

PredialogShare(connected) ==
    IF connected THEN MAX_PREDIALOG_LOOKUPS ELSE MAX_PREDIALOG_UNCONNECTED

PredialogAllows(connected, count, now) ==
    BudgetAllows(predialogLog, PredialogShare(connected), count, now)

takePredialogBudget(connected, count, now) ==
    predialogLog' = BudgetTaken(predialogLog, PredialogShare(connected), count, now)

TokenReadAllows(count, now) ==
    BudgetAllows(tokenReadLog, MAX_TOKEN_READ_LOOKUPS, count, now)

takeTokenReadBudget(count, now) ==
    tokenReadLog' = BudgetTaken(tokenReadLog, MAX_TOKEN_READ_LOOKUPS, count, now)
=============================================================================
