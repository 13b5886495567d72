SPECIFICATION Spec
CONSTANTS
    anna = anna
    bert = bert
    Readers = {anna, bert}
    Queries <- MCQueries
    TokenCounts = {2}
    BALANCE_CACHE_TTL_MS = 2
    MAX_BALANCE_CACHE_ENTRIES = 1
    TokenWindow = 2
    TokenReads = 3
    MaxClock = 3
    MaxLookups = 3
    MaxTerminations = 1
SYMMETRY Symmetry
INVARIANTS BalanceTypeOK OneLookupPerWindow CacheBounded
PROPERTIES FailureNotServed AnswersTheCall
