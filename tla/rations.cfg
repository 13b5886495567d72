SPECIFICATION ObservedSpec
CONSTANTS
    anna = anna
    bert = bert
    c1 = c1
    c2 = c2
    c3 = c3
    c4 = c4
    Origins = {anna, bert}
    Watched = {anna, bert}
    Methods = {"signMessage", "signTransaction", "getBalances"}
    Calls = {c1, c2, c3}
    RATE_LIMITS <- SomeRates
    InitialGrants <- AnyGrants
    LookupCounts = {1, 2}
    MAX_CONSECUTIVE_REJECTIONS = 1
    MAX_UNANSWERED_DIALOGS = 2
    COOLDOWN_MS = 2
    MAX_TRACKED_ORIGINS = 1
    WINDOW_MS = 2
    MAX_TRACKED_KEYS = 2
    MAX_INFLIGHT_PER_ORIGIN = 2
    MAX_INFLIGHT_GLOBAL = 4
    MAX_INFLIGHT_UNCONNECTED = 2
    MAX_PREDIALOG_LOOKUPS = 3
    MAX_PREDIALOG_UNCONNECTED = 1
    MAX_TOKEN_READ_LOOKUPS = 2
    MaxClock = 3
    MaxGrantChanges = 0
    MaxTerminations = 0
SYMMETRY Symmetry
CONSTRAINT RationFamilies
INVARIANTS DialogsRationed CooldownEarned RatesHeld
PROPERTIES RefusedAtLimit ReserveKept
