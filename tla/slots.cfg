SPECIFICATION ObservedSpec
CONSTANTS
    anna = anna
    bert = bert
    c1 = c1
    c2 = c2
    c3 = c3
    c4 = c4
    Origins = {anna, bert}
    Watched = {}
    Methods = {"addToken", "getBalances"}
    Calls = {c1, c2, c3, c4}
    RATE_LIMITS <- NoLimits
    InitialGrants <- AnyGrants
    LookupCounts = {1}
    MAX_CONSECUTIVE_REJECTIONS = 4
    MAX_UNANSWERED_DIALOGS = 4
    COOLDOWN_MS = 2
    MAX_TRACKED_ORIGINS = 1
    WINDOW_MS = 2
    MAX_TRACKED_KEYS = 2
    MAX_INFLIGHT_PER_ORIGIN = 2
    MAX_INFLIGHT_GLOBAL = 3
    MAX_INFLIGHT_UNCONNECTED = 2
    MAX_PREDIALOG_LOOKUPS = 3
    MAX_PREDIALOG_UNCONNECTED = 1
    MAX_TOKEN_READ_LOOKUPS = 1
    MaxClock = 1
    MaxGrantChanges = 1
    MaxTerminations = 1
INVARIANTS GateTypeOK SlotsCounted CeilingsHeld
PROPERTIES BusyMeansFull
SYMMETRY Symmetry
