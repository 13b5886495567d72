SPECIFICATION Spec
CONSTANTS
    Ends <- ShortEnds
    Base <- MCBase
    SacOf <- MCSacOf
    Tracked = {"C"}
    Calls <- MCCalls
    AccountResponses <- MCAccountResponses
    LedgerResponses <- MCLedgerResponses
    Reports <- MCReports
    SubmitResponses <- MCSubmitResponses
    Logs <- MCLogs
    Heights = {2, 4, 5}
    MAX_ORIGIN_DISPLAY_LENGTH = 3
    MAX_SCVAL_DEPTH = 2
    MAX_SCVAL_ITEMS = 2
    MAX_SCVAL_BYTES = 2
    MAX_SCVAL_STRING_CHARS = 5
    MAX_INVOCATION_DEPTH = 2
    MAX_INVOCATION_NODES = 3
    MAX_EMBEDDED_AUTH_ENTRIES = 2
    MAX_FOOTPRINT_KEYS = 2
    MAX_CLAIM_PREDICATE_DEPTH = 2
    MAX_DESTINATION_CHECKS = 2
    MAX_SOURCE_CHECKS = 2
    MAX_EVENTS = 3
    MAX_BALANCE_ASSETS = 2
    MAX_SIM_RESULTS = 2
    MAX_SIM_AUTH_PER_RESULT = 2
    MAX_SIM_AUTH_SIGNERS = 2
    DEFAULT_AUTH_TTL_LEDGERS = 2
    MAX_AUTH_TTL_LEDGERS = 3
    MAX_LEDGER_SEQUENCE = 6
    Lookups = 4
    UnconnectedLookups = 3
INVARIANTS ReviewTypeOK DialogTellsCallsApart SilenceIsVerified AuthorizationExpires SignersDisclosed BalanceRowsTrue
