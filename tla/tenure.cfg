SPECIFICATION Spec
CONSTANTS
    r1 = r1
    r2 = r2
    r3 = r3
    site = site
    other = other
    testnet = testnet
    public = public
    token = token
    alpha = alpha
    beta = beta
    srcA = srcA
    srcA2 = srcA2
    srcB = srcB
    None = None
    Origins = {site}
    Networks = {testnet}
    DefaultNetwork = testnet
    Tokens = {token}
    Phrases = {alpha, beta}
    MaxAccountIndex = 1
    MaxTrackedTokens = 1
    MaxTrackedGrants = 1
    Times = {0}
    Sources = {srcA, srcA2, srcB}
    PhraseOf <- MCPhraseOf
    Requests = {r1, r2, r3}
    Calls <- OverlapCalls
    InitialStores <- SigningStores
    MaxSwitches = 2
    MaxFailures = 0
    MaxCrashes = 0
CONSTRAINT OverlapFamilies
SYMMETRY Symmetry
INVARIANTS VerifiedMeansReconciled
PROPERTIES DisclosedInTenure SignsAsApproved
