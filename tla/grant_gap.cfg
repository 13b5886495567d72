SPECIFICATION Spec
CONSTANTS
    r1 = r1
    r2 = r2
    r3 = r3
    site = site
    other = other
    testnet = testnet
    public = public
    token = token
    alpha = alpha
    beta = beta
    srcA = srcA
    srcA2 = srcA2
    srcB = srcB
    None = None
    Origins = {site, other}
    Networks = {testnet}
    DefaultNetwork = testnet
    Tokens = {token}
    Phrases = {alpha, beta}
    MaxAccountIndex = 1
    MaxTrackedTokens = 1
    MaxTrackedGrants = 1
    Times = {0, 1}
    Sources = {srcA, srcB}
    PhraseOf <- MCPhraseOf
    Requests = {r1}
    Calls <- ConnectCalls
    InitialStores <- FullRegistry
    MaxSwitches = 0
    MaxFailures = 0
    MaxCrashes = 0
PROPERTIES NewGrantSurvives
