SPECIFICATION Spec
CONSTANTS
    r1 = r1
    r2 = r2
    h1 = h1
    h2 = h2
    Refreshes = {r1, r2}
    Loads = {h1, h2}
    Calls <- MCCalls
    Wallets <- MCWallets
    Unconnected = "unconnected"
    None = None
    Pin = "pin"
    OtherVersions = {"later"}
    MaxEvents = 1
    MaxChanges = 1
INVARIANTS RestShowsTheWallet RowsOfTheTable
PROPERTIES InvokesThePin ControlsComeBack
CHECK_DEADLOCK FALSE
