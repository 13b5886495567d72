------------------------------- MODULE MCSnap -------------------------------
(***************************************************************************)
(* Instances of WalletRefinement for TLC: two phrases, of which the first  *)
(* may be behind two sources, and the calls of one family at a time.       *)
(***************************************************************************)
EXTENDS WalletRefinement, TLC

CONSTANTS r1, r2, r3,            \* requests
          site, other,           \* sites
          testnet, public,       \* networks
          token,                 \* a token contract
          alpha, beta,           \* phrases
          srcA, srcA2, srcB      \* sources; srcA2 is a re-import of alpha

MCPhraseOf == [s \in Sources |-> IF s = srcB THEN beta ELSE alpha]

Granting(s, o, disclosure) ==
    [s EXCEPT !.fp = alpha,
              !.origins[o] = [connectedAt |-> 0, disclosure |-> disclosure]]

Fresh     == DefaultState
Bound     == [DefaultState EXCEPT !.fp = alpha]
Connected1 == Granting(DefaultState, site, "current")
Outdated  == Granting(DefaultState, site, "none")

Call(op, o, arg) == [op |-> op, origin |-> o, arg |-> arg]
Address(p, i) == [phrase |-> p, index |-> i]

\* Connecting, asking for the address, disconnecting, and the home page.
AccessCalls ==
    {Call("requestAccess", site, None), Call("getAddress", site, None),
     Call("disconnect", None, site), Call("home", None, None)}
AccessStores == {Fresh, Connected1, Outdated}

\* A registry of grants at its limit, whose one grant is the newest of all.
FullRegistry == {[Bound EXCEPT !.origins[other] =
                     [connectedAt |-> 1, disclosure |-> "current"]]}
ConnectCalls == {Call("requestAccess", site, None)}

NoticeStores == {[Bound EXCEPT !.notice = "phrase-changed"]}
NoticeCalls  == {Call("home", None, None)}
ResetStores  == {[Bound EXCEPT !.network = public]}

\* Three overlapping requests of a connected site, for a phrase that changes
\* away and back while the first is in flight.
TenureCalls == {Call("getAddress", site, None)}
TenureStores == {Connected1}

\* The preferences that survive a change of phrase.
PreferenceCalls ==
    {Call("setNetwork", site, public), Call("addToken", site, token),
     Call("fund", site, None), Call("removeToken", None, <<testnet, token>>)}

\* The account registry, from the sites and from the home page.
AccountCalls ==
    {Call("getAccounts", site, None), Call("getBalances", site, None),
     Call("setActiveAccount", site, 1), Call("useAccount", None, 1),
     Call("addAccount", None, None),
     Call("findAccount", None, 2)}
\* Their wallets are on the other network, which tells the family apart.
AccountStores ==
    {[Connected1 EXCEPT !.network = public, !.accounts = revealed]
        : revealed \in {{0}, {0, 1}}}

WalletCalls  == AccessCalls \cup AccountCalls
WalletStores == AccessStores \cup AccountStores

\* Signing with the active account and with an explicitly requested one.
SigningCalls ==
    {Call("signMessage", site, None),
     Call("submitTransaction", site, Address(alpha, 0)),
     Call("signAuthEntry", site, Address(beta, 0))}
SigningStores == {Fresh, Connected1}

OverlapCalls == TenureCalls \cup SigningCalls

-----------------------------------------------------------------------------
Symmetry == Permutations(Requests)

\* Of two requests that overlap, r1 makes the call that comes first in this
\* list.  They are interchangeable, so this leaves out nothing but renamings,
\* where a liveness property forbids symmetry; no fairness makes a call arrive.
PreferenceOrder == <<"setNetwork", "addToken", "fund", "removeToken">>

CallsInOrder ==
    LET Place(r) == CHOOSE i \in DOMAIN PreferenceOrder : PreferenceOrder[i] = req[r].call.op
    IN Running(r1) /\ Running(r2) => Place(r1) <= Place(r2)

\* At most n requests made, and those running of one family of calls.
Together(family, n) ==
    /\ \A r \in Requests : req[r].call \in family \cup {None}
    /\ Cardinality({r \in Requests : req[r].outcome # "idle"}) <= n

\* The calls of the two families are not mixed, and the terminations and a
\* phrase that comes back are kept for the one that makes and revokes grants.
WalletFamilies ==
    \/ Together(AccessCalls, 2) /\ store.network = testnet
    \/ Together(AccountCalls, 2)
       /\ store.network = public /\ crashes = 0 /\ switches <= 1

\* Three overlapping requests for an address, or two to sign; only signing
\* meets the second source of a phrase.
OverlapFamilies ==
    \/ Together(TenureCalls, 3) /\ primary # srcA2 /\ store.fp # None
    \/ Together(SigningCalls, 2)
=============================================================================
