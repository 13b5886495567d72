---------------------------- MODULE SnapHandlers ----------------------------
(***************************************************************************)
(* The snap's request handlers (packages/snap/src/handlers/*.tsx, and the  *)
(* home-page inputs of src/index.tsx), each written as the script of the   *)
(* awaited steps it goes through.  Module EntropyBinding and module Snap   *)
(* give every step its meaning, and run the scripts concurrently.          *)
(*                                                                         *)
(* A handler's course depends on its call and on the store snapshot its    *)
(* binding carries, so a script has two parts: what runs before the        *)
(* snapshot is taken (Opening), and what the snapshot decides (Plan).      *)
(***************************************************************************)
EXTENDS SnapStore, Sequences

\* A call: the RPC method or home-page input, the calling site, the argument.
\* A requested address is the pair of its phrase and its account index.
Addresses == [phrase : Phrases, index : Indices]

\* "submitTransaction" is signTransaction called with its submit option.
Signing == {"signMessage", "signTransaction", "submitTransaction", "signAuthEntry"}

Connected == {"getAddress", "getAccounts", "setActiveAccount", "fund",
              "getBalances", "setNetwork", "addToken"}

AllCalls ==
    [op : {"requestAccess", "getAddress", "getAccounts", "fund", "getBalances"},
     origin : Origins, arg : {None}]
    \cup [op : {"setActiveAccount"}, origin : Origins, arg : Indices]
    \cup [op : {"setNetwork"}, origin : Origins, arg : Networks]
    \cup [op : {"addToken"}, origin : Origins, arg : Tokens]
    \cup [op : Signing \ {"signAuthEntry"}, origin : Origins,
          arg : Addresses \cup {None}]
    \cup [op : {"signAuthEntry"}, origin : Origins, arg : Addresses]
    \cup [op : {"home", "addAccount"}, origin : {None}, arg : {None}]
    \cup [op : {"useAccount", "findAccount"}, origin : {None}, arg : Indices]
    \cup [op : {"disconnect"}, origin : {None}, arg : Origins]
    \cup [op : {"removeToken"}, origin : {None}, arg : Networks \X Tokens]

\* The steps that run a mutator under the state lock.
LockSteps == {"connect", "grant", "network", "token", "activate", "reveal",
              "revealThrough", "disconnect", "untoken", "clearNotice"}

\* The steps that end in an observation of the primary phrase; a recheck is one
\* that must find the binding the request already has.
Resolutions  == {"active", "owned", "target"}
Rechecks     == {"match", "unchanged", "settled", "recheck"}
Observations == {"bind", "observe"} \cup Rechecks \cup Resolutions

Steps == LockSteps \cup Observations \cup
         {"connected", "snapshot", "admit", "state", "dialog", "outward", "import",
          "sign", "submit"}

-----------------------------------------------------------------------------
\* ensureEntropyBinding, and the guards of the handler that called it; a
\* connected site's method looks its connection up before any of it.
Ensure  == <<"bind", "snapshot", "active", "admit">>
Guarded == <<"connected", "bind", "snapshot", "active", "admit">>

\* Only an explicit address needs a connection before it may be compared with
\* the wallet's own.
Selects(c) == c.op \in Signing /\ c.arg # None

Opening(c) ==
    CASE c.op \in Connected \/ Selects(c) -> Guarded
      [] c.op \in Signing /\ c.arg = None -> <<"observe", "state">>
      [] c.op = "disconnect"  -> <<"disconnect">>
      [] c.op = "removeToken" -> <<"untoken">>
      [] OTHER                -> Ensure

\* The guards a handler puts between its binding and its first dialog or
\* answer, over the binding's own snapshot s.
Admitted(c, s) ==
    /\ c.op \in Connected \ {"getAddress"} \/ Selects(c) => HasGrant(s, c.origin)
    /\ c.op = "getAccounts" => HasCurrentDisclosure(s, c.origin)
    /\ c.op = "setActiveAccount" => c.arg \in s.accounts
    /\ c.op = "addToken" =>
          \/ c.arg \in s.tokens[s.network]
          \/ Cardinality(s.tokens[s.network]) < MaxTrackedTokens

\* A dialog, the phrase observed again, and the write the user approved.
Approval(commit) == <<"dialog", "unchanged", commit>>

RequestAccessPlan(c, s) ==
    <<"active">> \o (IF HasCurrentDisclosure(s, c.origin)
                     THEN <<"unchanged">> ELSE Approval("connect"))

GetAddressPlan(c, s) ==
    IF HasGrant(s, c.origin) THEN <<"active", "unchanged">> ELSE << >>

GetAccountsPlan == <<"owned", "unchanged">>

SetActiveAccountPlan(c, s) ==
    <<"target">> \o (IF s.active = c.arg THEN << >> ELSE Approval("activate"))
    \o <<"unchanged">>

FundPlan == <<"active", "unchanged", "outward">>

GetBalancesPlan == <<"active", "outward", "unchanged">>

SetNetworkPlan(c, s) ==
    IF s.network = c.arg THEN << >> ELSE Approval("network")

AddTokenPlan == <<"outward">> \o Approval("token")

\* resolveSigningAccount: the active account, or among the wallet's own the one
\* the call names, once the phrase is still that of the selection.
Selection(c) == IF c.arg = None THEN <<"active">> ELSE <<"match", "owned">>

\* The dialog, and the key derived for the signature alone.
Signature == <<"dialog", "unchanged", "import", "sign">>

SignMessagePlan(c) == Selection(c) \o Signature \o <<"grant", "unchanged">>

\* The wallet submits the envelope; a failed submission, or a reply that is not
\* believed, is rechecked before the error hands the signature over.
Submission(c) ==
    IF c.op = "submitTransaction" THEN <<"submit", "settled", "recheck">> ELSE << >>

SignTransactionPlan(c) ==
    Selection(c) \o Signature \o <<"grant", "unchanged">> \o Submission(c)

\* Two ledgers bound the entry's life before the dialog, and the signature is
\* awaited, so the phrase is observed before the grant too.
SignAuthEntryPlan(c) ==
    Selection(c) \o <<"outward">> \o Signature \o <<"unchanged", "grant", "unchanged">>

UseAccountPlan(c, s) == IF c.arg \in s.accounts THEN <<"activate">> ELSE << >>

AddAccountPlan(s) ==
    IF NextAccountIndex(s) \notin Indices THEN << >>
    ELSE <<"target">> \o Approval("reveal")

FindAccountPlan(c, s) ==
    IF c.arg < NextAccountIndex(s) THEN << >>
    ELSE <<"target">> \o Approval("revealThrough")

HomePlan(s) ==
    <<"owned">> \o (IF s.notice = "none" THEN << >> ELSE <<"clearNotice">>)

Plan(c, s) ==
    CASE c.op = "requestAccess"    -> RequestAccessPlan(c, s)
      [] c.op = "getAddress"       -> GetAddressPlan(c, s)
      [] c.op = "getAccounts"      -> GetAccountsPlan
      [] c.op = "setActiveAccount" -> SetActiveAccountPlan(c, s)
      [] c.op = "fund"             -> FundPlan
      [] c.op = "getBalances"      -> GetBalancesPlan
      [] c.op = "setNetwork"       -> SetNetworkPlan(c, s)
      [] c.op = "addToken"         -> AddTokenPlan
      [] c.op = "signMessage"      -> SignMessagePlan(c)
      [] c.op \in {"signTransaction", "submitTransaction"} -> SignTransactionPlan(c)
      [] c.op = "signAuthEntry"    -> SignAuthEntryPlan(c)
      [] c.op = "useAccount"       -> UseAccountPlan(c, s)
      [] c.op = "addAccount"       -> AddAccountPlan(s)
      [] c.op = "findAccount"      -> FindAccountPlan(c, s)
      [] c.op = "home"             -> HomePlan(s)
      [] OTHER                     -> << >>

\* The home page without a binding: it renders what the store alone can tell.
Degraded(s) == IF s.notice = "none" THEN << >> ELSE <<"clearNotice">>

-----------------------------------------------------------------------------
\* The account indices a resolution resolves, over the snapshot s.
Wanted(c, s, step) ==
    CASE step = "active" -> {s.active}
      [] step = "owned"  -> s.accounts
      [] step = "target" -> IF c.op = "addAccount" THEN {NextAccountIndex(s)}
                            ELSE {c.arg}

\* The verdicts of the mutator a lock step runs, for a call c whose snapshot
\* was snap and whose binding has fingerprint fp, on the store s read in the
\* lock.
Mutation(step, c, snap, fp, s) ==
    CASE step \in {"connect", "grant"} ->
           UNION {ConnectOrigin(s, c.origin, fp, now) : now \in Times}
      [] step = "network"  -> {SetActiveNetwork(s, c.arg, fp)}
      [] step = "token"    -> {AddToken(s, snap.network, c.arg, fp)}
      [] step = "activate" -> {SetActiveAccount(s, c.arg, fp)}
      [] step = "reveal"   -> {RevealAccount(s, NextAccountIndex(snap), fp)}
      [] step = "revealThrough" ->
           {RevealAccountsThrough(s, c.arg, NextAccountIndex(snap), fp)}
      [] step = "disconnect"  -> {DisconnectOrigin(s, c.arg)}
      [] step = "untoken"     -> {RemoveToken(s, c.arg[1], c.arg[2])}
      [] step = "clearNotice" -> {ClearResetNotice(s)}

\* The commits that confirm the phrase with the platform inside the lock, on
\* both sides of the write.
Confirmed == {"network", "token"}

\* The accounts the confirmation dialog of a revealing call showed.
Shown(c, snap) ==
    IF c.op = "findAccount" THEN NextAccountIndex(snap) .. c.arg
    ELSE {NextAccountIndex(snap)}
=============================================================================
