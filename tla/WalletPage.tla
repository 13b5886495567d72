----------------------------- MODULE WalletPage -----------------------------
(***************************************************************************)
(* The companion site over a client of module Connector                    *)
(* (packages/site/src/hooks/WalletContext.tsx, features/History.tsx): its  *)
(* panels are read in four calls, and several readings overlap; only the   *)
(* newest may write (utils/latest.ts).  One action of the user runs at a   *)
(* time, and re-reads the panels.  The history table is read from Horizon  *)
(* for the account and the network the panels show.                        *)
(*                                                                         *)
(* The wallet is a network and the account this site may see of it: none   *)
(* until it is connected.                                                  *)
(***************************************************************************)
EXTENDS Connector

CONSTANTS
    Refreshes,   \* the readings that may be under way
    Loads,       \* those of the history table
    Wallets,     \* records with a network and an account
    Unconnected, \* the account a site without a grant sees
    MaxEvents,   \* bound on the user's actions on the page
    MaxChanges   \* bound on the changes of the wallet and of the snap elsewhere

VARIABLES
    events, changes,
    ready,       \* the installed snap is the expected one, as last seen
    sighting,    \* the version an unfinished look at wallet_getSnaps saw
    changed,     \* the effect that re-reads has still to run
    refresh,     \* the readings: idle, first, second
    turn,        \* latestOnly: the reading that may write
    panels, job, \* what the page shows; and the action of run
    steady,      \* history: the wallet is what it was when turn was claimed
    table        \* the history table

page == <<ready, sighting, changed, refresh, turn, panels, job, steady, table>>
world == <<wallet, events, changes, installed>>
vars == <<page, world, client, pinned>>

\* The calls: a reading makes two at a time, first for the address and the
\* network, then for the accounts and the balances.
Of(r, read) == <<r, IF read \in {"address", "accounts"} THEN 1 ELSE 2>>
Work        == <<"user", 1>>

ASSUME PageAssumption ==
    /\ Calls = (Refreshes \X {1, 2}) \cup {Work} /\ None \notin Calls
    /\ Refreshes \cap {None, "user", "idle", "work"} = {} /\ None \notin Loads
    /\ \A w \in Wallets :
          w = [network |-> w.network, account |-> w.account] /\ w.network # None

NoContext == [network |-> None, account |-> Unconnected]
NoPanels == [network |-> None, address |-> Unconnected, accounts |-> Unconnected,
             balances |-> NoContext]
NoTable  == [context |-> NoContext, rows |-> NoContext, turn |-> None,
             load |-> [h \in Loads |-> None]]

Init ==
    /\ installed = Pin /\ client = NewClient
    /\ wallet \in Wallets /\ events = 0 /\ changes = 0
    /\ ready = TRUE /\ sighting = None /\ changed = TRUE /\ pinned = TRUE
    /\ refresh = [r \in Refreshes |-> "idle"] /\ turn = None
    /\ panels = NoPanels /\ job = "idle" /\ steady = TRUE /\ table = NoTable

-----------------------------------------------------------------------------
(***************************************************************************)
(* A reading of the wallet.                                                *)
(***************************************************************************)
\* A reading that failed may have left a call behind.
Free(r) == refresh[r] = "idle" /\ \A c \in Calls : c[1] = r => client.call[c].at # "waiting"

\* refresh, as the caller sees the readiness of the page.
Refresh(r, sees, k) ==
    /\ Free(r) /\ turn' = r /\ steady' = TRUE
    /\ IF sees
       THEN /\ client' = Demand(Demand(k, Of(r, "address")), Of(r, "network"))
            /\ pinned' = (installed = Pin)
            /\ refresh' = [refresh EXCEPT ![r] = "first"]
            /\ UNCHANGED panels
       ELSE panels' = NoPanels /\ client' = k /\ UNCHANGED <<refresh, pinned>>

\* The effect: it runs when the readiness has changed.
Effect(r) ==
    /\ changed /\ changed' = FALSE
    /\ Refresh(r, ready, client)
    /\ UNCHANGED <<ready, sighting, job, table, world>>

\* A reading ends; run goes on when it was its own.
Ended(r) ==
    /\ refresh' = [refresh EXCEPT ![r] = "idle"]
    /\ job' = IF job = r THEN "idle" ELSE job

\* Mutant: whichever reading ends last writes.
WriteAlways(r, shown) == panels' = shown

\* A reading that is no longer the newest drops what it has read.
Write(r, shown) == panels' = IF turn = r THEN shown ELSE panels

\* The answers a call may be given, and whether it may end without one: its
\* lookup has failed, or the snap or the validation of its result may.
Answers(r, read)  == client.call[Of(r, read)].seen
MayEnd(r, read)  == client.call[Of(r, read)].at \in {"asking", "failed"}

\* A reading has read the replies it had.
Consumed(k, r) ==
    Become(k, {c \in Calls : c[1] = r /\ k.call[c].at \in {"asking", "failed"}}, NoInvocation)

\* The catch: one of the first two calls has failed.
ReadingFails(r) ==
    /\ refresh[r] = "first"
    /\ MayEnd(r, "address") \/ MayEnd(r, "network")
    /\ Write(r, [panels EXCEPT !.network = None])
    /\ Ended(r) /\ client' = Consumed(client, r)
    /\ UNCHANGED <<ready, sighting, changed, turn, steady, table, world, pinned>>

\* The address and the network; what needs a grant is asked for next.
FirstReads(r) ==
    /\ refresh[r] = "first"
    /\ \E a \in Answers(r, "address"), n \in Answers(r, "network") :
          LET shown == [panels EXCEPT !.network = n.network, !.address = a.account]
              goesOn == turn = r /\ a.account # Unconnected
          IN /\ Write(r, IF a.account = Unconnected
                         THEN [shown EXCEPT !.accounts = Unconnected, !.balances = NoContext]
                         ELSE shown)
             /\ IF goesOn
                THEN /\ client' = Demand(Demand(Consumed(client, r), Of(r, "accounts")),
                                         Of(r, "balances"))
                     /\ pinned' = (installed = Pin)
                     /\ refresh' = [refresh EXCEPT ![r] = "second"] /\ UNCHANGED job
                ELSE Ended(r) /\ client' = Consumed(client, r) /\ UNCHANGED pinned
    /\ UNCHANGED <<ready, sighting, changed, turn, steady, table, world>>

\* The accounts and the balances, settled independently; both need a grant.
SecondReads(r) ==
    /\ refresh[r] = "second"
    /\ MayEnd(r, "accounts") /\ MayEnd(r, "balances")
    /\ LET Granted(read) == {w \in Answers(r, read) : w.account # Unconnected}
       IN \E accounts \in {panels.accounts} \cup {w.account : w \in Granted("accounts")},
             balances \in {NoContext} \cup Granted("balances") :
             Write(r, [panels EXCEPT !.accounts = accounts, !.balances = balances])
    /\ Ended(r) /\ client' = Consumed(client, r)
    /\ UNCHANGED <<ready, sighting, changed, turn, steady, table, world, pinned>>

-----------------------------------------------------------------------------
(***************************************************************************)
(* An action of the user: run.                                             *)
(***************************************************************************)
Event == events < MaxEvents /\ events' = events + 1 /\ UNCHANGED changes

Run ==
    /\ Event /\ job = "idle" /\ ready
    /\ job' = "work" /\ client' = Demand(client, Work) /\ pinned' = (installed = Pin)
    /\ UNCHANGED <<wallet, installed, ready, sighting, changed, refresh,
                   turn, panels, steady, table>>

\* Mutant: the lock is released only after a success.
KeepBusy == job

\* What the lock is after the action has failed.
Released == "idle"

\* The error goes to the page.
WorkFails ==
    /\ job = "work" /\ client.call[Work].at \in {"asking", "failed"} /\ job' = Released
    /\ client' = Become(client, {Work}, NoInvocation)
    /\ UNCHANGED <<ready, sighting, changed, refresh, turn, panels, steady, table, world, pinned>>

\* The snap may have connected the site or switched the wallet.  The reading
\* that follows sees the readiness run saw.
WorkDone(r) ==
    /\ job = "work" /\ client.call[Work].at = "asking" /\ job' = r
    /\ \E w \in Wallets :
          /\ wallet' = w
          /\ Refresh(r, TRUE, Switched(Become(client, {Work}, NoInvocation), w))
    /\ UNCHANGED <<ready, sighting, changed, table, events, changes, installed>>

-----------------------------------------------------------------------------
(***************************************************************************)
(* The history table.                                                      *)
(***************************************************************************)
Context == [network |-> panels.network, account |-> panels.address]

\* load: nothing to read without a network and an account.
Load(context, cleared, h) ==
    /\ table.load[h] = None
    /\ IF context.network = None \/ context.account = Unconnected
       THEN table' = [context |-> context, rows |-> NoContext, turn |-> None,
                      load |-> table.load]
       ELSE table' = [context |-> context,
                      rows |-> IF cleared THEN NoContext ELSE table.rows,
                      turn |-> h, load |-> [table.load EXCEPT ![h] = context]]

\* The effect that follows a change of the account or the network.
TableEffect(h) ==
    /\ Context # table.context
    /\ Load(Context, TRUE, h)
    /\ UNCHANGED <<client, ready, sighting, changed, refresh, turn, panels, job, steady, world, pinned>>

\* The button, disabled while the newest load is under way.
Reload(h) ==
    /\ Event /\ Context = table.context /\ table.turn = None
    /\ Context.account # Unconnected /\ Load(Context, FALSE, h)
    /\ UNCHANGED <<client, wallet, installed, ready, sighting, changed,
                   refresh, turn, panels, job, steady, pinned>>

\* Mutant: the rows that arrive last are shown.
LastRows(h) == table.load[h]

\* Only the newest load sets the rows.
RowsAfter(h) == IF table.turn = h THEN table.load[h] ELSE table.rows

\* Horizon answers, or fails and leaves the rows as they are.
Loaded(h) ==
    /\ table.load[h] # None
    /\ table' \in {[table EXCEPT !.rows = rows, !.load[h] = None,
                                 !.turn = IF @ = h THEN None ELSE @] :
                      rows \in {RowsAfter(h), table.rows}}
    /\ UNCHANGED <<client, ready, sighting, changed, refresh, turn, panels, job, steady, world, pinned>>

-----------------------------------------------------------------------------
(***************************************************************************)
(* MetaMask, the snap, and the other pages.                                *)
(***************************************************************************)
\* The tab regains focus: getSnap, whose reply may come late.
Focus ==
    /\ Event /\ sighting = None /\ sighting' = installed
    /\ UNCHANGED <<client, wallet, installed, ready, changed, refresh,
                   turn, panels, job, steady, table, pinned>>

\* A request that failed shows no snap.
SetInstalledSnap ==
    /\ sighting # None /\ sighting' = None
    /\ ready' \in {sighting = Pin, FALSE} /\ changed' = (changed \/ ready' # ready)
    /\ UNCHANGED <<client, refresh, turn, panels, job, steady, table, world, pinned>>

Change == changes < MaxChanges /\ changes' = changes + 1 /\ UNCHANGED events

\* Another page, or the snap's own home page, switches the wallet.
Switch ==
    /\ Change /\ wallet' \in Wallets \ {wallet} /\ steady' = FALSE
    /\ client' = Switched(client, wallet')
    /\ UNCHANGED <<ready, sighting, changed, refresh, turn, panels, job, table, installed,
                   pinned>>

Replaced ==
    /\ Change
    /\ \E version \in ({Pin} \cup OtherVersions) \ {installed} : Update(version)
    /\ UNCHANGED <<page, wallet>>

Progress ==
    \/ UNCHANGED <<page, world, pinned>> /\ \E l \in Calls : Reply(l)
    \/ SetInstalledSnap \/ WorkFails
    \/ \E r \in Refreshes : Effect(r) \/ ReadingFails(r) \/ FirstReads(r) \/ SecondReads(r)
                              \/ WorkDone(r)
    \/ \E h \in Loads : TableEffect(h) \/ Loaded(h)

Next == Progress \/ Run \/ Focus \/ (\E h \in Loads : Reload(h)) \/ Replaced \/ Switch

\* MetaMask settles every request, and JavaScript runs what is due.
Spec == Init /\ [][Next]_vars /\ WF_vars(Progress)

-----------------------------------------------------------------------------
\* No invocation goes out unless the pinned release has been installed at some
\* moment since the newest invocation was asked for: never on the success of an
\* older look when a newer one may have noticed an update.
InvokesThePin ==
    [][\A c \in Calls :
          client.call[c].at = "waiting" /\ client'.call[c].at = "asking" => pinned]_vars

AtRest == job = "idle" /\ ~changed /\ \A r \in Refreshes : refresh[r] = "idle"

\* refresh: once no reading is under way, and the wallet is what it was when the newest
\* of them began, the panels that name a network show that wallet, whatever
\* order the replies of the others came in.
RestShowsTheWallet ==
    AtRest /\ steady /\ panels.network # None =>
        /\ panels.network = wallet.network /\ panels.address = wallet.account
        /\ panels.balances \in {NoContext, wallet}

\* The rows of the history table are those of the account and the network of its
\* last effect (features/History.tsx), though loads for others may answer late.
RowsOfTheTable == table.rows \in {NoContext, table.context}

\* The controls come back after every action (busyRef of run), however its calls
\* and the reading that follows end.
ControlsComeBack == (job # "idle") ~> (job = "idle")
=============================================================================
