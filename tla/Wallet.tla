------------------------------- MODULE Wallet -------------------------------
(***************************************************************************)
(* What the snap promises of its persisted state, whatever it does to keep *)
(* it: a wallet belongs to one secret recovery phrase, and changes only by *)
(* effects that were agreed to under that phrase, each at one instant and  *)
(* for the call it was agreed for.  There are no queue, lock, write,       *)
(* confirmation, roll back or observation here; module WalletRefinement    *)
(* says how those of module Snap amount to this.                           *)
(***************************************************************************)
EXTENDS Integers, FiniteSets

CONSTANTS
    Origins, Networks, Tokens, Phrases, Requests,
    DefaultNetwork, \* of a wallet nobody has set up
    MaxGrants,      \* the most sites that may be connected
    None            \* no phrase; no grant; nothing agreed

VARIABLES
    owner,    \* the phrase the wallet belongs to, if any
    grants,   \* site -> what its approval disclosed, or None
    accounts, \* the revealed account indices
    active,   \* the one in use
    network,  \* the network in use
    tokens,   \* network -> the tracked tokens
    agreed    \* request -> the effect it may have, or None

wallet == <<owner, grants, accounts, active, network, tokens>>
vars == <<wallet, agreed>>

\* What an effect is of, and the phrase it was agreed under: None when the user
\* takes back what any wallet may hold.
Effects ==
    [do : {"connect"}, of : Origins, by : Phrases]
    \cup [do : {"network"}, of : Networks, by : Phrases]
    \cup [do : {"token"}, of : Networks \X Tokens, by : Phrases]
    \cup [do : {"activate"}, of : Nat, by : Phrases]
    \cup [do : {"reveal"}, of : SUBSET Nat, by : Phrases]
    \cup [do : {"disconnect"}, of : Origins, by : {None}]
    \cup [do : {"untoken"}, of : Networks \X Tokens, by : {None}]

Connected(g) == {o \in Origins : g[o] # None}

Init ==
    /\ agreed = [r \in Requests |-> None]
    /\ owner = None => Connected(grants) = {}
    /\ active \in accounts

-----------------------------------------------------------------------------
\* A site is connected; a full registry lets go of some others, or of this one.
Connect(o) ==
    /\ LET with == [grants EXCEPT ![o] = "current"]
       IN /\ \A p \in Origins : grants'[p] \in {with[p], None}
          /\ IF Cardinality(Connected(with)) <= MaxGrants
             THEN grants' = with
             ELSE Cardinality(Connected(grants')) = MaxGrants
    /\ UNCHANGED <<owner, accounts, active, network, tokens>>

Disconnect(o) ==
    /\ grants' = [grants EXCEPT ![o] = None]
    /\ UNCHANGED <<owner, accounts, active, network, tokens>>

\* Accounts are revealed from the first that is not, without a gap.
Reveal(indices) ==
    /\ \A i \in indices, j \in accounts : j < i
    /\ \A i \in indices : i - 1 \in accounts \cup indices
    /\ accounts' = accounts \cup indices
    /\ UNCHANGED <<owner, grants, active, network, tokens>>

Activate(i) ==
    /\ i \in accounts /\ active' = i
    /\ UNCHANGED <<owner, grants, accounts, network, tokens>>

SetNetwork(n) ==
    /\ network' = n
    /\ UNCHANGED <<owner, grants, accounts, active, tokens>>

Track(n, t) ==
    /\ tokens' = [tokens EXCEPT ![n] = @ \cup {t}]
    /\ UNCHANGED <<owner, grants, accounts, active, network>>

Untrack(n, t) ==
    /\ tokens' = [tokens EXCEPT ![n] = @ \ {t}]
    /\ UNCHANGED <<owner, grants, accounts, active, network>>

-----------------------------------------------------------------------------
\* The effect e is had, of a wallet that still belongs to the phrase it was
\* agreed under.
Effect(e) ==
    /\ e.by \in {owner, None}
    /\ CASE e.do = "connect"    -> Connect(e.of)
         [] e.do = "disconnect" -> Disconnect(e.of)
         [] e.do = "reveal"     -> Reveal(e.of)
         [] e.do = "activate"   -> Activate(e.of)
         [] e.do = "network"    -> SetNetwork(e.of)
         [] e.do = "token"      -> Track(e.of[1], e.of[2])
         [] e.do = "untoken"    -> Untrack(e.of[1], e.of[2])

\* An effect is agreed to, for a call that has had none.
Agree(r) ==
    /\ agreed[r] = None /\ agreed'[r] \in Effects
    /\ agreed' = [agreed EXCEPT ![r] = agreed'[r]]
    /\ UNCHANGED wallet

Spent(r) == agreed' = [agreed EXCEPT ![r] = None]

\* The effect r has agreed to is had.
Have(r) == \E e \in {agreed[r]} \ {None} : Effect(e)

\* The effect is had once, or never: the call is refused, or changes nothing.
Take(r)     == Have(r) /\ Spent(r)
Withdraw(r) == agreed[r] # None /\ UNCHANGED wallet /\ Spent(r)

\* All that was agreed to is forgotten, while one effect may have been had.
Forget ==
    /\ agreed' = [r \in Requests |-> None]
    /\ UNCHANGED wallet \/ \E r \in Requests : Have(r)

\* The wallet becomes another phrase's: nothing built from the old one stays.
Belong(p) ==
    /\ p # owner /\ owner' = p
    /\ IF owner = None
       THEN UNCHANGED <<grants, accounts, active, network>>
       ELSE /\ grants' = [o \in Origins |-> None]
            /\ accounts' = {0} /\ active' = 0
            /\ UNCHANGED network
    /\ UNCHANGED <<tokens, agreed>>

Next ==
    \/ \E r \in Requests : Agree(r) \/ Take(r) \/ Withdraw(r)
    \/ \E p \in Phrases : Belong(p)
    \/ Forget

Spec == Init /\ [][Next]_vars
=============================================================================
