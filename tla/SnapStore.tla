----------------------------- MODULE SnapStore -----------------------------
(***************************************************************************)
(* The persisted store of the snap (packages/snap/src/state/index.ts) and  *)
(* every read-modify-write the state lock runs on it, as pure operators: a *)
(* mutator is given the store it read inside the lock and answers with a   *)
(* verdict, which the lock of module Snap then carries out.                *)
(*                                                                         *)
(* A secret recovery phrase is known to the store by its fingerprint, a    *)
(* collision-free digest, so a phrase stands for its own fingerprint.      *)
(***************************************************************************)
EXTENDS Integers, FiniteSets

CONSTANTS
    Origins,          \* the sites that may call the snap
    Networks,         \* NETWORK_NAMES
    DefaultNetwork,   \* the network of a fresh store, TESTNET
    Tokens,           \* contract ids of token contracts
    Phrases,          \* secret recovery phrases, that is, their fingerprints
    None,             \* an absent value: undefined or null
    MaxAccountIndex,  \* MAX_ACCOUNT_INDEX, 256 in the code
    MaxTrackedTokens, \* MAX_TRACKED_TOKENS, 30 in the code
    MaxTrackedGrants, \* MAX_TRACKED_GRANTS, 100 in the code
    Times             \* the values the wall clock may show, as connectedAt

ASSUME StoreAssumption ==
    /\ DefaultNetwork \in Networks
    /\ None \notin Phrases
    /\ MaxAccountIndex \in Nat \ {0}
    /\ MaxTrackedTokens \in Nat
    /\ MaxTrackedGrants \in Nat \ {0}
    /\ Times \subseteq Int

Indices == 0 .. MaxAccountIndex - 1

Grants == [connectedAt : Times, disclosure : {"none", "current"}]

Stores == [network  : Networks,
           active   : Indices,
           accounts : SUBSET Indices,
           origins  : [Origins -> Grants \cup {None}],
           tokens   : [Networks -> SUBSET Tokens],
           fp       : Phrases \cup {None},
           notice   : {"none", "phrase-changed", "unrecognized-store"}]

DefaultState ==
    [network  |-> DefaultNetwork,
     active   |-> 0,
     accounts |-> {0},
     origins  |-> [o \in Origins |-> None],
     tokens   |-> [n \in Networks |-> {}],
     fp       |-> None,
     notice   |-> "none"]

-----------------------------------------------------------------------------
HasGrant(s, o) == s.origins[o] # None

HasCurrentDisclosure(s, o) ==
    HasGrant(s, o) /\ s.origins[o].disclosure = "current"

NextAccountIndex(s) ==
    1 + CHOOSE i \in s.accounts : \A j \in s.accounts : j <= i

Granted(origins) == {o \in Origins : origins[o] # None}

\* The origins whose grants a normalized registry keeps: all of them up to the
\* cap, and beyond it the most recently connected ones.
Kept(origins) ==
    IF Cardinality(Granted(origins)) <= MaxTrackedGrants
    THEN {Granted(origins)}
    ELSE {keep \in SUBSET Granted(origins) :
            /\ Cardinality(keep) = MaxTrackedGrants
            /\ \A o \in keep, p \in Granted(origins) \ keep :
                  origins[p].connectedAt <= origins[o].connectedAt}

\* The registries normalizeOrigins may answer with. More than one only when
\* grants of the same millisecond straddle the cut.
NormalizeOrigins(origins) ==
    {[o \in Origins |-> IF o \in keep THEN origins[o] ELSE None]
        : keep \in Kept(origins)}

-----------------------------------------------------------------------------
(***************************************************************************)
(* What a mutator decides on the store it read: to refuse, to succeed      *)
(* without writing, or to write a new store.                               *)
(***************************************************************************)
Verdicts == [do : {"refuse", "keep", "write"}, new : Stores]

Refuse(s) == [do |-> "refuse", new |-> s]
Keep(s)   == [do |-> "keep",   new |-> s]
Write(s)  == [do |-> "write",  new |-> s]

SetActiveNetwork(s, n, fp) ==
    IF s.fp # fp THEN Refuse(s)
    ELSE IF s.network = n THEN Keep(s)
    ELSE Write([s EXCEPT !.network = n])

AddToken(s, n, t, fp) ==
    IF s.fp # fp THEN Refuse(s)
    ELSE IF t \in s.tokens[n] THEN Keep(s)
    ELSE IF Cardinality(s.tokens[n]) >= MaxTrackedTokens THEN Refuse(s)
    ELSE Write([s EXCEPT !.tokens[n] = @ \cup {t}])

RevealAccount(s, i, fp) ==
    IF s.fp # fp THEN Refuse(s)
    ELSE IF i \in s.accounts THEN Keep(s)
    ELSE IF i >= MaxAccountIndex \/ i # NextAccountIndex(s) THEN Refuse(s)
    ELSE Write([s EXCEPT !.accounts = @ \cup {i}])

\* Mutant: only the account that was looked for is revealed.
RevealOnlyTarget(s, target, expectedFrom, fp) ==
    IF s.fp # fp \/ target \notin Indices THEN Refuse(s)
    ELSE IF target < NextAccountIndex(s) THEN Keep(s)
    ELSE Write([s EXCEPT !.accounts = @ \cup {target}])

\* Mutant: the range is not compared with the one the dialog showed.
RevealAnyRange(s, target, expectedFrom, fp) ==
    IF s.fp # fp \/ target \notin Indices THEN Refuse(s)
    ELSE IF target < NextAccountIndex(s) THEN Keep(s)
    ELSE Write([s EXCEPT !.accounts = @ \cup (NextAccountIndex(s) .. target)])

\* Mutant: the loop runs one index too far.
RevealOneTooMany(s, target, expectedFrom, fp) ==
    IF s.fp # fp \/ target \notin Indices THEN Refuse(s)
    ELSE IF target < NextAccountIndex(s) THEN Keep(s)
    ELSE IF NextAccountIndex(s) # expectedFrom THEN Refuse(s)
    ELSE Write([s EXCEPT !.accounts = @ \cup (expectedFrom .. target + 1)])

RevealAccountsThrough(s, target, expectedFrom, fp) ==
    IF s.fp # fp \/ target \notin Indices THEN Refuse(s)
    ELSE IF target < NextAccountIndex(s) THEN Keep(s)
    ELSE IF NextAccountIndex(s) # expectedFrom THEN Refuse(s)
    ELSE Write([s EXCEPT !.accounts = @ \cup (expectedFrom .. target)])

SetActiveAccount(s, i, fp) ==
    IF s.fp # fp \/ i \notin s.accounts THEN Refuse(s)
    ELSE IF s.active = i THEN Keep(s)
    ELSE Write([s EXCEPT !.active = i])

\* An upgraded grant keeps its connection time; only its disclosure changes.
ConnectedOrigins(s, o, now) ==
    [s.origins EXCEPT ![o] =
        [connectedAt |-> IF HasGrant(s, o) THEN s.origins[o].connectedAt ELSE now,
         disclosure  |-> "current"]]

\* Mutant: the grant is written whatever phrase the store is bound to.
ConnectAnyPhrase(s, o, fp, now) ==
    IF HasCurrentDisclosure(s, o) THEN {Keep(s)}
    ELSE {Write([s EXCEPT !.origins = kept])
            : kept \in NormalizeOrigins(ConnectedOrigins(s, o, now))}

\* The verdicts connectOrigin may reach at time now.
ConnectOrigin(s, o, fp, now) ==
    IF s.fp # fp THEN {Refuse(s)}
    ELSE IF HasCurrentDisclosure(s, o) THEN {Keep(s)}
    ELSE {Write([s EXCEPT !.origins = kept])
            : kept \in NormalizeOrigins(ConnectedOrigins(s, o, now))}

DisconnectOrigin(s, o) ==
    IF ~HasGrant(s, o) THEN Keep(s)
    ELSE Write([s EXCEPT !.origins[o] = None])

RemoveToken(s, n, t) ==
    IF t \notin s.tokens[n] THEN Keep(s)
    ELSE Write([s EXCEPT !.tokens[n] = @ \ {t}])

ClearResetNotice(s) ==
    IF s.notice = "none" THEN Keep(s)
    ELSE Write([s EXCEPT !.notice = "none"])

\* An absent fingerprint is adopted; another phrase's fingerprint resets all
\* that was built from that phrase and keeps the network and the tokens.
ReconcileEntropyBinding(s, fp) ==
    IF s.fp = fp THEN Keep(s)
    ELSE IF s.fp = None THEN Write([s EXCEPT !.fp = fp])
    ELSE Write([DefaultState EXCEPT !.network = s.network,
                                    !.tokens  = s.tokens,
                                    !.fp      = fp,
                                    !.notice  = "phrase-changed"])
=============================================================================
