----------------------------- MODULE Movements -----------------------------
(***************************************************************************)
(* The token movements a simulation reports for the signing account        *)
(* (packages/snap/src/stellar/events.ts).  Its events are the word of the  *)
(* endpoint and of the contracts: any contract may emit an event that      *)
(* names any asset.                                                        *)
(*                                                                         *)
(* An event is a record; amount is -1 when it cannot be read, and topic is *)
(* the trailing string, or none.                                           *)
(***************************************************************************)
EXTENDS Texts

CONSTANTS
    MAX_EVENTS, MAX_BALANCE_ASSETS,
    SacOf,      \* an asset topic, CODE:ISSUER -> the contract derived from it
    Tracked     \* the contracts of the tokens tracked on the network

ASSUME MovementsAssumption == MAX_EVENTS \in Nat /\ MAX_BALANCE_ASSETS \in Nat

BALANCE_EVENT_KINDS == {"transfer", "mint", "burn", "clawback"}

Nobody == "nobody"

\* addresses: the topics that hold an address, muxed ones by their account.
toMovement(event) ==
    LET n == Len(event.addresses)
    IN CASE event.kind = "transfer" /\ n >= 2 ->
              [from |-> event.addresses[1], to |-> event.addresses[2], ok |-> TRUE]
         [] event.kind = "mint" /\ n >= 1 ->
              [from |-> Nobody, to |-> event.addresses[n], ok |-> TRUE]
         [] event.kind \in {"burn", "clawback"} /\ n >= 1 ->
              [from |-> event.addresses[n], to |-> Nobody, ok |-> TRUE]
         [] OTHER -> [from |-> Nobody, to |-> Nobody, ok |-> FALSE]

\* Mutant: an asset is what the event says it is.
TrustTopic(topic, contract) ==
    IF topic \in DOMAIN SacOf THEN [identity |-> topic, scaled |-> TRUE]
    ELSE [identity |-> contract, scaled |-> contract \in Tracked]

\* A classic identity is shown only for the contract derived from it; scaled:
\* the decimals are known.
resolveAsset(topic, contract) ==
    IF topic \in DOMAIN SacOf /\ SacOf[topic] = contract
    THEN [identity |-> topic, scaled |-> TRUE]
    ELSE [identity |-> contract, scaled |-> contract \in Tracked]

\* The events read are the first; a failed call, or what is no contract's event
\* or no movement by its first topic, is passed over.
Read(events) == {i \in DOMAIN events : i <= MAX_EVENTS}

Relevant(event) ==
    event.form \in {"broken", "contract"} /\ (event.form = "contract" =>
        event.kind \in BALANCE_EVENT_KINDS)

Unreadable(event) == event.form = "broken" \/ event.amount < 0 \/ ~toMovement(event).ok

Delta(event, account) ==
    (IF toMovement(event).to = account THEN event.amount ELSE 0)
    - (IF toMovement(event).from = account THEN event.amount ELSE 0)

\* What an event adds to the tally of its contract.
Counted(event, account) ==
    IF Relevant(event) /\ ~Unreadable(event) THEN Delta(event, account) ELSE 0

\* The events that a contract's tally is made of.
Moves(events, account, contract) ==
    {i \in Read(events) : events[i].contract = contract /\ Counted(events[i], account) # 0}

Moving(events, account) ==
    {events[i].contract : i \in {j \in Read(events) : Counted(events[j], account) # 0}}

Total(numbers) ==
    LET upTo[n \in 0 .. Len(numbers)] == IF n = 0 THEN 0 ELSE upTo[n - 1] + numbers[n]
    IN upTo[Len(numbers)]

\* Of the first movement, first, come the order and the name of a tally.
Tally(events, account, contract) ==
    LET first == Min(Moves(events, account, contract))
    IN [contract |-> contract, first |-> first,
        delta    |-> Total([i \in DOMAIN events |->
                              IF i \in Moves(events, account, contract)
                              THEN Counted(events[i], account) ELSE 0]),
        asset    |-> resolveAsset(events[first].topic, contract)]

Tallies(events, account) ==
    LET Before(s, t) == s.first < t.first
    IN Leading({Tally(events, account, c) : c \in Moving(events, account)},
               MAX_BALANCE_ASSETS, Before)

\* Outgoing changes come first.
Outranks(s, t) == IF s.delta < 0 <=> t.delta < 0 THEN s.first < t.first ELSE s.delta < 0

summarizeBalanceChanges(events, account) ==
    LET shown == {t \in Tallies(events, account) : t.delta # 0}
    IN [changes |-> CHOOSE s \in [1 .. Cardinality(shown) -> shown] :
                       \A i, j \in DOMAIN s : i < j => Outranks(s[i], s[j]),
        partial |-> \/ Len(events) > MAX_EVENTS
                    \/ \E i \in Read(events) : Relevant(events[i]) /\ Unreadable(events[i])
                    \/ Cardinality(Moving(events, account)) > MAX_BALANCE_ASSETS]

-----------------------------------------------------------------------------
\* transaction.tsx, the rows as a set: each change under a label, which
\* shortens its asset, and the assets in full.
renderBalanceChanges(changes, partial) ==
    LET Change(tally) ==
            Row("Balance change",
                <<truncate(tally.asset.identity), ToString(tally.delta),
                  IF tally.asset.scaled THEN "" ELSE " (smallest unit)">>)
        Identity(tally) == Row("Asset in full", <<tally.asset.identity>>)
    IN (UNION {ToSet(Change(tally) \o Identity(tally)) : tally \in ToSet(changes)})
       \cup ToSet(When(partial, Row("Movements may be missing", << >>)))
       \cup ToSet(When(changes = << >>, Row("No token movements reported", << >>)))
=============================================================================
