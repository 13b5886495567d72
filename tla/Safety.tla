------------------------------- MODULE Safety -------------------------------
(***************************************************************************)
(* The warnings of a classic transaction (packages/snap/src/stellar        *)
(* /safety.ts), from what Horizon answers about its accounts               *)
(* (getAccountChecks in stellar/horizon.ts): whether they exist, require a *)
(* memo, and give the signing key enough weight.                           *)
(***************************************************************************)
EXTENDS Dialogs, Endpoints

CONSTANTS MAX_DESTINATION_CHECKS, MAX_SOURCE_CHECKS

\* An address that starts with G; the others are muxed.
Resolvable(address) == Base[address] = address

\* In a sequence of addresses, a occurs before the first b.
Precedes(addresses, a, b) ==
    \E i \in DOMAIN addresses : addresses[i] = a /\ \A j \in 1 .. i : addresses[j] # b

PayingTypes == {"payment", "pathPaymentStrictSend", "pathPaymentStrictReceive", "accountMerge"}

\* In the order of the operations.
Payees(tx) ==
    [i \in DOMAIN tx.operations |->
        IF tx.operations[i].type \in PayingTypes THEN tx.operations[i].destination ELSE Absent]

Paid(tx) == {op.destination : op \in {o \in ToSet(tx.operations) : o.type \in PayingTypes}}

SourceOf(op, tx) == IF op.source = Absent THEN tx.source ELSE op.source

\* The transaction's source, then those of its operations.
Actors(tx) ==
    <<tx.source>> \o [i \in DOMAIN tx.operations |-> SourceOf(tx.operations[i], tx)]

Acting(tx) == {tx.source} \cup {SourceOf(op, tx) : op \in ToSet(tx.operations)}

AllDestinations(tx) == {a \in Paid(tx) : Resolvable(a)}
AllSources(tx)      == {a \in Acting(tx) : Resolvable(a)}

Destinations(tx) ==
    LET Before(a, b) == Precedes(Payees(tx), a, b)
    IN Leading(AllDestinations(tx), MAX_DESTINATION_CHECKS, Before)

Sources(tx) ==
    LET Before(a, b) == Precedes(Actors(tx), a, b)
    IN Leading(AllSources(tx), MAX_SOURCE_CHECKS, Before)

Unresolvable(tx)    == {a \in Paid(tx) \cup Acting(tx) : ~Resolvable(a)}
Checked(tx)         == Destinations(tx) \cup Sources(tx)

-----------------------------------------------------------------------------
\* The threshold levels, as positions in an answer's thresholds.
Low    == 1
Medium == 2
High   == 3

operationThreshold(op) ==
    IF \/ op.type = "accountMerge"
       \/ /\ op.type = "setOptions"
          /\ \/ op.signer.type # Absent
             \/ \E f \in {"masterWeight", "lowThreshold", "medThreshold", "highThreshold"} :
                   op[f] # Absent
    THEN High ELSE Medium

\* Mutant: the level of the first operation of a source stands.
FirstLevel(tx, source) ==
    LET own == {j \in DOMAIN tx.operations : SourceOf(tx.operations[j], tx) = source}
    IN IF own = {} THEN Low ELSE operationThreshold(tx.operations[Min(own)])

\* The highest level an operation of the source needs; the transaction's own
\* source needs at least the low one.  An account need not ask for more weight
\* at a higher level.
RequiredLevel(tx, source) ==
    Max({operationThreshold(tx.operations[i]) :
            i \in {j \in DOMAIN tx.operations : SourceOf(tx.operations[j], tx) = source}}
        \cup (IF source = tx.source THEN {Low} ELSE {}))

Overweighed(answer, level) == answer.weight < Max({answer.thresholds[level], 1})

Warning(about, address) == [about |-> about, address |-> address]

\* The warnings that need no answer.
PlainWarnings(tx) ==
    {Warning("destinations not checked", a) :
        a \in AllDestinations(tx) \ Destinations(tx)}
    \cup {Warning("sources not checked", a) : a \in AllSources(tx) \ Sources(tx)}
    \cup {Warning("cannot be looked up", a) : a \in Unresolvable(tx)}

DestinationWarnings(tx, a, answer) ==
    CASE ~answer.answered -> {Warning("not checked", a)}
      [] ~answer.exists   -> {Warning("does not exist", a)}
      [] answer.memoRequired /\ tx.memo[1] = "none" -> {Warning("requires a memo", a)}
      [] OTHER -> {}

SourceWarnings(tx, a, answer, signsSources) ==
    CASE ~answer.answered -> {Warning("not checked", a)}
      [] ~answer.exists   -> {Warning("does not exist", a)}
      [] signsSources /\ Overweighed(answer, RequiredLevel(tx, a)) ->
            {Warning("weight too low", a)}
      [] OTHER -> {}

\* answers: of every account checked, when the lookups were within budget.
collectSafetyWarnings(tx, signsSources, budgeted, answers) ==
    PlainWarnings(tx) \cup
    IF Checked(tx) # {} /\ ~budgeted THEN {Warning("too many lookups", "all")}
    ELSE (UNION {DestinationWarnings(tx, a, answers[a]) : a \in Destinations(tx)})
         \cup (UNION {SourceWarnings(tx, a, answers[a], signsSources) : a \in Sources(tx)})

collectFeeSourceWarnings(feeSource, budgeted, answer) ==
    CASE ~Resolvable(feeSource) -> {Warning("cannot be looked up", feeSource)}
      [] ~budgeted              -> {Warning("too many lookups", feeSource)}
      [] ~answer.answered       -> {Warning("not checked", feeSource)}
      [] ~answer.exists         -> {Warning("does not exist", feeSource)}
      [] Overweighed(answer, Low) -> {Warning("weight too low", feeSource)}
      [] OTHER -> {}
=============================================================================
