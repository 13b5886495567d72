-------------------------- MODULE ReviewProperties --------------------------
(***************************************************************************)
(* What the review of a signing request promises its user.                 *)
(***************************************************************************)
EXTENDS Review

\* The user may be reading the dialog, or has approved what it shows.
Reviewed == phase \in {"shown", "signing", "submitting"}

\* Types of the review: in particular, what is signed as an expiry fits a
\* ledger number (boundAuthExpiration).
ReviewTypeOK ==
    /\ phase \in {"idle", "received", "simulated", "checked"} \/ Reviewed
    /\ call = NoCall <=> phase = "idle"
    /\ predialogLog \in Seq({0})
    /\ ledger \in Heights \cup {0}
    /\ \A a \in DOMAIN checks : a \in DOMAIN Base
    /\ payer.weight \in Int
    /\ \A w \in warnings : w.address \in DOMAIN Base \cup {"all"}
    /\ validUntil \in 0 .. MAX_LEDGER_SEQUENCE /\ remaining \in 0 .. MAX_LEDGER_SEQUENCE
    /\ outcome \in {"none", "rejected", "refused", "signed", "submitted", "unknown"}

-----------------------------------------------------------------------------
\* What approving a request does.  A bound of 0 is none, and so is a list of
\* nothing to restore; an authorization is
\* signed to the ledger of validUntil, whatever it asked for; what the site
\* says of its network, or may look up, is no part of it.
NoBound(time) == IF time = "0" THEN Absent ELSE time

MeaningOf(subject) ==
    CASE subject[1] = "transaction" ->
            <<subject[1],
              [subject[2] EXCEPT
                 !.tx.minTime        = NoBound(@),
                 !.tx.maxTime        = NoBound(@),
                 !.tx.minSequenceAge = NoBound(@),
                 !.tx.minSequenceGap = NoBound(@),
                 !.tx.ledgerBounds   = IF @ = <<"0", "0">> THEN <<Absent>> ELSE @,
                 !.tx.sorobanData.ext = IF @ = <<"archived", << >>>> THEN <<"none">> ELSE @]>>
      [] subject[1] = "authEntry" -> <<subject[1], [subject[2] EXCEPT !.expires = 0]>>
      [] OTHER -> subject

Meaning(c) == [c EXCEPT !.stated = Absent, !.connected = FALSE, !.subject = MeaningOf(@)]

\* The requests that are not refused, each by what it shows and what it does.
Faces == {<<Dialog(c), Meaning(c)>> : c \in {d \in Calls : ~Refused(d)}}

\* The rows of a dialog tell what its approval does: no other request that is
\* not refused shows the same rows and does something else.  No address that
\* looks like another, no character of a memo or of a name, no order or depth
\* of a call's arguments, no rounding and no limit of the display hides the
\* difference (ui/transaction.tsx, ui/dialogs.tsx, ui/format.ts,
\* stellar/soroban.ts; what they cannot show, signTransaction and
\* signAuthEntry refuse).
DialogTellsCallsApart ==
    phase = "shown" =>
        LET rows == Dialog(call) IN \A face \in Faces : face[1] = rows => face[2] = Meaning(call)

-----------------------------------------------------------------------------
\* The account was found, and the key is enough for the level.
Found(a) == a \in DOMAIN checks /\ checks[a].exists

Sufficient(answer, level) ==
    answer.exists /\ answer.weight >= Max({1, answer.thresholds[level]})

\* For the level or a higher one.  The wallet compares its weight at the highest
\* level that the operations of an account need; an account whose higher level
\* asks for less than a lower one is not warned of there.
SufficientFrom(answer, level) == \E l \in level .. High : Sufficient(answer, l)

\* A dialog of a transaction that may execute and that shows no warning has
\* had every account looked up with success: those that are paid exist, and
\* require no memo that is missing; those that act give the signing key enough
\* weight at the level of each of their operations, or at a higher one, which
\* another operation of theirs needs (collectSafetyWarnings).  Of a fee bump
\* this holds for the account that pays the fee (collectFeeSourceWarnings).
SilenceIsVerified ==
    (Reviewed /\ Kind(call) = "transaction" /\ warnings = {}) =>
        LET tx == Tx(call)
        IN /\ FeeBump(Envelope(call)) => Sufficient(payer, Low)
           /\ (Executes(tx) /\ ~IsSoroban(tx)) =>
                /\ \A op \in ToSet(tx.operations) :
                      /\ op.type \in PayingTypes =>
                            /\ Found(op.destination)
                            /\ checks[op.destination].memoRequired => tx.memo[1] # "none"
                      /\ Found(SourceOf(op, tx))
                      /\ ~FeeBump(Envelope(call)) =>
                            SufficientFrom(checks[SourceOf(op, tx)], operationThreshold(op))
                /\ Found(tx.source)
                /\ ~FeeBump(Envelope(call)) => SufficientFrom(checks[tx.source], Low)

-----------------------------------------------------------------------------
\* An authorization lives no longer than the dialog says, and never beyond the
\* longest life, measured from where the network is, although an endpoint
\* may be behind it, or lie, or either may not answer (signAuthEntry).
AuthorizationExpires ==
    (Reviewed /\ Kind(call) = "authEntry") =>
        /\ validUntil - ledger <= remaining
        /\ remaining <= MAX_AUTH_TTL_LEDGERS

-----------------------------------------------------------------------------
ShownSimulation == renderSimulation(simulation)

ShowsRow(label) == \E row \in ShownSimulation : row.label = label

\* Every address that a simulation reports to authorize the call is among the
\* signers the dialog lists, or the dialog says that its list is incomplete
\* (simulateForDisplay).  An entry that cannot be decoded names no address.
SignersDisclosed ==
    (Reviewed /\ simulation.ok /\ ~ShowsRow("Signer list incomplete")) =>
        \A result \in ToSet(report.results) :
            ToSet(result) \subseteq simulation.signers \cup {"source", "undecodable"}

\* What the reported events move of a contract's asset for the account.
Net(contract) ==
    LET Part(event, party) == IF party = call.address THEN event.amount ELSE 0
        Amount(event) ==
            IF event.form = "contract" /\ event.contract = contract
                 /\ event.kind \in BALANCE_EVENT_KINDS
            THEN Part(event, toMovement(event).to) - Part(event, toMovement(event).from)
            ELSE 0
    IN Total([i \in DOMAIN report.events |-> Amount(report.events[i])])

\* The contract that an identity names: an asset names the one derived from it.
ContractOf(identity) == IF identity \in DOMAIN SacOf THEN SacOf[identity] ELSE identity

\* Unless the dialog says that movements may be missing, its balance changes
\* are those of the events: each is the net change of the contract that its
\* identity in full names, whatever the contract calls itself; none is left
\* out; and what leaves the account comes first (summarizeBalanceChanges).
BalanceRowsTrue ==
    (Reviewed /\ simulation.ok) =>
        LET changes     == simulation.changes
            Contract(i) == ContractOf(changes[i].asset.identity)
        IN /\ ~ShowsRow("Movements may be missing") =>
                /\ \A i \in DOMAIN changes : changes[i].delta = Net(Contract(i))
                /\ {Contract(i) : i \in DOMAIN changes} =
                      {c \in {event.contract : event \in ToSet(report.events)} : Net(c) # 0}
           /\ \A i, j \in DOMAIN changes :
                i < j => Contract(i) # Contract(j) /\ (changes[i].delta > 0 => changes[j].delta > 0)
=============================================================================
