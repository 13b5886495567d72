------------------------------- MODULE Review -------------------------------
(***************************************************************************)
(* A signing request, from its parameters to its answer (packages/snap/src *)
(* /handlers/sign.tsx): what cannot be shown is refused; then the network  *)
(* is asked for what the dialog adds to the request, within the budget of  *)
(* RequestLimits; then the user decides, and what was shown is signed.     *)
(* The accounts and the phrase are those of module Snap: here the wallet   *)
(* has resolved the account, and its last observations may find that the   *)
(* phrase has changed.                                                     *)
(***************************************************************************)
EXTENDS Safety, Movements

CONSTANTS
    Calls,             \* the requests that may arrive
    AccountResponses,  \* what Horizon may send about an account
    LedgerResponses,   \* what the two sources may send as their height
    Reports,           \* what a simulation may report
    SubmitResponses,   \* what a submission may be answered with
    Logs,              \* the lookups that other requests may have made
    DEFAULT_AUTH_TTL_LEDGERS, MAX_AUTH_TTL_LEDGERS,
    MAX_SIM_RESULTS, MAX_SIM_AUTH_PER_RESULT, MAX_SIM_AUTH_SIGNERS,
    Lookups,           \* MAX_PREDIALOG_LOOKUPS
    UnconnectedLookups,\* MAX_PREDIALOG_UNCONNECTED
    Heights            \* bound on the heights of the network

ASSUME TtlAssumption ==
    /\ DEFAULT_AUTH_TTL_LEDGERS \in Nat /\ MAX_AUTH_TTL_LEDGERS \in Nat
    /\ DEFAULT_AUTH_TTL_LEDGERS <= MAX_AUTH_TTL_LEDGERS
    /\ Heights \subseteq Nat

\* An event's amount is read as an integer, and no contract's address is the
\* name of an asset.
ASSUME ReportAssumption ==
    /\ MAX_SIM_RESULTS \in Nat /\ MAX_SIM_AUTH_PER_RESULT \in Nat
    /\ MAX_SIM_AUTH_SIGNERS \in Nat
    /\ \A reported \in Reports :
          /\ reported.results \in Seq(Seq(STRING))
          /\ reported.events \in Seq(ToSet(reported.events))
          /\ \A event \in ToSet(reported.events) :
                event.amount \in Int /\ event.contract \notin DOMAIN SacOf

\* A request is for a transaction, whose addresses are addresses, for an
\* authorization, whose expiry is a ledger or 0, or for a message.
ASSUME CallAssumption ==
    \A c \in Calls :
        \/ /\ c.subject[1] = "transaction"
           /\ c.subject[2].tx.operations \in Seq(ToSet(c.subject[2].tx.operations))
           /\ Paid(c.subject[2].tx) \cup Acting(c.subject[2].tx) \subseteq DOMAIN Base
           /\ c.subject[2].feeSource \in DOMAIN Base \cup {Absent}
        \/ c.subject[1] = "authEntry" /\ c.subject[2].expires \in Nat
        \/ c.subject[1] = "message"

\* AccountChecksStruct: an account's weights and thresholds are numbers.
ASSUME AccountAssumption ==
    \A response \in AccountResponses :
        response.body[1] = "account" =>
            /\ response.body[2].signers \in Seq(ToSet(response.body[2].signers))
            /\ \A signer \in ToSet(response.body[2].signers) : signer.weight \in Int
            /\ response.body[2].thresholds \in [Low .. High -> Int]

\* Every lookup of a window is at the one time there is.
ASSUME LogAssumption == Logs \subseteq Seq({0})

VARIABLES
    phase,        \* idle, received, shown, signing, submitting
    call,         \* the request under review
    predialogLog, \* the times of the lookups made in this window: all one here
    ledger,       \* the height of the network when its sources were asked for it
    checks,       \* account -> what Horizon answered about it
    payer,        \* what it answered about the source of a fee bump
    warnings,     \* what the dialog warns of
    report,       \* what the simulation reported, and
    simulation,   \* what the dialog shows of it
    validUntil,   \* the ledger an authorization is signed to, and
    remaining,    \* how many ledgers away the dialog says it is
    outcome       \* how the last request ended

vars == <<phase, call, predialogLog, ledger, checks, payer, warnings, report, simulation,
          validUntil, remaining, outcome>>

Limits == INSTANCE RequestLimits WITH
    requestLog <- << >>, inflight <- << >>, inflightTotal <- 0, tokenReadLog <- << >>,
    RATE_LIMITS <- << >>, WINDOW_MS <- 1, MAX_TRACKED_KEYS <- 1,
    MAX_INFLIGHT_PER_ORIGIN <- 1, MAX_INFLIGHT_GLOBAL <- 0, MAX_INFLIGHT_UNCONNECTED <- 0,
    MAX_PREDIALOG_LOOKUPS <- Lookups, MAX_PREDIALOG_UNCONNECTED <- UnconnectedLookups,
    MAX_TOKEN_READ_LOOKUPS <- 0

NoCall       == [subject |-> <<"none">>]
NoReport     == [ok |-> FALSE, results |-> << >>, events |-> << >>, fee |-> Absent]
NoSimulation == [ok |-> FALSE, signers |-> {}, signersTruncated |-> FALSE, fee |-> Absent,
                 changes |-> << >>, partial |-> FALSE]

Init ==
    /\ phase = "idle" /\ call = NoCall /\ predialogLog = << >> /\ ledger = 0
    /\ checks = << >> /\ payer = NoAnswer /\ warnings = {} /\ report = NoReport /\ simulation = NoSimulation
    /\ validUntil = 0 /\ remaining = 0 /\ outcome = "none"

Kind(c)     == c.subject[1]
Envelope(c) == c.subject[2]
Tx(c)       == c.subject[2].tx

-----------------------------------------------------------------------------
(***************************************************************************)
(* What is refused before the network is asked.                            *)
(***************************************************************************)
NetworkRefused(c) ==
    \/ c.stated \notin {Absent, c.network}
    \/ Kind(c) # "message" /\ c.network = "PUBLIC" /\ c.stated = Absent

hasMisplacedSorobanOperation(tx) ==
    /\ Len(tx.operations) > 1
    /\ \E i \in DOMAIN tx.operations : tx.operations[i].type \in SorobanTypes

\* Never executed: a transaction that carries data of the other kind, or none.
DataRefused(tx) ==
    IF IsSoroban(tx) THEN findUndisplayableFootprint(tx.sorobanData) ELSE tx.sorobanData # NoData

TransactionRefused(c) ==
    LET tx == Tx(c)
    IN \/ FeeBump(Envelope(c)) /\ Envelope(c).fee < 0
       \/ c.submit /\ ~Executes(tx)
       \/ hasMisplacedSorobanOperation(tx)
       \/ \E i \in DOMAIN tx.operations :
             \/ tx.operations[i].type \notin SUPPORTED_OPERATION_TYPES
             \/ Undisplayable(tx.operations[i])
       \/ Contains(tx.extraSigners, "undecodable")
       \/ DataRefused(tx)

AuthEntryRefused(entry, address) ==
    \/ entry.credentials # "address" \/ entry.address # address
    \/ NotWhole(decodeAuthEntry(entry))

Refused(c) ==
    \/ NetworkRefused(c)
    \/ Kind(c) = "transaction" /\ TransactionRefused(c)
    \/ Kind(c) = "authEntry"   /\ AuthEntryRefused(c.subject[2], c.address)

-----------------------------------------------------------------------------
(***************************************************************************)
(* What the network adds.                                                  *)
(***************************************************************************)
\* The reported entries that are read, by their positions.
EntriesRead(results) ==
    {p \in (1 .. MAX_SIM_RESULTS) \X (1 .. MAX_SIM_AUTH_PER_RESULT) :
        p[1] \in DOMAIN results /\ p[2] \in DOMAIN results[p[1]]}

SignerAt(results, p) == results[p[1]][p[2]]

\* Each entry names an address, the transaction's source, or is undecodable;
\* only the addresses count.
SignersNamed(results) ==
    {SignerAt(results, p) : p \in EntriesRead(results)} \ {"source", "undecodable"}

\* The first of them, as they are read.
SignersListed(results) ==
    LET Sooner(p, q) == p[1] < q[1] \/ (p[1] = q[1] /\ p[2] < q[2])
        Before(a, b) ==
            \E p \in EntriesRead(results) :
                /\ SignerAt(results, p) = a
                /\ \A q \in EntriesRead(results) : SignerAt(results, q) = b => Sooner(p, q)
    IN Leading(SignersNamed(results), MAX_SIM_AUTH_SIGNERS, Before)

\* Mutant: whatever was read is all there is.
ReadAuthQuietly(results) ==
    [signers   |-> SignersListed(results),
     truncated |-> Cardinality(SignersNamed(results)) > MAX_SIM_AUTH_SIGNERS]

ReadAuth(results) ==
    [signers   |-> SignersListed(results),
     truncated |-> \/ Len(results) > MAX_SIM_RESULTS
                   \/ \E r \in DOMAIN results :
                         r <= MAX_SIM_RESULTS /\ Len(results[r]) > MAX_SIM_AUTH_PER_RESULT
                   \/ Cardinality(SignersNamed(results)) > MAX_SIM_AUTH_SIGNERS]

\* No estimate beyond what a fee can be.
usableResourceFee(fee) == IF fee = "beyond int64" THEN Absent ELSE fee

simulateForDisplay(reported, account) ==
    IF ~reported.ok THEN NoSimulation
    ELSE LET auth    == ReadAuth(reported.results)
             summary == summarizeBalanceChanges(reported.events, account)
         IN [ok |-> TRUE, signers |-> auth.signers, signersTruncated |-> auth.truncated,
             fee |-> usableResourceFee(reported.fee),
             changes |-> summary.changes, partial |-> summary.partial]

\* The rows as a set.
renderSimulation(shown) ==
    IF ~shown.ok THEN ToSet(Row("Simulation unavailable", << >>))
    ELSE renderBalanceChanges(shown.changes, shown.partial)
         \cup ToSet(Row("Estimated resource fee",
                        <<IF shown.fee = Absent THEN "unavailable" ELSE shown.fee>>))
         \cup ToSet(When(shown.signers # {},
                         Row("Requires signature from", SetToSeq(shown.signers))))
         \cup ToSet(When(shown.signersTruncated, Row("Signer list incomplete", << >>)))

Budgeted(c, count) == Limits!PredialogAllows(c.connected, count, 0)

Take(c, count) == Limits!takePredialogBudget(c.connected, count, 0)

Answers(signer) == {getAccountChecks(response, signer) : response \in AccountResponses}

\* The fee source is looked up after the others, with what is left.
FeeSourceWarnings(c, left, answer) ==
    IF ~FeeBump(Envelope(c)) THEN {}
    ELSE collectFeeSourceWarnings(Envelope(c).feeSource, left, answer)

receive(c) ==
    /\ phase = "idle" /\ outcome' = "none"
    /\ IF Refused(c) THEN UNCHANGED <<phase, call, predialogLog>>
       ELSE phase' = "received" /\ call' = c /\ predialogLog' \in Logs
    /\ UNCHANGED <<ledger, checks, payer, warnings, report, simulation, validUntil, remaining>>

\* A Soroban transaction is simulated, if it can be executed.
Simulate ==
    /\ phase = "received" /\ Kind(call) = "transaction"
    /\ IsSoroban(Tx(call)) /\ Executes(Tx(call))
    /\ \E reported \in Reports :
          /\ report' = IF Budgeted(call, 1) THEN reported ELSE NoReport
          /\ simulation' = simulateForDisplay(report', call.address)
    /\ Take(call, 1) /\ phase' = "simulated"
    /\ UNCHANGED <<call, ledger, checks, payer, warnings, validUntil, remaining, outcome>>

\* A classic one has its accounts checked, if it can be executed.
CheckAccounts ==
    /\ phase = "received" /\ Kind(call) = "transaction"
    /\ ~IsSoroban(Tx(call)) /\ Executes(Tx(call))
    /\ LET accounts == Checked(Tx(call))
           budgeted == Budgeted(call, Cardinality(accounts))
       IN /\ \E answers \in IF budgeted THEN [accounts -> Answers(call.address)] ELSE {<< >>} :
                /\ checks' = answers
                /\ warnings' = collectSafetyWarnings(Tx(call), ~FeeBump(Envelope(call)),
                                                     budgeted, answers)
          /\ IF accounts = {} THEN UNCHANGED predialogLog
             ELSE Take(call, Cardinality(accounts))
    /\ phase' = "checked"
    /\ UNCHANGED <<call, ledger, payer, report, simulation, validUntil, remaining, outcome>>

\* Then the fee source of a fee bump, and the dialog opens.
Present ==
    /\ Kind(call) = "transaction"
    /\ phase = IF ~Executes(Tx(call)) THEN "received"
               ELSE IF IsSoroban(Tx(call)) THEN "simulated" ELSE "checked"
    /\ LET looksUp == FeeBump(Envelope(call)) /\ Resolvable(Envelope(call).feeSource)
       IN /\ IF looksUp THEN Take(call, 1) ELSE UNCHANGED predialogLog
          /\ payer' \in IF looksUp /\ Budgeted(call, 1) THEN Answers(call.address)
                        ELSE {NoAnswer}
          /\ warnings' = warnings \cup FeeSourceWarnings(call, Budgeted(call, 1), payer')
    /\ phase' = "shown"
    /\ UNCHANGED <<call, ledger, checks, report, simulation, validUntil, remaining, outcome>>

PresentMessage ==
    /\ phase = "received" /\ Kind(call) = "message" /\ phase' = "shown"
    /\ UNCHANGED <<call, predialogLog, ledger, checks, payer, warnings, report, simulation,
                   validUntil, remaining, outcome>>

\* Mutant: an expiry that no ledger number can hold.
Overflowing(requested, latest) ==
    IF latest = NoLedger \/ (requested # 0 /\ requested <= latest)
         \/ requested - latest > MAX_AUTH_TTL_LEDGERS
    THEN NoLedger
    ELSE IF requested = 0 THEN latest + DEFAULT_AUTH_TTL_LEDGERS ELSE requested

\* The expiry of an authorization, given the verified height, or 0.
boundAuthExpiration(requested, latest) ==
    LET expired == requested # 0 /\ requested <= latest
        tooLong == requested - latest > MAX_AUTH_TTL_LEDGERS
        until   == IF requested = 0 THEN latest + DEFAULT_AUTH_TTL_LEDGERS ELSE requested
    IN IF latest = NoLedger \/ expired \/ tooLong \/ ~isLedgerSequence(until) THEN NoLedger
       ELSE until

\* Mutant: the source that is ahead is believed.
Furthest(heights) == IF NoLedger \in heights THEN NoLedger ELSE Max(heights)

\* Both sources must answer, and the lower height is believed.
Verified(heights) == IF NoLedger \in heights THEN NoLedger ELSE Min(heights)

\* At most one of the sources is ahead of the network.
PresentAuthEntry ==
    /\ phase = "received" /\ Kind(call) = "authEntry"
    /\ \E rpc, horizon \in LedgerResponses, height \in Heights :
          LET heights == {getLatestLedger(rpc), getHorizonLatestLedger(horizon)}
              latest  == IF Budgeted(call, 2) THEN Verified(heights) ELSE NoLedger
              until   == boundAuthExpiration(call.subject[2].expires, latest)
          IN /\ \E h \in heights : h <= height
             /\ IF until = NoLedger
                THEN /\ phase' = "idle" /\ call' = NoCall /\ predialogLog' = << >>
                     /\ UNCHANGED <<ledger, validUntil, remaining>>
                ELSE /\ phase' = "shown" /\ UNCHANGED call /\ Take(call, 2)
                     /\ ledger' = height /\ validUntil' = until /\ remaining' = until - latest
    /\ UNCHANGED <<checks, payer, warnings, report, simulation, outcome>>

-----------------------------------------------------------------------------
(***************************************************************************)
(* The decision, the signature, and the submission.                        *)
(***************************************************************************)
End(result) ==
    /\ phase' = "idle" /\ call' = NoCall /\ predialogLog' = << >> /\ outcome' = result
    /\ checks' = << >> /\ payer' = NoAnswer /\ warnings' = {}
    /\ report' = NoReport /\ simulation' = NoSimulation
    /\ validUntil' = 0 /\ remaining' = 0 /\ ledger' = 0

Reject == phase = "shown" /\ End("rejected")

\* assertPhraseUnchanged may refuse here, before the key is derived.
Approve ==
    /\ phase = "shown"
    /\ \/ /\ phase' = "signing"
          /\ UNCHANGED <<call, predialogLog, ledger, checks, payer, warnings, report,
                         simulation, validUntil, remaining, outcome>>
       \/ End("refused")

\* The signature is made; its answer is checked once more.
Sign ==
    /\ phase = "signing"
    /\ \/ /\ call.submit /\ phase' = "submitting"
          /\ UNCHANGED <<call, predialogLog, ledger, checks, payer, warnings, report,
                         simulation, validUntil, remaining, outcome>>
       \/ ~call.submit /\ End("signed")
       \/ End("refused")

\* assertSubmittedHash: only the hash of the signed transaction counts; every
\* other answer leaves the submission unknown, and carries the signed XDR.
SubmissionOf(hash) == IF hash = "its hash" THEN "submitted" ELSE "unknown"

Submit ==
    /\ phase = "submitting"
    /\ \E response \in SubmitResponses :
          LET hash == IF IsSoroban(Tx(call)) THEN sendTransaction(response)
                      ELSE submitTransaction(response)
          IN End(SubmissionOf(hash)) \/ End("refused")

Next ==
    \/ \E c \in Calls : receive(c)
    \/ Simulate \/ CheckAccounts \/ Present \/ PresentMessage \/ PresentAuthEntry
    \/ Reject \/ Approve \/ Sign \/ Submit

Spec == Init /\ [][Next]_vars
=============================================================================
