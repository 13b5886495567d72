---------------------------- MODULE ReviewProofs ----------------------------
(***************************************************************************)
(* What the review of a signing request promises its user, for every       *)
(* request, every answer of an endpoint and every limit: ReviewInv, the    *)
(* conjunction of the parts below, is inductive, and the promises follow   *)
(* from it.                                                                *)
(***************************************************************************)
EXTENDS ReviewProperties, FiniteSetTheorems, SequenceTheorems, WellFoundedInduction, TLAPS

(***************************************************************************)
(* Least and greatest elements.                                            *)
(***************************************************************************)

\* A set of naturals that is not empty has a least element.
LEMMA LeastNatural ==
    ASSUME NEW T, T \subseteq Nat, T # {}
    PROVE  \E x \in T : \A y \in T : x <= y
<1>1. PICK x \in T : \A y \in T : ~(<<y, x>> \in OpToRel(<, Nat))
  BY WFMin, NatLessThanWellFounded
<1>2. \A y \in T : ~(y < x)
  BY <1>1 DEF OpToRel
<1> QED BY <1>2

\* Min is that element.
LEMMA MinOfNaturals ==
    ASSUME NEW T, T \subseteq Nat, T # {}
    PROVE  Min(T) \in T /\ \A y \in T : Min(T) <= y
BY LeastNatural DEF Min

\* The greatest of the threshold levels in a set.
LEMMA MaxOfLevels ==
    ASSUME NEW T, T \subseteq Low .. High, T # {}
    PROVE  Max(T) \in T /\ \A y \in T : Max(T) >= y
<1>1. T \subseteq {1, 2, 3}
  BY DEF Low, High
<1>2. \E x \in T : \A y \in T : x >= y
  <2>1. CASE 3 \in T
    BY <1>1, <2>1
  <2>2. CASE 3 \notin T /\ 2 \in T
    BY <1>1, <2>2
  <2>3. CASE 3 \notin T /\ 2 \notin T
    <3>1. T = {1}
      BY <1>1, <2>3
    <3> QED BY <3>1
  <2> QED BY <2>1, <2>2, <2>3
<1> QED BY <1>2 DEF Max

\* The weight a level asks for is at least one.
LEMMA AtLeastOne ==
    ASSUME NEW n \in Int
    PROVE  /\ Max({1, n}) = (IF n > 1 THEN n ELSE 1)
           /\ Max({n, 1}) = (IF n > 1 THEN n ELSE 1)
<1> DEFINE m == IF n > 1 THEN n ELSE 1
<1>1. m \in {1, n} /\ \A y \in {1, n} : m >= y
  OBVIOUS
<1>2. \A x \in {1, n} : (\A y \in {1, n} : x >= y) => x = m
  OBVIOUS
<1>3. Max({1, n}) = m
  BY <1>1, <1>2 DEF Max
<1>4. {1, n} = {n, 1}
  OBVIOUS
<1> QED BY <1>3, <1>4

-----------------------------------------------------------------------------
(***************************************************************************)
(* The inductive invariant.                                                *)
(***************************************************************************)

\* The request under review is one that was not refused, and its phase is one
\* that its kind goes through.
CallOK ==
    /\ phase \in {"idle", "received", "simulated", "checked"} \/ Reviewed
    /\ phase = "idle" => call = NoCall
    /\ phase # "idle" => call \in Calls /\ ~Refused(call)
    /\ phase \in {"simulated", "checked"} =>
          /\ Kind(call) = "transaction" /\ Executes(Tx(call))
          /\ phase = "simulated" <=> IsSoroban(Tx(call))

\* Nothing is known before it is asked for.
NothingYet ==
    /\ phase \in {"idle", "received", "simulated"} => warnings = {} /\ checks = << >>
    /\ phase \in {"idle", "received", "checked"} => report = NoReport /\ simulation = NoSimulation
    /\ ~Reviewed => payer = NoAnswer /\ ledger = 0 /\ validUntil = 0 /\ remaining = 0

\* An answer about an account whose weight and thresholds are numbers.
AnswerOK(answer) == answer.weight \in Int /\ answer.thresholds \in [Low .. High -> Int]

AnswersOK ==
    /\ AnswerOK(payer)
    /\ DOMAIN checks \subseteq DOMAIN Base
    /\ \A a \in DOMAIN checks : AnswerOK(checks[a])
    /\ \A w \in warnings : w.address \in DOMAIN Base \cup {"all"}

\* The expiry of an authorization, its distance from the verified height, and
\* the height of the network.
ExpiryOK ==
    /\ ledger \in Heights \cup {0}
    /\ validUntil \in 0 .. MAX_LEDGER_SEQUENCE /\ remaining \in 0 .. MAX_LEDGER_SEQUENCE
    /\ validUntil - ledger <= remaining /\ remaining <= MAX_AUTH_TTL_LEDGERS

\* What a transaction's accounts give reason to warn of is warned of.
AccountsWarned(tx, signsSources) ==
    /\ PlainWarnings(tx) \subseteq warnings
    /\ \/ warnings # {}
       \/ /\ DOMAIN checks = Checked(tx)
          /\ \A a \in Destinations(tx) : DestinationWarnings(tx, a, checks[a]) \subseteq warnings
          /\ \A a \in Sources(tx) : SourceWarnings(tx, a, checks[a], signsSources) \subseteq warnings

\* And what the account that pays for a fee bump gives reason to warn of.
PayerWarned(feeSource) ==
    \/ warnings # {}
    \/ Resolvable(feeSource) /\ payer.answered /\ payer.exists /\ ~Overweighed(payer, Low)

WarningsOK ==
    /\ (phase = "checked"
          \/ (Reviewed /\ Kind(call) = "transaction" /\ Executes(Tx(call)) /\ ~IsSoroban(Tx(call))))
       => AccountsWarned(Tx(call), ~FeeBump(Envelope(call)))
    /\ (Reviewed /\ Kind(call) = "transaction" /\ FeeBump(Envelope(call)))
       => PayerWarned(Envelope(call).feeSource)

\* What is shown of a simulation is what was made of its report.
SimulationOK ==
    simulation.ok =>
        report \in Reports /\ simulation = simulateForDisplay(report, call.address)

ReviewInv ==
    /\ CallOK /\ NothingYet /\ AnswersOK /\ ExpiryOK /\ WarningsOK /\ SimulationOK
    /\ predialogLog \in Seq({0})
    /\ outcome \in {"none", "rejected", "refused", "signed", "submitted", "unknown"}

-----------------------------------------------------------------------------
(***************************************************************************)
(* What requests and answers are.                                          *)
(***************************************************************************)

\* There is no request of another kind, and no request is not one.
LEMMA CallKinds ==
    ASSUME NEW c \in Calls
    PROVE  /\ Kind(c) \in {"transaction", "authEntry", "message"} /\ c # NoCall
           /\ Kind(c) = "transaction" =>
                /\ Tx(c).operations \in Seq(ToSet(Tx(c).operations))
                /\ Paid(Tx(c)) \cup Acting(Tx(c)) \subseteq DOMAIN Base
                /\ FeeBump(Envelope(c)) => Envelope(c).feeSource \in DOMAIN Base
           /\ Kind(c) = "authEntry" => c.subject[2].expires \in Nat
<1>1. Kind(c) \in {"transaction", "authEntry", "message"} /\ Kind(NoCall) = "none"
  BY CallAssumption DEF Kind, NoCall
<1> QED BY <1>1, CallAssumption DEF Kind, Tx, Envelope, FeeBump

\* The values of a function on a finite set are finitely many.
LEMMA FiniteValues ==
    ASSUME NEW S, IsFiniteSet(S), NEW f
    PROVE  IsFiniteSet({f[x] : x \in S})
<1> DEFINE T == {f[x] : x \in S}
           g == [x \in S |-> f[x]]
<1>1. g \in Surjection(S, T)
  BY DEF Surjection
<1> QED BY <1>1, FS_Surjection

\* A transaction's accounts are finitely many.
LEMMA AccountsFinite ==
    ASSUME NEW c \in Calls, Kind(c) = "transaction"
    PROVE  /\ Checked(Tx(c)) \subseteq DOMAIN Base /\ IsFiniteSet(Checked(Tx(c)))
           /\ Cardinality(Checked(Tx(c))) \in Nat
<1> DEFINE tx == Tx(c)
           ops == ToSet(tx.operations)
           to == [op \in ops |-> op.destination]
           from == [op \in ops |-> SourceOf(op, tx)]
<1>1. Checked(tx) \subseteq Paid(tx) \cup Acting(tx)
  BY DEF Checked, Destinations, Sources, Leading, AllDestinations, AllSources
<1>2. IsFiniteSet(ops)
  <2>1. IsFiniteSet(1 .. Len(tx.operations)) /\ DOMAIN tx.operations = 1 .. Len(tx.operations)
    BY CallKinds, FS_Interval
  <2> QED BY <2>1, FiniteValues DEF ToSet
<1>3. IsFiniteSet({to[op] : op \in ops}) /\ IsFiniteSet({from[op] : op \in ops})
  <2> HIDE DEF ops, to, from
  <2> QED BY <1>2, FiniteValues
<1>4. Paid(tx) \subseteq {to[op] : op \in ops}
  BY DEF Paid
<1>5. Acting(tx) \subseteq {from[op] : op \in ops} \cup {tx.source}
  BY DEF Acting
<1>6. IsFiniteSet({from[op] : op \in ops} \cup {tx.source})
  <2> HIDE DEF from, ops
  <2> QED BY <1>3, FS_AddElement
<1>7. IsFiniteSet(Paid(tx)) /\ IsFiniteSet(Acting(tx))
  BY <1>3, <1>4, <1>5, <1>6, FS_Subset
<1>8. IsFiniteSet(Paid(tx) \cup Acting(tx))
  BY <1>7, FS_Union
<1>9. IsFiniteSet(Checked(tx))
  BY <1>1, <1>8, FS_Subset
<1> QED BY <1>1, <1>9, CallKinds, FS_CardinalityType

\* Weights and thresholds are numbers in every answer.
LEMMA AnswersTyped ==
    ASSUME NEW key
    PROVE  /\ AnswerOK(NoAnswer)
           /\ \A answer \in Answers(key) : AnswerOK(answer)
<1>1. NoAnswer.weight = 0 /\ NoAnswer.thresholds \in [Low .. High -> Int]
  BY DEF NoAnswer, Low, High
<1>2. AnswerOK(NoAnswer) /\ AnswerOK(Missing)
  BY <1>1 DEF AnswerOK, NoAnswer, Missing
<1>3. ASSUME NEW response \in AccountResponses, response.body[1] = "account"
      PROVE  WeightOf(key, response.body[2].signers) \in Int
  <2> DEFINE signers == response.body[2].signers
             own == {i \in DOMAIN signers : /\ signers[i].type = "ed25519_public_key"
                                            /\ signers[i].key = key}
  <2>1. /\ signers \in Seq(ToSet(signers))
        /\ \A signer \in ToSet(signers) : signer.weight \in Int
    BY <1>3, AccountAssumption
  <2>2. DOMAIN signers \subseteq Nat /\ own \subseteq DOMAIN signers
    BY <2>1
  <2>3. own # {} => Min(own) \in own
    BY <2>2, MinOfNaturals
  <2>4. \A i \in own : signers[i].weight \in Int
    BY <2>1, <2>2 DEF ToSet
  <2>5. WeightOf(key, signers) = IF own = {} THEN 0 ELSE signers[Min(own)].weight
    BY DEF WeightOf
  <2> HIDE DEF own
  <2> QED BY <2>3, <2>4, <2>5
<1>4. ASSUME NEW response \in AccountResponses
      PROVE  AnswerOK(getAccountChecks(response, key))
  <2>1. CASE ~response.reached \/ response.status = 404 \/ response.status # 200
             \/ readJsonBounded(response) = Nothing \/ response.body[1] # "account"
    <3>1. getAccountChecks(response, key) \in {NoAnswer, Missing}
      BY <2>1 DEF getAccountChecks
    <3> QED BY <3>1, <1>2
  <2>2. CASE ~(~response.reached \/ response.status = 404 \/ response.status # 200
               \/ readJsonBounded(response) = Nothing \/ response.body[1] # "account")
    <3> DEFINE account == response.body[2]
    <3>1. getAccountChecks(response, key) =
            [answered |-> TRUE, exists |-> TRUE, memoRequired |-> account.memoRequired,
             weight |-> WeightOf(key, account.signers), thresholds |-> account.thresholds]
      BY <2>2 DEF getAccountChecks
    <3>2. WeightOf(key, account.signers) \in Int
      BY <2>2, <1>3
    <3>3. account.thresholds \in [Low .. High -> Int]
      BY <2>2, AccountAssumption
    <3> QED BY <3>1, <3>2, <3>3 DEF AnswerOK
  <2> QED BY <2>1, <2>2
<1> QED BY <1>2, <1>4 DEF Answers

\* A height is a ledger number, or none.
LEMMA HeightsTyped ==
    ASSUME NEW response
    PROVE  /\ getLatestLedger(response) \in 0 .. MAX_LEDGER_SEQUENCE
           /\ getHorizonLatestLedger(response) \in 0 .. MAX_LEDGER_SEQUENCE
<1>1. \A body, shape : LedgerOf(body, shape) \in 0 .. MAX_LEDGER_SEQUENCE
  BY LedgerAssumption DEF LedgerOf, NoLedger, isLedgerSequence
<1> QED BY <1>1, LedgerAssumption DEF getLatestLedger, getHorizonLatestLedger, NoLedger

\* The instance of the limiter counts as this module does.
LEMMA SameCardinality == \A S : Limits!Cardinality(S) = Cardinality(S)
BY DEF Limits!Cardinality, Cardinality, Limits!IsFiniteSet, IsFiniteSet

\* The lookups of a window stay a sequence of times.
LEMMA TakeKeepsLog ==
    ASSUME NEW c, NEW count \in Nat, predialogLog \in Seq({0}), Take(c, count)
    PROVE  predialogLog' \in Seq({0})
<1> DEFINE past == Limits!Past(predialogLog, 1, 0)
           k == Cardinality(past)
           kept == SubSeq(predialogLog, k + 1, Len(predialogLog))
           added == [i \in 1 .. count |-> 0]
<1>1. IsFiniteSet(past)
  <2>1. past \subseteq 1 .. Len(predialogLog) /\ Len(predialogLog) \in Nat
    BY DEF Limits!Past
  <2>2. IsFiniteSet(1 .. Len(predialogLog))
    BY <2>1, FS_Interval
  <2> HIDE DEF past
  <2> QED BY <2>1, <2>2, FS_Subset
<1>2. k \in Nat
  BY <1>1, FS_CardinalityType
<1>3. kept \in Seq({0})
  <2> HIDE DEF k
  <2> QED BY <1>2, SubSeqProperties
<1>4. added \in Seq({0})
  OBVIOUS
<1>5. Limits!Recent(predialogLog, 0) = kept
  BY SameCardinality DEF Limits!Recent, Limits!Lately
<1>6. predialogLog' = kept \o added \/ predialogLog' = kept
  BY <1>5 DEF Take, Limits!takePredialogBudget, Limits!BudgetTaken
<1>7. kept \o added \in Seq({0})
  <2> HIDE DEF kept, added
  <2> QED BY <1>3, <1>4, ConcatProperties
<1> QED BY <1>3, <1>6, <1>7

\* A warning names the account it is about.
LEMMA WarningNames == \A about, a : Warning(about, a).address = a
BY DEF Warning

\* Every warning is about an account, or about all of them.
LEMMA WarningsNameAccounts ==
    ASSUME NEW c \in Calls, Kind(c) = "transaction", NEW signs, NEW budgeted, NEW answers
    PROVE  \A w \in collectSafetyWarnings(Tx(c), signs, budgeted, answers) :
              w.address \in DOMAIN Base \cup {"all"}
<1> DEFINE tx == Tx(c)
<1>1. Paid(tx) \cup Acting(tx) \subseteq DOMAIN Base
  BY CallKinds
<1>2. AllDestinations(tx) \subseteq DOMAIN Base /\ AllSources(tx) \subseteq DOMAIN Base
      /\ Unresolvable(tx) \subseteq DOMAIN Base
  BY <1>1 DEF AllDestinations, AllSources, Unresolvable
<1>3. Destinations(tx) \subseteq DOMAIN Base /\ Sources(tx) \subseteq DOMAIN Base
  BY <1>2 DEF Destinations, Sources, Leading
<1>4. \A w \in PlainWarnings(tx) : w.address \in DOMAIN Base
  <2> HIDE DEF tx
  <2>1. ASSUME NEW w \in PlainWarnings(tx)
        PROVE  \E about : \E a \in DOMAIN Base : w = Warning(about, a)
    BY <1>2, <2>1 DEF PlainWarnings
  <2> QED BY <2>1, WarningNames
<1>5. \A a, answer : \A w \in DestinationWarnings(tx, a, answer) : w.address = a
  BY WarningNames DEF DestinationWarnings
<1>6. \A a, answer : \A w \in SourceWarnings(tx, a, answer, signs) : w.address = a
  BY WarningNames DEF SourceWarnings
<1> HIDE DEF tx
<1>7. \A w \in UNION {DestinationWarnings(tx, a, answers[a]) : a \in Destinations(tx)} :
         w.address \in DOMAIN Base
  BY <1>3, <1>5
<1>8. \A w \in UNION {SourceWarnings(tx, a, answers[a], signs) : a \in Sources(tx)} :
         w.address \in DOMAIN Base
  BY <1>3, <1>6
<1>9. \A w \in {Warning("too many lookups", "all")} : w.address = "all"
  BY WarningNames
<1> QED BY <1>4, <1>7, <1>8, <1>9 DEF collectSafetyWarnings, tx

-----------------------------------------------------------------------------
(***************************************************************************)
(* The steps of a review.                                                  *)
(***************************************************************************)

LEMMA ReviewInit == Init => ReviewInv
<1> SUFFICES ASSUME Init PROVE ReviewInv
  OBVIOUS
<1>1. CallOK /\ NothingYet
  BY DEF Init, CallOK, NothingYet, Reviewed
<1>2. AnswersOK
  BY AnswersTyped DEF Init, AnswersOK
<1>3. ExpiryOK
  BY TtlAssumption, LedgerAssumption DEF Init, ExpiryOK
<1>4. WarningsOK /\ SimulationOK
  BY DEF Init, WarningsOK, SimulationOK, Reviewed, NoSimulation
<1>5. predialogLog \in Seq({0})
  BY DEF Init
<1> QED BY <1>1, <1>2, <1>3, <1>4, <1>5 DEF ReviewInv, Init

LEMMA ReceiveKeeps ==
    ASSUME ReviewInv, NEW c \in Calls, receive(c)
    PROVE  ReviewInv'
<1>1. CASE Refused(c)
  <2>1. UNCHANGED <<phase, call, predialogLog, ledger, checks, payer, warnings, report,
                    simulation, validUntil, remaining>> /\ outcome' = "none"
    BY <1>1 DEF receive
  <2> QED BY <2>1 DEF ReviewInv, CallOK, NothingYet, AnswersOK, ExpiryOK, WarningsOK,
                      AccountsWarned, PayerWarned, SimulationOK, Reviewed
<1>2. CASE ~Refused(c)
  <2>1. /\ phase = "idle" /\ phase' = "received" /\ call' = c /\ predialogLog' \in Logs
        /\ outcome' = "none"
        /\ UNCHANGED <<ledger, checks, payer, warnings, report, simulation, validUntil, remaining>>
    BY <1>2 DEF receive
  <2>2. CallOK' /\ NothingYet'
    BY <1>2, <2>1 DEF ReviewInv, CallOK, NothingYet, Reviewed
  <2>3. AnswersOK' /\ ExpiryOK'
    BY <2>1 DEF ReviewInv, AnswersOK, ExpiryOK
  <2>4. WarningsOK'
    BY <2>1 DEF WarningsOK, Reviewed
  <2>5. SimulationOK'
    BY <2>1 DEF ReviewInv, SimulationOK, NothingYet, NoSimulation
  <2>6. predialogLog' \in Seq({0})
    BY <2>1, LogAssumption
  <2> QED BY <2>1, <2>2, <2>3, <2>4, <2>5, <2>6 DEF ReviewInv
<1> QED BY <1>1, <1>2

LEMMA SimulateKeeps ==
    ASSUME ReviewInv, Simulate
    PROVE  ReviewInv'
<1>1. /\ phase = "received" /\ Kind(call) = "transaction" /\ phase' = "simulated"
      /\ IsSoroban(Tx(call)) /\ Executes(Tx(call)) /\ Take(call, 1)
      /\ UNCHANGED <<call, ledger, checks, payer, warnings, validUntil, remaining, outcome>>
  BY DEF Simulate
<1>2. CallOK' /\ NothingYet'
  BY <1>1 DEF ReviewInv, CallOK, NothingYet, Reviewed
<1>3. AnswersOK' /\ ExpiryOK'
  BY <1>1 DEF ReviewInv, AnswersOK, ExpiryOK
<1>4. WarningsOK'
  BY <1>1 DEF WarningsOK, Reviewed
<1>5. SimulationOK'
  <2>1. PICK reported \in Reports :
          /\ report' = IF Budgeted(call, 1) THEN reported ELSE NoReport
          /\ simulation' = simulateForDisplay(report', call.address)
    BY DEF Simulate
  <2>2. CASE report' = reported
    BY <1>1, <2>1, <2>2 DEF SimulationOK
  <2>3. CASE report' = NoReport
    <3>1. ~simulation'.ok
      BY <2>1, <2>3 DEF simulateForDisplay, NoReport, NoSimulation
    <3> QED BY <3>1 DEF SimulationOK
  <2> QED BY <2>1, <2>2, <2>3
<1>6. predialogLog' \in Seq({0})
  BY <1>1, TakeKeepsLog DEF ReviewInv
<1> QED BY <1>1, <1>2, <1>3, <1>4, <1>5, <1>6 DEF ReviewInv

LEMMA CheckAccountsKeeps ==
    ASSUME ReviewInv, CheckAccounts
    PROVE  ReviewInv'
<1> DEFINE tx == Tx(call)
           accounts == Checked(tx)
           signs == ~FeeBump(Envelope(call))
           budgeted == Budgeted(call, Cardinality(accounts))
<1>1. /\ phase = "received" /\ Kind(call) = "transaction" /\ phase' = "checked"
      /\ ~IsSoroban(tx) /\ Executes(tx)
      /\ IF accounts = {} THEN UNCHANGED predialogLog ELSE Take(call, Cardinality(accounts))
      /\ UNCHANGED <<call, ledger, payer, report, simulation, validUntil, remaining, outcome>>
  BY DEF CheckAccounts
<1>2. PICK answers \in IF budgeted THEN [accounts -> Answers(call.address)] ELSE {<< >>} :
         /\ checks' = answers
         /\ warnings' = collectSafetyWarnings(tx, signs, budgeted, answers)
  BY DEF CheckAccounts
<1>3. call \in Calls
  BY <1>1 DEF ReviewInv, CallOK
<1>4. accounts \subseteq DOMAIN Base /\ Cardinality(accounts) \in Nat
  BY <1>1, <1>3, AccountsFinite
<1>5. CallOK' /\ NothingYet'
  BY <1>1 DEF ReviewInv, CallOK, NothingYet, Reviewed
<1>6. AnswersOK'
  <2>1. \A w \in warnings' : w.address \in DOMAIN Base \cup {"all"}
    <3> HIDE DEF tx, signs, budgeted
    <3> QED BY <1>1, <1>2, <1>3, WarningsNameAccounts DEF tx
  <2>2. CASE budgeted
    <3> HIDE DEF budgeted, accounts
    <3> QED BY <1>1, <1>2, <1>4, <2>1, <2>2, AnswersTyped DEF ReviewInv, AnswersOK
  <2>3. CASE ~budgeted
    <3>1. DOMAIN checks' = {}
      <4> HIDE DEF budgeted, accounts
      <4> QED BY <1>2, <2>3
    <3> QED BY <1>1, <2>1, <3>1 DEF ReviewInv, AnswersOK
  <2> QED BY <2>2, <2>3
<1>7. ExpiryOK' /\ SimulationOK'
  BY <1>1 DEF ReviewInv, ExpiryOK, SimulationOK, NothingYet, NoSimulation
<1>8. AccountsWarned(tx, signs)'
  <2>1. PlainWarnings(tx) \subseteq warnings'
    BY <1>2 DEF collectSafetyWarnings
  <2>2. CASE budgeted
    <3>1. checks' = answers /\ DOMAIN answers = accounts
      <4> HIDE DEF budgeted, accounts
      <4> QED BY <1>2, <2>2
    <3>2. /\ UNION {DestinationWarnings(tx, a, checks'[a]) : a \in Destinations(tx)} \subseteq warnings'
          /\ UNION {SourceWarnings(tx, a, checks'[a], signs) : a \in Sources(tx)} \subseteq warnings'
      BY <1>2, <2>2 DEF collectSafetyWarnings
    <3>3. /\ \A a \in Destinations(tx) : DestinationWarnings(tx, a, checks'[a]) \subseteq warnings'
          /\ \A a \in Sources(tx) : SourceWarnings(tx, a, checks'[a], signs) \subseteq warnings'
      <4> HIDE DEF tx, signs
      <4> QED BY <3>2
    <3> QED BY <1>1, <2>1, <3>1, <3>3 DEF AccountsWarned
  <2>3. CASE ~budgeted /\ accounts # {}
    <3>1. warnings' # {}
      BY <1>2, <2>3 DEF collectSafetyWarnings
    <3> QED BY <1>1, <2>1, <3>1 DEF AccountsWarned
  <2>4. CASE ~budgeted /\ accounts = {}
    <3>1. Destinations(tx) = {} /\ Sources(tx) = {} /\ DOMAIN checks' = accounts
      <4>1. checks' = << >>
        <5> HIDE DEF budgeted, accounts
        <5> QED BY <1>2, <2>4
      <4> QED BY <4>1, <2>4 DEF Checked
    <3> QED BY <1>1, <2>1, <3>1 DEF AccountsWarned
  <2> QED BY <2>2, <2>3, <2>4
<1>9. WarningsOK'
  BY <1>1, <1>8 DEF WarningsOK, Reviewed
<1>10. predialogLog' \in Seq({0})
  BY <1>1, <1>4, TakeKeepsLog DEF ReviewInv
<1> QED BY <1>1, <1>5, <1>6, <1>7, <1>9, <1>10 DEF ReviewInv

LEMMA PresentKeeps ==
    ASSUME ReviewInv, Present
    PROVE  ReviewInv'
<1> DEFINE envelope == Envelope(call)
           looksUp == FeeBump(envelope) /\ Resolvable(envelope.feeSource)
           left == Budgeted(call, 1)
<1>1. /\ Kind(call) = "transaction" /\ phase' = "shown" /\ phase # "idle" /\ ~Reviewed
      /\ phase = IF ~Executes(Tx(call)) THEN "received"
                 ELSE IF IsSoroban(Tx(call)) THEN "simulated" ELSE "checked"
      /\ IF looksUp THEN Take(call, 1) ELSE UNCHANGED predialogLog
      /\ payer' \in IF looksUp /\ left THEN Answers(call.address) ELSE {NoAnswer}
      /\ warnings' = warnings \cup FeeSourceWarnings(call, left, payer')
      /\ UNCHANGED <<call, ledger, checks, report, simulation, validUntil, remaining, outcome>>
  BY DEF Present, Reviewed
<1>2. call \in Calls /\ ~Refused(call)
  BY <1>1 DEF ReviewInv, CallOK
<1>3. CallOK' /\ NothingYet'
  BY <1>1, <1>2 DEF CallOK, NothingYet, Reviewed
<1>4. AnswerOK(payer')
  <2> HIDE DEF looksUp, left
  <2> QED BY <1>1, AnswersTyped
<1>5. \A w \in FeeSourceWarnings(call, left, payer') : w.address \in DOMAIN Base
  <2>1. \A a, answer : \A w \in collectFeeSourceWarnings(a, left, answer) : w.address = a
    BY WarningNames DEF collectFeeSourceWarnings
  <2> QED BY <1>1, <1>2, <2>1, CallKinds DEF FeeSourceWarnings
<1>6. AnswersOK' /\ ExpiryOK' /\ SimulationOK'
  BY <1>1, <1>4, <1>5 DEF ReviewInv, AnswersOK, ExpiryOK, SimulationOK
<1>7. ASSUME Executes(Tx(call)), ~IsSoroban(Tx(call))
      PROVE  AccountsWarned(Tx(call), ~FeeBump(envelope))'
  <2>1. AccountsWarned(Tx(call), ~FeeBump(envelope))
    BY <1>1, <1>7 DEF ReviewInv, WarningsOK
  <2> QED BY <1>1, <2>1 DEF AccountsWarned
<1>8. ASSUME FeeBump(envelope)
      PROVE  PayerWarned(envelope.feeSource)'
  <2>1. CASE warnings' # {}
    BY <2>1 DEF PayerWarned
  <2>2. CASE warnings' = {}
    <3>1. collectFeeSourceWarnings(envelope.feeSource, left, payer') = {}
      BY <1>1, <1>8, <2>2 DEF FeeSourceWarnings
    <3>2. Resolvable(envelope.feeSource) /\ payer'.answered /\ payer'.exists
          /\ ~Overweighed(payer', Low)
      BY <3>1 DEF collectFeeSourceWarnings
    <3> QED BY <1>1, <3>2 DEF PayerWarned
  <2> QED BY <2>1, <2>2
<1>9. WarningsOK'
  BY <1>1, <1>7, <1>8 DEF WarningsOK, Reviewed
<1>10. predialogLog' \in Seq({0})
  BY <1>1, TakeKeepsLog DEF ReviewInv
<1> QED BY <1>1, <1>3, <1>6, <1>9, <1>10 DEF ReviewInv

LEMMA PresentMessageKeeps ==
    ASSUME ReviewInv, PresentMessage
    PROVE  ReviewInv'
<1>1. /\ phase = "received" /\ Kind(call) = "message" /\ phase' = "shown"
      /\ UNCHANGED <<call, predialogLog, ledger, checks, payer, warnings, report, simulation,
                     validUntil, remaining, outcome>>
  BY DEF PresentMessage
<1>2. CallOK' /\ NothingYet'
  BY <1>1 DEF ReviewInv, CallOK, NothingYet, Reviewed
<1>3. AnswersOK' /\ ExpiryOK' /\ SimulationOK'
  BY <1>1 DEF ReviewInv, AnswersOK, ExpiryOK, SimulationOK
<1>4. WarningsOK'
  BY <1>1 DEF WarningsOK, Reviewed
<1> QED BY <1>1, <1>2, <1>3, <1>4 DEF ReviewInv

\* The lower of two heights, if there are two.
LEMMA LowerHeight ==
    ASSUME NEW heights \in SUBSET (0 .. MAX_LEDGER_SEQUENCE), heights # {},
           Verified(heights) # NoLedger
    PROVE  /\ Verified(heights) \in 0 .. MAX_LEDGER_SEQUENCE
           /\ \A h \in heights : Verified(heights) <= h
<1>1. Verified(heights) = Min(heights)
  BY DEF Verified
<1>2. heights \subseteq Nat
  BY LedgerAssumption
<1>3. Min(heights) \in heights /\ \A h \in heights : Min(heights) <= h
  BY <1>2, MinOfNaturals, Zenon
<1> QED BY <1>1, <1>3

\* The expiry that an authorization is given.
LEMMA ExpiryBounded ==
    ASSUME NEW requested \in Nat, NEW latest \in 0 .. MAX_LEDGER_SEQUENCE,
           boundAuthExpiration(requested, latest) # NoLedger
    PROVE  /\ boundAuthExpiration(requested, latest) \in 1 .. MAX_LEDGER_SEQUENCE
           /\ boundAuthExpiration(requested, latest) >= latest /\ latest # NoLedger
           /\ boundAuthExpiration(requested, latest) - latest <= MAX_AUTH_TTL_LEDGERS
<1> DEFINE until == IF requested = 0 THEN latest + DEFAULT_AUTH_TTL_LEDGERS ELSE requested
<1>1. /\ boundAuthExpiration(requested, latest) = until /\ isLedgerSequence(until)
      /\ latest # NoLedger /\ ~(requested # 0 /\ requested <= latest)
      /\ ~(requested - latest > MAX_AUTH_TTL_LEDGERS)
  BY DEF boundAuthExpiration
<1>2. latest \in Nat /\ MAX_LEDGER_SEQUENCE \in Nat
  BY LedgerAssumption
<1>3. CASE requested = 0
  BY <1>1, <1>2, <1>3, TtlAssumption DEF isLedgerSequence
<1>4. CASE requested # 0
  BY <1>1, <1>2, <1>4, TtlAssumption DEF isLedgerSequence
<1> QED BY <1>3, <1>4

LEMMA PresentAuthEntryKeeps ==
    ASSUME ReviewInv, PresentAuthEntry
    PROVE  ReviewInv'
<1>1. /\ phase = "received" /\ Kind(call) = "authEntry" /\ call \in Calls /\ ~Refused(call)
      /\ UNCHANGED <<checks, payer, warnings, report, simulation, outcome>>
  BY DEF PresentAuthEntry, ReviewInv, CallOK
<1>2. PICK rpc \in LedgerResponses, horizon \in LedgerResponses, height \in Heights :
        LET heights == {getLatestLedger(rpc), getHorizonLatestLedger(horizon)}
            latest  == IF Budgeted(call, 2) THEN Verified(heights) ELSE NoLedger
            until   == boundAuthExpiration(call.subject[2].expires, latest)
        IN /\ \E h \in heights : h <= height
           /\ IF until = NoLedger
              THEN /\ phase' = "idle" /\ call' = NoCall /\ predialogLog' = << >>
                   /\ UNCHANGED <<ledger, validUntil, remaining>>
              ELSE /\ phase' = "shown" /\ UNCHANGED call /\ Take(call, 2)
                   /\ ledger' = height /\ validUntil' = until /\ remaining' = until - latest
  BY DEF PresentAuthEntry
<1> DEFINE heights == {getLatestLedger(rpc), getHorizonLatestLedger(horizon)}
           latest == IF Budgeted(call, 2) THEN Verified(heights) ELSE NoLedger
           until == boundAuthExpiration(call.subject[2].expires, latest)
<1>3. \E h \in heights : h <= height
  BY <1>2
<1>4. AnswersOK'
  BY <1>1 DEF ReviewInv, AnswersOK
<1>5. CASE until = NoLedger
  <2>1. /\ phase' = "idle" /\ call' = NoCall /\ predialogLog' = << >>
        /\ UNCHANGED <<ledger, validUntil, remaining>>
    BY <1>2, <1>5
  <2>2. CallOK' /\ NothingYet'
    BY <1>1, <2>1 DEF ReviewInv, CallOK, NothingYet, Reviewed
  <2>3. ExpiryOK' /\ SimulationOK'
    BY <1>1, <2>1 DEF ReviewInv, ExpiryOK, SimulationOK, NothingYet, NoSimulation
  <2>4. WarningsOK'
    BY <2>1 DEF WarningsOK, Reviewed
  <2> QED BY <1>1, <1>4, <2>1, <2>2, <2>3, <2>4 DEF ReviewInv
<1>6. CASE until # NoLedger
  <2>1. /\ phase' = "shown" /\ call' = call /\ Take(call, 2)
        /\ ledger' = height /\ validUntil' = until /\ remaining' = until - latest
    BY <1>2, <1>6
  <2>2. CallOK' /\ NothingYet'
    BY <1>1, <2>1 DEF CallOK, NothingYet, Reviewed, ReviewInv
  <2>3. heights \subseteq 0 .. MAX_LEDGER_SEQUENCE
    BY HeightsTyped
  <2>4. latest \in 0 .. MAX_LEDGER_SEQUENCE
    <3>1. NoLedger \in 0 .. MAX_LEDGER_SEQUENCE
      BY LedgerAssumption DEF NoLedger
    <3>2. heights # {}
      OBVIOUS
    <3> HIDE DEF heights
    <3> QED BY <2>3, <3>1, <3>2, LowerHeight
  <2>5. call.subject[2].expires \in Nat
    BY <1>1, CallKinds
  <2>6. /\ until \in 1 .. MAX_LEDGER_SEQUENCE /\ until >= latest /\ latest # NoLedger
        /\ until - latest <= MAX_AUTH_TTL_LEDGERS
    <3> HIDE DEF latest
    <3> QED BY <1>6, <2>4, <2>5, ExpiryBounded
  <2>7. latest <= height
    <3>1. heights # {}
      OBVIOUS
    <3>2. latest = Verified(heights)
      BY <2>6
    <3> HIDE DEF heights, latest
    <3>3. \A h \in heights : latest <= h
      BY <2>3, <2>6, <3>1, <3>2, LowerHeight
    <3>4. PICK h \in heights : h <= height
      BY <1>3
    <3> QED BY <2>3, <2>4, <3>3, <3>4, TtlAssumption, LedgerAssumption
  <2>8. ExpiryOK'
    <3> HIDE DEF latest, until
    <3>1. height \in Nat /\ latest \in Nat /\ until \in Nat /\ MAX_LEDGER_SEQUENCE \in Nat
      BY <2>4, <2>6, TtlAssumption, LedgerAssumption
    <3>2. until - height <= until - latest /\ until - latest \in 0 .. MAX_LEDGER_SEQUENCE
      BY <2>4, <2>6, <2>7, <3>1
    <3> QED BY <2>1, <2>6, <3>1, <3>2 DEF ExpiryOK
  <2>9. SimulationOK' /\ WarningsOK'
    BY <1>1, <2>1 DEF ReviewInv, SimulationOK, NothingYet, NoSimulation, WarningsOK, Reviewed
  <2>10. predialogLog' \in Seq({0})
    BY <2>1, TakeKeepsLog DEF ReviewInv
  <2> QED BY <1>1, <1>4, <2>2, <2>8, <2>9, <2>10 DEF ReviewInv
<1> QED BY <1>5, <1>6

\* A review that ends leaves nothing behind.
LEMMA EndKeeps ==
    ASSUME NEW result \in {"rejected", "refused", "signed", "submitted", "unknown"}, End(result)
    PROVE  ReviewInv'
<1>1. /\ phase' = "idle" /\ call' = NoCall /\ predialogLog' = << >> /\ outcome' = result
      /\ checks' = << >> /\ payer' = NoAnswer /\ warnings' = {}
      /\ report' = NoReport /\ simulation' = NoSimulation
      /\ validUntil' = 0 /\ remaining' = 0 /\ ledger' = 0
  BY DEF End
<1>2. CallOK' /\ NothingYet'
  BY <1>1 DEF CallOK, NothingYet, Reviewed
<1>3. AnswersOK'
  BY <1>1, AnswersTyped DEF AnswersOK
<1>4. ExpiryOK'
  BY <1>1, TtlAssumption, LedgerAssumption DEF ExpiryOK
<1>5. WarningsOK' /\ SimulationOK'
  BY <1>1 DEF WarningsOK, SimulationOK, Reviewed, NoSimulation
<1> QED BY <1>1, <1>2, <1>3, <1>4, <1>5 DEF ReviewInv

\* The approved request is signed and submitted as it was shown.
LEMMA ReviewedKeeps ==
    ASSUME ReviewInv, Reviewed, phase' \in {"shown", "signing", "submitting"},
           UNCHANGED <<call, predialogLog, ledger, checks, payer, warnings, report,
                       simulation, validUntil, remaining, outcome>>
    PROVE  ReviewInv'
<1>1. CallOK' /\ NothingYet'
  BY DEF ReviewInv, CallOK, NothingYet, Reviewed
<1>2. AnswersOK' /\ ExpiryOK' /\ SimulationOK'
  BY DEF ReviewInv, AnswersOK, ExpiryOK, SimulationOK
<1>3. WarningsOK'
  BY DEF ReviewInv, WarningsOK, Reviewed, AccountsWarned, PayerWarned
<1> QED BY <1>1, <1>2, <1>3 DEF ReviewInv

\* Every step of the review keeps the invariant.
LEMMA NextKeeps == ReviewInv /\ [Next]_vars => ReviewInv'
<1> SUFFICES ASSUME ReviewInv, [Next]_vars PROVE ReviewInv'
  OBVIOUS
<1>1. ASSUME NEW c \in Calls, receive(c) PROVE ReviewInv'
  BY <1>1, ReceiveKeeps
<1>2. CASE Simulate
  BY <1>2, SimulateKeeps
<1>3. CASE CheckAccounts
  BY <1>3, CheckAccountsKeeps
<1>4. CASE Present
  BY <1>4, PresentKeeps
<1>5. CASE PresentMessage
  BY <1>5, PresentMessageKeeps
<1>6. CASE PresentAuthEntry
  BY <1>6, PresentAuthEntryKeeps
<1>7. CASE Reject
  BY <1>7, EndKeeps DEF Reject
<1>8. CASE Approve
  <2>1. CASE End("refused")
    BY <2>1, EndKeeps
  <2>2. CASE phase' = "signing" /\ UNCHANGED <<call, predialogLog, ledger, checks, payer, warnings,
                                               report, simulation, validUntil, remaining, outcome>>
    BY <1>8, <2>2, ReviewedKeeps DEF Approve, Reviewed
  <2> QED BY <1>8, <2>1, <2>2 DEF Approve
<1>9. CASE Sign
  <2>1. CASE End("refused") \/ End("signed")
    BY <2>1, EndKeeps
  <2>2. CASE phase' = "submitting" /\ UNCHANGED <<call, predialogLog, ledger, checks, payer, warnings,
                                                  report, simulation, validUntil, remaining, outcome>>
    BY <1>9, <2>2, ReviewedKeeps DEF Sign, Reviewed
  <2> QED BY <1>9, <2>1, <2>2 DEF Sign
<1>10. CASE Submit
  <2>1. \A hash : SubmissionOf(hash) \in {"submitted", "unknown"}
    BY DEF SubmissionOf
  <2>2. End("submitted") \/ End("unknown") \/ End("refused")
    BY <1>10, <2>1 DEF Submit
  <2> QED BY <2>2, EndKeeps
<1>11. CASE UNCHANGED vars
  <2>1. UNCHANGED <<phase, call, predialogLog, ledger, checks, payer, warnings, report,
                    simulation, validUntil, remaining, outcome>>
    BY <1>11 DEF vars
  <2> QED BY <2>1 DEF ReviewInv, CallOK, NothingYet, AnswersOK, ExpiryOK, WarningsOK,
                      AccountsWarned, PayerWarned, SimulationOK, Reviewed
<1> QED BY <1>1, <1>2, <1>3, <1>4, <1>5, <1>6, <1>7, <1>8, <1>9, <1>10, <1>11 DEF Next

\* Whatever is asked for and answered, the invariant holds.
THEOREM ReviewSound == Spec => []ReviewInv
BY ReviewInit, NextKeeps, PTL DEF Spec

-----------------------------------------------------------------------------
(***************************************************************************)
(* The promises.                                                           *)
(***************************************************************************)

\* The review is well typed: what is signed as an expiry fits a ledger number.
THEOREM ReviewsTyped == Spec => []ReviewTypeOK
<1>1. ReviewInv => ReviewTypeOK
  <2> SUFFICES ASSUME ReviewInv PROVE ReviewTypeOK
    OBVIOUS
  <2>1. call = NoCall <=> phase = "idle"
    BY CallKinds DEF ReviewInv, CallOK
  <2> QED BY <2>1 DEF ReviewInv, ReviewTypeOK, CallOK, AnswersOK, AnswerOK, ExpiryOK
<1> QED BY <1>1, ReviewSound, PTL

\* An authorization expires when the dialog says, or before (signAuthEntry).
THEOREM AuthorizationsExpire == Spec => []AuthorizationExpires
<1>1. ReviewInv => AuthorizationExpires
  BY DEF ReviewInv, ExpiryOK, AuthorizationExpires
<1> QED BY <1>1, ReviewSound, PTL

\* A level of an operation is one that its source is required to have.
LEMMA RequiredLevels ==
    ASSUME NEW c \in Calls, Kind(c) = "transaction", NEW a
    PROVE  /\ \A op \in ToSet(Tx(c).operations) :
                 SourceOf(op, Tx(c)) = a =>
                    RequiredLevel(Tx(c), a) \in operationThreshold(op) .. High
           /\ a = Tx(c).source => RequiredLevel(Tx(c), a) \in Low .. High
<1> DEFINE tx == Tx(c)
           own == {j \in DOMAIN tx.operations : SourceOf(tx.operations[j], tx) = a}
           levels == {operationThreshold(tx.operations[i]) : i \in own}
                     \cup (IF a = tx.source THEN {Low} ELSE {})
<1>1. \A op : operationThreshold(op) \in Low .. High
  BY DEF operationThreshold, Low, Medium, High
<1>2. levels \subseteq Low .. High
  <2>1. Low \in Low .. High
    BY DEF Low, High
  <2> HIDE DEF own, tx
  <2> QED BY <1>1, <2>1
<1>3. RequiredLevel(tx, a) = Max(levels)
  BY DEF RequiredLevel
<1>4. \A l \in levels : Max(levels) \in l .. High
  <2> HIDE DEF levels
  <2>1. ASSUME NEW l \in levels PROVE Max(levels) \in l .. High
    <3> DEFINE m == Max(levels)
    <3>1. m \in levels /\ m >= l
      BY <1>2, MaxOfLevels
    <3> HIDE DEF m
    <3>2. m \in 1 .. 3 /\ l \in 1 .. 3
      BY <1>2, <3>1 DEF Low, High
    <3>3. m \in l .. High
      BY <3>1, <3>2 DEF High
    <3> QED BY <3>3 DEF m
  <2> QED BY <2>1
<1>5. ASSUME NEW op \in ToSet(tx.operations), SourceOf(op, tx) = a
      PROVE  operationThreshold(op) \in levels
  <2>1. PICK i \in DOMAIN tx.operations : op = tx.operations[i]
    BY DEF ToSet
  <2>2. i \in own
    BY <1>5, <2>1
  <2> HIDE DEF own, tx
  <2> QED BY <2>1, <2>2
<1>6. a = tx.source => Low \in levels
  OBVIOUS
<1> HIDE DEF levels
<1> QED BY <1>3, <1>4, <1>5, <1>6

\* A weight that is not too low is enough.
LEMMA WeightSuffices ==
    ASSUME NEW answer, NEW level \in Low .. High, AnswerOK(answer), answer.exists,
           ~Overweighed(answer, level)
    PROVE  Sufficient(answer, level)
<1>1. answer.thresholds[level] \in Int /\ answer.weight \in Int
  BY DEF AnswerOK
<1> QED BY <1>1, AtLeastOne DEF Overweighed, Sufficient

\* An account that gives no reason to warn has been found, with weight enough.
LEMMA SourceQuiet ==
    ASSUME ReviewInv, NEW c \in Calls, Kind(c) = "transaction", NEW signs, NEW a,
           a \in DOMAIN checks, SourceWarnings(Tx(c), a, checks[a], signs) = {}
    PROVE  /\ Found(a)
           /\ signs => ~Overweighed(checks[a], RequiredLevel(Tx(c), a))
<1>1. /\ checks[a].answered /\ checks[a].exists
      /\ ~(signs /\ Overweighed(checks[a], RequiredLevel(Tx(c), a)))
  BY DEF SourceWarnings
<1> QED BY <1>1 DEF Found

\* A dialog without warnings has had every account looked up with success
\* (collectSafetyWarnings, collectFeeSourceWarnings).
THEOREM SilencesVerified == Spec => []SilenceIsVerified
<1>1. ReviewInv => SilenceIsVerified
  <2> SUFFICES ASSUME ReviewInv, Reviewed, Kind(call) = "transaction", warnings = {}
               PROVE  SilenceIsVerified
    BY DEF SilenceIsVerified
  <2> DEFINE tx == Tx(call)
             signs == ~FeeBump(Envelope(call))
  <2>1. call \in Calls
    BY DEF ReviewInv, CallOK, Reviewed
  <2>2. FeeBump(Envelope(call)) => Sufficient(payer, Low)
    <3>1. FeeBump(Envelope(call)) => payer.exists /\ ~Overweighed(payer, Low)
      BY DEF ReviewInv, WarningsOK, PayerWarned
    <3>2. AnswerOK(payer) /\ Low \in Low .. High
      BY DEF ReviewInv, AnswersOK, Low, High
    <3> QED BY <3>1, <3>2, WeightSuffices
  <2>3. ASSUME Executes(tx), ~IsSoroban(tx)
        PROVE  /\ \A op \in ToSet(tx.operations) :
                      /\ op.type \in PayingTypes =>
                            /\ Found(op.destination)
                            /\ checks[op.destination].memoRequired => tx.memo[1] # "none"
                      /\ Found(SourceOf(op, tx))
                      /\ signs => SufficientFrom(checks[SourceOf(op, tx)], operationThreshold(op))
               /\ Found(tx.source)
               /\ signs => SufficientFrom(checks[tx.source], Low)
    <3>1. /\ PlainWarnings(tx) = {} /\ DOMAIN checks = Checked(tx)
          /\ \A a \in Destinations(tx) : DestinationWarnings(tx, a, checks[a]) = {}
          /\ \A a \in Sources(tx) : SourceWarnings(tx, a, checks[a], signs) = {}
      <4>1. AccountsWarned(tx, signs)
        BY <2>3 DEF ReviewInv, WarningsOK
      <4> QED BY <4>1 DEF AccountsWarned
    <3>2. Paid(tx) \subseteq Destinations(tx) /\ Acting(tx) \subseteq Sources(tx)
      <4>1. AllDestinations(tx) \subseteq Destinations(tx)
        BY <3>1 DEF PlainWarnings
      <4>2. AllSources(tx) \subseteq Sources(tx)
        BY <3>1 DEF PlainWarnings
      <4>3. Unresolvable(tx) = {}
        BY <3>1 DEF PlainWarnings
      <4> QED BY <4>1, <4>2, <4>3 DEF AllDestinations, AllSources, Unresolvable
    <3>3. ASSUME NEW a \in Destinations(tx)
          PROVE  Found(a) /\ (checks[a].memoRequired => tx.memo[1] # "none")
      <4>1. a \in DOMAIN checks
        BY <3>1 DEF Checked
      <4>2. checks[a].exists /\ ~(checks[a].memoRequired /\ tx.memo[1] = "none")
        BY <3>1 DEF DestinationWarnings
      <4> QED BY <4>1, <4>2 DEF Found
    <3>4. ASSUME NEW a \in Sources(tx)
          PROVE  /\ Found(a)
                 /\ \A level \in Low .. High :
                       signs /\ RequiredLevel(tx, a) \in level .. High
                         => SufficientFrom(checks[a], level)
      <4>1. a \in DOMAIN checks
        BY <3>1 DEF Checked
      <4>2. Found(a) /\ (signs => ~Overweighed(checks[a], RequiredLevel(tx, a)))
        <5> HIDE DEF signs
        <5> QED BY <2>1, <3>1, <4>1, SourceQuiet
      <4>3. ASSUME NEW level \in Low .. High, signs, RequiredLevel(tx, a) \in level .. High
            PROVE  SufficientFrom(checks[a], level)
        <5> DEFINE l == RequiredLevel(tx, a)
        <5>1. l \in Low .. High /\ l \in level .. High
          BY <4>3 DEF Low, High
        <5>2. AnswerOK(checks[a]) /\ checks[a].exists
          BY <4>1, <4>2 DEF ReviewInv, AnswersOK, Found
        <5>3. Sufficient(checks[a], l)
          <6> HIDE DEF l
          <6> QED BY <4>2, <4>3, <5>1, <5>2, WeightSuffices DEF l
        <5> HIDE DEF l
        <5> QED BY <5>1, <5>3 DEF SufficientFrom
      <4> QED BY <4>2, <4>3
    <3>5. ASSUME NEW op \in ToSet(tx.operations)
          PROVE  /\ op.type \in PayingTypes =>
                       /\ Found(op.destination)
                       /\ checks[op.destination].memoRequired => tx.memo[1] # "none"
                 /\ Found(SourceOf(op, tx))
                 /\ signs => SufficientFrom(checks[SourceOf(op, tx)], operationThreshold(op))
      <4>1. op.type \in PayingTypes => op.destination \in Destinations(tx)
        BY <3>2 DEF Paid
      <4>2. SourceOf(op, tx) \in Sources(tx)
        BY <3>2 DEF Acting
      <4>3. /\ operationThreshold(op) \in Low .. High
            /\ RequiredLevel(tx, SourceOf(op, tx)) \in operationThreshold(op) .. High
        BY <2>1, RequiredLevels DEF operationThreshold, Low, Medium, High
      <4> HIDE DEF tx, signs
      <4> QED BY <3>3, <3>4, <4>1, <4>2, <4>3
    <3>6. Found(tx.source) /\ (signs => SufficientFrom(checks[tx.source], Low))
      <4>1. tx.source \in Sources(tx)
        BY <3>2 DEF Acting
      <4>2. RequiredLevel(tx, tx.source) \in Low .. High /\ Low \in Low .. High
        BY <2>1, RequiredLevels DEF Low, High
      <4> HIDE DEF tx, signs
      <4> QED BY <3>4, <4>1, <4>2
    <3> HIDE DEF tx, signs
    <3> QED BY <3>5, <3>6
  <2> QED BY <2>2, <2>3 DEF SilenceIsVerified
<1> QED BY <1>1, ReviewSound, PTL

\* A row is shown under its label.
LEMMA RowUnderLabel ==
    ASSUME NEW label, NEW text
    PROVE  \E row \in ToSet(When(TRUE, Row(label, text))) : row.label = label
<1> DEFINE row == [label |-> label, text |-> text]
<1>1. When(TRUE, Row(label, text)) = <<row>> /\ row.label = label
  BY DEF When, Row
<1> HIDE DEF row
<1>2. row \in ToSet(<<row>>)
  <2>1. 1 \in DOMAIN <<row>> /\ <<row>>[1] = row
    OBVIOUS
  <2> QED BY <2>1 DEF ToSet
<1> QED BY <1>1, <1>2

\* The addresses that the entries name are finitely many.
LEMMA SignersFinite ==
    ASSUME NEW results
    PROVE  IsFiniteSet(SignersNamed(results))
<1> DEFINE positions == (1 .. MAX_SIM_RESULTS) \X (1 .. MAX_SIM_AUTH_PER_RESULT)
           read == EntriesRead(results)
           at == [p \in read |-> SignerAt(results, p)]
<1>1. IsFiniteSet(1 .. MAX_SIM_RESULTS) /\ IsFiniteSet(1 .. MAX_SIM_AUTH_PER_RESULT)
  BY ReportAssumption, FS_Interval
<1>2. IsFiniteSet(positions)
  BY <1>1, FS_Product
<1>3. read \subseteq positions
  BY DEF EntriesRead
<1>4. IsFiniteSet(read)
  <2> HIDE DEF positions, read
  <2> QED BY <1>2, <1>3, FS_Subset
<1>5. IsFiniteSet({at[p] : p \in read})
  <2> HIDE DEF at, read
  <2> QED BY <1>4, FiniteValues
<1>6. SignersNamed(results) \subseteq {at[p] : p \in read}
  BY DEF SignersNamed
<1> HIDE DEF at, read
<1> QED BY <1>5, <1>6, FS_Subset

\* A list that nothing was cut from names every address reported.
LEMMA SignersAreListed ==
    ASSUME NEW results \in Seq(Seq(STRING)), ~ReadAuth(results).truncated,
           NEW r \in DOMAIN results, NEW i \in DOMAIN results[r],
           results[r][i] \notin {"source", "undecodable"}
    PROVE  results[r][i] \in SignersListed(results)
<1> DEFINE a == results[r][i]
           named == SignersNamed(results)
           Sooner(p, q) == p[1] < q[1] \/ (p[1] = q[1] /\ p[2] < q[2])
           Before(b, d) ==
               \E p \in EntriesRead(results) :
                   /\ SignerAt(results, p) = b
                   /\ \A q \in EntriesRead(results) : SignerAt(results, q) = d => Sooner(p, q)
           earlier == {b \in named : Before(b, a)}
<1>1. /\ ~(Len(results) > MAX_SIM_RESULTS)
      /\ \A k \in DOMAIN results :
            k <= MAX_SIM_RESULTS => ~(Len(results[k]) > MAX_SIM_AUTH_PER_RESULT)
      /\ ~(Cardinality(named) > MAX_SIM_AUTH_SIGNERS)
  BY DEF ReadAuth
<1>2. /\ r \in 1 .. Len(results) /\ Len(results) \in Nat
      /\ results[r] \in Seq(STRING)
  OBVIOUS
<1>3. i \in 1 .. Len(results[r]) /\ Len(results[r]) \in Nat
  BY <1>2
<1>4. r \in 1 .. MAX_SIM_RESULTS
  BY <1>1, <1>2, ReportAssumption
<1>5. i \in 1 .. MAX_SIM_AUTH_PER_RESULT
  BY <1>1, <1>3, <1>4, ReportAssumption
<1>6. <<r, i>> \in EntriesRead(results) /\ SignerAt(results, <<r, i>>) = a
  BY <1>4, <1>5 DEF EntriesRead, SignerAt
<1>7. a \in named
  BY <1>6 DEF SignersNamed
<1>8. \A p \in EntriesRead(results) : ~Sooner(p, p)
  BY ReportAssumption DEF EntriesRead
<1>9. ~Before(a, a)
  BY <1>8
<1>10. IsFiniteSet(named) /\ Cardinality(named) \in Nat
  BY SignersFinite, FS_CardinalityType
<1>11. earlier \subseteq named \ {a}
  BY <1>9
<1>12. IsFiniteSet(named \ {a}) /\ Cardinality(named \ {a}) = Cardinality(named) - 1
  <2> HIDE DEF named, a
  <2> QED BY <1>7, <1>10, FS_RemoveElement
<1>13. IsFiniteSet(earlier) /\ Cardinality(earlier) <= Cardinality(named \ {a})
  <2> HIDE DEF earlier, named, a
  <2> QED BY <1>11, <1>12, FS_Subset
<1>14. Cardinality(earlier) \in Nat
  BY <1>13, FS_CardinalityType
<1>15. Cardinality(earlier) < MAX_SIM_AUTH_SIGNERS
  <2> HIDE DEF earlier, named, a
  <2> QED BY <1>1, <1>10, <1>12, <1>13, <1>14, ReportAssumption
<1> QED BY <1>7, <1>15 DEF SignersListed, Leading

\* Every address a simulation reports to authorize the call is listed, or the
\* list is said to be incomplete (simulateForDisplay).
THEOREM SignersAreDisclosed == Spec => []SignersDisclosed
<1>1. ReviewInv => SignersDisclosed
  <2> SUFFICES ASSUME ReviewInv, simulation.ok, ~ShowsRow("Signer list incomplete")
               PROVE  \A result \in ToSet(report.results) :
                         ToSet(result) \subseteq simulation.signers \cup {"source", "undecodable"}
    BY DEF SignersDisclosed
  <2>1. report \in Reports /\ simulation = simulateForDisplay(report, call.address)
    BY DEF ReviewInv, SimulationOK
  <2>2. report.results \in Seq(Seq(STRING))
    BY <2>1, ReportAssumption
  <2>3. /\ simulation.signers = ReadAuth(report.results).signers
        /\ simulation.signersTruncated = ReadAuth(report.results).truncated
    <3>1. report.ok
      BY <2>1 DEF simulateForDisplay, NoSimulation
    <3> QED BY <2>1, <3>1 DEF simulateForDisplay
  <2>4. ~simulation.signersTruncated
    <3>1. SUFFICES ASSUME simulation.signersTruncated PROVE FALSE
      OBVIOUS
    <3>2. ToSet(When(TRUE, Row("Signer list incomplete", << >>))) \subseteq ShownSimulation
      BY <3>1 DEF ShownSimulation, renderSimulation, When
    <3>3. ShowsRow("Signer list incomplete")
      BY <3>2, RowUnderLabel DEF ShowsRow
    <3> QED BY <3>3
  <2>5. simulation.signers = SignersListed(report.results)
    BY <2>3 DEF ReadAuth
  <2>6. ASSUME NEW r \in DOMAIN report.results, NEW i \in DOMAIN report.results[r],
               report.results[r][i] \notin {"source", "undecodable"}
        PROVE  report.results[r][i] \in simulation.signers
    BY <2>2, <2>3, <2>4, <2>5, <2>6, SignersAreListed
  <2> QED BY <2>6 DEF ToSet
<1> QED BY <1>1, ReviewSound, PTL

-----------------------------------------------------------------------------
(***************************************************************************)
(* Sums and orders.  Induction is over the least number that a fact fails  *)
(* of.                                                                     *)
(***************************************************************************)

\* The sums of the first numbers of a sequence.
Sums(numbers, k, sums) ==
    sums \in [0 .. k -> Int] /\ sums[0] = 0
    /\ \A n \in 1 .. k : sums[n] = sums[n - 1] + numbers[n]

LEMMA SumsExist ==
    ASSUME NEW numbers \in Seq(Int), NEW k \in 0 .. Len(numbers)
    PROVE  \E sums : Sums(numbers, k, sums)
<1> DEFINE bad == {n \in 0 .. Len(numbers) : ~\E sums : Sums(numbers, n, sums)}
<1>1. SUFFICES ASSUME bad # {} PROVE FALSE
  OBVIOUS
<1>2. bad \subseteq Nat
  OBVIOUS
<1>3. PICK n \in bad : \A m \in bad : n <= m
  <2> HIDE DEF bad
  <2> QED BY <1>1, <1>2, LeastNatural
<1>4. n \in 0 .. Len(numbers) /\ n \in Nat /\ ~\E sums : Sums(numbers, n, sums)
  OBVIOUS
<1>5. CASE n = 0
  <2> DEFINE sums == [m \in 0 .. 0 |-> 0]
  <2>1. Sums(numbers, 0, sums)
    BY DEF Sums
  <2> QED BY <1>4, <1>5, <2>1
<1>6. CASE n # 0
  <2>1. n - 1 \in 0 .. Len(numbers)
    BY <1>4, <1>6
  <2>2. PICK sums : Sums(numbers, n - 1, sums)
    <3>1. n - 1 \notin bad
      <4> HIDE DEF bad
      <4> QED BY <1>3, <1>4
    <3> QED BY <2>1, <3>1
  <2> DEFINE more == [m \in 0 .. n |-> IF m = n THEN sums[n - 1] + numbers[n] ELSE sums[m]]
  <2>3. sums \in [0 .. n - 1 -> Int] /\ sums[0] = 0
        /\ \A m \in 1 .. n - 1 : sums[m] = sums[m - 1] + numbers[m]
    BY <2>2 DEF Sums
  <2>4. numbers[n] \in Int /\ sums[n - 1] \in Int
    BY <1>4, <1>6, <2>3
  <2>5. more \in [0 .. n -> Int] /\ more[0] = 0
    BY <1>4, <1>6, <2>3, <2>4
  <2>6. ASSUME NEW m \in 1 .. n PROVE more[m] = more[m - 1] + numbers[m]
    <3>1. CASE m = n
      BY <1>4, <1>6, <2>3, <3>1
    <3>2. CASE m # n
      <4>1. m \in 1 .. n - 1 /\ m - 1 \in 0 .. n /\ m \in 0 .. n /\ m - 1 # n
        BY <1>4, <3>2
      <4>2. more[m] = sums[m] /\ more[m - 1] = sums[m - 1]
        BY <3>2, <4>1
      <4> QED BY <2>3, <4>1, <4>2
    <3> QED BY <3>1, <3>2
  <2>7. Sums(numbers, n, more)
    <3> HIDE DEF more
    <3> QED BY <2>5, <2>6 DEF Sums
  <2> QED BY <1>4, <2>7
<1> QED BY <1>5, <1>6

\* A total is the last of the sums.
LEMMA TotalIsLast ==
    ASSUME NEW numbers \in Seq(Int)
    PROVE  \E sums : Sums(numbers, Len(numbers), sums) /\ Total(numbers) = sums[Len(numbers)]
<1> DEFINE N == Len(numbers)
           Step(f) == [n \in 0 .. N |-> IF n = 0 THEN 0 ELSE f[n - 1] + numbers[n]]
           upTo == CHOOSE f : f = Step(f)
<1>1. N \in Nat
  OBVIOUS
<1>2. PICK sums : Sums(numbers, N, sums)
  BY <1>1, SumsExist
<1>3. sums = Step(sums)
  BY <1>1, <1>2 DEF Sums
<1>4. upTo = Step(upTo)
  BY <1>3
<1>5. Total(numbers) = upTo[N]
  BY DEF Total
<1> HIDE DEF upTo
<1>6. /\ upTo[0] = 0
      /\ \A n \in 1 .. N : upTo[n] = upTo[n - 1] + numbers[n]
      /\ DOMAIN upTo = 0 .. N
  BY <1>1, <1>4
<1> DEFINE bad == {n \in 0 .. N : upTo[n] # sums[n]}
<1>7. CASE bad = {}
  <2>1. upTo[N] = sums[N]
    BY <1>1, <1>7
  <2> QED BY <1>2, <1>5, <2>1
<1>8. CASE bad # {}
  <2>1. bad \subseteq Nat
    BY <1>1
  <2>2. PICK n \in bad : \A m \in bad : n <= m
    <3> HIDE DEF bad
    <3> QED BY <1>8, <2>1, LeastNatural
  <2>3. n \in 0 .. N /\ upTo[n] # sums[n]
    OBVIOUS
  <2>4. n # 0
    BY <1>2, <1>6, <2>3 DEF Sums
  <2>5. n \in 1 .. N /\ n - 1 \in 0 .. N /\ n - 1 \notin bad
    BY <1>1, <2>2, <2>3, <2>4
  <2>6. upTo[n - 1] = sums[n - 1]
    BY <2>5
  <2>7. upTo[n] = sums[n]
    BY <1>2, <1>6, <2>5, <2>6 DEF Sums
  <2> QED BY <2>3, <2>7
<1> QED BY <1>7, <1>8

\* Integers have an integer for their total, and zeros have zero.
LEMMA TotalTyped ==
    ASSUME NEW numbers \in Seq(Int)
    PROVE  /\ Total(numbers) \in Int
           /\ (\A n \in DOMAIN numbers : numbers[n] = 0) => Total(numbers) = 0
<1> DEFINE N == Len(numbers)
<1>1. N \in Nat /\ DOMAIN numbers = 1 .. N
  OBVIOUS
<1>2. PICK sums : Sums(numbers, N, sums) /\ Total(numbers) = sums[N]
  BY TotalIsLast
<1>3. Total(numbers) \in Int
  BY <1>1, <1>2 DEF Sums
<1>4. ASSUME \A n \in DOMAIN numbers : numbers[n] = 0
      PROVE  Total(numbers) = 0
  <2> DEFINE bad == {n \in 0 .. N : sums[n] # 0}
  <2>1. CASE bad = {}
    BY <1>1, <1>2, <2>1
  <2>2. CASE bad # {}
    <3>1. bad \subseteq Nat
      BY <1>1
    <3>2. PICK n \in bad : \A m \in bad : n <= m
      <4> HIDE DEF bad
      <4> QED BY <2>2, <3>1, LeastNatural
    <3>3. n \in 0 .. N /\ sums[n] # 0
      OBVIOUS
    <3>4. n # 0
      BY <1>2, <3>3 DEF Sums
    <3>5. n \in 1 .. N /\ n - 1 \in 0 .. N /\ n - 1 \notin bad
      BY <1>1, <3>2, <3>3, <3>4
    <3>6. sums[n - 1] = 0
      BY <3>5
    <3>7. numbers[n] = 0
      BY <1>1, <1>4, <3>5
    <3>8. sums[n] = sums[n - 1] + numbers[n]
      BY <1>2, <3>5 DEF Sums
    <3> QED BY <3>3, <3>6, <3>7, <3>8
  <2> QED BY <2>1, <2>2
<1> QED BY <1>3, <1>4

\* A strict total order.
Orders(R, T) ==
    /\ \A t \in T : <<t, t>> \notin R
    /\ \A s, t \in T : s = t \/ <<s, t>> \in R \/ <<t, s>> \in R
    /\ \A s, t, u \in T : <<s, t>> \in R /\ <<t, u>> \in R => <<s, u>> \in R

\* A finite set can be put in order.
LEMMA PutInOrder ==
    ASSUME NEW T, IsFiniteSet(T), NEW R, Orders(R, T)
    PROVE  \E f \in [1 .. Cardinality(T) -> T] :
              \A i, j \in 1 .. Cardinality(T) : i < j => <<f[i], f[j]>> \in R
<1> DEFINE n == Cardinality(T)
           Below(t) == {u \in T : <<u, t>> \in R}
           rank == [t \in T |-> Cardinality(Below(t)) + 1]
<1>1. n \in Nat
  BY FS_CardinalityType
<1>2. ASSUME NEW t \in T
      PROVE  IsFiniteSet(Below(t)) /\ Cardinality(Below(t)) \in 0 .. n - 1
  <2> DEFINE b == Below(t)
  <2>1. b \subseteq T \ {t}
    BY DEF Orders
  <2>2. IsFiniteSet(T \ {t}) /\ Cardinality(T \ {t}) = n - 1
    BY FS_RemoveElement
  <2> HIDE DEF b
  <2>3. IsFiniteSet(b) /\ Cardinality(b) <= n - 1
    BY <2>1, <2>2, FS_Subset
  <2>4. Cardinality(b) \in Nat
    BY <2>3, FS_CardinalityType
  <2>5. Cardinality(b) \in 0 .. n - 1
    BY <1>1, <2>3, <2>4
  <2> QED BY <2>3, <2>5 DEF b
<1>3. ASSUME NEW s \in T, NEW t \in T, <<s, t>> \in R
      PROVE  rank[s] < rank[t]
  <2> DEFINE b == Below(s)
             d == Below(t)
  <2>1. b \subseteq d \ {s} /\ s \in d
    BY <1>3 DEF Orders
  <2>2. IsFiniteSet(d) /\ Cardinality(d) \in Nat /\ IsFiniteSet(b) /\ Cardinality(b) \in Nat
    BY <1>1, <1>2
  <2>3. rank[s] = Cardinality(b) + 1 /\ rank[t] = Cardinality(d) + 1
    OBVIOUS
  <2> HIDE DEF b, d, rank
  <2>4. IsFiniteSet(d \ {s}) /\ Cardinality(d \ {s}) = Cardinality(d) - 1
    BY <2>1, <2>2, FS_RemoveElement
  <2>5. Cardinality(b) <= Cardinality(d \ {s})
    BY <2>1, <2>4, FS_Subset
  <2> QED BY <2>2, <2>3, <2>4, <2>5
<1>4. rank \in [T -> 1 .. n]
  <2>1. ASSUME NEW t \in T PROVE Cardinality(Below(t)) + 1 \in 1 .. n
    <3> DEFINE k == Cardinality(Below(t))
    <3>1. k \in 0 .. n - 1
      BY <1>2
    <3> HIDE DEF k
    <3>2. k + 1 \in 1 .. n
      BY <1>1, <3>1
    <3> QED BY <3>2 DEF k
  <2> HIDE DEF n
  <2> QED BY <2>1
<1> HIDE DEF rank
<1>5. \A s, t \in T : rank[s] = rank[t] => s = t
  <2>1. ASSUME NEW s \in T, NEW t \in T, s # t PROVE rank[s] # rank[t]
    <3>1. rank[s] \in 1 .. n /\ rank[t] \in 1 .. n
      BY <1>4
    <3>2. rank[s] < rank[t] \/ rank[t] < rank[s]
      BY <1>3, <2>1 DEF Orders
    <3> QED BY <1>1, <3>1, <3>2
  <2> QED BY <2>1
<1>6. rank \in Injection(T, 1 .. n)
  BY <1>4, <1>5 DEF Injection, IsInjective
<1>7. IsFiniteSet(1 .. n) /\ Cardinality(1 .. n) = n
  BY <1>1, FS_Interval
<1>8. rank \in Surjection(T, 1 .. n)
  BY <1>6, <1>7, FS_Injection
<1>9. \A i \in 1 .. n : \E t \in T : rank[t] = i
  BY <1>8 DEF Surjection
<1> DEFINE f == [i \in 1 .. n |-> CHOOSE t \in T : rank[t] = i]
<1>10. \A i \in 1 .. n : f[i] \in T /\ rank[f[i]] = i
  BY <1>9
<1>11. f \in [1 .. n -> T]
  BY <1>10
<1>12. ASSUME NEW i \in 1 .. n, NEW j \in 1 .. n, i < j
       PROVE  <<f[i], f[j]>> \in R
  <2>1. f[i] \in T /\ f[j] \in T /\ rank[f[i]] = i /\ rank[f[j]] = j
    BY <1>10
  <2> HIDE DEF f
  <2>2. f[i] # f[j] /\ ~(rank[f[j]] < rank[f[i]])
    BY <1>1, <1>12, <2>1
  <2>3. <<f[j], f[i]>> \notin R
    BY <1>3, <2>1, <2>2
  <2> QED BY <2>1, <2>2, <2>3 DEF Orders
<1> HIDE DEF f
<1> QED BY <1>11, <1>12

\* A set in order is all there.
LEMMA OrderIsWhole ==
    ASSUME NEW T, IsFiniteSet(T), NEW R, Orders(R, T), NEW f \in [1 .. Cardinality(T) -> T],
           \A i, j \in 1 .. Cardinality(T) : i < j => <<f[i], f[j]>> \in R
    PROVE  \A t \in T : \E i \in 1 .. Cardinality(T) : f[i] = t
<1> DEFINE n == Cardinality(T)
<1>1. n \in Nat
  BY FS_CardinalityType
<1>2. \A i, j \in 1 .. n : f[i] = f[j] => i = j
  <2>1. ASSUME NEW i \in 1 .. n, NEW j \in 1 .. n, i < j PROVE f[i] # f[j]
    BY <2>1 DEF Orders
  <2> HIDE DEF n
  <2> QED BY <1>1, <2>1
<1>3. f \in Injection(1 .. n, T)
  BY <1>2 DEF Injection, IsInjective
<1>4. IsFiniteSet(1 .. n) /\ Cardinality(1 .. n) = Cardinality(T)
  BY <1>1, FS_Interval
<1>5. f \in Surjection(1 .. n, T)
  BY <1>3, <1>4, FS_Injection
<1> QED BY <1>5 DEF Surjection

-----------------------------------------------------------------------------
(***************************************************************************)
(* The balance changes.                                                    *)
(***************************************************************************)

\* Events whose amounts are integers, from contracts that are no asset's name.
EventsOK(events) ==
    /\ events \in Seq(ToSet(events))
    /\ \A event \in ToSet(events) : event.amount \in Int /\ event.contract \notin DOMAIN SacOf

\* What the events move of a contract's asset, event by event.
Parts(events, account, contract) ==
    [i \in DOMAIN events |->
        IF i \in Moves(events, account, contract) THEN Counted(events[i], account) ELSE 0]

\* An event adds an integer to its tally.
LEMMA PartsTyped ==
    ASSUME NEW events, EventsOK(events), NEW account, NEW contract
    PROVE  /\ DOMAIN events = 1 .. Len(events) /\ Len(events) \in Nat
           /\ Parts(events, account, contract) \in Seq(Int)
<1>1. DOMAIN events = 1 .. Len(events) /\ Len(events) \in Nat
  BY DEF EventsOK
<1>2. \A i \in DOMAIN events : events[i].amount \in Int
  BY DEF EventsOK, ToSet
<1>3. \A i \in DOMAIN events : Delta(events[i], account) \in Int
  BY <1>2 DEF Delta
<1>4. \A i \in DOMAIN events : Counted(events[i], account) \in Int
  BY <1>3 DEF Counted
<1>5. Parts(events, account, contract) \in [1 .. Len(events) -> Int]
  BY <1>1, <1>4 DEF Parts
<1>6. Parts(events, account, contract) \in Seq(Int)
  BY <1>1, <1>5
<1> QED BY <1>1, <1>6

\* A tally is of its contract, from its first movement, under a name that is
\* the contract's.
LEMMA TallyIs ==
    ASSUME NEW events, EventsOK(events), NEW account, NEW c \in Moving(events, account)
    PROVE  LET t == Tally(events, account, c)
           IN /\ t.contract = c /\ ContractOf(t.asset.identity) = c
              /\ t.first \in DOMAIN events /\ events[t.first].contract = c
              /\ t.delta \in Int /\ t.delta = Total(Parts(events, account, c))
              /\ c \in {event.contract : event \in ToSet(events)}
<1> DEFINE moves == Moves(events, account, c)
           first == Min(moves)
           t == Tally(events, account, c)
<1>1. moves \subseteq DOMAIN events /\ \A i \in moves : events[i].contract = c
  BY DEF Moves, Read
<1>2. moves # {}
  BY DEF Moving, Moves
<1>3. moves \subseteq Nat
  BY <1>1, PartsTyped
<1>4. first \in moves
  <2> HIDE DEF moves
  <2> QED BY <1>2, <1>3, MinOfNaturals
<1>5. /\ t.contract = c /\ t.first = first
      /\ t.delta = Total(Parts(events, account, c))
      /\ t.asset = resolveAsset(events[first].topic, c)
  BY DEF Tally, Parts
<1> HIDE DEF t, moves, first
<1>6. first \in DOMAIN events /\ events[first].contract = c
  BY <1>1, <1>4
<1>7. events[first] \in ToSet(events)
  BY <1>6 DEF ToSet
<1>8. c \notin DOMAIN SacOf
  BY <1>6, <1>7 DEF EventsOK
<1>9. ContractOf(t.asset.identity) = c
  <2> DEFINE topic == events[first].topic
  <2>1. CASE topic \in DOMAIN SacOf /\ SacOf[topic] = c
    BY <1>5, <2>1 DEF resolveAsset, ContractOf
  <2>2. CASE ~(topic \in DOMAIN SacOf /\ SacOf[topic] = c)
    BY <1>5, <1>8, <2>2 DEF resolveAsset, ContractOf
  <2> QED BY <2>1, <2>2
<1>10. t.delta \in Int
  BY <1>5, PartsTyped, TotalTyped
<1> QED BY <1>5, <1>6, <1>7, <1>9, <1>10 DEF t

\* The tallies that are shown.
Shown(events, account) == {t \in Tallies(events, account) : t.delta # 0}

\* They are tallies of contracts, finitely many, one for each.
LEMMA ShownTallies ==
    ASSUME NEW events, EventsOK(events), NEW account
    PROVE  /\ IsFiniteSet(Moving(events, account))
           /\ LET all == {Tally(events, account, c) : c \in Moving(events, account)}
              IN /\ IsFiniteSet(all) /\ Cardinality(all) <= Cardinality(Moving(events, account))
                 /\ Tallies(events, account) \subseteq all
           /\ IsFiniteSet(Shown(events, account))
<1> DEFINE moving == Moving(events, account)
           positions == {j \in Read(events) : Counted(events[j], account) # 0}
           contract == [i \in positions |-> events[i].contract]
           tally == [c \in moving |-> Tally(events, account, c)]
           all == {Tally(events, account, c) : c \in moving}
<1>1. IsFiniteSet(positions)
  <2>1. positions \subseteq 1 .. Len(events)
    BY PartsTyped DEF Read
  <2>2. IsFiniteSet(1 .. Len(events))
    BY PartsTyped, FS_Interval
  <2> HIDE DEF positions
  <2> QED BY <2>1, <2>2, FS_Subset
<1>2. IsFiniteSet({contract[i] : i \in positions})
  <2> HIDE DEF contract, positions
  <2> QED BY <1>1, FiniteValues
<1>3. moving = {contract[i] : i \in positions}
  BY DEF Moving
<1>4. IsFiniteSet(moving)
  BY <1>2, <1>3
<1>5. tally \in Surjection(moving, all)
  <2> HIDE DEF moving
  <2> QED BY DEF Surjection
<1>6. IsFiniteSet(all) /\ Cardinality(all) <= Cardinality(moving)
  <2> HIDE DEF all, moving, tally
  <2> QED BY <1>4, <1>5, FS_Surjection
<1>7. Tallies(events, account) \subseteq all
  BY DEF Tallies, Leading
<1>8. Shown(events, account) \subseteq all
  BY <1>7 DEF Shown
<1>9. IsFiniteSet(Shown(events, account))
  <2> HIDE DEF all
  <2> QED BY <1>6, <1>8, FS_Subset
<1> QED BY <1>4, <1>6, <1>7, <1>9

\* Ranks of the tallies shown are in a strict total order.
LEMMA RanksOrder ==
    ASSUME NEW events, EventsOK(events), NEW account
    PROVE  LET shown == Shown(events, account)
           IN Orders({p \in shown \X shown : Outranks(p[1], p[2])}, shown)
<1> DEFINE shown == Shown(events, account)
           R == {p \in shown \X shown : Outranks(p[1], p[2])}
<1>1. \A t \in shown : \E c \in Moving(events, account) : t = Tally(events, account, c)
  BY ShownTallies DEF Shown
<1>2. \A t \in shown : t.delta \in Int /\ t.first \in Nat
  BY <1>1, TallyIs, PartsTyped
<1>3. \A s, t \in shown : s.first = t.first => s = t
  BY <1>1, TallyIs
<1>4. \A s, t \in shown : <<s, t>> \in R <=> Outranks(s, t)
  OBVIOUS
<1> HIDE DEF shown, R
<1>5. \A t \in shown : <<t, t>> \notin R
  BY <1>2, <1>4 DEF Outranks
<1>6. ASSUME NEW s \in shown, NEW t \in shown, s # t
      PROVE  <<s, t>> \in R \/ <<t, s>> \in R
  <2>1. s.first < t.first \/ t.first < s.first
    BY <1>2, <1>3, <1>6
  <2>2. CASE s.delta < 0 <=> t.delta < 0
    BY <1>4, <2>1, <2>2 DEF Outranks
  <2>3. CASE ~(s.delta < 0 <=> t.delta < 0)
    BY <1>4, <2>3 DEF Outranks
  <2> QED BY <2>2, <2>3
<1>7. ASSUME NEW s \in shown, NEW t \in shown, NEW u \in shown,
             <<s, t>> \in R, <<t, u>> \in R
      PROVE  <<s, u>> \in R
  BY <1>2, <1>4, <1>7 DEF Outranks
<1> QED BY <1>5, <1>6, <1>7 DEF Orders, R, shown

\* The changes are the tallies that are shown, in order.
LEMMA ChangesAreShown ==
    ASSUME NEW events, EventsOK(events), NEW account
    PROVE  LET shown   == Shown(events, account)
               changes == summarizeBalanceChanges(events, account).changes
           IN /\ \A i \in DOMAIN changes : changes[i] \in shown
              /\ \A t \in shown : \E i \in DOMAIN changes : changes[i] = t
              /\ \A i, j \in DOMAIN changes :
                    i < j => changes[i] # changes[j] /\ Outranks(changes[i], changes[j])
<1> DEFINE shown == Shown(events, account)
           n == Cardinality(shown)
           R == {p \in shown \X shown : Outranks(p[1], p[2])}
           changes == summarizeBalanceChanges(events, account).changes
<1>1. IsFiniteSet(shown) /\ n \in Nat
  BY ShownTallies, FS_CardinalityType
<1>2. Orders(R, shown)
  BY RanksOrder
<1>3. changes = CHOOSE s \in [1 .. n -> shown] :
                   \A i, j \in DOMAIN s : i < j => Outranks(s[i], s[j])
  BY DEF summarizeBalanceChanges, Shown
<1>4. \A s, t \in shown : <<s, t>> \in R <=> Outranks(s, t)
  OBVIOUS
<1> HIDE DEF shown, R
<1>5. PICK f \in [1 .. n -> shown] : \A i, j \in 1 .. n : i < j => <<f[i], f[j]>> \in R
  BY <1>1, <1>2, PutInOrder
<1>6. \A i, j \in DOMAIN f : i < j => Outranks(f[i], f[j])
  BY <1>4, <1>5
<1>7. /\ changes \in [1 .. n -> shown]
      /\ \A i, j \in DOMAIN changes : i < j => Outranks(changes[i], changes[j])
  <2> HIDE DEF changes, n
  <2> QED BY <1>3, <1>6
<1> HIDE DEF changes
<1>8. \A i, j \in 1 .. n : i < j => <<changes[i], changes[j]>> \in R
  BY <1>4, <1>7
<1>9. \A t \in shown : \E i \in 1 .. n : changes[i] = t
  BY <1>1, <1>2, <1>7, <1>8, OrderIsWhole
<1>10. \A i, j \in 1 .. n : i < j => changes[i] # changes[j]
  BY <1>2, <1>7, <1>8 DEF Orders
<1> QED BY <1>7, <1>9, <1>10 DEF changes, shown

\* When nothing was left unread, what counts for a tally is what the events say.
LEMMA PartsAreWhole ==
    ASSUME NEW events, EventsOK(events), NEW account, NEW c,
           ~summarizeBalanceChanges(events, account).partial
    PROVE  Parts(events, account, c) =
             [i \in DOMAIN events |->
                IF events[i].form = "contract" /\ events[i].contract = c
                     /\ events[i].kind \in BALANCE_EVENT_KINDS
                THEN (IF toMovement(events[i]).to = account THEN events[i].amount ELSE 0)
                     - (IF toMovement(events[i]).from = account THEN events[i].amount ELSE 0)
                ELSE 0]
<1>1. /\ ~(Len(events) > MAX_EVENTS)
      /\ \A i \in Read(events) : ~(Relevant(events[i]) /\ Unreadable(events[i]))
  BY DEF summarizeBalanceChanges
<1>2. Read(events) = DOMAIN events
  <2>1. DOMAIN events = 1 .. Len(events) /\ Len(events) \in Nat
    BY PartsTyped
  <2>2. \A i \in DOMAIN events : i <= MAX_EVENTS
    BY <1>1, <2>1, MovementsAssumption
  <2> QED BY <2>2 DEF Read
<1>3. ASSUME NEW i \in DOMAIN events
      PROVE  (IF i \in Moves(events, account, c) THEN Counted(events[i], account) ELSE 0) =
                IF events[i].form = "contract" /\ events[i].contract = c
                     /\ events[i].kind \in BALANCE_EVENT_KINDS
                THEN Delta(events[i], account) ELSE 0
  <2>1. CASE events[i].contract # c
    BY <2>1 DEF Moves
  <2>2. CASE events[i].contract = c
    <3>1. (IF i \in Moves(events, account, c) THEN Counted(events[i], account) ELSE 0)
             = Counted(events[i], account)
      BY <1>2, <2>2 DEF Moves
    <3>2. CASE events[i].form = "contract" /\ events[i].kind \in BALANCE_EVENT_KINDS
      <4>1. Relevant(events[i]) /\ ~Unreadable(events[i])
        BY <1>1, <1>2, <3>2 DEF Relevant
      <4> QED BY <2>2, <3>1, <3>2, <4>1 DEF Counted
    <3>3. CASE ~(events[i].form = "contract" /\ events[i].kind \in BALANCE_EVENT_KINDS)
      <4>1. ~(Relevant(events[i]) /\ ~Unreadable(events[i]))
        BY <3>3 DEF Relevant, Unreadable
      <4> QED BY <3>1, <3>3, <4>1 DEF Counted
    <3> QED BY <3>2, <3>3
  <2> QED BY <2>1, <2>2
<1> QED BY <1>3 DEF Parts, Delta

\* When nothing was left out, every contract that moves something has a tally.
LEMMA TalliesAreWhole ==
    ASSUME NEW events, EventsOK(events), NEW account,
           ~summarizeBalanceChanges(events, account).partial,
           NEW c \in Moving(events, account)
    PROVE  Tally(events, account, c) \in Tallies(events, account)
<1> DEFINE moving == Moving(events, account)
           all == {Tally(events, account, d) : d \in moving}
           t == Tally(events, account, c)
           sooner == {s \in all : s.first < t.first}
<1>1. ~(Cardinality(moving) > MAX_BALANCE_ASSETS)
  BY DEF summarizeBalanceChanges
<1>2. /\ IsFiniteSet(moving) /\ IsFiniteSet(all) /\ Cardinality(all) <= Cardinality(moving)
  BY ShownTallies
<1>3. t \in all
  OBVIOUS
<1>4. t.first \in Nat
  BY TallyIs, PartsTyped
<1>5. sooner \subseteq all \ {t}
  BY <1>4
<1> HIDE DEF all, t, moving
<1>6. IsFiniteSet(all \ {t}) /\ Cardinality(all \ {t}) = Cardinality(all) - 1
  BY <1>2, <1>3, FS_RemoveElement
<1>7. IsFiniteSet(sooner) /\ Cardinality(sooner) <= Cardinality(all \ {t})
  <2> HIDE DEF sooner
  <2> QED BY <1>5, <1>6, FS_Subset
<1>8. Cardinality(sooner) \in Nat /\ Cardinality(all) \in Nat /\ Cardinality(moving) \in Nat
  BY <1>2, <1>7, FS_CardinalityType
<1>9. Cardinality(sooner) < MAX_BALANCE_ASSETS
  <2> HIDE DEF sooner
  <2> QED BY <1>1, <1>2, <1>6, <1>7, <1>8, MovementsAssumption
<1> QED BY <1>3, <1>9 DEF Tallies, Leading, all, t, moving

\* The balance changes are those of the events (summarizeBalanceChanges).
THEOREM BalanceRowsAreTrue == Spec => []BalanceRowsTrue
<1>1. ReviewInv => BalanceRowsTrue
  <2> SUFFICES ASSUME ReviewInv, simulation.ok PROVE BalanceRowsTrue
    BY DEF BalanceRowsTrue
  <2> DEFINE events == report.events
             account == call.address
             changes == simulation.changes
             shown == Shown(events, account)
             Contract(i) == ContractOf(changes[i].asset.identity)
             moved == {c \in {event.contract : event \in ToSet(events)} : Net(c) # 0}
  <2>1. report \in Reports /\ simulation = simulateForDisplay(report, account)
    BY DEF ReviewInv, SimulationOK
  <2>2. EventsOK(events)
    BY <2>1, ReportAssumption DEF EventsOK
  <2>3. /\ changes = summarizeBalanceChanges(events, account).changes
        /\ simulation.partial = summarizeBalanceChanges(events, account).partial
    <3>1. report.ok
      BY <2>1 DEF simulateForDisplay, NoSimulation
    <3> QED BY <2>1, <3>1 DEF simulateForDisplay
  <2>4. /\ \A i \in DOMAIN changes : changes[i] \in shown
        /\ \A t \in shown : \E i \in DOMAIN changes : changes[i] = t
        /\ \A i, j \in DOMAIN changes :
              i < j => changes[i] # changes[j] /\ Outranks(changes[i], changes[j])
    BY <2>2, <2>3, ChangesAreShown
  <2>5. \A t \in shown :
           \E c \in Moving(events, account) : t = Tally(events, account, c)
    BY <2>2, ShownTallies DEF Shown
  <2>6. \A t \in shown :
           /\ t.delta \in Int /\ t.delta # 0 /\ t = Tally(events, account, t.contract)
           /\ ContractOf(t.asset.identity) = t.contract
           /\ t.delta = Total(Parts(events, account, t.contract))
           /\ t.contract \in {event.contract : event \in ToSet(events)}
    BY <2>2, <2>5, TallyIs DEF Shown
  <2>7. \A i \in DOMAIN changes : Contract(i) = changes[i].contract
    BY <2>4, <2>6
  <2>8. ASSUME NEW i \in DOMAIN changes, NEW j \in DOMAIN changes, i < j
        PROVE  Contract(i) # Contract(j) /\ (changes[i].delta > 0 => changes[j].delta > 0)
    <3>1. changes[i] # changes[j] /\ Outranks(changes[i], changes[j])
          /\ changes[i] \in shown /\ changes[j] \in shown
      BY <2>4, <2>8
    <3> HIDE DEF changes, shown
    <3>2. changes[i].contract # changes[j].contract
      BY <2>6, <3>1
    <3>3. changes[i].delta > 0 => changes[j].delta > 0
      BY <2>6, <3>1 DEF Outranks
    <3> QED BY <2>7, <3>2, <3>3
  <2>9. ASSUME ~ShowsRow("Movements may be missing")
        PROVE  /\ \A i \in DOMAIN changes : changes[i].delta = Net(Contract(i))
               /\ {Contract(i) : i \in DOMAIN changes} = moved
    <3>1. ~simulation.partial
      <4>1. SUFFICES ASSUME simulation.partial PROVE FALSE
        OBVIOUS
      <4>2. ToSet(When(TRUE, Row("Movements may be missing", << >>))) \subseteq ShownSimulation
        BY <4>1 DEF ShownSimulation, renderSimulation, renderBalanceChanges, When
      <4>3. ShowsRow("Movements may be missing")
        BY <4>2, RowUnderLabel DEF ShowsRow
      <4> QED BY <2>9, <4>3
    <3>2. ~summarizeBalanceChanges(events, account).partial
      BY <2>3, <3>1
    <3>3. \A c : Net(c) = Total(Parts(events, account, c))
      BY <2>2, <3>2, PartsAreWhole DEF Net
    <3>4. \A i \in DOMAIN changes : changes[i].delta = Net(Contract(i)) /\ Contract(i) \in moved
      BY <2>4, <2>6, <2>7, <3>3
    <3>5. ASSUME NEW c \in moved
          PROVE  \E i \in DOMAIN changes : Contract(i) = c
      <4>1. c \in Moving(events, account)
        <5>1. SUFFICES ASSUME c \notin Moving(events, account) PROVE FALSE
          OBVIOUS
        <5>2. Moves(events, account, c) = {}
          BY <5>1 DEF Moves, Moving
        <5>3. \A i \in DOMAIN Parts(events, account, c) : Parts(events, account, c)[i] = 0
          BY <5>2 DEF Parts
        <5>4. Total(Parts(events, account, c)) = 0
          BY <2>2, <5>3, PartsTyped, TotalTyped
        <5> QED BY <3>3, <5>4
      <4> DEFINE t == Tally(events, account, c)
      <4>2. t \in Tallies(events, account)
        BY <2>2, <3>2, <4>1, TalliesAreWhole
      <4>3. t.delta = Total(Parts(events, account, c)) /\ t.contract = c
        BY <2>2, <4>1, TallyIs
      <4>4. t \in shown
        BY <3>3, <4>2, <4>3 DEF Shown
      <4>5. PICK i \in DOMAIN changes : changes[i] = t
        BY <2>4, <4>4
      <4> QED BY <2>7, <4>3, <4>5
    <3> QED BY <3>4, <3>5
  <2> QED BY <2>8, <2>9 DEF BalanceRowsTrue
<1> QED BY <1>1, ReviewSound, PTL
=============================================================================
