# A TLA+ model of the Stellar MetaMask snap

The snap (`packages/snap`) keeps a Stellar wallet inside MetaMask. Sites call
it over JSON-RPC to learn an address, to have a transaction signed, to change a
preference. The user approves in dialogs, and manages accounts from the snap's
home page. Every answer hangs on one thing the snap does not control: which
secret recovery phrase is MetaMask's *primary* one. The user may change it at
any time, and the snap only finds out by asking. The modules here model how many
requests at once, a phrase that changes between any two of their steps, a lock
on the persisted state, refused writes and terminated contexts play together,
how the gates in front of the handlers ration what sites may cause, what a
signing dialog shows of the request it is about and of the network's answers,
and what a page that talks to the snap may do while both change under it.

Paths below are relative to the repository's root; `snap/` stands for
`packages/snap/src/`.

Contents: [inventory](#1-inventory), [modules](#2-modules-and-the-code-they-follow),
[abstraction](#3-what-is-abstracted), [properties and runs](#4-properties-and-runs),
[bounds and fairness](#5-bounds-and-fairness), [proofs](#6-proofs),
[where code and text disagree](#7-where-the-code-and-its-text-disagree),
[not modelled, and the plan](#8-not-modelled-and-the-plan).

To repeat the checks, in this directory: `tlc -config <run>.cfg <module>`, with
module `MCSnap` for `access`, `tenure`, `preferences` and the four `*_gap` runs,
`MCGate` for `slots` and `rations`, `MCBalances` for `balances`, `MCReview` for
`review` and `MCPage` for `page`; and `tlapm <module>.tla` for the eight
`*Proofs` modules.

## 1. Inventory

| Component | Source | State it keeps | Operations | Module |
|---|---|---|---|---|
| Persisted store | `snap/state/index.ts` | the decrypted `SnapState`: network, tokens, revealed accounts, active account, connection grants, fingerprint of the phrase, reset notice | one mutator per change, each in `withStateLock`; plain reads outside it | `SnapStore` |
| State lock | `snap/state/index.ts:409-432` | `mutationQueue`, a chain of promises | enqueue a mutator; a failed job does not stop the next | `Snap` |
| Key layer | `snap/keys/index.ts` | `contextFingerprint`, `contextGeneration`, `addressCache`, the latched reconciliation and its ticket, `bindingVerified` | observe the primary phrase, bind it, reconcile the store, resolve addresses, import and use the signing key | `EntropyBinding` |
| Handlers | `snap/handlers/*.tsx` | nothing of their own but what each call carries across its awaits | the methods of the RPC interface | `SnapHandlers` |
| Home page | `snap/handlers/home.tsx`, `snap/index.tsx` | nothing | render, and the inputs: use, add, find an account, disconnect a site, remove a token | `SnapHandlers` |
| Router | `snap/rpc/router.ts` | nothing | throttle, rate window, slot, handler, count of rejections | `RequestGate` |
| Dialog throttle | `snap/rpc/throttle.ts` | `entries`, per site, evicted by recency | check, opened, rejected, approved | `DialogThrottle` |
| Limiter | `snap/rpc/limiter.ts` | `requestLog`, `inflight`, `inflightTotal`, `predialogLog`, `tokenReadLog` | window check, slot, claims on two budgets | `RequestLimits` |
| Balance cache | `snap/handlers/account.tsx:174-353` | `balanceCache` | share a lookup, make room, drop a failure, answer | `BalanceCache` |
| Signing handlers | `snap/handlers/sign.tsx` | nothing but the call | refuse what cannot be shown, look up, show, sign, submit | `SnapHandlers` (their awaits), `Review` (their data) |
| Validation, errors | `snap/rpc/validation.ts`, `errors.ts` | none | pure checks | none |
| Contract calls | `snap/stellar/soroban.ts` | none | decode and display calls, authorizations, footprints; simulate | `ScVals`, `Review` |
| Warnings, movements | `snap/stellar/safety.ts`, `events.ts` | none | the accounts of a transaction; the balance changes of a simulation | `Safety`, `Movements` |
| Endpoints | `snap/stellar/http.ts`, `horizon.ts`, `rpc.ts`, `ledger.ts` | none | bounded reads of what Horizon and the RPC send | `Endpoints` |
| Views | `snap/ui/` | none | format texts, render the dialogs | `Texts`, `Operations`, `Dialogs` |
| Notices | `snap/index.tsx` (install, update) | none | show an alert | none |
| Connector | `packages/connector/src/` | the generation and the lookup of the version check; the discovered provider, the polling watcher | check the pinned release, invoke | `Connector` |
| Companion site | `packages/site/src/` | panels, the lock of `run`, the history table, the version seen | re-read, run an action, load the history | `WalletPage` |
| Scripts | `scripts/` | none | build, release, audit | none |

**How they interact.** `route` (router) asks the throttle and the limiter, then
runs the handler while holding a slot. A handler calls `ensureEntropyBinding`
(key layer), which observes the primary phrase: it names the primary source at
the platform, fetches its public key, names the source again, and *binds* the
context to the fingerprint. If the fingerprint is new, a *reconciliation* joins
the state lock's queue, and whoever observed the phrase awaits it; it resets a
store that belongs to another phrase. The handler gets a binding (fingerprint,
source, generation) with a snapshot of the store, resolves addresses (memoized
per context), shows a dialog, observes the phrase again, and either commits a
mutator under the lock, which itself compares the store's fingerprint with the
binding's, or signs. The home page does the same with a degraded rendering for
every refusal. Before its dialog a signing handler asks the network, on a budget
of the limiter, what the request alone does not tell: whether accounts exist and
require a memo, what a simulation moves and who must sign for it, how high the
ledger is. On the other side of MetaMask, the connector compares the installed
release with its pin before every invocation, and the companion site reads its
panels through it, several readings at a time.

**What is hard about it.** JavaScript's run-to-completion makes code between
two awaits atomic, and everything else not: the phrase may be switched away *and
back* while a request waits (equal fingerprints, different tenures); late
reconciliations settle out of order with what they were started for; a grant
approved under one phrase reaches the lock after the store was reset for
another; a check made in the lock must not await a job queued behind it; a
refused write leaves a latch to reopen; a terminated context leaves a store the
next context must interpret. At the gates, awaited reads sit next to counters,
bounded maps forget, and failed requests must give back what they took. A dialog
has little room: addresses are shortened, trees are cut, characters can be
hidden, and answers of the network may be missing or wrong, while every request
that does something else must read as something else. A page's replies come in
any order, for a wallet and a release that were replaced in the meantime. The
list of these hazards, each at its line, is in `PROJECT.json`.

**What makes each part correct.** The store follows the phrase the context is
bound to; a binding marked verified is true of the store; no grant outlives the
phrase it was approved under; answers and signatures leave in the tenure their
approval was given in; preferences commit only in their tenure and refusals
leave no trace; the account registry is gap-free and reveals what was shown;
every call is answered. At the gates: the counters are the requests they count,
the ceilings hold, no site is locked out that did not earn it, and no site can
escape its own record. In the balance cache: one lookup per window and wallet,
no failure served to those who did not wait for it. In a review: dialogs tell
requests apart, silence means checked, and what is cut is said to be cut. On a
page: what it shows is one wallet, and no call goes to a release it did not see.

## 2. Modules and the code they follow

```
SnapStore <- SnapHandlers <- EntropyBinding <- Snap <- SnapProperties <- SnapInvariants
                                                          |-- WalletRefinement <- MCSnap
                                                          |     (instance of Wallet)
                                                          |-- SnapProofs <- BindingProofs
    BindingProofs --|
 WalletRefinement --|- WalletProofs
RecencyMap <- DialogThrottle --|
           <- RequestLimits  --|- RequestGate <- GateProperties
           |                                       |-- MCGate
           |                                       |-- GateProofs (with RecencyProofs)
           <- BalanceCache
           |    |-- MCBalances
           |    |-- BalanceProofs (with RecencyProofs)
           <- RecencyProofs
Texts <- ScVals <- Operations <- Dialogs --|
                             Endpoints ----|- Safety --|
Texts <- Movements ------------------------------------|- Review <- ReviewProperties
                                                                     |-- MCReview
                                                                     |-- ReviewProofs
Connector <- WalletPage <- MCPage
                        <- PageProofs
```
(`A <- B`: B extends A; `SnapInvariants` carries both branches below it.)

**SnapStore** is the persisted state as a record and every mutator of
`snap/state/index.ts` as an operator. A mutator takes the store read in the lock
and answers with a verdict: write a new store, keep the old one, or refuse.
`Refuse` is `assertStoreFingerprint`. `Kept` gives the registries
`normalizeOrigins` may leave when the cap on grants drops one, a choice where
times tie.

**SnapHandlers** writes each handler as the script of its awaited steps.
`Opening(c)` is what runs before the snapshot of the store is taken, `Plan(c,
s)` what the snapshot decides; each `...Plan` operator is one handler and reads
in the order of its awaits. `Mutation` names the mutator behind each lock step,
`Wanted` the account indices each resolution asks for.

**EntropyBinding** gives the steps that belong to one request their meaning, with
`snap/keys/index.ts` beside it: `ReadSource`, `ConfirmSource` and
`BindFingerprint` are `observePrimaryPhrase` and `bindFingerprint`; `Acceptable`
gathers the comparisons made when an observation completes; `Resolve` and
`Memoize` are `resolveAddresses`; `ImportNode`, `NodeBound` and `Sign` are the
private key's path. `SettleReconciliation` is what a finished reconciliation
does to the context, decided by ticket.

**Snap** composes them: the jobs of the state lock (`LockedRead`, the two
confirmations, `LockedWrite`, `WriteFails`, `Rollback`), the environment
(`Switch`, `Crash`), the next-state relation and the fairness. `consent` is a
history variable: the phrase whose approval each site's latest grant records.

**SnapProperties** states what is checked, **SnapInvariants** the inductive
invariants of the proofs (`EffectInv`, which only the refinement needs, is in
`WalletRefinement`), **MCSnap** the instances for TLC.

**Wallet** is the abstract specification: a wallet owned by one phrase, whose
state changes only by effects that a request has agreed to under that phrase,
each at one instant or never. It has no queue, lock, confirmation or rollback.
**WalletRefinement** maps `Snap` to it. Two things make the mapping more than a
projection: the store counts as the wallet only outside the window between a
preference's write and its confirmation (`Committed`), and a request has agreed
to its effect from the moment no dialog is left before its lock step until that
step is over (`Agreed`).

**RecencyMap** is a JavaScript `Map` used as an LRU list. **DialogThrottle** and
**RequestLimits** are the two files of the gate, one operator per function.
**RequestGate** composes them with the router's order: `Route` is one request
up to its slot, or up to the awaited read of its grant (`GrantRead`), which the
code asks for only at the unconnected share. The handler in between is reduced to
what the gates see of it: its claims on the budgets, its dialog, its end.
**GateProperties** adds history variables that record the dialogs, requests and
lookups themselves, independent of the maps that forget, and states the
properties about those.

**BalanceCache** is `getBalances`: the key, the window, the eviction, the two
halves of a lookup (Horizon, then the token contracts within the budget), its
late failure, and the check of the phrase before the answer.

**Texts**, **ScVals**, **Operations** and **Dialogs** are the functions from a
signing request to the rows its dialog shows. A text is a sequence of classes of
characters, so that hidden ones, separators and escapes can be confused if the
formatting lets them; an address is a name with shortened ends that may be
another's; rendering of a contract call is bounded in depth, items and length,
and each rendering says whether it left something out. The recursive functions of the code
are recursive functions on the tree they walk, each bounded by the depth at which
the code stops; a loop that stops at a limit is what it has read by then, as a set
of positions (`Leading`, `Read`, `EntriesRead`), and a Map that is filled in a loop
is the set of its entries in the order of their first occurrence. **Endpoints** is what the
wallet takes from the responses of Horizon and of the RPC, which may be anything;
**Safety** the warnings about a transaction's accounts; **Movements** the balance
changes a simulation's events amount to.

**Review** runs one signing request through these: what cannot be shown is
refused, then come the lookups, as far as the budget of the site allows
(its log is that of `RequestLimits`), the dialog, the signature, the submission.
The binding to a phrase is left to `Snap`; a review only knows that its last
observations may refuse. **ReviewProperties** says what the dialog owes its user,
**MCReview** has the requests.

**Connector** is the version check of `StellarSnap.invoke`: generations, the
shared lookup, and the repetition for callers that were outdated while they
waited. It is a module of functions on the client's private fields, since a page
makes several calls in one step. **WalletPage** is the companion site over it:
`Refresh`, `FirstReads`, `SecondReads` and `ReadingFails` are `refresh`, cut at
its awaits; `Run`, `WorkDone` and `WorkFails` are `run`; `TableEffect`, `Reload`
and `Loaded` are the history table; `Focus` and `SetInstalledSnap` the look at
the installed version; `turn` and `table.turn` the trackers of
`utils/latest.ts`. **MCPage** is its instance.

`PROJECT.json` maps the definitions to their lines; `Wallet` and
`WalletRefinement` are specifications and have none.

## 3. What is abstracted

* *An action is the code from one platform response to the next* platform call,
  lock or shared reconciliation awaited. A call is atomic at its delivery. The
  key fetched for a named source is determined by that source, so its fetch is
  merged with the next call.
* Continuations that resume in a microtask (`Admit`, `Enqueue`, a `Resolve` that
  finds everything in the memo) are actions of their own: more interleavings than
  the event loop produces, never fewer.
* A phrase is a model value, and so are its fingerprint and its addresses: an
  address is the pair of a phrase and an account index. Two sources may hold the
  same phrase (a re-import), which the code tells apart by source.
* The outward calls (Horizon, Soroban RPC, Friendbot) succeed or fail. Those
  before a dialog that change nothing and cannot refuse are left out of `Snap`,
  and so are decoding and rendering, which `Review` has; validation is in neither.
* A refused state write leaves the store as it was; a termination loses all but
  the store. Tickets and generations are counters that only grow by what the
  bounded switches and crashes allow.
* A `grant` step is `recordGrantBestEffort`: its failure lets the handler go on.
  A failed submission is rechecked and reported with the signature.
* A plain read may see a preference its lock holder is about to roll back; the
  model has that dirty read too.
* In the gate, one window length serves the rate windows, and both budgets (the
  code uses 60 s for all of them). A request may be reused after its answer. How
  many claims one review makes is not counted: any number is more than the code
  makes. Grants change freely, which includes what the handlers do. A dialog
  nobody answers ends its request through `Finish`. A changed grant is atomic.
* In a review, requests come decoded: XDR itself, checksums, base32 and base64 are
  taken to be faithful. Amounts, times and sequence numbers are the strings the
  views are given. Of the layout only the sequence of labelled texts remains, and
  the raw XDR shown below the rows is left out: nobody reads it. One review runs
  at a time, since they share nothing but the lookups of others (`Logs`).
* On a page, what the snap answers from is a network and an account, and a reply
  is any value it had between the request and the reply. A generation of the
  connector is only ever compared with the newest, so a lookup carries whether its
  own is that. The results of a failed lookup and of another release are the same
  refusal. One look at the installed version is in flight at a time. Discovery,
  `connect` and the forms are left out.

## 4. Properties and runs

Each run asks one question. Sizes are distinct states; with two workers a run
takes between a quarter of a minute and two minutes and a half.

| Run | Question | Properties | States |
|---|---|---|---|
| `access` | Two calls at once, of connecting, disconnecting and the home page or of revealing, finding, selecting and listing accounts, while the phrase changes twice, a write is refused and the snap is terminated: whose store is it, what does the registry hold, what does the memo, and is it all the abstract wallet? | `TypeOK`, `StoreFollowsContext`, `GrantsBelongToPhrase`, `AccountsGapFree`, `CacheCoherent`, `ObservedIsPrimary`, `RevealsWhatWasShown`, `DisclosedInTenure`, `ImplementsWallet` | 504 k |
| `tenure` | Three overlapping calls, or two that sign, and a phrase that leaves and comes back, perhaps from another source: does anything cross from one tenure to the next, and which key signs? | `VerifiedMeansReconciled`, `DisclosedInTenure`, `SignsAsApproved` | 374 k |
| `preferences` | The commits that survive a change of phrase: are they made in their tenure, undone when not, atomic to the outside, also when the snap is terminated halfway, and does nothing wait for ever? | `PreferencesCommitInTenure`, `RefusalLeavesNoTrace`, `EveryCallAnswered`, `ImplementsWallet` | 150 k |
| `slots` | More requests than slots, with and without grants: do the counters count, and whom do the ceilings turn away? | `GateTypeOK`, `SlotsCounted`, `CeilingsHeld`, `BusyMeansFull` | 201 k |
| `rations` | Overlapping dialogs, opened, approved, rejected or ignored, rated requests and lookups of more sites and methods than are tracked: how many dialogs go unapproved, who is blocked, can a site escape its window, or lock itself or others out? | `DialogsRationed`, `CooldownEarned`, `RatesHeld`, `RefusedAtLimit`, `ReserveKept` | 138 k |
| `balances` | Two readers on two networks, room for one entry, lookups that outlive their window, a termination: who shares, and what is answered? | `BalanceTypeOK`, `OneLookupPerWindow`, `CacheBounded`, `FailureNotServed`, `AnswersTheCall` | 421 k |
| `review` | Some two hundred requests that differ in little, reviewed against whatever the endpoints answer: does the dialog tell them apart, and say what was not verified? | `ReviewTypeOK`, `DialogTellsCallsApart`, `SilenceIsVerified`, `AuthorizationExpires`, `SignersDisclosed`, `BalanceRowsTrue` | 36 k |
| `page` | Two readings of the wallet, an action and two loads of the history overlap while the wallet is switched and the snap is replaced: what does the page show, whom does it call, and is it usable again? | `RestShowsTheWallet`, `RowsOfTheTable`, `InvokesThePin`, `ControlsComeBack` | 190 k |
| `access_gap`, `notice_gap`, `grant_gap`, `reset_gap` | four statements of the repository's text that the code does not meet, see section 7 | one each, violated | |

What the main properties say, beyond their names:

* `StoreFollowsContext`: a store that does not carry the context's fingerprint has
  the latched reconciliation queued, last of all reconciliations and for that
  fingerprint, or else the latch is open and the next observation queues one. It
  is what makes "reconciled once" safe with many requests in flight.
* `VerifiedMeansReconciled`: `bindingVerified` speaks of the store now; no
  reconciliation that could still change it is pending, not even one for an
  earlier tenure of the *same* phrase. Comparing completions by fingerprint
  instead of by ticket breaks it (that is its mutant).
* `GrantsBelongToPhrase`: each grant in the store was approved under the phrase
  the store is bound to. A grant in a store without a fingerprint would be adopted
  by whichever phrase is seen first, so there is none, crashes included.
* `DisclosedInTenure`, `SignsAsApproved`: an answer with addresses, and a
  signature, belong to the generation their binding was made in; fingerprints
  alone would not tell tenures apart.
* `EveryCallAnswered`: the confirmation made inside the lock binds nothing; if it
  did, it could wait for a reconciliation queued behind the job that makes it. The
  mutant does, and the run finds the deadlock.
* `DialogsRationed` counts the unapproved dialogs of a cooldown's length of time
  in two groups. Of requests that were checked since the last cooldown began there
  are at most `MAX_UNANSWERED_DIALOGS`. Requests that were past the check by then
  (`stale`) still open their dialogs: of those that took a slot at once, twice as
  many as a site may have in flight beside the request that starts a cooldown, the
  ones left over from the cooldown that ends and those of the next. TLC finds
  behaviours that reach both bounds. A request that waits for the read of its grant
  has passed the check and holds no slot (`waited`), so no slot bounds how many
  of these open a dialog in a cooldown; only the rate of their method does, and
  their late dialogs are not put on record.
* `RatesHeld` excuses a site only when as many other keys as the map tracks were
  used since it last called: calling, and being refused, keeps its window. Evicting
  before asking whether the key is known breaks this (its mutant).

* `ImplementsWallet`: whatever the queue, the confirmations, the refused writes
  and the terminations do, seen from outside each approved effect is had at one
  instant or never, by a wallet of the phrase it was approved under, on the state
  that was there at that instant. A mutator given the store its request had read
  before the lock loses updates, and breaks it (its mutant).
* `OneLookupPerWindow`: a lookup that outlives its window and fails removes its
  entry only if the entry is still its own; otherwise it would evict the one in
  flight that replaced it, and a third lookup would begin in the same window.
* `DialogTellsCallsApart`: over all requests of the instance that are not
  refused, equal rows mean equal effects (`Meaning` says which differences have
  none, such as a bound of 0 and no bound). The instance has for each way to
  confuse (twins of shortened addresses, hidden characters, texts that look like
  escapes or like the layout, swapped or deeper arguments, prices equal at seven
  digits, trees at their limits) requests that differ in just that.
* `SilenceIsVerified`: no warning means every account was looked up with success
  and found in order; a failed lookup or a spent budget must warn. The weight of the
  key is enough for an operation at its level *or at a higher one* that another
  operation of the account needs: that is what the code checks, and section 7 says
  what it misses.
* `SignersDisclosed` says of a list that may be cut that nothing is missing unless the
  dialog says so. `BalanceRowsTrue` says it of the balance changes, that each is the
  net of every event that moves its contract, and that an event does not choose the
  name it is shown under; what leaves the account comes first, cut or not.
* `AuthorizationExpires` is measured from the larger height, since one source may
  be behind or lie; the life it bounds is what the dialog says, never more than the
  longest one.
* `InvokesThePin`: an older lookup's success does not carry a call when a newer
  demand may have noticed an update. It is stated by the history variable `pinned`:
  the pin was installed at some moment since the newest invocation was asked for.
  Nothing stronger can hold, since the check and the invocation are two requests.
* `RestShowsTheWallet` is stated for panels that name a network: a reading that is
  superseded between its two commits, followed by one that fails, leaves the address
  of one and the balances of another, with no network named. The list of accounts is
  kept when its read fails, so it is no part of the property.

Every property of a passing run has a mutant in `PROJECT.json`: a change to one
mapped definition, of the kind a plausible edit would make, under which TLC
finds that property violated in the same run.

## 5. Bounds and fairness

* *Requests*: two at once for all calls; three of one kind in `tenure`, two that sign. The
  hazards of the binding need one request to be overtaken by another that binds
  a new tenure, and `tenure` adds the one that overtakes the second.
* *Phrases and sources*: two phrases; two sources, or three with the first phrase
  behind two of them in `tenure`.
* *Switches*: two, so that a phrase can leave and come back, the case that
  fingerprints cannot see. *Refused writes*: one; *terminations*: one, in
  `access` and in `preferences`, where it may fall between a preference's write and
  its confirmation.
* *Accounts*: `MaxAccountIndex` 3 in `access`, where two reveals of different
  lengths can race and the last index can be asked for; 1 elsewhere. One site, one
  token and one time in the snap's passing runs: sites meet only in the registry of
  grants, whose operators are pure; `grant_gap` has a second site and a clock that
  shows an earlier time.
* *Families*: `access` and `tenure` each run two families of calls that are not
  mixed (`WalletFamilies`, `OverlapFamilies`), for size; terminations, and a
  phrase that comes back, are kept for the family that makes and revokes grants.
  The family of the accounts sees the phrase change once. In `preferences`, which
  checks liveness and so has no symmetry, `CallsInOrder` keeps one of the two ways to
  give two overlapping calls to the requests; the other is a renaming.
* *Initial stores*: fresh, bound, connected with a current or an outdated
  disclosure, with a gap-free registry of one or two accounts, or with a notice
  shown or a public network for the runs that are about those: each is one
  that earlier contexts can leave.
* *Gate*: four requests over three slots (`slots`), two of them unconnected, are the
  smallest instance in which the reserved share, the per-site cap and the global
  ceiling refuse separately. In `rations` two sites with one entry forget each other
  at every dialog; three requests over two slots a site and two unconnected ones make
  a dialog late, let one wait and start the next cooldown; and of the four windows of
  two rated methods two are kept, so that the order of use decides which is forgotten.
  `RationFamilies` keeps apart, by the grants at first, the dialogs, the lookups and
  the rated requests, for size; the last two are made one request at a time, since
  each of their steps on the limiter runs without an await. The clock runs to 3 with
  cooldowns and windows of 2: one expiry inside the behaviour. Sites, and requests,
  are interchangeable, so these runs use symmetry (they check no liveness).
* *Balance cache*: two readers, two wallets, room for one entry, a window of 2 in a
  clock that runs to 3, and three lookups: enough for one to outlive its window and
  to be replaced while it runs. Symmetric in the readers.
* *Review*: limits of 2 or 3 where the code has tens, so that each is reached and
  passed; heights 2, 4 and 5 with a longest life of 3 and a last ledger of 6, so that
  the sum can pass the end; three or four lookups of budget, so that it can run out
  in the middle of one review. Three or four events where three are read, of three
  contracts where two are shown, so that either limit may cut them, a contract may
  have two movements that cancel, and the order of the rows is not that of the
  events; accounts whose thresholds do not ascend with the level.
* *Page*: two readings and two loads, because overlap is of two; one action of the
  user and one change of the wallet or of the release, anywhere in between; two
  wallets, one of which the site may not see.

The deadlock check is on in every run: `Quiet` is the only rest of the snap's
runs, with every call answered and the lock free; the gate and the cache always
have a step, and a review returns to idle. `page` alone turns it off: a page on
which nothing is left to do rests.

*Fairness* (`FairSpec`): weak fairness of each request's steps and of the lock's.
The platform answers the calls it is asked, the user answers a dialog (the
platform's request timeout answers it otherwise), and a settled promise resumes
its waiters. Nothing is assumed of switches, terminations, refused writes or new
calls. A request's steps are mutually exclusive but for the user's two answers,
so weak fairness of their disjunction is enough. Of a page, weak fairness is
assumed of `Progress`, the steps that only wait for MetaMask, for the snap, for
Horizon or for the next task of the event loop; nothing of the user, of updates or
of switches. `ControlsComeBack` then also says that the repetition in
`ensureCurrentPinnedVersion` ends. That rests on calls being finitely many: a
caller that is outdated by ever newer calls repeats for ever, which the comment on
that method (each repeat awaits a newer generation, and only calls open one) does
not exclude.

## 6. Proofs

All theorems hold for every value of the constants under the named assumptions
of the modules, which TLC evaluates on the runs:

* `StoreAssumption`: caps are positive naturals, the default network is a network,
  `None` is none of the values; `BindingAssumption`: `PhraseOf` is a function from
  sources to phrases; `SnapAssumption`: bounds are naturals, and initial stores are
  gap-free and have a fingerprint if they have a grant.
* `AbsenceAssumption`: no effect, and no disclosure, is the `None` of the wallet.
* `ThrottleAssumption`: the throttle's limits are positive; `LimitsAssumption`: the
  limiter's are naturals, its window, the keys it tracks and a site's slots positive, the unconnected
  share no more than the ceiling; `GateAssumption`: finitely many requests, and a
  clock that runs (to `MaxClock`, any positive number); `WatchedAssumption`: the
  sites whose history is kept are sites.
* `BalanceAssumption`: the window and the limit of the cache are positive, and a
  query is a network with an address.
* Of a review: `TtlAssumption`, that heights and lifetimes are naturals and the default
  life is no longer than the longest (`snap/stellar/soroban.ts`, the constants of
  `boundAuthExpiration`); `LedgerAssumption`, `MovementsAssumption` and the limits in
  `ReportAssumption`, that limits are naturals. The rest is what decoding leaves of a
  request or a response: a transaction has a sequence of operations, whose
  addresses have a base account, and an authorization an expiry (`CallAssumption`); an
  account has weights and three thresholds that are integers, whatever they are
  (`AccountAssumption`, as `getAccountChecks` reads them); a report has sequences of
  events with integer amounts, and no contract's address is the name of an asset
  (`ReportAssumption`). `LogAssumption`: one window of lookups, all at one time.
* `PageAssumption`: the calls of the page are the two of each reading and that of the
  user's action; a wallet has a network; the names of the readings, of the loads and
  of what is absent are distinct.

**SnapProofs** begins with lemmas about the pure part: every mutator takes a good
store (gap-free, active account revealed, typed) to a good one, and every plan
uses only the steps that its call has mutators for. It proves `TypeCorrect` (`Spec => []TypeOK`) and
`AccountsStayGapFree`. Neither is inductive alone: that a lock step finds a
mutator to run, and that it is the one its call and its snapshot fit, needs the
shape of each request's script. `RequestInv` adds it: a running request's script
is one of its preludes or is made of steps that fit its call (`RequestOK`), it
names a source once it needs one, it is `queued` exactly when its job is in the
queue, and only once (`QueueOK`). There is one lemma per action, on top of
lemmas about advancing, refusing and finishing.

**BindingProofs** proves `VerifiedIsReconciled`, `StoreIsFollowed`,
`MemoIsCoherent` and `OnlyPrimaryIsObserved`. `BindingInv` is inductive relative
to `RequestInv`. `LatchOK` says that tickets grow along the queue, only the
newest can be latched, and the latched one either verified the binding or is
queued; `LockOK` that the store's fingerprint is the one the lock holder read
until a reconciliation writes. Without the growth of the tickets along the queue,
an older reconciliation behind the latched one could not be excluded;
without `LockOK`, a mutator could write back an earlier fingerprint.

The grants follow in the same module: `GrantsFollowPhrase`
(`Spec => []GrantsBelongToPhrase`), relative to the two invariants above. A grant is decided on the store as the lock
holder read it, and reaches the store steps later, so `GrantInv` follows it
through the lock: the store read and the store to write are both rightful, the
second with respect to the approvals as they will be once it lands (`Consents`).
`BoundOK` adds that a binding's fingerprint is that of its source, so the phrase
a grant is recorded under is a phrase and never an absent value. `LockOK` is
needed for an empty queue: a free lock has nothing to say. The argument rests on
two facts of the code: `connectOrigin` checks the fingerprint of the store under
the lock, and a reconciliation adopts only stores without a fingerprint, which by
this invariant have no grants.

The action properties about approvals come last. `LockDecided` is
inductive beside `BindingInv` (`LockIsDecided`): what the job under the lock is to
write is a verdict on the store it has read, the store is the one it read or the one
it wrote as its write has landed or not, and only a preference looks back after its
write. From it follow `RevealsAsShown`, `CommitsInTenure` and `RefusalsLeaveNoTrace`.
`TenureInv` (`TenureSound`) is about the requests: the addresses one holds are of the
phrase it is bound to, a binding whose generation is the context's is of the context's
phrase, and the script of a method that answers with addresses ends in a step that
compares the two generations. Without the middle conjunct a binding could match the
context's tenure and be of another phrase; without the last one a script might end
in a step that compares nothing, as that of `requestAccess` does (section 7).
`AnswersInTenure` and `SignaturesAsApproved` (`Spec => DisclosedInTenure`,
`Spec => SignsAsApproved`) are its consequences, with `MemoIsCoherent` for the
addresses and `BoundOK` for the phrase of a key.

**WalletProofs** proves `WalletKept`, that `Snap` implements `Wallet` under the
refinement mapping (`Spec => ImplementsWallet`). The mapping reads what a request has
agreed to off its script, so the proof needs `EffectInv` (`EffectsSound`): a script
has one step with an effect at most, and no dialog after it. It is proved plan by
plan from how scripts are put together (`EffectOfConcat`). `Follows` says how any
move of a request treats its agreement: kept, given up, or made when there was
none. For the wallet, `EffectHad` says of each mutator that a write it decides on the
committed store is the abstract effect: a cut registry is one that `Connect` allows,
accounts are revealed from the first that is not. Then there is one lemma per kind of
step: most leave the wallet as it is and at most agree or withdraw; the write of a
job that does not confirm, the confirmation after the write, a refused rollback,
and a termination after a write are the instants at which an effect is had;
a reconciliation's write is `Belong`. `LockDecided` is what makes them so: the store
that an effect is decided on is the wallet's at the instant it is had.

**RecencyProofs** has the lemmas about `RecencyMap` that the caches need: which keys
a map with distinct keys holds after a touch, an update, an eviction or a removal,
their values, and their order.

**GateProofs** has six invariants: `SlotInv`, `GateInv`, which contains it, and four
that are inductive relative to `GateInv`.
`SlotInv`: the counters are cardinalities of the sets of executing requests, each
below its ceiling (`SlotsNeverLeak`, `CeilingsNeverPassed`): the cardinality argument
that the code's `finally` block makes informally, with the awaited read of the grant
between request and slot. `GateInv` adds the types of the maps and logs
(`GatesTyped`, and `BusyIsEarned`, which is about a step). `CoolInv`: the throttle's
entry of a site counts no more than its own history does, until it has earned a
cooldown (`Backed`), so an eviction can only forgive (`CooldownsEarned`).
`ReserveInv`: the lookups in the shared window that are beyond the unconnected share
are matched, from the newest, by no older ones made for connected sites (`Matched`;
`ReserveIsKept`). `RatesInv`: the window kept for a key is the one of its history,
or else as many other keys as the map tracks were used after it, since it was behind
each of them in the order of use (`RateOK`, `Behind`; `RatesKept`,
`RefusalsAtLimit`). `DialogInv` (`DialogsSound`, for `DialogsAreRationed`) relates the
dialogs of a site to its entry in each of the three states of a cooldown
(`Rationed`): none, and there are no more counted dialogs than the entry counts, and
the late ones with those still to come fit beside one request; over but not yet
cleared, and no counted dialog is left; under way, and every dialog on record
when it began has left the record by its end, so that only those of its own late
requests can remain. A late dialog that opens makes its request late no more
(`LateOpened`), so the sum of the dialogs and of those to come stays; and the step
that starts a cooldown finds at most the rest of its site's slots to make late
(`LateBeside`). `MarksInv`
says that, once a site had a cooldown and until its slate is clean, every request
past the check is stale; without it a late dialog could pass for one of the next
round.

**BalanceProofs** proves the five properties of the cache from `BalanceInv`: the
types (`TypesInv`), the times of the lookups (`LookupsInv`), that an entry names a
lookup of its own wallet that has not failed (`CacheInv`), that a lookup which has
neither failed, made room nor outlived its window is cached (`HeldInv`), and whom a
reader waits for (`ReadersInv`). Both `CacheInv` and `HeldInv` rest on the check that
a failing lookup makes before it removes an entry: it removes its own, and no other.

**PageProofs** proves the three safety properties of the page. `ClientInv`
(`ClientSound`) is about the connector: when the pin is installed, or a lookup of the
newest generation may report it, it was installed since the newest invocation
(`PinOK`). A new invocation outdates every other lookup, so an older one may have
seen the pin and says nothing; what an invocation learns from it is to wait for the
lookup of the newest generation. `PinIsInvoked` follows. `TableInv` (for
`RowsAreTheTables`) adds that the newest load is for the table's own account and
network. `PanelsInv` (for `PanelsShowTheWallet`) follows the newest reading through
its two rounds while the wallet stays (`ReadingTrue`): its replies are of this
wallet, and the panels show it from its first two replies to its end. The readings
it has overtaken go on, and neither write nor touch its calls (`DroppedPanels`).

**ReviewProofs** proves what a review promises, all but `DialogTellsCallsApart`, for
every request, every answer of the endpoints and every limit. `ReviewInv`
(`ReviewSound`) is inductive, one lemma per action: the request under review was not
refused and is in a phase of its kind (`CallOK`); nothing is known before it is asked
for (`NothingYet`); answers are typed (`AnswersOK`); the expiry is within the longest
life of the verified height (`ExpiryOK`); each reason to warn was followed by a
warning (`WarningsOK`); and the simulation shown is the one read of the report
(`SimulationOK`). None of the properties is inductive alone: `SilenceIsVerified` is
about the dialog, and the warnings, the accounts checked and the refusals that make
it true are decided in three earlier steps, which differ with the kind of the
transaction.
* `SilencesVerified` rests on `WeightSuffices`: no warning at the highest level that an
  account needs is enough at some level from that of each of its operations
  (`RequiredLevels`). An account left out of the check is one of those
  `PlainWarnings` counts.
* `AuthorizationsExpire` rests on `LowerHeight` and `ExpiryBounded`: of two heights, one
  of which is not ahead of the network, the lower is not ahead either, and an expiry
  that passes the last ledger is refused.
* `SignersAreDisclosed`: an entry is unread only beyond one of two limits, each of
  which sets the notice, and the third cuts a list whose length is compared.
* `BalanceRowsAreTrue` needs two facts about data of any length. A sum has its
  value (`SumsExist`, `TotalIsLast`, `TotalTyped`): that a recursive function on
  `0 .. n` exists and is a number at each of them is argued by the least counterexample
  (`LeastNatural`, from `WFMin` and `NatLessThanWellFounded`), since an induction
  theorem that takes an operator cannot be instantiated by the provers. And the
  tallies can be put in order (`PutInOrder`, by the same argument on the size of the
  set), so the sequence that `summarizeBalanceChanges` chooses exists and holds each of
  them once (`OrderIsWhole`). The rest compares parts: `ShownTallies` says that the
  tallies are of distinct contracts, `RanksOrder` that their rank is an order,
  `TalliesAreWhole` that without the notice nothing was cut, event by event
  (`PartsAreWhole`).

*Model-checked only*: `EveryCallAnswered` and `ControlsComeBack`, since liveness
under fairness is beyond the prover; and `DialogTellsCallsApart`, which compares the
renderings of all pairs of requests. That holds of texts such as the escapes and the
limits make them, not of every value of the constants: over any set of requests it
would need induction over the structure of values, and the injectivity of each
format, which the instance checks for the ways there are to confuse them.

## 7. Where the code and its text disagree

* `access_gap`: `requestAccess` answers at `snap/handlers/access.tsx:96` after
  waiting for the state lock, without observing the phrase again, while
  `docs/THREAT-MODEL.md:157` names it among the answers guarded by the check.
  Another request may move the context to a new tenure in between.
* `notice_gap`: `clearResetNotice` clears whatever notice is stored when it gets
  the lock, while its comment speaks of the one the page has shown. A reset
  between the page's snapshot and its turn is cleared unseen.
* `reset_gap`: a reset for a changed phrase keeps the network
  (`snap/state/index.ts:880-886`), while the comment on `resetNotice`
  (`snap/state/index.ts:163-170`) says that both resets return it to TESTNET.

* `grant_gap`: pruning a full registry may drop the grant that has just been
  written, when the clock reads no later than the grants it holds, while the comment
  at `snap/state/index.ts:815-821` says it never does.

Each is a run that expects the violation, with the quoted statement as the
property. Three more have no run of their own. The weight of the signing key is
compared at the highest *level* that an account's operations need
(`snap/stellar/safety.ts:147-172` and `256-272`), while the comment at
`safety.ts:66-68` speaks of "the highest threshold the operations actually require":
the thresholds of an account need not ascend (low 0, medium 2 and high 1, say), and
then a payment beside a merge is not warned of though its own threshold is not met.
The proof of `SilencesVerified` would not go through for the comment's reading, and an
account of the `review` run has such thresholds; the property says what the code
checks. `docs/THREAT-MODEL.md:125` describes neither: it still speaks of the
medium threshold only. Two others no state of a model tells: the
documentation of `invoke` speaks of a per-page memo from which network reads are
answered, and the code keeps none (`packages/connector/src/snap.ts:490-540`); and
a comment of `snap/stellar/soroban.ts:1236-1241` says that entries that cannot be
decoded stay visible in the raw XDR, which is not so of those that only the
simulation reported.

## 8. Not modelled, and the plan

Not modelled, and why: validation is stateless, and a refused parameter ends a
handler as any refusal does; the installation and update notices read the store
once and show an alert; the scripts are tooling. Of the modelled parts: the parsing
of damaged stores (`parseState` answers with a store of the type, the reset it makes
of a damaged one is left out), the sweep of `findAccountIndexByAddress`, the wiping
of key material, an explicit address given to `fund` or `getBalances`, the metadata
of tokens, XDR, the dialogs other than those for signing, the connector's
discovery, `connect` and polling watcher, and the site's forms.

The order of the modules followed from what depends on what: first the store,
the handlers, the binding and the lock, whose properties every other guarantee
of the snap rests on, then the gates, the cache, the review of what is signed, the
abstract wallet, and the page. What comes next:

1. The hazards that no property covers yet, each with its reason in
   `PROJECT.json`: `fund`'s late answer, a plain read of a preference about to be
   rolled back.
2. The polling watcher of the connector, with overlapping polls, a slow answer and
   a stop in between.
3. The parsing and repair of a stored state, with a reference definition over
   bounded inputs.
