--------------------------- MODULE SnapProperties ---------------------------
(***************************************************************************)
(* What makes the stateful core of the snap correct.                       *)
(***************************************************************************)
EXTENDS Snap

Reconciliations ==
    {i \in DOMAIN mutationQueue : mutationQueue[i].kind = "reconcile"}

\* A binding marked verified is the truth about the store: the store carries
\* the context's fingerprint, and no reconciliation that could still change
\* it is queued, not even one for an earlier tenure of the same phrase.
VerifiedMeansReconciled ==
    bindingVerified =>
        /\ contextFingerprint # None
        /\ store.fp = contextFingerprint
        /\ Reconciliations = {}

\* A store still bound to another phrase than the context's is about to be
\* reconciled to it by the last reconciliation in the queue, or else the latch
\* is open and the next observation queues one.
StoreFollowsContext ==
    contextFingerprint # None /\ store.fp # contextFingerprint =>
        \/ reconciliationTicket = 0
        \/ \E i \in Reconciliations :
              /\ mutationQueue[i].ticket = reconciliationTicket
              /\ mutationQueue[i].fp = contextFingerprint
              /\ \A j \in Reconciliations : j <= i

\* A grant in the store was approved under the very phrase the store is bound
\* to; in particular no grant sits in a store without a fingerprint, which the
\* adopting branch of reconcileEntropyBinding relies on.
GrantsBelongToPhrase ==
    \A o \in Origins :
        HasGrant(store, o) => store.fp # None /\ consent[o] = store.fp

\* The address memo never mixes wallets: it holds addresses of the context's
\* phrase and nothing else, whatever requests were overtaken by a switch.
CacheCoherent ==
    \A i \in Indices : addressCache[i] \in {None, contextFingerprint}

\* The revealed accounts have no gap, and the active account is one of them.
AccountsGapFree ==
    /\ \E n \in Indices : store.accounts = 0 .. n
    /\ store.active \in store.accounts

-----------------------------------------------------------------------------
Returns(r) == Running(r) /\ req'[r].outcome = "returned"

\* An error that reports a failed submission hands the signature over too.
Answers(r) == Running(r) /\ req'[r].outcome \in {"returned", "reported"}

\* The methods whose last act before they answer is assertPhraseUnchanged.
Answering ==
    {"getAddress", "getAccounts", "setActiveAccount", "getBalances"} \cup Signing

\* An answer that carries wallet-derived data leaves in the tenure it was bound
\* under, and describes the wallet of that tenure.
DisclosedInTenure ==
    [][\A r \in Requests :
         Answers(r) /\ req[r].call.op \in Answering /\ req[r].addr # {} =>
             /\ contextGeneration' = req[r].bnd.gen
             /\ req[r].addr = {contextFingerprint'}]_vars

\* The same of requestAccess after its dialog, as the threat model states it of
\* every wallet-derived answer.
AccessDisclosedInTenure ==
    [][\A r \in Requests :
         Returns(r) /\ req[r].call.op = "requestAccess" =>
             contextGeneration' = req[r].bnd.gen]_vars

\* A signature is made with the key of the address its dialog showed, and in
\* the tenure that dialog was approved in, though importing the key took a
\* platform call during which the phrase could change.
SignsAsApproved ==
    [][\A r \in Requests :
         req'[r].key \notin {req[r].key, None} =>
             /\ req[r].addr = {req'[r].key}
             /\ req'[r].key = req[r].bnd.fp
             /\ contextGeneration = req[r].bnd.gen]_vars

\* The context only ever binds to the phrase that is primary at that moment,
\* so a late observation cannot drag the store back to an abandoned phrase.
ObservedIsPrimary ==
    [][contextFingerprint' \notin {contextFingerprint, None} =>
           contextFingerprint' = PhraseOf[primary]]_vars

\* The phrase-independent preferences are committed only while the phrase,
\* source and tenure of the approval are still the wallet's.
PreferencesCommitInTenure ==
    [][\A r \in Requests :
         Returns(r) /\ req[r].at = "queued" /\ lock.wrote =>
             primary = req[r].bnd.source /\ contextGeneration = req[r].bnd.gen]_vars

\* A refused preference leaves the store as the lock found it, unless the
\* platform refuses the rollback as well.
RefusalLeavesNoTrace ==
    [][\A r \in Requests :
         lock.wrote /\ At(r, "queued") /\ req'[r].outcome = "refused"
           /\ failures' = failures => store' = lock.was]_vars

\* Accounts are revealed exactly as the approved dialog showed them, though
\* other approvals may have been committed while it was open.
RevealsWhatWasShown ==
    [][store'.fp = store.fp /\ store'.accounts # store.accounts =>
           LET q == req[Job.by]
           IN /\ store.accounts \subseteq store'.accounts
              /\ store'.accounts \ store.accounts = Shown(q.call, q.snap)]_vars

\* The notice a home page clears is the one it rendered, not that of a reset
\* that happened since.
ClearsWhatWasShown ==
    [][store.notice # "none" /\ store'.notice = "none" =>
           LET q == req[Job.by]
           IN q.snap.notice = store.notice /\ q.snap.fp = store.fp]_vars

\* A store rebuilt because the phrase changed is back on the default network.
ResetReturnsToDefaultNetwork ==
    [][store'.notice = "phrase-changed" /\ store'.fp # store.fp =>
           store'.network = DefaultNetwork]_vars

\* The grant connectOrigin has just written is never the one that pruning the
\* registry drops, as its comment says.
NewGrantSurvives ==
    [][\A r \in Requests :
         At(r, "queued") /\ Head(req[r].todo) = "connect"
           /\ req'[r].outcome \in {"running", "returned"} /\ ~At(r, "queued")' =>
             HasGrant(store', req[r].call.origin)]_vars

\* Every call is answered in the end: no mutator and no observation waits for
\* ever on the lock or on a reconciliation queued behind it.
EveryCallAnswered ==
    \A r \in Requests : Running(r) ~> ~Running(r)
=============================================================================
