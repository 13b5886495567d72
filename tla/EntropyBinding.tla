--------------------------- MODULE EntropyBinding ---------------------------
(***************************************************************************)
(* How requests are bound to the active secret recovery phrase             *)
(* (packages/snap/src/keys/index.ts), with many requests in flight in one  *)
(* execution context while the user may switch MetaMask's primary phrase.  *)
(*                                                                         *)
(* JavaScript runs each piece of code between two awaits to completion, so *)
(* an action is the code from one platform response to the next platform   *)
(* call, lock, or shared reconciliation awaited.  A key answered for a     *)
(* named entropy source is determined by that source, so the call that     *)
(* fetches it is merged with the platform call that follows it.            *)
(***************************************************************************)
EXTENDS SnapHandlers

CONSTANTS
    Sources,   \* the ids snap_listEntropySources may report
    PhraseOf,  \* the phrase behind each source; two may hold the same one
    Requests,  \* the requests of a behaviour
    Calls      \* the calls these requests may make

ASSUME BindingAssumption ==
    /\ PhraseOf \in [Sources -> Phrases]
    /\ None \notin Sources
    /\ Calls \subseteq AllCalls

VARIABLES
    primary,               \* the primary entropy source, at the platform
    store,                 \* the persisted store
    contextFingerprint,    \* the fingerprint last observed in this context
    contextGeneration,     \* how many times that fingerprint changed
    addressCache,          \* account index -> phrase of the memoized address
    reconciledFingerprint, \* the fingerprint the latched reconciliation is for
    reconciliationTicket,  \* the latched reconciliation, 0 for none; this is
                           \* bindingReconciliation too, set and cleared with it
    tickets,               \* how many tickets this context has issued
    bindingVerified,       \* whether the store's binding is confirmed
    mutationQueue,         \* the jobs holding (first) or awaiting the state lock
    req                    \* the requests

context == <<contextFingerprint, contextGeneration, addressCache,
             reconciledFingerprint, reconciliationTicket, tickets,
             bindingVerified>>

latch == <<reconciledFingerprint, reconciliationTicket, tickets, bindingVerified>>

Jobs == [kind : {"reconcile"}, ticket : Nat \ {0}, fp : Phrases]
        \cup [kind : {"request"}, by : Requests]

NoBinding == [fp |-> None, source |-> None, gen |-> 0]

EmptyCache == [i \in Indices |-> None]

Idle == [call |-> None, todo |-> << >>, at |-> "start", seen |-> None,
         ticket |-> 0, bnd |-> NoBinding, snap |-> DefaultState, miss |-> {},
         addr |-> {}, key |-> None, outcome |-> "idle"]

-----------------------------------------------------------------------------
(***************************************************************************)
(* Moving one request along its script.                                    *)
(***************************************************************************)
Step(r) == Head(req[r].todo)

Running(r) == req[r].outcome = "running"

At(r, at) == Running(r) /\ req[r].at = at

\* A request that is over: nothing of what its handler held matters any more.
Ended(outcome) == [Idle EXCEPT !.outcome = outcome]

\* The request q with the script todo left to run; a handler whose script is
\* over has returned.
Continued(q, todo) ==
    IF todo = << >> THEN Ended("returned")
    ELSE [q EXCEPT !.todo = todo, !.at = "start", !.seen = None, !.ticket = 0,
                   !.miss = {}, !.outcome = "running"]

Advanced(q) == Continued(q, Tail(q.todo))

\* Every refusal ends its handler, but for the home page, which renders
\* without a binding or without accounts, for best-effort bookkeeping, and for
\* a submission, whose failure is rechecked.
Refused(q) ==
    IF q.call.op = "home" /\ Head(q.todo) \in {"bind", "snapshot", "active", "admit"}
        THEN Continued(q, <<"state">>)
    ELSE IF q.call.op = "home" \/ Head(q.todo) \in {"grant", "settled"} THEN Advanced(q)
    ELSE Ended("refused")

Becomes(r, q) == req' = [req EXCEPT ![r] = q]

Advance(r)   == Becomes(r, Advanced(req[r]))
RefuseReq(r) == Becomes(r, Refused(req[r]))

Start(r, c) ==
    /\ req[r].outcome = "idle"
    /\ Becomes(r, Continued([Idle EXCEPT !.call = c], Opening(c)))
    /\ UNCHANGED <<primary, store, context, mutationQueue>>

-----------------------------------------------------------------------------
(***************************************************************************)
(* Binding the context to an observed fingerprint.                         *)
(***************************************************************************)
cachedAddress(i, fp) ==
    IF contextFingerprint = fp THEN addressCache[i] ELSE None

\* Mutant: the latch holds for the whole execution context.
BindFingerprintOnce(fp) ==
    /\ contextFingerprint' = fp
    /\ IF contextFingerprint = fp
       THEN UNCHANGED <<contextGeneration, addressCache>>
       ELSE /\ contextGeneration' = contextGeneration + 1
            /\ addressCache' = EmptyCache
    /\ IF reconciliationTicket # 0
       THEN UNCHANGED <<latch, mutationQueue>>
       ELSE /\ tickets' = tickets + 1
            /\ reconciledFingerprint' = fp
            /\ reconciliationTicket' = tickets + 1
            /\ bindingVerified' = FALSE
            /\ mutationQueue' = Append(mutationQueue,
                 [kind |-> "reconcile", ticket |-> tickets + 1, fp |-> fp])

\* The synchronous part of bindFingerprint: a changed fingerprint starts a
\* tenure, and a fingerprint with no latched reconciliation queues one.
BindFingerprint(fp) ==
    /\ contextFingerprint' = fp
    /\ IF contextFingerprint = fp
       THEN UNCHANGED <<contextGeneration, addressCache>>
       ELSE /\ contextGeneration' = contextGeneration + 1
            /\ addressCache' = EmptyCache
    /\ IF reconciledFingerprint = fp /\ reconciliationTicket # 0
       THEN UNCHANGED <<latch, mutationQueue>>
       ELSE /\ tickets' = tickets + 1
            /\ reconciledFingerprint' = fp
            /\ reconciliationTicket' = tickets + 1
            /\ bindingVerified' = FALSE
            /\ mutationQueue' = Append(mutationQueue,
                 [kind |-> "reconcile", ticket |-> tickets + 1, fp |-> fp])

\* Whether the reconciliation of ticket t has left the state lock.
Settled(t) ==
    \A i \in DOMAIN mutationQueue :
        mutationQueue[i].kind = "reconcile" => mutationQueue[i].ticket # t

\* Mutant: completions are told apart by fingerprint instead of by ticket.
SettleByFingerprint(job, ok, reset) ==
    /\ IF reconciledFingerprint # job.fp
       THEN UNCHANGED <<reconciledFingerprint, reconciliationTicket, bindingVerified>>
       ELSE IF ok
       THEN bindingVerified' = TRUE
            /\ UNCHANGED <<reconciledFingerprint, reconciliationTicket>>
       ELSE /\ bindingVerified' = FALSE
            /\ reconciledFingerprint' = None
            /\ reconciliationTicket' = 0
    /\ addressCache' = IF reset \/ ~ok THEN EmptyCache ELSE addressCache
    /\ UNCHANGED <<contextFingerprint, contextGeneration, tickets>>

\* What the completion of a reconciliation job does to the context.  Only the
\* ticket's holder speaks for the binding, whichever way the job ended.
SettleReconciliation(job, ok, reset) ==
    /\ IF reconciliationTicket # job.ticket
       THEN UNCHANGED <<reconciledFingerprint, reconciliationTicket, bindingVerified>>
       ELSE IF ok
       THEN bindingVerified' = TRUE
            /\ UNCHANGED <<reconciledFingerprint, reconciliationTicket>>
       ELSE /\ bindingVerified' = FALSE
            /\ reconciledFingerprint' = None
            /\ reconciliationTicket' = 0
    /\ addressCache' = IF reset \/ ~ok THEN EmptyCache ELSE addressCache
    /\ UNCHANGED <<contextFingerprint, contextGeneration, tickets>>

-----------------------------------------------------------------------------
(***************************************************************************)
(* observePrimaryPhrase: name the primary source, fetch its key, name the  *)
(* primary source again, bind, and await the reconciliation.               *)
(***************************************************************************)
ReadSource(r) ==
    /\ \/ At(r, "start") /\ Step(r) \in Observations \ Resolutions
       \/ At(r, "fetch")
    /\ Becomes(r, [req[r] EXCEPT !.at = "confirm", !.seen = primary])
    /\ UNCHANGED <<primary, store, context, mutationQueue>>

\* Mutant: the fetched key is bound without naming the primary source again.
ConfirmNothing(r) ==
    /\ At(r, "confirm")
    /\ BindFingerprint(PhraseOf[req[r].seen])
    /\ Becomes(r, [req[r] EXCEPT !.at = "await", !.ticket = reconciliationTicket'])
    /\ UNCHANGED <<primary, store>>

ConfirmSource(r) ==
    /\ At(r, "confirm")
    /\ IF primary # req[r].seen
       THEN RefuseReq(r) /\ UNCHANGED <<context, mutationQueue>>
       ELSE /\ BindFingerprint(PhraseOf[primary])
            /\ Becomes(r, [req[r] EXCEPT !.at = "await",
                                         !.ticket = reconciliationTicket'])
    /\ UNCHANGED <<primary, store>>

\* The observation r makes is complete: its reconciliation has settled.
Observed(r) == At(r, "await") /\ Settled(req[r].ticket)

\* A newer phrase was observed while this observation awaited.
Superseded(r) == contextFingerprint # PhraseOf[req[r].seen]

Seen(r) == [fp |-> PhraseOf[req[r].seen], source |-> req[r].seen,
            gen |-> contextGeneration]

\* Mutant: the phrase is compared, the tenure is not.
AcceptablePhrase(r) ==
    /\ ~Superseded(r)
    /\ Step(r) = "bind" => bindingVerified
    /\ Step(r) \in Rechecks \cup Resolutions =>
          [Seen(r) EXCEPT !.gen = 0] = [req[r].bnd EXCEPT !.gen = 0]

\* Mutant: fetched addresses are memoized without asking what is primary now.
AcceptableFetch(r) ==
    /\ ~Superseded(r)
    /\ Step(r) = "bind" => bindingVerified
    /\ Step(r) \in Rechecks => Seen(r) = req[r].bnd

\* What a completed observation must find for the step that made it.
Acceptable(r) ==
    /\ ~Superseded(r)
    /\ Step(r) = "bind" => bindingVerified
    /\ Step(r) \in Rechecks \cup Resolutions => Seen(r) = req[r].bnd

ObservationRefused(r) ==
    /\ Observed(r) /\ Step(r) \in Observations
    /\ ~Acceptable(r)
    /\ RefuseReq(r)
    /\ UNCHANGED <<primary, store, context, mutationQueue>>

\* ensureEntropyBinding and resolveSigningAccount keep what they observed.
BindRequest(r) ==
    /\ Observed(r) /\ Step(r) \in {"bind", "observe"}
    /\ Acceptable(r)
    /\ Becomes(r, Advanced([req[r] EXCEPT !.bnd = Seen(r)]))
    /\ UNCHANGED <<primary, store, context, mutationQueue>>

\* assertPhraseUnchanged, and the comparison with a selection's binding.
PhraseUnchanged(r) ==
    /\ Observed(r) /\ Step(r) \in {"match", "unchanged"}
    /\ Acceptable(r)
    /\ Advance(r)
    /\ UNCHANGED <<primary, store, context, mutationQueue>>

-----------------------------------------------------------------------------
(***************************************************************************)
(* Reading the store and resolving addresses.                              *)
(***************************************************************************)

\* isOriginConnected, before anything key-derived is touched.
CheckConnected(r) ==
    /\ At(r, "start") /\ Step(r) = "connected"
    /\ IF HasGrant(store, req[r].call.origin) THEN Advance(r)
       ELSE IF req[r].call.op = "getAddress" THEN Becomes(r, Continued(req[r], << >>))
       ELSE RefuseReq(r)
    /\ UNCHANGED <<primary, store, context, mutationQueue>>

\* ensureEntropyBinding's state read: the store must carry the fingerprint.
TakeSnapshot(r) ==
    /\ At(r, "start") /\ Step(r) = "snapshot"
    /\ IF store.fp # req[r].bnd.fp
       THEN RefuseReq(r)
       ELSE Becomes(r, Advanced([req[r] EXCEPT !.snap = store]))
    /\ UNCHANGED <<primary, store, context, mutationQueue>>

\* ensureEntropyBinding's last comparison of generations, and the guards of
\* the handler it returns to.
Admit(r) ==
    /\ At(r, "start") /\ Step(r) = "admit"
    /\ LET q == req[r]
       IN IF contextGeneration # q.bnd.gen \/ ~Admitted(q.call, q.snap)
          THEN RefuseReq(r)
          ELSE Becomes(r, Continued(q, Plan(q.call, q.snap)))
    /\ UNCHANGED <<primary, store, context, mutationQueue>>

\* A plain state read: by a signing request without a binding of its own, and
\* by a home page that could not get one.
ReadState(r) ==
    /\ At(r, "start") /\ Step(r) = "state"
    /\ LET q == req[r]
       IN Becomes(r, Continued([q EXCEPT !.snap = store],
            IF q.call.op = "home" THEN Degraded(store) ELSE Plan(q.call, store)))
    /\ UNCHANGED <<primary, store, context, mutationQueue>>

\* The indices r is to resolve, and those of them the memo does not hold.
Wants(r)   == Wanted(req[r].call, req[r].snap, Step(r))
Missing(r) == {i \in Wants(r) : cachedAddress(i, req[r].bnd.fp) = None}

\* The request q with its wanted addresses read from the memo: an explicitly
\* requested address must be among them, and none may have gone missing.
Resolved(q, want, cache) ==
    LET found == {[phrase |-> cache[i], index |-> i] : i \in want}
    IN IF \/ \E i \in want : cache[i] = None
          \/ Selects(q.call) /\ Head(q.todo) = "owned" /\ q.call.arg \notin found
       THEN Refused(q)
       ELSE Advanced([q EXCEPT !.addr = {a.phrase : a \in found}])

\* resolveAddresses: every address from the memo, or else the missing keys are
\* fetched from the named source and an observation of the phrase follows.
Resolve(r) ==
    /\ At(r, "start") /\ Step(r) \in Resolutions
    /\ IF Missing(r) = {}
       THEN Becomes(r, Resolved(req[r], Wants(r), addressCache))
       ELSE Becomes(r, [req[r] EXCEPT !.at = "fetch", !.miss = Missing(r)])
    /\ UNCHANGED <<primary, store, context, mutationQueue>>

\* The observation after the keys agrees with the binding, so the fetched
\* addresses enter the memo; the rest are read back from it.
Memoize(r) ==
    /\ Observed(r) /\ Step(r) \in Resolutions
    /\ Acceptable(r)
    /\ addressCache' = [i \in Indices |->
           IF i \in req[r].miss THEN PhraseOf[req[r].bnd.source] ELSE addressCache[i]]
    /\ Becomes(r, Resolved(req[r], Wants(r), addressCache'))
    /\ UNCHANGED <<primary, store, contextFingerprint, contextGeneration, latch,
                   mutationQueue>>

-----------------------------------------------------------------------------
(***************************************************************************)
(* Awaits outside the snap, and the private key.                           *)
(***************************************************************************)

\* The user answers the confirmation dialog of r.
Approve(r) ==
    /\ At(r, "start") /\ Step(r) = "dialog"
    /\ Advance(r)
    /\ UNCHANGED <<primary, store, context, mutationQueue>>

Reject(r) ==
    /\ At(r, "start") /\ Step(r) = "dialog"
    /\ Becomes(r, Ended("rejected"))
    /\ UNCHANGED <<primary, store, context, mutationQueue>>

\* A call to a Stellar endpoint (Horizon, Soroban RPC, Friendbot) settles.
Outward(r) ==
    /\ At(r, "start") /\ Step(r) = "outward"
    /\ Advance(r) \/ RefuseReq(r)
    /\ UNCHANGED <<primary, store, context, mutationQueue>>

\* The signed envelope goes to the submission endpoint, which accepts it or
\* fails.
Submit(r) ==
    /\ At(r, "start") /\ Step(r) = "submit"
    /\ Advance(r) \/ Becomes(r, Continued(req[r], <<"recheck">>))
    /\ UNCHANGED <<primary, store, context, mutationQueue>>

\* The phrase is unchanged after the submission: its reply is believed, or
\* refused for its status or its hash.
SubmissionSettled(r) ==
    /\ Observed(r) /\ Step(r) = "settled"
    /\ Acceptable(r)
    /\ Becomes(r, Continued(req[r], << >>)) \/ Advance(r)
    /\ UNCHANGED <<primary, store, context, mutationQueue>>

\* A failed submission is reported together with the signature.
ReportFailure(r) ==
    /\ Observed(r) /\ Step(r) = "recheck"
    /\ Acceptable(r)
    /\ Becomes(r, Ended("reported"))
    /\ UNCHANGED <<primary, store, context, mutationQueue>>

\* getAccountParentNode: the subtree key of the bound source arrives, and the
\* request still holds its tenure of the primary phrase.
ImportNode(r) ==
    /\ At(r, "start") /\ Step(r) = "import"
    /\ LET bnd == req[r].bnd
       IN IF \/ PhraseOf[bnd.source] # bnd.fp
             \/ primary # bnd.source
             \/ contextGeneration # bnd.gen
          THEN RefuseReq(r) /\ UNCHANGED <<context, mutationQueue>>
          ELSE /\ BindFingerprint(bnd.fp)
               /\ Becomes(r, [req[r] EXCEPT !.at = "await", !.seen = bnd.source,
                                            !.ticket = reconciliationTicket'])
    /\ UNCHANGED <<primary, store>>

NodeBound(r) ==
    /\ Observed(r) /\ Step(r) = "import"
    /\ Advance(r)
    /\ UNCHANGED <<primary, store, context, mutationQueue>>

\* Mutant: the node's currency is not checked after the derivation.
SignWithStaleNode(r) ==
    /\ At(r, "start") /\ Step(r) = "sign"
    /\ Becomes(r, Advanced([req[r] EXCEPT !.key = PhraseOf[req[r].bnd.source]]))
    /\ UNCHANGED <<primary, store, context, mutationQueue>>

\* deriveSigningKeypair and the signature: the node must still be of the
\* current tenure, and its key the one whose address the dialog showed.
Sign(r) ==
    /\ At(r, "start") /\ Step(r) = "sign"
    /\ LET q == req[r]
           key == PhraseOf[q.bnd.source]
       IN IF contextGeneration # q.bnd.gen
          THEN RefuseReq(r) /\ UNCHANGED addressCache
          ELSE IF key \notin q.addr
          THEN RefuseReq(r) /\ addressCache' = EmptyCache
          ELSE /\ Becomes(r, Advanced([q EXCEPT !.key = key]))
               /\ UNCHANGED addressCache
    /\ UNCHANGED <<primary, store, contextFingerprint, contextGeneration, latch,
                   mutationQueue>>

\* withStateLock: the mutator joins the queue.
Enqueue(r) ==
    /\ At(r, "start") /\ Step(r) \in LockSteps
    /\ mutationQueue' = Append(mutationQueue, [kind |-> "request", by |-> r])
    /\ Becomes(r, [req[r] EXCEPT !.at = "queued"])
    /\ UNCHANGED <<primary, store, context>>
=============================================================================
