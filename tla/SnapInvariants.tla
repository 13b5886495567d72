--------------------------- MODULE SnapInvariants ---------------------------
(***************************************************************************)
(* The inductive invariants behind the theorems of SnapProofs and          *)
(* BindingProofs.                                                          *)
(***************************************************************************)
EXTENDS SnapProperties

\* The stores the snap writes: the accounts revealed have no gap, and the
\* active account is one of them.
GapFree(s) ==
    /\ \E n \in Indices : s.accounts = 0 .. n
    /\ s.active \in s.accounts

GoodStores == {s \in Stores : GapFree(s)}

\* The steps that only the scripts of a call c hold, once planned over snap.
OwnSteps(c, snap) ==
    CASE c.op = "requestAccess"    -> {"connect"}
      [] c.op = "setActiveAccount" -> {"activate", "target"}
      [] c.op = "useAccount"       -> {"activate"}
      [] c.op = "setNetwork"       -> {"network"}
      [] c.op = "addToken"         -> {"token"}
      [] c.op = "addAccount"       -> {step \in {"target", "reveal"} :
                                          NextAccountIndex(snap) \in Indices}
      [] c.op = "findAccount"      -> {"target", "revealThrough"}
      [] c.op = "disconnect"       -> {"disconnect"}
      [] c.op = "removeToken"      -> {"untoken"}
      [] c.op = "home"             -> {"clearNotice"}
      [] c.op \in Signing          -> {"grant"}
      [] OTHER                     -> {}

Fitting(c, snap) ==
    {"active", "owned", "dialog", "outward", "import", "sign", "submit"}
    \cup Rechecks \cup OwnSteps(c, snap)

\* The scripts a request may have before its plan is made, and those of them
\* that run without a binding, the page of a wallet that refused one included.
Preludes(c) ==
    {Opening(c), Ensure, <<"snapshot", "active", "admit">>,
     <<"active", "admit">>, <<"admit">>, <<"state">>}

Unbound(c) ==
    {Opening(c), Ensure}
    \cup (IF c.op = "home" THEN {<<"state">>, <<"clearNotice">>} ELSE {})

\* A running request's script fits its call and the snapshot it was planned
\* over, its binding names a source once it needs one, and so does an
\* observation in progress.
RequestOK(q) ==
    /\ q.call \in Calls
    /\ q.snap \in GoodStores
    /\ q.todo # << >>
    /\ q.todo \in Preludes(q.call) \/ q.todo \in Seq(Fitting(q.call, q.snap))
    /\ q.todo \in Unbound(q.call) \/ q.bnd.source \in Sources
    /\ q.at \in {"confirm", "await"} => q.seen \in Sources
    /\ q.at = "fetch" => Head(q.todo) \in Resolutions
    /\ q.at = "queued" <=> Head(q.todo) \in LockSteps /\ q.at # "start"

\* A request job in the queue stands for one request, which waits for it.
QueueOK ==
    \A i \in 1 .. Len(mutationQueue) :
        mutationQueue[i].kind = "request" =>
            /\ At(mutationQueue[i].by, "queued")
            /\ \A j \in 1 .. Len(mutationQueue) :
                  mutationQueue[j] = mutationQueue[i] => j = i

\* The request state of every reachable state.
RequestInv ==
    /\ TypeOK
    /\ store \in GoodStores /\ lock.was \in GoodStores /\ lock.new \in GoodStores
    /\ \A r \in Requests : Running(r) => RequestOK(req[r])
    /\ QueueOK

-----------------------------------------------------------------------------
\* What is known of the reconciliations in flight: their tickets follow the
\* order of the queue, only the newest may be latched, and the latched one is
\* for the context's phrase and either has verified the binding or is queued.
LatchOK ==
    /\ reconciliationTicket \in {0, tickets}
    /\ reconciliationTicket # 0 =>
          /\ contextFingerprint # None
          /\ reconciledFingerprint = contextFingerprint
          /\ bindingVerified \/ \E i \in Reconciliations :
                                   mutationQueue[i].ticket = reconciliationTicket
    /\ reconciliationTicket = 0 => ~bindingVerified /\ reconciledFingerprint = None
    /\ \A i \in Reconciliations :
          /\ mutationQueue[i].ticket <= tickets
          /\ mutationQueue[i].ticket = reconciliationTicket =>
                mutationQueue[i].fp = contextFingerprint
    /\ \A i, j \in Reconciliations :
          i < j => mutationQueue[i].ticket < mutationQueue[j].ticket

\* What is known of the job that holds the lock: the store is as the job read
\* it until its write lands, and only a reconciliation writes a fingerprint.
LockOK ==
    /\ mutationQueue = << >> => lock.phase = "get"
    /\ mutationQueue # << >> /\ lock.phase # "get" =>
          /\ lock.was.fp = store.fp
          /\ IF Job.kind = "reconcile"
             THEN lock.phase = "write" /\ lock.new.fp = Job.fp
             ELSE lock.new.fp = store.fp

BindingInv ==
    /\ LatchOK
    /\ LockOK
    /\ VerifiedMeansReconciled

-----------------------------------------------------------------------------
\* The fingerprint of a binding is that of the phrase behind its source.
BoundOK ==
    \A r \in Requests :
        req[r].bnd.source \in Sources => req[r].bnd.fp = PhraseOf[req[r].bnd.source]

\* Every grant of the store s was given under the phrase s is bound to.
Rightful(s, given) ==
    \A o \in Origins : HasGrant(s, o) => s.fp # None /\ given[o] = s.fp

\* The grants of the store, and of the two stores the job under the lock may
\* leave there: the one it read, and the one it is about to write.
GrantInv ==
    /\ BoundOK
    /\ Rightful(store, consent)
    /\ mutationQueue # << >> /\ lock.phase # "get" =>
          Rightful(lock.was, consent) /\ Rightful(lock.new, Consents)

-----------------------------------------------------------------------------
\* Where the job that holds the lock stands: what it is to write is a verdict on
\* the store it read, the store is one or the other as its write has landed or
\* not, and only a job that confirms looks back after its write.
LockDecided ==
    /\ lock.phase = "get" => ~lock.wrote
    /\ mutationQueue # << >> /\ lock.phase # "get" =>
          /\ \E v \in Verdict(lock.was) : v.do = "write" /\ v.new = lock.new
          /\ store = IF lock.wrote THEN lock.new ELSE lock.was
          /\ lock.phase \in {"ask", "check", "undo"} => Confirms
          /\ lock.phase = "write" => ~lock.wrote
          /\ lock.phase = "undo" => lock.wrote

-----------------------------------------------------------------------------
\* The steps that a call c of an answering method ends with.
LastSteps(c) ==
    {"unchanged", "admit", "recheck"} \cup (IF c.op \in Signing THEN {"state"} ELSE {})

\* A binding b whose tenure is the context's gen is of the context's phrase fp.
Tenable(b, gen, fp) ==
    b.source \in Sources => b.gen <= gen /\ (b.gen = gen => b.fp = fp)

\* The addresses the request q holds are of the phrase it is bound to, there are
\* none before it is bound, and what an answering method ends with is a step
\* that compares its tenure with the context's.
Tenured(q, gen, fp) ==
    /\ q.addr \subseteq {q.bnd.fp}
    /\ Head(q.todo) \in {"connected", "bind", "observe"} => q.addr = {}
    /\ Tenable(q.bnd, gen, fp)
    /\ q.call.op \in Answering => q.todo[Len(q.todo)] \in LastSteps(q.call)

TenureInv ==
    \A r \in Requests :
        Running(r) => Tenured(req[r], contextGeneration, contextFingerprint)
=============================================================================
