-------------------------------- MODULE Snap --------------------------------
(***************************************************************************)
(* The stateful core of the snap: concurrent requests bound to the active  *)
(* phrase (EntropyBinding) and the state lock through which they, and the  *)
(* reconciliation of the binding, mutate the persisted store.              *)
(*                                                                         *)
(* withStateLock chains every mutator onto one promise, so its jobs run    *)
(* one at a time in the order they were queued, and a failed job does not  *)
(* stop the next.  A job awaits the platform between its read and its      *)
(* write; the platform may refuse the write, which leaves the store as it  *)
(* was.  The user may switch the primary phrase between any two actions,   *)
(* and MetaMask may terminate the snap, which loses all but the store.     *)
(***************************************************************************)
EXTENDS EntropyBinding

CONSTANTS
    InitialStores, \* what earlier execution contexts may have left persisted
    MaxSwitches,  \* bound on the switches of the primary source
    MaxFailures,  \* bound on the state writes the platform refuses
    MaxCrashes    \* bound on the terminations of the snap

ASSUME SnapAssumption ==
    /\ {MaxSwitches, MaxFailures, MaxCrashes} \subseteq Nat
    /\ \A s \in InitialStores :
          /\ s \in Stores
          /\ \E n \in Indices : s.accounts = 0 .. n
          /\ s.active \in s.accounts
          /\ (\E o \in Origins : HasGrant(s, o)) => s.fp # None

VARIABLES
    lock,      \* the progress of the job at the head of mutationQueue
    consent,   \* site -> the phrase whose approval its latest grant records
    switches, failures, crashes

environment == <<switches, failures, crashes>>

vars == <<primary, store, context, mutationQueue, req, lock, consent, environment>>

\* was: the store read under this lock; new: the store to write; wrote: whether
\* the write has landed; seen: the source the confirmation named.
Free == [phase |-> "get", wrote |-> FALSE, seen |-> None,
         was |-> DefaultState, new |-> DefaultState]

Init ==
    /\ primary \in Sources
    /\ store \in InitialStores
    /\ contextFingerprint = None /\ contextGeneration = 0
    /\ addressCache = EmptyCache
    /\ reconciledFingerprint = None /\ reconciliationTicket = 0
    /\ tickets = 0 /\ bindingVerified = FALSE
    /\ mutationQueue = << >>
    /\ req = [r \in Requests |-> Idle]
    /\ lock = Free
    /\ consent = [o \in Origins |-> IF HasGrant(store, o) THEN store.fp ELSE None]
    /\ switches = 0 /\ failures = 0 /\ crashes = 0

-----------------------------------------------------------------------------
(***************************************************************************)
(* The job at the head of the queue.                                       *)
(***************************************************************************)
Job == Head(mutationQueue)

Holding(phase) == mutationQueue # << >> /\ lock.phase = phase

\* Mutant: a mutator is given the store its request read before the lock.
VerdictOnSnapshot(s) ==
    IF Job.kind = "reconcile" THEN {ReconcileEntropyBinding(s, Job.fp)}
    ELSE LET q == req[Job.by]
         IN Mutation(Head(q.todo), q.call, q.snap, q.bnd.fp,
                     IF q.bnd.fp = None THEN s ELSE q.snap)

\* The verdicts of the job's mutator on the store s.
Verdict(s) ==
    IF Job.kind = "reconcile" THEN {ReconcileEntropyBinding(s, Job.fp)}
    ELSE LET q == req[Job.by]
         IN Mutation(Head(q.todo), q.call, q.snap, q.bnd.fp, s)

Confirms == Job.kind = "request" /\ Head(req[Job.by].todo) \in Confirmed

\* The job ends: its promise settles and the next job takes the lock.
Finish(ok, reset) ==
    /\ mutationQueue' = Tail(mutationQueue)
    /\ lock' = Free
    /\ IF Job.kind = "reconcile"
       THEN SettleReconciliation(Job, ok, reset) /\ UNCHANGED req
       ELSE /\ IF ok THEN Advance(Job.by) ELSE RefuseReq(Job.by)
            /\ UNCHANGED context

\* The mutator's state read, and what it decides.
LockedRead ==
    /\ Holding("get")
    /\ \E v \in Verdict(store) :
          IF v.do = "write"
          THEN /\ lock' = [lock EXCEPT !.phase = IF Confirms THEN "ask" ELSE "write",
                                       !.was = store, !.new = v.new]
               /\ UNCHANGED <<context, mutationQueue, req>>
          ELSE Finish(v.do = "keep", FALSE)
    /\ UNCHANGED <<primary, store, consent, environment>>

\* Mutant: the confirmation binds, and so awaits the latched reconciliation.
ConfirmBinding ==
    /\ Holding("ask")
    /\ Settled(reconciliationTicket)
    /\ lock' = [lock EXCEPT !.phase = "check", !.seen = primary]
    /\ UNCHANGED <<primary, store, context, mutationQueue, req, consent, environment>>

\* assertPhraseUnchangedForCommit binds nothing, so it cannot wait for a
\* reconciliation queued behind this very job: it names the primary source,
\* fetches its key, and names the primary source again.
ConfirmRead ==
    /\ Holding("ask")
    /\ lock' = [lock EXCEPT !.phase = "check", !.seen = primary]
    /\ UNCHANGED <<primary, store, context, mutationQueue, req, consent, environment>>

\* Whether the confirmation finds the phrase, source and tenure of binding b.
Confirmation(b) ==
    /\ PhraseOf[lock.seen] = b.fp
    /\ lock.seen = b.source
    /\ primary = b.source
    /\ contextGeneration = b.gen

\* Mutant: a confirmation that fails after the write refuses and leaves it.
RefuseWithoutUndo ==
    /\ Holding("check")
    /\ LET ok == Confirmation(req[Job.by].bnd)
       IN IF ok /\ ~lock.wrote
          THEN lock' = [lock EXCEPT !.phase = "write"]
               /\ UNCHANGED <<context, mutationQueue, req>>
          ELSE Finish(ok, FALSE)
    /\ UNCHANGED <<primary, store, consent, environment>>

\* Mutant: the confirmation after the write is asked for and not looked at.
CommitOnceWritten ==
    /\ Holding("check")
    /\ IF lock.wrote
       THEN Finish(TRUE, FALSE)
       ELSE IF Confirmation(req[Job.by].bnd)
       THEN lock' = [lock EXCEPT !.phase = "write"]
            /\ UNCHANGED <<context, mutationQueue, req>>
       ELSE Finish(FALSE, FALSE)
    /\ UNCHANGED <<primary, store, consent, environment>>

\* Before the write a failed confirmation refuses; after it, it undoes.
ConfirmCheck ==
    /\ Holding("check")
    /\ LET ok == Confirmation(req[Job.by].bnd)
       IN IF ok /\ ~lock.wrote
          THEN lock' = [lock EXCEPT !.phase = "write"]
               /\ UNCHANGED <<context, mutationQueue, req>>
          ELSE IF ~ok /\ lock.wrote
          THEN lock' = [lock EXCEPT !.phase = "undo"]
               /\ UNCHANGED <<context, mutationQueue, req>>
          ELSE Finish(ok, FALSE)
    /\ UNCHANGED <<primary, store, consent, environment>>

\* The reconciliation of a store bound to another phrase resets it.
Resets == Job.kind = "reconcile" /\ lock.was.fp # None

\* The phrase each site's grant was approved under, once the head job writes.
Consents ==
    IF Job.kind = "reconcile" \/ Head(req[Job.by].todo) \notin {"connect", "grant"}
    THEN consent
    ELSE [consent EXCEPT ![req[Job.by].call.origin] = req[Job.by].bnd.fp]

LockedWrite ==
    /\ Holding("write")
    /\ store' = lock.new
    /\ consent' = Consents
    /\ IF Confirms
       THEN lock' = [lock EXCEPT !.phase = "ask", !.wrote = TRUE]
            /\ UNCHANGED <<context, mutationQueue, req>>
       ELSE Finish(TRUE, Resets)
    /\ UNCHANGED <<primary, environment>>

\* The platform refuses the write: the mutator throws, the store is unchanged.
WriteFails ==
    /\ Holding("write") /\ failures < MaxFailures
    /\ failures' = failures + 1
    /\ Finish(FALSE, FALSE)
    /\ UNCHANGED <<primary, store, consent, switches, crashes>>

\* The rollback write, best effort, before the refusal is rethrown.
Rollback ==
    /\ Holding("undo")
    /\ \/ store' = lock.was /\ UNCHANGED failures
       \/ /\ failures < MaxFailures
          /\ failures' = failures + 1
          /\ UNCHANGED store
    /\ Finish(FALSE, FALSE)
    /\ UNCHANGED <<primary, consent, switches, crashes>>

LockStep ==
    \/ LockedRead \/ ConfirmRead \/ ConfirmCheck
    \/ LockedWrite \/ WriteFails \/ Rollback

-----------------------------------------------------------------------------
(***************************************************************************)
(* The environment.                                                        *)
(***************************************************************************)

\* The user makes another source primary.
Switch ==
    /\ switches < MaxSwitches
    /\ \E s \in Sources \ {primary} : primary' = s
    /\ switches' = switches + 1
    /\ UNCHANGED <<store, context, mutationQueue, req, lock, consent, failures, crashes>>

\* MetaMask terminates the snap (idle, or out of request time): the module
\* variables start over, the callers get no answer, the store persists.
Crash ==
    /\ crashes < MaxCrashes
    /\ crashes' = crashes + 1
    /\ contextFingerprint' = None /\ contextGeneration' = 0
    /\ addressCache' = EmptyCache
    /\ reconciledFingerprint' = None /\ reconciliationTicket' = 0
    /\ tickets' = 0 /\ bindingVerified' = FALSE
    /\ mutationQueue' = << >>
    /\ lock' = Free
    /\ req' = [r \in Requests |->
                 IF Running(r) THEN Ended("lost") ELSE req[r]]
    /\ UNCHANGED <<primary, store, consent, switches, failures>>

\* The step r takes on its own, the user's answers to its dialog included.
RequestStep(r) ==
    /\ \/ ReadSource(r) \/ ConfirmSource(r)
       \/ ObservationRefused(r) \/ BindRequest(r) \/ PhraseUnchanged(r)
       \/ CheckConnected(r) \/ TakeSnapshot(r) \/ Admit(r) \/ ReadState(r)
       \/ Resolve(r) \/ Memoize(r)
       \/ Approve(r) \/ Reject(r) \/ Outward(r)
       \/ Submit(r) \/ SubmissionSettled(r) \/ ReportFailure(r)
       \/ ImportNode(r) \/ NodeBound(r) \/ Sign(r)
       \/ Enqueue(r)
    /\ UNCHANGED <<lock, consent, environment>>

Arrive(r) ==
    /\ \E c \in Calls : Start(r, c)
    /\ UNCHANGED <<lock, consent, environment>>

\* Every call has been answered and the lock is free: nothing is left to do.
Quiet ==
    /\ mutationQueue = << >>
    /\ \A r \in Requests : req[r].outcome \notin {"idle", "running"}
    /\ UNCHANGED vars

Next ==
    \/ \E r \in Requests : Arrive(r) \/ RequestStep(r)
    \/ LockStep
    \/ Switch \/ Crash
    \/ Quiet

Spec == Init /\ [][Next]_vars

\* The platform answers every call it is asked, the user every dialog, and
\* every settled promise resumes its waiters.
Fairness ==
    /\ \A r \in Requests : WF_vars(RequestStep(r))
    /\ WF_vars(LockStep)

FairSpec == Spec /\ Fairness

-----------------------------------------------------------------------------
(***************************************************************************)
(* Types.                                                                  *)
(***************************************************************************)
Bindings == [fp : Phrases \cup {None}, source : Sources \cup {None}, gen : Nat]

Outcomes == {"idle", "running", "returned", "refused", "reported", "rejected", "lost"}

RequestRecords ==
    [call : Calls \cup {None}, todo : Seq(Steps),
     at : {"start", "fetch", "confirm", "await", "queued"},
     seen : Sources \cup {None}, ticket : Nat, bnd : Bindings, snap : Stores,
     miss : SUBSET Indices, addr : SUBSET Phrases, key : Phrases \cup {None},
     outcome : Outcomes]

Locks == [phase : {"get", "ask", "check", "write", "undo"}, wrote : BOOLEAN,
          seen : Sources \cup {None}, was : Stores, new : Stores]

ContextTypeOK ==
    /\ contextFingerprint \in Phrases \cup {None}
    /\ contextGeneration \in Nat
    /\ addressCache \in [Indices -> Phrases \cup {None}]
    /\ reconciledFingerprint \in Phrases \cup {None}
    /\ reconciliationTicket \in Nat /\ tickets \in Nat
    /\ bindingVerified \in BOOLEAN

EnvironmentTypeOK == switches \in Nat /\ failures \in Nat /\ crashes \in Nat

\* The type of every variable.
TypeOK ==
    /\ primary \in Sources
    /\ store \in Stores
    /\ ContextTypeOK
    /\ mutationQueue \in Seq(Jobs)
    /\ req \in [Requests -> RequestRecords]
    /\ lock \in Locks
    /\ consent \in [Origins -> Phrases \cup {None}]
    /\ EnvironmentTypeOK
=============================================================================
