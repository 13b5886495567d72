---------------------------- MODULE BindingProofs ----------------------------
(***************************************************************************)
(* The binding of the store to the active phrase is sound in every         *)
(* behaviour, and so are the grants kept under it: BindingInv is inductive *)
(* relative to RequestInv, and GrantInv relative to both.  Then, what a    *)
(* user approved is what happens, in the tenure it was approved in:        *)
(* LockDecided and TenureInv are inductive, relative to the three, and the *)
(* action properties of the commits, the signatures and the answers follow *)
(* from them.                                                              *)
(***************************************************************************)
EXTENDS SnapProofs

\* The reconciliations in the queue are records with a ticket and a phrase.
LEMMA ReconciliationJobs ==
    ASSUME RequestInv
    PROVE  /\ Reconciliations = {i \in 1 .. Len(mutationQueue) : mutationQueue[i].kind = "reconcile"}
           /\ \A i \in Reconciliations :
                 mutationQueue[i].ticket \in Nat \ {0} /\ mutationQueue[i].fp \in Phrases
<1>1. mutationQueue \in Seq(Jobs)
  BY InvParts
<1>2. DOMAIN mutationQueue = 1 .. Len(mutationQueue)
  BY <1>1, LenProperties
<1>3. \A i \in 1 .. Len(mutationQueue) : mutationQueue[i] \in Jobs
  BY <1>1, ElementOfSeq
<1> QED BY <1>2, <1>3 DEF Reconciliations, Jobs

\* When neither the context, the lock, the queue nor the fingerprint of the
\* store changes, nothing that BindingInv speaks of does.
LEMMA BindingKept ==
    ASSUME BindingInv,
           UNCHANGED <<contextFingerprint, reconciledFingerprint, reconciliationTicket,
                       tickets, bindingVerified, mutationQueue, lock>>,
           store'.fp = store.fp
    PROVE  BindingInv'
<1>1. Reconciliations' = Reconciliations
  BY DEF Reconciliations
<1>2. LatchOK'
  BY <1>1 DEF BindingInv, LatchOK
<1>3. LockOK'
  BY DEF BindingInv, LockOK, Job
<1>4. VerifiedMeansReconciled'
  BY <1>1 DEF BindingInv, VerifiedMeansReconciled
<1> QED BY <1>2, <1>3, <1>4 DEF BindingInv

\* The jobs in the queue stay, and a job joins it.
LEMMA JobJoins ==
    ASSUME RequestInv, NEW job \in Jobs, mutationQueue' = Append(mutationQueue, job)
    PROVE  /\ Len(mutationQueue) \in Nat /\ mutationQueue' # << >>
           /\ mutationQueue # << >> => Job' = Job
           /\ \A i \in 1 .. Len(mutationQueue) : mutationQueue'[i] = mutationQueue[i]
           /\ mutationQueue'[Len(mutationQueue) + 1] = job
           /\ Reconciliations' = Reconciliations \cup
                 (IF job.kind = "reconcile" THEN {Len(mutationQueue) + 1} ELSE {})
<1> DEFINE n == Len(mutationQueue)
<1>1. mutationQueue \in Seq(Jobs) /\ n \in Nat
  BY InvParts, LenProperties
<1>2. /\ mutationQueue' \in Seq(Jobs) /\ Len(mutationQueue') = n + 1
      /\ \A i \in 1 .. n : mutationQueue'[i] = mutationQueue[i]
      /\ mutationQueue'[n + 1] = job
  BY <1>1, AppendProperties
<1>3. DOMAIN mutationQueue' = 1 .. n + 1 /\ DOMAIN mutationQueue = 1 .. n
  BY <1>1, <1>2, LenProperties
<1>4. Reconciliations' = Reconciliations \cup (IF job.kind = "reconcile" THEN {n + 1} ELSE {})
  BY <1>1, <1>2, <1>3 DEF Reconciliations
<1>5. mutationQueue # << >> => Job' = Job
  BY <1>1, <1>2, EmptySeq DEF Job
<1> QED BY <1>1, <1>2, <1>4, <1>5

\* A request's mutator joins the queue.
LEMMA EnqueueBinding ==
    ASSUME RequestInv, BindingInv, NEW r \in Requests, Enqueue(r), UNCHANGED lock
    PROVE  BindingInv'
<1> DEFINE job == [kind |-> "request", by |-> r]
<1>1. job \in Jobs /\ job.kind # "reconcile" /\ mutationQueue' = Append(mutationQueue, job)
  BY DEF Jobs, Enqueue
<1>2. /\ Reconciliations' = Reconciliations
      /\ \A i \in Reconciliations : mutationQueue'[i] = mutationQueue[i]
      /\ mutationQueue # << >> => Job' = Job
      /\ mutationQueue' # << >>
  BY <1>1, JobJoins, ReconciliationJobs
<1>3. UNCHANGED <<store, contextFingerprint, reconciledFingerprint, reconciliationTicket,
                 tickets, bindingVerified>>
  BY Zenon DEF Enqueue, context
<1>4. LatchOK'
  BY <1>2, <1>3 DEF BindingInv, LatchOK
<1>5. LockOK'
  BY <1>2, <1>3 DEF BindingInv, LockOK
<1>6. VerifiedMeansReconciled'
  BY <1>2, <1>3 DEF BindingInv, VerifiedMeansReconciled
<1> QED BY <1>4, <1>5, <1>6 DEF BindingInv

\* An observed fingerprint is bound: the latch holds for it already, or a new
\* reconciliation with the largest ticket so far takes the latch over.
LEMMA BindFingerprintBinding ==
    ASSUME RequestInv, BindingInv, NEW fp \in Phrases, BindFingerprint(fp),
           UNCHANGED <<store, lock>>
    PROVE  BindingInv'
<1>1. fp # None /\ tickets \in Nat /\ reconciliationTicket \in Nat
  BY StoreAssumption, InvParts DEF ContextTypeOK
<1>2. CASE reconciledFingerprint = fp /\ reconciliationTicket # 0
  <2>1. contextFingerprint' = contextFingerprint
    BY <1>2 DEF BindFingerprint, BindingInv, LatchOK
  <2>2. UNCHANGED <<reconciledFingerprint, reconciliationTicket, tickets, bindingVerified,
                   mutationQueue>>
    BY <1>2, Zenon DEF BindFingerprint, latch
  <2> QED BY <2>1, <2>2, BindingKept
<1>3. CASE ~(reconciledFingerprint = fp /\ reconciliationTicket # 0)
  <2> DEFINE job == [kind |-> "reconcile", ticket |-> tickets + 1, fp |-> fp]
             n == Len(mutationQueue)
  <2>1. /\ contextFingerprint' = fp /\ reconciledFingerprint' = fp
        /\ tickets' = tickets + 1 /\ reconciliationTicket' = tickets + 1
        /\ mutationQueue' = Append(mutationQueue, job)
    BY <1>3 DEF BindFingerprint
  <2>2. ~bindingVerified'
    BY <1>3, Zenon DEF BindFingerprint
  <2>3. job \in Jobs /\ job.kind = "reconcile"
    BY <1>1 DEF Jobs
  <2>4. /\ Reconciliations' = Reconciliations \cup {n + 1}
        /\ \A i \in Reconciliations : mutationQueue'[i] = mutationQueue[i] /\ i \in 1 .. n
        /\ mutationQueue'[n + 1] = job /\ n \in Nat
        /\ mutationQueue # << >> => Job' = Job
        /\ mutationQueue' # << >>
    BY <2>1, <2>3, JobJoins, ReconciliationJobs
  <2>5. \A i \in Reconciliations : mutationQueue[i].ticket \in Nat
                                  /\ mutationQueue[i].ticket <= tickets
    BY ReconciliationJobs DEF BindingInv, LatchOK
  <2>6. mutationQueue'[n + 1].ticket = tickets + 1 /\ mutationQueue'[n + 1].fp = fp
    BY <2>4
  <2>7. /\ contextFingerprint' = fp /\ reconciledFingerprint' = fp
        /\ tickets' = tickets + 1 /\ reconciliationTicket' = tickets + 1
    BY <2>1
  <2>8. /\ Reconciliations' = Reconciliations \cup {n + 1}
        /\ \A i \in Reconciliations : mutationQueue'[i] = mutationQueue[i] /\ i \in 1 .. n
        /\ n \in Nat
    BY <2>4
  <2> HIDE DEF n, job
  <2>9. LatchOK'
    <3>1. reconciliationTicket' \in {0, tickets'} /\ reconciliationTicket' # 0
      BY <1>1, <2>7
    <3>2. /\ contextFingerprint' # None /\ reconciledFingerprint' = contextFingerprint'
          /\ \E i \in Reconciliations' : mutationQueue'[i].ticket = reconciliationTicket'
      BY <1>1, <2>6, <2>7, <2>8
    <3>3. \A i \in Reconciliations' :
             /\ mutationQueue'[i].ticket <= tickets'
             /\ mutationQueue'[i].ticket = reconciliationTicket' =>
                   mutationQueue'[i].fp = contextFingerprint'
      BY <1>1, <2>5, <2>6, <2>7, <2>8
    <3>4. \A i, j \in Reconciliations' :
             i < j => mutationQueue'[i].ticket < mutationQueue'[j].ticket
      <4> TAKE i, j \in Reconciliations'
      <4> HAVE i < j
      <4>1. i \in Reconciliations
        BY <2>8
      <4>2. CASE j \in Reconciliations
        BY <2>8, <4>1, <4>2 DEF BindingInv, LatchOK
      <4>3. CASE j = n + 1
        BY <1>1, <2>5, <2>6, <2>8, <4>1, <4>3
      <4> QED BY <2>8, <4>2, <4>3
    <3> QED BY <3>1, <3>2, <3>3, <3>4 DEF LatchOK
  <2>10. LockOK'
    BY <2>4 DEF BindingInv, LockOK
  <2>11. VerifiedMeansReconciled'
    BY <2>2 DEF VerifiedMeansReconciled
  <2> QED BY <2>9, <2>10, <2>11 DEF BindingInv
<1> QED BY <1>2, <1>3

-----------------------------------------------------------------------------
\* The head job leaves the queue: the reconciliations behind it move up.
LEMMA HeadLeaves ==
    ASSUME RequestInv, mutationQueue # << >>, mutationQueue' = Tail(mutationQueue)
    PROVE  /\ Job.kind = "reconcile" <=> 1 \in Reconciliations
           /\ Job = mutationQueue[1]
           /\ Reconciliations' = {i \in Nat \ {0} : i + 1 \in Reconciliations}
           /\ \A i \in Reconciliations' : mutationQueue'[i] = mutationQueue[i + 1]
           /\ \A i \in Reconciliations : i \in Nat \ {0}
           /\ \A i \in Reconciliations : i # 1 =>
                 i - 1 \in Reconciliations' /\ mutationQueue'[i - 1] = mutationQueue[i]
<1> DEFINE n == Len(mutationQueue)
<1>1. mutationQueue \in Seq(Jobs) /\ n \in Nat /\ n >= 1 /\ Job = mutationQueue[1]
  BY InvParts, LenProperties, EmptySeq DEF Job
<1>2. /\ mutationQueue' \in Seq(Jobs) /\ Len(mutationQueue') = n - 1
      /\ \A i \in 1 .. n - 1 : mutationQueue'[i] = mutationQueue[i + 1]
  BY <1>1, HeadTailProperties
<1>3. DOMAIN mutationQueue' = 1 .. n - 1 /\ DOMAIN mutationQueue = 1 .. n
  BY <1>1, <1>2, LenProperties
<1> HIDE DEF n
<1>4. Job.kind = "reconcile" <=> 1 \in Reconciliations
  BY <1>1, <1>3 DEF Reconciliations
<1>5. Reconciliations' = {i \in Nat \ {0} : i + 1 \in Reconciliations}
  BY <1>1, <1>2, <1>3 DEF Reconciliations
<1>6. \A i \in Reconciliations' : mutationQueue'[i] = mutationQueue[i + 1]
  BY <1>2, <1>3 DEF Reconciliations
<1>7. \A i \in Reconciliations : i \in Nat \ {0}
  BY <1>1, <1>3 DEF Reconciliations
<1>8. \A i \in Reconciliations : i # 1 =>
         i - 1 \in Reconciliations' /\ mutationQueue'[i - 1] = mutationQueue[i]
  <2> SUFFICES ASSUME NEW i \in Reconciliations, i # 1
               PROVE  i - 1 \in Reconciliations' /\ mutationQueue'[i - 1] = mutationQueue[i]
    OBVIOUS
  <2>1. i - 1 \in Nat \ {0} /\ (i - 1) + 1 = i
    BY <1>7
  <2>2. i - 1 \in Reconciliations'
    BY <1>5, <2>1
  <2> QED BY <1>6, <2>1, <2>2
<1> QED BY <1>1, <1>4, <1>5, <1>6, <1>7, <1>8

\* A request's mutator leaves the lock and the fingerprint of the store alone.
LEMMA RequestFinishes ==
    ASSUME RequestInv, BindingInv, mutationQueue # << >>, Job.kind = "request",
           NEW ok \in BOOLEAN, NEW reset \in BOOLEAN, Finish(ok, reset), store'.fp = store.fp
    PROVE  BindingInv'
<1>1. mutationQueue' = Tail(mutationQueue) /\ lock' = Free
  BY DEF Finish
<1>2. UNCHANGED <<contextFingerprint, reconciledFingerprint, reconciliationTicket, tickets,
                 bindingVerified>>
  BY Zenon DEF Finish, context
<1>3. /\ 1 \notin Reconciliations
      /\ Reconciliations' = {i \in Nat \ {0} : i + 1 \in Reconciliations}
      /\ \A i \in Reconciliations' : mutationQueue'[i] = mutationQueue[i + 1]
      /\ \A i \in Reconciliations : i \in Nat \ {0}
      /\ \A i \in Reconciliations :
            i - 1 \in Reconciliations' /\ mutationQueue'[i - 1] = mutationQueue[i]
  BY <1>1, HeadLeaves
<1>4. LatchOK'
  <2>1. /\ reconciliationTicket' \in {0, tickets'}
        /\ reconciliationTicket' # 0 =>
              /\ contextFingerprint' # None
              /\ reconciledFingerprint' = contextFingerprint'
        /\ reconciliationTicket' = 0 => reconciledFingerprint' = None
    BY <1>2 DEF BindingInv, LatchOK
  <2>2. reconciliationTicket' # 0 => \/ bindingVerified'
                                     \/ \E i \in Reconciliations' :
                                           mutationQueue'[i].ticket = reconciliationTicket'
    <3> SUFFICES ASSUME reconciliationTicket # 0, ~bindingVerified
                 PROVE  \E i \in Reconciliations' :
                           mutationQueue'[i].ticket = reconciliationTicket
      BY <1>2
    <3>1. PICK i \in Reconciliations : mutationQueue[i].ticket = reconciliationTicket
      BY Zenon DEF BindingInv, LatchOK
    <3> QED BY <1>3, <3>1
  <2>3. reconciliationTicket' = 0 => ~bindingVerified'
    BY <1>2, Zenon DEF BindingInv, LatchOK
  <2>4. \A i \in Reconciliations' :
           /\ mutationQueue'[i].ticket <= tickets'
           /\ mutationQueue'[i].ticket = reconciliationTicket' =>
                 mutationQueue'[i].fp = contextFingerprint'
    BY <1>2, <1>3 DEF BindingInv, LatchOK
  <2>5. \A i, j \in Reconciliations' :
           i < j => mutationQueue'[i].ticket < mutationQueue'[j].ticket
    BY <1>3 DEF BindingInv, LatchOK
  <2> QED BY <2>1, <2>2, <2>3, <2>4, <2>5, Zenon DEF LatchOK
<1>5. LockOK'
  BY <1>1 DEF LockOK, Free
<1>6. VerifiedMeansReconciled'
  <2> SUFFICES ASSUME bindingVerified
               PROVE  /\ contextFingerprint' # None /\ store'.fp = contextFingerprint'
                      /\ Reconciliations' = {}
    BY <1>2, Zenon DEF VerifiedMeansReconciled
  <2>1. contextFingerprint # None /\ store.fp = contextFingerprint /\ Reconciliations = {}
    BY Zenon DEF BindingInv, VerifiedMeansReconciled
  <2> QED BY <1>2, <1>3, <2>1
<1> QED BY <1>4, <1>5, <1>6 DEF BindingInv

\* A reconciliation leaves the lock: the store has its fingerprint if it went
\* well.  If it holds the latest ticket it was the last one in the queue; if
\* it does not, its outcome says nothing about the binding.
LEMMA ReconciliationFinishes ==
    ASSUME RequestInv, BindingInv, mutationQueue # << >>, Job.kind = "reconcile",
           NEW ok \in BOOLEAN, NEW reset \in BOOLEAN, Finish(ok, reset),
           ok => store'.fp = Job.fp
    PROVE  BindingInv'
<1>1. /\ mutationQueue' = Tail(mutationQueue) /\ lock' = Free
      /\ SettleReconciliation(Job, ok, reset)
  BY DEF Finish
<1>2. /\ 1 \in Reconciliations /\ Job = mutationQueue[1]
      /\ Reconciliations' = {i \in Nat \ {0} : i + 1 \in Reconciliations}
      /\ \A i \in Reconciliations' : mutationQueue'[i] = mutationQueue[i + 1]
      /\ \A i \in Reconciliations : i \in Nat \ {0}
      /\ \A i \in Reconciliations : i # 1 =>
            i - 1 \in Reconciliations' /\ mutationQueue'[i - 1] = mutationQueue[i]
  BY <1>1, HeadLeaves
<1>3. /\ \A i \in Reconciliations : /\ mutationQueue[i].ticket \in Nat \ {0}
                                    /\ mutationQueue[i].ticket <= tickets
                                    /\ mutationQueue[i].fp \in Phrases
      /\ Job.ticket \in Nat \ {0} /\ Job.fp \in Phrases /\ tickets \in Nat
  BY <1>2, ReconciliationJobs, InvParts DEF BindingInv, LatchOK, ContextTypeOK
<1>4. UNCHANGED <<contextFingerprint, contextGeneration, tickets>>
  BY <1>1 DEF SettleReconciliation
<1>5. LockOK'
  BY <1>1 DEF LockOK, Free
<1>6. /\ \A i \in Reconciliations' : mutationQueue'[i].ticket \in Nat \ {0}
                                     /\ mutationQueue'[i].ticket <= tickets'
      /\ \A i, j \in Reconciliations' :
            i < j => mutationQueue'[i].ticket < mutationQueue'[j].ticket
  <2>1. \A i \in Reconciliations' : i \in Nat /\ i + 1 \in Reconciliations
                                   /\ mutationQueue'[i] = mutationQueue[i + 1]
    BY <1>2
  <2>2. \A i, j \in Reconciliations : i < j => mutationQueue[i].ticket < mutationQueue[j].ticket
    BY DEF BindingInv, LatchOK
  <2>3. \A i, j \in Reconciliations' : i < j => i + 1 < j + 1
    BY <2>1
  <2>4. \A i, j \in Reconciliations' :
           i < j => mutationQueue'[i].ticket < mutationQueue'[j].ticket
    BY <2>1, <2>2, <2>3
  <2>5. \A i \in Reconciliations' : mutationQueue'[i].ticket \in Nat \ {0}
                                   /\ mutationQueue'[i].ticket <= tickets'
    BY <1>3, <1>4, <2>1
  <2> QED BY <2>4, <2>5
<1>7. ~bindingVerified
  BY <1>2, Zenon DEF BindingInv, VerifiedMeansReconciled
<1>8. CASE reconciliationTicket # Job.ticket
  <2>1. UNCHANGED <<reconciledFingerprint, reconciliationTicket, bindingVerified>>
    BY <1>1, <1>8, Zenon DEF SettleReconciliation
  <2>2. ~bindingVerified'
    BY <1>7, <2>1, Zenon
  <2>3. /\ reconciliationTicket' \in {0, tickets'}
        /\ reconciliationTicket' # 0 =>
              /\ contextFingerprint' # None
              /\ reconciledFingerprint' = contextFingerprint'
        /\ reconciliationTicket' = 0 => reconciledFingerprint' = None
    BY <1>4, <2>1 DEF BindingInv, LatchOK
  <2>4. reconciliationTicket' # 0 => \E i \in Reconciliations' :
                                       mutationQueue'[i].ticket = reconciliationTicket'
    <3> SUFFICES ASSUME reconciliationTicket # 0
                 PROVE  \E i \in Reconciliations' :
                           mutationQueue'[i].ticket = reconciliationTicket
      BY <2>1
    <3>1. PICK i \in Reconciliations : mutationQueue[i].ticket = reconciliationTicket
      BY <1>7, Zenon DEF BindingInv, LatchOK
    <3>2. i # 1
      BY <1>2, <1>8, <3>1
    <3> QED BY <1>2, <3>1, <3>2
  <2>5. \A i \in Reconciliations' :
           mutationQueue'[i].ticket = reconciliationTicket' =>
              mutationQueue'[i].fp = contextFingerprint'
    BY <1>2, <1>4, <2>1 DEF BindingInv, LatchOK
  <2>6. LatchOK'
    BY <1>6, <2>2, <2>3, <2>4, <2>5, Zenon DEF LatchOK
  <2>7. VerifiedMeansReconciled'
    BY <2>2, Zenon DEF VerifiedMeansReconciled
  <2> QED BY <1>5, <2>6, <2>7 DEF BindingInv
<1>9. CASE reconciliationTicket = Job.ticket
  <2>1. /\ reconciliationTicket = tickets /\ reconciliationTicket # 0
        /\ contextFingerprint # None /\ reconciledFingerprint = contextFingerprint
        /\ Job.fp = contextFingerprint
    BY <1>2, <1>3, <1>9 DEF BindingInv, LatchOK
  <2>2. Reconciliations' = {}
    <3> SUFFICES ASSUME NEW i \in Reconciliations' PROVE FALSE
      OBVIOUS
    <3>1. i + 1 \in Reconciliations /\ 1 < i + 1
      BY <1>2
    <3>2. Job.ticket < mutationQueue[i + 1].ticket
      BY <1>2, <3>1 DEF BindingInv, LatchOK
    <3> QED BY <1>3, <1>9, <2>1, <3>1, <3>2
  <2>3. CASE ok
    <3>1. UNCHANGED <<reconciledFingerprint, reconciliationTicket>>
      BY <1>1, <1>9, <2>3, Zenon DEF SettleReconciliation
    <3>2. bindingVerified'
      BY <1>1, <1>9, <2>3, Zenon DEF SettleReconciliation
    <3>3. store'.fp = contextFingerprint'
      BY <1>4, <2>1, <2>3
    <3>4. /\ reconciliationTicket' \in {0, tickets'} /\ reconciliationTicket' # 0
          /\ contextFingerprint' # None
          /\ reconciledFingerprint' = contextFingerprint'
      BY <1>4, <2>1, <3>1
    <3>5. LatchOK'
      BY <2>2, <3>2, <3>4, Zenon DEF LatchOK
    <3>6. VerifiedMeansReconciled'
      BY <2>2, <3>3, <3>4, Zenon DEF VerifiedMeansReconciled
    <3> QED BY <1>5, <3>5, <3>6 DEF BindingInv
  <2>4. CASE ~ok
    <3>1. reconciledFingerprint' = None /\ reconciliationTicket' = 0
      BY <1>1, <1>9, <2>4, Zenon DEF SettleReconciliation
    <3>2. ~bindingVerified'
      BY <1>1, <1>9, <2>4, Zenon DEF SettleReconciliation
    <3>3. reconciliationTicket' \in {0, tickets'}
      BY <3>1
    <3>4. LatchOK'
      BY <2>2, <3>1, <3>2, <3>3, Zenon DEF LatchOK
    <3>5. VerifiedMeansReconciled'
      BY <3>2, Zenon DEF VerifiedMeansReconciled
    <3> QED BY <1>5, <3>4, <3>5 DEF BindingInv
  <2> QED BY <2>3, <2>4
<1> QED BY <1>8, <1>9

\* The job holds on to the lock, its place in the queue and the context.
LEMMA LockBinding ==
    ASSUME BindingInv, UNCHANGED <<context, mutationQueue>>, LockOK', store'.fp = store.fp
    PROVE  BindingInv'
<1>1. UNCHANGED <<contextFingerprint, reconciledFingerprint, reconciliationTicket, tickets,
                 bindingVerified, mutationQueue>>
  BY Zenon DEF context
<1>2. Reconciliations' = Reconciliations
  BY <1>1 DEF Reconciliations
<1>3. LatchOK'
  BY <1>1, <1>2 DEF BindingInv, LatchOK
<1>4. VerifiedMeansReconciled'
  BY <1>1, <1>2 DEF BindingInv, VerifiedMeansReconciled
<1> QED BY <1>3, <1>4 DEF BindingInv

\* The head job reads the store: what it will write carries the fingerprint
\* it read, or the one its reconciliation is for.
LEMMA LockedReadBinding ==
    ASSUME RequestInv, BindingInv, LockedRead
    PROVE  BindingInv'
<1>1. mutationQueue # << >> /\ lock.phase = "get" /\ store' = store
  BY DEF LockedRead, Holding
<1>2. PICK v \in Verdict(store) :
         IF v.do = "write"
         THEN /\ lock' = [lock EXCEPT !.phase = IF Confirms THEN "ask" ELSE "write",
                                      !.was = store, !.new = v.new]
              /\ UNCHANGED <<context, mutationQueue, req>>
         ELSE Finish(v.do = "keep", FALSE)
  BY DEF LockedRead
<1>3. store \in GoodStores /\ lock \in Locks
  BY InvParts
<1>4. ASSUME Job.kind = "reconcile"
      PROVE  /\ v.new.fp = Job.fp /\ ~Confirms
             /\ v.do = "keep" => store.fp = Job.fp
  <2>1. Job.fp \in Phrases /\ v = ReconcileEntropyBinding(store, Job.fp)
    BY <1>1, <1>4, HeadJob DEF Verdict, Jobs
  <2>2. v.new.fp = Job.fp
    BY <1>3, <2>1, ReconcileIsGood
  <2>3. v.do = "keep" => store.fp = Job.fp
    BY <2>1 DEF ReconcileEntropyBinding, Keep, Write
  <2> QED BY <1>4, <2>2, <2>3 DEF Confirms
<1>5. ASSUME Job.kind = "request"
      PROVE  v.new.fp = store.fp
  <2> DEFINE q == req[Job.by]
  <2>1. /\ Good(q) /\ q.outcome = "running" /\ Head(q.todo) \in LockSteps
        /\ Head(q.todo) \in OwnSteps(q.call, q.snap)
    BY <1>1, <1>5, HeadJob DEF Step
  <2>2. q.call \in AllCalls /\ q.snap \in GoodStores
    BY <2>1, StepShape
  <2>3. v \in Mutation(Head(q.todo), q.call, q.snap, q.bnd.fp, store)
    BY <1>5 DEF Verdict
  <2> QED BY <1>3, <2>1, <2>2, <2>3, MutationIsGood DEF GoodVerdict
<1>6. CASE v.do = "write"
  <2>1. /\ lock' = [lock EXCEPT !.phase = IF Confirms THEN "ask" ELSE "write",
                                !.was = store, !.new = v.new]
        /\ UNCHANGED <<context, mutationQueue>>
    BY <1>2, <1>6
  <2>2. /\ lock'.was = store /\ lock'.new = v.new
        /\ lock'.phase = IF Confirms THEN "ask" ELSE "write"
    BY <1>3, <2>1 DEF Locks
  <2>3. LockOK'
    BY <1>1, <1>4, <1>5, <2>1, <2>2, HeadJob DEF LockOK, Job, Jobs
  <2> QED BY <1>1, <2>1, <2>3, LockBinding
<1>7. CASE v.do # "write"
  <2>1. Finish(v.do = "keep", FALSE) /\ (v.do = "keep") \in BOOLEAN /\ FALSE \in BOOLEAN
    BY <1>2, <1>7
  <2>2. CASE Job.kind = "reconcile"
    BY <1>1, <1>4, <2>1, <2>2, ReconciliationFinishes
  <2>3. CASE Job.kind = "request"
    BY <1>1, <2>1, <2>3, RequestFinishes
  <2> QED BY <1>1, <2>2, <2>3, HeadJob DEF Jobs
<1> QED BY <1>6, <1>7

\* The confirmations of a commit touch no reconciliation.
LEMMA ConfirmBindingKept ==
    ASSUME RequestInv, BindingInv, ConfirmRead \/ ConfirmCheck
    PROVE  BindingInv'
<1>1. mutationQueue # << >> /\ lock.phase \in {"ask", "check"} /\ store' = store
  BY DEF ConfirmRead, ConfirmCheck, Holding
<1>2. /\ Job.kind = "request" /\ lock.was.fp = store.fp /\ lock.new.fp = store.fp
      /\ lock \in Locks
  BY <1>1, HeadJob, InvParts DEF BindingInv, LockOK, Jobs
<1>3. ASSUME lock'.was = lock.was, lock'.new = lock.new, UNCHANGED <<context, mutationQueue>>
      PROVE  BindingInv'
  <2>1. LockOK'
    BY <1>1, <1>2, <1>3 DEF LockOK, Job
  <2> QED BY <1>1, <1>3, <2>1, LockBinding
<1>4. CASE ConfirmRead
  <2>1. lock'.was = lock.was /\ lock'.new = lock.new /\ UNCHANGED <<context, mutationQueue>>
    BY <1>2, <1>4 DEF ConfirmRead, Locks
  <2> QED BY <1>3, <2>1
<1>5. CASE ConfirmCheck
  <2> DEFINE ok == Confirmation(req[Job.by].bnd)
  <2>1. ASSUME NEW phase, lock' = [lock EXCEPT !.phase = phase],
               UNCHANGED <<context, mutationQueue, req>>
        PROVE  BindingInv'
    <3>1. lock'.was = lock.was /\ lock'.new = lock.new
      BY <1>2, <2>1 DEF Locks
    <3> QED BY <1>3, <2>1, <3>1
  <2>2. CASE Finish(ok, FALSE)
    <3>1. ok \in BOOLEAN /\ FALSE \in BOOLEAN
      BY DEF Confirmation
    <3> QED BY <1>1, <1>2, <2>2, <3>1, RequestFinishes
  <2> QED BY <1>5, <2>1, <2>2 DEF ConfirmCheck
<1> QED BY <1>4, <1>5

\* A write lands: only a reconciliation changes the store's fingerprint.
LEMMA LockedWriteBinding ==
    ASSUME RequestInv, BindingInv, LockedWrite
    PROVE  BindingInv'
<1>1. mutationQueue # << >> /\ lock.phase = "write" /\ store' = lock.new
  BY DEF LockedWrite, Holding
<1>2. /\ lock.was.fp = store.fp /\ lock \in Locks /\ Job \in Jobs
      /\ Job.kind = "reconcile" => lock.new.fp = Job.fp
      /\ Job.kind = "request" => lock.new.fp = store.fp
  BY <1>1, HeadJob, InvParts DEF BindingInv, LockOK
<1>3. TRUE \in BOOLEAN /\ Resets \in BOOLEAN
  BY DEF Resets
<1>4. CASE Job.kind = "reconcile"
  <2>1. Finish(TRUE, Resets)
    BY <1>4 DEF LockedWrite, Confirms
  <2> QED BY <1>1, <1>2, <1>3, <1>4, <2>1, ReconciliationFinishes
<1>5. CASE Job.kind = "request" /\ ~Confirms
  <2>1. Finish(TRUE, Resets)
    BY <1>5 DEF LockedWrite
  <2> QED BY <1>1, <1>2, <1>3, <1>5, <2>1, RequestFinishes
<1>6. CASE Job.kind = "request" /\ Confirms
  <2>1. /\ lock' = [lock EXCEPT !.phase = "ask", !.wrote = TRUE]
        /\ UNCHANGED <<context, mutationQueue>>
    BY <1>6 DEF LockedWrite
  <2>2. LockOK'
    BY <1>1, <1>2, <1>6, <2>1 DEF LockOK, Job, Locks
  <2> QED BY <1>1, <1>2, <1>6, <2>1, <2>2, LockBinding
<1> QED BY <1>2, <1>4, <1>5, <1>6 DEF Jobs

\* A refused write, or a rollback, leaves the store's fingerprint as it was.
LEMMA FailedWriteBinding ==
    ASSUME RequestInv, BindingInv, WriteFails \/ Rollback
    PROVE  BindingInv'
<1>1. /\ mutationQueue # << >> /\ lock.phase \in {"write", "undo"}
      /\ store' \in {store, lock.was} /\ Finish(FALSE, FALSE)
  BY Zenon DEF WriteFails, Rollback, Holding
<1>2. lock.was.fp = store.fp /\ Job \in Jobs
  BY <1>1, HeadJob DEF BindingInv, LockOK
<1>3. store'.fp = store.fp /\ FALSE \in BOOLEAN
  BY <1>1, <1>2
<1>4. CASE Job.kind = "reconcile"
  BY <1>1, <1>3, <1>4, ReconciliationFinishes
<1>5. CASE Job.kind = "request"
  BY <1>1, <1>3, <1>5, RequestFinishes
<1> QED BY <1>2, <1>4, <1>5 DEF Jobs

-----------------------------------------------------------------------------
\* What a step of a request does to the context and the queue: it binds a
\* fingerprint, joins the queue, touches the address memo only, or nothing.
LEMMA RequestStepKinds ==
    ASSUME RequestInv, NEW r \in Requests, RequestStep(r)
    PROVE  /\ UNCHANGED <<store, lock>>
           /\ \/ \E fp \in Phrases : fp = PhraseOf[primary] /\ BindFingerprint(fp)
              \/ Enqueue(r)
              \/ UNCHANGED <<contextFingerprint, reconciledFingerprint, reconciliationTicket,
                            tickets, bindingVerified, mutationQueue>>
<1>1. UNCHANGED lock
  BY DEF RequestStep
<1>2. CASE ConfirmSource(r)
  <2>1. PhraseOf[primary] \in Phrases
    BY InvParts, BindingAssumption
  <2> QED BY <1>1, <1>2, <2>1, Zenon DEF ConfirmSource, context
<1>3. CASE ImportNode(r)
  <2>1. PhraseOf[primary] \in Phrases
    BY InvParts, BindingAssumption
  <2> QED BY <1>1, <1>3, <2>1, Zenon DEF ImportNode, context
<1>4. CASE Enqueue(r)
  BY <1>1, <1>4 DEF Enqueue
<1>5. CASE Memoize(r) \/ Sign(r)
  BY <1>1, <1>5, Zenon DEF Memoize, Sign, latch
<1>6. CASE \/ ReadSource(r) \/ ObservationRefused(r) \/ BindRequest(r) \/ PhraseUnchanged(r)
           \/ CheckConnected(r) \/ TakeSnapshot(r) \/ Admit(r) \/ ReadState(r) \/ Resolve(r)
           \/ Approve(r) \/ Reject(r) \/ Outward(r) \/ NodeBound(r)
           \/ Submit(r) \/ SubmissionSettled(r) \/ ReportFailure(r)
  <2>1. UNCHANGED <<store, context, mutationQueue>>
    BY <1>6, Zenon DEF ReadSource, ObservationRefused, BindRequest, PhraseUnchanged,
       CheckConnected, TakeSnapshot, Admit, ReadState, Resolve, Approve, Reject, Outward,
       NodeBound, Submit, SubmissionSettled, ReportFailure
  <2> QED BY <1>1, <2>1, Zenon DEF context
<1> QED BY <1>2, <1>3, <1>4, <1>5, <1>6 DEF RequestStep

\* BindingInv is inductive relative to RequestInv.
LEMMA NextBinding ==
    ASSUME RequestInv, BindingInv, [Next]_vars
    PROVE  BindingInv'
<1>1. ASSUME NEW r \in Requests, RequestStep(r) PROVE BindingInv'
  BY <1>1, RequestStepKinds, BindFingerprintBinding, EnqueueBinding, BindingKept
<1>2. CASE LockStep
  BY <1>2, LockedReadBinding, ConfirmBindingKept, LockedWriteBinding, FailedWriteBinding
  DEF LockStep
<1>3. CASE Crash
  <2>1. /\ mutationQueue' = << >> /\ reconciliationTicket' = 0 /\ tickets' = 0
        /\ reconciledFingerprint' = None /\ lock' = Free
    BY <1>3 DEF Crash
  <2>2. ~bindingVerified'
    BY <1>3, Zenon DEF Crash
  <2>3. Reconciliations' = {}
    BY <2>1 DEF Reconciliations
  <2>4. LatchOK'
    BY <2>1, <2>2, <2>3 DEF LatchOK
  <2>5. LockOK' /\ VerifiedMeansReconciled'
    BY <2>1, <2>2 DEF LockOK, Free, VerifiedMeansReconciled
  <2> QED BY <2>4, <2>5 DEF BindingInv
<1>4. CASE (\E r \in Requests : Arrive(r)) \/ Switch \/ Quiet \/ UNCHANGED vars
  <2>1. UNCHANGED <<store, context, mutationQueue, lock>>
    BY <1>4, Zenon DEF Arrive, Start, Switch, Quiet, vars
  <2>2. UNCHANGED <<contextFingerprint, reconciledFingerprint, reconciliationTicket,
                   tickets, bindingVerified, mutationQueue, lock>>
    BY <2>1, Zenon DEF context
  <2> QED BY <2>1, <2>2, BindingKept
<1> QED BY <1>1, <1>2, <1>3, <1>4 DEF Next

\* A fresh execution context has verified nothing and latched nothing.
LEMMA InitBinding ==
    ASSUME Init
    PROVE  BindingInv
<1>1. /\ mutationQueue = << >> /\ reconciliationTicket = 0 /\ tickets = 0
      /\ reconciledFingerprint = None /\ lock = Free
  BY DEF Init
<1>2. ~bindingVerified
  BY Zenon DEF Init
<1>3. Reconciliations = {}
  BY <1>1 DEF Reconciliations
<1>4. LatchOK
  BY <1>1, <1>2, <1>3 DEF LatchOK
<1>5. LockOK /\ VerifiedMeansReconciled
  BY <1>1, <1>2 DEF LockOK, Free, VerifiedMeansReconciled
<1> QED BY <1>4, <1>5 DEF BindingInv

\* The tickets of the reconciliations, the latch and the job under the lock fit
\* together in every reachable state.
THEOREM BindingSound == Spec => []BindingInv
<1>1. Init => BindingInv
  BY InitBinding
<1>2. RequestInv /\ BindingInv /\ [Next]_vars => BindingInv'
  BY NextBinding
<1> QED BY <1>1, <1>2, RequestsFit, PTL DEF Spec

\* A binding marked verified is the truth about the store, whatever switches,
\* reordered completions, failed writes and crashes came before.
THEOREM VerifiedIsReconciled == Spec => []VerifiedMeansReconciled
<1>1. BindingInv => VerifiedMeansReconciled
  BY DEF BindingInv
<1> QED BY <1>1, BindingSound, PTL

\* A store bound to another phrase than the context's is never left behind: its
\* reconciliation is the last one queued, or the latch is open.
THEOREM StoreIsFollowed == Spec => []StoreFollowsContext
<1>1. RequestInv /\ BindingInv => StoreFollowsContext
  <2> SUFFICES ASSUME RequestInv, BindingInv, contextFingerprint # None,
                      store.fp # contextFingerprint, reconciliationTicket # 0
               PROVE  \E i \in Reconciliations :
                         /\ mutationQueue[i].ticket = reconciliationTicket
                         /\ mutationQueue[i].fp = contextFingerprint
                         /\ \A j \in Reconciliations : j <= i
    BY DEF StoreFollowsContext
  <2>1. ~bindingVerified
    BY Zenon DEF BindingInv, VerifiedMeansReconciled
  <2>2. PICK i \in Reconciliations : mutationQueue[i].ticket = reconciliationTicket
    BY <2>1, Zenon DEF BindingInv, LatchOK
  <2>3. mutationQueue[i].fp = contextFingerprint /\ reconciliationTicket = tickets
    BY <2>2 DEF BindingInv, LatchOK
  <2>4. ASSUME NEW j \in Reconciliations PROVE j <= i
    <3>1. i \in Nat /\ j \in Nat /\ mutationQueue[j].ticket \in Nat /\ tickets \in Nat
      BY ReconciliationJobs, InvParts DEF ContextTypeOK
    <3>2. mutationQueue[j].ticket <= tickets
      BY DEF BindingInv, LatchOK
    <3>3. i < j => mutationQueue[i].ticket < mutationQueue[j].ticket
      BY DEF BindingInv, LatchOK
    <3> QED BY <2>2, <2>3, <3>1, <3>2, <3>3
  <2> QED BY <2>2, <2>3, <2>4
<1> QED BY <1>1, RequestsFit, BindingSound, PTL

-----------------------------------------------------------------------------
(***************************************************************************)
(* The fingerprint of the context, and the memo of addresses under it.     *)
(***************************************************************************)

\* A job that ends leaves the fingerprint alone and the memo as it was or empty.
LEMMA FinishKeepsPhrase ==
    ASSUME NEW ok, NEW reset, Finish(ok, reset)
    PROVE  contextFingerprint' = contextFingerprint /\ addressCache' \in {addressCache, EmptyCache}
<1>1. CASE Job.kind = "reconcile"
  BY <1>1, Zenon DEF Finish, SettleReconciliation
<1>2. CASE Job.kind # "reconcile"
  BY <1>2, Zenon DEF Finish, context
<1> QED BY <1>1, <1>2

\* So does every other step of the job that holds the lock.
LEMMA LockKeepsPhrase ==
    ASSUME LockStep
    PROVE  contextFingerprint' = contextFingerprint /\ addressCache' \in {addressCache, EmptyCache}
<1>1. \/ UNCHANGED context
      \/ \E ok, reset : Finish(ok, reset)
  BY Zenon DEF LockStep, LockedRead, ConfirmRead, ConfirmCheck, LockedWrite, WriteFails, Rollback
<1>2. CASE UNCHANGED context
  BY <1>2, Zenon DEF context
<1> QED BY <1>1, <1>2, FinishKeepsPhrase

\* What any step does to the fingerprint of the context and to the memo.
LEMMA PhraseSteps ==
    ASSUME RequestInv, [Next]_vars
    PROVE  \/ contextFingerprint' = contextFingerprint
              /\ addressCache' \in {addressCache, EmptyCache}
           \/ contextFingerprint' = PhraseOf[primary] /\ addressCache' = EmptyCache
           \/ contextFingerprint' = None /\ addressCache' = EmptyCache
           \/ \E r \in Requests : Memoize(r)
<1>1. ASSUME NEW r \in Requests, RequestStep(r), ~Memoize(r)
      PROVE  \/ contextFingerprint' = contextFingerprint
                /\ addressCache' \in {addressCache, EmptyCache}
             \/ contextFingerprint' = PhraseOf[primary] /\ addressCache' = EmptyCache
  <2>1. ASSUME NEW fp, fp = PhraseOf[primary], BindFingerprint(fp)
        PROVE  \/ contextFingerprint' = contextFingerprint
                  /\ addressCache' \in {addressCache, EmptyCache}
               \/ contextFingerprint' = PhraseOf[primary] /\ addressCache' = EmptyCache
    BY <2>1, Zenon DEF BindFingerprint
  <2>2. CASE ConfirmSource(r)
    <3>1. UNCHANGED context \/ BindFingerprint(PhraseOf[primary])
      BY <2>2, Zenon DEF ConfirmSource
    <3>2. CASE UNCHANGED context
      BY <3>2, Zenon DEF context
    <3> QED BY <2>1, <3>1, <3>2
  <2>3. CASE ImportNode(r)
    <3>1. UNCHANGED context \/ BindFingerprint(PhraseOf[primary])
      BY <2>3, Zenon DEF ImportNode
    <3>2. CASE UNCHANGED context
      BY <3>2, Zenon DEF context
    <3> QED BY <2>1, <3>1, <3>2
  <2>4. CASE Sign(r)
    BY <2>4, Zenon DEF Sign
  <2>5. CASE \/ ReadSource(r) \/ ObservationRefused(r) \/ BindRequest(r) \/ PhraseUnchanged(r)
             \/ CheckConnected(r) \/ TakeSnapshot(r) \/ Admit(r) \/ ReadState(r) \/ Resolve(r)
             \/ Approve(r) \/ Reject(r) \/ Outward(r) \/ NodeBound(r) \/ Enqueue(r)
             \/ Submit(r) \/ SubmissionSettled(r) \/ ReportFailure(r)
    <3>1. UNCHANGED context
      BY <2>5, Zenon DEF ReadSource, ObservationRefused, BindRequest, PhraseUnchanged,
         CheckConnected, TakeSnapshot, Admit, ReadState, Resolve, Approve, Reject, Outward,
         NodeBound, Enqueue, Submit, SubmissionSettled, ReportFailure
    <3> QED BY <3>1, Zenon DEF context
  <2> QED BY <1>1, <2>2, <2>3, <2>4, <2>5 DEF RequestStep
<1>2. CASE LockStep
  BY <1>2, LockKeepsPhrase
<1>3. CASE Crash
  BY <1>3, Zenon DEF Crash
<1>4. CASE (\E r \in Requests : Arrive(r)) \/ Switch \/ Quiet \/ UNCHANGED vars
  <2>1. UNCHANGED context
    BY <1>4, Zenon DEF Arrive, Start, Switch, Quiet, vars
  <2> QED BY <2>1, Zenon DEF context
<1> QED BY <1>1, <1>2, <1>3, <1>4 DEF Next

\* Fetched addresses are memoized for the phrase they were derived from, which
\* is still the context's.
LEMMA MemoizeCoherent ==
    ASSUME RequestInv, CacheCoherent, NEW r \in Requests, Memoize(r)
    PROVE  CacheCoherent'
<1>1. contextFingerprint' = contextFingerprint /\ Acceptable(r) /\ Step(r) \in Resolutions
  BY DEF Memoize
<1>2. Seen(r) = req[r].bnd /\ contextFingerprint = PhraseOf[req[r].seen]
  BY <1>1 DEF Acceptable, Superseded
<1>3. PhraseOf[req[r].bnd.source] = contextFingerprint
  BY <1>2 DEF Seen
<1>4. addressCache' = [i \in Indices |->
           IF i \in req[r].miss THEN PhraseOf[req[r].bnd.source] ELSE addressCache[i]]
  BY DEF Memoize
<1> QED BY <1>1, <1>3, <1>4 DEF CacheCoherent

\* The memo never holds the address of another wallet than the one the context
\* is bound to, however many requests a switch of the phrase overtook.
THEOREM MemoIsCoherent == Spec => []CacheCoherent
<1>1. Init => CacheCoherent
  BY DEF Init, CacheCoherent, EmptyCache
<1>2. RequestInv /\ CacheCoherent /\ [Next]_vars => CacheCoherent'
  <2> SUFFICES ASSUME RequestInv, CacheCoherent, [Next]_vars PROVE CacheCoherent'
    OBVIOUS
  <2>1. CASE contextFingerprint' = contextFingerprint /\ addressCache' = addressCache
    BY <2>1 DEF CacheCoherent
  <2>2. CASE addressCache' = EmptyCache
    BY <2>2 DEF CacheCoherent, EmptyCache
  <2>3. CASE \E r \in Requests : Memoize(r)
    BY <2>3, MemoizeCoherent
  <2> QED BY <2>1, <2>2, <2>3, PhraseSteps
<1> QED BY <1>1, <1>2, RequestsFit, PTL DEF Spec

\* The context binds to no phrase but the one that is primary at that moment.
THEOREM OnlyPrimaryIsObserved == Spec => ObservedIsPrimary
<1>1. RequestInv /\ [Next]_vars =>
         [contextFingerprint' \notin {contextFingerprint, None} =>
             contextFingerprint' = PhraseOf[primary]]_vars
  <2> SUFFICES ASSUME RequestInv, [Next]_vars,
                      contextFingerprint' \notin {contextFingerprint, None}
               PROVE  contextFingerprint' = PhraseOf[primary]
    OBVIOUS
  <2>1. ASSUME NEW r \in Requests, Memoize(r) PROVE contextFingerprint' = contextFingerprint
    BY <2>1 DEF Memoize
  <2> QED BY <2>1, PhraseSteps
<1> QED BY <1>1, RequestsFit, PTL DEF Spec, ObservedIsPrimary

-----------------------------------------------------------------------------
(***************************************************************************)
(* Every grant in the store was approved under the phrase the store is     *)
(* bound to: GrantInv is inductive, relative to RequestInv and BindingInv. *)
(***************************************************************************)

(***************************************************************************)
(* The bindings of the requests.                                           *)
(***************************************************************************)

\* A request that moves on keeps its binding, or is over and has none.
LEMMA MovesKeepBinding ==
    ASSUME NEW q \in RequestRecords
    PROVE  /\ \A outcome : Ended(outcome).bnd = NoBinding
           /\ \A todo : Continued(q, todo).bnd \in {q.bnd, NoBinding}
           /\ Advanced(q).bnd \in {q.bnd, NoBinding}
           /\ Refused(q).bnd \in {q.bnd, NoBinding}
<1>1. \A outcome : Ended(outcome).bnd = NoBinding
  BY DEF Ended, Idle
<1>2. \A todo : Continued(q, todo).bnd \in {q.bnd, NoBinding}
  BY <1>1 DEF Continued, RequestRecords
<1>3. Advanced(q).bnd \in {q.bnd, NoBinding}
  BY <1>2 DEF Advanced
<1>4. Refused(q).bnd \in {q.bnd, NoBinding}
  BY <1>1, <1>2, <1>3 DEF Refused
<1> QED BY <1>1, <1>2, <1>3, <1>4

\* So does one whose addresses are resolved.
LEMMA ResolvedKeepsBinding ==
    ASSUME NEW q \in RequestRecords, NEW want, NEW cache
    PROVE  Resolved(q, want, cache).bnd \in {q.bnd, NoBinding}
<1> DEFINE phrases == {a.phrase : a \in {[phrase |-> cache[i], index |-> i] : i \in want}}
<1>1. CASE Resolved(q, want, cache) = Refused(q)
  BY <1>1, MovesKeepBinding
<1>2. CASE Resolved(q, want, cache) = Advanced([q EXCEPT !.addr = phrases])
  <2>1. [q EXCEPT !.addr = phrases].bnd = q.bnd
    BY DEF RequestRecords
  <2> HIDE DEF phrases
  <2> DEFINE p == [q EXCEPT !.addr = phrases]
  <2>2. Ended("returned").bnd = NoBinding
    BY DEF Ended, Idle
  <2>3. \A todo : [p EXCEPT !.todo = todo, !.at = "start", !.seen = None, !.ticket = 0,
                            !.miss = {}, !.outcome = "running"].bnd = p.bnd
    BY DEF RequestRecords
  <2>4. Advanced(p).bnd \in {p.bnd, NoBinding}
    BY <2>2, <2>3 DEF Advanced, Continued
  <2> QED BY <1>2, <2>1, <2>4
<1> QED BY <1>1, <1>2 DEF Resolved

\* The binding of a request that has moved names a source and its phrase, or
\* nothing.
LEMMA MoveBound ==
    ASSUME RequestInv, BoundOK, NEW r \in Requests, NEW q, Becomes(r, q),
           q.bnd \in {req[r].bnd, NoBinding}
    PROVE  BoundOK' /\ \A p \in Requests \ {r} : req'[p] = req[p]
<1>1. req = [p \in Requests |-> req[p]] /\ None \notin Sources
  BY InvParts, BindingAssumption
<1>2. req'[r] = q /\ \A p \in Requests \ {r} : req'[p] = req[p]
  BY <1>1 DEF Becomes
<1>3. req'[r].bnd.source \in Sources => req'[r].bnd.fp = PhraseOf[req'[r].bnd.source]
  BY <1>1, <1>2 DEF BoundOK, NoBinding
<1> QED BY <1>2, <1>3 DEF BoundOK

\* A request binds to a source and the phrase behind it.
LEMMA BindRequestBound ==
    ASSUME RequestInv, BoundOK, NEW r \in Requests, BindRequest(r)
    PROVE  BoundOK' /\ \A p \in Requests \ {r} : req'[p] = req[p]
<1>1. req = [p \in Requests |-> req[p]] /\ req[r] \in RequestRecords
  BY DEF RequestInv, TypeOK
<1> DEFINE q == [req[r] EXCEPT !.bnd = Seen(r)]
<1>2. Becomes(r, Advanced(q))
  BY DEF BindRequest
<1>3. q.bnd = Seen(r)
  BY <1>1 DEF RequestRecords
<1>4. Advanced(q).bnd \in {q.bnd, NoBinding}
  <2>1. Ended("returned").bnd = NoBinding
    BY DEF Ended, Idle
  <2>2. \A todo : [q EXCEPT !.todo = todo, !.at = "start", !.seen = None, !.ticket = 0,
                            !.miss = {}, !.outcome = "running"].bnd = q.bnd
    BY <1>1 DEF RequestRecords
  <2> QED BY <2>1, <2>2 DEF Advanced, Continued
<1>5. /\ req'[r].bnd \in {Seen(r), NoBinding}
      /\ \A p \in Requests \ {r} : req'[p] = req[p]
  BY <1>1, <1>2, <1>3, <1>4 DEF Becomes
<1>6. req'[r].bnd.source \in Sources => req'[r].bnd.fp = PhraseOf[req'[r].bnd.source]
  BY <1>5, BindingAssumption DEF Seen, NoBinding
<1> QED BY <1>5, <1>6 DEF BoundOK

\* No other step of a request gives it a binding it did not have.
LEMMA RequestMoveKinds ==
    ASSUME RequestInv, NEW r \in Requests, RequestStep(r), ~BindRequest(r)
    PROVE  \E q : Becomes(r, q) /\ q.bnd \in {req[r].bnd, NoBinding}
<1>1. req[r] \in RequestRecords
  BY DEF RequestInv, TypeOK
<1>2. /\ \A outcome : Ended(outcome).bnd = NoBinding
      /\ \A todo : Continued(req[r], todo).bnd \in {req[r].bnd, NoBinding}
      /\ Advanced(req[r]).bnd \in {req[r].bnd, NoBinding}
      /\ Refused(req[r]).bnd \in {req[r].bnd, NoBinding}
  BY <1>1, MovesKeepBinding
<1>3. ASSUME Advance(r) \/ RefuseReq(r)
      PROVE  \E q : Becomes(r, q) /\ q.bnd \in {req[r].bnd, NoBinding}
  BY <1>2, <1>3 DEF Advance, RefuseReq
<1>4. CASE ReadSource(r)
  <2>1. [req[r] EXCEPT !.at = "confirm", !.seen = primary].bnd = req[r].bnd
    BY <1>1 DEF RequestRecords
  <2> QED BY <1>4, <2>1 DEF ReadSource
<1>5. CASE ConfirmSource(r)
  <2>1. [req[r] EXCEPT !.at = "await", !.ticket = reconciliationTicket'].bnd = req[r].bnd
    BY <1>1 DEF RequestRecords
  <2> QED BY <1>3, <1>5, <2>1, Zenon DEF ConfirmSource
<1>6. CASE ImportNode(r)
  <2>1. [req[r] EXCEPT !.at = "await", !.seen = req[r].bnd.source,
                       !.ticket = reconciliationTicket'].bnd = req[r].bnd
    BY <1>1 DEF RequestRecords
  <2> QED BY <1>3, <1>6, <2>1, Zenon DEF ImportNode
<1>7. CASE ObservationRefused(r) \/ PhraseUnchanged(r) \/ Approve(r) \/ Outward(r) \/ NodeBound(r)
  BY <1>3, <1>7, Zenon DEF ObservationRefused, PhraseUnchanged, Approve, Outward, NodeBound
<1>8. CASE CheckConnected(r) \/ Submit(r) \/ SubmissionSettled(r)
  <2>1. \/ Advance(r) \/ RefuseReq(r)
        \/ \E todo : Becomes(r, Continued(req[r], todo))
    BY <1>8, Zenon DEF CheckConnected, Submit, SubmissionSettled
  <2> QED BY <1>2, <1>3, <2>1
<1>9. CASE Reject(r) \/ ReportFailure(r)
  BY <1>2, <1>9 DEF Reject, ReportFailure
<1>10. CASE TakeSnapshot(r)
  <2> DEFINE q == [req[r] EXCEPT !.snap = store]
  <2>1. q \in RequestRecords /\ q.bnd = req[r].bnd
    BY <1>1, InvParts DEF RequestRecords, GoodStores
  <2>2. Advanced(q).bnd \in {q.bnd, NoBinding}
    BY <2>1, MovesKeepBinding
  <2> QED BY <1>3, <1>10, <2>1, <2>2 DEF TakeSnapshot
<1>11. CASE Admit(r)
  BY <1>2, <1>3, <1>11 DEF Admit
<1>12. CASE ReadState(r)
  <2> DEFINE q == [req[r] EXCEPT !.snap = store]
  <2>1. q \in RequestRecords /\ q.bnd = req[r].bnd
    BY <1>1, InvParts DEF RequestRecords, GoodStores
  <2>2. \A todo : Continued(q, todo).bnd \in {q.bnd, NoBinding}
    BY <2>1, MovesKeepBinding
  <2> QED BY <1>12, <2>1, <2>2 DEF ReadState
<1>13. CASE Resolve(r)
  <2>1. Resolved(req[r], Wants(r), addressCache).bnd \in {req[r].bnd, NoBinding}
    BY <1>1, ResolvedKeepsBinding
  <2>2. [req[r] EXCEPT !.at = "fetch", !.miss = Missing(r)].bnd = req[r].bnd
    BY <1>1 DEF RequestRecords
  <2> QED BY <1>13, <2>1, <2>2 DEF Resolve
<1>14. CASE Memoize(r)
  <2>1. \A cache : Resolved(req[r], Wants(r), cache).bnd \in {req[r].bnd, NoBinding}
    BY <1>1, ResolvedKeepsBinding
  <2> QED BY <1>14, <2>1 DEF Memoize
<1>15. CASE Sign(r)
  <2> DEFINE q == [req[r] EXCEPT !.key = PhraseOf[req[r].bnd.source]]
  <2>1. CASE RefuseReq(r)
    BY <1>3, <2>1
  <2>2. CASE Becomes(r, Advanced(q)) /\ PhraseOf[req[r].bnd.source] \in req[r].addr
    <3>1. q \in RequestRecords /\ q.bnd = req[r].bnd
      BY <1>1, <2>2 DEF RequestRecords
    <3> QED BY <2>2, <3>1, MovesKeepBinding
  <2> QED BY <1>15, <2>1, <2>2, Zenon DEF Sign
<1>16. CASE Enqueue(r)
  <2>1. [req[r] EXCEPT !.at = "queued"].bnd = req[r].bnd
    BY <1>1 DEF RequestRecords
  <2> QED BY <1>16, <2>1 DEF Enqueue
<1> QED BY <1>4, <1>5, <1>6, <1>7, <1>8, <1>9, <1>10, <1>11, <1>12, <1>13, <1>14, <1>15, <1>16
        DEF RequestStep

-----------------------------------------------------------------------------
(***************************************************************************)
(* The steps of the requests.                                              *)
(***************************************************************************)

\* A request that waits for the lock takes no step of its own.
LEMMA StepsAreNotQueued ==
    ASSUME NEW r \in Requests, RequestStep(r)
    PROVE  ~At(r, "queued")
<1>1. \E at \in {"start", "fetch", "confirm", "await"} : At(r, at)
  BY Zenon DEF RequestStep, Observed, ReadSource, ConfirmSource, ObservationRefused, BindRequest,
     PhraseUnchanged, CheckConnected, TakeSnapshot, Admit, ReadState, Resolve, Memoize, Approve,
     Reject, Outward, Submit, SubmissionSettled, ReportFailure, ImportNode, NodeBound, Sign,
     Enqueue
<1> QED BY <1>1 DEF At

\* When the head job, the request it is for and the lock stay, so do the grants
\* it is about to write.
LEMMA GrantsKept ==
    ASSUME RequestInv, BindingInv, GrantInv, BoundOK', UNCHANGED <<store, lock, consent>>,
           mutationQueue # << >> =>
              Job' = Job /\ (Job.kind = "request" => req'[Job.by] = req[Job.by])
    PROVE  GrantInv'
<1>1. Rightful(store', consent')
  BY DEF GrantInv
<1>2. CASE mutationQueue = << >>
  BY <1>1, <1>2 DEF GrantInv, BindingInv, LockOK
<1>3. CASE mutationQueue # << >>
  <2>1. Job \in Jobs
    BY <1>3, HeadJob
  <2>2. Consents' = Consents
    BY <1>3, <2>1 DEF Consents, Jobs
  <2>3. Rightful(lock.was, consent)' = Rightful(lock.was, consent)
    BY DEF Rightful
  <2>4. Rightful(lock.new, Consents)' = Rightful(lock.new, Consents)
    BY <2>2 DEF Rightful
  <2> QED BY <1>1, <1>3, <2>2 DEF GrantInv
<1> QED BY <1>2, <1>3

\* The queue keeps its head when a job joins it.
LEMMA HeadStays ==
    ASSUME RequestInv, mutationQueue # << >>, NEW r \in Requests, RequestStep(r)
    PROVE  Job' = Job
<1>1. ASSUME NEW fp \in Phrases, BindFingerprint(fp) PROVE Job' = Job
  <2>1. tickets + 1 \in Nat \ {0}
    BY InvParts DEF ContextTypeOK
  <2> DEFINE job == [kind |-> "reconcile", ticket |-> tickets + 1, fp |-> fp]
  <2>2. job \in Jobs
    BY <2>1 DEF Jobs
  <2>3. UNCHANGED mutationQueue \/ mutationQueue' = Append(mutationQueue, job)
    BY <1>1, Zenon DEF BindFingerprint
  <2>4. CASE UNCHANGED mutationQueue
    BY <2>4 DEF Job
  <2>5. CASE mutationQueue' = Append(mutationQueue, job)
    BY <2>2, <2>5, JobJoins
  <2> QED BY <2>3, <2>4, <2>5
<1>2. ASSUME Enqueue(r) PROVE Job' = Job
  <2> DEFINE job == [kind |-> "request", by |-> r]
  <2>1. job \in Jobs /\ mutationQueue' = Append(mutationQueue, job)
    BY <1>2 DEF Enqueue, Jobs
  <2> QED BY <2>1, JobJoins
<1>3. ASSUME UNCHANGED mutationQueue PROVE Job' = Job
  BY <1>3 DEF Job
<1> QED BY <1>1, <1>2, <1>3, RequestStepKinds

\* A request moves: it writes nothing, and the job under the lock is not its.
LEMMA RequestStepGrants ==
    ASSUME RequestInv, BindingInv, GrantInv, NEW r \in Requests, RequestStep(r)
    PROVE  GrantInv'
<1>1. BoundOK' /\ \A p \in Requests \ {r} : req'[p] = req[p]
  BY BindRequestBound, RequestMoveKinds, MoveBound DEF GrantInv
<1>2. UNCHANGED <<store, lock, consent>>
  BY RequestStepKinds DEF RequestStep
<1>3. ~At(r, "queued")
  BY StepsAreNotQueued
<1>4. ASSUME mutationQueue # << >>
      PROVE  Job' = Job /\ (Job.kind = "request" => req'[Job.by] = req[Job.by])
  <2>1. Job' = Job
    BY <1>4, HeadStays
  <2>2. Job.kind = "request" => Job.by \in Requests /\ Job.by # r
    BY <1>3, <1>4, HeadJob
  <2> QED BY <1>1, <2>1, <2>2
<1> QED BY <1>1, <1>2, <1>4, GrantsKept

\* A new request has no binding yet, and no job waits for it.
LEMMA ArrivalGrants ==
    ASSUME RequestInv, BindingInv, GrantInv, NEW r \in Requests, Arrive(r)
    PROVE  GrantInv'
<1>1. PICK c \in Calls : Start(r, c)
  BY DEF Arrive
<1>2. UNCHANGED <<store, lock, consent, mutationQueue>>
  BY <1>1 DEF Arrive, Start
<1> DEFINE q == [Idle EXCEPT !.call = c]
<1>3. q.bnd = NoBinding /\ \A outcome : Ended(outcome).bnd = NoBinding
  BY DEF Idle, Ended
<1>4. \A todo : Continued(q, todo).bnd = NoBinding
  <2>1. \A todo : [q EXCEPT !.todo = todo, !.at = "start", !.seen = None, !.ticket = 0,
                            !.miss = {}, !.outcome = "running"].bnd = NoBinding
    BY DEF Idle
  <2> QED BY <1>3, <2>1 DEF Continued
<1>5. \E p : Becomes(r, p) /\ p.bnd \in {req[r].bnd, NoBinding}
  BY <1>1, <1>4 DEF Start
<1>6. BoundOK' /\ \A p \in Requests \ {r} : req'[p] = req[p]
  BY <1>5, MoveBound DEF GrantInv
<1>7. ~Running(r)
  BY <1>1 DEF Start, Running
<1>8. ASSUME mutationQueue # << >>
      PROVE  Job' = Job /\ (Job.kind = "request" => req'[Job.by] = req[Job.by])
  <2>1. Job' = Job
    BY <1>2 DEF Job
  <2>2. Job.kind = "request" => Job.by \in Requests /\ Job.by # r
    BY <1>7, <1>8, HeadJob DEF At
  <2> QED BY <1>6, <2>1, <2>2
<1> QED BY <1>2, <1>6, <1>8, GrantsKept

-----------------------------------------------------------------------------
(***************************************************************************)
(* The mutators: none but connectOrigin adds a grant, and it grants its    *)
(* own site alone, for the fingerprint of a store it found in place.       *)
(***************************************************************************)

\* A registry that keeps some of the grants of a store is as rightful.
LEMMA FewerGrants ==
    ASSUME NEW s, NEW t, NEW given, Rightful(s, given), t.fp = s.fp,
           \A o \in Origins : HasGrant(t, o) => HasGrant(s, o)
    PROVE  Rightful(t, given)
BY DEF Rightful

\* Connecting a site for the phrase fp, which is the store's.
LEMMA ConnectIsRightful ==
    ASSUME NEW s \in Stores, NEW given \in [Origins -> Phrases \cup {None}], Rightful(s, given),
           NEW o \in Origins, NEW fp \in Phrases, NEW now \in Times,
           NEW v \in ConnectOrigin(s, o, fp, now), v.do = "write"
    PROVE  Rightful(v.new, [given EXCEPT ![o] = fp])
<1>1. /\ s.fp = fp
      /\ \E kept \in NormalizeOrigins(ConnectedOrigins(s, o, now)) :
            v = Write([s EXCEPT !.origins = kept])
  BY DEF ConnectOrigin, Refuse, Keep
<1>2. PICK kept \in NormalizeOrigins(ConnectedOrigins(s, o, now)) :
            v = Write([s EXCEPT !.origins = kept])
  BY <1>1
<1>3. v.new.origins = kept /\ v.new.fp = fp
  BY <1>1, <1>2 DEF Write, Stores
<1>4. \A p \in Origins : kept[p] \in {ConnectedOrigins(s, o, now)[p], None}
  BY <1>2 DEF NormalizeOrigins
<1>5. s.origins \in [Origins -> Grants \cup {None}]
  BY DEF Stores
<1>6. \A p \in Origins \ {o} : ConnectedOrigins(s, o, now)[p] = s.origins[p]
  BY <1>5 DEF ConnectedOrigins
<1>7. \A p \in Origins \ {o} : HasGrant(v.new, p) => given[p] = fp
  BY <1>1, <1>3, <1>4, <1>6 DEF HasGrant, Rightful
<1>8. fp # None
  BY StoreAssumption
<1> QED BY <1>3, <1>7, <1>8 DEF Rightful

\* Every other mutator of a request keeps the grants, or drops one.
LEMMA PreferencesAreRightful ==
    ASSUME NEW s \in Stores, NEW given, Rightful(s, given), NEW c \in AllCalls, NEW snap, NEW fp,
           NEW step \in LockSteps \ {"connect", "grant"}, step \in OwnSteps(c, snap),
           NEW v \in Mutation(step, c, snap, fp, s), v.do = "write"
    PROVE  Rightful(v.new, given)
<1>1. ASSUME NEW t, t.fp = s.fp, t.origins = s.origins
      PROVE  Rightful(t, given)
  BY <1>1, FewerGrants DEF HasGrant
<1>2. CASE step = "network"
  <2>1. v.new = [s EXCEPT !.network = c.arg]
    BY <1>2 DEF Mutation, SetActiveNetwork, Refuse, Keep, Write
  <2> QED BY <1>1, <2>1 DEF Stores
<1>3. CASE step = "token"
  <2>1. v = AddToken(s, snap.network, c.arg, fp)
    BY <1>3 DEF Mutation
  <2>2. v.new.fp = s.fp /\ v.new.origins = s.origins
    BY <2>1 DEF AddToken, Refuse, Keep, Write, Stores
  <2> QED BY <1>1, <2>2
<1>4. CASE step = "activate"
  <2>1. v.new = [s EXCEPT !.active = c.arg]
    BY <1>4 DEF Mutation, SetActiveAccount, Refuse, Keep, Write
  <2> QED BY <1>1, <2>1 DEF Stores
<1>5. CASE step \in {"reveal", "revealThrough"}
  <2>1. \/ v = RevealAccount(s, NextAccountIndex(snap), fp)
        \/ v = RevealAccountsThrough(s, c.arg, NextAccountIndex(snap), fp)
    BY <1>5 DEF Mutation
  <2>2. v.new.fp = s.fp /\ v.new.origins = s.origins
    BY <2>1 DEF RevealAccount, RevealAccountsThrough, Refuse, Keep, Write, Stores
  <2> QED BY <1>1, <2>2
<1>6. CASE step = "disconnect"
  <2>1. v.new = [s EXCEPT !.origins[c.arg] = None]
    BY <1>6 DEF Mutation, DisconnectOrigin, Keep, Write
  <2>2. v.new.fp = s.fp /\ \A o \in Origins : v.new.origins[o] \in {s.origins[o], None}
    BY <2>1 DEF Stores
  <2> QED BY <2>2, FewerGrants DEF HasGrant
<1>7. CASE step = "untoken"
  <2>1. v = RemoveToken(s, c.arg[1], c.arg[2])
    BY <1>7 DEF Mutation
  <2>2. v.new.fp = s.fp /\ v.new.origins = s.origins
    BY <2>1 DEF RemoveToken, Keep, Write, Stores
  <2> QED BY <1>1, <2>2
<1>8. CASE step = "clearNotice"
  <2>1. v.new = [s EXCEPT !.notice = "none"]
    BY <1>8 DEF Mutation, ClearResetNotice, Keep, Write
  <2> QED BY <1>1, <2>1 DEF Stores
<1> QED BY <1>2, <1>3, <1>4, <1>5, <1>6, <1>7, <1>8 DEF LockSteps

\* Adopting a fingerprint finds no grant, and a reset leaves none.
LEMMA ReconcileIsRightful ==
    ASSUME NEW s \in Stores, NEW given, Rightful(s, given), NEW fp \in Phrases,
           ReconcileEntropyBinding(s, fp).do = "write"
    PROVE  Rightful(ReconcileEntropyBinding(s, fp).new, given)
<1> DEFINE new == ReconcileEntropyBinding(s, fp).new
<1>1. CASE s.fp = None
  <2>1. new = [s EXCEPT !.fp = fp]
    BY <1>1, StoreAssumption DEF ReconcileEntropyBinding, Write
  <2>2. \A o \in Origins : ~HasGrant(s, o) /\ (HasGrant(new, o) <=> HasGrant(s, o))
    BY <1>1, <2>1 DEF HasGrant, Stores, Rightful
  <2> QED BY <2>2 DEF Rightful
<1>2. CASE s.fp # None
  <2>1. new.origins = DefaultState.origins
    BY <1>2 DEF ReconcileEntropyBinding, Write, Keep, DefaultState
  <2>2. \A o \in Origins : ~HasGrant(new, o)
    BY <2>1 DEF HasGrant, DefaultState
  <2> QED BY <2>2 DEF Rightful
<1> QED BY <1>1, <1>2

-----------------------------------------------------------------------------
(***************************************************************************)
(* The job that holds the lock.                                            *)
(***************************************************************************)

\* The job ends: the lock is free, so only the store's own grants count.
LEMMA FinishGrants ==
    ASSUME RequestInv, GrantInv, mutationQueue # << >>, NEW ok, NEW reset, Finish(ok, reset),
           Rightful(store', consent')
    PROVE  GrantInv'
<1>1. lock'.phase = "get"
  BY DEF Finish, Free
<1>2. CASE Job.kind = "reconcile"
  <2>1. req' = req
    BY <1>2 DEF Finish
  <2> QED BY <1>1, <2>1 DEF GrantInv, BoundOK
<1>3. CASE Job.kind = "request"
  <2>1. Job.by \in Requests /\ req[Job.by] \in RequestRecords
    BY <1>3, HeadJob DEF RequestInv, TypeOK
  <2>2. \E q : Becomes(Job.by, q) /\ q.bnd \in {req[Job.by].bnd, NoBinding}
    BY <1>3, <2>1, MovesKeepBinding DEF Finish, Advance, RefuseReq
  <2>3. BoundOK'
    BY <2>1, <2>2, MoveBound DEF GrantInv
  <2> QED BY <1>1, <2>3 DEF GrantInv
<1> QED BY <1>2, <1>3, HeadJob DEF Jobs

\* The lock moves on with its job: the grants it read and those it is about to
\* write are known.
LEMMA LockGrants ==
    ASSUME RequestInv, GrantInv, mutationQueue # << >>, UNCHANGED <<mutationQueue, req, consent>>,
           Rightful(store', consent), Rightful(lock'.was, consent), Rightful(lock'.new, Consents)
    PROVE  GrantInv'
<1>1. BoundOK'
  BY DEF GrantInv, BoundOK
<1>2. Consents' = Consents
  BY DEF Consents, Job
<1>3. Rightful(store', consent') /\ Rightful(lock'.was, consent')
  BY DEF Rightful
<1>4. Rightful(lock'.new, Consents')
  BY <1>2 DEF Rightful
<1> QED BY <1>1, <1>3, <1>4 DEF GrantInv

\* What the head job decides to write is rightful once it is written.
LEMMA VerdictIsRightful ==
    ASSUME RequestInv, GrantInv, mutationQueue # << >>, NEW v \in Verdict(store), v.do = "write"
    PROVE  Rightful(v.new, Consents)
<1>1. store \in Stores /\ Rightful(store, consent) /\ consent \in [Origins -> Phrases \cup {None}]
  BY InvParts DEF GoodStores, GrantInv
<1>2. CASE Job.kind = "reconcile"
  <2>1. Job.fp \in Phrases /\ v = ReconcileEntropyBinding(store, Job.fp) /\ Consents = consent
    BY <1>2, HeadJob DEF Verdict, Jobs, Consents
  <2> QED BY <1>1, <2>1, ReconcileIsRightful
<1>3. CASE Job.kind = "request"
  <2> DEFINE q == req[Job.by]
             step == Head(q.todo)
  <2>1. /\ Good(q) /\ q.outcome = "running" /\ Job.by \in Requests
        /\ step \in LockSteps /\ step \in OwnSteps(q.call, q.snap)
    BY <1>3, HeadJob DEF Step
  <2>2. /\ q.call \in AllCalls
        /\ q.bnd.source \in Sources \/ step \in {"connected", "bind", "observe", "disconnect",
                                                 "untoken", "state", "clearNotice"}
    BY <2>1, StepShape
  <2>3. v \in Mutation(step, q.call, q.snap, q.bnd.fp, store)
    BY <1>3 DEF Verdict
  <2>4. CASE step \in {"connect", "grant"}
    <3>1. q.call.origin \in Origins
      BY <2>1, <2>2, <2>4 DEF OwnSteps, AllCalls, Signing
    <3>2. q.bnd.fp \in Phrases
      BY <2>1, <2>2, <2>4, BindingAssumption DEF GrantInv, BoundOK
    <3>3. Consents = [consent EXCEPT ![q.call.origin] = q.bnd.fp]
      BY <1>3, <2>4 DEF Consents
    <3>4. PICK now \in Times : v \in ConnectOrigin(store, q.call.origin, q.bnd.fp, now)
      BY <2>3, <2>4 DEF Mutation
    <3> HIDE DEF q, step
    <3>5. Rightful(v.new, [consent EXCEPT ![q.call.origin] = q.bnd.fp])
      BY <1>1, <3>1, <3>2, <3>4, ConnectIsRightful
    <3> QED BY <3>3, <3>5
  <2>5. CASE step \notin {"connect", "grant"}
    <3>1. Consents = consent
      BY <2>5 DEF Consents
    <3>2. Rightful(v.new, consent)
      BY <1>1, <2>1, <2>2, <2>3, <2>5, PreferencesAreRightful
    <3> QED BY <3>1, <3>2
  <2> QED BY <2>4, <2>5
<1> QED BY <1>2, <1>3, HeadJob DEF Jobs

\* The head job reads the store and decides.
LEMMA LockedReadGrants ==
    ASSUME RequestInv, GrantInv, LockedRead
    PROVE  GrantInv'
<1>1. mutationQueue # << >> /\ UNCHANGED <<store, consent>>
  BY DEF LockedRead, Holding
<1>2. Rightful(store, consent) /\ Rightful(store', consent') /\ Rightful(store', consent)
  BY <1>1 DEF GrantInv
<1>3. PICK v \in Verdict(store) :
         IF v.do = "write"
         THEN /\ lock' = [lock EXCEPT !.phase = IF Confirms THEN "ask" ELSE "write",
                                      !.was = store, !.new = v.new]
              /\ UNCHANGED <<context, mutationQueue, req>>
         ELSE Finish(v.do = "keep", FALSE)
  BY DEF LockedRead
<1>4. CASE v.do = "write"
  <2>1. /\ lock' = [lock EXCEPT !.phase = IF Confirms THEN "ask" ELSE "write",
                                !.was = store, !.new = v.new]
        /\ UNCHANGED <<mutationQueue, req>>
    BY <1>3, <1>4
  <2>2. lock'.was = store /\ lock'.new = v.new
    BY <2>1, InvParts DEF Locks
  <2>3. Rightful(v.new, Consents)
    BY <1>1, <1>4, VerdictIsRightful
  <2> QED BY <1>1, <1>2, <2>1, <2>2, <2>3, LockGrants
<1>5. CASE v.do # "write"
  BY <1>1, <1>2, <1>3, <1>5, FinishGrants
<1> QED BY <1>4, <1>5

\* The confirmations of a commit leave the two stores of the lock alone.
LEMMA ConfirmGrants ==
    ASSUME RequestInv, GrantInv, ConfirmRead \/ ConfirmCheck
    PROVE  GrantInv'
<1>1. /\ mutationQueue # << >> /\ lock.phase # "get" /\ lock \in Locks
      /\ UNCHANGED <<store, consent>>
  BY InvParts DEF ConfirmRead, ConfirmCheck, Holding
<1>2. /\ Rightful(store', consent) /\ Rightful(store', consent')
      /\ Rightful(lock.was, consent) /\ Rightful(lock.new, Consents)
  BY <1>1 DEF GrantInv
<1>3. ASSUME NEW ok, NEW reset, Finish(ok, reset) PROVE GrantInv'
  BY <1>1, <1>2, <1>3, FinishGrants
<1>4. ASSUME lock'.was = lock.was, lock'.new = lock.new, UNCHANGED <<mutationQueue, req>>
      PROVE  GrantInv'
  BY <1>1, <1>2, <1>4, LockGrants
<1>5. CASE ConfirmRead
  <2>1. lock'.was = lock.was /\ lock'.new = lock.new /\ UNCHANGED <<mutationQueue, req>>
    BY <1>1, <1>5 DEF ConfirmRead, Locks
  <2> QED BY <1>4, <2>1
<1>6. CASE ConfirmCheck
  <2>1. ASSUME NEW phase, lock' = [lock EXCEPT !.phase = phase], UNCHANGED <<mutationQueue, req>>
        PROVE  GrantInv'
    BY <1>1, <1>4, <2>1 DEF Locks
  <2> QED BY <1>3, <1>6, <2>1 DEF ConfirmCheck
<1> QED BY <1>5, <1>6

\* A write lands, and with it the phrase its grant was approved under.
LEMMA LockedWriteGrants ==
    ASSUME RequestInv, GrantInv, LockedWrite
    PROVE  GrantInv'
<1>1. /\ mutationQueue # << >> /\ lock.phase = "write" /\ lock \in Locks
      /\ store' = lock.new /\ consent' = Consents
  BY InvParts DEF LockedWrite, Holding
<1>2. /\ Rightful(lock.was, consent) /\ Rightful(lock.new, Consents)
      /\ Rightful(store', consent')
  BY <1>1 DEF GrantInv
<1>3. CASE Confirms
  <2>1. /\ lock' = [lock EXCEPT !.phase = "ask", !.wrote = TRUE]
        /\ UNCHANGED <<mutationQueue, req>>
    BY <1>3 DEF LockedWrite
  <2>2. lock'.was = lock.was /\ lock'.new = lock.new
    BY <1>1, <2>1 DEF Locks
  <2>3. Consents = consent
    BY <1>3 DEF Confirms, Confirmed, Consents
  <2> QED BY <1>1, <1>2, <2>1, <2>2, <2>3, LockGrants
<1>4. CASE ~Confirms
  <2>1. Finish(TRUE, Resets)
    BY <1>4 DEF LockedWrite
  <2> QED BY <1>1, <1>2, <2>1, FinishGrants
<1> QED BY <1>3, <1>4

\* A refused write leaves the store as it was, a rollback as the lock read it.
LEMMA FailedWriteGrants ==
    ASSUME RequestInv, GrantInv, WriteFails \/ Rollback
    PROVE  GrantInv'
<1>1. /\ mutationQueue # << >> /\ lock.phase # "get" /\ consent' = consent
      /\ store' \in {store, lock.was} /\ Finish(FALSE, FALSE)
  BY Zenon DEF WriteFails, Rollback, Holding
<1>2. Rightful(store', consent')
  BY <1>1 DEF GrantInv
<1> QED BY <1>1, <1>2, FinishGrants

-----------------------------------------------------------------------------
(***************************************************************************)
(* The environment, and the theorem.                                       *)
(***************************************************************************)

\* GrantInv is inductive relative to RequestInv and BindingInv.
LEMMA NextGrants ==
    ASSUME RequestInv, BindingInv, GrantInv, [Next]_vars
    PROVE  GrantInv'
<1>1. ASSUME NEW r \in Requests, Arrive(r) \/ RequestStep(r) PROVE GrantInv'
  BY <1>1, ArrivalGrants, RequestStepGrants
<1>2. CASE LockStep
  BY <1>2, LockedReadGrants, ConfirmGrants, LockedWriteGrants, FailedWriteGrants DEF LockStep
<1>3. CASE Crash
  <2>1. /\ mutationQueue' = << >> /\ UNCHANGED <<store, consent>>
        /\ req' = [r \in Requests |-> IF Running(r) THEN Ended("lost") ELSE req[r]]
    BY <1>3 DEF Crash
  <2>2. BoundOK'
    BY <2>1, BindingAssumption DEF GrantInv, BoundOK, Ended, Idle, NoBinding
  <2> QED BY <2>1, <2>2 DEF GrantInv
<1>4. CASE Switch \/ Quiet \/ UNCHANGED vars
  <2>1. UNCHANGED <<store, consent, lock, mutationQueue, req>>
    BY <1>4, Zenon DEF Switch, Quiet, vars
  <2> QED BY <2>1, GrantsKept DEF GrantInv, BoundOK, Job
<1> QED BY <1>1, <1>2, <1>3, <1>4 DEF Next

\* Nobody has asked for anything yet, and the grants found in the store are
\* those of its phrase.
LEMMA InitGrants ==
    ASSUME Init
    PROVE  GrantInv
<1>1. BoundOK
  BY BindingAssumption DEF Init, BoundOK, Idle, NoBinding
<1>2. Rightful(store, consent)
  BY SnapAssumption DEF Init, Rightful
<1> QED BY <1>1, <1>2 DEF GrantInv, Init

\* The bindings, the store and the two stores under the lock agree on the
\* phrase of every grant, in every reachable state.
THEOREM GrantsSound == Spec => []GrantInv
<1>1. Init => GrantInv
  BY InitGrants
<1>2. RequestInv /\ BindingInv /\ GrantInv /\ [Next]_vars => GrantInv'
  BY NextGrants
<1> QED BY <1>1, <1>2, RequestsFit, BindingSound, PTL DEF Spec

\* A grant in the store was approved under the phrase the store is bound to,
\* whatever switches, reconciliations, failed writes and crashes came between
\* the dialog and the write.
THEOREM GrantsFollowPhrase == Spec => []GrantsBelongToPhrase
<1>1. GrantInv => GrantsBelongToPhrase
  BY DEF GrantInv, Rightful, GrantsBelongToPhrase
<1> QED BY <1>1, GrantsSound, PTL

-----------------------------------------------------------------------------
(***************************************************************************)
(* The job that holds the lock carries out a verdict.                      *)
(***************************************************************************)

\* A job that has ended has left the lock free.
LEMMA FinishDecides ==
    ASSUME NEW ok, NEW reset, Finish(ok, reset)
    PROVE  LockDecided'
<1>1. lock'.phase = "get" /\ lock'.wrote = FALSE
  BY DEF Finish, Free
<1> QED BY <1>1 DEF LockDecided

\* The job under the lock, its request and both stores stay as they are.
LEMMA DecisionKept ==
    ASSUME RequestInv, BindingInv, LockDecided, UNCHANGED <<store, lock>>,
           mutationQueue # << >> =>
              Job' = Job /\ (Job.kind = "request" => req'[Job.by] = req[Job.by])
    PROVE  LockDecided'
<1>1. CASE mutationQueue = << >>
  <2>1. lock.phase = "get"
    BY <1>1 DEF BindingInv, LockOK
  <2> QED BY <2>1 DEF LockDecided
<1>2. CASE mutationQueue # << >>
  <2>1. Job' = Job /\ (Job.kind = "request" => req'[Job.by] = req[Job.by]) /\ Job \in Jobs
    BY <1>2, HeadJob
  <2>2. Verdict(lock.was)' = Verdict(lock.was)
    BY <2>1 DEF Verdict, Jobs
  <2>3. Confirms' = Confirms
    BY <2>1 DEF Confirms, Jobs
  <2> QED BY <1>2, <2>2, <2>3 DEF LockDecided
<1> QED BY <1>1, <1>2

\* The holder of the lock reads, decides, confirms, writes and undoes.
LEMMA LockDecides ==
    ASSUME RequestInv, LockDecided, LockStep
    PROVE  LockDecided'
<1>1. lock \in Locks
  BY InvParts
<1>2. ASSUME UNCHANGED <<mutationQueue, req>>
      PROVE  Job' = Job /\ Confirms' = Confirms
  BY <1>2 DEF Job, Confirms
<1>3. ASSUME NEW ok, NEW reset, Finish(ok, reset) PROVE LockDecided'
  BY <1>3, FinishDecides
<1>4. CASE LockedRead
  <2>1. mutationQueue # << >> /\ lock.phase = "get" /\ store' = store /\ lock.wrote = FALSE
    BY <1>1, <1>4 DEF LockedRead, Holding, LockDecided, Locks
  <2>2. PICK v \in Verdict(store) :
           IF v.do = "write"
           THEN /\ lock' = [lock EXCEPT !.phase = IF Confirms THEN "ask" ELSE "write",
                                        !.was = store, !.new = v.new]
                /\ UNCHANGED <<context, mutationQueue, req>>
           ELSE Finish(v.do = "keep", FALSE)
    BY <1>4 DEF LockedRead
  <2>3. CASE v.do # "write"
    BY <1>3, <2>2, <2>3
  <2>4. CASE v.do = "write"
    <3>1. UNCHANGED <<mutationQueue, req>>
      BY <2>2, <2>4
    <3>2. /\ lock'.phase = IF Confirms THEN "ask" ELSE "write"
          /\ lock'.was = store /\ lock'.new = v.new /\ lock'.wrote = FALSE
      BY <1>1, <2>1, <2>2, <2>4 DEF Locks
    <3>3. Verdict(lock.was)' = Verdict(store)
      BY <3>1, <3>2 DEF Verdict, Job
    <3> QED BY <1>2, <2>1, <2>4, <3>1, <3>2, <3>3 DEF LockDecided
  <2> QED BY <2>3, <2>4
<1>5. ASSUME mutationQueue # << >>, lock.phase # "get", UNCHANGED <<mutationQueue, req>>,
             lock'.was = lock.was, lock'.new = lock.new
      PROVE  /\ \E v \in Verdict(lock.was)' : v.do = "write" /\ v.new = lock'.new
             /\ Confirms' = Confirms
  <2>1. Verdict(lock.was)' = Verdict(lock.was)
    BY <1>5 DEF Verdict, Job
  <2> QED BY <1>2, <1>5, <2>1 DEF LockDecided
<1>6. CASE ConfirmRead
  <2>1. /\ mutationQueue # << >> /\ lock.phase = "ask" /\ UNCHANGED <<store, mutationQueue, req>>
        /\ lock'.was = lock.was /\ lock'.new = lock.new /\ lock'.phase = "check"
        /\ lock'.wrote = lock.wrote
    BY <1>1, <1>6 DEF ConfirmRead, Holding, Locks
  <2> QED BY <1>5, <2>1 DEF LockDecided
<1>7. CASE ConfirmCheck
  <2>1. /\ mutationQueue # << >> /\ lock.phase = "check" /\ store' = store
    BY <1>7 DEF ConfirmCheck, Holding
  <2>2. ASSUME NEW phase, lock' = [lock EXCEPT !.phase = phase], UNCHANGED <<mutationQueue, req>>,
               phase = IF lock.wrote THEN "undo" ELSE "write"
        PROVE  LockDecided'
    <3>1. /\ lock'.was = lock.was /\ lock'.new = lock.new /\ lock'.phase = phase
          /\ lock'.wrote = lock.wrote
      BY <1>1, <2>2 DEF Locks
    <3> QED BY <1>5, <2>1, <2>2, <3>1 DEF LockDecided
  <2> QED BY <1>3, <1>7, <2>2 DEF ConfirmCheck
<1>8. CASE LockedWrite
  <2>1. /\ mutationQueue # << >> /\ lock.phase = "write" /\ store' = lock.new
    BY <1>8 DEF LockedWrite, Holding
  <2>2. CASE Confirms
    <3>1. lock' = [lock EXCEPT !.phase = "ask", !.wrote = TRUE] /\ UNCHANGED <<mutationQueue, req>>
      BY <1>8, <2>2 DEF LockedWrite
    <3>2. /\ lock'.was = lock.was /\ lock'.new = lock.new /\ lock'.phase = "ask"
          /\ lock'.wrote = TRUE
      BY <1>1, <3>1 DEF Locks
    <3> QED BY <1>5, <2>1, <2>2, <3>1, <3>2 DEF LockDecided
  <2>3. CASE ~Confirms
    BY <1>3, <1>8, <2>3 DEF LockedWrite
  <2> QED BY <2>2, <2>3
<1>9. CASE WriteFails \/ Rollback
  <2>1. Finish(FALSE, FALSE)
    BY <1>9, Zenon DEF WriteFails, Rollback
  <2> QED BY <1>3, <2>1
<1> QED BY <1>4, <1>6, <1>7, <1>8, <1>9 DEF LockStep

\* A request's own step moves that request alone.
LEMMA RequestStepMovesOne ==
    ASSUME RequestInv, NEW r \in Requests, RequestStep(r)
    PROVE  \A p \in Requests \ {r} : req'[p] = req[p]
<1>1. req = [p \in Requests |-> req[p]]
  BY InvParts
<1>2. \E q : Becomes(r, q)
  BY RequestMoveKinds DEF BindRequest
<1> QED BY <1>1, <1>2 DEF Becomes

\* LockDecided is inductive relative to RequestInv and BindingInv.
LEMMA NextDecides ==
    ASSUME RequestInv, BindingInv, LockDecided, [Next]_vars
    PROVE  LockDecided'
<1>1. req = [r \in Requests |-> req[r]]
  BY InvParts
<1>2. ASSUME NEW r \in Requests, ~At(r, "queued"), UNCHANGED <<store, lock>>,
             mutationQueue # << >> => Job' = Job,
             \A p \in Requests \ {r} : req'[p] = req[p]
      PROVE  LockDecided'
  <2>1. mutationQueue # << >> => (Job.kind = "request" => Job.by \in Requests \ {r})
    BY <1>2, HeadJob
  <2> QED BY <1>2, <2>1, DecisionKept
<1>3. ASSUME NEW r \in Requests, RequestStep(r) PROVE LockDecided'
  <2>1. /\ ~At(r, "queued") /\ UNCHANGED <<store, lock>>
        /\ mutationQueue # << >> => Job' = Job
    BY <1>3, StepsAreNotQueued, HeadStays, RequestStepKinds
  <2>2. \A p \in Requests \ {r} : req'[p] = req[p]
    BY <1>3, RequestStepMovesOne
  <2> QED BY <1>2, <2>1, <2>2
<1>4. ASSUME NEW r \in Requests, Arrive(r) PROVE LockDecided'
  <2>1. PICK c \in Calls : Start(r, c)
    BY <1>4 DEF Arrive
  <2>2. UNCHANGED <<store, lock, mutationQueue>> /\ ~Running(r)
    BY <1>4, <2>1 DEF Arrive, Start, Running
  <2>3. \A p \in Requests \ {r} : req'[p] = req[p]
    BY <1>1, <2>1 DEF Start, Becomes
  <2> QED BY <1>2, <2>2, <2>3 DEF At, Job
<1>5. CASE LockStep
  BY <1>5, LockDecides
<1>6. CASE Crash
  <2>1. lock' = Free
    BY <1>6 DEF Crash
  <2> QED BY <2>1 DEF LockDecided, Free
<1>7. CASE Switch \/ Quiet \/ UNCHANGED vars
  <2>1. UNCHANGED <<store, lock, mutationQueue, req>>
    BY <1>7, Zenon DEF Switch, Quiet, vars
  <2> QED BY <2>1, DecisionKept DEF Job
<1> QED BY <1>3, <1>4, <1>5, <1>6, <1>7 DEF Next

\* The lock's holder carries out its verdict in every reachable state.
THEOREM LockIsDecided == Spec => []LockDecided
<1>1. Init => LockDecided
  BY DEF Init, LockDecided, Free
<1>2. RequestInv /\ BindingInv /\ LockDecided /\ [Next]_vars => LockDecided'
  BY NextDecides
<1> QED BY <1>1, <1>2, RequestsFit, BindingSound, PTL DEF Spec

-----------------------------------------------------------------------------
(***************************************************************************)
(* What the commits do.                                                    *)
(***************************************************************************)

\* Only a write and a rollback change the store.
LEMMA StoreSteps ==
    ASSUME RequestInv, [Next]_vars
    PROVE  store' = store \/ LockedWrite \/ Rollback
<1>1. ASSUME NEW r \in Requests, Arrive(r) \/ RequestStep(r) PROVE store' = store
  BY <1>1, RequestStepKinds DEF Arrive, Start
<1>2. CASE LockStep
  BY <1>2 DEF LockStep, LockedRead, ConfirmRead, ConfirmCheck, WriteFails
<1>3. CASE Switch \/ Crash \/ Quiet \/ UNCHANGED vars
  BY <1>3, Zenon DEF Switch, Crash, Quiet, vars
<1> QED BY <1>1, <1>2, <1>3 DEF Next

\* What a mutator of a call's own script reveals is what the call's dialog
\* showed, and nothing is revealed by one that confirms.
LEMMA MutationReveals ==
    ASSUME NEW c \in AllCalls, NEW snap \in GoodStores, NEW s \in GoodStores, NEW fp,
           NEW step \in LockSteps, step \in OwnSteps(c, snap),
           NEW v \in Mutation(step, c, snap, fp, s), v.do = "write"
    PROVE  /\ v.new.accounts # s.accounts =>
                 /\ s.accounts \subseteq v.new.accounts
                 /\ v.new.accounts \ s.accounts = Shown(c, snap)
           /\ step \in Confirmed => v.new.accounts = s.accounts
<1>1. s \in Stores
  BY DEF GoodStores
<1>2. ASSUME v.new.accounts = s.accounts
      PROVE  /\ v.new.accounts # s.accounts =>
                   /\ s.accounts \subseteq v.new.accounts
                   /\ v.new.accounts \ s.accounts = Shown(c, snap)
             /\ step \in Confirmed => v.new.accounts = s.accounts
  BY <1>2
<1>3. CASE step \in {"connect", "grant"}
  <2>1. PICK now \in Times : v \in ConnectOrigin(s, c.origin, fp, now)
    BY <1>3 DEF Mutation
  <2>2. v.new.accounts = s.accounts
    BY <1>1, <2>1 DEF ConnectOrigin, Refuse, Keep, Write, Stores
  <2> QED BY <1>2, <2>2
<1>4. CASE step \in {"network", "token", "activate"}
  <2>1. v \in {SetActiveNetwork(s, c.arg, fp), AddToken(s, snap.network, c.arg, fp),
               SetActiveAccount(s, c.arg, fp)}
    BY <1>4 DEF Mutation
  <2>2. v.new.accounts = s.accounts
    BY <1>1, <2>1 DEF SetActiveNetwork, AddToken, SetActiveAccount, Refuse, Keep, Write, Stores
  <2> QED BY <1>2, <2>2
<1>5. CASE step \in {"disconnect", "untoken", "clearNotice"}
  <2>1. v \in {DisconnectOrigin(s, c.arg), RemoveToken(s, c.arg[1], c.arg[2]),
               ClearResetNotice(s)}
    BY <1>5 DEF Mutation
  <2>2. v.new.accounts = s.accounts
    BY <1>1, <2>1 DEF DisconnectOrigin, RemoveToken, ClearResetNotice, Keep, Write, Stores
  <2> QED BY <1>2, <2>2
<1>6. CASE step = "reveal"
  <2>1. c.op = "addAccount"
    BY <1>6 DEF OwnSteps, AllCalls, Signing
  <2>2. v = RevealAccount(s, NextAccountIndex(snap), fp)
    BY <1>6 DEF Mutation
  <2>3. v.new.accounts = s.accounts \cup {NextAccountIndex(snap)}
        /\ NextAccountIndex(snap) \notin s.accounts
    BY <1>1, <2>2 DEF RevealAccount, Refuse, Keep, Write, Stores
  <2> QED BY <1>6, <2>1, <2>3 DEF Shown, Confirmed
<1>7. CASE step = "revealThrough"
  <2>1. c.op = "findAccount"
    BY <1>7 DEF OwnSteps, AllCalls, Signing
  <2>2. v = RevealAccountsThrough(s, c.arg, NextAccountIndex(snap), fp)
    BY <1>7 DEF Mutation
  <2>3. /\ v.new.accounts = s.accounts \cup (NextAccountIndex(snap) .. c.arg)
        /\ NextAccountIndex(s) = NextAccountIndex(snap) /\ c.arg \in Indices
    BY <1>1, <2>2 DEF RevealAccountsThrough, Refuse, Keep, Write, Stores
  <2>4. PICK n \in Indices : s.accounts = 0 .. n
    BY DEF GoodStores, GapFree
  <2>5. n \in Nat /\ c.arg \in Nat
    BY <2>3, <2>4, StoreAssumption DEF Indices
  <2>6. NextAccountIndex(snap) = n + 1
    BY <1>1, <2>3, <2>4, <2>5, NextOfRange
  <2>7. (0 .. n \cup (n + 1 .. c.arg)) \ 0 .. n = n + 1 .. c.arg
    BY <2>5
  <2> QED BY <1>7, <2>1, <2>3, <2>4, <2>6, <2>7 DEF Shown, Confirmed
<1> QED BY <1>3, <1>4, <1>5, <1>6, <1>7 DEF LockSteps

\* The head job's verdict, with what is known of the job when it is a request's.
LEMMA HeadVerdict ==
    ASSUME RequestInv, mutationQueue # << >>, NEW v \in Verdict(lock.was), v.do = "write"
    PROVE  /\ Job.kind = "reconcile" => v.new.fp = Job.fp /\ lock.was.fp # Job.fp
           /\ Job.kind = "request" =>
                 LET q == req[Job.by]
                 IN /\ q.call \in AllCalls /\ q.snap \in GoodStores
                    /\ Head(q.todo) \in LockSteps /\ Head(q.todo) \in OwnSteps(q.call, q.snap)
                    /\ v \in Mutation(Head(q.todo), q.call, q.snap, q.bnd.fp, lock.was)
<1>1. lock.was \in GoodStores
  BY InvParts
<1>2. ASSUME Job.kind = "reconcile" PROVE v.new.fp = Job.fp /\ lock.was.fp # Job.fp
  <2>1. Job.fp \in Phrases /\ v = ReconcileEntropyBinding(lock.was, Job.fp)
    BY <1>2, HeadJob DEF Verdict, Jobs
  <2>2. v.new.fp = Job.fp
    BY <1>1, <2>1, ReconcileIsGood
  <2> QED BY <2>1, <2>2 DEF ReconcileEntropyBinding, Keep
<1>3. ASSUME Job.kind = "request"
      PROVE  LET q == req[Job.by]
             IN /\ q.call \in AllCalls /\ q.snap \in GoodStores
                /\ Head(q.todo) \in LockSteps /\ Head(q.todo) \in OwnSteps(q.call, q.snap)
                /\ v \in Mutation(Head(q.todo), q.call, q.snap, q.bnd.fp, lock.was)
  <2>1. /\ Good(req[Job.by]) /\ req[Job.by].outcome = "running"
        /\ Head(req[Job.by].todo) \in LockSteps
        /\ Head(req[Job.by].todo) \in OwnSteps(req[Job.by].call, req[Job.by].snap)
    BY <1>3, HeadJob DEF Step
  <2>2. req[Job.by].call \in AllCalls /\ req[Job.by].snap \in GoodStores
    BY <2>1, StepShape
  <2> QED BY <1>3, <2>1, <2>2 DEF Verdict
<1> QED BY <1>2, <1>3

\* Accounts are revealed as the approved dialog showed them: the range is
\* compared with the dialog's again under the lock, and a rollback, which only
\* a preference is given, conceals none.
THEOREM RevealsAsShown == Spec => RevealsWhatWasShown
<1> DEFINE A == store'.fp = store.fp /\ store'.accounts # store.accounts =>
                   LET q == req[Job.by]
                   IN /\ store.accounts \subseteq store'.accounts
                      /\ store'.accounts \ store.accounts = Shown(q.call, q.snap)
<1>1. RequestInv /\ LockDecided /\ [Next]_vars => [A]_vars
  <2> SUFFICES ASSUME RequestInv, LockDecided, [Next]_vars, store'.fp = store.fp,
                      store'.accounts # store.accounts
               PROVE  LET q == req[Job.by]
                      IN /\ store.accounts \subseteq store'.accounts
                         /\ store'.accounts \ store.accounts = Shown(q.call, q.snap)
    OBVIOUS
  <2>1. mutationQueue # << >> /\ lock.phase # "get" /\ lock.was \in GoodStores
    BY StoreSteps, InvParts DEF LockedWrite, Rollback, Holding
  <2>2. PICK v \in Verdict(lock.was) : v.do = "write" /\ v.new = lock.new
    BY <2>1 DEF LockDecided
  <2>3. CASE LockedWrite
    <3>1. store = lock.was /\ store' = lock.new
      BY <2>1, <2>3 DEF LockedWrite, Holding, LockDecided
    <3>2. Job.kind = "request"
      BY <2>1, <2>2, <3>1, HeadVerdict, HeadJob DEF Jobs
    <3> QED BY <2>1, <2>2, <3>1, <3>2, HeadVerdict, MutationReveals
  <2>4. CASE Rollback
    <3>1. store = lock.new /\ store' \in {lock.was, store} /\ Confirms
      BY <2>1, <2>4 DEF Rollback, Holding, LockDecided
    <3>2. lock.new.accounts = lock.was.accounts
      BY <2>1, <2>2, <3>1, HeadVerdict, MutationReveals DEF Confirms
    <3> QED BY <3>1, <3>2
  <2> QED BY <2>3, <2>4, StoreSteps
<1> QED BY <1>1, RequestsFit, LockIsDecided, PTL DEF Spec, RevealsWhatWasShown

\* How a commit that has written ends: confirmed, or refused and rolled back.
LEMMA WrittenEnds ==
    ASSUME RequestInv, BindingInv, LockDecided, [Next]_vars, lock.wrote,
           NEW r \in Requests, At(r, "queued"), req'[r].outcome \in {"returned", "refused"}
    PROVE  \/ /\ Confirmation(req[r].bnd) /\ UNCHANGED context
              /\ req'[r] = Advanced(req[r])
           \/ Rollback /\ req'[r] = Ended("refused")
<1>1. /\ req = [p \in Requests |-> req[p]] /\ mutationQueue # << >> /\ lock.phase # "get"
      /\ Running(r)
  BY InvParts DEF BindingInv, LockOK, LockDecided, At
<1>2. /\ lock.phase # "write" /\ Job.kind = "request" /\ Job.by \in Requests
      /\ Head(req[Job.by].todo) \in Confirmed
      /\ Head(req[Job.by].todo) \in OwnSteps(req[Job.by].call, req[Job.by].snap)
      /\ req[Job.by].call \in AllCalls
  <2>1. lock.phase # "write" /\ Confirms
    <3>1. lock \in Locks
      BY InvParts
    <3> QED BY <1>1, <3>1 DEF LockDecided, Locks
  <2>2. Job.kind = "request" /\ Head(req[Job.by].todo) \in Confirmed
    BY <2>1 DEF Confirms
  <2> QED BY <1>1, <2>1, <2>2, HeadJob, StepShape DEF Step
<1>3. Refused(req[Job.by]) = Ended("refused")
  <2>1. req[Job.by].call.op \in {"setNetwork", "addToken"}
    BY <1>2 DEF OwnSteps, Confirmed, AllCalls, Signing
  <2> QED BY <1>2, <2>1 DEF Refused, Confirmed
<1>4. req[r].outcome = "running" /\ req'[r] # req[r]
  BY <1>1 DEF Running
<1>5. ASSUME NEW ok, NEW reset, Finish(ok, reset)
      PROVE  /\ Job.by = r /\ UNCHANGED context
             /\ req'[r] = IF ok THEN Advanced(req[r]) ELSE Ended("refused")
  BY <1>1, <1>2, <1>3, <1>4, <1>5 DEF Finish, Advance, RefuseReq, Becomes
<1>6. CASE \E p \in Requests : Arrive(p) \/ RequestStep(p)
  <2>1. PICK p \in Requests : Arrive(p) \/ RequestStep(p)
    BY <1>6
  <2>2. p = r
    BY <1>1, <1>4, <2>1, RequestStepMovesOne DEF Arrive, Start, Becomes
  <2> QED BY <1>4, <2>1, <2>2, StepsAreNotQueued DEF Arrive, Start
<1>7. CASE ConfirmCheck
  <2>1. Finish(Confirmation(req[Job.by].bnd), FALSE)
    BY <1>4, <1>7 DEF ConfirmCheck
  <2>2. Confirmation(req[r].bnd) \in BOOLEAN /\ Job.by = r
    BY <1>5, <2>1 DEF Confirmation
  <2>3. Confirmation(req[r].bnd)
    <3> SUFFICES ASSUME ~Confirmation(req[r].bnd) PROVE FALSE
      OBVIOUS
    <3>1. UNCHANGED req
      BY <1>7, <2>2 DEF ConfirmCheck
    <3> QED BY <1>4, <3>1
  <2> QED BY <1>5, <2>1, <2>2, <2>3
<1>8. CASE Rollback
  BY <1>5, <1>8 DEF Rollback
<1>9. CASE LockedRead \/ LockedWrite \/ WriteFails
  BY <1>1, <1>2, <1>9, Zenon DEF LockedRead, LockedWrite, WriteFails, Holding
<1>10. CASE Crash
  BY <1>1, <1>10 DEF Crash, Ended, Idle
<1>11. CASE ConfirmRead \/ Switch \/ Quiet \/ UNCHANGED vars
  <2>1. UNCHANGED req
    BY <1>11, Zenon DEF ConfirmRead, Switch, Quiet, vars
  <2> QED BY <1>4, <2>1
<1> QED BY <1>6, <1>7, <1>8, <1>9, <1>10, <1>11 DEF Next, LockStep

\* A preference is committed while the phrase, source and tenure of its approval
\* are still the wallet's, however often the phrase changed while it waited for
\* the lock, for its confirmations and for its write.
THEOREM CommitsInTenure == Spec => PreferencesCommitInTenure
<1>1. RequestInv /\ BindingInv /\ LockDecided /\ [Next]_vars =>
         [\A r \in Requests :
            Returns(r) /\ req[r].at = "queued" /\ lock.wrote =>
               primary = req[r].bnd.source /\ contextGeneration = req[r].bnd.gen]_vars
  <2> SUFFICES ASSUME RequestInv, BindingInv, LockDecided, [Next]_vars, NEW r \in Requests,
                      Returns(r), req[r].at = "queued", lock.wrote
               PROVE  primary = req[r].bnd.source /\ contextGeneration = req[r].bnd.gen
    OBVIOUS
  <2>1. At(r, "queued") /\ req'[r].outcome = "returned"
    BY DEF Returns, At
  <2>2. Ended("refused").outcome = "refused"
    BY DEF Ended, Idle
  <2>3. Confirmation(req[r].bnd)
    BY <2>1, <2>2, WrittenEnds
  <2> QED BY <2>3 DEF Confirmation
<1> QED BY <1>1, RequestsFit, BindingSound, LockIsDecided, PTL DEF Spec, PreferencesCommitInTenure

\* A refused preference leaves the store as the lock found it, unless the
\* platform refuses the rollback as well.
THEOREM RefusalsLeaveNoTrace == Spec => RefusalLeavesNoTrace
<1>1. RequestInv /\ BindingInv /\ LockDecided /\ [Next]_vars =>
         [\A r \in Requests :
            lock.wrote /\ At(r, "queued") /\ req'[r].outcome = "refused"
              /\ failures' = failures => store' = lock.was]_vars
  <2> SUFFICES ASSUME RequestInv, BindingInv, LockDecided, [Next]_vars, NEW r \in Requests,
                      lock.wrote, At(r, "queued"), req'[r].outcome = "refused",
                      failures' = failures
               PROVE  store' = lock.was
    OBVIOUS
  <2>1. Advanced(req[r]).outcome \in {"returned", "running"}
    <3>1. req[r] \in RequestRecords
      BY InvParts DEF RequestsGood, Good
    <3> QED BY <3>1 DEF Advanced, Continued, Ended, Idle, RequestRecords
  <2>2. Rollback
    BY <2>1, WrittenEnds
  <2>3. failures \in Nat
    BY InvParts DEF EnvironmentTypeOK
  <2> QED BY <2>2, <2>3 DEF Rollback
<1> QED BY <1>1, RequestsFit, BindingSound, LockIsDecided, PTL DEF Spec, RefusalLeavesNoTrace

-----------------------------------------------------------------------------
(***************************************************************************)
(* How the scripts of the answering methods end.                           *)
(***************************************************************************)

\* A script ends as the last of its parts does.
LEMMA LastOfConcat ==
    ASSUME NEW S, NEW p \in Seq(S), NEW q \in Seq(S), q # << >>
    PROVE  p \o q \in Seq(S) /\ p \o q # << >> /\ (p \o q)[Len(p \o q)] = q[Len(q)]
<1>1. /\ p \o q \in Seq(S) /\ Len(p \o q) = Len(p) + Len(q)
      /\ \A i \in 1 .. Len(p) + Len(q) :
            (p \o q)[i] = IF i <= Len(p) THEN p[i] ELSE q[i - Len(p)]
  BY ConcatProperties
<1>2. Len(p) \in Nat /\ Len(q) \in Nat /\ Len(q) >= 1
  BY LenProperties, EmptySeq
<1>3. (p \o q)[Len(p) + Len(q)] = q[Len(q)]
  BY <1>1, <1>2
<1>4. p \o q # << >>
  BY <1>1, <1>2, EmptySeq
<1> QED BY <1>1, <1>3, <1>4

\* A script that goes on ends as it did before its first step; one that does not
\* had that step for its last.
LEMMA LastOfTail ==
    ASSUME NEW S, NEW p \in Seq(S), p # << >>
    PROVE  IF Tail(p) = << >> THEN p[Len(p)] = Head(p)
           ELSE Tail(p)[Len(Tail(p))] = p[Len(p)]
<1>1. /\ Len(p) \in Nat /\ Len(p) >= 1 /\ Head(p) = p[1]
      /\ Tail(p) \in Seq(S) /\ Len(Tail(p)) = Len(p) - 1
      /\ \A i \in 1 .. Len(p) - 1 : Tail(p)[i] = p[i + 1]
  BY HeadTailProperties, LenProperties, EmptySeq
<1>2. CASE Tail(p) = << >>
  <2>1. Len(Tail(p)) = 0
    <3>1. Len(<< >>) = 0
      OBVIOUS
    <3> QED BY <1>2, <3>1, Zenon
  <2>2. Len(p) \in Nat /\ Len(Tail(p)) = Len(p) - 1 /\ Head(p) = p[1]
    BY <1>1
  <2> DEFINE n == Len(p)
             m == Len(Tail(p))
  <2>3. n \in Nat /\ m = n - 1 /\ m = 0
    BY <2>1, <2>2
  <2> HIDE DEF n, m
  <2>4. n = 1
    BY <2>3
  <2> QED BY <1>2, <2>2, <2>4, Zenon DEF n
<1>3. CASE Tail(p) # << >>
  <2>1. Len(p) - 1 >= 1 /\ Len(p) - 1 \in 1 .. Len(p) - 1
    BY <1>1, <1>3, EmptySeq
  <2>2. Tail(p)[Len(p) - 1] = p[(Len(p) - 1) + 1]
    BY <1>1, <2>1
  <2>3. (Len(p) - 1) + 1 = Len(p)
    BY <1>1
  <2> QED BY <1>1, <1>3, <2>2, <2>3
<1> QED BY <1>2, <1>3

\* The plan of an answering method, unless it is empty, ends with the step that
\* observes the phrase again; only the plan of a method that signs is never empty.
LEMMA PlanEnds ==
    ASSUME NEW c \in AllCalls, NEW s, c.op \in Answering
    PROVE  /\ Plan(c, s) # << >> => Plan(c, s)[Len(Plan(c, s))] \in LastSteps(c)
           /\ c.op \in Signing => Plan(c, s) # << >>
<1> DEFINE F == Steps
<1>0. {"unchanged", "target", "outward", "grant", "dialog", "activate", "active", "match", "owned",
       "import", "sign", "submit", "settled", "recheck"} \subseteq F
  BY DEF Steps, LockSteps, Observations, Rechecks, Resolutions
<1> HIDE DEF F
<1>1. /\ <<"unchanged">> \in Seq(F) /\ <<"target">> \in Seq(F) /\ <<"outward">> \in Seq(F)
      /\ <<"grant", "unchanged">> \in Seq(F) /\ <<"unchanged", "grant", "unchanged">> \in Seq(F)
      /\ Approval("activate") \in Seq(F) /\ << >> \in Seq(F)
      /\ Selection(c) \in Seq(F) /\ Signature \in Seq(F) /\ Submission(c) \in Seq(F)
  BY <1>0 DEF Approval, Selection, Signature, Submission
<1>2. \A p \in Seq(F), q \in Seq(F) : p \o q \in Seq(F)
  BY ConcatProperties
<1>3. ASSUME NEW p \in Seq(F), NEW q \in Seq(F), q # << >>, q[Len(q)] \in LastSteps(c),
             Plan(c, s) = p \o q
      PROVE  Plan(c, s) # << >> /\ Plan(c, s)[Len(Plan(c, s))] \in LastSteps(c)
  BY <1>3, LastOfConcat
<1>4. "unchanged" \in LastSteps(c) /\ "recheck" \in LastSteps(c)
  BY DEF LastSteps
<1>5. CASE c.op \in {"getAddress", "getAccounts", "getBalances"}
  <2>1. Plan(c, s) \in {<< >>, <<"active", "unchanged">>, <<"owned", "unchanged">>,
                        <<"active", "outward", "unchanged">>}
    BY <1>5 DEF Plan, GetAddressPlan, GetAccountsPlan, GetBalancesPlan
  <2>2. c.op \notin Signing
    BY <1>5 DEF Signing
  <2> QED BY <1>4, <2>1, <2>2
<1>6. CASE c.op = "setActiveAccount"
  <2>1. Plan(c, s) = (<<"target">> \o (IF s.active = c.arg THEN << >> ELSE Approval("activate")))
                     \o <<"unchanged">>
    BY <1>6 DEF Plan, SetActiveAccountPlan
  <2> QED BY <1>1, <1>2, <1>3, <1>4, <2>1
<1>7. CASE c.op \in Signing
  <2>1. Plan(c, s) \in {SignMessagePlan(c), SignTransactionPlan(c), SignAuthEntryPlan(c)}
    BY <1>7 DEF Plan, Signing
  <2>2. CASE Plan(c, s) = SignMessagePlan(c)
    <3>1. Plan(c, s) = (Selection(c) \o Signature) \o <<"grant", "unchanged">>
      BY <2>2 DEF SignMessagePlan
    <3> QED BY <1>1, <1>2, <1>3, <1>4, <3>1
  <2>3. CASE Plan(c, s) = SignTransactionPlan(c)
    <3>1. Plan(c, s) = ((Selection(c) \o Signature) \o <<"grant", "unchanged">>) \o Submission(c)
      BY <2>3 DEF SignTransactionPlan
    <3>2. CASE Submission(c) = << >>
      <4>1. Plan(c, s) = (Selection(c) \o Signature) \o <<"grant", "unchanged">>
        BY <1>1, <1>2, <3>1, <3>2, ConcatEmptySeq
      <4> QED BY <1>1, <1>2, <1>3, <1>4, <4>1
    <3>3. CASE Submission(c) = <<"submit", "settled", "recheck">>
      <4>1. (Selection(c) \o Signature) \o <<"grant", "unchanged">> \in Seq(F)
        BY <1>1, <1>2
      <4> QED BY <1>1, <1>3, <1>4, <1>7, <3>1, <3>3, <4>1
    <3> QED BY <3>2, <3>3 DEF Submission
  <2>4. CASE Plan(c, s) = SignAuthEntryPlan(c)
    <3>1. Plan(c, s) = ((Selection(c) \o <<"outward">>) \o Signature)
                       \o <<"unchanged", "grant", "unchanged">>
      BY <2>4 DEF SignAuthEntryPlan
    <3> QED BY <1>1, <1>2, <1>3, <1>4, <3>1
  <2> QED BY <2>1, <2>2, <2>3, <2>4
<1> QED BY <1>5, <1>6, <1>7 DEF Answering

-----------------------------------------------------------------------------
(***************************************************************************)
(* A request that goes on keeps what it knows in its tenure.               *)
(***************************************************************************)

Openers == {"connected", "bind", "observe"}

\* What is left to a request that is over, or that goes on with a script.
LEMMA GoesOn ==
    ASSUME NEW q \in RequestRecords
    PROVE  /\ \A outcome : Ended(outcome).outcome = outcome /\ Ended(outcome).key = None
           /\ Continued(q, << >>) = Ended("returned")
           /\ \A todo : todo # << >> =>
                 LET p == Continued(q, todo)
                 IN /\ p.call = q.call /\ p.bnd = q.bnd /\ p.addr = q.addr /\ p.key = q.key
                    /\ p.snap = q.snap /\ p.todo = todo /\ p.outcome = "running"
<1>1. \A outcome : Ended(outcome).outcome = outcome /\ Ended(outcome).key = None
  BY DEF Ended, Idle
<1>2. Continued(q, << >>) = Ended("returned")
  BY DEF Continued
<1>3. ASSUME NEW todo, todo # << >>
      PROVE  LET p == Continued(q, todo)
             IN /\ p.call = q.call /\ p.bnd = q.bnd /\ p.addr = q.addr /\ p.key = q.key
                /\ p.snap = q.snap /\ p.todo = todo /\ p.outcome = "running"
  BY <1>3 DEF Continued, RequestRecords
<1> QED BY <1>1, <1>2, <1>3

\* It goes on within its tenure, with a script that opens nothing it has opened.
LEMMA ContinuedTenured ==
    ASSUME NEW q \in RequestRecords, NEW gen, NEW fp, NEW todo,
           q.addr \subseteq {q.bnd.fp}, Tenable(q.bnd, gen, fp),
           todo # << >> => /\ Head(todo) \in Openers => q.addr = {}
                           /\ q.call.op \in Answering => todo[Len(todo)] \in LastSteps(q.call),
           Continued(q, todo).outcome = "running"
    PROVE  Tenured(Continued(q, todo), gen, fp)
<1>1. todo # << >>
  BY GoesOn
<1> DEFINE p == Continued(q, todo)
<1>2. p.call = q.call /\ p.bnd = q.bnd /\ p.addr = q.addr /\ p.todo = todo
  BY <1>1, GoesOn
<1> HIDE DEF p
<1>3. Tenured(p, gen, fp)
  BY <1>1, <1>2 DEF Tenured, Openers
<1> QED BY <1>3 DEF p

\* A request that has opened its script opens it no more.
LEMMA OpenersLead ==
    ASSUME NEW c \in AllCalls, NEW snap, NEW todo, todo # << >>,
           todo \in Preludes(c) \/ todo \in Seq(Fitting(c, snap)),
           Tail(todo) # << >>, Head(Tail(todo)) \in Openers
    PROVE  Head(todo) = "connected"
<1>1. CASE todo \in Preludes(c)
  <2>1. CASE todo \in {Ensure, <<"snapshot", "active", "admit">>, <<"active", "admit">>,
                       <<"observe", "state">>}
    BY <2>1 DEF Ensure, Openers
  <2>2. ASSUME NEW step, todo = <<step>> PROVE FALSE
    BY <2>2, LastStep
  <2>3. CASE todo = Guarded
    BY <2>3 DEF Guarded
  <2> QED BY <1>1, <2>1, <2>2, <2>3, OpeningShape DEF Preludes
<1>2. CASE todo \in Seq(Fitting(c, snap))
  <2>1. Tail(todo) \in Seq(Fitting(c, snap))
    BY <1>2, HeadTailProperties
  <2>2. Head(Tail(todo)) \in Fitting(c, snap)
    BY <2>1, HeadTailProperties
  <2> QED BY <2>2, FittingSteps DEF Openers
<1> QED BY <1>1, <1>2

\* It takes the next step of its script.
LEMMA AdvancedTenured ==
    ASSUME NEW q \in RequestRecords, q.call \in AllCalls, q.todo # << >>,
           q.todo \in Preludes(q.call) \/ q.todo \in Seq(Fitting(q.call, q.snap)),
           NEW gen, NEW fp, Tenured(q, gen, fp), Advanced(q).outcome = "running"
    PROVE  Tenured(Advanced(q), gen, fp)
<1>1. q.addr \subseteq {q.bnd.fp} /\ Tenable(q.bnd, gen, fp)
  BY DEF Tenured
<1>2. Tail(q.todo) # << >>
  <2>1. Ended("returned").outcome # "running"
    BY GoesOn
  <2> QED BY <2>1 DEF Advanced, Continued
<1>3. Head(Tail(q.todo)) \in Openers => q.addr = {}
  BY <1>2, OpenersLead DEF Tenured
<1>4. q.todo \in Seq(Steps)
  BY DEF RequestRecords
<1>5. q.call.op \in Answering => Tail(q.todo)[Len(Tail(q.todo))] \in LastSteps(q.call)
  BY <1>2, <1>4, LastOfTail DEF Tenured
<1> QED BY <1>1, <1>3, <1>5, ContinuedTenured DEF Advanced

\* It takes a refusal.
LEMMA RefusedTenured ==
    ASSUME NEW q, Good(q), q.outcome = "running", NEW gen, NEW fp, Tenured(q, gen, fp),
           Refused(q).outcome = "running"
    PROVE  Tenured(Refused(q), gen, fp)
<1>1. /\ q \in RequestRecords /\ q.call \in AllCalls /\ q.todo # << >>
      /\ q.todo \in Preludes(q.call) \/ q.todo \in Seq(Fitting(q.call, q.snap))
  BY StepShape DEF Runnable
<1>2. CASE Refused(q) = Continued(q, <<"state">>) /\ q.call.op = "home"
  <2>1. q.call.op \notin Answering
    BY <1>2 DEF Answering, Signing
  <2> DEFINE todo == <<"state">>
  <2>2. Head(todo) \notin Openers
    BY DEF Openers
  <2>3. q.addr \subseteq {q.bnd.fp} /\ Tenable(q.bnd, gen, fp)
    BY DEF Tenured
  <2>4. Refused(q) = Continued(q, todo)
    BY <1>2
  <2> HIDE DEF todo
  <2> QED BY <1>1, <2>1, <2>2, <2>3, <2>4, ContinuedTenured
<1>3. CASE Refused(q) = Advanced(q)
  BY <1>1, <1>3, AdvancedTenured
<1>4. CASE Refused(q) = Ended("refused")
  BY <1>1, <1>4, GoesOn
<1> QED BY <1>2, <1>3, <1>4 DEF Refused

\* It has its addresses resolved, all of them of the phrase it is bound to.
LEMMA ResolvedTenured ==
    ASSUME NEW q, Good(q), q.outcome = "running", Head(q.todo) \in Resolutions,
           NEW gen, NEW fp, Tenured(q, gen, fp), q.bnd.fp \in Phrases,
           NEW want, NEW cache, \A i \in want : cache[i] \in {None, q.bnd.fp},
           Resolved(q, want, cache).outcome = "running"
    PROVE  Tenured(Resolved(q, want, cache), gen, fp)
<1> DEFINE phrases == {a.phrase : a \in {[phrase |-> cache[i], index |-> i] : i \in want}}
<1>1. CASE Resolved(q, want, cache) = Refused(q)
  BY <1>1, RefusedTenured
<1>2. CASE /\ \A i \in want : cache[i] # None
           /\ Resolved(q, want, cache) = Advanced([q EXCEPT !.addr = phrases])
  <2>1. phrases \subseteq {q.bnd.fp}
    BY <1>2
  <2> HIDE DEF phrases
  <2>2. /\ q \in RequestRecords /\ q.call \in AllCalls /\ q.todo # << >>
        /\ q.todo \in Preludes(q.call) \/ q.todo \in Seq(Fitting(q.call, q.snap))
    BY StepShape DEF Runnable
  <2> DEFINE p == [q EXCEPT !.addr = phrases]
  <2>3. /\ p \in RequestRecords /\ p.call = q.call /\ p.todo = q.todo /\ p.bnd = q.bnd
        /\ p.snap = q.snap /\ p.addr = phrases
    BY <2>1, <2>2 DEF RequestRecords
  <2> HIDE DEF p
  <2>4. Tenured(p, gen, fp)
    BY <2>1, <2>3 DEF Tenured, Resolutions
  <2>5. Tenured(Advanced(p), gen, fp)
    BY <1>2, <2>2, <2>3, <2>4, AdvancedTenured DEF p
  <2> QED BY <1>2, <2>5 DEF p
<1>3. \/ Resolved(q, want, cache) = Refused(q)
      \/ /\ \A i \in want : cache[i] # None
         /\ Resolved(q, want, cache) = Advanced([q EXCEPT !.addr = phrases])
  BY Zenon DEF Resolved
<1> QED BY <1>1, <1>2, <1>3

-----------------------------------------------------------------------------
(***************************************************************************)
(* The tenure of the context, and the requests that take no step.          *)
(***************************************************************************)

\* The context keeps its tenure, or a changed fingerprint starts another.
SameTenure ==
    contextGeneration' = contextGeneration /\ contextFingerprint' = contextFingerprint

TenureStep == SameTenure \/ contextGeneration' = contextGeneration + 1

\* Observing a fingerprint is such a step.
LEMMA BindingIsTenureStep ==
    ASSUME NEW fp, BindFingerprint(fp)
    PROVE  TenureStep
BY Zenon DEF BindFingerprint, TenureStep, SameTenure

\* A binding keeps its place in the order of tenures.
LEMMA TenablePasses ==
    ASSUME ContextTypeOK, TenureStep, NEW b \in Bindings,
           Tenable(b, contextGeneration, contextFingerprint)
    PROVE  Tenable(b, contextGeneration', contextFingerprint')
<1>1. b.gen \in Nat /\ contextGeneration \in Nat
  BY DEF Bindings, ContextTypeOK
<1>2. CASE SameTenure
  BY <1>2 DEF SameTenure, Tenable
<1>3. CASE contextGeneration' = contextGeneration + 1
  BY <1>1, <1>3 DEF Tenable
<1> QED BY <1>2, <1>3 DEF TenureStep

\* So does what a request knows when it moves without changing its script.
LEMMA TenuredPasses ==
    ASSUME ContextTypeOK, TenureStep, NEW q \in RequestRecords,
           Tenured(q, contextGeneration, contextFingerprint),
           NEW p, p.call = q.call, p.todo = q.todo, p.bnd = q.bnd, p.addr = q.addr
    PROVE  Tenured(p, contextGeneration', contextFingerprint')
<1>1. q.bnd \in Bindings
  BY DEF RequestRecords
<1>2. Tenable(q.bnd, contextGeneration', contextFingerprint')
  BY <1>1, TenablePasses DEF Tenured
<1> QED BY <1>2 DEF Tenured

\* One request moves and stays in its tenure, and so do they all.
LEMMA TenureMoves ==
    ASSUME RequestInv, TenureInv, TenureStep, NEW r \in Requests, NEW x, Becomes(r, x),
           x.outcome = "running" => Tenured(x, contextGeneration', contextFingerprint')
    PROVE  TenureInv'
<1>1. req = [p \in Requests |-> req[p]] /\ ContextTypeOK /\ \A p \in Requests : req[p] \in RequestRecords
  BY InvParts DEF RequestInv, TypeOK
<1>2. req'[r] = x /\ \A p \in Requests \ {r} : req'[p] = req[p]
  BY <1>1 DEF Becomes
<1>3. ASSUME NEW p \in Requests \ {r}, Running(p)'
      PROVE  Tenured(req'[p], contextGeneration', contextFingerprint')
  <2>1. Running(p) /\ req'[p] = req[p] /\ req[p] \in RequestRecords
    BY <1>1, <1>2, <1>3 DEF Running
  <2>2. Tenured(req[p], contextGeneration, contextFingerprint)
    BY <2>1 DEF TenureInv
  <2> QED BY <1>1, <2>1, <2>2, TenuredPasses
<1> QED BY <1>2, <1>3 DEF TenureInv, Running

-----------------------------------------------------------------------------
(***************************************************************************)
(* The steps of the requests.                                              *)
(***************************************************************************)

\* A request at work is well formed, and in its tenure.
LEMMA AtWork ==
    ASSUME RequestInv, TenureInv, NEW r \in Requests,
           NEW at \in {"start", "fetch", "confirm", "await"}, At(r, at)
    PROVE  /\ Good(req[r]) /\ req[r].outcome = "running" /\ req[r] \in RequestRecords
           /\ req[r].call \in AllCalls /\ req[r].snap \in GoodStores /\ req[r].todo # << >>
           /\ \/ req[r].todo \in Preludes(req[r].call)
              \/ req[r].todo \in Seq(Fitting(req[r].call, req[r].snap))
           /\ Tenured(req[r], contextGeneration, contextFingerprint)
<1>1. Good(req[r]) /\ req[r].outcome = "running"
  BY Started
<1>2. Tenured(req[r], contextGeneration, contextFingerprint)
  BY <1>1 DEF TenureInv, Running
<1> QED BY <1>1, <1>2, StepShape DEF Runnable

\* It takes its next step, or a refusal, in the same tenure.
LEMMA PlainMoveTenured ==
    ASSUME RequestInv, TenureInv, NEW r \in Requests,
           NEW at \in {"start", "fetch", "confirm", "await"}, At(r, at), SameTenure,
           Advance(r) \/ RefuseReq(r)
    PROVE  TenureInv'
<1>1. /\ Advanced(req[r]).outcome = "running" =>
            Tenured(Advanced(req[r]), contextGeneration, contextFingerprint)
      /\ Refused(req[r]).outcome = "running" =>
            Tenured(Refused(req[r]), contextGeneration, contextFingerprint)
  BY AtWork, AdvancedTenured, RefusedTenured
<1>2. \/ Becomes(r, Advanced(req[r]))
      \/ Becomes(r, Refused(req[r]))
  BY DEF Advance, RefuseReq
<1>3. TenureStep /\ contextGeneration' = contextGeneration /\ contextFingerprint' = contextFingerprint
  BY DEF TenureStep, SameTenure
<1>4. ASSUME NEW x, Becomes(r, x),
             x.outcome = "running" => Tenured(x, contextGeneration, contextFingerprint)
      PROVE  TenureInv'
  BY <1>3, <1>4, TenureMoves
<1> QED BY <1>1, <1>2, <1>4

\* It is over.
LEMMA EndTenured ==
    ASSUME RequestInv, TenureInv, NEW r \in Requests, SameTenure,
           NEW outcome, outcome # "running", Becomes(r, Ended(outcome))
    PROVE  TenureInv'
<1>1. Ended(outcome).outcome # "running"
  BY DEF Ended, Idle
<1>2. TenureStep
  BY DEF TenureStep
<1> QED BY <1>1, <1>2, TenureMoves

\* It names the primary source, or waits for the lock: its script stays.
LEMMA WaitTenured ==
    ASSUME RequestInv, TenureInv, NEW r \in Requests,
           ReadSource(r) \/ Enqueue(r)
    PROVE  TenureInv'
<1>1. SameTenure /\ TenureStep
  BY DEF ReadSource, Enqueue, context, SameTenure, TenureStep
<1>2. \E at \in {"start", "fetch"} : At(r, at)
  BY DEF ReadSource, Enqueue
<1>3. /\ req[r] \in RequestRecords /\ ContextTypeOK
      /\ Tenured(req[r], contextGeneration, contextFingerprint)
  BY <1>2, AtWork, Started
<1>4. \E x : /\ Becomes(r, x)
             /\ x.call = req[r].call /\ x.todo = req[r].todo
             /\ x.bnd = req[r].bnd /\ x.addr = req[r].addr
  <2>1. CASE ReadSource(r)
    <3> DEFINE x == [req[r] EXCEPT !.at = "confirm", !.seen = primary]
    <3>1. x.call = req[r].call /\ x.todo = req[r].todo /\ x.bnd = req[r].bnd /\ x.addr = req[r].addr
      BY <1>3 DEF RequestRecords
    <3> QED BY <2>1, <3>1 DEF ReadSource
  <2>2. CASE Enqueue(r)
    <3> DEFINE x == [req[r] EXCEPT !.at = "queued"]
    <3>1. x.call = req[r].call /\ x.todo = req[r].todo /\ x.bnd = req[r].bnd /\ x.addr = req[r].addr
      BY <1>3 DEF RequestRecords
    <3> QED BY <2>2, <3>1 DEF Enqueue
  <2> QED BY <2>1, <2>2
<1> QED BY <1>1, <1>3, <1>4, TenuredPasses, TenureMoves

\* It observes the phrase, or imports the node of the phrase it is bound to.
LEMMA ObservationTenured ==
    ASSUME RequestInv, TenureInv, NEW r \in Requests,
           ConfirmSource(r) \/ ImportNode(r)
    PROVE  TenureInv'
<1>1. PICK at \in {"start", "confirm"} : At(r, at)
  BY Zenon DEF ConfirmSource, ImportNode
<1>2. /\ req[r] \in RequestRecords /\ ContextTypeOK
      /\ Tenured(req[r], contextGeneration, contextFingerprint)
  BY <1>1, AtWork, Started
<1>3. CASE RefuseReq(r) /\ UNCHANGED context
  BY <1>1, <1>3, PlainMoveTenured DEF context, SameTenure
<1>4. ASSUME NEW fp, BindFingerprint(fp), NEW seen,
             Becomes(r, [req[r] EXCEPT !.at = "await", !.seen = seen,
                                       !.ticket = reconciliationTicket'])
      PROVE  TenureInv'
  <2> DEFINE x == [req[r] EXCEPT !.at = "await", !.seen = seen, !.ticket = reconciliationTicket']
  <2>1. x.call = req[r].call /\ x.todo = req[r].todo /\ x.bnd = req[r].bnd /\ x.addr = req[r].addr
    BY <1>2 DEF RequestRecords
  <2> QED BY <1>2, <1>4, <2>1, BindingIsTenureStep, TenuredPasses, TenureMoves
<1>5. CASE ConfirmSource(r)
  <2>1. [req[r] EXCEPT !.at = "await", !.ticket = reconciliationTicket'] =
        [req[r] EXCEPT !.at = "await", !.seen = req[r].seen, !.ticket = reconciliationTicket']
    BY <1>2 DEF RequestRecords
  <2> QED BY <1>3, <1>4, <1>5, <2>1, Zenon DEF ConfirmSource
<1>6. CASE ImportNode(r)
  BY <1>3, <1>4, <1>6, Zenon DEF ImportNode
<1> QED BY <1>5, <1>6

\* It binds: to the source it has seen, in the context's tenure.
LEMMA BindRequestTenured ==
    ASSUME RequestInv, TenureInv, NEW r \in Requests, BindRequest(r)
    PROVE  TenureInv'
<1>1. At(r, "await") /\ Head(req[r].todo) \in {"bind", "observe"} /\ ~Superseded(r)
  BY DEF BindRequest, Observed, Acceptable, Step
<1>2. /\ req[r] \in RequestRecords /\ req[r].call \in AllCalls /\ req[r].todo # << >>
      /\ req[r].todo \in Preludes(req[r].call) \/ req[r].todo \in Seq(Fitting(req[r].call, req[r].snap))
      /\ Tenured(req[r], contextGeneration, contextFingerprint)
  BY <1>1, AtWork
<1>3. ContextTypeOK /\ Seen(r) \in Bindings
  BY <1>1, Started, SeenIsBinding
<1> DEFINE q == [req[r] EXCEPT !.bnd = Seen(r)]
<1>4. /\ q \in RequestRecords /\ q.call = req[r].call /\ q.todo = req[r].todo
      /\ q.snap = req[r].snap /\ q.addr = req[r].addr /\ q.bnd = Seen(r)
  BY <1>2, <1>3 DEF RequestRecords
<1> HIDE DEF q
<1>5. Tenable(Seen(r), contextGeneration, contextFingerprint)
  BY <1>1, <1>3 DEF Tenable, Seen, Superseded, ContextTypeOK
<1>6. Tenured(q, contextGeneration, contextFingerprint)
  BY <1>1, <1>2, <1>4, <1>5 DEF Tenured
<1>7. Advanced(q).outcome = "running" =>
         Tenured(Advanced(q), contextGeneration, contextFingerprint)
  BY <1>2, <1>4, <1>6, AdvancedTenured
<1>8. Becomes(r, Advanced(q)) /\ SameTenure
  BY DEF BindRequest, context, SameTenure, q
<1> QED BY <1>7, <1>8, TenureMoves DEF SameTenure, TenureStep

\* It takes its snapshot.
LEMMA TakeSnapshotTenured ==
    ASSUME RequestInv, TenureInv, NEW r \in Requests, TakeSnapshot(r)
    PROVE  TenureInv'
<1>1. At(r, "start") /\ Head(req[r].todo) = "snapshot" /\ SameTenure
  BY DEF TakeSnapshot, Step, context, SameTenure
<1>2. /\ Good(req[r]) /\ req[r].outcome = "running"
      /\ req[r] \in RequestRecords /\ req[r].call \in AllCalls /\ req[r].todo # << >>
      /\ Tenured(req[r], contextGeneration, contextFingerprint)
  BY <1>1, AtWork
<1>3. req[r].todo \in Preludes(req[r].call)
  BY <1>1, <1>2, StepShape
<1> DEFINE q == [req[r] EXCEPT !.snap = store]
<1>4. /\ q \in RequestRecords /\ q.call = req[r].call /\ q.todo = req[r].todo
      /\ q.addr = req[r].addr /\ q.bnd = req[r].bnd
  BY <1>2, InvParts DEF RequestRecords, GoodStores
<1>5. RefuseReq(r) \/ Becomes(r, Advanced(q))
  BY Zenon DEF TakeSnapshot
<1> HIDE DEF q
<1>6. Tenured(q, contextGeneration, contextFingerprint)
  BY <1>2, <1>4 DEF Tenured
<1>7. Advanced(q).outcome = "running" =>
         Tenured(Advanced(q), contextGeneration, contextFingerprint)
  BY <1>2, <1>3, <1>4, <1>6, AdvancedTenured
<1>8. CASE RefuseReq(r)
  BY <1>1, <1>8, PlainMoveTenured
<1>9. CASE Becomes(r, Advanced(q))
  BY <1>1, <1>7, <1>9, TenureMoves DEF SameTenure, TenureStep
<1> QED BY <1>5, <1>8, <1>9

\* A script planned over a good store opens nothing, and ends as it should.
LEMMA PlannedTenured ==
    ASSUME NEW q \in RequestRecords, q.call \in AllCalls, NEW s \in GoodStores,
           NEW gen, NEW fp, Tenured(q, gen, fp),
           NEW todo, \/ todo = Plan(q.call, s)
                     \/ todo = Degraded(s) /\ q.call.op = "home",
           Continued(q, todo).outcome = "running"
    PROVE  Tenured(Continued(q, todo), gen, fp)
<1>1. todo \in Seq(Fitting(q.call, s))
  BY PlanFits, DegradedFits
<1>2. todo # << >> => Head(todo) \notin Openers
  <2>1. todo # << >> => Head(todo) \in Fitting(q.call, s)
    BY <1>1, HeadTailProperties
  <2> QED BY <2>1, FittingSteps DEF Openers
<1>3. ASSUME todo # << >>, q.call.op \in Answering
      PROVE  todo[Len(todo)] \in LastSteps(q.call)
  <2>1. q.call.op # "home"
    BY <1>3 DEF Answering, Signing
  <2> QED BY <1>3, <2>1, PlanEnds
<1>4. q.addr \subseteq {q.bnd.fp} /\ Tenable(q.bnd, gen, fp)
  BY DEF Tenured
<1> QED BY <1>2, <1>3, <1>4, ContinuedTenured

\* It is admitted and plans, or plans over a plain read of the store.
LEMMA PlanningTenured ==
    ASSUME RequestInv, TenureInv, NEW r \in Requests, Admit(r) \/ ReadState(r)
    PROVE  TenureInv'
<1>1. At(r, "start") /\ SameTenure /\ TenureStep
  BY DEF Admit, ReadState, context, SameTenure, TenureStep
<1>2. /\ req[r] \in RequestRecords /\ req[r].call \in AllCalls /\ req[r].snap \in GoodStores
      /\ Tenured(req[r], contextGeneration, contextFingerprint)
  BY <1>1, AtWork
<1>3. CASE RefuseReq(r)
  BY <1>1, <1>3, PlainMoveTenured
<1>4. ASSUME NEW q \in RequestRecords, q.call = req[r].call, q.todo = req[r].todo,
             q.bnd = req[r].bnd, q.addr = req[r].addr, NEW s \in GoodStores,
             NEW todo, \/ todo = Plan(q.call, s)
                       \/ todo = Degraded(s) /\ q.call.op = "home",
             Becomes(r, Continued(q, todo))
      PROVE  TenureInv'
  <2>1. Tenured(q, contextGeneration, contextFingerprint)
    BY <1>2, <1>4 DEF Tenured
  <2>2. Continued(q, todo).outcome = "running" =>
           Tenured(Continued(q, todo), contextGeneration, contextFingerprint)
    BY <1>2, <1>4, <2>1, PlannedTenured
  <2>3. contextGeneration' = contextGeneration /\ contextFingerprint' = contextFingerprint
    BY <1>1 DEF SameTenure
  <2>4. Continued(q, todo).outcome = "running" =>
           Tenured(Continued(q, todo), contextGeneration', contextFingerprint')
    BY <2>2, <2>3
  <2> QED BY <1>1, <1>4, <2>4, TenureMoves
<1>5. CASE Admit(r)
  <2>1. RefuseReq(r) \/ Becomes(r, Continued(req[r], Plan(req[r].call, req[r].snap)))
    BY <1>5, Zenon DEF Admit
  <2> QED BY <1>2, <1>3, <1>4, <2>1
<1>6. CASE ReadState(r)
  <2> DEFINE q == [req[r] EXCEPT !.snap = store]
             todo == IF req[r].call.op = "home" THEN Degraded(store)
                     ELSE Plan(req[r].call, store)
  <2>1. store \in GoodStores /\ store \in Stores
    BY InvParts DEF GoodStores
  <2>2. /\ q \in RequestRecords /\ q.call = req[r].call /\ q.todo = req[r].todo
        /\ q.addr = req[r].addr /\ q.bnd = req[r].bnd
    BY <1>2, <2>1 DEF RequestRecords
  <2>3. Becomes(r, Continued(q, todo))
    BY <1>6, <2>2 DEF ReadState
  <2> HIDE DEF q
  <2>4. \/ todo = Plan(q.call, store)
        \/ todo = Degraded(store) /\ q.call.op = "home"
    BY <2>2
  <2> HIDE DEF todo
  <2> QED BY <1>4, <2>1, <2>2, <2>3, <2>4
<1> QED BY <1>5, <1>6

\* It goes on, or goes on with a script of one step.
LEMMA SimpleStepTenured ==
    ASSUME RequestInv, TenureInv, NEW r \in Requests,
           \/ ObservationRefused(r) \/ PhraseUnchanged(r) \/ CheckConnected(r)
           \/ Approve(r) \/ Reject(r) \/ Outward(r)
           \/ Submit(r) \/ SubmissionSettled(r) \/ ReportFailure(r) \/ NodeBound(r)
    PROVE  TenureInv'
<1>1. PICK at \in {"start", "await"} : At(r, at)
  BY Zenon DEF ObservationRefused, PhraseUnchanged, CheckConnected, Approve, Reject, Outward,
     Submit, SubmissionSettled, ReportFailure, NodeBound, Observed
<1>2. SameTenure
  <2>1. UNCHANGED context
    BY Zenon DEF ObservationRefused, PhraseUnchanged, CheckConnected, Approve, Reject, Outward,
       Submit, SubmissionSettled, ReportFailure, NodeBound
  <2> QED BY <2>1 DEF context, SameTenure
<1>3. CASE Advance(r) \/ RefuseReq(r)
  BY <1>1, <1>2, <1>3, PlainMoveTenured
<1>4. CASE Becomes(r, Ended("rejected")) \/ Becomes(r, Ended("reported"))
  BY <1>2, <1>4, EndTenured
<1>5. CASE Becomes(r, Continued(req[r], << >>))
  <2>1. Becomes(r, Ended("returned"))
    BY <1>5 DEF Continued
  <2> QED BY <1>2, <2>1, EndTenured
<1>6. CASE Becomes(r, Continued(req[r], <<"recheck">>))
  <2>1. req[r] \in RequestRecords /\ Tenured(req[r], contextGeneration, contextFingerprint)
    BY <1>1, AtWork
  <2> DEFINE todo == <<"recheck">>
  <2>2. todo # << >> /\ Head(todo) = "recheck" /\ todo[Len(todo)] = "recheck"
    OBVIOUS
  <2>3. Continued(req[r], todo).outcome = "running" =>
           Tenured(Continued(req[r], todo), contextGeneration, contextFingerprint)
    BY <2>1, <2>2, ContinuedTenured DEF Tenured, Openers, LastSteps
  <2> QED BY <1>2, <1>6, <2>3, TenureMoves DEF SameTenure, TenureStep
<1> QED BY <1>3, <1>4, <1>5, <1>6, Zenon DEF ObservationRefused, PhraseUnchanged, CheckConnected,
        Approve, Reject, Outward, Submit, SubmissionSettled, ReportFailure, NodeBound

\* It resolves addresses from a memo that holds the context's alone.
LEMMA ResolveTenured ==
    ASSUME RequestInv, BoundOK, CacheCoherent, TenureInv, NEW r \in Requests, Resolve(r)
    PROVE  TenureInv'
<1>1. At(r, "start") /\ Head(req[r].todo) \in Resolutions /\ SameTenure /\ TenureStep
  BY DEF Resolve, Step, context, SameTenure, TenureStep
<1>2. /\ Good(req[r]) /\ req[r].outcome = "running" /\ req[r] \in RequestRecords
      /\ Tenured(req[r], contextGeneration, contextFingerprint) /\ ContextTypeOK
  BY <1>1, AtWork, Started
<1>3. Wants(r) \subseteq Indices
  BY <1>1, <1>2, WantsIndices DEF Step
<1>4. req[r].bnd.source \in Sources /\ req[r].bnd.fp \in Phrases
  <2>1. req[r].bnd.source \in Sources
    BY <1>1, <1>2, StepShape DEF Resolutions
  <2> QED BY <2>1, BindingAssumption DEF BoundOK
<1>5. CASE Missing(r) = {} /\ Becomes(r, Resolved(req[r], Wants(r), addressCache))
  <2>1. \A i \in Wants(r) : addressCache[i] \in {None, req[r].bnd.fp}
    <3>1. \A i \in Wants(r) : cachedAddress(i, req[r].bnd.fp) # None
      BY <1>5 DEF Missing
    <3> QED BY <1>3, <3>1 DEF cachedAddress, CacheCoherent
  <2> DEFINE x == Resolved(req[r], Wants(r), addressCache)
  <2>2. x.outcome = "running" => Tenured(x, contextGeneration, contextFingerprint)
    BY <1>1, <1>2, <1>4, <2>1, ResolvedTenured
  <2> HIDE DEF x
  <2>3. x.outcome = "running" => Tenured(x, contextGeneration', contextFingerprint')
    BY <1>1, <2>2 DEF SameTenure
  <2>4. Becomes(r, x)
    BY <1>5 DEF x
  <2> QED BY <1>1, <2>3, <2>4, TenureMoves
<1>6. CASE Becomes(r, [req[r] EXCEPT !.at = "fetch", !.miss = Missing(r)])
  <2> DEFINE x == [req[r] EXCEPT !.at = "fetch", !.miss = Missing(r)]
  <2>1. x.call = req[r].call /\ x.todo = req[r].todo /\ x.bnd = req[r].bnd /\ x.addr = req[r].addr
    BY <1>2 DEF RequestRecords
  <2> QED BY <1>1, <1>2, <1>6, <2>1, TenuredPasses, TenureMoves
<1> QED BY <1>5, <1>6, Zenon DEF Resolve

\* The phrase of a binding found again is the context's.
LEMMA FoundAgain ==
    ASSUME NEW r \in Requests, Acceptable(r), Step(r) \in Rechecks \cup Resolutions
    PROVE  /\ req[r].bnd.gen = contextGeneration /\ req[r].bnd.fp = contextFingerprint
           /\ req[r].bnd.source = req[r].seen
BY DEF Acceptable, Superseded, Seen

\* It resolves them from the memo it has just filled, as its binding was found
\* again.
LEMMA MemoizeTenured ==
    ASSUME RequestInv, BoundOK, CacheCoherent, TenureInv, NEW r \in Requests, Memoize(r)
    PROVE  TenureInv'
<1>1. /\ At(r, "await") /\ Head(req[r].todo) \in Resolutions /\ SameTenure /\ TenureStep
      /\ contextFingerprint = req[r].bnd.fp
  BY FoundAgain DEF Memoize, Observed, Step, SameTenure, TenureStep
<1>2. /\ Good(req[r]) /\ req[r].outcome = "running" /\ req[r] \in RequestRecords
      /\ Tenured(req[r], contextGeneration, contextFingerprint) /\ ContextTypeOK
  BY <1>1, AtWork, Started
<1>3. Wants(r) \subseteq Indices
  BY <1>1, <1>2, WantsIndices DEF Step
<1>4. req[r].bnd.source \in Sources /\ req[r].bnd.fp \in Phrases
  <2>1. req[r].bnd.source \in Sources
    BY <1>1, <1>2, StepShape DEF Resolutions
  <2> QED BY <2>1, BindingAssumption DEF BoundOK
<1>5. CacheCoherent'
  BY MemoizeCoherent
<1>6. \A i \in Wants(r) : addressCache'[i] \in {None, req[r].bnd.fp}
  BY <1>1, <1>3, <1>5 DEF CacheCoherent, SameTenure
<1> DEFINE x == Resolved(req[r], Wants(r), addressCache')
<1>7. x.outcome = "running" => Tenured(x, contextGeneration, contextFingerprint)
  BY <1>1, <1>2, <1>4, <1>6, ResolvedTenured
<1>8. Becomes(r, x)
  BY DEF Memoize
<1> HIDE DEF x
<1>9. x.outcome = "running" => Tenured(x, contextGeneration', contextFingerprint')
  BY <1>1, <1>7 DEF SameTenure
<1> QED BY <1>1, <1>8, <1>9, TenureMoves

\* It signs, which changes nothing it knows but its key.
LEMMA SignTenured ==
    ASSUME RequestInv, BoundOK, TenureInv, NEW r \in Requests, Sign(r)
    PROVE  TenureInv'
<1>1. At(r, "start") /\ Head(req[r].todo) = "sign" /\ SameTenure /\ TenureStep
  BY DEF Sign, Step, SameTenure, TenureStep
<1>2. /\ Good(req[r]) /\ req[r].outcome = "running"
      /\ req[r] \in RequestRecords /\ req[r].call \in AllCalls /\ req[r].todo # << >>
      /\ req[r].todo \in Preludes(req[r].call) \/ req[r].todo \in Seq(Fitting(req[r].call, req[r].snap))
      /\ Tenured(req[r], contextGeneration, contextFingerprint)
  BY <1>1, AtWork
<1>3. CASE RefuseReq(r)
  BY <1>1, <1>3, PlainMoveTenured
<1>4. CASE Becomes(r, Advanced([req[r] EXCEPT !.key = PhraseOf[req[r].bnd.source]]))
  <2> DEFINE q == [req[r] EXCEPT !.key = PhraseOf[req[r].bnd.source]]
  <2>1. req[r].bnd.source \in Sources
    BY <1>1, <1>2, StepShape DEF LockSteps
  <2>2. PhraseOf[req[r].bnd.source] \in Phrases
    BY <2>1, BindingAssumption
  <2>3. /\ q \in RequestRecords /\ q.call = req[r].call /\ q.todo = req[r].todo
        /\ q.snap = req[r].snap /\ q.addr = req[r].addr /\ q.bnd = req[r].bnd
    BY <1>2, <2>2 DEF RequestRecords
  <2> HIDE DEF q
  <2>4. Tenured(q, contextGeneration, contextFingerprint)
    BY <1>2, <2>3 DEF Tenured
  <2>5. Advanced(q).outcome = "running" =>
           Tenured(Advanced(q), contextGeneration, contextFingerprint)
    BY <1>2, <2>3, <2>4, AdvancedTenured
  <2>6. Becomes(r, Advanced(q))
    BY <1>4 DEF q
  <2> QED BY <1>1, <2>5, <2>6, TenureMoves DEF SameTenure
<1> QED BY <1>3, <1>4, Zenon DEF Sign

\* Every step of a request leaves them all in their tenures.
LEMMA RequestStepTenured ==
    ASSUME RequestInv, BoundOK, CacheCoherent, TenureInv, NEW r \in Requests, RequestStep(r)
    PROVE  TenureInv'
BY WaitTenured, ObservationTenured, BindRequestTenured, TakeSnapshotTenured, PlanningTenured,
   SimpleStepTenured, ResolveTenured, MemoizeTenured, SignTenured, Zenon DEF RequestStep

\* Every call has a script to open with.
LEMMA OpeningIsScript ==
    ASSUME NEW c
    PROVE  Opening(c) # << >>
BY OpeningShape DEF Guarded, Ensure

\* A new request knows nothing yet.
LEMMA ArrivalTenured ==
    ASSUME RequestInv, TenureInv, NEW r \in Requests, Arrive(r)
    PROVE  TenureInv'
<1>1. PICK c \in Calls : Start(r, c)
  BY DEF Arrive
<1>2. SameTenure /\ TenureStep
  BY <1>1 DEF Start, context, SameTenure, TenureStep
<1> DEFINE q == [Idle EXCEPT !.call = c]
           x == Continued(q, Opening(c))
<1>3. Becomes(r, x)
  BY <1>1 DEF Start
<1>4. q.call = c /\ q.bnd = NoBinding /\ q.addr = {}
  BY DEF Idle
<1>5. Opening(c) # << >> /\ c \in AllCalls
  BY OpeningIsScript, BindingAssumption
<1>6. x.call = c /\ x.bnd = NoBinding /\ x.addr = {} /\ x.todo = Opening(c)
  BY <1>5 DEF Continued, Idle
<1> HIDE DEF x
<1>7. ASSUME c.op \in Answering
      PROVE  Opening(c)[Len(Opening(c))] \in LastSteps(c)
  <2>1. CASE Opening(c) = <<"observe", "state">>
    <3>1. c.op \in Signing
      BY <1>7, <2>1 DEF Opening, Guarded, Ensure, Answering, Connected, Selects
    <3> QED BY <2>1, <3>1 DEF LastSteps
  <2>2. CASE Opening(c) \in {Guarded, Ensure}
    <3>1. Guarded[Len(Guarded)] = "admit" /\ Ensure[Len(Ensure)] = "admit"
      BY DEF Guarded, Ensure
    <3> QED BY <2>2, <3>1 DEF LastSteps
  <2>3. Opening(c) \notin {<<"disconnect">>, <<"untoken">>}
    BY <1>7, OpeningShape DEF Answering, Signing
  <2> QED BY <2>1, <2>2, <2>3, OpeningShape
<1>8. Tenable(NoBinding, contextGeneration', contextFingerprint')
  BY BindingAssumption DEF Tenable, NoBinding
<1>9. Tenured(x, contextGeneration', contextFingerprint')
  BY <1>6, <1>7, <1>8 DEF Tenured
<1> QED BY <1>2, <1>3, <1>9, TenureMoves

-----------------------------------------------------------------------------
(***************************************************************************)
(* The lock and the environment, and the theorem.                          *)
(***************************************************************************)

\* The lock starts no tenure, and moves at most the request whose job is done,
\* which goes on or is refused.
LEMMA LockMovesOne ==
    ASSUME RequestInv, LockStep
    PROVE  /\ SameTenure
           /\ \/ UNCHANGED req
              \/ /\ Job.by \in Requests /\ At(Job.by, "queued")
                 /\ Good(req[Job.by]) /\ req[Job.by].outcome = "running"
                 /\ Step(Job.by) \in LockSteps
                 /\ Advance(Job.by) \/ RefuseReq(Job.by)
<1>1. mutationQueue # << >>
  BY Zenon DEF LockStep, LockedRead, ConfirmRead, ConfirmCheck, LockedWrite, WriteFails, Rollback,
     Holding
<1>2. \/ UNCHANGED <<context, req>>
      \/ \E ok, reset : Finish(ok, reset)
  BY Zenon DEF LockStep, LockedRead, ConfirmRead, ConfirmCheck, LockedWrite, WriteFails, Rollback
<1>3. ASSUME NEW ok, NEW reset, Finish(ok, reset)
      PROVE  /\ SameTenure
             /\ \/ UNCHANGED req
                \/ Job.kind = "request" /\ (Advance(Job.by) \/ RefuseReq(Job.by))
  <2>1. CASE Job.kind = "reconcile"
    BY <1>3, <2>1 DEF Finish, SettleReconciliation, SameTenure
  <2>2. CASE Job.kind = "request"
    BY <1>3, <2>2 DEF Finish, context, SameTenure
  <2> QED BY <1>1, <2>1, <2>2, HeadJob DEF Jobs
<1>4. CASE UNCHANGED <<context, req>>
  BY <1>4 DEF context, SameTenure
<1> QED BY <1>1, <1>2, <1>3, <1>4, HeadJob

\* So the lock leaves every request in its tenure.
LEMMA LockTenured ==
    ASSUME RequestInv, TenureInv, LockStep
    PROVE  TenureInv'
<1>1. SameTenure /\ TenureStep
  BY LockMovesOne DEF TenureStep
<1>2. CASE UNCHANGED req
  BY <1>1, <1>2 DEF SameTenure, TenureInv, Running
<1>3. CASE ~UNCHANGED req
  <2> DEFINE r == Job.by
  <2>1. /\ r \in Requests /\ Good(req[r]) /\ req[r].outcome = "running"
        /\ Advance(r) \/ RefuseReq(r)
    BY <1>3, LockMovesOne
  <2> HIDE DEF r
  <2>2. Tenured(req[r], contextGeneration, contextFingerprint)
    BY <2>1 DEF TenureInv, Running
  <2>3. /\ Advanced(req[r]).outcome = "running" =>
              Tenured(Advanced(req[r]), contextGeneration, contextFingerprint)
        /\ Refused(req[r]).outcome = "running" =>
              Tenured(Refused(req[r]), contextGeneration, contextFingerprint)
    BY <2>1, <2>2, StepShape, AdvancedTenured, RefusedTenured DEF Runnable
  <2>4. ASSUME NEW x, Becomes(r, x),
               x.outcome = "running" => Tenured(x, contextGeneration, contextFingerprint)
        PROVE  TenureInv'
    BY <1>1, <2>1, <2>4, TenureMoves DEF SameTenure
  <2> QED BY <2>1, <2>3, <2>4 DEF Advance, RefuseReq
<1> QED BY <1>2, <1>3

\* TenureInv is inductive, relative to what is known of the requests, their
\* bindings and the memo.
LEMMA NextTenured ==
    ASSUME RequestInv, BoundOK, CacheCoherent, TenureInv, [Next]_vars
    PROVE  TenureInv'
<1>1. ASSUME NEW r \in Requests, Arrive(r) \/ RequestStep(r) PROVE TenureInv'
  BY <1>1, ArrivalTenured, RequestStepTenured
<1>2. CASE LockStep
  BY <1>2, LockTenured
<1>3. CASE Crash
  <2>1. req' = [r \in Requests |-> IF Running(r) THEN Ended("lost") ELSE req[r]]
    BY <1>3 DEF Crash
  <2>2. \A r \in Requests : ~Running(r)'
    BY <2>1 DEF Running, Ended, Idle
  <2> QED BY <2>2 DEF TenureInv
<1>4. CASE Switch \/ Quiet \/ UNCHANGED vars
  <2>1. UNCHANGED <<context, req>>
    BY <1>4, Zenon DEF Switch, Quiet, vars
  <2> QED BY <2>1 DEF TenureInv, Running, context
<1> QED BY <1>1, <1>2, <1>3, <1>4 DEF Next

\* What a request holds stays in the tenure it was bound under.
THEOREM TenureSound == Spec => []TenureInv
<1>1. Init => TenureInv
  BY DEF Init, TenureInv, Running, Idle
<1>2. RequestInv /\ GrantInv /\ CacheCoherent /\ TenureInv /\ [Next]_vars => TenureInv'
  BY NextTenured DEF GrantInv
<1> QED BY <1>1, <1>2, RequestsFit, GrantsSound, MemoIsCoherent, PTL DEF Spec

-----------------------------------------------------------------------------
(***************************************************************************)
(* What is disclosed, and what is signed.                                  *)
(***************************************************************************)

\* An answering method answers at the last step of its script, and a refusal is
\* no answer.
LEMMA AnswersAtTheEnd ==
    ASSUME NEW q, Good(q), q.outcome = "running", NEW gen, NEW fp, Tenured(q, gen, fp),
           q.call.op \in Answering
    PROVE  /\ Refused(q).outcome \notin {"returned", "reported"}
           /\ \A p \in RequestRecords :
                 p.todo = q.todo /\ Advanced(p).outcome \in {"returned", "reported"} =>
                    Head(q.todo) \in LastSteps(q.call)
<1>1. q \in RequestRecords /\ q.todo # << >> /\ q.todo \in Seq(Steps)
  BY StepShape DEF RequestRecords
<1>2. ASSUME NEW p \in RequestRecords, p.todo = q.todo,
             Advanced(p).outcome \in {"returned", "reported"}
      PROVE  Head(q.todo) \in LastSteps(q.call)
  <2>1. Tail(q.todo) = << >>
    BY <1>2, GoesOn DEF Advanced
  <2> QED BY <1>1, <2>1, LastOfTail DEF Tenured
<1>3. Refused(q).outcome \notin {"returned", "reported"}
  <2>1. q.call.op # "home"
    BY DEF Answering, Signing
  <2>2. CASE Head(q.todo) \in {"grant", "settled"}
    <3>1. Head(q.todo) \notin LastSteps(q.call)
      BY <2>2 DEF LastSteps
    <3>2. Refused(q) = Advanced(q)
      BY <2>1, <2>2 DEF Refused
    <3> QED BY <1>1, <1>2, <3>1, <3>2
  <2>3. CASE Head(q.todo) \notin {"grant", "settled"}
    <3>1. Refused(q) = Ended("refused")
      BY <2>1, <2>3 DEF Refused
    <3> QED BY <1>1, <3>1, GoesOn
  <2> QED BY <2>2, <2>3
<1> QED BY <1>2, <1>3

\* Nor does one answer with the addresses it has only just resolved.
LEMMA ResolvedIsNoAnswer ==
    ASSUME NEW q, Good(q), q.outcome = "running", NEW gen, NEW fp, Tenured(q, gen, fp),
           q.call.op \in Answering, Head(q.todo) \in Resolutions,
           NEW want, NEW cache, \A i \in want : cache[i] \in Phrases \cup {None}
    PROVE  Resolved(q, want, cache).outcome \notin {"returned", "reported"}
<1> DEFINE phrases == {a.phrase : a \in {[phrase |-> cache[i], index |-> i] : i \in want}}
           p == [q EXCEPT !.addr = phrases]
<1>1. \/ Resolved(q, want, cache) = Refused(q)
      \/ (\A i \in want : cache[i] # None) /\ Resolved(q, want, cache) = Advanced(p)
  BY Zenon DEF Resolved
<1>2. ASSUME \A i \in want : cache[i] # None
      PROVE  p \in RequestRecords /\ p.todo = q.todo
  <2>1. phrases \subseteq Phrases
    BY <1>2
  <2> HIDE DEF phrases
  <2> QED BY <2>1, StepShape DEF RequestRecords
<1>3. Head(q.todo) \notin LastSteps(q.call)
  BY DEF LastSteps, Resolutions
<1> HIDE DEF p
<1> QED BY <1>1, <1>2, <1>3, AnswersAtTheEnd

\* An answer of its own step, with addresses, follows a comparison of tenures.
Compared(r) ==
    \/ Step(r) \in Rechecks /\ At(r, "await") /\ Acceptable(r)
    \/ Step(r) = "admit" /\ contextGeneration = req[r].bnd.gen

LEMMA OwnAnswers ==
    ASSUME RequestInv, CacheCoherent, TenureInv, NEW r \in Requests, RequestStep(r),
           Answers(r), req[r].call.op \in Answering, req[r].addr # {}
    PROVE  Compared(r) /\ SameTenure
<1> DEFINE q == req[r]
           Mute(x) == x.outcome \notin {"returned", "reported"}
<1>1. PICK at \in {"start", "fetch", "confirm", "await"} : At(r, at)
  BY Zenon DEF RequestStep, Observed, ReadSource, ConfirmSource, ObservationRefused, BindRequest,
     PhraseUnchanged, CheckConnected, TakeSnapshot, Admit, ReadState, Resolve, Memoize, Approve,
     Reject, Outward, Submit, SubmissionSettled, ReportFailure, ImportNode, NodeBound, Sign,
     Enqueue
<1>2. /\ Good(q) /\ q.outcome = "running" /\ q \in RequestRecords
      /\ q.call \in AllCalls /\ q.snap \in GoodStores /\ q.todo # << >>
      /\ Tenured(q, contextGeneration, contextFingerprint)
  BY <1>1, AtWork
<1>3. ContextTypeOK /\ req = [p \in Requests |-> req[p]]
  BY InvParts
<1>4. ~Mute(req'[r])
  BY DEF Answers
<1>5. ASSUME NEW x, Becomes(r, x), Mute(x) PROVE FALSE
  BY <1>3, <1>4, <1>5 DEF Becomes
<1> HIDE DEF Mute
<1>6. Mute(Refused(q)) /\ (Head(q.todo) \notin LastSteps(q.call) =>
         \A p \in RequestRecords : p.todo = q.todo => Mute(Advanced(p)))
  BY <1>2, AnswersAtTheEnd DEF Mute
<1>7. ASSUME RefuseReq(r) PROVE FALSE
  BY <1>5, <1>6, <1>7 DEF RefuseReq
<1>8. ASSUME Advance(r) PROVE Head(q.todo) \in LastSteps(q.call)
  BY <1>2, <1>5, <1>6, <1>8 DEF Advance
<1>9. ASSUME NEW x, Becomes(r, x), x.outcome = "running" PROVE FALSE
  BY <1>5, <1>9 DEF Mute
<1>10. ASSUME NEW todo, todo # << >> PROVE Continued(q, todo).outcome = "running"
  BY <1>2, <1>10, GoesOn
<1>11. Head(q.todo) \notin Openers
  BY <1>2 DEF Tenured, Openers
<1>12. ~ReadSource(r)
  <2>1. [q EXCEPT !.at = "confirm", !.seen = primary].outcome = "running"
    BY <1>2 DEF RequestRecords
  <2> QED BY <1>9, <2>1 DEF ReadSource
<1>13. ~ConfirmSource(r)
  <2>1. [q EXCEPT !.at = "await", !.ticket = reconciliationTicket'].outcome = "running"
    BY <1>2 DEF RequestRecords
  <2> QED BY <1>7, <1>9, <2>1, Zenon DEF ConfirmSource
<1>14. ~ImportNode(r)
  <2>1. [q EXCEPT !.at = "await", !.seen = q.bnd.source,
                  !.ticket = reconciliationTicket'].outcome = "running"
    BY <1>2 DEF RequestRecords
  <2> QED BY <1>7, <1>9, <2>1, Zenon DEF ImportNode
<1>15. ~ObservationRefused(r) /\ ~BindRequest(r) /\ ~CheckConnected(r)
  <2>1. ~CheckConnected(r) /\ ~BindRequest(r)
    BY <1>11 DEF CheckConnected, BindRequest, Step, Openers
  <2> QED BY <1>7, <2>1 DEF ObservationRefused
<1>16. ~TakeSnapshot(r)
  <2> DEFINE p == [q EXCEPT !.snap = store]
  <2>1. p \in RequestRecords /\ p.todo = q.todo
    BY <1>2, InvParts DEF RequestRecords, GoodStores
  <2>2. RefuseReq(r) \/ Becomes(r, Advanced(p)) \/ ~TakeSnapshot(r)
    BY Zenon DEF TakeSnapshot
  <2> HIDE DEF p
  <2>3. TakeSnapshot(r) => Head(q.todo) \notin LastSteps(q.call)
    BY DEF TakeSnapshot, Step, LastSteps
  <2> QED BY <1>5, <1>6, <1>7, <2>1, <2>2, <2>3
<1>17. ~Resolve(r)
  <2> SUFFICES ASSUME Resolve(r) PROVE FALSE
    OBVIOUS
  <2>1. Head(q.todo) \in Resolutions
    BY DEF Resolve, Step
  <2>2. [q EXCEPT !.at = "fetch", !.miss = Missing(r)].outcome = "running"
    BY <1>2 DEF RequestRecords
  <2>3. Wants(r) \subseteq Indices
    BY <1>2, <2>1, WantsIndices DEF Step
  <2>4. Mute(Resolved(q, Wants(r), addressCache))
    BY <1>2, <1>3, <2>1, <2>3, ResolvedIsNoAnswer DEF ContextTypeOK, Mute
  <2> QED BY <1>5, <1>9, <2>2, <2>4 DEF Resolve
<1>18. ~Memoize(r)
  <2> SUFFICES ASSUME Memoize(r) PROVE FALSE
    OBVIOUS
  <2>1. Head(q.todo) \in Resolutions
    BY DEF Memoize, Step
  <2>2. Wants(r) \subseteq Indices
    BY <1>2, <2>1, WantsIndices DEF Step
  <2>3. CacheCoherent' /\ contextFingerprint' = contextFingerprint
    BY MemoizeCoherent DEF Memoize
  <2>4. \A i \in Wants(r) : addressCache'[i] \in Phrases \cup {None}
    BY <1>3, <2>2, <2>3 DEF CacheCoherent, ContextTypeOK
  <2>5. Mute(Resolved(q, Wants(r), addressCache'))
    BY <1>2, <2>1, <2>4, ResolvedIsNoAnswer DEF Mute
  <2> QED BY <1>5, <2>5 DEF Memoize
<1>19. ~Approve(r) /\ ~Outward(r) /\ ~NodeBound(r)
  <2>1. Head(q.todo) \in {"dialog", "outward", "import"} => Head(q.todo) \notin LastSteps(q.call)
    BY DEF LastSteps
  <2> QED BY <1>7, <1>8, <2>1 DEF Approve, Outward, NodeBound, Step
<1>20. ~Reject(r)
  <2>1. Mute(Ended("rejected"))
    BY <1>2, GoesOn DEF Mute
  <2> QED BY <1>5, <2>1 DEF Reject
<1>21. ~Submit(r)
  <2>1. Head(q.todo) = "submit" => Head(q.todo) \notin LastSteps(q.call)
    BY DEF LastSteps
  <2>2. <<"recheck">> # << >>
    OBVIOUS
  <2> QED BY <1>8, <1>9, <1>10, <2>1, <2>2 DEF Submit, Step
<1>22. ~Sign(r)
  <2> SUFFICES ASSUME Sign(r) PROVE FALSE
    OBVIOUS
  <2> DEFINE p == [q EXCEPT !.key = PhraseOf[q.bnd.source]]
  <2>1. Head(q.todo) = "sign" /\ Head(q.todo) \notin LastSteps(q.call)
    BY DEF Sign, Step, LastSteps
  <2>2. q.bnd.source \in Sources
    BY <1>2, <2>1, StepShape DEF LockSteps
  <2>3. p \in RequestRecords /\ p.todo = q.todo
    BY <1>2, <2>2, BindingAssumption DEF RequestRecords
  <2>4. RefuseReq(r) \/ Becomes(r, Advanced(p))
    BY Zenon DEF Sign
  <2> HIDE DEF p
  <2> QED BY <1>5, <1>6, <1>7, <2>1, <2>3, <2>4
<1>23. ~Enqueue(r)
  <2>1. [q EXCEPT !.at = "queued"].outcome = "running"
    BY <1>2 DEF RequestRecords
  <2> QED BY <1>9, <2>1 DEF Enqueue
<1>24. ~ReadState(r)
  <2> SUFFICES ASSUME ReadState(r) PROVE FALSE
    OBVIOUS
  <2>1. Head(q.todo) = "state" /\ q.todo \in Preludes(q.call)
    BY <1>2, StepShape DEF ReadState, Step
  <2>2. q.todo = <<"state">>
    BY <2>1, OpeningShape DEF Preludes, Guarded, Ensure
  <2>3. q.call.op \in Signing
    BY <1>2, <2>2 DEF Tenured, LastSteps
  <2> DEFINE p == [q EXCEPT !.snap = store]
  <2>4. p \in RequestRecords
    BY <1>2, InvParts DEF RequestRecords, GoodStores
  <2>5. q.call.op # "home" /\ Plan(q.call, store) # << >>
    BY <1>2, <2>3, PlanEnds DEF Signing
  <2>6. Becomes(r, Continued(p, Plan(q.call, store)))
    BY <2>5 DEF ReadState
  <2> HIDE DEF p
  <2>7. Continued(p, Plan(q.call, store)).outcome = "running"
    BY <2>4, <2>5, GoesOn
  <2> QED BY <1>9, <2>6, <2>7
<1>25. \/ PhraseUnchanged(r) \/ SubmissionSettled(r) \/ ReportFailure(r) \/ Admit(r)
  BY <1>12, <1>13, <1>14, <1>15, <1>16, <1>17, <1>18, <1>19, <1>20, <1>21, <1>22, <1>23, <1>24
     DEF RequestStep
<1>26. CASE Admit(r)
  <2>1. contextGeneration = q.bnd.gen
    BY <1>7, <1>26 DEF Admit
  <2> QED BY <1>26, <2>1 DEF Admit, Compared, context, SameTenure
<1>27. CASE PhraseUnchanged(r) \/ SubmissionSettled(r) \/ ReportFailure(r)
  BY <1>27 DEF PhraseUnchanged, SubmissionSettled, ReportFailure, Observed, Rechecks, Compared,
     context, SameTenure
<1> QED BY <1>25, <1>26, <1>27

\* An answer that carries wallet-derived data leaves in the tenure it was bound
\* under, and describes the wallet of that tenure, whatever switches of the
\* phrase the request's awaits let in (assertPhraseUnchanged, and the last
\* comparison of ensureEntropyBinding).
THEOREM AnswersInTenure == Spec => DisclosedInTenure
<1>1. ASSUME RequestInv, GrantInv, CacheCoherent, TenureInv, [Next]_vars, NEW r \in Requests,
             Answers(r), req[r].call.op \in Answering, req[r].addr # {}
      PROVE  contextGeneration' = req[r].bnd.gen /\ req[r].addr = {contextFingerprint'}
  <2>1. Running(r) /\ req'[r].outcome \in {"returned", "reported"}
    BY <1>1 DEF Answers
  <2>2. /\ Good(req[r]) /\ req[r].outcome = "running"
        /\ Tenured(req[r], contextGeneration, contextFingerprint)
    BY <1>1, <2>1, InvParts DEF RequestsGood, Running, TenureInv
  <2>3. req'[r] # req[r]
    BY <2>1, <2>2
  <2>4. RequestStep(r)
    <3>1. ASSUME NEW p \in Requests, RequestStep(p) PROVE p = r
      BY <1>1, <2>3, <3>1, RequestStepMovesOne
    <3>2. ASSUME NEW p \in Requests, Arrive(p) PROVE FALSE
      <4>1. req[p].outcome = "idle" /\ \E x : Becomes(p, x)
        BY <3>2 DEF Arrive, Start
      <4>2. req'[r] = req[r]
        BY <1>1, <2>2, <4>1, InvParts DEF Becomes
      <4> QED BY <2>3, <4>2
    <3>3. ~LockStep
      <4> SUFFICES ASSUME LockStep PROVE FALSE
        OBVIOUS
      <4>1. /\ Job.by \in Requests /\ Head(req[Job.by].todo) \in LockSteps
            /\ Advance(Job.by) \/ RefuseReq(Job.by)
        BY <1>1, <2>3, LockMovesOne DEF Step
      <4>2. Job.by = r
        BY <1>1, <2>3, <4>1, InvParts DEF Advance, RefuseReq, Becomes
      <4>3. req'[r] \in {Advanced(req[r]), Refused(req[r])}
        BY <1>1, <4>1, <4>2, InvParts DEF Advance, RefuseReq, Becomes
      <4>4. Head(req[r].todo) \notin LastSteps(req[r].call)
        BY <4>1, <4>2 DEF LockSteps, LastSteps
      <4> QED BY <1>1, <2>1, <2>2, <4>3, <4>4, AnswersAtTheEnd DEF Good
    <3>4. ~Crash
      BY <2>1 DEF Crash, Ended, Idle
    <3>5. ~Switch /\ ~Quiet /\ ~UNCHANGED vars
      BY <2>3, Zenon DEF Switch, Quiet, vars
    <3> QED BY <1>1, <3>1, <3>2, <3>3, <3>4, <3>5 DEF Next
  <2>5. Compared(r) /\ SameTenure
    BY <1>1, <2>4, OwnAnswers
  <2>6. req[r].bnd.gen = contextGeneration /\ req[r].bnd.source \in Sources
    <3>1. CASE Step(r) \in Rechecks /\ At(r, "await") /\ Acceptable(r)
      BY <1>1, <3>1, FoundAgain, SeenIsBinding DEF Seen
    <3>2. CASE Step(r) = "admit" /\ contextGeneration = req[r].bnd.gen
      BY <2>2, <3>2, StepShape DEF Step, LockSteps
    <3> QED BY <2>5, <3>1, <3>2 DEF Compared
  <2>7. req[r].bnd.fp = contextFingerprint /\ req[r].addr \subseteq {req[r].bnd.fp}
    BY <2>2, <2>6 DEF Tenured, Tenable
  <2> QED BY <1>1, <2>5, <2>6, <2>7 DEF SameTenure
<1>2. RequestInv /\ GrantInv /\ CacheCoherent /\ TenureInv /\ [Next]_vars =>
         [\A r \in Requests :
            Answers(r) /\ req[r].call.op \in Answering /\ req[r].addr # {} =>
               /\ contextGeneration' = req[r].bnd.gen
               /\ req[r].addr = {contextFingerprint'}]_vars
  BY <1>1
<1> QED BY <1>2, RequestsFit, GrantsSound, MemoIsCoherent, TenureSound, PTL
        DEF Spec, DisclosedInTenure

\* A request keeps its key when it moves, or gives it up.
LEMMA MovesKeepKey ==
    ASSUME NEW q \in RequestRecords
    PROVE  /\ \A todo : Continued(q, todo).key \in {q.key, None}
           /\ Advanced(q).key \in {q.key, None}
           /\ Refused(q).key \in {q.key, None}
<1>1. \A todo : Continued(q, todo).key \in {q.key, None}
  BY GoesOn
<1>2. Advanced(q).key \in {q.key, None}
  BY <1>1 DEF Advanced
<1>3. Refused(q).key \in {q.key, None}
  BY <1>1, <1>2, GoesOn DEF Refused
<1> QED BY <1>1, <1>2, <1>3

\* So does one whose addresses are resolved.
LEMMA ResolvedKeepsKey ==
    ASSUME NEW q \in RequestRecords, NEW want, NEW cache,
           \A i \in want : cache[i] \in Phrases \cup {None}
    PROVE  Resolved(q, want, cache).key \in {q.key, None}
<1> DEFINE phrases == {a.phrase : a \in {[phrase |-> cache[i], index |-> i] : i \in want}}
           p == [q EXCEPT !.addr = phrases]
<1>1. \/ Resolved(q, want, cache) = Refused(q)
      \/ (\A i \in want : cache[i] # None) /\ Resolved(q, want, cache) = Advanced(p)
  BY Zenon DEF Resolved
<1>2. ASSUME \A i \in want : cache[i] # None
      PROVE  p \in RequestRecords /\ p.key = q.key
  <2>1. phrases \subseteq Phrases
    BY <1>2
  <2> HIDE DEF phrases
  <2> QED BY <2>1 DEF RequestRecords
<1> HIDE DEF p
<1> QED BY <1>1, <1>2, MovesKeepKey

\* No step but the signature gives a request a key it did not have.
LEMMA KeyMoves ==
    ASSUME RequestInv, CacheCoherent, TenureInv, NEW r \in Requests, RequestStep(r), ~Sign(r)
    PROVE  \E x : Becomes(r, x) /\ x.key \in {req[r].key, None}
<1> DEFINE q == req[r]
<1>1. q \in RequestRecords /\ ContextTypeOK
  BY InvParts DEF RequestInv, TypeOK
<1>2. /\ \A outcome : Ended(outcome).key = None
      /\ \A todo : Continued(q, todo).key \in {q.key, None}
      /\ Advanced(q).key \in {q.key, None}
      /\ Refused(q).key \in {q.key, None}
  BY <1>1, GoesOn, MovesKeepKey
<1>3. ASSUME Advance(r) \/ RefuseReq(r)
      PROVE  \E x : Becomes(r, x) /\ x.key \in {q.key, None}
  BY <1>2, <1>3 DEF Advance, RefuseReq
<1>4. CASE ReadSource(r)
  <2>1. [q EXCEPT !.at = "confirm", !.seen = primary].key = q.key
    BY <1>1 DEF RequestRecords
  <2> QED BY <1>4, <2>1 DEF ReadSource
<1>5. CASE ConfirmSource(r)
  <2>1. [q EXCEPT !.at = "await", !.ticket = reconciliationTicket'].key = q.key
    BY <1>1 DEF RequestRecords
  <2> QED BY <1>3, <1>5, <2>1, Zenon DEF ConfirmSource
<1>6. CASE ImportNode(r)
  <2>1. [q EXCEPT !.at = "await", !.seen = q.bnd.source,
                  !.ticket = reconciliationTicket'].key = q.key
    BY <1>1 DEF RequestRecords
  <2> QED BY <1>3, <1>6, <2>1, Zenon DEF ImportNode
<1>7. CASE ObservationRefused(r) \/ PhraseUnchanged(r) \/ Approve(r) \/ Outward(r) \/ NodeBound(r)
  BY <1>3, <1>7, Zenon DEF ObservationRefused, PhraseUnchanged, Approve, Outward, NodeBound
<1>8. CASE CheckConnected(r) \/ Submit(r) \/ SubmissionSettled(r) \/ Admit(r)
  <2>1. \/ Advance(r) \/ RefuseReq(r)
        \/ \E todo : Becomes(r, Continued(q, todo))
    BY <1>8, Zenon DEF CheckConnected, Submit, SubmissionSettled, Admit
  <2> QED BY <1>2, <1>3, <2>1
<1>9. CASE Reject(r) \/ ReportFailure(r)
  BY <1>2, <1>9 DEF Reject, ReportFailure
<1>10. ASSUME NEW s \in Stores
       PROVE  [q EXCEPT !.snap = s] \in RequestRecords /\ [q EXCEPT !.snap = s].key = q.key
  BY <1>1, <1>10 DEF RequestRecords
<1>11. store \in Stores
  BY InvParts DEF GoodStores
<1>12. CASE TakeSnapshot(r)
  <2>1. RefuseReq(r) \/ Becomes(r, Advanced([q EXCEPT !.snap = store]))
    BY <1>12, Zenon DEF TakeSnapshot
  <2>2. Advanced([q EXCEPT !.snap = store]).key \in {q.key, None}
    BY <1>10, <1>11, MovesKeepKey
  <2> QED BY <1>3, <2>1, <2>2
<1>13. CASE ReadState(r)
  <2>1. \A todo : Continued([q EXCEPT !.snap = store], todo).key \in {q.key, None}
    BY <1>10, <1>11, MovesKeepKey
  <2> QED BY <1>13, <2>1 DEF ReadState
<1>14. CASE BindRequest(r)
  <2>1. Seen(r) \in Bindings
    BY <1>14, SeenIsBinding DEF BindRequest, Observed
  <2>2. /\ [q EXCEPT !.bnd = Seen(r)] \in RequestRecords
        /\ [q EXCEPT !.bnd = Seen(r)].key = q.key
    BY <1>1, <2>1 DEF RequestRecords
  <2>3. Advanced([q EXCEPT !.bnd = Seen(r)]).key \in {q.key, None}
    BY <2>2, MovesKeepKey
  <2> QED BY <1>14, <2>3 DEF BindRequest
<1>15. ASSUME Resolve(r) \/ Memoize(r)
       PROVE  Wants(r) \subseteq Indices
  <2>1. Good(q) /\ q.outcome = "running" /\ Step(r) \in Resolutions
    <3>1. \E at \in {"start", "await"} : At(r, at) /\ Step(r) \in Resolutions
      BY <1>15, Zenon DEF Resolve, Memoize, Observed
    <3> QED BY <3>1, Started
  <2> QED BY <2>1, WantsIndices
<1>16. CASE Resolve(r)
  <2>1. Resolved(q, Wants(r), addressCache).key \in {q.key, None}
    BY <1>1, <1>15, <1>16, ResolvedKeepsKey DEF ContextTypeOK
  <2>2. [q EXCEPT !.at = "fetch", !.miss = Missing(r)].key = q.key
    BY <1>1 DEF RequestRecords
  <2> QED BY <1>16, <2>1, <2>2 DEF Resolve
<1>17. CASE Memoize(r)
  <2>1. CacheCoherent' /\ contextFingerprint' = contextFingerprint
    BY <1>17, MemoizeCoherent DEF Memoize
  <2>2. \A i \in Wants(r) : addressCache'[i] \in Phrases \cup {None}
    BY <1>1, <1>15, <1>17, <2>1 DEF CacheCoherent, ContextTypeOK
  <2>3. Resolved(q, Wants(r), addressCache').key \in {q.key, None}
    BY <1>1, <2>2, ResolvedKeepsKey
  <2> QED BY <1>17, <2>3 DEF Memoize
<1>18. CASE Enqueue(r)
  <2>1. [q EXCEPT !.at = "queued"].key = q.key
    BY <1>1 DEF RequestRecords
  <2> QED BY <1>18, <2>1 DEF Enqueue
<1> QED BY <1>4, <1>5, <1>6, <1>7, <1>8, <1>9, <1>12, <1>13, <1>14, <1>16, <1>17, <1>18
        DEF RequestStep

\* A signature is made with the key of the one address its dialog showed, in the
\* tenure that dialog was approved in: deriveSigningKeypair looks at the tenure
\* after the key has arrived, and at the address the key gives.
THEOREM SignaturesAsApproved == Spec => SignsAsApproved
<1>1. ASSUME RequestInv, GrantInv, CacheCoherent, TenureInv, [Next]_vars, NEW r \in Requests,
             req'[r].key \notin {req[r].key, None}
      PROVE  /\ req[r].addr = {req'[r].key}
             /\ req'[r].key = req[r].bnd.fp
             /\ contextGeneration = req[r].bnd.gen
  <2>1. req = [p \in Requests |-> req[p]] /\ \A p \in Requests : req[p] \in RequestRecords
    BY <1>1, InvParts DEF RequestInv, TypeOK
  <2>2. ASSUME NEW p \in Requests, NEW x, Becomes(p, x), x.key \in {req[p].key, None}
        PROVE  FALSE
    BY <1>1, <2>1, <2>2 DEF Becomes
  <2>3. Sign(r)
    <3>1. ASSUME NEW p \in Requests, RequestStep(p) PROVE Sign(p) /\ p = r
      BY <1>1, <2>2, <3>1, KeyMoves, RequestStepMovesOne
    <3>2. ASSUME NEW p \in Requests, Arrive(p) PROVE FALSE
      <4>1. PICK c \in Calls : Becomes(p, Continued([Idle EXCEPT !.call = c], Opening(c)))
        BY <3>2 DEF Arrive, Start
      <4>2. Opening(c) # << >>
        BY OpeningIsScript
      <4>3. Continued([Idle EXCEPT !.call = c], Opening(c)).key = None
        BY <4>2 DEF Continued, Idle
      <4> QED BY <2>2, <4>1, <4>3
    <3>3. ~LockStep
      <4> SUFFICES ASSUME LockStep PROVE FALSE
        OBVIOUS
      <4>1. req' # req
        BY <1>1
      <4>2. Job.by \in Requests /\ (Advance(Job.by) \/ RefuseReq(Job.by))
        BY <1>1, <4>1, LockMovesOne
      <4>3. /\ Advanced(req[Job.by]).key \in {req[Job.by].key, None}
            /\ Refused(req[Job.by]).key \in {req[Job.by].key, None}
        BY <2>1, <4>2, MovesKeepKey
      <4> QED BY <2>2, <4>2, <4>3 DEF Advance, RefuseReq
    <3>4. ~Crash
      BY <1>1 DEF Crash, Ended, Idle
    <3>5. ~Switch /\ ~Quiet /\ ~UNCHANGED vars
      BY <1>1, Zenon DEF Switch, Quiet, vars
    <3> QED BY <1>1, <3>1, <3>2, <3>3, <3>4, <3>5 DEF Next
  <2> DEFINE q == [req[r] EXCEPT !.key = PhraseOf[req[r].bnd.source]]
  <2>4. /\ At(r, "start") /\ Head(req[r].todo) = "sign"
        /\ RefuseReq(r) \/ /\ contextGeneration = req[r].bnd.gen
                           /\ PhraseOf[req[r].bnd.source] \in req[r].addr
                           /\ Becomes(r, Advanced(q))
    BY <2>3, Zenon DEF Sign, Step
  <2>5. ~RefuseReq(r)
    BY <2>1, <2>2, MovesKeepKey DEF RefuseReq
  <2>6. req[r].bnd.source \in Sources /\ req[r].addr \subseteq {req[r].bnd.fp}
    BY <1>1, <2>4, AtWork, StepShape DEF LockSteps, Tenured
  <2>7. PhraseOf[req[r].bnd.source] = req[r].bnd.fp
    BY <1>1, <2>6 DEF GrantInv, BoundOK
  <2>8. q \in RequestRecords /\ q.key = req[r].bnd.fp
    <3>1. PhraseOf[req[r].bnd.source] \in Phrases
      BY <2>6, BindingAssumption
    <3> QED BY <2>1, <2>7, <3>1 DEF RequestRecords
  <2> HIDE DEF q
  <2>9. Advanced(q).key \in {q.key, None}
    BY <2>8, MovesKeepKey
  <2>10. req'[r] = Advanced(q)
    BY <2>1, <2>4, <2>5 DEF Becomes
  <2> QED BY <1>1, <2>4, <2>5, <2>6, <2>7, <2>8, <2>9, <2>10
<1>2. RequestInv /\ GrantInv /\ CacheCoherent /\ TenureInv /\ [Next]_vars =>
         [\A r \in Requests :
            req'[r].key \notin {req[r].key, None} =>
               /\ req[r].addr = {req'[r].key}
               /\ req'[r].key = req[r].bnd.fp
               /\ contextGeneration = req[r].bnd.gen]_vars
  BY <1>1
<1> QED BY <1>2, RequestsFit, GrantsSound, MemoIsCoherent, TenureSound, PTL
        DEF Spec, SignsAsApproved

=============================================================================
