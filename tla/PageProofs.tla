----------------------------- MODULE PageProofs -----------------------------
(***************************************************************************)
(* What the companion site's page and the client under it owe the user,    *)
(* however many readings, loads and calls overlap, and however often the   *)
(* wallet and the release are replaced meanwhile: ClientInv, PanelsInv and *)
(* TableInv are inductive.                                                 *)
(***************************************************************************)
EXTENDS WalletPage, TLAPS

Versions == {Pin} \cup OtherVersions

Invocations ==
    {q \in [at : {"idle", "waiting", "asking", "failed"}, lookup : Calls \cup {None},
            seen : SUBSET Wallets] : q.at # "asking" => q.seen = {}}

Lookups == [seen : SUBSET Versions, current : BOOLEAN]

Clients == [call : [Calls -> Invocations], lookup : [Calls -> Lookups],
            check : Calls \cup {None}]

\* The pin was installed since the newest invocation when it is, and when a
\* lookup of the newest generation may report it.
PinOK(k, version, since) ==
    /\ version = Pin => since
    /\ \A l \in Calls : k.lookup[l].current /\ Pin \in k.lookup[l].seen => since

ClientInv ==
    /\ client \in Clients /\ installed \in Versions /\ wallet \in Wallets /\ pinned \in BOOLEAN
    /\ PinOK(client, installed, pinned)

-----------------------------------------------------------------------------
(***************************************************************************)
(* The steps of a client.                                                  *)
(***************************************************************************)

\* Callers become an invocation, and nothing else changes.
LEMMA BecomeIs ==
    ASSUME NEW k \in Clients, NEW callers, NEW invocation \in Invocations
    PROVE  LET m == Become(k, callers, invocation)
           IN /\ m \in Clients /\ m.lookup = k.lookup /\ m.check = k.check
              /\ \A c \in Calls :
                    m.call[c] = IF c \in callers THEN invocation ELSE k.call[c]
BY DEF Become, Clients

\* What an invocation may be.
LEMMA InvocationsAre ==
    ASSUME NEW l \in Calls \cup {None}
    PROVE  /\ NoInvocation \in Invocations /\ Refused \in Invocations
           /\ [at |-> "waiting", lookup |-> l, seen |-> {}] \in Invocations
           /\ wallet \in Wallets => Asking \in Invocations
BY DEF NoInvocation, Refused, Asking, Invocations

\* A lookup starts, of the newest generation, and its caller waits for it.
LEMMA StartIs ==
    ASSUME NEW k \in Clients, NEW c \in Calls, installed \in Versions
    PROVE  /\ Start(k, c) \in Clients
           /\ Start(k, c).lookup =
                 [k.lookup EXCEPT ![c] = [seen |-> {installed}, current |-> TRUE]]
           /\ \A d \in Calls :
                 Start(k, c).call[d] =
                    IF d = c THEN [at |-> "waiting", lookup |-> c, seen |-> {}] ELSE k.call[d]
<1> DEFINE m == [k EXCEPT !.check = c, !.lookup[c] = [seen |-> {installed}, current |-> TRUE]]
<1>1. /\ m \in Clients /\ m.call = k.call
      /\ m.lookup = [k.lookup EXCEPT ![c] = [seen |-> {installed}, current |-> TRUE]]
  BY DEF Clients, Lookups
<1> HIDE DEF m
<1>2. Start(k, c) = Become(m, {c}, [at |-> "waiting", lookup |-> c, seen |-> {}])
  BY DEF Start, Await, m
<1> QED BY <1>1, <1>2, BecomeIs, InvocationsAre

\* A new invocation outdates every lookup but its own.
LEMMA DemandIs ==
    ASSUME NEW k \in Clients, NEW c \in Calls, installed \in Versions
    PROVE  /\ Demand(k, c) \in Clients
           /\ PinOK(Demand(k, c), installed, installed = Pin)
           /\ \A d \in Calls :
                 Demand(k, c).call[d] =
                    IF d = c THEN [at |-> "waiting", lookup |-> c, seen |-> {}] ELSE k.call[d]
<1>1. PICK m : m = [k EXCEPT !.lookup = [l \in Calls |-> [@[l] EXCEPT !.current = FALSE]]]
  OBVIOUS
<1>2. m \in Clients /\ m.call = k.call /\ \A l \in Calls : ~m.lookup[l].current
  BY <1>1 DEF Clients, Lookups
<1>3. Demand(k, c) = Start(m, c)
  BY <1>1 DEF Demand
<1>4. PICK s : s = Start(m, c)
  OBVIOUS
<1>5. /\ s \in Clients
      /\ s.lookup = [m.lookup EXCEPT ![c] = [seen |-> {installed}, current |-> TRUE]]
      /\ \A d \in Calls :
            s.call[d] = IF d = c THEN [at |-> "waiting", lookup |-> c, seen |-> {}]
                        ELSE m.call[d]
  BY <1>2, <1>4, StartIs
<1>6. PinOK(s, installed, installed = Pin)
  <2>1. ASSUME NEW l \in Calls, s.lookup[l].current PROVE s.lookup[l].seen = {installed}
    BY <1>2, <1>5, <2>1 DEF Clients
  <2> QED BY <2>1 DEF PinOK
<1> QED BY <1>2, <1>3, <1>4, <1>5, <1>6

\* A lookup that is over is no more, and says nothing of the pin.
LEMMA DoneIs ==
    ASSUME NEW k \in Clients, NEW l \in Calls, NEW version, NEW since, PinOK(k, version, since)
    PROVE  /\ Done(k, l) \in Clients /\ Done(k, l).call = k.call
           /\ PinOK(Done(k, l), version, since)
<1> DEFINE m == Done(k, l)
<1>1. /\ m \in Clients /\ m.call = k.call /\ m.lookup = [k.lookup EXCEPT ![l] = NoLookup]
  BY DEF Done, Clients, Lookups, NoLookup
<1>2. \A j \in Calls : m.lookup[j].current => m.lookup[j] = k.lookup[j]
  BY <1>1 DEF Clients, NoLookup
<1> HIDE DEF m
<1>3. PinOK(m, version, since)
  BY <1>2 DEF PinOK
<1> QED BY <1>1, <1>3 DEF m

\* Callers share the newest lookup, or begin it: they wait, and the others stay.
LEMMA EnsureIs ==
    ASSUME NEW k \in Clients, NEW callers \in SUBSET Calls, installed \in Versions,
           NEW since, PinOK(k, installed, since)
    PROVE  LET m == ensurePinnedVersion(k, callers)
           IN /\ m \in Clients /\ PinOK(m, installed, since)
              /\ \A c \in Calls :
                    /\ c \in callers => m.call[c].at = "waiting"
                    /\ c \notin callers => m.call[c] = k.call[c]
<1>1. PICK m : m = ensurePinnedVersion(k, callers)
  OBVIOUS
<1>2. CASE callers = {}
  BY <1>1, <1>2 DEF ensurePinnedVersion
<1>3. CASE callers # {} /\ k.check # None /\ k.lookup[k.check].current
  <2>1. k.check \in Calls /\ m = Become(k, callers, [at |-> "waiting", lookup |-> k.check,
                                                     seen |-> {}])
    BY <1>1, <1>3 DEF ensurePinnedVersion, Await, Clients
  <2>2. /\ m \in Clients /\ m.lookup = k.lookup
        /\ \A c \in Calls : m.call[c] = IF c \in callers
              THEN [at |-> "waiting", lookup |-> k.check, seen |-> {}] ELSE k.call[c]
    BY <2>1, BecomeIs, InvocationsAre
  <2>3. PinOK(m, installed, since)
    BY <2>2 DEF PinOK
  <2> QED BY <1>1, <2>2, <2>3
<1>4. CASE callers # {} /\ ~(k.check # None /\ k.lookup[k.check].current)
  <2>1. PICK c \in callers : c = CHOOSE d \in callers : TRUE
    BY <1>4
  <2>2. c \in Calls
    OBVIOUS
  <2>3. PICK s : s = Start(k, c)
    OBVIOUS
  <2>4. m = Become(s, callers, [at |-> "waiting", lookup |-> c, seen |-> {}])
    BY <1>1, <1>4, <2>1, <2>3 DEF ensurePinnedVersion, Await
  <2>5. /\ s \in Clients
        /\ s.lookup = [k.lookup EXCEPT ![c] = [seen |-> {installed}, current |-> TRUE]]
        /\ \A d \in Calls :
              s.call[d] = IF d = c THEN [at |-> "waiting", lookup |-> c, seen |-> {}]
                          ELSE k.call[d]
    BY <2>2, <2>3, StartIs
  <2>6. /\ m \in Clients /\ m.lookup = s.lookup
        /\ \A d \in Calls : m.call[d] = IF d \in callers
              THEN [at |-> "waiting", lookup |-> c, seen |-> {}] ELSE s.call[d]
    BY <2>1, <2>4, <2>5, BecomeIs, InvocationsAre
  <2>7. \A l \in Calls : m.lookup[l] = k.lookup[l] \/ m.lookup[l].seen = {installed}
    BY <2>5, <2>6 DEF Clients
  <2>8. PinOK(m, installed, since)
    BY <2>7 DEF PinOK
  <2> QED BY <1>1, <2>5, <2>6, <2>8
<1> QED BY <1>2, <1>3, <1>4

\* What a reply makes of a call that waited for it: it asks the snap when the pin
\* was installed, or is refused, or waits again.
Settled(before, after, since) ==
    /\ before.at = "waiting"
    /\ \/ after.at \in {"waiting", "failed"}
       \/ after = Asking /\ since

LEMMA SettleIs ==
    ASSUME NEW k \in Clients, NEW l \in Calls, NEW version \in k.lookup[l].seen,
           installed \in Versions, wallet \in Wallets, NEW since, PinOK(k, installed, since)
    PROVE  LET m == Settle(k, l, version)
           IN /\ m \in Clients /\ PinOK(m, installed, since)
              /\ \A c \in Calls :
                    m.call[c] = k.call[c] \/ Settled(k.call[c], m.call[c], since)
<1>1. PICK m, done, waiting : /\ m = Settle(k, l, version) /\ done = Done(k, l)
                              /\ waiting = Waiting(k, l)
  OBVIOUS
<1>2. /\ done \in Clients /\ done.call = k.call /\ PinOK(done, installed, since)
      /\ waiting \in SUBSET Calls /\ \A c \in waiting : k.call[c].at = "waiting"
  BY <1>1, DoneIs DEF Waiting
<1>3. ASSUME NEW after \in Invocations, m = Become(done, waiting, after),
             after = Refused \/ (after = Asking /\ since)
      PROVE  /\ m \in Clients /\ PinOK(m, installed, since)
             /\ \A c \in Calls :
                   m.call[c] = k.call[c] \/ Settled(k.call[c], m.call[c], since)
  <2>1. /\ m \in Clients /\ m.lookup = done.lookup
        /\ \A c \in Calls : m.call[c] = IF c \in waiting THEN after ELSE k.call[c]
    BY <1>2, <1>3, BecomeIs
  <2>2. PinOK(m, installed, since)
    BY <1>2, <2>1 DEF PinOK
  <2>3. Refused.at = "failed"
    BY DEF Refused
  <2> QED BY <1>2, <1>3, <2>1, <2>2, <2>3 DEF Settled
<1>4. CASE version # Pin
  <2>1. m = Become(done, waiting, Refused) /\ Refused \in Invocations
    BY <1>1, <1>4, InvocationsAre DEF Settle
  <2> QED BY <1>1, <1>3, <2>1
<1>5. CASE version = Pin /\ k.lookup[l].current
  <2>1. m = Become(done, waiting, Asking) /\ Asking \in Invocations /\ since
    BY <1>1, <1>5, InvocationsAre DEF Settle, PinOK
  <2> QED BY <1>1, <1>3, <2>1
<1>6. CASE version = Pin /\ ~k.lookup[l].current
  <2>1. m = ensurePinnedVersion(done, waiting)
    BY <1>1, <1>6 DEF Settle
  <2>2. /\ m \in Clients /\ PinOK(m, installed, since)
        /\ \A c \in Calls :
              /\ c \in waiting => m.call[c].at = "waiting"
              /\ c \notin waiting => m.call[c] = done.call[c]
    BY <1>2, <2>1, EnsureIs
  <2> QED BY <1>1, <1>2, <2>2 DEF Settled
<1> QED BY <1>4, <1>5, <1>6

\* The calls of a reading.
LEMMA CallsOf ==
    ASSUME NEW r \in Refreshes
    PROVE  /\ Of(r, "address") = <<r, 1>> /\ Of(r, "network") = <<r, 2>>
           /\ Of(r, "accounts") = <<r, 1>> /\ Of(r, "balances") = <<r, 2>>
           /\ <<r, 1>> \in Calls /\ <<r, 2>> \in Calls /\ Work \in Calls
           /\ <<r, 1>> # <<r, 2>> /\ <<r, 1>>[1] = r /\ <<r, 2>>[1] = r /\ Work[1] # r
BY PageAssumption DEF Of, Work

\* A reading's two calls are asked for.
LEMMA BothDemanded ==
    ASSUME NEW k \in Clients, NEW r \in Refreshes, installed \in Versions
    PROVE  LET m == Demand(Demand(k, <<r, 1>>), <<r, 2>>)
           IN /\ m \in Clients /\ PinOK(m, installed, installed = Pin)
              /\ m.call[<<r, 1>>].at = "waiting" /\ m.call[<<r, 2>>].at = "waiting"
              /\ \A c \in Calls : c[1] # r => m.call[c] = k.call[c]
              /\ \A c \in Calls : m.call[c] = k.call[c] \/ m.call[c].at = "waiting"
<1>1. PICK a, b : a = <<r, 1>> /\ b = <<r, 2>>
  OBVIOUS
<1>2. a \in Calls /\ b \in Calls /\ a # b /\ a[1] = r /\ b[1] = r
  BY <1>1, CallsOf
<1>3. PICK d : d = Demand(k, a)
  OBVIOUS
<1>4. /\ d \in Clients
      /\ \A c \in Calls :
            d.call[c] = IF c = a THEN [at |-> "waiting", lookup |-> a, seen |-> {}]
                        ELSE k.call[c]
  BY <1>2, <1>3, DemandIs
<1>5. PICK m : m = Demand(d, b)
  OBVIOUS
<1>6. /\ m \in Clients /\ PinOK(m, installed, installed = Pin)
      /\ \A c \in Calls :
            m.call[c] = IF c = b THEN [at |-> "waiting", lookup |-> b, seen |-> {}]
                        ELSE d.call[c]
  BY <1>2, <1>4, <1>5, DemandIs
<1>7. m = Demand(Demand(k, <<r, 1>>), <<r, 2>>)
  BY <1>1, <1>3, <1>5
<1>8. m.call[<<r, 1>>].at = "waiting" /\ m.call[<<r, 2>>].at = "waiting"
  BY <1>1, <1>2, <1>4, <1>6
<1>9. \A c \in Calls : c[1] # r => m.call[c] = k.call[c]
  BY <1>2, <1>4, <1>6
<1>10. \A c \in Calls : m.call[c] = k.call[c] \/ m.call[c].at = "waiting"
  BY <1>2, <1>4, <1>6
<1> QED BY <1>6, <1>7, <1>8, <1>9, <1>10

\* The replies to a reading are read.
LEMMA ConsumedIs ==
    ASSUME NEW k \in Clients, NEW r \in Refreshes
    PROVE  LET m == Consumed(k, r)
           IN /\ m \in Clients /\ m.lookup = k.lookup
              /\ \A c \in Calls : c[1] # r => m.call[c] = k.call[c]
              /\ \A c \in Calls : m.call[c] = k.call[c] \/ m.call[c].at = "idle"
<1>1. NoInvocation \in Invocations /\ NoInvocation.at = "idle"
  BY DEF NoInvocation, Invocations
<1> QED BY <1>1, BecomeIs DEF Consumed

\* The calls under way may be answered from another wallet.
LEMMA SwitchedIs ==
    ASSUME NEW k \in Clients, NEW w \in Wallets
    PROVE  LET m == Switched(k, w)
           IN /\ m \in Clients /\ m.lookup = k.lookup
              /\ \A c \in Calls : m.call[c].at = k.call[c].at
BY DEF Switched, Clients, Invocations

\* No call goes on to ask the snap.
Holds(k, m) == \A c \in Calls : m.call[c].at = "asking" => k.call[c].at = "asking"

\* A reading begins, or the page is emptied.
LEMMA RefreshIs ==
    ASSUME NEW k \in Clients, PinOK(k, installed, pinned), pinned \in BOOLEAN,
           installed \in Versions, NEW r \in Refreshes, NEW sees, Refresh(r, sees, k)
    PROVE  /\ client' \in Clients /\ pinned' \in BOOLEAN /\ PinOK(client', installed, pinned')
           /\ Holds(k, client')
           /\ sees => client'.call[<<r, 1>>].at = "waiting" /\ client'.call[<<r, 2>>].at = "waiting"
<1>1. CASE sees
  <2>1. client' = Demand(Demand(k, <<r, 1>>), <<r, 2>>) /\ pinned' = (installed = Pin)
    BY <1>1, CallsOf DEF Refresh
  <2> QED BY <2>1, BothDemanded DEF Holds
<1>2. CASE ~sees
  <2>1. client' = k /\ UNCHANGED pinned
    BY <1>2 DEF Refresh
  <2> QED BY <1>2, <2>1 DEF Holds
<1> QED BY <1>1, <1>2

\* Callers forget their invocation.
LEMMA ForgetIs ==
    ASSUME NEW k \in Clients, NEW callers
    PROVE  LET m == Become(k, callers, NoInvocation)
           IN m \in Clients /\ m.lookup = k.lookup /\ Holds(k, m)
<1>1. NoInvocation \in Invocations /\ NoInvocation.at = "idle"
  BY DEF NoInvocation, Invocations
<1> QED BY <1>1, BecomeIs DEF Holds

\* A client whose lookups stay says no more of the pin than it did.
LEMMA SameLookups ==
    ASSUME NEW k, NEW m, m.lookup = k.lookup, NEW version, NEW since, PinOK(k, version, since)
    PROVE  PinOK(m, version, since)
BY DEF PinOK

\* The steps that leave the release, and what is known of the pin, alone.
LEMMA ClientKept ==
    ASSUME ClientInv, NEW m \in Clients, m.lookup = client.lookup, Holds(client, m),
           client' = m, wallet' \in Wallets, UNCHANGED <<installed, pinned>>
    PROVE  ClientInv' /\ Holds(client, client')
BY SameLookups DEF ClientInv

LEMMA ReadingClient ==
    ASSUME ClientInv, NEW r \in Refreshes,
           Effect(r) \/ ReadingFails(r) \/ FirstReads(r) \/ SecondReads(r) \/ WorkDone(r)
    PROVE  ClientInv' /\ Holds(client, client')
<1>1. CASE Effect(r)
  <2>1. Refresh(r, ready, client) /\ UNCHANGED <<wallet, installed>>
    BY <1>1 DEF Effect, world
  <2> QED BY <2>1, RefreshIs DEF ClientInv
<1>2. CASE ReadingFails(r) \/ SecondReads(r)
  <2>1. client' = Consumed(client, r) /\ UNCHANGED <<wallet, installed, pinned>>
    BY <1>2 DEF ReadingFails, SecondReads, world
  <2>2. PICK m : m = Consumed(client, r)
    OBVIOUS
  <2>3. m \in Clients /\ m.lookup = client.lookup /\ Holds(client, m)
    BY <2>2, ForgetIs DEF ClientInv, Consumed
  <2> QED BY <2>1, <2>2, <2>3, ClientKept DEF ClientInv
<1>3. CASE FirstReads(r)
  <2>1. PICK k, m : k = Consumed(client, r) /\ m = Demand(Demand(k, <<r, 1>>), <<r, 2>>)
    OBVIOUS
  <2>2. k \in Clients /\ k.lookup = client.lookup /\ Holds(client, k)
    BY <2>1, ForgetIs DEF ClientInv, Consumed
  <2>3. /\ UNCHANGED <<wallet, installed>>
        /\ \/ client' = m /\ pinned' = (installed = Pin)
           \/ client' = k /\ UNCHANGED pinned
    BY <1>3, <2>1, CallsOf DEF FirstReads, world
  <2>4. /\ m \in Clients /\ PinOK(m, installed, installed = Pin) /\ Holds(k, m)
    BY <2>1, <2>2, BothDemanded DEF ClientInv, Holds
  <2>5. CASE client' = m /\ pinned' = (installed = Pin)
    BY <2>2, <2>3, <2>4, <2>5 DEF ClientInv, Holds
  <2>6. CASE client' = k /\ UNCHANGED pinned
    BY <2>2, <2>3, <2>6, ClientKept DEF ClientInv
  <2> QED BY <2>3, <2>5, <2>6
<1>4. CASE WorkDone(r)
  <2>1. PICK w \in Wallets :
           /\ wallet' = w
           /\ Refresh(r, TRUE, Switched(Become(client, {Work}, NoInvocation), w))
    BY <1>4 DEF WorkDone
  <2>2. PICK k, m : k = Become(client, {Work}, NoInvocation) /\ m = Switched(k, w)
    OBVIOUS
  <2>3. k \in Clients /\ k.lookup = client.lookup /\ Holds(client, k)
    BY <2>2, ForgetIs DEF ClientInv
  <2>4. m \in Clients /\ m.lookup = client.lookup /\ Holds(client, m)
    BY <2>2, <2>3, SwitchedIs DEF Holds
  <2>5. PinOK(m, installed, pinned)
    BY <2>4, SameLookups DEF ClientInv
  <2>6. Refresh(r, TRUE, m) /\ UNCHANGED installed
    BY <1>4, <2>1, <2>2 DEF WorkDone
  <2>7. /\ client' \in Clients /\ pinned' \in BOOLEAN /\ PinOK(client', installed, pinned')
        /\ Holds(m, client')
    BY <2>4, <2>5, <2>6, RefreshIs DEF ClientInv
  <2> QED BY <2>1, <2>4, <2>6, <2>7 DEF ClientInv, Holds
<1> QED BY <1>1, <1>2, <1>3, <1>4

\* No call goes on to ask the snap unless the pin was installed since the newest
\* one was asked for, and the lookups of the newest generation know.
LEMMA ClientSteps ==
    ASSUME ClientInv, [Next]_vars
    PROVE  /\ ClientInv'
           /\ \A c \in Calls :
                 client.call[c].at = "waiting" /\ client'.call[c].at = "asking" => pinned
<1>1. ASSUME NEW l \in Calls, UNCHANGED <<page, world, pinned>>, Reply(l)
      PROVE  /\ ClientInv'
             /\ \A c \in Calls :
                   client.call[c].at = "waiting" /\ client'.call[c].at = "asking" => pinned
  <2>1. PICK k, p, version : /\ k = client /\ p = pinned /\ version \in k.lookup[l].seen
                             /\ client' = Settle(k, l, version)
    BY <1>1 DEF Reply
  <2>2. PICK m : m = Settle(k, l, version)
    OBVIOUS
  <2>3. /\ m \in Clients /\ PinOK(m, installed, p)
        /\ \A c \in Calls : m.call[c] = k.call[c] \/ Settled(k.call[c], m.call[c], p)
    BY <2>1, <2>2, SettleIs DEF ClientInv
  <2>4. UNCHANGED <<installed, wallet, pinned>>
    BY <1>1 DEF world
  <2>5. \A c \in Calls : client.call[c].at = "waiting" /\ client'.call[c].at = "asking" => pinned
    BY <2>1, <2>2, <2>3 DEF Settled
  <2> QED BY <2>1, <2>2, <2>3, <2>4, <2>5 DEF ClientInv
<1>2. CASE SetInstalledSnap \/ (\E h \in Loads : TableEffect(h) \/ Loaded(h) \/ Reload(h))
             \/ Focus \/ UNCHANGED vars
  <2>1. UNCHANGED <<client, installed, wallet, pinned>>
    BY <1>2 DEF SetInstalledSnap, TableEffect, Loaded, Reload, Focus, Event, world, vars
  <2> QED BY <2>1 DEF ClientInv
<1>3. CASE WorkFails
  <2>1. PICK m : m = Become(client, {Work}, NoInvocation)
    OBVIOUS
  <2>2. m \in Clients /\ m.lookup = client.lookup /\ Holds(client, m)
    BY <2>1, ForgetIs DEF ClientInv
  <2>3. client' = m /\ UNCHANGED <<wallet, installed, pinned>>
    BY <1>3, <2>1 DEF WorkFails, world
  <2> QED BY <2>2, <2>3, ClientKept DEF ClientInv, Holds
<1>4. CASE Run
  <2>1. PICK k, work : k = client /\ work = Work
    OBVIOUS
  <2>2. PICK m : m = Demand(k, work)
    OBVIOUS
  <2>3. client' = m /\ pinned' = (installed = Pin) /\ UNCHANGED <<wallet, installed>>
    BY <1>4, <2>1, <2>2 DEF Run
  <2>4. k \in Clients /\ work \in Calls /\ installed \in Versions
    BY <2>1, PageAssumption DEF ClientInv
  <2>5. /\ m \in Clients /\ PinOK(m, installed, installed = Pin)
        /\ \A c \in Calls :
              m.call[c] = IF c = work THEN [at |-> "waiting", lookup |-> work, seen |-> {}]
                          ELSE k.call[c]
    BY <2>2, <2>4, DemandIs
  <2>6. \A c \in Calls : m.call[c].at = "asking" => k.call[c].at = "asking"
    BY <2>5
  <2> QED BY <2>1, <2>3, <2>4, <2>5, <2>6 DEF ClientInv
<1>5. CASE Replaced
  <2>1. PICK version \in Versions : Update(version)
    BY <1>5 DEF Replaced, Versions
  <2>2. PICK k, p : k = client /\ p = pinned
    OBVIOUS
  <2>3. PICK m : m = [k EXCEPT !.lookup = [l \in Calls |->
          IF InFlight(k, l) THEN [k.lookup[l] EXCEPT !.seen = @ \cup {version}]
          ELSE k.lookup[l]]]
    OBVIOUS
  <2>4. /\ client' = m /\ installed' = version /\ pinned' = (p \/ version = Pin)
        /\ UNCHANGED wallet
    BY <1>5, <2>1, <2>2, <2>3 DEF Replaced, Update
  <2>5. /\ m \in Clients /\ m.call = k.call
        /\ \A l \in Calls : /\ m.lookup[l].current = k.lookup[l].current
                            /\ m.lookup[l].seen \subseteq k.lookup[l].seen \cup {version}
    BY <2>2, <2>3 DEF ClientInv, Clients, Lookups
  <2>6. PinOK(m, version, p \/ version = Pin)
    BY <2>2, <2>5 DEF ClientInv, PinOK
  <2> QED BY <2>2, <2>4, <2>5, <2>6 DEF ClientInv
<1>6. CASE Switch
  <2>1. PICK w \in Wallets : wallet' = w /\ client' = Switched(client, w)
    BY <1>6 DEF Switch
  <2>2. PICK m : m = Switched(client, w)
    OBVIOUS
  <2>3. m \in Clients /\ m.lookup = client.lookup /\ Holds(client, m)
    BY <2>2, SwitchedIs DEF ClientInv, Holds
  <2>4. UNCHANGED <<installed, pinned>>
    BY <1>6 DEF Switch
  <2> QED BY <2>1, <2>2, <2>3, <2>4, ClientKept DEF Holds
<1>7. ASSUME NEW r \in Refreshes,
             Effect(r) \/ ReadingFails(r) \/ FirstReads(r) \/ SecondReads(r) \/ WorkDone(r)
      PROVE  /\ ClientInv'
             /\ \A c \in Calls :
                   client.call[c].at = "waiting" /\ client'.call[c].at = "asking" => pinned
  BY <1>7, ReadingClient DEF Holds
<1> QED BY <1>1, <1>2, <1>3, <1>4, <1>5, <1>6, <1>7 DEF Next, Progress

\* What is known of the client in every reachable state.
THEOREM ClientSound == Spec => []ClientInv
<1>1. Init => ClientInv
  <2> SUFFICES ASSUME Init PROVE ClientInv
    OBVIOUS
  <2>1. /\ client = NewClient /\ installed = Pin /\ wallet \in Wallets /\ pinned = TRUE
    BY DEF Init
  <2>2. NewClient \in Clients
    BY DEF NewClient, NoInvocation, NoLookup, Clients, Invocations, Lookups
  <2> QED BY <2>1, <2>2 DEF ClientInv, PinOK, Versions
<1>2. ClientInv /\ [Next]_vars => ClientInv'
  BY ClientSteps
<1> QED BY <1>1, <1>2, PTL DEF Spec

\* In every behaviour a call goes out to the snap only if the pinned release was
\* installed at some moment since the newest call was asked for, however many
\* lookups are shared, outdated and repeated, and whatever releases come and go
\* (ensurePinnedVersion and ensureCurrentPinnedVersion).
THEOREM PinIsInvoked == Spec => InvokesThePin
<1>1. ClientInv /\ [Next]_vars =>
         [\A c \in Calls :
             client.call[c].at = "waiting" /\ client'.call[c].at = "asking" => pinned]_vars
  BY ClientSteps
<1> QED BY <1>1, ClientSound, PTL DEF Spec, InvokesThePin

-----------------------------------------------------------------------------
(***************************************************************************)
(* The history table.                                                      *)
(***************************************************************************)
TableInv ==
    /\ table = [context |-> table.context, rows |-> table.rows, turn |-> table.turn,
                load |-> table.load]
    /\ table.load = [h \in Loads |-> table.load[h]]
    /\ table.turn \in Loads \cup {None}
    /\ table.turn # None => table.load[table.turn] = table.context
    /\ RowsOfTheTable

\* The newest load is for the context of the table.
LEMMA LoadKeepsTable ==
    ASSUME TableInv, NEW context, NEW cleared, NEW h \in Loads, Load(context, cleared, h),
           cleared \/ context = table.context
    PROVE  TableInv'
<1>1. CASE context.network = None \/ context.account = Unconnected
  <2>1. table' = [context |-> context, rows |-> NoContext, turn |-> None, load |-> table.load]
    BY <1>1 DEF Load
  <2> QED BY <2>1 DEF TableInv, RowsOfTheTable
<1>2. CASE ~(context.network = None \/ context.account = Unconnected)
  <2>1. table' = [context |-> context,
                  rows |-> IF cleared THEN NoContext ELSE table.rows,
                  turn |-> h, load |-> [table.load EXCEPT ![h] = context]]
    BY <1>2 DEF Load
  <2> QED BY <2>1 DEF TableInv, RowsOfTheTable
<1> QED BY <1>1, <1>2

\* TableInv is inductive.
LEMMA NextTable ==
    ASSUME TableInv, [Next]_vars
    PROVE  TableInv'
<1>1. ASSUME NEW h \in Loads, TableEffect(h) PROVE TableInv'
  BY <1>1, LoadKeepsTable DEF TableEffect
<1>2. ASSUME NEW h \in Loads, Reload(h) PROVE TableInv'
  BY <1>2, LoadKeepsTable DEF Reload
<1>3. ASSUME NEW h \in Loads, Loaded(h) PROVE TableInv'
  <2>1. PICK rows \in {RowsAfter(h), table.rows} :
           table' = [table EXCEPT !.rows = rows, !.load[h] = None,
                                  !.turn = IF @ = h THEN None ELSE @]
    BY <1>3 DEF Loaded
  <2>2. rows \in {NoContext, table.context}
    BY <2>1, PageAssumption DEF RowsAfter, TableInv, RowsOfTheTable
  <2>3. /\ table'.context = table.context /\ table'.rows = rows
        /\ table'.turn = IF table.turn = h THEN None ELSE table.turn
        /\ table'.load = [table.load EXCEPT ![h] = None]
        /\ table' = [context |-> table'.context, rows |-> table'.rows, turn |-> table'.turn,
                     load |-> table'.load]
    BY <2>1 DEF TableInv
  <2> QED BY <2>2, <2>3 DEF TableInv, RowsOfTheTable
<1>4. ASSUME UNCHANGED table PROVE TableInv'
  BY <1>4 DEF TableInv, RowsOfTheTable
<1>5. CASE \/ \E l \in Calls : UNCHANGED <<page, world, pinned>> /\ Reply(l)
           \/ SetInstalledSnap \/ WorkFails \/ Run \/ Focus \/ Replaced \/ Switch \/ UNCHANGED vars
  <2>1. UNCHANGED table
    BY <1>5 DEF SetInstalledSnap, WorkFails, Run, Focus, Replaced, Switch, page, vars
  <2> QED BY <1>4, <2>1
<1>6. ASSUME NEW r \in Refreshes,
             Effect(r) \/ ReadingFails(r) \/ FirstReads(r) \/ SecondReads(r) \/ WorkDone(r)
      PROVE  TableInv'
  <2>1. UNCHANGED table
    BY <1>6 DEF Effect, ReadingFails, FirstReads, SecondReads, WorkDone
  <2> QED BY <1>4, <2>1
<1> QED BY <1>1, <1>2, <1>3, <1>5, <1>6 DEF Next, Progress

\* In every behaviour the rows of the history table are of the account and the
\* network of its last effect, or there are none: an answer for others, or one
\* that is late, is dropped (features/History.tsx, utils/latest.ts).
THEOREM RowsAreTheTables == Spec => []RowsOfTheTable
<1>1. Init => TableInv
  BY PageAssumption DEF Init, TableInv, NoTable, RowsOfTheTable
<1>2. TableInv /\ [Next]_vars => TableInv'
  BY NextTable
<1>3. TableInv => RowsOfTheTable
  BY DEF TableInv
<1> QED BY <1>1, <1>2, <1>3, PTL DEF Spec

-----------------------------------------------------------------------------
(***************************************************************************)
(* The panels.                                                             *)
(***************************************************************************)
PanelsShow == panels.network = wallet.network /\ panels.address = wallet.account

\* A reading that began in this wallet has replies of this wallet only; once it
\* has read the first two, the panels show it, and they still do at its end.
ReadingTrue(r) ==
    /\ refresh[r] # "idle" => \A i \in {1, 2} : client.call[<<r, i>>].seen \subseteq {wallet}
    /\ refresh[r] = "second" => PanelsShow
    /\ refresh[r] = "idle" /\ panels.network # None =>
          PanelsShow /\ panels.balances \in {NoContext, wallet}

PanelsInv ==
    /\ refresh \in [Refreshes -> {"idle", "first", "second"}]
    /\ turn \in Refreshes \cup {None}
    /\ panels = [network |-> panels.network, address |-> panels.address,
                 accounts |-> panels.accounts, balances |-> panels.balances]
    /\ turn = None => panels.network = None
    /\ turn # None /\ steady => ReadingTrue(turn)

\* A call that is not asking has no reply to be read.
LEMMA NoReply ==
    ASSUME NEW k \in Clients, NEW c \in Calls, k.call[c].at # "asking"
    PROVE  k.call[c].seen = {}
BY DEF Clients, Invocations

\* Steps that leave the panels and their reading alone, and bring it replies of
\* this wallet at most.
LEMMA PanelsKept ==
    ASSUME PanelsInv, UNCHANGED <<turn, steady, wallet, panels>>,
           refresh' \in [Refreshes -> {"idle", "first", "second"}],
           turn # None => refresh'[turn] = refresh[turn],
           turn # None => \A i \in {1, 2} :
              client'.call[<<turn, i>>].seen \subseteq client.call[<<turn, i>>].seen \cup {wallet}
    PROVE  PanelsInv'
<1>1. ASSUME turn # None, steady PROVE ReadingTrue(turn)'
  <2>1. ReadingTrue(turn)
    BY <1>1 DEF PanelsInv
  <2>2. ASSUME refresh[turn] # "idle", NEW i \in {1, 2}
        PROVE  client'.call[<<turn, i>>].seen \subseteq {wallet}
    BY <1>1, <2>1, <2>2 DEF ReadingTrue
  <2> QED BY <1>1, <2>1, <2>2 DEF ReadingTrue, PanelsShow
<1> QED BY <1>1 DEF PanelsInv

\* A reading begins with nothing read.
LEMMA RefreshPanels ==
    ASSUME PanelsInv, NEW r \in Refreshes, NEW sees, NEW k, Refresh(r, sees, k),
           sees => \A i \in {1, 2} : client'.call[<<r, i>>].seen = {}
    PROVE  PanelsInv'
<1>1. /\ turn' = r /\ r # None /\ refresh[r] = "idle"
      /\ sees => refresh' = [refresh EXCEPT ![r] = "first"] /\ UNCHANGED panels
      /\ ~sees => panels' = NoPanels /\ UNCHANGED refresh
  BY PageAssumption DEF Refresh, Free
<1>2. refresh'[r] = IF sees THEN "first" ELSE "idle"
  BY <1>1 DEF PanelsInv
<1>3. ReadingTrue(r)'
  BY <1>1, <1>2 DEF ReadingTrue, NoPanels
<1> QED BY <1>1, <1>3 DEF PanelsInv, NoPanels

\* A reading that is not the newest writes nothing, and leaves the calls of the
\* others alone.
LEMMA DroppedPanels ==
    ASSUME PanelsInv, NEW r \in Refreshes, turn # r, UNCHANGED <<turn, steady, wallet, panels>>,
           NEW next \in {"idle", "first", "second"}, refresh' = [refresh EXCEPT ![r] = next],
           \A c \in Calls : c[1] # r => client'.call[c] = client.call[c]
    PROVE  PanelsInv'
<1>1. ASSUME turn # None, NEW i \in {1, 2}
      PROVE  client'.call[<<turn, i>>] = client.call[<<turn, i>>]
  <2>1. turn \in Refreshes
    BY <1>1 DEF PanelsInv
  <2>2. <<turn, i>> \in Calls /\ <<turn, i>>[1] = turn
    BY <2>1, CallsOf
  <2> QED BY <2>2
<1>2. /\ refresh' \in [Refreshes -> {"idle", "first", "second"}]
      /\ turn # None => refresh'[turn] = refresh[turn]
  BY DEF PanelsInv
<1> QED BY <1>1, <1>2, PanelsKept

\* The steps of a reading: its replies are of this wallet while it is the newest
\* and the wallet has stayed.
LEMMA ReadingPanels ==
    ASSUME PanelsInv, ClientInv, ClientInv', NEW r \in Refreshes,
           ReadingFails(r) \/ FirstReads(r) \/ SecondReads(r)
    PROVE  PanelsInv'
<1>1. PICK k : k = Consumed(client, r)
  OBVIOUS
<1>2. k \in Clients /\ \A c \in Calls : c[1] # r => k.call[c] = client.call[c]
  BY <1>1, ConsumedIs DEF ClientInv
<1>3. PICK m : m = Demand(Demand(k, <<r, 1>>), <<r, 2>>)
  OBVIOUS
<1>4. /\ m \in Clients /\ m.call[<<r, 1>>].at = "waiting" /\ m.call[<<r, 2>>].at = "waiting"
      /\ \A c \in Calls : c[1] # r => m.call[c] = k.call[c]
  BY <1>2, <1>3, BothDemanded DEF ClientInv
<1>5. UNCHANGED <<turn, steady, wallet>> /\ r # None
  BY PageAssumption DEF ReadingFails, FirstReads, SecondReads, world
<1>6. \/ client' = k /\ refresh' = [refresh EXCEPT ![r] = "idle"]
      \/ turn = r /\ client' = m /\ refresh' = [refresh EXCEPT ![r] = "second"]
  BY <1>1, <1>3, CallsOf DEF ReadingFails, FirstReads, SecondReads, Ended
<1>7. CASE turn # r
  <2>1. UNCHANGED panels
    BY <1>7 DEF ReadingFails, FirstReads, SecondReads, Write
  <2> QED BY <1>2, <1>5, <1>6, <1>7, <2>1, DroppedPanels
<1>8. CASE turn = r
  <2>1. refresh' \in [Refreshes -> {"idle", "first", "second"}]
    BY <1>6 DEF PanelsInv
  <2>2. panels' = [network |-> panels'.network, address |-> panels'.address,
                   accounts |-> panels'.accounts, balances |-> panels'.balances]
    BY <1>8 DEF PanelsInv, ReadingFails, FirstReads, SecondReads, Write
  <2>3. SUFFICES ASSUME steady PROVE ReadingTrue(r)'
    BY <1>5, <1>8, <2>1, <2>2 DEF PanelsInv
  <2>4. ReadingTrue(r) /\ refresh[r] \in {"first", "second"}
    BY <1>5, <1>8, <2>3 DEF PanelsInv, ReadingFails, FirstReads, SecondReads
  <2>5. /\ client.call[<<r, 1>>].seen \subseteq {wallet}
        /\ client.call[<<r, 2>>].seen \subseteq {wallet}
    BY <2>4 DEF ReadingTrue
  <2>6. CASE ReadingFails(r)
    <3>1. panels' = [panels EXCEPT !.network = None] /\ refresh'[r] = "idle"
      BY <1>8, <2>6 DEF ReadingFails, Write, Ended, PanelsInv
    <3>2. panels'.network = None
      BY <3>1 DEF PanelsInv
    <3> QED BY <3>1, <3>2 DEF ReadingTrue
  <2>7. CASE FirstReads(r)
    <3>1. PICK a \in client.call[<<r, 1>>].seen, n \in client.call[<<r, 2>>].seen :
             LET shown == [panels EXCEPT !.network = n.network, !.address = a.account]
                 goesOn == turn = r /\ a.account # Unconnected
             IN /\ Write(r, IF a.account = Unconnected
                            THEN [shown EXCEPT !.accounts = Unconnected, !.balances = NoContext]
                            ELSE shown)
                /\ IF goesOn
                   THEN /\ client' = m
                        /\ refresh' = [refresh EXCEPT ![r] = "second"]
                   ELSE /\ client' = k /\ refresh' = [refresh EXCEPT ![r] = "idle"]
      BY <1>1, <1>3, <2>7, CallsOf DEF FirstReads, Answers, Ended
    <3>2. a = wallet /\ n = wallet
      BY <2>5, <3>1
    <3>3. /\ PanelsShow'
          /\ a.account = Unconnected => panels'.balances = NoContext
      BY <1>5, <1>8, <3>1, <3>2 DEF Write, PanelsInv, PanelsShow
    <3>4. CASE a.account = Unconnected
      <4>1. refresh'[r] = "idle"
        BY <3>1, <3>4 DEF PanelsInv
      <4> QED BY <3>3, <3>4, <4>1 DEF ReadingTrue
    <3>5. CASE a.account # Unconnected
      <4>1. refresh'[r] = "second" /\ client' = m
        BY <1>8, <3>1, <3>5 DEF PanelsInv
      <4>2. m.call[<<r, 1>>].seen = {} /\ m.call[<<r, 2>>].seen = {}
        BY <1>4, NoReply, CallsOf
      <4> QED BY <3>3, <4>1, <4>2 DEF ReadingTrue
    <3> QED BY <3>4, <3>5
  <2>8. CASE SecondReads(r)
    <3>1. refresh[r] = "second" /\ refresh'[r] = "idle"
      BY <2>8 DEF SecondReads, Ended, PanelsInv
    <3>2. PICK balances \in {NoContext} \cup client.call[<<r, 2>>].seen :
             \E accounts :
                panels' = [panels EXCEPT !.accounts = accounts, !.balances = balances]
      BY <1>8, <2>8, CallsOf DEF SecondReads, Write, Answers
    <3>3. balances \in {NoContext, wallet}
      BY <2>5, <3>2
    <3>4. /\ panels'.network = panels.network /\ panels'.address = panels.address
          /\ panels'.balances = balances
      BY <3>2 DEF PanelsInv
    <3>5. PanelsShow
      BY <2>4, <3>1 DEF ReadingTrue
    <3> QED BY <1>5, <3>1, <3>3, <3>4, <3>5 DEF ReadingTrue, PanelsShow
  <2> QED BY <2>6, <2>7, <2>8
<1> QED BY <1>7, <1>8

\* The client's own steps bring a reading replies of this wallet only.
LEMMA ClientPanels ==
    ASSUME PanelsInv, ClientInv,
           \/ UNCHANGED <<page, world, pinned>> /\ \E l \in Calls : Reply(l)
           \/ WorkFails \/ Run \/ Replaced
    PROVE  PanelsInv'
<1>1. UNCHANGED <<turn, steady, wallet, panels, refresh>>
  BY DEF WorkFails, Run, Replaced, page, world
<1>2. SUFFICES ASSUME turn # None, NEW i \in {1, 2}
               PROVE  client'.call[<<turn, i>>].seen
                         \subseteq client.call[<<turn, i>>].seen \cup {wallet}
  <2>1. refresh' \in [Refreshes -> {"idle", "first", "second"}]
    BY <1>1 DEF PanelsInv
  <2> QED BY <1>1, <1>2, <2>1, PanelsKept
<1>3. PICK c, k : c = <<turn, i>> /\ k = client
  OBVIOUS
<1>4. c \in Calls /\ c # Work /\ k \in Clients
  <2>1. turn \in Refreshes
    BY <1>2 DEF PanelsInv
  <2> QED BY <1>3, <2>1, CallsOf DEF ClientInv
<1>5. ASSUME NEW l \in Calls, UNCHANGED <<page, world, pinned>>, Reply(l)
      PROVE  client'.call[c].seen \subseteq k.call[c].seen \cup {wallet}
  <2>1. PICK version \in k.lookup[l].seen : client' = Settle(k, l, version)
    BY <1>3, <1>5 DEF Reply
  <2>2. PICK m : m = Settle(k, l, version)
    OBVIOUS
  <2>3. m \in Clients /\ (m.call[c] = k.call[c] \/ Settled(k.call[c], m.call[c], pinned))
    BY <1>3, <1>4, <2>2, SettleIs DEF ClientInv
  <2>4. CASE m.call[c] = k.call[c]
    BY <2>1, <2>2, <2>4
  <2>5. CASE m.call[c].at \in {"waiting", "failed"}
    <3>1. m.call[c].seen = {}
      BY <1>4, <2>3, <2>5, NoReply
    <3> QED BY <2>1, <2>2, <3>1
  <2>6. CASE m.call[c] = Asking
    BY <2>1, <2>2, <2>6 DEF Asking
  <2> QED BY <2>3, <2>4, <2>5, <2>6 DEF Settled
<1>6. CASE WorkFails
  <2>1. PICK m : m = Become(k, {Work}, NoInvocation)
    OBVIOUS
  <2>2. m.call[c] = k.call[c]
    BY <1>4, <2>1 DEF Become, Clients
  <2> QED BY <1>3, <1>6, <2>1, <2>2 DEF WorkFails
<1>7. CASE Run
  <2>1. PICK work : work = Work
    OBVIOUS
  <2>2. PICK m : m = Demand(k, work)
    OBVIOUS
  <2>3. work \in Calls /\ installed \in Versions
    BY <2>1, PageAssumption DEF ClientInv
  <2>4. \A d \in Calls :
           m.call[d] = IF d = work THEN [at |-> "waiting", lookup |-> work, seen |-> {}]
                       ELSE k.call[d]
    BY <1>4, <2>2, <2>3, DemandIs
  <2>5. m.call[c] = k.call[c]
    BY <1>4, <2>1, <2>4
  <2> QED BY <1>3, <1>7, <2>1, <2>2, <2>5 DEF Run
<1>8. CASE Replaced
  <2>1. PICK version : Update(version)
    BY <1>8 DEF Replaced
  <2>2. client'.call = k.call
    BY <1>3, <1>4, <2>1 DEF Update, Clients
  <2> QED BY <1>3, <2>2
<1> QED BY <1>1, <1>2, <1>3, <1>5, <1>6, <1>7, <1>8

\* PanelsInv is inductive.
LEMMA NextPanels ==
    ASSUME PanelsInv, ClientInv, [Next]_vars
    PROVE  PanelsInv'
<1>1. ClientInv'
  BY ClientSteps
<1>2. ASSUME NEW r \in Refreshes, Effect(r) PROVE PanelsInv'
  <2>1. Refresh(r, ready, client)
    BY <1>2 DEF Effect
  <2>2. ready => client'.call[<<r, 1>>].at = "waiting" /\ client'.call[<<r, 2>>].at = "waiting"
    BY <2>1, RefreshIs DEF ClientInv
  <2>3. ready => \A i \in {1, 2} : client'.call[<<r, i>>].seen = {}
    BY <1>1, <2>2, NoReply, CallsOf DEF ClientInv
  <2> QED BY <2>1, <2>3, RefreshPanels
<1>3. ASSUME NEW r \in Refreshes, WorkDone(r) PROVE PanelsInv'
  <2>1. PICK w \in Wallets : Refresh(r, TRUE, Switched(Become(client, {Work}, NoInvocation), w))
    BY <1>3 DEF WorkDone
  <2>2. PICK j, k : j = Become(client, {Work}, NoInvocation) /\ k = Switched(j, w)
    OBVIOUS
  <2>3. j \in Clients
    BY <2>2, ForgetIs DEF ClientInv
  <2>4. k \in Clients /\ k.lookup = client.lookup
    BY <2>2, <2>3, ForgetIs, SwitchedIs DEF ClientInv
  <2>5. Refresh(r, TRUE, k)
    BY <2>1, <2>2
  <2>6. client'.call[<<r, 1>>].at = "waiting" /\ client'.call[<<r, 2>>].at = "waiting"
    BY <2>4, <2>5, RefreshIs, SameLookups DEF ClientInv
  <2>7. \A i \in {1, 2} : client'.call[<<r, i>>].seen = {}
    BY <1>1, <2>6, NoReply, CallsOf DEF ClientInv
  <2> QED BY <2>5, <2>7, RefreshPanels
<1>4. ASSUME NEW r \in Refreshes, ReadingFails(r) \/ FirstReads(r) \/ SecondReads(r)
      PROVE  PanelsInv'
  BY <1>1, <1>4, ReadingPanels
<1>5. CASE \/ UNCHANGED <<page, world, pinned>> /\ \E l \in Calls : Reply(l)
           \/ WorkFails \/ Run \/ Replaced
  BY <1>5, ClientPanels
<1>6. CASE SetInstalledSnap \/ (\E h \in Loads : TableEffect(h) \/ Loaded(h) \/ Reload(h))
             \/ Focus \/ UNCHANGED vars
  <2>1. UNCHANGED <<client, wallet, refresh, turn, panels, steady>>
    BY <1>6 DEF SetInstalledSnap, TableEffect, Loaded, Reload, Focus, Event, world, page, vars
  <2> QED BY <2>1 DEF PanelsInv, ReadingTrue, PanelsShow
<1>7. CASE Switch
  <2>1. UNCHANGED <<refresh, turn, panels>> /\ steady' = FALSE
    BY <1>7 DEF Switch
  <2> QED BY <2>1 DEF PanelsInv
<1> QED BY <1>2, <1>3, <1>4, <1>5, <1>6, <1>7 DEF Next, Progress

\* In every behaviour, once no reading is under way and the wallet is what it was
\* when the newest of them began, panels that name a network show that wallet,
\* whichever of the overlapping readings of refresh was answered last.
THEOREM PanelsShowTheWallet == Spec => []RestShowsTheWallet
<1>1. Init => PanelsInv
  BY PageAssumption DEF Init, PanelsInv, NoPanels
<1>2. PanelsInv /\ ClientInv /\ [Next]_vars => PanelsInv'
  BY NextPanels
<1>3. PanelsInv => RestShowsTheWallet
  BY DEF PanelsInv, RestShowsTheWallet, AtRest, ReadingTrue, PanelsShow
<1> QED BY <1>1, <1>2, <1>3, ClientSound, PTL DEF Spec

=============================================================================
