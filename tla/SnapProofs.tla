----------------------------- MODULE SnapProofs ------------------------------
(***************************************************************************)
(* The type of every variable, and what is true of every request, in every *)
(* behaviour: RequestInv is inductive.                                     *)
(***************************************************************************)
EXTENDS SnapInvariants, SequenceTheorems, TLAPS

(***************************************************************************)
(* What the mutators of SnapStore and the scripts of SnapHandlers preserve *)
(* and return.                                                             *)
(***************************************************************************)
\* The index after the highest revealed one: the account nextAccountIndex
\* would reveal next, when the revealed accounts have no gap.
LEMMA NextOfRange ==
    ASSUME NEW s \in Stores, NEW n \in Nat, s.accounts = 0 .. n
    PROVE  NextAccountIndex(s) = n + 1
<1>1. n \in 0 .. n /\ \A j \in 0 .. n : j <= n
  OBVIOUS
<1>2. \A i \in 0 .. n : (\A j \in 0 .. n : j <= i) => i = n
  <2> TAKE i \in 0 .. n
  <2> HAVE \A j \in 0 .. n : j <= i
  <2>1. n <= i
    BY <1>1
  <2> QED BY <2>1
<1>3. (CHOOSE i \in s.accounts : \A j \in s.accounts : j <= i) = n
  BY <1>1, <1>2
<1>4. NextAccountIndex(s) = 1 + n
  BY <1>3, Zenon DEF NextAccountIndex
<1> QED BY <1>4

\* A fresh store is a good one.
LEMMA DefaultIsGood == DefaultState \in GoodStores
<1>1. 0 \in Indices
  BY StoreAssumption DEF Indices
<1>2. {0} = 0 .. 0
  OBVIOUS
<1>3. DefaultState \in Stores
  BY <1>1, StoreAssumption DEF DefaultState, Stores
<1> QED BY <1>1, <1>2, <1>3 DEF GoodStores, GapFree, DefaultState

\* A free lock holds no store but the default one.
LEMMA FreeIsGood == Free \in Locks /\ Free.was \in GoodStores /\ Free.new \in GoodStores
BY DefaultIsGood DEF Free, Locks, GoodStores

\* A registry that normalizeOrigins answers with is a registry.
LEMMA NormalizedIsRegistry ==
    ASSUME NEW origins \in [Origins -> Grants \cup {None}],
           NEW kept \in NormalizeOrigins(origins)
    PROVE  kept \in [Origins -> Grants \cup {None}]
BY DEF NormalizeOrigins

\* What a mutator decides on a gap-free store is a gap-free store with the
\* same fingerprint, whatever the verdict.
GoodVerdict(v, s) ==
    /\ v.do \in {"refuse", "keep", "write"}
    /\ v.new \in GoodStores
    /\ v.new.fp = s.fp

\* connectOrigin changes nothing but the registry of grants.
LEMMA ConnectIsGood ==
    ASSUME NEW s \in GoodStores, NEW o \in Origins, NEW fp, NEW now \in Times,
           NEW v \in ConnectOrigin(s, o, fp, now)
    PROVE  GoodVerdict(v, s)
<1>1. s \in Stores /\ GapFree(s)
  BY DEF GoodStores
<1>2. CASE v \in {Refuse(s), Keep(s)}
  BY <1>2 DEF Refuse, Keep, GoodVerdict
<1>3. CASE \E kept \in NormalizeOrigins(ConnectedOrigins(s, o, now)) :
              v = Write([s EXCEPT !.origins = kept])
  <2>1. PICK kept \in NormalizeOrigins(ConnectedOrigins(s, o, now)) :
              v = Write([s EXCEPT !.origins = kept])
    BY <1>3
  <2>2. s.origins \in [Origins -> Grants \cup {None}]
    BY <1>1 DEF Stores
  <2>3. (IF HasGrant(s, o) THEN s.origins[o].connectedAt ELSE now) \in Times
    BY <2>2 DEF HasGrant, Grants
  <2>4. ConnectedOrigins(s, o, now) \in [Origins -> Grants \cup {None}]
    BY <2>2, <2>3 DEF ConnectedOrigins, Grants
  <2>5. kept \in [Origins -> Grants \cup {None}]
    BY <2>4, NormalizedIsRegistry
  <2>6. [s EXCEPT !.origins = kept] \in Stores
    BY <1>1, <2>5 DEF Stores
  <2>7. GapFree([s EXCEPT !.origins = kept])
    BY <1>1 DEF GapFree, Stores
  <2> QED BY <1>1, <2>1, <2>6, <2>7 DEF Write, GoodStores, Stores, GoodVerdict
<1> QED BY <1>2, <1>3 DEF ConnectOrigin

-----------------------------------------------------------------------------
\* The preferences: the network, the tokens, the notice, and disconnecting.
LEMMA PreferenceIsGood ==
    ASSUME NEW s \in GoodStores, NEW fp
    PROVE  /\ \A n \in Networks : GoodVerdict(SetActiveNetwork(s, n, fp), s)
           /\ \A n \in Networks, t \in Tokens :
                 /\ GoodVerdict(AddToken(s, n, t, fp), s)
                 /\ GoodVerdict(RemoveToken(s, n, t), s)
           /\ \A o \in Origins : GoodVerdict(DisconnectOrigin(s, o), s)
           /\ GoodVerdict(ClearResetNotice(s), s)
<1>1. ASSUME NEW n \in Networks
      PROVE  GoodVerdict(SetActiveNetwork(s, n, fp), s)
  BY <1>1 DEF GoodVerdict, SetActiveNetwork, Refuse, Keep, Write, GoodStores, Stores, GapFree
<1>2. ASSUME NEW n \in Networks, NEW t \in Tokens
      PROVE  GoodVerdict(AddToken(s, n, t, fp), s)
  BY <1>2 DEF GoodVerdict, AddToken, Refuse, Keep, Write, GoodStores, Stores, GapFree
<1>3. ASSUME NEW n \in Networks, NEW t \in Tokens
      PROVE  GoodVerdict(RemoveToken(s, n, t), s)
  BY <1>3 DEF GoodVerdict, RemoveToken, Refuse, Keep, Write, GoodStores, Stores, GapFree
<1>4. ASSUME NEW o \in Origins
      PROVE  GoodVerdict(DisconnectOrigin(s, o), s)
  BY <1>4 DEF GoodVerdict, DisconnectOrigin, Refuse, Keep, Write, GoodStores, Stores, GapFree
<1>5. GoodVerdict(ClearResetNotice(s), s)
  BY DEF GoodVerdict, ClearResetNotice, Refuse, Keep, Write, GoodStores, Stores, GapFree
<1> QED BY <1>1, <1>2, <1>3, <1>4, <1>5

\* The account registry: revealing the next index, or all indices through a
\* target, from the next one on, leaves no gap.
LEMMA RegistryIsGood ==
    ASSUME NEW s \in GoodStores, NEW fp
    PROVE  /\ \A i \in Nat : GoodVerdict(RevealAccount(s, i, fp), s)
           /\ \A i, from : GoodVerdict(RevealAccountsThrough(s, i, from, fp), s)
           /\ \A i : GoodVerdict(SetActiveAccount(s, i, fp), s)
<1>1. PICK n \in Indices : s.accounts = 0 .. n
  BY DEF GoodStores, GapFree
<1>2. n \in Nat /\ n < MaxAccountIndex /\ MaxAccountIndex \in Nat
  BY StoreAssumption DEF Indices
<1>3. NextAccountIndex(s) = n + 1
  BY <1>1, <1>2, NextOfRange DEF GoodStores
<1>4. s \in Stores /\ s.active \in s.accounts
  BY DEF GoodStores, GapFree
<1>5. ASSUME NEW m \in Indices, n <= m
      PROVE  LET new == [s EXCEPT !.accounts = 0 .. m]
             IN new \in GoodStores /\ new.fp = s.fp
  <2> DEFINE new == [s EXCEPT !.accounts = 0 .. m]
  <2>1. 0 .. m \subseteq Indices
    BY <1>2, <1>5 DEF Indices
  <2>2. new \in Stores /\ new.fp = s.fp /\ new.accounts = 0 .. m /\ new.active = s.active
    BY <1>4, <2>1 DEF Stores
  <2>3. s.active \in 0 .. m
    BY <1>1, <1>2, <1>4, <1>5 DEF Indices
  <2> QED BY <2>2, <2>3 DEF GoodStores, GapFree
<1>6. ASSUME NEW i \in Nat
      PROVE  GoodVerdict(RevealAccount(s, i, fp), s)
  <2>1. CASE s.fp = fp /\ i \notin s.accounts /\ ~(i >= MaxAccountIndex) /\ i = n + 1
    <3>1. i \in Indices /\ n <= i
      BY <1>2, <2>1 DEF Indices
    <3>2. s.accounts \cup {i} = 0 .. i
      BY <1>1, <1>2, <2>1
    <3> QED BY <1>3, <1>5, <2>1, <3>1, <3>2 DEF RevealAccount, GoodVerdict, Write
  <2>2. CASE ~(s.fp = fp /\ i \notin s.accounts /\ ~(i >= MaxAccountIndex) /\ i = n + 1)
    BY <1>3, <1>4, <2>2 DEF RevealAccount, GoodVerdict, Refuse, Keep
  <2> QED BY <2>1, <2>2
<1>7. ASSUME NEW i, NEW from
      PROVE  GoodVerdict(RevealAccountsThrough(s, i, from, fp), s)
  <2>1. CASE s.fp = fp /\ i \in Indices /\ ~(i < n + 1) /\ from = n + 1
    <3>1. n <= i
      BY <1>2, <2>1 DEF Indices
    <3>2. s.accounts \cup (from .. i) = 0 .. i
      BY <1>1, <1>2, <2>1 DEF Indices
    <3> QED BY <1>3, <1>5, <2>1, <3>1, <3>2 DEF RevealAccountsThrough, GoodVerdict, Write
  <2>2. CASE ~(s.fp = fp /\ i \in Indices /\ ~(i < n + 1) /\ from = n + 1)
    BY <1>3, <1>4, <2>2 DEF RevealAccountsThrough, GoodVerdict, Refuse, Keep
  <2> QED BY <2>1, <2>2
<1>8. ASSUME NEW i
      PROVE  GoodVerdict(SetActiveAccount(s, i, fp), s)
  BY <1>4 DEF SetActiveAccount, GoodVerdict, Refuse, Keep, Write, GoodStores, GapFree, Stores
<1> QED BY <1>6, <1>7, <1>8

\* Whatever mutator a step of a call's own script runs, it leaves a gap-free
\* store and its fingerprint.
LEMMA MutationIsGood ==
    ASSUME NEW c \in AllCalls, NEW snap \in GoodStores,
           NEW step \in LockSteps, step \in OwnSteps(c, snap),
           NEW s \in GoodStores, NEW fp,
           NEW v \in Mutation(step, c, snap, fp, s)
    PROVE  GoodVerdict(v, s)
<1>1. step \in OwnSteps(c, snap)
  OBVIOUS
<1>2. CASE step \in {"connect", "grant"}
  <2>1. c.origin \in Origins
    BY <1>1, <1>2 DEF OwnSteps, AllCalls, Signing
  <2>2. PICK now \in Times : v \in ConnectOrigin(s, c.origin, fp, now)
    BY <1>2 DEF Mutation
  <2> QED BY <2>1, <2>2, ConnectIsGood
<1>3. CASE step = "network"
  <2>1. c.arg \in Networks
    BY <1>1, <1>3 DEF OwnSteps, AllCalls, Signing
  <2>2. v = SetActiveNetwork(s, c.arg, fp)
    BY <1>3 DEF Mutation
  <2> QED BY <2>1, <2>2, PreferenceIsGood
<1>4. CASE step = "token"
  <2>1. c.arg \in Tokens /\ snap.network \in Networks
    BY <1>1, <1>4 DEF OwnSteps, AllCalls, Signing, GoodStores, Stores
  <2>2. v = AddToken(s, snap.network, c.arg, fp)
    BY <1>4 DEF Mutation
  <2> QED BY <2>1, <2>2, PreferenceIsGood
<1>5. CASE step = "activate"
  BY <1>5, RegistryIsGood DEF Mutation
<1>6. CASE step = "reveal"
  <2>1. PICK n \in Indices : snap.accounts = 0 .. n
    BY DEF GoodStores, GapFree
  <2>2. n \in Nat /\ snap \in Stores
    BY <2>1, StoreAssumption DEF Indices, GoodStores
  <2>3. NextAccountIndex(snap) \in Nat
    BY <2>1, <2>2, NextOfRange
  <2>4. v = RevealAccount(s, NextAccountIndex(snap), fp)
    BY <1>6 DEF Mutation
  <2> QED BY <2>3, <2>4, RegistryIsGood
<1>7. CASE step = "revealThrough"
  BY <1>7, RegistryIsGood DEF Mutation
<1>8. CASE step = "disconnect"
  <2>1. c.arg \in Origins
    BY <1>1, <1>8 DEF OwnSteps, AllCalls, Signing
  <2>2. v = DisconnectOrigin(s, c.arg)
    BY <1>8 DEF Mutation
  <2> QED BY <2>1, <2>2, PreferenceIsGood
<1>9. CASE step = "untoken"
  <2>1. c.arg \in Networks \X Tokens
    BY <1>1, <1>9 DEF OwnSteps, AllCalls, Signing
  <2>2. c.arg[1] \in Networks /\ c.arg[2] \in Tokens
    BY <2>1
  <2>3. v = RemoveToken(s, c.arg[1], c.arg[2])
    BY <1>9 DEF Mutation
  <2> QED BY <2>2, <2>3, PreferenceIsGood
<1>10. CASE step = "clearNotice"
  BY <1>10, PreferenceIsGood DEF Mutation
<1> QED
  BY <1>2, <1>3, <1>4, <1>5, <1>6, <1>7, <1>8, <1>9, <1>10 DEF LockSteps

\* Reconciling leaves a gap-free store with the fingerprint it was asked for.
LEMMA ReconcileIsGood ==
    ASSUME NEW s \in GoodStores, NEW fp \in Phrases
    PROVE  LET v == ReconcileEntropyBinding(s, fp)
           IN /\ v.do \in {"keep", "write"}
              /\ v.new \in GoodStores
              /\ v.new.fp = fp
<1>1. s \in Stores /\ GapFree(s)
  BY DEF GoodStores
<1>2. CASE s.fp = fp
  BY <1>2 DEF ReconcileEntropyBinding, Keep
<1>3. CASE s.fp # fp /\ s.fp = None
  BY <1>1, <1>3 DEF ReconcileEntropyBinding, Write, GoodStores, GapFree, Stores
<1>4. CASE s.fp # fp /\ s.fp # None
  <2> DEFINE new == [DefaultState EXCEPT !.network = s.network, !.tokens = s.tokens,
                                         !.fp = fp, !.notice = "phrase-changed"]
  <2>1. DefaultState \in Stores /\ GapFree(DefaultState)
    BY DefaultIsGood DEF GoodStores
  <2>2. new \in Stores /\ new.fp = fp
        /\ new.accounts = DefaultState.accounts /\ new.active = DefaultState.active
    BY <1>1, <2>1 DEF Stores
  <2>3. GapFree(new)
    BY <2>1, <2>2 DEF GapFree
  <2>4. ReconcileEntropyBinding(s, fp) = [do |-> "write", new |-> new]
    BY <1>4 DEF ReconcileEntropyBinding, Write
  <2>5. new \in GoodStores
    BY <2>2, <2>3 DEF GoodStores
  <2> HIDE DEF new
  <2> QED BY <2>2, <2>4, <2>5
<1> QED BY <1>2, <1>3, <1>4

-----------------------------------------------------------------------------
(***************************************************************************)
(* The scripts of the handlers.                                            *)
(***************************************************************************)

\* A script of one step ends with that step.
LEMMA LastStep ==
    ASSUME NEW S, NEW step \in S, NEW todo, todo = <<step>>
    PROVE  todo \in Seq(S) /\ todo # << >> /\ Head(todo) = step /\ Tail(todo) = << >>
OBVIOUS

\* The scripts that open a request.
LEMMA OpeningShape ==
    ASSUME NEW c
    PROVE  /\ Opening(c) \in {Guarded, Ensure, <<"observe", "state">>,
                              <<"disconnect">>, <<"untoken">>}
           /\ Opening(c) = <<"disconnect">> => c.op = "disconnect"
           /\ Opening(c) = <<"untoken">> => c.op = "removeToken"
           /\ c.op = "home" => Opening(c) = Ensure
BY DEF Opening, Ensure, Guarded, Connected, Selects, Signing

\* The scripts that need no binding start with no step that uses one.
LEMMA UnboundHeads ==
    ASSUME NEW c \in AllCalls, NEW todo \in Unbound(c)
    PROVE  /\ todo # << >>
           /\ Head(todo) \in {"connected", "bind", "observe", "disconnect", "untoken",
                              "state", "clearNotice"}
           /\ Head(todo) \notin {"bind", "observe"} => Tail(todo) \in Unbound(c) \cup {<< >>}
<1>1. CASE todo = Guarded
  <2>1. Tail(todo) = Ensure /\ Head(todo) = "connected" /\ todo # << >>
    BY <1>1 DEF Guarded, Ensure
  <2> QED BY <2>1 DEF Unbound
<1>2. CASE todo = Ensure
  BY <1>2 DEF Ensure
<1>3. CASE todo = <<"observe", "state">>
  BY <1>3
<1>4. ASSUME NEW step \in {"disconnect", "untoken", "state", "clearNotice"}, todo = <<step>>
      PROVE  todo # << >> /\ Head(todo) = step /\ Tail(todo) = << >>
  BY <1>4, LastStep
<1>5. todo \in {Opening(c), Ensure, <<"state">>, <<"clearNotice">>}
  BY DEF Unbound
<1>6. CASE \E step \in {"disconnect", "untoken", "state", "clearNotice"} : todo = <<step>>
  BY <1>4, <1>6
<1> QED BY <1>1, <1>2, <1>3, <1>5, <1>6, OpeningShape, Zenon

\* A script stays a prelude until its plan is made, or ends.
LEMMA PreludeTails ==
    ASSUME NEW c \in AllCalls, NEW todo \in Preludes(c)
    PROVE  /\ todo \in Seq(Steps) /\ todo # << >>
           /\ Tail(todo) \in Preludes(c) \cup {<< >>}
           /\ Head(todo) \in LockSteps =>
                 \A snap : Head(todo) \in OwnSteps(c, snap)
<1>1. CASE todo = Guarded
  <2>1. todo \in Seq(Steps)
    BY <1>1 DEF Guarded, Steps, Observations, Resolutions, LockSteps
  <2>2. Tail(todo) = Ensure /\ Head(todo) = "connected" /\ todo # << >>
    BY <1>1 DEF Guarded, Ensure
  <2> QED BY <2>1, <2>2 DEF Preludes, LockSteps
<1>2. CASE todo = Ensure
  <2>1. todo \in Seq(Steps)
    BY <1>2 DEF Ensure, Steps, Observations, Resolutions, LockSteps
  <2>2. Tail(todo) = <<"snapshot", "active", "admit">> /\ Head(todo) = "bind" /\ todo # << >>
    BY <1>2 DEF Ensure
  <2> QED BY <2>1, <2>2 DEF Preludes, LockSteps
<1>3. CASE todo = <<"snapshot", "active", "admit">>
  <2>1. todo \in Seq(Steps)
    BY <1>3 DEF Steps, Observations, Resolutions
  <2>2. Tail(todo) = <<"active", "admit">> /\ Head(todo) = "snapshot" /\ todo # << >>
    BY <1>3
  <2> QED BY <2>1, <2>2 DEF Preludes, LockSteps
<1>4. CASE todo = <<"active", "admit">>
  <2>1. todo \in Seq(Steps)
    BY <1>4 DEF Steps, Observations, Resolutions
  <2>2. Tail(todo) = <<"admit">> /\ Head(todo) = "active" /\ todo # << >>
    BY <1>4
  <2> QED BY <2>1, <2>2 DEF Preludes, LockSteps
<1>5. ASSUME NEW step \in {"admit", "state"}, todo = <<step>>
      PROVE  /\ todo \in Seq(Steps) /\ todo # << >>
             /\ Tail(todo) = << >> /\ Head(todo) \notin LockSteps
  <2>1. step \in Steps /\ step \notin LockSteps
    BY DEF Steps, LockSteps
  <2> QED BY <1>5, <2>1, LastStep
<1>6. CASE todo = <<"observe", "state">>
  <2>1. todo \in Seq(Steps)
    BY <1>6 DEF Steps, Observations, Resolutions
  <2>2. Tail(todo) = <<"state">> /\ Head(todo) = "observe" /\ todo # << >>
    BY <1>6
  <2> QED BY <2>1, <2>2 DEF Preludes, LockSteps
<1>7. CASE todo = <<"disconnect">> /\ c.op = "disconnect"
  <2>1. todo \in Seq(Steps)
    BY <1>7 DEF Steps, LockSteps
  <2>2. Tail(todo) = << >> /\ Head(todo) = "disconnect" /\ todo # << >>
    BY <1>7
  <2> QED BY <1>7, <2>1, <2>2 DEF OwnSteps, Signing
<1>8. CASE todo = <<"untoken">> /\ c.op = "removeToken"
  <2>1. todo \in Seq(Steps)
    BY <1>8 DEF Steps, LockSteps
  <2>2. Tail(todo) = << >> /\ Head(todo) = "untoken" /\ todo # << >>
    BY <1>8
  <2> QED BY <1>8, <2>1, <2>2 DEF OwnSteps, Signing
<1>9. \/ todo = Opening(c)
      \/ todo \in {Ensure, <<"snapshot", "active", "admit">>, <<"active", "admit">>,
                   <<"admit">>, <<"state">>}
  BY DEF Preludes
<1>10. CASE \E step \in {"admit", "state"} : todo = <<step>>
  BY <1>5, <1>10
<1> QED BY <1>1, <1>2, <1>3, <1>4, <1>6, <1>7, <1>8, <1>9, <1>10, OpeningShape, Zenon

\* The plan of a call holds the steps of that call only.
LEMMA PlanFits ==
    ASSUME NEW c \in AllCalls, NEW s \in GoodStores
    PROVE  Plan(c, s) \in Seq(Fitting(c, s))
<1> DEFINE F == Fitting(c, s)
<1>1. /\ {"active", "owned", "match", "unchanged", "settled", "recheck", "dialog",
           "outward", "import", "sign", "submit"} \subseteq F
      /\ OwnSteps(c, s) \subseteq F
  BY DEF Fitting, Rechecks
<1> SUFFICES Plan(c, s) \in Seq(F)
  OBVIOUS
<1> HIDE DEF F
<1>2. ASSUME NEW commit \in F PROVE Approval(commit) \in Seq(F)
  BY <1>1 DEF Approval
<1>3. << >> \in Seq(F) /\ \A step \in F : <<step>> \in Seq(F)
  OBVIOUS
<1>4. \A p \in Seq(F), q \in Seq(F) : p \o q \in Seq(F)
  BY ConcatProperties
<1>5. CASE c.op = "requestAccess"
  <2>1. "connect" \in F
    BY <1>1, <1>5 DEF OwnSteps, Signing
  <2>2. Plan(c, s) = RequestAccessPlan(c, s)
    BY <1>5 DEF Plan
  <2> QED BY <1>1, <1>2, <1>3, <1>4, <2>1, <2>2 DEF RequestAccessPlan
<1>6. CASE c.op = "getAddress"
  <2>1. Plan(c, s) = GetAddressPlan(c, s)
    BY <1>6 DEF Plan
  <2> QED BY <1>1, <2>1 DEF GetAddressPlan
<1>7. CASE c.op = "getAccounts"
  <2>1. Plan(c, s) = GetAccountsPlan
    BY <1>7 DEF Plan
  <2> QED BY <1>1, <2>1 DEF GetAccountsPlan
<1>8. CASE c.op = "setActiveAccount"
  <2>1. "target" \in F /\ "activate" \in F
    BY <1>1, <1>8 DEF OwnSteps, Signing
  <2>2. Plan(c, s) = SetActiveAccountPlan(c, s)
    BY <1>8 DEF Plan
  <2> QED BY <1>1, <1>2, <1>3, <1>4, <2>1, <2>2 DEF SetActiveAccountPlan
<1>9. CASE c.op = "fund"
  <2>1. Plan(c, s) = FundPlan
    BY <1>9 DEF Plan
  <2> QED BY <1>1, <2>1 DEF FundPlan
<1>10. CASE c.op = "getBalances"
  <2>1. Plan(c, s) = GetBalancesPlan
    BY <1>10 DEF Plan
  <2> QED BY <1>1, <2>1 DEF GetBalancesPlan
<1>11. CASE c.op = "setNetwork"
  <2>1. "network" \in F
    BY <1>1, <1>11 DEF OwnSteps, Signing
  <2>2. Plan(c, s) = SetNetworkPlan(c, s)
    BY <1>11 DEF Plan
  <2> QED BY <1>1, <1>2, <1>3, <1>4, <2>1, <2>2 DEF SetNetworkPlan
<1>12. CASE c.op = "addToken"
  <2>1. "token" \in F
    BY <1>1, <1>12 DEF OwnSteps, Signing
  <2>2. Plan(c, s) = AddTokenPlan
    BY <1>12 DEF Plan
  <2> QED BY <1>1, <1>2, <1>3, <1>4, <2>1, <2>2 DEF AddTokenPlan
<1>13. CASE c.op \in Signing
  <2>1. "grant" \in F
    BY <1>1, <1>13 DEF OwnSteps, Signing
  <2>2. Selection(c) \in Seq(F) /\ Signature \in Seq(F) /\ Submission(c) \in Seq(F)
    BY <1>1 DEF Selection, Signature, Submission
  <2>3. /\ <<"grant", "unchanged">> \in Seq(F) /\ <<"outward">> \in Seq(F)
        /\ <<"unchanged", "grant", "unchanged">> \in Seq(F)
    BY <1>1, <2>1
  <2>4. Plan(c, s) \in {SignMessagePlan(c), SignTransactionPlan(c), SignAuthEntryPlan(c)}
    BY <1>13 DEF Plan, Signing
  <2>5. SignMessagePlan(c) \in Seq(F)
    BY <1>4, <2>2, <2>3 DEF SignMessagePlan
  <2>6. SignTransactionPlan(c) \in Seq(F)
    BY <1>4, <2>2, <2>3 DEF SignTransactionPlan
  <2>7. SignAuthEntryPlan(c) \in Seq(F)
    BY <1>4, <2>2, <2>3 DEF SignAuthEntryPlan
  <2> QED BY <2>4, <2>5, <2>6, <2>7
<1>14. CASE c.op = "useAccount"
  <2>1. "activate" \in F
    BY <1>1, <1>14 DEF OwnSteps, Signing
  <2>2. Plan(c, s) = UseAccountPlan(c, s)
    BY <1>14 DEF Plan
  <2> QED BY <1>1, <1>2, <1>3, <1>4, <2>1, <2>2 DEF UseAccountPlan
<1>15. CASE c.op = "addAccount"
  <2>1. NextAccountIndex(s) \in Indices => "target" \in F /\ "reveal" \in F
    BY <1>1, <1>15 DEF OwnSteps, Signing
  <2>2. Plan(c, s) = AddAccountPlan(s)
    BY <1>15 DEF Plan
  <2> QED BY <1>2, <1>3, <1>4, <2>1, <2>2 DEF AddAccountPlan
<1>16. CASE c.op = "findAccount"
  <2>1. "target" \in F /\ "revealThrough" \in F
    BY <1>1, <1>16 DEF OwnSteps, Signing
  <2>2. Plan(c, s) = FindAccountPlan(c, s)
    BY <1>16 DEF Plan
  <2> QED BY <1>1, <1>2, <1>3, <1>4, <2>1, <2>2 DEF FindAccountPlan
<1>17. CASE c.op = "home"
  <2>1. "clearNotice" \in F
    BY <1>1, <1>17 DEF OwnSteps, Signing
  <2>2. Plan(c, s) = HomePlan(s)
    BY <1>17 DEF Plan
  <2> QED BY <1>1, <1>2, <1>3, <1>4, <2>1, <2>2 DEF HomePlan
<1>18. CASE c.op \in {"disconnect", "removeToken"}
  BY <1>3, <1>18 DEF Plan
<1>19. c.op \in {"requestAccess", "getAddress", "getAccounts", "setActiveAccount", "fund",
                 "getBalances", "setNetwork", "addToken", "useAccount", "addAccount",
                 "findAccount", "home", "disconnect", "removeToken"} \cup Signing
  BY DEF AllCalls, Signing
<1> QED
  BY <1>5, <1>6, <1>7, <1>8, <1>9, <1>10, <1>11, <1>12,
     <1>13, <1>14, <1>15, <1>16, <1>17, <1>18, <1>19

\* So does the page of a wallet without a binding.
LEMMA DegradedFits ==
    ASSUME NEW c \in AllCalls, c.op = "home", NEW s \in GoodStores
    PROVE  /\ Degraded(s) \in Seq(Fitting(c, s))
           /\ Degraded(s) # << >> => Degraded(s) \in Unbound(c)
<1>1. "clearNotice" \in Fitting(c, s)
  BY DEF Fitting, OwnSteps, Signing
<1> QED BY <1>1 DEF Degraded, Unbound

-----------------------------------------------------------------------------
(***************************************************************************)
(* The steps of the requests.                                              *)
(***************************************************************************)
\* A record a request may have.
Good(q) == q \in RequestRecords /\ (q.outcome = "running" => RequestOK(q))

\* Every step that fits a call is one of the steps modelled.
LEMMA FittingSteps ==
    ASSUME NEW c \in AllCalls, NEW snap
    PROVE  /\ Fitting(c, snap) \subseteq Steps \ {"connected", "bind", "snapshot", "admit",
                                                 "observe", "state"}
           /\ \A step \in Fitting(c, snap) \cap (LockSteps \cup {"target"}) :
                 step \in OwnSteps(c, snap)
<1>1. OwnSteps(c, snap) \subseteq LockSteps \cup {"target"}
  BY DEF OwnSteps, AllCalls, Signing, LockSteps
<1> QED BY <1>1 DEF Fitting, Steps, LockSteps, Observations, Resolutions, Rechecks

\* A request that is over holds nothing, so it is a request record.
LEMMA EndedIsGood ==
    ASSUME NEW outcome \in Outcomes \ {"running"}
    PROVE  Good(Ended(outcome)) /\ Ended(outcome).at = "start"
<1>1. Idle \in RequestRecords /\ Idle.at = "start"
  BY DefaultIsGood DEF Idle, RequestRecords, NoBinding, Bindings, GoodStores, Outcomes
<1> QED BY <1>1 DEF Ended, Good, RequestRecords, Idle

\* A script that may be what a request q has left to run.
Runnable(q, todo) ==
    /\ todo \in Preludes(q.call) \/ todo \in Seq(Fitting(q.call, q.snap))
    /\ todo \in Unbound(q.call) \/ q.bnd.source \in Sources

\* A request that goes on with a fitting script is well formed.
LEMMA ContinuedIsGood ==
    ASSUME NEW q \in RequestRecords, q.call \in Calls, q.snap \in GoodStores,
           NEW todo, todo = << >> \/ Runnable(q, todo)
    PROVE  Good(Continued(q, todo)) /\ Continued(q, todo).at = "start"
<1>1. CASE todo = << >>
  BY <1>1, EndedIsGood DEF Continued, Outcomes
<1>2. CASE todo # << >>
  <2> DEFINE p == [q EXCEPT !.todo = todo, !.at = "start", !.seen = None, !.ticket = 0,
                            !.miss = {}, !.outcome = "running"]
  <2>1. q.call \in AllCalls
    BY BindingAssumption
  <2>2. todo \in Seq(Steps)
    BY <1>2, <2>1, PreludeTails, FittingSteps DEF Runnable
  <2>3. p \in RequestRecords /\ p.at = "start" /\ p.todo = todo /\ p.call = q.call
        /\ p.snap = q.snap /\ p.bnd = q.bnd
    BY <2>2 DEF RequestRecords, Outcomes
  <2>4. RequestOK(p)
    BY <1>2, <2>3 DEF RequestOK, Runnable
  <2> QED BY <1>2, <2>3, <2>4 DEF Continued, Good
<1> QED BY <1>1, <1>2

\* What is left of a script after its first step may be run, once the request
\* is bound by the steps that bind it.
LEMMA AdvancedIsGood ==
    ASSUME NEW q \in RequestRecords, q.call \in Calls, q.snap \in GoodStores,
           q.todo # << >>, Runnable(q, q.todo),
           q.bnd.source \in Sources \/ Head(q.todo) \notin {"bind", "observe"}
    PROVE  Good(Advanced(q)) /\ Advanced(q).at = "start"
<1>1. q.call \in AllCalls
  BY BindingAssumption
<1>2. Tail(q.todo) \in Preludes(q.call) \cup {<< >>} \cup Seq(Fitting(q.call, q.snap))
  <2>1. CASE q.todo \in Preludes(q.call)
    BY <1>1, <2>1, PreludeTails
  <2>2. CASE q.todo \in Seq(Fitting(q.call, q.snap))
    BY <2>2, HeadTailProperties
  <2> QED BY <2>1, <2>2 DEF Runnable
<1>3. Tail(q.todo) \in Unbound(q.call) \cup {<< >>} \/ q.bnd.source \in Sources
  BY <1>1, UnboundHeads DEF Runnable
<1>4. Tail(q.todo) = << >> \/ Runnable(q, Tail(q.todo))
  BY <1>2, <1>3 DEF Runnable
<1> QED BY <1>4, ContinuedIsGood DEF Advanced

\* However a refusal is taken (an error, a degraded home page, a grant that
\* was not recorded), the request it leaves behind is well formed.
LEMMA RefusedIsGood ==
    ASSUME NEW q, Good(q), q.outcome = "running"
    PROVE  Good(Refused(q)) /\ Refused(q).at = "start"
<1>1. /\ q \in RequestRecords /\ q.call \in Calls /\ q.snap \in GoodStores
      /\ q.todo # << >> /\ Runnable(q, q.todo) /\ q.call \in AllCalls
  BY BindingAssumption DEF Good, RequestOK, Runnable
<1>2. CASE q.call.op = "home" /\ Head(q.todo) \in {"bind", "snapshot", "active", "admit"}
  <2>1. Runnable(q, <<"state">>)
    BY <1>2 DEF Runnable, Preludes, Unbound
  <2>2. Refused(q) = Continued(q, <<"state">>)
    BY <1>2 DEF Refused
  <2> QED BY <1>1, <2>1, <2>2, ContinuedIsGood
<1>3. CASE /\ ~(q.call.op = "home" /\ Head(q.todo) \in {"bind", "snapshot", "active", "admit"})
           /\ q.call.op = "home" \/ Head(q.todo) \in {"grant", "settled"}
  <2>1. Head(q.todo) \in {"bind", "observe"} => q.bnd.source \in Sources
    <3> SUFFICES ASSUME q.todo \in Unbound(q.call), Head(q.todo) \in {"bind", "observe"}
                 PROVE  FALSE
      BY <1>1 DEF Runnable
    <3>1. q.call.op = "home" /\ Head(q.todo) = "observe"
      BY <1>3
    <3>2. q.todo \in {Ensure, <<"state">>, <<"clearNotice">>}
      BY <3>1, OpeningShape DEF Unbound
    <3>3. Head(Ensure) = "bind"
      BY DEF Ensure
    <3> QED BY <3>1, <3>2, <3>3
  <2>2. Good(Advanced(q)) /\ Advanced(q).at = "start"
    BY <1>1, <2>1, AdvancedIsGood
  <2> QED BY <1>3, <2>2 DEF Refused
<1>4. CASE /\ ~(q.call.op = "home" /\ Head(q.todo) \in {"bind", "snapshot", "active", "admit"})
           /\ ~(q.call.op = "home" \/ Head(q.todo) \in {"grant", "settled"})
  BY <1>4, EndedIsGood DEF Refused, Outcomes
<1> QED BY <1>2, <1>3, <1>4

\* Where the request of a step stands in its script.
LEMMA StepShape ==
    ASSUME NEW q, Good(q), q.outcome = "running"
    PROVE  /\ q \in RequestRecords /\ q.call \in Calls /\ q.call \in AllCalls
           /\ q.snap \in GoodStores /\ q.todo # << >> /\ Runnable(q, q.todo)
           /\ Head(q.todo) \in LockSteps \cup {"target"} =>
                 Head(q.todo) \in OwnSteps(q.call, q.snap)
           /\ Head(q.todo) \in {"admit", "snapshot", "state", "bind", "observe"} =>
                 q.todo \in Preludes(q.call)
           /\ \/ q.bnd.source \in Sources
              \/ Head(q.todo) \in {"connected", "bind", "observe", "disconnect", "untoken",
                                   "state", "clearNotice"}
<1>1. /\ q \in RequestRecords /\ q.call \in Calls /\ q.snap \in GoodStores
      /\ q.todo # << >> /\ Runnable(q, q.todo) /\ q.call \in AllCalls
  BY BindingAssumption DEF Good, RequestOK, Runnable
<1>2. CASE q.todo \in Preludes(q.call)
  <2>1. Head(q.todo) # "target"
    BY <1>1, <1>2, PreludeTails, OpeningShape DEF Preludes, Ensure, Guarded
  <2> QED BY <1>1, <1>2, <2>1, PreludeTails, UnboundHeads DEF Runnable
<1>3. CASE q.todo \in Seq(Fitting(q.call, q.snap))
  <2>1. Head(q.todo) \in Fitting(q.call, q.snap)
    BY <1>1, <1>3, HeadTailProperties
  <2> QED BY <1>1, <2>1, FittingSteps, UnboundHeads DEF Runnable
<1> QED BY <1>1, <1>2, <1>3 DEF Runnable

-----------------------------------------------------------------------------
(***************************************************************************)
(* The queue and the requests.                                             *)
(***************************************************************************)

RequestsGood == \A r \in Requests : Good(req[r])

\* RequestInv, with the records' types and their meaning side by side.
LEMMA InvParts ==
    RequestInv <=> /\ primary \in Sources /\ store \in GoodStores
                   /\ ContextTypeOK /\ mutationQueue \in Seq(Jobs)
                   /\ req = [r \in Requests |-> req[r]] /\ RequestsGood
                   /\ lock \in Locks /\ lock.was \in GoodStores /\ lock.new \in GoodStores
                   /\ consent \in [Origins -> Phrases \cup {None}]
                   /\ EnvironmentTypeOK /\ QueueOK
BY DEF RequestInv, TypeOK, RequestsGood, Good, Running, GoodStores

\* Nothing of the queue concerns a request that is not waiting in it: such a
\* request may move, and reconciliations may join the queue.
LEMMA QueueKept ==
    ASSUME req = [r \in Requests |-> req[r]], mutationQueue \in Seq(Jobs), QueueOK,
           NEW r \in Requests, ~At(r, "queued"), NEW q, Becomes(r, q),
           \A i \in 1 .. Len(mutationQueue') :
              mutationQueue'[i].kind = "request" =>
                 i \in 1 .. Len(mutationQueue) /\ mutationQueue'[i] = mutationQueue[i]
    PROVE  QueueOK'
<1> SUFFICES ASSUME NEW i \in 1 .. Len(mutationQueue'), mutationQueue'[i].kind = "request"
             PROVE  /\ At(mutationQueue[i].by, "queued")'
                    /\ \A j \in 1 .. Len(mutationQueue') :
                          mutationQueue'[j] = mutationQueue'[i] => j = i
  BY DEF QueueOK
<1>1. i \in 1 .. Len(mutationQueue) /\ mutationQueue'[i] = mutationQueue[i]
  OBVIOUS
<1>2. mutationQueue[i].kind = "request" /\ At(mutationQueue[i].by, "queued")
  BY <1>1 DEF QueueOK
<1>3. mutationQueue[i].by \in Requests /\ mutationQueue[i].by # r
  <2>1. mutationQueue[i] \in Jobs
    BY <1>1, ElementOfSeq
  <2> QED BY <1>2, <2>1 DEF Jobs
<1>4. At(mutationQueue[i].by, "queued")'
  BY <1>1, <1>2, <1>3 DEF At, Running, Becomes
<1>5. ASSUME NEW j \in 1 .. Len(mutationQueue'), mutationQueue'[j] = mutationQueue'[i]
      PROVE  j = i
  <2>1. mutationQueue'[j].kind = "request"
    BY <1>5
  <2>2. j \in 1 .. Len(mutationQueue) /\ mutationQueue'[j] = mutationQueue[j]
    BY <2>1
  <2> QED BY <1>1, <1>2, <1>5, <2>2 DEF QueueOK
<1> QED BY <1>4, <1>5

\* A step of one request that touches neither the store nor the lock.
LEMMA RequestMoves ==
    ASSUME RequestInv, NEW r \in Requests, ~At(r, "queued"),
           NEW q, Good(q), Becomes(r, q),
           ContextTypeOK', mutationQueue' \in Seq(Jobs),
           \A i \in 1 .. Len(mutationQueue') :
              mutationQueue'[i].kind = "request" =>
                 i \in 1 .. Len(mutationQueue) /\ mutationQueue'[i] = mutationQueue[i],
           UNCHANGED <<primary, store, lock, consent, environment>>
    PROVE  RequestInv'
<1>1. QueueOK'
  BY QueueKept, InvParts
<1>2. req' = [p \in Requests |-> req'[p]] /\ RequestsGood'
  <2>1. req' = [req EXCEPT ![r] = q] /\ req = [p \in Requests |-> req[p]] /\ RequestsGood
    BY InvParts DEF Becomes
  <2> QED BY <2>1 DEF RequestsGood, Good, RequestOK
<1>3. EnvironmentTypeOK'
  BY InvParts DEF EnvironmentTypeOK, environment
<1>4. store' \in Stores /\ GapFree(store')
      /\ lock'.was \in Stores /\ GapFree(lock'.was) /\ lock'.new \in Stores /\ GapFree(lock'.new)
  BY InvParts DEF GoodStores
<1>5. /\ primary' \in Sources /\ lock' \in Locks
      /\ consent' \in [Origins -> Phrases \cup {None}]
  BY InvParts
<1> QED
  BY <1>1, <1>2, <1>3, <1>4, <1>5 DEF RequestInv, TypeOK, RequestsGood, Good, Running, GoodStores

\* The same when the context and the queue stay as they are.
LEMMA RequestAdvances ==
    ASSUME RequestInv, NEW r \in Requests, ~At(r, "queued"),
           NEW q, Good(q), Becomes(r, q),
           ContextTypeOK', UNCHANGED mutationQueue,
           UNCHANGED <<primary, store, lock, consent, environment>>
    PROVE  RequestInv'
BY RequestMoves, InvParts

\* What is known of a running request before it takes a step.
LEMMA Started ==
    ASSUME RequestInv, NEW r \in Requests, NEW at \in {"start", "fetch", "confirm", "await"},
           At(r, at)
    PROVE  /\ Good(req[r]) /\ req[r].outcome = "running" /\ ~At(r, "queued")
           /\ req[r].at = at /\ RequestOK(req[r])
           /\ ContextTypeOK /\ primary \in Sources /\ store \in GoodStores
           /\ mutationQueue \in Seq(Jobs)
BY InvParts DEF At, Running, RequestsGood, Good

\* Refusing a request, or moving it to the next step of its script.
LEMMA RefuseStep ==
    ASSUME RequestInv, NEW r \in Requests, NEW at \in {"start", "fetch", "confirm", "await"},
           At(r, at), RefuseReq(r), ContextTypeOK', UNCHANGED mutationQueue,
           UNCHANGED <<primary, store, lock, consent, environment>>
    PROVE  RequestInv'
<1>1. Good(Refused(req[r])) /\ ~At(r, "queued")
  BY Started, RefusedIsGood
<1> QED BY <1>1, RequestAdvances DEF RefuseReq

\* The same of moving on; only a binding may be owed by what follows.
LEMMA AdvanceStep ==
    ASSUME RequestInv, NEW r \in Requests, NEW at \in {"start", "fetch", "confirm", "await"},
           At(r, at), Step(r) \notin {"bind", "observe"}, Advance(r),
           ContextTypeOK', UNCHANGED mutationQueue,
           UNCHANGED <<primary, store, lock, consent, environment>>
    PROVE  RequestInv'
<1>1. Good(req[r]) /\ req[r].outcome = "running" /\ ~At(r, "queued")
  BY Started
<1>2. Good(Advanced(req[r]))
  BY <1>1, StepShape, AdvancedIsGood DEF Step
<1> QED BY <1>1, <1>2, RequestAdvances DEF Advance

\* A call arrives and opens its script.
LEMMA StartSafe ==
    ASSUME RequestInv, NEW r \in Requests, NEW c \in Calls, Start(r, c),
           UNCHANGED <<lock, consent, environment>>
    PROVE  RequestInv'
<1> DEFINE q == [Idle EXCEPT !.call = c]
<1>1. Idle \in RequestRecords
  BY DefaultIsGood DEF Idle, RequestRecords, NoBinding, Bindings, GoodStores, Outcomes
<1>2. q \in RequestRecords /\ q.call = c /\ q.snap \in GoodStores
  BY <1>1, DefaultIsGood DEF RequestRecords, Idle
<1>3. Runnable(q, Opening(c))
  BY <1>2 DEF Runnable, Preludes, Unbound
<1>4. Good(Continued(q, Opening(c)))
  BY <1>2, <1>3, ContinuedIsGood
<1>5. ContextTypeOK'
  BY InvParts DEF Start, ContextTypeOK, context
<1>6. ~At(r, "queued")
  BY DEF Start, At, Running
<1> QED BY <1>4, <1>5, <1>6, RequestAdvances DEF Start

\* The primary source is named.
LEMMA ReadSourceSafe ==
    ASSUME RequestInv, NEW r \in Requests, ReadSource(r), UNCHANGED <<lock, consent, environment>>
    PROVE  RequestInv'
<1> DEFINE q == [req[r] EXCEPT !.at = "confirm", !.seen = primary]
<1>1. PICK at \in {"start", "fetch"} : At(r, at)
  BY DEF ReadSource
<1>2. /\ Good(req[r]) /\ req[r].outcome = "running" /\ ~At(r, "queued")
      /\ RequestOK(req[r]) /\ primary \in Sources
  BY <1>1, Started
<1>3. Step(r) \notin LockSteps
  BY <1>2 DEF ReadSource, RequestOK, Step, At, Observations, Resolutions, Rechecks, LockSteps
<1>4. Good(q)
  BY <1>2, <1>3 DEF Good, RequestRecords, RequestOK, Step
<1>5. ContextTypeOK'
  BY InvParts DEF ReadSource, ContextTypeOK, context
<1> QED BY <1>2, <1>4, <1>5, RequestAdvances DEF ReadSource

\* Binding an observed fingerprint queues nothing but a reconciliation.
LEMMA BindFingerprintTypes ==
    ASSUME ContextTypeOK, mutationQueue \in Seq(Jobs), NEW fp \in Phrases, BindFingerprint(fp)
    PROVE  /\ ContextTypeOK' /\ mutationQueue' \in Seq(Jobs)
           /\ \A i \in 1 .. Len(mutationQueue') :
                 mutationQueue'[i].kind = "request" =>
                    i \in 1 .. Len(mutationQueue) /\ mutationQueue'[i] = mutationQueue[i]
<1> DEFINE job == [kind |-> "reconcile", ticket |-> tickets + 1, fp |-> fp]
<1>1. job \in Jobs
  BY DEF Jobs, ContextTypeOK
<1>2. ContextTypeOK'
  <2>1. EmptyCache \in [Indices -> Phrases \cup {None}]
    BY DEF EmptyCache
  <2>2. contextFingerprint' \in Phrases \cup {None}
    BY DEF BindFingerprint
  <2>3. contextGeneration' \in Nat /\ addressCache' \in [Indices -> Phrases \cup {None}]
    BY <2>1 DEF BindFingerprint, ContextTypeOK
  <2>4. /\ reconciledFingerprint' \in Phrases \cup {None}
        /\ reconciliationTicket' \in Nat /\ tickets' \in Nat
        /\ bindingVerified' \in BOOLEAN
    <3>1. CASE UNCHANGED latch
      <4>1. /\ reconciledFingerprint' = reconciledFingerprint
            /\ reconciliationTicket' = reconciliationTicket
            /\ tickets' = tickets /\ bindingVerified' = bindingVerified
        BY <3>1, Zenon DEF latch
      <4> QED BY <4>1, Zenon DEF ContextTypeOK
    <3>2. CASE /\ tickets' = tickets + 1 /\ reconciledFingerprint' = fp
               /\ reconciliationTicket' = tickets + 1 /\ bindingVerified' = FALSE
      <4>1. tickets + 1 \in Nat
        BY DEF ContextTypeOK
      <4> QED BY <3>2, <4>1, Zenon
    <3> QED BY <3>1, <3>2 DEF BindFingerprint
  <2> QED BY <2>2, <2>3, <2>4 DEF ContextTypeOK
<1>3. CASE UNCHANGED mutationQueue
  BY <1>2, <1>3
<1>4. CASE mutationQueue' = Append(mutationQueue, job)
  <2>1. /\ mutationQueue' \in Seq(Jobs)
        /\ Len(mutationQueue') = Len(mutationQueue) + 1
        /\ \A i \in 1 .. Len(mutationQueue) : mutationQueue'[i] = mutationQueue[i]
        /\ mutationQueue'[Len(mutationQueue) + 1] = job
    BY <1>1, <1>4, AppendProperties
  <2>2. ASSUME NEW i \in 1 .. Len(mutationQueue'), mutationQueue'[i].kind = "request"
        PROVE  i \in 1 .. Len(mutationQueue)
    <3>1. i # Len(mutationQueue) + 1
      BY <2>1, <2>2
    <3>2. Len(mutationQueue) \in Nat
      BY LenProperties
    <3> QED BY <2>1, <3>1, <3>2
  <2> QED BY <1>2, <2>1, <2>2
<1> QED BY <1>3, <1>4 DEF BindFingerprint

\* What a completed observation saw is a binding.
LEMMA SeenIsBinding ==
    ASSUME RequestInv, NEW r \in Requests, At(r, "await")
    PROVE  Seen(r) \in Bindings /\ Seen(r).source \in Sources
<1>1. req[r].seen \in Sources
  BY Started DEF RequestOK
<1> QED BY <1>1, Started, BindingAssumption DEF Seen, Bindings, ContextTypeOK

\* The primary source is named again, and the context bound to its phrase.
LEMMA ConfirmSourceSafe ==
    ASSUME RequestInv, NEW r \in Requests, ConfirmSource(r),
           UNCHANGED <<lock, consent, environment>>
    PROVE  RequestInv'
<1>1. At(r, "confirm")
  BY DEF ConfirmSource
<1>2. /\ Good(req[r]) /\ req[r].outcome = "running" /\ ~At(r, "queued")
      /\ req[r].at = "confirm" /\ RequestOK(req[r])
      /\ ContextTypeOK /\ primary \in Sources /\ mutationQueue \in Seq(Jobs)
  BY <1>1, Started
<1>3. CASE primary # req[r].seen
  <2>1. ContextTypeOK'
    BY <1>2, <1>3 DEF ConfirmSource, ContextTypeOK, context
  <2> QED BY <1>1, <1>3, <2>1, RefuseStep DEF ConfirmSource
<1>4. CASE primary = req[r].seen
  <2> DEFINE q == [req[r] EXCEPT !.at = "await", !.ticket = reconciliationTicket']
  <2>1. PhraseOf[primary] \in Phrases
    BY <1>2, BindingAssumption
  <2>2. BindFingerprint(PhraseOf[primary]) /\ Becomes(r, q)
    BY <1>4 DEF ConfirmSource
  <2>3. /\ ContextTypeOK' /\ mutationQueue' \in Seq(Jobs)
        /\ \A i \in 1 .. Len(mutationQueue') :
              mutationQueue'[i].kind = "request" =>
                 i \in 1 .. Len(mutationQueue) /\ mutationQueue'[i] = mutationQueue[i]
    BY <1>2, <2>1, <2>2, BindFingerprintTypes
  <2>4. reconciliationTicket' \in Nat
    BY <2>3 DEF ContextTypeOK
  <2>5. Good(q)
    BY <1>2, <2>4 DEF Good, RequestRecords, RequestOK
  <2> HIDE DEF q
  <2> QED BY <1>2, <2>2, <2>3, <2>5, RequestMoves DEF ConfirmSource
<1> QED BY <1>3, <1>4

\* A signing key's node arrives, and binds the context as it does.
LEMMA ImportNodeSafe ==
    ASSUME RequestInv, NEW r \in Requests, ImportNode(r),
           UNCHANGED <<lock, consent, environment>>
    PROVE  RequestInv'
<1> DEFINE bnd == req[r].bnd
           stale == \/ PhraseOf[bnd.source] # bnd.fp
                    \/ primary # bnd.source
                    \/ contextGeneration # bnd.gen
<1>1. At(r, "start") /\ Step(r) = "import"
  BY DEF ImportNode
<1>2. /\ Good(req[r]) /\ req[r].outcome = "running" /\ ~At(r, "queued")
      /\ req[r].at = "start" /\ RequestOK(req[r])
      /\ ContextTypeOK /\ primary \in Sources /\ mutationQueue \in Seq(Jobs)
  BY <1>1, Started
<1>3. CASE stale
  <2>1. RefuseReq(r) /\ UNCHANGED <<context, mutationQueue, primary, store>>
    BY <1>3 DEF ImportNode
  <2>2. ContextTypeOK'
    BY <1>2, <2>1 DEF ContextTypeOK, context
  <2> QED BY <1>1, <2>1, <2>2, RefuseStep
<1>4. CASE ~stale
  <2> DEFINE q == [req[r] EXCEPT !.at = "await", !.seen = bnd.source,
                                 !.ticket = reconciliationTicket']
  <2>1. bnd.source \in Sources
    BY <1>1, <1>2, StepShape DEF Step
  <2>2. bnd.fp \in Phrases
    BY <1>4, <2>1, BindingAssumption
  <2>3. BindFingerprint(bnd.fp) /\ Becomes(r, q) /\ UNCHANGED <<primary, store>>
    BY <1>4 DEF ImportNode
  <2>4. /\ ContextTypeOK' /\ mutationQueue' \in Seq(Jobs)
        /\ \A i \in 1 .. Len(mutationQueue') :
              mutationQueue'[i].kind = "request" =>
                 i \in 1 .. Len(mutationQueue) /\ mutationQueue'[i] = mutationQueue[i]
    BY <1>2, <2>2, <2>3, BindFingerprintTypes
  <2>5. reconciliationTicket' \in Nat
    BY <2>4 DEF ContextTypeOK
  <2>6. Good(q)
    BY <1>1, <1>2, <2>1, <2>5 DEF Good, RequestRecords, RequestOK, Step, LockSteps
  <2> HIDE DEF q
  <2> QED BY <1>2, <2>3, <2>4, <2>6, RequestMoves
<1> QED BY <1>3, <1>4

\* An observation that finds another phrase or tenure refuses its request.
LEMMA ObservationRefusedSafe ==
    ASSUME RequestInv, NEW r \in Requests, ObservationRefused(r),
           UNCHANGED <<lock, consent, environment>>
    PROVE  RequestInv'
<1>1. At(r, "await")
  BY DEF ObservationRefused, Observed
<1>2. ContextTypeOK'
  BY <1>1, Started DEF ObservationRefused, ContextTypeOK, context
<1> QED BY <1>1, <1>2, RefuseStep DEF ObservationRefused

\* A request keeps the binding it observed.
LEMMA BindRequestSafe ==
    ASSUME RequestInv, NEW r \in Requests, BindRequest(r),
           UNCHANGED <<lock, consent, environment>>
    PROVE  RequestInv'
<1> DEFINE q == [req[r] EXCEPT !.bnd = Seen(r)]
<1>1. At(r, "await")
  BY DEF BindRequest, Observed
<1>2. Good(req[r]) /\ req[r].outcome = "running" /\ ~At(r, "queued")
  BY <1>1, Started
<1>3. Seen(r) \in Bindings /\ Seen(r).source \in Sources
  BY <1>1, SeenIsBinding
<1>4. /\ q \in RequestRecords /\ q.call \in Calls /\ q.snap \in GoodStores
      /\ q.todo # << >> /\ Runnable(q, q.todo) /\ q.bnd.source \in Sources
  BY <1>2, <1>3 DEF Good, RequestRecords, RequestOK, Runnable
<1>5. Good(Advanced(q))
  BY <1>4, AdvancedIsGood
<1>6. ContextTypeOK'
  BY <1>1, Started DEF BindRequest, ContextTypeOK, context
<1> QED BY <1>2, <1>5, <1>6, RequestAdvances DEF BindRequest

\* An observation agrees with the binding of the request.
LEMMA PhraseUnchangedSafe ==
    ASSUME RequestInv, NEW r \in Requests, PhraseUnchanged(r),
           UNCHANGED <<lock, consent, environment>>
    PROVE  RequestInv'
<1>1. At(r, "await") /\ Step(r) \in {"match", "unchanged"}
  BY DEF PhraseUnchanged, Observed
<1>2. ContextTypeOK'
  BY <1>1, Started DEF PhraseUnchanged, ContextTypeOK, context
<1> QED BY <1>1, <1>2, AdvanceStep DEF PhraseUnchanged

\* A site that is not connected is refused, or answered with an empty address.
LEMMA CheckConnectedSafe ==
    ASSUME RequestInv, NEW r \in Requests, CheckConnected(r),
           UNCHANGED <<lock, consent, environment>>
    PROVE  RequestInv'
<1>1. At(r, "start") /\ Step(r) = "connected"
  BY DEF CheckConnected
<1>2. /\ Good(req[r]) /\ req[r].outcome = "running" /\ ~At(r, "queued")
      /\ req[r] \in RequestRecords /\ req[r].call \in Calls /\ req[r].snap \in GoodStores
  BY <1>1, Started, StepShape
<1>3. ContextTypeOK'
  BY <1>1, Started DEF CheckConnected, ContextTypeOK, context
<1>4. CASE Advance(r)
  BY <1>1, <1>3, <1>4, AdvanceStep DEF CheckConnected
<1>5. CASE Becomes(r, Continued(req[r], << >>))
  <2>1. Good(Continued(req[r], << >>))
    BY <1>2, ContinuedIsGood
  <2> QED BY <1>2, <1>3, <1>5, <2>1, RequestAdvances DEF CheckConnected
<1>6. CASE RefuseReq(r)
  BY <1>1, <1>3, <1>6, RefuseStep DEF CheckConnected
<1> QED BY <1>4, <1>5, <1>6 DEF CheckConnected

\* A request takes its snapshot of the store.
LEMMA TakeSnapshotSafe ==
    ASSUME RequestInv, NEW r \in Requests, TakeSnapshot(r),
           UNCHANGED <<lock, consent, environment>>
    PROVE  RequestInv'
<1> DEFINE q == [req[r] EXCEPT !.snap = store]
<1>1. At(r, "start") /\ Step(r) = "snapshot"
  BY DEF TakeSnapshot
<1>2. /\ Good(req[r]) /\ req[r].outcome = "running" /\ ~At(r, "queued")
      /\ store \in GoodStores
  BY <1>1, Started
<1>3. ContextTypeOK'
  BY <1>1, Started DEF TakeSnapshot, ContextTypeOK, context
<1>4. CASE RefuseReq(r)
  BY <1>1, <1>3, <1>4, RefuseStep DEF TakeSnapshot
<1>5. CASE Becomes(r, Advanced(q))
  <2>1. req[r].todo \in Preludes(req[r].call) /\ req[r].bnd.source \in Sources
    BY <1>1, <1>2, StepShape DEF Step
  <2>2. /\ q \in RequestRecords /\ q.call \in Calls /\ q.snap \in GoodStores
        /\ q.todo # << >> /\ q.todo \in Preludes(q.call) /\ q.bnd.source \in Sources
    BY <1>2, <2>1 DEF Good, RequestRecords, RequestOK, GoodStores
  <2>3. Good(Advanced(q))
    BY <2>2, AdvancedIsGood DEF Runnable
  <2> QED BY <1>2, <1>3, <1>5, <2>3, RequestAdvances DEF TakeSnapshot
<1> QED BY <1>4, <1>5 DEF TakeSnapshot

\* The guards of the handler admit the request to its plan.
LEMMA AdmitSafe ==
    ASSUME RequestInv, NEW r \in Requests, Admit(r),
           UNCHANGED <<lock, consent, environment>>
    PROVE  RequestInv'
<1>1. At(r, "start") /\ Step(r) = "admit"
  BY DEF Admit
<1>2. /\ Good(req[r]) /\ req[r].outcome = "running" /\ ~At(r, "queued")
  BY <1>1, Started
<1>3. ContextTypeOK'
  BY <1>1, Started DEF Admit, ContextTypeOK, context
<1>4. CASE RefuseReq(r)
  BY <1>1, <1>3, <1>4, RefuseStep DEF Admit
<1>5. CASE Becomes(r, Continued(req[r], Plan(req[r].call, req[r].snap)))
  <2>1. /\ req[r] \in RequestRecords /\ req[r].call \in AllCalls /\ req[r].call \in Calls
        /\ req[r].snap \in GoodStores /\ req[r].bnd.source \in Sources
    BY <1>1, <1>2, StepShape DEF Step
  <2>2. Runnable(req[r], Plan(req[r].call, req[r].snap))
    BY <2>1, PlanFits DEF Runnable
  <2>3. Good(Continued(req[r], Plan(req[r].call, req[r].snap)))
    BY <2>1, <2>2, ContinuedIsGood
  <2> QED BY <1>2, <1>3, <1>5, <2>3, RequestAdvances DEF Admit
<1> QED BY <1>4, <1>5 DEF Admit

\* A request without a binding of its own reads the store.
LEMMA ReadStateSafe ==
    ASSUME RequestInv, NEW r \in Requests, ReadState(r),
           UNCHANGED <<lock, consent, environment>>
    PROVE  RequestInv'
<1> DEFINE q == [req[r] EXCEPT !.snap = store]
           todo == IF q.call.op = "home" THEN Degraded(store) ELSE Plan(q.call, store)
<1>1. At(r, "start") /\ Step(r) = "state"
  BY DEF ReadState
<1>2. /\ Good(req[r]) /\ req[r].outcome = "running" /\ ~At(r, "queued")
      /\ store \in GoodStores /\ store \in Stores
  BY <1>1, Started DEF GoodStores
<1>3. /\ req[r] \in RequestRecords /\ req[r].call \in Calls /\ req[r].call \in AllCalls
      /\ Runnable(req[r], req[r].todo)
  BY <1>2, StepShape
<1>4. q \in RequestRecords /\ q.call = req[r].call /\ q.snap = store /\ q.bnd = req[r].bnd
  BY <1>2, <1>3 DEF RequestRecords
<1>5. ASSUME q.call.op = "home" PROVE todo = << >> \/ Runnable(q, todo)
  <2>1. todo = << >> \/ Runnable(q, todo)
    BY <1>2, <1>3, <1>4, <1>5, DegradedFits DEF Runnable
  <2> QED BY <2>1
<1>6. ASSUME q.call.op # "home" PROVE todo = << >> \/ Runnable(q, todo)
  <2>1. req[r].bnd.source \in Sources
    <3> SUFFICES ASSUME req[r].todo \in Unbound(req[r].call) PROVE FALSE
      BY <1>3 DEF Runnable
    <3>1. req[r].todo \in {Guarded, Ensure, <<"observe", "state">>, <<"disconnect">>, <<"untoken">>}
      BY <1>3, <1>4, <1>6, OpeningShape DEF Unbound
    <3>2. Head(req[r].todo) # "state"
      BY <3>1 DEF Guarded, Ensure
    <3> QED BY <1>1, <3>2 DEF Step
  <2>2. todo = << >> \/ Runnable(q, todo)
    BY <1>2, <1>3, <1>4, <1>6, <2>1, PlanFits DEF Runnable
  <2> QED BY <2>2
<1>7. ContextTypeOK'
  BY <1>1, Started DEF ReadState, ContextTypeOK, context
<1>8. Becomes(r, Continued(q, todo)) /\ UNCHANGED <<mutationQueue, primary, store>>
  BY DEF ReadState
<1>9. todo = << >> \/ Runnable(q, todo)
  BY <1>5, <1>6
<1> HIDE DEF q, todo
<1>10. Good(Continued(q, todo))
  BY <1>2, <1>3, <1>4, <1>9, ContinuedIsGood
<1> QED BY <1>2, <1>7, <1>8, <1>10, RequestAdvances

\* Only accounts the snap may reveal are ever resolved.
LEMMA WantsIndices ==
    ASSUME NEW r \in Requests, Good(req[r]), req[r].outcome = "running",
           Step(r) \in Resolutions
    PROVE  Wants(r) \subseteq Indices
<1>1. /\ req[r].call \in AllCalls /\ req[r].snap \in Stores
      /\ Step(r) = "target" => "target" \in OwnSteps(req[r].call, req[r].snap)
  BY StepShape DEF Step, GoodStores
<1>2. CASE Step(r) = "active"
  BY <1>1, <1>2 DEF Wants, Wanted, Stores
<1>3. CASE Step(r) = "owned"
  BY <1>1, <1>3 DEF Wants, Wanted, Stores
<1>4. CASE Step(r) = "target"
  <2>1. \/ /\ req[r].call.op = "addAccount"
           /\ NextAccountIndex(req[r].snap) \in Indices
        \/ req[r].call.op # "addAccount" /\ req[r].call.arg \in Indices
    BY <1>1, <1>4 DEF OwnSteps, AllCalls, Signing
  <2> QED BY <1>4, <2>1 DEF Wants, Wanted
<1> QED BY <1>2, <1>3, <1>4 DEF Resolutions

\* Reading addresses from the memo leaves the request well formed.
LEMMA ResolvedIsGood ==
    ASSUME NEW q, Good(q), q.outcome = "running", Head(q.todo) \notin {"bind", "observe"},
           NEW want \in SUBSET Indices, NEW cache \in [Indices -> Phrases \cup {None}]
    PROVE  Good(Resolved(q, want, cache))
<1> DEFINE found == {[phrase |-> cache[i], index |-> i] : i \in want}
           p == [q EXCEPT !.addr = {a.phrase : a \in found}]
<1>1. Good(Refused(q))
  BY RefusedIsGood
<1>2. ASSUME ~(\E i \in want : cache[i] = None)
      PROVE  Good(Advanced(p))
  <2>1. {a.phrase : a \in found} \subseteq Phrases
    BY <1>2
  <2> HIDE DEF found
  <2>2. /\ q \in RequestRecords /\ q.call \in Calls /\ q.snap \in GoodStores
        /\ q.todo # << >> /\ Runnable(q, q.todo)
        /\ \/ q.bnd.source \in Sources \/ Head(q.todo) \notin {"bind", "observe"}
    BY StepShape
  <2>3. /\ p \in RequestRecords /\ p.call = q.call /\ p.snap = q.snap
        /\ p.todo = q.todo /\ p.bnd = q.bnd
    BY <2>1, <2>2 DEF RequestRecords
  <2>4. Runnable(p, p.todo)
    BY <2>2, <2>3 DEF Runnable
  <2> QED BY <2>2, <2>3, <2>4, AdvancedIsGood
<1> QED BY <1>1, <1>2 DEF Resolved

\* Addresses are read from the memo, or their keys are to be fetched.
LEMMA ResolveSafe ==
    ASSUME RequestInv, NEW r \in Requests, Resolve(r),
           UNCHANGED <<lock, consent, environment>>
    PROVE  RequestInv'
<1>1. At(r, "start") /\ Step(r) \in Resolutions
  BY DEF Resolve
<1>2. /\ Good(req[r]) /\ req[r].outcome = "running" /\ ~At(r, "queued")
      /\ RequestOK(req[r]) /\ ContextTypeOK
  BY <1>1, Started
<1>3. Wants(r) \in SUBSET Indices
  BY <1>1, <1>2, WantsIndices
<1>4. Good(Resolved(req[r], Wants(r), addressCache))
  BY <1>1, <1>2, <1>3, ResolvedIsGood DEF ContextTypeOK, Step, Resolutions
<1>5. Good([req[r] EXCEPT !.at = "fetch", !.miss = Missing(r)])
  <2>1. Missing(r) \in SUBSET Indices
    BY <1>3 DEF Missing
  <2> QED BY <1>1, <1>2, <2>1 DEF Good, RequestRecords, RequestOK, Step, Resolutions, LockSteps
<1>6. ContextTypeOK'
  BY <1>2 DEF Resolve, ContextTypeOK, context
<1> QED BY <1>2, <1>4, <1>5, <1>6, RequestAdvances DEF Resolve

\* Fetched addresses enter the memo.
LEMMA MemoizeSafe ==
    ASSUME RequestInv, NEW r \in Requests, Memoize(r),
           UNCHANGED <<lock, consent, environment>>
    PROVE  RequestInv'
<1>1. At(r, "await") /\ Step(r) \in Resolutions
  BY DEF Memoize, Observed
<1>2. /\ Good(req[r]) /\ req[r].outcome = "running" /\ ~At(r, "queued")
      /\ ContextTypeOK
  BY <1>1, Started
<1>3. PhraseOf[req[r].bnd.source] \in Phrases
  BY <1>1, <1>2, StepShape, BindingAssumption DEF Step, Resolutions
<1>4. addressCache' \in [Indices -> Phrases \cup {None}]
  BY <1>2, <1>3 DEF Memoize, ContextTypeOK
<1>5. Wants(r) \in SUBSET Indices
  BY <1>1, <1>2, WantsIndices
<1>6. Good(Resolved(req[r], Wants(r), addressCache'))
  BY <1>1, <1>2, <1>4, <1>5, ResolvedIsGood DEF Step, Resolutions
<1>7. UNCHANGED <<contextFingerprint, contextGeneration, reconciledFingerprint,
                 reconciliationTicket, tickets, bindingVerified>>
  BY Zenon DEF Memoize, latch
<1>8. ContextTypeOK'
  BY <1>2, <1>4, <1>7, Zenon DEF ContextTypeOK
<1> QED BY <1>2, <1>6, <1>8, RequestAdvances DEF Memoize

\* The user answers a dialog, or a Stellar endpoint answers.
LEMMA DialogSafe ==
    ASSUME RequestInv, NEW r \in Requests, Approve(r) \/ Reject(r) \/ Outward(r),
           UNCHANGED <<lock, consent, environment>>
    PROVE  RequestInv'
<1>1. At(r, "start") /\ Step(r) \in {"dialog", "outward"}
  BY DEF Approve, Reject, Outward
<1>2. UNCHANGED <<primary, store, context, mutationQueue>>
  BY DEF Approve, Reject, Outward
<1>3. ContextTypeOK'
  BY <1>1, <1>2, Started DEF ContextTypeOK, context
<1>4. CASE Advance(r)
  BY <1>1, <1>2, <1>3, <1>4, AdvanceStep
<1>5. CASE RefuseReq(r)
  BY <1>1, <1>2, <1>3, <1>5, RefuseStep
<1>6. CASE Becomes(r, Ended("rejected"))
  <2>1. Good(Ended("rejected")) /\ ~At(r, "queued")
    BY <1>1, Started, EndedIsGood DEF Outcomes
  <2> QED BY <1>2, <1>3, <1>6, <2>1, RequestAdvances
<1> QED BY <1>4, <1>5, <1>6 DEF Approve, Reject, Outward

\* The submission of a signed envelope: accepted, failed, its reply believed
\* or not, and its failure reported.
LEMMA SubmissionSafe ==
    ASSUME RequestInv, NEW r \in Requests, Submit(r) \/ SubmissionSettled(r) \/ ReportFailure(r),
           UNCHANGED <<lock, consent, environment>>
    PROVE  RequestInv'
<1>1. PICK at \in {"start", "await"} : At(r, at) /\ Step(r) \in {"submit", "settled", "recheck"}
  BY DEF Submit, SubmissionSettled, ReportFailure, Observed
<1>2. UNCHANGED <<primary, store, context, mutationQueue>>
  BY DEF Submit, SubmissionSettled, ReportFailure
<1>3. ContextTypeOK'
  BY <1>1, <1>2, Started DEF ContextTypeOK, context
<1>4. /\ Good(req[r]) /\ req[r].outcome = "running" /\ ~At(r, "queued")
  BY <1>1, Started
<1>5. CASE Advance(r)
  BY <1>1, <1>2, <1>3, <1>5, AdvanceStep
<1>6. ASSUME NEW todo \in {<< >>, <<"recheck">>}, Becomes(r, Continued(req[r], todo))
      PROVE  RequestInv'
  <2>1. req[r].bnd.source \in Sources
    BY <1>1, <1>4, StepShape DEF Step
  <2>2. "recheck" \in Fitting(req[r].call, req[r].snap)
    BY DEF Fitting, Rechecks
  <2>3. todo = << >> \/ Runnable(req[r], todo)
    <3> DEFINE steps == Fitting(req[r].call, req[r].snap)
    <3>1. ASSUME todo # << >> PROVE todo \in Seq(steps)
      <4> HIDE DEF steps
      <4>1. "recheck" \in steps
        BY <2>2 DEF steps
      <4>2. todo = <<"recheck">>
        BY <1>6, <3>1
      <4> QED BY <4>1, <4>2
    <3> QED BY <2>1, <3>1 DEF Runnable
  <2>4. Good(Continued(req[r], todo)) /\ Continued(req[r], todo).at = "start"
    BY <1>4, <2>3, StepShape, ContinuedIsGood
  <2> QED BY <1>2, <1>3, <1>4, <1>6, <2>4, RequestAdvances
<1>7. CASE Becomes(r, Ended("reported"))
  <2>1. Good(Ended("reported")) /\ Ended("reported").at = "start"
    BY EndedIsGood DEF Outcomes
  <2> QED BY <1>2, <1>3, <1>4, <1>7, <2>1, RequestAdvances
<1> QED BY <1>5, <1>6, <1>7 DEF Submit, SubmissionSettled, ReportFailure

\* The node of a signing request is bound to the context.
LEMMA NodeBoundSafe ==
    ASSUME RequestInv, NEW r \in Requests, NodeBound(r),
           UNCHANGED <<lock, consent, environment>>
    PROVE  RequestInv'
<1>1. At(r, "await") /\ Step(r) = "import"
  BY DEF NodeBound, Observed
<1>2. ContextTypeOK'
  BY <1>1, Started DEF NodeBound, ContextTypeOK, context
<1> QED BY <1>1, <1>2, AdvanceStep DEF NodeBound

\* A signature is made, or its key found stale or of another address.
LEMMA SignSafe ==
    ASSUME RequestInv, NEW r \in Requests, Sign(r),
           UNCHANGED <<lock, consent, environment>>
    PROVE  RequestInv'
<1> DEFINE key == PhraseOf[req[r].bnd.source]
           q == [req[r] EXCEPT !.key = key]
<1>1. At(r, "start") /\ Step(r) = "sign"
  BY DEF Sign
<1>2. /\ Good(req[r]) /\ req[r].outcome = "running" /\ ~At(r, "queued")
      /\ ContextTypeOK
  BY <1>1, Started
<1>3. addressCache' \in [Indices -> Phrases \cup {None}]
  BY <1>2 DEF Sign, ContextTypeOK, EmptyCache
<1>4. UNCHANGED <<contextFingerprint, contextGeneration, reconciledFingerprint,
                 reconciliationTicket, tickets, bindingVerified>>
  BY Zenon DEF Sign, latch
<1>5. ContextTypeOK'
  BY <1>2, <1>3, <1>4, Zenon DEF ContextTypeOK
<1>6. CASE RefuseReq(r)
  BY <1>1, <1>5, <1>6, RefuseStep DEF Sign
<1>7. CASE Becomes(r, Advanced(q))
  <2>1. /\ req[r] \in RequestRecords /\ req[r].call \in Calls /\ req[r].snap \in GoodStores
        /\ req[r].todo # << >> /\ Runnable(req[r], req[r].todo)
        /\ req[r].bnd.source \in Sources
    BY <1>1, <1>2, StepShape DEF Step
  <2>2. key \in Phrases
    BY <2>1, BindingAssumption
  <2>3. /\ q \in RequestRecords /\ q.call = req[r].call /\ q.snap = req[r].snap
        /\ q.todo = req[r].todo /\ q.bnd = req[r].bnd
    BY <2>1, <2>2 DEF RequestRecords
  <2>4. Good(Advanced(q))
    BY <2>1, <2>3, AdvancedIsGood DEF Runnable
  <2> QED BY <1>2, <1>5, <1>7, <2>4, RequestAdvances DEF Sign
<1> QED BY <1>6, <1>7 DEF Sign

\* A request joins the queue once: it was not in it, and it now waits there.
LEMMA EnqueueSafe ==
    ASSUME RequestInv, NEW r \in Requests, Enqueue(r),
           UNCHANGED <<lock, consent, environment>>
    PROVE  RequestInv'
<1> DEFINE job == [kind |-> "request", by |-> r]
           q == [req[r] EXCEPT !.at = "queued"]
           n == Len(mutationQueue)
<1>1. At(r, "start") /\ Step(r) \in LockSteps
  BY DEF Enqueue
<1>2. /\ Good(req[r]) /\ req[r].outcome = "running" /\ ~At(r, "queued")
      /\ RequestOK(req[r]) /\ ContextTypeOK /\ mutationQueue \in Seq(Jobs)
  BY <1>1, Started
<1>3. Good(q) /\ q.at = "queued" /\ q.outcome = "running"
  BY <1>1, <1>2 DEF Good, RequestRecords, RequestOK, Step
<1>4. req' = [req EXCEPT ![r] = q] /\ req = [p \in Requests |-> req[p]] /\ RequestsGood
  BY InvParts DEF Enqueue, Becomes
<1> HIDE DEF q
<1>5. req' = [p \in Requests |-> req'[p]] /\ RequestsGood'
  BY <1>3, <1>4 DEF RequestsGood, Good, RequestOK
<1>6. job \in Jobs
  BY DEF Jobs
<1>7. /\ mutationQueue' \in Seq(Jobs) /\ n \in Nat /\ Len(mutationQueue') = n + 1
      /\ \A i \in 1 .. n : mutationQueue'[i] = mutationQueue[i]
      /\ mutationQueue'[n + 1] = job
  BY <1>2, <1>6, AppendProperties, LenProperties DEF Enqueue
<1>8. ASSUME NEW i \in 1 .. n, mutationQueue[i].kind = "request"
      PROVE  /\ mutationQueue[i].by \in Requests \ {r}
             /\ At(mutationQueue[i].by, "queued")
  <2>1. mutationQueue[i] \in Jobs
    BY <1>2, <1>8, ElementOfSeq
  <2>2. At(mutationQueue[i].by, "queued")
    BY <1>8, InvParts DEF QueueOK
  <2> QED BY <1>2, <1>8, <2>1, <2>2 DEF Jobs
<1>9. QueueOK'
  <2> SUFFICES ASSUME NEW i \in 1 .. n + 1, mutationQueue'[i].kind = "request"
               PROVE  /\ At(mutationQueue[i].by, "queued")'
                      /\ \A j \in 1 .. n + 1 :
                            mutationQueue'[j] = mutationQueue'[i] => j = i
    BY <1>7 DEF QueueOK
  <2>1. CASE i = n + 1
    <3>1. At(mutationQueue[i].by, "queued")'
      BY <1>3, <1>4, <1>7, <2>1 DEF At, Running
    <3>2. ASSUME NEW j \in 1 .. n, mutationQueue'[j] = job PROVE FALSE
      BY <1>7, <1>8, <3>2
    <3> QED BY <1>7, <2>1, <3>1, <3>2
  <2>2. CASE i \in 1 .. n
    <3>1. mutationQueue'[i] = mutationQueue[i] /\ mutationQueue[i].kind = "request"
      BY <1>7, <2>2
    <3>2. /\ mutationQueue[i].by \in Requests \ {r}
          /\ At(mutationQueue[i].by, "queued")
      BY <1>8, <2>2, <3>1
    <3>3. At(mutationQueue[i].by, "queued")'
      BY <1>4, <3>1, <3>2 DEF At, Running
    <3>4. ASSUME NEW j \in 1 .. n + 1, mutationQueue'[j] = mutationQueue'[i]
          PROVE  j = i
      <4>1. j # n + 1
        BY <1>7, <3>1, <3>2, <3>4
      <4>2. j \in 1 .. n
        BY <1>7, <4>1
      <4> QED BY <1>7, <2>2, <3>1, <3>4, <4>2, InvParts DEF QueueOK
    <3> QED BY <3>3, <3>4
  <2> QED BY <1>7, <2>1, <2>2
<1>10. ContextTypeOK' /\ EnvironmentTypeOK'
  BY <1>2, InvParts DEF Enqueue, ContextTypeOK, context, EnvironmentTypeOK, environment
<1>11. /\ UNCHANGED <<primary, store, lock, consent>>
       /\ store \in Stores /\ GapFree(store) /\ primary \in Sources /\ lock \in Locks
       /\ lock.was \in Stores /\ GapFree(lock.was) /\ lock.new \in Stores /\ GapFree(lock.new)
       /\ consent \in [Origins -> Phrases \cup {None}]
  BY InvParts DEF Enqueue, GoodStores
<1> QED
  BY <1>5, <1>7, <1>9, <1>10, <1>11
  DEF RequestInv, TypeOK, RequestsGood, Good, Running, GoodStores

\* Whatever a request does on its own keeps the requests well formed.
LEMMA RequestStepSafe ==
    ASSUME RequestInv, NEW r \in Requests, RequestStep(r)
    PROVE  RequestInv'
BY ReadSourceSafe, ConfirmSourceSafe, ObservationRefusedSafe, BindRequestSafe,
   PhraseUnchangedSafe, CheckConnectedSafe, TakeSnapshotSafe, AdmitSafe, ReadStateSafe,
   ResolveSafe, MemoizeSafe, DialogSafe, SubmissionSafe, ImportNodeSafe, NodeBoundSafe, SignSafe,
   EnqueueSafe
DEF RequestStep

-----------------------------------------------------------------------------
(***************************************************************************)
(* The job that holds the lock.                                            *)
(***************************************************************************)

\* The head job; when it is a request's, that request waits for it, at a lock
\* step of its own script.
LEMMA HeadJob ==
    ASSUME RequestInv, mutationQueue # << >>
    PROVE  /\ Job \in Jobs
           /\ Job.kind = "request" =>
                 /\ Job.by \in Requests /\ At(Job.by, "queued")
                 /\ Good(req[Job.by]) /\ req[Job.by].outcome = "running"
                 /\ Step(Job.by) \in LockSteps
                 /\ Step(Job.by) \in OwnSteps(req[Job.by].call, req[Job.by].snap)
<1>1. mutationQueue \in Seq(Jobs) /\ QueueOK /\ RequestsGood
  BY InvParts
<1>2. Job \in Jobs /\ Len(mutationQueue) \in Nat /\ Len(mutationQueue) >= 1
  BY <1>1, HeadTailProperties, LenProperties, EmptySeq DEF Job
<1>3. Job = mutationQueue[1] /\ 1 \in 1 .. Len(mutationQueue)
  BY <1>1, <1>2 DEF Job
<1>4. ASSUME Job.kind = "request"
      PROVE  /\ Job.by \in Requests /\ At(Job.by, "queued")
             /\ Good(req[Job.by]) /\ req[Job.by].outcome = "running"
             /\ Step(Job.by) \in LockSteps
             /\ Step(Job.by) \in OwnSteps(req[Job.by].call, req[Job.by].snap)
  <2>1. Job.by \in Requests /\ At(Job.by, "queued")
    BY <1>1, <1>2, <1>3, <1>4 DEF QueueOK, Jobs
  <2>2. Good(req[Job.by]) /\ req[Job.by].outcome = "running"
    BY <1>1, <2>1 DEF RequestsGood, At, Running
  <2>3. Step(Job.by) \in LockSteps
    BY <2>1, <2>2 DEF At, Good, RequestOK, Step
  <2> QED BY <2>1, <2>2, <2>3, StepShape DEF Step
<1> QED BY <1>2, <1>4

\* The head job leaves the queue, and its request, if it has one, goes on.
LEMMA QueueAfterHead ==
    ASSUME RequestInv, mutationQueue # << >>, mutationQueue' = Tail(mutationQueue),
           \/ UNCHANGED req
           \/ Job.kind = "request" /\ \E q : Becomes(Job.by, q)
    PROVE  mutationQueue' \in Seq(Jobs) /\ QueueOK'
<1> DEFINE n == Len(mutationQueue)
<1>1. mutationQueue \in Seq(Jobs) /\ QueueOK /\ req = [p \in Requests |-> req[p]]
  BY InvParts
<1>2. /\ n \in Nat /\ Job = mutationQueue[1]
      /\ mutationQueue' \in Seq(Jobs) /\ Len(mutationQueue') = n - 1
      /\ \A i \in 1 .. n - 1 : mutationQueue'[i] = mutationQueue[i + 1]
  BY <1>1, HeadTailProperties, LenProperties DEF Job
<1> HIDE DEF n
<1>3. n = Len(mutationQueue)
  BY DEF n
<1>4. ASSUME NEW i \in 1 .. n - 1, mutationQueue'[i].kind = "request"
      PROVE  At(mutationQueue[i].by, "queued")'
  <2> DEFINE r == mutationQueue[i + 1].by
  <2>1. i + 1 \in 1 .. n /\ 1 \in 1 .. n /\ i + 1 # 1
    BY <1>2
  <2>2. mutationQueue'[i] = mutationQueue[i + 1] /\ mutationQueue[i + 1].kind = "request"
    BY <1>2, <1>4
  <2>3. mutationQueue[i + 1] \in Jobs /\ Job \in Jobs
    BY <1>1, <1>2, <1>3, <2>1, ElementOfSeq
  <2>4. At(r, "queued") /\ r \in Requests
    BY <1>1, <1>3, <2>1, <2>2, <2>3 DEF QueueOK, Jobs
  <2>5. Job.kind = "request" => Job.by # r
    <3> SUFFICES ASSUME Job.kind = "request", Job.by = r PROVE FALSE
      OBVIOUS
    <3>1. mutationQueue[1] = mutationQueue[i + 1]
      BY <1>2, <2>2, <2>3 DEF Jobs
    <3> QED BY <1>1, <1>3, <2>1, <2>2, <3>1 DEF QueueOK
  <2>6. req'[r] = req[r]
    BY <1>1, <2>4, <2>5 DEF Becomes
  <2> QED BY <2>2, <2>4, <2>6 DEF At, Running
<1>5. ASSUME NEW i \in 1 .. n - 1, mutationQueue'[i].kind = "request",
             NEW j \in 1 .. n - 1, mutationQueue'[j] = mutationQueue'[i]
      PROVE  j = i
  <2>1. i + 1 \in 1 .. n /\ j + 1 \in 1 .. n
    BY <1>2
  <2>2. mutationQueue[j + 1] = mutationQueue[i + 1] /\ mutationQueue[i + 1].kind = "request"
    BY <1>2, <1>5
  <2>3. j + 1 = i + 1
    BY <1>1, <1>3, <2>1, <2>2 DEF QueueOK
  <2> QED BY <2>3
<1> QED BY <1>2, <1>4, <1>5 DEF QueueOK

\* The primed conjuncts of RequestInv, put together.
LEMMA InvAfter ==
    ASSUME primary' \in Sources, store' \in GoodStores, ContextTypeOK',
           mutationQueue' \in Seq(Jobs), req' = [r \in Requests |-> req'[r]], RequestsGood',
           lock' \in Locks, lock'.was \in GoodStores, lock'.new \in GoodStores,
           consent' \in [Origins -> Phrases \cup {None}], EnvironmentTypeOK', QueueOK'
    PROVE  RequestInv'
<1>1. store' \in Stores /\ GapFree(store')
      /\ lock'.was \in Stores /\ GapFree(lock'.was) /\ lock'.new \in Stores /\ GapFree(lock'.new)
  BY DEF GoodStores
<1> QED BY <1>1 DEF RequestInv, TypeOK, RequestsGood, Good, Running, GoodStores

\* A settled reconciliation leaves the context's variables typed.
LEMMA SettleTypes ==
    ASSUME ContextTypeOK, NEW job \in Jobs, NEW ok \in BOOLEAN, NEW reset \in BOOLEAN,
           SettleReconciliation(job, ok, reset)
    PROVE  ContextTypeOK'
<1>1. addressCache' \in [Indices -> Phrases \cup {None}]
  BY DEF SettleReconciliation, ContextTypeOK, EmptyCache
<1>2. bindingVerified' \in BOOLEAN
  <2>1. bindingVerified' \in {TRUE, FALSE, bindingVerified}
    BY Zenon DEF SettleReconciliation
  <2> QED BY <2>1, Zenon DEF ContextTypeOK
<1>3. /\ reconciledFingerprint' \in Phrases \cup {None}
      /\ reconciliationTicket' \in Nat
  <2>1. \/ reconciledFingerprint' = None /\ reconciliationTicket' = 0
        \/ UNCHANGED <<reconciledFingerprint, reconciliationTicket>>
    BY Zenon DEF SettleReconciliation
  <2> QED BY <2>1 DEF ContextTypeOK
<1> QED BY <1>1, <1>2, <1>3, Zenon DEF ContextTypeOK, SettleReconciliation

\* However the job at the head of the queue ends, and whatever it wrote.
LEMMA FinishSafe ==
    ASSUME RequestInv, mutationQueue # << >>,
           NEW ok \in BOOLEAN, NEW reset \in BOOLEAN, Finish(ok, reset),
           primary' \in Sources, store' \in GoodStores,
           consent' \in [Origins -> Phrases \cup {None}], EnvironmentTypeOK'
    PROVE  RequestInv'
<1>1. /\ mutationQueue' = Tail(mutationQueue) /\ lock' = Free
      /\ lock' \in Locks /\ lock'.was \in GoodStores /\ lock'.new \in GoodStores
  BY FreeIsGood DEF Finish
<1>2. /\ Job \in Jobs /\ ContextTypeOK /\ RequestsGood
      /\ req = [r \in Requests |-> req[r]]
  BY HeadJob, InvParts
<1>3. CASE Job.kind = "reconcile"
  <2>1. SettleReconciliation(Job, ok, reset) /\ UNCHANGED req
    BY <1>3 DEF Finish
  <2>2. ContextTypeOK'
    BY <1>2, <2>1, SettleTypes
  <2>3. req' = [r \in Requests |-> req'[r]] /\ RequestsGood'
    BY <1>2, <2>1 DEF RequestsGood, Good, RequestOK
  <2>4. mutationQueue' \in Seq(Jobs) /\ QueueOK'
    BY <1>1, <2>1, QueueAfterHead
  <2> QED BY <1>1, <2>2, <2>3, <2>4, InvAfter
<1>4. CASE Job.kind = "request"
  <2> DEFINE r == Job.by
             q == IF ok THEN Advanced(req[r]) ELSE Refused(req[r])
  <2>1. Becomes(r, q) /\ UNCHANGED context
    BY <1>4 DEF Finish, Advance, RefuseReq
  <2>2. /\ r \in Requests /\ Good(req[r]) /\ req[r].outcome = "running"
        /\ Head(req[r].todo) \notin {"bind", "observe"}
    BY <1>4, HeadJob DEF Step, LockSteps
  <2>3. Good(q)
    BY <2>2, StepShape, AdvancedIsGood, RefusedIsGood
  <2>4. ContextTypeOK'
    BY <1>2, <2>1 DEF ContextTypeOK, context
  <2>5. req' = [req EXCEPT ![r] = q]
    BY <2>1 DEF Becomes
  <2>6. mutationQueue' \in Seq(Jobs) /\ QueueOK'
    BY <1>1, <1>4, <2>1, QueueAfterHead
  <2> HIDE DEF q
  <2>7. req' = [p \in Requests |-> req'[p]] /\ RequestsGood'
    BY <1>2, <2>2, <2>3, <2>5 DEF RequestsGood, Good, RequestOK
  <2> QED BY <1>1, <2>4, <2>6, <2>7, InvAfter
<1> QED BY <1>2, <1>3, <1>4 DEF Jobs

\* The job holds on to the lock.
LEMMA LockMoves ==
    ASSUME RequestInv, lock' \in Locks, lock'.was \in GoodStores, lock'.new \in GoodStores,
           UNCHANGED <<context, mutationQueue, req>>,
           primary' \in Sources, store' \in GoodStores,
           consent' \in [Origins -> Phrases \cup {None}], EnvironmentTypeOK'
    PROVE  RequestInv'
<1>1. ContextTypeOK'
  BY InvParts DEF ContextTypeOK, context
<1>2. req' = [r \in Requests |-> req'[r]] /\ RequestsGood' /\ mutationQueue' \in Seq(Jobs)
  BY InvParts DEF RequestsGood, Good, RequestOK
<1>3. QueueOK'
  BY InvParts DEF QueueOK, At, Running
<1> QED BY <1>1, <1>2, <1>3, InvAfter

\* The mutator reads the store and decides.
LEMMA LockedReadSafe ==
    ASSUME RequestInv, LockedRead
    PROVE  RequestInv'
<1>1. mutationQueue # << >> /\ UNCHANGED <<primary, store, consent, environment>>
  BY DEF LockedRead, Holding
<1>2. /\ primary' \in Sources /\ store' \in GoodStores /\ store \in GoodStores
      /\ consent' \in [Origins -> Phrases \cup {None}] /\ EnvironmentTypeOK'
      /\ lock \in Locks
  BY <1>1, InvParts DEF EnvironmentTypeOK, environment
<1>3. PICK v \in Verdict(store) :
         IF v.do = "write"
         THEN /\ lock' = [lock EXCEPT !.phase = IF Confirms THEN "ask" ELSE "write",
                                      !.was = store, !.new = v.new]
              /\ UNCHANGED <<context, mutationQueue, req>>
         ELSE Finish(v.do = "keep", FALSE)
  BY DEF LockedRead
<1>4. v.new \in GoodStores
  <2>1. CASE Job.kind = "reconcile"
    <3>1. Job.fp \in Phrases
      BY <1>1, <2>1, HeadJob DEF Jobs
    <3> QED BY <1>2, <2>1, <3>1, ReconcileIsGood DEF Verdict
  <2>2. CASE Job.kind = "request"
    <3> DEFINE q == req[Job.by]
    <3>1. /\ Good(q) /\ q.outcome = "running" /\ Head(q.todo) \in LockSteps
          /\ Head(q.todo) \in OwnSteps(q.call, q.snap)
      BY <1>1, <2>2, HeadJob DEF Step
    <3>2. q.call \in AllCalls /\ q.snap \in GoodStores
      BY <3>1, StepShape
    <3>3. v \in Mutation(Head(q.todo), q.call, q.snap, q.bnd.fp, store)
      BY <2>2 DEF Verdict
    <3>4. GoodVerdict(v, store)
      BY <1>2, <3>1, <3>2, <3>3, MutationIsGood
    <3> QED BY <3>4 DEF GoodVerdict
  <2> QED BY <1>1, <2>1, <2>2, HeadJob DEF Jobs
<1>5. CASE v.do = "write"
  <2>1. /\ lock' = [lock EXCEPT !.phase = IF Confirms THEN "ask" ELSE "write",
                                !.was = store, !.new = v.new]
        /\ UNCHANGED <<context, mutationQueue, req>>
    BY <1>3, <1>5
  <2>2. lock' \in Locks /\ lock'.was \in GoodStores /\ lock'.new \in GoodStores
    BY <1>2, <1>4, <2>1 DEF Locks, GoodStores
  <2> QED BY <1>2, <2>1, <2>2, LockMoves
<1>6. CASE v.do # "write"
  <2>1. Finish(v.do = "keep", FALSE)
    BY <1>3, <1>6
  <2>2. (v.do = "keep") \in BOOLEAN /\ FALSE \in BOOLEAN
    OBVIOUS
  <2> QED BY <1>1, <1>2, <2>1, <2>2, FinishSafe
<1> QED BY <1>5, <1>6

\* A commit's confirmation names the primary source.
LEMMA ConfirmReadSafe ==
    ASSUME RequestInv, ConfirmRead
    PROVE  RequestInv'
<1>1. /\ primary' \in Sources /\ store' \in GoodStores
      /\ consent' \in [Origins -> Phrases \cup {None}] /\ EnvironmentTypeOK'
      /\ UNCHANGED <<context, mutationQueue, req>>
  BY InvParts DEF ConfirmRead, EnvironmentTypeOK, environment
<1>2. lock' \in Locks /\ lock'.was \in GoodStores /\ lock'.new \in GoodStores
  BY InvParts DEF ConfirmRead, Locks
<1> QED BY <1>1, <1>2, LockMoves

\* A commit's confirmation is looked at, on either side of the write.
LEMMA ConfirmCheckSafe ==
    ASSUME RequestInv, ConfirmCheck
    PROVE  RequestInv'
<1> DEFINE ok == Confirmation(req[Job.by].bnd)
<1>1. /\ primary' \in Sources /\ store' \in GoodStores
      /\ consent' \in [Origins -> Phrases \cup {None}] /\ EnvironmentTypeOK'
      /\ mutationQueue # << >>
  BY InvParts DEF ConfirmCheck, EnvironmentTypeOK, environment, Holding
<1>2. ASSUME NEW phase \in {"write", "undo"}, lock' = [lock EXCEPT !.phase = phase],
             UNCHANGED <<context, mutationQueue, req>>
      PROVE  RequestInv'
  <2>1. lock' \in Locks /\ lock'.was \in GoodStores /\ lock'.new \in GoodStores
    BY <1>2, InvParts DEF Locks
  <2> QED BY <1>1, <1>2, <2>1, LockMoves
<1>3. CASE Finish(ok, FALSE)
  <2>1. ok \in BOOLEAN /\ FALSE \in BOOLEAN
    BY DEF Confirmation
  <2> QED BY <1>1, <1>3, <2>1, FinishSafe
<1> QED BY <1>2, <1>3 DEF ConfirmCheck

\* The grant a write records was approved by a site, under some phrase.
LEMMA ConsentsType ==
    ASSUME RequestInv, mutationQueue # << >>
    PROVE  Consents \in [Origins -> Phrases \cup {None}]
<1>1. consent \in [Origins -> Phrases \cup {None}]
  BY InvParts
<1>2. CASE Job.kind = "reconcile" \/ Head(req[Job.by].todo) \notin {"connect", "grant"}
  BY <1>1, <1>2 DEF Consents
<1>3. CASE Job.kind = "request" /\ Head(req[Job.by].todo) \in {"connect", "grant"}
  <2>1. req[Job.by].bnd.fp \in Phrases \cup {None}
    BY <1>3, HeadJob DEF Good, RequestRecords, Bindings
  <2> QED BY <1>1, <1>3, <2>1 DEF Consents
<1> QED BY <1>2, <1>3, HeadJob DEF Jobs

\* The write of a mutator lands.
LEMMA LockedWriteSafe ==
    ASSUME RequestInv, LockedWrite
    PROVE  RequestInv'
<1>1. /\ primary' \in Sources /\ store' = lock.new /\ store' \in GoodStores
      /\ EnvironmentTypeOK' /\ mutationQueue # << >>
  BY InvParts DEF LockedWrite, EnvironmentTypeOK, environment, Holding
<1>2. consent' \in [Origins -> Phrases \cup {None}]
  BY <1>1, ConsentsType DEF LockedWrite
<1>3. CASE Confirms
  <2>1. /\ lock' = [lock EXCEPT !.phase = "ask", !.wrote = TRUE]
        /\ UNCHANGED <<context, mutationQueue, req>>
    BY <1>3 DEF LockedWrite
  <2>2. lock' \in Locks /\ lock'.was \in GoodStores /\ lock'.new \in GoodStores
    BY <2>1, InvParts DEF Locks
  <2> QED BY <1>1, <1>2, <2>1, <2>2, LockMoves
<1>4. CASE ~Confirms
  <2>1. Finish(TRUE, Resets) /\ TRUE \in BOOLEAN /\ Resets \in BOOLEAN
    BY <1>4 DEF LockedWrite, Resets
  <2> QED BY <1>1, <1>2, <2>1, FinishSafe
<1> QED BY <1>3, <1>4

\* The write of a mutator is refused by the platform.
LEMMA WriteFailsSafe ==
    ASSUME RequestInv, WriteFails
    PROVE  RequestInv'
<1>1. /\ mutationQueue # << >> /\ Finish(FALSE, FALSE)
      /\ failures' = failures + 1
      /\ UNCHANGED <<primary, store, consent, switches, crashes>>
  BY Zenon DEF WriteFails, Holding
<1>2. /\ primary' \in Sources /\ store' \in GoodStores
      /\ consent' \in [Origins -> Phrases \cup {None}] /\ EnvironmentTypeOK'
  BY <1>1, InvParts DEF EnvironmentTypeOK
<1> QED BY <1>1, <1>2, FinishSafe, Zenon

\* A commit that lost its tenure is undone.
LEMMA RollbackSafe ==
    ASSUME RequestInv, Rollback
    PROVE  RequestInv'
<1>1. /\ mutationQueue # << >> /\ Finish(FALSE, FALSE)
      /\ store' \in {lock.was, store} /\ failures' \in {failures, failures + 1}
      /\ UNCHANGED <<primary, consent, switches, crashes>>
  BY Zenon DEF Rollback, Holding
<1>2. /\ primary' \in Sources /\ store' \in GoodStores
      /\ consent' \in [Origins -> Phrases \cup {None}] /\ EnvironmentTypeOK'
  BY <1>1, InvParts DEF EnvironmentTypeOK
<1> QED BY <1>1, <1>2, FinishSafe, Zenon

\* Whatever the holder of the lock does keeps the requests well formed.
LEMMA LockStepSafe ==
    ASSUME RequestInv, LockStep
    PROVE  RequestInv'
BY LockedReadSafe, ConfirmReadSafe, ConfirmCheckSafe, LockedWriteSafe, WriteFailsSafe,
   RollbackSafe
DEF LockStep

-----------------------------------------------------------------------------
(***************************************************************************)
(* The environment, and the theorem.                                       *)
(***************************************************************************)
\* The user switches the primary phrase.
LEMMA SwitchSafe ==
    ASSUME RequestInv, Switch
    PROVE  RequestInv'
<1>1. primary' \in Sources /\ EnvironmentTypeOK'
  BY InvParts DEF Switch, EnvironmentTypeOK
<1>2. /\ UNCHANGED <<context, mutationQueue, req>>
      /\ lock' \in Locks /\ lock'.was \in GoodStores /\ lock'.new \in GoodStores
      /\ store' \in GoodStores /\ consent' \in [Origins -> Phrases \cup {None}]
  BY InvParts DEF Switch
<1> QED BY <1>1, <1>2, LockMoves

\* MetaMask terminates the snap: nothing runs and nothing is queued.
LEMMA CrashSafe ==
    ASSUME RequestInv, Crash
    PROVE  RequestInv'
<1>1. ContextTypeOK'
  BY DEF Crash, ContextTypeOK, EmptyCache
<1>2. mutationQueue' = << >> /\ mutationQueue' \in Seq(Jobs) /\ QueueOK'
  BY DEF Crash, QueueOK
<1>3. req' = [r \in Requests |-> req'[r]] /\ RequestsGood'
  <2>1. req' = [r \in Requests |-> IF Running(r) THEN Ended("lost") ELSE req[r]]
    BY DEF Crash
  <2>2. Good(Ended("lost")) /\ RequestsGood
    BY EndedIsGood, InvParts DEF Outcomes
  <2> QED BY <2>1, <2>2 DEF RequestsGood, Good, RequestOK
<1>4. /\ lock' \in Locks /\ lock'.was \in GoodStores /\ lock'.new \in GoodStores
  BY FreeIsGood DEF Crash
<1>5. /\ primary' \in Sources /\ store' \in GoodStores
      /\ consent' \in [Origins -> Phrases \cup {None}] /\ EnvironmentTypeOK'
  BY InvParts DEF Crash, EnvironmentTypeOK
<1> QED BY <1>1, <1>2, <1>3, <1>4, <1>5, InvAfter

\* A fresh execution context has no request and no job.
LEMMA InitSafe ==
    ASSUME Init
    PROVE  RequestInv
<1>1. store \in GoodStores
  BY SnapAssumption DEF Init, GoodStores, GapFree
<1>2. ContextTypeOK
  BY DEF Init, ContextTypeOK, EmptyCache
<1>3. mutationQueue \in Seq(Jobs) /\ QueueOK
  BY DEF Init, QueueOK
<1>4. req = [r \in Requests |-> req[r]] /\ RequestsGood
  <2>1. Idle \in RequestRecords /\ Idle.outcome = "idle"
    BY DefaultIsGood DEF Idle, RequestRecords, NoBinding, Bindings, GoodStores, Outcomes
  <2> QED BY <2>1 DEF Init, RequestsGood, Good
<1>5. lock \in Locks /\ lock.was \in GoodStores /\ lock.new \in GoodStores
  BY FreeIsGood DEF Init
<1>6. consent \in [Origins -> Phrases \cup {None}]
  BY <1>1 DEF Init, GoodStores, Stores
<1>7. primary \in Sources /\ EnvironmentTypeOK
  BY DEF Init, EnvironmentTypeOK
<1> QED BY <1>1, <1>2, <1>3, <1>4, <1>5, <1>6, <1>7, InvParts

\* Nothing changes when nothing happens.
LEMMA StutterSafe ==
    ASSUME RequestInv, UNCHANGED vars
    PROVE  RequestInv'
<1>1. /\ UNCHANGED <<context, mutationQueue, req>>
      /\ UNCHANGED <<primary, store, lock, consent, environment>>
  BY DEF vars
<1>2. EnvironmentTypeOK'
  BY <1>1, InvParts DEF EnvironmentTypeOK, environment
<1> QED BY <1>1, <1>2, InvParts, LockMoves

\* RequestInv is inductive.
LEMMA NextSafe ==
    ASSUME RequestInv, [Next]_vars
    PROVE  RequestInv'
<1>1. ASSUME NEW r \in Requests, Arrive(r) PROVE RequestInv'
  BY <1>1, StartSafe DEF Arrive
<1>2. ASSUME NEW r \in Requests, RequestStep(r) PROVE RequestInv'
  BY <1>2, RequestStepSafe
<1>3. CASE LockStep
  BY <1>3, LockStepSafe
<1>4. CASE Switch \/ Crash
  BY <1>4, SwitchSafe, CrashSafe
<1>5. CASE Quiet \/ UNCHANGED vars
  BY <1>5, StutterSafe DEF Quiet
<1> QED BY <1>1, <1>2, <1>3, <1>4, <1>5 DEF Next

\* In every behaviour a request's script fits its call, a request that is bound
\* names its source, and a request waits in the lock's queue at most once.
THEOREM RequestsFit == Spec => []RequestInv
<1>1. Init => RequestInv
  BY InitSafe
<1>2. RequestInv /\ [Next]_vars => RequestInv'
  BY NextSafe
<1> QED BY <1>1, <1>2, PTL DEF Spec

\* Every variable keeps its type; among others, every store written holds
\* account indices, tokens and grants of the shape parseState accepts.
THEOREM TypeCorrect == Spec => []TypeOK
<1>1. RequestInv => TypeOK
  BY DEF RequestInv
<1> QED BY <1>1, RequestsFit, PTL

\* The revealed accounts never have a gap, and the active account is one of
\* them, through every interleaving, failed write, reset and crash.
THEOREM AccountsStayGapFree == Spec => []AccountsGapFree
<1>1. RequestInv => AccountsGapFree
  BY DEF RequestInv, GoodStores, GapFree, AccountsGapFree
<1> QED BY <1>1, RequestsFit, PTL
=============================================================================
