---------------------------- MODULE WalletProofs ----------------------------
(***************************************************************************)
(* The stateful core of the snap implements the wallet it promises: every  *)
(* step of module Snap is a step of module Wallet, or a stutter.           *)
(***************************************************************************)
EXTENDS BindingProofs, WalletRefinement

(***************************************************************************)
(* Scripts and their effects.                                              *)
(***************************************************************************)

\* Scripts without an effect, and those that ask nothing either.
BareScripts   == Seq(Steps \ Effective)
SilentScripts == Seq(Steps \ (Effective \cup {"dialog"}))

\* A script without an effect has at most one.
LEMMA BareIsOne ==
    ASSUME NEW todo \in BareScripts
    PROVE  Ahead(todo) = {} /\ OneEffect(todo) /\ todo \in Seq(Steps)
<1>1. \A k \in DOMAIN todo : todo[k] \in Steps \ Effective
  BY ElementOfSeq, LenProperties DEF BareScripts
<1>2. Ahead(todo) = {}
  BY <1>1 DEF Ahead
<1>3. todo \in Seq(Steps)
  BY DEF BareScripts
<1> QED BY <1>2, <1>3 DEF OneEffect

\* What asks for an effect may come after scripts without one, and before scripts
\* that ask for nothing.
LEMMA EffectOfConcat ==
    ASSUME NEW p \in Seq(Steps), NEW q \in Seq(Steps),
           \/ p \in BareScripts /\ OneEffect(q)
           \/ OneEffect(p) /\ q \in SilentScripts
    PROVE  p \o q \in Seq(Steps) /\ OneEffect(p \o q)
<1>1. /\ p \o q \in Seq(Steps) /\ Len(p \o q) = Len(p) + Len(q)
      /\ \A i \in 1 .. Len(p) + Len(q) :
            (p \o q)[i] = IF i <= Len(p) THEN p[i] ELSE q[i - Len(p)]
  BY ConcatProperties
<1>2. /\ Len(p) \in Nat /\ Len(q) \in Nat
      /\ DOMAIN p = 1 .. Len(p) /\ DOMAIN q = 1 .. Len(q)
      /\ DOMAIN (p \o q) = 1 .. Len(p) + Len(q)
  BY <1>1, LenProperties
<1> SUFFICES ASSUME NEW j \in Ahead(p \o q), NEW k \in DOMAIN (p \o q),
                    (p \o q)[k] \in Effective \cup {"dialog"}
             PROVE  k <= j
  BY <1>1 DEF OneEffect
<1> DEFINE s == p \o q
           m == Len(p)
           n == Len(q)
<1>3. /\ j \in 1 .. m + n /\ k \in 1 .. m + n /\ m \in Nat /\ n \in Nat
      /\ s[j] \in Effective /\ s[k] \in Effective \cup {"dialog"}
      /\ s[j] = IF j <= m THEN p[j] ELSE q[j - m]
      /\ s[k] = IF k <= m THEN p[k] ELSE q[k - m]
      /\ DOMAIN p = 1 .. m /\ DOMAIN q = 1 .. n
  BY <1>1, <1>2 DEF Ahead
<1> HIDE DEF s, m, n
<1>4. CASE p \in BareScripts /\ OneEffect(q)
  <2>1. j > m
    BY <1>3, <1>4, BareIsOne DEF Ahead
  <2>2. CASE k <= m
    BY <1>3, <2>1, <2>2
  <2>3. CASE k > m
    <3>1. j - m \in DOMAIN q /\ k - m \in DOMAIN q /\ s[j] = q[j - m] /\ s[k] = q[k - m]
      BY <1>3, <2>1, <2>3
    <3>2. k - m <= j - m
      BY <1>3, <1>4, <3>1 DEF OneEffect, Ahead
    <3> QED BY <1>3, <3>2
  <2> QED BY <1>3, <2>2, <2>3
<1>5. CASE OneEffect(p) /\ q \in SilentScripts
  <2>1. \A i \in 1 .. n : q[i] \notin Effective \cup {"dialog"}
    <3>1. \A i \in DOMAIN q : q[i] \in Steps \ (Effective \cup {"dialog"})
      BY <1>5, ElementOfSeq, LenProperties DEF SilentScripts
    <3> QED BY <1>3, <3>1
  <2>2. j <= m /\ k <= m
    BY <1>3, <2>1
  <2>3. j \in DOMAIN p /\ k \in DOMAIN p /\ s[j] = p[j] /\ s[k] = p[k]
    BY <1>3, <2>2
  <2> QED BY <1>3, <1>5, <2>3 DEF OneEffect, Ahead
<1> QED BY <1>4, <1>5

\* What is left of a script after its first step: its effect, if that step was
\* not it.
LEMMA EffectOfTail ==
    ASSUME NEW p \in Seq(Steps), p # << >>, OneEffect(p)
    PROVE  /\ OneEffect(Tail(p))
           /\ Head(p) \in Effective =>
                 1 \in Ahead(p) /\ p[1] = Head(p) /\ ~Asks(p) /\ Ahead(Tail(p)) = {}
           /\ Head(p) \notin Effective =>
                 /\ Ahead(p) = {k + 1 : k \in Ahead(Tail(p))}
                 /\ \A k \in Ahead(Tail(p)) : Tail(p)[k] = p[k + 1]
           /\ Asks(p) <=> Head(p) = "dialog" \/ Asks(Tail(p))
<1> DEFINE n == Len(p)
           t == Tail(p)
<1>1. /\ n \in Nat /\ n >= 1 /\ Head(p) = p[1] /\ DOMAIN p = 1 .. n
      /\ DOMAIN t = 1 .. n - 1 /\ \A i \in 1 .. n - 1 : t[i] = p[i + 1]
  BY HeadTailProperties, LenProperties, EmptySeq
<1> HIDE DEF n, t
<1>2. \A k \in 1 .. n - 1 : k + 1 \in 1 .. n
  BY <1>1
<1>3. \A k \in 1 .. n : (k - 1) + 1 = k /\ (k = 1 \/ k - 1 \in 1 .. n - 1)
  BY <1>1
<1>4. OneEffect(t)
  <2> SUFFICES ASSUME NEW j \in Ahead(t), NEW k \in DOMAIN t, t[k] \in Effective \cup {"dialog"}
               PROVE  k <= j
    BY DEF OneEffect
  <2>1. /\ j + 1 \in Ahead(p) /\ k + 1 \in DOMAIN p /\ p[k + 1] \in Effective \cup {"dialog"}
        /\ j \in Nat /\ k \in Nat
    BY <1>1, <1>2 DEF Ahead
  <2>2. k + 1 <= j + 1
    BY <2>1 DEF OneEffect
  <2> QED BY <2>1, <2>2
<1>5. ASSUME Head(p) \in Effective
      PROVE  1 \in Ahead(p) /\ p[1] = Head(p) /\ ~Asks(p) /\ Ahead(t) = {}
  <2>1. 1 \in Ahead(p)
    BY <1>1, <1>5 DEF Ahead
  <2>2. \A k \in 1 .. n : p[k] \in Effective \cup {"dialog"} => k <= 1
    BY <1>1, <2>1 DEF OneEffect
  <2>3. \A k \in 1 .. n - 1 : t[k] \notin Effective
    BY <1>1, <1>2, <2>2
  <2>4. p[1] # "dialog"
    BY <1>1, <1>5 DEF Effective, LockSteps
  <2>5. \A k \in 1 .. n : p[k] # "dialog"
    BY <1>1, <1>3, <2>2, <2>4
  <2> QED BY <1>1, <2>1, <2>3, <2>5 DEF Ahead, Asks
<1>6. ASSUME Head(p) \notin Effective
      PROVE  /\ Ahead(p) = {k + 1 : k \in Ahead(t)}
             /\ \A k \in Ahead(t) : t[k] = p[k + 1]
  <2>1. \A k \in Ahead(p) : k - 1 \in Ahead(t) /\ (k - 1) + 1 = k
    BY <1>1, <1>3, <1>6 DEF Ahead
  <2>2. \A k \in Ahead(t) : k + 1 \in Ahead(p) /\ t[k] = p[k + 1]
    BY <1>1, <1>2 DEF Ahead
  <2> QED BY <2>1, <2>2
<1>7. Asks(p) <=> Head(p) = "dialog" \/ Asks(t)
  <2>1. ASSUME Asks(p), p[1] # "dialog" PROVE Asks(t)
    <3>1. PICK k \in 1 .. n : p[k] = "dialog"
      BY <1>1, <2>1 DEF Asks
    <3>2. k - 1 \in 1 .. n - 1 /\ (k - 1) + 1 = k
      BY <1>3, <2>1, <3>1
    <3>3. t[k - 1] = "dialog"
      BY <1>1, <3>1, <3>2
    <3> QED BY <1>1, <3>2, <3>3 DEF Asks
  <2>2. ASSUME Asks(t) PROVE Asks(p)
    BY <1>1, <1>2, <2>2 DEF Asks
  <2> QED BY <1>1, <2>1, <2>2 DEF Asks
<1> QED BY <1>4, <1>5, <1>6, <1>7 DEF t
-----------------------------------------------------------------------------
(***************************************************************************)
(* What a move of a request does to its agreement.                         *)
(***************************************************************************)

\* A request has agreed to the one effect of its script.
LEMMA AgreedIs ==
    ASSUME NEW q, q.todo \in Seq(Steps), OneEffect(q.todo)
    PROVE  /\ q.outcome # "running" \/ Asks(q.todo) \/ Ahead(q.todo) = {} => Agreed(q) = None
           /\ \A k \in Ahead(q.todo) :
                 q.outcome = "running" /\ ~Asks(q.todo) => Agreed(q) = EffectOf(q, q.todo[k])
<1>1. ASSUME NEW k \in Ahead(q.todo) PROVE Ahead(q.todo) = {k}
  <2>1. \A j \in Ahead(q.todo) : j <= k /\ k <= j /\ j \in Nat
    BY <1>1, LenProperties DEF OneEffect, Ahead
  <2> QED BY <1>1, <2>1
<1>2. ASSUME NEW k \in Ahead(q.todo) PROVE (CHOOSE j \in Ahead(q.todo) : TRUE) = k
  BY <1>2, <1>1
<1> QED BY <1>2 DEF Agreed

\* Request q becomes x: it is over, it stays or goes on with the script it has,
\* or what it had or has left to do has no effect.
Follows(q, x) ==
    \/ x.outcome # "running"
    \/ /\ x.call = q.call /\ x.bnd.fp = q.bnd.fp /\ x.snap = q.snap
       /\ x.todo \in {q.todo, Tail(q.todo)}
    \/ q.todo \in BareScripts /\ OneEffect(x.todo)
    \/ x.todo \in BareScripts

\* Such a move agrees to an effect, keeps an agreement, or gives it up.
LEMMA FollowsIsOne ==
    ASSUME NEW q \in RequestRecords, q.outcome = "running", q.todo # << >>, OneEffect(q.todo),
           NEW x \in RequestRecords, Follows(q, x)
    PROVE  /\ x.outcome = "running" => OneEffect(x.todo)
           /\ Agreed(x) \in {Agreed(q), None} \/ Agreed(q) = None
<1>1. q.todo \in Seq(Steps) /\ x.todo \in Seq(Steps)
  BY DEF RequestRecords
<1>2. CASE x.outcome # "running"
  BY <1>2 DEF Agreed
<1>3. CASE q.todo \in BareScripts /\ OneEffect(x.todo)
  BY <1>3, BareIsOne DEF Agreed
<1>4. CASE x.todo \in BareScripts
  BY <1>4, BareIsOne DEF Agreed
<1>5. CASE /\ x.outcome = "running"
           /\ x.call = q.call /\ x.bnd.fp = q.bnd.fp /\ x.snap = q.snap
           /\ x.todo \in {q.todo, Tail(q.todo)}
  <2>1. \A step : EffectOf(x, step) = EffectOf(q, step)
    BY <1>5 DEF EffectOf
  <2>2. CASE x.todo = q.todo
    <3>1. Agreed(x) = Agreed(q)
      BY <1>5, <2>1, <2>2, Zenon DEF Agreed
    <3> QED BY <1>5, <2>2, <3>1
  <2>3. CASE x.todo = Tail(q.todo)
    <3>1. OneEffect(x.todo)
      BY <1>1, <2>3, EffectOfTail
    <3>2. CASE Head(q.todo) \in Effective
      <4>1. Ahead(x.todo) = {}
        BY <1>1, <2>3, <3>2, EffectOfTail
      <4> QED BY <3>1, <4>1 DEF Agreed
    <3>3. CASE Head(q.todo) = "dialog"
      <4>1. Asks(q.todo)
        BY <1>1, <3>3, EffectOfTail
      <4> QED BY <3>1, <4>1 DEF Agreed
    <3>4. CASE Head(q.todo) \notin Effective /\ Head(q.todo) # "dialog"
      <4>1. /\ Asks(q.todo) <=> Asks(x.todo)
            /\ Ahead(q.todo) = {k + 1 : k \in Ahead(x.todo)}
            /\ \A k \in Ahead(x.todo) : x.todo[k] = q.todo[k + 1]
        <5>1. /\ Asks(q.todo) <=> Asks(Tail(q.todo))
              /\ Ahead(q.todo) = {k + 1 : k \in Ahead(Tail(q.todo))}
              /\ \A k \in Ahead(Tail(q.todo)) : Tail(q.todo)[k] = q.todo[k + 1]
          BY <1>1, <3>4, EffectOfTail
        <5> QED BY <2>3, <5>1, Zenon
      <4>2. CASE Asks(x.todo) \/ Ahead(x.todo) = {}
        BY <3>1, <4>2 DEF Agreed
      <4>3. CASE ~Asks(x.todo) /\ Ahead(x.todo) # {}
        <5>1. PICK k \in Ahead(x.todo) : TRUE
          BY <4>3
        <5>2. k + 1 \in Ahead(q.todo) /\ x.todo[k] = q.todo[k + 1]
          BY <4>1, <5>1
        <5>3. Agreed(x) = EffectOf(x, x.todo[k])
          BY <1>1, <1>5, <3>1, <4>3, <5>1, AgreedIs
        <5>4. Agreed(q) = EffectOf(q, q.todo[k + 1])
          BY <1>1, <4>1, <4>3, <5>2, AgreedIs
        <5> QED BY <2>1, <3>1, <5>2, <5>3, <5>4
      <4> QED BY <4>2, <4>3
    <3> QED BY <3>2, <3>3, <3>4
  <2> QED BY <1>5, <2>2, <2>3
<1> QED BY <1>2, <1>3, <1>4, <1>5 DEF Follows

-----------------------------------------------------------------------------
(***************************************************************************)
(* The scripts of the handlers.                                            *)
(***************************************************************************)

\* Before its plan is made a request has no effect, but for those that take
\* back what any wallet may hold.
LEMMA PreludeEffects ==
    ASSUME NEW c, NEW todo \in Preludes(c)
    PROVE  OneEffect(todo) /\ (todo \in BareScripts \/ Head(todo) \in {"disconnect", "untoken"})
<1> DEFINE F == Steps \ Effective
<1>1. {"connected", "bind", "snapshot", "active", "admit", "observe", "state"} \subseteq F
  BY DEF Steps, Effective, LockSteps, Observations, Resolutions
<1> HIDE DEF F
<1>2. CASE todo \in {Guarded, Ensure, <<"observe", "state">>, <<"snapshot", "active", "admit">>,
                     <<"active", "admit">>, <<"admit">>, <<"state">>}
  <2>1. todo \in Seq(F)
    <3>1. /\ Guarded \in Seq(F) /\ Ensure \in Seq(F) /\ <<"observe", "state">> \in Seq(F)
      BY <1>1 DEF Guarded, Ensure
    <3>2. <<"snapshot", "active", "admit">> \in Seq(F) /\ <<"active", "admit">> \in Seq(F)
      BY <1>1
    <3>3. <<"admit">> \in Seq(F) /\ <<"state">> \in Seq(F)
      BY <1>1
    <3> QED BY <1>2, <3>1, <3>2, <3>3, Zenon
  <2>2. todo \in BareScripts
    BY <2>1 DEF F, BareScripts
  <2> QED BY <2>2, BareIsOne
<1>3. ASSUME NEW step \in {"disconnect", "untoken"}, todo = <<step>>
      PROVE  OneEffect(todo) /\ Head(todo) \in {"disconnect", "untoken"}
  <2>1. Len(todo) = 1 /\ DOMAIN todo = 1 .. 1
    BY <1>3
  <2> QED BY <1>3, <2>1 DEF OneEffect, Ahead
<1>4. \/ todo \in {Guarded, Ensure, <<"observe", "state">>, <<"snapshot", "active", "admit">>,
                   <<"active", "admit">>, <<"admit">>, <<"state">>}
      \/ \E step \in {"disconnect", "untoken"} : todo = <<step>>
  <2>1. \/ todo = Opening(c)
        \/ todo \in {Ensure, <<"snapshot", "active", "admit">>, <<"active", "admit">>,
                     <<"admit">>, <<"state">>}
    BY DEF Preludes
  <2> QED BY <2>1, OpeningShape, Zenon
<1> QED BY <1>2, <1>3, <1>4

\* A page without a binding has no effect.
LEMMA DegradedEffects ==
    ASSUME NEW s
    PROVE  Degraded(s) \in BareScripts /\ <<"recheck">> \in BareScripts
<1> DEFINE F == Steps \ Effective
<1>1. "clearNotice" \in F /\ "recheck" \in F
  BY DEF Steps, Effective, LockSteps, Observations, Rechecks
<1> HIDE DEF F
<1>2. Degraded(s) \in Seq(F) /\ <<"recheck">> \in Seq(F)
  BY <1>1 DEF Degraded
<1> QED BY <1>2 DEF F, BareScripts

\* A plan has one effect at most, after its dialog: what an approval commits, or
\* the grant that a signature records.
LEMMA PlanEffects ==
    ASSUME NEW c \in AllCalls, NEW s \in GoodStores
    PROVE  OneEffect(Plan(c, s))
<1> DEFINE F == Steps \ Effective
           G == Steps \ (Effective \cup {"dialog"})
           P == Plan(c, s)
<1>1. /\ {"active", "owned", "target", "match", "unchanged", "settled", "recheck",
           "outward", "import", "sign", "submit", "clearNotice"} \subseteq G
      /\ G \subseteq F /\ F \subseteq Steps /\ "dialog" \in F
      /\ {"grant", "connect", "activate", "network", "token", "reveal", "revealThrough"}
             \subseteq Steps
  BY DEF Steps, Effective, LockSteps, Observations, Rechecks, Resolutions
<1>2. BareScripts = Seq(F) /\ SilentScripts = Seq(G)
  BY DEF BareScripts, SilentScripts
<1> HIDE DEF F, G, P
<1>3. /\ << >> \in Seq(F) /\ << >> \in Seq(G) /\ << >> \in Seq(Steps)
      /\ \A step \in F : <<step>> \in Seq(F)
      /\ \A step \in G : <<step>> \in Seq(G)
      /\ Seq(F) \subseteq Seq(Steps) /\ Seq(G) \subseteq Seq(F)
  BY <1>1
<1>4. \A p \in Seq(F), q \in Seq(F) : p \o q \in Seq(F)
  BY ConcatProperties
<1>5. ASSUME NEW p \in Seq(F) PROVE OneEffect(p) /\ p \in Seq(Steps)
  BY <1>2, <1>5, BareIsOne
<1>6. ASSUME NEW p \in Seq(F), NEW q \in Seq(Steps), OneEffect(q)
      PROVE  OneEffect(p \o q) /\ p \o q \in Seq(Steps)
  BY <1>2, <1>3, <1>6, EffectOfConcat
<1>7. ASSUME NEW p \in Seq(Steps), OneEffect(p), NEW q \in Seq(G)
      PROVE  OneEffect(p \o q) /\ p \o q \in Seq(Steps)
  BY <1>2, <1>3, <1>7, EffectOfConcat
<1>8. ASSUME NEW commit \in Steps
      PROVE  OneEffect(Approval(commit)) /\ Approval(commit) \in Seq(Steps)
  <2> DEFINE todo == Approval(commit)
  <2>1. /\ todo \in Seq(Steps) /\ DOMAIN todo = 1 .. 3
        /\ todo[1] = "dialog" /\ todo[2] = "unchanged" /\ todo[3] = commit
    BY <1>1 DEF Approval
  <2> HIDE DEF todo
  <2>2. \A j \in Ahead(todo) : j = 3
    <3>1. "dialog" \notin Effective /\ "unchanged" \notin Effective
      BY DEF Effective, LockSteps
    <3> QED BY <2>1, <3>1 DEF Ahead
  <2>3. OneEffect(todo)
    BY <2>1, <2>2 DEF OneEffect
  <2> QED BY <2>1, <2>3 DEF todo
<1>9. /\ OneEffect(<<"grant", "unchanged">>) /\ <<"grant", "unchanged">> \in Seq(Steps)
      /\ OneEffect(<<"unchanged", "grant", "unchanged">>)
      /\ <<"unchanged", "grant", "unchanged">> \in Seq(Steps)
  <2>1. "unchanged" \notin Effective \cup {"dialog"}
    BY DEF Effective, LockSteps
  <2>2. ASSUME NEW todo, DOMAIN todo = 1 .. 2, todo[2] = "unchanged"
        PROVE  OneEffect(todo)
    BY <2>1, <2>2 DEF OneEffect, Ahead
  <2>3. ASSUME NEW todo, DOMAIN todo = 1 .. 3, todo[1] = "unchanged", todo[3] = "unchanged"
        PROVE  OneEffect(todo)
    BY <2>1, <2>3 DEF OneEffect, Ahead
  <2>4. OneEffect(<<"grant", "unchanged">>)
    BY <2>2
  <2>5. OneEffect(<<"unchanged", "grant", "unchanged">>)
    BY <2>3
  <2> QED BY <1>1, <2>4, <2>5
<1>10. CASE c.op = "requestAccess"
  <2>1. P = <<"active">> \o (IF HasCurrentDisclosure(s, c.origin)
                             THEN <<"unchanged">> ELSE Approval("connect"))
    BY <1>10 DEF P, Plan, RequestAccessPlan
  <2> QED BY <1>1, <1>3, <1>5, <1>6, <1>8, <2>1 DEF P
<1>11. CASE c.op \in {"getAddress", "getAccounts", "fund", "getBalances", "disconnect",
                      "removeToken"}
  <2>1. P \in {<< >>, <<"active", "unchanged">>, <<"owned", "unchanged">>,
               <<"active", "unchanged", "outward">>, <<"active", "outward", "unchanged">>}
    BY <1>11 DEF P, Plan, GetAddressPlan, GetAccountsPlan, FundPlan, GetBalancesPlan
  <2>2. P \in Seq(F)
    <3>1. <<"active", "unchanged">> \in Seq(F) /\ <<"owned", "unchanged">> \in Seq(F)
      BY <1>1
    <3>2. <<"active", "unchanged", "outward">> \in Seq(F)
          /\ <<"active", "outward", "unchanged">> \in Seq(F)
      BY <1>1
    <3> QED BY <1>3, <2>1, <3>1, <3>2, Zenon
  <2> QED BY <1>5, <2>2 DEF P
<1>12. CASE c.op = "setActiveAccount"
  <2>1. P = (<<"target">> \o (IF s.active = c.arg THEN << >> ELSE Approval("activate")))
            \o <<"unchanged">>
    BY <1>12 DEF P, Plan, SetActiveAccountPlan
  <2> QED BY <1>1, <1>3, <1>5, <1>6, <1>7, <1>8, <2>1 DEF P
<1>13. CASE c.op = "setNetwork"
  <2>1. P \in {<< >>, Approval("network")}
    BY <1>13 DEF P, Plan, SetNetworkPlan
  <2> QED BY <1>1, <1>3, <1>5, <1>8, <2>1 DEF P
<1>14. CASE c.op = "addToken"
  <2>1. P = <<"outward">> \o Approval("token")
    BY <1>14 DEF P, Plan, AddTokenPlan
  <2> QED BY <1>1, <1>3, <1>6, <1>8, <2>1 DEF P
<1>15. CASE c.op \in Signing
  <2>1. Selection(c) \in Seq(F) /\ Signature \in Seq(F) /\ Submission(c) \in Seq(G)
    BY <1>1 DEF Selection, Signature, Submission
  <2>2. P \in {SignMessagePlan(c), SignTransactionPlan(c), SignAuthEntryPlan(c)}
    BY <1>15 DEF P, Plan, Signing
  <2>3. OneEffect(SignMessagePlan(c))
    BY <1>4, <1>6, <1>9, <2>1 DEF SignMessagePlan
  <2>4. OneEffect(SignTransactionPlan(c))
    BY <1>4, <1>6, <1>7, <1>9, <2>1 DEF SignTransactionPlan
  <2>5. OneEffect(SignAuthEntryPlan(c))
    <3>1. Selection(c) \o <<"outward">> \o Signature \in Seq(F)
      BY <1>1, <1>3, <1>4, <2>1
    <3> QED BY <1>6, <1>9, <3>1 DEF SignAuthEntryPlan
  <2> QED BY <2>2, <2>3, <2>4, <2>5 DEF P
<1>16. CASE c.op = "useAccount"
  <2>1. P \in {<< >>, <<"activate">>}
    BY <1>16 DEF P, Plan, UseAccountPlan
  <2>2. OneEffect(<<"activate">>)
    <3>1. Len(<<"activate">>) = 1 /\ DOMAIN <<"activate">> = 1 .. 1
      OBVIOUS
    <3> QED BY <3>1 DEF OneEffect, Ahead
  <2> QED BY <1>3, <1>5, <2>1, <2>2 DEF P
<1>17. CASE c.op \in {"addAccount", "findAccount"}
  <2>1. P \in {<< >>, <<"target">> \o Approval("reveal"), <<"target">> \o Approval("revealThrough")}
    BY <1>17 DEF P, Plan, AddAccountPlan, FindAccountPlan
  <2> QED BY <1>1, <1>3, <1>5, <1>6, <1>8, <2>1 DEF P
<1>18. CASE c.op = "home"
  <2>1. P = <<"owned">> \o (IF s.notice = "none" THEN << >> ELSE <<"clearNotice">>)
    BY <1>18 DEF P, Plan, HomePlan
  <2> QED BY <1>1, <1>3, <1>4, <1>5, <2>1 DEF P
<1>19. c.op \in {"requestAccess", "getAddress", "getAccounts", "setActiveAccount", "fund",
                 "getBalances", "setNetwork", "addToken", "useAccount", "addAccount",
                 "findAccount", "home", "disconnect", "removeToken"} \cup Signing
  BY DEF AllCalls, Signing
<1> QED BY <1>10, <1>11, <1>12, <1>13, <1>14, <1>15, <1>16, <1>17, <1>18, <1>19

-----------------------------------------------------------------------------
(***************************************************************************)
(* The moves of the requests.                                              *)
(***************************************************************************)

\* A request that is refused, or goes on as it is or without an effect.
LEMMA MovesFollow ==
    ASSUME NEW q \in RequestRecords
    PROVE  /\ \A outcome : outcome # "running" => Follows(q, Ended(outcome))
           /\ \A todo \in BareScripts : Follows(q, Continued(q, todo))
           /\ Follows(q, Advanced(q)) /\ Follows(q, Refused(q))
           /\ \A addr : Follows(q, Advanced([q EXCEPT !.addr = addr]))
           /\ \A key \in Phrases : Follows(q, Advanced([q EXCEPT !.key = key]))
<1>1. ASSUME NEW outcome, outcome # "running" PROVE Follows(q, Ended(outcome))
  BY <1>1, GoesOn DEF Follows
<1>2. ASSUME NEW todo \in BareScripts PROVE Follows(q, Continued(q, todo))
  <2>1. CASE todo = << >>
    BY <1>1, <2>1, GoesOn
  <2>2. CASE todo # << >>
    <3>1. Continued(q, todo).todo = todo
      BY <2>2, GoesOn
    <3> QED BY <3>1 DEF Follows
  <2> QED BY <2>1, <2>2
<1>3. ASSUME NEW y, y.todo = q.todo,
             \A todo : [y EXCEPT !.todo = todo, !.at = "start", !.seen = None, !.ticket = 0,
                                 !.miss = {}, !.outcome = "running"].call = q.call,
             \A todo : [y EXCEPT !.todo = todo, !.at = "start", !.seen = None, !.ticket = 0,
                                 !.miss = {}, !.outcome = "running"].bnd = q.bnd,
             \A todo : [y EXCEPT !.todo = todo, !.at = "start", !.seen = None, !.ticket = 0,
                                 !.miss = {}, !.outcome = "running"].snap = q.snap,
             \A todo : [y EXCEPT !.todo = todo, !.at = "start", !.seen = None, !.ticket = 0,
                                 !.miss = {}, !.outcome = "running"].todo = todo
      PROVE  Follows(q, Advanced(y))
  <2>1. CASE Tail(y.todo) = << >>
    BY <1>1, <2>1 DEF Advanced, Continued
  <2>2. CASE Tail(y.todo) # << >>
    <3> DEFINE x == [y EXCEPT !.todo = Tail(y.todo), !.at = "start", !.seen = None, !.ticket = 0,
                              !.miss = {}, !.outcome = "running"]
    <3>1. Advanced(y) = x
      BY <2>2 DEF Advanced, Continued
    <3>2. x.call = q.call /\ x.bnd = q.bnd /\ x.snap = q.snap /\ x.todo = Tail(q.todo)
      BY <1>3
    <3> HIDE DEF x
    <3> QED BY <3>1, <3>2 DEF Follows
  <2> QED BY <2>1, <2>2
<1>4. Follows(q, Advanced(q))
  BY <1>3 DEF RequestRecords
<1>5. ASSUME NEW addr PROVE Follows(q, Advanced([q EXCEPT !.addr = addr]))
  <2> DEFINE y == [q EXCEPT !.addr = addr]
  <2>1. y.todo = q.todo
    BY DEF RequestRecords
  <2>2. \A todo :
           LET x == [y EXCEPT !.todo = todo, !.at = "start", !.seen = None, !.ticket = 0,
                              !.miss = {}, !.outcome = "running"]
           IN x.call = q.call /\ x.bnd = q.bnd /\ x.snap = q.snap /\ x.todo = todo
    BY DEF RequestRecords
  <2> HIDE DEF y
  <2>3. Follows(q, Advanced(y))
    BY <1>3, <2>1, <2>2
  <2> QED BY <2>3 DEF y
<1>6. ASSUME NEW key \in Phrases PROVE Follows(q, Advanced([q EXCEPT !.key = key]))
  <2> DEFINE y == [q EXCEPT !.key = key]
  <2>1. y.todo = q.todo
    BY DEF RequestRecords
  <2>2. \A todo :
           LET x == [y EXCEPT !.todo = todo, !.at = "start", !.seen = None, !.ticket = 0,
                              !.miss = {}, !.outcome = "running"]
           IN x.call = q.call /\ x.bnd = q.bnd /\ x.snap = q.snap /\ x.todo = todo
    BY DEF RequestRecords
  <2> HIDE DEF y
  <2>3. Follows(q, Advanced(y))
    BY <1>3, <2>1, <2>2
  <2> QED BY <2>3 DEF y
<1>7. <<"state">> \in BareScripts
  <2>1. "state" \in Steps \ Effective
    BY DEF Steps, Effective, LockSteps
  <2> QED BY <2>1 DEF BareScripts
<1>8. Follows(q, Refused(q))
  BY <1>1, <1>2, <1>4, <1>7 DEF Refused
<1> QED BY <1>1, <1>2, <1>4, <1>5, <1>6, <1>8

\* A request whose script has no effect, and that gets a binding, a snapshot or
\* the plan with the one effect it will ask for.
LEMMA BareMoves ==
    ASSUME NEW q, q.todo \in BareScripts, NEW y \in RequestRecords
    PROVE  /\ \A todo : OneEffect(todo) => Follows(q, Continued(y, todo))
           /\ y.todo = q.todo /\ q.todo # << >> => Follows(q, Advanced(y))
<1>1. ASSUME NEW todo, OneEffect(todo) PROVE Follows(q, Continued(y, todo))
  <2>1. CASE todo = << >>
    BY <2>1, GoesOn DEF Follows
  <2>2. CASE todo # << >>
    <3>1. Continued(y, todo).todo = todo
      BY <2>2, GoesOn
    <3> QED BY <1>1, <3>1 DEF Follows
  <2> QED BY <2>1, <2>2
<1>2. ASSUME q.todo # << >> PROVE OneEffect(Tail(q.todo))
  BY <1>2, BareIsOne, EffectOfTail
<1> QED BY <1>1, <1>2 DEF Advanced

\* The steps that bind a request, read the store for it or make its plan belong to
\* scripts without an effect.
LEMMA PreludeIsBare ==
    ASSUME NEW q, Good(q), q.outcome = "running",
           Head(q.todo) \in {"admit", "snapshot", "state", "bind", "observe"}
    PROVE  q.todo \in BareScripts
<1>1. q.todo \in Preludes(q.call)
  BY StepShape
<1> QED BY <1>1, PreludeEffects

\* Each step of a request moves it so, whatever its script.
LEMMA RequestFollows ==
    ASSUME RequestInv, NEW r \in Requests, RequestStep(r)
    PROVE  \E x : Becomes(r, x) /\ Follows(req[r], x)
<1> DEFINE q == req[r]
<1>1. q \in RequestRecords
  BY DEF RequestInv, TypeOK
<1>2. \E at \in {"start", "fetch", "confirm", "await"} : At(r, at)
  BY Zenon DEF RequestStep, Observed, ReadSource, ConfirmSource, ObservationRefused, BindRequest,
     PhraseUnchanged, CheckConnected, TakeSnapshot, Admit, ReadState, Resolve, Memoize, Approve,
     Reject, Outward, Submit, SubmissionSettled, ReportFailure, ImportNode, NodeBound, Sign,
     Enqueue
<1>3. Good(q) /\ q.outcome = "running" /\ store \in GoodStores
  BY <1>2, Started
<1>4. q.call \in AllCalls /\ q.snap \in GoodStores /\ q.todo # << >>
  BY <1>3, StepShape
<1>5. << >> \in BareScripts /\ <<"recheck">> \in BareScripts
  BY DegradedEffects DEF BareScripts
<1>6. ASSUME Advance(r) \/ RefuseReq(r)
      PROVE  \E x : Becomes(r, x) /\ Follows(q, x)
  BY <1>1, <1>6, MovesFollow DEF Advance, RefuseReq
<1>7. CASE ReadSource(r)
  <2> DEFINE x == [q EXCEPT !.at = "confirm", !.seen = primary]
  <2>1. x.call = q.call /\ x.bnd = q.bnd /\ x.snap = q.snap /\ x.todo = q.todo
    BY <1>1 DEF RequestRecords
  <2>2. Becomes(r, x)
    BY <1>7 DEF ReadSource
  <2> QED BY <2>1, <2>2 DEF Follows
<1>8. CASE ConfirmSource(r)
  <2> DEFINE x == [q EXCEPT !.at = "await", !.ticket = reconciliationTicket']
  <2>1. x.call = q.call /\ x.bnd = q.bnd /\ x.snap = q.snap /\ x.todo = q.todo
    BY <1>1 DEF RequestRecords
  <2>2. RefuseReq(r) \/ Becomes(r, x)
    BY <1>8, Zenon DEF ConfirmSource
  <2> HIDE DEF x
  <2> QED BY <1>6, <2>1, <2>2 DEF Follows
<1>9. CASE ImportNode(r)
  <2> DEFINE x == [q EXCEPT !.at = "await", !.seen = q.bnd.source, !.ticket = reconciliationTicket']
  <2>1. x.call = q.call /\ x.bnd = q.bnd /\ x.snap = q.snap /\ x.todo = q.todo
    BY <1>1 DEF RequestRecords
  <2>2. RefuseReq(r) \/ Becomes(r, x)
    BY <1>9, Zenon DEF ImportNode
  <2> HIDE DEF x
  <2> QED BY <1>6, <2>1, <2>2 DEF Follows
<1>10. CASE ObservationRefused(r) \/ PhraseUnchanged(r) \/ Approve(r) \/ Outward(r) \/ NodeBound(r)
  BY <1>6, <1>10, Zenon DEF ObservationRefused, PhraseUnchanged, Approve, Outward, NodeBound
<1>11. CASE CheckConnected(r) \/ Submit(r) \/ SubmissionSettled(r)
  <2>1. \/ Advance(r) \/ RefuseReq(r)
        \/ Becomes(r, Continued(q, << >>)) \/ Becomes(r, Continued(q, <<"recheck">>))
    BY <1>11, Zenon DEF CheckConnected, Submit, SubmissionSettled
  <2> QED BY <1>1, <1>5, <1>6, <2>1, MovesFollow
<1>12. CASE Reject(r) \/ ReportFailure(r)
  BY <1>1, <1>12, MovesFollow DEF Reject, ReportFailure
<1>13. CASE BindRequest(r)
  <2>1. Head(q.todo) \in {"bind", "observe"} /\ Becomes(r, Advanced([q EXCEPT !.bnd = Seen(r)]))
    BY <1>13 DEF BindRequest, Step
  <2>2. Seen(r) \in Bindings
    BY <1>13, SeenIsBinding DEF BindRequest, Observed
  <2>3. [q EXCEPT !.bnd = Seen(r)] \in RequestRecords /\ [q EXCEPT !.bnd = Seen(r)].todo = q.todo
    BY <1>1, <2>2 DEF RequestRecords
  <2>4. Follows(q, Advanced([q EXCEPT !.bnd = Seen(r)]))
    BY <1>3, <1>4, <2>1, <2>3, PreludeIsBare, BareMoves
  <2> QED BY <2>1, <2>4
<1>14. [q EXCEPT !.snap = store] \in RequestRecords /\ [q EXCEPT !.snap = store].todo = q.todo
  BY <1>1, <1>3 DEF RequestRecords, GoodStores
<1>15. CASE TakeSnapshot(r)
  <2>1. /\ Head(q.todo) = "snapshot"
        /\ RefuseReq(r) \/ Becomes(r, Advanced([q EXCEPT !.snap = store]))
    BY <1>15, Zenon DEF TakeSnapshot, Step
  <2>2. Follows(q, Advanced([q EXCEPT !.snap = store]))
    BY <1>3, <1>4, <1>14, <2>1, PreludeIsBare, BareMoves
  <2> QED BY <1>6, <2>1, <2>2
<1>16. CASE Admit(r)
  <2>1. /\ Head(q.todo) = "admit"
        /\ RefuseReq(r) \/ Becomes(r, Continued(q, Plan(q.call, q.snap)))
    BY <1>16, Zenon DEF Admit, Step
  <2>2. Follows(q, Continued(q, Plan(q.call, q.snap)))
    BY <1>1, <1>3, <1>4, <2>1, PreludeIsBare, PlanEffects, BareMoves
  <2> QED BY <1>6, <2>1, <2>2
<1>17. CASE ReadState(r)
  <2> DEFINE todo == IF q.call.op = "home" THEN Degraded(store) ELSE Plan(q.call, store)
  <2>1. Head(q.todo) = "state" /\ Becomes(r, Continued([q EXCEPT !.snap = store], todo))
    BY <1>17, Zenon DEF ReadState, Step
  <2>2. OneEffect(todo)
    BY <1>3, <1>4, PlanEffects, DegradedEffects, BareIsOne
  <2> HIDE DEF todo
  <2>3. Follows(q, Continued([q EXCEPT !.snap = store], todo))
    BY <1>3, <1>14, <2>1, <2>2, PreludeIsBare, BareMoves
  <2> QED BY <2>1, <2>3
<1>18. ASSUME NEW want, NEW cache PROVE Follows(q, Resolved(q, want, cache))
  BY <1>1, MovesFollow, Zenon DEF Resolved
<1>19. CASE Resolve(r)
  <2> DEFINE x == [q EXCEPT !.at = "fetch", !.miss = Missing(r)]
  <2>1. x.call = q.call /\ x.bnd = q.bnd /\ x.snap = q.snap /\ x.todo = q.todo
    BY <1>1 DEF RequestRecords
  <2>2. Becomes(r, Resolved(q, Wants(r), addressCache)) \/ Becomes(r, x)
    BY <1>19, Zenon DEF Resolve
  <2> HIDE DEF x
  <2> QED BY <1>18, <2>1, <2>2 DEF Follows
<1>20. CASE Memoize(r)
  BY <1>18, <1>20, Zenon DEF Memoize
<1>21. CASE Sign(r)
  <2> DEFINE key == PhraseOf[q.bnd.source]
  <2>1. /\ Head(q.todo) = "sign"
        /\ RefuseReq(r) \/ Becomes(r, Advanced([q EXCEPT !.key = key]))
    BY <1>21, Zenon DEF Sign, Step
  <2>2. key \in Phrases
    BY <1>3, <2>1, StepShape, BindingAssumption
  <2> QED BY <1>1, <1>6, <2>1, <2>2, MovesFollow
<1>22. CASE Enqueue(r)
  <2> DEFINE x == [q EXCEPT !.at = "queued"]
  <2>1. x.call = q.call /\ x.bnd = q.bnd /\ x.snap = q.snap /\ x.todo = q.todo
    BY <1>1 DEF RequestRecords
  <2>2. Becomes(r, x)
    BY <1>22 DEF Enqueue
  <2> QED BY <2>1, <2>2 DEF Follows
<1> QED BY <1>7, <1>8, <1>9, <1>10, <1>11, <1>12, <1>13, <1>15, <1>16, <1>17, <1>19, <1>20,
           <1>21, <1>22 DEF RequestStep

-----------------------------------------------------------------------------
(***************************************************************************)
(* No script has more than one effect.                                     *)
(***************************************************************************)

\* What is known of the script of a running request.
LEMMA RunningRequest ==
    ASSUME RequestInv, EffectInv, NEW r \in Requests, Running(r)
    PROVE  /\ Good(req[r]) /\ req[r] \in RequestRecords /\ req[r].outcome = "running"
           /\ req[r].todo \in Seq(Steps) /\ req[r].todo # << >> /\ OneEffect(req[r].todo)
<1>1. Good(req[r]) /\ req[r].outcome = "running" /\ req[r] \in RequestRecords
  BY InvParts DEF RequestsGood, Running, RequestInv, TypeOK
<1> QED BY <1>1, StepShape DEF EffectInv, RequestRecords

\* Every running request moves to at most one effect.
LEMMA MoveKeepsOne ==
    ASSUME RequestInv, RequestInv', EffectInv, NEW r \in Requests, Running(r),
           NEW x, Becomes(r, x), Follows(req[r], x)
    PROVE  /\ EffectInv' /\ x \in RequestRecords
           /\ Agreed(x) \in {Agreed(req[r]), None} \/ Agreed(req[r]) = None
<1>1. req = [p \in Requests |-> req[p]]
  BY InvParts
<1>2. req'[r] = x /\ \A p \in Requests \ {r} : req'[p] = req[p]
  BY <1>1 DEF Becomes
<1>3. x \in RequestRecords
  BY <1>2 DEF RequestInv, TypeOK
<1>4. /\ x.outcome = "running" => OneEffect(x.todo)
      /\ Agreed(x) \in {Agreed(req[r]), None} \/ Agreed(req[r]) = None
  BY <1>3, RunningRequest, FollowsIsOne
<1> QED BY <1>2, <1>3, <1>4 DEF EffectInv, Running

\* A call arrives with at most one, and with nothing agreed to before.
LEMMA ArrivalIsOne ==
    ASSUME RequestInv, EffectInv, NEW r \in Requests, Arrive(r)
    PROVE  EffectInv' /\ Agreed(req[r]) = None /\ \E x : Becomes(r, x)
<1>1. req = [p \in Requests |-> req[p]]
  BY InvParts
<1>2. PICK c \in Calls : Start(r, c)
  BY DEF Arrive
<1> DEFINE x == Continued([Idle EXCEPT !.call = c], Opening(c))
<1>3. Becomes(r, x) /\ req[r].outcome = "idle"
  BY <1>2 DEF Start
<1>4. x.todo = Opening(c)
  BY OpeningIsScript DEF Continued, Idle
<1>5. OneEffect(x.todo)
  <2>1. Opening(c) \in Preludes(c)
    BY DEF Preludes
  <2> QED BY <1>4, <2>1, PreludeEffects
<1> HIDE DEF x
<1>6. req'[r] = x /\ \A p \in Requests \ {r} : req'[p] = req[p]
  BY <1>1, <1>3 DEF Becomes
<1>7. EffectInv'
  BY <1>5, <1>6 DEF EffectInv, Running
<1>8. Agreed(req[r]) = None
  BY <1>3 DEF Agreed
<1> QED BY <1>3, <1>7, <1>8

\* The request whose job has ended goes on or is refused.
LEMMA QueuedFollows ==
    ASSUME RequestInv, NEW r \in Requests, Advance(r) \/ RefuseReq(r)
    PROVE  \E x : Becomes(r, x) /\ Follows(req[r], x)
<1>1. req[r] \in RequestRecords
  BY DEF RequestInv, TypeOK
<1> QED BY <1>1, MovesFollow DEF Advance, RefuseReq

\* EffectInv is inductive relative to RequestInv.
LEMMA NextEffects ==
    ASSUME RequestInv, EffectInv, [Next]_vars
    PROVE  EffectInv'
<1>1. RequestInv'
  BY NextSafe
<1>2. ASSUME NEW r \in Requests, RequestStep(r) PROVE EffectInv'
  <2>1. \E at \in {"start", "fetch", "confirm", "await"} : At(r, at)
    BY <1>2, Zenon DEF RequestStep, Observed, ReadSource, ConfirmSource, ObservationRefused,
       BindRequest, PhraseUnchanged, CheckConnected, TakeSnapshot, Admit, ReadState, Resolve,
       Memoize, Approve, Reject, Outward, Submit, SubmissionSettled, ReportFailure, ImportNode,
       NodeBound, Sign, Enqueue
  <2>2. Running(r)
    BY <2>1 DEF At
  <2>3. PICK x : Becomes(r, x) /\ Follows(req[r], x)
    BY <1>2, RequestFollows
  <2> QED BY <1>1, <2>2, <2>3, MoveKeepsOne
<1>3. ASSUME NEW r \in Requests, Arrive(r) PROVE EffectInv'
  BY <1>3, ArrivalIsOne
<1>4. CASE LockStep
  <2>1. CASE UNCHANGED req
    BY <2>1 DEF EffectInv, Running
  <2>2. CASE /\ Job.by \in Requests /\ At(Job.by, "queued")
             /\ Advance(Job.by) \/ RefuseReq(Job.by)
    <3>1. Running(Job.by)
      BY <2>2 DEF At
    <3>2. PICK x : Becomes(Job.by, x) /\ Follows(req[Job.by], x)
      BY <2>2, QueuedFollows
    <3> QED BY <1>1, <2>2, <3>1, <3>2, MoveKeepsOne
  <2> QED BY <1>4, <2>1, <2>2, LockMovesOne
<1>5. CASE Crash
  <2>1. \A r \in Requests : ~Running(r)'
    BY <1>5 DEF Crash, Running, Ended, Idle
  <2> QED BY <2>1 DEF EffectInv
<1>6. CASE Switch \/ Quiet \/ UNCHANGED vars
  <2>1. UNCHANGED req
    BY <1>6, Zenon DEF Switch, Quiet, vars
  <2> QED BY <2>1 DEF EffectInv, Running
<1> QED BY <1>2, <1>3, <1>4, <1>5, <1>6 DEF Next

\* A script asks before its effect, and has one at most, in every reachable state.
THEOREM EffectsSound == Spec => []EffectInv
<1>1. Init => EffectInv
  BY DEF Init, EffectInv, Running, Idle
<1>2. RequestInv /\ EffectInv /\ [Next]_vars => EffectInv'
  BY NextEffects
<1> QED BY <1>1, <1>2, RequestsFit, PTL DEF Spec

-----------------------------------------------------------------------------
(***************************************************************************)
(* What is agreed to is an effect of the wallet.                           *)
(***************************************************************************)

\* The effect of a call's own step, under the phrase of its binding.
LEMMA OwnEffect ==
    ASSUME NEW q, q.call \in AllCalls, q.snap \in GoodStores,
           NEW step \in Effective, step \in OwnSteps(q.call, q.snap),
           step \in {"disconnect", "untoken"} \/ q.bnd.fp \in Phrases
    PROVE  EffectOf(q, step) \in Promised!Effects /\ EffectOf(q, step) # None
<1> DEFINE c == q.call
           by == q.bnd.fp
<1>1. NextAccountIndex(q.snap) \in Nat /\ Indices \subseteq Nat
  <2>1. PICK n \in Indices : q.snap.accounts = 0 .. n
    BY DEF GoodStores, GapFree
  <2>2. n \in Nat /\ q.snap \in Stores
    BY <2>1, StoreAssumption DEF Indices, GoodStores
  <2> QED BY <2>1, <2>2, NextOfRange, StoreAssumption DEF Indices
<1>2. CASE step \in {"connect", "grant"}
  <2>1. EffectOf(q, step) = [do |-> "connect", of |-> c.origin, by |-> by]
    BY <1>2 DEF EffectOf
  <2>2. c.origin \in Origins
    BY <1>2 DEF OwnSteps, AllCalls, Signing
  <2>3. [do |-> "connect", of |-> c.origin, by |-> by]
            \in [do : {"connect"}, of : Origins, by : Phrases]
    BY <1>2, <2>2
  <2> QED BY <2>1, <2>3, AbsenceAssumption, Zenon DEF Promised!Effects
<1>3. CASE step = "network"
  <2>1. EffectOf(q, step) = [do |-> "network", of |-> c.arg, by |-> by]
    BY <1>3 DEF EffectOf
  <2>2. c.arg \in Networks
    BY <1>3 DEF OwnSteps, AllCalls, Signing
  <2>3. [do |-> "network", of |-> c.arg, by |-> by]
            \in [do : {"network"}, of : Networks, by : Phrases]
    BY <1>3, <2>2
  <2> QED BY <2>1, <2>3, AbsenceAssumption, Zenon DEF Promised!Effects
<1>4. CASE step = "token"
  <2>1. EffectOf(q, step) = [do |-> "token", of |-> <<q.snap.network, c.arg>>, by |-> by]
    BY <1>4 DEF EffectOf
  <2>2. c.arg \in Tokens /\ q.snap.network \in Networks
    BY <1>4 DEF OwnSteps, AllCalls, Signing, GoodStores, Stores
  <2>3. [do |-> "token", of |-> <<q.snap.network, c.arg>>, by |-> by]
            \in [do : {"token"}, of : Networks \X Tokens, by : Phrases]
    BY <1>4, <2>2
  <2> QED BY <2>1, <2>3, AbsenceAssumption, Zenon DEF Promised!Effects
<1>5. CASE step = "activate"
  <2>1. EffectOf(q, step) = [do |-> "activate", of |-> c.arg, by |-> by]
    BY <1>5 DEF EffectOf
  <2>2. c.arg \in Nat
    BY <1>1, <1>5 DEF OwnSteps, AllCalls, Signing
  <2>3. [do |-> "activate", of |-> c.arg, by |-> by]
            \in [do : {"activate"}, of : Nat, by : Phrases]
    BY <1>5, <2>2
  <2> QED BY <2>1, <2>3, AbsenceAssumption, Zenon DEF Promised!Effects
<1>6. CASE step \in {"reveal", "revealThrough"}
  <2>1. EffectOf(q, step) = [do |-> "reveal", of |-> Shown(c, q.snap), by |-> by]
    BY <1>6 DEF EffectOf
  <2>2. Shown(c, q.snap) \in SUBSET Nat
    <3>1. c.op = "findAccount" => c.arg \in Nat
      BY <1>1 DEF AllCalls, Signing
    <3> QED BY <1>1, <3>1 DEF Shown
  <2>3. [do |-> "reveal", of |-> Shown(c, q.snap), by |-> by]
            \in [do : {"reveal"}, of : SUBSET Nat, by : Phrases]
    BY <1>6, <2>2
  <2> QED BY <2>1, <2>3, AbsenceAssumption, Zenon DEF Promised!Effects
<1>7. CASE step = "disconnect"
  <2>1. EffectOf(q, step) = [do |-> "disconnect", of |-> c.arg, by |-> None]
    BY <1>7 DEF EffectOf
  <2>2. c.arg \in Origins
    BY <1>7 DEF OwnSteps, AllCalls, Signing
  <2>3. [do |-> "disconnect", of |-> c.arg, by |-> None]
            \in [do : {"disconnect"}, of : Origins, by : {None}]
    BY <2>2
  <2> QED BY <2>1, <2>3, AbsenceAssumption, Zenon DEF Promised!Effects
<1>8. CASE step = "untoken"
  <2>1. EffectOf(q, step) = [do |-> "untoken", of |-> c.arg, by |-> None]
    BY <1>8 DEF EffectOf
  <2>2. c.arg \in Networks \X Tokens
    BY <1>8 DEF OwnSteps, AllCalls, Signing
  <2>3. [do |-> "untoken", of |-> c.arg, by |-> None]
            \in [do : {"untoken"}, of : Networks \X Tokens, by : {None}]
    BY <2>2
  <2> QED BY <2>1, <2>3, AbsenceAssumption, Zenon DEF Promised!Effects
<1>9. step \in {"connect", "grant", "network", "token", "activate", "reveal", "revealThrough",
                "disconnect", "untoken"}
  BY DEF Effective, LockSteps
<1> QED BY <1>2, <1>3, <1>4, <1>5, <1>6, <1>7, <1>8, <1>9

\* So what a running request has agreed to is an effect.
LEMMA AgreedIsEffect ==
    ASSUME NEW q, Good(q), q.outcome = "running", OneEffect(q.todo),
           q.bnd.source \in Sources => q.bnd.fp \in Phrases
    PROVE  Agreed(q) = None \/ Agreed(q) \in Promised!Effects
<1>1. /\ q.call \in AllCalls /\ q.snap \in GoodStores /\ q.todo # << >>
      /\ q.todo \in Seq(Steps) /\ q \in RequestRecords /\ RequestOK(q)
  BY StepShape DEF RequestRecords, Good
<1>2. CASE q.todo \in BareScripts
  BY <1>2, BareIsOne DEF Agreed
<1>3. CASE Head(q.todo) \in {"disconnect", "untoken"}
  <2>1. Head(q.todo) \in Effective
    BY <1>3 DEF Effective, LockSteps
  <2>2. 1 \in Ahead(q.todo) /\ q.todo[1] = Head(q.todo) /\ ~Asks(q.todo)
    BY <1>1, <2>1, EffectOfTail
  <2>3. Agreed(q) = EffectOf(q, Head(q.todo))
    BY <1>1, <2>2, AgreedIs
  <2>4. Head(q.todo) \in OwnSteps(q.call, q.snap)
    BY <2>1, StepShape DEF Effective
  <2> QED BY <1>1, <1>3, <2>1, <2>3, <2>4, OwnEffect
<1>4. CASE q.todo \notin BareScripts /\ Head(q.todo) \notin {"disconnect", "untoken"}
  <2>1. q.todo \notin Preludes(q.call)
    BY <1>4, PreludeEffects
  <2>2. q.todo \notin Unbound(q.call)
    <3>1. <<"clearNotice">> \in BareScripts
      <4>1. "clearNotice" \in Steps \ Effective
        BY DEF Steps, Effective, LockSteps
      <4> QED BY <4>1 DEF BareScripts
    <3> QED BY <1>4, <2>1, <3>1 DEF Unbound, Preludes
  <2>3. q.bnd.fp \in Phrases /\ q.todo \in Seq(Fitting(q.call, q.snap))
    BY <1>1, <2>1, <2>2 DEF RequestOK
  <2>4. ASSUME q.outcome = "running", ~Asks(q.todo), NEW k \in Ahead(q.todo)
        PROVE  Agreed(q) \in Promised!Effects
    <3>1. Agreed(q) = EffectOf(q, q.todo[k])
      BY <1>1, <2>4, AgreedIs
    <3>2. q.todo[k] \in Fitting(q.call, q.snap) /\ q.todo[k] \in Effective
      BY <2>3, <2>4, ElementOfSeq, LenProperties DEF Ahead
    <3>3. q.todo[k] \in OwnSteps(q.call, q.snap)
      BY <3>2 DEF Fitting, Effective, LockSteps, Rechecks
    <3> QED BY <1>1, <2>3, <3>1, <3>2, <3>3, OwnEffect
  <2> QED BY <2>4 DEF Agreed
<1> QED BY <1>2, <1>3, <1>4

-----------------------------------------------------------------------------
(***************************************************************************)
(* What a mutator writes is the effect that was agreed to.                 *)
(***************************************************************************)

\* The grants of the wallet, of a store s.
GrantsOf(s) == [o \in Origins |-> IF HasGrant(s, o) THEN s.origins[o].disclosure ELSE None]

\* Both modules count alike.
LEMMA CountsAlike == \A S : Promised!Cardinality(S) = Cardinality(S)
BY Zenon DEF Promised!Cardinality, Cardinality

\* A site is connected, and a registry cut at its cap.
LEMMA ConnectHad ==
    ASSUME NEW s \in GoodStores, NEW o \in Origins, NEW fp, NEW now \in Times,
           NEW v \in ConnectOrigin(s, o, fp, now), v.do = "write",
           Committed = s, Committed' = v.new
    PROVE  s.fp = fp /\ Promised!Connect(o)
<1> DEFINE co   == ConnectedOrigins(s, o, now)
           with == [GrantsOf(s) EXCEPT ![o] = "current"]
<1>1. s \in Stores
  BY DEF GoodStores
<1>2. s.fp = fp /\ \E kept \in NormalizeOrigins(co) : v = Write([s EXCEPT !.origins = kept])
  BY DEF ConnectOrigin, Refuse, Keep
<1>3. PICK keep \in Kept(co) :
         v = Write([s EXCEPT !.origins = [p \in Origins |-> IF p \in keep THEN co[p] ELSE None]])
  BY <1>2 DEF NormalizeOrigins
<1> DEFINE kept == [p \in Origins |-> IF p \in keep THEN co[p] ELSE None]
<1>4. /\ v.new.origins = kept /\ v.new.fp = s.fp /\ v.new.accounts = s.accounts
      /\ v.new.active = s.active /\ v.new.network = s.network /\ v.new.tokens = s.tokens
  BY <1>1, <1>3 DEF Write, Stores
<1>5. None \notin Grants /\ None \notin {"none", "current"}
  BY AbsenceAssumption
<1>6. /\ s.origins \in [Origins -> Grants \cup {None}]
      /\ co \in [Origins -> Grants \cup {None}]
      /\ co[o] \in Grants /\ co[o].disclosure = "current"
      /\ \A p \in Origins \ {o} : co[p] = s.origins[p]
  <2>1. s.origins \in [Origins -> Grants \cup {None}]
    BY <1>1 DEF Stores
  <2>2. (IF HasGrant(s, o) THEN s.origins[o].connectedAt ELSE now) \in Times
    BY <2>1 DEF HasGrant, Grants
  <2> QED BY <2>1, <2>2 DEF ConnectedOrigins, Grants
<1>7. /\ with \in [Origins -> {"none", "current", None}]
      /\ \A p \in Origins : with[p] = IF co[p] # None THEN co[p].disclosure ELSE None
      /\ \A p \in Origins : co[p] # None => co[p].disclosure \in {"none", "current"}
  BY <1>5, <1>6 DEF GrantsOf, HasGrant, Grants
<1>8. Granted(co) = {p \in Origins : with[p] # None}
  BY <1>5, <1>7 DEF Granted
<1>9. keep \subseteq Granted(co)
  BY DEF Kept
<1>10. GrantsOf(v.new) = [p \in Origins |-> IF p \in keep THEN with[p] ELSE None]
  <2>1. ASSUME NEW p \in Origins
        PROVE  (IF HasGrant(v.new, p) THEN v.new.origins[p].disclosure ELSE None)
                 = IF p \in keep THEN with[p] ELSE None
    <3>1. v.new.origins[p] = IF p \in keep THEN co[p] ELSE None
      BY <1>4
    <3>2. p \in keep => co[p] # None
      BY <1>9 DEF Granted
    <3> QED BY <1>7, <3>1, <3>2 DEF HasGrant
  <2> QED BY <2>1 DEF GrantsOf
<1> HIDE DEF with, co, kept
<1>11. /\ \A p \in Origins : GrantsOf(v.new)[p] \in {with[p], None}
       /\ {p \in Origins : GrantsOf(v.new)[p] # None} = keep
  BY <1>8, <1>9, <1>10
<1>12. IF Cardinality({p \in Origins : with[p] # None}) <= MaxTrackedGrants
       THEN GrantsOf(v.new) = with
       ELSE Cardinality({p \in Origins : GrantsOf(v.new)[p] # None}) = MaxTrackedGrants
  <2>1. CASE Cardinality(Granted(co)) <= MaxTrackedGrants
    <3>1. keep = Granted(co)
      BY <2>1 DEF Kept
    <3>2. GrantsOf(v.new) = with
      BY <1>7, <1>8, <1>10, <3>1
    <3> QED BY <1>8, <2>1, <3>2
  <2>2. CASE ~(Cardinality(Granted(co)) <= MaxTrackedGrants)
    <3>1. Cardinality(keep) = MaxTrackedGrants
      BY <2>2 DEF Kept
    <3> QED BY <1>8, <1>11, <2>2, <3>1
  <2> QED BY <2>1, <2>2
<1>13. /\ [p \in Origins |-> IF HasGrant(Committed, p)
                             THEN Committed.origins[p].disclosure ELSE None] = GrantsOf(s)
       /\ [p \in Origins |-> IF HasGrant(Committed, p)
                             THEN Committed.origins[p].disclosure ELSE None]' = GrantsOf(v.new)
  BY DEF GrantsOf, HasGrant
<1> DEFINE g == [p \in Origins |-> IF HasGrant(Committed, p)
                                   THEN Committed.origins[p].disclosure ELSE None]
<1>14. with = [g EXCEPT ![o] = "current"]
  BY <1>13 DEF with
<1>15. g' = GrantsOf(v.new)
  BY <1>13
<1>16. /\ \A p \in Origins : g'[p] \in {with[p], None}
       /\ IF Cardinality({p \in Origins : with[p] # None}) <= MaxTrackedGrants
          THEN g' = with
          ELSE Cardinality({p \in Origins : g'[p] # None}) = MaxTrackedGrants
  BY <1>11, <1>12, <1>15, Zenon
<1>17. UNCHANGED <<Committed.fp, Committed.accounts, Committed.active, Committed.network,
                   Committed.tokens>>
  BY <1>4
<1>18. Promised!Connect(o)
  BY <1>14, <1>16, <1>17, CountsAlike, Zenon DEF Promised!Connect, Promised!Connected
<1> QED BY <1>2, <1>18

\* The part of the wallet that a mutator leaves alone.
LEMMA GrantsStay ==
    ASSUME NEW s, NEW t, Committed = s, Committed' = t, t.origins = s.origins
    PROVE  UNCHANGED [o \in Origins |-> IF HasGrant(Committed, o)
                                        THEN Committed.origins[o].disclosure ELSE None]
<1>1. /\ [p \in Origins |-> IF HasGrant(Committed, p)
                             THEN Committed.origins[p].disclosure ELSE None] = GrantsOf(s)
      /\ [p \in Origins |-> IF HasGrant(Committed, p)
                            THEN Committed.origins[p].disclosure ELSE None]' = GrantsOf(t)
  BY DEF GrantsOf, HasGrant
<1>2. GrantsOf(s) = GrantsOf(t)
  BY DEF GrantsOf, HasGrant
<1> QED BY <1>1, <1>2

\* The preferences, and what is taken back.
LEMMA PreferenceHad ==
    ASSUME NEW s \in GoodStores, NEW fp, NEW v, v.do = "write",
           Committed = s, Committed' = v.new
    PROVE  /\ \A n \in Networks :
                 v = SetActiveNetwork(s, n, fp) => s.fp = fp /\ Promised!SetNetwork(n)
           /\ \A n \in Networks, t \in Tokens :
                 /\ v = AddToken(s, n, t, fp) => s.fp = fp /\ Promised!Track(n, t)
                 /\ v = RemoveToken(s, n, t) => Promised!Untrack(n, t)
           /\ \A i : v = SetActiveAccount(s, i, fp) => s.fp = fp /\ Promised!Activate(i)
<1>1. s \in Stores
  BY DEF GoodStores
<1>2. ASSUME NEW n \in Networks, v = SetActiveNetwork(s, n, fp)
      PROVE  s.fp = fp /\ Promised!SetNetwork(n)
  <2>1. s.fp = fp /\ v.new = [s EXCEPT !.network = n]
    BY <1>2 DEF SetActiveNetwork, Refuse, Keep, Write
  <2>2. /\ v.new.origins = s.origins /\ v.new.fp = s.fp /\ v.new.accounts = s.accounts
        /\ v.new.active = s.active /\ v.new.network = n /\ v.new.tokens = s.tokens
    BY <1>1, <2>1 DEF Stores
  <2>3. Promised!SetNetwork(n)
    BY <2>2, GrantsStay DEF Promised!SetNetwork
  <2> QED BY <2>1, <2>3
<1>3. ASSUME NEW n \in Networks, NEW t \in Tokens, v = AddToken(s, n, t, fp)
      PROVE  s.fp = fp /\ Promised!Track(n, t)
  <2>1. s.fp = fp /\ v.new = [s EXCEPT !.tokens[n] = @ \cup {t}]
    BY <1>3 DEF AddToken, Refuse, Keep, Write
  <2>2. /\ v.new.origins = s.origins /\ v.new.fp = s.fp /\ v.new.accounts = s.accounts
        /\ v.new.active = s.active /\ v.new.network = s.network
        /\ v.new.tokens = [s.tokens EXCEPT ![n] = @ \cup {t}]
    BY <1>1, <2>1 DEF Stores
  <2>3. Promised!Track(n, t)
    BY <2>2, GrantsStay DEF Promised!Track
  <2> QED BY <2>1, <2>3
<1>4. ASSUME NEW n \in Networks, NEW t \in Tokens, v = RemoveToken(s, n, t)
      PROVE  Promised!Untrack(n, t)
  <2>1. v.new = [s EXCEPT !.tokens[n] = @ \ {t}]
    BY <1>4 DEF RemoveToken, Keep, Write
  <2>2. /\ v.new.origins = s.origins /\ v.new.fp = s.fp /\ v.new.accounts = s.accounts
        /\ v.new.active = s.active /\ v.new.network = s.network
        /\ v.new.tokens = [s.tokens EXCEPT ![n] = @ \ {t}]
    BY <1>1, <2>1 DEF Stores
  <2> QED BY <2>2, GrantsStay DEF Promised!Untrack
<1>5. ASSUME NEW i, v = SetActiveAccount(s, i, fp)
      PROVE  s.fp = fp /\ Promised!Activate(i)
  <2>1. s.fp = fp /\ i \in s.accounts /\ v.new = [s EXCEPT !.active = i]
    BY <1>5 DEF SetActiveAccount, Refuse, Keep, Write
  <2>2. /\ v.new.origins = s.origins /\ v.new.fp = s.fp /\ v.new.accounts = s.accounts
        /\ v.new.active = i /\ v.new.network = s.network /\ v.new.tokens = s.tokens
    BY <1>1, <2>1 DEF Stores
  <2>3. Promised!Activate(i)
    BY <2>1, <2>2, GrantsStay DEF Promised!Activate
  <2> QED BY <2>1, <2>3
<1> QED BY <1>2, <1>3, <1>4, <1>5

\* A site is disconnected, and a notice, which the wallet does not have, goes.
LEMMA DisconnectHad ==
    ASSUME NEW s \in GoodStores, NEW o \in Origins, NEW v, v.do = "write",
           v = DisconnectOrigin(s, o), Committed = s, Committed' = v.new
    PROVE  Promised!Disconnect(o)
<1>1. s \in Stores
  BY DEF GoodStores
<1>2. v.new = [s EXCEPT !.origins[o] = None]
  BY DEF DisconnectOrigin, Keep, Write
<1>3. /\ v.new.origins = [s.origins EXCEPT ![o] = None] /\ v.new.fp = s.fp
      /\ v.new.accounts = s.accounts /\ v.new.active = s.active
      /\ v.new.network = s.network /\ v.new.tokens = s.tokens
  BY <1>1, <1>2 DEF Stores
<1>4. GrantsOf(v.new) = [GrantsOf(s) EXCEPT ![o] = None]
  <2>1. s.origins \in [Origins -> Grants \cup {None}]
    BY <1>1 DEF Stores
  <2> QED BY <1>3, <2>1 DEF GrantsOf, HasGrant
<1> DEFINE g == [p \in Origins |-> IF HasGrant(Committed, p)
                                   THEN Committed.origins[p].disclosure ELSE None]
<1>5. g = GrantsOf(s) /\ g' = GrantsOf(v.new)
  BY DEF GrantsOf, HasGrant
<1>6. g' = [g EXCEPT ![o] = None]
  BY <1>4, <1>5
<1>7. UNCHANGED <<Committed.fp, Committed.accounts, Committed.active, Committed.network,
                  Committed.tokens>>
  BY <1>3
<1> QED BY <1>6, <1>7, Zenon DEF Promised!Disconnect

\* Accounts to reveal in a store s, from the next one on.
Onward(s, indices) ==
    /\ indices \in SUBSET Nat
    /\ \A i \in indices : i >= NextAccountIndex(s)
                          /\ (i - 1 \in indices \/ i = NextAccountIndex(s))

\* Accounts are revealed.
LEMMA RevealHad ==
    ASSUME NEW s \in GoodStores, NEW indices, Onward(s, indices), NEW v,
           v.new = [s EXCEPT !.accounts = @ \cup indices],
           Committed = s, Committed' = v.new
    PROVE  Promised!Reveal(indices)
<1>1. s \in Stores
  BY DEF GoodStores
<1>2. PICK n \in Indices : s.accounts = 0 .. n
  BY DEF GoodStores, GapFree
<1>3. n \in Nat /\ NextAccountIndex(s) = n + 1
  <2>1. n \in Nat
    BY StoreAssumption DEF Indices
  <2> QED BY <1>1, <1>2, <2>1, NextOfRange
<1>4. /\ v.new.origins = s.origins /\ v.new.fp = s.fp
      /\ v.new.accounts = s.accounts \cup indices
      /\ v.new.active = s.active /\ v.new.network = s.network /\ v.new.tokens = s.tokens
  BY <1>1 DEF Stores
<1>5. /\ \A i \in indices, j \in s.accounts : j < i
      /\ \A i \in indices : i - 1 \in s.accounts \cup indices
  <2>1. ASSUME NEW i \in indices PROVE i \in Nat /\ n < i /\ (i - 1 \in indices \/ i - 1 = n)
    BY <1>3 DEF Onward
  <2>2. n \in s.accounts /\ \A j \in s.accounts : j \in Nat /\ j <= n
    BY <1>2, <1>3
  <2>3. ASSUME NEW i \in indices, NEW j \in s.accounts PROVE j < i
    <3>1. i \in Nat /\ n < i
      BY <2>1
    <3>2. j \in Nat /\ j <= n
      BY <2>2
    <3> QED BY <1>3, <3>1, <3>2
  <2> QED BY <2>1, <2>2, <2>3
<1> QED BY <1>4, <1>5, GrantsStay DEF Promised!Reveal

\* The wallet becomes another phrase's when its binding is reconciled.
LEMMA BelongHad ==
    ASSUME NEW s \in GoodStores, NEW p \in Phrases, NEW v, v.do = "write",
           v = ReconcileEntropyBinding(s, p), Committed = s, Committed' = v.new,
           UNCHANGED [r \in Requests |-> Agreed(req[r])]
    PROVE  Promised!Belong(p)
<1>1. s \in Stores /\ s.fp # p
  BY DEF GoodStores, ReconcileEntropyBinding, Keep
<1>2. CASE s.fp = None
  <2>1. v.new = [s EXCEPT !.fp = p]
    BY <1>1, <1>2 DEF ReconcileEntropyBinding, Write
  <2>2. /\ v.new.origins = s.origins /\ v.new.fp = p /\ v.new.accounts = s.accounts
        /\ v.new.active = s.active /\ v.new.network = s.network /\ v.new.tokens = s.tokens
    BY <1>1, <2>1 DEF Stores
  <2> QED BY <1>1, <1>2, <2>2, GrantsStay DEF Promised!Belong
<1>3. CASE s.fp # None
  <2>1. v.new = [DefaultState EXCEPT !.network = s.network, !.tokens = s.tokens, !.fp = p,
                                     !.notice = "phrase-changed"]
    BY <1>1, <1>3 DEF ReconcileEntropyBinding, Write
  <2>2. /\ v.new.origins = [o \in Origins |-> None] /\ v.new.fp = p /\ v.new.accounts = {0}
        /\ v.new.active = 0 /\ v.new.network = s.network /\ v.new.tokens = s.tokens
    BY <2>1 DEF DefaultState
  <2>3. [o \in Origins |-> IF HasGrant(Committed, o)
                           THEN Committed.origins[o].disclosure ELSE None]'
          = [o \in Origins |-> None]
    BY <2>2 DEF HasGrant
  <2> QED BY <1>1, <1>3, <2>2, <2>3 DEF Promised!Belong
<1> QED BY <1>2, <1>3

\* What a mutator of a call's own script writes is the effect that its request
\* has agreed to.
LEMMA EffectHad ==
    ASSUME NEW q, q.call \in AllCalls, q.snap \in GoodStores,
           NEW step \in Effective, step \in OwnSteps(q.call, q.snap), NEW s \in GoodStores,
           NEW v \in Mutation(step, q.call, q.snap, q.bnd.fp, s), v.do = "write",
           Committed = s, Committed' = v.new
    PROVE  Promised!Effect(EffectOf(q, step))
<1> DEFINE c  == q.call
           fp == q.bnd.fp
           e  == EffectOf(q, step)
<1>1. CASE step \in {"connect", "grant"}
  <2>1. e.do = "connect" /\ e.of = c.origin /\ e.by = fp
    BY <1>1 DEF EffectOf
  <2>2. c.origin \in Origins
    BY <1>1 DEF OwnSteps, AllCalls, Signing
  <2>3. PICK now \in Times : v \in ConnectOrigin(s, c.origin, fp, now)
    BY <1>1 DEF Mutation
  <2>4. s.fp = fp /\ Promised!Connect(c.origin)
    BY <2>2, <2>3, ConnectHad
  <2> HIDE DEF e
  <2>5. Promised!Effect(e)
    BY <2>1, <2>4 DEF Promised!Effect
  <2> QED BY <2>5 DEF e
<1>2. CASE step = "network"
  <2>1. e.do = "network" /\ e.of = c.arg /\ e.by = fp
    BY <1>2 DEF EffectOf
  <2>2. c.arg \in Networks /\ v = SetActiveNetwork(s, c.arg, fp)
    BY <1>2 DEF OwnSteps, AllCalls, Signing, Mutation
  <2>3. s.fp = fp /\ Promised!SetNetwork(c.arg)
    BY <2>2, PreferenceHad
  <2> HIDE DEF e
  <2>4. Promised!Effect(e)
    BY <2>1, <2>3 DEF Promised!Effect
  <2> QED BY <2>4 DEF e
<1>3. CASE step = "token"
  <2>1. e.do = "token" /\ e.of[1] = q.snap.network /\ e.of[2] = c.arg /\ e.by = fp
    BY <1>3 DEF EffectOf
  <2>2. /\ c.arg \in Tokens /\ q.snap.network \in Networks
        /\ v = AddToken(s, q.snap.network, c.arg, fp)
    BY <1>3 DEF OwnSteps, AllCalls, Signing, Mutation, GoodStores, Stores
  <2>3. s.fp = fp /\ Promised!Track(q.snap.network, c.arg)
    <3>1. \A n \in Networks, t \in Tokens :
             v = AddToken(s, n, t, fp) => s.fp = fp /\ Promised!Track(n, t)
      BY PreferenceHad
    <3> QED BY <2>2, <3>1, Zenon
  <2> HIDE DEF e
  <2>4. Promised!Effect(e)
    BY <2>1, <2>3 DEF Promised!Effect
  <2> QED BY <2>4 DEF e
<1>4. CASE step = "activate"
  <2>1. e.do = "activate" /\ e.of = c.arg /\ e.by = fp
    BY <1>4 DEF EffectOf
  <2>2. v = SetActiveAccount(s, c.arg, fp)
    BY <1>4 DEF Mutation
  <2>3. s.fp = fp /\ Promised!Activate(c.arg)
    BY <2>2, PreferenceHad
  <2> HIDE DEF e
  <2>4. Promised!Effect(e)
    BY <2>1, <2>3 DEF Promised!Effect
  <2> QED BY <2>4 DEF e
<1>5. CASE step \in {"reveal", "revealThrough"}
  <2>1. e.do = "reveal" /\ e.of = Shown(c, q.snap) /\ e.by = fp
    BY <1>5 DEF EffectOf
  <2>2. NextAccountIndex(q.snap) \in Nat /\ Indices \subseteq Nat
    <3>1. PICK n \in Indices : q.snap.accounts = 0 .. n
      BY DEF GoodStores, GapFree
    <3>2. n \in Nat /\ q.snap \in Stores
      BY <3>1, StoreAssumption DEF Indices, GoodStores
    <3> QED BY <3>1, <3>2, NextOfRange, StoreAssumption DEF Indices
  <2> DEFINE m       == NextAccountIndex(q.snap)
             indices == Shown(c, q.snap)
  <2>3. /\ s.fp = fp /\ v.new = [s EXCEPT !.accounts = @ \cup indices]
        /\ m = NextAccountIndex(s) /\ (indices = {m} \/ \E i \in Indices : indices = m .. i)
    <3>1. CASE step = "reveal"
      <4>1. c.op = "addAccount" /\ v = RevealAccount(s, m, fp)
        BY <3>1 DEF OwnSteps, AllCalls, Signing, Mutation
      <4> QED BY <4>1 DEF RevealAccount, Refuse, Keep, Write, Shown
    <3>2. CASE step = "revealThrough"
      <4>1. c.op = "findAccount" /\ v = RevealAccountsThrough(s, c.arg, m, fp)
        BY <3>2 DEF OwnSteps, AllCalls, Signing, Mutation
      <4> QED BY <4>1 DEF RevealAccountsThrough, Refuse, Keep, Write, Shown
    <3> QED BY <1>5, <3>1, <3>2
  <2>4. Onward(s, indices)
    BY <2>2, <2>3 DEF Onward
  <2> HIDE DEF m, indices
  <2>5. s.fp = fp /\ Promised!Reveal(indices)
    BY <2>3, <2>4, RevealHad
  <2> HIDE DEF e
  <2>6. Promised!Effect(e)
    BY <2>1, <2>5 DEF Promised!Effect, indices
  <2> QED BY <2>6 DEF e
<1>6. CASE step = "disconnect"
  <2>1. e.do = "disconnect" /\ e.of = c.arg /\ e.by = None
    BY <1>6 DEF EffectOf
  <2>2. c.arg \in Origins /\ v = DisconnectOrigin(s, c.arg)
    BY <1>6 DEF OwnSteps, AllCalls, Signing, Mutation
  <2>3. Promised!Disconnect(c.arg)
    BY <2>2, DisconnectHad
  <2> HIDE DEF e
  <2>4. Promised!Effect(e)
    BY <2>1, <2>3 DEF Promised!Effect
  <2> QED BY <2>4 DEF e
<1>7. CASE step = "untoken"
  <2>1. e.do = "untoken" /\ e.of = c.arg /\ e.by = None
    BY <1>7 DEF EffectOf
  <2>2. /\ c.arg[1] \in Networks /\ c.arg[2] \in Tokens
        /\ v = RemoveToken(s, c.arg[1], c.arg[2])
    BY <1>7 DEF OwnSteps, AllCalls, Signing, Mutation
  <2>3. Promised!Untrack(c.arg[1], c.arg[2])
    BY <2>2, PreferenceHad
  <2> HIDE DEF e
  <2>4. Promised!Effect(e)
    BY <2>1, <2>3 DEF Promised!Effect
  <2> QED BY <2>4 DEF e
<1>8. step \in {"connect", "grant", "network", "token", "activate", "reveal", "revealThrough",
                "disconnect", "untoken"}
  BY DEF Effective, LockSteps
<1> QED BY <1>1, <1>2, <1>3, <1>4, <1>5, <1>6, <1>7, <1>8

\* The notice of a reset is no part of the wallet.
LEMMA NoticeIsNoEffect ==
    ASSUME NEW s \in GoodStores, NEW v, v.do = "write", v = ClearResetNotice(s),
           Committed = s, Committed' = v.new
    PROVE  UNCHANGED Promised!wallet
<1>1. v.new = [s EXCEPT !.notice = "none"]
  BY DEF ClearResetNotice, Keep, Write
<1>2. /\ v.new.origins = s.origins /\ v.new.fp = s.fp /\ v.new.accounts = s.accounts
      /\ v.new.active = s.active /\ v.new.network = s.network /\ v.new.tokens = s.tokens
  BY <1>1 DEF GoodStores, Stores
<1> QED BY <1>2, GrantsStay DEF Promised!wallet

-----------------------------------------------------------------------------
(***************************************************************************)
(* The steps of the snap are steps of the wallet.                          *)
(***************************************************************************)

\* What the requests have agreed to.
Agreements == [r \in Requests |-> Agreed(req[r])]

\* One request moves, and so does its agreement alone.
LEMMA AgreementMoves ==
    ASSUME RequestInv, NEW r \in Requests, NEW x, Becomes(r, x)
    PROVE  Agreements' = [Agreements EXCEPT ![r] = Agreed(x)] /\ req'[r] = x
<1>1. req = [p \in Requests |-> req[p]]
  BY InvParts
<1>2. req'[r] = x /\ \A p \in Requests \ {r} : req'[p] = req[p]
  BY <1>1 DEF Becomes
<1> QED BY <1>2 DEF Agreements

\* A request that agrees to an effect, keeps its agreement or gives it up, of a
\* wallet that stays as it is.
LEMMA AgreementSteps ==
    ASSUME RequestInv, RequestInv', GrantInv', EffectInv', UNCHANGED Promised!wallet,
           NEW r \in Requests, NEW x, Becomes(r, x),
           Agreed(x) \in {Agreed(req[r]), None} \/ Agreed(req[r]) = None
    PROVE  [Promised!Next]_(Promised!vars)
<1>1. Agreements' = [Agreements EXCEPT ![r] = Agreed(x)] /\ req'[r] = x
  BY AgreementMoves
<1>2. Agreed(x) = None \/ Agreed(x) \in Promised!Effects
  <2>1. CASE x.outcome # "running"
    BY <2>1 DEF Agreed
  <2>2. CASE x.outcome = "running"
    <3>1. Good(x)
      BY <1>1, <2>2 DEF RequestInv, TypeOK, Good, Running
    <3>2. OneEffect(x.todo)
      BY <1>1, <2>2 DEF EffectInv, Running
    <3>3. x.bnd.source \in Sources => x.bnd.fp \in Phrases
      BY <1>1, BindingAssumption DEF GrantInv, BoundOK
    <3> QED BY <2>2, <3>1, <3>2, <3>3, AgreedIsEffect
  <2> QED BY <2>1, <2>2
<1>3. Agreements[r] = Agreed(req[r]) /\ Agreements'[r] = Agreed(x)
  BY <1>1 DEF Agreements
<1>4. CASE Agreed(x) = Agreed(req[r])
  <2>1. Agreements' = Agreements
    BY <1>1, <1>4 DEF Agreements
  <2> QED BY <2>1 DEF Promised!vars, Agreements
<1>5. CASE Agreed(x) = None /\ Agreed(req[r]) # None
  <2>1. Promised!Withdraw(r)
    BY <1>1, <1>3, <1>5 DEF Promised!Withdraw, Promised!Spent, Agreements
  <2> QED BY <2>1 DEF Promised!Next
<1>6. CASE Agreed(req[r]) = None /\ Agreed(x) \in Promised!Effects
  <2>1. Promised!Agree(r)
    BY <1>1, <1>3, <1>6 DEF Promised!Agree, Agreements
  <2> QED BY <2>1 DEF Promised!Next
<1> QED BY <1>2, <1>4, <1>5, <1>6

\* The steps that leave a wallet and its agreements as they are.
LEMMA WalletStays ==
    ASSUME UNCHANGED <<Committed, req>>
    PROVE  [Promised!Next]_(Promised!vars)
<1>1. UNCHANGED [r \in Requests |-> Agreed(req[r])]
  OBVIOUS
<1>2. UNCHANGED [o \in Origins |-> IF HasGrant(Committed, o)
                                   THEN Committed.origins[o].disclosure ELSE None]
  BY GrantsStay
<1> QED BY <1>1, <1>2 DEF Promised!vars, Promised!wallet

\* A store that stays committed is a wallet that stays as it is.
LEMMA CommittedStays ==
    ASSUME UNCHANGED Committed
    PROVE  UNCHANGED Promised!wallet
<1>1. UNCHANGED [o \in Origins |-> IF HasGrant(Committed, o)
                                   THEN Committed.origins[o].disclosure ELSE None]
  BY GrantsStay
<1> QED BY <1>1 DEF Promised!wallet

\* The request whose job holds the lock has agreed to the effect of its step, and
\* to nothing once the step is behind it.
LEMMA HeadAgreement ==
    ASSUME RequestInv, GrantInv, EffectInv, mutationQueue # << >>, Job.kind = "request",
           Step(Job.by) \in Effective
    PROVE  /\ Agreed(req[Job.by]) = EffectOf(req[Job.by], Step(Job.by))
           /\ Agreed(req[Job.by]) # None
           /\ Agreed(Advanced(req[Job.by])) = None /\ Agreed(Refused(req[Job.by])) = None
<1> DEFINE q == req[Job.by]
<1>1. /\ Job.by \in Requests /\ Good(q) /\ q.outcome = "running"
      /\ Head(q.todo) \in OwnSteps(q.call, q.snap) /\ Head(q.todo) \in Effective
  BY HeadJob DEF Step
<1>2. /\ q \in RequestRecords /\ q.call \in AllCalls /\ q.snap \in GoodStores
      /\ q.todo \in Seq(Steps) /\ q.todo # << >> /\ OneEffect(q.todo)
  BY <1>1, StepShape, RunningRequest DEF Running
<1>3. /\ 1 \in Ahead(q.todo) /\ q.todo[1] = Head(q.todo) /\ ~Asks(q.todo)
      /\ Ahead(Tail(q.todo)) = {}
  BY <1>1, <1>2, EffectOfTail
<1>4. Agreed(q) = EffectOf(q, Head(q.todo))
  BY <1>1, <1>2, <1>3, AgreedIs
<1>5. Head(q.todo) \in {"disconnect", "untoken"} \/ q.bnd.fp \in Phrases
  <2>1. \/ q.bnd.source \in Sources
        \/ Head(q.todo) \in {"connected", "bind", "observe", "disconnect", "untoken",
                             "state", "clearNotice"}
    BY <1>1, StepShape
  <2>2. q.bnd.source \in Sources => q.bnd.fp \in Phrases
    BY <1>1, BindingAssumption DEF GrantInv, BoundOK
  <2> QED BY <1>1, <2>1, <2>2 DEF Effective, LockSteps
<1>6. EffectOf(q, Head(q.todo)) # None
  BY <1>1, <1>2, <1>5, OwnEffect
<1>7. \A outcome : outcome # "running" => Agreed(Ended(outcome)) = None
  BY GoesOn, <1>2 DEF Agreed
<1>8. Agreed(Advanced(q)) = None
  <2>1. CASE Tail(q.todo) = << >>
    BY <1>7, <2>1 DEF Advanced, Continued
  <2>2. CASE Tail(q.todo) # << >>
    <3>1. Advanced(q).todo = Tail(q.todo)
      BY <1>2, <2>2, GoesOn DEF Advanced
    <3> QED BY <1>3, <3>1 DEF Agreed
  <2> QED BY <2>1, <2>2
<1>9. Agreed(Refused(q)) = None
  <2>1. Head(q.todo) \notin {"bind", "snapshot", "active", "admit"}
    BY <1>1 DEF Effective, LockSteps
  <2> QED BY <1>7, <1>8, <2>1 DEF Refused
<1> QED BY <1>4, <1>6, <1>8, <1>9 DEF Step

\* A commit of the head job's write has the effect that its request has agreed to.
LEMMA CommitHas ==
    ASSUME RequestInv, GrantInv, EffectInv, LockDecided,
           mutationQueue # << >>, lock.phase # "get", Job.kind = "request", NEW r, r = Job.by,
           Step(Job.by) \in Effective, Committed = lock.was, Committed' = lock.new
    PROVE  Promised!Have(r)
<1>1. lock.was \in GoodStores
  BY InvParts
<1>2. PICK v \in Verdict(lock.was) : v.do = "write" /\ v.new = lock.new
  BY DEF LockDecided
<1>3. PICK q, s, e : q = req[Job.by] /\ s = lock.was /\ e = EffectOf(q, Head(q.todo))
  OBVIOUS
<1>4. /\ q.call \in AllCalls /\ q.snap \in GoodStores
      /\ Head(q.todo) \in OwnSteps(q.call, q.snap) /\ Head(q.todo) \in Effective
      /\ v \in Mutation(Head(q.todo), q.call, q.snap, q.bnd.fp, s)
  BY <1>2, <1>3, HeadVerdict DEF Step
<1>5. Promised!Effect(e)
  <2>1. Committed = s /\ Committed' = v.new /\ s \in GoodStores /\ v.do = "write"
    BY <1>1, <1>2, <1>3
  <2>2. Promised!Effect(EffectOf(q, Head(q.todo)))
    BY <1>4, <2>1, EffectHad
  <2> QED BY <1>3, <2>2
<1>6. Agreed(req[r]) = e /\ e # None /\ r \in Requests
  BY <1>3, HeadAgreement, HeadJob DEF Step
<1> QED BY <1>5, <1>6 DEF Promised!Have

-----------------------------------------------------------------------------
(***************************************************************************)
(* Each step of the snap is one of the wallet, or leaves it as it is.      *)
(***************************************************************************)

\* A running request moves, while the wallet stays as it is.
LEMMA RequestMove ==
    ASSUME RequestInv, RequestInv', GrantInv', EffectInv, UNCHANGED Promised!wallet,
           NEW r \in Requests, Running(r), NEW x, Becomes(r, x), Follows(req[r], x)
    PROVE  [Promised!Next]_(Promised!vars)
<1>1. EffectInv' /\ (Agreed(x) \in {Agreed(req[r]), None} \/ Agreed(req[r]) = None)
  BY MoveKeepsOne
<1> QED BY <1>1, AgreementSteps

\* A job ends, while the wallet stays as it is.
LEMMA JobEnds ==
    ASSUME RequestInv, RequestInv', GrantInv', EffectInv, UNCHANGED Promised!wallet,
           mutationQueue # << >>, NEW ok, NEW reset, Finish(ok, reset)
    PROVE  [Promised!Next]_(Promised!vars)
<1>1. CASE Job.kind = "reconcile"
  <2>1. UNCHANGED req
    BY <1>1 DEF Finish
  <2>2. UNCHANGED [r \in Requests |-> Agreed(req[r])]
    BY <2>1
  <2> QED BY <2>2 DEF Promised!vars
<1>2. CASE Job.kind # "reconcile"
  <2>1. PICK r : r = Job.by
    OBVIOUS
  <2>2. r \in Requests /\ Running(r)
    BY <1>2, <2>1, HeadJob DEF Jobs, At
  <2>3. Advance(r) \/ RefuseReq(r)
    BY <1>2, <2>1 DEF Finish, Advance, RefuseReq
  <2> QED BY <2>2, <2>3, QueuedFollows, RequestMove
<1> QED BY <1>1, <1>2

\* A job ends, of a request that has the effect it has agreed to.
LEMMA JobTakes ==
    ASSUME RequestInv, GrantInv, EffectInv, mutationQueue # << >>, Job.kind = "request",
           NEW r, r = Job.by, Step(r) \in Effective, Promised!Have(r),
           NEW ok, NEW reset, Finish(ok, reset)
    PROVE  [Promised!Next]_(Promised!vars)
<1>1. r \in Requests
  BY HeadJob
<1>2. PICK x : Becomes(r, x) /\ x \in {Advanced(req[r]), Refused(req[r])}
  BY DEF Finish, Advance, RefuseReq
<1>3. Agreed(x) = None
  BY <1>2, HeadAgreement
<1>4. Agreements' = [Agreements EXCEPT ![r] = None]
  BY <1>1, <1>2, <1>3, AgreementMoves
<1>5. Promised!Take(r)
  BY <1>4 DEF Promised!Take, Promised!Spent, Agreements
<1> QED BY <1>1, <1>5 DEF Promised!Next

\* A request takes a step of its own, or arrives.
LEMMA RequestMaps ==
    ASSUME RequestInv, RequestInv', GrantInv', EffectInv,
           NEW r \in Requests, RequestStep(r) \/ Arrive(r)
    PROVE  [Promised!Next]_(Promised!vars)
<1>1. CASE RequestStep(r)
  <2>1. UNCHANGED Promised!wallet
    BY <1>1, RequestStepKinds, CommittedStays DEF Committed
  <2>2. Running(r)
    BY <1>1, Zenon DEF RequestStep, Observed, ReadSource, ConfirmSource, ObservationRefused,
       BindRequest, PhraseUnchanged, CheckConnected, TakeSnapshot, Admit, ReadState, Resolve,
       Memoize, Approve, Reject, Outward, Submit, SubmissionSettled, ReportFailure, ImportNode,
       NodeBound, Sign, Enqueue, At
  <2> QED BY <1>1, <2>1, <2>2, RequestFollows, RequestMove
<1>2. CASE Arrive(r)
  <2>1. UNCHANGED <<store, lock>>
    BY <1>2 DEF Arrive, Start
  <2>2. UNCHANGED Promised!wallet
    BY <2>1, CommittedStays DEF Committed
  <2> QED BY <1>2, <2>2, ArrivalIsOne, AgreementSteps
<1> QED BY <1>1, <1>2
\* Under the lock: what the store is, and so the wallet, as the write has landed
\* or not.
LEMMA CommittedUnderLock ==
    ASSUME LockDecided
    PROVE  /\ lock.phase = "get" => Committed = store
           /\ mutationQueue # << >> /\ lock.phase # "get" => Committed = lock.was
           /\ mutationQueue # << >> /\ lock.phase # "get" /\ ~lock.wrote => store = lock.was
           /\ mutationQueue # << >> /\ lock.phase # "get" /\ lock.wrote => store = lock.new
BY DEF LockDecided, Committed

\* A job that has ended leaves what is in the store to the wallet.
LEMMA CommittedAtTheEnd ==
    ASSUME NEW ok, NEW reset, Finish(ok, reset)
    PROVE  Committed' = store'
BY DEF Finish, Free, Committed

\* The mutator's read leaves the wallet as it is.
LEMMA ReadMaps ==
    ASSUME RequestInv, RequestInv', GrantInv', LockDecided, EffectInv, LockedRead
    PROVE  [Promised!Next]_(Promised!vars)
<1>1. mutationQueue # << >> /\ lock.phase = "get" /\ UNCHANGED store /\ Committed = store
  BY CommittedUnderLock DEF LockedRead, Holding
<1>2. CASE \E v \in Verdict(store) : Finish(v.do = "keep", FALSE)
  <2>1. PICK ok : Finish(ok, FALSE)
    BY <1>2
  <2>2. UNCHANGED Promised!wallet
    BY <1>1, <2>1, CommittedAtTheEnd, CommittedStays
  <2> QED BY <1>1, <2>1, <2>2, JobEnds
<1>3. CASE \E v \in Verdict(store) :
             /\ lock' = [lock EXCEPT !.phase = IF Confirms THEN "ask" ELSE "write",
                                     !.was = store, !.new = v.new]
             /\ UNCHANGED req
  <2>1. lock'.wrote = FALSE /\ UNCHANGED req
    BY <1>1, <1>3 DEF RequestInv, TypeOK, Locks, LockDecided
  <2>2. UNCHANGED Committed
    BY <1>1, <2>1 DEF Committed
  <2> QED BY <2>1, <2>2, WalletStays
<1> QED BY <1>2, <1>3 DEF LockedRead

\* The confirmation's reads leave the wallet as it is, and so does its verdict,
\* but for the one that commits what has been written.
LEMMA ConfirmMaps ==
    ASSUME RequestInv, RequestInv', GrantInv, GrantInv', LockDecided, EffectInv,
           ConfirmRead \/ ConfirmCheck
    PROVE  [Promised!Next]_(Promised!vars)
<1>1. mutationQueue # << >> /\ lock.phase # "get" /\ UNCHANGED store /\ Committed = lock.was
  BY CommittedUnderLock DEF ConfirmRead, ConfirmCheck, Holding
<1>2. CASE /\ UNCHANGED req
           /\ \E phase, seen : lock' = [lock EXCEPT !.phase = phase, !.seen = seen]
  <2>1. lock'.wrote = lock.wrote /\ lock'.was = lock.was
    BY <1>2 DEF RequestInv, TypeOK, Locks
  <2>2. UNCHANGED Committed
    BY <1>1, <2>1 DEF Committed
  <2> QED BY <1>2, <2>2, WalletStays
<1>3. CASE ~lock.wrote /\ \E ok : Finish(ok, FALSE)
  <2>1. PICK ok : Finish(ok, FALSE)
    BY <1>3
  <2>2. UNCHANGED Promised!wallet
    BY <1>1, <1>3, <2>1, CommittedUnderLock, CommittedAtTheEnd, CommittedStays
  <2> QED BY <1>1, <2>1, <2>2, JobEnds
<1>4. CASE ConfirmCheck /\ lock.wrote /\ Finish(TRUE, FALSE)
  <2>1. PICK r : r = Job.by
    OBVIOUS
  <2>2. Job.kind = "request" /\ Step(r) \in Effective
    BY <1>1, <1>4, <2>1 DEF ConfirmCheck, Holding, LockDecided, Confirms, Confirmed, Effective,
       LockSteps, Step
  <2>3. Committed' = lock.new
    BY <1>1, <1>4, CommittedUnderLock, CommittedAtTheEnd
  <2>4. Promised!Have(r)
    BY <1>1, <2>1, <2>2, <2>3, CommitHas
  <2> QED BY <1>1, <1>4, <2>1, <2>2, <2>4, JobTakes
<1>5. CASE ConfirmRead
  <2>1. \E phase, seen : lock' = [lock EXCEPT !.phase = phase, !.seen = seen]
    BY <1>5 DEF ConfirmRead
  <2> QED BY <1>2, <1>5, <2>1 DEF ConfirmRead
<1>6. CASE ConfirmCheck
  <2>1. PICK ok \in BOOLEAN : ok = Confirmation(req[Job.by].bnd)
    BY DEF Confirmation
  <2>2. \/ \E phase : lock' = [lock EXCEPT !.phase = phase] /\ UNCHANGED req
        \/ (ok <=> lock.wrote) /\ Finish(ok, FALSE)
    BY <1>6, <2>1 DEF ConfirmCheck
  <2>3. CASE \E phase : lock' = [lock EXCEPT !.phase = phase] /\ UNCHANGED req
    <3>1. PICK phase : lock' = [lock EXCEPT !.phase = phase] /\ UNCHANGED req
      BY <2>3
    <3>2. lock' = [lock EXCEPT !.phase = phase, !.seen = lock.seen]
      BY <3>1 DEF RequestInv, TypeOK, Locks
    <3> QED BY <1>2, <3>1, <3>2
  <2> QED BY <1>3, <1>4, <1>6, <2>2, <2>3
<1> QED BY <1>5, <1>6

\* A write that is confirmed once it has landed is the wallet's only then; any
\* other one is the wallet's at once, and so is a reconciliation.
LEMMA WriteMaps ==
    ASSUME RequestInv, RequestInv', GrantInv, GrantInv', LockDecided, EffectInv, LockedWrite
    PROVE  [Promised!Next]_(Promised!vars)
<1>1. /\ mutationQueue # << >> /\ lock.phase # "get" /\ ~lock.wrote /\ store' = lock.new
      /\ Committed = lock.was
  BY CommittedUnderLock DEF LockedWrite, Holding, LockDecided
<1>2. CASE Confirms
  <2>1. UNCHANGED req /\ lock' = [lock EXCEPT !.phase = "ask", !.wrote = TRUE]
    BY <1>2 DEF LockedWrite
  <2>2. lock'.wrote = TRUE /\ lock'.was = lock.was
    BY <2>1 DEF RequestInv, TypeOK, Locks
  <2>3. UNCHANGED Committed
    BY <1>1, <2>2 DEF Committed
  <2> QED BY <2>1, <2>3, WalletStays
<1>3. CASE ~Confirms
  <2>1. Finish(TRUE, Resets)
    BY <1>3 DEF LockedWrite
  <2>2. Committed' = lock.new
    BY <1>1, <2>1, CommittedAtTheEnd
  <2>3. PICK s, v : s = lock.was /\ v \in Verdict(s) /\ v.do = "write" /\ v.new = lock.new
    BY <1>1 DEF LockDecided
  <2>4. s \in GoodStores /\ Committed = s /\ Committed' = v.new
    BY <1>1, <2>2, <2>3, InvParts
  <2>5. CASE Job.kind = "reconcile"
    <3>1. PICK p : p = Job.fp
      OBVIOUS
    <3>2. p \in Phrases /\ v = ReconcileEntropyBinding(s, p)
      BY <1>1, <2>3, <2>5, <3>1, HeadJob DEF Jobs, Verdict
    <3>3. UNCHANGED req
      BY <2>1, <2>5 DEF Finish
    <3>4. UNCHANGED [r \in Requests |-> Agreed(req[r])]
      BY <3>3
    <3>5. Promised!Belong(p)
      BY <2>3, <2>4, <3>2, <3>4, BelongHad
    <3> QED BY <3>2, <3>5 DEF Promised!Next
  <2>6. CASE Job.kind # "reconcile"
    <3>1. PICK r : r = Job.by
      OBVIOUS
    <3>2. /\ Job.kind = "request" /\ Step(r) \in LockSteps
          /\ v \in Mutation(Step(r), req[r].call, req[r].snap, req[r].bnd.fp, s)
      BY <1>1, <2>3, <2>6, <3>1, HeadJob DEF Jobs, Verdict, Step
    <3>3. CASE Step(r) \in Effective
      <4>1. Promised!Have(r)
        BY <1>1, <2>2, <3>1, <3>2, <3>3, CommitHas
      <4> QED BY <1>1, <2>1, <3>1, <3>2, <3>3, <4>1, JobTakes
    <3>4. CASE Step(r) \notin Effective
      <4>1. v = ClearResetNotice(s)
        BY <3>2, <3>4 DEF Effective, LockSteps, Mutation
      <4>2. UNCHANGED Promised!wallet
        BY <2>3, <2>4, <4>1, NoticeIsNoEffect
      <4> QED BY <1>1, <2>1, <4>2, JobEnds
    <3> QED BY <3>3, <3>4
  <2> QED BY <2>5, <2>6
<1> QED BY <1>2, <1>3

\* A write that the platform refuses leaves the wallet as it is; a roll back
\* does too, unless it is refused: what has been written is the wallet's then.
LEMMA FailedWriteMaps ==
    ASSUME RequestInv, RequestInv', GrantInv, GrantInv', LockDecided, EffectInv,
           WriteFails \/ Rollback
    PROVE  [Promised!Next]_(Promised!vars)
<1>1. /\ mutationQueue # << >> /\ lock.phase # "get" /\ Finish(FALSE, FALSE)
      /\ Committed = lock.was
  BY CommittedUnderLock DEF WriteFails, Rollback, Holding
<1>2. Committed' = store'
  BY <1>1, CommittedAtTheEnd
<1>3. CASE store' = lock.was
  <2>1. UNCHANGED Promised!wallet
    BY <1>1, <1>2, <1>3, CommittedStays
  <2> QED BY <1>1, <2>1, JobEnds
<1>4. CASE WriteFails
  <2>1. store' = lock.was
    BY <1>1, <1>4 DEF WriteFails, Holding, LockDecided
  <2> QED BY <1>3, <2>1
<1>5. CASE Rollback /\ UNCHANGED store
  <2>1. PICK r : r = Job.by
    OBVIOUS
  <2>2. Job.kind = "request" /\ Step(r) \in Effective /\ store = lock.new
    BY <1>1, <1>5, <2>1 DEF Rollback, Holding, LockDecided, Confirms, Confirmed, Effective,
       LockSteps, Step
  <2>3. Promised!Have(r)
    BY <1>1, <1>2, <1>5, <2>1, <2>2, CommitHas
  <2> QED BY <1>1, <2>1, <2>2, <2>3, JobTakes
<1> QED BY <1>3, <1>4, <1>5 DEF Rollback

\* A termination of the snap forgets what was agreed to; a write that landed
\* before it is the wallet's, confirmed or not.
LEMMA CrashMaps ==
    ASSUME RequestInv, GrantInv, LockOK, LockDecided, EffectInv, Crash
    PROVE  [Promised!Next]_(Promised!vars)
<1>1. /\ UNCHANGED store /\ lock' = Free
      /\ req' = [r \in Requests |-> IF Running(r) THEN Ended("lost") ELSE req[r]]
  BY DEF Crash
<1>2. Agreements' = [r \in Requests |-> None]
  <2>1. \A r \in Requests : req'[r].outcome # "running"
    BY <1>1 DEF Running, Ended
  <2> QED BY <2>1 DEF Agreements, Agreed
<1>3. Committed' = store
  BY <1>1 DEF Committed, Free
<1>4. CASE ~lock.wrote
  <2>1. UNCHANGED Promised!wallet
    BY <1>3, <1>4, CommittedStays DEF Committed
  <2>2. Promised!Forget
    BY <1>2, <2>1 DEF Promised!Forget, Agreements
  <2> QED BY <2>2 DEF Promised!Next
<1>5. CASE lock.wrote
  <2>1. mutationQueue # << >> /\ lock.phase # "get" /\ lock.phase \in {"ask", "check", "undo"}
    BY <1>5 DEF LockOK, LockDecided, RequestInv, TypeOK, Locks
  <2>2. PICK r : r = Job.by
    OBVIOUS
  <2>3. /\ r \in Requests /\ Job.kind = "request" /\ Step(r) \in Effective
        /\ store = lock.new /\ Committed = lock.was
    BY <1>5, <2>1, <2>2, HeadJob, CommittedUnderLock
       DEF LockDecided, Confirms, Confirmed, Effective, LockSteps, Step
  <2>4. Promised!Have(r)
    BY <1>3, <2>1, <2>2, <2>3, CommitHas
  <2>5. Promised!Forget
    BY <1>2, <2>3, <2>4 DEF Promised!Forget, Agreements
  <2> QED BY <2>5 DEF Promised!Next
<1> QED BY <1>4, <1>5

\* Every step of the snap is a step of the wallet or leaves it as it is.
LEMMA NextMaps ==
    ASSUME RequestInv, BindingInv, GrantInv, LockDecided, EffectInv, [Next]_vars
    PROVE  [Promised!Next]_(Promised!vars)
<1>1. RequestInv' /\ GrantInv'
  BY NextSafe, NextGrants
<1>2. ASSUME NEW r \in Requests, Arrive(r) \/ RequestStep(r)
      PROVE  [Promised!Next]_(Promised!vars)
  BY <1>1, <1>2, RequestMaps
<1>3. CASE LockStep
  BY <1>1, <1>3, ReadMaps, ConfirmMaps, WriteMaps, FailedWriteMaps DEF LockStep
<1>4. CASE Crash
  BY <1>4, CrashMaps DEF BindingInv
<1>5. CASE Switch \/ Quiet \/ UNCHANGED vars
  <2>1. UNCHANGED <<store, lock, req>>
    BY <1>5 DEF Switch, Quiet, vars
  <2>2. UNCHANGED <<Committed, req>>
    BY <2>1 DEF Committed
  <2> QED BY <2>2, WalletStays
<1> QED BY <1>2, <1>3, <1>4, <1>5 DEF Next

\* The snap implements the wallet that it promises: each effect is had at one
\* instant or never, for the call that it was agreed to for and under the phrase
\* that it was agreed to under, through the queue of mutators, the writes and
\* roll backs that the platform refuses, the switches of the phrase and the
\* terminations of the snap.
THEOREM WalletKept == Spec => ImplementsWallet
<1>1. Init => Promised!Init
  <2> SUFFICES ASSUME Init PROVE Promised!Init
    OBVIOUS
  <2>1. store \in InitialStores /\ Committed = store
    BY DEF Init, Committed, Free
  <2>2. Agreements = [r \in Requests |-> None]
    BY DEF Init, Agreements, Agreed, Idle
  <2>3. /\ store.active \in store.accounts
        /\ store.fp = None => \A o \in Origins : ~HasGrant(store, o)
    BY <2>1, SnapAssumption
  <2> QED BY <2>1, <2>2, <2>3 DEF Promised!Init, Promised!Connected, Agreements
<1>2. RequestInv /\ BindingInv /\ GrantInv /\ LockDecided /\ EffectInv /\ [Next]_vars
        => [Promised!Next]_(Promised!vars)
  BY NextMaps
<1> QED BY <1>1, <1>2, RequestsFit, BindingSound, GrantsSound, LockIsDecided, EffectsSound, PTL
        DEF Spec, ImplementsWallet, Promised!Spec
=============================================================================
