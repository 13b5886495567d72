----------------------------- MODULE GateProofs -----------------------------
(***************************************************************************)
(* The request gate for every number of sites, requests, slots and limits: *)
(* its slots are counted exactly and their ceilings hold, a cooldown is    *)
(* earned, the reserve of connected sites is kept, a window allows its     *)
(* limit and no fewer, and a site's dialogs are rationed.  SlotInv,        *)
(* GateInv, CoolInv, ReserveInv, RatesInv and DialogInv are the inductive  *)
(* invariants.                                                             *)
(***************************************************************************)
EXTENDS GateProperties, RecencyProofs, FiniteSetTheorems

\* The requests executing without the connected sites' ceiling.
Unreserved == {c \in Executing : ~call[c].reserved}

SlotInv ==
    /\ call \in [Calls -> CallRecords]
    /\ inflight \in [Origins -> Nat] /\ inflightTotal \in Nat
    /\ \A c \in Calls : call[c].at # "idle" => call[c].origin \in Origins
    /\ SlotsCounted
    /\ CeilingsHeld

\* Every set of requests is finite.
LEMMA FiniteCalls ==
    ASSUME NEW S, S \subseteq Calls
    PROVE  IsFiniteSet(S) /\ Cardinality(S) \in Nat
BY GateAssumption, FS_Subset, FS_CardinalityType

\* What the executing requests are once the request c has become q.
LEMMA OneCall ==
    ASSUME SlotInv, NEW c \in Calls, NEW q \in CallRecords,
           call' = [call EXCEPT ![c] = q]
    PROVE  /\ call' \in [Calls -> CallRecords] /\ call'[c] = q
           /\ \A d \in Calls \ {c} : call'[d] = call[d]
           /\ Executing' = IF q.at \in {"idle", "asking"} THEN Executing \ {c}
                           ELSE Executing \cup {c}
BY DEF SlotInv, Executing

\* A step that leaves the request c where it is, in or out of its slot, keeps
\* the counts as they are.
LEMMA SlotKept ==
    ASSUME SlotInv, NEW c \in Calls, NEW q \in CallRecords,
           call' = [call EXCEPT ![c] = q],
           q.at # "idle" => q.origin \in Origins,
           c \in Executing <=> q.at \notin {"idle", "asking"},
           c \in Executing => q.origin = call[c].origin /\ q.reserved = call[c].reserved,
           UNCHANGED <<inflight, inflightTotal>>
    PROVE  SlotInv'
<1>1. /\ call' \in [Calls -> CallRecords] /\ call'[c] = q
      /\ \A d \in Calls \ {c} : call'[d] = call[d]
      /\ Executing' = Executing
  <2>1. /\ call' \in [Calls -> CallRecords] /\ call'[c] = q
        /\ \A d \in Calls \ {c} : call'[d] = call[d]
    BY OneCall
  <2>2. CASE c \in Executing
    <3>1. Executing' = Executing \cup {c}
      BY <2>2, OneCall
    <3> QED BY <2>1, <2>2, <3>1
  <2>3. CASE c \notin Executing
    <3>1. Executing' = Executing \ {c}
      BY <2>3, OneCall
    <3> QED BY <2>1, <2>3, <3>1
  <2> QED BY <2>2, <2>3
<1>2. \A d \in Executing : call'[d].origin = call[d].origin
                           /\ call'[d].reserved = call[d].reserved
  BY <1>1 DEF Executing
<1>3. \A o \in Origins : Of(o)' = Of(o)
  BY <1>1, <1>2 DEF Of
<1>4. Unreserved' = Unreserved
  BY <1>1, <1>2 DEF Unreserved
<1> QED BY <1>1, <1>3, <1>4 DEF SlotInv, SlotsCounted, CeilingsHeld, Unreserved

\* A request that is admitted takes one slot, of its site and of the wallet.
LEMMA SlotTaken ==
    ASSUME SlotInv, NEW c \in Calls, c \notin Executing,
           NEW q \in CallRecords, q.at \notin {"idle", "asking"}, q.origin \in Origins,
           call' = [call EXCEPT ![c] = q],
           SlotFree(q.reserved), SiteSlotFree(q.origin), TakeSlot(q.origin)
    PROVE  SlotInv'
<1>1. /\ call' \in [Calls -> CallRecords] /\ call'[c] = q
      /\ \A d \in Calls \ {c} : call'[d] = call[d]
      /\ Executing' = Executing \cup {c}
  BY OneCall
<1>2. Executing \subseteq Calls
  BY DEF Executing
<1>3. Of(q.origin)' = Of(q.origin) \cup {c} /\ c \notin Of(q.origin)
  BY <1>1, <1>2 DEF Of
<1>4. \A o \in Origins \ {q.origin} : Of(o)' = Of(o)
  BY <1>1, <1>2 DEF Of
<1>5. Unreserved' = IF q.reserved THEN Unreserved ELSE Unreserved \cup {c}
  BY <1>1, <1>2 DEF Unreserved
<1>6. /\ Cardinality(Executing') = Cardinality(Executing) + 1
      /\ Cardinality(Of(q.origin)') = Cardinality(Of(q.origin)) + 1
      /\ Cardinality(Executing) \in Nat
      /\ \A o \in Origins : Cardinality(Of(o)) \in Nat
  <2>1. \A o \in Origins : Of(o) \subseteq Calls
    BY <1>2 DEF Of
  <2> QED BY <1>1, <1>2, <1>3, <2>1, FiniteCalls, FS_AddElement
<1>7. inflightTotal' = inflightTotal + 1
      /\ inflight' = [inflight EXCEPT ![q.origin] = inflight[q.origin] + 1]
  BY DEF TakeSlot
<1>8. SlotsCounted'
  BY <1>4, <1>6, <1>7 DEF SlotInv, SlotsCounted
<1>9. CeilingsHeld'
  <2>1. /\ {MAX_INFLIGHT_GLOBAL, MAX_INFLIGHT_UNCONNECTED, MAX_INFLIGHT_PER_ORIGIN}
              \subseteq Nat
        /\ MAX_INFLIGHT_UNCONNECTED <= MAX_INFLIGHT_GLOBAL
    BY LimitsAssumption
  <2>2. inflightTotal + 1 <= Ceiling(q.reserved)
    BY <2>1 DEF SlotFree, SlotInv, Ceiling
  <2>3. Cardinality(Executing') <= MAX_INFLIGHT_GLOBAL
    BY <1>6, <2>1, <2>2 DEF SlotInv, SlotsCounted, Ceiling
  <2>4. \A o \in Origins : Cardinality(Of(o)') <= MAX_INFLIGHT_PER_ORIGIN
    BY <1>4, <1>6, <2>1 DEF SlotInv, SlotsCounted, CeilingsHeld, SiteSlotFree
  <2>5. Cardinality(Unreserved') <= MAX_INFLIGHT_UNCONNECTED
    <3>1. CASE q.reserved
      BY <1>5, <3>1 DEF SlotInv, CeilingsHeld, Unreserved
    <3>2. CASE ~q.reserved
      <4>1. Unreserved' \subseteq Executing' /\ Executing' \subseteq Calls
        BY <1>1, <1>2 DEF Unreserved
      <4>2. IsFiniteSet(Executing')
        BY <4>1, FiniteCalls
      <4>3. /\ Cardinality(Unreserved') <= Cardinality(Executing')
            /\ Cardinality(Unreserved') \in Nat
        BY <4>1, <4>2, FS_Subset, FiniteCalls
      <4> QED BY <1>6, <2>1, <2>2, <3>2, <4>3 DEF SlotInv, SlotsCounted, Ceiling
    <3> QED BY <3>1, <3>2
  <2> QED BY <2>3, <2>4, <2>5 DEF CeilingsHeld, Unreserved
<1> QED BY <1>1, <1>7, <1>8, <1>9 DEF SlotInv

\* A request that is answered returns its slot, and no other.
LEMMA SlotReleased ==
    ASSUME SlotInv, NEW c \in Executing, NEW site, site = call[c].origin,
           call' = [call EXCEPT ![c] = NoCall], ReleaseSlot(site)
    PROVE  SlotInv'
<1>1. c \in Calls /\ Executing \subseteq Calls /\ site \in Origins
  BY DEF Executing, SlotInv
<1>2. NoCall \in CallRecords /\ NoCall.at = "idle"
  BY DEF NoCall, CallRecords
<1>3. /\ call' \in [Calls -> CallRecords] /\ call'[c] = NoCall
      /\ \A d \in Calls \ {c} : call'[d] = call[d]
      /\ Executing' = Executing \ {c}
  BY <1>1, <1>2, OneCall
<1>4. Of(site)' = Of(site) \ {c} /\ c \in Of(site)
  BY <1>1, <1>3 DEF Of
<1>5. \A o \in Origins \ {site} : Of(o)' = Of(o)
  BY <1>1, <1>3 DEF Of
<1>6. Unreserved' \subseteq Unreserved /\ Unreserved \subseteq Calls
  BY <1>1, <1>3 DEF Unreserved
<1>7. /\ Cardinality(Executing') = Cardinality(Executing) - 1
      /\ Cardinality(Of(site)') = Cardinality(Of(site)) - 1
      /\ Cardinality(Executing') \in Nat /\ Cardinality(Of(site)') \in Nat
      /\ Cardinality(Executing) \in Nat /\ Cardinality(Of(site)) \in Nat
      /\ Cardinality(Unreserved') <= Cardinality(Unreserved)
      /\ Cardinality(Unreserved) \in Nat /\ Cardinality(Unreserved') \in Nat
  <2>1. Of(site) \subseteq Calls /\ Of(site)' \subseteq Calls
        /\ Executing' \subseteq Calls /\ Unreserved' \subseteq Calls
    BY <1>1, <1>3, <1>4, <1>6 DEF Of
  <2> QED BY <1>1, <1>3, <1>4, <1>6, <2>1, FiniteCalls, FS_RemoveElement, FS_Subset
<1>8. /\ inflightTotal' = inflightTotal - 1
      /\ inflight[site] > 0 /\ inflight[site] \in Nat
      /\ inflight' = [inflight EXCEPT ![site] = inflight[site] - 1]
  <2>1. inflight[site] = Cardinality(Of(site)) /\ inflight \in [Origins -> Nat]
    BY <1>1 DEF SlotInv, SlotsCounted
  <2>2. inflight[site] > 0 /\ inflight[site] \in Nat
    BY <1>7, <2>1
  <2> QED BY <1>1, <2>1, <2>2 DEF ReleaseSlot
<1>9. SlotsCounted' /\ inflightTotal' \in Nat /\ inflight' \in [Origins -> Nat]
  BY <1>1, <1>5, <1>7, <1>8 DEF SlotInv, SlotsCounted
<1>10. CeilingsHeld'
  <2>1. {MAX_INFLIGHT_GLOBAL, MAX_INFLIGHT_UNCONNECTED, MAX_INFLIGHT_PER_ORIGIN}
           \subseteq Nat
    BY LimitsAssumption
  <2>2. \A o \in Origins : Cardinality(Of(o)') <= MAX_INFLIGHT_PER_ORIGIN
    BY <1>1, <1>5, <1>7, <2>1 DEF SlotInv, CeilingsHeld
  <2> QED BY <1>7, <2>1, <2>2 DEF SlotInv, CeilingsHeld, Unreserved
<1> QED BY <1>2, <1>3, <1>9, <1>10 DEF SlotInv

-----------------------------------------------------------------------------
\* withInflightBudget, once the grant is known.
LEMMA AdmitSafe ==
    ASSUME SlotInv, NEW c \in Calls, c \notin Executing,
           NEW q \in CallRecords, q.origin \in Origins,
           NEW connected \in BOOLEAN, Admit(c, q, connected)
    PROVE  SlotInv'
<1> DEFINE p == [q EXCEPT !.at = "executing", !.reserved = connected]
<1>1. p \in CallRecords /\ p.at = "executing" /\ p.origin = q.origin
      /\ p.reserved = connected
  BY DEF CallRecords
<1>2. NoCall \in CallRecords /\ NoCall.at = "idle"
  BY DEF NoCall, CallRecords
<1>3. CASE call' = [call EXCEPT ![c] = NoCall] /\ UNCHANGED <<inflight, inflightTotal>>
  BY <1>2, <1>3, SlotKept
<1>4. CASE /\ SlotFree(connected) /\ SiteSlotFree(q.origin)
           /\ call' = [call EXCEPT ![c] = p] /\ TakeSlot(q.origin)
  BY <1>1, <1>4, SlotTaken
<1> QED BY <1>3, <1>4 DEF Admit, Answer, MovesTo

\* Routing a request, up to the slot or to the read of the grant.
LEMMA RouteSafe ==
    ASSUME SlotInv, NEW c \in Calls, NEW o \in Origins, NEW m \in Methods, Route(c, o, m)
    PROVE  SlotInv'
<1> DEFINE q == [NoCall EXCEPT !.origin = o, !.method = m]
<1> DEFINE a == [q EXCEPT !.at = "asking"]
<1>1. q \in CallRecords /\ q.origin = o /\ a \in CallRecords /\ a.at = "asking"
      /\ a.origin = o
  BY DEF NoCall, CallRecords
<1>2. NoCall \in CallRecords /\ NoCall.at = "idle"
  BY DEF NoCall, CallRecords
<1>3. c \notin Executing
  BY DEF Route, Executing
<1>4. CASE call' = [call EXCEPT ![c] = NoCall] /\ UNCHANGED <<inflight, inflightTotal>>
  BY <1>2, <1>3, <1>4, SlotKept
<1>5. CASE EnterBudget(c, q)
  <2>1. CASE call' = [call EXCEPT ![c] = a] /\ UNCHANGED <<inflight, inflightTotal>>
    BY <1>1, <1>3, <2>1, SlotKept
  <2>2. CASE Admit(c, q, FALSE)
    BY <1>1, <1>3, <2>2, AdmitSafe
  <2> QED BY <1>5, <2>1, <2>2 DEF EnterBudget, MovesTo
<1> QED BY <1>4, <1>5 DEF Route, Answer, limits

\* A step of a request's handler that keeps its slot.
LEMMA HandlerSafe ==
    ASSUME SlotInv, NEW c \in Executing,
           NEW q \in CallRecords, q.at \notin {"idle", "asking"},
           q.origin = call[c].origin, q.reserved = call[c].reserved,
           call' = [call EXCEPT ![c] = q], UNCHANGED <<inflight, inflightTotal>>
    PROVE  SlotInv'
<1>1. c \in Calls /\ q.origin \in Origins
  BY DEF Executing, SlotInv
<1> QED BY <1>1, SlotKept

\* Whatever a request does after it was routed keeps the counts.
LEMMA CallStepSafe ==
    ASSUME SlotInv, NEW c \in Calls, CallStep(c)
    PROVE  SlotInv'
<1> DEFINE staged(at) == [call[c] EXCEPT !.at = at]
<1>1. call[c] \in CallRecords
  BY DEF SlotInv
<1>2. \A at \in {"reviewing", "read", "dialog", "approved"} :
         /\ staged(at) \in CallRecords /\ staged(at).at = at
         /\ staged(at).origin = call[c].origin /\ staged(at).reserved = call[c].reserved
  BY <1>1 DEF CallRecords
<1>3. CASE GrantRead(c)
  <2>1. c \notin Executing /\ call[c].origin \in Origins
    BY <1>3 DEF GrantRead, Executing, SlotInv
  <2>2. CASE Admit(c, call[c], call[c].origin \in granted)
    <3> DEFINE connected == call[c].origin \in granted
    <3>1. connected \in BOOLEAN /\ Admit(c, call[c], connected)
      BY <2>2
    <3> HIDE DEF connected
    <3> QED BY <1>1, <2>1, <3>1, AdmitSafe
  <2>3. CASE Answer(c, "none") /\ UNCHANGED <<inflight, inflightTotal>>
    <3>1. NoCall \in CallRecords /\ NoCall.at = "idle"
      BY DEF NoCall, CallRecords
    <3> QED BY <2>1, <2>3, <3>1, SlotKept DEF Answer
  <2> QED BY <1>3, <2>2, <2>3 DEF GrantRead
<1>4. CASE ReadConnected(c)
  <2>1. c \in Executing
    BY <1>4 DEF ReadConnected, Handling, Executing
  <2> DEFINE connected == call[c].origin \in granted
             p == [call[c] EXCEPT !.at = "reviewing", !.connected = connected]
  <2>2. connected \in BOOLEAN
    OBVIOUS
  <2>3. p \in CallRecords /\ p.at = "reviewing" /\ p.origin = call[c].origin
        /\ p.reserved = call[c].reserved
    <3> HIDE DEF connected
    <3> QED BY <1>1, <2>2 DEF CallRecords
  <2>4. call' = [call EXCEPT ![c] = p] /\ UNCHANGED <<inflight, inflightTotal>>
    BY <1>4 DEF ReadConnected, MovesTo, limits
  <2> HIDE DEF p
  <2> QED BY <2>1, <2>3, <2>4, HandlerSafe
<1>5. CASE LookUp(c)
  <2>1. UNCHANGED <<call, inflight, inflightTotal>>
    BY <1>5 DEF LookUp, limits
  <2> QED BY <2>1 DEF SlotInv, SlotsCounted, CeilingsHeld, Executing, Of
<1>6. CASE ReadTokens(c)
  <2>1. c \in Executing
    BY <1>6 DEF ReadTokens, Handling, Executing
  <2>2. CASE Answer(c, "too many reads") /\ ReleaseSlot(call[c].origin)
    BY <2>1, <2>2, SlotReleased DEF Answer
  <2>3. CASE MovesTo(c, staged("read")) /\ UNCHANGED <<inflight, inflightTotal>>
    BY <1>2, <2>1, <2>3, HandlerSafe DEF MovesTo
  <2> QED BY <1>6, <2>2, <2>3 DEF ReadTokens
<1>7. CASE OpenDialog(c)
  <2>1. call[c].at \in {"reviewing", "read", "executing"}
    BY <1>7 DEF OpenDialog
  <2>2. c \in Executing
    BY <2>1 DEF Executing
  <2> QED BY <1>2, <1>7, <2>2, HandlerSafe DEF OpenDialog, MovesTo, limits
<1>8. CASE Approve(c)
  <2>1. c \in Executing
    BY <1>8 DEF Approve, Executing
  <2> QED BY <1>2, <1>8, <2>1, HandlerSafe DEF Approve, MovesTo, limits
<1>9. CASE Reject(c) \/ Finish(c)
  <2>1. c \in Executing
    BY <1>9 DEF Reject, Finish, Executing
  <2> QED BY <1>9, <2>1, SlotReleased DEF Reject, Finish, Answer
<1> QED BY <1>3, <1>4, <1>5, <1>6, <1>7, <1>8, <1>9 DEF CallStep

\* A snap that starts has no request and no slot taken.
LEMMA NothingPending ==
    ASSUME call = [c \in Calls |-> NoCall],
           inflight = [o \in Origins |-> 0], inflightTotal = 0
    PROVE  SlotInv
<1>1. NoCall \in CallRecords /\ NoCall.at = "idle"
  BY DEF NoCall, CallRecords
<1>2. Executing = {} /\ Unreserved = {} /\ \A o \in Origins : Of(o) = {}
  BY <1>1 DEF Executing, Of, Unreserved
<1> QED BY <1>1, <1>2, FS_EmptySet, LimitsAssumption
        DEF SlotInv, SlotsCounted, CeilingsHeld, Unreserved

\* SlotInv is inductive.
LEMMA NextSlots ==
    ASSUME SlotInv, [Next]_vars
    PROVE  SlotInv'
<1>1. CASE \E c \in Calls, o \in Origins, m \in Methods : Route(c, o, m)
  BY <1>1, RouteSafe
<1>2. CASE \E c \in Calls : CallStep(c)
  BY <1>2, CallStepSafe
<1>3. CASE Tick \/ ChangeGrants \/ UNCHANGED vars
  <2>1. UNCHANGED <<call, inflight, inflightTotal>>
    BY <1>3 DEF Tick, ChangeGrants, vars, limits
  <2> QED BY <2>1 DEF SlotInv, SlotsCounted, CeilingsHeld, Executing, Of
<1>4. CASE Terminate
  <2>1. call' = [c \in Calls |-> NoCall]
        /\ inflight' = [o \in Origins |-> 0] /\ inflightTotal' = 0
    BY <1>4 DEF Terminate
  <2>2. NoCall \in CallRecords /\ NoCall.at = "idle"
    BY DEF NoCall, CallRecords
  <2>3. Executing' = {} /\ Unreserved' = {} /\ \A o \in Origins : Of(o)' = {}
    BY <2>1, <2>2 DEF Executing, Of, Unreserved
  <2>4. Cardinality({}) = 0
    BY FS_EmptySet
  <2>5. {MAX_INFLIGHT_GLOBAL, MAX_INFLIGHT_UNCONNECTED, MAX_INFLIGHT_PER_ORIGIN}
           \subseteq Nat
    BY LimitsAssumption
  <2>6. SlotsCounted'
    BY <2>1, <2>3, <2>4 DEF SlotsCounted
  <2>7. CeilingsHeld'
    BY <2>3, <2>4, <2>5 DEF CeilingsHeld, Unreserved
  <2> QED BY <2>1, <2>2, <2>6, <2>7 DEF SlotInv
<1> QED BY <1>1, <1>2, <1>3, <1>4 DEF Next

\* SlotInv holds in every behaviour of the gate.
LEMMA SlotsSound == Spec => []SlotInv
<1>1. Init => SlotInv
  BY NothingPending DEF Init
<1>2. SlotInv /\ [Next]_vars => SlotInv'
  BY NextSlots
<1> QED BY <1>1, <1>2, PTL DEF Spec

\* In every behaviour the counters of withInflightBudget are the requests
\* executing, of every site and of the wallet.
THEOREM SlotsNeverLeak == Spec => []SlotsCounted
<1>1. SlotInv => SlotsCounted
  BY DEF SlotInv
<1> QED BY <1>1, SlotsSound, PTL

\* In every behaviour the ceilings of withInflightBudget hold, the share kept
\* for connected sites included.
THEOREM CeilingsNeverPassed == Spec => []CeilingsHeld
<1>1. SlotInv => CeilingsHeld
  BY DEF SlotInv
<1> QED BY <1>1, SlotsSound, PTL
-----------------------------------------------------------------------------
(***************************************************************************)
(* The windows of a log: what Lately keeps of a log in order.              *)
(***************************************************************************)
Ordered(times) == \A i, j \in DOMAIN times : i <= j => times[i] <= times[j]

\* Log s is the end of log t.
Ends(s, t) ==
    /\ Len(s) <= Len(t)
    /\ \A i \in 1 .. Len(s) : s[i] = t[Len(t) - Len(s) + i]

\* A log in order, of times up to now.
LogOK(log, now) == log \in Seq(1 .. now) /\ Ordered(log)

\* The past times are those before a place of the log.
LEMMA PastIs ==
    ASSUME NEW now \in Nat, NEW times \in Seq(Nat), Ordered(times), NEW span \in Nat
    PROVE  /\ Cardinality(Past(times, span, now)) \in 0 .. Len(times)
           /\ \A i \in 1 .. Len(times) :
                 times[i] + span <= now <=> i <= Cardinality(Past(times, span, now))
<1> DEFINE S == Past(times, span, now)
<1>1. DOMAIN times = 1 .. Len(times) /\ Len(times) \in Nat
      /\ \A i \in 1 .. Len(times) : times[i] \in Nat
  BY ElementOfSeq, LenProperties
<1>2. S \subseteq 1 .. Len(times)
  BY <1>1 DEF Past
<1>3. \A n \in Nat : IsFiniteSet(1 .. n) /\ Cardinality(1 .. n) = n
  BY FS_Interval
<1>4. IsFiniteSet(S) /\ Cardinality(S) <= Len(times) /\ Cardinality(S) \in Nat
  BY <1>1, <1>2, <1>3, FS_Subset, FS_CardinalityType
<1>5. ASSUME NEW i \in S  PROVE i <= Cardinality(S)
  <2>1. 1 .. i \subseteq S
    BY <1>1, <1>2 DEF Past, Ordered
  <2>2. i \in Nat
    BY <1>1, <1>2
  <2> QED BY <1>3, <1>4, <2>1, <2>2, FS_Subset
<1>6. ASSUME NEW i \in (1 .. Len(times)) \ S  PROVE Cardinality(S) < i
  <2>1. S \subseteq 1 .. i - 1
    <3>1. SUFFICES ASSUME NEW s \in S, s >= i  PROVE FALSE
      BY <1>1, <1>2
    <3>2. times[i] <= times[s] /\ times[s] + span <= now /\ ~(times[i] + span <= now)
      BY <1>1, <1>2, <3>1 DEF Past, Ordered
    <3> QED BY <1>1, <1>2, <3>2
  <2>2. i - 1 \in Nat
    BY <1>1
  <2>3. Cardinality(S) <= i - 1
    BY <1>3, <2>1, <2>2, FS_Subset
  <2> QED BY <1>1, <1>4, <2>3
<1>7. \A i \in 1 .. Len(times) : i \in S <=> times[i] + span <= now
  BY <1>1 DEF Past
<1> QED BY <1>1, <1>4, <1>5, <1>6, <1>7

\* What is kept of a log of times of S is a log of times of S.
LEMMA LatelyType ==
    ASSUME NEW S, NEW times \in Seq(S), NEW span, NEW now
    PROVE  Lately(times, span, now) \in Seq(S)
<1>1. DOMAIN times = 1 .. Len(times) /\ Len(times) \in Nat
      /\ \A i \in 1 .. Len(times) : times[i] \in S
  BY ElementOfSeq, LenProperties
<1>2. Cardinality(Past(times, span, now)) \in Nat
  <2>1. IsFiniteSet(1 .. Len(times))
    BY <1>1, FS_Interval
  <2>2. Past(times, span, now) \subseteq 1 .. Len(times)
    BY <1>1 DEF Past
  <2> QED BY <2>1, <2>2, FS_Subset, FS_CardinalityType
<1> DEFINE first == Cardinality(Past(times, span, now)) + 1
<1>3. first \in Int /\ Len(times) \in Int /\ \A i \in first .. Len(times) : times[i] \in S
  BY <1>1, <1>2
<1>4. Lately(times, span, now) = SubSeq(times, first, Len(times))
  BY DEF Lately
<1> HIDE DEF first
<1> QED BY <1>3, <1>4, SubSeqProperties

\* What is kept is the end of the log, and exactly the times that are not past.
LEMMA LatelyIs ==
    ASSUME NEW now \in Nat, NEW times \in Seq(Nat), Ordered(times), NEW span \in Nat
    PROVE  /\ Lately(times, span, now) \in Seq(Nat) /\ Ordered(Lately(times, span, now))
           /\ Ends(Lately(times, span, now), times)
           /\ \A i \in 1 .. Len(times) :
                 times[i] + span > now
                    <=> i > Len(times) - Len(Lately(times, span, now))
<1> DEFINE past == Cardinality(Past(times, span, now))
           kept == Lately(times, span, now)
<1>1. /\ Len(times) \in Nat /\ DOMAIN times = 1 .. Len(times)
      /\ \A i \in 1 .. Len(times) : times[i] \in Nat
  BY ElementOfSeq, LenProperties
<1>2. /\ past \in 0 .. Len(times)
      /\ \A i \in 1 .. Len(times) : times[i] + span <= now <=> i <= past
  BY PastIs
<1>3. kept = SubSeq(times, past + 1, Len(times))
  BY DEF Lately
<1> HIDE DEF past, kept
<1>4. /\ kept \in Seq(Nat) /\ Len(kept) = Len(times) - past
      /\ \A i \in 1 .. Len(times) - past : kept[i] = times[past + i]
  <2>1. past + 1 \in Int /\ Len(times) \in Int
        /\ \A i \in past + 1 .. Len(times) : times[i] \in Nat
    BY <1>1, <1>2
  <2>2. /\ kept \in Seq(Nat)
        /\ Len(kept) = IF past + 1 <= Len(times) THEN Len(times) - (past + 1) + 1 ELSE 0
        /\ \A i \in 1 .. Len(times) - (past + 1) + 1 : kept[i] = times[(past + 1) + i - 1]
    BY <1>3, <2>1, SubSeqProperties
  <2>3. Len(kept) = Len(times) - past
    <3>1. Len(kept) = IF past + 1 <= Len(times) THEN Len(times) - (past + 1) + 1 ELSE 0
      BY <2>2, Zenon
    <3>2. Len(times) \in Nat /\ past \in 0 .. Len(times)
      BY <1>1, <1>2, Zenon
    <3> QED BY <3>1, <3>2
  <2>4. ASSUME NEW i \in 1 .. Len(times) - past  PROVE kept[i] = times[past + i]
    <3>1. i \in 1 .. Len(times) - (past + 1) + 1 /\ (past + 1) + i - 1 = past + i
      BY <1>1, <1>2
    <3> QED BY <2>2, <3>1
  <2> QED BY <2>2, <2>3, <2>4
<1>5. DOMAIN kept = 1 .. Len(times) - past
  BY <1>4, LenProperties
<1>6. Ordered(kept)
  <2>1. SUFFICES ASSUME NEW i \in 1 .. Len(times) - past,
                        NEW j \in 1 .. Len(times) - past, i <= j
                 PROVE  kept[i] <= kept[j]
    BY <1>5 DEF Ordered
  <2>2. past + i \in 1 .. Len(times) /\ past + j \in 1 .. Len(times) /\ past + i <= past + j
    BY <1>1, <1>2, <2>1
  <2>3. times[past + i] <= times[past + j]
    BY <1>1, <2>2 DEF Ordered
  <2> QED BY <1>4, <2>3
<1>7. Ends(kept, times)
  BY <1>1, <1>2, <1>4 DEF Ends
<1>8. \A i \in 1 .. Len(times) : times[i] + span > now <=> i > Len(times) - Len(kept)
  BY <1>1, <1>2, <1>4
<1> QED BY <1>4, <1>6, <1>7, <1>8 DEF kept

\* A log of times that are not past is kept as it is.
LEMMA LatelyWhole ==
    ASSUME NEW now \in Nat, NEW times \in Seq(Nat), Ordered(times), NEW span \in Nat,
           \A i \in 1 .. Len(times) : times[i] + span > now
    PROVE  Lately(times, span, now) = times
<1> DEFINE kept == Lately(times, span, now)
<1>1. /\ kept \in Seq(Nat) /\ Ends(kept, times)
      /\ \A i \in 1 .. Len(times) : i > Len(times) - Len(kept)
  BY LatelyIs
<1>2. Len(times) \in Nat /\ Len(kept) \in Nat /\ Len(kept) <= Len(times)
  BY <1>1, LenProperties DEF Ends
<1> HIDE DEF kept
<1>3. Len(kept) = Len(times)
  BY <1>1, <1>2
<1>4. \A i \in 1 .. Len(times) : kept[i] = times[i]
  BY <1>1, <1>2, <1>3 DEF Ends
<1>5. kept = times
  BY <1>1, <1>3, <1>4, SeqEqual
<1> QED BY <1>5 DEF kept

\* The time of the end of a log that is the end of another.
LEMMA EndsFrom ==
    ASSUME NEW t \in Seq(Nat), NEW s \in Seq(Nat), Ends(s, t), NEW i \in 1 .. Len(t),
           i > Len(t) - Len(s)
    PROVE  i - (Len(t) - Len(s)) \in 1 .. Len(s) /\ s[i - (Len(t) - Len(s))] = t[i]
<1>1. Len(t) \in Nat /\ Len(s) \in Nat /\ Len(s) <= Len(t)
  BY LenProperties DEF Ends
<1>2. i - (Len(t) - Len(s)) \in 1 .. Len(s)
      /\ Len(t) - Len(s) + (i - (Len(t) - Len(s))) = i
  BY <1>1
<1> QED BY <1>2 DEF Ends

\* An end of an end is an end.
LEMMA EndsTwice ==
    ASSUME NEW r \in Seq(Nat), NEW s \in Seq(Nat), NEW t \in Seq(Nat),
           Ends(r, s), Ends(s, t)
    PROVE  Ends(r, t)
<1>1. /\ Len(t) \in Nat /\ Len(s) \in Nat /\ Len(r) \in Nat
      /\ Len(r) <= Len(s) /\ Len(s) <= Len(t)
  BY LenProperties DEF Ends
<1>2. ASSUME NEW i \in 1 .. Len(r)  PROVE r[i] = t[Len(t) - Len(r) + i]
  <2> DEFINE j == Len(s) - Len(r) + i
  <2>1. j \in 1 .. Len(s) /\ Len(t) - Len(s) + j = Len(t) - Len(r) + i
    BY <1>1
  <2>2. r[i] = s[j]
    BY DEF Ends
  <2>3. s[j] = t[Len(t) - Len(s) + j]
    BY <2>1 DEF Ends
  <2> QED BY <2>1, <2>2, <2>3
<1> QED BY <1>1, <1>2 DEF Ends

\* Two ends of one log are ends of each other.
LEMMA EndsNested ==
    ASSUME NEW r \in Seq(Nat), NEW s \in Seq(Nat), NEW t \in Seq(Nat),
           Ends(r, t), Ends(s, t), Len(r) <= Len(s)
    PROVE  Ends(r, s)
<1>1. /\ Len(t) \in Nat /\ Len(s) \in Nat /\ Len(r) \in Nat
      /\ Len(r) <= Len(s) /\ Len(s) <= Len(t)
  BY LenProperties DEF Ends
<1>2. ASSUME NEW i \in 1 .. Len(r)  PROVE r[i] = s[Len(s) - Len(r) + i]
  <2> DEFINE j == Len(s) - Len(r) + i
  <2>1. j \in 1 .. Len(s) /\ Len(t) - Len(s) + j = Len(t) - Len(r) + i
    BY <1>1
  <2>2. r[i] = t[Len(t) - Len(r) + i]
    BY DEF Ends
  <2>3. s[j] = t[Len(t) - Len(s) + j]
    BY <2>1 DEF Ends
  <2> QED BY <2>1, <2>2, <2>3
<1> QED BY <1>1, <1>2 DEF Ends

\* Ends of the same length are the same.
LEMMA EndsEqual ==
    ASSUME NEW s \in Seq(Nat), NEW t \in Seq(Nat), Ends(s, t), Len(s) = Len(t)
    PROVE  s = t
<1>1. Len(t) \in Nat
  BY LenProperties
<1>2. \A i \in 1 .. Len(s) : s[i] = t[i]
  BY <1>1 DEF Ends
<1> QED BY <1>2, SeqEqual

\* What is kept of an end of a log is an end of what is kept of the log.
LEMMA LatelyEnds ==
    ASSUME NEW now \in Nat, NEW span \in Nat,
           NEW s \in Seq(Nat), NEW t \in Seq(Nat), Ordered(s), Ordered(t), Ends(s, t)
    PROVE  /\ Ends(Lately(s, span, now), Lately(t, span, now))
           /\ Len(Lately(s, span, now)) = Lesser(Len(s), Len(Lately(t, span, now)))
<1> DEFINE r == Lately(s, span, now)
           q == Lately(t, span, now)
<1>1. /\ r \in Seq(Nat) /\ Ends(r, s)
      /\ \A i \in 1 .. Len(s) : s[i] + span > now <=> i > Len(s) - Len(r)
  BY LatelyIs
<1>2. /\ q \in Seq(Nat) /\ Ends(q, t)
      /\ \A i \in 1 .. Len(t) : t[i] + span > now <=> i > Len(t) - Len(q)
  BY LatelyIs
<1> HIDE DEF r, q
<1>3. /\ Len(s) \in Nat /\ Len(t) \in Nat /\ Len(r) \in Nat /\ Len(q) \in Nat
      /\ Len(s) <= Len(t) /\ Len(r) <= Len(s) /\ Len(q) <= Len(t)
  BY <1>1, <1>2, LenProperties DEF Ends
<1>4. \A i \in 1 .. Len(s) : i > Len(s) - Len(r) <=> i > Len(s) - Len(q)
  <2>1. TAKE i \in 1 .. Len(s)
  <2>2. Len(t) - Len(s) + i \in 1 .. Len(t) /\ s[i] = t[Len(t) - Len(s) + i]
    BY <1>3 DEF Ends
  <2>3. Len(t) - Len(s) + i > Len(t) - Len(q) <=> i > Len(s) - Len(q)
    BY <1>3
  <2> QED BY <1>1, <1>2, <2>2, <2>3
<1>5. Len(r) = Lesser(Len(s), Len(q))
  <2>1. CASE Len(s) <= Len(q)
    <3>1. ASSUME Len(s) > 0  PROVE 1 > Len(s) - Len(r)
      <4>1. 1 \in 1 .. Len(s) /\ 1 > Len(s) - Len(q)
        BY <1>3, <2>1, <3>1
      <4> QED BY <1>4, <4>1
    <3> QED BY <1>3, <2>1, <3>1 DEF Lesser
  <2>2. CASE Len(s) > Len(q)
    <3>1. ~(Len(s) - Len(q) > Len(s) - Len(r))
      <4>1. Len(s) - Len(q) \in 1 .. Len(s) /\ ~(Len(s) - Len(q) > Len(s) - Len(q))
        BY <1>3, <2>2
      <4> QED BY <1>4, <4>1
    <3>2. ASSUME Len(s) - Len(r) >= 1  PROVE ~(Len(s) - Len(r) > Len(s) - Len(q))
      <4>1. Len(s) - Len(r) \in 1 .. Len(s) /\ ~(Len(s) - Len(r) > Len(s) - Len(r))
        BY <1>3, <3>2
      <4> QED BY <1>4, <4>1
    <3> QED BY <1>3, <2>2, <3>1, <3>2 DEF Lesser
  <2> QED BY <1>3, <2>1, <2>2
<1>6. Ends(r, t) /\ Len(r) <= Len(q)
  BY <1>1, <1>3, <1>5, EndsTwice DEF Lesser
<1>7. Ends(r, q)
  BY <1>1, <1>2, <1>6, EndsNested
<1> QED BY <1>5, <1>7 DEF r, q

\* A window that was kept up to now holds all that a later one needs.
LEMMA LatelyTwice ==
    ASSUME NEW now \in Nat, NEW later \in Nat, now <= later, NEW span \in Nat,
           NEW t \in Seq(Nat), Ordered(t)
    PROVE  Lately(Lately(t, span, now), span, later) = Lately(t, span, later)
<1> DEFINE s == Lately(t, span, now)
           q == Lately(t, span, later)
           r == Lately(s, span, later)
<1>1. /\ s \in Seq(Nat) /\ Ordered(s) /\ Ends(s, t)
      /\ \A i \in 1 .. Len(t) : t[i] + span > now <=> i > Len(t) - Len(s)
  BY LatelyIs
<1>2. /\ q \in Seq(Nat) /\ Ends(q, t)
      /\ \A i \in 1 .. Len(t) : t[i] + span > later <=> i > Len(t) - Len(q)
  BY LatelyIs
<1>3. r \in Seq(Nat) /\ Ends(r, q) /\ Len(r) = Lesser(Len(s), Len(q))
  <2>1. r \in Seq(Nat)
    BY <1>1, LatelyType
  <2>2. Ends(r, q) /\ Len(r) = Lesser(Len(s), Len(q))
    <3> HIDE DEF s
    <3> QED BY <1>1, LatelyEnds
  <2> QED BY <2>1, <2>2
<1> HIDE DEF s, q, r
<1>4. /\ Len(s) \in Nat /\ Len(t) \in Nat /\ Len(q) \in Nat /\ Len(s) <= Len(t) /\ Len(q) <= Len(t)
      /\ \A i \in 1 .. Len(t) : t[i] \in Nat
  BY <1>1, <1>2, LenProperties, ElementOfSeq DEF Ends
<1>5. Len(q) <= Len(s)
  <2>1. \A i \in 1 .. Len(t) : i > Len(t) - Len(q) => i > Len(t) - Len(s)
    <3>1. TAKE i \in 1 .. Len(t)
    <3>2. t[i] + span > later => t[i] + span > now
      BY <1>4
    <3> QED BY <1>1, <1>2, <3>2
  <2>2. Len(q) > 0 => Len(t) - Len(q) + 1 \in 1 .. Len(t)
                      /\ Len(t) - Len(q) + 1 > Len(t) - Len(q)
    BY <1>4
  <2>3. Len(q) > 0 => Len(t) - Len(q) + 1 > Len(t) - Len(s)
    BY <2>1, <2>2
  <2> QED BY <1>4, <2>3
<1>6. Len(r) = Len(q)
  BY <1>3, <1>4, <1>5 DEF Lesser
<1>7. r = q
  BY <1>2, <1>3, <1>6, EndsEqual
<1> QED BY <1>7 DEF r, q, s

\* The same time appended to a log and to its end.
LEMMA EndsAppend ==
    ASSUME NEW s \in Seq(Nat), NEW t \in Seq(Nat), Ends(s, t), NEW now \in Nat
    PROVE  Ends(Append(s, now), Append(t, now))
<1> DEFINE a == Append(s, now)
           b == Append(t, now)
<1>1. Len(s) \in Nat /\ Len(t) \in Nat /\ Len(s) <= Len(t)
  BY LenProperties DEF Ends
<1>2. /\ Len(a) = Len(s) + 1 /\ a[Len(s) + 1] = now
      /\ \A i \in 1 .. Len(s) : a[i] = s[i]
  BY AppendProperties
<1>3. /\ Len(b) = Len(t) + 1 /\ b[Len(t) + 1] = now
      /\ \A i \in 1 .. Len(t) : b[i] = t[i]
  BY AppendProperties
<1> HIDE DEF a, b
<1>4. ASSUME NEW i \in 1 .. Len(a)  PROVE a[i] = b[Len(b) - Len(a) + i]
  <2>1. CASE i = Len(s) + 1
    <3>1. Len(b) - Len(a) + i = Len(t) + 1
      BY <1>1, <1>2, <1>3, <2>1
    <3> QED BY <1>2, <1>3, <2>1, <3>1
  <2>2. CASE i \in 1 .. Len(s)
    <3>1. Len(b) - Len(a) + i = Len(t) - Len(s) + i
          /\ Len(t) - Len(s) + i \in 1 .. Len(t)
      BY <1>1, <1>2, <1>3, <2>2
    <3>2. b[Len(t) - Len(s) + i] = t[Len(t) - Len(s) + i] /\ a[i] = s[i]
      BY <1>2, <1>3, <2>2, <3>1
    <3>3. s[i] = t[Len(t) - Len(s) + i]
      BY <2>2 DEF Ends
    <3> QED BY <3>1, <3>2, <3>3
  <2>3. i = Len(s) + 1 \/ i \in 1 .. Len(s)
    BY <1>1, <1>2
  <2> QED BY <2>1, <2>2, <2>3
<1>5. Ends(a, b)
  BY <1>1, <1>2, <1>3, <1>4 DEF Ends
<1> QED BY <1>5 DEF a, b

\* A log stays in order when the time is appended.
LEMMA LogAppend ==
    ASSUME NEW now \in Nat \ {0}, NEW log, LogOK(log, now)
    PROVE  LogOK(Append(log, now), now)
<1>1. /\ log \in Seq(1 .. now) /\ Len(log) \in Nat
      /\ DOMAIN log = 1 .. Len(log)
      /\ \A i \in 1 .. Len(log) : log[i] \in 1 .. now
  BY LenProperties, ElementOfSeq DEF LogOK
<1>2. /\ Append(log, now) \in Seq(1 .. now) /\ Len(Append(log, now)) = Len(log) + 1
      /\ \A i \in 1 .. Len(log) : Append(log, now)[i] = log[i]
      /\ Append(log, now)[Len(log) + 1] = now
  <2>1. now \in 1 .. now
    OBVIOUS
  <2> QED BY <1>1, <2>1, AppendProperties
<1>3. DOMAIN Append(log, now) = 1 .. Len(log) + 1
  BY <1>2, LenProperties
<1>4. Ordered(Append(log, now))
  BY <1>1, <1>2, <1>3 DEF Ordered, LogOK
<1> QED BY <1>2, <1>4 DEF LogOK

-----------------------------------------------------------------------------
(***************************************************************************)
(* The types of the gates.                                                 *)
(***************************************************************************)
EntriesOK    == MapOK(entries, Origins, ThrottleEntry)
RequestLogOK == MapOK(requestLog, Keys, Seq(Times))

GateInv ==
    /\ SlotInv /\ EntriesOK /\ RequestLogOK
    /\ predialogLog \in Seq(Times) /\ tokenReadLog \in Seq(Times)
    /\ refusal \in Refusals /\ clock \in Times /\ granted \subseteq Origins
    /\ grantChanges \in Nat /\ terminations \in Nat

\* A key of a map within another has its value there, or none.
LEMMA WithinLookup ==
    ASSUME NEW K, NEW V, NEW m, MapOK(m, K, V), NEW n, MapOK(n, K, V), Within(n, m),
           NEW key, NEW none
    PROVE  Lookup(n, key, none) \in {Lookup(m, key, none), none}
<1>1. CASE HasKey(n, key)
  BY <1>1, WithinFound DEF MapOK
<1>2. CASE ~HasKey(n, key)
  BY <1>2 DEF Lookup
<1> QED BY <1>1, <1>2

\* What the throttle knows of a site.
LEMMA EntryType ==
    ASSUME EntriesOK, NEW o
    PROVE  EntryOf(o) \in ThrottleEntry
<1>1. CleanSlate \in ThrottleEntry
  BY DEF CleanSlate, ThrottleEntry
<1> QED BY <1>1, LookupType DEF EntriesOK, EntryOf

\* entryFor and the update: the site has its entry, the others keep theirs
\* unless it is evicted.
LEMMA EntrySet ==
    ASSUME EntriesOK, NEW o \in Origins, NEW e \in ThrottleEntry, SetEntry(o, e)
    PROVE  /\ EntriesOK' /\ EntryOf(o)' = e
           /\ \A p : p # o => EntryOf(p)' \in {EntryOf(p), CleanSlate}
<1> DEFINE room == EvictIfFull(entries, MAX_TRACKED_ORIGINS)
<1>1. CASE HasKey(entries, o)
  <2>1. entries' = Touch(entries, o, e)
    BY <1>1 DEF SetEntry
  <2>2. MapOK(entries', Origins, ThrottleEntry)
    BY <2>1, TouchMap DEF EntriesOK
  <2>3. \A p : Lookup(entries', p, CleanSlate)
                  = IF p = o THEN e ELSE Lookup(entries, p, CleanSlate)
    BY <2>1, TouchValue DEF EntriesOK
  <2> QED BY <2>2, <2>3 DEF EntriesOK, EntryOf
<1>2. CASE ~HasKey(entries, o)
  <2>1. entries' = Insert(room, o, e)
    BY <1>2 DEF SetEntry
  <2>2. MAX_TRACKED_ORIGINS \in Nat \ {0}
    BY ThrottleAssumption
  <2>3. MapOK(room, Origins, ThrottleEntry) /\ Within(room, entries) /\ ~HasKey(room, o)
    BY <1>2, <2>2, EvictMap DEF EntriesOK
  <2>4. MapOK(entries', Origins, ThrottleEntry)
    <3> HIDE DEF room
    <3> QED BY <2>1, <2>3, InsertMap
  <2>5. \A p : Lookup(entries', p, CleanSlate)
                  = IF p = o THEN e ELSE Lookup(room, p, CleanSlate)
    <3> HIDE DEF room
    <3> QED BY <2>1, <2>3, InsertValue
  <2>6. \A p : Lookup(room, p, CleanSlate) \in {Lookup(entries, p, CleanSlate), CleanSlate}
    <3> HIDE DEF room
    <3> QED BY <2>3, WithinLookup DEF EntriesOK
  <2> HIDE DEF room
  <2> QED BY <2>4, <2>5, <2>6 DEF EntriesOK, EntryOf
<1> QED BY <1>1, <1>2

\* An approval, or a cooldown that is over, clears the slate.
LEMMA EntryCleared ==
    ASSUME EntriesOK, NEW o, entries' = Delete(entries, o)
    PROVE  /\ EntriesOK' /\ EntryOf(o)' = CleanSlate
           /\ \A p : EntryOf(p)' \in {EntryOf(p), CleanSlate}
<1>1. MapOK(entries', Origins, ThrottleEntry) /\ Within(entries', entries)
      /\ ~HasKey(entries', o)
  BY DeleteMap DEF EntriesOK
<1>2. \A p : Lookup(entries', p, CleanSlate)
                \in {Lookup(entries, p, CleanSlate), CleanSlate}
  BY <1>1, WithinLookup DEF EntriesOK
<1>3. Lookup(entries', o, CleanSlate) = CleanSlate
  BY <1>1 DEF Lookup
<1> QED BY <1>1, <1>2, <1>3 DEF EntriesOK, EntryOf

\* The check before a dialog gives nobody a count or a cooldown.
LEMMA EntryChecked ==
    ASSUME EntriesOK, NEW o \in Origins, NEW now, DialogChecked(o, now)
    PROVE  EntriesOK' /\ \A p : EntryOf(p)' \in {EntryOf(p), CleanSlate}
<1> DEFINE entry == EntryOf(o)
<1>1. CASE entries' = entries
  BY <1>1 DEF EntriesOK, EntryOf
<1>2. CASE entries' = Delete(entries, o)
  BY <1>2, EntryCleared
<1>3. CASE entries' = Touch(entries, o, entry)
  <2>1. entry \in ThrottleEntry
    BY EntryType
  <2> HIDE DEF entry
  <2>2. MapOK(entries', Origins, ThrottleEntry)
    BY <1>3, <2>1, TouchMap DEF EntriesOK
  <2>3. \A p : Lookup(entries', p, CleanSlate)
                  = IF p = o THEN entry ELSE Lookup(entries, p, CleanSlate)
    BY <1>3, <2>1, TouchValue DEF EntriesOK
  <2> QED BY <2>2, <2>3 DEF EntriesOK, EntryOf, entry
<1> QED BY <1>1, <1>2, <1>3 DEF DialogChecked

\* A rejection is counted, or starts the cooldown.
LEMMA RejectionRecorded ==
    ASSUME EntriesOK, NEW o \in Origins, NEW now \in Nat, recordDialogRejection(o, now)
    PROVE  /\ EntriesOK' /\ \A p : p # o => EntryOf(p)' \in {EntryOf(p), CleanSlate}
           /\ EntryOf(o)' = IF EntryOf(o).rejections + 1 >= MAX_CONSECUTIVE_REJECTIONS
                            THEN CoolDown(now)
                            ELSE [EntryOf(o) EXCEPT !.rejections = @ + 1]
<1> DEFINE entry == EntryOf(o)
           new == IF entry.rejections + 1 >= MAX_CONSECUTIVE_REJECTIONS THEN CoolDown(now)
                  ELSE [entry EXCEPT !.rejections = @ + 1]
<1>1. entry \in ThrottleEntry
  BY EntryType
<1>2. SetEntry(o, new)
  BY DEF recordDialogRejection
<1>3. new \in ThrottleEntry
  <2> HIDE DEF entry
  <2> QED BY <1>1, ThrottleAssumption DEF CoolDown, CleanSlate, ThrottleEntry
<1> HIDE DEF new
<1>4. /\ EntriesOK' /\ EntryOf(o)' = new
      /\ \A p : p # o => EntryOf(p)' \in {EntryOf(p), CleanSlate}
  BY <1>2, <1>3, EntrySet
<1> QED BY <1>4 DEF new

\* A dialog opened is counted, or starts the cooldown.
LEMMA OpeningRecorded ==
    ASSUME EntriesOK, NEW o \in Origins, NEW now \in Nat, recordDialogOpened(o, now)
    PROVE  /\ EntriesOK' /\ \A p : p # o => EntryOf(p)' \in {EntryOf(p), CleanSlate}
           /\ EntryOf(o)' = IF EntryOf(o).opened + 1 >= MAX_UNANSWERED_DIALOGS
                            THEN CoolDown(now)
                            ELSE [EntryOf(o) EXCEPT !.opened = @ + 1]
<1> DEFINE entry == EntryOf(o)
           new == IF entry.opened + 1 >= MAX_UNANSWERED_DIALOGS THEN CoolDown(now)
                  ELSE [entry EXCEPT !.opened = @ + 1]
<1>1. entry \in ThrottleEntry
  BY EntryType
<1>2. SetEntry(o, new)
  BY DEF recordDialogOpened
<1>3. new \in ThrottleEntry
  <2> HIDE DEF entry
  <2> QED BY <1>1, ThrottleAssumption DEF CoolDown, CleanSlate, ThrottleEntry
<1> HIDE DEF new
<1>4. /\ EntriesOK' /\ EntryOf(o)' = new
      /\ \A p : p # o => EntryOf(p)' \in {EntryOf(p), CleanSlate}
  BY <1>2, <1>3, EntrySet
<1> QED BY <1>4 DEF new

\* The limiter's map with room for key k, and the window k is left with.
RoomFor(k) == IF HasKey(requestLog, k) THEN requestLog
              ELSE EvictIfFull(requestLog, MAX_TRACKED_KEYS)

WindowLeft(o, m, now) ==
    IF RateAllowed(o, m, now) THEN Append(Window(o, m, now), now) ELSE Window(o, m, now)

\* The room and the window are a map and a log of the limiter's types.
LEMMA RoomType ==
    ASSUME RequestLogOK, NEW k
    PROVE  MapOK(RoomFor(k), Keys, Seq(Times)) /\ Within(RoomFor(k), requestLog)
<1>1. MAX_TRACKED_KEYS \in Nat \ {0}
  BY LimitsAssumption
<1>2. MapOK(requestLog, Keys, Seq(Times)) /\ Within(requestLog, requestLog)
  BY DEF RequestLogOK, Within
<1>3. /\ MapOK(EvictIfFull(requestLog, MAX_TRACKED_KEYS), Keys, Seq(Times))
      /\ Within(EvictIfFull(requestLog, MAX_TRACKED_KEYS), requestLog)
  BY <1>1, <1>2, EvictMap
<1> QED BY <1>2, <1>3 DEF RoomFor

\* The window of a key is a log of times.
LEMMA WindowType ==
    ASSUME RequestLogOK, NEW o, NEW m, NEW now \in Times
    PROVE  Window(o, m, now) \in Seq(Times) /\ WindowLeft(o, m, now) \in Seq(Times)
<1>1. << >> \in Seq(Times)
  BY EmptySeq
<1>2. Lookup(requestLog, Key(o, m), << >>) \in Seq(Times)
  BY <1>1, LookupType DEF RequestLogOK
<1>3. Window(o, m, now) \in Seq(Times)
  BY <1>2, LatelyType DEF Window, Recent
<1>4. Append(Window(o, m, now), now) \in Seq(Times)
  BY <1>3, AppendProperties
<1> QED BY <1>3, <1>4 DEF WindowLeft

\* assertRateAllowed leaves the key last, with its window, in a map with room.
LEMMA RateCheckedIs ==
    ASSUME NEW o \in Origins, NEW m \in Methods \cap DOMAIN RATE_LIMITS,
           NEW now, RateChecked(o, m, now)
    PROVE  /\ Key(o, m) \in Keys
           /\ requestLog' = Touch(RoomFor(Key(o, m)), Key(o, m), WindowLeft(o, m, now))
<1>1. Key(o, m) \in Keys
  BY DEF Key, Keys
<1> QED BY <1>1 DEF RateChecked, RoomFor, WindowLeft

\* The limiter's map keeps its type.
LEMMA RateLogKept ==
    ASSUME RequestLogOK, NEW o \in Origins, NEW m \in Methods, NEW now \in Times,
           RateChecked(o, m, now)
    PROVE  RequestLogOK'
<1>1. CASE m \notin DOMAIN RATE_LIMITS
  BY <1>1 DEF RateChecked, RequestLogOK
<1>2. CASE m \in DOMAIN RATE_LIMITS
  <2> DEFINE k == Key(o, m)
             room == RoomFor(k)
             left == WindowLeft(o, m, now)
  <2>1. k \in Keys /\ requestLog' = Touch(room, k, left)
    BY <1>2, RateCheckedIs
  <2>2. MapOK(room, Keys, Seq(Times)) /\ left \in Seq(Times)
    BY RoomType, WindowType
  <2> HIDE DEF k, room, left
  <2> QED BY <2>1, <2>2, TouchMap DEF RequestLogOK
<1> QED BY <1>1, <1>2

\* A claim leaves a budget a log of times.
LEMMA BudgetType ==
    ASSUME NEW log \in Seq(Times), NEW ceiling, NEW count \in Nat, NEW now \in Times
    PROVE  BudgetTaken(log, ceiling, count, now) \in Seq(Times)
<1> DEFINE kept == Recent(log, now)
           claim == [i \in 1 .. count |-> now]
<1>1. kept \in Seq(Times)
  BY LatelyType DEF Recent
<1>2. claim \in Seq(Times)
  OBVIOUS
<1> HIDE DEF kept, claim
<1>3. kept \o claim \in Seq(Times)
  BY <1>1, <1>2, ConcatProperties
<1> QED BY <1>1, <1>3 DEF BudgetTaken, kept, claim

\* Routing a request leaves the gates their types.
LEMMA RouteTyped ==
    ASSUME GateInv, NEW c \in Calls, NEW o \in Origins, NEW m \in Methods, Route(c, o, m)
    PROVE  GateInv'
<1>1. SlotInv'
  BY RouteSafe DEF GateInv
<1>2. EntriesOK'
  <2>1. CASE DialogChecked(o, clock)
    BY <2>1, EntryChecked DEF GateInv
  <2>2. CASE UNCHANGED entries
    BY <2>2 DEF GateInv, EntriesOK
  <2> QED BY <2>1, <2>2 DEF Route
<1>3. RequestLogOK'
  <2>1. CASE UNCHANGED requestLog
    BY <2>1 DEF GateInv, RequestLogOK
  <2>2. CASE RateChecked(o, m, clock)
    BY <2>2, RateLogKept DEF GateInv
  <2> QED BY <2>1, <2>2 DEF Route, limits
<1>4. refusal' \in Refusals
  BY DEF Route, Answer, EnterBudget, Admit, MovesTo, Refusals
<1>5. UNCHANGED <<budgets, bounds>>
  BY DEF Route
<1> QED BY <1>1, <1>2, <1>3, <1>4, <1>5 DEF GateInv, budgets, bounds

\* What a request does after it was routed leaves the gates their types.
LEMMA CallStepTyped ==
    ASSUME GateInv, NEW c \in Calls, CallStep(c)
    PROVE  GateInv'
<1>1. SlotInv' /\ SlotInv /\ clock \in Times
  BY CallStepSafe DEF GateInv
<1>2. \A o : call[c].at # "idle" /\ o = call[c].origin => o \in Origins
  BY DEF GateInv, SlotInv
<1>3. CASE GrantRead(c) \/ ReadConnected(c) \/ Finish(c)
  <2>1. UNCHANGED <<entries, requestLog, budgets, bounds>>
    BY <1>3 DEF GrantRead, ReadConnected, Finish, limits
  <2>2. refusal' \in Refusals
    BY <1>3 DEF GrantRead, ReadConnected, Finish, Admit, Answer, MovesTo, Refusals
  <2> QED BY <1>1, <2>1, <2>2 DEF GateInv, EntriesOK, RequestLogOK, budgets, bounds
<1>4. CASE LookUp(c)
  <2>1. UNCHANGED <<entries, requestLog, tokenReadLog, bounds>>
    BY <1>4 DEF LookUp, limits
  <2>2. refusal' \in Refusals
    BY <1>4 DEF LookUp, Refusals
  <2>3. predialogLog' \in Seq(Times)
    BY <1>1, <1>4, BudgetType, GateAssumption DEF LookUp, takePredialogBudget, GateInv
  <2> QED BY <1>1, <2>1, <2>2, <2>3 DEF GateInv, EntriesOK, RequestLogOK, bounds
<1>5. CASE ReadTokens(c)
  <2>1. UNCHANGED <<entries, requestLog, predialogLog, bounds>>
    BY <1>5 DEF ReadTokens
  <2>2. refusal' \in Refusals
    BY <1>5 DEF ReadTokens, Answer, MovesTo, Refusals
  <2>3. tokenReadLog' \in Seq(Times)
    BY <1>1, <1>5, BudgetType, GateAssumption DEF ReadTokens, takeTokenReadBudget, GateInv
  <2> QED BY <1>1, <2>1, <2>2, <2>3 DEF GateInv, EntriesOK, RequestLogOK, bounds
<1>6. CASE OpenDialog(c) \/ Approve(c) \/ Reject(c)
  <2>1. call[c].origin \in Origins
    BY <1>2, <1>6 DEF OpenDialog, Approve, Reject, Reviews
  <2>2. UNCHANGED <<requestLog, budgets, bounds>>
    BY <1>6 DEF OpenDialog, Approve, Reject, limits
  <2>3. refusal' \in Refusals
    BY <1>6 DEF OpenDialog, Approve, Reject, Answer, MovesTo, Refusals
  <2>4. EntriesOK /\ clock \in Nat
    BY <1>1 DEF GateInv, Times
  <2>5. EntriesOK'
    BY <1>6, <2>1, <2>4, OpeningRecorded, RejectionRecorded, EntryCleared
       DEF OpenDialog, Approve, Reject, clearDialogRejections
  <2> QED BY <1>1, <2>2, <2>3, <2>5 DEF GateInv, RequestLogOK, budgets, bounds
<1> QED BY <1>3, <1>4, <1>5, <1>6 DEF CallStep

\* A map without entries is a map.
LEMMA EmptyMap ==
    ASSUME NEW K, NEW V
    PROVE  MapOK(<< >>, K, V)
<1>1. << >> \in Seq(EntriesOf(K, V)) /\ DOMAIN << >> = {}
  BY EmptySeq
<1> QED BY <1>1 DEF MapOK, Distinct

\* GateInv is inductive.
LEMMA NextGate ==
    ASSUME GateInv, [Next]_vars
    PROVE  GateInv'
<1> USE DEF vars, limits, budgets, bounds
<1> "none" \in Refusals
  BY DEF Refusals
<1>1. SlotInv'
  BY NextSlots DEF GateInv
<1> clock \in Times /\ granted \subseteq Origins /\ grantChanges \in Nat
    /\ terminations \in Nat
  BY DEF GateInv
<1>2. CASE \E c \in Calls, o \in Origins, m \in Methods : Route(c, o, m)
  BY <1>2, RouteTyped
<1>3. CASE \E c \in Calls : CallStep(c)
  BY <1>3, CallStepTyped
<1>4. CASE Tick
  <2>1. /\ UNCHANGED <<entries, limits, budgets, granted, grantChanges, terminations>>
        /\ refusal' = "none" /\ clock < MaxClock /\ clock' = clock + 1
    BY <1>4 DEF Tick
  <2>2. clock' \in Times
    BY <2>1, GateAssumption DEF Times
  <2> QED BY <1>1, <2>1, <2>2 DEF GateInv, EntriesOK, RequestLogOK
<1>5. CASE ChangeGrants
  <2>1. /\ UNCHANGED <<entries, limits, budgets, clock, terminations>>
        /\ refusal' = "none" /\ grantChanges' = grantChanges + 1
        /\ \E o \in Origins : granted' \in {granted \cup {o}, granted \ {o}}
    BY <1>5 DEF ChangeGrants
  <2>2. granted' \subseteq Origins /\ grantChanges' \in Nat
    BY <2>1
  <2> QED BY <1>1, <2>1, <2>2 DEF GateInv, EntriesOK, RequestLogOK
<1>6. CASE Terminate
  <2>1. /\ entries' = << >> /\ requestLog' = << >>
        /\ predialogLog' = << >> /\ tokenReadLog' = << >>
        /\ UNCHANGED <<clock, granted, grantChanges>>
        /\ refusal' = "none" /\ terminations' = terminations + 1
    BY <1>6 DEF Terminate
  <2>2. terminations' \in Nat
    BY <2>1
  <2>3. EntriesOK' /\ RequestLogOK' /\ << >> \in Seq(Times)
    BY <2>1, EmptyMap, EmptySeq DEF EntriesOK, RequestLogOK
  <2> QED BY <1>1, <2>1, <2>2, <2>3 DEF GateInv
<1>7. CASE UNCHANGED vars
  BY <1>1, <1>7 DEF GateInv, EntriesOK, RequestLogOK
<1> QED BY <1>2, <1>3, <1>4, <1>5, <1>6, <1>7 DEF Next

\* The gates start with nothing on record.
LEMMA InitGate ==
    ASSUME Init
    PROVE  GateInv
<1>1. SlotInv
  BY NothingPending DEF Init
<1>2. EntriesOK /\ RequestLogOK /\ << >> \in Seq(Times)
  BY EmptyMap, EmptySeq DEF Init, EntriesOK, RequestLogOK
<1>3. clock \in Times /\ refusal \in Refusals /\ granted \subseteq Origins
  BY GateAssumption DEF Init, Times, Refusals
<1> QED BY <1>1, <1>2, <1>3 DEF Init, GateInv

\* GateInv holds in every behaviour of the gates.
LEMMA GateSound == Spec => []GateInv
<1>1. GateInv /\ [Next]_vars => GateInv'
  BY NextGate
<1> QED BY <1>1, InitGate, PTL DEF Spec

\* In every behaviour the throttle's entries, the limiter's logs, the slots
\* and the requests have their types.
THEOREM GatesTyped == Spec => []GateTypeOK
<1>1. GateInv => GateTypeOK
  BY DEF GateInv, GateTypeOK, SlotInv, EntriesOK, RequestLogOK, MapOK, EntriesOf
<1> QED BY <1>1, GateSound, PTL

\* A busy answer to a connected site found every slot of the wallet taken.
LEMMA BusyIsFull ==
    ASSUME SlotInv, NEW c \in Calls, GrantRead(c), refusal' = "busy",
           call[c].origin \in granted
    PROVE  Cardinality(Executing) >= MAX_INFLIGHT_GLOBAL
<1>1. Admit(c, call[c], call[c].origin \in granted)
  <2>1. "busy" # "none"
    OBVIOUS
  <2> QED BY <2>1, Zenon DEF GrantRead, Answer
<1>2. ~SlotFree(call[c].origin \in granted)
  <2>1. "busy" # "none" /\ "busy" # "site busy"
    BY Zenon
  <2> QED BY <1>1, <2>1, Zenon DEF Admit, Answer, MovesTo
<1>3. Ceiling(call[c].origin \in granted) = MAX_INFLIGHT_GLOBAL
  BY DEF Ceiling
<1>4. ~(inflightTotal < MAX_INFLIGHT_GLOBAL)
  BY <1>2, <1>3, Zenon DEF SlotFree
<1>5. inflightTotal = Cardinality(Executing) /\ inflightTotal \in Nat
  BY DEF SlotInv, SlotsCounted
<1>6. MAX_INFLIGHT_GLOBAL \in Nat
  BY LimitsAssumption
<1> QED BY <1>4, <1>5, <1>6

\* In every behaviour a connected site is refused for the concurrency of
\* others only when every slot of the wallet is taken.
THEOREM BusyIsEarned == Spec => BusyMeansFull
<1>1. ASSUME SlotInv
      PROVE  \A c \in Calls : GrantRead(c) /\ refusal' = "busy" /\ call[c].origin \in granted
                                 => Cardinality(Executing) >= MAX_INFLIGHT_GLOBAL
  BY <1>1, BusyIsFull
<1> QED BY <1>1, SlotsSound, PTL DEF BusyMeansFull

-----------------------------------------------------------------------------
(***************************************************************************)
(* The cooldowns: what the throttle has counted against a site, the record *)
(* of its dialogs has too, until they have earned it a cooldown.           *)
(***************************************************************************)
Tallies == [unanswered : Nat, rejections : Nat, earned : BOOLEAN]

\* The entry e counts no more than the record t, or the record has earned the
\* site its cooldown.
Backed(e, t) ==
    \/ t.earned
    \/ /\ e.rejections <= t.rejections /\ e.opened <= t.unanswered
       /\ e.blockedUntil = 0

CoolInv ==
    /\ tally \in [Watched -> Tallies]
    /\ \A o \in Watched : Backed(EntryOf(o), tally[o])

\* A clean slate is backed by any record.
LEMMA CleanBacked ==
    ASSUME NEW t \in Tallies
    PROVE  Backed(CleanSlate, t)
BY DEF Backed, CleanSlate, Tallies

\* The counts of a site without dialogs.
LEMMA NoTallyType == NoTally \in Tallies
BY DEF NoTally, Tallies

\* Counting keeps a record's counts below the limits, unless they are earned.
LEMMA CountedIs ==
    ASSUME NEW t \in Tallies
    PROVE  /\ Counted(t) \in Tallies
           /\ \/ Counted(t).earned
              \/ /\ Counted(t) = t
                 /\ t.unanswered < MAX_UNANSWERED_DIALOGS
                 /\ t.rejections < MAX_CONSECUTIVE_REJECTIONS
<1>1. CASE t.earned \/ t.unanswered >= MAX_UNANSWERED_DIALOGS
              \/ t.rejections >= MAX_CONSECUTIVE_REJECTIONS
  BY <1>1 DEF Counted, Tallies
<1>2. CASE ~(t.earned \/ t.unanswered >= MAX_UNANSWERED_DIALOGS
                \/ t.rejections >= MAX_CONSECUTIVE_REJECTIONS)
  <2>1. Counted(t) = t
    BY <1>2 DEF Counted
  <2>2. t.unanswered \in Nat /\ t.rejections \in Nat
        /\ MAX_UNANSWERED_DIALOGS \in Nat /\ MAX_CONSECUTIVE_REJECTIONS \in Nat
    BY ThrottleAssumption DEF Tallies
  <2> QED BY <1>2, <2>1, <2>2
<1> QED BY <1>1, <1>2

\* Every step on record is a step of the gates.
LEMMA ObservedSteps ==
    ASSUME [ObservedNext]_<<vars, history>>
    PROVE  [Next]_vars
<1>1. CASE ObservedNext
  BY <1>1, Zenon DEF ObservedNext, Observed, Next, CallStep
<1>2. CASE UNCHANGED <<vars, history>>
  BY <1>2
<1> QED BY <1>1, <1>2

\* A step that gives nobody a count or a cooldown.
LEMMA CoolKept ==
    ASSUME CoolInv, \A p : EntryOf(p)' \in {EntryOf(p), CleanSlate}, UNCHANGED tally
    PROVE  CoolInv'
BY CleanBacked DEF CoolInv

\* A count against a site that is put on record too.
LEMMA CoolCounts ==
    ASSUME CoolInv, NEW o \in Origins, NEW t, o \in Watched => t \in Tallies,
           \A p : p # o => EntryOf(p)' \in {EntryOf(p), CleanSlate},
           o \in Watched => Backed(EntryOf(o)', t),
           tally' = With(tally, o, t)
    PROVE  CoolInv'
<1>1. /\ tally' \in [Watched -> Tallies]
      /\ \A p \in Watched : tally'[p] = IF p = o THEN t ELSE tally[p]
  BY DEF CoolInv, With
<1>2. ASSUME NEW p \in Watched  PROVE Backed(EntryOf(p)', tally'[p])
  <2>1. CASE p = o
    BY <1>1, <2>1
  <2>2. CASE p # o
    BY <1>1, <2>2, CleanBacked DEF CoolInv
  <2> QED BY <2>1, <2>2
<1> QED BY <1>1, <1>2 DEF CoolInv

\* A dialog that opens counts in both.
LEMMA CoolOpened ==
    ASSUME GateInv, CoolInv, NEW o \in Origins, NEW c, recordDialogOpened(o, clock),
           Opened(c, o)
    PROVE  CoolInv'
<1> DEFINE e == EntryOf(o)
           t == tally[o]
           more == [t EXCEPT !.unanswered = @ + 1]
           f == EntryOf(o)'
<1>1. EntriesOK /\ clock \in Nat /\ e \in ThrottleEntry
  BY EntryType DEF GateInv, Times
<1>2. /\ f = IF e.opened + 1 >= MAX_UNANSWERED_DIALOGS THEN CoolDown(clock)
             ELSE [e EXCEPT !.opened = @ + 1]
      /\ \A p : p # o => EntryOf(p)' \in {EntryOf(p), CleanSlate}
  BY <1>1, OpeningRecorded
<1>3. tally' = With(tally, o, Counted(more))
  BY Zenon DEF Opened
<1>4. ASSUME o \in Watched  PROVE Counted(more) \in Tallies /\ Backed(f, Counted(more))
  <2>1. t \in Tallies /\ Backed(e, t)
    BY <1>4 DEF CoolInv
  <2> HIDE DEF e, t, f
  <2>2. more \in Tallies /\ more.unanswered = t.unanswered + 1
        /\ more.rejections = t.rejections /\ more.earned = t.earned
    BY <2>1 DEF Tallies
  <2> HIDE DEF more
  <2>3. /\ Counted(more) \in Tallies
        /\ \/ Counted(more).earned
           \/ Counted(more) = more /\ more.unanswered < MAX_UNANSWERED_DIALOGS
    BY <2>2, CountedIs
  <2> SUFFICES Backed(f, Counted(more))
    BY <2>3
  <2>4. CASE Counted(more).earned
    BY <2>4 DEF Backed
  <2>5. CASE /\ Counted(more) = more /\ ~more.earned
             /\ more.unanswered < MAX_UNANSWERED_DIALOGS
    <3>1. ~t.earned /\ e.rejections <= t.rejections /\ e.opened <= t.unanswered
          /\ e.blockedUntil = 0
      BY <2>1, <2>2, <2>5 DEF Backed
    <3>2. e.opened + 1 <= more.unanswered /\ e.opened + 1 < MAX_UNANSWERED_DIALOGS
      BY <1>1, <2>1, <2>2, <2>5, <3>1, ThrottleAssumption DEF ThrottleEntry, Tallies
    <3>3. f = [e EXCEPT !.opened = @ + 1]
      BY <1>1, <1>2, <3>2, ThrottleAssumption DEF ThrottleEntry
    <3> QED BY <1>1, <2>2, <2>5, <3>1, <3>2, <3>3 DEF Backed, ThrottleEntry
  <2> QED BY <2>3, <2>4, <2>5
<1> HIDE DEF more, t
<1> QED BY <1>2, <1>3, <1>4, CoolCounts

\* A rejection counts in both.
LEMMA CoolRejected ==
    ASSUME GateInv, CoolInv, NEW o \in Origins, recordDialogRejection(o, clock), Rejected(o)
    PROVE  CoolInv'
<1> DEFINE e == EntryOf(o)
           t == tally[o]
           more == [t EXCEPT !.rejections = @ + 1]
           f == EntryOf(o)'
<1>1. EntriesOK /\ clock \in Nat /\ e \in ThrottleEntry
  BY EntryType DEF GateInv, Times
<1>2. /\ f = IF e.rejections + 1 >= MAX_CONSECUTIVE_REJECTIONS THEN CoolDown(clock)
             ELSE [e EXCEPT !.rejections = @ + 1]
      /\ \A p : p # o => EntryOf(p)' \in {EntryOf(p), CleanSlate}
  BY <1>1, RejectionRecorded
<1>3. tally' = With(tally, o, Counted(more))
  BY Zenon DEF Rejected
<1>4. ASSUME o \in Watched  PROVE Counted(more) \in Tallies /\ Backed(f, Counted(more))
  <2>1. t \in Tallies /\ Backed(e, t)
    BY <1>4 DEF CoolInv
  <2> HIDE DEF e, t, f
  <2>2. more \in Tallies /\ more.rejections = t.rejections + 1
        /\ more.unanswered = t.unanswered /\ more.earned = t.earned
    BY <2>1 DEF Tallies
  <2> HIDE DEF more
  <2>3. /\ Counted(more) \in Tallies
        /\ \/ Counted(more).earned
           \/ Counted(more) = more /\ more.rejections < MAX_CONSECUTIVE_REJECTIONS
    BY <2>2, CountedIs
  <2> SUFFICES Backed(f, Counted(more))
    BY <2>3
  <2>4. CASE Counted(more).earned
    BY <2>4 DEF Backed
  <2>5. CASE /\ Counted(more) = more /\ ~more.earned
             /\ more.rejections < MAX_CONSECUTIVE_REJECTIONS
    <3>1. ~t.earned /\ e.rejections <= t.rejections /\ e.opened <= t.unanswered
          /\ e.blockedUntil = 0
      BY <2>1, <2>2, <2>5 DEF Backed
    <3>2. e.rejections + 1 <= more.rejections
          /\ e.rejections + 1 < MAX_CONSECUTIVE_REJECTIONS
      BY <1>1, <2>1, <2>2, <2>5, <3>1, ThrottleAssumption DEF ThrottleEntry, Tallies
    <3>3. f = [e EXCEPT !.rejections = @ + 1]
      BY <1>1, <1>2, <3>2, ThrottleAssumption DEF ThrottleEntry
    <3> QED BY <1>1, <2>2, <2>5, <3>1, <3>2, <3>3 DEF Backed, ThrottleEntry
  <2> QED BY <2>3, <2>4, <2>5
<1> HIDE DEF more, t
<1> QED BY <1>2, <1>3, <1>4, CoolCounts

\* CoolInv is inductive.
LEMMA NextCool ==
    ASSUME GateInv, CoolInv, [ObservedNext]_<<vars, history>>
    PROVE  CoolInv'
<1>1. EntriesOK /\ clock \in Nat
  BY DEF GateInv, Times
<1>2. \A c \in Calls : call[c].at = "dialog" => call[c].origin \in Origins
  BY DEF GateInv, SlotInv
<1>3. ASSUME UNCHANGED entries  PROVE \A p : EntryOf(p)' \in {EntryOf(p), CleanSlate}
  BY <1>3 DEF EntryOf
<1>4. CASE \E c \in Calls, o \in Origins, m \in Methods : Route(c, o, m) /\ Routed(o, m)
  <2>1. PICK c \in Calls, o \in Origins, m \in Methods : Route(c, o, m) /\ Routed(o, m)
    BY <1>4
  <2>2. DialogChecked(o, clock) \/ UNCHANGED entries
    BY <2>1, Zenon DEF Route
  <2>3. \A p : EntryOf(p)' \in {EntryOf(p), CleanSlate}
    BY <1>1, <1>3, <2>2, EntryChecked
  <2>4. UNCHANGED tally
    BY <2>1, Zenon DEF Routed
  <2> QED BY <2>3, <2>4, CoolKept
<1>5. CASE \E c \in Calls : OpenDialog(c) /\ Opened(c, call[c].origin)
  <2>1. PICK c \in Calls : OpenDialog(c) /\ Opened(c, call[c].origin)
    BY <1>5
  <2>2. call[c].at # "idle"
    BY <2>1 DEF OpenDialog
  <2>3. PICK o \in Origins : o = call[c].origin
    BY <2>2 DEF GateInv, SlotInv
  <2>4. recordDialogOpened(o, clock) /\ Opened(c, o)
    BY <2>1, <2>3 DEF OpenDialog
  <2> QED BY <2>4, CoolOpened
<1>6. CASE \E c \in Calls : Reject(c) /\ Rejected(call[c].origin)
  <2>1. PICK o \in Origins : recordDialogRejection(o, clock) /\ Rejected(o)
    BY <1>2, <1>6 DEF Reject
  <2> QED BY <2>1, CoolRejected
<1>7. CASE \E c \in Calls : Approve(c) /\ Approved(call[c].origin)
  <2>1. PICK o \in Origins : Approved(o) /\ clearDialogRejections(o)
    BY <1>2, <1>7 DEF Approve
  <2>2. entries' = Delete(entries, o)
    BY <2>1 DEF clearDialogRejections
  <2>3. /\ EntryOf(o)' = CleanSlate
        /\ \A p : EntryOf(p)' \in {EntryOf(p), CleanSlate}
    BY <1>1, <2>2, EntryCleared
  <2>4. tally' = With(tally, o, NoTally)
    BY <2>1 DEF Approved
  <2>5. NoTally \in Tallies /\ Backed(EntryOf(o)', NoTally)
    BY <2>3, NoTallyType, CleanBacked
  <2> QED BY <2>3, <2>4, <2>5, CoolCounts
<1>8. CASE Tick /\ Passed
  <2>1. UNCHANGED <<entries, tally>>
    BY <1>8, Zenon DEF Tick, Passed
  <2> QED BY <1>3, <2>1, CoolKept
<1>9. CASE Terminate /\ tally' = [o \in Watched |-> NoTally]
  <2>1. entries' = << >>
    BY <1>9 DEF Terminate
  <2>2. \A p : EntryOf(p)' = CleanSlate
    BY <2>1 DEF EntryOf, Lookup, HasKey
  <2>3. tally' \in [Watched -> Tallies]
    BY <1>9, NoTallyType
  <2> QED BY <2>2, <2>3, CleanBacked, WatchedAssumption DEF CoolInv
<1>10. CASE UNCHANGED <<entries, tally>>
  BY <1>3, <1>10, CoolKept
<1>11. ASSUME NEW c \in Calls,
              \/ LookUp(c) /\ LookedUp(c)
              \/ /\ GrantRead(c) \/ ReadConnected(c) \/ ReadTokens(c) \/ Finish(c)
                 /\ Unseen
       PROVE  UNCHANGED <<entries, tally>>
  BY <1>11 DEF LookUp, LookedUp, GrantRead, ReadConnected, ReadTokens, Finish, Unseen
<1>12. ASSUME ChangeGrants /\ Unseen  PROVE UNCHANGED <<entries, tally>>
  BY <1>12 DEF ChangeGrants, Unseen
<1>13. ASSUME UNCHANGED <<vars, history>>  PROVE UNCHANGED <<entries, tally>>
  BY <1>13 DEF vars, history
<1> QED
  BY <1>4, <1>5, <1>6, <1>7, <1>8, <1>9, <1>10, <1>11, <1>12, <1>13, Zenon DEF ObservedNext, Observed

\* The gates' invariant and the cooldowns' hold with the history on record.
LEMMA CoolSound == ObservedSpec => [](GateInv /\ CoolInv)
<1>1. ObservedInit => GateInv /\ CoolInv
  <2> SUFFICES ASSUME ObservedInit  PROVE GateInv /\ CoolInv
    OBVIOUS
  <2>1. Init /\ tally = [o \in Watched |-> NoTally]
    BY DEF ObservedInit
  <2>2. \A p : EntryOf(p) = CleanSlate
    BY <2>1 DEF Init, EntryOf, Lookup, HasKey
  <2>3. tally \in [Watched -> Tallies]
    BY <2>1, NoTallyType
  <2> QED BY <2>1, <2>2, <2>3, InitGate, CleanBacked, WatchedAssumption DEF CoolInv
<1>2. GateInv /\ CoolInv /\ [ObservedNext]_<<vars, history>> => (GateInv /\ CoolInv)'
  BY ObservedSteps, NextGate, NextCool
<1> QED BY <1>1, <1>2, PTL DEF ObservedSpec

\* In every behaviour a site on cooldown earned it since the user last
\* approved one of its dialogs, however its requests and other sites' mix.
THEOREM CooldownsEarned == ObservedSpec => []CooldownEarned
<1>1. GateInv /\ CoolInv => CooldownEarned
  <2> SUFFICES ASSUME GateInv, CoolInv, NEW o \in Watched, Blocked(o, clock)
               PROVE  tally[o].earned
    BY DEF CooldownEarned
  <2>1. clock \in Nat /\ clock < EntryOf(o).blockedUntil
    BY DEF GateInv, Times, Blocked
  <2> QED BY <2>1 DEF CoolInv, Backed
<1> QED BY <1>1, CoolSound, PTL

-----------------------------------------------------------------------------
(***************************************************************************)
(* The reserve of connected sites: of the lookups in the log, those beyond *)
(* the others' share were made for connected sites.                        *)
(***************************************************************************)
FromEnd(log, k) == log[Len(log) - k + 1]

\* Counted from the end, a lookup of the window beyond the share of
\* unconnected sites is matched by one for a connected site, no earlier.
Matched(log, connected, now) ==
    \A k \in 1 .. Len(log) :
        k > MAX_PREDIALOG_UNCONNECTED /\ FromEnd(log, k) + WINDOW_MS > now
            => /\ k - MAX_PREDIALOG_UNCONNECTED \in 1 .. Len(connected)
               /\ FromEnd(log, k)
                     <= FromEnd(connected, k - MAX_PREDIALOG_UNCONNECTED)

ReserveInv ==
    /\ LogOK(predialogLog, clock) /\ LogOK(reviewed, clock)
    /\ Matched(predialogLog, reviewed, clock)

\* n claims at a time.
Claims(n, now) == [i \in 1 .. n |-> now]

\* A log in order is a sequence of numbers.
LEMMA LogType ==
    ASSUME NEW now \in Nat, NEW log, LogOK(log, now)
    PROVE  /\ log \in Seq(Nat) /\ Ordered(log) /\ Len(log) \in Nat
           /\ DOMAIN log = 1 .. Len(log)
           /\ \A i \in 1 .. Len(log) : log[i] \in 1 .. now /\ log[i] \in Nat
<1>1. /\ log \in Seq(1 .. now) /\ Ordered(log) /\ Len(log) \in Nat
      /\ DOMAIN log = 1 .. Len(log)
  BY LenProperties DEF LogOK
<1>2. \A i \in 1 .. Len(log) : log[i] \in 1 .. now
  BY <1>1, ElementOfSeq
<1>3. \A i \in 1 .. Len(log) : log[i] \in Nat
  BY <1>2
<1>4. log \in Seq(Nat)
  BY <1>1, <1>3
<1> QED BY <1>1, <1>2, <1>3, <1>4

\* A log that is in order now is in order later.
LEMMA LogLater ==
    ASSUME NEW now \in Nat, NEW later \in Nat, now <= later, NEW log, LogOK(log, now)
    PROVE  LogOK(log, later)
<1>1. /\ log \in Seq(Nat) /\ Len(log) \in Nat /\ DOMAIN log = 1 .. Len(log)
      /\ \A i \in 1 .. Len(log) : log[i] \in 1 .. now
  BY LogType
<1>2. \A i \in 1 .. Len(log) : log[i] \in 1 .. later
  BY <1>1
<1>3. log \in Seq(1 .. later)
  BY <1>1, <1>2
<1> QED BY <1>3 DEF LogOK

\* What is kept of a log in order is one, all of it within the span.
LEMMA LogKept ==
    ASSUME NEW now \in Nat, NEW log, LogOK(log, now), NEW span \in Nat
    PROVE  /\ LogOK(Lately(log, span, now), now) /\ Ends(Lately(log, span, now), log)
           /\ \A i \in 1 .. Len(Lately(log, span, now)) :
                 Lately(log, span, now)[i] + span > now
<1> DEFINE s == Lately(log, span, now)
<1>1. /\ log \in Seq(Nat) /\ Ordered(log) /\ Len(log) \in Nat
  BY LogType
<1>2. /\ s \in Seq(Nat) /\ Ordered(s) /\ Ends(s, log)
      /\ \A i \in 1 .. Len(log) : log[i] + span > now <=> i > Len(log) - Len(s)
  BY <1>1, LatelyIs
<1>3. s \in Seq(1 .. now)
  BY LatelyType DEF LogOK
<1> HIDE DEF s
<1>4. Len(s) \in Nat /\ Len(s) <= Len(log)
  BY <1>2, LenProperties DEF Ends
<1>5. ASSUME NEW i \in 1 .. Len(s)  PROVE s[i] + span > now
  <2>1. s[i] = log[Len(log) - Len(s) + i] /\ Len(log) - Len(s) + i \in 1 .. Len(log)
        /\ Len(log) - Len(s) + i > Len(log) - Len(s)
    BY <1>1, <1>2, <1>4 DEF Ends
  <2> QED BY <1>2, <2>1
<1>6. LogOK(s, now)
  BY <1>2, <1>3 DEF LogOK
<1> QED BY <1>2, <1>5, <1>6 DEF s

\* An end of a log has the same times, counted from the end.
LEMMA EndsFromEnd ==
    ASSUME NEW s \in Seq(Nat), NEW t \in Seq(Nat), Ends(s, t), NEW k \in 1 .. Len(s)
    PROVE  k \in 1 .. Len(t) /\ FromEnd(s, k) = FromEnd(t, k)
<1>1. Len(s) \in Nat /\ Len(t) \in Nat /\ Len(s) <= Len(t)
  BY LenProperties DEF Ends
<1> DEFINE i == Len(s) - k + 1
<1>2. i \in 1 .. Len(s) /\ Len(t) - Len(s) + i = Len(t) - k + 1
  BY <1>1
<1>3. s[i] = t[Len(t) - Len(s) + i]
  BY <1>2 DEF Ends
<1> QED BY <1>1, <1>2, <1>3 DEF FromEnd

\* The log all is the log with n times now at its end.
GrownBy(all, log, n, now) ==
    /\ Len(all) = Len(log) + n
    /\ \A k \in 1 .. Len(log) + n :
          FromEnd(all, k) = IF k <= n THEN now ELSE FromEnd(log, k - n)

\* Claims appended to a log are its last times.
LEMMA Claimed ==
    ASSUME NEW now \in Nat \ {0}, NEW log, LogOK(log, now), NEW n \in Nat
    PROVE  /\ LogOK(log \o Claims(n, now), now)
           /\ GrownBy(log \o Claims(n, now), log, n, now)
<1> DEFINE new == Claims(n, now)
           all == log \o new
<1>1. /\ log \in Seq(1 .. now) /\ Ordered(log) /\ Len(log) \in Nat
      /\ DOMAIN log = 1 .. Len(log) /\ \A i \in 1 .. Len(log) : log[i] \in 1 .. now
  BY LogType DEF LogOK
<1>2. new \in Seq(1 .. now) /\ Len(new) = n /\ \A i \in 1 .. n : new[i] = now
  BY DEF Claims
<1> HIDE DEF new
<1>3. /\ all \in Seq(1 .. now) /\ Len(all) = Len(log) + n
      /\ \A i \in 1 .. Len(log) + n : all[i] = IF i <= Len(log) THEN log[i] ELSE now
  <2>1. /\ all \in Seq(1 .. now) /\ Len(all) = Len(log) + Len(new)
        /\ \A i \in 1 .. Len(log) + Len(new) :
              all[i] = IF i <= Len(log) THEN log[i] ELSE new[i - Len(log)]
    BY <1>1, <1>2, ConcatProperties, Zenon
  <2> HIDE DEF all
  <2>2. ASSUME NEW i \in 1 .. Len(log) + n, ~(i <= Len(log))  PROVE new[i - Len(log)] = now
    <3>1. i - Len(log) \in 1 .. n
      BY <1>1, <2>2
    <3> QED BY <1>2, <3>1
  <2>3. Len(new) = n
    BY <1>2
  <2> QED BY <2>1, <2>2, <2>3, Zenon
<1> HIDE DEF all
<1>4. Ordered(all)
  <2>1. DOMAIN all = 1 .. Len(log) + n
    BY <1>3, LenProperties
  <2> SUFFICES ASSUME NEW i \in 1 .. Len(log) + n, NEW j \in 1 .. Len(log) + n, i <= j
               PROVE  all[i] <= all[j]
    BY <2>1 DEF Ordered
  <2>2. CASE j <= Len(log)
    <3>1. i \in 1 .. Len(log) /\ j \in 1 .. Len(log)
      BY <1>1, <2>2
    <3>2. log[i] <= log[j]
      BY <1>1, <3>1 DEF Ordered
    <3> QED BY <1>3, <2>2, <3>1, <3>2
  <2>3. CASE ~(j <= Len(log))
    <3>1. all[j] = now /\ all[i] \in 1 .. now
      <4>1. all[j] = now
        BY <1>3, <2>3
      <4>2. all[i] = IF i <= Len(log) THEN log[i] ELSE now
        BY <1>3
      <4>3. i <= Len(log) => log[i] \in 1 .. now
        BY <1>1
      <4>4. now \in 1 .. now
        OBVIOUS
      <4> QED BY <4>1, <4>2, <4>3, <4>4
    <3> QED BY <3>1
  <2> QED BY <2>2, <2>3
<1>5. ASSUME NEW k \in 1 .. Len(log) + n
      PROVE  FromEnd(all, k) = IF k <= n THEN now ELSE FromEnd(log, k - n)
  <2>1. FromEnd(all, k) = all[Len(log) + n - k + 1]
    BY <1>3 DEF FromEnd
  <2>2. Len(log) + n - k + 1 \in 1 .. Len(log) + n
        /\ Len(log) + n - k + 1 = Len(log) - (k - n) + 1
    BY <1>1
  <2>3. Len(log) + n - k + 1 <= Len(log) <=> ~(k <= n)
    BY <1>1
  <2> QED BY <1>3, <2>1, <2>2, <2>3 DEF FromEnd
<1> QED BY <1>3, <1>4, <1>5 DEF LogOK, GrownBy, all, new

\* The end of a matched log is matched.
LEMMA MatchedEnd ==
    ASSUME NEW now \in Nat, NEW log \in Seq(Nat), NEW s \in Seq(Nat), Ends(s, log),
           NEW connected, Matched(log, connected, now)
    PROVE  Matched(s, connected, now)
<1>1. \A k \in 1 .. Len(s) : k \in 1 .. Len(log) /\ FromEnd(s, k) = FromEnd(log, k)
  BY EndsFromEnd
<1> QED BY <1>1 DEF Matched

\* A log within the share of unconnected sites needs no match.
LEMMA MatchedShort ==
    ASSUME NEW log, Len(log) \in Nat, Len(log) <= MAX_PREDIALOG_UNCONNECTED,
           NEW connected, NEW now
    PROVE  Matched(log, connected, now)
<1>1. MAX_PREDIALOG_UNCONNECTED \in Nat
  BY LimitsAssumption
<1>2. \A k \in 1 .. Len(log) : ~(k > MAX_PREDIALOG_UNCONNECTED)
  BY <1>1
<1> QED BY <1>2 DEF Matched

\* Claims of a connected site match themselves.
LEMMA MatchedClaims ==
    ASSUME NEW now \in Nat \ {0}, NEW log, LogOK(log, now), NEW connected,
           LogOK(connected, now), Matched(log, connected, now), NEW n \in Nat
    PROVE  Matched(log \o Claims(n, now), connected \o Claims(n, now), now)
<1> DEFINE share == MAX_PREDIALOG_UNCONNECTED
           all == log \o Claims(n, now)
           seen == connected \o Claims(n, now)
<1>1. share \in Nat /\ WINDOW_MS \in Nat
  BY LimitsAssumption
<1>2. /\ Len(all) = Len(log) + n /\ Len(log) \in Nat
      /\ \A k \in 1 .. Len(log) + n :
            FromEnd(all, k) = IF k <= n THEN now ELSE FromEnd(log, k - n)
  <2>1. Len(log) \in Nat
    <3>1. now \in Nat
      OBVIOUS
    <3> QED BY <3>1, LogType
  <2>2. GrownBy(all, log, n, now)
    BY Claimed
  <2> HIDE DEF all
  <2> QED BY <2>1, <2>2 DEF GrownBy
<1>3. /\ Len(seen) = Len(connected) + n /\ Len(connected) \in Nat
      /\ \A k \in 1 .. Len(connected) + n :
            FromEnd(seen, k) = IF k <= n THEN now ELSE FromEnd(connected, k - n)
  <2>1. Len(connected) \in Nat
    <3>1. now \in Nat
      OBVIOUS
    <3> QED BY <3>1, LogType
  <2>2. GrownBy(seen, connected, n, now)
    BY Claimed
  <2> HIDE DEF seen
  <2> QED BY <2>1, <2>2 DEF GrownBy
<1>4. \A k \in 1 .. Len(log) : FromEnd(log, k) \in 1 .. now
  <2> TAKE k \in 1 .. Len(log)
  <2>1. Len(log) - k + 1 \in 1 .. Len(log)
    BY <1>2
  <2> QED BY <2>1, LogType DEF FromEnd
<1> HIDE DEF share, all, seen
<1>5. ASSUME NEW k \in 1 .. Len(all), k > share, FromEnd(all, k) + WINDOW_MS > now
      PROVE  k - share \in 1 .. Len(seen) /\ FromEnd(all, k) <= FromEnd(seen, k - share)
  <2>1. FromEnd(all, k) <= now
    <3>1. CASE k <= n
      BY <1>2, <3>1
    <3>2. CASE ~(k <= n)
      <4>1. k - n \in 1 .. Len(log) /\ FromEnd(all, k) = FromEnd(log, k - n)
        BY <1>2, <3>2
      <4> QED BY <1>4, <4>1
    <3> QED BY <3>1, <3>2
  <2>2. CASE k - share <= n
    <3>1. k - share \in 1 .. Len(seen)
      BY <1>1, <1>2, <1>3, <1>5, <2>2
    <3>2. FromEnd(seen, k - share) = now
      BY <1>3, <2>2, <3>1
    <3> QED BY <2>1, <3>1, <3>2
  <2>3. CASE k - share > n
    <3>1. k - n \in 1 .. Len(log) /\ k - n > share /\ FromEnd(all, k) = FromEnd(log, k - n)
      BY <1>1, <1>2, <1>5, <2>3
    <3>2. /\ k - n - share \in 1 .. Len(connected)
          /\ FromEnd(log, k - n) <= FromEnd(connected, k - n - share)
      BY <1>5, <3>1 DEF Matched, share
    <3>3. k - share \in 1 .. Len(seen) /\ k - share - n = k - n - share
      BY <1>1, <1>2, <1>3, <3>2
    <3>4. FromEnd(seen, k - share) = FromEnd(connected, k - n - share)
      BY <1>3, <2>3, <3>3
    <3> QED BY <3>1, <3>2, <3>3, <3>4
  <2> QED BY <1>1, <1>2, <2>2, <2>3
<1>6. Matched(all, seen, now)
  BY <1>5 DEF Matched, share
<1> QED BY <1>6 DEF all, seen

\* As time passes, what is forgotten of the matches matched what is past.
LEMMA MatchedLater ==
    ASSUME NEW now \in Nat, NEW later \in Nat, now <= later, NEW log, LogOK(log, now),
           NEW connected, LogOK(connected, now), Matched(log, connected, now)
    PROVE  Matched(log, Lately(connected, WINDOW_MS, later), later)
<1> DEFINE share == MAX_PREDIALOG_UNCONNECTED
           kept == Lately(connected, WINDOW_MS, later)
<1>1. share \in Nat /\ WINDOW_MS \in Nat
  BY LimitsAssumption
<1>2. /\ connected \in Seq(Nat) /\ Len(connected) \in Nat /\ Ordered(connected)
      /\ \A i \in 1 .. Len(connected) : connected[i] \in Nat
  BY LogType
<1>3. /\ Len(log) \in Nat /\ \A i \in 1 .. Len(log) : log[i] \in Nat
  BY LogType
<1>4. /\ kept \in Seq(Nat) /\ Ends(kept, connected)
      /\ \A i \in 1 .. Len(connected) :
            connected[i] + WINDOW_MS > later <=> i > Len(connected) - Len(kept)
  BY <1>1, <1>2, LatelyIs
<1> HIDE DEF share, kept
<1>5. Len(kept) \in Nat /\ Len(kept) <= Len(connected)
  BY <1>4, LenProperties DEF Ends
<1>6. ASSUME NEW k \in 1 .. Len(log), k > share, FromEnd(log, k) + WINDOW_MS > later
      PROVE  k - share \in 1 .. Len(kept) /\ FromEnd(log, k) <= FromEnd(kept, k - share)
  <2> DEFINE i == Len(connected) - (k - share) + 1
  <2>1. FromEnd(log, k) \in Nat
    <3>1. Len(log) - k + 1 \in 1 .. Len(log)
      BY <1>3
    <3> QED BY <1>3, <3>1 DEF FromEnd
  <2>2. /\ k - share \in 1 .. Len(connected)
        /\ FromEnd(log, k) <= FromEnd(connected, k - share)
    BY <1>1, <1>6, <2>1 DEF Matched, share
  <2>3. i \in 1 .. Len(connected) /\ connected[i] = FromEnd(connected, k - share)
    BY <1>2, <2>2 DEF FromEnd
  <2>4. connected[i] + WINDOW_MS > later
    BY <1>1, <1>2, <1>6, <2>1, <2>2, <2>3
  <2>5. k - share \in 1 .. Len(kept)
    BY <1>2, <1>4, <1>5, <2>2, <2>3, <2>4
  <2>6. FromEnd(kept, k - share) = FromEnd(connected, k - share)
    BY <1>2, <1>4, <2>5, EndsFromEnd
  <2> QED BY <2>2, <2>5, <2>6
<1> QED BY <1>6 DEF Matched, share, kept

\* A lookup: the budget is taken for the connected site's match, or within
\* the others' share, or not at all.
LEMMA ReserveTaken ==
    ASSUME ReserveInv, clock \in Nat \ {0}, UNCHANGED clock,
           NEW n \in Nat, NEW connected \in BOOLEAN,
           takePredialogBudget(connected, n, clock),
           reviewed' = IF connected
                       THEN reviewed \o Claims(Len(predialogLog')
                                                  - Len(Recent(predialogLog, clock)), clock)
                       ELSE reviewed
    PROVE  ReserveInv'
<1> DEFINE kept == Recent(predialogLog, clock)
<1>1. WINDOW_MS \in Nat /\ MAX_PREDIALOG_UNCONNECTED \in Nat
  BY LimitsAssumption
<1>2. clock \in Nat
  OBVIOUS
<1>3. LogOK(kept, clock) /\ Ends(kept, predialogLog)
  BY <1>1, <1>2, LogKept DEF ReserveInv, Recent
<1>4. kept \in Seq(Nat) /\ Len(kept) \in Nat /\ predialogLog \in Seq(Nat)
  BY <1>2, <1>3, LogType DEF ReserveInv
<1>5. Matched(kept, reviewed, clock)
  BY <1>2, <1>3, <1>4, MatchedEnd DEF ReserveInv
<1>6. LogOK(reviewed, clock)
  BY DEF ReserveInv
<1> HIDE DEF kept
<1>7. CASE predialogLog' = kept
  <2>1. reviewed' = reviewed
    <3>1. CASE connected
      <4>1. reviewed' = reviewed \o Claims(0, clock)
        <5>1. Len(predialogLog') - Len(kept) = 0
          BY <1>4, <1>7
        <5> QED BY <3>1, <5>1 DEF kept
      <4>2. Claims(0, clock) = << >>
        BY DEF Claims
      <4>3. reviewed \in Seq(Nat)
        BY <1>2, <1>6, LogType
      <4> QED BY <4>1, <4>2, <4>3, ConcatEmptySeq
    <3>2. CASE ~connected
      BY <3>2
    <3> QED BY <3>1, <3>2
  <2> QED BY <1>3, <1>5, <1>6, <1>7, <2>1 DEF ReserveInv
<1>8. CASE /\ predialogLog' = kept \o Claims(n, clock)
           /\ Len(kept) + n <= PredialogShare(connected)
  <2>1. LogOK(predialogLog', clock) /\ Len(predialogLog') = Len(kept) + n
    BY <1>3, <1>8, Claimed DEF GrownBy
  <2>2. CASE connected
    <3>1. Len(predialogLog') - Len(kept) = n
      BY <1>4, <2>1
    <3>2. reviewed' = reviewed \o Claims(n, clock)
      BY <2>2, <3>1 DEF kept
    <3>3. LogOK(reviewed', clock)
      BY <1>6, <3>2, Claimed
    <3>4. Matched(predialogLog', reviewed', clock)
      BY <1>3, <1>5, <1>6, <1>8, <3>2, MatchedClaims
    <3> QED BY <2>1, <3>3, <3>4 DEF ReserveInv
  <2>3. CASE ~connected
    <3>1. Len(predialogLog') \in Nat /\ Len(predialogLog') <= MAX_PREDIALOG_UNCONNECTED
      BY <1>4, <1>8, <2>1, <2>3 DEF PredialogShare
    <3>2. Matched(predialogLog', reviewed', clock)
      BY <3>1, MatchedShort
    <3> QED BY <1>6, <2>1, <2>3, <3>2 DEF ReserveInv
  <2> QED BY <2>2, <2>3
<1>9. predialogLog' = BudgetTaken(predialogLog, PredialogShare(connected), n, clock)
  BY DEF takePredialogBudget
<1> QED BY <1>7, <1>8, <1>9 DEF BudgetTaken, BudgetAllows, Claims, kept

\* Without a lookup on record the reserve is whole.
LEMMA EmptyReserve ==
    ASSUME NEW now
    PROVE  LogOK(<< >>, now) /\ Matched(<< >>, << >>, now)
<1>1. << >> \in Seq(1 .. now) /\ Len(<< >>) = 0 /\ DOMAIN << >> = {}
  BY EmptySeq
<1> QED BY <1>1 DEF LogOK, Ordered, Matched

\* ReserveInv is inductive.
LEMMA NextReserve ==
    ASSUME GateInv, ReserveInv, [ObservedNext]_<<vars, history>>
    PROVE  ReserveInv'
<1>1. clock \in Nat \ {0} /\ WINDOW_MS \in Nat
  BY LimitsAssumption DEF GateInv, Times
<1>2. CASE UNCHANGED <<predialogLog, reviewed, clock>>
  BY <1>2 DEF ReserveInv
<1>3. CASE \E c \in Calls : LookUp(c) /\ LookedUp(c)
  <2>1. PICK c \in Calls : LookUp(c) /\ LookedUp(c)
    BY <1>3
  <2>2. PICK n \in LookupCounts : takePredialogBudget(call[c].connected, n, clock)
    BY <2>1 DEF LookUp
  <2>3. PICK connected \in BOOLEAN : connected = call[c].connected
    BY DEF GateInv, SlotInv, CallRecords
  <2>4. takePredialogBudget(connected, n, clock)
    BY <2>2, <2>3
  <2>5. n \in Nat /\ UNCHANGED clock
    BY <2>1, GateAssumption DEF LookUp, bounds
  <2>6. reviewed' = IF connected
                    THEN reviewed \o Claims(Len(predialogLog')
                                               - Len(Recent(predialogLog, clock)), clock)
                    ELSE reviewed
    BY <2>1, <2>3, Zenon DEF LookedUp, Claims
  <2> QED BY <1>1, <2>4, <2>5, <2>6, ReserveTaken
<1>4. CASE Tick /\ Passed
  <2>1. clock' = clock + 1 /\ UNCHANGED predialogLog
    BY <1>4 DEF Tick, budgets
  <2>2. reviewed' = Lately(reviewed, WINDOW_MS, clock')
    BY <1>4 DEF Passed
  <2>3. PICK now \in Nat, later \in Nat : now = clock /\ later = clock' /\ now <= later
    BY <1>1, <2>1
  <2>4. LogOK(predialogLog, now) /\ LogOK(reviewed, now) /\ Matched(predialogLog, reviewed, now)
    BY <2>3 DEF ReserveInv
  <2>5. LogOK(predialogLog, later) /\ LogOK(reviewed, later)
    BY <2>3, <2>4, LogLater
  <2>6. LogOK(reviewed', later)
    BY <1>1, <2>2, <2>3, <2>5, LogKept
  <2>7. Matched(predialogLog, reviewed', later)
    BY <2>2, <2>3, <2>4, MatchedLater
  <2> QED BY <2>1, <2>3, <2>5, <2>6, <2>7 DEF ReserveInv
<1>5. CASE Terminate /\ reviewed' = << >>
  <2>1. predialogLog' = << >> /\ UNCHANGED clock
    BY <1>5 DEF Terminate
  <2> QED BY <1>5, <2>1, EmptyReserve DEF ReserveInv
<1>6. ASSUME NEW c \in Calls, NEW o \in Origins, NEW m \in Methods, Route(c, o, m),
             Routed(o, m)
      PROVE  UNCHANGED <<predialogLog, reviewed, clock>>
  BY <1>6 DEF Route, Routed, budgets, bounds
<1>7. ASSUME NEW c \in Calls,
             OpenDialog(c) \/ Approve(c) \/ Reject(c), UNCHANGED <<demand, reviewed>>
      PROVE  UNCHANGED <<predialogLog, reviewed, clock>>
  BY <1>7 DEF OpenDialog, Approve, Reject, budgets, bounds
<1>8. ASSUME NEW c \in Calls,
             GrantRead(c) \/ ReadConnected(c) \/ ReadTokens(c) \/ Finish(c),
             Unseen
      PROVE  UNCHANGED <<predialogLog, reviewed, clock>>
  BY <1>8 DEF GrantRead, ReadConnected, ReadTokens, Finish, Unseen, budgets, bounds
<1>9. ASSUME ChangeGrants, Unseen  PROVE UNCHANGED <<predialogLog, reviewed, clock>>
  BY <1>9 DEF ChangeGrants, Unseen, budgets
<1>10. ASSUME UNCHANGED <<vars, history>>  PROVE UNCHANGED <<predialogLog, reviewed, clock>>
  BY <1>10 DEF vars, history, budgets, bounds
<1> QED
  BY <1>2, <1>3, <1>4, <1>5, <1>6, <1>7, <1>8, <1>9, <1>10, Zenon DEF ObservedNext, Observed

\* A connected site whose lookups are denied finds the reserve used up by
\* connected sites.
LEMMA ReserveUsed ==
    ASSUME ReserveInv, clock \in Nat \ {0}, NEW n \in Nat, ~PredialogAllows(TRUE, n, clock)
    PROVE  Len(reviewed) + n > MAX_PREDIALOG_LOOKUPS - MAX_PREDIALOG_UNCONNECTED
<1> DEFINE kept == Recent(predialogLog, clock)
           share == MAX_PREDIALOG_UNCONNECTED
<1>1. WINDOW_MS \in Nat /\ share \in Nat /\ MAX_PREDIALOG_LOOKUPS \in Nat /\ clock \in Nat
  BY LimitsAssumption
<1>2. /\ LogOK(kept, clock) /\ Ends(kept, predialogLog)
      /\ \A i \in 1 .. Len(kept) : kept[i] + WINDOW_MS > clock
  BY <1>1, LogKept DEF ReserveInv, Recent
<1>3. /\ kept \in Seq(Nat) /\ Len(kept) \in Nat
      /\ predialogLog \in Seq(Nat) /\ Len(reviewed) \in Nat
  BY <1>1, <1>2, LogType DEF ReserveInv
<1>4. Matched(kept, reviewed, clock)
  BY <1>1, <1>2, <1>3, MatchedEnd DEF ReserveInv
<1>5. ~(Len(kept) + n <= MAX_PREDIALOG_LOOKUPS)
  BY DEF PredialogAllows, BudgetAllows, PredialogShare
<1> HIDE DEF kept, share
<1>6. CASE Len(kept) <= share
  BY <1>1, <1>3, <1>5, <1>6 DEF share
<1>7. CASE Len(kept) > share
  <2>1. Len(kept) \in 1 .. Len(kept) /\ 1 \in 1 .. Len(kept)
        /\ Len(kept) - Len(kept) + 1 = 1
    BY <1>1, <1>3, <1>7
  <2>2. FromEnd(kept, Len(kept)) + WINDOW_MS > clock
    BY <1>2, <2>1 DEF FromEnd
  <2>3. Len(kept) - share \in 1 .. Len(reviewed)
    BY <1>4, <1>7, <2>1, <2>2 DEF Matched, share
  <2> QED BY <1>1, <1>3, <1>5, <2>3 DEF share
<1> QED BY <1>1, <1>3, <1>6, <1>7

\* ReserveInv holds with the history on record.
LEMMA ReserveSound == ObservedSpec => [](GateInv /\ ReserveInv)
<1>1. ObservedInit => GateInv /\ ReserveInv
  BY InitGate, EmptyReserve DEF ObservedInit, Init, ReserveInv
<1>2. GateInv /\ ReserveInv /\ [ObservedNext]_<<vars, history>> => (GateInv /\ ReserveInv)'
  BY ObservedSteps, NextGate, NextReserve
<1> QED BY <1>1, <1>2, PTL DEF ObservedSpec

\* In every behaviour a connected site's lookups are denied only once
\* connected sites themselves used up what is kept from the others.
THEOREM ReserveIsKept == ObservedSpec => ReserveKept
<1>1. ASSUME GateInv /\ ReserveInv
      PROVE  \A c \in Calls :
                LookUp(c) /\ refusal' = "unchecked" /\ call[c].connected
                   => \E n \in LookupCounts :
                         Len(reviewed) + n
                             > MAX_PREDIALOG_LOOKUPS - MAX_PREDIALOG_UNCONNECTED
  <2> SUFFICES ASSUME NEW c \in Calls, LookUp(c), refusal' = "unchecked", call[c].connected
               PROVE  \E n \in LookupCounts :
                         Len(reviewed) + n
                             > MAX_PREDIALOG_LOOKUPS - MAX_PREDIALOG_UNCONNECTED
    OBVIOUS
  <2>1. PICK n \in LookupCounts : ~PredialogAllows(call[c].connected, n, clock)
    BY DEF LookUp
  <2>2. call[c].connected = TRUE
    BY <1>1 DEF GateInv, SlotInv, CallRecords
  <2>3. ~PredialogAllows(TRUE, n, clock)
    BY <2>1, <2>2
  <2>4. n \in Nat /\ clock \in Nat \ {0}
    BY <1>1, GateAssumption DEF GateInv, Times
  <2> QED BY <1>1, <2>3, <2>4, ReserveUsed
<1> QED BY <1>1, ReserveSound, PTL DEF ReserveKept

-----------------------------------------------------------------------------
(***************************************************************************)
(* The rates: what the limiter still knows of a window is the end of what  *)
(* was allowed in it, and all of it unless its key may have been evicted.  *)
(***************************************************************************)
WindowOK(log, allowed, forgotten, now, limit) ==
    /\ LogOK(log, now) /\ Len(log) <= limit
    /\ LogOK(allowed, now)
    /\ Ends(Recent(log, now), allowed)
    /\ ~forgotten => Len(Recent(log, now)) = Len(allowed)

\* What the facts of a window say of its sequences.
LEMMA WindowIs ==
    ASSUME NEW now \in Nat, NEW log, NEW allowed, NEW forgotten, NEW limit \in Nat,
           WindowOK(log, allowed, forgotten, now, limit)
    PROVE  /\ LogOK(Recent(log, now), now) /\ Recent(log, now) \in Seq(Nat)
           /\ Len(Recent(log, now)) \in Nat /\ Len(Recent(log, now)) <= limit
           /\ \A i \in 1 .. Len(Recent(log, now)) : Recent(log, now)[i] + WINDOW_MS > now
           /\ allowed \in Seq(Nat) /\ Ordered(allowed) /\ Len(allowed) \in Nat
<1>1. WINDOW_MS \in Nat
  BY LimitsAssumption
<1>2. /\ LogOK(Recent(log, now), now) /\ Ends(Recent(log, now), log)
      /\ \A i \in 1 .. Len(Recent(log, now)) : Recent(log, now)[i] + WINDOW_MS > now
  BY <1>1, LogKept DEF WindowOK, Recent
<1>3. Recent(log, now) \in Seq(Nat) /\ Len(Recent(log, now)) \in Nat /\ Len(log) \in Nat
  BY <1>2, LogType DEF WindowOK
<1>4. Len(Recent(log, now)) <= limit
  BY <1>2, <1>3 DEF WindowOK, Ends
<1>5. allowed \in Seq(Nat) /\ Ordered(allowed) /\ Len(allowed) \in Nat
  BY LogType DEF WindowOK
<1> QED BY <1>2, <1>3, <1>4, <1>5

\* A log whose times are all in the window is its own window.
LEMMA RecentWhole ==
    ASSUME NEW now \in Nat, NEW log, LogOK(log, now),
           \A i \in 1 .. Len(log) : log[i] + WINDOW_MS > now
    PROVE  Recent(log, now) = log
<1>1. WINDOW_MS \in Nat
  BY LimitsAssumption
<1>2. log \in Seq(Nat) /\ Ordered(log)
  BY LogType
<1> QED BY <1>1, <1>2, LatelyWhole DEF Recent

\* A request refused for its rate leaves the window, trimmed.
LEMMA WindowRefused ==
    ASSUME NEW now \in Nat, NEW log, NEW allowed, NEW forgotten, NEW limit \in Nat,
           WindowOK(log, allowed, forgotten, now, limit)
    PROVE  WindowOK(Recent(log, now), allowed, forgotten, now, limit)
<1>1. /\ LogOK(Recent(log, now), now) /\ Len(Recent(log, now)) <= limit
      /\ \A i \in 1 .. Len(Recent(log, now)) : Recent(log, now)[i] + WINDOW_MS > now
  BY WindowIs
<1>2. Recent(Recent(log, now), now) = Recent(log, now)
  BY <1>1, RecentWhole
<1> QED BY <1>1, <1>2 DEF WindowOK

\* A window that was evicted knows nothing.
LEMMA WindowEvicted ==
    ASSUME NEW now \in Nat, NEW log, NEW allowed, NEW forgotten, NEW limit \in Nat,
           WindowOK(log, allowed, forgotten, now, limit),
           forgotten \/ allowed = << >>
    PROVE  WindowOK(<< >>, allowed, forgotten, now, limit)
<1>1. Len(<< >>) = 0 /\ LogOK(<< >>, now)
  BY EmptyReserve
<1>2. Recent(<< >>, now) = << >>
  BY <1>1, RecentWhole
<1>3. Ends(<< >>, allowed)
  BY <1>1, WindowIs DEF Ends
<1> QED BY <1>1, <1>2, <1>3 DEF WindowOK

\* As time passes both forget what is past.
LEMMA WindowLater ==
    ASSUME NEW now \in Nat, NEW later \in Nat, now <= later,
           NEW log, NEW allowed, NEW forgotten, NEW limit \in Nat,
           WindowOK(log, allowed, forgotten, now, limit)
    PROVE  WindowOK(log, Recent(allowed, later), forgotten, later, limit)
<1> DEFINE w == Recent(log, now)
           v == Recent(log, later)
           a == Recent(allowed, later)
<1>1. WINDOW_MS \in Nat
  BY LimitsAssumption
<1>2. /\ LogOK(w, now) /\ w \in Seq(Nat) /\ Ordered(w)
      /\ allowed \in Seq(Nat) /\ Ordered(allowed)
      /\ log \in Seq(Nat) /\ Ordered(log)
  BY WindowIs, LogType DEF WindowOK, LogOK
<1>3. LogOK(log, later) /\ LogOK(allowed, later)
  BY LogLater DEF WindowOK
<1>4. LogOK(a, later)
  BY <1>1, <1>3, LogKept DEF Recent
<1>5. v = Lately(w, WINDOW_MS, later)
  BY <1>1, <1>2, LatelyTwice DEF Recent
<1>6. Ends(w, allowed) /\ (~forgotten => Len(w) = Len(allowed)) /\ Len(log) <= limit
  BY DEF WindowOK
<1> HIDE DEF w
<1>7. Ends(v, a)
  BY <1>1, <1>2, <1>5, <1>6, LatelyEnds DEF Recent
<1>8. ~forgotten => Len(v) = Len(a)
  BY <1>2, <1>5, <1>6, EndsEqual DEF Recent
<1> QED BY <1>3, <1>4, <1>6, <1>7, <1>8 DEF WindowOK

\* The latest of the allowed requests are the end of them.
LEMMA LatestIs ==
    ASSUME NEW now \in Nat, NEW times, LogOK(times, now), NEW m \in DOMAIN RATE_LIMITS
    PROVE  /\ LogOK(Latest(times, m), now) /\ Ends(Latest(times, m), times)
           /\ Len(Latest(times, m)) = Lesser(Len(times), RATE_LIMITS[m] + 1)
<1> DEFINE n == Lesser(Len(times), RATE_LIMITS[m] + 1)
           first == Len(times) - n + 1
           new == Latest(times, m)
<1>1. /\ times \in Seq(1 .. now) /\ Ordered(times) /\ Len(times) \in Nat
      /\ DOMAIN times = 1 .. Len(times)
      /\ \A i \in 1 .. Len(times) : times[i] \in 1 .. now /\ times[i] \in Nat
  BY LogType DEF LogOK
<1>2. n \in 0 .. Len(times)
  BY <1>1, LimitsAssumption DEF Lesser
<1>3. new = SubSeq(times, first, Len(times))
  BY DEF Latest
<1> HIDE DEF n, new
<1>4. /\ new \in Seq(1 .. now) /\ Len(new) = n
      /\ \A i \in 1 .. n : new[i] = times[Len(times) - n + i]
  <2>1. first \in Int /\ Len(times) \in Int /\ Len(times) - first + 1 = n
        /\ \A i \in first .. Len(times) : times[i] \in 1 .. now
    BY <1>1, <1>2
  <2> HIDE DEF first
  <2>2. /\ new \in Seq(1 .. now)
        /\ Len(new) = IF first <= Len(times) THEN Len(times) - first + 1 ELSE 0
        /\ \A i \in 1 .. Len(times) - first + 1 : new[i] = times[first + i - 1]
    BY <1>3, <2>1, SubSeqProperties
  <2>3. Len(new) = n
    <3>1. Len(new) = IF first <= Len(times) THEN Len(times) - first + 1 ELSE 0
      BY <2>2, Zenon
    <3> QED BY <1>1, <1>2, <3>1 DEF first
  <2>4. ASSUME NEW i \in 1 .. n  PROVE new[i] = times[Len(times) - n + i]
    <3>1. first + i - 1 = Len(times) - n + i
      BY <1>1, <1>2 DEF first
    <3> QED BY <2>1, <2>2, <3>1
  <2> QED BY <2>2, <2>3, <2>4
<1>5. Ends(new, times)
  BY <1>1, <1>2, <1>4 DEF Ends
<1>6. Ordered(new)
  <2>1. DOMAIN new = 1 .. n
    BY <1>4, LenProperties
  <2> SUFFICES ASSUME NEW i \in 1 .. n, NEW j \in 1 .. n, i <= j
               PROVE  new[i] <= new[j]
    BY <2>1 DEF Ordered
  <2> DEFINE k == Len(times) - n + i
             l == Len(times) - n + j
  <2>2. k \in 1 .. Len(times) /\ l \in 1 .. Len(times) /\ k <= l
    BY <1>1, <1>2
  <2>3. new[i] = times[k] /\ new[j] = times[l]
    BY <1>4
  <2> HIDE DEF k, l
  <2>4. times[k] <= times[l]
    BY <1>1, <2>2 DEF Ordered
  <2> QED BY <2>3, <2>4
<1> QED BY <1>4, <1>5, <1>6 DEF LogOK, new, n

\* An allowed request is the last of its window.
LEMMA WindowAllowed ==
    ASSUME NEW now \in Nat \ {0}, NEW log, NEW allowed, NEW forgotten,
           NEW m \in DOMAIN RATE_LIMITS,
           WindowOK(log, allowed, forgotten, now, RATE_LIMITS[m]),
           Len(Recent(log, now)) < RATE_LIMITS[m]
    PROVE  WindowOK(Append(Recent(log, now), now), Latest(Append(allowed, now), m),
                    forgotten, now, RATE_LIMITS[m])
<1> DEFINE w == Recent(log, now)
           new == Append(w, now)
           all == Append(allowed, now)
           last == Latest(all, m)
           limit == RATE_LIMITS[m]
<1>1. now \in Nat /\ limit \in Nat /\ WINDOW_MS \in Nat \ {0}
  BY LimitsAssumption
<1>2. /\ LogOK(w, now) /\ w \in Seq(Nat) /\ Len(w) \in Nat
      /\ \A i \in 1 .. Len(w) : w[i] + WINDOW_MS > now
      /\ allowed \in Seq(Nat) /\ Len(allowed) \in Nat
  BY <1>1, WindowIs
<1>3. LogOK(allowed, now) /\ Ends(w, allowed) /\ (~forgotten => Len(w) = Len(allowed))
  BY DEF WindowOK
<1>4. Len(w) < limit
  OBVIOUS
<1> HIDE DEF w, limit
<1>5. LogOK(new, now) /\ LogOK(all, now)
  BY <1>2, <1>3, LogAppend
<1>6. /\ Len(new) = Len(w) + 1 /\ new[Len(w) + 1] = now
      /\ \A i \in 1 .. Len(w) : new[i] = w[i]
  BY <1>1, <1>2, AppendProperties
<1>7. Len(all) = Len(allowed) + 1
  BY <1>1, <1>2, AppendProperties
<1>8. Ends(new, all)
  BY <1>1, <1>2, <1>3, EndsAppend
<1>9. LogOK(last, now) /\ Ends(last, all) /\ Len(last) = Lesser(Len(all), limit + 1)
  <2> HIDE DEF all
  <2> QED BY <1>1, <1>5, LatestIs DEF limit
<1> HIDE DEF new, all, last
<1>10. Recent(new, now) = new
  <2>1. ASSUME NEW i \in 1 .. Len(new)  PROVE new[i] + WINDOW_MS > now
    <3>1. CASE i = Len(w) + 1
      BY <1>1, <1>6, <3>1
    <3>2. CASE i \in 1 .. Len(w)
      BY <1>2, <1>6, <3>2
    <3>3. i = Len(w) + 1 \/ i \in 1 .. Len(w)
      BY <1>2, <1>6
    <3> QED BY <3>1, <3>2, <3>3
  <2> QED BY <1>1, <1>5, <2>1, RecentWhole
<1>11. Len(new) <= Len(last) /\ (~forgotten => Len(new) = Len(last)) /\ Len(new) <= limit
  <2>1. Len(w) <= Len(allowed)
    BY <1>3 DEF Ends
  <2> QED BY <1>1, <1>2, <1>3, <1>4, <1>6, <1>7, <1>9, <2>1 DEF Lesser
<1>12. Ends(new, last)
  BY <1>1, <1>5, <1>8, <1>9, <1>11, EndsNested, LogType
<1>13. WindowOK(new, last, forgotten, now, limit)
  BY <1>5, <1>9, <1>10, <1>11, <1>12 DEF WindowOK
<1> QED BY <1>13 DEF new, last, all, w, limit

\* Every key after this one in the map is in S.
Behind(map, key, S) ==
    \A i, j \in DOMAIN map : map[i].key = key /\ i < j => map[j].key \in S

\* A map within another has no more keys behind one.
LEMMA BehindWithin ==
    ASSUME NEW K, NEW V, NEW m, MapOK(m, K, V), NEW n, MapOK(n, K, V), Within(n, m),
           NEW key, NEW S, Behind(m, key, S)
    PROVE  Behind(n, key, S)
<1>1. DOMAIN n = 1 .. Len(n) /\ Len(n) \in Nat /\ DOMAIN m = 1 .. Len(m) /\ Len(m) \in Nat
  BY LenProperties DEF MapOK
<1> SUFFICES ASSUME NEW i \in DOMAIN n, NEW j \in DOMAIN n, n[i].key = key, i < j
             PROVE  n[j].key \in S
  BY DEF Behind
<1>2. i <= j /\ i # j
  BY <1>1
<1>3. PICK k \in DOMAIN m, l \in DOMAIN m : k <= l /\ n[i] = m[k] /\ n[j] = m[l]
  BY <1>2 DEF Within
<1>4. k # l
  BY <1>2, <1>3 DEF MapOK, Distinct
<1>5. k < l
  BY <1>1, <1>3, <1>4
<1> QED BY <1>3, <1>5 DEF Behind

\* A key that is used goes behind the others, with none behind it.
LEMMA BehindTouch ==
    ASSUME NEW K, NEW V, NEW map, MapOK(map, K, V), NEW key \in K, NEW value \in V
    PROVE  /\ Behind(Touch(map, key, value), key, {})
           /\ \A k, S : k # key /\ Behind(map, k, S)
                           => Behind(Touch(map, key, value), k, S \cup {key})
<1> DEFINE rest  == Delete(map, key)
           entry == [key |-> key, value |-> value]
           new   == Touch(map, key, value)
<1>1. MapOK(rest, K, V) /\ Within(rest, map) /\ MapOK(new, K, V)
  BY DeleteMap, TouchMap
<1>2. new = Append(rest, entry)
  BY DEF Touch, Insert
<1>3. entry \in EntriesOf(K, V) /\ entry.key = key
  BY DEF EntriesOf
<1> HIDE DEF rest, entry, new
<1>4. rest \in Seq(EntriesOf(K, V)) /\ Len(rest) \in Nat /\ DOMAIN rest = 1 .. Len(rest)
  BY <1>1, LenProperties DEF MapOK
<1>5. /\ Len(new) = Len(rest) + 1 /\ new[Len(rest) + 1] = entry
      /\ \A i \in 1 .. Len(rest) : new[i] = rest[i]
  BY <1>2, <1>3, <1>4, AppendProperties
<1>6. DOMAIN new = 1 .. Len(rest) + 1
  BY <1>1, <1>5, LenProperties DEF MapOK
<1>7. Behind(new, key, {})
  <2> SUFFICES ASSUME NEW i \in DOMAIN new, NEW j \in DOMAIN new, new[i].key = key, i < j
               PROVE  FALSE
    BY DEF Behind
  <2>1. Len(rest) + 1 \in DOMAIN new /\ new[Len(rest) + 1].key = key
    BY <1>3, <1>4, <1>5, <1>6
  <2>2. i = Len(rest) + 1
    BY <1>1, <2>1 DEF MapOK, Distinct
  <2> QED BY <1>4, <1>6, <2>2
<1>8. ASSUME NEW k, NEW S, k # key, Behind(map, k, S)
      PROVE  Behind(new, k, S \cup {key})
  <2>1. Behind(rest, k, S)
    BY <1>1, <1>8, BehindWithin
  <2> SUFFICES ASSUME NEW i \in DOMAIN new, NEW j \in DOMAIN new, new[i].key = k, i < j
               PROVE  new[j].key \in S \cup {key}
    BY DEF Behind
  <2>2. CASE j = Len(rest) + 1
    BY <1>3, <1>5, <2>2
  <2>3. CASE j # Len(rest) + 1
    <3>1. i \in 1 .. Len(rest) /\ j \in 1 .. Len(rest)
      BY <1>4, <1>6, <2>3
    <3> QED BY <1>4, <1>5, <2>1, <3>1 DEF Behind
  <2> QED BY <2>2, <2>3
<1> QED BY <1>7, <1>8 DEF new

\* A full map that evicts its first key for one it does not hold: at least as
\* many keys as it may hold were used after that one.
LEMMA EvictedBehind ==
    ASSUME NEW K, NEW V, NEW map, MapOK(map, K, V), NEW cap \in Nat \ {0}, Len(map) >= cap,
           NEW new, ~HasKey(map, new), NEW S, IsFiniteSet(S),
           Behind(map, map[1].key, S)
    PROVE  Cardinality(S \cup {new}) >= cap
<1>1. Len(map) \in Nat /\ DOMAIN map = 1 .. Len(map) /\ 1 \in 1 .. Len(map)
  BY LenProperties DEF MapOK
<1> DEFINE f == [i \in 1 .. Len(map) |-> IF i = 1 THEN new ELSE map[i].key]
<1>2. f \in [1 .. Len(map) -> S \cup {new}]
  <2>1. ASSUME NEW i \in 1 .. Len(map), i # 1  PROVE map[i].key \in S
    <3>1. 1 < i
      BY <1>1, <2>1
    <3> QED BY <1>1, <3>1 DEF Behind
  <2> QED BY <2>1
<1>3. \A i \in 1 .. Len(map) : map[i].key # new
  BY <1>1 DEF HasKey
<1>4. \A i, j \in 1 .. Len(map) : f[i] = f[j] => i = j
  BY <1>1, <1>3 DEF MapOK, Distinct
<1>5. f \in Injection(1 .. Len(map), S \cup {new})
  <2> HIDE DEF f
  <2> QED BY <1>2, <1>4 DEF Injection, IsInjective
<1>6. IsFiniteSet(S \cup {new}) /\ Cardinality(S \cup {new}) \in Nat
  BY FS_AddElement, FS_CardinalityType
<1>7. Cardinality(1 .. Len(map)) <= Cardinality(S \cup {new})
  BY <1>5, <1>6, FS_Injection
<1>8. Cardinality(1 .. Len(map)) = Len(map)
  BY <1>1, FS_Interval
<1> QED BY <1>1, <1>6, <1>7, <1>8

Demands == [allowed : Seq(Nat), others : SUBSET Keys, forgotten : BOOLEAN]

\* The window of key k in the map, and the record d of its demand: while the
\* window is not forgotten, the keys used after it are on record.
RateOK(map, d, now, k) ==
    /\ WindowOK(Lookup(map, k, << >>), d.allowed, d.forgotten, now, RATE_LIMITS[k[2]])
    /\ IsFiniteSet(d.others)
    /\ ~d.forgotten /\ d.allowed # << >> => Behind(map, k, d.others)

RatesInv ==
    /\ demand \in [Keys -> Demands]
    /\ \A k \in Keys : RateOK(requestLog, demand[k], clock, k)

\* What a key of the limiter is.
LEMMA KeyIs ==
    ASSUME NEW o \in Origins, NEW m \in Methods \cap DOMAIN RATE_LIMITS
    PROVE  <<o, m>> \in Keys /\ Key(o, m) = <<o, m>> /\ <<o, m>>[2] = m
BY DEF Keys, Key

\* Every key has its limit.
LEMMA KeyLimit ==
    ASSUME NEW k \in Keys
    PROVE  k[2] \in DOMAIN RATE_LIMITS /\ RATE_LIMITS[k[2]] \in Nat
BY LimitsAssumption DEF Keys

\* The key that was used: an allowed request is counted and recorded, a
\* refused one only uses the key.
LEMMA RateOfUsed ==
    ASSUME RequestLogOK, NEW o \in Origins, NEW m \in Methods \cap DOMAIN RATE_LIMITS,
           NEW now \in Times, RateChecked(o, m, now),
           NEW d \in Demands, RateOK(requestLog, d, now, <<o, m>>),
           NEW e \in Demands, e.forgotten = d.forgotten, e.others = {},
           e.allowed = IF RateAllowed(o, m, now) THEN Latest(Append(d.allowed, now), m)
                       ELSE d.allowed
    PROVE  RateOK(requestLog', e, now, <<o, m>>)
<1> DEFINE k == <<o, m>>
           log == Lookup(requestLog, k, << >>)
           limit == RATE_LIMITS[m]
           left == WindowLeft(o, m, now)
           room == RoomFor(k)
<1>1. k \in Keys /\ Key(o, m) = k /\ k[2] = m /\ limit \in Nat
  BY KeyIs, KeyLimit
<1>2. requestLog' = Touch(room, k, left) /\ left \in Seq(Times)
      /\ MapOK(room, Keys, Seq(Times))
  BY <1>1, RateCheckedIs, RoomType, WindowType
<1>3. Lookup(requestLog', k, << >>) = left /\ Behind(requestLog', k, {})
  <2> HIDE DEF room, left, k
  <2> QED BY <1>1, <1>2, TouchValue, BehindTouch
<1>4. now \in Nat \ {0}
  BY DEF Times
<1>5. Window(o, m, now) = Recent(log, now)
  BY <1>1 DEF Window
<1>6. WindowOK(log, d.allowed, d.forgotten, now, limit)
  BY <1>1 DEF RateOK
<1>7. WindowOK(left, e.allowed, e.forgotten, now, limit)
  <2>1. CASE RateAllowed(o, m, now)
    <3>1. Len(Recent(log, now)) < limit
      BY <1>5, <2>1 DEF RateAllowed
    <3>2. left = Append(Recent(log, now), now)
      BY <1>5, <2>1 DEF WindowLeft
    <3>3. e.allowed = Latest(Append(d.allowed, now), m)
      BY <2>1
    <3> HIDE DEF log
    <3> QED BY <1>4, <1>6, <3>1, <3>2, <3>3, WindowAllowed
  <2>2. CASE ~RateAllowed(o, m, now)
    <3>1. left = Recent(log, now) /\ e.allowed = d.allowed
      BY <1>5, <2>2 DEF WindowLeft
    <3> HIDE DEF log, limit
    <3> QED BY <1>1, <1>4, <1>6, <3>1, WindowRefused
  <2> QED BY <2>1, <2>2
<1>8. IsFiniteSet({})
  BY FS_EmptySet
<1> HIDE DEF left
<1> QED BY <1>1, <1>3, <1>7, <1>8 DEF RateOK

\* Another key: it keeps its window, or it is evicted once as many keys as the
\* map may hold were used after it, and the record of its demand knows.
LEMMA RateOfOther ==
    ASSUME RequestLogOK, NEW o \in Origins, NEW m \in Methods \cap DOMAIN RATE_LIMITS,
           NEW now \in Times, RateChecked(o, m, now),
           NEW k \in Keys, k # <<o, m>>,
           NEW d \in Demands, RateOK(requestLog, d, now, k),
           NEW e \in Demands, e.allowed = d.allowed,
           \/ e = d /\ (d.allowed = << >> \/ d.forgotten)
           \/ /\ e.others = d.others \cup {<<o, m>>} /\ e.forgotten = d.forgotten
              /\ Cardinality(d.others \cup {<<o, m>>}) < MAX_TRACKED_KEYS
           \/ e.others = {} /\ e.forgotten
    PROVE  RateOK(requestLog', e, now, k)
<1> DEFINE u == <<o, m>>
           left == WindowLeft(o, m, now)
           room == RoomFor(u)
           limit == RATE_LIMITS[k[2]]
<1>1. u \in Keys /\ Key(o, m) = u /\ limit \in Nat /\ now \in Nat
  BY KeyIs, KeyLimit DEF Times
<1>2. /\ requestLog' = Touch(room, u, left) /\ left \in Seq(Times)
      /\ MapOK(room, Keys, Seq(Times)) /\ Within(room, requestLog)
      /\ MapOK(requestLog, Keys, Seq(Times))
  BY <1>1, RateCheckedIs, RoomType, WindowType DEF RequestLogOK
<1>3. IsFiniteSet(e.others)
  <2>1. IsFiniteSet(d.others)
    BY DEF RateOK
  <2>2. IsFiniteSet({}) /\ IsFiniteSet(d.others \cup {u})
    BY <2>1, FS_EmptySet, FS_AddElement
  <2> QED BY <2>1, <2>2
<1>4. Lookup(requestLog', k, << >>) = Lookup(room, k, << >>)
  <2> HIDE DEF room, left, u
  <2>1. k # u
    BY DEF u
  <2> QED BY <1>1, <1>2, <2>1, TouchValue
<1>5. ASSUME ~e.forgotten, e.allowed # << >>  PROVE Behind(requestLog', k, e.others)
  <2>1. e.others = d.others \cup {u} /\ Behind(requestLog, k, d.others)
    BY <1>5 DEF RateOK
  <2> HIDE DEF room, left, u
  <2>2. Behind(room, k, d.others)
    BY <1>2, <2>1, BehindWithin
  <2>3. k # u
    BY DEF u
  <2> QED BY <1>1, <1>2, <2>1, <2>2, <2>3, BehindTouch
<1>6. WindowOK(Lookup(requestLog, k, << >>), e.allowed, e.forgotten, now, limit)
  BY DEF RateOK, WindowOK
<1>7. CASE HasKey(room, k) \/ ~HasKey(requestLog, k)
  <2>1. Lookup(room, k, << >>) = Lookup(requestLog, k, << >>)
    <3> HIDE DEF room
    <3>1. CASE HasKey(room, k)
      BY <1>2, <3>1, WithinFound DEF MapOK
    <3>2. CASE ~HasKey(room, k) /\ ~HasKey(requestLog, k)
      BY <3>2 DEF Lookup
    <3> QED BY <1>7, <3>1, <3>2
  <2> QED BY <1>3, <1>4, <1>5, <1>6, <2>1 DEF RateOK
<1>8. CASE ~HasKey(room, k) /\ HasKey(requestLog, k)
  <2>1. Lookup(room, k, << >>) = << >>
    BY <1>8 DEF Lookup
  <2>2. MAX_TRACKED_KEYS \in Nat \ {0}
    BY LimitsAssumption
  <2>3. /\ ~HasKey(requestLog, u) /\ Len(requestLog) >= MAX_TRACKED_KEYS
        /\ k = requestLog[1].key
    <3>1. ~HasKey(requestLog, u) /\ room = EvictIfFull(requestLog, MAX_TRACKED_KEYS)
      BY <1>8 DEF RoomFor
    <3>2. Len(requestLog) >= MAX_TRACKED_KEYS /\ k = Head(requestLog).key
          /\ Head(requestLog) = requestLog[1]
      BY <1>2, <1>8, <2>2, <3>1, EvictMap
    <3> QED BY <3>1, <3>2
  <2>4. e.forgotten \/ e.allowed = << >>
    <3> SUFFICES ASSUME ~e.forgotten, e.allowed # << >>  PROVE FALSE
      OBVIOUS
    <3>1. /\ Behind(requestLog, k, d.others) /\ IsFiniteSet(d.others)
          /\ Cardinality(d.others \cup {u}) < MAX_TRACKED_KEYS
      BY DEF RateOK
    <3>2. Cardinality(d.others \cup {u}) >= MAX_TRACKED_KEYS
      <4> HIDE DEF u
      <4> QED BY <1>2, <2>2, <2>3, <3>1, EvictedBehind
    <3>3. Cardinality(d.others \cup {u}) \in Nat
      BY <3>1, FS_AddElement, FS_CardinalityType
    <3> QED BY <2>2, <3>1, <3>2, <3>3
  <2>5. WindowOK(<< >>, e.allowed, e.forgotten, now, limit)
    <3> HIDE DEF limit
    <3> QED BY <1>1, <1>6, <2>4, WindowEvicted
  <2> QED BY <1>3, <1>4, <1>5, <2>1, <2>5 DEF RateOK
<1> QED BY <1>7, <1>8

\* What a routed request does to the limiter and to the demand on record.
LEMMA RouteIs ==
    ASSUME NEW c \in Calls, NEW o \in Origins, NEW m \in Methods,
           Route(c, o, m), Routed(o, m)
    PROVE  /\ UNCHANGED clock
           /\ \/ UNCHANGED <<requestLog, demand>>
              \/ /\ m \in DOMAIN RATE_LIMITS /\ RateChecked(o, m, clock)
                 /\ Demanded(<<o, m>>, RateAllowed(o, m, clock))
<1>1. UNCHANGED clock
  BY DEF Route, bounds
<1>2. CASE refusal' = "cooldown" /\ UNCHANGED limits
  BY <1>1, <1>2, Zenon DEF Routed, limits
<1>3. CASE RateChecked(o, m, clock) /\ ~RateAllowed(o, m, clock) /\ refusal' = "rate"
  <2>1. m \in DOMAIN RATE_LIMITS
    BY <1>3 DEF RateAllowed
  <2>2. refusal' # "cooldown" /\ (refusal' # "rate") = FALSE
    BY <1>3
  <2>3. RateAllowed(o, m, clock) = FALSE
    BY <1>3 DEF RateAllowed
  <2>4. Demanded(<<o, m>>, refusal' # "rate")
    BY <2>1, <2>2 DEF Routed
  <2> QED BY <1>1, <1>3, <2>1, <2>2, <2>3, <2>4
<1>4. CASE RateChecked(o, m, clock) /\ RateAllowed(o, m, clock)
           /\ refusal' # "cooldown" /\ refusal' # "rate"
  <2>1. CASE m \notin DOMAIN RATE_LIMITS
    BY <1>1, <1>4, <2>1 DEF Routed, RateChecked
  <2>2. CASE m \in DOMAIN RATE_LIMITS
    <3>1. RateAllowed(o, m, clock) = TRUE /\ (refusal' # "rate") = TRUE
      BY <1>4 DEF RateAllowed
    <3>2. Demanded(<<o, m>>, refusal' # "rate")
      BY <1>4, <2>2 DEF Routed
    <3> QED BY <1>1, <1>4, <2>2, <3>1, <3>2
  <2> QED BY <2>1, <2>2
<1>5. ASSUME NEW q, EnterBudget(c, q)  PROVE refusal' # "cooldown" /\ refusal' # "rate"
  <2>1. refusal' \in {"none", "busy", "site busy"}
    BY <1>5, Zenon DEF EnterBudget, Admit, Answer, MovesTo
  <2> QED BY <2>1, Zenon
<1> QED BY <1>2, <1>3, <1>4, <1>5, Zenon DEF Route, Answer

\* A request that is routed keeps the rates.
LEMMA RouteRates ==
    ASSUME GateInv, RatesInv, NEW o \in Origins, NEW m \in Methods \cap DOMAIN RATE_LIMITS,
           RateChecked(o, m, clock), Demanded(<<o, m>>, RateAllowed(o, m, clock)),
           UNCHANGED clock
    PROVE  RatesInv'
<1> DEFINE u == <<o, m>>
<1>1. PICK now \in Times : now = clock
  BY DEF GateInv
<1>2. u \in Keys /\ u[2] = m /\ now \in Nat \ {0} /\ RequestLogOK
  BY KeyIs DEF Times, GateInv
<1>3. RateChecked(o, m, now)
  BY <1>1
<1>4. /\ DOMAIN demand' = Keys
      /\ demand'[u] = [demand[u] EXCEPT
            !.others = {},
            !.allowed = IF RateAllowed(o, m, now) THEN Latest(Append(@, now), m) ELSE @]
      /\ demand' = [j \in Keys |-> demand'[j]]
  BY <1>1, <1>2 DEF Demanded
<1>5. \A j \in Keys : j # u =>
         demand'[j] =
            IF demand[j].allowed = << >> \/ demand[j].forgotten THEN demand[j]
            ELSE IF Cardinality(demand[j].others \cup {u}) < MAX_TRACKED_KEYS
            THEN [demand[j] EXCEPT !.others = demand[j].others \cup {u}]
            ELSE [demand[j] EXCEPT !.others = {}, !.forgotten = TRUE]
  BY <1>1, <1>2 DEF Demanded
<1>6. ASSUME NEW k \in Keys  PROVE demand'[k] \in Demands /\ RateOK(requestLog', demand'[k], now, k)
  <2>1. PICK d \in Demands : d = demand[k]
    BY DEF RatesInv
  <2>2. RateOK(requestLog, d, now, k)
    BY <1>1, <2>1 DEF RatesInv
  <2>3. CASE k = u
    <3> DEFINE e == [d EXCEPT !.others = {},
                              !.allowed = IF RateAllowed(o, m, now)
                                          THEN Latest(Append(@, now), m) ELSE @]
    <3>1. demand'[k] = e
      BY <1>4, <2>1, <2>3
    <3>2. Latest(Append(d.allowed, now), m) \in Seq(Nat)
      <4>1. LogOK(d.allowed, now)
        BY <2>2 DEF RateOK, WindowOK
      <4>2. LogOK(Append(d.allowed, now), now) /\ now \in Nat
        BY <1>2, <4>1, LogAppend
      <4>3. LogOK(Latest(Append(d.allowed, now), m), now)
        BY <4>2, LatestIs
      <4> QED BY <4>2, <4>3, LogType
    <3>3. /\ e \in Demands /\ e.forgotten = d.forgotten /\ e.others = {}
          /\ e.allowed = IF RateAllowed(o, m, now) THEN Latest(Append(d.allowed, now), m)
                         ELSE d.allowed
      BY <3>2 DEF Demands
    <3> HIDE DEF e
    <3>4. RateOK(requestLog, d, now, <<o, m>>)
      BY <2>2, <2>3
    <3>5. RateOK(requestLog', e, now, <<o, m>>)
      BY <1>2, <1>3, <3>3, <3>4, RateOfUsed
    <3> QED BY <2>3, <3>1, <3>3, <3>5
  <2>4. CASE k # u
    <3> DEFINE s == d.others \cup {u}
               a == [d EXCEPT !.others = s]
               b == [d EXCEPT !.others = {}, !.forgotten = TRUE]
    <3>1. demand'[k] = IF d.allowed = << >> \/ d.forgotten THEN d
                       ELSE IF Cardinality(s) < MAX_TRACKED_KEYS THEN a ELSE b
      BY <1>5, <2>1, <2>4
    <3>2. /\ a \in Demands /\ a.others = s /\ a.forgotten = d.forgotten
          /\ a.allowed = d.allowed
          /\ b \in Demands /\ b.others = {} /\ b.forgotten /\ b.allowed = d.allowed
      BY <1>2 DEF Demands
    <3> HIDE DEF a, b
    <3>3. PICK e \in Demands : e = demand'[k]
      BY <3>1, <3>2
    <3>4. e.allowed = d.allowed
      BY <3>1, <3>2, <3>3
    <3>5. \/ e = d /\ (d.allowed = << >> \/ d.forgotten)
          \/ e.others = s /\ e.forgotten = d.forgotten /\ Cardinality(s) < MAX_TRACKED_KEYS
          \/ e.others = {} /\ e.forgotten
      BY <3>1, <3>2, <3>3
    <3>6. RateOK(requestLog', e, now, k)
      BY <1>2, <1>3, <2>2, <2>4, <3>4, <3>5, RateOfOther
    <3> QED BY <3>3, <3>6
  <2> QED BY <2>3, <2>4
<1>7. demand' \in [Keys -> Demands]
  BY <1>4, <1>6
<1>8. clock' = now
  BY <1>1
<1> QED BY <1>6, <1>7, <1>8 DEF RatesInv

\* The demand on record of a key at a later time.
DemandLeft(d, later) ==
    LET kept == Recent(d.allowed, later)
    IN IF kept = << >> THEN NoDemand ELSE [d EXCEPT !.allowed = kept]

\* As time passes a window of a key and its demand stay as they should.
LEMMA RateLater ==
    ASSUME NEW now \in Nat, NEW later \in Nat, now <= later, NEW map, NEW k \in Keys,
           NEW d \in Demands, RateOK(map, d, now, k)
    PROVE  DemandLeft(d, later) \in Demands /\ RateOK(map, DemandLeft(d, later), later, k)
<1> DEFINE log == Lookup(map, k, << >>)
           limit == RATE_LIMITS[k[2]]
           kept == Recent(d.allowed, later)
           e == DemandLeft(d, later)
<1>0. e = IF kept = << >> THEN NoDemand ELSE [d EXCEPT !.allowed = kept]
  BY DEF DemandLeft
<1>1. limit \in Nat /\ WindowOK(log, d.allowed, d.forgotten, now, limit)
  BY KeyLimit DEF RateOK
<1> HIDE DEF log, limit, e
<1>2. WindowOK(log, kept, d.forgotten, later, limit)
  BY <1>1, WindowLater
<1> HIDE DEF kept
<1>3. kept \in Seq(Nat)
  BY <1>1, <1>2, WindowIs
<1>4. CASE kept = << >>
  <2>1. e.allowed = << >> /\ e.others = {} /\ e.forgotten = FALSE /\ e \in Demands
    BY <1>0, <1>3, <1>4 DEF NoDemand, Demands
  <2>2. Len(Recent(log, later)) \in Nat /\ Len(Recent(log, later)) <= Len(<< >>)
        /\ Len(<< >>) = 0
    BY <1>1, <1>2, <1>4, WindowIs, EmptySeq DEF WindowOK, Ends
  <2>3. WindowOK(log, e.allowed, e.forgotten, later, limit)
    BY <1>2, <1>4, <2>1, <2>2 DEF WindowOK
  <2> QED BY <2>1, <2>3, FS_EmptySet DEF RateOK, log, limit, e
<1>5. CASE kept # << >>
  <2>1. e.allowed = kept /\ e.others = d.others /\ e.forgotten = d.forgotten /\ e \in Demands
    BY <1>0, <1>3, <1>5 DEF Demands
  <2>2. d.allowed # << >>
    <3> SUFFICES ASSUME d.allowed = << >>  PROVE FALSE
      OBVIOUS
    <3>1. Len(<< >>) = 0 /\ LogOK(<< >>, later)
      BY EmptyReserve
    <3>2. Recent(<< >>, later) = << >>
      BY <3>1, RecentWhole
    <3> QED BY <1>5, <3>2 DEF kept
  <2>3. IsFiniteSet(d.others) /\ (~d.forgotten => Behind(map, k, d.others))
    BY <2>2 DEF RateOK
  <2> QED BY <1>2, <2>1, <2>3 DEF RateOK, log, limit, e
<1> QED BY <1>4, <1>5 DEF e

\* Without anything on record a rate is kept.
LEMMA EmptyRate ==
    ASSUME NEW now \in Nat, NEW k \in Keys
    PROVE  NoDemand \in Demands /\ RateOK(<< >>, NoDemand, now, k)
<1>1. NoDemand \in Demands /\ NoDemand.allowed = << >> /\ NoDemand.others = {}
      /\ NoDemand.forgotten = FALSE
  BY EmptySeq DEF NoDemand, Demands
<1>2. Len(<< >>) = 0 /\ LogOK(<< >>, now)
  BY EmptyReserve
<1>3. Recent(<< >>, now) = << >>
  BY <1>2, RecentWhole
<1>4. Lookup(<< >>, k, << >>) = << >>
  BY DEF Lookup, HasKey
<1>5. RATE_LIMITS[k[2]] \in Nat /\ Ends(<< >>, << >>)
  BY <1>2, KeyLimit DEF Ends
<1>6. WindowOK(<< >>, << >>, FALSE, now, RATE_LIMITS[k[2]])
  BY <1>2, <1>3, <1>5 DEF WindowOK
<1> QED BY <1>1, <1>4, <1>6, FS_EmptySet DEF RateOK

\* RatesInv is inductive.
LEMMA NextRates ==
    ASSUME GateInv, RatesInv, [ObservedNext]_<<vars, history>>
    PROVE  RatesInv'
<1>1. clock \in Nat
  BY DEF GateInv, Times
<1>2. CASE UNCHANGED <<requestLog, demand, clock>>
  BY <1>2 DEF RatesInv
<1>3. ASSUME NEW c \in Calls, NEW o \in Origins, NEW m \in Methods, Route(c, o, m),
             Routed(o, m)
      PROVE  RatesInv'
  <2>1. CASE UNCHANGED <<requestLog, demand>>
    BY <1>2, <1>3, <2>1, RouteIs
  <2>2. CASE /\ m \in DOMAIN RATE_LIMITS /\ RateChecked(o, m, clock)
             /\ Demanded(<<o, m>>, RateAllowed(o, m, clock))
    <3>1. m \in Methods \cap DOMAIN RATE_LIMITS /\ UNCHANGED clock
      BY <1>3, <2>2, RouteIs
    <3> QED BY <2>2, <3>1, RouteRates
  <2> QED BY <1>3, <2>1, <2>2, RouteIs
<1>4. CASE Tick /\ Passed
  <2>1. clock' = clock + 1 /\ UNCHANGED requestLog
    BY <1>4 DEF Tick, limits
  <2>2. PICK now \in Nat, later \in Nat : now = clock /\ later = clock' /\ now <= later
    BY <1>1, <2>1
  <2>3. /\ demand' = [k \in Keys |-> demand'[k]]
        /\ \A k \in Keys :
              demand'[k] = DemandLeft(demand[k], later)
    BY <1>4, <2>2 DEF Passed, Recent, DemandLeft
  <2>4. ASSUME NEW k \in Keys
        PROVE  demand'[k] \in Demands /\ RateOK(requestLog, demand'[k], later, k)
    <3>1. PICK d \in Demands : d = demand[k] /\ RateOK(requestLog, d, now, k)
      BY <2>2 DEF RatesInv
    <3>2. demand'[k] = DemandLeft(d, later)
      BY <2>3, <3>1
    <3>3. PICK map : map = requestLog
      OBVIOUS
    <3>4. DemandLeft(d, later) \in Demands /\ RateOK(map, DemandLeft(d, later), later, k)
      BY <2>2, <3>1, <3>3, RateLater
    <3> QED BY <3>2, <3>3, <3>4
  <2>5. demand' \in [Keys -> Demands]
    BY <2>3, <2>4
  <2> QED BY <2>1, <2>2, <2>4, <2>5 DEF RatesInv
<1>5. CASE Terminate /\ demand' = [k \in Keys |-> NoDemand]
  <2>1. requestLog' = << >> /\ clock' \in Nat
    BY <1>1, <1>5 DEF Terminate
  <2>2. PICK now \in Nat : now = clock'
    BY <2>1
  <2>3. \A k \in Keys : NoDemand \in Demands /\ RateOK(<< >>, NoDemand, now, k)
    BY EmptyRate
  <2> QED BY <1>5, <2>1, <2>2, <2>3 DEF RatesInv
<1>6. ASSUME NEW c \in Calls, LookUp(c) /\ LookedUp(c)
      PROVE  UNCHANGED <<requestLog, demand, clock>>
  BY <1>6 DEF LookUp, LookedUp, limits, bounds
<1>7. ASSUME NEW c \in Calls,
             OpenDialog(c) \/ Approve(c) \/ Reject(c), UNCHANGED <<demand, reviewed>>
      PROVE  UNCHANGED <<requestLog, demand, clock>>
  BY <1>7 DEF OpenDialog, Approve, Reject, limits, bounds
<1>8. ASSUME NEW c \in Calls,
             GrantRead(c) \/ ReadConnected(c) \/ ReadTokens(c) \/ Finish(c),
             Unseen
      PROVE  UNCHANGED <<requestLog, demand, clock>>
  BY <1>8 DEF GrantRead, ReadConnected, ReadTokens, Finish, Unseen, limits, bounds
<1>9. ASSUME ChangeGrants, Unseen  PROVE UNCHANGED <<requestLog, demand, clock>>
  BY <1>9 DEF ChangeGrants, Unseen, limits
<1>10. ASSUME UNCHANGED <<vars, history>>  PROVE UNCHANGED <<requestLog, demand, clock>>
  BY <1>10 DEF vars, history, limits, bounds
<1> QED
  BY <1>2, <1>3, <1>4, <1>5, <1>6, <1>7, <1>8, <1>9, <1>10, Zenon DEF ObservedNext, Observed

\* RatesInv holds with the history on record.
LEMMA RatesSound == ObservedSpec => [](GateInv /\ RatesInv)
<1>1. ObservedInit => GateInv /\ RatesInv
  BY InitGate, EmptyRate DEF ObservedInit, Init, RatesInv
<1>2. GateInv /\ RatesInv /\ [ObservedNext]_<<vars, history>> => (GateInv /\ RatesInv)'
  BY ObservedSteps, NextGate, NextRates
<1> QED BY <1>1, <1>2, PTL DEF ObservedSpec

\* In every behaviour no more requests of a site for a method are allowed in a
\* window than its limit, unless the bounded map may have forgotten the window.
THEOREM RatesKept == ObservedSpec => []RatesHeld
<1>1. GateInv /\ RatesInv => RatesHeld
  <2> SUFFICES ASSUME GateInv, RatesInv, NEW k \in Keys, ~demand[k].forgotten
               PROVE  Len(demand[k].allowed) <= RATE_LIMITS[k[2]]
    BY DEF RatesHeld
  <2> DEFINE log == Lookup(requestLog, k, << >>)
             limit == RATE_LIMITS[k[2]]
  <2>1. clock \in Nat /\ limit \in Nat
    BY KeyLimit DEF GateInv, Times
  <2>2. WindowOK(log, demand[k].allowed, demand[k].forgotten, clock, limit)
    BY DEF RatesInv, RateOK
  <2> HIDE DEF log, limit
  <2>3. Len(Recent(log, clock)) <= limit /\ Len(Recent(log, clock)) = Len(demand[k].allowed)
    BY <2>1, <2>2, WindowIs DEF WindowOK
  <2> QED BY <2>3 DEF limit
<1> QED BY <1>1, RatesSound, PTL

\* A request is refused for its rate only by a method of the wallet, as the
\* limiter's log tells.
LEMMA RefusedIs ==
    ASSUME GateInv, GateInv', NEW c \in Calls, NEW o \in Origins, NEW m \in DOMAIN RATE_LIMITS,
           Route(c, o, m), refusal' = "rate"
    PROVE  ~RateAllowed(o, m, clock) /\ <<o, m>> \in Keys
<1>1. ASSUME NEW q, EnterBudget(c, q)  PROVE refusal' # "rate"
  <2>1. refusal' \in {"none", "busy", "site busy"}
    BY <1>1, Zenon DEF EnterBudget, Admit, Answer, MovesTo
  <2> QED BY <2>1, Zenon
<1>2. RateChecked(o, m, clock) /\ ~RateAllowed(o, m, clock)
  BY <1>1, Zenon DEF Route, Answer
<1> DEFINE u == Key(o, m)
           rest == Delete(RoomFor(u), u)
           entry == [key |-> u, value |-> WindowLeft(o, m, clock)]
           S == EntriesOf(Keys, Seq(Times))
<1>3. requestLog' = Append(rest, entry)
  BY <1>2 DEF RateChecked, RoomFor, WindowLeft, Touch, Insert
<1>4. MapOK(RoomFor(u), Keys, Seq(Times))
  BY RoomType DEF GateInv
<1>5. rest \in Seq(S) /\ requestLog' \in Seq(S)
  <2> HIDE DEF u
  <2> QED BY <1>4, DeleteMap DEF GateInv, RequestLogOK, MapOK
<1>6. u = <<o, m>> /\ entry.key = u
  BY DEF Key
<1> HIDE DEF rest, entry, S, u
<1>7. rest \in Seq(S \cup {entry})
  BY <1>5
<1>8. Len(rest) \in Nat /\ Len(requestLog') = Len(rest) + 1 /\ requestLog'[Len(rest) + 1] = entry
  BY <1>3, <1>7, AppendProperties, LenProperties
<1>9. entry \in S
  BY <1>5, <1>8, ElementOfSeq
<1>10. entry.key \in Keys
  BY <1>9 DEF S, EntriesOf
<1> QED BY <1>2, <1>6, <1>10

\* In every behaviour a request is refused for its rate only when as many as
\* the limit were allowed within the window: refused ones do not extend it.
THEOREM RefusalsAtLimit == ObservedSpec => RefusedAtLimit
<1>1. ASSUME GateInv, GateInv', RatesInv
      PROVE  \A c \in Calls, o \in Origins, m \in DOMAIN RATE_LIMITS :
                Route(c, o, m) /\ refusal' = "rate"
                   => Len(demand[<<o, m>>].allowed) >= RATE_LIMITS[m]
  <2> SUFFICES ASSUME NEW c \in Calls, NEW o \in Origins, NEW m \in DOMAIN RATE_LIMITS,
                      Route(c, o, m), refusal' = "rate"
               PROVE  Len(demand[<<o, m>>].allowed) >= RATE_LIMITS[m]
    OBVIOUS
  <2> DEFINE k == <<o, m>>
             log == Lookup(requestLog, k, << >>)
             limit == RATE_LIMITS[m]
             d == demand[k]
  <2>1. ~RateAllowed(o, m, clock) /\ k \in Keys
    BY <1>1, RefusedIs
  <2>2. k[2] = m /\ limit \in Nat /\ clock \in Nat
    BY <1>1, LimitsAssumption DEF GateInv, Times
  <2>3. WindowOK(log, d.allowed, d.forgotten, clock, limit)
    BY <1>1, <2>1, <2>2 DEF RatesInv, RateOK
  <2>4. ~(Len(Recent(log, clock)) < limit)
    BY <2>1 DEF RateAllowed, Window, Key
  <2> HIDE DEF log, limit, d, k
  <2>5. Len(Recent(log, clock)) <= Len(d.allowed)
        /\ Len(Recent(log, clock)) \in Nat /\ Len(d.allowed) \in Nat
    BY <2>2, <2>3, WindowIs DEF WindowOK, Ends
  <2>6. Len(d.allowed) >= limit
    BY <2>2, <2>4, <2>5
  <2> QED BY <2>6 DEF limit, d, k
<1>2. GateInv /\ [ObservedNext]_<<vars, history>> => GateInv'
  BY ObservedSteps, NextGate
<1> QED BY <1>1, <1>2, RatesSound, PTL DEF RefusedAtLimit, ObservedSpec

-----------------------------------------------------------------------------
(***************************************************************************)
(* The dialogs in a cooldown's length of time: those counted since the     *)
(* site's last cooldown began, and the late ones, with the requests that   *)
(* may still open one.                                                     *)
(***************************************************************************)
\* A log in order, none of it past.
Fresh(log, now) ==
    LogOK(log, now) /\ \A i \in 1 .. Len(log) : log[i] + COOLDOWN_MS > now

\* The requests of a site in flight beside the one that starts its cooldown.
Spare == MAX_INFLIGHT_PER_ORIGIN - 1

\* The stale requests of site o that took their slot at once.
LateCalls(o) == {c \in stale \ waited : call[c].origin = o}

Records == [opens : Seq(Nat), late : Seq(Nat), others : SUBSET Origins]

\* The entry e of a site, the record d of its dialogs, and n requests that may
\* open late ones.
Rationed(e, d, n, now) ==
    /\ Fresh(d.opens, now) /\ Fresh(d.late, now)
    /\ e.blockedUntil = 0 =>
          /\ Len(d.opens) <= e.opened /\ e.opened < MAX_UNANSWERED_DIALOGS
          /\ Len(d.late) + n <= Spare
    /\ e.blockedUntil # 0 /\ now >= e.blockedUntil =>
          d.opens = << >> /\ Len(d.late) + n <= Spare
    /\ now < e.blockedUntil =>
          /\ Len(d.opens) <= MAX_UNANSWERED_DIALOGS
          /\ Lately(d.opens, COOLDOWN_MS, e.blockedUntil) = << >>
          /\ Len(Lately(d.late, COOLDOWN_MS, e.blockedUntil)) + n <= Spare
          /\ Len(d.late) + n <= 2 * Spare

\* The numbers of the throttle.
LEMMA Numbers ==
    /\ Spare \in Nat /\ COOLDOWN_MS \in Nat \ {0} /\ MAX_UNANSWERED_DIALOGS \in Nat \ {0}
    /\ MAX_INFLIGHT_PER_ORIGIN \in Nat
BY ThrottleAssumption, LimitsAssumption DEF Spare

\* Nothing is kept of a log that is past.
LEMMA LatelyNone ==
    ASSUME NEW now \in Nat, NEW times \in Seq(Nat), Ordered(times), NEW span \in Nat,
           \A i \in 1 .. Len(times) : times[i] + span <= now
    PROVE  Lately(times, span, now) = << >>
<1> DEFINE kept == Lately(times, span, now)
<1>1. /\ kept \in Seq(Nat) /\ Ends(kept, times)
      /\ \A i \in 1 .. Len(times) :
            times[i] + span > now <=> i > Len(times) - Len(kept)
  BY LatelyIs
<1>2. /\ Len(times) \in Nat /\ Len(kept) \in Nat /\ Len(kept) <= Len(times)
      /\ \A i \in 1 .. Len(times) : times[i] \in Nat
  BY <1>1, LenProperties, ElementOfSeq DEF Ends
<1> HIDE DEF kept
<1>3. ASSUME Len(kept) > 0  PROVE FALSE
  <2> DEFINE i == Len(times)
  <2>1. i \in 1 .. Len(times)
    BY <1>2, <1>3
  <2>2. i > Len(times) - Len(kept)
    BY <1>2, <1>3
  <2> HIDE DEF i
  <2>3. times[i] + span > now /\ times[i] + span <= now /\ times[i] \in Nat
    BY <1>1, <1>2, <2>1, <2>2
  <2> QED BY <2>3
<1>4. Len(kept) = 0
  BY <1>2, <1>3
<1>5. kept = << >>
  BY <1>1, <1>4, EmptySeq
<1> QED BY <1>5 DEF kept

\* A time appended to a log is at most one more that is kept.
LEMMA LatelyAppend ==
    ASSUME NEW now \in Nat \ {0}, NEW log, LogOK(log, now), NEW span \in Nat, NEW later \in Nat
    PROVE  Len(Lately(Append(log, now), span, later)) <= Len(Lately(log, span, later)) + 1
<1> DEFINE more == Append(log, now)
           r == Lately(more, span, later)
           s == Lately(log, span, later)
<1>1. LogOK(more, now)
  BY LogAppend
<1>2. /\ log \in Seq(Nat) /\ Ordered(log) /\ Len(log) \in Nat
      /\ \A i \in 1 .. Len(log) : log[i] \in Nat
      /\ more \in Seq(Nat) /\ Ordered(more)
  <2> HIDE DEF more
  <2> QED BY <1>1, LogType
<1>3. Len(more) = Len(log) + 1 /\ \A i \in 1 .. Len(log) : more[i] = log[i]
  BY <1>2, AppendProperties
<1> HIDE DEF more
<1>4. /\ s \in Seq(Nat) /\ Ends(s, log)
      /\ \A i \in 1 .. Len(log) : log[i] + span > later <=> i > Len(log) - Len(s)
  BY <1>2, LatelyIs
<1>5. /\ r \in Seq(Nat) /\ Ends(r, more)
      /\ \A i \in 1 .. Len(more) : more[i] + span > later <=> i > Len(more) - Len(r)
  BY <1>2, LatelyIs
<1> HIDE DEF r, s
<1>6. Len(s) \in Nat /\ Len(r) \in Nat /\ Len(s) <= Len(log) /\ Len(r) <= Len(more)
  BY <1>4, <1>5, LenProperties DEF Ends
<1>7. ASSUME Len(r) > Len(s) + 1  PROVE FALSE
  <2> DEFINE i == Len(log) - Len(s)
  <2>1. i \in 1 .. Len(log) /\ i \in 1 .. Len(more) /\ i > Len(more) - Len(r)
        /\ ~(i > Len(log) - Len(s))
    BY <1>2, <1>3, <1>6, <1>7
  <2> HIDE DEF i
  <2>2. more[i] = log[i] /\ more[i] + span > later
    BY <1>3, <1>5, <2>1
  <2> QED BY <1>4, <2>1, <2>2
<1>8. Len(r) <= Len(s) + 1
  BY <1>6, <1>7
<1> QED BY <1>8 DEF r, s, more

\* A fresh log is a sequence of numbers, and one time more leaves it fresh.
LEMMA FreshIs ==
    ASSUME NEW now \in Nat \ {0}, NEW log, Fresh(log, now)
    PROVE  /\ log \in Seq(Nat) /\ Ordered(log) /\ Len(log) \in Nat
           /\ \A i \in 1 .. Len(log) : log[i] <= now /\ log[i] \in Nat
           /\ Fresh(Append(log, now), now) /\ Len(Append(log, now)) = Len(log) + 1
<1>1. /\ log \in Seq(Nat) /\ Ordered(log) /\ Len(log) \in Nat
      /\ \A i \in 1 .. Len(log) : log[i] \in 1 .. now /\ log[i] \in Nat
  BY LogType DEF Fresh
<1>2. LogOK(Append(log, now), now)
  BY LogAppend DEF Fresh
<1>3. /\ Len(Append(log, now)) = Len(log) + 1 /\ Append(log, now)[Len(log) + 1] = now
      /\ \A i \in 1 .. Len(log) : Append(log, now)[i] = log[i]
  BY <1>1, AppendProperties
<1>4. ASSUME NEW i \in 1 .. Len(log) + 1  PROVE Append(log, now)[i] + COOLDOWN_MS > now
  <2>1. CASE i = Len(log) + 1
    BY <1>3, <2>1, Numbers
  <2>2. CASE i \in 1 .. Len(log)
    BY <1>3, <2>2 DEF Fresh
  <2> QED BY <1>1, <2>1, <2>2
<1>5. Fresh(Append(log, now), now)
  BY <1>2, <1>3, <1>4 DEF Fresh
<1> QED BY <1>1, <1>3, <1>5

\* The log without times is fresh, and nothing is kept of it.
LEMMA FreshNone ==
    ASSUME NEW now \in Nat, NEW later \in Nat
    PROVE  /\ Fresh(<< >>, now) /\ Len(<< >>) = 0 /\ << >> \in Seq(Nat)
           /\ Lately(<< >>, COOLDOWN_MS, later) = << >>
<1>1. LogOK(<< >>, now) /\ Len(<< >>) = 0 /\ << >> \in Seq(Nat)
  BY EmptyReserve, EmptySeq
<1>2. Fresh(<< >>, now)
  BY <1>1 DEF Fresh
<1>3. Lately(<< >>, COOLDOWN_MS, later) = << >>
  <2>1. Ordered(<< >>) /\ \A i \in 1 .. Len(<< >>) : FALSE
    BY <1>1 DEF LogOK
  <2> QED BY <1>1, <2>1, LatelyNone, Numbers
<1> QED BY <1>1, <1>2, <1>3

\* What is kept of a fresh log is fresh later.
LEMMA FreshLater ==
    ASSUME NEW now \in Nat \ {0}, NEW later \in Nat \ {0}, now <= later,
           NEW log, Fresh(log, now)
    PROVE  /\ Fresh(Lately(log, COOLDOWN_MS, later), later)
           /\ Len(Lately(log, COOLDOWN_MS, later)) <= Len(log)
<1>1. LogOK(log, later) /\ COOLDOWN_MS \in Nat
  BY LogLater, Numbers DEF Fresh
<1>2. /\ LogOK(Lately(log, COOLDOWN_MS, later), later)
      /\ Ends(Lately(log, COOLDOWN_MS, later), log)
      /\ \A i \in 1 .. Len(Lately(log, COOLDOWN_MS, later)) :
            Lately(log, COOLDOWN_MS, later)[i] + COOLDOWN_MS > later
  BY <1>1, LogKept
<1> QED BY <1>2 DEF Fresh, Ends

\* The bounds of the dialogs on record, whatever the entry.
LEMMA RationedIs ==
    ASSUME NEW now \in Nat \ {0}, NEW e \in ThrottleEntry, NEW d, NEW n \in Nat,
           Rationed(e, d, n, now)
    PROVE  /\ Len(d.opens) \in Nat /\ Len(d.opens) <= MAX_UNANSWERED_DIALOGS
           /\ Len(d.late) \in Nat /\ Len(d.late) + n <= 2 * Spare
           /\ e.blockedUntil <= now => Len(d.late) + n <= Spare
<1>1. Len(d.opens) \in Nat /\ Len(d.late) \in Nat
  BY FreshIs DEF Rationed
<1>2. e.blockedUntil \in Nat /\ e.opened \in Nat
  BY DEF ThrottleEntry
<1>3. CASE e.blockedUntil = 0
  BY <1>1, <1>2, <1>3, Numbers DEF Rationed
<1>4. CASE e.blockedUntil # 0 /\ now >= e.blockedUntil
  BY <1>1, <1>2, <1>4, Numbers, EmptySeq DEF Rationed
<1>5. CASE now < e.blockedUntil
  BY <1>1, <1>2, <1>5, Numbers DEF Rationed
<1> QED BY <1>2, <1>3, <1>4, <1>5

\* No more requests than before may open late dialogs.
LEMMA RationedFewer ==
    ASSUME NEW now \in Nat \ {0}, NEW e \in ThrottleEntry, NEW d, NEW n \in Nat,
           Rationed(e, d, n, now), NEW m \in Nat, m <= n, NEW x,
           x.opens = d.opens, x.late = d.late
    PROVE  Rationed(e, x, m, now)
<1>1. Len(d.opens) \in Nat /\ Len(d.late) \in Nat
  BY FreshIs DEF Rationed
<1>2. e.blockedUntil \in Nat
  BY DEF ThrottleEntry
<1>3. Len(Lately(d.late, COOLDOWN_MS, e.blockedUntil)) \in Nat
  <2>1. d.late \in Seq(Nat)
    BY FreshIs DEF Rationed
  <2>2. Lately(d.late, COOLDOWN_MS, e.blockedUntil) \in Seq(Nat)
    BY <2>1, LatelyType
  <2> QED BY <2>2, LenProperties
<1> QED BY <1>1, <1>2, <1>3, Numbers DEF Rationed

\* The record of a site starts over, and its entry may.
LEMMA RationedNone ==
    ASSUME NEW now \in Nat \ {0}, NEW e \in ThrottleEntry, NEW d, NEW n \in Nat,
           Rationed(e, d, n, now), NEW m \in Nat, m <= n, NEW x,
           x.opens = << >>, x.late = << >>, NEW f \in {e, CleanSlate}
    PROVE  Rationed(f, x, m, now)
<1>1. e.blockedUntil \in Nat /\ e.opened \in Nat
  BY DEF ThrottleEntry
<1>2. /\ Fresh(<< >>, now) /\ Len(<< >>) = 0
      /\ Lately(<< >>, COOLDOWN_MS, e.blockedUntil) = << >>
  BY <1>1, FreshNone
<1>3. n <= Spare
  <2>1. CASE now < e.blockedUntil
    <3>1. d.late \in Seq(Nat)
      BY FreshIs DEF Rationed
    <3>2. Lately(d.late, COOLDOWN_MS, e.blockedUntil) \in Seq(Nat)
      BY <3>1, LatelyType
    <3>3. Len(Lately(d.late, COOLDOWN_MS, e.blockedUntil)) \in Nat
      BY <3>2, LenProperties
    <3> QED BY <2>1, <3>3, Numbers DEF Rationed
  <2>2. CASE e.blockedUntil <= now
    BY <2>2, RationedIs, Numbers
  <2> QED BY <1>1, <2>1, <2>2
<1>4. f.blockedUntil \in {e.blockedUntil, 0} /\ f.opened \in {e.opened, 0}
      /\ (f.blockedUntil = 0 => f.opened < MAX_UNANSWERED_DIALOGS)
  BY Numbers DEF CleanSlate, Rationed
<1>5. CASE f.blockedUntil = 0
  BY <1>1, <1>2, <1>3, <1>4, <1>5, Numbers DEF Rationed
<1>6. CASE f.blockedUntil = e.blockedUntil
  BY <1>1, <1>2, <1>3, <1>4, <1>6, Numbers DEF Rationed
<1> QED BY <1>4, <1>5, <1>6

\* A cooldown that is over leaves a clean slate.
LEMMA RationedOver ==
    ASSUME NEW now \in Nat \ {0}, NEW e \in ThrottleEntry, NEW d, NEW n \in Nat,
           Rationed(e, d, n, now), e.blockedUntil # 0, now >= e.blockedUntil
    PROVE  Rationed(CleanSlate, d, n, now)
<1>1. Len(<< >>) = 0
  BY EmptySeq
<1> QED BY <1>1, Numbers DEF Rationed, CleanSlate

\* A cooldown that starts.
LEMMA RationedStarts ==
    ASSUME NEW now \in Nat \ {0}, NEW x, Fresh(x.opens, now), Fresh(x.late, now),
           NEW m \in Nat, m <= Spare, Len(x.opens) <= MAX_UNANSWERED_DIALOGS,
           Len(x.late) + m <= 2 * Spare
    PROVE  Rationed(CoolDown(now), x, m, now)
<1> DEFINE until == now + COOLDOWN_MS
<1>1. CoolDown(now).blockedUntil = until /\ until \in Nat /\ now < until
  BY Numbers DEF CoolDown, CleanSlate
<1>2. ASSUME NEW log, Fresh(log, now)  PROVE Lately(log, COOLDOWN_MS, until) = << >>
  <2>1. log \in Seq(Nat) /\ Ordered(log)
        /\ \A i \in 1 .. Len(log) : log[i] + COOLDOWN_MS <= until
    BY <1>2, FreshIs, Numbers
  <2> HIDE DEF until
  <2> QED BY <1>1, <2>1, LatelyNone, Numbers
<1>3. Len(<< >>) = 0
  BY EmptySeq
<1>4. Lately(x.opens, COOLDOWN_MS, until) = << >> /\ Lately(x.late, COOLDOWN_MS, until) = << >>
  BY <1>2
<1> HIDE DEF until
<1> QED BY <1>1, <1>3, <1>4, Numbers DEF Rationed

\* Time passes.
LEMMA RationedLater ==
    ASSUME NEW now \in Nat \ {0}, NEW e \in ThrottleEntry, NEW d, NEW n \in Nat,
           Rationed(e, d, n, now), NEW m \in Nat, m <= n, NEW x,
           x.opens = Lately(d.opens, COOLDOWN_MS, now + 1),
           x.late = Lately(d.late, COOLDOWN_MS, now + 1)
    PROVE  Rationed(e, x, m, now + 1)
<1>1. e.blockedUntil \in Nat /\ now + 1 \in Nat \ {0} /\ now <= now + 1
      /\ COOLDOWN_MS \in Nat
  BY Numbers DEF ThrottleEntry
<1>2. PICK later \in Nat \ {0}, b \in Nat :
         later = now + 1 /\ now <= later /\ b = e.blockedUntil
  BY <1>1
<1>3. /\ Fresh(d.opens, now) /\ Fresh(d.late, now)
      /\ d.opens \in Seq(Nat) /\ Ordered(d.opens) /\ Len(d.opens) \in Nat
      /\ d.late \in Seq(Nat) /\ Ordered(d.late) /\ Len(d.late) \in Nat
  BY FreshIs DEF Rationed
<1>4. /\ Fresh(x.opens, later) /\ Len(x.opens) <= Len(d.opens)
      /\ Fresh(x.late, later) /\ Len(x.late) <= Len(d.late)
  BY <1>2, <1>3, FreshLater
<1>5. Len(x.opens) \in Nat /\ Len(x.late) \in Nat
  BY <1>4, FreshIs
<1>6. CASE b = 0
  <2>1. /\ Len(d.opens) <= e.opened /\ e.opened < MAX_UNANSWERED_DIALOGS
        /\ Len(d.late) + n <= Spare
    BY <1>2, <1>6 DEF Rationed
  <2>2. e.opened \in Nat
    BY DEF ThrottleEntry
  <2>3. Len(x.opens) <= e.opened /\ Len(x.late) + m <= Spare
    BY <1>3, <1>4, <1>5, <2>1, <2>2, Numbers
  <2> QED BY <1>2, <1>4, <1>6, <2>1, <2>3 DEF Rationed
<1>7. CASE b # 0 /\ now >= b
  <2>1. d.opens = << >> /\ Len(d.late) + n <= Spare
    BY <1>2, <1>7 DEF Rationed
  <2>2. x.opens = << >>
    BY <1>2, <2>1, FreshNone
  <2>3. Len(x.late) + m <= Spare /\ ~(later < b)
    BY <1>2, <1>3, <1>4, <1>5, <1>7, <2>1, Numbers
  <2> QED BY <1>2, <1>4, <1>7, <2>2, <2>3 DEF Rationed
<1>8. CASE now < b
  <2>1. /\ Len(d.opens) <= MAX_UNANSWERED_DIALOGS
        /\ Lately(d.opens, COOLDOWN_MS, b) = << >>
        /\ Len(Lately(d.late, COOLDOWN_MS, b)) + n <= Spare
        /\ Len(d.late) + n <= 2 * Spare
    BY <1>2, <1>8 DEF Rationed
  <2>2. later <= b
    BY <1>2, <1>8
  <2>3. /\ Lately(x.opens, COOLDOWN_MS, b) = Lately(d.opens, COOLDOWN_MS, b)
        /\ Lately(x.late, COOLDOWN_MS, b) = Lately(d.late, COOLDOWN_MS, b)
    BY <1>1, <1>2, <1>3, <2>2, LatelyTwice
  <2>4. Len(Lately(d.late, COOLDOWN_MS, b)) \in Nat
    <3>1. Lately(d.late, COOLDOWN_MS, b) \in Seq(Nat)
      BY <1>3, LatelyType
    <3> QED BY <3>1, LenProperties
  <2>5. CASE later < b
    <3>1. Len(x.opens) <= MAX_UNANSWERED_DIALOGS
      BY <1>3, <1>4, <1>5, <2>1, Numbers
    <3>2. Len(x.late) + m <= 2 * Spare
      BY <1>3, <1>4, <1>5, <2>1, Numbers
    <3>3. Len(Lately(x.late, COOLDOWN_MS, b)) + m <= Spare
      BY <2>1, <2>3, <2>4, Numbers
    <3> QED BY <1>2, <1>4, <2>1, <2>3, <2>5, <3>1, <3>2, <3>3 DEF Rationed
  <2>6. CASE later = b
    <3>1. x.opens = << >> /\ x.late = Lately(d.late, COOLDOWN_MS, b)
      BY <1>2, <2>1, <2>6
    <3>2. Len(x.late) + m <= Spare
      BY <2>1, <2>4, <3>1, Numbers
    <3> QED BY <1>2, <1>4, <2>6, <3>1, <3>2 DEF Rationed
  <2> QED BY <2>2, <2>5, <2>6
<1> QED BY <1>2, <1>6, <1>7, <1>8

\* One dialog more on record, counted or late, or none: k requests less may
\* open a late one.
Another(e, d, x, k, now) ==
    \/ /\ x.opens = Append(d.opens, now) /\ x.late = d.late
       /\ k = 0 /\ e.blockedUntil = 0
    \/ x.opens = d.opens /\ x.late = Append(d.late, now) /\ k = 1
    \/ x.opens = d.opens /\ x.late = d.late /\ k = 0

\* The record stays fresh, and has as much more.
LEMMA AnotherIs ==
    ASSUME NEW now \in Nat \ {0}, NEW e, NEW d, Fresh(d.opens, now), Fresh(d.late, now),
           NEW x, NEW k, Another(e, d, x, k, now)
    PROVE  /\ Fresh(x.opens, now) /\ Fresh(x.late, now)
           /\ Len(d.opens) \in Nat /\ Len(d.late) \in Nat
           /\ Len(x.late) = Len(d.late) + k
           /\ \/ x.opens = d.opens
              \/ Len(x.opens) = Len(d.opens) + 1 /\ e.blockedUntil = 0
<1>1. PICK opens, late : opens = Append(d.opens, now) /\ late = Append(d.late, now)
  OBVIOUS
<1>2. /\ Len(d.opens) \in Nat /\ Len(d.late) \in Nat
      /\ Fresh(opens, now) /\ Fresh(late, now)
      /\ Len(opens) = Len(d.opens) + 1 /\ Len(late) = Len(d.late) + 1
  BY <1>1, FreshIs
<1>3. CASE x.opens = opens /\ x.late = d.late /\ k = 0 /\ e.blockedUntil = 0
  BY <1>2, <1>3
<1>4. CASE x.opens = d.opens /\ x.late = late /\ k = 1
  BY <1>2, <1>4
<1>5. CASE x.opens = d.opens /\ x.late = d.late /\ k = 0
  BY <1>2, <1>5
<1> QED BY <1>1, <1>3, <1>4, <1>5, Zenon DEF Another

\* A step that starts a cooldown: during another, every request past the check
\* is stale already.
LEMMA RationedEnds ==
    ASSUME NEW now \in Nat \ {0}, NEW e \in ThrottleEntry, NEW d, NEW n \in Nat,
           Rationed(e, d, n, now), NEW x, NEW k \in {0, 1}, k <= n, Another(e, d, x, k, now),
           NEW m \in Nat, m <= Spare, e.blockedUntil # 0 => m + k <= n
    PROVE  Rationed(CoolDown(now), x, m, now)
<1>1. Fresh(d.opens, now) /\ Fresh(d.late, now)
  BY DEF Rationed
<1>2. /\ Fresh(x.opens, now) /\ Fresh(x.late, now)
      /\ Len(d.opens) \in Nat /\ Len(d.late) \in Nat
      /\ Len(x.late) = Len(d.late) + k
      /\ \/ x.opens = d.opens
         \/ Len(x.opens) = Len(d.opens) + 1 /\ e.blockedUntil = 0
  BY <1>1, AnotherIs
<1>3. /\ Len(d.opens) <= MAX_UNANSWERED_DIALOGS /\ Len(d.late) + n <= 2 * Spare
      /\ e.blockedUntil <= now => Len(d.late) + n <= Spare
  BY RationedIs
<1>4. Len(x.opens) <= MAX_UNANSWERED_DIALOGS
  <2>1. CASE x.opens = d.opens
    BY <1>3, <2>1
  <2>2. CASE Len(x.opens) = Len(d.opens) + 1 /\ e.blockedUntil = 0
    <3>1. Len(d.opens) <= e.opened /\ e.opened < MAX_UNANSWERED_DIALOGS /\ e.opened \in Nat
      BY <2>2 DEF Rationed, ThrottleEntry
    <3> QED BY <1>2, <2>2, <3>1, Numbers
  <2> QED BY <1>2, <2>1, <2>2
<1>5. Len(x.late) + m <= 2 * Spare
  <2>1. CASE e.blockedUntil = 0
    BY <1>1, <1>2, <1>3, <2>1, Numbers
  <2>2. CASE e.blockedUntil # 0
    BY <1>1, <1>2, <1>3, <2>2, Numbers
  <2> QED BY <2>1, <2>2
<1> QED BY <1>2, <1>4, <1>5, RationedStarts

\* A step that counts a dialog or a rejection, and starts no cooldown.
LEMMA RationedCounts ==
    ASSUME NEW now \in Nat \ {0}, NEW e \in ThrottleEntry, NEW d, NEW n \in Nat,
           Rationed(e, d, n, now), NEW x, NEW k \in {0, 1}, Another(e, d, x, k, now),
           NEW m \in Nat, m + k <= n, NEW f \in ThrottleEntry,
           f.blockedUntil = e.blockedUntil,
           f.opened = e.opened + 1 \/ (f.opened = e.opened /\ x.opens = d.opens),
           e.blockedUntil = 0 => f.opened < MAX_UNANSWERED_DIALOGS
    PROVE  Rationed(f, x, m, now)
<1>1. Fresh(d.opens, now) /\ Fresh(d.late, now) /\ LogOK(d.late, now) /\ d.late \in Seq(Nat)
  BY FreshIs DEF Rationed, Fresh
<1>2. /\ Fresh(x.opens, now) /\ Fresh(x.late, now)
      /\ Len(d.opens) \in Nat /\ Len(d.late) \in Nat
      /\ Len(x.late) = Len(d.late) + k
      /\ \/ x.opens = d.opens
         \/ Len(x.opens) = Len(d.opens) + 1 /\ e.blockedUntil = 0
  BY <1>1, AnotherIs
<1>3. PICK b \in Nat : b = e.blockedUntil /\ b = f.blockedUntil
  BY DEF ThrottleEntry
<1>4. e.opened \in Nat /\ f.opened \in Nat
  BY DEF ThrottleEntry
<1>5. CASE b = 0
  <2>1. Len(d.opens) <= e.opened /\ Len(d.late) + n <= Spare
    BY <1>3, <1>5 DEF Rationed
  <2>2. Len(x.opens) <= f.opened
    <3>1. CASE x.opens = d.opens
      BY <1>2, <1>4, <2>1, <3>1
    <3>2. CASE Len(x.opens) = Len(d.opens) + 1 /\ x.opens # d.opens
      BY <1>2, <1>4, <2>1, <3>2
    <3> QED BY <1>2, <3>1, <3>2
  <2>3. Len(x.late) + m <= Spare
    BY <1>2, <2>1, Numbers
  <2> QED BY <1>2, <1>3, <1>5, <2>2, <2>3 DEF Rationed
<1>6. CASE b # 0
  <2>1. x.opens = d.opens
    BY <1>2, <1>3, <1>6
  <2>2. CASE now >= b
    <3>1. d.opens = << >> /\ Len(d.late) + n <= Spare
      BY <1>3, <1>6, <2>2 DEF Rationed
    <3>2. Len(x.late) + m <= Spare /\ ~(now < b)
      BY <1>1, <1>2, <2>2, <3>1, Numbers
    <3> QED BY <1>2, <1>3, <1>6, <2>1, <3>1, <3>2 DEF Rationed
  <2>3. CASE now < b
    <3>1. /\ Len(d.opens) <= MAX_UNANSWERED_DIALOGS
          /\ Lately(d.opens, COOLDOWN_MS, b) = << >>
          /\ Len(Lately(d.late, COOLDOWN_MS, b)) + n <= Spare
          /\ Len(d.late) + n <= 2 * Spare
      BY <1>3, <2>3 DEF Rationed
    <3>2. Len(Lately(d.late, COOLDOWN_MS, b)) \in Nat
      <4>1. Lately(d.late, COOLDOWN_MS, b) \in Seq(Nat)
        BY <1>1, LatelyType
      <4> QED BY <4>1, LenProperties
    <3>3. /\ Len(Lately(x.late, COOLDOWN_MS, b)) \in Nat
          /\ Len(Lately(x.late, COOLDOWN_MS, b)) <= Len(Lately(d.late, COOLDOWN_MS, b)) + k
      <4>1. x.late \in Seq(Nat)
        BY <1>2, FreshIs
      <4>2. Lately(x.late, COOLDOWN_MS, b) \in Seq(Nat)
        BY <4>1, LatelyType
      <4>3. CASE x.late = d.late /\ k = 0
        BY <3>2, <4>3
      <4>4. CASE x.late = Append(d.late, now) /\ k = 1
        <5>1. Len(Lately(Append(d.late, now), COOLDOWN_MS, b))
                 <= Len(Lately(d.late, COOLDOWN_MS, b)) + 1
          BY <1>1, LatelyAppend, Numbers
        <5> QED BY <4>2, <4>4, <5>1, LenProperties
      <4> QED BY <4>3, <4>4 DEF Another
    <3>4. Len(Lately(x.late, COOLDOWN_MS, b)) + m <= Spare
      BY <3>1, <3>2, <3>3, Numbers
    <3>5. Len(x.late) + m <= 2 * Spare
      BY <1>2, <3>1, Numbers
    <3> QED BY <1>2, <1>3, <1>6, <2>1, <2>3, <3>1, <3>4, <3>5 DEF Rationed
  <2> QED BY <1>3, <2>2, <2>3
<1> QED BY <1>5, <1>6

\* A stale request is past the check; one that asks for the grant waits; and
\* every request past the check of a site that was put on a cooldown is stale,
\* until the site's slate is clean.
MarksInv ==
    /\ \A c \in stale : c \in Calls /\ MayOpen(c)
    /\ \A c \in Calls : MayOpen(c) =>
          /\ call[c].at = "asking" => c \in waited
          /\ EntryOf(call[c].origin).blockedUntil # 0 => c \in stale

\* The check that lets a request pass leaves its site's slate clean of cooldowns.
LEMMA PassedCheck ==
    ASSUME EntriesOK, NEW o \in Origins, NEW now \in Nat, DialogChecked(o, now),
           ~Blocked(o, now)
    PROVE  EntryOf(o)'.blockedUntil = 0
<1>1. EntryOf(o).blockedUntil \in Nat
  BY EntryType DEF ThrottleEntry
<1>2. CASE EntryOf(o).blockedUntil = 0
  <2>1. entries' = entries
    BY <1>2 DEF DialogChecked
  <2> QED BY <1>2, <2>1 DEF EntryOf
<1>3. CASE EntryOf(o).blockedUntil # 0
  <2>1. now >= EntryOf(o).blockedUntil
    BY <1>1 DEF Blocked
  <2>2. entries' = Delete(entries, o)
    BY <1>3, <2>1 DEF DialogChecked
  <2>3. EntryOf(o)' = CleanSlate
    BY <2>2, EntryCleared
  <2> QED BY <2>3 DEF CleanSlate
<1> QED BY <1>2, <1>3

\* What routing a request makes of it.
LEMMA RouteCalls ==
    ASSUME SlotInv, NEW c \in Calls, NEW o \in Origins, NEW m \in Methods, Route(c, o, m),
           NEW d \in Calls
    PROVE  \/ call'[d] = call[d]
           \/ call'[d].at = "idle"
           \/ /\ call'[d].origin = o /\ call'[d].method = m
              /\ m \in DIALOG_METHODS => DialogChecked(o, clock) /\ ~Blocked(o, clock)
<1> DEFINE q == [NoCall EXCEPT !.origin = o, !.method = m]
<1>1. q.origin = o /\ q.method = m /\ q \in CallRecords
  BY DEF NoCall, CallRecords
<1>2. \/ call' = [call EXCEPT ![c] = NoCall]
      \/ /\ \/ call' = [call EXCEPT ![c] = [q EXCEPT !.at = "asking"]]
            \/ call' = [call EXCEPT ![c] = [q EXCEPT !.at = "executing", !.reserved = FALSE]]
         /\ m \in DIALOG_METHODS => DialogChecked(o, clock) /\ ~Blocked(o, clock)
  BY Zenon DEF Route, Answer, EnterBudget, Admit, MovesTo
<1>3. call \in [Calls -> CallRecords]
  BY DEF SlotInv
<1>4. NoCall.at = "idle"
  BY DEF NoCall
<1>5. CASE d # c
  BY <1>2, <1>3, <1>5
<1>6. CASE d = c
  <2>1. CASE call' = [call EXCEPT ![c] = NoCall]
    BY <1>3, <1>4, <1>6, <2>1
  <2>2. CASE /\ \/ call' = [call EXCEPT ![c] = [q EXCEPT !.at = "asking"]]
                \/ call' = [call EXCEPT ![c] = [q EXCEPT !.at = "executing",
                                                         !.reserved = FALSE]]
             /\ m \in DIALOG_METHODS => DialogChecked(o, clock) /\ ~Blocked(o, clock)
    <3>1. call'[d] \in {[q EXCEPT !.at = "asking"],
                         [q EXCEPT !.at = "executing", !.reserved = FALSE]}
      <4> HIDE DEF q
      <4> QED BY <1>3, <1>6, <2>2
    <3>2. call'[d].origin = o /\ call'[d].method = m
      <4> HIDE DEF q
      <4> QED BY <1>1, <3>1 DEF CallRecords
    <3> QED BY <2>2, <3>2
  <2> QED BY <1>2, <2>1, <2>2
<1> QED BY <1>5, <1>6

\* What a later step makes of a request that was past the check, or was not.
LEMMA StepCalls ==
    ASSUME SlotInv, NEW c \in Calls, CallStep(c), NEW d \in Calls
    PROVE  \/ call'[d] = call[d]
           \/ call'[d].at \in {"idle", "dialog", "approved"}
           \/ /\ call'[d].origin = call[d].origin /\ call'[d].method = call[d].method
              /\ call[d].at \in {"asking", "executing"}
<1>1. call \in [Calls -> CallRecords] /\ NoCall.at = "idle"
  BY DEF SlotInv, NoCall
<1>2. CASE call' = call
  BY <1>2
<1>3. CASE call' = [call EXCEPT ![c] = NoCall]
  BY <1>1, <1>3
<1>4. ASSUME NEW at, call' = [call EXCEPT ![c] = [call[c] EXCEPT !.at = at]],
             at \in {"dialog", "approved"} \/ call[c].at \in {"asking", "executing"}
      PROVE  \/ call'[d] = call[d]
             \/ call'[d].at \in {"idle", "dialog", "approved"}
             \/ /\ call'[d].origin = call[d].origin /\ call'[d].method = call[d].method
                /\ call[d].at \in {"asking", "executing"}
  BY <1>1, <1>4 DEF CallRecords
<1>5. ASSUME NEW q, q.origin = call[c].origin, q.method = call[c].method,
             call[c].at \in {"asking", "executing"}, call' = [call EXCEPT ![c] = q]
      PROVE  \/ call'[d] = call[d]
             \/ /\ call'[d].origin = call[d].origin /\ call'[d].method = call[d].method
                /\ call[d].at \in {"asking", "executing"}
  BY <1>1, <1>5
<1>6. CASE GrantRead(c)
  <2>1. call[c].at \in {"asking", "executing"}
    BY <1>6 DEF GrantRead
  <2> DEFINE connected == call[c].origin \in granted
             q == [call[c] EXCEPT !.at = "executing", !.reserved = connected]
  <2>2. \/ call' = [call EXCEPT ![c] = NoCall]
        \/ call' = [call EXCEPT ![c] = q]
    BY <1>6, Zenon DEF GrantRead, Admit, Answer, MovesTo
  <2>3. q.origin = call[c].origin /\ q.method = call[c].method
    <3> HIDE DEF connected
    <3> QED BY <1>1 DEF CallRecords
  <2> HIDE DEF q
  <2> QED BY <1>3, <1>5, <2>1, <2>2, <2>3
<1>7. CASE ReadConnected(c)
  <2>1. call[c].at \in {"asking", "executing"}
    BY <1>7 DEF ReadConnected, Handling
  <2> DEFINE connected == call[c].origin \in granted
             q == [call[c] EXCEPT !.at = "reviewing", !.connected = connected]
  <2>2. call' = [call EXCEPT ![c] = q]
    BY <1>7, Zenon DEF ReadConnected, MovesTo
  <2>3. q.origin = call[c].origin /\ q.method = call[c].method
    <3> HIDE DEF connected
    <3> QED BY <1>1 DEF CallRecords
  <2> HIDE DEF q
  <2> QED BY <1>5, <2>1, <2>2, <2>3
<1>8. CASE ReadTokens(c)
  <2>1. call[c].at \in {"asking", "executing"}
    BY <1>8 DEF ReadTokens, Handling
  <2>2. \/ call' = [call EXCEPT ![c] = NoCall]
        \/ call' = [call EXCEPT ![c] = [call[c] EXCEPT !.at = "read"]]
    BY <1>8, Zenon DEF ReadTokens, Answer, MovesTo
  <2> QED BY <1>3, <1>4, <2>1, <2>2
<1>9. CASE LookUp(c)
  BY <1>2, <1>9 DEF LookUp
<1>10. CASE OpenDialog(c)
  <2>1. call' = [call EXCEPT ![c] = [call[c] EXCEPT !.at = "dialog"]]
    BY <1>10, Zenon DEF OpenDialog, MovesTo
  <2> QED BY <1>4, <2>1
<1>11. CASE Approve(c)
  <2>1. call' = [call EXCEPT ![c] = [call[c] EXCEPT !.at = "approved"]]
    BY <1>11, Zenon DEF Approve, MovesTo
  <2> QED BY <1>4, <2>1
<1>12. CASE Reject(c) \/ Finish(c)
  BY <1>3, <1>12 DEF Reject, Finish, Answer
<1> QED BY <1>6, <1>7, <1>8, <1>9, <1>10, <1>11, <1>12 DEF CallStep

\* A request past the check was there before, or its site's slate is clean of
\* cooldowns.
LEMMA OpenBefore ==
    ASSUME GateInv, [Next]_vars, NEW c \in Calls, MayOpen(c)'
    PROVE  \/ MayOpen(c) /\ call'[c].origin = call[c].origin
           \/ EntryOf(call[c].origin)'.blockedUntil = 0
<1>1. SlotInv /\ EntriesOK /\ clock \in Nat
  BY DEF GateInv, Times
<1>2. /\ call'[c].method \in DIALOG_METHODS
      /\ call'[c].at \in {"asking", "executing", "reviewing", "read"}
  BY DEF MayOpen
<1>3. CASE call'[c] = call[c]
  BY <1>2, <1>3 DEF MayOpen
<1>4. CASE \E d \in Calls, o \in Origins, m \in Methods : Route(d, o, m)
  <2>1. PICK d \in Calls, o \in Origins, m \in Methods : Route(d, o, m)
    BY <1>4
  <2>2. CASE /\ call'[c].origin = o /\ call'[c].method = m
             /\ m \in DIALOG_METHODS => DialogChecked(o, clock) /\ ~Blocked(o, clock)
    <3>1. EntryOf(o)'.blockedUntil = 0
      BY <1>1, <1>2, <2>2, PassedCheck
    <3> QED BY <2>2, <3>1 DEF EntryOf
  <2> QED BY <1>1, <1>2, <1>3, <2>1, <2>2, RouteCalls
<1>5. CASE \E d \in Calls : CallStep(d)
  <2>1. CASE /\ call'[c].origin = call[c].origin /\ call'[c].method = call[c].method
             /\ call[c].at \in {"asking", "executing"}
    BY <1>2, <2>1 DEF MayOpen
  <2> QED BY <1>1, <1>2, <1>3, <1>5, <2>1, StepCalls
<1>6. CASE Tick \/ ChangeGrants \/ UNCHANGED vars
  BY <1>3, <1>6 DEF Tick, ChangeGrants, vars
<1>7. CASE Terminate
  BY <1>2, <1>7 DEF Terminate, NoCall
<1> QED BY <1>4, <1>5, <1>6, <1>7 DEF Next

\* A request in the gates keeps its site.
LEMMA OpenStays ==
    ASSUME SlotInv, [Next]_vars, NEW c \in Calls, call[c].at # "idle", MayOpen(c)'
    PROVE  call'[c].origin = call[c].origin
<1>1. call'[c].at \in {"asking", "executing", "reviewing", "read"}
  BY DEF MayOpen
<1>2. CASE \E d \in Calls, o \in Origins, m \in Methods : Route(d, o, m)
  <2>1. PICK d \in Calls, o \in Origins, m \in Methods : Route(d, o, m)
    BY <1>2
  <2>2. c # d
    BY <2>1 DEF Route
  <2>3. \/ call' = [call EXCEPT ![d] = NoCall]
        \/ \E q : call' = [call EXCEPT ![d] = q]
    BY <2>1, Zenon DEF Route, Answer, EnterBudget, Admit, MovesTo
  <2> QED BY <2>2, <2>3 DEF SlotInv
<1>3. CASE \E d \in Calls : CallStep(d)
  BY <1>1, <1>3, StepCalls
<1>4. CASE Tick \/ ChangeGrants \/ UNCHANGED vars
  BY <1>4 DEF Tick, ChangeGrants, vars
<1>5. CASE Terminate
  BY <1>1, <1>5 DEF Terminate, NoCall
<1> QED BY <1>2, <1>3, <1>4, <1>5 DEF Next

\* The marks stay as they should in a step that gives no site a cooldown but
\* one from now on.
LEMMA MarksKept ==
    ASSUME GateInv, MarksInv, [Next]_vars, Marked,
           \A p \in Origins :
              \/ EntryOf(p)'.blockedUntil \in {0, EntryOf(p).blockedUntil}
              \/ Blocked(p, clock)'
    PROVE  MarksInv'
<1>1. \A c \in stale' : c \in Calls /\ MayOpen(c)'
  BY DEF Marked
<1>2. ASSUME NEW c \in Calls, MayOpen(c)', call'[c].at = "asking"  PROVE c \in waited'
  BY <1>2 DEF Marked
<1>3. ASSUME NEW c \in Calls, MayOpen(c)', EntryOf(call[c].origin)'.blockedUntil # 0
      PROVE  c \in stale'
  <2>1. MayOpen(c) /\ call'[c].origin = call[c].origin
    BY <1>3, OpenBefore
  <2>2. PICK p \in Origins : p = call[c].origin
    BY <2>1 DEF GateInv, SlotInv, MayOpen
  <2>3. EntryOf(p)'.blockedUntil # 0
    BY <1>3, <2>1, <2>2 DEF EntryOf
  <2>4. CASE EntryOf(p)'.blockedUntil = EntryOf(p).blockedUntil
    <3>1. EntryOf(call[c].origin).blockedUntil # 0
      BY <2>2, <2>3, <2>4
    <3>2. c \in stale
      BY <2>1, <3>1 DEF MarksInv
    <3> QED BY <1>3, <3>2 DEF Marked
  <2>5. CASE Blocked(p, clock)'
    <3>1. Blocked(call[c].origin, clock)'
      BY <2>1, <2>2, <2>5 DEF Blocked, EntryOf
    <3> QED BY <1>3, <3>1 DEF Marked
  <2> QED BY <2>3, <2>4, <2>5
<1> QED BY <1>1, <1>2, <1>3 DEF MarksInv

\* A finite number of requests may open late dialogs.
LEMMA LateFinite ==
    ASSUME MarksInv, NEW o
    PROVE  IsFiniteSet(LateCalls(o)) /\ Cardinality(LateCalls(o)) \in Nat
<1>1. LateCalls(o) \subseteq Calls
  BY DEF MarksInv, LateCalls
<1> QED BY <1>1, FiniteCalls

\* No request starts to be late but in the step that starts a cooldown.
LEMMA LateKept ==
    ASSUME GateInv, MarksInv, [Next]_vars, Marked, NEW o \in Origins,
           EntryOf(o)'.blockedUntil \in {0, EntryOf(o).blockedUntil}
              \/ EntryOf(o).blockedUntil # 0,
           clock' \in Nat
    PROVE  LateCalls(o)' \subseteq LateCalls(o)
<1> SUFFICES ASSUME NEW c \in LateCalls(o)'  PROVE c \in LateCalls(o)
  OBVIOUS
<1>1. /\ c \in Calls /\ MayOpen(c)' /\ c \notin waited' /\ call'[c].origin = o
      /\ c \in stale \/ Blocked(call[c].origin, clock)'
  BY DEF LateCalls, Marked
<1>2. c \notin waited
  BY <1>1 DEF Marked
<1>3. CASE c \in stale
  <2>1. MayOpen(c)
    BY <1>3 DEF MarksInv
  <2>2. call'[c].origin = call[c].origin
    <3>1. call[c].at # "idle"
      BY <2>1 DEF MayOpen
    <3> QED BY <1>1, <2>1, <3>1, OpenStays DEF GateInv
  <2> QED BY <1>1, <1>2, <1>3, <2>2 DEF LateCalls
<1>4. CASE Blocked(call[c].origin, clock)'
  <2>1. clock' < EntryOf(o)'.blockedUntil
    BY <1>1, <1>4 DEF Blocked, EntryOf
  <2>2. EntryOf(o)'.blockedUntil # 0
    BY <2>1
  <2>3. MayOpen(c) /\ call[c].origin = o
    <3>1. EntryOf(call[c].origin)'.blockedUntil # 0
      BY <1>1, <2>2 DEF EntryOf
    <3> QED BY <1>1, <3>1, OpenBefore
  <2>4. EntryOf(o).blockedUntil # 0
    BY <2>2
  <2>5. c \in stale
    BY <1>1, <2>3, <2>4 DEF MarksInv
  <2> QED BY <1>2, <2>3, <2>5 DEF LateCalls
<1> QED BY <1>1, <1>3, <1>4

\* When a site's dialog opens or is rejected, no more of its requests may open
\* late ones than may be in flight beside that one.
LEMMA LateBeside ==
    ASSUME GateInv, MarksInv', Marked, NEW c \in Calls, OpenDialog(c) \/ Reject(c),
           NEW o, o = call[c].origin
    PROVE  Cardinality(LateCalls(o)') <= Spare
<1>1. SlotInv /\ call \in [Calls -> CallRecords] /\ o \in Origins
  BY DEF GateInv, SlotInv, OpenDialog, Reject, Reviews
<1>2. c \in Of(o)
  <2>1. call[c].at \notin {"idle", "asking"}
    <3>1. CASE Reject(c)
      BY <3>1 DEF Reject
    <3>2. CASE OpenDialog(c)
      BY <3>2 DEF OpenDialog
    <3> QED BY <3>1, <3>2
  <2> QED BY <2>1 DEF Of, Executing
<1>3. PICK q : call' = [call EXCEPT ![c] = q] /\ q.at \in {"idle", "dialog"}
  <2>1. CASE Reject(c)
    <3>1. call' = [call EXCEPT ![c] = NoCall]
      BY <2>1 DEF Reject, Answer
    <3>2. NoCall.at = "idle"
      BY DEF NoCall
    <3> QED BY <3>1, <3>2
  <2>2. CASE OpenDialog(c)
    <3>1. call' = [call EXCEPT ![c] = [call[c] EXCEPT !.at = "dialog"]]
      BY <2>2, Zenon DEF OpenDialog, MovesTo
    <3>2. [call[c] EXCEPT !.at = "dialog"].at = "dialog"
      BY <1>1 DEF CallRecords
    <3> QED BY <3>1, <3>2
  <2> QED BY <2>1, <2>2
<1>4. LateCalls(o)' \subseteq Of(o) \ {c}
  <2> SUFFICES ASSUME NEW d \in LateCalls(o)'  PROVE d \in Of(o) /\ d # c
    OBVIOUS
  <2>1. d \in Calls /\ MayOpen(d)' /\ d \notin waited' /\ call'[d].origin = o
    BY DEF LateCalls, Marked
  <2>2. call'[d].at \in {"executing", "reviewing", "read"}
    BY <2>1 DEF MayOpen, Marked
  <2>3. d # c
    BY <1>1, <1>3, <2>2
  <2>4. call'[d] = call[d]
    BY <1>1, <1>3, <2>1, <2>3
  <2> QED BY <2>1, <2>2, <2>3, <2>4 DEF Of, Executing
<1>5. Of(o) \subseteq Calls
  BY DEF Of, Executing
<1>6. IsFiniteSet(Of(o)) /\ Cardinality(Of(o)) \in Nat
  BY <1>5, FiniteCalls
<1>7. Cardinality(Of(o) \ {c}) = Cardinality(Of(o)) - 1 /\ IsFiniteSet(Of(o) \ {c})
  BY <1>2, <1>6, FS_RemoveElement
<1>8. Cardinality(LateCalls(o)') <= Cardinality(Of(o) \ {c})
  BY <1>4, <1>7, FS_Subset
<1>9. Cardinality(Of(o)) <= MAX_INFLIGHT_PER_ORIGIN
  BY <1>1 DEF SlotInv, CeilingsHeld
<1>10. Cardinality(LateCalls(o)') \in Nat
  <2>1. LateCalls(o)' \subseteq Calls
    BY <1>4, <1>5
  <2> QED BY <2>1, FiniteCalls
<1> QED BY <1>6, <1>7, <1>8, <1>9, <1>10, Numbers DEF Spare

\* The late request that opens its dialog is late no more.
LEMMA LateOpened ==
    ASSUME GateInv, MarksInv, Marked, NEW c \in Calls, OpenDialog(c),
           NEW o, o = call[c].origin, LateCalls(o)' \subseteq LateCalls(o)
    PROVE  Cardinality(LateCalls(o)') + (IF c \in LateCalls(o) THEN 1 ELSE 0)
              <= Cardinality(LateCalls(o))
<1>1. IsFiniteSet(LateCalls(o)) /\ Cardinality(LateCalls(o)) \in Nat
  BY LateFinite
<1>2. c \notin LateCalls(o)'
  <2>1. call' = [call EXCEPT ![c] = [call[c] EXCEPT !.at = "dialog"]]
    BY Zenon DEF OpenDialog, MovesTo
  <2>2. call'[c].at = "dialog"
    BY <2>1 DEF GateInv, SlotInv, CallRecords
  <2> QED BY <2>2 DEF LateCalls, Marked, MayOpen
<1>3. CASE c \in LateCalls(o)
  <2>1. /\ IsFiniteSet(LateCalls(o) \ {c})
        /\ Cardinality(LateCalls(o) \ {c}) = Cardinality(LateCalls(o)) - 1
    BY <1>1, <1>3, FS_RemoveElement
  <2>2. LateCalls(o)' \subseteq LateCalls(o) \ {c}
    BY <1>2
  <2>3. Cardinality(LateCalls(o)') <= Cardinality(LateCalls(o) \ {c})
        /\ IsFiniteSet(LateCalls(o)')
    BY <2>1, <2>2, FS_Subset
  <2>4. Cardinality(LateCalls(o)') \in Nat
    BY <2>3, FS_CardinalityType
  <2> QED BY <1>1, <1>3, <2>1, <2>3, <2>4
<1>4. CASE c \notin LateCalls(o)
  <2>1. Cardinality(LateCalls(o)') <= Cardinality(LateCalls(o)) /\ IsFiniteSet(LateCalls(o)')
    BY <1>1, FS_Subset
  <2>2. Cardinality(LateCalls(o)') \in Nat
    BY <2>1, FS_CardinalityType
  <2> QED BY <1>1, <1>4, <2>1, <2>2
<1> QED BY <1>3, <1>4

\* Site o in the throttle's map, with the record d of its dialogs and n requests
\* that may open late ones: while there are dialogs on record, so are the sites
\* active after it.
SiteOK(map, d, n, now, o) ==
    /\ d \in Records /\ IsFiniteSet(d.others)
    /\ Rationed(Lookup(map, o, CleanSlate), d, n, now)
    /\ d.opens # << >> \/ d.late # << >> => Behind(map, o, d.others)

DialogInv ==
    /\ MarksInv /\ dialogs = [o \in Watched |-> dialogs[o]]
    /\ \A o \in Watched :
          SiteOK(entries, dialogs[o], Cardinality(LateCalls(o)), clock, o)

\* The record of another site, once site o was active.
Aside(d, o) ==
    IF d.opens = << >> /\ d.late = << >> THEN [d EXCEPT !.others = {}]
    ELSE IF Cardinality(d.others \cup {o}) < MAX_TRACKED_ORIGINS
    THEN [d EXCEPT !.others = d.others \cup {o}]
    ELSE NoDialogs

\* The map of the throttle once site o was set.
Placed(map, o, e) ==
    Touch(IF HasKey(map, o) THEN map ELSE EvictIfFull(map, MAX_TRACKED_ORIGINS), o, e)

\* Setting an entry touches it in a map with room.
LEMMA SetPlaces ==
    ASSUME EntriesOK, NEW o \in Origins, NEW e \in ThrottleEntry, SetEntry(o, e)
    PROVE  entries' = Placed(entries, o, e)
<1>1. CASE HasKey(entries, o)
  BY <1>1 DEF SetEntry, Placed
<1>2. CASE ~HasKey(entries, o)
  <2> DEFINE room == EvictIfFull(entries, MAX_TRACKED_ORIGINS)
  <2>1. MAX_TRACKED_ORIGINS \in Nat \ {0}
    BY ThrottleAssumption
  <2>2. ~HasKey(room, o)
    BY <1>2, <2>1, EvictMap DEF EntriesOK
  <2>3. Delete(room, o) = room
    BY <2>2 DEF Delete
  <2>4. Touch(room, o, e) = Insert(room, o, e)
    BY <2>3 DEF Touch
  <2> QED BY <1>2, <2>4 DEF SetEntry, Placed
<1> QED BY <1>1, <1>2

\* Another site keeps its entry and the sites active after it, or it is evicted
\* once as many were as the map may hold, and its record starts over.
LEMMA PlacedAside ==
    ASSUME NEW map, MapOK(map, Origins, ThrottleEntry), NEW o \in Origins,
           NEW e \in ThrottleEntry, NEW p \in Watched, p # o, NEW now \in Nat \ {0},
           NEW d, NEW n \in Nat, SiteOK(map, d, n, now, p), NEW m \in Nat, m <= n
    PROVE  SiteOK(Placed(map, o, e), Aside(d, o), m, now, p)
<1> DEFINE room == IF HasKey(map, o) THEN map ELSE EvictIfFull(map, MAX_TRACKED_ORIGINS)
           new == Placed(map, o, e)
           x == Aside(d, o)
           entry == Lookup(map, p, CleanSlate)
<1>1. MAX_TRACKED_ORIGINS \in Nat \ {0} /\ CleanSlate \in ThrottleEntry
  BY ThrottleAssumption DEF CleanSlate, ThrottleEntry
<1>2. new = Touch(room, o, e)
  BY DEF Placed
<1>3. MapOK(room, Origins, ThrottleEntry) /\ Within(room, map)
  <2>1. CASE HasKey(map, o)
    BY <2>1 DEF Within
  <2>2. CASE ~HasKey(map, o)
    BY <1>1, <2>2, EvictMap
  <2> QED BY <2>1, <2>2
<1>4. d \in Records /\ IsFiniteSet(d.others) /\ Rationed(entry, d, n, now)
      /\ entry \in ThrottleEntry
      /\ (d.opens # << >> \/ d.late # << >> => Behind(map, p, d.others))
  BY <1>1, LookupType DEF SiteOK
<1> HIDE DEF room, new
<1>5. Lookup(new, p, CleanSlate) = Lookup(room, p, CleanSlate)
  BY <1>2, <1>3, TouchValue
<1>6. Lookup(room, p, CleanSlate) \in {entry, CleanSlate}
  BY <1>3, WithinLookup
<1> HIDE DEF entry
<1>7. CASE x.opens = << >> /\ x.late = << >> /\ x.others = {} /\ x \in Records
  <2>1. Rationed(Lookup(new, p, CleanSlate), x, m, now)
    <3> HIDE DEF x
    <3> QED BY <1>4, <1>5, <1>6, <1>7, RationedNone
  <2>2. IsFiniteSet(x.others)
    <3> HIDE DEF x
    <3> QED BY <1>7, FS_EmptySet
  <2> HIDE DEF x
  <2>3. SiteOK(new, x, m, now, p)
    BY <1>7, <2>1, <2>2 DEF SiteOK
  <2> QED BY <2>3 DEF x, new
<1>8. CASE /\ d.opens # << >> \/ d.late # << >>
           /\ Cardinality(d.others \cup {o}) < MAX_TRACKED_ORIGINS
           /\ x = [d EXCEPT !.others = d.others \cup {o}]
  <2>1. x.opens = d.opens /\ x.late = d.late /\ x.others = d.others \cup {o} /\ x \in Records
    BY <1>4, <1>8 DEF Records
  <2> HIDE DEF x
  <2>2. IsFiniteSet(x.others) /\ Cardinality(x.others) \in Nat
    BY <1>4, <2>1, FS_AddElement, FS_CardinalityType
  <2>3. Behind(map, p, d.others)
    BY <1>4, <1>8
  <2>4. Behind(new, p, x.others)
    <3>1. Behind(room, p, d.others)
      BY <1>3, <2>3, BehindWithin
    <3> QED BY <1>2, <1>3, <2>1, <3>1, BehindTouch
  <2>5. Lookup(room, p, CleanSlate) = entry
    <3>1. CASE HasKey(room, p) \/ ~HasKey(map, p)
      <4>1. CASE HasKey(room, p)
        BY <1>3, <4>1, WithinFound DEF MapOK, entry
      <4>2. CASE ~HasKey(room, p) /\ ~HasKey(map, p)
        BY <4>2 DEF Lookup, entry
      <4> QED BY <3>1, <4>1, <4>2
    <3>2. CASE ~HasKey(room, p) /\ HasKey(map, p)
      <4>1. ~HasKey(map, o) /\ room = EvictIfFull(map, MAX_TRACKED_ORIGINS)
        BY <3>2 DEF room
      <4>2. Len(map) >= MAX_TRACKED_ORIGINS /\ p = Head(map).key /\ Head(map) = map[1]
        BY <1>1, <3>2, <4>1, EvictMap
      <4>3. Cardinality(d.others \cup {o}) >= MAX_TRACKED_ORIGINS
        BY <1>1, <1>4, <2>3, <4>1, <4>2, EvictedBehind
      <4> QED BY <1>1, <1>8, <2>1, <2>2, <4>3
    <3> QED BY <3>1, <3>2
  <2>6. Rationed(entry, x, m, now)
    BY <1>4, <2>1, RationedFewer
  <2>7. SiteOK(new, x, m, now, p)
    BY <1>5, <2>1, <2>2, <2>4, <2>5, <2>6 DEF SiteOK
  <2> QED BY <2>7 DEF x, new
<1>9. CASE d.opens = << >> /\ d.late = << >>
  <2>1. x = [d EXCEPT !.others = {}]
    BY <1>9 DEF Aside
  <2>2. x.opens = << >> /\ x.late = << >> /\ x.others = {} /\ x \in Records
    BY <1>4, <1>9, <2>1 DEF Records
  <2> QED BY <1>7, <2>2
<1>10. CASE /\ d.opens # << >> \/ d.late # << >>
            /\ ~(Cardinality(d.others \cup {o}) < MAX_TRACKED_ORIGINS)
  <2>1. x = NoDialogs
    BY <1>10 DEF Aside
  <2>2. x.opens = << >> /\ x.late = << >> /\ x.others = {} /\ x \in Records
    BY <2>1, EmptySeq DEF NoDialogs, Records
  <2> QED BY <1>7, <2>2
<1>11. CASE /\ d.opens # << >> \/ d.late # << >>
            /\ Cardinality(d.others \cup {o}) < MAX_TRACKED_ORIGINS
  <2>1. x = [d EXCEPT !.others = d.others \cup {o}]
    BY <1>11 DEF Aside
  <2> QED BY <1>8, <1>11, <2>1
<1> QED BY <1>9, <1>10, <1>11

\* The site that was set has its entry, with none behind it.
LEMMA PlacedSelf ==
    ASSUME NEW map, MapOK(map, Origins, ThrottleEntry), NEW o \in Origins,
           NEW e \in ThrottleEntry, NEW now, NEW m, NEW d \in Records, Rationed(e, d, m, now)
    PROVE  SiteOK(Placed(map, o, e), [d EXCEPT !.others = {}], m, now, o)
<1> DEFINE room == IF HasKey(map, o) THEN map ELSE EvictIfFull(map, MAX_TRACKED_ORIGINS)
           x == [d EXCEPT !.others = {}]
<1>1. MAX_TRACKED_ORIGINS \in Nat \ {0}
  BY ThrottleAssumption
<1>2. Placed(map, o, e) = Touch(room, o, e)
  BY DEF Placed
<1>3. MapOK(room, Origins, ThrottleEntry)
  BY <1>1, EvictMap
<1>4. x \in Records /\ x.opens = d.opens /\ x.late = d.late /\ x.others = {}
  BY DEF Records
<1> HIDE DEF room, x
<1>5. Lookup(Touch(room, o, e), o, CleanSlate) = e /\ Behind(Touch(room, o, e), o, {})
  BY <1>3, TouchValue, BehindTouch
<1>6. IsFiniteSet({})
  BY FS_EmptySet
<1>7. Rationed(e, x, m, now)
  BY <1>4 DEF Rationed
<1>8. SiteOK(Touch(room, o, e), x, m, now, o)
  BY <1>4, <1>5, <1>6, <1>7 DEF SiteOK
<1> QED BY <1>2, <1>8 DEF x

\* No request more that may open a late dialog.
LEMMA LateFewer ==
    ASSUME MarksInv, NEW o, LateCalls(o)' \subseteq LateCalls(o)
    PROVE  /\ Cardinality(LateCalls(o)) \in Nat /\ Cardinality(LateCalls(o)') \in Nat
           /\ Cardinality(LateCalls(o)') <= Cardinality(LateCalls(o))
<1>1. IsFiniteSet(LateCalls(o)) /\ Cardinality(LateCalls(o)) \in Nat
  BY LateFinite
<1>2. IsFiniteSet(LateCalls(o)')
      /\ Cardinality(LateCalls(o)') <= Cardinality(LateCalls(o))
  BY <1>1, FS_Subset
<1> QED BY <1>1, <1>2, FS_CardinalityType

\* The records once a site is set, and active.
LEMMA DialogsPlaced ==
    ASSUME GateInv, DialogInv, NEW o \in Origins, NEW e \in ThrottleEntry, SetEntry(o, e),
           UNCHANGED clock, NEW D, \A p \in Watched : p # o => D[p] = dialogs[p],
           dialogs' = Active(D, o), MarksInv',
           \A p \in Watched : p # o => LateCalls(p)' \subseteq LateCalls(p),
           o \in Watched =>
              D[o] \in Records /\ Rationed(e, D[o], Cardinality(LateCalls(o)'), clock)
    PROVE  DialogInv'
<1>0. PICK map, new : map = entries /\ new = entries'
  OBVIOUS
<1>1. PICK now \in Nat \ {0} :
         map = entries /\ new = entries' /\ now = clock /\ now = clock'
  BY <1>0 DEF GateInv, Times
<1>2. MapOK(map, Origins, ThrottleEntry) /\ new = Placed(map, o, e)
  BY <1>1, SetPlaces DEF GateInv, EntriesOK
<1>3. dialogs' = [p \in Watched |-> dialogs'[p]]
  BY Zenon DEF Active
<1>4. ASSUME NEW p \in Watched
      PROVE  SiteOK(new, dialogs'[p], Cardinality(LateCalls(p)'), now, p)
  <2>1. CASE p = o
    <3>1. PICK d, m : d = D[o] /\ m = Cardinality(LateCalls(o)')
      OBVIOUS
    <3>2. d \in Records /\ Rationed(e, d, m, now)
      BY <1>1, <2>1, <3>1
    <3>3. dialogs'[p] = [d EXCEPT !.others = {}]
      BY <2>1, <3>1, Zenon DEF Active
    <3>4. SiteOK(Placed(map, o, e), [d EXCEPT !.others = {}], m, now, o)
      BY <1>2, <3>2, PlacedSelf
    <3> QED BY <1>2, <2>1, <3>1, <3>3, <3>4
  <2>2. CASE p # o
    <3>0. PICK d : d = dialogs[p]
      OBVIOUS
    <3>1. PICK n \in Nat, m \in Nat :
             d = dialogs[p] /\ m = Cardinality(LateCalls(p)')
             /\ n = Cardinality(LateCalls(p)) /\ m <= n
      BY <2>2, <3>0, LateFewer DEF DialogInv
    <3>2. SiteOK(map, d, n, now, p)
      BY <1>1, <3>1 DEF DialogInv
    <3>3. D[p] = d
      BY <2>2, <3>1
    <3>4. dialogs'[p] = Aside(D[p], o)
      BY <2>2, Zenon DEF Active, Aside
    <3>5. dialogs'[p] = Aside(d, o)
      BY <3>3, <3>4
    <3>6. SiteOK(Placed(map, o, e), Aside(d, o), m, now, p)
      BY <1>2, <2>2, <3>1, <3>2, PlacedAside
    <3> QED BY <1>2, <3>1, <3>5, <3>6
  <2> QED BY <2>1, <2>2
<1> QED BY <1>1, <1>3, <1>4 DEF DialogInv

\* The records once a site's entry is deleted.
LEMMA DialogsDeleted ==
    ASSUME GateInv, DialogInv, NEW o \in Origins, entries' = Delete(entries, o),
           UNCHANGED clock, dialogs' = [p \in Watched |-> dialogs'[p]],
           \A p \in Watched : p # o => dialogs'[p] = dialogs[p], MarksInv',
           \A p \in Watched : LateCalls(p)' \subseteq LateCalls(p),
           o \in Watched =>
              /\ dialogs'[o] \in Records /\ IsFiniteSet(dialogs'[o].others)
              /\ Rationed(CleanSlate, dialogs'[o], Cardinality(LateCalls(o)'), clock)
    PROVE  DialogInv'
<1>0. PICK map, new : map = entries /\ new = entries'
  OBVIOUS
<1>1. PICK now \in Nat \ {0} :
         map = entries /\ new = entries' /\ now = clock /\ now = clock'
  BY <1>0 DEF GateInv, Times
<1>2. MapOK(map, Origins, ThrottleEntry) /\ new = Delete(map, o)
  BY <1>1 DEF GateInv, EntriesOK
<1>3. /\ MapOK(new, Origins, ThrottleEntry) /\ Within(new, map)
      /\ \A k : HasKey(new, k) <=> HasKey(map, k) /\ k # o
  BY <1>2, DeleteMap
<1>4. ASSUME NEW p \in Watched
      PROVE  SiteOK(new, dialogs'[p], Cardinality(LateCalls(p)'), now, p)
  <2>1. CASE p = o
    <3>1. ~HasKey(new, o)
      BY <1>3
    <3>2. Lookup(new, o, CleanSlate) = CleanSlate
      BY <3>1 DEF Lookup
    <3>3. Behind(new, o, dialogs'[o].others)
      BY <3>1 DEF Behind, HasKey
    <3> QED BY <1>1, <2>1, <3>2, <3>3 DEF SiteOK
  <2>2. CASE p # o
    <3>0. PICK d : d = dialogs[p]
      OBVIOUS
    <3>1. PICK n \in Nat, m \in Nat :
             d = dialogs[p] /\ m = Cardinality(LateCalls(p)')
             /\ n = Cardinality(LateCalls(p)) /\ m <= n
      BY <2>2, <3>0, LateFewer DEF DialogInv
    <3>2. SiteOK(map, d, n, now, p)
      BY <1>1, <3>1 DEF DialogInv
    <3>3. Lookup(new, p, CleanSlate) = Lookup(map, p, CleanSlate)
      <4>1. CASE HasKey(map, p)
        BY <1>2, <1>3, <2>2, <4>1, WithinFound DEF MapOK
      <4>2. CASE ~HasKey(map, p)
        BY <1>3, <4>2 DEF Lookup
      <4> QED BY <4>1, <4>2
    <3>4. PICK e \in ThrottleEntry : e = Lookup(map, p, CleanSlate)
      <4>1. CleanSlate \in ThrottleEntry
        BY DEF CleanSlate, ThrottleEntry
      <4> QED BY <1>2, <4>1, LookupType
    <3>5. Rationed(e, d, m, now)
      <4>1. Rationed(e, d, n, now)
        BY <3>2, <3>4 DEF SiteOK
      <4> QED BY <3>1, <4>1, RationedFewer
    <3>6. d.opens # << >> \/ d.late # << >> => Behind(new, p, d.others)
      BY <1>2, <1>3, <3>2, BehindWithin DEF SiteOK
    <3>7. SiteOK(new, d, m, now, p)
      BY <3>2, <3>3, <3>4, <3>5, <3>6 DEF SiteOK
    <3> QED BY <2>2, <3>1, <3>7
  <2> QED BY <2>1, <2>2
<1> QED BY <1>1, <1>4 DEF DialogInv

\* The records while the throttle and the clock stay as they are.
LEMMA DialogsKept ==
    ASSUME GateInv, DialogInv, UNCHANGED <<entries, clock, dialogs>>, MarksInv',
           \A p \in Watched : LateCalls(p)' \subseteq LateCalls(p)
    PROVE  DialogInv'
<1>0. PICK map : map = entries /\ map = entries'
  OBVIOUS
<1>1. PICK now \in Nat \ {0} :
         map = entries /\ map = entries' /\ now = clock /\ now = clock'
  BY <1>0 DEF GateInv, Times
<1>2. ASSUME NEW p \in Watched
      PROVE  SiteOK(map, dialogs[p], Cardinality(LateCalls(p)'), now, p)
  <2>0. PICK d : d = dialogs[p]
    OBVIOUS
  <2>1. PICK n \in Nat, m \in Nat :
           d = dialogs[p] /\ m = Cardinality(LateCalls(p)')
           /\ n = Cardinality(LateCalls(p)) /\ m <= n
    BY <2>0, LateFewer DEF DialogInv
  <2>2. SiteOK(map, d, n, now, p)
    BY <1>1, <2>1 DEF DialogInv
  <2>3. Lookup(map, p, CleanSlate) \in ThrottleEntry
    <3>1. CleanSlate \in ThrottleEntry
      BY DEF CleanSlate, ThrottleEntry
    <3> QED BY <1>1, <3>1, LookupType DEF GateInv, EntriesOK
  <2>4. Rationed(Lookup(map, p, CleanSlate), d, m, now)
    BY <2>1, <2>2, <2>3, RationedFewer DEF SiteOK
  <2> QED BY <2>1, <2>2, <2>4 DEF SiteOK
<1> QED BY <1>1, <1>2 DEF DialogInv

\* The record of a site at a later time.
RecordLeft(d, later) ==
    LET opens == Lately(d.opens, COOLDOWN_MS, later)
        late  == Lately(d.late, COOLDOWN_MS, later)
    IN [opens |-> opens, late |-> late,
        others |-> IF opens = << >> /\ late = << >> THEN {} ELSE d.others]

\* The records as time passes.
LEMMA SiteLater ==
    ASSUME NEW now \in Nat \ {0}, NEW map, MapOK(map, Origins, ThrottleEntry), NEW o,
           NEW d, NEW n \in Nat, SiteOK(map, d, n, now, o), NEW m \in Nat, m <= n
    PROVE  SiteOK(map, RecordLeft(d, now + 1), m, now + 1, o)
<1> DEFINE x == RecordLeft(d, now + 1)
           opens == Lately(d.opens, COOLDOWN_MS, now + 1)
           late  == Lately(d.late, COOLDOWN_MS, now + 1)
<1>1. PICK e \in ThrottleEntry : e = Lookup(map, o, CleanSlate)
  <2>1. CleanSlate \in ThrottleEntry
    BY DEF CleanSlate, ThrottleEntry
  <2> QED BY <2>1, LookupType
<1>2. d \in Records /\ IsFiniteSet(d.others) /\ Rationed(e, d, n, now)
      /\ (d.opens # << >> \/ d.late # << >> => Behind(map, o, d.others))
  BY <1>1 DEF SiteOK
<1>3. opens \in Seq(Nat) /\ late \in Seq(Nat)
  BY <1>2, LatelyType DEF Records
<1>4. x = [opens |-> opens, late |-> late,
           others |-> IF opens = << >> /\ late = << >> THEN {} ELSE d.others]
  BY DEF RecordLeft
<1>0. Lately(<< >>, COOLDOWN_MS, now + 1) = << >>
  <2>1. now + 1 \in Nat
    OBVIOUS
  <2> QED BY <2>1, FreshNone
<1>5. d.opens = << >> => opens = << >>
  BY <1>0
<1>6. d.late = << >> => late = << >>
  BY <1>0
<1>7. x.opens = opens /\ x.late = late
      /\ x.others = (IF opens = << >> /\ late = << >> THEN {} ELSE d.others)
  <2> HIDE DEF x, opens, late
  <2> QED BY <1>4
<1>8. Rationed(e, x, m, now + 1)
  <2> HIDE DEF x
  <2> QED BY <1>2, <1>7, RationedLater
<1> HIDE DEF x, opens, late
<1>9. x \in Records
  BY <1>2, <1>3, <1>4 DEF Records
<1>10. IsFiniteSet(x.others)
  BY <1>2, <1>7, FS_EmptySet
<1>11. x.opens # << >> \/ x.late # << >> => Behind(map, o, x.others)
  BY <1>2, <1>5, <1>6, <1>7
<1>12. SiteOK(map, x, m, now + 1, o)
  BY <1>1, <1>8, <1>9, <1>10, <1>11 DEF SiteOK
<1> QED BY <1>12 DEF x

\* A site without an entry and without dialogs on record.
LEMMA SiteNew ==
    ASSUME NEW now \in Nat \ {0}, NEW o
    PROVE  SiteOK(<< >>, NoDialogs, 0, now, o)
<1>1. Lookup(<< >>, o, CleanSlate) = CleanSlate
  BY DEF Lookup, HasKey
<1>2. NoDialogs.opens = << >> /\ NoDialogs.late = << >> /\ NoDialogs.others = {}
  BY DEF NoDialogs
<1>3. NoDialogs \in Records
  BY EmptySeq DEF NoDialogs, Records
<1>4. Fresh(<< >>, now) /\ Len(<< >>) = 0
  BY FreshNone
<1>5. CleanSlate.blockedUntil = 0 /\ CleanSlate.opened = 0
  BY DEF CleanSlate
<1>6. Rationed(CleanSlate, NoDialogs, 0, now)
  BY <1>2, <1>4, <1>5, Numbers DEF Rationed
<1>7. IsFiniteSet(NoDialogs.others)
  BY <1>2, FS_EmptySet
<1> QED BY <1>1, <1>2, <1>3, <1>6, <1>7 DEF SiteOK

\* The marks and the late requests in a step that gives nobody a count or a
\* cooldown.
LEMMA MarksClean ==
    ASSUME GateInv, MarksInv, [Next]_vars, Marked,
           \A p : EntryOf(p)' \in {EntryOf(p), CleanSlate}, clock' \in Nat
    PROVE  MarksInv' /\ \A p \in Origins : LateCalls(p)' \subseteq LateCalls(p)
<1>1. \A p : EntryOf(p)'.blockedUntil \in {0, EntryOf(p).blockedUntil}
  BY DEF CleanSlate
<1>2. MarksInv'
  BY <1>1, MarksKept
<1>3. ASSUME NEW p \in Origins  PROVE LateCalls(p)' \subseteq LateCalls(p)
  <2>1. EntryOf(p)'.blockedUntil \in {0, EntryOf(p).blockedUntil}
    BY <1>1
  <2> QED BY <2>1, LateKept
<1> QED BY <1>2, <1>3

\* The same when the entry of site o is set: no request of another site starts
\* to be late, and none of its own unless its cooldown starts.
LEMMA MarksSet ==
    ASSUME GateInv, MarksInv, [Next]_vars, Marked, NEW o \in Origins,
           NEW e \in ThrottleEntry, SetEntry(o, e), UNCHANGED clock,
           e = CoolDown(clock) \/ e.blockedUntil = EntryOf(o).blockedUntil
    PROVE  /\ MarksInv' /\ EntryOf(o)' = e
           /\ \A p \in Origins : p # o => LateCalls(p)' \subseteq LateCalls(p)
           /\ e.blockedUntil = EntryOf(o).blockedUntil \/ EntryOf(o).blockedUntil # 0
                 => LateCalls(o)' \subseteq LateCalls(o)
<1>1. EntriesOK /\ clock \in Nat /\ clock' \in Nat /\ clock' = clock
  BY DEF GateInv, Times
<1>2. EntryOf(o)' = e /\ \A p : p # o => EntryOf(p)' \in {EntryOf(p), CleanSlate}
  BY <1>1, EntrySet
<1>3. \A p : p # o => EntryOf(p)'.blockedUntil \in {0, EntryOf(p).blockedUntil}
  BY <1>2 DEF CleanSlate
<1>4. ASSUME e = CoolDown(clock)  PROVE Blocked(o, clock)'
  <2>1. EntryOf(o)'.blockedUntil = clock + COOLDOWN_MS
    BY <1>2, <1>4 DEF CoolDown, CleanSlate
  <2>2. clock' < clock + COOLDOWN_MS
    BY <1>1, Numbers
  <2>3. clock' < EntryOf(o)'.blockedUntil
    BY <2>1, <2>2
  <2> QED BY <2>3 DEF Blocked, EntryOf
<1>5. \A p \in Origins : \/ EntryOf(p)'.blockedUntil \in {0, EntryOf(p).blockedUntil}
                         \/ Blocked(p, clock)'
  BY <1>2, <1>3, <1>4
<1>6. MarksInv'
  BY <1>5, MarksKept
<1>7. ASSUME NEW p \in Origins, p # o  PROVE LateCalls(p)' \subseteq LateCalls(p)
  <2>1. EntryOf(p)'.blockedUntil \in {0, EntryOf(p).blockedUntil}
    BY <1>3, <1>7
  <2> QED BY <1>1, <2>1, LateKept
<1>8. ASSUME e.blockedUntil = EntryOf(o).blockedUntil \/ EntryOf(o).blockedUntil # 0
      PROVE  LateCalls(o)' \subseteq LateCalls(o)
  <2>1. \/ EntryOf(o)'.blockedUntil \in {0, EntryOf(o).blockedUntil}
        \/ EntryOf(o).blockedUntil # 0
    BY <1>2, <1>8
  <2> QED BY <1>1, <2>1, LateKept
<1> QED BY <1>2, <1>6, <1>7, <1>8

\* A dialog that opens, or is rejected.
LEMMA DialogsCounted ==
    ASSUME GateInv, DialogInv, [Next]_vars, Marked, NEW c \in Calls,
           OpenDialog(c) \/ Reject(c), NEW o \in Origins, o = call[c].origin,
           NEW e \in ThrottleEntry, SetEntry(o, e), UNCHANGED clock, NEW k \in {0, 1},
           k = 1 => OpenDialog(c) /\ c \in LateCalls(o),
           OpenDialog(c) /\ c \in LateCalls(o) => k = 1,
           NEW D, \A p \in Watched : p # o => D[p] = dialogs[p], dialogs' = Active(D, o),
           o \in Watched =>
              D[o] \in Records /\ Another(EntryOf(o), dialogs[o], D[o], k, clock),
           \/ e = CoolDown(clock)
           \/ /\ e.blockedUntil = EntryOf(o).blockedUntil
              /\ \/ e.opened = EntryOf(o).opened + 1 /\ e.opened < MAX_UNANSWERED_DIALOGS
                 \/ /\ e.opened = EntryOf(o).opened
                    /\ o \in Watched => D[o].opens = dialogs[o].opens
    PROVE  DialogInv'
<1>1. MarksInv /\ EntriesOK /\ clock \in Nat \ {0}
  BY DEF DialogInv, GateInv, Times
<1>2. /\ MarksInv'
      /\ \A p \in Origins : p # o => LateCalls(p)' \subseteq LateCalls(p)
      /\ e.blockedUntil = EntryOf(o).blockedUntil \/ EntryOf(o).blockedUntil # 0
            => LateCalls(o)' \subseteq LateCalls(o)
  BY <1>1, MarksSet
<1>3. ASSUME o \in Watched  PROVE Rationed(e, D[o], Cardinality(LateCalls(o)'), clock)
  <2> DEFINE old == EntryOf(o)
             n == Cardinality(LateCalls(o))
             m == Cardinality(LateCalls(o)')
  <2>1. old \in ThrottleEntry /\ old.blockedUntil \in Nat
    BY <1>1, EntryType DEF ThrottleEntry
  <2>2. Rationed(old, dialogs[o], n, clock)
    BY <1>3 DEF DialogInv, SiteOK, EntryOf
  <2>3. n \in Nat /\ IsFiniteSet(LateCalls(o))
    BY <1>1, LateFinite
  <2>4. m \in Nat
    <3>1. LateCalls(o)' \subseteq Calls
      BY <1>2 DEF MarksInv, LateCalls
    <3> QED BY <3>1, FiniteCalls
  <2>5. m <= Spare
    BY <1>2, LateBeside
  <2>6. ASSUME e.blockedUntil = old.blockedUntil \/ old.blockedUntil # 0
        PROVE  m + k <= n
    <3>1. LateCalls(o)' \subseteq LateCalls(o)
      BY <1>2, <2>6
    <3>2. CASE k = 1
      <4>1. m + (IF c \in LateCalls(o) THEN 1 ELSE 0) <= n
        BY <1>1, <3>1, <3>2, LateOpened
      <4> HIDE DEF m, n
      <4> QED BY <3>2, <4>1
    <3>3. CASE k = 0
      <4>1. m <= n
        BY <1>1, <3>1, LateFewer
      <4> HIDE DEF m, n
      <4> QED BY <2>4, <3>3, <4>1
    <3> QED BY <3>2, <3>3
  <2>7. k <= n
    <3>1. CASE k = 1
      <4>1. LateCalls(o) # {}
        BY <3>1
      <4>2. n # 0
        BY <2>3, <4>1, FS_EmptySet
      <4> HIDE DEF n
      <4> QED BY <2>3, <3>1, <4>2
    <3>2. CASE k = 0
      <4> HIDE DEF n
      <4> QED BY <2>3, <3>2
    <3> QED BY <3>1, <3>2
  <2>8. Another(old, dialogs[o], D[o], k, clock)
    BY <1>3
  <2>9. old.blockedUntil = 0 => old.opened < MAX_UNANSWERED_DIALOGS
    BY <2>2 DEF Rationed
  <2>10. \/ e = CoolDown(clock)
         \/ /\ e.blockedUntil = old.blockedUntil
            /\ \/ e.opened = old.opened + 1 /\ e.opened < MAX_UNANSWERED_DIALOGS
               \/ e.opened = old.opened /\ D[o].opens = dialogs[o].opens
    BY <1>3
  <2> SUFFICES Rationed(e, D[o], m, clock)
    OBVIOUS
  <2> HIDE DEF m, n, old
  <2>11. CASE e = CoolDown(clock)
    BY <1>1, <2>1, <2>2, <2>3, <2>4, <2>5, <2>6, <2>7, <2>8, <2>11, RationedEnds
  <2>12. CASE /\ e.blockedUntil = old.blockedUntil
              /\ \/ e.opened = old.opened + 1 /\ e.opened < MAX_UNANSWERED_DIALOGS
                 \/ e.opened = old.opened /\ D[o].opens = dialogs[o].opens
    <3>1. m + k <= n
      BY <2>6, <2>12
    <3>2. old.blockedUntil = 0 => e.opened < MAX_UNANSWERED_DIALOGS
      BY <2>9, <2>12
    <3>3. e.opened = old.opened + 1 \/ (e.opened = old.opened /\ D[o].opens = dialogs[o].opens)
      BY <2>12
    <3> QED BY <1>1, <2>1, <2>2, <2>3, <2>4, <2>8, <2>12, <3>1, <3>2, <3>3, RationedCounts
  <2> QED BY <2>10, <2>11, <2>12
<1>4. \A p \in Watched : p # o => LateCalls(p)' \subseteq LateCalls(p)
  BY <1>2, WatchedAssumption
<1> QED BY <1>2, <1>3, <1>4, DialogsPlaced

\* A request opens its dialog.
LEMMA DialogsOpened ==
    ASSUME GateInv, DialogInv, [Next]_vars, Marked, NEW c \in Calls, OpenDialog(c),
           Opened(c, call[c].origin)
    PROVE  DialogInv'
<1>1. call[c].at # "idle" /\ MayOpen(c)
  BY DEF OpenDialog, MayOpen
<1>2. PICK o \in Origins : o = call[c].origin
  BY <1>1 DEF GateInv, SlotInv
<1> DEFINE old  == EntryOf(o)
           d    == dialogs[o]
           x    == Recorded(d, c)
           D    == With(dialogs, o, x)
           late == c \in LateCalls(o)
           k    == IF late THEN 1 ELSE 0
           e    == IF old.opened + 1 >= MAX_UNANSWERED_DIALOGS THEN CoolDown(clock)
                   ELSE [old EXCEPT !.opened = @ + 1]
<1>3. recordDialogOpened(o, clock) /\ UNCHANGED clock
  BY <1>2 DEF OpenDialog, bounds
<1>4. SetEntry(o, e)
  BY <1>3 DEF recordDialogOpened
<1>5. dialogs' = Active(D, o)
  BY <1>2, Zenon DEF Opened
<1>6. MarksInv /\ EntriesOK /\ clock \in Nat
  BY DEF DialogInv, GateInv, Times
<1>7. old \in ThrottleEntry /\ old.opened \in Nat
  BY <1>6, EntryType DEF ThrottleEntry
<1>8. \A p \in Watched : D[p] = IF p = o THEN x ELSE dialogs[p]
  BY DEF With
<1>9. ASSUME o \in Watched  PROVE x \in Records /\ Another(old, d, x, k, clock)
  <2>1. d \in Records
    BY <1>9 DEF DialogInv, SiteOK
  <2>2. d.opens \in Seq(Nat) /\ d.late \in Seq(Nat)
    BY <2>1 DEF Records
  <2>3. Append(d.opens, clock) \in Seq(Nat) /\ Append(d.late, clock) \in Seq(Nat)
    BY <1>6, <2>2, AppendProperties
  <2> HIDE DEF d, old
  <2>4. CASE c \notin stale
    <3>1. x = [d EXCEPT !.opens = Append(@, clock)]
      BY <2>4 DEF Recorded
    <3>2. x \in Records /\ x.opens = Append(d.opens, clock) /\ x.late = d.late
      BY <2>1, <2>3, <3>1 DEF Records
    <3>3. ~late
      BY <2>4 DEF LateCalls
    <3>4. old.blockedUntil = 0
      BY <1>1, <1>2, <1>6, <2>4 DEF MarksInv, old
    <3> HIDE DEF x, late
    <3>5. k = 0
      BY <3>3
    <3> HIDE DEF k
    <3> QED BY <3>2, <3>4, <3>5 DEF Another
  <2>5. CASE c \in stale /\ c \notin waited
    <3>1. x = [d EXCEPT !.late = Append(@, clock)]
      BY <2>5 DEF Recorded
    <3>2. x \in Records /\ x.late = Append(d.late, clock) /\ x.opens = d.opens
      BY <2>1, <2>3, <3>1 DEF Records
    <3>3. late
      BY <1>2, <2>5 DEF LateCalls
    <3> HIDE DEF x, late
    <3>5. k = 1
      BY <3>3
    <3> HIDE DEF k
    <3> QED BY <3>2, <3>5 DEF Another
  <2>6. CASE c \in stale /\ c \in waited
    <3>1. x = d
      BY <2>6 DEF Recorded
    <3>3. ~late
      BY <2>6 DEF LateCalls
    <3> HIDE DEF x, late
    <3>5. k = 0
      BY <3>3
    <3> HIDE DEF k
    <3> QED BY <2>1, <3>1, <3>5 DEF Another
  <2> QED BY <2>4, <2>5, <2>6
<1>10. k \in {0, 1} /\ (k = 1 <=> late)
  <2> HIDE DEF late
  <2> QED OBVIOUS
<1> HIDE DEF x, D, k
<1>11. CASE old.opened + 1 >= MAX_UNANSWERED_DIALOGS
  <2>1. e = CoolDown(clock)
    BY <1>11
  <2>2. e \in ThrottleEntry
    BY <1>6, <2>1, Numbers DEF CoolDown, CleanSlate, ThrottleEntry
  <2> HIDE DEF e, late
  <2> QED
    BY <1>2, <1>3, <1>4, <1>5, <1>8, <1>9, <1>10, <2>1, <2>2, DialogsCounted DEF late
<1>12. CASE ~(old.opened + 1 >= MAX_UNANSWERED_DIALOGS)
  <2>1. e = [old EXCEPT !.opened = @ + 1]
    BY <1>12
  <2> HIDE DEF e, old, late
  <2>2. e \in ThrottleEntry /\ e.blockedUntil = old.blockedUntil /\ e.opened = old.opened + 1
        /\ e.opened < MAX_UNANSWERED_DIALOGS
    BY <1>7, <1>12, <2>1, Numbers DEF ThrottleEntry
  <2> QED
    BY <1>2, <1>3, <1>4, <1>5, <1>8, <1>9, <1>10, <2>2, DialogsCounted DEF late, old
<1> QED BY <1>11, <1>12

\* The user rejects a dialog.
LEMMA DialogsRejected ==
    ASSUME GateInv, DialogInv, [Next]_vars, Marked, NEW c \in Calls, Reject(c),
           Rejected(call[c].origin)
    PROVE  DialogInv'
<1>1. call[c].at = "dialog"
  BY DEF Reject
<1>2. PICK o \in Origins : o = call[c].origin
  BY <1>1 DEF GateInv, SlotInv
<1> DEFINE old == EntryOf(o)
           e   == IF old.rejections + 1 >= MAX_CONSECUTIVE_REJECTIONS THEN CoolDown(clock)
                  ELSE [old EXCEPT !.rejections = @ + 1]
<1>3. recordDialogRejection(o, clock) /\ UNCHANGED clock
  BY <1>2 DEF Reject, bounds
<1>4. SetEntry(o, e)
  BY <1>3 DEF recordDialogRejection
<1>5. dialogs' = Active(dialogs, o)
  BY <1>2, Zenon DEF Rejected
<1>6. EntriesOK /\ clock \in Nat
  BY DEF DialogInv, GateInv, Times
<1>7. old \in ThrottleEntry
  BY <1>6, EntryType
<1>8. o \in Watched =>
         dialogs[o] \in Records /\ Another(EntryOf(o), dialogs[o], dialogs[o], 0, clock)
  BY DEF DialogInv, SiteOK, Another
<1>9. ~OpenDialog(c)
  <2>1. ASSUME OpenDialog(c)  PROVE call[c].at # "dialog"
    BY <2>1 DEF OpenDialog
  <2> QED BY <1>1, <2>1
<1>10. CASE old.rejections + 1 >= MAX_CONSECUTIVE_REJECTIONS
  <2>1. e = CoolDown(clock)
    BY <1>10
  <2>2. e \in ThrottleEntry
    BY <1>6, <2>1, Numbers DEF CoolDown, CleanSlate, ThrottleEntry
  <2> HIDE DEF e
  <2> QED BY <1>2, <1>3, <1>4, <1>5, <1>8, <1>9, <2>1, <2>2, DialogsCounted
<1>11. CASE ~(old.rejections + 1 >= MAX_CONSECUTIVE_REJECTIONS)
  <2>1. e = [old EXCEPT !.rejections = @ + 1]
    BY <1>11
  <2> HIDE DEF e, old
  <2>2. e \in ThrottleEntry /\ e.blockedUntil = old.blockedUntil /\ e.opened = old.opened
    BY <1>7, <2>1 DEF ThrottleEntry
  <2> QED BY <1>2, <1>3, <1>4, <1>5, <1>8, <1>9, <2>2, DialogsCounted DEF old
<1> QED BY <1>10, <1>11

\* The user approves a dialog.
LEMMA DialogsApproved ==
    ASSUME GateInv, DialogInv, [Next]_vars, Marked, NEW c \in Calls, Approve(c),
           Approved(call[c].origin)
    PROVE  DialogInv'
<1>1. PICK o \in Origins : o = call[c].origin
  BY DEF GateInv, SlotInv, Approve
<1>2. entries' = Delete(entries, o) /\ UNCHANGED clock
  BY <1>1 DEF Approve, clearDialogRejections, bounds
<1>3. dialogs' = With(dialogs, o, NoDialogs)
  BY <1>1, Zenon DEF Approved
<1>4. \A p \in Watched : dialogs'[p] = IF p = o THEN NoDialogs ELSE dialogs[p]
  BY <1>3 DEF With
<1>5. dialogs' = [p \in Watched |-> dialogs'[p]]
  BY <1>3, Zenon DEF With
<1>6. MarksInv /\ EntriesOK /\ clock \in Nat \ {0} /\ clock' \in Nat
  BY <1>2 DEF DialogInv, GateInv, Times
<1>7. \A p : EntryOf(p)' \in {EntryOf(p), CleanSlate}
  BY <1>2, <1>6, EntryCleared
<1>8. MarksInv' /\ \A p \in Origins : LateCalls(p)' \subseteq LateCalls(p)
  BY <1>6, <1>7, MarksClean
<1>9. NoDialogs \in Records /\ IsFiniteSet(NoDialogs.others)
      /\ NoDialogs.opens = << >> /\ NoDialogs.late = << >>
  <2>1. SiteOK(<< >>, NoDialogs, 0, clock, o)
    BY <1>6, SiteNew
  <2> QED BY <2>1 DEF SiteOK, NoDialogs
<1>10. ASSUME o \in Watched
       PROVE  Rationed(CleanSlate, NoDialogs, Cardinality(LateCalls(o)'), clock)
  <2>1. Rationed(EntryOf(o), dialogs[o], Cardinality(LateCalls(o)), clock)
    BY <1>10 DEF DialogInv, SiteOK, EntryOf
  <2>2. EntryOf(o) \in ThrottleEntry
    BY <1>6, EntryType
  <2>3. /\ Cardinality(LateCalls(o)) \in Nat /\ Cardinality(LateCalls(o)') \in Nat
        /\ Cardinality(LateCalls(o)') <= Cardinality(LateCalls(o))
    BY <1>6, <1>8, LateFewer
  <2> QED BY <1>6, <1>9, <2>1, <2>2, <2>3, RationedNone
<1>11. \A p \in Watched : LateCalls(p)' \subseteq LateCalls(p)
  BY <1>8, WatchedAssumption
<1> QED BY <1>2, <1>4, <1>5, <1>8, <1>9, <1>10, <1>11, DialogsDeleted

\* The throttle's part in routing a request.
LEMMA RouteThrottles ==
    ASSUME EntriesOK, NEW c \in Calls, NEW o \in Origins, NEW m \in Methods, Route(c, o, m),
           clock \in Nat
    PROVE  \/ UNCHANGED entries /\ refusal' # "cooldown"
           \/ /\ entries' = Delete(entries, o) /\ refusal' # "cooldown"
              /\ EntryOf(o).blockedUntil # 0 /\ clock >= EntryOf(o).blockedUntil
           \/ /\ entries' = Touch(entries, o, EntryOf(o)) /\ refusal' = "cooldown"
              /\ EntryOf(o).blockedUntil # 0
<1> DEFINE until == EntryOf(o).blockedUntil
<1>1. until \in Nat
  BY EntryType DEF ThrottleEntry
<1>2. CASE m \notin DIALOG_METHODS
  <2>1. UNCHANGED entries
    BY <1>2 DEF Route
  <2>2. refusal' # "cooldown"
    BY <1>2 DEF Route, Answer, EnterBudget, Admit, MovesTo
  <2> QED BY <2>1, <2>2
<1>3. CASE m \in DIALOG_METHODS /\ Blocked(o, clock)
  <2>1. DialogChecked(o, clock) /\ refusal' = "cooldown"
    BY <1>3 DEF Route, Answer
  <2>2. clock < until
    BY <1>3 DEF Blocked
  <2>3. until # 0 /\ ~(clock >= until)
    BY <1>1, <2>2
  <2>4. entries' = Touch(entries, o, EntryOf(o))
    BY <2>1, <2>3 DEF DialogChecked
  <2> QED BY <2>1, <2>3, <2>4
<1>4. CASE m \in DIALOG_METHODS /\ ~Blocked(o, clock)
  <2>1. DialogChecked(o, clock)
    BY <1>4 DEF Route
  <2>2. refusal' # "cooldown"
    BY <1>4 DEF Route, Answer, EnterBudget, Admit, MovesTo
  <2>3. clock >= until
    BY <1>1, <1>4 DEF Blocked
  <2>4. CASE until = 0
    BY <2>1, <2>2, <2>4 DEF DialogChecked
  <2>5. CASE until # 0
    <3>1. entries' = Delete(entries, o)
      BY <2>1, <2>3, <2>5 DEF DialogChecked
    <3> QED BY <2>2, <2>3, <2>5, <3>1
  <2> QED BY <2>4, <2>5
<1> QED BY <1>2, <1>3, <1>4

\* A request is routed.
LEMMA DialogsRouted ==
    ASSUME GateInv, DialogInv, [Next]_vars, Marked, NEW c \in Calls, NEW o \in Origins,
           NEW m \in Methods, Route(c, o, m), Routed(o, m)
    PROVE  DialogInv'
<1>1. MarksInv /\ EntriesOK /\ clock \in Nat \ {0} /\ clock' \in Nat /\ UNCHANGED clock
  BY DEF DialogInv, GateInv, Times, Route, bounds
<1>2. DialogChecked(o, clock) \/ UNCHANGED entries
  BY Zenon DEF Route
<1>3. \A p : EntryOf(p)' \in {EntryOf(p), CleanSlate}
  <2>1. CASE UNCHANGED entries
    BY <2>1 DEF EntryOf
  <2> QED BY <1>1, <1>2, <2>1, EntryChecked
<1>4. MarksInv' /\ \A p \in Origins : LateCalls(p)' \subseteq LateCalls(p)
  BY <1>1, <1>3, MarksClean
<1>5. \A p \in Watched : LateCalls(p)' \subseteq LateCalls(p)
  BY <1>4, WatchedAssumption
<1>6. dialogs' = IF refusal' = "cooldown" THEN Active(dialogs, o) ELSE dialogs
  BY Zenon DEF Routed
<1> DEFINE n == Cardinality(LateCalls(o))
           k == Cardinality(LateCalls(o)')
<1>7. n \in Nat /\ k \in Nat /\ k <= n
  BY <1>1, <1>4, LateFewer
<1>8. ASSUME o \in Watched
      PROVE  dialogs[o] \in Records /\ IsFiniteSet(dialogs[o].others)
             /\ Rationed(EntryOf(o), dialogs[o], n, clock)
  BY <1>8 DEF DialogInv, SiteOK, EntryOf
<1>9. EntryOf(o) \in ThrottleEntry /\ CleanSlate \in ThrottleEntry
  BY <1>1, EntryType DEF CleanSlate, ThrottleEntry
<1>10. CASE UNCHANGED entries /\ refusal' # "cooldown"
  BY <1>1, <1>4, <1>5, <1>6, <1>10, DialogsKept
<1>11. CASE /\ entries' = Delete(entries, o) /\ refusal' # "cooldown"
            /\ EntryOf(o).blockedUntil # 0 /\ clock >= EntryOf(o).blockedUntil
  <2>1. dialogs' = dialogs
    BY <1>6, <1>11
  <2>2. dialogs' = [p \in Watched |-> dialogs'[p]]
    BY <2>1 DEF DialogInv
  <2>3. ASSUME o \in Watched  PROVE Rationed(CleanSlate, dialogs[o], k, clock)
    <3>1. Rationed(CleanSlate, dialogs[o], n, clock)
      BY <1>1, <1>7, <1>8, <1>9, <1>11, <2>3, RationedOver
    <3> HIDE DEF n, k
    <3> QED BY <1>1, <1>7, <1>9, <3>1, RationedFewer
  <2>4. o \in Watched =>
           /\ dialogs'[o] \in Records /\ IsFiniteSet(dialogs'[o].others)
           /\ Rationed(CleanSlate, dialogs'[o], Cardinality(LateCalls(o)'), clock)
    BY <1>8, <2>1, <2>3
  <2> QED BY <1>1, <1>4, <1>5, <1>11, <2>1, <2>2, <2>4, DialogsDeleted
<1>12. CASE /\ entries' = Touch(entries, o, EntryOf(o)) /\ refusal' = "cooldown"
            /\ EntryOf(o).blockedUntil # 0
  <2>1. dialogs' = Active(dialogs, o)
    BY <1>6, <1>12
  <2>2. HasKey(entries, o)
    BY <1>12 DEF EntryOf, Lookup, CleanSlate
  <2>3. SetEntry(o, EntryOf(o))
    BY <1>12, <2>2 DEF SetEntry
  <2>4. ASSUME o \in Watched  PROVE Rationed(EntryOf(o), dialogs[o], k, clock)
    <3>1. Rationed(EntryOf(o), dialogs[o], n, clock)
      BY <1>8, <2>4
    <3> HIDE DEF n, k
    <3> QED BY <1>1, <1>7, <1>9, <3>1, RationedFewer
  <2>5. o \in Watched =>
           dialogs[o] \in Records
           /\ Rationed(EntryOf(o), dialogs[o], Cardinality(LateCalls(o)'), clock)
    BY <1>8, <2>4
  <2> QED BY <1>1, <1>4, <1>5, <1>9, <2>1, <2>3, <2>5, DialogsPlaced
<1> QED BY <1>1, <1>10, <1>11, <1>12, RouteThrottles

\* Time passes.
LEMMA DialogsLater ==
    ASSUME GateInv, DialogInv, [Next]_vars, Marked, Tick, Passed
    PROVE  DialogInv'
<1>1. MarksInv /\ EntriesOK /\ clock \in Nat \ {0} /\ clock' = clock + 1
      /\ UNCHANGED entries
  BY DEF DialogInv, GateInv, Times, Tick
<1>2. clock' \in Nat
  BY <1>1
<1>3. \A p : EntryOf(p)' \in {EntryOf(p), CleanSlate}
  BY <1>1 DEF EntryOf
<1>4. MarksInv' /\ \A p \in Origins : LateCalls(p)' \subseteq LateCalls(p)
  BY <1>1, <1>2, <1>3, MarksClean
<1>5. dialogs' = [p \in Watched |-> RecordLeft(dialogs[p], clock')]
  BY Zenon DEF Passed, RecordLeft
<1>6. dialogs' = [p \in Watched |-> dialogs'[p]]
  BY <1>5
<1>7. ASSUME NEW p \in Watched
      PROVE  SiteOK(entries', dialogs'[p], Cardinality(LateCalls(p)'), clock', p)
  <2>1. p \in Origins
    BY WatchedAssumption
  <2>2. PICK n \in Nat, m \in Nat :
           n = Cardinality(LateCalls(p)) /\ m = Cardinality(LateCalls(p)') /\ m <= n
    BY <1>1, <1>4, <2>1, LateFewer
  <2>3. SiteOK(entries, dialogs[p], n, clock, p)
    BY <2>2 DEF DialogInv
  <2>4. MapOK(entries, Origins, ThrottleEntry)
    BY <1>1 DEF EntriesOK
  <2>5. SiteOK(entries, RecordLeft(dialogs[p], clock + 1), m, clock + 1, p)
    BY <1>1, <2>2, <2>3, <2>4, SiteLater
  <2>6. dialogs'[p] = RecordLeft(dialogs[p], clock + 1)
    BY <1>1, <1>5
  <2> QED BY <1>1, <2>2, <2>5, <2>6
<1> QED BY <1>4, <1>6, <1>7 DEF DialogInv

\* The snap is terminated.
LEMMA DialogsTerminated ==
    ASSUME GateInv, DialogInv, [Next]_vars, Marked, Terminate,
           dialogs' = [o \in Watched |-> NoDialogs]
    PROVE  DialogInv'
<1>1. entries' = << >> /\ clock' = clock /\ clock \in Nat \ {0}
      /\ \A c \in Calls : call'[c].at = "idle"
  BY DEF GateInv, Times, Terminate, NoCall
<1>2. \A c \in Calls : ~MayOpen(c)'
  BY <1>1 DEF MayOpen
<1>3. stale' = {} /\ MarksInv'
  BY <1>2 DEF Marked, MarksInv
<1>4. \A p : LateCalls(p)' = {}
  BY <1>3 DEF LateCalls
<1>5. \A p : Cardinality(LateCalls(p)') = 0
  BY <1>4, FS_EmptySet
<1>6. dialogs' = [p \in Watched |-> dialogs'[p]] /\ \A p \in Watched : dialogs'[p] = NoDialogs
  OBVIOUS
<1>7. ASSUME NEW p \in Watched
      PROVE  SiteOK(entries', dialogs'[p], Cardinality(LateCalls(p)'), clock', p)
  <2>1. SiteOK(<< >>, NoDialogs, 0, clock, p)
    BY <1>1, SiteNew
  <2> QED BY <1>1, <1>5, <1>6, <2>1
<1> QED BY <1>3, <1>6, <1>7 DEF DialogInv

\* DialogInv is inductive.
LEMMA NextDialogs ==
    ASSUME GateInv, DialogInv, [ObservedNext]_<<vars, history>>
    PROVE  DialogInv'
<1>1. [Next]_vars
  BY ObservedSteps
<1>2. CASE UNCHANGED <<vars, history>>
  <2>1. UNCHANGED <<entries, clock, call, dialogs, stale, waited>>
    BY <1>2 DEF vars, history, bounds
  <2>2. MarksInv' /\ \A p : LateCalls(p)' = LateCalls(p)
    BY <2>1 DEF DialogInv, MarksInv, MayOpen, EntryOf, LateCalls
  <2> QED BY <2>1, <2>2, DialogsKept
<1>3. ASSUME Marked, UNCHANGED <<entries, clock, dialogs>>  PROVE DialogInv'
  <2>1. \A p : EntryOf(p)' \in {EntryOf(p), CleanSlate}
    BY <1>3 DEF EntryOf
  <2>2. MarksInv /\ clock' \in Nat
    BY <1>3 DEF DialogInv, GateInv, Times
  <2>3. MarksInv' /\ \A p \in Origins : LateCalls(p)' \subseteq LateCalls(p)
    BY <1>1, <1>3, <2>1, <2>2, MarksClean
  <2>4. \A p \in Watched : LateCalls(p)' \subseteq LateCalls(p)
    BY <2>3, WatchedAssumption
  <2> QED BY <1>3, <2>3, <2>4, DialogsKept
<1>4. ASSUME Marked, NEW c \in Calls,
             \/ LookUp(c) /\ LookedUp(c)
             \/ /\ GrantRead(c) \/ ReadConnected(c) \/ ReadTokens(c) \/ Finish(c)
                /\ Unseen
      PROVE  DialogInv'
  <2>1. UNCHANGED <<entries, clock, dialogs>>
    BY <1>4 DEF LookUp, LookedUp, GrantRead, ReadConnected, ReadTokens, Finish, Unseen, bounds
  <2> QED BY <1>3, <1>4, <2>1
<1>5. ASSUME Marked, ChangeGrants, Unseen  PROVE DialogInv'
  <2>1. UNCHANGED <<entries, clock, dialogs>>
    BY <1>5 DEF ChangeGrants, Unseen
  <2> QED BY <1>3, <1>5, <2>1
<1>6. ASSUME Marked, NEW c \in Calls, NEW o \in Origins, NEW m \in Methods,
             Route(c, o, m) /\ Routed(o, m)
      PROVE  DialogInv'
  BY <1>1, <1>6, DialogsRouted
<1>7. ASSUME Marked, NEW c \in Calls, OpenDialog(c) /\ Opened(c, call[c].origin)
      PROVE  DialogInv'
  BY <1>1, <1>7, DialogsOpened
<1>8. ASSUME Marked, NEW c \in Calls, Reject(c) /\ Rejected(call[c].origin)
      PROVE  DialogInv'
  BY <1>1, <1>8, DialogsRejected
<1>9. ASSUME Marked, NEW c \in Calls, Approve(c) /\ Approved(call[c].origin)
      PROVE  DialogInv'
  BY <1>1, <1>9, DialogsApproved
<1>10. ASSUME Marked, Tick /\ Passed  PROVE DialogInv'
  BY <1>1, <1>10, DialogsLater
<1>11. ASSUME Marked, Terminate, dialogs' = [o \in Watched |-> NoDialogs]  PROVE DialogInv'
  BY <1>1, <1>11, DialogsTerminated
<1> QED
  BY <1>2, <1>4, <1>5, <1>6, <1>7, <1>8, <1>9, <1>10, <1>11, Zenon
     DEF ObservedNext, Observed

\* The gates' invariant and the dialogs' hold with the history on record.
LEMMA DialogsSound == ObservedSpec => [](GateInv /\ DialogInv)
<1>1. ObservedInit => GateInv /\ DialogInv
  <2> SUFFICES ASSUME ObservedInit  PROVE GateInv /\ DialogInv
    OBVIOUS
  <2>1. Init /\ dialogs = [o \in Watched |-> NoDialogs] /\ stale = {}
    BY DEF ObservedInit
  <2>2. entries = << >> /\ clock \in Nat \ {0} /\ \A c \in Calls : call[c].at = "idle"
    BY <2>1 DEF Init, NoCall
  <2>3. MarksInv
    BY <2>1, <2>2 DEF MarksInv, MayOpen
  <2>4. \A p : Cardinality(LateCalls(p)) = 0
    <3>1. \A p : LateCalls(p) = {}
      BY <2>1 DEF LateCalls
    <3> QED BY <3>1, FS_EmptySet
  <2>5. ASSUME NEW p \in Watched
        PROVE  SiteOK(entries, dialogs[p], Cardinality(LateCalls(p)), clock, p)
    <3>1. SiteOK(<< >>, NoDialogs, 0, clock, p)
      BY <2>2, SiteNew
    <3> QED BY <2>1, <2>2, <2>4, <3>1
  <2>6. DialogInv
    BY <2>1, <2>3, <2>5 DEF DialogInv
  <2> QED BY <2>1, <2>6, InitGate
<1>2. GateInv /\ DialogInv /\ [ObservedNext]_<<vars, history>> => (GateInv /\ DialogInv)'
  BY ObservedSteps, NextGate, NextDialogs
<1> QED BY <1>1, <1>2, PTL DEF ObservedSpec

\* In every behaviour a site opens at most MAX_UNANSWERED_DIALOGS dialogs of
\* requests checked since its cooldown within a cooldown's length of time, and
\* as many late ones as fit beside the request that started a cooldown, of two
\* cooldowns.
THEOREM DialogsAreRationed == ObservedSpec => []DialogsRationed
<1>1. GateInv /\ DialogInv => DialogsRationed
  <2> SUFFICES ASSUME GateInv, DialogInv, NEW o \in Watched
               PROVE  /\ Len(dialogs[o].opens) <= MAX_UNANSWERED_DIALOGS
                      /\ Len(dialogs[o].late) <= 2 * (MAX_INFLIGHT_PER_ORIGIN - 1)
    BY DEF DialogsRationed
  <2>1. EntryOf(o) \in ThrottleEntry /\ clock \in Nat \ {0}
    BY EntryType DEF GateInv, Times
  <2>2. PICK n \in Nat : n = Cardinality(LateCalls(o))
    BY LateFinite DEF DialogInv
  <2>3. Rationed(EntryOf(o), dialogs[o], n, clock)
    BY <2>2 DEF DialogInv, SiteOK, EntryOf
  <2>4. /\ Len(dialogs[o].opens) <= MAX_UNANSWERED_DIALOGS
        /\ Len(dialogs[o].late) \in Nat /\ Len(dialogs[o].late) + n <= 2 * Spare
    BY <2>1, <2>3, RationedIs
  <2>5. Len(dialogs[o].late) <= 2 * Spare
    BY <2>4, Numbers
  <2> QED BY <2>4, <2>5 DEF Spare
<1> QED BY <1>1, DialogsSound, PTL
=============================================================================
