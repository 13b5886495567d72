--------------------------- MODULE GateProperties ---------------------------
(***************************************************************************)
(* What the gates promise, stated about what the sites and the user        *)
(* experience: history variables record the dialogs opened, the requests   *)
(* allowed and the lookups made, independently of the throttle's entries   *)
(* and the limiter's logs, which forget.                                   *)
(***************************************************************************)
EXTENDS RequestGate

CONSTANT Watched  \* the sites whose dialogs are put on record

ASSUME WatchedAssumption == Watched \subseteq Origins

VARIABLES
    tally,    \* site -> its dialogs and rejections since the user last approved one
    dialogs,  \* site -> its dialogs of late
    stale,    \* the requests past the throttle's check since before a cooldown
    waited,   \* the requests that wait, or waited, for the read of their grant
    demand,   \* <<site, method>> -> its requests in the last window
    reviewed  \* the times of the lookups made for connected sites

history == <<tally, dialogs, stale, waited, demand, reviewed>>

Keys == Origins \X (Methods \cap DOMAIN RATE_LIMITS)

NoTally   == [unanswered |-> 0, rejections |-> 0, earned |-> FALSE]
NoDialogs == [opens |-> << >>, late |-> << >>, others |-> {}]
NoDemand  == [allowed |-> << >>, others |-> {}, forgotten |-> FALSE]

ObservedInit ==
    /\ Init
    /\ tally = [o \in Watched |-> NoTally]
    /\ dialogs = [o \in Watched |-> NoDialogs]
    /\ stale = {} /\ waited = {}
    /\ demand = [k \in Keys |-> NoDemand]
    /\ reviewed = << >>

-----------------------------------------------------------------------------
Lesser(a, b) == IF a < b THEN a ELSE b

With(f, o, value) == [p \in Watched |-> IF p = o THEN value ELSE f[p]]

\* The counts stop once they have earned the site a cooldown.
Counted(t) ==
    IF \/ t.earned
       \/ t.unanswered >= MAX_UNANSWERED_DIALOGS
       \/ t.rejections >= MAX_CONSECUTIVE_REJECTIONS
    THEN [earned |-> TRUE, unanswered |-> 0, rejections |-> 0]
    ELSE t

\* Site o is on record as recently active: every other site with dialogs to
\* its account has one more that was since.  A site that MAX_TRACKED_ORIGINS
\* others were active after may have been forgotten: its dialogs start over.
Active(d, o) ==
    [p \in Watched |->
        LET others == d[p].others \cup {o}
        IN IF p = o \/ (d[p].opens = << >> /\ d[p].late = << >>)
           THEN [d[p] EXCEPT !.others = {}]
           ELSE IF Cardinality(others) < MAX_TRACKED_ORIGINS
           THEN [d[p] EXCEPT !.others = others]
           ELSE NoDialogs]

\* A dialog is late when its request is stale; those of requests that have waited
\* are not put on record then.
Recorded(d, c) ==
    IF c \notin stale THEN [d EXCEPT !.opens = Append(@, clock)]
    ELSE IF c \notin waited THEN [d EXCEPT !.late = Append(@, clock)]
    ELSE d

Opened(c, o) ==
    /\ tally' = With(tally, o, Counted([tally[o] EXCEPT !.unanswered = @ + 1]))
    /\ dialogs' = Active(With(dialogs, o, Recorded(dialogs[o], c)), o)

Rejected(o) ==
    /\ tally' = With(tally, o, Counted([tally[o] EXCEPT !.rejections = @ + 1]))
    /\ dialogs' = Active(dialogs, o)

Approved(o) == tally' = With(tally, o, NoTally) /\ dialogs' = With(dialogs, o, NoDialogs)

\* The request may still open its dialog, past the throttle's check.
MayOpen(c) ==
    /\ call[c].method \in DIALOG_METHODS
    /\ call[c].at \in {"asking", "executing", "reviewing", "read"}

\* In every step: who is past the check while its site is put on a cooldown, and
\* who waits.
Marked ==
    /\ stale' = {c \in Calls :
                    MayOpen(c)' /\ (c \in stale \/ Blocked(call[c].origin, clock)')}
    /\ waited' = {c \in Calls : MayOpen(c)' /\ (c \in waited \/ call'[c].at = "asking")}

\* The latest requests of a window, one more than its limit at most.
Latest(times, m) ==
    SubSeq(times, Len(times) - Lesser(Len(times), RATE_LIMITS[m] + 1) + 1, Len(times))

\* Key k was used, and allowed or not.
Demanded(k, allowed) ==
    demand' = [j \in Keys |->
        IF j = k
        THEN [demand[k] EXCEPT !.others = {},
                               !.allowed = IF allowed THEN Latest(Append(@, clock), k[2]) ELSE @]
        ELSE LET others == demand[j].others \cup {k}
             IN IF demand[j].allowed = << >> \/ demand[j].forgotten THEN demand[j]
                ELSE IF Cardinality(others) < MAX_TRACKED_KEYS
                THEN [demand[j] EXCEPT !.others = others]
                ELSE [demand[j] EXCEPT !.others = {}, !.forgotten = TRUE]]

Routed(o, m) ==
    /\ dialogs' = IF refusal' = "cooldown" THEN Active(dialogs, o) ELSE dialogs
    /\ IF refusal' = "cooldown" \/ m \notin DOMAIN RATE_LIMITS
       THEN UNCHANGED demand ELSE Demanded(<<o, m>>, refusal' # "rate")
    /\ UNCHANGED <<tally, reviewed>>

LookedUp(c) ==
    /\ reviewed' = IF call[c].connected
                   THEN reviewed \o [i \in 1 .. Len(predialogLog')
                                             - Len(Recent(predialogLog, clock)) |-> clock]
                   ELSE reviewed
    /\ UNCHANGED <<tally, dialogs, demand>>

Passed ==
    /\ dialogs' = [o \in Watched |->
                    LET opens == Lately(dialogs[o].opens, COOLDOWN_MS, clock')
                        late  == Lately(dialogs[o].late, COOLDOWN_MS, clock')
                    IN [opens |-> opens, late |-> late,
                        others |-> IF opens = << >> /\ late = << >> THEN {}
                                   ELSE dialogs[o].others]]
    /\ demand' = [k \in Keys |->
                    LET allowed == Lately(demand[k].allowed, WINDOW_MS, clock')
                    IN IF allowed = << >> THEN NoDemand
                       ELSE [demand[k] EXCEPT !.allowed = allowed]]
    /\ reviewed' = Lately(reviewed, WINDOW_MS, clock')
    /\ UNCHANGED tally

Unseen == UNCHANGED <<tally, dialogs, demand, reviewed>>

Observed ==
    \/ \E c \in Calls, o \in Origins, m \in Methods : Route(c, o, m) /\ Routed(o, m)
    \/ \E c \in Calls :
          \/ OpenDialog(c) /\ Opened(c, call[c].origin) /\ UNCHANGED <<demand, reviewed>>
          \/ Approve(c) /\ Approved(call[c].origin) /\ UNCHANGED <<demand, reviewed>>
          \/ Reject(c) /\ Rejected(call[c].origin) /\ UNCHANGED <<demand, reviewed>>
          \/ LookUp(c) /\ LookedUp(c)
          \/ GrantRead(c) /\ Unseen
          \/ ReadConnected(c) /\ Unseen
          \/ ReadTokens(c) /\ Unseen
          \/ Finish(c) /\ Unseen
    \/ Tick /\ Passed
    \/ ChangeGrants /\ Unseen
    \/ /\ Terminate
       /\ tally' = [o \in Watched |-> NoTally]
       /\ dialogs' = [o \in Watched |-> NoDialogs]
       /\ demand' = [k \in Keys |-> NoDemand]
       /\ reviewed' = << >>

ObservedNext == Observed /\ Marked

ObservedSpec == ObservedInit /\ [][ObservedNext]_<<vars, history>>

-----------------------------------------------------------------------------
(***************************************************************************)
(* The slots.                                                              *)
(***************************************************************************)
CallRecords ==
    [origin : Origins \cup {"none"}, method : Methods \cup {"none"},
     at : {"idle", "asking", "executing", "reviewing", "read", "dialog", "approved"},
     reserved : BOOLEAN, connected : BOOLEAN]

Refusals == {"none", "cooldown", "rate", "busy", "site busy", "unchecked",
             "too many reads"}

Times == 1 .. MaxClock

\* The type of every variable of the gates.
GateTypeOK ==
    /\ entries \in Seq([key : Origins, value : ThrottleEntry])
    /\ requestLog \in Seq([key : Keys, value : Seq(Times)])
    /\ inflight \in [Origins -> Nat] /\ inflightTotal \in Nat
    /\ predialogLog \in Seq(Times) /\ tokenReadLog \in Seq(Times)
    /\ call \in [Calls -> CallRecords] /\ refusal \in Refusals
    /\ clock \in Times /\ granted \subseteq Origins
    /\ grantChanges \in Nat /\ terminations \in Nat

Of(o) == {c \in Executing : call[c].origin = o}

\* The counters of withInflightBudget are the requests executing, however they
\* end: a slot that leaked, or was released twice, would shift the ceilings
\* for the rest of the snap's life.
SlotsCounted ==
    /\ inflightTotal = Cardinality(Executing)
    /\ \A o \in Origins : inflight[o] = Cardinality(Of(o))

\* The ceilings hold for the requests themselves, with the awaited read of the
\* grant between any request and its slot; those admitted without the grant
\* never take the share kept for connected sites.
CeilingsHeld ==
    /\ Cardinality(Executing) <= MAX_INFLIGHT_GLOBAL
    /\ \A o \in Origins : Cardinality(Of(o)) <= MAX_INFLIGHT_PER_ORIGIN
    /\ Cardinality({c \in Executing : ~call[c].reserved}) <= MAX_INFLIGHT_UNCONNECTED

\* A connected site's request is refused for the concurrency of others only
\* when every slot of the wallet is taken, whoever else keeps its share full.
BusyMeansFull ==
    [][\A c \in Calls :
          GrantRead(c) /\ refusal' = "busy" /\ call[c].origin \in granted
              => Cardinality(Executing) >= MAX_INFLIGHT_GLOBAL]_vars

-----------------------------------------------------------------------------
(***************************************************************************)
(* The dialogs.                                                            *)
(***************************************************************************)

\* Within a cooldown's length of time and without an approval, a site opens at most
\* MAX_UNANSWERED_DIALOGS dialogs of requests checked since its last cooldown
\* began, however they overlap and whatever other sites do.  Requests past the
\* check by then still open theirs; of those that took a slot at once there are
\* as many as may be in flight beside the one whose dialog started the cooldown,
\* of the cooldown that ends and of the next.  What only the rates bound are the
\* requests that waited for the read of the grant.
DialogsRationed ==
    \A o \in Watched :
        /\ Len(dialogs[o].opens) <= MAX_UNANSWERED_DIALOGS
        /\ Len(dialogs[o].late) <= 2 * (MAX_INFLIGHT_PER_ORIGIN - 1)

\* A site on cooldown earned it since the user last approved one of its
\* dialogs: no interleaving of its requests, and no other site's, puts one
\* there.
CooldownEarned ==
    \A o \in Watched : Blocked(o, clock) => tally[o].earned

-----------------------------------------------------------------------------
(***************************************************************************)
(* The windows.                                                            *)
(***************************************************************************)

\* No more requests of a site for a method are allowed in a window than its
\* limit, unless the bounded map may have forgotten the window: a site that
\* keeps calling cannot have its own window evicted.
RatesHeld ==
    \A k \in Keys :
        k[2] \in DOMAIN RATE_LIMITS /\ ~demand[k].forgotten
            => Len(demand[k].allowed) <= RATE_LIMITS[k[2]]

\* A request is refused for its rate only when as many as the limit were
\* allowed within the window: refused ones do not extend it to a lockout.
RefusedAtLimit ==
    [][\A c \in Calls, o \in Origins, m \in DOMAIN RATE_LIMITS :
          Route(c, o, m) /\ refusal' = "rate"
              => Len(demand[<<o, m>>].allowed) >= RATE_LIMITS[m]]_vars

\* A connected site's lookups are denied only once connected sites themselves
\* used up what is kept from the others.
ReserveKept ==
    [][\A c \in Calls :
          LookUp(c) /\ refusal' = "unchecked" /\ call[c].connected
              => \E n \in LookupCounts :
                    Len(reviewed) + n
                        > MAX_PREDIALOG_LOOKUPS - MAX_PREDIALOG_UNCONNECTED]_vars
=============================================================================
