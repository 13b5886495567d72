----------------------------- MODULE RequestGate -----------------------------
(***************************************************************************)
(* The gates a site's request passes: the router                           *)
(* (packages/snap/src/rpc/router.ts) with the dialog throttle and the      *)
(* limits, from the request to its answer, with many requests at once.     *)
(* What handlers do between the gates is module Snap's subject: here a     *)
(* handler claims lookups, opens its dialog, and ends in any way it may.   *)
(*                                                                         *)
(* An action is the code from one platform response to the next.           *)
(***************************************************************************)
EXTENDS DialogThrottle, RequestLimits, FiniteSets

CONSTANTS
    Origins,
    Methods,          \* the methods the sites call
    Calls,            \* the requests that may be pending at a time
    InitialGrants,    \* which sites may hold a grant at first
    LookupCounts,     \* how many lookups a claim may be for
    MaxClock,         \* bound on the clock
    MaxGrantChanges,  \* bound on the changes of connection grants
    MaxTerminations   \* bound on the terminations of the snap

ASSUME GateAssumption ==
    /\ IsFiniteSet(Calls)
    /\ LookupCounts \subseteq Nat
    /\ InitialGrants \subseteq SUBSET Origins
    /\ MaxClock \in Nat \ {0}

VARIABLES
    clock,        \* Date.now()
    granted,      \* the sites the store holds a connection grant of
    call,         \* the requests pending
    refusal,      \* the gate that refused in the last step, "none" if none did
    grantChanges, terminations

limits  == <<requestLog, inflight, inflightTotal>>
budgets == <<predialogLog, tokenReadLog>>
bounds  == <<clock, granted, grantChanges, terminations>>
vars    == <<entries, limits, budgets, bounds, call, refusal>>

DIALOG_METHODS == {"requestAccess", "setNetwork", "signTransaction", "signAuthEntry",
                   "signMessage", "addToken", "setActiveAccount"}

\* The methods that may look accounts up before their dialog, and those that
\* read token contracts.
Reviews     == {"signTransaction", "signAuthEntry"}
TokenReads  == {"addToken", "getBalances"}

\* reserved: whether the request was admitted under the connected sites'
\* ceiling; connected: the grant its handler read for its lookups.
NoCall == [origin |-> "none", method |-> "none", at |-> "idle",
           reserved |-> FALSE, connected |-> FALSE]

Init ==
    /\ entries = << >> /\ requestLog = << >>
    /\ inflight = [o \in Origins |-> 0] /\ inflightTotal = 0
    /\ predialogLog = << >> /\ tokenReadLog = << >>
    /\ clock = 1 /\ granted \in InitialGrants
    /\ call = [c \in Calls |-> NoCall]
    /\ refusal = "none"
    /\ grantChanges = 0 /\ terminations = 0

\* The requests that hold a slot.
Executing == {c \in Calls : call[c].at \notin {"idle", "asking"}}

-----------------------------------------------------------------------------
(***************************************************************************)
(* Routing a request, up to its slot.                                      *)
(***************************************************************************)
Answer(c, why) == call' = [call EXCEPT ![c] = NoCall] /\ refusal' = why

MovesTo(c, q) == call' = [call EXCEPT ![c] = q] /\ refusal' = "none"

\* The synchronous part of withInflightBudget, once the grant is known: the
\* checks and the increment of the slots.
Admit(c, q, connected) ==
    IF ~SlotFree(connected)
        THEN Answer(c, "busy") /\ UNCHANGED <<inflight, inflightTotal>>
    ELSE IF ~SiteSlotFree(q.origin)
        THEN Answer(c, "site busy") /\ UNCHANGED <<inflight, inflightTotal>>
    ELSE /\ MovesTo(c, [q EXCEPT !.at = "executing", !.reserved = connected])
         /\ TakeSlot(q.origin)

\* Only at the unconnected share is the grant worth a read of the store.
EnterBudget(c, q) ==
    IF inflightTotal >= MAX_INFLIGHT_UNCONNECTED
    THEN MovesTo(c, [q EXCEPT !.at = "asking"]) /\ UNCHANGED <<inflight, inflightTotal>>
    ELSE Admit(c, q, FALSE)

Route(c, o, m) ==
    /\ call[c].at = "idle"
    /\ LET q == [NoCall EXCEPT !.origin = o, !.method = m]
           checked == m \in DIALOG_METHODS
       IN /\ IF checked THEN DialogChecked(o, clock) ELSE UNCHANGED entries
          /\ IF checked /\ Blocked(o, clock)
             THEN Answer(c, "cooldown") /\ UNCHANGED limits
             ELSE /\ RateChecked(o, m, clock)
                  /\ IF ~RateAllowed(o, m, clock)
                     THEN Answer(c, "rate") /\ UNCHANGED <<inflight, inflightTotal>>
                     ELSE EnterBudget(c, q)
    /\ UNCHANGED <<budgets, bounds>>

\* Mutant: the slots were checked before the grant was asked for.
TakeSlotUnchecked(c) ==
    /\ call[c].at = "asking"
    /\ MovesTo(c, [call[c] EXCEPT !.at = "executing",
                                  !.reserved = call[c].origin \in granted])
    /\ TakeSlot(call[c].origin)
    /\ UNCHANGED <<entries, requestLog, budgets, bounds>>

\* isOriginConnected answers, or the read of the store fails.
GrantRead(c) ==
    /\ call[c].at = "asking"
    /\ \/ Admit(c, call[c], call[c].origin \in granted)
       \/ Answer(c, "none") /\ UNCHANGED <<inflight, inflightTotal>>
    /\ UNCHANGED <<entries, requestLog, budgets, bounds>>

-----------------------------------------------------------------------------
(***************************************************************************)
(* The handler, up to its answer.                                          *)
(***************************************************************************)
Handling(c, m) == call[c].at = "executing" /\ call[c].method \in m

\* A signing handler reads the grant for its lookups.
ReadConnected(c) ==
    /\ Handling(c, Reviews)
    /\ MovesTo(c, [call[c] EXCEPT !.at = "reviewing",
                                  !.connected = call[c].origin \in granted])
    /\ UNCHANGED <<entries, limits, budgets, bounds>>

\* A claim on the pre-dialog budget.  A denied one is disclosed in the dialog,
\* so the request goes on; a fee bump claims once more for its fee source.
LookUp(c) ==
    /\ call[c].at = "reviewing"
    /\ \E n \in LookupCounts :
          /\ takePredialogBudget(call[c].connected, n, clock)
          /\ refusal' = IF PredialogAllows(call[c].connected, n, clock) THEN "none"
                        ELSE "unchecked"
    /\ UNCHANGED <<entries, limits, tokenReadLog, bounds, call>>

\* A claim on the token-read budget; without it getBalances omits its token
\* rows and addToken refuses.
ReadTokens(c) ==
    /\ Handling(c, TokenReads)
    /\ \E n \in LookupCounts :
          /\ takeTokenReadBudget(n, clock)
          /\ IF call[c].method = "addToken" /\ ~TokenReadAllows(n, clock)
             THEN Answer(c, "too many reads") /\ ReleaseSlot(call[c].origin)
             ELSE /\ MovesTo(c, [call[c] EXCEPT !.at = "read"])
                  /\ UNCHANGED <<inflight, inflightTotal>>
    /\ UNCHANGED <<entries, requestLog, predialogLog, bounds>>

\* A handler shows its one dialog: the signing ones after their review, and
\* addToken after its reads.
OpenDialog(c) ==
    /\ call[c].method \in DIALOG_METHODS
    /\ call[c].at = CASE call[c].method \in Reviews -> "reviewing"
                      [] call[c].method = "addToken" -> "read"
                      [] OTHER -> "executing"
    /\ recordDialogOpened(call[c].origin, clock)
    /\ MovesTo(c, [call[c] EXCEPT !.at = "dialog"])
    /\ UNCHANGED <<limits, budgets, bounds>>

Approve(c) ==
    /\ call[c].at = "dialog"
    /\ clearDialogRejections(call[c].origin)
    /\ MovesTo(c, [call[c] EXCEPT !.at = "approved"])
    /\ UNCHANGED <<limits, budgets, bounds>>

\* Mutant: a rejected request keeps its slot.
RejectAndLeak(c) ==
    /\ call[c].at = "dialog"
    /\ recordDialogRejection(call[c].origin, clock)
    /\ Answer(c, "none")
    /\ UNCHANGED <<limits, budgets, bounds>>

\* The user rejects the dialog: the slot is released, and the router counts
\* the rejection.
Reject(c) ==
    /\ call[c].at = "dialog"
    /\ recordDialogRejection(call[c].origin, clock)
    /\ Answer(c, "none")
    /\ ReleaseSlot(call[c].origin)
    /\ UNCHANGED <<requestLog, budgets, bounds>>

\* Mutant: a request that waits for its slot releases one when it fails.
FinishUnadmitted(c) ==
    /\ call[c].at # "idle"
    /\ Answer(c, "none")
    /\ ReleaseSlot(call[c].origin)
    /\ UNCHANGED <<entries, requestLog, budgets, bounds>>

\* The handler returns or fails; a dialog nobody answers ends its request
\* this way too, and leaves no rejection.
Finish(c) ==
    /\ c \in Executing
    /\ Answer(c, "none")
    /\ ReleaseSlot(call[c].origin)
    /\ UNCHANGED <<entries, requestLog, budgets, bounds>>

-----------------------------------------------------------------------------
(***************************************************************************)
(* The environment.                                                        *)
(***************************************************************************)
Tick ==
    /\ clock < MaxClock
    /\ clock' = clock + 1 /\ refusal' = "none"
    /\ UNCHANGED <<entries, limits, budgets, call, granted, grantChanges, terminations>>

\* A grant is recorded, revoked by the user, or dropped with the store.
ChangeGrants ==
    /\ grantChanges < MaxGrantChanges
    /\ grantChanges' = grantChanges + 1 /\ refusal' = "none"
    /\ \E o \in Origins : granted' \in {granted \cup {o}, granted \ {o}}
    /\ UNCHANGED <<entries, limits, budgets, call, clock, terminations>>

\* MetaMask terminates the snap: nothing of this module is persisted.
Terminate ==
    /\ terminations < MaxTerminations
    /\ terminations' = terminations + 1 /\ refusal' = "none"
    /\ entries' = << >> /\ requestLog' = << >>
    /\ inflight' = [o \in Origins |-> 0] /\ inflightTotal' = 0
    /\ predialogLog' = << >> /\ tokenReadLog' = << >>
    /\ call' = [c \in Calls |-> NoCall]
    /\ UNCHANGED <<clock, granted, grantChanges>>

CallStep(c) ==
    \/ GrantRead(c) \/ ReadConnected(c) \/ LookUp(c) \/ ReadTokens(c)
    \/ OpenDialog(c) \/ Approve(c) \/ Reject(c) \/ Finish(c)

Next ==
    \/ \E c \in Calls, o \in Origins, m \in Methods : Route(c, o, m)
    \/ \E c \in Calls : CallStep(c)
    \/ Tick \/ ChangeGrants \/ Terminate

Spec == Init /\ [][Next]_vars
=============================================================================
