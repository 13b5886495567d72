----------------------------- MODULE Connector -----------------------------
(***************************************************************************)
(* The client of a page (packages/connector/src/snap.ts): every invocation *)
(* of the published snap first reads wallet_getSnaps and goes on only when *)
(* the pinned release is installed, by a lookup begun after the invocation *)
(* was asked for and not outdated by one asked for since.                  *)
(*                                                                         *)
(* A generation is only ever compared with the newest one, so a lookup     *)
(* keeps whether its own is the newest; a caller's is its lookup's.  A     *)
(* lookup bears the name of the call that began it.  MetaMask may read     *)
(* what it answers at any moment between a request and its reply, so a     *)
(* request keeps all there was to be read in the meantime.                 *)
(***************************************************************************)
EXTENDS Integers, FiniteSets

CONSTANTS
    Calls,         \* the invocations that may be under way
    Pin,           \* version: the release the client names
    OtherVersions, \* those MetaMask may report instead
    None           \* null

VARIABLES
    installed,     \* the version under the snap's id in MetaMask
    wallet,        \* what the snap answers from
    pinned,        \* history: the pin has been installed since the newest invocation
    client         \* the private fields of StellarSnap, and its calls

NoLookup == [seen |-> {}, current |-> FALSE]

NoInvocation == [at |-> "idle", lookup |-> None, seen |-> {}]

NewClient == [call |-> [c \in Calls |-> NoInvocation],
              lookup |-> [c \in Calls |-> NoLookup],
              check |-> None]  \* #versionCheck

InFlight(k, l) == k.lookup[l].seen # {}

-----------------------------------------------------------------------------
(***************************************************************************)
(* The steps of the client k, as functions of its fields.                  *)
(***************************************************************************)
Waiting(k, l) == {c \in Calls : k.call[c].at = "waiting" /\ k.call[c].lookup = l}

Become(k, callers, invocation) ==
    [k EXCEPT !.call = [c \in Calls |-> IF c \in callers THEN invocation ELSE @[c]]]

Await(k, callers, l) == Become(k, callers, [at |-> "waiting", lookup |-> l, seen |-> {}])

Start(k, c) ==
    Await([k EXCEPT !.check = c, !.lookup[c] = [seen |-> {installed}, current |-> TRUE]],
          {c}, c)

\* ensurePinnedVersion: callers of the newest generation share its lookup, or
\* the first of them begins it; which one does is only a name.
ensurePinnedVersion(k, callers) ==
    IF callers = {} THEN k
    ELSE IF k.check # None /\ k.lookup[k.check].current THEN Await(k, callers, k.check)
    ELSE LET c == CHOOSE c \in callers : TRUE IN Await(Start(k, c), callers, c)

\* Mutant: a lookup in flight serves a new invocation.
ShareLookup(k, c) ==
    IF k.check # None THEN Await(k, {c}, k.check) ELSE Start(k, c)

\* invoke: a new generation, and its lookup.
Demand(k, c) ==
    Start([k EXCEPT !.lookup = [l \in Calls |-> [@[l] EXCEPT !.current = FALSE]]], c)

\* The reply of lookup l; it is no longer the one to share.
Done(k, l) == [k EXCEPT !.check = IF @ = l THEN None ELSE @, !.lookup[l] = NoLookup]

Asking  == [at |-> "asking", lookup |-> None, seen |-> {wallet}]
Refused == [at |-> "failed", lookup |-> None, seen |-> {}]

\* Mutant: each caller goes on with the answer to its own lookup.
SettleOnce(k, l, version) ==
    Become(Done(k, l), Waiting(k, l), IF version = Pin THEN Asking ELSE Refused)

\* ensureCurrentPinnedVersion, of every caller that awaited l: refuse, invoke
\* the snap, or repeat the comparison for the newest generation.
Settle(k, l, version) ==
    LET done == Done(k, l)
    IN IF version # Pin THEN Become(done, Waiting(k, l), Refused)
       ELSE IF k.lookup[l].current THEN Become(done, Waiting(k, l), Asking)
       ELSE ensurePinnedVersion(done, Waiting(k, l))

-----------------------------------------------------------------------------
(***************************************************************************)
(* MetaMask.                                                               *)
(***************************************************************************)
\* It answers wallet_getSnaps; a failure refuses as another version does.
Reply(l) ==
    \E version \in client.lookup[l].seen : client' = Settle(client, l, version)

\* Another release replaces the one under the id.
Update(version) ==
    /\ installed' = version /\ pinned' = (pinned \/ version = Pin)
    /\ client' = [client EXCEPT !.lookup = [l \in Calls |->
          IF InFlight(client, l) THEN [client.lookup[l] EXCEPT !.seen = @ \cup {version}]
          ELSE client.lookup[l]]]

\* The wallet behind the snap changes.
Switched(k, w) ==
    [k EXCEPT !.call = [c \in Calls |->
        IF k.call[c].at = "asking" THEN [k.call[c] EXCEPT !.seen = @ \cup {w}]
        ELSE k.call[c]]]
=============================================================================
