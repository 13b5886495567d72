-------------------------- MODULE WalletRefinement --------------------------
(***************************************************************************)
(* How the stateful core of the snap (module Snap) implements the wallet   *)
(* it promises (module Wallet).                                            *)
(***************************************************************************)
EXTENDS SnapInvariants

\* A preference is the wallet's once its commit has been confirmed, or once
\* nobody is left to take it back: not between its write and its confirmation.
Committed == IF lock.wrote THEN lock.was ELSE store

\* The steps that have an effect on the wallet, where a script has them, and
\* whether the script has yet to ask the user.
Effective   == LockSteps \ {"clearNotice"}
Ahead(todo) == {k \in DOMAIN todo : todo[k] \in Effective}
Asks(todo)  == \E k \in DOMAIN todo : todo[k] = "dialog"

EffectOf(q, step) ==
    LET by == q.bnd.fp
    IN CASE step \in {"connect", "grant"} -> [do |-> "connect", of |-> q.call.origin, by |-> by]
         [] step = "network"    -> [do |-> "network", of |-> q.call.arg, by |-> by]
         [] step = "token"      -> [do |-> "token", of |-> <<q.snap.network, q.call.arg>>, by |-> by]
         [] step = "activate"   -> [do |-> "activate", of |-> q.call.arg, by |-> by]
         [] step \in {"reveal", "revealThrough"} ->
              [do |-> "reveal", of |-> Shown(q.call, q.snap), by |-> by]
         [] step = "disconnect" -> [do |-> "disconnect", of |-> q.call.arg, by |-> None]
         [] step = "untoken"    -> [do |-> "untoken", of |-> q.call.arg, by |-> None]

\* The effect the request q has agreed to: that of its script, once no dialog is
\* left before it.
Agreed(q) ==
    IF q.outcome # "running" \/ Asks(q.todo) \/ Ahead(q.todo) = {} THEN None
    ELSE EffectOf(q, q.todo[CHOOSE k \in Ahead(q.todo) : TRUE])

Promised == INSTANCE Wallet WITH
    MaxGrants <- MaxTrackedGrants,
    owner     <- Committed.fp,
    grants    <- [o \in Origins |-> IF HasGrant(Committed, o)
                                    THEN Committed.origins[o].disclosure ELSE None],
    accounts  <- Committed.accounts,
    active    <- Committed.active,
    network   <- Committed.network,
    tokens    <- Committed.tokens,
    agreed    <- [r \in Requests |-> Agreed(req[r])]

\* What is absent is told apart from what there may be.
ASSUME AbsenceAssumption ==
    None \notin Promised!Effects \cup Grants \cup {"none", "current"}

\* A script has one step with an effect at most, and asks before it.
OneEffect(todo) ==
    \A j \in Ahead(todo), k \in DOMAIN todo :
        todo[k] \in Effective \cup {"dialog"} => k <= j

\* So have those of the running requests: the inductive invariant that the
\* refinement adds to those of module SnapInvariants.
EffectInv == \A r \in Requests : Running(r) => OneEffect(req[r].todo)

\* The queue of mutators, their confirmations and roll backs, the refusals of
\* the platform and the terminations of the snap amount to a wallet that has
\* each approved effect at one instant or never, of the phrase it was approved
\* under, and starts over when the phrase changes.
ImplementsWallet == Promised!Spec
=============================================================================
