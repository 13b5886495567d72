------------------------------- MODULE MCGate -------------------------------
(***************************************************************************)
(* Instances of GateProperties for TLC, one gate at a time: sites are      *)
(* interchangeable, and so are the requests they make.                     *)
(***************************************************************************)
EXTENDS GateProperties, TLC

CONSTANTS anna, bert,     \* sites
          c1, c2, c3, c4  \* requests

AnyGrants == SUBSET Origins
NoLimits  == << >>
SomeRates == [m \in {"signTransaction", "getBalances"} |-> 1]

\* The requests pending are of these methods, and have come no further than this.
Only(methods, places) ==
    \A c \in Calls : call[c].at # "idle" => call[c].method \in methods /\ call[c].at \in places

OneAtATime == Cardinality({c \in Calls : call[c].at # "idle"}) <= 1

\* Without any grant the sites overlap dialogs, of a method that is not rated; when
\* one of them is connected they make lookups, and rated requests when all are.
RationFamilies ==
    CASE granted = {}      -> Only({"signMessage"}, {"asking", "executing", "dialog", "approved"})
      [] granted = Origins -> Only(DOMAIN RATE_LIMITS, {"executing"}) /\ OneAtATime
      [] OTHER             -> Only({"signTransaction"}, {"executing", "reviewing"}) /\ OneAtATime

Symmetry == Permutations(Calls) \cup Permutations(Origins)
=============================================================================
