----------------------------- MODULE MCBalances -----------------------------
(***************************************************************************)
(* An instance of BalanceCache for TLC: one address on two networks, and a *)
(* cache with room for one or two of them.                                 *)
(***************************************************************************)
EXTENDS BalanceCache, TLC

CONSTANTS anna, bert  \* readers

MCQueries == {[network |-> n, address |-> "own"] : n \in {"testnet", "public"}}

Symmetry == Permutations(Readers)
=============================================================================
