------------------------------- MODULE MCPage -------------------------------
(***************************************************************************)
(* An instance of WalletPage for TLC: two readings and an action overlap   *)
(* while the wallet is switched and the snap is updated under the page.    *)
(***************************************************************************)
EXTENDS WalletPage

CONSTANTS r1, r2, h1, h2

MCCalls == Refreshes \X {1, 2} \cup {Work}

MCWallets == {[network |-> "testnet", account |-> "own"],
              [network |-> "public", account |-> Unconnected]}
=============================================================================
