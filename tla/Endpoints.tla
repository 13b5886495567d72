----------------------------- MODULE Endpoints -----------------------------
(***************************************************************************)
(* What the wallet takes from the answers of Horizon and of the Soroban    *)
(* RPC (packages/snap/src/stellar/http.ts, horizon.ts, rpc.ts, ledger.ts). *)
(* A response is whatever an endpoint may send: it may not arrive, be too  *)
(* large, be no JSON, answer another request, or hold values of no use.    *)
(***************************************************************************)
EXTENDS Integers, Sequences, FiniteSetsExt

CONSTANT MAX_LEDGER_SEQUENCE

ASSUME LedgerAssumption == MAX_LEDGER_SEQUENCE \in Nat

Nothing == <<"nothing">>

\* reached: it arrived in time and from where it was asked for; size; status;
\* envelope: of the RPC's; body: a shape, then a value.
Response(status, body) ==
    [reached |-> TRUE, oversized |-> FALSE, status |-> status, envelope |-> "result",
     body |-> body]

\* The body, when it was read within its bound; one that is no JSON is null.
readJsonBounded(response) == IF response.oversized THEN Nothing ELSE response.body

\* What safeFetchJson hands on; Nothing stands for its exceptions.
safeFetchJson(response) ==
    IF response.reached THEN readJsonBounded(response) ELSE Nothing

\* A result of the asked shape, for a request of this wallet.
rpcCall(response, shape) ==
    IF /\ response.status = 200 /\ response.envelope = "result"
       /\ safeFetchJson(response) # Nothing /\ response.body[1] = shape
    THEN response.body ELSE Nothing

-----------------------------------------------------------------------------
NoLedger == 0

isLedgerSequence(value) == value \in 1 .. MAX_LEDGER_SEQUENCE

LedgerOf(body, shape) ==
    IF body # Nothing /\ body[1] = shape /\ isLedgerSequence(body[2]) THEN body[2] ELSE NoLedger

getLatestLedger(response) == LedgerOf(rpcCall(response, "latest"), "latest")

getHorizonLatestLedger(response) ==
    IF response.status = 200 THEN LedgerOf(safeFetchJson(response), "root") ELSE NoLedger

-----------------------------------------------------------------------------
\* What getAccountChecks answers; NoAnswer is its null.
NoAnswer == [answered |-> FALSE, exists |-> FALSE, memoRequired |-> FALSE, weight |-> 0,
             thresholds |-> <<0, 0, 0>>]

Missing == [NoAnswer EXCEPT !.answered = TRUE]

\* The weight of a key among the signers: that of its first entry that is a key.
WeightOf(key, signers) ==
    LET own == {i \in DOMAIN signers : /\ signers[i].type = "ed25519_public_key"
                                       /\ signers[i].key = key}
    IN IF own = {} THEN 0 ELSE signers[Min(own)].weight

getAccountChecks(response, key) ==
    CASE ~response.reached -> NoAnswer
      [] response.reached /\ response.status = 404 -> Missing
      [] OTHER ->
            IF response.status # 200 \/ readJsonBounded(response) = Nothing
                 \/ response.body[1] # "account"
            THEN NoAnswer
            ELSE LET account == response.body[2]
                 IN [answered |-> TRUE, exists |-> TRUE, memoRequired |-> account.memoRequired,
                     weight |-> WeightOf(key, account.signers), thresholds |-> account.thresholds]

-----------------------------------------------------------------------------
\* A submission: what the caller may be told of it.  Horizon answers with a
\* hash, the RPC with a hash and a status.
submitTransaction(response) ==
    IF response.status = 200 /\ safeFetchJson(response) # Nothing /\ response.body[1] = "hash"
    THEN response.body[2] ELSE "none"

sendTransaction(response) ==
    LET sent == rpcCall(response, "sent")
    IN IF sent # Nothing /\ sent[3] \in {"PENDING", "DUPLICATE"} THEN sent[2] ELSE "none"
=============================================================================
