------------------------------- MODULE Dialogs -------------------------------
(***************************************************************************)
(* The confirmation a signing request shows (packages/snap/src/ui          *)
(* /transaction.tsx and ui/dialogs.tsx): the rows that are decoded from    *)
(* the request.  The raw XDR below them, which nobody reads, is left out;  *)
(* module Review adds what the network said.                               *)
(*                                                                         *)
(* A transaction may be wrapped in a fee bump: its envelope then names a   *)
(* fee source.                                                             *)
(***************************************************************************)
EXTENDS Operations

CONSTANT Base   \* an address -> the account behind it

FeeBump(envelope) == envelope.feeSource # Absent

\* The one operation of a Soroban transaction, in a set.
SorobanOperation(tx) ==
    IF Len(tx.operations) = 1 THEN {op \in {tx.operations[1]} : op.type \in SorobanTypes} ELSE {}

IsSoroban(tx) == SorobanOperation(tx) # {}

Executes(tx) == tx.sequence # "0"

-----------------------------------------------------------------------------
\* Mutant: the inline form of a memo alone.
MemoInline(memo) ==
    CASE memo[1] = "none" -> << >>
      [] memo[1] = "text" -> Row("Memo (text)", sanitizeInlineText(Decoded(memo[2])))
      [] OTHER            -> Row(memo[1], <<memo[2]>>)

renderMemo(memo) ==
    CASE memo[1] = "none" -> << >>
      [] memo[1] = "text" ->
            LET display == bytesToDisplay(memo[2])
            IN IF isHexDisplay(display)
               THEN Row("Display differs from signed text", << >>)
                    \o Row("Memo (text)", sanitizeInlineText(Decoded(memo[2])))
                    \o Row("Memo (exact bytes)", display)
               ELSE lossyTextBanner(display)
                    \o Row("Memo (text)", sanitizeInlineText(display))
                    \o ExactCopy("Memo (exact)", display)
      [] OTHER -> Row(memo[1], <<memo[2]>>)

Bounded(time) == time \notin {Absent, "0"}

renderPreconditions(tx) ==
    LET bounds == tx.ledgerBounds
    IN When(Bounded(tx.minTime), Row("Valid after", <<tx.minTime>>))
       \o Row("Valid until", IF Bounded(tx.maxTime) THEN <<tx.maxTime>> ELSE <<"No expiry">>)
       \o When(bounds # <<Absent>> /\ bounds # <<"0", "0">>,
               Row("Ledger bounds",
                   <<bounds[1], " to ", IF bounds[2] = "0" THEN "unbounded" ELSE bounds[2]>>))
       \o Optional("Min account sequence", tx.minSequence)
       \o When(Bounded(tx.minSequenceAge), Row("Min sequence age", <<tx.minSequenceAge>>))
       \o When(Bounded(tx.minSequenceGap), Row("Min sequence ledger gap", <<tx.minSequenceGap>>))
       \o When(tx.extraSigners # << >>, Row("Extra required signers", tx.extraSigners))

Foreign(address, signer) == Base[address] # Base[signer]

sourceMismatchBanner(tx, signer) ==
    LET Acts(i) == tx.operations[i].source # Absent /\ Foreign(tx.operations[i].source, signer)
        others  == SelectSeq([i \in DOMAIN tx.operations |-> i], Acts)
    IN When(Foreign(tx.source, signer) \/ others # << >>,
            Row("Not the signing account's transaction",
                (IF Foreign(tx.source, signer) THEN <<truncate(tx.source)>> ELSE << >>)
                \o [i \in DOMAIN others |-> ToString(others[i])]))

renderSummary(tx, signer, inner) ==
    When(Executes(tx) /\ ~inner, sourceMismatchBanner(tx, signer))
    \o When(Executes(tx) /\ ~Bounded(tx.maxTime), Row("This signature never expires", << >>))
    \o Row("Source", <<tx.source>>) \o Row("Max fee", stroopsToXlm(tx.fee))
    \o Row("Sequence", <<tx.sequence>>) \o renderMemo(tx.memo) \o renderPreconditions(tx)

renderOperations(tx) == Rows(tx.operations, renderOperation)

\* A footprint without keys shows its figures all the same.
renderFootprint(tx) ==
    When(tx.sorobanData # NoData,
         Row("Contract data accessed", summarizeFootprint(tx.sorobanData).text))

-----------------------------------------------------------------------------
\* What every confirmation opens and closes with: the site, which approving
\* connects, the network, and the account.
Opening(request) ==
    Row("Site", displayOrigin(request.origin)) \o originCautionBanner(request.origin)
    \o Row("Network", <<request.network>>)

SigningWith(request) == Row("Signing with", <<ToString(request.index), " ", request.address>>)

buildSignTransactionDialog(request) ==
    LET envelope == request.subject[2]
        tx       == envelope.tx
        submit   == When(request.submit, Row("Sign and submit", << >>))
    IN IF FeeBump(envelope)
       THEN Card("Sign fee bump") \o Opening(request) \o submit \o SigningWith(request)
            \o When(Foreign(envelope.feeSource, request.address),
                    Row("Fee source is not the signing account", <<truncate(envelope.feeSource)>>))
            \o Row("Fee source", <<envelope.feeSource>>)
            \o Row("New max fee", stroopsToXlm(envelope.fee))
            \o Card("Inner transaction") \o renderSummary(tx, request.address, TRUE)
            \o renderOperations(tx) \o renderFootprint(tx)
       ELSE (IF Executes(tx) THEN Card("Sign transaction") \o Opening(request) \o submit
             ELSE Card("Signature request") \o Opening(request))
            \o SigningWith(request) \o renderSummary(tx, request.address, FALSE)
            \o renderOperations(tx) \o renderFootprint(tx)

SignAuthEntryDialog(request) ==
    LET entry == request.subject[2]
    IN Card("Authorize contract call") \o Opening(request)
       \o Row("Authorized calls", decodeAuthEntry(entry).lines)
       \o Row("Nonce", <<entry.nonce>>) \o SigningWith(request)

SignMessageDialog(request) ==
    LET message == request.subject[2]
    IN Card("Sign message") \o Opening(request) \o lossyTextBanner(message)
       \o Row("Message", message) \o ExactCopy("Message (exact)", message) \o SigningWith(request)

Dialog(request) ==
    CASE request.subject[1] = "transaction" -> buildSignTransactionDialog(request)
      [] request.subject[1] = "authEntry"   -> SignAuthEntryDialog(request)
      [] OTHER                              -> SignMessageDialog(request)
=============================================================================
