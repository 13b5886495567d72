----------------------------- MODULE Operations -----------------------------
(***************************************************************************)
(* The card a signing dialog shows of each operation                       *)
(* (packages/snap/src/ui/transaction.tsx): its rows, in order.  An         *)
(* operation is a record with a type; its fields are texts for names and   *)
(* values, and otherwise the strings their conversions give.               *)
(***************************************************************************)
EXTENDS ScVals

CONSTANT MAX_CLAIM_PREDICATE_DEPTH

SorobanTypes == {"invokeHostFunction", "extendFootprintTtl", "restoreFootprint"}

SUPPORTED_OPERATION_TYPES ==
    {"payment", "createAccount", "changeTrust", "pathPaymentStrictSend",
     "pathPaymentStrictReceive", "manageData", "setOptions", "accountMerge",
     "manageSellOffer", "manageBuyOffer", "createPassiveSellOffer",
     "createClaimableBalance", "claimClaimableBalance", "liquidityPoolDeposit",
     "liquidityPoolWithdraw"} \cup SorobanTypes

-----------------------------------------------------------------------------
PredicatesIn(predicate) ==
    CASE predicate[1] \in {"and", "or"} -> ToSet(predicate[2])
      [] predicate[1] = "not"           -> ToSet(Tail(predicate))
      [] OTHER                          -> {}

\* Cut stands for the exception of a predicate that cannot be shown.
describeClaimPredicate(root) ==
  LET describe[predicate \in Nested(root, PredicatesIn, MAX_CLAIM_PREDICATE_DEPTH),
               depth \in 0 .. MAX_CLAIM_PREDICATE_DEPTH] ==
    LET type == predicate[1]
        Inner(p) == describe[p, depth + 1]
        Inners(word) ==
            Within(<<"(">>, Join([i \in DOMAIN predicate[2] |-> Inner(predicate[2][i])], word),
                   <<")">>)
    IN CASE depth >= MAX_CLAIM_PREDICATE_DEPTH -> Cut(<<type>>)
         [] type = "unconditional" -> Whole(<<type>>)
         [] type = "and" -> Inners(" AND ")
         [] type = "or"  -> Inners(" OR ")
         [] type = "not" /\ Len(predicate) = 2 -> Within(<<"NOT ">>, Inner(predicate[2]), << >>)
         [] type = "absolute" -> Whole(<<"before unix time ", predicate[2]>>)
         [] type = "relative" -> Whole(<<"within ", predicate[2], " seconds">>)
         [] OTHER -> Cut(<<type>>)
  IN describe[root, 0]

\* Mutant: the decimal value alone.
PriceValue(price) == <<ToString((price.n * Scale) \div price.d)>>

\* The fraction, which is exact, then its decimal value.
formatPrice(price) ==
    LET scaled == (price.n * Scale) \div price.d
    IN <<ToString(price.n), "/", ToString(price.d)>>
       \o IF price.n <= 0 \/ price.d <= 0 THEN <<"(invalid price)">>
          ELSE <<IF scaled * price.d = price.n * Scale THEN "=" ELSE "about">>
               \o stroopsToXlm(scaled)

isZeroAmount(amount) == amount = "0"

ACCOUNT_FLAG_NAMES ==
    <<<<1, "AUTH_REQUIRED">>, <<2, "AUTH_REVOCABLE">>, <<4, "AUTH_IMMUTABLE">>,
      <<8, "AUTH_CLAWBACK_ENABLED">>>>

hasFlag(flags, bit) == (flags \div bit) % 2 = 1

describeAccountFlags(flags) ==
    LET Name(flag) == IF hasFlag(flags, flag[1]) THEN <<flag[2]>> ELSE << >>
        unknown == flags - (flags % 16)
    IN <<ToString(flags)>> \o Rows(ACCOUNT_FLAG_NAMES, Name)
       \o IF unknown = 0 THEN << >> ELSE <<"unknown flag ", ToString(unknown)>>

renderAssetFull(label, asset) ==
    When(formatAssetFull(asset) # << >>, Row(label, formatAssetFull(asset)))

renderPathAssets(path) ==
    When(path # << >>,
         Row("Path", Separated([i \in DOMAIN path |-> AssetInFull(path[i])], "\n")))

describeSigner(signer) == <<signer.type, ":", signer.key>>

lossyTextBanner(text) ==
    When(isLossyInline(text), Row("Display differs from signed text", << >>))

rawBytesNotice(display) ==
    When(isHexDisplay(display), Row("This field is not plain text", << >>))

\* The escaped copy that goes with a text its row shows inexactly.
ExactCopy(label, text) ==
    When(isLossyInline(text), Row(label, escapeHiddenCharacters(text)))

renderAuthorizations(entries) ==
    When(entries # << >>, Row("Authorizations", summarizeAuthEntries(entries)))

-----------------------------------------------------------------------------
(***************************************************************************)
(* The cards.                                                              *)
(***************************************************************************)
Card(title) == Row(title, << >>)

Of(amount, asset) == <<amount, " ">> \o formatAsset(asset)

Payment(op) ==
    Card("Payment") \o Row("Amount", Of(op.amount, op.asset))
    \o renderAssetFull("Asset", op.asset) \o Row("Destination", <<op.destination>>)

CreateAccount(op) ==
    Card("Create account") \o Row("Starting balance", <<op.startingBalance>>)
    \o Row("New account", <<op.destination>>)

ChangeTrust(op) ==
    LET removing == isZeroAmount(op.limit)
    IN Card(IF removing THEN "Remove trustline" ELSE "Change trustline")
       \o Row("Asset", formatAsset(op.line)) \o renderAssetFull("Asset (full)", op.line)
       \o When(Pool(op.line), Row("Liquidity pool (full)", formatLiquidityPool(op.line)))
       \o Row("Limit", <<IF removing THEN "Remove (0)" ELSE op.limit>>)

PathPayment(op, card, sent, received) ==
    card \o sent \o received
    \o renderAssetFull("Send asset", op.sendAsset)
    \o renderAssetFull("Receive asset", op.destAsset)
    \o renderPathAssets(op.path) \o Row("Destination", <<op.destination>>)

PathPaymentStrictSend(op) ==
    PathPayment(op, Card("Path payment (strict send)"),
                Row("Send", Of(op.sendAmount, op.sendAsset)),
                Row("Minimum received", Of(op.destMin, op.destAsset)))

PathPaymentStrictReceive(op) ==
    PathPayment(op, Card("Path payment (strict receive)"),
                Row("Maximum sent", Of(op.sendMax, op.sendAsset)),
                Row("Received", Of(op.destAmount, op.destAsset)))

ManageData(op) ==
    LET key == bytesToDisplay(op.name)
    IN Card("Manage data") \o rawBytesNotice(key) \o lossyTextBanner(key)
       \o Row("Key", key) \o ExactCopy("Key (exact)", key)
       \o IF op.value = <<Absent>> THEN Row("Value (none)", <<"Delete entry">>)
          ELSE Row("Value", bytesToDisplay(op.value))

Signer(op) ==
    LET removes == op.signer.weight = "0"
    IN When(op.signer.type # Absent,
            Row("Signer weight", <<op.signer.weight>>)
            \o Row(IF removes THEN "Signer key being removed" ELSE "Signer key",
                   describeSigner(op.signer)))

HomeDomain(op) ==
    LET domain == bytesToDisplay(op.homeDomain)
    IN When(op.homeDomain # <<Absent>>,
            rawBytesNotice(domain) \o lossyTextBanner(domain)
            \o Row("Home domain",
                   IF isHexDisplay(domain) THEN domain ELSE sanitizeInlineText(domain))
            \o ExactCopy("Home domain (exact)", domain))

Flags(label, flags) == When(flags # -1, Row(label, describeAccountFlags(flags)))

SetOptions(op) ==
    Card("Set options")
    \o When(op.masterWeight = "0", Card("Master key will be disabled"))
    \o When(op.setFlags # -1 /\ hasFlag(op.setFlags, 4), Card("Irreversible: AUTH_IMMUTABLE"))
    \o Signer(op)
    \o Optional("Master key weight", op.masterWeight)
    \o Optional("Inflation destination", op.inflationDest)
    \o Optional("Low threshold", op.lowThreshold)
    \o Optional("Medium threshold", op.medThreshold)
    \o Optional("High threshold", op.highThreshold)
    \o HomeDomain(op)
    \o Flags("Set flags", op.setFlags) \o Flags("Clear flags", op.clearFlags)

AccountMerge(op) == Card("Account merge") \o Row("Destination", <<op.destination>>)

OfferHeading(op, amount, kind) ==
    <<IF isZeroAmount(amount) THEN "Delete " ELSE IF op.offerId = "0" THEN "Create " ELSE "Update ",
      kind, IF isZeroAmount(amount) \/ op.offerId # "0" THEN op.offerId ELSE "">>

SellOffer(op) ==
    LET passive  == op.type = "createPassiveSellOffer"
        deleting == ~passive /\ isZeroAmount(op.amount)
    IN Row("Offer", IF passive THEN <<"Create passive sell offer">>
                    ELSE OfferHeading(op, op.amount, "sell offer #"))
       \o (IF deleting THEN Row("Amount", <<"0 (removes offer #", op.offerId, ")">>)
           ELSE Row("Selling", Of(op.amount, op.selling)))
       \o Row("Buying", formatAsset(op.buying)) \o Row("Price", formatPrice(op.price))
       \o renderAssetFull("Selling asset", op.selling)
       \o renderAssetFull("Buying asset", op.buying)

BuyOffer(op) ==
    Row("Offer", OfferHeading(op, op.buyAmount, "buy offer #"))
    \o (IF isZeroAmount(op.buyAmount) THEN Row("Amount", <<"0 (removes offer #", op.offerId, ")">>)
        ELSE Row("Buying", Of(op.buyAmount, op.buying)))
    \o Row("Paying with", formatAsset(op.selling)) \o Row("Price", formatPrice(op.price))
    \o renderAssetFull("Buying asset", op.buying)
    \o renderAssetFull("Paying asset", op.selling)

CreateClaimableBalance(op) ==
    LET Claimant(c) ==
            <<"#", c.destination, "\n", "can claim: ">>
            \o describeClaimPredicate(c.predicate).text
    IN Card("Create claimable balance") \o Row("Amount", Of(op.amount, op.asset))
       \o renderAssetFull("Asset", op.asset)
       \o Row("Claimants",
              Separated([i \in DOMAIN op.claimants |-> Claimant(op.claimants[i])], "\n"))

ClaimClaimableBalance(op) == Card("Claim claimable balance") \o Row("Balance ID", <<op.balanceId>>)

LiquidityPoolDeposit(op) ==
    Card("Deposit into liquidity pool") \o Row("Pool ID", <<op.liquidityPoolId>>)
    \o Row("Max amount A", <<op.maxAmountA>>) \o Row("Max amount B", <<op.maxAmountB>>)
    \o Row("Min price", formatPrice(op.minPrice)) \o Row("Max price", formatPrice(op.maxPrice))

LiquidityPoolWithdraw(op) ==
    Card("Withdraw from liquidity pool") \o Row("Pool ID", <<op.liquidityPoolId>>)
    \o Row("Pool shares", <<op.amount>>)
    \o Row("Min amount A", <<op.minAmountA>>) \o Row("Min amount B", <<op.minAmountB>>)

InvokeHostFunction(op) ==
    Card(op.func[1]) \o Row("Host function", decodeHostFunction(op.func).text)
    \o renderAuthorizations(op.auth)

ExtendFootprintTtl(op) ==
    Card("Extend contract data lifetime") \o Row("Extend to", <<op.extendTo>>)

renderOperationBody(op) ==
    CASE op.type = "payment"                  -> Payment(op)
      [] op.type = "createAccount"            -> CreateAccount(op)
      [] op.type = "changeTrust"              -> ChangeTrust(op)
      [] op.type = "pathPaymentStrictSend"    -> PathPaymentStrictSend(op)
      [] op.type = "pathPaymentStrictReceive" -> PathPaymentStrictReceive(op)
      [] op.type = "manageData"               -> ManageData(op)
      [] op.type = "setOptions"               -> SetOptions(op)
      [] op.type = "accountMerge"             -> AccountMerge(op)
      [] op.type \in {"manageSellOffer", "createPassiveSellOffer"} -> SellOffer(op)
      [] op.type = "manageBuyOffer"           -> BuyOffer(op)
      [] op.type = "createClaimableBalance"   -> CreateClaimableBalance(op)
      [] op.type = "claimClaimableBalance"    -> ClaimClaimableBalance(op)
      [] op.type = "liquidityPoolDeposit"     -> LiquidityPoolDeposit(op)
      [] op.type = "liquidityPoolWithdraw"    -> LiquidityPoolWithdraw(op)
      [] op.type = "invokeHostFunction"       -> InvokeHostFunction(op)
      [] op.type = "extendFootprintTtl"       -> ExtendFootprintTtl(op)
      [] op.type = "restoreFootprint"         -> Card("Restore archived contract data")
      [] OTHER                                -> Card("not decoded by the snap")

renderOperation(op) == renderOperationBody(op) \o Optional("Operation source", op.source)

-----------------------------------------------------------------------------
\* The operations signTransaction refuses since a card would not show them.
Undisplayable(op) ==
    \/ /\ op.type = "createClaimableBalance"
       /\ \E i \in DOMAIN op.claimants : describeClaimPredicate(op.claimants[i].predicate).cut
    \/ /\ op.type = "invokeHostFunction"
       /\ decodeHostFunction(op.func).cut \/ findUndisplayableAuthEntry(op.auth)
=============================================================================
