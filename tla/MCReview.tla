------------------------------ MODULE MCReview ------------------------------
(***************************************************************************)
(* An instance of Review for TLC: requests that differ from one another in *)
(* little, each a base request with a field or two changed.  Addresses     *)
(* come in twins, whose shortened forms are the same.                      *)
(***************************************************************************)
EXTENDS ReviewProperties

\* A record, and what one change of it gives; a change is a field and a value.
Variants(record, changes) == {record} \cup {[record EXCEPT ![c[1]] = c[2]] : c \in changes}

Variant(record, changes) == Variants(record, changes) \ {record}

MCBase == [a \in {"own", "other", "twin", "issuer", "issuer twin", "C", "C twin"} |-> a]
          @@ ("own muxed" :> "own" @@ "other muxed" :> "other")

MCEnds == [a \in DOMAIN MCBase |-> a]
          @@ ("USDC:issuer" :> "USDC" @@ "USDC:issuer twin" :> "USDC" @@ "none" :> "none")
ShortEnds ==
    ("twin" :> "other" @@ "issuer twin" :> "issuer" @@ "C twin" :> "C") @@ MCEnds

MCSacOf == "USDC:issuer" :> "C" @@ "USDC:issuer twin" :> "elsewhere"

-----------------------------------------------------------------------------
\* Texts: those that look like another, that are like an escaped or a quoted
\* one, or like what the layout adds.
Plain   == {<<"a">>, <<"a", "b">>, <<"a", " ", "b">>}
Hiding  == {<<"a", "zero-width", "b">>, <<"a", "\n", "b">>}
Escaped == {<<"a", "\\", "u{", "zero-width", "}", "b">>, <<"a", "\\", "n", "b">>, <<"\"", "a", "\"">>}
Bytes   == {<<"a", "byte">>, <<"a", "?">>, <<"hex:", "0xa", "0xbyte">>}
MCTexts == Plain \cup Hiding \cup Escaped \cup Bytes

Usdc  == [code |-> "USDC", issuer |-> "issuer"]
Fake  == [code |-> "USDC", issuer |-> "issuer twin"]
Named == [code |-> "XLM", issuer |-> "issuer"]
Assets == {Native, Usdc, Fake, Named}

Share(a, b) == [assetA |-> a, assetB |-> b, fee |-> "30"]

Field(name, values) == {<<name, v>> : v \in values}

Price(n, d) == [n |-> n, d |-> d]
Prices == {Price(1, 3), Price(33, 100), Price(2, 6), Price(1, 2), Price(0, 1)}

Pay == [type |-> "payment", source |-> Absent, amount |-> "1", asset |-> Native,
        destination |-> "other"]

Accounts == {"other", "twin", "other muxed", "own"}

Payments ==
    Variants(Pay, Field("amount", {"2"}) \cup Field("asset", Assets)
                  \cup Field("destination", Accounts) \cup Field("source", Accounts))
    \cup Variants([type |-> "createAccount", source |-> Absent, startingBalance |-> "1",
                   destination |-> "other"], Field("destination", {"twin"}))
    \cup Variants([type |-> "accountMerge", source |-> Absent, destination |-> "other"],
                  Field("destination", {"twin"}))

PathPayments ==
    LET SendPath    == [type |-> "pathPaymentStrictSend", source |-> Absent, sendAmount |-> "1",
                        sendAsset |-> Native, destMin |-> "1", destAsset |-> Usdc,
                        path |-> << >>, destination |-> "other"]
        ReceivePath == [type |-> "pathPaymentStrictReceive", source |-> Absent, sendMax |-> "1",
                        sendAsset |-> Native, destAmount |-> "1", destAsset |-> Usdc,
                        path |-> << >>, destination |-> "other"]
        changes == Field("sendAsset", {Fake}) \cup Field("destAsset", {Fake})
                   \cup Field("path", {<<Native>>, <<Usdc>>, <<Fake>>, <<Usdc, Fake>>, <<Fake, Usdc>>})
    IN Variants(SendPath, changes \cup Field("destMin", {"0"}))
       \cup Variants(ReceivePath, changes \cup Field("sendMax", {"2"}))

Trustlines ==
    Variants([type |-> "changeTrust", source |-> Absent, line |-> Usdc, limit |-> "1"],
             Field("line", {Fake, Named, Share(Native, Usdc), Share(Native, Fake), Share(Usdc, Fake)})
             \cup Field("limit", {"0"}))

Settings ==
    Variants([type |-> "manageData", source |-> Absent, name |-> <<"a">>, value |-> <<"a">>],
             Field("name", MCTexts) \cup Field("value", MCTexts \cup {<<Absent>>, << >>}))
    \cup Variants([type |-> "setOptions", source |-> Absent, masterWeight |-> Absent,
                   signer |-> [type |-> Absent, key |-> "none", weight |-> "0"],
                   inflationDest |-> Absent, lowThreshold |-> Absent, medThreshold |-> Absent,
                   highThreshold |-> Absent, homeDomain |-> <<Absent>>,
                   setFlags |-> -1, clearFlags |-> -1],
                  Field("masterWeight", {"0", "1"}) \cup Field("homeDomain", MCTexts \cup {<< >>})
                  \cup Field("inflationDest", {"other", "twin"}) \cup Field("medThreshold", {"1"})
                  \cup Field("lowThreshold", {"1"}) \cup Field("highThreshold", {"1"})
                  \cup Field("setFlags", {0, 4, 6, 16, 22}) \cup Field("clearFlags", {4})
                  \cup Field("signer", {[type |-> t, key |-> k, weight |-> w] :
                                          t \in {"ed25519", "sha256"}, k \in {"other", "twin"},
                                          w \in {"0", "1"}}))

Offers ==
    LET offer == [source |-> Absent, selling |-> Native, buying |-> Usdc, price |-> Price(1, 3),
                  offerId |-> "0"]
        changes == Field("price", Prices) \cup Field("selling", {Fake}) \cup Field("buying", {Fake})
                   \cup Field("offerId", {"1"})
    IN Variants([type |-> "manageSellOffer", amount |-> "1"] @@ offer,
                changes \cup Field("amount", {"0"}))
       \cup Variants([type |-> "manageSellOffer", amount |-> "0"] @@ offer, changes)
       \cup Variants([type |-> "createPassiveSellOffer", amount |-> "1"] @@ offer,
                     Field("price", {Price(2, 6)}))
       \cup Variants([type |-> "manageBuyOffer", buyAmount |-> "1"] @@ offer,
                     changes \cup Field("buyAmount", {"0"}))

Predicates ==
    LET always == <<"unconditional">>
        early  == <<"absolute", "1">>
        soon   == <<"relative", "1">>
    IN {always, early, soon, <<"not", early>>, <<"not">>, <<"and", <<early, soon>>>>,
        <<"or", <<early, soon>>>>, <<"and", <<soon, early>>>>, <<"not", <<"not", early>>>>,
        <<"not", <<"not", soon>>>>, <<"unknown">>}

Balances ==
    LET Claimant(a, p) == [destination |-> a, predicate |-> p]
    IN Variants([type |-> "createClaimableBalance", source |-> Absent, amount |-> "1",
                 asset |-> Native, claimants |-> <<Claimant("other", <<"unconditional">>)>>],
                Field("claimants", {<<Claimant(a, p)>> : a \in {"other", "twin"}, p \in Predicates})
                \cup Field("claimants", {<<Claimant("other", p), Claimant("twin", p)>> :
                                           p \in {<<"unconditional">>}}))
       \cup {[type |-> "claimClaimableBalance", source |-> Absent, balanceId |-> id] :
               id \in {"1", "2"}}
       \cup Variants([type |-> "liquidityPoolDeposit", source |-> Absent, liquidityPoolId |-> "1",
                      maxAmountA |-> "1", maxAmountB |-> "1", minPrice |-> Price(1, 3),
                      maxPrice |-> Price(1, 2)],
                     Field("minPrice", Prices) \cup Field("maxAmountB", {"2"}))
       \cup {[type |-> "liquidityPoolWithdraw", source |-> Absent, liquidityPoolId |-> "1",
              amount |-> "1", minAmountA |-> m, minAmountB |-> "1"] : m \in {"0", "1"}}

ClassicOperations ==
    Payments \cup PathPayments \cup Trustlines \cup Settings \cup Offers \cup Balances

-----------------------------------------------------------------------------
\* The values of contract calls, some of which the limits of the instance cut.
One == <<"u32", "1">>
Two == <<"u32", "2">>

Values ==
    {<<"void">>, One, Two, <<"i32", "1">>, <<"bool", "true">>, <<"address", "other">>,
     <<"address", "C">>, <<"error", "contract", "1">>, <<"error", "budget", "1">>,
     <<"vec", << >>>>, <<"vec", <<One>>>>, <<"vec", <<One, Two>>>>, <<"vec", <<One, Two, One>>>>,
     <<"vec", <<One, Two, Two>>>>, <<"vec", <<<<"vec", <<One>>>>>>>>,
     <<"vec", <<<<"vec", <<<<"vec", << >>>>>>>>>>>>, <<"vec", <<<<"vec", <<<<"vec", <<One>>>>>>>>>>>>,
     <<"map", <<<<One, Two>>>>>>, <<"map", <<<<Two, One>>>>>>,
     <<"bytes", <<"a">>>>, <<"bytes", <<"a", "b">>>>, <<"bytes", <<"a", "a", "a">>>>,
     <<"bytes", <<"a", "a", "b">>>>,
     <<"vec", <<<<"symbol", <<"a">>>>, <<"symbol", <<"b">>>>>>>>,
     <<"vec", <<<<"symbol", <<"a", ")", ", ", "sym(", "b">>>>>>>>,
     <<"instance", <<"wasm", "1">>, << >>>>, <<"instance", <<"built-in-token">>, <<<<One, Two>>>>>>,
     <<"ledger-key(contract-instance)">>, <<"ledger-key(nonce)", "1">>, <<"unknown">>}
    \cup {<<type, text>> : type \in {"symbol", "string"}, text \in MCTexts}

Calling(c, fn, args) == <<"invoke", c, fn, args>>

Creates ==
    LET create == [preimage |-> <<"address", "own", "1">>, executable |-> <<"wasm", "1">>,
                   args |-> << >>]
    IN Variants(create, Field("preimage", {<<"address", "other", "1">>, <<"address", "own", "2">>,
                                           <<"asset", Usdc>>, <<"asset", Fake>>})
                        \cup Field("executable", {<<"wasm", "2">>, <<"built-in-token">>})
                        \cup Field("args", {<<One>>, <<Two>>, <<One, Two, One>>}))

Functions ==
    {Calling("C", <<"a">>, <<v>>) : v \in Values}
    \cup {Calling("C twin", <<"a">>, <<One>>), Calling("C", <<"a">>, << >>), Calling("C", <<"a">>, <<One, Two>>),
          Calling("C", <<"a">>, <<Two, One>>), Calling("C", <<"a">>, <<One, Two, One>>)}
    \cup {Calling("C", fn, <<One>>) : fn \in MCTexts}
    \cup {<<"uploadWasm", "1", sha>> : sha \in {"1", "2"}}
    \cup {<<"createContract", create>> : create \in Creates} \cup {<<"unknown">>}

Node(function, subs) == [function |-> function, subs |-> subs]
Leaf(arg)            == Node(Calling("C", <<"a">>, <<arg>>), << >>)

Trees ==
    {Node(f, << >>) : f \in Functions}
    \cup {Node(Calling("C", <<"a">>, << >>), subs) :
            subs \in {<<Leaf(One)>>, <<Leaf(Two)>>, <<Leaf(One), Leaf(Two)>>,
                      <<Leaf(Two), Leaf(One)>>, <<Leaf(One), Leaf(Two), Leaf(One)>>,
                      <<Leaf(One), Leaf(Two), Leaf(Two)>>,
                      <<Node(Calling("C", <<"a">>, <<One>>), <<Leaf(Two)>>)>>}}

Entry == [credentials |-> "address", address |-> "own", nonce |-> "1", expires |-> 0,
          root |-> Leaf(One)]

Entries ==
    Variants(Entry, Field("nonce", {"2"}) \cup Field("root", Trees)
                    \cup Field("credentials", {"sourceAccount", "unknown"})
                    \cup Field("expires", 1 .. MAX_LEDGER_SEQUENCE) \cup Field("address", {"other"}))

Keys ==
    {<<"contractData", c, v, "persistent">> : c \in {"C", "C twin"}, v \in {One, Two}}
    \cup {<<type, name>> : type \in {"contract code ", "account ", "ttl "}, name \in {"1"}}
    \cup {<<"trustline", "own", a>> :
            a \in {<<"native">>, <<"credit", Usdc>>, <<"credit", Fake>>, <<"pool", "1">>, <<"unknown">>}}
    \cup {<<"config">>}

Data == [readOnly |-> << >>, readWrite |-> <<<<"account ", "own">>>>, resources |-> <<"1">>,
         ext |-> <<"none">>]

Datas ==
    Variants(Data, Field("readOnly", {<<k>> : k \in Keys} \cup {<<<<"ttl ", "1">>, <<"ttl ", "2">>, <<"ttl ", k>>>> :
                                                                  k \in {"3", "4"}})
                   \cup Field("readWrite", {<<<<"ttl ", "1">>>>, << >>})
                   \cup Field("resources", {<<"2">>})
                   \cup Field("ext", {<<"archived", <<"0">>>>, <<"archived", << >>>>, <<"unknown">>}))

Invoke(func, auth) == [type |-> "invokeHostFunction", source |-> Absent, func |-> func, auth |-> auth]

-----------------------------------------------------------------------------
BaseTx == [source |-> "own", fee |-> 1, sequence |-> "1", memo |-> <<"none">>,
           minTime |-> Absent, maxTime |-> "9", ledgerBounds |-> <<Absent>>,
           minSequence |-> Absent, minSequenceAge |-> Absent, minSequenceGap |-> Absent,
           extraSigners |-> << >>, operations |-> <<Pay>>, sorobanData |-> NoData]

Soroban(op, data) == [BaseTx EXCEPT !.operations = <<op>>, !.sorobanData = data]

BaseCall == Calling("C", <<"a">>, <<One>>)

Merge   == [type |-> "accountMerge", source |-> Absent, destination |-> "other"]
From(op, source) == [op EXCEPT !.source = source]
To(op, a)        == [op EXCEPT !.destination = a]

\* Several operations, sources and destinations; and what is refused.
Lists ==
    {<< >>, <<Pay, Merge>>, <<Merge, Pay>>, <<Pay, To(Pay, "twin")>>, <<To(Pay, "twin"), Pay>>,
     <<Pay, From(Pay, "other")>>, <<From(Merge, "own"), From(Pay, "twin"), From(Pay, "other")>>,
     <<Pay, To(Pay, "twin"), To(Pay, "own")>>, <<From(Pay, "own muxed")>>,
     <<Pay, Invoke(BaseCall, << >>)>>, <<[type |-> "inflation", source |-> Absent]>>}

Texted(type, texts) == {<<type, text>> : text \in texts}

Executed ==
    {[BaseTx EXCEPT !.operations = <<op>>] : op \in Variants(Pay, Field("destination", Accounts))}
    \cup {[BaseTx EXCEPT !.operations = <<op>>] : op \in {o \in Settings : o.type = "setOptions"
                                                         /\ o.homeDomain = <<Absent>>}}
    \cup Variants(BaseTx,
           Field("source", {"other", "twin", "own muxed"}) \cup Field("fee", {2, 11})
           \cup Field("sequence", {"2"}) \cup Field("maxTime", {Absent, "0"})
           \cup Field("memo", {<<"id", "1">>}) \cup Field("operations", Lists)
           \cup Field("sorobanData", {Data}))
    \cup {Soroban(Invoke(BaseCall, << >>), Data)}

Unsequenced(tx) == [tx EXCEPT !.sequence = "0"]

\* What is never executed is shown the same way, without asking the network.
Shown ==
    {[BaseTx EXCEPT !.operations = <<op>>] : op \in ClassicOperations}
    \cup Variants(BaseTx,
           Field("source", {"other", "twin", "own muxed"})
           \cup Field("memo", Texted("text", MCTexts \cup {<< >>})
                              \cup {<<type, m>> : type \in {"id", "hash", "return"}, m \in {"1", "2"}})
           \cup Field("minTime", {"0", "1"}) \cup Field("maxTime", {Absent, "0", "1"})
           \cup Field("ledgerBounds", {<<"0", "0">>, <<"1", "0">>, <<"1", "2">>, <<"0", "2">>})
           \cup Field("minSequence", {"0", "1"}) \cup Field("minSequenceAge", {"0", "1"})
           \cup Field("minSequenceGap", {"0", "1"})
           \cup Field("extraSigners", {<<"other">>, <<"twin">>, <<"other", "twin">>, <<"undecodable">>}))
    \cup {Soroban(Invoke(f, << >>), Data) : f \in Functions}
    \cup {Soroban(Invoke(BaseCall, auth), Data) :
            auth \in {<<e>> : e \in Entries}
                     \cup {<<[Entry EXCEPT !.credentials = "sourceAccount"], Entry>>,
                           <<Entry, Entry, Entry>>}}
    \cup {Soroban([type |-> "restoreFootprint", source |-> Absent], data) :
            data \in Datas \cup {NoData}}
    \cup {Soroban([type |-> "extendFootprintTtl", source |-> Absent, extendTo |-> n], Data) :
            n \in {"1", "2"}}

Request(subject) ==
    [origin |-> <<"a">>, network |-> "TESTNET", stated |-> Absent, submit |-> FALSE,
     connected |-> TRUE, address |-> "own", index |-> 0, subject |-> subject]

Unwrapped(tx)       == Request(<<"transaction", [tx |-> tx, feeSource |-> Absent, fee |-> 0]>>)
Bump(tx, from, fee) == Request(<<"transaction", [tx |-> tx, feeSource |-> from, fee |-> fee]>>)

Framing ==
    Field("origin", {<<"a", "b">>, <<"a", "zero-width">>, <<"xn--", "a">>, <<"a", "a", "a", "b">>,
                     <<"a", "b", "a", "b">>, <<"a", "\\", "u{", "zero-width", "}">>})
    \cup Field("network", {"PUBLIC"}) \cup Field("stated", {"TESTNET", "PUBLIC"})
    \cup Field("submit", {TRUE}) \cup Field("connected", {FALSE}) \cup Field("index", {1})
    \cup Field("address", {"other"})

MCCalls ==
    {Unwrapped(tx) : tx \in Executed \cup {Unsequenced(tx) : tx \in Shown}}
    \cup {Bump(tx, a, fee) : tx \in {BaseTx, Unsequenced(BaseTx), Soroban(Invoke(BaseCall, << >>), Data)},
                                 a \in {"own", "other", "twin", "own muxed"}, fee \in {1, 2}}
    \cup {Bump(BaseTx, "own", -1)}
    \cup Variants(Unwrapped(BaseTx), Framing)
    \cup {[c EXCEPT !.submit = TRUE] :
            c \in {Unwrapped(Soroban(Invoke(BaseCall, << >>), Data)), Bump(BaseTx, "own", 1),
                   Unwrapped(Unsequenced(BaseTx))}}
    \cup {[c EXCEPT !.network = "PUBLIC", !.stated = "PUBLIC"] :
            c \in {Unwrapped(BaseTx), Request(<<"authEntry", Entry>>), Request(<<"message", <<"a">>>>)}}
    \cup {Request(<<"authEntry", e>>) : e \in Entries}
    \cup {Request(<<"message", m>>) : m \in MCTexts \cup {<< >>}}

-----------------------------------------------------------------------------
\* What endpoints may send.
Failed == [Response(500, Nothing) EXCEPT !.reached = FALSE]

AccountOf(weights, memo, thresholds) ==
    Response(200, <<"account", [memoRequired |-> memo, thresholds |-> thresholds,
                                signers |-> weights]>>)

SignerOf(key, weight) == [type |-> "ed25519_public_key", key |-> key, weight |-> weight]

MCAccountResponses ==
    {Failed, Response(404, Nothing),
     AccountOf(<<SignerOf("own", 1)>>, FALSE, <<0, 0, 0>>),
     AccountOf(<<SignerOf("own", 1)>>, TRUE, <<0, 1, 2>>),
     AccountOf(<<SignerOf("own", 1)>>, FALSE, <<0, 2, 1>>),
     AccountOf(<<SignerOf("other", 2), SignerOf("own", 0)>>, FALSE, <<0, 0, 0>>)}

MCLedgerResponses ==
    {Failed, [Response(200, <<"root", 3>>) EXCEPT !.oversized = TRUE],
     [Response(200, <<"latest", 3>>) EXCEPT !.envelope = "error"]} \cup {Response(200, <<shape, n>>) : shape \in {"latest", "root"},
                                                 n \in {0, 2, 3, 5, MAX_LEDGER_SEQUENCE + 1}}

Sent(hash, status) == Response(200, <<"sent", hash, status>>)

MCSubmitResponses ==
    {Failed, Response(200, <<"hash", "its hash">>), Response(200, <<"hash", "another">>),
     Sent("its hash", "PENDING"), Sent("its hash", "ERROR"), Sent("another", "PENDING")}

Event == [form |-> "contract", kind |-> "transfer", contract |-> "C",
          addresses |-> <<"own", "other">>, amount |-> 1, topic |-> "USDC:issuer"]

Elsewhere == [Event EXCEPT !.contract = "elsewhere", !.topic = "USDC:issuer twin"]

Events ==
    {Event, Elsewhere,
     [Event EXCEPT !.addresses = <<"other", "own">>, !.amount = 2],
     [Event EXCEPT !.contract = "C twin", !.addresses = <<"other", "own">>],
     [Event EXCEPT !.kind = "mint", !.addresses = <<"own">>, !.contract = "C twin"],
     [Event EXCEPT !.kind = "burn", !.topic = "none", !.addresses = <<"own">>],
     [Event EXCEPT !.form = "broken"], [Event EXCEPT !.kind = "approve"],
     [Event EXCEPT !.amount = -1]}

Report(results, events) == [ok |-> TRUE, results |-> results, events |-> events, fee |-> "1"]

Signed ==
    {<< >>, <<<<"own", "other">>>>, <<<<"source", "undecodable", "own">>>>,
     <<<<"own", "own", "other">>>>, <<<<"own", "other">>, <<"twin">>>>,
     <<<<"own">>, <<"own">>, <<"twin">>>>, <<<<"own", "other", "twin", "C">>>>}

MCReports ==
    {NoReport, [Report(<< >>, << >>) EXCEPT !.fee = "beyond int64"]}
    \cup {Report(results, << >>) : results \in Signed}
    \cup {Report(<< >>, events) :
            events \in {<<e, f, g>> : e, f \in Events, g \in {Event, Elsewhere}}
                       \cup {<<e, Event, Elsewhere, Event>> : e \in Events}}

MCLogs == {<< >>, <<0, 0, 0>>}
=============================================================================
