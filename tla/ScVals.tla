------------------------------- MODULE ScVals -------------------------------
(***************************************************************************)
(* What a dialog shows of a contract call, of the authorizations it embeds *)
(* and of its footprint (packages/snap/src/stellar/soroban.ts).  Rendering *)
(* is bounded: it answers with a text, and whether it left something out.  *)
(*                                                                         *)
(* A value is a tuple that starts with its type; so is every other union.  *)
(***************************************************************************)
EXTENDS Texts

CONSTANTS
    MAX_SCVAL_DEPTH, MAX_SCVAL_ITEMS, MAX_SCVAL_BYTES, MAX_SCVAL_STRING_CHARS,
    MAX_INVOCATION_DEPTH, MAX_INVOCATION_NODES,
    MAX_EMBEDDED_AUTH_ENTRIES, MAX_FOOTPRINT_KEYS

\* A value and those within it, down to some depth: what a rendering that
\* recurs is a function of.
Nested(root, PartsOf(_), depth) ==
    LET level[n \in 0 .. depth] ==
            IF n = 0 THEN {root} ELSE UNION {PartsOf(value) : value \in level[n - 1]}
    IN UNION {level[n] : n \in 0 .. depth}

\* A rendering; cut: it does not show all of its value.
Whole(text) == [text |-> text, cut |-> FALSE]
Cut(text)   == [text |-> text, cut |-> TRUE]

\* The concatenation is of use to TLC alone: it has each rendering computed once.
Join(renderings, separator) ==
    LET all == renderings \o << >>
    IN [text |-> Separated([i \in DOMAIN all |-> all[i].text], separator),
        cut  |-> \E i \in DOMAIN all : all[i].cut]

Within(open, rendering, close) ==
    [rendering EXCEPT !.text = open \o rendering.text \o close]

\* At most cap of the items, and how many more there are.
renderBounded(items, cap, Render(_)) ==
    IF Len(items) <= cap THEN [i \in DOMAIN items |-> Render(items[i])]
    ELSE Append([i \in 1 .. cap |-> Render(items[i])],
                Cut(<<"+", ToString(Len(items) - cap), " more">>))

\* A text or a run of bytes, cut at cap.
Capped(chars, cap, Show(_)) ==
    IF Len(chars) <= cap THEN Whole(Show(chars))
    ELSE Cut(Show(SubSeq(chars, 1, cap)) \o <<"+", ToString(Len(chars) - cap)>>)

-----------------------------------------------------------------------------
\* Mutant: a name is shown bare, whatever its characters.
ShowBare(name) == name

formatSymbolName(name) ==
    IF \A i \in DOMAIN name : name[i] \in Identifier THEN name ELSE Quoted(name)

formatSymbolBytes(bytes) ==
    IF Has(bytes, Malformed) THEN Hex(bytes) ELSE formatSymbolName(bytes)

Bare(bytes) == [i \in DOMAIN bytes |-> "0x" \o bytes[i]]

Text(chars) ==
    IF Has(chars, Malformed) THEN Capped(chars, MAX_SCVAL_STRING_CHARS, Hex)
    ELSE Capped(chars, MAX_SCVAL_STRING_CHARS, Quoted)

Executable(executable) ==
    IF executable[1] = "wasm" THEN <<"wasm(", executable[2], ")">> ELSE <<"built-in-token">>

ValuesIn(value) ==
    CASE value[1] = "vec" -> ToSet(value[2])
      [] value[1] \in {"map", "instance"} -> UNION {ToSet(entry) : entry \in ToSet(Last(value))}
      [] OTHER -> {}

\* Each composite value is one step deeper, up to the limit.
formatScVal(root) ==
  LET format[value \in Nested(root, ValuesIn, MAX_SCVAL_DEPTH), depth \in 0 .. MAX_SCVAL_DEPTH] ==
    LET type     == value[1]
        Item(v)  == format[v, depth + 1]
        Entry(e) == Join(<<Item(e[1]), Item(e[2])>>, ": ")
        Items(s)   == Join(renderBounded(s, MAX_SCVAL_ITEMS, Item), ", ")
        Entries(s) == Join(renderBounded(s, MAX_SCVAL_ITEMS, Entry), ", ")
    IN CASE depth >= MAX_SCVAL_DEPTH -> Cut(<<"(too deep)">>)
         [] type \in {"void", "ledger-key(contract-instance)"} -> Whole(<<type>>)
         [] type \in {"u32", "i32", "u64", "i64", "timepoint", "duration", "u128",
                      "i128", "u256", "i256", "ledger-key(nonce)", "error"} ->
                Whole(<<type, "(">> \o Separated(Tail([i \in DOMAIN value |-> <<value[i]>>]), ", ")
                      \o <<")">>)
         [] type \in {"bool", "address"} -> Whole(<<value[2]>>)
         [] type = "bytes" ->
                Within(<<"bytes(">>, Capped(value[2], MAX_SCVAL_BYTES, Bare), <<")">>)
         [] type = "string" -> Within(<<"str(">>, Text(value[2]), <<")">>)
         [] type = "symbol" -> Whole(<<"sym(">> \o formatSymbolBytes(value[2]) \o <<")">>)
         [] type = "vec" -> Within(<<"[">>, Items(value[2]), <<"]">>)
         [] type = "map" -> Within(<<"{">>, Entries(value[2]), <<"}">>)
         [] type = "instance" ->
                Within(<<"contract-instance(">> \o Executable(value[2]),
                       IF value[3] = << >> THEN Whole(<< >>)
                       ELSE Within(<<", storage: {">>, Entries(value[3]), <<"}">>),
                       <<")">>)
         \* What cannot be converted, and the types with no case of their own.
         [] OTHER -> Cut(<<type>>)
  IN format[root, 0]

\* The arguments of a call.
Arguments(args, separator) == Join(renderBounded(args, MAX_SCVAL_ITEMS, formatScVal), separator)

-----------------------------------------------------------------------------
(***************************************************************************)
(* Host functions and authorizations.                                      *)
(***************************************************************************)
\* The label of a wrapped asset that cannot be decoded names no asset.
describeCreateContractArgs(create, separator) ==
    Join(<<Whole(IF create.preimage[1] = "address"
                 THEN <<"Deployer: ", create.preimage[2], separator, "Salt: ", create.preimage[3]>>
                 ELSE <<"Source: wrapped classic asset (SAC) ">> \o AssetInFull(create.preimage[2])),
           Whole(<<"Executable: ">> \o Executable(create.executable))>>
         \o (IF create.args = << >> THEN << >>
             ELSE <<Within(<<"Constructor args: ">>, Arguments(create.args, ", "), << >>)>>),
         separator)

\* What the operation card shows of a host function.
decodeHostFunction(function) ==
    CASE function[1] = "invoke" ->
            Within(<<"Contract", function[2], "Function">> \o formatSymbolBytes(function[3])
                   \o <<"Arguments">>,
                   Arguments(function[4], "\n"), << >>)
      [] function[1] = "uploadWasm" -> Whole(<<"Wasm size", function[2], "SHA-256", function[3]>>)
      [] function[1] = "createContract" -> describeCreateContractArgs(function[2], "\n")
      [] OTHER -> Cut(<<"unknown">>)

Supported(invocation) == invocation.function[1] \in {"invoke", "createContract"}

describeInvocation(function) ==
    CASE function[1] = "invoke" ->
            Within(<<function[2], ".">> \o formatSymbolBytes(function[3]) \o <<"(">>,
                   Arguments(function[4], ", "), <<")">>)
      [] function[1] = "createContract" ->
            Within(<<"create-contract(">>, describeCreateContractArgs(function[2], "; "), <<")">>)
      [] OTHER -> Whole(<<"(unsupported authorization function)">>)

InvocationsBelow(invocation) == ToSet(invocation.subs)

\* The lines of an invocation and of those below it, with what is left of the
\* budget of nodes; once it is spent, the walk says so and goes no further.
OutOfBudget(walk) ==
    [walk EXCEPT !.lines = Append(@, Cut(<<"(truncated)">>)), !.stopped = TRUE]

\* The line of an invocation, before those below it.
Entered(invocation, depth, nodes) ==
    [lines     |-> <<Within([i \in 1 .. depth |-> "indent"],
                            describeInvocation(invocation.function), << >>)>>,
     nodes     |-> nodes - 1,
     supported |-> Supported(invocation),
     stopped   |-> FALSE]

flattenInvocations(root) ==
  LET flatten[invocation \in Nested(root, InvocationsBelow, MAX_INVOCATION_DEPTH),
              depth \in 0 .. MAX_INVOCATION_DEPTH, nodes \in 0 .. MAX_INVOCATION_NODES] ==
    LET start == [lines |-> << >>, nodes |-> nodes, supported |-> TRUE, stopped |-> FALSE]
        Below(walk, sub) ==
            IF walk.stopped THEN walk
            ELSE IF walk.nodes <= 0 THEN OutOfBudget(walk)
            ELSE LET below == flatten[sub, depth + 1, walk.nodes]
                 IN [walk EXCEPT !.lines = @ \o below.lines, !.nodes = below.nodes,
                                 !.supported = @ /\ below.supported]
    IN IF depth >= MAX_INVOCATION_DEPTH \/ nodes <= 0 THEN OutOfBudget(start)
       ELSE FoldLeft(Below, Entered(invocation, depth, nodes), invocation.subs)
  IN flatten[root, 0, MAX_INVOCATION_NODES]

\* What is known of an authorization once its invocations are rendered.
DecodedEntry(flat, rendering, credentials) ==
    [lines       |-> rendering.text,
     truncated   |-> rendering.cut,
     unsupported |-> ~flat.supported \/ credentials = "unknown"]

JoinedEntry(flat, credentials) == DecodedEntry(flat, Join(flat.lines, "\n"), credentials)

\* Mutant: what the functions of a tree leave out does not count.
DecodeLeniently(entry) ==
    [JoinedEntry(flattenInvocations(entry.root), entry.credentials) EXCEPT !.truncated = FALSE]

decodeAuthEntry(entry) == JoinedEntry(flattenInvocations(entry.root), entry.credentials)

NotWhole(decoded) == decoded.unsupported \/ decoded.truncated

findUndisplayableAuthEntry(entries) ==
    \/ Len(entries) > MAX_EMBEDDED_AUTH_ENTRIES
    \/ \E i \in DOMAIN entries : NotWhole(decodeAuthEntry(entries[i]))

summarizeAuthEntries(entries) ==
    LET Authority(entry) ==
            IF entry.credentials = "address"
            THEN <<entry.address, "nonce: ", entry.nonce, "valid until ledger: ", entry.expires>>
            ELSE <<"source-account">>
    IN Separated([i \in DOMAIN entries |->
                    <<"#">> \o Authority(entries[i]) \o decodeAuthEntry(entries[i]).lines], "\n")

-----------------------------------------------------------------------------
(***************************************************************************)
(* The footprint: what a call reads and writes.                            *)
(***************************************************************************)
describeTrustLineAsset(asset) ==
    CASE asset[1] = "native" -> Whole(<<"XLM (native)">>)
      [] asset[1] = "credit" -> Whole(AssetInFull(asset[2]))
      [] asset[1] = "pool"   -> Whole(<<"pool ", asset[2]>>)
      [] OTHER               -> Cut(<<asset[1]>>)

describeLedgerKey(key) ==
    CASE key[1] = "contractData" ->
            Within(<<"contract data ", key[2], " key=">>, formatScVal(key[3]),
                   <<" (", key[4], ")">>)
      [] key[1] \in {"contract code ", "account ", "ttl "} -> Whole(key)
      [] key[1] = "trustline" ->
            Within(<<"trustline of ", key[2], " asset=">>, describeTrustLineAsset(key[3]), << >>)
      [] OTHER -> Cut(<<key[1]>>)

NoData == [readOnly |-> << >>, readWrite |-> << >>, resources |-> << >>, ext |-> <<"missing">>]

\* The resources are their four figures.
summarizeFootprint(data) ==
    LET Position(p) == Whole(<<"#", p>>)
        Keys(label, keys) ==
            IF keys = << >> THEN << >>
            ELSE <<Within(<<label, ToString(Len(keys))>>,
                          Join(renderBounded(keys, MAX_FOOTPRINT_KEYS, describeLedgerKey), "\n"),
                          << >>)>>
    IN Join(Keys("Read-only", data.readOnly) \o Keys("Read-write", data.readWrite)
            \o <<Whole(data.resources)>>
            \o CASE data.ext[1] = "none" \/ data.ext = <<"archived", << >>>> -> << >>
                 [] data.ext[1] = "archived" ->
                       <<Within(<<"Auto-restore: read-write entries">>,
                                Join(renderBounded(data.ext[2], MAX_FOOTPRINT_KEYS, Position), ", "),
                                << >>)>>
                 [] OTHER -> <<Cut(<<"Unknown Soroban data extension">>)>>,
            "\n")

findUndisplayableFootprint(data) == data = NoData \/ summarizeFootprint(data).cut
=============================================================================
