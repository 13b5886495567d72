------------------------------- MODULE Texts -------------------------------
(***************************************************************************)
(* What a dialog shows of a text, an address, an asset or an amount        *)
(* (packages/snap/src/ui/format.ts).  A text is a sequence of characters,  *)
(* each the name of a class of code points; a piece of a layout, such as a *)
(* comma or a quote, may occur in a text like any other.  Row builds what  *)
(* the views show: a sequence of labelled texts.                           *)
(***************************************************************************)
EXTENDS Integers, SequencesExt

CONSTANTS
    Ends,                      \* an address -> its two ends, joined by an ellipsis
    MAX_ORIGIN_DISPLAY_LENGTH

\* An ordinary line break is hidden too, but the checks on raw bytes let it pass.
LineBreaks == {"\n"}
Hidden     == LineBreaks \cup {"zero-width"}
Malformed  == {"byte"}         \* what is no part of any UTF-8 character
Identifier == {"a", "b", "0xbyte"}

Has(text, chars) == \E i \in DOMAIN text : text[i] \in chars

Absent == "absent"             \* undefined, of an optional field

Row(label, text) == <<[label |-> label, text |-> text]>>

Rows(seq, RowOf(_)) == FlattenSeq([i \in DOMAIN seq |-> RowOf(seq[i])])

\* A list that is cut: those of a set, up to the cap, that come before the others.
Leading(set, cap, Before(_, _)) ==
    {b \in set : Cardinality({a \in set : Before(a, b)}) < cap}

Optional(label, value) == IF value = Absent THEN << >> ELSE Row(label, <<value>>)

When(condition, rows) == IF condition THEN rows ELSE << >>

Separated(texts, separator) ==
    FlattenSeq([i \in DOMAIN texts |->
                  IF i = 1 THEN texts[i] ELSE <<separator>> \o texts[i]])

-----------------------------------------------------------------------------
\* A character of the domain of the rule is written as the rule says.
Rewritten(text, rule) ==
    FlattenSeq([i \in DOMAIN text |->
                  IF text[i] \in DOMAIN rule THEN rule[text[i]] ELSE <<text[i]>>])

escapeHiddenCharacters(text) ==
    Rewritten(text, ("\\" :> <<"\\", "\\">>) @@ [c \in Hidden |-> <<"\\", "u{", c, "}">>])

\* JSON.stringify, its hidden characters made visible.
Quoted(text) ==
    escapeHiddenCharacters(
        <<"\"">> \o Rewritten(text, ("\"" :> <<"\\", "\"">>) @@ ("\\" :> <<"\\", "\\">>)
                                    @@ [c \in LineBreaks |-> <<"\\", "n">>])
        \o <<"\"">>)

\* Hidden characters become spaces, and runs of them collapse.
sanitizeInlineText(text) ==
    LET spaced == [i \in DOMAIN text |-> IF text[i] \in Hidden THEN " " ELSE text[i]]
        Kept(i) ==
            \/ spaced[i] # " "
            \/ /\ \E before \in 1 .. i - 1 : spaced[before] # " "
               /\ \E after \in i + 1 .. Len(text) : spaced[after] # " "
               /\ spaced[i - 1] # " "
    IN FlattenSeq([i \in DOMAIN text |-> IF Kept(i) THEN <<spaced[i]>> ELSE << >>])

isLossyInline(text) == sanitizeInlineText(text) # text

\* Decoding replaces what is malformed.
Decoded(bytes) == [i \in DOMAIN bytes |-> IF bytes[i] \in Malformed THEN "?" ELSE bytes[i]]

Hex(bytes) == <<"hex:">> \o [i \in DOMAIN bytes |-> "0x" \o bytes[i]]

isHexDisplay(display) == display # << >> /\ Head(display) = "hex:"

bytesToDisplay(bytes) ==
    IF Has(bytes, Malformed \cup (Hidden \ LineBreaks)) \/ isHexDisplay(bytes)
    THEN Hex(bytes) ELSE bytes

-----------------------------------------------------------------------------
\* A shortened address may be that of another.
truncate(address) == Ends[address]

Native == [code |-> "XLM", issuer |-> "none"]

Pool(asset) == "fee" \in DOMAIN asset

AssetLabel(asset) ==
    IF asset = Native THEN <<"XLM">> ELSE <<asset.code, " (", truncate(asset.issuer), ")">>

formatAsset(asset) ==
    IF Pool(asset)
    THEN <<"Pool shares: ">> \o AssetLabel(asset.assetA) \o <<" / ">> \o AssetLabel(asset.assetB)
    ELSE AssetLabel(asset)

AssetInFull(asset) ==
    IF asset = Native THEN <<"XLM (native)">> ELSE <<asset.code, ":", asset.issuer>>

formatAssetFull(asset) ==
    IF Pool(asset) \/ asset = Native THEN << >> ELSE AssetInFull(asset)

\* The pool id, a hash of the other lines, adds nothing to them.
formatLiquidityPool(asset) ==
    IF ~Pool(asset) THEN << >>
    ELSE <<"Asset A: ">> \o AssetInFull(asset.assetA)
           \o <<"\n", "Asset B: ">> \o AssetInFull(asset.assetB)
           \o <<"\n", "Pool fee: ", asset.fee>>

\* The scale of amounts; the fraction is padded to its digits, here one.
Scale == 10

stroopsToXlm(stroops) ==
    LET whole == ToString(stroops \div Scale)
    IN IF stroops % Scale = 0 THEN <<whole>>
       ELSE <<whole, ".", ToString(stroops % Scale)>>

-----------------------------------------------------------------------------
displayOrigin(origin) ==
    LET clean == sanitizeInlineText(origin)
    IN IF Len(clean) > MAX_ORIGIN_DISPLAY_LENGTH
       THEN <<Head(clean), "...", Last(clean)>> ELSE clean

isOriginDisplayLossy(origin) == displayOrigin(origin) # origin

originLooksConfusable(origin) == Has(origin, {"xn--"} \cup Hidden)

\* dialogs.tsx: the complete origin wherever its inline form is not it.
originCautionBanner(origin) ==
    When(originLooksConfusable(origin), Row("Check the site address", << >>))
    \o When(isOriginDisplayLossy(origin),
            Row("Site address shortened", escapeHiddenCharacters(origin)))
=============================================================================
