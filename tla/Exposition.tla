------------------------------ MODULE Exposition ------------------------------
(***************************************************************************)
(* formatLabels (metrics-collector/handlers/prometheus.go), which renders  *)
(* a stored metric's label map as the {key="value",...} part of a          *)
(* Prometheus exposition line: keys sorted by sort.Strings (byte order),   *)
(* each value escaped by three strings.ReplaceAll calls, the pairs joined  *)
(* with commas. Values are the strings of Retryable's enumeration, whose   *)
(* alphabet includes backslash, double quote and newline; keys are fixed   *)
(* label names. A reference parser of the exposition format reads the      *)
(* output back.                                                            *)
(***************************************************************************)
EXTENDS Retryable

CONSTANTS
    LabelKeys,   \* label names, as a sequence of distinct Seq(KeyChars)
    KeyChars,    \* the characters of a label name
    KeyByte      \* KeyChars -> Nat: their byte values

ASSUME /\ LabelKeys \in Seq(Seq(KeyChars))
       /\ KeyByte \in [KeyChars -> Nat]
       /\ KeyChars \cap {"=", ",", "{", "}", "\""} = {}

(* sort.Strings: byte-wise lexicographic order, a prefix first. *)
RECURSIVE ByteLess(_, _)
ByteLess(x, y) ==
    /\ y # <<>>
    /\ \/ x = <<>>
       \/ KeyByte[Head(x)] < KeyByte[Head(y)]
       \/ Head(x) = Head(y) /\ ByteLess(Tail(x), Tail(y))

(* strings.ReplaceAll(v, old, new) for a one-character old. *)
StringsReplaceAll(v, old, new) ==
    FlattenSeq([i \in 1..Len(v) |-> IF v[i] = old THEN new ELSE <<v[i]>>])

\* Mutant: the double quote is escaped before the backslash.
escapeQuoteFirst(v) ==
    LET q == StringsReplaceAll(v, "\"", <<"\\", "\"">>)
        b == StringsReplaceAll(q, "\\", <<"\\", "\\">>)
    IN StringsReplaceAll(b, "\n", <<"\\", "n">>)

(* The three ReplaceAll calls of formatLabels' loop, in their order. *)
escapeLabelValue(v) ==
    LET b == StringsReplaceAll(v, "\\", <<"\\", "\\">>)
        q == StringsReplaceAll(b, "\"", <<"\\", "\"">>)
    IN StringsReplaceAll(q, "\n", <<"\\", "n">>)

(* formatLabels: "" for no labels, else "{" + Join(parts, ",") + "}" with *)
(* parts key="value" in sorted key order.                                *)
formatLabels(labels) ==
    IF DOMAIN labels = {} THEN <<>>
    ELSE LET keys == SetToSortSeq(DOMAIN labels, ByteLess)
             part(k) == k \o <<"=", "\"">> \o escapeLabelValue(labels[k]) \o <<"\"">>
             n == Len(keys)
         IN <<"{">> \o FlattenSeq([i \in 1..(2 * n - 1) |->
                          IF i % 2 = 1 THEN part(keys[(i + 1) \div 2]) ELSE <<",">>])
                    \o <<"}">>

-----------------------------------------------------------------------------
(* The reference: how a Prometheus scraper reads a label set. A value      *)
(* runs to the first unescaped quote; \\, \" and \n are its only escapes.  *)
Unescape == ("\\" :> "\\") @@ ("\"" :> "\"") @@ ("n" :> "\n")
NoParse == [ok |-> FALSE]

RECURSIVE ParseKey(_, _)
ParseKey(r, acc) ==
    CASE r = <<>>            -> NoParse
      [] Head(r) = "="       -> [ok |-> TRUE, key |-> acc, rest |-> Tail(r)]
      [] Head(r) \in KeyChars -> ParseKey(Tail(r), Append(acc, Head(r)))
      [] OTHER               -> NoParse

RECURSIVE ParseValue(_, _)
ParseValue(r, acc) ==
    CASE r = <<>>       -> NoParse
      [] Head(r) = "\"" -> [ok |-> TRUE, val |-> acc, rest |-> Tail(r)]
      [] Head(r) = "\\" /\ Len(r) > 1 /\ r[2] \in DOMAIN Unescape ->
                           ParseValue(Tail(Tail(r)), Append(acc, Unescape[r[2]]))
      [] Head(r) = "\\" -> NoParse
      [] OTHER          -> ParseValue(Tail(r), Append(acc, Head(r)))

RECURSIVE ParsePairs(_, _)
ParsePairs(r, acc) ==
    LET k == ParseKey(r, <<>>) IN
    IF ~k.ok \/ k.rest = <<>> \/ Head(k.rest) # "\"" THEN NoParse ELSE
    LET v == ParseValue(Tail(k.rest), <<>>) IN
    IF ~v.ok THEN NoParse ELSE
    LET pairs == Append(acc, <<k.key, v.val>>) IN
    CASE v.rest = <<"}">>                       -> [ok |-> TRUE, pairs |-> pairs]
      [] v.rest # <<>> /\ Head(v.rest) = ","   -> ParsePairs(Tail(v.rest), pairs)
      [] OTHER                                  -> NoParse

ParseLabels(str) ==
    CASE str = <<>>       -> [ok |-> TRUE, pairs |-> <<>>]
      [] Head(str) = "{"  -> ParsePairs(Tail(str), <<>>)
      [] OTHER            -> NoParse

(* The label maps of the check: none, one and two labels, valued by the   *)
(* enumerated strings s and substr.                                      *)
LabelMaps ==
    {[k \in {LabelKeys[i] : i \in 1..n} |-> IF k = LabelKeys[1] THEN s ELSE substr]
        : n \in 0..Len(LabelKeys)}

(* Every label set formatLabels writes on /metrics is read back by a       *)
(* scraper as exactly the stored labels, keys in sorted order, whatever    *)
(* backslashes, quotes and newlines the values hold: the escaping order    *)
(* of the three ReplaceAll calls is what keeps an escaped quote from being *)
(* re-read as the end of the value.                                       *)
FormatLabelsRoundTrips ==
    \A labels \in LabelMaps :
        LET p == ParseLabels(formatLabels(labels)) IN
        /\ p.ok
        /\ IsSorted([i \in 1..Len(p.pairs) |-> p.pairs[i][1]], ByteLess)
        /\ {p.pairs[i][1] : i \in 1..Len(p.pairs)} = DOMAIN labels
        /\ \A i \in 1..Len(p.pairs) : p.pairs[i][2] = labels[p.pairs[i][1]]

=============================================================================
