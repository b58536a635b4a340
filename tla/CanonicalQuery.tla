---------------------------- MODULE CanonicalQuery ----------------------------
(***************************************************************************)
(* The query of a signed request (src/src/utils.rs): how list_objects_v2    *)
(* and get_bucket_location build it, what of it is signed, and what the     *)
(* storage reads off the wire and signs again to compare.  A text is the    *)
(* sequence of its bytes.                                                   *)
(***************************************************************************)
EXTENDS Positions, Sequences, SequencesExt, FiniteSetsExt

CONSTANTS
    Names,     \* the names of parameters considered, texts of unreserved bytes
    Alphabet,  \* the bytes of their values
    MaxValue,  \* bound: the length of a value
    MaxParams  \* bound: the parameters of a query

Bytes == 0 .. 255
Unreserved == (65 .. 90) \cup (97 .. 122) \cup (48 .. 57) \cup {45, 95, 46, 126}

ASSUME NamesAssumption == \A name \in Names : name \in Seq(Unreserved) /\ name # << >>
ASSUME AlphabetAssumption == Alphabet \subseteq Bytes
ASSUME BoundsAssumption == MaxValue \in Nat /\ MaxParams \in Nat

VARIABLES
    query, \* what goes on the request line behind the ?
    asked  \* the parameters the caller gave, in order

vars == <<query, asked>>

Percent == 37
Ampersand == 38
Equals == 61

(* Option::None, which is no text of bytes *)
NoText == <<256>>

-----------------------------------------------------------------------------
HexDigit(n) == IF n < 10 THEN 48 + n ELSE 55 + n
Escaped(byte) == <<Percent, HexDigit(byte \div 16), HexDigit(byte % 16)>>

(* Variant of encode_uri_component, deliberately wrong: a value that is        *)
(* encoded already is left alone.                                            *)
encode_unless_encoded(src) ==
    FlattenSeq([i \in DOMAIN src |->
        IF src[i] \in Unreserved \cup {Percent} THEN <<src[i]>> ELSE Escaped(src[i])])

encode_uri_component(src) ==
    FlattenSeq([i \in DOMAIN src |->
        IF src[i] \in Unreserved THEN <<src[i]>> ELSE Escaped(src[i])])

Separated(q) == IF q = << >> THEN q ELSE Append(q, Ampersand)

(* A parameter that was not given is not sent; one that is empty is. *)
append_query_param(q, name, value) ==
    IF value = NoText THEN q
    ELSE Separated(q) \o encode_uri_component(name) \o <<Equals>>
             \o encode_uri_component(value)

-----------------------------------------------------------------------------
(* Where the byte is in the text, Len + 1 if it is not, from position i on *)
Find(text, byte, i) ==
    LET found == {k \in i .. Len(text) : text[k] = byte} IN
    IF found = {} THEN Len(text) + 1 ELSE Min(found)

(* query.split('&'), without the empty pieces *)
Pieces(q) ==
    LET starts == Ascending({i \in DOMAIN q :
                                (i = 1 \/ q[i - 1] = Ampersand) /\ q[i] # Ampersand})
    IN  [n \in DOMAIN starts |-> SubSeq(q, starts[n], Find(q, Ampersand, starts[n]) - 1)]

(* split_once('='); what has none has an empty value *)
Pair(piece) ==
    LET at == Find(piece, Equals, 1) IN
    [name |-> SubSeq(piece, 1, at - 1), value |-> SubSeq(piece, at + 1, Len(piece))]

Pairs(q) == [n \in DOMAIN Pieces(q) |-> Pair(Pieces(q)[n])]

(* The order of texts, byte by byte *)
Before(s, t) ==
    \/ IsStrictPrefix(s, t)
    \/ \E i \in DOMAIN s \cap DOMAIN t :
          s[i] < t[i] /\ \A k \in 1 .. i - 1 : s[k] = t[k]

Joined(p) == p.name \o <<Equals>> \o p.value

(* Variant of Precedes, deliberately wrong: the joined strings are compared. *)
JoinedPrecedes(p, r) == Before(Joined(p), Joined(r))

(* The order of the pairs: by name, and by value within a name *)
Precedes(p, r) == Before(p.name, r.name) \/ (p.name = r.name /\ Before(p.value, r.value))

(* pairs.sort_unstable(): an order of the pairs in which none precedes the     *)
(* one before it                                                             *)
Orders(pairs) == Bijection(DOMAIN pairs, DOMAIN pairs)
Sorted(pairs) ==
    LET order == CHOOSE p \in Orders(pairs) :
                    \A n \in 1 .. Len(pairs) - 1 : ~Precedes(pairs[p[n + 1]], pairs[p[n]])
    IN  [n \in DOMAIN pairs |-> pairs[order[n]]]

(* canonical_query_string: the pairs as they are, in order *)
canonical_query_string(q) ==
    LET sorted == Sorted(Pairs(q)) IN
    FlattenSeq([n \in DOMAIN sorted |->
        IF n = 1 THEN Joined(sorted[n]) ELSE <<Ampersand>> \o Joined(sorted[n])])

-----------------------------------------------------------------------------
(* The storage: it decodes the parameters, and signs what it read, encoded    *)
(* and ordered by the rules of SigV4.                                        *)
HexValue(d) == IF d < 65 THEN d - 48 ELSE IF d < 97 THEN d - 55 ELSE d - 87
IsHex(d) == d \in (48 .. 57) \cup (65 .. 70) \cup (97 .. 102)
EscapeAt(t, i) == i \in 1 .. Len(t) - 2 /\ t[i] = Percent /\ IsHex(t[i + 1]) /\ IsHex(t[i + 2])
Decoded(t) ==
    FlattenSeq([i \in DOMAIN t |->
        CASE EscapeAt(t, i) -> <<16 * HexValue(t[i + 1]) + HexValue(t[i + 2])>>
          [] EscapeAt(t, i - 1) \/ EscapeAt(t, i - 2) -> << >>
          [] OTHER -> <<t[i]>>])

Params(q) ==
    [n \in DOMAIN Pairs(q) |->
        [name |-> Decoded(Pairs(q)[n].name), value |-> Decoded(Pairs(q)[n].value)]]

SigV4Byte(byte) == IF byte \in Unreserved THEN <<byte>> ELSE Escaped(byte)
SigV4(t) == FlattenSeq([i \in DOMAIN t |-> SigV4Byte(t[i])])

(* What the storage signs is one of the orders of what it read: the one that  *)
(* ascends by encoded name and then by encoded value.                        *)
IsTheStorages(canonical) ==
    LET read == [n \in DOMAIN Params(query) |->
                    [name |-> SigV4(Params(query)[n].name),
                     value |-> SigV4(Params(query)[n].value)]]
        signed == Pairs(canonical)
    IN  /\ \E p \in Orders(read) : signed = [n \in DOMAIN read |-> read[p[n]]]
        /\ \A n \in 1 .. Len(signed) - 1 :
              \/ Before(signed[n].name, signed[n + 1].name)
              \/ /\ signed[n].name = signed[n + 1].name
                 /\ ~Before(signed[n + 1].value, signed[n].value)

-----------------------------------------------------------------------------
Init == query = << >> /\ asked = << >>

Given(name, value) == asked' = Append(asked, [name |-> name, value |-> value])

(* One parameter of S3ListObjectsRequest *)
ParamAppended(name, value) ==
    /\ Len(asked) < MaxParams
    /\ query' = append_query_param(query, name, value)
    /\ IF value = NoText THEN UNCHANGED asked ELSE Given(name, value)

(* A flag such as ?location, which FlUrl sends without a value *)
FlagAppended(name) ==
    /\ Len(asked) < MaxParams
    /\ query' = Separated(query) \o name
    /\ Given(name, << >>)

Sent == Len(asked) = MaxParams /\ UNCHANGED vars

Values == BoundedSeq(Alphabet, MaxValue) \cup {NoText}

Next ==
    \/ \E name \in Names, value \in Values : ParamAppended(name, value)
    \/ \E name \in Names : FlagAppended(name)
    \/ Sent

Spec == Init /\ [][Next]_vars

-----------------------------------------------------------------------------
(* The storage reads the parameters the caller gave, no more and no fewer,    *)
(* whatever bytes are in their values: none is split, joined, renamed or     *)
(* decoded twice (encode_uri_component, append_query_param).                 *)
RequestIsReadAsAsked == Params(query) = asked

(* What is signed is what the storage signs of what it has read: no request   *)
(* is refused as SignatureDoesNotMatch for its query.                        *)
SignatureMatches == IsTheStorages(canonical_query_string(query))
=============================================================================
