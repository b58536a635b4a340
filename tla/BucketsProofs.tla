----------------------------- MODULE BucketsProofs ----------------------------
(***************************************************************************)
(* The calls whose request is sent from memory, for every set of clients,   *)
(* regions, operations and numbers of calls and of repetitions.  First what *)
(* is read out of an XML answer, and of one that was cut short: facts about *)
(* the operators of Xml and ErrorTyping that hold for every document.       *)
(***************************************************************************)
EXTENDS Buckets, SequenceTheorems, FiniteSetTheorems, WellFoundedInduction, TLAPS

(* The tokens of a document whose names are of N and whose texts are of T *)
Tokens(N, T) ==
    [tag : {"open", "close", "empty", "cut", "text", "binary"}, name : N, text : T]

-----------------------------------------------------------------------------
(* A set of positions that is not empty has a first one. *)
LEMMA MinIsFirst ==
    ASSUME NEW S \in SUBSET Nat, S # {}
    PROVE  Min(S) \in S /\ \A y \in S : Min(S) <= y
  <1>1. PICK x \in S : \A y \in S : ~(<<y, x>> \in OpToRel(<, Nat))
    BY NatLessThanWellFounded, WFMin
  <1>2. ASSUME NEW y \in S PROVE x <= y
    <2>1. <<y, x>> \in Nat \X Nat /\ <<y, x>>[1] = y /\ <<y, x>>[2] = x
      OBVIOUS
    <2>2. ~(y < x)
      BY <1>1, <2>1, Zenon DEF OpToRel
    <2> QED BY <2>2
  <1> QED BY <1>2 DEF Min

(* A text without "&", here one of at most one symbol, is read as it stands. *)
LEMMA ShortTextIsVerbatim ==
    /\ unescape(<< >>) = << >>
    /\ \A c : unescape(<<c>>) = <<c>>
  <1>1. unescape(<< >>) = << >>
    BY DEF unescape, UnescapeOnce, FlattenSeq
  <1>2. ASSUME NEW c PROVE unescape(<<c>>) = <<c>>
    <2> DEFINE s == [i \in 1 .. 1 |-> <<c>>]
               F(f) == [i \in 1 .. 1 |-> IF i = 1 THEN s[i] ELSE f[i - 1] \o s[i]]
    <2>1. unescape(<<c>>) = FlattenSeq(s)
      BY DEF unescape, UnescapeOnce, BeginsEntity
    <2>2. s = F(s)
      OBVIOUS
    <2>3. Len(s) = 1
      OBVIOUS
    <2>4. FlattenSeq(s) = (CHOOSE f : f = F(f))[1]
      BY <2>3 DEF FlattenSeq
    <2>5. (CHOOSE f : f = F(f)) = F(CHOOSE f : f = F(f))
      BY <2>2
    <2> QED BY <2>1, <2>4, <2>5
  <1> QED BY <1>1, <1>2
-----------------------------------------------------------------------------
(* What is read is None or a text of the document, whatever the document is. *)
LEMMA TextIsOfTheDocument ==
    ASSUME NEW N, NEW T, << >> \in T, NEW doc \in Seq(Tokens(N, T)), NEW path
    PROVE  \E t \in T : read_node_text(doc, path) \in {None, unescape(t)}
  <1> DEFINE found == IF is_safe_to_read(doc) THEN NodesAt(doc, path) ELSE {}
  <1>1. found \subseteq 1 .. Len(doc)
    <2>1. DOMAIN doc = 1 .. Len(doc)
      OBVIOUS
    <2> QED BY <2>1 DEF NodesAt, Tagged
  <1>2. ASSUME found # {} PROVE TextBehind(doc, Min(found)) \in T
    <2>1. Min(found) \in 1 .. Len(doc)
      <3>1. found \in SUBSET Nat
        BY <1>1
      <3> HIDE DEF found
      <3> QED BY <1>1, <1>2, <3>1, MinIsFirst
    <2> HIDE DEF found
    <2>2. PICK i \in 1 .. Len(doc) : i = Min(found)
      BY <2>1
    <2>3. ASSUME i < Len(doc) PROVE doc[i + 1].text \in T
      <3>1. doc[i + 1] \in Tokens(N, T)
        BY <2>3, ElementOfSeq
      <3> QED BY <3>1 DEF Tokens
    <2> QED BY <2>2, <2>3 DEF TextBehind
  <1>3. read_node_text(doc, path) \in {None, unescape(TextBehind(doc, Min(found)))}
    BY DEF read_node_text
  <1>4. found = {} => read_node_text(doc, path) = None
    BY DEF read_node_text
  <1> HIDE DEF found
  <1> QED BY <1>2, <1>3, <1>4

(* What a connection that drops leaves of a document holds no other texts. *)
LEMMA CutHasNoOtherTexts ==
    ASSUME NEW N, NEW T, << >> \in T, NEW doc \in Seq(Tokens(N, T)), NEW b \in CutShort(doc)
    PROVE  b \in Seq(Tokens(N, T))
  <1>1. ASSUME NEW n \in 0 .. Len(doc) - 1
        PROVE  SubSeq(doc, 1, n) \in Seq(Tokens(N, T))
    <2>1. \A i \in 1 .. n : doc[i] \in Tokens(N, T)
      BY ElementOfSeq
    <2> QED BY <2>1, SubSeqProperties
  <1>2. ASSUME NEW n \in 0 .. Len(doc) - 1
        PROVE  Append(SubSeq(doc, 1, n), Cut(doc[n + 1].name)) \in Seq(Tokens(N, T))
    <2>1. doc[n + 1] \in Tokens(N, T)
      BY ElementOfSeq
    <2>2. Cut(doc[n + 1].name) \in Tokens(N, T)
      BY <2>1 DEF Cut, Tokens
    <2> QED BY <1>1, <2>2, AppendProperties
  <1> QED BY <1>1, <1>2 DEF CutShort

-----------------------------------------------------------------------------
(* The documents of which nothing can be read as an error code but code:      *)
(* the <Error> document of it, what is left of that one, and no document.    *)
Spoken(code) ==
    Seq(Tokens({"Error", "Code", "Message", "html", ""}, {<< >>, <<code>>, <<"why">>}))

(* The error documents of the storage are such documents, cut short or not. *)
LEMMA ErrorsAreSpoken ==
    ASSUME NEW code
    PROVE  /\ ErrorBody(code) \in Spoken(code)
           /\ Leaf("html", << >>) \in Spoken(code)
           /\ << >> \in Spoken(code)
           /\ \A doc \in Spoken(code) : CutShort(doc) \subseteq Spoken(code)
  <1> DEFINE K == Tokens({"Error", "Code", "Message", "html", ""}, {<< >>, <<code>>, <<"why">>})
  <1>0. \A x \in K : <<x>> \in Seq(K)
    <2> HIDE DEF K
    <2> QED OBVIOUS
  <1>1. ASSUME NEW n \in {"Error", "Code", "Message", "html", ""}, NEW inner \in Seq(K)
        PROVE  Node(n, inner) \in Seq(K)
    <2>1. <<Open(n)>> \in Seq(K) /\ <<Close(n)>> \in Seq(K)
      <3>1. Open(n) \in K /\ Close(n) \in K
        BY DEF Open, Close, Tokens
      <3> QED BY <1>0, <3>1
    <2> HIDE DEF K
    <2> QED BY <2>1, ConcatProperties DEF Node
  <1>2. \A t \in {<<code>>, <<"why">>} : <<Text(t)>> \in Seq(K)
    <2>1. \A t \in {<<code>>, <<"why">>} : Text(t) \in K
      BY DEF Text, Tokens
    <2> QED BY <1>0, <2>1
  <1>3. << >> \in Seq(K)
    BY EmptySeq
  <1>4. \A doc \in Seq(K) : CutShort(doc) \subseteq Seq(K)
    BY CutHasNoOtherTexts
  <1> HIDE DEF K
  <1>5. Leaf("Code", <<code>>) \in Seq(K) /\ Leaf("Message", <<"why">>) \in Seq(K)
    <2>1. <<code>> # << >> /\ <<"why">> # << >>
      OBVIOUS
    <2> QED BY <1>1, <1>2, <2>1 DEF Leaf
  <1>6. ErrorBody(code) \in Seq(K)
    BY <1>1, <1>5, ConcatProperties DEF ErrorBody
  <1>7. Leaf("html", << >>) \in Seq(K)
    BY <1>1, <1>3 DEF Leaf
  <1> QED BY <1>3, <1>4, <1>6, <1>7 DEF Spoken, K

(* Of such a document no code is read but that one. *)
LEMMA CodeIsAsSpoken ==
    ASSUME NEW code, NEW doc \in Spoken(code), NEW path
    PROVE  read_node_text(doc, path) \in {None, << >>, <<code>>, <<"why">>}
  <1> DEFINE N == {"Error", "Code", "Message", "html", ""}
             T == {<< >>, <<code>>, <<"why">>}
  <1>1. PICK t \in T : read_node_text(doc, path) \in {None, unescape(t)}
    <2>1. doc \in Seq(Tokens(N, T)) /\ << >> \in T
      BY DEF Spoken
    <2> HIDE DEF N, T
    <2> QED BY <2>1, TextIsOfTheDocument
  <1>2. unescape(t) = t
    BY ShortTextIsVerbatim
  <1> QED BY <1>1, <1>2

(* The error that detect_error makes of a failure is the one the storage      *)
(* named, or one that names nothing; KeyNotFound may also stand for a 404    *)
(* whose document could not be read.                                         *)
LEMMA ErrorIsAsSpoken ==
    ASSUME NEW code, NEW doc \in Spoken(code), NEW status,
           NEW e, e = detect_error(status, doc)
    PROVE  /\ e.variant = "BucketAlreadyOwnedByYou" => code = "BucketAlreadyOwnedByYou"
           /\ e.variant = "BucketAlreadyExists" => code = "BucketAlreadyExists"
           /\ e.variant = "BucketNotFound" => code = "NoSuchBucket"
           /\ e.variant = "KeyNotFound" => code = "NoSuchKey" \/ status = 404
           /\ \A c : c \notin {"None", "why"} /\ e.code = <<c>> => code = c
  <1> DEFINE t == read_node_text(doc, <<"Error", "Code">>)
  <1>1. t \in {None, << >>, <<code>>, <<"why">>}
    BY CodeIsAsSpoken
  <1>2. e = CASE Maps(t) -> Typed(error_codes[t[1]])
              [] t = None /\ status = 404 -> Typed("KeyNotFound")
              [] t = None /\ status = 416 -> Typed("RangeNotSatisfiable")
              [] OTHER -> UnexpectedStatusCode(status, t)
    BY DEF detect_error
  <1> HIDE DEF t
  <1>3. CASE Maps(t)
    <2>1. t = <<code>> /\ code \in DOMAIN error_codes
      BY <1>1, <1>3 DEF Maps, None, error_codes
    <2>2. e = Typed(error_codes[code])
      <3>1. t # None
        BY <2>1 DEF None, error_codes
      <3>2. e = Typed(error_codes[t[1]])
        BY <1>2, <1>3, <3>1
      <3> QED BY <2>1, <3>2
    <2>3. error_codes[code] = "BucketAlreadyOwnedByYou" => code = "BucketAlreadyOwnedByYou"
      BY <2>1 DEF error_codes
    <2>4. error_codes[code] = "BucketAlreadyExists" => code = "BucketAlreadyExists"
      BY <2>1 DEF error_codes
    <2>5. error_codes[code] = "BucketNotFound" => code = "NoSuchBucket"
      BY <2>1 DEF error_codes
    <2>6. error_codes[code] = "KeyNotFound" => code = "NoSuchKey"
      BY <2>1 DEF error_codes
    <2>7. e.variant = error_codes[code] /\ e.code = None
      BY <2>2 DEF Typed
    <2> QED BY <2>3, <2>4, <2>5, <2>6, <2>7 DEF None
  <1>4. CASE ~Maps(t) /\ t = None
    BY <1>2, <1>4 DEF Typed, UnexpectedStatusCode, None
  <1>5. CASE ~Maps(t) /\ t # None
    BY <1>1, <1>2, <1>5 DEF UnexpectedStatusCode, None
  <1> QED BY <1>3, <1>4, <1>5
-----------------------------------------------------------------------------
(* A sequence of depths that obeys the scan is the scan. *)
LEMMA ScanIsComputed ==
    ASSUME NEW doc, NEW g,
           g = [n \in 0 .. Len(doc) |-> IF n = 0 THEN 0 ELSE Scanned(g[n - 1], doc[n])]
    PROVE  \E f : /\ f = [n \in 0 .. Len(doc) |-> IF n = 0 THEN 0 ELSE Scanned(f[n - 1], doc[n])]
                  /\ Scan(doc) = f[Len(doc)]
  <1> DEFINE F(f) == [n \in 0 .. Len(doc) |-> IF n = 0 THEN 0 ELSE Scanned(f[n - 1], doc[n])]
             d == CHOOSE f : f = F(f)
  <1>1. d = F(d)
    OBVIOUS
  <1>2. Scan(doc) = d[Len(doc)]
    BY DEF Scan
  <1> QED BY <1>1, <1>2

(* The root is what is found at the path of its name. *)
LEMMA RootIsFound ==
    ASSUME NEW n, NEW doc, NEW last \in Nat \ {0}, DOMAIN doc = 1 .. last,
           doc[1].tag \in {"open", "empty"}, doc[1].name = n,
           \A i \in 2 .. last : doc[i].tag \notin {"open", "empty"}
    PROVE  NodesAt(doc, <<n>>) = {1}
  <1>1. Level(doc, 1) = 0
    <2>1. /\ {k \in 1 .. 1 - 1 : doc[k].tag = "open"} = {}
          /\ {k \in 1 .. 1 - 1 : doc[k].tag = "close"} = {}
      OBVIOUS
    <2>2. Cardinality({}) = 0
      BY FS_EmptySet
    <2> QED BY <2>1, <2>2 DEF Level
  <1>2. Ancestors(doc, 1) = {}
    BY DEF Ancestors
  <1>3. Tagged(doc, {"open", "empty"}) = {1}
    BY DEF Tagged
  <1>4. Len(<<n>>) = 1 /\ <<n>>[1] = n
    OBVIOUS
  <1> QED BY <1>1, <1>2, <1>3, <1>4 DEF NodesAt

(* The tokens of a concatenation, and the depths they lead to *)
LEMMA TokensOfConcat ==
    ASSUME NEW a, NEW b, NEW c
    PROVE  /\ LET d == <<a>> \o <<b>> \o <<c>> IN
              /\ Len(d) = 3 /\ DOMAIN d = 1 .. 3
              /\ d[1] = a /\ d[2] = b /\ d[3] = c
           /\ LET d == <<a>> \o << >> \o <<c>> IN
              /\ Len(d) = 2 /\ DOMAIN d = 1 .. 2
              /\ d[1] = a /\ d[2] = c
  <1> DEFINE S == {a, b, c}
  <1>1. /\ <<a>> \in Seq(S) /\ Len(<<a>>) = 1 /\ <<a>>[1] = a
        /\ <<b>> \in Seq(S) /\ Len(<<b>>) = 1 /\ <<b>>[1] = b
        /\ <<c>> \in Seq(S) /\ Len(<<c>>) = 1 /\ <<c>>[1] = c
        /\ << >> \in Seq(S) /\ Len(<< >>) = 0
    OBVIOUS
  <1> HIDE DEF S
  <1>2. PICK ab : ab = <<a>> \o <<b>>
    OBVIOUS
  <1>3. ab \in Seq(S) /\ Len(ab) = 2 /\ ab[1] = a /\ ab[2] = b
    BY <1>1, <1>2, ConcatProperties
  <1>4. PICK ae : ae = <<a>> \o << >>
    OBVIOUS
  <1>5. ae \in Seq(S) /\ Len(ae) = 1 /\ ae[1] = a
    BY <1>1, <1>4, ConcatProperties
  <1>6. PICK d3 : d3 = ab \o <<c>>
    OBVIOUS
  <1>7. d3 \in Seq(S) /\ Len(d3) = 3 /\ d3[1] = a /\ d3[2] = b /\ d3[3] = c
    BY <1>1, <1>3, <1>6, ConcatProperties
  <1>8. PICK d2 : d2 = ae \o <<c>>
    OBVIOUS
  <1>9. d2 \in Seq(S) /\ Len(d2) = 2 /\ d2[1] = a /\ d2[2] = c
    BY <1>1, <1>5, <1>8, ConcatProperties
  <1>10. DOMAIN d3 = 1 .. 3 /\ DOMAIN d2 = 1 .. 2
    BY <1>7, <1>9
  <1> QED BY <1>2, <1>4, <1>6, <1>7, <1>8, <1>9, <1>10

(* The fields of a text *)
LEMMA FieldsOfText ==
    ASSUME NEW t
    PROVE  Text(t).tag = "text" /\ Text(t).text = t
  BY DEF Text

(* One step of the scan behind each of them *)
LEMMA DepthsBehind ==
    ASSUME NEW n, NEW t
    PROVE  /\ Scanned(0, Open(n)) = 1
           /\ Scanned(1, Text(t)) = 1
           /\ Scanned(1, Close(n)) = 0
  <1> USE DEF Scanned, Unsafe
  <1>1. Scanned(0, Open(n)) = 1
    BY DEF Open
  <1>2. Scanned(1, Text(t)) = 1
    BY DEF Text
  <1>3. Scanned(1, Close(n)) = 0
    BY DEF Close
  <1> QED BY <1>1, <1>2, <1>3

(* The text of a root is read as it was written, an empty one too; of a root  *)
(* that closes itself nothing is.                                            *)
LEMMA RootIsRead ==
    ASSUME NEW n
    PROVE  /\ \A c : read_node_text(Leaf(n, <<c>>), <<n>>) = <<c>>
           /\ read_node_text(Leaf(n, << >>), <<n>>) = << >>
           /\ read_node_text(<<Empty(n)>>, <<n>>) = None
  <1>0. Min({1}) = 1
    BY MinIsFirst
  <1>1. ASSUME NEW c PROVE read_node_text(Leaf(n, <<c>>), <<n>>) = <<c>>
    <2>1. PICK doc : doc = Leaf(n, <<c>>)
      OBVIOUS
    <2>2. doc = <<Open(n)>> \o <<Text(<<c>>)>> \o <<Close(n)>>
      <3>1. <<c>> # << >>
        OBVIOUS
      <3> QED BY <2>1, <3>1 DEF Leaf, Node
    <2>3. /\ Len(doc) = 3 /\ DOMAIN doc = 1 .. 3
          /\ doc[1] = Open(n) /\ doc[2] = Text(<<c>>) /\ doc[3] = Close(n)
      BY <2>2, TokensOfConcat
    <2>4. is_safe_to_read(doc)
      <3> DEFINE g == [i \in 0 .. 3 |-> IF i \in {1, 2} THEN 1 ELSE 0]
      <3>1. g = [i \in 0 .. Len(doc) |-> IF i = 0 THEN 0 ELSE Scanned(g[i - 1], doc[i])]
        BY <2>3, DepthsBehind
      <3>2. PICK f : /\ f = [i \in 0 .. Len(doc) |-> IF i = 0 THEN 0
                                                     ELSE Scanned(f[i - 1], doc[i])]
                     /\ Scan(doc) = f[Len(doc)]
        BY <3>1, ScanIsComputed
      <3>3. f[0] = 0 /\ f[1] = 1 /\ f[2] = 1 /\ f[3] = 0
        BY <2>3, <3>2, DepthsBehind
      <3> QED BY <2>3, <3>2, <3>3 DEF is_safe_to_read
    <2>5. NodesAt(doc, <<n>>) = {1}
      <3>1. doc[1].tag = "open" /\ doc[1].name = n
        BY <2>3 DEF Open
      <3>2. doc[2].tag = "text" /\ doc[3].tag = "close"
        BY <2>3, FieldsOfText DEF Close
      <3>3. \A i \in 2 .. 3 : doc[i].tag \notin {"open", "empty"}
        <4>1. \A i \in 2 .. 3 : i = 2 \/ i = 3
          OBVIOUS
        <4> QED BY <3>2, <4>1
      <3>4. 3 \in Nat \ {0} /\ doc[1].tag \in {"open", "empty"}
        BY <3>1
      <3> QED BY <2>3, <3>1, <3>3, <3>4, RootIsFound, Zenon
    <2>6. TextBehind(doc, 1) = <<c>>
      BY <2>3, FieldsOfText DEF TextBehind
    <2>7. 3 \in Tagged(doc, {"open", "close", "empty"})
      BY <2>3 DEF Tagged, Close
    <2>8. read_node_text(doc, <<n>>) = unescape(TextBehind(doc, 1))
      BY <1>0, <2>4, <2>5, <2>7 DEF read_node_text
    <2> QED BY <2>1, <2>6, <2>8, ShortTextIsVerbatim
  <1>2. read_node_text(Leaf(n, << >>), <<n>>) = << >>
    <2>1. PICK doc : doc = Leaf(n, << >>)
      OBVIOUS
    <2>2. doc = <<Open(n)>> \o << >> \o <<Close(n)>>
      BY <2>1 DEF Leaf, Node
    <2>3. /\ Len(doc) = 2 /\ DOMAIN doc = 1 .. 2
          /\ doc[1] = Open(n) /\ doc[2] = Close(n)
      BY <2>2, TokensOfConcat
    <2>4. is_safe_to_read(doc)
      <3> DEFINE g == [i \in 0 .. 2 |-> IF i = 1 THEN 1 ELSE 0]
      <3>1. g = [i \in 0 .. Len(doc) |-> IF i = 0 THEN 0 ELSE Scanned(g[i - 1], doc[i])]
        BY <2>3, DepthsBehind
      <3>2. PICK f : /\ f = [i \in 0 .. Len(doc) |-> IF i = 0 THEN 0
                                                     ELSE Scanned(f[i - 1], doc[i])]
                     /\ Scan(doc) = f[Len(doc)]
        BY <3>1, ScanIsComputed
      <3>3. f[0] = 0 /\ f[1] = 1 /\ f[2] = 0
        BY <2>3, <3>2, DepthsBehind
      <3> QED BY <2>3, <3>2, <3>3 DEF is_safe_to_read
    <2>5. NodesAt(doc, <<n>>) = {1}
      <3>1. doc[1].tag = "open" /\ doc[1].name = n
        BY <2>3 DEF Open
      <3>2. doc[2].tag = "close"
        BY <2>3 DEF Close
      <3>3. \A i \in 2 .. 2 : doc[i].tag \notin {"open", "empty"}
        BY <3>2
      <3>4. 2 \in Nat \ {0} /\ doc[1].tag \in {"open", "empty"}
        BY <3>1
      <3> QED BY <2>3, <3>1, <3>3, <3>4, RootIsFound, Zenon
    <2>6. TextBehind(doc, 1) = << >>
      BY <2>3 DEF TextBehind, Close
    <2>7. 2 \in Tagged(doc, {"open", "close", "empty"})
      BY <2>3 DEF Tagged, Close
    <2>8. read_node_text(doc, <<n>>) = unescape(TextBehind(doc, 1))
      BY <1>0, <2>4, <2>5, <2>7 DEF read_node_text
    <2> QED BY <2>1, <2>6, <2>8, ShortTextIsVerbatim
  <1>3. read_node_text(<<Empty(n)>>, <<n>>) = None
    <2>1. PICK doc : doc = <<Empty(n)>>
      OBVIOUS
    <2>2. DOMAIN doc = 1 .. 1 /\ doc[1] = Empty(n)
      BY <2>1
    <2>3. NodesAt(doc, <<n>>) = {1}
      <3>1. doc[1].tag = "empty" /\ doc[1].name = n
        BY <2>2 DEF Empty
      <3>2. \A i \in 2 .. 1 : doc[i].tag \notin {"open", "empty"}
        OBVIOUS
      <3>3. 1 \in Nat \ {0} /\ doc[1].tag \in {"open", "empty"}
        BY <3>1
      <3> QED BY <2>2, <3>1, <3>2, <3>3, RootIsFound, Zenon
    <2>4. ~\E k \in Tagged(doc, {"open", "close", "empty"}) : k > 1
      BY <2>2 DEF Tagged
    <2> QED BY <1>0, <2>1, <2>3, <2>4 DEF read_node_text
  <1> QED BY <1>1, <1>2, <1>3

(* What a concatenation has in its places *)
LEMMA ConcatIs ==
    ASSUME NEW T, NEW a, a \in Seq(T), NEW b, b \in Seq(T), NEW x, x \in Nat, x = Len(a),
           NEW y, y \in Nat, y = Len(b), NEW u, u = a \o b
    PROVE  /\ u \in Seq(T) /\ Len(u) = x + y
           /\ \A i \in 1 .. x + y : u[i] = IF i <= x THEN a[i] ELSE b[i - x]
  BY ConcatProperties

(* The tokens of an error document that arrived whole *)
LEMMA TokensOfError ==
    ASSUME NEW code, NEW doc, doc = ErrorBody(code)
    PROVE  /\ Len(doc) = 8 /\ DOMAIN doc = 1 .. 8
           /\ doc[1] = Open("Error") /\ doc[2] = Open("Code") /\ doc[3] = Text(<<code>>)
           /\ doc[4] = Close("Code") /\ doc[5] = Open("Message") /\ doc[6] = Text(<<"why">>)
           /\ doc[7] = Close("Message") /\ doc[8] = Close("Error")
  <1>1. PICK c, m : c = Leaf("Code", <<code>>) /\ m = Leaf("Message", <<"why">>)
    OBVIOUS
  <1>2. /\ c = <<Open("Code")>> \o <<Text(<<code>>)>> \o <<Close("Code")>>
        /\ m = <<Open("Message")>> \o <<Text(<<"why">>)>> \o <<Close("Message")>>
    <2>1. <<code>> # << >> /\ <<"why">> # << >>
      OBVIOUS
    <2> QED BY <1>1, <2>1 DEF Leaf, Node
  <1>3. /\ Len(c) = 3 /\ c[1] = Open("Code") /\ c[2] = Text(<<code>>) /\ c[3] = Close("Code")
        /\ Len(m) = 3 /\ m[1] = Open("Message") /\ m[2] = Text(<<"why">>) /\ m[3] = Close("Message")
    BY <1>2, TokensOfConcat
  <1>4. PICK K : \E first, last : /\ first = Open("Error") /\ last = Close("Error")
                                 /\ c \in Seq(K) /\ m \in Seq(K) /\ first \in K /\ last \in K
    <2>1. PICK K : K = Tokens({"Error", "Code", "Message", "html", ""}, {<< >>, <<code>>, <<"why">>})
      OBVIOUS
    <2>2. \A n \in {"Error", "Code", "Message"} : Open(n) \in K /\ Close(n) \in K
      BY <2>1 DEF Tokens, Open, Close
    <2>3. Text(<<code>>) \in K /\ Text(<<"why">>) \in K
      BY <2>1 DEF Tokens, Text
    <2>4. \A x \in K : <<x>> \in Seq(K)
      OBVIOUS
    <2>5. c \in Seq(K) /\ m \in Seq(K)
      BY <1>2, <2>2, <2>3, <2>4, ConcatProperties
    <2> QED BY <2>2, <2>5
  <1>5. PICK first, last : /\ first = Open("Error") /\ last = Close("Error")
                           /\ c \in Seq(K) /\ m \in Seq(K) /\ first \in K /\ last \in K
    BY <1>4
  <1>6. PICK f, l : /\ f = <<first>> /\ f \in Seq(K) /\ Len(f) = 1 /\ f[1] = first
                    /\ l = <<last>> /\ l \in Seq(K) /\ Len(l) = 1 /\ l[1] = last
    <2>1. /\ <<first>> \in Seq(K) /\ Len(<<first>>) = 1 /\ <<first>>[1] = first
          /\ <<last>> \in Seq(K) /\ Len(<<last>>) = 1 /\ <<last>>[1] = last
      BY <1>5
    <2> QED BY <2>1
  <1>7. PICK a, b : a = c \o m /\ b = f \o a
    OBVIOUS
  <1>8. /\ a \in Seq(K) /\ Len(a) = 6 /\ (\A i \in 1 .. 3 : a[i] = c[i])
        /\ a[4] = m[1] /\ a[5] = m[2] /\ a[6] = m[3]
    <2>1. PICK x \in Nat, y \in Nat : x = 3 /\ y = 3 /\ x = Len(c) /\ y = Len(m)
      BY <1>3
    <2>2. a \in Seq(K) /\ Len(a) = x + y /\ \A i \in 1 .. x + y : a[i] = IF i <= x THEN c[i] ELSE m[i - x]
      <3>1. /\ x \in Nat /\ y \in Nat /\ c \in Seq(K) /\ m \in Seq(K)
            /\ x = Len(c) /\ y = Len(m) /\ a = c \o m
        BY <1>5, <1>7, <2>1
      <3> QED BY ONLY <3>1, ConcatIs
    <2>3. a \in Seq(K) /\ Len(a) = 6 /\ \A i \in 1 .. 6 : a[i] = IF i <= 3 THEN c[i] ELSE m[i - 3]
      <3>1. x = 3 /\ x + y = 6
        BY <2>1
      <3> QED BY ONLY <2>2, <3>1
    <2> QED BY ONLY <2>3
  <1>9. b \in Seq(K) /\ Len(b) = 7 /\ b[1] = first /\ \A i \in 2 .. 7 : b[i] = a[i - 1]
    <2>1. PICK x \in Nat, y \in Nat : x = 1 /\ y = 6 /\ x = Len(f) /\ y = Len(a)
      BY <1>6, <1>8
    <2>2. b \in Seq(K) /\ Len(b) = x + y /\ \A i \in 1 .. x + y : b[i] = IF i <= x THEN f[i] ELSE a[i - x]
      <3>1. /\ x \in Nat /\ y \in Nat /\ f \in Seq(K) /\ a \in Seq(K)
            /\ x = Len(f) /\ y = Len(a) /\ b = f \o a
        BY <1>6, <1>7, <1>8, <2>1
      <3> QED BY ONLY <3>1, ConcatIs
    <2>3. f[1] = first
      BY <1>6
    <2>4. b \in Seq(K) /\ Len(b) = 7 /\ \A i \in 1 .. 7 : b[i] = IF i <= 1 THEN f[i] ELSE a[i - 1]
      <3>1. x = 1 /\ x + y = 7
        BY <2>1
      <3> QED BY ONLY <2>2, <3>1
    <2> QED BY ONLY <2>3, <2>4
  <1>10. doc = b \o l
    BY <1>1, <1>5, <1>6, <1>7 DEF ErrorBody, Node
  <1>11. doc \in Seq(K) /\ Len(doc) = 8 /\ doc[8] = last /\ \A i \in 1 .. 7 : doc[i] = b[i]
    <2>1. PICK x \in Nat, y \in Nat : x = 7 /\ y = 1 /\ x = Len(b) /\ y = Len(l)
      BY <1>6, <1>9
    <2>2. doc \in Seq(K) /\ Len(doc) = x + y /\ \A i \in 1 .. x + y : doc[i] = IF i <= x THEN b[i] ELSE l[i - x]
      <3>1. /\ x \in Nat /\ y \in Nat /\ b \in Seq(K) /\ l \in Seq(K)
            /\ x = Len(b) /\ y = Len(l) /\ doc = b \o l
        BY <1>6, <1>9, <1>10, <2>1
      <3> QED BY ONLY <3>1, ConcatIs
    <2>3. l[1] = last
      BY <1>6
    <2>4. doc \in Seq(K) /\ Len(doc) = 8 /\ \A i \in 1 .. 8 : doc[i] = IF i <= 7 THEN b[i] ELSE l[i - 7]
      <3>1. x = 7 /\ x + y = 8
        BY <2>1
      <3> QED BY ONLY <2>2, <3>1
    <2> QED BY ONLY <2>3, <2>4
  <1>12. DOMAIN doc = 1 .. 8
    BY <1>11
  <1>13. doc[1] = b[1] /\ doc[2] = a[1] /\ doc[3] = a[2] /\ doc[4] = a[3]
    BY <1>9, <1>11
  <1>14. doc[5] = a[4] /\ doc[6] = a[5] /\ doc[7] = a[6]
    BY <1>9, <1>11
  <1>15. a[1] = c[1] /\ a[2] = c[2] /\ a[3] = c[3]
    BY <1>8
  <1> QED BY <1>3, <1>5, <1>8, <1>9, <1>11, <1>12, <1>13, <1>14, <1>15

(* Of an error document that arrived whole the code is read. *)
LEMMA CodeIsRead ==
    ASSUME NEW code
    PROVE  read_node_text(ErrorBody(code), <<"Error", "Code">>) = <<code>>
  <1>1. PICK doc : doc = ErrorBody(code)
    OBVIOUS
  <1>2. /\ Len(doc) = 8 /\ DOMAIN doc = 1 .. 8
        /\ doc[1] = Open("Error") /\ doc[2] = Open("Code") /\ doc[3] = Text(<<code>>)
        /\ doc[4] = Close("Code") /\ doc[5] = Open("Message") /\ doc[6] = Text(<<"why">>)
        /\ doc[7] = Close("Message") /\ doc[8] = Close("Error")
    BY <1>1, TokensOfError
  <1>3. is_safe_to_read(doc)
    <2> DEFINE g == [i \in 0 .. 8 |-> CASE i \in {0, 8} -> 0 [] i \in {1, 4, 7} -> 1 [] OTHER -> 2]
    <2>1. \A n, t : /\ Scanned(0, Open(n)) = 1 /\ Scanned(1, Close(n)) = 0
                    /\ Scanned(1, Open(n)) = 2 /\ Scanned(2, Close(n)) = 1
                    /\ Scanned(2, Text(t)) = 2
      <3> SUFFICES ASSUME NEW n, NEW t
                   PROVE  /\ Scanned(0, Open(n)) = 1 /\ Scanned(1, Close(n)) = 0
                          /\ Scanned(1, Open(n)) = 2 /\ Scanned(2, Close(n)) = 1
                          /\ Scanned(2, Text(t)) = 2
        OBVIOUS
      <3>1. Scanned(1, Open(n)) = 2
        BY DEF Scanned, Unsafe, Open
      <3>2. Scanned(2, Close(n)) = 1
        BY DEF Scanned, Unsafe, Close
      <3>3. Scanned(2, Text(t)) = 2
        BY FieldsOfText DEF Scanned, Unsafe
      <3> QED BY <3>1, <3>2, <3>3, DepthsBehind
    <2>2. g = [i \in 0 .. Len(doc) |-> IF i = 0 THEN 0 ELSE Scanned(g[i - 1], doc[i])]
      <3>1. ASSUME NEW i \in 0 .. 8 PROVE g[i] = IF i = 0 THEN 0 ELSE Scanned(g[i - 1], doc[i])
        <4>1. i = 0 \/ i = 1 \/ i = 2 \/ i = 3 \/ i = 4 \/ i = 5 \/ i = 6 \/ i = 7 \/ i = 8
          OBVIOUS
        <4>2. /\ g[0] = 0 /\ g[1] = 1 /\ g[2] = 2 /\ g[3] = 2 /\ g[4] = 1
              /\ g[5] = 2 /\ g[6] = 2 /\ g[7] = 1 /\ g[8] = 0
          OBVIOUS
        <4> HIDE DEF g
        <4> QED BY <1>2, <2>1, <4>1, <4>2
      <3>2. g = [i \in 0 .. 8 |-> g[i]]
        OBVIOUS
      <3> HIDE DEF g
      <3> QED BY <1>2, <3>1, <3>2
    <2> HIDE DEF g
    <2>3. PICK f : /\ f = [i \in 0 .. Len(doc) |-> IF i = 0 THEN 0 ELSE Scanned(f[i - 1], doc[i])]
                   /\ Scan(doc) = f[Len(doc)]
      BY <2>2, ScanIsComputed
    <2>4. \A i \in 0 .. 8 : f[i] = IF i = 0 THEN 0 ELSE Scanned(f[i - 1], doc[i])
      BY <1>2, <2>3
    <2>5. f[0] = 0 /\ f[1] = 1 /\ f[2] = 2 /\ f[3] = 2 /\ f[4] = 1
      BY <1>2, <2>1, <2>4
    <2>6. f[5] = 2 /\ f[6] = 2 /\ f[7] = 1 /\ f[8] = 0
      BY <1>2, <2>1, <2>4, <2>5
    <2> QED BY <1>2, <2>3, <2>6 DEF is_safe_to_read
  <1>4. /\ doc[1].tag = "open" /\ doc[1].name = "Error" /\ doc[2].tag = "open" /\ doc[2].name = "Code"
        /\ doc[3].tag = "text" /\ doc[3].text = <<code>> /\ doc[4].tag = "close"
        /\ doc[5].name = "Message" /\ doc[6].tag = "text" /\ doc[7].tag = "close" /\ doc[8].tag = "close"
    BY <1>2, FieldsOfText DEF Open, Close
  <1>5. Level(doc, 1) = 0 /\ Level(doc, 2) = 1
    <2>1. /\ {k \in 1 .. 1 - 1 : doc[k].tag = "open"} = {} /\ {k \in 1 .. 1 - 1 : doc[k].tag = "close"} = {}
          /\ {k \in 1 .. 2 - 1 : doc[k].tag = "open"} = {1} /\ {k \in 1 .. 2 - 1 : doc[k].tag = "close"} = {}
      BY <1>4
    <2>2. Cardinality({}) = 0 /\ Cardinality({1}) = 1
      BY FS_EmptySet, FS_Singleton
    <2> QED BY <2>1, <2>2 DEF Level
  <1>6. NodesAt(doc, <<"Error", "Code">>) = {2}
    <2>1. PICK path : path = <<"Error", "Code">>
      OBVIOUS
    <2>2. Len(path) = 2 /\ path[1] = "Error" /\ path[2] = "Code"
      BY <2>1
    <2>3. \A i \in Tagged(doc, {"open", "empty"}) : doc[i].name = "Code" => i = 2
      <3> SUFFICES ASSUME NEW i \in Tagged(doc, {"open", "empty"}), doc[i].name = "Code" PROVE i = 2
        OBVIOUS
      <3>1. i \in 1 .. 8 /\ doc[i].tag \in {"open", "empty"}
        BY <1>2 DEF Tagged
      <3>2. i = 1 \/ i = 2 \/ i = 3 \/ i = 4 \/ i = 5 \/ i = 6 \/ i = 7 \/ i = 8
        BY <3>1
      <3> QED BY <1>4, <3>1, <3>2
    <2>4. 2 \in Tagged(doc, {"open", "empty"})
      BY <1>2, <1>4 DEF Tagged
    <2>5. \A j \in Ancestors(doc, 2) : doc[j].name = path[Level(doc, j) + 1]
      <3>1. \A j \in Ancestors(doc, 2) : j = 1
        BY DEF Ancestors
      <3> QED BY <1>4, <1>5, <2>2, <3>1
    <2>6. NodesAt(doc, path) = {2}
      BY <1>4, <1>5, <2>2, <2>3, <2>4, <2>5 DEF NodesAt
    <2> QED BY <2>1, <2>6
  <1>7. Min({2}) = 2
    BY MinIsFirst
  <1>8. TextBehind(doc, 2) = <<code>>
    BY <1>2, <1>4 DEF TextBehind
  <1>9. 4 \in Tagged(doc, {"open", "close", "empty"}) /\ 4 > 2
    BY <1>2, <1>4 DEF Tagged
  <1>10. read_node_text(doc, <<"Error", "Code">>) = unescape(TextBehind(doc, 2))
    BY <1>3, <1>6, <1>7, <1>9 DEF read_node_text
  <1> QED BY <1>1, <1>8, <1>10, ShortTextIsVerbatim

(* An error document that arrives whole decides, whatever the status it comes *)
(* with: detect_error gives the variant of its code, or keeps a code it does *)
(* not know, next to the status, for is_retryable to look at.                *)
THEOREM WholeErrorIsTyped ==
    ASSUME NEW status, NEW code, code # "None"
    PROVE  detect_error(status, ErrorBody(code))
              = IF code \in DOMAIN error_codes THEN Typed(error_codes[code])
                ELSE UnexpectedStatusCode(status, <<code>>)
  <1>1. PICK t : t = read_node_text(ErrorBody(code), <<"Error", "Code">>)
    OBVIOUS
  <1>2. t = <<code>> /\ Len(t) = 1 /\ t[1] = code /\ t # None
    <2>1. t = <<code>>
      BY <1>1, CodeIsRead
    <2>2. <<code>>[1] = code /\ Len(<<code>>) = 1 /\ None[1] = "None"
      BY DEF None
    <2> QED BY <2>1, <2>2
  <1>3. Maps(t) <=> code \in DOMAIN error_codes
    BY <1>2 DEF Maps
  <1>4. detect_error(status, ErrorBody(code))
           = CASE Maps(t) -> Typed(error_codes[t[1]])
               [] t = None /\ status = 404 -> Typed("KeyNotFound")
               [] t = None /\ status = 416 -> Typed("RangeNotSatisfiable")
               [] OTHER -> UnexpectedStatusCode(status, t)
    BY <1>1 DEF detect_error
  <1>5. CASE Maps(t)
    BY <1>2, <1>3, <1>4, <1>5
  <1>6. CASE ~Maps(t)
    BY <1>2, <1>3, <1>4, <1>6
  <1> QED BY <1>5, <1>6

-----------------------------------------------------------------------------
(* The calls                                                                *)

Fields == {"pc", "op", "size", "tries", "made", "ok", "value", "number", "err", "done", "seen"}

(* The result of the call k of c is right when the bucket is o's and the      *)
(* object has n bytes.                                                       *)
Tells(c, k, o, n) ==
    /\ Says(c, k, o, n)
    /\ k.done => k.ok \/ k.err.variant \in {"Other", "FlUrlError"}
    /\ endpoint # "" /\ as_str(region[c]) = endpoint =>
          k.err.code # <<"IllegalLocationConstraintException">>
    /\ endpoint # "None" /\ "location" \notin Scene.cut /\ k.ok /\ k.op = "location" =>
          k.value = endpoint

(* A call that runs knows nothing yet but has seen the storage as it is; what *)
(* one that has returned tells was so at some moment it has seen.            *)
CallInv(c, k, o, n) ==
    /\ DOMAIN k = Fields
    /\ k.pc \in {"idle", "asking", "returned"}
    /\ k.pc # "returned" => k.ok = FALSE /\ k.done = FALSE /\ k.err = Typed("none")
    /\ k.pc = "asking" => <<o, n>> \in k.seen
    /\ k.pc = "returned" => \E s \in k.seen : Tells(c, k, s[1], s[2])

(* A bucket that is nobody's has no object: it is removed when it is empty.   *)
StorageInv ==
    /\ scenario \in DOMAIN Scenarios
    /\ endpoint \in Scene.regions
    /\ owner = "nobody" => object = 0
    /\ \A m \in wire : m.client \in Clients

IInv ==
    /\ StorageInv
    /\ DOMAIN call = Clients
    /\ \A c \in Clients : CallInv(c, call[c], owner, object)
-----------------------------------------------------------------------------
(* Every row of the catalogue is found again under its own text, and every    *)
(* other text is kept.                                                       *)
LEMMA RegionIsKept ==
    ASSUME NEW text
    PROVE  as_str(from_str(text)) = text /\ from_str(text) # NotALocation
  <1>1. CASE text \in DOMAIN Catalogue
    <2>1. /\ DOMAIN Catalogue = {"us-east-1", "eu-west-1", "fsn1"}
          /\ Catalogue["us-east-1"] = "AwsUsEast1"
          /\ Catalogue["eu-west-1"] = "AwsEuWest1"
          /\ Catalogue["fsn1"] = "HetznerFsn1"
      BY DEF Catalogue
    <2>2. PICK r : r = [variant |-> Catalogue[text], text |-> ""]
      OBVIOUS
    <2>3. r.variant = Catalogue[text] /\ r.variant \notin {"Other", "none"}
      BY <1>1, <2>1, <2>2
    <2>4. \A x \in DOMAIN Catalogue : Catalogue[x] = r.variant => x = text
      BY <1>1, <2>1, <2>3
    <2>5. as_str(r) = text
      BY <1>1, <2>3, <2>4 DEF as_str
    <2>6. r # NotALocation
      <3>1. NotALocation.variant = "none"
        BY DEF NotALocation
      <3> QED BY <2>3, <3>1
    <2> QED BY <1>1, <2>2, <2>5, <2>6 DEF from_str
  <1>2. CASE text \notin DOMAIN Catalogue
    BY <1>2 DEF from_str, as_str, Other, NotALocation
  <1> QED BY <1>1, <1>2

(* A client of the endpoint's own region states that region, or none when the *)
(* endpoint is us-east-1.                                                    *)
LEMMA OwnRegionAgrees ==
    ASSUME NEW m, ScopeIsRight(m), endpoint # ""
    PROVE  ~Contradicts(m)
  <1>1. CASE endpoint = "us-east-1"
    BY <1>1 DEF ScopeIsRight, Contradicts, create_bucket_configuration, is_us_east_1
  <1>2. CASE endpoint # "us-east-1"
    BY <1>2 DEF ScopeIsRight, Contradicts, create_bucket_configuration, is_us_east_1, is_empty
  <1> QED BY <1>1, <1>2

(* The region of the bucket, read from any spelling of it *)
LEMMA LocationIsRead ==
    ASSUME endpoint # "None", NEW body \in LocationBodies
    PROVE  parse_bucket_location(body) = from_str(endpoint)
  <1> DEFINE text == read_node_text(body, <<"LocationConstraint">>)
  <1>1. CASE endpoint # "us-east-1"
    <2>1. body = Leaf("LocationConstraint", <<endpoint>>)
      BY <1>1 DEF LocationBodies
    <2>2. text = <<endpoint>>
      BY <2>1, RootIsRead
    <2>3. text \notin {None, << >>} /\ text[1] = endpoint
      BY <2>2 DEF None
    <2> QED BY <2>3 DEF parse_bucket_location
  <1>2. CASE endpoint = "us-east-1" /\ body = Leaf("LocationConstraint", << >>)
    <2>1. text = << >>
      BY <1>2, RootIsRead
    <2>2. << >> # None
      BY DEF None
    <2> QED BY <1>2, <2>1, <2>2 DEF parse_bucket_location
  <1>3. CASE endpoint = "us-east-1" /\ body = <<Empty("LocationConstraint")>>
    <2>1. text = None /\ text # << >>
      BY <1>3, RootIsRead DEF None
    <2>2. \E i \in Tagged(body, {"open", "empty", "cut"}) : body[i].name = "LocationConstraint"
      <3>1. 1 \in DOMAIN body /\ body[1] = Empty("LocationConstraint")
        BY <1>3
      <3> QED BY <3>1 DEF Tagged, Empty
    <2> QED BY <1>3, <2>1, <2>2 DEF parse_bucket_location
  <1> QED BY <1>1, <1>2, <1>3 DEF LocationBodies
-----------------------------------------------------------------------------
(* What the storage refuses with a code it refuses for a reason that holds. *)
Justified(m, code) ==
    /\ code # "NoSuchKey"
    /\ code = "BucketAlreadyOwnedByYou" => owner = Account(m.client)
    /\ code = "BucketAlreadyExists" => owner \notin {Account(m.client), "nobody"}
    /\ code = "NoSuchBucket" => owner = "nobody"
    /\ code = "IllegalLocationConstraintException" => ScopeIsRight(m) /\ Contradicts(m)

(* No other code can be read from the answer; a 404 without one has its       *)
(* reason too.                                                               *)
Refused(m, status, body) ==
    /\ status \in 300 .. 599
    /\ \E code : Justified(m, code) /\ body \in Spoken(code)
    /\ status = 404 => owner = "nobody" \/ (m.op = "size" /\ object = 0)

MayRefuse(m, status, code) ==
    /\ Justified(m, code)
    /\ status \in 300 .. 599
    /\ status = 404 => owner = "nobody"

(* An answer is a success when the request was carried out, and only then. *)
AnswerInv(m, a) ==
    /\ DOMAIN a = {"status", "body", "length", "done"}
    /\ a.done <=> is_success(a.status)
    /\ a.done /\ ~Creates(m) => owner = Account(m.client)
    /\ a.done /\ m.op = "size" => a.length \in {0, object}
    /\ a.done /\ m.op = "location" /\ "location" \notin Scene.cut => a.body \in LocationBodies
    /\ ~a.done => Refused(m, a.status, a.body)

(* The fields of an answer *)
LEMMA AnswerFields ==
    ASSUME NEW status, NEW body, NEW length, NEW a, a = Answer(status, body, length)
    PROVE  /\ DOMAIN a = {"status", "body", "length", "done"}
           /\ a.status = status /\ a.body = body /\ a.length = length
           /\ a.done <=> status < 300
  <1> DEFINE d == status < 300
  <1>1. a = [status |-> status, body |-> body, length |-> length, done |-> d]
    BY DEF Answer
  <1> HIDE DEF d
  <1>2. DOMAIN a = {"status", "body", "length", "done"}
    BY <1>1
  <1>3. a.status = status /\ a.body = body /\ a.length = length /\ a.done = d
    BY <1>1
  <1> QED BY <1>2, <1>3 DEF d

(* A request that is not carried out, answered with a body that speaks a code *)
LEMMA RefusedIsSound ==
    ASSUME NEW m, NEW status, NEW body, NEW length, Refused(m, status, body)
    PROVE  AnswerInv(m, Answer(status, body, length))
  <1>1. PICK a : a = Answer(status, body, length)
    OBVIOUS
  <1>2. /\ DOMAIN a = {"status", "body", "length", "done"}
        /\ a.status = status /\ a.body = body
        /\ ~a.done /\ ~is_success(a.status)
    <2>1. ~(status < 300) /\ ~is_success(status)
      BY DEF Refused, is_success
    <2> QED BY <1>1, <2>1, AnswerFields
  <1> QED BY <1>1, <1>2 DEF AnswerInv

(* The same of an <Error> document, which a HEAD does not bring *)
LEMMA RefusalIsSound ==
    ASSUME NEW m, NEW status, NEW code, MayRefuse(m, status, code)
    PROVE  AnswerInv(m, Refusal(m, status, code))
  <1>1. PICK body : body = IF IsHead(m) THEN << >> ELSE ErrorBody(code)
    OBVIOUS
  <1>2. body \in Spoken(code)
    BY <1>1, ErrorsAreSpoken
  <1>3. Refused(m, status, body)
    BY <1>2 DEF Refused, MayRefuse
  <1> QED BY <1>1, <1>3, RefusedIsSound DEF Refusal

(* The answers of the storage, and the excuses, are such answers. *)
LEMMA AnswersAreSound ==
    ASSUME NEW m, NEW a \in Answers(m) \cup Excuses(m)
    PROVE  AnswerInv(m, a)
  <1>1. ASSUME NEW status \in {200, 204}, NEW body, NEW length, a = Answer(status, body, length),
               ~Creates(m) => owner = Account(m.client),
               m.op = "size" => length \in {0, object},
               m.op = "location" => body \in LocationBodies
        PROVE  AnswerInv(m, a)
    <2>1. status < 300 /\ is_success(status)
      BY DEF is_success
    <2>2. /\ DOMAIN a = {"status", "body", "length", "done"}
          /\ a.body = body /\ a.length = length
          /\ a.done /\ is_success(a.status)
      BY <1>1, <2>1, AnswerFields
    <2> QED BY <1>1, <2>2 DEF AnswerInv
  <1>2. CASE a \in Excuses(m)
    <2>1. CASE a = Refusal(m, 503, "SlowDown")
      <3>1. MayRefuse(m, 503, "SlowDown")
        BY DEF MayRefuse, Justified
      <3> QED BY <2>1, <3>1, RefusalIsSound
    <2>2. CASE a = Answer(502, IF IsHead(m) THEN << >> ELSE Leaf("html", << >>), 0)
      <3>1. PICK body : body = IF IsHead(m) THEN << >> ELSE Leaf("html", << >>)
        OBVIOUS
      <3>2. body \in Spoken("none")
        BY <3>1, ErrorsAreSpoken
      <3>3. Justified(m, "none")
        BY DEF Justified
      <3>4. Refused(m, 502, body)
        BY <3>2, <3>3 DEF Refused
      <3> QED BY <2>2, <3>1, <3>4, RefusedIsSound
    <2> QED BY <1>2, <2>1, <2>2 DEF Excuses
  <1>3. CASE ~ScopeIsRight(m) /\ a \in Answers(m)
    <2>1. a = Refusal(m, 403, "SignatureDoesNotMatch")
      BY <1>3 DEF Answers
    <2>2. MayRefuse(m, 403, "SignatureDoesNotMatch")
      BY DEF MayRefuse, Justified
    <2> QED BY <2>1, <2>2, RefusalIsSound
  <1>4. CASE ScopeIsRight(m) /\ Creates(m) /\ a \in Answers(m)
    <2>1. a \in CreateAnswers(m)
      BY <1>4 DEF Answers
    <2>2. CASE owner = Account(m.client)
      <3>0. owner # "nobody"
        BY <2>2 DEF Account
      <3>1. a = Refusal(m, 409, "BucketAlreadyOwnedByYou")
        BY <2>1, <2>2, <3>0 DEF CreateAnswers
      <3>2. MayRefuse(m, 409, "BucketAlreadyOwnedByYou")
        BY <2>2 DEF MayRefuse, Justified
      <3> QED BY <3>1, <3>2, RefusalIsSound
    <2>3. CASE owner \notin {Account(m.client), "nobody"}
      <3>1. a = Refusal(m, 409, "BucketAlreadyExists")
        BY <2>1, <2>3 DEF CreateAnswers
      <3>2. MayRefuse(m, 409, "BucketAlreadyExists")
        BY <2>3 DEF MayRefuse, Justified
      <3> QED BY <3>1, <3>2, RefusalIsSound
    <2>4. CASE owner = "nobody" /\ owner # Account(m.client) /\ Contradicts(m)
      <3>1. a = Refusal(m, 400, "IllegalLocationConstraintException")
        BY <2>1, <2>4 DEF CreateAnswers
      <3>2. MayRefuse(m, 400, "IllegalLocationConstraintException")
        BY <1>4, <2>4 DEF MayRefuse, Justified
      <3> QED BY <3>1, <3>2, RefusalIsSound
    <2>5. CASE owner = "nobody" /\ owner # Account(m.client) /\ ~Contradicts(m)
      <3>1. a = Plain(200)
        BY <2>1, <2>5 DEF CreateAnswers
      <3>2. m.op \notin {"size", "location"}
        BY <1>4 DEF Creates
      <3> QED BY <1>1, <1>4, <3>1, <3>2 DEF Plain
    <2> QED BY <2>2, <2>3, <2>4, <2>5
  <1>5. CASE ScopeIsRight(m) /\ ~Creates(m) /\ owner = Account(m.client) /\ a \in Answers(m)
    <2>0. owner # "nobody"
      BY <1>5 DEF Account
    <2>1. a \in OwnerAnswers(m)
      BY <1>5, <2>0 DEF Answers
    <2>2. CASE m.op = "location"
      <3>1. PICK b \in LocationBodies : a = Answer(200, b, 0)
        BY <2>1, <2>2 DEF OwnerAnswers
      <3> QED BY <1>1, <1>5, <2>2, <3>1
    <2>3. CASE m.op = "delete"
      <3>1. a = Plain(204)
        BY <2>1, <2>3 DEF OwnerAnswers
      <3> QED BY <1>1, <1>5, <2>3, <3>1 DEF Plain
    <2>4. CASE m.op = "size" /\ object = 0
      <3>1. a = Plain(404)
        BY <2>1, <2>4 DEF OwnerAnswers
      <3>2. Justified(m, "none")
        BY DEF Justified
      <3>3. << >> \in Spoken("none")
        BY ErrorsAreSpoken
      <3>4. Refused(m, 404, << >>)
        BY <2>4, <3>2, <3>3 DEF Refused
      <3> QED BY <3>1, <3>4, RefusedIsSound DEF Plain
    <2>5. CASE m.op = "size" /\ object # 0
      <3>1. a = Answer(200, << >>, object) \/ a = Plain(200)
        BY <2>1, <2>5 DEF OwnerAnswers
      <3> QED BY <1>1, <1>5, <2>5, <3>1 DEF Plain
    <2>6. CASE m.op \notin {"location", "delete", "size"}
      <3>1. a = Plain(200)
        BY <2>1, <2>6 DEF OwnerAnswers
      <3> QED BY <1>1, <1>5, <2>6, <3>1 DEF Plain
    <2> QED BY <2>2, <2>3, <2>4, <2>5, <2>6
  <1>6. CASE ScopeIsRight(m) /\ ~Creates(m) /\ owner = "nobody" /\ a \in Answers(m)
    <2>0. owner # Account(m.client)
      BY <1>6 DEF Account
    <2>1. a = Refusal(m, 404, "NoSuchBucket")
      BY <1>6, <2>0 DEF Answers
    <2>2. MayRefuse(m, 404, "NoSuchBucket")
      BY <1>6 DEF MayRefuse, Justified
    <2> QED BY <1>6, <2>1, <2>2, RefusalIsSound
  <1>7. CASE /\ ScopeIsRight(m) /\ ~Creates(m)
             /\ owner \notin {"nobody", Account(m.client)} /\ a \in Answers(m)
    <2>1. a = Refusal(m, 403, "AccessDenied")
      BY <1>7 DEF Answers
    <2>2. MayRefuse(m, 403, "AccessDenied")
      BY DEF MayRefuse, Justified
    <2> QED BY <2>1, <2>2, RefusalIsSound
  <1> QED BY <1>2, <1>3, <1>4, <1>5, <1>6, <1>7
(* A body that was cut short leaves the answer sound. *)
LEMMA ArrivingIsSound ==
    ASSUME NEW m, NEW a, AnswerInv(m, a), NEW b \in Arriving(m, a)
    PROVE  AnswerInv(m, b) /\ (b.done <=> a.done)
  <1>1. CASE b = a
    BY <1>1
  <1>2. CASE m.op \in Scene.cut /\ b \in {[a EXCEPT !.body = x] : x \in CutShort(a.body)}
    <2>1. PICK x \in CutShort(a.body) : b = [a EXCEPT !.body = x]
      BY <1>2
    <2>2. /\ DOMAIN b = DOMAIN a /\ b.status = a.status /\ b.length = a.length
          /\ b.done = a.done /\ b.body = x
      BY <2>1 DEF AnswerInv
    <2>3. ASSUME ~a.done PROVE Refused(m, b.status, b.body)
      <3>1. Refused(m, a.status, a.body)
        BY <2>3 DEF AnswerInv
      <3>2. PICK code : Justified(m, code) /\ a.body \in Spoken(code)
        BY <3>1 DEF Refused
      <3>3. x \in Spoken(code)
        BY <3>2, ErrorsAreSpoken
      <3> QED BY <2>2, <3>1, <3>2, <3>3 DEF Refused
    <2>4. m.op = "location" => "location" \in Scene.cut
      BY <1>2
    <2> QED BY <2>2, <2>3, <2>4 DEF AnswerInv
  <1> QED BY <1>1, <1>2 DEF Arriving

-----------------------------------------------------------------------------
(* A call about which nothing is known yet *)
Fresh(k) == DOMAIN k = Fields /\ k.ok = FALSE /\ k.err = Typed("none")

(* What success changes of a call *)
LEMMA OkayFields ==
    ASSUME NEW k, DOMAIN k = Fields, NEW j, j = Okay(k)
    PROVE  /\ DOMAIN j = Fields /\ j.ok = TRUE /\ j.pc = "returned"
           /\ j.op = k.op /\ j.size = k.size /\ j.err = k.err
           /\ j.done = k.done /\ j.seen = k.seen
  BY DEF Okay, Fields

(* What an error changes of a call *)
LEMMA FailsFields ==
    ASSUME NEW k, DOMAIN k = Fields, NEW e, NEW j, j = Fails(k, e)
    PROVE  /\ DOMAIN j = Fields /\ j.ok = k.ok /\ j.pc = "returned"
           /\ j.err = e /\ j.done = k.done /\ j.seen = k.seen
  BY DEF Fails, Fields

(* The error that is made of a refusal tells the truth. *)
LEMMA ErrorTells ==
    ASSUME NEW m, NEW status, NEW body, Refused(m, status, body),
           NEW k, Fresh(k), ~k.done, owner = "nobody" => object = 0
    PROVE  Tells(m.client, Fails(k, detect_error(status, body)), owner, object)
  <1>1. PICK code : Justified(m, code) /\ body \in Spoken(code)
    BY DEF Refused
  <1>2. PICK e : e = detect_error(status, body)
    OBVIOUS
  <1>3. /\ e.variant = "BucketAlreadyOwnedByYou" => code = "BucketAlreadyOwnedByYou"
        /\ e.variant = "BucketAlreadyExists" => code = "BucketAlreadyExists"
        /\ e.variant = "BucketNotFound" => code = "NoSuchBucket"
        /\ e.variant = "KeyNotFound" => code = "NoSuchKey" \/ status = 404
        /\ \A c : c \notin {"None", "why"} /\ e.code = <<c>> => code = c
    BY <1>1, <1>2, ErrorIsAsSpoken
  <1>4. PICK j : j = Fails(k, e)
    OBVIOUS
  <1>5. j.ok = FALSE /\ ~j.done /\ j.err = e
    <2>1. DOMAIN k = Fields /\ k.ok = FALSE
      BY DEF Fresh
    <2>2. j.ok = k.ok /\ j.done = k.done /\ j.err = e
      BY <1>4, <2>1, FailsFields
    <2> QED BY <2>1, <2>2
  <1>6. Says(m.client, j, owner, object)
    <2>1. e.variant = "BucketAlreadyOwnedByYou" => owner = Account(m.client)
      BY <1>1, <1>3 DEF Justified
    <2>2. e.variant = "BucketAlreadyExists" => owner \notin {Account(m.client), "nobody"}
      BY <1>1, <1>3 DEF Justified
    <2>3. e.variant = "BucketNotFound" => owner = "nobody"
      BY <1>1, <1>3 DEF Justified
    <2>4. e.variant = "KeyNotFound" => object = 0
      BY <1>1, <1>3 DEF Justified, Refused
    <2> QED BY <1>5, <2>1, <2>2, <2>3, <2>4 DEF Says
  <1>7. ASSUME endpoint # "", as_str(region[m.client]) = endpoint,
               e.code = <<"IllegalLocationConstraintException">>
        PROVE  FALSE
    <2>1. code = "IllegalLocationConstraintException"
      <3>1. "IllegalLocationConstraintException" \notin {"None", "why"}
        OBVIOUS
      <3> QED BY <1>3, <1>7, <3>1, Zenon
    <2> QED BY <1>1, <1>7, <2>1, OwnRegionAgrees DEF Justified
  <1> QED BY <1>2, <1>4, <1>5, <1>6, <1>7 DEF Tells
(* An error that is no answer of the storage claims nothing about it. *)
Unanswered == {Typed("Other"), FlUrlError("timeout"), FlUrlError("ReadingHyperBodyError")}

(* So it is right whatever the storage looks like. *)
LEMMA UnansweredTells ==
    ASSUME NEW c, NEW k, Fresh(k), NEW e \in Unanswered, NEW o, NEW n
    PROVE  Tells(c, Fails(k, e), o, n)
  <1>1. /\ e.variant \in {"Other", "FlUrlError"}
        /\ e.code # <<"IllegalLocationConstraintException">>
    BY DEF Unanswered, Typed, FlUrlError, None
  <1>2. PICK j : j = Fails(k, e)
    OBVIOUS
  <1>3. DOMAIN k = Fields /\ k.ok = FALSE
    BY DEF Fresh
  <1>4. j.ok = FALSE /\ j.err = e
    BY <1>2, <1>3, FailsFields
  <1>5. Says(c, j, o, n)
    BY <1>1, <1>4 DEF Says
  <1> QED BY <1>1, <1>2, <1>4, <1>5 DEF Tells

(* A call that is refused, or that cannot use what it got, returns with the   *)
(* error that ErrorTells is about, or with what the refusal means to it.     *)
LEMMA RefusalTells ==
    ASSUME NEW m, NEW b, AnswerInv(m, b), ~b.done, owner = "nobody" => object = 0,
           NEW k, Fresh(k), ~k.done, k.op = m.op,
           NEW j, \/ k.op = "ensure" /\ j = Ensured(k, b)
                  \/ k.op = "location" /\ j = Located(k, b)
                  \/ k.op = "exists" /\ j = Checked(k, b)
                  \/ k.op = "size" /\ j = Sized(k, b)
                  \/ j = ExpectSuccess(k, b)
    PROVE  /\ Tells(m.client, j, owner, object)
           /\ DOMAIN j = Fields /\ j.pc = "returned" /\ j.seen = k.seen
  <1>0. DOMAIN k = Fields /\ k.ok = FALSE /\ k.err = Typed("none")
    BY DEF Fresh
  <1>1. ~is_success(b.status) /\ Refused(m, b.status, b.body)
    BY DEF AnswerInv
  <1>2. Refused(m, b.status, << >>)
    BY <1>1, ErrorsAreSpoken DEF Refused
  <1>3. ASSUME NEW body \in {b.body, << >>}, j = Fails(k, detect_error(b.status, body))
        PROVE  /\ Tells(m.client, j, owner, object)
               /\ DOMAIN j = Fields /\ j.pc = "returned" /\ j.seen = k.seen
    <2>1. Refused(m, b.status, body)
      BY <1>1, <1>2
    <2>2. Tells(m.client, j, owner, object)
      BY <1>3, <2>1, ErrorTells
    <2> QED BY <1>0, <1>3, <2>2, FailsFields
  <1>4. ASSUME j.ok = TRUE, j.err = k.err, j.done = k.done, j.op = k.op, k.op # "location",
               Says(m.client, j, owner, object)
        PROVE  Tells(m.client, j, owner, object)
    <2>1. Typed("none").code # <<"IllegalLocationConstraintException">>
      BY DEF Typed, None
    <2> QED BY <1>0, <1>4, <2>1 DEF Tells
  <1>5. CASE j = ExpectSuccess(k, b)
    BY <1>1, <1>3, <1>5 DEF ExpectSuccess
  <1>6. CASE k.op = "location" /\ j = Located(k, b)
    <2>1. j = ExpectSuccess(k, b)
      BY <1>1, <1>6 DEF Located
    <2> QED BY <1>5, <2>1
  <1>7. CASE k.op = "size" /\ j = Sized(k, b)
    <2>1. j = Fails(k, detect_error(b.status, << >>))
      BY <1>1, <1>7 DEF Sized
    <2> QED BY <1>3, <2>1
  <1>8. CASE k.op = "exists" /\ j = Checked(k, b)
    <2>1. CASE b.status = 404
      <3>1. PICK i : i = Okay(k)
        OBVIOUS
      <3>2. /\ DOMAIN i = Fields /\ i.ok = TRUE /\ i.pc = "returned" /\ i.op = k.op
            /\ i.err = k.err /\ i.done = k.done /\ i.seen = k.seen
        <4>1. DOMAIN k = Fields
          BY <1>0
        <4> QED BY ONLY <3>1, <4>1, OkayFields
      <3>3. j = [i EXCEPT !.value = "false"]
        BY <1>1, <1>8, <2>1, <3>1 DEF Checked
      <3>4. /\ DOMAIN j = Fields /\ j.ok = TRUE /\ j.pc = "returned" /\ j.op = k.op
            /\ j.err = k.err /\ j.done = k.done /\ j.seen = k.seen /\ j.value = "false"
        BY <3>2, <3>3 DEF Fields
      <3>5. owner = "nobody"
        BY <1>1, <1>8, <2>1 DEF Refused
      <3>6. Says(m.client, j, owner, object)
        BY <1>8, <3>4, <3>5 DEF Says
      <3> QED BY <1>4, <1>8, <3>4, <3>6
    <2>2. CASE b.status # 404
      <3>1. j = Fails(k, detect_error(b.status, << >>))
        BY <1>1, <1>8, <2>2 DEF Checked
      <3> QED BY <1>3, <3>1
    <2> QED BY <2>1, <2>2
  <1>9. CASE k.op = "ensure" /\ j = Ensured(k, b)
    <2>1. PICK i : i = ExpectSuccess(k, b)
      OBVIOUS
    <2>2. i = Fails(k, detect_error(b.status, b.body))
      BY <1>1, <2>1 DEF ExpectSuccess
    <2>3. CASE i.err.variant # "BucketAlreadyOwnedByYou"
      <3>1. j = i
        BY <1>9, <2>1, <2>3 DEF Ensured
      <3> QED BY <1>3, <2>2, <3>1
    <2>4. CASE i.err.variant = "BucketAlreadyOwnedByYou"
      <3>1. j = Okay(k)
        BY <1>9, <2>1, <2>4 DEF Ensured
      <3>2. /\ DOMAIN j = Fields /\ j.ok = TRUE /\ j.pc = "returned" /\ j.op = k.op
            /\ j.err = k.err /\ j.done = k.done /\ j.seen = k.seen
        BY <1>0, <3>1, OkayFields
      <3>3. Tells(m.client, i, owner, object)
        BY <1>1, <2>2, ErrorTells
      <3>4. i.ok = FALSE
        BY <1>0, <2>2, FailsFields
      <3>5. owner = Account(m.client)
        BY <2>4, <3>3, <3>4 DEF Tells, Says
      <3>6. Says(m.client, j, owner, object)
        BY <1>9, <3>2, <3>5 DEF Says
      <3> QED BY <1>4, <1>9, <3>2, <3>6
    <2> QED BY <2>3, <2>4
  <1> QED BY <1>5, <1>6, <1>7, <1>8, <1>9
(* A call whose request was carried out tells what the storage has become: o  *)
(* and n, the owner and the object behind it.                                *)
LEMMA SuccessTells ==
    ASSUME NEW m, NEW b, AnswerInv(m, b), b.done,
           NEW k, Fresh(k), k.op = m.op, k.size = m.size,
           NEW o, o = IF Creates(m) THEN Account(m.client) ELSE owner,
           NEW n, m.op = "upload" => n = m.size, m.op = "delete" => n = 0,
           m.op \notin {"upload", "delete"} => n = object,
           NEW j, \/ k.op = "ensure" /\ j = Ensured(k, b)
                  \/ k.op = "location" /\ j = Located(k, b)
                  \/ k.op = "exists" /\ j = Checked(k, b)
                  \/ k.op = "size" /\ j = Sized(k, b)
                  \/ k.op \notin {"ensure", "location", "exists", "size"}
                     /\ j = ExpectSuccess(k, b)
    PROVE  /\ Tells(m.client, j, o, n)
           /\ DOMAIN j = Fields /\ j.pc = "returned" /\ j.seen = k.seen
  <1>0. DOMAIN k = Fields /\ k.ok = FALSE /\ k.err = Typed("none")
    BY DEF Fresh
  <1>1. is_success(b.status)
    BY DEF AnswerInv
  <1>2. o = Account(m.client)
    BY DEF AnswerInv
  <1>3. /\ Typed("none").variant = "none"
        /\ Typed("none").code # <<"IllegalLocationConstraintException">>
    BY DEF Typed, None
  <1>4. ASSUME j.ok = TRUE, j.err = k.err, j.op = k.op, Says(m.client, j, o, n),
               endpoint # "None" /\ "location" \notin Scene.cut /\ k.op = "location" =>
                  j.value = endpoint
        PROVE  Tells(m.client, j, o, n)
    BY <1>0, <1>3, <1>4 DEF Tells
  <1>5. ASSUME j = Fails(k, Typed("Other"))
        PROVE  /\ Tells(m.client, j, o, n)
               /\ DOMAIN j = Fields /\ j.pc = "returned" /\ j.seen = k.seen
    <2>1. DOMAIN j = Fields /\ j.pc = "returned" /\ j.seen = k.seen
      BY <1>0, <1>5, FailsFields
    <2>2. Typed("Other") \in Unanswered
      BY DEF Unanswered
    <2> QED BY <1>5, <2>1, <2>2, UnansweredTells
  <1>6. PICK i : i = Okay(k)
    OBVIOUS
  <1>7. /\ DOMAIN i = Fields /\ i.ok = TRUE /\ i.pc = "returned" /\ i.op = k.op
        /\ i.size = k.size /\ i.err = k.err /\ i.seen = k.seen
    BY <1>0, <1>6, OkayFields
  <1>8. ExpectSuccess(k, b) = i
    BY <1>1, <1>6 DEF ExpectSuccess
  <1>9. CASE j = i /\ k.op \notin {"location", "exists", "size"}
    <2>1. Says(m.client, j, o, n)
      BY <1>2, <1>7, <1>9 DEF Says
    <2> QED BY <1>4, <1>7, <1>9, <2>1
  <1>10. CASE k.op = "ensure" /\ j = Ensured(k, b)
    <2>1. j = i
      BY <1>0, <1>3, <1>6, <1>7, <1>8, <1>10 DEF Ensured
    <2> QED BY <1>9, <1>10, <2>1
  <1>11. CASE k.op = "exists" /\ j = Checked(k, b)
    <2>1. j = [i EXCEPT !.value = "true"]
      <3>1. b.status # 404
        BY <1>1 DEF is_success
      <3> QED BY <1>1, <1>6, <1>11, <3>1 DEF Checked
    <2>2. /\ DOMAIN j = Fields /\ j.ok = TRUE /\ j.pc = "returned" /\ j.op = k.op
          /\ j.err = k.err /\ j.seen = k.seen /\ j.value = "true"
      BY <1>7, <2>1 DEF Fields
    <2>3. Says(m.client, j, o, n)
      BY <1>2, <1>11, <2>2 DEF Says
    <2> QED BY <1>4, <1>11, <2>2, <2>3
  <1>12. CASE k.op = "size" /\ j = Sized(k, b)
    <2>1. CASE b.length = 0
      <3>1. j = Fails(k, Typed("Other"))
        BY <1>1, <1>12, <2>1 DEF Sized
      <3> QED BY <1>5, <3>1
    <2>2. CASE b.length # 0
      <3>1. j = [i EXCEPT !.number = b.length]
        BY <1>1, <1>6, <1>12, <2>2 DEF Sized
      <3>2. /\ DOMAIN j = Fields /\ j.ok = TRUE /\ j.pc = "returned" /\ j.op = k.op
            /\ j.err = k.err /\ j.seen = k.seen /\ j.number = b.length
        BY <1>7, <3>1 DEF Fields
      <3>3. n = b.length
        BY <1>12, <2>2 DEF AnswerInv
      <3>4. Says(m.client, j, o, n)
        BY <1>12, <3>2, <3>3 DEF Says
      <3> QED BY <1>4, <1>12, <3>2, <3>4
    <2> QED BY <2>1, <2>2
  <1>13. CASE k.op = "location" /\ j = Located(k, b)
    <2>1. PICK r : r = parse_bucket_location(b.body)
      OBVIOUS
    <2>2. CASE r = NotALocation
      <3>1. j = Fails(k, Typed("Other"))
        BY <1>1, <1>13, <2>1, <2>2 DEF Located
      <3> QED BY <1>5, <3>1
    <2>3. CASE r # NotALocation
      <3>1. j = [i EXCEPT !.value = as_str(r)]
        BY <1>1, <1>6, <1>13, <2>1, <2>3 DEF Located
      <3>2. /\ DOMAIN j = Fields /\ j.ok = TRUE /\ j.pc = "returned" /\ j.op = k.op
            /\ j.err = k.err /\ j.seen = k.seen /\ j.value = as_str(r)
        BY <1>7, <3>1 DEF Fields
      <3>3. Says(m.client, j, o, n)
        BY <1>2, <1>13, <3>2 DEF Says
      <3>4. ASSUME endpoint # "None", "location" \notin Scene.cut
            PROVE  as_str(r) = endpoint
        <4>1. b.body \in LocationBodies
          BY <1>13, <3>4 DEF AnswerInv
        <4>2. r = from_str(endpoint)
          BY <2>1, <3>4, <4>1, LocationIsRead
        <4> QED BY <4>2, RegionIsKept
      <3> QED BY <1>4, <1>13, <3>2, <3>3, <3>4
    <2> QED BY <2>2, <2>3
  <1> QED BY <1>8, <1>9, <1>10, <1>11, <1>12, <1>13
(* Whatever comes of a call when its request is handled tells the truth about *)
(* the storage behind that step.                                             *)
LEMMA OutcomeTells ==
    ASSUME NEW m, NEW a, AnswerInv(m, a), Effect(m, a.done), owner = "nobody" => object = 0,
           NEW k, k = call[m.client], Fresh(k), ~k.done, Request(m.client, k) = m,
           NEW j \in Outcomes(m, a)
    PROVE  /\ Tells(m.client, j, owner', object')
           /\ DOMAIN j = Fields /\ j.pc = "returned" /\ j.seen = k.seen
  <1>0. DOMAIN k = Fields /\ k.ok = FALSE /\ k.err = Typed("none")
    BY DEF Fresh
  <1>1. k.op = m.op /\ k.size = m.size
    BY DEF Request
  <1>2. CASE j = Fails([k EXCEPT !.done = a.done], FlUrlError("ReadingHyperBodyError"))
    <2>1. PICK i : i = [k EXCEPT !.done = a.done]
      OBVIOUS
    <2>2. DOMAIN i = Fields /\ i.ok = FALSE /\ i.err = k.err /\ i.seen = k.seen
      BY <1>0, <2>1 DEF Fields
    <2>3. Fresh(i)
      BY <1>0, <2>2 DEF Fresh
    <2>4. FlUrlError("ReadingHyperBodyError") \in Unanswered
      BY DEF Unanswered
    <2>5. DOMAIN j = Fields /\ j.pc = "returned" /\ j.seen = k.seen
      <3>1. PICK e : e = FlUrlError("ReadingHyperBodyError")
        OBVIOUS
      <3>2. j = Fails(i, e)
        BY <1>2, <2>1, <3>1
      <3> QED BY <2>2, <3>2, FailsFields
    <2>6. Tells(m.client, j, owner', object')
      BY <1>2, <2>1, <2>3, <2>4, UnansweredTells
    <2> QED BY <2>5, <2>6
  <1>3. CASE \E b \in Arriving(m, a) : j = Returned(k, b)
    <2>1. PICK b \in Arriving(m, a) : j = Returned(k, b)
      BY <1>3
    <2>2. AnswerInv(m, b) /\ (b.done <=> a.done)
      BY <2>1, ArrivingIsSound
    <2>3. PICK i : i = [k EXCEPT !.done = b.done]
      OBVIOUS
    <2>4. /\ DOMAIN i = Fields /\ i.ok = FALSE /\ i.err = k.err /\ i.seen = k.seen
          /\ i.op = k.op /\ i.size = k.size /\ i.done = b.done
      BY <1>0, <2>3 DEF Fields
    <2>5. Fresh(i)
      BY <1>0, <2>4 DEF Fresh
    <2>6. \/ i.op = "ensure" /\ j = Ensured(i, b)
          \/ i.op = "location" /\ j = Located(i, b)
          \/ i.op = "exists" /\ j = Checked(i, b)
          \/ i.op = "size" /\ j = Sized(i, b)
          \/ i.op \notin {"ensure", "location", "exists", "size"} /\ j = ExpectSuccess(i, b)
      BY <2>1, <2>3, <2>4 DEF Returned
    <2>7. CASE ~b.done
      <3>1. owner' = owner /\ object' = object
        BY <2>2, <2>7 DEF Effect
      <3>2. ~i.done /\ i.op = m.op
        BY <1>1, <2>4, <2>7
      <3>3. /\ Tells(m.client, j, owner, object)
            /\ DOMAIN j = Fields /\ j.pc = "returned" /\ j.seen = i.seen
        BY <2>2, <2>5, <2>6, <2>7, <3>2, RefusalTells
      <3> QED BY <2>4, <3>1, <3>3
    <2>8. CASE b.done
      <3>1. owner' = IF Creates(m) THEN Account(m.client) ELSE owner
        BY <2>2, <2>8 DEF Effect
      <3>2. /\ m.op = "upload" => object' = m.size
            /\ m.op = "delete" => object' = 0
            /\ m.op \notin {"upload", "delete"} => object' = object
        BY <2>2, <2>8 DEF Effect
      <3>3. i.op = m.op /\ i.size = m.size
        BY <1>1, <2>4
      <3>4. /\ Tells(m.client, j, owner', object')
            /\ DOMAIN j = Fields /\ j.pc = "returned" /\ j.seen = i.seen
        BY <2>2, <2>5, <2>6, <2>8, <3>1, <3>2, <3>3, SuccessTells
      <3> QED BY <2>4, <3>4
    <2> QED BY <2>7, <2>8
  <1> QED BY <1>2, <1>3 DEF Outcomes
-----------------------------------------------------------------------------
(* The invariant of a call does not depend on anything else that may change. *)
LEMMA CallInvIsStable ==
    ASSUME UNCHANGED storageVars, NEW c, NEW k, NEW o, NEW n, CallInv(c, k, o, n),
           k = call'[c], o = owner', n = object'
    PROVE  CallInv(c, call[c], owner, object)'
  <1>1. endpoint' = endpoint /\ region' = region /\ Scene' = Scene
    BY DEF storageVars, Scene
  <1>2. ASSUME NEW x, NEW y, Tells(c, k, x, y)
        PROVE  Tells(c, call[c], x, y)'
    BY <1>1, <1>2 DEF Tells
  <1>3. ASSUME k.pc = "returned"
        PROVE  \E s \in k.seen : Tells(c, call[c], s[1], s[2])'
    <2>1. PICK s \in k.seen : Tells(c, k, s[1], s[2])
      BY <1>3 DEF CallInv
    <2> QED BY <1>2, <2>1
  <1> QED BY <1>3 DEF CallInv

(* A call sees what the storage becomes, and a finished one stays as it is. *)
LEMMA WatchingKeepsInv ==
    ASSUME NEW c \in Clients, CallInv(c, call[c], owner, object),
           NEW calls, calls[c] = call[c], NEW o, NEW n
    PROVE  CallInv(c, Watched(calls, o, n)[c], o, n)
  <1>1. PICK k : k = Watched(calls, o, n)[c]
    OBVIOUS
  <1>2. CASE call[c].pc = "asking"
    <2>1. k = [call[c] EXCEPT !.seen = @ \cup {<<o, n>>}]
      BY <1>1, <1>2 DEF Watched
    <2>2. /\ DOMAIN k = Fields /\ k.pc = "asking" /\ k.ok = FALSE /\ k.done = FALSE
          /\ k.err = Typed("none") /\ <<o, n>> \in k.seen
      BY <1>2, <2>1 DEF CallInv, Fields
    <2> QED BY <1>1, <2>2 DEF CallInv
  <1>3. CASE call[c].pc # "asking"
    <2>1. k = call[c]
      BY <1>1, <1>3 DEF Watched
    <2> QED BY <1>1, <1>3, <2>1 DEF CallInv
  <1> QED BY <1>2, <1>3

(* A call that returns sees what the storage has become, too. *)
LEMMA ReturningKeepsInv ==
    ASSUME NEW c \in Clients, call[c].pc = "asking", NEW calls, NEW j, j = calls[c],
           DOMAIN j = Fields, j.pc = "returned", NEW o, NEW n, Tells(c, j, o, n)
    PROVE  CallInv(c, Watched(calls, o, n)[c], o, n)
  <1>1. PICK k : k = Watched(calls, o, n)[c]
    OBVIOUS
  <1>2. k = [j EXCEPT !.seen = @ \cup {<<o, n>>}]
    BY <1>1 DEF Watched
  <1>3. /\ DOMAIN k = Fields /\ k.pc = "returned" /\ <<o, n>> \in k.seen
        /\ k.ok = j.ok /\ k.done = j.done /\ k.err = j.err /\ k.op = j.op
        /\ k.value = j.value /\ k.size = j.size /\ k.number = j.number
    BY <1>2 DEF Fields
  <1>4. Tells(c, k, o, n)
    BY <1>3 DEF Tells, Says
  <1>5. \E s \in k.seen : Tells(c, k, s[1], s[2])
    <2>1. <<o, n>>[1] = o /\ <<o, n>>[2] = n
      OBVIOUS
    <2> QED BY <1>3, <1>4, <2>1
  <1> QED BY <1>1, <1>3, <1>5 DEF CallInv

(* A new call has seen the storage as it is. *)
LEMMA NewCallIsSound ==
    ASSUME NEW c, NEW op, NEW size, NEW k, k = NewCall(c, op, size)
    PROVE  /\ CallInv(c, k, owner, object)
           /\ k.pc = "asking"
  <1>1. PICK made : made = call[c].made + 1
    OBVIOUS
  <1>2. k = [Idle EXCEPT !.pc = "asking", !.op = op, !.size = size,
                         !.made = made, !.seen = {<<owner, object>>}]
    BY <1>1 DEF NewCall
  <1>3. DOMAIN Idle = Fields /\ Idle.ok = FALSE /\ Idle.done = FALSE /\ Idle.err = Typed("none")
    BY DEF Idle, Fields
  <1> HIDE DEF Idle
  <1>4. /\ DOMAIN k = Fields /\ k.pc = "asking" /\ k.ok = FALSE /\ k.done = FALSE
        /\ k.err = Typed("none") /\ <<owner, object>> \in k.seen
    BY <1>2, <1>3 DEF Fields
  <1> QED BY <1>4 DEF CallInv

(* A call that ends without an answer tells nothing. *)
LEMMA GivingUpKeepsInv ==
    ASSUME NEW c, NEW k, CallInv(c, k, owner, object), k.pc = "asking", NEW e \in Unanswered,
           NEW j, j = Fails(k, e)
    PROVE  CallInv(c, j, owner, object)
  <1>1. Fresh(k) /\ <<owner, object>> \in k.seen
    BY DEF CallInv, Fresh
  <1>2. Tells(c, j, owner, object)
    BY <1>1, UnansweredTells
  <1>3. DOMAIN j = Fields /\ j.pc = "returned" /\ j.seen = k.seen
    BY <1>1, FailsFields DEF Fresh
  <1>4. \E s \in j.seen : Tells(c, j, s[1], s[2])
    <2>1. <<owner, object>>[1] = owner /\ <<owner, object>>[2] = object
      OBVIOUS
    <2> QED BY <1>1, <1>2, <1>3, <2>1
  <1> QED BY <1>3, <1>4 DEF CallInv
-----------------------------------------------------------------------------
(* The invariant holds before the first call. *)
LEMMA InitEstablishesInv == Init => IInv
  <1> SUFFICES ASSUME Init PROVE IInv
    OBVIOUS
  <1>1. DOMAIN call = Clients /\ \A c \in Clients : call[c] = Idle
    BY DEF Init
  <1>2. /\ DOMAIN Idle = Fields /\ Idle.pc = "idle" /\ Idle.ok = FALSE
        /\ Idle.done = FALSE /\ Idle.err = Typed("none")
    BY DEF Idle, Fields
  <1>3. \A c \in Clients : CallInv(c, call[c], owner, object)
    BY <1>1, <1>2 DEF CallInv
  <1>4. StorageInv
    BY DEF Init, StorageInv
  <1> QED BY <1>1, <1>3, <1>4 DEF IInv

(* A step in which one client c goes on by itself, its request sent or not *)
LEMMA ClientKeepsIInv ==
    ASSUME IInv, NEW c \in Clients, NEW k, CallInv(c, k, owner, object),
           call' = [call EXCEPT ![c] = k],
           \A m \in wire' : m \in wire \/ m.client = c,
           UNCHANGED <<storageVars, owner, object>>
    PROVE  IInv'
  <1>1. Clients' = Clients /\ scenario' = scenario /\ endpoint' = endpoint /\ Scene' = Scene
        /\ owner' = owner /\ object' = object /\ UNCHANGED storageVars
    BY DEF storageVars, Clients, Scene
  <1>2. DOMAIN call' = Clients /\ call'[c] = k /\ \A d \in Clients \ {c} : call'[d] = call[d]
    BY DEF IInv
  <1>3. StorageInv'
    BY <1>1 DEF IInv, StorageInv
  <1>4. ASSUME NEW d \in Clients PROVE CallInv(d, call[d], owner, object)'
    <2>1. PICK j : j = call'[d]
      OBVIOUS
    <2>2. CallInv(d, j, owner, object)
      BY <1>2, <2>1 DEF IInv
    <2> QED BY <1>1, <2>1, <2>2, CallInvIsStable
  <1> QED BY <1>1, <1>2, <1>3, <1>4 DEF IInv

(* A call is made, with a request or without one. *)
LEMMA CallsKeepIInv ==
    ASSUME IInv, NEW c \in Clients, NEW op, NEW size,
           Called(c, op, size) \/ SigningFails(c, op, size)
    PROVE  IInv'
  <1>1. PICK k : k = NewCall(c, op, size)
    OBVIOUS
  <1>2. CallInv(c, k, owner, object) /\ k.pc = "asking"
    BY <1>1, NewCallIsSound
  <1>3. Request(c, k).client = c
    BY DEF Request
  <1>4. CASE Called(c, op, size)
    <2>1. /\ call' = [call EXCEPT ![c] = k]
          /\ \A m \in wire' : m \in wire \/ m.client = c
          /\ UNCHANGED <<storageVars, owner, object>>
      BY <1>1, <1>3, <1>4 DEF Called, Stragglers
    <2> QED BY <1>2, <2>1, ClientKeepsIInv
  <1>5. CASE SigningFails(c, op, size)
    <2>1. PICK j : j = Fails(k, Typed("Other"))
      OBVIOUS
    <2>2. CallInv(c, j, owner, object)
      <3>1. Typed("Other") \in Unanswered
        BY DEF Unanswered
      <3> QED BY <1>2, <2>1, <3>1, GivingUpKeepsInv
    <2>3. /\ call' = [call EXCEPT ![c] = j]
          /\ \A m \in wire' : m \in wire \/ m.client = c
          /\ UNCHANGED <<storageVars, owner, object>>
      BY <1>1, <1>5, <2>1 DEF SigningFails, Stragglers
    <2> QED BY <2>2, <2>3, ClientKeepsIInv
  <1> QED BY <1>4, <1>5

(* A call sends its request again, or gives up. *)
LEMMA TimeoutKeepsIInv ==
    ASSUME IInv, NEW c \in Clients, TimedOut(c)
    PROVE  IInv'
  <1>1. CallInv(c, call[c], owner, object) /\ call[c].pc = "asking"
    BY DEF IInv, TimedOut
  <1>2. CASE call[c].tries < MaxRetries
    <2>1. PICK k : k = [call[c] EXCEPT !.tries = @ + 1]
      OBVIOUS
    <2>2. /\ DOMAIN k = Fields /\ k.pc = "asking" /\ k.ok = FALSE /\ k.done = FALSE
          /\ k.err = Typed("none") /\ <<owner, object>> \in k.seen
      BY <1>1, <2>1 DEF CallInv, Fields
    <2>3. CallInv(c, k, owner, object)
      BY <2>2 DEF CallInv
    <2>4. Request(c, k).client = c
      BY DEF Request
    <2>5. /\ call' = [call EXCEPT ![c] = k]
          /\ \A m \in wire' : m \in wire \/ m.client = c
          /\ UNCHANGED <<storageVars, owner, object>>
      BY <1>2, <2>1, <2>4 DEF TimedOut, Stragglers
    <2> QED BY <2>3, <2>5, ClientKeepsIInv
  <1>3. CASE ~(call[c].tries < MaxRetries)
    <2>1. PICK j : j = Fails(call[c], FlUrlError("timeout"))
      OBVIOUS
    <2>2. CallInv(c, j, owner, object)
      <3>1. FlUrlError("timeout") \in Unanswered
        BY DEF Unanswered
      <3> QED BY <1>1, <2>1, <3>1, GivingUpKeepsInv
    <2>3. /\ call' = [call EXCEPT ![c] = j]
          /\ \A m \in wire' : m \in wire \/ m.client = c
          /\ UNCHANGED <<storageVars, owner, object>>
      BY <1>3, <2>1 DEF TimedOut, Stragglers
    <2> QED BY <2>2, <2>3, ClientKeepsIInv
  <1> QED BY <1>2, <1>3

(* A step of the storage, seen by every running call *)
LEMMA StorageKeepsIInv ==
    ASSUME IInv, UNCHANGED storageVars, wire' \subseteq wire,
           owner' = "nobody" => object' = 0,
           NEW calls, call' = Watched(calls, owner', object'),
           \A c \in Clients : \/ calls[c] = call[c]
                              \/ /\ call[c].pc = "asking" /\ calls[c].pc = "returned"
                                 /\ DOMAIN calls[c] = Fields
                                 /\ Tells(c, calls[c], owner', object')
    PROVE  IInv'
  <1>1. Clients' = Clients /\ scenario' = scenario /\ endpoint' = endpoint /\ Scene' = Scene
    BY DEF storageVars, Clients, Scene
  <1>2. DOMAIN call' = Clients
    BY DEF Watched
  <1>3. StorageInv'
    BY <1>1 DEF IInv, StorageInv
  <1>4. ASSUME NEW c \in Clients PROVE CallInv(c, call[c], owner, object)'
    <2>1. PICK o, n : o = owner' /\ n = object'
      OBVIOUS
    <2>2. PICK k : k = call'[c]
      OBVIOUS
    <2>3. CallInv(c, k, o, n)
      <3>1. k = Watched(calls, o, n)[c]
        BY <2>1, <2>2
      <3>2. CASE calls[c] = call[c]
        BY <3>1, <3>2, WatchingKeepsInv DEF IInv
      <3>3. CASE /\ call[c].pc = "asking" /\ calls[c].pc = "returned"
                 /\ DOMAIN calls[c] = Fields /\ Tells(c, calls[c], o, n)
        BY <3>1, <3>3, ReturningKeepsInv
      <3> QED BY <2>1, <3>2, <3>3
    <2> QED BY <2>1, <2>2, <2>3, CallInvIsStable
  <1> QED BY <1>1, <1>2, <1>3, <1>4 DEF IInv

(* A request reaches the storage, whether its call still waits or not. *)
LEMMA HandledKeepsIInv ==
    ASSUME IInv, NEW m \in wire, Handled(m)
    PROVE  IInv'
  <1>1. PICK a \in Answers(m) \cup Excuses(m) :
            /\ Effect(m, a.done)
            /\ \/ call' = Watched(call, owner', object')
               \/ /\ call[m.client].pc = "asking"
                  /\ Request(m.client, call[m.client]) = m
                  /\ \E k \in Outcomes(m, a) :
                        call' = Watched([call EXCEPT ![m.client] = k], owner', object')
    BY DEF Handled
  <1>2. UNCHANGED storageVars /\ wire' \subseteq wire
    BY DEF Handled
  <1>3. AnswerInv(m, a)
    BY <1>1, AnswersAreSound
  <1>4. owner = "nobody" => object = 0
    BY DEF IInv, StorageInv
  <1>5. owner' = "nobody" => object' = 0
    <2>1. Account(m.client) # "nobody"
      BY DEF Account
    <2>2. Creates(m) => m.op \notin {"upload", "delete"}
      BY DEF Creates
    <2>3. CASE a.done
      BY <1>1, <1>3, <1>4, <2>1, <2>2, <2>3 DEF Effect, AnswerInv
    <2>4. CASE ~a.done
      BY <1>1, <1>4, <2>4 DEF Effect
    <2> QED BY <2>3, <2>4
  <1>6. CASE call' = Watched(call, owner', object')
    BY <1>2, <1>5, <1>6, StorageKeepsIInv
  <1>7. ASSUME call[m.client].pc = "asking", Request(m.client, call[m.client]) = m,
               NEW j \in Outcomes(m, a),
               call' = Watched([call EXCEPT ![m.client] = j], owner', object')
        PROVE  IInv'
    <2>1. PICK k : k = call[m.client]
      OBVIOUS
    <2>2. m.client \in Clients /\ CallInv(m.client, k, owner, object)
      BY <2>1 DEF IInv, StorageInv
    <2>3. Fresh(k) /\ ~k.done
      BY <1>7, <2>1, <2>2 DEF CallInv, Fresh
    <2>4. /\ Tells(m.client, j, owner', object')
          /\ DOMAIN j = Fields /\ j.pc = "returned"
      BY <1>1, <1>3, <1>4, <1>7, <2>1, <2>3, OutcomeTells
    <2>5. PICK calls : calls = [call EXCEPT ![m.client] = j]
      OBVIOUS
    <2>6. calls[m.client] = j /\ \A c \in Clients \ {m.client} : calls[c] = call[c]
      BY <2>2, <2>5 DEF IInv
    <2> QED BY <1>2, <1>5, <1>7, <2>4, <2>5, <2>6, StorageKeepsIInv
  <1> QED BY <1>1, <1>6, <1>7

(* Every step keeps the invariant. *)
LEMMA StepKeepsIInv == IInv /\ [Next]_vars => IInv'
  <1> SUFFICES ASSUME IInv, [Next]_vars PROVE IInv'
    OBVIOUS
  <1>1. CASE BucketRemoved
    <2>1. /\ UNCHANGED storageVars /\ wire' \subseteq wire
          /\ owner' = "nobody" /\ object' = 0
          /\ call' = Watched(call, owner', object')
      BY <1>1 DEF BucketRemoved
    <2> QED BY <2>1, StorageKeepsIInv
  <1>2. CASE UNCHANGED vars
    <2>1. StorageInv' /\ Clients' = Clients
      BY <1>2 DEF IInv, StorageInv, vars, Clients, Scene
    <2>2. ASSUME NEW c \in Clients PROVE CallInv(c, call[c], owner, object)'
      BY <1>2, CallInvIsStable DEF IInv, vars, storageVars
    <2> QED BY <1>2, <2>1, <2>2 DEF IInv, vars
  <1> QED
    BY <1>1, <1>2, CallsKeepIInv, TimeoutKeepsIInv, HandledKeepsIInv DEF Next, Terminated

(* IInv holds in every reachable state, for every choice of the constants. *)
THEOREM InvHolds == Spec => []IInv
  BY InitEstablishesInv, StepKeepsIInv, PTL DEF Spec

(* What a call of this client reports was so at some moment while the call    *)
(* ran, however often its request was repeated, however late those of earlier *)
(* calls arrive, whoever else is at work, and with any answer cut short.     *)
THEOREM TrueReports == Spec => []ReportsWereTrue
  <1>1. IInv => ReportsWereTrue
    BY DEF IInv, CallInv, Tells, ReportsWereTrue, HasReturned
  <1> QED BY <1>1, InvHolds, PTL

(* What was carried out and answered for is never reported as a refusal. *)
THEOREM NoFalseRefusal == Spec => []CarriedOutIsNotRefused
  <1>1. IInv => CarriedOutIsNotRefused
    <2> SUFFICES ASSUME IInv, NEW c \in Clients, call[c].done
                 PROVE  call[c].ok \/ call[c].err.variant \in {"Other", "FlUrlError"}
      BY DEF CarriedOutIsNotRefused
    <2>1. call[c].pc = "returned"
      BY DEF IInv, CallInv
    <2> QED BY <2>1 DEF IInv, CallInv, Tells
  <1> QED BY <1>1, InvHolds, PTL

(* A client of its endpoint's region creates a bucket without contradicting   *)
(* it, provided the storage's region has a name at all: of an empty one       *)
(* create_bucket_configuration says nothing.                                 *)
THEOREM NoContradiction ==
    ASSUME \A name \in DOMAIN Scenarios : "" \notin Scenarios[name].regions
    PROVE  Spec => []CreateDoesNotContradict
  <1>1. IInv => CreateDoesNotContradict
    <2> SUFFICES ASSUME IInv, NEW c \in Clients, as_str(region[c]) = endpoint
                 PROVE  call[c].err.code # <<"IllegalLocationConstraintException">>
      BY DEF CreateDoesNotContradict
    <2>1. endpoint # ""
      BY DEF IInv, StorageInv, Scene
    <2>2. CASE call[c].pc = "returned"
      BY <2>1, <2>2 DEF IInv, CallInv, Tells
    <2>3. CASE call[c].pc # "returned"
      <3>1. call[c].err = Typed("none")
        BY <2>3 DEF IInv, CallInv
      <3>2. Typed("none").code # <<"IllegalLocationConstraintException">>
        BY DEF Typed, None
      <3> QED BY <3>1, <3>2
    <2> QED BY <2>2, <2>3
  <1> QED BY <1>1, InvHolds, PTL

(* A region that is reported is the bucket's, as long as the answer arrives   *)
(* whole (BucketsCut shows what a cut one does) and no region is spelled like *)
(* the None of this model.                                                   *)
THEOREM RightLocation ==
    ASSUME \A name \in DOMAIN Scenarios : /\ "None" \notin Scenarios[name].regions
                                          /\ "location" \notin Scenarios[name].cut
    PROVE  Spec => []LocationIsRight
  <1>1. IInv => LocationIsRight
    <2>1. IInv => endpoint # "None" /\ "location" \notin Scene.cut
      BY DEF IInv, StorageInv, Scene
    <2> QED BY <2>1 DEF IInv, CallInv, Tells, LocationIsRight, HasReturned
  <1> QED BY <1>1, InvHolds, PTL
=============================================================================
