--------------------------------- MODULE Xml ----------------------------------
(***************************************************************************)
(* src/src/xml.rs: what is read out of an XML answer.                       *)
(*                                                                          *)
(* A body is the sequence of its tags and of the texts between them.  A tag *)
(* opens, closes, or does both at once ("empty"); "cut" is a tag whose end  *)
(* never arrived and "binary" is anything that is not UTF-8.  A text is a   *)
(* sequence of symbols; an entity is the symbol "&" and the symbol of its   *)
(* name.  No two texts are adjacent.                                        *)
(*                                                                          *)
(* MyXmlReader, which walks the tags, is not part of the repository; it is  *)
(* modelled from how xml.rs drives it over bodies that is_safe_to_read      *)
(* accepts and whose closing tags have the name of what they close.         *)
(***************************************************************************)
EXTENDS Positions, Sequences, SequencesExt, FiniteSetsExt

Open(n) == [tag |-> "open", name |-> n, text |-> << >>]
Close(n) == [tag |-> "close", name |-> n, text |-> << >>]
Empty(n) == [tag |-> "empty", name |-> n, text |-> << >>]
Cut(n) == [tag |-> "cut", name |-> n, text |-> << >>]
Text(t) == [tag |-> "text", name |-> "", text |-> t]
Binary == [tag |-> "binary", name |-> "", text |-> << >>]

(* <name>...</name> *)
Node(n, inner) == <<Open(n)>> \o inner \o <<Close(n)>>
Leaf(n, t) == Node(n, IF t = << >> THEN << >> ELSE <<Text(t)>>)

(* The bodies a connection that drops may leave of doc: cut between two tags, *)
(* or in the middle of one.                                                  *)
CutShort(doc) ==
    {SubSeq(doc, 1, n) : n \in 0 .. Len(doc) - 1} \cup
    {Append(SubSeq(doc, 1, n), Cut(doc[n + 1].name)) :
        n \in {k \in 0 .. Len(doc) - 1 : doc[k + 1].tag \in {"open", "empty"}}}

-----------------------------------------------------------------------------
Tagged(doc, tags) == {i \in DOMAIN doc : doc[i].tag \in tags}

Unsafe == -1

(* The depth the scan has reached behind one more token *)
Scanned(depth, token) ==
    CASE depth = Unsafe \/ token.tag \in {"cut", "binary"} -> Unsafe
      [] depth # Unsafe /\ token.tag = "open" -> depth + 1
      [] depth # Unsafe /\ token.tag = "close" -> IF depth = 0 THEN Unsafe ELSE depth - 1
      [] OTHER -> depth

Scan(doc) ==
    LET depth[n \in 0 .. Len(doc)] == IF n = 0 THEN 0 ELSE Scanned(depth[n - 1], doc[n])
    IN  depth[Len(doc)]

(* Variant of is_safe_to_read, deliberately wrong: what was opened need not   *)
(* be closed.                                                                *)
is_safe_though_unclosed(doc) == Scan(doc) # Unsafe

is_safe_to_read(doc) == Scan(doc) = 0

(* How many tags are open in front of the i-th token *)
Level(doc, i) ==
    Cardinality({k \in 1 .. i - 1 : doc[k].tag = "open"})
        - Cardinality({k \in 1 .. i - 1 : doc[k].tag = "close"})

(* The i-th token is between the opening tag j and its closing one. *)
Inside(doc, j, i) ==
    /\ doc[j].tag = "open"
    /\ \A k \in j + 1 .. i : Level(doc, k) > Level(doc, j)

Ancestors(doc, i) == {j \in 1 .. i - 1 : Inside(doc, j, i)}

(* find_the_open_node: the nodes at path *)
NodesAt(doc, path) ==
    {i \in Tagged(doc, {"open", "empty"}) :
        /\ doc[i].name = path[Len(path)]
        /\ Level(doc, i) = Len(path) - 1
        /\ \A j \in Ancestors(doc, i) : doc[j].name = path[Level(doc, j) + 1]}

-----------------------------------------------------------------------------
Entity ==
    [name \in {"amp;", "lt;", "gt;", "quot;", "apos;"} |->
        CASE name = "amp;" -> "&"
          [] name = "lt;" -> "<"
          [] name = "gt;" -> ">"
          [] name = "quot;" -> "quote"
          [] name = "apos;" -> "apostrophe"]

BeginsEntity(t, i) == t[i] = "&" /\ i < Len(t) /\ t[i + 1] \in DOMAIN Entity

(* unescape: one pass from left to right, and what is no entity stays *)
UnescapeOnce(t) ==
    FlattenSeq([i \in DOMAIN t |->
        CASE BeginsEntity(t, i) -> <<Entity[t[i + 1]]>>
          [] i > 1 /\ BeginsEntity(t, i - 1) -> << >>
          [] OTHER -> <<t[i]>>])

unescape(t) == UnescapeOnce(t)

(* What the storage does to a text it puts in a document *)
Escape(t) ==
    FlattenSeq([i \in DOMAIN t |->
        CASE t[i] = "&" -> <<"&", "amp;">>
          [] t[i] = "<" -> <<"&", "lt;">>
          [] OTHER -> <<t[i]>>])

-----------------------------------------------------------------------------
(* The text between the i-th token and the next tag *)
TextBehind(doc, i) ==
    IF i < Len(doc) /\ doc[i + 1].tag = "text" THEN doc[i + 1].text ELSE << >>

(* Option::None, kept apart from every text *)
None == <<"None">>

(* The text of the first node at path.  A node that no other tag follows has  *)
(* none: a root that closes itself.                                          *)
read_node_text(doc, path) ==
    LET found == IF is_safe_to_read(doc) THEN NodesAt(doc, path) ELSE {}
        followed == \E k \in Tagged(doc, {"open", "close", "empty"}) : k > Min(found)
    IN  IF found # {} /\ followed THEN unescape(TextBehind(doc, Min(found))) ELSE None

(* The nodes named so *)
Named(doc, names) == {i \in Tagged(doc, {"open", "empty"}) : doc[i].name \in names}

(* Variant of next_child_of, deliberately wrong: a wanted name is taken at    *)
(* any depth.                                                                *)
next_node_inside(doc, parent, names) ==
    Ascending({i \in Named(doc, names) : parent < i /\ Inside(doc, parent, i)})

(* XmlWalker: the children of the parent that have one of the names, in the   *)
(* order next_child and next_child_of hand them out.  One that closes itself *)
(* has none.                                                                 *)
next_child_of(doc, parent, names) ==
    Ascending({i \in Named(doc, names) :
                  /\ parent < i
                  /\ Level(doc, i) = Level(doc, parent) + 1
                  /\ Inside(doc, parent, i)})

(* XmlWalker::read_text, of a node without nodes inside *)
read_text(doc, i) ==
    IF doc[i].tag = "empty" THEN << >> ELSE unescape(TextBehind(doc, i))
=============================================================================
