--------------------------- MODULE ListObjectsProofs --------------------------
(***************************************************************************)
(* The listing, for every bucket, every length of a page and every number   *)
(* of changes: what is read of a page is what the storage wrote in it, and  *)
(* a listing that is read to its end is complete, true and bounded.         *)
(***************************************************************************)
EXTENDS ListObjects, SequenceTheorems, FiniteSetTheorems, WellFoundedInduction, TLAPS

-----------------------------------------------------------------------------
(* A set of positions that is not empty has a first one. *)
LEMMA MinIsFirst ==
    ASSUME NEW S \in SUBSET Nat, S # {}
    PROVE  Min(S) \in S /\ \A y \in S : Min(S) <= y
  <1>1. PICK x \in S : \A y \in S : ~(<<y, x>> \in OpToRel(<, Nat))
    BY NatLessThanWellFounded, WFMin
  <1>2. ASSUME NEW y \in S PROVE x <= y
    <2>1. <<y, x>> \in Nat \X Nat /\ <<y, x>>[1] = y /\ <<y, x>>[2] = x
      OBVIOUS
    <2>2. ~(y < x)
      BY <1>1, <2>1, Zenon DEF OpToRel
    <2> QED BY <2>2
  <1> QED BY <1>2 DEF Min

(* Induction, for a property that is stated as the set of what has it *)
LEMMA Induction ==
    ASSUME NEW S, 0 \in S, \A n \in Nat : n \in S => n + 1 \in S
    PROVE  \A n \in Nat : n \in S
  <1> DEFINE Rest == Nat \ S
  <1>1. SUFFICES ASSUME Rest # {} PROVE FALSE
    OBVIOUS
  <1>2. PICK m \in Rest : \A y \in Rest : m <= y
    BY <1>1, MinIsFirst
  <1>3. m - 1 \in Nat /\ m - 1 \notin Rest
    BY <1>2
  <1> QED BY <1>2, <1>3

(* The prefixes FlattenSeq goes through, one sequence after the other *)
Flattens(f, seqs, T) ==
    /\ f \in [0 .. Len(seqs) -> Seq(T)]
    /\ f[0] = << >>
    /\ \A n \in 1 .. Len(seqs) : f[n] = f[n - 1] \o seqs[n]

(* There are such prefixes. *)
LEMMA PrefixesExist ==
    ASSUME NEW T, NEW seqs \in Seq(Seq(T))
    PROVE  \E f : Flattens(f, seqs, T)
  <1> DEFINE Upto(f, m) == /\ f \in [0 .. m -> Seq(T)]
                           /\ f[0] = << >>
                           /\ \A n \in 1 .. m : f[n] = f[n - 1] \o seqs[n]
             S == {m \in Nat : m <= Len(seqs) => \E f : Upto(f, m)}
  <1> HIDE DEF Upto
  <1>1. 0 \in S
    <2>1. Upto([n \in 0 .. 0 |-> << >>], 0)
      BY DEF Upto
    <2> QED BY <2>1
  <1>2. ASSUME NEW m \in Nat, m \in S PROVE m + 1 \in S
    <2>1. SUFFICES ASSUME m + 1 <= Len(seqs) PROVE \E f : Upto(f, m + 1)
      OBVIOUS
    <2>2. PICK f : Upto(f, m)
      BY <1>2, <2>1
    <2> USE DEF Upto
    <2>3. PICK g : g = [n \in 0 .. m + 1 |-> IF n = m + 1 THEN f[m] \o seqs[m + 1] ELSE f[n]]
      OBVIOUS
    <2>4. f[m] \in Seq(T) /\ seqs[m + 1] \in Seq(T)
      BY <2>1, <2>2
    <2>5. f[m] \o seqs[m + 1] \in Seq(T)
      BY <2>4
    <2>6. g \in [0 .. m + 1 -> Seq(T)] /\ g[0] = << >>
      BY <2>2, <2>3, <2>5
    <2>7. ASSUME NEW n \in 1 .. m + 1 PROVE g[n] = g[n - 1] \o seqs[n]
      <3>1. CASE n = m + 1
        <4>1. n - 1 = m
          BY <3>1
        <4>2. m \in 0 .. m + 1 /\ m + 1 \in 0 .. m + 1 /\ m # m + 1
          OBVIOUS
        <4>3. g[m] = f[m] /\ g[m + 1] = f[m] \o seqs[m + 1]
          BY <2>3, <4>2
        <4> QED BY <3>1, <4>1, <4>3
      <3>2. CASE n # m + 1
        <4>1. n \in 1 .. m /\ n \in 0 .. m + 1 /\ n - 1 \in 0 .. m + 1 /\ n - 1 # m + 1
          BY <3>2
        <4>2. g[n] = f[n] /\ g[n - 1] = f[n - 1]
          BY <2>3, <3>2, <4>1
        <4> QED BY <2>2, <4>1, <4>2
      <3> QED BY <3>1, <3>2
    <2> QED BY <2>6, <2>7
  <1> HIDE DEF S
  <1>3. \A m \in Nat : m \in S
    BY <1>1, <1>2, Induction
  <1>4. Len(seqs) \in S
    BY <1>3
  <1>5. PICK f : Upto(f, Len(seqs))
    BY <1>4 DEF S
  <1>6. Flattens(f, seqs, T)
    BY <1>5 DEF Upto, Flattens
  <1> QED BY <1>6

(* The same prefixes, whichever way they are chosen *)
LEMMA PrefixesAreUnique ==
    ASSUME NEW T, NEW seqs, NEW more, Len(seqs) \in Nat, Len(more) \in Nat, NEW f, NEW g,
           Len(seqs) <= Len(more), \A n \in 1 .. Len(seqs) : seqs[n] = more[n],
           Flattens(f, seqs, T), Flattens(g, more, T)
    PROVE  \A n \in 0 .. Len(seqs) : f[n] = g[n]
  <1> DEFINE S == {m \in Nat : m <= Len(seqs) => f[m] = g[m]}
  <1>1. 0 \in S
    BY DEF Flattens
  <1>2. ASSUME NEW m \in Nat, m \in S PROVE m + 1 \in S
    <2>1. SUFFICES ASSUME m + 1 <= Len(seqs) PROVE f[m + 1] = g[m + 1]
      OBVIOUS
    <2>2. m + 1 \in 1 .. Len(seqs) /\ m + 1 \in 1 .. Len(more) /\ (m + 1) - 1 = m
      BY <2>1
    <2>3. f[m + 1] = f[m] \o seqs[m + 1] /\ g[m + 1] = g[m] \o more[m + 1]
      BY <2>2 DEF Flattens
    <2>4. f[m] = g[m] /\ seqs[m + 1] = more[m + 1]
      BY <1>2, <2>1, <2>2
    <2> QED BY <2>3, <2>4
  <1> HIDE DEF S
  <1>3. \A m \in Nat : m \in S
    BY <1>1, <1>2, Induction
  <1> QED BY <1>3 DEF S

(* FlattenSeq is the last of them. *)
LEMMA FlattenIsComputed ==
    ASSUME NEW T, NEW seqs \in Seq(Seq(T)), NEW f, Flattens(f, seqs, T)
    PROVE  FlattenSeq(seqs) = f[Len(seqs)]
  <1>1. CASE Len(seqs) = 0
    <2>1. seqs = << >>
      BY <1>1
    <2> QED BY <1>1, <2>1 DEF FlattenSeq, Flattens
  <1>2. CASE Len(seqs) # 0
    <2> DEFINE N == Len(seqs)
               F(h) == [i \in 1 .. N |-> IF i = 1 THEN seqs[i] ELSE h[i - 1] \o seqs[i]]
               g == [i \in 1 .. N |-> f[i]]
               c == CHOOSE h : h = F(h)
    <2>1. N \in Nat \ {0} /\ \A i \in 1 .. N : seqs[i] \in Seq(T)
      BY <1>2
    <2>2. ASSUME NEW i \in 1 .. N PROVE g[i] = IF i = 1 THEN seqs[i] ELSE g[i - 1] \o seqs[i]
      <3>1. f[i] = f[i - 1] \o seqs[i]
        BY DEF Flattens
      <3>2. CASE i = 1
        <4>1. f[1] = << >> \o seqs[1] /\ seqs[1] \in Seq(T)
          BY <2>1, <3>1, <3>2 DEF Flattens
        <4> QED BY <3>2, <4>1, ConcatEmptySeq
      <3>3. CASE i # 1
        <4>1. i - 1 \in 1 .. N
          BY <2>1, <3>3
        <4> QED BY <3>1, <3>3, <4>1
      <3> QED BY <3>2, <3>3
    <2>3. g = F(g)
      BY <2>2
    <2>4. c = F(c)
      BY <2>3
    <2>5. \A i \in 1 .. N : c[i] = IF i = 1 THEN seqs[i] ELSE c[i - 1] \o seqs[i]
      BY <2>4
    <2>6. FlattenSeq(seqs) = c[N]
      BY <1>2 DEF FlattenSeq
    <2> DEFINE S == {m \in Nat : m + 1 <= N => c[m + 1] = g[m + 1]}
    <2> HIDE DEF c, g
    <2>7. 0 \in S
      BY <2>1, <2>2, <2>5
    <2>8. ASSUME NEW m \in Nat, m \in S PROVE m + 1 \in S
      <3>1. SUFFICES ASSUME m + 2 <= N PROVE c[m + 2] = g[m + 2]
        OBVIOUS
      <3>2. m + 2 \in 1 .. N /\ m + 2 # 1 /\ (m + 2) - 1 = m + 1
        BY <3>1
      <3>3. c[m + 2] = c[m + 1] \o seqs[m + 2] /\ g[m + 2] = g[m + 1] \o seqs[m + 2]
        BY <2>2, <2>5, <3>2
      <3>4. c[m + 1] = g[m + 1]
        BY <2>8, <3>1
      <3> QED BY <3>3, <3>4
    <2> HIDE DEF S
    <2>9. \A m \in Nat : m \in S
      BY <2>7, <2>8, Induction
    <2>10. N - 1 \in S
      BY <2>1, <2>9
    <2>11. c[N] = g[N]
      BY <2>1, <2>10 DEF S
    <2> QED BY <2>1, <2>6, <2>11 DEF g
  <1> QED BY <1>1, <1>2

(* FlattenSeq, one sequence at a time *)
LEMMA FlattenOfAppend ==
    ASSUME NEW T, NEW seqs \in Seq(Seq(T)), NEW x \in Seq(T)
    PROVE  /\ FlattenSeq(<< >>) = << >>
           /\ FlattenSeq(seqs) \in Seq(T)
           /\ FlattenSeq(Append(seqs, x)) = FlattenSeq(seqs) \o x
  <1>0. FlattenSeq(<< >>) = << >>
    BY DEF FlattenSeq
  <1>1. PICK f : Flattens(f, seqs, T)
    BY PrefixesExist
  <1>2. Append(seqs, x) \in Seq(Seq(T))
    OBVIOUS
  <1>3. PICK g : Flattens(g, Append(seqs, x), T)
    BY <1>2, PrefixesExist
  <1>4. /\ Len(seqs) \in Nat /\ Len(Append(seqs, x)) = Len(seqs) + 1
        /\ \A n \in 1 .. Len(seqs) : seqs[n] = Append(seqs, x)[n]
        /\ Append(seqs, x)[Len(seqs) + 1] = x
    OBVIOUS
  <1>5. f[Len(seqs)] = g[Len(seqs)]
    <2>1. Len(seqs) <= Len(Append(seqs, x)) /\ Len(Append(seqs, x)) \in Nat
      BY <1>4
    <2>2. \A n \in 0 .. Len(seqs) : f[n] = g[n]
      <3>1. PICK more : more = Append(seqs, x)
        OBVIOUS
      <3>2. /\ Len(seqs) \in Nat /\ Len(more) \in Nat /\ Len(seqs) <= Len(more)
            /\ \A n \in 1 .. Len(seqs) : seqs[n] = more[n]
            /\ Flattens(g, more, T)
        BY <1>3, <1>4, <2>1, <3>1
      <3> QED BY <1>1, <3>2, PrefixesAreUnique, SMTT(30)
    <2> QED BY <1>4, <2>2
  <1>6. g[Len(seqs) + 1] = g[Len(seqs)] \o x
    <2>1. Len(seqs) + 1 \in 1 .. Len(Append(seqs, x)) /\ (Len(seqs) + 1) - 1 = Len(seqs)
      BY <1>4
    <2> QED BY <1>3, <1>4, <2>1 DEF Flattens
  <1>7. FlattenSeq(seqs) = f[Len(seqs)] /\ FlattenSeq(Append(seqs, x)) = g[Len(seqs) + 1]
    BY <1>1, <1>2, <1>3, <1>4, FlattenIsComputed
  <1>8. FlattenSeq(seqs) \in Seq(T)
    BY <1>1, <1>4, <1>7 DEF Flattens
  <1> QED BY <1>0, <1>5, <1>6, <1>7, <1>8
(* Induction over the sequences of T, as over the natural numbers *)
LEMMA SeqInduction ==
    ASSUME NEW T, NEW S, << >> \in S, \A t \in Seq(T), b \in T : t \in S => Append(t, b) \in S
    PROVE  \A t \in Seq(T) : t \in S
  <1> DEFINE N == {n \in Nat : \A t \in Seq(T) : Len(t) = n => t \in S}
  <1>1. 0 \in N
    <2>1. \A t \in Seq(T) : Len(t) = 0 => t = << >>
      OBVIOUS
    <2> QED BY <2>1
  <1>2. ASSUME NEW n \in Nat, n \in N PROVE n + 1 \in N
    <2>1. SUFFICES ASSUME NEW t \in Seq(T), Len(t) = n + 1 PROVE t \in S
      OBVIOUS
    <2>2. PICK s \in Seq(T), b \in T : t = Append(s, b)
      BY <2>1, SequenceEmptyOrAppend, EmptySeq
    <2>3. Len(s) = n
      BY <2>1, <2>2
    <2> QED BY <1>2, <2>2, <2>3
  <1> HIDE DEF N
  <1>3. \A n \in Nat : n \in N
    BY <1>1, <1>2, Induction
  <1>4. ASSUME NEW t \in Seq(T) PROVE t \in S
    <2>1. Len(t) \in N
      BY <1>3
    <2> QED BY <2>1 DEF N
  <1> QED BY <1>4

(* f goes through the n elements of S, upwards. *)
Enumerates(f, n, S) ==
    /\ n \in Nat
    /\ f \in [1 .. n -> S]
    /\ \A i, k \in 1 .. n : i < k => f[i] < f[k]
    /\ \A s \in S : \E i \in 1 .. n : f[i] = s

(* A set that is enumerated has as many elements as that. *)
LEMMA EnumerationCounts ==
    ASSUME NEW S \in SUBSET Nat, NEW n, NEW f, Enumerates(f, n, S)
    PROVE  IsFiniteSet(S) /\ Cardinality(S) = n
  <1> USE DEF Enumerates
  <1>1. \A i, k \in 1 .. n : f[i] = f[k] => i = k
    <2> SUFFICES ASSUME NEW i \in 1 .. n, NEW k \in 1 .. n, f[i] = f[k], i # k PROVE FALSE
      OBVIOUS
    <2>1. i < k \/ k < i
      OBVIOUS
    <2>2. f[i] \in Nat /\ f[k] \in Nat
      OBVIOUS
    <2> QED BY <2>1, <2>2
  <1>2. f \in Bijection(1 .. n, S)
    BY <1>1, Zenon DEF Bijection, Injection, Surjection, IsInjective
  <1>3. IsFiniteSet(1 .. n) /\ Cardinality(1 .. n) = n
    BY FS_Interval
  <1> QED BY <1>2, <1>3, FS_Bijection DEF ExistsBijection

(* Ascending is the one enumeration there is. *)
LEMMA AscendingIsTheEnumeration ==
    ASSUME NEW S \in SUBSET Nat, NEW n, NEW f, Enumerates(f, n, S)
    PROVE  Ascending(S) = f
  <1> DEFINE Below(i) == {k \in S : k < i}
  <1>1. Cardinality(S) = n /\ n \in Nat /\ f \in [1 .. n -> S]
    BY EnumerationCounts DEF Enumerates
  <1>2. ASSUME NEW j \in 1 .. n PROVE Cardinality(Below(f[j])) = j - 1
    <2> DEFINE g == [i \in 1 .. j - 1 |-> f[i]]
    <2>1. \A i \in 1 .. j - 1 : i \in 1 .. n /\ f[i] \in Below(f[j]) /\ g[i] = f[i]
      BY <1>1 DEF Enumerates
    <2>2. \A s \in Below(f[j]) : \E i \in 1 .. j - 1 : g[i] = s
      <3> SUFFICES ASSUME NEW s \in S, s < f[j] PROVE \E i \in 1 .. j - 1 : g[i] = s
        OBVIOUS
      <3>1. PICK i \in 1 .. n : f[i] = s
        BY DEF Enumerates
      <3>2. f[i] \in Nat /\ f[j] \in Nat
        BY <1>1
      <3>3. ~(j < i) /\ i # j
        BY <3>1, <3>2 DEF Enumerates
      <3> QED BY <1>1, <2>1, <3>1, <3>3
    <2>3. Enumerates(g, j - 1, Below(f[j]))
      <3>1. j - 1 \in Nat
        OBVIOUS
      <3>2. g \in [1 .. j - 1 -> Below(f[j])]
        BY <2>1
      <3>3. \A i, k \in 1 .. j - 1 : i < k => g[i] < g[k]
        BY <2>1 DEF Enumerates
      <3> HIDE DEF g, Below
      <3> QED BY <2>2, <3>1, <3>2, <3>3 DEF Enumerates
    <2>4. Below(f[j]) \in SUBSET Nat
      OBVIOUS
    <2> QED BY <2>3, <2>4, EnumerationCounts
  <1>3. ASSUME NEW j \in 1 .. n
        PROVE  (CHOOSE i \in S : Cardinality(Below(i)) = j - 1) = f[j]
    <2>1. f[j] \in S /\ Cardinality(Below(f[j])) = j - 1
      BY <1>1, <1>2
    <2>2. ASSUME NEW s \in S, Cardinality(Below(s)) = j - 1 PROVE s = f[j]
      <3>1. PICK i \in 1 .. n : f[i] = s
        BY DEF Enumerates
      <3>2. i - 1 = j - 1
        BY <1>2, <2>2, <3>1
      <3> QED BY <3>1, <3>2
    <2> HIDE DEF Below
    <2> QED BY <2>1, <2>2
  <1>4. Ascending(S) = [j \in 1 .. n |-> f[j]]
    BY <1>1, <1>3 DEF Ascending
  <1> QED BY <1>1, <1>4

(* Positions up to a length can be enumerated. *)
LEMMA EnumerationExists ==
    ASSUME NEW S, NEW m \in Nat, S \subseteq 1 .. m
    PROVE  \E f, n : Enumerates(f, n, S)
  <1> DEFINE P(k) == \E f, n : Enumerates(f, n, S \cap (1 .. k))
             N == {k \in Nat : P(k)}
  <1>1. 0 \in N
    <2>1. S \cap (1 .. 0) = {}
      OBVIOUS
    <2>2. Enumerates(<< >>, 0, {})
      BY DEF Enumerates
    <2> QED BY <2>1, <2>2
  <1>2. ASSUME NEW k \in Nat, k \in N PROVE k + 1 \in N
    <2>1. PICK f, n : Enumerates(f, n, S \cap (1 .. k))
      BY <1>2
    <2>2. CASE k + 1 \in S
      <3>1. PICK g : g = [i \in 1 .. n + 1 |-> IF i = n + 1 THEN k + 1 ELSE f[i]]
        OBVIOUS
      <3>2. /\ n \in Nat /\ g[n + 1] = k + 1
            /\ \A i \in 1 .. n : g[i] = f[i] /\ f[i] \in S /\ f[i] \in 1 .. k
        BY <2>1, <3>1 DEF Enumerates
      <3>3. g \in [1 .. n + 1 -> S \cap (1 .. k + 1)]
        BY <2>2, <3>1, <3>2
      <3>4. ASSUME NEW i \in 1 .. n + 1, NEW j \in 1 .. n + 1, i < j PROVE g[i] < g[j]
        <4>1. i \in 1 .. n /\ g[i] = f[i] /\ f[i] \in 1 .. k
          BY <3>2, <3>4
        <4>2. CASE j = n + 1
          BY <3>2, <4>1, <4>2
        <4>3. CASE j # n + 1
          <5>1. j \in 1 .. n /\ g[j] = f[j]
            BY <3>2, <4>3
          <5> QED BY <2>1, <3>4, <4>1, <5>1 DEF Enumerates
        <4> QED BY <4>2, <4>3
      <3>5. ASSUME NEW s \in S \cap (1 .. k + 1) PROVE \E i \in 1 .. n + 1 : g[i] = s
        <4>1. CASE s = k + 1
          BY <3>2, <4>1
        <4>2. CASE s # k + 1
          <5>1. PICK i \in 1 .. n : f[i] = s
            BY <2>1, <4>2 DEF Enumerates
          <5> QED BY <3>2, <5>1
        <4> QED BY <4>1, <4>2
      <3>6. Enumerates(g, n + 1, S \cap (1 .. k + 1))
        BY <3>2, <3>3, <3>4, <3>5 DEF Enumerates
      <3> QED BY <3>6
    <2>3. CASE k + 1 \notin S
      <3>1. S \cap (1 .. k + 1) = S \cap (1 .. k)
        BY <2>3
      <3> QED BY <2>1, <3>1
    <2> QED BY <2>2, <2>3
  <1> HIDE DEF N, P
  <1>3. \A k \in Nat : k \in N
    BY <1>1, <1>2, Induction
  <1>4. P(m)
    BY <1>3 DEF N
  <1>5. S \cap (1 .. m) = S
    OBVIOUS
  <1> QED BY <1>4, <1>5 DEF P

(* Ascending goes through any set of positions. *)
LEMMA AscendingEnumerates ==
    ASSUME NEW S, NEW m \in Nat, S \subseteq 1 .. m
    PROVE  Enumerates(Ascending(S), Cardinality(S), S)
  <1>1. PICK f, n : Enumerates(f, n, S)
    BY EnumerationExists
  <1>2. S \in SUBSET Nat
    OBVIOUS
  <1> QED BY <1>1, <1>2, EnumerationCounts, AscendingIsTheEnumeration

-----------------------------------------------------------------------------
(* What texts are made of: strings, among them those the model names *)
Symbols ==
    STRING \cup
    {"&", "<", ">", "quote", "apostrophe", "amp;", "lt;", "quot;", "+", "None",
     "owner", "then", "many", "bucket", "true", "True", "false"}

(* What the nodes of a page are named, and a text *)
Names ==
    {"ListBucketResult", "Name", "IsTruncated", "NextContinuationToken", "Contents",
     "CommonPrefixes", "Prefix", "Key", "Size", "LastModified", "ETag", "Owner",
     "DisplayName", ""}

(* The tags of which a whole document is made, with their names and texts *)
WholeTokens ==
    [tag : {"open", "close", "empty", "text"}, name : Names, text : Seq(Symbols)]

(* What a token does to the level *)
Rise(t) == IF t.tag = "open" THEN 1 ELSE IF t.tag = "close" THEN -1 ELSE 0

(* The level, one token at a time *)
LEMMA LevelSteps ==
    ASSUME NEW doc
    PROVE  /\ Level(doc, 1) = 0
           /\ \A i \in Nat \ {0} : /\ Level(doc, i) \in Int
                                   /\ Level(doc, i + 1) = Level(doc, i) + Rise(doc[i])
  <1> DEFINE Count(i, tag) == {k \in 1 .. i - 1 : doc[k].tag = tag}
  <1>1. ASSUME NEW i \in Nat \ {0}, NEW tag
        PROVE  /\ IsFiniteSet(Count(i, tag)) /\ Cardinality(Count(i, tag)) \in Nat
               /\ Cardinality(Count(i + 1, tag))
                     = IF doc[i].tag = tag THEN Cardinality(Count(i, tag)) + 1
                       ELSE Cardinality(Count(i, tag))
    <2>1. IsFiniteSet(1 .. i - 1)
      BY FS_Interval
    <2>2. IsFiniteSet(Count(i, tag)) /\ Cardinality(Count(i, tag)) \in Nat
      <3>1. IsFiniteSet(Count(i, tag))
        BY <2>1, FS_Subset
      <3> QED BY <3>1, FS_CardinalityType
    <2>3. CASE doc[i].tag = tag
      <3>1. Count(i + 1, tag) = Count(i, tag) \cup {i} /\ i \notin Count(i, tag)
        BY <2>3
      <3> HIDE DEF Count
      <3> QED BY <2>2, <2>3, <3>1, FS_AddElement
    <2>4. CASE doc[i].tag # tag
      <3>1. Count(i + 1, tag) = Count(i, tag)
        BY <2>4
      <3> HIDE DEF Count
      <3> QED BY <2>2, <2>4, <3>1
    <2> QED BY <2>2, <2>3, <2>4
  <1>2. \A i : Level(doc, i) = Cardinality(Count(i, "open")) - Cardinality(Count(i, "close"))
    BY DEF Level
  <1>3. Level(doc, 1) = 0
    <2>1. Count(1, "open") = {} /\ Count(1, "close") = {}
      OBVIOUS
    <2> HIDE DEF Count
    <2> QED BY <1>2, <2>1, FS_EmptySet
  <1> HIDE DEF Count
  <1>4. ASSUME NEW i \in Nat \ {0}
        PROVE  Level(doc, i) \in Int /\ Level(doc, i + 1) = Level(doc, i) + Rise(doc[i])
    <2>1. PICK a \in Nat, b \in Nat : a = Cardinality(Count(i, "open")) /\ b = Cardinality(Count(i, "close"))
      BY <1>1
    <2>2. Level(doc, i) = a - b
      BY <1>2, <2>1
    <2>3. /\ Cardinality(Count(i + 1, "open")) = IF doc[i].tag = "open" THEN a + 1 ELSE a
          /\ Cardinality(Count(i + 1, "close")) = IF doc[i].tag = "close" THEN b + 1 ELSE b
      BY <1>1, <2>1
    <2>4. Level(doc, i + 1) = (IF doc[i].tag = "open" THEN a + 1 ELSE a)
                                 - (IF doc[i].tag = "close" THEN b + 1 ELSE b)
      BY <1>2, <2>3
    <2> QED BY <2>2, <2>4 DEF Rise
  <1> QED BY <1>3, <1>4

(* The document has the part e behind its first z tokens. *)
Has(doc, z, e) ==
    z \in Nat /\ z + Len(e) <= Len(doc) /\ \A k \in 1 .. Len(e) : doc[z + k] = e[k]

(* The level in a part of a document is that of the part by itself, raised by *)
(* the level the part is at.                                                 *)
LEMMA LevelOfPart ==
    ASSUME NEW doc, NEW e, NEW z, Has(doc, z, e), NEW m \in Nat, m = Len(e)
    PROVE  \A k \in 1 .. m + 1 : /\ Level(doc, z + k) = Level(doc, z + 1) + Level(e, k)
                                 /\ Level(doc, z + 1) \in Int /\ Level(e, k) \in Int
  <1>z. z \in Nat /\ \A k \in 1 .. m : doc[z + k] = e[k]
    BY DEF Has
  <1> DEFINE S == {n \in Nat : n <= m => Level(doc, z + (n + 1)) = Level(doc, z + 1) + Level(e, n + 1)}
  <1>0. ASSUME NEW i \in Nat \ {0}
        PROVE  /\ Level(doc, z + i) \in Int /\ Level(e, i) \in Int
               /\ Level(doc, z + (i + 1)) = Level(doc, z + i) + Rise(doc[z + i])
               /\ Level(e, i + 1) = Level(e, i) + Rise(e[i])
    <2>1. z + i \in Nat \ {0} /\ (z + i) + 1 = z + (i + 1)
      BY <1>z
    <2> QED BY <2>1, LevelSteps
  <1>1. 0 \in S
    <2>1. Level(doc, z + 1) \in Int /\ Level(e, 1) = 0
      BY <1>0, LevelSteps
    <2> QED BY <2>1
  <1>2. ASSUME NEW n \in Nat, n \in S PROVE n + 1 \in S
    <2>1. SUFFICES ASSUME n + 1 <= m
                   PROVE  Level(doc, z + ((n + 1) + 1)) = Level(doc, z + 1) + Level(e, (n + 1) + 1)
      OBVIOUS
    <2>2. n + 1 \in 1 .. m /\ n <= m /\ n + 1 \in Nat \ {0}
      BY <2>1
    <2>3. Level(doc, z + (n + 1)) = Level(doc, z + 1) + Level(e, n + 1)
      BY <1>2, <2>2
    <2>4. doc[z + (n + 1)] = e[n + 1]
      BY <1>z, <2>2
    <2>5. PICK x \in Int, y \in Int, v \in Int, r \in Int :
             /\ x = Level(doc, z + 1) /\ y = Level(e, n + 1) /\ v = Level(doc, z + (n + 1))
             /\ r = Rise(e[n + 1])
      <3>1. Rise(e[n + 1]) \in Int
        BY DEF Rise
      <3>2. 1 \in Nat \ {0}
        OBVIOUS
      <3>3. Level(doc, z + 1) \in Int /\ Level(e, n + 1) \in Int /\ Level(doc, z + (n + 1)) \in Int
        BY <1>0, <2>2, <3>2
      <3> QED BY <3>1, <3>3
    <2>6. Level(doc, z + ((n + 1) + 1)) = v + r /\ Level(e, (n + 1) + 1) = y + r /\ v = x + y
      BY <1>0, <2>2, <2>3, <2>4, <2>5
    <2>7. v + r = x + (y + r)
      BY <2>6
    <2> QED BY <2>5, <2>6, <2>7
  <1> HIDE DEF S
  <1>3. \A n \in Nat : n \in S
    BY <1>1, <1>2, Induction
  <1>4. ASSUME NEW k \in 1 .. m + 1
        PROVE  /\ Level(doc, z + k) = Level(doc, z + 1) + Level(e, k)
               /\ Level(doc, z + 1) \in Int /\ Level(e, k) \in Int
    <2>1. k - 1 \in Nat /\ k - 1 <= m /\ (k - 1) + 1 = k /\ k \in Nat \ {0} /\ 1 \in Nat \ {0}
      OBVIOUS
    <2>2. k - 1 \in S
      BY <1>3, <2>1
    <2> QED BY <1>0, <2>1, <2>2 DEF S
  <1> QED BY <1>4

(* What is opened in d is closed in it. *)
Block(d) ==
    /\ d \in Seq(WholeTokens)
    /\ \A i \in 1 .. Len(d) + 1 : Level(d, i) >= 0
    /\ Level(d, Len(d) + 1) = 0

(* A block that is one node, or none *)
Elem(d) ==
    /\ d \in Seq(WholeTokens) /\ Len(d) >= 1
    /\ d[1].tag \in {"open", "empty"}
    /\ \A i \in 2 .. Len(d) : Level(d, i) >= 1
    /\ Level(d, Len(d) + 1) = 0

Part(d) == d = << >> \/ Elem(d)

(* The nodes of a block that are in no other *)
Tops(d) == {i \in DOMAIN d : d[i].tag \in {"open", "empty"} /\ Level(d, i) = 0}

(* A node is a block of its own. *)
LEMMA PartIsBlock ==
    ASSUME NEW e, Part(e)
    PROVE  Block(e) /\ (e # << >> => e[1].tag \in {"open", "empty"} /\ 1 \in DOMAIN e)
  <1>1. CASE e = << >>
    <2>1. Level(e, 1) = 0 /\ Len(e) = 0
      BY <1>1, LevelSteps
    <2>2. \A i \in 1 .. Len(e) + 1 : i = 1
      BY <2>1
    <2> QED BY <1>1, <2>1, <2>2 DEF Block
  <1>2. CASE Elem(e)
    <2>1. PICK n \in Nat \ {0} : n = Len(e)
      BY <1>2 DEF Elem
    <2>2. \A i \in 1 .. n + 1 : i = 1 \/ i \in 2 .. n \/ i = n + 1
      OBVIOUS
    <2>3. \A i \in 1 .. n + 1 : Level(e, i) >= 0
      <3>1. \A i \in 2 .. n : Level(e, i) \in Int /\ Level(e, i) >= 1
        <4>1. \A i \in 2 .. n : i \in Nat \ {0}
          OBVIOUS
        <4> QED BY <1>2, <2>1, <4>1, LevelSteps DEF Elem
      <3>2. \A i \in 2 .. n : Level(e, i) >= 0
        BY <3>1
      <3>3. Level(e, 1) = 0 /\ Level(e, n + 1) = 0
        BY <1>2, <2>1, LevelSteps DEF Elem
      <3> QED BY <2>2, <3>2, <3>3
    <2>4. 1 \in DOMAIN e
      BY <1>2, <2>1 DEF Elem
    <2> QED BY <1>2, <2>1, <2>3, <2>4 DEF Block, Elem
  <1> QED BY <1>1, <1>2 DEF Part

(* The parts of a concatenation *)
LEMMA ConcatHas ==
    ASSUME NEW T, NEW a \in Seq(T), NEW e \in Seq(T)
    PROVE  /\ a \o e \in Seq(T) /\ Len(a \o e) = Len(a) + Len(e)
           /\ Has(a \o e, 0, a) /\ Has(a \o e, Len(a), e)
  <1> DEFINE u == a \o e
  <1>1. PICK x \in Nat, y \in Nat : x = Len(a) /\ y = Len(e)
    OBVIOUS
  <1>2. /\ u \in Seq(T) /\ Len(u) = x + y
        /\ \A i \in 1 .. x + y : u[i] = IF i <= x THEN a[i] ELSE e[i - x]
    BY <1>1, ConcatProperties
  <1>3. \A k \in 1 .. x : 0 + k \in 1 .. x + y /\ 0 + k <= x /\ 0 + k = k
    OBVIOUS
  <1>4. \A k \in 1 .. y : x + k \in 1 .. x + y /\ ~(x + k <= x) /\ (x + k) - x = k
    OBVIOUS
  <1>5. Has(u, 0, a)
    <2>1. 0 + x <= x + y
      OBVIOUS
    <2> QED BY <1>1, <1>2, <1>3, <2>1 DEF Has
  <1>6. Has(u, Len(a), e)
    <2>1. \A k \in 1 .. y : u[x + k] = e[k]
      BY <1>2, <1>4
    <2> QED BY <1>1, <1>2, <2>1 DEF Has
  <1> QED BY <1>1, <1>2, <1>5, <1>6

(* One more node at the end of a block *)
LEMMA BlockOfConcat ==
    ASSUME NEW a, Block(a), NEW e, Part(e)
    PROVE  /\ Block(a \o e)
           /\ Tops(a \o e) = Tops(a) \cup (IF e = << >> THEN {} ELSE {Len(a) + 1})
  <1>0. PICK u : u = a \o e
    OBVIOUS
  <1>1. PICK x \in Nat, y \in Nat : x = Len(a) /\ y = Len(e)
    BY PartIsBlock DEF Block
  <1>2. a \in Seq(WholeTokens) /\ e \in Seq(WholeTokens) /\ Block(e)
    BY PartIsBlock DEF Block
  <1>3. /\ u \in Seq(WholeTokens) /\ Len(u) = x + y
        /\ Has(u, 0, a) /\ Has(u, x, e)
    <2>1. /\ u \in Seq(WholeTokens) /\ Len(u) = Len(a) + Len(e)
          /\ Has(u, 0, a) /\ Has(u, Len(a), e)
      BY <1>0, <1>2, ConcatHas
    <2> QED BY <1>1, <2>1
  <1>4. \A k \in 1 .. x : u[k] = a[k]
    <2>1. \A k \in 1 .. x : 0 + k = k
      OBVIOUS
    <2> QED BY <1>1, <1>3, <2>1 DEF Has
  <1>5. \A k \in 1 .. x + 1 : Level(u, k) = Level(a, k)
    <2>0. Has(u, 0, a) /\ x = Len(a) /\ x \in Nat
      BY <1>1, <1>3
    <2>1. \A k \in 1 .. x + 1 : /\ Level(u, 0 + k) = Level(u, 0 + 1) + Level(a, k)
                                /\ Level(u, 0 + 1) \in Int /\ Level(a, k) \in Int
      BY ONLY <2>0, LevelOfPart
    <2>2. \A k \in 1 .. x + 1 : 0 + k = k
      OBVIOUS
    <2>3. Level(u, 0 + 1) = 0
      BY LevelSteps
    <2> QED BY <2>1, <2>2, <2>3
  <1>6. Level(u, x + 1) = 0
    <2>1. x + 1 \in 1 .. x + 1
      OBVIOUS
    <2> QED BY <1>1, <1>5, <2>1 DEF Block
  <1>7. \A k \in 1 .. y : u[x + k] = e[k]
    BY <1>1, <1>3 DEF Has
  <1>8. \A k \in 1 .. y + 1 : Level(u, x + k) = Level(e, k)
    <2>0. Has(u, x, e) /\ y = Len(e) /\ y \in Nat
      BY <1>1, <1>3
    <2>1. \A k \in 1 .. y + 1 : /\ Level(u, x + k) = Level(u, x + 1) + Level(e, k)
                                /\ Level(u, x + 1) \in Int /\ Level(e, k) \in Int
      BY ONLY <2>0, LevelOfPart
    <2> QED BY <1>6, <2>1
  <1>9. \A i \in 1 .. (x + y) + 1 : i \in 1 .. x + 1 \/ (i - x \in 1 .. y + 1 /\ x + (i - x) = i)
    OBVIOUS
  <1>10. ASSUME NEW i \in 1 .. Len(u) + 1 PROVE Level(u, i) >= 0
    <2>1. CASE i \in 1 .. x + 1
      BY <1>1, <1>5, <2>1 DEF Block
    <2>2. CASE i - x \in 1 .. y + 1 /\ x + (i - x) = i
      <3>1. Level(u, i) = Level(e, i - x)
        BY <1>8, <2>2
      <3> QED BY <1>1, <1>2, <2>2, <3>1 DEF Block
    <2> QED BY <1>3, <1>9, <2>1, <2>2
  <1>11. Level(u, Len(u) + 1) = 0
    <2>1. y + 1 \in 1 .. y + 1 /\ x + (y + 1) = (x + y) + 1
      OBVIOUS
    <2>2. Level(u, x + (y + 1)) = Level(e, y + 1)
      BY <1>8, <2>1
    <2> QED BY <1>1, <1>2, <1>3, <2>1, <2>2 DEF Block
  <1>12. Block(u)
    BY <1>3, <1>10, <1>11 DEF Block
  <1>13. /\ DOMAIN u = 1 .. x + y /\ DOMAIN a = 1 .. x
         /\ \A i \in 1 .. x + y : i \in 1 .. x \/ (i - x \in 1 .. y /\ x + (i - x) = i)
         /\ \A i \in 1 .. x : i \in 1 .. x + y /\ i \in 1 .. x + 1
    BY <1>1, <1>2, <1>3
  <1>14. \A i \in 1 .. x : i \in Tops(u) <=> i \in Tops(a)
    BY <1>4, <1>5, <1>13 DEF Tops
  <1>15. CASE e = << >>
    <2>1. y = 0
      BY <1>1, <1>15
    <2>2. \A i \in Tops(u) : i \in 1 .. x
      BY <1>13, <2>1 DEF Tops
    <2>3. \A i \in Tops(a) : i \in 1 .. x
      BY <1>13 DEF Tops
    <2>4. Tops(u) = Tops(a)
      BY <1>14, <2>2, <2>3
    <2> QED BY <1>0, <1>12, <1>15, <2>4
  <1>16. CASE e # << >>
    <2>1. Elem(e)
      BY <1>16 DEF Part
    <2>2. y >= 1 /\ (\A i \in 2 .. y : Level(e, i) >= 1) /\ e[1].tag \in {"open", "empty"}
      BY <1>1, <2>1 DEF Elem
    <2>3. x + 1 \in Tops(u)
      <3>1. 1 \in 1 .. y /\ x + 1 \in 1 .. x + y
        BY <2>2
      <3> QED BY <1>6, <1>7, <1>13, <2>2, <3>1 DEF Tops
    <2>4. ASSUME NEW i \in Tops(u), i \notin 1 .. x PROVE i = x + 1
      <3>1. i \in 1 .. x + y /\ Level(u, i) = 0
        BY <1>13 DEF Tops
      <3>2. PICK k \in 1 .. y : x + k = i
        BY <1>13, <2>4, <3>1
      <3>3. Level(e, k) = 0
        <4>1. k \in 1 .. y + 1
          OBVIOUS
        <4> QED BY <1>8, <3>1, <3>2, <4>1
      <3>4. k = 1
        <4>1. SUFFICES ASSUME k # 1 PROVE FALSE
          OBVIOUS
        <4>2. k \in 2 .. y
          BY <4>1
        <4>3. Level(e, k) >= 1
          BY <2>2, <4>2
        <4> QED BY <3>3, <4>3
      <3> QED BY <3>2, <3>4
    <2>5. \A i \in Tops(a) : i \in 1 .. x
      BY <1>13 DEF Tops
    <2>6. Tops(u) = Tops(a) \cup {x + 1}
      BY <1>14, <2>3, <2>4, <2>5
    <2> QED BY <1>0, <1>1, <1>12, <1>16, <2>6
  <1> QED BY <1>0, <1>15, <1>16

(* A part of a part *)
LEMMA HasTransitive ==
    ASSUME NEW doc, NEW z, NEW e, Has(doc, z, e), Len(doc) \in Nat, Len(e) \in Nat,
           NEW y, NEW f, Has(e, y, f), Len(f) \in Nat
    PROVE  Has(doc, z + y, f)
  <1>1. PICK a \in Nat, b \in Nat, c \in Nat : a = Len(doc) /\ b = Len(e) /\ c = Len(f)
    OBVIOUS
  <1>2. z \in Nat /\ y \in Nat /\ z + b <= a /\ y + c <= b
    BY <1>1 DEF Has
  <1>3. (\A k \in 1 .. b : doc[z + k] = e[k]) /\ \A k \in 1 .. c : e[y + k] = f[k]
    BY <1>1 DEF Has
  <1>4. \A k \in 1 .. c : y + k \in 1 .. b /\ z + (y + k) = (z + y) + k
    BY <1>2
  <1>5. \A k \in 1 .. c : doc[(z + y) + k] = f[k]
    BY <1>3, <1>4
  <1>6. z + y \in Nat /\ (z + y) + c <= a
    BY <1>2
  <1> QED BY <1>1, <1>5, <1>6 DEF Has

(* What a node is made of *)
LEMMA NodeTokens ==
    ASSUME NEW n \in Names, NEW inner, inner \in Seq(WholeTokens)
    PROVE  /\ Node(n, inner) \in Seq(WholeTokens)
           /\ Len(Node(n, inner)) = Len(inner) + 2
           /\ Node(n, inner)[1] = Open(n)
           /\ Node(n, inner)[Len(inner) + 2] = Close(n)
           /\ Has(Node(n, inner), 1, inner)
  <1>1. Open(n) \in WholeTokens /\ Close(n) \in WholeTokens
    <2>1. << >> \in Seq(Symbols)
      OBVIOUS
    <2> QED BY <2>1 DEF Open, Close, WholeTokens
  <1>2. PICK T : T = WholeTokens
    OBVIOUS
  <1>3. PICK x \in Nat : x = Len(inner)
    OBVIOUS
  <1>4. PICK o \in T, c \in T : o = Open(n) /\ c = Close(n)
    BY <1>1, <1>2
  <1>5. PICK u : u = <<o>> \o inner
    OBVIOUS
  <1>6. u \in Seq(T) /\ Len(u) = x + 1 /\ u[1] = o /\ \A k \in 1 .. x : u[1 + k] = inner[k]
    BY <1>2, <1>3, <1>5
  <1>7. PICK v : v = u \o <<c>>
    OBVIOUS
  <1>8. v \in Seq(T) /\ Len(v) = x + 2 /\ v[x + 2] = c /\ \A k \in 1 .. x + 1 : v[k] = u[k]
    BY <1>3, <1>6, <1>7
  <1>9. (\A k \in 1 .. x : 1 + k \in 1 .. x + 1) /\ 1 \in 1 .. x + 1 /\ 1 + x <= x + 2
    OBVIOUS
  <1>10. v[1] = o /\ \A k \in 1 .. x : v[1 + k] = inner[k]
    BY <1>6, <1>8, <1>9
  <1>11. v = Node(n, inner)
    BY <1>4, <1>5, <1>7 DEF Node
  <1>12. Has(v, 1, inner)
    BY <1>3, <1>8, <1>9, <1>10 DEF Has
  <1> QED BY <1>2, <1>3, <1>4, <1>8, <1>10, <1>11, <1>12

(* A node is a part, with the levels of what is inside raised by one. *)
LEMMA NodeIsElem ==
    ASSUME NEW n \in Names, NEW inner, Block(inner)
    PROVE  /\ Elem(Node(n, inner))
           /\ \A k \in 1 .. Len(inner) + 1 : Level(Node(n, inner), 1 + k) = 1 + Level(inner, k)
  <1>1. PICK d : d = Node(n, inner)
    OBVIOUS
  <1>2. PICK x \in Nat : x = Len(inner)
    BY DEF Block
  <1>3. /\ d \in Seq(WholeTokens) /\ Len(d) = x + 2
        /\ d[1] = Open(n) /\ d[x + 2] = Close(n)
        /\ Has(d, 1, inner)
    BY <1>1, <1>2, NodeTokens DEF Block
  <1>4. Level(d, 1) = 0 /\ Level(d, 1 + 1) = 1
    <2>1. 1 \in Nat \ {0}
      OBVIOUS
    <2>2. Rise(d[1]) = 1
      BY <1>3 DEF Rise, Open
    <2>3. Level(d, 1) = 0 /\ Level(d, 1 + 1) = Level(d, 1) + Rise(d[1])
      BY <2>1, LevelSteps
    <2> QED BY <2>2, <2>3
  <1>5. \A k \in 1 .. x + 1 : Level(d, 1 + k) = 1 + Level(inner, k) /\ Level(inner, k) \in Int
    <2>1. Has(d, 1, inner) /\ x = Len(inner) /\ x \in Nat
      BY <1>2, <1>3
    <2>2. \A k \in 1 .. x + 1 : /\ Level(d, 1 + k) = Level(d, 1 + 1) + Level(inner, k)
                                /\ Level(d, 1 + 1) \in Int /\ Level(inner, k) \in Int
      BY ONLY <2>1, LevelOfPart
    <2> QED BY <1>4, <2>2
  <1>6. \A k \in 1 .. x + 1 : Level(inner, k) >= 0
    BY <1>2 DEF Block
  <1>7. ASSUME NEW i \in 2 .. Len(d) PROVE Level(d, i) >= 1
    <2>1. i - 1 \in 1 .. x + 1 /\ 1 + (i - 1) = i
      BY <1>3
    <2>2. Level(d, i) = 1 + Level(inner, i - 1) /\ Level(inner, i - 1) \in Int
      BY <1>5, <2>1
    <2> QED BY <1>6, <2>1, <2>2
  <1>8. Level(d, Len(d) + 1) = 0
    <2>1. x + 1 \in 1 .. x + 1 /\ 1 + (x + 1) = x + 2 /\ x + 2 \in Nat \ {0}
      OBVIOUS
    <2>2. Level(inner, x + 1) = 0
      BY <1>2 DEF Block
    <2>3. Level(d, x + 2) = 1 + 0
      BY <1>5, <2>1, <2>2
    <2>4. Level(d, (x + 2) + 1) = Level(d, x + 2) + Rise(d[x + 2])
      BY <2>1, LevelSteps
    <2>5. Rise(d[x + 2]) = -1
      BY <1>3 DEF Rise, Close
    <2>6. Level(d, (x + 2) + 1) = (1 + 0) + (-1)
      BY <2>3, <2>4, <2>5
    <2> QED BY <1>3, <2>6
  <1>9. Len(d) >= 1 /\ d[1].tag \in {"open", "empty"}
    BY <1>3 DEF Open
  <1>10. Elem(d)
    BY <1>3, <1>7, <1>8, <1>9 DEF Elem
  <1> QED BY <1>1, <1>2, <1>5, <1>10

AllParts == {d \in Seq(WholeTokens) : Part(d)}

(* d is the parts, one behind the other, the i-th one behind off[i] tokens. *)
Laid(d, parts, off) ==
    /\ off \in [DOMAIN parts -> Nat]
    /\ Block(d)
    /\ \A i \in DOMAIN parts : Has(d, off[i], parts[i])
    /\ \A i, k \in DOMAIN parts : i < k => off[i] + Len(parts[i]) <= off[k]
    /\ Tops(d) = {off[i] + 1 : i \in {j \in DOMAIN parts : parts[j] # << >>}}

(* One more part *)
LEMMA OneMorePart ==
    ASSUME NEW d, NEW parts \in Seq(AllParts), NEW off, Laid(d, parts, off), NEW e \in AllParts
    PROVE  \E g : Laid(d \o e, Append(parts, e), g)
  <1>1. PICK m \in Nat, x \in Nat : m = Len(parts) /\ x = Len(d)
    BY DEF Laid, Block
  <1>2. PICK more : more = Append(parts, e)
    OBVIOUS
  <1>3. /\ DOMAIN parts = 1 .. m /\ DOMAIN more = 1 .. m + 1
        /\ more[m + 1] = e /\ \A i \in 1 .. m : more[i] = parts[i]
    BY <1>1, <1>2
  <1>4. PICK u : u = d \o e
    OBVIOUS
  <1>5. Part(e) /\ Block(d) /\ e \in Seq(WholeTokens) /\ d \in Seq(WholeTokens) /\ Len(e) \in Nat
    BY DEF AllParts, Laid, Block
  <1>6. Block(u) /\ Tops(u) = Tops(d) \cup (IF e = << >> THEN {} ELSE {x + 1})
    BY <1>1, <1>4, <1>5, BlockOfConcat
  <1>7. Len(u) = x + Len(e) /\ Has(u, 0, d) /\ Has(u, x, e)
    BY <1>1, <1>4, <1>5, ConcatHas
  <1>8. PICK g : g = [i \in 1 .. m + 1 |-> IF i <= m THEN off[i] ELSE x]
    OBVIOUS
  <1>9. /\ g[m + 1] = x /\ g \in [1 .. m + 1 -> Nat]
        /\ \A i \in 1 .. m : g[i] = off[i] /\ off[i] \in Nat
    <2>1. off \in [1 .. m -> Nat]
      BY <1>3 DEF Laid
    <2> QED BY <1>8, <2>1
  <1>10. \A i \in 1 .. m : Has(d, off[i], parts[i]) /\ Len(parts[i]) \in Nat
    <2>1. \A i \in 1 .. m : parts[i] \in AllParts
      BY <1>3
    <2>2. \A q \in AllParts : Len(q) \in Nat
      BY DEF AllParts
    <2>3. \A i \in 1 .. m : Has(d, off[i], parts[i])
      BY <1>3 DEF Laid
    <2> QED BY <2>1, <2>2, <2>3
  <1>11. \A i \in 1 .. m : Has(u, g[i], more[i])
    <2> SUFFICES ASSUME NEW i \in 1 .. m PROVE Has(u, g[i], more[i])
      OBVIOUS
    <2>0. Len(u) \in Nat /\ Len(d) \in Nat
      BY <1>1, <1>5, <1>7
    <2>1. Has(u, 0, d) /\ Has(d, off[i], parts[i]) /\ Len(parts[i]) \in Nat
      BY <1>7, <1>10
    <2>2. Has(u, 0 + off[i], parts[i])
      BY ONLY <2>0, <2>1, HasTransitive
    <2>3. 0 + off[i] = g[i] /\ more[i] = parts[i]
      BY <1>3, <1>9
    <2> QED BY <2>2, <2>3
  <1>12. \A i \in 1 .. m + 1 : Has(u, g[i], more[i])
    <2>1. \A i \in 1 .. m + 1 : i \in 1 .. m \/ i = m + 1
      OBVIOUS
    <2> QED BY <1>3, <1>7, <1>9, <1>11, <2>1
  <1>13. ASSUME NEW i \in 1 .. m + 1, NEW k \in 1 .. m + 1, i < k
         PROVE  g[i] + Len(more[i]) <= g[k]
    <2>1. i \in 1 .. m /\ (k = m + 1 \/ k \in 1 .. m)
      BY <1>13
    <2>2. g[i] = off[i] /\ more[i] = parts[i]
      BY <1>3, <1>9, <2>1
    <2>3. CASE k = m + 1
      <3>1. off[i] + Len(parts[i]) <= Len(d)
        BY <1>10, <2>1 DEF Has
      <3> QED BY <1>1, <1>9, <2>2, <2>3, <3>1
    <2>4. CASE k \in 1 .. m
      BY <1>3, <1>9, <1>13, <2>1, <2>2, <2>4 DEF Laid
    <2> QED BY <2>1, <2>3, <2>4
  <1>14. Tops(u) = {g[i] + 1 : i \in {j \in 1 .. m + 1 : more[j] # << >>}}
    <2> DEFINE Old == {off[i] + 1 : i \in {j \in 1 .. m : parts[j] # << >>}}
               New == {g[i] + 1 : i \in {j \in 1 .. m + 1 : more[j] # << >>}}
    <2>1. Tops(d) = Old
      BY <1>3 DEF Laid
    <2>2. New = Old \cup (IF e = << >> THEN {} ELSE {x + 1})
      <3>1. \A i \in 1 .. m : i \in 1 .. m + 1 /\ g[i] = off[i] /\ more[i] = parts[i]
        BY <1>3, <1>9
      <3>2. m + 1 \in 1 .. m + 1 /\ g[m + 1] = x /\ more[m + 1] = e
        BY <1>3, <1>9
      <3>3. \A i \in 1 .. m + 1 : i \in 1 .. m \/ i = m + 1
        OBVIOUS
      <3>4. ASSUME NEW p \in New PROVE p \in Old \cup (IF e = << >> THEN {} ELSE {x + 1})
        <4>1. PICK i \in 1 .. m + 1 : more[i] # << >> /\ p = g[i] + 1
          OBVIOUS
        <4>2. CASE i = m + 1
          BY <3>2, <4>1, <4>2
        <4>3. CASE i \in 1 .. m
          BY <3>1, <4>1, <4>3
        <4> QED BY <3>3, <4>2, <4>3
      <3>5. ASSUME NEW p \in Old PROVE p \in New
        BY <3>1
      <3>6. ASSUME e # << >> PROVE x + 1 \in New
        BY <3>2, <3>6
      <3> QED BY <3>4, <3>5, <3>6
    <2> HIDE DEF Old, New
    <2>3. Tops(u) = New
      BY <1>6, <2>1, <2>2
    <2> QED BY <2>3 DEF New
  <1>15. Laid(u, more, g)
    BY <1>3, <1>6, <1>9, <1>12, <1>13, <1>14 DEF Laid
  <1> QED BY <1>2, <1>4, <1>15

(* Parts, one behind the other, are a block. *)
LEMMA PartsAreLaid ==
    ASSUME NEW parts \in Seq(AllParts)
    PROVE  /\ FlattenSeq(parts) \in Seq(WholeTokens)
           /\ \E off : Laid(FlattenSeq(parts), parts, off)
  <1> DEFINE P(q) == FlattenSeq(q) \in Seq(WholeTokens) /\ \E off : Laid(FlattenSeq(q), q, off)
             S == {q \in Seq(AllParts) : P(q)}
  <1>0. AllParts \subseteq Seq(WholeTokens) /\ Seq(AllParts) \subseteq Seq(Seq(WholeTokens))
    <2>1. AllParts \subseteq Seq(WholeTokens)
      BY DEF AllParts
    <2> QED BY <2>1, SeqMonotonic
  <1>1. << >> \in S
    <2>1. FlattenSeq(<< >>) = << >> /\ << >> \in Seq(WholeTokens) /\ << >> \in Seq(AllParts)
      BY DEF FlattenSeq
    <2>2. Block(<< >>)
      BY PartIsBlock DEF Part
    <2>3. Tops(<< >>) = {}
      BY DEF Tops
    <2>4. Laid(<< >>, << >>, << >>)
      <3>1. << >> \in [DOMAIN << >> -> Nat] /\ DOMAIN << >> = {}
        OBVIOUS
      <3> QED BY <2>2, <2>3, <3>1 DEF Laid
    <2> QED BY <2>1, <2>4
  <1>2. ASSUME NEW q \in Seq(AllParts), NEW e \in AllParts, q \in S PROVE Append(q, e) \in S
    <2>1. PICK off : Laid(FlattenSeq(q), q, off)
      BY <1>2
    <2>2. PICK g : Laid(FlattenSeq(q) \o e, Append(q, e), g)
      BY <2>1, OneMorePart
    <2>3. /\ q \in Seq(Seq(WholeTokens)) /\ e \in Seq(WholeTokens)
          /\ Append(q, e) \in Seq(AllParts)
      BY <1>0
    <2>4. FlattenSeq(Append(q, e)) = FlattenSeq(q) \o e
      BY <2>3, FlattenOfAppend
    <2>5. FlattenSeq(q) \o e \in Seq(WholeTokens)
      BY <1>2, <2>3
    <2> QED BY <2>2, <2>3, <2>4, <2>5
  <1> HIDE DEF S
  <1>3. \A q \in Seq(AllParts) : q \in S
    BY <1>1, <1>2, SeqInduction
  <1>4. parts \in S
    BY <1>3
  <1> QED BY <1>4 DEF S

(* The children of a node are the nodes of what is inside that are in no other. *)
LEMMA ChildPositions ==
    ASSUME NEW doc \in Seq(WholeTokens), NEW n \in Names, NEW inner, Block(inner),
           NEW z, Has(doc, z, Node(n, inner)), NEW names
    PROVE  {i \in Named(doc, names) :
                /\ z + 1 < i
                /\ Level(doc, i) = Level(doc, z + 1) + 1
                /\ Inside(doc, z + 1, i)}
             = {(z + 1) + j : j \in {k \in Tops(inner) : inner[k].name \in names}}
  <1>1. PICK d : d = Node(n, inner)
    OBVIOUS
  <1>2. PICK x \in Nat, w \in Nat : x = Len(inner) /\ w = Len(doc)
    BY DEF Block
  <1>3. /\ d \in Seq(WholeTokens) /\ Len(d) = x + 2 /\ d[1] = Open(n) /\ d[x + 2] = Close(n)
        /\ Has(d, 1, inner) /\ Has(doc, z, d) /\ z \in Nat
    BY <1>1, <1>2, NodeTokens DEF Block, Has
  <1>4. z + (x + 2) <= w /\ \A k \in 1 .. x + 2 : doc[z + k] = d[k]
    BY <1>2, <1>3 DEF Has
  <1>5. \A j \in 1 .. x : doc[(z + 1) + j] = inner[j]
    <2>1. \A j \in 1 .. x : d[1 + j] = inner[j]
      BY <1>2, <1>3 DEF Has
    <2>2. \A j \in 1 .. x : 1 + j \in 1 .. x + 2 /\ z + (1 + j) = (z + 1) + j
      BY <1>3
    <2> QED BY <1>4, <2>1, <2>2
  <1>6. PICK b \in Int : b = Level(doc, z + 1)
    <2>1. z + 1 \in Nat \ {0}
      BY <1>3
    <2> QED BY <2>1, LevelSteps
  <1>7. \A k \in 1 .. x + 3 : Level(doc, z + k) = b + Level(d, k)
    <2>0. PICK y \in Nat : y = x + 2
      OBVIOUS
    <2>1. Has(doc, z, d) /\ y = Len(d) /\ y \in Nat
      BY <1>3, <2>0
    <2>2. \A k \in 1 .. y + 1 : /\ Level(doc, z + k) = Level(doc, z + 1) + Level(d, k)
                                /\ Level(doc, z + 1) \in Int /\ Level(d, k) \in Int
      BY ONLY <2>1, LevelOfPart
    <2>3. y + 1 = x + 3
      BY <2>0
    <2> QED BY <1>6, <2>2, <2>3
  <1>8. \A j \in 1 .. x + 1 : /\ Level(doc, (z + 1) + j) = (b + 1) + Level(inner, j)
                              /\ Level(inner, j) \in Int /\ Level(inner, j) >= 0
    <2> SUFFICES ASSUME NEW j \in 1 .. x + 1
                 PROVE  /\ Level(doc, (z + 1) + j) = (b + 1) + Level(inner, j)
                        /\ Level(inner, j) \in Int /\ Level(inner, j) >= 0
      OBVIOUS
    <2>1. 1 + j \in 1 .. x + 3 /\ z + (1 + j) = (z + 1) + j /\ j \in Nat \ {0}
      BY <1>3
    <2>2. Level(d, 1 + j) = 1 + Level(inner, j)
      BY <1>1, <1>2, NodeIsElem
    <2>3. PICK v \in Int : v = Level(inner, j)
      BY <2>1, LevelSteps
    <2>4. v >= 0
      BY <1>2, <2>3 DEF Block
    <2>5. Level(doc, (z + 1) + j) = b + (1 + v)
      BY <1>7, <2>1, <2>2, <2>3
    <2> QED BY <2>3, <2>4, <2>5
  <1>9. Level(doc, (z + x) + 3) = b
    <2>1. Level(d, (x + 2) + 1) = 0
      BY <1>1, <1>3, NodeIsElem DEF Elem
    <2>2. x + 3 \in 1 .. x + 3 /\ z + (x + 3) = (z + x) + 3 /\ (x + 2) + 1 = x + 3
      BY <1>3
    <2> QED BY <1>7, <2>1, <2>2
  <1>10. doc[z + 1].tag = "open" /\ doc[(z + x) + 2].tag = "close"
    <2>1. 1 \in 1 .. x + 2 /\ x + 2 \in 1 .. x + 2 /\ z + (x + 2) = (z + x) + 2
      BY <1>3
    <2> QED BY <1>3, <1>4, <2>1 DEF Open, Close
  <1>11. DOMAIN inner = 1 .. x /\ DOMAIN doc = 1 .. w
    BY <1>2 DEF Block
  <1> DEFINE Kids == {i \in Named(doc, names) :
                        /\ z + 1 < i
                        /\ Level(doc, i) = Level(doc, z + 1) + 1
                        /\ Inside(doc, z + 1, i)}
             Heads == {k \in Tops(inner) : inner[k].name \in names}
  <1>12. ASSUME NEW i \in Kids PROVE \E j \in Heads : i = (z + 1) + j
    <2>1. /\ i \in 1 .. w /\ doc[i].tag \in {"open", "empty"} /\ doc[i].name \in names
          /\ z + 1 < i /\ Level(doc, i) = b + 1
          /\ \A k \in (z + 1) + 1 .. i : Level(doc, k) > b
      BY <1>6, <1>11 DEF Named, Tagged, Inside
    <2>2. ~(i >= (z + x) + 3)
      <3>1. SUFFICES ASSUME i >= (z + x) + 3 PROVE FALSE
        OBVIOUS
      <3>2. (z + x) + 3 \in (z + 1) + 1 .. i
        BY <1>3, <2>1, <3>1
      <3>3. b > b
        BY <1>9, <2>1, <3>2
      <3> QED BY <3>3
    <2>3. i # (z + x) + 2
      BY <1>10, <2>1
    <2>4. PICK j \in 1 .. x : i = (z + 1) + j
      <3>1. i - (z + 1) \in 1 .. x /\ i = (z + 1) + (i - (z + 1))
        BY <1>3, <2>1, <2>2, <2>3
      <3> QED BY <3>1
    <2>5. j \in 1 .. x + 1
      OBVIOUS
    <2>6. Level(inner, j) = 0
      BY <1>8, <2>1, <2>4, <2>5
    <2>7. inner[j] = doc[i]
      BY <1>5, <2>4
    <2> QED BY <1>11, <2>1, <2>4, <2>6, <2>7 DEF Tops
  <1>13. ASSUME NEW j \in Heads PROVE (z + 1) + j \in Kids
    <2>1. j \in 1 .. x /\ inner[j].tag \in {"open", "empty"} /\ Level(inner, j) = 0
          /\ inner[j].name \in names
      BY <1>11 DEF Tops
    <2>2. PICK i : i = (z + 1) + j
      OBVIOUS
    <2>3. i \in 1 .. w /\ z + 1 < i /\ j \in 1 .. x + 1
      BY <1>3, <1>4, <2>1, <2>2
    <2>4. doc[i] = inner[j] /\ Level(doc, i) = b + 1
      BY <1>5, <1>8, <2>1, <2>2, <2>3
    <2>5. ASSUME NEW k \in (z + 1) + 1 .. i PROVE Level(doc, k) > b
      <3>1. k - (z + 1) \in 1 .. x + 1 /\ k = (z + 1) + (k - (z + 1))
        BY <1>3, <2>1, <2>2, <2>3
      <3>2. PICK v \in Int : v = Level(inner, k - (z + 1)) /\ v >= 0
        BY <1>8, <3>1
      <3>3. Level(doc, k) = (b + 1) + v
        BY <1>8, <3>1, <3>2
      <3> QED BY <3>2, <3>3
    <2>6. Inside(doc, z + 1, i)
      BY <1>6, <1>10, <2>5 DEF Inside
    <2>7. i \in Named(doc, names)
      BY <1>11, <2>1, <2>3, <2>4 DEF Named, Tagged
    <2> QED BY <1>6, <2>2, <2>3, <2>4, <2>6, <2>7
  <1> HIDE DEF Kids, Heads
  <1>14. Kids = {(z + 1) + j : j \in Heads}
    BY <1>12, <1>13
  <1> QED BY <1>14 DEF Kids, Heads

(* The parts that are nodes of one of the names *)
Heads(parts, names) ==
    {i \in DOMAIN parts : parts[i] # << >> /\ parts[i][1].name \in names}

(* The parts are what is inside the node behind the first z tokens: the i-th  *)
(* one is behind at[i] tokens, and the reader hands out the nodes among them *)
(* in their order.                                                           *)
Holds(doc, z, parts, at) ==
    /\ at \in [DOMAIN parts -> Nat]
    /\ \A i \in DOMAIN parts : Has(doc, at[i], parts[i])
    /\ \A names :
          next_child_of(doc, z + 1, names)
             = [k \in DOMAIN Ascending(Heads(parts, names)) |->
                   at[Ascending(Heads(parts, names))[k]] + 1]

(* What the reader finds inside a node is what was written there. *)
LEMMA ChildrenOfNode ==
    ASSUME NEW doc \in Seq(WholeTokens), NEW n \in Names, NEW parts \in Seq(AllParts),
           NEW z, Has(doc, z, NodeOf(n, parts))
    PROVE  \E at : Holds(doc, z, parts, at)
  <1>1. PICK inner : inner = FlattenSeq(parts)
    OBVIOUS
  <1>2. PICK off : Laid(inner, parts, off)
    BY <1>1, PartsAreLaid
  <1>3. Block(inner) /\ inner \in Seq(WholeTokens) /\ Len(inner) \in Nat
    BY <1>2 DEF Laid, Block
  <1>4. Has(doc, z, Node(n, inner)) /\ z \in Nat
    BY <1>1 DEF NodeOf, Has
  <1>5. PICK m \in Nat : m = Len(parts) /\ DOMAIN parts = 1 .. m
    OBVIOUS
  <1>6. Has(doc, z + 1, inner)
    <2>1. /\ Has(Node(n, inner), 1, inner) /\ Node(n, inner) \in Seq(WholeTokens)
      BY <1>3, NodeTokens
    <2>2. PICK d : d = Node(n, inner)
      OBVIOUS
    <2>3. Has(doc, z, d) /\ Len(doc) \in Nat /\ Len(d) \in Nat /\ Has(d, 1, inner) /\ Len(inner) \in Nat
      <3>1. Has(doc, z, d) /\ Has(d, 1, inner) /\ d \in Seq(WholeTokens)
        BY <1>4, <2>1, <2>2
      <3> QED BY <1>3, <3>1
    <2> QED BY ONLY <2>3, HasTransitive
  <1>7. \A i \in 1 .. m : /\ off[i] \in Nat /\ Has(inner, off[i], parts[i])
                          /\ parts[i] \in Seq(WholeTokens) /\ Len(parts[i]) \in Nat
                          /\ (parts[i] # << >> => Len(parts[i]) >= 1)
    <2>1. \A i \in 1 .. m : parts[i] \in AllParts
      BY <1>5
    <2>2. \A q \in AllParts : q \in Seq(WholeTokens) /\ Len(q) \in Nat /\ (q # << >> => Len(q) >= 1)
      BY DEF AllParts
    <2>3. \A i \in 1 .. m : off[i] \in Nat /\ Has(inner, off[i], parts[i])
      BY <1>2, <1>5 DEF Laid
    <2> QED BY <2>1, <2>2, <2>3
  <1>8. PICK at : at = [i \in 1 .. m |-> (z + 1) + off[i]]
    OBVIOUS
  <1>9. at \in [1 .. m -> Nat] /\ \A i \in 1 .. m : at[i] = (z + 1) + off[i]
    BY <1>4, <1>7, <1>8
  <1>10. \A i \in 1 .. m : Has(doc, at[i], parts[i])
    <2> SUFFICES ASSUME NEW i \in 1 .. m PROVE Has(doc, at[i], parts[i])
      OBVIOUS
    <2>1. /\ Has(doc, z + 1, inner) /\ Len(doc) \in Nat /\ Len(inner) \in Nat
          /\ Has(inner, off[i], parts[i]) /\ Len(parts[i]) \in Nat
      BY <1>3, <1>6, <1>7
    <2>2. Has(doc, (z + 1) + off[i], parts[i])
      BY ONLY <2>1, HasTransitive
    <2> QED BY <1>9, <2>2
  <1>11. ASSUME NEW names
         PROVE  next_child_of(doc, z + 1, names)
                  = [k \in DOMAIN Ascending(Heads(parts, names)) |->
                        at[Ascending(Heads(parts, names))[k]] + 1]
    <2>1. PICK H : H = Heads(parts, names)
      OBVIOUS
    <2>2. H \subseteq 1 .. m /\ \A i \in 1 .. m : i \in H <=> (parts[i] # << >> /\ parts[i][1].name \in names)
      BY <1>5, <2>1 DEF Heads
    <2>3. PICK s : s = Ascending(H)
      OBVIOUS
    <2>4. PICK c : Enumerates(s, c, H)
      BY <2>2, <2>3, AscendingEnumerates
    <2>5. PICK f : f = [k \in 1 .. c |-> at[s[k]] + 1]
      OBVIOUS
    <2>6. PICK C : C = {(z + 1) + j : j \in {k \in Tops(inner) : inner[k].name \in names}}
      OBVIOUS
    <2>7. next_child_of(doc, z + 1, names) = Ascending(C)
      <3>1. {i \in Named(doc, names) :
                /\ z + 1 < i
                /\ Level(doc, i) = Level(doc, z + 1) + 1
                /\ Inside(doc, z + 1, i)} = C
        BY <1>3, <1>4, <2>6, ChildPositions
      <3> QED BY <3>1 DEF next_child_of
    <2>8. C = {at[i] + 1 : i \in H}
      <3>1. Tops(inner) = {off[i] + 1 : i \in {j \in 1 .. m : parts[j] # << >>}}
        BY <1>2, <1>5 DEF Laid
      <3>2. \A i \in 1 .. m : parts[i] # << >> => inner[off[i] + 1] = parts[i][1]
        <4>1. \A i \in 1 .. m : parts[i] # << >> => 1 \in 1 .. Len(parts[i])
          BY <1>7
        <4> QED BY <1>7, <4>1 DEF Has
      <3>3. \A i \in 1 .. m : (z + 1) + (off[i] + 1) = at[i] + 1
        BY <1>4, <1>7, <1>9
      <3>4. ASSUME NEW p \in C PROVE \E i \in H : p = at[i] + 1
        <4>1. PICK j \in Tops(inner) : inner[j].name \in names /\ p = (z + 1) + j
          BY <2>6
        <4>2. PICK i \in 1 .. m : parts[i] # << >> /\ j = off[i] + 1
          BY <3>1
        <4> QED BY <2>2, <3>2, <3>3, <4>1, <4>2
      <3>5. ASSUME NEW i \in H PROVE at[i] + 1 \in C
        <4>1. i \in 1 .. m /\ parts[i] # << >> /\ parts[i][1].name \in names
          BY <2>2
        <4>2. off[i] + 1 \in Tops(inner) /\ inner[off[i] + 1].name \in names
          BY <3>1, <3>2, <4>1
        <4> QED BY <2>6, <3>3, <4>1, <4>2
      <3> QED BY <3>4, <3>5
    <2>9. Enumerates(f, c, C)
      <3>1. c \in Nat /\ s \in [1 .. c -> H]
        BY <2>4 DEF Enumerates
      <3>2. \A k \in 1 .. c : s[k] \in H /\ s[k] \in 1 .. m
        BY <2>2, <3>1
      <3>3. f \in [1 .. c -> C]
        BY <2>5, <2>8, <3>2
      <3>4. ASSUME NEW i \in 1 .. c, NEW k \in 1 .. c, i < k PROVE f[i] < f[k]
        <4>1. s[i] < s[k] /\ s[i] \in 1 .. m /\ s[k] \in 1 .. m
          BY <2>4, <3>2, <3>4 DEF Enumerates
        <4>2. parts[s[i]] # << >>
          BY <2>2, <3>2
        <4>3. off[s[i]] + Len(parts[s[i]]) <= off[s[k]]
          BY <1>2, <1>5, <4>1 DEF Laid
        <4>4. PICK p \in Nat, q \in Nat, l \in Nat : p = off[s[i]] /\ q = off[s[k]] /\ l = Len(parts[s[i]])
          BY <1>7, <4>1
        <4>5. l >= 1 /\ p + l <= q
          BY <1>7, <4>1, <4>2, <4>3, <4>4
        <4>6. f[i] = ((z + 1) + p) + 1 /\ f[k] = ((z + 1) + q) + 1
          BY <1>9, <2>5, <4>1, <4>4
        <4> QED BY <1>4, <4>5, <4>6
      <3>5. ASSUME NEW p \in C PROVE \E k \in 1 .. c : f[k] = p
        <4>1. PICK i \in H : p = at[i] + 1
          BY <2>8
        <4>2. PICK k \in 1 .. c : s[k] = i
          BY <2>4 DEF Enumerates
        <4> QED BY <2>5, <4>1, <4>2
      <3> QED BY <3>1, <3>3, <3>4, <3>5 DEF Enumerates
    <2>10. C \in SUBSET Nat
      <3>1. \A i \in H : at[i] + 1 \in Nat
        BY <1>9, <2>2
      <3> QED BY <2>8, <3>1
    <2>11. Ascending(C) = f
      BY <2>9, <2>10, AscendingIsTheEnumeration
    <2>12. DOMAIN s = 1 .. c
      BY <2>4 DEF Enumerates
    <2> QED BY <2>1, <2>3, <2>5, <2>7, <2>11, <2>12
  <1>12. Holds(doc, z, parts, at)
    BY <1>5, <1>9, <1>10, <1>11 DEF Holds
  <1> QED BY <1>12

-----------------------------------------------------------------------------
(* A text without "&", here one of at most one symbol, is read as it stands. *)
LEMMA ShortTextIsVerbatim ==
    /\ unescape(<< >>) = << >>
    /\ \A c : unescape(<<c>>) = <<c>>
  <1>1. unescape(<< >>) = << >>
    BY DEF unescape, UnescapeOnce, FlattenSeq
  <1>2. ASSUME NEW c PROVE unescape(<<c>>) = <<c>>
    <2> DEFINE s == [i \in 1 .. 1 |-> <<c>>]
               F(f) == [i \in 1 .. 1 |-> IF i = 1 THEN s[i] ELSE f[i - 1] \o s[i]]
    <2>1. unescape(<<c>>) = FlattenSeq(s)
      BY DEF unescape, UnescapeOnce, BeginsEntity
    <2>2. s = F(s)
      OBVIOUS
    <2>3. Len(s) = 1
      OBVIOUS
    <2>4. FlattenSeq(s) = (CHOOSE f : f = F(f))[1]
      BY <2>3 DEF FlattenSeq
    <2>5. (CHOOSE f : f = F(f)) = F(CHOOSE f : f = F(f))
      BY <2>2
    <2> QED BY <2>1, <2>4, <2>5
  <1> QED BY <1>1, <1>2

(* The symbols that one symbol of a text is written as *)
Written(c) ==
    CASE c = "&" -> <<"&", "amp;">>
      [] c = "<" -> <<"&", "lt;">>
      [] OTHER -> <<c>>

(* The entities *)
LEMMA Entities ==
    /\ DOMAIN Entity = {"amp;", "lt;", "gt;", "quot;", "apos;"}
    /\ Entity["amp;"] = "&" /\ Entity["lt;"] = "<"
    /\ \A e \in DOMAIN Entity : Entity[e] \in Symbols
    /\ "&" \notin DOMAIN Entity
  <1> DEFINE E(name) == CASE name = "amp;" -> "&"
                          [] name = "lt;" -> "<"
                          [] name = "gt;" -> ">"
                          [] name = "quot;" -> "quote"
                          [] name = "apos;" -> "apostrophe"
  <1>1. E("amp;") = "&" /\ E("lt;") = "<" /\ E("gt;") = ">" /\ E("quot;") = "quote" /\ E("apos;") = "apostrophe"
    OBVIOUS
  <1>2. Entity = [name \in {"amp;", "lt;", "gt;", "quot;", "apos;"} |-> E(name)]
    BY Zenon DEF Entity
  <1>3. /\ "&" \in Symbols /\ "<" \in Symbols /\ ">" \in Symbols
        /\ "quote" \in Symbols /\ "apostrophe" \in Symbols
    BY DEF Symbols
  <1>4. "&" \notin {"amp;", "lt;", "gt;", "quot;", "apos;"}
    OBVIOUS
  <1> HIDE DEF E
  <1> QED BY <1>1, <1>2, <1>3, <1>4

(* A symbol is written as itself or, one that would be taken for markup, as   *)
(* the entity of it.                                                         *)
LEMMA WrittenIsText ==
    ASSUME NEW c \in Symbols
    PROVE  /\ Written(c) \in Seq(Symbols)
           /\ \/ \E e \in Symbols : e \in DOMAIN Entity /\ Entity[e] = c /\ Written(c) = <<"&", e>>
              \/ c # "&" /\ Written(c) = <<c>>
  <1>1. "&" \in Symbols /\ "amp;" \in Symbols /\ "lt;" \in Symbols
    BY DEF Symbols
  <1>2. "amp;" \in DOMAIN Entity /\ "lt;" \in DOMAIN Entity /\ Entity["amp;"] = "&" /\ Entity["lt;"] = "<"
    BY Entities
  <1>3. \/ \E e \in Symbols : e \in DOMAIN Entity /\ Entity[e] = c /\ Written(c) = <<"&", e>>
        \/ c # "&" /\ Written(c) = <<c>>
    <2>1. CASE c = "&"
      <3>1. Written(c) = <<"&", "amp;">>
        BY <2>1 DEF Written
      <3> QED BY <1>1, <1>2, <2>1, <3>1, Zenon
    <2>2. CASE c = "<"
      <3>1. c # "&"
        BY <2>2
      <3>2. Written(c) = <<"&", "lt;">>
        BY <2>2, <3>1 DEF Written
      <3> QED BY <1>1, <1>2, <2>2, <3>2, Zenon
    <2>3. CASE c \notin {"&", "<"}
      BY <2>3 DEF Written
    <2> QED BY <2>1, <2>2, <2>3
  <1>4. \A a, b \in Symbols : <<a, b>> \in Seq(Symbols) /\ <<a>> \in Seq(Symbols)
    OBVIOUS
  <1> QED BY <1>1, <1>3, <1>4, Zenon

(* f is a sequence of that length. *)
HasLength(f, n) == f = [i \in 1 .. n |-> f[i]]

(* When a sequence is another one with one element more *)
LEMMA AppendIs ==
    ASSUME NEW T, NEW p, p \in Seq(T), NEW v, v \in T, NEW x, x \in Nat, x = Len(p), NEW f,
           HasLength(f, x + 1), \A i \in 1 .. x : f[i] = p[i], f[x + 1] = v
    PROVE  f = Append(p, v)
  <1>1. /\ Append(p, v) \in Seq(T) /\ Len(Append(p, v)) = x + 1
        /\ Append(p, v)[x + 1] = v /\ \A i \in 1 .. x : Append(p, v)[i] = p[i]
    BY AppendProperties
  <1>2. PICK a : a = Append(p, v)
    OBVIOUS
  <1>3. a = [i \in 1 .. x + 1 |-> a[i]]
    BY <1>1, <1>2, LenProperties
  <1>4. \A i \in 1 .. x + 1 : i \in 1 .. x \/ i = x + 1
    OBVIOUS
  <1>5. \A i \in 1 .. x + 1 : f[i] = a[i]
    BY <1>1, <1>2, <1>4
  <1> QED BY <1>2, <1>3, <1>5 DEF HasLength

(* Escape, one symbol at a time *)
LEMMA EscapeOfAppend ==
    ASSUME NEW t \in Seq(Symbols), NEW c \in Symbols
    PROVE  /\ Escape(<< >>) = << >>
           /\ Escape(t) \in Seq(Symbols)
           /\ Escape(Append(t, c)) = Escape(t) \o Written(c)
  <1> DEFINE parts(s) == [i \in DOMAIN s |-> Written(s[i])]
  <1>0. \A s : Escape(s) = FlattenSeq(parts(s))
    BY DEF Escape, Written
  <1>1. \A b \in Symbols : Written(b) \in Seq(Symbols)
    BY WrittenIsText
  <1>2. PICK x \in Nat : x = Len(t) /\ DOMAIN t = 1 .. x
    OBVIOUS
  <1>3. /\ parts(t) \in Seq(Seq(Symbols)) /\ Written(c) \in Seq(Symbols)
        /\ parts(Append(t, c)) = Append(parts(t), Written(c))
    <2>1. PICK S : S = Seq(Symbols)
      OBVIOUS
    <2>2. \A i \in 1 .. x : t[i] \in Symbols /\ Written(t[i]) \in S
      BY <1>1, <1>2, <2>1
    <2>3. PICK p : p = [i \in 1 .. x |-> Written(t[i])]
      OBVIOUS
    <2>4. p \in Seq(S) /\ Len(p) = x /\ \A i \in 1 .. x : p[i] = Written(t[i])
      BY <2>2, <2>3
    <2>5. PICK v \in S : v = Written(c)
      BY <1>1, <2>1
    <2>6. PICK u : u = Append(t, c)
      OBVIOUS
    <2>7. /\ DOMAIN u = 1 .. x + 1 /\ u[x + 1] = c
          /\ \A i \in 1 .. x : u[i] = t[i]
      BY <1>2, <2>6
    <2>8. [i \in 1 .. x + 1 |-> Written(u[i])] = Append(p, v)
      <3>1. /\ Append(p, v) \in [1 .. x + 1 -> S] /\ Append(p, v)[x + 1] = v
            /\ \A i \in 1 .. x : Append(p, v)[i] = p[i]
        <4>1. /\ Append(p, v) \in Seq(S) /\ Len(Append(p, v)) = x + 1
              /\ Append(p, v)[x + 1] = v /\ \A i \in 1 .. x : Append(p, v)[i] = p[i]
          BY <2>4, AppendProperties
        <4>2. \A i \in 1 .. x + 1 : Append(p, v)[i] \in S
          BY <4>1, ElementOfSeq
        <4>3. PICK a : a = Append(p, v)
          OBVIOUS
        <4>4. a \in Seq(S) /\ Len(a) = x + 1 /\ (\A i \in 1 .. x + 1 : a[i] \in S)
          BY <4>1, <4>2, <4>3
        <4>5. a \in [1 .. x + 1 -> S]
          BY <4>4, LenProperties
        <4> QED BY <4>1, <4>3, <4>5
      <3>2. \A i \in 1 .. x + 1 : Written(u[i]) = Append(p, v)[i]
        <4>1. \A i \in 1 .. x + 1 : i \in 1 .. x \/ i = x + 1
          OBVIOUS
        <4> QED BY <2>4, <2>5, <2>7, <3>1, <4>1
      <3> QED BY <3>1, <3>2
    <2> QED BY <1>2, <2>1, <2>3, <2>4, <2>5, <2>6, <2>7, <2>8
  <1>4. FlattenSeq(Append(parts(t), Written(c))) = FlattenSeq(parts(t)) \o Written(c)
    <2> HIDE DEF parts
    <2> QED BY <1>3, FlattenOfAppend
  <1>5. FlattenSeq(parts(t)) \in Seq(Symbols)
    <2> HIDE DEF parts
    <2> QED BY <1>3, FlattenOfAppend
  <1>6. Escape(<< >>) = << >>
    BY DEF Escape, FlattenSeq
  <1> QED BY <1>0, <1>3, <1>4, <1>5, <1>6

(* A text that does not end in the middle of an entity *)
Complete(t) == t = << >> \/ t[Len(t)] # "&"

(* What is written behind a complete text is read by itself. *)
LEMMA UnescapeOfWritten ==
    ASSUME NEW t \in Seq(Symbols), Complete(t), NEW c \in Symbols
    PROVE  /\ Complete(t \o Written(c))
           /\ unescape(t) \in Seq(Symbols)
           /\ unescape(t \o Written(c)) = Append(unescape(t), c)
  <1> DEFINE ReadAt(s, i) == CASE BeginsEntity(s, i) -> <<Entity[s[i + 1]]>>
                               [] i > 1 /\ BeginsEntity(s, i - 1) -> << >>
                               [] OTHER -> <<s[i]>>
             parts(s) == [i \in DOMAIN s |-> ReadAt(s, i)]
             u == t \o Written(c)
  <1>0. \A s : unescape(s) = FlattenSeq(parts(s))
    BY DEF unescape, UnescapeOnce
  <1>1. PICK x \in Nat : x = Len(t) /\ DOMAIN t = 1 .. x
    OBVIOUS
  <1>2. \A e \in DOMAIN Entity : Entity[e] \in Symbols
    BY Entities
  <1>3. \A i \in 1 .. x : ReadAt(t, i) \in Seq(Symbols)
    <2> SUFFICES ASSUME NEW i \in 1 .. x PROVE ReadAt(t, i) \in Seq(Symbols)
      OBVIOUS
    <2>1. PICK a \in Symbols : a = t[i]
      BY <1>1
    <2>2. CASE BeginsEntity(t, i)
      <3>1. PICK b \in Symbols : b = Entity[t[i + 1]]
        BY <1>2, <2>2 DEF BeginsEntity
      <3>2. ~BeginsEntity(t, i - 1)
        <4>1. (i - 1) + 1 = i /\ t[i] = "&"
          BY <2>2 DEF BeginsEntity
        <4>2. "&" \notin DOMAIN Entity
          BY Entities, Zenon
        <4> QED BY <4>1, <4>2 DEF BeginsEntity
      <3>3. ReadAt(t, i) = <<b>>
        BY <2>2, <3>1, <3>2
      <3> QED BY <3>3
    <2>3. CASE ~BeginsEntity(t, i)
      <3>1. ReadAt(t, i) = << >> \/ ReadAt(t, i) = <<a>>
        BY <2>1, <2>3
      <3> QED BY <3>1
    <2> QED BY <2>2, <2>3
  <1>4. parts(t) \in Seq(Seq(Symbols)) /\ Len(parts(t)) = x /\ \A i \in 1 .. x : parts(t)[i] = ReadAt(t, i)
    <2> HIDE DEF ReadAt
    <2> QED BY <1>1, <1>3
  <1>5. PICK w \in Nat : w = Len(Written(c)) /\ w >= 1
    <2>1. (\A e : Len(<<"&", e>>) = 2) /\ Len(<<c>>) = 1
      OBVIOUS
    <2>2. Len(Written(c)) = 2 \/ Len(Written(c)) = 1
      BY <2>1, WrittenIsText
    <2>3. 2 \in Nat /\ 1 \in Nat /\ 2 >= 1 /\ 1 >= 1
      OBVIOUS
    <2> QED BY <2>2, <2>3
  <1>6. /\ Len(u) = x + w /\ DOMAIN u = 1 .. x + w
        /\ \A i \in 1 .. x : u[i] = t[i]
        /\ \A k \in 1 .. w : u[x + k] = Written(c)[k]
    <2>1. PICK v \in Seq(Symbols) : v = Written(c)
      BY WrittenIsText
    <2>2. u = t \o v
      BY <2>1
    <2> HIDE DEF u
    <2> QED BY <1>1, <1>5, <2>1, <2>2
  <1>7. \A i \in 1 .. x : BeginsEntity(u, i) <=> BeginsEntity(t, i)
    <2> SUFFICES ASSUME NEW i \in 1 .. x PROVE BeginsEntity(u, i) <=> BeginsEntity(t, i)
      OBVIOUS
    <2> HIDE DEF u
    <2>1. CASE i = x
      BY <1>1, <1>6, <2>1 DEF BeginsEntity, Complete
    <2>2. CASE i < x
      <3>1. i + 1 \in 1 .. x
        BY <2>2
      <3>2. i < x + w
        BY <2>2
      <3> QED BY <1>1, <1>6, <2>2, <3>1, <3>2 DEF BeginsEntity
    <2> QED BY <2>1, <2>2
  <1>8. x >= 1 => ~BeginsEntity(u, x)
    <2>1. x = 0 \/ x \in 1 .. x
      OBVIOUS
    <2>2. x \in 1 .. x => ~BeginsEntity(t, x)
      BY <1>1 DEF BeginsEntity
    <2>3. CASE x \in 1 .. x
      BY <1>7, <2>2, <2>3
    <2>4. CASE x = 0
      BY <2>4
    <2> QED BY <2>1, <2>3, <2>4
  <1>9. \A i \in 1 .. x : ReadAt(u, i) = ReadAt(t, i)
    <2> SUFFICES ASSUME NEW i \in 1 .. x PROVE ReadAt(u, i) = ReadAt(t, i)
      OBVIOUS
    <2> HIDE DEF u
    <2>1. i > 1 => (BeginsEntity(u, i - 1) <=> BeginsEntity(t, i - 1))
      <3>1. i > 1 => i - 1 \in 1 .. x
        OBVIOUS
      <3> QED BY <1>7, <3>1
    <2>2. u[i] = t[i] /\ (BeginsEntity(u, i) <=> BeginsEntity(t, i))
      BY <1>6, <1>7
    <2>3. BeginsEntity(t, i) => u[i + 1] = t[i + 1]
      <3>1. BeginsEntity(t, i) => i + 1 \in 1 .. x
        BY <1>1 DEF BeginsEntity
      <3> QED BY <1>6, <3>1
    <2> QED BY <2>1, <2>2, <2>3
  <1>10. PICK p : p = parts(t)
    OBVIOUS
  <1>11. /\ p \in Seq(Seq(Symbols)) /\ Len(p) = x /\ unescape(t) = FlattenSeq(p)
         /\ \A i \in 1 .. x : ReadAt(u, i) = p[i]
    <2> HIDE DEF ReadAt, u
    <2> QED BY <1>0, <1>4, <1>9, <1>10
  <1>12. unescape(t) \in Seq(Symbols)
    BY <1>11, FlattenOfAppend, EmptySeq
  <1>13. <<c>> \in Seq(Symbols) /\ << >> \in Seq(Symbols)
    OBVIOUS
  <1>14. unescape(u) = FlattenSeq([i \in 1 .. x + w |-> ReadAt(u, i)])
    <2> HIDE DEF ReadAt, u
    <2> QED BY <1>0, <1>6
  <1>15. PICK q : q = [i \in 1 .. x + 1 |-> ReadAt(u, i)]
    OBVIOUS
  <1>16. ASSUME ReadAt(u, x + 1) = <<c>> PROVE q = Append(p, <<c>>) /\ FlattenSeq(q) = Append(unescape(t), c)
    <2> HIDE DEF ReadAt, u
    <2>1. /\ HasLength(q, x + 1) /\ (\A i \in 1 .. x : q[i] = p[i])
          /\ q[x + 1] = <<c>>
      BY <1>11, <1>15, <1>16 DEF HasLength
    <2>2. q = Append(p, <<c>>)
      <3>1. PICK T : T = Seq(Symbols)
        OBVIOUS
      <3>2. PICK v \in T : v = <<c>>
        BY <1>13, <3>1
      <3>3. p \in Seq(T) /\ v \in T /\ x \in Nat /\ x = Len(p) /\ q[x + 1] = v
        BY <1>11, <2>1, <3>1, <3>2
      <3>4. q = Append(p, v)
        BY ONLY <2>1, <3>3, AppendIs
      <3> QED BY <3>2, <3>4
    <2>3. FlattenSeq(q) = unescape(t) \o <<c>>
      BY <1>11, <1>13, <2>2, FlattenOfAppend
    <2> QED BY <1>12, <2>2, <2>3
  <1>17. ASSUME NEW e \in Symbols, e \in DOMAIN Entity, Entity[e] = c, Written(c) = <<"&", e>>
         PROVE  Complete(u) /\ unescape(u) = Append(unescape(t), c)
    <2>1. w = 2 /\ u[x + 1] = "&" /\ u[x + 2] = e /\ Len(u) = x + 2
      <3>1. w = 2
        BY <1>5, <1>17
      <3>2. 1 \in 1 .. w /\ 2 \in 1 .. w
        BY <3>1
      <3> HIDE DEF u
      <3> QED BY <1>6, <1>17, <3>1, <3>2
    <2> HIDE DEF u
    <2>2. e # "&"
      BY <1>17, Entities, Zenon
    <2>3. Complete(u)
      BY <2>1, <2>2 DEF Complete
    <2>4. BeginsEntity(u, x + 1) /\ ~BeginsEntity(u, x + 2)
      <3>1. (x + 1) + 1 = x + 2 /\ x + 1 < x + 2 /\ ~(x + 2 < x + 2)
        OBVIOUS
      <3> QED BY <1>17, <2>1, <3>1 DEF BeginsEntity
    <2>5. ReadAt(u, x + 1) = <<c>>
      <3>1. (x + 1) + 1 = x + 2 /\ (x + 1) - 1 = x /\ (x + 1 > 1 => x >= 1)
        OBVIOUS
      <3> HIDE DEF BeginsEntity
      <3> QED BY <1>8, <1>17, <2>1, <2>4, <3>1
    <2>6. ReadAt(u, x + 2) = << >>
      <3>1. (x + 2) - 1 = x + 1 /\ x + 2 > 1
        OBVIOUS
      <3> HIDE DEF BeginsEntity
      <3> QED BY <2>4, <3>1
    <2> HIDE DEF ReadAt
    <2>7. q = Append(p, <<c>>) /\ FlattenSeq(q) = Append(unescape(t), c)
      BY <1>16, <2>5
    <2>8. PICK r : r = [i \in 1 .. x + 2 |-> ReadAt(u, i)]
      OBVIOUS
    <2>9. q \in Seq(Seq(Symbols)) /\ Len(q) = x + 1
      BY <1>11, <1>13, <2>7
    <2>10. PICK y \in Nat : y = x + 1 /\ y + 1 = x + 2
      OBVIOUS
    <2>11. /\ HasLength(r, y + 1) /\ (\A i \in 1 .. y : r[i] = q[i])
           /\ r[y + 1] = << >> /\ y = Len(q)
      BY <1>15, <2>6, <2>8, <2>9, <2>10 DEF HasLength
    <2>12. r = Append(q, << >>)
      <3>1. PICK T : T = Seq(Symbols)
        OBVIOUS
      <3>2. PICK v \in T : v = << >>
        BY <1>13, <3>1
      <3>3. q \in Seq(T) /\ v \in T /\ y \in Nat /\ r[y + 1] = v
        BY <2>9, <2>11, <3>1, <3>2
      <3>4. r = Append(q, v)
        BY ONLY <2>11, <3>3, AppendIs
      <3> QED BY <3>2, <3>4
    <2>13. FlattenSeq(r) = FlattenSeq(q) \o << >> /\ FlattenSeq(q) \in Seq(Symbols)
      BY <1>13, <2>9, <2>12, FlattenOfAppend
    <2>14. FlattenSeq(r) = FlattenSeq(q)
      BY <2>13
    <2>15. unescape(u) = FlattenSeq(r)
      BY <1>14, <2>1, <2>8
    <2> QED BY <2>3, <2>7, <2>14, <2>15
  <1>18. ASSUME c # "&", Written(c) = <<c>>
         PROVE  Complete(u) /\ unescape(u) = Append(unescape(t), c)
    <2>1. w = 1 /\ u[x + 1] = c /\ Len(u) = x + 1
      <3>1. w = 1
        BY <1>5, <1>18
      <3>2. 1 \in 1 .. w
        BY <3>1
      <3> HIDE DEF u
      <3> QED BY <1>6, <1>18, <3>1, <3>2
    <2> HIDE DEF u
    <2>2. Complete(u)
      BY <1>18, <2>1 DEF Complete
    <2>3. ~BeginsEntity(u, x + 1)
      BY <1>18, <2>1 DEF BeginsEntity
    <2>4. ReadAt(u, x + 1) = <<c>>
      <3>1. (x + 1) - 1 = x /\ (x + 1 > 1 => x >= 1)
        OBVIOUS
      <3> HIDE DEF BeginsEntity
      <3> QED BY <1>8, <2>1, <2>3, <3>1
    <2> HIDE DEF ReadAt
    <2>5. unescape(u) = FlattenSeq(q)
      BY <1>14, <1>15, <2>1
    <2> QED BY <1>16, <2>2, <2>4, <2>5
  <1> HIDE DEF u, parts, ReadAt
  <1>19. Complete(u) /\ unescape(u) = Append(unescape(t), c)
    BY <1>17, <1>18, WrittenIsText
  <1> QED BY <1>12, <1>19 DEF u

(* What the storage escapes is unescaped to what it was. *)
LEMMA EscapeIsUndone ==
    ASSUME NEW text \in Seq(Symbols)
    PROVE  unescape(Escape(text)) = text /\ Escape(text) \in Seq(Symbols)
  <1> DEFINE P(t) == Complete(Escape(t)) /\ unescape(Escape(t)) = t
             S == {t \in Seq(Symbols) : P(t)}
  <1>0. "&" \in Symbols
    BY DEF Symbols
  <1>1. << >> \in S
    <2>1. Escape(<< >>) = << >>
      BY <1>0, EscapeOfAppend, EmptySeq
    <2> QED BY <2>1, ShortTextIsVerbatim DEF Complete
  <1>2. ASSUME NEW t \in Seq(Symbols), NEW c \in Symbols, t \in S PROVE Append(t, c) \in S
    <2>1. PICK e : e = Escape(t)
      OBVIOUS
    <2>2. e \in Seq(Symbols) /\ Escape(Append(t, c)) = e \o Written(c) /\ Complete(e) /\ unescape(e) = t
      BY <1>2, <2>1, EscapeOfAppend
    <2>3. Complete(e \o Written(c)) /\ unescape(e \o Written(c)) = Append(t, c)
      BY <2>2, UnescapeOfWritten
    <2>4. Append(t, c) \in Seq(Symbols)
      OBVIOUS
    <2>5. PICK a : a = Append(t, c)
      OBVIOUS
    <2>6. a \in Seq(Symbols) /\ Complete(Escape(a)) /\ unescape(Escape(a)) = a
      BY <2>2, <2>3, <2>4, <2>5
    <2>7. a \in S
      BY <2>6
    <2> QED BY <2>5, <2>7
  <1> HIDE DEF S
  <1>3. text \in S
    BY <1>1, <1>2, SeqInduction
  <1> QED BY <1>0, <1>3, EscapeOfAppend DEF S

-----------------------------------------------------------------------------
(* A part that is a node of that name *)
IsNode(d, n) == d \in AllParts /\ d # << >> /\ d[1].name = n

(* A node of parts is a part. *)
LEMMA NodeOfIsNode ==
    ASSUME NEW n \in Names, NEW inner, Block(inner)
    PROVE  IsNode(Node(n, inner), n)
  <1>1. inner \in Seq(WholeTokens)
    BY DEF Block
  <1>2. PICK d : d = Node(n, inner)
    OBVIOUS
  <1>3. d \in Seq(WholeTokens) /\ Len(d) = Len(inner) + 2 /\ d[1] = Open(n) /\ Elem(d)
    BY <1>1, <1>2, NodeTokens, NodeIsElem
  <1>4. d # << >> /\ d[1].name = n
    BY <1>1, <1>3 DEF Open
  <1> QED BY <1>2, <1>3, <1>4 DEF IsNode, AllParts, Part

(* The parts of which the storage builds a page: a node of parts, ... *)
LEMMA ComposedIsNode ==
    ASSUME NEW n \in Names, NEW parts \in Seq(AllParts)
    PROVE  IsNode(NodeOf(n, parts), n)
  <1>1. Block(FlattenSeq(parts))
    BY PartsAreLaid DEF Laid
  <1> QED BY <1>1, NodeOfIsNode DEF NodeOf

(* ... a node that closes itself, or none, ... *)
LEMMA EmptyIsNode ==
    ASSUME NEW n \in Names
    PROVE  IsNode(<<Empty(n)>>, n) /\ << >> \in AllParts
  <1>1. Empty(n) \in WholeTokens
    <2>1. << >> \in Seq(Symbols)
      OBVIOUS
    <2> QED BY <2>1 DEF Empty, WholeTokens
  <1>2. PICK d : d = <<Empty(n)>>
    OBVIOUS
  <1>3. d \in Seq(WholeTokens) /\ Len(d) = 1 /\ d[1] = Empty(n) /\ d # << >>
    BY <1>1, <1>2
  <1>4. Level(d, 1 + 1) = 0
    <2>1. Level(d, 1) = 0 /\ Level(d, 1 + 1) = Level(d, 1) + Rise(d[1])
      <3>1. 1 \in Nat \ {0}
        OBVIOUS
      <3> QED BY <3>1, LevelSteps
    <2>2. Rise(d[1]) = 0
      BY <1>3 DEF Rise, Empty
    <2> QED BY <2>1, <2>2
  <1>5. Elem(d)
    <2>1. d[1].tag = "empty"
      BY <1>3 DEF Empty
    <2>2. 2 .. 1 = {}
      OBVIOUS
    <2> QED BY <1>3, <1>4, <2>1, <2>2 DEF Elem
  <1>6. d[1].name = n
    BY <1>3 DEF Empty
  <1>7. << >> \in AllParts
    BY DEF AllParts, Part
  <1> QED BY <1>2, <1>3, <1>5, <1>6, <1>7 DEF IsNode, AllParts, Part

(* The token of a text *)
LEMMA TextToken ==
    ASSUME NEW t
    PROVE  Text(t).tag = "text" /\ Text(t).text = t
  <1>1. \A a, b, c : /\ [tag |-> a, name |-> b, text |-> c].tag = a
                     /\ [tag |-> a, name |-> b, text |-> c].text = c
    OBVIOUS
  <1> QED BY <1>1, Zenon DEF Text

(* ... and a node with a text. *)
LEMMA LeafIsNode ==
    ASSUME NEW n \in Names, NEW t \in Seq(Symbols)
    PROVE  /\ IsNode(Leaf(n, t), n)
           /\ Len(Leaf(n, t)) >= 2
           /\ Leaf(n, t)[1] = Open(n)
           /\ Leaf(n, t)[2] = IF t = << >> THEN Close(n) ELSE Text(t)
  <1>1. Block(<< >>) /\ << >> \in Seq(WholeTokens)
    BY PartIsBlock DEF Part
  <1>2. Block(<<Text(t)>>) /\ <<Text(t)>> \in Seq(WholeTokens)
    <2>1. Text(t) \in WholeTokens
      BY DEF Text, WholeTokens, Names
    <2>2. PICK d : d = <<Text(t)>>
      OBVIOUS
    <2>3. d \in Seq(WholeTokens) /\ Len(d) = 1 /\ d[1] = Text(t)
      BY <2>1, <2>2
    <2>4. Level(d, 1) = 0 /\ Level(d, 2) = 0
      <3>1. Level(d, 1) = 0 /\ Level(d, 1 + 1) = Level(d, 1) + Rise(d[1])
        <4>1. 1 \in Nat \ {0}
          OBVIOUS
        <4> QED BY <4>1, LevelSteps
      <3>2. Rise(d[1]) = 0
        BY <2>3, TextToken DEF Rise
      <3> QED BY <3>1, <3>2
    <2>5. \A i \in 1 .. Len(d) + 1 : i = 1 \/ i = 2
      BY <2>3
    <2>6. Block(d)
      BY <2>3, <2>4, <2>5 DEF Block
    <2> QED BY <2>2, <2>3, <2>6
  <1>3. PICK inner : inner = IF t = << >> THEN << >> ELSE <<Text(t)>>
    OBVIOUS
  <1>4. Leaf(n, t) = Node(n, inner)
    BY <1>3 DEF Leaf
  <1>5. Block(inner) /\ inner \in Seq(WholeTokens)
    BY <1>1, <1>2, <1>3
  <1>6. PICK d : d = Node(n, inner)
    OBVIOUS
  <1>7. /\ IsNode(d, n) /\ Len(d) = Len(inner) + 2 /\ d[1] = Open(n)
        /\ d[Len(inner) + 2] = Close(n) /\ Has(d, 1, inner)
    BY <1>5, <1>6, NodeOfIsNode, NodeTokens
  <1>8. Len(d) >= 2
    BY <1>5, <1>7
  <1>9. CASE t = << >>
    <2>1. Len(inner) = 0
      BY <1>3, <1>9
    <2> QED BY <1>4, <1>6, <1>7, <1>8, <1>9, <2>1
  <1>10. CASE t # << >>
    <2>1. Len(inner) = 1 /\ inner[1] = Text(t)
      BY <1>3, <1>10
    <2>2. d[1 + 1] = inner[1]
      <3>1. 1 \in 1 .. 1
        OBVIOUS
      <3> QED BY <1>7, <2>1, <3>1 DEF Has
    <2> QED BY <1>4, <1>6, <1>7, <1>8, <1>10, <2>1, <2>2
  <1> QED BY <1>9, <1>10

(* The text of a node is read as it was before it was escaped. *)
LEMMA LeafIsRead ==
    ASSUME NEW doc \in Seq(WholeTokens), NEW z, NEW n \in Names, NEW t \in Seq(Symbols),
           Has(doc, z, Leaf(n, t))
    PROVE  read_text(doc, z + 1) = unescape(t)
  <1>1. PICK d : d = Leaf(n, t)
    OBVIOUS
  <1>2. PICK x \in Nat, w \in Nat : x = Len(d) /\ w = Len(doc)
    BY <1>1, LeafIsNode DEF IsNode, AllParts
  <1>3. x >= 2 /\ d[1] = Open(n) /\ d[2] = IF t = << >> THEN Close(n) ELSE Text(t)
    BY <1>1, <1>2, LeafIsNode
  <1>4. z \in Nat /\ z + x <= w /\ \A k \in 1 .. x : doc[z + k] = d[k]
    BY <1>1, <1>2 DEF Has
  <1>5. 1 \in 1 .. x /\ 2 \in 1 .. x /\ (z + 1) + 1 = z + 2 /\ z + 1 < w
    BY <1>3, <1>4
  <1>6. doc[z + 1] = Open(n) /\ doc[(z + 1) + 1] = IF t = << >> THEN Close(n) ELSE Text(t)
    BY <1>3, <1>4, <1>5
  <1>7. doc[z + 1].tag # "empty"
    BY <1>6 DEF Open
  <1>8. TextBehind(doc, z + 1) = t
    <2>1. CASE t = << >>
      BY <1>2, <1>5, <1>6, <2>1 DEF TextBehind, Close
    <2>2. CASE t # << >>
      BY <1>2, <1>5, <1>6, <2>2, TextToken DEF TextBehind
    <2> QED BY <2>1, <2>2
  <1> QED BY <1>7, <1>8 DEF read_text

(* A node that closes itself has no text. *)
LEMMA EmptyIsRead ==
    ASSUME NEW doc, NEW z, NEW n, Has(doc, z, <<Empty(n)>>)
    PROVE  read_text(doc, z + 1) = << >>
  <1>1. PICK d : d = <<Empty(n)>>
    OBVIOUS
  <1>2. Len(d) = 1 /\ d[1] = Empty(n)
    BY <1>1
  <1>3. doc[z + 1] = d[1]
    <2>1. 1 \in 1 .. 1
      OBVIOUS
    <2> QED BY <1>1, <1>2, <2>1 DEF Has
  <1> QED BY <1>2, <1>3 DEF read_text, Empty

(* Nothing and one position, in order *)
LEMMA AscendingOfOne ==
    /\ Ascending({}) = << >>
    /\ \A i \in Nat : Ascending({i}) = <<i>>
  <1>1. Enumerates(<< >>, 0, {})
    BY DEF Enumerates
  <1>2. Ascending({}) = << >>
    BY <1>1, AscendingIsTheEnumeration
  <1>3. ASSUME NEW i \in Nat PROVE Ascending({i}) = <<i>>
    <2>1. Enumerates(<<i>>, 1, {i})
      BY DEF Enumerates
    <2>2. {i} \in SUBSET Nat
      OBVIOUS
    <2> QED BY <2>1, <2>2, AscendingIsTheEnumeration
  <1> QED BY <1>2, <1>3

(* A field that is written in one place at most is read from there. *)
LEMMA FieldIsRead ==
    ASSUME NEW doc, NEW z, NEW parts, parts \in Seq(AllParts), NEW at, Holds(doc, z, parts, at),
           NEW name, NEW i, i \in DOMAIN parts,
           \A k \in DOMAIN parts : k # i => parts[k] = << >> \/ parts[k][1].name # name,
           parts[i] = << >> \/ IsNode(parts[i], name)
    PROVE  /\ parts[i] = << >> => /\ next_child_of(doc, z + 1, {name}) = << >>
                                  /\ LastOf(doc, z + 1, name) = None
           /\ parts[i] # << >> => /\ next_child_of(doc, z + 1, {name}) = <<at[i] + 1>>
                                  /\ LastOf(doc, z + 1, name) = read_text(doc, at[i] + 1)
           /\ Has(doc, at[i], parts[i])
  <1>1. i \in Nat /\ at[i] \in Nat /\ Has(doc, at[i], parts[i])
    BY DEF Holds
  <1>2. PICK c : c = next_child_of(doc, z + 1, {name})
    OBVIOUS
  <1>3. PICK H : H = Heads(parts, {name})
    OBVIOUS
  <1>4. c = [k \in DOMAIN Ascending(H) |-> at[Ascending(H)[k]] + 1]
    BY <1>2, <1>3, ZenonT(60) DEF Holds
  <1>5. ASSUME parts[i] = << >> PROVE c = << >>
    <2>1. H = {}
      BY <1>3, <1>5 DEF Heads
    <2>2. Ascending(H) = << >>
      BY <2>1, AscendingOfOne
    <2> QED BY <1>4, <2>2
  <1>6. ASSUME parts[i] # << >> PROVE c = <<at[i] + 1>>
    <2>1. parts[i][1].name = name
      BY <1>6 DEF IsNode
    <2>2. H = {i}
      BY <1>3, <1>6, <2>1 DEF Heads
    <2>3. Ascending(H) = <<i>>
      BY <1>1, <2>2, AscendingOfOne
    <2>4. DOMAIN <<i>> = 1 .. 1 /\ <<i>>[1] = i
      OBVIOUS
    <2>5. c = [k \in 1 .. 1 |-> at[i] + 1]
      BY <1>4, <2>3, <2>4
    <2> QED BY <2>5
  <1>7. ASSUME c = << >> PROVE LastOf(doc, z + 1, name) = None
    BY <1>2, <1>7 DEF LastOf
  <1>8. ASSUME c = <<at[i] + 1>> PROVE LastOf(doc, z + 1, name) = read_text(doc, at[i] + 1)
    <2>1. c # << >> /\ Last(c) = at[i] + 1
      BY <1>8 DEF Last
    <2> QED BY <1>2, <2>1 DEF LastOf
  <1> QED BY <1>1, <1>2, <1>5, <1>6, <1>7, <1>8

(* A node of that name, or nothing *)
Maybe(d, n) == d = << >> \/ IsNode(d, n)

(* The parts have the field in one place, and it is written as v there. *)
Writes(parts, name, v) ==
    \E i \in DOMAIN parts :
        /\ parts[i] = v
        /\ \A k \in DOMAIN parts : k # i => parts[k] = << >> \/ parts[k][1].name # name

(* The parts of an object in the layouts of the storages *)
LEMMA LayoutWrites ==
    ASSUME NEW key, Maybe(key, "Key"), NEW size, Maybe(size, "Size"),
           NEW date, IsNode(date, "LastModified"), NEW etag, Maybe(etag, "ETag"),
           NEW owner, IsNode(owner, "Owner"),
           NEW parts, parts \in {<<key, date, etag, size, owner>>, <<key, owner, size, date>>,
                                 <<owner, size, date, key>>}
    PROVE  /\ parts \in Seq(AllParts)
           /\ Writes(parts, "Key", key) /\ Writes(parts, "Size", size)
           /\ Writes(parts, "LastModified", date)
  <1>1. /\ key \in AllParts /\ size \in AllParts /\ date \in AllParts
        /\ etag \in AllParts /\ owner \in AllParts
    <2>1. << >> \in AllParts
      BY DEF AllParts, Part
    <2> QED BY <2>1 DEF Maybe, IsNode
  <1>2. /\ key = << >> \/ key[1].name = "Key"
        /\ size = << >> \/ size[1].name = "Size"
        /\ date[1].name = "LastModified"
        /\ etag = << >> \/ etag[1].name = "ETag"
        /\ owner[1].name = "Owner"
    BY DEF Maybe, IsNode
  <1>3. CASE parts = <<key, date, etag, size, owner>>
    <2>1. parts \in Seq(AllParts)
      BY <1>1, <1>3
    <2>2. /\ DOMAIN parts = 1 .. 5
          /\ parts[1] = key /\ parts[2] = date /\ parts[3] = etag /\ parts[4] = size /\ parts[5] = owner
      BY <1>3
    <2>3. \A k \in 1 .. 5 : k = 1 \/ k = 2 \/ k = 3 \/ k = 4 \/ k = 5
      OBVIOUS
    <2>4. 1 \in 1 .. 5 /\ 2 \in 1 .. 5 /\ 4 \in 1 .. 5
      OBVIOUS
    <2>5. Writes(parts, "Key", key)
      BY <1>2, <2>2, <2>3, <2>4 DEF Writes
    <2>6. Writes(parts, "LastModified", date)
      BY <1>2, <2>2, <2>3, <2>4 DEF Writes
    <2>7. Writes(parts, "Size", size)
      BY <1>2, <2>2, <2>3, <2>4 DEF Writes
    <2> QED BY <2>1, <2>5, <2>6, <2>7
  <1>4. CASE parts = <<key, owner, size, date>>
    <2>1. parts \in Seq(AllParts)
      BY <1>1, <1>4
    <2>2. /\ DOMAIN parts = 1 .. 4
          /\ parts[1] = key /\ parts[2] = owner /\ parts[3] = size /\ parts[4] = date
      BY <1>4
    <2>3. \A k \in 1 .. 4 : k = 1 \/ k = 2 \/ k = 3 \/ k = 4
      OBVIOUS
    <2>4. 1 \in 1 .. 4 /\ 3 \in 1 .. 4 /\ 4 \in 1 .. 4
      OBVIOUS
    <2>5. Writes(parts, "Key", key)
      BY <1>2, <2>2, <2>3, <2>4 DEF Writes
    <2>6. Writes(parts, "LastModified", date)
      BY <1>2, <2>2, <2>3, <2>4 DEF Writes
    <2>7. Writes(parts, "Size", size)
      BY <1>2, <2>2, <2>3, <2>4 DEF Writes
    <2> QED BY <2>1, <2>5, <2>6, <2>7
  <1>5. CASE parts = <<owner, size, date, key>>
    <2>1. parts \in Seq(AllParts)
      BY <1>1, <1>5
    <2>2. /\ DOMAIN parts = 1 .. 4
          /\ parts[1] = owner /\ parts[2] = size /\ parts[3] = date /\ parts[4] = key
      BY <1>5
    <2>3. \A k \in 1 .. 4 : k = 1 \/ k = 2 \/ k = 3 \/ k = 4
      OBVIOUS
    <2>4. 2 \in 1 .. 4 /\ 3 \in 1 .. 4 /\ 4 \in 1 .. 4
      OBVIOUS
    <2>5. Writes(parts, "Key", key)
      BY <1>2, <2>2, <2>3, <2>4 DEF Writes
    <2>6. Writes(parts, "LastModified", date)
      BY <1>2, <2>2, <2>3, <2>4 DEF Writes
    <2>7. Writes(parts, "Size", size)
      BY <1>2, <2>2, <2>3, <2>4 DEF Writes
    <2> QED BY <2>1, <2>5, <2>6, <2>7
  <1> QED BY <1>3, <1>4, <1>5

(* A field that is written is read as it was written, or as nothing. *)
LEMMA WrittenIsRead ==
    ASSUME NEW doc, doc \in Seq(WholeTokens), NEW z, NEW parts, parts \in Seq(AllParts), NEW at,
           Holds(doc, z, parts, at), NEW name, name \in Names, NEW v, Writes(parts, name, v), Maybe(v, name)
    PROVE  /\ v = << >> => /\ LastOf(doc, z + 1, name) = None
                           /\ next_child_of(doc, z + 1, {name}) = << >>
           /\ \A t \in Seq(Symbols) : v = Leaf(name, t) => LastOf(doc, z + 1, name) = unescape(t)
           /\ v # << >> => \E p : /\ next_child_of(doc, z + 1, {name}) = <<p + 1>>
                                  /\ Has(doc, p, v)
  <1>1. PICK i \in DOMAIN parts :
           /\ parts[i] = v
           /\ \A k \in DOMAIN parts : k # i => parts[k] = << >> \/ parts[k][1].name # name
    BY DEF Writes
  <1>2. parts[i] = << >> \/ IsNode(parts[i], name)
    BY <1>1 DEF Maybe
  <1>3. /\ parts[i] = << >> => /\ next_child_of(doc, z + 1, {name}) = << >>
                               /\ LastOf(doc, z + 1, name) = None
        /\ parts[i] # << >> => /\ next_child_of(doc, z + 1, {name}) = <<at[i] + 1>>
                               /\ LastOf(doc, z + 1, name) = read_text(doc, at[i] + 1)
        /\ Has(doc, at[i], parts[i])
    BY <1>1, <1>2, FieldIsRead
  <1>4. ASSUME NEW t \in Seq(Symbols), v = Leaf(name, t) PROVE LastOf(doc, z + 1, name) = unescape(t)
    <2>1. v # << >>
      BY <1>4, LeafIsNode DEF IsNode
    <2>2. Has(doc, at[i], Leaf(name, t))
      BY <1>1, <1>3, <1>4
    <2>3. read_text(doc, at[i] + 1) = unescape(t)
      BY <2>2, LeafIsRead
    <2> QED BY <1>1, <1>3, <2>1, <2>3
  <1> QED BY <1>1, <1>3, <1>4

(* The keys and the sizes are made of symbols. *)
LEMMA ConstantsAreTexts == Sizes \in Seq(Symbols) /\ KeyOrder \in Seq(Seq(Symbols) \ {<< >>})
  <1>1. PICK T : T = STRING
    BY Zenon
  <1>2. T \subseteq Symbols
    BY <1>1, Zenon DEF Symbols
  <1>3. Sizes \in Seq(T) /\ KeyOrder \in Seq(Seq(T) \ {<< >>})
    BY <1>1, SizesAssumption, KeyOrderAssumption, Zenon
  <1>4. Seq(T) \subseteq Seq(Symbols)
    BY <1>2, SeqMonotonic
  <1>5. Seq(T) \ {<< >>} \subseteq Seq(Symbols) \ {<< >>}
    BY <1>4
  <1>6. Seq(Seq(T) \ {<< >>}) \subseteq Seq(Seq(Symbols) \ {<< >>})
    BY <1>5, SeqMonotonic
  <1> QED BY <1>3, <1>4, <1>6

(* The owner of an object, with a key of its own *)
LEMMA OwnerIsNode == IsNode(Owner, "Owner")
  <1>1. "Owner" \in Names /\ "Key" \in Names /\ "DisplayName" \in Names /\ "owner" \in Symbols
    BY DEF Names, Symbols
  <1>2. PICK a, b : a = Leaf("Key", <<"owner">>) /\ b = <<Empty("DisplayName")>>
    OBVIOUS
  <1>3. <<"owner">> \in Seq(Symbols)
    BY <1>1
  <1>4. a \in AllParts /\ b \in AllParts
    BY <1>1, <1>2, <1>3, LeafIsNode, EmptyIsNode DEF IsNode
  <1>5. <<a, b>> \in Seq(AllParts)
    BY <1>4
  <1> QED BY <1>1, <1>2, <1>5, ComposedIsNode DEF Owner

(* The parts of an object *)
KeyPart(entry, fault) == IF fault = "no_key" THEN << >> ELSE Leaf("Key", Escape(entry))
SizePart(entry, fault) ==
    CASE fault = "no_size" -> << >>
      [] fault = "bad_size" -> Leaf("Size", <<"many">>)
      [] OTHER -> Leaf("Size", <<Sizes[IndexOf(entry)]>>)
DatePart == Leaf("LastModified", <<"then">>)
ETagPart == IF style = "aws" THEN Leaf("ETag", <<"&", "quot;">>) ELSE << >>
ObjectParts(entry, fault) ==
    CASE style = "aws" ->
            <<KeyPart(entry, fault), DatePart, ETagPart, SizePart(entry, fault), Owner>>
      [] style = "ceph" -> <<KeyPart(entry, fault), Owner, SizePart(entry, fault), DatePart>>
      [] OTHER -> <<Owner, SizePart(entry, fault), DatePart, KeyPart(entry, fault)>>

(* The entry is that of a key, with a size. *)
IsEntry(entry) == entry \in Seq(Symbols) /\ (~IsFolder(entry) => IndexOf(entry) \in DOMAIN Sizes)

(* An object is written as a node of those parts. *)
LEMMA ObjectIsWritten ==
    ASSUME NEW entry, IsEntry(entry), ~IsFolder(entry), NEW fault
    PROVE  /\ EntryNode(entry, fault) = NodeOf("Contents", ObjectParts(entry, fault))
           /\ ObjectParts(entry, fault) \in Seq(AllParts)
           /\ Writes(ObjectParts(entry, fault), "Key", KeyPart(entry, fault))
           /\ Writes(ObjectParts(entry, fault), "Size", SizePart(entry, fault))
           /\ Writes(ObjectParts(entry, fault), "LastModified", DatePart)
           /\ Maybe(KeyPart(entry, fault), "Key") /\ Maybe(SizePart(entry, fault), "Size")
           /\ IsNode(DatePart, "LastModified")
  <1>1. EntryNode(entry, fault) = NodeOf("Contents", ObjectParts(entry, fault))
    BY Zenon DEF EntryNode, ObjectParts, KeyPart, SizePart, DatePart, ETagPart
  <1>2. "Key" \in Names /\ "Size" \in Names /\ "LastModified" \in Names /\ "ETag" \in Names
    BY DEF Names
  <1>3. Maybe(KeyPart(entry, fault), "Key")
    <2>1. Escape(entry) \in Seq(Symbols)
      BY EscapeIsUndone DEF IsEntry
    <2>2. IsNode(Leaf("Key", Escape(entry)), "Key")
      BY <1>2, <2>1, LeafIsNode
    <2> QED BY <2>2 DEF KeyPart, Maybe
  <1>4. Maybe(SizePart(entry, fault), "Size")
    <2>1. "many" \in Symbols /\ Sizes[IndexOf(entry)] \in Symbols
      <3>1. "many" \in Symbols
        BY DEF Symbols
      <3> QED BY <3>1, ConstantsAreTexts DEF IsEntry
    <2>2. <<"many">> \in Seq(Symbols) /\ <<Sizes[IndexOf(entry)]>> \in Seq(Symbols)
      BY <2>1
    <2>3. IsNode(Leaf("Size", <<"many">>), "Size") /\ IsNode(Leaf("Size", <<Sizes[IndexOf(entry)]>>), "Size")
      BY <1>2, <2>2, LeafIsNode
    <2>4. \/ SizePart(entry, fault) = << >> \/ SizePart(entry, fault) = Leaf("Size", <<"many">>)
          \/ SizePart(entry, fault) = Leaf("Size", <<Sizes[IndexOf(entry)]>>)
      BY DEF SizePart
    <2> QED BY <2>3, <2>4 DEF Maybe
  <1>5. IsNode(DatePart, "LastModified")
    <2>1. <<"then">> \in Seq(Symbols)
      <3>1. "then" \in Symbols
        BY DEF Symbols
      <3> QED BY <3>1
    <2> QED BY <1>2, <2>1, LeafIsNode DEF DatePart
  <1>6. Maybe(ETagPart, "ETag")
    <2>1. \A a, b \in Symbols : <<a, b>> \in Seq(Symbols)
      OBVIOUS
    <2>2. "&" \in Symbols /\ "quot;" \in Symbols
      BY DEF Symbols
    <2>3. <<"&", "quot;">> \in Seq(Symbols)
      BY <2>1, <2>2, Zenon
    <2>4. PICK t \in Seq(Symbols) : t = <<"&", "quot;">>
      BY <2>3, Zenon
    <2>5. ETagPart = << >> \/ ETagPart = Leaf("ETag", t)
      BY <2>4, Zenon DEF ETagPart
    <2>6. IsNode(Leaf("ETag", t), "ETag")
      BY <1>2, LeafIsNode
    <2> QED BY <2>5, <2>6 DEF Maybe
  <1>7. PICK k, s, d, e, o : /\ k = KeyPart(entry, fault) /\ s = SizePart(entry, fault)
                             /\ d = DatePart /\ e = ETagPart /\ o = Owner
    OBVIOUS
  <1>8. PICK p : p = ObjectParts(entry, fault)
    OBVIOUS
  <1>9. p \in {<<k, d, e, s, o>>, <<k, o, s, d>>, <<o, s, d, k>>}
    BY <1>7, <1>8 DEF ObjectParts
  <1>10. Maybe(k, "Key") /\ Maybe(s, "Size") /\ IsNode(d, "LastModified") /\ Maybe(e, "ETag") /\ IsNode(o, "Owner")
    BY <1>3, <1>4, <1>5, <1>6, <1>7, OwnerIsNode
  <1>11. p \in Seq(AllParts) /\ Writes(p, "Key", k) /\ Writes(p, "Size", s) /\ Writes(p, "LastModified", d)
    BY <1>9, <1>10, LayoutWrites
  <1> QED BY <1>1, <1>3, <1>4, <1>5, <1>7, <1>8, <1>11

(* What keeps a page, or an entry of it, from being read *)
Broken == {"no_key", "no_size", "bad_size", "no_prefix", "no_token", "empty_token", "html"}

(* An object is read as it is, or refused, which it is not without a fault. *)
LEMMA ObjectIsRead ==
    ASSUME NEW doc, doc \in Seq(WholeTokens), NEW z, NEW entry, IsEntry(entry), ~IsFolder(entry),
           NEW fault, Has(doc, z, EntryNode(entry, fault))
    PROVE  /\ \/ read_object(doc, z + 1).key = None
              \/ read_object(doc, z + 1) = [key |-> entry, size |-> Sizes[IndexOf(entry)]]
           /\ fault \notin Broken /\ entry # None => read_object(doc, z + 1).key # None
  <1>1. PICK p : p = ObjectParts(entry, fault)
    OBVIOUS
  <1>2. /\ Has(doc, z, NodeOf("Contents", p)) /\ p \in Seq(AllParts)
        /\ Writes(p, "Key", KeyPart(entry, fault)) /\ Maybe(KeyPart(entry, fault), "Key")
        /\ Writes(p, "Size", SizePart(entry, fault)) /\ Maybe(SizePart(entry, fault), "Size")
    BY <1>1, ObjectIsWritten
  <1>3. "Key" \in Names /\ "Size" \in Names /\ "Contents" \in Names
    BY DEF Names
  <1>4. PICK at : Holds(doc, z, p, at)
    BY <1>2, <1>3, ChildrenOfNode
  <1>5. LastOf(doc, z + 1, "Key") = None \/ LastOf(doc, z + 1, "Key") = entry
    <2>1. Escape(entry) \in Seq(Symbols) /\ unescape(Escape(entry)) = entry
      BY EscapeIsUndone DEF IsEntry
    <2>2. KeyPart(entry, fault) = << >> \/ KeyPart(entry, fault) = Leaf("Key", Escape(entry))
      BY DEF KeyPart
    <2>3. PICK v : v = KeyPart(entry, fault)
      OBVIOUS
    <2>4. /\ v = << >> => LastOf(doc, z + 1, "Key") = None
          /\ \A t \in Seq(Symbols) : v = Leaf("Key", t) => LastOf(doc, z + 1, "Key") = unescape(t)
      BY <1>2, <1>3, <1>4, <2>3, WrittenIsRead
    <2> QED BY <2>1, <2>2, <2>3, <2>4
  <1>6. \/ LastOf(doc, z + 1, "Size") = None \/ LastOf(doc, z + 1, "Size") = <<"many">>
        \/ LastOf(doc, z + 1, "Size") = <<Sizes[IndexOf(entry)]>>
    <2>1. "many" \in Symbols /\ Sizes[IndexOf(entry)] \in Symbols
      <3>1. "many" \in Symbols
        BY DEF Symbols
      <3> QED BY <3>1, ConstantsAreTexts DEF IsEntry
    <2>2. /\ <<"many">> \in Seq(Symbols) /\ unescape(<<"many">>) = <<"many">>
          /\ <<Sizes[IndexOf(entry)]>> \in Seq(Symbols)
          /\ unescape(<<Sizes[IndexOf(entry)]>>) = <<Sizes[IndexOf(entry)]>>
      BY <2>1, ShortTextIsVerbatim
    <2>3. PICK v : v = SizePart(entry, fault)
      OBVIOUS
    <2>4. v = << >> \/ v = Leaf("Size", <<"many">>) \/ v = Leaf("Size", <<Sizes[IndexOf(entry)]>>)
      BY <2>3 DEF SizePart
    <2>5. /\ v = << >> => LastOf(doc, z + 1, "Size") = None
          /\ \A t \in Seq(Symbols) : v = Leaf("Size", t) => LastOf(doc, z + 1, "Size") = unescape(t)
      BY <1>2, <1>3, <1>4, <2>3, WrittenIsRead
    <2> QED BY <2>2, <2>4, <2>5
  <1>7. ~IsByteCount(None) /\ ~IsByteCount(<<"many">>)
    <2>1. \A i \in DOMAIN Sizes : Sizes[i] # "many" /\ Sizes[i] # "None"
      BY SizesAssumption
    <2>2. None[1] = "None" /\ <<"many">>[1] = "many"
      BY DEF None
    <2> QED BY <2>1, <2>2 DEF IsByteCount, Range
  <1>8. CASE /\ LastOf(doc, z + 1, "Key") # None
             /\ LastOf(doc, z + 1, "LastModified") # None
             /\ IsByteCount(LastOf(doc, z + 1, "Size"))
    <2>1. read_object(doc, z + 1) = [key |-> LastOf(doc, z + 1, "Key"), size |-> LastOf(doc, z + 1, "Size")[1]]
      BY <1>8 DEF read_object
    <2>2. LastOf(doc, z + 1, "Size") = <<Sizes[IndexOf(entry)]>>
      BY <1>6, <1>7, <1>8
    <2>3. LastOf(doc, z + 1, "Size")[1] = Sizes[IndexOf(entry)]
      BY <2>2
    <2> QED BY <1>5, <1>8, <2>1, <2>3
  <1>9. ASSUME ~( /\ LastOf(doc, z + 1, "Key") # None
                  /\ LastOf(doc, z + 1, "LastModified") # None
                  /\ IsByteCount(LastOf(doc, z + 1, "Size")) )
        PROVE  read_object(doc, z + 1).key = None
    <2>1. read_object(doc, z + 1) = [key |-> None, size |-> "none"]
      BY <1>9 DEF read_object
    <2> QED BY <2>1
  <1>10. ASSUME fault \notin Broken, entry # None PROVE read_object(doc, z + 1).key # None
    <2>1. PICK s : s = Sizes[IndexOf(entry)]
      OBVIOUS
    <2>2. /\ KeyPart(entry, fault) = Leaf("Key", Escape(entry))
          /\ SizePart(entry, fault) = Leaf("Size", <<s>>)
      BY <1>10, <2>1 DEF Broken, KeyPart, SizePart
    <2>3. LastOf(doc, z + 1, "Key") = entry
      <3>1. PICK t \in Seq(Symbols) : t = Escape(entry) /\ unescape(t) = entry
        BY EscapeIsUndone DEF IsEntry
      <3>2. Writes(p, "Key", Leaf("Key", t)) /\ Maybe(Leaf("Key", t), "Key")
        BY <1>2, <2>2, <3>1
      <3>3. LastOf(doc, z + 1, "Key") = unescape(t)
        BY <1>2, <1>3, <1>4, <3>2, WrittenIsRead
      <3> QED BY <3>1, <3>3
    <2>4. LastOf(doc, z + 1, "Size") = <<s>> /\ IsByteCount(<<s>>)
      <3>1. s \in Symbols /\ s \in Range(Sizes)
        BY <2>1, ConstantsAreTexts DEF IsEntry, Range
      <3>2. PICK t \in Seq(Symbols) : t = <<s>> /\ unescape(t) = <<s>> /\ Len(t) = 1 /\ t[1] = s
        <4>1. <<s>> \in Seq(Symbols) /\ Len(<<s>>) = 1 /\ <<s>>[1] = s
          BY <3>1
        <4> QED BY <4>1, ShortTextIsVerbatim
      <3>3. Writes(p, "Size", Leaf("Size", t)) /\ Maybe(Leaf("Size", t), "Size")
        BY <1>2, <2>2, <3>2
      <3>4. LastOf(doc, z + 1, "Size") = unescape(t)
        BY <1>2, <1>3, <1>4, <3>3, WrittenIsRead
      <3> QED BY <3>1, <3>2, <3>4 DEF IsByteCount
    <2>5. LastOf(doc, z + 1, "LastModified") # None
      <3>1. "then" \in Symbols /\ "LastModified" \in Names
        BY DEF Symbols, Names
      <3>2. PICK t \in Seq(Symbols) : t = <<"then">> /\ unescape(t) = <<"then">>
        <4>1. <<"then">> \in Seq(Symbols)
          BY <3>1
        <4> QED BY <4>1, ShortTextIsVerbatim
      <3>3. Writes(p, "LastModified", Leaf("LastModified", t)) /\ Maybe(Leaf("LastModified", t), "LastModified")
        <4>1. DatePart = Leaf("LastModified", t)
          BY <3>2 DEF DatePart
        <4> QED BY <1>1, <4>1, ObjectIsWritten DEF Maybe
      <3>4. LastOf(doc, z + 1, "LastModified") = unescape(t)
        BY <1>2, <1>4, <3>1, <3>3, WrittenIsRead
      <3>5. <<"then">> # None
        BY DEF None
      <3> QED BY <3>2, <3>4, <3>5
    <2>6. read_object(doc, z + 1) = [key |-> LastOf(doc, z + 1, "Key"), size |-> LastOf(doc, z + 1, "Size")[1]]
      BY <1>10, <2>3, <2>4, <2>5 DEF read_object
    <2> QED BY <1>10, <2>3, <2>6
  <1> QED BY <1>8, <1>9, <1>10

PrefixPart(entry, fault) == IF fault = "no_prefix" THEN << >> ELSE Leaf("Prefix", Escape(entry))

(* A folder is written as a node of at most one prefix. *)
LEMMA FolderIsWritten ==
    ASSUME NEW entry, IsEntry(entry), IsFolder(entry), NEW fault
    PROVE  /\ EntryNode(entry, fault) = NodeOf("CommonPrefixes", <<PrefixPart(entry, fault)>>)
           /\ <<PrefixPart(entry, fault)>> \in Seq(AllParts)
           /\ Writes(<<PrefixPart(entry, fault)>>, "Prefix", PrefixPart(entry, fault))
           /\ Maybe(PrefixPart(entry, fault), "Prefix")
  <1>1. EntryNode(entry, fault) = NodeOf("CommonPrefixes", <<PrefixPart(entry, fault)>>)
    BY Zenon DEF EntryNode, PrefixPart
  <1>2. Escape(entry) \in Seq(Symbols) /\ "Prefix" \in Names
    BY EscapeIsUndone DEF IsEntry, Names
  <1>3. IsNode(Leaf("Prefix", Escape(entry)), "Prefix")
    BY <1>2, LeafIsNode
  <1>4. PICK v : v = PrefixPart(entry, fault)
    OBVIOUS
  <1>5. Maybe(v, "Prefix")
    BY <1>3, <1>4 DEF PrefixPart, Maybe
  <1>6. v \in AllParts
    BY <1>2, <1>5, EmptyIsNode DEF Maybe, IsNode
  <1>7. <<v>> \in Seq(AllParts) /\ DOMAIN <<v>> = 1 .. 1 /\ <<v>>[1] = v
    BY <1>6
  <1>8. \A k \in 1 .. 1 : k = 1
    OBVIOUS
  <1>9. Writes(<<v>>, "Prefix", v)
    BY <1>7, <1>8 DEF Writes
  <1> QED BY <1>1, <1>4, <1>5, <1>7, <1>9

(* A folder is read as it is, or refused, which it is not without a fault. *)
LEMMA FolderIsRead ==
    ASSUME NEW doc, doc \in Seq(WholeTokens), NEW z, NEW entry, IsEntry(entry), IsFolder(entry),
           NEW fault, Has(doc, z, EntryNode(entry, fault))
    PROVE  /\ read_common_prefixes(doc, z + 1) \in {<<None>>, <<entry>>}
           /\ fault \notin Broken => read_common_prefixes(doc, z + 1) = <<entry>>
  <1>1. PICK v, p : v = PrefixPart(entry, fault) /\ p = <<v>>
    OBVIOUS
  <1>2. /\ Has(doc, z, NodeOf("CommonPrefixes", p)) /\ p \in Seq(AllParts)
        /\ Writes(p, "Prefix", v) /\ Maybe(v, "Prefix")
    BY <1>1, FolderIsWritten
  <1>3. "Prefix" \in Names /\ "CommonPrefixes" \in Names
    BY DEF Names
  <1>4. PICK at : Holds(doc, z, p, at)
    BY <1>2, <1>3, ChildrenOfNode
  <1>5. PICK c : c = next_child_of(doc, z + 1, {"Prefix"})
    OBVIOUS
  <1>6. /\ v = << >> => c = << >>
        /\ v # << >> => \E q : c = <<q + 1>> /\ Has(doc, q, v)
    BY <1>2, <1>3, <1>4, <1>5, WrittenIsRead
  <1>7. CASE v = << >>
    <2>1. read_common_prefixes(doc, z + 1) = <<None>>
      BY <1>5, <1>6, <1>7 DEF read_common_prefixes
    <2>2. fault \in Broken
      <3>1. PICK t \in Seq(Symbols) : t = Escape(entry)
        BY EscapeIsUndone DEF IsEntry
      <3>2. Leaf("Prefix", t) # << >>
        BY <1>3, LeafIsNode DEF IsNode
      <3>3. fault = "no_prefix"
        BY <1>1, <1>7, <3>1, <3>2 DEF PrefixPart
      <3> QED BY <3>3 DEF Broken
    <2> QED BY <2>1, <2>2
  <1>8. CASE v # << >>
    <2>1. v = Leaf("Prefix", Escape(entry))
      BY <1>1, <1>8 DEF PrefixPart
    <2>2. PICK q : c = <<q + 1>> /\ Has(doc, q, v)
      BY <1>6, <1>8
    <2>3. Escape(entry) \in Seq(Symbols) /\ unescape(Escape(entry)) = entry
      BY EscapeIsUndone DEF IsEntry
    <2>4. read_text(doc, q + 1) = entry
      <3>1. PICK t \in Seq(Symbols) : t = Escape(entry)
        BY <2>3
      <3>2. Has(doc, q, Leaf("Prefix", t))
        BY <2>1, <2>2, <3>1
      <3>3. read_text(doc, q + 1) = unescape(t)
        BY <1>3, <3>2, LeafIsRead
      <3> QED BY <2>3, <3>1, <3>3
    <2>5. c # << >> /\ DOMAIN c = 1 .. 1 /\ c[1] = q + 1
      BY <2>2
    <2>6. read_common_prefixes(doc, z + 1) = [i \in DOMAIN c |-> read_text(doc, c[i])]
      BY <1>5, <2>5 DEF read_common_prefixes
    <2>7. [i \in 1 .. 1 |-> read_text(doc, c[i])] = <<entry>>
      <3>1. \A i \in 1 .. 1 : i = 1
        OBVIOUS
      <3>2. [i \in 1 .. 1 |-> read_text(doc, c[i])] = [i \in 1 .. 1 |-> entry]
        BY <2>4, <2>5, <3>1
      <3>3. [i \in 1 .. 1 |-> entry] = <<entry>>
        OBVIOUS
      <3> QED BY <3>2, <3>3
    <2> QED BY <2>5, <2>6, <2>7
  <1> QED BY <1>7, <1>8

(* An entry is a node, of an object or of a folder. *)
LEMMA EntryIsNode ==
    ASSUME NEW entry, IsEntry(entry), NEW fault
    PROVE  IsNode(EntryNode(entry, fault), IF IsFolder(entry) THEN "CommonPrefixes" ELSE "Contents")
  <1>1. "CommonPrefixes" \in Names /\ "Contents" \in Names
    BY DEF Names
  <1>2. CASE IsFolder(entry)
    <2>1. PICK p : p = <<PrefixPart(entry, fault)>>
      OBVIOUS
    <2>2. p \in Seq(AllParts) /\ EntryNode(entry, fault) = NodeOf("CommonPrefixes", p)
      BY <1>2, <2>1, FolderIsWritten
    <2>3. IsNode(NodeOf("CommonPrefixes", p), "CommonPrefixes")
      BY <1>1, <2>2, ComposedIsNode
    <2> QED BY <1>2, <2>2, <2>3
  <1>3. CASE ~IsFolder(entry)
    <2>1. PICK p : p = ObjectParts(entry, fault)
      OBVIOUS
    <2>2. p \in Seq(AllParts) /\ EntryNode(entry, fault) = NodeOf("Contents", p)
      BY <1>3, <2>1, ObjectIsWritten
    <2>3. IsNode(NodeOf("Contents", p), "Contents")
      BY <1>1, <2>2, ComposedIsNode
    <2> QED BY <1>3, <2>2, <2>3
  <1> QED BY <1>2, <1>3

-----------------------------------------------------------------------------
(* Sequences of one element each, one behind the other *)
LEMMA FlattenOfSingles ==
    ASSUME NEW T, NEW s \in Seq(T)
    PROVE  FlattenSeq([i \in DOMAIN s |-> <<s[i]>>]) = s
  <1> DEFINE singles(q) == [i \in DOMAIN q |-> <<q[i]>>]
             S == {q \in Seq(T) : FlattenSeq(singles(q)) = q}
  <1>1. << >> \in S
    <2>1. singles(<< >>) = << >>
      OBVIOUS
    <2>2. FlattenSeq(<< >>) = << >>
      BY DEF FlattenSeq
    <2> QED BY <2>1, <2>2
  <1>2. ASSUME NEW q \in Seq(T), NEW b \in T, q \in S PROVE Append(q, b) \in S
    <2>1. PICK x \in Nat : x = Len(q) /\ DOMAIN q = 1 .. x
      OBVIOUS
    <2>2. PICK p : p = singles(q)
      OBVIOUS
    <2>3. p \in Seq(Seq(T)) /\ Len(p) = x /\ \A i \in 1 .. x : p[i] = <<q[i]>>
      <3>1. \A i \in 1 .. x : <<q[i]>> \in Seq(T)
        BY <2>1
      <3> QED BY <2>1, <2>2, <3>1
    <2>4. PICK u : u = Append(q, b)
      OBVIOUS
    <2>5. /\ u \in Seq(T) /\ DOMAIN u = 1 .. x + 1 /\ u[x + 1] = b
          /\ \A i \in 1 .. x : u[i] = q[i]
      BY <2>1, <2>4
    <2>6. PICK r : r = singles(u)
      OBVIOUS
    <2>7. HasLength(r, x + 1) /\ (\A i \in 1 .. x : r[i] = p[i]) /\ r[x + 1] = <<b>>
      <3>1. r = [i \in 1 .. x + 1 |-> <<u[i]>>]
        BY <2>5, <2>6
      <3>2. HasLength(r, x + 1)
        BY <3>1 DEF HasLength
      <3>3. (\A i \in 1 .. x : i \in 1 .. x + 1) /\ x + 1 \in 1 .. x + 1
        OBVIOUS
      <3> QED BY <2>3, <2>5, <3>1, <3>2, <3>3
    <2>0. <<b>> \in Seq(T)
      OBVIOUS
    <2>8. r = Append(p, <<b>>)
      <3>1. PICK Z : Z = Seq(T)
        OBVIOUS
      <3>2. PICK v \in Z : v = <<b>>
        BY <2>0, <3>1
      <3>3. p \in Seq(Z) /\ v \in Z /\ x \in Nat /\ x = Len(p) /\ r[x + 1] = v
        BY <2>3, <2>7, <3>1, <3>2
      <3>4. r = Append(p, v)
        BY ONLY <2>7, <3>3, AppendIs
      <3> QED BY <3>2, <3>4
    <2>9. FlattenSeq(r) = FlattenSeq(p) \o <<b>>
      BY <2>0, <2>3, <2>8, FlattenOfAppend
    <2>10. FlattenSeq(p) = q
      BY <1>2, <2>2
    <2>11. FlattenSeq(r) = u
      BY <2>4, <2>9, <2>10
    <2>12. u \in S
      BY <2>5, <2>6, <2>11
    <2> QED BY <2>4, <2>12
  <1> HIDE DEF S
  <1>3. s \in S
    BY <1>1, <1>2, SeqInduction
  <1> QED BY <1>3 DEF S

(* g goes through the depths of the scan of the first m tokens. *)
Scans(g, doc, m) == g = [n \in 0 .. m |-> IF n = 0 THEN 0 ELSE Scanned(g[n - 1], doc[n])]

(* Depths that obey the scan are those of the scan. *)
LEMMA ScanIsComputed ==
    ASSUME NEW doc, NEW m \in Nat, Len(doc) = m, NEW g, Scans(g, doc, m)
    PROVE  Scan(doc) = g[m]
  <1> DEFINE F(f) == [n \in 0 .. Len(doc) |-> IF n = 0 THEN 0 ELSE Scanned(f[n - 1], doc[n])]
             d == CHOOSE f : f = F(f)
  <1>1. d = F(d)
    <2>1. g = F(g)
      BY DEF Scans
    <2> QED BY <2>1
  <1>2. Scan(doc) = d[m]
    BY DEF Scan
  <1>3. \A n \in 0 .. m : d[n] = IF n = 0 THEN 0 ELSE Scanned(d[n - 1], doc[n])
    BY <1>1
  <1>4. \A n \in 0 .. m : g[n] = IF n = 0 THEN 0 ELSE Scanned(g[n - 1], doc[n])
    BY DEF Scans
  <1> HIDE DEF d
  <1> DEFINE S == {n \in Nat : n <= m => d[n] = g[n]}
  <1>5. 0 \in S
    BY <1>3, <1>4
  <1>6. ASSUME NEW n \in Nat, n \in S PROVE n + 1 \in S
    <2>1. SUFFICES ASSUME n + 1 <= m PROVE d[n + 1] = g[n + 1]
      OBVIOUS
    <2>2. n + 1 \in 0 .. m /\ n + 1 # 0 /\ (n + 1) - 1 = n /\ n <= m
      BY <2>1
    <2>3. d[n + 1] = Scanned(d[n], doc[n + 1]) /\ g[n + 1] = Scanned(g[n], doc[n + 1])
      BY <1>3, <1>4, <2>2
    <2>4. d[n] = g[n]
      BY <1>6, <2>2
    <2> QED BY <2>3, <2>4
  <1> HIDE DEF S
  <1>7. \A n \in Nat : n \in S
    BY <1>5, <1>6, Induction
  <1>8. d[m] = g[m]
    BY <1>7 DEF S
  <1> QED BY <1>2, <1>8

(* Behind whole tokens the scan has reached the level, if none was closed    *)
(* that was not open.                                                        *)
LEMMA ScannedIsRise ==
    ASSUME NEW d \in Nat, NEW t, t \in WholeTokens, d + Rise(t) >= 0
    PROVE  Scanned(d, t) = d + Rise(t)
  <1>1. t.tag \in {"open", "close", "empty", "text"}
    BY DEF WholeTokens
  <1>2. d # Unsafe
    BY DEF Unsafe
  <1>3. CASE t.tag = "open"
    BY <1>2, <1>3 DEF Scanned, Rise
  <1>4. CASE t.tag = "close"
    <2>1. Rise(t) = -1 /\ d # 0
      BY <1>4 DEF Rise
    <2> QED BY <1>2, <1>4, <2>1 DEF Scanned
  <1>5. CASE t.tag \in {"empty", "text"}
    BY <1>2, <1>5 DEF Scanned, Rise
  <1> QED BY <1>1, <1>3, <1>4, <1>5

(* A document with a beginning of whole tokens, and its levels there *)
LEMMA ScanOfBeginning ==
    ASSUME NEW doc, NEW n \in Nat, \A i \in 1 .. n : doc[i] \in WholeTokens,
           \A i \in 1 .. n + 1 : Level(doc, i) >= 0
    PROVE  /\ Len(doc) = n => Scan(doc) = Level(doc, n + 1)
           /\ Len(doc) = n + 1 /\ doc[n + 1].tag = "cut" => Scan(doc) = Unsafe
  <1>1. \A i \in 1 .. n + 1 : Level(doc, i) \in Nat
    <2>1. \A i \in 1 .. n + 1 : Level(doc, i) \in Int
      BY LevelSteps
    <2> QED BY <2>1
  <1>2. \A i \in 1 .. n : Level(doc, i + 1) = Scanned(Level(doc, i), doc[i])
    <2> SUFFICES ASSUME NEW i \in 1 .. n PROVE Level(doc, i + 1) = Scanned(Level(doc, i), doc[i])
      OBVIOUS
    <2>1. PICK d \in Nat : d = Level(doc, i)
      BY <1>1
    <2>2. Level(doc, i + 1) = d + Rise(doc[i])
      BY <2>1, LevelSteps
    <2>3. d + Rise(doc[i]) >= 0
      BY <1>1, <2>2
    <2> QED BY <2>1, <2>2, <2>3, ScannedIsRise
  <1>3. Level(doc, 1) = 0
    BY LevelSteps
  <1>4. ASSUME Len(doc) = n PROVE Scan(doc) = Level(doc, n + 1)
    <2> DEFINE g == [i \in 0 .. n |-> Level(doc, i + 1)]
    <2>1. \A i \in 0 .. n : g[i] = IF i = 0 THEN 0 ELSE Scanned(g[i - 1], doc[i])
      <3> SUFFICES ASSUME NEW i \in 0 .. n PROVE g[i] = IF i = 0 THEN 0 ELSE Scanned(g[i - 1], doc[i])
        OBVIOUS
      <3>1. CASE i = 0
        BY <1>3, <3>1
      <3>2. CASE i # 0
        <4>1. i \in 1 .. n /\ i - 1 \in 0 .. n /\ (i - 1) + 1 = i
          BY <3>2
        <4>2. g[i] = Level(doc, i + 1) /\ g[i - 1] = Level(doc, i)
          BY <4>1
        <4> QED BY <1>2, <3>2, <4>1, <4>2
      <3> QED BY <3>1, <3>2
    <2>2. Scans(g, doc, n)
      BY <2>1 DEF Scans
    <2>3. g[n] = Level(doc, n + 1)
      OBVIOUS
    <2> HIDE DEF g
    <2> QED BY <1>4, <2>2, <2>3, ScanIsComputed
  <1>5. ASSUME Len(doc) = n + 1, doc[n + 1].tag = "cut" PROVE Scan(doc) = Unsafe
    <2> DEFINE g == [i \in 0 .. n + 1 |-> IF i = n + 1 THEN Unsafe ELSE Level(doc, i + 1)]
    <2>1. \A i \in 0 .. n + 1 : g[i] = IF i = 0 THEN 0 ELSE Scanned(g[i - 1], doc[i])
      <3> SUFFICES ASSUME NEW i \in 0 .. n + 1
                   PROVE  g[i] = IF i = 0 THEN 0 ELSE Scanned(g[i - 1], doc[i])
        OBVIOUS
      <3>1. CASE i = 0
        BY <1>3, <3>1
      <3>2. CASE i \in 1 .. n
        <4>1. i - 1 \in 0 .. n + 1 /\ (i - 1) + 1 = i /\ i # n + 1 /\ i - 1 # n + 1 /\ i # 0
          BY <3>2
        <4>2. g[i] = Level(doc, i + 1) /\ g[i - 1] = Level(doc, i)
          BY <4>1
        <4> QED BY <1>2, <3>2, <4>1, <4>2
      <3>3. CASE i = n + 1
        <4>1. g[i] = Unsafe /\ i # 0
          BY <3>3
        <4>2. \A d : Scanned(d, doc[n + 1]) = Unsafe
          BY <1>5 DEF Scanned
        <4> HIDE DEF g
        <4> QED BY <3>3, <4>1, <4>2
      <3> QED BY <3>1, <3>2, <3>3
    <2>2. Scans(g, doc, n + 1)
      BY <2>1 DEF Scans
    <2>3. g[n + 1] = Unsafe
      OBVIOUS
    <2> HIDE DEF g
    <2> QED BY <1>5, <2>2, <2>3, ScanIsComputed
  <1> QED BY <1>4, <1>5

(* A node is a document that is safe to read. *)
LEMMA NodeIsSafe ==
    ASSUME NEW doc, NEW name, IsNode(doc, name)
    PROVE  is_safe_to_read(doc)
  <1>1. Part(doc) /\ doc \in Seq(WholeTokens)
    BY DEF IsNode, AllParts
  <1>2. Block(doc)
    BY <1>1, PartIsBlock
  <1>3. PICK n \in Nat : n = Len(doc)
    BY <1>1
  <1>4. \A i \in 1 .. n : doc[i] \in WholeTokens
    BY <1>1, <1>3
  <1>5. (\A i \in 1 .. n + 1 : Level(doc, i) >= 0) /\ Level(doc, n + 1) = 0
    BY <1>2, <1>3 DEF Block
  <1>6. Scan(doc) = Level(doc, n + 1)
    BY <1>3, <1>4, <1>5, ScanOfBeginning
  <1> QED BY <1>5, <1>6 DEF is_safe_to_read

-----------------------------------------------------------------------------
(* The root of a document that is one node is where it begins. *)
LEMMA RootIsFirst ==
    ASSUME NEW doc, NEW name, IsNode(doc, name)
    PROVE  NodesAt(doc, <<name>>) = {1} /\ Min({1}) = 1
  <1>1. doc \in Seq(WholeTokens) /\ Elem(doc)
    BY DEF IsNode, AllParts, Part
  <1>2. PICK x \in Nat \ {0} : x = Len(doc) /\ DOMAIN doc = 1 .. x
    BY <1>1 DEF Elem
  <1>3. Level(doc, 1) = 0
    BY LevelSteps
  <1>4. 1 \in NodesAt(doc, <<name>>)
    <2>1. Ancestors(doc, 1) = {}
      BY DEF Ancestors
    <2>2. Len(<<name>>) = 1 /\ <<name>>[1] = name /\ 1 \in 1 .. x
      OBVIOUS
    <2>3. doc[1].tag \in {"open", "empty"} /\ doc[1].name = name
      BY <1>1 DEF Elem, IsNode
    <2> QED BY <1>2, <1>3, <2>1, <2>2, <2>3 DEF NodesAt, Tagged
  <1>5. ASSUME NEW i \in NodesAt(doc, <<name>>) PROVE i = 1
    <2>1. i \in 1 .. x /\ Level(doc, i) = 0
      <3>1. Len(<<name>>) = 1
        OBVIOUS
      <3> QED BY <1>2, <3>1 DEF NodesAt, Tagged
    <2>2. SUFFICES ASSUME i # 1 PROVE FALSE
      OBVIOUS
    <2>3. i \in 2 .. x
      BY <2>1, <2>2
    <2>4. Level(doc, i) >= 1
      BY <1>1, <1>2, <2>3 DEF Elem
    <2> QED BY <2>1, <2>4
  <1>6. Min({1}) = 1
    BY MinIsFirst
  <1> QED BY <1>4, <1>5, <1>6

(* The parts that are nodes of that name are those of the entries. *)
Lists(parts, name, entries, fault) ==
    /\ DOMAIN Ascending(Heads(parts, {name})) = DOMAIN entries
    /\ \A k \in DOMAIN entries :
          /\ Ascending(Heads(parts, {name}))[k] \in DOMAIN parts
          /\ parts[Ascending(Heads(parts, {name}))[k]] = EntryNode(entries[k], fault)

(* What is written of a token that is to be sent: nothing, nothing in it, or it *)
Sends(part, next) ==
    part \in {<< >>, <<Empty("NextContinuationToken")>>,
              Leaf("NextContinuationToken", Escape(next))}

(* The token of a page is read as it is, or missed, if it is not there. *)
LEMMA TokenIsRead ==
    ASSUME NEW doc, doc \in Seq(WholeTokens), NEW z, NEW parts, parts \in Seq(AllParts), NEW at,
           Holds(doc, z, parts, at),
           NEW next, next \in Seq(Symbols), next # << >>,
           NEW resume, Sends(resume, next), Writes(parts, "NextContinuationToken", resume),
           NEW told, told \in {<<"true">>, <<"True">>, <<"false">>},
           Writes(parts, "IsTruncated", Leaf("IsTruncated", told))
    PROVE  IF told = <<"false">> THEN NextToken(doc, z + 1) = None
           ELSE /\ NextToken(doc, z + 1) \in {<<"missing">>, next}
                /\ resume = Leaf("NextContinuationToken", Escape(next)) => NextToken(doc, z + 1) = next
  <1>1. "IsTruncated" \in Names /\ "NextContinuationToken" \in Names /\ told \in Seq(Symbols)
    <2>1. "true" \in Symbols /\ "True" \in Symbols /\ "false" \in Symbols
      BY DEF Symbols
    <2>2. <<"true">> \in Seq(Symbols) /\ <<"True">> \in Seq(Symbols) /\ <<"false">> \in Seq(Symbols)
      BY <2>1
    <2> QED BY <2>2 DEF Names
  <1>2. is_truncated(doc, z + 1) <=> told # <<"false">>
    <2>1. Maybe(Leaf("IsTruncated", told), "IsTruncated")
      BY <1>1, LeafIsNode DEF Maybe
    <2>2. PICK v : v = Leaf("IsTruncated", told)
      OBVIOUS
    <2>3. \A t \in Seq(Symbols) : v = Leaf("IsTruncated", t) => LastOf(doc, z + 1, "IsTruncated") = unescape(t)
      BY <1>1, <2>1, <2>2, WrittenIsRead
    <2>4. unescape(told) = told
      BY ShortTextIsVerbatim
    <2>5. LastOf(doc, z + 1, "IsTruncated") = told
      BY <1>1, <2>2, <2>3, <2>4
    <2> QED BY <2>5 DEF is_truncated
  <1>3. CASE told = <<"false">>
    BY <1>2, <1>3 DEF NextToken
  <1>4. CASE told # <<"false">>
    <2>1. is_truncated(doc, z + 1)
      BY <1>2, <1>4
    <2>2. Escape(next) \in Seq(Symbols) /\ unescape(Escape(next)) = next
      BY EscapeIsUndone
    <2>3. PICK e \in Seq(Symbols) : e = Escape(next)
      BY <2>2
    <2>4. Maybe(resume, "NextContinuationToken")
      BY <1>1, <2>3, LeafIsNode, EmptyIsNode DEF Sends, Maybe
    <2>5. PICK c : c = next_child_of(doc, z + 1, {"NextContinuationToken"})
      OBVIOUS
    <2>6. /\ resume = << >> => c = << >>
          /\ resume # << >> => \E p : c = <<p + 1>> /\ Has(doc, p, resume)
      BY <1>1, <2>4, <2>5, WrittenIsRead, SMTT(30)
    <2>7. PICK sent : sent = SentTokens(doc, z + 1)
      OBVIOUS
    <2>8. sent = {i \in Range(c) : read_text(doc, i) # << >>}
      BY <2>5, <2>7 DEF SentTokens
    <2>9. sent = {} => NextToken(doc, z + 1) = <<"missing">>
      BY <2>1, <2>7 DEF NextToken
    <2>10. sent # {} => NextToken(doc, z + 1) = read_text(doc, Max(sent))
      BY <2>1, <2>7 DEF NextToken
    <2>11. CASE resume = << >>
      <3>1. Range(c) = {}
        BY <2>6, <2>11 DEF Range
      <3>2. resume # Leaf("NextContinuationToken", e)
        BY <1>1, <2>11, LeafIsNode DEF IsNode
      <3> QED BY <1>4, <2>3, <2>8, <2>9, <3>1, <3>2
    <2>12. CASE resume # << >>
      <3>1. PICK p : c = <<p + 1>> /\ Has(doc, p, resume)
        BY <2>6, <2>12
      <3>2. Range(c) = {p + 1} /\ p \in Nat
        BY <3>1 DEF Range, Has
      <3>3. CASE resume = <<Empty("NextContinuationToken")>>
        <4>1. read_text(doc, p + 1) = << >>
          BY <3>1, <3>3, EmptyIsRead
        <4>2. sent = {}
          BY <2>8, <3>2, <4>1
        <4>3. resume # Leaf("NextContinuationToken", e)
          <5>1. Leaf("NextContinuationToken", e)[1] = Open("NextContinuationToken")
            BY <1>1, LeafIsNode
          <5>2. resume[1] = Empty("NextContinuationToken")
            BY <3>3
          <5>3. \A n : Open(n).tag = "open" /\ Empty(n).tag = "empty"
            BY DEF Open, Empty
          <5>4. "open" # "empty"
            OBVIOUS
          <5> QED BY <5>1, <5>2, <5>3, <5>4
        <4> QED BY <1>4, <2>3, <2>9, <4>2, <4>3
      <3>4. CASE resume = Leaf("NextContinuationToken", e)
        <4>1. Has(doc, p, Leaf("NextContinuationToken", e))
          BY <3>1, <3>4
        <4>2. read_text(doc, p + 1) = next
          BY <1>1, <2>2, <2>3, <4>1, LeafIsRead
        <4>3. sent = {p + 1}
          BY <2>8, <3>2, <4>2
        <4>4. Max(sent) = p + 1
          BY <3>2, <4>3 DEF Max
        <4>5. NextToken(doc, z + 1) = next
          BY <2>10, <4>2, <4>3, <4>4
        <4> QED BY <1>4, <4>5
      <3> QED BY <2>3, <2>12, <3>3, <3>4 DEF Sends
    <2> QED BY <2>11, <2>12
  <1> QED BY <1>3, <1>4

(* What is to be read of a page of the objects and the folders *)
Page(objs, folders, next) ==
    [ok |-> TRUE,
     objects |-> [k \in DOMAIN objs |-> [key |-> objs[k], size |-> Sizes[IndexOf(objs[k])]]],
     common_prefixes |-> folders,
     token |-> next]

(* The parts are a page of those, with what is said about more of them. *)
IsPage(parts, objs, folders, fault, resume, told) ==
    /\ parts \in Seq(AllParts)
    /\ objs \in Seq(Seq(Symbols)) /\ \A k \in DOMAIN objs : IsEntry(objs[k]) /\ ~IsFolder(objs[k])
    /\ folders \in Seq(Seq(Symbols))
    /\ \A k \in DOMAIN folders : IsEntry(folders[k]) /\ IsFolder(folders[k])
    /\ Lists(parts, "Contents", objs, fault)
    /\ Lists(parts, "CommonPrefixes", folders, fault)
    /\ Writes(parts, "NextContinuationToken", resume)
    /\ told \in {<<"true">>, <<"True">>, <<"false">>}
    /\ Writes(parts, "IsTruncated", Leaf("IsTruncated", told))

(* There is nothing wrong with the page. *)
Readable(objs, folders, fault, resume, told, next) ==
    /\ fault \notin Broken
    /\ (\A k \in DOMAIN objs : objs[k] # None) /\ \A k \in DOMAIN folders : folders[k] # None
    /\ told # <<"false">> => /\ resume = Leaf("NextContinuationToken", Escape(next))
                             /\ next # <<"missing">>

(* What the parser hands out is what it has read, or nothing. *)
LEMMA ParsedIsRead ==
    ASSUME NEW doc, NodesAt(doc, <<"ListBucketResult">>) = {1}, Min({1}) = 1,
           NEW contents, contents = next_child_of(doc, 1, {"Contents"}),
           NEW folders, folders = next_child_of(doc, 1, {"CommonPrefixes"}),
           NEW objs, objs = [i \in DOMAIN contents |-> read_object(doc, contents[i])],
           NEW pre, pre = FlattenSeq([i \in DOMAIN folders |-> read_common_prefixes(doc, folders[i])]),
           NEW next, next = NextToken(doc, 1)
    PROVE  \/ parse_list_objects_v2(doc) = Failed
           \/ /\ parse_list_objects_v2(doc)
                   = [ok |-> TRUE, objects |-> objs, common_prefixes |-> pre, token |-> next]
              /\ \A i \in DOMAIN objs : objs[i].key # None
              /\ \A i \in DOMAIN pre : pre[i] # None
              /\ next # <<"missing">>
  BY DEF parse_list_objects_v2

(* What it has read is handed out, if there is nothing wrong with it. *)
LEMMA ReadIsParsed ==
    ASSUME NEW doc, NodesAt(doc, <<"ListBucketResult">>) = {1}, Min({1}) = 1, is_safe_to_read(doc),
           NEW contents, contents = next_child_of(doc, 1, {"Contents"}),
           NEW folders, folders = next_child_of(doc, 1, {"CommonPrefixes"}),
           NEW objs, objs = [i \in DOMAIN contents |-> read_object(doc, contents[i])],
           NEW pre, pre = FlattenSeq([i \in DOMAIN folders |-> read_common_prefixes(doc, folders[i])]),
           NEW next, next = NextToken(doc, 1),
           \A i \in DOMAIN objs : objs[i].key # None,
           \A i \in DOMAIN pre : pre[i] # None,
           next # <<"missing">>
    PROVE  parse_list_objects_v2(doc)
              = [ok |-> TRUE, objects |-> objs, common_prefixes |-> pre, token |-> next]
  BY DEF parse_list_objects_v2

(* A page is read as it was written, or not at all; and it is read, if there *)
(* is nothing wrong with it.                                                 *)
LEMMA PageIsRead ==
    ASSUME NEW parts, NEW objs, NEW folders, NEW fault, NEW resume, NEW told,
           IsPage(parts, objs, folders, fault, resume, told),
           NEW next, next \in Seq(Symbols), next # << >>, Sends(resume, next)
    PROVE  /\ parse_list_objects_v2(NodeOf("ListBucketResult", parts))
              \in {Failed, Page(objs, folders, IF told = <<"false">> THEN None ELSE next)}
           /\ Readable(objs, folders, fault, resume, told, next)
                => parse_list_objects_v2(NodeOf("ListBucketResult", parts)).ok
  <1>1. PICK doc : doc = NodeOf("ListBucketResult", parts)
    OBVIOUS
  <1>2. IsNode(doc, "ListBucketResult") /\ parts \in Seq(AllParts) /\ "ListBucketResult" \in Names
    <2>1. "ListBucketResult" \in Names /\ parts \in Seq(AllParts)
      BY DEF Names, IsPage
    <2> QED BY <1>1, <2>1, ComposedIsNode
  <1>3. doc \in Seq(WholeTokens) /\ NodesAt(doc, <<"ListBucketResult">>) = {1} /\ Min({1}) = 1
    BY <1>2, RootIsFirst DEF IsNode, AllParts
  <1>4. Has(doc, 0, NodeOf("ListBucketResult", parts))
    <2>1. PICK x \in Nat : x = Len(doc)
      BY <1>3
    <2>2. 0 + x <= x /\ \A k \in 1 .. x : 0 + k = k
      OBVIOUS
    <2> QED BY <1>1, <2>1, <2>2 DEF Has
  <1>5. PICK at : Holds(doc, 0, parts, at)
    BY <1>2, <1>3, <1>4, ChildrenOfNode
  <1>6. 0 + 1 = 1
    OBVIOUS
  <1>7. IF told = <<"false">> THEN NextToken(doc, 1) = None
        ELSE /\ NextToken(doc, 1) \in {<<"missing">>, next}
             /\ resume = Leaf("NextContinuationToken", Escape(next)) => NextToken(doc, 1) = next
    <2>1. /\ Writes(parts, "NextContinuationToken", resume)
          /\ told \in {<<"true">>, <<"True">>, <<"false">>}
          /\ Writes(parts, "IsTruncated", Leaf("IsTruncated", told))
      BY DEF IsPage
    <2>2. IF told = <<"false">> THEN NextToken(doc, 0 + 1) = None
          ELSE /\ NextToken(doc, 0 + 1) \in {<<"missing">>, next}
               /\ resume = Leaf("NextContinuationToken", Escape(next)) => NextToken(doc, 0 + 1) = next
      BY <1>2, <1>3, <1>5, <2>1, TokenIsRead
    <2> QED BY <1>6, <2>2
  <1>8. PICK s, r : s = Ascending(Heads(parts, {"Contents"})) /\ r = Ascending(Heads(parts, {"CommonPrefixes"}))
    OBVIOUS
  <1>9. PICK c, f : /\ c = next_child_of(doc, 1, {"Contents"})
                    /\ f = next_child_of(doc, 1, {"CommonPrefixes"})
    OBVIOUS
  <1>10. c = [k \in DOMAIN s |-> at[s[k]] + 1] /\ f = [k \in DOMAIN r |-> at[r[k]] + 1]
    <2>1. \A names : next_child_of(doc, 0 + 1, names)
             = [k \in DOMAIN Ascending(Heads(parts, names)) |->
                   at[Ascending(Heads(parts, names))[k]] + 1]
      BY <1>5 DEF Holds
    <2>2. next_child_of(doc, 0 + 1, {"Contents"}) = [k \in DOMAIN s |-> at[s[k]] + 1]
      BY <1>8, <2>1
    <2>3. next_child_of(doc, 0 + 1, {"CommonPrefixes"}) = [k \in DOMAIN r |-> at[r[k]] + 1]
      BY <1>8, <2>1
    <2> QED BY <1>6, <1>9, <2>2, <2>3
  <1>11. /\ DOMAIN s = DOMAIN objs
         /\ \A k \in DOMAIN objs : s[k] \in DOMAIN parts /\ parts[s[k]] = EntryNode(objs[k], fault)
         /\ DOMAIN r = DOMAIN folders
         /\ \A k \in DOMAIN folders : r[k] \in DOMAIN parts /\ parts[r[k]] = EntryNode(folders[k], fault)
    BY <1>8 DEF IsPage, Lists
  <1>12. \A i \in DOMAIN parts : Has(doc, at[i], parts[i])
    BY <1>5 DEF Holds
  <1>13. ASSUME NEW k \in DOMAIN objs
         PROVE  /\ \/ read_object(doc, c[k]).key = None
                   \/ read_object(doc, c[k]) = [key |-> objs[k], size |-> Sizes[IndexOf(objs[k])]]
                /\ fault \notin Broken /\ objs[k] # None => read_object(doc, c[k]).key # None
    <2>1. Has(doc, at[s[k]], EntryNode(objs[k], fault)) /\ c[k] = at[s[k]] + 1
      BY <1>10, <1>11, <1>12
    <2>2. IsEntry(objs[k]) /\ ~IsFolder(objs[k])
      BY DEF IsPage
    <2> QED BY <1>3, <2>1, <2>2, ObjectIsRead
  <1>14. ASSUME NEW k \in DOMAIN folders
         PROVE  /\ read_common_prefixes(doc, f[k]) \in {<<None>>, <<folders[k]>>}
                /\ fault \notin Broken => read_common_prefixes(doc, f[k]) = <<folders[k]>>
    <2>1. Has(doc, at[r[k]], EntryNode(folders[k], fault)) /\ f[k] = at[r[k]] + 1
      BY <1>10, <1>11, <1>12
    <2>2. IsEntry(folders[k]) /\ IsFolder(folders[k])
      BY DEF IsPage
    <2> QED BY <1>3, <2>1, <2>2, FolderIsRead
  <1>15. PICK o, pre, tok :
            /\ o = [i \in DOMAIN c |-> read_object(doc, c[i])]
            /\ pre = FlattenSeq([i \in DOMAIN f |-> read_common_prefixes(doc, f[i])])
            /\ tok = NextToken(doc, 1)
    OBVIOUS
  <1>16. DOMAIN c = DOMAIN objs /\ DOMAIN f = DOMAIN folders /\ DOMAIN o = DOMAIN objs
    BY <1>10, <1>11, <1>15
  <1>17. PICK q : /\ q \in Seq(Seq(Symbols)) /\ DOMAIN q = DOMAIN folders
                  /\ \A k \in DOMAIN folders : /\ read_common_prefixes(doc, f[k]) = <<q[k]>>
                                               /\ q[k] \in {None, folders[k]}
    <2>1. PICK g : g = [k \in DOMAIN folders |->
                          IF read_common_prefixes(doc, f[k]) = <<None>> THEN None ELSE folders[k]]
      OBVIOUS
    <2>2. \A k \in DOMAIN folders : /\ read_common_prefixes(doc, f[k]) = <<g[k]>>
                                    /\ g[k] \in {None, folders[k]}
      BY <1>14, <2>1
    <2>3. PICK x \in Nat : DOMAIN folders = 1 .. x
      BY DEF IsPage
    <2>4. None \in Seq(Symbols)
      <3>1. "None" \in Symbols
        BY DEF Symbols
      <3> QED BY <3>1 DEF None
    <2>5. \A k \in 1 .. x : folders[k] \in Seq(Symbols)
      BY <2>3 DEF IsPage
    <2>6. \A k \in 1 .. x : g[k] \in Seq(Symbols)
      BY <2>2, <2>3, <2>4, <2>5
    <2>7. g \in [1 .. x -> Seq(Symbols)]
      BY <2>1, <2>3, <2>6
    <2>8. g \in Seq(Seq(Symbols)) /\ DOMAIN g = DOMAIN folders
      BY <2>3, <2>7, SeqDef
    <2> QED BY <2>2, <2>8
  <1>18. pre = q
    <2>1. [i \in DOMAIN f |-> read_common_prefixes(doc, f[i])] = [i \in DOMAIN q |-> <<q[i]>>]
      BY <1>16, <1>17
    <2>2. FlattenSeq([i \in DOMAIN q |-> <<q[i]>>]) = q
      BY <1>17, FlattenOfSingles
    <2> QED BY <1>15, <2>1, <2>2
  <1>19. \/ parse_list_objects_v2(doc) = Failed
         \/ /\ parse_list_objects_v2(doc) = [ok |-> TRUE, objects |-> o, common_prefixes |-> pre, token |-> tok]
            /\ \A i \in DOMAIN o : o[i].key # None
            /\ \A i \in DOMAIN pre : pre[i] # None
            /\ tok # <<"missing">>
    BY <1>3, <1>9, <1>15, ParsedIsRead, SMTT(30)
  <1>20. ASSUME /\ parse_list_objects_v2(doc) = [ok |-> TRUE, objects |-> o, common_prefixes |-> pre, token |-> tok]
                /\ \A i \in DOMAIN o : o[i].key # None
                /\ \A i \in DOMAIN pre : pre[i] # None
                /\ tok # <<"missing">>
         PROVE  parse_list_objects_v2(doc) = Page(objs, folders, IF told = <<"false">> THEN None ELSE next)
    <2>1. o = [k \in DOMAIN objs |-> [key |-> objs[k], size |-> Sizes[IndexOf(objs[k])]]]
      <3>1. \A k \in DOMAIN objs : o[k] = [key |-> objs[k], size |-> Sizes[IndexOf(objs[k])]]
        BY <1>13, <1>15, <1>16, <1>20
      <3> QED BY <1>15, <1>16, <3>1
    <2>2. pre = folders
      <3>1. \A k \in DOMAIN folders : q[k] = folders[k]
        BY <1>17, <1>18, <1>20
      <3>2. folders \in Seq(Seq(Symbols))
        BY DEF IsPage
      <3> QED BY <1>17, <1>18, <3>1, <3>2
    <2>3. tok = IF told = <<"false">> THEN None ELSE next
      BY <1>7, <1>15, <1>20
    <2> QED BY <1>20, <2>1, <2>2, <2>3 DEF Page
  <1>21. ASSUME Readable(objs, folders, fault, resume, told, next) PROVE parse_list_objects_v2(doc).ok
    <2>1. \A i \in DOMAIN o : o[i].key # None
      BY <1>13, <1>15, <1>16, <1>21 DEF Readable
    <2>2. \A i \in DOMAIN pre : pre[i] # None
      <3>1. \A k \in DOMAIN folders : <<q[k]>> = <<folders[k]>>
        BY <1>14, <1>17, <1>21 DEF Readable
      <3>2. \A a, b : <<a>> = <<b>> => a = b
        OBVIOUS
      <3>3. \A k \in DOMAIN folders : q[k] = folders[k]
        BY <3>1, <3>2, Zenon
      <3> QED BY <1>17, <1>18, <1>21, <3>3 DEF Readable
    <2>3. tok # <<"missing">>
      <3>1. None # <<"missing">>
        BY DEF None
      <3> QED BY <1>7, <1>15, <1>21, <3>1 DEF Readable
    <2>4. is_safe_to_read(doc)
      BY <1>2, NodeIsSafe
    <2>5. parse_list_objects_v2(doc) = [ok |-> TRUE, objects |-> o, common_prefixes |-> pre, token |-> tok]
      BY ONLY <1>3, <1>9, <1>15, <2>1, <2>2, <2>3, <2>4, ReadIsParsed
    <2> QED BY <2>5
  <1> QED BY <1>1, <1>19, <1>20, <1>21

-----------------------------------------------------------------------------
(* Where the entries of a page are that are folders, or that are not *)
Places(page, folders) == {i \in DOMAIN page : IsFolder(page[i]) <=> folders}

(* The chosen entries are those, in their order. *)
LEMMA ChosenIs ==
    ASSUME NEW page, page \in Seq(Seq(Symbols)), NEW folders, folders \in BOOLEAN
    PROVE  \E c : /\ Enumerates(Ascending(Places(page, folders)), c, Places(page, folders))
                  /\ Chosen(page, folders) = [k \in 1 .. c |-> page[Ascending(Places(page, folders))[k]]]
                  /\ Chosen(page, folders) \in Seq(Seq(Symbols))
                  /\ DOMAIN Chosen(page, folders) = 1 .. c
  <1>1. PICK P, s : P = Places(page, folders) /\ s = Ascending(P)
    OBVIOUS
  <1>2. PICK m \in Nat : DOMAIN page = 1 .. m
    OBVIOUS
  <1>3. P \subseteq 1 .. m
    BY <1>1, <1>2 DEF Places
  <1>4. PICK c : Enumerates(s, c, P)
    BY <1>1, <1>3, AscendingEnumerates
  <1>5. c \in Nat /\ DOMAIN s = 1 .. c /\ \A k \in 1 .. c : s[k] \in 1 .. m
    BY <1>3, <1>4 DEF Enumerates
  <1>6. PICK C : C = Chosen(page, folders)
    OBVIOUS
  <1>7. C = [k \in 1 .. c |-> page[s[k]]]
    BY <1>1, <1>5, <1>6 DEF Chosen, Places
  <1>8. \A k \in 1 .. c : page[s[k]] \in Seq(Symbols)
    BY <1>2, <1>5
  <1>9. C \in [1 .. c -> Seq(Symbols)]
    BY <1>7, <1>8
  <1>10. C \in Seq(Seq(Symbols)) /\ DOMAIN C = 1 .. c
    BY <1>5, <1>9, SeqDef
  <1> QED BY <1>1, <1>4, <1>6, <1>7, <1>10

(* The entries of a page as they are written *)
Nodes(part, fault) == [i \in DOMAIN part |-> EntryNode(part[i], fault)]

LEMMA NodesAreParts ==
    ASSUME NEW part, part \in Seq(Seq(Symbols)), \A i \in DOMAIN part : IsEntry(part[i]), NEW fault
    PROVE  /\ Nodes(part, fault) \in Seq(AllParts) /\ Len(Nodes(part, fault)) = Len(part)
           /\ \A i \in 1 .. Len(part) :
                 /\ Nodes(part, fault)[i] = EntryNode(part[i], fault)
                 /\ EntryNode(part[i], fault) # << >>
                 /\ EntryNode(part[i], fault)[1].name
                       = IF IsFolder(part[i]) THEN "CommonPrefixes" ELSE "Contents"
  <1>1. PICK m \in Nat : m = Len(part) /\ DOMAIN part = 1 .. m
    OBVIOUS
  <1>2. PICK n : n = Nodes(part, fault)
    OBVIOUS
  <1>3. \A i \in 1 .. m : IsNode(EntryNode(part[i], fault), IF IsFolder(part[i]) THEN "CommonPrefixes" ELSE "Contents")
    BY <1>1, EntryIsNode
  <1>4. \A i \in 1 .. m : n[i] = EntryNode(part[i], fault)
    BY <1>1, <1>2 DEF Nodes
  <1>5. \A i \in 1 .. m : n[i] \in AllParts
    BY <1>3, <1>4 DEF IsNode
  <1>6. n \in [1 .. m -> AllParts]
    BY <1>1, <1>2, <1>5 DEF Nodes
  <1>7. n \in Seq(AllParts) /\ Len(n) = m
    BY <1>6, SeqDef
  <1> QED BY <1>1, <1>2, <1>3, <1>4, <1>7 DEF IsNode

(* The two parts of a page that say whether there is more *)
Scalars(truncated, resume) ==
    IsNode(truncated, "IsTruncated") /\ Maybe(resume, "NextContinuationToken")

(* A page with the scalars behind the entries *)
LEMMA ScalarsBehind ==
    ASSUME NEW page, page \in Seq(Seq(Symbols)), \A i \in DOMAIN page : IsEntry(page[i]), NEW fault,
           NEW resume, NEW told, told \in {<<"true">>, <<"True">>, <<"false">>},
           Scalars(Leaf("IsTruncated", told), resume)
    PROVE  IsPage(Nodes(page, fault) \o <<Leaf("IsTruncated", told), resume>>,
                  Chosen(page, FALSE), Chosen(page, TRUE), fault, resume, told)
  <1>1. PICK m \in Nat : m = Len(page) /\ DOMAIN page = 1 .. m
    OBVIOUS
  <1>2. PICK n, t : n = Nodes(page, fault) /\ t = Leaf("IsTruncated", told)
    OBVIOUS
  <1>3. /\ n \in Seq(AllParts) /\ Len(n) = m
        /\ \A i \in 1 .. m : /\ n[i] = EntryNode(page[i], fault)
                             /\ n[i] # << >>
                             /\ n[i][1].name = IF IsFolder(page[i]) THEN "CommonPrefixes" ELSE "Contents"
    <2>1. /\ n \in Seq(AllParts) /\ Len(n) = Len(page)
          /\ \A i \in 1 .. Len(page) :
                /\ n[i] = EntryNode(page[i], fault)
                /\ EntryNode(page[i], fault) # << >>
                /\ EntryNode(page[i], fault)[1].name
                      = IF IsFolder(page[i]) THEN "CommonPrefixes" ELSE "Contents"
      BY <1>2, NodesAreParts
    <2> QED BY <1>1, <2>1
  <1>4. /\ t \in AllParts /\ t # << >> /\ t[1].name = "IsTruncated"
        /\ resume \in AllParts /\ (resume = << >> \/ resume[1].name = "NextContinuationToken")
    <2>1. << >> \in AllParts
      BY DEF AllParts, Part
    <2> QED BY <1>2, <2>1 DEF Scalars, Maybe, IsNode
  <1>5. PICK p : p = n \o <<t, resume>>
    OBVIOUS
  <1>6. /\ p \in Seq(AllParts) /\ Len(p) = m + 2 /\ DOMAIN p = 1 .. m + 2
        /\ (\A i \in 1 .. m : p[i] = n[i]) /\ p[m + 1] = t /\ p[m + 2] = resume
    <2>1. PICK b : b = <<t, resume>>
      OBVIOUS
    <2>2. b \in Seq(AllParts) /\ Len(b) = 2 /\ b[1] = t /\ b[2] = resume
      BY <1>4, <2>1
    <2>3. p = n \o b
      BY <1>5, <2>1
    <2>4. /\ p \in Seq(AllParts) /\ Len(p) = m + 2
          /\ \A i \in 1 .. m + 2 : p[i] = IF i <= m THEN n[i] ELSE b[i - m]
      <3>0. PICK y \in Nat : y = 2
        OBVIOUS
      <3>1. PICK T : T = AllParts
        OBVIOUS
      <3>2. n \in Seq(T) /\ b \in Seq(T) /\ m = Len(n) /\ y = Len(b)
        BY <1>3, <2>2, <3>0, <3>1
      <3>3. /\ p \in Seq(T) /\ Len(p) = m + y
            /\ \A i \in 1 .. m + y : p[i] = IF i <= m THEN n[i] ELSE b[i - m]
        BY <2>3, <3>2, ConcatProperties
      <3> QED BY <3>0, <3>1, <3>3
    <2>5. /\ (\A i \in 1 .. m : i \in 1 .. m + 2 /\ i <= m)
          /\ m + 1 \in 1 .. m + 2 /\ ~(m + 1 <= m) /\ (m + 1) - m = 1
          /\ m + 2 \in 1 .. m + 2 /\ ~(m + 2 <= m) /\ (m + 2) - m = 2
      OBVIOUS
    <2> QED BY <2>2, <2>4, <2>5
  <1>7. \A k \in 1 .. m + 2 : k \in 1 .. m \/ k = m + 1 \/ k = m + 2
    OBVIOUS
  <1>8. (\A k \in 1 .. m : k \in 1 .. m + 2 /\ k # m + 1 /\ k # m + 2) /\ m + 1 \in 1 .. m + 2 /\ m + 2 \in 1 .. m + 2
    OBVIOUS
  <1>9. Writes(p, "IsTruncated", t)
    <2>1. \A k \in 1 .. m + 2 : k # m + 1 => p[k] = << >> \/ p[k][1].name # "IsTruncated"
      <3>1. \A k \in 1 .. m : p[k][1].name # "IsTruncated"
        BY <1>3, <1>6
      <3> QED BY <1>4, <1>6, <1>7, <3>1
    <2> QED BY <1>6, <1>8, <2>1 DEF Writes
  <1>10. Writes(p, "NextContinuationToken", resume)
    <2>1. \A k \in 1 .. m + 2 : k # m + 2 => p[k] = << >> \/ p[k][1].name # "NextContinuationToken"
      <3>1. \A k \in 1 .. m : p[k][1].name # "NextContinuationToken"
        BY <1>3, <1>6
      <3> QED BY <1>4, <1>6, <1>7, <3>1
    <2> QED BY <1>6, <1>8, <2>1 DEF Writes
  <1>11. Heads(p, {"Contents"}) = Places(page, FALSE) /\ Heads(p, {"CommonPrefixes"}) = Places(page, TRUE)
    <2>1. \A k : k \in Heads(p, {"Contents"}) <=> k \in 1 .. m /\ ~IsFolder(page[k])
      BY <1>3, <1>4, <1>6, <1>7, <1>8 DEF Heads
    <2>2. \A k : k \in Heads(p, {"CommonPrefixes"}) <=> k \in 1 .. m /\ IsFolder(page[k])
      BY <1>3, <1>4, <1>6, <1>7, <1>8 DEF Heads
    <2>3. \A k : k \in Places(page, FALSE) <=> k \in 1 .. m /\ ~IsFolder(page[k])
      BY <1>1 DEF Places
    <2>4. \A k : k \in Places(page, TRUE) <=> k \in 1 .. m /\ IsFolder(page[k])
      BY <1>1 DEF Places
    <2> QED BY <2>1, <2>2, <2>3, <2>4
  <1>12. ASSUME NEW b \in BOOLEAN, NEW name, Heads(p, {name}) = Places(page, b)
         PROVE  /\ Chosen(page, b) \in Seq(Seq(Symbols))
                /\ \A k \in DOMAIN Chosen(page, b) : IsEntry(Chosen(page, b)[k]) /\ (IsFolder(Chosen(page, b)[k]) <=> b)
                /\ Lists(p, name, Chosen(page, b), fault)
    <2>1. PICK P, s : P = Places(page, b) /\ s = Ascending(P)
      OBVIOUS
    <2>2. PICK C : C = Chosen(page, b)
      OBVIOUS
    <2>3. PICK c : /\ Enumerates(s, c, P) /\ C = [k \in 1 .. c |-> page[s[k]]]
                   /\ C \in Seq(Seq(Symbols)) /\ DOMAIN C = 1 .. c
      BY <2>1, <2>2, ChosenIs
    <2>4. \A k \in P : k \in 1 .. m /\ (IsFolder(page[k]) <=> b)
      BY <1>1, <2>1 DEF Places
    <2>5. DOMAIN s = 1 .. c /\ \A k \in 1 .. c : s[k] \in P /\ C[k] = page[s[k]]
      BY <2>3 DEF Enumerates
    <2>6. \A k \in 1 .. c : IsEntry(C[k]) /\ (IsFolder(C[k]) <=> b)
      BY <1>1, <2>4, <2>5
    <2>7. \A k \in 1 .. c : s[k] \in 1 .. m + 2 /\ p[s[k]] = EntryNode(C[k], fault)
      BY <1>3, <1>6, <1>8, <2>4, <2>5
    <2>8. s = Ascending(Heads(p, {name}))
      BY <1>12, <2>1
    <2>9. Lists(p, name, C, fault)
      BY <1>6, <2>3, <2>5, <2>7, <2>8 DEF Lists
    <2> QED BY <2>2, <2>3, <2>6, <2>9
  <1>13. PICK C, F : C = Chosen(page, FALSE) /\ F = Chosen(page, TRUE)
    OBVIOUS
  <1>14. /\ C \in Seq(Seq(Symbols)) /\ (\A k \in DOMAIN C : IsEntry(C[k]) /\ ~IsFolder(C[k]))
         /\ Lists(p, "Contents", C, fault)
    BY <1>11, <1>12, <1>13
  <1>15. /\ F \in Seq(Seq(Symbols)) /\ (\A k \in DOMAIN F : IsEntry(F[k]) /\ IsFolder(F[k]))
         /\ Lists(p, "CommonPrefixes", F, fault)
    BY <1>11, <1>12, <1>13
  <1>16. IsPage(p, C, F, fault, resume, told)
    BY <1>2, <1>6, <1>9, <1>10, <1>14, <1>15 DEF IsPage
  <1> QED BY <1>2, <1>5, <1>13, <1>16

(* What a concatenation is made of *)
LEMMA ConcatIs ==
    ASSUME NEW T, NEW a, a \in Seq(T), NEW b, b \in Seq(T), NEW x, x \in Nat, x = Len(a),
           NEW y, y \in Nat, y = Len(b), NEW u, u = a \o b
    PROVE  /\ u \in Seq(T) /\ Len(u) = x + y
           /\ \A i \in 1 .. x + y : u[i] = IF i <= x THEN a[i] ELSE b[i - x]
  BY ConcatProperties

(* Positions that follow each other *)
LEMMA AscendingOfRow ==
    ASSUME NEW z, z \in Nat, NEW c, c \in Nat, NEW S, \A i : i \in S <=> \E k \in 1 .. c : i = z + k
    PROVE  /\ DOMAIN Ascending(S) = 1 .. c
           /\ \A k \in 1 .. c : Ascending(S)[k] = z + k
  <1>1. PICK f : f = [k \in 1 .. c |-> z + k]
    OBVIOUS
  <1>2. \A k \in 1 .. c : f[k] = z + k /\ z + k \in S /\ z + k \in Nat
    BY <1>1
  <1>3. f \in [1 .. c -> S]
    BY <1>1, <1>2
  <1>4. \A i, k \in 1 .. c : i < k => f[i] < f[k]
    BY <1>2
  <1>5. \A s \in S : \E i \in 1 .. c : f[i] = s
    BY <1>2
  <1>6. Enumerates(f, c, S)
    BY <1>3, <1>4, <1>5 DEF Enumerates
  <1>7. S \in SUBSET Nat
    BY <1>2
  <1>8. Ascending(S) = f
    BY <1>6, <1>7, AscendingIsTheEnumeration
  <1> QED BY <1>1, <1>8

(* A page with the scalars in front of the objects, and these in front of the *)
(* folders                                                                   *)
LEMMA ScalarsInFront ==
    ASSUME NEW C, C \in Seq(Seq(Symbols)), \A k \in DOMAIN C : IsEntry(C[k]) /\ ~IsFolder(C[k]),
           NEW F, F \in Seq(Seq(Symbols)), \A k \in DOMAIN F : IsEntry(F[k]) /\ IsFolder(F[k]),
           NEW fault, NEW first, IsNode(first, "Name"),
           NEW resume, NEW told, told \in {<<"true">>, <<"True">>, <<"false">>},
           Scalars(Leaf("IsTruncated", told), resume)
    PROVE  IsPage(<<first, Leaf("IsTruncated", told), resume>> \o Nodes(C, fault) \o Nodes(F, fault),
                  C, F, fault, resume, told)
  <1>1. PICK c \in Nat, f \in Nat : c = Len(C) /\ DOMAIN C = 1 .. c /\ f = Len(F) /\ DOMAIN F = 1 .. f
    OBVIOUS
  <1>2. PICK n, o, t : n = Nodes(C, fault) /\ o = Nodes(F, fault) /\ t = Leaf("IsTruncated", told)
    OBVIOUS
  <1>3. /\ n \in Seq(AllParts) /\ Len(n) = c
        /\ \A i \in 1 .. c : /\ n[i] = EntryNode(C[i], fault)
                             /\ n[i] # << >> /\ n[i][1].name = "Contents"
    <2>1. /\ n \in Seq(AllParts) /\ Len(n) = Len(C)
          /\ \A i \in 1 .. Len(C) :
                /\ n[i] = EntryNode(C[i], fault)
                /\ EntryNode(C[i], fault) # << >>
                /\ EntryNode(C[i], fault)[1].name
                      = IF IsFolder(C[i]) THEN "CommonPrefixes" ELSE "Contents"
      <3>1. C \in Seq(Seq(Symbols)) /\ \A i \in DOMAIN C : IsEntry(C[i])
        OBVIOUS
      <3>2. /\ Nodes(C, fault) \in Seq(AllParts) /\ Len(Nodes(C, fault)) = Len(C)
            /\ \A i \in 1 .. Len(C) :
                  /\ Nodes(C, fault)[i] = EntryNode(C[i], fault)
                  /\ EntryNode(C[i], fault) # << >>
                  /\ EntryNode(C[i], fault)[1].name
                        = IF IsFolder(C[i]) THEN "CommonPrefixes" ELSE "Contents"
        BY ONLY <3>1, NodesAreParts
      <3> QED BY <1>2, <3>2
    <2> QED BY <1>1, <2>1
  <1>4. /\ o \in Seq(AllParts) /\ Len(o) = f
        /\ \A i \in 1 .. f : /\ o[i] = EntryNode(F[i], fault)
                             /\ o[i] # << >> /\ o[i][1].name = "CommonPrefixes"
    <2>1. /\ o \in Seq(AllParts) /\ Len(o) = Len(F)
          /\ \A i \in 1 .. Len(F) :
                /\ o[i] = EntryNode(F[i], fault)
                /\ EntryNode(F[i], fault) # << >>
                /\ EntryNode(F[i], fault)[1].name
                      = IF IsFolder(F[i]) THEN "CommonPrefixes" ELSE "Contents"
      <3>1. F \in Seq(Seq(Symbols)) /\ \A i \in DOMAIN F : IsEntry(F[i])
        OBVIOUS
      <3>2. /\ Nodes(F, fault) \in Seq(AllParts) /\ Len(Nodes(F, fault)) = Len(F)
            /\ \A i \in 1 .. Len(F) :
                  /\ Nodes(F, fault)[i] = EntryNode(F[i], fault)
                  /\ EntryNode(F[i], fault) # << >>
                  /\ EntryNode(F[i], fault)[1].name
                        = IF IsFolder(F[i]) THEN "CommonPrefixes" ELSE "Contents"
        BY ONLY <3>1, NodesAreParts
      <3> QED BY <1>2, <3>2
    <2> QED BY <1>1, <2>1
  <1>5. /\ t \in AllParts /\ t # << >> /\ t[1].name = "IsTruncated"
        /\ resume \in AllParts /\ (resume = << >> \/ resume[1].name = "NextContinuationToken")
        /\ first \in AllParts /\ first # << >> /\ first[1].name = "Name"
    <2>1. << >> \in AllParts
      BY DEF AllParts, Part
    <2> QED BY <1>2, <2>1 DEF Scalars, Maybe, IsNode
  <1>6. PICK b : b = <<first, t, resume>>
    OBVIOUS
  <1>7. b \in Seq(AllParts) /\ Len(b) = 3 /\ b[1] = first /\ b[2] = t /\ b[3] = resume
    BY <1>5, <1>6
  <1>8. PICK u, p : u = b \o n /\ p = u \o o
    OBVIOUS
  <1>9. PICK x \in Nat, y \in Nat : x = 3 /\ y = x + c
    OBVIOUS
  <1>10. PICK T : T = AllParts
    OBVIOUS
  <1>11. b \in Seq(T) /\ n \in Seq(T) /\ o \in Seq(T) /\ Len(b) = x /\ Len(n) = c /\ Len(o) = f
    BY <1>3, <1>4, <1>7, <1>9, <1>10
  <1>12. /\ u \in Seq(T) /\ Len(u) = x + c
         /\ \A i \in 1 .. x + c : u[i] = IF i <= x THEN b[i] ELSE n[i - x]
    <2>1. b \in Seq(T) /\ n \in Seq(T) /\ x \in Nat /\ x = Len(b) /\ c \in Nat /\ c = Len(n) /\ u = b \o n
      BY <1>8, <1>11
    <2> QED BY ONLY <2>1, ConcatIs
  <1>13. /\ p \in Seq(T) /\ Len(p) = y + f
         /\ \A i \in 1 .. y + f : p[i] = IF i <= y THEN u[i] ELSE o[i - y]
    <2>1. u \in Seq(T) /\ o \in Seq(T) /\ y \in Nat /\ y = Len(u) /\ f \in Nat /\ f = Len(o) /\ p = u \o o
      BY <1>8, <1>9, <1>11, <1>12
    <2> QED BY ONLY <2>1, ConcatIs
  <1>14. /\ p \in Seq(AllParts) /\ DOMAIN p = 1 .. y + f
         /\ p[1] = first /\ p[2] = t /\ p[3] = resume
         /\ \A k \in 1 .. c : x + k \in 1 .. y + f /\ p[x + k] = n[k]
         /\ \A k \in 1 .. f : y + k \in 1 .. y + f /\ p[y + k] = o[k]
    <2>1. p \in Seq(AllParts) /\ DOMAIN p = 1 .. y + f
      BY <1>10, <1>13
    <2>2. \A i \in 1 .. 3 : i \in 1 .. y + f /\ i <= y /\ i \in 1 .. x + c /\ i <= x
      BY <1>9
    <2>3. \A i \in 1 .. 3 : p[i] = b[i]
      BY <1>12, <1>13, <2>2
    <2>4. \A k \in 1 .. c : /\ x + k \in 1 .. y + f /\ x + k <= y /\ x + k \in 1 .. x + c
                            /\ ~(x + k <= x) /\ (x + k) - x = k
      BY <1>9
    <2>5. \A k \in 1 .. c : p[x + k] = n[k]
      BY <1>12, <1>13, <2>4
    <2>6. \A k \in 1 .. f : y + k \in 1 .. y + f /\ ~(y + k <= y) /\ (y + k) - y = k
      OBVIOUS
    <2>7. \A k \in 1 .. f : p[y + k] = o[k]
      BY <1>13, <2>6
    <2>8. 1 \in 1 .. 3 /\ 2 \in 1 .. 3 /\ 3 \in 1 .. 3
      OBVIOUS
    <2> QED BY <1>7, <2>1, <2>3, <2>4, <2>5, <2>6, <2>7, <2>8
  <1>15. \A i \in 1 .. y + f : \/ i = 1 \/ i = 2 \/ i = 3
                               \/ (\E k \in 1 .. c : i = x + k) \/ (\E k \in 1 .. f : i = y + k)
    <2> SUFFICES ASSUME NEW i \in 1 .. y + f, i # 1, i # 2, i # 3
                 PROVE  (\E k \in 1 .. c : i = x + k) \/ (\E k \in 1 .. f : i = y + k)
      OBVIOUS
    <2>1. (i - x \in 1 .. c /\ i = x + (i - x)) \/ (i - y \in 1 .. f /\ i = y + (i - y))
      BY <1>9
    <2> QED BY <2>1
  <1>16. /\ \A k \in 1 .. c : p[x + k] # << >> /\ p[x + k][1].name = "Contents"
         /\ \A k \in 1 .. f : p[y + k] # << >> /\ p[y + k][1].name = "CommonPrefixes"
    <2>1. \A k \in 1 .. c : p[x + k] # << >> /\ p[x + k][1].name = "Contents"
      BY <1>3, <1>14
    <2>2. \A k \in 1 .. f : p[y + k] # << >> /\ p[y + k][1].name = "CommonPrefixes"
      BY <1>4, <1>14
    <2> QED BY <2>1, <2>2
  <1>17. 1 \in 1 .. y + f /\ 2 \in 1 .. y + f /\ 3 \in 1 .. y + f
    BY <1>9
  <1>18. Writes(p, "IsTruncated", t)
    <2>1. \A i \in 1 .. y + f : i # 2 => p[i] = << >> \/ p[i][1].name # "IsTruncated"
      BY <1>5, <1>14, <1>15, <1>16
    <2>2. /\ 2 \in DOMAIN p /\ p[2] = t
          /\ \A i \in DOMAIN p : i # 2 => p[i] = << >> \/ p[i][1].name # "IsTruncated"
      BY <1>14, <1>17, <2>1
    <2> QED BY ONLY <2>2 DEF Writes
  <1>19. Writes(p, "NextContinuationToken", resume)
    <2>1. \A i \in 1 .. y + f : i # 3 => p[i] = << >> \/ p[i][1].name # "NextContinuationToken"
      BY <1>5, <1>14, <1>15, <1>16
    <2>2. /\ 3 \in DOMAIN p /\ p[3] = resume
          /\ \A i \in DOMAIN p : i # 3 => p[i] = << >> \/ p[i][1].name # "NextContinuationToken"
      BY <1>14, <1>17, <2>1
    <2> QED BY ONLY <2>2 DEF Writes
  <1>20. Lists(p, "Contents", C, fault)
    <2>1. PICK H : H = Heads(p, {"Contents"})
      OBVIOUS
    <2>2. \A i \in 1 .. y + f : (p[i] # << >> /\ p[i][1].name = "Contents") <=> \E k \in 1 .. c : i = x + k
      <3>1. ASSUME NEW i \in 1 .. y + f, p[i] # << >>, p[i][1].name = "Contents"
            PROVE  \E k \in 1 .. c : i = x + k
        <4>1. i # 1 /\ i # 2 /\ i # 3
          BY <1>5, <1>14, <3>1
        <4> QED BY <1>15, <1>16, <3>1, <4>1
      <3>2. \A k \in 1 .. c : p[x + k] # << >> /\ p[x + k][1].name = "Contents"
        BY <1>16
      <3> QED BY <3>1, <3>2
    <2>3. \A i : i \in H <=> \E k \in 1 .. c : i = x + k
      BY <1>14, <2>1, <2>2 DEF Heads
    <2>4. DOMAIN Ascending(H) = 1 .. c /\ \A k \in 1 .. c : Ascending(H)[k] = x + k
      <3>1. x \in Nat /\ c \in Nat
        OBVIOUS
      <3> QED BY ONLY <2>3, <3>1, AscendingOfRow, ZenonT(60)
    <2> QED BY <1>1, <1>3, <1>14, <2>1, <2>4 DEF Lists
  <1>21. Lists(p, "CommonPrefixes", F, fault)
    <2>1. PICK H : H = Heads(p, {"CommonPrefixes"})
      OBVIOUS
    <2>2. \A i \in 1 .. y + f : (p[i] # << >> /\ p[i][1].name = "CommonPrefixes") <=> \E k \in 1 .. f : i = y + k
      <3>1. ASSUME NEW i \in 1 .. y + f, p[i] # << >>, p[i][1].name = "CommonPrefixes"
            PROVE  \E k \in 1 .. f : i = y + k
        <4>1. i # 1 /\ i # 2 /\ i # 3
          BY <1>5, <1>14, <3>1
        <4> QED BY <1>15, <1>16, <3>1, <4>1
      <3>2. \A k \in 1 .. f : p[y + k] # << >> /\ p[y + k][1].name = "CommonPrefixes"
        BY <1>16
      <3> QED BY <3>1, <3>2
    <2>3. \A i : i \in H <=> \E k \in 1 .. f : i = y + k
      BY <1>14, <2>1, <2>2 DEF Heads
    <2>4. DOMAIN Ascending(H) = 1 .. f /\ \A k \in 1 .. f : Ascending(H)[k] = y + k
      <3>1. y \in Nat /\ f \in Nat
        OBVIOUS
      <3> QED BY ONLY <2>3, <3>1, AscendingOfRow, ZenonT(60)
    <2> QED BY <1>1, <1>4, <1>14, <2>1, <2>4 DEF Lists
  <1>22. IsPage(p, C, F, fault, resume, told)
    BY <1>2, <1>14, <1>18, <1>19, <1>20, <1>21 DEF IsPage
  <1> QED BY <1>2, <1>6, <1>8, <1>22

-----------------------------------------------------------------------------
(* What a page says about more of them, and the token it sends *)
Told(more) ==
    CASE more /\ style = "ceph" -> <<"True">>
      [] more /\ style # "ceph" -> <<"true">>
      [] OTHER -> <<"false">>
ResumePart(more, next, fault) ==
    CASE fault = "no_token" -> << >>
      [] fault = "empty_token" -> <<Empty("NextContinuationToken")>>
      [] fault \notin {"no_token", "empty_token"}
            /\ (more \/ (style = "minio" /\ next # None)) ->
            Leaf("NextContinuationToken", Escape(next))
      [] OTHER -> << >>

LEMMA ScalarsAreWritten ==
    ASSUME NEW more, more \in BOOLEAN, NEW next, next \in Seq(Symbols), NEW fault
    PROVE  /\ Told(more) \in {<<"true">>, <<"True">>, <<"false">>}
           /\ more <=> Told(more) # <<"false">>
           /\ Sends(ResumePart(more, next, fault), next)
           /\ Scalars(Leaf("IsTruncated", Told(more)), ResumePart(more, next, fault))
  <1>0. <<"true">> # <<"false">> /\ <<"True">> # <<"false">>
    OBVIOUS
  <1>1. /\ Told(more) \in {<<"true">>, <<"True">>, <<"false">>}
        /\ more <=> Told(more) # <<"false">>
    <2>1. CASE more /\ style = "ceph"
      BY <1>0, <2>1 DEF Told
    <2>2. CASE more /\ style # "ceph"
      BY <1>0, <2>2 DEF Told
    <2>3. CASE ~more
      BY <1>0, <2>3 DEF Told
    <2> QED BY <2>1, <2>2, <2>3
  <1>2. Sends(ResumePart(more, next, fault), next)
    BY DEF Sends, ResumePart
  <1>3. "IsTruncated" \in Names /\ "NextContinuationToken" \in Names
    BY DEF Names
  <1>4. Told(more) \in Seq(Symbols)
    <2>1. "true" \in Symbols /\ "True" \in Symbols /\ "false" \in Symbols
      BY DEF Symbols
    <2>2. <<"true">> \in Seq(Symbols) /\ <<"True">> \in Seq(Symbols) /\ <<"false">> \in Seq(Symbols)
      BY <2>1
    <2> QED BY <1>1, <2>2
  <1>5. IsNode(Leaf("IsTruncated", Told(more)), "IsTruncated")
    BY <1>3, <1>4, LeafIsNode
  <1>6. Maybe(ResumePart(more, next, fault), "NextContinuationToken")
    <2>1. PICK e \in Seq(Symbols) : e = Escape(next)
      BY EscapeIsUndone
    <2>2. /\ IsNode(Leaf("NextContinuationToken", e), "NextContinuationToken")
          /\ IsNode(<<Empty("NextContinuationToken")>>, "NextContinuationToken")
      BY <1>3, LeafIsNode, EmptyIsNode
    <2> QED BY <1>2, <2>1, <2>2 DEF Sends, Maybe
  <1> QED BY <1>1, <1>2, <1>5, <1>6 DEF Scalars

(* The parts of a page that is not faulty as a whole *)
PageParts(page, more, next, fault) ==
    IF style = "ceph"
    THEN Nodes(page, fault) \o <<Leaf("IsTruncated", Told(more)), ResumePart(more, next, fault)>>
    ELSE <<Leaf("Name", <<"bucket">>), Leaf("IsTruncated", Told(more)), ResumePart(more, next, fault)>>
             \o Nodes(Chosen(page, FALSE), fault) \o Nodes(Chosen(page, TRUE), fault)

LEMMA PartsOfPage ==
    ASSUME NEW page, page \in Seq(Seq(Symbols)), \A i \in DOMAIN page : IsEntry(page[i]), NEW fault,
           NEW more, more \in BOOLEAN, NEW next, next \in Seq(Symbols)
    PROVE  IsPage(PageParts(page, more, next, fault), Chosen(page, FALSE), Chosen(page, TRUE), fault,
                  ResumePart(more, next, fault), Told(more))
  <1>1. PICK told, resume : told = Told(more) /\ resume = ResumePart(more, next, fault)
    OBVIOUS
  <1>2. told \in {<<"true">>, <<"True">>, <<"false">>} /\ Scalars(Leaf("IsTruncated", told), resume)
    BY <1>1, ScalarsAreWritten
  <1>3. PICK C, F : C = Chosen(page, FALSE) /\ F = Chosen(page, TRUE)
    OBVIOUS
  <1>4. CASE style = "ceph"
    <2>1. page \in Seq(Seq(Symbols)) /\ \A i \in DOMAIN page : IsEntry(page[i])
      OBVIOUS
    <2>2. IsPage(Nodes(page, fault) \o <<Leaf("IsTruncated", told), resume>>,
                 Chosen(page, FALSE), Chosen(page, TRUE), fault, resume, told)
      BY ONLY <1>2, <2>1, ScalarsBehind
    <2> QED BY <1>1, <1>4, <2>2 DEF PageParts
  <1>5. CASE style # "ceph"
    <2>1. ASSUME NEW b \in BOOLEAN
          PROVE  /\ Chosen(page, b) \in Seq(Seq(Symbols))
                 /\ \A k \in DOMAIN Chosen(page, b) : IsEntry(Chosen(page, b)[k]) /\ (IsFolder(Chosen(page, b)[k]) <=> b)
      <3>1. PICK P, s, D : P = Places(page, b) /\ s = Ascending(P) /\ D = Chosen(page, b)
        OBVIOUS
      <3>2. PICK d : /\ Enumerates(s, d, P) /\ D = [k \in 1 .. d |-> page[s[k]]]
                     /\ D \in Seq(Seq(Symbols)) /\ DOMAIN D = 1 .. d
        BY <3>1, ChosenIs, ZenonT(60)
      <3>3. \A k \in P : IsEntry(page[k]) /\ (IsFolder(page[k]) <=> b)
        BY <3>1 DEF Places
      <3>4. \A k \in 1 .. d : s[k] \in P /\ D[k] = page[s[k]]
        BY <3>2 DEF Enumerates
      <3> QED BY <3>1, <3>2, <3>3, <3>4
    <2>2. C \in Seq(Seq(Symbols)) /\ \A k \in DOMAIN C : IsEntry(C[k]) /\ ~IsFolder(C[k])
      BY <1>3, <2>1
    <2>3. F \in Seq(Seq(Symbols)) /\ \A k \in DOMAIN F : IsEntry(F[k]) /\ IsFolder(F[k])
      BY <1>3, <2>1
    <2>4. PICK first : first = Leaf("Name", <<"bucket">>)
      OBVIOUS
    <2>5. IsNode(first, "Name")
      <3>1. "bucket" \in Symbols /\ "Name" \in Names
        BY DEF Symbols, Names
      <3>2. <<"bucket">> \in Seq(Symbols)
        BY <3>1
      <3> QED BY <2>4, <3>1, <3>2, LeafIsNode
    <2>6. IsPage(<<first, Leaf("IsTruncated", told), resume>> \o Nodes(C, fault) \o Nodes(F, fault),
                 C, F, fault, resume, told)
      BY ONLY <1>2, <2>2, <2>3, <2>5, ScalarsInFront
    <2> QED BY <1>1, <1>3, <1>5, <2>4, <2>6 DEF PageParts
  <1> QED BY <1>4, <1>5

(* What the next page is to be asked with *)
NextOf(page, n) == IF n > 0 THEN TokenFor(page[n]) ELSE token

(* The page is of the first n, and there is more. *)
PageFrom(page, next, n, entries, fault) ==
    /\ page = SubSeq(entries, 1, n) /\ next = NextOf(page, n)
    /\ fault # "html" /\ fault # "empty_root"
IsMore(more, n, entries) == more \in BOOLEAN /\ (more <=> n < Len(entries))

(* The page is a node of these parts, unless it is faulty as a whole. *)
LEMMA PageIsComposed ==
    ASSUME NEW entries, NEW n, NEW fault, NEW page, NEW next, NEW more,
           PageFrom(page, next, n, entries, fault), IsMore(more, n, entries)
    PROVE  PageOf(entries, n, fault) = NodeOf("ListBucketResult", PageParts(page, more, next, fault))
  <1>0. /\ page = SubSeq(entries, 1, n) /\ next = IF n > 0 THEN TokenFor(page[n]) ELSE token
        /\ fault \notin {"html", "empty_root"}
    BY DEF PageFrom, NextOf
  <1>00. more \in BOOLEAN /\ (more <=> n < Len(entries))
    BY DEF IsMore
  <1>1. PICK told, resume : told = Told(more) /\ resume = ResumePart(more, next, fault)
    OBVIOUS
  <1>2. told = CASE n < Len(entries) /\ style = "ceph" -> <<"True">>
                 [] n < Len(entries) /\ style # "ceph" -> <<"true">>
                 [] OTHER -> <<"false">>
    BY <1>00, <1>1 DEF Told
  <1>3. resume = CASE fault = "no_token" -> << >>
                   [] fault = "empty_token" -> <<Empty("NextContinuationToken")>>
                   [] fault \notin {"no_token", "empty_token"}
                         /\ (n < Len(entries) \/ (style = "minio" /\ next # None)) ->
                         Leaf("NextContinuationToken", Escape(next))
                   [] OTHER -> << >>
    BY <1>00, <1>1 DEF ResumePart
  <1>4. CASE style = "ceph"
    <2>1. PageOf(entries, n, fault) =
             NodeOf("ListBucketResult", Nodes(page, fault) \o <<Leaf("IsTruncated", told), resume>>)
      BY <1>0, <1>2, <1>3, <1>4 DEF PageOf, Nodes
    <2> QED BY <1>1, <1>4, <2>1 DEF PageParts
  <1>5. CASE style # "ceph"
    <2>1. PageOf(entries, n, fault) =
             NodeOf("ListBucketResult",
                    <<Leaf("Name", <<"bucket">>), Leaf("IsTruncated", told), resume>>
                      \o Nodes(Chosen(page, FALSE), fault) \o Nodes(Chosen(page, TRUE), fault))
      BY <1>0, <1>2, <1>3, <1>5 DEF PageOf, Nodes
    <2> QED BY <1>1, <1>5, <2>1 DEF PageParts
  <1> QED BY <1>4, <1>5

(* Of a page of something else nothing is read. *)
LEMMA HtmlIsRefused ==
    ASSUME NEW entries, NEW n
    PROVE  parse_list_objects_v2(PageOf(entries, n, "html")) = Failed
  <1>1. PICK doc : doc = <<Open("html"), Empty("hr"), Close("html")>>
    OBVIOUS
  <1>2. PageOf(entries, n, "html") = doc
    BY <1>1 DEF PageOf
  <1>3. \A i \in DOMAIN doc : doc[i].name \in {"html", "hr"}
    <2>1. /\ DOMAIN doc = 1 .. 3 /\ doc[1] = Open("html") /\ doc[2] = Empty("hr")
          /\ doc[3] = Close("html")
      BY <1>1
    <2>2. \A i \in 1 .. 3 : i = 1 \/ i = 2 \/ i = 3
      OBVIOUS
    <2>3. Open("html").name = "html" /\ Empty("hr").name = "hr" /\ Close("html").name = "html"
      BY DEF Open, Empty, Close
    <2> QED BY <2>1, <2>2, <2>3
  <1>4. Len(<<"ListBucketResult">>) = 1 /\ <<"ListBucketResult">>[1] = "ListBucketResult"
    OBVIOUS
  <1>5. NodesAt(doc, <<"ListBucketResult">>) = {}
    BY <1>3, <1>4 DEF NodesAt, Tagged
  <1> QED BY <1>2, <1>5 DEF parse_list_objects_v2

(* A root that closes itself is a page of nothing. *)
LEMMA EmptyRootIsRead ==
    ASSUME NEW doc, doc = <<Empty("ListBucketResult")>>
    PROVE  /\ parse_list_objects_v2(doc) \in {Failed, Page(<< >>, << >>, None)}
           /\ parse_list_objects_v2(doc).ok
  <1>1. IsNode(doc, "ListBucketResult")
    <2>1. "ListBucketResult" \in Names
      BY DEF Names
    <2> QED BY <2>1, EmptyIsNode
  <1>2. NodesAt(doc, <<"ListBucketResult">>) = {1} /\ Min({1}) = 1
    BY <1>1, RootIsFirst
  <1>3. doc[1].tag = "empty"
    <2>1. doc[1] = Empty("ListBucketResult")
      OBVIOUS
    <2> QED BY <2>1 DEF Empty
  <1>4. \A names : next_child_of(doc, 1, names) = << >>
    <2> SUFFICES ASSUME NEW names PROVE next_child_of(doc, 1, names) = << >>
      OBVIOUS
    <2>1. \A i : ~Inside(doc, 1, i)
      BY <1>3 DEF Inside
    <2>2. {i \in Named(doc, names) : /\ 1 < i
                                     /\ Level(doc, i) = Level(doc, 1) + 1
                                     /\ Inside(doc, 1, i)} = {}
      BY <2>1
    <2> QED BY <2>2, AscendingOfOne DEF next_child_of
  <1>5. NextToken(doc, 1) = None
    <2>1. LastOf(doc, 1, "IsTruncated") = None
      BY <1>4 DEF LastOf
    <2>2. ~is_truncated(doc, 1)
      BY <2>1 DEF is_truncated, None
    <2> QED BY <2>2 DEF NextToken
  <1>6. PICK c, f, o, pre, next :
            /\ c = next_child_of(doc, 1, {"Contents"})
            /\ f = next_child_of(doc, 1, {"CommonPrefixes"})
            /\ o = [i \in DOMAIN c |-> read_object(doc, c[i])]
            /\ pre = FlattenSeq([i \in DOMAIN f |-> read_common_prefixes(doc, f[i])])
            /\ next = NextToken(doc, 1)
    OBVIOUS
  <1>7. \/ parse_list_objects_v2(doc) = Failed
        \/ parse_list_objects_v2(doc) = [ok |-> TRUE, objects |-> o, common_prefixes |-> pre, token |-> next]
    <2>1. \/ parse_list_objects_v2(doc) = Failed
          \/ /\ parse_list_objects_v2(doc) = [ok |-> TRUE, objects |-> o, common_prefixes |-> pre, token |-> next]
             /\ \A i \in DOMAIN o : o[i].key # None
             /\ \A i \in DOMAIN pre : pre[i] # None
             /\ next # <<"missing">>
      BY ONLY <1>2, <1>6, ParsedIsRead
    <2> QED BY <2>1
  <1>8. o = << >> /\ pre = << >>
    <2>1. c = << >> /\ f = << >>
      BY <1>4, <1>6
    <2>2. [i \in DOMAIN f |-> read_common_prefixes(doc, f[i])] = << >>
      BY <2>1
    <2>3. FlattenSeq(<< >>) = << >>
      BY DEF FlattenSeq
    <2> QED BY <1>6, <2>1, <2>2, <2>3
  <1>9. Page(<< >>, << >>, None) = [ok |-> TRUE, objects |-> << >>, common_prefixes |-> << >>, token |-> None]
    BY DEF Page
  <1>10. parse_list_objects_v2(doc).ok
    <2>1. is_safe_to_read(doc)
      BY <1>1, NodeIsSafe
    <2>2. None # <<"missing">>
      BY DEF None
    <2>3. (\A i \in DOMAIN o : o[i].key # None) /\ (\A i \in DOMAIN pre : pre[i] # None) /\ next # <<"missing">>
      <3>1. DOMAIN << >> = {}
        OBVIOUS
      <3> QED BY <1>5, <1>6, <1>8, <2>2, <3>1
    <2>4. parse_list_objects_v2(doc) = [ok |-> TRUE, objects |-> o, common_prefixes |-> pre, token |-> next]
      BY ONLY <1>2, <1>6, <2>1, <2>3, ReadIsParsed
    <2> QED BY <2>4
  <1> QED BY <1>5, <1>6, <1>7, <1>8, <1>9, <1>10

(* What a page of the first n is followed by *)
Following(entries, n) == IF n < Len(entries) THEN TokenFor(entries[n]) ELSE None

(* The document is a page of those, written part by part. *)
IsPageOf(doc, objs, folders, fault, to) ==
    \E parts, resume, told, next :
        /\ doc = NodeOf("ListBucketResult", parts)
        /\ IsPage(parts, objs, folders, fault, resume, told)
        /\ next \in Seq(Symbols) /\ next # << >> /\ Sends(resume, next)
        /\ (IF told = <<"false">> THEN None ELSE next) = to
        /\ fault \notin Broken /\ told # <<"false">> =>
              resume = Leaf("NextContinuationToken", Escape(next)) /\ next # <<"missing">>

(* A page that is not faulty as a whole, part by part *)
LEMMA PageOfIsPage ==
    ASSUME NEW entries, entries \in Seq(Seq(Symbols)), \A i \in DOMAIN entries : IsEntry(entries[i]),
           NEW n, n \in Nat, n <= Len(entries), n = 0 => entries = << >>,
           NEW fault, fault \notin {"html", "empty_root"},
           token \in Seq(Symbols), token # << >>
    PROVE  IsPageOf(PageOf(entries, n, fault), Chosen(SubSeq(entries, 1, n), FALSE),
                    Chosen(SubSeq(entries, 1, n), TRUE), fault, Following(entries, n))
  <1>1. PICK x \in Nat : x = Len(entries) /\ DOMAIN entries = 1 .. x
    OBVIOUS
  <1>2. PICK page : page = SubSeq(entries, 1, n)
    OBVIOUS
  <1>3. /\ page \in Seq(Seq(Symbols)) /\ DOMAIN page = 1 .. n /\ Len(page) = n
        /\ \A i \in 1 .. n : page[i] = entries[i] /\ page[i] \in Seq(Symbols) /\ IsEntry(page[i])
    <2>1. \A i \in 1 .. n : i \in 1 .. x
      BY <1>1
    <2>2. \A i \in 1 .. n : entries[i] \in Seq(Symbols) /\ IsEntry(entries[i])
      <3>1. PICK T : T = Seq(Symbols)
        OBVIOUS
      <3>2. \A i \in 1 .. x : entries[i] \in T
        <4>1. entries \in Seq(T)
          BY <3>1
        <4> QED BY <1>1, <4>1
      <3>3. \A i \in 1 .. x : IsEntry(entries[i])
        BY <1>1
      <3> QED BY <2>1, <3>1, <3>2, <3>3
    <2>3. 1 \in 1 .. x + 1 /\ n \in 0 .. x
      BY <1>1
    <2>4. page \in Seq(Seq(Symbols)) /\ Len(page) = n /\ \A i \in 1 .. n : page[i] = entries[i]
      <3>1. page = [i \in 1 .. n |-> entries[i]]
        BY <1>1, <1>2, <2>1
      <3>2. page \in [1 .. n -> Seq(Symbols)]
        BY <2>2, <3>1
      <3> QED BY <3>1, <3>2, SeqDef
    <2> QED BY <2>2, <2>4
  <1>4. PICK next : next = IF n > 0 THEN TokenFor(page[n]) ELSE token
    OBVIOUS
  <1>5. next \in Seq(Symbols) /\ next # << >>
    <2>1. CASE n > 0
      <3>1. PICK e \in Seq(Symbols) : e = page[n]
        BY <1>3, <2>1
      <3>2. "+" \in Symbols
        BY DEF Symbols
      <3>3. <<"+">> \in Seq(Symbols)
        BY <3>2
      <3>4. PICK a \in Seq(Symbols) : a = <<"+">> /\ Len(a) = 1
        BY <3>3
      <3>5. next = a \o e
        BY <1>4, <2>1, <3>1, <3>4 DEF TokenFor
      <3> QED BY <3>4, <3>5
    <2>2. CASE ~(n > 0)
      BY <1>4, <2>2
    <2> QED BY <2>1, <2>2
  <1>6. PICK more : IsMore(more, n, entries)
    BY DEF IsMore
  <1>7. more \in BOOLEAN /\ (more <=> n < Len(entries))
    BY <1>6 DEF IsMore
  <1>8. PICK p, resume, told : /\ p = PageParts(page, more, next, fault)
                               /\ resume = ResumePart(more, next, fault) /\ told = Told(more)
    OBVIOUS
  <1>9. PageOf(entries, n, fault) = NodeOf("ListBucketResult", p)
    <2>1. PageOf(entries, n, fault)
             = NodeOf("ListBucketResult", PageParts(page, more, next, fault))
      <3>1. next = NextOf(page, n)
        BY <1>4 DEF NextOf
      <3>2. PageFrom(page, next, n, entries, fault)
        BY <1>2, <3>1 DEF PageFrom
      <3> QED BY ONLY <1>6, <3>2, PageIsComposed
    <2> QED BY <1>8, <2>1
  <1>10. PICK C, F : C = Chosen(page, FALSE) /\ F = Chosen(page, TRUE)
    OBVIOUS
  <1>11. IsPage(p, C, F, fault, resume, told)
    <2>1. page \in Seq(Seq(Symbols)) /\ (\A i \in DOMAIN page : IsEntry(page[i])) /\ more \in BOOLEAN
      BY <1>3, <1>7
    <2>2. IsPage(PageParts(page, more, next, fault), Chosen(page, FALSE), Chosen(page, TRUE), fault,
                ResumePart(more, next, fault), Told(more))
      BY ONLY <1>5, <2>1, PartsOfPage
    <2> QED BY <1>8, <1>10, <2>2
  <1>12. Sends(resume, next) /\ (more <=> told # <<"false">>)
    BY <1>5, <1>7, <1>8, ScalarsAreWritten
  <1>14. (IF told = <<"false">> THEN None ELSE next)
            = IF n < Len(entries) THEN TokenFor(entries[n]) ELSE None
    <2>1. CASE n < Len(entries)
      <3>1. n > 0 /\ n \in 1 .. n
        BY <1>1, <2>1
      <3>2. page[n] = entries[n]
        BY <1>3, <3>1
      <3> QED BY <1>4, <1>7, <1>12, <2>1, <3>1, <3>2
    <2>2. CASE ~(n < Len(entries))
      BY <1>7, <1>12, <2>2
    <2> QED BY <2>1, <2>2
  <1>15. (IF told = <<"false">> THEN None ELSE next) = Following(entries, n)
    BY <1>14 DEF Following
  <1> HIDE DEF Following
  <1>16. PICK doc, to : doc = PageOf(entries, n, fault) /\ to = Following(entries, n)
    OBVIOUS
  <1>18. ASSUME fault \notin Broken, told # <<"false">>
         PROVE  resume = Leaf("NextContinuationToken", Escape(next)) /\ next # <<"missing">>
    <2>1. more
      BY <1>12, <1>18
    <2>2. resume = Leaf("NextContinuationToken", Escape(next))
      BY <1>8, <1>18, <2>1 DEF ResumePart, Broken
    <2>3. n \in 1 .. n
      BY <1>1, <1>7, <2>1
    <2>4. PICK e \in Seq(Symbols) : e = page[n] /\ next = TokenFor(e)
      BY <1>3, <1>4, <2>3
    <2>5. next[1] = "+"
      <3>1. "+" \in Symbols
        BY DEF Symbols
      <3>2. <<"+">> \in Seq(Symbols) /\ Len(<<"+">>) = 1 /\ <<"+">>[1] = "+"
        BY <3>1
      <3>3. PICK a \in Seq(Symbols) : a = <<"+">> /\ Len(a) = 1 /\ a[1] = "+"
        BY <3>2
      <3>4. next = a \o e
        BY <2>4, <3>3 DEF TokenFor
      <3> QED BY <3>3, <3>4
    <2> QED BY <2>2, <2>5
  <1>17. IsPageOf(doc, C, F, fault, to)
    BY <1>5, <1>9, <1>11, <1>12, <1>15, <1>16, <1>18 DEF IsPageOf
  <1> QED BY <1>2, <1>10, <1>16, <1>17

(* A page is read as the entries that were to be in it, or not at all; and it *)
(* is read, if there is nothing wrong with it.                               *)
LEMMA PageOfIsRead ==
    ASSUME NEW entries, entries \in Seq(Seq(Symbols)), \A i \in DOMAIN entries : IsEntry(entries[i]),
           NEW n, n \in Nat, n <= Len(entries), n = 0 => entries = << >>,
           NEW fault, fault = "empty_root" => entries = << >>,
           token \in Seq(Symbols), token # << >>
    PROVE  /\ parse_list_objects_v2(PageOf(entries, n, fault))
                 \in {Failed, Page(Chosen(SubSeq(entries, 1, n), FALSE), Chosen(SubSeq(entries, 1, n), TRUE),
                                   Following(entries, n))}
           /\ fault \notin Broken /\ (\A i \in DOMAIN entries : entries[i] # None)
                => parse_list_objects_v2(PageOf(entries, n, fault)).ok
  <1>1. PICK x \in Nat : x = Len(entries) /\ DOMAIN entries = 1 .. x
    OBVIOUS
  <1>2. PICK page : page = SubSeq(entries, 1, n)
    OBVIOUS
  <1>3. /\ page \in Seq(Seq(Symbols)) /\ DOMAIN page = 1 .. n /\ Len(page) = n
        /\ \A i \in 1 .. n : page[i] = entries[i] /\ page[i] \in Seq(Symbols) /\ IsEntry(page[i])
    <2>1. \A i \in 1 .. n : i \in 1 .. x
      BY <1>1
    <2>2. \A i \in 1 .. n : entries[i] \in Seq(Symbols) /\ IsEntry(entries[i])
      <3>1. PICK T : T = Seq(Symbols)
        OBVIOUS
      <3>2. \A i \in 1 .. x : entries[i] \in T
        <4>1. entries \in Seq(T)
          BY <3>1
        <4> QED BY <1>1, <4>1
      <3>3. \A i \in 1 .. x : IsEntry(entries[i])
        BY <1>1
      <3> QED BY <2>1, <3>1, <3>2, <3>3
    <2>3. 1 \in 1 .. x + 1 /\ n \in 0 .. x
      BY <1>1
    <2>4. page \in Seq(Seq(Symbols)) /\ Len(page) = n /\ \A i \in 1 .. n : page[i] = entries[i]
      <3>1. page = [i \in 1 .. n |-> entries[i]]
        BY <1>1, <1>2, <2>1
      <3>2. page \in [1 .. n -> Seq(Symbols)]
        BY <2>2, <3>1
      <3> QED BY <3>1, <3>2, SeqDef
    <2> QED BY <2>2, <2>4
  <1>4. CASE fault = "html"
    BY <1>4, HtmlIsRefused DEF Broken
  <1>5. CASE fault = "empty_root"
    <2>1. x = 0 /\ n = 0
      BY <1>1, <1>5
    <2>2. PageOf(entries, n, fault) = <<Empty("ListBucketResult")>>
      BY <1>5 DEF PageOf
    <2>3. ASSUME NEW b \in BOOLEAN PROVE Chosen(page, b) = << >>
      <3>1. {i \in DOMAIN page : IsFolder(page[i]) <=> b} = {}
        BY <1>3, <2>1
      <3>2. PICK a : a = Ascending({i \in DOMAIN page : IsFolder(page[i]) <=> b})
        OBVIOUS
      <3>3. a = << >>
        BY <3>1, <3>2, AscendingOfOne
      <3>4. Chosen(page, b) = [k \in DOMAIN a |-> page[a[k]]]
        BY <3>2 DEF Chosen
      <3> QED BY <3>3, <3>4
    <2>4. Following(entries, n) = None
      BY <1>1, <2>1 DEF Following
    <2> QED BY <1>2, <2>2, <2>3, <2>4, EmptyRootIsRead
  <1>6. CASE fault \notin {"html", "empty_root"}
    <2>1. PICK C, F, doc, to :
              /\ C = Chosen(SubSeq(entries, 1, n), FALSE) /\ F = Chosen(SubSeq(entries, 1, n), TRUE)
              /\ doc = PageOf(entries, n, fault) /\ to = Following(entries, n)
      OBVIOUS
    <2>2. PICK parts, resume, told, next :
              /\ doc = NodeOf("ListBucketResult", parts)
              /\ IsPage(parts, C, F, fault, resume, told)
              /\ next \in Seq(Symbols) /\ next # << >> /\ Sends(resume, next)
              /\ (IF told = <<"false">> THEN None ELSE next) = to
              /\ fault \notin Broken /\ told # <<"false">> =>
                    resume = Leaf("NextContinuationToken", Escape(next)) /\ next # <<"missing">>
      <3>1. IsPageOf(PageOf(entries, n, fault), Chosen(SubSeq(entries, 1, n), FALSE),
                    Chosen(SubSeq(entries, 1, n), TRUE), fault, Following(entries, n))
        BY <1>6, PageOfIsPage
      <3>2. IsPageOf(doc, C, F, fault, to)
        BY <2>1, <3>1
      <3> QED BY <3>2 DEF IsPageOf
    <2>3. /\ parse_list_objects_v2(NodeOf("ListBucketResult", parts))
                \in {Failed, Page(C, F, IF told = <<"false">> THEN None ELSE next)}
          /\ Readable(C, F, fault, resume, told, next)
                => parse_list_objects_v2(NodeOf("ListBucketResult", parts)).ok
      BY ONLY <2>2, PageIsRead
    <2>4. parse_list_objects_v2(doc) \in {Failed, Page(C, F, to)}
      BY <2>2, <2>3
    <2>5. ASSUME fault \notin Broken, \A i \in DOMAIN entries : entries[i] # None
          PROVE  parse_list_objects_v2(doc).ok
      <3>1. \A i \in 1 .. n : page[i] # None
        <4>1. \A i \in 1 .. n : i \in DOMAIN entries
          BY <1>1
        <4> QED BY <1>3, <2>5, <4>1
      <3>2. ASSUME NEW b \in BOOLEAN PROVE \A k \in DOMAIN Chosen(page, b) : Chosen(page, b)[k] # None
        <4>1. PICK P, s, D : P = Places(page, b) /\ s = Ascending(P) /\ D = Chosen(page, b)
          OBVIOUS
        <4>2. PICK d : /\ Enumerates(s, d, P) /\ D = [k \in 1 .. d |-> page[s[k]]]
                       /\ DOMAIN D = 1 .. d
          BY <1>3, <4>1, ChosenIs, ZenonT(60)
        <4>3. \A k \in 1 .. d : s[k] \in 1 .. n /\ D[k] = page[s[k]]
          BY <1>3, <4>1, <4>2 DEF Enumerates, Places
        <4> QED BY <3>1, <4>1, <4>2, <4>3
      <3>3. Readable(C, F, fault, resume, told, next)
        BY <1>2, <2>1, <2>2, <2>5, <3>2 DEF Readable
      <3> QED BY <2>2, <2>3, <3>3
    <2> QED BY <2>1, <2>4, <2>5
  <1> QED BY <1>4, <1>5, <1>6

-----------------------------------------------------------------------------
(* What is left of a page that was cut is not read. *)
LEMMA CutIsRefused ==
    ASSUME NEW doc, Elem(doc), NEW b \in CutShort(doc)
    PROVE  parse_list_objects_v2(b) = Failed
  <1>1. PICK m \in Nat : m = Len(doc) /\ DOMAIN doc = 1 .. m /\ m >= 1
    BY DEF Elem
  <1>2. \A i \in 1 .. m : doc[i] \in WholeTokens
    BY <1>1 DEF Elem
  <1>3. PICK n \in 0 .. m - 1 :
            \/ b = SubSeq(doc, 1, n)
            \/ b = Append(SubSeq(doc, 1, n), Cut(doc[n + 1].name))
    BY <1>1 DEF CutShort
  <1>4. n \in Nat /\ n < m
    BY <1>3
  <1>5. PICK a : a = SubSeq(doc, 1, n)
    OBVIOUS
  <1>6. a \in Seq(WholeTokens) /\ Len(a) = n /\ \A i \in 1 .. n : a[i] = doc[i]
    <2>1. \A i \in 1 .. n : i \in 1 .. m
      BY <1>4
    <2>2. a = [i \in 1 .. n |-> doc[i]]
      BY <1>1, <1>4, <1>5, <2>1 DEF Elem
    <2>3. a \in [1 .. n -> WholeTokens]
      BY <1>2, <2>1, <2>2
    <2> QED BY <1>4, <2>2, <2>3, SeqDef
  <1>7. \A i \in 1 .. n : a[i] \in WholeTokens
    BY <1>2, <1>4, <1>6
  <1>8. ASSUME NEW c, c = a \/ c = Append(a, Cut(doc[n + 1].name))
        PROVE  /\ \A i \in 1 .. n : c[i] \in WholeTokens
               /\ \A i \in 1 .. n + 1 : Level(c, i) = Level(doc, i)
    <2>1. \A i \in 1 .. n : c[i] = a[i]
      BY <1>6, <1>8
    <2>2. Has(doc, 0, a) /\ Has(c, 0, a)
      <3>1. Len(c) \in Nat /\ n <= Len(c)
        BY <1>4, <1>6, <1>8
      <3> QED BY <1>1, <1>4, <1>6, <2>1, <3>1 DEF Has
    <2>3. ASSUME NEW e, Has(e, 0, a)
          PROVE  \A i \in 1 .. n + 1 : Level(e, i) = Level(a, i)
      <3>1. \A k \in 1 .. n + 1 : /\ Level(e, 0 + k) = Level(e, 0 + 1) + Level(a, k)
                                  /\ Level(e, 0 + 1) \in Int /\ Level(a, k) \in Int
        BY <1>4, <1>6, <2>3, LevelOfPart
      <3>2. Level(e, 1) = 0
        BY LevelSteps
      <3> QED BY <3>1, <3>2
    <2> QED BY <1>7, <2>1, <2>2, <2>3
  <1>9. \A i \in 1 .. n + 1 : Level(doc, i) >= 0 /\ (i >= 2 => Level(doc, i) >= 1)
    <2>1. \A i \in 2 .. m : Level(doc, i) >= 1
      BY <1>1 DEF Elem
    <2>2. Level(doc, 1) = 0
      BY LevelSteps
    <2>3. \A i \in Nat \ {0} : Level(doc, i) \in Int
      BY LevelSteps
    <2>4. \A i \in 1 .. n + 1 : i = 1 \/ i \in 2 .. m
      BY <1>4
    <2> QED BY <1>4, <2>1, <2>2, <2>3, <2>4
  <1>10. \A i \in 1 .. n : b[i] \in WholeTokens
    BY <1>3, <1>5, <1>8
  <1>11. \A i \in 1 .. n + 1 : Level(b, i) = Level(doc, i)
    BY <1>3, <1>5, <1>8
  <1>12. \A i \in 1 .. n + 1 : Level(b, i) >= 0
    BY <1>9, <1>11
  <1>13. CASE b = a /\ n = 0
    <2>1. b = << >>
      BY <1>6, <1>13
    <2>2. NodesAt(b, <<"ListBucketResult">>) = {}
      BY <2>1 DEF NodesAt, Tagged
    <2> QED BY <2>2 DEF parse_list_objects_v2
  <1>14. CASE b = a /\ n # 0
    <2>1. Scan(b) = Level(b, n + 1)
      BY <1>4, <1>6, <1>10, <1>12, <1>14, ScanOfBeginning
    <2>2. Level(b, n + 1) >= 1 /\ Level(b, n + 1) \in Int
      BY <1>4, <1>9, <1>11, <1>14, LevelSteps
    <2>3. ~is_safe_to_read(b)
      BY <2>1, <2>2 DEF is_safe_to_read
    <2> QED BY <2>3 DEF parse_list_objects_v2
  <1>15. CASE b = Append(a, Cut(doc[n + 1].name))
    <2>1. Len(b) = n + 1 /\ b[n + 1] = Cut(doc[n + 1].name)
      BY <1>4, <1>6, <1>15
    <2>2. b[n + 1].tag = "cut"
      BY <2>1 DEF Cut
    <2>3. Scan(b) = Unsafe
      BY <1>4, <1>10, <1>12, <2>1, <2>2, ScanOfBeginning
    <2>4. ~is_safe_to_read(b)
      BY <2>3 DEF is_safe_to_read, Unsafe
    <2> QED BY <2>4 DEF parse_list_objects_v2
  <1> QED BY <1>3, <1>5, <1>13, <1>14, <1>15

(* What is left of a page of all the entries, when the connection drops, is   *)
(* not read.                                                                 *)
LEMMA CutPageIsRefused ==
    ASSUME NEW entries, entries \in Seq(Seq(Symbols)), \A i \in DOMAIN entries : IsEntry(entries[i]),
           token \in Seq(Symbols), token # << >>,
           NEW b \in CutShort(PageOf(entries, Len(entries), "none"))
    PROVE  parse_list_objects_v2(b) = Failed
  <1>1. PICK n \in Nat : n = Len(entries)
    OBVIOUS
  <1>2. n <= Len(entries) /\ (n = 0 => entries = << >>)
    BY <1>1
  <1>3. PICK fault : fault = "none"
    OBVIOUS
  <1>4. fault \notin {"html", "empty_root"}
    BY <1>3
  <1>5. IsPageOf(PageOf(entries, n, fault), Chosen(SubSeq(entries, 1, n), FALSE),
                 Chosen(SubSeq(entries, 1, n), TRUE), fault, Following(entries, n))
    BY <1>2, <1>4, PageOfIsPage
  <1>6. PICK parts \in Seq(AllParts) : PageOf(entries, n, fault) = NodeOf("ListBucketResult", parts)
    BY <1>5 DEF IsPageOf, IsPage
  <1>7. PICK doc : doc = PageOf(entries, n, fault)
    OBVIOUS
  <1>8. IsNode(doc, "ListBucketResult")
    <2>1. "ListBucketResult" \in Names
      BY DEF Names
    <2> QED BY <1>6, <1>7, <2>1, ComposedIsNode
  <1>9. Elem(doc)
    BY <1>8 DEF IsNode, AllParts, Part
  <1>10. b \in CutShort(doc)
    BY <1>1, <1>3, <1>7
  <1> QED BY <1>9, <1>10, CutIsRefused

-----------------------------------------------------------------------------
(* What the storage and the loop have done                                  *)

(* The entry each key is listed as, and those of them that are folders *)
Ents == [i \in DOMAIN KeyOrder |-> Entry(KeyOrder[i])]
Folds == {Ents[i] : i \in {k \in DOMAIN KeyOrder : IsFolder(Ents[k])}}

(* The last key that is listed as e *)
Final(ents, e) == Max({i \in DOMAIN KeyOrder : ents[i] = e})

(* What is listed is true. *)
Sound(ents, folds, seen, objs, prefixes) ==
    /\ objs \in Seq([key : Seq(Symbols), size : Symbols])
    /\ prefixes \in Seq(Seq(Symbols))
    /\ \A i \in DOMAIN objs :
          \E k \in seen : objs[i] = [key |-> KeyOrder[k], size |-> Sizes[k]] /\ ents[k] = KeyOrder[k]
    /\ \A i \in DOMAIN prefixes : \E k \in seen : ents[k] = prefixes[i] /\ prefixes[i] \in folds
    /\ \A i, k \in DOMAIN objs : objs[i].key = objs[k].key => i = k
    /\ \A i, k \in DOMAIN prefixes : prefixes[i] = prefixes[k] => i = k

(* The entry is listed. *)
HasEntry(objs, prefixes, e) ==
    (\E i \in DOMAIN objs : objs[i].key = e) \/ (\E i \in DOMAIN prefixes : prefixes[i] = e)

(* Nothing behind the p-th key is listed, and everything up to it is. *)
Reached(ents, objs, prefixes, p) ==
    /\ \A i \in DOMAIN objs : Final(ents, objs[i].key) <= p
    /\ \A i \in DOMAIN prefixes : Final(ents, prefixes[i]) <= p
Covered(ents, kept, objs, prefixes, p) ==
    \A i \in kept : Final(ents, ents[i]) <= p => HasEntry(objs, prefixes, ents[i])

(* The token resumes behind the p-th key. *)
Resumes(ents, t, p) ==
    \/ t = None /\ p = 0
    \/ \E k \in DOMAIN KeyOrder : t = TokenFor(ents[k]) /\ p = Final(ents, ents[k])

Asking(ents, kept, t, n, objs, prefixes) ==
    \E p \in 0 .. Len(KeyOrder) :
        /\ Resumes(ents, t, p)
        /\ n <= p
        /\ Reached(ents, objs, prefixes, p)
        /\ Covered(ents, kept, objs, prefixes, p)

(* The inductive invariant *)
Inv ==
    /\ always \subseteq bucket /\ bucket \subseteq ever /\ ever \subseteq DOMAIN KeyOrder
    /\ asked \in 0 .. Len(KeyOrder) + 1
    /\ Sound(Ents, Folds, ever, objects, common_prefixes)
    /\ pc = "asking" => Asking(Ents, always, token, asked, objects, common_prefixes)
    /\ pc = "done" => Covered(Ents, always, objects, common_prefixes, Len(KeyOrder))

(* A set of positions that is bounded has a last one. *)
LEMMA MaxIsLast ==
    ASSUME NEW N \in Nat, NEW S, S \subseteq 0 .. N, S # {}
    PROVE  Max(S) \in S /\ \A y \in S : y <= Max(S)
  <1> DEFINE D == {N - y : y \in S}
  <1>1. D \in SUBSET Nat /\ D # {}
    <2>1. \A y \in S : N - y \in Nat
      <3> SUFFICES ASSUME NEW y \in S PROVE N - y \in Nat
        OBVIOUS
      <3>1. y \in 0 .. N
        OBVIOUS
      <3> QED BY <3>1
    <2> QED BY <2>1
  <1>2. Min(D) \in D /\ \A d \in D : Min(D) <= d
    <2> HIDE DEF D
    <2> QED BY <1>1, MinIsFirst
  <1>3. PICK x \in S : Min(D) = N - x
    BY <1>2
  <1>4. \A y \in S : x >= y
    <2> SUFFICES ASSUME NEW y \in S PROVE x >= y
      OBVIOUS
    <2>1. N - x <= N - y
      BY <1>2, <1>3
    <2> QED BY <2>1
  <1> QED BY <1>4 DEF Max

(* The last key of an entry is listed as that entry. *)
LEMMA FinalIs ==
    ASSUME NEW ents, NEW i \in DOMAIN KeyOrder
    PROVE  /\ Final(ents, ents[i]) \in DOMAIN KeyOrder
           /\ ents[Final(ents, ents[i])] = ents[i]
           /\ Final(ents, ents[i]) \in 1 .. Len(KeyOrder)
  <1>1. PICK N \in Nat : N = Len(KeyOrder) /\ DOMAIN KeyOrder = 1 .. N
    BY KeyOrderAssumption
  <1>2. PICK S : S = {k \in DOMAIN KeyOrder : ents[k] = ents[i]}
    OBVIOUS
  <1>3. S \subseteq 0 .. N /\ S # {}
    BY <1>1, <1>2
  <1>4. Max(S) \in S
    BY <1>3, MaxIsLast
  <1>5. Final(ents, ents[i]) = Max(S)
    BY <1>2 DEF Final
  <1> QED BY <1>1, <1>2, <1>4, <1>5

(* A text is listed as itself, or as a beginning of it that ends a folder. *)
LEMMA EntryIs ==
    ASSUME NEW key, key \in Seq(Symbols), key # << >>
    PROVE  /\ Entry(key) \in Seq(Symbols)
           /\ ~IsFolder(Entry(key)) => Entry(key) = key
  <1>1. PICK n \in Nat \ {0} : n = Len(key) /\ DOMAIN key = 1 .. n
    OBVIOUS
  <1>2. PICK S : S = {i \in DOMAIN key : key[i] = "/"}
    OBVIOUS
  <1>3. CASE delimited /\ S # {}
    <2>1. S \in SUBSET Nat
      BY <1>1, <1>2
    <2>2. PICK m \in S : m = Min(S)
      BY <1>3, <2>1, MinIsFirst
    <2>3. m \in 1 .. n /\ key[m] = "/"
      BY <1>1, <1>2
    <2>4. PICK e : e = SubSeq(key, 1, m)
      OBVIOUS
    <2>5. Entry(key) = e
      BY <1>2, <1>3, <2>2, <2>4 DEF Entry
    <2>6. e \in Seq(Symbols) /\ Len(e) = m /\ e[m] = key[m]
      <3>1. \A i \in 1 .. m : i \in 1 .. n /\ key[i] \in Symbols
        BY <1>1, <2>3
      <3>2. e = [i \in 1 .. m |-> key[i]]
        BY <1>1, <2>3, <2>4, <3>1
      <3>3. e \in [1 .. m -> Symbols] /\ m \in Nat
        BY <2>3, <3>1, <3>2
      <3>4. e \in Seq(Symbols) /\ Len(e) = m
        BY <3>2, <3>3, SeqDef
      <3> QED BY <2>3, <3>2, <3>4
    <2>7. IsFolder(e)
      BY <1>3, <2>3, <2>6 DEF IsFolder
    <2> QED BY <2>5, <2>6, <2>7
  <1>4. CASE ~(delimited /\ S # {})
    <2>1. Entry(key) = key
      BY <1>2, <1>4 DEF Entry
    <2> QED BY <2>1
  <1> QED BY <1>3, <1>4

(* The entries of the keys *)
LEMMA EntsAre ==
    /\ Ents \in [DOMAIN KeyOrder -> Seq(Symbols)]
    /\ \A i \in DOMAIN KeyOrder :
          /\ KeyOrder[i] \in Seq(Symbols)
          /\ Ents[i] = Entry(KeyOrder[i])
          /\ IsFolder(Ents[i]) <=> Ents[i] \in Folds
          /\ Ents[i] \notin Folds => Ents[i] = KeyOrder[i]
          /\ IsEntry(Ents[i])
          /\ i \in DOMAIN Sizes /\ Sizes[i] \in Symbols
          /\ IndexOf(KeyOrder[i]) = i
  <1>1. /\ KeyOrder \in Seq(Seq(Symbols) \ {<< >>}) /\ Sizes \in Seq(Symbols)
    BY ConstantsAreTexts
  <1>2. ASSUME NEW i \in DOMAIN KeyOrder
        PROVE  /\ KeyOrder[i] \in Seq(Symbols) /\ KeyOrder[i] # << >>
               /\ i \in DOMAIN Sizes /\ Sizes[i] \in Symbols
               /\ IndexOf(KeyOrder[i]) = i
    <2>1. KeyOrder[i] \in Seq(Symbols) /\ KeyOrder[i] # << >>
      <3>1. PICK T : T = Seq(Symbols) \ {<< >>}
        OBVIOUS
      <3>2. KeyOrder[i] \in T
        <4>1. KeyOrder \in Seq(T)
          BY <1>1, <3>1
        <4> QED BY <4>1
      <3> QED BY <3>1, <3>2
    <2>2. i \in DOMAIN Sizes /\ Sizes[i] \in Symbols
      <3>1. i \in 1 .. Len(KeyOrder)
        BY <1>1
      <3>2. i \in 1 .. Len(Sizes)
        BY <3>1, SizesAssumption
      <3> QED BY <1>1, <3>2
    <2>3. IndexOf(KeyOrder[i]) = i
      BY KeyOrderAssumption DEF IndexOf
    <2> QED BY <2>1, <2>2, <2>3
  <1>3. ASSUME NEW i \in DOMAIN KeyOrder
        PROVE  /\ Ents[i] = Entry(KeyOrder[i]) /\ Ents[i] \in Seq(Symbols)
               /\ ~IsFolder(Ents[i]) => Ents[i] = KeyOrder[i]
    BY <1>2, EntryIs DEF Ents
  <1>4. Ents \in [DOMAIN KeyOrder -> Seq(Symbols)]
    BY <1>3 DEF Ents
  <1>5. ASSUME NEW i \in DOMAIN KeyOrder PROVE IsFolder(Ents[i]) <=> Ents[i] \in Folds
    <2>1. IsFolder(Ents[i]) => Ents[i] \in Folds
      BY DEF Folds
    <2>2. Ents[i] \in Folds => IsFolder(Ents[i])
      BY DEF Folds
    <2> QED BY <2>1, <2>2
  <1>6. ASSUME NEW i \in DOMAIN KeyOrder PROVE IsEntry(Ents[i])
    BY <1>2, <1>3 DEF IsEntry
  <1> QED BY <1>2, <1>3, <1>4, <1>5, <1>6

(* A token says what it resumes behind. *)
LEMMA TokenIs ==
    ASSUME NEW e, e \in Seq(Symbols)
    PROVE  /\ TokenFor(e) \in Seq(Symbols) /\ TokenFor(e) # << >> /\ TokenFor(e) # None
           /\ SubSeq(TokenFor(e), 2, Len(TokenFor(e))) = e
  <1>1. PICK a \in Seq(Symbols) : a = <<"+">> /\ Len(a) = 1 /\ a[1] = "+"
    <2>1. "+" \in Symbols
      BY DEF Symbols
    <2>2. <<"+">> \in Seq(Symbols) /\ Len(<<"+">>) = 1 /\ <<"+">>[1] = "+"
      BY <2>1
    <2> QED BY <2>2
  <1>2. PICK t : t = a \o e
    OBVIOUS
  <1>3. PICK n \in Nat : n = Len(e) /\ DOMAIN e = 1 .. n
    OBVIOUS
  <1>4. t \in Seq(Symbols) /\ Len(t) = n + 1 /\ t[1] = "+" /\ \A i \in 1 .. n : t[i + 1] = e[i]
    BY <1>1, <1>2, <1>3
  <1>5. t = TokenFor(e)
    BY <1>1, <1>2 DEF TokenFor
  <1>6. t # None
    <2>1. None[1] = "None"
      BY DEF None
    <2> QED BY <1>4, <2>1
  <1>7. SubSeq(t, 2, n + 1) = e
    <2>1. PICK s : s = SubSeq(t, 2, n + 1)
      OBVIOUS
    <2>2. s = [i \in 1 .. n |-> t[i + 1]]
      BY <1>4, <2>1
    <2>3. e = [i \in 1 .. n |-> e[i]]
      BY <1>3
    <2> QED BY <1>4, <2>1, <2>2, <2>3
  <1>8. t # << >>
    BY <1>4
  <1> QED BY <1>4, <1>5, <1>6, <1>7, <1>8

(* The last keys of the entries of b that are behind the p-th key *)
Ahead(ents, b, p) == {i \in {Final(ents, ents[k]) : k \in b} : i > p}

(* E is the entries of b behind the p-th key, in the order of the keys. *)
InOrder(ents, b, p, E, behind, x) ==
    /\ Enumerates(behind, x, Ahead(ents, b, p))
    /\ E \in Seq(Seq(Symbols)) /\ Len(E) = x
    /\ \A m \in 1 .. x : E[m] = ents[behind[m]]

(* The last key of an entry, as the storage finds it *)
LEMMA LastKeyIsFinal ==
    ASSUME NEW e
    PROVE  LastKeyOf(e) = Final(Ents, e)
  <1>1. \A i \in DOMAIN KeyOrder : Ents[i] = Entry(KeyOrder[i])
    BY EntsAre
  <1>2. {i \in DOMAIN KeyOrder : Entry(KeyOrder[i]) = e} = {i \in DOMAIN KeyOrder : Ents[i] = e}
    BY <1>1
  <1> QED BY <1>2 DEF LastKeyOf, Final

(* What is behind the token *)
LEMMA EntriesAre ==
    ASSUME NEW p \in 0 .. Len(KeyOrder), Resumes(Ents, token, p), bucket \subseteq DOMAIN KeyOrder
    PROVE  /\ \E behind, x : InOrder(Ents, bucket, p, EntriesBehind(token), behind, x)
           /\ token \in Seq(Symbols) /\ token # << >>
  <1>0. PICK N \in Nat : N = Len(KeyOrder) /\ DOMAIN KeyOrder = 1 .. N
    BY KeyOrderAssumption
  <1>1. (IF token = None THEN 0 ELSE LastKeyOf(SubSeq(token, 2, Len(token)))) = p
        /\ token \in Seq(Symbols) /\ token # << >>
    <2>1. CASE token = None /\ p = 0
      <3>1. "None" \in Symbols
        BY DEF Symbols
      <3>2. <<"None">> \in Seq(Symbols) /\ <<"None">> # << >>
        BY <3>1
      <3> QED BY <2>1, <3>2 DEF None
    <2>2. CASE \E k \in DOMAIN KeyOrder : token = TokenFor(Ents[k]) /\ p = Final(Ents, Ents[k])
      <3>1. PICK k \in DOMAIN KeyOrder : token = TokenFor(Ents[k]) /\ p = Final(Ents, Ents[k])
        BY <2>2
      <3>2. PICK e \in Seq(Symbols) : e = Ents[k]
        BY EntsAre
      <3>3. /\ token \in Seq(Symbols) /\ token # << >> /\ token # None
            /\ SubSeq(token, 2, Len(token)) = e
        BY <3>1, <3>2, TokenIs
      <3>4. LastKeyOf(e) = p
        BY <3>1, <3>2, LastKeyIsFinal
      <3> QED BY <3>3, <3>4
    <2> QED BY <2>1, <2>2 DEF Resumes
  <1>2. PICK A : A = Ahead(Ents, bucket, p)
    OBVIOUS
  <1>3. A \subseteq 1 .. N
    <2>1. \A k \in bucket : Final(Ents, Ents[k]) \in 1 .. N
      BY <1>0, FinalIs
    <2> QED BY <1>2, <2>1 DEF Ahead
  <1>4. PICK behind : behind = Ascending(A)
    OBVIOUS
  <1>5. PICK x : Enumerates(behind, x, A)
    BY <1>3, <1>4, AscendingEnumerates
  <1>6. x \in Nat /\ DOMAIN behind = 1 .. x /\ \A m \in 1 .. x : behind[m] \in A
    BY <1>5 DEF Enumerates
  <1>7. \A k \in bucket : LastKeyOf(Entry(KeyOrder[k])) = Final(Ents, Ents[k])
    BY EntsAre, LastKeyIsFinal
  <1>8. {LastKeyOf(Entry(KeyOrder[k])) : k \in bucket} = {Final(Ents, Ents[k]) : k \in bucket}
    BY <1>7
  <1>9. {i \in {LastKeyOf(Entry(KeyOrder[k])) : k \in bucket} :
            i > (IF token = None THEN 0 ELSE LastKeyOf(SubSeq(token, 2, Len(token))))} = A
    BY <1>1, <1>2, <1>8 DEF Ahead
  <1>10. EntriesBehind(token) = [m \in DOMAIN behind |-> Entry(KeyOrder[behind[m]])]
    BY <1>4, <1>9 DEF EntriesBehind
  <1>11. EntriesBehind(token) = [m \in 1 .. x |-> Ents[behind[m]]]
    <2>1. \A m \in 1 .. x : behind[m] \in DOMAIN KeyOrder
      BY <1>0, <1>3, <1>6
    <2>2. \A m \in 1 .. x : Entry(KeyOrder[behind[m]]) = Ents[behind[m]]
      BY <2>1, EntsAre
    <2> QED BY <1>6, <1>10, <2>2
  <1>12. \A m \in 1 .. x : Ents[behind[m]] \in Seq(Symbols)
    BY <1>0, <1>3, <1>6, EntsAre
  <1>13. EntriesBehind(token) \in Seq(Seq(Symbols)) /\ Len(EntriesBehind(token)) = x
    <2>1. EntriesBehind(token) \in [1 .. x -> Seq(Symbols)]
      BY <1>11, <1>12
    <2> QED BY <1>6, <2>1, SeqDef
  <1>14. PICK E : E = EntriesBehind(token)
    OBVIOUS
  <1>15. E = [m \in 1 .. x |-> Ents[behind[m]]] /\ E \in Seq(Seq(Symbols)) /\ Len(E) = x
    BY <1>11, <1>13, <1>14
  <1>16. InOrder(Ents, bucket, p, E, behind, x)
    BY <1>2, <1>5, <1>15 DEF InOrder
  <1> QED BY <1>1, <1>14, <1>16

(* The objects C and the folders F are what b has behind the p-th key and up  *)
(* to the one at top.                                                        *)
News(ents, folds, b, p, top, C, F) ==
    /\ C \in Seq(Seq(Symbols)) /\ F \in Seq(Seq(Symbols))
    /\ \A k \in DOMAIN C : /\ \E i \in b : C[k] = ents[i] /\ C[k] = KeyOrder[i]
                           /\ p < Final(ents, C[k]) /\ Final(ents, C[k]) <= top
    /\ \A k \in DOMAIN F : /\ \E i \in b : F[k] = ents[i] /\ F[k] \in folds
                           /\ p < Final(ents, F[k]) /\ Final(ents, F[k]) <= top
    /\ \A i, k \in DOMAIN C : C[i] = C[k] => i = k
    /\ \A i, k \in DOMAIN F : F[i] = F[k] => i = k
    /\ \A i \in b : p < Final(ents, ents[i]) /\ Final(ents, ents[i]) <= top
                       => (\E k \in DOMAIN C : C[k] = ents[i]) \/ (\E k \in DOMAIN F : F[k] = ents[i])

(* D is the entries of the page at those places. *)
Picked(page, P, D) ==
    /\ D \in Seq(Seq(Symbols))
    /\ \A k \in DOMAIN D : \E m \in P : D[k] = page[m]
    /\ \A i, k \in DOMAIN D : D[i] = D[k] => i = k
    /\ \A m \in P : \E k \in DOMAIN D : D[k] = page[m]

(* The entries that are chosen, one by one *)
LEMMA ChosenAre ==
    ASSUME NEW page, page \in Seq(Seq(Symbols)), NEW n \in Nat, DOMAIN page = 1 .. n,
           \A i, k \in 1 .. n : page[i] = page[k] => i = k,
           NEW folders \in BOOLEAN
    PROVE  Picked(page, Places(page, folders), Chosen(page, folders))
  <1>1. PICK P, s, D : P = Places(page, folders) /\ s = Ascending(P) /\ D = Chosen(page, folders)
    OBVIOUS
  <1>2. PICK c : /\ Enumerates(s, c, P)
                 /\ D = [k \in 1 .. c |-> page[s[k]]] /\ D \in Seq(Seq(Symbols)) /\ DOMAIN D = 1 .. c
    <2>0. page \in Seq(Seq(Symbols)) /\ folders \in BOOLEAN
      OBVIOUS
    <2>1. \E c : /\ Enumerates(Ascending(Places(page, folders)), c, Places(page, folders))
                 /\ Chosen(page, folders) = [k \in 1 .. c |-> page[Ascending(Places(page, folders))[k]]]
                 /\ Chosen(page, folders) \in Seq(Seq(Symbols))
                 /\ DOMAIN Chosen(page, folders) = 1 .. c
      BY ONLY <2>0, ChosenIs
    <2> QED BY <1>1, <2>1
  <1>3. P \subseteq 1 .. n
    BY <1>1 DEF Places
  <1>4. /\ \A k \in 1 .. c : s[k] \in P /\ D[k] = page[s[k]]
        /\ \A i, k \in 1 .. c : i < k => s[i] < s[k]
        /\ \A m \in P : \E k \in 1 .. c : s[k] = m
    BY <1>2 DEF Enumerates
  <1>5. \A k \in DOMAIN D : \E m \in P : D[k] = page[m]
    BY <1>2, <1>4
  <1>6. ASSUME NEW i \in DOMAIN D, NEW k \in DOMAIN D, D[i] = D[k] PROVE i = k
    <2>1. i \in 1 .. c /\ k \in 1 .. c /\ c \in Nat
      BY <1>2 DEF Enumerates
    <2>a. /\ s[i] \in 1 .. n /\ s[k] \in 1 .. n /\ D[i] = page[s[i]] /\ D[k] = page[s[k]]
      BY <1>3, <1>4, <2>1
    <2>b. PICK a \in 1 .. n, b \in 1 .. n : a = s[i] /\ b = s[k]
      BY <2>a
    <2>c. page[a] = page[b]
      BY <1>6, <2>a, <2>b
    <2>d. a = b
      BY <2>c
    <2>2. s[i] = s[k] /\ s[i] \in Nat
      BY <2>b, <2>d
    <2>3. ~(i < k) /\ ~(k < i)
      BY <1>4, <2>1, <2>2
    <2> QED BY <2>1, <2>3
  <1>7. \A m \in P : \E k \in DOMAIN D : D[k] = page[m]
    BY <1>2, <1>4
  <1>8. Picked(page, P, D)
    BY <1>2, <1>5, <1>6, <1>7 DEF Picked
  <1> QED BY <1>1, <1>8

(* The entries of a page are news. *)
LEMMA PageIsNews ==
    ASSUME bucket \subseteq DOMAIN KeyOrder, NEW N \in Nat, N = Len(KeyOrder), NEW p \in 0 .. N,
           NEW E, NEW behind, NEW x, InOrder(Ents, bucket, p, E, behind, x),
           NEW n \in Nat, n <= x, n = 0 => x = 0,
           NEW top, top = IF n < x THEN behind[n] ELSE N
    PROVE  News(Ents, Folds, bucket, p, top, Chosen(SubSeq(E, 1, n), FALSE), Chosen(SubSeq(E, 1, n), TRUE))
  <1>0. DOMAIN KeyOrder = 1 .. N
    BY KeyOrderAssumption
  <1>1. /\ x \in Nat /\ behind \in [1 .. x -> Ahead(Ents, bucket, p)]
        /\ \A i, k \in 1 .. x : i < k => behind[i] < behind[k]
        /\ \A a \in Ahead(Ents, bucket, p) : \E i \in 1 .. x : behind[i] = a
        /\ E \in Seq(Seq(Symbols)) /\ Len(E) = x
        /\ \A m \in 1 .. x : E[m] = Ents[behind[m]]
    BY DEF InOrder, Enumerates
  <1>2. \A k \in bucket : Final(Ents, Ents[k]) \in 1 .. N /\ Ents[Final(Ents, Ents[k])] = Ents[k]
    BY <1>0, FinalIs
  <1>3. ASSUME NEW m \in 1 .. x
        PROVE  /\ \E i \in bucket : E[m] = Ents[i]
               /\ Final(Ents, E[m]) = behind[m] /\ behind[m] \in 1 .. N /\ p < behind[m]
    <2>1. behind[m] \in Ahead(Ents, bucket, p)
      BY <1>1
    <2>2. PICK k \in bucket : behind[m] = Final(Ents, Ents[k]) /\ behind[m] > p
      BY <2>1 DEF Ahead
    <2>3. behind[m] \in 1 .. N /\ E[m] = Ents[k]
      BY <1>1, <1>2, <2>2
    <2> QED BY <2>2, <2>3
  <1>4. \A m \in 1 .. n : m \in 1 .. x
    BY <1>1
  <1>5. ASSUME NEW m \in 1 .. n PROVE behind[m] <= top
    <2>1. behind[m] \in 1 .. N
      BY <1>3, <1>4
    <2>2. CASE n < x
      <3>1. n \in 1 .. x
        BY <1>1, <2>2
      <3>2. behind[n] \in 1 .. N
        BY <1>3, <3>1
      <3>3. m = n \/ m < n
        OBVIOUS
      <3>4. m = n \/ behind[m] < behind[n]
        BY <1>1, <1>4, <3>1, <3>3
      <3> QED BY <2>1, <2>2, <3>2, <3>4
    <2>3. CASE ~(n < x)
      BY <2>1, <2>3
    <2> QED BY <2>2, <2>3
  <1>6. ASSUME NEW m \in 1 .. x, behind[m] <= top PROVE m \in 1 .. n
    <2>1. CASE n < x
      <3>1. n \in 1 .. x /\ behind[n] \in 1 .. N /\ behind[m] \in 1 .. N
        BY <1>1, <1>3, <2>1, SMTT(30)
      <3>2. ~(n < m)
        BY <1>1, <1>6, <2>1, <3>1
      <3> QED BY <1>1, <3>1, <3>2
    <2>2. CASE ~(n < x)
      BY <1>1, <2>2
    <2> QED BY <2>1, <2>2
  <1>7. PICK page : page = SubSeq(E, 1, n)
    OBVIOUS
  <1>8. page \in Seq(Seq(Symbols)) /\ DOMAIN page = 1 .. n /\ \A m \in 1 .. n : page[m] = E[m]
    <2>1. PICK T : T = Seq(Symbols)
      OBVIOUS
    <2>2. \A m \in 1 .. x : E[m] \in T
      <3>1. E \in Seq(T)
        BY <1>1, <2>1
      <3> QED BY <1>1, <3>1
    <2>3. page = [m \in 1 .. n |-> E[m]]
      BY <1>1, <1>4, <1>7
    <2>4. page \in [1 .. n -> T]
      BY <1>4, <2>2, <2>3
    <2> QED BY <2>1, <2>3, <2>4, SeqDef
  <1>9. \A i, k \in 1 .. n : page[i] = page[k] => i = k
    <2> SUFFICES ASSUME NEW i \in 1 .. n, NEW k \in 1 .. n, page[i] = page[k] PROVE i = k
      OBVIOUS
    <2>1. behind[i] = behind[k] /\ behind[i] \in 1 .. N
      BY <1>3, <1>4, <1>8
    <2>2. ~(i < k) /\ ~(k < i)
      BY <1>1, <1>4, <2>1
    <2> QED BY <2>2
  <1>10. PICK C, F : C = Chosen(page, FALSE) /\ F = Chosen(page, TRUE)
    OBVIOUS
  <1>b. ASSUME NEW b \in BOOLEAN PROVE Picked(page, Places(page, b), Chosen(page, b))
    BY <1>8, <1>9, ChosenAre
  <1>p. PICK P, Q : /\ P = {m \in 1 .. n : ~IsFolder(page[m])} /\ Q = {m \in 1 .. n : IsFolder(page[m])}
    OBVIOUS
  <1>q. Places(page, FALSE) = P /\ Places(page, TRUE) = Q
    BY <1>8, <1>p DEF Places
  <1>11. Picked(page, P, C)
    BY <1>b, <1>q, <1>10
  <1>12. Picked(page, Q, F)
    BY <1>b, <1>q, <1>10
  <1>13. ASSUME NEW m \in 1 .. n
         PROVE  /\ p < Final(Ents, page[m]) /\ Final(Ents, page[m]) <= top
                /\ \E i \in bucket : /\ page[m] = Ents[i]
                                     /\ ~IsFolder(page[m]) => page[m] = KeyOrder[i]
                                     /\ IsFolder(page[m]) => page[m] \in Folds
    <2>1. Final(Ents, page[m]) = behind[m] /\ p < behind[m] /\ behind[m] <= top
      BY <1>3, <1>4, <1>5, <1>8
    <2>2. PICK i \in bucket : page[m] = Ents[i]
      BY <1>3, <1>4, <1>8
    <2>3. i \in DOMAIN KeyOrder
      OBVIOUS
    <2>4. (IsFolder(Ents[i]) <=> Ents[i] \in Folds) /\ (Ents[i] \notin Folds => Ents[i] = KeyOrder[i])
      BY <2>3, EntsAre
    <2> QED BY <2>1, <2>2, <2>4
  <1>14. ASSUME NEW i \in bucket, p < Final(Ents, Ents[i]), Final(Ents, Ents[i]) <= top
         PROVE  (\E k \in DOMAIN C : C[k] = Ents[i]) \/ (\E k \in DOMAIN F : F[k] = Ents[i])
    <2>1. Final(Ents, Ents[i]) \in Ahead(Ents, bucket, p)
      BY <1>2, <1>14 DEF Ahead
    <2>2. PICK m \in 1 .. x : behind[m] = Final(Ents, Ents[i])
      BY <1>1, <2>1
    <2>3. m \in 1 .. n
      BY <1>6, <1>14, <2>2
    <2>4. page[m] = Ents[i]
      BY <1>1, <1>2, <1>8, <2>2, <2>3, SMTT(30)
    <2>5. m \in P \/ m \in Q
      BY <1>p, <2>3
    <2>6. (\E k \in DOMAIN C : C[k] = page[m]) \/ (\E k \in DOMAIN F : F[k] = page[m])
      BY <1>11, <1>12, <2>5 DEF Picked
    <2> QED BY <2>4, <2>6
  <1>15. \A k \in DOMAIN C : /\ \E i \in bucket : C[k] = Ents[i] /\ C[k] = KeyOrder[i]
                             /\ p < Final(Ents, C[k]) /\ Final(Ents, C[k]) <= top
    <2> SUFFICES ASSUME NEW k \in DOMAIN C
                 PROVE  /\ \E i \in bucket : C[k] = Ents[i] /\ C[k] = KeyOrder[i]
                        /\ p < Final(Ents, C[k]) /\ Final(Ents, C[k]) <= top
      OBVIOUS
    <2>1. PICK m \in P : C[k] = page[m]
      BY <1>11 DEF Picked
    <2>2. m \in 1 .. n /\ ~IsFolder(page[m])
      BY <1>p
    <2> QED BY <1>13, <2>1, <2>2
  <1>16. \A k \in DOMAIN F : /\ \E i \in bucket : F[k] = Ents[i] /\ F[k] \in Folds
                             /\ p < Final(Ents, F[k]) /\ Final(Ents, F[k]) <= top
    <2> SUFFICES ASSUME NEW k \in DOMAIN F
                 PROVE  /\ \E i \in bucket : F[k] = Ents[i] /\ F[k] \in Folds
                        /\ p < Final(Ents, F[k]) /\ Final(Ents, F[k]) <= top
      OBVIOUS
    <2>1. PICK m \in Q : F[k] = page[m]
      BY <1>12 DEF Picked
    <2>2. m \in 1 .. n /\ IsFolder(page[m])
      BY <1>p
    <2> QED BY <1>13, <2>1, <2>2
  <1>17. News(Ents, Folds, bucket, p, top, C, F)
    BY <1>11, <1>12, <1>14, <1>15, <1>16 DEF News, Picked
  <1> QED BY <1>7, <1>10, <1>17

(* Where the elements of a concatenation are from *)
LEMMA ConcatFrom ==
    ASSUME NEW T, NEW a, a \in Seq(T), NEW b, b \in Seq(T), NEW c, c = a \o b
    PROVE  /\ c \in Seq(T)
           /\ Len(a) \in Nat /\ DOMAIN a = 1 .. Len(a)
           /\ \A i \in DOMAIN c : \/ i \in DOMAIN a /\ c[i] = a[i]
                                  \/ \E j \in DOMAIN b : i = Len(a) + j /\ c[i] = b[j]
           /\ \A i \in DOMAIN a : i \in DOMAIN c /\ c[i] = a[i]
           /\ \A j \in DOMAIN b : Len(a) + j \in DOMAIN c /\ c[Len(a) + j] = b[j]
  <1>1. PICK m \in Nat, n \in Nat : m = Len(a) /\ n = Len(b) /\ DOMAIN a = 1 .. m /\ DOMAIN b = 1 .. n
    OBVIOUS
  <1>2. c \in Seq(T) /\ DOMAIN c = 1 .. m + n
    BY <1>1
  <1>3. \A i \in 1 .. m : c[i] = a[i] /\ i \in 1 .. m + n
    BY <1>1
  <1>4. \A j \in 1 .. n : c[m + j] = b[j] /\ m + j \in 1 .. m + n
    BY <1>1
  <1>5. \A i \in 1 .. m + n : i \in 1 .. m \/ \E j \in 1 .. n : i = m + j
    <2> SUFFICES ASSUME NEW i \in 1 .. m + n, i \notin 1 .. m PROVE \E j \in 1 .. n : i = m + j
      OBVIOUS
    <2>1. i - m \in 1 .. n /\ i = m + (i - m)
      OBVIOUS
    <2> QED BY <2>1
  <1>6. ASSUME NEW i \in DOMAIN c
        PROVE  \/ i \in DOMAIN a /\ c[i] = a[i]
               \/ \E j \in DOMAIN b : i = Len(a) + j /\ c[i] = b[j]
    <2>1. i \in 1 .. m + n
      BY <1>2
    <2>2. CASE i \in 1 .. m
      BY <1>1, <1>3, <2>2
    <2>3. CASE \E j \in 1 .. n : i = m + j
      <3>1. PICK j \in 1 .. n : i = m + j
        BY <2>3
      <3>2. j \in DOMAIN b /\ i = Len(a) + j /\ c[i] = b[j]
        BY <1>1, <1>4, <3>1
      <3> QED BY <3>2
    <2> QED BY <1>5, <2>1, <2>2, <2>3
  <1> QED BY <1>1, <1>2, <1>3, <1>4, <1>6

(* Two lists without repetitions and without a common element *)
LEMMA NoRepetition ==
    ASSUME NEW T, NEW a, a \in Seq(T), NEW b, b \in Seq(T), NEW c, c = a \o b, NEW f, DOMAIN f = T,
           \A i, k \in DOMAIN a : f[a[i]] = f[a[k]] => i = k,
           \A i, k \in DOMAIN b : f[b[i]] = f[b[k]] => i = k,
           \A i \in DOMAIN a, k \in DOMAIN b : f[a[i]] # f[b[k]]
    PROVE  \A i, k \in DOMAIN c : f[c[i]] = f[c[k]] => i = k
  <1>1. \A i \in DOMAIN c : \/ i \in DOMAIN a /\ c[i] = a[i]
                            \/ \E j \in DOMAIN b : i = Len(a) + j /\ c[i] = b[j]
    BY ConcatFrom
  <1>2. SUFFICES ASSUME NEW i \in DOMAIN c, NEW k \in DOMAIN c, f[c[i]] = f[c[k]] PROVE i = k
    OBVIOUS
  <1>3. CASE i \in DOMAIN a /\ c[i] = a[i] /\ k \in DOMAIN a /\ c[k] = a[k]
    BY <1>2, <1>3
  <1>4. CASE /\ i \in DOMAIN a /\ c[i] = a[i]
             /\ \E j \in DOMAIN b : k = Len(a) + j /\ c[k] = b[j]
    BY <1>2, <1>4
  <1>5. CASE /\ k \in DOMAIN a /\ c[k] = a[k]
             /\ \E j \in DOMAIN b : i = Len(a) + j /\ c[i] = b[j]
    BY <1>2, <1>5
  <1>6. CASE /\ \E j \in DOMAIN b : i = Len(a) + j /\ c[i] = b[j]
             /\ \E j \in DOMAIN b : k = Len(a) + j /\ c[k] = b[j]
    <2>1. PICK j \in DOMAIN b : i = Len(a) + j /\ c[i] = b[j]
      BY <1>6
    <2>2. PICK l \in DOMAIN b : k = Len(a) + l /\ c[k] = b[l]
      BY <1>6
    <2>3. j = l
      BY <1>2, <2>1, <2>2
    <2> QED BY <2>1, <2>2, <2>3
  <1> QED BY <1>1, <1>3, <1>4, <1>5, <1>6

(* What is read of the objects of a page *)
ObjectsOf(C) == [k \in DOMAIN C |-> [key |-> C[k], size |-> Sizes[IndexOf(C[k])]]]

LEMMA ObjectsAre ==
    ASSUME NEW C, C \in Seq(Seq(Symbols)),
           \A k \in DOMAIN C : \E i \in DOMAIN KeyOrder : C[k] = KeyOrder[i]
    PROVE  /\ ObjectsOf(C) \in Seq([key : Seq(Symbols), size : Symbols])
           /\ DOMAIN ObjectsOf(C) = DOMAIN C
           /\ \A k \in DOMAIN C :
                 /\ ObjectsOf(C)[k].key = C[k]
                 /\ \A i \in DOMAIN KeyOrder :
                       C[k] = KeyOrder[i] => ObjectsOf(C)[k] = [key |-> KeyOrder[i], size |-> Sizes[i]]
  <1>0. PICK m \in Nat : DOMAIN C = 1 .. m
    OBVIOUS
  <1>1. PICK T : T = Seq(Symbols)
    OBVIOUS
  <1>2. \A k \in DOMAIN C : C[k] \in T
    <2>1. C \in Seq(T)
      BY <1>1
    <2> QED BY <2>1
  <1>3. \A i \in DOMAIN KeyOrder : Sizes[i] \in Symbols /\ IndexOf(KeyOrder[i]) = i
    BY EntsAre
  <1>4. PICK O : O = ObjectsOf(C)
    OBVIOUS
  <1>5. O = [k \in DOMAIN C |-> [key |-> C[k], size |-> Sizes[IndexOf(C[k])]]]
    BY <1>4 DEF ObjectsOf
  <1>6. \A k \in DOMAIN C : /\ Sizes[IndexOf(C[k])] \in Symbols
                            /\ \A i \in DOMAIN KeyOrder : C[k] = KeyOrder[i] => IndexOf(C[k]) = i
    BY <1>3
  <1>7. \A k \in DOMAIN C : O[k] \in [key : T, size : Symbols]
    BY <1>2, <1>5, <1>6
  <1>8. O \in Seq([key : T, size : Symbols])
    <2>1. PICK R : R = [key : T, size : Symbols]
      OBVIOUS
    <2>2. O \in [1 .. m -> R]
      BY <1>0, <1>5, <1>7, <2>1
    <2>3. O \in Seq(R)
      BY ONLY <2>2, m \in Nat, SeqDef
    <2> QED BY <2>1, <2>3
  <1>9. \A k \in DOMAIN C : /\ O[k].key = C[k]
                 /\ \A i \in DOMAIN KeyOrder :
                       C[k] = KeyOrder[i] => O[k] = [key |-> KeyOrder[i], size |-> Sizes[i]]
    BY <1>5, <1>6
  <1> QED BY <1>1, <1>4, <1>5, <1>8, <1>9

(* What news add to what is listed: still true, still nothing twice, and      *)
(* everything up to the new position.                                        *)
LEMMA NewsAreAdded ==
    ASSUME NEW ents, NEW folds, NEW b, NEW seen, NEW kept, b \subseteq seen, seen \subseteq DOMAIN KeyOrder,
           kept \subseteq b, NEW objs, NEW prefixes, NEW p \in Nat, NEW top \in Nat, p <= top, NEW C, NEW F,
           News(ents, folds, b, p, top, C, F), Sound(ents, folds, seen, objs, prefixes),
           Reached(ents, objs, prefixes, p), Covered(ents, kept, objs, prefixes, p)
    PROVE  /\ Sound(ents, folds, seen, objs \o ObjectsOf(C), prefixes \o F)
           /\ Reached(ents, objs \o ObjectsOf(C), prefixes \o F, top)
           /\ Covered(ents, kept, objs \o ObjectsOf(C), prefixes \o F, top)
  <1>1. PICK R, T : R = [key : Seq(Symbols), size : Symbols] /\ T = Seq(Symbols)
    OBVIOUS
  <1>2. PICK O : O = ObjectsOf(C)
    OBVIOUS
  <1>n. /\ C \in Seq(T) /\ F \in Seq(T)
        /\ \A k \in DOMAIN C : /\ \E i \in b : C[k] = ents[i] /\ C[k] = KeyOrder[i]
                               /\ p < Final(ents, C[k]) /\ Final(ents, C[k]) <= top
        /\ \A k \in DOMAIN F : /\ \E i \in b : F[k] = ents[i] /\ F[k] \in folds
                               /\ p < Final(ents, F[k]) /\ Final(ents, F[k]) <= top
        /\ \A i, k \in DOMAIN C : C[i] = C[k] => i = k
        /\ \A i, k \in DOMAIN F : F[i] = F[k] => i = k
        /\ \A i \in b : p < Final(ents, ents[i]) /\ Final(ents, ents[i]) <= top
               => (\E k \in DOMAIN C : C[k] = ents[i]) \/ (\E k \in DOMAIN F : F[k] = ents[i])
    BY <1>1 DEF News
  <1>s. /\ objs \in Seq(R) /\ prefixes \in Seq(T)
        /\ \A i \in DOMAIN objs :
              \E k \in seen : objs[i] = [key |-> KeyOrder[k], size |-> Sizes[k]] /\ ents[k] = KeyOrder[k]
        /\ \A i \in DOMAIN prefixes : \E k \in seen : ents[k] = prefixes[i] /\ prefixes[i] \in folds
        /\ \A i, k \in DOMAIN objs : objs[i].key = objs[k].key => i = k
        /\ \A i, k \in DOMAIN prefixes : prefixes[i] = prefixes[k] => i = k
    BY <1>1 DEF Sound
  <1>3. /\ O \in Seq(R) /\ DOMAIN O = DOMAIN C
        /\ \A k \in DOMAIN C : O[k].key = C[k]
        /\ \A k \in DOMAIN C, i \in DOMAIN KeyOrder :
              C[k] = KeyOrder[i] => O[k] = [key |-> KeyOrder[i], size |-> Sizes[i]]
    <2>1. C \in Seq(Seq(Symbols)) /\ \A k \in DOMAIN C : \E i \in DOMAIN KeyOrder : C[k] = KeyOrder[i]
      BY <1>n DEF News
    <2>2. /\ ObjectsOf(C) \in Seq([key : Seq(Symbols), size : Symbols])
          /\ DOMAIN ObjectsOf(C) = DOMAIN C
          /\ \A k \in DOMAIN C :
                /\ ObjectsOf(C)[k].key = C[k]
                /\ \A i \in DOMAIN KeyOrder :
                      C[k] = KeyOrder[i] => ObjectsOf(C)[k] = [key |-> KeyOrder[i], size |-> Sizes[i]]
      BY ONLY <2>1, ObjectsAre
    <2>3. /\ O \in Seq([key : Seq(Symbols), size : Symbols])
          /\ DOMAIN O = DOMAIN C
          /\ \A k \in DOMAIN C :
                /\ O[k].key = C[k]
                /\ \A i \in DOMAIN KeyOrder :
                      C[k] = KeyOrder[i] => O[k] = [key |-> KeyOrder[i], size |-> Sizes[i]]
      BY ONLY <1>2, <2>2
    <2> QED BY <1>1, <2>3
  <1>4. PICK no, np : no = objs \o O /\ np = prefixes \o F
    OBVIOUS
  <1>5. /\ no \in Seq(R)
        /\ \A i \in DOMAIN no : \/ i \in DOMAIN objs /\ no[i] = objs[i]
                                \/ \E j \in DOMAIN O : i = Len(objs) + j /\ no[i] = O[j]
        /\ \A i \in DOMAIN objs : i \in DOMAIN no /\ no[i] = objs[i]
        /\ \A j \in DOMAIN O : Len(objs) + j \in DOMAIN no /\ no[Len(objs) + j] = O[j]
    <2>1. objs \in Seq(R) /\ O \in Seq(R) /\ no = objs \o O
      BY <1>3, <1>4, <1>s
    <2> QED BY ONLY <2>1, ConcatFrom
  <1>6. /\ np \in Seq(T)
        /\ \A i \in DOMAIN np : \/ i \in DOMAIN prefixes /\ np[i] = prefixes[i]
                                \/ \E j \in DOMAIN F : i = Len(prefixes) + j /\ np[i] = F[j]
        /\ \A i \in DOMAIN prefixes : i \in DOMAIN np /\ np[i] = prefixes[i]
        /\ \A j \in DOMAIN F : Len(prefixes) + j \in DOMAIN np /\ np[Len(prefixes) + j] = F[j]
    <2>1. prefixes \in Seq(T) /\ F \in Seq(T) /\ np = prefixes \o F
      BY <1>4, <1>n, <1>s
    <2> QED BY ONLY <2>1, ConcatFrom
  <1>7. /\ \A i \in DOMAIN objs : Final(ents, objs[i].key) \in Nat /\ Final(ents, objs[i].key) <= p
        /\ \A i \in DOMAIN prefixes : Final(ents, prefixes[i]) \in Nat /\ Final(ents, prefixes[i]) <= p
    <2>0. \A k \in DOMAIN KeyOrder : Final(ents, ents[k]) \in Nat
      BY FinalIs, KeyOrderAssumption
    <2>1. ASSUME NEW i \in DOMAIN objs PROVE Final(ents, objs[i].key) \in Nat
      <3>1. PICK k \in seen : objs[i] = [key |-> KeyOrder[k], size |-> Sizes[k]] /\ ents[k] = KeyOrder[k]
        BY <1>s
      <3>2. objs[i].key = ents[k]
        BY <3>1
      <3> QED BY <2>0, <3>2
    <2>2. \A i \in DOMAIN prefixes : Final(ents, prefixes[i]) \in Nat
      BY <1>s, <2>0
    <2> QED BY <2>1, <2>2 DEF Reached
  <1>8. /\ \A k \in DOMAIN C : Final(ents, C[k]) \in Nat
        /\ \A k \in DOMAIN F : Final(ents, F[k]) \in Nat
    <2>0. \A k \in DOMAIN KeyOrder : Final(ents, ents[k]) \in Nat
      BY FinalIs, KeyOrderAssumption
    <2> QED BY <1>n, <2>0
  <1>9. \A i, k \in DOMAIN no : no[i].key = no[k].key => i = k
    <2> DEFINE f == [o \in R |-> o.key]
    <2>1. /\ \A i \in DOMAIN objs : f[objs[i]] = objs[i].key
          /\ \A k \in DOMAIN O : f[O[k]] = O[k].key
          /\ \A k \in DOMAIN no : f[no[k]] = no[k].key
      BY <1>3, <1>5, <1>s
    <2>2. DOMAIN f = R
      OBVIOUS
    <2> HIDE DEF f
    <2>3. \A i, k \in DOMAIN objs : f[objs[i]] = f[objs[k]] => i = k
      BY <1>s, <2>1
    <2>4. \A i, k \in DOMAIN O : f[O[i]] = f[O[k]] => i = k
      BY <1>3, <1>n, <2>1
    <2>5. \A i \in DOMAIN objs, k \in DOMAIN O : f[objs[i]] # f[O[k]]
      <3> SUFFICES ASSUME NEW i \in DOMAIN objs, NEW k \in DOMAIN O, objs[i].key = C[k] PROVE FALSE
        BY <1>3, <2>1
      <3>1. Final(ents, objs[i].key) <= p /\ p < Final(ents, C[k]) /\ Final(ents, C[k]) \in Nat
        BY <1>3, <1>7, <1>8, <1>n
      <3> QED BY <3>1
    <2>6. \A i, k \in DOMAIN no : f[no[i]] = f[no[k]] => i = k
      <3>1. objs \in Seq(R) /\ O \in Seq(R) /\ no = objs \o O
        BY <1>3, <1>4, <1>s
      <3> QED BY ONLY <2>2, <2>3, <2>4, <2>5, <3>1, NoRepetition, SMTT(30)
    <2> QED BY <2>1, <2>6
  <1>10. \A i, k \in DOMAIN np : np[i] = np[k] => i = k
    <2> DEFINE f == [e \in T |-> e]
    <2>1. /\ \A i \in DOMAIN prefixes : f[prefixes[i]] = prefixes[i]
          /\ \A k \in DOMAIN F : f[F[k]] = F[k]
          /\ \A k \in DOMAIN np : f[np[k]] = np[k]
      BY <1>6, <1>n, <1>s
    <2>2. DOMAIN f = T
      OBVIOUS
    <2> HIDE DEF f
    <2>3. \A i, k \in DOMAIN prefixes : f[prefixes[i]] = f[prefixes[k]] => i = k
      BY <1>s, <2>1
    <2>4. \A i, k \in DOMAIN F : f[F[i]] = f[F[k]] => i = k
      BY <1>n, <2>1
    <2>5. \A i \in DOMAIN prefixes, k \in DOMAIN F : f[prefixes[i]] # f[F[k]]
      <3> SUFFICES ASSUME NEW i \in DOMAIN prefixes, NEW k \in DOMAIN F, prefixes[i] = F[k] PROVE FALSE
        BY <2>1
      <3>1. Final(ents, prefixes[i]) <= p /\ p < Final(ents, F[k]) /\ Final(ents, F[k]) \in Nat
        BY <1>7, <1>8, <1>n
      <3> QED BY <3>1
    <2>6. \A i, k \in DOMAIN np : f[np[i]] = f[np[k]] => i = k
      <3>1. prefixes \in Seq(T) /\ F \in Seq(T) /\ np = prefixes \o F
        BY <1>4, <1>n, <1>s
      <3> QED BY ONLY <2>2, <2>3, <2>4, <2>5, <3>1, NoRepetition, SMTT(30)
    <2> QED BY <2>1, <2>6
  <1>11. \A i \in DOMAIN no :
            \E k \in seen : no[i] = [key |-> KeyOrder[k], size |-> Sizes[k]] /\ ents[k] = KeyOrder[k]
    <2> SUFFICES ASSUME NEW i \in DOMAIN no
                 PROVE  \E k \in seen : no[i] = [key |-> KeyOrder[k], size |-> Sizes[k]] /\ ents[k] = KeyOrder[k]
      OBVIOUS
    <2>1. CASE i \in DOMAIN objs /\ no[i] = objs[i]
      BY <1>s, <2>1
    <2>2. CASE \E j \in DOMAIN O : i = Len(objs) + j /\ no[i] = O[j]
      <3>1. PICK j \in DOMAIN C : no[i] = O[j]
        BY <1>3, <2>2
      <3>2. PICK k \in b : C[j] = ents[k] /\ C[j] = KeyOrder[k]
        BY <1>n
      <3>3. k \in seen /\ k \in DOMAIN KeyOrder
        OBVIOUS
      <3>4. O[j] = [key |-> KeyOrder[k], size |-> Sizes[k]]
        BY <1>3, <3>2, <3>3
      <3> QED BY <3>1, <3>2, <3>3, <3>4
    <2> QED BY <1>5, <2>1, <2>2
  <1>12. \A i \in DOMAIN np : \E k \in seen : ents[k] = np[i] /\ np[i] \in folds
    <2> SUFFICES ASSUME NEW i \in DOMAIN np PROVE \E k \in seen : ents[k] = np[i] /\ np[i] \in folds
      OBVIOUS
    <2>1. CASE i \in DOMAIN prefixes /\ np[i] = prefixes[i]
      BY <1>s, <2>1
    <2>2. CASE \E j \in DOMAIN F : i = Len(prefixes) + j /\ np[i] = F[j]
      BY <1>n, <2>2
    <2> QED BY <1>6, <2>1, <2>2
  <1>13. Sound(ents, folds, seen, no, np)
    BY <1>1, <1>5, <1>6, <1>9, <1>10, <1>11, <1>12 DEF Sound
  <1>14. Reached(ents, no, np, top)
    <2>1. ASSUME NEW i \in DOMAIN no PROVE Final(ents, no[i].key) <= top
      <3>1. CASE i \in DOMAIN objs /\ no[i] = objs[i]
        BY <1>7, <3>1
      <3>2. CASE \E j \in DOMAIN O : i = Len(objs) + j /\ no[i] = O[j]
        BY <1>3, <1>n, <3>2
      <3> QED BY <1>5, <3>1, <3>2
    <2>2. ASSUME NEW i \in DOMAIN np PROVE Final(ents, np[i]) <= top
      <3>1. CASE i \in DOMAIN prefixes /\ np[i] = prefixes[i]
        BY <1>7, <3>1
      <3>2. CASE \E j \in DOMAIN F : i = Len(prefixes) + j /\ np[i] = F[j]
        BY <1>n, <3>2
      <3> QED BY <1>6, <3>1, <3>2
    <2> QED BY <2>1, <2>2 DEF Reached
  <1>15. Covered(ents, kept, no, np, top)
    <2> SUFFICES ASSUME NEW i \in kept, Final(ents, ents[i]) <= top PROVE HasEntry(no, np, ents[i])
      BY DEF Covered
    <2>1. Final(ents, ents[i]) \in Nat
      BY FinalIs, KeyOrderAssumption
    <2>2. CASE Final(ents, ents[i]) <= p
      <3>1. HasEntry(objs, prefixes, ents[i])
        BY <2>2 DEF Covered
      <3> QED BY <1>5, <1>6, <3>1 DEF HasEntry
    <2>3. CASE p < Final(ents, ents[i])
      <3>1. (\E k \in DOMAIN C : C[k] = ents[i]) \/ (\E k \in DOMAIN F : F[k] = ents[i])
        BY <1>n, <2>3
      <3>2. CASE \E k \in DOMAIN C : C[k] = ents[i]
        <4>1. PICK k \in DOMAIN C : C[k] = ents[i]
          BY <3>2
        <4>2. Len(objs) + k \in DOMAIN no /\ no[Len(objs) + k].key = ents[i]
          BY <1>3, <1>5, <4>1
        <4> QED BY <4>2 DEF HasEntry
      <3>3. CASE \E k \in DOMAIN F : F[k] = ents[i]
        <4>1. PICK k \in DOMAIN F : F[k] = ents[i]
          BY <3>3
        <4>2. Len(prefixes) + k \in DOMAIN np /\ np[Len(prefixes) + k] = ents[i]
          BY <1>6, <4>1
        <4> QED BY <4>2 DEF HasEntry
      <3> QED BY <3>1, <3>2, <3>3
    <2> QED BY <2>1, <2>2, <2>3
  <1> QED BY <1>2, <1>4, <1>13, <1>14, <1>15

-----------------------------------------------------------------------------
(* The entries stay what they are. *)
LEMMA EntsStay ==
    ASSUME delimited' = delimited
    PROVE  Ents' = Ents /\ Folds' = Folds
  <1>1. Ents' = Ents
    BY DEF Ents, Entry
  <1>2. \A e : IsFolder(e)' <=> IsFolder(e)
    BY DEF IsFolder
  <1> QED BY <1>1, <1>2 DEF Folds, IsFolder

(* What is listed when a page has been read, or has not *)
LEMMA ReadingGoesOn ==
    ASSUME Inv, pc = "asking", delimited' = delimited,
           bucket' = bucket, always' = always, ever' = ever,
           NEW p \in 0 .. Len(KeyOrder), Resumes(Ents, token, p), asked <= p,
           Reached(Ents, objects, common_prefixes, p), Covered(Ents, always, objects, common_prefixes, p),
           NEW E, NEW behind, NEW x, InOrder(Ents, bucket, p, E, behind, x),
           NEW n \in Nat, n <= x, n = 0 => x = 0,
           NEW doc, PageArrives(doc),
           parse_list_objects_v2(doc)
              \in {Failed, Page(Chosen(SubSeq(E, 1, n), FALSE), Chosen(SubSeq(E, 1, n), TRUE), Following(E, n))}
    PROVE  Inv'
  <1>0. PICK N \in Nat : N = Len(KeyOrder) /\ DOMAIN KeyOrder = 1 .. N
    BY KeyOrderAssumption
  <1>1. Ents' = Ents /\ Folds' = Folds
    BY EntsStay
  <1>2. /\ always \subseteq bucket /\ bucket \subseteq ever /\ ever \subseteq DOMAIN KeyOrder
        /\ asked \in Nat /\ asked + 1 \in 0 .. N + 1
        /\ Sound(Ents, Folds, ever, objects, common_prefixes)
    BY <1>0 DEF Inv
  <1>3. PICK r : r = parse_list_objects_v2(doc)
    OBVIOUS
  <1>4. /\ objects' = objects \o r.objects /\ common_prefixes' = common_prefixes \o r.common_prefixes
        /\ asked' = asked + 1 /\ token' = r.token
        /\ pc' = CASE ~r.ok -> "failed" [] r.ok /\ r.token = None -> "done" [] OTHER -> "asking"
    BY <1>3 DEF PageArrives
  <1>5. CASE r = Failed
    <2>1. r.objects = << >> /\ r.common_prefixes = << >> /\ r.ok = FALSE
      BY <1>5 DEF Failed
    <2>2. objects' = objects /\ common_prefixes' = common_prefixes
      <3>1. PICK R : objects \in Seq(R)
        BY <1>2 DEF Sound
      <3>2. PICK T : common_prefixes \in Seq(T)
        BY <1>2 DEF Sound
      <3> QED BY <1>4, <2>1, <3>1, <3>2
    <2>3. pc' = "failed"
      BY <1>4, <2>1
    <2> QED BY <1>0, <1>1, <1>2, <1>4, <2>2, <2>3 DEF Inv
  <1>6. PICK C, F, to : /\ C = Chosen(SubSeq(E, 1, n), FALSE) /\ F = Chosen(SubSeq(E, 1, n), TRUE)
                        /\ to = Following(E, n)
    OBVIOUS
  <1>7. CASE r = Page(C, F, to)
    <2>1. r.objects = ObjectsOf(C) /\ r.common_prefixes = F /\ r.ok = TRUE /\ r.token = to
      BY <1>7 DEF Page, ObjectsOf
    <2>2. /\ x \in Nat /\ behind \in [1 .. x -> Ahead(Ents, bucket, p)] /\ Len(E) = x
          /\ \A m \in 1 .. x : E[m] = Ents[behind[m]]
      BY DEF InOrder, Enumerates
    <2>3. ASSUME NEW m \in 1 .. x
          PROVE  /\ behind[m] \in 1 .. N /\ p < behind[m]
                 /\ Final(Ents, Ents[behind[m]]) = behind[m]
      <3>1. behind[m] \in Ahead(Ents, bucket, p)
        BY <2>2
      <3>2. PICK k \in bucket : behind[m] = Final(Ents, Ents[k]) /\ behind[m] > p
        BY <3>1 DEF Ahead
      <3>3. k \in DOMAIN KeyOrder
        BY <1>2
      <3>4. behind[m] \in 1 .. N /\ Ents[behind[m]] = Ents[k]
        BY <1>0, <3>2, <3>3, FinalIs
      <3> QED BY <3>2, <3>4
    <2>4. PICK top : top = IF n < x THEN behind[n] ELSE N
      OBVIOUS
    <2>5. top \in Nat /\ p <= top /\ top <= N
      <3>1. CASE n < x
        <4>1. n \in 1 .. x
          BY <2>2, <3>1
        <4> QED BY <1>0, <2>3, <2>4, <3>1, <4>1
      <3>2. CASE ~(n < x)
        BY <1>0, <2>4, <3>2
      <3> QED BY <3>1, <3>2
    <2>6. News(Ents, Folds, bucket, p, top, C, F)
      <3>1. News(Ents, Folds, bucket, p, top, Chosen(SubSeq(E, 1, n), FALSE), Chosen(SubSeq(E, 1, n), TRUE))
        BY <1>0, <1>2, <2>4, PageIsNews
      <3> QED BY <1>6, <3>1
    <2>7. /\ Sound(Ents, Folds, ever, objects \o ObjectsOf(C), common_prefixes \o F)
          /\ Reached(Ents, objects \o ObjectsOf(C), common_prefixes \o F, top)
          /\ Covered(Ents, always, objects \o ObjectsOf(C), common_prefixes \o F, top)
      <3>1. p \in Nat
        BY <1>0
      <3> QED BY <1>2, <2>5, <2>6, <3>1, NewsAreAdded
    <2>8. /\ Sound(Ents, Folds, ever, objects', common_prefixes')
          /\ Reached(Ents, objects', common_prefixes', top)
          /\ Covered(Ents, always, objects', common_prefixes', top)
      BY <1>4, <2>1, <2>7
    <2>9. CASE n < x
      <3>1. n \in 1 .. x
        BY <2>2, <2>9
      <3>2. behind[n] \in DOMAIN KeyOrder /\ top = behind[n] /\ p < top /\ Final(Ents, Ents[behind[n]]) = top
        BY <1>0, <2>3, <2>4, <2>9, <3>1
      <3>3. to = TokenFor(Ents[behind[n]])
        BY <1>6, <2>2, <2>9, <3>1 DEF Following
      <3>4. to # None
        BY <3>2, <3>3, EntsAre, TokenIs
      <3>5. pc' = "asking"
        BY <1>4, <2>1, <3>4
      <3>6. Resumes(Ents, to, top)
        BY <3>2, <3>3 DEF Resumes
      <3>7. asked + 1 <= top
        BY <1>0, <1>2, <2>5, <3>2
      <3>8. Asking(Ents, always, token', asked', objects', common_prefixes')
        <4>1. top \in 0 .. Len(KeyOrder)
          BY <1>0, <2>5
        <4>2. PICK t, a, no, np : t = token' /\ a = asked' /\ no = objects' /\ np = common_prefixes'
          OBVIOUS
        <4>3. /\ Resumes(Ents, t, top) /\ a <= top
              /\ Reached(Ents, no, np, top) /\ Covered(Ents, always, no, np, top)
          BY <1>4, <2>1, <2>8, <3>6, <3>7, <4>2
        <4>4. Asking(Ents, always, t, a, no, np)
          BY <4>1, <4>3 DEF Asking
        <4> QED BY <4>2, <4>4
      <3> QED BY <1>0, <1>1, <1>2, <1>4, <2>8, <3>5, <3>8 DEF Inv
    <2>10. CASE ~(n < x)
      <3>1. to = None
        BY <1>6, <2>2, <2>10 DEF Following
      <3>2. pc' = "done"
        BY <1>4, <2>1, <3>1
      <3>3. Covered(Ents, always, objects', common_prefixes', Len(KeyOrder))
        BY <1>0, <2>4, <2>8, <2>10
      <3> QED BY <1>0, <1>1, <1>2, <1>4, <2>8, <3>2, <3>3 DEF Inv
    <2> QED BY <2>9, <2>10
  <1> QED BY <1>3, <1>5, <1>6, <1>7

(* While it is asking, the loop is somewhere, and what is there is a listing. *)
LEMMA AskingIsSomewhere ==
    ASSUME Inv, pc = "asking"
    PROVE  \E p, behind, x :
              /\ p \in 0 .. Len(KeyOrder)
              /\ Resumes(Ents, token, p) /\ asked <= p
              /\ Reached(Ents, objects, common_prefixes, p)
              /\ Covered(Ents, always, objects, common_prefixes, p)
              /\ InOrder(Ents, bucket, p, EntriesBehind(token), behind, x)
              /\ token \in Seq(Symbols) /\ token # << >>
              /\ EntriesBehind(token) \in Seq(Seq(Symbols)) /\ x = Len(EntriesBehind(token))
              /\ \A i \in DOMAIN EntriesBehind(token) : IsEntry(EntriesBehind(token)[i])
              /\ None \notin Range(KeyOrder) =>
                    \A i \in DOMAIN EntriesBehind(token) : EntriesBehind(token)[i] # None
  <1>1. PICK p \in 0 .. Len(KeyOrder) :
            /\ Resumes(Ents, token, p) /\ asked <= p
            /\ Reached(Ents, objects, common_prefixes, p)
            /\ Covered(Ents, always, objects, common_prefixes, p)
    BY DEF Inv, Asking
  <1>2. bucket \subseteq DOMAIN KeyOrder
    BY DEF Inv
  <1>3. PICK E : E = EntriesBehind(token)
    OBVIOUS
  <1>4. /\ \E behind, x : InOrder(Ents, bucket, p, E, behind, x)
        /\ token \in Seq(Symbols) /\ token # << >>
    BY <1>1, <1>2, <1>3, EntriesAre
  <1>5. PICK behind, x : InOrder(Ents, bucket, p, E, behind, x)
    BY <1>4
  <1>6. /\ E \in Seq(Seq(Symbols)) /\ x = Len(E) /\ x \in Nat
        /\ \A m \in 1 .. x : E[m] = Ents[behind[m]] /\ behind[m] \in Ahead(Ents, bucket, p)
    BY <1>5 DEF InOrder, Enumerates
  <1>7. ASSUME NEW i \in DOMAIN E
        PROVE  IsEntry(E[i]) /\ (None \notin Range(KeyOrder) => E[i] # None)
    <2>1. i \in 1 .. x
      BY <1>6
    <2>2. PICK k \in bucket : behind[i] = Final(Ents, Ents[k])
      BY <1>6, <2>1 DEF Ahead
    <2>3. k \in DOMAIN KeyOrder
      BY <1>2
    <2>4. E[i] = Ents[k]
      <3>1. E[i] = Ents[behind[i]]
        BY <1>6, <2>1
      <3>2. Ents[Final(Ents, Ents[k])] = Ents[k]
        BY <2>3, FinalIs
      <3> QED BY <2>2, <3>1, <3>2
    <2>5. ASSUME None \notin Range(KeyOrder) PROVE Ents[k] # None
      <3>1. CASE Ents[k] \in Folds
        <4>1. IsFolder(Ents[k])
          BY <2>3, <3>1, EntsAre
        <4>2. Len(None) = 1 /\ None[1] = "None"
          BY DEF None
        <4>3. ~IsFolder(None)
          BY <4>2 DEF IsFolder
        <4> QED BY <4>1, <4>3
      <3>2. CASE Ents[k] \notin Folds
        <4>1. Ents[k] = KeyOrder[k]
          BY <2>3, <3>2, EntsAre
        <4> QED BY <2>3, <2>5, <4>1 DEF Range
      <3> QED BY <3>1, <3>2
    <2> QED BY <2>3, <2>4, <2>5, EntsAre
  <1> QED BY <1>1, <1>3, <1>4, <1>5, <1>6, <1>7

(* It begins with nothing listed. *)
LEMMA InitHasInv ==
    Init => Inv
  <1> SUFFICES ASSUME Init PROVE Inv
    OBVIOUS
  <1>0. PICK N \in Nat : N = Len(KeyOrder) /\ DOMAIN KeyOrder = 1 .. N
    BY KeyOrderAssumption
  <1>1. always = bucket /\ ever = bucket /\ bucket \subseteq DOMAIN KeyOrder
    BY DEF Init
  <1>2. asked = 0 /\ token = None /\ pc = "asking" /\ objects = << >> /\ common_prefixes = << >>
    BY DEF Init
  <1>3. asked \in 0 .. Len(KeyOrder) + 1
    BY <1>0, <1>2
  <1>4. DOMAIN << >> = {}
    OBVIOUS
  <1>5. Sound(Ents, Folds, ever, objects, common_prefixes)
    BY <1>2, <1>4 DEF Sound
  <1>6. Asking(Ents, always, token, asked, objects, common_prefixes)
    <2>1. Resumes(Ents, token, 0)
      BY <1>2 DEF Resumes
    <2>2. Reached(Ents, objects, common_prefixes, 0)
      BY <1>2, <1>4 DEF Reached
    <2>3. Covered(Ents, always, objects, common_prefixes, 0)
      <3> SUFFICES ASSUME NEW i \in always, Final(Ents, Ents[i]) <= 0 PROVE FALSE
        BY DEF Covered
      <3>1. Final(Ents, Ents[i]) \in 1 .. N
        BY <1>0, <1>1, FinalIs
      <3> QED BY <3>1
    <2>4. 0 \in 0 .. Len(KeyOrder)
      BY <1>0
    <2> QED BY <1>2, <2>1, <2>2, <2>3, <2>4 DEF Asking
  <1> QED BY <1>1, <1>2, <1>3, <1>5, <1>6 DEF Inv

(* Every step keeps it. *)
LEMMA NextKeepsInv ==
    Inv /\ [Next]_vars => Inv'
  <1> SUFFICES ASSUME Inv, [Next]_vars PROVE Inv'
    OBVIOUS
  <1>1. ASSUME NEW fault \in Faults, Answered(fault) PROVE Inv'
    <2>0. /\ pc = "asking" /\ delimited' = delimited
          /\ bucket' = bucket /\ always' = always /\ ever' = ever
      BY <1>1 DEF Answered
    <2>1. PICK E : E = EntriesBehind(token)
      OBVIOUS
    <2>2. PICK p, behind, x :
              /\ p \in 0 .. Len(KeyOrder)
              /\ Resumes(Ents, token, p) /\ asked <= p
              /\ Reached(Ents, objects, common_prefixes, p)
              /\ Covered(Ents, always, objects, common_prefixes, p)
              /\ InOrder(Ents, bucket, p, E, behind, x)
              /\ token \in Seq(Symbols) /\ token # << >>
              /\ E \in Seq(Seq(Symbols)) /\ x = Len(E)
              /\ \A i \in DOMAIN E : IsEntry(E[i])
      BY <2>0, <2>1, AskingIsSomewhere
    <2>3. fault = "empty_root" => E = << >>
      BY <1>1, <2>1 DEF Answered
    <2>4. PICK n \in 0 .. MaxPage : n <= Len(E) /\ (n = 0 => E = << >>) /\ PageArrives(PageOf(E, n, fault))
      BY <1>1, <2>1 DEF Answered
    <2>5. n \in Nat /\ (n = 0 => x = 0)
      BY <2>2, <2>4, MaxPageAssumption
    <2>6. PICK doc : doc = PageOf(E, n, fault)
      OBVIOUS
    <2>7. parse_list_objects_v2(doc)
              \in {Failed, Page(Chosen(SubSeq(E, 1, n), FALSE), Chosen(SubSeq(E, 1, n), TRUE), Following(E, n))}
      <3>1. /\ E \in Seq(Seq(Symbols)) /\ (\A i \in DOMAIN E : IsEntry(E[i])) /\ n \in Nat /\ n <= Len(E)
            /\ (n = 0 => E = << >>) /\ (fault = "empty_root" => E = << >>)
            /\ token \in Seq(Symbols) /\ token # << >>
        BY <2>2, <2>3, <2>4, <2>5
      <3>2. parse_list_objects_v2(PageOf(E, n, fault))
              \in {Failed, Page(Chosen(SubSeq(E, 1, n), FALSE), Chosen(SubSeq(E, 1, n), TRUE), Following(E, n))}
        BY ONLY <3>1, PageOfIsRead
      <3> QED BY <2>6, <3>2
    <2>8. PageArrives(doc) /\ n <= x
      BY <2>2, <2>4, <2>6
    <2> QED BY <2>0, <2>2, <2>5, <2>7, <2>8, ReadingGoesOn
  <1>2. CASE AnswerCutShort
    <2>0. /\ pc = "asking" /\ delimited' = delimited
          /\ bucket' = bucket /\ always' = always /\ ever' = ever
      BY <1>2 DEF AnswerCutShort
    <2>1. PICK E : E = EntriesBehind(token)
      OBVIOUS
    <2>2. PICK p, behind, x :
              /\ p \in 0 .. Len(KeyOrder)
              /\ Resumes(Ents, token, p) /\ asked <= p
              /\ Reached(Ents, objects, common_prefixes, p)
              /\ Covered(Ents, always, objects, common_prefixes, p)
              /\ InOrder(Ents, bucket, p, E, behind, x)
              /\ token \in Seq(Symbols) /\ token # << >>
              /\ E \in Seq(Seq(Symbols)) /\ x = Len(E)
              /\ \A i \in DOMAIN E : IsEntry(E[i])
      BY <2>0, <2>1, AskingIsSomewhere
    <2>3. PICK doc \in CutShort(PageOf(E, Len(E), "none")) : PageArrives(doc)
      BY <1>2, <2>1 DEF AnswerCutShort
    <2>4. parse_list_objects_v2(doc) = Failed
      BY <2>2, CutPageIsRefused
    <2>5. PICK n \in Nat : n = x
      BY <2>2
    <2>6. parse_list_objects_v2(doc)
              \in {Failed, Page(Chosen(SubSeq(E, 1, n), FALSE), Chosen(SubSeq(E, 1, n), TRUE), Following(E, n))}
      BY <2>4
    <2>7. n <= x /\ (n = 0 => x = 0)
      BY <2>5
    <2> QED BY <2>0, <2>2, <2>3, <2>6, <2>7, ReadingGoesOn
  <1>3. CASE Refused
    <2>1. Ents' = Ents /\ Folds' = Folds
      BY <1>3, EntsStay DEF Refused
    <2> QED BY <1>3, <2>1 DEF Refused, Inv
  <1>4. ASSUME NEW i \in DOMAIN KeyOrder, BucketChanges(i) PROVE Inv'
    <2>1. Ents' = Ents /\ Folds' = Folds
      BY <1>4, EntsStay DEF BucketChanges
    <2>2. /\ always' \subseteq bucket' /\ bucket' \subseteq ever' /\ ever' \subseteq DOMAIN KeyOrder
          /\ always' \subseteq always /\ ever \subseteq ever'
          /\ pc = "asking" /\ pc' = pc /\ asked' = asked /\ token' = token
          /\ objects' = objects /\ common_prefixes' = common_prefixes
      BY <1>4 DEF BucketChanges, Inv
    <2>3. Sound(Ents, Folds, ever', objects, common_prefixes)
      <3>1. Sound(Ents, Folds, ever, objects, common_prefixes)
        BY DEF Inv
      <3> QED BY <2>2, <3>1 DEF Sound
    <2>4. Asking(Ents, always', token, asked, objects, common_prefixes)
      <3>1. PICK p \in 0 .. Len(KeyOrder) :
                /\ Resumes(Ents, token, p) /\ asked <= p
                /\ Reached(Ents, objects, common_prefixes, p)
                /\ Covered(Ents, always, objects, common_prefixes, p)
        BY <2>2 DEF Inv, Asking
      <3>2. Covered(Ents, always', objects, common_prefixes, p)
        BY <2>2, <3>1 DEF Covered
      <3> QED BY <3>1, <3>2 DEF Asking
    <2> QED BY <2>1, <2>2, <2>3, <2>4 DEF Inv
  <1>5. CASE Terminated \/ UNCHANGED vars
    <2>1. Ents' = Ents /\ Folds' = Folds
      BY <1>5, EntsStay DEF Terminated, vars
    <2> QED BY <1>5, <2>1 DEF Terminated, vars, Inv
  <1> QED BY <1>1, <1>2, <1>3, <1>4, <1>5 DEF Next

(* A listing read to its end has every object that was there all the while:  *)
(* the pages of list_objects_v2 lose nothing between two of them, in one     *)
(* that was cut or is faulty, in any of the layouts.                         *)
THEOREM NothingIsLost ==
    Spec => []ListingIsComplete
  <1>1. Inv => ListingIsComplete
    <2> SUFFICES ASSUME Inv, pc = "done", NEW i \in always PROVE Entry(KeyOrder[i]) \in Listed
      BY DEF ListingIsComplete
    <2>1. i \in DOMAIN KeyOrder
      BY DEF Inv
    <2>2. Final(Ents, Ents[i]) <= Len(KeyOrder)
      BY <2>1, FinalIs, KeyOrderAssumption
    <2>3. HasEntry(objects, common_prefixes, Ents[i])
      BY <2>2 DEF Inv, Covered
    <2>4. Ents[i] = Entry(KeyOrder[i])
      BY <2>1, EntsAre
    <2>5. CASE \E k \in DOMAIN objects : objects[k].key = Ents[i]
      BY <2>4, <2>5 DEF Listed
    <2>6. CASE \E k \in DOMAIN common_prefixes : common_prefixes[k] = Ents[i]
      BY <2>4, <2>6 DEF Listed, Range
    <2> QED BY <2>3, <2>5, <2>6 DEF HasEntry
  <1> QED BY <1>1, InitHasInv, NextKeepsInv, PTL DEF Spec

(* What the pages of list_objects_v2 list was there, decoded, with its own    *)
(* size, and nothing of it twice.                                            *)
THEOREM Truthful ==
    Spec => []ListingIsTrue
  <1>1. Inv => ListingIsTrue
    <2> SUFFICES ASSUME Inv PROVE ListingIsTrue
      OBVIOUS
    <2>0. ever \subseteq DOMAIN KeyOrder
      BY DEF Inv
    <2>1. /\ \A i \in DOMAIN objects :
                \E k \in ever : objects[i] = [key |-> KeyOrder[k], size |-> Sizes[k]] /\ Ents[k] = KeyOrder[k]
          /\ \A i \in DOMAIN common_prefixes :
                \E k \in ever : Ents[k] = common_prefixes[i] /\ common_prefixes[i] \in Folds
          /\ \A i, k \in DOMAIN objects : objects[i].key = objects[k].key => i = k
          /\ \A i, k \in DOMAIN common_prefixes : common_prefixes[i] = common_prefixes[k] => i = k
      BY DEF Inv, Sound
    <2>2. \A k \in ever : Ents[k] = Entry(KeyOrder[k]) /\ (Ents[k] \in Folds => IsFolder(Ents[k]))
      BY <2>0, EntsAre
    <2>3. \A i \in DOMAIN objects :
              \E k \in ever : /\ objects[i] = [key |-> KeyOrder[k], size |-> Sizes[k]]
                              /\ Entry(KeyOrder[k]) = KeyOrder[k]
      BY <2>1, <2>2
    <2>4. ASSUME NEW i \in DOMAIN common_prefixes
          PROVE  \E k \in ever : Entry(KeyOrder[k]) = common_prefixes[i] /\ IsFolder(common_prefixes[i])
      <3>1. PICK k \in ever : Ents[k] = common_prefixes[i] /\ common_prefixes[i] \in Folds
        BY <2>1
      <3>2. Entry(KeyOrder[k]) = common_prefixes[i] /\ IsFolder(Ents[k])
        BY <2>2, <3>1
      <3>3. IsFolder(common_prefixes[i])
        BY <3>1, <3>2
      <3> QED BY <3>2, <3>3
    <2> QED BY <2>1, <2>3, <2>4 DEF ListingIsTrue
  <1> QED BY <1>1, InitHasInv, NextKeepsInv, PTL DEF Spec

(* The caller's loop asks for no more pages than there are keys, and one for *)
(* the end, of a storage that truncates no page before its first entry.      *)
THEOREM Bounded ==
    Spec => []LoopIsBounded
  <1>1. Inv => LoopIsBounded
    BY KeyOrderAssumption DEF Inv, LoopIsBounded
  <1> QED BY <1>1, InitHasInv, NextKeepsInv, PTL DEF Spec

(* A page without a fault that keeps it from being read is not refused. *)
FaultlessPageIsRead ==
    \A fault \in Faults \ Broken : Answered(fault) => pc' # "failed"

(* A page that arrives whole is read: parse_list_objects_v2 refuses no page,  *)
(* in any of the layouts, that has the fields it requires, and it takes a    *)
(* root that closes itself for an empty bucket.  No key may be the text that *)
(* stands for an absent one in the model.                                    *)
THEOREM NoNeedlessRefusal ==
    ASSUME None \notin Range(KeyOrder)
    PROVE  Spec => [][FaultlessPageIsRead]_vars
  <1>1. ASSUME Inv, NEW fault \in Faults \ Broken, Answered(fault) PROVE pc' # "failed"
    <2>1. PICK E : E = EntriesBehind(token)
      OBVIOUS
    <2>2. pc = "asking" /\ (fault = "empty_root" => E = << >>)
      BY <1>1, <2>1 DEF Answered
    <2>3. /\ token \in Seq(Symbols) /\ token # << >>
          /\ E \in Seq(Seq(Symbols)) /\ (\A i \in DOMAIN E : IsEntry(E[i]))
          /\ \A i \in DOMAIN E : E[i] # None
      BY <1>1, <2>1, <2>2, AskingIsSomewhere
    <2>4. PICK n \in 0 .. MaxPage : n <= Len(E) /\ (n = 0 => E = << >>) /\ PageArrives(PageOf(E, n, fault))
      BY <1>1, <2>1 DEF Answered
    <2>5. n \in Nat /\ fault \notin Broken
      BY <1>1, <2>4, MaxPageAssumption
    <2>6. parse_list_objects_v2(PageOf(E, n, fault)).ok
      BY ONLY <2>2, <2>3, <2>4, <2>5, PageOfIsRead
    <2> QED BY <2>4, <2>6 DEF PageArrives
  <1>2. Inv /\ [Next]_vars => [FaultlessPageIsRead]_vars
    BY <1>1 DEF FaultlessPageIsRead
  <1> QED BY <1>2, InitHasInv, NextKeepsInv, PTL DEF Spec
=============================================================================
