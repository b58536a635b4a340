------------------------- MODULE CanonicalQueryProofs -------------------------
(***************************************************************************)
(* The query of a signed request, for every number of parameters and every  *)
(* value: what the storage reads is what was asked, and what it signs is    *)
(* what was signed.                                                         *)
(***************************************************************************)
EXTENDS CanonicalQuery, SequenceTheorems, FiniteSetTheorems, WellFoundedInduction, TLAPS

-----------------------------------------------------------------------------
(* A set of positions that is not empty has a first one. *)
LEMMA MinIsFirst ==
    ASSUME NEW S \in SUBSET Nat, S # {}
    PROVE  Min(S) \in S /\ \A y \in S : Min(S) <= y
  <1>1. PICK x \in S : \A y \in S : ~(<<y, x>> \in OpToRel(<, Nat))
    BY NatLessThanWellFounded, WFMin
  <1>2. ASSUME NEW y \in S PROVE x <= y
    <2>1. <<y, x>> \in Nat \X Nat /\ <<y, x>>[1] = y /\ <<y, x>>[2] = x
      OBVIOUS
    <2>2. ~(y < x)
      BY <1>1, <2>1, Zenon DEF OpToRel
    <2> QED BY <2>2
  <1> QED BY <1>2 DEF Min

(* Induction, for a property that is stated as the set of what has it *)
LEMMA Induction ==
    ASSUME NEW S, 0 \in S, \A n \in Nat : n \in S => n + 1 \in S
    PROVE  \A n \in Nat : n \in S
  <1> DEFINE Rest == Nat \ S
  <1>1. SUFFICES ASSUME Rest # {} PROVE FALSE
    OBVIOUS
  <1>2. PICK m \in Rest : \A y \in Rest : m <= y
    BY <1>1, MinIsFirst
  <1>3. m - 1 \in Nat /\ m - 1 \notin Rest
    BY <1>2
  <1> QED BY <1>2, <1>3

(* The prefixes FlattenSeq goes through, one sequence after the other *)
Flattens(f, seqs, T) ==
    /\ f \in [0 .. Len(seqs) -> Seq(T)]
    /\ f[0] = << >>
    /\ \A n \in 1 .. Len(seqs) : f[n] = f[n - 1] \o seqs[n]

(* There are such prefixes. *)
LEMMA PrefixesExist ==
    ASSUME NEW T, NEW seqs \in Seq(Seq(T))
    PROVE  \E f : Flattens(f, seqs, T)
  <1> DEFINE Upto(f, m) == /\ f \in [0 .. m -> Seq(T)]
                           /\ f[0] = << >>
                           /\ \A n \in 1 .. m : f[n] = f[n - 1] \o seqs[n]
             S == {m \in Nat : m <= Len(seqs) => \E f : Upto(f, m)}
  <1> HIDE DEF Upto
  <1>1. 0 \in S
    <2>1. Upto([n \in 0 .. 0 |-> << >>], 0)
      BY DEF Upto
    <2> QED BY <2>1
  <1>2. ASSUME NEW m \in Nat, m \in S PROVE m + 1 \in S
    <2>1. SUFFICES ASSUME m + 1 <= Len(seqs) PROVE \E f : Upto(f, m + 1)
      OBVIOUS
    <2>2. PICK f : Upto(f, m)
      BY <1>2, <2>1
    <2> USE DEF Upto
    <2>3. PICK g : g = [n \in 0 .. m + 1 |-> IF n = m + 1 THEN f[m] \o seqs[m + 1] ELSE f[n]]
      OBVIOUS
    <2>4. f[m] \in Seq(T) /\ seqs[m + 1] \in Seq(T)
      BY <2>1, <2>2
    <2>5. f[m] \o seqs[m + 1] \in Seq(T)
      BY <2>4
    <2>6. g \in [0 .. m + 1 -> Seq(T)] /\ g[0] = << >>
      BY <2>2, <2>3, <2>5
    <2>7. ASSUME NEW n \in 1 .. m + 1 PROVE g[n] = g[n - 1] \o seqs[n]
      <3>1. CASE n = m + 1
        <4>1. n - 1 = m
          BY <3>1
        <4>2. m \in 0 .. m + 1 /\ m + 1 \in 0 .. m + 1 /\ m # m + 1
          OBVIOUS
        <4>3. g[m] = f[m] /\ g[m + 1] = f[m] \o seqs[m + 1]
          BY <2>3, <4>2
        <4> QED BY <3>1, <4>1, <4>3
      <3>2. CASE n # m + 1
        <4>1. n \in 1 .. m /\ n \in 0 .. m + 1 /\ n - 1 \in 0 .. m + 1 /\ n - 1 # m + 1
          BY <3>2
        <4>2. g[n] = f[n] /\ g[n - 1] = f[n - 1]
          BY <2>3, <3>2, <4>1
        <4> QED BY <2>2, <4>1, <4>2
      <3> QED BY <3>1, <3>2
    <2> QED BY <2>6, <2>7
  <1> HIDE DEF S
  <1>3. \A m \in Nat : m \in S
    BY <1>1, <1>2, Induction
  <1>4. Len(seqs) \in S
    BY <1>3
  <1>5. PICK f : Upto(f, Len(seqs))
    BY <1>4 DEF S
  <1>6. Flattens(f, seqs, T)
    BY <1>5 DEF Upto, Flattens
  <1> QED BY <1>6

(* The same prefixes, whichever way they are chosen *)
LEMMA PrefixesAreUnique ==
    ASSUME NEW T, NEW seqs, NEW more, Len(seqs) \in Nat, Len(more) \in Nat, NEW f, NEW g,
           Len(seqs) <= Len(more), \A n \in 1 .. Len(seqs) : seqs[n] = more[n],
           Flattens(f, seqs, T), Flattens(g, more, T)
    PROVE  \A n \in 0 .. Len(seqs) : f[n] = g[n]
  <1> DEFINE S == {m \in Nat : m <= Len(seqs) => f[m] = g[m]}
  <1>1. 0 \in S
    BY DEF Flattens
  <1>2. ASSUME NEW m \in Nat, m \in S PROVE m + 1 \in S
    <2>1. SUFFICES ASSUME m + 1 <= Len(seqs) PROVE f[m + 1] = g[m + 1]
      OBVIOUS
    <2>2. m + 1 \in 1 .. Len(seqs) /\ m + 1 \in 1 .. Len(more) /\ (m + 1) - 1 = m
      BY <2>1
    <2>3. f[m + 1] = f[m] \o seqs[m + 1] /\ g[m + 1] = g[m] \o more[m + 1]
      BY <2>2 DEF Flattens
    <2>4. f[m] = g[m] /\ seqs[m + 1] = more[m + 1]
      BY <1>2, <2>1, <2>2
    <2> QED BY <2>3, <2>4
  <1> HIDE DEF S
  <1>3. \A m \in Nat : m \in S
    BY <1>1, <1>2, Induction
  <1> QED BY <1>3 DEF S

(* FlattenSeq is the last of them. *)
LEMMA FlattenIsComputed ==
    ASSUME NEW T, NEW seqs \in Seq(Seq(T)), NEW f, Flattens(f, seqs, T)
    PROVE  FlattenSeq(seqs) = f[Len(seqs)]
  <1>1. CASE Len(seqs) = 0
    <2>1. seqs = << >>
      BY <1>1
    <2> QED BY <1>1, <2>1 DEF FlattenSeq, Flattens
  <1>2. CASE Len(seqs) # 0
    <2> DEFINE N == Len(seqs)
               F(h) == [i \in 1 .. N |-> IF i = 1 THEN seqs[i] ELSE h[i - 1] \o seqs[i]]
               g == [i \in 1 .. N |-> f[i]]
               c == CHOOSE h : h = F(h)
    <2>1. N \in Nat \ {0} /\ \A i \in 1 .. N : seqs[i] \in Seq(T)
      BY <1>2
    <2>2. ASSUME NEW i \in 1 .. N PROVE g[i] = IF i = 1 THEN seqs[i] ELSE g[i - 1] \o seqs[i]
      <3>1. f[i] = f[i - 1] \o seqs[i]
        BY DEF Flattens
      <3>2. CASE i = 1
        <4>1. f[1] = << >> \o seqs[1] /\ seqs[1] \in Seq(T)
          BY <2>1, <3>1, <3>2 DEF Flattens
        <4> QED BY <3>2, <4>1, ConcatEmptySeq
      <3>3. CASE i # 1
        <4>1. i - 1 \in 1 .. N
          BY <2>1, <3>3
        <4> QED BY <3>1, <3>3, <4>1
      <3> QED BY <3>2, <3>3
    <2>3. g = F(g)
      BY <2>2
    <2>4. c = F(c)
      BY <2>3
    <2>5. \A i \in 1 .. N : c[i] = IF i = 1 THEN seqs[i] ELSE c[i - 1] \o seqs[i]
      BY <2>4
    <2>6. FlattenSeq(seqs) = c[N]
      BY <1>2 DEF FlattenSeq
    <2> DEFINE S == {m \in Nat : m + 1 <= N => c[m + 1] = g[m + 1]}
    <2> HIDE DEF c, g
    <2>7. 0 \in S
      BY <2>1, <2>2, <2>5
    <2>8. ASSUME NEW m \in Nat, m \in S PROVE m + 1 \in S
      <3>1. SUFFICES ASSUME m + 2 <= N PROVE c[m + 2] = g[m + 2]
        OBVIOUS
      <3>2. m + 2 \in 1 .. N /\ m + 2 # 1 /\ (m + 2) - 1 = m + 1
        BY <3>1
      <3>3. c[m + 2] = c[m + 1] \o seqs[m + 2] /\ g[m + 2] = g[m + 1] \o seqs[m + 2]
        BY <2>2, <2>5, <3>2
      <3>4. c[m + 1] = g[m + 1]
        BY <2>8, <3>1
      <3> QED BY <3>3, <3>4
    <2> HIDE DEF S
    <2>9. \A m \in Nat : m \in S
      BY <2>7, <2>8, Induction
    <2>10. N - 1 \in S
      BY <2>1, <2>9
    <2>11. c[N] = g[N]
      BY <2>1, <2>10 DEF S
    <2> QED BY <2>1, <2>6, <2>11 DEF g
  <1> QED BY <1>1, <1>2

(* FlattenSeq, one sequence at a time *)
LEMMA FlattenOfAppend ==
    ASSUME NEW T, NEW seqs \in Seq(Seq(T)), NEW x \in Seq(T)
    PROVE  /\ FlattenSeq(<< >>) = << >>
           /\ FlattenSeq(seqs) \in Seq(T)
           /\ FlattenSeq(Append(seqs, x)) = FlattenSeq(seqs) \o x
  <1>0. FlattenSeq(<< >>) = << >>
    BY DEF FlattenSeq
  <1>1. PICK f : Flattens(f, seqs, T)
    BY PrefixesExist
  <1>2. Append(seqs, x) \in Seq(Seq(T))
    OBVIOUS
  <1>3. PICK g : Flattens(g, Append(seqs, x), T)
    BY <1>2, PrefixesExist
  <1>4. /\ Len(seqs) \in Nat /\ Len(Append(seqs, x)) = Len(seqs) + 1
        /\ \A n \in 1 .. Len(seqs) : seqs[n] = Append(seqs, x)[n]
        /\ Append(seqs, x)[Len(seqs) + 1] = x
    OBVIOUS
  <1>5. f[Len(seqs)] = g[Len(seqs)]
    <2>1. Len(seqs) <= Len(Append(seqs, x)) /\ Len(Append(seqs, x)) \in Nat
      BY <1>4
    <2>2. \A n \in 0 .. Len(seqs) : f[n] = g[n]
      <3>1. PICK more : more = Append(seqs, x)
        OBVIOUS
      <3>2. /\ Len(seqs) \in Nat /\ Len(more) \in Nat /\ Len(seqs) <= Len(more)
            /\ \A n \in 1 .. Len(seqs) : seqs[n] = more[n]
            /\ Flattens(g, more, T)
        BY <1>3, <1>4, <2>1, <3>1
      <3> QED BY <1>1, <3>2, PrefixesAreUnique, SMTT(30)
    <2> QED BY <1>4, <2>2
  <1>6. g[Len(seqs) + 1] = g[Len(seqs)] \o x
    <2>1. Len(seqs) + 1 \in 1 .. Len(Append(seqs, x)) /\ (Len(seqs) + 1) - 1 = Len(seqs)
      BY <1>4
    <2> QED BY <1>3, <1>4, <2>1 DEF Flattens
  <1>7. FlattenSeq(seqs) = f[Len(seqs)] /\ FlattenSeq(Append(seqs, x)) = g[Len(seqs) + 1]
    BY <1>1, <1>2, <1>3, <1>4, FlattenIsComputed
  <1>8. FlattenSeq(seqs) \in Seq(T)
    BY <1>1, <1>4, <1>7 DEF Flattens
  <1> QED BY <1>0, <1>5, <1>6, <1>7, <1>8
-----------------------------------------------------------------------------
(* What one byte is encoded as *)
Encoded(byte) == IF byte \in Unreserved THEN <<byte>> ELSE Escaped(byte)

(* The bytes of an encoded text: neither & nor = is one of them. *)
Plain == Unreserved \cup {Percent}

(* Both halves of a byte are written with digits that are read back. *)
LEMMA DigitsAreRead ==
    ASSUME NEW n \in 0 .. 15
    PROVE  /\ HexDigit(n) \in Unreserved
           /\ HexDigit(n) # Percent
           /\ IsHex(HexDigit(n))
           /\ HexValue(HexDigit(n)) = n
  BY DEF HexDigit, Unreserved, Percent, IsHex, HexValue

(* An escaped byte is read back as that byte. *)
LEMMA EscapeIsRead ==
    ASSUME NEW b \in Bytes
    PROVE  \E h, l \in Unreserved \ {Percent} :
              /\ Escaped(b) = <<Percent, h, l>>
              /\ IsHex(h) /\ IsHex(l)
              /\ 16 * HexValue(h) + HexValue(l) = b
  <1>1. b \div 16 \in 0 .. 15 /\ b % 16 \in 0 .. 15 /\ 16 * (b \div 16) + (b % 16) = b
    BY DEF Bytes
  <1>2. PICK hi \in 0 .. 15, lo \in 0 .. 15 : hi = b \div 16 /\ lo = b % 16
    BY <1>1
  <1>3. Escaped(b) = <<Percent, HexDigit(hi), HexDigit(lo)>>
    BY <1>2 DEF Escaped
  <1>4. /\ HexDigit(hi) \in Unreserved \ {Percent} /\ HexDigit(lo) \in Unreserved \ {Percent}
        /\ IsHex(HexDigit(hi)) /\ IsHex(HexDigit(lo))
        /\ HexValue(HexDigit(hi)) = hi /\ HexValue(HexDigit(lo)) = lo
    BY DigitsAreRead
  <1>5. 16 * HexValue(HexDigit(hi)) + HexValue(HexDigit(lo)) = b
    BY <1>1, <1>2, <1>4
  <1> QED BY <1>3, <1>4, <1>5

(* A byte is encoded in one byte or three, all of them plain. *)
LEMMA EncodedIsPlain ==
    ASSUME NEW b \in Bytes
    PROVE  Encoded(b) \in Seq(Plain)
  <1>1. CASE b \in Unreserved
    BY <1>1 DEF Encoded, Plain
  <1>2. CASE b \notin Unreserved
    <2>1. PICK h, l \in Unreserved : Escaped(b) = <<Percent, h, l>>
      BY EscapeIsRead
    <2>2. <<Percent, h, l>> \in Seq(Plain)
      BY <2>1 DEF Plain
    <2> QED BY <1>2, <2>1, <2>2 DEF Encoded
  <1> QED BY <1>1, <1>2

(* What encode_uri_component does with a text that is one byte longer *)
LEMMA EncodingOfAppend ==
    ASSUME NEW t \in Seq(Bytes), NEW b \in Bytes
    PROVE  /\ encode_uri_component(<< >>) = << >>
           /\ encode_uri_component(t) \in Seq(Plain)
           /\ encode_uri_component(Append(t, b)) = encode_uri_component(t) \o Encoded(b)
  <1> DEFINE parts(s) == [i \in DOMAIN s |-> Encoded(s[i])]
  <1>0. ASSUME NEW s PROVE encode_uri_component(s) = FlattenSeq(parts(s))
    BY DEF encode_uri_component, Encoded
  <1>1. parts(t) \in Seq(Seq(Plain))
    <2>1. DOMAIN t = 1 .. Len(t) /\ Len(t) \in Nat /\ \A i \in 1 .. Len(t) : t[i] \in Bytes
      OBVIOUS
    <2>2. \A i \in 1 .. Len(t) : Encoded(t[i]) \in Seq(Plain)
      BY <2>1, EncodedIsPlain
    <2> QED BY <2>1, <2>2
  <1>2. parts(Append(t, b)) = Append(parts(t), Encoded(b))
    <2>1. Append(t, b) \in Seq(Bytes) /\ Len(Append(t, b)) = Len(t) + 1 /\ Len(t) \in Nat
      OBVIOUS
    <2> QED BY <2>1
  <1>3. parts(<< >>) = << >>
    OBVIOUS
  <1>4. /\ FlattenSeq(<< >>) = << >>
        /\ FlattenSeq(parts(t)) \in Seq(Plain)
        /\ FlattenSeq(Append(parts(t), Encoded(b))) = FlattenSeq(parts(t)) \o Encoded(b)
    BY <1>1, EncodedIsPlain, FlattenOfAppend
  <1> HIDE DEF parts
  <1> QED BY <1>0, <1>2, <1>3, <1>4

(* Every % begins an escape. *)
Complete(t) == \A i \in DOMAIN t : t[i] = Percent => EscapeAt(t, i)

(* What Decoded makes of one position *)
ReadAt(t, i) ==
    CASE EscapeAt(t, i) -> <<16 * HexValue(t[i + 1]) + HexValue(t[i + 2])>>
      [] EscapeAt(t, i - 1) \/ EscapeAt(t, i - 2) -> << >>
      [] OTHER -> <<t[i]>>

(* Decoding a complete text behind which another one is put *)
LEMMA DecodingIsLocal ==
    ASSUME NEW t \in Seq(Nat), Complete(t), NEW u \in Seq(Nat), Len(t) <= Len(u),
           \A i \in 1 .. Len(t) : u[i] = t[i]
    PROVE  /\ \A i \in Int : i <= Len(t) => (EscapeAt(u, i) <=> EscapeAt(t, i))
           /\ \A i \in 1 .. Len(t) : ReadAt(u, i) = ReadAt(t, i)
  <1>0. Len(t) \in Nat /\ Len(u) \in Nat /\ DOMAIN t = 1 .. Len(t)
    OBVIOUS
  <1>1. ASSUME NEW i \in Int, i <= Len(t) PROVE EscapeAt(u, i) <=> EscapeAt(t, i)
    <2>1. ASSUME EscapeAt(u, i) PROVE EscapeAt(t, i)
      <3>1. i \in DOMAIN t /\ t[i] = Percent
        BY <1>0, <1>1, <2>1 DEF EscapeAt
      <3> QED BY <3>1 DEF Complete
    <2>2. ASSUME EscapeAt(t, i) PROVE EscapeAt(u, i)
      <3>1. i \in 1 .. Len(u) - 2 /\ i \in 1 .. Len(t) /\ i + 1 \in 1 .. Len(t) /\ i + 2 \in 1 .. Len(t)
        BY <1>0, <2>2 DEF EscapeAt
      <3> QED BY <2>2, <3>1 DEF EscapeAt
    <2> QED BY <2>1, <2>2
  <1>2. ASSUME NEW i \in 1 .. Len(t) PROVE ReadAt(u, i) = ReadAt(t, i)
    <2>1. /\ EscapeAt(u, i) <=> EscapeAt(t, i)
          /\ EscapeAt(u, i - 1) <=> EscapeAt(t, i - 1)
          /\ EscapeAt(u, i - 2) <=> EscapeAt(t, i - 2)
      BY <1>0, <1>1
    <2>2. ASSUME EscapeAt(t, i) PROVE u[i + 1] = t[i + 1] /\ u[i + 2] = t[i + 2]
      <3>1. i + 1 \in 1 .. Len(t) /\ i + 2 \in 1 .. Len(t)
        BY <1>0, <2>2 DEF EscapeAt
      <3> QED BY <3>1
    <2> QED BY <2>1, <2>2 DEF ReadAt
  <1> QED BY <1>1, <1>2

(* The texts Decoded goes through are sequences. *)
LEMMA ReadAtIsText ==
    ASSUME NEW t \in Seq(Nat), NEW i \in 1 .. Len(t)
    PROVE  ReadAt(t, i) \in Seq(Nat)
  <1>1. CASE EscapeAt(t, i)
    <2>1. IsHex(t[i + 1]) /\ IsHex(t[i + 2])
      BY <1>1 DEF EscapeAt
    <2>2. ASSUME NEW d \in Nat, IsHex(d) PROVE HexValue(d) \in Nat
      BY <2>2 DEF IsHex, HexValue
    <2>3. HexValue(t[i + 1]) \in Nat /\ HexValue(t[i + 2]) \in Nat
      <3>1. t[i + 1] \in Nat /\ t[i + 2] \in Nat
        <4>1. i + 1 \in 1 .. Len(t) /\ i + 2 \in 1 .. Len(t)
          BY <1>1 DEF EscapeAt
        <4> QED BY <4>1
      <3> QED BY <2>1, <2>2, <3>1
    <2>4. PICK a \in Nat, b \in Nat : a = HexValue(t[i + 1]) /\ b = HexValue(t[i + 2])
      BY <2>3
    <2>5. 16 * a + b \in Nat
      OBVIOUS
    <2>6. ReadAt(t, i) \in {<<16 * a + b>>, << >>}
      BY <1>1, <2>4 DEF ReadAt
    <2>7. <<16 * a + b>> \in Seq(Nat) /\ << >> \in Seq(Nat)
      BY <2>5
    <2> QED BY <2>6, <2>7
  <1>2. CASE ~EscapeAt(t, i)
    <2>1. t[i] \in Nat
      OBVIOUS
    <2> QED BY <1>2, <2>1 DEF ReadAt
  <1> QED BY <1>1, <1>2

(* One more encoded byte is decoded to that byte. *)
LEMMA DecodingOfEncoded ==
    ASSUME NEW t \in Seq(Plain), Complete(t), NEW b \in Bytes
    PROVE  /\ Complete(t \o Encoded(b))
           /\ Decoded(t) \in Seq(Nat)
           /\ Decoded(t \o Encoded(b)) = Append(Decoded(t), b)
  <1> DEFINE parts(s) == [i \in DOMAIN s |-> ReadAt(s, i)]
             u == t \o Encoded(b)
  <1>0. ASSUME NEW s PROVE Decoded(s) = FlattenSeq(parts(s))
    BY DEF Decoded, ReadAt
  <1>1. t \in Seq(Nat) /\ u \in Seq(Plain) /\ u \in Seq(Nat)
    <2>1. Plain \subseteq Nat
      BY DEF Plain, Unreserved, Percent
    <2>2. u \in Seq(Plain)
      BY EncodedIsPlain
    <2> QED BY <2>1, <2>2, SeqMonotonic
  <1>2. parts(t) \in Seq(Seq(Nat))
    <2>1. \A i \in 1 .. Len(t) : ReadAt(t, i) \in Seq(Nat)
      BY <1>1, ReadAtIsText
    <2>2. DOMAIN t = 1 .. Len(t) /\ Len(t) \in Nat
      OBVIOUS
    <2> QED BY <2>1, <2>2
  <1>3. /\ Len(t) \in Nat /\ Len(t) <= Len(u) /\ DOMAIN u = 1 .. Len(u)
        /\ Len(u) = Len(t) + Len(Encoded(b)) /\ Len(u) \in Nat
        /\ \A i \in 1 .. Len(t) : u[i] = t[i]
        /\ \A i \in 1 .. Len(Encoded(b)) : u[Len(t) + i] = Encoded(b)[i]
    BY EncodedIsPlain, ConcatProperties
  <1>4. /\ \A i \in Int : i <= Len(t) => (EscapeAt(u, i) <=> EscapeAt(t, i))
        /\ \A i \in 1 .. Len(t) : ReadAt(u, i) = ReadAt(t, i)
    BY <1>1, <1>3, DecodingIsLocal
  <1>5. ~EscapeAt(u, Len(t)) /\ ~EscapeAt(u, Len(t) - 1)
    <2>1. ~EscapeAt(t, Len(t)) /\ ~EscapeAt(t, Len(t) - 1)
      BY <1>3 DEF EscapeAt
    <2> QED BY <1>3, <1>4, <2>1
  <1>6. Decoded(t) \in Seq(Nat)
    <2>1. FlattenSeq(parts(t)) \in Seq(Nat)
      <3> HIDE DEF parts
      <3>1. << >> \in Seq(Nat)
        OBVIOUS
      <3> QED BY <1>2, <3>1, FlattenOfAppend
    <2> QED BY <1>0, <2>1
  <1> HIDE DEF u
  <1>7. CASE b \in Unreserved
    <2>1. Len(u) = Len(t) + 1 /\ u[Len(t) + 1] = b /\ b # Percent
      BY <1>3, <1>7 DEF Encoded, Unreserved, Percent
    <2>2. ~EscapeAt(u, Len(t) + 1)
      BY <1>3, <2>1 DEF EscapeAt
    <2>3. ReadAt(u, Len(t) + 1) = <<b>>
      BY <1>3, <1>5, <2>1, <2>2 DEF ReadAt
    <2>4. parts(u) = Append(parts(t), <<b>>)
      BY <1>3, <1>4, <2>1, <2>3
    <2>5. <<b>> \in Seq(Nat)
      BY DEF Bytes
    <2>6. Decoded(u) = Decoded(t) \o <<b>>
      BY <1>0, <1>2, <2>4, <2>5, FlattenOfAppend
    <2>7. Decoded(u) = Append(Decoded(t), b)
      BY <1>6, <2>6 DEF Bytes
    <2>8. Complete(u)
      BY <1>3, <1>4, <2>1 DEF Complete
    <2> QED BY <1>6, <2>7, <2>8 DEF u
  <1>8. CASE b \notin Unreserved
    <2>1. PICK h, l \in Unreserved \ {Percent} :
             /\ Escaped(b) = <<Percent, h, l>>
             /\ IsHex(h) /\ IsHex(l)
             /\ 16 * HexValue(h) + HexValue(l) = b
      BY EscapeIsRead
    <2>2. /\ Len(u) = Len(t) + 3
          /\ u[Len(t) + 1] = Percent /\ u[Len(t) + 2] = h /\ u[Len(t) + 3] = l
      BY <1>3, <1>8, <2>1 DEF Encoded
    <2>3. EscapeAt(u, Len(t) + 1) /\ ~EscapeAt(u, Len(t) + 2) /\ ~EscapeAt(u, Len(t) + 3)
      BY <1>3, <2>1, <2>2 DEF EscapeAt
    <2>4. /\ ReadAt(u, Len(t) + 1) = <<b>>
          /\ ReadAt(u, Len(t) + 2) = << >>
          /\ ReadAt(u, Len(t) + 3) = << >>
      <3>1. /\ (Len(t) + 1) + 1 = Len(t) + 2 /\ (Len(t) + 1) + 2 = Len(t) + 3
            /\ (Len(t) + 2) - 1 = Len(t) + 1 /\ (Len(t) + 3) - 2 = Len(t) + 1
        BY <1>3
      <3>2. ReadAt(u, Len(t) + 1) = <<16 * HexValue(u[(Len(t) + 1) + 1]) + HexValue(u[(Len(t) + 1) + 2])>>
        <4>1. ~EscapeAt(u, (Len(t) + 1) - 1) /\ ~EscapeAt(u, (Len(t) + 1) - 2)
          BY <1>3, <1>5
        <4> QED BY <2>3, <4>1 DEF ReadAt
      <3>3. ReadAt(u, Len(t) + 1) = <<b>>
        BY <2>1, <2>2, <3>1, <3>2
      <3>4. ReadAt(u, Len(t) + 2) = << >>
        BY <2>3, <3>1 DEF ReadAt
      <3>5. ReadAt(u, Len(t) + 3) = << >>
        BY <2>3, <3>1 DEF ReadAt
      <3> QED BY <3>3, <3>4, <3>5
    <2>5. parts(u) = Append(Append(Append(parts(t), <<b>>), << >>), << >>)
      BY <1>3, <1>4, <2>2, <2>4
    <2>6. <<b>> \in Seq(Nat) /\ << >> \in Seq(Nat)
      BY DEF Bytes
    <2>7. Decoded(u) = ((Decoded(t) \o <<b>>) \o << >>) \o << >>
      <3> HIDE DEF parts
      <3>1. /\ Append(parts(t), <<b>>) \in Seq(Seq(Nat))
            /\ Append(Append(parts(t), <<b>>), << >>) \in Seq(Seq(Nat))
        BY <1>2, <2>6
      <3>2. FlattenSeq(Append(parts(t), <<b>>)) = FlattenSeq(parts(t)) \o <<b>>
        BY <1>2, <2>6, FlattenOfAppend
      <3>3. FlattenSeq(Append(Append(parts(t), <<b>>), << >>))
               = FlattenSeq(Append(parts(t), <<b>>)) \o << >>
        BY <2>6, <3>1, FlattenOfAppend
      <3>4. FlattenSeq(Append(Append(Append(parts(t), <<b>>), << >>), << >>))
               = FlattenSeq(Append(Append(parts(t), <<b>>), << >>)) \o << >>
        BY <2>6, <3>1, FlattenOfAppend
      <3> QED BY <1>0, <2>5, <3>2, <3>3, <3>4
    <2>8. Decoded(u) = Append(Decoded(t), b)
      BY <1>6, <2>7 DEF Bytes
    <2>9. Complete(u)
      BY <1>3, <1>4, <2>1, <2>2, <2>3 DEF Complete
    <2> QED BY <1>6, <2>8, <2>9 DEF u
  <1> QED BY <1>7, <1>8

(* Induction over the sequences of T, as over the natural numbers *)
LEMMA SeqInduction ==
    ASSUME NEW T, NEW S, << >> \in S, \A t \in Seq(T), b \in T : t \in S => Append(t, b) \in S
    PROVE  \A t \in Seq(T) : t \in S
  <1> DEFINE N == {n \in Nat : \A t \in Seq(T) : Len(t) = n => t \in S}
  <1>1. 0 \in N
    <2>1. \A t \in Seq(T) : Len(t) = 0 => t = << >>
      OBVIOUS
    <2> QED BY <2>1
  <1>2. ASSUME NEW n \in Nat, n \in N PROVE n + 1 \in N
    <2>1. SUFFICES ASSUME NEW t \in Seq(T), Len(t) = n + 1 PROVE t \in S
      OBVIOUS
    <2>2. PICK s \in Seq(T), b \in T : t = Append(s, b)
      BY <2>1, SequenceEmptyOrAppend, EmptySeq
    <2>3. Len(s) = n
      BY <2>1, <2>2
    <2> QED BY <1>2, <2>2, <2>3
  <1> HIDE DEF N
  <1>3. \A n \in Nat : n \in N
    BY <1>1, <1>2, Induction
  <1>4. ASSUME NEW t \in Seq(T) PROVE t \in S
    <2>1. Len(t) \in N
      BY <1>3
    <2> QED BY <2>1 DEF N
  <1> QED BY <1>4

(* What was encoded is decoded to what it was, whatever bytes it has. *)
LEMMA EncodingIsUndone ==
    ASSUME NEW src \in Seq(Bytes)
    PROVE  Decoded(encode_uri_component(src)) = src
  <1> DEFINE S == {t \in Seq(Bytes) : /\ Complete(encode_uri_component(t))
                                      /\ Decoded(encode_uri_component(t)) = t}
  <1>1. << >> \in S
    <2>1. encode_uri_component(<< >>) = << >>
      <3>1. << >> \in Seq(Bytes) /\ 0 \in Bytes
        BY DEF Bytes
      <3> QED BY <3>1, EncodingOfAppend
    <2>2. Decoded(<< >>) = << >>
      BY DEF Decoded, FlattenSeq
    <2>3. Complete(<< >>)
      BY DEF Complete
    <2> QED BY <2>1, <2>2, <2>3
  <1>2. ASSUME NEW t \in Seq(Bytes), NEW b \in Bytes, t \in S PROVE Append(t, b) \in S
    <2>1. /\ encode_uri_component(t) \in Seq(Plain)
          /\ encode_uri_component(Append(t, b)) = encode_uri_component(t) \o Encoded(b)
      BY EncodingOfAppend
    <2>2. Complete(encode_uri_component(t)) /\ Decoded(encode_uri_component(t)) = t
      BY <1>2
    <2>3. /\ Complete(encode_uri_component(Append(t, b)))
          /\ Decoded(encode_uri_component(Append(t, b))) = Append(t, b)
      BY <2>1, <2>2, DecodingOfEncoded
    <2> QED BY <2>3
  <1> HIDE DEF S
  <1>3. src \in S
    BY <1>1, <1>2, SeqInduction
  <1> QED BY <1>3 DEF S

(* A text of unreserved bytes is encoded as itself. *)
LEMMA UnreservedIsVerbatim ==
    ASSUME NEW src \in Seq(Unreserved)
    PROVE  encode_uri_component(src) = src
  <1> DEFINE S == {t \in Seq(Unreserved) : encode_uri_component(t) = t}
  <1>0. Unreserved \subseteq Bytes
    BY DEF Unreserved, Bytes
  <1>1. << >> \in S
    <2>1. << >> \in Seq(Bytes) /\ 0 \in Bytes
      BY DEF Bytes
    <2>2. encode_uri_component(<< >>) = << >>
      BY <2>1, EncodingOfAppend
    <2> QED BY <2>2
  <1>2. ASSUME NEW t \in Seq(Unreserved), NEW b \in Unreserved, t \in S PROVE Append(t, b) \in S
    <2>1. t \in Seq(Bytes) /\ b \in Bytes
      BY <1>0, SeqMonotonic
    <2>2. encode_uri_component(Append(t, b)) = t \o Encoded(b)
      BY <1>2, <2>1, EncodingOfAppend
    <2>3. Encoded(b) = <<b>>
      BY DEF Encoded
    <2> QED BY <2>2, <2>3
  <1> HIDE DEF S
  <1>3. src \in S
    BY <1>1, <1>2, SeqInduction
  <1> QED BY <1>3 DEF S

-----------------------------------------------------------------------------
(* f goes through the n elements of S, upwards. *)
Enumerates(f, n, S) ==
    /\ n \in Nat
    /\ f \in [1 .. n -> S]
    /\ \A i, k \in 1 .. n : i < k => f[i] < f[k]
    /\ \A s \in S : \E i \in 1 .. n : f[i] = s

(* A set that is enumerated has as many elements as that. *)
LEMMA EnumerationCounts ==
    ASSUME NEW S \in SUBSET Nat, NEW n, NEW f, Enumerates(f, n, S)
    PROVE  IsFiniteSet(S) /\ Cardinality(S) = n
  <1> USE DEF Enumerates
  <1>1. \A i, k \in 1 .. n : f[i] = f[k] => i = k
    <2> SUFFICES ASSUME NEW i \in 1 .. n, NEW k \in 1 .. n, f[i] = f[k], i # k PROVE FALSE
      OBVIOUS
    <2>1. i < k \/ k < i
      OBVIOUS
    <2>2. f[i] \in Nat /\ f[k] \in Nat
      OBVIOUS
    <2> QED BY <2>1, <2>2
  <1>2. f \in Bijection(1 .. n, S)
    BY <1>1, Zenon DEF Bijection, Injection, Surjection, IsInjective
  <1>3. IsFiniteSet(1 .. n) /\ Cardinality(1 .. n) = n
    BY FS_Interval
  <1> QED BY <1>2, <1>3, FS_Bijection DEF ExistsBijection

(* Ascending is the one enumeration there is. *)
LEMMA AscendingIsTheEnumeration ==
    ASSUME NEW S \in SUBSET Nat, NEW n, NEW f, Enumerates(f, n, S)
    PROVE  Ascending(S) = f
  <1> DEFINE Below(i) == {k \in S : k < i}
  <1>1. Cardinality(S) = n /\ n \in Nat /\ f \in [1 .. n -> S]
    BY EnumerationCounts DEF Enumerates
  <1>2. ASSUME NEW j \in 1 .. n PROVE Cardinality(Below(f[j])) = j - 1
    <2> DEFINE g == [i \in 1 .. j - 1 |-> f[i]]
    <2>1. \A i \in 1 .. j - 1 : i \in 1 .. n /\ f[i] \in Below(f[j]) /\ g[i] = f[i]
      BY <1>1 DEF Enumerates
    <2>2. \A s \in Below(f[j]) : \E i \in 1 .. j - 1 : g[i] = s
      <3> SUFFICES ASSUME NEW s \in S, s < f[j] PROVE \E i \in 1 .. j - 1 : g[i] = s
        OBVIOUS
      <3>1. PICK i \in 1 .. n : f[i] = s
        BY DEF Enumerates
      <3>2. f[i] \in Nat /\ f[j] \in Nat
        BY <1>1
      <3>3. ~(j < i) /\ i # j
        BY <3>1, <3>2 DEF Enumerates
      <3> QED BY <1>1, <2>1, <3>1, <3>3
    <2>3. Enumerates(g, j - 1, Below(f[j]))
      <3>1. j - 1 \in Nat
        OBVIOUS
      <3>2. g \in [1 .. j - 1 -> Below(f[j])]
        BY <2>1
      <3>3. \A i, k \in 1 .. j - 1 : i < k => g[i] < g[k]
        BY <2>1 DEF Enumerates
      <3> HIDE DEF g, Below
      <3> QED BY <2>2, <3>1, <3>2, <3>3 DEF Enumerates
    <2>4. Below(f[j]) \in SUBSET Nat
      OBVIOUS
    <2> QED BY <2>3, <2>4, EnumerationCounts
  <1>3. ASSUME NEW j \in 1 .. n
        PROVE  (CHOOSE i \in S : Cardinality(Below(i)) = j - 1) = f[j]
    <2>1. f[j] \in S /\ Cardinality(Below(f[j])) = j - 1
      BY <1>1, <1>2
    <2>2. ASSUME NEW s \in S, Cardinality(Below(s)) = j - 1 PROVE s = f[j]
      <3>1. PICK i \in 1 .. n : f[i] = s
        BY DEF Enumerates
      <3>2. i - 1 = j - 1
        BY <1>2, <2>2, <3>1
      <3> QED BY <3>1, <3>2
    <2> HIDE DEF Below
    <2> QED BY <2>1, <2>2
  <1>4. Ascending(S) = [j \in 1 .. n |-> f[j]]
    BY <1>1, <1>3 DEF Ascending
  <1> QED BY <1>1, <1>4

(* Positions up to a length can be enumerated. *)
LEMMA EnumerationExists ==
    ASSUME NEW S, NEW m \in Nat, S \subseteq 1 .. m
    PROVE  \E f, n : Enumerates(f, n, S)
  <1> DEFINE P(k) == \E f, n : Enumerates(f, n, S \cap (1 .. k))
             N == {k \in Nat : P(k)}
  <1>1. 0 \in N
    <2>1. S \cap (1 .. 0) = {}
      OBVIOUS
    <2>2. Enumerates(<< >>, 0, {})
      BY DEF Enumerates
    <2> QED BY <2>1, <2>2
  <1>2. ASSUME NEW k \in Nat, k \in N PROVE k + 1 \in N
    <2>1. PICK f, n : Enumerates(f, n, S \cap (1 .. k))
      BY <1>2
    <2>2. CASE k + 1 \in S
      <3>1. PICK g : g = [i \in 1 .. n + 1 |-> IF i = n + 1 THEN k + 1 ELSE f[i]]
        OBVIOUS
      <3>2. /\ n \in Nat /\ g[n + 1] = k + 1
            /\ \A i \in 1 .. n : g[i] = f[i] /\ f[i] \in S /\ f[i] \in 1 .. k
        BY <2>1, <3>1 DEF Enumerates
      <3>3. g \in [1 .. n + 1 -> S \cap (1 .. k + 1)]
        BY <2>2, <3>1, <3>2
      <3>4. ASSUME NEW i \in 1 .. n + 1, NEW j \in 1 .. n + 1, i < j PROVE g[i] < g[j]
        <4>1. i \in 1 .. n /\ g[i] = f[i] /\ f[i] \in 1 .. k
          BY <3>2, <3>4
        <4>2. CASE j = n + 1
          BY <3>2, <4>1, <4>2
        <4>3. CASE j # n + 1
          <5>1. j \in 1 .. n /\ g[j] = f[j]
            BY <3>2, <4>3
          <5> QED BY <2>1, <3>4, <4>1, <5>1 DEF Enumerates
        <4> QED BY <4>2, <4>3
      <3>5. ASSUME NEW s \in S \cap (1 .. k + 1) PROVE \E i \in 1 .. n + 1 : g[i] = s
        <4>1. CASE s = k + 1
          BY <3>2, <4>1
        <4>2. CASE s # k + 1
          <5>1. PICK i \in 1 .. n : f[i] = s
            BY <2>1, <4>2 DEF Enumerates
          <5> QED BY <3>2, <5>1
        <4> QED BY <4>1, <4>2
      <3>6. Enumerates(g, n + 1, S \cap (1 .. k + 1))
        BY <3>2, <3>3, <3>4, <3>5 DEF Enumerates
      <3> QED BY <3>6
    <2>3. CASE k + 1 \notin S
      <3>1. S \cap (1 .. k + 1) = S \cap (1 .. k)
        BY <2>3
      <3> QED BY <2>1, <3>1
    <2> QED BY <2>2, <2>3
  <1> HIDE DEF N, P
  <1>3. \A k \in Nat : k \in N
    BY <1>1, <1>2, Induction
  <1>4. P(m)
    BY <1>3 DEF N
  <1>5. S \cap (1 .. m) = S
    OBVIOUS
  <1> QED BY <1>4, <1>5 DEF P

(* Ascending goes through any set of positions. *)
LEMMA AscendingEnumerates ==
    ASSUME NEW S, NEW m \in Nat, S \subseteq 1 .. m
    PROVE  Enumerates(Ascending(S), Cardinality(S), S)
  <1>1. PICK f, n : Enumerates(f, n, S)
    BY EnumerationExists
  <1>2. S \in SUBSET Nat
    OBVIOUS
  <1> QED BY <1>1, <1>2, EnumerationCounts, AscendingIsTheEnumeration

(* A position behind all others comes last. *)
LEMMA AscendingOfNext ==
    ASSUME NEW S, NEW m \in Nat, S \subseteq 1 .. m, NEW p \in Nat, m < p
    PROVE  /\ Ascending(S) \in Seq(S)
           /\ Ascending(S \cup {p}) = Append(Ascending(S), p)
  <1>1. PICK f, n : Enumerates(f, n, S) /\ Ascending(S) = f
    BY AscendingEnumerates
  <1>2. n \in Nat /\ f \in [1 .. n -> S] /\ f \in Seq(S) /\ Len(f) = n
    BY <1>1 DEF Enumerates
  <1>3. PICK g : g = Append(f, p)
    OBVIOUS
  <1>4. /\ g \in [1 .. n + 1 -> S \cup {p}] /\ g[n + 1] = p
        /\ \A i \in 1 .. n : g[i] = f[i] /\ f[i] \in 1 .. m
    <2>1. f \in Seq(S \cup {p}) /\ p \in S \cup {p}
      BY <1>2
    <2>2. /\ g \in Seq(S \cup {p}) /\ Len(g) = n + 1 /\ g[n + 1] = p
          /\ \A i \in 1 .. n : g[i] = f[i]
      BY <1>2, <1>3, <2>1, AppendProperties
    <2>3. \A i \in 1 .. n : f[i] \in 1 .. m
      BY <1>2
    <2> QED BY <2>2, <2>3
  <1>5. ASSUME NEW i \in 1 .. n + 1, NEW j \in 1 .. n + 1, i < j PROVE g[i] < g[j]
    <2>1. i \in 1 .. n /\ (j \in 1 .. n \/ j = n + 1)
      BY <1>2, <1>5
    <2>2. CASE j \in 1 .. n
      BY <1>1, <1>4, <1>5, <2>1, <2>2 DEF Enumerates
    <2>3. CASE j = n + 1
      BY <1>4, <2>1, <2>3
    <2> QED BY <2>1, <2>2, <2>3
  <1>6. ASSUME NEW s \in S \cup {p} PROVE \E i \in 1 .. n + 1 : g[i] = s
    <2>1. CASE s = p
      BY <1>2, <1>4, <2>1
    <2>2. CASE s # p
      <3>1. PICK i \in 1 .. n : f[i] = s
        BY <1>1, <2>2 DEF Enumerates
      <3> QED BY <1>2, <1>4, <3>1
    <2> QED BY <2>1, <2>2
  <1>7. Enumerates(g, n + 1, S \cup {p})
    BY <1>2, <1>4, <1>5, <1>6 DEF Enumerates
  <1>8. S \cup {p} \in SUBSET Nat
    OBVIOUS
  <1>9. Ascending(S \cup {p}) = g
    BY <1>7, <1>8, AscendingIsTheEnumeration
  <1> QED BY <1>1, <1>2, <1>3, <1>9

-----------------------------------------------------------------------------
(* Where the pieces of a query begin *)
Starts(q) == {i \in DOMAIN q : (i = 1 \/ q[i - 1] = Ampersand) /\ q[i] # Ampersand}

PieceAt(q, i) == SubSeq(q, i, Find(q, Ampersand, i) - 1)

(* A query one may put another piece behind *)
Closed(q) == q \in Seq(Bytes) /\ (q # << >> => q[Len(q)] # Ampersand)

(* What stands between two & or at an end of the query *)
IsPiece(p) == p \in Seq(Bytes \ {Ampersand}) /\ p # << >>

(* Find is a position of the byte, the first one, or one past the end. *)
LEMMA FindFinds ==
    ASSUME NEW T, NEW t \in Seq(T), NEW byte, NEW i \in Nat \ {0}, i <= Len(t) + 1,
           NEW at, at = Find(t, byte, i)
    PROVE  /\ at \in i .. Len(t) + 1
           /\ \A k \in i .. at - 1 : t[k] # byte
           /\ at <= Len(t) => t[at] = byte
  <1> DEFINE found == {k \in i .. Len(t) : t[k] = byte}
  <1>0. Len(t) \in Nat
    OBVIOUS
  <1>1. CASE found = {}
    BY <1>0, <1>1 DEF Find
  <1>2. CASE found # {}
    <2>1. found \in SUBSET Nat
      OBVIOUS
    <2>2. at = Min(found)
      BY <1>2 DEF Find
    <2>3. Min(found) \in found /\ \A y \in found : Min(found) <= y
      BY <1>2, <2>1, MinIsFirst
    <2>4. at \in i .. Len(t) /\ t[at] = byte /\ \A k \in i .. Len(t) : t[k] = byte => at <= k
      BY <2>2, <2>3
    <2> QED BY <1>0, <2>4
  <1> QED BY <1>1, <1>2

(* Nothing else is found. *)
LEMMA FoundIsUnique ==
    ASSUME NEW T, NEW t \in Seq(T), NEW byte, NEW i \in Nat \ {0}, NEW at \in i .. Len(t) + 1,
           \A k \in i .. at - 1 : t[k] # byte, at <= Len(t) => t[at] = byte
    PROVE  Find(t, byte, i) = at
  <1>1. PICK a : a = Find(t, byte, i)
    OBVIOUS
  <1>2. /\ a \in i .. Len(t) + 1
        /\ \A k \in i .. a - 1 : t[k] # byte
        /\ a <= Len(t) => t[a] = byte
    BY <1>1, FindFinds
  <1>3. ~(a < at) /\ ~(at < a)
    BY <1>2
  <1> QED BY <1>1, <1>2, <1>3

(* One more piece, and those before it are as they were. *)
LEMMA PiecesOfAppended ==
    ASSUME NEW q, Closed(q), NEW p, IsPiece(p)
    PROVE  /\ Closed(Separated(q) \o p)
           /\ Pieces(q) \in Seq(Seq(Bytes))
           /\ Pieces(Separated(q) \o p) = Append(Pieces(q), p)
  <1> DEFINE z == Len(Separated(q))
             r == Separated(q) \o p
  <1>1. /\ q \in Seq(Bytes) /\ p \in Seq(Bytes) /\ Ampersand \in Bytes
        /\ Len(q) \in Nat /\ Len(p) \in Nat \ {0}
        /\ \A i \in 1 .. Len(p) : p[i] # Ampersand
    BY EmptySeq, SeqMonotonic DEF Closed, IsPiece, Bytes, Ampersand
  <1>2. /\ Separated(q) \in Seq(Bytes)
        /\ z = IF q = << >> THEN 0 ELSE Len(q) + 1
        /\ \A i \in 1 .. Len(q) : Separated(q)[i] = q[i]
        /\ q # << >> => Separated(q)[z] = Ampersand
    BY <1>1 DEF Separated
  <1>3. /\ r \in Seq(Bytes) /\ Len(r) = z + Len(p) /\ z \in Nat /\ Len(q) <= z
        /\ \A i \in 1 .. Len(q) : r[i] = q[i]
        /\ q # << >> => r[z] = Ampersand
        /\ \A i \in 1 .. Len(p) : r[z + i] = p[i]
    <2>1. PICK s : s = Separated(q)
      OBVIOUS
    <2>2. PICK a \in Nat, b \in Nat, c \in Nat : a = Len(s) /\ b = Len(p) /\ c = Len(q)
      BY <1>1, <1>2, <2>1
    <2>3. z = a /\ s \in Seq(Bytes) /\ ((a = 0 /\ c = 0) \/ a = c + 1)
      BY <1>1, <1>2, <2>1, <2>2
    <2>4. /\ r \in Seq(Bytes) /\ Len(r) = a + b
          /\ \A i \in 1 .. a + b : r[i] = IF i <= a THEN s[i] ELSE p[i - a]
      BY <1>1, <2>1, <2>2, <2>3, ConcatProperties
    <2>5. /\ c <= a /\ (\A i \in 1 .. c : i \in 1 .. a + b /\ i <= a)
          /\ \A i \in 1 .. b : a + i \in 1 .. a + b /\ ~(a + i <= a) /\ (a + i) - a = i
          /\ c # 0 => a \in 1 .. a + b /\ a <= a
      BY <2>3
    <2>6. q # << >> => c # 0
      BY <1>1, <2>2, EmptySeq
    <2>7. \A i \in 1 .. c : r[i] = q[i]
      BY <1>2, <2>1, <2>2, <2>4, <2>5
    <2>8. q # << >> => r[a] = Ampersand
      BY <1>2, <2>1, <2>3, <2>4, <2>5, <2>6
    <2>9. \A i \in 1 .. b : r[a + i] = p[i]
      BY <2>4, <2>5
    <2> QED BY <2>2, <2>3, <2>4, <2>5, <2>7, <2>8, <2>9
  <1>4. q = << >> => Len(q) = 0
    OBVIOUS
  <1> HIDE DEF z, r
  <1>5. Starts(r) = Starts(q) \cup {z + 1}
    <2>0. DOMAIN q = 1 .. Len(q) /\ DOMAIN r = 1 .. Len(r)
      BY <1>1, <1>3
    <2>1. z + 1 \in Starts(r)
      <3>0. 1 \in 1 .. Len(p)
        BY <1>1
      <3>1. z + 1 \in DOMAIN r /\ r[z + 1] # Ampersand /\ (z + 1) - 1 = z
        BY <1>1, <1>3, <2>0, <3>0
      <3>2. z + 1 = 1 \/ r[z] = Ampersand
        BY <1>2, <1>3
      <3> QED BY <3>1, <3>2 DEF Starts
    <2>2. ASSUME NEW i \in 1 .. Len(q) PROVE i \in Starts(r) <=> i \in Starts(q)
      <3>1. i \in DOMAIN q /\ i \in DOMAIN r /\ r[i] = q[i]
        BY <1>1, <1>3, <2>0
      <3>2. i # 1 => r[i - 1] = q[i - 1]
        <4>1. i # 1 => i - 1 \in 1 .. Len(q)
          BY <1>1
        <4> QED BY <1>3, <4>1
      <3> QED BY <3>1, <3>2 DEF Starts
    <2>3. ASSUME NEW i \in DOMAIN r, i \notin 1 .. Len(q), i # z + 1 PROVE i \notin Starts(r)
      <3>1. CASE i = z
        <4>1. q # << >>
          BY <1>2, <2>0, <2>3, <3>1
        <4> QED BY <1>3, <3>1, <4>1 DEF Starts
      <3>2. CASE i # z
        <4>0. z = Len(q) \/ z = Len(q) + 1
          BY <1>2, <1>4
        <4>1. i \in 1 .. Len(r)
          BY <2>0
        <4>2. i \in Nat /\ i > z + 1 /\ i <= z + Len(p)
          <5>1. PICK a \in Nat, b \in Nat, c \in Nat : a = Len(q) /\ b = Len(p) /\ c = Len(r)
            BY <1>1, <1>3
          <5>2. z \in Nat /\ c = z + b
            BY <1>3, <5>1
          <5>3. /\ i \in 1 .. c /\ i \notin 1 .. a /\ i # z + 1 /\ i # z
                /\ (z = a \/ z = a + 1)
            BY <2>3, <3>2, <4>0, <4>1, <5>1
          <5>4. i \in Nat /\ i > z + 1 /\ i <= z + b
            BY <5>2, <5>3
          <5> QED BY <5>1, <5>4
        <4>3. PICK j \in Int : j = i - 1 - z
          BY <1>3, <4>2
        <4>4. j \in 1 .. Len(p) /\ z + j = i - 1
          <5>1. z \in Nat /\ Len(p) \in Nat
            BY <1>1, <1>3
          <5> QED BY <4>2, <4>3, <5>1
        <4>5. r[i - 1] # Ampersand
          BY <1>1, <1>3, <4>4
        <4>6. i # 1
          BY <1>3, <4>2
        <4> QED BY <4>5, <4>6 DEF Starts
      <3> QED BY <3>1, <3>2
    <2>4. Starts(r) \subseteq DOMAIN r /\ Starts(q) \subseteq 1 .. Len(q)
      BY <2>0 DEF Starts
    <2> QED BY <2>1, <2>2, <2>3, <2>4
  <1>6. ASSUME NEW i \in 1 .. Len(q)
        PROVE  PieceAt(r, i) = PieceAt(q, i) /\ PieceAt(q, i) \in Seq(Bytes)
    <2>1. PICK at : at = Find(q, Ampersand, i)
      OBVIOUS
    <2>2. /\ at \in i .. Len(q) + 1
          /\ \A k \in i .. at - 1 : q[k] # Ampersand
          /\ at <= Len(q) => q[at] = Ampersand
      BY <1>1, <2>1, FindFinds
    <2>3. at \in i .. Len(r) + 1 /\ \A k \in i .. at - 1 : r[k] # Ampersand
      <3>1. \A k \in i .. at - 1 : k \in 1 .. Len(q)
        BY <1>1, <2>2
      <3> QED BY <1>1, <1>3, <2>2, <3>1
    <2>4. at <= Len(r) => r[at] = Ampersand
      <3>1. CASE at <= Len(q)
        BY <1>1, <1>3, <2>2, <3>1
      <3>2. CASE at = Len(q) + 1
        BY <1>1, <1>2, <1>3, <1>4, <3>2
      <3> QED BY <1>1, <2>2, <3>1, <3>2
    <2>5. Find(r, Ampersand, i) = at
      BY <1>3, <2>3, <2>4, FoundIsUnique
    <2>6. \A k \in i .. at - 1 : q[k] = r[k] /\ q[k] \in Bytes
      <3>1. \A k \in i .. at - 1 : k \in 1 .. Len(q)
        BY <1>1, <2>2
      <3> QED BY <1>1, <1>3, <3>1
    <2>7. SubSeq(q, i, at - 1) = SubSeq(r, i, at - 1) /\ SubSeq(q, i, at - 1) \in Seq(Bytes)
      BY <1>1, <2>2, <2>6
    <2> QED BY <2>1, <2>5, <2>7 DEF PieceAt
  <1>7. PieceAt(r, z + 1) = p
    <2>1. Find(r, Ampersand, z + 1) = Len(r) + 1
      <3>1. ASSUME NEW k \in z + 1 .. Len(r) PROVE r[k] # Ampersand
        <4>1. k - z \in 1 .. Len(p) /\ z + (k - z) = k
          BY <1>1, <1>3
        <4> QED BY <1>1, <1>3, <4>1
      <3>2. /\ Len(r) + 1 \in z + 1 .. Len(r) + 1 /\ z + 1 \in Nat \ {0}
            /\ (Len(r) + 1) - 1 = Len(r) /\ ~(Len(r) + 1 <= Len(r))
        BY <1>1, <1>3
      <3>3. PICK at, i : at = Len(r) + 1 /\ i = z + 1
        OBVIOUS
      <3>4. /\ i \in Nat \ {0} /\ at \in i .. Len(r) + 1 /\ at - 1 = Len(r)
            /\ \A k \in i .. at - 1 : r[k] # Ampersand
            /\ at <= Len(r) => r[at] = Ampersand
        BY <3>1, <3>2, <3>3
      <3>5. Find(r, Ampersand, i) = at
        BY <1>3, <3>4, FoundIsUnique
      <3> QED BY <3>3, <3>5
    <2>2. SubSeq(r, z + 1, Len(r)) = p
      BY <1>1, <1>3
    <2>3. (Len(r) + 1) - 1 = Len(r)
      BY <1>1, <1>3
    <2> QED BY <2>1, <2>2, <2>3 DEF PieceAt
  <1>8. Closed(r)
    <2>1. r[z + Len(p)] = p[Len(p)]
      BY <1>1, <1>3
    <2> QED BY <1>1, <1>3, <2>1 DEF Closed
  <1>9. Starts(q) \subseteq 1 .. Len(q)
    BY <1>1 DEF Starts
  <1>10. PICK f : f = Ascending(Starts(q))
    OBVIOUS
  <1>11. f \in Seq(Starts(q)) /\ Ascending(Starts(r)) = Append(f, z + 1)
    <2>1. Len(q) < z + 1 /\ z + 1 \in Nat
      BY <1>1, <1>3
    <2> QED BY <1>1, <1>5, <1>9, <1>10, <2>1, AscendingOfNext
  <1>12. /\ Pieces(q) = [n \in DOMAIN f |-> PieceAt(q, f[n])]
         /\ Pieces(r) = [n \in DOMAIN Append(f, z + 1) |-> PieceAt(r, Append(f, z + 1)[n])]
    BY <1>10, <1>11 DEF Pieces, Starts, PieceAt
  <1>13. DOMAIN f = 1 .. Len(f) /\ Len(f) \in Nat /\ \A n \in 1 .. Len(f) : f[n] \in 1 .. Len(q)
    BY <1>9, <1>11
  <1>14. Pieces(q) \in Seq(Seq(Bytes)) /\ Len(Pieces(q)) = Len(f)
    BY <1>6, <1>12, <1>13
  <1>15. Pieces(r) = Append(Pieces(q), p)
    <2>1. f \in Seq(Nat) /\ z + 1 \in Nat
      <3>1. Starts(q) \subseteq Nat
        BY <1>9
      <3> QED BY <1>3, <1>11, <3>1, SeqMonotonic
    <2>2. /\ DOMAIN Append(f, z + 1) = 1 .. Len(f) + 1
          /\ \A n \in 1 .. Len(f) : Append(f, z + 1)[n] = f[n]
          /\ Append(f, z + 1)[Len(f) + 1] = z + 1
      BY <2>1
    <2>3. PICK g : g = Append(f, z + 1)
      OBVIOUS
    <2>4. /\ Pieces(r) = [n \in 1 .. Len(f) + 1 |-> PieceAt(r, g[n])]
          /\ \A n \in 1 .. Len(f) : PieceAt(r, g[n]) = PieceAt(q, f[n])
          /\ PieceAt(r, g[Len(f) + 1]) = p
      BY <1>6, <1>7, <1>12, <1>13, <2>2, <2>3
    <2>5. Append(Pieces(q), p) \in Seq(Seq(Bytes))
      BY <1>1, <1>14
    <2>6. Len(Append(Pieces(q), p)) = Len(f) + 1 /\ Append(Pieces(q), p)[Len(f) + 1] = p
      BY <1>1, <1>14
    <2>7. \A n \in 1 .. Len(f) : Append(Pieces(q), p)[n] = PieceAt(q, f[n])
      BY <1>1, <1>12, <1>13, <1>14
    <2>8. PICK a : a = Append(Pieces(q), p)
      OBVIOUS
    <2>9. a = [n \in 1 .. Len(f) + 1 |-> a[n]]
      <3>1. a \in Seq(Seq(Bytes)) /\ Len(a) = Len(f) + 1
        BY <2>5, <2>6, <2>8
      <3>2. a \in [1 .. Len(f) + 1 -> Seq(Bytes)]
        BY <3>1, LenProperties
      <3> QED BY <3>2
    <2>10. \A n \in 1 .. Len(f) + 1 : a[n] = PieceAt(r, g[n])
      BY <1>13, <2>4, <2>6, <2>7, <2>8
    <2> QED BY <2>4, <2>8, <2>9, <2>10
  <1> QED BY <1>8, <1>14, <1>15 DEF r

(* The names and the values that are encoded, as pairs of the query *)
PlainPairs == [name : Seq(Plain) \ {<< >>}, value : Seq(Plain)]

(* A name without = and a value, joined, are a piece and come apart again. *)
LEMMA JoinedIsRead ==
    ASSUME NEW r \in PlainPairs
    PROVE  IsPiece(Joined(r)) /\ Pair(Joined(r)) = r
  <1>1. PICK n, v : n = r.name /\ v = r.value
    OBVIOUS
  <1>2. /\ n \in Seq(Plain) /\ n # << >> /\ v \in Seq(Plain)
        /\ r = [name |-> n, value |-> v]
    BY <1>1 DEF PlainPairs
  <1>3. Plain \subseteq Bytes \ {Ampersand} /\ Equals \in Bytes \ {Ampersand} /\ Equals \notin Plain
    BY DEF Plain, Unreserved, Percent, Bytes, Ampersand, Equals
  <1>4. PICK m \in Nat \ {0}, w \in Nat : m = Len(n) /\ w = Len(v)
    BY <1>2, EmptySeq
  <1>5. PICK j : j = Joined(r)
    OBVIOUS
  <1>6. n \in Seq(Bytes \ {Ampersand}) /\ v \in Seq(Bytes \ {Ampersand})
    BY <1>2, <1>3, SeqMonotonic
  <1>7. /\ j \in Seq(Bytes \ {Ampersand}) /\ Len(j) = m + 1 + w
        /\ \A i \in 1 .. m : j[i] = n[i]
        /\ j[m + 1] = Equals
        /\ \A i \in 1 .. w : j[m + 1 + i] = v[i]
    <2>1. PICK a : a = n \o <<Equals>>
      OBVIOUS
    <2>2. /\ a \in Seq(Bytes \ {Ampersand}) /\ Len(a) = m + 1
          /\ (\A i \in 1 .. m : a[i] = n[i]) /\ a[m + 1] = Equals
      BY <1>3, <1>4, <1>6, <2>1
    <2>3. j = a \o v
      BY <1>1, <1>5, <2>1 DEF Joined
    <2>4. /\ j \in Seq(Bytes \ {Ampersand}) /\ Len(j) = Len(a) + Len(v)
          /\ \A i \in 1 .. Len(a) + Len(v) : j[i] = IF i <= Len(a) THEN a[i] ELSE v[i - Len(a)]
      BY <1>6, <2>2, <2>3, ConcatProperties
    <2>5. \A i \in 1 .. m : i \in 1 .. (m + 1) + w /\ i <= m + 1
      OBVIOUS
    <2>6. \A i \in 1 .. w : /\ m + 1 + i \in 1 .. (m + 1) + w /\ ~(m + 1 + i <= m + 1)
                            /\ (m + 1 + i) - (m + 1) = i
      OBVIOUS
    <2>7. m + 1 \in 1 .. (m + 1) + w
      OBVIOUS
    <2>8. /\ Len(j) = (m + 1) + w
          /\ \A i \in 1 .. (m + 1) + w : j[i] = IF i <= m + 1 THEN a[i] ELSE v[i - (m + 1)]
      BY <1>4, <2>2, <2>4
    <2>9. \A i \in 1 .. m : j[i] = n[i]
      BY <2>2, <2>5, <2>8
    <2>10. \A i \in 1 .. w : j[m + 1 + i] = v[i]
      BY <2>6, <2>8
    <2>11. j[m + 1] = Equals
      BY <2>2, <2>7, <2>8
    <2> QED BY <2>4, <2>8, <2>9, <2>10, <2>11
  <1>8. IsPiece(j)
    <2>1. j # << >>
      BY <1>4, <1>7
    <2> QED BY <1>7, <2>1 DEF IsPiece
  <1>9. Find(j, Equals, 1) = m + 1
    <2>1. \A k \in 1 .. (m + 1) - 1 : j[k] # Equals
      <3>1. \A k \in 1 .. m : n[k] \in Plain
        BY <1>2, <1>4
      <3> QED BY <1>3, <1>7, <3>1
    <2>2. m + 1 \in 1 .. Len(j) + 1 /\ 1 \in Nat \ {0}
      BY <1>7
    <2> QED BY <1>7, <2>1, <2>2, FoundIsUnique
  <1>10. Pair(j) = [name |-> SubSeq(j, 1, m), value |-> SubSeq(j, m + 2, Len(j))]
    <2>1. (m + 1) - 1 = m /\ (m + 1) + 1 = m + 2
      OBVIOUS
    <2> QED BY <1>9, <2>1 DEF Pair
  <1>11. SubSeq(j, 1, m) = n
    BY <1>2, <1>4, <1>7
  <1>12. SubSeq(j, m + 2, Len(j)) = v
    <2>1. PICK c : c = SubSeq(j, m + 2, Len(j))
      OBVIOUS
    <2>2. PICK x \in Int, y \in Int : x = m + 2 /\ y = Len(j)
      BY <1>7
    <2>3. /\ y - x + 1 = w /\ (x <= y \/ w = 0)
          /\ \A i \in x .. y : i \in 1 .. Len(j)
          /\ \A i \in 1 .. w : i \in 1 .. y - x + 1 /\ x + i - 1 = m + 1 + i
      BY <1>7, <2>2
    <2>4. /\ c \in Seq(Bytes \ {Ampersand}) /\ Len(c) = w
          /\ \A i \in 1 .. w : c[i] = j[x + i - 1]
      <3>1. ASSUME NEW i \in x .. y PROVE j[i] \in Bytes \ {Ampersand}
        <4>1. i \in 1 .. Len(j) /\ j \in Seq(Bytes \ {Ampersand})
          BY <1>7, <2>3
        <4> QED BY <4>1, ElementOfSeq
      <3>2. /\ c \in Seq(Bytes \ {Ampersand}) /\ Len(c) = IF x <= y THEN y - x + 1 ELSE 0
            /\ \A i \in 1 .. y - x + 1 : c[i] = j[x + i - 1]
        BY <2>1, <2>2, <3>1, SubSeqProperties
      <3> QED BY <2>3, <3>2
    <2>5. \A i \in 1 .. Len(c) : c[i] = v[i]
      BY <1>7, <2>3, <2>4
    <2>6. c = v
      BY <1>4, <1>6, <2>4, <2>5, SeqEqual
    <2> QED BY <2>1, <2>6
  <1> QED BY <1>2, <1>5, <1>8, <1>10, <1>11, <1>12

(* A name that stands alone has an empty value. *)
LEMMA FlagIsRead ==
    ASSUME NEW n \in Seq(Plain), n # << >>
    PROVE  IsPiece(n) /\ Pair(n) = [name |-> n, value |-> << >>]
  <1>1. Plain \subseteq Bytes \ {Ampersand} /\ Equals \notin Plain
    BY DEF Plain, Unreserved, Percent, Bytes, Ampersand, Equals
  <1>2. IsPiece(n)
    BY <1>1, SeqMonotonic DEF IsPiece
  <1>3. Len(n) \in Nat /\ \A k \in 1 .. Len(n) : n[k] \in Plain
    OBVIOUS
  <1>4. Find(n, Equals, 1) = Len(n) + 1
    <2>1. \A k \in 1 .. (Len(n) + 1) - 1 : n[k] # Equals
      BY <1>1, <1>3
    <2>2. Len(n) + 1 \in 1 .. Len(n) + 1 /\ 1 \in Nat \ {0} /\ ~(Len(n) + 1 <= Len(n))
      BY <1>3
    <2> QED BY <2>1, <2>2, FoundIsUnique
  <1>5. SubSeq(n, 1, (Len(n) + 1) - 1) = n /\ SubSeq(n, (Len(n) + 1) + 1, Len(n)) = << >>
    BY <1>3
  <1> QED BY <1>2, <1>4, <1>5 DEF Pair

(* One more pair, and those before it are as they were. *)
LEMMA PairsOfAppended ==
    ASSUME NEW q, Closed(q), NEW p, IsPiece(p), NEW T, Pairs(q) \in Seq(T), Pair(p) \in T
    PROVE  Pairs(Separated(q) \o p) = Append(Pairs(q), Pair(p))
  <1>1. PICK a, b : a = Pieces(q) /\ b = Pieces(Separated(q) \o p)
    OBVIOUS
  <1>2. a \in Seq(Seq(Bytes)) /\ b = Append(a, p) /\ p \in Seq(Bytes)
    BY <1>1, PiecesOfAppended, SeqMonotonic DEF IsPiece
  <1>3. /\ DOMAIN a = 1 .. Len(a) /\ DOMAIN b = 1 .. Len(a) + 1 /\ Len(a) \in Nat
        /\ (\A n \in 1 .. Len(a) : b[n] = a[n]) /\ b[Len(a) + 1] = p
    BY <1>2
  <1>4. /\ Pairs(q) = [n \in 1 .. Len(a) |-> Pair(a[n])]
        /\ Pairs(Separated(q) \o p) = [n \in 1 .. Len(a) + 1 |-> Pair(b[n])]
    BY <1>1, <1>3 DEF Pairs
  <1>5. PICK x, y : x = Pairs(q) /\ y = Append(Pairs(q), Pair(p))
    OBVIOUS
  <1>6. Len(x) = Len(a)
    BY <1>3, <1>4, <1>5
  <1>7. /\ y \in Seq(T) /\ Len(y) = Len(a) + 1 /\ y[Len(a) + 1] = Pair(p)
        /\ \A n \in 1 .. Len(a) : y[n] = x[n]
    BY <1>5, <1>6, AppendProperties
  <1>8. y \in [1 .. Len(a) + 1 -> T]
    BY <1>7, LenProperties
  <1>9. \A n \in 1 .. Len(a) + 1 : y[n] = Pair(b[n])
    BY <1>3, <1>4, <1>5, <1>7
  <1> QED BY <1>4, <1>5, <1>8, <1>9

-----------------------------------------------------------------------------
(* The parameter as it stands in the query *)
OnTheWire(p) == [name |-> p.name, value |-> encode_uri_component(p.value)]

(* What holds of the query in every state: it ends in no separator, and its   *)
(* pairs are the parameters asked for, each as it is encoded.                *)
Inv ==
    /\ asked \in Seq([name : Names, value : Seq(Bytes)])
    /\ Closed(query)
    /\ Pairs(query) = [n \in DOMAIN asked |-> OnTheWire(asked[n])]

(* A parameter is encoded to a pair that has no separator in it. *)
LEMMA WireIsPlain ==
    ASSUME NEW p \in [name : Names, value : Seq(Bytes)]
    PROVE  OnTheWire(p) \in PlainPairs
  <1>1. encode_uri_component(p.value) \in Seq(Plain)
    <2>1. 0 \in Bytes
      BY DEF Bytes
    <2> QED BY <2>1, EncodingOfAppend
  <1>2. p.name \in Seq(Plain) /\ p.name # << >>
    <2>1. p.name \in Seq(Unreserved) /\ p.name # << >>
      BY NamesAssumption
    <2>2. Unreserved \subseteq Plain
      BY DEF Plain
    <2> QED BY <2>1, <2>2, SeqMonotonic
  <1> QED BY <1>1, <1>2 DEF OnTheWire, PlainPairs

(* The pairs of a query are one for each parameter. *)
LEMMA WireIsPairs ==
    ASSUME NEW s \in Seq([name : Names, value : Seq(Bytes)]), NEW w,
           w = [n \in DOMAIN s |-> OnTheWire(s[n])]
    PROVE  w \in Seq(PlainPairs) /\ Len(w) = Len(s) /\ \A n \in 1 .. Len(s) : w[n] = OnTheWire(s[n])
  <1>1. DOMAIN s = 1 .. Len(s) /\ Len(s) \in Nat
    OBVIOUS
  <1>2. ASSUME NEW n \in 1 .. Len(s) PROVE w[n] = OnTheWire(s[n]) /\ w[n] \in PlainPairs
    <2>1. w[n] = OnTheWire(s[n])
      BY <1>1
    <2>2. PICK R : R = [name : Names, value : Seq(Bytes)]
      OBVIOUS
    <2>3. s \in Seq(R)
      BY <2>2
    <2>4. s[n] \in R
      BY <2>3
    <2> QED BY <2>1, <2>2, <2>4, WireIsPlain
  <1>3. w \in [1 .. Len(s) -> PlainPairs]
    BY <1>1, <1>2
  <1> QED BY <1>1, <1>2, <1>3

(* One more parameter, put behind the others as one piece *)
LEMMA InvOfAppended ==
    ASSUME Inv, NEW name \in Names, NEW value \in Seq(Bytes), NEW p, IsPiece(p),
           Pair(p) = OnTheWire([name |-> name, value |-> value]),
           query' = Separated(query) \o p, Given(name, value)
    PROVE  Inv'
  <1>1. PICK x : x = [name |-> name, value |-> value]
    OBVIOUS
  <1>2. PICK R : R = [name : Names, value : Seq(Bytes)]
    OBVIOUS
  <1>3. x \in R /\ asked \in Seq(R) /\ asked' = Append(asked, x)
    BY <1>1, <1>2 DEF Given, Inv
  <1>4. asked' \in Seq(R)
    BY <1>3
  <1>5. Closed(query')
    BY PiecesOfAppended DEF Inv
  <1>6. PICK w : w = Pairs(query)
    OBVIOUS
  <1>7. w \in Seq(PlainPairs) /\ Len(w) = Len(asked) /\ \A n \in 1 .. Len(asked) : w[n] = OnTheWire(asked[n])
    BY <1>2, <1>3, <1>6, WireIsPairs DEF Inv
  <1>8. Pair(p) \in PlainPairs /\ Pair(p) = OnTheWire(x)
    BY <1>1, <1>2, <1>3, WireIsPlain
  <1>9. Pairs(query') = Append(w, Pair(p))
    BY <1>6, <1>7, <1>8, PairsOfAppended DEF Inv
  <1>10. PICK v : v = [n \in DOMAIN asked' |-> OnTheWire(asked'[n])]
    OBVIOUS
  <1>11. /\ v \in Seq(PlainPairs) /\ Len(v) = Len(asked')
         /\ \A n \in 1 .. Len(asked') : v[n] = OnTheWire(asked'[n])
    BY <1>2, <1>4, <1>10, WireIsPairs
  <1>12. /\ Len(asked') = Len(asked) + 1 /\ asked'[Len(asked) + 1] = x /\ Len(asked) \in Nat
         /\ \A n \in 1 .. Len(asked) : asked'[n] = asked[n]
    BY <1>3
  <1>13. PICK u : u = Append(w, Pair(p))
    OBVIOUS
  <1>14. /\ u \in Seq(PlainPairs) /\ Len(u) = Len(asked) + 1 /\ u[Len(asked) + 1] = OnTheWire(x)
         /\ \A n \in 1 .. Len(asked) : u[n] = OnTheWire(asked[n])
    <2>1. /\ u \in Seq(PlainPairs) /\ Len(u) = Len(w) + 1 /\ u[Len(w) + 1] = Pair(p)
          /\ \A n \in 1 .. Len(w) : u[n] = w[n]
      BY <1>7, <1>8, <1>13, AppendProperties
    <2> QED BY <1>7, <1>8, <2>1
  <1>15. \A n \in 1 .. Len(u) : u[n] = v[n]
    <2>1. ASSUME NEW n \in 1 .. Len(asked) PROVE u[n] = v[n]
      <3>1. n \in 1 .. Len(asked')
        BY <1>12
      <3> QED BY <1>11, <1>12, <1>14, <3>1
    <2>2. u[Len(asked) + 1] = v[Len(asked) + 1]
      <3>1. Len(asked) + 1 \in 1 .. Len(asked')
        BY <1>12
      <3> QED BY <1>11, <1>12, <1>14, <3>1
    <2>3. \A n \in 1 .. Len(u) : n \in 1 .. Len(asked) \/ n = Len(asked) + 1
      BY <1>12, <1>14
    <2> QED BY <2>1, <2>2, <2>3
  <1>16. u = v
    BY <1>11, <1>12, <1>14, <1>15, SeqEqual
  <1> QED BY <1>2, <1>4, <1>5, <1>9, <1>10, <1>13, <1>16 DEF Inv

(* An empty query has no pairs. *)
LEMMA PairsOfNothing == Closed(<< >>) /\ Pairs(<< >>) = << >>
  <1>1. Starts(<< >>) = {}
    BY DEF Starts
  <1>2. Ascending(Starts(<< >>)) = [n \in 1 .. 0 |-> CHOOSE i \in {} : Cardinality({k \in {} : k < i}) = n - 1]
    BY <1>1, FS_EmptySet DEF Ascending
  <1>3. DOMAIN Pieces(<< >>) = {}
    <2>1. DOMAIN Ascending(Starts(<< >>)) = {}
      BY <1>2
    <2> QED BY <2>1 DEF Pieces, Starts
  <1>4. Pairs(<< >>) = [n \in {} |-> Pair(Pieces(<< >>)[n])]
    BY <1>3 DEF Pairs
  <1> QED BY <1>4 DEF Closed

(* The query is what was asked for, encoded, in every state: for every        *)
(* number of parameters and every length of their values (list_objects_v2,   *)
(* get_bucket_location, append_query_param).                                 *)
THEOREM InvHolds == Spec => []Inv
  <1>1. Init => Inv
    <2>1. SUFFICES ASSUME query = << >>, asked = << >> PROVE Inv
      BY DEF Init
    <2>2. Closed(query) /\ asked \in Seq([name : Names, value : Seq(Bytes)])
      BY <2>1 DEF Closed
    <2>3. Pairs(query) = << >>
      BY <2>1, PairsOfNothing
    <2>4. [n \in DOMAIN asked |-> OnTheWire(asked[n])] = [n \in {} |-> OnTheWire(asked[n])]
      BY <2>1
    <2> QED BY <2>2, <2>3, <2>4 DEF Inv
  <1>2. Inv /\ [Next]_vars => Inv'
    <2> SUFFICES ASSUME Inv, [Next]_vars PROVE Inv'
      OBVIOUS
    <2>1. ASSUME NEW name \in Names, NEW value \in Values, ParamAppended(name, value) PROVE Inv'
      <3>1. CASE value = NoText
        BY <2>1, <3>1 DEF ParamAppended, append_query_param, Inv
      <3>2. CASE value # NoText
        <4>1. value \in Seq(Bytes)
          <5>1. PICK m \in Nat : value \in [1 .. m -> Alphabet]
            BY <3>2, BoundsAssumption DEF Values, BoundedSeq, SeqOf
          <5>2. value \in [1 .. m -> Bytes]
            BY <5>1, AlphabetAssumption
          <5> QED BY <5>2
        <4>2. PICK x : x = [name |-> name, value |-> value]
          OBVIOUS
        <4>3. x \in [name : Names, value : Seq(Bytes)]
          BY <4>1, <4>2
        <4>4. PICK p : p = Joined(OnTheWire(x))
          OBVIOUS
        <4>5. IsPiece(p) /\ Pair(p) = OnTheWire(x) /\ OnTheWire(x) \in PlainPairs
          BY <4>3, <4>4, WireIsPlain, JoinedIsRead
        <4>6. PICK n, v : n = OnTheWire(x).name /\ v = OnTheWire(x).value
          OBVIOUS
        <4>7. n \in Seq(Bytes) /\ v \in Seq(Bytes) /\ <<Equals>> \in Seq(Bytes)
          <5>1. Plain \subseteq Bytes /\ Equals \in Bytes
            BY DEF Plain, Bytes, Unreserved, Percent, Equals
          <5>2. n \in Seq(Plain) /\ v \in Seq(Plain)
            BY <4>5, <4>6 DEF PlainPairs
          <5> QED BY <5>1, <5>2, SeqMonotonic
        <4>8. n = encode_uri_component(name) /\ v = encode_uri_component(value)
          <5>1. n = name /\ v = encode_uri_component(value)
            BY <4>2, <4>6 DEF OnTheWire
          <5>2. name \in Seq(Unreserved)
            BY NamesAssumption
          <5> QED BY <5>1, <5>2, UnreservedIsVerbatim
        <4>9. PICK s : s = Separated(query)
          OBVIOUS
        <4>10. s \in Seq(Bytes)
          <5>1. query \in Seq(Bytes) /\ Ampersand \in Bytes
            BY DEF Inv, Closed, Ampersand, Bytes
          <5> QED BY <4>9, <5>1 DEF Separated
        <4>11. query' = s \o n \o <<Equals>> \o v
          BY <2>1, <3>2, <4>8, <4>9 DEF ParamAppended, append_query_param
        <4>12. p = n \o <<Equals>> \o v
          BY <4>4, <4>6 DEF Joined
        <4>13. n \o <<Equals>> \in Seq(Bytes)
          BY <4>7
        <4>14. query' = s \o p
          <5>1. (s \o n) \o <<Equals>> = s \o (n \o <<Equals>>)
            BY <4>7, <4>10, ConcatAssociative
          <5>2. (s \o (n \o <<Equals>>)) \o v = s \o ((n \o <<Equals>>) \o v)
            <6>1. PICK m : m = n \o <<Equals>>
              OBVIOUS
            <6>2. m \in Seq(Bytes) /\ s \in Seq(Bytes) /\ v \in Seq(Bytes)
              BY <4>7, <4>10, <4>13, <6>1
            <6>3. (s \o m) \o v = s \o (m \o v)
              BY <6>2, ConcatAssociative
            <6> QED BY <6>1, <6>3
          <5> QED BY <4>11, <4>12, <5>1, <5>2
        <4>15. Given(name, value)
          BY <2>1, <3>2 DEF ParamAppended
        <4> QED BY <4>1, <4>2, <4>5, <4>9, <4>14, <4>15, InvOfAppended
      <3> QED BY <3>1, <3>2
    <2>2. ASSUME NEW name \in Names, FlagAppended(name) PROVE Inv'
      <3>1. name \in Seq(Plain) /\ name # << >>
        <4>1. name \in Seq(Unreserved) /\ name # << >> /\ Unreserved \subseteq Plain
          BY NamesAssumption DEF Plain
        <4> QED BY <4>1, SeqMonotonic
      <3>2. IsPiece(name) /\ Pair(name) = [name |-> name, value |-> << >>]
        BY <3>1, FlagIsRead
      <3>3. encode_uri_component(<< >>) = << >>
        <4>1. 0 \in Bytes /\ << >> \in Seq(Bytes)
          BY DEF Bytes
        <4> QED BY <4>1, EncodingOfAppend
      <3>4. Pair(name) = OnTheWire([name |-> name, value |-> << >>])
        BY <3>2, <3>3 DEF OnTheWire
      <3>5. << >> \in Seq(Bytes) /\ Given(name, << >>) /\ query' = Separated(query) \o name
        BY <2>2 DEF FlagAppended
      <3> QED BY <3>2, <3>4, <3>5, InvOfAppended
    <2>3. ASSUME UNCHANGED vars PROVE Inv'
      BY <2>3 DEF vars, Inv
    <2> QED BY <2>1, <2>2, <2>3 DEF Next, Sent
  <1> QED BY <1>1, <1>2, PTL DEF Spec

(* The storage reads the parameters the caller gave, no more and no fewer,    *)
(* whatever bytes are in their values (encode_uri_component,                 *)
(* append_query_param).                                                      *)
THEOREM ReadAsAsked == Spec => []RequestIsReadAsAsked
  <1>1. Inv => RequestIsReadAsAsked
    <2> SUFFICES ASSUME Inv PROVE Params(query) = asked
      BY DEF RequestIsReadAsAsked
    <2>1. PICK R : R = [name : Names, value : Seq(Bytes)]
      OBVIOUS
    <2>2. asked \in Seq(R) /\ DOMAIN asked = 1 .. Len(asked) /\ Len(asked) \in Nat
      BY <2>1 DEF Inv
    <2>3. PICK w : w = Pairs(query)
      OBVIOUS
    <2>4. DOMAIN w = 1 .. Len(asked) /\ \A n \in 1 .. Len(asked) : w[n] = OnTheWire(asked[n])
      BY <2>2, <2>3 DEF Inv
    <2>5. Params(query) = [n \in 1 .. Len(asked) |-> [name |-> Decoded(w[n].name), value |-> Decoded(w[n].value)]]
      BY <2>3, <2>4 DEF Params
    <2>6. ASSUME NEW n \in 1 .. Len(asked)
          PROVE  [name |-> Decoded(w[n].name), value |-> Decoded(w[n].value)] = asked[n]
      <3>1. PICK a : a = asked[n]
        OBVIOUS
      <3>2. /\ a \in R /\ a.name \in Seq(Unreserved) /\ a.value \in Seq(Bytes)
            /\ a = [name |-> a.name, value |-> a.value]
        <4>1. a \in R
          BY <2>2, <3>1
        <4>2. a.name \in Names /\ a.value \in Seq(Bytes) /\ a = [name |-> a.name, value |-> a.value]
          BY <2>1, <4>1
        <4> QED BY <4>1, <4>2, NamesAssumption
      <3>3. Decoded(a.name) = a.name
        <4>1. Unreserved \subseteq Bytes
          BY DEF Unreserved, Bytes
        <4>2. a.name \in Seq(Bytes)
          BY <3>2, <4>1, SeqMonotonic
        <4>3. Decoded(encode_uri_component(a.name)) = a.name /\ encode_uri_component(a.name) = a.name
          BY <3>2, <4>2, EncodingIsUndone, UnreservedIsVerbatim
        <4> QED BY <4>3
      <3>4. Decoded(encode_uri_component(a.value)) = a.value
        BY <3>2, EncodingIsUndone
      <3>5. w[n].name = a.name /\ w[n].value = encode_uri_component(a.value)
        BY <2>4, <3>1 DEF OnTheWire
      <3> QED BY <3>1, <3>2, <3>3, <3>4, <3>5
    <2>7. Params(query) = [n \in 1 .. Len(asked) |-> asked[n]]
      BY <2>5, <2>6
    <2>8. asked = [n \in 1 .. Len(asked) |-> asked[n]]
      BY <2>2, LenProperties
    <2> QED BY <2>7, <2>8
  <1> QED BY <1>1, InvHolds, PTL

-----------------------------------------------------------------------------
(* A prefix is the beginning of the text. *)
LEMMA PrefixIsTheBeginning ==
    ASSUME NEW s \in Seq(Nat), NEW t \in Seq(Nat)
    PROVE  IsPrefix(s, t) <=> Len(s) <= Len(t) /\ \A i \in 1 .. Len(s) : s[i] = t[i]
  <1>1. Len(s) \in Nat /\ Len(t) \in Nat
    OBVIOUS
  <1>2. SUFFICES ASSUME Len(s) <= Len(t)
                 PROVE  SubSeq(s, 1, Len(s)) = SubSeq(t, 1, Len(s))
                            <=> \A i \in 1 .. Len(s) : s[i] = t[i]
    BY DEF IsPrefix
  <1>3. PICK a, b : a = SubSeq(s, 1, Len(s)) /\ b = SubSeq(t, 1, Len(s))
    OBVIOUS
  <1>4. \A i \in 1 .. Len(s) : i \in 1 .. Len(t)
    BY <1>1, <1>2
  <1>5. \A i \in 1 .. Len(s) : s[i] \in Nat /\ t[i] \in Nat
    BY <1>4
  <1>6. /\ a \in Seq(Nat) /\ Len(a) = Len(s) /\ \A i \in 1 .. Len(s) : a[i] = s[i]
        /\ b \in Seq(Nat) /\ Len(b) = Len(s) /\ \A i \in 1 .. Len(s) : b[i] = t[i]
    BY <1>1, <1>3, <1>5, SubSeqProperties
  <1>7. (\A i \in 1 .. Len(s) : s[i] = t[i]) => a = b
    BY <1>6, SeqEqual
  <1> QED BY <1>3, <1>6, <1>7

(* Of two texts at most one is before the other. *)
LEMMA BeforeIsAsymmetric ==
    ASSUME NEW s \in Seq(Nat), NEW t \in Seq(Nat), Before(s, t)
    PROVE  ~Before(t, s)
  <1> DEFINE Differs(x, y, i) == /\ i \in 1 .. Len(x) /\ i \in 1 .. Len(y) /\ x[i] < y[i]
                                 /\ \A k \in 1 .. i - 1 : x[k] = y[k]
             Begins(x, y) == Len(x) <= Len(y) /\ \A i \in 1 .. Len(x) : x[i] = y[i]
  <1>1. SUFFICES ASSUME Before(t, s) PROVE FALSE
    OBVIOUS
  <1>2. /\ Len(s) \in Nat /\ Len(t) \in Nat /\ DOMAIN s = 1 .. Len(s) /\ DOMAIN t = 1 .. Len(t)
        /\ \A i \in 1 .. Len(s) : s[i] \in Nat
        /\ \A i \in 1 .. Len(t) : t[i] \in Nat
    OBVIOUS
  <1>3. (Begins(s, t) /\ s # t) \/ \E i : Differs(s, t, i)
    BY <1>2, PrefixIsTheBeginning DEF Before, IsStrictPrefix
  <1>4. (Begins(t, s) /\ s # t) \/ \E i : Differs(t, s, i)
    BY <1>1, <1>2, PrefixIsTheBeginning DEF Before, IsStrictPrefix
  <1>5. CASE Begins(s, t) /\ Begins(t, s) /\ s # t
    <2>1. Len(s) <= Len(t) /\ Len(t) <= Len(s) /\ Len(s) \in Nat /\ Len(t) \in Nat
      BY <1>2, <1>5
    <2>2. PICK x \in Nat, y \in Nat : x = Len(s) /\ y = Len(t)
      BY <2>1
    <2>3. x <= y /\ y <= x
      BY <2>1, <2>2
    <2>4. x = y
      BY <2>3
    <2> QED BY <1>5, <2>2, <2>4, SeqEqual
  <1>6. CASE Begins(s, t) /\ \E i : Differs(t, s, i)
    BY <1>2, <1>6
  <1>7. CASE Begins(t, s) /\ \E i : Differs(s, t, i)
    BY <1>2, <1>7
  <1>8. CASE (\E i : Differs(s, t, i)) /\ \E i : Differs(t, s, i)
    <2>1. PICK i : Differs(s, t, i)
      BY <1>8
    <2>2. PICK j : Differs(t, s, j)
      BY <1>8
    <2>3. i \in Nat /\ j \in Nat /\ (i < j \/ j < i \/ i = j)
      BY <1>2, <2>1, <2>2
    <2>4. s[i] \in Nat /\ t[i] \in Nat /\ s[j] \in Nat /\ t[j] \in Nat
      BY <1>2, <2>1, <2>2
    <2>5. ~(i < j)
      <3>1. SUFFICES ASSUME i < j PROVE FALSE
        OBVIOUS
      <3>2. i \in 1 .. j - 1
        BY <2>1, <2>3, <3>1
      <3> QED BY <2>1, <2>2, <2>4, <3>2
    <2>6. ~(j < i)
      <3>1. SUFFICES ASSUME j < i PROVE FALSE
        OBVIOUS
      <3>2. j \in 1 .. i - 1
        BY <2>2, <2>3, <3>1
      <3> QED BY <2>1, <2>2, <2>4, <3>2
    <2>7. i # j
      BY <2>1, <2>2, <2>4
    <2> QED BY <2>3, <2>5, <2>6, <2>7
  <1> QED BY <1>3, <1>4, <1>5, <1>6, <1>7, <1>8

(* Of two texts that are not the same one is before the other. *)
LEMMA BeforeIsTotal ==
    ASSUME NEW s \in Seq(Nat), NEW t \in Seq(Nat), s # t
    PROVE  Before(s, t) \/ Before(t, s)
  <1>1. /\ Len(s) \in Nat /\ Len(t) \in Nat /\ DOMAIN s = 1 .. Len(s) /\ DOMAIN t = 1 .. Len(t)
        /\ \A i \in 1 .. Len(s) : s[i] \in Nat
        /\ \A i \in 1 .. Len(t) : t[i] \in Nat
    OBVIOUS
  <1> DEFINE D == {i \in DOMAIN s \cap DOMAIN t : s[i] # t[i]}
  <1>2. CASE D = {}
    <2>1. \A i \in DOMAIN s \cap DOMAIN t : s[i] = t[i]
      BY <1>2
    <2>2. CASE Len(s) <= Len(t)
      <3>1. \A i \in 1 .. Len(s) : i \in DOMAIN s \cap DOMAIN t
        BY <1>1, <2>2
      <3>2. IsPrefix(s, t)
        BY <2>1, <2>2, <3>1, PrefixIsTheBeginning
      <3> QED BY <3>2 DEF Before, IsStrictPrefix
    <2>3. CASE Len(t) <= Len(s)
      <3>1. \A i \in 1 .. Len(t) : i \in DOMAIN s \cap DOMAIN t
        BY <1>1, <2>3
      <3>2. IsPrefix(t, s)
        BY <2>1, <2>3, <3>1, PrefixIsTheBeginning
      <3> QED BY <3>2 DEF Before, IsStrictPrefix
    <2> QED BY <1>1, <2>2, <2>3
  <1>3. CASE D # {}
    <2>1. D \in SUBSET Nat
      BY <1>1
    <2>2. PICK i \in D : \A k \in D : i <= k
      BY <1>3, <2>1, MinIsFirst
    <2>3. i \in 1 .. Len(s) /\ i \in 1 .. Len(t) /\ s[i] # t[i] /\ s[i] \in Nat /\ t[i] \in Nat
      BY <1>1, <2>2
    <2>4. ASSUME NEW k \in 1 .. i - 1 PROVE s[k] = t[k]
      <3>1. k \in DOMAIN s \cap DOMAIN t /\ ~(i <= k)
        BY <1>1, <2>3
      <3> QED BY <2>2, <3>1
    <2>5. s[i] < t[i] \/ t[i] < s[i]
      BY <2>3
    <2>6. i \in DOMAIN s \cap DOMAIN t /\ i \in DOMAIN t \cap DOMAIN s
      BY <2>2
    <2> QED BY <2>4, <2>5, <2>6 DEF Before
  <1> QED BY <1>2, <1>3

(* Names and values are texts of bytes. *)
LEMMA PlainIsText ==
    ASSUME NEW p \in PlainPairs
    PROVE  p.name \in Seq(Nat) /\ p.value \in Seq(Nat)
  <1>1. Plain \subseteq Nat
    BY DEF Plain, Unreserved, Percent
  <1>2. p.name \in Seq(Plain) /\ p.value \in Seq(Plain)
    BY DEF PlainPairs
  <1> QED BY <1>1, <1>2, SeqMonotonic

(* Of two pairs at most one precedes the other. *)
LEMMA PrecedesIsAsymmetric ==
    ASSUME NEW p \in PlainPairs, NEW r \in PlainPairs, Precedes(p, r)
    PROVE  ~Precedes(r, p)
  <1>1. /\ p.name \in Seq(Nat) /\ p.value \in Seq(Nat)
        /\ r.name \in Seq(Nat) /\ r.value \in Seq(Nat)
    BY PlainIsText
  <1>2. /\ Before(p.name, r.name) => ~Before(r.name, p.name)
        /\ Before(p.value, r.value) => ~Before(r.value, p.value)
        /\ ~Before(p.name, p.name)
    BY <1>1, BeforeIsAsymmetric
  <1> QED BY <1>2 DEF Precedes

(* An order of the pairs in which none precedes the one before it *)
Ordered(p, pairs) ==
    /\ p \in Orders(pairs)
    /\ \A n \in 1 .. Len(pairs) - 1 : ~Precedes(pairs[p[n + 1]], pairs[p[n]])

(* One more pair is put in front of the first pair that it precedes. *)
LEMMA OrderOfInserted ==
    ASSUME NEW s \in Seq(PlainPairs), NEW r \in PlainPairs, NEW p, Ordered(p, s)
    PROVE  \E o : Ordered(o, Append(s, r))
  <1>1. PICK N \in Nat : N = Len(s)
    OBVIOUS
  <1>2. PICK t : t = Append(s, r)
    OBVIOUS
  <1>3. /\ t \in Seq(PlainPairs) /\ Len(t) = N + 1 /\ DOMAIN t = 1 .. N + 1 /\ DOMAIN s = 1 .. N
        /\ (\A i \in 1 .. N : t[i] = s[i]) /\ t[N + 1] = r
    BY <1>1, <1>2
  <1>4. /\ p \in [1 .. N -> 1 .. N]
        /\ \A a, b \in 1 .. N : p[a] = p[b] => a = b
        /\ \A i \in 1 .. N : \E a \in 1 .. N : p[a] = i
    BY <1>3 DEF Ordered, Orders, Bijection, Injection, Surjection, IsInjective
  <1>5. \A n \in 1 .. N - 1 : ~Precedes(s[p[n + 1]], s[p[n]])
    BY <1>1 DEF Ordered
  <1> DEFINE Behind == {k \in 1 .. N : Precedes(r, s[p[k]])}
  <1>6. PICK k \in 1 .. N + 1 : /\ \A n \in 1 .. k - 1 : ~Precedes(r, s[p[n]])
                                /\ k <= N => Precedes(r, s[p[k]])
    <2>1. CASE Behind = {}
      <3>1. \A n \in 1 .. (N + 1) - 1 : ~Precedes(r, s[p[n]])
        <4>1. (N + 1) - 1 = N
          OBVIOUS
        <4> QED BY <2>1, <4>1
      <3>2. N + 1 \in 1 .. N + 1 /\ ~(N + 1 <= N)
        OBVIOUS
      <3> QED BY <3>1, <3>2
    <2>2. CASE Behind # {}
      <3>1. Behind \in SUBSET Nat
        OBVIOUS
      <3>2. PICK k \in Behind : \A y \in Behind : k <= y
        BY <2>2, <3>1, MinIsFirst
      <3>3. ASSUME NEW n \in 1 .. k - 1 PROVE ~Precedes(r, s[p[n]])
        <4>1. n \in 1 .. N /\ ~(k <= n)
          BY <3>2
        <4> QED BY <3>2, <4>1
      <3>4. k \in 1 .. N + 1 /\ Precedes(r, s[p[k]])
        BY <3>2
      <3> QED BY <3>3, <3>4
    <2> QED BY <2>1, <2>2
  <1> DEFINE o == [n \in 1 .. N + 1 |-> IF n < k THEN p[n] ELSE IF n = k THEN N + 1 ELSE p[n - 1]]
  <1>7. /\ \A n \in 1 .. N + 1 : n < k => n \in 1 .. N /\ o[n] = p[n]
        /\ o[k] = N + 1
        /\ \A n \in 1 .. N + 1 : n > k => n - 1 \in 1 .. N /\ o[n] = p[n - 1]
    BY <1>6
  <1>8. \A n \in 1 .. N + 1 : n < k \/ n = k \/ n > k
    OBVIOUS
  <1>9. \A n \in 1 .. N : p[n] \in 1 .. N /\ p[n] \in 1 .. N + 1 /\ p[n] # N + 1
    BY <1>4
  <1> HIDE DEF o
  <1>10. o \in [1 .. N + 1 -> 1 .. N + 1]
    <2>1. \A n \in 1 .. N + 1 : o[n] \in 1 .. N + 1
      <3>1. N + 1 \in 1 .. N + 1
        OBVIOUS
      <3> QED BY <1>7, <1>8, <1>9, <3>1
    <2> QED BY <2>1 DEF o
  <1>11. ASSUME NEW a \in 1 .. N + 1, NEW b \in 1 .. N + 1, o[a] = o[b] PROVE a = b
    <2>1. \A x, y \in 1 .. N + 1 : x - 1 = y - 1 => x = y
      OBVIOUS
    <2>2. CASE a = k
      BY <1>7, <1>8, <1>9, <1>11, <2>2
    <2>3. CASE b = k
      BY <1>7, <1>8, <1>9, <1>11, <2>3
    <2>4. CASE a < k /\ b < k
      BY <1>4, <1>7, <1>11, <2>4
    <2>5. CASE a > k /\ b > k
      BY <1>4, <1>7, <1>11, <2>1, <2>5
    <2>6. CASE a < k /\ b > k
      <3>1. a \in 1 .. N /\ b - 1 \in 1 .. N /\ p[a] = p[b - 1]
        BY <1>7, <1>11, <2>6
      <3>2. a # b - 1
        BY <2>6
      <3> QED BY <1>4, <3>1, <3>2
    <2>7. CASE a > k /\ b < k
      <3>1. b \in 1 .. N /\ a - 1 \in 1 .. N /\ p[b] = p[a - 1]
        BY <1>7, <1>11, <2>7
      <3>2. b # a - 1
        BY <2>7
      <3> QED BY <1>4, <3>1, <3>2
    <2> QED BY <1>8, <2>2, <2>3, <2>4, <2>5, <2>6, <2>7
  <1>12. ASSUME NEW i \in 1 .. N + 1 PROVE \E a \in 1 .. N + 1 : o[a] = i
    <2>1. CASE i = N + 1
      BY <1>7, <2>1
    <2>2. CASE i # N + 1
      <3>1. i \in 1 .. N
        BY <2>2
      <3>2. PICK a \in 1 .. N : p[a] = i
        BY <1>4, <3>1
      <3>3. CASE a < k
        <4>1. a \in 1 .. N + 1
          OBVIOUS
        <4> QED BY <1>7, <3>2, <3>3, <4>1
      <3>4. CASE a >= k
        <4>1. a + 1 \in 1 .. N + 1 /\ a + 1 > k /\ (a + 1) - 1 = a
          BY <3>4
        <4> QED BY <1>7, <3>2, <4>1
      <3> QED BY <3>3, <3>4
    <2> QED BY <2>1, <2>2
  <1>13. o \in Orders(t)
    BY <1>3, <1>10, <1>11, <1>12 DEF Orders, Bijection, Injection, Surjection, IsInjective
  <1>14. ASSUME NEW n \in 1 .. Len(t) - 1 PROVE ~Precedes(t[o[n + 1]], t[o[n]])
    <2>1. n \in 1 .. N /\ n \in 1 .. N + 1 /\ n + 1 \in 1 .. N + 1 /\ (n + 1) - 1 = n
      BY <1>3
    <2>2. \A m \in 1 .. N : t[p[m]] = s[p[m]] /\ s[p[m]] \in PlainPairs
      BY <1>3, <1>9
    <2>3. CASE n + 1 < k
      <3>1. n < k /\ n \in 1 .. N - 1
        BY <2>1, <2>3
      <3>2. n + 1 \in 1 .. N /\ o[n] = p[n] /\ o[n + 1] = p[n + 1]
        BY <1>7, <2>1, <2>3, <3>1
      <3> QED BY <1>5, <2>1, <2>2, <3>1, <3>2
    <2>4. CASE n + 1 = k
      <3>1. n < k /\ n \in 1 .. k - 1
        BY <2>1, <2>4
      <3>2. o[n] = p[n] /\ o[n + 1] = N + 1
        BY <1>7, <2>1, <2>4, <3>1
      <3> QED BY <1>3, <1>6, <2>1, <2>2, <3>1, <3>2
    <2>5. CASE n = k
      <3>1. n + 1 > k /\ k <= N
        BY <2>1, <2>5
      <3>2. o[n] = N + 1 /\ o[n + 1] = p[n]
        BY <1>7, <2>1, <2>5, <3>1
      <3>3. Precedes(r, s[p[n]]) /\ s[p[n]] \in PlainPairs
        BY <1>6, <2>1, <2>2, <2>5, <3>1
      <3>4. ~Precedes(s[p[n]], r)
        BY <3>3, PrecedesIsAsymmetric
      <3> QED BY <1>3, <2>1, <2>2, <3>2, <3>4
    <2>6. CASE n > k
      <3>1. n + 1 > k /\ n - 1 \in 1 .. N - 1 /\ (n - 1) + 1 = n /\ n - 1 \in 1 .. N
        BY <2>1, <2>6
      <3>2. o[n] = p[n - 1] /\ o[n + 1] = p[n]
        BY <1>7, <2>1, <2>6, <3>1
      <3>3. ~Precedes(s[p[n]], s[p[n - 1]])
        BY <1>5, <3>1
      <3> QED BY <2>1, <2>2, <3>1, <3>2, <3>3
    <2>7. n + 1 < k \/ n + 1 = k \/ n = k \/ n > k
      BY <2>1
    <2> QED BY <2>3, <2>4, <2>5, <2>6, <2>7
  <1> QED BY <1>2, <1>13, <1>14 DEF Ordered

(* There is an order that sort_unstable ends in. *)
LEMMA OrderExists ==
    ASSUME NEW s \in Seq(PlainPairs)
    PROVE  \E p : Ordered(p, s)
  <1> DEFINE S == {x \in Seq(PlainPairs) : \E p : Ordered(p, x)}
  <1>1. << >> \in S
    <2>1. << >> \in Orders(<< >>)
      BY DEF Orders, Bijection, Injection, Surjection, IsInjective
    <2>2. \A n \in 1 .. Len(<< >>) - 1 : FALSE
      OBVIOUS
    <2>3. Ordered(<< >>, << >>)
      BY <2>1, <2>2 DEF Ordered
    <2> QED BY <2>3
  <1>2. ASSUME NEW x \in Seq(PlainPairs), NEW r \in PlainPairs, x \in S PROVE Append(x, r) \in S
    <2>1. \E o : Ordered(o, Append(x, r))
      BY <1>2, OrderOfInserted
    <2> QED BY <2>1
  <1> HIDE DEF S
  <1>3. s \in S
    BY <1>1, <1>2, SeqInduction
  <1> QED BY <1>3 DEF S

(* What is sorted is an order of the pairs, and none precedes the one before. *)
LEMMA SortedIsOrdered ==
    ASSUME NEW s \in Seq(PlainPairs)
    PROVE  /\ Sorted(s) \in Seq(PlainPairs) /\ Len(Sorted(s)) = Len(s)
           /\ \E p \in Orders(s) : Sorted(s) = [n \in DOMAIN s |-> s[p[n]]]
           /\ \A n \in 1 .. Len(s) - 1 : ~Precedes(Sorted(s)[n + 1], Sorted(s)[n])
  <1> DEFINE Fits(p) == \A n \in 1 .. Len(s) - 1 : ~Precedes(s[p[n + 1]], s[p[n]])
             o == CHOOSE p \in Orders(s) : Fits(p)
  <1>1. \E p \in Orders(s) : Fits(p)
    BY OrderExists DEF Ordered
  <1>2. o \in Orders(s) /\ Fits(o)
    BY <1>1
  <1>3. Sorted(s) = [n \in DOMAIN s |-> s[o[n]]]
    BY DEF Sorted
  <1> HIDE DEF o
  <1>4. DOMAIN s = 1 .. Len(s) /\ Len(s) \in Nat /\ o \in [1 .. Len(s) -> 1 .. Len(s)]
    BY <1>2 DEF Orders, Bijection, Injection
  <1>5. Sorted(s) \in [1 .. Len(s) -> PlainPairs]
    BY <1>3, <1>4
  <1>6. Sorted(s) \in Seq(PlainPairs) /\ Len(Sorted(s)) = Len(s)
    BY <1>4, <1>5
  <1>7. ASSUME NEW n \in 1 .. Len(s) - 1 PROVE ~Precedes(Sorted(s)[n + 1], Sorted(s)[n])
    <2>1. n \in 1 .. Len(s) /\ n + 1 \in 1 .. Len(s)
      BY <1>4
    <2>2. Sorted(s)[n] = s[o[n]] /\ Sorted(s)[n + 1] = s[o[n + 1]]
      BY <1>3, <1>4, <2>1
    <2> QED BY <1>2, <2>2
  <1> QED BY <1>2, <1>3, <1>6, <1>7

-----------------------------------------------------------------------------
(* The pairs of a canonical query, one by one, each behind its separator *)
Parts(s) == [n \in DOMAIN s |-> IF n = 1 THEN Joined(s[n]) ELSE <<Ampersand>> \o Joined(s[n])]

(* A pair is joined to a text of bytes, with a separator or without. *)
LEMMA PartIsText ==
    ASSUME NEW r \in PlainPairs
    PROVE  Joined(r) \in Seq(Bytes) /\ <<Ampersand>> \o Joined(r) \in Seq(Bytes)
  <1>1. Joined(r) \in Seq(Bytes)
    <2>1. Joined(r) \in Seq(Bytes \ {Ampersand}) /\ Bytes \ {Ampersand} \subseteq Bytes
      BY JoinedIsRead DEF IsPiece
    <2> QED BY <2>1, SeqMonotonic
  <1>2. <<Ampersand>> \in Seq(Bytes)
    BY DEF Ampersand, Bytes
  <1> QED BY <1>1, <1>2, ConcatProperties

(* The parts of one more pair *)
LEMMA PartsOfAppended ==
    ASSUME NEW s \in Seq(PlainPairs), NEW r \in PlainPairs
    PROVE  /\ Parts(s) \in Seq(Seq(Bytes))
           /\ Parts(Append(s, r)) = Append(Parts(s), IF s = << >> THEN Joined(r)
                                                     ELSE <<Ampersand>> \o Joined(r))
  <1>1. ASSUME NEW t \in Seq(PlainPairs)
        PROVE  Parts(t) \in Seq(Seq(Bytes)) /\ Len(Parts(t)) = Len(t)
    <2>1. DOMAIN t = 1 .. Len(t) /\ Len(t) \in Nat
      OBVIOUS
    <2>2. ASSUME NEW n \in 1 .. Len(t)
          PROVE  (IF n = 1 THEN Joined(t[n]) ELSE <<Ampersand>> \o Joined(t[n])) \in Seq(Bytes)
      <3>1. t[n] \in PlainPairs
        OBVIOUS
      <3> QED BY <3>1, PartIsText
    <2>3. Parts(t) \in [1 .. Len(t) -> Seq(Bytes)]
      BY <2>1, <2>2 DEF Parts
    <2> QED BY <2>1, <2>3
  <1>2. PICK t, x : t = Append(s, r) /\ x = IF s = << >> THEN Joined(r) ELSE <<Ampersand>> \o Joined(r)
    OBVIOUS
  <1>3. PICK N \in Nat : N = Len(s)
    OBVIOUS
  <1>4. /\ t \in Seq(PlainPairs) /\ Len(t) = N + 1 /\ DOMAIN t = 1 .. N + 1 /\ DOMAIN s = 1 .. N
        /\ (\A n \in 1 .. N : t[n] = s[n]) /\ t[N + 1] = r
    BY <1>2, <1>3
  <1>5. x \in Seq(Bytes)
    BY <1>2, PartIsText
  <1>6. PICK a, b : a = Parts(t) /\ b = Append(Parts(s), x)
    OBVIOUS
  <1>7. a \in Seq(Seq(Bytes)) /\ Len(a) = N + 1
    BY <1>1, <1>4, <1>6
  <1>8. Parts(s) \in Seq(Seq(Bytes)) /\ Len(Parts(s)) = N
    BY <1>1, <1>3
  <1>9. /\ b \in Seq(Seq(Bytes)) /\ Len(b) = N + 1 /\ b[N + 1] = x
        /\ \A n \in 1 .. N : b[n] = Parts(s)[n]
    BY <1>5, <1>6, <1>8, AppendProperties
  <1>10. \A n \in 1 .. N : a[n] = Parts(s)[n]
    <2>1. \A n \in 1 .. N : n \in 1 .. N + 1
      OBVIOUS
    <2> QED BY <1>4, <1>6, <2>1 DEF Parts
  <1>11. a[N + 1] = x
    <2>1. N + 1 \in 1 .. N + 1 /\ (N + 1 = 1 <=> N = 0)
      OBVIOUS
    <2>2. s = << >> <=> N = 0
      BY <1>3, EmptySeq
    <2> QED BY <1>2, <1>4, <1>6, <2>1, <2>2 DEF Parts
  <1>12. \A n \in 1 .. Len(a) : a[n] = b[n]
    <2>1. \A n \in 1 .. N + 1 : n \in 1 .. N \/ n = N + 1
      OBVIOUS
    <2> QED BY <1>7, <1>9, <1>10, <1>11, <2>1
  <1>13. a = b
    BY <1>7, <1>9, <1>12, SeqEqual
  <1> QED BY <1>2, <1>6, <1>8, <1>13

(* The pairs, joined and separated, are read as those pairs. *)
LEMMA PartsAreRead ==
    ASSUME NEW s \in Seq(PlainPairs)
    PROVE  Pairs(FlattenSeq(Parts(s))) = s
  <1> DEFINE Good(x) == LET q == FlattenSeq(Parts(x)) IN
                          Closed(q) /\ Pairs(q) = x /\ (q = << >> <=> x = << >>)
             S == {x \in Seq(PlainPairs) : Good(x)}
  <1>1. << >> \in S
    <2>1. Parts(<< >>) = << >>
      BY DEF Parts
    <2>2. << >> \in Seq(Bytes) /\ << >> \in Seq(Seq(Bytes))
      OBVIOUS
    <2>3. FlattenSeq(Parts(<< >>)) = << >>
      BY <2>1, <2>2, FlattenOfAppend
    <2>4. Pairs(<< >>) = << >> /\ Closed(<< >>)
      BY PairsOfNothing
    <2> QED BY <2>3, <2>4
  <1>2. ASSUME NEW x \in Seq(PlainPairs), NEW r \in PlainPairs, x \in S PROVE Append(x, r) \in S
    <2>1. PICK q, j, y : /\ q = FlattenSeq(Parts(x)) /\ j = Joined(r)
                         /\ y = IF x = << >> THEN j ELSE <<Ampersand>> \o j
      OBVIOUS
    <2>2. Closed(q) /\ Pairs(q) = x /\ (q = << >> <=> x = << >>)
      BY <1>2, <2>1
    <2>3. IsPiece(j) /\ Pair(j) = r
      BY <2>1, JoinedIsRead
    <2>4. Parts(x) \in Seq(Seq(Bytes)) /\ Parts(Append(x, r)) = Append(Parts(x), y)
      BY <2>1, PartsOfAppended
    <2>5. j \in Seq(Bytes) /\ y \in Seq(Bytes) /\ q \in Seq(Bytes)
      BY <2>1, <2>2, PartIsText DEF Closed
    <2>6. FlattenSeq(Parts(Append(x, r))) = q \o y
      BY <2>1, <2>4, <2>5, FlattenOfAppend
    <2>7. q \o y = Separated(q) \o j
      <3>1. CASE x = << >>
        BY <2>1, <2>2, <3>1 DEF Separated
      <3>2. CASE x # << >>
        <4>1. Ampersand \in Bytes /\ <<Ampersand>> \in Seq(Bytes)
          BY DEF Ampersand, Bytes
        <4>2. Append(q, Ampersand) = q \o <<Ampersand>>
          BY <2>5, <4>1, AppendIsConcat
        <4>3. (q \o <<Ampersand>>) \o j = q \o (<<Ampersand>> \o j)
          BY <2>5, <4>1, ConcatAssociative
        <4> QED BY <2>1, <2>2, <3>2, <4>2, <4>3 DEF Separated
      <3> QED BY <3>1, <3>2
    <2>8. Closed(q \o y)
      BY <2>2, <2>3, <2>7, PiecesOfAppended
    <2>9. Pairs(q \o y) = Append(x, r)
      BY <2>2, <2>3, <2>7, PairsOfAppended
    <2>10. Append(x, r) # << >> /\ Append(x, r) \in Seq(PlainPairs)
      BY AppendProperties
    <2>11. q \o y # << >>
      <3>1. y # << >>
        <4>1. CASE x = << >>
          BY <2>1, <2>3, <4>1 DEF IsPiece
        <4>2. CASE x # << >>
          <5>1. <<Ampersand>> \in Seq(Bytes) /\ <<Ampersand>> # << >>
            BY DEF Ampersand, Bytes
          <5> QED BY <2>1, <2>5, <4>2, <5>1, ConcatEqualIffEmpty
        <4> QED BY <4>1, <4>2
      <3> QED BY <2>5, <3>1, ConcatEqualIffEmpty
    <2> QED BY <2>6, <2>8, <2>9, <2>10, <2>11
  <1> HIDE DEF S
  <1>3. s \in S
    BY <1>1, <1>2, SeqInduction
  <1> QED BY <1>3 DEF S

(* What is signed is what the storage signs of what it has read: no request   *)
(* is refused as SignatureDoesNotMatch for its query, whatever its           *)
(* parameters are (canonical_query_string).                                  *)
THEOREM Signed == Spec => []SignatureMatches
  <1>1. Inv /\ RequestIsReadAsAsked => SignatureMatches
    <2> SUFFICES ASSUME Inv, RequestIsReadAsAsked PROVE IsTheStorages(canonical_query_string(query))
      BY DEF SignatureMatches
    <2>1. PICK R : R = [name : Names, value : Seq(Bytes)]
      OBVIOUS
    <2>2. asked \in Seq(R) /\ DOMAIN asked = 1 .. Len(asked) /\ Len(asked) \in Nat
      BY <2>1 DEF Inv
    <2>3. PICK w : w = Pairs(query)
      OBVIOUS
    <2>4. /\ w \in Seq(PlainPairs) /\ Len(w) = Len(asked)
          /\ \A n \in 1 .. Len(asked) : w[n] = OnTheWire(asked[n])
      BY <2>1, <2>2, <2>3, WireIsPairs DEF Inv
    <2> DEFINE read == [n \in DOMAIN Params(query) |->
                           [name |-> SigV4(Params(query)[n].name),
                            value |-> SigV4(Params(query)[n].value)]]
               signed == Pairs(canonical_query_string(query))
    <2>6. read = [n \in 1 .. Len(asked) |->
                     [name |-> SigV4(asked[n].name), value |-> SigV4(asked[n].value)]]
      BY <2>2 DEF RequestIsReadAsAsked
    <2>7. \A t : SigV4(t) = encode_uri_component(t)
      BY DEF SigV4, SigV4Byte, encode_uri_component
    <2>8. ASSUME NEW n \in 1 .. Len(asked)
          PROVE  [name |-> SigV4(asked[n].name), value |-> SigV4(asked[n].value)] = w[n]
      <3>1. asked[n] \in R
        BY <2>2
      <3>2. asked[n].name \in Seq(Unreserved)
        BY <2>1, <3>1, NamesAssumption
      <3>3. SigV4(asked[n].name) = asked[n].name
        BY <2>7, <3>2, UnreservedIsVerbatim
      <3> QED BY <2>4, <2>7, <3>3 DEF OnTheWire
    <2> HIDE DEF read
    <2>9. read = w
      <3>1. read = [n \in 1 .. Len(asked) |-> w[n]]
        BY <2>6, <2>8
      <3>2. w = [n \in 1 .. Len(asked) |-> w[n]]
        BY <2>4, LenProperties
      <3> QED BY <3>1, <3>2
    <2>10. PICK s : s = Sorted(w)
      OBVIOUS
    <2>11. /\ s \in Seq(PlainPairs) /\ Len(s) = Len(w)
           /\ \E p \in Orders(w) : s = [n \in DOMAIN w |-> w[p[n]]]
           /\ \A n \in 1 .. Len(w) - 1 : ~Precedes(s[n + 1], s[n])
      BY <2>4, <2>10, SortedIsOrdered
    <2>12. canonical_query_string(query) = FlattenSeq(Parts(s))
      BY <2>3, <2>10 DEF canonical_query_string, Parts
    <2>14. signed = s
      BY <2>11, <2>12, PartsAreRead
    <2> HIDE DEF signed
    <2>15. ASSUME NEW n \in 1 .. Len(s) - 1
           PROVE  \/ Before(s[n].name, s[n + 1].name)
                  \/ s[n].name = s[n + 1].name /\ ~Before(s[n + 1].value, s[n].value)
      <3>1. n \in 1 .. Len(s) /\ n + 1 \in 1 .. Len(s) /\ n \in 1 .. Len(w) - 1
        BY <2>11
      <3>2. s[n] \in PlainPairs /\ s[n + 1] \in PlainPairs
        BY <2>11, <3>1
      <3>3. s[n].name \in Seq(Nat) /\ s[n + 1].name \in Seq(Nat)
        BY <3>2, PlainIsText
      <3>4. ~Precedes(s[n + 1], s[n])
        BY <2>11, <3>1
      <3>5. s[n].name = s[n + 1].name \/ Before(s[n].name, s[n + 1].name) \/ Before(s[n + 1].name, s[n].name)
        BY <3>3, BeforeIsTotal
      <3> QED BY <3>4, <3>5 DEF Precedes
    <2>16. \E p \in Orders(read) : signed = [n \in DOMAIN read |-> read[p[n]]]
      BY <2>9, <2>11, <2>14
    <2>17. \A n \in 1 .. Len(signed) - 1 :
              \/ Before(signed[n].name, signed[n + 1].name)
              \/ signed[n].name = signed[n + 1].name /\ ~Before(signed[n + 1].value, signed[n].value)
      BY <2>14, <2>15
    <2> QED BY <2>16, <2>17, Zenon DEF IsTheStorages, read, signed
  <1> QED BY <1>1, InvHolds, ReadAsAsked, PTL
=============================================================================
