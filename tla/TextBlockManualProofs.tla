----------------------- MODULE TextBlockManualProofs -----------------------
(***************************************************************************)
(* Proofs that the line processor of text-block does what its manual says, *)
(* for all texts, tags and command lines.                                  *)
(***************************************************************************)
EXTENDS TextBlockManual, TextBlockProofs

-----------------------------------------------------------------------------
(* Sequences.                                                              *)

\* A set of positions with the first one, and the next of each, has them all.
LEMMA AllPositions ==
  ASSUME NEW n \in Nat, NEW S, 0 \in S, \A k \in 1 .. n : k - 1 \in S => k \in S
  PROVE  \A k \in 0 .. n : k \in S
<1>. DEFINE Bad == {k \in 0 .. n : k \notin S}
<1>. SUFFICES ASSUME Bad # {} PROVE FALSE
  OBVIOUS
<1>1. PICK k \in Bad : \A j \in Bad : k <= j
  <2>1. Bad \subseteq Nat
    OBVIOUS
  <2>. HIDE DEF Bad
  <2>. QED
    BY <2>1, SmallestPosition
<1>2. k \in 1 .. n /\ k - 1 \in S
  BY <1>1
<1>. QED
  BY <1>1, <1>2

Associative(C) == \A x, y, z \in Seq(C) : (x \o y) \o z = x \o (y \o z)

LEMMA ConcatAssoc == \A C : Associative(C)
BY ConcatAssociative, ZenonT(40) DEF Associative

\* The texts FlattenSeq() runs through, one for each prefix of the sequence.
FlattenedBy(flat, s, C) ==
  /\ flat \in [0 .. Len(s) -> Seq(C)]
  /\ flat[0] = <<>>
  /\ \A k \in 1 .. Len(s) : flat[k] = flat[k - 1] \o s[k]

LEMMA FlattenedExists ==
  ASSUME NEW C, NEW s \in Seq(Seq(C))
  PROVE  \E flat : FlattenedBy(flat, s, C)
<1>. DEFINE Upto(m, f) == /\ f \in [0 .. m -> Seq(C)]
                          /\ f[0] = <<>>
                          /\ \A k \in 1 .. m : f[k] = f[k - 1] \o s[k]
            n == Len(s)
            S == {m \in 0 .. n : \E f : Upto(m, f)}
<1>1. n \in Nat /\ \A k \in 1 .. n : s[k] \in Seq(C)
  BY LenProperties, ElementOfSeq
<1>. HIDE DEF n
<1>2. 0 \in S
  <2>1. Upto(0, [k \in 0 .. 0 |-> <<>>])
    OBVIOUS
  <2>. HIDE DEF Upto
  <2>. QED
    BY <1>1, <2>1
<1>3. ASSUME NEW m \in 1 .. n, m - 1 \in S PROVE m \in S
  <2>1. PICK f : Upto(m - 1, f)
    BY <1>3
  <2>2. m - 1 \in 0 .. m - 1 /\ \A k \in 1 .. m - 1 : k \in 0 .. m - 1 /\ k - 1 \in 0 .. m - 1
    BY <1>1
  <2>. DEFINE last == f[m - 1] \o s[m]
              g == [k \in 0 .. m |-> IF k = m THEN last ELSE f[k]]
  <2>3. last \in Seq(C)
    BY <1>1, <2>1, <2>2, ConcatProperties
  <2>4. \A k \in 0 .. m : k # m => k \in 0 .. m - 1 /\ f[k] \in Seq(C)
    BY <1>1, <2>1
  <2>5. g \in [0 .. m -> Seq(C)]
    <3>. HIDE DEF last
    <3>. QED
      BY <2>3, <2>4
  <2>6. g[0] = <<>>
    BY <1>1, <2>1
  <2>g. \A k \in 0 .. m : g[k] = IF k = m THEN last ELSE f[k]
    OBVIOUS
  <2>7. ASSUME NEW k \in 1 .. m PROVE g[k] = g[k - 1] \o s[k]
    <3>1. k \in 0 .. m /\ k - 1 \in 0 .. m /\ k - 1 # m
      BY <1>1
    <3>2. g[k - 1] = f[k - 1] /\ g[k] = IF k = m THEN last ELSE f[k]
      <4>. HIDE DEF g, last
      <4>. QED
        BY <3>1, <2>g
    <3>3. k # m => k \in 1 .. m - 1
      BY <1>1
    <3>4. k # m => f[k] = f[k - 1] \o s[k]
      BY <3>3, <2>1
    <3>5. k = m => last = f[k - 1] \o s[k]
      OBVIOUS
    <3>. HIDE DEF g, last
    <3>. QED
      BY <3>2, <3>4, <3>5
  <2>8. Upto(m, g)
    <3>. HIDE DEF g
    <3>. QED
      BY <2>5, <2>6, <2>7
  <2>. HIDE DEF Upto, g
  <2>. QED
    BY <2>8, <1>1
<1>4. n \in S
  <2>. HIDE DEF S
  <2>1. \A k \in 0 .. n : k \in S
    BY <1>1, <1>2, <1>3, AllPositions
  <2>. QED
    BY <2>1, <1>1
<1>. QED
  BY <1>4 DEF FlattenedBy, n

\* FlattenSeq() of a sequence is the last of them.
LEMMA FlattenIs ==
  ASSUME NEW C, NEW s \in Seq(Seq(C)), NEW flat, FlattenedBy(flat, s, C)
  PROVE  FlattenSeq(s) = flat[Len(s)] /\ FlattenSeq(s) \in Seq(C)
<1>. DEFINE n == Len(s)
            Makes(g) == g = [k \in 1 .. n |-> IF k = 1 THEN s[k] ELSE g[k - 1] \o s[k]]
            made == CHOOSE g : Makes(g)
<1>1. n \in Nat /\ \A k \in 1 .. n : s[k] \in Seq(C)
  BY LenProperties, ElementOfSeq
<1>2. /\ flat \in [0 .. n -> Seq(C)] /\ flat[0] = <<>>
      /\ \A k \in 1 .. n : flat[k] = flat[k - 1] \o s[k]
  BY DEF FlattenedBy
<1>3. CASE n = 0
  <2>1. s = <<>>
    BY <1>3, EmptySeq
  <2>2. FlattenSeq(s) = s
    BY <1>3 DEF FlattenSeq
  <2>. QED
    BY <1>2, <1>3, <2>1, <2>2
<1>4. CASE n # 0
  <2>1. Makes([k \in 1 .. n |-> flat[k]])
    <3>. DEFINE g == [k \in 1 .. n |-> flat[k]]
    <3>1. ASSUME NEW k \in 1 .. n
          PROVE  g[k] = IF k = 1 THEN s[k] ELSE g[k - 1] \o s[k]
      <4>1. CASE k = 1
        <5>1. flat[k] = flat[k - 1] \o s[k] /\ s[k] \in Seq(C)
          BY <1>1, <1>2
        <5>2. k - 1 = 0
          BY <4>1
        <5>3. <<>> \o s[k] = s[k]
          BY <5>1, ConcatEmptySeq
        <5>4. flat[k] = s[k]
          BY <1>2, <5>1, <5>2, <5>3, Zenon
        <5>. QED
          BY <4>1, <5>4
      <4>2. CASE k # 1
        <5>1. k - 1 \in 1 .. n
          BY <1>1, <4>2
        <5>. QED
          BY <1>2, <4>2, <5>1
      <4>. QED
        BY <4>1, <4>2
    <3>2. g = [k \in 1 .. n |-> g[k]]
      OBVIOUS
    <3>. HIDE DEF g
    <3>3. Makes(g)
      BY <3>1, <3>2
    <3>. QED
      BY <3>3 DEF g
  <2>2. Makes(made)
    <3>. HIDE DEF Makes
    <3>. QED
      BY <2>1
  <2>3. FlattenSeq(s) = made[n]
    BY <1>4 DEF FlattenSeq
  <2>. HIDE DEF made
  <2>4. \A k \in 1 .. n : made[k] = IF k = 1 THEN s[k] ELSE made[k - 1] \o s[k]
    BY <2>2
  <2>. HIDE DEF Makes
  <2>. DEFINE S == {k \in 0 .. n : k = 0 \/ made[k] = flat[k]}
  <2>5. ASSUME NEW k \in 1 .. n, k - 1 \in S PROVE k \in S
    <3>1. CASE k = 1
      <4>1. flat[k] = flat[k - 1] \o s[k] /\ s[k] \in Seq(C)
        BY <1>1, <1>2
      <4>2. <<>> \o s[k] = s[k] /\ k - 1 = 0
        BY <3>1, <4>1, ConcatEmptySeq
      <4>3. flat[k] = s[k]
        BY <1>2, <4>1, <4>2, Zenon
      <4>4. made[k] = s[k]
        BY <2>4, <3>1
      <4>. QED
        BY <4>3, <4>4
    <3>2. CASE k # 1
      <4>1. made[k - 1] = flat[k - 1]
        BY <1>1, <2>5, <3>2
      <4>2. flat[k] = flat[k - 1] \o s[k]
        BY <1>2
      <4>3. made[k] = made[k - 1] \o s[k]
        BY <2>4, <3>2
      <4>4. made[k] = flat[k]
        BY <4>1, <4>2, <4>3, Zenon
      <4>. QED
        BY <4>4
    <3>. QED
      BY <3>1, <3>2
  <2>6. n \in S
    <3>1. 0 \in S
      BY <1>1
    <3>. HIDE DEF S
    <3>2. \A k \in 0 .. n : k \in S
      BY <1>1, <2>5, <3>1, AllPositions
    <3>. QED
      BY <1>1, <3>2
  <2>7. n \in 0 .. n
    BY <1>1
  <2>. QED
    BY <1>2, <1>4, <2>3, <2>6, <2>7
<1>. QED
  BY <1>3, <1>4

\* FlattenSeq() of a prefix is the one that belongs to it.
LEMMA FlattenPrefix ==
  ASSUME NEW C, NEW s \in Seq(Seq(C)), NEW flat, FlattenedBy(flat, s, C),
         NEW n \in 0 .. Len(s), NEW t, t = [k \in 1 .. n |-> s[k]]
  PROVE  FlattenSeq(t) = flat[n] /\ FlattenSeq(t) \in Seq(C)
<1>1. Len(s) \in Nat /\ \A k \in 1 .. Len(s) : s[k] \in Seq(C)
  BY LenProperties, ElementOfSeq
<1>2. n \in Nat /\ \A k \in 1 .. n : k \in 1 .. Len(s)
  BY <1>1
<1>3. t \in Seq(Seq(C)) /\ Len(t) = n
  <2>0. \A k \in 1 .. n : s[k] \in Seq(C)
    BY <1>1, <1>2
  <2>1. t \in [1 .. n -> Seq(C)]
    BY <2>0, Zenon
  <2>2. t \in UNION {[1 .. k -> Seq(C)] : k \in Nat}
    BY <1>2, <2>1, Zenon
  <2>3. t \in Seq(Seq(C))
    BY <2>2, SeqDef, Zenon
  <2>. QED
    BY <1>2, <2>1, <2>3, LenProperties
<1>. DEFINE g == [k \in 0 .. n |-> flat[k]]
<1>4. FlattenedBy(g, t, C)
  <2>0. /\ flat \in [0 .. Len(s) -> Seq(C)] /\ flat[0] = <<>>
        /\ \A k \in 1 .. Len(s) : flat[k] = flat[k - 1] \o s[k]
    BY DEF FlattenedBy
  <2>1. \A k \in 0 .. n : flat[k] \in Seq(C)
    <3>1. flat \in [0 .. Len(s) -> Seq(C)]
      BY <2>0
    <3>2. \A k \in 0 .. n : k \in 0 .. Len(s)
      BY <1>1
    <3>. QED
      BY <3>1, <3>2
  <2>2. g \in [0 .. n -> Seq(C)]
    BY <2>1, Zenon
  <2>4. g[0] = <<>>
    BY <1>2, <2>0
  <2>3. ASSUME NEW k \in 1 .. n PROVE g[k] = g[k - 1] \o t[k]
    <3>1. k \in 0 .. n /\ k - 1 \in 0 .. n /\ t[k] = s[k]
      BY <1>2
    <3>2. flat[k] = flat[k - 1] \o s[k]
      BY <1>2 DEF FlattenedBy
    <3>. QED
      BY <3>1, <3>2
  <2>. HIDE DEF g
  <2>. QED
    BY <1>3, <2>2, <2>3, <2>4 DEF FlattenedBy
<1>5. g[n] = flat[n]
  BY <1>2
<1>. HIDE DEF g
<1>. QED
  BY <1>3, <1>4, <1>5, FlattenIs

-----------------------------------------------------------------------------
(* The text and its lines.                                                 *)

\* Line i begins at LineStart[i] and holds the characters up to the next one.
Layout ==
  /\ Content \in Seq(Chars) /\ Len(Content) \in Nat
  /\ Len(input) \in Nat /\ DOMAIN input = 1 .. Len(input)
  /\ \A i \in 1 .. Len(input) + 1 : LineStart[i] \in Nat \ {0}
  /\ LineStart[1] = 1
  /\ LineStart[Len(input) + 1] = Len(Content) + 1
  /\ \A i \in 1 .. Len(input) :
        /\ input[i] \in Seq(Chars) /\ Len(input[i]) \in Nat \ {0}
        /\ LineStart[i + 1] = LineStart[i] + Len(input[i])
        /\ \A c \in 1 .. Len(input[i]) :
              Content[LineStart[i] + c - 1] = input[i][c]

\* What has been written stays where it is when text follows.
LEMMA FlattenedGrows ==
  ASSUME NEW C, NEW s \in Seq(Seq(C)), NEW flat, FlattenedBy(flat, s, C),
         NEW i \in 0 .. Len(s)
  PROVE  \A p \in 1 .. Len(flat[i]) : flat[Len(s)][p] = flat[i][p]
<1>. DEFINE n == Len(s)
            Kept(j) == /\ Len(flat[i]) <= Len(flat[j])
                       /\ \A p \in 1 .. Len(flat[i]) : flat[j][p] = flat[i][p]
            S == {j \in 0 .. n : j < i \/ Kept(j)}
<1>1. n \in Nat /\ \A k \in 1 .. n : s[k] \in Seq(C)
  BY LenProperties, ElementOfSeq
<1>2. /\ flat \in [0 .. n -> Seq(C)]
      /\ \A k \in 1 .. n : flat[k] = flat[k - 1] \o s[k]
  BY DEF FlattenedBy
<1>3. \A k \in 0 .. n : flat[k] \in Seq(C) /\ Len(flat[k]) \in Nat
  <2>1. \A k \in 0 .. n : flat[k] \in Seq(C)
    <3>1. flat \in [0 .. n -> Seq(C)]
      BY <1>2
    <3>. QED
      BY <3>1
  <2>. QED
    BY <2>1, LenProperties
<1>4. 0 \in S
  BY <1>1
<1>5. ASSUME NEW j \in 1 .. n, j - 1 \in S PROVE j \in S
  <2>1. CASE j < i
    BY <2>1
  <2>2. CASE j = i
    BY <1>3, <2>2
  <2>3. CASE j > i
    <3>1. Kept(j - 1) /\ j - 1 \in 0 .. n
      BY <1>1, <1>5, <2>3
    <3>. DEFINE x == flat[j - 1]
    <3>2. x \in Seq(C) /\ Len(x) \in Nat /\ s[j] \in Seq(C) /\ Len(s[j]) \in Nat
      BY <1>1, <1>3, <3>1, LenProperties
    <3>3. flat[j] = x \o s[j]
      BY <1>2
    <3>4. Len(flat[i]) <= Len(x) /\ \A p \in 1 .. Len(flat[i]) : x[p] = flat[i][p]
      BY <3>1
    <3>5. Len(flat[i]) \in Nat
      BY <1>3
    <3>. HIDE DEF x
    <3>6. /\ Len(x \o s[j]) = Len(x) + Len(s[j])
          /\ \A p \in 1 .. Len(x) + Len(s[j]) :
               (x \o s[j])[p] = IF p <= Len(x) THEN x[p] ELSE s[j][p - Len(x)]
      BY <3>2, ConcatProperties
    <3>. DEFINE y == x \o s[j]
    <3>7. /\ Len(y) = Len(x) + Len(s[j])
          /\ \A p \in 1 .. Len(x) + Len(s[j]) :
               y[p] = IF p <= Len(x) THEN x[p] ELSE s[j][p - Len(x)]
      BY <3>6
    <3>8. flat[j] = y
      BY <3>3
    <3>. HIDE DEF y
    <3>9. \A p \in 1 .. Len(flat[i]) : p \in 1 .. Len(x) + Len(s[j]) /\ p <= Len(x)
      BY <3>2, <3>4, <3>5
    <3>10. Len(flat[i]) <= Len(y)
      BY <3>2, <3>4, <3>5, <3>7
    <3>11. \A p \in 1 .. Len(flat[i]) : y[p] = flat[i][p]
      BY <3>4, <3>7, <3>9
    <3>. QED
      BY <3>8, <3>10, <3>11
  <2>. QED
    BY <1>1, <2>1, <2>2, <2>3
<1>6. n \in S
  <2>. HIDE DEF S
  <2>1. \A k \in 0 .. n : k \in S
    BY <1>1, <1>4, <1>5, AllPositions
  <2>. QED
    BY <1>1, <2>1
<1>. QED
  BY <1>1, <1>6

LEMMA TextLayout ==
  ASSUME input \in Seq(Lines)
  PROVE  Layout
<1>. DEFINE n == Len(input)
<1>1. n \in Nat /\ \A k \in 1 .. n : input[k] \in Lines
  BY LenProperties, ElementOfSeq
<1>2. \A k \in 1 .. n : input[k] \in Seq(Chars) /\ Len(input[k]) \in Nat \ {0}
  BY <1>1, EmptySeq DEF Lines
<1>3. input \in Seq(Seq(Chars))
  BY SeqMonotonic DEF Lines
<1>4. PICK flat : FlattenedBy(flat, input, Chars)
  BY <1>3, FlattenedExists
<1>5. /\ flat[0] = <<>>
      /\ \A k \in 1 .. n : flat[k] = flat[k - 1] \o input[k]
      /\ \A k \in 0 .. n : flat[k] \in Seq(Chars)
  <2>1. /\ flat[0] = <<>> /\ flat \in [0 .. n -> Seq(Chars)]
        /\ \A k \in 1 .. n : flat[k] = flat[k - 1] \o input[k]
    BY <1>4 DEF FlattenedBy
  <2>2. \A k \in 0 .. n : flat[k] \in Seq(Chars)
    <3>1. flat \in [0 .. n -> Seq(Chars)]
      BY <2>1
    <3>. QED
      BY <3>1
  <2>. QED
    BY <2>1, <2>2
<1>6. \A k \in 0 .. n : Len(flat[k]) \in Nat
  BY <1>5, LenProperties
<1>7. Content = flat[n] /\ Content \in Seq(Chars)
  BY <1>3, <1>4, FlattenIs DEF Content
<1>8. ASSUME NEW i \in 1 .. n + 1 PROVE LineStart[i] = Len(flat[i - 1]) + 1
  <2>1. i - 1 \in 0 .. n
    BY <1>1
  <2>. DEFINE t == SubSeq(input, 1, i - 1)
              u == [k \in 1 .. i - 1 |-> input[k]]
  <2>2. t = u
    <3>1. \A k \in 1 .. i - 1 : input[k] \in Seq(Chars)
      BY <1>1, <1>2
    <3>2. t \in Seq(Seq(Chars)) /\ Len(t) = i - 1 /\ \A k \in 1 .. i - 1 : t[k] = input[k]
      <4>1. /\ t \in Seq(Seq(Chars))
            /\ Len(t) = IF 1 <= i - 1 THEN (i - 1) - 1 + 1 ELSE 0
            /\ \A k \in 1 .. (i - 1) - 1 + 1 : t[k] = input[1 + k - 1]
        <5>1. i - 1 \in Int /\ 1 \in Int
          BY <2>1
        <5>. QED
          BY <3>1, <5>1, SubSeqProperties
      <4>. HIDE DEF t
      <4>2. i - 1 \in Nat /\ (i - 1) - 1 + 1 = i - 1 /\ \A k \in 1 .. i - 1 : 1 + k - 1 = k
        BY <2>1
      <4>. QED
        BY <4>1, <4>2
    <3>3. DOMAIN t = 1 .. i - 1 /\ t = [k \in 1 .. i - 1 |-> t[k]]
      <4>. HIDE DEF t
      <4>1. DOMAIN t = 1 .. i - 1 /\ t \in [1 .. i - 1 -> Seq(Chars)]
        BY <3>2, LenProperties
      <4>. QED
        BY <4>1
    <3>. HIDE DEF t
    <3>. QED
      BY <3>2, <3>3
  <2>3. FlattenSeq(u) = flat[i - 1]
    <3>. HIDE DEF t
    <3>. QED
      BY <1>3, <1>4, <2>1, FlattenPrefix
  <2>4. LineStart[i] = Len(FlattenSeq(t)) + 1
    BY DEF LineStart
  <2>. HIDE DEF t, u
  <2>. QED
    BY <2>2, <2>3, <2>4
<1>9. \A i \in 1 .. n + 1 : LineStart[i] \in Nat \ {0}
  <2>1. \A i \in 1 .. n + 1 : i - 1 \in 0 .. n
    BY <1>1
  <2>. QED
    BY <1>6, <1>8, <2>1
<1>10. LineStart[1] = 1
  <2>1. 1 \in 1 .. n + 1 /\ 1 - 1 = 0
    BY <1>1
  <2>2. Len(flat[0]) = 0
    BY <1>5, EmptySeq
  <2>. QED
    BY <1>8, <2>1, <2>2
<1>11. LineStart[n + 1] = Len(Content) + 1
  <2>1. n + 1 \in 1 .. n + 1 /\ (n + 1) - 1 = n
    BY <1>1
  <2>. QED
    BY <1>7, <1>8, <2>1
<1>12. ASSUME NEW i \in 1 .. n
       PROVE  /\ LineStart[i + 1] = LineStart[i] + Len(input[i])
              /\ \A c \in 1 .. Len(input[i]) :
                    Content[LineStart[i] + c - 1] = input[i][c]
  <2>. DEFINE x == flat[i - 1]
              y == input[i]
              z == x \o y
  <2>1. i - 1 \in 0 .. n /\ i \in 0 .. n /\ i \in 1 .. n + 1 /\ i + 1 \in 1 .. n + 1
        /\ (i + 1) - 1 = i
    BY <1>1
  <2>2. x \in Seq(Chars) /\ y \in Seq(Chars) /\ Len(x) \in Nat /\ Len(y) \in Nat
    BY <1>2, <1>5, <1>6, <2>1
  <2>3. flat[i] = z
    BY <1>5
  <2>4. LineStart[i] = Len(x) + 1 /\ LineStart[i + 1] = Len(flat[i]) + 1
    BY <1>8, <2>1
  <2>5. \A p \in 1 .. Len(flat[i]) : Content[p] = flat[i][p]
    BY <1>3, <1>4, <1>7, <2>1, FlattenedGrows
  <2>. HIDE DEF x, y
  <2>6. /\ Len(z) = Len(x) + Len(y)
        /\ \A p \in 1 .. Len(x) + Len(y) :
             z[p] = IF p <= Len(x) THEN x[p] ELSE y[p - Len(x)]
    BY <2>2, ConcatProperties
  <2>. HIDE DEF z
  <2>7. LineStart[i + 1] = LineStart[i] + Len(y)
    BY <2>2, <2>3, <2>4, <2>6
  <2>8. ASSUME NEW c \in 1 .. Len(y)
        PROVE  Content[LineStart[i] + c - 1] = y[c]
    <3>1. /\ LineStart[i] + c - 1 = Len(x) + c
          /\ Len(x) + c \in 1 .. Len(x) + Len(y)
          /\ ~(Len(x) + c <= Len(x))
          /\ (Len(x) + c) - Len(x) = c
      BY <2>2, <2>4
    <3>2. z[Len(x) + c] = y[c]
      BY <2>6, <3>1
    <3>3. Content[Len(x) + c] = z[Len(x) + c]
      BY <2>3, <2>5, <2>6, <3>1
    <3>. QED
      BY <3>1, <3>2, <3>3
  <2>. QED
    BY <2>7, <2>8 DEF y
<1>. QED
  BY <1>1, <1>2, <1>7, <1>9, <1>10, <1>11, <1>12, LenProperties DEF Layout

\* A later line begins behind an earlier one.
LEMMA LineOrder ==
  ASSUME Layout, NEW i \in 1 .. Len(input) + 1, NEW j \in 1 .. Len(input) + 1,
         i < j
  PROVE  /\ i \in 1 .. Len(input) /\ i + 1 \in 1 .. Len(input) + 1
         /\ LineStart[i] < LineStart[i + 1] /\ LineStart[i + 1] <= LineStart[j]
         /\ LineStart[i] < LineStart[j]
<1>. DEFINE n == Len(input)
            S == {k \in 0 .. n + 1 : k <= i \/ LineStart[i + 1] <= LineStart[k]}
<1>1. n \in Nat /\ i \in 1 .. n /\ i + 1 \in 1 .. n + 1
  BY DEF Layout
<1>2. /\ \A k \in 1 .. n + 1 : LineStart[k] \in Nat
      /\ \A k \in 1 .. n : LineStart[k] < LineStart[k + 1]
  <2>1. \A k \in 1 .. n + 1 : LineStart[k] \in Nat
    BY DEF Layout
  <2>2. \A k \in 1 .. n : LineStart[k + 1] = LineStart[k] + Len(input[k])
                          /\ Len(input[k]) \in Nat \ {0}
    BY DEF Layout
  <2>3. \A k \in 1 .. n : k \in 1 .. n + 1
    BY <1>1
  <2>. QED
    BY <2>1, <2>2, <2>3
<1>. HIDE DEF n
<1>3. 0 \in S
  BY <1>1
<1>4. ASSUME NEW k \in 1 .. n + 1, k - 1 \in S PROVE k \in S
  <2>1. CASE k <= i + 1
    BY <1>1, <1>2, <2>1
  <2>2. CASE k > i + 1
    <3>1. LineStart[i + 1] <= LineStart[k - 1]
      BY <1>1, <1>4, <2>2
    <3>2. k - 1 \in 1 .. n /\ (k - 1) + 1 = k /\ k - 1 \in 1 .. n + 1
      BY <1>1, <2>2
    <3>3. LineStart[k - 1] < LineStart[k]
      BY <1>2, <3>2
    <3>. QED
      BY <1>1, <1>2, <3>1, <3>2, <3>3
  <2>. QED
    BY <1>1, <2>1, <2>2
<1>5. j \in S
  <2>. HIDE DEF S
  <2>0. n + 1 \in Nat
    BY <1>1
  <2>1. \A k \in 0 .. n + 1 : k \in S
    BY <2>0, <1>3, <1>4, AllPositions
  <2>. QED
    BY <1>1, <2>1 DEF n
<1>6. LineStart[i + 1] <= LineStart[j]
  BY <1>5, <1>1
<1>. QED
  BY <1>1, <1>2, <1>6 DEF n

\* A piece of a line is a piece of the text.
LEMMA LineSlice ==
  ASSUME Layout, NEW i \in 1 .. Len(input), NEW from \in 1 .. Len(input[i]) + 1,
         NEW to \in from .. Len(input[i]) + 1
  PROVE  SubSeq(input[i], from, to - 1)
           = Slice(LineStart[i] + from - 1, LineStart[i] + to - 1)
<1>. DEFINE line == input[i]
            start == LineStart[i]
            len == Len(line)
            x == SubSeq(line, from, to - 1)
            y == SubSeq(Content, start + from - 1, (start + to - 1) - 1)
<1>1. /\ line \in Seq(Chars) /\ len \in Nat /\ start \in Nat
      /\ \A c \in 1 .. len : Content[start + c - 1] = line[c]
  <2>1. i \in 1 .. Len(input) + 1
    BY DEF Layout
  <2>. QED
    BY <2>1 DEF Layout
<1>2. \A c \in 1 .. len : line[c] \in Chars
  BY <1>1, ElementOfSeq
<1>. HIDE DEF line, start, len
<1>3. \A c \in from .. to - 1 : line[c] \in Chars
  BY <1>1, <1>2 DEF len, line
<1>4. /\ from \in Nat /\ to \in Nat /\ from >= 1 /\ from <= to /\ to <= len + 1
      /\ from \in Int /\ to - 1 \in Int
      /\ start + from - 1 \in Int /\ (start + to - 1) - 1 \in Int
  BY <1>1 DEF len, line
<1>5. \A c \in start + from - 1 .. (start + to - 1) - 1 : Content[c] \in Chars
  <2>. SUFFICES ASSUME NEW c \in start + from - 1 .. (start + to - 1) - 1
                PROVE  Content[c] \in Chars
    OBVIOUS
  <2>1. c - start + 1 \in from .. to - 1 /\ c - start + 1 \in 1 .. len
        /\ start + (c - start + 1) - 1 = c
    BY <1>1, <1>4
  <2>. QED
    BY <1>1, <1>3, <2>1
<1>6. /\ x \in Seq(Chars) /\ Len(x) = IF from <= to - 1 THEN to - 1 - from + 1 ELSE 0
      /\ \A k \in 1 .. to - 1 - from + 1 : x[k] = line[from + k - 1]
  BY <1>3, <1>4, SubSeqProperties
<1>7. /\ y \in Seq(Chars)
      /\ Len(y) = IF start + from - 1 <= (start + to - 1) - 1
                    THEN (start + to - 1) - 1 - (start + from - 1) + 1 ELSE 0
      /\ \A k \in 1 .. (start + to - 1) - 1 - (start + from - 1) + 1 :
            y[k] = Content[start + from - 1 + k - 1]
  <2>. DEFINE a == start + from - 1
              b == (start + to - 1) - 1
  <2>1. a \in Int /\ b \in Int /\ \A c \in a .. b : Content[c] \in Chars
    BY <1>4, <1>5
  <2>2. y = SubSeq(Content, a, b)
    OBVIOUS
  <2>. HIDE DEF a, b, y
  <2>3. /\ y \in Seq(Chars)
        /\ Len(y) = IF a <= b THEN b - a + 1 ELSE 0
        /\ \A k \in 1 .. b - a + 1 : y[k] = Content[a + k - 1]
    BY <2>1, <2>2, SubSeqProperties
  <2>. QED
    BY <2>3 DEF a, b
<1>. HIDE DEF x, y
<1>8. Len(x) = to - from /\ Len(y) = to - from
  BY <1>1, <1>4, <1>6, <1>7
<1>9. ASSUME NEW k \in 1 .. Len(x) PROVE x[k] = y[k]
  <2>1. /\ k \in 1 .. to - 1 - from + 1
        /\ k \in 1 .. (start + to - 1) - 1 - (start + from - 1) + 1
        /\ from + k - 1 \in 1 .. len
        /\ start + from - 1 + k - 1 = start + (from + k - 1) - 1
    BY <1>1, <1>4, <1>8
  <2>. QED
    BY <1>1, <1>6, <1>7, <2>1
<1>10. x = y
  BY <1>6, <1>7, <1>8, <1>9, SeqEqual
<1>. QED
  <2>1. x = SubSeq(input[i], from, to - 1)
    BY DEF x, line
  <2>2. y = SubSeq(Content, LineStart[i] + from - 1, (LineStart[i] + to - 1) - 1)
    BY DEF y, start
  <2>3. y = Slice(LineStart[i] + from - 1, LineStart[i] + to - 1)
    BY <2>2 DEF Slice
  <2>. QED
    BY <1>10, <2>1, <2>3, Zenon

-----------------------------------------------------------------------------
(* Markers and the blocks behind a position.                               *)

\* Markers are not empty, lie in the text, and begin at different places.
MarkersWithin(markers, size) ==
  /\ \A m \in markers : /\ m.from \in Nat \ {0} /\ m.to \in Nat
                        /\ m.from < m.to /\ m.to <= size + 1
  /\ \A m, n \in markers : m.from = n.from => m = n

LEMMA FirstExists ==
  ASSUME NEW size \in Nat, NEW markers, MarkersWithin(markers, size), NEW p,
         From(markers, p) # {}
  PROVE  /\ First(From(markers, p)) \in From(markers, p)
         /\ First(From(markers, p)) \in markers
         /\ \A n \in From(markers, p) : First(From(markers, p)).from <= n.from
<1>. DEFINE F == From(markers, p)
            S == {m.from : m \in F}
<1>1. F \subseteq markers /\ F # {}
  BY DEF From
<1>. HIDE DEF F
<1>2. S \subseteq Nat /\ S # {}
  BY <1>1 DEF MarkersWithin
<1>3. \E s \in S : \A t \in S : s <= t
  <2>. HIDE DEF S
  <2>. QED
    BY <1>2, SmallestPosition
<1>4. \E m \in F : \A n \in F : m.from <= n.from
  BY <1>3
<1>5. First(F) \in F /\ \A n \in F : First(F).from <= n.from
  BY <1>4 DEF First
<1>. QED
  BY <1>1, <1>5 DEF F

LEMMA FirstIs ==
  ASSUME NEW size \in Nat, NEW markers, MarkersWithin(markers, size), NEW p,
         NEW m \in From(markers, p), \A n \in From(markers, p) : m.from <= n.from
  PROVE  First(From(markers, p)) = m
<1>. DEFINE f == First(From(markers, p))
<1>1. f \in From(markers, p) /\ f \in markers /\ f.from <= m.from
  BY FirstExists
<1>2. m.from <= f.from /\ m \in markers
  BY <1>1 DEF From
<1>. HIDE DEF f
<1>3. f.from = m.from
  BY <1>1, <1>2 DEF MarkersWithin
<1>4. f = m
  BY <1>1, <1>2, <1>3 DEF MarkersWithin
<1>. QED
  BY <1>4 DEF f

\* The tags of a text, or the lines that hold them.
LEMMA MarkersOfText ==
  ASSUME Layout, NEW tag \in Seq(Chars), tag # <<>>
  PROVE  MarkersWithin(Markers(tag), Len(Content))
<1>1. Len(tag) \in Nat \ {0} /\ Len(Content) \in Nat
  BY EmptySeq DEF Layout
<1>2. MarkersWithin(TagMarkers(tag), Len(Content))
  <2>1. \A i \in Matches(Content, 1, tag) :
           i \in Nat \ {0} /\ i + Len(tag) <= Len(Content) + 1
    BY <1>1 DEF Matches
  <2>2. \A m \in TagMarkers(tag) : \E i \in Matches(Content, 1, tag) :
           m.from = i /\ m.to = i + Len(tag) /\ m = [from |-> i, to |-> i + Len(tag)]
    BY DEF TagMarkers
  <2>. QED
    BY <1>1, <2>1, <2>2 DEF MarkersWithin
<1>3. MarkersWithin(LineMarkers(tag), Len(Content))
  <2>1. \A m \in LineMarkers(tag) : \E i \in 1 .. Len(input) :
           m.from = LineStart[i] /\ m.to = LineStart[i + 1]
           /\ m = [from |-> LineStart[i], to |-> LineStart[i + 1]]
    <3>1. DOMAIN input = 1 .. Len(input)
      OBVIOUS
    <3>. QED
      BY <3>1 DEF LineMarkers
  <2>2. ASSUME NEW i \in 1 .. Len(input)
        PROVE  /\ LineStart[i] \in Nat \ {0} /\ LineStart[i + 1] \in Nat
               /\ LineStart[i] < LineStart[i + 1]
               /\ LineStart[i + 1] <= Len(Content) + 1
    <3>1. /\ Len(input) \in Nat /\ i \in 1 .. Len(input) + 1
          /\ i + 1 \in 1 .. Len(input) + 1 /\ i < i + 1
          /\ Len(input) + 1 \in 1 .. Len(input) + 1
      BY DEF Layout
    <3>2. LineStart[i] < LineStart[i + 1]
      BY <3>1, LineOrder
    <3>3. LineStart[i + 1] <= Len(Content) + 1
      <4>1. LineStart[Len(input) + 1] = Len(Content) + 1
        BY DEF Layout
      <4>2. CASE i = Len(input)
        BY <1>1, <4>1, <4>2
      <4>3. CASE i # Len(input)
        <5>1. i + 1 < Len(input) + 1
          BY <3>1, <4>3
        <5>2. LineStart[i + 1] < LineStart[Len(input) + 1]
          BY <3>1, <5>1, LineOrder
        <5>3. LineStart[i + 1] \in Nat
          BY <3>1 DEF Layout
        <5>. QED
          BY <1>1, <4>1, <5>2, <5>3
      <4>. QED
        BY <4>2, <4>3
    <3>. QED
      BY <3>1, <3>2, <3>3 DEF Layout
  <2>3. ASSUME NEW i \in 1 .. Len(input), NEW j \in 1 .. Len(input),
               LineStart[i] = LineStart[j]
        PROVE  i = j
    <3>1. /\ i \in 1 .. Len(input) + 1 /\ j \in 1 .. Len(input) + 1
          /\ LineStart[i] \in Nat /\ LineStart[j] \in Nat
      BY <2>2 DEF Layout
    <3>2. i < j => LineStart[i] < LineStart[j]
      BY <3>1, LineOrder
    <3>3. j < i => LineStart[j] < LineStart[i]
      BY <3>1, LineOrder
    <3>. QED
      BY <2>3, <3>1, <3>2, <3>3
  <2>4. \A m \in LineMarkers(tag) :
           m.from \in Nat \ {0} /\ m.to \in Nat /\ m.from < m.to
           /\ m.to <= Len(Content) + 1
    BY <2>1, <2>2
  <2>5. ASSUME NEW m \in LineMarkers(tag), NEW k \in LineMarkers(tag),
               m.from = k.from
        PROVE  m = k
    <3>1. PICK i \in 1 .. Len(input) :
             m.from = LineStart[i] /\ m = [from |-> LineStart[i], to |-> LineStart[i + 1]]
      BY <2>1
    <3>2. PICK j \in 1 .. Len(input) :
             k.from = LineStart[j] /\ k = [from |-> LineStart[j], to |-> LineStart[j + 1]]
      BY <2>1
    <3>3. LineStart[i] = LineStart[j]
      BY <2>5, <3>1, <3>2
    <3>4. i = j
      BY <2>3, <3>3
    <3>. QED
      BY <3>1, <3>2, <3>4
  <2>. QED
    BY <2>4, <2>5 DEF MarkersWithin
<1>. QED
  BY <1>2, <1>3 DEF Markers

\* The end marker of a block lies in the text, behind its begin marker.
LEMMA EndMarkerType ==
  ASSUME NEW size \in Nat, NEW begins, NEW ends, NEW same \in BOOLEAN,
         MarkersWithin(begins, size), MarkersWithin(ends, size),
         NEW b \in begins
  PROVE  LET e == EndMarker(b, ends, same, size)
         IN  /\ e.from \in Nat /\ e.to \in Nat
             /\ b.to <= e.from /\ e.from <= e.to /\ e.to <= size + 1
<1>. DEFINE e == EndMarker(b, ends, same, size)
<1>1. b.to \in Nat /\ b.to <= size + 1
  BY DEF MarkersWithin
<1>2. CASE same
  BY <1>1, <1>2 DEF EndMarker, Point
<1>3. CASE ~same /\ From(ends, b.to) = {}
  <2>1. e = Point(size + 1)
    BY <1>3 DEF EndMarker
  <2>. QED
    BY <1>1, <2>1 DEF Point
<1>4. CASE ~same /\ From(ends, b.to) # {}
  <2>1. e = First(From(ends, b.to))
    BY <1>4 DEF EndMarker
  <2>2. e \in From(ends, b.to) /\ e \in ends
    BY <1>4, <2>1, FirstExists
  <2>. HIDE DEF e
  <2>3. e.from >= b.to
    BY <2>2 DEF From
  <2>4. e.from \in Nat /\ e.to \in Nat /\ e.from < e.to /\ e.to <= size + 1
    BY <2>2 DEF MarkersWithin
  <2>5. e.from <= e.to /\ b.to <= e.from
    BY <1>1, <2>3, <2>4
  <2>. QED
    BY <2>4, <2>5 DEF e
<1>. QED
  BY <1>2, <1>3, <1>4

Interval(size) == [from : 1 .. size + 1, to : 1 .. size + 1]

\* The first block behind a position, and where the search goes on behind it.
BlockAt(begins, ends, same, include, size, p) ==
  Between(First(From(begins, p)),
          EndMarker(First(From(begins, p)), ends, same, size), include)

BehindBlock(begins, ends, same, size, p) ==
  EndMarker(First(From(begins, p)), ends, same, size).to

LEMMA BlockAtType ==
  ASSUME NEW size \in Nat, NEW begins, NEW ends, NEW same \in BOOLEAN, NEW include,
         MarkersWithin(begins, size), MarkersWithin(ends, size),
         NEW p \in 1 .. size + 1, From(begins, p) # {}
  PROVE  /\ BlockAt(begins, ends, same, include, size, p) \in Interval(size)
         /\ BehindBlock(begins, ends, same, size, p) \in p + 1 .. size + 1
<1>. DEFINE b == First(From(begins, p))
            e == EndMarker(b, ends, same, size)
<1>1. b \in From(begins, p) /\ b \in begins
  BY FirstExists
<1>. HIDE DEF b
<1>2. b.from >= p /\ b.from \in Nat /\ b.to \in Nat /\ b.from < b.to
  BY <1>1 DEF From, MarkersWithin
<1>b. b.from \in 1 .. size + 1 /\ b.to \in 1 .. size + 1
  BY <1>1 DEF MarkersWithin
<1>3. /\ e.from \in Nat /\ e.to \in Nat
      /\ b.to <= e.from /\ e.from <= e.to /\ e.to <= size + 1
  BY <1>1, EndMarkerType
<1>. HIDE DEF e
<1>4. Between(b, e, include) \in Interval(size)
  <2>1. e.from \in 1 .. size + 1 /\ e.to \in 1 .. size + 1
    BY <1>2, <1>3
  <2>. QED
    BY <1>b, <2>1 DEF Between, Interval
<1>5. e.to \in p + 1 .. size + 1
  BY <1>2, <1>3
<1>. QED
  BY <1>4, <1>5 DEF b, e, BlockAt, BehindBlock

\* BlocksBehind does what its recursive definition says.
LEMMA BlocksRecursion ==
  ASSUME NEW size \in Nat, NEW begins, NEW ends, NEW same \in BOOLEAN, NEW include,
         MarkersWithin(begins, size), MarkersWithin(ends, size)
  PROVE  LET blocks == BlocksBehind(begins, ends, same, include, size)
         IN  \A p \in 1 .. size + 1 :
                /\ blocks[p] \in Seq(Interval(size))
                /\ blocks[p] =
                     IF From(begins, p) = {} THEN <<>>
                     ELSE <<BlockAt(begins, ends, same, include, size, p)>>
                            \o blocks[BehindBlock(begins, ends, same, size, p)]
<1>. DEFINE at(p) == BlockAt(begins, ends, same, include, size, p)
            behind(p) == BehindBlock(begins, ends, same, size, p)
            Value(f, p) == IF From(begins, p) = {} THEN <<>>
                           ELSE <<at(p)>> \o f[behind(p)]
            Upto(m, f) == /\ f \in [m .. size + 1 -> Seq(Interval(size))]
                          /\ \A p \in m .. size + 1 : f[p] = Value(f, p)
            Makes(f) == f = [p \in 1 .. size + 1 |-> Value(f, p)]
            blocks == CHOOSE f : Makes(f)
<1>1. \A p \in 1 .. size + 1 : From(begins, p) # {} =>
         at(p) \in Interval(size) /\ behind(p) \in p + 1 .. size + 1
  BY BlockAtType
<1>2. BlocksBehind(begins, ends, same, include, size) = blocks
  BY DEF BlocksBehind, BlockAt, BehindBlock
<1>. HIDE DEF at, behind
<1>3. \E f : Upto(1, f)
  <2>. DEFINE S == {k \in 0 .. size + 1 : \E f : Upto(size + 2 - k, f)}
  <2>1. 0 \in S
    <3>1. size + 2 - 0 = size + 2 /\ \A p \in size + 2 .. size + 1 : FALSE
      OBVIOUS
    <3>2. Upto(size + 2, [p \in size + 2 .. size + 1 |-> <<>>])
      BY <3>1
    <3>. HIDE DEF Upto
    <3>. QED
      BY <3>1, <3>2
  <2>2. ASSUME NEW k \in 1 .. size + 1, k - 1 \in S PROVE k \in S
    <3>. DEFINE m == size + 2 - k
    <3>1. m \in 1 .. size + 1 /\ size + 2 - (k - 1) = m + 1
      OBVIOUS
    <3>2. PICK f : Upto(m + 1, f)
      BY <2>2, <3>1
    <3>. HIDE DEF m
    <3>3. f \in [m + 1 .. size + 1 -> Seq(Interval(size))]
      BY <3>2
    <3>. DEFINE v == Value(f, m)
                g == [p \in m .. size + 1 |-> IF p = m THEN v ELSE f[p]]
    <3>4. v \in Seq(Interval(size))
      <4>1. CASE From(begins, m) = {}
        BY <4>1
      <4>2. CASE From(begins, m) # {}
        <5>1. at(m) \in Interval(size) /\ behind(m) \in m + 1 .. size + 1
          BY <1>1, <3>1, <4>2
        <5>2. f[behind(m)] \in Seq(Interval(size))
          BY <3>3, <5>1
        <5>3. <<at(m)>> \in Seq(Interval(size))
          BY <5>1
        <5>4. <<at(m)>> \o f[behind(m)] \in Seq(Interval(size))
          BY <5>2, <5>3, ConcatProperties
        <5>. QED
          BY <4>2, <5>4
      <4>. QED
        BY <4>1, <4>2
    <3>. HIDE DEF v
    <3>5. \A p \in m .. size + 1 : p # m => p \in m + 1 .. size + 1
      BY <3>1
    <3>6. g \in [m .. size + 1 -> Seq(Interval(size))]
      <4>1. \A p \in m .. size + 1 : p # m => f[p] \in Seq(Interval(size))
        BY <3>3, <3>5
      <4>. QED
        BY <3>4, <4>1
    <3>7. \A p \in m .. size + 1 : g[p] = IF p = m THEN v ELSE f[p]
      OBVIOUS
    <3>. HIDE DEF g
    <3>8. ASSUME NEW p \in m .. size + 1 PROVE g[p] = Value(g, p)
      <4>1. Value(g, p) = Value(f, p)
        <5>1. CASE From(begins, p) = {}
          BY <5>1
        <5>2. CASE From(begins, p) # {}
          <6>1. p \in 1 .. size + 1
            BY <3>1
          <6>2. behind(p) \in p + 1 .. size + 1
            BY <1>1, <5>2, <6>1
          <6>3. behind(p) \in m .. size + 1 /\ behind(p) # m
            BY <3>1, <6>1, <6>2
          <6>4. g[behind(p)] = f[behind(p)]
            BY <3>7, <6>3
          <6>. QED
            BY <5>2, <6>4, Zenon
        <5>. QED
          BY <5>1, <5>2
      <4>2. CASE p = m
        <5>1. g[p] = v
          BY <3>7, <4>2
        <5>. QED
          BY <4>1, <4>2, <5>1, Zenon DEF v
      <4>3. CASE p # m
        <5>1. p \in m + 1 .. size + 1
          BY <3>5, <4>3
        <5>2. f[p] = Value(f, p)
          BY <3>2, <5>1
        <5>3. g[p] = f[p]
          BY <3>7, <4>3
        <5>. HIDE DEF Value
        <5>. QED
          BY <4>1, <5>2, <5>3, Zenon
      <4>. QED
        BY <4>2, <4>3
    <3>9. Upto(m, g)
      <4>. HIDE DEF Value
      <4>. QED
        BY <3>6, <3>8, Zenon
    <3>. HIDE DEF Upto
    <3>. QED
      BY <3>9 DEF m
  <2>3. size + 1 \in S
    <3>. HIDE DEF S
    <3>1. size + 1 \in Nat /\ size + 1 \in 0 .. size + 1
      OBVIOUS
    <3>2. \A k \in 0 .. size + 1 : k \in S
      BY <2>1, <2>2, <3>1, AllPositions
    <3>. QED
      BY <3>1, <3>2
  <2>4. size + 2 - (size + 1) = 1
    OBVIOUS
  <2>. HIDE DEF Upto
  <2>. QED
    BY <2>3, <2>4
<1>4. PICK f : Upto(1, f)
  BY <1>3, Zenon
<1>5. Makes(f)
  <2>1. f \in [1 .. size + 1 -> Seq(Interval(size))] /\ \A p \in 1 .. size + 1 : f[p] = Value(f, p)
    BY <1>4, Zenon
  <2>. HIDE DEF Value
  <2>2. f = [p \in 1 .. size + 1 |-> f[p]]
    BY <2>1
  <2>. QED
    BY <2>1, <2>2
<1>6. Makes(blocks)
  <2>. HIDE DEF Makes
  <2>. QED
    BY <1>5
<1>. HIDE DEF blocks
<1>7. \A p \in 1 .. size + 1 : blocks[p] = Value(blocks, p)
  <2>. HIDE DEF Value
  <2>. QED
    BY <1>6
<1>8. \A p \in 1 .. size + 1 : blocks[p] \in Seq(Interval(size))
  <2>. DEFINE S == {k \in 0 .. size + 1 :
                      \A p \in size + 2 - k .. size + 1 : blocks[p] \in Seq(Interval(size))}
  <2>1. 0 \in S
    OBVIOUS
  <2>2. ASSUME NEW k \in 1 .. size + 1, k - 1 \in S PROVE k \in S
    <3>. DEFINE m == size + 2 - k
    <3>1. m \in 1 .. size + 1 /\ size + 2 - (k - 1) = m + 1
      OBVIOUS
    <3>2. \A p \in m + 1 .. size + 1 : blocks[p] \in Seq(Interval(size))
      BY <2>2, <3>1
    <3>. HIDE DEF m
    <3>3. blocks[m] \in Seq(Interval(size))
      <4>1. CASE From(begins, m) = {}
        <5>1. blocks[m] = Value(blocks, m)
          BY <1>7, <3>1, Zenon
        <5>2. blocks[m] = <<>>
          BY <4>1, <5>1, Zenon
        <5>. QED
          BY <5>2
      <4>2. CASE From(begins, m) # {}
        <5>1. at(m) \in Interval(size) /\ behind(m) \in m + 1 .. size + 1
          BY <1>1, <3>1, <4>2
        <5>2. blocks[behind(m)] \in Seq(Interval(size)) /\ <<at(m)>> \in Seq(Interval(size))
          BY <3>2, <5>1
        <5>3. <<at(m)>> \o blocks[behind(m)] \in Seq(Interval(size))
          BY <5>2, ConcatProperties
        <5>4. blocks[m] = <<at(m)>> \o blocks[behind(m)]
          BY <1>7, <3>1, <4>2
        <5>. QED
          BY <5>3, <5>4, Zenon
      <4>. QED
        BY <4>1, <4>2
    <3>4. \A p \in m .. size + 1 : p = m \/ p \in m + 1 .. size + 1
      BY <3>1
    <3>5. \A p \in m .. size + 1 : blocks[p] \in Seq(Interval(size))
      BY <3>2, <3>3, <3>4
    <3>. QED
      BY <3>5 DEF m
  <2>3. size + 1 \in S
    <3>. HIDE DEF S
    <3>1. size + 1 \in Nat /\ size + 1 \in 0 .. size + 1
      OBVIOUS
    <3>2. \A k \in 0 .. size + 1 : k \in S
      BY <2>1, <2>2, <3>1, AllPositions
    <3>. QED
      BY <3>1, <3>2
  <2>4. size + 2 - (size + 1) = 1
    OBVIOUS
  <2>. QED
    BY <2>3, <2>4
<1>. QED
  BY <1>2, <1>7, <1>8, Zenon DEF at, behind

-----------------------------------------------------------------------------
(* The search for tags, from left to right.                                *)

TagsGiven == ~TagsIgnored /\ arg.begin # NoTag

\* What the lemmas need to know of a text with tags.
TagText ==
  /\ Layout /\ TagsGiven
  /\ SameMarkers \in BOOLEAN /\ arg.include \in BOOLEAN /\ arg.full \in BOOLEAN
  /\ MarkersWithin(BeginMarkers, Len(Content))
  /\ MarkersWithin(EndMarkers, Len(Content))

LEMMA TextOfTags ==
  ASSUME TypeOK, TagsGiven
  PROVE  TagText
<1>1. Layout
  BY TextLayout DEF TypeOK
<1>2. arg.begin \in Seq(Chars) /\ arg.begin # <<>> /\ arg.end \in Seq(Chars)
      /\ arg.include \in BOOLEAN /\ arg.full \in BOOLEAN
  BY DEF TypeOK, CommandLine, Tags, TagsGiven, NoTag
<1>3. NormalisedEndTag \in Seq(Chars) /\ NormalisedEndTag # <<>>
  BY <1>2 DEF NormalisedEndTag, NoTag
<1>4. MarkersWithin(BeginMarkers, Len(Content))
  BY <1>1, <1>2, MarkersOfText DEF BeginMarkers
<1>5. MarkersWithin(EndMarkers, Len(Content))
  BY <1>1, <1>3, MarkersOfText DEF EndMarkers
<1>. QED
  BY <1>1, <1>2, <1>4, <1>5 DEF TagText, SameMarkers

\* The blocks behind each position of the text.
Following == BlocksBehind(BeginMarkers, EndMarkers, SameMarkers, arg.include,
                          Len(Content))
FirstBegin(q) == First(From(BeginMarkers, q))
FirstEnd(q) == EndMarker(FirstBegin(q), EndMarkers, SameMarkers, Len(Content))

\* After k blocks those behind q are left.
Left(k, q) ==
  /\ k \in Nat /\ q \in 1 .. Len(Content) + 1
  /\ Len(Blocks) = k + Len(Following[q])
  /\ \A j \in 1 .. Len(Following[q]) : Blocks[k + j] = Following[q][j]

\* The search is at a position, behind k blocks: the next begin marker is the
\* one of block k + 1; within block k + 1: the next end marker is its own.
SearchBegin(k, position) ==
  \E q : Left(k, q) /\ From(BeginMarkers, q) = From(BeginMarkers, position)

SearchEnd(k, position) ==
  \E q : /\ Left(k, q) /\ From(BeginMarkers, q) # {} /\ ~SameMarkers
         /\ From(EndMarkers, FirstBegin(q).to) = From(EndMarkers, position)

LEMMA BlocksAreTagBlocks ==
  ASSUME TagText
  PROVE  /\ Blocks = Following[1]
         /\ \A q \in 1 .. Len(Content) + 1 :
               /\ Following[q] \in Seq(Interval(Len(Content))) /\ Len(Following[q]) \in Nat
               /\ From(BeginMarkers, q) = {} => Following[q] = <<>>
               /\ From(BeginMarkers, q) # {} =>
                    /\ Between(FirstBegin(q), FirstEnd(q), arg.include)
                         \in Interval(Len(Content))
                    /\ FirstEnd(q).to \in 1 .. Len(Content) + 1
                    /\ Following[q] = <<Between(FirstBegin(q), FirstEnd(q), arg.include)>>
                                        \o Following[FirstEnd(q).to]
<1>1. /\ Len(Content) \in Nat /\ SameMarkers \in BOOLEAN
      /\ MarkersWithin(BeginMarkers, Len(Content))
      /\ MarkersWithin(EndMarkers, Len(Content))
  BY DEF TagText, Layout
<1>2. Blocks = Following[1]
  BY DEF Blocks, TagBlocks, Following, TagText, TagsGiven
<1>3. ASSUME NEW q \in 1 .. Len(Content) + 1
      PROVE  /\ Following[q] \in Seq(Interval(Len(Content)))
             /\ Following[q] =
                  IF From(BeginMarkers, q) = {} THEN <<>>
                  ELSE <<Between(FirstBegin(q), FirstEnd(q), arg.include)>>
                         \o Following[FirstEnd(q).to]
  <2>. DEFINE size == Len(Content)
  <2>1. LET blocks == BlocksBehind(BeginMarkers, EndMarkers, SameMarkers, arg.include, size)
        IN  \A p \in 1 .. size + 1 :
                /\ blocks[p] \in Seq(Interval(Len(Content)))
                /\ blocks[p] =
                     IF From(BeginMarkers, p) = {} THEN <<>>
                     ELSE <<BlockAt(BeginMarkers, EndMarkers, SameMarkers, arg.include, size, p)>>
                            \o blocks[BehindBlock(BeginMarkers, EndMarkers, SameMarkers, size, p)]
    BY <1>1, BlocksRecursion
  <2>. QED
    BY <2>1, Zenon DEF Following, FirstBegin, FirstEnd, BlockAt, BehindBlock
<1>4. ASSUME NEW q \in 1 .. Len(Content) + 1, From(BeginMarkers, q) # {}
      PROVE  /\ Between(FirstBegin(q), FirstEnd(q), arg.include) \in Interval(Len(Content))
             /\ FirstEnd(q).to \in 1 .. Len(Content) + 1
  <2>1. /\ BlockAt(BeginMarkers, EndMarkers, SameMarkers, arg.include, Len(Content), q)
             \in Interval(Len(Content))
        /\ BehindBlock(BeginMarkers, EndMarkers, SameMarkers, Len(Content), q)
             \in q + 1 .. Len(Content) + 1
    BY <1>1, <1>4, BlockAtType
  <2>2. FirstEnd(q).to \in q + 1 .. Len(Content) + 1
    BY <2>1 DEF BehindBlock, FirstEnd, FirstBegin
  <2>3. FirstEnd(q).to \in 1 .. Len(Content) + 1
    BY <1>1, <2>2
  <2>. QED
    BY <2>1, <2>3 DEF BlockAt, FirstEnd, FirstBegin
<1>5. \A q \in 1 .. Len(Content) + 1 : Len(Following[q]) \in Nat
  BY <1>3, LenProperties
<1>. QED
  BY <1>2, <1>3, <1>4, <1>5

\* The next block, and what is left behind it.
LEMMA NextBlock ==
  ASSUME TagText, NEW k, NEW q, Left(k, q), From(BeginMarkers, q) # {}
  PROVE  /\ k + 1 \in 1 .. Len(Blocks)
         /\ Blocks[k + 1] = Between(FirstBegin(q), FirstEnd(q), arg.include)
         /\ Left(k + 1, FirstEnd(q).to)
<1>. DEFINE block == Between(FirstBegin(q), FirstEnd(q), arg.include)
            r == FirstEnd(q).to
            x == Following[q]
            y == Following[r]
<1>1. /\ k \in Nat /\ q \in 1 .. Len(Content) + 1
      /\ Len(Blocks) = k + Len(x) /\ \A j \in 1 .. Len(x) : Blocks[k + j] = x[j]
  BY DEF Left
<1>2. /\ block \in Interval(Len(Content)) /\ r \in 1 .. Len(Content) + 1
      /\ x = <<block>> \o y
  BY <1>1, BlocksAreTagBlocks
<1>3. y \in Seq(Interval(Len(Content))) /\ Len(y) \in Nat
  BY <1>2, BlocksAreTagBlocks
<1>. HIDE DEF block, r, y, x
<1>4. Len(x) = Len(y) + 1 /\ x[1] = block /\ \A j \in 1 .. Len(y) : x[j + 1] = y[j]
  <2>. DEFINE s == <<block>>
  <2>1. s \in Seq(Interval(Len(Content))) /\ Len(s) = 1 /\ s[1] = block
    BY <1>2
  <2>. HIDE DEF s
  <2>. DEFINE z == s \o y
  <2>2. /\ Len(z) = Len(s) + Len(y)
        /\ \A i \in 1 .. Len(s) + Len(y) :
              z[i] = IF i <= Len(s) THEN s[i] ELSE y[i - Len(s)]
    BY <1>3, <2>1, ConcatProperties
  <2>3. x = z
    BY <1>2 DEF s
  <2>. HIDE DEF z
  <2>. QED
    BY <1>3, <2>1, <2>2, <2>3
<1>5. k + 1 \in 1 .. Len(Blocks) /\ Blocks[k + 1] = block
  BY <1>1, <1>3, <1>4
<1>6. /\ k + 1 \in Nat /\ Len(Blocks) = (k + 1) + Len(y)
      /\ \A j \in 1 .. Len(y) : Blocks[(k + 1) + j] = y[j]
  <2>1. k + 1 \in Nat /\ Len(Blocks) = (k + 1) + Len(y)
    BY <1>1, <1>3, <1>4
  <2>2. ASSUME NEW j \in 1 .. Len(y) PROVE Blocks[(k + 1) + j] = y[j]
    <3>1. j + 1 \in 1 .. Len(x) /\ (k + 1) + j = k + (j + 1)
      BY <1>1, <1>3, <1>4
    <3>. QED
      BY <1>1, <1>4, <3>1
  <2>. QED
    BY <2>1, <2>2
<1>7. Left(k + 1, r)
  BY <1>2, <1>6 DEF Left, y
<1>. QED
  BY <1>5, <1>7 DEF block, r

\* At the beginning of the text, all blocks are left.
LEMMA SearchStarts ==
  ASSUME TagText
  PROVE  SearchBegin(0, 1)
<1>1. 1 \in 1 .. Len(Content) + 1
  BY DEF TagText, Layout
<1>2. Blocks = Following[1] /\ Len(Following[1]) \in Nat
  BY <1>1, BlocksAreTagBlocks
<1>3. Left(0, 1)
  BY <1>1, <1>2 DEF Left
<1>. QED
  BY <1>3 DEF SearchBegin

\* The first begin marker ahead begins the next block.
LEMMA BlockBegins ==
  ASSUME TagText, NEW k, NEW position, SearchBegin(k, position),
         NEW m \in From(BeginMarkers, position),
         \A n \in From(BeginMarkers, position) : m.from <= n.from
  PROVE  /\ k \in Nat /\ k + 1 \in 1 .. Len(Blocks)
         /\ Blocks[k + 1].from = IF arg.include THEN m.from ELSE m.to
         /\ ~SameMarkers => SearchEnd(k, m.to)
         /\ SameMarkers => Blocks[k + 1].to = m.to /\ SearchBegin(k + 1, m.to)
<1>1. PICK q : Left(k, q) /\ From(BeginMarkers, q) = From(BeginMarkers, position)
  BY DEF SearchBegin
<1>2. From(BeginMarkers, q) # {} /\ FirstBegin(q) = m
  <2>1. First(From(BeginMarkers, position)) = m
    BY FirstIs DEF TagText, Layout
  <2>. QED
    BY <1>1, <2>1 DEF FirstBegin
<1>3. /\ k + 1 \in 1 .. Len(Blocks)
      /\ Blocks[k + 1] = Between(m, FirstEnd(q), arg.include)
      /\ Left(k + 1, FirstEnd(q).to)
  BY <1>1, <1>2, NextBlock
<1>4. Blocks[k + 1].from = IF arg.include THEN m.from ELSE m.to
  BY <1>3 DEF Between
<1>5. ~SameMarkers => SearchEnd(k, m.to)
  BY <1>1, <1>2 DEF SearchEnd
<1>6. ASSUME SameMarkers
      PROVE  Blocks[k + 1].to = m.to /\ SearchBegin(k + 1, m.to)
  <2>1. FirstEnd(q) = Point(m.to)
    BY <1>2, <1>6 DEF FirstEnd, EndMarker
  <2>2. FirstEnd(q).from = m.to /\ FirstEnd(q).to = m.to
    BY <2>1 DEF Point
  <2>. QED
    BY <1>3, <2>2 DEF Between, SearchBegin
<1>7. k \in Nat
  BY <1>1 DEF Left
<1>. QED
  BY <1>3, <1>4, <1>5, <1>6, <1>7

\* The first end marker ahead ends the block.
LEMMA BlockEnds ==
  ASSUME TagText, NEW k, NEW position, SearchEnd(k, position),
         NEW m \in From(EndMarkers, position),
         \A n \in From(EndMarkers, position) : m.from <= n.from
  PROVE  /\ k \in Nat /\ k + 1 \in 1 .. Len(Blocks)
         /\ Blocks[k + 1].to = IF arg.include THEN m.to ELSE m.from
         /\ SearchBegin(k + 1, m.to)
<1>1. PICK q : /\ Left(k, q) /\ From(BeginMarkers, q) # {} /\ ~SameMarkers
               /\ From(EndMarkers, FirstBegin(q).to) = From(EndMarkers, position)
  BY DEF SearchEnd
<1>2. First(From(EndMarkers, position)) = m
  BY FirstIs DEF TagText, Layout
<1>3. FirstEnd(q) = m
  BY <1>1, <1>2 DEF FirstEnd, EndMarker
<1>4. /\ k + 1 \in 1 .. Len(Blocks)
      /\ Blocks[k + 1] = Between(FirstBegin(q), m, arg.include)
      /\ Left(k + 1, m.to)
  BY <1>1, <1>3, NextBlock
<1>5. SearchBegin(k + 1, m.to)
  BY <1>4 DEF SearchBegin
<1>6. k \in Nat
  BY <1>1 DEF Left
<1>7. Blocks[k + 1].to = IF arg.include THEN m.to ELSE m.from
  BY <1>4 DEF Between
<1>. QED
  BY <1>4, <1>5, <1>6, <1>7

\* At the end of the text no block is left, but for the one that is open.
LEMMA SearchFinished ==
  ASSUME TagText, NEW k
  PROVE  /\ SearchBegin(k, Len(Content) + 1) => k = Len(Blocks)
         /\ SearchEnd(k, Len(Content) + 1) =>
              k + 1 = Len(Blocks) /\ Blocks[k + 1].to = Len(Content) + 1
<1>1. Len(Content) \in Nat
  BY DEF TagText, Layout
<1>2. From(BeginMarkers, Len(Content) + 1) = {}
      /\ From(EndMarkers, Len(Content) + 1) = {}
  BY <1>1 DEF TagText, MarkersWithin, From
<1>3. \A q : Left(k, q) /\ From(BeginMarkers, q) = {} => k = Len(Blocks) /\ k \in Nat
  <2>. SUFFICES ASSUME NEW q, Left(k, q), From(BeginMarkers, q) = {}
                PROVE  k = Len(Blocks) /\ k \in Nat
    OBVIOUS
  <2>1. q \in 1 .. Len(Content) + 1 /\ k \in Nat /\ Len(Blocks) = k + Len(Following[q])
    BY DEF Left
  <2>2. Following[q] = <<>>
    BY <2>1, BlocksAreTagBlocks
  <2>. QED
    BY <2>1, <2>2
<1>4. SearchBegin(k, Len(Content) + 1) => k = Len(Blocks)
  BY <1>2, <1>3 DEF SearchBegin
<1>5. ASSUME SearchEnd(k, Len(Content) + 1)
      PROVE  k + 1 = Len(Blocks) /\ Blocks[k + 1].to = Len(Content) + 1
  <2>1. PICK q : /\ Left(k, q) /\ From(BeginMarkers, q) # {} /\ ~SameMarkers
                 /\ From(EndMarkers, FirstBegin(q).to) = {}
    BY <1>2, <1>5 DEF SearchEnd
  <2>2. FirstEnd(q) = Point(Len(Content) + 1)
    BY <2>1 DEF FirstEnd, EndMarker
  <2>3. FirstEnd(q).from = Len(Content) + 1 /\ FirstEnd(q).to = Len(Content) + 1
    BY <2>2 DEF Point
  <2>4. /\ Blocks[k + 1] = Between(FirstBegin(q), FirstEnd(q), arg.include)
        /\ Left(k + 1, Len(Content) + 1)
    BY <2>1, <2>3, NextBlock
  <2>5. Blocks[k + 1].to = Len(Content) + 1
    BY <2>3, <2>4 DEF Between
  <2>6. k + 1 = Len(Blocks)
    <3>1. From(BeginMarkers, Len(Content) + 1) = {} /\ Left(k + 1, Len(Content) + 1)
      BY <1>2, <2>4
    <3>2. Len(Content) + 1 \in 1 .. Len(Content) + 1
      BY <1>1
    <3>3. Following[Len(Content) + 1] = <<>>
      BY <3>1, <3>2, BlocksAreTagBlocks
    <3>4. Len(Following[Len(Content) + 1]) = 0
      BY <3>3
    <3>5. Len(Blocks) = (k + 1) + Len(Following[Len(Content) + 1]) /\ k + 1 \in Nat
      BY <3>1 DEF Left
    <3>. QED
      BY <3>4, <3>5
  <2>. QED
    BY <2>5, <2>6
<1>. QED
  BY <1>4, <1>5

\* The search may be anywhere before the next marker.
LEMMA SearchMoves ==
  ASSUME NEW k, NEW p, NEW q
  PROVE  /\ SearchBegin(k, p) /\ From(BeginMarkers, p) = From(BeginMarkers, q)
              => SearchBegin(k, q)
         /\ SearchEnd(k, p) /\ From(EndMarkers, p) = From(EndMarkers, q)
              => SearchEnd(k, q)
<1>1. SearchBegin(k, p) /\ From(BeginMarkers, p) = From(BeginMarkers, q)
              => SearchBegin(k, q)
  BY Zenon DEF SearchBegin
<1>2. SearchEnd(k, p) /\ From(EndMarkers, p) = From(EndMarkers, q)
              => SearchEnd(k, q)
  BY Zenon DEF SearchEnd
<1>. QED
  BY <1>1, <1>2

-----------------------------------------------------------------------------
(* What strstr() finds in a line, and the markers of the text.             *)

LEMMA StrstrIs ==
  ASSUME NEW line \in Seq(Chars), NEW start \in Nat \ {0}, NEW tag \in Seq(Chars)
  PROVE  /\ Strstr(line, start, tag) = 0 <=> Matches(line, start, tag) = {}
         /\ Strstr(line, start, tag) # 0 =>
              /\ Strstr(line, start, tag) \in Matches(line, start, tag)
              /\ \A j \in Matches(line, start, tag) : Strstr(line, start, tag) <= j
<1>. DEFINE found == Matches(line, start, tag)
<1>1. Len(line) \in Nat /\ Len(tag) \in Nat
  BY LenProperties
<1>2. found \subseteq Nat \ {0}
  BY <1>1 DEF Matches
<1>3. CASE found = {}
  BY <1>3 DEF Strstr
<1>4. CASE found # {}
  <2>1. \E i \in found : \A j \in found : i <= j
    <3>. HIDE DEF found
    <3>. QED
      BY <1>2, <1>4, SmallestPosition
  <2>2. Strstr(line, start, tag) = CHOOSE i \in found : \A j \in found : i <= j
    BY <1>4 DEF Strstr
  <2>. HIDE DEF found
  <2>3. /\ Strstr(line, start, tag) \in found
        /\ \A j \in found : Strstr(line, start, tag) <= j
    BY <2>1, <2>2
  <2>4. Strstr(line, start, tag) # 0
    BY <1>2, <2>3
  <2>. QED
    BY <1>4, <2>3, <2>4 DEF found
<1>. QED
  BY <1>3, <1>4

\* A tag stands in a line where it stands in the text.
LEMMA MatchInLine ==
  ASSUME Layout, NEW n \in 1 .. Len(input), NEW tag \in Seq(Chars), NEW i \in Int,
         LineStart[n] <= i, i + Len(tag) <= LineStart[n + 1], Len(tag) > 0
  PROVE  i \in Matches(Content, 1, tag)
           <=> i - LineStart[n] + 1 \in Matches(input[n], 1, tag)
<1>. DEFINE c == i - LineStart[n] + 1
            start == LineStart[n]
            next == LineStart[n + 1]
            len == Len(tag)
<1>1. /\ len \in Nat /\ start \in Nat \ {0} /\ Len(input[n]) \in Nat
      /\ next = start + Len(input[n]) /\ Len(Content) \in Nat /\ next \in Nat
  <2>1. n \in 1 .. Len(input) + 1 /\ n + 1 \in 1 .. Len(input) + 1
    BY DEF Layout
  <2>. QED
    BY <2>1, LenProperties DEF Layout
<1>2. next <= Len(Content) + 1
  <2>1. /\ n + 1 \in 1 .. Len(input) + 1 /\ Len(input) + 1 \in 1 .. Len(input) + 1
        /\ LineStart[Len(input) + 1] = Len(Content) + 1
        /\ n + 1 = Len(input) + 1 \/ n + 1 < Len(input) + 1
    BY DEF Layout
  <2>2. n + 1 < Len(input) + 1 => LineStart[n + 1] < LineStart[Len(input) + 1]
    BY <2>1, LineOrder
  <2>. QED
    BY <1>1, <2>1, <2>2
<1>3. start <= i /\ i + len <= next /\ len > 0
  OBVIOUS
<1>. HIDE DEF start, next, len
<1>4. /\ c \in 1 .. Len(input[n]) + 1 /\ c + len \in c .. Len(input[n]) + 1
      /\ c = i - start + 1
      /\ start + c - 1 = i /\ start + (c + len) - 1 = i + len
      /\ (c + len) - 1 = c + len - 1 /\ (i + len) - 1 = i + len - 1
  <2>1. c = i - start + 1 /\ c \in Int
    BY <1>1 DEF start
  <2>. HIDE DEF c
  <2>2. c >= 1 /\ c <= Len(input[n]) + 1 /\ c + len <= Len(input[n]) + 1
    BY <1>1, <1>3, <2>1
  <2>. QED
    BY <1>1, <2>1, <2>2
<1>. HIDE DEF c
<1>5. SubSeq(input[n], c, c + len - 1) = SubSeq(Content, i, i + len - 1)
  <2>1. SubSeq(input[n], c, (c + len) - 1) = Slice(start + c - 1, start + (c + len) - 1)
    <3>. DEFINE d == c
                e == c + len
    <3>1. d \in 1 .. Len(input[n]) + 1 /\ e \in d .. Len(input[n]) + 1
      BY <1>4, Zenon
    <3>. HIDE DEF d, e
    <3>2. SubSeq(input[n], d, e - 1) = Slice(LineStart[n] + d - 1, LineStart[n] + e - 1)
      BY <3>1, LineSlice
    <3>. QED
      BY <3>2 DEF d, e, start
  <2>2. Slice(i, i + len) = SubSeq(Content, i, (i + len) - 1)
    BY DEF Slice
  <2>. QED
    BY <1>4, <2>1, <2>2
<1>6. c \in 1 .. (Len(input[n]) - len + 1) /\ i \in 1 .. (Len(Content) - len + 1)
  BY SMTT(30), <1>1, <1>2, <1>3, <1>4
<1>7. i \in Matches(Content, 1, tag) <=> SubSeq(Content, i, i + len - 1) = tag
  BY <1>6 DEF Matches, len
<1>8. c \in Matches(input[n], 1, tag) <=> SubSeq(input[n], c, c + len - 1) = tag
  BY <1>6 DEF Matches, len
<1>. QED
  BY <1>5, <1>7, <1>8 DEF c

MarkerAt(position, tag) == [from |-> position, to |-> position + Len(tag)]

\* The tags of the text that are no full lines.
PlainTag(tag) ==
  /\ ~arg.full /\ tag \in Seq(Chars) /\ tag # <<>>
  /\ \A m \in Markers(tag) :
        \E i \in 1 .. Len(input) : LineStart[i] <= m.from /\ m.to <= LineStart[i + 1]

LEMMA PlainTags ==
  ASSUME TypeOK, TagText, TagsWithinLines, ~arg.full,
         NEW tag \in {arg.begin, NormalisedEndTag}
  PROVE  PlainTag(tag)
<1>1. arg.begin \in Seq(Chars) /\ arg.begin # <<>> /\ arg.end \in Seq(Chars)
  BY DEF TypeOK, CommandLine, Tags, TagText, TagsGiven, NoTag
<1>2. tag \in Seq(Chars) /\ tag # <<>>
  BY <1>1 DEF NormalisedEndTag, NoTag
<1>3. Markers(tag) \subseteq BeginMarkers \cup EndMarkers
  BY DEF BeginMarkers, EndMarkers
<1>4. \A m \in BeginMarkers \cup EndMarkers :
         \E i \in DOMAIN input : LineStart[i] <= m.from /\ m.to <= LineStart[i + 1]
  BY DEF TagsWithinLines, TagText, TagsGiven
<1>5. DOMAIN input = 1 .. Len(input)
  BY LenProperties DEF TypeOK
<1>. QED
  BY <1>2, <1>3, <1>4, <1>5 DEF PlainTag

\* A marker from a position of a line on is in that line, or begins behind it.
LEMMA MarkerOfLine ==
  ASSUME Layout, NEW tag, PlainTag(tag), NEW n \in 1 .. Len(input),
         NEW m \in Markers(tag), m.from >= LineStart[n]
  PROVE  /\ m.from \in Nat /\ m = MarkerAt(m.from, tag)
         /\ \/ m.from >= LineStart[n + 1]
            \/ /\ m.from < LineStart[n + 1]
               /\ m.from - LineStart[n] + 1 \in Matches(input[n], 1, tag)
<1>1. tag \in Seq(Chars) /\ Len(tag) \in Nat /\ Len(tag) > 0
  BY EmptySeq DEF PlainTag
<1>2. m \in TagMarkers(tag)
  BY DEF PlainTag, Markers
<1>3. m.from \in Nat /\ m.from \in Matches(Content, 1, tag) /\ m = MarkerAt(m.from, tag)
  BY <1>1, <1>2 DEF TagMarkers, MarkerAt, Matches
<1>4. PICK i \in 1 .. Len(input) : LineStart[i] <= m.from /\ m.to <= LineStart[i + 1]
  BY DEF PlainTag
<1>5. /\ n \in 1 .. Len(input) + 1 /\ n + 1 \in 1 .. Len(input) + 1
      /\ i \in 1 .. Len(input) + 1 /\ i + 1 \in 1 .. Len(input) + 1
  BY DEF Layout
<1>6. /\ LineStart[n] \in Nat /\ LineStart[n + 1] \in Nat
      /\ LineStart[i] \in Nat /\ LineStart[i + 1] \in Nat
  BY <1>5 DEF Layout
<1>7. m.to = m.from + Len(tag)
  BY <1>3 DEF MarkerAt
<1>8. CASE i < n
  <2>1. LineStart[i + 1] <= LineStart[n]
    BY <1>5, <1>8, LineOrder
  <2>. QED
    BY <1>1, <1>3, <1>4, <1>6, <1>7, <2>1
<1>9. CASE i = n
  <2>1. m.from < LineStart[n + 1]
    BY <1>1, <1>3, <1>4, <1>6, <1>7, <1>9
  <2>2. m.from - LineStart[n] + 1 \in Matches(input[n], 1, tag)
    BY <1>1, <1>3, <1>4, <1>7, <1>9, MatchInLine
  <2>. QED
    BY <1>3, <2>1, <2>2
<1>10. CASE i > n
  <2>1. LineStart[n + 1] <= LineStart[i]
    BY <1>5, <1>10, LineOrder
  <2>. QED
    BY <1>3, <1>4, <1>6, <2>1
<1>. QED
  BY <1>8, <1>9, <1>10

\* A tag found from the pointer on is the first marker ahead of it.
LEMMA TagFound ==
  ASSUME Layout, NEW tag, PlainTag(tag), NEW n \in 1 .. Len(input),
         NEW p \in 1 .. Len(input[n]) + 1, NEW s, s = Strstr(input[n], p, tag), s # 0
  PROVE  LET position == LineStart[n] + p - 1
             m == MarkerAt(LineStart[n] + s - 1, tag)
         IN  /\ m \in From(Markers(tag), position)
             /\ \A k \in From(Markers(tag), position) : m.from <= k.from
<1>. DEFINE start == LineStart[n]
            len == Len(tag)
            position == start + p - 1
            m == MarkerAt(start + s - 1, tag)
<1>1. tag \in Seq(Chars) /\ len \in Nat /\ len > 0
  BY EmptySeq DEF PlainTag
<1>2. /\ input[n] \in Seq(Chars) /\ Len(input[n]) \in Nat /\ start \in Nat \ {0}
      /\ LineStart[n + 1] = start + Len(input[n])
  <2>1. n \in 1 .. Len(input) + 1
    BY DEF Layout
  <2>. QED
    BY <2>1 DEF Layout
<1>3. /\ s \in Matches(input[n], p, tag)
      /\ \A j \in Matches(input[n], p, tag) : s <= j
  BY <1>1, <1>2, StrstrIs
<1>4. \A j \in Int : j \in Matches(input[n], p, tag)
                        <=> j >= p /\ j \in Matches(input[n], 1, tag)
  BY <1>1, <1>2 DEF Matches
<1>5. s \in Nat /\ s >= p /\ s + len <= Len(input[n]) + 1 /\ s \in Matches(input[n], 1, tag)
  <2>1. s \in Nat /\ s >= p /\ s + len <= Len(input[n]) + 1
    BY <1>1, <1>2, <1>3 DEF Matches
  <2>. QED
    BY <1>3, <1>4, <2>1
<1>. HIDE DEF start, len
<1>6. start + s - 1 \in Matches(Content, 1, tag)
  <2>. DEFINE i == start + s - 1
  <2>1. /\ i \in Int /\ start <= i /\ i + len <= LineStart[n + 1]
        /\ i - start + 1 = s
    BY SMTT(30), <1>1, <1>2, <1>5
  <2>. HIDE DEF i
  <2>2. i \in Matches(Content, 1, tag) <=> i - LineStart[n] + 1 \in Matches(input[n], 1, tag)
    BY <1>1, <2>1, MatchInLine DEF start, len
  <2>. QED
    BY <1>5, <2>1, <2>2 DEF i, start
<1>7. m \in Markers(tag) /\ m.from = start + s - 1
  BY <1>6 DEF Markers, TagMarkers, PlainTag, MarkerAt
<1>8. m.from >= position
  BY <1>2, <1>5, <1>7
<1>9. ASSUME NEW k \in From(Markers(tag), position) PROVE m.from <= k.from
  <2>1. k \in Markers(tag) /\ k.from >= position
    BY DEF From
  <2>2. k.from >= start
    <3>1. k.from \in Nat
      BY <2>1, <1>1 DEF Markers, TagMarkers, PlainTag, Matches
    <3>. QED
      BY <1>2, <2>1, <3>1
  <2>3. /\ k.from \in Nat
        /\ \/ k.from >= LineStart[n + 1]
           \/ k.from - start + 1 \in Matches(input[n], 1, tag)
    BY <2>1, <2>2, MarkerOfLine DEF start
  <2>4. CASE k.from >= LineStart[n + 1]
    <3>1. start + Len(input[n]) <= k.from
      BY <1>2, <2>4
    <3>2. start + s - 1 <= start + Len(input[n])
      BY SMTT(30), <1>1, <1>2, <1>5
    <3>. HIDE DEF m
    <3>. QED
      BY SMTT(30), <1>2, <1>5, <1>7, <2>3, <3>1, <3>2
  <2>5. CASE k.from - start + 1 \in Matches(input[n], 1, tag)
    <3>. DEFINE j == k.from - start + 1
    <3>1. j \in Int /\ j >= p /\ j \in Matches(input[n], 1, tag)
      BY <1>2, <2>1, <2>3, <2>5
    <3>2. s <= j
      BY <1>3, <1>4, <3>1
    <3>. QED
      BY <1>2, <1>5, <1>7, <2>3, <3>2
  <2>. QED
    BY <2>3, <2>4, <2>5
<1>. QED
  BY <1>7, <1>8, <1>9 DEF From, start

\* If there is none, the markers ahead begin in the lines that follow.
LEMMA TagNotFound ==
  ASSUME Layout, NEW tag, PlainTag(tag), NEW n \in 1 .. Len(input),
         NEW p \in 1 .. Len(input[n]) + 1, Strstr(input[n], p, tag) = 0
  PROVE  From(Markers(tag), LineStart[n] + p - 1) = From(Markers(tag), LineStart[n + 1])
<1>. DEFINE start == LineStart[n]
            position == start + p - 1
<1>1. tag \in Seq(Chars) /\ Len(tag) \in Nat /\ Len(tag) > 0
  BY EmptySeq DEF PlainTag
<1>2. /\ input[n] \in Seq(Chars) /\ Len(input[n]) \in Nat /\ start \in Nat \ {0}
      /\ LineStart[n + 1] = start + Len(input[n])
  <2>1. n \in 1 .. Len(input) + 1
    BY DEF Layout
  <2>. QED
    BY <2>1 DEF Layout
<1>3. Matches(input[n], p, tag) = {}
  BY <1>1, <1>2, StrstrIs
<1>4. \A j \in Int : j \in Matches(input[n], p, tag)
                        <=> j >= p /\ j \in Matches(input[n], 1, tag)
  BY <1>1, <1>2 DEF Matches
<1>5. ASSUME NEW m \in Markers(tag)
      PROVE  m.from >= position <=> m.from >= LineStart[n + 1]
  <2>1. m.from \in Nat
    BY <1>1 DEF Markers, TagMarkers, PlainTag, Matches
  <2>. HIDE DEF start
  <2>2. ASSUME m.from >= position PROVE m.from >= LineStart[n + 1]
    <3>1. m.from >= start
      BY <1>2, <2>1, <2>2
    <3>2. \/ m.from >= LineStart[n + 1]
          \/ m.from - start + 1 \in Matches(input[n], 1, tag)
      BY <3>1, MarkerOfLine DEF start
    <3>3. m.from - start + 1 \in Int /\ m.from - start + 1 >= p
      BY <1>2, <2>1, <2>2
    <3>. QED
      BY <1>3, <1>4, <3>2, <3>3
  <2>3. m.from >= LineStart[n + 1] => m.from >= position
    BY <1>2, <2>1
  <2>. QED
    BY <2>2, <2>3
<1>6. From(Markers(tag), position) = From(Markers(tag), LineStart[n + 1])
  <2>. HIDE DEF position
  <2>. QED
    BY <1>5 DEF From
<1>. QED
  BY <1>6

\* The same for markers that are full lines.
LEMMA LineFound ==
  ASSUME Layout, arg.full, NEW tag \in Seq(Chars), NEW n \in 1 .. Len(input),
         Strstr(input[n], 1, tag) # 0
  PROVE  LET m == [from |-> LineStart[n], to |-> LineStart[n + 1]]
         IN  /\ m \in From(Markers(tag), LineStart[n])
             /\ \A k \in From(Markers(tag), LineStart[n]) : m.from <= k.from
<1>1. input[n] \in Seq(Chars) /\ LineStart[n] \in Nat /\ DOMAIN input = 1 .. Len(input)
  <2>1. n \in 1 .. Len(input) + 1
    BY DEF Layout
  <2>. QED
    BY <2>1 DEF Layout
<1>2. Matches(input[n], 1, tag) # {}
  BY <1>1, StrstrIs
<1>3. [from |-> LineStart[n], to |-> LineStart[n + 1]] \in Markers(tag)
  BY <1>1, <1>2 DEF Markers, LineMarkers
<1>. QED
  BY <1>1, <1>3 DEF From

LEMMA LineNotFound ==
  ASSUME Layout, arg.full, NEW tag \in Seq(Chars), NEW n \in 1 .. Len(input),
         Strstr(input[n], 1, tag) = 0
  PROVE  From(Markers(tag), LineStart[n]) = From(Markers(tag), LineStart[n + 1])
<1>1. input[n] \in Seq(Chars) /\ Len(input) \in Nat
      /\ n \in 1 .. Len(input) + 1 /\ n + 1 \in 1 .. Len(input) + 1
  <2>1. n \in 1 .. Len(input) + 1 /\ n + 1 \in 1 .. Len(input) + 1
    BY DEF Layout
  <2>. QED
    BY <2>1 DEF Layout
<1>2. Matches(input[n], 1, tag) = {}
  BY <1>1, StrstrIs
<1>3. ASSUME NEW m \in Markers(tag)
      PROVE  m.from >= LineStart[n] <=> m.from >= LineStart[n + 1]
  <2>1. PICK i \in 1 .. Len(input) :
           m.from = LineStart[i] /\ Matches(input[i], 1, tag) # {}
    <3>1. DOMAIN input = 1 .. Len(input)
      BY DEF Layout
    <3>2. m \in LineMarkers(tag)
      BY DEF Markers
    <3>3. PICK i \in DOMAIN input :
             /\ Matches(input[i], 1, tag) # {}
             /\ m = [from |-> LineStart[i], to |-> LineStart[i + 1]]
      BY <3>2 DEF LineMarkers
    <3>4. m.from = LineStart[i]
      BY <3>3
    <3>. QED
      BY <3>1, <3>3, <3>4
  <2>2. i # n /\ i \in 1 .. Len(input) + 1
    BY <1>1, <1>2, <2>1
  <2>3. LineStart[n] \in Nat /\ LineStart[n + 1] \in Nat /\ LineStart[i] \in Nat
    BY <1>1, <2>2 DEF Layout
  <2>4. LineStart[n] < LineStart[n + 1]
    <3>1. n < n + 1
      BY <1>1
    <3>. QED
      BY <1>1, <3>1, LineOrder
  <2>5. CASE i < n
    <3>1. LineStart[i] < LineStart[n]
      BY <1>1, <2>2, <2>5, LineOrder
    <3>. QED
      BY <2>1, <2>3, <2>4, <3>1
  <2>6. CASE i > n
    <3>1. LineStart[n + 1] <= LineStart[i]
      BY <1>1, <2>2, <2>6, LineOrder
    <3>. QED
      BY <2>1, <2>3, <2>4, <3>1
  <2>. QED
    BY <1>1, <2>2, <2>5, <2>6
<1>. QED
  BY <1>3 DEF From

-----------------------------------------------------------------------------
(* Pieces of the text.                                                     *)

LEMMA SliceType ==
  ASSUME Layout, NEW from \in 1 .. Len(Content) + 1, NEW to \in 1 .. Len(Content) + 1
  PROVE  Slice(from, to) \in Seq(Chars) /\ Slice(from, to) \in Output
<1>1. Content \in Seq(Chars) /\ Len(Content) \in Nat
  BY DEF Layout
<1>2. from \in Int /\ to - 1 \in Int /\ \A i \in from .. to - 1 : i \in 1 .. Len(Content)
  BY <1>1
<1>3. \A i \in from .. to - 1 : Content[i] \in Chars
  BY <1>1, <1>2, ElementOfSeq
<1>4. Slice(from, to) \in Seq(Chars)
  BY <1>2, <1>3, SubSeqProperties DEF Slice
<1>. QED
  BY <1>4, OutputType

LEMMA SliceEmpty ==
  ASSUME NEW p \in Int
  PROVE  Slice(p, p) = <<>>
BY SubSeqEmpty DEF Slice

LEMMA SliceJoin ==
  ASSUME Layout, NEW a \in 1 .. Len(Content) + 1, NEW b \in a .. Len(Content) + 1,
         NEW c \in b .. Len(Content) + 1
  PROVE  Slice(a, b) \o Slice(b, c) = Slice(a, c)
<1>1. Content \in Seq(Chars) /\ Len(Content) \in Nat
  BY DEF Layout
<1>2. /\ a \in 1 .. Len(Content) + 1 /\ b - 1 \in a - 1 .. Len(Content)
      /\ c - 1 \in b - 1 .. Len(Content) /\ (b - 1) + 1 = b
  BY <1>1
<1>3. SubSeq(Content, a, b - 1) \o SubSeq(Content, (b - 1) + 1, c - 1)
        = SubSeq(Content, a, c - 1)
  BY <1>1, <1>2, ConcatAdjacentSubSeq
<1>. QED
  BY <1>2, <1>3 DEF Slice

-----------------------------------------------------------------------------
(* What is written.                                                        *)

BlocksOK ==
  /\ Len(Blocks) \in Nat
  /\ \A i \in 1 .. Len(Blocks) : /\ Blocks[i].from \in 1 .. Len(Content) + 1
                                 /\ Blocks[i].to \in 1 .. Len(Content) + 1

\* What the lemmas need to know while the lines are read.
Setting ==
  /\ TypeOK /\ Layout /\ BlocksOK
  /\ opt.mode = arg.mode /\ arg.mode \in Modes

OutputChars == Chars \cup Labels

LEMMA OutputParts ==
  /\ Before \in Output /\ After \in Output
  /\ \A t \in Output : \A c : When(c, t) \in Output
  /\ \A t \in Output : t \o <<>> = t /\ <<>> \o t = t
  /\ Output = Seq(OutputChars)
<1>1. /\ <<>> \in Output
      /\ InsertFile \in Output /\ HighlightBegin \in Output /\ HighlightEnd \in Output
  BY OutputType
<1>2. Before \in Output /\ After \in Output
  BY <1>1 DEF Before, After
<1>3. \A t \in Output : \A c : When(c, t) \in Output
  BY <1>1 DEF When
<1>4. \A t \in Output : t \o <<>> = t /\ <<>> \o t = t
  BY ConcatEmptySeq DEF Output
<1>. QED
  BY <1>2, <1>3, <1>4 DEF Output, OutputChars

\* Each mode, but for numbering lines, writes unmarked text and marked text as
\* the manual has it.
LEMMA UnmarkedWrites ==
  ASSUME Setting, arg.mode # "enumerate", NEW t \in Output, NEW flag \in BOOLEAN
  PROVE  UnmarkedOutput(t, flag) = When(KeepsUnmarked, t) \o When(flag, Before)
<1>1. /\ \A u \in Output : u \o <<>> = u /\ <<>> \o u = u
      /\ <<>> \in Output /\ t \o <<>> = t /\ <<>> \o <<>> = <<>>
      /\ opt.mode = arg.mode
  BY OutputParts, OutputType DEF Setting
<1>2. CASE arg.mode = "insertFront"
  <2>1. /\ UnmarkedOutput(t, flag) = t \o When(flag, InsertFile)
        /\ KeepsUnmarked /\ Before = InsertFile
    BY <1>1, <1>2 DEF UnmarkedOutput, KeepsUnmarked, Before
  <2>. QED
    BY <2>1 DEF When
<1>3. CASE arg.mode = "highlight"
  <2>1. /\ UnmarkedOutput(t, flag) = t \o When(flag, HighlightBegin)
        /\ KeepsUnmarked /\ Before = HighlightBegin
    BY <1>1, <1>3 DEF UnmarkedOutput, KeepsUnmarked, Before
  <2>. QED
    BY <2>1 DEF When
<1>4. CASE arg.mode \in {"cat", "remove", "replace", "insertBack"}
  <2>1. UnmarkedOutput(t, flag) = t /\ KeepsUnmarked /\ Before = <<>>
    BY <1>1, <1>4 DEF UnmarkedOutput, KeepsUnmarked, Before
  <2>2. When(flag, Before) = <<>> /\ When(KeepsUnmarked, t) = t
    BY <2>1 DEF When
  <2>. QED
    BY <1>1, <2>1, <2>2
<1>5. CASE arg.mode \in {"discard", "extract"}
  <2>1. UnmarkedOutput(t, flag) = <<>> /\ ~KeepsUnmarked /\ Before = <<>>
    BY <1>1, <1>5 DEF UnmarkedOutput, KeepsUnmarked, Before
  <2>2. When(flag, Before) = <<>> /\ When(KeepsUnmarked, t) = <<>>
    BY <2>1 DEF When
  <2>. QED
    BY <1>1, <2>1, <2>2
<1>. QED
  BY <1>2, <1>3, <1>4, <1>5 DEF Setting, Modes

LEMMA MarkedWrites ==
  ASSUME Setting, arg.mode \notin {"cat", "enumerate"}, NEW t \in Output,
         NEW flag \in BOOLEAN
  PROVE  MarkedOutput(t, flag) = When(KeepsMarked, t) \o When(flag, After)
<1>1. /\ <<>> \in Output /\ t \o <<>> = t /\ <<>> \o <<>> = <<>>
      /\ opt.mode = arg.mode /\ InsertFile \in Output
      /\ <<>> \o When(flag, InsertFile) = When(flag, InsertFile)
  BY OutputParts, OutputType DEF Setting
<1>2. CASE arg.mode = "insertBack"
  <2>1. /\ MarkedOutput(t, flag) = t \o When(flag, InsertFile)
        /\ KeepsMarked /\ After = InsertFile
    BY <1>1, <1>2 DEF MarkedOutput, KeepsMarked, After
  <2>. QED
    BY <2>1 DEF When
<1>3. CASE arg.mode = "highlight"
  <2>1. /\ MarkedOutput(t, flag) = t \o When(flag, HighlightEnd)
        /\ KeepsMarked /\ After = HighlightEnd
    BY <1>1, <1>3 DEF MarkedOutput, KeepsMarked, After
  <2>. QED
    BY <2>1 DEF When
<1>4. CASE arg.mode = "replace"
  <2>1. /\ MarkedOutput(t, flag) = When(flag, InsertFile)
        /\ ~KeepsMarked /\ After = InsertFile
    BY <1>1, <1>4 DEF MarkedOutput, KeepsMarked, After
  <2>2. When(KeepsMarked, t) = <<>>
    BY <2>1 DEF When
  <2>. QED
    BY <1>1, <2>1, <2>2
<1>5. CASE arg.mode \in {"extract", "insertFront"}
  <2>1. MarkedOutput(t, flag) = t /\ KeepsMarked /\ After = <<>>
    BY <1>1, <1>5 DEF MarkedOutput, KeepsMarked, After
  <2>2. When(flag, After) = <<>> /\ When(KeepsMarked, t) = t
    BY <2>1 DEF When
  <2>. QED
    BY <1>1, <2>1, <2>2
<1>6. CASE arg.mode \in {"discard", "remove"}
  <2>1. MarkedOutput(t, flag) = <<>> /\ ~KeepsMarked /\ After = <<>>
    BY <1>1, <1>6 DEF MarkedOutput, KeepsMarked, After
  <2>2. When(flag, After) = <<>> /\ When(KeepsMarked, t) = <<>>
    BY <2>1 DEF When
  <2>. QED
    BY <1>1, <2>1, <2>2
<1>. QED
  BY <1>2, <1>3, <1>4, <1>5, <1>6 DEF Setting, Modes

\* What has been written of the first k blocks, with the text in front of them.
Written(k) == FlattenSeq([i \in 1 .. k |-> BlockPiece(i)])

LEMMA PieceType ==
  ASSUME Setting, NEW i \in 1 .. Len(Blocks)
  PROVE  /\ GapStart(i) \in 1 .. Len(Content) + 1
         /\ Gap(i) = Slice(GapStart(i), Blocks[i].from)
         /\ Gap(i) \in Output /\ Inside(i) \in Output
         /\ BlockPiece(i) \in Output
<1>1. /\ Len(Blocks) \in Nat /\ Len(Content) \in Nat /\ Layout
      /\ Blocks[i].from \in 1 .. Len(Content) + 1 /\ Blocks[i].to \in 1 .. Len(Content) + 1
  BY DEF Setting, BlocksOK, Layout
<1>2. GapStart(i) \in 1 .. Len(Content) + 1
  <2>1. i # 1 => i - 1 \in 1 .. Len(Blocks)
    BY <1>1
  <2>2. i # 1 => Blocks[i - 1].to \in 1 .. Len(Content) + 1
    BY <2>1 DEF Setting, BlocksOK
  <2>. QED
    BY <1>1, <2>2 DEF GapStart
<1>3. Gap(i) = Slice(GapStart(i), Blocks[i].from)
  <2>1. ~(i > Len(Blocks))
    BY <1>1
  <2>. QED
    BY <2>1 DEF Gap
<1>4. Gap(i) \in Output /\ Inside(i) \in Output
  BY <1>1, <1>2, <1>3, SliceType DEF Inside
<1>5. BlockPiece(i) \in Output
  <2>. DEFINE a == When(KeepsUnmarked, Gap(i))
              c == When(KeepsMarked, Inside(i))
  <2>1. a \in Output /\ c \in Output /\ Before \in Output /\ After \in Output
    BY <1>4, OutputParts
  <2>2. BlockPiece(i) = a \o Before \o c \o After
    BY DEF BlockPiece
  <2>. HIDE DEF a, c
  <2>3. a \o Before \in Output
    BY <2>1, OutputType
  <2>4. (a \o Before) \o c \in Output
    BY <2>1, <2>3, OutputType
  <2>. QED
    BY <2>1, <2>2, <2>4, OutputType
<1>. QED
  BY <1>2, <1>3, <1>4, <1>5

LEMMA WrittenGrows ==
  ASSUME Setting
  PROVE  /\ \A k \in 0 .. Len(Blocks) : Written(k) \in Output
         /\ Written(0) = <<>>
         /\ \A k \in 1 .. Len(Blocks) : Written(k) = Written(k - 1) \o BlockPiece(k)
<1>. DEFINE n == Len(Blocks)
            s == [i \in 1 .. n |-> BlockPiece(i)]
<1>1. n \in Nat /\ \A i \in 1 .. n : BlockPiece(i) \in Seq(OutputChars)
  BY PieceType, OutputParts DEF Setting, BlocksOK
<1>2. s \in Seq(Seq(OutputChars)) /\ Len(s) = n /\ \A i \in 1 .. n : s[i] = BlockPiece(i)
  <2>. HIDE DEF n
  <2>1. s \in [1 .. n -> Seq(OutputChars)]
    BY <1>1
  <2>2. s \in UNION {[1 .. k -> Seq(OutputChars)] : k \in Nat}
    BY <1>1, <2>1, Zenon
  <2>3. s \in Seq(Seq(OutputChars))
    BY <2>2, SeqDef, Zenon
  <2>. QED
    BY <1>1, <2>1, <2>3, LenProperties
<1>3. PICK flat : FlattenedBy(flat, s, OutputChars)
  <2>. HIDE DEF s
  <2>. QED
    BY <1>2, FlattenedExists
<1>4. /\ flat[0] = <<>>
      /\ \A k \in 1 .. n : flat[k] = flat[k - 1] \o BlockPiece(k)
  <2>. HIDE DEF s, n
  <2>1. flat[0] = <<>> /\ \A k \in 1 .. n : flat[k] = flat[k - 1] \o s[k]
    BY <1>2, <1>3 DEF FlattenedBy
  <2>. QED
    BY <1>2, <2>1, Zenon
<1>5. ASSUME NEW k \in 0 .. n PROVE Written(k) = flat[k] /\ Written(k) \in Output
  <2>. DEFINE t == [i \in 1 .. k |-> BlockPiece(i)]
              u == [i \in 1 .. k |-> s[i]]
  <2>1. t = u
    <3>. HIDE DEF s, n
    <3>1. \A i \in 1 .. k : i \in 1 .. n
      BY <1>1
    <3>2. \A i \in 1 .. k : s[i] = BlockPiece(i)
      BY <1>2, <3>1, Zenon
    <3>. QED
      BY <3>2
  <2>2. FlattenSeq(u) = flat[k] /\ FlattenSeq(u) \in Seq(OutputChars)
    <3>. HIDE DEF s, n
    <3>. QED
      BY <1>2, <1>3, FlattenPrefix
  <2>3. Written(k) = FlattenSeq(t)
    BY DEF Written
  <2>. HIDE DEF t, u
  <2>. QED
    BY <2>1, <2>2, <2>3, OutputParts
<1>. HIDE DEF n
<1>6. 0 \in 0 .. n /\ \A k \in 1 .. n : k \in 0 .. n /\ k - 1 \in 0 .. n
  BY <1>1
<1>7. Written(0) = <<>>
  BY <1>4, <1>5, <1>6
<1>8. \A k \in 1 .. n : Written(k) = Written(k - 1) \o BlockPiece(k)
  BY <1>4, <1>5, <1>6, Zenon
<1>9. \A k \in 0 .. n : Written(k) \in Output
  BY <1>5
<1>. QED
  BY <1>7, <1>8, <1>9 DEF n

\* The modes that write what depends on the blocks.
OutMatters == arg.mode # "enumerate" /\ ~SelectionHasEffect

\* All text in front of a position has been handled, and k blocks end there;
\* or block k + 1 is open.
Unmarked(b, k, position) ==
  /\ ~b.in /\ b.actions = k /\ k \in 0 .. Len(Blocks)
  /\ position \in GapStart(k + 1) .. Len(Content) + 1
  /\ OutMatters =>
        b.out = Written(k) \o When(KeepsUnmarked, Slice(GapStart(k + 1), position))

Marked(b, k, position) ==
  /\ b.in /\ b.actions = k + 1 /\ k \in Nat /\ k + 1 \in 1 .. Len(Blocks)
  /\ position \in Blocks[k + 1].from .. Len(Content) + 1
  /\ OutMatters =>
        b.out = Written(k)
                  \o ((When(KeepsUnmarked, Gap(k + 1)) \o Before)
                        \o When(KeepsMarked, Slice(Blocks[k + 1].from, position)))

\* Where something is written of a block, the mode is not cat.
LEMMA NotCat ==
  ASSUME OutMatters, Setting, Len(Blocks) > 0
  PROVE  arg.mode \notin {"cat", "enumerate"}
<1>. SUFFICES ASSUME arg.mode = "cat" PROVE FALSE
  BY DEF OutMatters
<1>1. arg.from = 0 /\ arg.to = 0
  BY DEF OutMatters, SelectionHasEffect, Selecting
<1>2. TagsIgnored
  BY DEF TagsIgnored
<1>3. Blocks = SelectedBlocks
  BY <1>2 DEF Blocks
<1>4. FirstSelected = 0
  BY <1>1 DEF FirstSelected, NumberedLine
<1>5. FirstSelected \notin DOMAIN input
  BY <1>4 DEF Setting, Layout
<1>6. SelectedBlocks = <<>>
  BY <1>5 DEF SelectedBlocks
<1>. QED
  BY <1>3, <1>6

\* Text added to a piece of the text.
LEMMA KeepMore ==
  ASSUME Layout, NEW a \in 1 .. Len(Content) + 1, NEW b \in a .. Len(Content) + 1,
         NEW c \in b .. Len(Content) + 1, NEW keep \in BOOLEAN
  PROVE  /\ When(keep, Slice(a, b)) \o When(keep, Slice(b, c)) = When(keep, Slice(a, c))
         /\ When(keep, Slice(a, b)) \in Output /\ When(keep, Slice(b, c)) \in Output
<1>0. Len(Content) \in Nat
  BY DEF Layout
<1>1. b \in 1 .. Len(Content) + 1 /\ c \in 1 .. Len(Content) + 1
  BY <1>0
<1>2. Slice(a, b) \in Output /\ Slice(b, c) \in Output
  BY <1>1, SliceType
<1>3. Slice(a, b) \o Slice(b, c) = Slice(a, c)
  BY SliceJoin
<1>4. <<>> \o <<>> = <<>>
  BY OutputParts, OutputType
<1>5. CASE keep
  BY <1>2, <1>3, <1>5, OutputParts DEF When
<1>6. CASE ~keep
  BY <1>2, <1>4, <1>6, OutputParts DEF When
<1>. QED
  BY <1>5, <1>6

LEMMA GapStartType ==
  ASSUME Setting, NEW k \in 0 .. Len(Blocks)
  PROVE  GapStart(k + 1) \in 1 .. Len(Content) + 1 /\ Written(k) \in Output
<1>1. Len(Blocks) \in Nat /\ Len(Content) \in Nat
  BY DEF Setting, BlocksOK, Layout
<1>2. CASE k = 0
  <2>1. k + 1 = 1
    BY <1>2
  <2>. QED
    BY <1>1, <2>1, WrittenGrows DEF GapStart
<1>3. CASE k # 0
  <2>1. k + 1 # 1 /\ (k + 1) - 1 = k /\ k \in 1 .. Len(Blocks)
    BY <1>1, <1>3
  <2>2. GapStart(k + 1) = Blocks[k].to
    BY <2>1 DEF GapStart
  <2>3. Blocks[k].to \in 1 .. Len(Content) + 1
    BY <2>1 DEF Setting, BlocksOK
  <2>. QED
    BY <2>2, <2>3, WrittenGrows
<1>. QED
  BY <1>2, <1>3

LEMMA Regroup == \A x, y, z \in Output : (x \o y) \o z = x \o (y \o z)
<1>1. Associative(OutputChars)
  BY ConcatAssoc
<1>2. Output = Seq(OutputChars)
  BY OutputParts
<1>. QED
  BY <1>1, <1>2, ZenonT(40) DEF Associative

\* Handing over unmarked text between two blocks.
LEMMA UnmarkedText ==
  ASSUME Setting, NEW b \in BlockState, NEW k, NEW o, NEW p \in o .. Len(Content) + 1,
         NEW from, NEW to, Unmarked(b, k, o), Text(from, to) = Slice(o, p)
  PROVE  Unmarked(ProcessUnmarked(b, from, to, FALSE), k, p)
<1>. DEFINE c == ProcessUnmarked(b, from, to, FALSE)
            g == GapStart(k + 1)
            w == Written(k)
            x == When(KeepsUnmarked, Slice(g, o))
            y == When(KeepsUnmarked, Slice(o, p))
            z == When(KeepsUnmarked, Slice(g, p))
<1>1. /\ k \in 0 .. Len(Blocks) /\ o \in g .. Len(Content) + 1
      /\ ~b.in /\ b.actions = k
      /\ OutMatters => b.out = w \o x
  BY DEF Unmarked
<1>2. Layout /\ Len(Content) \in Nat
  BY DEF Setting, Layout
<1>3. g \in 1 .. Len(Content) + 1 /\ w \in Output
  BY <1>1, GapStartType
<1>4. /\ c.in = b.in /\ c.actions = b.actions
      /\ c.out = b.out \o UnmarkedOutput(Slice(o, p), FALSE)
  <2>1. /\ c.in = (b.in \/ FALSE) /\ c.actions = b.actions + 0
        /\ c.out = b.out \o UnmarkedOutput(Text(from, to), FALSE)
    BY DEF ProcessUnmarked
  <2>2. b.actions + 0 = b.actions /\ (b.in \/ FALSE) = b.in
    BY DEF BlockState
  <2>. QED
    BY <2>1, <2>2
<1>5. x \o y = z /\ x \in Output /\ y \in Output
  <2>1. KeepsUnmarked \in BOOLEAN
    BY DEF KeepsUnmarked
  <2>. QED
    BY <1>1, <1>2, <1>3, <2>1, KeepMore
<1>6. ASSUME OutMatters PROVE c.out = w \o z
  <2>1. Slice(o, p) \in Output
    <3>1. o \in 1 .. Len(Content) + 1 /\ p \in 1 .. Len(Content) + 1
      BY <1>1, <1>2, <1>3
    <3>. QED
      BY <1>2, <3>1, SliceType
  <2>2. UnmarkedOutput(Slice(o, p), FALSE) = y \o When(FALSE, Before)
    BY <1>6, <2>1, UnmarkedWrites DEF OutMatters
  <2>3. When(FALSE, Before) = <<>> /\ y \o <<>> = y
    BY <1>5, OutputParts DEF When
  <2>4. c.out = (w \o x) \o y
    BY <1>1, <1>4, <1>6, <2>2, <2>3, Zenon
  <2>5. (w \o x) \o y = w \o (x \o y)
    <3>. HIDE DEF w, x, y, z
    <3>. QED
      BY <1>3, <1>5, Regroup, ZenonT(40)
  <2>. QED
    BY <1>5, <2>4, <2>5, Zenon
<1>7. p \in g .. Len(Content) + 1
  BY <1>1, <1>2, <1>3
<1>. QED
  BY <1>1, <1>4, <1>6, <1>7 DEF Unmarked

\* Handing over the unmarked text up to a block opens the block.
LEMMA BlockOpens ==
  ASSUME Setting, NEW b \in BlockState, NEW k, NEW o, NEW p \in o .. Len(Content) + 1,
         NEW from, NEW to, Unmarked(b, k, o), Text(from, to) = Slice(o, p),
         k + 1 \in 1 .. Len(Blocks), Blocks[k + 1].from = p
  PROVE  Marked(ProcessUnmarked(b, from, to, TRUE), k, p)
<1>. DEFINE c == ProcessUnmarked(b, from, to, TRUE)
            g == GapStart(k + 1)
            w == Written(k)
            x == When(KeepsUnmarked, Slice(g, o))
            y == When(KeepsUnmarked, Slice(o, p))
            z == When(KeepsUnmarked, Slice(g, p))
<1>1. /\ k \in 0 .. Len(Blocks) /\ o \in g .. Len(Content) + 1
      /\ b.actions = k
      /\ OutMatters => b.out = w \o x
  BY DEF Unmarked
<1>2. Layout /\ Len(Content) \in Nat /\ Len(Blocks) \in Nat
  BY DEF Setting, Layout, BlocksOK
<1>3. g \in 1 .. Len(Content) + 1 /\ w \in Output
  BY <1>1, GapStartType
<1>4. /\ c.in /\ c.actions = k + 1
      /\ c.out = b.out \o UnmarkedOutput(Slice(o, p), TRUE)
  BY <1>1 DEF ProcessUnmarked
<1>5. x \o y = z /\ x \in Output /\ y \in Output
  <2>1. KeepsUnmarked \in BOOLEAN
    BY DEF KeepsUnmarked
  <2>. QED
    BY <1>1, <1>2, <1>3, <2>1, KeepMore
<1>6. o \in 1 .. Len(Content) + 1 /\ p \in 1 .. Len(Content) + 1 /\ p \in Int
  BY <1>1, <1>2, <1>3
<1>7. ASSUME OutMatters
      PROVE  c.out = w \o ((When(KeepsUnmarked, Gap(k + 1)) \o Before)
                             \o When(KeepsMarked, Slice(p, p)))
  <2>1. Slice(o, p) \in Output
    BY <1>2, <1>6, SliceType
  <2>2. UnmarkedOutput(Slice(o, p), TRUE) = y \o When(TRUE, Before)
    BY <1>7, <2>1, UnmarkedWrites DEF OutMatters
  <2>3. When(TRUE, Before) = Before /\ Before \in Output
    BY OutputParts DEF When
  <2>4. c.out = (w \o x) \o (y \o Before)
    BY <1>1, <1>4, <1>7, <2>2, <2>3, Zenon
  <2>5. Gap(k + 1) = Slice(g, p)
    BY PieceType
  <2>6. When(KeepsUnmarked, Gap(k + 1)) = z
    BY <2>5, Zenon
  <2>7. When(KeepsMarked, Slice(p, p)) = <<>>
    BY <1>6, SliceEmpty DEF When
  <2>8. z \in Output
    BY <1>5, OutputType
  <2>. HIDE DEF w, x, y, z
  <2>9. z \o Before \in Output
    BY <2>3, <2>8, OutputType
  <2>10. (z \o Before) \o <<>> = z \o Before
    BY <2>9, OutputParts
  <2>11. y \o Before \in Output /\ z \o Before = x \o (y \o Before)
    <3>1. y \o Before \in Output
      BY <1>5, <2>3, OutputType
    <3>2. (x \o y) \o Before = x \o (y \o Before)
      BY <1>5, <2>3, Regroup, ZenonT(40)
    <3>. QED
      BY <1>5, <3>1, <3>2
  <2>12. (w \o x) \o (y \o Before) = w \o (x \o (y \o Before))
    BY <1>3, <1>5, <2>11, Regroup, ZenonT(40)
  <2>13. c.out = w \o (z \o Before)
    BY <2>4, <2>11, <2>12, Zenon
  <2>. QED
    BY <2>6, <2>7, <2>10, <2>13, Zenon
<1>8. p \in p .. Len(Content) + 1 /\ k \in Nat
  BY <1>1, <1>2, <1>6
<1>9. c.in /\ c.actions = k + 1
  BY <1>4
<1>. HIDE DEF c
<1>. QED
  BY <1>7, <1>8, <1>9 DEF Marked, c

\* Handing over marked text within a block.
LEMMA MarkedText ==
  ASSUME Setting, NEW b \in BlockState, NEW k, NEW o, NEW p \in o .. Len(Content) + 1,
         NEW from, NEW to, Marked(b, k, o), Text(from, to) = Slice(o, p)
  PROVE  Marked(ProcessMarked(b, from, to, FALSE), k, p)
<1>. DEFINE c == ProcessMarked(b, from, to, FALSE)
            g == Blocks[k + 1].from
            w == Written(k)
            h == When(KeepsUnmarked, Gap(k + 1)) \o Before
            x == When(KeepsMarked, Slice(g, o))
            y == When(KeepsMarked, Slice(o, p))
            z == When(KeepsMarked, Slice(g, p))
<1>1. /\ k \in Nat /\ k + 1 \in 1 .. Len(Blocks) /\ o \in g .. Len(Content) + 1
      /\ b.in /\ b.actions = k + 1
      /\ OutMatters => b.out = w \o (h \o x)
  BY DEF Marked
<1>2. Layout /\ Len(Content) \in Nat /\ Len(Blocks) \in Nat
  BY DEF Setting, Layout, BlocksOK
<1>3. g \in 1 .. Len(Content) + 1 /\ w \in Output /\ h \in Output
  <2>1. g \in 1 .. Len(Content) + 1
    BY <1>1 DEF Setting, BlocksOK
  <2>2. k \in 0 .. Len(Blocks)
    BY <1>1, <1>2
  <2>3. w \in Output
    BY <2>2, GapStartType
  <2>4. When(KeepsUnmarked, Gap(k + 1)) \in Output /\ Before \in Output
    BY <1>1, PieceType, OutputParts
  <2>5. h \in Output
    BY <2>4, OutputType
  <2>. QED
    BY <2>1, <2>3, <2>5
<1>4. /\ c.in /\ c.actions = k + 1
      /\ c.out = b.out \o MarkedOutput(Slice(o, p), FALSE)
  BY <1>1 DEF ProcessMarked
<1>5. x \o y = z /\ x \in Output /\ y \in Output
  <2>1. KeepsMarked \in BOOLEAN
    BY DEF KeepsMarked
  <2>. QED
    BY <1>1, <1>2, <1>3, <2>1, KeepMore
<1>6. o \in 1 .. Len(Content) + 1 /\ p \in 1 .. Len(Content) + 1
      /\ p \in g .. Len(Content) + 1
  BY <1>1, <1>2, <1>3
<1>7. ASSUME OutMatters
      PROVE  c.out = w \o (h \o z)
  <2>1. Slice(o, p) \in Output /\ Len(Blocks) > 0
    BY <1>1, <1>2, <1>6, SliceType
  <2>2. MarkedOutput(Slice(o, p), FALSE) = y \o When(FALSE, After)
    BY <1>7, <2>1, NotCat, MarkedWrites
  <2>3. When(FALSE, After) = <<>> /\ y \o <<>> = y
    BY <1>5, OutputParts DEF When
  <2>4. c.out = (w \o (h \o x)) \o y
    BY <1>1, <1>4, <1>7, <2>2, <2>3, Zenon
  <2>. HIDE DEF w, h, x, y, z
  <2>5. h \o x \in Output
    BY <1>3, <1>5, OutputType
  <2>6. (w \o (h \o x)) \o y = w \o ((h \o x) \o y)
    BY <1>3, <1>5, <2>5, Regroup, ZenonT(40)
  <2>7. (h \o x) \o y = h \o (x \o y)
    BY <1>3, <1>5, Regroup, ZenonT(40)
  <2>. QED
    BY <1>5, <2>4, <2>6, <2>7, Zenon
<1>. HIDE DEF c
<1>. QED
  BY <1>1, <1>4, <1>6, <1>7 DEF Marked, c

\* Handing over the marked text up to the end of a block closes the block.
LEMMA BlockCloses ==
  ASSUME Setting, NEW b \in BlockState, NEW k, NEW o, NEW p \in o .. Len(Content) + 1,
         NEW from, NEW to, Marked(b, k, o), Text(from, to) = Slice(o, p),
         Blocks[k + 1].to = p
  PROVE  Unmarked(ProcessMarked(b, from, to, TRUE), k + 1, p)
<1>. DEFINE c == ProcessMarked(b, from, to, TRUE)
            g == Blocks[k + 1].from
            w == Written(k)
            a == When(KeepsUnmarked, Gap(k + 1))
            h == a \o Before
            x == When(KeepsMarked, Slice(g, o))
            y == When(KeepsMarked, Slice(o, p))
            z == When(KeepsMarked, Slice(g, p))
<1>1. /\ k \in Nat /\ k + 1 \in 1 .. Len(Blocks) /\ o \in g .. Len(Content) + 1
      /\ b.in /\ b.actions = k + 1
      /\ OutMatters => b.out = w \o (h \o x)
  BY DEF Marked
<1>2. Layout /\ Len(Content) \in Nat /\ Len(Blocks) \in Nat
  BY DEF Setting, Layout, BlocksOK
<1>3. g \in 1 .. Len(Content) + 1 /\ w \in Output /\ h \in Output
  <2>1. g \in 1 .. Len(Content) + 1
    BY <1>1 DEF Setting, BlocksOK
  <2>2. k \in 0 .. Len(Blocks)
    BY <1>1, <1>2
  <2>3. w \in Output
    BY <2>2, GapStartType
  <2>4. a \in Output /\ Before \in Output
    BY <1>1, PieceType, OutputParts
  <2>5. h \in Output
    BY <2>4, OutputType
  <2>. QED
    BY <2>1, <2>3, <2>5
<1>4. /\ ~c.in /\ c.actions = k + 1
      /\ c.out = b.out \o MarkedOutput(Slice(o, p), TRUE)
  BY <1>1 DEF ProcessMarked
<1>5. x \o y = z /\ x \in Output /\ y \in Output /\ z \in Output
  <2>1. KeepsMarked \in BOOLEAN
    BY DEF KeepsMarked
  <2>2. x \o y = z /\ x \in Output /\ y \in Output
    BY ZenonT(60), <1>1, <1>2, <1>3, <2>1, KeepMore
  <2>. QED
    BY <2>2, OutputType
<1>6. o \in 1 .. Len(Content) + 1 /\ p \in 1 .. Len(Content) + 1 /\ p \in Int
  BY <1>1, <1>2, <1>3
<1>7. k + 1 \in 0 .. Len(Blocks) /\ (k + 1) - 1 = k /\ (k + 1) + 1 # 1
      /\ ((k + 1) + 1) - 1 = k + 1 /\ p \in p .. Len(Content) + 1
  BY <1>1, <1>2, <1>6
<1>8. GapStart((k + 1) + 1) = p
  BY <1>7 DEF GapStart
<1>9. ASSUME OutMatters
      PROVE  c.out = Written(k + 1)
  <2>1. Slice(o, p) \in Output /\ Len(Blocks) > 0
    BY <1>1, <1>2, <1>6, SliceType
  <2>2. MarkedOutput(Slice(o, p), TRUE) = y \o When(TRUE, After)
    BY <1>9, <2>1, NotCat, MarkedWrites
  <2>3. When(TRUE, After) = After /\ After \in Output
    BY OutputParts DEF When
  <2>4. c.out = (w \o (h \o x)) \o (y \o After)
    BY <1>1, <1>4, <1>9, <2>2, <2>3, Zenon
  <2>5. Written(k + 1) = w \o BlockPiece(k + 1)
    BY <1>1, <1>7, WrittenGrows
  <2>6. BlockPiece(k + 1) = (h \o z) \o After
    BY DEF BlockPiece, Inside
  <2>. HIDE DEF w, h, x, y, z
  <2>7. h \o x \in Output /\ y \o After \in Output
    BY <1>3, <1>5, <2>3, OutputType
  <2>8. (w \o (h \o x)) \o (y \o After) = w \o ((h \o x) \o (y \o After))
    BY <1>3, <2>7, Regroup, ZenonT(40)
  <2>9. (h \o x) \o (y \o After) = h \o (x \o (y \o After))
    BY <1>3, <1>5, <2>7, Regroup, ZenonT(40)
  <2>10. (x \o y) \o After = x \o (y \o After)
    BY <1>5, <2>3, Regroup, ZenonT(40)
  <2>11. (h \o z) \o After = h \o (z \o After)
    BY <1>3, <1>5, <2>3, Regroup, ZenonT(40)
  <2>. QED
    BY <1>5, <2>4, <2>5, <2>6, <2>8, <2>9, <2>10, <2>11, Zenon
<1>10. When(KeepsUnmarked, Slice(p, p)) = <<>>
  BY <1>6, SliceEmpty DEF When
<1>11. ASSUME OutMatters
       PROVE  c.out = Written(k + 1) \o When(KeepsUnmarked, Slice(GapStart((k + 1) + 1), p))
  <2>1. Written(k + 1) \in Output
    BY <1>7, GapStartType
  <2>2. Written(k + 1) \o <<>> = Written(k + 1)
    BY <2>1, OutputParts
  <2>. QED
    BY <1>8, <1>9, <1>10, <1>11, <2>2, Zenon
<1>. HIDE DEF c
<1>. QED
  BY <1>4, <1>7, <1>8, <1>11 DEF Unmarked, c

\* At the end of the text everything has been written.
LEMMA AllWritten ==
  ASSUME Setting, NEW b, Unmarked(b, Len(Blocks), Len(Content) + 1), OutMatters
  PROVE  b.out = ManualOutput
<1>. DEFINE n == Len(Blocks)
<1>1. n \in Nat /\ Len(Content) \in Nat
  BY DEF Setting, Layout, BlocksOK
<1>2. n + 1 > Len(Blocks)
  BY <1>1
<1>3. Gap(n + 1) = Slice(GapStart(n + 1), Len(Content) + 1)
  BY <1>2 DEF Gap
<1>4. b.out = Written(n) \o When(KeepsUnmarked, Gap(n + 1))
  BY <1>3 DEF Unmarked
<1>5. b.out = BlockOutput
  BY <1>4 DEF BlockOutput, Written
<1>. QED
  BY <1>5 DEF ManualOutput, OutMatters

-----------------------------------------------------------------------------
(* Lines selected by their numbers.                                        *)

\* The text of a line between two pointers is a piece of the text.
LEMMA LineText ==
  ASSUME TypeOK, Layout, lineNo > 0, NEW from \in 1 .. EndOfLine,
         NEW to \in from .. EndOfLine
  PROVE  LET o == LineStart[lineNo] + from - 1
             p == LineStart[lineNo] + to - 1
         IN  /\ o \in 1 .. Len(Content) + 1 /\ p \in o .. Len(Content) + 1
             /\ Text(from, to) = Slice(o, p)
<1>. DEFINE n == lineNo
            start == LineStart[n]
            o == start + from - 1
            p == start + to - 1
<1>1. n \in 1 .. Len(input) /\ n \in 1 .. Len(input) + 1 /\ n + 1 \in 1 .. Len(input) + 1
  BY DEF TypeOK, Layout
<1>2. Line = input[n]
  BY DEF Line
<1>3. /\ start \in Nat \ {0} /\ Len(input[n]) \in Nat /\ EndOfLine = Len(input[n]) + 1
      /\ LineStart[n + 1] = start + Len(input[n]) /\ Len(Content) \in Nat
  BY <1>1, <1>2 DEF Layout, EndOfLine
<1>4. LineStart[n + 1] <= Len(Content) + 1
  <2>1. /\ Len(input) + 1 \in 1 .. Len(input) + 1
        /\ LineStart[Len(input) + 1] = Len(Content) + 1
        /\ n + 1 = Len(input) + 1 \/ n + 1 < Len(input) + 1
    BY <1>1 DEF Layout
  <2>2. n + 1 < Len(input) + 1 => LineStart[n + 1] < LineStart[Len(input) + 1]
    BY <1>1, <2>1, LineOrder
  <2>3. LineStart[n + 1] \in Nat
    BY <1>1 DEF Layout
  <2>. QED
    BY <1>3, <2>1, <2>2, <2>3
<1>5. /\ from \in 1 .. Len(input[n]) + 1 /\ to \in from .. Len(input[n]) + 1
  BY <1>3
<1>6. SubSeq(input[n], from, to - 1) = Slice(o, p)
  BY <1>1, <1>5, LineSlice
<1>7. o \in 1 .. Len(Content) + 1 /\ p \in o .. Len(Content) + 1
  <2>. HIDE DEF start
  <2>. QED
    BY <1>3, <1>4, <1>5
<1>. QED
  BY <1>2, <1>6, <1>7 DEF Text

\* The whole line.
LEMMA FullLineText ==
  ASSUME TypeOK, Layout, lineNo > 0
  PROVE  /\ lineNo \in 1 .. Len(input) /\ (lineNo - 1) + 1 = lineNo
         /\ LineStart[lineNo] \in 1 .. Len(Content) + 1
         /\ LineStart[lineNo + 1] \in LineStart[lineNo] .. Len(Content) + 1
         /\ Text(1, EndOfLine) = Slice(LineStart[lineNo], LineStart[lineNo + 1])
         /\ Text(1, 1) = Slice(LineStart[lineNo], LineStart[lineNo])
         /\ Text(EndOfLine, EndOfLine)
              = Slice(LineStart[lineNo + 1], LineStart[lineNo + 1])
         /\ LineStart[lineNo] + EndOfLine - 1 = LineStart[lineNo + 1]
<1>1. lineNo \in 1 .. Len(input) /\ lineNo \in 1 .. Len(input) + 1
      /\ (lineNo - 1) + 1 = lineNo
  BY DEF TypeOK, Layout
<1>2. /\ LineStart[lineNo] \in Nat \ {0} /\ Len(input[lineNo]) \in Nat
      /\ EndOfLine = Len(input[lineNo]) + 1
      /\ LineStart[lineNo + 1] = LineStart[lineNo] + Len(input[lineNo])
  BY <1>1 DEF Layout, EndOfLine, Line
<1>3. /\ LineStart[lineNo] + 1 - 1 = LineStart[lineNo]
      /\ LineStart[lineNo] + EndOfLine - 1 = LineStart[lineNo + 1]
      /\ 1 \in 1 .. EndOfLine /\ EndOfLine \in 1 .. EndOfLine
      /\ EndOfLine \in EndOfLine .. EndOfLine
  BY <1>2
<1>4. /\ LineStart[lineNo] \in 1 .. Len(Content) + 1
      /\ LineStart[lineNo + 1] \in LineStart[lineNo] .. Len(Content) + 1
      /\ Text(1, EndOfLine) = Slice(LineStart[lineNo], LineStart[lineNo + 1])
  <2>1. LET o == LineStart[lineNo] + 1 - 1
            p == LineStart[lineNo] + EndOfLine - 1
        IN  /\ o \in 1 .. Len(Content) + 1 /\ p \in o .. Len(Content) + 1
            /\ Text(1, EndOfLine) = Slice(o, p)
    BY <1>1, <1>3, LineText
  <2>. QED
    BY <1>3, <2>1
<1>5. /\ Text(1, 1) = <<>> /\ Text(EndOfLine, EndOfLine) = <<>>
  BY <1>3, SubSeqEmpty DEF Text
<1>6. /\ Slice(LineStart[lineNo], LineStart[lineNo]) = <<>>
      /\ Slice(LineStart[lineNo + 1], LineStart[lineNo + 1]) = <<>>
  BY <1>2, SliceEmpty
<1>. QED
  BY <1>1, <1>3, <1>4, <1>5, <1>6

SelectionEnd == NumberedLine(arg.to)

Selected ==
  /\ FirstSelected \in 1 .. Len(input)
  /\ SelectionEnd = 0 \/ FirstSelected <= SelectionEnd

\* The block the line numbers give.
LEMMA SelectedBlock ==
  ASSUME TypeOK, Layout, ~TagsGiven, ~SelectionEndWraps
  PROVE  /\ FirstSelected \in Int /\ SelectionEnd \in Int
         /\ ~Selected => Blocks = <<>> /\ Len(Blocks) = 0
         /\ Selected =>
              /\ Len(Blocks) = 1
              /\ Blocks[1].from = LineStart[FirstSelected]
              /\ Blocks[1].to = IF SelectionEnd = 0 \/ SelectionEnd > Len(input)
                                  THEN Len(Content) + 1
                                  ELSE LineStart[SelectionEnd + 1]
<1>. DEFINE N == Len(input)
            F == FirstSelected
            T == SelectionEnd
<1>1. /\ N \in Nat /\ DOMAIN input = 1 .. N /\ LineStart[N + 1] = Len(Content) + 1
      /\ arg.from \in Int /\ arg.to \in Int
  BY DEF TypeOK, CommandLine, Layout
<1>2. F \in Int /\ T \in Int
  BY <1>1 DEF FirstSelected, SelectionEnd, NumberedLine
<1>3. LastSelected = IF T = 0 THEN N ELSE T
  <2>1. arg.to = 0 => T = 0
    BY DEF SelectionEnd, NumberedLine
  <2>2. arg.to > 0 => T # 0
    BY <1>1 DEF SelectionEnd, NumberedLine
  <2>3. arg.to < 0 => T # 0
    BY <1>1 DEF SelectionEnd, SelectionEndWraps, LastSelected
  <2>. QED
    BY <1>1, <2>1, <2>2, <2>3 DEF LastSelected, SelectionEnd
<1>4. Blocks = SelectedBlocks
  BY DEF Blocks, TagsGiven
<1>. HIDE DEF N, F, T
<1>5. Selected <=> F \in 1 .. N /\ F <= LastSelected
  <2>1. Selected <=> F \in 1 .. N /\ (T = 0 \/ F <= T)
    BY DEF Selected, F, N, T
  <2>. QED
    BY <1>1, <1>2, <1>3, <2>1
<1>6. SelectedBlocks =
        IF Selected
        THEN <<[from |-> LineStart[F],
                to   |-> IF LastSelected <= N THEN LineStart[LastSelected + 1]
                                              ELSE Len(Content) + 1]>>
        ELSE <<>>
  BY <1>1, <1>5 DEF SelectedBlocks, F, N
<1>7. ~Selected => Blocks = <<>> /\ Len(Blocks) = 0
  BY <1>4, <1>6
<1>8. ASSUME Selected
      PROVE  /\ Len(Blocks) = 1 /\ Blocks[1].from = LineStart[F]
             /\ Blocks[1].to = IF LastSelected <= N THEN LineStart[LastSelected + 1]
                                                    ELSE Len(Content) + 1
  BY <1>4, <1>6, <1>8
<1>9. (IF LastSelected <= N THEN LineStart[LastSelected + 1] ELSE Len(Content) + 1)
        = IF T = 0 \/ T > N THEN Len(Content) + 1 ELSE LineStart[T + 1]
  BY <1>1, <1>2, <1>3
<1>. QED
  BY <1>2, <1>7, <1>8, <1>9 DEF F, T, N

\* In either way, the blocks lie within the text.
LEMMA BlocksLieWithin ==
  ASSUME TypeOK, Layout, TagsGiven \/ ~SelectionEndWraps
  PROVE  BlocksOK
<1>1. Len(Content) \in Nat
  BY DEF Layout
<1>2. CASE TagsGiven
  <2>1. TagText
    BY <1>2, TextOfTags
  <2>2. 1 \in 1 .. Len(Content) + 1
    BY <1>1
  <2>3. Blocks \in Seq(Interval(Len(Content)))
    BY <2>1, <2>2, BlocksAreTagBlocks
  <2>4. Len(Blocks) \in Nat /\ \A i \in 1 .. Len(Blocks) : Blocks[i] \in Interval(Len(Content))
    BY <2>3, LenProperties, ElementOfSeq
  <2>. QED
    BY <2>4 DEF BlocksOK, Interval
<1>3. CASE ~TagsGiven
  <2>1. CASE ~Selected
    <3>1. Len(Blocks) = 0
      BY <1>3, <2>1, SelectedBlock
    <3>. QED
      BY <3>1 DEF BlocksOK
  <2>2. CASE Selected
    <3>1. /\ Len(Blocks) = 1 /\ FirstSelected \in 1 .. Len(input)
          /\ Blocks[1].from = LineStart[FirstSelected]
          /\ SelectionEnd \in Int
          /\ Blocks[1].to = IF SelectionEnd = 0 \/ SelectionEnd > Len(input)
                                  THEN Len(Content) + 1
                                  ELSE LineStart[SelectionEnd + 1]
      BY <1>3, <2>2, SelectedBlock DEF Selected
    <3>2. \A i \in 1 .. Len(input) + 1 : LineStart[i] \in 1 .. Len(Content) + 1
      <4>. SUFFICES ASSUME NEW i \in 1 .. Len(input) + 1
                    PROVE  LineStart[i] \in 1 .. Len(Content) + 1
        OBVIOUS
      <4>1. /\ Len(input) \in Nat /\ Len(input) + 1 \in 1 .. Len(input) + 1
            /\ LineStart[Len(input) + 1] = Len(Content) + 1
            /\ i = Len(input) + 1 \/ i < Len(input) + 1
            /\ LineStart[i] \in Nat \ {0}
        BY DEF Layout
      <4>2. i < Len(input) + 1 => LineStart[i] < LineStart[Len(input) + 1]
        BY <4>1, LineOrder
      <4>. QED
        BY <1>1, <4>1, <4>2
    <3>3. FirstSelected \in 1 .. Len(input) + 1
      BY <3>1 DEF Layout
    <3>4. /\ ~(SelectionEnd = 0 \/ SelectionEnd > Len(input))
             => SelectionEnd + 1 \in 1 .. Len(input) + 1
      BY <2>2, <3>1 DEF Selected, Layout
    <3>5. Blocks[1].from \in 1 .. Len(Content) + 1 /\ Blocks[1].to \in 1 .. Len(Content) + 1
      <4>1. Len(Content) + 1 \in 1 .. Len(Content) + 1
        BY <1>1
      <4>. QED
        BY <3>1, <3>2, <3>3, <3>4, <4>1
    <3>. QED
      BY <3>1, <3>5 DEF BlocksOK
  <2>. QED
    BY <2>1, <2>2
<1>. QED
  BY <1>2, <1>3

\* The state of the blocks behind n lines.
SelectionOpen(n) ==
  /\ FirstSelected > 0 /\ n >= FirstSelected
  /\ SelectionEnd = 0 \/ n < SelectionEnd

SelectionsEnded(n) ==
  IF Selected /\ SelectionEnd # 0 /\ SelectionEnd <= n THEN 1 ELSE 0

SelectedTo(b, n) ==
  IF SelectionOpen(n) THEN Marked(b, 0, LineStart[n + 1])
  ELSE Unmarked(b, SelectionsEnded(n), LineStart[n + 1])

\* What the lemmas need to know while lines are selected.
SelectionSetting ==
  /\ Setting /\ ~TagsGiven /\ ~SelectionEndWraps
  /\ opt.from = FirstSelected /\ opt.to = SelectionEnd

LEMMA NothingWritten ==
  ASSUME Setting, NEW b, ~b.in, b.actions = 0, b.out = <<>>
  PROVE  Unmarked(b, 0, 1)
<1>1. Len(Blocks) \in Nat /\ Len(Content) \in Nat
  BY DEF Setting, BlocksOK, Layout
<1>2. 0 + 1 = 1 /\ 0 \in 0 .. Len(Blocks) /\ 1 \in 1 .. Len(Content) + 1
  BY <1>1
<1>3. GapStart(0 + 1) = 1
  BY <1>2 DEF GapStart
<1>4. When(KeepsUnmarked, Slice(1, 1)) = <<>>
  BY SliceEmpty DEF When
<1>5. Written(0) = <<>>
  BY WrittenGrows
<1>6. <<>> \o <<>> = <<>>
  BY OutputParts, OutputType
<1>7. b.out = Written(0) \o When(KeepsUnmarked, Slice(GapStart(0 + 1), 1))
  BY <1>3, <1>4, <1>5, <1>6, Zenon
<1>. QED
  BY <1>2, <1>3, <1>7 DEF Unmarked

LEMMA SelectionStarts ==
  ASSUME Setting, ~TagsGiven, ~SelectionEndWraps, NEW b, Unmarked(b, 0, 1)
  PROVE  SelectedTo(b, 0)
<1>1. FirstSelected \in Int /\ SelectionEnd \in Int
  BY SelectedBlock DEF Setting
<1>2. ~SelectionOpen(0)
  BY <1>1 DEF SelectionOpen
<1>3. SelectionsEnded(0) = 0
  BY <1>1 DEF SelectionsEnded, Selected
<1>4. LineStart[0 + 1] = 1
  <2>1. 0 + 1 = 1
    OBVIOUS
  <2>. QED
    BY <2>1 DEF Setting, Layout
<1>. QED
  BY <1>2, <1>3, <1>4 DEF SelectedTo

LEMMA PlainLineHandled ==
  ASSUME SelectionSetting, lineNo > 0, SelectedTo(blk, lineNo - 1), ~InSelection
  PROVE  SelectedTo(ProcessUnmarked(blk, 1, EndOfLine, FALSE), lineNo)
<1>1. /\ TypeOK /\ Layout /\ Setting /\ blk \in BlockState
      /\ FirstSelected \in Int /\ SelectionEnd \in Int
      /\ opt.from = FirstSelected /\ opt.to = SelectionEnd
  BY SelectedBlock DEF SelectionSetting, Setting, TypeOK
<1>2. lineNo \in 1 .. Len(input) /\ (lineNo - 1) + 1 = lineNo
  BY <1>1, FullLineText
<1>3. ~SelectionOpen(lineNo - 1) /\ ~SelectionOpen(lineNo)
  BY <1>1, <1>2 DEF InSelection, SelectionOpen
<1>4. SelectionsEnded(lineNo - 1) = SelectionsEnded(lineNo)
  BY <1>1, <1>2 DEF InSelection, SelectionsEnded, Selected
<1>5. Unmarked(blk, SelectionsEnded(lineNo), LineStart[lineNo])
  BY <1>2, <1>3, <1>4 DEF SelectedTo
<1>6. Unmarked(ProcessUnmarked(blk, 1, EndOfLine, FALSE), SelectionsEnded(lineNo),
               LineStart[lineNo + 1])
  BY <1>1, <1>5, FullLineText, UnmarkedText
<1>. QED
  BY <1>3, <1>6 DEF SelectedTo

LEMMA SelectedLineHandled ==
  ASSUME SelectionSetting, lineNo > 0, SelectedTo(blk, lineNo - 1), InSelection
  PROVE  LET opened == IF lineNo = opt.from
                         THEN ProcessUnmarked(blk, 1, 1, TRUE) ELSE blk
             marked == ProcessMarked(opened, 1, EndOfLine, FALSE)
         IN  SelectedTo(IF lineNo = opt.to
                          THEN ProcessMarked(marked, EndOfLine, EndOfLine, TRUE)
                          ELSE marked, lineNo)
<1>. DEFINE opened == IF lineNo = opt.from
                        THEN ProcessUnmarked(blk, 1, 1, TRUE) ELSE blk
            marked == ProcessMarked(opened, 1, EndOfLine, FALSE)
            closed == ProcessMarked(marked, EndOfLine, EndOfLine, TRUE)
            o == LineStart[lineNo]
            p == LineStart[lineNo + 1]
<1>1. /\ TypeOK /\ Layout /\ Setting /\ blk \in BlockState
      /\ FirstSelected \in Int /\ SelectionEnd \in Int
      /\ opt.from = FirstSelected /\ opt.to = SelectionEnd
  BY SelectedBlock DEF SelectionSetting, Setting, TypeOK
<1>2. /\ lineNo \in 1 .. Len(input) /\ (lineNo - 1) + 1 = lineNo
      /\ o \in 1 .. Len(Content) + 1 /\ p \in o .. Len(Content) + 1
      /\ Text(1, EndOfLine) = Slice(o, p)
      /\ Text(1, 1) = Slice(o, o)
      /\ Text(EndOfLine, EndOfLine) = Slice(p, p)
  BY <1>1, FullLineText
<1>3. /\ FirstSelected > 0 /\ lineNo >= FirstSelected
      /\ SelectionEnd = 0 \/ lineNo <= SelectionEnd
  BY <1>1 DEF InSelection
<1>4. Selected
  BY <1>1, <1>2, <1>3 DEF Selected
<1>5. /\ Len(Blocks) = 1 /\ Blocks[1].from = LineStart[FirstSelected]
      /\ Blocks[1].to = IF SelectionEnd = 0 \/ SelectionEnd > Len(input)
                          THEN Len(Content) + 1 ELSE LineStart[SelectionEnd + 1]
  BY <1>4, SelectedBlock DEF SelectionSetting, Setting
<1>t. /\ 1 \in 1 .. EndOfLine /\ EndOfLine \in 1 .. EndOfLine
      /\ opened \in BlockState /\ marked \in BlockState
      /\ o \in o .. Len(Content) + 1 /\ p \in p .. Len(Content) + 1
  <2>1. 1 \in 1 .. EndOfLine /\ EndOfLine \in 1 .. EndOfLine
    BY <1>1, LineType
  <2>2. opened \in BlockState
    BY <1>1, <2>1, UnmarkedType
  <2>. HIDE DEF opened
  <2>3. marked \in BlockState
    BY <1>1, <2>1, <2>2, MarkedType
  <2>4. Len(Content) \in Nat
    BY <1>1 DEF Layout
  <2>5. o \in o .. Len(Content) + 1 /\ p \in p .. Len(Content) + 1
    <3>. HIDE DEF o, p
    <3>. QED
      BY <1>2, <2>4
  <2>. QED
    BY <2>1, <2>2, <2>3, <2>5
<1>. HIDE DEF o, p
<1>6. Marked(opened, 0, o)
  <2>1. CASE lineNo = opt.from
    <3>1. ~SelectionOpen(lineNo - 1)
      BY <1>1, <1>2, <2>1 DEF SelectionOpen
    <3>2. SelectionsEnded(lineNo - 1) = 0
      BY <1>1, <1>2, <2>1 DEF SelectionsEnded, Selected
    <3>3. Unmarked(blk, 0, o)
      BY <1>2, <3>1, <3>2 DEF SelectedTo, o
    <3>4. 0 + 1 \in 1 .. Len(Blocks) /\ Blocks[0 + 1].from = o
      <4>1. 0 + 1 = 1
        OBVIOUS
      <4>. QED
        BY <1>1, <1>5, <2>1, <4>1 DEF o
    <3>5. Marked(ProcessUnmarked(blk, 1, 1, TRUE), 0, o)
      BY <1>1, <1>2, <1>t, <3>3, <3>4, BlockOpens
    <3>. QED
      BY <2>1, <3>5
  <2>2. CASE lineNo # opt.from
    <3>1. SelectionOpen(lineNo - 1)
      BY <1>1, <1>2, <1>3, <2>2 DEF SelectionOpen
    <3>. QED
      BY <1>2, <2>2, <3>1 DEF SelectedTo, o
  <2>. QED
    BY <2>1, <2>2
<1>. HIDE DEF opened
<1>7. Marked(marked, 0, p)
  BY <1>1, <1>2, <1>6, <1>t, MarkedText
<1>. HIDE DEF marked
<1>8. SelectedTo(IF lineNo = opt.to THEN closed ELSE marked, lineNo)
  <2>1. CASE lineNo = opt.to
    <3>1. Blocks[0 + 1].to = p
      <4>1. SelectionEnd = lineNo /\ SelectionEnd # 0 /\ ~(SelectionEnd > Len(input))
        BY <1>1, <1>2, <2>1
      <4>2. 0 + 1 = 1
        OBVIOUS
      <4>. QED
        BY <1>5, <4>1, <4>2 DEF p
    <3>2. Unmarked(closed, 0 + 1, p)
      BY <1>1, <1>2, <1>7, <1>t, <3>1, BlockCloses
    <3>3. ~SelectionOpen(lineNo)
      BY <1>1, <1>2, <2>1 DEF SelectionOpen
    <3>4. SelectionsEnded(lineNo) = 0 + 1
      BY <1>1, <1>2, <1>4, <2>1 DEF SelectionsEnded
    <3>. HIDE DEF closed
    <3>. QED
      BY <2>1, <3>2, <3>3, <3>4 DEF SelectedTo, p
  <2>2. CASE lineNo # opt.to
    <3>1. SelectionOpen(lineNo)
      BY <1>1, <1>2, <1>3, <2>2 DEF SelectionOpen
    <3>. QED
      BY <1>7, <2>2, <3>1 DEF SelectedTo, p
  <2>. QED
    BY <2>1, <2>2
<1>. QED
  BY <1>8 DEF opened, marked

\* The end of the text closes a block that is open.
LEMMA LastBlockCloses ==
  ASSUME Setting, NEW b \in BlockState, NEW k, Marked(b, k, Len(Content) + 1),
         Blocks[k + 1].to = Len(Content) + 1
  PROVE  /\ Unmarked(ProcessMarked(b, 1, 1, TRUE), k + 1, Len(Content) + 1)
         /\ b.in /\ b.actions = k + 1
<1>1. Len(Content) \in Nat
  BY DEF Setting, Layout
<1>2. Len(Content) + 1 \in Len(Content) + 1 .. Len(Content) + 1 /\ Len(Content) + 1 \in Int
  BY <1>1
<1>3. Text(1, 1) = Slice(Len(Content) + 1, Len(Content) + 1)
  <2>1. Text(1, 1) = <<>>
    BY SubSeqEmpty DEF Text
  <2>. QED
    BY <1>2, <2>1, SliceEmpty
<1>4. Unmarked(ProcessMarked(b, 1, 1, TRUE), k + 1, Len(Content) + 1)
  BY <1>2, <1>3, BlockCloses
<1>. QED
  BY <1>4 DEF Marked

\* All blocks have been handled, but for one that ends with the text.
Finished(b) ==
  /\ b.actions = Len(Blocks)
  /\ Unmarked(IF b.in THEN ProcessMarked(b, 1, 1, TRUE) ELSE b,
              Len(Blocks), Len(Content) + 1)

LEMMA SelectionFinished ==
  ASSUME Setting, ~TagsGiven, ~SelectionEndWraps, SelectedTo(blk, Len(input))
  PROVE  Finished(blk)
<1>1. /\ TypeOK /\ Layout /\ blk \in BlockState
      /\ FirstSelected \in Int /\ SelectionEnd \in Int /\ Len(input) \in Nat
      /\ LineStart[Len(input) + 1] = Len(Content) + 1
  BY SelectedBlock DEF Setting, TypeOK, Layout
<1>2. CASE SelectionOpen(Len(input))
  <2>1. Selected
    BY <1>1, <1>2 DEF SelectionOpen, Selected
  <2>2. SelectionEnd = 0 \/ SelectionEnd > Len(input)
    BY <1>1, <1>2 DEF SelectionOpen
  <2>3. Len(Blocks) = 1 /\ Blocks[1].to = Len(Content) + 1
    BY <1>1, <2>1, <2>2, SelectedBlock
  <2>4. Marked(blk, 0, Len(Content) + 1)
    BY <1>1, <1>2 DEF SelectedTo
  <2>5. 0 + 1 = 1
    OBVIOUS
  <2>6. /\ Unmarked(ProcessMarked(blk, 1, 1, TRUE), 0 + 1, Len(Content) + 1)
        /\ blk.in /\ blk.actions = 0 + 1
    BY <1>1, <2>3, <2>4, <2>5, LastBlockCloses
  <2>. QED
    BY <2>3, <2>5, <2>6 DEF Finished
<1>3. CASE ~SelectionOpen(Len(input))
  <2>1. Unmarked(blk, SelectionsEnded(Len(input)), Len(Content) + 1)
    BY <1>1, <1>3 DEF SelectedTo
  <2>2. SelectionsEnded(Len(input)) = Len(Blocks)
    <3>1. CASE Selected
      <4>1. SelectionEnd # 0 /\ SelectionEnd <= Len(input)
        BY <1>1, <1>3, <3>1 DEF Selected, SelectionOpen
      <4>. QED
        BY <1>1, <3>1, <4>1, SelectedBlock DEF SelectionsEnded
    <3>2. CASE ~Selected
      BY <1>1, <3>2, SelectedBlock DEF SelectionsEnded
    <3>. QED
      BY <3>1, <3>2
  <2>3. ~blk.in /\ blk.actions = Len(Blocks)
    BY <2>1, <2>2 DEF Unmarked
  <2>. QED
    BY <2>1, <2>2, <2>3 DEF Finished
<1>. QED
  BY <1>2, <1>3

-----------------------------------------------------------------------------
(* Lines with tags.                                                        *)

\* The search goes on at a position, for a begin marker or within a block for
\* an end marker.
SearchingAt(b, tag, position) ==
  \E k : IF tag = arg.begin
           THEN Unmarked(b, k, position) /\ SearchBegin(k, position)
           ELSE Marked(b, k, position) /\ SearchEnd(k, position)

\* The rest of a line whose marker has been handled lies between position and
\* next: it belongs to the block and may end it, or lies in front of a block
\* that begins with the next line.
RestAt(b, tag, position, next) ==
  \E k :
    IF arg.include
    THEN /\ Marked(b, k, position)
         /\ IF tag = arg.begin
              THEN Blocks[k + 1].to = next /\ SearchBegin(k + 1, next)
              ELSE SearchEnd(k, next)
    ELSE /\ Unmarked(b, k, position)
         /\ \/ /\ SameMarkers
               /\ k + 1 \in 1 .. Len(Blocks) /\ Blocks[k + 1].from = next
               /\ Blocks[k + 1].to = next /\ SearchBegin(k + 1, next)
            \/ /\ ~SameMarkers /\ tag # arg.begin
               /\ k + 1 \in 1 .. Len(Blocks) /\ Blocks[k + 1].from = next
               /\ SearchEnd(k, next)
            \/ /\ ~SameMarkers /\ tag = arg.begin
               /\ SearchBegin(k, next)

\* What the lemmas need to know while a line with tags is handled.
TagSetting ==
  /\ Setting /\ TagText /\ MarkersSeparate /\ TagsWithinLines
  /\ opt.begin = arg.begin /\ opt.end = NormalisedEndTag
  /\ opt.include = arg.include /\ opt.full = arg.full
  /\ lineNo > 0 /\ marker \in {arg.begin, NormalisedEndTag}
  /\ arg.full /\ pc = "line" => ptr = 1

\* The position in the text of a pointer into the line.
Position(c) == LineStart[lineNo] + c - 1

LEMMA PositionOf ==
  ASSUME TypeOK, Layout, lineNo > 0, NEW from \in 1 .. EndOfLine,
         NEW to \in from .. EndOfLine
  PROVE  /\ Position(from) \in 1 .. Len(Content) + 1
         /\ Position(to) \in Position(from) .. Len(Content) + 1
         /\ Text(from, to) = Slice(Position(from), Position(to))
         /\ from = to => Text(1, 1) = Slice(Position(from), Position(to))
<1>1. LET o == LineStart[lineNo] + from - 1
          p == LineStart[lineNo] + to - 1
      IN  /\ o \in 1 .. Len(Content) + 1 /\ p \in o .. Len(Content) + 1
          /\ Text(from, to) = Slice(o, p)
  BY LineText
<1>2. Text(1, 1) = <<>> /\ \A c \in Int : Text(c, c) = <<>>
  BY SubSeqEmpty DEF Text
<1>3. from = to => Text(from, to) = <<>>
  <2>1. from \in Int
    OBVIOUS
  <2>. QED
    BY <1>2, <2>1
<1>. QED
  BY <1>1, <1>2, <1>3 DEF Position

LEMMA EndPosition ==
  ASSUME TypeOK, Layout, lineNo > 0
  PROVE  /\ Position(EndOfLine) = LineStart[lineNo + 1]
         /\ Position(1) = LineStart[lineNo]
         /\ lineNo \in 1 .. Len(input) /\ Line = input[lineNo]
         /\ EndOfLine = Len(input[lineNo]) + 1
         /\ 1 \in 1 .. EndOfLine /\ EndOfLine \in 1 .. EndOfLine
         /\ ptr \in 1 .. EndOfLine /\ EndOfLine \in ptr .. EndOfLine
<1>1. lineNo \in 1 .. Len(input) /\ LineStart[lineNo] + EndOfLine - 1 = LineStart[lineNo + 1]
      /\ LineStart[lineNo] \in 1 .. Len(Content) + 1
  BY FullLineText
<1>2. LineStart[lineNo] + 1 - 1 = LineStart[lineNo]
  BY <1>1
<1>3. Line = input[lineNo]
  BY DEF Line
<1>4. EndOfLine \in Nat \ {0} /\ ptr \in 1 .. EndOfLine
  BY LineType DEF TypeOK
<1>. QED
  BY <1>1, <1>2, <1>3, <1>4 DEF Position, EndOfLine

LEMMA TagTypes ==
  ASSUME TagSetting
  PROVE  /\ arg.begin \in Seq(Chars) /\ NormalisedEndTag \in Seq(Chars)
         /\ arg.begin # NoTag /\ NormalisedEndTag # NoTag
         /\ SameMarkers <=> SameTags
         /\ TypeOK /\ Layout /\ Setting /\ TagText /\ lineNo > 0 /\ blk \in BlockState
         /\ arg.include \in BOOLEAN /\ arg.full \in BOOLEAN
<1>1. arg.begin \in Seq(Chars) /\ arg.end \in Seq(Chars) /\ arg.begin # NoTag
  BY DEF TagSetting, Setting, TypeOK, CommandLine, Tags, TagText, TagsGiven
<1>2. NormalisedEndTag \in Seq(Chars) /\ NormalisedEndTag # NoTag
  BY <1>1 DEF NormalisedEndTag
<1>3. SameMarkers <=> SameTags
  BY DEF SameMarkers, SameTags, TagSetting
<1>. QED
  BY <1>1, <1>2, <1>3 DEF TagSetting, Setting, TypeOK, TagText

\* A marker found in a line is the first one ahead.
LEMMA TagAhead ==
  ASSUME TagSetting, ~arg.full, NEW tag \in {arg.begin, NormalisedEndTag},
         MarkerFound(tag)
  PROVE  LET m == MarkerAt(Position(NextMarker), tag)
         IN  /\ m.from = Position(NextMarker) /\ m.to = Position(Behind)
             /\ m \in From(Markers(tag), Position(ptr))
             /\ \A n \in From(Markers(tag), Position(ptr)) : m.from <= n.from
             /\ NextMarker \in ptr .. EndOfLine
             /\ Behind \in NextMarker .. EndOfLine
<1>1. /\ TypeOK /\ Layout /\ lineNo > 0 /\ TagText /\ TagsWithinLines
      /\ marker = tag /\ NextMarker # 0
  BY TagTypes DEF TagSetting, MarkerFound
<1>2. PlainTag(tag)
  BY <1>1, PlainTags
<1>3. /\ lineNo \in 1 .. Len(input) /\ Line = input[lineNo]
      /\ EndOfLine = Len(input[lineNo]) + 1 /\ ptr \in 1 .. EndOfLine
  BY <1>1, EndPosition
<1>4. NextMarker = Strstr(input[lineNo], ptr, tag)
  BY <1>1, <1>3 DEF NextMarker
<1>5. /\ NextMarker \in ptr .. EndOfLine /\ Behind \in ptr .. EndOfLine
      /\ Behind > NextMarker
  BY <1>1, MarkerInLine
<1>6. LET position == LineStart[lineNo] + ptr - 1
          m == MarkerAt(LineStart[lineNo] + NextMarker - 1, tag)
      IN  /\ m \in From(Markers(tag), position)
          /\ \A k \in From(Markers(tag), position) : m.from <= k.from
  <2>1. ptr \in 1 .. Len(input[lineNo]) + 1
    BY <1>3
  <2>. QED
    BY <1>1, <1>2, <1>3, <1>4, <2>1, TagFound
<1>7. Behind \in NextMarker .. EndOfLine
  BY <1>3, <1>5
<1>8. MarkerAt(Position(NextMarker), tag).to = Position(Behind)
  <2>1. MarkerAt(Position(NextMarker), tag).to = Position(NextMarker) + Len(tag)
    BY DEF MarkerAt
  <2>2. Behind = NextMarker + Len(tag)
    BY <1>1 DEF Behind
  <2>3. LineStart[lineNo] \in Nat /\ Len(tag) \in Nat
    BY <1>1, <1>2, FullLineText, LenProperties DEF PlainTag
  <2>. QED
    BY <1>3, <1>5, <2>1, <2>2, <2>3 DEF Position
<1>9. MarkerAt(Position(NextMarker), tag).from = Position(NextMarker)
  BY DEF MarkerAt
<1>. QED
  BY <1>5, <1>6, <1>7, <1>8, <1>9 DEF Position

LEMMA LineAhead ==
  ASSUME TagSetting, arg.full, pc = "line", NEW tag \in {arg.begin, NormalisedEndTag},
         MarkerFound(tag)
  PROVE  LET m == [from |-> LineStart[lineNo], to |-> LineStart[lineNo + 1]]
         IN  /\ m.from = Position(ptr) /\ m.to = Position(EndOfLine)
             /\ m \in From(Markers(tag), Position(ptr))
             /\ \A n \in From(Markers(tag), Position(ptr)) : m.from <= n.from
             /\ ptr = 1 /\ Behind \in ptr .. EndOfLine
<1>1. /\ TypeOK /\ Layout /\ lineNo > 0 /\ ptr = 1 /\ tag \in Seq(Chars)
      /\ marker = tag /\ NextMarker # 0
  BY TagTypes DEF TagSetting, MarkerFound
<1>2. /\ lineNo \in 1 .. Len(input) /\ Line = input[lineNo]
      /\ Position(1) = LineStart[lineNo]
      /\ Position(EndOfLine) = LineStart[lineNo + 1]
  BY <1>1, EndPosition
<1>3. Strstr(input[lineNo], 1, tag) # 0
  BY <1>1, <1>2 DEF NextMarker
<1>4. LET m == [from |-> LineStart[lineNo], to |-> LineStart[lineNo + 1]]
      IN  /\ m \in From(Markers(tag), LineStart[lineNo])
          /\ \A k \in From(Markers(tag), LineStart[lineNo]) : m.from <= k.from
  BY <1>1, <1>2, <1>3, LineFound
<1>5. Behind \in ptr .. EndOfLine
  BY <1>1, MarkerInLine
<1>. QED
  BY <1>1, <1>2, <1>4, <1>5

\* If none is found, the markers ahead are those behind the line.
LEMMA NoMarkerAhead ==
  ASSUME TagSetting, pc = "line", NextMarker = 0
  PROVE  From(Markers(marker), Position(ptr)) = From(Markers(marker), Position(EndOfLine))
<1>1. /\ TypeOK /\ Layout /\ lineNo > 0 /\ TagText /\ TagsWithinLines
      /\ marker \in {arg.begin, NormalisedEndTag} /\ marker \in Seq(Chars)
      /\ arg.full \in BOOLEAN /\ arg.full => ptr = 1
  BY TagTypes DEF TagSetting
<1>2. /\ lineNo \in 1 .. Len(input) /\ Line = input[lineNo]
      /\ EndOfLine = Len(input[lineNo]) + 1 /\ ptr \in 1 .. EndOfLine
      /\ Position(1) = LineStart[lineNo]
      /\ Position(EndOfLine) = LineStart[lineNo + 1]
  BY <1>1, EndPosition
<1>3. Strstr(input[lineNo], ptr, marker) = 0
  BY <1>2 DEF NextMarker
<1>4. CASE arg.full
  <2>1. From(Markers(marker), LineStart[lineNo]) = From(Markers(marker), LineStart[lineNo + 1])
    BY <1>1, <1>2, <1>3, <1>4, LineNotFound
  <2>. QED
    BY <1>1, <1>2, <1>4, <2>1
<1>5. CASE ~arg.full
  <2>1. PlainTag(marker)
    BY <1>1, <1>5, PlainTags
  <2>2. ptr \in 1 .. Len(input[lineNo]) + 1
    BY <1>2
  <2>3. From(Markers(marker), LineStart[lineNo] + ptr - 1)
          = From(Markers(marker), LineStart[lineNo + 1])
    BY <1>1, <1>2, <1>3, <2>1, <2>2, TagNotFound
  <2>. QED
    BY <1>2, <2>3 DEF Position
<1>. QED
  BY <1>1, <1>4, <1>5

\* A marker in front of which the pointer stays hides no other marker.
LEMMA NothingHidden ==
  ASSUME TagText, MarkersSeparate, ~arg.full, ~SameMarkers
  PROVE  /\ \A m \in BeginMarkers : From(EndMarkers, m.from) = From(EndMarkers, m.to)
         /\ \A m \in EndMarkers : From(BeginMarkers, m.from) = From(BeginMarkers, m.to)
<1>1. \A b \in BeginMarkers, e \in EndMarkers : b.to <= e.from \/ e.to <= b.from
  BY DEF MarkersSeparate, TagText, TagsGiven
<1>2. /\ \A m \in BeginMarkers : m.from \in Nat /\ m.to \in Nat /\ m.from < m.to
      /\ \A m \in EndMarkers : m.from \in Nat /\ m.to \in Nat /\ m.from < m.to
  BY DEF TagText, MarkersWithin
<1>3. ASSUME NEW b \in BeginMarkers, NEW e \in EndMarkers
      PROVE  /\ e.from >= b.from <=> e.from >= b.to
             /\ b.from >= e.from <=> b.from >= e.to
  <2>1. b.to <= e.from \/ e.to <= b.from
    BY <1>1
  <2>2. /\ b.from \in Nat /\ b.to \in Nat /\ b.from < b.to
        /\ e.from \in Nat /\ e.to \in Nat /\ e.from < e.to
    BY <1>2
  <2>. QED
    BY <2>1, <2>2
<1>. QED
  BY <1>3 DEF From

\* A line, or the rest of it, without a marker.
LEMMA RestOfLineHandled ==
  ASSUME TagSetting, pc = "line", SearchingAt(blk, marker, Position(ptr)), NextMarker = 0
  PROVE  SearchingAt(IF marker = opt.begin
                       THEN ProcessUnmarked(blk, ptr, EndOfLine, FALSE)
                       ELSE ProcessMarked(blk, ptr, EndOfLine, FALSE),
                     marker, LineStart[lineNo + 1])
<1>1. /\ TypeOK /\ Layout /\ lineNo > 0 /\ Setting /\ blk \in BlockState
      /\ marker \in {arg.begin, NormalisedEndTag} /\ opt.begin = arg.begin
  BY TagTypes DEF TagSetting
<1>2. /\ ptr \in 1 .. EndOfLine /\ EndOfLine \in ptr .. EndOfLine
      /\ Position(EndOfLine) = LineStart[lineNo + 1]
  BY <1>1, EndPosition
<1>3. /\ Position(EndOfLine) \in Position(ptr) .. Len(Content) + 1
      /\ Text(ptr, EndOfLine) = Slice(Position(ptr), Position(EndOfLine))
  BY <1>1, <1>2, PositionOf
<1>4. From(Markers(marker), Position(ptr)) = From(Markers(marker), Position(EndOfLine))
  BY NoMarkerAhead
<1>5. CASE marker = arg.begin
  <2>1. PICK k : Unmarked(blk, k, Position(ptr)) /\ SearchBegin(k, Position(ptr))
    BY <1>5 DEF SearchingAt
  <2>2. Unmarked(ProcessUnmarked(blk, ptr, EndOfLine, FALSE), k, Position(EndOfLine))
    BY <1>1, <1>3, <2>1, UnmarkedText
  <2>3. From(BeginMarkers, Position(ptr)) = From(BeginMarkers, Position(EndOfLine))
    BY <1>4, <1>5 DEF BeginMarkers
  <2>4. SearchBegin(k, Position(EndOfLine))
    BY <2>1, <2>3, SearchMoves
  <2>. QED
    BY <1>1, <1>2, <1>5, <2>2, <2>4 DEF SearchingAt
<1>6. CASE marker # arg.begin
  <2>1. PICK k : Marked(blk, k, Position(ptr)) /\ SearchEnd(k, Position(ptr))
    BY <1>6 DEF SearchingAt
  <2>2. Marked(ProcessMarked(blk, ptr, EndOfLine, FALSE), k, Position(EndOfLine))
    BY <1>1, <1>3, <2>1, MarkedText
  <2>3. From(EndMarkers, Position(ptr)) = From(EndMarkers, Position(EndOfLine))
    BY <1>1, <1>4, <1>6 DEF EndMarkers
  <2>4. SearchEnd(k, Position(EndOfLine))
    BY <2>1, <2>3, SearchMoves
  <2>. QED
    BY <1>1, <1>2, <1>6, <2>2, <2>4 DEF SearchingAt
<1>. QED
  BY <1>5, <1>6

\* The next block begins with a tag of the line.
LEMMA BeginTagHandled ==
  ASSUME TagSetting, pc = "line", SearchingAt(blk, marker, Position(ptr)),
         MarkerFound(opt.begin), ~opt.full
  PROVE  LET next   == IF opt.include THEN NextMarker ELSE Behind
             opened == ProcessUnmarked(blk, ptr, next, TRUE)
         IN  SearchingAt(IF SameTags THEN ProcessMarked(opened, next, Behind, TRUE)
                                     ELSE opened,
                         opt.end, Position(IF SameTags THEN Behind ELSE next))
<1>. DEFINE next   == IF opt.include THEN NextMarker ELSE Behind
            opened == ProcessUnmarked(blk, ptr, next, TRUE)
            closed == ProcessMarked(opened, next, Behind, TRUE)
            m == MarkerAt(Position(NextMarker), arg.begin)
<1>1. /\ TypeOK /\ Layout /\ lineNo > 0 /\ Setting /\ TagText /\ blk \in BlockState
      /\ marker = arg.begin /\ opt.begin = arg.begin /\ opt.end = NormalisedEndTag
      /\ opt.include = arg.include /\ ~arg.full /\ (SameMarkers <=> SameTags)
      /\ MarkersSeparate /\ arg.include \in BOOLEAN
  BY TagTypes DEF TagSetting, MarkerFound
<1>2. /\ m.from = Position(NextMarker) /\ m.to = Position(Behind)
      /\ m \in From(BeginMarkers, Position(ptr))
      /\ \A n \in From(BeginMarkers, Position(ptr)) : m.from <= n.from
      /\ NextMarker \in ptr .. EndOfLine
      /\ Behind \in NextMarker .. EndOfLine
  BY <1>1, TagAhead DEF BeginMarkers
<1>. HIDE DEF m
<1>3. PICK k : Unmarked(blk, k, Position(ptr)) /\ SearchBegin(k, Position(ptr))
  BY <1>1 DEF SearchingAt
<1>4. /\ k \in Nat /\ k + 1 \in 1 .. Len(Blocks)
      /\ Blocks[k + 1].from = IF arg.include THEN m.from ELSE m.to
      /\ ~SameMarkers => SearchEnd(k, m.to)
      /\ SameMarkers => Blocks[k + 1].to = m.to /\ SearchBegin(k + 1, m.to)
  BY <1>1, <1>2, <1>3, BlockBegins
<1>5. ptr \in 1 .. EndOfLine /\ EndOfLine \in Nat
  BY <1>1, LineType DEF TypeOK
<1>6. /\ next \in ptr .. EndOfLine /\ next \in 1 .. EndOfLine
      /\ Behind \in next .. EndOfLine /\ Behind \in 1 .. EndOfLine
      /\ Blocks[k + 1].from = Position(next)
  BY <1>1, <1>2, <1>4, <1>5
<1>. HIDE DEF next
<1>7. /\ Position(next) \in Position(ptr) .. Len(Content) + 1
      /\ Text(ptr, next) = Slice(Position(ptr), Position(next))
  BY <1>1, <1>5, <1>6, PositionOf
<1>8. opened \in BlockState /\ Marked(opened, k, Position(next))
  <2>1. opened \in BlockState
    BY <1>1, <1>5, <1>6, UnmarkedType
  <2>2. Marked(opened, k, Position(next))
    BY <1>1, <1>3, <1>4, <1>6, <1>7, BlockOpens
  <2>. QED
    BY <2>1, <2>2
<1>. HIDE DEF opened
<1>9. CASE SameTags
  <2>1. /\ Position(Behind) \in Position(next) .. Len(Content) + 1
        /\ Text(next, Behind) = Slice(Position(next), Position(Behind))
    BY <1>1, <1>6, PositionOf
  <2>2. Blocks[k + 1].to = Position(Behind) /\ SearchBegin(k + 1, Position(Behind))
    BY <1>1, <1>2, <1>4, <1>9
  <2>3. Unmarked(closed, k + 1, Position(Behind))
    BY <1>1, <1>8, <2>1, <2>2, BlockCloses
  <2>4. opt.end = arg.begin
    BY <1>1, <1>9 DEF SameTags
  <2>. HIDE DEF closed
  <2>5. SearchingAt(closed, opt.end, Position(Behind))
    BY <2>2, <2>3, <2>4 DEF SearchingAt
  <2>. QED
    BY <1>9, <2>5 DEF closed, opened, next
<1>10. CASE ~SameTags
  <2>1. SearchEnd(k, m.to) /\ opt.end # arg.begin
    BY <1>1, <1>4, <1>10 DEF SameTags
  <2>2. From(EndMarkers, m.from) = From(EndMarkers, m.to)
    <3>1. m \in BeginMarkers
      BY <1>2 DEF From
    <3>. QED
      BY <1>1, <1>10, <3>1, NothingHidden
  <2>3. SearchEnd(k, Position(next))
    <3>1. SearchEnd(k, m.from)
      BY <2>1, <2>2, SearchMoves
    <3>. QED
      BY <1>2, <2>1, <3>1 DEF next
  <2>4. SearchingAt(opened, opt.end, Position(next))
    BY <1>8, <2>1, <2>3 DEF SearchingAt
  <2>. QED
    BY <1>10, <2>4 DEF opened, next
<1>. QED
  BY <1>9, <1>10

\* The block ends with a tag of the line.
LEMMA EndTagHandled ==
  ASSUME TagSetting, pc = "line", SearchingAt(blk, marker, Position(ptr)),
         MarkerFound(opt.end), ~SameTags, ~opt.full
  PROVE  LET next == IF opt.include THEN Behind ELSE NextMarker
         IN  SearchingAt(ProcessMarked(blk, ptr, next, TRUE), opt.begin, Position(next))
<1>. DEFINE next == IF opt.include THEN Behind ELSE NextMarker
            closed == ProcessMarked(blk, ptr, next, TRUE)
            m == MarkerAt(Position(NextMarker), NormalisedEndTag)
<1>1. /\ TypeOK /\ Layout /\ lineNo > 0 /\ Setting /\ TagText /\ blk \in BlockState
      /\ marker = NormalisedEndTag /\ opt.begin = arg.begin /\ opt.end = NormalisedEndTag
      /\ opt.include = arg.include /\ ~arg.full /\ ~SameMarkers
      /\ MarkersSeparate /\ arg.include \in BOOLEAN /\ NormalisedEndTag # arg.begin
  BY TagTypes DEF TagSetting, MarkerFound, SameTags
<1>2. /\ m.from = Position(NextMarker) /\ m.to = Position(Behind)
      /\ m \in From(EndMarkers, Position(ptr))
      /\ \A n \in From(EndMarkers, Position(ptr)) : m.from <= n.from
      /\ NextMarker \in ptr .. EndOfLine
      /\ Behind \in NextMarker .. EndOfLine
  BY <1>1, TagAhead DEF EndMarkers
<1>. HIDE DEF m
<1>3. PICK k : Marked(blk, k, Position(ptr)) /\ SearchEnd(k, Position(ptr))
  BY <1>1 DEF SearchingAt
<1>4. /\ k \in Nat /\ k + 1 \in 1 .. Len(Blocks)
      /\ Blocks[k + 1].to = IF arg.include THEN m.to ELSE m.from
      /\ SearchBegin(k + 1, m.to)
  BY <1>1, <1>2, <1>3, BlockEnds
<1>5. ptr \in 1 .. EndOfLine /\ EndOfLine \in Nat
  BY <1>1, LineType DEF TypeOK
<1>6. /\ next \in ptr .. EndOfLine /\ Blocks[k + 1].to = Position(next)
  BY <1>1, <1>2, <1>4, <1>5
<1>7. SearchBegin(k + 1, Position(next))
  <2>1. m \in EndMarkers
    BY <1>2 DEF From
  <2>2. From(BeginMarkers, m.from) = From(BeginMarkers, m.to)
    BY <1>1, <2>1, NothingHidden
  <2>3. SearchBegin(k + 1, m.from)
    BY <1>4, <2>2, SearchMoves
  <2>. QED
    BY <1>2, <1>4, <2>3
<1>. HIDE DEF next
<1>8. /\ Position(next) \in Position(ptr) .. Len(Content) + 1
      /\ Text(ptr, next) = Slice(Position(ptr), Position(next))
  BY <1>1, <1>5, <1>6, PositionOf
<1>9. Unmarked(closed, k + 1, Position(next))
  BY <1>1, <1>3, <1>6, <1>8, BlockCloses
<1>. HIDE DEF closed
<1>10. SearchingAt(closed, opt.begin, Position(next))
  BY <1>1, <1>7, <1>9 DEF SearchingAt
<1>. QED
  BY <1>10 DEF closed, next

\* A full line begins the next block, or the block begins behind it.
LEMMA BeginLineHandled ==
  ASSUME TagSetting, pc = "line", SearchingAt(blk, marker, Position(ptr)),
         MarkerFound(opt.begin), opt.full
  PROVE  RestAt(IF opt.include
                  THEN ProcessMarked(ProcessUnmarked(blk, 1, 1, TRUE), ptr, Behind, FALSE)
                  ELSE ProcessUnmarked(blk, ptr, Behind, FALSE),
                opt.end, Position(Behind), Position(EndOfLine))
<1>. DEFINE m == [from |-> LineStart[lineNo], to |-> LineStart[lineNo + 1]]
            opened == ProcessUnmarked(blk, 1, 1, TRUE)
            marked == ProcessMarked(opened, ptr, Behind, FALSE)
            plain == ProcessUnmarked(blk, ptr, Behind, FALSE)
<1>1. /\ TypeOK /\ Layout /\ lineNo > 0 /\ Setting /\ TagText /\ blk \in BlockState
      /\ marker = arg.begin /\ opt.begin = arg.begin /\ opt.end = NormalisedEndTag
      /\ opt.include = arg.include /\ arg.full
      /\ SameMarkers <=> opt.end = arg.begin
  BY TagTypes DEF TagSetting, MarkerFound, SameMarkers
<1>2. /\ m.from = Position(ptr) /\ m.to = Position(EndOfLine)
      /\ m \in From(BeginMarkers, Position(ptr))
      /\ \A n \in From(BeginMarkers, Position(ptr)) : m.from <= n.from
      /\ ptr = 1 /\ Behind \in ptr .. EndOfLine
  BY <1>1, LineAhead DEF BeginMarkers
<1>. HIDE DEF m
<1>3. PICK k : Unmarked(blk, k, Position(ptr)) /\ SearchBegin(k, Position(ptr))
  BY <1>1 DEF SearchingAt
<1>4. /\ k \in Nat /\ k + 1 \in 1 .. Len(Blocks)
      /\ Blocks[k + 1].from = IF arg.include THEN m.from ELSE m.to
      /\ ~SameMarkers => SearchEnd(k, m.to)
      /\ SameMarkers => Blocks[k + 1].to = m.to /\ SearchBegin(k + 1, m.to)
  BY <1>1, <1>2, <1>3, BlockBegins
<1>5. ptr \in 1 .. EndOfLine /\ 1 \in 1 .. EndOfLine /\ ptr \in ptr .. EndOfLine
  BY <1>1, LineType DEF TypeOK
<1>6. /\ Position(Behind) \in Position(ptr) .. Len(Content) + 1
      /\ Text(ptr, Behind) = Slice(Position(ptr), Position(Behind))
  BY <1>1, <1>2, <1>5, PositionOf
<1>7. CASE opt.include
  <2>1. /\ Position(ptr) \in Position(ptr) .. Len(Content) + 1
        /\ Text(1, 1) = Slice(Position(ptr), Position(ptr))
    BY <1>1, <1>5, PositionOf
  <2>2. Blocks[k + 1].from = Position(ptr)
    BY <1>1, <1>2, <1>4, <1>7
  <2>3. opened \in BlockState
    BY <1>1, <1>5, UnmarkedType
  <2>4. Marked(opened, k, Position(ptr))
    BY <1>1, <1>3, <1>4, <2>1, <2>2, BlockOpens
  <2>. HIDE DEF opened
  <2>5. Marked(marked, k, Position(Behind))
    BY <1>1, <1>6, <2>3, <2>4, MarkedText
  <2>6. IF opt.end = arg.begin
          THEN Blocks[k + 1].to = Position(EndOfLine) /\ SearchBegin(k + 1, Position(EndOfLine))
          ELSE SearchEnd(k, Position(EndOfLine))
    BY <1>1, <1>2, <1>4
  <2>. HIDE DEF marked
  <2>7. RestAt(marked, opt.end, Position(Behind), Position(EndOfLine))
    BY <1>1, <1>7, <2>5, <2>6 DEF RestAt
  <2>. QED
    BY <1>7, <2>7 DEF marked, opened
<1>8. CASE ~opt.include
  <2>1. Unmarked(plain, k, Position(Behind))
    BY <1>1, <1>3, <1>6, UnmarkedText
  <2>2. Blocks[k + 1].from = Position(EndOfLine)
    BY <1>1, <1>2, <1>4, <1>8
  <2>3. \/ /\ SameMarkers
           /\ Blocks[k + 1].to = Position(EndOfLine) /\ SearchBegin(k + 1, Position(EndOfLine))
        \/ /\ ~SameMarkers /\ opt.end # arg.begin
           /\ SearchEnd(k, Position(EndOfLine))
    BY <1>1, <1>2, <1>4
  <2>. HIDE DEF plain
  <2>4. RestAt(plain, opt.end, Position(Behind), Position(EndOfLine))
    BY <1>1, <1>4, <1>8, <2>1, <2>2, <2>3 DEF RestAt
  <2>. QED
    BY <1>8, <2>4 DEF plain
<1>. QED
  BY <1>7, <1>8

\* A full line ends the block, or the block ends in front of it.
LEMMA EndLineHandled ==
  ASSUME TagSetting, pc = "line", SearchingAt(blk, marker, Position(ptr)),
         MarkerFound(opt.end), ~SameTags, opt.full
  PROVE  RestAt(IF opt.include
                  THEN ProcessMarked(blk, ptr, Behind, FALSE)
                  ELSE ProcessUnmarked(ProcessMarked(blk, 1, 1, TRUE), ptr, Behind, FALSE),
                opt.begin, Position(Behind), Position(EndOfLine))
<1>. DEFINE m == [from |-> LineStart[lineNo], to |-> LineStart[lineNo + 1]]
            closed == ProcessMarked(blk, 1, 1, TRUE)
            plain == ProcessUnmarked(closed, ptr, Behind, FALSE)
            marked == ProcessMarked(blk, ptr, Behind, FALSE)
<1>1. /\ TypeOK /\ Layout /\ lineNo > 0 /\ Setting /\ TagText /\ blk \in BlockState
      /\ marker = NormalisedEndTag /\ opt.begin = arg.begin /\ opt.end = NormalisedEndTag
      /\ opt.include = arg.include /\ arg.full /\ ~SameMarkers
      /\ NormalisedEndTag # arg.begin
  BY TagTypes DEF TagSetting, MarkerFound, SameTags
<1>2. /\ m.from = Position(ptr) /\ m.to = Position(EndOfLine)
      /\ m \in From(EndMarkers, Position(ptr))
      /\ \A n \in From(EndMarkers, Position(ptr)) : m.from <= n.from
      /\ ptr = 1 /\ Behind \in ptr .. EndOfLine
  BY <1>1, LineAhead DEF EndMarkers
<1>. HIDE DEF m
<1>3. PICK k : Marked(blk, k, Position(ptr)) /\ SearchEnd(k, Position(ptr))
  BY <1>1 DEF SearchingAt
<1>4. /\ k \in Nat /\ k + 1 \in 1 .. Len(Blocks)
      /\ Blocks[k + 1].to = IF arg.include THEN m.to ELSE m.from
      /\ SearchBegin(k + 1, m.to)
  BY <1>1, <1>2, <1>3, BlockEnds
<1>5. ptr \in 1 .. EndOfLine /\ 1 \in 1 .. EndOfLine /\ ptr \in ptr .. EndOfLine
  BY <1>1, LineType DEF TypeOK
<1>6. /\ Position(Behind) \in Position(ptr) .. Len(Content) + 1
      /\ Text(ptr, Behind) = Slice(Position(ptr), Position(Behind))
  BY <1>1, <1>2, <1>5, PositionOf
<1>7. CASE opt.include
  <2>1. Marked(marked, k, Position(Behind))
    BY <1>1, <1>3, <1>6, MarkedText
  <2>2. Blocks[k + 1].to = Position(EndOfLine) /\ SearchBegin(k + 1, Position(EndOfLine))
    BY <1>1, <1>2, <1>4, <1>7
  <2>. HIDE DEF marked
  <2>3. RestAt(marked, opt.begin, Position(Behind), Position(EndOfLine))
    BY <1>1, <1>7, <2>1, <2>2 DEF RestAt
  <2>. QED
    BY <1>7, <2>3 DEF marked
<1>8. CASE ~opt.include
  <2>1. /\ Position(ptr) \in Position(ptr) .. Len(Content) + 1
        /\ Text(1, 1) = Slice(Position(ptr), Position(ptr))
    BY <1>1, <1>5, PositionOf
  <2>2. Blocks[k + 1].to = Position(ptr) /\ SearchBegin(k + 1, Position(EndOfLine))
    BY <1>1, <1>2, <1>4, <1>8
  <2>3. closed \in BlockState
    BY <1>1, <1>5, MarkedType
  <2>4. Unmarked(closed, k + 1, Position(ptr))
    BY <1>1, <1>3, <2>1, <2>2, BlockCloses
  <2>. HIDE DEF closed
  <2>5. Unmarked(plain, k + 1, Position(Behind))
    BY <1>1, <1>6, <2>3, <2>4, UnmarkedText
  <2>. HIDE DEF plain
  <2>6. RestAt(plain, opt.begin, Position(Behind), Position(EndOfLine))
    BY <1>1, <1>8, <2>2, <2>5 DEF RestAt
  <2>. QED
    BY <1>8, <2>6 DEF plain, closed
<1>. QED
  BY <1>7, <1>8

\* The rest of a line whose marker has been handled.
LEMMA RestHandled ==
  ASSUME TagSetting, RestAt(blk, marker, Position(ptr), Position(EndOfLine))
  PROVE  SearchingAt(
           IF opt.include THEN ProcessMarked(blk, ptr, EndOfLine, marker = opt.begin)
           ELSE IF SameTags
             THEN ProcessMarked(ProcessUnmarked(blk, ptr, EndOfLine, TRUE),
                                EndOfLine, EndOfLine, TRUE)
             ELSE ProcessUnmarked(blk, ptr, EndOfLine, marker = opt.end),
           marker, LineStart[lineNo + 1])
<1>. DEFINE p == Position(EndOfLine)
            begins == marker = opt.begin
            ends == marker = opt.end
            opened == ProcessUnmarked(blk, ptr, EndOfLine, TRUE)
            closed == ProcessMarked(opened, EndOfLine, EndOfLine, TRUE)
            marked == ProcessMarked(blk, ptr, EndOfLine, begins)
            plain == ProcessUnmarked(blk, ptr, EndOfLine, ends)
<1>1. /\ TypeOK /\ Layout /\ lineNo > 0 /\ Setting /\ blk \in BlockState
      /\ marker \in {arg.begin, NormalisedEndTag}
      /\ opt.begin = arg.begin /\ opt.end = NormalisedEndTag
      /\ opt.include = arg.include /\ (SameMarkers <=> SameTags)
      /\ SameMarkers <=> arg.begin = NormalisedEndTag
  BY TagTypes DEF TagSetting, SameMarkers
<1>2. /\ ptr \in 1 .. EndOfLine /\ EndOfLine \in ptr .. EndOfLine
      /\ EndOfLine \in 1 .. EndOfLine /\ EndOfLine \in EndOfLine .. EndOfLine
      /\ p = LineStart[lineNo + 1]
  <2>1. EndOfLine \in Nat \ {0}
    BY <1>1, LineType
  <2>. QED
    BY <1>1, <2>1, EndPosition
<1>. HIDE DEF p
<1>3. /\ p \in Position(ptr) .. Len(Content) + 1
      /\ Text(ptr, EndOfLine) = Slice(Position(ptr), p)
  BY <1>1, <1>2, PositionOf DEF p
<1>4. p \in p .. Len(Content) + 1 /\ Text(EndOfLine, EndOfLine) = Slice(p, p)
  BY <1>1, <1>2, PositionOf DEF p
<1>5. begins \in BOOLEAN /\ ends \in BOOLEAN
      /\ (begins <=> marker = opt.begin) /\ (ends <=> marker = opt.end)
  OBVIOUS
<1>. HIDE DEF begins, ends
<1>6. CASE opt.include
  <2>1. PICK k : /\ Marked(blk, k, Position(ptr))
                 /\ IF marker = arg.begin THEN Blocks[k + 1].to = p /\ SearchBegin(k + 1, p)
                                          ELSE SearchEnd(k, p)
    BY <1>1, <1>6 DEF RestAt, p
  <2>2. CASE marker = arg.begin
    <3>1. begins = TRUE
      BY <1>1, <1>5, <2>2
    <3>2. Unmarked(ProcessMarked(blk, ptr, EndOfLine, TRUE), k + 1, p)
      BY <1>1, <1>3, <2>1, <2>2, BlockCloses
    <3>3. Unmarked(marked, k + 1, p)
      BY <3>1, <3>2
    <3>. HIDE DEF marked
    <3>4. SearchingAt(marked, marker, p)
      BY <2>1, <2>2, <3>3 DEF SearchingAt
    <3>. QED
      BY <1>2, <1>6, <3>4 DEF marked, begins
  <2>3. CASE marker # arg.begin
    <3>1. begins = FALSE
      BY <1>1, <1>5, <2>3
    <3>2. Marked(ProcessMarked(blk, ptr, EndOfLine, FALSE), k, p)
      BY <1>1, <1>3, <2>1, <2>3, MarkedText
    <3>3. Marked(marked, k, p)
      BY <3>1, <3>2
    <3>. HIDE DEF marked
    <3>4. SearchingAt(marked, marker, p)
      BY <2>1, <2>3, <3>3 DEF SearchingAt
    <3>. QED
      BY <1>2, <1>6, <3>4 DEF marked, begins
  <2>. QED
    BY <2>2, <2>3
<1>7. CASE ~opt.include
  <2>1. PICK k :
          /\ Unmarked(blk, k, Position(ptr))
          /\ \/ /\ SameMarkers
                /\ k + 1 \in 1 .. Len(Blocks) /\ Blocks[k + 1].from = p
                /\ Blocks[k + 1].to = p /\ SearchBegin(k + 1, p)
             \/ /\ ~SameMarkers /\ marker # arg.begin
                /\ k + 1 \in 1 .. Len(Blocks) /\ Blocks[k + 1].from = p
                /\ SearchEnd(k, p)
             \/ /\ ~SameMarkers /\ marker = arg.begin
                /\ SearchBegin(k, p)
    BY <1>1, <1>7 DEF RestAt, p
  <2>2. CASE SameMarkers
    <3>1. opened \in BlockState
      BY <1>1, <1>2, UnmarkedType
    <3>2. Marked(opened, k, p)
      BY <1>1, <1>3, <2>1, <2>2, BlockOpens
    <3>. HIDE DEF opened
    <3>3. Unmarked(closed, k + 1, p)
      BY <1>1, <1>4, <2>1, <2>2, <3>1, <3>2, BlockCloses
    <3>4. marker = arg.begin
      BY <1>1, <2>2
    <3>. HIDE DEF closed
    <3>5. SearchingAt(closed, marker, p)
      BY <2>1, <2>2, <3>3, <3>4 DEF SearchingAt
    <3>. QED
      BY <1>1, <1>2, <1>7, <2>2, <3>5 DEF closed, opened
  <2>3. CASE ~SameMarkers /\ marker # arg.begin
    <3>1. ends = TRUE
      BY <1>1, <1>5, <2>3
    <3>2. Marked(ProcessUnmarked(blk, ptr, EndOfLine, TRUE), k, p)
      BY <1>1, <1>3, <2>1, <2>3, BlockOpens
    <3>3. Marked(plain, k, p)
      BY <3>1, <3>2
    <3>. HIDE DEF plain
    <3>4. SearchingAt(plain, marker, p)
      BY <2>1, <2>3, <3>3 DEF SearchingAt
    <3>. QED
      BY <1>1, <1>2, <1>7, <2>3, <3>4 DEF plain, ends
  <2>4. CASE ~SameMarkers /\ marker = arg.begin
    <3>1. ends = FALSE
      BY <1>1, <1>5, <2>4
    <3>2. Unmarked(ProcessUnmarked(blk, ptr, EndOfLine, FALSE), k, p)
      BY <1>1, <1>3, <2>1, <2>4, UnmarkedText
    <3>3. Unmarked(plain, k, p)
      BY <3>1, <3>2
    <3>. HIDE DEF plain
    <3>4. SearchingAt(plain, marker, p)
      BY <2>1, <2>4, <3>3 DEF SearchingAt
    <3>. QED
      BY <1>1, <1>2, <1>7, <2>4, <3>4 DEF plain, ends
  <2>. QED
    BY <2>2, <2>3, <2>4
<1>. QED
  BY <1>6, <1>7

\* The search begins with the text and ends with it.
LEMMA SearchingStarts ==
  ASSUME Setting, TagText, NEW b, Unmarked(b, 0, 1)
  PROVE  SearchingAt(b, arg.begin, 1)
BY SearchStarts DEF SearchingAt

LEMMA SearchingFinished ==
  ASSUME Setting, TagText, NEW b \in BlockState, NEW tag,
         SearchingAt(b, tag, Len(Content) + 1)
  PROVE  Finished(b)
<1>1. CASE tag = arg.begin
  <2>1. PICK k : Unmarked(b, k, Len(Content) + 1) /\ SearchBegin(k, Len(Content) + 1)
    BY <1>1 DEF SearchingAt
  <2>2. k = Len(Blocks)
    BY <2>1, SearchFinished
  <2>3. ~b.in /\ b.actions = k
    BY <2>1 DEF Unmarked
  <2>. QED
    BY <2>1, <2>2, <2>3 DEF Finished
<1>2. CASE tag # arg.begin
  <2>1. PICK k : Marked(b, k, Len(Content) + 1) /\ SearchEnd(k, Len(Content) + 1)
    BY <1>2 DEF SearchingAt
  <2>2. k + 1 = Len(Blocks) /\ Blocks[k + 1].to = Len(Content) + 1
    BY <2>1, SearchFinished
  <2>3. /\ Unmarked(ProcessMarked(b, 1, 1, TRUE), k + 1, Len(Content) + 1)
        /\ b.in /\ b.actions = k + 1
    BY <2>1, <2>2, LastBlockCloses
  <2>. QED
    BY <2>2, <2>3 DEF Finished
<1>. QED
  BY <1>1, <1>2

-----------------------------------------------------------------------------
(* Numbered lines.                                                         *)

LinesNumbered(n) == FlattenSeq([i \in 1 .. n |-> Numeral(i) \o input[i]])

LEMMA NumberedGrows ==
  ASSUME Layout
  PROVE  /\ LinesNumbered(0) = <<>>
         /\ \A k \in 1 .. Len(input) :
               LinesNumbered(k) = LinesNumbered(k - 1) \o (Numeral(k) \o input[k])
<1>. DEFINE n == Len(input)
            piece(i) == Numeral(i) \o input[i]
            s == [i \in 1 .. n |-> piece(i)]
<1>1. n \in Nat /\ \A i \in 1 .. n : piece(i) \in Seq(OutputChars)
  <2>1. n \in Nat /\ \A i \in 1 .. n : i \in Nat /\ input[i] \in Seq(Chars)
    BY DEF Layout
  <2>2. \A i \in 1 .. n : Numeral(i) \in Output /\ input[i] \in Output
    BY <2>1, OutputType
  <2>3. \A i \in 1 .. n : piece(i) \in Output
    BY <2>2, OutputType
  <2>. HIDE DEF piece
  <2>. QED
    BY <2>1, <2>3, OutputParts
<1>. HIDE DEF piece
<1>2. s \in Seq(Seq(OutputChars)) /\ Len(s) = n /\ \A i \in 1 .. n : s[i] = piece(i)
  <2>. HIDE DEF n
  <2>1. s \in [1 .. n -> Seq(OutputChars)]
    BY <1>1
  <2>2. s \in UNION {[1 .. k -> Seq(OutputChars)] : k \in Nat}
    BY <1>1, <2>1, Zenon
  <2>3. s \in Seq(Seq(OutputChars))
    BY <2>2, SeqDef, Zenon
  <2>. QED
    BY <1>1, <2>1, <2>3, LenProperties
<1>3. PICK flat : FlattenedBy(flat, s, OutputChars)
  <2>. HIDE DEF s
  <2>. QED
    BY <1>2, FlattenedExists
<1>4. /\ flat[0] = <<>>
      /\ \A k \in 1 .. n : flat[k] = flat[k - 1] \o piece(k)
  <2>. HIDE DEF s, n
  <2>1. flat[0] = <<>> /\ \A k \in 1 .. n : flat[k] = flat[k - 1] \o s[k]
    BY <1>2, <1>3 DEF FlattenedBy
  <2>. QED
    BY <1>2, <2>1, Zenon
<1>5. ASSUME NEW k \in 0 .. n PROVE LinesNumbered(k) = flat[k]
  <2>. DEFINE t == [i \in 1 .. k |-> piece(i)]
              u == [i \in 1 .. k |-> s[i]]
  <2>1. t = u
    <3>. HIDE DEF s, n
    <3>1. \A i \in 1 .. k : i \in 1 .. n
      BY <1>1
    <3>2. \A i \in 1 .. k : s[i] = piece(i)
      BY <1>2, <3>1, Zenon
    <3>. QED
      BY <3>2
  <2>2. FlattenSeq(u) = flat[k]
    <3>. HIDE DEF s, n
    <3>. QED
      BY <1>2, <1>3, FlattenPrefix
  <2>3. LinesNumbered(k) = FlattenSeq(t)
    BY DEF LinesNumbered, piece
  <2>. HIDE DEF t, u
  <2>. QED
    BY <2>1, <2>2, <2>3
<1>. HIDE DEF n
<1>6. 0 \in 0 .. n /\ \A k \in 1 .. n : k \in 0 .. n /\ k - 1 \in 0 .. n
  BY <1>1
<1>7. LinesNumbered(0) = <<>>
  BY <1>4, <1>5, <1>6
<1>8. \A k \in 1 .. n : LinesNumbered(k) = LinesNumbered(k - 1) \o piece(k)
  BY <1>4, <1>5, <1>6, Zenon
<1>. QED
  BY <1>7, <1>8 DEF n, piece

\* Without a selection, enumerate has written the lines up to n.
Numbered(b, n) ==
  arg.mode = "enumerate" /\ ~Selecting => b.out = LinesNumbered(n)

LEMMA NumberedLineHandled ==
  ASSUME Setting, lineNo > 0, Numbered(blk, lineNo - 1)
  PROVE  Numbered(ProcessUnmarked(blk, 1, EndOfLine, FALSE), lineNo)
<1>. SUFFICES ASSUME arg.mode = "enumerate", ~Selecting
              PROVE  ProcessUnmarked(blk, 1, EndOfLine, FALSE).out = LinesNumbered(lineNo)
  BY DEF Numbered
<1>1. /\ TypeOK /\ Layout /\ opt.mode = "enumerate"
      /\ blk.out = LinesNumbered(lineNo - 1)
  BY DEF Setting, Numbered
<1>2. lineNo \in 1 .. Len(input) /\ Line = input[lineNo]
  BY <1>1, EndPosition
<1>3. Text(1, EndOfLine) = Line
  <2>1. Line \in Seq(Chars) /\ Len(Line) \in Nat /\ EndOfLine - 1 = Len(Line)
    BY <1>1, LineType DEF EndOfLine
  <2>. QED
    BY <2>1, SubSeqFull DEF Text
<1>4. UnmarkedOutput(Text(1, EndOfLine), FALSE) = Numeral(lineNo) \o input[lineNo]
  <2>1. UnmarkedOutput(Text(1, EndOfLine), FALSE) = Numeral(lineNo) \o Text(1, EndOfLine)
    BY <1>1 DEF UnmarkedOutput
  <2>. QED
    BY <1>2, <1>3, <2>1, Zenon
<1>5. ProcessUnmarked(blk, 1, EndOfLine, FALSE).out
        = blk.out \o UnmarkedOutput(Text(1, EndOfLine), FALSE)
  BY DEF ProcessUnmarked
<1>6. LinesNumbered(lineNo) = LinesNumbered(lineNo - 1) \o (Numeral(lineNo) \o input[lineNo])
  BY <1>1, <1>2, NumberedGrows
<1>. QED
  BY <1>1, <1>4, <1>5, <1>6, Zenon

-----------------------------------------------------------------------------
(* The invariant.                                                          *)

\* The options are those of the command line, normalised.
OptionsKept ==
  /\ opt.mode = arg.mode /\ opt.include = arg.include /\ opt.full = arg.full
  /\ opt.min = arg.min /\ opt.max = arg.max
  /\ IF TagsGiven THEN opt.begin = arg.begin /\ opt.end = NormalisedEndTag
                  ELSE opt.begin = NoTag

LimitsHold ==
  /\ arg.min < 0 \/ Len(Blocks) >= arg.min
  /\ arg.max < 0 \/ Len(Blocks) <= arg.max

\* The lines before the current one, and the current one up to the pointer,
\* have become what the manual says.
LinesHandled(b, n) == SelectedTo(b, n) /\ Numbered(b, n)

ReadOK(b, tag, n) ==
  IF TagsGiven THEN SearchingAt(b, tag, LineStart[n + 1]) ELSE LinesHandled(b, n)

LineOK(b, tag, n, c) ==
  IF TagsGiven
  THEN SearchingAt(b, tag, LineStart[n] + c - 1) /\ (arg.full => c = 1)
  ELSE LinesHandled(b, n - 1)

RestOK(b, tag, n, c) == RestAt(b, tag, LineStart[n] + c - 1, LineStart[n + 1])

AllDone(b) ==
  /\ Unmarked(b, Len(Blocks), Len(Content) + 1)
  /\ LimitsHold
  /\ Numbered(b, Len(input))

Progress ==
  /\ pc = "read" => ReadOK(blk, marker, lineNo)
  /\ pc = "line" => LineOK(blk, marker, lineNo, ptr)
  /\ pc = "rest" => RestOK(blk, marker, lineNo, ptr)
  /\ Success => AllDone(blk)

ManualInv ==
  /\ pc \in {"args", "open"} =>
        lineNo = 0 /\ ~blk.in /\ blk.actions = 0 /\ blk.out = <<>>
  /\ pc = "open" => OptionsKept /\ opt.from = arg.from /\ opt.to = arg.to
  /\ pc \in {"read", "line", "rest"} =>
        /\ OptionsKept
        /\ opt.from = FirstSelected /\ opt.to = SelectionEnd
  /\ exitCode # 0 => pc = "exit"
  /\ Success => opt.mode = arg.mode
  /\ Described => Progress

\* What depends on the text and the command line stays as it is with them.
LEMMA Frozen ==
  ASSUME UNCHANGED <<input, arg>>
  PROVE  /\ (Described' <=> Described) /\ (TagsGiven' <=> TagsGiven)
         /\ NormalisedEndTag' = NormalisedEndTag
         /\ FirstSelected' = FirstSelected /\ SelectionEnd' = SelectionEnd
         /\ Len(input)' = Len(input)
         /\ \A b, tag, n : ReadOK(b, tag, n)' <=> ReadOK(b, tag, n)
         /\ \A b, tag, n, c : LineOK(b, tag, n, c)' <=> LineOK(b, tag, n, c)
         /\ \A b, tag, n, c : RestOK(b, tag, n, c)' <=> RestOK(b, tag, n, c)
         /\ \A b : AllDone(b)' <=> AllDone(b)
<1>1. input' = input /\ arg' = arg
  OBVIOUS
<1>2. Content' = Content
  BY <1>1 DEF Content
<1>3. LineStart' = LineStart
  BY <1>1 DEF LineStart
<1>4. NormalisedEndTag' = NormalisedEndTag /\ TagsIgnored' = TagsIgnored
  BY <1>1 DEF NormalisedEndTag, TagsIgnored
<1>5. TagsGiven' = TagsGiven
  BY <1>1, <1>4 DEF TagsGiven
<1>6. BeginMarkers' = BeginMarkers /\ EndMarkers' = EndMarkers
  BY <1>1, <1>2, <1>3, <1>4
     DEF BeginMarkers, EndMarkers, Markers, LineMarkers, TagMarkers
<1>7. SameMarkers' = SameMarkers
  BY <1>1, <1>4 DEF SameMarkers
<1>8. Following' = Following
  BY <1>1, <1>2, <1>6, <1>7 DEF Following
<1>9. FirstSelected' = FirstSelected /\ LastSelected' = LastSelected
      /\ SelectionEnd' = SelectionEnd
  BY <1>1 DEF FirstSelected, LastSelected, SelectionEnd, NumberedLine
<1>10. SelectedBlocks' = SelectedBlocks
  BY <1>1, <1>2, <1>3, <1>9 DEF SelectedBlocks
<1>11. TagBlocks' = TagBlocks
  BY <1>8 DEF Following, TagBlocks
<1>12. Blocks' = Blocks
  BY <1>1, <1>4, <1>10, <1>11 DEF Blocks
<1>13. /\ MarkersSeparate' <=> MarkersSeparate
       /\ TagsWithinLines' <=> TagsWithinLines
       /\ SelectionEndWraps' <=> SelectionEndWraps
  <2>1. MarkersSeparate' <=> MarkersSeparate
    BY <1>1, <1>4, <1>6, <1>7 DEF MarkersSeparate
  <2>2. TagsWithinLines' <=> TagsWithinLines
    BY <1>1, <1>3, <1>4, <1>6 DEF TagsWithinLines
  <2>3. SelectionEndWraps' <=> SelectionEndWraps
    BY <1>1, <1>9 DEF SelectionEndWraps
  <2>. QED
    BY <2>1, <2>2, <2>3
<1>14. Described' <=> Described
  BY <1>13 DEF Described
<1>15. /\ KeepsUnmarked' = KeepsUnmarked /\ KeepsMarked' = KeepsMarked
       /\ Before' = Before /\ After' = After
       /\ (Selecting' <=> Selecting) /\ (OutMatters' <=> OutMatters)
  <2>1. KeepsUnmarked' = KeepsUnmarked /\ KeepsMarked' = KeepsMarked
    BY <1>1 DEF KeepsUnmarked, KeepsMarked
  <2>2. Before' = Before /\ After' = After
    BY <1>1 DEF Before, After
  <2>3. Selecting' <=> Selecting
    BY <1>1 DEF Selecting
  <2>4. OutMatters' <=> OutMatters
    BY <1>1, <2>3 DEF OutMatters, SelectionHasEffect
  <2>. QED
    BY <2>1, <2>2, <2>3, <2>4
<1>16. \A i, j : Slice(i, j)' = Slice(i, j)
  BY <1>2 DEF Slice
<1>17. \A i : /\ GapStart(i)' = GapStart(i)
              /\ Gap(i)' = Gap(i) /\ Inside(i)' = Inside(i)
  BY <1>2, <1>12, <1>16 DEF GapStart, Gap, Inside
<1>18. \A i : BlockPiece(i)' = BlockPiece(i)
  BY <1>15, <1>17 DEF BlockPiece
<1>19. \A k : Written(k)' = Written(k)
  BY <1>18 DEF Written
<1>20. \A b, k, p : Unmarked(b, k, p)' <=> Unmarked(b, k, p)
  BY <1>2, <1>12, <1>15, <1>16, <1>17, <1>19 DEF Unmarked
<1>21. \A b, k, p : Marked(b, k, p)' <=> Marked(b, k, p)
  BY <1>2, <1>12, <1>15, <1>16, <1>17, <1>19 DEF Marked
<1>22. \A q : FirstBegin(q)' = FirstBegin(q)
  BY <1>6 DEF FirstBegin
<1>23. \A k, q : Left(k, q)' <=> Left(k, q)
  BY <1>2, <1>8, <1>12 DEF Left
<1>24. \A k, p : SearchBegin(k, p)' <=> SearchBegin(k, p)
  BY <1>6, <1>23 DEF SearchBegin
<1>25. \A k, p : SearchEnd(k, p)' <=> SearchEnd(k, p)
  BY <1>6, <1>7, <1>22, <1>23 DEF SearchEnd
<1>26. \A n : /\ SelectionOpen(n)' <=> SelectionOpen(n)
              /\ SelectionsEnded(n)' = SelectionsEnded(n)
  BY <1>1, <1>9 DEF SelectionOpen, SelectionsEnded, Selected
<1>27. \A b, n : SelectedTo(b, n)' <=> SelectedTo(b, n)
  BY <1>3, <1>20, <1>21, <1>26 DEF SelectedTo
<1>28. \A n : LinesNumbered(n)' = LinesNumbered(n)
  BY <1>1 DEF LinesNumbered
<1>29. \A b, n : Numbered(b, n)' <=> Numbered(b, n)
  BY <1>1, <1>15, <1>28 DEF Numbered
<1>30. \A b, n : LinesHandled(b, n)' <=> LinesHandled(b, n)
  BY <1>27, <1>29 DEF LinesHandled
<1>31. \A b, tag, p : SearchingAt(b, tag, p)' <=> SearchingAt(b, tag, p)
  BY <1>1, <1>20, <1>21, <1>24, <1>25 DEF SearchingAt
<1>32. \A b, tag, p, q : RestAt(b, tag, p, q)' <=> RestAt(b, tag, p, q)
  BY <1>1, <1>7, <1>12, <1>20, <1>21, <1>24, <1>25 DEF RestAt
<1>33. \A b, tag, n : ReadOK(b, tag, n)' <=> ReadOK(b, tag, n)
  BY <1>3, <1>5, <1>30, <1>31 DEF ReadOK
<1>34. \A b, tag, n, c : LineOK(b, tag, n, c)' <=> LineOK(b, tag, n, c)
  BY <1>1, <1>3, <1>5, <1>30, <1>31 DEF LineOK
<1>35. \A b, tag, n, c : RestOK(b, tag, n, c)' <=> RestOK(b, tag, n, c)
  BY <1>3, <1>32 DEF RestOK
<1>36. \A b : AllDone(b)' <=> AllDone(b)
  BY <1>1, <1>2, <1>12, <1>20, <1>29 DEF AllDone, LimitsHold
<1>. QED
  BY <1>1, <1>4, <1>5, <1>9, <1>14, <1>33, <1>34, <1>35, <1>36

-----------------------------------------------------------------------------
(* The steps of the program.                                               *)

\* A step within the loop over the lines.
LEMMA LoopStep ==
  ASSUME ManualInv, UNCHANGED <<input, arg, opt, exitCode>>,
         pc \in {"read", "line", "rest"}, pc' \in {"read", "line", "rest"},
         Described =>
           /\ pc' = "read" => ReadOK(blk', marker', lineNo')
           /\ pc' = "line" => LineOK(blk', marker', lineNo', ptr')
           /\ pc' = "rest" => RestOK(blk', marker', lineNo', ptr')
  PROVE  ManualInv'
<1>1. input' = input /\ arg' = arg /\ opt' = opt /\ exitCode' = exitCode
  OBVIOUS
<1>2. exitCode = 0
  BY DEF ManualInv
<1>3. OptionsKept /\ opt.from = FirstSelected /\ opt.to = SelectionEnd
  BY DEF ManualInv
<1>4. OptionsKept' /\ opt'.from = FirstSelected' /\ opt'.to = SelectionEnd'
  <2>1. OptionsKept'
    BY <1>1, <1>3, Frozen DEF OptionsKept
  <2>. QED
    BY <1>1, <1>3, <2>1, Frozen
<1>5. ASSUME Described' PROVE Progress'
  <2>1. Described
    BY <1>1, <1>5, Frozen
  <2>2. ASSUME pc' = "read" PROVE ReadOK(blk, marker, lineNo)'
    <3>1. ReadOK(blk', marker', lineNo')
      BY <2>1, <2>2
    <3>. QED
      BY <1>1, <3>1, Frozen
  <2>3. ASSUME pc' = "line" PROVE LineOK(blk, marker, lineNo, ptr)'
    <3>1. LineOK(blk', marker', lineNo', ptr')
      BY <2>1, <2>3
    <3>. QED
      BY <1>1, <3>1, Frozen
  <2>4. ASSUME pc' = "rest" PROVE RestOK(blk, marker, lineNo, ptr)'
    <3>1. RestOK(blk', marker', lineNo', ptr')
      BY <2>1, <2>4
    <3>. QED
      BY <1>1, <3>1, Frozen
  <2>. QED
    BY <2>2, <2>3, <2>4 DEF Progress, Success
<1>. QED
  BY <1>1, <1>2, <1>4, <1>5 DEF ManualInv, Success

\* What the lemmas about lines need to know holds.
LEMMA SettingHolds ==
  ASSUME TypeOK, opt.mode = arg.mode, Described
  PROVE  Setting /\ TypeOK /\ Layout /\ MarkersSeparate /\ TagsWithinLines
         /\ ~SelectionEndWraps
<1>1. Layout
  BY TextLayout DEF TypeOK
<1>2. BlocksOK
  BY <1>1, BlocksLieWithin DEF Described
<1>3. arg.mode \in Modes
  BY DEF TypeOK, CommandLine
<1>. QED
  BY <1>1, <1>2, <1>3 DEF Setting, Described

LEMMA LoopSetting ==
  ASSUME TypeOK, BlockInv, ManualInv, pc \in {"read", "line", "rest"}
  PROVE  /\ exitCode = 0 /\ OptionsKept
         /\ opt.from = FirstSelected /\ opt.to = SelectionEnd
         /\ blk \in BlockState /\ lineNo \in Nat
         /\ opt.begin # NoTag <=> TagsGiven
         /\ pc # "rest" => (marker # NoTag <=> TagsGiven)
         /\ pc = "rest" => TagsGiven
         /\ Described =>
              /\ Progress /\ Setting
              /\ ~TagsGiven => SelectionSetting
              /\ TagsGiven => TagText
              /\ TagsGiven /\ pc # "read" => TagSetting
<1>1. /\ exitCode = 0 /\ OptionsKept
      /\ opt.from = FirstSelected /\ opt.to = SelectionEnd
      /\ Described => Progress
  BY DEF ManualInv
<1>2. blk \in BlockState /\ lineNo \in Nat
  BY LenProperties DEF TypeOK
<1>3. opt.begin # NoTag <=> TagsGiven
  BY <1>1 DEF OptionsKept, TagsGiven
<1>4. marker \in {opt.begin, opt.end} /\ (opt.begin = NoTag <=> opt.end = NoTag)
  BY DEF BlockInv
<1>5. pc = "rest" => TagsGiven
  BY <1>3 DEF BlockInv
<1>6. ASSUME Described
      PROVE  /\ Setting
             /\ ~TagsGiven => SelectionSetting
             /\ TagsGiven => TagText
             /\ TagsGiven /\ pc # "read" => TagSetting
  <2>1. Setting /\ MarkersSeparate /\ TagsWithinLines /\ ~SelectionEndWraps
    BY <1>1, <1>6, SettingHolds DEF OptionsKept
  <2>2. TagsGiven => TagText
    BY TextOfTags
  <2>3. ~TagsGiven => SelectionSetting
    BY <1>1, <2>1 DEF SelectionSetting
  <2>4. ASSUME TagsGiven, pc # "read" PROVE TagSetting
    <3>1. lineNo > 0
      BY <2>4 DEF BlockInv
    <3>2. /\ opt.begin = arg.begin /\ opt.end = NormalisedEndTag
          /\ opt.include = arg.include /\ opt.full = arg.full
      BY <1>1, <2>4 DEF OptionsKept
    <3>3. arg.full /\ pc = "line" => ptr = 1
      BY <1>1, <1>6, <2>4 DEF Progress, LineOK
    <3>. QED
      BY <1>4, <2>1, <2>2, <2>4, <3>1, <3>2, <3>3 DEF TagSetting
  <2>. QED
    BY <2>1, <2>2, <2>3, <2>4
<1>. QED
  BY <1>1, <1>2, <1>3, <1>4, <1>5, <1>6

\* A line without tags.
LEMMA SelectedLineStep ==
  ASSUME TypeOK, BlockInv, ManualInv, SelectedLine
  PROVE  ManualInv'
<1>1. /\ pc = "line" /\ marker = NoTag /\ InSelection /\ pc' = "read"
      /\ UNCHANGED <<input, arg, opt, lineNo, ptr, marker, exitCode>>
  BY DEF SelectedLine, At
<1>2. /\ ~TagsGiven /\ opt.from = FirstSelected /\ lineNo \in Nat /\ lineNo > 0
      /\ Described => Progress /\ SelectionSetting /\ Setting
  BY <1>1, LoopSetting DEF BlockInv
<1>3. ASSUME Described PROVE ReadOK(blk', marker', lineNo')
  <2>1. SelectedTo(blk, lineNo - 1)
    BY <1>1, <1>2, <1>3 DEF Progress, LineOK, LinesHandled
  <2>2. SelectedTo(blk', lineNo)
    BY <1>1, <1>2, <1>3, <2>1, SelectedLineHandled DEF SelectedLine
  <2>3. Numbered(blk', lineNo)
    <3>1. arg.from # 0
      <4>1. opt.from > 0
        BY <1>1 DEF InSelection
      <4>. QED
        BY <1>2, <4>1 DEF FirstSelected, NumberedLine
    <3>. QED
      BY <3>1 DEF Numbered, Selecting
  <2>. QED
    BY <1>1, <1>2, <2>2, <2>3 DEF ReadOK, LinesHandled
<1>. QED
  BY <1>1, <1>3, LoopStep

LEMMA PlainLineStep ==
  ASSUME TypeOK, BlockInv, ManualInv, PlainLine
  PROVE  ManualInv'
<1>1. /\ pc = "line" /\ marker = NoTag /\ ~InSelection /\ pc' = "read"
      /\ blk' = ProcessUnmarked(blk, 1, EndOfLine, FALSE)
      /\ UNCHANGED <<input, arg, opt, lineNo, ptr, marker, exitCode>>
  BY DEF PlainLine, At
<1>2. /\ ~TagsGiven /\ lineNo \in Nat /\ lineNo > 0
      /\ Described => Progress /\ SelectionSetting /\ Setting
  BY <1>1, LoopSetting DEF BlockInv
<1>3. ASSUME Described PROVE ReadOK(blk', marker', lineNo')
  <2>1. SelectedTo(blk, lineNo - 1) /\ Numbered(blk, lineNo - 1)
    BY <1>1, <1>2, <1>3 DEF Progress, LineOK, LinesHandled
  <2>2. SelectedTo(blk', lineNo)
    BY <1>1, <1>2, <1>3, <2>1, PlainLineHandled
  <2>3. Numbered(blk', lineNo)
    BY <1>1, <1>2, <1>3, <2>1, NumberedLineHandled
  <2>. QED
    BY <1>1, <1>2, <2>2, <2>3 DEF ReadOK, LinesHandled
<1>. QED
  BY <1>1, <1>3, LoopStep

\* A line, or the rest of it, without a tag.
LEMMA RestOfLineStep ==
  ASSUME TypeOK, BlockInv, ManualInv, RestOfLine
  PROVE  ManualInv'
<1>1. /\ pc = "line" /\ marker # NoTag /\ NextMarker = 0 /\ pc' = "read"
      /\ blk' = IF marker = opt.begin
                  THEN ProcessUnmarked(blk, ptr, EndOfLine, FALSE)
                  ELSE ProcessMarked(blk, ptr, EndOfLine, FALSE)
      /\ UNCHANGED <<input, arg, opt, lineNo, ptr, marker, exitCode>>
  BY DEF RestOfLine, At, EndLine
<1>2. TagsGiven /\ (Described => Progress /\ TagSetting)
  BY <1>1, LoopSetting
<1>3. ASSUME Described PROVE ReadOK(blk', marker', lineNo')
  <2>1. SearchingAt(blk, marker, Position(ptr))
    BY <1>1, <1>2, <1>3 DEF Progress, LineOK, Position
  <2>2. SearchingAt(blk', marker, LineStart[lineNo + 1])
    BY <1>1, <1>2, <1>3, <2>1, RestOfLineHandled
  <2>. QED
    BY <1>1, <1>2, <2>2 DEF ReadOK
<1>. QED
  BY <1>1, <1>3, LoopStep

\* The rest of a full line with a tag.
LEMMA RestOfTagLineStep ==
  ASSUME TypeOK, BlockInv, ManualInv, RestOfTagLine
  PROVE  ManualInv'
<1>1. /\ pc = "rest" /\ pc' = "read"
      /\ blk' = IF opt.include THEN ProcessMarked(blk, ptr, EndOfLine, marker = opt.begin)
                ELSE IF SameTags
                  THEN ProcessMarked(ProcessUnmarked(blk, ptr, EndOfLine, TRUE),
                                     EndOfLine, EndOfLine, TRUE)
                  ELSE ProcessUnmarked(blk, ptr, EndOfLine, marker = opt.end)
      /\ UNCHANGED <<input, arg, opt, lineNo, ptr, marker, exitCode>>
  BY DEF RestOfTagLine, At, EndLine
<1>2. TagsGiven /\ (Described => Progress /\ TagSetting)
  BY <1>1, LoopSetting
<1>3. ASSUME Described PROVE ReadOK(blk', marker', lineNo')
  <2>1. RestAt(blk, marker, Position(ptr), LineStart[lineNo + 1])
    BY <1>1, <1>2, <1>3 DEF Progress, RestOK, Position
  <2>2. Position(EndOfLine) = LineStart[lineNo + 1]
    BY <1>2, <1>3, TagTypes, EndPosition
  <2>3. SearchingAt(blk', marker, LineStart[lineNo + 1])
    BY <1>1, <1>2, <1>3, <2>1, <2>2, RestHandled
  <2>. QED
    BY <1>1, <1>2, <2>3 DEF ReadOK
<1>. QED
  BY <1>1, <1>3, LoopStep

\* A tag.
LEMMA BeginOfTagsOnlyStep ==
  ASSUME TypeOK, BlockInv, ManualInv, BeginOfTagsOnly
  PROVE  ManualInv'
<1>. DEFINE next == IF opt.include THEN NextMarker ELSE Behind
            opened == ProcessUnmarked(blk, ptr, next, TRUE)
            pointer == IF SameTags THEN Behind ELSE next
<1>1. /\ pc = "line" /\ pc' = "line" /\ MarkerFound(opt.begin) /\ ~opt.full
      /\ marker # NoTag
      /\ blk' = IF SameTags THEN ProcessMarked(opened, next, Behind, TRUE) ELSE opened
      /\ ptr' = pointer /\ marker' = opt.end
      /\ UNCHANGED <<input, arg, opt, lineNo, exitCode>>
  BY DEF BeginOfTagsOnly, MarkerFound, At, Continue
<1>2. TagsGiven /\ OptionsKept /\ (Described => Progress /\ TagSetting)
  BY <1>1, LoopSetting
<1>3. ASSUME Described PROVE LineOK(blk', marker', lineNo', ptr')
  <2>1. SearchingAt(blk, marker, Position(ptr))
    BY <1>1, <1>2, <1>3 DEF Progress, LineOK, Position
  <2>2. SearchingAt(IF SameTags THEN ProcessMarked(opened, next, Behind, TRUE)
                                ELSE opened, opt.end, Position(pointer))
    BY <1>1, <1>2, <1>3, <2>1, BeginTagHandled
  <2>3. ~arg.full
    BY <1>1, <1>2 DEF OptionsKept
  <2>. HIDE DEF opened, pointer
  <2>. QED
    BY <1>1, <1>2, <2>2, <2>3 DEF LineOK, Position
<1>. QED
  BY <1>1, <1>3, LoopStep

LEMMA EndOfTagsOnlyStep ==
  ASSUME TypeOK, BlockInv, ManualInv, EndOfTagsOnly
  PROVE  ManualInv'
<1>. DEFINE next == IF opt.include THEN Behind ELSE NextMarker
<1>1. /\ pc = "line" /\ pc' = "line" /\ MarkerFound(opt.end) /\ ~SameTags /\ ~opt.full
      /\ marker # NoTag
      /\ blk' = ProcessMarked(blk, ptr, next, TRUE)
      /\ ptr' = next /\ marker' = opt.begin
      /\ UNCHANGED <<input, arg, opt, lineNo, exitCode>>
  BY DEF EndOfTagsOnly, MarkerFound, At, Continue
<1>2. TagsGiven /\ OptionsKept /\ (Described => Progress /\ TagSetting)
  BY <1>1, LoopSetting
<1>3. ASSUME Described PROVE LineOK(blk', marker', lineNo', ptr')
  <2>1. SearchingAt(blk, marker, Position(ptr))
    BY <1>1, <1>2, <1>3 DEF Progress, LineOK, Position
  <2>2. SearchingAt(ProcessMarked(blk, ptr, next, TRUE), opt.begin, Position(next))
    BY <1>1, <1>2, <1>3, <2>1, EndTagHandled
  <2>3. ~arg.full
    BY <1>1, <1>2 DEF OptionsKept
  <2>. HIDE DEF next
  <2>. QED
    BY <1>1, <1>2, <2>2, <2>3 DEF LineOK, Position
<1>. QED
  BY <1>1, <1>3, LoopStep

\* A full line with a tag.
LEMMA BeginOfFullLinesStep ==
  ASSUME TypeOK, BlockInv, ManualInv, BeginOfFullLines
  PROVE  ManualInv'
<1>1. /\ pc = "line" /\ pc' = "rest" /\ MarkerFound(opt.begin) /\ opt.full
      /\ marker # NoTag
      /\ blk' = IF opt.include
                  THEN ProcessMarked(ProcessUnmarked(blk, 1, 1, TRUE), ptr, Behind, FALSE)
                  ELSE ProcessUnmarked(blk, ptr, Behind, FALSE)
      /\ ptr' = Behind /\ marker' = opt.end
      /\ UNCHANGED <<input, arg, opt, lineNo, exitCode>>
  BY DEF BeginOfFullLines, MarkerFound, At, Continue
<1>2. TagsGiven /\ (Described => Progress /\ TagSetting)
  BY <1>1, LoopSetting
<1>3. ASSUME Described PROVE RestOK(blk', marker', lineNo', ptr')
  <2>1. SearchingAt(blk, marker, Position(ptr))
    BY <1>1, <1>2, <1>3 DEF Progress, LineOK, Position
  <2>2. RestAt(blk', opt.end, Position(Behind), Position(EndOfLine))
    BY <1>1, <1>2, <1>3, <2>1, BeginLineHandled
  <2>3. Position(EndOfLine) = LineStart[lineNo + 1]
    BY <1>2, <1>3, TagTypes, EndPosition
  <2>. QED
    BY <1>1, <2>2, <2>3 DEF RestOK, Position
<1>. QED
  BY <1>1, <1>3, LoopStep

LEMMA EndOfFullLinesStep ==
  ASSUME TypeOK, BlockInv, ManualInv, EndOfFullLines
  PROVE  ManualInv'
<1>1. /\ pc = "line" /\ pc' = "rest" /\ MarkerFound(opt.end) /\ ~SameTags /\ opt.full
      /\ marker # NoTag
      /\ blk' = IF opt.include
                  THEN ProcessMarked(blk, ptr, Behind, FALSE)
                  ELSE ProcessUnmarked(ProcessMarked(blk, 1, 1, TRUE), ptr, Behind, FALSE)
      /\ ptr' = Behind /\ marker' = opt.begin
      /\ UNCHANGED <<input, arg, opt, lineNo, exitCode>>
  BY DEF EndOfFullLines, MarkerFound, At, Continue
<1>2. TagsGiven /\ (Described => Progress /\ TagSetting)
  BY <1>1, LoopSetting
<1>3. ASSUME Described PROVE RestOK(blk', marker', lineNo', ptr')
  <2>1. SearchingAt(blk, marker, Position(ptr))
    BY <1>1, <1>2, <1>3 DEF Progress, LineOK, Position
  <2>2. RestAt(blk', opt.begin, Position(Behind), Position(EndOfLine))
    BY <1>1, <1>2, <1>3, <2>1, EndLineHandled
  <2>3. Position(EndOfLine) = LineStart[lineNo + 1]
    BY <1>2, <1>3, TagTypes, EndPosition
  <2>. QED
    BY <1>1, <2>2, <2>3 DEF RestOK, Position
<1>. QED
  BY <1>1, <1>3, LoopStep

\* The program ends.
LEMMA ExitStep ==
  ASSUME UNCHANGED <<input, arg>>, pc' = "exit",
         exitCode' = 0 => opt'.mode = arg.mode,
         Described /\ exitCode' = 0 => AllDone(blk')
  PROVE  ManualInv'
<1>1. ASSUME Described' PROVE Progress'
  <2>1. Described
    BY <1>1, Frozen
  <2>2. ASSUME exitCode' = 0 PROVE AllDone(blk)'
    <3>1. AllDone(blk')
      BY <2>1, <2>2
    <3>. QED
      BY <3>1, Frozen
  <2>. QED
    BY <2>2 DEF Progress, Success
<1>. QED
  BY <1>1 DEF ManualInv, Success

\* A step before the first line.
LEMMA StartStep ==
  ASSUME UNCHANGED <<input, arg, lineNo, blk>>,
         pc' \in {"args", "open"}, exitCode' = 0,
         lineNo = 0 /\ ~blk.in /\ blk.actions = 0 /\ blk.out = <<>>,
         pc' = "open" => OptionsKept' /\ opt'.from = arg.from /\ opt'.to = arg.to
  PROVE  ManualInv'
<1>1. Progress'
  BY DEF Progress, Success
<1>. QED
  BY <1>1 DEF ManualInv, Success

LEMMA StutterStep ==
  ASSUME TypeOK, ManualInv, UNCHANGED vars
  PROVE  ManualInv'
<1>1. /\ UNCHANGED <<input, arg>> /\ opt' = opt /\ pc' = pc /\ lineNo' = lineNo
      /\ ptr' = ptr /\ marker' = marker /\ blk' = blk /\ exitCode' = exitCode
      /\ input' = input /\ arg' = arg
  BY DEF vars
<1>2. OptionsKept' <=> OptionsKept
  BY <1>1, Frozen DEF OptionsKept
<1>3. /\ ReadOK(blk, marker, lineNo)' <=> ReadOK(blk, marker, lineNo)
      /\ LineOK(blk, marker, lineNo, ptr)' <=> LineOK(blk, marker, lineNo, ptr)
      /\ RestOK(blk, marker, lineNo, ptr)' <=> RestOK(blk, marker, lineNo, ptr)
      /\ AllDone(blk)' <=> AllDone(blk)
  BY <1>1, Frozen
<1>4. Progress' <=> Progress
  BY <1>1, <1>3 DEF Progress, Success
<1>. QED
  BY <1>1, <1>2, <1>4, Frozen DEF ManualInv, Success

LEMMA CheckParametersStep ==
  ASSUME TypeOK, BlockInv, ManualInv, CheckParameters
  PROVE  ManualInv'
<1>1. /\ pc = "args" /\ UNCHANGED <<input, arg, lineNo, blk>> /\ opt = arg
      /\ exitCode = 0
  BY DEF CheckParameters, At, BlockInv, ManualInv
<1>2. lineNo = 0 /\ ~blk.in /\ blk.actions = 0 /\ blk.out = <<>>
  BY <1>1 DEF ManualInv
<1>3. CASE BadArguments
  <2>1. pc' = "exit" /\ exitCode' = 1
    BY <1>3 DEF CheckParameters, Exit
  <2>. QED
    BY <1>1, <2>1, ExitStep
<1>4. CASE ~BadArguments
  <2>1. /\ pc' = "open" /\ exitCode' = 0
        /\ opt' = [opt EXCEPT
                    !.begin = IF TagsIgnored THEN NoTag ELSE @,
                    !.end   = IF TagsIgnored THEN NoTag ELSE NormalisedEndTag]
    BY <1>1, <1>4 DEF CheckParameters
  <2>2. arg \in CommandLine
    BY DEF TypeOK
  <2>3. /\ opt'.mode = arg.mode /\ opt'.include = arg.include /\ opt'.full = arg.full
        /\ opt'.min = arg.min /\ opt'.max = arg.max
        /\ opt'.from = arg.from /\ opt'.to = arg.to
        /\ opt'.begin = IF TagsIgnored THEN NoTag ELSE arg.begin
        /\ opt'.end = IF TagsIgnored THEN NoTag ELSE NormalisedEndTag
    BY <1>1, <2>1, <2>2 DEF CommandLine
  <2>4. TagsGiven' <=> TagsGiven
    BY <1>1, Frozen
  <2>5. NormalisedEndTag' = NormalisedEndTag /\ arg' = arg
    BY <1>1, Frozen
  <2>6. OptionsKept'
    BY <2>3, <2>4, <2>5 DEF OptionsKept, TagsGiven
  <2>. QED
    BY <1>1, <1>2, <2>1, <2>3, <2>6, StartStep
<1>. QED
  BY <1>3, <1>4

LEMMA OpenInputStep ==
  ASSUME TypeOK, BlockInv, ManualInv, OpenInput
  PROVE  ManualInv'
<1>1. /\ pc = "open" /\ input' = input /\ arg' = arg /\ lineNo' = lineNo /\ blk' = blk
      /\ exitCode = 0
  BY DEF OpenInput, At, ManualInv
<1>2. /\ lineNo = 0 /\ ~blk.in /\ blk.actions = 0 /\ blk.out = <<>>
      /\ OptionsKept /\ opt.from = arg.from /\ opt.to = arg.to
  BY <1>1 DEF ManualInv
<1>3. CASE \/ ~opt.file /\ (opt.from < 0 \/ opt.to < 0)
           \/ opt.mode \in InsertModes /\ ~opt.insert
  <2>1. pc' = "exit" /\ exitCode' = 1
    BY <1>3 DEF OpenInput, Exit
  <2>. QED
    BY <1>1, <2>1, ExitStep
<1>4. CASE ~(\/ ~opt.file /\ (opt.from < 0 \/ opt.to < 0)
             \/ opt.mode \in InsertModes /\ ~opt.insert)
  <2>1. /\ pc' = "read" /\ exitCode' = 0 /\ marker' = opt.begin
        /\ opt' = [opt EXCEPT !.from = FromEnd(@), !.to = FromEnd(@)]
    BY <1>1, <1>4 DEF OpenInput
  <2>2. opt \in CommandLine /\ arg.from \in Int /\ arg.to \in Int
        /\ Len(input) \in Nat
    BY LenProperties DEF TypeOK, CommandLine
  <2>3. /\ opt'.mode = opt.mode /\ opt'.include = opt.include /\ opt'.full = opt.full
        /\ opt'.min = opt.min /\ opt'.max = opt.max
        /\ opt'.begin = opt.begin /\ opt'.end = opt.end
        /\ opt'.from = FromEnd(opt.from) /\ opt'.to = FromEnd(opt.to)
    BY <2>1, <2>2 DEF CommandLine
  <2>4. opt'.from = FirstSelected /\ opt'.to = SelectionEnd
    BY <1>2, <2>2, <2>3 DEF FromEnd, FirstSelected, SelectionEnd, NumberedLine
  <2>5. OptionsKept' /\ opt'.from = FirstSelected' /\ opt'.to = SelectionEnd'
    BY <1>1, <1>2, <2>3, <2>4, Frozen DEF OptionsKept
  <2>6. ASSUME Described PROVE ReadOK(blk', marker', 0)
    <3>1. Setting /\ Layout /\ ~SelectionEndWraps
      BY <1>2, <2>6, SettingHolds DEF OptionsKept
    <3>2. Unmarked(blk, 0, 1)
      BY <1>2, <3>1, NothingWritten
    <3>3. LineStart[0 + 1] = 1
      <4>1. 0 + 1 = 1
        OBVIOUS
      <4>. QED
        BY <3>1, <4>1 DEF Layout
    <3>4. CASE TagsGiven
      <4>1. SearchingAt(blk, arg.begin, 1)
        BY <3>1, <3>2, <3>4, TextOfTags, SearchingStarts
      <4>2. marker' = arg.begin
        BY <1>2, <2>1, <3>4 DEF OptionsKept
      <4>. QED
        BY <1>1, <3>3, <3>4, <4>1, <4>2 DEF ReadOK
    <3>5. CASE ~TagsGiven
      <4>1. SelectedTo(blk, 0)
        BY <3>1, <3>2, <3>5, SelectionStarts
      <4>2. Numbered(blk, 0)
        BY <1>2, <3>1, NumberedGrows DEF Numbered
      <4>. QED
        BY <1>1, <3>5, <4>1, <4>2 DEF ReadOK, LinesHandled
    <3>. QED
      BY <3>4, <3>5
  <2>7. ASSUME Described' PROVE Progress'
    <3>1. ReadOK(blk', marker', lineNo')
      BY <1>1, <1>2, <2>6, <2>7, Frozen
    <3>2. ReadOK(blk, marker, lineNo)'
      BY <1>1, <3>1, Frozen
    <3>. QED
      BY <2>1, <3>2 DEF Progress, Success
  <2>. QED
    BY <1>1, <2>1, <2>5, <2>7 DEF ManualInv, Success
<1>. QED
  BY <1>3, <1>4

\* What is said of a block state does not depend on the line handed over.
LEMMA SameBlocks ==
  ASSUME NEW b, NEW c, b.in = c.in, b.actions = c.actions, b.out = c.out
  PROVE  /\ \A tag, p : SearchingAt(b, tag, p) => SearchingAt(c, tag, p)
         /\ \A n : LinesHandled(b, n) => LinesHandled(c, n)
<1>1. \A k, p : /\ Unmarked(b, k, p) <=> Unmarked(c, k, p)
                /\ Marked(b, k, p) <=> Marked(c, k, p)
  BY DEF Unmarked, Marked
<1>2. \A tag, p : SearchingAt(b, tag, p) => SearchingAt(c, tag, p)
  BY <1>1 DEF SearchingAt
<1>3. \A n : LinesHandled(b, n) => LinesHandled(c, n)
  BY <1>1 DEF LinesHandled, SelectedTo, Numbered
<1>. QED
  BY <1>2, <1>3

LEMMA ReadLineStep ==
  ASSUME TypeOK, BlockInv, ManualInv, ReadLine
  PROVE  ManualInv'
<1>1. /\ pc = "read" /\ pc' = "line" /\ lineNo < Len(input) /\ lineNo' = lineNo + 1
      /\ ptr' = 1 /\ marker' = marker /\ blk' = [blk EXCEPT !.handed = <<>>]
      /\ UNCHANGED <<input, arg, opt, exitCode>>
  BY DEF ReadLine, At
<1>2. /\ blk \in BlockState /\ lineNo \in Nat /\ Len(input) \in Nat
      /\ Described => Progress /\ Setting
  BY <1>1, LoopSetting, LenProperties DEF TypeOK
<1>3. blk'.in = blk.in /\ blk'.actions = blk.actions /\ blk'.out = blk.out
  BY <1>1, <1>2 DEF BlockState
<1>4. ASSUME Described PROVE LineOK(blk', marker', lineNo', ptr')
  <2>1. ReadOK(blk, marker, lineNo)
    BY <1>1, <1>2, <1>4 DEF Progress
  <2>2. CASE TagsGiven
    <3>1. SearchingAt(blk', marker, LineStart[lineNo + 1])
      BY <1>3, <2>1, <2>2, SameBlocks DEF ReadOK
    <3>2. LineStart[lineNo + 1] \in Nat
      <4>1. lineNo + 1 \in 1 .. Len(input) + 1
        BY <1>1, <1>2
      <4>. QED
        BY <1>2, <1>4, <4>1 DEF Setting, Layout
    <3>3. LineStart[lineNo + 1] + 1 - 1 = LineStart[lineNo + 1]
      BY <3>2
    <3>. QED
      BY <1>1, <2>2, <3>1, <3>3 DEF LineOK
  <2>3. CASE ~TagsGiven
    <3>1. LinesHandled(blk', lineNo)
      BY <1>3, <2>1, <2>3, SameBlocks DEF ReadOK
    <3>2. lineNo' - 1 = lineNo
      BY <1>1, <1>2
    <3>. QED
      BY <2>3, <3>1, <3>2 DEF LineOK
  <2>. QED
    BY <2>2, <2>3
<1>. QED
  BY <1>1, <1>4, LoopStep

LEMMA EndOfFileStep ==
  ASSUME TypeOK, BlockInv, ManualInv, EndOfFile
  PROVE  ManualInv'
<1>1. /\ pc = "read" /\ pc' = "exit" /\ lineNo = Len(input)
      /\ blk' = IF blk.in THEN ProcessMarked(blk, 1, 1, TRUE) ELSE blk
      /\ exitCode' = 0 => /\ opt.min < 0 \/ blk.actions >= opt.min
                          /\ opt.max < 0 \/ blk.actions <= opt.max
      /\ UNCHANGED <<input, arg, opt>>
  BY DEF EndOfFile, At, Exit
<1>2. /\ OptionsKept /\ blk \in BlockState /\ lineNo \in Nat
      /\ Described => Progress /\ Setting /\ (TagsGiven => TagText)
      /\ Described /\ ~TagsGiven => SelectionSetting
  BY <1>1, LoopSetting
<1>3. ASSUME Described, exitCode' = 0 PROVE AllDone(blk')
  <2>1. ReadOK(blk, marker, Len(input))
    BY <1>1, <1>2, <1>3 DEF Progress
  <2>2. LineStart[Len(input) + 1] = Len(Content) + 1
    BY <1>2, <1>3 DEF Setting, Layout
  <2>3. Finished(blk)
    <3>1. CASE TagsGiven
      <4>1. SearchingAt(blk, marker, Len(Content) + 1)
        BY <2>1, <2>2, <3>1 DEF ReadOK
      <4>. QED
        BY <1>2, <1>3, <3>1, <4>1, SearchingFinished
    <3>2. CASE ~TagsGiven
      <4>1. SelectedTo(blk, Len(input))
        BY <2>1, <3>2 DEF ReadOK, LinesHandled
      <4>. QED
        BY <1>2, <1>3, <3>2, <4>1, SelectionFinished DEF SelectionSetting
    <3>. QED
      BY <3>1, <3>2
  <2>4. Unmarked(blk', Len(Blocks), Len(Content) + 1) /\ blk.actions = Len(Blocks)
    BY <1>1, <2>3 DEF Finished
  <2>5. LimitsHold
    BY <1>1, <1>2, <1>3, <2>4 DEF LimitsHold, OptionsKept
  <2>6. ASSUME arg.mode = "enumerate", ~Selecting
        PROVE  blk'.out = LinesNumbered(Len(input))
    <3>1. ~TagsGiven
      BY <2>6 DEF TagsGiven, TagsIgnored
    <3>2. SelectedTo(blk, Len(input)) /\ blk.out = LinesNumbered(Len(input))
      BY <2>1, <2>6, <3>1 DEF ReadOK, LinesHandled, Numbered
    <3>3. FirstSelected = 0
      BY <2>6 DEF FirstSelected, NumberedLine, Selecting
    <3>4. ~blk.in
      BY <3>2, <3>3 DEF SelectedTo, SelectionOpen, Unmarked
    <3>. QED
      BY <1>1, <3>2, <3>4
  <2>. QED
    BY <2>4, <2>5, <2>6 DEF AllDone, Numbered
<1>4. opt'.mode = arg.mode
  BY <1>1, <1>2 DEF OptionsKept
<1>. QED
  BY <1>1, <1>3, <1>4, ExitStep

\* The text handed over is that of the manual, step by step.
LEMMA ManualStep == TypeOK /\ BlockInv /\ ManualInv /\ [Next]_vars => ManualInv'
<1>. SUFFICES ASSUME TypeOK, BlockInv, ManualInv, [Next]_vars
              PROVE  ManualInv'
  OBVIOUS
<1>1. CASE CheckParameters
  BY <1>1, CheckParametersStep
<1>2. CASE OpenInput
  BY <1>2, OpenInputStep
<1>3. CASE ReadLine
  BY <1>3, ReadLineStep
<1>4. CASE ReadError
  <2>1. pc' = "exit" /\ exitCode' = 1 /\ UNCHANGED <<input, arg>>
    BY <1>4 DEF ReadError, Exit
  <2>. QED
    BY <2>1, ExitStep
<1>5. CASE EndOfFile
  BY <1>5, EndOfFileStep
<1>6. CASE SelectedLine
  BY <1>6, SelectedLineStep
<1>7. CASE PlainLine
  BY <1>7, PlainLineStep
<1>8. CASE BeginOfFullLines
  BY <1>8, BeginOfFullLinesStep
<1>9. CASE BeginOfTagsOnly
  BY <1>9, BeginOfTagsOnlyStep
<1>10. CASE EndOfFullLines
  BY <1>10, EndOfFullLinesStep
<1>11. CASE EndOfTagsOnly
  BY <1>11, EndOfTagsOnlyStep
<1>12. CASE RestOfTagLine
  BY <1>12, RestOfTagLineStep
<1>13. CASE RestOfLine
  BY <1>13, RestOfLineStep
<1>14. CASE Terminated
  BY <1>14, StutterStep DEF Terminated
<1>15. CASE UNCHANGED vars
  BY <1>15, StutterStep
<1>. QED
  BY <1>1, <1>2, <1>3, <1>4, <1>5, <1>6, <1>7, <1>8, <1>9, <1>10, <1>11,
     <1>12, <1>13, <1>14, <1>15 DEF Next

LEMMA ManualInit == Init => ManualInv
BY DEF Init, ManualInv, Progress, Success

-----------------------------------------------------------------------------
(* The theorems.                                                           *)

ManualIInv == TypeOK /\ BlockInv /\ ManualInv

LEMMA ManualInvHolds == Spec => []ManualIInv
<1>1. Init => ManualIInv
  BY TypeInit, BlockInit, ManualInit DEF ManualIInv
<1>2. ManualIInv /\ [Next]_vars => ManualIInv'
  BY TypeStep, BlockStep, ManualStep DEF ManualIInv
<1>. QED
  BY <1>1, <1>2, PTL DEF Spec

\* A run of text-block that reports success has written what the manual
\* promises, in each mode, for all texts, tags and options the manual
\* describes: the loop over the lines of main() and the blocks of the text as
\* a whole agree (text-block.c:868-1014).
THEOREM OutputIsManual == Spec => []OutputAsManual
<1>1. ManualIInv => OutputAsManual
  <2>. SUFFICES ASSUME ManualIInv, Success, Described, ~SelectionHasEffect
                PROVE  blk.out = ManualOutput
    BY DEF OutputAsManual
  <2>1. TypeOK /\ AllDone(blk) /\ Setting
    BY SettingHolds DEF ManualIInv, ManualInv, Progress
  <2>2. CASE arg.mode = "enumerate"
    <3>1. blk.out = LinesNumbered(Len(input))
      BY <2>1, <2>2 DEF AllDone, Numbered, SelectionHasEffect
    <3>. QED
      BY <2>2, <3>1 DEF LinesNumbered, ManualOutput, NumberedOutput
  <2>3. CASE arg.mode # "enumerate"
    BY <2>1, <2>3, AllWritten DEF AllDone, OutMatters
  <2>. QED
    BY <2>2, <2>3
<1>. QED
  BY <1>1, ManualInvHolds, PTL

\* A run that reports success has marked a number of blocks within the limits
\* of -m and -M, counted on the text as a whole, for all texts, tags and
\* options the manual describes (text-block.c:1015-1022).
THEOREM LimitsOfActions == Spec => []ActionLimitsHold
<1>1. ManualIInv => ActionLimitsHold
  BY DEF ManualIInv, ManualInv, Progress, AllDone, LimitsHold, ActionLimitsHold
<1>. QED
  BY <1>1, ManualInvHolds, PTL

=============================================================================
