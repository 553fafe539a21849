---------------------------- MODULE WordFilterProofs ----------------------------
(***************************************************************************)
(* Proofs about WordFilter, for any dictionaries and texts over any        *)
(* alphabet: the failure links and the emit flags are those of an          *)
(* Aho-Corasick automaton, and the loops over a text keep the longest node *)
(* that the text read so far ends with.                                    *)
(***************************************************************************)
EXTENDS WordFilter, TLAPS, FiniteSetTheorems, WellFoundedInduction

Words == Seq(Letters)

\* t is a suffix of s.
IsSuffix(t, s) == Len(t) <= Len(s) /\ \A i \in 1 .. Len(t) : t[i] = s[Len(s) - Len(t) + i]

-----------------------------------------------------------------------------
(* Suffixes.                                                               *)

LEMMA Equal ==
  ASSUME NEW T, NEW s \in Seq(T), NEW t \in Seq(T), Len(s) = Len(t),
         \A i \in 1 .. Len(s) : s[i] = t[i]
  PROVE  s = t
OBVIOUS

LEMMA Part ==
  ASSUME NEW T, NEW s \in Seq(T), NEW i \in Nat \ {0}, i <= Len(s) + 1, NEW j \in Nat,
         i - 1 <= j, j <= Len(s)
  PROVE  /\ SubSeq(s, i, j) \in Seq(T) /\ Len(SubSeq(s, i, j)) = j - i + 1
         /\ \A k \in 1 .. j - i + 1 : SubSeq(s, i, j)[k] = s[i - 1 + k]
BY SMTT(30)

LEMMA Front ==
  ASSUME NEW s \in Words, s # Root
  PROVE  /\ Len(s) \in Nat \ {0}
         /\ Parent(s) \in Words /\ Len(Parent(s)) = Len(s) - 1
         /\ Key(s) \in Letters /\ s = Append(Parent(s), Key(s))
         /\ \A i \in 1 .. Len(s) - 1 : Parent(s)[i] = s[i]
<1>1. Len(s) \in Nat \ {0}
  BY DEF Words, Root
<1>2. /\ Parent(s) \in Words /\ Len(Parent(s)) = Len(s) - 1
      /\ \A i \in 1 .. Len(s) - 1 : Parent(s)[i] = s[i]
  <2> DEFINE m == Len(s) - 1
  <2>1. m \in Nat /\ 1 - 1 <= m /\ m <= Len(s) /\ 1 <= Len(s) + 1 /\ m - 1 + 1 = m
    BY <1>1
  <2> HIDE DEF m
  <2>2. /\ SubSeq(s, 1, m) \in Words /\ Len(SubSeq(s, 1, m)) = m
        /\ \A i \in 1 .. m : SubSeq(s, 1, m)[i] = s[1 - 1 + i]
    BY <2>1, Part DEF Words
  <2>3. \A i \in 1 .. m : 1 - 1 + i = i
    BY <2>1
  <2>4. QED
    BY <2>2, <2>3 DEF Parent, m
<1>3. Key(s) \in Letters
  BY <1>1 DEF Key, Words
<1>4. s = Append(Parent(s), Key(s))
  <2> DEFINE t == Append(Parent(s), Key(s))
  <2>1. /\ t \in Words /\ Len(t) = Len(s)
        /\ \A i \in 1 .. Len(s) : t[i] = IF i = Len(s) THEN Key(s) ELSE Parent(s)[i]
    BY <1>1, <1>2, <1>3 DEF Words
  <2> HIDE DEF t
  <2>2. \A i \in 1 .. Len(s) : s[i] = t[i]
    BY <1>1, <1>2, <2>1 DEF Key
  <2>3. s = t
    BY <2>1, <2>2, Equal DEF Words
  <2>4. QED
    BY <2>3 DEF t
<1>5. QED
  BY <1>1, <1>2, <1>3, <1>4

LEMMA Longer ==
  ASSUME NEW s \in Words, NEW char \in Letters
  PROVE  LET t == Append(s, char)
         IN  /\ t \in Words /\ t # Root /\ Len(t) = Len(s) + 1 /\ Key(t) = char
             /\ Parent(t) = s
             /\ \A i \in 1 .. Len(s) : t[i] = s[i]
<1> DEFINE t == Append(s, char)
<1>1. /\ t \in Words /\ Len(t) = Len(s) + 1 /\ t[Len(s) + 1] = char
      /\ \A i \in 1 .. Len(s) : t[i] = s[i]
  BY DEF Words
<1>2. Len(s) \in Nat
  BY DEF Words
<1> HIDE DEF t
<1>3. t # Root
  BY <1>1, <1>2 DEF Root
<1>4. Parent(t) = s
  <2>1. /\ Parent(t) \in Words /\ Len(Parent(t)) = Len(t) - 1
        /\ \A i \in 1 .. Len(t) - 1 : Parent(t)[i] = t[i]
    BY <1>1, <1>3, Front
  <2>2. Len(t) - 1 = Len(s)
    BY <1>1, <1>2
  <2>3. \A i \in 1 .. Len(s) : s[i] = Parent(t)[i]
    BY <1>1, <2>1, <2>2
  <2>4. s = Parent(t)
    BY <2>1, <2>2, <2>3, Equal DEF Words
  <2>5. QED
    BY <2>4
<1>5. QED
  BY <1>1, <1>2, <1>3, <1>4 DEF Key, t

LEMMA SuffixSelf ==
  ASSUME NEW s \in Words
  PROVE  IsSuffix(s, s) /\ IsSuffix(Root, s) /\ Root \in Words /\ Len(Root) = 0
BY DEF IsSuffix, Root, Words

LEMMA SuffixTrans ==
  ASSUME NEW s \in Words, NEW t \in Words, NEW u \in Words, IsSuffix(s, t), IsSuffix(t, u)
  PROVE  IsSuffix(s, u)
<1>1. Len(s) \in Nat /\ Len(t) \in Nat /\ Len(u) \in Nat
  BY DEF Words
<1>2. ASSUME NEW i \in 1 .. Len(s)
      PROVE  s[i] = u[Len(u) - Len(s) + i]
  <2>1. Len(t) - Len(s) + i \in 1 .. Len(t)
    BY <1>1 DEF IsSuffix
  <2>2. s[i] = t[Len(t) - Len(s) + i]
    BY DEF IsSuffix
  <2>3. t[Len(t) - Len(s) + i] = u[Len(u) - Len(t) + (Len(t) - Len(s) + i)]
    BY <2>1 DEF IsSuffix
  <2>4. QED
    BY <1>1, <2>2, <2>3
<1>3. QED
  BY <1>1, <1>2 DEF IsSuffix

\* Of two suffixes of one word, the shorter is a suffix of the longer.
LEMMA SuffixBoth ==
  ASSUME NEW s \in Words, NEW t \in Words, NEW u \in Words, IsSuffix(s, u), IsSuffix(t, u),
         Len(s) <= Len(t)
  PROVE  IsSuffix(s, t) /\ (Len(s) = Len(t) => s = t)
<1>1. Len(s) \in Nat /\ Len(t) \in Nat /\ Len(u) \in Nat
  BY DEF Words
<1>2. ASSUME NEW i \in 1 .. Len(s)
      PROVE  s[i] = t[Len(t) - Len(s) + i]
  <2>1. Len(t) - Len(s) + i \in 1 .. Len(t)
    BY <1>1
  <2>2. s[i] = u[Len(u) - Len(s) + i]
    BY DEF IsSuffix
  <2>3. t[Len(t) - Len(s) + i] = u[Len(u) - Len(t) + (Len(t) - Len(s) + i)]
    BY <2>1 DEF IsSuffix
  <2>4. QED
    BY <1>1, <2>2, <2>3
<1>3. IsSuffix(s, t)
  BY <1>1, <1>2 DEF IsSuffix
<1>4. ASSUME Len(s) = Len(t)
      PROVE  s = t
  <2>1. \A i \in 1 .. Len(s) : s[i] = t[i]
    BY <1>1, <1>2, <1>4
  <2>2. QED
    BY <1>4, <2>1, Equal DEF Words
<1>5. QED
  BY <1>3, <1>4

\* A suffix of a word and a letter is empty, or a suffix of the word and the letter.
LEMMA SuffixAppend ==
  ASSUME NEW s \in Words, NEW t \in Words, NEW char \in Letters
  PROVE  /\ IsSuffix(t, s) => IsSuffix(Append(t, char), Append(s, char))
         /\ IsSuffix(t, Append(s, char)) /\ t # Root =>
              Key(t) = char /\ t = Append(Parent(t), char) /\ IsSuffix(Parent(t), s)
<1> DEFINE a == Append(s, char)
           b == Append(t, char)
<1>1. Len(s) \in Nat /\ Len(t) \in Nat
  BY DEF Words
<1>2. /\ a \in Words /\ Len(a) = Len(s) + 1 /\ a[Len(s) + 1] = char
      /\ \A i \in 1 .. Len(s) : a[i] = s[i]
      /\ b \in Words /\ Len(b) = Len(t) + 1 /\ b[Len(t) + 1] = char
      /\ \A i \in 1 .. Len(t) : b[i] = t[i]
  BY DEF Words
<1> HIDE DEF a, b
<1>3. ASSUME IsSuffix(t, s)
      PROVE  IsSuffix(b, a)
  <2>1. ASSUME NEW i \in 1 .. Len(b)
        PROVE  b[i] = a[Len(a) - Len(b) + i]
    <3>1. CASE i = Len(t) + 1
      BY <1>1, <1>2, <3>1
    <3>2. CASE i \in 1 .. Len(t)
      <4>1. Len(s) - Len(t) + i \in 1 .. Len(s) /\ t[i] = s[Len(s) - Len(t) + i]
        BY <1>1, <1>3, <3>2 DEF IsSuffix
      <4>2. Len(a) - Len(b) + i = Len(s) - Len(t) + i
        BY <1>1, <1>2
      <4>3. QED
        BY <1>2, <3>2, <4>1, <4>2
    <3>3. QED
      BY <1>1, <1>2, <3>1, <3>2
  <2>2. QED
    BY <1>1, <1>2, <1>3, <2>1 DEF IsSuffix
<1>4. ASSUME IsSuffix(t, a), t # Root
      PROVE  Key(t) = char /\ t = Append(Parent(t), char) /\ IsSuffix(Parent(t), s)
  <2>1. /\ Len(t) \in Nat \ {0} /\ Parent(t) \in Words /\ Len(Parent(t)) = Len(t) - 1
        /\ t = Append(Parent(t), Key(t)) /\ \A i \in 1 .. Len(t) - 1 : Parent(t)[i] = t[i]
    BY <1>4, Front
  <2>2. Key(t) = char
    <3>1. t[Len(t)] = a[Len(a) - Len(t) + Len(t)]
      BY <1>4, <2>1 DEF IsSuffix
    <3>2. Len(a) - Len(t) + Len(t) = Len(s) + 1
      BY <1>1, <1>2
    <3>3. QED
      BY <1>2, <3>1, <3>2 DEF Key
  <2>3. IsSuffix(Parent(t), s)
    <3>1. ASSUME NEW i \in 1 .. Len(t) - 1
          PROVE  Parent(t)[i] = s[Len(s) - (Len(t) - 1) + i]
      <4>1. t[i] = a[Len(a) - Len(t) + i]
        BY <1>4, <2>1 DEF IsSuffix
      <4>2. /\ Len(a) - Len(t) + i = Len(s) - (Len(t) - 1) + i
            /\ Len(s) - (Len(t) - 1) + i \in 1 .. Len(s)
        BY <1>1, <1>2, <1>4, <2>1 DEF IsSuffix
      <4>3. QED
        BY <1>2, <2>1, <4>1, <4>2
    <3>2. Len(t) - 1 <= Len(s)
      BY <1>1, <1>2, <1>4 DEF IsSuffix
    <3>3. QED
      BY <2>1, <3>1, <3>2 DEF IsSuffix
  <2>4. QED
    BY <2>1, <2>2, <2>3
<1>5. QED
  BY <1>3, <1>4 DEF a, b

LEMMA SuffixesAre ==
  ASSUME NEW s \in Words, NEW t
  PROVE  /\ t \in Suffixes(s, Len(s)) <=> t \in Words /\ IsSuffix(t, s)
         /\ t \in Suffixes(s, Len(s) - 1) <=> t \in Words /\ IsSuffix(t, s) /\ Len(t) < Len(s)
<1>1. Len(s) \in Nat
  BY DEF Words
<1>2. ASSUME NEW i \in 1 .. Len(s) + 1
      PROVE  /\ SubSeq(s, i, Len(s)) \in Words /\ Len(SubSeq(s, i, Len(s))) = Len(s) - i + 1
             /\ IsSuffix(SubSeq(s, i, Len(s)), s)
  <2>1. /\ SubSeq(s, i, Len(s)) \in Words /\ Len(SubSeq(s, i, Len(s))) = Len(s) - i + 1
        /\ \A k \in 1 .. Len(s) - i + 1 : SubSeq(s, i, Len(s))[k] = s[i - 1 + k]
    BY <1>1, Part DEF Words
  <2>2. QED
    BY <1>1, <2>1 DEF IsSuffix
<1>3. ASSUME t \in Words, IsSuffix(t, s)
      PROVE  /\ Len(s) - Len(t) + 1 \in 1 .. Len(s) + 1
             /\ t = SubSeq(s, Len(s) - Len(t) + 1, Len(s))
  <2>1. Len(t) \in Nat /\ Len(t) <= Len(s)
    BY <1>3 DEF Words, IsSuffix
  <2>2. Len(s) - Len(t) + 1 \in 1 .. Len(s) + 1
    BY <1>1, <2>1
  <2> DEFINE i == Len(s) - Len(t) + 1
             u == SubSeq(s, i, Len(s))
  <2>3. u \in Words /\ Len(u) = Len(s) - i + 1 /\ IsSuffix(u, s)
    BY <1>2, <2>2
  <2>4. Len(u) = Len(t)
    BY <1>1, <2>1, <2>3
  <2> HIDE DEF u
  <2>5. t = u
    BY <1>3, <2>1, <2>3, <2>4, SuffixBoth
  <2>6. QED
    BY <2>2, <2>5 DEF u
<1>4. ASSUME NEW m \in {Len(s), Len(s) - 1}
      PROVE  t \in Suffixes(s, m) <=> t \in Words /\ IsSuffix(t, s) /\ Len(t) <= m
  <2>1. ASSUME t \in Suffixes(s, m)
        PROVE  t \in Words /\ IsSuffix(t, s) /\ Len(t) <= m
    <3>1. PICK i \in Len(s) - m + 1 .. Len(s) + 1 : t = SubSeq(s, i, Len(s))
      BY <2>1 DEF Suffixes
    <3>2. i \in 1 .. Len(s) + 1 /\ Len(s) - i + 1 <= m
      BY <1>1, <3>1
    <3>3. QED
      BY <1>2, <3>1, <3>2
  <2>2. ASSUME t \in Words, IsSuffix(t, s), Len(t) <= m
        PROVE  t \in Suffixes(s, m)
    <3>1. Len(t) \in Nat
      BY <2>2 DEF Words
    <3>2. Len(s) - Len(t) + 1 \in Len(s) - m + 1 .. Len(s) + 1
      BY <1>1, <2>2, <3>1
    <3>3. QED
      BY <1>3, <2>2, <3>2 DEF Suffixes
  <2>3. QED
    BY <2>1, <2>2
<1>5. t \in Words => Len(t) \in Nat
  BY DEF Words
<1>6. IsSuffix(t, s) => Len(t) <= Len(s)
  BY DEF IsSuffix
<1>7. QED
  <2>1. t \in Suffixes(s, Len(s)) <=> t \in Words /\ IsSuffix(t, s)
    BY <1>4, <1>6
  <2>2. t \in Suffixes(s, Len(s) - 1) <=> t \in Words /\ IsSuffix(t, s) /\ Len(t) <= Len(s) - 1
    BY <1>4
  <2>3. QED
    BY <1>1, <1>5, <2>1, <2>2

-----------------------------------------------------------------------------
(* Counting letters.                                                       *)

LEMMA Positions ==
  ASSUME NEW i \in Nat, NEW S \in SUBSET (1 .. i)
  PROVE  IsFiniteSet(S) /\ Cardinality(S) \in Nat /\ Cardinality(S) <= i
<1>1. IsFiniteSet(1 .. i) /\ Cardinality(1 .. i) = i
  BY FS_Interval
<1>2. IsFiniteSet(S) /\ Cardinality(S) <= i
  BY <1>1, FS_Subset
<1>3. QED
  BY <1>2, FS_CardinalityType

LEMMA CountIn ==
  ASSUME NEW s, NEW i \in Nat
  PROVE  LettersIn(s, i) \in Nat /\ LettersIn(s, i) <= i
<1> DEFINE S == { j \in 1 .. i : s[j] \in Letters }
<1>1. S \in SUBSET (1 .. i)
  OBVIOUS
<1> HIDE DEF S
<1>2. Cardinality(S) \in Nat /\ Cardinality(S) <= i
  BY <1>1, Positions
<1>3. QED
  BY <1>2 DEF LettersIn, S

LEMMA CountStep ==
  ASSUME NEW s, NEW i \in Nat
  PROVE  /\ LettersIn(s, i + 1) = LettersIn(s, i) + (IF s[i + 1] \in Letters THEN 1 ELSE 0)
         /\ LettersIn(s, 0) = 0
<1> DEFINE A == { j \in 1 .. i : s[j] \in Letters }
           B == { j \in 1 .. i + 1 : s[j] \in Letters }
<1>1. IsFiniteSet(A) /\ i + 1 \notin A
  BY Positions
<1>2. B = IF s[i + 1] \in Letters THEN A \cup {i + 1} ELSE A
  OBVIOUS
<1>3. Cardinality(A \cup {i + 1}) = Cardinality(A) + 1
  <2> HIDE DEF A
  <2>1. QED
    BY <1>1, FS_AddElement
<1>4. Cardinality(A) \in Nat /\ LettersIn(s, i) = Cardinality(A)
  BY Positions DEF LettersIn
<1>5. LettersIn(s, i + 1) = Cardinality(B)
  BY DEF LettersIn
<1>6. LettersIn(s, 0) = 0
  <2>1. 0 \in Nat
    OBVIOUS
  <2>2. LettersIn(s, 0) \in Nat /\ LettersIn(s, 0) <= 0
    BY <2>1, CountIn
  <2>3. QED
    BY <2>2
<1> HIDE DEF A, B
<1>7. QED
  BY <1>2, <1>3, <1>4, <1>5, <1>6

LEMMA CountSame ==
  ASSUME NEW s, NEW t, NEW i \in Nat, \A j \in 1 .. i : s[j] = t[j]
  PROVE  LettersIn(s, i) = LettersIn(t, i)
<1>1. { j \in 1 .. i : s[j] \in Letters } = { j \in 1 .. i : t[j] \in Letters }
  OBVIOUS
<1>2. QED
  BY <1>1 DEF LettersIn

LEMMA CountMonotone ==
  ASSUME NEW s, NEW i \in Nat, NEW j \in Nat, i <= j
  PROVE  /\ LettersIn(s, i) <= LettersIn(s, j)
         /\ i < j /\ s[j] \in Letters => LettersIn(s, i) < LettersIn(s, j)
<1>1. ASSUME NEW k \in Nat, i <= k
      PROVE  LettersIn(s, i) <= LettersIn(s, k)
  <2> DEFINE A == { l \in 1 .. i : s[l] \in Letters }
             B == { l \in 1 .. k : s[l] \in Letters }
  <2>1. A \in SUBSET B
    BY <1>1
  <2>2. IsFiniteSet(B)
    BY Positions
  <2> HIDE DEF A, B
  <2>3. Cardinality(A) <= Cardinality(B)
    BY <2>1, <2>2, FS_Subset
  <2>4. QED
    BY <2>3 DEF LettersIn, A, B
<1>2. ASSUME i < j, s[j] \in Letters
      PROVE  LettersIn(s, i) < LettersIn(s, j)
  <2> DEFINE k == j - 1
  <2>1. k \in Nat /\ i <= k /\ j = k + 1
    BY <1>2
  <2> HIDE DEF k
  <2>2. LettersIn(s, i) <= LettersIn(s, k)
    BY <1>1, <2>1
  <2>3. LettersIn(s, j) = LettersIn(s, k) + 1
    BY <1>2, <2>1, CountStep
  <2>4. LettersIn(s, i) \in Nat /\ LettersIn(s, k) \in Nat
    BY <2>1, CountIn
  <2>5. QED
    BY <2>2, <2>3, <2>4
<1>3. QED
  BY <1>1, <1>2

\* There is a k-th letter, and only one.
LEMMA Found ==
  ASSUME NEW s, NEW m \in Nat, NEW k \in 1 .. LettersIn(s, m)
  PROVE  \E i \in 1 .. m :
           /\ s[i] \in Letters /\ LettersIn(s, i) = k
           /\ \A j \in 1 .. m : s[j] \in Letters /\ LettersIn(s, j) = k => j = i
<1> DEFINE R == OpToRel(<, Nat)
           S == { i \in 0 .. m : LettersIn(s, i) >= k }
<1>1. IsWellFoundedOn(R, Nat)
  BY NatLessThanWellFounded DEF OpToRel
<1>2. \A x, y \in Nat : y < x => <<y, x>> \in R
  BY DEF OpToRel
<1>3. m \in S /\ S \subseteq Nat
  BY CountIn
<1>4. PICK i \in S : \A y \in S : ~(<<y, i>> \in R)
  <2> HIDE DEF R, S
  <2>1. QED
    BY <1>1, <1>3, WFMin
<1>5. \A y \in S : ~(y < i)
  BY <1>2, <1>3, <1>4
<1>6. i \in Nat /\ i <= m /\ LettersIn(s, i) >= k /\ LettersIn(s, i) \in Nat
  <2>1. i \in 0 .. m /\ LettersIn(s, i) >= k
    BY <1>4
  <2>2. QED
    BY <2>1, CountIn
<1>7. i # 0
  BY <1>6, CountStep, CountIn
<1>8. PICK h \in Nat : i = h + 1
  <2>1. i - 1 \in Nat /\ i = (i - 1) + 1
    BY <1>6, <1>7
  <2>2. QED
    BY <2>1
<1>9. LettersIn(s, h) < k /\ LettersIn(s, h) \in Nat
  <2>1. h \in 0 .. m /\ h < i
    BY <1>6, <1>8
  <2>2. h \notin S
    BY <1>5, <2>1
  <2>3. LettersIn(s, h) \in Nat /\ LettersIn(s, m) \in Nat
    BY CountIn
  <2>4. QED
    BY <2>1, <2>2, <2>3
<1> HIDE DEF R, S
<1>10. s[i] \in Letters /\ LettersIn(s, i) = k
  <2>1. LettersIn(s, i) = LettersIn(s, h) + (IF s[i] \in Letters THEN 1 ELSE 0)
    BY <1>8, CountStep
  <2>2. k \in Int
    BY CountIn
  <2>3. QED
    BY <1>6, <1>9, <2>1, <2>2
<1>11. ASSUME NEW j \in 1 .. m, s[j] \in Letters, LettersIn(s, j) = k
       PROVE  j = i
  <2>1. ~(i < j) /\ ~(j < i)
    BY <1>6, <1>10, <1>11, CountMonotone, CountIn
  <2>2. QED
    BY <1>6, <2>1
<1>12. QED
  BY <1>6, <1>7, <1>10, <1>11

\* Counting from the i-th place on.
LEMMA CountShift ==
  ASSUME NEW s, NEW t, NEW h \in Nat, NEW j \in Nat, \A k \in 1 .. j : t[k] = s[h + k]
  PROVE  LettersIn(t, j) = LettersIn(s, h + j) - LettersIn(s, h)
<1> DEFINE A == { k \in 1 .. h : s[k] \in Letters }
           B == { k \in 1 .. j : t[k] \in Letters }
           C == { k \in 1 .. h + j : s[k] \in Letters }
           D == C \ A
           f == [k \in B |-> h + k]
<1>1. IsFiniteSet(A) /\ IsFiniteSet(B) /\ IsFiniteSet(C)
  <2>1. h + j \in Nat /\ A \in SUBSET (1 .. h) /\ B \in SUBSET (1 .. j) /\ C \in SUBSET (1 .. h + j)
    OBVIOUS
  <2> HIDE DEF A, B, C
  <2>2. QED
    BY <2>1, Positions
<1>2. C \cap A = A
  OBVIOUS
<1>3. \A k \in B : k \in Nat /\ h + k \in D
  OBVIOUS
<1>4. \A k \in D : k - h \in B /\ h + (k - h) = k
  OBVIOUS
<1>5. /\ LettersIn(t, j) = Cardinality(B) /\ LettersIn(s, h + j) = Cardinality(C)
      /\ LettersIn(s, h) = Cardinality(A)
  BY DEF LettersIn
<1>6. Cardinality(D) = Cardinality(C) - Cardinality(A)
  <2> HIDE DEF A, B, C
  <2>1. QED
    BY <1>1, <1>2, FS_Difference
<1> HIDE DEF A, B, C, D
<1>7. f \in Bijection(B, D)
  <2>1. \A k \in B : f[k] = h + k
    OBVIOUS
  <2>2. f \in Injection(B, D)
    BY <1>3, <2>1 DEF Injection, IsInjective
  <2>3. f \in Surjection(B, D)
    BY <1>3, <1>4, <2>1 DEF Surjection
  <2>4. QED
    BY <2>2, <2>3 DEF Bijection
<1>8. Cardinality(D) = Cardinality(B)
  BY <1>1, <1>7, FS_Bijection DEF ExistsBijection
<1>9. QED
  BY <1>5, <1>6, <1>8

-----------------------------------------------------------------------------
(* Clean.                                                                  *)

LEMMA CleanAt ==
  ASSUME NEW s \in Seq(Chars)
  PROVE  /\ Clean(s) \in Words /\ Len(Clean(s)) = LettersIn(s, Len(s))
         /\ \A i \in 1 .. Len(s) : s[i] \in Letters =>
              /\ LettersIn(s, i) \in 1 .. LettersIn(s, Len(s))
              /\ Clean(s)[LettersIn(s, i)] = Lower[s[i]]
<1> DEFINE m == Len(s)
           sum == LettersIn(s, m)
           f == [k \in 1 .. sum |-> Lower[s[LetterAt(s, k)]]]
<1>1. m \in Nat /\ sum \in Nat
  BY CountIn
<1>2. ASSUME NEW k \in 1 .. sum
      PROVE  /\ LetterAt(s, k) \in 1 .. m /\ s[LetterAt(s, k)] \in Letters
             /\ \A j \in 1 .. m : s[j] \in Letters /\ LettersIn(s, j) = k => j = LetterAt(s, k)
  <2>1. PICK i \in 1 .. m : /\ s[i] \in Letters /\ LettersIn(s, i) = k
                            /\ \A j \in 1 .. m : s[j] \in Letters /\ LettersIn(s, j) = k => j = i
    BY <1>1, Found
  <2>2. /\ LetterAt(s, k) \in 1 .. m /\ s[LetterAt(s, k)] \in Letters
        /\ LettersIn(s, LetterAt(s, k)) = k
    BY <2>1 DEF LetterAt
  <2>3. LetterAt(s, k) = i
    BY <2>1, <2>2
  <2>4. QED
    BY <2>1, <2>3
<1>3. \A k \in 1 .. sum : Lower[s[LetterAt(s, k)]] \in Letters
  BY <1>2, CharsAssumption
<1>4. f \in Words /\ Len(f) = sum
  BY <1>1, <1>3 DEF Words
<1>5. Clean(s) = f
  BY DEF Clean
<1>6. ASSUME NEW i \in 1 .. m, s[i] \in Letters
      PROVE  LettersIn(s, i) \in 1 .. sum /\ f[LettersIn(s, i)] = Lower[s[i]]
  <2>1. 0 < i /\ i <= m /\ i \in Nat /\ 0 \in Nat
    BY <1>1
  <2>2. LettersIn(s, 0) < LettersIn(s, i) /\ LettersIn(s, i) <= sum
    BY <1>1, <1>6, <2>1, CountMonotone
  <2>3. LettersIn(s, i) \in Nat /\ LettersIn(s, 0) \in Nat
    BY <2>1, CountIn
  <2>4. LettersIn(s, i) \in 1 .. sum
    BY <1>1, <2>2, <2>3
  <2>5. LetterAt(s, LettersIn(s, i)) = i
    BY <1>2, <1>6, <2>4
  <2>6. QED
    BY <2>4, <2>5
<1> HIDE DEF m, sum, f
<1>7. QED
  BY <1>4, <1>5, <1>6 DEF m, sum

\* What is known of each letter determines the clean word.
LEMMA CleanIs ==
  ASSUME NEW s \in Seq(Chars), NEW c \in Words, Len(c) = LettersIn(s, Len(s)),
         \A i \in 1 .. Len(s) : s[i] \in Letters => c[LettersIn(s, i)] = Lower[s[i]]
  PROVE  c = Clean(s)
<1>1. Len(s) \in Nat
  OBVIOUS
<1>2. ASSUME NEW k \in 1 .. Len(c)
      PROVE  c[k] = Clean(s)[k]
  <2>1. PICK i \in 1 .. Len(s) : s[i] \in Letters /\ LettersIn(s, i) = k
    BY <1>1, Found
  <2>2. QED
    BY <2>1, CleanAt
<1>3. Clean(s) \in Words /\ Len(Clean(s)) = Len(c)
  BY CleanAt
<1>4. QED
  BY <1>2, <1>3, Equal DEF Words

LEMMA CleanAppend ==
  ASSUME NEW s \in Seq(Chars), NEW char \in Chars
  PROVE  /\ char \in Letters => Clean(Append(s, char)) = Append(Clean(s), Lower[char])
         /\ char \notin Letters => Clean(Append(s, char)) = Clean(s)
<1> DEFINE t == Append(s, char)
           m == Len(s)
           c == IF char \in Letters THEN Append(Clean(s), Lower[char]) ELSE Clean(s)
<1>1. /\ t \in Seq(Chars) /\ Len(t) = m + 1 /\ t[m + 1] = char /\ m \in Nat
      /\ \A i \in 1 .. m : t[i] = s[i]
  OBVIOUS
<1> HIDE DEF t, m
<1>2. \A i \in 0 .. m : LettersIn(t, i) = LettersIn(s, i)
  <2>1. ASSUME NEW i \in 0 .. m
        PROVE  LettersIn(t, i) = LettersIn(s, i)
    <3>1. i \in Nat /\ \A j \in 1 .. i : t[j] = s[j]
      BY <1>1
    <3>2. QED
      BY <3>1, CountSame
  <2>2. QED
    BY <2>1
<1>3. LettersIn(t, m + 1) = LettersIn(s, m) + (IF char \in Letters THEN 1 ELSE 0)
  <2>1. LettersIn(t, m + 1) = LettersIn(t, m) + (IF t[m + 1] \in Letters THEN 1 ELSE 0)
    BY <1>1, CountStep
  <2>2. m \in 0 .. m
    BY <1>1
  <2>3. QED
    BY <1>1, <1>2, <2>1, <2>2
<1>4. /\ Clean(s) \in Words /\ Len(Clean(s)) = LettersIn(s, m) /\ LettersIn(s, m) \in Nat
      /\ \A i \in 1 .. m : s[i] \in Letters =>
           /\ LettersIn(s, i) \in 1 .. LettersIn(s, m)
           /\ Clean(s)[LettersIn(s, i)] = Lower[s[i]]
  BY <1>1, CleanAt, CountIn DEF m
<1>5. char \in Letters => Lower[char] \in Letters
  BY CharsAssumption
<1>6. CASE char \in Letters
  <2> DEFINE a == Append(Clean(s), Lower[char])
  <2>1. /\ a \in Words /\ Len(a) = LettersIn(s, m) + 1
        /\ a[LettersIn(s, m) + 1] = Lower[char]
        /\ \A k \in 1 .. LettersIn(s, m) : a[k] = Clean(s)[k]
    BY <1>4, <1>5, <1>6 DEF Words
  <2> HIDE DEF a
  <2>2. ASSUME NEW i \in 1 .. m + 1, t[i] \in Letters
        PROVE  a[LettersIn(t, i)] = Lower[t[i]]
    <3>1. CASE i = m + 1
      BY <1>1, <1>3, <1>6, <2>1, <3>1
    <3>2. CASE i \in 1 .. m
      <4>1. LettersIn(t, i) = LettersIn(s, i) /\ t[i] = s[i]
        BY <1>1, <1>2, <3>2
      <4>2. QED
        BY <1>4, <2>1, <2>2, <3>2, <4>1
    <3>3. QED
      BY <1>1, <3>1, <3>2
  <2>3. a = Clean(t)
    BY <1>1, <1>3, <1>6, <2>1, <2>2, CleanIs
  <2>4. QED
    BY <1>6, <2>3 DEF a, t
<1>7. CASE char \notin Letters
  <2>1. ASSUME NEW i \in 1 .. m + 1, t[i] \in Letters
        PROVE  Clean(s)[LettersIn(t, i)] = Lower[t[i]]
    <3>1. i \in 1 .. m
      BY <1>1, <1>7, <2>1
    <3>2. LettersIn(t, i) = LettersIn(s, i) /\ t[i] = s[i]
      BY <1>1, <1>2, <3>1
    <3>3. QED
      BY <1>4, <2>1, <3>1, <3>2
  <2>2. Clean(s) = Clean(t)
    BY <1>1, <1>3, <1>4, <1>7, <2>1, CleanIs
  <2>3. QED
    BY <1>7, <2>2 DEF t
<1>8. QED
  BY <1>6, <1>7

LEMMA CleanEmpty ==
  Clean(Root) = Root /\ Root \in Seq(Chars)
<1>1. Root \in Seq(Chars) /\ Len(Root) = 0
  BY DEF Root
<1>2. Clean(Root) \in Words /\ Len(Clean(Root)) = 0
  BY <1>1, CleanAt, CountStep
<1>3. QED
  BY <1>1, <1>2 DEF Root, Words

\* One place more of a word or a text.
LEMMA CleanNext ==
  ASSUME NEW s \in Seq(Chars), NEW p \in 1 .. Len(s)
  PROVE  LET c == Clean(SubSeq(s, 1, p - 1))
             d == Clean(SubSeq(s, 1, p))
         IN  /\ c \in Words /\ d \in Words
             /\ s[p] \in Letters => d = Append(c, Lower[s[p]]) /\ Lower[s[p]] \in Letters
             /\ s[p] \notin Letters => d = c
<1> DEFINE m == p - 1
           a == SubSeq(s, 1, m)
           b == SubSeq(s, 1, p)
<1>1. /\ m \in Nat /\ p \in Nat /\ p = m + 1 /\ p <= Len(s) /\ m <= Len(s) /\ 1 - 1 <= m
      /\ 1 - 1 <= p /\ 1 <= Len(s) + 1 /\ m - 1 + 1 = m /\ p - 1 + 1 = p
  OBVIOUS
<1> HIDE DEF m
<1>2. /\ a \in Seq(Chars) /\ Len(a) = m /\ \A i \in 1 .. m : a[i] = s[1 - 1 + i]
  BY <1>1, Part
<1>3. /\ b \in Seq(Chars) /\ Len(b) = p /\ \A i \in 1 .. p : b[i] = s[1 - 1 + i]
  BY <1>1, Part
<1> HIDE DEF a, b
<1>4. s[p] \in Chars
  OBVIOUS
<1>5. b = Append(a, s[p])
  <2> DEFINE d == Append(a, s[p])
  <2>1. /\ d \in Seq(Chars) /\ Len(d) = p /\ d[p] = s[p] /\ \A i \in 1 .. m : d[i] = a[i]
    BY <1>1, <1>2, <1>4
  <2> HIDE DEF d
  <2>2. \A i \in 1 .. p : b[i] = d[i]
    BY <1>1, <1>2, <1>3, <2>1
  <2>3. b = d
    BY <1>3, <2>1, <2>2, Equal
  <2>4. QED
    BY <2>3 DEF d
<1>6. s[p] \in Letters => Lower[s[p]] \in Letters
  BY CharsAssumption
<1>7. /\ Clean(a) \in Words /\ Clean(b) \in Words
      /\ s[p] \in Letters => Clean(b) = Append(Clean(a), Lower[s[p]])
      /\ s[p] \notin Letters => Clean(b) = Clean(a)
  <2>1. Clean(a) \in Words /\ Clean(b) \in Words
    BY <1>2, <1>3, CleanAt
  <2>2. /\ s[p] \in Letters => Clean(Append(a, s[p])) = Append(Clean(a), Lower[s[p]])
        /\ s[p] \notin Letters => Clean(Append(a, s[p])) = Clean(a)
    BY <1>2, <1>4, CleanAppend
  <2>3. QED
    BY <1>5, <2>1, <2>2, Zenon
<1>8. QED
  BY <1>6, <1>7 DEF a, b, m

\* The part of a text from i to j is the end of what comes before it and itself.
LEMMA CleanPart ==
  ASSUME NEW s \in Seq(Chars), NEW i \in 1 .. Len(s), NEW j \in i .. Len(s)
  PROVE  LET w == Clean(SubSeq(s, i, j))
             c == Clean(SubSeq(s, 1, j))
         IN  /\ w \in Words /\ c \in Words /\ IsSuffix(w, c)
             /\ Len(w) = LettersIn(s, j) - LettersIn(s, i - 1)
             /\ Len(c) = LettersIn(s, j)
<1> DEFINE h == i - 1
           l == j - i + 1
           a == SubSeq(s, 1, j)
           b == SubSeq(s, i, j)
<1>1. /\ h \in Nat /\ l \in Nat /\ i = h + 1 /\ j = h + l /\ j \in Nat /\ j <= Len(s)
      /\ i \in Nat \ {0} /\ i <= Len(s) + 1 /\ i - 1 <= j /\ 1 <= Len(s) + 1 /\ 1 - 1 <= j
      /\ j - 1 + 1 = j
  OBVIOUS
<1>2. /\ b \in Seq(Chars) /\ Len(b) = l /\ \A k \in 1 .. l : b[k] = s[h + k]
  BY <1>1, Part
<1>3. /\ a \in Seq(Chars) /\ Len(a) = j /\ \A k \in 1 .. j : a[k] = s[k]
  <2>1. /\ a \in Seq(Chars) /\ Len(a) = j - 1 + 1 /\ \A k \in 1 .. j - 1 + 1 : a[k] = s[1 - 1 + k]
    BY <1>1, Part
  <2>2. \A k \in 1 .. j : 1 - 1 + k = k
    BY <1>1
  <2>3. QED
    BY <1>1, <2>1, <2>2
<1> HIDE DEF h, l, a, b
<1>4. \A k \in 0 .. l : LettersIn(b, k) = LettersIn(s, h + k) - LettersIn(s, h)
  <2>1. ASSUME NEW k \in 0 .. l
        PROVE  LettersIn(b, k) = LettersIn(s, h + k) - LettersIn(s, h)
    <3>1. k \in Nat /\ \A x \in 1 .. k : b[x] = s[h + x]
      BY <1>1, <1>2
    <3>2. QED
      BY <1>1, <3>1, CountShift
  <2>2. QED
    BY <2>1
<1>5. \A k \in 0 .. j : LettersIn(a, k) = LettersIn(s, k)
  <2>1. ASSUME NEW k \in 0 .. j
        PROVE  LettersIn(a, k) = LettersIn(s, k)
    <3>1. k \in Nat /\ \A x \in 1 .. k : a[x] = s[x]
      BY <1>1, <1>3
    <3>2. QED
      BY <3>1, CountSame
  <2>2. QED
    BY <2>1
<1>6. /\ Clean(b) \in Words /\ Len(Clean(b)) = LettersIn(b, l)
      /\ Clean(a) \in Words /\ Len(Clean(a)) = LettersIn(a, j)
  BY <1>2, <1>3, CleanAt
<1>7. /\ LettersIn(s, h) \in Nat /\ LettersIn(s, j) \in Nat /\ LettersIn(s, h) <= LettersIn(s, j)
  <2>1. h <= j
    BY <1>1
  <2>2. QED
    BY <1>1, <2>1, CountIn, CountMonotone
<1>8. /\ Len(Clean(b)) = LettersIn(s, j) - LettersIn(s, h)
      /\ Len(Clean(a)) = LettersIn(s, j)
  <2>1. l \in 0 .. l /\ j \in 0 .. j
    BY <1>1
  <2>2. QED
    BY <1>1, <1>4, <1>5, <1>6, <2>1
<1>9. ASSUME NEW k \in 1 .. Len(Clean(b))
      PROVE  Clean(b)[k] = Clean(a)[Len(Clean(a)) - Len(Clean(b)) + k]
  <2>1. PICK x \in 1 .. l : b[x] \in Letters /\ LettersIn(b, x) = k
    BY <1>1, <1>6, <1>9, Found
  <2>2. Clean(b)[k] = Lower[b[x]]
    BY <1>2, <2>1, CleanAt
  <2>3. /\ h + x \in 1 .. j /\ b[x] = s[h + x] /\ a[h + x] = s[h + x]
        /\ h + x \in 0 .. j /\ x \in 0 .. l
    BY <1>1, <1>2, <1>3, <2>1
  <2>4. Clean(a)[LettersIn(a, h + x)] = Lower[b[x]]
    BY <1>3, <2>1, <2>3, CleanAt
  <2>5. LettersIn(a, h + x) = LettersIn(s, h + x) /\ k = LettersIn(s, h + x) - LettersIn(s, h)
    BY <1>4, <1>5, <2>1, <2>3
  <2>6. LettersIn(s, h + x) \in Nat
    BY <1>1, <2>3, CountIn
  <2>7. LettersIn(a, h + x) = Len(Clean(a)) - Len(Clean(b)) + k
    BY <1>7, <1>8, <2>5, <2>6
  <2>8. QED
    BY <2>2, <2>4, <2>7
<1>10. IsSuffix(Clean(b), Clean(a))
  BY <1>7, <1>8, <1>9 DEF IsSuffix
<1>11. QED
  BY <1>6, <1>8, <1>10 DEF a, b, h

\* What a text ends with begins at one of its letters.
LEMMA CleanCut ==
  ASSUME NEW s \in Seq(Chars), NEW j \in 1 .. Len(s), NEW w \in Words, w # Root,
         IsSuffix(w, Clean(SubSeq(s, 1, j)))
  PROVE  \E i \in 1 .. j :
           /\ s[i] \in Letters /\ Clean(SubSeq(s, i, j)) = w
           /\ LettersIn(s, i) = LettersIn(s, j) - Len(w) + 1
<1> DEFINE c == Clean(SubSeq(s, 1, j))
           sum == LettersIn(s, j)
<1>1. c \in Words /\ Len(c) = sum
  <2>1. 1 \in 1 .. Len(s) /\ j \in 1 .. Len(s)
    OBVIOUS
  <2>2. QED
    BY <2>1, CleanPart
<1>2. sum \in Nat /\ j \in Nat /\ Len(w) \in Nat \ {0}
  BY CountIn, Front
<1>3. IsSuffix(w, c)
  OBVIOUS
<1> HIDE DEF c, sum
<1>4. sum - Len(w) + 1 \in 1 .. sum
  BY <1>1, <1>2, <1>3 DEF IsSuffix
<1>5. PICK i \in 1 .. j : s[i] \in Letters /\ LettersIn(s, i) = sum - Len(w) + 1
  BY <1>2, <1>4, Found DEF sum
<1>6. LettersIn(s, i - 1) = sum - Len(w)
  <2> DEFINE h == i - 1
  <2>1. h \in Nat /\ i = h + 1
    OBVIOUS
  <2> HIDE DEF h
  <2>2. LettersIn(s, i) = LettersIn(s, h) + 1 /\ LettersIn(s, h) \in Nat
    BY <1>5, <2>1, CountStep, CountIn
  <2>3. LettersIn(s, h) = sum - Len(w)
    BY <1>2, <1>5, <2>2
  <2>4. QED
    BY <2>3 DEF h
<1> DEFINE b == Clean(SubSeq(s, i, j))
<1>7. b \in Words /\ IsSuffix(b, c) /\ Len(b) = sum - LettersIn(s, i - 1)
  <2>1. i \in 1 .. Len(s) /\ j \in i .. Len(s)
    OBVIOUS
  <2>2. QED
    BY <2>1, CleanPart DEF c, sum
<1> HIDE DEF b
<1>8. Len(b) = Len(w)
  BY <1>2, <1>6, <1>7
<1>9. b = w
  BY <1>1, <1>2, <1>3, <1>7, <1>8, SuffixBoth
<1>10. QED
  BY <1>5, <1>9 DEF b, sum

-----------------------------------------------------------------------------
(* The invariant of loading and linking.                                   *)

\* The nodes are the prefixes of words in lower case, and the emit flags of
\* words are those of the vocabulary.
Trie ==
  /\ \A s \in nodes : \A i \in 0 .. Len(s) : SubSeq(s, 1, i) \in nodes
  /\ \A s \in nodes : \A i \in 1 .. Len(s) : Lower[s[i]] = s[i]
  /\ Root \notin isEmit /\ isEmit = Vocabulary

\* AddKeyWord has come to the node of what it has read.
Reading ==
  /\ at >= 1
  /\ dict # << >> => /\ at <= Len(Head(dict)) + 1
                     /\ leaf = Clean(SubSeq(Head(dict), 1, at - 1))
  /\ dict = << >> => at = 1 /\ leaf = Root

\* A link leads to a shorter suffix, and HAS_EMIT has a reason.
Sound ==
  /\ Root \in DOMAIN failure /\ failure[Root] = Root
  /\ \A s \in DOMAIN failure \ {Root} : IsSuffix(failure[s], s) /\ Len(failure[s]) < Len(s)
  /\ \A s \in hasEmit : \E t \in isEmit : IsSuffix(t, s)

\* The link of s is the longest there is, and no word that s ends with is missed.
Final(s) ==
  /\ s \in DOMAIN failure
  /\ \A t \in nodes : IsSuffix(t, s) /\ Len(t) < Len(s) => Len(t) <= Len(failure[s])
  /\ (\E t \in isEmit : IsSuffix(t, s)) => Emits(s)

Queued == { queue[j] : j \in 1 .. Len(queue) }

\* createFailureStates has not come to s: s is a child of the present node,
\* or is below one or below a node of the queue.
Pending(s) ==
  \E i \in 1 .. Len(s) : \/ SubSeq(s, 1, i) \in kids
                         \/ i < Len(s) /\ SubSeq(s, 1, i) \in Queued

\* No suffix of p from which the next child can be linked is longer than f.
Longest(p, f) ==
  \A kid \in kids : NextKid(kid) =>
    \A t \in nodes : IsSuffix(t, p) /\ Len(t) < Len(p) /\ Append(t, Key(kid)) \in nodes
                       => Len(t) <= Len(f)

\* createFailureStates links the children of p: breadth first, so every node
\* of the length of p is done.
Building(p) ==
  /\ kids \subseteq Children(p)
  /\ \A i \in 1 .. Len(queue) :
       /\ queue[i] # Root /\ Final(queue[i])
       /\ Len(p) <= Len(queue[i]) /\ Len(queue[i]) <= Len(p) + 1
  /\ \A i, j \in 1 .. Len(queue) : i <= j => Len(queue[i]) <= Len(queue[j])
  /\ \A s \in nodes \ {Root} : Pending(s) \/ Final(s)
  /\ p # Root => /\ Final(p)
                 /\ IsSuffix(preFail, p) /\ Len(preFail) < Len(p)
                 /\ Longest(p, preFail)

Stage ==
  /\ pc # "create" => kids = {} /\ queue = << >>
  /\ pc = "create" => at = 1 /\ ~inited /\ \E p \in nodes : Building(p)
  /\ pc \notin {"load", "create", "refused"} => inited /\ at = 1
  /\ inited /\ at = 1 => \A s \in nodes \ {Root} : Final(s)

TrieInv == TypeOK /\ Trie /\ Reading /\ Sound /\ Stage

LEMMA NodesWords ==
  ASSUME TypeOK
  PROVE  /\ nodes \subseteq Words /\ Root \in nodes
         /\ \A s \in nodes : Len(s) \in Nat
         /\ isEmit \subseteq nodes /\ hasEmit \subseteq nodes
         /\ \A s \in DOMAIN failure : s \in nodes /\ failure[s] \in nodes
BY DEF TypeOK, Words

LEMMA Whole ==
  ASSUME NEW T, NEW s \in Seq(T)
  PROVE  SubSeq(s, 1, Len(s)) = s /\ SubSeq(s, 1, 0) = << >>
BY SMTT(30)

LEMMA FrontOfFront ==
  ASSUME NEW T, NEW s \in Seq(T), NEW j \in 0 .. Len(s), NEW i \in 0 .. j
  PROVE  /\ SubSeq(s, 1, j) \in Seq(T) /\ Len(SubSeq(s, 1, j)) = j
         /\ SubSeq(SubSeq(s, 1, j), 1, i) = SubSeq(s, 1, i)
<1> DEFINE a == SubSeq(s, 1, j)
           b == SubSeq(s, 1, i)
           c == SubSeq(a, 1, i)
<1>1. /\ i \in Nat /\ j \in Nat /\ Len(s) \in Nat /\ i <= j /\ j <= Len(s) /\ i <= Len(s)
      /\ 1 - 1 <= i /\ 1 - 1 <= j /\ 1 <= Len(s) + 1 /\ i - 1 + 1 = i /\ j - 1 + 1 = j
  OBVIOUS
<1>2. a \in Seq(T) /\ Len(a) = j /\ \A k \in 1 .. j : a[k] = s[1 - 1 + k]
  BY <1>1, Part
<1>3. b \in Seq(T) /\ Len(b) = i /\ \A k \in 1 .. i : b[k] = s[1 - 1 + k]
  BY <1>1, Part
<1> HIDE DEF a, b
<1>4. c \in Seq(T) /\ Len(c) = i /\ \A k \in 1 .. i : c[k] = a[1 - 1 + k]
  <2>1. 1 <= Len(a) + 1
    BY <1>1, <1>2
  <2>2. QED
    BY <1>1, <1>2, <2>1, Part
<1> HIDE DEF c
<1>5. \A k \in 1 .. i : c[k] = b[k]
  <2>1. ASSUME NEW k \in 1 .. i
        PROVE  c[k] = b[k]
    <3>1. k \in 1 .. j /\ 1 - 1 + k = k
      BY <1>1
    <3>2. QED
      BY <1>2, <1>3, <1>4, <3>1
  <2>2. QED
    BY <2>1
<1>6. c = b
  BY <1>3, <1>4, <1>5, Equal
<1>7. QED
  BY <1>2, <1>6 DEF a, b, c

LEMMA AddLeafTrie ==
  ASSUME TrieInv, AddLeaf
  PROVE  TrieInv'
<1> DEFINE w == Head(dict)
           char == w[at]
<1>1. /\ pc = "load" /\ dict # << >> /\ at <= Len(w) /\ at' = at + 1
      /\ leaf' = (IF IsSymbolASCII(char) THEN leaf ELSE Append(leaf, Lower[char]))
      /\ nodes' = nodes \cup {leaf'}
      /\ UNCHANGED <<pc, dict, words, isEmit, hasEmit, failure, inited, create, call>>
  BY DEF AddLeaf
<1>2. /\ w \in Seq(Chars) /\ at \in Nat /\ at >= 1 /\ leaf \in nodes
      /\ leaf = Clean(SubSeq(w, 1, at - 1)) /\ nodes \subseteq Words /\ leaf \in Words
  <2>1. TypeOK /\ Reading
    BY DEF TrieInv
  <2>2. dict \in Seq(Seq(Chars)) /\ dict # << >>
    BY <1>1, <2>1 DEF TypeOK
  <2>3. w \in Seq(Chars)
    BY <2>2
  <2>4. nodes \subseteq Words /\ leaf \in nodes /\ at \in Nat
    BY <2>1 DEF TypeOK, Words
  <2>5. at >= 1 /\ leaf = Clean(SubSeq(w, 1, at - 1))
    BY <2>1, <2>2 DEF Reading
  <2>6. QED
    BY <2>3, <2>4, <2>5
<1> HIDE DEF w
<1>3. at \in 1 .. Len(w) /\ char \in Chars
  BY <1>1, <1>2
<1>4. /\ leaf' \in Words /\ leaf' = Clean(SubSeq(w, 1, at))
      /\ char \in Letters => leaf' = Append(leaf, Lower[char]) /\ Lower[char] \in Letters
      /\ char \notin Letters => leaf' = leaf
  BY <1>1, <1>2, <1>3, CleanNext DEF IsSymbolASCII
<1>5. \A i \in 0 .. Len(leaf') : SubSeq(leaf', 1, i) \in nodes'
  <2>1. CASE char \in Letters
    <3>1. /\ Len(leaf') = Len(leaf) + 1 /\ Parent(leaf') = leaf /\ Len(leaf) \in Nat
          /\ leaf' # Root
      <4> DEFINE x == Lower[char]
                 t == Append(leaf, x)
      <4>1. leaf' = t /\ x \in Letters
        BY <1>4, <2>1
      <4>2. Len(t) = Len(leaf) + 1 /\ Parent(t) = leaf /\ t # Root
        BY <1>2, <4>1, Longer
      <4> HIDE DEF t
      <4>3. QED
        BY <1>2, <4>1, <4>2 DEF Words
    <3>2. ASSUME NEW i \in 0 .. Len(leaf)
          PROVE  SubSeq(leaf', 1, i) \in nodes
      <4>1. Len(leaf) \in 0 .. Len(leaf') /\ Len(leaf') - 1 = Len(leaf)
        BY <3>1
      <4>2. SubSeq(leaf', 1, i) = SubSeq(SubSeq(leaf', 1, Len(leaf)), 1, i)
        BY <1>4, <4>1, FrontOfFront DEF Words
      <4>3. SubSeq(leaf', 1, Len(leaf)) = leaf
        BY <3>1, <4>1 DEF Parent
      <4>4. QED
        BY <1>2, <4>2, <4>3 DEF TrieInv, Trie
    <3>3. SubSeq(leaf', 1, Len(leaf')) = leaf'
      BY <1>4, Whole DEF Words
    <3>4. QED
      BY <1>1, <3>1, <3>2, <3>3
  <2>2. CASE char \notin Letters
    BY <1>1, <1>2, <1>4, <2>2 DEF TrieInv, Trie
  <2>3. QED
    BY <2>1, <2>2
<1>6. \A i \in 1 .. Len(leaf') : Lower[leaf'[i]] = leaf'[i]
  <2>1. \A i \in 1 .. Len(leaf) : Lower[leaf[i]] = leaf[i]
    BY <1>2 DEF TrieInv, Trie
  <2>2. CASE char \in Letters
    <3>1. /\ Len(leaf') = Len(leaf) + 1 /\ leaf'[Len(leaf) + 1] = Lower[char] /\ Len(leaf) \in Nat
          /\ \A i \in 1 .. Len(leaf) : leaf'[i] = leaf[i]
      <4> DEFINE x == Lower[char]
                 t == Append(leaf, x)
      <4>1. leaf' = t /\ x \in Letters
        BY <1>4, <2>2
      <4> HIDE DEF x
      <4>2. /\ Len(t) = Len(leaf) + 1 /\ t[Len(leaf) + 1] = x /\ Len(leaf) \in Nat
            /\ \A i \in 1 .. Len(leaf) : t[i] = leaf[i]
        BY <1>2, <4>1 DEF Words
      <4> HIDE DEF t
      <4>3. QED
        BY <4>1, <4>2 DEF x
    <3>2. Lower[Lower[char]] = Lower[char]
      BY <2>2, CharsAssumption
    <3>3. QED
      BY <2>1, <3>1, <3>2
  <2>3. QED
    BY <1>4, <2>1, <2>2
<1>7. Trie'
  <2>1. Vocabulary' = Vocabulary
    BY <1>1 DEF Vocabulary
  <2>2. \A s \in nodes' : \A i \in 0 .. Len(s) : SubSeq(s, 1, i) \in nodes'
    BY <1>1, <1>5 DEF TrieInv, Trie
  <2>3. \A s \in nodes' : \A i \in 1 .. Len(s) : Lower[s[i]] = s[i]
    BY <1>1, <1>6 DEF TrieInv, Trie
  <2>4. QED
    BY <1>1, <2>1, <2>2, <2>3 DEF TrieInv, Trie
<1>8. TypeOK'
  <2>1. TypeOK
    BY DEF TrieInv
  <2>2. at' \in Nat /\ leaf' \in nodes' /\ nodes' \subseteq Seq(Letters) /\ Root \in nodes'
    <3>1. at' \in Nat
      BY <1>1, <1>2
    <3>2. leaf' \in nodes' /\ nodes' \subseteq Words /\ Root \in nodes
      BY <1>1, <1>2, <1>4, <2>1, Zenon DEF TypeOK
    <3>3. QED
      BY <1>1, <3>1, <3>2 DEF Words
  <2>3. nodes \subseteq nodes'
    BY <1>1
  <2>4. queue' \in Seq(nodes') /\ failure' \in [DOMAIN failure' -> nodes']
    <3>1. queue \in Seq(nodes) /\ failure \in [DOMAIN failure -> nodes]
      BY <2>1 DEF TypeOK
    <3>2. queue \in Seq(nodes')
      BY <2>3, <3>1
    <3>3. failure \in [DOMAIN failure -> nodes']
      BY <2>3, <3>1
    <3>4. UNCHANGED <<queue, failure>>
      BY <1>1 DEF create
    <3>5. QED
      BY <3>2, <3>3, <3>4
  <2>5. QED
    BY <1>1, <2>1, <2>2, <2>3, <2>4 DEF TypeOK, create, call
<1>9. Reading'
  <2>1. at' - 1 = at /\ at' >= 1 /\ at' <= Len(w) + 1
    BY <1>1, <1>2
  <2>2. QED
    BY <1>1, <1>4, <2>1 DEF Reading, w
<1>10. Sound'
  BY <1>1 DEF TrieInv, Sound
<1>11. Stage'
  BY <1>1, <1>2 DEF TrieInv, Stage, create
<1>12. QED
  BY <1>7, <1>8, <1>9, <1>10, <1>11 DEF TrieInv

\* A step that leaves the trie alone and is not one of createFailureStates.
LEMMA KeepTrie ==
  ASSUME TrieInv, TypeOK', UNCHANGED <<load, trie, inited, create>>,
         pc # "create", pc' # "create",
         pc' \notin {"load", "refused"} => inited /\ at = 1
  PROVE  TrieInv'
<1>1. Trie' /\ Reading' /\ Sound'
  BY DEF TrieInv, load, trie, Trie, Vocabulary, Reading, Sound
<1>2. Stage'
  BY DEF TrieInv, load, trie, create, Stage, Final, Emits
<1>3. QED
  BY <1>1, <1>2 DEF TrieInv

LEMMA AddKeyWordTrie ==
  ASSUME TrieInv, AddKeyWord
  PROVE  TrieInv'
<1> DEFINE w == Head(dict)
<1>1. /\ pc = "load" /\ dict # << >> /\ at > Len(w)
      /\ isEmit' = (IF leaf = Root THEN isEmit ELSE isEmit \cup {leaf})
      /\ dict' = Tail(dict) /\ words' = words \cup {w}
      /\ at' = 1 /\ leaf' = Root
      /\ inited' = (inited /\ w = << >>)
      /\ UNCHANGED <<pc, nodes, hasEmit, failure, create, call>>
  BY DEF AddKeyWord
<1>2. /\ w \in Seq(Chars) /\ at \in Nat /\ at >= 1 /\ leaf \in nodes
      /\ at <= Len(w) + 1 /\ leaf = Clean(SubSeq(w, 1, at - 1))
      /\ dict' \in Seq(Seq(Chars)) /\ words' \subseteq Seq(Chars)
      /\ Root \in nodes
  <2>1. TypeOK /\ Reading
    BY DEF TrieInv
  <2>2. /\ dict \in Seq(Seq(Chars)) /\ dict # << >> /\ words \subseteq Seq(Chars)
        /\ at \in Nat /\ leaf \in nodes /\ Root \in nodes
    BY <1>1, <2>1 DEF TypeOK
  <2>3. w \in Seq(Chars) /\ dict' \in Seq(Seq(Chars))
    BY <1>1, <2>2
  <2>4. words' \subseteq Seq(Chars)
    BY <1>1, <2>2, <2>3
  <2>5. at >= 1 /\ at <= Len(w) + 1 /\ leaf = Clean(SubSeq(w, 1, at - 1))
    BY <2>1, <2>2 DEF Reading
  <2>6. QED
    BY <2>2, <2>3, <2>4, <2>5
<1>3. Len(w) \in Nat /\ at - 1 = Len(w) /\ (w = << >> => at = 1)
  BY <1>1, <1>2
<1> HIDE DEF w
<1>4. leaf = Clean(w)
  <2>1. SubSeq(w, 1, at - 1) = w
    BY <1>2, <1>3, Whole
  <2>2. QED
    BY <1>2, <2>1
<1>5. isEmit' = Vocabulary' /\ Root \notin isEmit' /\ isEmit \subseteq isEmit'
  BY <1>1, <1>4 DEF TrieInv, Trie, Vocabulary
<1>6. Trie'
  <2>1. UNCHANGED nodes
    BY <1>1
  <2>2. QED
    BY <1>5, <2>1 DEF TrieInv, Trie
<1>7. TypeOK'
  <2>1. TypeOK
    BY DEF TrieInv
  <2>2. isEmit' \subseteq nodes /\ inited' \in BOOLEAN /\ at' \in Nat /\ leaf' \in nodes
    BY <1>1, <1>2, <2>1 DEF TypeOK
  <2>3. QED
    BY <1>1, <1>2, <2>1, <2>2 DEF TypeOK, create, call
<1>8. Reading'
  <2>1. ASSUME dict' # << >>
        PROVE  1 <= Len(Head(dict')) + 1 /\ Root = Clean(SubSeq(Head(dict'), 1, 0))
    <3>1. Head(dict') \in Seq(Chars)
      BY <1>2, <2>1
    <3>2. Len(Head(dict')) \in Nat /\ SubSeq(Head(dict'), 1, 0) = Root
      BY <3>1, Whole DEF Root
    <3>3. Clean(Root) = Root
      BY CleanEmpty
    <3>4. Clean(SubSeq(Head(dict'), 1, 0)) = Root
      BY <3>2, <3>3, Zenon
    <3>5. QED
      BY <3>2, <3>4
  <2>2. at' - 1 = 0 /\ at' >= 1 /\ at' = 1 /\ leaf' = Root
    BY <1>1
  <2>3. QED
    BY <2>1, <2>2 DEF Reading
<1>9. Sound'
  <2>1. UNCHANGED <<failure, hasEmit>> /\ Sound
    BY <1>1 DEF TrieInv
  <2>2. QED
    BY <1>5, <2>1 DEF Sound
<1>10. Stage'
  <2>1. /\ pc' = "load" /\ kids' = {} /\ queue' = << >>
    BY <1>1 DEF TrieInv, Stage, create
  <2>2. ASSUME inited', at' = 1
        PROVE  \A s \in nodes' \ {Root} : Final(s)'
    <3>1. inited /\ w = << >>
      BY <1>1, <2>2
    <3>2. at = 1 /\ leaf = Root
      BY <1>3, <1>4, <3>1, CleanEmpty DEF Root
    <3>3. UNCHANGED <<nodes, isEmit, hasEmit, failure>>
      BY <1>1, <3>2
    <3>4. \A s \in nodes \ {Root} : Final(s)
      BY <3>1, <3>2 DEF TrieInv, Stage
    <3>5. QED
      BY <3>3, <3>4 DEF Final, Emits
  <2>3. QED
    BY <2>1, <2>2 DEF Stage
<1>11. QED
  BY <1>6, <1>7, <1>8, <1>9, <1>10 DEF TrieInv

LEMMA ChildOf ==
  ASSUME TrieInv, NEW p \in nodes, NEW kid \in Children(p)
  PROVE  /\ kid \in nodes /\ kid \in Words /\ kid # Root /\ p \in Words
         /\ Len(p) \in Nat /\ Len(kid) = Len(p) + 1 /\ Parent(kid) = p
         /\ Key(kid) \in Letters /\ Lower[Key(kid)] = Key(kid)
         /\ kid = Append(p, Key(kid))
<1>1. /\ kid \in nodes /\ Len(kid) = Len(p) + 1 /\ Parent(kid) = p
      /\ kid \in Words /\ p \in Words /\ Len(p) \in Nat
  BY NodesWords DEF TrieInv, Children
<1>2. kid # Root
  BY <1>1, SuffixSelf
<1>3. Key(kid) \in Letters /\ kid = Append(p, Key(kid))
  BY <1>1, <1>2, Front
<1>4. Lower[Key(kid)] = Key(kid)
  <2>1. Len(kid) \in 1 .. Len(kid)
    BY <1>1
  <2>2. QED
    BY <1>1, <2>1 DEF TrieInv, Trie, Key
<1>5. QED
  BY <1>1, <1>2, <1>3, <1>4

LEMMA ParentNode ==
  ASSUME TrieInv, NEW s \in nodes, s # Root
  PROVE  s \in Words /\ Parent(s) \in nodes /\ s \in Children(Parent(s))
<1>1. s \in Words
  BY NodesWords DEF TrieInv
<1>2. Len(s) \in Nat \ {0} /\ Len(Parent(s)) = Len(s) - 1
  BY <1>1, Front
<1>3. Len(s) - 1 \in 0 .. Len(s)
  BY <1>2
<1>4. Parent(s) \in nodes
  BY <1>3 DEF TrieInv, Trie, Parent
<1>5. QED
  BY <1>1, <1>2, <1>4 DEF Children

LEMMA CreateTrie ==
  ASSUME TrieInv, CreateFailureStates
  PROVE  TrieInv'
<1>1. /\ pc = "load" /\ ~inited /\ at = 1 /\ pc' = "create" /\ kids' = Children(Root)
      /\ UNCHANGED <<load, trie, inited, queue, preFail, call>>
  BY DEF CreateFailureStates
<1>2. TypeOK'
  BY <1>1 DEF TrieInv, TypeOK, load, trie, call, Children
<1>3. Trie' /\ Reading' /\ Sound'
  BY <1>1 DEF TrieInv, load, trie, Trie, Vocabulary, Reading, Sound
<1>4. queue = << >> /\ queue' = << >> /\ Len(queue') = 0
  BY <1>1 DEF TrieInv, Stage
<1>5. ASSUME NEW s \in nodes \ {Root}
      PROVE  Pending(s)'
  <2>1. s \in Words /\ Len(s) \in Nat \ {0}
    BY NodesWords, Front DEF TrieInv
  <2>2. 1 \in 0 .. Len(s) /\ 1 \in 1 .. Len(s) /\ 0 \in 0 .. 1
    BY <2>1
  <2> DEFINE a == SubSeq(s, 1, 1)
  <2>3. a \in nodes /\ a \in Words /\ Len(a) = 1 /\ SubSeq(a, 1, 0) = SubSeq(s, 1, 0)
    BY <2>1, <2>2, FrontOfFront DEF TrieInv, Trie, Words
  <2>4. SubSeq(s, 1, 0) = Root
    BY <2>1, Whole DEF Words, Root
  <2> HIDE DEF a
  <2>5. a \in Children(Root)
    <3>1. Len(a) - 1 = 0 /\ Len(a) = Len(Root) + 1
      BY <2>3, SuffixSelf
    <3>2. QED
      BY <2>3, <2>4, <3>1 DEF Children, Parent
  <2>6. a \in kids'
    BY <1>1, <2>5
  <2>7. QED
    BY <2>2, <2>6 DEF Pending, a
<1>6. Building(Root)'
  <2>1. kids' \subseteq Children(Root)' /\ nodes' = nodes
    BY <1>1 DEF Children, trie
  <2>2. QED
    BY <1>4, <1>5, <2>1 DEF Building
<1>7. Stage'
  <2>1. Root \in nodes' /\ at' = 1 /\ ~inited' /\ pc' = "create"
    BY <1>1, <1>2 DEF TypeOK, load
  <2>2. QED
    BY <1>6, <2>1 DEF Stage
<1>8. QED
  BY <1>2, <1>3, <1>7 DEF TrieInv

\* A step that only adds links and flags of nodes leaves what is final final.
LEMMA FinalStays ==
  ASSUME NEW s, Final(s), UNCHANGED <<nodes, isEmit>>, hasEmit \subseteq hasEmit',
         s \in DOMAIN failure', failure'[s] = failure[s]
  PROVE  Final(s)'
<1>1. Final(s)' <=>
        /\ s \in DOMAIN failure'
        /\ \A t \in nodes : IsSuffix(t, s) /\ Len(t) < Len(s) => Len(t) <= Len(failure'[s])
        /\ (\E t \in isEmit : IsSuffix(t, s)) => s \in isEmit \cup hasEmit'
  BY DEF Final, Emits
<1>2. QED
  BY <1>1 DEF Final, Emits

\* No node of the length of p is pending.
LEMMA Early ==
  ASSUME TrieInv, NEW p \in nodes, Building(p), NEW s \in nodes, s # Root, Len(s) <= Len(p)
  PROVE  Final(s)
<1>1. s \in Words /\ p \in Words /\ Len(s) \in Nat /\ Len(p) \in Nat
  BY NodesWords DEF TrieInv
<1>2. ASSUME NEW i \in 1 .. Len(s), SubSeq(s, 1, i) \in kids
      PROVE  FALSE
  <2>1. Len(SubSeq(s, 1, i)) = Len(p) + 1
    BY <1>2 DEF Building, Children
  <2>2. Len(SubSeq(s, 1, i)) = i
    BY <1>1, FrontOfFront DEF Words
  <2>3. QED
    BY <1>1, <2>1, <2>2
<1>3. ASSUME NEW i \in 1 .. Len(s), i < Len(s), SubSeq(s, 1, i) \in Queued
      PROVE  FALSE
  <2>1. Len(p) <= Len(SubSeq(s, 1, i))
    BY <1>3 DEF Building, Queued
  <2>2. Len(SubSeq(s, 1, i)) = i
    BY <1>1, FrontOfFront DEF Words
  <2>3. QED
    BY <1>1, <1>3, <2>1, <2>2
<1>4. ~Pending(s)
  BY <1>2, <1>3 DEF Pending
<1>5. QED
  BY <1>4 DEF Building

LEMMA PopTrie ==
  ASSUME TrieInv, Pop
  PROVE  TrieInv'
<1>a. /\ pc = "create" /\ kids = {} /\ queue # << >>
      /\ kids' = Children(Head(queue)) /\ preFail' = failure[Head(queue)]
      /\ queue' = Tail(queue)
      /\ UNCHANGED <<pc, load, trie, inited, call>>
  BY DEF Pop
<1>b. Head(queue) \in nodes /\ Head(queue) = queue[1]
  BY <1>a DEF TrieInv, TypeOK
<1>c. PICK h \in nodes : h = Head(queue)
  BY <1>b
<1>1. /\ pc = "create" /\ kids = {} /\ queue # << >>
      /\ kids' = Children(h) /\ preFail' = failure[h] /\ queue' = Tail(queue)
      /\ UNCHANGED <<pc, load, trie, inited, call>>
  BY <1>a, <1>c
<1>2. PICK p \in nodes : Building(p)
  BY <1>1 DEF TrieInv, Stage
<1>3. /\ queue \in Seq(nodes) /\ Len(queue) \in Nat /\ 1 \in 1 .. Len(queue)
      /\ h = queue[1] /\ h \in nodes
  <2>1. queue \in Seq(nodes)
    BY DEF TrieInv, TypeOK
  <2>2. Len(queue) \in Nat /\ 1 \in 1 .. Len(queue)
    BY <1>1, <2>1
  <2>3. QED
    BY <1>b, <1>c, <2>1, <2>2
<1>4. /\ queue' \in Seq(nodes) /\ Len(queue') = Len(queue) - 1
      /\ \A i \in 1 .. Len(queue') : queue'[i] = queue[i + 1] /\ i + 1 \in 1 .. Len(queue)
  BY <1>1, <1>3
<1>5. /\ h # Root /\ Final(h) /\ Len(p) <= Len(h) /\ Len(h) <= Len(p) + 1
  BY <1>2, <1>3 DEF Building
<1>6. /\ h \in DOMAIN failure /\ failure[h] \in nodes
      /\ IsSuffix(failure[h], h) /\ Len(failure[h]) < Len(h)
  BY <1>5, NodesWords DEF TrieInv, Final, Sound
<1>7. Len(p) \in Nat /\ Len(h) \in Nat /\ \A s \in nodes : s \in Words /\ Len(s) \in Nat
  BY <1>2, <1>3, NodesWords DEF TrieInv
<1>8. TypeOK'
  <2>1. TypeOK
    BY DEF TrieInv
  <2>2. kids' \subseteq nodes
    BY <1>1 DEF Children
  <2>3. UNCHANGED <<pc, load, trie, inited, call>>
    BY <1>1
  <2>4. QED
    BY <1>1, <1>4, <1>6, <2>1, <2>2, <2>3 DEF TypeOK, load, trie, call
<1>9. Trie' /\ Reading' /\ Sound'
  BY <1>1 DEF TrieInv, load, trie, Trie, Vocabulary, Reading, Sound
<1>10. \A s \in nodes : Final(s) => Final(s)'
  BY <1>1 DEF trie, Final, Emits
<1>11. ASSUME NEW i \in 1 .. Len(queue')
       PROVE  \E q \in nodes :
                /\ q = queue'[i] /\ q # Root /\ Final(q)'
                /\ Len(h) <= Len(q) /\ Len(q) <= Len(h) + 1
  <2>1. queue'[i] = queue[i + 1] /\ i + 1 \in 1 .. Len(queue) /\ 1 <= i + 1
    BY <1>3, <1>4
  <2>2. PICK q \in nodes : q = queue[i + 1]
    BY <1>3, <2>1
  <2>3. q # Root /\ Final(q) /\ Len(q) <= Len(p) + 1
    BY <1>2, <2>1, <2>2 DEF Building
  <2>4. Len(h) <= Len(q)
    BY <1>2, <1>3, <2>1, <2>2 DEF Building
  <2>5. Final(q)'
    BY <1>10, <2>3
  <2>6. Len(q) <= Len(h) + 1
    BY <1>5, <1>7, <2>3
  <2>7. QED
    BY <2>1, <2>2, <2>3, <2>4, <2>5, <2>6
<1>12. ASSUME NEW i \in 1 .. Len(queue'), NEW j \in 1 .. Len(queue'), i <= j
       PROVE  Len(queue'[i]) <= Len(queue'[j])
  <2>1. /\ queue'[i] = queue[i + 1] /\ i + 1 \in 1 .. Len(queue)
        /\ queue'[j] = queue[j + 1] /\ j + 1 \in 1 .. Len(queue)
        /\ i + 1 <= j + 1
    BY <1>3, <1>4, <1>12
  <2>2. Len(queue[i + 1]) <= Len(queue[j + 1])
    BY <1>2, <2>1 DEF Building
  <2>3. QED
    BY <2>1, <2>2, Zenon
<1>13. ASSUME NEW s \in nodes, Pending(s)
       PROVE  Pending(s)'
  <2>1. PICK i \in 1 .. Len(s) : i < Len(s) /\ SubSeq(s, 1, i) \in Queued
    BY <1>1, <1>13 DEF Pending
  <2>2. PICK j \in 1 .. Len(queue) : SubSeq(s, 1, i) = queue[j]
    BY <2>1 DEF Queued
  <2>3. CASE j = 1
    <3> DEFINE k == i + 1
               a == SubSeq(s, 1, k)
    <3>1. s \in Words /\ i \in Nat /\ k \in 0 .. Len(s) /\ k \in 1 .. Len(s) /\ i \in 0 .. k
      BY <1>7, <2>1
    <3>2. Len(a) = k /\ SubSeq(a, 1, i) = SubSeq(s, 1, i) /\ Len(SubSeq(s, 1, i)) = i
      <4>1. i \in 0 .. Len(s)
        BY <1>7, <2>1
      <4>2. QED
        BY <3>1, <4>1, FrontOfFront DEF Words
    <3>3. a \in nodes
      BY <3>1 DEF TrieInv, Trie
    <3> HIDE DEF a
    <3>4. Len(a) - 1 = i /\ Len(a) = Len(h) + 1 /\ SubSeq(a, 1, Len(a) - 1) = h
      BY <1>3, <2>2, <2>3, <3>1, <3>2
    <3>5. a \in kids'
      BY <1>1, <3>3, <3>4 DEF Children, Parent
    <3>6. QED
      BY <3>1, <3>5 DEF Pending, a
  <2>4. CASE j # 1
    <3> DEFINE k == j - 1
    <3>1. k \in 1 .. Len(queue') /\ k + 1 = j
      BY <1>3, <1>4, <2>4
    <3> HIDE DEF k
    <3>2. queue'[k] = SubSeq(s, 1, i)
      BY <1>4, <2>2, <3>1
    <3>3. SubSeq(s, 1, i) \in Queued'
      BY <3>1, <3>2 DEF Queued
    <3>4. QED
      BY <2>1, <3>3 DEF Pending
  <2>5. QED
    BY <2>3, <2>4
<1>14. Building(h)'
  <2>1. kids' \subseteq Children(h)'
    BY <1>1 DEF Children, trie
  <2>2. \A s \in nodes' \ {Root} : Pending(s)' \/ Final(s)'
    BY <1>1, <1>2, <1>10, <1>13 DEF Building, trie
  <2>3. Longest(h, preFail)'
    <3>1. \A t \in nodes : IsSuffix(t, h) /\ Len(t) < Len(h) => Len(t) <= Len(failure[h])
      BY <1>5 DEF Final
    <3>2. nodes' = nodes /\ preFail' = failure[h]
      BY <1>1 DEF trie
    <3>3. QED
      BY <3>1, <3>2 DEF Longest
  <2>4. Final(h)' /\ IsSuffix(preFail', h) /\ Len(preFail') < Len(h)
    BY <1>1, <1>3, <1>5, <1>6, <1>10
  <2>5. \A i \in 1 .. Len(queue') :
          /\ queue'[i] # Root /\ Final(queue[i])'
          /\ Len(h) <= Len(queue'[i]) /\ Len(queue'[i]) <= Len(h) + 1
    BY <1>11 DEF Final, Emits
  <2>6. \A i, j \in 1 .. Len(queue') : i <= j => Len(queue'[i]) <= Len(queue'[j])
    BY <1>12
  <2>7. QED
    BY <2>1, <2>2, <2>3, <2>4, <2>5, <2>6 DEF Building
<1>15. Stage'
  <2>1. h \in nodes' /\ at' = 1 /\ ~inited' /\ pc' = "create"
    BY <1>1, <1>3 DEF TrieInv, Stage, load, trie
  <2>2. QED
    BY <1>14, <2>1 DEF Stage
<1>16. QED
  BY <1>8, <1>9, <1>15 DEF TrieInv

\* A child of p is linked to a suffix of its own, its link being final.
LEMMA LinkedTrie ==
  ASSUME TrieInv, pc = "create", NEW p \in nodes, Building(p),
         NEW kid \in kids, NEW to \in nodes, Linked(kid, to),
         IsSuffix(to, kid), Len(to) < Len(kid),
         hasEmit \subseteq hasEmit', hasEmit' \subseteq hasEmit \cup {kid},
         kid \in hasEmit' \ hasEmit => Emits(to),
         Final(kid)', preFail' \in nodes,
         p # Root => preFail' = failure[p]
  PROVE  TrieInv'
<1>1. /\ failure' = [s \in DOMAIN failure \cup {kid} |-> IF s = kid THEN to ELSE failure[s]]
      /\ queue' = Append(queue, kid) /\ kids' = kids \ {kid}
      /\ UNCHANGED <<pc, load, nodes, isEmit, inited, call>>
  BY DEF Linked
<1>2. kid \in Children(p)
  BY DEF Building
<1>3. /\ kid \in nodes /\ kid \in Words /\ kid # Root /\ Len(p) \in Nat
      /\ Len(kid) = Len(p) + 1 /\ kid # p
  BY <1>2, ChildOf
<1>4. \A s \in nodes : s \in Words /\ Len(s) \in Nat
  BY NodesWords DEF TrieInv
<1>5. queue \in Seq(nodes) /\ Len(queue) \in Nat
  BY DEF TrieInv, TypeOK
<1>6. /\ queue' \in Seq(nodes) /\ Len(queue') = Len(queue) + 1
      /\ \A i \in 1 .. Len(queue) : queue'[i] = queue[i]
      /\ queue'[Len(queue) + 1] = kid
  BY <1>1, <1>3, <1>5
<1>7. /\ DOMAIN failure' = DOMAIN failure \cup {kid} /\ failure'[kid] = to
      /\ \A s \in DOMAIN failure \ {kid} : failure'[s] = failure[s]
      /\ DOMAIN failure \subseteq nodes
      /\ \A s \in DOMAIN failure : failure[s] \in nodes
  BY <1>1, NodesWords DEF TrieInv
<1>8. TypeOK'
  <2>1. TypeOK /\ UNCHANGED <<pc, load, nodes, isEmit, inited, call>>
    BY <1>1 DEF TrieInv
  <2>2. failure' \in [DOMAIN failure' -> nodes] /\ DOMAIN failure' \subseteq nodes
    BY <1>1, <1>3, <1>7
  <2>3. hasEmit' \subseteq nodes /\ kids' \subseteq nodes
    BY <1>1, <1>3, <2>1 DEF TypeOK
  <2>4. QED
    BY <1>6, <2>1, <2>2, <2>3 DEF TypeOK, load, call
<1>9. Trie' /\ Reading'
  BY <1>1 DEF TrieInv, load, Trie, Vocabulary, Reading
<1>10. Sound'
  <2>1. Root \in DOMAIN failure' /\ failure'[Root] = Root
    BY <1>3, <1>7 DEF TrieInv, Sound
  <2>2. \A s \in DOMAIN failure' \ {Root} : IsSuffix(failure'[s], s) /\ Len(failure'[s]) < Len(s)
    BY <1>7 DEF TrieInv, Sound
  <2>3. ASSUME NEW s \in hasEmit'
        PROVE  \E t \in isEmit : IsSuffix(t, s)
    <3>1. CASE s \in hasEmit
      BY <3>1 DEF TrieInv, Sound
    <3>2. CASE s \notin hasEmit
      <4>1. s = kid /\ Emits(to)
        BY <3>2
      <4>2. PICK t \in isEmit : IsSuffix(t, to)
        BY <1>4, <4>1, SuffixSelf DEF Emits, TrieInv, Sound
      <4>3. t \in Words
        BY <1>4 DEF TrieInv, TypeOK
      <4>4. IsSuffix(t, s)
        BY <1>3, <1>4, <4>1, <4>2, <4>3, SuffixTrans
      <4>5. QED
        BY <4>4
    <3>3. QED
      BY <3>1, <3>2
  <2>4. isEmit' = isEmit
    BY <1>1
  <2>5. QED
    BY <2>1, <2>2, <2>3, <2>4 DEF Sound
<1>11. ASSUME NEW s \in nodes, Final(s)
       PROVE  Final(s)'
  <2>1. CASE s = kid
    BY <2>1
  <2>2. CASE s # kid
    <3>1. s \in DOMAIN failure' /\ failure'[s] = failure[s] /\ UNCHANGED <<nodes, isEmit>>
      BY <1>1, <1>7, <1>11, <2>2 DEF Final
    <3>2. QED
      BY <1>11, <3>1, FinalStays
  <2>3. QED
    BY <2>1, <2>2
<1>12. ASSUME NEW i \in 1 .. Len(queue')
       PROVE  \E q \in nodes :
                /\ q = queue'[i] /\ q # Root /\ Final(q)'
                /\ Len(p) <= Len(q) /\ Len(q) <= Len(p) + 1
                /\ i # Len(queue) + 1 => i \in 1 .. Len(queue) /\ q = queue[i]
                /\ i = Len(queue) + 1 => q = kid
  <2>1. CASE i = Len(queue) + 1
    BY <1>3, <1>6, <2>1
  <2>2. CASE i # Len(queue) + 1
    <3>1. i \in 1 .. Len(queue)
      BY <1>5, <1>6, <2>2
    <3>2. PICK q \in nodes : q = queue[i]
      BY <1>5, <3>1
    <3>3. q # Root /\ Final(q) /\ Len(p) <= Len(q) /\ Len(q) <= Len(p) + 1
      BY <3>1, <3>2 DEF Building
    <3>4. Final(q)'
      BY <1>11, <3>3
    <3>5. q = queue'[i]
      BY <1>6, <3>1, <3>2
    <3>6. QED
      BY <2>2, <3>1, <3>2, <3>3, <3>4, <3>5
  <2>3. QED
    BY <2>1, <2>2
<1>13. ASSUME NEW i \in 1 .. Len(queue'), NEW j \in 1 .. Len(queue'), i <= j
       PROVE  Len(queue'[i]) <= Len(queue'[j])
  <2>1. CASE j = Len(queue) + 1
    BY <1>3, <1>6, <1>12, <2>1
  <2>2. CASE j # Len(queue) + 1
    <3>1. i \in 1 .. Len(queue) /\ j \in 1 .. Len(queue)
      BY <1>5, <1>6, <1>13, <2>2
    <3>2. Len(queue[i]) <= Len(queue[j])
      BY <1>13, <3>1 DEF Building
    <3>3. QED
      BY <1>6, <3>1, <3>2, Zenon
  <2>3. QED
    BY <2>1, <2>2
<1>14. ASSUME NEW s \in nodes, Pending(s), s # kid
       PROVE  Pending(s)'
  <2>1. /\ s \in Words /\ SubSeq(s, 1, Len(s)) = s
    BY <1>4, Whole DEF Words
  <2>2. kid \in Queued' /\ Queued \subseteq Queued'
    <3>1. Len(queue) + 1 \in 1 .. Len(queue') /\ 1 .. Len(queue) \subseteq 1 .. Len(queue')
      BY <1>5, <1>6
    <3>2. QED
      BY <1>6, <3>1 DEF Queued
  <2>3. PICK i \in 1 .. Len(s) : \/ SubSeq(s, 1, i) \in kids
                                 \/ i < Len(s) /\ SubSeq(s, 1, i) \in Queued
    BY <1>14 DEF Pending
  <2>4. CASE SubSeq(s, 1, i) = kid
    <3>1. i # Len(s)
      BY <1>14, <2>1, <2>4
    <3>2. i < Len(s)
      BY <1>4, <2>3, <3>1
    <3>3. QED
      BY <2>2, <2>4, <3>2 DEF Pending
  <2>5. CASE SubSeq(s, 1, i) # kid
    BY <1>1, <2>2, <2>3, <2>5 DEF Pending
  <2>6. QED
    BY <2>4, <2>5
<1>15. Building(p)'
  <2>1. kids' \subseteq Children(p)'
    BY <1>1 DEF Building, Children
  <2>2. \A i \in 1 .. Len(queue') :
          /\ queue'[i] # Root /\ Final(queue[i])'
          /\ Len(p) <= Len(queue'[i]) /\ Len(queue'[i]) <= Len(p) + 1
    BY <1>12 DEF Final, Emits
  <2>3. \A i, j \in 1 .. Len(queue') : i <= j => Len(queue'[i]) <= Len(queue'[j])
    BY <1>13
  <2>4. \A s \in nodes' \ {Root} : Pending(s)' \/ Final(s)'
    <3>1. ASSUME NEW s \in nodes \ {Root}
          PROVE  Pending(s)' \/ Final(s)'
      <4>1. Pending(s) \/ Final(s)
        BY DEF Building
      <4>2. QED
        BY <1>11, <1>14, <4>1
    <3>2. QED
      BY <1>1, <3>1
  <2>5. ASSUME p # Root
        PROVE  /\ Final(p)'
               /\ IsSuffix(preFail', p) /\ Len(preFail') < Len(p)
               /\ Longest(p, preFail)'
    <3>1. Final(p) /\ preFail' = failure[p]
      BY <2>5 DEF Building
    <3>2. IsSuffix(preFail', p) /\ Len(preFail') < Len(p)
      BY <2>5, <3>1 DEF TrieInv, Sound, Final
    <3>3. \A t \in nodes : IsSuffix(t, p) /\ Len(t) < Len(p) => Len(t) <= Len(preFail')
      BY <3>1 DEF Final
    <3>4. nodes' = nodes
      BY <1>1
    <3>5. Longest(p, preFail)'
      BY <3>3, <3>4 DEF Longest
    <3>6. QED
      BY <1>11, <3>1, <3>2, <3>5
  <2>6. QED
    BY <2>1, <2>2, <2>3, <2>4, <2>5 DEF Building
<1>16. Stage'
  <2>1. p \in nodes' /\ at' = 1 /\ ~inited' /\ pc' = "create"
    BY <1>1 DEF TrieInv, Stage, load
  <2>2. QED
    BY <1>15, <2>1 DEF Stage
<1>17. QED
  BY <1>8, <1>9, <1>10, <1>16 DEF TrieInv

LEMMA LinkHeadTrie ==
  ASSUME TrieInv, NEW kid \in kids, LinkHead(kid)
  PROVE  TrieInv'
<1>1. pc = "create" /\ Len(kid) = 1 /\ Linked(kid, Root) /\ UNCHANGED <<hasEmit, preFail>>
  BY DEF LinkHead
<1>2. PICK p \in nodes : Building(p)
  BY <1>1 DEF TrieInv, Stage
<1>3. /\ kid \in nodes /\ kid \in Words /\ Len(p) \in Nat /\ Len(kid) = Len(p) + 1
  BY <1>2, ChildOf DEF Building
<1>4. p = Root /\ Root \in nodes
  <2>1. p \in Words /\ Root \in nodes
    BY NodesWords DEF TrieInv
  <2>2. p # Root => Len(p) > 0
    BY <2>1, Front
  <2>3. QED
    BY <1>1, <1>3, <2>1, <2>2
<1>5. IsSuffix(Root, kid) /\ Len(Root) < Len(kid)
  BY <1>1, <1>3, SuffixSelf
<1>6. UNCHANGED <<nodes, isEmit>> /\ kid \in DOMAIN failure' /\ failure'[kid] = Root
  BY <1>1 DEF Linked
<1>7. ASSUME NEW t \in isEmit, IsSuffix(t, kid)
      PROVE  t = kid
  <2>1. t \in Words /\ t # Root
    BY NodesWords DEF TrieInv, Trie
  <2>2. Len(t) \in Nat \ {0} /\ Len(t) <= 1
    BY <1>1, <1>7, <2>1, Front DEF IsSuffix
  <2>3. Len(t) = Len(kid) /\ IsSuffix(kid, kid)
    BY <1>1, <1>3, <2>2, SuffixSelf
  <2>4. QED
    BY <1>3, <1>7, <2>1, <2>3, SuffixBoth
<1>8. Final(kid)'
  <2>1. \A t \in nodes : Len(t) < Len(kid) => Len(t) <= Len(Root)
    BY <1>1, SuffixSelf, NodesWords DEF TrieInv
  <2>2. QED
    BY <1>6, <1>7, <2>1 DEF Final, Emits
<1>9. preFail' \in nodes
  BY <1>1 DEF TrieInv, TypeOK
<1>10. QED
  BY <1>1, <1>2, <1>4, <1>5, <1>8, <1>9, LinkedTrie

LEMMA LinkTrie ==
  ASSUME TrieInv, NEW kid \in kids, Link(kid)
  PROVE  TrieInv'
<1> DEFINE char == Key(kid)
<1>1. /\ pc = "create" /\ NextKid(kid) /\ Len(kid) > 1 /\ CanMove(preFail, Key(kid))
      /\ preFail' = failure[Parent(kid)]
  BY DEF Link
<1>2. PICK to : to = NextState(preFail, Key(kid))
  OBVIOUS
<1>3. Linked(kid, to) /\ hasEmit' = IF Emits(to) THEN hasEmit \cup {kid} ELSE hasEmit
  BY <1>2 DEF Link
<1>4. PICK p \in nodes : Building(p)
  BY <1>1 DEF TrieInv, Stage
<1>5. /\ kid \in nodes /\ kid \in Words /\ kid # Root /\ p \in Words /\ Len(p) \in Nat
      /\ Len(kid) = Len(p) + 1 /\ Parent(kid) = p
      /\ char \in Letters /\ Lower[char] = char /\ kid = Append(p, char)
  BY <1>4, ChildOf DEF Building
<1>6. p # Root /\ Root \in nodes /\ Len(Root) = 0 /\ Root \in Words
  BY <1>1, <1>5, SuffixSelf, NodesWords DEF TrieInv
<1>7. /\ Final(p) /\ preFail \in nodes /\ preFail \in Words
      /\ IsSuffix(preFail, p) /\ Len(preFail) < Len(p) /\ Len(preFail) \in Nat
  BY <1>4, <1>6, NodesWords DEF TrieInv, TypeOK, Building
<1> HIDE DEF char
<1>8. \/ Append(preFail, char) \in nodes /\ to = Append(preFail, char)
      \/ Append(preFail, char) \notin nodes /\ preFail = Root /\ to = Root
  BY <1>1, <1>2, <1>5 DEF CanMove, NextState, char
<1>9. to \in nodes /\ to \in Words /\ Len(to) \in Nat
  BY <1>6, <1>8, NodesWords DEF TrieInv
<1>10. IsSuffix(to, kid) /\ Len(to) < Len(kid) /\ Len(to) <= Len(preFail) + 1
  <2>1. CASE to = Append(preFail, char)
    <3>1. IsSuffix(to, kid)
      BY <1>5, <1>7, <2>1, SuffixAppend
    <3>2. Len(to) = Len(preFail) + 1
      BY <1>7, <1>5, <2>1 DEF Words
    <3>3. QED
      BY <1>5, <1>7, <3>1, <3>2
  <2>2. CASE to = Root
    BY <1>5, <1>6, <1>7, <2>2, SuffixSelf
  <2>3. QED
    BY <1>8, <2>1, <2>2
<1>11. ASSUME NEW t \in nodes, IsSuffix(t, kid), Len(t) < Len(kid)
       PROVE  Len(t) <= Len(to)
  <2>1. CASE t = Root
    BY <1>6, <1>9, <2>1
  <2>2. CASE t # Root
    <3>1. t \in Words /\ Parent(t) \in nodes /\ Parent(t) \in Words
      BY <2>2, ParentNode, NodesWords DEF TrieInv
    <3>2. t = Append(Parent(t), char) /\ IsSuffix(Parent(t), p)
      BY <1>5, <1>11, <2>2, <3>1, SuffixAppend
    <3>3. Len(t) \in Nat /\ Len(Parent(t)) = Len(t) - 1
      BY <2>2, <3>1, Front
    <3>4. Len(Parent(t)) < Len(p)
      BY <1>5, <1>11, <3>3
    <3>5. Longest(p, preFail)
      BY <1>4, <1>6 DEF Building
    <3>6. Len(Parent(t)) <= Len(preFail)
      BY <1>1, <3>1, <3>2, <3>4, <3>5 DEF Longest, char
    <3>7. CASE Append(preFail, char) \in nodes /\ to = Append(preFail, char)
      <4>1. Len(to) = Len(preFail) + 1
        BY <1>5, <1>7, <3>7 DEF Words
      <4>2. QED
        BY <1>7, <3>3, <3>6, <4>1
    <3>8. CASE Append(preFail, char) \notin nodes /\ preFail = Root
      <4>1. Len(Parent(t)) = 0
        BY <1>6, <3>3, <3>6, <3>8, <3>1 DEF Words
      <4>2. Parent(t) = Root
        BY <3>1, <4>1 DEF Words, Root
      <4>3. QED
        BY <3>2, <3>8, <4>2
    <3>9. QED
      BY <1>8, <3>7, <3>8
  <2>3. QED
    BY <2>1, <2>2
<1>12. ASSUME NEW t \in isEmit, IsSuffix(t, kid), t # kid
       PROVE  Emits(to)
  <2>1. t \in nodes /\ t \in Words /\ t # Root
    BY NodesWords DEF TrieInv, Trie
  <2>2. Len(t) \in Nat \ {0} /\ Len(t) <= Len(kid)
    BY <1>12, <2>1, Front DEF IsSuffix
  <2>3. Len(t) # Len(kid)
    <3>1. IsSuffix(kid, kid)
      BY <1>5, SuffixSelf
    <3>2. Len(t) = Len(kid) => t = kid
      BY <1>5, <1>12, <2>1, <2>2, <3>1, SuffixBoth
    <3>3. QED
      BY <1>12, <3>2
  <2>4. Len(t) <= Len(to)
    BY <1>5, <1>11, <1>12, <2>1, <2>2, <2>3
  <2>5. IsSuffix(t, to)
    BY <1>5, <1>9, <1>10, <1>12, <2>1, <2>4, SuffixBoth
  <2>6. to # Root /\ Len(to) <= Len(p)
    BY <1>5, <1>6, <1>9, <1>10, <2>2, <2>4
  <2>7. Final(to)
    BY <1>4, <1>9, <2>6, Early
  <2>8. QED
    BY <2>5, <2>7 DEF Final
<1>13. Final(kid)'
  <2>1. UNCHANGED <<nodes, isEmit>> /\ kid \in DOMAIN failure' /\ failure'[kid] = to
    BY <1>3 DEF Linked
  <2>2. (\E t \in isEmit : IsSuffix(t, kid)) => kid \in isEmit \cup hasEmit'
    BY <1>3, <1>12
  <2>3. QED
    BY <1>11, <2>1, <2>2 DEF Final, Emits
<1>14. preFail' = failure[p] /\ preFail' \in nodes
  BY <1>1, <1>5, <1>7, NodesWords DEF TrieInv, Final
<1>15. /\ hasEmit \subseteq hasEmit' /\ hasEmit' \subseteq hasEmit \cup {kid}
       /\ kid \in hasEmit' \ hasEmit => Emits(to)
  BY <1>3
<1>16. QED
  BY <1>1, <1>3, <1>4, <1>9, <1>10, <1>13, <1>14, <1>15, LinkedTrie

LEMMA LinkFallTrie ==
  ASSUME TrieInv, LinkFall
  PROVE  TrieInv'
<1>1. PICK kid \in kids : /\ NextKid(kid) /\ Len(kid) > 1 /\ ~CanMove(preFail, Key(kid))
  BY DEF LinkFall
<1>2. /\ pc = "create" /\ preFail' = failure[preFail]
      /\ UNCHANGED <<pc, load, trie, inited, queue, kids, call>>
  BY DEF LinkFall
<1>3. PICK p \in nodes : Building(p)
  BY <1>2 DEF TrieInv, Stage
<1> DEFINE char == Key(kid)
<1>4. /\ kid \in nodes /\ p \in Words /\ Len(p) \in Nat
      /\ Len(kid) = Len(p) + 1
      /\ char \in Letters /\ Lower[char] = char /\ kid = Append(p, char)
  BY <1>3, ChildOf DEF Building
<1>5. p # Root
  BY <1>1, <1>4, SuffixSelf
<1>6. /\ Final(p) /\ preFail \in nodes /\ preFail \in Words
      /\ IsSuffix(preFail, p) /\ Len(preFail) < Len(p) /\ Len(preFail) \in Nat
      /\ Longest(p, preFail)
  BY <1>3, <1>5, NodesWords DEF TrieInv, TypeOK, Building
<1>7. preFail # Root /\ Append(preFail, char) \notin nodes
  BY <1>1, <1>4 DEF CanMove
<1>8. Final(preFail)
  BY <1>3, <1>4, <1>6, <1>7, Early
<1> HIDE DEF char
<1>9. /\ preFail \in DOMAIN failure /\ failure[preFail] \in nodes /\ failure[preFail] \in Words
      /\ IsSuffix(failure[preFail], preFail) /\ Len(failure[preFail]) < Len(preFail)
  BY <1>7, <1>8, NodesWords DEF TrieInv, Final, Sound
<1>10. /\ preFail' \in nodes /\ IsSuffix(preFail', p) /\ Len(preFail') < Len(p)
  <2>1. IsSuffix(failure[preFail], p)
    BY <1>4, <1>6, <1>9, SuffixTrans
  <2>2. Len(failure[preFail]) \in Nat
    BY <1>9, NodesWords DEF TrieInv
  <2>3. QED
    BY <1>2, <1>4, <1>6, <1>9, <2>1, <2>2
<1>11. ASSUME NEW other \in kids, NextKid(other)
       PROVE  other = kid
  <2>1. Key(other) \in Letters /\ other = Append(p, Key(other))
    BY <1>3, ChildOf DEF Building
  <2>2. Key(other) <= char /\ char <= Key(other)
    BY <1>1, <1>11 DEF NextKid, char
  <2>3. Key(other) = char
    BY <1>4, <2>1, <2>2, CharsAssumption
  <2>4. QED
    BY <1>4, <2>1, <2>3
<1>12. ASSUME NEW t \in nodes, IsSuffix(t, p), Len(t) < Len(p), Append(t, char) \in nodes
       PROVE  Len(t) <= Len(failure[preFail])
  <2>1. t \in Words /\ Len(t) \in Nat
    BY NodesWords DEF TrieInv
  <2>2. Len(t) <= Len(preFail)
    BY <1>1, <1>6, <1>12 DEF Longest, char
  <2>3. Len(t) # Len(preFail)
    BY <1>4, <1>6, <1>7, <1>12, <2>1, SuffixBoth
  <2>4. IsSuffix(t, preFail) /\ Len(t) < Len(preFail)
    BY <1>4, <1>6, <1>12, <2>1, <2>2, <2>3, SuffixBoth
  <2>5. QED
    BY <1>8, <2>4 DEF Final
<1>13. Longest(p, failure[preFail])
  BY <1>11, <1>12 DEF Longest, char
<1>14. TypeOK'
  BY <1>2, <1>10 DEF TrieInv, TypeOK, load, trie, call
<1>15. Trie' /\ Reading' /\ Sound'
  BY <1>2 DEF TrieInv, load, trie, Trie, Vocabulary, Reading, Sound
<1>16. \A s \in nodes : Final(s) => Final(s)'
  BY <1>2 DEF trie, Final, Emits
<1>17. Building(p)'
  <2>1. UNCHANGED <<nodes, kids, queue, isEmit, hasEmit, failure>>
    BY <1>2 DEF trie
  <2>2. \A i \in 1 .. Len(queue') :
          /\ queue'[i] # Root /\ Final(queue[i])'
          /\ Len(p) <= Len(queue'[i]) /\ Len(queue'[i]) <= Len(p) + 1
    BY <1>3, <2>1 DEF Building, Final, Emits
  <2>3. \A s \in nodes' \ {Root} : Pending(s)' \/ Final(s)'
    BY <1>3, <1>16, <2>1 DEF Building, Pending, Queued
  <2>4. Longest(p, preFail)'
    BY <1>2, <1>13, <2>1 DEF Longest, NextKid
  <2>5. /\ kids' \subseteq Children(p)'
        /\ \A i, j \in 1 .. Len(queue') : i <= j => Len(queue'[i]) <= Len(queue'[j])
    BY <1>3, <2>1 DEF Building, Children
  <2>6. QED
    BY <1>6, <1>10, <1>16, <2>2, <2>3, <2>4, <2>5 DEF Building
<1>18. Stage'
  <2>1. p \in nodes' /\ at' = 1 /\ ~inited' /\ pc' = "create"
    BY <1>2 DEF TrieInv, Stage, load, trie
  <2>2. QED
    BY <1>17, <2>1 DEF Stage
<1>19. QED
  BY <1>14, <1>15, <1>18 DEF TrieInv

LEMMA CreatedTrie ==
  ASSUME TrieInv, Created
  PROVE  TrieInv'
<1>1. /\ pc = "create" /\ kids = {} /\ queue = << >> /\ inited' = TRUE /\ pc' = "load"
      /\ UNCHANGED <<load, trie, create, call>>
  BY DEF Created
<1>2. PICK p \in nodes : Building(p)
  BY <1>1 DEF TrieInv, Stage
<1>3. \A s \in nodes \ {Root} : Final(s)
  BY <1>1, <1>2 DEF Building, Pending, Queued
<1>4. TypeOK'
  BY <1>1 DEF TrieInv, TypeOK, load, trie, create, call
<1>5. Trie' /\ Reading' /\ Sound'
  BY <1>1 DEF TrieInv, load, trie, Trie, Vocabulary, Reading, Sound
<1>6. Stage'
  BY <1>1, <1>3 DEF Stage, load, trie, create, Final, Emits
<1>7. QED
  BY <1>4, <1>5, <1>6 DEF TrieInv

LEMMA TrieInit ==
  Init => TrieInv
<1> SUFFICES ASSUME Init
             PROVE  TrieInv
  OBVIOUS
<1>1. TypeOK
  <2>1. dict \in Seq(Seq(Chars)) /\ words \subseteq Seq(Chars)
    BY CharsAssumption DEF Init
  <2>2. Root \in Seq(Letters) /\ queue \in Seq(nodes) /\ text \in Seq(Chars)
    BY DEF Init, Root
  <2>3. DOMAIN failure = {Root} /\ failure \in [{Root} -> {Root}]
    BY DEF Init
  <2>4. QED
    BY <2>1, <2>2, <2>3 DEF Init, TypeOK
<1>2. Trie
  <2>1. SubSeq(Root, 1, 0) = Root /\ Len(Root) = 0
    BY DEF Root
  <2>2. \A i \in 0 .. 0 : i = 0
    OBVIOUS
  <2>3. \A i \in 1 .. 0 : FALSE
    OBVIOUS
  <2>4. Vocabulary = {}
    BY DEF Init, Vocabulary
  <2>5. QED
    BY <2>1, <2>2, <2>3, <2>4 DEF Init, Trie
<1>3. Reading
  <2>1. dict \in Seq(Seq(Chars)) /\ at = 1 /\ leaf = Root
    BY <1>1 DEF Init, TypeOK
  <2>2. ASSUME dict # << >>
        PROVE  1 <= Len(Head(dict)) + 1 /\ Clean(SubSeq(Head(dict), 1, 0)) = Root
    <3>1. Head(dict) \in Seq(Chars)
      BY <2>1, <2>2
    <3>2. Len(Head(dict)) \in Nat /\ SubSeq(Head(dict), 1, 0) = Root
      BY <3>1, Whole DEF Root
    <3>3. Clean(SubSeq(Head(dict), 1, 0)) = Root
      BY <3>2, CleanEmpty, Zenon
    <3>4. QED
      BY <3>2, <3>3
  <2>3. at - 1 = 0 /\ at >= 1
    BY <2>1
  <2>4. QED
    BY <2>1, <2>2, <2>3 DEF Reading
<1>4. Sound /\ Stage
  BY DEF Init, Sound, Stage
<1>5. QED
  BY <1>1, <1>2, <1>3, <1>4 DEF TrieInv

\* The steps that load the dictionary or build the links.
LEMMA BuildTrie ==
  ASSUME TrieInv, Load \/ Create
  PROVE  TrieInv'
<1>1. CASE AddLeaf
  BY <1>1, AddLeafTrie
<1>2. CASE ErrNotASCII
  <2>1. TypeOK'
    BY <1>2 DEF TrieInv, ErrNotASCII, TypeOK, load, trie, create, call
  <2>2. QED
    BY <1>2, <2>1, KeepTrie DEF ErrNotASCII
<1>3. CASE AddKeyWord
  BY <1>3, AddKeyWordTrie
<1>4. CASE CreateFailureStates
  BY <1>4, CreateTrie
<1>5. CASE Pop
  BY <1>5, PopTrie
<1>6. CASE LinkFall
  BY <1>6, LinkFallTrie
<1>7. CASE \E kid \in kids : LinkHead(kid) \/ Link(kid)
  BY <1>7, LinkHeadTrie, LinkTrie
<1>8. CASE Created
  BY <1>8, CreatedTrie
<1>9. CASE Constructed
  <2>1. TypeOK'
    BY <1>9 DEF TrieInv, Constructed, TypeOK, load, trie, create, call
  <2>2. at = 1
    BY <1>9 DEF TrieInv, Constructed, Reading
  <2>3. QED
    BY <1>9, <2>1, <2>2, KeepTrie DEF Constructed
<1>10. QED
  BY <1>1, <1>2, <1>3, <1>4, <1>5, <1>6, <1>7, <1>8, <1>9 DEF Load, Create

LEMMA LinksRight ==
  ASSUME TrieInv
  PROVE  FailureLinks
<1> SUFFICES ASSUME inited, at = 1, NEW s \in nodes \ {Root}
             PROVE  /\ failure[s] \in Suffixes(s, Len(s) - 1)
                    /\ \A t \in Suffixes(s, Len(s) - 1) \cap nodes : Len(t) <= Len(failure[s])
                    /\ Emits(s) <=> Suffixes(s, Len(s)) \cap Vocabulary # {}
  BY DEF FailureLinks
<1>1. s \in Words /\ Final(s) /\ s \in DOMAIN failure /\ failure[s] \in Words
  BY NodesWords DEF TrieInv, Stage, Final
<1>2. failure[s] \in Suffixes(s, Len(s) - 1)
  BY <1>1, SuffixesAre DEF TrieInv, Sound
<1>3. ASSUME NEW t \in Suffixes(s, Len(s) - 1) \cap nodes
      PROVE  Len(t) <= Len(failure[s])
  <2>1. IsSuffix(t, s) /\ Len(t) < Len(s)
    BY <1>1, SuffixesAre
  <2>2. QED
    BY <1>1, <2>1 DEF Final
<1>4. ASSUME Emits(s)
      PROVE  Suffixes(s, Len(s)) \cap Vocabulary # {}
  <2>1. PICK t \in isEmit : IsSuffix(t, s)
    BY <1>1, <1>4, SuffixSelf DEF Emits, TrieInv, Sound
  <2>2. t \in Words /\ t \in Vocabulary
    BY NodesWords DEF TrieInv, Trie
  <2>3. t \in Suffixes(s, Len(s))
    BY <1>1, <2>1, <2>2, SuffixesAre
  <2>4. QED
    BY <2>2, <2>3
<1>5. ASSUME NEW t \in Suffixes(s, Len(s)) \cap Vocabulary
      PROVE  Emits(s)
  <2>1. IsSuffix(t, s) /\ t \in isEmit
    BY <1>1, SuffixesAre DEF TrieInv, Trie
  <2>2. QED
    BY <1>1, <2>1 DEF Final
<1>6. QED
  BY <1>2, <1>3, <1>4, <1>5

-----------------------------------------------------------------------------
(* One character of a text more.                                           *)

\* s is the longest node that t ends with, and the longest of those that char extends.
Top(s, t) == \A u \in nodes : IsSuffix(u, t) => Len(u) <= Len(s)
TopFor(s, t, char) ==
  \A u \in nodes : IsSuffix(u, t) /\ Append(u, Lower[char]) \in nodes => Len(u) <= Len(s)

LEMMA SoFarIs ==
  ASSUME NEW s \in Seq(Chars), NEW k \in 0 .. Len(s)
  PROVE  Clean(SubSeq(s, 1, k)) \in Words /\ Len(Clean(SubSeq(s, 1, k))) = LettersIn(s, k)
<1>1. CASE k = 0
  <2>1. SubSeq(s, 1, 0) = Root /\ Clean(Root) = Root
    BY Whole, CleanEmpty DEF Root
  <2>2. Clean(SubSeq(s, 1, k)) = Root
    BY <1>1, <2>1, Zenon
  <2>3. LettersIn(s, k) = 0
    <3>1. 0 \in Nat
      OBVIOUS
    <3>2. QED
      BY <1>1, <3>1, CountStep
  <2>4. Root \in Words /\ Len(Root) = 0
    BY DEF Root, Words
  <2>5. QED
    BY <2>2, <2>3, <2>4
<1>2. CASE k # 0
  <2>1. 1 \in 1 .. Len(s) /\ k \in 1 .. Len(s)
    BY <1>2
  <2>2. QED
    BY <2>1, CleanPart
<1>3. QED
  BY <1>1, <1>2

LEMMA MoveOn ==
  ASSUME TrieInv, NEW s \in nodes, NEW t \in Words, IsSuffix(s, t), NEW char \in Letters,
         CanMove(s, char), NEW to, to = NextState(s, char)
  PROVE  /\ to \in nodes /\ to \in Words
         /\ IsSuffix(to, Append(t, Lower[char]))
         /\ \/ to = Append(s, Lower[char]) /\ Len(to) = Len(s) + 1
            \/ to = Root /\ s = Root
         /\ TopFor(s, t, char) => Top(to, Append(t, Lower[char]))
<1> DEFINE x == Lower[char]
           b == Append(t, x)
<1>1. x \in Letters
  BY CharsAssumption
<1>2. s \in Words /\ Root \in nodes /\ Len(s) \in Nat /\ Root \in Words /\ Len(Root) = 0
  BY NodesWords, SuffixSelf DEF TrieInv
<1>3. \/ Append(s, x) \in nodes /\ to = Append(s, x)
      \/ Append(s, x) \notin nodes /\ s = Root /\ to = Root
  BY DEF CanMove, NextState
<1> HIDE DEF x
<1>4. b \in Words
  BY <1>1 DEF Words
<1>5. /\ to \in nodes /\ to \in Words
      /\ IsSuffix(to, b)
      /\ \/ to = Append(s, x) /\ Len(to) = Len(s) + 1
         \/ to = Root /\ s = Root
  <2>1. CASE Append(s, x) \in nodes /\ to = Append(s, x)
    <3>1. IsSuffix(to, b)
      BY <1>1, <1>2, <2>1, SuffixAppend
    <3>2. Len(to) = Len(s) + 1 /\ to \in Words
      BY <1>1, <1>2, <2>1 DEF Words
    <3>3. QED
      BY <2>1, <3>1, <3>2
  <2>2. CASE s = Root /\ to = Root
    BY <1>2, <1>4, <2>2, SuffixSelf
  <2>3. QED
    BY <1>3, <2>1, <2>2
<1>6. ASSUME TopFor(s, t, char), NEW u \in nodes, IsSuffix(u, b)
      PROVE  Len(u) <= Len(to)
  <2>1. CASE u = Root
    BY <1>2, <1>5, <2>1
  <2>2. CASE u # Root
    <3>1. u \in Words /\ Parent(u) \in nodes /\ Parent(u) \in Words
      BY <2>2, ParentNode, NodesWords DEF TrieInv
    <3>2. u = Append(Parent(u), x) /\ IsSuffix(Parent(u), t)
      BY <1>1, <1>6, <2>2, <3>1, SuffixAppend
    <3>3. Len(u) \in Nat /\ Len(Parent(u)) = Len(u) - 1 /\ Len(Parent(u)) \in Nat
      BY <2>2, <3>1, Front DEF Words
    <3>4. Len(Parent(u)) <= Len(s)
      BY <1>6, <3>1, <3>2 DEF TopFor, x
    <3>5. CASE to = Append(s, x) /\ Len(to) = Len(s) + 1
      BY <1>2, <3>3, <3>4, <3>5
    <3>6. CASE Append(s, x) \notin nodes /\ s = Root
      <4>1. Parent(u) = Root
        BY <1>2, <3>1, <3>3, <3>4, <3>6 DEF Words, Root
      <4>2. QED
        BY <3>2, <3>6, <4>1
    <3>7. QED
      BY <1>3, <1>5, <3>5, <3>6
  <2>3. QED
    BY <2>1, <2>2
<1>7. QED
  BY <1>5, <1>6 DEF Top, x

LEMMA FallBack ==
  ASSUME TrieInv, inited, at = 1, NEW s \in nodes, NEW t \in Words, IsSuffix(s, t),
         NEW char \in Letters, ~CanMove(s, char)
  PROVE  /\ s # Root /\ s \in DOMAIN failure /\ failure[s] \in nodes /\ failure[s] \in Words
         /\ IsSuffix(failure[s], s) /\ IsSuffix(failure[s], t) /\ Len(failure[s]) < Len(s)
         /\ TopFor(s, t, char) => TopFor(failure[s], t, char)
<1>1. s # Root /\ Append(s, Lower[char]) \notin nodes /\ s \in Words /\ Len(s) \in Nat
  BY NodesWords DEF TrieInv, CanMove
<1>2. Final(s)
  BY <1>1 DEF TrieInv, Stage
<1>3. /\ s \in DOMAIN failure /\ failure[s] \in nodes /\ failure[s] \in Words
      /\ IsSuffix(failure[s], s) /\ Len(failure[s]) < Len(s)
  BY <1>1, <1>2, NodesWords DEF TrieInv, Final, Sound
<1>4. IsSuffix(failure[s], t)
  BY <1>1, <1>3, SuffixTrans
<1>5. ASSUME TopFor(s, t, char), NEW u \in nodes, IsSuffix(u, t), Append(u, Lower[char]) \in nodes
      PROVE  Len(u) <= Len(failure[s])
  <2>1. u \in Words /\ Len(u) \in Nat
    BY NodesWords DEF TrieInv
  <2>2. Len(u) <= Len(s)
    BY <1>5 DEF TopFor
  <2>3. IsSuffix(u, s) /\ (Len(u) = Len(s) => u = s)
    BY <1>1, <1>5, <2>1, <2>2, SuffixBoth
  <2>4. Len(u) < Len(s)
    BY <1>1, <1>5, <2>1, <2>2, <2>3
  <2>5. QED
    BY <1>2, <2>3, <2>4 DEF Final
<1>6. QED
  BY <1>1, <1>3, <1>4, <1>5 DEF TopFor

\* A word that the text ends with at one of its letters has a place in it,
\* which is as long as the word and as far before that letter.
LEMMA PlaceOf ==
  ASSUME TypeOK, NEW j \in 1 .. Len(text), text[j] \in Letters, NEW w \in Words, w # Root,
         IsSuffix(w, Clean(SubSeq(text, 1, j)))
  PROVE  /\ \E i \in 1 .. j : /\ <<i, j>> \in Places(w) /\ text[i] \in Letters
                             /\ Len(w) <= j - i + 1 /\ (i = j => Len(w) = 1)
         /\ Places(w) # {}
<1>1. text \in Seq(Chars) /\ Len(w) \in Nat /\ j \in Nat /\ Len(text) \in Nat
  BY DEF TypeOK, Words
<1>2. PICK i \in 1 .. j : /\ text[i] \in Letters /\ Clean(SubSeq(text, i, j)) = w
                          /\ LettersIn(text, i) = LettersIn(text, j) - Len(w) + 1
  BY <1>1, CleanCut
<1>3. <<i, j>> \in Places(w)
  BY <1>1, <1>2 DEF Places
<1>4. i = j => Len(w) = 1
  <2>1. PICK count : count \in Nat /\ count = LettersIn(text, j)
    BY <1>1, CountIn
  <2>2. PICK len : len \in Nat /\ len = Len(w)
    BY <1>1
  <2>3. i = j => count = count - len + 1
    BY <1>2, <2>1, <2>2
  <2>4. count = count - len + 1 => len = 1
    BY <2>1, <2>2
  <2>5. QED
    BY <2>2, <2>3, <2>4
<1>5. Len(w) <= j - i + 1
  <2> DEFINE l == j - i + 1
             part == SubSeq(text, i, j)
  <2>1. l \in Nat /\ i \in Nat \ {0} /\ i <= Len(text) + 1 /\ i - 1 <= j /\ j <= Len(text)
    BY <1>1
  <2>2. part \in Seq(Chars) /\ Len(part) = l
    BY <1>1, <2>1, Part
  <2> HIDE DEF l, part
  <2>3. Len(Clean(part)) = LettersIn(part, l) /\ LettersIn(part, l) <= l
    BY <2>1, <2>2, CleanAt, CountIn
  <2>4. QED
    BY <1>2, <2>3 DEF l, part
<1>6. QED
  BY <1>2, <1>3, <1>4, <1>5

LEMMA PlaceEnds ==
  ASSUME TypeOK, NEW w, NEW place \in Places(w)
  PROVE  /\ place[1] \in 1 .. Len(text) /\ place[2] \in 1 .. Len(text) /\ place[1] <= place[2]
         /\ text[place[1]] \in Letters /\ text[place[2]] \in Letters
         /\ w \in Words /\ IsSuffix(w, Clean(SubSeq(text, 1, place[2])))
         /\ Len(w) = LettersIn(text, place[2]) - LettersIn(text, place[1] - 1)
<1>1. text \in Seq(Chars)
  BY DEF TypeOK
<1>2. /\ place[1] \in 1 .. Len(text) /\ place[2] \in 1 .. Len(text) /\ place[1] <= place[2]
      /\ text[place[1]] \in Letters /\ text[place[2]] \in Letters
      /\ Clean(SubSeq(text, place[1], place[2])) = w
  BY DEF Places
<1> DEFINE i == place[1]
           j == place[2]
<1>3. j \in i .. Len(text)
  BY <1>2
<1> HIDE DEF i, j
<1>4. i \in 1 .. Len(text) /\ Clean(SubSeq(text, i, j)) = w
  BY <1>2 DEF i, j
<1>5. /\ w \in Words /\ IsSuffix(w, Clean(SubSeq(text, 1, j)))
      /\ Len(w) = LettersIn(text, j) - LettersIn(text, i - 1)
  BY <1>1, <1>3, <1>4, CleanPart
<1>6. QED
  BY <1>2, <1>5 DEF i, j

-----------------------------------------------------------------------------
(* The invariant of a call.                                                *)

SoFar(k) == Clean(SubSeq(text, 1, k))

Idle ==
  pc \in {"load", "refused", "create", "ready"} =>
    pos = 1 /\ n = 0 /\ ~symbolPre /\ curr = Root /\ masked = {} /\ ~found

\* Filter has come to a node that the text so far ends with.  n is less than
\* what lies before the head of that node, so that pos - n is an index.
AtNext ==
  pc = "next" => /\ pos \in 1 .. Len(text) + 1
                 /\ n <= pos - 1 /\ (curr # Root => n <= pos - 2)
                 /\ (~symbolPre /\ pos > 1 => text[pos - 1] \in Letters)
                 /\ IsSuffix(curr, SoFar(pos - 1))

AtFall ==
  pc = "fall" => /\ pos \in 1 .. Len(text) /\ text[pos] \in Letters
                 /\ n <= pos /\ (curr # Root => n <= pos - 1)
                 /\ (~symbolPre /\ pos > 1 => text[pos - 1] \in Letters)
                 /\ IsSuffix(curr, SoFar(pos - 1))

AtEmit ==
  pc = "emit" => /\ pos \in 1 .. Len(text) /\ text[pos] \in Letters
                 /\ n <= pos /\ (Len(curr) >= 2 => n <= pos - 1)
                 /\ IsSuffix(curr, SoFar(pos))

\* HasBlackWord has come to the longest such node, and to no word yet.
Unmatched(k) == \A j \in 1 .. k : \A word \in isEmit : ~IsSuffix(word, SoFar(j))

AtHas ==
  pc = "has" => /\ ~found /\ pos \in 1 .. Len(text) + 1
                /\ IsSuffix(curr, SoFar(pos - 1)) /\ Top(curr, SoFar(pos - 1))
                /\ Unmatched(pos - 1)

AtHasFall ==
  pc = "hasFall" => /\ ~found /\ pos \in 1 .. Len(text) /\ text[pos] \in Letters
                    /\ IsSuffix(curr, SoFar(pos - 1))
                    /\ TopFor(curr, SoFar(pos - 1), text[pos])
                    /\ Unmatched(pos - 1)

CallInv == Idle /\ AtNext /\ AtFall /\ AtEmit /\ AtHas /\ AtHasFall /\ InBounds

\* Every node leads to a word, and a trie in use has all of them.
Begins(s, w) == Len(s) <= Len(w) /\ SubSeq(w, 1, Len(s)) = s
Needed ==
  /\ \A s \in nodes : Begins(s, leaf) \/ \E word \in isEmit : Begins(s, word)
  /\ pc \notin {"load", "create", "refused"} => dict = << >>

Unnested == \A word, other \in Vocabulary : ~Nested(word, other)

\* If no word lies in another, Filter is at the longest node too, the words
\* that ended are masked, and of the present node what lies before place h,
\* where n was zero, is.
AllMasked(k) ==
  \A word \in Vocabulary : \A place \in Places(word) :
    place[2] <= k => place[1] .. place[2] \subseteq masked
Behind(k, h) ==
  \A i \in 1 .. k : i < h /\ LettersIn(text, i) > LettersIn(text, k) - Len(curr) => i \in masked

MaskNext ==
  Unnested /\ pc = "next" =>
    Top(curr, SoFar(pos - 1)) /\ AllMasked(pos - 1) /\ Behind(pos - 1, pos - 1 - n)
MaskFall ==
  Unnested /\ pc = "fall" =>
    TopFor(curr, SoFar(pos - 1), text[pos]) /\ AllMasked(pos - 1) /\ Behind(pos - 1, pos - n)
MaskEmit ==
  Unnested /\ pc = "emit" =>
    Top(curr, SoFar(pos)) /\ AllMasked(pos - 1) /\ Behind(pos, pos - n)

MaskInv == Needed /\ MaskNext /\ MaskFall /\ MaskEmit

InUse == pc \in {"ready", "next", "fall", "emit", "has", "hasFall"}

\* What every step of a call is given, and what it owes.
LEMMA Used ==
  ASSUME TrieInv, CallInv, InUse
  PROVE  /\ inited /\ at = 1 /\ text \in Seq(Chars) /\ curr \in nodes /\ curr \in Words
         /\ pos \in Nat /\ n \in Nat /\ Len(text) \in Nat /\ Len(curr) \in Nat
         /\ \A s \in isEmit : s \in nodes /\ s \in Words /\ s # Root
         /\ isEmit = Vocabulary /\ Len(Root) = 0
<1>1. TypeOK
  BY DEF TrieInv
<1>2. inited /\ at = 1
  BY DEF TrieInv, Stage, InUse
<1>3. Len(Root) = 0
  BY SuffixSelf, <1>1, NodesWords
<1>4. QED
  BY <1>1, <1>2, <1>3, NodesWords DEF TypeOK, TrieInv, Trie

LEMMA Owes ==
  ASSUME TrieInv, InUse, UNCHANGED <<load, trie, inited, create>>, pc' \in {"next", "fall", "emit", "has", "hasFall", "done"},
         text' \in Seq(Chars), pos' \in Nat, n' \in Nat, symbolPre' \in BOOLEAN, curr' \in nodes,
         masked' \subseteq Nat, found' \in BOOLEAN
  PROVE  TrieInv'
<1>1. TypeOK'
  BY DEF TrieInv, TypeOK, load, trie, create
<1>2. pc # "create" /\ pc' # "create" /\ inited /\ at = 1
  BY DEF TrieInv, Stage, InUse
<1>3. QED
  BY <1>1, <1>2, KeepTrie

\* What is read of the text grows by a letter, or not.
LEMMA ReadOn ==
  ASSUME TypeOK, pos \in 1 .. Len(text)
  PROVE  /\ SoFar(pos - 1) \in Words /\ SoFar(pos) \in Words
         /\ text[pos] \notin Letters => SoFar(pos) = SoFar(pos - 1)
         /\ text[pos] \in Letters => /\ SoFar(pos) = Append(SoFar(pos - 1), Lower[text[pos]])
                                     /\ Lower[text[pos]] \in Letters
BY CleanNext DEF TypeOK, SoFar

LEMMA StartCall ==
  ASSUME TrieInv, CallInv, Start
  PROVE  TrieInv' /\ CallInv'
<1>1. /\ pc = "ready" /\ text' \in Seq(Chars) /\ pc' \in {"next", "has"}
      /\ UNCHANGED <<load, trie, inited, create, pos, n, symbolPre, curr, masked, found>>
  BY CharsAssumption DEF Start
<1>2. pos = 1 /\ n = 0 /\ ~symbolPre /\ curr = Root /\ masked = {} /\ ~found
  BY <1>1 DEF CallInv, Idle
<1>3. TrieInv'
  BY <1>1, <1>2, Owes DEF TrieInv, TypeOK, InUse
<1>4. SubSeq(text', 1, 0) = Root /\ Len(text') \in Nat
  BY <1>1, Whole DEF Root
<1>5. Clean(SubSeq(text', 1, 0)) = Root
  BY <1>4, CleanEmpty, Zenon
<1>6. /\ IsSuffix(Root, Root) /\ \A u \in nodes : IsSuffix(u, Root) => Len(u) <= Len(Root)
      /\ Len(Root) = 0
  BY SuffixSelf, NodesWords DEF TrieInv, IsSuffix
<1>7. 1 \in 1 .. Len(text') + 1 /\ pos' = 1 /\ pos' - 1 = 0 /\ n' = 0 /\ curr' = Root
  BY <1>1, <1>2, <1>4
<1>8. CASE pc' = "next"
  <2>1. AtNext'
    BY <1>5, <1>6, <1>7, <1>8 DEF AtNext, SoFar
  <2>2. Idle' /\ AtFall' /\ AtEmit' /\ AtHas' /\ AtHasFall' /\ InBounds'
    BY <1>1, <1>2, <1>8 DEF Idle, AtFall, AtEmit, AtHas, AtHasFall, InBounds
  <2>3. QED
    BY <1>3, <2>1, <2>2 DEF CallInv
<1>9. CASE pc' = "has"
  <2>1. Top(curr, SoFar(pos - 1))'
    BY <1>1, <1>5, <1>6, <1>7 DEF Top, SoFar, trie
  <2>2. Unmatched(pos - 1)'
    BY <1>7 DEF Unmatched
  <2>3. AtHas'
    BY <1>1, <1>2, <1>5, <1>6, <1>7, <1>9, <2>1, <2>2 DEF AtHas, SoFar
  <2>4. Idle' /\ AtNext' /\ AtFall' /\ AtEmit' /\ AtHasFall' /\ InBounds'
    BY <1>1, <1>2, <1>9 DEF Idle, AtNext, AtFall, AtEmit, AtHasFall, InBounds
  <2>5. QED
    BY <1>3, <2>3, <2>4 DEF CallInv
<1>10. QED
  BY <1>1, <1>8, <1>9

LEMMA FilterNextCall ==
  ASSUME TrieInv, CallInv, FilterNext
  PROVE  TrieInv' /\ CallInv'
<1>1. /\ pc = "next" /\ pos <= Len(text) /\ n' = n + 1
      /\ UNCHANGED <<load, trie, inited, create, text, curr, masked, found>>
  BY DEF FilterNext
<1>2. /\ text \in Seq(Chars) /\ curr \in nodes /\ pos \in Nat /\ n \in Nat /\ Len(text) \in Nat
  BY <1>1, Used DEF InUse
<1>3. /\ pos \in 1 .. Len(text) /\ n <= pos - 1 /\ (curr # Root => n <= pos - 2)
      /\ (~symbolPre /\ pos > 1 => text[pos - 1] \in Letters)
      /\ IsSuffix(curr, SoFar(pos - 1))
  BY <1>1, <1>2 DEF CallInv, AtNext
<1>4. InBounds'
  BY <1>1 DEF CallInv, InBounds, load
<1>5. TypeOK
  BY DEF TrieInv
<1>6. CASE text[pos] \notin Letters
  <2>1. pos' = pos + 1 /\ symbolPre' = TRUE /\ pc' = "next"
    BY <1>1, <1>6 DEF FilterNext, IsSymbolASCII
  <2>2. TrieInv'
    BY <1>1, <1>2, <1>5, <2>1, Owes DEF TypeOK, InUse
  <2>3. IsSuffix(curr, SoFar(pos))
    BY <1>3, <1>5, <1>6, ReadOn
  <2>4. pos' \in 1 .. Len(text) + 1 /\ n' <= pos' - 1 /\ (curr # Root => n' <= pos' - 2) /\ pos' - 1 = pos
    BY <1>1, <1>2, <1>3, <2>1
  <2>5. AtNext'
    BY <1>1, <2>1, <2>3, <2>4 DEF AtNext, SoFar
  <2>6. Idle' /\ AtFall' /\ AtEmit' /\ AtHas' /\ AtHasFall'
    BY <2>1 DEF Idle, AtFall, AtEmit, AtHas, AtHasFall
  <2>7. QED
    BY <1>4, <2>2, <2>5, <2>6 DEF CallInv
<1>7. CASE text[pos] \in Letters
  <2>1. pc' = "fall" /\ UNCHANGED <<pos, symbolPre>>
    BY <1>1, <1>7 DEF FilterNext, IsSymbolASCII
  <2>2. TrieInv'
    BY <1>1, <1>2, <1>5, <2>1, Owes DEF TypeOK, InUse
  <2>3. n' <= pos /\ (curr # Root => n' <= pos - 1)
    BY <1>1, <1>2, <1>3
  <2>4. AtFall'
    BY <1>1, <1>3, <1>7, <2>1, <2>3 DEF AtFall, SoFar
  <2>5. Idle' /\ AtNext' /\ AtEmit' /\ AtHas' /\ AtHasFall'
    BY <2>1 DEF Idle, AtNext, AtEmit, AtHas, AtHasFall
  <2>6. QED
    BY <1>4, <2>2, <2>4, <2>5 DEF CallInv
<1>8. QED
  BY <1>6, <1>7

LEMMA FilterMoveCall ==
  ASSUME TrieInv, CallInv, FilterMove
  PROVE  TrieInv' /\ CallInv'
<1>1. /\ pc = "fall" /\ CanMove(curr, text[pos]) /\ curr' = NextState(curr, text[pos])
      /\ pc' = "emit"
      /\ UNCHANGED <<load, trie, inited, create, text, pos, n, symbolPre, masked, found>>
  BY DEF FilterMove
<1>2. /\ text \in Seq(Chars) /\ curr \in nodes /\ pos \in Nat /\ n \in Nat /\ Len(curr) \in Nat
      /\ curr \in Words /\ Len(Root) = 0
  BY <1>1, Used DEF InUse
<1>3. /\ pos \in 1 .. Len(text) /\ text[pos] \in Letters
      /\ n <= pos /\ (curr # Root => n <= pos - 1) /\ IsSuffix(curr, SoFar(pos - 1))
  BY <1>1 DEF CallInv, AtFall
<1>4. TypeOK
  BY DEF TrieInv
<1>5. SoFar(pos - 1) \in Words /\ SoFar(pos) = Append(SoFar(pos - 1), Lower[text[pos]])
  BY <1>3, <1>4, ReadOn
<1>6. PICK to : to = NextState(curr, text[pos])
  OBVIOUS
<1>7. /\ to \in nodes /\ IsSuffix(to, SoFar(pos))
      /\ \/ Len(to) = Len(curr) + 1
         \/ to = Root
  BY <1>1, <1>2, <1>3, <1>5, <1>6, MoveOn
<1>8. Len(to) >= 2 => n <= pos - 1
  BY <1>2, <1>3, <1>7
<1>9. curr' = to
  BY <1>1, <1>6
<1>10. TrieInv'
  BY <1>1, <1>2, <1>4, <1>7, <1>9, Owes DEF TypeOK, InUse
<1>11. AtEmit'
  BY <1>1, <1>3, <1>7, <1>8, <1>9 DEF AtEmit, SoFar
<1>12. Idle' /\ AtNext' /\ AtFall' /\ AtHas' /\ AtHasFall'
  BY <1>1 DEF Idle, AtNext, AtFall, AtHas, AtHasFall
<1>13. InBounds'
  BY <1>1 DEF CallInv, InBounds, load
<1>14. QED
  BY <1>10, <1>11, <1>12, <1>13 DEF CallInv

LEMMA FilterFallCall ==
  ASSUME TrieInv, CallInv, FilterFall
  PROVE  TrieInv' /\ CallInv'
<1>1. /\ pc = "fall" /\ ~CanMove(curr, text[pos]) /\ curr' = failure[curr]
      /\ UNCHANGED <<load, trie, inited, create, text, symbolPre, masked, found>>
      /\ IF ~symbolPre /\ failure[curr] \in isEmit
         THEN pos' = pos - 1 /\ n' = Len(failure[curr]) - 1 /\ pc' = "emit"
         ELSE UNCHANGED <<pos, n, pc>>
  BY DEF FilterFall
<1>2. /\ text \in Seq(Chars) /\ curr \in nodes /\ pos \in Nat /\ n \in Nat /\ Len(curr) \in Nat
      /\ curr \in Words /\ Len(Root) = 0 /\ inited /\ at = 1 /\ Len(text) \in Nat
      /\ \A s \in isEmit : s \in Words /\ s # Root
  BY <1>1, Used DEF InUse
<1>3. /\ pos \in 1 .. Len(text) /\ text[pos] \in Letters
      /\ n <= pos /\ (curr # Root => n <= pos - 1) /\ IsSuffix(curr, SoFar(pos - 1))
      /\ (~symbolPre /\ pos > 1 => text[pos - 1] \in Letters)
  BY <1>1 DEF CallInv, AtFall
<1>4. TypeOK
  BY DEF TrieInv
<1>5. SoFar(pos - 1) \in Words /\ Len(SoFar(pos - 1)) \in Nat /\ Len(SoFar(pos - 1)) <= pos - 1
  <2> DEFINE k == pos - 1
  <2>1. k \in 0 .. Len(text) /\ k \in Nat
    BY <1>3
  <2> HIDE DEF k
  <2>2. SoFar(k) \in Words /\ Len(SoFar(k)) \in Nat /\ Len(SoFar(k)) <= k
    BY <1>2, <2>1, SoFarIs, CountIn DEF SoFar
  <2>3. QED
    BY <2>2 DEF k
<1>6. PICK to : to = failure[curr]
  OBVIOUS
<1>7. /\ curr # Root /\ to \in nodes /\ to \in Words
      /\ IsSuffix(to, SoFar(pos - 1)) /\ Len(to) < Len(curr)
  BY <1>1, <1>2, <1>3, <1>5, <1>6, FallBack
<1>8. Len(to) \in Nat /\ Len(curr) <= pos - 1 /\ Len(to) <= pos - 2
  <2>1. Len(to) \in Nat
    BY <1>7 DEF Words
  <2>2. Len(curr) <= pos - 1
    BY <1>2, <1>3, <1>5 DEF IsSuffix
  <2>3. QED
    BY <1>2, <1>7, <2>1, <2>2
<1>9. InBounds'
  BY <1>1 DEF CallInv, InBounds, load
<1>10. CASE ~symbolPre /\ to \in isEmit
  <2>1. pos' = pos - 1 /\ n' = Len(to) - 1 /\ pc' = "emit" /\ curr' = to
    BY <1>1, <1>6, <1>10
  <2>2. Len(to) \in Nat \ {0}
    BY <1>2, <1>7, <1>10, Front
  <2>3. pos' \in 1 .. Len(text) /\ n' \in Nat /\ n' <= pos' - 1 /\ n' <= pos' /\ pos > 1
    BY <1>2, <1>3, <1>8, <2>1, <2>2
  <2>4. TrieInv'
    <3>1. InUse /\ pos' \in Nat /\ pc' \in {"next", "fall", "emit", "has", "hasFall", "done"}
      BY <1>1, <1>2, <2>1, <2>3 DEF InUse
    <3>2. /\ text' \in Seq(Chars) /\ symbolPre' \in BOOLEAN /\ curr' \in nodes
          /\ masked' \subseteq Nat /\ found' \in BOOLEAN
          /\ UNCHANGED <<load, trie, inited, create>>
      BY <1>1, <1>4, <1>7, <2>1 DEF TypeOK
    <3>3. QED
      BY <2>3, <3>1, <3>2, Owes
  <2>5. text[pos'] \in Letters
    BY <1>3, <1>10, <2>1, <2>3
  <2>6. AtEmit'
    BY <1>1, <1>7, <2>1, <2>3, <2>5 DEF AtEmit, SoFar
  <2>7. Idle' /\ AtNext' /\ AtFall' /\ AtHas' /\ AtHasFall'
    BY <2>1 DEF Idle, AtNext, AtFall, AtHas, AtHasFall
  <2>8. QED
    BY <1>9, <2>4, <2>6, <2>7 DEF CallInv
<1>11. CASE symbolPre \/ to \notin isEmit
  <2>1. UNCHANGED <<pos, n, pc>> /\ curr' = to
    BY <1>1, <1>4, <1>6, <1>11 DEF TypeOK
  <2>2. TrieInv'
    BY <1>1, <1>2, <1>4, <1>7, <2>1, Owes DEF TypeOK, InUse
  <2>3. AtFall'
    BY <1>1, <1>3, <1>7, <2>1 DEF AtFall, SoFar
  <2>4. Idle' /\ AtNext' /\ AtEmit' /\ AtHas' /\ AtHasFall'
    BY <1>1, <2>1 DEF Idle, AtNext, AtEmit, AtHas, AtHasFall
  <2>5. QED
    BY <1>9, <2>2, <2>3, <2>4 DEF CallInv
<1>12. QED
  BY <1>10, <1>11

LEMMA FilterEmitCall ==
  ASSUME TrieInv, CallInv, FilterEmit
  PROVE  TrieInv' /\ CallInv'
<1> DEFINE since == IF Len(curr) = 1 THEN 0 ELSE n
<1>1. /\ pc = "emit" /\ symbolPre' = FALSE /\ pos' = pos + 1 /\ pc' = "next"
      /\ UNCHANGED <<load, trie, inited, create, text, curr, found>>
      /\ IF curr \in isEmit
         THEN masked' = masked \cup ((pos - since) .. pos) /\ n' = 0
         ELSE n' = since /\ UNCHANGED masked
  BY DEF FilterEmit
<1>2. /\ text \in Seq(Chars) /\ curr \in nodes /\ pos \in Nat /\ n \in Nat /\ Len(curr) \in Nat
      /\ curr \in Words /\ Len(Root) = 0 /\ Len(text) \in Nat
      /\ isEmit = Vocabulary /\ \A s \in isEmit : s \in Words /\ s # Root
  BY <1>1, Used DEF InUse
<1>3. /\ pos \in 1 .. Len(text) /\ text[pos] \in Letters
      /\ n <= pos /\ (Len(curr) >= 2 => n <= pos - 1) /\ IsSuffix(curr, SoFar(pos))
  BY <1>1 DEF CallInv, AtEmit
<1>4. TypeOK
  BY DEF TrieInv
<1>5. curr # Root => Len(curr) \in Nat \ {0}
  BY <1>2, Front
<1>6. since \in Nat /\ since <= pos /\ (curr # Root => since <= pos - 1)
  <2>1. CASE Len(curr) = 1
    BY <1>3, <2>1
  <2>2. CASE Len(curr) # 1
    <3>1. \A k \in Nat \ {0} : k # 1 => k >= 2
      OBVIOUS
    <3>2. curr # Root => Len(curr) >= 2
      BY <1>5, <2>2, <3>1, Zenon
    <3>3. QED
      BY <1>2, <1>3, <2>2, <3>2
  <2>3. QED
    BY <2>1, <2>2
<1>7. n' \in Nat /\ n' <= pos /\ (curr # Root => n' <= pos - 1)
  <2> HIDE DEF since
  <2>1. CASE curr \in isEmit
    BY <1>1, <1>2, <1>3, <2>1
  <2>2. CASE curr \notin isEmit
    BY <1>1, <1>6, <2>2
  <2>3. QED
    BY <2>1, <2>2
<1> HIDE DEF since
<1>8. masked' \subseteq 1 .. Len(text)
  <2>1. masked \subseteq 1 .. Len(text)
    BY DEF CallInv, InBounds
  <2>2. CASE curr \in isEmit
    <3>1. (pos - since) .. pos \subseteq 1 .. Len(text)
      BY <1>2, <1>3, <1>6, <2>2
    <3>2. QED
      BY <1>1, <2>1, <2>2, <3>1
  <2>3. CASE curr \notin isEmit
    BY <1>1, <2>1, <2>3
  <2>4. QED
    BY <2>2, <2>3
<1>10. TrieInv'
  <2>1. /\ InUse /\ pos' \in Nat /\ masked' \subseteq Nat
        /\ pc' \in {"next", "fall", "emit", "has", "hasFall", "done"}
    BY <1>1, <1>2, <1>8 DEF InUse
  <2>2. /\ text' \in Seq(Chars) /\ symbolPre' \in BOOLEAN /\ curr' \in nodes
        /\ found' \in BOOLEAN /\ UNCHANGED <<load, trie, inited, create>>
    BY <1>1, <1>2, <1>4 DEF TypeOK
  <2>3. QED
    BY <1>7, <2>1, <2>2, Owes
<1>11. pos' \in 1 .. Len(text) + 1 /\ n' <= pos' - 1 /\ (curr # Root => n' <= pos' - 2) /\ pos' - 1 = pos
  <2> DEFINE m == n'
  <2>1. m \in Nat /\ m <= pos /\ (curr # Root => m <= pos - 1) /\ pos' = pos + 1
    BY <1>1, <1>7
  <2> HIDE DEF m
  <2>2. pos' \in 1 .. Len(text) + 1 /\ m <= pos' - 1 /\ (curr # Root => m <= pos' - 2) /\ pos' - 1 = pos
    BY <1>2, <1>3, <2>1
  <2>3. QED
    BY <2>2 DEF m
<1>12. AtNext'
  <2>1. ~symbolPre' /\ pos' > 1 => text[pos' - 1] \in Letters
    BY <1>3, <1>11
  <2>2. QED
    BY <1>1, <1>3, <1>11, <2>1 DEF AtNext, SoFar
<1>13. Idle' /\ AtFall' /\ AtEmit' /\ AtHas' /\ AtHasFall' /\ InBounds'
  BY <1>1, <1>8 DEF Idle, AtFall, AtEmit, AtHas, AtHasFall, InBounds
<1>14. QED
  BY <1>10, <1>12, <1>13 DEF CallInv

LEMMA FilterEndCall ==
  ASSUME TrieInv, CallInv, FilterEnd
  PROVE  TrieInv' /\ CallInv'
<1>1. /\ pc \in {"next", "has"} /\ pc' = "done"
      /\ UNCHANGED <<load, trie, inited, create, call>>
  BY DEF FilterEnd
<1>2. TrieInv'
  BY <1>1, Owes DEF TrieInv, TypeOK, InUse, call
<1>3. Idle' /\ AtNext' /\ AtFall' /\ AtEmit' /\ AtHas' /\ AtHasFall'
  BY <1>1 DEF Idle, AtNext, AtFall, AtEmit, AtHas, AtHasFall
<1>4. InBounds'
  BY <1>1 DEF CallInv, InBounds, load, call
<1>5. QED
  BY <1>2, <1>3, <1>4 DEF CallInv

LEMMA HasNextCall ==
  ASSUME TrieInv, CallInv, HasNext
  PROVE  TrieInv' /\ CallInv'
<1>1. /\ pc = "has" /\ pos <= Len(text)
      /\ UNCHANGED <<load, trie, inited, create, text, n, symbolPre, curr, masked, found>>
  BY DEF HasNext
<1>2. /\ text \in Seq(Chars) /\ curr \in nodes /\ pos \in Nat /\ Len(text) \in Nat
      /\ n \in Nat
  BY <1>1, Used DEF InUse
<1>3. /\ ~found /\ pos \in 1 .. Len(text)
      /\ IsSuffix(curr, SoFar(pos - 1)) /\ Top(curr, SoFar(pos - 1)) /\ Unmatched(pos - 1)
  BY <1>1, <1>2 DEF CallInv, AtHas
<1>4. InBounds'
  BY <1>1 DEF CallInv, InBounds, load
<1>5. TypeOK
  BY DEF TrieInv
<1>6. CASE text[pos] \notin Letters
  <2>1. pos' = pos + 1 /\ pc' = "has"
    BY <1>1, <1>6 DEF HasNext, IsSymbolASCII
  <2>2. TrieInv'
    BY <1>1, <1>2, <1>5, <2>1, Owes DEF TypeOK, InUse
  <2>3. SoFar(pos) = SoFar(pos - 1)
    BY <1>3, <1>5, <1>6, ReadOn
  <2>4. Unmatched(pos)
    <3>1. ASSUME NEW j \in 1 .. pos, NEW word \in isEmit, IsSuffix(word, SoFar(j))
          PROVE  FALSE
      <4>1. CASE j \in 1 .. pos - 1
        BY <1>3, <3>1, <4>1 DEF Unmatched
      <4>2. CASE j = pos
        <5>1. IsSuffix(word, SoFar(pos - 1))
          BY <2>3, <3>1, <4>2
        <5>2. CASE pos = 1
          <6>1. SoFar(pos - 1) = Root
            <7>1. SubSeq(text, 1, 0) = Root /\ Clean(Root) = Root /\ pos - 1 = 0
              BY <1>2, <5>2, Whole, CleanEmpty DEF Root
            <7>2. QED
              BY <7>1, Zenon DEF SoFar
          <6>2. word \in Words /\ word # Root
            BY <1>1, Used DEF InUse
          <6>3. Len(word) \in Nat \ {0} /\ Len(Root) = 0
            BY <6>2, Front, SuffixSelf
          <6>4. QED
            BY <5>1, <6>1, <6>3 DEF IsSuffix
        <5>3. CASE pos # 1
          <6>1. pos - 1 \in 1 .. pos - 1
            BY <1>3, <5>3
          <6>2. QED
            BY <1>3, <5>1, <6>1 DEF Unmatched
        <5>4. QED
          BY <5>2, <5>3
      <4>3. QED
        BY <1>3, <3>1, <4>1, <4>2
    <3>2. QED
      BY <3>1 DEF Unmatched
  <2>5. IsSuffix(curr, SoFar(pos)) /\ Top(curr, SoFar(pos))
    BY <1>3, <2>3, Zenon
  <2>6. pos' \in 1 .. Len(text) + 1 /\ pos' - 1 = pos
    BY <1>2, <1>3, <2>1
  <2>7. AtHas'
    <3>1. UNCHANGED <<nodes, isEmit, text, curr, found>>
      BY <1>1 DEF trie
    <3>2. QED
      BY <1>3, <2>4, <2>5, <2>6, <3>1 DEF AtHas, SoFar, Top, Unmatched
  <2>8. Idle' /\ AtNext' /\ AtFall' /\ AtEmit' /\ AtHasFall'
    BY <2>1 DEF Idle, AtNext, AtFall, AtEmit, AtHasFall
  <2>9. QED
    BY <1>4, <2>2, <2>7, <2>8 DEF CallInv
<1>7. CASE text[pos] \in Letters
  <2>1. pc' = "hasFall" /\ UNCHANGED pos
    BY <1>1, <1>7 DEF HasNext, IsSymbolASCII
  <2>2. TrieInv'
    BY <1>1, <1>2, <1>5, <2>1, Owes DEF TypeOK, InUse
  <2>3. TopFor(curr, SoFar(pos - 1), text[pos])
    BY <1>3 DEF Top, TopFor
  <2>4. AtHasFall'
    <3>1. UNCHANGED <<nodes, isEmit, text, curr, found, pos>>
      BY <1>1, <2>1 DEF trie
    <3>2. QED
      BY <1>3, <1>7, <2>3, <3>1 DEF AtHasFall, SoFar, TopFor, Unmatched
  <2>5. Idle' /\ AtNext' /\ AtFall' /\ AtEmit' /\ AtHas'
    BY <2>1 DEF Idle, AtNext, AtFall, AtEmit, AtHas
  <2>6. QED
    BY <1>4, <2>2, <2>4, <2>5 DEF CallInv
<1>8. QED
  BY <1>6, <1>7

LEMMA HasFallCall ==
  ASSUME TrieInv, CallInv, HasFall
  PROVE  TrieInv' /\ CallInv'
<1>1. /\ pc = "hasFall" /\ ~CanMove(curr, text[pos]) /\ curr' = failure[curr] /\ pc' = pc
      /\ UNCHANGED <<load, trie, inited, create, text, pos, n, symbolPre, masked, found>>
  BY DEF HasFall
<1>2. /\ text \in Seq(Chars) /\ curr \in nodes /\ inited /\ at = 1 /\ pos \in Nat /\ n \in Nat
  BY <1>1, Used DEF InUse
<1>3. /\ ~found /\ pos \in 1 .. Len(text) /\ text[pos] \in Letters
      /\ IsSuffix(curr, SoFar(pos - 1)) /\ TopFor(curr, SoFar(pos - 1), text[pos])
      /\ Unmatched(pos - 1)
  BY <1>1 DEF CallInv, AtHasFall
<1>4. TypeOK
  BY DEF TrieInv
<1>5. SoFar(pos - 1) \in Words
  BY <1>3, <1>4, ReadOn
<1>6. PICK to : to = failure[curr]
  OBVIOUS
<1>7. /\ to \in nodes /\ IsSuffix(to, SoFar(pos - 1)) /\ TopFor(to, SoFar(pos - 1), text[pos])
  BY <1>1, <1>2, <1>3, <1>5, <1>6, FallBack
<1>8. curr' = to
  BY <1>1, <1>6
<1>9. TrieInv'
  BY <1>1, <1>2, <1>4, <1>7, <1>8, Owes DEF TypeOK, InUse
<1>10. AtHasFall'
  <2>1. UNCHANGED <<nodes, isEmit, text, found, pos>>
    BY <1>1 DEF trie
  <2>2. QED
    BY <1>3, <1>7, <1>8, <2>1 DEF AtHasFall, SoFar, TopFor, Unmatched
<1>11. Idle' /\ AtNext' /\ AtFall' /\ AtEmit' /\ AtHas'
  BY <1>1 DEF Idle, AtNext, AtFall, AtEmit, AtHas
<1>12. InBounds'
  BY <1>1 DEF CallInv, InBounds, load
<1>13. QED
  BY <1>9, <1>10, <1>11, <1>12 DEF CallInv

\* The answer TRUE has a word in the text to show, and until then none has ended.
LEMMA HasMoveCall ==
  ASSUME TrieInv, CallInv, HasMove
  PROVE  /\ TrieInv' /\ CallInv'
         /\ found' => \E word \in Vocabulary : Places(word) # {}
         /\ pc' = "done" => found'
<1>1. /\ pc = "hasFall" /\ CanMove(curr, text[pos]) /\ curr' = NextState(curr, text[pos])
      /\ found' = Emits(curr')
      /\ IF Emits(curr') THEN pc' = "done" /\ UNCHANGED pos ELSE pc' = "has" /\ pos' = pos + 1
      /\ UNCHANGED <<load, trie, inited, create, text, n, symbolPre, masked>>
  BY DEF HasMove
<1>2. /\ text \in Seq(Chars) /\ curr \in nodes /\ pos \in Nat /\ n \in Nat
      /\ isEmit = Vocabulary /\ Len(Root) = 0 /\ Len(text) \in Nat
      /\ \A s \in isEmit : s \in nodes /\ s \in Words /\ s # Root
      /\ inited /\ at = 1
  BY <1>1, Used DEF InUse
<1>3. /\ ~found /\ pos \in 1 .. Len(text) /\ text[pos] \in Letters
      /\ IsSuffix(curr, SoFar(pos - 1)) /\ TopFor(curr, SoFar(pos - 1), text[pos])
      /\ Unmatched(pos - 1)
  BY <1>1 DEF CallInv, AtHasFall
<1>4. TypeOK
  BY DEF TrieInv
<1>5. /\ SoFar(pos - 1) \in Words /\ SoFar(pos) \in Words
      /\ SoFar(pos) = Append(SoFar(pos - 1), Lower[text[pos]])
  BY <1>3, <1>4, ReadOn
<1>6. PICK to : to = NextState(curr, text[pos])
  OBVIOUS
<1>7. to \in nodes /\ to \in Words /\ IsSuffix(to, SoFar(pos)) /\ Top(to, SoFar(pos))
  BY <1>1, <1>2, <1>3, <1>5, <1>6, MoveOn
<1>8. /\ curr' = to /\ Emits(curr') = Emits(to) /\ found' = Emits(to)
      /\ IF Emits(to) THEN pc' = "done" /\ UNCHANGED pos ELSE pc' = "has" /\ pos' = pos + 1
  BY <1>1, <1>6
<1>9. InBounds'
  BY <1>1 DEF CallInv, InBounds, load
<1>10. found' \in BOOLEAN
  BY <1>8 DEF Emits
<1>11. CASE Emits(to)
  <2>1. pc' = "done" /\ UNCHANGED pos
    BY <1>8, <1>11
  <2>2. TrieInv'
    BY <1>1, <1>2, <1>4, <1>7, <1>8, <1>10, <2>1, Owes DEF TypeOK, InUse
  <2>3. Idle' /\ AtNext' /\ AtFall' /\ AtEmit' /\ AtHas' /\ AtHasFall'
    BY <2>1 DEF Idle, AtNext, AtFall, AtEmit, AtHas, AtHasFall
  <2>4. PICK word \in isEmit : IsSuffix(word, to)
    BY <1>7, <1>11, SuffixSelf DEF Emits, TrieInv, Sound
  <2>5. IsSuffix(word, SoFar(pos))
    BY <1>2, <1>5, <1>7, <2>4, SuffixTrans
  <2>6. Places(word) # {}
    BY <1>2, <1>3, <1>4, <2>5, PlaceOf DEF SoFar
  <2>7. found'
    BY <1>8, <1>11
  <2>8. QED
    BY <1>2, <1>9, <2>2, <2>3, <2>6, <2>7 DEF CallInv
<1>12. CASE ~Emits(to)
  <2>1. pc' = "has" /\ pos' = pos + 1 /\ found' = FALSE
    BY <1>8, <1>12
  <2>2. TrieInv'
    BY <1>1, <1>2, <1>4, <1>7, <1>8, <1>10, <2>1, Owes DEF TypeOK, InUse
  <2>3. ASSUME NEW word \in isEmit, IsSuffix(word, SoFar(pos))
        PROVE  FALSE
    <3>1. word \in nodes /\ word \in Words /\ word # Root
      BY <1>2
    <3>2. Len(word) <= Len(to)
      BY <1>7, <2>3, <3>1 DEF Top
    <3>3. IsSuffix(word, to)
      BY <1>5, <1>7, <2>3, <3>1, <3>2, SuffixBoth
    <3>4. Len(word) \in Nat \ {0}
      BY <3>1, Front
    <3>5. to # Root
      BY <1>2, <3>2, <3>4
    <3>6. Final(to)
      BY <1>2, <1>7, <3>5 DEF TrieInv, Stage
    <3>7. QED
      BY <1>12, <3>3, <3>6 DEF Final
  <2>4. Unmatched(pos)
    <3>1. ASSUME NEW j \in 1 .. pos
          PROVE  j = pos \/ j \in 1 .. pos - 1
      BY <1>3
    <3>2. QED
      BY <1>3, <2>3, <3>1 DEF Unmatched
  <2>5. pos' \in 1 .. Len(text) + 1 /\ pos' - 1 = pos
    BY <1>2, <1>3, <2>1
  <2>6. AtHas'
    <3>1. UNCHANGED <<nodes, isEmit, text>>
      BY <1>1 DEF trie
    <3>2. QED
      BY <1>7, <1>8, <2>1, <2>4, <2>5, <3>1 DEF AtHas, SoFar, Top, Unmatched
  <2>7. Idle' /\ AtNext' /\ AtFall' /\ AtEmit' /\ AtHasFall'
    BY <2>1 DEF Idle, AtNext, AtFall, AtEmit, AtHasFall
  <2>8. QED
    BY <1>9, <2>1, <2>2, <2>6, <2>7 DEF CallInv
<1>13. QED
  BY <1>11, <1>12

LEMMA BuildCall ==
  ASSUME TrieInv, CallInv, Load \/ Create
  PROVE  CallInv'
<1>1. /\ UNCHANGED call
      /\ pc \in {"load", "create"} /\ pc' \in {"load", "create", "refused", "ready"}
  BY DEF Load, Create, AddLeaf, ErrNotASCII, AddKeyWord, CreateFailureStates, Pop, LinkFall,
         LinkHead, Link, Linked, Created, Constructed
<1>2. Idle' /\ AtNext' /\ AtFall' /\ AtEmit' /\ AtHas' /\ AtHasFall'
  BY <1>1 DEF CallInv, Idle, AtNext, AtFall, AtEmit, AtHas, AtHasFall, call
<1>3. InBounds'
  BY <1>1 DEF CallInv, Idle, InBounds, call
<1>4. QED
  BY <1>2, <1>3 DEF CallInv

-----------------------------------------------------------------------------
(* What Filter masks, in a vocabulary without nested words.                *)

LEMMA NeededInit ==
  Init => Needed
<1>1. \A i \in {0} : SubSeq(Root, 1, i) = Root
  BY DEF Root
<1>2. Len(Root) = 0
  BY DEF Root
<1>3. QED
  BY <1>1, <1>2 DEF Init, Needed, Begins

LEMMA NeededNext ==
  ASSUME TrieInv, Needed, Load \/ Create
  PROVE  Needed'
<1>1. CASE AddLeaf
  <2> DEFINE w == Head(dict)
             x == Lower[w[at]]
  <2>1. /\ pc = "load" /\ dict # << >> /\ at <= Len(w) /\ nodes' = nodes \cup {leaf'}
        /\ leaf' = (IF IsSymbolASCII(w[at]) THEN leaf ELSE Append(leaf, x))
        /\ w[at] \notin NonASCII
        /\ UNCHANGED <<isEmit, pc>>
    BY <1>1 DEF AddLeaf
  <2>2. leaf \in Words /\ leaf \in nodes
    BY NodesWords DEF TrieInv, TypeOK
  <2>3. x \in Letters \/ IsSymbolASCII(w[at])
    BY CharsAssumption DEF IsSymbolASCII
  <2> HIDE DEF w, x
  <2>4. PICK next : next = leaf'
    OBVIOUS
  <2>5. /\ next \in Words /\ Len(leaf) \in Nat /\ Len(next) \in Nat
        /\ Len(leaf) <= Len(next)
        /\ \A i \in 0 .. Len(leaf) : SubSeq(next, 1, i) = SubSeq(leaf, 1, i)
    <3>1. CASE next = leaf
      BY <2>2, <3>1 DEF Words
    <3>2. CASE next = Append(leaf, x) /\ x \in Letters
      <4>1. next \in Words /\ Len(next) = Len(leaf) + 1 /\ Parent(next) = leaf /\ Len(leaf) \in Nat
        BY <2>2, <3>2, Longer DEF Words
      <4>2. Len(leaf) \in 0 .. Len(next) /\ Len(next) - 1 = Len(leaf)
        BY <4>1
      <4>3. SubSeq(next, 1, Len(leaf)) = leaf
        BY <4>1, <4>2 DEF Parent
      <4>4. \A i \in 0 .. Len(leaf) : SubSeq(SubSeq(next, 1, Len(leaf)), 1, i) = SubSeq(next, 1, i)
        BY <4>1, <4>2, FrontOfFront DEF Words
      <4>5. QED
        BY <4>1, <4>3, <4>4
    <3>3. QED
      BY <2>1, <2>3, <2>4, <3>1, <3>2
  <2>6. ASSUME NEW s \in nodes'
        PROVE  Begins(s, next) \/ \E word \in isEmit : Begins(s, word)
    <3>1. CASE s = next
      BY <2>5, <3>1, Whole DEF Begins, Words
    <3>2. CASE s \in nodes /\ Begins(s, leaf)
      <4>1. s \in Words
        BY <3>2, NodesWords DEF TrieInv
      <4>2. Len(s) \in 0 .. Len(leaf)
        BY <3>2, <4>1 DEF Begins, Words
      <4>3. QED
        BY <2>5, <3>2, <4>2 DEF Begins
    <3>3. CASE s \in nodes /\ ~Begins(s, leaf)
      BY <3>3 DEF Needed
    <3>4. QED
      BY <2>1, <2>4, <3>1, <3>2, <3>3
  <2>7. QED
    BY <2>1, <2>4, <2>6 DEF Needed
<1>2. CASE AddKeyWord
  <2>1. /\ pc = "load" /\ leaf' = Root /\ UNCHANGED <<pc, nodes>>
        /\ isEmit' = IF leaf = Root THEN isEmit ELSE isEmit \cup {leaf}
    BY <1>2 DEF AddKeyWord
  <2>2. isEmit \subseteq isEmit' /\ (leaf # Root => leaf \in isEmit')
    BY <2>1
  <2>3. ASSUME NEW s \in nodes
        PROVE  Begins(s, Root) \/ \E word \in isEmit' : Begins(s, word)
    BY <2>2 DEF Needed
  <2>4. QED
    BY <2>1, <2>3 DEF Needed
<1>3. CASE ErrNotASCII \/ CreateFailureStates \/ Created
  BY <1>3 DEF Needed, ErrNotASCII, CreateFailureStates, Created, load, trie
<1>4. CASE Constructed
  BY <1>4 DEF Needed, Constructed, load, trie
<1>5. CASE Pop \/ LinkFall \/ \E kid \in kids : LinkHead(kid) \/ Link(kid)
  <2>1. UNCHANGED <<nodes, isEmit, leaf, dict, pc>>
    BY <1>5 DEF Pop, LinkFall, LinkHead, Link, Linked, load, trie
  <2>2. QED
    BY <2>1 DEF Needed
<1>6. QED
  BY <1>1, <1>2, <1>3, <1>4, <1>5 DEF Load, Create

\* A word that ends a longer node lies in the word of that node.
LEMMA NestedIn ==
  ASSUME TrieInv, Needed, CallInv, InUse, NEW word \in isEmit, NEW s \in nodes,
         IsSuffix(word, s), Unnested
  PROVE  word = s
<1>1. /\ word \in Words /\ word # Root /\ isEmit = Vocabulary /\ s \in Words
      /\ Len(word) \in Nat \ {0} /\ Len(s) \in Nat /\ Len(word) <= Len(s)
  BY Used, NodesWords, Front DEF TrieInv, IsSuffix
<1>2. leaf = Root /\ Len(Root) = 0
  <2>1. dict = << >>
    BY DEF Needed, InUse
  <2>2. QED
    BY <1>1, <2>1, SuffixSelf DEF TrieInv, Reading
<1>3. ~Begins(s, leaf)
  BY <1>1, <1>2 DEF Begins
<1>4. PICK other \in isEmit : Begins(s, other)
  BY <1>3 DEF Needed
<1>5. /\ other \in Words /\ Len(other) \in Nat /\ Len(s) <= Len(other)
      /\ SubSeq(other, 1, Len(s)) = s
  BY <1>4, Used DEF Begins, Words
<1>6. ASSUME Len(word) < Len(s)
      PROVE  FALSE
  <2> DEFINE i == Len(s) - Len(word) + 1
             m == Len(s)
             l == Len(word)
             u == SubSeq(other, i, m)
             v == SubSeq(other, 1, m)
  <2>1. /\ i \in Nat \ {0} /\ i <= Len(other) + 1 /\ m \in Nat /\ i - 1 <= m /\ m <= Len(other)
        /\ m - i + 1 = l /\ i \in 2 .. Len(other) - l + 1 /\ i + l - 1 = m
        /\ 1 - 1 <= m /\ m - 1 + 1 = m /\ 1 <= Len(other) + 1 /\ l \in Nat /\ l <= m
    BY <1>1, <1>5, <1>6
  <2>2. l = Len(word) /\ IsSuffix(word, s) /\ i = m - l + 1 /\ m = Len(s) /\ s = v
    BY <1>5
  <2> HIDE DEF i, m, l, u, v
  <2>3. u \in Words /\ Len(u) = l /\ \A k \in 1 .. l : u[k] = other[i - 1 + k]
    BY <1>5, <2>1, Part DEF Words, u
  <2>4. \A k \in 1 .. m : v[k] = other[1 - 1 + k]
    BY <1>5, <2>1, Part DEF Words, v
  <2>5. ASSUME NEW k \in 1 .. l
        PROVE  u[k] = word[k]
    <3>1. word[k] = s[m - l + k]
      BY <2>2, <2>5 DEF IsSuffix
    <3>2. m - l + k \in 1 .. m /\ i - 1 + k = m - l + k /\ 1 - 1 + (m - l + k) = m - l + k
      <4>1. m \in Nat /\ l \in Nat /\ l <= m /\ k \in 1 .. l /\ i = m - l + 1
        BY <2>1, <2>2
      <4>2. m - l + k \in 1 .. m /\ 1 - 1 + (m - l + k) = m - l + k
        BY <4>1
      <4>3. (m - l + 1) - 1 + k = m - l + k
        BY <4>1
      <4>4. QED
        BY <4>1, <4>2, <4>3
    <3>3. s[m - l + k] = other[1 - 1 + (m - l + k)]
      BY <2>2, <2>4, <3>2
    <3>4. QED
      BY <2>3, <2>5, <3>1, <3>2, <3>3
  <2>6. u = word
    BY <1>1, <2>2, <2>3, <2>5, Equal DEF Words
  <2>7. Nested(word, other)
    BY <2>1, <2>2, <2>6 DEF Nested, u
  <2>8. QED
    BY <1>1, <2>7 DEF Unnested
<1>7. Len(word) = Len(s) /\ IsSuffix(s, s)
  BY <1>1, <1>6, SuffixSelf
<1>8. QED
  BY <1>1, <1>7, SuffixBoth

LEMMA Grow ==
  ASSUME TypeOK, pos \in 1 .. Len(text)
  PROVE  /\ LettersIn(text, pos - 1) \in Nat /\ LettersIn(text, pos) \in Nat
         /\ LettersIn(text, pos) = LettersIn(text, pos - 1) + (IF text[pos] \in Letters THEN 1 ELSE 0)
         /\ \A k \in 1 .. pos : LettersIn(text, k) \in Nat /\ LettersIn(text, k) <= LettersIn(text, pos)
         /\ \A k \in 1 .. pos : k < pos /\ text[pos] \in Letters => LettersIn(text, k) < LettersIn(text, pos)
<1> DEFINE m == pos - 1
<1>1. m \in Nat /\ pos = m + 1 /\ pos \in Nat
  BY DEF TypeOK
<1> HIDE DEF m
<1>2. /\ LettersIn(text, m) \in Nat /\ LettersIn(text, pos) \in Nat
      /\ LettersIn(text, m + 1) = LettersIn(text, m) + (IF text[m + 1] \in Letters THEN 1 ELSE 0)
  BY <1>1, CountIn, CountStep
<1>3. ASSUME NEW k \in 1 .. pos
      PROVE  /\ LettersIn(text, k) \in Nat /\ LettersIn(text, k) <= LettersIn(text, pos)
             /\ k < pos /\ text[pos] \in Letters => LettersIn(text, k) < LettersIn(text, pos)
  <2>1. k \in Nat /\ k <= pos
    BY <1>1
  <2>2. QED
    BY <1>1, <2>1, CountIn, CountMonotone
<1>4. QED
  BY <1>1, <1>2, <1>3 DEF m

\* Of the model's words and nodes a call changes nothing.
LEMMA SameWords ==
  ASSUME Needed, InUse, UNCHANGED <<load, trie>>
  PROVE  /\ Needed' /\ (Unnested' => Unnested) /\ Vocabulary' = Vocabulary /\ nodes' = nodes
<1>1. dict = << >> /\ UNCHANGED <<nodes, isEmit, leaf, dict, words>>
  BY DEF Needed, InUse, load, trie
<1>2. Needed'
  BY <1>1 DEF Needed
<1>3. Vocabulary' = Vocabulary
  BY <1>1 DEF Vocabulary
<1>4. Unnested' => Unnested
  BY <1>3 DEF Unnested
<1>5. QED
  BY <1>1, <1>2, <1>3, <1>4

LEMMA StartMask ==
  ASSUME TrieInv, CallInv, MaskInv, Start
  PROVE  MaskInv'
<1>1. /\ pc = "ready" /\ text' \in Seq(Chars) /\ pc' \in {"next", "has"}
      /\ UNCHANGED <<load, trie, inited, create, pos, n, symbolPre, curr, masked, found>>
  BY CharsAssumption DEF Start
<1>2. pos = 1 /\ n = 0 /\ curr = Root
  BY <1>1 DEF CallInv, Idle
<1>3. Needed' /\ nodes' = nodes
  BY <1>1, SameWords DEF MaskInv, InUse
<1>4. SubSeq(text', 1, 0) = Root /\ Clean(Root) = Root
  BY <1>1, Whole, CleanEmpty DEF Root
<1>5. Clean(SubSeq(text', 1, 0)) = Root
  BY <1>4, Zenon
<1>6. \A u \in nodes : IsSuffix(u, Root) => Len(u) <= Len(Root)
  BY DEF IsSuffix
<1>7. pos' - 1 = 0 /\ curr' = Root
  BY <1>1, <1>2
<1>8. Top(curr, SoFar(pos - 1))'
  BY <1>3, <1>5, <1>6, <1>7 DEF Top, SoFar
<1>9. AllMasked(pos - 1)'
  BY <1>7 DEF AllMasked, Places
<1>10. Behind(pos - 1, pos - 1 - n)'
  BY <1>7 DEF Behind
<1>11. MaskFall' /\ MaskEmit'
  BY <1>1 DEF MaskFall, MaskEmit
<1>12. QED
  BY <1>3, <1>8, <1>9, <1>10, <1>11 DEF MaskInv, MaskNext

LEMMA FilterNextMask ==
  ASSUME TrieInv, CallInv, MaskInv, FilterNext
  PROVE  MaskInv'
<1>1. /\ pc = "next" /\ pos <= Len(text) /\ n' = n + 1
      /\ UNCHANGED <<load, trie, inited, create, text, curr, masked, found>>
  BY DEF FilterNext
<1>2. /\ text \in Seq(Chars) /\ curr \in nodes /\ pos \in Nat /\ n \in Nat /\ Len(text) \in Nat
      /\ Len(curr) \in Nat
  BY <1>1, Used DEF InUse
<1>3. pos \in 1 .. Len(text)
  BY <1>1, <1>2 DEF CallInv, AtNext
<1>4. Needed' /\ (Unnested' => Unnested) /\ Vocabulary' = Vocabulary /\ nodes' = nodes
  BY <1>1, SameWords DEF MaskInv, InUse
<1>5. \A word : Places(word)' = Places(word)
  BY <1>1 DEF Places
<1>6. TypeOK
  BY DEF TrieInv
<1>7. ASSUME Unnested
      PROVE  /\ Top(curr, SoFar(pos - 1)) /\ AllMasked(pos - 1)
             /\ Behind(pos - 1, pos - 1 - n)
  BY <1>1, <1>7 DEF MaskInv, MaskNext
<1>8. CASE text[pos] \notin Letters
  <2>1. pos' = pos + 1 /\ pc' = "next"
    BY <1>1, <1>8 DEF FilterNext, IsSymbolASCII
  <2>2. SoFar(pos) = SoFar(pos - 1)
    BY <1>3, <1>6, <1>8, ReadOn
  <2>3. pos' - 1 = pos /\ pos' - 1 - n' = pos - 1 - n
    BY <1>1, <1>2, <2>1
  <2>4. ASSUME Unnested
        PROVE  /\ Top(curr, SoFar(pos)) /\ AllMasked(pos) /\ Behind(pos, pos - 1 - n)
    <3>1. Top(curr, SoFar(pos))
      BY <1>7, <2>2, <2>4, Zenon
    <3>2. AllMasked(pos)
      <4>1. ASSUME NEW word \in Vocabulary, NEW place \in Places(word), place[2] <= pos
            PROVE  place[1] .. place[2] \subseteq masked
        <5>1. place[2] \in 1 .. Len(text) /\ text[place[2]] \in Letters
          BY <1>6, PlaceEnds
        <5>2. place[2] <= pos - 1
          BY <1>2, <1>8, <4>1, <5>1
        <5>3. QED
          BY <1>7, <2>4, <5>2 DEF AllMasked
      <4>2. QED
        BY <4>1 DEF AllMasked
    <3>3. LettersIn(text, pos) = LettersIn(text, pos - 1)
      BY <1>3, <1>6, <1>8, Grow
    <3>4. Behind(pos, pos - 1 - n)
      <4>1. ASSUME NEW k \in 1 .. pos, k < pos - 1 - n
            PROVE  k \in 1 .. pos - 1
        BY <1>2, <1>3, <4>1
      <4>2. QED
        BY <1>7, <2>4, <3>3, <4>1 DEF Behind
    <3>5. QED
      BY <3>1, <3>2, <3>4
  <2>5. MaskNext'
    <3>1. SUFFICES ASSUME Unnested'
                   PROVE  /\ Top(curr, SoFar(pos - 1))' /\ AllMasked(pos - 1)'
                          /\ Behind(pos - 1, pos - 1 - n)'
      BY DEF MaskNext
    <3>2. Top(curr, SoFar(pos)) /\ AllMasked(pos) /\ Behind(pos, pos - 1 - n)
      BY <1>4, <2>4, <3>1
    <3>3. QED
      BY <1>1, <1>4, <1>5, <2>3, <3>2 DEF Top, SoFar, AllMasked, Behind
  <2>6. MaskFall' /\ MaskEmit'
    BY <2>1 DEF MaskFall, MaskEmit
  <2>7. QED
    BY <1>4, <2>5, <2>6 DEF MaskInv
<1>9. CASE text[pos] \in Letters
  <2>1. pc' = "fall" /\ UNCHANGED <<pos, symbolPre>>
    BY <1>1, <1>9 DEF FilterNext, IsSymbolASCII
  <2>2. pos' = pos /\ pos' - n' = pos - 1 - n
    BY <1>1, <1>2, <2>1
  <2>3. MaskFall'
    <3>1. SUFFICES ASSUME Unnested'
                   PROVE  /\ TopFor(curr, SoFar(pos - 1), text[pos])' /\ AllMasked(pos - 1)'
                          /\ Behind(pos - 1, pos - n)'
      BY DEF MaskFall
    <3>2. TopFor(curr, SoFar(pos - 1), text[pos]) /\ AllMasked(pos - 1)
          /\ Behind(pos - 1, pos - 1 - n)
      BY <1>4, <1>7, <3>1 DEF Top, TopFor
    <3>3. QED
      BY <1>1, <1>4, <1>5, <2>2, <3>2 DEF TopFor, SoFar, AllMasked, Behind
  <2>4. MaskNext' /\ MaskEmit'
    BY <2>1 DEF MaskNext, MaskEmit
  <2>5. QED
    BY <1>4, <2>3, <2>4 DEF MaskInv
<1>10. QED
  BY <1>8, <1>9

LEMMA FilterMoveMask ==
  ASSUME TrieInv, CallInv, MaskInv, FilterMove
  PROVE  MaskInv'
<1>1. /\ pc = "fall" /\ CanMove(curr, text[pos]) /\ curr' = NextState(curr, text[pos])
      /\ pc' = "emit"
      /\ UNCHANGED <<load, trie, inited, create, text, pos, n, symbolPre, masked, found>>
  BY DEF FilterMove
<1>2. /\ text \in Seq(Chars) /\ curr \in nodes /\ pos \in Nat /\ n \in Nat /\ Len(curr) \in Nat
      /\ curr \in Words /\ Len(Root) = 0
  BY <1>1, Used DEF InUse
<1>3. /\ pos \in 1 .. Len(text) /\ text[pos] \in Letters /\ IsSuffix(curr, SoFar(pos - 1))
  BY <1>1 DEF CallInv, AtFall
<1>4. TypeOK
  BY DEF TrieInv
<1>5. SoFar(pos - 1) \in Words /\ SoFar(pos) = Append(SoFar(pos - 1), Lower[text[pos]])
  BY <1>3, <1>4, ReadOn
<1>6. PICK to : to = NextState(curr, text[pos])
  OBVIOUS
<1>7. /\ to \in nodes
      /\ Len(to) = Len(curr) + 1 \/ to = Root
      /\ TopFor(curr, SoFar(pos - 1), text[pos]) => Top(to, SoFar(pos))
  BY <1>1, <1>2, <1>3, <1>5, <1>6, MoveOn
<1>8. Needed' /\ (Unnested' => Unnested) /\ Vocabulary' = Vocabulary /\ nodes' = nodes
  BY <1>1, SameWords DEF MaskInv, InUse
<1>9. \A word : Places(word)' = Places(word)
  BY <1>1 DEF Places
<1>10. ASSUME Unnested
       PROVE  /\ Top(to, SoFar(pos)) /\ AllMasked(pos - 1)
              /\ \A i \in 1 .. pos :
                   i < pos - n /\ LettersIn(text, i) > LettersIn(text, pos) - Len(to) => i \in masked
  <2>1. /\ TopFor(curr, SoFar(pos - 1), text[pos]) /\ AllMasked(pos - 1)
        /\ Behind(pos - 1, pos - n)
    BY <1>1, <1>10 DEF MaskInv, MaskFall
  <2>2. ASSUME NEW i \in 1 .. pos, i < pos - n, LettersIn(text, i) > LettersIn(text, pos) - Len(to)
        PROVE  i \in masked
    <3>1. /\ LettersIn(text, pos - 1) \in Nat /\ LettersIn(text, pos) = LettersIn(text, pos - 1) + 1
          /\ LettersIn(text, i) \in Nat /\ LettersIn(text, i) <= LettersIn(text, pos)
      BY <1>3, <1>4, Grow
    <3>2. to # Root
      BY <1>2, <2>2, <3>1
    <3>3. Len(to) = Len(curr) + 1
      BY <1>7, <3>2
    <3>4. LettersIn(text, i) > LettersIn(text, pos - 1) - Len(curr)
      BY <1>2, <2>2, <3>1, <3>3
    <3>5. i \in 1 .. pos - 1
      BY <1>2, <1>3, <2>2
    <3>6. QED
      BY <2>1, <2>2, <3>4, <3>5 DEF Behind
  <2>3. QED
    BY <1>7, <2>1, <2>2
<1>11. MaskEmit'
  <2>1. SUFFICES ASSUME Unnested'
                 PROVE  Top(curr, SoFar(pos))' /\ AllMasked(pos - 1)' /\ Behind(pos, pos - n)'
    BY DEF MaskEmit
  <2>2. curr' = to /\ UNCHANGED <<text, pos, n, masked>>
    BY <1>1, <1>6
  <2>3. QED
    BY <1>8, <1>9, <1>10, <2>1, <2>2 DEF Top, SoFar, AllMasked, Behind
<1>12. MaskNext' /\ MaskFall'
  BY <1>1 DEF MaskNext, MaskFall
<1>13. QED
  BY <1>8, <1>11, <1>12 DEF MaskInv

\* It does not step back: the node it would step to is a word inside another.
LEMMA FilterFallMask ==
  ASSUME TrieInv, CallInv, MaskInv, FilterFall
  PROVE  MaskInv'
<1>1. /\ pc = "fall" /\ ~CanMove(curr, text[pos]) /\ curr' = failure[curr]
      /\ UNCHANGED <<load, trie, inited, create, text, symbolPre, masked, found>>
      /\ IF ~symbolPre /\ failure[curr] \in isEmit
         THEN pos' = pos - 1 /\ n' = Len(failure[curr]) - 1 /\ pc' = "emit"
         ELSE UNCHANGED <<pos, n, pc>>
  BY DEF FilterFall
<1>2. /\ text \in Seq(Chars) /\ curr \in nodes /\ pos \in Nat /\ n \in Nat /\ Len(curr) \in Nat
      /\ curr \in Words /\ inited /\ at = 1
  BY <1>1, Used DEF InUse
<1>3. /\ pos \in 1 .. Len(text) /\ text[pos] \in Letters /\ IsSuffix(curr, SoFar(pos - 1))
  BY <1>1 DEF CallInv, AtFall
<1>4. TypeOK
  BY DEF TrieInv
<1>5. SoFar(pos - 1) \in Words /\ LettersIn(text, pos - 1) \in Nat
  BY <1>3, <1>4, ReadOn, Grow
<1>6. PICK to : to = failure[curr]
  OBVIOUS
<1>7. /\ to \in nodes /\ to \in Words /\ IsSuffix(to, curr) /\ Len(to) < Len(curr)
      /\ TopFor(curr, SoFar(pos - 1), text[pos]) => TopFor(to, SoFar(pos - 1), text[pos])
  BY <1>1, <1>2, <1>3, <1>5, <1>6, FallBack
<1>8. Needed' /\ (Unnested' => Unnested) /\ Vocabulary' = Vocabulary /\ nodes' = nodes
  BY <1>1, SameWords DEF MaskInv, InUse
<1>9. \A word : Places(word)' = Places(word)
  BY <1>1 DEF Places
<1>10. ASSUME Unnested
       PROVE  /\ UNCHANGED <<pos, n, pc>>
              /\ TopFor(to, SoFar(pos - 1), text[pos]) /\ AllMasked(pos - 1)
              /\ \A i \in 1 .. pos - 1 :
                   i < pos - n /\ LettersIn(text, i) > LettersIn(text, pos - 1) - Len(to)
                     => i \in masked
  <2>1. /\ TopFor(curr, SoFar(pos - 1), text[pos]) /\ AllMasked(pos - 1)
        /\ Behind(pos - 1, pos - n)
    BY <1>1, <1>10 DEF MaskInv, MaskFall
  <2>2. to \notin isEmit
    <3>1. to \in isEmit => to = curr
      BY <1>1, <1>2, <1>7, <1>10, NestedIn DEF MaskInv, InUse
    <3>2. QED
      BY <1>2, <1>7, <3>1
  <2>3. UNCHANGED <<pos, n, pc>>
    BY <1>1, <1>6, <2>2
  <2>4. ASSUME NEW i \in 1 .. pos - 1, i < pos - n,
               LettersIn(text, i) > LettersIn(text, pos - 1) - Len(to)
        PROVE  i \in masked
    <3>1. LettersIn(text, i) \in Nat /\ Len(to) \in Nat
      BY <1>7, CountIn DEF Words
    <3>2. LettersIn(text, i) > LettersIn(text, pos - 1) - Len(curr)
      BY <1>2, <1>5, <1>7, <2>4, <3>1
    <3>3. QED
      BY <2>1, <2>4, <3>2 DEF Behind
  <2>5. QED
    BY <1>7, <2>1, <2>3, <2>4
<1>11. MaskFall'
  <2>1. SUFFICES ASSUME Unnested'
                 PROVE  /\ TopFor(curr, SoFar(pos - 1), text[pos])' /\ AllMasked(pos - 1)'
                        /\ Behind(pos - 1, pos - n)'
    BY DEF MaskFall
  <2>2. curr' = to /\ UNCHANGED <<text, masked>>
    BY <1>1, <1>6
  <2>3. QED
    BY <1>8, <1>9, <1>10, <2>1, <2>2 DEF TopFor, SoFar, AllMasked, Behind
<1>12. MaskEmit'
  <2>1. Unnested' => pc' = "fall"
    BY <1>1, <1>8, <1>10
  <2>2. QED
    BY <2>1 DEF MaskEmit
<1>13. MaskNext'
  BY <1>1 DEF MaskNext
<1>14. QED
  BY <1>8, <1>11, <1>12, <1>13 DEF MaskInv

LEMMA FilterEmitMask ==
  ASSUME TrieInv, CallInv, MaskInv, FilterEmit
  PROVE  MaskInv'
<1> DEFINE since == IF Len(curr) = 1 THEN 0 ELSE n
<1>1. /\ pc = "emit" /\ pos' = pos + 1 /\ pc' = "next"
      /\ UNCHANGED <<load, trie, inited, create, text, curr, found>>
      /\ IF curr \in isEmit
         THEN masked' = masked \cup ((pos - since) .. pos) /\ n' = 0
         ELSE n' = since /\ UNCHANGED masked
  BY DEF FilterEmit
<1>2. /\ text \in Seq(Chars) /\ curr \in nodes /\ pos \in Nat /\ n \in Nat /\ Len(curr) \in Nat
      /\ curr \in Words /\ Len(Root) = 0 /\ Len(text) \in Nat
      /\ isEmit = Vocabulary /\ \A s \in isEmit : s \in Words /\ s # Root
  BY <1>1, Used DEF InUse
<1>3. /\ pos \in 1 .. Len(text) /\ text[pos] \in Letters /\ IsSuffix(curr, SoFar(pos))
  BY <1>1 DEF CallInv, AtEmit
<1>4. TypeOK
  BY DEF TrieInv
<1>5. Needed' /\ (Unnested' => Unnested) /\ Vocabulary' = Vocabulary /\ nodes' = nodes
  BY <1>1, SameWords DEF MaskInv, InUse
<1>6. \A word : Places(word)' = Places(word)
  BY <1>1 DEF Places
<1>7. since = (IF Len(curr) = 1 THEN 0 ELSE n) /\ SoFar(pos) \in Words
  BY <1>3, <1>4, ReadOn
<1> HIDE DEF since
<1>8. masked \subseteq masked'
  BY <1>1
<1>9. ASSUME NEW i \in 1 .. pos, i < pos, LettersIn(text, i) > LettersIn(text, pos) - Len(curr)
      PROVE  Len(curr) # 1
  <2>1. LettersIn(text, i) \in Nat /\ LettersIn(text, pos) \in Nat
        /\ LettersIn(text, i) < LettersIn(text, pos)
    BY <1>3, <1>4, <1>9, Grow
  <2>2. \A a, b \in Nat : a < b => ~(a > b - 1)
    OBVIOUS
  <2>3. QED
    BY <1>9, <2>1, <2>2
<1>10. ASSUME Unnested
       PROVE  Top(curr, SoFar(pos)) /\ AllMasked(pos - 1) /\ Behind(pos, pos - n)
  BY <1>1, <1>10 DEF MaskInv, MaskEmit
<1>11. ASSUME Unnested, curr \in isEmit,
              NEW i \in 1 .. pos, LettersIn(text, i) > LettersIn(text, pos) - Len(curr)
       PROVE  i \in masked'
  <2>1. masked' = masked \cup ((pos - since) .. pos)
    BY <1>1, <1>11
  <2>2. CASE i = pos
    <3>1. since \in Nat
      BY <1>2, <1>7
    <3>2. pos \in (pos - since) .. pos
      BY <1>2, <3>1
    <3>3. QED
      BY <2>1, <2>2, <3>2
  <2>3. CASE i # pos
    <3>1. i < pos
      BY <1>2, <2>3
    <3>2. since = n
      BY <1>7, <1>9, <1>11, <3>1
    <3>3. CASE i < pos - n
      BY <1>8, <1>10, <1>11, <3>3 DEF Behind
    <3>4. CASE ~(i < pos - n)
      <4>1. i \in (pos - since) .. pos
        BY <1>2, <3>1, <3>2, <3>4
      <4>2. QED
        BY <2>1, <4>1
    <3>5. QED
      BY <3>3, <3>4
  <2>4. QED
    BY <2>2, <2>3
<1>12. ASSUME Unnested, NEW word \in Vocabulary, NEW place \in Places(word), place[2] <= pos
       PROVE  place[1] .. place[2] \subseteq masked'
  <2> DEFINE i == place[1]
             j == place[2]
  <2>1. /\ i \in 1 .. Len(text) /\ j \in 1 .. Len(text) /\ i <= j
        /\ text[i] \in Letters
        /\ word \in Words /\ IsSuffix(word, SoFar(j))
        /\ Len(word) = LettersIn(text, j) - LettersIn(text, i - 1)
    BY <1>4, PlaceEnds DEF SoFar
  <2> HIDE DEF i, j
  <2>2. CASE j <= pos - 1
    BY <1>8, <1>10, <1>12, <2>2 DEF AllMasked, j
  <2>3. CASE j = pos
    <3>1. word \in isEmit /\ word \in nodes
      BY <1>2, Used, <1>1 DEF InUse
    <3>2. Len(word) <= Len(curr)
      BY <1>10, <1>12, <2>1, <2>3, <3>1 DEF Top
    <3>3. IsSuffix(word, curr)
      BY <1>2, <1>3, <1>7, <2>1, <2>3, <3>2, SuffixBoth
    <3>4. word = curr
      BY <1>1, <1>2, <1>12, <3>1, <3>3, NestedIn DEF MaskInv, InUse
    <3>5. LettersIn(text, i) > LettersIn(text, pos) - Len(curr)
      <4> DEFINE h == i - 1
      <4>1. h \in Nat /\ i = h + 1
        BY <2>1
      <4> HIDE DEF h
      <4>2. LettersIn(text, i) = LettersIn(text, h) + 1 /\ LettersIn(text, h) \in Nat
        BY <2>1, <4>1, CountStep, CountIn
      <4>3. Len(curr) = LettersIn(text, pos) - LettersIn(text, h)
        BY <2>1, <2>3, <3>4 DEF h
      <4>4. LettersIn(text, pos) \in Nat
        BY <1>3, <1>4, Grow
      <4>5. QED
        BY <1>2, <4>2, <4>3, <4>4
    <3>6. ASSUME NEW k \in i .. j
          PROVE  k \in masked'
      <4>1. k \in 1 .. pos /\ k \in Nat /\ i \in Nat /\ i <= k
        BY <1>2, <2>1, <2>3
      <4>2. LettersIn(text, i) <= LettersIn(text, k) /\ LettersIn(text, i) \in Nat
            /\ LettersIn(text, k) \in Nat /\ LettersIn(text, pos) \in Nat
        BY <1>2, <4>1, CountMonotone, CountIn
      <4>3. LettersIn(text, k) > LettersIn(text, pos) - Len(curr)
        BY <1>2, <3>5, <4>2
      <4>4. QED
        BY <1>11, <1>12, <3>1, <3>4, <4>1, <4>3
    <3>7. QED
      BY <3>6 DEF i, j
  <2>4. QED
    BY <1>2, <1>12, <2>1, <2>2, <2>3 DEF j
<1>13. ASSUME Unnested, NEW i \in 1 .. pos, i < pos - n',
              LettersIn(text, i) > LettersIn(text, pos) - Len(curr)
       PROVE  i \in masked'
  <2>1. CASE curr \in isEmit
    BY <1>11, <1>13, <2>1
  <2>2. CASE curr \notin isEmit
    <3>1. n' = since /\ since \in Nat
      BY <1>1, <1>2, <1>7, <2>2
    <3>2. i < pos - since
      BY <1>13, <3>1
    <3>3. i < pos
      BY <1>2, <3>1, <3>2
    <3>4. since = n
      BY <1>7, <1>9, <1>13, <3>3
    <3>5. QED
      BY <1>8, <1>10, <1>13, <3>2, <3>4 DEF Behind
  <2>3. QED
    BY <2>1, <2>2
<1>14. pos' - 1 = pos /\ pos' - 1 - n' = pos - n'
  BY <1>1, <1>2
<1>15. MaskNext'
  <2>1. SUFFICES ASSUME Unnested'
                 PROVE  /\ Top(curr, SoFar(pos - 1))' /\ AllMasked(pos - 1)'
                        /\ Behind(pos - 1, pos - 1 - n)'
    BY DEF MaskNext
  <2>2. Unnested
    BY <1>5, <2>1
  <2>3. Top(curr, SoFar(pos - 1))'
    BY <1>1, <1>5, <1>10, <1>14, <2>2 DEF Top, SoFar
  <2>4. AllMasked(pos - 1)'
    BY <1>5, <1>6, <1>12, <1>14, <2>2 DEF AllMasked
  <2>5. Behind(pos - 1, pos - 1 - n)'
    BY <1>1, <1>13, <1>14, <2>2 DEF Behind
  <2>6. QED
    BY <2>3, <2>4, <2>5
<1>16. MaskFall' /\ MaskEmit'
  BY <1>1 DEF MaskFall, MaskEmit
<1>17. QED
  BY <1>5, <1>15, <1>16 DEF MaskInv

-----------------------------------------------------------------------------
(* What Filter masks at all.                                               *)

\* A place where a beginning of a word stands.
Begun(i) == \E beginning \in nodes \ {Root} : \E place \in Places(beginning) : i \in place[1] .. place[2]

\* From place h to k there is nothing but beginnings of words, and symbols at
\* the end, which belong to one if the next letter goes on with it.
Trail(h, k) ==
  curr # Root => \A i \in 1 .. k : h <= i => Begun(i) \/ \A j \in i .. k : text[j] \notin Letters

Since == IF Len(curr) = 1 THEN 0 ELSE n

CoverNext == pc = "next" => Trail(pos - 1 - n, pos - 1)
CoverFall == pc = "fall" => Trail(pos - n, pos - 1)
CoverEmit == pc = "emit" /\ curr # Root => \A i \in 1 .. pos : pos - Since <= i => Begun(i)

CoverInv == CoverNext /\ CoverFall /\ CoverEmit /\ MasksOnlyHits

LEMMA CoverInit == Init => CoverInv
BY DEF Init, CoverInv, CoverNext, CoverFall, CoverEmit, MasksOnlyHits

\* Nothing is masked while the trie is built, nor when a call starts.
LEMMA BuildCover ==
  ASSUME CallInv, Load \/ Create \/ Start
  PROVE  CoverInv'
<1>1. /\ UNCHANGED <<pos, n, curr, masked>>
      /\ pc \in {"load", "create", "ready"}
      /\ pc' \in {"load", "create", "refused", "ready", "next", "has"}
  BY DEF Load, Create, AddLeaf, ErrNotASCII, AddKeyWord, CreateFailureStates, Pop, LinkFall,
         LinkHead, Link, Linked, Created, Constructed, Start, call
<1>2. curr = Root /\ masked = {}
  BY <1>1 DEF CallInv, Idle
<1>3. QED
  BY <1>1, <1>2 DEF CoverInv, CoverNext, CoverFall, CoverEmit, Trail, MasksOnlyHits

\* A step that masks nothing.
LEMMA SameMask ==
  ASSUME MasksOnlyHits, UNCHANGED <<load, trie, text, masked>>
  PROVE  /\ MasksOnlyHits'
         /\ \A i : Begun(i)' = Begun(i)
<1>1. UNCHANGED <<words, nodes>> /\ \A word : Places(word)' = Places(word)
  BY DEF load, trie, Places
<1>2. QED
  BY <1>1 DEF MasksOnlyHits, Begun, Vocabulary

LEMMA SearchCover ==
  ASSUME CoverInv, HasBlackWord \/ FilterEnd
  PROVE  CoverInv'
<1>1. UNCHANGED <<load, trie, text, masked>> /\ pc' \in {"has", "hasFall", "done"}
  BY DEF HasBlackWord, HasNext, HasMove, HasFall, FilterEnd, call
<1>2. QED
  BY <1>1, SameMask DEF CoverInv, CoverNext, CoverFall, CoverEmit

LEMMA FilterNextCover ==
  ASSUME TrieInv, CallInv, CoverInv, FilterNext
  PROVE  CoverInv'
<1>1. /\ pc = "next" /\ pos <= Len(text) /\ n' = n + 1
      /\ UNCHANGED <<load, trie, text, curr, masked>>
  BY DEF FilterNext
<1>2. pos \in Nat \ {0} /\ n \in Nat
  BY <1>1, Used DEF InUse, CallInv, AtNext
<1>3. MasksOnlyHits' /\ \A i : Begun(i)' = Begun(i)
  BY <1>1, SameMask DEF CoverInv
<1>4. Trail(pos - 1 - n, pos - 1)
  BY <1>1 DEF CoverInv, CoverNext
<1>5. CASE text[pos] \notin Letters
  <2>1. pos' = pos + 1 /\ pc' = "next"
    BY <1>1, <1>5 DEF FilterNext, IsSymbolASCII
  <2>2. pos' - 1 - n' = pos - 1 - n /\ pos' - 1 = pos
    BY <1>1, <1>2, <2>1
  <2>3. ASSUME curr # Root, NEW i \in 1 .. pos, pos - 1 - n <= i
        PROVE  Begun(i) \/ \A j \in i .. pos : text[j] \notin Letters
    <3>1. CASE i = pos
      BY <1>2, <1>5, <3>1
    <3>2. CASE i \in 1 .. pos - 1
      BY <1>2, <1>4, <1>5, <2>3, <3>2 DEF Trail
    <3>3. QED
      BY <1>2, <3>1, <3>2
  <2>4. Trail(pos - 1 - n, pos - 1)'
    BY <1>1, <1>3, <2>2, <2>3 DEF Trail
  <2>5. QED
    BY <1>3, <2>1, <2>4 DEF CoverInv, CoverNext, CoverFall, CoverEmit
<1>6. CASE text[pos] \in Letters
  <2>1. pos' = pos /\ pc' = "fall"
    BY <1>1, <1>6 DEF FilterNext, IsSymbolASCII
  <2>2. pos' - n' = pos - 1 - n /\ pos' - 1 = pos - 1
    BY <1>1, <1>2, <2>1
  <2>3. Trail(pos - n, pos - 1)'
    BY <1>1, <1>3, <1>4, <2>2 DEF Trail
  <2>4. QED
    BY <1>3, <2>1, <2>3 DEF CoverInv, CoverNext, CoverFall, CoverEmit
<1>7. QED
  BY <1>5, <1>6

\* The node that Filter moves to stands in the text up to this letter, and
\* covers the symbols since the letter before.
LEMMA FilterMoveCover ==
  ASSUME TrieInv, CallInv, CoverInv, FilterMove
  PROVE  CoverInv'
<1>1. /\ pc = "fall" /\ CanMove(curr, text[pos]) /\ curr' = NextState(curr, text[pos])
      /\ pc' = "emit" /\ UNCHANGED <<load, trie, text, pos, n, masked>>
  BY DEF FilterMove
<1>2. /\ curr \in nodes /\ pos \in Nat /\ n \in Nat /\ Len(curr) \in Nat /\ Len(Root) = 0
  BY <1>1, Used DEF InUse
<1>3. pos \in 1 .. Len(text) /\ text[pos] \in Letters /\ IsSuffix(curr, SoFar(pos - 1))
  BY <1>1 DEF CallInv, AtFall
<1>4. TypeOK
  BY DEF TrieInv
<1>5. SoFar(pos - 1) \in Words /\ SoFar(pos) = Append(SoFar(pos - 1), Lower[text[pos]])
  BY <1>3, <1>4, ReadOn
<1>6. PICK to : to = NextState(curr, text[pos])
  OBVIOUS
<1>7. /\ to \in nodes /\ to \in Words /\ IsSuffix(to, SoFar(pos))
      /\ Len(to) = Len(curr) + 1 \/ to = Root
  BY <1>1, <1>2, <1>3, <1>5, <1>6, MoveOn
<1>8. curr' = to
  BY <1>1, <1>6
<1>9. MasksOnlyHits' /\ \A i : Begun(i)' = Begun(i)
  BY <1>1, SameMask DEF CoverInv
<1>10. ASSUME to # Root, NEW i \in 1 .. pos, pos - Since' <= i
       PROVE  Begun(i)
  <2>1. PICK h \in 1 .. pos : /\ <<h, pos>> \in Places(to) /\ text[h] \in Letters
                               /\ (h = pos => Len(to) = 1)
    BY <1>3, <1>4, <1>7, <1>10, PlaceOf DEF SoFar
  <2>2. \A k \in h .. pos : Begun(k)
    BY <1>7, <1>10, <2>1 DEF Begun
  <2>3. CASE i = pos
    BY <1>2, <2>1, <2>2, <2>3
  <2>4. CASE i \in 1 .. pos - 1
    <3>1. Len(to) # 1 /\ Since' = n
      <4>1. PICK since : since = Since' /\ since = IF Len(to) = 1 THEN 0 ELSE n
        BY <1>1, <1>8 DEF Since
      <4>2. pos - since <= i
        BY <1>1, <1>10, <4>1
      <4>3. since # 0
        BY <1>2, <2>4, <4>2
      <4>4. QED
        BY <4>1, <4>3
    <3>2. curr # Root /\ h \in 1 .. pos - 1
      <4>1. curr # Root
        <5>1. Len(to) = Len(curr) + 1 /\ Len(to) # 1
          BY <1>7, <1>10, <3>1
        <5>2. Len(curr) # 0
          BY <5>1
        <5>3. QED
          BY <1>2, <5>2
      <4>2. h # pos
        BY <2>1, <3>1
      <4>3. QED
        BY <1>2, <4>1, <4>2
    <3>3. Begun(i) \/ \A j \in i .. pos - 1 : text[j] \notin Letters
      BY <1>1, <1>10, <2>4, <3>1, <3>2 DEF CoverInv, CoverFall, Trail
    <3>4. CASE h <= i
      BY <1>2, <2>2, <2>4, <3>4
    <3>5. CASE i < h
      BY <1>2, <2>1, <2>4, <3>2, <3>3, <3>5
    <3>6. QED
      BY <1>2, <2>1, <3>4, <3>5
  <2>5. QED
    BY <1>2, <2>3, <2>4
<1>11. CoverEmit'
  BY <1>1, <1>8, <1>9, <1>10 DEF CoverEmit
<1>12. QED
  BY <1>1, <1>9, <1>11 DEF CoverInv, CoverNext, CoverFall

\* After the step back n covers the letters of the word at most.
LEMMA FilterFallCover ==
  ASSUME TrieInv, CallInv, CoverInv, FilterFall
  PROVE  CoverInv'
<1>1. /\ pc = "fall" /\ ~CanMove(curr, text[pos]) /\ curr' = failure[curr]
      /\ UNCHANGED <<load, trie, text, masked>>
      /\ IF ~symbolPre /\ failure[curr] \in isEmit
         THEN pos' = pos - 1 /\ n' = Len(failure[curr]) - 1 /\ pc' = "emit"
         ELSE UNCHANGED <<pos, n, pc>>
  BY DEF FilterFall
<1>2. /\ curr \in nodes /\ pos \in Nat /\ n \in Nat /\ inited /\ at = 1 /\ Len(text) \in Nat
      /\ \A s \in isEmit : s \in Words /\ s # Root
  BY <1>1, Used DEF InUse
<1>3. /\ pos \in 1 .. Len(text) /\ text[pos] \in Letters /\ IsSuffix(curr, SoFar(pos - 1))
      /\ (~symbolPre /\ pos > 1 => text[pos - 1] \in Letters)
  BY <1>1 DEF CallInv, AtFall
<1>4. TypeOK
  BY DEF TrieInv
<1>5. SoFar(pos - 1) \in Words
  BY <1>3, <1>4, ReadOn
<1>6. PICK to : to = failure[curr]
  OBVIOUS
<1>7. curr # Root /\ to \in nodes /\ to \in Words /\ IsSuffix(to, SoFar(pos - 1))
  BY <1>1, <1>2, <1>3, <1>5, <1>6, FallBack
<1>8. MasksOnlyHits' /\ \A i : Begun(i)' = Begun(i)
  BY <1>1, SameMask DEF CoverInv
<1>9. CASE ~symbolPre /\ to \in isEmit
  <2> DEFINE k == pos - 1
  <2>1. pos' = k /\ n' = Len(to) - 1 /\ pc' = "emit" /\ curr' = to /\ to # Root
    BY <1>1, <1>2, <1>6, <1>9
  <2>2. k \in 1 .. Len(text) /\ text[k] \in Letters /\ k \in Nat
    <3>1. pos # 1
      BY <1>1, <1>4, <1>7, <1>9, <2>1, FilterFallCall DEF CallInv, AtEmit
    <3>2. QED
      BY <1>2, <1>3, <1>9, <3>1
  <2> HIDE DEF k
  <2>3. IsSuffix(to, Clean(SubSeq(text, 1, k))) /\ Len(to) \in Nat
    BY <1>7 DEF k, SoFar, Words
  <2>4. PICK h \in 1 .. k : <<h, k>> \in Places(to) /\ Len(to) <= k - h + 1
    BY <1>4, <1>7, <2>1, <2>2, <2>3, PlaceOf
  <2>5. ASSUME NEW i \in 1 .. k, k - Since' <= i
        PROVE  Begun(i)
    <3>1. PICK since : since = Since' /\ since \in {0, Len(to) - 1}
      BY <2>1 DEF Since
    <3>2. k - since <= i /\ Len(to) # 0
      BY <1>7, <2>1, <2>5, <3>1 DEF Root, Words
    <3>3. i \in h .. k
      <4>1. PICK len : len \in Nat /\ len # 0 /\ len = Len(to)
        BY <2>3, <3>2
      <4>2. since \in {0, len - 1} /\ len <= k - h + 1 /\ k - since <= i
        BY <2>4, <3>1, <3>2, <4>1
      <4>3. QED
        BY <2>2, <4>1, <4>2
    <3>4. QED
      BY <1>7, <2>1, <2>4, <3>3 DEF Begun
  <2>6. CoverEmit'
    BY <1>8, <2>1, <2>5 DEF CoverEmit
  <2>7. QED
    BY <1>8, <2>1, <2>6 DEF CoverInv, CoverNext, CoverFall
<1>10. CASE symbolPre \/ to \notin isEmit
  <2>1. UNCHANGED <<pos, n, pc>> /\ curr' = to
    BY <1>1, <1>4, <1>6, <1>10 DEF TypeOK
  <2>2. Trail(pos - n, pos - 1)
    BY <1>1 DEF CoverInv, CoverFall
  <2>3. Trail(pos - n, pos - 1)'
    BY <1>1, <1>7, <1>8, <2>1, <2>2 DEF Trail
  <2>4. QED
    BY <1>1, <1>8, <2>1, <2>3 DEF CoverInv, CoverNext, CoverFall, CoverEmit
<1>11. QED
  BY <1>9, <1>10

LEMMA FilterEmitCover ==
  ASSUME TrieInv, CallInv, CoverInv, FilterEmit
  PROVE  CoverInv'
<1>1. /\ pc = "emit" /\ pos' = pos + 1 /\ pc' = "next"
      /\ UNCHANGED <<load, trie, text, curr>>
      /\ IF curr \in isEmit
         THEN masked' = masked \cup ((pos - Since) .. pos) /\ n' = 0
         ELSE n' = Since /\ UNCHANGED masked
  BY DEF FilterEmit, Since
<1>2. /\ curr \in nodes /\ pos \in Nat /\ n \in Nat /\ Len(text) \in Nat
      /\ isEmit = Vocabulary /\ \A s \in isEmit : s \in Words /\ s # Root
  BY <1>1, Used DEF InUse
<1>3. /\ pos \in 1 .. Len(text) /\ text[pos] \in Letters /\ IsSuffix(curr, SoFar(pos))
  BY <1>1 DEF CallInv, AtEmit
<1>4. TypeOK /\ Since \in Nat
  BY <1>2 DEF TrieInv, Since
<1>5. curr # Root => \A i \in 1 .. pos : pos - Since <= i => Begun(i)
  BY <1>1 DEF CoverInv, CoverEmit
<1>6. /\ UNCHANGED <<words, nodes>> /\ Vocabulary' = Vocabulary
      /\ \A word : Places(word)' = Places(word)
      /\ \A i : Begun(i)' = Begun(i)
  BY <1>1 DEF load, trie, Vocabulary, Places, Begun
<1>7. CoverNext'
  <2>1. pos' - 1 = pos /\ n' \in {0, Since} /\ pos - Since <= pos
    BY <1>1, <1>2, <1>4
  <2>2. ASSUME curr # Root, NEW i \in 1 .. pos, pos - n' <= i
        PROVE  Begun(i)
    <3>1. PICK left : left = n' /\ left \in {0, Since}
      BY <2>1
    <3>2. pos - left <= i
      BY <2>2, <3>1
    <3>3. pos - Since <= i
      <4>1. CASE left = 0
        BY <1>2, <1>4, <3>2, <4>1
      <4>2. CASE left = Since
        BY <3>2, <4>2
      <4>3. QED
        BY <3>1, <4>1, <4>2
    <3>4. QED
      BY <1>5, <2>2, <3>3
  <2>3. Trail(pos - 1 - n, pos - 1)'
    BY <1>1, <1>6, <2>1, <2>2 DEF Trail
  <2>4. QED
    BY <2>3 DEF CoverNext
<1>8. MasksOnlyHits'
  <2>1. ASSUME NEW i \in masked
        PROVE  /\ Begun(i)
               /\ \E word \in Vocabulary : \E place \in Places(word) :
                    i <= place[2] /\ i .. place[2] \subseteq masked'
    <3>1. masked \subseteq masked'
      BY <1>1
    <3>2. QED
      BY <3>1 DEF CoverInv, MasksOnlyHits, Begun
  <2>2. ASSUME NEW i \in masked', i \notin masked
        PROVE  /\ Begun(i)
               /\ \E word \in Vocabulary : \E place \in Places(word) :
                    i <= place[2] /\ i .. place[2] \subseteq masked'
    <3>1. /\ curr \in isEmit /\ i \in (pos - Since) .. pos
          /\ masked' = masked \cup ((pos - Since) .. pos)
      BY <1>1, <2>2
    <3>2. i \in 1 .. pos /\ pos - Since <= i
      <4>1. masked' \subseteq 1 .. Len(text)
        BY <1>1, FilterEmitCall DEF CallInv, InBounds
      <4>2. QED
        BY <1>2, <1>4, <2>2, <3>1, <4>1
    <3>3. PICK h \in 1 .. pos : <<h, pos>> \in Places(curr)
      BY <1>2, <1>3, <1>4, <3>1, PlaceOf DEF SoFar
    <3>4. i .. pos \subseteq masked' /\ i <= pos
      BY <1>2, <1>4, <3>1, <3>2
    <3>5. curr \in Vocabulary /\ <<h, pos>>[2] = pos
      BY <1>2, <3>1
    <3>6. Begun(i)
      BY <1>2, <1>5, <3>1, <3>2
    <3>7. QED
      BY <3>3, <3>4, <3>5, <3>6
  <2>3. QED
    BY <1>6, <2>1, <2>2 DEF MasksOnlyHits, Begun
<1>9. QED
  BY <1>1, <1>7, <1>8 DEF CoverInv, CoverFall, CoverEmit

-----------------------------------------------------------------------------
(* The theorems.                                                           *)

FilterInv == TrieInv /\ CallInv /\ MaskInv /\ CoverInv

LEMMA FilterInvInit ==
  Init => FilterInv
<1>1. Init => CallInv
  BY DEF Init, CallInv, Idle, AtNext, AtFall, AtEmit, AtHas, AtHasFall, InBounds
<1>2. Init => MaskNext /\ MaskFall /\ MaskEmit
  BY DEF Init, MaskNext, MaskFall, MaskEmit
<1>3. QED
  BY <1>1, <1>2, TrieInit, NeededInit, CoverInit DEF FilterInv, MaskInv

LEMMA FilterInvNext ==
  ASSUME FilterInv, [Next]_vars
  PROVE  FilterInv'
<1>1. TrieInv /\ CallInv /\ MaskInv /\ CoverInv
  BY DEF FilterInv
<1>2. CASE Load \/ Create
  <2>1. pc' \in {"load", "create", "refused", "ready"}
    BY <1>2 DEF Load, Create, AddLeaf, ErrNotASCII, AddKeyWord, CreateFailureStates, Pop, LinkFall,
         LinkHead, Link, Linked, Created, Constructed
  <2>2. MaskNext' /\ MaskFall' /\ MaskEmit'
    BY <2>1 DEF MaskNext, MaskFall, MaskEmit
  <2>3. QED
    BY <1>1, <1>2, <2>2, BuildTrie, BuildCall, BuildCover, NeededNext DEF FilterInv, MaskInv
<1>3. CASE Start
  BY <1>1, <1>3, StartCall, StartMask, BuildCover DEF FilterInv
<1>4. CASE Filter
  BY <1>1, <1>4, FilterNextCall, FilterNextMask, FilterMoveCall, FilterMoveMask, FilterFallCall,
     FilterFallMask, FilterEmitCall, FilterEmitMask, FilterNextCover, FilterMoveCover,
     FilterFallCover, FilterEmitCover DEF FilterInv, Filter
<1>5. CASE HasBlackWord \/ FilterEnd
  <2>1. TrieInv' /\ CallInv'
    BY <1>1, <1>5, HasNextCall, HasMoveCall, HasFallCall, FilterEndCall DEF HasBlackWord
  <2>2. /\ InUse /\ UNCHANGED <<load, trie>>
        /\ pc' \in {"has", "hasFall", "done"}
    BY <1>5 DEF HasBlackWord, HasNext, HasMove, HasFall, FilterEnd, InUse
  <2>3. Needed'
    BY <1>1, <2>2, SameWords DEF MaskInv
  <2>4. MaskNext' /\ MaskFall' /\ MaskEmit'
    BY <2>2 DEF MaskNext, MaskFall, MaskEmit
  <2>5. QED
    BY <1>1, <1>5, <2>1, <2>3, <2>4, SearchCover DEF FilterInv, MaskInv
<1>6. CASE UNCHANGED vars
  <2>1. UNCHANGED <<pc, load, trie, inited, create, call>>
    BY <1>6 DEF vars
  <2>2. TypeOK' /\ Trie' /\ Reading' /\ Sound'
    BY <1>1, <2>1 DEF TrieInv, TypeOK, load, trie, create, call, Trie, Vocabulary, Reading, Sound
  <2>3. Stage'
    <3>1. \A s : Final(s)' = Final(s)
      BY <2>1 DEF trie, Final, Emits
    <3>2. CASE pc = "create"
      <4>1. PICK p \in nodes : Building(p)
        BY <1>1, <3>2 DEF TrieInv, Stage
      <4>2. Building(p)'
        BY <2>1, <4>1 DEF trie, create, Building, Final, Emits, Pending, Queued, Longest, NextKid,
              Children
      <4>3. QED
        BY <1>1, <2>1, <3>2, <4>2 DEF TrieInv, Stage, load, trie
    <3>3. CASE pc # "create"
      BY <1>1, <2>1, <3>1, <3>3 DEF TrieInv, Stage, load, trie, create
    <3>4. QED
      BY <3>2, <3>3
  <2>4. CallInv'
    BY <1>1, <2>1 DEF CallInv, Idle, AtNext, AtFall, AtEmit, AtHas, AtHasFall, InBounds,
          Vocabulary, Places, SoFar, Top, TopFor, Unmatched, load, trie, call
  <2>5. MaskInv'
    BY <1>1, <2>1 DEF MaskInv, Needed, MaskNext, MaskFall, MaskEmit, Unnested, Vocabulary, Places,
          SoFar, Top, TopFor, AllMasked, Behind, load, trie, call
  <2>6. CoverInv'
    <3>1. /\ UNCHANGED <<pc, nodes, text, pos, n, curr, masked>> /\ Vocabulary' = Vocabulary
          /\ \A word : Places(word)' = Places(word)
      BY <2>1 DEF Vocabulary, Places, load, trie, call
    <3>2. \A i : Begun(i)' = Begun(i)
      BY <3>1 DEF Begun
    <3>3. MasksOnlyHits'
      BY <1>1, <3>1 DEF CoverInv, MasksOnlyHits
    <3>4. CoverNext' /\ CoverFall' /\ CoverEmit'
      BY <1>1, <3>1, <3>2 DEF CoverInv, CoverNext, CoverFall, CoverEmit, Trail, Since
    <3>5. QED
      BY <3>3, <3>4 DEF CoverInv
  <2>7. QED
    BY <2>2, <2>3, <2>4, <2>5, <2>6 DEF FilterInv, TrieInv
<1>7. QED
  BY <1>2, <1>3, <1>4, <1>5, <1>6 DEF Next

THEOREM FilterInvariance == Spec => []FilterInv
<1>1. FilterInv /\ [Next]_vars => FilterInv'
  BY FilterInvNext
<1>2. QED
  BY <1>1, FilterInvInit, PTL DEF Spec

\* The variables of the trie and of a call keep their types, for every
\* dictionary and text: Filter never leaves the text, nor the trie.
THEOREM FilterTypeCorrect == Spec => []TypeOK
BY FilterInvariance, PTL DEF FilterInv, TrieInv

\* The links that createFailureStates builds breadth first lead to the longest
\* proper suffix in the trie, and the emit flags are right (actrie.go:280-319).
THEOREM FailureLinksAlways == Spec => []FailureLinks
<1>1. FilterInv => FailureLinks
  BY LinksRight DEF FilterInv
<1>2. QED
  BY <1>1, FilterInvariance, PTL

\* Filter writes '*' inside its text only (actrie.go:153-198).
THEOREM InBoundsAlways == Spec => []InBounds
BY FilterInvariance, PTL DEF FilterInv, CallInv

\* Filter masks what stands in the text as a beginning of a word, from there
\* to the end of a word, and nothing else: what n counts over symbols, failure
\* links and the step back is never more (actrie.go:153-198).
THEOREM MasksOnlyHitsAlways == Spec => []MasksOnlyHits
BY FilterInvariance, PTL DEF FilterInv, CoverInv

\* HasBlackWord answers what a search for every word would (actrie.go:201-256).
THEOREM HasBlackWordExactAlways == Spec => HasBlackWordExact
<1> DEFINE Hit == \E word \in Vocabulary : Places(word) # {}
           Exact == pc \in {"has", "hasFall"} /\ pc' = "done" => (found' <=> Hit)
<1>1. ASSUME FilterInv, Next
      PROVE  Exact
  <2>1. SUFFICES ASSUME pc \in {"has", "hasFall"}, pc' = "done"
                 PROVE  found' <=> Hit
    OBVIOUS
  <2>2. TrieInv /\ CallInv /\ InUse
    BY <1>1, <2>1 DEF FilterInv, InUse
  <2>3. CASE HasMove
    BY <2>1, <2>2, <2>3, HasMoveCall
  <2>4. CASE FilterEnd
    <3>1. pc = "has" /\ pos > Len(text) /\ UNCHANGED found
      <4>1. pc \in {"next", "has"} /\ pos > Len(text) /\ UNCHANGED call
        BY <2>4 DEF FilterEnd
      <4>2. QED
        BY <2>1, <4>1 DEF call
    <3>2. ~found /\ pos \in 1 .. Len(text) + 1 /\ Unmatched(pos - 1)
      BY <2>2, <3>1 DEF CallInv, AtHas
    <3>3. ASSUME NEW word \in Vocabulary, NEW place \in Places(word)
          PROVE  FALSE
      <4>1. /\ TypeOK /\ word \in isEmit /\ Len(text) \in Nat /\ pos \in Nat
        BY <2>2, Used DEF TrieInv
      <4>2. /\ place[2] \in 1 .. Len(text) /\ IsSuffix(word, SoFar(place[2]))
        BY <4>1, PlaceEnds DEF SoFar
      <4>3. place[2] \in 1 .. pos - 1
        BY <3>1, <4>1, <4>2
      <4>4. QED
        BY <3>2, <4>1, <4>2, <4>3 DEF Unmatched
    <3>4. ~Hit
      BY <3>3
    <3>5. QED
      BY <3>1, <3>2, <3>4
  <2>5. HasMove \/ FilterEnd
    BY <1>1, <2>1 DEF Next, Load, Create, AddLeaf, ErrNotASCII, AddKeyWord, CreateFailureStates,
       Pop, LinkFall, LinkHead, Link, Linked, Created, Constructed, Start, Filter, FilterNext,
       FilterMove, FilterFall, FilterEmit, HasBlackWord, HasNext, HasFall
  <2>6. QED
    BY <2>3, <2>4, <2>5
<1>2. FilterInv /\ [Next]_vars => [Exact]_vars
  BY <1>1
<1>3. QED
  BY <1>2, FilterInvariance, PTL DEF Spec, HasBlackWordExact

\* In a vocabulary of which no word lies in another except as its prefix,
\* Filter masks every place of every word (actrie.go:153-198).
THEOREM MasksAllUnlessNestedAlways == Spec => MasksAllUnlessNested
<1> DEFINE Masks == pc = "next" /\ pc' = "done"
                    /\ (\A word, other \in Vocabulary : ~Nested(word, other)) => MasksAll
<1>1. ASSUME FilterInv, Next
      PROVE  Masks
  <2>1. SUFFICES ASSUME pc = "next", pc' = "done",
                        \A word, other \in Vocabulary : ~Nested(word, other)
                 PROVE  MasksAll
    OBVIOUS
  <2>2. TrieInv /\ CallInv /\ MaskInv /\ InUse
    BY <1>1, <2>1 DEF FilterInv, InUse
  <2>3. FilterEnd
    BY <1>1, <2>1 DEF Next, Load, Create, AddLeaf, ErrNotASCII, AddKeyWord, CreateFailureStates,
       Pop, LinkFall, LinkHead, Link, Linked, Created, Constructed, Start, Filter, FilterNext,
       FilterMove, FilterFall, FilterEmit, HasBlackWord, HasNext, HasMove, HasFall
  <2>4. pos > Len(text) /\ pos \in Nat /\ Len(text) \in Nat
    BY <2>2, <2>3, Used DEF FilterEnd
  <2>5. AllMasked(pos - 1)
    BY <2>1, <2>2 DEF MaskInv, MaskNext, Unnested
  <2>6. ASSUME NEW word \in Vocabulary, NEW place \in Places(word)
        PROVE  place[1] .. place[2] \subseteq masked
    <3>1. place[2] \in 1 .. Len(text)
      BY <2>2, PlaceEnds DEF TrieInv
    <3>2. place[2] <= pos - 1
      BY <2>4, <3>1
    <3>3. QED
      BY <2>5, <3>2 DEF AllMasked
  <2>7. QED
    BY <2>6 DEF MasksAll
<1>2. FilterInv /\ [Next]_vars => [Masks]_vars
  BY <1>1
<1>3. QED
  BY <1>2, FilterInvariance, PTL DEF Spec, MasksAllUnlessNested

-----------------------------------------------------------------------------
(* The loops of a call end: a variant bounds their turns.  A place costs   *)
(* six turns at most, of which three are lent to the node: each step down  *)
(* a link gives them back, and so pays for the step back in the text.      *)

Calling == pc \in {"next", "fall", "emit", "has", "hasFall"}
Phase == CASE pc \in {"next", "has"} -> 5 [] pc \in {"fall", "hasFall"} -> 4 [] OTHER -> 0
Turns == IF Calling THEN 6 * (Len(text) - pos + 1) + 3 * Len(curr) + Phase ELSE 0

TurnsLeft == Turns \in 0 .. 6 * Len(text) + 5
TurnsCount == [][Calling => Turns' < Turns]_vars

LEMMA TurnsNow ==
  ASSUME TrieInv, CallInv, Calling
  PROVE  /\ pos \in 1 .. Len(text) + 1 /\ (pc \notin {"next", "has"} => pos <= Len(text))
         /\ Len(text) \in Nat /\ Len(curr) \in Nat
         /\ Turns = 6 * (Len(text) - pos + 1) + 3 * Len(curr) + Phase
         /\ Turns \in Nat \ {0}
<1>1. /\ Len(text) \in Nat /\ Len(curr) \in Nat /\ pos \in Nat
      /\ pc \in {"next", "fall", "emit", "has", "hasFall"}
  BY Used DEF Calling, InUse
<1>2. /\ pos \in 1 .. Len(text) + 1 /\ (pc \notin {"next", "has"} => pos <= Len(text))
  BY <1>1 DEF CallInv, AtNext, AtFall, AtEmit, AtHas, AtHasFall
<1>3. Turns = 6 * (Len(text) - pos + 1) + 3 * Len(curr) + Phase
  BY DEF Turns
<1>4. Phase \in Nat /\ (pc \in {"next", "has"} => Phase = 5)
  BY <1>1 DEF Phase
<1>5. QED
  BY <1>1, <1>2, <1>3, <1>4

\* Where a letter leads, by a move or a link.
LEMMA TurnsNode ==
  ASSUME TrieInv, CallInv, pc \in {"fall", "hasFall"}
  PROVE  /\ CanMove(curr, text[pos]) => /\ Len(NextState(curr, text[pos])) \in Nat
                                        /\ Len(NextState(curr, text[pos])) <= Len(curr) + 1
         /\ ~CanMove(curr, text[pos]) => /\ Len(failure[curr]) \in Nat
                                         /\ Len(failure[curr]) < Len(curr)
<1>1. /\ curr \in nodes /\ Len(curr) \in Nat /\ inited /\ at = 1 /\ Len(Root) = 0
  BY Used DEF InUse
<1>2. pos \in 1 .. Len(text) /\ text[pos] \in Letters /\ IsSuffix(curr, SoFar(pos - 1))
  BY DEF CallInv, AtFall, AtHasFall
<1>3. SoFar(pos - 1) \in Words
  BY <1>2, ReadOn DEF TrieInv
<1>4. ASSUME CanMove(curr, text[pos]), NEW to, to = NextState(curr, text[pos])
      PROVE  Len(to) \in Nat /\ Len(to) <= Len(curr) + 1
  <2>1. Len(to) = Len(curr) + 1 \/ to = Root
    BY <1>1, <1>2, <1>3, <1>4, MoveOn
  <2>2. QED
    BY <1>1, <2>1
<1>5. ASSUME ~CanMove(curr, text[pos]), NEW to, to = failure[curr]
      PROVE  Len(to) \in Nat /\ Len(to) < Len(curr)
  <2>1. to \in Words /\ Len(to) < Len(curr)
    BY <1>1, <1>2, <1>3, <1>5, FallBack
  <2>2. QED
    BY <2>1 DEF Words
<1>6. QED
  BY <1>4, <1>5

\* The turns left at place p of a text of length k.
LEMMA LeftIsNat ==
  ASSUME NEW k \in Nat, NEW p \in 1 .. k + 1, NEW l \in Nat, NEW f \in Nat
  PROVE  6 * (k - p + 1) + 3 * l + f \in Nat
OBVIOUS

LEMMA Spent ==
  ASSUME NEW k \in Nat, NEW p \in Int, NEW q \in Int, NEW l \in Nat, NEW m \in Nat,
         NEW f \in Nat, NEW g \in Nat,
         \/ q = p + 1 /\ 3 * m + g < 3 * l + f + 6
         \/ q = p     /\ 3 * m + g < 3 * l + f
         \/ q = p - 1 /\ 3 * m + g + 6 < 3 * l + f
  PROVE  6 * (k - q + 1) + 3 * m + g < 6 * (k - p + 1) + 3 * l + f
OBVIOUS

LEMMA TurnsNext ==
  ASSUME FilterInv'
  PROVE  Turns' \in Nat
<1>1. CASE Calling'
  <2>1. TypeOK' /\ CallInv'
    BY DEF FilterInv, TrieInv
  <2>2. text' \in Seq(Chars) /\ curr' \in Seq(Letters) /\ pos' \in Nat
    BY <2>1 DEF TypeOK
  <2>3. Len(text') \in Nat /\ Len(curr') \in Nat
    BY <2>2
  <2>4. pos' \in 1 .. Len(text') + 1
    BY <1>1, <2>1, <2>2, <2>3 DEF CallInv, AtNext, AtFall, AtEmit, AtHas, AtHasFall, Calling
  <2>5. Phase' \in Nat
    BY DEF Phase
  <2>6. Turns' = 6 * (Len(text') - pos' + 1) + 3 * Len(curr') + Phase'
    BY <1>1 DEF Turns
  <2>7. QED
    BY <2>3, <2>4, <2>5, <2>6, LeftIsNat
<1>2. CASE ~Calling'
  BY <1>2 DEF Turns
<1>3. QED
  BY <1>1, <1>2

LEMMA TurnsFall ==
  ASSUME FilterInv, FilterInv', Calling, Next
  PROVE  Turns' < Turns
<1>1. TrieInv /\ CallInv /\ TrieInv' /\ CallInv'
  BY DEF FilterInv
<1>2. /\ pos \in 1 .. Len(text) + 1 /\ (pc \notin {"next", "has"} => pos <= Len(text))
      /\ Len(text) \in Nat /\ Len(curr) \in Nat
      /\ Turns = 6 * (Len(text) - pos + 1) + 3 * Len(curr) + Phase /\ Turns \in Nat \ {0}
  BY <1>1, TurnsNow
<1>3. ~Calling' => Turns' = 0
  BY DEF Turns
<1>4. Calling' => Turns' = 6 * (Len(text') - pos' + 1) + 3 * Len(curr') + Phase'
  BY DEF Turns
<1>5. Phase \in Nat /\ Phase' \in Nat
  BY DEF Phase
<1>6. ASSUME text' = text, Calling', Len(curr') \in Nat,
             \/ pos' = pos + 1 /\ 3 * Len(curr') + Phase' < 3 * Len(curr) + Phase + 6
             \/ pos' = pos     /\ 3 * Len(curr') + Phase' < 3 * Len(curr) + Phase
             \/ pos' = pos - 1 /\ 3 * Len(curr') + Phase' + 6 < 3 * Len(curr) + Phase
      PROVE  Turns' < Turns
  <2>1. pos \in Int /\ pos' \in Int
    BY <1>2, <1>6
  <2>2. 6 * (Len(text) - pos' + 1) + 3 * Len(curr') + Phase'
          < 6 * (Len(text) - pos + 1) + 3 * Len(curr) + Phase
    BY <1>2, <1>5, <1>6, <2>1, Spent
  <2>3. Turns' = 6 * (Len(text) - pos' + 1) + 3 * Len(curr') + Phase'
    BY <1>4, <1>6
  <2>4. QED
    BY <1>2, <2>2, <2>3
<1>7. CASE FilterNext \/ HasNext
  <2>1. /\ text' = text /\ curr' = curr /\ Calling' /\ Phase = 5
        /\ (pos' = pos + 1 /\ Phase' = 5) \/ (pos' = pos /\ Phase' = 4)
    <3>1. /\ pc \in {"next", "has"} /\ text' = text /\ curr' = curr
          /\ (pos' = pos + 1 /\ pc' = pc) \/ (pos' = pos /\ pc' \in {"fall", "hasFall"})
      BY <1>7 DEF FilterNext, HasNext
    <3>2. QED
      BY <3>1 DEF Phase, Calling
  <2>2. CASE pos' = pos + 1 /\ Phase' = 5
    <3>1. 3 * Len(curr') + Phase' < 3 * Len(curr) + Phase + 6
      BY <1>2, <2>1, <2>2
    <3>2. QED
      BY <1>2, <1>6, <2>1, <2>2, <3>1
  <2>3. CASE pos' = pos /\ Phase' = 4
    <3>1. 3 * Len(curr') + Phase' < 3 * Len(curr) + Phase
      BY <1>2, <2>1, <2>3
    <3>2. QED
      BY <1>2, <1>6, <2>1, <2>3, <3>1
  <2>4. QED
    BY <2>1, <2>2, <2>3
<1>8. CASE FilterMove
  <2>1. /\ pc = "fall" /\ pc' = "emit" /\ text' = text /\ pos' = pos
        /\ curr' = NextState(curr, text[pos]) /\ CanMove(curr, text[pos])
    BY <1>8 DEF FilterMove
  <2>2. Phase = 4 /\ Phase' = 0 /\ Calling'
    BY <2>1 DEF Phase, Calling
  <2>3. Len(curr') \in Nat /\ Len(curr') <= Len(curr) + 1
    BY <1>1, <2>1, TurnsNode
  <2>4. 3 * Len(curr') + Phase' < 3 * Len(curr) + Phase
    BY <1>2, <2>1, <2>2, <2>3
  <2>5. QED
    BY <1>6, <2>1, <2>2, <2>3, <2>4
<1>9. CASE FilterFall \/ HasFall
  <2>1. /\ text' = text /\ curr' = failure[curr] /\ ~CanMove(curr, text[pos])
        /\ pc \in {"fall", "hasFall"}
        /\ (pos' = pos - 1 /\ pc' = "emit") \/ (pos' = pos /\ pc' = pc)
    BY <1>9 DEF FilterFall, HasFall
  <2>2. Phase = 4 /\ (pc' = "emit" => Phase' = 0) /\ (pc' = pc => Phase' = 4) /\ Calling'
    BY <2>1 DEF Phase, Calling
  <2>3. Len(curr') \in Nat /\ Len(curr') < Len(curr)
    BY <1>1, <2>1, TurnsNode
  <2>4. CASE pos' = pos - 1 /\ pc' = "emit"
    <3>1. 3 * Len(curr') + Phase' + 6 < 3 * Len(curr) + Phase
      BY <1>2, <2>2, <2>3, <2>4
    <3>2. QED
      BY <1>6, <2>1, <2>2, <2>3, <3>1
  <2>5. CASE pos' = pos /\ pc' = pc
    <3>1. 3 * Len(curr') + Phase' < 3 * Len(curr) + Phase
      BY <1>2, <2>2, <2>3, <2>5
    <3>2. QED
      BY <1>6, <2>1, <2>2, <2>3, <3>1
  <2>6. QED
    BY <2>1, <2>4, <2>5
<1>10. CASE FilterEmit
  <2>1. pc = "emit" /\ text' = text /\ curr' = curr /\ pos' = pos + 1 /\ pc' = "next"
    BY <1>10 DEF FilterEmit
  <2>2. Phase = 0 /\ Phase' = 5 /\ Calling'
    BY <2>1 DEF Phase, Calling
  <2>3. 3 * Len(curr') + Phase' < 3 * Len(curr) + Phase + 6
    BY <1>2, <2>1, <2>2
  <2>4. QED
    BY <1>2, <1>6, <2>1, <2>2, <2>3
<1>11. CASE HasMove
  <2>1. /\ pc = "hasFall" /\ text' = text
        /\ curr' = NextState(curr, text[pos]) /\ CanMove(curr, text[pos])
        /\ pc' = "done" \/ (pc' = "has" /\ pos' = pos + 1)
    BY <1>11 DEF HasMove
  <2>2. CASE pc' = "done"
    BY <1>2, <1>3, <2>2 DEF Calling
  <2>3. CASE pc' = "has" /\ pos' = pos + 1
    <3>1. Phase = 4 /\ Phase' = 5 /\ Calling'
      BY <2>1, <2>3 DEF Phase, Calling
    <3>2. Len(curr') \in Nat /\ Len(curr') <= Len(curr) + 1
      BY <1>1, <2>1, TurnsNode
    <3>3. 3 * Len(curr') + Phase' < 3 * Len(curr) + Phase + 6
      BY <1>2, <3>1, <3>2
    <3>4. QED
      BY <1>6, <2>1, <2>3, <3>1, <3>2, <3>3
  <2>4. QED
    BY <2>1, <2>2, <2>3
<1>12. CASE FilterEnd
  BY <1>2, <1>3, <1>12 DEF FilterEnd, Calling
<1>13. CASE Load \/ Create \/ Start
  BY <1>13 DEF Calling, Load, Create, AddLeaf, ErrNotASCII, AddKeyWord, CreateFailureStates,
     Pop, LinkFall, LinkHead, Link, Linked, Created, Constructed, Start
<1>14. QED
  BY <1>7, <1>8, <1>9, <1>10, <1>11, <1>12, <1>13 DEF Next, Filter, HasBlackWord

\* A call starts with six turns for each place and five more, and is over
\* when they are spent: Filter and HasBlackWord take time linear in the length
\* of the text, whatever the dictionary (actrie.go:153-256).
THEOREM CallBounded == Spec => []TurnsLeft
<1>1. Init => TurnsLeft
  BY DEF Init, TurnsLeft, Turns, Calling
<1>2. FilterInv /\ FilterInv' /\ TurnsLeft /\ [Next]_vars => TurnsLeft'
  <2>1. SUFFICES ASSUME FilterInv, FilterInv', TurnsLeft, [Next]_vars
                 PROVE  TurnsLeft'
    OBVIOUS
  <2>2. TrieInv /\ CallInv /\ TrieInv' /\ CallInv' /\ Len(text') \in Nat /\ Len(text) \in Nat
    <3>1. TrieInv /\ CallInv /\ TrieInv' /\ CallInv'
      BY <2>1 DEF FilterInv
    <3>2. text \in Seq(Chars) /\ text' \in Seq(Chars)
      BY <3>1 DEF TrieInv, TypeOK
    <3>3. QED
      BY <3>1, <3>2
  <2>3. CASE ~Calling'
    BY <2>2, <2>3 DEF TurnsLeft, Turns
  <2>4. CASE UNCHANGED vars
    <3>1. UNCHANGED <<pc, text, pos, curr>>
      BY <2>4 DEF vars, call
    <3>2. Phase' = Phase /\ Calling' = Calling
      BY <3>1 DEF Phase, Calling
    <3>3. Turns' = Turns
      BY <3>1, <3>2 DEF Turns
    <3>4. Turns \in 0 .. 6 * Len(text) + 5 /\ text' = text
      BY <2>1, <3>1 DEF TurnsLeft
    <3>5. Turns' \in 0 .. 6 * Len(text') + 5
      BY <3>3, <3>4
    <3>6. QED
      BY <3>5 DEF TurnsLeft
  <2>5. CASE Calling /\ Next /\ Calling'
    <3>1. Turns' \in Nat /\ Turns' < Turns
      BY <2>1, <2>5, TurnsFall, TurnsNext
    <3>2. text' = text
      BY <2>5 DEF Calling, Next, Load, Create, AddLeaf, ErrNotASCII, AddKeyWord,
         CreateFailureStates, Pop, LinkFall, LinkHead, Link, Linked, Created, Constructed, Start,
         Filter, FilterNext, FilterMove, FilterFall, FilterEmit, HasBlackWord, HasNext, HasMove,
         HasFall, FilterEnd, call
    <3>3. QED
      BY <2>1, <2>2, <3>1, <3>2 DEF TurnsLeft
  <2>6. CASE ~Calling /\ Next /\ Calling'
    <3>1. Start
      BY <2>6 DEF Calling, Next, Load, Create, AddLeaf, ErrNotASCII, AddKeyWord,
         CreateFailureStates, Pop, LinkFall, LinkHead, Link, Linked, Created, Constructed,
         Filter, FilterNext, FilterMove, FilterFall, FilterEmit, HasBlackWord, HasNext, HasMove,
         HasFall, FilterEnd
    <3>2. pos' = 1 /\ curr' = Root /\ pc' \in {"next", "has"}
      BY <2>2, <3>1 DEF Start, CallInv, Idle
    <3>3. Phase' = 5 /\ Len(Root) = 0
      BY <3>2 DEF Phase, Root
    <3>4. Turns' = 6 * (Len(text') - 1 + 1) + 3 * Len(Root) + 5
      BY <2>6, <3>2, <3>3 DEF Turns
    <3>5. Turns' \in 0 .. 6 * Len(text') + 5
      BY <2>2, <3>3, <3>4
    <3>6. QED
      BY <3>5 DEF TurnsLeft
  <2>7. QED
    BY <2>1, <2>3, <2>4, <2>5, <2>6
<1>3. QED
  BY <1>1, <1>2, FilterInvariance, PTL DEF Spec

\* Each turn of a loop of Filter or HasBlackWord spends one, also the one that
\* steps back in the text (actrie.go:173).
THEOREM TurnsCountAlways == Spec => TurnsCount
<1>1. FilterInv /\ FilterInv' /\ [Next]_vars => [Calling => Turns' < Turns]_vars
  BY TurnsFall
<1>2. QED
  BY <1>1, FilterInvariance, PTL DEF Spec, TurnsCount

===============================================================================
