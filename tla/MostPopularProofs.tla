--------------------------- MODULE MostPopularProofs ---------------------------
(***************************************************************************)
(* What module MostPopular says of the most frequent recent word, proved   *)
(* for any words, durations and windows.                                   *)
(***************************************************************************)
EXTENDS MostPopular, TLAPS, FiniteSetTheorems, WellFoundedInduction

\* The words are recorded in the order of time, and none later than now.
Chronicle ==
  /\ \A i, j \in DOMAIN recorded : i <= j => recorded[i].at <= recorded[j].at
  /\ \A i \in DOMAIN recorded : recorded[i].at <= now

\* The queue is the end of the record, from the horizon on.  The last check of
\* Record moved the horizon at least to Hold before it, and no call moved it
\* past the present.
Kept ==
  /\ \E k \in 0 .. Len(recorded) :
       /\ wordsQueue = SubSeq(recorded, k + 1, Len(recorded))
       /\ \A i \in DOMAIN recorded : recorded[i].at >= horizon <=> i > k
  /\ horizon >= lastCheckAt - Hold
  /\ horizon <= now /\ lastCheckAt <= now

Counted == \A w \in Words : wordsFreqMap[w] = Count(wordsQueue, w)

\* Stale or not, maxFreq bounds every count.
MaxBounds == \A w \in Words : wordsFreqMap[w] <= maxFreq

\* top is a most frequent word, and max its count.
Sound(freq, max, top) ==
  top \in MostOf(freq) /\ max = IF top = NoWord THEN 0 ELSE freq[top]

PopularInv == TypeOK /\ Chronicle /\ Kept /\ Counted /\ MaxBounds /\ CacheSound

-----------------------------------------------------------------------------
(* Counting in a part of a sequence.                                       *)

LEMMA Positions ==
  ASSUME NEW q \in Seq(Entry), NEW S \in SUBSET DOMAIN q
  PROVE  IsFiniteSet(S) /\ Cardinality(S) \in Nat
<1>1. Len(q) \in Int /\ DOMAIN q = 1 .. Len(q)
  OBVIOUS
<1>2. IsFiniteSet(1 .. Len(q))
  BY <1>1, FS_Interval
<1>3. IsFiniteSet(S)
  BY <1>1, <1>2, FS_Subset
<1>4. QED
  BY <1>3, FS_CardinalityType

LEMMA EntryType ==
  ASSUME NEW q \in Seq(Entry), NEW i \in DOMAIN q
  PROVE  q[i] \in Entry /\ q[i].word \in Words /\ q[i].at \in Int /\ q[i].at <= MaxTime
<1>1. q[i] \in Entry
  OBVIOUS
<1>2. 0 .. MaxTime \subseteq Int
  OBVIOUS
<1>3. QED
  BY <1>1, <1>2, MostPopularAssumption DEF Entry

LEMMA CountType ==
  ASSUME NEW q \in Seq(Entry), NEW w
  PROVE  /\ Count(q, w) \in Nat
         /\ Count(q, w) = 0 <=> \A i \in DOMAIN q : q[i].word # w
<1> DEFINE s == { i \in DOMAIN q : q[i].word = w }
<1>1. IsFiniteSet(s) /\ Cardinality(s) \in Nat
  BY Positions
<1>2. Cardinality(s) = 0 <=> s = {}
  BY <1>1, FS_EmptySet
<1>3. s = {} <=> \A i \in DOMAIN q : q[i].word # w
  OBVIOUS
<1>4. QED
  BY <1>1, <1>2, <1>3 DEF Count

LEMMA CountAppend ==
  ASSUME NEW q \in Seq(Entry), NEW e \in Entry, NEW w
  PROVE  Count(Append(q, e), w) = Count(q, w) + (IF e.word = w THEN 1 ELSE 0)
<1> DEFINE s == { i \in DOMAIN q : q[i].word = w }
           t == { i \in DOMAIN Append(q, e) : Append(q, e)[i].word = w }
<1>1. IsFiniteSet(s) /\ Cardinality(s) \in Nat /\ Len(q) + 1 \notin s
  BY Positions
<1>2. t = IF e.word = w THEN s \cup {Len(q) + 1} ELSE s
  OBVIOUS
<1>3. Cardinality(s \cup {Len(q) + 1}) = Cardinality(s) + 1
  <2> HIDE DEF s
  <2>1. QED
    BY <1>1, FS_AddElement
<1>4. Count(q, w) = Cardinality(s) /\ Count(Append(q, e), w) = Cardinality(t)
  BY DEF Count
<1> HIDE DEF s, t
<1>5. QED
  BY <1>1, <1>2, <1>3, <1>4

LEMMA Behind ==
  ASSUME NEW q \in Seq(Entry), NEW k \in 0 .. Len(q)
  PROVE  /\ SubSeq(q, k + 1, Len(q)) \in Seq(Entry)
         /\ Len(SubSeq(q, k + 1, Len(q))) = Len(q) - k
         /\ \A i \in 1 .. Len(SubSeq(q, k + 1, Len(q))) :
              SubSeq(q, k + 1, Len(q))[i] = q[k + i]
BY SMTT(30)

\* The words behind the first k.
LEMMA CountBehind ==
  ASSUME NEW q \in Seq(Entry), NEW k \in 0 .. Len(q), NEW w
  PROVE  Count(SubSeq(q, k + 1, Len(q)), w)
           = Cardinality({ i \in DOMAIN q : q[i].word = w /\ i > k })
<1> DEFINE p == SubSeq(q, k + 1, Len(q))
           s == { i \in DOMAIN p : p[i].word = w }
           t == { i \in DOMAIN q : q[i].word = w /\ i > k }
           f == [i \in s |-> i + k]
<1>1. p \in Seq(Entry) /\ Len(p) = Len(q) - k /\ \A i \in 1 .. Len(p) : p[i] = q[i + k]
  BY Behind
<1>2. IsFiniteSet(s)
  BY <1>1, Positions
<1>3. \A i \in s : i \in Nat /\ i + k \in t
  BY <1>1
<1>4. \A j \in t : j - k \in s /\ (j - k) + k = j
  BY <1>1
<1> HIDE DEF p, s, t
<1>5. f \in Bijection(s, t)
  <2>1. \A i \in s : f[i] = i + k
    OBVIOUS
  <2>2. f \in Injection(s, t)
    BY <1>3, <2>1 DEF Injection, IsInjective
  <2>3. f \in Surjection(s, t)
    BY <1>3, <1>4, <2>1 DEF Surjection
  <2>4. QED
    BY <2>2, <2>3 DEF Bijection
<1>6. ExistsBijection(s, t)
  BY <1>5 DEF ExistsBijection
<1>7. Cardinality(t) = Cardinality(s)
  BY <1>2, <1>6, FS_Bijection
<1>8. QED
  BY <1>7 DEF Count, p, s, t

LEMMA CountSplit ==
  ASSUME NEW q \in Seq(Entry), NEW k \in 0 .. Len(q), NEW w
  PROVE  Count(q, w) = Count(SubSeq(q, 1, k), w) + Count(SubSeq(q, k + 1, Len(q)), w)
<1> DEFINE p == SubSeq(q, 1, k)
           s == { i \in DOMAIN p : p[i].word = w }
           t == { i \in DOMAIN q : q[i].word = w /\ i > k }
           u == { i \in DOMAIN q : q[i].word = w }
<1>1. p \in Seq(Entry) /\ Len(p) = k /\ \A i \in 1 .. k : p[i] = q[i]
  OBVIOUS
<1>2. u = s \cup t /\ s \cap t = {}
  BY <1>1
<1>3. IsFiniteSet(s) /\ IsFiniteSet(t) /\ Cardinality(s) \in Nat /\ Cardinality(t) \in Nat
  BY Positions, <1>1
<1>4. Cardinality(u) = Cardinality(s) + Cardinality(t)
  <2> HIDE DEF s, t, u
  <2>1. Cardinality(u) = Cardinality(s) + Cardinality(t) - Cardinality({})
    BY <1>2, <1>3, FS_Union
  <2>2. QED
    BY <1>3, <2>1, FS_EmptySet
<1>5. Cardinality(t) = Count(SubSeq(q, k + 1, Len(q)), w)
  BY CountBehind
<1>6. Cardinality(u) = Count(q, w) /\ Cardinality(s) = Count(p, w)
  BY DEF Count
<1>7. QED
  <2> HIDE DEF s, t, u
  <2>1. QED
    BY <1>4, <1>5, <1>6

-----------------------------------------------------------------------------
(* checkPos.                                                               *)

\* There is a first entry that is not older, or none is left.
LEMMA ExpiredType ==
  ASSUME NEW q \in Seq(Entry), NEW past \in Int
  PROVE  /\ Expired(q, past) \in 0 .. Len(q)
         /\ \A i \in 1 .. Expired(q, past) : q[i].at < past
         /\ Expired(q, past) < Len(q) => q[Expired(q, past) + 1].at >= past
<1> DEFINE R == { ss \in Nat \X Nat : ss[1] < ss[2] }
           T == { k \in 0 .. Len(q) : k < Len(q) => q[k + 1].at >= past }
           P(k) == /\ \A i \in 1 .. k : q[i].at < past
                   /\ k < Len(q) => q[k + 1].at >= past
<1>1. IsWellFoundedOn(R, Nat)
  BY NatLessThanWellFounded DEF OpToRel
<1>2. \A x, y \in Nat : y < x => <<y, x>> \in R
  OBVIOUS
<1>3. Len(q) \in T /\ T \subseteq Nat
  OBVIOUS
<1>4. PICK k \in T : \A y \in T : ~(<<y, k>> \in R)
  <2> HIDE DEF R, T
  <2>1. QED
    BY <1>1, <1>3, WFMin
<1>5. \A y \in T : ~(y < k)
  BY <1>2, <1>3, <1>4
<1>6. k \in 0 .. Len(q) /\ P(k)
  <2>1. ASSUME NEW i \in 1 .. k
        PROVE  q[i].at < past
    <3>1. i \in 1 .. Len(q) /\ q[i].at \in Int
      BY EntryType
    <3>2. i - 1 \in 0 .. Len(q) /\ i - 1 < k /\ i - 1 < Len(q)
      OBVIOUS
    <3>3. i - 1 \notin T
      BY <1>5, <3>2
    <3>4. ~(q[i - 1 + 1].at >= past)
      BY <3>2, <3>3
    <3>5. QED
      BY <3>1, <3>4
  <2>2. QED
    BY <2>1
<1> HIDE DEF P
<1>7. Expired(q, past) = CHOOSE x \in 0 .. Len(q) : P(x)
  BY DEF Expired, P
<1>8. Expired(q, past) \in 0 .. Len(q) /\ P(Expired(q, past))
  BY <1>6, <1>7
<1>9. QED
  BY <1>8 DEF P

\* Its effect on the counts, and on the cached answer when none of the words
\* that go was one of the most frequent.
LEMMA Evicting ==
  ASSUME NEW q \in Seq(Entry), NEW freq \in [Words -> Nat], NEW max \in Nat,
         NEW past \in Int, NEW top \in Words \cup {NoWord},
         \A w \in Words : freq[w] = Count(q, w) /\ freq[w] <= max
  PROVE  /\ QueueAfter(q, past) \in Seq(Entry)
         /\ FreqAfter(q, freq, past) \in [Words -> Nat]
         /\ \A w \in Words : /\ FreqAfter(q, freq, past)[w] = Count(QueueAfter(q, past), w)
                             /\ FreqAfter(q, freq, past)[w] <= freq[w]
         /\ Sound(freq, max, top) /\ ~TopHit(q, freq, max, past)
              => Sound(FreqAfter(q, freq, past), max, top)
<1> DEFINE k == Expired(q, past)
           front == SubSeq(q, 1, k)
           back == QueueAfter(q, past)
           after == FreqAfter(q, freq, past)
<1>1. k \in 0 .. Len(q)
  BY ExpiredType
<1>2. /\ back = SubSeq(q, k + 1, Len(q)) /\ back \in Seq(Entry) /\ front \in Seq(Entry)
      /\ Len(front) = k /\ \A i \in 1 .. k : front[i] = q[i]
  BY <1>1 DEF QueueAfter
<1>3. after = [w \in Words |-> freq[w] - Count(front, w)]
  BY DEF FreqAfter
<1> HIDE DEF k, front, back, after
<1>4. ASSUME NEW w \in Words
      PROVE  /\ Count(front, w) \in Nat /\ Count(back, w) \in Nat
             /\ freq[w] = Count(front, w) + Count(back, w)
  <2>1. Count(front, w) \in Nat /\ Count(back, w) \in Nat
    BY <1>2, CountType
  <2>2. Count(q, w) = Count(front, w) + Count(back, w)
    BY <1>1, <1>2, CountSplit DEF front
  <2>3. QED
    BY <1>4, <2>1, <2>2
<1>5. \A w \in Words : /\ after[w] = freq[w] - Count(front, w)
                       /\ after[w] = Count(back, w) /\ after[w] <= freq[w] /\ after[w] \in Nat
  BY <1>3, <1>4
<1>6. after \in [Words -> Nat]
  BY <1>3, <1>5
<1>7. ASSUME Sound(freq, max, top), ~TopHit(q, freq, max, past)
      PROVE  Sound(after, max, top)
  <2>1. CASE top = NoWord
    <3>1. \A w \in Words : freq[w] = 0
      BY <1>7, <2>1, MostPopularAssumption DEF Sound, MostOf
    <3>2. \A w \in Words : after[w] = 0
      BY <1>5, <3>1
    <3>3. QED
      BY <1>7, <2>1, <3>2 DEF Sound, MostOf
  <2>2. CASE top # NoWord
    <3>1. top \in Words /\ max = freq[top] /\ freq[top] # 0
      BY <1>7, <2>2 DEF Sound, MostOf
    <3>2. \A i \in 1 .. k : ~(freq[q[i].word] >= max)
      BY <1>7 DEF TopHit, k
    <3>3. \A i \in DOMAIN front : front[i].word # top
      <4>1. ~(freq[top] >= max) => FALSE
        BY <3>1
      <4>2. QED
        BY SMTT(30), <1>2, <3>2, <4>1
    <3>4. after[top] = freq[top]
      <4>1. Count(front, top) = 0
        BY <1>2, <3>3, CountType
      <4>2. QED
        BY <1>5, <3>1, <4>1
    <3>5. \A w \in Words : after[w] <= after[top]
      BY <1>5, <3>1, <3>4
    <3>6. QED
      BY <2>2, <3>1, <3>4, <3>5 DEF Sound, MostOf
  <2>3. QED
    BY <2>1, <2>2
<1>8. QED
  BY <1>2, <1>5, <1>6, <1>7 DEF back, after

\* Its effect on a queue that is the end of the record.
LEMMA EvictingKeeps ==
  ASSUME NEW rec \in Seq(Entry), NEW h \in Int, NEW past \in Int, NEW k \in 0 .. Len(rec),
         \A i, j \in DOMAIN rec : i <= j => rec[i].at <= rec[j].at,
         \A i \in DOMAIN rec : rec[i].at >= h <=> i > k
  PROVE  \E m \in 0 .. Len(rec) :
           /\ QueueAfter(SubSeq(rec, k + 1, Len(rec)), past) = SubSeq(rec, m + 1, Len(rec))
           /\ \A i \in DOMAIN rec : rec[i].at >= Larger(h, past) <=> i > m
<1> DEFINE q == SubSeq(rec, k + 1, Len(rec))
           x == Expired(q, past)
           m == k + x
<1>1. /\ q \in Seq(Entry) /\ Len(q) = Len(rec) - k
      /\ \A i \in 1 .. Len(q) : q[i] = rec[k + i]
  BY Behind
<1>2. /\ x \in 0 .. Len(q) /\ \A i \in 1 .. x : q[i].at < past
      /\ x < Len(q) => q[x + 1].at >= past
  BY <1>1, ExpiredType
<1>3. \A i \in DOMAIN rec : rec[i].at \in Int
  BY EntryType
<1>4. m \in 0 .. Len(rec)
  BY <1>1, <1>2
<1>5. QueueAfter(q, past) = SubSeq(rec, m + 1, Len(rec))
  <2> HIDE DEF x
  <2> DEFINE a == SubSeq(q, x + 1, Len(q))
             b == SubSeq(rec, k + x + 1, Len(rec))
  <2>1. /\ a \in Seq(Entry) /\ Len(a) = Len(q) - x
        /\ \A i \in 1 .. Len(a) : a[i] = q[x + i]
    <3> HIDE DEF q
    <3>1. QED
      BY <1>1, <1>2, Behind
  <2>2. /\ b \in Seq(Entry) /\ Len(b) = Len(rec) - (k + x)
        /\ \A i \in 1 .. Len(b) : b[i] = rec[k + x + i]
    BY <1>4, Behind
  <2> HIDE DEF a, b, q
  <2>3. \A i \in 1 .. Len(a) : a[i] = b[i]
    BY SMTT(30), <1>1, <1>2, <2>1, <2>2
  <2>4. a = b
    <3>1. Len(a) = Len(b)
      BY <1>1, <1>2, <2>1, <2>2
    <3>2. QED
      BY <2>1, <2>2, <2>3, <3>1
  <2>5. QED
    BY <2>4 DEF QueueAfter, x, a, b
<1> HIDE DEF q, x
<1>6. ASSUME NEW i \in DOMAIN rec
      PROVE  rec[i].at >= Larger(h, past) <=> i > m
  <2>1. CASE i <= k
    BY <1>2, <1>3, <2>1 DEF Larger
  <2>2. CASE i > k /\ i <= m
    <3>1. i - k \in 1 .. x /\ q[i - k] = rec[i]
      BY SMTT(30), <1>1, <1>2, <2>2
    <3>2. rec[i].at < past
      BY <1>2, <3>1
    <3>3. rec[i].at >= h
      BY <2>2
    <3>4. QED
      BY <1>3, <1>4, <2>2, <3>2, <3>3 DEF Larger
  <2>3. CASE i > m
    <3>1. x < Len(q) /\ x + 1 \in 1 .. Len(q) /\ m + 1 \in DOMAIN rec /\ q[x + 1] = rec[m + 1]
      BY <1>1, <1>2, <2>3
    <3>2. rec[m + 1].at >= past
      BY <1>2, <3>1
    <3>3. rec[i].at >= past
      BY SMTT(30), <1>2, <1>3, <2>3, <3>1, <3>2
    <3>4. rec[i].at >= h
      BY <1>2, <2>3
    <3>5. QED
      BY <2>3, <3>3, <3>4 DEF Larger
  <2>4. QED
    BY <1>2, <2>1, <2>2, <2>3
<1>7. QED
  BY <1>4, <1>5, <1>6 DEF q

-----------------------------------------------------------------------------
(* The steps.                                                              *)

LEMMA RecordStep ==
  ASSUME PopularInv, NEW w \in Words, Record(w)
  PROVE  PopularInv'
<1> DEFINE entry == [word |-> w, at |-> now]
           queue == Append(wordsQueue, entry)
           freq == [wordsFreqMap EXCEPT ![w] = @ + 1]
           isTop == freq[w] > maxFreq
           past == now - Hold
<1>1. /\ entry \in Entry /\ queue \in Seq(Entry) /\ past \in Int /\ now \in Int
      /\ entry.at = now /\ horizon \in Int /\ lastCheckAt \in Int /\ lastCheckAt <= MaxTime
  BY MostPopularAssumption DEF PopularInv, TypeOK, Entry
<1>2. /\ freq \in [Words -> Nat]
      /\ \A v \in Words : freq[v] = IF v = w THEN wordsFreqMap[v] + 1 ELSE wordsFreqMap[v]
  BY DEF PopularInv, TypeOK
<1>3. /\ maxFreq' = IF isTop THEN freq[w] ELSE maxFreq
      /\ topWord' = IF isTop THEN w ELSE topWord
      /\ maxFreq' \in Nat /\ topWord' \in Words \cup {NoWord}
  BY <1>2 DEF Record, PopularInv, TypeOK
<1>4. \A v \in Words : freq[v] = Count(queue, v)
  <2>1. \A v \in Words : Count(queue, v) = Count(wordsQueue, v) + (IF w = v THEN 1 ELSE 0)
    BY <1>1, CountAppend DEF PopularInv, TypeOK
  <2>2. \A v \in Words : wordsFreqMap[v] \in Nat /\ wordsFreqMap[v] = Count(wordsQueue, v)
    BY DEF PopularInv, TypeOK, Counted
  <2> HIDE DEF queue, freq
  <2>3. QED
    BY <1>2, <2>1, <2>2
<1>5. \A v \in Words : freq[v] <= maxFreq'
  <2>1. \A v \in Words : wordsFreqMap[v] \in Nat /\ wordsFreqMap[v] <= maxFreq /\ maxFreq \in Nat
    BY DEF PopularInv, TypeOK, MaxBounds
  <2> HIDE DEF freq
  <2>2. QED
    BY <1>2, <1>3, <2>1
\* A word that becomes the top one makes the answer right again.
<1>6. ~needCalc \/ isTop => Sound(freq, maxFreq', topWord')
  <2>1. \A v \in Words : wordsFreqMap[v] \in Nat /\ wordsFreqMap[v] <= maxFreq /\ maxFreq \in Nat
    BY DEF PopularInv, TypeOK, MaxBounds
  <2>2. CASE isTop
    <3> HIDE DEF freq
    <3>1. topWord' = w /\ w # NoWord /\ maxFreq' = freq[w] /\ freq[w] # 0
      BY <1>2, <1>3, <2>1, <2>2, MostPopularAssumption
    <3>2. QED
      BY <1>5, <3>1 DEF Sound, MostOf
  <2>3. CASE ~needCalc /\ ~isTop
    <3>1. Sound(wordsFreqMap, maxFreq, topWord)
      BY <2>3 DEF PopularInv, CacheSound, Sound
    <3>2. topWord' = topWord /\ maxFreq' = maxFreq
      BY <1>3, <2>3
    <3> HIDE DEF freq
    <3>3. topWord # NoWord
      BY <1>2, <2>1, <2>3, <3>1 DEF Sound
    <3>4. topWord \in Words /\ maxFreq = wordsFreqMap[topWord] /\ topWord # w
      BY <1>2, <2>1, <2>3, <3>1, <3>3 DEF Sound, MostOf
    <3>5. freq[topWord] = maxFreq
      BY <1>2, <3>4
    <3>6. freq[w] # 0
      BY <1>2, <2>1
    <3>7. QED
      BY <1>5, <3>2, <3>3, <3>4, <3>5, <3>6 DEF Sound, MostOf
  <2>4. QED
    BY <2>2, <2>3
<1>7. recorded' = Append(recorded, entry) /\ recorded' \in Seq(Entry) /\ now' = now
  BY <1>1 DEF Record, PopularInv, TypeOK
<1>8. Chronicle'
  <2>1. /\ Len(recorded') = Len(recorded) + 1 /\ recorded'[Len(recorded) + 1].at = now
        /\ \A i \in DOMAIN recorded : recorded'[i] = recorded[i]
    BY <1>1, <1>7 DEF PopularInv, TypeOK
  <2>2. /\ \A i, j \in DOMAIN recorded : i <= j => recorded[i].at <= recorded[j].at
        /\ \A i \in DOMAIN recorded : recorded[i].at <= now
    BY DEF PopularInv, Chronicle
  <2>3. DOMAIN recorded = 1 .. Len(recorded) /\ DOMAIN recorded' = 1 .. Len(recorded')
        /\ Len(recorded) \in Nat
    BY <1>7 DEF PopularInv, TypeOK
  <2>4. \A i \in DOMAIN recorded' : i \in DOMAIN recorded \/ i = Len(recorded) + 1
    BY <2>1, <2>3
  <2>5. \A i \in DOMAIN recorded' : recorded'[i].at <= now
    BY <1>1, <2>1, <2>2, <2>4
  <2>6. \A i, j \in DOMAIN recorded' : i <= j => recorded'[i].at <= recorded'[j].at
    <3> SUFFICES ASSUME NEW i \in DOMAIN recorded', NEW j \in DOMAIN recorded', i <= j
                 PROVE  recorded'[i].at <= recorded'[j].at
      OBVIOUS
    <3>1. CASE j = Len(recorded) + 1
      BY <2>1, <2>5, <3>1
    <3>2. CASE j # Len(recorded) + 1
      <4>1. i \in DOMAIN recorded /\ j \in DOMAIN recorded
        BY <2>1, <2>3, <2>4, <3>2
      <4>2. QED
        BY <2>1, <2>2, <4>1
    <3>3. QED
      BY <3>1, <3>2
  <2>7. QED
    BY <1>7, <2>5, <2>6 DEF Chronicle
<1>9. PICK k \in 0 .. Len(recorded') :
         /\ queue = SubSeq(recorded', k + 1, Len(recorded'))
         /\ \A i \in DOMAIN recorded' : recorded'[i].at >= horizon <=> i > k
  <2>1. PICK k \in 0 .. Len(recorded) :
           /\ wordsQueue = SubSeq(recorded, k + 1, Len(recorded))
           /\ \A i \in DOMAIN recorded : recorded[i].at >= horizon <=> i > k
    BY DEF PopularInv, Kept
  <2>2. recorded \in Seq(Entry) /\ horizon <= now
    BY DEF PopularInv, TypeOK, Kept
  <2>3. queue = SubSeq(recorded', k + 1, Len(recorded'))
    <3>1. /\ SubSeq(recorded', k + 1, Len(recorded')) \in Seq(Entry)
          /\ Len(SubSeq(recorded', k + 1, Len(recorded'))) = Len(recorded) + 1 - k
          /\ \A i \in 1 .. Len(recorded) + 1 - k :
               SubSeq(recorded', k + 1, Len(recorded'))[i] = recorded'[k + i]
      <4> DEFINE rec == recorded'
      <4>1. rec \in Seq(Entry) /\ Len(rec) = Len(recorded) + 1 /\ k \in 0 .. Len(rec)
        BY <1>1, <1>7, <2>1, <2>2
      <4> HIDE DEF rec
      <4>2. /\ SubSeq(rec, k + 1, Len(rec)) \in Seq(Entry)
            /\ Len(SubSeq(rec, k + 1, Len(rec))) = Len(rec) - k
            /\ \A i \in 1 .. Len(rec) - k : SubSeq(rec, k + 1, Len(rec))[i] = rec[k + i]
        BY <4>1
      <4>3. Len(rec) - k = Len(recorded) + 1 - k
        BY <4>1
      <4>4. QED
        BY <4>2, <4>3 DEF rec
    <3>2. /\ Len(wordsQueue) = Len(recorded) - k
          /\ \A i \in 1 .. Len(recorded) - k : wordsQueue[i] = recorded[k + i]
      BY <2>1, <2>2
    <3>3. wordsQueue \in Seq(Entry)
      BY DEF PopularInv, TypeOK
    <3>4. Len(queue) = Len(recorded) + 1 - k
      BY <1>1, <2>1, <3>2, <3>3
    <3>5. \A i \in 1 .. Len(recorded) + 1 - k : queue[i] = recorded'[k + i]
      <4>1. ASSUME NEW i \in 1 .. Len(recorded) - k
            PROVE  queue[i] = recorded'[k + i]
        <5>1. queue[i] = wordsQueue[i]
          BY <1>1, <2>1, <2>2, <3>2, <3>3, <4>1
        <5>2. recorded'[k + i] = recorded[k + i]
          BY <1>1, <1>7, <2>1, <2>2, <4>1
        <5>3. QED
          BY <3>2, <5>1, <5>2
      <4>2. queue[Len(recorded) + 1 - k] = entry
        BY <1>1, <2>1, <2>2, <3>2, <3>3
      <4>3. recorded'[Len(recorded) + 1] = entry
        BY <1>1, <1>7, <2>2
      <4> HIDE DEF queue, entry
      <4>4. \A i \in 1 .. Len(recorded) + 1 - k :
               i \in 1 .. Len(recorded) - k \/ i = Len(recorded) + 1 - k
        BY <2>1, <2>2
      <4>5. k + (Len(recorded) + 1 - k) = Len(recorded) + 1
        BY <2>1, <2>2
      <4>6. QED
        BY <4>1, <4>2, <4>3, <4>4, <4>5
    <3>6. QED
      <4> DEFINE b == SubSeq(recorded', k + 1, Len(recorded'))
      <4>1. b \in Seq(Entry) /\ queue \in Seq(Entry) /\ Len(queue) = Len(b)
        BY <1>1, <3>1, <3>4
      <4>2. \A i \in 1 .. Len(queue) : queue[i] = b[i]
        BY <3>1, <3>4, <3>5
      <4> HIDE DEF b, queue
      <4>3. queue = b
        BY <4>1, <4>2
      <4>4. QED
        BY <4>3 DEF b
  <2>4. \A i \in DOMAIN recorded' : recorded'[i].at >= horizon <=> i > k
    BY <1>1, <1>7, <2>1, <2>2
  <2>5. k \in 0 .. Len(recorded')
    BY <1>7, <2>2
  <2>6. QED
    BY <2>3, <2>4, <2>5
<1>10. /\ lastCheckAt <= now /\ horizon >= lastCheckAt - Hold /\ horizon <= now
  BY DEF PopularInv, Kept
<1>11. CASE now - lastCheckAt > CheckGap
  <2>1. /\ wordsQueue' = QueueAfter(queue, past)
        /\ wordsFreqMap' = FreqAfter(queue, freq, past)
        /\ needCalc' = ((needCalc /\ ~isTop) \/ TopHit(queue, freq, maxFreq', past))
        /\ lastCheckAt' = now
        /\ horizon' = Larger(horizon, past)
    BY <1>11 DEF Record
  <2> HIDE DEF queue, freq, entry, past
  <2>2. /\ wordsQueue' \in Seq(Entry) /\ wordsFreqMap' \in [Words -> Nat]
        /\ \A v \in Words : /\ wordsFreqMap'[v] = Count(wordsQueue', v)
                            /\ wordsFreqMap'[v] <= freq[v]
        /\ Sound(freq, maxFreq', topWord') /\ ~TopHit(queue, freq, maxFreq', past)
             => Sound(wordsFreqMap', maxFreq', topWord')
    <3>1. \A v \in Words : freq[v] = Count(queue, v) /\ freq[v] <= maxFreq'
      BY <1>4, <1>5
    <3> DEFINE max == maxFreq'
               best == topWord'
    <3>2. max \in Nat /\ best \in Words \cup {NoWord}
      BY <1>3
    <3>3. \A v \in Words : freq[v] = Count(queue, v) /\ freq[v] <= max
      BY <3>1
    <3> HIDE DEF max, best
    <3>4. /\ QueueAfter(queue, past) \in Seq(Entry)
          /\ FreqAfter(queue, freq, past) \in [Words -> Nat]
          /\ \A v \in Words :
               /\ FreqAfter(queue, freq, past)[v] = Count(QueueAfter(queue, past), v)
               /\ FreqAfter(queue, freq, past)[v] <= freq[v]
          /\ Sound(freq, max, best) /\ ~TopHit(queue, freq, max, past)
               => Sound(FreqAfter(queue, freq, past), max, best)
      BY <1>1, <1>2, <3>2, <3>3, Evicting
    <3>5. QED
      BY <2>1, <3>4 DEF max, best
  <2>3. \A v \in Words : wordsFreqMap'[v] <= maxFreq'
    BY <1>2, <1>3, <1>5, <2>2
  <2>4. \E m \in 0 .. Len(recorded') :
           /\ wordsQueue' = SubSeq(recorded', m + 1, Len(recorded'))
           /\ \A i \in DOMAIN recorded' : recorded'[i].at >= horizon' <=> i > m
    <3> DEFINE rec == recorded'
    <3>1. /\ rec \in Seq(Entry) /\ k \in 0 .. Len(rec)
          /\ \A i, j \in DOMAIN rec : i <= j => rec[i].at <= rec[j].at
          /\ \A i \in DOMAIN rec : rec[i].at >= horizon <=> i > k
          /\ queue = SubSeq(rec, k + 1, Len(rec))
      BY <1>7, <1>8, <1>9 DEF Chronicle
    <3> HIDE DEF rec
    <3>2. \E m \in 0 .. Len(rec) :
            /\ QueueAfter(queue, past) = SubSeq(rec, m + 1, Len(rec))
            /\ \A i \in DOMAIN rec : rec[i].at >= Larger(horizon, past) <=> i > m
      BY <1>1, <3>1, EvictingKeeps
    <3>3. QED
      BY <2>1, <3>2 DEF rec
  <2>5. horizon' >= lastCheckAt' - Hold /\ horizon' <= now' /\ lastCheckAt' <= now' /\ horizon' \in Int
    BY <1>1, <1>7, <1>10, <2>1, MostPopularAssumption DEF Larger, past
  <2>6. ~needCalc' => Sound(wordsFreqMap', maxFreq', topWord')
    BY <1>6, <2>1, <2>2
  <2>7. TypeOK'
    BY <1>3, <1>7, <2>1, <2>2, <2>5 DEF TypeOK, PopularInv, Record
  <2>8. QED
    BY <1>8, <2>2, <2>3, <2>4, <2>5, <2>6, <2>7
       DEF PopularInv, Kept, Counted, MaxBounds, CacheSound, Sound
<1>12. CASE ~(now - lastCheckAt > CheckGap)
  <2>1. /\ wordsQueue' = queue /\ wordsFreqMap' = freq /\ needCalc' = (needCalc /\ ~isTop)
        /\ UNCHANGED <<lastCheckAt, horizon, answer>>
    BY <1>12 DEF Record
  <2> HIDE DEF queue, freq, entry, past
  <2>2. TypeOK'
    BY <1>1, <1>2, <1>3, <1>7, <2>1 DEF TypeOK, PopularInv
  <2>3. Kept'
    BY <1>7, <1>9, <1>10, <2>1 DEF Kept
  <2>4. Counted' /\ MaxBounds' /\ CacheSound'
    BY <1>4, <1>5, <1>6, <2>1 DEF Counted, MaxBounds, CacheSound, Sound
  <2>5. QED
    BY <1>8, <2>2, <2>3, <2>4 DEF PopularInv
<1>13. QED
  BY <1>11, <1>12

LEMMA GetTopWordStep ==
  ASSUME PopularInv, NEW lately \in Windows, GetTopWord(lately)
  PROVE  /\ PopularInv'
         /\ horizon' = Larger(horizon, now - (IF lately > Hold THEN Hold ELSE lately))
         /\ ~needCalc' /\ answer' = topWord'
<1> DEFINE past == now - (IF lately > Hold THEN Hold ELSE lately)
           freq == FreqAfter(wordsQueue, wordsFreqMap, past)
<1>1. /\ past \in Int /\ past <= now /\ now \in Int
  BY MostPopularAssumption DEF PopularInv, TypeOK
<1>2. /\ wordsQueue' = QueueAfter(wordsQueue, past) /\ wordsFreqMap' = freq
      /\ needCalc' = FALSE /\ answer' = topWord'
      /\ horizon' = Larger(horizon, past)
      /\ UNCHANGED <<now, lastCheckAt, recorded>>
      /\ IF needCalc \/ TopHit(wordsQueue, wordsFreqMap, maxFreq, past)
         THEN \E w \in MostOf(freq) : /\ topWord' = w
                                      /\ maxFreq' = IF w = NoWord THEN 0 ELSE freq[w]
         ELSE UNCHANGED <<topWord, maxFreq>>
  BY DEF GetTopWord
<1> HIDE DEF past
<1>3. /\ wordsQueue' \in Seq(Entry) /\ freq \in [Words -> Nat]
      /\ \A v \in Words : freq[v] = Count(wordsQueue', v) /\ freq[v] <= wordsFreqMap[v]
      /\ Sound(wordsFreqMap, maxFreq, topWord) /\ ~TopHit(wordsQueue, wordsFreqMap, maxFreq, past)
           => Sound(freq, maxFreq, topWord)
  <2>1. \A v \in Words : /\ wordsFreqMap[v] = Count(wordsQueue, v)
                          /\ wordsFreqMap[v] <= maxFreq
    BY DEF PopularInv, Counted, MaxBounds
  <2>2. /\ wordsQueue \in Seq(Entry) /\ wordsFreqMap \in [Words -> Nat]
        /\ maxFreq \in Nat /\ topWord \in Words \cup {NoWord}
    BY DEF PopularInv, TypeOK
  <2>3. /\ QueueAfter(wordsQueue, past) \in Seq(Entry) /\ freq \in [Words -> Nat]
        /\ \A v \in Words : /\ freq[v] = Count(QueueAfter(wordsQueue, past), v)
                            /\ freq[v] <= wordsFreqMap[v]
        /\ Sound(wordsFreqMap, maxFreq, topWord) /\ ~TopHit(wordsQueue, wordsFreqMap, maxFreq, past)
             => Sound(freq, maxFreq, topWord)
    BY <1>1, <2>1, <2>2, Evicting
  <2>4. QED
    BY <1>2, <2>3
<1> HIDE DEF freq
<1>4. /\ maxFreq' \in Nat /\ topWord' \in Words \cup {NoWord}
      /\ Sound(freq, maxFreq', topWord')
      /\ \A v \in Words : freq[v] <= maxFreq'
  <2>1. CASE needCalc \/ TopHit(wordsQueue, wordsFreqMap, maxFreq, past)
    <3>1. PICK w \in MostOf(freq) : topWord' = w /\ maxFreq' = IF w = NoWord THEN 0 ELSE freq[w]
      BY <1>2, <2>1
    <3>2. CASE \A v \in Words : freq[v] = 0
      BY <3>1, <3>2 DEF MostOf, Sound
    <3>3. CASE ~(\A v \in Words : freq[v] = 0)
      <4>1. w \in Words /\ w # NoWord /\ \A v \in Words : freq[v] <= freq[w]
        BY <3>1, <3>3, MostPopularAssumption DEF MostOf
      <4>2. QED
        BY <1>3, <3>1, <4>1 DEF Sound
    <3>4. QED
      BY <3>2, <3>3
  <2>2. CASE ~(needCalc \/ TopHit(wordsQueue, wordsFreqMap, maxFreq, past))
    <3>1. topWord' = topWord /\ maxFreq' = maxFreq
      BY <1>2, <2>2
    <3>2. Sound(freq, maxFreq, topWord)
      BY <1>3, <2>2 DEF PopularInv, CacheSound, Sound
    <3>3. \A v \in Words : wordsFreqMap[v] \in Nat /\ wordsFreqMap[v] <= maxFreq
      BY DEF PopularInv, TypeOK, MaxBounds
    <3>4. maxFreq \in Nat /\ topWord \in Words \cup {NoWord}
      BY DEF PopularInv, TypeOK
    <3>5. \A v \in Words : freq[v] <= maxFreq
      BY <1>3, <3>3, <3>4
    <3>6. QED
      BY <3>1, <3>2, <3>4, <3>5
  <2>3. QED
    BY <2>1, <2>2
<1>5. horizon \in Int /\ horizon <= now /\ horizon >= lastCheckAt - Hold /\ lastCheckAt <= now
      /\ lastCheckAt \in Int /\ Hold \in Int
  BY MostPopularAssumption DEF PopularInv, TypeOK, Kept
<1>6. TypeOK'
  BY <1>1, <1>2, <1>3, <1>4, <1>5 DEF TypeOK, PopularInv, Larger
<1>7. Kept'
  <2>1. PICK k \in 0 .. Len(recorded) :
           /\ wordsQueue = SubSeq(recorded, k + 1, Len(recorded))
           /\ \A i \in DOMAIN recorded : recorded[i].at >= horizon <=> i > k
    BY DEF PopularInv, Kept
  <2>2. recorded \in Seq(Entry)
    BY DEF PopularInv, TypeOK
  <2>3. \E m \in 0 .. Len(recorded) :
           /\ wordsQueue' = SubSeq(recorded, m + 1, Len(recorded))
           /\ \A i \in DOMAIN recorded : recorded[i].at >= horizon' <=> i > m
    BY <1>1, <1>2, <1>5, <2>1, <2>2, EvictingKeeps DEF PopularInv, Chronicle
  <2>4. horizon' >= lastCheckAt' - Hold /\ horizon' <= now' /\ lastCheckAt' <= now'
    BY <1>1, <1>2, <1>5 DEF Larger
  <2>5. QED
    BY <1>2, <2>3, <2>4 DEF Kept
<1>8. Chronicle'
  BY <1>2 DEF PopularInv, Chronicle
<1>9. Counted' /\ MaxBounds' /\ CacheSound'
  BY <1>2, <1>3, <1>4 DEF Counted, MaxBounds, CacheSound, Sound
<1>10. QED
  BY <1>2, <1>6, <1>7, <1>8, <1>9 DEF PopularInv, past

LEMMA TickStep ==
  ASSUME PopularInv, Tick
  PROVE  PopularInv'
<1>1. now' = now + 1 /\ now < MaxTime /\ now \in 0 .. MaxTime /\ MaxTime \in Nat
      /\ UNCHANGED <<code, answer, recorded, horizon>>
  BY MostPopularAssumption DEF Tick, PopularInv, TypeOK
<1>2. TypeOK'
  BY <1>1 DEF PopularInv, TypeOK, code
<1>3. \A i \in DOMAIN recorded : recorded[i].at \in Int /\ recorded[i].at <= now
  BY EntryType DEF PopularInv, TypeOK, Chronicle
<1>4. Chronicle'
  <2>1. \A i \in DOMAIN recorded : recorded[i].at <= now'
    BY <1>1, <1>3
  <2>2. QED
    BY <1>1, <2>1 DEF PopularInv, Chronicle
<1>5. Kept'
  <2>1. lastCheckAt \in Int /\ horizon \in Int /\ lastCheckAt <= now /\ horizon <= now
    BY DEF PopularInv, TypeOK, Kept
  <2>2. lastCheckAt <= now' /\ horizon <= now'
    BY <1>1, <2>1
  <2>3. QED
    BY <1>1, <2>2 DEF PopularInv, Kept, code
<1>6. Counted' /\ MaxBounds' /\ CacheSound'
  BY <1>1 DEF PopularInv, Counted, MaxBounds, CacheSound, code
<1>7. QED
  BY <1>2, <1>4, <1>5, <1>6 DEF PopularInv

-----------------------------------------------------------------------------
(* The properties.                                                         *)

LEMMA PopularInvariance == Spec => []PopularInv
<1>1. Init => PopularInv
  <2>1. ASSUME Init
        PROVE  PopularInv
    <3>1. /\ now = 0 /\ lastCheckAt = 0 /\ wordsQueue = <<>> /\ maxFreq = 0
          /\ wordsFreqMap = [w \in Words |-> 0] /\ needCalc = FALSE /\ topWord = NoWord
          /\ answer = NoWord /\ recorded = <<>> /\ horizon = -Hold
      BY <2>1 DEF Init
    <3>2. TypeOK
      <4>1. 0 \in 0 .. MaxTime /\ -Hold \in Int /\ <<>> \in Seq(Entry) /\ 0 \in Nat
        BY MostPopularAssumption
      <4>2. [w \in Words |-> 0] \in [Words -> Nat]
        OBVIOUS
      <4>3. QED
        BY <3>1, <4>1, <4>2 DEF TypeOK
    <3>3. Chronicle
      BY <3>1 DEF Chronicle
    <3>4. Kept
      <4>1. SubSeq(recorded, 1, 0) = <<>> /\ Len(recorded) = 0 /\ DOMAIN recorded = {}
        BY <3>1
      <4>2. 0 \in 0 .. Len(recorded) /\ wordsQueue = SubSeq(recorded, 0 + 1, Len(recorded))
        BY <3>1, <4>1
      <4>3. QED
        BY <3>1, <4>1, <4>2, MostPopularAssumption DEF Kept
    <3>5. Counted
      <4>1. <<>> \in Seq(Entry) /\ DOMAIN <<>> = {}
        OBVIOUS
      <4>2. \A w \in Words : Count(<<>>, w) = 0
        BY <4>1, CountType
      <4>3. QED
        BY <3>1, <4>2 DEF Counted
    <3>6. MaxBounds /\ CacheSound
      BY <3>1 DEF MaxBounds, CacheSound, MostOf
    <3>7. QED
      BY <3>2, <3>3, <3>4, <3>5, <3>6 DEF PopularInv
  <2>2. QED
    BY <2>1
<1>2. PopularInv /\ [Next]_vars => PopularInv'
  <2> SUFFICES ASSUME PopularInv, [Next]_vars
               PROVE  PopularInv'
    OBVIOUS
  <2>1. CASE Tick
    BY <2>1, TickStep
  <2>2. CASE \E w \in Words : Record(w)
    BY <2>2, RecordStep
  <2>3. CASE \E lately \in Windows : GetTopWord(lately)
    BY <2>3, GetTopWordStep
  <2>4. CASE UNCHANGED vars
    BY <2>4 DEF vars, code, PopularInv, TypeOK, Chronicle, Kept, Counted, MaxBounds, CacheSound
  <2>5. QED
    BY <2>1, <2>2, <2>3, <2>4 DEF Next
<1>3. QED
  BY <1>1, <1>2, PTL DEF Spec

\* The counts never go below zero, and the queue, the counts and the cached
\* answer have their types (popular.go:8-22).
THEOREM PopularTypeCorrect == Spec => []TypeOK
<1>1. PopularInv => TypeOK
  BY DEF PopularInv
<1>2. QED
  BY <1>1, PopularInvariance, PTL

\* A cached answer that needCalc does not doubt is right, although Record
\* compares with a maxFreq that eviction leaves stale (popular.go:38-88, 90).
THEOREM CacheSoundAlways == Spec => []CacheSound
<1>1. PopularInv => CacheSound
  BY DEF PopularInv
<1>2. QED
  BY <1>1, PopularInvariance, PTL

LEMMA WindowCounted ==
  ASSUME PopularInv
  PROVE  CountsWindow
<1>1. PICK k \in 0 .. Len(recorded) :
         /\ wordsQueue = SubSeq(recorded, k + 1, Len(recorded))
         /\ \A i \in DOMAIN recorded : recorded[i].at >= horizon <=> i > k
  BY DEF PopularInv, Kept
<1>2. ASSUME NEW w \in Words
      PROVE  wordsFreqMap[w] = Times(w, horizon)
  <2>1. { i \in DOMAIN recorded : recorded[i].word = w /\ i > k }
          = { i \in DOMAIN recorded : recorded[i].word = w /\ recorded[i].at >= horizon }
    BY <1>1
  <2>2. wordsFreqMap[w] = Count(SubSeq(recorded, k + 1, Len(recorded)), w)
    BY <1>1, <1>2 DEF PopularInv, Counted
  <2>3. recorded \in Seq(Entry)
    BY DEF PopularInv, TypeOK
  <2>4. QED
    BY <2>1, <2>2, <2>3, CountBehind DEF Times
<1>3. QED
  BY <1>1, <1>2 DEF CountsWindow

\* The queue and the counts are those of the words recorded since the horizon,
\* none lost and none counted twice, whatever calls moved it (popular.go:38, 63, 90).
THEOREM CountsWindowAlways == Spec => []CountsWindow
<1>1. PopularInv => CountsWindow
  BY WindowCounted
<1>2. QED
  BY <1>1, PopularInvariance, PTL

\* GetTopWord answers with a most frequent word of its window (popular.go:63).
THEOREM TopOfWindowAlways == Spec => TopOfWindow
<1> DEFINE Past(lately) == Larger(horizon, now - (IF lately > Hold THEN Hold ELSE lately))
<1>1. PopularInv => CountsWindow
  BY WindowCounted
<1>2. ASSUME PopularInv, CountsWindow', NEW lately \in Windows, GetTopWord(lately)
      PROVE  IsTop(answer', Past(lately))
  <2>1. /\ PopularInv' /\ horizon' = Past(lately) /\ ~needCalc' /\ answer' = topWord'
    BY <1>2, GetTopWordStep
  <2>2. recorded' = recorded
    BY <1>2 DEF GetTopWord
  <2>3. \A w \in Words : wordsFreqMap'[w] = Times(w, horizon')
    BY <1>2, <2>2 DEF CountsWindow, Times
  <2>4. topWord' \in MostOf(wordsFreqMap')
    BY <2>1 DEF PopularInv, CacheSound
  <2> HIDE DEF Past
  <2>5. CASE \A w \in Words : Times(w, horizon') = 0
    BY <2>1, <2>3, <2>4, <2>5 DEF MostOf, IsTop
  <2>6. CASE ~(\A w \in Words : Times(w, horizon') = 0)
    BY <2>1, <2>3, <2>4, <2>6 DEF MostOf, IsTop
  <2>7. QED
    BY <2>5, <2>6
<1>3. PopularInv /\ CountsWindow' /\ [Next]_vars
        => [\A lately \in Windows : GetTopWord(lately) => IsTop(answer', Past(lately))]_vars
  BY <1>2
<1>4. QED
  BY <1>1, <1>3, PopularInvariance, PTL DEF Spec, TopOfWindow

\* After Record nothing in the queue is older than the hold time and the second
\* between two checks, so a room nobody asks about keeps no more (popular.go:51).
THEOREM BoundedQueueAlways == Spec => BoundedQueue
<1> DEFINE Bounded == \A i \in DOMAIN wordsQueue' : wordsQueue'[i].at >= now - Hold - CheckGap
<1>1. ASSUME PopularInv, PopularInv', NEW w \in Words, Record(w)
      PROVE  Bounded
  <2>1. PICK k \in 0 .. Len(recorded') :
           /\ wordsQueue' = SubSeq(recorded', k + 1, Len(recorded'))
           /\ \A i \in DOMAIN recorded' : recorded'[i].at >= horizon' <=> i > k
    BY <1>1 DEF PopularInv, Kept
  <2>2. horizon' >= lastCheckAt' - Hold /\ horizon' \in Int /\ lastCheckAt' \in Int
    BY <1>1 DEF PopularInv, Kept, TypeOK
  <2>3. lastCheckAt' >= now - CheckGap
    BY <1>1, MostPopularAssumption DEF Record, PopularInv, TypeOK
  <2>4. horizon' >= now - Hold - CheckGap /\ now - Hold - CheckGap \in Int
    <3>1. now \in Int /\ Hold \in Int /\ CheckGap \in Int
      BY <1>1, MostPopularAssumption DEF PopularInv, TypeOK
    <3>2. /\ horizon' >= lastCheckAt' - Hold /\ horizon' \in Int /\ lastCheckAt' \in Int
          /\ lastCheckAt' >= now - CheckGap
      BY <2>2, <2>3
    <3>3. \A h, l, n, x, g \in Int : h >= l - x /\ l >= n - g => h >= n - x - g
      OBVIOUS
    <3>4. horizon' >= now - Hold - CheckGap
      <4> DEFINE h == horizon'
                 l == lastCheckAt'
      <4>1. h \in Int /\ l \in Int /\ h >= l - Hold /\ l >= now - CheckGap
        BY <3>2
      <4> HIDE DEF h, l
      <4>2. h >= now - Hold - CheckGap
        BY <3>1, <3>3, <4>1
      <4>3. QED
        BY <4>2 DEF h
    <3>5. now - Hold - CheckGap \in Int
      BY <3>1
    <3>6. QED
      BY <3>4, <3>5
  <2>5. ASSUME NEW i \in DOMAIN wordsQueue'
        PROVE  wordsQueue'[i].at >= now - Hold - CheckGap
    <3> DEFINE rec == recorded'
    <3>1. rec \in Seq(Entry) /\ k \in 0 .. Len(rec)
      BY <1>1 DEF PopularInv, TypeOK
    <3>2. i \in DOMAIN SubSeq(rec, k + 1, Len(rec))
      BY <2>1, <2>5
    <3> HIDE DEF rec
    <3>3. k + i \in DOMAIN rec /\ k + i > k /\ SubSeq(rec, k + 1, Len(rec))[i] = rec[k + i]
      BY SMTT(30), <3>1, <3>2
    <3>4. rec[k + i].at \in Int
      BY <3>1, <3>3, EntryType
    <3>5. wordsQueue'[i] = rec[k + i] /\ rec[k + i].at >= horizon'
      BY <2>1, <3>3 DEF rec
    <3>6. QED
      BY <2>2, <2>4, <3>4, <3>5
  <2>6. QED
    BY <2>5
<1>2. PopularInv /\ PopularInv' /\ [Next]_vars => [\A w \in Words : Record(w) => Bounded]_vars
  BY <1>1
<1>3. QED
  BY <1>2, PopularInvariance, PTL DEF Spec, BoundedQueue

===============================================================================
