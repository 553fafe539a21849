------------------------------ MODULE MostPopular ------------------------------
(***************************************************************************)
(* The most frequent recent word of a room, pkg/popular/popular.go: a      *)
(* queue of the recorded words with their times, the count of each word in *)
(* the queue, and a cached answer that is recomputed only when it may have *)
(* become wrong.  One goroutine calls it at a time here.  The server does  *)
(* not see to that: in ChatServer a room may be at "record" while a        *)
(* handler is at "popular".                                                *)
(*                                                                         *)
(* Time is counted in units of which CheckGap make a second; the clock     *)
(* never goes back.                                                        *)
(***************************************************************************)
EXTENDS Integers, Sequences, FiniteSets

CONSTANTS
  Words,
  NoWord,       \* the empty word, the answer when nothing is counted
  Hold,         \* holdDuration
  CheckGap,     \* the second between two evictions by Record
  Windows,      \* durations GetTopWord is asked for
  MaxTime,      \* bound of the model: the clock
  MaxRecords    \* bound of the model: words recorded

ASSUME MostPopularAssumption ==
  /\ NoWord \notin Words /\ IsFiniteSet(Words)
  /\ Hold \in Nat /\ CheckGap \in Nat /\ Windows \subseteq Nat
  /\ MaxTime \in Nat /\ MaxRecords \in Nat

VARIABLES
  now,                          \* time.Now()
  wordsQueue, wordsFreqMap,     \* [word, at] in order of recording; word -> count
  needCalc, maxFreq, topWord,   \* the cached answer
  lastCheckAt,
  answer,                       \* what the last GetTopWord returned
  recorded, horizon             \* history: all words recorded; the latest
                                \* time before which words were evicted
code == <<wordsQueue, wordsFreqMap, needCalc, maxFreq, topWord, lastCheckAt>>
vars == <<now, code, answer, recorded, horizon>>

Entry == [word : Words, at : 0 .. MaxTime]

TypeOK ==
  /\ now \in 0 .. MaxTime /\ lastCheckAt \in 0 .. MaxTime
  /\ wordsQueue \in Seq(Entry)
  /\ wordsFreqMap \in [Words -> Nat]    \* 0: not a key of the Go map
  /\ needCalc \in BOOLEAN /\ maxFreq \in Nat
  /\ topWord \in Words \cup {NoWord} /\ answer \in Words \cup {NoWord}
  /\ recorded \in Seq(Entry) /\ horizon \in Int

Init ==
  /\ now = 0 /\ lastCheckAt = 0
  /\ wordsQueue = <<>> /\ wordsFreqMap = [w \in Words |-> 0]
  /\ needCalc = FALSE /\ maxFreq = 0 /\ topWord = NoWord
  /\ answer = NoWord /\ recorded = <<>> /\ horizon = -Hold

Tick ==
  /\ now < MaxTime
  /\ now' = now + 1
  /\ UNCHANGED <<code, answer, recorded, horizon>>

\* How often w is in q.
Count(q, w) == Cardinality({ i \in DOMAIN q : q[i].word = w })

Larger(a, b) == IF a > b THEN a ELSE b

\* A slip is the definition after it with a mistake that a change of the code
\* might make; only the tests of the properties use it.
\* Slip of Expired: an entry exactly as old as the window goes.
ExpiredAtPast(q, past) ==
  CHOOSE k \in 0 .. Len(q) : /\ \A i \in 1 .. k : q[i].at <= past
                             /\ k < Len(q) => q[k + 1].at > past

\* checkPos: how many entries lead q that are older than past.
Expired(q, past) ==
  CHOOSE k \in 0 .. Len(q) : /\ \A i \in 1 .. k : q[i].at < past
                             /\ k < Len(q) => q[k + 1].at >= past

\* Slips of the three below: the entries stay; one count too many goes; the
\* top word is told only when it had more than the largest count.
QueueKept(q, past) == q
FreqAfterOneMore(q, freq, past) ==
  LET k == IF Expired(q, past) < Len(q) THEN Expired(q, past) + 1 ELSE Len(q)
  IN [w \in Words |-> freq[w] - Count(SubSeq(q, 1, k), w)]
TopHitAbove(q, freq, max, past) == \E i \in 1 .. Expired(q, past) : freq[q[i].word] > max

\* checkPos drops them one by one: the queue and the counts it leaves, and
\* whether one of them, at its turn, was counted at least max times (which
\* is so if and only if it is so for the first entry of its word).
QueueAfter(q, past) == SubSeq(q, Expired(q, past) + 1, Len(q))
FreqAfter(q, freq, past) ==
  [w \in Words |-> freq[w] - Count(SubSeq(q, 1, Expired(q, past)), w)]
TopHit(q, freq, max, past) == \E i \in 1 .. Expired(q, past) : freq[q[i].word] >= max

\* The word is counted before anything is evicted.
Record(w) ==
  /\ Len(recorded) < MaxRecords
  /\ LET entry == [word |-> w, at |-> now]
         queue == Append(wordsQueue, entry)
         freq  == [wordsFreqMap EXCEPT ![w] = @ + 1]
         top   == freq[w] > maxFreq
         past  == now - Hold
     IN /\ maxFreq' = IF top THEN freq[w] ELSE maxFreq
        /\ topWord' = IF top THEN w ELSE topWord
        /\ IF now - lastCheckAt > CheckGap
           THEN /\ wordsQueue' = QueueAfter(queue, past)
                /\ wordsFreqMap' = FreqAfter(queue, freq, past)
                /\ needCalc' = ((needCalc /\ ~top) \/ TopHit(queue, freq, maxFreq', past))
                /\ lastCheckAt' = now
                /\ horizon' = Larger(horizon, past)
           ELSE /\ wordsQueue' = queue
                /\ wordsFreqMap' = freq
                /\ needCalc' = (needCalc /\ ~top)
                /\ UNCHANGED <<lastCheckAt, horizon>>
        /\ recorded' = Append(recorded, entry)
  /\ UNCHANGED <<now, answer>>

\* The loop over the map keeps the first of the largest counts it meets, in
\* the map's random order.
MostOf(freq) ==
  IF \A w \in Words : freq[w] = 0 THEN {NoWord}
  ELSE { w \in Words : \A v \in Words : freq[v] <= freq[w] }

\* Slip of GetTopWord: needCalc alone decides, what it evicts itself does not.
GetTopWordStale(lately) ==
  LET past == now - (IF lately > Hold THEN Hold ELSE lately)
      freq == FreqAfter(wordsQueue, wordsFreqMap, past)
  IN /\ IF needCalc
        THEN \E w \in MostOf(freq) : /\ topWord' = w
                                     /\ maxFreq' = IF w = NoWord THEN 0 ELSE freq[w]
        ELSE UNCHANGED <<topWord, maxFreq>>
     /\ wordsQueue' = QueueAfter(wordsQueue, past)
     /\ wordsFreqMap' = freq
     /\ needCalc' = FALSE
     /\ answer' = topWord'
     /\ horizon' = Larger(horizon, past)
  /\ UNCHANGED <<now, lastCheckAt, recorded>>

GetTopWord(lately) ==
  LET past == now - (IF lately > Hold THEN Hold ELSE lately)
      freq == FreqAfter(wordsQueue, wordsFreqMap, past)
  IN /\ IF needCalc \/ TopHit(wordsQueue, wordsFreqMap, maxFreq, past)
        THEN \E w \in MostOf(freq) : /\ topWord' = w
                                     /\ maxFreq' = IF w = NoWord THEN 0 ELSE freq[w]
        ELSE UNCHANGED <<topWord, maxFreq>>
     /\ wordsQueue' = QueueAfter(wordsQueue, past)
     /\ wordsFreqMap' = freq
     /\ needCalc' = FALSE
     /\ answer' = topWord'
     /\ horizon' = Larger(horizon, past)
  /\ UNCHANGED <<now, lastCheckAt, recorded>>

Next == \/ Tick
        \/ \E w \in Words : Record(w)
        \/ \E lately \in Windows : GetTopWord(lately)

Spec == Init /\ [][Next]_vars

-----------------------------------------------------------------------------
\* How often w was recorded at past or later.
Times(w, past) ==
  Cardinality({ i \in DOMAIN recorded : recorded[i].word = w /\ recorded[i].at >= past })

\* What is counted is what the queue holds, and the queue holds every word
\* recorded since the latest horizon, in order: nothing is lost, and nothing
\* is counted twice, whatever mix of evictions by Record and by GetTopWord.
CountsWindow ==
  /\ \E k \in 0 .. Len(recorded) :
       /\ wordsQueue = SubSeq(recorded, k + 1, Len(recorded))
       /\ \A i \in DOMAIN recorded : recorded[i].at >= horizon <=> i > k
  /\ \A w \in Words : wordsFreqMap[w] = Times(w, horizon)

\* The cached answer may be returned without a look at the counts unless
\* needCalc says otherwise, although Record compares with a maxFreq that may
\* be stale and counts words that have expired.
CacheSound ==
  ~needCalc => /\ topWord \in MostOf(wordsFreqMap)
               /\ maxFreq = IF topWord = NoWord THEN 0 ELSE wordsFreqMap[topWord]

\* w is one of the words recorded most often at past or later.
IsTop(w, past) ==
  IF \A v \in Words : Times(v, past) = 0 THEN w = NoWord
  ELSE w \in Words /\ \A v \in Words : Times(v, past) <= Times(w, past)

\* GetTopWord answers with a most frequent one of the words recorded in the
\* window asked for, or in the shorter one left by an earlier call with a
\* shorter window: it never counts a word older than that (popular.go:63).
TopOfWindow ==
  [][\A lately \in Windows : GetTopWord(lately) =>
       IsTop(answer', Larger(horizon, now - (IF lately > Hold THEN Hold ELSE lately)))]_vars

\* Expired words do not pile up in a room nobody asks about: after Record,
\* nothing in the queue is older than Hold and the second between checks.
BoundedQueue ==
  [][\A w \in Words : Record(w) =>
       \A i \in DOMAIN wordsQueue' : wordsQueue'[i].at >= now - Hold - CheckGap]_vars
===============================================================================
