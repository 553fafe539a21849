------------------------------ MODULE WordFilter ------------------------------
(***************************************************************************)
(* The filter of black words, pkg/acascii/actrie.go: an Aho-Corasick       *)
(* automaton over ASCII that ignores case and skips symbols.  A behaviour  *)
(* loads a dictionary, builds the failure links, and runs one call of      *)
(* HasBlackWord or Filter on one text; a call changes nothing but its own  *)
(* variables, so calls of several goroutines are as one.                   *)
(*                                                                         *)
(* A character is a number, its byte.  A node of the trie (acState) is the *)
(* word that leads to it from the root: depth is its length, success its   *)
(* extensions in nodes.  pos is the index of the code plus one.            *)
(***************************************************************************)
EXTENDS Integers, Sequences, FiniteSets

CONSTANTS
  Letters,      \* English letters and digits
  Symbols,      \* other ASCII characters; skipSymbol is always TRUE
  NonASCII,     \* bytes from MAX_CHAR on
  Lower,        \* toLowerASCII, a function on Letters
  Dicts,        \* dictionaries, each a sequence of words
  Texts         \* inputs

Chars == Letters \cup Symbols \cup NonASCII

ASSUME CharsAssumption ==
  /\ Letters \subseteq Nat /\ Symbols \subseteq Nat /\ NonASCII \subseteq Nat
  /\ Lower \in [Letters -> Letters]
  /\ \A char \in Letters : Lower[Lower[char]] = Lower[char]
  /\ Dicts \subseteq Seq(Seq(Chars)) /\ Texts \subseteq Seq(Chars)

VARIABLES
  pc,
  dict,         \* words still to be added
  at, leaf,     \* AddKeyWord: index in the first of them, node it has come to
  words,        \* history: words that were added
  nodes,        \* of the trie
  isEmit,       \* nodes with IS_EMIT: words of the dictionary
  hasEmit,      \* nodes with HAS_EMIT: a word ends here, by a failure link
  failure,      \* of each node that has been linked
  inited,
  queue, kids, preFail,            \* of createFailureStates
  text, pos, n, symbolPre, curr,   \* of a call
  masked,       \* indices of text replaced by '*'
  found         \* what HasBlackWord returned

trie == <<nodes, isEmit, hasEmit, failure>>
create == <<queue, kids, preFail>>
call == <<text, pos, n, symbolPre, curr, masked, found>>
load == <<dict, words, at, leaf>>
vars == <<pc, load, trie, inited, create, call>>

Root == << >>
IsSymbolASCII(char) == char \notin Letters
Parent(s) == SubSeq(s, 1, Len(s) - 1)
Key(s) == s[Len(s)]
Children(s) == { t \in nodes : Len(t) = Len(s) + 1 /\ Parent(t) = s }

\* nextState: the extension of s by char; the root stays; otherwise nil.
CanMove(s, char) == Append(s, Lower[char]) \in nodes \/ s = Root
NextState(s, char) ==
  IF Append(s, Lower[char]) \in nodes THEN Append(s, Lower[char]) ELSE Root
\* Slip: only isEmit is tested where hasEmit is meant.
EmitsOwn(s) == s \in isEmit

\* hasEmit of a node: a word ends here.
Emits(s) == s \in isEmit \cup hasEmit

TypeOK ==
  /\ pc \in {"load", "refused", "create", "ready", "next", "fall", "emit",
             "has", "hasFall", "done"}
  /\ dict \in Seq(Seq(Chars)) /\ words \subseteq Seq(Chars)
  /\ at \in Nat /\ leaf \in nodes
  /\ nodes \subseteq Seq(Letters) /\ Root \in nodes
  /\ isEmit \subseteq nodes /\ hasEmit \subseteq nodes
  /\ DOMAIN failure \subseteq nodes /\ failure \in [DOMAIN failure -> nodes]
  /\ inited \in BOOLEAN /\ queue \in Seq(nodes)
  /\ kids \subseteq nodes /\ preFail \in nodes
  /\ text \in Seq(Chars) /\ pos \in Nat /\ n \in Nat /\ symbolPre \in BOOLEAN
  /\ curr \in nodes /\ masked \subseteq Nat /\ found \in BOOLEAN

\* newACTrie, with the dictionary that a constructor is given.
Init ==
  /\ pc = "load" /\ dict \in Dicts /\ at = 1 /\ leaf = Root /\ words = {}
  /\ nodes = {Root} /\ isEmit = {} /\ hasEmit = {}
  /\ failure = [s \in {Root} |-> Root] /\ inited = FALSE
  /\ queue = << >> /\ kids = {} /\ preFail = Root
  /\ text = << >> /\ pos = 1 /\ n = 0 /\ symbolPre = FALSE /\ curr = Root
  /\ masked = {} /\ found = FALSE

-----------------------------------------------------------------------------
(* NewACTrieFromStrings and NewACTrieFromFile: add the words, then link.   *)

\* AddKeyWord goes through a word: a symbol is skipped, a letter leads to
\* a leaf (addLeaf), which it makes if there is none.
AddLeaf ==
  /\ pc = "load" /\ dict # << >> /\ at <= Len(Head(dict))
  /\ LET char == Head(dict)[at] IN
       /\ char \notin NonASCII
       /\ leaf' = IF IsSymbolASCII(char) THEN leaf ELSE Append(leaf, Lower[char])
  /\ nodes' = nodes \cup {leaf'}
  /\ at' = at + 1
  /\ UNCHANGED <<pc, dict, words, isEmit, hasEmit, failure, inited, create, call>>

\* ErrNotASCII: the constructor gives the trie up.
ErrNotASCII ==
  /\ pc = "load" /\ dict # << >> /\ at <= Len(Head(dict)) /\ Head(dict)[at] \in NonASCII
  /\ pc' = "refused"
  /\ UNCHANGED <<load, trie, inited, create, call>>

AddKeyWord ==
  /\ pc = "load" /\ dict # << >> /\ at > Len(Head(dict))
  /\ isEmit' = IF leaf = Root THEN isEmit ELSE isEmit \cup {leaf}
  /\ dict' = Tail(dict) /\ words' = words \cup {Head(dict)}
  /\ at' = 1 /\ leaf' = Root
  /\ inited' = (inited /\ Head(dict) = << >>)
  /\ UNCHANGED <<pc, nodes, hasEmit, failure, create, call>>

\* createFailureStates starts with the nodes of depth 1.  It may run with
\* words left: AddKeyWord then makes it run again, over the old links.
CreateFailureStates ==
  /\ pc = "load" /\ ~inited /\ at = 1
  /\ pc' = "create"
  /\ kids' = Children(Root)
  /\ UNCHANGED <<load, trie, inited, queue, preFail, call>>

Pop ==
  /\ pc = "create" /\ kids = {} /\ queue # << >>
  /\ kids' = Children(Head(queue))
  /\ preFail' = failure[Head(queue)]
  /\ queue' = Tail(queue)
  /\ UNCHANGED <<pc, load, trie, inited, call>>

\* Children are linked in the order of their bytes.
NextKid(kid) == kid \in kids /\ \A other \in kids : Key(kid) <= Key(other)

Linked(kid, to) ==
  /\ failure' = [s \in DOMAIN failure \cup {kid} |-> IF s = kid THEN to ELSE failure[s]]
  /\ queue' = Append(queue, kid)
  /\ kids' = kids \ {kid}
  /\ UNCHANGED <<pc, load, nodes, isEmit, inited, call>>

LinkHead(kid) ==
  /\ pc = "create" /\ NextKid(kid) /\ Len(kid) = 1
  /\ Linked(kid, Root)
  /\ UNCHANGED <<hasEmit, preFail>>

\* Slip: the link is looked for once, not down the chain.
LinkFallOnce ==
  /\ pc = "create"
  /\ \E kid \in kids : NextKid(kid) /\ Len(kid) > 1 /\ ~CanMove(preFail, Key(kid))
  /\ preFail' = Root
  /\ UNCHANGED <<pc, load, trie, inited, queue, kids, call>>

LinkFall ==
  /\ pc = "create"
  /\ \E kid \in kids : NextKid(kid) /\ Len(kid) > 1 /\ ~CanMove(preFail, Key(kid))
  /\ preFail' = failure[preFail]
  /\ UNCHANGED <<pc, load, trie, inited, queue, kids, call>>

Link(kid) ==
  /\ pc = "create" /\ NextKid(kid) /\ Len(kid) > 1 /\ CanMove(preFail, Key(kid))
  /\ LET nextFail == NextState(preFail, Key(kid)) IN
       /\ Linked(kid, nextFail)
       /\ hasEmit' = IF Emits(nextFail) THEN hasEmit \cup {kid} ELSE hasEmit
  /\ preFail' = failure[Parent(kid)]

Created ==
  /\ pc = "create" /\ kids = {} /\ queue = << >>
  /\ inited' = TRUE
  /\ pc' = "load"
  /\ UNCHANGED <<load, trie, create, call>>

\* The constructor returns a trie that checkFailuresCreated finds linked.
Constructed ==
  /\ pc = "load" /\ dict = << >> /\ inited
  /\ pc' = "ready"
  /\ UNCHANGED <<load, trie, inited, create, call>>

-----------------------------------------------------------------------------
(* Filter, one turn of a loop a step.                                      *)

\* HasBlackWord and Filter start with checkFailuresCreated, which finds the
\* trie built.
Start ==
  /\ pc = "ready"
  /\ text' \in Texts
  /\ pc' \in {"next", "has"}
  /\ UNCHANGED <<load, trie, inited, create, pos, n, symbolPre, curr, masked, found>>

FilterEnd ==
  /\ pc \in {"next", "has"} /\ pos > Len(text)
  /\ pc' = "done"
  /\ UNCHANGED <<load, trie, inited, create, call>>

FilterNext ==
  /\ pc = "next" /\ pos <= Len(text)
  /\ n' = n + 1
  /\ IF IsSymbolASCII(text[pos])
     THEN pos' = pos + 1 /\ symbolPre' = TRUE /\ UNCHANGED pc
     ELSE pc' = "fall" /\ UNCHANGED <<pos, symbolPre>>
  /\ UNCHANGED <<load, trie, inited, create, text, curr, masked, found>>

FilterMove ==
  /\ pc = "fall" /\ CanMove(curr, text[pos])
  /\ curr' = NextState(curr, text[pos])
  /\ pc' = "emit"
  /\ UNCHANGED <<load, trie, inited, create, text, pos, n, symbolPre, masked, found>>

\* Slip: it steps back whether a word ends there or not.
FilterFallBare ==
  /\ pc = "fall" /\ ~CanMove(curr, text[pos])
  /\ curr' = failure[curr]
  /\ IF ~symbolPre
     THEN pos' = pos - 1 /\ n' = Len(curr') - 1 /\ pc' = "emit"
     ELSE UNCHANGED <<pos, n, pc>>
  /\ UNCHANGED <<load, trie, inited, create, text, symbolPre, masked, found>>

\* Slip: the step back keeps the node it came from.
FilterFallStuck ==
  /\ pc = "fall" /\ ~CanMove(curr, text[pos])
  /\ IF ~symbolPre /\ failure[curr] \in isEmit
     THEN /\ pos' = pos - 1 /\ n' = Len(failure[curr]) - 1 /\ pc' = "emit"
          /\ UNCHANGED curr
     ELSE curr' = failure[curr] /\ UNCHANGED <<pos, n, pc>>
  /\ UNCHANGED <<load, trie, inited, create, text, symbolPre, masked, found>>

\* A word that ends before this character, unless a symbol came between:
\* it is masked first and the character is looked at again.
FilterFall ==
  /\ pc = "fall" /\ ~CanMove(curr, text[pos])
  /\ curr' = failure[curr]
  /\ IF ~symbolPre /\ curr' \in isEmit
     THEN pos' = pos - 1 /\ n' = Len(curr') - 1 /\ pc' = "emit"
     ELSE UNCHANGED <<pos, n, pc>>
  /\ UNCHANGED <<load, trie, inited, create, text, symbolPre, masked, found>>

\* Slip: n is not reset where a word starts (isWordsHead).
FilterEmitNoHead ==
  /\ pc = "emit"
  /\ IF curr \in isEmit
     THEN masked' = masked \cup ((pos - n) .. pos) /\ n' = 0
     ELSE UNCHANGED <<n, masked>>
  /\ symbolPre' = FALSE
  /\ pos' = pos + 1 /\ pc' = "next"
  /\ UNCHANGED <<load, trie, inited, create, text, curr, found>>

\* Slip: n is reset after every hit but the run goes on from the root.
FilterEmitFromRoot ==
  /\ pc = "emit"
  /\ LET since == IF Len(curr) = 1 THEN 0 ELSE n IN
       IF curr \in isEmit
       THEN masked' = masked \cup ((pos - since) .. pos) /\ n' = 0 /\ curr' = Root
       ELSE n' = since /\ UNCHANGED <<masked, curr>>
  /\ symbolPre' = FALSE
  /\ pos' = pos + 1 /\ pc' = "next"
  /\ UNCHANGED <<load, trie, inited, create, text, found>>

FilterEmit ==
  /\ pc = "emit"
  /\ LET since == IF Len(curr) = 1 THEN 0 ELSE n IN
       IF curr \in isEmit
       THEN masked' = masked \cup ((pos - since) .. pos) /\ n' = 0
       ELSE n' = since /\ UNCHANGED masked
  /\ symbolPre' = FALSE
  /\ pos' = pos + 1 /\ pc' = "next"
  /\ UNCHANGED <<load, trie, inited, create, text, curr, found>>

-----------------------------------------------------------------------------
(* HasBlackWord, and BytesHasBlackWord, which is the same loop.            *)

HasNext ==
  /\ pc = "has" /\ pos <= Len(text)
  /\ IF IsSymbolASCII(text[pos]) THEN pos' = pos + 1 /\ UNCHANGED pc
                                 ELSE pc' = "hasFall" /\ UNCHANGED pos
  /\ UNCHANGED <<load, trie, inited, create, text, n, symbolPre, curr, masked, found>>

HasMove ==
  /\ pc = "hasFall" /\ CanMove(curr, text[pos])
  /\ curr' = NextState(curr, text[pos])
  /\ found' = Emits(curr')
  /\ IF found' THEN pc' = "done" /\ UNCHANGED pos ELSE pc' = "has" /\ pos' = pos + 1
  /\ UNCHANGED <<load, trie, inited, create, text, n, symbolPre, masked>>

HasFall ==
  /\ pc = "hasFall" /\ ~CanMove(curr, text[pos])
  /\ curr' = failure[curr]
  /\ UNCHANGED <<pc, load, trie, inited, create, text, pos, n, symbolPre, masked, found>>

-----------------------------------------------------------------------------
Load == AddLeaf \/ ErrNotASCII \/ AddKeyWord \/ CreateFailureStates
Create == Pop \/ LinkFall \/ (\E kid \in kids : LinkHead(kid) \/ Link(kid)) \/ Created \/ Constructed
Filter == FilterNext \/ FilterMove \/ FilterFall \/ FilterEmit
HasBlackWord == HasNext \/ HasMove \/ HasFall

Next == Load \/ Create \/ Start \/ Filter \/ HasBlackWord \/ FilterEnd

Spec == Init /\ [][Next]_vars
FairSpec == Spec /\ WF_vars(Next)   \* one goroutine that runs

-----------------------------------------------------------------------------
(* What a reader expects of the filter, in terms of plain search.          *)

\* The number of letters in the first i places of s, and the place of the
\* k-th letter.
LettersIn(s, i) == Cardinality({ j \in 1 .. i : s[j] \in Letters })
LetterAt(s, k) == CHOOSE i \in 1 .. Len(s) : s[i] \in Letters /\ LettersIn(s, i) = k

\* What matters of a word or of a stretch of text: letters, in lower case.
Clean(s) == [k \in 1 .. LettersIn(s, Len(s)) |-> Lower[s[LetterAt(s, k)]]]

Vocabulary == { Clean(word) : word \in words } \ {Root}

\* The places of a clean word in the text, first and last letter.
Places(word) ==
  { place \in (1 .. Len(text)) \X (1 .. Len(text)) :
      /\ place[1] <= place[2]
      /\ text[place[1]] \in Letters /\ text[place[2]] \in Letters
      /\ Clean(SubSeq(text, place[1], place[2])) = word }

Suffixes(s, longest) == { SubSeq(s, i, Len(s)) : i \in Len(s) - longest + 1 .. Len(s) + 1 }

\* The links that createFailureStates builds breadth first: the failure of a
\* node is its longest proper suffix in the trie, and a node has an emit flag
\* exactly when some suffix of it is a word, even if links were built before
\* the last words were added.
FailureLinks ==
  inited /\ at = 1 /\ pc # "refused" =>
    \A s \in nodes \ {Root} :
      /\ failure[s] \in Suffixes(s, Len(s) - 1)
      /\ \A t \in Suffixes(s, Len(s) - 1) \cap nodes : Len(t) <= Len(failure[s])
      /\ Emits(s) <=> Suffixes(s, Len(s)) \cap Vocabulary # {}

\* HasBlackWord gives the answer of a search for every word in the text with
\* symbols removed, although it reads the text once and never goes back.
HasBlackWordExact ==
  [][/\ pc \in {"has", "hasFall"} /\ pc' = "done"
     => (found' <=> \E word \in Vocabulary : Places(word) # {})]_vars

\* Filter writes inside the text: pos - n, computed from counters that
\* symbols, failure links and the step back (pos--) change, is an index.
InBounds == masked \subseteq 1 .. Len(text)

\* What Filter masks stands in the text as a beginning of a word (a node),
\* and what is masked goes on from there to the end of a word.  So a text
\* without a word is left as it is; but more than words may be masked: of
\* abd, with the words abc and bd, the a as well.
MasksOnlyHits ==
  \A i \in masked :
    /\ \E beginning \in nodes \ {Root} : \E place \in Places(beginning) : i \in place[1] .. place[2]
    /\ \E word \in Vocabulary : \E place \in Places(word) :
         i <= place[2] /\ i .. place[2] \subseteq masked

\* If no word lies in another except as its prefix, Filter replaces every
\* occurrence of every word, symbols inside it included.
Nested(word, other) ==
  \E i \in 2 .. Len(other) - Len(word) + 1 : SubSeq(other, i, i + Len(word) - 1) = word

MasksAll ==
  \A word \in Vocabulary : \A place \in Places(word) : place[1] .. place[2] \subseteq masked

MasksAllUnlessNested ==
  [][pc = "next" /\ pc' = "done"
       /\ (\A word, other \in Vocabulary : ~Nested(word, other))
     => MasksAll]_vars

\* The loop over a text ends, though a turn of Filter may step back: it
\* does so only to a shorter node.  So does the search for a link.
Ends == <>(pc \in {"done", "refused"})

\* "Filter: replaces the Words matched in the string by *" (actrie.go:152).
FilterMasks == [][pc = "next" /\ pc' = "done" => MasksAll]_vars

===============================================================================
