----------------------------- MODULE Typosquat -----------------------------
(***************************************************************************)
(* The typosquat detector (analyzers/typosquat): the edit distance and the *)
(* BK-tree of bktree.py, and TyposquatDetector.analyze (detector.py).  A   *)
(* name is a sequence of characters.  The corpus is a set, which the tree  *)
(* receives in any order: a sequence of its words.                         *)
(***************************************************************************)
EXTENDS Integers, Sequences, SequencesExt, FiniteSetsExt

CONSTANTS
  Adjacent,     \* pairs of letters side by side on the keyboard
  LooksLike     \* a letter for each character of another script that looks like one

-----------------------------------------------------------------------------
(* bktree.py                                                               *)

\* damerau_levenshtein_distance: insert, delete, replace, and swap neighbours,
\* none of which may touch the same place twice.
Distance(s, t) ==
  LET Cost(i, j)    == IF s[i] = t[j] THEN 0 ELSE 1
      Swapped(i, j) == i > 1 /\ j > 1 /\ s[i] = t[j - 1] /\ s[i - 1] = t[j]
      d[c \in (0..Len(s)) \X (0..Len(t))] ==
        LET i == c[1]
            j == c[2]
        IN  IF i = 0 \/ j = 0 THEN i + j
            ELSE Min({d[<<i - 1, j>>] + 1, d[<<i, j - 1>>] + 1, d[<<i - 1, j - 1>>] + Cost(i, j)}
                       \cup (IF Swapped(i, j) THEN {d[<<i - 2, j - 2>>] + Cost(i, j)} ELSE {}))
  IN  d[<<Len(s), Len(t)>>]

\* A tree is the sequence of its nodes in the order they were added: parent is
\* 0 at the root for words of one length, at is the distance from the parent.
Root(tree, w) == {n \in DOMAIN tree : tree[n].parent = 0 /\ Len(tree[n].word) = Len(w)}
Node(w, n, d) == [word |-> w, parent |-> n, at |-> d]

Add(tree, w) ==
  LET Below[n \in DOMAIN tree] ==
        LET d     == Distance(w, tree[n].word)
            child == {m \in DOMAIN tree : tree[m].parent = n /\ tree[m].at = d}
        IN  IF d = 0 THEN tree
            ELSE IF child # {} THEN Below[CHOOSE m \in child : TRUE]
            ELSE Append(tree, Node(w, n, d))
  IN  IF Root(tree, w) = {} THEN Append(tree, Node(w, 0, 0)) ELSE Below[CHOOSE n \in Root(tree, w) : TRUE]

Build(words) == FoldLeft(Add, <<>>, words)

Distant(a, b, max) == a - b > max \/ b - a > max

Search(tree, query, max) ==
  LET Visited[n \in DOMAIN tree] ==
        LET p == tree[n].parent
        IN  IF p = 0 THEN ~Distant(Len(query), Len(tree[n].word), max)
            ELSE Visited[p] /\ ~Distant(Distance(query, tree[p].word), tree[n].at, max)
  IN  {tree[n].word : n \in {m \in DOMAIN tree : Visited[m] /\ Distance(query, tree[m].word) <= max}}

-----------------------------------------------------------------------------
(* detector.py                                                             *)

Normalized(name) == [i \in DOMAIN name |-> IF name[i] \in DOMAIN LooksLike THEN LooksLike[name[i]] ELSE name[i]]

Parts(name) ==
  LET cuts == <<0>> \o SetToSortSeq({i \in DOMAIN name : name[i] = "-"}, <) \o <<Len(name) + 1>>
  IN  [k \in 1..(Len(cuts) - 1) |-> SubSeq(name, cuts[k] + 1, cuts[k + 1] - 1)]
Count(x, s) == Cardinality({i \in DOMAIN s : s[i] = x})
Permuted(s, t) == s # t /\ Len(s) = Len(t) /\ \A i \in DOMAIN s : Count(s[i], s) = Count(s[i], t)

KeyboardProximity(s, t) ==
  /\ Len(s) = Len(t)
  /\ \E i \in DOMAIN s :
       /\ <<s[i], t[i]>> \in Adjacent
       /\ \A j \in DOMAIN s : s[j] # t[j] <=> j = i

Nearest(q, ws) == {w \in ws : \A v \in ws : Distance(q, w) <= Distance(q, v)}

Verdict(tier, canon) == [tier |-> tier, canon |-> canon]

\* The name that is reported is one of canon: which one is up to the order of
\* a set.
Analyze(words, name) ==
  LET corpus   == ToSet(words)
      tree     == Build(words)
      norm     == Normalized(name)
      permuted == {w \in corpus : Permuted(Parts(name), Parts(w))}
      close    == {w \in corpus : KeyboardProximity(name, w)}
      Near(q)  == Search(tree, q, 2)
  IN  CASE name \in corpus                  -> Verdict("AUTHENTIC", {name})
        [] OTHER ->
      CASE norm # name /\ norm \in corpus   -> Verdict("CRITICAL", {norm})
        [] norm # name /\ norm \notin corpus /\ Near(norm) # {}
                                            -> Verdict("CRITICAL", Nearest(norm, Near(norm)))
        [] OTHER ->
      CASE permuted # {}                    -> Verdict("SUSPICIOUS", permuted)
        [] permuted = {} /\ close # {}      -> Verdict("HIGH", close)
        [] permuted = {} /\ close = {} /\ Near(name) # {}
                                            -> Verdict("HIGH", Nearest(name, Near(name)))
        [] OTHER                            -> Verdict("AUTHENTIC", {})

-----------------------------------------------------------------------------
(* The tree prunes by the triangle inequality, which this distance does    *)
(* not satisfy for all words: "ca", "ac" and "abc" are 1, 1 and 3 apart.   *)

Metric(ws) == \A x, y, z \in ws : Distance(x, z) <= Distance(x, y) + Distance(y, z)

\* Wherever the words and the query satisfy the inequality a search finds
\* every near word, in whatever order the tree was built; elsewhere it may
\* lose some and never reports one that is not near.
SearchExact(words, query) ==
  LET found == Search(Build(words), query, 2)
      near  == {w \in ToSet(words) : Distance(query, w) <= 2}
  IN  found \subseteq near /\ (found = near \/ ~Metric(ToSet(words) \cup {query}))

\* A name is cleared only if nothing of the corpus is near it, as written and
\* as read, and none consists of its parts; whatever is reported is a name of
\* the corpus.  A permutation of parts hides that the name is also near.
VerdictExact(words, name) ==
  LET v == Analyze(words, name)
      Close(w) == Distance(name, w) <= 2 \/ Distance(Normalized(name), w) <= 2 \/ Permuted(Parts(name), Parts(w))
  IN  /\ v.canon \subseteq ToSet(words)
      /\ v.tier # "AUTHENTIC" => v.canon # {} /\ \A w \in v.canon : Close(w)
      /\ v.tier = "AUTHENTIC" =>
           \/ name \in ToSet(words)
           \/ \A w \in ToSet(words) : ~Close(w)
           \/ ~Metric(ToSet(words) \cup {name, Normalized(name)})

=============================================================================
