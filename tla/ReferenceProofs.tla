----------------------------- MODULE ReferenceProofs ---------------------------
(***************************************************************************)
(* For any inputs, what these readers compute is what a plain reading of   *)
(* the data says: the four readers of a version range and the fusion of    *)
(* two ranges, the converters of the advisory sources, the matching of     *)
(* fingerprints, tampering and drift, the edit distance, the tree and the  *)
(* verdict that find a name which imitates another, and the resolution     *)
(* and the export of a client configuration.                               *)
(***************************************************************************)
EXTENDS UnifiedCatalog, Converters, FiniteSetTheorems, NaturalsInduction, WellFoundedInduction, SequenceTheorems, TLAPS

Marks  == INSTANCE Fingerprints
Setups == INSTANCE ClientConfigs
\* Two keys that are neighbours, and one letter that looks like another.
Edits == INSTANCE Typosquat WITH
  Adjacent <- {<<"a", "s">>, <<"s", "a">>},
  LooksLike <- [c \in {"A"} |-> "a"]

LEMMA Below == IsWellFoundedOn({p \in Nat \X Nat : p[1] < p[2]}, Nat)
BY NatLessThanWellFounded DEF OpToRel

\* A set of numbers that is not empty has a least one.
LEMMA LeastOf ==
  ASSUME NEW N, N \subseteq Nat, N # {}
  PROVE  \E n \in N : \A m \in N : n <= m
<1>1. PICK n \in N : \A m \in N : ~ (<<m, n>> \in {p \in Nat \X Nat : p[1] < p[2]})
  BY WFMin, Below
<1>2. \A m \in N : ~ (m < n)
  BY <1>1
<1> QED
  BY <1>2

\* What a fold computes from each part of a finite set.
FoldOf(S, base, c, h, g) ==
  \A s \in SUBSET S : g[s] = IF s = {} THEN base ELSE h[<<c[s], g[s \ {c[s]}]>>]

Parts(S, n) == {s \in SUBSET S : Cardinality(s) <= n}

\* Every fold over a finite set exists.
LEMMA FoldExists ==
  ASSUME NEW S, IsFiniteSet(S), NEW Val, NEW base \in Val, NEW c, NEW h,
         \A s \in SUBSET S : s # {} => c[s] \in s,
         \A x \in S, y \in Val : h[<<x, y>>] \in Val
  PROVE  \E g \in [SUBSET S -> Val] : FoldOf(S, base, c, h, g)
<1> DEFINE Good(n, g) ==
             /\ g \in [Parts(S, n) -> Val]
             /\ \A s \in Parts(S, n) :
                  g[s] = IF s = {} THEN base ELSE h[<<c[s], g[s \ {c[s]}]>>]
           bad == {n \in Nat : \A g : ~ Good(n, g)}
<1>1. \A s \in SUBSET S : /\ IsFiniteSet(s) /\ Cardinality(s) \in Nat
                          /\ Cardinality(s) <= Cardinality(S)
                          /\ Cardinality(s) = 0 <=> s = {}
  BY FS_Subset, FS_CardinalityType, FS_EmptySet
<1>2. \A s \in SUBSET S : s # {} =>
        s \ {c[s]} \in SUBSET S /\ Cardinality(s \ {c[s]}) = Cardinality(s) - 1
  <2> SUFFICES ASSUME NEW s \in SUBSET S, s # {}
               PROVE  Cardinality(s \ {c[s]}) = Cardinality(s) - 1
    OBVIOUS
  <2> QED
    BY <1>1, FS_RemoveElement
<1>0. ASSUME NEW n \in Nat, NEW s
      PROVE  s \in Parts(S, n) <=> s \in SUBSET S /\ Cardinality(s) <= n
  BY DEF Parts
<1>3. bad = {}
  <2>1. SUFFICES ASSUME bad # {} PROVE FALSE
    OBVIOUS
  <2>2. PICK n \in bad : \A m \in bad : n <= m
    <3>1. bad \subseteq Nat
      OBVIOUS
    <3> HIDE DEF bad
    <3> QED
      BY <2>1, <3>1, LeastOf
  <2>3. n \in Nat /\ \A g : ~ Good(n, g)
    BY <2>2
  <2>4. CASE n = 0
    <3>1. ASSUME NEW s \in Parts(S, n) PROVE s = {}
      <4>1. s \in SUBSET S /\ Cardinality(s) <= 0
        BY <1>0, <2>4
      <4>2. Cardinality(s) \in Nat /\ (Cardinality(s) = 0 => s = {})
        BY <1>1, <4>1
      <4> QED
        BY <4>1, <4>2
    <3>2. Good(n, [s \in Parts(S, n) |-> base])
      BY <3>1
    <3> QED
      BY <2>3, <3>2
  <2>5. CASE n # 0
    <3>1. n - 1 \in Nat /\ n - 1 \notin bad
      <4>1. n - 1 \in Nat /\ ~ (n <= n - 1)
        BY <2>3, <2>5
      <4> HIDE DEF bad
      <4> QED
        BY <2>2, <4>1
    <3>2. PICK f : Good(n - 1, f)
      BY <3>1
    <3> DEFINE g == [s \in Parts(S, n) |->
                       IF s = {} THEN base ELSE h[<<c[s], f[s \ {c[s]}]>>]]
    <3>3. ASSUME NEW s \in Parts(S, n), s # {}
          PROVE  /\ s \ {c[s]} \in Parts(S, n - 1)
                 /\ s \ {c[s]} \in Parts(S, n)
                 /\ c[s] \in S
      <4>1. s \in SUBSET S /\ Cardinality(s) <= n /\ c[s] \in S
        BY <1>0, <2>3, <3>3
      <4>2. /\ s \ {c[s]} \in SUBSET S
            /\ Cardinality(s \ {c[s]}) = Cardinality(s) - 1
            /\ Cardinality(s) \in Nat
        BY <1>1, <1>2, <3>3, <4>1
      <4>3. Cardinality(s \ {c[s]}) <= n - 1 /\ Cardinality(s \ {c[s]}) <= n
        BY <2>3, <4>1, <4>2
      <4> QED
        BY <1>0, <2>3, <3>1, <4>1, <4>2, <4>3
    <3>4. g \in [Parts(S, n) -> Val]
      BY <3>2, <3>3
    <3>5. ASSUME NEW s \in Parts(S, n - 1) PROVE g[s] = f[s]
      <4>1. s \in Parts(S, n)
        <5>1. s \in SUBSET S /\ Cardinality(s) <= n - 1
          BY <1>0, <3>1
        <5>2. Cardinality(s) \in Nat
          BY <1>1, <5>1
        <5>3. Cardinality(s) <= n
          BY <2>3, <5>1, <5>2
        <5> QED
          BY <1>0, <2>3, <5>1, <5>3
      <4> QED
        BY <3>2, <4>1
    <3>6. ASSUME NEW s \in Parts(S, n)
          PROVE  g[s] = IF s = {} THEN base ELSE h[<<c[s], g[s \ {c[s]}]>>]
      BY <3>3, <3>5
    <3> HIDE DEF g
    <3>7. Good(n, g)
      BY <3>4, <3>6
    <3> QED
      BY <2>3, <3>7
  <2> QED
    BY <2>4, <2>5
<1>4. Cardinality(S) \in Nat /\ Cardinality(S) \notin bad
  BY <1>3, FS_CardinalityType
<1>5. PICK g : Good(Cardinality(S), g)
  BY <1>4
<1>6. Parts(S, Cardinality(S)) = SUBSET S
  BY <1>1 DEF Parts
<1> QED
  BY <1>5, <1>6 DEF FoldOf

\* The greatest of some of the first n numbers.
LEMMA MaxOf ==
  ASSUME NEW n \in Nat, NEW s \in SUBSET (0..n), s # {}
  PROVE  Max(s) \in s /\ \A x \in s : x <= Max(s)
<1> DEFINE gaps == {n - x : x \in s}
<1>1. gaps \subseteq Nat /\ gaps # {}
  <2>1. PICK x \in s : TRUE
    OBVIOUS
  <2>2. n - x \in gaps
    BY <2>1
  <2>3. \A y \in s : y \in 0..n
    OBVIOUS
  <2> QED
    BY <2>2, <2>3
<1> HIDE DEF gaps
<1>2. PICK g \in gaps : \A m \in gaps : g <= m
  BY <1>1, LeastOf
<1>3. PICK x \in s : g = n - x
  BY <1>2 DEF gaps
<1>4. \A y \in s : n - x <= n - y
  BY <1>2, <1>3 DEF gaps
<1>5. \A y \in s : x >= y
  BY <1>4
<1>6. \E z \in s : \A y \in s : z >= y
  BY <1>5
<1>7. Max(s) \in s /\ \A y \in s : Max(s) >= y
  BY <1>6 DEF Max
<1> QED
  BY <1>7

LEMMA MaxOfFirst ==
  ASSUME NEW k \in Nat, k # 0
  PROVE  Max(1..k) = k /\ (1..k) \ {k} = 1..(k - 1)
<1>1. (1..k) \in SUBSET (0..k) /\ k \in 1..k
  OBVIOUS
<1>2. Max(1..k) \in 1..k /\ \A x \in 1..k : x <= Max(1..k)
  BY <1>1, MaxOf
<1> QED
  BY <1>1, <1>2

\* A fold from the left exists.
LEMMA LeftFoldExists ==
  ASSUME NEW n \in Nat, NEW Val, NEW base \in Val, NEW h,
         \A x \in 1..n, y \in Val : h[<<x, y>>] \in Val
  PROVE  \E g \in [SUBSET (1..n) -> Val] : \A s \in SUBSET (1..n) :
           /\ g[s] = IF s = {} THEN base ELSE h[<<Max(s), g[s \ {Max(s)}]>>]
           /\ s # {} => Max(s) \in 1..n /\ s \ {Max(s)} \in SUBSET (1..n)
<1> DEFINE c == [s \in SUBSET (1..n) |-> Max(s)]
<1>1. IsFiniteSet(1..n)
  BY FS_Interval
<1>2. ASSUME NEW s \in SUBSET (1..n), s # {} PROVE c[s] \in s
  <2>1. s \in SUBSET (0..n)
    OBVIOUS
  <2> QED
    BY <1>2, <2>1, MaxOf
<1>3. \A s \in SUBSET (1..n) : c[s] = Max(s)
  OBVIOUS
<1> HIDE DEF c
<1>4. PICK g \in [SUBSET (1..n) -> Val] : FoldOf(1..n, base, c, h, g)
  BY <1>1, <1>2, FoldExists
<1> QED
  <2> SUFFICES ASSUME NEW s \in SUBSET (1..n)
               PROVE  /\ g[s] = IF s = {} THEN base ELSE h[<<Max(s), g[s \ {Max(s)}]>>]
                      /\ s # {} => Max(s) \in 1..n /\ s \ {Max(s)} \in SUBSET (1..n)
    OBVIOUS
  <2>1. g[s] = IF s = {} THEN base ELSE h[<<Max(s), g[s \ {Max(s)}]>>]
    BY <1>3, <1>4 DEF FoldOf
  <2>2. s # {} => Max(s) \in 1..n /\ s \ {Max(s)} \in SUBSET (1..n)
    BY <1>2, <1>3
  <2> QED
    BY <2>1, <2>2

\* What it computes from the first elements, one by one.
Chain(n, it, st) ==
  /\ st[0] = it[{}] /\ st[n] = it[1..n]
  /\ \A k \in 1..n : /\ (1..k) \in SUBSET (1..n) /\ 1..k # {}
                     /\ st[k] = it[1..k] /\ Max(1..k) = k
                     /\ st[k - 1] = it[(1..k) \ {k}]

LEMMA LeftFoldChain ==
  ASSUME NEW n \in Nat, NEW it
  PROVE  \E st : Chain(n, it, st)
<1> DEFINE st == [k \in 0..n |-> it[1..k]]
<1>1. st[0] = it[{}] /\ st[n] = it[1..n]
  OBVIOUS
<1>2. ASSUME NEW k \in 1..n
      PROVE  /\ (1..k) \in SUBSET (1..n) /\ 1..k # {}
             /\ st[k] = it[1..k] /\ Max(1..k) = k
             /\ st[k - 1] = it[(1..k) \ {k}]
  <2>1. k \in Nat /\ k # 0 /\ k - 1 \in 0..n /\ 1 \in 1..k
    OBVIOUS
  <2>2. Max(1..k) = k /\ (1..k) \ {k} = 1..(k - 1)
    BY <2>1, MaxOfFirst
  <2>3. (1..k) \in SUBSET (1..n) /\ 1..k # {}
    BY <2>1
  <2>4. st[k] = it[1..k] /\ st[k - 1] = it[1..(k - 1)]
    BY <2>1
  <2> HIDE DEF st
  <2> QED
    BY <2>2, <2>3, <2>4
<1> HIDE DEF st
<1>3. Chain(n, it, st)
  BY <1>1, <1>2 DEF Chain
<1> QED
  BY <1>3

-----------------------------------------------------------------------------

\* Events whose versions are any numbers: an excluded version is bumped past the
\* last one.
WideEvents == [intro : Int, end : Ends, at : Int]

LEMMA EventsAreWide ==
  ASSUME NEW events \in Seq(Events)
  PROVE  events \in Seq(WideEvents)
<1>1. Events \subseteq WideEvents
  BY VersionRangesAssumption DEF Events, WideEvents, Versions, None
<1> QED
  BY <1>1, SeqMonotonic

LEMMA EventTyped ==
  ASSUME NEW e \in Events
  PROVE  /\ e.intro \in Int /\ e.intro >= -1 /\ (e.intro # None => e.intro >= 0)
         /\ e.end \in Ends /\ e.at \in Nat
         /\ (e.intro = None => e.end # "none") /\ (e.end = "none" => e.at = 0)
BY VersionRangesAssumption DEF Events, Versions, None

\* What is known of a version after each of the events.
AfterEach(v, events, st) ==
  /\ st[0] = FALSE
  /\ \A k \in 1..Len(events) :
       st[k] = IF events[k].intro # None THEN st[k - 1] \/ v >= events[k].intro
               ELSE st[k - 1] /\ Before(v, events[k].end, events[k].at)

LEMMA AfterEventsUnfolds ==
  ASSUME NEW v, NEW events \in Seq(WideEvents)
  PROVE  \E st : AfterEach(v, events, st)
                   /\ AfterEvents(v, events) = st[Len(events)]
<1> DEFINE n == Len(events)
           Step(hit, e) == IF e.intro # None THEN hit \/ v >= e.intro
                                        ELSE hit /\ Before(v, e.end, e.at)
           Eq(g) == g = [s \in SUBSET (DOMAIN events) |->
                           IF s = {} THEN FALSE
                           ELSE LET x == Max(s)
                                IN  Step(g[s \ {x}], events[x])]
           h == [p \in (1..n) \X BOOLEAN |-> Step(p[2], events[p[1]])]
<1>1. n \in Nat /\ DOMAIN events = 1..n
  OBVIOUS
<1>2. \A x \in 1..n, y \in BOOLEAN : h[<<x, y>>] \in BOOLEAN /\ h[<<x, y>>] = Step(y, events[x])
  OBVIOUS
<1> DEFINE Val == BOOLEAN
           base == FALSE
<1>3. n \in Nat /\ base \in Val /\ \A x \in 1..n, y \in Val : h[<<x, y>>] \in Val
  BY <1>1, <1>2
<1> HIDE DEF h, n, Val, base
<1>4. PICK f \in [SUBSET (1..n) -> Val] : \A s \in SUBSET (1..n) :
           /\ f[s] = IF s = {} THEN base ELSE h[<<Max(s), f[s \ {Max(s)}]>>]
           /\ s # {} => Max(s) \in 1..n /\ s \ {Max(s)} \in SUBSET (1..n)
  BY <1>3, LeftFoldExists
<1>5. ASSUME NEW s \in SUBSET (1..n), s # {}
      PROVE  f[s] = Step(f[s \ {Max(s)}], events[Max(s)])
  <2>1. Max(s) \in 1..n /\ f[s \ {Max(s)}] \in BOOLEAN
    BY <1>4, <1>5 DEF Val
  <2>2. f[s] = h[<<Max(s), f[s \ {Max(s)}]>>]
    BY <1>4, <1>5
  <2> QED
    BY <1>2, <2>1, <2>2
<1>6. f = [s \in SUBSET (1..n) |-> IF s = {} THEN FALSE
                           ELSE Step(f[s \ {Max(s)}], events[Max(s)])]
  <2>1. f = [s \in SUBSET (1..n) |-> f[s]]
    BY <1>4
  <2>2. \A s \in SUBSET (1..n) : f[s] = IF s = {} THEN FALSE
                           ELSE Step(f[s \ {Max(s)}], events[Max(s)])
    BY <1>4, <1>5 DEF base
  <2> HIDE DEF Step
  <2> QED
    BY <2>1, <2>2
<1>7. Eq(f)
  BY <1>1, <1>6
<1>8. AfterEvents(v, events) = (CHOOSE g : Eq(g))[1..n]
  BY <1>1 DEF AfterEvents, FoldLeft, MapThenFoldSet
<1> DEFINE it == CHOOSE g : Eq(g)
<1>9. Eq(it)
  <2> HIDE DEF Eq
  <2> QED
    BY <1>7
<1> HIDE DEF it
<1>10. PICK st : Chain(n, it, st)
  BY <1>1, LeftFoldChain
<1>11. st[0] = FALSE
  BY <1>9, <1>10 DEF Chain
<1>12. ASSUME NEW k \in 1..n PROVE st[k] = Step(st[k - 1], events[k])
  <2>1. it[1..k] = Step(it[(1..k) \ {Max(1..k)}], events[Max(1..k)])
    <3> HIDE DEF Step
    <3> QED
      BY <1>1, <1>9, <1>10 DEF Chain
  <2> QED
    BY <1>10, <2>1 DEF Chain
<1>13. AfterEvents(v, events) = st[n]
  BY <1>8, <1>10 DEF Chain, it
<1> QED
  BY <1>11, <1>12, <1>13 DEF AfterEach, n

\* Among the first m events the defect comes in by v, and the next event does
\* not end it before v.
HitAt(v, events, m, i) ==
  /\ i % 2 = 1 /\ events[i].intro <= v
  /\ i + 1 <= m => Before(v, events[i + 1].end, events[i + 1].at)

Hit(v, events, m) == \E i \in 1..m : HitAt(v, events, m, i)

\* What an alternating sequence of events is, place by place.
LEMMA AlternatingIs ==
  ASSUME NEW events \in Seq(Events), Alternating(events)
  PROVE  /\ \A i \in 1..Len(events) : i % 2 = 1 =>
              events[i].intro \in Nat /\ events[i].intro # None /\ events[i].end = "none"
         /\ \A i \in 1..Len(events) : i % 2 # 1 =>
              events[i].intro = None /\ events[i].end # "none" /\ events[i].at \in Nat
         /\ \A i, j \in 1..Len(events) : i < j =>
              (IF i % 2 = 1 THEN events[i].intro ELSE events[i].at)
                < (IF j % 2 = 1 THEN events[j].intro ELSE events[j].at)
<1>1. \A i \in 1..Len(events) : events[i] \in Events
  OBVIOUS
<1>2. DOMAIN events = 1..Len(events)
  OBVIOUS
<1>3. ASSUME NEW i \in 1..Len(events), i % 2 = 1
      PROVE  events[i].intro \in Nat /\ events[i].intro # None /\ events[i].end = "none"
  <2>1. events[i].intro # None /\ events[i].end = "none"
    BY <1>2, <1>3 DEF Alternating
  <2>2. events[i].intro \in Int /\ events[i].intro >= 0
    BY <1>1, <2>1, EventTyped
  <2> QED
    BY <2>1, <2>2
<1>4. ASSUME NEW i \in 1..Len(events), i % 2 # 1
      PROVE  events[i].intro = None /\ events[i].end # "none" /\ events[i].at \in Nat
  <2>1. events[i].intro = None
    BY <1>2, <1>4 DEF Alternating
  <2> QED
    BY <1>1, <2>1, EventTyped
<1>5. \A i, j \in 1..Len(events) : i < j =>
              (IF i % 2 = 1 THEN events[i].intro ELSE events[i].at)
                < (IF j % 2 = 1 THEN events[j].intro ELSE events[j].at)
  BY <1>2 DEF Alternating
<1> QED
  BY <1>3, <1>4, <1>5

\* An end that comes later is the end of nothing that an earlier one spared.
LEMMA BeforeLater ==
  ASSUME NEW v \in Int, NEW kind, NEW at \in Int, NEW other, NEW later \in Int,
         Before(v, kind, at), at < later
  PROVE  Before(v, other, later)
BY DEF Before

LEMMA HitIsOsv ==
  ASSUME NEW v \in Nat, NEW events \in Seq(Events), Alternating(events)
  PROVE  Hit(v, events, Len(events)) <=> OsvAffected(v, events)
<1> DEFINE n == Len(events)
<1>1. n \in Nat /\ DOMAIN events = 1..n
  OBVIOUS
<1> HIDE DEF n
<1>2. /\ \A i \in 1..n : i % 2 = 1 =>
              events[i].intro \in Nat /\ events[i].intro # None /\ events[i].end = "none"
      /\ \A i \in 1..n : i % 2 # 1 =>
              events[i].intro = None /\ events[i].end # "none" /\ events[i].at \in Nat
      /\ \A i, j \in 1..n : i < j =>
              (IF i % 2 = 1 THEN events[i].intro ELSE events[i].at)
                < (IF j % 2 = 1 THEN events[j].intro ELSE events[j].at)
  BY AlternatingIs DEF n
<1>3. ASSUME NEW i \in 1..n, i % 2 = 1, events[i].intro <= v,
             i + 1 <= n => Before(v, events[i + 1].end, events[i + 1].at),
             NEW j \in 1..n, events[j].end # "none", events[j].at >= events[i].intro
      PROVE  Before(v, events[j].end, events[j].at)
  <2>1. j % 2 # 1 /\ events[j].at \in Nat /\ events[i].intro \in Nat
    BY <1>2, <1>3
  <2>2. ~ (j < i)
    BY <1>2, <1>3, <2>1
  <2>3. j # i
    BY <1>3, <2>1
  <2>4. CASE j = i + 1
    BY <1>3, <2>4
  <2>5. CASE j > i + 1
    <3>1. i + 1 \in 1..n /\ (i + 1) % 2 # 1
      BY <1>1, <1>3, <2>5
    <3>2. events[i + 1].at \in Nat /\ events[i + 1].at < events[j].at
      BY <1>2, <2>1, <2>5, <3>1
    <3>3. Before(v, events[i + 1].end, events[i + 1].at)
      BY <1>1, <1>3, <3>1
    <3> QED
      BY <2>1, <3>2, <3>3, BeforeLater
  <2> QED
    BY <1>1, <2>2, <2>3, <2>4, <2>5
<1>4. ASSUME NEW i \in 1..n, events[i].intro # None, events[i].intro <= v,
             \A j \in 1..n : events[j].end # "none" /\ events[j].at >= events[i].intro =>
               Before(v, events[j].end, events[j].at)
      PROVE  i % 2 = 1 /\ (i + 1 <= n => Before(v, events[i + 1].end, events[i + 1].at))
  <2>1. i % 2 = 1
    BY <1>2, <1>4
  <2>2. ASSUME i + 1 <= n
        PROVE  Before(v, events[i + 1].end, events[i + 1].at)
    <3>1. i + 1 \in 1..n /\ (i + 1) % 2 # 1
      BY <1>1, <2>1, <2>2
    <3>2. events[i].intro < events[i + 1].at /\ events[i].intro \in Nat /\ events[i + 1].at \in Nat
          /\ events[i + 1].end # "none"
      BY <1>2, <2>1, <3>1
    <3> QED
      BY <1>4, <3>1, <3>2
  <2> QED
    BY <2>1, <2>2
<1>5. ASSUME Hit(v, events, n) PROVE OsvAffected(v, events)
  <2>1. PICK i \in 1..n : HitAt(v, events, n, i)
    BY <1>5 DEF Hit, HitAt
  <2>2. events[i].intro # None
    BY <1>2, <2>1 DEF HitAt
  <2> QED
    BY <1>1, <1>3, <2>1, <2>2 DEF OsvAffected, HitAt
<1>6. ASSUME OsvAffected(v, events) PROVE Hit(v, events, n)
  <2>1. PICK i \in 1..n : events[i].intro # None /\ events[i].intro <= v
          /\ \A j \in 1..n : events[j].end # "none" /\ events[j].at >= events[i].intro =>
               Before(v, events[j].end, events[j].at)
    BY <1>1, <1>6 DEF OsvAffected
  <2>2. i % 2 = 1 /\ (i + 1 <= n => Before(v, events[i + 1].end, events[i + 1].at))
    BY <1>4, <2>1
  <2> QED
    BY <2>1, <2>2 DEF Hit, HitAt
<1> QED
  BY <1>5, <1>6 DEF n

LEMMA AfterEventsHit ==
  ASSUME NEW v \in Nat, NEW events \in Seq(Events), Alternating(events)
  PROVE  AfterEvents(v, events) <=> Hit(v, events, Len(events))
<1> DEFINE n == Len(events)
<1>1. n \in Nat
  OBVIOUS
<1>2. PICK st : AfterEach(v, events, st) /\ AfterEvents(v, events) = st[n]
  BY EventsAreWide, AfterEventsUnfolds
<1> DEFINE wrong == {k \in 0..n : ~ (st[k] <=> Hit(v, events, k))}
<1>3. SUFFICES ASSUME wrong # {} PROVE FALSE
  BY <1>1, <1>2
<1>4. PICK k \in wrong : \A m \in wrong : k <= m
  <2>1. wrong \subseteq Nat
    OBVIOUS
  <2> HIDE DEF wrong
  <2> QED
    BY <1>3, <2>1, LeastOf
<1>5. k \in 0..n /\ ~ (st[k] <=> Hit(v, events, k))
  BY <1>4
<1>6. k # 0
  <2>1. ~ st[0]
    BY <1>2 DEF AfterEach
  <2>2. ~ Hit(v, events, 0)
    BY DEF Hit, HitAt
  <2> QED
    BY <1>5, <2>1, <2>2
<1>7. k \in 1..n /\ k - 1 \in 0..n /\ k \in Nat
  BY <1>1, <1>5, <1>6
<1>8. st[k - 1] <=> Hit(v, events, k - 1)
  <2>1. k - 1 \notin wrong
    <3> HIDE DEF wrong
    <3> QED
      BY <1>4, <1>7
  <2> QED
    BY <1>7, <2>1
<1> HIDE DEF wrong, n
<1>9. /\ \A i \in 1..n : i % 2 = 1 =>
              events[i].intro \in Nat /\ events[i].intro # None /\ events[i].end = "none"
      /\ \A i \in 1..n : i % 2 # 1 =>
              events[i].intro = None /\ events[i].end # "none" /\ events[i].at \in Nat
      /\ \A i, j \in 1..n : i < j =>
              (IF i % 2 = 1 THEN events[i].intro ELSE events[i].at)
                < (IF j % 2 = 1 THEN events[j].intro ELSE events[j].at)
  BY AlternatingIs DEF n
<1>10. st[k] <=> IF events[k].intro # None THEN st[k - 1] \/ v >= events[k].intro
                 ELSE st[k - 1] /\ Before(v, events[k].end, events[k].at)
  BY <1>2, <1>7 DEF AfterEach, n
<1>11. CASE k % 2 = 1
  <2>1. st[k] <=> st[k - 1] \/ v >= events[k].intro
    BY <1>7, <1>9, <1>10, <1>11
  <2>2. ASSUME Hit(v, events, k - 1) PROVE Hit(v, events, k)
    <3>1. PICK i \in 1..(k - 1) : HitAt(v, events, k - 1, i)
      BY <2>2 DEF Hit, HitAt
    <3>2. i + 1 <= k - 1
      BY <1>7, <1>11, <3>1 DEF HitAt
    <3>3. i % 2 = 1 /\ events[i].intro <= v /\ Before(v, events[i + 1].end, events[i + 1].at)
      BY <3>1, <3>2 DEF HitAt
    <3>4. i \in 1..k /\ HitAt(v, events, k, i)
      BY <1>7, <3>3 DEF HitAt
    <3> QED
      BY <3>4 DEF Hit
  <2>3. ASSUME v >= events[k].intro PROVE Hit(v, events, k)
    <3>1. events[k].intro \in Nat /\ ~ (k + 1 <= k) /\ k \in 1..k
      BY <1>7, <1>9, <1>11
    <3> QED
      BY <1>11, <2>3, <3>1 DEF Hit, HitAt
  <2>4. ASSUME Hit(v, events, k), ~ (v >= events[k].intro) PROVE Hit(v, events, k - 1)
    <3>1. PICK i \in 1..k : HitAt(v, events, k, i)
      BY <2>4 DEF Hit, HitAt
    <3>2. i # k
      BY <1>7, <1>9, <1>11, <2>4, <3>1 DEF HitAt
    <3>3. i \in 1..(k - 1) /\ i + 1 <= k
      BY <1>7, <3>1, <3>2
    <3> QED
      BY <1>7, <3>1, <3>3 DEF Hit, HitAt
  <2> QED
    BY <1>5, <1>8, <2>1, <2>2, <2>3, <2>4
<1>12. CASE k % 2 # 1
  <2>1. st[k] <=> st[k - 1] /\ Before(v, events[k].end, events[k].at)
    BY <1>7, <1>9, <1>10, <1>12
  <2>2. ASSUME Hit(v, events, k - 1), Before(v, events[k].end, events[k].at)
        PROVE  Hit(v, events, k)
    <3>1. PICK i \in 1..(k - 1) : HitAt(v, events, k - 1, i)
      BY <2>2 DEF Hit, HitAt
    <3>2. i + 1 <= k => Before(v, events[i + 1].end, events[i + 1].at)
      <4>1. i + 1 = k \/ i + 1 <= k - 1
        BY <1>7, <3>1
      <4> QED
        BY <2>2, <3>1, <4>1 DEF HitAt
    <3> QED
      BY <1>7, <3>1, <3>2 DEF Hit, HitAt
  <2>3. ASSUME Hit(v, events, k)
        PROVE  Hit(v, events, k - 1) /\ Before(v, events[k].end, events[k].at)
    <3>1. PICK i \in 1..k : HitAt(v, events, k, i)
      BY <2>3 DEF Hit, HitAt
    <3>2. i \in 1..(k - 1) /\ i + 1 <= k /\ i + 1 \in 1..n /\ (i + 1) % 2 # 1
      <4>1. i % 2 = 1 /\ i # k
        BY <1>12, <3>1 DEF HitAt
      <4>2. i \in 1..(k - 1) /\ i + 1 <= k /\ i + 1 \in 1..n
        BY <1>1, <1>7, <4>1
      <4>3. (i + 1) % 2 # 1
        BY <4>1, <4>2
      <4> QED
        BY <4>2, <4>3
    <3>3. Hit(v, events, k - 1)
      BY <3>1, <3>2 DEF Hit, HitAt
    <3>4. CASE i + 1 = k
      BY <3>1, <3>3, <3>4 DEF HitAt
    <3>5. CASE i + 1 # k
      <4>1. i + 1 < k
        BY <1>7, <3>2, <3>5
      <4>2. /\ events[i + 1].at \in Nat /\ events[k].at \in Nat
            /\ events[i + 1].at < events[k].at
        BY <1>7, <1>9, <1>12, <3>2, <4>1
      <4> QED
        BY <3>1, <3>2, <3>3, <4>2, BeforeLater DEF HitAt
    <3> QED
      BY <3>4, <3>5
  <2> QED
    BY <1>5, <1>8, <2>1, <2>2, <2>3
<1> QED
  BY <1>11, <1>12

\* The intervals of _is_version_in_ranges, as it collects them.
SpanClose(s, fix) == [intro |-> None, last |-> None, done |-> s.done \cup {<<s.intro, fix, s.last>>}]
SpanStep(s, e) ==
  CASE e.intro # None -> [(IF s.intro # None THEN SpanClose(s, None) ELSE s) EXCEPT !.intro = e.intro]
    [] e.intro = None /\ e.end = "fixed" -> SpanClose(s, e.at)
    [] e.intro = None /\ e.end = "last_affected" -> [s EXCEPT !.last = e.at]
    [] OTHER -> s
NoSpan == [intro |-> None, last |-> None, done |-> {}]
SpansOf(s) == IF s.intro = None /\ s.last = None THEN s.done ELSE SpanClose(s, None).done
InSpan(v, i) ==
  /\ i # <<None, None, None>>
  /\ i[1] # None => v >= i[1]
  /\ i[2] # None => v < i[2]
  /\ i[3] # None => v <= i[3]
SpanState == [intro : Int, last : Int, done : SUBSET (Int \X Int \X Int)]

LEMMA SpanTyped ==
  ASSUME NEW s \in SpanState, NEW e \in WideEvents
  PROVE  SpanStep(s, e) \in SpanState
<1>1. e.intro \in Int /\ e.at \in Int
  BY DEF WideEvents
<1>2. None \in Int
  BY DEF None
<1>3. ASSUME NEW fix \in Int PROVE SpanClose(s, fix) \in SpanState
  BY <1>2, <1>3 DEF SpanState, SpanClose
<1>4. CASE e.intro # None
  <2>1. (IF s.intro # None THEN SpanClose(s, None) ELSE s) \in SpanState
    BY <1>2, <1>3
  <2>2. SpanStep(s, e) = [(IF s.intro # None THEN SpanClose(s, None) ELSE s) EXCEPT !.intro = e.intro]
    BY <1>4 DEF SpanStep
  <2> QED
    BY <1>1, <2>1, <2>2 DEF SpanState
<1>5. CASE e.intro = None /\ e.end = "fixed"
  BY <1>1, <1>3, <1>5 DEF SpanStep
<1>6. CASE e.intro = None /\ e.end = "last_affected"
  <2>1. SpanStep(s, e) = [s EXCEPT !.last = e.at]
    BY <1>6 DEF SpanStep
  <2> QED
    BY <1>1, <2>1 DEF SpanState
<1>7. CASE e.intro = None /\ e.end # "fixed" /\ e.end # "last_affected"
  BY <1>7 DEF SpanStep
<1> QED
  BY <1>4, <1>5, <1>6, <1>7

\* What is collected after each of the events.
SpanEach(events, st) ==
  /\ st[0] = NoSpan
  /\ \A k \in 1..Len(events) : st[k] = SpanStep(st[k - 1], events[k])

LEMMA InRangesUnfolds ==
  ASSUME NEW v, NEW events \in Seq(WideEvents)
  PROVE  \E st : /\ SpanEach(events, st) /\ \A k \in 0..Len(events) : st[k] \in SpanState
                 /\ InRanges(v, {[type |-> "SEMVER", events |-> events]})
                      <=> \E i \in SpansOf(st[Len(events)]) : InSpan(v, i)
<1> DEFINE n == Len(events)
           Eq(g) == g = [s \in SUBSET (DOMAIN events) |->
                           IF s = {} THEN NoSpan
                           ELSE LET x == Max(s)
                                IN  SpanStep(g[s \ {x}], events[x])]
           h == [p \in (1..n) \X SpanState |-> SpanStep(p[2], events[p[1]])]
<1>1. n \in Nat /\ DOMAIN events = 1..n
  OBVIOUS
<1>2. ASSUME NEW x \in 1..n, NEW y \in SpanState
      PROVE  h[<<x, y>>] \in SpanState /\ h[<<x, y>>] = SpanStep(y, events[x])
  <2>1. events[x] \in WideEvents
    OBVIOUS
  <2> QED
    BY <2>1, SpanTyped
<1>3. NoSpan \in SpanState
  BY DEF NoSpan, SpanState, None
<1> HIDE DEF h, n
<1>4. PICK f \in [SUBSET (1..n) -> SpanState] : \A s \in SUBSET (1..n) :
           /\ f[s] = IF s = {} THEN NoSpan ELSE h[<<Max(s), f[s \ {Max(s)}]>>]
           /\ s # {} => Max(s) \in 1..n /\ s \ {Max(s)} \in SUBSET (1..n)
  BY <1>1, <1>2, <1>3, LeftFoldExists
<1>5. ASSUME NEW s \in SUBSET (1..n), s # {}
      PROVE  f[s] = SpanStep(f[s \ {Max(s)}], events[Max(s)])
  <2>1. Max(s) \in 1..n /\ f[s \ {Max(s)}] \in SpanState
    BY <1>4, <1>5
  <2>2. f[s] = h[<<Max(s), f[s \ {Max(s)}]>>]
    BY <1>4, <1>5
  <2> QED
    BY <1>2, <2>1, <2>2
<1>6. Eq(f)
  <2>1. f = [s \in SUBSET (1..n) |-> f[s]]
    BY <1>4
  <2>2. \A s \in SUBSET (1..n) : f[s] = IF s = {} THEN NoSpan
                           ELSE SpanStep(f[s \ {Max(s)}], events[Max(s)])
    BY <1>4, <1>5
  <2>3. f = [s \in SUBSET (1..n) |-> IF s = {} THEN NoSpan
                           ELSE SpanStep(f[s \ {Max(s)}], events[Max(s)])]
    BY <2>1, <2>2
  <2> QED
    BY <1>1, <2>3
<1> DEFINE it == CHOOSE g : Eq(g)
<1>7. InRanges(v, {[type |-> "SEMVER", events |-> events]})
        <=> \E i \in SpansOf(it[1..n]) : InSpan(v, i)
  <2>1. InRanges(v, {[type |-> "SEMVER", events |-> events]})
        <=> \E r \in {[type |-> "SEMVER", events |-> events]} :
              \E i \in SpansOf(FoldLeft(SpanStep, NoSpan, r.events)) : InSpan(v, i)
    BY DEF InRanges, SpansOf, InSpan, SpanStep, SpanClose, NoSpan
  <2>2. FoldLeft(SpanStep, NoSpan, events) = it[1..n]
    BY <1>1 DEF FoldLeft, MapThenFoldSet
  <2> HIDE DEF it
  <2> QED
    BY <2>1, <2>2
<1>8. Eq(it)
  <2> HIDE DEF Eq
  <2> QED
    BY <1>6
<1> HIDE DEF it
<1>9. PICK st : Chain(n, it, st)
  BY <1>1, LeftFoldChain
<1>10. st[0] = NoSpan
  BY <1>8, <1>9 DEF Chain
<1>11. ASSUME NEW k \in 1..n PROVE st[k] = SpanStep(st[k - 1], events[k])
  <2>1. it[1..k] = SpanStep(it[(1..k) \ {Max(1..k)}], events[Max(1..k)])
    BY <1>1, <1>8, <1>9 DEF Chain
  <2> QED
    BY <1>9, <2>1 DEF Chain
<1>12. st[n] = it[1..n]
  BY <1>9 DEF Chain
<1> DEFINE untyped == {k \in 0..n : st[k] \notin SpanState}
<1>13. untyped = {}
  <2>1. SUFFICES ASSUME untyped # {} PROVE FALSE
    OBVIOUS
  <2>2. untyped \subseteq Nat
    OBVIOUS
  <2>3. PICK k \in untyped : \A m \in untyped : k <= m
    <3> HIDE DEF untyped
    <3> QED
      BY <2>1, <2>2, LeastOf
  <2>4. k \in 0..n /\ st[k] \notin SpanState
    BY <2>3
  <2>5. k # 0
    BY <1>3, <1>10, <2>4
  <2>6. k \in 1..n /\ k - 1 \in 0..n /\ ~ (k <= k - 1)
    BY <1>1, <2>4, <2>5
  <2>7. st[k - 1] \in SpanState
    <3>1. k - 1 \notin untyped
      <4> HIDE DEF untyped
      <4> QED
        BY <2>3, <2>6
    <3> QED
      BY <2>6, <3>1
  <2> QED
    BY <1>2, <1>11, <2>4, <2>6, <2>7
<1>14. \A k \in 0..n : st[k] \in SpanState
  BY <1>13
<1> QED
  BY <1>7, <1>10, <1>11, <1>12, <1>14 DEF SpanEach, n

\* The interval an odd event opens.
SpanAt(events, i, m) ==
  IF i + 1 <= m
    THEN <<events[i].intro, IF events[i + 1].end = "fixed" THEN events[i + 1].at ELSE None,
           IF events[i + 1].end = "fixed" THEN None ELSE events[i + 1].at>>
    ELSE <<events[i].intro, None, None>>

Spans(events, m) == {SpanAt(events, i, m) : i \in {j \in 1..m : j % 2 = 1}}

LEMMA SpansGrow ==
  ASSUME NEW events, NEW m \in Nat, m >= 1, m % 2 # 1
  PROVE  Spans(events, m) = Spans(events, m - 2) \cup {SpanAt(events, m - 1, m)}
<1>1. m >= 2 /\ m - 2 \in Nat /\ m - 1 \in 1..m /\ (m - 1) % 2 = 1
  OBVIOUS
<1>2. ASSUME NEW i \in 1..m, i % 2 = 1
      PROVE  i = m - 1 \/ (i \in 1..(m - 2) /\ i + 1 <= m - 2)
  <2>1. i # m
    BY <1>2
  <2>2. CASE i = m - 2
    BY <1>1, <1>2, <2>2
  <2>3. CASE i # m - 2
    BY <1>1, <2>1, <2>3
  <2> QED
    BY <2>2, <2>3
<1>3. ASSUME NEW i \in 1..(m - 2), i % 2 = 1
      PROVE  i \in 1..m /\ i + 1 <= m - 2 /\ SpanAt(events, i, m - 2) = SpanAt(events, i, m)
  <2>1. i \in 1..m /\ i # m - 1 /\ i # m
    BY <1>1
  <2>2. i + 1 <= m - 2
    BY <1>2, <1>3, <2>1
  <2>3. i + 1 <= m
    BY <1>1, <2>2
  <2> QED
    BY <2>1, <2>2, <2>3 DEF SpanAt
<1>4. \A x : x \in Spans(events, m) <=> x \in Spans(events, m - 2) \cup {SpanAt(events, m - 1, m)}
  <2> SUFFICES ASSUME NEW x
               PROVE  x \in Spans(events, m)
                        <=> x \in Spans(events, m - 2) \cup {SpanAt(events, m - 1, m)}
    OBVIOUS
  <2>1. ASSUME x \in Spans(events, m)
        PROVE  x \in Spans(events, m - 2) \cup {SpanAt(events, m - 1, m)}
    <3>1. PICK i \in 1..m : i % 2 = 1 /\ x = SpanAt(events, i, m)
      BY <2>1 DEF Spans
    <3>2. CASE i = m - 1
      BY <3>1, <3>2
    <3>3. CASE i \in 1..(m - 2)
      BY <1>3, <3>1, <3>3 DEF Spans
    <3> QED
      BY <1>2, <3>1, <3>2, <3>3
  <2>2. ASSUME x \in Spans(events, m - 2) PROVE x \in Spans(events, m)
    <3>1. PICK i \in 1..(m - 2) : i % 2 = 1 /\ x = SpanAt(events, i, m - 2)
      BY <2>2 DEF Spans
    <3>2. i \in 1..m /\ x = SpanAt(events, i, m)
      BY <1>3, <3>1
    <3> QED
      BY <3>1, <3>2 DEF Spans
  <2>3. SpanAt(events, m - 1, m) \in Spans(events, m)
    BY <1>1 DEF Spans
  <2> QED
    BY <2>1, <2>2, <2>3
<1> QED
  BY <1>4, SMT

\* How far the collection has come after k events: the interval that is open
\* has not been collected.
SpansSoFar(events, k, s) ==
  /\ k % 2 = 1 => s = [intro |-> events[k].intro, last |-> None, done |-> Spans(events, k - 1)]
  /\ k % 2 # 1 =>
       \/ (k = 0 \/ events[k].end = "fixed") /\ s = [intro |-> None, last |-> None, done |-> Spans(events, k)]
       \/ k # 0 /\ events[k].end = "last_affected"
            /\ s = [intro |-> events[k - 1].intro, last |-> events[k].at, done |-> Spans(events, k - 2)]

LEMMA SpansStep ==
  ASSUME NEW events \in Seq(Events), Alternating(events), NoLimit(events),
         NEW k \in 1..Len(events), NEW s, SpansSoFar(events, k - 1, s)
  PROVE  SpansSoFar(events, k, SpanStep(s, events[k]))
<1> DEFINE n == Len(events)
<1>1. n \in Nat /\ DOMAIN events = 1..n /\ k \in Nat
  OBVIOUS
<1>2. /\ \A i \in 1..n : i % 2 = 1 =>
              events[i].intro \in Nat /\ events[i].intro # None /\ events[i].end = "none"
      /\ \A i \in 1..n : i % 2 # 1 =>
              events[i].intro = None /\ events[i].end # "none" /\ events[i].at \in Nat
  BY AlternatingIs
<1>3. \A i \in 1..n : i % 2 # 1 => events[i].end \in {"fixed", "last_affected"}
  <2> SUFFICES ASSUME NEW i \in 1..n, i % 2 # 1
               PROVE  events[i].end \in {"fixed", "last_affected"}
    OBVIOUS
  <2>1. events[i] \in Events /\ events[i].end # "none" /\ events[i].end # "limit"
    BY <1>1, <1>2 DEF NoLimit
  <2>2. events[i].end \in Ends
    BY <2>1, EventTyped
  <2> QED
    BY <2>1, <2>2 DEF Ends
<1> HIDE DEF n
<1>4. CASE k % 2 = 1
  <2>1. (k - 1) % 2 # 1
    BY <1>1, <1>4
  <2>2. events[k].intro # None
    BY <1>2, <1>4 DEF n
  <2>3. SpanStep(s, events[k])
          = [(IF s.intro # None THEN SpanClose(s, None) ELSE s) EXCEPT !.intro = events[k].intro]
    BY <2>2 DEF SpanStep
  <2>4. CASE s = [intro |-> None, last |-> None, done |-> Spans(events, k - 1)]
    BY <1>4, <2>3, <2>4 DEF SpansSoFar
  <2>5. CASE /\ k - 1 # 0 /\ events[k - 1].end = "last_affected"
             /\ s = [intro |-> events[k - 2].intro, last |-> events[k - 1].at, done |-> Spans(events, k - 3)]
    <3>1. k - 1 \in 1..n /\ k - 2 \in 1..n /\ (k - 2) % 2 = 1 /\ k - 1 \in Nat /\ k - 1 >= 1
      BY <1>1, <1>4, <2>5 DEF n
    <3>2. events[k - 2].intro # None
      BY <1>2, <3>1
    <3>3. SpanAt(events, k - 2, k - 1) = <<events[k - 2].intro, None, events[k - 1].at>>
      BY <2>5, <3>1 DEF SpanAt
    <3>4. Spans(events, k - 1) = Spans(events, k - 3) \cup {SpanAt(events, k - 2, k - 1)}
      BY <2>1, <3>1, SpansGrow
    <3>5. SpanClose(s, None) = [intro |-> None, last |-> None, done |-> Spans(events, k - 1)]
      BY <2>5, <3>3, <3>4 DEF SpanClose
    <3>6. SpanStep(s, events[k]) = [SpanClose(s, None) EXCEPT !.intro = events[k].intro]
      BY <2>3, <2>5, <3>2
    <3> QED
      BY <1>4, <3>5, <3>6 DEF SpansSoFar
  <2>6. k - 1 - 1 = k - 2 /\ k - 1 - 2 = k - 3
    BY <1>1
  <2> QED
    BY <2>1, <2>4, <2>5, <2>6 DEF SpansSoFar
<1>5. CASE k % 2 # 1
  <2>1. (k - 1) % 2 = 1 /\ k - 1 \in 1..n /\ k >= 1
    BY <1>1, <1>5 DEF n
  <2>2. s = [intro |-> events[k - 1].intro, last |-> None, done |-> Spans(events, k - 2)]
    <3>1. k - 1 - 1 = k - 2
      BY <1>1
    <3> QED
      BY <2>1, <3>1 DEF SpansSoFar
  <2>3. events[k].intro = None
    BY <1>2, <1>5 DEF n
  <2>4. CASE events[k].end = "fixed"
    <3>1. SpanStep(s, events[k]) = SpanClose(s, events[k].at)
      BY <2>3, <2>4 DEF SpanStep
    <3>2. k - 1 + 1 = k
      BY <1>1
    <3>3. SpanAt(events, k - 1, k) = <<events[k - 1].intro, events[k].at, None>>
      BY <1>1, <2>4, <3>2 DEF SpanAt
    <3>4. Spans(events, k) = Spans(events, k - 2) \cup {SpanAt(events, k - 1, k)}
      BY <1>1, <1>5, <2>1, SpansGrow
    <3>5. SpanClose(s, events[k].at) = [intro |-> None, last |-> None, done |-> Spans(events, k)]
      BY <2>2, <3>3, <3>4 DEF SpanClose
    <3> QED
      BY <1>5, <2>4, <3>1, <3>5 DEF SpansSoFar
  <2>5. CASE events[k].end = "last_affected"
    <3>1. SpanStep(s, events[k]) = [s EXCEPT !.last = events[k].at]
      BY <2>3, <2>5 DEF SpanStep
    <3>2. SpanStep(s, events[k]) = [intro |-> events[k - 1].intro, last |-> events[k].at, done |-> Spans(events, k - 2)]
      BY <2>2, <3>1
    <3> QED
      BY <1>1, <1>5, <2>1, <2>5, <3>2 DEF SpansSoFar
  <2> QED
    BY <1>3, <1>5, <2>4, <2>5 DEF n
<1> QED
  BY <1>4, <1>5

\* In the end all of them are there.
LEMMA SpansEnd ==
  ASSUME NEW events \in Seq(Events), Alternating(events), NoLimit(events),
         NEW s, SpansSoFar(events, Len(events), s)
  PROVE  SpansOf(s) = Spans(events, Len(events))
<1> DEFINE n == Len(events)
<1>1. n \in Nat
  OBVIOUS
<1>2. /\ \A i \in 1..n : i % 2 = 1 =>
              events[i].intro \in Nat /\ events[i].intro # None /\ events[i].end = "none"
      /\ \A i \in 1..n : i % 2 # 1 =>
              events[i].intro = None /\ events[i].end # "none" /\ events[i].at \in Nat
  BY AlternatingIs
<1>3. SpansSoFar(events, n, s)
  OBVIOUS
<1> HIDE DEF n
<1>4. CASE n % 2 = 1
  <2>1. s = [intro |-> events[n].intro, last |-> None, done |-> Spans(events, n - 1)]
    BY <1>3, <1>4 DEF SpansSoFar
  <2>2. n \in 1..n /\ events[n].intro # None
    BY <1>1, <1>2, <1>4
  <2>3. SpansOf(s) = Spans(events, n - 1) \cup {<<events[n].intro, None, None>>}
    BY <2>1, <2>2 DEF SpansOf, SpanClose
  <2>4. SpanAt(events, n, n) = <<events[n].intro, None, None>>
    BY <1>1 DEF SpanAt
  <2>5. ASSUME NEW i \in 1..(n - 1), i % 2 = 1
        PROVE  SpanAt(events, i, n - 1) = SpanAt(events, i, n)
    <3>1. i # n - 1
      BY <1>1, <1>4, <2>5
    <3>2. i + 1 <= n - 1 /\ i + 1 <= n
      BY <1>1, <3>1
    <3> QED
      BY <3>2 DEF SpanAt
  <2>6. \A x : x \in Spans(events, n) <=> x \in Spans(events, n - 1) \cup {SpanAt(events, n, n)}
    <3> SUFFICES ASSUME NEW x
                 PROVE  x \in Spans(events, n) <=> x \in Spans(events, n - 1) \cup {SpanAt(events, n, n)}
      OBVIOUS
    <3>1. ASSUME x \in Spans(events, n)
          PROVE  x \in Spans(events, n - 1) \cup {SpanAt(events, n, n)}
      <4>1. PICK i \in 1..n : i % 2 = 1 /\ x = SpanAt(events, i, n)
        BY <3>1 DEF Spans
      <4>2. i = n \/ i \in 1..(n - 1)
        BY <1>1
      <4> QED
        BY <2>5, <4>1, <4>2 DEF Spans
    <3>2. ASSUME x \in Spans(events, n - 1) PROVE x \in Spans(events, n)
      <4>1. PICK i \in 1..(n - 1) : i % 2 = 1 /\ x = SpanAt(events, i, n - 1)
        BY <3>2 DEF Spans
      <4>2. i \in 1..n
        BY <1>1
      <4> QED
        BY <2>5, <4>1, <4>2 DEF Spans
    <3>3. SpanAt(events, n, n) \in Spans(events, n)
      BY <1>4, <2>2 DEF Spans
    <3> QED
      BY <3>1, <3>2, <3>3
  <2>7. Spans(events, n) = Spans(events, n - 1) \cup {SpanAt(events, n, n)}
    BY <2>6, SMT
  <2> QED
    BY <2>3, <2>4, <2>7 DEF n
<1>5. CASE n % 2 # 1 /\ (n = 0 \/ events[n].end = "fixed")
           /\ s = [intro |-> None, last |-> None, done |-> Spans(events, n)]
  BY <1>5 DEF SpansOf, n
<1>6. CASE n % 2 # 1 /\ n # 0 /\ events[n].end = "last_affected"
           /\ s = [intro |-> events[n - 1].intro, last |-> events[n].at, done |-> Spans(events, n - 2)]
  <2>1. n - 1 \in 1..n /\ n \in 1..n /\ (n - 1) % 2 = 1 /\ n >= 1 /\ n - 1 + 1 = n
    BY <1>1, <1>6
  <2>2. events[n].at # None /\ events[n - 1].intro # None
    <3>1. events[n].at \in Nat /\ events[n - 1].intro # None
      BY <1>2, <1>6, <2>1
    <3>2. \A x \in Nat : x # None
      BY DEF None
    <3> QED
      BY <3>1, <3>2
  <2>3. SpansOf(s) = Spans(events, n - 2) \cup {<<events[n - 1].intro, None, events[n].at>>}
    BY <1>6, <2>2 DEF SpansOf, SpanClose
  <2>4. SpanAt(events, n - 1, n) = <<events[n - 1].intro, None, events[n].at>>
    BY <1>1, <1>6, <2>1 DEF SpanAt
  <2>5. Spans(events, n) = Spans(events, n - 2) \cup {SpanAt(events, n - 1, n)}
    BY <1>1, <1>6, <2>1, SpansGrow
  <2> QED
    BY <2>3, <2>4, <2>5 DEF n
<1> QED
  BY <1>3, <1>4, <1>5, <1>6 DEF SpansSoFar

LEMMA SpansAreHits ==
  ASSUME NEW v \in Nat, NEW events \in Seq(Events), Alternating(events), NoLimit(events)
  PROVE  (\E x \in Spans(events, Len(events)) : InSpan(v, x)) <=> Hit(v, events, Len(events))
<1> DEFINE n == Len(events)
<1>1. n \in Nat /\ DOMAIN events = 1..n
  OBVIOUS
<1>2. /\ \A i \in 1..n : i % 2 = 1 =>
              events[i].intro \in Nat /\ events[i].intro # None /\ events[i].end = "none"
      /\ \A i \in 1..n : i % 2 # 1 =>
              events[i].intro = None /\ events[i].end # "none" /\ events[i].at \in Nat
  BY AlternatingIs
<1>3. \A i \in 1..n : i % 2 # 1 => events[i].end \in {"fixed", "last_affected"}
  <2> SUFFICES ASSUME NEW i \in 1..n, i % 2 # 1
               PROVE  events[i].end \in {"fixed", "last_affected"}
    OBVIOUS
  <2>1. events[i] \in Events /\ events[i].end # "none" /\ events[i].end # "limit"
    BY <1>1, <1>2 DEF NoLimit
  <2>2. events[i].end \in Ends
    BY <2>1, EventTyped
  <2> QED
    BY <2>1, <2>2 DEF Ends
<1> HIDE DEF n
<1>4. ASSUME NEW i \in 1..n, i % 2 = 1
      PROVE  InSpan(v, SpanAt(events, i, n)) <=> HitAt(v, events, n, i)
  <2>1. events[i].intro \in Nat /\ events[i].intro # None
    BY <1>2, <1>4
  <2>2. CASE i + 1 <= n
    <3>1. i + 1 \in 1..n /\ (i + 1) % 2 # 1
      BY <1>1, <1>4, <2>2
    <3>2. events[i + 1].end \in {"fixed", "last_affected"} /\ events[i + 1].at \in Nat
      BY <1>2, <1>3, <3>1
    <3>3. CASE events[i + 1].end = "fixed"
      <4>1. SpanAt(events, i, n) = <<events[i].intro, events[i + 1].at, None>>
        BY <2>2, <3>3 DEF SpanAt
      <4> QED
        BY <1>4, <2>1, <2>2, <3>2, <3>3, <4>1 DEF InSpan, HitAt, Before, None
    <3>4. CASE events[i + 1].end = "last_affected"
      <4>1. SpanAt(events, i, n) = <<events[i].intro, None, events[i + 1].at>>
        BY <2>2, <3>4 DEF SpanAt
      <4> QED
        BY <1>4, <2>1, <2>2, <3>2, <3>4, <4>1 DEF InSpan, HitAt, Before, None
    <3> QED
      BY <3>2, <3>3, <3>4
  <2>3. CASE ~ (i + 1 <= n)
    <3>1. SpanAt(events, i, n) = <<events[i].intro, None, None>>
      BY <2>3 DEF SpanAt
    <3> QED
      BY <1>4, <2>1, <2>3, <3>1 DEF InSpan, HitAt
  <2> QED
    BY <2>2, <2>3
<1>5. ASSUME NEW x \in Spans(events, n), InSpan(v, x) PROVE Hit(v, events, n)
  <2>1. PICK i \in 1..n : i % 2 = 1 /\ x = SpanAt(events, i, n)
    BY <1>5 DEF Spans
  <2> QED
    BY <1>4, <1>5, <2>1 DEF Hit
<1>6. ASSUME Hit(v, events, n) PROVE \E x \in Spans(events, n) : InSpan(v, x)
  <2>1. PICK i \in 1..n : HitAt(v, events, n, i)
    BY <1>6 DEF Hit
  <2>2. i % 2 = 1
    BY <2>1 DEF HitAt
  <2>3. SpanAt(events, i, n) \in Spans(events, n)
    BY <2>2 DEF Spans
  <2> QED
    BY <1>4, <2>1, <2>2, <2>3
<1> QED
  BY <1>5, <1>6 DEF n

LEMMA InRangesHit ==
  ASSUME NEW v \in Nat, NEW events \in Seq(Events), Alternating(events), NoLimit(events)
  PROVE  InRanges(v, {[type |-> "SEMVER", events |-> events]}) <=> Hit(v, events, Len(events))
<1> DEFINE n == Len(events)
<1>1. n \in Nat
  OBVIOUS
<1>2. PICK st : /\ SpanEach(events, st)
                /\ InRanges(v, {[type |-> "SEMVER", events |-> events]})
                     <=> \E i \in SpansOf(st[Len(events)]) : InSpan(v, i)
  BY EventsAreWide, InRangesUnfolds
<1> DEFINE wrong == {k \in 0..n : ~ SpansSoFar(events, k, st[k])}
<1>3. wrong = {}
  <2>1. SUFFICES ASSUME wrong # {} PROVE FALSE
    OBVIOUS
  <2>2. PICK k \in wrong : \A m \in wrong : k <= m
    <3>1. wrong \subseteq Nat
      OBVIOUS
    <3> HIDE DEF wrong
    <3> QED
      BY <2>1, <3>1, LeastOf
  <2>3. k \in 0..n /\ ~ SpansSoFar(events, k, st[k])
    BY <2>2
  <2>4. k # 0
    <3>1. Spans(events, 0) = {}
      BY DEF Spans
    <3>2. SpansSoFar(events, 0, st[0])
      <4>1. st[0] = [intro |-> None, last |-> None, done |-> Spans(events, 0)]
        BY <1>2, <3>1 DEF SpanEach, NoSpan
      <4>2. 0 % 2 # 1
        OBVIOUS
      <4> QED
        BY <4>1, <4>2 DEF SpansSoFar
    <3> QED
      BY <2>3, <3>2
  <2>5. k \in 1..n /\ k - 1 \in 0..n /\ ~ (k <= k - 1)
    BY <1>1, <2>3, <2>4
  <2>6. SpansSoFar(events, k - 1, st[k - 1])
    <3>1. k - 1 \notin wrong
      <4> HIDE DEF wrong
      <4> QED
        BY <2>2, <2>5
    <3> QED
      BY <2>5, <3>1
  <2>7. st[k] = SpanStep(st[k - 1], events[k])
    BY <1>2, <2>5 DEF SpanEach
  <2> QED
    BY <2>3, <2>5, <2>6, <2>7, SpansStep
<1>4. SpansSoFar(events, n, st[n])
  BY <1>1, <1>3
<1>5. SpansOf(st[n]) = Spans(events, n)
  BY <1>4, SpansEnd
<1> QED
  BY <1>2, <1>5, SpansAreHits

\* The pipeline and the audit matcher read every range whose events alternate
\* as OSV does, however many they are: they never disagree on one
\* (pipeline.py is_version_affected, audit/matcher.py _is_version_in_ranges).
THEOREM ReadersAgree ==
  ASSUME NEW events \in Seq(Events)
  PROVE  PipelineExact(events) /\ MatcherExact(events)
<1>1. \A v \in Versions : v \in Nat
  BY VersionRangesAssumption DEF Versions
<1>2. ASSUME Alternating(events), NEW v \in Versions
      PROVE  IsVersionAffected(v, {[type |-> "SEMVER", events |-> events]}) = OsvAffected(v, events)
  <2> DEFINE r == [type |-> "SEMVER", events |-> events]
  <2>1. r.type = "SEMVER" /\ r.events = events
    OBVIOUS
  <2>2. {x \in {r} : x.type = "SEMVER"} = {r}
    BY <2>1
  <2>3. IsVersionAffected(v, {r}) <=> \E x \in {r} : AfterEvents(v, x.events)
    <3> HIDE DEF r
    <3>1. {x \in {r} : x.type = "SEMVER"} # {}
      BY <2>2
    <3> QED
      BY <2>2, <3>1 DEF IsVersionAffected
  <2>4. IsVersionAffected(v, {r}) <=> AfterEvents(v, events)
    BY <2>1, <2>3
  <2>5. IsVersionAffected(v, {r}) <=> OsvAffected(v, events)
    BY <1>1, <1>2, <2>4, AfterEventsHit, HitIsOsv
  <2>6. IsVersionAffected(v, {r}) \in BOOLEAN /\ OsvAffected(v, events) \in BOOLEAN
    BY DEF IsVersionAffected, OsvAffected
  <2> QED
    BY <2>5, <2>6
<1>3. ASSUME Alternating(events), NoLimit(events), NEW v \in Versions
      PROVE  InRanges(v, {[type |-> "SEMVER", events |-> events]}) = OsvAffected(v, events)
  <2>1. InRanges(v, {[type |-> "SEMVER", events |-> events]}) <=> OsvAffected(v, events)
    BY <1>1, <1>3, InRangesHit, HitIsOsv
  <2>2. InRanges(v, {[type |-> "SEMVER", events |-> events]}) \in BOOLEAN
          /\ OsvAffected(v, events) \in BOOLEAN
    BY DEF InRanges, OsvAffected
  <2> QED
    BY <2>1, <2>2
<1> QED
  BY <1>2, <1>3 DEF PipelineExact, MatcherExact

OfflineStep(s, e) == [intro |-> IF e.intro # None THEN e.intro ELSE s.intro,
                      fix   |-> IF e.end = "fixed" THEN e.at ELSE s.fix,
                      last  |-> IF e.end = "last_affected" THEN e.at ELSE s.last]
OfflineNothing == [intro |-> None, fix |-> None, last |-> None]
OfflineState == [intro : Int, fix : Int, last : Int]

LEMMA OfflineTyped ==
  ASSUME NEW s \in OfflineState, NEW e \in Events PROVE OfflineStep(s, e) \in OfflineState
<1>1. e.intro \in Int /\ e.at \in Int
  BY EventTyped
<1> QED
  BY <1>1 DEF OfflineStep, OfflineState

\* What the offline bundle has read after each of the events.
LEMMA OfflineUnfolds ==
  ASSUME NEW seq \in Seq(Events)
  PROVE  \E st : /\ st[0] = OfflineNothing /\ \A k \in 0..Len(seq) : st[k] \in OfflineState
                 /\ \A k \in 1..Len(seq) : st[k] = OfflineStep(st[k - 1], seq[k])
                 /\ FoldLeft(OfflineStep, OfflineNothing, seq) = st[Len(seq)]
<1> DEFINE n == Len(seq)
           Eq(g) == g = [s \in SUBSET (DOMAIN seq) |->
                           IF s = {} THEN OfflineNothing
                           ELSE LET x == Max(s)
                                IN  OfflineStep(g[s \ {x}], seq[x])]
           h == [p \in (1..n) \X OfflineState |-> OfflineStep(p[2], seq[p[1]])]
<1>1. n \in Nat /\ DOMAIN seq = 1..n
  OBVIOUS
<1>2. ASSUME NEW x \in 1..n, NEW y \in OfflineState
      PROVE  h[<<x, y>>] \in OfflineState /\ h[<<x, y>>] = OfflineStep(y, seq[x])
  <2>1. seq[x] \in Events
    OBVIOUS
  <2>2. OfflineStep(y, seq[x]) \in OfflineState
    BY <2>1, OfflineTyped
  <2> QED
    BY <2>2
<1>3. OfflineNothing \in OfflineState
  BY DEF OfflineNothing, OfflineState, None
<1> HIDE DEF h, n
<1>4. PICK f \in [SUBSET (1..n) -> OfflineState] : \A s \in SUBSET (1..n) :
           /\ f[s] = IF s = {} THEN OfflineNothing ELSE h[<<Max(s), f[s \ {Max(s)}]>>]
           /\ s # {} => Max(s) \in 1..n /\ s \ {Max(s)} \in SUBSET (1..n)
  BY <1>1, <1>2, <1>3, LeftFoldExists
<1>5. ASSUME NEW s \in SUBSET (1..n), s # {}
      PROVE  f[s] = OfflineStep(f[s \ {Max(s)}], seq[Max(s)])
  <2>1. Max(s) \in 1..n /\ f[s \ {Max(s)}] \in OfflineState
    BY <1>4, <1>5
  <2>2. f[s] = h[<<Max(s), f[s \ {Max(s)}]>>]
    BY <1>4, <1>5
  <2> QED
    BY <1>2, <2>1, <2>2
<1>6. Eq(f)
  <2>1. f = [s \in SUBSET (1..n) |-> f[s]]
    BY <1>4
  <2>2. \A s \in SUBSET (1..n) : f[s] = IF s = {} THEN OfflineNothing
                           ELSE OfflineStep(f[s \ {Max(s)}], seq[Max(s)])
    BY <1>4, <1>5
  <2>3. f = [s \in SUBSET (1..n) |-> IF s = {} THEN OfflineNothing
                           ELSE OfflineStep(f[s \ {Max(s)}], seq[Max(s)])]
    BY <2>1, <2>2
  <2> QED
    BY <1>1, <2>3
<1> DEFINE it == CHOOSE g : Eq(g)
<1>7. FoldLeft(OfflineStep, OfflineNothing, seq) = it[1..n]
  BY <1>1 DEF FoldLeft, MapThenFoldSet
<1>8. Eq(it)
  <2> HIDE DEF Eq
  <2> QED
    BY <1>6
<1> HIDE DEF it
<1>9. PICK st : Chain(n, it, st)
  BY <1>1, LeftFoldChain
<1>10. st[0] = OfflineNothing
  BY <1>8, <1>9 DEF Chain
<1>11. ASSUME NEW k \in 1..n PROVE st[k] = OfflineStep(st[k - 1], seq[k])
  <2>1. it[1..k] = OfflineStep(it[(1..k) \ {Max(1..k)}], seq[Max(1..k)])
    BY <1>1, <1>8, <1>9 DEF Chain
  <2> QED
    BY <1>9, <2>1 DEF Chain
<1>12. st[n] = it[1..n]
  BY <1>9 DEF Chain
<1> DEFINE untyped == {k \in 0..n : st[k] \notin OfflineState}
<1>13. untyped = {}
  <2>1. SUFFICES ASSUME untyped # {} PROVE FALSE
    OBVIOUS
  <2>2. untyped \subseteq Nat
    OBVIOUS
  <2>3. PICK k \in untyped : \A m \in untyped : k <= m
    <3> HIDE DEF untyped
    <3> QED
      BY <2>1, <2>2, LeastOf
  <2>4. k \in 0..n /\ st[k] \notin OfflineState
    BY <2>3
  <2>5. k # 0
    BY <1>3, <1>10, <2>4
  <2>6. k \in 1..n /\ k - 1 \in 0..n /\ ~ (k <= k - 1)
    BY <1>1, <2>4, <2>5
  <2>7. st[k - 1] \in OfflineState
    <3>1. k - 1 \notin untyped
      <4> HIDE DEF untyped
      <4> QED
        BY <2>3, <2>6
    <3> QED
      BY <2>6, <3>1
  <2> QED
    BY <1>2, <1>11, <2>4, <2>6, <2>7
<1>14. \A k \in 0..n : st[k] \in OfflineState
  BY <1>13
<1> QED
  BY <1>7, <1>10, <1>11, <1>12, <1>14 DEF n

\* The offline bundle agrees with OSV on a range of one interval (query.py
\* is_vulnerable).
THEOREM OfflineIsExact ==
  ASSUME NEW events \in Seq(Events)
  PROVE  OfflineExact(events)
<1> SUFFICES ASSUME Alternating(events), NoLimit(events), Len(events) <= 2, NEW v \in Versions
             PROVE  OfflineVulnerable(v, {[type |-> "SEMVER", events |-> events]}) = OsvAffected(v, events)
  BY DEF OfflineExact
<1> DEFINE n == Len(events)
           Told(es) == FoldLeft(OfflineStep, OfflineNothing, es)
           Tells(u) == /\ u # OfflineNothing
                       /\ u.intro # None => v >= u.intro
                       /\ u.fix # None => v < u.fix
                       /\ u.last # None => v <= u.last
<1>1. n \in Nat /\ n <= 2 /\ DOMAIN events = 1..n /\ v \in Nat
  BY VersionRangesAssumption DEF Versions
<1>2. PICK st : /\ st[0] = OfflineNothing
                /\ \A k \in 1..n : st[k] = OfflineStep(st[k - 1], events[k])
                /\ Told(events) = st[n]
  BY OfflineUnfolds
<1> DEFINE s == st[n]
<1>3. OfflineVulnerable(v, {[type |-> "SEMVER", events |-> events]}) <=> Tells(s)
  <2> DEFINE r == [type |-> "SEMVER", events |-> events]
  <2>1. OfflineVulnerable(v, {r}) <=> \E x \in {r} : Tells(Told(x.events))
    BY DEF OfflineVulnerable, OfflineStep, OfflineNothing
  <2>2. r.events = events
    OBVIOUS
  <2>3. (\E x \in {r} : Tells(Told(x.events))) <=> Tells(Told(r.events))
    <3> HIDE DEF r, Tells, Told
    <3> QED
      OBVIOUS
  <2>4. Told(r.events) = s
    <3> HIDE DEF Told
    <3> QED
      BY <1>2, <2>2
  <2>5. Tells(Told(r.events)) <=> Tells(s)
    <3> HIDE DEF Tells, Told, r, s
    <3> QED
      BY <2>4
  <2> HIDE DEF Tells, Told, s, r
  <2>6. OfflineVulnerable(v, {r}) <=> Tells(s)
    BY <2>1, <2>3, <2>5
  <2> QED
    BY <2>6 DEF r
<1> HIDE DEF s, n
<1>4. /\ \A i \in 1..n : i % 2 = 1 =>
              events[i].intro \in Nat /\ events[i].intro # None /\ events[i].end = "none"
      /\ \A i \in 1..n : i % 2 # 1 =>
              events[i].intro = None /\ events[i].end # "none" /\ events[i].at \in Nat
  BY AlternatingIs DEF n
<1>5. OsvAffected(v, events) <=> Hit(v, events, n)
  BY <1>1, HitIsOsv DEF n
<1>6. CASE n = 0
  <2>1. s = OfflineNothing
    BY <1>2, <1>6 DEF s
  <2>2. ~ Hit(v, events, n)
    BY <1>6 DEF Hit
  <2> QED
    BY <1>3, <1>5, <2>1, <2>2 DEF Tells, OsvAffected, OfflineVulnerable
<1>7. CASE n = 1
  <2>1. 1 \in 1..n /\ 1 % 2 = 1
    BY <1>7
  <2>2. events[1].intro \in Nat /\ events[1].intro # None /\ events[1].end = "none"
    BY <1>4, <2>1
  <2>3. s = [intro |-> events[1].intro, fix |-> None, last |-> None]
    <3>1. s = OfflineStep(st[1 - 1], events[1])
      BY <1>2, <1>7, <2>1 DEF s
    <3>2. s = OfflineStep(OfflineNothing, events[1])
      BY <1>2, <3>1
    <3> QED
      BY <2>2, <3>2 DEF OfflineStep, OfflineNothing
  <2>4. OfflineVulnerable(v, {[type |-> "SEMVER", events |-> events]}) <=> events[1].intro <= v
    BY <1>1, <1>3, <2>2, <2>3 DEF Tells, OfflineNothing
  <2>5. Hit(v, events, n) <=> events[1].intro <= v
    BY <1>7, <2>1 DEF Hit, HitAt
  <2> QED
    BY <1>5, <2>4, <2>5 DEF OsvAffected, OfflineVulnerable
<1>8. CASE n = 2
  <2>1. 1 \in 1..n /\ 2 \in 1..n /\ 1 % 2 = 1 /\ 2 % 2 # 1
    BY <1>8
  <2>2. /\ events[1].intro \in Nat /\ events[1].intro # None /\ events[1].end = "none"
        /\ events[2].intro = None /\ events[2].end # "none" /\ events[2].at \in Nat
    BY <1>4, <2>1
  <2>3. events[2].end \in {"fixed", "last_affected"}
    <3>1. events[2] \in Events /\ events[2].end # "limit"
      BY <1>1, <2>1 DEF NoLimit
    <3> QED
      BY <2>2, <3>1, EventTyped DEF Ends
  <2>4. st[1] = [intro |-> events[1].intro, fix |-> None, last |-> None]
    <3>1. st[1] = OfflineStep(st[1 - 1], events[1])
      BY <1>2, <2>1
    <3>2. st[1] = OfflineStep(OfflineNothing, events[1])
      BY <1>2, <3>1
    <3> QED
      BY <2>2, <3>2 DEF OfflineStep, OfflineNothing
  <2>5. s = [intro |-> events[1].intro,
             fix  |-> IF events[2].end = "fixed" THEN events[2].at ELSE None,
             last |-> IF events[2].end = "fixed" THEN None ELSE events[2].at]
    <3>1. s = OfflineStep(st[2 - 1], events[2])
      BY <1>2, <1>8, <2>1 DEF s
    <3>2. s = OfflineStep(st[1], events[2])
      BY <3>1
    <3> QED
      BY <2>2, <2>3, <2>4, <3>2 DEF OfflineStep
  <2>6. OfflineVulnerable(v, {[type |-> "SEMVER", events |-> events]})
          <=> events[1].intro <= v /\ Before(v, events[2].end, events[2].at)
    BY <1>1, <1>3, <2>2, <2>3, <2>5 DEF Tells, OfflineNothing, Before, None
  <2>7. Hit(v, events, n) <=> events[1].intro <= v /\ Before(v, events[2].end, events[2].at)
    <3>1. HitAt(v, events, n, 1) <=> events[1].intro <= v /\ Before(v, events[2].end, events[2].at)
      BY <1>8, <2>1 DEF HitAt
    <3>2. \A i \in 1..n : HitAt(v, events, n, i) => i = 1
      BY <1>8, <2>1 DEF HitAt
    <3> QED
      BY <2>1, <3>1, <3>2 DEF Hit
  <2> QED
    BY <1>5, <2>6, <2>7 DEF OsvAffected, OfflineVulnerable
<1> QED
  BY <1>1, <1>6, <1>7, <1>8

\* The greatest of one number and of two, and what is left without it.
LEMMA OneTwo ==
  /\ Max({1}) = 1 /\ Max({2}) = 2 /\ Max({1, 2}) = 2
  /\ {1} \ {1} = {} /\ {2} \ {2} = {} /\ {1, 2} \ {2} = {1}
  /\ {} # {1} /\ {1} # {2} /\ {1, 2} # {1} /\ {1, 2} # {2} /\ {1, 2} # {} /\ {2} # {}
<1>1. Max({1}) = 1 /\ Max({2}) = 2 /\ Max({1, 2}) = 2
  <2>1. /\ Max({1}) \in {1} /\ \A x \in {1} : x <= Max({1})
        /\ Max({2}) \in {2} /\ \A x \in {2} : x <= Max({2})
        /\ Max({1, 2}) \in {1, 2} /\ \A x \in {1, 2} : x <= Max({1, 2})
    <3>1. {1} \in SUBSET (0..2) /\ {2} \in SUBSET (0..2) /\ {1, 2} \in SUBSET (0..2) /\ 2 \in Nat
      OBVIOUS
    <3>2. {1} # {} /\ {2} # {} /\ {1, 2} # {}
      OBVIOUS
    <3> QED
      BY <3>1, <3>2, MaxOf
  <2> QED
    BY <2>1
<1> QED
  BY <1>1

IntervalStep(s, e) ==
  LET intro == IF e.intro # None THEN e.intro ELSE s.intro
  IN  IF e.end = "none" THEN [s EXCEPT !.intro = intro]
      ELSE [intro |-> 0, done |-> Append(s.done, [from |-> intro, to |-> [end |-> e.end, at |-> e.at]])]
NoInterval == [intro |-> 0, done |-> <<>>]
InsertStep(s, x) == LET n == Cardinality({i \in DOMAIN s : s[i].from <= x.from})
                    IN  SubSeq(s, 1, n) \o <<x>> \o SubSeq(s, n + 1, Len(s))
MergeStep(m, next) == IF m # <<>> /\ next.from <= Last(m).to.at
                        THEN Front(m) \o <<Join(Last(m), next)>> ELSE Append(m, next)
AllOf(type, ranges) == FoldLeft(LAMBDA s, r : IF r.type = type THEN s \o Intervals(r.events) ELSE s, <<>>, ranges)
ReadStep(v, hit, e) == IF e.intro # None THEN hit \/ v >= e.intro ELSE hit /\ Before(v, e.end, e.at)

\* The intervals of one event and of two.
LEMMA IntervalsUnfold ==
  ASSUME NEW seq
  PROVE  /\ DOMAIN seq = {} => FoldLeft(IntervalStep, NoInterval, seq) = NoInterval
         /\ DOMAIN seq = {1} => FoldLeft(IntervalStep, NoInterval, seq) = IntervalStep(NoInterval, seq[1])
         /\ DOMAIN seq = {1, 2} => FoldLeft(IntervalStep, NoInterval, seq) = IntervalStep(IntervalStep(NoInterval, seq[1]), seq[2])
<1> SUFFICES ASSUME DOMAIN seq \in {{}, {1}, {1, 2}}
             PROVE  FoldLeft(IntervalStep, NoInterval, seq) = IF DOMAIN seq = {} THEN NoInterval
                             ELSE IF DOMAIN seq = {1} THEN IntervalStep(NoInterval, seq[1])
                             ELSE IntervalStep(IntervalStep(NoInterval, seq[1]), seq[2])
  BY OneTwo
<1> DEFINE step(y, e) == IntervalStep(y, e)
           first == NoInterval
           Eq(g) == g = [s \in SUBSET (DOMAIN seq) |->
                           IF s = {} THEN first ELSE LET x == Max(s) IN step(g[s \ {x}], seq[x])]
           it == CHOOSE g : Eq(g)
           f == [s \in SUBSET (DOMAIN seq) |->
                   IF s = {} THEN first ELSE IF s = {1} THEN step(first, seq[1])
                   ELSE IF s = {2} THEN step(first, seq[2]) ELSE step(step(first, seq[1]), seq[2])]
<1>1. FoldLeft(IntervalStep, NoInterval, seq) = it[DOMAIN seq]
  BY DEF FoldLeft, MapThenFoldSet
<1> HIDE DEF step, first
<1>2. Eq(f)
  <2>1. ASSUME NEW s \in SUBSET (DOMAIN seq)
        PROVE  f[s] = IF s = {} THEN first ELSE step(f[s \ {Max(s)}], seq[Max(s)])
    <3>1. s \in {{}, {1}, {2}, {1, 2}} /\ s \ {Max(s)} \in SUBSET (DOMAIN seq)
      OBVIOUS
    <3> QED
      BY <3>1, OneTwo
  <2> QED
    BY <2>1
<1>3. Eq(it)
  <2> HIDE DEF Eq
  <2> QED
    BY <1>2
<1> HIDE DEF it
<1>4. \A s \in SUBSET (DOMAIN seq) : it[s] = IF s = {} THEN first ELSE step(it[s \ {Max(s)}], seq[Max(s)])
  BY <1>3
<1>5. it[{}] = first
  BY <1>4
<1>6. 1 \in DOMAIN seq => it[{1}] = step(first, seq[1])
  BY <1>4, <1>5, OneTwo
<1>7. DOMAIN seq = {1, 2} => it[{1, 2}] = step(it[{1}], seq[2])
  BY <1>4, OneTwo
<1>8. it[DOMAIN seq] = IF DOMAIN seq = {} THEN first
                       ELSE IF DOMAIN seq = {1} THEN step(first, seq[1])
                       ELSE step(step(first, seq[1]), seq[2])
  BY <1>5, <1>6, <1>7, OneTwo
<1> QED
  BY <1>1, <1>8 DEF step, first

\* Two intervals sorted.
LEMMA InsertUnfold ==
  ASSUME NEW seq
  PROVE  /\ DOMAIN seq = {} => FoldLeft(InsertStep, <<>>, seq) = <<>>
         /\ DOMAIN seq = {1} => FoldLeft(InsertStep, <<>>, seq) = InsertStep(<<>>, seq[1])
         /\ DOMAIN seq = {1, 2} => FoldLeft(InsertStep, <<>>, seq) = InsertStep(InsertStep(<<>>, seq[1]), seq[2])
<1> SUFFICES ASSUME DOMAIN seq \in {{}, {1}, {1, 2}}
             PROVE  FoldLeft(InsertStep, <<>>, seq) = IF DOMAIN seq = {} THEN <<>>
                             ELSE IF DOMAIN seq = {1} THEN InsertStep(<<>>, seq[1])
                             ELSE InsertStep(InsertStep(<<>>, seq[1]), seq[2])
  BY OneTwo
<1> DEFINE step(y, e) == InsertStep(y, e)
           first == <<>>
           Eq(g) == g = [s \in SUBSET (DOMAIN seq) |->
                           IF s = {} THEN first ELSE LET x == Max(s) IN step(g[s \ {x}], seq[x])]
           it == CHOOSE g : Eq(g)
           f == [s \in SUBSET (DOMAIN seq) |->
                   IF s = {} THEN first ELSE IF s = {1} THEN step(first, seq[1])
                   ELSE IF s = {2} THEN step(first, seq[2]) ELSE step(step(first, seq[1]), seq[2])]
<1>1. FoldLeft(InsertStep, <<>>, seq) = it[DOMAIN seq]
  BY DEF FoldLeft, MapThenFoldSet
<1> HIDE DEF step, first
<1>2. Eq(f)
  <2>1. ASSUME NEW s \in SUBSET (DOMAIN seq)
        PROVE  f[s] = IF s = {} THEN first ELSE step(f[s \ {Max(s)}], seq[Max(s)])
    <3>1. s \in {{}, {1}, {2}, {1, 2}} /\ s \ {Max(s)} \in SUBSET (DOMAIN seq)
      OBVIOUS
    <3> QED
      BY <3>1, OneTwo
  <2> QED
    BY <2>1
<1>3. Eq(it)
  <2> HIDE DEF Eq
  <2> QED
    BY <1>2
<1> HIDE DEF it
<1>4. \A s \in SUBSET (DOMAIN seq) : it[s] = IF s = {} THEN first ELSE step(it[s \ {Max(s)}], seq[Max(s)])
  BY <1>3
<1>5. it[{}] = first
  BY <1>4
<1>6. 1 \in DOMAIN seq => it[{1}] = step(first, seq[1])
  BY <1>4, <1>5, OneTwo
<1>7. DOMAIN seq = {1, 2} => it[{1, 2}] = step(it[{1}], seq[2])
  BY <1>4, OneTwo
<1>8. it[DOMAIN seq] = IF DOMAIN seq = {} THEN first
                       ELSE IF DOMAIN seq = {1} THEN step(first, seq[1])
                       ELSE step(step(first, seq[1]), seq[2])
  BY <1>5, <1>6, <1>7, OneTwo
<1> QED
  BY <1>1, <1>8 DEF step, first

\* Two intervals merged.
LEMMA MergeUnfold ==
  ASSUME NEW seq
  PROVE  /\ DOMAIN seq = {} => FoldLeft(MergeStep, <<>>, seq) = <<>>
         /\ DOMAIN seq = {1} => FoldLeft(MergeStep, <<>>, seq) = MergeStep(<<>>, seq[1])
         /\ DOMAIN seq = {1, 2} => FoldLeft(MergeStep, <<>>, seq) = MergeStep(MergeStep(<<>>, seq[1]), seq[2])
<1> SUFFICES ASSUME DOMAIN seq \in {{}, {1}, {1, 2}}
             PROVE  FoldLeft(MergeStep, <<>>, seq) = IF DOMAIN seq = {} THEN <<>>
                             ELSE IF DOMAIN seq = {1} THEN MergeStep(<<>>, seq[1])
                             ELSE MergeStep(MergeStep(<<>>, seq[1]), seq[2])
  BY OneTwo
<1> DEFINE step(y, e) == MergeStep(y, e)
           first == <<>>
           Eq(g) == g = [s \in SUBSET (DOMAIN seq) |->
                           IF s = {} THEN first ELSE LET x == Max(s) IN step(g[s \ {x}], seq[x])]
           it == CHOOSE g : Eq(g)
           f == [s \in SUBSET (DOMAIN seq) |->
                   IF s = {} THEN first ELSE IF s = {1} THEN step(first, seq[1])
                   ELSE IF s = {2} THEN step(first, seq[2]) ELSE step(step(first, seq[1]), seq[2])]
<1>1. FoldLeft(MergeStep, <<>>, seq) = it[DOMAIN seq]
  BY DEF FoldLeft, MapThenFoldSet
<1> HIDE DEF step, first
<1>2. Eq(f)
  <2>1. ASSUME NEW s \in SUBSET (DOMAIN seq)
        PROVE  f[s] = IF s = {} THEN first ELSE step(f[s \ {Max(s)}], seq[Max(s)])
    <3>1. s \in {{}, {1}, {2}, {1, 2}} /\ s \ {Max(s)} \in SUBSET (DOMAIN seq)
      OBVIOUS
    <3> QED
      BY <3>1, OneTwo
  <2> QED
    BY <2>1
<1>3. Eq(it)
  <2> HIDE DEF Eq
  <2> QED
    BY <1>2
<1> HIDE DEF it
<1>4. \A s \in SUBSET (DOMAIN seq) : it[s] = IF s = {} THEN first ELSE step(it[s \ {Max(s)}], seq[Max(s)])
  BY <1>3
<1>5. it[{}] = first
  BY <1>4
<1>6. 1 \in DOMAIN seq => it[{1}] = step(first, seq[1])
  BY <1>4, <1>5, OneTwo
<1>7. DOMAIN seq = {1, 2} => it[{1, 2}] = step(it[{1}], seq[2])
  BY <1>4, OneTwo
<1>8. it[DOMAIN seq] = IF DOMAIN seq = {} THEN first
                       ELSE IF DOMAIN seq = {1} THEN step(first, seq[1])
                       ELSE step(step(first, seq[1]), seq[2])
  BY <1>5, <1>6, <1>7, OneTwo
<1> QED
  BY <1>1, <1>8 DEF step, first

\* A version read against one event and two.
LEMMA ReadUnfold ==
  ASSUME NEW v, NEW seq
  PROVE  /\ DOMAIN seq = {} => AfterEvents(v, seq) = FALSE
         /\ DOMAIN seq = {1} => AfterEvents(v, seq) = ReadStep(v, FALSE, seq[1])
         /\ DOMAIN seq = {1, 2} => AfterEvents(v, seq) = ReadStep(v, ReadStep(v, FALSE, seq[1]), seq[2])
<1> SUFFICES ASSUME DOMAIN seq \in {{}, {1}, {1, 2}}
             PROVE  AfterEvents(v, seq) = IF DOMAIN seq = {} THEN FALSE
                             ELSE IF DOMAIN seq = {1} THEN ReadStep(v, FALSE, seq[1])
                             ELSE ReadStep(v, ReadStep(v, FALSE, seq[1]), seq[2])
  BY OneTwo
<1> DEFINE step(y, e) == ReadStep(v, y, e)
           first == FALSE
           Eq(g) == g = [s \in SUBSET (DOMAIN seq) |->
                           IF s = {} THEN first ELSE LET x == Max(s) IN step(g[s \ {x}], seq[x])]
           it == CHOOSE g : Eq(g)
           f == [s \in SUBSET (DOMAIN seq) |->
                   IF s = {} THEN first ELSE IF s = {1} THEN step(first, seq[1])
                   ELSE IF s = {2} THEN step(first, seq[2]) ELSE step(step(first, seq[1]), seq[2])]
<1>1. AfterEvents(v, seq) = it[DOMAIN seq]
  BY DEF FoldLeft, MapThenFoldSet, AfterEvents, ReadStep
<1> HIDE DEF step, first
<1>2. Eq(f)
  <2>1. ASSUME NEW s \in SUBSET (DOMAIN seq)
        PROVE  f[s] = IF s = {} THEN first ELSE step(f[s \ {Max(s)}], seq[Max(s)])
    <3>1. s \in {{}, {1}, {2}, {1, 2}} /\ s \ {Max(s)} \in SUBSET (DOMAIN seq)
      OBVIOUS
    <3> QED
      BY <3>1, OneTwo
  <2> QED
    BY <2>1
<1>3. Eq(it)
  <2> HIDE DEF Eq
  <2> QED
    BY <1>2
<1> HIDE DEF it
<1>4. \A s \in SUBSET (DOMAIN seq) : it[s] = IF s = {} THEN first ELSE step(it[s \ {Max(s)}], seq[Max(s)])
  BY <1>3
<1>5. it[{}] = first
  BY <1>4
<1>6. 1 \in DOMAIN seq => it[{1}] = step(first, seq[1])
  BY <1>4, <1>5, OneTwo
<1>7. DOMAIN seq = {1, 2} => it[{1, 2}] = step(it[{1}], seq[2])
  BY <1>4, OneTwo
<1>8. it[DOMAIN seq] = IF DOMAIN seq = {} THEN first
                       ELSE IF DOMAIN seq = {1} THEN step(first, seq[1])
                       ELSE step(step(first, seq[1]), seq[2])
  BY <1>5, <1>6, <1>7, OneTwo
<1> QED
  BY <1>1, <1>8 DEF step, first

\* The intervals of two ranges of one type.
LEMMA AllUnfold ==
  ASSUME NEW type, NEW seq
  PROVE  /\ DOMAIN seq = {} => AllOf(type, seq) = <<>>
         /\ DOMAIN seq = {1} => AllOf(type, seq) = (IF seq[1].type = type THEN <<>> \o Intervals(seq[1].events) ELSE <<>>)
         /\ DOMAIN seq = {1, 2} => AllOf(type, seq) = (IF seq[2].type = type THEN (IF seq[1].type = type THEN <<>> \o Intervals(seq[1].events) ELSE <<>>) \o Intervals(seq[2].events) ELSE (IF seq[1].type = type THEN <<>> \o Intervals(seq[1].events) ELSE <<>>))
<1> SUFFICES ASSUME DOMAIN seq \in {{}, {1}, {1, 2}}
             PROVE  AllOf(type, seq) = IF DOMAIN seq = {} THEN <<>>
                             ELSE IF DOMAIN seq = {1} THEN (IF seq[1].type = type THEN <<>> \o Intervals(seq[1].events) ELSE <<>>)
                             ELSE (IF seq[2].type = type THEN (IF seq[1].type = type THEN <<>> \o Intervals(seq[1].events) ELSE <<>>) \o Intervals(seq[2].events) ELSE (IF seq[1].type = type THEN <<>> \o Intervals(seq[1].events) ELSE <<>>))
  BY OneTwo
<1> DEFINE step(y, e) == (IF e.type = type THEN y \o Intervals(e.events) ELSE y)
           first == <<>>
           Eq(g) == g = [s \in SUBSET (DOMAIN seq) |->
                           IF s = {} THEN first ELSE LET x == Max(s) IN step(g[s \ {x}], seq[x])]
           it == CHOOSE g : Eq(g)
           f == [s \in SUBSET (DOMAIN seq) |->
                   IF s = {} THEN first ELSE IF s = {1} THEN step(first, seq[1])
                   ELSE IF s = {2} THEN step(first, seq[2]) ELSE step(step(first, seq[1]), seq[2])]
<1>1. AllOf(type, seq) = it[DOMAIN seq]
  BY DEF FoldLeft, MapThenFoldSet, AllOf
<1> HIDE DEF step, first
<1>2. Eq(f)
  <2>1. ASSUME NEW s \in SUBSET (DOMAIN seq)
        PROVE  f[s] = IF s = {} THEN first ELSE step(f[s \ {Max(s)}], seq[Max(s)])
    <3>1. s \in {{}, {1}, {2}, {1, 2}} /\ s \ {Max(s)} \in SUBSET (DOMAIN seq)
      OBVIOUS
    <3> QED
      BY <3>1, OneTwo
  <2> QED
    BY <2>1
<1>3. Eq(it)
  <2> HIDE DEF Eq
  <2> QED
    BY <1>2
<1> HIDE DEF it
<1>4. \A s \in SUBSET (DOMAIN seq) : it[s] = IF s = {} THEN first ELSE step(it[s \ {Max(s)}], seq[Max(s)])
  BY <1>3
<1>5. it[{}] = first
  BY <1>4
<1>6. 1 \in DOMAIN seq => it[{1}] = step(first, seq[1])
  BY <1>4, <1>5, OneTwo
<1>7. DOMAIN seq = {1, 2} => it[{1, 2}] = step(it[{1}], seq[2])
  BY <1>4, OneTwo
<1>8. it[DOMAIN seq] = IF DOMAIN seq = {} THEN first
                       ELSE IF DOMAIN seq = {1} THEN step(first, seq[1])
                       ELSE step(step(first, seq[1]), seq[2])
  BY <1>5, <1>6, <1>7, OneTwo
<1> QED
  BY <1>1, <1>8 DEF step, first

Interval == [from : Versions, to : [end : Ends, at : 0..(MaxVersion + 1)]]
Covers(v, x) == v >= x.from /\ Before(v, x.to.end, x.to.at)
IntervalOf(events) ==
  [from |-> events[1].intro,
   to   |-> IF Len(events) = 1 THEN Infinity ELSE [end |-> events[2].end, at |-> events[2].at]]

\* What one interval says.
LEMMA PlainIs ==
  ASSUME NEW events \in Seq(Events), Plain(events)
  PROVE  /\ events[1].intro \in Versions /\ events[1].intro # None /\ events[1].end = "none"
         /\ \/ DOMAIN events = {1} /\ Len(events) = 1 /\ events[1].intro > 0
            \/ /\ DOMAIN events = {1, 2} /\ Len(events) = 2
               /\ events[2].intro = None /\ events[2].end \in Ends \ {"none"} /\ events[2].at \in Versions
<1> DEFINE n == Len(events)
<1>1. n \in {1, 2} /\ DOMAIN events = 1..n /\ (n = 2 \/ events[1].intro > 0) /\ Alternating(events)
  <2>1. n \in Nat /\ n <= 2 /\ events # <<>> /\ DOMAIN events = 1..n
    BY DEF Plain
  <2>2. n # 0
    BY <2>1, EmptySeq
  <2> QED
    BY <2>1, <2>2 DEF Plain
<1>2. 1 \in 1..n /\ 1 % 2 = 1 /\ 2 % 2 # 1 /\ events[1] \in Events
  BY <1>1
<1>3. events[1].intro \in Nat /\ events[1].intro # None /\ events[1].end = "none"
  BY <1>1, <1>2, AlternatingIs
<1>4. events[1].intro \in Versions
  BY <1>2, <1>3 DEF Events
<1>5. CASE n = 1
  BY <1>1, <1>3, <1>4, <1>5
<1>6. CASE n = 2
  <2>1. 2 \in 1..n /\ events[2] \in Events
    BY <1>1, <1>6
  <2>2. events[2].intro = None /\ events[2].end # "none"
    BY <1>1, <1>2, <2>1, AlternatingIs
  <2>3. events[2].end \in Ends /\ events[2].at \in Versions
    BY <2>1 DEF Events
  <2> QED
    BY <1>1, <1>3, <1>4, <1>6, <2>2, <2>3
<1> QED
  BY <1>1, <1>5, <1>6

LEMMA IntervalTyped ==
  ASSUME NEW events \in Seq(Events), Plain(events)
  PROVE  IntervalOf(events) \in Interval
<1>1. Infinity \in [end : Ends, at : 0..(MaxVersion + 1)]
  BY VersionRangesAssumption DEF Infinity, Ends
<1>2. \A at \in Versions : at \in 0..(MaxVersion + 1)
  BY VersionRangesAssumption DEF Versions
<1> QED
  BY <1>1, <1>2, PlainIs DEF Interval, IntervalOf

\* OSV affects exactly what the interval covers.
LEMMA PlainCovers ==
  ASSUME NEW events \in Seq(Events), Plain(events), NEW v \in Versions
  PROVE  OsvAffected(v, events) <=> Covers(v, IntervalOf(events))
<1> DEFINE n == Len(events)
<1>1. v \in Nat /\ v < MaxVersion + 1 /\ \A x \in Versions : x \in Nat
  BY VersionRangesAssumption DEF Versions
<1>2. OsvAffected(v, events) <=> Hit(v, events, n)
  BY <1>1, HitIsOsv DEF Plain
<1>3. /\ events[1].intro \in Versions /\ events[1].intro # None /\ events[1].end = "none"
      /\ (n = 1 \/ (n = 2 /\ events[2].at \in Versions))
  BY PlainIs
<1>4. CASE n = 1
  <2>1. Hit(v, events, n) <=> HitAt(v, events, n, 1)
    BY <1>4 DEF Hit
  <2>2. HitAt(v, events, n, 1) <=> events[1].intro <= v
    BY <1>4 DEF HitAt
  <2> QED
    BY <1>1, <1>2, <1>3, <1>4, <2>1, <2>2 DEF Covers, IntervalOf, Infinity, Before
<1>5. CASE n = 2
  <2>1. HitAt(v, events, n, 1) <=> events[1].intro <= v /\ Before(v, events[2].end, events[2].at)
    BY <1>5 DEF HitAt
  <2>2. \A i \in 1..n : HitAt(v, events, n, i) => i = 1
    BY <1>5 DEF HitAt
  <2>3. Hit(v, events, n) <=> events[1].intro <= v /\ Before(v, events[2].end, events[2].at)
    BY <1>5, <2>1, <2>2 DEF Hit
  <2>4. IntervalOf(events).from = events[1].intro
        /\ IntervalOf(events).to.end = events[2].end /\ IntervalOf(events).to.at = events[2].at
    BY <1>5 DEF IntervalOf
  <2> QED
    BY <1>1, <1>2, <1>3, <2>3, <2>4 DEF Covers
<1> QED
  BY <1>3, <1>4, <1>5

LEMMA IntervalsOfPlain ==
  ASSUME NEW events \in Seq(Events), Plain(events)
  PROVE  Intervals(events) = <<IntervalOf(events)>>
<1> DEFINE s == FoldLeft(IntervalStep, NoInterval, events)
<1>1. Intervals(events) = IF s.intro = 0 THEN s.done ELSE Append(s.done, [from |-> s.intro, to |-> Infinity])
  BY DEF Intervals, IntervalStep, NoInterval
<1>2. /\ events[1].intro \in Versions /\ events[1].intro # None /\ events[1].end = "none"
      /\ \/ DOMAIN events = {1} /\ Len(events) = 1 /\ events[1].intro > 0
         \/ /\ DOMAIN events = {1, 2} /\ Len(events) = 2
            /\ events[2].intro = None /\ events[2].end # "none"
  BY PlainIs
<1> DEFINE first == [intro |-> events[1].intro, done |-> <<>>]
<1>3. IntervalStep(NoInterval, events[1]) = first
  BY <1>2 DEF IntervalStep, NoInterval
<1>4. CASE DOMAIN events = {1} /\ Len(events) = 1 /\ events[1].intro > 0
  <2>1. s = first
    BY <1>3, <1>4, IntervalsUnfold
  <2>2. s.intro = events[1].intro /\ s.done = <<>> /\ s.intro # 0
    <3> HIDE DEF s
    <3>1. s.intro = events[1].intro /\ s.done = <<>>
      BY <2>1
    <3>2. events[1].intro # 0
      BY <1>2, <1>4 DEF Versions
    <3> QED
      BY <3>1, <3>2
  <2> HIDE DEF s
  <2>3. Intervals(events) = <<[from |-> events[1].intro, to |-> Infinity]>>
    BY <1>1, <2>2
  <2> QED
    BY <1>4, <2>3 DEF IntervalOf
<1>5. CASE /\ DOMAIN events = {1, 2} /\ Len(events) = 2
           /\ events[2].intro = None /\ events[2].end # "none"
  <2>1. s = IntervalStep(first, events[2])
    BY <1>3, <1>5, IntervalsUnfold
  <2>2. IntervalStep(first, events[2])
          = [intro |-> 0, done |-> <<[from |-> events[1].intro, to |-> [end |-> events[2].end, at |-> events[2].at]]>>]
    BY <1>5 DEF IntervalStep
  <2> HIDE DEF s
  <2>3. Intervals(events) = <<[from |-> events[1].intro, to |-> [end |-> events[2].end, at |-> events[2].at]]>>
    BY <1>1, <2>1, <2>2
  <2> QED
    BY <1>5, <2>3 DEF IntervalOf
<1> QED
  BY <1>2, <1>4, <1>5

LEMMA SeqOfOne ==
  ASSUME NEW x
  PROVE  /\ SubSeq(<<x>>, 1, 1) = <<x>> /\ SubSeq(<<x>>, 1, 0) = <<>> /\ SubSeq(<<x>>, 2, 1) = <<>>
         /\ DOMAIN <<x>> = {1} /\ <<x>>[1] = x /\ Len(<<x>>) = 1
         /\ <<>> \o <<x>> = <<x>> /\ <<x>> \o <<>> = <<x>>
<1>1. <<x>> \in Seq({x}) /\ Len(<<x>>) = 1 /\ DOMAIN <<x>> = {1} /\ <<x>>[1] = x
  OBVIOUS
<1>2. SubSeq(<<x>>, 1, 1) = <<x>>
  BY <1>1, SubSeqFull
<1>3. SubSeq(<<x>>, 1, 0) = <<>> /\ SubSeq(<<x>>, 2, 1) = <<>>
  BY SubSeqEmpty
<1>4. <<>> \o <<x>> = <<x>> /\ <<x>> \o <<>> = <<x>>
  BY <1>1, ConcatEmptySeq
<1> QED
  BY <1>1, <1>2, <1>3, <1>4

LEMMA SeqOfTwo ==
  ASSUME NEW x, NEW y
  PROVE  /\ <<x>> \o <<y>> = <<x, y>> /\ Append(<<x>>, y) = <<x, y>>
         /\ DOMAIN <<x, y>> = {1, 2} /\ <<x, y>>[1] = x /\ <<x, y>>[2] = y /\ Len(<<x, y>>) = 2
         /\ ToSet(<<x, y>>) = {x, y} /\ ToSet(<<x>>) = {x}
<1>1. DOMAIN <<x, y>> = {1, 2} /\ <<x, y>>[1] = x /\ <<x, y>>[2] = y /\ Len(<<x, y>>) = 2
  OBVIOUS
<1> DEFINE S == {x, y}
<1>0. <<x>> \in Seq(S) /\ <<y>> \in Seq(S) /\ <<x, y>> \in Seq(S) /\ y \in S
  OBVIOUS
<1> HIDE DEF S
<1>2. <<x>> \o <<y>> = <<x, y>>
  <2>1. /\ <<x>> \o <<y>> \in Seq(S) /\ Len(<<x>> \o <<y>>) = 2
        /\ (<<x>> \o <<y>>)[1] = x /\ (<<x>> \o <<y>>)[2] = y
    <3>1. Len(<<x>>) = 1 /\ Len(<<y>>) = 1 /\ <<x>>[1] = x /\ <<y>>[1] = y
      OBVIOUS
    <3> QED
      BY <1>0, <3>1, ConcatProperties
  <2>2. \A i \in 1..2 : (<<x>> \o <<y>>)[i] = <<x, y>>[i]
    BY <1>1, <2>1
  <2> QED
    BY <1>0, <1>1, <2>1, <2>2, SeqEqual
<1>3. Append(<<x>>, y) = <<x, y>>
  BY <1>0, <1>2, AppendIsConcat
<1>4. ToSet(<<x, y>>) = {x, y}
  BY <1>1 DEF ToSet
<1>5. ToSet(<<x>>) = {x}
  BY SeqOfOne DEF ToSet
<1> QED
  BY <1>1, <1>2, <1>3, <1>4, <1>5

LEMMA SortedTwo ==
  ASSUME NEW x \in Interval, NEW y \in Interval
  PROVE  Sorted(<<x, y>>) = IF x.from <= y.from THEN <<x, y>> ELSE <<y, x>>
<1>0. x.from \in Nat /\ y.from \in Nat
  BY DEF Interval, Versions
<1>1. Sorted(<<x, y>>) = InsertStep(InsertStep(<<>>, x), y)
  <2>1. Sorted(<<x, y>>) = FoldLeft(InsertStep, <<>>, <<x, y>>)
    BY DEF Sorted, InsertStep
  <2>2. DOMAIN <<x, y>> = {1, 2} /\ <<x, y>>[1] = x /\ <<x, y>>[2] = y
    OBVIOUS
  <2> QED
    BY <2>1, <2>2, InsertUnfold
<1>2. InsertStep(<<>>, x) = <<x>>
  <2>1. {i \in DOMAIN (<<>>) : (<<>>)[i].from <= x.from} = {}
    OBVIOUS
  <2>2. InsertStep(<<>>, x) = SubSeq(<<>>, 1, 0) \o <<x>> \o SubSeq(<<>>, 1, 0)
    BY <2>1, FS_EmptySet DEF InsertStep
  <2>3. SubSeq(<<>>, 1, 0) = <<>>
    BY SubSeqEmpty
  <2> QED
    BY <2>2, <2>3
<1> DEFINE before == {i \in DOMAIN <<x>> : <<x>>[i].from <= y.from}
           n == Cardinality(before)
<1>3. InsertStep(<<x>>, y) = SubSeq(<<x>>, 1, n) \o <<y>> \o SubSeq(<<x>>, n + 1, 1)
  BY SeqOfOne DEF InsertStep
<1>4. CASE x.from <= y.from
  <2>1. before = {1}
    BY <1>4, SeqOfOne
  <2>2. n = 1
    BY <2>1, FS_Singleton
  <2>a. n + 1 = 2
    BY <2>2
  <2> HIDE DEF n
  <2>3. InsertStep(<<x>>, y) = SubSeq(<<x>>, 1, 1) \o <<y>> \o SubSeq(<<x>>, 2, 1)
    BY <1>3, <2>2, <2>a
  <2>4. InsertStep(<<x>>, y) = <<x, y>>
    <3>1. <<x, y>> \o <<>> = <<x, y>>
      OBVIOUS
    <3>2. SubSeq(<<x>>, 1, 1) = <<x>> /\ SubSeq(<<x>>, 2, 1) = <<>>
      BY SeqOfOne
    <3>3. <<x>> \o <<y>> = <<x, y>>
      BY SeqOfTwo
    <3> QED
      BY <2>3, <3>1, <3>2, <3>3, Zenon
  <2> QED
    BY <1>1, <1>2, <1>4, <2>4
<1>5. CASE ~ (x.from <= y.from)
  <2>1. before = {}
    BY <1>5, SeqOfOne
  <2>2. n = 0
    BY <2>1, FS_EmptySet
  <2>a. n + 1 = 1
    BY <2>2
  <2> HIDE DEF n
  <2>3. InsertStep(<<x>>, y) = SubSeq(<<x>>, 1, 0) \o <<y>> \o SubSeq(<<x>>, 1, 1)
    BY <1>3, <2>2, <2>a
  <2>4. InsertStep(<<x>>, y) = <<y, x>>
    <3>1. SubSeq(<<x>>, 1, 0) = <<>> /\ SubSeq(<<x>>, 1, 1) = <<x>> /\ <<>> \o <<y>> = <<y>>
      BY SeqOfOne
    <3>2. <<y>> \o <<x>> = <<y, x>>
      BY SeqOfTwo
    <3> QED
      BY <2>3, <3>1, <3>2, Zenon
  <2> QED
    BY <1>1, <1>2, <1>5, <2>4
<1> QED
  BY <1>4, <1>5

\* Two intervals: the greater of them when they meet, both when they do not.
LEMMA MergedTwo ==
  ASSUME NEW x \in Interval, NEW y \in Interval
  PROVE  \E p, q \in Interval :
           /\ {p, q} = {x, y} /\ p.from <= q.from
           /\ ToSet(Merged(<<x, y>>)) = IF q.from <= p.to.at THEN {Join(p, q)} ELSE {p, q}
<1>0. x.from \in Nat /\ y.from \in Nat
  BY DEF Interval, Versions
<1> DEFINE p == IF x.from <= y.from THEN x ELSE y
           q == IF x.from <= y.from THEN y ELSE x
<1>1. p \in Interval /\ q \in Interval /\ {p, q} = {x, y} /\ p.from <= q.from /\ Sorted(<<x, y>>) = <<p, q>>
  <2>1. p \in Interval /\ q \in Interval /\ p.from <= q.from
    BY <1>0
  <2>2. {p, q} = {x, y}
    OBVIOUS
  <2>3. Sorted(<<x, y>>) = <<p, q>>
    <3>1. CASE x.from <= y.from
      BY <3>1, SortedTwo
    <3>2. CASE ~ (x.from <= y.from)
      BY <3>2, SortedTwo
    <3> QED
      BY <3>1, <3>2
  <2> QED
    BY <2>1, <2>2, <2>3
<1> HIDE DEF p, q
<1>2. Merged(<<x, y>>) = MergeStep(MergeStep(<<>>, p), q)
  <2>1. Merged(<<x, y>>) = FoldLeft(MergeStep, <<>>, <<p, q>>)
    BY <1>1 DEF Merged, MergeStep
  <2>2. DOMAIN <<p, q>> = {1, 2} /\ <<p, q>>[1] = p /\ <<p, q>>[2] = q
    OBVIOUS
  <2> QED
    BY <2>1, <2>2, MergeUnfold
<1>3. MergeStep(<<>>, p) = <<p>>
  BY DEF MergeStep
<1>4. <<p>> # <<>> /\ Last(<<p>>) = p /\ Front(<<p>>) = <<>>
  BY DEF Last, Front
<1>5. CASE q.from <= p.to.at
  <2>1. MergeStep(<<p>>, q) = <<>> \o <<Join(p, q)>>
    BY <1>4, <1>5 DEF MergeStep
  <2>2. ToSet(<<Join(p, q)>>) = {Join(p, q)}
    BY DEF ToSet
  <2>3. <<>> \o <<Join(p, q)>> = <<Join(p, q)>>
    OBVIOUS
  <2> QED
    BY <1>1, <1>2, <1>3, <1>5, <2>1, <2>2, <2>3
<1>6. CASE ~ (q.from <= p.to.at)
  <2>1. MergeStep(<<p>>, q) = <<p, q>>
    BY <1>4, <1>6, SeqOfTwo DEF MergeStep
  <2>2. ToSet(<<p, q>>) = {p, q}
    BY DEF ToSet
  <2> QED
    BY <1>1, <1>2, <1>3, <1>6, <2>1, <2>2
<1> QED
  BY <1>5, <1>6

FusedEvents(i) == <<Introduced(i.from)>> \o
                    IF i.to = Infinity THEN <<>> ELSE <<Ended(i.to.end, i.to.at)>>
Fuse(type, i) == [type |-> type, events |-> FusedEvents(i)]

\* A fused range is read as the interval it was made of.
LEMMA FusedIsRead ==
  ASSUME NEW i \in Interval, i.to = Infinity \/ i.to.end # "none", NEW v \in Versions
  PROVE  AfterEvents(v, FusedEvents(i)) <=> Covers(v, i)
<1>1. v \in Nat /\ i.from \in Nat /\ v < MaxVersion + 1
  BY VersionRangesAssumption DEF Versions, Interval
<1> DEFINE d == Introduced(i.from)
           e == Ended(i.to.end, i.to.at)
<1>2. d.intro = i.from /\ d.intro # None /\ e.intro = None /\ e.end = i.to.end /\ e.at = i.to.at
  BY <1>1 DEF Introduced, Ended, None
<1> HIDE DEF d, e
<1>3. ReadStep(v, FALSE, d) <=> v >= i.from
  BY <1>2 DEF ReadStep
<1>4. CASE i.to = Infinity
  <2>1. FusedEvents(i) = <<d>>
    <3>1. FusedEvents(i) = <<d>> \o <<>>
      BY <1>4 DEF FusedEvents, d
    <3> QED
      BY <3>1, SeqOfOne
  <2>2. AfterEvents(v, <<d>>) = ReadStep(v, FALSE, d)
    <3>1. DOMAIN <<d>> = {1} /\ <<d>>[1] = d
      BY SeqOfOne
    <3>2. AfterEvents(v, <<d>>) = ReadStep(v, FALSE, <<d>>[1])
      BY <3>1, ReadUnfold
    <3> QED
      BY <3>1, <3>2, Zenon
  <2>3. Covers(v, i) <=> v >= i.from
    <3>1. Before(v, i.to.end, i.to.at)
      BY <1>1, <1>4 DEF Before, Infinity
    <3> QED
      BY <3>1 DEF Covers
  <2> QED
    BY <1>3, <2>1, <2>2, <2>3
<1>5. CASE i.to # Infinity
  <2>1. FusedEvents(i) = <<d, e>>
    <3>1. FusedEvents(i) = <<d>> \o <<e>>
      BY <1>5 DEF FusedEvents, d, e
    <3> QED
      BY <3>1, SeqOfTwo
  <2>2. AfterEvents(v, <<d, e>>) = ReadStep(v, ReadStep(v, FALSE, d), e)
    <3>1. DOMAIN <<d, e>> = {1, 2} /\ <<d, e>>[1] = d /\ <<d, e>>[2] = e
      BY SeqOfTwo
    <3>2. AfterEvents(v, <<d, e>>) = ReadStep(v, ReadStep(v, FALSE, <<d, e>>[1]), <<d, e>>[2])
      BY <3>1, ReadUnfold
    <3> QED
      BY <3>1, <3>2, Zenon
  <2>3. ReadStep(v, ReadStep(v, FALSE, d), e) <=> v >= i.from /\ Before(v, i.to.end, i.to.at)
    BY <1>2, <1>3 DEF ReadStep
  <2> QED
    BY <2>1, <2>2, <2>3 DEF Covers
<1> QED
  BY <1>4, <1>5

\* Fusion writes one range for each interval that is left.
LEMMA UnionIs ==
  ASSUME NEW a \in Seq(Events), Plain(a), NEW b \in Seq(Events), Plain(b)
  PROVE  UnionRanges(<<[type |-> "SEMVER", events |-> a], [type |-> "SEMVER", events |-> b]>>)
           = {Fuse("SEMVER", i) : i \in ToSet(Merged(<<IntervalOf(a), IntervalOf(b)>>))}
<1> DEFINE ra == [type |-> "SEMVER", events |-> a]
           rb == [type |-> "SEMVER", events |-> b]
           All(type) == AllOf(type, <<ra, rb>>)
           x == IntervalOf(a)
           y == IntervalOf(b)
<1>1. UnionRanges(<<ra, rb>>) = UNION {{Fuse(type, i) : i \in ToSet(Merged(All(type)))} : type \in {"SEMVER", "GIT"}}
  BY DEF UnionRanges, Fuse, FusedEvents, AllOf
<1>2. ra.type = "SEMVER" /\ rb.type = "SEMVER" /\ Intervals(ra.events) = <<x>> /\ Intervals(rb.events) = <<y>>
  BY IntervalsOfPlain
<1>3. DOMAIN <<ra, rb>> = {1, 2} /\ <<ra, rb>>[1] = ra /\ <<ra, rb>>[2] = rb
  BY SeqOfTwo
<1> HIDE DEF ra, rb, x, y
<1>4. All("SEMVER") = <<x, y>>
  <2>1. All("SEMVER") = (<<>> \o Intervals(ra.events)) \o Intervals(rb.events)
    BY <1>2, <1>3, AllUnfold
  <2>2. <<>> \o <<x>> = <<x>> /\ <<x>> \o <<y>> = <<x, y>>
    BY SeqOfOne, SeqOfTwo
  <2> HIDE DEF All
  <2> QED
    BY <1>2, <2>1, <2>2, Zenon
<1>5. All("GIT") = <<>>
  <2>1. All("GIT") = IF rb.type = "GIT"
                     THEN (IF ra.type = "GIT" THEN <<>> \o Intervals(ra.events) ELSE <<>>) \o Intervals(rb.events)
                     ELSE IF ra.type = "GIT" THEN <<>> \o Intervals(ra.events) ELSE <<>>
    BY <1>3, AllUnfold
  <2>2. ra.type # "GIT" /\ rb.type # "GIT"
    BY <1>2
  <2> HIDE DEF All
  <2> QED
    BY <2>1, <2>2, Zenon
<1>6. ToSet(Merged(<<>>)) = {}
  <2>1. DOMAIN (<<>>) = {}
    OBVIOUS
  <2>2. Sorted(<<>>) = <<>>
    <3>1. Sorted(<<>>) = FoldLeft(InsertStep, <<>>, <<>>)
      BY DEF Sorted, InsertStep
    <3> QED
      BY <2>1, <3>1, InsertUnfold
  <2>3. Merged(<<>>) = <<>>
    <3>1. Merged(<<>>) = FoldLeft(MergeStep, <<>>, <<>>)
      BY <2>2 DEF Merged, MergeStep
    <3> QED
      BY <2>1, <3>1, MergeUnfold
  <2> QED
    BY <2>1, <2>3 DEF ToSet
<1> DEFINE of(type) == {Fuse(type, i) : i \in ToSet(Merged(All(type)))}
<1>7. of("GIT") = {}
  <2>1. ToSet(Merged(All("GIT"))) = {}
    <3> HIDE DEF All
    <3> QED
      BY <1>5, <1>6
  <2> QED
    BY <2>1
<1>8. UnionRanges(<<ra, rb>>) = of("SEMVER")
  <2> HIDE DEF of
  <2>1. UNION {of(type) : type \in {"SEMVER", "GIT"}} = of("SEMVER") \cup of("GIT")
    OBVIOUS
  <2>2. UnionRanges(<<ra, rb>>) = UNION {of(type) : type \in {"SEMVER", "GIT"}}
    BY <1>1 DEF of
  <2> QED
    BY <1>7, <2>1, <2>2
<1> HIDE DEF All
<1> QED
  BY <1>4, <1>8 DEF ra, rb, x, y

\* Fusion of two plain ranges never widens, and does not narrow where the
\* sources end with a fix (dedup/fusion.py _union_ranges).
THEOREM UnionIsExact ==
  ASSUME NEW a \in Seq(Events), NEW b \in Seq(Events)
  PROVE  UnionExact(a, b)
<1> SUFFICES ASSUME Plain(a), Plain(b), NEW v \in Versions
             PROVE  LET sources == OsvAffected(v, a) \/ OsvAffected(v, b)
                    IN  /\ FusedAffected(v, a, b) => sources
                        /\ (\A e \in ToSet(a \o b) : e.end \in {"none", "fixed"}) /\ sources => FusedAffected(v, a, b)
  BY DEF UnionExact
<1> DEFINE x == IntervalOf(a)
           y == IntervalOf(b)
           ended(i) == i.to = Infinity \/ i.to.end # "none"
<1>1. x \in Interval /\ y \in Interval /\ ended(x) /\ ended(y)
  BY IntervalTyped, PlainIs DEF IntervalOf
<1>2. (OsvAffected(v, a) <=> Covers(v, x)) /\ (OsvAffected(v, b) <=> Covers(v, y))
  BY PlainCovers
<1> DEFINE kept == ToSet(Merged(<<x, y>>))
<1>3. PICK p, q \in Interval :
           /\ {p, q} = {x, y} /\ p.from <= q.from
           /\ kept = IF q.from <= p.to.at THEN {Join(p, q)} ELSE {p, q}
  BY <1>1, MergedTwo
<1> HIDE DEF x, y, kept
<1>4. /\ p.from \in Nat /\ q.from \in Nat /\ p.from <= q.from
      /\ p.to.at \in Nat /\ q.to.at \in Nat /\ v \in Nat
      /\ Join(p, q).from = p.from
      /\ Join(p, q).to = IF q.to.at > p.to.at THEN q.to ELSE p.to
      /\ Join(p, q) \in Interval
  BY <1>3, VersionRangesAssumption DEF Interval, Versions, Join
<1>5. ended(p) /\ ended(q) /\ ended(Join(p, q))
  <2>1. ended(p) /\ ended(q)
    <3>1. p \in {x, y} /\ q \in {x, y}
      BY <1>3
    <3> HIDE DEF ended
    <3> QED
      BY <1>1, <3>1
  <2> QED
    BY <1>4, <2>1
<1>6. kept # {} /\ \A i \in kept : i \in Interval /\ ended(i)
  BY <1>3, <1>4, <1>5
<1>7. FusedAffected(v, a, b) <=> \E i \in kept : Covers(v, i)
  <2> DEFINE fused == {Fuse("SEMVER", i) : i \in kept}
  <2>1. FusedAffected(v, a, b) <=> fused # {} /\ IsVersionAffected(v, fused)
    BY UnionIs DEF FusedAffected, x, y, kept
  <2>2. fused # {} /\ \A r \in fused : r.type = "SEMVER"
    <3>1. PICK i \in kept : TRUE
      BY <1>6
    <3>2. Fuse("SEMVER", i) \in fused
      OBVIOUS
    <3>3. \A r \in fused : r.type = "SEMVER"
      BY DEF Fuse
    <3> QED
      BY <3>2, <3>3
  <2>3. {r \in fused : r.type = "SEMVER"} = fused
    <3> HIDE DEF fused
    <3> QED
      BY <2>2
  <2>4. IsVersionAffected(v, fused) <=> \E r \in fused : AfterEvents(v, r.events)
    <3> HIDE DEF fused
    <3> QED
      BY <2>2, <2>3 DEF IsVersionAffected
  <2>5. (\E r \in fused : AfterEvents(v, r.events)) <=> \E i \in kept : AfterEvents(v, FusedEvents(i))
    <3>1. \A i \in kept : Fuse("SEMVER", i).events = FusedEvents(i)
      BY DEF Fuse
    <3>2. \A i \in kept : Fuse("SEMVER", i) \in fused
      OBVIOUS
    <3>3. \A r \in fused : \E i \in kept : r = Fuse("SEMVER", i)
      OBVIOUS
    <3> HIDE DEF fused
    <3> QED
      BY <3>1, <3>2, <3>3
  <2>6. \A i \in kept : AfterEvents(v, FusedEvents(i)) <=> Covers(v, i)
    BY <1>6, FusedIsRead
  <2> QED
    BY <2>1, <2>2, <2>4, <2>5, <2>6
<1>8. OsvAffected(v, a) \/ OsvAffected(v, b) <=> Covers(v, p) \/ Covers(v, q)
  BY <1>2, <1>3
<1>9. Covers(v, Join(p, q)) /\ q.from <= p.to.at => Covers(v, p) \/ Covers(v, q)
  BY <1>4 DEF Covers, Before
<1>10. FusedAffected(v, a, b) => OsvAffected(v, a) \/ OsvAffected(v, b)
  BY <1>3, <1>7, <1>8, <1>9
<1>11. ASSUME \A e \in ToSet(a \o b) : e.end \in {"none", "fixed"}, OsvAffected(v, a) \/ OsvAffected(v, b)
       PROVE  FusedAffected(v, a, b)
  <2>1. x.to.end \in {"none", "fixed"} /\ y.to.end \in {"none", "fixed"}
    <3>1. \A i \in DOMAIN a : a[i] \in ToSet(a \o b)
      <4>1. ASSUME NEW i \in DOMAIN a PROVE a[i] \in ToSet(a \o b)
        <5>1. i \in DOMAIN (a \o b) /\ (a \o b)[i] = a[i]
          BY ConcatProperties
        <5> QED
          BY <5>1 DEF ToSet
      <4> QED
        BY <4>1
    <3>2. \A i \in DOMAIN b : b[i] \in ToSet(a \o b)
      <4>1. ASSUME NEW i \in DOMAIN b PROVE b[i] \in ToSet(a \o b)
        <5>1. i + Len(a) \in DOMAIN (a \o b) /\ (a \o b)[i + Len(a)] = b[i]
          BY ConcatProperties
        <5> QED
          BY <5>1 DEF ToSet
      <4> QED
        BY <4>1
    <3>3. ASSUME NEW c \in Seq(Events), Plain(c), \A i \in DOMAIN c : c[i].end \in {"none", "fixed"}
          PROVE  IntervalOf(c).to.end \in {"none", "fixed"}
      BY <3>3, PlainIs DEF IntervalOf, Infinity
    <3> QED
      BY <1>11, <3>1, <3>2, <3>3 DEF x, y
  <2>2. p.to.end \in {"none", "fixed"} /\ q.to.end \in {"none", "fixed"}
    BY <1>3, <2>1
  <2>3. Covers(v, p) \/ Covers(v, q) => Covers(v, Join(p, q))
    BY <1>4, <2>2 DEF Covers, Before
  <2> QED
    BY <1>3, <1>7, <1>8, <1>11, <2>3
<1> QED
  BY <1>10, <1>11

\* The least and the greatest of two numbers.
LEMMA MinMaxOfTwo ==
  ASSUME NEW a \in Int, NEW b \in Int
  PROVE  /\ Min({a, b}) = IF a <= b THEN a ELSE b
         /\ Max({a, b}) = IF a <= b THEN b ELSE a
<1>1. Min({a, b}) = IF a <= b THEN a ELSE b
  <2> DEFINE S == {a, b}
             least(x) == x \in S /\ \A y \in S : x <= y
  <2>1. Min(S) = CHOOSE x : least(x)
    BY DEF Min
  <2>2. \E x : least(x)
    <3>1. CASE a <= b
      <4>1. least(a)
        BY <3>1
      <4> QED
        BY <4>1
    <3>2. CASE ~ (a <= b)
      <4>1. least(b)
        BY <3>2
      <4> QED
        BY <4>1
    <3> QED
      BY <3>1, <3>2
  <2>3. least(Min(S))
    <3> HIDE DEF least, S
    <3> QED
      BY <2>1, <2>2
  <2> QED
    BY <2>3
<1>2. Max({a, b}) = IF a <= b THEN b ELSE a
  <2> DEFINE S == {a, b}
             most(x) == x \in S /\ \A y \in S : x >= y
  <2>1. Max(S) = CHOOSE x : most(x)
    BY DEF Max
  <2>2. \E x : most(x)
    <3>1. CASE a <= b
      <4>1. most(b)
        BY <3>1
      <4> QED
        BY <4>1
    <3>2. CASE ~ (a <= b)
      <4>1. most(a)
        BY <3>2
      <4> QED
        BY <4>1
    <3> QED
      BY <3>1, <3>2
  <2>3. most(Max(S))
    <3> HIDE DEF most, S
    <3> QED
      BY <2>1, <2>2
  <2> QED
    BY <2>3
<1> QED
  BY <1>1, <1>2

\* A record of one package with one range passes unless its description is
\* blank, its dates are the wrong way round or the range is empty.
LEMMA ValidOne ==
  ASSUME NEW p, NEW m, NEW d, NEW range
  PROVE  Validate([published |-> p, modified |-> m, details |-> d, affected |-> <<<<range>>>>])
           = (d # "blank" /\ p <= m /\ range # <<>>)
<1> DEFINE aff == <<<<range>>>>
           rec == [published |-> p, modified |-> m, details |-> d, affected |-> aff]
<1>1. DOMAIN aff = {1} /\ aff[1] = <<range>> /\ DOMAIN <<range>> = {1} /\ <<range>>[1] = range /\ aff # <<>>
  OBVIOUS
<1>2. rec.published = p /\ rec.modified = m /\ rec.details = d /\ rec.affected = aff
  OBVIOUS
<1>3. (\A i \in DOMAIN aff : \A r \in DOMAIN aff[i] : aff[i][r] # <<>>) <=> range # <<>>
  <2> HIDE DEF aff
  <2> QED
    BY <1>1
<1> HIDE DEF aff, rec
<1>4. Validate(rec) <=> d # "blank" /\ p <= m /\ range # <<>>
  BY <1>1, <1>2, <1>3 DEF Validate
<1>5. Validate(rec) \in BOOLEAN
  BY DEF Validate
<1> QED
  BY <1>4, <1>5 DEF rec, aff

\* A record without packages does not pass.
LEMMA ValidNone ==
  ASSUME NEW rec, rec.affected = <<>>
  PROVE  Validate(rec) = FALSE
BY DEF Validate

\* No converter but NVD's writes an empty range.
LEMMA NeverEmpty ==
  ASSUME NEW entries, NEW clauses, NEW patched
  PROVE  Cve5Events(entries) # <<>> /\ GhsaEvents(clauses, patched) # <<>> /\ <<Introduced(0)>> # <<>>
<1>1. \A e : <<e>> # <<>>
  OBVIOUS
<1>2. Cve5Events(entries) # <<>>
  BY <1>1 DEF Cve5Events
<1>3. GhsaEvents(clauses, patched) # <<>>
  BY <1>1 DEF GhsaEvents
<1> QED
  BY <1>1, <1>2, <1>3

Dated(source) == source.published \in Int /\ source.modified \in Int

\* A record about the protocol is not lost (converters/*.py, filter.py,
\* validator.py), whatever dates, versions and packages it names.
THEOREM NeverLostIs ==
  ASSUME NEW source, Dated(source), NEW E, source.entries \in Seq(E)
  PROVE  NeverLost(source)
<1> SUFFICES ASSUME "protocol" \in source.item.words PROVE NeverLost(source)
  BY DEF NeverLost
<1> DEFINE pub == Or(source.published, Default)
           ordered == pub <= Or(source.modified, pub)
<1>1. pub \in Int /\ Or(source.modified, pub) \in Int /\ Or(source.modified, Default) \in Int
  BY DEF Dated, Or, Default
<1>2. IsRelevant(source.item)
  BY DEF IsRelevant
<1>3. ASSUME source.details = "given" PROVE Validate(Cve5Record(source))
  <2> DEFINE modified  == IF source.modified = None THEN pub ELSE source.modified
             published == Min({pub, modified})
             range == IF source.entries = <<>> THEN <<Introduced(0)>> ELSE Cve5Events(source.entries)
  <2>1. Cve5Record(source) = [published |-> published, modified |-> modified, details |-> source.details, affected |-> <<<<range>>>>]
    BY DEF Cve5Record
  <2>2. published <= modified
    <3>1. modified \in Int
      BY <1>1 DEF Dated
    <3> HIDE DEF modified, pub
    <3> QED
      BY <1>1, <3>1, MinMaxOfTwo
  <2>3. range # <<>>
    BY NeverEmpty
  <2> HIDE DEF published, modified, range
  <2>4. Validate(Cve5Record(source)) = (source.details # "blank" /\ published <= modified /\ range # <<>>)
    BY <2>1, ValidOne
  <2> QED
    BY <1>3, <2>2, <2>3, <2>4
<1>4. ASSUME source.listed PROVE Validate(OsvRecord(source))
  <2> DEFINE published == Or(source.published, Or(source.modified, Default))
             modified == Max({Or(source.modified, published), published})
             range == GhsaEvents(source.clauses, source.patched)
  <2>1. OsvRecord(source) = [published |-> published, modified |-> modified, details |-> "given", affected |-> <<<<range>>>>]
    BY <1>4 DEF OsvRecord
  <2>2. published <= modified
    <3>1. published \in Int /\ Or(source.modified, published) \in Int
      BY <1>1 DEF Dated, Or
    <3> DEFINE other == Or(source.modified, published)
    <3> HIDE DEF published, other
    <3>2. Max({other, published}) = IF other <= published THEN published ELSE other
      <4>1. other \in Int /\ published \in Int
        BY <3>1 DEF other
      <4> QED
        BY <4>1, MinMaxOfTwo
    <3>3. modified = Max({other, published})
      BY DEF other, modified
    <3> HIDE DEF modified
    <3> QED
      BY <3>1, <3>2, <3>3 DEF other
  <2>3. range # <<>>
    BY NeverEmpty
  <2> HIDE DEF published, modified, range
  <2>4. Validate(OsvRecord(source)) = ("given" # "blank" /\ published <= modified /\ range # <<>>)
    BY <2>1, ValidOne
  <2> QED
    BY <2>2, <2>3, <2>4
<1>5. Validate(GhsaRecord(source)) = (ordered /\ source.listed)
  <2> DEFINE modified == Or(source.modified, pub)
             range == GhsaEvents(source.clauses, source.patched)
  <2>1. CASE source.listed
    <3>1. GhsaRecord(source) = [published |-> pub, modified |-> modified, details |-> "given", affected |-> <<<<range>>>>]
      BY <2>1 DEF GhsaRecord
    <3>2. range # <<>>
      BY NeverEmpty
    <3> HIDE DEF pub, modified, range
    <3>3. Validate(GhsaRecord(source)) = (pub <= modified)
      BY <3>1, <3>2, ValidOne
    <3> QED
      BY <2>1, <3>3 DEF modified
  <2>2. CASE ~ source.listed
    <3>1. GhsaRecord(source).affected = <<>>
      BY <2>2 DEF GhsaRecord
    <3> QED
      BY <2>2, <3>1, ValidNone
  <2> QED
    BY <2>1, <2>2
<1>6. ASSUME source.details = "given"
      PROVE  Validate(NvdRecord(source)) = (ordered /\ (source.listed => source.entries # <<>>))
  <2> DEFINE modified == Or(source.modified, pub)
             range == IF source.listed THEN NvdEvents(source.entries) ELSE <<Introduced(0)>>
  <2>1. NvdRecord(source) = [published |-> pub, modified |-> modified, details |-> source.details, affected |-> <<<<range>>>>]
    BY DEF NvdRecord
  <2>2. range # <<>> <=> (source.listed => source.entries # <<>>)
    <3>1. NvdEvents(source.entries) = <<>> <=> source.entries = <<>>
      <4>1. DOMAIN NvdEvents(source.entries) = DOMAIN source.entries
        BY DEF NvdEvents
      <4>2. source.entries = <<>> <=> DOMAIN source.entries = {}
        <5>1. DOMAIN source.entries = 1..Len(source.entries) /\ Len(source.entries) \in Nat
          OBVIOUS
        <5>2. source.entries # <<>> => Len(source.entries) \in Nat \ {0}
          BY EmptySeq
        <5>3. source.entries # <<>> => 1 \in DOMAIN source.entries
          BY <5>1, <5>2
        <5> QED
          BY <5>3
      <4>3. NvdEvents(source.entries) = <<>> => DOMAIN source.entries = {}
        BY <4>1
      <4>4. source.entries = <<>> => NvdEvents(source.entries) = <<>>
        BY DEF NvdEvents
      <4> QED
        BY <4>2, <4>3, <4>4
    <3> QED
      BY <3>1, NeverEmpty
  <2> HIDE DEF pub, modified, range
  <2>3. Validate(NvdRecord(source)) = (pub <= modified /\ range # <<>>)
    BY <1>6, <2>1, ValidOne
  <2> QED
    BY <2>2, <2>3 DEF modified
<1> QED
  BY <1>2, <1>3, <1>4, <1>5, <1>6 DEF NeverLost

\* A version that an event introduces, and that no later one ends, is affected
\* for the pipeline.
LEMMA PipelineReads ==
  ASSUME NEW v, NEW events \in Seq(WideEvents), NEW p \in 1..Len(events),
         events[p].intro # None, v >= events[p].intro,
         \A j \in 1..Len(events) : j > p /\ events[j].intro = None => Before(v, events[j].end, events[j].at)
  PROVE  AfterEvents(v, events)
<1> DEFINE n == Len(events)
<1>1. n \in Nat /\ p \in 1..n
  OBVIOUS
<1>2. PICK st : AfterEach(v, events, st) /\ AfterEvents(v, events) = st[n]
  BY AfterEventsUnfolds
<1> HIDE DEF n
<1>3. \A k \in 1..n :
         st[k] = IF events[k].intro # None THEN st[k - 1] \/ v >= events[k].intro
                 ELSE st[k - 1] /\ Before(v, events[k].end, events[k].at)
  BY <1>2 DEF AfterEach, n
<1>4. st[p]
  BY <1>1, <1>3
<1> DEFINE lost == {k \in p..n : ~ st[k]}
<1>5. lost = {}
  <2>1. SUFFICES ASSUME lost # {} PROVE FALSE
    OBVIOUS
  <2>2. lost \subseteq Nat
    BY <1>1
  <2>3. PICK k \in lost : \A m \in lost : k <= m
    <3> HIDE DEF lost
    <3> QED
      BY <2>1, <2>2, LeastOf
  <2>4. k \in p..n /\ ~ st[k]
    BY <2>3
  <2>5. k # p
    BY <1>4, <2>4
  <2>6. k \in 1..n /\ k > p /\ k - 1 \in p..n /\ ~ (k <= k - 1)
    BY <1>1, <2>4, <2>5
  <2>7. st[k - 1]
    <3>1. k - 1 \notin lost
      <4> HIDE DEF lost
      <4> QED
        BY <2>3, <2>6
    <3> QED
      BY <2>6, <3>1
  <2>8. events[k].intro = None => Before(v, events[k].end, events[k].at)
    BY <2>6 DEF n
  <2> QED
    BY <1>3, <2>4, <2>6, <2>7, <2>8
<1>6. n \in p..n
  BY <1>1
<1> QED
  BY <1>2, <1>5, <1>6

\* An end comes right after the start of its interval.
Shaped(events) ==
  \A k \in 1..Len(events) : events[k].intro = None => k > 1 /\ events[k - 1].intro # None

\* The interval that an event starts has the version: it is the last one, the
\* next one starts another, or the next one ends it.
OpenAt(v, events, p) ==
  \/ p = Len(events)
  \/ p + 1 <= Len(events) /\ events[p + 1].intro # None
  \/ /\ p + 1 <= Len(events) /\ events[p + 1].intro = None
     /\ events[p + 1].end \in {"fixed", "last_affected"} /\ Before(v, events[p + 1].end, events[p + 1].at)

LEMMA AuditReads ==
  ASSUME NEW v \in Int, NEW events \in Seq(WideEvents), Shaped(events), NEW p \in 1..Len(events),
         events[p].intro # None, v >= events[p].intro, OpenAt(v, events, p)
  PROVE  InRanges(v, {[type |-> "SEMVER", events |-> events]})
<1> DEFINE n == Len(events)
<1>1. n \in Nat /\ p \in 1..n /\ \A k \in 1..n : events[k] \in WideEvents
  OBVIOUS
<1>2. PICK st : /\ SpanEach(events, st) /\ \A k \in 0..n : st[k] \in SpanState
                /\ InRanges(v, {[type |-> "SEMVER", events |-> events]})
                     <=> \E i \in SpansOf(st[n]) : InSpan(v, i)
  BY InRangesUnfolds
<1> HIDE DEF n
<1>3. st[0] = NoSpan /\ \A k \in 1..n : st[k] = SpanStep(st[k - 1], events[k]) /\ st[k - 1] \in SpanState
  BY <1>1, <1>2 DEF SpanEach, n
\* An event that introduces leaves its interval open.
<1>4. ASSUME NEW k \in 1..n, events[k].intro # None
      PROVE  /\ st[k].intro = events[k].intro
             /\ st[k - 1].intro # None => /\ st[k].last = None
                                          /\ st[k].done = st[k - 1].done \cup {<<st[k - 1].intro, None, st[k - 1].last>>}
             /\ st[k - 1].intro = None => st[k].last = st[k - 1].last /\ st[k].done = st[k - 1].done
  <2> DEFINE s == IF st[k - 1].intro # None THEN SpanClose(st[k - 1], None) ELSE st[k - 1]
  <2>1. st[k] = [s EXCEPT !.intro = events[k].intro]
    BY <1>3, <1>4 DEF SpanStep
  <2>2. st[k - 1] \in SpanState
    BY <1>3
  <2> QED
    BY <2>1, <2>2 DEF SpanState, SpanClose
\* One that ends closes the interval or keeps the last version.
<1>5. ASSUME NEW k \in 1..n, events[k].intro = None
      PROVE  /\ events[k].end = "fixed" =>
                   /\ st[k].intro = None /\ st[k].last = None
                   /\ st[k].done = st[k - 1].done \cup {<<st[k - 1].intro, events[k].at, st[k - 1].last>>}
             /\ events[k].end = "last_affected" =>
                   st[k].intro = st[k - 1].intro /\ st[k].last = events[k].at /\ st[k].done = st[k - 1].done
             /\ events[k].end \notin {"fixed", "last_affected"} => st[k] = st[k - 1]
  <2>1. st[k - 1] \in SpanState /\ st[k] = SpanStep(st[k - 1], events[k])
    BY <1>3
  <2>2. CASE events[k].end = "fixed"
    BY <1>5, <2>1, <2>2 DEF SpanStep, SpanClose
  <2>3. CASE events[k].end = "last_affected"
    <3>1. st[k] = [st[k - 1] EXCEPT !.last = events[k].at]
      BY <1>5, <2>1, <2>3 DEF SpanStep
    <3> QED
      BY <2>1, <2>3, <3>1 DEF SpanState
  <2>4. CASE events[k].end \notin {"fixed", "last_affected"}
    BY <1>5, <2>1, <2>4 DEF SpanStep
  <2> QED
    BY <2>2, <2>3, <2>4
\* Nothing is kept of an interval that is closed.
<1>6. \A k \in 0..n : st[k].intro = None => st[k].last = None
  <2>1. SUFFICES ASSUME NEW k \in 0..n, st[k].intro = None PROVE st[k].last = None
    OBVIOUS
  <2>2. CASE k = 0
    BY <1>3, <2>2 DEF NoSpan
  <2>3. CASE k \in 1..n
    <3>1. events[k].intro = None
      BY <1>4, <2>1, <2>3
    <3>2. k > 1 /\ events[k - 1].intro # None /\ k - 1 \in 1..n
      BY <1>1, <2>3, <3>1 DEF Shaped, n
    <3>3. st[k - 1].intro # None
      BY <1>4, <3>2
    <3> QED
      BY <1>5, <2>1, <2>3, <3>1, <3>3
  <2> QED
    BY <1>1, <2>2, <2>3
\* What is collected stays.
<1>7. ASSUME NEW m \in 0..n PROVE st[m].done \subseteq SpansOf(st[n])
  <2> DEFINE lost == {k \in m..n : ~ (st[m].done \subseteq st[k].done)}
  <2>1. lost = {}
    <3>1. SUFFICES ASSUME lost # {} PROVE FALSE
      OBVIOUS
    <3>2. lost \subseteq Nat
      BY <1>1
    <3>3. PICK k \in lost : \A j \in lost : k <= j
      <4> HIDE DEF lost
      <4> QED
        BY <3>1, <3>2, LeastOf
    <3>4. k \in m..n /\ ~ (st[m].done \subseteq st[k].done) /\ k # m
      BY <3>3
    <3>5. k \in 1..n /\ k - 1 \in m..n /\ ~ (k <= k - 1)
      BY <1>1, <3>4
    <3>6. st[m].done \subseteq st[k - 1].done
      <4>1. k - 1 \notin lost
        <5> HIDE DEF lost
        <5> QED
          BY <3>3, <3>5
      <4> QED
        BY <3>5, <4>1
    <3>7. st[k - 1].done \subseteq st[k].done
      <4>1. CASE events[k].intro # None
        BY <1>4, <3>5, <4>1
      <4>2. CASE events[k].intro = None
        BY <1>5, <3>5, <4>2
      <4> QED
        BY <4>1, <4>2
    <3> QED
      BY <3>4, <3>6, <3>7
  <2>2. st[m].done \subseteq st[n].done
    BY <1>1, <2>1
  <2>3. st[n].done \subseteq SpansOf(st[n])
    BY DEF SpansOf, SpanClose
  <2> QED
    BY <2>2, <2>3
<1>8. st[p].intro = events[p].intro /\ st[p].last = None
  <2>1. st[p - 1].intro = None => st[p - 1].last = None
    BY <1>1, <1>6
  <2> QED
    BY <1>1, <1>4, <2>1
<1>9. events[p].intro \in Int /\ v \in Int
  BY <1>1 DEF WideEvents
<1> DEFINE x == events[p].intro
<1>10. CASE p = n
  <2>1. <<x, None, None>> \in SpansOf(st[n])
    BY <1>8, <1>10 DEF SpansOf, SpanClose
  <2>2. InSpan(v, <<x, None, None>>)
    BY <1>9 DEF InSpan
  <2> QED
    BY <1>2, <2>1, <2>2
<1>11. CASE p + 1 \in 1..n /\ events[p + 1].intro # None
  <2>1. <<x, None, None>> \in st[p + 1].done
    <3>1. (p + 1) - 1 = p
      OBVIOUS
    <3> QED
      BY <1>4, <1>8, <1>11, <3>1
  <2>2. InSpan(v, <<x, None, None>>)
    BY <1>9 DEF InSpan
  <2> QED
    BY <1>2, <1>7, <1>11, <2>1, <2>2
<1>12. CASE /\ p + 1 \in 1..n /\ events[p + 1].intro = None
            /\ events[p + 1].end = "fixed" /\ Before(v, events[p + 1].end, events[p + 1].at)
  <2>1. <<x, events[p + 1].at, None>> \in st[p + 1].done
    <3>1. (p + 1) - 1 = p
      OBVIOUS
    <3> QED
      BY <1>5, <1>8, <1>12, <3>1
  <2>2. InSpan(v, <<x, events[p + 1].at, None>>)
    <3>1. v < events[p + 1].at
      BY <1>12 DEF Before
    <3> QED
      BY <1>9, <3>1 DEF InSpan
  <2>3. p + 1 \in 0..n
    BY <1>12
  <2> QED
    BY <1>2, <1>7, <2>1, <2>2, <2>3
<1>13. CASE /\ p + 1 \in 1..n /\ events[p + 1].intro = None
            /\ events[p + 1].end = "last_affected" /\ Before(v, events[p + 1].end, events[p + 1].at)
  <2> DEFINE y == events[p + 1].at
  <2>1. st[p + 1].intro = x /\ st[p + 1].last = y
    <3>1. (p + 1) - 1 = p
      OBVIOUS
    <3> QED
      BY <1>5, <1>8, <1>13, <3>1
  <2>2. InSpan(v, <<x, None, y>>)
    <3>1. v <= y
      BY <1>13 DEF Before
    <3> QED
      BY <1>9, <3>1 DEF InSpan
  <2>3. CASE p + 1 = n
    <3>1. <<x, None, y>> \in SpansOf(st[n])
      BY <2>1, <2>3 DEF SpansOf, SpanClose
    <3> QED
      BY <1>2, <2>2, <3>1
  <2>4. CASE p + 1 # n
    <3>1. p + 2 \in 1..n /\ (p + 2) - 1 = p + 1
      BY <1>1, <1>13, <2>4
    <3>2. events[p + 2].intro # None
      BY <1>13, <3>1 DEF Shaped, n
    <3>3. <<x, None, y>> \in st[p + 2].done
      BY <1>4, <2>1, <3>1, <3>2
    <3>4. p + 2 \in 0..n
      BY <3>1
    <3> QED
      BY <1>2, <1>7, <2>2, <3>3, <3>4
  <2> QED
    BY <2>3, <2>4
<1>14. p = n \/ p + 1 \in 1..n
  BY <1>1
<1> QED
  BY <1>10, <1>11, <1>12, <1>13, <1>14 DEF OpenAt, n

\* A finite set of numbers that is not empty has a greatest and a least one.
LEMMA MostOf ==
  ASSUME NEW S, S \subseteq Int, IsFiniteSet(S), S # {}
  PROVE  Max(S) \in S /\ \A x \in S : x <= Max(S)
<1> DEFINE most(U, x) == x \in U /\ \A y \in U : x >= y
           bad == {n \in Nat : \E U \in SUBSET S : U # {} /\ Cardinality(U) = n /\ ~ \E x : most(U, x)}
<1>1. bad = {}
  <2>1. SUFFICES ASSUME bad # {} PROVE FALSE
    OBVIOUS
  <2>2. PICK n \in bad : \A m \in bad : n <= m
    <3>1. bad \subseteq Nat
      OBVIOUS
    <3> HIDE DEF bad
    <3> QED
      BY <2>1, <3>1, LeastOf
  <2>3. n \in Nat /\ \E U \in SUBSET S : U # {} /\ Cardinality(U) = n /\ ~ \E x : most(U, x)
    BY <2>2
  <2>4. PICK U \in SUBSET S : U # {} /\ Cardinality(U) = n /\ ~ \E x : most(U, x)
    BY <2>3
  <2>5. PICK u \in U : TRUE
    BY <2>4
  <2>6. IsFiniteSet(U) /\ Cardinality(U \ {u}) = n - 1 /\ n - 1 \in Nat
    <3>1. IsFiniteSet(U)
      BY FS_Subset
    <3>2. Cardinality(U \ {u}) = n - 1
      BY <2>4, <3>1, FS_RemoveElement
    <3>3. IsFiniteSet(U \ {u})
      BY <3>1, FS_RemoveElement
    <3> QED
      BY <3>1, <3>2, <3>3, FS_CardinalityType
  <2>7. n - 1 \notin bad
    <3> HIDE DEF bad
    <3> QED
      BY <2>2, <2>3, <2>6
  <2>8. U \ {u} = {} \/ \E x : most(U \ {u}, x)
    <3>1. U \ {u} \in SUBSET S
      OBVIOUS
    <3> HIDE DEF most
    <3> QED
      BY <2>6, <2>7, <3>1
  <2>9. CASE U \ {u} = {}
    <3>1. most(U, u)
      BY <2>9
    <3> QED
      BY <2>4, <3>1
  <2>10. CASE \E x : most(U \ {u}, x)
    <3>1. PICK x : most(U \ {u}, x)
      BY <2>10
    <3>2. x \in Int /\ u \in Int
      BY <3>1
    <3>3. most(U, x) \/ most(U, u)
      <4>1. CASE x >= u
        <5>1. most(U, x)
          BY <3>1, <4>1
        <5> QED
          BY <5>1
      <4>2. CASE u > x
        <5>1. most(U, u)
          <6>1. \A y \in U : u >= y
            BY <3>1, <3>2, <4>2
          <6> QED
            BY <6>1
        <5> QED
          BY <5>1
      <4> QED
        BY <3>2, <4>1, <4>2
    <3> QED
      BY <2>4, <3>3
  <2> QED
    BY <2>8, <2>9, <2>10
<1>2. \E x : most(S, x)
  <2>1. Cardinality(S) \in Nat
    BY FS_CardinalityType
  <2> HIDE DEF most
  <2> QED
    BY <1>1, <2>1
<1>3. Max(S) = CHOOSE x : most(S, x)
  BY DEF Max
<1>4. most(S, Max(S))
  <2> HIDE DEF most
  <2> QED
    BY <1>2, <1>3
<1> QED
  BY <1>4

LEMMA LeastIn ==
  ASSUME NEW S, S \subseteq Int, IsFiniteSet(S), S # {}
  PROVE  Min(S) \in S /\ \A x \in S : Min(S) <= x
<1> DEFINE least(x) == x \in S /\ \A y \in S : x <= y
           f == [y \in S |-> 0 - y]
           N == {f[y] : y \in S}
<1>1. N \subseteq Int
  OBVIOUS
<1>2. IsFiniteSet(N) /\ N # {}
  <2>1. f \in Surjection(S, N)
    BY DEF Surjection
  <2>2. N # {}
    OBVIOUS
  <2> HIDE DEF f, N
  <2> QED
    BY <2>1, <2>2, FS_Surjection
<1>3. Max(N) \in N /\ \A x \in N : x <= Max(N)
  <2> HIDE DEF N
  <2> QED
    BY <1>1, <1>2, MostOf
<1>4. PICK x \in S : Max(N) = 0 - x
  BY <1>3
<1>5. least(x)
  <2>1. ASSUME NEW y \in S PROVE x <= y
    <3>1. f[y] \in N /\ f[y] = 0 - y
      OBVIOUS
    <3>2. x \in Int /\ y \in Int
      OBVIOUS
    <3> HIDE DEF N, f
    <3> QED
      BY <1>3, <1>4, <3>1, <3>2
  <2> QED
    BY <2>1
<1>6. Min(S) = CHOOSE y : least(y)
  BY DEF Min
<1>7. least(Min(S))
  <2> HIDE DEF least
  <2> QED
    BY <1>5, <1>6
<1> QED
  BY <1>7

\* Tuples of up to three elements are sequences.
LEMMA ShortSequences ==
  ASSUME NEW S
  PROVE  /\ <<>> \in Seq(S) /\ \A x \in S : <<x>> \in Seq(S)
         /\ S \X S \subseteq Seq(S) /\ S \X S \X S \subseteq Seq(S)
<1>1. \A x, y \in S : <<x, y>> \in Seq(S)
  OBVIOUS
<1>2. \A x, y, z \in S : <<x, y, z>> \in Seq(S)
  OBVIOUS
<1>3. \A p \in S \X S : p = <<p[1], p[2]>> /\ p[1] \in S /\ p[2] \in S
  OBVIOUS
<1>4. \A p \in S \X S \X S : p = <<p[1], p[2], p[3]>> /\ p[1] \in S /\ p[2] \in S /\ p[3] \in S
  OBVIOUS
<1>5. S \X S \subseteq Seq(S)
  BY <1>1, <1>3, Zenon
<1>6. S \X S \X S \subseteq Seq(S)
  <2> SUFFICES ASSUME NEW p \in S \X S \X S PROVE p \in Seq(S)
    OBVIOUS
  <2>1. <<p[1], p[2], p[3]>> \in Seq(S)
    BY <1>2, <1>4
  <2>2. p = <<p[1], p[2], p[3]>>
    BY <1>4
  <2> QED
    BY <2>1, <2>2, Zenon
<1> QED
  BY <1>5, <1>6

\* Short sequences, put together.
LEMMA Join2 ==
  ASSUME NEW x, NEW y PROVE <<x>> \o <<y>> = <<x, y>>
BY SeqOfTwo

LEMMA Join3 ==
  ASSUME NEW x, NEW y, NEW z
  PROVE  <<x, y>> \o <<z>> = <<x, y, z>>
<1> DEFINE S == {x, y, z}
<1>1. <<x, y>> \in Seq(S) /\ <<z>> \in Seq(S) /\ <<x, y, z>> \in Seq(S)
  OBVIOUS
<1> HIDE DEF S
<1>2. /\ Len(<<x, y>>) = 2 /\ Len(<<z>>) = 1 /\ Len(<<x, y, z>>) = 3
      /\ <<x, y>>[1] = x /\ <<x, y>>[2] = y /\ <<z>>[1] = z
      /\ <<x, y, z>>[1] = x /\ <<x, y, z>>[2] = y /\ <<x, y, z>>[3] = z
  OBVIOUS
<1>3. /\ <<x, y>> \o <<z>> \in Seq(S) /\ Len(<<x, y>> \o <<z>>) = 3
      /\ \A i \in 1..3 : (<<x, y>> \o <<z>>)[i] = IF i <= 2 THEN <<x, y>>[i] ELSE <<z>>[i - 2]
  BY <1>1, <1>2, ConcatProperties
<1>4. (<<x, y>> \o <<z>>)[1] = x /\ (<<x, y>> \o <<z>>)[2] = y /\ (<<x, y>> \o <<z>>)[3] = z
  BY <1>2, <1>3
<1>5. \A i \in 1..3 : (<<x, y>> \o <<z>>)[i] = <<x, y, z>>[i]
  BY <1>2, <1>4
<1> QED
  BY <1>1, <1>2, <1>3, <1>5, SeqEqual

LEMMA Join0 ==
  ASSUME NEW S, NEW s \in Seq(S) PROVE s \o <<>> = s /\ <<>> \o s = s
BY ConcatEmptySeq

-----------------------------------------------------------------------------
(* What a converter writes for the entries of a record.                    *)

\* An entry starts at a version and ends, if it does, after it.
EntryOf == {e \in [affected : BOOLEAN, from : Nat, less : Int, upto : Int] :
              /\ e.less # None => e.from < e.less
              /\ e.upto # None => e.from <= e.upto
              /\ e.less = None \/ e.upto = None}

LEMMA EntryTyped ==
  ASSUME NEW e \in EntryOf
  PROVE  /\ e.affected \in BOOLEAN /\ e.from \in Nat /\ e.less \in Int /\ e.upto \in Int
         /\ e.less # None => e.from < e.less
         /\ e.upto # None => e.from <= e.upto
         /\ e.less = None \/ e.upto = None
BY DEF EntryOf

\* An entry that lists a version, and what the ones after it say of it.
ListedIn(v, e) ==
  /\ e.affected /\ v >= e.from
  /\ e.less # None => v < e.less
  /\ e.upto # None => v <= e.upto
  /\ e.less = None /\ e.upto = None => v = e.from

LEMMA LaterStarts ==
  ASSUME NEW entries \in Seq(EntryOf), Ascending(entries), NEW v \in Int,
         NEW i \in 1..Len(entries), ListedIn(v, entries[i]),
         NEW j \in 1..Len(entries), i < j, entries[j].affected
  PROVE  v < entries[j].from
<1> DEFINE d == entries[i]
           e == entries[j]
           S == {d.from, d.less - 1, d.upto}
<1>1. d \in EntryOf /\ e \in EntryOf
  OBVIOUS
<1>2. d.from \in Int /\ d.less \in Int /\ d.upto \in Int /\ e.from \in Int
  BY <1>1, EntryTyped
<1>3. e.from > Max(S)
  BY DEF Ascending, ListedIn
<1>4. S \subseteq Int /\ IsFiniteSet(S) /\ S # {}
  <2>1. IsFiniteSet({d.from} \cup {d.less - 1} \cup {d.upto})
    BY FS_Singleton, FS_Union, Zenon
  <2>2. S = {d.from} \cup {d.less - 1} \cup {d.upto}
    OBVIOUS
  <2>3. S \subseteq Int /\ S # {}
    BY <1>2
  <2> HIDE DEF S
  <2> QED
    BY <2>1, <2>2, <2>3
<1>5. Max(S) \in Int /\ d.from <= Max(S) /\ d.less - 1 <= Max(S) /\ d.upto <= Max(S)
  <2>1. d.from \in S /\ d.less - 1 \in S /\ d.upto \in S
    OBVIOUS
  <2> HIDE DEF S
  <2> QED
    BY <1>4, <2>1, MostOf
<1> HIDE DEF S
<1> QED
  BY <1>2, <1>3, <1>5 DEF ListedIn

LEMMA ReadsBoolean ==
  ASSUME NEW v, NEW events \in Seq(WideEvents)
  PROVE  AfterEvents(v, events) \in BOOLEAN
<1>1. PICK st : AfterEach(v, events, st) /\ AfterEvents(v, events) = st[Len(events)]
  BY AfterEventsUnfolds
<1>2. CASE Len(events) = 0
  BY <1>1, <1>2 DEF AfterEach
<1>3. CASE Len(events) # 0
  <2> DEFINE n == Len(events)
  <2>1. n \in 1..n
    BY <1>3
  <2>2. st[n] = IF events[n].intro # None THEN st[n - 1] \/ v >= events[n].intro
                ELSE st[n - 1] /\ Before(v, events[n].end, events[n].at)
    BY <1>1, <2>1 DEF AfterEach
  <2>3. st[n] \in BOOLEAN
    BY <2>2
  <2> QED
    BY <1>1, <2>3
<1> QED
  BY <1>2, <1>3

LEMMA NvdReads ==
  ASSUME NEW entries \in Seq(EntryOf), NEW v \in Nat, \A i \in DOMAIN entries : entries[i].affected,
         Listed(v, entries)
  PROVE  Read(v, NvdEvents(entries)) = [pipeline |-> TRUE, audit |-> TRUE]
<1> DEFINE events == NvdEvents(entries)
<1>1. \A i \in 1..Len(entries) : entries[i] \in EntryOf
  OBVIOUS
<1>2. events \in Seq(WideEvents) /\ Len(events) = Len(entries)
  <2>1. ASSUME NEW i \in 1..Len(entries)
        PROVE  [intro |-> entries[i].from,
          end |-> IF entries[i].less # None THEN "fixed" ELSE IF entries[i].upto # None THEN "last_affected" ELSE "none",
          at |-> IF entries[i].less # None THEN entries[i].less ELSE IF entries[i].upto # None THEN entries[i].upto ELSE 0]
                 \in WideEvents
    BY <1>1 DEF WideEvents, EntryOf, Ends
  <2>2. Len(entries) \in Nat /\ DOMAIN entries = 1..Len(entries)
    OBVIOUS
  <2>3. events \in [1..Len(entries) -> WideEvents]
    BY <2>1, <2>2 DEF NvdEvents
  <2> HIDE DEF events
  <2> QED
    BY <2>2, <2>3
<1>3. \A i \in 1..Len(events) : events[i].intro = entries[i].from /\ events[i].intro # None
  BY <1>1, <1>2 DEF NvdEvents, EntryOf, None
<1>4. PICK p \in 1..Len(entries) : ListedIn(v, entries[p])
  BY DEF Listed, ListedIn
<1>5. p \in 1..Len(events) /\ events[p].intro # None /\ v >= events[p].intro
  BY <1>2, <1>3, <1>4 DEF ListedIn
<1> HIDE DEF events
<1>6. AfterEvents(v, events)
  BY <1>2, <1>3, <1>5, PipelineReads
<1>7. Shaped(events) /\ OpenAt(v, events, p)
  BY <1>2, <1>3, <1>5 DEF Shaped, OpenAt
<1>8. InRanges(v, {[type |-> "SEMVER", events |-> events]})
  BY <1>2, <1>5, <1>7, AuditReads
<1>9. AfterEvents(v, events) \in BOOLEAN /\ InRanges(v, {[type |-> "SEMVER", events |-> events]}) \in BOOLEAN
  <2>1. InRanges(v, {[type |-> "SEMVER", events |-> events]}) \in BOOLEAN
    BY DEF InRanges
  <2>2. AfterEvents(v, events) \in BOOLEAN
    BY <1>2, ReadsBoolean
  <2> QED
    BY <2>1, <2>2
<1> QED
  BY <1>6, <1>8, <1>9 DEF Read, events

\* What the CVE List's converter writes of an entry.
CveOf(e) ==
  IF ~e.affected THEN <<>>
  ELSE <<Introduced(e.from)>> \o (IF e.less # None THEN <<Ended("fixed", e.less)>>
                                  ELSE Opt(Ended("last_affected", e.upto), e.upto))
CveStep(s, e) == s \o CveOf(e)

LEMMA CveOfIs ==
  ASSUME NEW e \in EntryOf, e.affected
  PROVE  /\ CveOf(e) \in Seq(WideEvents) /\ Len(CveOf(e)) \in 1..2
         /\ CveOf(e)[1] = Introduced(e.from)
         /\ Len(CveOf(e)) = 1 <=> e.less = None /\ e.upto = None
         /\ e.less # None => CveOf(e)[2] = Ended("fixed", e.less)
         /\ e.upto # None => CveOf(e)[2] = Ended("last_affected", e.upto)
<1> DEFINE a == Introduced(e.from)
           b == Ended("fixed", e.less)
           c == Ended("last_affected", e.upto)
<1>1. a \in WideEvents /\ b \in WideEvents /\ c \in WideEvents
  BY EntryTyped DEF WideEvents, Introduced, Ended, Ends, None
<1>2. e.less = None \/ e.upto = None
  BY EntryTyped
<1>3. CveOf(e) = IF e.less # None THEN <<a>> \o <<b>> ELSE IF e.upto = None THEN <<a>> \o <<>> ELSE <<a>> \o <<c>>
  BY DEF CveOf, Opt
<1> HIDE DEF a, b, c
<1>4. <<a>> \o <<b>> = <<a, b>> /\ <<a>> \o <<>> = <<a>> /\ <<a>> \o <<c>> = <<a, c>>
  <2>1. <<a>> \o <<b>> = <<a, b>> /\ <<a>> \o <<c>> = <<a, c>>
    BY Join2, Zenon
  <2>2. <<a>> \o <<>> = <<a>>
    BY SeqOfOne, Zenon
  <2> QED
    BY <2>1, <2>2, Zenon
<1>5. CASE e.less # None
  <2>1. CveOf(e) = <<a, b>>
    BY <1>3, <1>4, <1>5
  <2> QED
    BY <1>1, <1>2, <1>5, <2>1 DEF a, b
<1>6. CASE e.less = None /\ e.upto = None
  <2>1. CveOf(e) = <<a>>
    BY <1>3, <1>4, <1>6
  <2> QED
    BY <1>1, <1>6, <2>1 DEF a
<1>7. CASE e.less = None /\ e.upto # None
  <2>1. CveOf(e) = <<a, c>>
    BY <1>3, <1>4, <1>7
  <2> QED
    BY <1>1, <1>7, <2>1 DEF a, c
<1> QED
  BY <1>5, <1>6, <1>7

LEMMA CveTyped ==
  ASSUME NEW s \in Seq(WideEvents), NEW e \in EntryOf PROVE CveStep(s, e) \in Seq(WideEvents)
<1>1. CveOf(e) \in Seq(WideEvents)
  <2>1. CASE e.affected
    BY <2>1, CveOfIs
  <2>2. CASE ~e.affected
    BY <2>2 DEF CveOf
  <2> QED
    BY <2>1, <2>2
<1> QED
  BY <1>1, ConcatProperties DEF CveStep

LEMMA NoEvents == <<>> \in Seq(WideEvents)
OBVIOUS

\* The events after each of the entries.
LEMMA CveUnfolds ==
  ASSUME NEW seq \in Seq(EntryOf)
  PROVE  \E st : /\ st[0] = <<>> /\ \A k \in 0..Len(seq) : st[k] \in Seq(WideEvents)
                 /\ \A k \in 1..Len(seq) : st[k] = CveStep(st[k - 1], seq[k])
                 /\ FoldLeft(CveStep, <<>>, seq) = st[Len(seq)]
<1> DEFINE n == Len(seq)
           Eq(g) == g = [s \in SUBSET (DOMAIN seq) |->
                           IF s = {} THEN <<>>
                           ELSE LET x == Max(s)
                                IN  CveStep(g[s \ {x}], seq[x])]
           h == [p \in (1..n) \X Seq(WideEvents) |-> CveStep(p[2], seq[p[1]])]
<1>1. n \in Nat /\ DOMAIN seq = 1..n
  OBVIOUS
<1>2. ASSUME NEW x \in 1..n, NEW y \in Seq(WideEvents)
      PROVE  h[<<x, y>>] \in Seq(WideEvents) /\ h[<<x, y>>] = CveStep(y, seq[x])
  <2>1. seq[x] \in EntryOf
    OBVIOUS
  <2>2. CveStep(y, seq[x]) \in Seq(WideEvents)
    BY <2>1, CveTyped, NoEvents
  <2> QED
    BY <2>2
<1>3. <<>> \in Seq(WideEvents)
  BY CveTyped, NoEvents
<1> HIDE DEF h, n
<1>4. PICK f \in [SUBSET (1..n) -> Seq(WideEvents)] : \A s \in SUBSET (1..n) :
           /\ f[s] = IF s = {} THEN <<>> ELSE h[<<Max(s), f[s \ {Max(s)}]>>]
           /\ s # {} => Max(s) \in 1..n /\ s \ {Max(s)} \in SUBSET (1..n)
  BY <1>1, <1>2, <1>3, LeftFoldExists
<1>5. ASSUME NEW s \in SUBSET (1..n), s # {}
      PROVE  f[s] = CveStep(f[s \ {Max(s)}], seq[Max(s)])
  <2>1. Max(s) \in 1..n /\ f[s \ {Max(s)}] \in Seq(WideEvents)
    BY <1>4, <1>5
  <2>2. f[s] = h[<<Max(s), f[s \ {Max(s)}]>>]
    BY <1>4, <1>5
  <2> QED
    BY <1>2, <2>1, <2>2
<1>6. Eq(f)
  <2>1. f = [s \in SUBSET (1..n) |-> f[s]]
    BY <1>4
  <2>2. \A s \in SUBSET (1..n) : f[s] = IF s = {} THEN <<>>
                           ELSE CveStep(f[s \ {Max(s)}], seq[Max(s)])
    BY <1>4, <1>5
  <2>3. f = [s \in SUBSET (1..n) |-> IF s = {} THEN <<>>
                           ELSE CveStep(f[s \ {Max(s)}], seq[Max(s)])]
    BY <2>1, <2>2
  <2> QED
    BY <1>1, <2>3
<1> DEFINE it == CHOOSE g : Eq(g)
<1>7. FoldLeft(CveStep, <<>>, seq) = it[1..n]
  BY <1>1 DEF FoldLeft, MapThenFoldSet
<1>8. Eq(it)
  <2> HIDE DEF Eq
  <2> QED
    BY <1>6
<1> HIDE DEF it
<1>9. PICK st : Chain(n, it, st)
  BY <1>1, LeftFoldChain
<1>10. st[0] = <<>>
  BY <1>8, <1>9 DEF Chain
<1>11. ASSUME NEW k \in 1..n PROVE st[k] = CveStep(st[k - 1], seq[k])
  <2>1. it[1..k] = CveStep(it[(1..k) \ {Max(1..k)}], seq[Max(1..k)])
    BY <1>1, <1>8, <1>9 DEF Chain
  <2> QED
    BY <1>9, <2>1 DEF Chain
<1>12. st[n] = it[1..n]
  BY <1>9 DEF Chain
<1> DEFINE untyped == {k \in 0..n : st[k] \notin Seq(WideEvents)}
<1>13. untyped = {}
  <2>1. SUFFICES ASSUME untyped # {} PROVE FALSE
    OBVIOUS
  <2>2. untyped \subseteq Nat
    OBVIOUS
  <2>3. PICK k \in untyped : \A m \in untyped : k <= m
    <3> HIDE DEF untyped
    <3> QED
      BY <2>1, <2>2, LeastOf
  <2>4. k \in 0..n /\ st[k] \notin Seq(WideEvents)
    BY <2>3
  <2>5. k # 0
    BY <1>3, <1>10, <2>4
  <2>6. k \in 1..n /\ k - 1 \in 0..n /\ ~ (k <= k - 1)
    BY <1>1, <2>4, <2>5
  <2>7. st[k - 1] \in Seq(WideEvents)
    <3>1. k - 1 \notin untyped
      <4> HIDE DEF untyped
      <4> QED
        BY <2>3, <2>6
    <3> QED
      BY <2>6, <3>1
  <2> QED
    BY <1>2, <1>11, <2>4, <2>6, <2>7
<1>14. \A k \in 0..n : st[k] \in Seq(WideEvents)
  BY <1>13
<1> QED
  BY <1>7, <1>10, <1>11, <1>12, <1>14 DEF n

\* An interval that has the version stays open over what follows.
KeptAt(v, s, p) ==
  /\ p \in 1..Len(s) /\ s[p].intro # None /\ v >= s[p].intro /\ OpenAt(v, s, p)
  /\ \A j \in 1..Len(s) : j > p /\ s[j].intro = None => Before(v, s[j].end, s[j].at)

LEMMA ReadsKept ==
  ASSUME NEW v \in Int, NEW s \in Seq(WideEvents), Shaped(s), NEW p, KeptAt(v, s, p)
  PROVE  Read(v, s) = [pipeline |-> TRUE, audit |-> TRUE]
<1>1. AfterEvents(v, s)
  BY PipelineReads DEF KeptAt
<1>2. InRanges(v, {[type |-> "SEMVER", events |-> s]})
  BY AuditReads DEF KeptAt
<1>3. InRanges(v, {[type |-> "SEMVER", events |-> s]}) \in BOOLEAN
  BY DEF InRanges
<1>4. AfterEvents(v, s) \in BOOLEAN
  BY ReadsBoolean
<1> QED
  BY <1>1, <1>2, <1>3, <1>4 DEF Read

LEMMA Appended ==
  ASSUME NEW v \in Int, NEW s \in Seq(WideEvents), NEW q \in Seq(WideEvents), Len(q) > 0, q[1].intro # None
  PROVE  /\ Shaped(s) /\ Shaped(q) => Shaped(s \o q)
         /\ \A p : KeptAt(v, s, p) /\ (\A j \in 1..Len(q) : q[j].intro = None => Before(v, q[j].end, q[j].at))
                     => KeptAt(v, s \o q, p)
         /\ \A p : KeptAt(v, q, p) => KeptAt(v, s \o q, Len(s) + p)
<1> DEFINE m == Len(s)
           n == Len(q)
           r == s \o q
<1>1. m \in Nat /\ n \in Nat /\ n > 0 /\ Len(r) = m + n
  BY ConcatProperties
<1>2. \A i \in 1..m : r[i] = s[i] /\ i \in 1..(m + n)
  <2>1. \A i \in 1..(m + n) : r[i] = IF i <= m THEN s[i] ELSE q[i - m]
    BY ConcatProperties
  <2> HIDE DEF r
  <2> QED
    BY <1>1, <2>1
<1>3. \A i \in 1..n : r[m + i] = q[i] /\ m + i \in 1..(m + n)
  <2>1. \A i \in 1..(m + n) : r[i] = IF i <= m THEN s[i] ELSE q[i - m]
    BY ConcatProperties
  <2> HIDE DEF r, m, n
  <2>2. SUFFICES ASSUME NEW i \in 1..n PROVE r[m + i] = q[i] /\ m + i \in 1..(m + n)
    OBVIOUS
  <2>3. m + i \in 1..(m + n) /\ ~ (m + i <= m) /\ (m + i) - m = i
    BY <1>1
  <2> QED
    BY <2>1, <2>3
<1>4. \A i \in 1..(m + n) : i \in 1..m \/ (i - m \in 1..n /\ i = m + (i - m))
  BY <1>1
<1> HIDE DEF r, m, n
<1>5. q[1].intro # None /\ 1 \in 1..n
  BY <1>1
<1>6. ASSUME Shaped(s), Shaped(q) PROVE Shaped(r)
  <2> SUFFICES ASSUME NEW k \in 1..(m + n), r[k].intro = None PROVE k > 1 /\ r[k - 1].intro # None
    BY <1>1 DEF Shaped
  <2>1. CASE k \in 1..m
    <3>1. s[k].intro = None
      BY <1>2, <2>1
    <3>2. k > 1 /\ s[k - 1].intro # None
      BY <1>6, <2>1, <3>1 DEF Shaped, m
    <3>3. k - 1 \in 1..m
      BY <1>1, <2>1, <3>2
    <3> QED
      BY <1>2, <3>2, <3>3
  <2>2. CASE k - m \in 1..n
    <3> DEFINE i == k - m
    <3>1. k = m + i /\ i \in 1..n
      BY <1>1, <2>2
    <3>2. q[i].intro = None
      BY <1>3, <3>1
    <3>3. i > 1 /\ q[i - 1].intro # None
      BY <1>6, <3>1, <3>2 DEF Shaped, n
    <3>4. i - 1 \in 1..n /\ k - 1 = m + (i - 1) /\ k > 1
      BY <1>1, <3>1, <3>3
    <3> HIDE DEF i
    <3> QED
      BY <1>3, <3>3, <3>4
  <2> QED
    BY <1>4, <2>1, <2>2
<1>7. ASSUME NEW p, KeptAt(v, s, p), \A j \in 1..n : q[j].intro = None => Before(v, q[j].end, q[j].at)
      PROVE  KeptAt(v, r, p)
  <2>1. p \in 1..m /\ s[p].intro # None /\ v >= s[p].intro /\ r[p] = s[p] /\ p \in 1..(m + n)
    BY <1>2, <1>7 DEF KeptAt, m
  <2>2. OpenAt(v, r, p)
    <3>1. CASE p = m
      <4>1. p + 1 = m + 1 /\ p + 1 <= m + n
        BY <1>1, <3>1
      <4> QED
        BY <1>1, <1>3, <1>5, <4>1 DEF OpenAt
    <3>2. CASE p # m
      <4>1. p + 1 \in 1..m /\ p + 1 <= m + n
        BY <1>1, <2>1, <3>2
      <4>2. r[p + 1] = s[p + 1]
        BY <1>2, <4>1
      <4>3. OpenAt(v, s, p)
        BY <1>7 DEF KeptAt
      <4> QED
        BY <1>1, <3>2, <4>1, <4>2, <4>3 DEF OpenAt, m
    <3> QED
      BY <3>1, <3>2
  <2>3. ASSUME NEW j \in 1..(m + n), j > p, r[j].intro = None PROVE Before(v, r[j].end, r[j].at)
    <3>1. CASE j \in 1..m
      BY <1>2, <1>7, <2>3, <3>1 DEF KeptAt, m
    <3>2. CASE j - m \in 1..n
      <4> DEFINE i == j - m
      <4>1. i \in 1..n /\ j = m + i
        BY <1>1, <3>2
      <4> HIDE DEF i
      <4>2. r[j] = q[i]
        BY <1>3, <4>1
      <4> QED
        BY <1>7, <2>3, <4>1, <4>2
    <3> QED
      BY <1>4, <3>1, <3>2
  <2> QED
    BY <1>1, <2>1, <2>2, <2>3 DEF KeptAt
<1>8. ASSUME NEW p, KeptAt(v, q, p) PROVE KeptAt(v, r, m + p)
  <2>1. p \in 1..n /\ q[p].intro # None /\ v >= q[p].intro /\ r[m + p] = q[p] /\ m + p \in 1..(m + n)
    BY <1>3, <1>8 DEF KeptAt, n
  <2>2. OpenAt(v, r, m + p)
    <3>1. CASE p = n
      BY <1>1, <3>1 DEF OpenAt
    <3>2. CASE p # n
      <4>1. p + 1 \in 1..n /\ (m + p) + 1 <= m + n /\ (m + p) + 1 = m + (p + 1)
        BY <1>1, <2>1, <3>2
      <4>2. r[(m + p) + 1] = q[p + 1]
        BY <1>3, <4>1
      <4>3. OpenAt(v, q, p)
        BY <1>8 DEF KeptAt
      <4> QED
        BY <1>1, <3>2, <4>1, <4>2, <4>3 DEF OpenAt, n
    <3> QED
      BY <3>1, <3>2
  <2>3. ASSUME NEW j \in 1..(m + n), j > m + p, r[j].intro = None PROVE Before(v, r[j].end, r[j].at)
    <3> DEFINE i == j - m
    <3>1. i \in 1..n /\ j = m + i /\ i > p
      BY <1>1, <2>1, <2>3
    <3> HIDE DEF i
    <3>2. r[j] = q[i]
      BY <1>3, <3>1
    <3> QED
      BY <1>8, <2>3, <3>1, <3>2 DEF KeptAt, n
  <2> QED
    BY <1>1, <2>1, <2>2, <2>3 DEF KeptAt
<1> QED
  BY <1>6, <1>7, <1>8 DEF r, m, n

LEMMA CveShaped ==
  ASSUME NEW e \in EntryOf, e.affected
  PROVE  /\ CveOf(e) \in Seq(WideEvents) /\ Len(CveOf(e)) > 0 /\ CveOf(e)[1].intro # None /\ Shaped(CveOf(e))
         /\ \A v \in Int : v < e.from =>
              \A j \in 1..Len(CveOf(e)) : CveOf(e)[j].intro = None => Before(v, CveOf(e)[j].end, CveOf(e)[j].at)
         /\ \A v \in Int : ListedIn(v, e) => KeptAt(v, CveOf(e), 1)
<1> DEFINE q == CveOf(e)
<1>1. /\ q \in Seq(WideEvents) /\ Len(q) \in 1..2 /\ q[1] = Introduced(e.from)
      /\ Len(q) = 1 <=> e.less = None /\ e.upto = None
      /\ e.less # None => q[2] = Ended("fixed", e.less)
      /\ e.upto # None => q[2] = Ended("last_affected", e.upto)
  BY CveOfIs
<1> HIDE DEF q
<1>2. q[1].intro = e.from /\ q[1].intro # None
  BY <1>1, EntryTyped DEF Introduced, None
<1>3. Len(q) > 0 /\ Shaped(q)
  <2> SUFFICES ASSUME NEW k \in 1..Len(q), q[k].intro = None PROVE k > 1 /\ q[k - 1].intro # None
    BY <1>1 DEF Shaped
  <2>1. k = 2 /\ k - 1 = 1
    BY <1>1, <1>2
  <2> QED
    BY <1>2, <2>1
<1>4. ASSUME NEW j \in 1..Len(q), q[j].intro = None
      PROVE  /\ j = 2 /\ Len(q) = 2
             /\ \/ e.less # None /\ q[j].end = "fixed" /\ q[j].at = e.less
                \/ e.upto # None /\ q[j].end = "last_affected" /\ q[j].at = e.upto
  <2>1. j = 2 /\ Len(q) = 2
    BY <1>1, <1>2, <1>4
  <2>2. e.less # None \/ e.upto # None
    BY <1>1, <2>1
  <2> QED
    BY <1>1, <2>1, <2>2 DEF Ended
<1>5. ASSUME NEW v \in Int, v < e.from, NEW j \in 1..Len(q), q[j].intro = None
      PROVE  Before(v, q[j].end, q[j].at)
  BY <1>4, <1>5, EntryTyped DEF Before
<1>6. ASSUME NEW v \in Int, ListedIn(v, e) PROVE KeptAt(v, q, 1)
  <2>1. ASSUME NEW j \in 1..Len(q), q[j].intro = None
        PROVE  Before(v, q[j].end, q[j].at) /\ q[j].end \in {"fixed", "last_affected"}
    BY <1>4, <1>6, <2>1, EntryTyped DEF Before, ListedIn
  <2>2. v >= q[1].intro
    BY <1>2, <1>6 DEF ListedIn
  <2>3. OpenAt(v, q, 1)
    <3>1. CASE Len(q) = 1
      BY <3>1 DEF OpenAt
    <3>2. CASE Len(q) = 2
      <4>1. 1 + 1 = 2 /\ 2 \in 1..Len(q)
        BY <3>2
      <4> QED
        BY <2>1, <3>2, <4>1 DEF OpenAt
    <3> QED
      BY <1>1, <3>1, <3>2
  <2> QED
    BY <1>1, <1>2, <2>1, <2>2, <2>3 DEF KeptAt
<1> QED
  BY <1>1, <1>2, <1>3, <1>5, <1>6 DEF q

LEMMA CveReads ==
  ASSUME NEW entries \in Seq(EntryOf), NEW v \in Nat, Ascending(entries), Listed(v, entries)
  PROVE  Read(v, Cve5Events(entries)) = [pipeline |-> TRUE, audit |-> TRUE]
<1> DEFINE n == Len(entries)
<1>1. PICK st : /\ st[0] = <<>> /\ \A k \in 0..n : st[k] \in Seq(WideEvents)
                /\ \A k \in 1..n : st[k] = CveStep(st[k - 1], entries[k])
                /\ FoldLeft(CveStep, <<>>, entries) = st[n]
  BY CveUnfolds
<1>2. n \in Nat /\ v \in Int /\ \A k \in 1..n : entries[k] \in EntryOf
  OBVIOUS
<1>3. PICK i \in 1..n : ListedIn(v, entries[i])
  BY DEF Listed, ListedIn
<1>4. \A j \in 1..n : i < j /\ entries[j].affected => v < entries[j].from
  BY <1>3, LaterStarts
<1> HIDE DEF n
<1>5. ASSUME NEW k \in 1..n, ~entries[k].affected PROVE st[k] = st[k - 1]
  <2>1. k - 1 \in 0..n
    BY <1>2
  <2>2. st[k] = st[k - 1] \o <<>>
    BY <1>1, <1>5 DEF CveStep, CveOf
  <2> QED
    BY <1>1, <2>1, <2>2, Join0
<1>6. \A k \in 0..n : Shaped(st[k])
  <2> DEFINE bad == {k \in 0..n : ~Shaped(st[k])}
  <2>1. SUFFICES ASSUME bad # {} PROVE FALSE
    BY DEF bad
  <2>2. PICK k \in bad : \A m \in bad : k <= m
    <3>1. bad \subseteq Nat
      BY <1>2
    <3> HIDE DEF bad
    <3> QED
      BY <2>1, <3>1, LeastOf
  <2>3. k # 0
    <3>1. Shaped(st[0])
      BY <1>1 DEF Shaped
    <3> QED
      BY <2>2, <3>1
  <2>4. k \in 1..n /\ k - 1 \in 0..n /\ ~(k <= k - 1) /\ ~Shaped(st[k])
    BY <1>2, <2>2, <2>3
  <2>5. Shaped(st[k - 1])
    <3>1. k - 1 \notin bad
      <4> HIDE DEF bad
      <4> QED
        BY <2>2, <2>4
    <3> QED
      BY <2>4, <3>1
  <2>6. CASE entries[k].affected
    <3>1. Shaped(st[k - 1] \o CveOf(entries[k]))
      BY <1>1, <1>2, <2>4, <2>5, <2>6, CveShaped, Appended
    <3> QED
      BY <1>1, <2>4, <3>1 DEF CveStep
  <2>7. CASE ~entries[k].affected
    BY <1>5, <2>4, <2>5, <2>7
  <2> QED
    BY <2>6, <2>7
<1>7. \E p : KeptAt(v, st[i], p)
  <2>1. i - 1 \in 0..n /\ st[i - 1] \in Seq(WideEvents) /\ st[i] = st[i - 1] \o CveOf(entries[i])
    <3>1. i - 1 \in 0..n /\ i \in 1..n
      BY <1>2
    <3> QED
      BY <1>1, <3>1 DEF CveStep
  <2>2. KeptAt(v, CveOf(entries[i]), 1) /\ entries[i].affected
    BY <1>2, <1>3, CveShaped DEF ListedIn
  <2>3. CveOf(entries[i]) \in Seq(WideEvents) /\ Len(CveOf(entries[i])) > 0 /\ CveOf(entries[i])[1].intro # None
    BY <1>2, <2>2, CveShaped
  <2>4. KeptAt(v, st[i - 1] \o CveOf(entries[i]), Len(st[i - 1]) + 1)
    BY <1>2, <2>1, <2>2, <2>3, Appended
  <2> QED
    BY <2>1, <2>4
<1>8. \A k \in i..n : \E p : KeptAt(v, st[k], p)
  <2> DEFINE bad == {k \in i..n : ~ \E p : KeptAt(v, st[k], p)}
  <2>1. SUFFICES ASSUME bad # {} PROVE FALSE
    BY DEF bad
  <2>2. PICK k \in bad : \A m \in bad : k <= m
    <3>1. bad \subseteq Nat
      BY <1>2
    <3> HIDE DEF bad
    <3> QED
      BY <2>1, <3>1, LeastOf
  <2>3. k # i
    BY <1>7, <2>2
  <2>4. k \in 1..n /\ k - 1 \in i..n /\ k - 1 \in 0..n /\ ~(k <= k - 1) /\ k > i /\ ~ \E p : KeptAt(v, st[k], p)
    BY <1>2, <2>2, <2>3
  <2>5. PICK p : KeptAt(v, st[k - 1], p)
    <3>1. k - 1 \notin bad
      <4> HIDE DEF bad
      <4> QED
        BY <2>2, <2>4
    <3> QED
      BY <2>4, <3>1
  <2>6. CASE entries[k].affected
    <3>1. v < entries[k].from
      BY <1>4, <2>4, <2>6
    <3>2. KeptAt(v, st[k - 1] \o CveOf(entries[k]), p)
      <4> DEFINE q == CveOf(entries[k])
      <4>1. q \in Seq(WideEvents) /\ Len(q) > 0 /\ q[1].intro # None
        BY <1>2, <2>4, <2>6, CveShaped
      <4>2. \A j \in 1..Len(q) : q[j].intro = None => Before(v, q[j].end, q[j].at)
        BY <1>2, <2>4, <2>6, <3>1, CveShaped
      <4>3. st[k - 1] \in Seq(WideEvents)
        BY <1>1, <2>4
      <4> HIDE DEF q
      <4>4. KeptAt(v, st[k - 1] \o q, p)
        BY <1>2, <2>5, <4>1, <4>2, <4>3, Appended
      <4> QED
        BY <4>4 DEF q
    <3> QED
      BY <1>1, <2>4, <3>2 DEF CveStep
  <2>7. CASE ~entries[k].affected
    BY <1>5, <2>4, <2>5, <2>7
  <2> QED
    BY <2>6, <2>7
<1>9. PICK p : KeptAt(v, st[n], p)
  <2>1. n \in i..n
    BY <1>2
  <2> QED
    BY <1>8, <2>1
<1>10. Cve5Events(entries) = st[n]
  <2>1. Cve5Events(entries) = IF st[n] = <<>> THEN <<Introduced(0)>> ELSE st[n]
    <3>1. FoldLeft(CveStep, <<>>, entries) = st[n]
      BY <1>1
    <3> QED
      BY <3>1 DEF Cve5Events, CveStep, CveOf
  <2>2. st[n] # <<>>
    BY <1>9 DEF KeptAt
  <2> QED
    BY <2>1, <2>2
<1>11. n \in 0..n /\ st[n] \in Seq(WideEvents) /\ Shaped(st[n])
  BY <1>1, <1>2, <1>6
<1> QED
  BY <1>2, <1>9, <1>10, <1>11, ReadsKept

\* The affected versions of any record whose entries ascend, and of any record
\* of NVD's, stay affected for the pipeline and the audit.
THEOREM EntriesAreSound ==
  ASSUME NEW entries \in Seq(EntryOf)
  PROVE  EntriesSound(entries)
<1>1. \A v \in Versions : v \in Nat
  BY VersionRangesAssumption DEF Versions
<1> QED
  BY <1>1, CveReads, NvdReads DEF EntriesSound

-----------------------------------------------------------------------------
(* What a converter writes for the clauses of an advisory.                 *)

ClauseOps == {">=", ">", "<", "<=", "=", "!="}
ClauseOf == [op : ClauseOps, at : Nat]

\* The least number of any set of them.
LEMMA MinIsLeast ==
  ASSUME NEW S, S \subseteq Nat, S # {}
  PROVE  Min(S) \in S
<1>1. PICK x \in S : \A m \in S : x <= m
  BY LeastOf
<1>2. Min(S) = CHOOSE z \in S : \A m \in S : z <= m
  BY DEF Min
<1> QED
  BY <1>1, <1>2

\* The version of a clause stands for its operator, if there is one.
Stands(clauses, op, x) ==
  \/ x = None /\ \A i \in DOMAIN clauses : clauses[i].op # op
  \/ \E i \in DOMAIN clauses : clauses[i].op = op /\ x = clauses[i].at

LEMMA FirstOfIs ==
  ASSUME NEW clauses \in Seq(ClauseOf), NEW op
  PROVE  Stands(clauses, op, FirstOf(clauses, op))
<1> DEFINE at == {i \in DOMAIN clauses : clauses[i].op = op}
<1>1. FirstOf(clauses, op) = IF at = {} THEN None ELSE clauses[Min(at)].at
  BY DEF FirstOf
<1>2. at \subseteq Nat
  OBVIOUS
<1>3. CASE at = {}
  BY <1>1, <1>3 DEF Stands
<1>4. CASE at # {}
  <2>1. Min(at) \in at
    <3> HIDE DEF at
    <3> QED
      BY <1>2, <1>4, MinIsLeast
  <2> QED
    BY <1>1, <1>4, <2>1 DEF Stands
<1> QED
  BY <1>3, <1>4

LEMMA LastOfIs ==
  ASSUME NEW clauses \in Seq(ClauseOf), NEW op
  PROVE  Stands(clauses, op, LastOf(clauses, op))
<1> DEFINE at == {i \in DOMAIN clauses : clauses[i].op = op}
<1>1. LastOf(clauses, op) = IF at = {} THEN None ELSE clauses[Max(at)].at
  BY DEF LastOf
<1>2. at \subseteq 0..Len(clauses) /\ Len(clauses) \in Nat
  OBVIOUS
<1>3. CASE at = {}
  BY <1>1, <1>3 DEF Stands
<1>4. CASE at # {}
  <2>1. Max(at) \in at
    <3> HIDE DEF at
    <3> QED
      BY <1>2, <1>4, MaxOf
  <2> QED
    BY <1>1, <1>4, <2>1 DEF Stands
<1> QED
  BY <1>3, <1>4

LEMMA ClauseTyped ==
  ASSUME NEW clauses \in Seq(ClauseOf), NEW i \in DOMAIN clauses
  PROVE  clauses[i].op \in ClauseOps /\ clauses[i].at \in Nat /\ clauses[i].at # None
<1>1. clauses[i] \in ClauseOf
  OBVIOUS
<1> QED
  BY <1>1 DEF ClauseOf, None

\* What a version that is stated has to do with such a clause.
LEMMA StatedMeets ==
  ASSUME NEW clauses \in Seq(ClauseOf), NEW patched, NEW v \in Nat, Stated(v, clauses, patched),
         NEW op, NEW x, Stands(clauses, op, x), x # None
  PROVE  /\ x \in Nat
         /\ op = ">=" => v >= x
         /\ op = "<" => v < x
         /\ op = "<=" => v <= x
<1>1. PICK i \in DOMAIN clauses : clauses[i].op = op /\ x = clauses[i].at
  BY DEF Stands
<1>2. Holds(v, clauses[i]) /\ x \in Nat
  BY <1>1, ClauseTyped DEF Stated
<1> QED
  BY <1>1, <1>2 DEF Holds

\* The audit's reading, one event at a time.
SpanIs(i, l, d) == [intro |-> i, last |-> l, done |-> d]

LEMMA SpanStarts ==
  ASSUME NEW d, NEW e, e.intro # None
  PROVE  SpanStep(SpanIs(None, None, d), e) = SpanIs(e.intro, None, d)
BY DEF SpanStep, SpanIs

LEMMA SpanFixed ==
  ASSUME NEW i, NEW l, NEW d, NEW e, e.intro = None, e.end = "fixed"
  PROVE  SpanStep(SpanIs(i, l, d), e) = SpanIs(None, None, d \cup {<<i, e.at, l>>})
BY DEF SpanStep, SpanIs, SpanClose

LEMMA SpanLasts ==
  ASSUME NEW i, NEW l, NEW d, NEW e, e.intro = None, e.end = "last_affected"
  PROVE  SpanStep(SpanIs(i, l, d), e) = SpanIs(i, e.at, d)
BY DEF SpanStep, SpanIs

LEMMA SpansAre ==
  ASSUME NEW i, NEW l, NEW d
  PROVE  /\ SpansOf(SpanIs(i, l, d)) = IF i = None /\ l = None THEN d ELSE d \cup {<<i, None, l>>}
         /\ d \subseteq SpansOf(SpanIs(i, l, d))
BY DEF SpansOf, SpanIs, SpanClose

LEMMA InSpanIs ==
  ASSUME NEW v \in Int, NEW x \in Int, x # None, NEW f \in Int, NEW l \in Int
  PROVE  InSpan(v, <<x, f, l>>) <=> v >= x /\ (f # None => v < f) /\ (l # None => v <= l)
BY DEF InSpan

Ender(e) == e \in WideEvents /\ e.intro = None /\ e.end \in {"fixed", "last_affected"} /\ e.at # None
Starter(e) == e \in WideEvents /\ e.intro # None

\* What the pipeline makes of one event more.
HitStep(v, hit, e) == IF e.intro # None THEN hit \/ v >= e.intro ELSE hit /\ Before(v, e.end, e.at)

\* Both readings of up to four events.
BothAre(v, events, hit, st) ==
  /\ hit[0] = FALSE /\ st[0] = SpanIs(None, None, {})
  /\ hit[1] = HitStep(v, hit[0], events[1]) /\ st[1] = SpanStep(st[0], events[1])
  /\ Len(events) >= 2 => hit[2] = HitStep(v, hit[1], events[2]) /\ st[2] = SpanStep(st[1], events[2])
  /\ Len(events) >= 3 => hit[3] = HitStep(v, hit[2], events[3]) /\ st[3] = SpanStep(st[2], events[3])
  /\ Len(events) >= 4 => hit[4] = HitStep(v, hit[3], events[4]) /\ st[4] = SpanStep(st[3], events[4])
  /\ AfterEvents(v, events) = hit[Len(events)]
  /\ InRanges(v, {[type |-> "SEMVER", events |-> events]}) <=> \E i \in SpansOf(st[Len(events)]) : InSpan(v, i)

LEMMA BothRead ==
  ASSUME NEW v \in Int, NEW events \in Seq(WideEvents), Len(events) \in 1..4
  PROVE  \E hit, st : BothAre(v, events, hit, st)
<1>1. PICK hit : AfterEach(v, events, hit) /\ AfterEvents(v, events) = hit[Len(events)]
  BY AfterEventsUnfolds
<1>2. PICK st : SpanEach(events, st) /\ (InRanges(v, {[type |-> "SEMVER", events |-> events]})
                                           <=> \E i \in SpansOf(st[Len(events)]) : InSpan(v, i))
  BY InRangesUnfolds
<1> DEFINE n == Len(events)
<1>3. \A k \in 1..n : hit[k] = HitStep(v, hit[k - 1], events[k])
  BY <1>1 DEF AfterEach, HitStep
<1>4. \A k \in 1..n : st[k] = SpanStep(st[k - 1], events[k])
  BY <1>2 DEF SpanEach
<1>5. hit[0] = FALSE /\ st[0] = SpanIs(None, None, {})
  BY <1>1, <1>2 DEF AfterEach, SpanEach, NoSpan, SpanIs
<1>6. n \in 1..4 /\ 1 \in 1..n /\ (n >= 2 => 2 \in 1..n) /\ (n >= 3 => 3 \in 1..n) /\ (n >= 4 => 4 \in 1..n)
  OBVIOUS
<1>7. 1 - 1 = 0 /\ 2 - 1 = 1 /\ 3 - 1 = 2 /\ 4 - 1 = 3
  OBVIOUS
<1> HIDE DEF n
<1>8. /\ hit[1] = HitStep(v, hit[1 - 1], events[1]) /\ st[1] = SpanStep(st[1 - 1], events[1])
      /\ n >= 2 => hit[2] = HitStep(v, hit[2 - 1], events[2]) /\ st[2] = SpanStep(st[2 - 1], events[2])
      /\ n >= 3 => hit[3] = HitStep(v, hit[3 - 1], events[3]) /\ st[3] = SpanStep(st[3 - 1], events[3])
      /\ n >= 4 => hit[4] = HitStep(v, hit[4 - 1], events[4]) /\ st[4] = SpanStep(st[4 - 1], events[4])
  BY <1>3, <1>4, <1>6, Zenon
<1>9. /\ hit[1] = HitStep(v, hit[0], events[1]) /\ st[1] = SpanStep(st[0], events[1])
      /\ n >= 2 => hit[2] = HitStep(v, hit[1], events[2]) /\ st[2] = SpanStep(st[1], events[2])
      /\ n >= 3 => hit[3] = HitStep(v, hit[2], events[3]) /\ st[3] = SpanStep(st[2], events[3])
      /\ n >= 4 => hit[4] = HitStep(v, hit[3], events[4]) /\ st[4] = SpanStep(st[3], events[4])
  BY <1>7, <1>8
<1> QED
  BY <1>1, <1>2, <1>5, <1>9 DEF n, BothAre

LEMMA HitSteps ==
  ASSUME NEW v, NEW e, NEW hit \in BOOLEAN
  PROVE  /\ HitStep(v, hit, e) \in BOOLEAN
         /\ e.intro # None => (HitStep(v, hit, e) <=> hit \/ v >= e.intro)
         /\ e.intro = None => (HitStep(v, hit, e) <=> hit /\ Before(v, e.end, e.at))
<1>1. CASE e.intro # None
  BY <1>1 DEF HitStep
<1>2. CASE e.intro = None
  BY <1>2 DEF HitStep, Before
<1> QED
  BY <1>1, <1>2

AuditHas(v, events) == InRanges(v, {[type |-> "SEMVER", events |-> events]})

LEMMA TupleTyped ==
  ASSUME NEW S, NEW a \in S, NEW b \in S, NEW c \in S, NEW d \in S
  PROVE  /\ <<a>> \in Seq(S) /\ Len(<<a>>) = 1 /\ <<a>>[1] = a
         /\ <<a, b>> \in Seq(S) /\ Len(<<a, b>>) = 2 /\ <<a, b>>[1] = a /\ <<a, b>>[2] = b
         /\ <<a, b, c>> \in Seq(S) /\ Len(<<a, b, c>>) = 3
         /\ <<a, b, c>>[1] = a /\ <<a, b, c>>[2] = b /\ <<a, b, c>>[3] = c
         /\ <<a, b, c, d>> \in Seq(S) /\ Len(<<a, b, c, d>>) = 4
         /\ <<a, b, c, d>>[1] = a /\ <<a, b, c, d>>[2] = b /\ <<a, b, c, d>>[3] = c /\ <<a, b, c, d>>[4] = d
<1>1. <<a>> \in Seq(S) /\ Len(<<a>>) = 1 /\ <<a>>[1] = a
  OBVIOUS
<1>2. <<a, b>> \in Seq(S) /\ Len(<<a, b>>) = 2 /\ <<a, b>>[1] = a /\ <<a, b>>[2] = b
  OBVIOUS
<1>3. <<a, b, c>> \in Seq(S) /\ Len(<<a, b, c>>) = 3 /\ <<a, b, c>>[1] = a /\ <<a, b, c>>[2] = b /\ <<a, b, c>>[3] = c
  OBVIOUS
<1>4. /\ <<a, b, c, d>> \in Seq(S) /\ Len(<<a, b, c, d>>) = 4
      /\ <<a, b, c, d>>[1] = a /\ <<a, b, c, d>>[2] = b /\ <<a, b, c, d>>[3] = c /\ <<a, b, c, d>>[4] = d
  OBVIOUS
<1> QED
  BY <1>1, <1>2, <1>3, <1>4

LEMMA ReadOne ==
  ASSUME NEW v \in Int, NEW a, Starter(a)
  PROVE  (AfterEvents(v, <<a>>) <=> v >= a.intro) /\ (AuditHas(v, <<a>>) <=> v >= a.intro)
<1> DEFINE es == <<a>>
<1>1. es \in Seq(WideEvents) /\ Len(es) = 1 /\ es[1] = a
  BY TupleTyped DEF Starter, Ender
<1>2. /\ a \in WideEvents /\ a.intro \in Int /\ a.intro # None
      /\ None \in Int
  BY DEF Starter, Ender, WideEvents, None
<1> HIDE DEF es
<1>3. PICK hit, st : /\ hit[0] = FALSE /\ st[0] = SpanIs(None, None, {})
                     /\ hit[1] = HitStep(v, hit[0], a) /\ st[1] = SpanStep(st[0], a)
                     /\ AfterEvents(v, es) = hit[1]
                     /\ AuditHas(v, es) <=> \E i \in SpansOf(st[1]) : InSpan(v, i)
  <2>1. PICK hit, st : BothAre(v, es, hit, st)
    BY <1>1, BothRead
  <2>2. 1 >= 1
    OBVIOUS
  <2> QED
    BY <1>1, <2>1, <2>2 DEF BothAre, AuditHas
<1>4. hit[1] \in BOOLEAN /\ (hit[1] <=> v >= a.intro)
  BY <1>2, <1>3, HitSteps
<1>10. st[1] = SpanIs(a.intro, None, {})
  BY <1>2, <1>3, SpanStarts
<1>11. SpansOf(st[1]) = {<<a.intro, None, None>>}
  BY <1>2, <1>10, SpansAre
<1>12. InSpan(v, <<a.intro, None, None>>) <=> v >= a.intro
  BY <1>2, InSpanIs
<1> QED
  BY <1>3, <1>4, <1>11, <1>12 DEF es

LEMMA ReadTwo ==
  ASSUME NEW v \in Int, NEW a, Starter(a), NEW b, Ender(b)
  PROVE  /\ AfterEvents(v, <<a, b>>) <=> v >= a.intro /\ Before(v, b.end, b.at)
         /\ AuditHas(v, <<a, b>>) <=> v >= a.intro /\ Before(v, b.end, b.at)
<1> DEFINE es == <<a, b>>
<1>1. es \in Seq(WideEvents) /\ Len(es) = 2 /\ es[1] = a /\ es[2] = b
  BY TupleTyped DEF Starter, Ender
<1>2. /\ a \in WideEvents /\ a.intro \in Int /\ a.intro # None
      /\ b \in WideEvents /\ b.intro = None /\ b.at \in Int /\ b.at # None /\ b.end \in {"fixed", "last_affected"}
      /\ None \in Int
  BY DEF Starter, Ender, WideEvents, None
<1> HIDE DEF es
<1>3. PICK hit, st : /\ hit[0] = FALSE /\ st[0] = SpanIs(None, None, {})
                     /\ hit[1] = HitStep(v, hit[0], a) /\ st[1] = SpanStep(st[0], a)
                     /\ hit[2] = HitStep(v, hit[1], b) /\ st[2] = SpanStep(st[1], b)
                     /\ AfterEvents(v, es) = hit[2]
                     /\ AuditHas(v, es) <=> \E i \in SpansOf(st[2]) : InSpan(v, i)
  <2>1. PICK hit, st : BothAre(v, es, hit, st)
    BY <1>1, BothRead
  <2>2. 2 >= 1 /\ 2 >= 2
    OBVIOUS
  <2> QED
    BY <1>1, <2>1, <2>2 DEF BothAre, AuditHas
<1>4. hit[1] \in BOOLEAN /\ (hit[1] <=> v >= a.intro)
  BY <1>2, <1>3, HitSteps
<1>5. hit[2] \in BOOLEAN /\ (hit[2] <=> v >= a.intro /\ Before(v, b.end, b.at))
  BY <1>2, <1>3, <1>4, HitSteps
<1>10. st[1] = SpanIs(a.intro, None, {})
  BY <1>2, <1>3, SpanStarts
<1>11. CASE b.end = "fixed"
  <2>1. st[2] = SpanIs(None, None, {} \cup {<<a.intro, b.at, None>>})
    BY <1>2, <1>3, <1>10, <1>11, SpanFixed
  <2>2. SpansOf(st[2]) = {<<a.intro, b.at, None>>}
    BY <2>1, SpansAre
  <2>3. InSpan(v, <<a.intro, b.at, None>>) <=> v >= a.intro /\ Before(v, b.end, b.at)
    BY <1>2, <1>11, InSpanIs DEF Before
  <2> QED
    BY <1>3, <1>5, <2>2, <2>3 DEF es
<1>12. CASE b.end = "last_affected"
  <2>1. st[2] = SpanIs(a.intro, b.at, {})
    BY <1>2, <1>3, <1>10, <1>12, SpanLasts
  <2>2. SpansOf(st[2]) = {<<a.intro, None, b.at>>}
    BY <1>2, <2>1, SpansAre
  <2>3. InSpan(v, <<a.intro, None, b.at>>) <=> v >= a.intro /\ Before(v, b.end, b.at)
    BY <1>2, <1>12, InSpanIs DEF Before
  <2> QED
    BY <1>3, <1>5, <2>2, <2>3 DEF es
<1> QED
  BY <1>2, <1>11, <1>12

LEMMA ReadThree ==
  ASSUME NEW v \in Int, NEW a, Starter(a), NEW b, Ender(b), NEW c, Ender(c)
  PROVE  /\ AfterEvents(v, <<a, b, c>>) <=> v >= a.intro /\ Before(v, b.end, b.at) /\ Before(v, c.end, c.at)
         /\ v >= a.intro /\ Before(v, b.end, b.at) /\ Before(v, c.end, c.at) => AuditHas(v, <<a, b, c>>)
<1> DEFINE es == <<a, b, c>>
<1>1. es \in Seq(WideEvents) /\ Len(es) = 3 /\ es[1] = a /\ es[2] = b /\ es[3] = c
  BY TupleTyped DEF Starter, Ender
<1>2. /\ a \in WideEvents /\ a.intro \in Int /\ a.intro # None
      /\ b \in WideEvents /\ b.intro = None /\ b.at \in Int /\ b.at # None /\ b.end \in {"fixed", "last_affected"}
      /\ c \in WideEvents /\ c.intro = None /\ c.at \in Int /\ c.at # None /\ c.end \in {"fixed", "last_affected"}
      /\ None \in Int
  BY DEF Starter, Ender, WideEvents, None
<1> HIDE DEF es
<1>3. PICK hit, st : /\ hit[0] = FALSE /\ st[0] = SpanIs(None, None, {})
                     /\ hit[1] = HitStep(v, hit[0], a) /\ st[1] = SpanStep(st[0], a)
                     /\ hit[2] = HitStep(v, hit[1], b) /\ st[2] = SpanStep(st[1], b)
                     /\ hit[3] = HitStep(v, hit[2], c) /\ st[3] = SpanStep(st[2], c)
                     /\ AfterEvents(v, es) = hit[3]
                     /\ AuditHas(v, es) <=> \E i \in SpansOf(st[3]) : InSpan(v, i)
  <2>1. PICK hit, st : BothAre(v, es, hit, st)
    BY <1>1, BothRead
  <2>2. 3 >= 1 /\ 3 >= 2 /\ 3 >= 3
    OBVIOUS
  <2> QED
    BY <1>1, <2>1, <2>2 DEF BothAre, AuditHas
<1>4. hit[1] \in BOOLEAN /\ (hit[1] <=> v >= a.intro)
  BY <1>2, <1>3, HitSteps
<1>5. hit[2] \in BOOLEAN /\ (hit[2] <=> v >= a.intro /\ Before(v, b.end, b.at))
  BY <1>2, <1>3, <1>4, HitSteps
<1>6. hit[3] \in BOOLEAN /\ (hit[3] <=> v >= a.intro /\ Before(v, b.end, b.at) /\ Before(v, c.end, c.at))
  BY <1>2, <1>3, <1>5, HitSteps
<1>10. st[1] = SpanIs(a.intro, None, {})
  BY <1>2, <1>3, SpanStarts
<1>11. ASSUME v >= a.intro, Before(v, b.end, b.at), Before(v, c.end, c.at) PROVE AuditHas(v, es)
  <2>1. CASE b.end = "fixed"
    <3> DEFINE d == {} \cup {<<a.intro, b.at, None>>}
    <3>1. st[2] = SpanIs(None, None, d)
      BY <1>2, <1>3, <1>10, <2>1, SpanFixed
    <3>2. <<a.intro, b.at, None>> \in d
      OBVIOUS
    <3> HIDE DEF d
    <3>3. d \subseteq SpansOf(st[3])
      <4>1. CASE c.end = "fixed"
        <5>1. st[3] = SpanIs(None, None, d \cup {<<None, c.at, None>>})
          BY <1>2, <1>3, <3>1, <4>1, SpanFixed
        <5> QED
          BY <5>1, SpansAre
      <4>2. CASE c.end = "last_affected"
        <5>1. st[3] = SpanIs(None, c.at, d)
          BY <1>2, <1>3, <3>1, <4>2, SpanLasts
        <5> QED
          BY <5>1, SpansAre
      <4> QED
        BY <1>2, <4>1, <4>2
    <3>4. InSpan(v, <<a.intro, b.at, None>>)
      BY <1>2, <1>11, <2>1, InSpanIs DEF Before
    <3> QED
      BY <1>3, <3>2, <3>3, <3>4
  <2>2. CASE b.end = "last_affected"
    <3>1. st[2] = SpanIs(a.intro, b.at, {})
      BY <1>2, <1>3, <1>10, <2>2, SpanLasts
    <3>2. CASE c.end = "fixed"
      <4>1. st[3] = SpanIs(None, None, {} \cup {<<a.intro, c.at, b.at>>})
        BY <1>2, <1>3, <3>1, <3>2, SpanFixed
      <4>2. <<a.intro, c.at, b.at>> \in SpansOf(st[3])
        BY <4>1, SpansAre
      <4>3. InSpan(v, <<a.intro, c.at, b.at>>)
        BY <1>2, <1>11, <2>2, <3>2, InSpanIs DEF Before
      <4> QED
        BY <1>3, <4>2, <4>3
    <3>3. CASE c.end = "last_affected"
      <4>1. st[3] = SpanIs(a.intro, c.at, {})
        BY <1>2, <1>3, <3>1, <3>3, SpanLasts
      <4>2. <<a.intro, None, c.at>> \in SpansOf(st[3])
        BY <1>2, <4>1, SpansAre
      <4>3. InSpan(v, <<a.intro, None, c.at>>)
        BY <1>2, <1>11, <3>3, InSpanIs DEF Before
      <4> QED
        BY <1>3, <4>2, <4>3
    <3> QED
      BY <1>2, <3>2, <3>3
  <2> QED
    BY <1>2, <2>1, <2>2
<1> QED
  BY <1>3, <1>6, <1>11 DEF es

\* An excluded version cuts the range in two.
LEMMA ReadCut ==
  ASSUME NEW v \in Int, NEW a, Starter(a), NEW b, Ender(b), b.end = "fixed", NEW c, Starter(c)
  PROVE  /\ AfterEvents(v, <<a, b, c>>) <=> (v >= a.intro /\ v < b.at) \/ v >= c.intro
         /\ AuditHas(v, <<a, b, c>>) <=> (v >= a.intro /\ v < b.at) \/ v >= c.intro
<1> DEFINE es == <<a, b, c>>
<1>1. es \in Seq(WideEvents) /\ Len(es) = 3 /\ es[1] = a /\ es[2] = b /\ es[3] = c
  BY TupleTyped DEF Starter, Ender
<1>2. /\ a \in WideEvents /\ a.intro \in Int /\ a.intro # None
      /\ b \in WideEvents /\ b.intro = None /\ b.at \in Int /\ b.at # None /\ b.end \in {"fixed", "last_affected"}
      /\ c \in WideEvents /\ c.intro \in Int /\ c.intro # None
      /\ None \in Int
  BY DEF Starter, Ender, WideEvents, None
<1> HIDE DEF es
<1>3. PICK hit, st : /\ hit[0] = FALSE /\ st[0] = SpanIs(None, None, {})
                     /\ hit[1] = HitStep(v, hit[0], a) /\ st[1] = SpanStep(st[0], a)
                     /\ hit[2] = HitStep(v, hit[1], b) /\ st[2] = SpanStep(st[1], b)
                     /\ hit[3] = HitStep(v, hit[2], c) /\ st[3] = SpanStep(st[2], c)
                     /\ AfterEvents(v, es) = hit[3]
                     /\ AuditHas(v, es) <=> \E i \in SpansOf(st[3]) : InSpan(v, i)
  <2>1. PICK hit, st : BothAre(v, es, hit, st)
    BY <1>1, BothRead
  <2>2. 3 >= 1 /\ 3 >= 2 /\ 3 >= 3
    OBVIOUS
  <2> QED
    BY <1>1, <2>1, <2>2 DEF BothAre, AuditHas
<1>4. hit[1] \in BOOLEAN /\ (hit[1] <=> v >= a.intro)
  BY <1>2, <1>3, HitSteps
<1>5. hit[2] \in BOOLEAN /\ (hit[2] <=> v >= a.intro /\ Before(v, b.end, b.at))
  BY <1>2, <1>3, <1>4, HitSteps
<1>6. hit[3] \in BOOLEAN /\ (hit[3] <=> (v >= a.intro /\ Before(v, b.end, b.at)) \/ v >= c.intro)
  BY <1>2, <1>3, <1>5, HitSteps
<1>10. st[1] = SpanIs(a.intro, None, {})
  BY <1>2, <1>3, SpanStarts
<1>11. st[2] = SpanIs(None, None, {} \cup {<<a.intro, b.at, None>>})
  BY <1>2, <1>3, <1>10, SpanFixed
<1>12. st[3] = SpanIs(c.intro, None, {} \cup {<<a.intro, b.at, None>>})
  BY <1>2, <1>3, <1>11, SpanStarts
<1>13. SpansOf(st[3]) = {<<a.intro, b.at, None>>, <<c.intro, None, None>>}
  BY <1>2, <1>12, SpansAre
<1>14. /\ InSpan(v, <<a.intro, b.at, None>>) <=> v >= a.intro /\ v < b.at
       /\ InSpan(v, <<c.intro, None, None>>) <=> v >= c.intro
  BY <1>2, InSpanIs
<1>15. Before(v, b.end, b.at) <=> v < b.at
  BY DEF Before
<1> QED
  BY <1>3, <1>6, <1>13, <1>14, <1>15 DEF es

LEMMA ReadCutEnd ==
  ASSUME NEW v \in Int, NEW a, Starter(a), NEW b, Ender(b), b.end = "fixed", NEW c, Starter(c), NEW d, Ender(d)
  PROVE  /\ AfterEvents(v, <<a, b, c, d>>) <=> ((v >= a.intro /\ v < b.at) \/ v >= c.intro) /\ Before(v, d.end, d.at)
         /\ AuditHas(v, <<a, b, c, d>>) <=> (v >= a.intro /\ v < b.at) \/ (v >= c.intro /\ Before(v, d.end, d.at))
<1> DEFINE es == <<a, b, c, d>>
<1>1. es \in Seq(WideEvents) /\ Len(es) = 4 /\ es[1] = a /\ es[2] = b /\ es[3] = c /\ es[4] = d
  BY TupleTyped DEF Starter, Ender
<1>2. /\ a \in WideEvents /\ a.intro \in Int /\ a.intro # None
      /\ b \in WideEvents /\ b.intro = None /\ b.at \in Int /\ b.at # None /\ b.end \in {"fixed", "last_affected"}
      /\ c \in WideEvents /\ c.intro \in Int /\ c.intro # None
      /\ d \in WideEvents /\ d.intro = None /\ d.at \in Int /\ d.at # None /\ d.end \in {"fixed", "last_affected"}
      /\ None \in Int
  BY DEF Starter, Ender, WideEvents, None
<1> HIDE DEF es
<1>3. PICK hit, st : /\ hit[0] = FALSE /\ st[0] = SpanIs(None, None, {})
                     /\ hit[1] = HitStep(v, hit[0], a) /\ st[1] = SpanStep(st[0], a)
                     /\ hit[2] = HitStep(v, hit[1], b) /\ st[2] = SpanStep(st[1], b)
                     /\ hit[3] = HitStep(v, hit[2], c) /\ st[3] = SpanStep(st[2], c)
                     /\ hit[4] = HitStep(v, hit[3], d) /\ st[4] = SpanStep(st[3], d)
                     /\ AfterEvents(v, es) = hit[4]
                     /\ AuditHas(v, es) <=> \E i \in SpansOf(st[4]) : InSpan(v, i)
  <2>1. PICK hit, st : BothAre(v, es, hit, st)
    BY <1>1, BothRead
  <2>2. 4 >= 1 /\ 4 >= 2 /\ 4 >= 3 /\ 4 >= 4
    OBVIOUS
  <2> QED
    BY <1>1, <2>1, <2>2 DEF BothAre, AuditHas
<1>4. hit[1] \in BOOLEAN /\ (hit[1] <=> v >= a.intro)
  BY <1>2, <1>3, HitSteps
<1>5. hit[2] \in BOOLEAN /\ (hit[2] <=> v >= a.intro /\ Before(v, b.end, b.at))
  BY <1>2, <1>3, <1>4, HitSteps
<1>6. hit[3] \in BOOLEAN /\ (hit[3] <=> (v >= a.intro /\ Before(v, b.end, b.at)) \/ v >= c.intro)
  BY <1>2, <1>3, <1>5, HitSteps
<1>7. hit[4] \in BOOLEAN /\ (hit[4] <=> ((v >= a.intro /\ Before(v, b.end, b.at)) \/ v >= c.intro) /\ Before(v, d.end, d.at))
  BY <1>2, <1>3, <1>6, HitSteps
<1>10. st[1] = SpanIs(a.intro, None, {})
  BY <1>2, <1>3, SpanStarts
<1>11. st[2] = SpanIs(None, None, {} \cup {<<a.intro, b.at, None>>})
  BY <1>2, <1>3, <1>10, SpanFixed
<1> DEFINE D == {} \cup {<<a.intro, b.at, None>>}
<1>12. st[3] = SpanIs(c.intro, None, D)
  BY <1>2, <1>3, <1>11, SpanStarts
<1>13. D = {<<a.intro, b.at, None>>}
  OBVIOUS
<1> HIDE DEF D
<1>14. InSpan(v, <<a.intro, b.at, None>>) <=> v >= a.intro /\ v < b.at
  BY <1>2, InSpanIs
<1>15. Before(v, b.end, b.at) <=> v < b.at
  BY DEF Before
<1>16. CASE d.end = "fixed"
  <2>1. st[4] = SpanIs(None, None, D \cup {<<c.intro, d.at, None>>})
    BY <1>2, <1>3, <1>12, <1>16, SpanFixed
  <2>2. SpansOf(st[4]) = {<<a.intro, b.at, None>>, <<c.intro, d.at, None>>}
    BY <1>13, <2>1, SpansAre
  <2>3. InSpan(v, <<c.intro, d.at, None>>) <=> v >= c.intro /\ Before(v, d.end, d.at)
    BY <1>2, <1>16, InSpanIs DEF Before
  <2> QED
    BY <1>3, <1>7, <1>14, <1>15, <2>2, <2>3 DEF es
<1>17. CASE d.end = "last_affected"
  <2>1. st[4] = SpanIs(c.intro, d.at, D)
    BY <1>2, <1>3, <1>12, <1>17, SpanLasts
  <2>2. SpansOf(st[4]) = {<<a.intro, b.at, None>>, <<c.intro, None, d.at>>}
    BY <1>2, <1>13, <2>1, SpansAre
  <2>3. InSpan(v, <<c.intro, None, d.at>>) <=> v >= c.intro /\ Before(v, d.end, d.at)
    BY <1>2, <1>17, InSpanIs DEF Before
  <2> QED
    BY <1>3, <1>7, <1>14, <1>15, <2>2, <2>3 DEF es
<1> QED
  BY <1>2, <1>16, <1>17

\* One event and up to two more.
LEMMA OptJoined ==
  ASSUME NEW a, NEW b, NEW c, NEW x, NEW y
  PROVE  <<a>> \o Opt(b, x) \o Opt(c, y)
           = IF x # None THEN (IF y # None THEN <<a, b, c>> ELSE <<a, b>>)
             ELSE (IF y # None THEN <<a, c>> ELSE <<a>>)
<1> DEFINE S == {a, b, c}
<1>1. <<a>> \in Seq(S) /\ <<a, b>> \in Seq(S) /\ <<a, c>> \in Seq(S)
  OBVIOUS
<1> HIDE DEF S
<1>2. <<a>> \o <<>> = <<a>> /\ <<a, b>> \o <<>> = <<a, b>>
  BY <1>1, Join0
<1>3. <<a>> \o <<b>> = <<a, b>> /\ <<a>> \o <<c>> = <<a, c>>
  BY Join2, Zenon
<1>4. <<a, b>> \o <<c>> = <<a, b, c>>
  BY Join3, Zenon
<1>5. CASE x # None /\ y # None
  <2>1. Opt(b, x) = <<b>> /\ Opt(c, y) = <<c>>
    BY <1>5 DEF Opt
  <2> QED
    BY <1>3, <1>4, <1>5, <2>1, Zenon
<1>6. CASE x # None /\ y = None
  <2>1. Opt(b, x) = <<b>> /\ Opt(c, y) = <<>>
    BY <1>6 DEF Opt
  <2> QED
    BY <1>2, <1>3, <1>6, <2>1, Zenon
<1>7. CASE x = None /\ y # None
  <2>1. Opt(b, x) = <<>> /\ Opt(c, y) = <<c>>
    BY <1>7 DEF Opt
  <2> QED
    BY <1>2, <1>3, <1>7, <2>1, Zenon
<1>8. CASE x = None /\ y = None
  <2>1. Opt(b, x) = <<>> /\ Opt(c, y) = <<>>
    BY <1>8 DEF Opt
  <2> QED
    BY <1>2, <1>8, <2>1, Zenon
<1> QED
  BY <1>5, <1>6, <1>7, <1>8

LEMMA OneTyped ==
  ASSUME NEW S, NEW a \in S PROVE <<a>> \in Seq(S) /\ <<a>> # <<>>
OBVIOUS

LEMMA TwoTyped ==
  ASSUME NEW S, NEW a \in S, NEW b \in S PROVE <<a, b>> \in Seq(S) /\ <<a, b>> # <<>>
OBVIOUS

LEMMA ThreeTyped ==
  ASSUME NEW S, NEW a \in S, NEW b \in S, NEW c \in S PROVE <<a, b, c>> \in Seq(S) /\ <<a, b, c>> # <<>>
OBVIOUS

\* How a range that starts at x and may end twice is read.
OptEvents(x, k, y, m, z) == <<Introduced(x)>> \o Opt(Ended(k, y), y) \o Opt(Ended(m, z), z)

LEMMA OptRead ==
  ASSUME NEW v \in Int, NEW x \in Nat, NEW k \in {"fixed", "last_affected"}, NEW y \in Nat \cup {None},
         NEW m \in {"fixed", "last_affected"}, NEW z \in Nat \cup {None}
  PROVE  /\ OptEvents(x, k, y, m, z) # <<>> /\ AfterEvents(v, OptEvents(x, k, y, m, z)) \in BOOLEAN
         /\ AfterEvents(v, OptEvents(x, k, y, m, z))
               <=> v >= x /\ (y # None => Before(v, k, y)) /\ (z # None => Before(v, m, z))
         /\ v >= x /\ (y # None => Before(v, k, y)) /\ (z # None => Before(v, m, z)) =>
              Read(v, OptEvents(x, k, y, m, z)) = [pipeline |-> TRUE, audit |-> TRUE]
<1> SUFFICES ASSUME NEW es, es = OptEvents(x, k, y, m, z)
             PROVE  /\ es # <<>> /\ AfterEvents(v, es) \in BOOLEAN
                    /\ AfterEvents(v, es) <=> v >= x /\ (y # None => Before(v, k, y)) /\ (z # None => Before(v, m, z))
                    /\ v >= x /\ (y # None => Before(v, k, y)) /\ (z # None => Before(v, m, z)) =>
                         Read(v, es) = [pipeline |-> TRUE, audit |-> TRUE]
  BY Zenon
<1> DEFINE a == Introduced(x)
           b == Ended(k, y)
           c == Ended(m, z)
           rest == v >= x /\ (y # None => Before(v, k, y)) /\ (z # None => Before(v, m, z))
<1>1. Starter(a) /\ a \in WideEvents /\ a.intro = x
  BY DEF Introduced, Starter, WideEvents, Ends, None
<1>2. y # None => Ender(b) /\ b \in WideEvents /\ b.end = k /\ b.at = y
  BY DEF Ended, Ender, WideEvents, Ends, None
<1>3. z # None => Ender(c) /\ c \in WideEvents /\ c.end = m /\ c.at = z
  BY DEF Ended, Ender, WideEvents, Ends, None
<1>4. es = IF y # None THEN (IF z # None THEN <<a, b, c>> ELSE <<a, b>>)
           ELSE (IF z # None THEN <<a, c>> ELSE <<a>>)
  BY OptJoined DEF OptEvents
<1> HIDE DEF a, b, c
<1>5. es \in Seq(WideEvents) /\ es # <<>> /\ (AfterEvents(v, es) <=> rest) /\ (rest => AuditHas(v, es))
  <2>1. CASE y # None /\ z # None
    <3>1. es = <<a, b, c>>
      BY <1>4, <2>1
    <3>2. es \in Seq(WideEvents) /\ es # <<>>
      BY <1>1, <1>2, <1>3, <2>1, <3>1, ThreeTyped
    <3>3. /\ AfterEvents(v, es) <=> v >= a.intro /\ Before(v, b.end, b.at) /\ Before(v, c.end, c.at)
          /\ v >= a.intro /\ Before(v, b.end, b.at) /\ Before(v, c.end, c.at) => AuditHas(v, es)
      BY <1>1, <1>2, <1>3, <2>1, <3>1, ReadThree
    <3> QED
      BY <1>1, <1>2, <1>3, <2>1, <3>2, <3>3
  <2>2. CASE y # None /\ z = None
    <3>1. es = <<a, b>>
      BY <1>4, <2>2
    <3>2. es \in Seq(WideEvents) /\ es # <<>>
      BY <1>1, <1>2, <2>2, <3>1, TwoTyped
    <3>3. /\ AfterEvents(v, es) <=> v >= a.intro /\ Before(v, b.end, b.at)
          /\ v >= a.intro /\ Before(v, b.end, b.at) => AuditHas(v, es)
      BY <1>1, <1>2, <2>2, <3>1, ReadTwo
    <3> QED
      BY <1>1, <1>2, <2>2, <3>2, <3>3
  <2>3. CASE y = None /\ z # None
    <3>1. es = <<a, c>>
      BY <1>4, <2>3
    <3>2. es \in Seq(WideEvents) /\ es # <<>>
      BY <1>1, <1>3, <2>3, <3>1, TwoTyped
    <3>3. /\ AfterEvents(v, es) <=> v >= a.intro /\ Before(v, c.end, c.at)
          /\ v >= a.intro /\ Before(v, c.end, c.at) => AuditHas(v, es)
      BY <1>1, <1>3, <2>3, <3>1, ReadTwo
    <3> QED
      BY <1>1, <1>3, <2>3, <3>2, <3>3
  <2>4. CASE y = None /\ z = None
    <3>1. es = <<a>>
      BY <1>4, <2>4
    <3>2. es \in Seq(WideEvents) /\ es # <<>>
      BY <1>1, <2>4, <3>1, OneTyped
    <3>3. (AfterEvents(v, es) <=> v >= a.intro) /\ (v >= a.intro => AuditHas(v, es))
      BY <1>1, <2>4, <3>1, ReadOne
    <3> QED
      BY <1>1, <2>4, <3>2, <3>3
  <2> QED
    BY <2>1, <2>2, <2>3, <2>4
<1>6. AfterEvents(v, es) \in BOOLEAN
  BY <1>5, ReadsBoolean
<1>7. AuditHas(v, es) \in BOOLEAN
  BY DEF AuditHas, InRanges
<1>8. rest => Read(v, es) = [pipeline |-> TRUE, audit |-> TRUE]
  <2> HIDE DEF rest
  <2>1. Read(v, es) = [pipeline |-> AfterEvents(v, es), audit |-> AuditHas(v, es)]
    BY DEF Read, AuditHas
  <2>2. rest => AfterEvents(v, es) = TRUE /\ AuditHas(v, es) = TRUE
    BY <1>5, <1>6, <1>7
  <2> QED
    BY <2>1, <2>2
<1> QED
  BY <1>5, <1>6, <1>8

\* An advisory that the converters read: no exact version, none excluded, and a
\* strict lower bound only beside an upper one.
Written(clauses) ==
  /\ clauses # <<>> /\ Ops(clauses) \cap {"=", "!="} = {}
  /\ ">" \in Ops(clauses) => Bounded(clauses)

LEMMA WrittenStarts ==
  ASSUME NEW clauses \in Seq(ClauseOf), Written(clauses)
  PROVE  FirstOf(clauses, ">=") # None \/ Bounded(clauses)
<1>1. 1 \in DOMAIN clauses
  BY DEF Written
<1>2. clauses[1].op \in Ops(clauses) /\ clauses[1].op \in ClauseOps
  BY <1>1, ClauseTyped DEF Ops
<1>3. CASE clauses[1].op = ">="
  <2>1. Stands(clauses, ">=", FirstOf(clauses, ">="))
    BY FirstOfIs
  <2> QED
    BY <1>1, <1>3, <2>1, ClauseTyped DEF Stands
<1>4. CASE clauses[1].op = ">"
  BY <1>2, <1>4 DEF Written
<1>5. CASE clauses[1].op \in {"<", "<="}
  BY <1>1, <1>5 DEF Bounded
<1> QED
  BY <1>2, <1>3, <1>4, <1>5 DEF Written, ClauseOps

LEMMA StandsTyped ==
  ASSUME NEW clauses \in Seq(ClauseOf), NEW op, NEW x, Stands(clauses, op, x)
  PROVE  x \in Nat \cup {None}
BY ClauseTyped DEF Stands

GhsaIntro(clauses) ==
  IF FirstOf(clauses, ">=") # None THEN FirstOf(clauses, ">=")
  ELSE IF Bounded(clauses) \/ clauses = <<>> THEN 0 ELSE None
GhsaFix(clauses, patched) == IF FirstOf(clauses, "<") # None THEN FirstOf(clauses, "<") ELSE patched

\* GitHub's range starts, may have a last version and may be fixed.
LEMMA GhsaIs ==
  ASSUME NEW clauses \in Seq(ClauseOf), Written(clauses), NEW patched \in Nat \cup {None}, NEW v \in Int
  PROVE  LET x == GhsaIntro(clauses)
             y == FirstOf(clauses, "<=")
             z == GhsaFix(clauses, patched)
             es == GhsaEvents(clauses, patched)
         IN  /\ x \in Nat /\ y \in Nat \cup {None} /\ z \in Nat \cup {None}
             /\ AfterEvents(v, es) \in BOOLEAN
             /\ AfterEvents(v, es) <=> v >= x /\ (y # None => v <= y) /\ (z # None => v < z)
             /\ v >= x /\ (y # None => v <= y) /\ (z # None => v < z) =>
                  Read(v, es) = [pipeline |-> TRUE, audit |-> TRUE]
<1> DEFINE x == GhsaIntro(clauses)
           y == FirstOf(clauses, "<=")
           z == GhsaFix(clauses, patched)
           all == Opt(Introduced(x), x) \o Opt(Ended("last_affected", y), y) \o Opt(Ended("fixed", z), z)
<1>1. FirstOf(clauses, ">=") \in Nat \cup {None} /\ y \in Nat \cup {None} /\ FirstOf(clauses, "<") \in Nat \cup {None}
  BY FirstOfIs, StandsTyped
<1>2. x \in Nat /\ x # None
  BY <1>1, WrittenStarts DEF GhsaIntro, None
<1>3. z \in Nat \cup {None}
  BY <1>1 DEF GhsaFix
<1>4. GhsaEvents(clauses, patched) = IF all = <<>> THEN <<Introduced(0)>> ELSE all
  BY DEF GhsaEvents, GhsaIntro, GhsaFix
<1>5. all = OptEvents(x, "last_affected", y, "fixed", z)
  BY <1>2 DEF Opt, OptEvents
<1> HIDE DEF x, y, z, all
<1>6. /\ all # <<>> /\ AfterEvents(v, all) \in BOOLEAN
      /\ AfterEvents(v, all) <=> v >= x /\ (y # None => Before(v, "last_affected", y)) /\ (z # None => Before(v, "fixed", z))
      /\ v >= x /\ (y # None => Before(v, "last_affected", y)) /\ (z # None => Before(v, "fixed", z)) =>
           Read(v, all) = [pipeline |-> TRUE, audit |-> TRUE]
  BY <1>1, <1>2, <1>3, <1>5, OptRead
<1>7. GhsaEvents(clauses, patched) = all
  BY <1>4, <1>6
<1> QED
  BY <1>1, <1>2, <1>3, <1>6, <1>7 DEF Before, x, y, z

LEMMA GhsaNotNarrowed ==
  ASSUME NEW clauses \in Seq(ClauseOf), Written(clauses), NEW patched \in Nat \cup {None},
         NEW v \in Nat, Stated(v, clauses, patched)
  PROVE  Read(v, GhsaEvents(clauses, patched)) = [pipeline |-> TRUE, audit |-> TRUE]
<1>1. /\ FirstOf(clauses, ">=") # None => v >= FirstOf(clauses, ">=")
      /\ FirstOf(clauses, "<") # None => v < FirstOf(clauses, "<")
      /\ FirstOf(clauses, "<=") # None => v <= FirstOf(clauses, "<=")
  BY FirstOfIs, StatedMeets
<1>2. patched # None => v < patched
  BY DEF Stated
<1>3. FirstOf(clauses, ">=") # None \/ Bounded(clauses)
  BY WrittenStarts
<1>4. v >= GhsaIntro(clauses)
  BY <1>1, <1>3 DEF GhsaIntro
<1>5. GhsaFix(clauses, patched) # None => v < GhsaFix(clauses, patched)
  BY <1>1, <1>2 DEF GhsaFix
<1>6. v \in Int
  OBVIOUS
<1> QED
  BY <1>1, <1>4, <1>5, <1>6, GhsaIs

LEMMA MarkdownNotNarrowed ==
  ASSUME NEW clauses \in Seq(ClauseOf), Written(clauses), NEW patched \in Nat \cup {None},
         NEW v \in Nat, Stated(v, clauses, patched)
  PROVE  Read(v, MarkdownEvents(clauses, patched)) = [pipeline |-> TRUE, audit |-> TRUE]
<1> DEFINE x == IF FirstOf(clauses, ">=") # None THEN FirstOf(clauses, ">=") ELSE IF Bounded(clauses) THEN 0 ELSE None
           y == FirstOf(clauses, "<=")
           z == IF patched # None THEN patched ELSE FirstOf(clauses, "<")
           all == Opt(Introduced(x), x) \o Opt(Ended("last_affected", y), y) \o Opt(Ended("fixed", z), z)
<1>1. FirstOf(clauses, ">=") \in Nat \cup {None} /\ y \in Nat \cup {None} /\ FirstOf(clauses, "<") \in Nat \cup {None}
  BY FirstOfIs, StandsTyped
<1>2. /\ FirstOf(clauses, ">=") # None => v >= FirstOf(clauses, ">=")
      /\ FirstOf(clauses, "<") # None => v < FirstOf(clauses, "<")
      /\ y # None => v <= y
  BY FirstOfIs, StatedMeets
<1>3. patched # None => v < patched
  BY DEF Stated
<1>4. x \in Nat /\ x # None /\ v >= x
  BY <1>1, <1>2, WrittenStarts DEF None
<1>5. z \in Nat \cup {None} /\ (z # None => v < z) /\ v \in Int
  BY <1>1, <1>2, <1>3
<1>6. MarkdownEvents(clauses, patched) = IF all = <<>> THEN <<Introduced(0)>> ELSE all
  BY DEF MarkdownEvents
<1>7. all = OptEvents(x, "last_affected", y, "fixed", z)
  BY <1>4 DEF Opt, OptEvents
<1> HIDE DEF x, y, z, all
<1>8. (y # None => Before(v, "last_affected", y)) /\ (z # None => Before(v, "fixed", z))
  BY <1>2, <1>5 DEF Before
<1>9. all # <<>> /\ Read(v, all) = [pipeline |-> TRUE, audit |-> TRUE]
  BY <1>1, <1>4, <1>5, <1>7, <1>8, OptRead
<1> QED
  BY <1>6, <1>9

LEMMA GitLabNotNarrowed ==
  ASSUME NEW clauses \in Seq(ClauseOf), NEW patched \in Nat \cup {None},
         NEW v \in Nat, Stated(v, clauses, patched)
  PROVE  Read(v, GitLabEvents(clauses, patched)) = [pipeline |-> TRUE, audit |-> TRUE]
<1> DEFINE x == IF LastOf(clauses, ">=") # None THEN LastOf(clauses, ">=") ELSE 0
           y == LastOf(clauses, "<=")
           z == IF LastOf(clauses, "<") = None /\ y = None THEN patched ELSE LastOf(clauses, "<")
           all == <<Introduced(x)>> \o Opt(Ended("fixed", z), z) \o Opt(Ended("last_affected", y), y)
<1>1. LastOf(clauses, ">=") \in Nat \cup {None} /\ y \in Nat \cup {None} /\ LastOf(clauses, "<") \in Nat \cup {None}
  BY LastOfIs, StandsTyped
<1>2. /\ LastOf(clauses, ">=") # None => v >= LastOf(clauses, ">=")
      /\ LastOf(clauses, "<") # None => v < LastOf(clauses, "<")
      /\ y # None => v <= y
  BY LastOfIs, StatedMeets
<1>3. patched # None => v < patched
  BY DEF Stated
<1>4. x \in Nat /\ v >= x /\ v \in Int
  BY <1>1, <1>2
<1>5. z \in Nat \cup {None} /\ (z # None => v < z)
  BY <1>1, <1>2, <1>3
<1>6. GitLabEvents(clauses, patched) = all
  BY DEF GitLabEvents
<1> HIDE DEF x, y, z, all
<1>7. (y # None => Before(v, "last_affected", y)) /\ (z # None => Before(v, "fixed", z))
  BY <1>2, <1>5 DEF Before
<1>8. Read(v, all) = [pipeline |-> TRUE, audit |-> TRUE]
  <2>1. all = OptEvents(x, "fixed", z, "last_affected", y)
    BY DEF all, OptEvents
  <2> QED
    BY <1>1, <1>4, <1>5, <1>7, <2>1, OptRead
<1> QED
  BY <1>6, <1>8

\* One lower bound, one upper bound and one excluded version at most.
Kind(op) == IF op \in {">=", ">"} THEN "lower" ELSE IF op \in {"<", "<="} THEN "upper" ELSE op
Simple(clauses) == \A i, j \in DOMAIN clauses : Kind(clauses[i].op) = Kind(clauses[j].op) => i = j

LEMMA StandsAlone ==
  ASSUME NEW clauses \in Seq(ClauseOf), Simple(clauses), NEW op, NEW x, Stands(clauses, op, x),
         NEW i \in DOMAIN clauses, clauses[i].op = op
  PROVE  x = clauses[i].at /\ x \in Nat /\ x # None
BY ClauseTyped DEF Stands, Simple

LEMMA GhsaExact ==
  ASSUME NEW clauses \in Seq(ClauseOf), Simple(clauses), Written(clauses), ">" \notin Ops(clauses),
         NEW patched \in Nat \cup {None}, NEW v \in Nat
  PROVE  Read(v, GhsaEvents(clauses, patched)).pipeline
           = Stated(v, clauses, IF "<" \in Ops(clauses) THEN None ELSE patched)
<1> DEFINE x == GhsaIntro(clauses)
           y == FirstOf(clauses, "<=")
           z == GhsaFix(clauses, patched)
           es == GhsaEvents(clauses, patched)
           after == IF "<" \in Ops(clauses) THEN None ELSE patched
<1>1. v \in Int
  OBVIOUS
<1>2. /\ x \in Nat /\ y \in Nat \cup {None} /\ z \in Nat \cup {None} /\ AfterEvents(v, es) \in BOOLEAN
      /\ AfterEvents(v, es) <=> v >= x /\ (y # None => v <= y) /\ (z # None => v < z)
  BY <1>1, GhsaIs
<1>3. \A i \in DOMAIN clauses :
        /\ clauses[i].op \in {">=", "<", "<="}
        /\ clauses[i].op = ">=" => FirstOf(clauses, ">=") = clauses[i].at /\ FirstOf(clauses, ">=") # None
        /\ clauses[i].op = "<" => FirstOf(clauses, "<") = clauses[i].at /\ FirstOf(clauses, "<") # None
        /\ clauses[i].op = "<=" => y = clauses[i].at /\ y # None
  <2> SUFFICES ASSUME NEW i \in DOMAIN clauses
               PROVE  /\ clauses[i].op \in {">=", "<", "<="}
                      /\ clauses[i].op = ">=" => FirstOf(clauses, ">=") = clauses[i].at /\ FirstOf(clauses, ">=") # None
                      /\ clauses[i].op = "<" => FirstOf(clauses, "<") = clauses[i].at /\ FirstOf(clauses, "<") # None
                      /\ clauses[i].op = "<=" => y = clauses[i].at /\ y # None
    OBVIOUS
  <2>1. clauses[i].op \in ClauseOps /\ clauses[i].op \in Ops(clauses)
    BY ClauseTyped DEF Ops
  <2>2. clauses[i].op \in {">=", "<", "<="}
    BY <2>1 DEF Written, ClauseOps
  <2> QED
    BY <2>2, FirstOfIs, StandsAlone
<1>4. /\ FirstOf(clauses, ">=") # None => \E i \in DOMAIN clauses : clauses[i].op = ">=" /\ FirstOf(clauses, ">=") = clauses[i].at
      /\ FirstOf(clauses, "<") # None => \E i \in DOMAIN clauses : clauses[i].op = "<" /\ FirstOf(clauses, "<") = clauses[i].at
      /\ y # None => \E i \in DOMAIN clauses : clauses[i].op = "<=" /\ y = clauses[i].at
  BY FirstOfIs DEF Stands
<1>5. "<" \in Ops(clauses) <=> FirstOf(clauses, "<") # None
  BY <1>3, <1>4 DEF Ops
<1>6. z # None /\ "<" \notin Ops(clauses) => z = patched
  BY <1>5 DEF GhsaFix
<1> HIDE DEF y, es
<1>7. ASSUME v >= x, y # None => v <= y, z # None => v < z PROVE Stated(v, clauses, after)
  <2>1. ASSUME NEW i \in DOMAIN clauses PROVE Holds(v, clauses[i])
    <3>1. CASE clauses[i].op = ">="
      BY <1>3, <1>7, <3>1 DEF Holds, GhsaIntro
    <3>2. CASE clauses[i].op = "<"
      BY <1>3, <1>7, <3>2 DEF Holds, GhsaFix
    <3>3. CASE clauses[i].op = "<="
      BY <1>3, <1>7, <3>3 DEF Holds
    <3> QED
      BY <1>3, <3>1, <3>2, <3>3
  <2>2. after # None => v < after
    BY <1>5, <1>7 DEF GhsaFix
  <2> QED
    BY <2>1, <2>2 DEF Stated
<1>8. ASSUME Stated(v, clauses, after) PROVE v >= x /\ (y # None => v <= y) /\ (z # None => v < z)
  <2>1. \A i \in DOMAIN clauses : Holds(v, clauses[i])
    BY <1>8 DEF Stated
  <2>2. x # FirstOf(clauses, ">=") => x = 0
    BY <1>2 DEF GhsaIntro, None
  <2>3. v >= x
    <3>1. CASE x = 0
      BY <3>1
    <3>2. CASE x # 0
      <4>1. x = FirstOf(clauses, ">=") /\ FirstOf(clauses, ">=") # None
        BY <1>2, <2>2, <3>2 DEF None
      <4>2. PICK i \in DOMAIN clauses : clauses[i].op = ">=" /\ FirstOf(clauses, ">=") = clauses[i].at
        BY <1>4, <4>1
      <4>3. v >= clauses[i].at
        BY <2>1, <4>2 DEF Holds
      <4> QED
        BY <4>1, <4>2, <4>3
    <3> QED
      BY <3>1, <3>2
  <2>4. y # None => v <= y
    BY <1>4, <2>1 DEF Holds
  <2>5. z # None => v < z
    <3>1. CASE FirstOf(clauses, "<") # None
      BY <1>4, <2>1, <3>1 DEF Holds, GhsaFix
    <3>2. CASE FirstOf(clauses, "<") = None
      BY <1>5, <1>8, <3>2 DEF Stated, GhsaFix
    <3> QED
      BY <3>1, <3>2
  <2> QED
    BY <2>3, <2>4, <2>5
<1>9. Stated(v, clauses, after) \in BOOLEAN
  BY DEF Stated
<1>10. AfterEvents(v, es) <=> Stated(v, clauses, after)
  BY <1>2, <1>7, <1>8
<1>11. Read(v, es).pipeline = AfterEvents(v, es)
  BY DEF Read
<1> QED
  BY <1>2, <1>9, <1>10, <1>11 DEF es

\* The parts of decompose_pep440_ranges.
Lower(clauses) == {i \in DOMAIN clauses : clauses[i].op \in {">=", ">"}}
Upper(clauses) == {i \in DOMAIN clauses : clauses[i].op \in {"<", "<="}}
Cuts(clauses) == {clauses[i].at : i \in {j \in DOMAIN clauses : clauses[j].op = "!="}}
PypaFrom(clauses) ==
  IF Lower(clauses) = {} THEN 0
  ELSE LET c == clauses[Max(Lower(clauses))] IN IF c.op = ">" THEN c.at + 1 ELSE c.at
PypaEnd(clauses) ==
  IF Upper(clauses) = {} THEN <<>>
  ELSE LET c == clauses[Max(Upper(clauses))] IN <<Ended(IF c.op = "<" THEN "fixed" ELSE "last_affected", c.at)>>
InOrder(cuts) == CHOOSE s \in [1..Cardinality(cuts) -> cuts] : \A i, j \in DOMAIN s : i < j => s[i] < s[j]
CutStep(s, x) == [from |-> x + 1, events |-> s.events \o <<Introduced(s.from), Ended("fixed", x)>>]
CutBase(from) == [from |-> from, events |-> <<>>]
CutOf(from, seq) == FoldLeft(CutStep, CutBase(from), seq)

\* A range that is not cut, and one that is cut once.
LEMMA CutUnfold ==
  ASSUME NEW from, NEW seq
  PROVE  /\ DOMAIN seq = {} => CutOf(from, seq) = CutBase(from)
         /\ DOMAIN seq = {1} => CutOf(from, seq) = CutStep(CutBase(from), seq[1])
         /\ DOMAIN seq = {1, 2} => CutOf(from, seq) = CutStep(CutStep(CutBase(from), seq[1]), seq[2])
<1> SUFFICES ASSUME DOMAIN seq \in {{}, {1}, {1, 2}}
             PROVE  CutOf(from, seq) = IF DOMAIN seq = {} THEN CutBase(from)
                             ELSE IF DOMAIN seq = {1} THEN CutStep(CutBase(from), seq[1])
                             ELSE CutStep(CutStep(CutBase(from), seq[1]), seq[2])
  BY OneTwo
<1> DEFINE step(y, e) == CutStep(y, e)
           first == CutBase(from)
           Eq(g) == g = [s \in SUBSET (DOMAIN seq) |->
                           IF s = {} THEN first ELSE LET x == Max(s) IN step(g[s \ {x}], seq[x])]
           it == CHOOSE g : Eq(g)
           f == [s \in SUBSET (DOMAIN seq) |->
                   IF s = {} THEN first ELSE IF s = {1} THEN step(first, seq[1])
                   ELSE IF s = {2} THEN step(first, seq[2]) ELSE step(step(first, seq[1]), seq[2])]
<1>1. CutOf(from, seq) = it[DOMAIN seq]
  BY DEF FoldLeft, MapThenFoldSet, CutOf
<1> HIDE DEF step, first
<1>2. Eq(f)
  <2>1. ASSUME NEW s \in SUBSET (DOMAIN seq)
        PROVE  f[s] = IF s = {} THEN first ELSE step(f[s \ {Max(s)}], seq[Max(s)])
    <3>1. s \in {{}, {1}, {2}, {1, 2}} /\ s \ {Max(s)} \in SUBSET (DOMAIN seq)
      OBVIOUS
    <3> QED
      BY <3>1, OneTwo
  <2> QED
    BY <2>1
<1>3. Eq(it)
  <2> HIDE DEF Eq
  <2> QED
    BY <1>2
<1> HIDE DEF it
<1>4. \A s \in SUBSET (DOMAIN seq) : it[s] = IF s = {} THEN first ELSE step(it[s \ {Max(s)}], seq[Max(s)])
  BY <1>3
<1>5. it[{}] = first
  BY <1>4
<1>6. 1 \in DOMAIN seq => it[{1}] = step(first, seq[1])
  BY <1>4, <1>5, OneTwo
<1>7. DOMAIN seq = {1, 2} => it[{1, 2}] = step(it[{1}], seq[2])
  BY <1>4, OneTwo
<1>8. it[DOMAIN seq] = IF DOMAIN seq = {} THEN first
                       ELSE IF DOMAIN seq = {1} THEN step(first, seq[1])
                       ELSE step(step(first, seq[1]), seq[2])
  BY <1>5, <1>6, <1>7, OneTwo
<1> QED
  BY <1>1, <1>8 DEF step, first

LEMMA PypaIs ==
  ASSUME NEW clauses
  PROVE  PypaEvents(clauses) = CutOf(PypaFrom(clauses), InOrder(Cuts(clauses))).events
           \o <<Introduced(CutOf(PypaFrom(clauses), InOrder(Cuts(clauses))).from)>> \o PypaEnd(clauses)
BY DEF PypaEvents, CutOf, CutStep, CutBase, PypaFrom, PypaEnd, Lower, Upper, Cuts, InOrder

LEMMA OrderIs ==
  /\ DOMAIN InOrder({}) = {}
  /\ \A x : DOMAIN InOrder({x}) = {1} /\ InOrder({x})[1] = x
<1>1. DOMAIN InOrder({}) = {}
  <2>1. 1..Cardinality({}) = {}
    BY FS_EmptySet
  <2> DEFINE P(s) == \A i, j \in DOMAIN s : i < j => s[i] < s[j]
  <2>2. InOrder({}) = CHOOSE s \in [{} -> {}] : P(s)
    BY <2>1 DEF InOrder
  <2>3. \E s \in [{} -> {}] : P(s)
    <3>1. [i \in {} |-> 0] \in [{} -> {}] /\ P([i \in {} |-> 0])
      OBVIOUS
    <3> QED
      BY <3>1
  <2> HIDE DEF P
  <2>4. InOrder({}) \in [{} -> {}]
    BY <2>2, <2>3
  <2> QED
    BY <2>4
<1>2. ASSUME NEW x PROVE DOMAIN InOrder({x}) = {1} /\ InOrder({x})[1] = x
  <2>1. 1..Cardinality({x}) = {1}
    <3>1. Cardinality({x}) = 1
      BY FS_Singleton
    <3> QED
      BY <3>1
  <2> DEFINE P(s) == \A i, j \in DOMAIN s : i < j => s[i] < s[j]
  <2>2. InOrder({x}) = CHOOSE s \in [{1} -> {x}] : P(s)
    BY <2>1 DEF InOrder
  <2>3. \E s \in [{1} -> {x}] : P(s)
    <3>1. [i \in {1} |-> x] \in [{1} -> {x}] /\ P([i \in {1} |-> x])
      OBVIOUS
    <3> QED
      BY <3>1
  <2> HIDE DEF P
  <2>4. InOrder({x}) \in [{1} -> {x}]
    BY <2>2, <2>3
  <2> QED
    BY <2>4
<1> QED
  BY <1>1, <1>2

LEMMA MaxOfOne ==
  ASSUME NEW i \in Nat PROVE Max({i}) = i
<1>1. {i} \in SUBSET (0..i) /\ {i} # {}
  OBVIOUS
<1> QED
  BY <1>1, MaxOf

\* Where the range starts, and the lower bound.
LEMMA FromIs ==
  ASSUME NEW clauses \in Seq(ClauseOf), Simple(clauses)
  PROVE  /\ PypaFrom(clauses) \in Nat
         /\ \A v \in Nat : v >= PypaFrom(clauses) <=> \A i \in Lower(clauses) : Holds(v, clauses[i])
<1>1. CASE Lower(clauses) = {}
  BY <1>1 DEF PypaFrom
<1>2. CASE Lower(clauses) # {}
  <2>1. PICK i \in DOMAIN clauses : i \in Lower(clauses)
    BY <1>2 DEF Lower
  <2>2. Lower(clauses) = {i}
    BY <2>1 DEF Lower, Simple, Kind
  <2>3. Max(Lower(clauses)) = i
    BY <2>2, MaxOfOne
  <2>4. clauses[i].op \in {">=", ">"} /\ clauses[i].at \in Nat
    BY <2>1, ClauseTyped DEF Lower
  <2>5. PypaFrom(clauses) = IF clauses[i].op = ">" THEN clauses[i].at + 1 ELSE clauses[i].at
    BY <1>2, <2>3 DEF PypaFrom
  <2>6. \A v \in Nat : Holds(v, clauses[i]) <=> v >= PypaFrom(clauses)
    <3> TAKE v \in Nat
    <3>1. CASE clauses[i].op = ">"
      BY <2>4, <2>5, <3>1 DEF Holds
    <3>2. CASE clauses[i].op = ">="
      BY <2>4, <2>5, <3>2 DEF Holds
    <3> QED
      BY <2>4, <3>1, <3>2
  <2> QED
    BY <2>2, <2>4, <2>5, <2>6
<1> QED
  BY <1>1, <1>2

\* How it ends, and the upper bound.
LEMMA EndIs ==
  ASSUME NEW clauses \in Seq(ClauseOf), Simple(clauses)
  PROVE  \/ Upper(clauses) = {} /\ PypaEnd(clauses) = <<>>
         \/ \E e : /\ PypaEnd(clauses) = <<e>> /\ Ender(e)
                   /\ \A v \in Nat : Before(v, e.end, e.at) <=> \A i \in Upper(clauses) : Holds(v, clauses[i])
<1>1. CASE Upper(clauses) = {}
  BY <1>1 DEF PypaEnd
<1>2. CASE Upper(clauses) # {}
  <2>1. PICK i \in DOMAIN clauses : i \in Upper(clauses)
    BY <1>2 DEF Upper
  <2>2. Upper(clauses) = {i}
    BY <2>1 DEF Upper, Simple, Kind
  <2>3. Max(Upper(clauses)) = i
    BY <2>2, MaxOfOne
  <2>4. clauses[i].op \in {"<", "<="} /\ clauses[i].at \in Nat /\ clauses[i].at # None
    BY <2>1, ClauseTyped DEF Upper
  <2> DEFINE e == Ended(IF clauses[i].op = "<" THEN "fixed" ELSE "last_affected", clauses[i].at)
  <2>5. PypaEnd(clauses) = <<e>>
    BY <1>2, <2>3 DEF PypaEnd
  <2>6. Ender(e)
    BY <2>4 DEF Ender, Ended, WideEvents, Ends, None
  <2>7. \A v \in Nat : Holds(v, clauses[i]) <=> Before(v, e.end, e.at)
    BY <2>4 DEF Holds, Before, Ended
  <2> QED
    BY <2>2, <2>5, <2>6, <2>7
<1> QED
  BY <1>1, <1>2

LEMMA ReadIs ==
  ASSUME NEW v, NEW es \in Seq(WideEvents), NEW S \in BOOLEAN,
         AfterEvents(v, es) <=> S, AuditHas(v, es) <=> S
  PROVE  Read(v, es) = [pipeline |-> S, audit |-> S]
<1>1. AfterEvents(v, es) \in BOOLEAN
  BY ReadsBoolean
<1>2. AuditHas(v, es) \in BOOLEAN
  BY DEF AuditHas, InRanges
<1>3. Read(v, es) = [pipeline |-> AfterEvents(v, es), audit |-> AuditHas(v, es)]
  BY DEF Read, AuditHas
<1>4. AfterEvents(v, es) = S /\ AuditHas(v, es) = S
  BY <1>1, <1>2
<1> QED
  BY <1>3, <1>4, Zenon

\* Specifiers without an exact version whose excluded versions lie within the
\* bounds.
Within(clauses) ==
  /\ clauses # <<>> /\ "=" \notin Ops(clauses)
  /\ \A x \in Cuts(clauses), i \in DOMAIN clauses : clauses[i].op # "!=" => Holds(x, clauses[i])

LEMMA StatedIs ==
  ASSUME NEW clauses \in Seq(ClauseOf), "=" \notin Ops(clauses), NEW v \in Nat
  PROVE  Stated(v, clauses, None) <=> /\ \A i \in Lower(clauses) : Holds(v, clauses[i])
                                      /\ \A i \in Upper(clauses) : Holds(v, clauses[i])
                                      /\ v \notin Cuts(clauses)
<1>1. \A i \in DOMAIN clauses : clauses[i].op \in ClauseOps \ {"="}
  BY ClauseTyped DEF Ops
<1>2. \A i \in DOMAIN clauses : clauses[i].op = "!=" => (Holds(v, clauses[i]) <=> v # clauses[i].at)
  BY DEF Holds
<1> QED
  BY <1>1, <1>2 DEF Stated, Lower, Upper, Cuts, ClauseOps

LEMMA CutsAre ==
  ASSUME NEW clauses \in Seq(ClauseOf), Simple(clauses)
  PROVE  Cuts(clauses) = {} \/ \E x \in Nat : Cuts(clauses) = {x}
<1>1. CASE {i \in DOMAIN clauses : clauses[i].op = "!="} = {}
  BY <1>1 DEF Cuts
<1>2. CASE {i \in DOMAIN clauses : clauses[i].op = "!="} # {}
  <2>1. PICK i \in DOMAIN clauses : clauses[i].op = "!="
    BY <1>2
  <2>2. {j \in DOMAIN clauses : clauses[j].op = "!="} = {i}
    BY <2>1 DEF Simple
  <2>3. Cuts(clauses) = {clauses[i].at} /\ clauses[i].at \in Nat
    BY <2>1, <2>2, ClauseTyped DEF Cuts
  <2> QED
    BY <2>3
<1> QED
  BY <1>1, <1>2

LEMMA Join4 ==
  ASSUME NEW x, NEW y, NEW z, NEW w
  PROVE  <<x, y, z>> \o <<w>> = <<x, y, z, w>>
<1> DEFINE S == {x, y, z, w}
<1>1. <<x, y, z>> \in Seq(S) /\ <<w>> \in Seq(S) /\ <<x, y, z, w>> \in Seq(S)
  OBVIOUS
<1> HIDE DEF S
<1>2. /\ Len(<<x, y, z>>) = 3 /\ Len(<<w>>) = 1 /\ Len(<<x, y, z, w>>) = 4
      /\ <<x, y, z>>[1] = x /\ <<x, y, z>>[2] = y /\ <<x, y, z>>[3] = z /\ <<w>>[1] = w
      /\ <<x, y, z, w>>[1] = x /\ <<x, y, z, w>>[2] = y /\ <<x, y, z, w>>[3] = z /\ <<x, y, z, w>>[4] = w
  OBVIOUS
<1>3. /\ <<x, y, z>> \o <<w>> \in Seq(S) /\ Len(<<x, y, z>> \o <<w>>) = 4
      /\ \A i \in 1..4 : (<<x, y, z>> \o <<w>>)[i] = IF i <= 3 THEN <<x, y, z>>[i] ELSE <<w>>[i - 3]
  BY <1>1, <1>2, ConcatProperties
<1>4. /\ (<<x, y, z>> \o <<w>>)[1] = x /\ (<<x, y, z>> \o <<w>>)[2] = y
      /\ (<<x, y, z>> \o <<w>>)[3] = z /\ (<<x, y, z>> \o <<w>>)[4] = w
  BY <1>2, <1>3
<1>5. \A i \in 1..4 : (<<x, y, z>> \o <<w>>)[i] = <<x, y, z, w>>[i]
  BY <1>2, <1>4
<1> QED
  BY <1>1, <1>2, <1>3, <1>5, SeqEqual

LEMMA PypaUncut ==
  ASSUME NEW clauses \in Seq(ClauseOf), Simple(clauses), Cuts(clauses) = {}, "=" \notin Ops(clauses), NEW v \in Nat
  PROVE  Read(v, PypaEvents(clauses)) = [pipeline |-> Stated(v, clauses, None), audit |-> Stated(v, clauses, None)]
<1> DEFINE a == Introduced(PypaFrom(clauses))
           S == Stated(v, clauses, None)
           es == PypaEvents(clauses)
<1>1. /\ PypaFrom(clauses) \in Nat /\ v \in Int
      /\ v >= PypaFrom(clauses) <=> \A i \in Lower(clauses) : Holds(v, clauses[i])
  BY FromIs
<1>2. CutOf(PypaFrom(clauses), InOrder(Cuts(clauses))) = CutBase(PypaFrom(clauses))
  BY OrderIs, CutUnfold
<1>21. CutBase(PypaFrom(clauses)).events = <<>> /\ CutBase(PypaFrom(clauses)).from = PypaFrom(clauses)
  BY DEF CutBase
<1>3. es = <<>> \o <<a>> \o PypaEnd(clauses)
  BY <1>2, <1>21, PypaIs, Zenon
<1>4. Starter(a) /\ a \in WideEvents /\ a.intro = PypaFrom(clauses)
  BY <1>1 DEF Starter, Introduced, WideEvents, Ends, None
<1>5. S \in BOOLEAN /\ (S <=> /\ \A i \in Lower(clauses) : Holds(v, clauses[i])
                              /\ \A i \in Upper(clauses) : Holds(v, clauses[i]))
  BY StatedIs DEF Stated
<1> HIDE DEF a, S, es
<1>6. <<a>> \in Seq(WideEvents) /\ <<>> \o <<a>> = <<a>>
  BY <1>4, OneTyped, Join0
<1>7. CASE Upper(clauses) = {} /\ PypaEnd(clauses) = <<>>
  <2>1. es = <<a>>
    BY <1>3, <1>6, <1>7, Join0
  <2>2. (AfterEvents(v, es) <=> v >= a.intro) /\ (AuditHas(v, es) <=> v >= a.intro)
    BY <1>1, <1>4, <2>1, ReadOne
  <2> QED
    BY <1>1, <1>4, <1>5, <1>6, <1>7, <2>1, <2>2, ReadIs DEF es, S
<1>8. ASSUME NEW e, PypaEnd(clauses) = <<e>>, Ender(e),
             Before(v, e.end, e.at) <=> \A i \in Upper(clauses) : Holds(v, clauses[i])
      PROVE  Read(v, es) = [pipeline |-> S, audit |-> S]
  <2>1. es = <<a, e>>
    BY <1>3, <1>6, <1>8, Join2
  <2>2. /\ AfterEvents(v, es) <=> v >= a.intro /\ Before(v, e.end, e.at)
        /\ AuditHas(v, es) <=> v >= a.intro /\ Before(v, e.end, e.at)
    BY <1>1, <1>4, <1>8, <2>1, ReadTwo
  <2>3. es \in Seq(WideEvents)
    BY <1>4, <1>8, <2>1, TwoTyped DEF Ender
  <2> QED
    BY <1>1, <1>4, <1>5, <1>8, <2>2, <2>3, ReadIs
<1> QED
  BY <1>7, <1>8, EndIs DEF es, S

\* A range with one excluded version: it is cut in two.
LEMMA CutOnce ==
  ASSUME NEW clauses, NEW x, Cuts(clauses) = {x}
  PROVE  /\ PypaEnd(clauses) = <<>> =>
              PypaEvents(clauses) = <<Introduced(PypaFrom(clauses)), Ended("fixed", x), Introduced(x + 1)>>
         /\ \A e : PypaEnd(clauses) = <<e>> =>
              PypaEvents(clauses) = <<Introduced(PypaFrom(clauses)), Ended("fixed", x), Introduced(x + 1), e>>
<1> DEFINE s == CutOf(PypaFrom(clauses), InOrder(Cuts(clauses)))
           a == Introduced(PypaFrom(clauses))
           b == Ended("fixed", x)
           c == Introduced(x + 1)
<1>1. DOMAIN InOrder(Cuts(clauses)) = {1} /\ InOrder(Cuts(clauses))[1] = x
  BY OrderIs
<1>2. s = CutStep(CutBase(PypaFrom(clauses)), x)
  BY <1>1, CutUnfold
<1>3. s.events = CutBase(PypaFrom(clauses)).events \o <<Introduced(CutBase(PypaFrom(clauses)).from), b>> /\ s.from = x + 1
  <2>1. ASSUME NEW y PROVE CutStep(y, x).events = y.events \o <<Introduced(y.from), b>> /\ CutStep(y, x).from = x + 1
    BY DEF CutStep
  <2> HIDE DEF s
  <2> QED
    BY <1>2, <2>1
<1>4. CutBase(PypaFrom(clauses)).events = <<>> /\ CutBase(PypaFrom(clauses)).from = PypaFrom(clauses)
  BY DEF CutBase
<1>5. s.events = <<>> \o <<a, b>>
  BY <1>3, <1>4, Zenon
<1>6. PypaEvents(clauses) = s.events \o <<Introduced(s.from)>> \o PypaEnd(clauses)
  BY PypaIs
<1> HIDE DEF s, a, b
<1>7. <<a, b>> \in Seq({a, b}) /\ <<a, b, c>> \in Seq({a, b, c})
  BY TwoTyped, ThreeTyped
<1> HIDE DEF c
<1>8. s.events = <<a, b>> /\ <<a, b, c>> \o <<>> = <<a, b, c>>
  BY <1>5, <1>7, Join0
<1>9. PypaEvents(clauses) = <<a, b, c>> \o PypaEnd(clauses)
  <2>1. PypaEvents(clauses) = <<a, b>> \o <<c>> \o PypaEnd(clauses)
    BY <1>3, <1>6, <1>8, Zenon DEF c
  <2> QED
    BY <2>1, Join3, Zenon
<1>10. PypaEnd(clauses) = <<>> => PypaEvents(clauses) = <<a, b, c>>
  BY <1>8, <1>9, Zenon
<1>11. \A e : PypaEnd(clauses) = <<e>> => PypaEvents(clauses) = <<a, b, c, e>>
  BY <1>9, Join4, Zenon
<1> QED
  BY <1>10, <1>11 DEF a, b, c

LEMMA PypaCut ==
  ASSUME NEW clauses \in Seq(ClauseOf), Simple(clauses), Within(clauses), NEW x \in Nat, Cuts(clauses) = {x}, NEW v \in Nat
  PROVE  Read(v, PypaEvents(clauses)) = [pipeline |-> Stated(v, clauses, None), audit |-> Stated(v, clauses, None)]
<1> DEFINE a == Introduced(PypaFrom(clauses))
           b == Ended("fixed", x)
           c == Introduced(x + 1)
           S == Stated(v, clauses, None)
           es == PypaEvents(clauses)
           over(n) == \A i \in Upper(clauses) : Holds(n, clauses[i])
<1>1. /\ PypaFrom(clauses) \in Nat /\ v \in Int
      /\ v >= PypaFrom(clauses) <=> \A i \in Lower(clauses) : Holds(v, clauses[i])
      /\ x >= PypaFrom(clauses) <=> \A i \in Lower(clauses) : Holds(x, clauses[i])
  BY FromIs
<1>2. x >= PypaFrom(clauses) /\ over(x)
  BY <1>1 DEF Within, Lower, Upper
<1>3. /\ Starter(a) /\ a \in WideEvents /\ a.intro = PypaFrom(clauses)
      /\ Ender(b) /\ b \in WideEvents /\ b.end = "fixed" /\ b.at = x
      /\ Starter(c) /\ c \in WideEvents /\ c.intro = x + 1
  BY <1>1 DEF Starter, Ender, Introduced, Ended, WideEvents, Ends, None
<1>4. S \in BOOLEAN /\ (S <=> v >= PypaFrom(clauses) /\ over(v) /\ v # x)
  BY <1>1, StatedIs DEF Stated, Within
<1>5. /\ PypaEnd(clauses) = <<>> => es = <<a, b, c>>
      /\ \A e : PypaEnd(clauses) = <<e>> => es = <<a, b, c, e>>
  BY CutOnce
<1> HIDE DEF a, b, c, S, es
<1>6. ASSUME Upper(clauses) = {}, PypaEnd(clauses) = <<>>
      PROVE  Read(v, es) = [pipeline |-> S, audit |-> S]
  <2>1. es = <<a, b, c>> /\ es \in Seq(WideEvents)
    BY <1>3, <1>5, <1>6, ThreeTyped
  <2>2. /\ AfterEvents(v, es) <=> (v >= a.intro /\ v < b.at) \/ v >= c.intro
        /\ AuditHas(v, es) <=> (v >= a.intro /\ v < b.at) \/ v >= c.intro
    BY <1>1, <1>3, <2>1, ReadCut
  <2>3. ((v >= a.intro /\ v < b.at) \/ v >= c.intro) <=> S
    BY <1>1, <1>2, <1>3, <1>4, <1>6
  <2>4. (AfterEvents(v, es) <=> S) /\ (AuditHas(v, es) <=> S)
    BY <2>2, <2>3
  <2> QED
    BY <1>4, <2>1, <2>4, ReadIs
<1>7. ASSUME NEW e, PypaEnd(clauses) = <<e>>, Ender(e), \A n \in Nat : Before(n, e.end, e.at) <=> over(n)
      PROVE  Read(v, es) = [pipeline |-> S, audit |-> S]
  <2>1. es = <<a, b, c, e>> /\ e \in WideEvents
    BY <1>5, <1>7 DEF Ender
  <2>2. es \in Seq(WideEvents)
    BY <1>3, <2>1, TupleTyped
  <2>3. /\ AfterEvents(v, es) <=> ((v >= a.intro /\ v < b.at) \/ v >= c.intro) /\ Before(v, e.end, e.at)
        /\ AuditHas(v, es) <=> (v >= a.intro /\ v < b.at) \/ (v >= c.intro /\ Before(v, e.end, e.at))
    BY <1>1, <1>3, <1>7, <2>1, ReadCutEnd
  <2>4. Before(x, e.end, e.at) /\ (Before(v, e.end, e.at) <=> over(v))
    BY <1>2, <1>7
  <2>5. v <= x => Before(v, e.end, e.at)
    BY <1>7, <2>1, <2>4 DEF Before, WideEvents, Ender
  <2>6. /\ ((v >= a.intro /\ v < b.at) \/ v >= c.intro) /\ Before(v, e.end, e.at) <=> S
        /\ (v >= a.intro /\ v < b.at) \/ (v >= c.intro /\ Before(v, e.end, e.at)) <=> S
    <3> HIDE DEF over
    <3> QED
      BY <1>1, <1>2, <1>3, <1>4, <2>4, <2>5
  <2>7. (AfterEvents(v, es) <=> S) /\ (AuditHas(v, es) <=> S)
    BY <2>3, <2>6
  <2> QED
    BY <1>4, <2>2, <2>7, ReadIs
<1> QED
  BY <1>6, <1>7, EndIs DEF es, S

\* No converter narrows an advisory, GitHub's come through exactly where no
\* bound is strict from below, and PyPA's if what they exclude is within their
\* bounds (converters/ghsa.py, markdown_advisory.py, gitlab.py, pypa.py).
THEOREM ConversionIsSound ==
  ASSUME NEW clauses \in Seq(ClauseOf), Simple(clauses), NEW patched \in Nat \cup {None}
  PROVE  ConversionSound(clauses, patched)
<1> DEFINE both(b) == [pipeline |-> b, audit |-> b]
<1>1. ASSUME NEW v \in Nat, Written(clauses), Stated(v, clauses, patched),
             NEW events \in {GhsaEvents(clauses, patched), MarkdownEvents(clauses, patched), GitLabEvents(clauses, patched)}
      PROVE  Read(v, events) = both(TRUE)
  BY <1>1, GhsaNotNarrowed, MarkdownNotNarrowed, GitLabNotNarrowed
<1>2. ASSUME NEW v \in Nat, Written(clauses), ">" \notin Ops(clauses)
      PROVE  Read(v, GhsaEvents(clauses, patched)).pipeline = Stated(v, clauses, IF "<" \in Ops(clauses) THEN None ELSE patched)
  BY <1>2, GhsaExact
<1>3. ASSUME NEW v \in Nat, Within(clauses)
      PROVE  Read(v, PypaEvents(clauses)) = both(Stated(v, clauses, None))
  <2>1. CASE Cuts(clauses) = {}
    BY <1>3, <2>1, PypaUncut DEF Within
  <2>2. CASE \E x \in Nat : Cuts(clauses) = {x}
    BY <1>3, <2>2, PypaCut
  <2> QED
    BY <2>1, <2>2, CutsAre
<1>4. Versions \subseteq Nat
  BY VersionRangesAssumption DEF Versions
<1> QED
  BY <1>1, <1>2, <1>3, <1>4 DEF ConversionSound, Written, Within, Cuts

\* What changes for a version is a delta, and a delta is a change
\* (delta_detector.py), for any ranges.
THEOREM DeltaIsSound ==
  ASSUME NEW old, NEW new
  PROVE  DeltaSound(old, new)
<1>1. ASSUME ~EvaluateDeltas(old, new), NEW id \in DOMAIN new, NEW v \in Versions
      PROVE  /\ id \in DOMAIN old
             /\ AfterEvents(v, new[id].ranges) = AfterEvents(v, old[id].ranges)
             /\ new[id].severity = old[id].severity
  <2>1. id \in DOMAIN old
    BY <1>1 DEF EvaluateDeltas
  <2>2. new[id].ranges = old[id].ranges /\ new[id].severity = old[id].severity
    BY <1>1, <2>1 DEF EvaluateDeltas
  <2> QED
    BY <2>1, <2>2, Zenon
<1>2. EvaluateDeltas(old, new) => new # old
  BY DEF EvaluateDeltas
<1> QED
  BY <1>1, <1>2, Zenon DEF DeltaSound

-----------------------------------------------------------------------------
(* Sums over a finite set.                                                 *)

\* Of the parts of a finite set, one of any kind is the smallest.
LEMMA SmallestPart ==
  ASSUME NEW S, IsFiniteSet(S), NEW bad, bad \subseteq SUBSET S, bad # {}
  PROVE  \E s \in bad : \A r \in bad : r \subseteq s => r = s
<1> DEFINE N == {Cardinality(s) : s \in bad}
<1>1. \A s \in bad : IsFiniteSet(s) /\ Cardinality(s) \in Nat
  BY FS_Subset, FS_CardinalityType
<1>2. N \subseteq Nat /\ N # {}
  BY <1>1
<1>3. PICK n \in N : \A m \in N : n <= m
  <2> HIDE DEF N
  <2> QED
    BY <1>2, LeastOf
<1>4. PICK s \in bad : n = Cardinality(s)
  OBVIOUS
<1>5. ASSUME NEW r \in bad, r \subseteq s PROVE r = s
  <2>1. Cardinality(r) \in N /\ n <= Cardinality(r)
    BY <1>3
  <2>2. Cardinality(r) <= Cardinality(s) /\ (Cardinality(r) = Cardinality(s) => r = s)
    BY <1>1, <1>5, FS_Subset
  <2> QED
    BY <1>1, <1>4, <2>1, <2>2
<1> QED
  BY <1>5

\* Numbers for the members of a finite set, whose parts have a member each.
Terms(S, w, c) ==
  /\ IsFiniteSet(S) /\ \A x \in S : w[x] \in Nat
  /\ \A s \in SUBSET S : s # {} => c[s] \in s

\* What a sum over the parts of S is, whatever member c picks.
SumOf(S, w, c, g) ==
  \A s \in SUBSET S : g[s] = IF s = {} THEN 0 ELSE g[s \ {c[s]}] + w[c[s]]

\* A sum does not depend on the order of its terms.
LEMMA SumTakes ==
  ASSUME NEW S, NEW w, NEW c, Terms(S, w, c),
         NEW g, SumOf(S, w, c, g)
  PROVE  \A s \in SUBSET S : g[s] \in Nat /\ \A x \in s : g[s] = g[s \ {x}] + w[x]
<1> DEFINE Good(s) == g[s] \in Nat /\ \A x \in s : g[s] = g[s \ {x}] + w[x]
           bad == {s \in SUBSET S : ~Good(s)}
<1>1. SUFFICES ASSUME bad # {} PROVE FALSE
  OBVIOUS
<1>0. /\ IsFiniteSet(S) /\ \A x \in S : w[x] \in Nat
      /\ \A s \in SUBSET S : s # {} => c[s] \in s
  BY DEF Terms
<1>2. PICK s \in bad : \A r \in bad : r \subseteq s => r = s
  <2>1. bad \subseteq SUBSET S
    OBVIOUS
  <2> HIDE DEF bad
  <2> QED
    BY <1>0, <1>1, <2>1, SmallestPart
<1>3. \A r \in SUBSET S : r \subseteq s /\ r # s => Good(r)
  BY <1>2
<1>4. s \in SUBSET S /\ ~Good(s)
  BY <1>2
<1>5. s # {}
  <2>1. {} \in SUBSET S /\ g[{}] = 0
    BY DEF SumOf
  <2>2. Good({})
    BY <2>1
  <2> HIDE DEF Good
  <2> QED
    BY <1>4, <2>2
<1> DEFINE y == c[s]
<1>6. y \in s /\ y \in S /\ w[y] \in Nat /\ g[s] = g[s \ {y}] + w[y]
  BY <1>0, <1>4, <1>5 DEF SumOf
<1> HIDE DEF bad, y, Good
<1>7. Good(s \ {y})
  BY <1>3, <1>4, <1>6
<1>8. g[s] \in Nat
  BY <1>6, <1>7 DEF Good
<1>9. ASSUME NEW x \in s PROVE g[s] = g[s \ {x}] + w[x]
  <2>1. CASE x = y
    BY <1>6, <2>1
  <2>2. CASE x # y
    <3>1. Good(s \ {x})
      BY <1>3, <1>4
    <3>2. x \in s \ {y} /\ y \in s \ {x} /\ w[x] \in Nat
      BY <1>0, <1>4, <1>6, <2>2
    <3>3. g[s \ {y}] = g[(s \ {y}) \ {x}] + w[x]
      BY <1>7, <3>2 DEF Good
    <3>4. g[s \ {x}] = g[(s \ {x}) \ {y}] + w[y]
      BY <3>1, <3>2 DEF Good
    <3>5. (s \ {y}) \ {x} = (s \ {x}) \ {y}
      OBVIOUS
    <3>6. g[(s \ {x}) \ {y}] \in Nat
      <4>1. Good((s \ {x}) \ {y})
        BY <1>3, <1>4, <1>6
      <4> QED
        BY <4>1 DEF Good
    <3>7. g[(s \ {y}) \ {x}] = g[(s \ {x}) \ {y}]
      BY <3>5
    <3>8. g[s] = (g[(s \ {x}) \ {y}] + w[x]) + w[y]
      BY <1>6, <3>3, <3>7, Zenon
    <3> QED
      BY <1>6, <3>2, <3>4, <3>6, <3>8
  <2> QED
    BY <2>1, <2>2
<1> QED
  BY <1>4, <1>8, <1>9 DEF Good

\* A sum is at least each of its terms.
LEMMA SumBounds ==
  ASSUME NEW S, NEW w, NEW c, Terms(S, w, c),
         NEW g, SumOf(S, w, c, g)
  PROVE  /\ g[S] \in Nat /\ \A x \in S : g[S] >= w[x]
         /\ (\A x \in S : w[x] = 0) => g[S] = 0
<1>1. \A s \in SUBSET S : g[s] \in Nat /\ \A x \in s : g[s] = g[s \ {x}] + w[x]
  BY SumTakes
<1>2. ASSUME NEW x \in S PROVE g[S] >= w[x]
  <2>1. g[S] = g[S \ {x}] + w[x] /\ g[S \ {x}] \in Nat /\ w[x] \in Nat
    BY <1>1 DEF Terms
  <2> QED
    BY <2>1
<1>3. ASSUME \A x \in S : w[x] = 0 PROVE g[S] = 0
  <2> DEFINE bad == {s \in SUBSET S : g[s] # 0}
  <2>1. SUFFICES ASSUME bad # {} PROVE FALSE
    OBVIOUS
  <2>2. PICK s \in bad : \A r \in bad : r \subseteq s => r = s
    <3>1. bad \subseteq SUBSET S
      OBVIOUS
    <3> HIDE DEF bad
    <3> QED
      BY <2>1, <3>1, SmallestPart DEF Terms
  <2>3. s \in SUBSET S /\ s # {}
    BY DEF SumOf
  <2>4. PICK x \in s : TRUE
    BY <2>3
  <2>5. g[s \ {x}] = 0
    BY <2>2, <2>4
  <2>6. g[s] = g[s \ {x}] + w[x] /\ w[x] = 0
    BY <1>1, <1>3, <2>3, <2>4
  <2>7. g[s] # 0
    BY <2>2
  <2> QED
    BY <2>5, <2>6, <2>7
<1> QED
  BY <1>1, <1>2, <1>3

\* There is such a sum.
LEMMA SumExists ==
  ASSUME NEW S, NEW w, NEW c, Terms(S, w, c)
  PROVE  \E g : g = [s \in SUBSET S |-> g[s]] /\ SumOf(S, w, c, g)
<1> DEFINE h == [p \in S \X Nat |-> p[2] + w[p[1]]]
<1>0. /\ IsFiniteSet(S) /\ \A x \in S : w[x] \in Nat
      /\ \A s \in SUBSET S : s # {} => c[s] \in s
  BY DEF Terms
<1>1. \A x \in S, y \in Nat : h[<<x, y>>] = y + w[x] /\ h[<<x, y>>] \in Nat
  BY <1>0
<1> HIDE DEF h
<1>2. \E g \in [SUBSET S -> Nat] : FoldOf(S, 0, c, h, g)
  BY <1>0, <1>1, FoldExists
<1>3. PICK g \in [SUBSET S -> Nat] : FoldOf(S, 0, c, h, g)
  BY <1>2
<1>4. ASSUME NEW s \in SUBSET S PROVE g[s] = IF s = {} THEN 0 ELSE g[s \ {c[s]}] + w[c[s]]
  <2>1. CASE s = {}
    BY <1>3, <2>1 DEF FoldOf
  <2>2. CASE s # {}
    <3>1. c[s] \in S /\ s \ {c[s]} \in SUBSET S
      BY <1>0, <2>2
    <3>2. g[s] = h[<<c[s], g[s \ {c[s]}]>>]
      BY <1>3, <2>2 DEF FoldOf
    <3>3. g[s \ {c[s]}] \in Nat
      BY <1>3, <3>1
    <3> QED
      BY <1>1, <2>2, <3>1, <3>2, <3>3
  <2> QED
    BY <2>1, <2>2
<1> QED
  BY <1>3, <1>4 DEF SumOf

\* n is the sum of w over S.
SumIs(S, w, n) == \E c, g : Terms(S, w, c) /\ SumOf(S, w, c, g) /\ n = g[S]

LEMMA SumIsAtLeast ==
  ASSUME NEW S, NEW w, NEW n, SumIs(S, w, n)
  PROVE  n \in Nat /\ (\A x \in S : n >= w[x]) /\ ((\A x \in S : w[x] = 0) => n = 0)
BY SumBounds DEF SumIs

\* n is the sum of w, and p that of v, which is w without its term i.
Without(m, i, w, v, n, p) ==
  /\ \A k \in 1..(m - 1) : v[k] = IF k < i THEN w[k] ELSE w[k + 1]
  /\ SumIs(1..m, w, n) /\ SumIs(1..(m - 1), v, p)

\* A sum whose terms move up a place when one of them is taken out.
LEMMA SumWithout ==
  ASSUME NEW m \in Nat, NEW i \in 1..m, NEW w, NEW v, NEW n, NEW p, Without(m, i, w, v, n, p)
  PROVE  n = p + w[i]
<1>0. /\ \A k \in 1..(m - 1) : v[k] = IF k < i THEN w[k] ELSE w[k + 1]
      /\ SumIs(1..m, w, n) /\ SumIs(1..(m - 1), v, p)
  BY DEF Without
<1>1. PICK c, g : Terms(1..m, w, c) /\ SumOf(1..m, w, c, g) /\ n = g[1..m]
  BY <1>0 DEF SumIs
<1>2. PICK d, q : Terms(1..(m - 1), v, d) /\ SumOf(1..(m - 1), v, d, q) /\ p = q[1..(m - 1)]
  BY <1>0 DEF SumIs
<1>3. /\ g[{}] = 0 /\ q[{}] = 0
      /\ \A x \in 1..m : w[x] \in Nat
      /\ \A x \in 1..(m - 1) : v[x] \in Nat
  BY <1>1, <1>2 DEF SumOf, Terms
<1>4. \A s \in SUBSET (1..m) : g[s] \in Nat /\ \A x \in s : g[s] = g[s \ {x}] + w[x]
  <2> DEFINE S == 1..m
  <2>1. Terms(S, w, c) /\ SumOf(S, w, c, g)
    BY <1>1
  <2> HIDE DEF S
  <2>2. \A s \in SUBSET S : g[s] \in Nat /\ \A x \in s : g[s] = g[s \ {x}] + w[x]
    BY <2>1, SumTakes
  <2> QED
    BY <2>2 DEF S
<1>5. \A s \in SUBSET (1..(m - 1)) : q[s] \in Nat /\ \A x \in s : q[s] = q[s \ {x}] + v[x]
  <2> DEFINE S == 1..(m - 1)
  <2>1. Terms(S, v, d) /\ SumOf(S, v, d, q)
    BY <1>2
  <2> HIDE DEF S
  <2>2. \A s \in SUBSET S : q[s] \in Nat /\ \A x \in s : q[s] = q[s \ {x}] + v[x]
    BY <2>1, SumTakes
  <2> QED
    BY <2>2 DEF S
<1>6. ASSUME NEW k \in Nat, k + 1 <= m PROVE g[1..(k + 1)] = g[1..k] + w[k + 1] /\ g[1..k] \in Nat
  <2>1. (1..(k + 1)) \ {k + 1} = 1..k /\ 1..(k + 1) \in SUBSET (1..m) /\ 1..k \in SUBSET (1..m) /\ k + 1 \in 1..(k + 1)
    BY <1>6
  <2> QED
    BY <1>4, <2>1
<1>7. ASSUME NEW k \in Nat, k + 1 <= m - 1 PROVE q[1..(k + 1)] = q[1..k] + v[k + 1] /\ q[1..k] \in Nat
  <2>1. /\ (1..(k + 1)) \ {k + 1} = 1..k /\ k + 1 \in 1..(k + 1)
        /\ 1..(k + 1) \in SUBSET (1..(m - 1)) /\ 1..k \in SUBSET (1..(m - 1))
    BY <1>7
  <2> QED
    BY <1>5, <2>1
<1> DEFINE Same(k) == IF k < i THEN q[1..k] = g[1..k] ELSE q[1..k] + w[i] = g[1..(k + 1)]
           bad == {k \in 0..(m - 1) : ~Same(k)}
<1>8. bad = {}
  <2>1. SUFFICES ASSUME bad # {} PROVE FALSE
    OBVIOUS
  <2>2. PICK k \in bad : \A j \in bad : k <= j
    <3>1. bad \subseteq Nat
      OBVIOUS
    <3> HIDE DEF bad
    <3> QED
      BY <2>1, <3>1, LeastOf
  <2>3. k \in 0..(m - 1) /\ ~Same(k)
    BY <2>2
  <2>4. k # 0
    <3>1. 1..0 = {}
      OBVIOUS
    <3>2. Same(0)
      BY <1>3, <3>1
    <3> HIDE DEF Same
    <3> QED
      BY <2>3, <3>2
  <2> DEFINE j == k - 1
  <2>5. j \in Nat /\ j + 1 = k /\ j + 1 <= m - 1 /\ j \in 0..(m - 1) /\ ~ (k <= j)
    BY <2>3, <2>4
  <2>6. Same(j)
    <3> HIDE DEF Same, j
    <3> QED
      BY <2>2, <2>5
  <2> HIDE DEF j, bad
  <2>7. q[1..k] = q[1..j] + v[k] /\ q[1..j] \in Nat /\ g[1..k] = g[1..j] + w[k] /\ g[1..j] \in Nat
    BY <1>6, <1>7, <2>5
  <2>8. k \in Nat /\ k + 1 <= m /\ g[1..(k + 1)] = g[1..k] + w[k + 1]
    BY <1>6, <2>5
  <2>9. w[k] \in Nat /\ w[k + 1] \in Nat /\ v[k] = (IF k < i THEN w[k] ELSE w[k + 1]) /\ w[i] \in Nat
    BY <1>0, <1>3, <2>5, <2>8
  <2>10. CASE k < i
    BY <2>3, <2>5, <2>6, <2>7, <2>9, <2>10
  <2>11. CASE k = i
    <3>1. j < i /\ ~ (k < i)
      BY <2>5, <2>11
    <3>2. q[1..j] = g[1..j]
      BY <2>6, <3>1
    <3>3. q[1..k] + w[i] = g[1..(k + 1)]
      BY <2>7, <2>8, <2>9, <2>11, <3>1, <3>2
    <3> QED
      BY <2>3, <3>1, <3>3
  <2>12. CASE k > i
    <3>1. ~ (j < i) /\ ~ (k < i)
      BY <2>5, <2>12
    <3>2. q[1..j] + w[i] = g[1..k]
      BY <2>5, <2>6, <3>1
    <3>3. q[1..k] + w[i] = g[1..(k + 1)]
      BY <2>7, <2>8, <2>9, <3>1, <3>2
    <3> QED
      BY <2>3, <3>1, <3>3
  <2> QED
    BY <2>5, <2>10, <2>11, <2>12
<1>9. Same(m - 1) /\ m - 1 \in Nat /\ (m - 1) + 1 = m
  BY <1>8
<1>10. CASE m - 1 < i
  <2>1. i = m /\ q[1..(m - 1)] = g[1..(m - 1)]
    BY <1>9, <1>10
  <2>2. g[1..m] = g[1..(m - 1)] + w[m]
    BY <1>6, <1>9
  <2> QED
    BY <1>1, <1>2, <2>1, <2>2
<1>11. CASE ~ (m - 1 < i)
  BY <1>1, <1>2, <1>9, <1>11
<1> QED
  BY <1>10, <1>11

-----------------------------------------------------------------------------
(* Families of finite sets.                                                *)

\* A finite family of finite sets has a finite union.
LEMMA FamilyIsFinite ==
  ASSUME NEW D, IsFiniteSet(D), NEW F, \A d \in D : IsFiniteSet(F[d])
  PROVE  IsFiniteSet(UNION {F[d] : d \in D})
<1> DEFINE f == [d \in D |-> F[d]]
           all == {F[d] : d \in D}
<1>1. f \in Surjection(D, all)
  BY DEF Surjection
<1>2. \A s \in all : IsFiniteSet(s)
  OBVIOUS
<1> HIDE DEF f, all
<1>3. IsFiniteSet(all)
  BY <1>1, FS_Surjection
<1> QED
  BY <1>2, <1>3, FS_UNION DEF all

\* So has the image of a finite set.
LEMMA ImageIsFinite ==
  ASSUME NEW D, IsFiniteSet(D), NEW F
  PROVE  IsFiniteSet({F[d] : d \in D})
<1> DEFINE f == [d \in D |-> F[d]]
           all == {F[d] : d \in D}
<1>1. f \in Surjection(D, all)
  BY DEF Surjection
<1> HIDE DEF f, all
<1> QED
  BY <1>1, FS_Surjection DEF all

-----------------------------------------------------------------------------
(* Recursion and induction on a rank, and products.                        *)

\* A step that looks only at what has a lower rank.
LooksBelow(D, rank, Val, H) ==
  \A x \in D, f, g \in [D -> Val] : (\A y \in D : rank[y] < rank[x] => f[y] = g[y]) => H[<<x, f>>] = H[<<x, g>>]

\* What is needed for a function to be defined by such a step, from below.
Recursion(D, B, rank, Val, H) ==
  /\ B \in Nat /\ rank \in [D -> 0..B]
  /\ Val # {} /\ H \in [D \X [D -> Val] -> Val] /\ LooksBelow(D, rank, Val, H)
Solves(D, H, f) == \A x \in D : f[x] = H[<<x, f>>]

\* A function defined by such a step exists.
LEMMA RecursionExists ==
  ASSUME NEW D, NEW B, NEW rank, NEW Val, NEW H, Recursion(D, B, rank, Val, H)
  PROVE  \E f \in [D -> Val] : Solves(D, H, f)
<1>0. /\ B \in Nat /\ rank \in [D -> 0..B]
      /\ Val # {} /\ H \in [D \X [D -> Val] -> Val] /\ LooksBelow(D, rank, Val, H)
  BY DEF Recursion
<1> DEFINE Good(k) == \E f \in [D -> Val] : \A x \in D : rank[x] < k => f[x] = H[<<x, f>>]
           bad == {k \in Nat : ~Good(k)}
<1>1. bad = {}
  <2> SUFFICES ASSUME bad # {} PROVE FALSE
    OBVIOUS
  <2>1. PICK k \in bad : \A m \in bad : k <= m
    <3>1. bad \subseteq Nat
      OBVIOUS
    <3> HIDE DEF bad
    <3> QED
      BY <3>1, LeastOf
  <2>2. k \in Nat /\ ~Good(k)
    BY <2>1
  <2>3. k # 0
    <3>1. PICK v : v \in Val
      BY <1>0
    <3>2. [x \in D |-> v] \in [D -> Val]
      BY <3>1
    <3>3. \A x \in D : ~(rank[x] < 0)
      BY <1>0
    <3>4. Good(0)
      BY <3>2, <3>3
    <3> HIDE DEF Good
    <3> QED
      BY <2>2, <3>4
  <2>4. k - 1 \in Nat /\ Good(k - 1)
    <3>1. k - 1 \in Nat /\ ~(k <= k - 1)
      BY <2>2, <2>3
    <3> HIDE DEF Good
    <3> QED
      BY <2>1, <3>1
  <2>5. PICK f \in [D -> Val] : \A x \in D : rank[x] < k - 1 => f[x] = H[<<x, f>>]
    BY <2>4
  <2> DEFINE g == [x \in D |-> IF rank[x] < k - 1 THEN f[x] ELSE H[<<x, f>>]]
  <2>6. g \in [D -> Val] /\ \A x \in D : g[x] = IF rank[x] < k - 1 THEN f[x] ELSE H[<<x, f>>]
    <3>1. \A x \in D : H[<<x, f>>] \in Val
      BY <1>0
    <3> QED
      BY <3>1
  <2> HIDE DEF g
  <2>7. ASSUME NEW x \in D, rank[x] < k PROVE g[x] = H[<<x, g>>]
    <3>1. \A y \in D : rank[y] < rank[x] => f[y] = g[y]
      <4>1. \A y \in D : rank[y] < rank[x] => rank[y] < k - 1
        BY <1>0, <2>2, <2>7
      <4> QED
        BY <2>6, <4>1
    <3>2. H[<<x, f>>] = H[<<x, g>>]
      BY <1>0, <2>6, <3>1 DEF LooksBelow
    <3>3. g[x] = H[<<x, f>>]
      BY <1>0, <2>2, <2>5, <2>6, <2>7
    <3> QED
      BY <3>2, <3>3
  <2>8. Good(k)
    BY <2>6, <2>7
  <2> HIDE DEF Good
  <2> QED
    BY <2>2, <2>8
<1>2. PICK f \in [D -> Val] : \A x \in D : rank[x] < B + 1 => f[x] = H[<<x, f>>]
  <2>1. Good(B + 1)
    <3> HIDE DEF Good
    <3> QED
      BY <1>0, <1>1
  <2> QED
    BY <2>1
<1>3. \A x \in D : rank[x] < B + 1
  BY <1>0
<1> QED
  BY <1>2, <1>3 DEF Solves

\* Two functions that are the same wherever they are the same below.
SameIfBelow(D, rank, f, g) ==
  \A x \in D : rank[x] \in Nat /\ ((\A y \in D : rank[y] < rank[x] => f[y] = g[y]) => f[x] = g[x])

LEMMA SameAll ==
  ASSUME NEW D, NEW rank, NEW f, NEW g, SameIfBelow(D, rank, f, g)
  PROVE  \A x \in D : f[x] = g[x]
<1> DEFINE bad == {rank[x] : x \in {y \in D : f[y] # g[y]}}
<1> SUFFICES ASSUME bad # {} PROVE FALSE
  OBVIOUS
<1>1. bad \subseteq Nat
  BY DEF SameIfBelow
<1>2. PICK k \in bad : \A m \in bad : k <= m
  <2> HIDE DEF bad
  <2> QED
    BY <1>1, LeastOf
<1>3. PICK x \in D : f[x] # g[x] /\ rank[x] = k
  BY <1>2
<1>4. \A y \in D : f[y] # g[y] => rank[y] \in bad
  OBVIOUS
<1>5. \A y \in D : rank[y] < rank[x] => f[y] = g[y]
  <2> HIDE DEF bad
  <2> QED
    BY <1>2, <1>3, <1>4 DEF SameIfBelow
<1> QED
  BY <1>3, <1>5 DEF SameIfBelow

\* Whatever holds of an element once it holds of those below it.
Upward(D, rank, G) ==
  \A x \in D : rank[x] \in Nat /\ ((\A y \in D : rank[y] < rank[x] => y \in G) => x \in G)

LEMMA RankInduction ==
  ASSUME NEW D, NEW rank, NEW G, Upward(D, rank, G)
  PROVE  \A x \in D : x \in G
<1> DEFINE bad == {rank[x] : x \in D \ G}
<1> SUFFICES ASSUME bad # {} PROVE FALSE
  OBVIOUS
<1>1. bad \subseteq Nat
  BY DEF Upward
<1>2. PICK k \in bad : \A m \in bad : k <= m
  <2> HIDE DEF bad
  <2> QED
    BY <1>1, LeastOf
<1>3. PICK x \in D : x \notin G /\ rank[x] = k
  BY <1>2
<1>4. \A y \in D : y \notin G => rank[y] \in bad
  OBVIOUS
<1>5. \A y \in D : rank[y] < rank[x] => y \in G
  <2> HIDE DEF bad
  <2> QED
    BY <1>2, <1>3, <1>4 DEF Upward
<1> QED
  BY <1>3, <1>5 DEF Upward

\* Whatever holds of a cell once it holds of the cells before it.
Inductive(m, n, G) ==
  \A i \in 0..m, j \in 0..n : (\A k \in 0..m, l \in 0..n : k + l < i + j => <<k, l>> \in G) => <<i, j>> \in G

LEMMA GridInduction ==
  ASSUME NEW m \in Nat, NEW n \in Nat, NEW G, Inductive(m, n, G)
  PROVE  \A i \in 0..m, j \in 0..n : <<i, j>> \in G
<1> DEFINE bad == {k \in Nat : \E i \in 0..m, j \in 0..n : k = i + j /\ <<i, j>> \notin G}
<1> SUFFICES ASSUME NEW i \in 0..m, NEW j \in 0..n, <<i, j>> \notin G PROVE FALSE
  OBVIOUS
<1>1. i + j \in bad
  OBVIOUS
<1>2. PICK k \in bad : \A l \in bad : k <= l
  <2>1. bad \subseteq Nat /\ bad # {}
    BY <1>1
  <2> HIDE DEF bad
  <2> QED
    BY <2>1, LeastOf
<1>3. PICK x \in 0..m, y \in 0..n : k = x + y /\ <<x, y>> \notin G
  BY <1>2
<1>4. \A z \in 0..m, w \in 0..n : <<z, w>> \notin G => z + w \in bad
  OBVIOUS
<1>5. \A z \in 0..m, w \in 0..n : z + w < x + y => <<z, w>> \in G
  <2> HIDE DEF bad
  <2>1. SUFFICES ASSUME NEW z \in 0..m, NEW w \in 0..n, z + w < x + y, <<z, w>> \notin G PROVE FALSE
    OBVIOUS
  <2>2. k <= z + w
    BY <1>2, <1>4, <2>1
  <2> QED
    BY <1>3, <2>1, <2>2
<1> QED
  BY <1>3, <1>5 DEF Inductive

\* The cells a cell is made of, and that they come before it.
LEMMA BeforeIs ==
  ASSUME NEW m \in Nat, NEW n \in Nat, NEW i \in 0..m, NEW j \in 0..n, i # 0, j # 0
  PROVE  /\ i - 1 \in 0..m /\ j - 1 \in 0..n /\ (i - 1) + j < i + j /\ i + (j - 1) < i + j
         /\ (i - 1) + (j - 1) < i + j
         /\ i > 1 /\ j > 1 => i - 2 \in 0..m /\ j - 2 \in 0..n /\ (i - 2) + (j - 2) < i + j
OBVIOUS

LEMMA CellsBefore ==
  ASSUME NEW m \in Nat, NEW n \in Nat, NEW i \in 0..m, NEW j \in 0..n, i # 0, j # 0
  PROVE  /\ <<i - 1, j>> \in (0..m) \X (0..n) /\ <<i, j - 1>> \in (0..m) \X (0..n)
         /\ <<i - 1, j - 1>> \in (0..m) \X (0..n)
         /\ i > 1 /\ j > 1 => <<i - 2, j - 2>> \in (0..m) \X (0..n)
<1>1. i - 1 \in 0..m /\ j - 1 \in 0..n
  OBVIOUS
<1>2. ASSUME i > 1, j > 1 PROVE i - 2 \in 0..m /\ j - 2 \in 0..n
  BY <1>2
<1> QED
  BY <1>1, <1>2

LEMMA GreatestOf ==
  ASSUME NEW n \in Nat, NEW N, N \subseteq 1..n, N # {}
  PROVE  \E k \in N : \A m \in N : k >= m
<1> DEFINE T == {n - k : k \in N}
<1>1. T \subseteq Nat /\ T # {} /\ \A k \in N : n - k \in T
  <2>1. \A k \in N : n - k \in Nat
    OBVIOUS
  <2>2. \A k \in N : n - k \in T
    OBVIOUS
  <2>3. T \subseteq Nat
    BY <2>1
  <2> QED
    BY <2>2, <2>3
<1>2. PICK t \in T : \A u \in T : t <= u
  <2> HIDE DEF T
  <2> QED
    BY <1>1, LeastOf
<1>3. PICK k \in N : t = n - k
  BY <1>2
<1>4. \A m \in N : n - k <= n - m
  BY <1>1, <1>2, <1>3
<1> QED
  BY <1>3, <1>4

LEMMA Grows ==
  ASSUME NEW a \in Nat, NEW b \in Nat, NEW c \in Nat, a <= b
  PROVE  a * c <= b * c /\ (c >= 1 /\ a # b => a * c < b * c)
<1> DEFINE e == b - a
<1>1. e \in Nat /\ b = a + e
  OBVIOUS
<1> HIDE DEF e
<1>2. b * c = a * c + e * c
  BY <1>1
<1>3. e * c \in Nat /\ a * c \in Nat
  BY <1>1
<1>4. ASSUME c >= 1, a # b PROVE e * c >= 1
  <2>1. e >= 1
    BY <1>1, <1>4
  <2> QED
    BY <1>1, <1>4, <2>1
<1> QED
  BY <1>2, <1>3, <1>4

LEMMA Turned ==
  ASSUME NEW a \in Nat, NEW b \in Nat, NEW c \in Nat
  PROVE  /\ (a * b) * c = a * (b * c) /\ a * b = b * a /\ (a + 1) * b = a * b + b
         /\ a * b \in Nat
OBVIOUS

\* One more fraction of at most one.
LEMMA OneMore ==
  ASSUME NEW x \in Nat, NEW y \in Nat, NEW n \in Nat, NEW d \in Nat, NEW k \in Nat,
         y >= 1, d >= 1, n <= d, x <= k * y
  PROVE  /\ x * d + n * y \in Nat /\ y * d \in Nat /\ y * d >= 1
         /\ x * d + n * y <= (k + 1) * (y * d)
         /\ x * d + n * y = (k + 1) * (y * d) => x = k * y /\ n = d
<1> DEFINE p == y * d
           u == x * d
           v == n * y
           w == (k * y) * d
<1>1. k * y \in Nat
  OBVIOUS
<1>2. u <= w /\ (x # k * y => u < w)
  BY <1>1, Grows
<1>3. v <= d * y /\ (n # d => v < d * y)
  BY Grows
<1>4. w = k * p /\ d * y = p /\ (k + 1) * p = k * p + p
  <2>1. w = k * (y * d)
    BY Turned
  <2>2. d * y = y * d
    BY Turned
  <2>3. p \in Nat
    OBVIOUS
  <2> HIDE DEF p
  <2>4. (k + 1) * p = k * p + p
    BY <2>3, Turned
  <2> QED
    BY <2>1, <2>2, <2>4 DEF p
<1>5. u \in Nat /\ v \in Nat /\ p \in Nat /\ w \in Nat
  BY <1>1
<1>6. p >= 1
  <2>1. 1 * d <= y * d
    BY Grows
  <2> QED
    BY <2>1
<1> HIDE DEF u, v, w, p
<1>7. /\ u + v <= (k + 1) * p
      /\ u + v = (k + 1) * p => x = k * y /\ n = d
  BY <1>2, <1>3, <1>4, <1>5
<1>8. u + v \in Nat
  BY <1>5
<1> QED
  BY <1>5, <1>6, <1>7, <1>8 DEF u, v, p

\* A product of at least the whole.
LEMMA WholeIs ==
  ASSUME NEW s \in Nat, NEW l \in Nat, NEW d \in Nat, NEW n \in Nat, s <= l, d >= 1, n <= s * d
  PROVE  n <= d * l /\ d * l \in Nat /\ (n = d * l => s = l /\ n = s * d)
<1>1. s * d <= l * d /\ (s # l => s * d < l * d)
  BY Grows
<1>2. l * d = d * l /\ l * d \in Nat /\ s * d \in Nat
  BY Turned
<1> DEFINE p == l * d
           q == s * d
           r == d * l
<1>3. p \in Nat /\ q \in Nat /\ q <= p /\ (s # l => q < p) /\ p = r /\ n <= q
  BY <1>1, <1>2
<1> HIDE DEF p, q, r
<1>4. n <= r /\ r \in Nat /\ (n = r => s = l /\ n = q)
  BY <1>3
<1> QED
  BY <1>4 DEF q, r

-----------------------------------------------------------------------------
(* Tampering.                                                              *)

UniquelyNamed(ts) == \A t, u \in ts : t.name = u.name => t = u

\* The names of the tools of one set that are not, to the word, in the other.
Culprits(live, baseline) ==
  {t.name : t \in {u \in live : ~\E b \in baseline :
                     u.name = b.name /\ u.schema = b.schema /\ u.text = b.text}}

Changed(live, baseline) ==
  {t.name : t \in {u \in live : \E b \in baseline :
                     b.name = u.name /\ Marks!Hash(b) # Marks!Hash(u)}}
Reworded(live, baseline) ==
  {t.name : t \in {u \in live : \E b \in baseline :
                     b.name = u.name /\ b.text # u.text}}

LEMMA HashesAgree ==
  ASSUME NEW live, NEW baseline
  PROVE  (Marks!Hashes(live) = Marks!Hashes(baseline))
           <=> /\ \A t \in live : \E b \in baseline :
                    t.name = b.name /\ t.schema = b.schema
               /\ \A b \in baseline : \E t \in live :
                    t.name = b.name /\ t.schema = b.schema
<1>1. \A t, b : Marks!Hash(t) = Marks!Hash(b)
                <=> t.name = b.name /\ t.schema = b.schema
  BY DEF Marks!Hash
<1>2. Marks!Hashes(live) = Marks!Hashes(baseline)
        <=> /\ \A t \in live : \E b \in baseline : Marks!Hash(t) = Marks!Hash(b)
            /\ \A b \in baseline : \E t \in live : Marks!Hash(t) = Marks!Hash(b)
  <2>1. \A ts, h : h \in Marks!Hashes(ts) <=> \E t \in ts : h = Marks!Hash(t)
    BY DEF Marks!Hashes
  <2>2. ASSUME Marks!Hashes(live) = Marks!Hashes(baseline)
        PROVE  /\ \A t \in live : \E b \in baseline : Marks!Hash(t) = Marks!Hash(b)
               /\ \A b \in baseline : \E t \in live : Marks!Hash(t) = Marks!Hash(b)
    BY <2>1, <2>2
  <2>3. ASSUME \A t \in live : \E b \in baseline : Marks!Hash(t) = Marks!Hash(b),
               \A b \in baseline : \E t \in live : Marks!Hash(t) = Marks!Hash(b)
        PROVE  Marks!Hashes(live) = Marks!Hashes(baseline)
    <3>1. \A h : h \in Marks!Hashes(live) <=> h \in Marks!Hashes(baseline)
      BY <2>1, <2>3
    <3> QED
      BY <3>1, SMT
  <2> QED
    BY <2>2, <2>3
<1> QED
  BY <1>1, <1>2

LEMMA CulpritsAre ==
  ASSUME NEW live, NEW baseline, UniquelyNamed(live), UniquelyNamed(baseline)
  PROVE  Culprits(live, baseline) \cup Culprits(baseline, live)
           = (Marks!Names(live) \ Marks!Names(baseline))
               \cup (Marks!Names(baseline) \ Marks!Names(live))
               \cup Changed(live, baseline) \cup Reworded(live, baseline)
<1>1. Marks!Names(live) \ Marks!Names(baseline) \subseteq Culprits(live, baseline)
  BY DEF Marks!Names, Culprits
<1>2. Marks!Names(baseline) \ Marks!Names(live) \subseteq Culprits(baseline, live)
  BY DEF Marks!Names, Culprits
<1>3. Changed(live, baseline) \subseteq Culprits(live, baseline)
  <2> SUFFICES ASSUME NEW t \in live, NEW b \in baseline, b.name = t.name,
                      b.schema # t.schema
               PROVE  t.name \in Culprits(live, baseline)
    BY DEF Changed, Marks!Hash
  <2> QED
    BY DEF Culprits, UniquelyNamed
<1>4. Reworded(live, baseline) \subseteq Culprits(live, baseline)
  <2> SUFFICES ASSUME NEW t \in live, NEW b \in baseline, b.name = t.name,
                      b.text # t.text
               PROVE  t.name \in Culprits(live, baseline)
    BY DEF Reworded
  <2> QED
    BY DEF Culprits, UniquelyNamed
<1>5. ASSUME NEW t \in live, NEW b \in baseline, t.name = b.name,
             ~ (t.schema = b.schema /\ t.text = b.text)
      PROVE  t.name \in Changed(live, baseline) \cup Reworded(live, baseline)
  BY <1>5 DEF Changed, Reworded, Marks!Hash
<1>6. Culprits(live, baseline)
        \subseteq (Marks!Names(live) \ Marks!Names(baseline))
                    \cup Changed(live, baseline) \cup Reworded(live, baseline)
  BY <1>5 DEF Culprits, Marks!Names
<1>7. Culprits(baseline, live)
        \subseteq (Marks!Names(baseline) \ Marks!Names(live))
                    \cup Changed(live, baseline) \cup Reworded(live, baseline)
  BY <1>5 DEF Culprits, Marks!Names
<1> QED
  BY <1>1, <1>2, <1>3, <1>4, <1>6, <1>7

\* A live tool set is verified against a passport exactly when neither has a
\* tool that the other lacks in this form, and the incidents name those tools
\* (audit/tamper_detector.py verify_server_integrity).
THEOREM TamperIsExact ==
  ASSUME NEW live, NEW baseline, UniquelyNamed(live), UniquelyNamed(baseline)
  PROVE  Marks!TamperExact(live, baseline)
<1> DEFINE report  == Marks!VerifyIntegrity(live, baseline)
           added   == Marks!Names(live) \ Marks!Names(baseline)
           removed == Marks!Names(baseline) \ Marks!Names(live)
           culprit == Culprits(live, baseline) \cup Culprits(baseline, live)
           verified == Marks!Hashes(live) = Marks!Hashes(baseline)
                         /\ Reworded(live, baseline) = {}
           Incident(kind, names) ==
             IF names = {} THEN {} ELSE {[kind |-> kind, tools |-> names]}
<1>1. SUFFICES ASSUME live # {}
               PROVE  /\ (report.status = "VERIFIED") <=> (culprit = {})
                      /\ UNION {i.tools : i \in report.incidents} = culprit
  <2>1. culprit = {t.name : t \in {u \in live : ~\E b \in baseline : u.name = b.name /\ u.schema = b.schema /\ u.text = b.text}}
                   \cup {b.name : b \in {c \in baseline : ~\E u \in live : u.name = c.name /\ u.schema = c.schema /\ u.text = c.text}}
    BY DEF Culprits
  <2> HIDE DEF report, culprit
  <2> QED
    BY <2>1 DEF Marks!TamperExact, report
<1>2. verified <=> culprit = {}
  <2>1. ASSUME verified, NEW t \in live
        PROVE  \E b \in baseline :
                 t.name = b.name /\ t.schema = b.schema /\ t.text = b.text
    <3>1. PICK b \in baseline : t.name = b.name /\ t.schema = b.schema
      BY <2>1, HashesAgree
    <3>2. b.text # t.text => t.name \in Reworded(live, baseline)
      BY <3>1 DEF Reworded
    <3> QED
      BY <2>1, <3>1, <3>2
  <2>2. ASSUME verified, NEW b \in baseline
        PROVE  \E t \in live :
                 t.name = b.name /\ t.schema = b.schema /\ t.text = b.text
    <3>1. PICK t \in live : t.name = b.name /\ t.schema = b.schema
      BY <2>2, HashesAgree
    <3>2. b.text # t.text => t.name \in Reworded(live, baseline)
      BY <3>1 DEF Reworded
    <3> QED
      BY <2>2, <3>1, <3>2
  <2>3. verified => culprit = {}
    BY <2>1, <2>2 DEF Culprits
  <2>4. ASSUME culprit = {} PROVE verified
    <3>1. Reworded(live, baseline) = {}
      BY <2>4, CulpritsAre
    <3>2. /\ \A t \in live : \E b \in baseline :
                    t.name = b.name /\ t.schema = b.schema
          /\ \A b \in baseline : \E t \in live :
                    t.name = b.name /\ t.schema = b.schema
      <4>1. Culprits(live, baseline) = {} /\ Culprits(baseline, live) = {}
        BY <2>4
      <4>2. ASSUME NEW t \in live
            PROVE  \E b \in baseline :
                     t.name = b.name /\ t.schema = b.schema /\ t.text = b.text
        BY <4>1 DEF Culprits
      <4>3. ASSUME NEW b \in baseline
            PROVE  \E t \in live :
                     b.name = t.name /\ b.schema = t.schema /\ b.text = t.text
        BY <4>1 DEF Culprits
      <4> QED
        BY <4>2, <4>3
    <3> QED
      BY <3>1, <3>2, HashesAgree
  <2> QED
    BY <2>3, <2>4
<1>3. report = IF verified THEN Marks!NoReport("VERIFIED")
               ELSE [status    |-> "TAMPERED",
                     incidents |-> Incident("SHADOW", added) \cup Incident("MISSING", removed)
                       \cup Incident("SCHEMA", Changed(live, baseline))
                       \cup Incident("DESCRIPTION", Reworded(live, baseline))]
  BY <1>1 DEF Marks!VerifyIntegrity, Reworded, Changed
<1>4. CASE verified
  BY <1>2, <1>3, <1>4 DEF Marks!NoReport
<1>5. CASE ~verified
  <2>1. ASSUME NEW kind, NEW names
        PROVE  \A n : (\E i \in Incident(kind, names) : n \in i.tools)
                         <=> n \in names
    <3>1. CASE names = {}
      BY <3>1
    <3>2. CASE names # {}
      <4>1. Incident(kind, names) = {[kind |-> kind, tools |-> names]}
        BY <3>2
      <4>2. \A i \in Incident(kind, names) : i.tools = names
        BY <4>1
      <4> HIDE DEF Incident
      <4> QED
        BY <4>1, <4>2
    <3> QED
      BY <3>1, <3>2
  <2> HIDE DEF Incident
  <2>2. report.incidents = Incident("SHADOW", added) \cup Incident("MISSING", removed)
                     \cup Incident("SCHEMA", Changed(live, baseline))
                     \cup Incident("DESCRIPTION", Reworded(live, baseline))
    BY <1>3, <1>5
  <2>3. UNION {i.tools : i \in report.incidents}
          = added \cup removed \cup Changed(live, baseline) \cup Reworded(live, baseline)
    <3> HIDE DEF report, added, removed
    <3>1. ASSUME NEW n
          PROVE  (\E i \in report.incidents : n \in i.tools)
            <=> n \in added \cup removed \cup Changed(live, baseline)
                       \cup Reworded(live, baseline)
      BY <2>1, <2>2
    <3> QED
      BY <3>1
  <2>4. report.status = "TAMPERED"
    BY <1>3, <1>5
  <2> QED
    BY <1>2, <1>5, <2>3, <2>4, CulpritsAre
<1> QED
  BY <1>4, <1>5

-----------------------------------------------------------------------------
(* Drift.                                                                  *)

\* Where no two servers share a name, each is found under its own.
LEMMA ByNameIs ==
  ASSUME NEW scan, DOMAIN scan \subseteq Int, Marks!UniqueNames(scan)
  PROVE  /\ DOMAIN Marks!ByName(Marks!InventoryOf(scan)) = {scan[i].name : i \in DOMAIN scan}
         /\ \A i \in DOMAIN scan :
              /\ Marks!ByName(Marks!InventoryOf(scan))[scan[i].name].version = scan[i].version
              /\ Marks!ByName(Marks!InventoryOf(scan))[scan[i].name].command = scan[i].command
<1> DEFINE inv == Marks!InventoryOf(scan)
           last(n) == CHOOSE i \in DOMAIN inv : inv[i].name = n /\ \A j \in DOMAIN inv : j > i => inv[j].name # n
           D == {inv[i].name : i \in DOMAIN inv}
           b == Marks!ByName(inv)
<1>1. /\ DOMAIN inv = DOMAIN scan
      /\ \A i \in DOMAIN scan : inv[i].name = scan[i].name /\ inv[i].version = scan[i].version /\ inv[i].command = scan[i].command
  BY DEF Marks!InventoryOf
<1>2. b = [n \in D |-> inv[last(n)]]
  BY DEF Marks!ByName
<1> HIDE DEF inv
<1>3. D = {scan[i].name : i \in DOMAIN scan}
  BY <1>1
<1>4. ASSUME NEW i \in DOMAIN scan PROVE last(scan[i].name) = i
  <2> DEFINE P(k) == inv[k].name = scan[i].name /\ \A j \in DOMAIN inv : j > k => inv[j].name # scan[i].name
  <2>1. i \in DOMAIN inv /\ P(i)
    BY <1>1 DEF Marks!UniqueNames
  <2>2. ASSUME NEW k \in DOMAIN inv, P(k) PROVE k = i
    BY <1>1, <2>2 DEF Marks!UniqueNames
  <2> HIDE DEF P
  <2>3. (CHOOSE k \in DOMAIN inv : P(k)) = i
    BY <2>1, <2>2
  <2> QED
    BY <2>3 DEF P
<1>5. ASSUME NEW i \in DOMAIN scan PROVE b[scan[i].name] = inv[i]
  <2>1. scan[i].name \in D
    BY <1>3
  <2> HIDE DEF last, D, b
  <2>2. b[scan[i].name] = inv[last(scan[i].name)]
    BY <1>2, <2>1
  <2> QED
    BY <1>4, <2>2
<1> HIDE DEF D, last
<1>6. DOMAIN b = {scan[i].name : i \in DOMAIN scan}
  BY <1>2, <1>3
<1> HIDE DEF b
<1>7. \A i \in DOMAIN scan : b[scan[i].name].version = scan[i].version /\ b[scan[i].name].command = scan[i].command
  BY <1>1, <1>5
<1> QED
  BY <1>6, <1>7 DEF b, inv

\* The servers of a scan under their names.
Indexed(b, scan) ==
  /\ DOMAIN b = {scan[i].name : i \in DOMAIN scan}
  /\ \A i \in DOMAIN scan : b[scan[i].name].version = scan[i].version /\ b[scan[i].name].command = scan[i].command

\* What a server of that name runs.
RunOf(b, n) == [name |-> n, version |-> b[n].version, command |-> b[n].command]

LEMMA RunsAre ==
  ASSUME NEW scan, NEW b, Indexed(b, scan)
  PROVE  {[name |-> scan[i].name, version |-> scan[i].version, command |-> scan[i].command] : i \in DOMAIN scan}
           = {RunOf(b, n) : n \in DOMAIN b}
<1>1. \A i \in DOMAIN scan :
        RunOf(b, scan[i].name) = [name |-> scan[i].name, version |-> scan[i].version, command |-> scan[i].command]
  BY DEF RunOf, Indexed
<1>2. \A r : r \in {RunOf(b, n) : n \in DOMAIN b} <=> \E i \in DOMAIN scan : r = RunOf(b, scan[i].name)
  BY DEF Indexed
<1> HIDE DEF RunOf
<1>3. \A r : (\E i \in DOMAIN scan : r = RunOf(b, scan[i].name)) <=>
          r \in {[name |-> scan[i].name, version |-> scan[i].version, command |-> scan[i].command] : i \in DOMAIN scan}
  BY <1>1
<1> QED
  BY <1>2, <1>3

LEMMA RunsDiffer ==
  ASSUME NEW b, NEW c, NEW n
  PROVE  /\ RunOf(b, n).name = n
         /\ RunOf(b, n) \in {RunOf(c, k) : k \in DOMAIN c} <=>
              n \in DOMAIN c /\ b[n].version = c[n].version /\ b[n].command = c[n].command
<1>1. \A k : RunOf(b, n) = RunOf(c, k) <=> n = k /\ b[n].version = c[k].version /\ b[n].command = c[k].command
  BY DEF RunOf
<1>2. RunOf(b, n).name = n
  BY DEF RunOf
<1> HIDE DEF RunOf
<1> QED
  BY <1>1, <1>2

\* Drift between two scans whose servers have names of their own is every
\* server that came, went or runs something else, however many there are
\* (audit/drift.py compare_snapshots).
THEOREM DriftIsExact ==
  ASSUME NEW before, NEW after, DOMAIN before \subseteq Int, DOMAIN after \subseteq Int
  PROVE  Marks!DriftExact(before, after)
<1> DEFINE b == Marks!ByName(Marks!InventoryOf(before))
           c == Marks!ByName(Marks!InventoryOf(after))
           drift == Marks!CompareSnapshots(Marks!InventoryOf(before), Marks!InventoryOf(after))
           Runs(scan) == {[name |-> scan[i].name, version |-> scan[i].version, command |-> scan[i].command] : i \in DOMAIN scan}
           old == {RunOf(b, n) : n \in DOMAIN b}
           new == {RunOf(c, n) : n \in DOMAIN c}
           Differs(n) == c[n].version # b[n].version \/ c[n].command # b[n].command
<1> SUFFICES ASSUME Marks!UniqueNames(before), Marks!UniqueNames(after)
             PROVE  {d.name : d \in drift} = {s.name : s \in (Runs(before) \ Runs(after)) \cup (Runs(after) \ Runs(before))}
  BY DEF Marks!DriftExact
<1>1. Runs(before) = old /\ Runs(after) = new
  <2>1. Indexed(b, before)
    BY ByNameIs DEF Indexed
  <2>2. Indexed(c, after)
    BY ByNameIs DEF Indexed
  <2> HIDE DEF b, c
  <2> QED
    BY <2>1, <2>2, RunsAre
<1>2. drift = {[name |-> n, status |-> "ADDED"] : n \in DOMAIN c \ DOMAIN b}
        \cup {[name |-> n, status |-> "REMOVED"] : n \in DOMAIN b \ DOMAIN c}
        \cup {[name |-> n, status |-> "MODIFIED"] : n \in {m \in DOMAIN b \cap DOMAIN c : Differs(m)}}
  BY DEF Marks!CompareSnapshots
<1> HIDE DEF b, c, drift, Runs
<1>3. ASSUME NEW n
      PROVE  (\E d \in drift : d.name = n) <=>
               n \in (DOMAIN c \ DOMAIN b) \cup (DOMAIN b \ DOMAIN c) \cup {m \in DOMAIN b \cap DOMAIN c : Differs(m)}
  <2>1. \A k, s : [name |-> k, status |-> s].name = k
    OBVIOUS
  <2> HIDE DEF Differs
  <2> QED
    BY <1>2, <2>1
<1>4. ASSUME NEW n
      PROVE  (\E s \in (old \ new) \cup (new \ old) : s.name = n) <=>
               n \in (DOMAIN c \ DOMAIN b) \cup (DOMAIN b \ DOMAIN c) \cup {m \in DOMAIN b \cap DOMAIN c : Differs(m)}
  <2>1. \A k : RunOf(b, k).name = k /\ RunOf(c, k).name = k
    BY RunsDiffer
  <2>2. \A k : RunOf(b, k) \in new <=> k \in DOMAIN c /\ b[k].version = c[k].version /\ b[k].command = c[k].command
    BY RunsDiffer
  <2>3. \A k : RunOf(c, k) \in old <=> k \in DOMAIN b /\ c[k].version = b[k].version /\ c[k].command = b[k].command
    BY RunsDiffer
  <2>4. \A s : s \in old <=> \E k \in DOMAIN b : s = RunOf(b, k)
    OBVIOUS
  <2>5. \A s : s \in new <=> \E k \in DOMAIN c : s = RunOf(c, k)
    OBVIOUS
  <2> HIDE DEF old, new
  <2>6. (\E s \in old \ new : s.name = n) <=> n \in DOMAIN b /\ ~ (n \in DOMAIN c /\ b[n].version = c[n].version /\ b[n].command = c[n].command)
    BY <2>1, <2>2, <2>4
  <2>7. (\E s \in new \ old : s.name = n) <=> n \in DOMAIN c /\ ~ (n \in DOMAIN b /\ c[n].version = b[n].version /\ c[n].command = b[n].command)
    BY <2>1, <2>3, <2>5
  <2> QED
    BY <2>6, <2>7
<1> HIDE DEF old, new, Differs
<1>5. \A n : (\E d \in drift : d.name = n) <=> \E s \in (old \ new) \cup (new \ old) : s.name = n
  BY <1>3, <1>4
<1>6. {d.name : d \in drift} = {s.name : s \in (old \ new) \cup (new \ old)}
  BY <1>5
<1> QED
  BY <1>1, <1>6

-----------------------------------------------------------------------------
(* Recognising a server.                                                   *)

LEMMA PrintsCount ==
  /\ \A S : Marks!Cardinality(S) = Cardinality(S)
BY DEF Marks!Cardinality, Cardinality, Marks!IsFiniteSet, IsFiniteSet

\* How alike two sets of properties are: one at most, and one only if they are
\* the same.
LEMMA AlikeIs ==
  ASSUME NEW s, NEW t, IsFiniteSet(s), IsFiniteSet(t)
  PROVE  LET j == Marks!JaccardOf(s, t)
         IN  /\ j[1] \in Nat /\ j[2] \in Nat /\ j[2] >= 1 /\ j[1] <= j[2]
             /\ j[1] = j[2] => s = t
<1> DEFINE x == s \cap t
           y == s \cup t
<1>1. Marks!JaccardOf(s, t) = IF y = {} THEN <<1, 1>> ELSE <<Cardinality(x), Cardinality(y)>>
  BY PrintsCount DEF Marks!JaccardOf
<1>2. IsFiniteSet(y) /\ x \in SUBSET y
  BY FS_Union
<1>3. CASE y = {}
  <2>1. s = t
    BY <1>3
  <2> HIDE DEF x, y
  <2> QED
    BY <1>1, <1>3, <2>1
<1>4. CASE y # {}
  <2>1. x = y => s = t
    OBVIOUS
  <2> HIDE DEF x, y
  <2>2. Cardinality(y) \in Nat /\ Cardinality(x) \in Nat /\ Cardinality(y) # 0
    BY <1>2, <1>4, FS_CardinalityType, FS_EmptySet, FS_Subset
  <2>3. Cardinality(x) <= Cardinality(y) /\ (Cardinality(x) = Cardinality(y) => x = y)
    BY <1>2, <2>2, FS_Subset
  <2> QED
    BY <1>1, <1>4, <2>1, <2>2, <2>3
<1> QED
  BY <1>3, <1>4

\* Fractions of at most one, for each member of a finite set.
Fractions(S, J, c) ==
  /\ IsFiniteSet(S)
  /\ \A x \in S : J[x][1] \in Nat /\ J[x][2] \in Nat /\ J[x][2] >= 1 /\ J[x][1] <= J[x][2]
  /\ \A s \in SUBSET S : s # {} => c[s] \in s

TotalOf(S, J, c, g) ==
  \A s \in SUBSET S : g[s] = IF s = {} THEN <<0, 1>> ELSE Marks!Plus(g[s \ {c[s]}], J[c[s]])

\* They add up to at most their number, and to it only if each is one.
LEMMA TotalIs ==
  ASSUME NEW S, NEW J, NEW c, Fractions(S, J, c), NEW g, TotalOf(S, J, c, g)
  PROVE  /\ g[S][1] \in Nat /\ g[S][2] \in Nat /\ g[S][2] >= 1
         /\ g[S][1] <= Cardinality(S) * g[S][2]
         /\ g[S][1] = Cardinality(S) * g[S][2] => \A x \in S : J[x][1] = J[x][2]
<1> DEFINE Good(s) == /\ g[s][1] \in Nat /\ g[s][2] \in Nat /\ g[s][2] >= 1
                      /\ g[s][1] <= Cardinality(s) * g[s][2]
                      /\ g[s][1] = Cardinality(s) * g[s][2] => \A x \in s : J[x][1] = J[x][2]
           bad == {s \in SUBSET S : ~Good(s)}
<1>0. /\ IsFiniteSet(S)
      /\ \A x \in S : J[x][1] \in Nat /\ J[x][2] \in Nat /\ J[x][2] >= 1 /\ J[x][1] <= J[x][2]
      /\ \A s \in SUBSET S : s # {} => c[s] \in s
  BY DEF Fractions
<1>1. bad = {}
  <2> SUFFICES ASSUME bad # {} PROVE FALSE
    OBVIOUS
  <2>1. PICK s \in bad : \A r \in bad : r \subseteq s => r = s
    <3>1. bad \subseteq SUBSET S
      OBVIOUS
    <3> HIDE DEF bad
    <3> QED
      BY <1>0, <3>1, SmallestPart
  <2>2. s \in SUBSET S /\ ~Good(s)
    BY <2>1
  <2>3. \A r \in SUBSET S : r \subseteq s /\ r # s => Good(r)
    BY <2>1
  <2>4. CASE s = {}
    <3>1. g[s] = <<0, 1>> /\ Cardinality(s) = 0
      BY <2>2, <2>4, FS_EmptySet DEF TotalOf
    <3>2. Good(s)
      BY <2>4, <3>1
    <3> HIDE DEF Good
    <3> QED
      BY <2>2, <3>2
  <2>5. CASE s # {}
    <3> DEFINE y == c[s]
               r == s \ {y}
               k == Cardinality(r)
    <3>1. y \in s /\ y \in S /\ r \in SUBSET S /\ r # s
      BY <1>0, <2>2, <2>5
    <3>2. Good(r)
      <4> HIDE DEF Good, y
      <4> QED
        BY <2>3, <3>1
    <3>3. IsFiniteSet(s) /\ IsFiniteSet(r) /\ k \in Nat /\ Cardinality(s) = k + 1
      <4>1. IsFiniteSet(s)
        BY <1>0, <2>2, FS_Subset
      <4> HIDE DEF y, Good
      <4>2. IsFiniteSet(r) /\ k = Cardinality(s) - 1
        BY <3>1, <4>1, FS_RemoveElement
      <4>3. Cardinality(s) \in Nat /\ k \in Nat
        BY <4>1, <4>2, FS_CardinalityType
      <4> HIDE DEF k
      <4> QED
        BY <4>1, <4>2, <4>3
    <3>4. g[s] = Marks!Plus(g[r], J[y])
      BY <2>2, <2>5 DEF TotalOf
    <3>5. g[s] = <<g[r][1] * J[y][2] + J[y][1] * g[r][2], g[r][2] * J[y][2]>>
      BY <3>4 DEF Marks!Plus
    <3>6. /\ g[r][1] \in Nat /\ g[r][2] \in Nat /\ g[r][2] >= 1 /\ g[r][1] <= k * g[r][2]
          /\ g[r][1] = k * g[r][2] => \A x \in r : J[x][1] = J[x][2]
      BY <3>2
    <3>7. J[y][1] \in Nat /\ J[y][2] \in Nat /\ J[y][2] >= 1 /\ J[y][1] <= J[y][2]
      BY <1>0, <3>1
    <3>8. g[s][1] = g[r][1] * J[y][2] + J[y][1] * g[r][2] /\ g[s][2] = g[r][2] * J[y][2]
      BY <3>5
    <3> HIDE DEF k, Good
    <3>9. /\ g[s][1] \in Nat /\ g[s][2] \in Nat /\ g[s][2] >= 1
          /\ g[s][1] <= (k + 1) * g[s][2]
          /\ g[s][1] = (k + 1) * g[s][2] => g[r][1] = k * g[r][2] /\ J[y][1] = J[y][2]
      <4> DEFINE a == g[r][1]
                 b == g[r][2]
                 n == J[y][1]
                 d == J[y][2]
      <4>1. a \in Nat /\ b \in Nat /\ n \in Nat /\ d \in Nat /\ k \in Nat /\ b >= 1 /\ d >= 1 /\ n <= d /\ a <= k * b
        BY <3>3, <3>6, <3>7
      <4>2. g[s][1] = a * d + n * b /\ g[s][2] = b * d
        BY <3>8
      <4> HIDE DEF a, b, n, d
      <4>3. /\ a * d + n * b \in Nat /\ b * d \in Nat /\ b * d >= 1
            /\ a * d + n * b <= (k + 1) * (b * d)
            /\ a * d + n * b = (k + 1) * (b * d) => a = k * b /\ n = d
        BY <4>1, OneMore
      <4>4. /\ g[s][1] \in Nat /\ g[s][2] \in Nat /\ g[s][2] >= 1
            /\ g[s][1] <= (k + 1) * g[s][2]
            /\ g[s][1] = (k + 1) * g[s][2] => a = k * b /\ n = d
        BY <4>2, <4>3, Zenon
      <4> QED
        BY <4>4 DEF a, b, n, d
    <3>10. \A x \in s : x = y \/ x \in r
      OBVIOUS
    <3>11. Good(s)
      BY <3>3, <3>6, <3>9, <3>10 DEF Good
    <3> QED
      BY <2>2, <3>11
  <2> QED
    BY <2>4, <2>5
<1>2. Good(S)
  BY <1>1
<1> QED
  BY <1>2

\* There is such a total.
LEMMA TotalExists ==
  ASSUME NEW S, NEW J, NEW c, Fractions(S, J, c)
  PROVE  \E g : g = [s \in SUBSET S |-> g[s]] /\ TotalOf(S, J, c, g)
<1> DEFINE Val == Nat \X Nat
           h == [p \in S \X Val |-> Marks!Plus(p[2], J[p[1]])]
           zero == <<0, 1>>
<1>0. /\ IsFiniteSet(S)
      /\ \A x \in S : J[x][1] \in Nat /\ J[x][2] \in Nat
      /\ \A s \in SUBSET S : s # {} => c[s] \in s
  BY DEF Fractions
<1>1. ASSUME NEW x \in S, NEW y \in Val PROVE h[<<x, y>>] = Marks!Plus(y, J[x]) /\ h[<<x, y>>] \in Val
  <2>1. <<x, y>> \in S \X Val /\ <<x, y>>[1] = x /\ <<x, y>>[2] = y
    OBVIOUS
  <2>2. h[<<x, y>>] = Marks!Plus(y, J[x])
    BY <2>1
  <2>3. y[1] \in Nat /\ y[2] \in Nat
    OBVIOUS
  <2>4. Marks!Plus(y, J[x]) \in Val
    BY <1>0, <2>3 DEF Marks!Plus
  <2> HIDE DEF h, Val
  <2> QED
    BY <2>2, <2>4
<1>2. zero \in Val
  OBVIOUS
<1> HIDE DEF h, Val, zero
<1>3. \A x \in S, y \in Val : h[<<x, y>>] \in Val
  BY <1>1
<1>4. \E g \in [SUBSET S -> Val] : FoldOf(S, zero, c, h, g)
  BY <1>0, <1>2, <1>3, FoldExists
<1>5. PICK g \in [SUBSET S -> Val] : FoldOf(S, zero, c, h, g)
  BY <1>4
<1>6. ASSUME NEW s \in SUBSET S PROVE g[s] = IF s = {} THEN <<0, 1>> ELSE Marks!Plus(g[s \ {c[s]}], J[c[s]])
  <2>1. CASE s = {}
    BY <1>5, <2>1 DEF FoldOf, zero
  <2>2. CASE s # {}
    <3>1. c[s] \in S /\ s \ {c[s]} \in SUBSET S
      BY <1>0, <2>2
    <3>2. g[s] = h[<<c[s], g[s \ {c[s]}]>>]
      BY <1>5, <2>2 DEF FoldOf
    <3>3. g[s \ {c[s]}] \in Val
      BY <1>5, <3>1
    <3> QED
      BY <1>1, <2>2, <3>1, <3>2, <3>3
  <2> QED
    BY <2>1, <2>2
<1> QED
  BY <1>5, <1>6 DEF TotalOf

\* A finite listing in which every tool has a name of its own.
Declared(tools) == IsFiniteSet(tools) /\ UniquelyNamed(tools) /\ \A t \in tools : IsFiniteSet(t.props)

\* A schema tells the properties.
SchemasTell(tools, others) ==
  \A t \in tools, u \in others : t.name = u.name /\ t.schema = u.schema => t.props = u.props

PropsOf(tools, n) == (CHOOSE t \in tools : t.name = n).props

LEMMA PropsAre ==
  ASSUME NEW tools, Declared(tools)
  PROVE  /\ \A t \in tools : PropsOf(tools, t.name) = t.props
         /\ \A n \in Marks!Names(tools) : IsFiniteSet(PropsOf(tools, n))
<1>1. ASSUME NEW t \in tools PROVE PropsOf(tools, t.name) = t.props
  <2> DEFINE it == CHOOSE u \in tools : u.name = t.name
  <2>1. it \in tools /\ it.name = t.name
    OBVIOUS
  <2> HIDE DEF it
  <2>2. it = t
    BY <2>1 DEF Declared, UniquelyNamed
  <2> QED
    BY <2>2 DEF PropsOf, it
<1>2. ASSUME NEW n \in Marks!Names(tools) PROVE IsFiniteSet(PropsOf(tools, n))
  <2>1. PICK t \in tools : n = t.name
    BY DEF Marks!Names
  <2> QED
    BY <1>1, <2>1 DEF Declared
<1> QED
  BY <1>1, <1>2

LEMMA PrintsFinite ==
  ASSUME NEW tools, IsFiniteSet(tools)
  PROVE  IsFiniteSet(Marks!Names(tools)) /\ IsFiniteSet(Marks!Hashes(tools))
<1> DEFINE K == [t \in tools |-> t.name]
           G == [t \in tools |-> Marks!Hash(t)]
<1>1. Marks!Names(tools) = {K[t] : t \in tools}
  BY DEF Marks!Names
<1>2. Marks!Hashes(tools) = {G[t] : t \in tools}
  BY DEF Marks!Hashes
<1> HIDE DEF K, G
<1> QED
  BY <1>1, <1>2, ImageIsFinite

\* What two finite sets have in common is at most the larger, and as many only
\* if they are the same.
LEMMA CommonIs ==
  ASSUME NEW a, NEW b, IsFiniteSet(a), IsFiniteSet(b)
  PROVE  LET k == Marks!Cardinality(a \cap b)
             m == Marks!Greater(Marks!Cardinality(a), Marks!Cardinality(b))
         IN  k \in Nat /\ m \in Nat /\ k <= m /\ (k = m => a = b)
<1> DEFINE s == a \cap b
           k == Cardinality(s)
           x == Cardinality(a)
           y == Cardinality(b)
<1>1. s \subseteq a /\ s \subseteq b /\ (s = a /\ s = b => a = b)
  OBVIOUS
<1> HIDE DEF s
<1>2. x \in Nat /\ y \in Nat /\ k \in Nat
  BY <1>1, FS_CardinalityType, FS_Subset
<1>3. k <= x /\ (k = x => s = a) /\ k <= y /\ (k = y => s = b)
  BY <1>1, FS_Subset
<1> HIDE DEF k, x, y
<1>4. LET m == Marks!Greater(x, y) IN m \in Nat /\ k <= m /\ (k = m => a = b)
  BY <1>1, <1>2, <1>3 DEF Marks!Greater
<1>5. Marks!Cardinality(a \cap b) = k /\ Marks!Cardinality(a) = x /\ Marks!Cardinality(b) = y
  BY PrintsCount DEF s, k, x, y
<1> QED
  BY <1>2, <1>4, <1>5

\* How the shapes of the tools that share a name add up.
ShapesOf(tools, others) ==
  [n \in Marks!Names(tools) \cap Marks!Names(others) |->
     Marks!JaccardOf(PropsOf(tools, n), PropsOf(others, n))]

LEMMA ShapesAddUp ==
  ASSUME NEW tools, NEW passport, Declared(tools), Declared(passport.tools)
  PROVE  LET shared == Marks!Names(tools) \cap Marks!Names(passport.tools)
             Props(ts, n) == (CHOOSE t \in ts : t.name = n).props
             total == Marks!FoldSet(LAMBDA n, acc : Marks!Plus(acc, Marks!JaccardOf(Props(tools, n), Props(passport.tools, n))),
                                     <<0, 1>>, shared)
         IN  /\ total[1] \in Nat /\ total[2] \in Nat /\ total[2] >= 1
             /\ total[1] <= Cardinality(shared) * total[2]
             /\ total[1] = Cardinality(shared) * total[2] =>
                  \A n \in shared : PropsOf(tools, n) = PropsOf(passport.tools, n)
<1> DEFINE S == Marks!Names(tools) \cap Marks!Names(passport.tools)
           J == ShapesOf(tools, passport.tools)
           c == [s \in SUBSET S |-> CHOOSE x \in s : TRUE]
           at(n) == Marks!JaccardOf((CHOOSE t \in tools : t.name = n).props, (CHOOSE t \in passport.tools : t.name = n).props)
           total == Marks!FoldSet(LAMBDA n, acc : Marks!Plus(acc, at(n)), <<0, 1>>, S)
           Eq(g) == g = [s \in SUBSET S |-> IF s = {} THEN <<0, 1>>
                                              ELSE LET x == CHOOSE x \in s : TRUE IN Marks!Plus(g[s \ {x}], at(x))]
           it == CHOOSE g : Eq(g)
<1>1. total = it[S]
  BY DEF Marks!FoldSet, Marks!MapThenFoldSet
<1>2. \A n \in S : J[n] = at(n) /\ J[n] = Marks!JaccardOf(PropsOf(tools, n), PropsOf(passport.tools, n))
  BY DEF ShapesOf, PropsOf
<1>3. IsFiniteSet(S) /\ \A n \in S : n \in Marks!Names(tools) /\ n \in Marks!Names(passport.tools)
  <2>1. IsFiniteSet(Marks!Names(tools)) /\ S \subseteq Marks!Names(tools)
    BY PrintsFinite DEF Declared
  <2>2. \A n \in S : n \in Marks!Names(tools) /\ n \in Marks!Names(passport.tools)
    OBVIOUS
  <2> HIDE DEF S
  <2> QED
    BY <2>1, <2>2, FS_Subset
<1> HIDE DEF S, J, at, total
<1>4. ASSUME NEW n \in S
      PROVE  /\ J[n][1] \in Nat /\ J[n][2] \in Nat /\ J[n][2] >= 1 /\ J[n][1] <= J[n][2]
             /\ J[n][1] = J[n][2] => PropsOf(tools, n) = PropsOf(passport.tools, n)
  <2> DEFINE p == PropsOf(tools, n)
             q == PropsOf(passport.tools, n)
  <2>1. IsFiniteSet(p) /\ IsFiniteSet(q)
    BY <1>3, PropsAre
  <2>2. J[n] = Marks!JaccardOf(p, q)
    BY <1>2
  <2> HIDE DEF p, q
  <2>3. LET j == Marks!JaccardOf(p, q)
        IN  /\ j[1] \in Nat /\ j[2] \in Nat /\ j[2] >= 1 /\ j[1] <= j[2]
            /\ j[1] = j[2] => p = q
    BY <2>1, AlikeIs
  <2> QED
    BY <2>2, <2>3 DEF p, q
<1>5. Fractions(S, J, c)
  BY <1>3, <1>4 DEF Fractions
<1>6. TotalOf(S, J, c, it)
  <2>1. PICK g : g = [s \in SUBSET S |-> g[s]] /\ TotalOf(S, J, c, g)
    <3> HIDE DEF c
    <3> QED
      BY <1>5, TotalExists
  <2>2. Eq(g)
    <3>1. ASSUME NEW s \in SUBSET S
          PROVE g[s] = IF s = {} THEN <<0, 1>> ELSE LET x == CHOOSE x \in s : TRUE IN Marks!Plus(g[s \ {x}], at(x))
      <4>1. CASE s = {}
        BY <2>1, <4>1 DEF TotalOf
      <4>2. CASE s # {}
        <5> DEFINE y == CHOOSE x \in s : TRUE
        <5>1. y \in S /\ c[s] = y
          BY <4>2
        <5>2. g[s] = Marks!Plus(g[s \ {c[s]}], J[c[s]])
          BY <2>1, <4>2 DEF TotalOf
        <5> HIDE DEF y, c
        <5>3. g[s] = Marks!Plus(g[s \ {y}], at(y))
          BY <1>2, <5>1, <5>2
        <5> QED
          BY <4>2, <5>3 DEF y
      <4> QED
        BY <4>1, <4>2
    <3> QED
      BY <2>1, <3>1
  <2>3. Eq(it)
    <3> HIDE DEF Eq
    <3> QED
      BY <2>2
  <2> HIDE DEF it
  <2>4. ASSUME NEW s \in SUBSET S PROVE it[s] = IF s = {} THEN <<0, 1>> ELSE Marks!Plus(it[s \ {c[s]}], J[c[s]])
    <3>1. CASE s = {}
      BY <2>3, <3>1
    <3>2. CASE s # {}
      <4> DEFINE y == CHOOSE x \in s : TRUE
      <4>1. y \in S /\ c[s] = y
        BY <3>2
      <4>2. it[s] = Marks!Plus(it[s \ {y}], at(y))
        BY <2>3, <3>2
      <4> HIDE DEF y, c
      <4> QED
        BY <1>2, <3>2, <4>1, <4>2
    <3> QED
      BY <3>1, <3>2
  <2> QED
    BY <2>4 DEF TotalOf
<1> HIDE DEF it, c
<1>7. /\ it[S][1] \in Nat /\ it[S][2] \in Nat /\ it[S][2] >= 1
      /\ it[S][1] <= Cardinality(S) * it[S][2]
      /\ it[S][1] = Cardinality(S) * it[S][2] => \A x \in S : J[x][1] = J[x][2]
  BY <1>5, <1>6, TotalIs
<1>8. /\ total[1] \in Nat /\ total[2] \in Nat /\ total[2] >= 1
      /\ total[1] <= Cardinality(S) * total[2]
      /\ total[1] = Cardinality(S) * total[2] => \A n \in S : PropsOf(tools, n) = PropsOf(passport.tools, n)
  BY <1>1, <1>4, <1>7
<1> QED
  BY <1>8 DEF S, total, at

\* No match is surer than sure, and one that is as sure shares every name and
\* every property.
LEMMA ConfidenceIs ==
  ASSUME NEW tools, NEW passport, Declared(tools), Declared(passport.tools), SchemasTell(tools, passport.tools)
  PROVE  LET k == Marks!Confidence(tools, passport)
         IN  /\ k[1] \in Nat /\ k[2] \in Nat /\ k[1] <= k[2]
             /\ k[1] = k[2] =>
                  /\ Marks!Names(passport.tools) = Marks!Names(tools)
                  /\ \A t \in tools, u \in passport.tools : t.name = u.name => t.props = u.props
<1> DEFINE others == passport.tools
           k == Marks!Confidence(tools, passport)
           same == Marks!Hashes(tools) \cap Marks!Hashes(others)
           shared == Marks!Names(tools) \cap Marks!Names(others)
           Props(ts, n) == (CHOOSE t \in ts : t.name = n).props
           total == Marks!FoldSet(LAMBDA n, acc : Marks!Plus(acc, Marks!JaccardOf(Props(tools, n), Props(others, n))),
                                   <<0, 1>>, shared)
           larger == Marks!Greater(Marks!Cardinality(Marks!Names(tools)), Marks!Cardinality(Marks!Names(others)))
           most == Marks!Greater(Marks!Cardinality(Marks!Hashes(tools)), Marks!Cardinality(Marks!Hashes(others)))
           Alike == /\ Marks!Names(others) = Marks!Names(tools)
                    /\ \A t \in tools, u \in others : t.name = u.name => t.props = u.props
<1>1. k = IF same # {} THEN <<Marks!Cardinality(same), most>> ELSE <<total[1], total[2] * larger>>
  BY DEF Marks!Confidence
<1>2. CASE same # {}
  <2>1. /\ Marks!Cardinality(same) \in Nat /\ most \in Nat /\ Marks!Cardinality(same) <= most
        /\ Marks!Cardinality(same) = most => Marks!Hashes(tools) = Marks!Hashes(others)
    BY PrintsFinite, CommonIs DEF Declared
  <2>2. ASSUME Marks!Hashes(tools) = Marks!Hashes(others) PROVE Alike
    <3>1. /\ \A t \in tools : \E b \in others : t.name = b.name /\ t.schema = b.schema
          /\ \A b \in others : \E t \in tools : t.name = b.name /\ t.schema = b.schema
      BY <2>2, HashesAgree
    <3>2. Marks!Names(others) = Marks!Names(tools)
      <4>1. \A n : n \in Marks!Names(others) <=> n \in Marks!Names(tools)
        BY <3>1 DEF Marks!Names
      <4> QED
        BY <4>1
    <3>3. ASSUME NEW t \in tools, NEW u \in others, t.name = u.name PROVE t.props = u.props
      <4>1. PICK b \in others : t.name = b.name /\ t.schema = b.schema
        BY <3>1
      <4>2. b = u
        BY <3>3, <4>1 DEF Declared, UniquelyNamed
      <4> QED
        BY <4>1, <4>2 DEF SchemasTell
    <3> QED
      BY <3>2, <3>3
  <2> HIDE DEF same, most, Alike, k
  <2>3. k[1] = Marks!Cardinality(same) /\ k[2] = most
    BY <1>1, <1>2
  <2>4. /\ k[1] \in Nat /\ k[2] \in Nat /\ k[1] <= k[2]
        /\ k[1] = k[2] => Alike
    BY <2>1, <2>2, <2>3
  <2> QED
    BY <2>4 DEF Alike, k
<1>3. CASE same = {}
  <2> DEFINE s == Cardinality(shared)
  <2>1. /\ total[1] \in Nat /\ total[2] \in Nat /\ total[2] >= 1
        /\ total[1] <= s * total[2]
        /\ total[1] = s * total[2] =>
             \A n \in shared : PropsOf(tools, n) = PropsOf(others, n)
    BY ShapesAddUp
  <2>2. s \in Nat /\ larger \in Nat /\ s <= larger /\ (s = larger => Marks!Names(tools) = Marks!Names(others))
    <3>1. s = Marks!Cardinality(shared)
      BY PrintsCount
    <3> QED
      BY <3>1, PrintsFinite, CommonIs DEF Declared
  <2>3. k[1] = total[1] /\ k[2] = total[2] * larger
    <3> DEFINE x == total[1]
               y == total[2] * larger
    <3>1. k = <<x, y>>
      BY <1>1, <1>3
    <3> HIDE DEF x, y
    <3>2. k[1] = x /\ k[2] = y
      BY <3>1
    <3> QED
      BY <3>2 DEF x, y
  <2>4. ASSUME Marks!Names(tools) = Marks!Names(others), \A n \in shared : PropsOf(tools, n) = PropsOf(others, n)
        PROVE  Alike
    <3>1. ASSUME NEW t \in tools, NEW u \in others, t.name = u.name PROVE t.props = u.props
      <4>1. t.name \in shared
        BY <2>4 DEF Marks!Names
      <4>2. PropsOf(tools, t.name) = t.props /\ PropsOf(others, u.name) = u.props
        BY PropsAre
      <4> QED
        BY <2>4, <3>1, <4>1, <4>2
    <3> QED
      BY <2>4, <3>1
  <2> HIDE DEF s, total, larger, k, Alike
  <2> DEFINE n == total[1]
             d == total[2]
  <2>5. n \in Nat /\ d \in Nat /\ s \in Nat /\ larger \in Nat /\ s <= larger /\ d >= 1 /\ n <= s * d
    BY <2>1, <2>2
  <2>6. n <= d * larger /\ d * larger \in Nat /\ (n = d * larger => s = larger /\ n = s * d)
    <3> HIDE DEF n, d
    <3> QED
      BY <2>5, WholeIs
  <2>7. /\ k[1] \in Nat /\ k[2] \in Nat /\ k[1] <= k[2]
        /\ k[1] = k[2] => s = larger /\ n = s * d
    <3>1. k[1] = n /\ k[2] = d * larger
      BY <2>3
    <3> HIDE DEF n, d
    <3> QED
      BY <2>5, <2>6, <3>1, Zenon
  <2>8. k[1] = k[2] => Alike
    BY <2>1, <2>2, <2>4, <2>7
  <2> QED
    BY <2>7, <2>8 DEF Alike, k
<1> QED
  BY <1>2, <1>3

\* What a server is compared with.
Comparable(tools, passports) ==
  /\ Declared(tools)
  /\ \A p \in passports : Declared(p.tools) /\ SchemasTell(tools, p.tools)

LEMMA AboveIs ==
  ASSUME NEW k, k[1] \in Nat, k[2] \in Nat
  PROVE  /\ Marks!Above(k, <<1, 1>>) <=> k[1] > k[2]
         /\ Marks!Above(<<1, 1>>, k) <=> k[2] > k[1]
<1> DEFINE a == k[1]
           b == k[2]
<1>1. Marks!Above(k, <<1, 1>>) <=> a * 1 > b * 1
  BY DEF Marks!Above
<1>2. Marks!Above(<<1, 1>>, k) <=> 1 * b > 1 * a
  BY DEF Marks!Above
<1>3. a \in Nat /\ b \in Nat
  OBVIOUS
<1> HIDE DEF a, b
<1>4. a * 1 = a /\ b * 1 = b /\ 1 * a = a /\ 1 * b = b
  BY <1>3
<1> QED
  BY <1>1, <1>2, <1>3, <1>4 DEF a, b

\* A server that carries exactly the tools of a passport is told to be that
\* one, and only those; no other match is as sure as that, except one whose
\* tools all have the names and properties of the passport's: for any finite
\* listings of tools with names of their own, whatever they hash to
\* (fingerprints/matcher.py match_tools).
THEOREM MatchIsSureOf ==
  ASSUME NEW tools, NEW passports, Comparable(tools, passports)
  PROVE  Marks!MatchIsSure(tools, passports)
<1> DEFINE found == Marks!MatchTools(tools, passports)
           exact == {p \in passports : p.tools # {} /\ Marks!Hashes(p.tools) = Marks!Hashes(tools)}
           some  == {p \in passports : Marks!Hashes(p.tools) \cap Marks!Hashes(tools) # {}}
           shape == {p \in passports \ some : /\ Marks!Names(p.tools) \cap Marks!Names(tools) # {}
                                              /\ Marks!Above(Marks!Confidence(tools, p), <<3, 10>>)}
           As(p, k) == [passport |-> p,
                        confidence |-> IF k = "toolset_exact" THEN <<1, 1>> ELSE Marks!Confidence(tools, p),
                        kind |-> k]
           Alike(p) == /\ Marks!Names(p.tools) = Marks!Names(tools)
                       /\ \A t \in tools, u \in p.tools : t.name = u.name => t.props = u.props
           Sure(f) == /\ ~Marks!Above(f.confidence, <<1, 1>>)
                      /\ ~Marks!Above(<<1, 1>>, f.confidence) => Alike(f.passport)
<1>1. found = CASE tools = {} -> {}
                [] tools # {} /\ exact # {} -> {As(p, "toolset_exact") : p \in exact}
                [] OTHER -> {As(p, "tool_hash") : p \in some} \cup {As(p, "fuzzy_topological") : p \in shape}
  BY DEF Marks!MatchTools
<1>2. Marks!MatchIsSure(tools, passports)
        <=> /\ tools # {} /\ exact # {} => {f.passport : f \in found} = exact
            /\ \A f \in found : Sure(f)
  BY DEF Marks!MatchIsSure
<1>3. ASSUME NEW p \in passports
      PROVE  /\ \A k : As(p, k).passport = p
             /\ As(p, "toolset_exact").confidence = <<1, 1>>
             /\ As(p, "tool_hash").confidence = Marks!Confidence(tools, p)
             /\ As(p, "fuzzy_topological").confidence = Marks!Confidence(tools, p)
  OBVIOUS
<1>4. exact \subseteq passports /\ some \subseteq passports /\ shape \subseteq passports
  OBVIOUS
<1>5. ASSUME NEW p \in exact PROVE Alike(p)
  <2>1. p \in passports /\ Marks!Hashes(p.tools) = Marks!Hashes(tools)
    OBVIOUS
  <2>2. /\ \A t \in p.tools : \E b \in tools : t.name = b.name /\ t.schema = b.schema
        /\ \A b \in tools : \E t \in p.tools : t.name = b.name /\ t.schema = b.schema
    BY <2>1, HashesAgree
  <2>3. Marks!Names(p.tools) = Marks!Names(tools)
    <3>1. \A n : n \in Marks!Names(p.tools) <=> n \in Marks!Names(tools)
      BY <2>2 DEF Marks!Names
    <3> QED
      BY <3>1
  <2>4. ASSUME NEW t \in tools, NEW u \in p.tools, t.name = u.name PROVE t.props = u.props
    <3>1. PICK b \in p.tools : t.name = b.name /\ t.schema = b.schema
      BY <2>2
    <3>2. b = u
      BY <2>1, <2>4, <3>1 DEF Comparable, Declared, UniquelyNamed
    <3> QED
      BY <2>1, <3>1, <3>2 DEF Comparable, SchemasTell
  <2> QED
    BY <2>3, <2>4
<1>6. ASSUME NEW p \in passports, NEW f, f.passport = p, f.confidence = Marks!Confidence(tools, p)
      PROVE  Sure(f)
  <2> DEFINE k == Marks!Confidence(tools, p)
  <2>1. k[1] \in Nat /\ k[2] \in Nat /\ k[1] <= k[2] /\ (k[1] = k[2] => Alike(p))
    BY ConfidenceIs DEF Comparable
  <2> HIDE DEF k, Alike
  <2>2. f.confidence = k
    BY <1>6 DEF k
  <2>3. /\ Marks!Above(k, <<1, 1>>) <=> k[1] > k[2]
        /\ Marks!Above(<<1, 1>>, k) <=> k[2] > k[1]
    BY <2>1, AboveIs
  <2>4. k[1] <= k[2] /\ ~(k[1] > k[2]) /\ (~(k[2] > k[1]) => k[1] = k[2])
    BY <2>1
  <2> QED
    BY <1>6, <2>1, <2>2, <2>3, <2>4
<1>7. ASSUME NEW p \in exact, NEW f, f.passport = p, f.confidence = <<1, 1>>
      PROVE  Sure(f)
  <2>1. ~Marks!Above(<<1, 1>>, <<1, 1>>)
    BY DEF Marks!Above
  <2> HIDE DEF exact, Alike
  <2> QED
    BY <1>5, <1>7, <2>1
<1> HIDE DEF found, exact, some, shape, Sure, Alike
<1>8. CASE tools = {}
  <2>1. found = {}
    BY <1>1, <1>8
  <2> QED
    BY <1>2, <1>8, <2>1
<1>9. CASE tools # {} /\ exact # {}
  <2>1. found = {As(p, "toolset_exact") : p \in exact}
    BY <1>1, <1>9
  <2>2. \A f \in found : \E p \in exact : f = As(p, "toolset_exact")
    BY <2>1
  <2>3. \A p \in exact : As(p, "toolset_exact") \in found
    BY <2>1
  <2>4. \A p \in exact : As(p, "toolset_exact").passport = p /\ As(p, "toolset_exact").confidence = <<1, 1>>
    BY <1>3, <1>4
  <2> HIDE DEF As
  <2>5. \A f \in found : f.passport \in exact /\ f.confidence = <<1, 1>>
    BY <2>2, <2>4
  <2>6. {f.passport : f \in found} = exact
    <3>1. \A p : p \in {f.passport : f \in found} <=> p \in exact
      BY <2>3, <2>4, <2>5
    <3> QED
      BY <3>1
  <2>7. \A f \in found : Sure(f)
    BY <1>7, <2>5
  <2> QED
    BY <1>2, <2>6, <2>7
<1>10. CASE tools # {} /\ exact = {}
  <2>1. found = {As(p, "tool_hash") : p \in some} \cup {As(p, "fuzzy_topological") : p \in shape}
    BY <1>1, <1>10
  <2>2. \A f \in found : (\E p \in some : f = As(p, "tool_hash")) \/ (\E p \in shape : f = As(p, "fuzzy_topological"))
    BY <2>1
  <2> HIDE DEF As
  <2>3. \A f \in found : \E p \in passports : f.passport = p /\ f.confidence = Marks!Confidence(tools, p)
    BY <1>3, <1>4, <2>2
  <2>4. \A f \in found : Sure(f)
    BY <1>6, <2>3
  <2> QED
    BY <1>2, <1>10, <2>4
<1> QED
  BY <1>8, <1>9, <1>10

\* The least of three numbers, and of a fourth if there is one.
LEMMA LeastIs ==
  ASSUME NEW a \in Nat, NEW b \in Nat, NEW c \in Nat, NEW more, more = {} \/ \E x \in Nat : more = {x}
  PROVE  LET m == Edits!Min({a, b, c} \cup more)
         IN  /\ m \in Nat /\ m <= a /\ m <= b /\ m <= c /\ \A x \in more : m <= x
             /\ m = a \/ m = b \/ m = c \/ m \in more
<1> DEFINE S == {a, b, c} \cup more
           m == Edits!Min(S)
<1>1. S \subseteq Nat /\ a \in S /\ b \in S /\ c \in S /\ (\A x \in more : x \in S)
      /\ (\A x \in S : x = a \/ x = b \/ x = c \/ x \in more)
  OBVIOUS
<1> HIDE DEF S
<1>2. \E n \in S : \A k \in S : n <= k
  BY <1>1, LeastOf
<1>3. m \in S /\ \A k \in S : m <= k
  BY <1>2 DEF Edits!Min
<1> HIDE DEF m
<1>4. /\ m \in Nat /\ m <= a /\ m <= b /\ m <= c /\ \A x \in more : m <= x
      /\ m = a \/ m = b \/ m = c \/ m \in more
  BY <1>1, <1>3
<1> QED
  BY <1>4 DEF m, S

-----------------------------------------------------------------------------
(* The edit distance.                                                      *)

CostOf(s, t, i, j) == IF s[i] = t[j] THEN 0 ELSE 1
SwappedAt(s, t, i, j) == i > 1 /\ j > 1 /\ s[i] = t[j - 1] /\ s[i - 1] = t[j]

Grid(s, t) == (0..Len(s)) \X (0..Len(t))

\* A cell of the table in terms of the cells before it.
CellIs(s, t, d, i, j) ==
  /\ d[<<i, j>>] \in Nat
  /\ i = 0 \/ j = 0 => d[<<i, j>>] = i + j
  /\ i # 0 /\ j # 0 =>
       /\ d[<<i, j>>] <= d[<<i - 1, j>>] + 1
       /\ d[<<i, j>>] <= d[<<i, j - 1>>] + 1
       /\ d[<<i, j>>] <= d[<<i - 1, j - 1>>] + CostOf(s, t, i, j)
       /\ SwappedAt(s, t, i, j) => d[<<i, j>>] <= d[<<i - 2, j - 2>>] + CostOf(s, t, i, j)
       /\ \/ d[<<i, j>>] = d[<<i - 1, j>>] + 1
          \/ d[<<i, j>>] = d[<<i, j - 1>>] + 1
          \/ d[<<i, j>>] = d[<<i - 1, j - 1>>] + CostOf(s, t, i, j)
          \/ SwappedAt(s, t, i, j) /\ d[<<i, j>>] = d[<<i - 2, j - 2>>] + CostOf(s, t, i, j)

TableOf(s, t, d) == \A i \in 0..Len(s), j \in 0..Len(t) : CellIs(s, t, d, i, j)

LEMMA DistanceHasTable ==
  ASSUME NEW s, NEW t, Len(s) \in Nat, Len(t) \in Nat
  PROVE  \E d : TableOf(s, t, d) /\ Edits!Distance(s, t) = d[<<Len(s), Len(t)>>]
<1> DEFINE D == Grid(s, t)
           more(f, i, j) == IF SwappedAt(s, t, i, j) THEN {f[<<i - 2, j - 2>>] + CostOf(s, t, i, j)} ELSE {}
           Cell(f, i, j) == IF i = 0 \/ j = 0 THEN i + j
                            ELSE Edits!Min({f[<<i - 1, j>>] + 1, f[<<i, j - 1>>] + 1, f[<<i - 1, j - 1>>] + CostOf(s, t, i, j)}
                                              \cup more(f, i, j))
           Eq(d) == d = [c \in D |-> Cell(d, c[1], c[2])]
           it == CHOOSE d : Eq(d)
           rank == [c \in D |-> c[1] + c[2]]
           H == [p \in D \X [D -> Nat] |-> Cell(p[2], p[1][1], p[1][2])]
<1>1. Edits!Distance(s, t) = it[<<Len(s), Len(t)>>]
  BY DEF Edits!Distance, Grid, CostOf, SwappedAt
<1>2. ASSUME NEW c \in D
      PROVE  \E i \in 0..Len(s), j \in 0..Len(t) : c = <<i, j>> /\ c[1] = i /\ c[2] = j
  BY DEF Grid
<1>3. ASSUME NEW f \in [D -> Nat], NEW i \in 0..Len(s), NEW j \in 0..Len(t), i # 0, j # 0
      PROVE  LET m == Cell(f, i, j)
             IN  /\ m \in Nat /\ m <= f[<<i - 1, j>>] + 1 /\ m <= f[<<i, j - 1>>] + 1
                 /\ m <= f[<<i - 1, j - 1>>] + CostOf(s, t, i, j)
                 /\ SwappedAt(s, t, i, j) => m <= f[<<i - 2, j - 2>>] + CostOf(s, t, i, j)
                 /\ \/ m = f[<<i - 1, j>>] + 1
                    \/ m = f[<<i, j - 1>>] + 1
                    \/ m = f[<<i - 1, j - 1>>] + CostOf(s, t, i, j)
                    \/ SwappedAt(s, t, i, j) /\ m = f[<<i - 2, j - 2>>] + CostOf(s, t, i, j)
  <2> DEFINE a == f[<<i - 1, j>>] + 1
             b == f[<<i, j - 1>>] + 1
             k == f[<<i - 1, j - 1>>] + CostOf(s, t, i, j)
             x == f[<<i - 2, j - 2>>] + CostOf(s, t, i, j)
             w == more(f, i, j)
             m == Cell(f, i, j)
  <2>1. CostOf(s, t, i, j) \in Nat
    BY DEF CostOf
  <2>2. a \in Nat /\ b \in Nat /\ k \in Nat /\ (SwappedAt(s, t, i, j) => x \in Nat)
    <3>1. /\ <<i - 1, j>> \in D /\ <<i, j - 1>> \in D /\ <<i - 1, j - 1>> \in D
          /\ SwappedAt(s, t, i, j) => <<i - 2, j - 2>> \in D
      BY <1>3, CellsBefore DEF Grid, SwappedAt
    <3> QED
      BY <2>1, <3>1
  <2>3. w = IF SwappedAt(s, t, i, j) THEN {x} ELSE {}
    OBVIOUS
  <2>4. m = Edits!Min({a, b, k} \cup w)
    BY <1>3
  <2> HIDE DEF a, b, k, x, w, m
  <2>5. w = {} \/ \E y \in Nat : w = {y}
    BY <2>2, <2>3
  <2>6. /\ m \in Nat /\ m <= a /\ m <= b /\ m <= k /\ \A y \in w : m <= y
        /\ m = a \/ m = b \/ m = k \/ m \in w
    <3> DEFINE n == Edits!Min({a, b, k} \cup w)
    <3>1. /\ n \in Nat /\ n <= a /\ n <= b /\ n <= k /\ \A y \in w : n <= y
          /\ n = a \/ n = b \/ n = k \/ n \in w
      BY <2>2, <2>5, LeastIs
    <3>2. m = n
      BY <2>4
    <3> HIDE DEF n
    <3> QED
      BY <3>1, <3>2
  <2>7. /\ m \in Nat /\ m <= a /\ m <= b /\ m <= k /\ (SwappedAt(s, t, i, j) => m <= x)
        /\ m = a \/ m = b \/ m = k \/ (SwappedAt(s, t, i, j) /\ m = x)
    BY <2>3, <2>6
  <2> QED
    BY <2>7 DEF a, b, k, x, m
<1>4. ASSUME NEW f \in [D -> Nat], NEW i \in 0..Len(s), NEW j \in 0..Len(t) PROVE Cell(f, i, j) \in Nat
  <2>1. CASE i = 0 \/ j = 0
    BY <2>1
  <2>2. CASE i # 0 /\ j # 0
    <3> HIDE DEF Cell
    <3> QED
      BY <1>3, <2>2
  <2> QED
    BY <2>1, <2>2
<1>5. ASSUME NEW c \in D, NEW f \in [D -> Nat]
      PROVE  H[<<c, f>>] = Cell(f, c[1], c[2]) /\ H[<<c, f>>] \in Nat
  <2>1. <<c, f>> \in D \X [D -> Nat] /\ <<c, f>>[1] = c /\ <<c, f>>[2] = f
    OBVIOUS
  <2> HIDE DEF Cell
  <2>2. H[<<c, f>>] = Cell(f, c[1], c[2])
    BY <2>1
  <2> QED
    BY <1>2, <1>4, <2>2
<1>6. H \in [D \X [D -> Nat] -> Nat]
  <2>1. \A p \in D \X [D -> Nat] : p = <<p[1], p[2]>> /\ p[1] \in D /\ p[2] \in [D -> Nat]
    OBVIOUS
  <2>2. H = [p \in D \X [D -> Nat] |-> H[p]]
    OBVIOUS
  <2> HIDE DEF H, D
  <2>3. \A p \in D \X [D -> Nat] : H[p] \in Nat
    BY <1>5, <2>1
  <2> QED
    BY <2>2, <2>3
<1>7. rank \in [D -> 0..(Len(s) + Len(t))]
  BY DEF Grid
<1>8. ASSUME NEW c \in D, NEW f, NEW g, \A y \in D : rank[y] < rank[c] => f[y] = g[y]
      PROVE  Cell(f, c[1], c[2]) = Cell(g, c[1], c[2])
  <2>1. PICK i \in 0..Len(s), j \in 0..Len(t) : c = <<i, j>> /\ c[1] = i /\ c[2] = j
    BY <1>2
  <2>2. CASE i = 0 \/ j = 0
    BY <2>1, <2>2
  <2>3. CASE i # 0 /\ j # 0
    <3>1. /\ <<i - 1, j>> \in D /\ <<i, j - 1>> \in D /\ <<i - 1, j - 1>> \in D
          /\ SwappedAt(s, t, i, j) => <<i - 2, j - 2>> \in D
      BY <2>3, CellsBefore DEF Grid, SwappedAt
    <3>2. /\ f[<<i - 1, j>>] = g[<<i - 1, j>>] /\ f[<<i, j - 1>>] = g[<<i, j - 1>>]
          /\ f[<<i - 1, j - 1>>] = g[<<i - 1, j - 1>>]
          /\ SwappedAt(s, t, i, j) => f[<<i - 2, j - 2>>] = g[<<i - 2, j - 2>>]
      <4>1. rank[c] = i + j
        BY <2>1
      <4>2. /\ rank[<<i - 1, j>>] = i + j - 1 /\ rank[<<i, j - 1>>] = i + j - 1
            /\ rank[<<i - 1, j - 1>>] = i + j - 2
            /\ SwappedAt(s, t, i, j) => rank[<<i - 2, j - 2>>] = i + j - 4
        BY <3>1
      <4> HIDE DEF D, rank
      <4> QED
        BY <1>8, <3>1, <4>1, <4>2
    <3>3. Cell(f, i, j) = Cell(g, i, j)
      BY <3>2
    <3> HIDE DEF Cell
    <3> QED
      BY <2>1, <3>3
  <2> QED
    BY <2>2, <2>3
<1>9. LooksBelow(D, rank, Nat, H)
  <2> SUFFICES ASSUME NEW c \in D, NEW f \in [D -> Nat], NEW g \in [D -> Nat],
                      \A y \in D : rank[y] < rank[c] => f[y] = g[y]
               PROVE  H[<<c, f>>] = H[<<c, g>>]
    BY DEF LooksBelow
  <2> HIDE DEF Cell, H, D, rank
  <2>1. Cell(f, c[1], c[2]) = Cell(g, c[1], c[2])
    BY <1>8
  <2> QED
    BY <1>5, <2>1
<1>10. PICK d \in [D -> Nat] : \A c \in D : d[c] = H[<<c, d>>]
  <2> DEFINE B == Len(s) + Len(t)
  <2>1. Nat # {} /\ B \in Nat
    OBVIOUS
  <2>2. rank \in [D -> 0..B]
    BY <1>7
  <2> HIDE DEF H, D, rank, B
  <2>3. Recursion(D, B, rank, Nat, H)
    BY <1>6, <1>9, <2>1, <2>2 DEF Recursion
  <2>4. \E d \in [D -> Nat] : Solves(D, H, d)
    BY <2>3, RecursionExists
  <2> QED
    BY <2>4 DEF Solves
<1>11. \A c \in D : d[c] = Cell(d, c[1], c[2])
  <2> HIDE DEF H, Cell
  <2> QED
    BY <1>5, <1>10
<1>12. Eq(d)
  <2> HIDE DEF Cell
  <2> QED
    BY <1>10, <1>11
<1>13. Eq(it)
  <2> HIDE DEF Eq
  <2> QED
    BY <1>12
<1> HIDE DEF it
<1>14. \A c \in D : it[c] = Cell(it, c[1], c[2])
  <2> HIDE DEF Cell
  <2> QED
    BY <1>13
<1>15. \A c \in D : it[c] = d[c]
  <2>1. \A c \in D : rank[c] \in Nat
    BY <1>7
  <2>2. ASSUME NEW c \in D, \A y \in D : rank[y] < rank[c] => it[y] = d[y] PROVE it[c] = d[c]
    <3> HIDE DEF Cell, rank, D
    <3>1. Cell(it, c[1], c[2]) = Cell(d, c[1], c[2])
      BY <1>8, <2>2
    <3> QED
      BY <1>11, <1>14, <3>1
  <2> HIDE DEF rank, D
  <2>3. SameIfBelow(D, rank, it, d)
    BY <2>1, <2>2 DEF SameIfBelow
  <2> QED
    BY <2>3, SameAll
<1>16. \A i \in 0..Len(s), j \in 0..Len(t) : <<i, j>> \in D /\ d[<<i, j>>] = Cell(d, i, j) /\ d[<<i, j>>] \in Nat
  <2>1. ASSUME NEW i \in 0..Len(s), NEW j \in 0..Len(t) PROVE <<i, j>> \in D /\ <<i, j>>[1] = i /\ <<i, j>>[2] = j
    BY DEF Grid
  <2> HIDE DEF Cell, D
  <2> QED
    BY <1>10, <1>11, <2>1
<1>17. TableOf(s, t, d)
  <2> SUFFICES ASSUME NEW i \in 0..Len(s), NEW j \in 0..Len(t) PROVE CellIs(s, t, d, i, j)
    BY DEF TableOf
  <2>1. d[<<i, j>>] = Cell(d, i, j) /\ d[<<i, j>>] \in Nat
    BY <1>16
  <2>2. CASE i = 0 \/ j = 0
    BY <2>1, <2>2 DEF CellIs
  <2>3. CASE i # 0 /\ j # 0
    <3> HIDE DEF Cell, D
    <3>1. LET m == Cell(d, i, j)
          IN  /\ m \in Nat /\ m <= d[<<i - 1, j>>] + 1 /\ m <= d[<<i, j - 1>>] + 1
              /\ m <= d[<<i - 1, j - 1>>] + CostOf(s, t, i, j)
              /\ SwappedAt(s, t, i, j) => m <= d[<<i - 2, j - 2>>] + CostOf(s, t, i, j)
              /\ \/ m = d[<<i - 1, j>>] + 1
                 \/ m = d[<<i, j - 1>>] + 1
                 \/ m = d[<<i - 1, j - 1>>] + CostOf(s, t, i, j)
                 \/ SwappedAt(s, t, i, j) /\ m = d[<<i - 2, j - 2>>] + CostOf(s, t, i, j)
      BY <1>3, <1>10, <2>3
    <3> QED
      BY <2>1, <2>3, <3>1 DEF CellIs
  <2> QED
    BY <2>2, <2>3
<1>18. it[<<Len(s), Len(t)>>] = d[<<Len(s), Len(t)>>]
  <2>1. Len(s) \in 0..Len(s) /\ Len(t) \in 0..Len(t)
    OBVIOUS
  <2>2. <<Len(s), Len(t)>> \in D
    BY <1>16, <2>1
  <2> HIDE DEF D
  <2> QED
    BY <1>15, <2>2
<1> QED
  BY <1>1, <1>17, <1>18

LEMMA TableLength ==
  ASSUME NEW s, NEW t, Len(s) \in Nat, Len(t) \in Nat, NEW d, TableOf(s, t, d)
  PROVE  \A i \in 0..Len(s), j \in 0..Len(t) : d[<<i, j>>] \in Nat /\ d[<<i, j>>] >= i - j /\ d[<<i, j>>] >= j - i
<1> DEFINE m == Len(s)
           n == Len(t)
           Good(i, j) == d[<<i, j>>] \in Nat /\ d[<<i, j>>] >= i - j /\ d[<<i, j>>] >= j - i
           G == {c \in Grid(s, t) : Good(c[1], c[2])}
<1>1. \A i \in 0..m, j \in 0..n : <<i, j>> \in G <=> Good(i, j)
  <2>1. \A i \in 0..m, j \in 0..n : <<i, j>> \in Grid(s, t) /\ <<i, j>>[1] = i /\ <<i, j>>[2] = j
    BY DEF Grid
  <2> HIDE DEF Good
  <2> QED
    BY <2>1
<1> HIDE DEF G
<1>2. Inductive(m, n, G)
  <2> SUFFICES ASSUME NEW i \in 0..m, NEW j \in 0..n,
                      \A k \in 0..m, l \in 0..n : k + l < i + j => <<k, l>> \in G
               PROVE  Good(i, j)
    BY <1>1 DEF Inductive
  <2>1. CellIs(s, t, d, i, j)
    BY DEF TableOf
  <2>2. CASE i = 0 \/ j = 0
    BY <2>1, <2>2 DEF CellIs
  <2>3. CASE i # 0 /\ j # 0
    <3>1. /\ Good(i - 1, j) /\ Good(i, j - 1) /\ Good(i - 1, j - 1)
          /\ SwappedAt(s, t, i, j) => Good(i - 2, j - 2)
      <4> HIDE DEF Good
      <4> QED
        BY <1>1, <2>3, BeforeIs DEF SwappedAt
    <3>2. CostOf(s, t, i, j) \in Nat
      BY DEF CostOf
    <3>3. d[<<i, j>>] \in Nat /\ (\/ d[<<i, j>>] = d[<<i - 1, j>>] + 1
                                  \/ d[<<i, j>>] = d[<<i, j - 1>>] + 1
                                  \/ d[<<i, j>>] = d[<<i - 1, j - 1>>] + CostOf(s, t, i, j)
                                  \/ SwappedAt(s, t, i, j) /\ d[<<i, j>>] = d[<<i - 2, j - 2>>] + CostOf(s, t, i, j))
      BY <2>1, <2>3 DEF CellIs
    <3> DEFINE x == d[<<i, j>>]
               a == d[<<i - 1, j>>]
               b == d[<<i, j - 1>>]
               c == d[<<i - 1, j - 1>>]
               w == d[<<i - 2, j - 2>>]
               k == CostOf(s, t, i, j)
               S == SwappedAt(s, t, i, j)
    <3>4. x \in Nat /\ k \in Nat /\ (x = a + 1 \/ x = b + 1 \/ x = c + k \/ (S /\ x = w + k))
      BY <3>2, <3>3
    <3>5. /\ a \in Nat /\ a >= (i - 1) - j /\ a >= j - (i - 1)
          /\ b \in Nat /\ b >= i - (j - 1) /\ b >= (j - 1) - i
          /\ c \in Nat /\ c >= (i - 1) - (j - 1) /\ c >= (j - 1) - (i - 1)
          /\ S => w \in Nat /\ w >= (i - 2) - (j - 2) /\ w >= (j - 2) - (i - 2)
      BY <3>1
    <3> HIDE DEF x, a, b, c, w, k, S
    <3>6. x >= i - j /\ x >= j - i
      BY <3>4, <3>5
    <3> QED
      BY <3>4, <3>6 DEF x
  <2> QED
    BY <2>2, <2>3
<1>3. \A i \in 0..m, j \in 0..n : <<i, j>> \in G
  BY <1>2, GridInduction
<1> QED
  BY <1>1, <1>3

LEMMA TableZero ==
  ASSUME NEW s, NEW t, Len(s) \in Nat, Len(t) \in Nat, NEW d, TableOf(s, t, d)
  PROVE  \A i \in 0..Len(s), j \in 0..Len(t) : d[<<i, j>>] = 0 => i = j /\ \A k \in 1..i : s[k] = t[k]
<1> DEFINE m == Len(s)
           n == Len(t)
           Good(i, j) == d[<<i, j>>] = 0 => i = j /\ \A k \in 1..i : s[k] = t[k]
           G == {c \in Grid(s, t) : Good(c[1], c[2])}
<1>1. \A i \in 0..m, j \in 0..n : <<i, j>> \in G <=> Good(i, j)
  <2>1. \A i \in 0..m, j \in 0..n : <<i, j>> \in Grid(s, t) /\ <<i, j>>[1] = i /\ <<i, j>>[2] = j
    BY DEF Grid
  <2> HIDE DEF Good
  <2> QED
    BY <2>1
<1> HIDE DEF G
<1>2. Inductive(m, n, G)
  <2> SUFFICES ASSUME NEW i \in 0..m, NEW j \in 0..n,
                      \A k \in 0..m, l \in 0..n : k + l < i + j => <<k, l>> \in G
               PROVE  Good(i, j)
    BY <1>1 DEF Inductive
  <2>1. CellIs(s, t, d, i, j)
    BY DEF TableOf
  <2>2. CASE i = 0 \/ j = 0
    BY <2>1, <2>2 DEF CellIs
  <2>3. CASE i # 0 /\ j # 0
    <3> DEFINE Z(x, y) == d[<<x, y>>] = 0
               A(x, y) == x = y /\ \A k \in 1..x : s[k] = t[k]
    <3>1. /\ Good(i - 1, j - 1)
          /\ SwappedAt(s, t, i, j) => Good(i - 2, j - 2)
      <4> HIDE DEF Good
      <4> QED
        BY <1>1, <2>3, BeforeIs DEF SwappedAt
    <3>2. ASSUME d[<<i, j>>] = 0
          PROVE  /\ s[i] = t[j]
                 /\ \/ d[<<i - 1, j - 1>>] = 0
                    \/ SwappedAt(s, t, i, j) /\ d[<<i - 2, j - 2>>] = 0
      <4>1. \A x \in 0..m, y \in 0..n : d[<<x, y>>] \in Nat
        BY TableLength
      <4>2. CostOf(s, t, i, j) \in Nat /\ (CostOf(s, t, i, j) = 0 => s[i] = t[j])
        BY DEF CostOf
      <4>3. /\ d[<<i - 1, j>>] \in Nat /\ d[<<i, j - 1>>] \in Nat /\ d[<<i - 1, j - 1>>] \in Nat
            /\ SwappedAt(s, t, i, j) => d[<<i - 2, j - 2>>] \in Nat
        BY <2>3, <4>1, BeforeIs DEF SwappedAt
      <4>4. \/ 0 = d[<<i - 1, j>>] + 1
            \/ 0 = d[<<i, j - 1>>] + 1
            \/ 0 = d[<<i - 1, j - 1>>] + CostOf(s, t, i, j)
            \/ SwappedAt(s, t, i, j) /\ 0 = d[<<i - 2, j - 2>>] + CostOf(s, t, i, j)
        BY <2>1, <2>3, <3>2 DEF CellIs
      <4> DEFINE a == d[<<i - 1, j>>]
                 b == d[<<i, j - 1>>]
                 c == d[<<i - 1, j - 1>>]
                 w == d[<<i - 2, j - 2>>]
                 k == CostOf(s, t, i, j)
                 S == SwappedAt(s, t, i, j)
      <4>5. /\ a \in Nat /\ b \in Nat /\ c \in Nat /\ (S => w \in Nat) /\ k \in Nat
            /\ 0 = a + 1 \/ 0 = b + 1 \/ 0 = c + k \/ (S /\ 0 = w + k)
        BY <4>2, <4>3, <4>4
      <4> HIDE DEF a, b, c, w, k, S
      <4>6. k = 0 /\ (c = 0 \/ (S /\ w = 0))
        BY <4>5
      <4> QED
        BY <4>2, <4>6 DEF c, w, k, S
    <3>3. ASSUME d[<<i, j>>] = 0, d[<<i - 1, j - 1>>] = 0 PROVE A(i, j)
      <4>1. i = j /\ s[i] = t[i] /\ \A k \in 1..(i - 1) : s[k] = t[k]
        BY <3>1, <3>2, <3>3
      <4>2. \A k \in 1..i : k = i \/ k \in 1..(i - 1)
        OBVIOUS
      <4> QED
        BY <4>1, <4>2
    <3>4. ASSUME d[<<i, j>>] = 0, SwappedAt(s, t, i, j), d[<<i - 2, j - 2>>] = 0 PROVE A(i, j)
      <4>1. i = j /\ s[i] = t[i] /\ \A k \in 1..(i - 2) : s[k] = t[k]
        BY <3>1, <3>2, <3>4
      <4>2. s[i] = t[j - 1] /\ s[i - 1] = t[j]
        BY <3>4 DEF SwappedAt
      <4>3. s[i - 1] = t[i - 1]
        BY <4>1, <4>2
      <4>4. \A k \in 1..i : k = i \/ k = i - 1 \/ k \in 1..(i - 2)
        OBVIOUS
      <4> QED
        BY <4>1, <4>3, <4>4
    <3> QED
      BY <3>2, <3>3, <3>4
  <2> QED
    BY <2>2, <2>3
<1>3. \A i \in 0..m, j \in 0..n : <<i, j>> \in G
  BY <1>2, GridInduction
<1> QED
  BY <1>1, <1>3

\* The table of the swapped words is the table turned over.
LEMMA TableTurned ==
  ASSUME NEW s, NEW t, Len(s) \in Nat, Len(t) \in Nat, NEW d, NEW e, TableOf(s, t, d), TableOf(t, s, e)
  PROVE  \A i \in 0..Len(s), j \in 0..Len(t) : d[<<i, j>>] = e[<<j, i>>]
<1> DEFINE m == Len(s)
           n == Len(t)
           Good(i, j) == d[<<i, j>>] = e[<<j, i>>]
           G == {c \in Grid(s, t) : Good(c[1], c[2])}
<1>1. \A i \in 0..m, j \in 0..n : <<i, j>> \in G <=> Good(i, j)
  <2>1. \A i \in 0..m, j \in 0..n : <<i, j>> \in Grid(s, t) /\ <<i, j>>[1] = i /\ <<i, j>>[2] = j
    BY DEF Grid
  <2> HIDE DEF Good
  <2> QED
    BY <2>1
<1> HIDE DEF G
<1>2. Inductive(m, n, G)
  <2> SUFFICES ASSUME NEW i \in 0..m, NEW j \in 0..n,
                      \A k \in 0..m, l \in 0..n : k + l < i + j => <<k, l>> \in G
               PROVE  Good(i, j)
    BY <1>1 DEF Inductive
  <2>1. CellIs(s, t, d, i, j) /\ CellIs(t, s, e, j, i)
    BY DEF TableOf
  <2>2. CASE i = 0 \/ j = 0
    BY <2>1, <2>2 DEF CellIs
  <2>3. CASE i # 0 /\ j # 0
    <3>1. /\ Good(i - 1, j) /\ Good(i, j - 1) /\ Good(i - 1, j - 1)
          /\ SwappedAt(s, t, i, j) => Good(i - 2, j - 2)
      <4> HIDE DEF Good
      <4> QED
        BY <1>1, <2>3, BeforeIs DEF SwappedAt
    <3> DEFINE x == d[<<i, j>>]
               y == e[<<j, i>>]
               a == d[<<i - 1, j>>]
               b == d[<<i, j - 1>>]
               c == d[<<i - 1, j - 1>>]
               w == d[<<i - 2, j - 2>>]
               k == CostOf(s, t, i, j)
               S == SwappedAt(s, t, i, j)
    <3>2. CostOf(t, s, j, i) = k /\ (SwappedAt(t, s, j, i) <=> S) /\ k \in Nat
      BY DEF CostOf, SwappedAt
    <3>3. a \in Nat /\ b \in Nat /\ c \in Nat /\ (S => w \in Nat)
      <4>1. \A p \in 0..m, q \in 0..n : d[<<p, q>>] \in Nat
        BY TableLength
      <4> QED
        BY <2>3, <4>1, BeforeIs DEF SwappedAt
    <3>4. /\ x \in Nat /\ x <= a + 1 /\ x <= b + 1 /\ x <= c + k /\ (S => x <= w + k)
          /\ x = a + 1 \/ x = b + 1 \/ x = c + k \/ (S /\ x = w + k)
      BY <2>1, <2>3 DEF CellIs
    <3>5. /\ e[<<j, i - 1>>] = a /\ e[<<j - 1, i>>] = b /\ e[<<j - 1, i - 1>>] = c
          /\ S => e[<<j - 2, i - 2>>] = w
      BY <3>1
    <3>6. /\ y \in Nat /\ y <= e[<<j - 1, i>>] + 1 /\ y <= e[<<j, i - 1>>] + 1
          /\ y <= e[<<j - 1, i - 1>>] + k /\ (S => y <= e[<<j - 2, i - 2>>] + k)
          /\ y = e[<<j - 1, i>>] + 1 \/ y = e[<<j, i - 1>>] + 1 \/ y = e[<<j - 1, i - 1>>] + k
               \/ (S /\ y = e[<<j - 2, i - 2>>] + k)
      BY <2>1, <2>3, <3>2 DEF CellIs
    <3> HIDE DEF x, y, a, b, c, w, k, S
    <3>7. /\ y \in Nat /\ y <= a + 1 /\ y <= b + 1 /\ y <= c + k /\ (S => y <= w + k)
          /\ y = a + 1 \/ y = b + 1 \/ y = c + k \/ (S /\ y = w + k)
      BY <3>5, <3>6
    <3>8. x = y
      BY <3>2, <3>3, <3>4, <3>7
    <3> QED
      BY <3>8 DEF x, y
  <2> QED
    BY <2>2, <2>3
<1>3. \A i \in 0..m, j \in 0..n : <<i, j>> \in G
  BY <1>2, GridInduction
<1> QED
  BY <1>1, <1>3

AlikeBut(s, t, n, p) == \A k \in 1..n : k # p => s[k] = t[k]

\* Along the diagonal of two words that differ at most in one place.
LEMMA TableDiagonal ==
  ASSUME NEW s, NEW t, NEW n \in Nat, Len(s) = n, Len(t) = n, NEW d, TableOf(s, t, d),
         NEW p \in 1..(n + 1), AlikeBut(s, t, n, p)
  PROVE  \A i \in 0..n : d[<<i, i>>] <= IF i < p THEN 0 ELSE 1
<1> DEFINE Good(i) == d[<<i, i>>] <= IF i < p THEN 0 ELSE 1
           bad == {i \in 0..n : ~Good(i)}
<1> SUFFICES ASSUME bad # {} PROVE FALSE
  OBVIOUS
<1>1. PICK i \in bad : \A j \in bad : i <= j
  <2>1. bad \subseteq Nat
    OBVIOUS
  <2> HIDE DEF bad
  <2> QED
    BY <2>1, LeastOf
<1>2. i \in 0..n /\ ~Good(i)
  BY <1>1
<1>3. \A x \in 0..n : d[<<x, x>>] \in Nat
  BY TableLength
<1>4. CellIs(s, t, d, i, i)
  BY <1>2 DEF TableOf
<1>5. i # 0
  <2>1. i = 0 => d[<<i, i>>] = 0
    BY <1>4 DEF CellIs
  <2> QED
    BY <1>2, <2>1
<1>6. Good(i - 1)
  <2>1. i - 1 \in 0..n /\ ~(i <= i - 1)
    BY <1>2, <1>5
  <2> HIDE DEF Good
  <2> QED
    BY <1>1, <2>1
<1>7. d[<<i, i>>] <= d[<<i - 1, i - 1>>] + CostOf(s, t, i, i) /\ d[<<i, i>>] \in Nat /\ d[<<i - 1, i - 1>>] \in Nat
  <2>1. i - 1 \in 0..n
    BY <1>2, <1>5
  <2> QED
    BY <1>2, <1>3, <1>4, <1>5, <2>1 DEF CellIs
<1>8. CostOf(s, t, i, i) \in {0, 1} /\ (i # p => CostOf(s, t, i, i) = 0)
  BY <1>2, <1>5 DEF CostOf, AlikeBut
<1> QED
  BY <1>2, <1>6, <1>7, <1>8

\* The distance is a number, at least the difference in length, the same both
\* ways, and none only between a word and itself.
LEMMA DistanceIs ==
  ASSUME NEW C, NEW s \in Seq(C), NEW t \in Seq(C)
  PROVE  /\ Edits!Distance(s, t) \in Nat
         /\ Edits!Distance(s, t) >= Len(s) - Len(t) /\ Edits!Distance(s, t) >= Len(t) - Len(s)
         /\ Edits!Distance(s, t) = Edits!Distance(t, s)
         /\ Edits!Distance(s, t) = 0 => s = t
<1>1. Len(s) \in Nat /\ Len(t) \in Nat /\ Len(s) \in 0..Len(s) /\ Len(t) \in 0..Len(t)
  OBVIOUS
<1>2. PICK d : TableOf(s, t, d) /\ Edits!Distance(s, t) = d[<<Len(s), Len(t)>>]
  BY <1>1, DistanceHasTable
<1>3. PICK e : TableOf(t, s, e) /\ Edits!Distance(t, s) = e[<<Len(t), Len(s)>>]
  BY <1>1, DistanceHasTable
<1>4. /\ d[<<Len(s), Len(t)>>] \in Nat
      /\ d[<<Len(s), Len(t)>>] >= Len(s) - Len(t) /\ d[<<Len(s), Len(t)>>] >= Len(t) - Len(s)
  BY <1>1, <1>2, TableLength
<1>5. d[<<Len(s), Len(t)>>] = e[<<Len(t), Len(s)>>]
  BY <1>1, <1>2, <1>3, TableTurned
<1>6. d[<<Len(s), Len(t)>>] = 0 => Len(s) = Len(t) /\ \A k \in 1..Len(s) : s[k] = t[k]
  BY <1>1, <1>2, TableZero
<1>7. Len(s) = Len(t) /\ (\A k \in 1..Len(s) : s[k] = t[k]) => s = t
  OBVIOUS
<1> QED
  BY <1>2, <1>3, <1>4, <1>5, <1>6, <1>7

LEMMA SameWord ==
  ASSUME NEW C, NEW s \in Seq(C)
  PROVE  Edits!Distance(s, s) = 0
<1> DEFINE n == Len(s)
<1>1. n \in Nat /\ n + 1 \in 1..(n + 1) /\ n \in 0..n /\ n < n + 1
  OBVIOUS
<1>2. PICK d : TableOf(s, s, d) /\ Edits!Distance(s, s) = d[<<n, n>>]
  BY <1>1, DistanceHasTable
<1>3. \A i \in 0..n : d[<<i, i>>] <= IF i < n + 1 THEN 0 ELSE 1
  <2>1. AlikeBut(s, s, n, n + 1)
    BY DEF AlikeBut
  <2> QED
    BY <1>1, <1>2, <2>1, TableDiagonal
<1>4. d[<<n, n>>] <= 0
  BY <1>1, <1>3
<1> QED
  BY <1>2, <1>4, DistanceIs

LEMMA OnePlace ==
  ASSUME NEW C, NEW s \in Seq(C), NEW t \in Seq(C), Len(s) = Len(t),
         NEW p \in 1..Len(s), \A k \in 1..Len(s) : k # p => s[k] = t[k]
  PROVE  Edits!Distance(s, t) <= 1
<1> DEFINE n == Len(s)
<1>1. n \in Nat /\ p \in 1..(n + 1) /\ n \in 0..n /\ Len(t) = n /\ Len(s) = n
  OBVIOUS
<1>2. PICK d : TableOf(s, t, d) /\ Edits!Distance(s, t) = d[<<n, n>>]
  BY <1>1, DistanceHasTable
<1>3. AlikeBut(s, t, n, p)
  BY DEF AlikeBut
<1> HIDE DEF n
<1>4. \A i \in 0..n : d[<<i, i>>] <= IF i < p THEN 0 ELSE 1
  BY <1>1, <1>2, <1>3, TableDiagonal
<1>5. d[<<n, n>>] <= IF n < p THEN 0 ELSE 1
  BY <1>1, <1>4
<1>6. Edits!Distance(s, t) \in Nat
  BY DistanceIs
<1> QED
  BY <1>2, <1>5, <1>6

-----------------------------------------------------------------------------
(* The tree.                                                               *)

\* Node k is a root for words of this length, or lies as far from its parent as
\* w does.
LinkIn(tree, w, A, k) ==
  /\ tree[k].parent \in 0..(k - 1)
  /\ tree[k].parent = 0 => Len(tree[k].word) = Len(w)
  /\ tree[k].parent # 0 =>
       /\ tree[k].parent \in A
       /\ tree[k].at = Edits!Distance(w, tree[tree[k].parent].word)

\* The way from a root down to node n, every node of which lies as far from its
\* parent as w does.
PathTo(tree, w, n) ==
  \E A \in SUBSET (1..n) : n \in A /\ \A k \in A : LinkIn(tree, w, A, k)

Nodes(W) == [word : W, parent : Nat, at : Nat]
Grown(W, tree) == tree \in Seq(Nodes(W)) /\ \A n \in 1..Len(tree) : PathTo(tree, tree[n].word, n)
WordsOf(tree) == {tree[n].word : n \in 1..Len(tree)}

LEMMA LinkKept ==
  ASSUME NEW tree, NEW big, NEW w, NEW A, NEW B, A \subseteq B, \A k \in A : big[k] = tree[k],
         NEW k \in A, LinkIn(tree, w, A, k)
  PROVE  LinkIn(big, w, B, k)
<1> DEFINE p == tree[k].parent
<1>1. big[k] = tree[k] /\ p \in 0..(k - 1) /\ (p = 0 => Len(tree[k].word) = Len(w))
  BY DEF LinkIn
<1>2. ASSUME p # 0 PROVE p \in B /\ big[p] = tree[p] /\ tree[k].at = Edits!Distance(w, tree[p].word)
  BY <1>2 DEF LinkIn
<1>3. big[k].parent = p /\ big[k].word = tree[k].word /\ big[k].at = tree[k].at
  BY <1>1
<1> HIDE DEF p
<1> QED
  BY <1>1, <1>2, <1>3 DEF LinkIn

LEMMA PathKept ==
  ASSUME NEW W, NEW tree \in Seq(Nodes(W)), NEW x \in Nodes(W), NEW w, NEW n \in 1..Len(tree), PathTo(tree, w, n)
  PROVE  PathTo(Append(tree, x), w, n)
<1> DEFINE big == Append(tree, x)
<1>1. PICK A \in SUBSET (1..n) : n \in A /\ \A k \in A : LinkIn(tree, w, A, k)
  BY DEF PathTo
<1>2. \A k \in A : big[k] = tree[k]
  BY <1>1
<1> HIDE DEF big
<1>3. \A k \in A : LinkIn(big, w, A, k)
  BY <1>1, <1>2, LinkKept
<1>4. PathTo(big, w, n)
  BY <1>1, <1>3 DEF PathTo
<1> QED
  BY <1>4 DEF big

LEMMA PathBelow ==
  ASSUME NEW W, NEW tree \in Seq(Nodes(W)), NEW x \in Nodes(W), NEW w, NEW n \in 1..Len(tree), PathTo(tree, w, n),
         x.parent = n, x.at = Edits!Distance(w, tree[n].word)
  PROVE  PathTo(Append(tree, x), w, Len(tree) + 1)
<1> DEFINE big == Append(tree, x)
           l == Len(tree) + 1
<1>1. PICK A \in SUBSET (1..n) : n \in A /\ \A k \in A : LinkIn(tree, w, A, k)
  BY DEF PathTo
<1>2. (\A k \in A : big[k] = tree[k]) /\ big[l] = x /\ big[n] = tree[n]
  BY <1>1
<1> DEFINE B == A \cup {l}
<1>3. l \in B /\ A \subseteq B /\ n \in B
  BY <1>1
<1>4. n \in 0..(l - 1) /\ n # 0 /\ \A k \in 1..n : k \in 1..l
  OBVIOUS
<1>5. l \in 1..l
  OBVIOUS
<1>6. B \in SUBSET (1..l)
  <2> HIDE DEF l
  <2> QED
    BY <1>4, <1>5
<1> HIDE DEF big, l, B
<1>7. \A k \in A : LinkIn(big, w, B, k)
  BY <1>1, <1>2, <1>3, LinkKept
<1>8. LinkIn(big, w, B, l)
  BY <1>2, <1>3, <1>4 DEF LinkIn
<1>9. \A k \in B : k \in A \/ k = l
  BY DEF B
<1>10. PathTo(big, w, l)
  BY <1>3, <1>6, <1>7, <1>8, <1>9 DEF PathTo
<1> QED
  BY <1>10 DEF big, l

LEMMA PathAtRoot ==
  ASSUME NEW tree, NEW w, NEW n \in Nat, n # 0, tree[n].parent = 0, Len(tree[n].word) = Len(w)
  PROVE  PathTo(tree, w, n)
<1>1. {n} \in SUBSET (1..n) /\ n \in {n} /\ 0 \in 0..(n - 1)
  OBVIOUS
<1> QED
  BY <1>1 DEF PathTo, LinkIn

\* A node added at the end of its way keeps the tree grown.
LEMMA GrownAppend ==
  ASSUME NEW C, NEW W \in SUBSET Seq(C), NEW tree, Grown(W, tree), NEW x \in Nodes(W),
         \/ x.parent = 0
         \/ /\ x.parent \in 1..Len(tree) /\ PathTo(tree, x.word, x.parent)
            /\ x.at = Edits!Distance(x.word, tree[x.parent].word)
  PROVE  Grown(W, Append(tree, x)) /\ WordsOf(Append(tree, x)) = WordsOf(tree) \cup {x.word}
<1> DEFINE big == Append(tree, x)
           l == Len(tree) + 1
<1>1. /\ tree \in Seq(Nodes(W)) /\ Len(tree) \in Nat
      /\ big \in Seq(Nodes(W)) /\ Len(big) = l /\ big[l] = x /\ \A k \in 1..Len(tree) : big[k] = tree[k]
      /\ l \in Nat /\ l # 0 /\ l \in 1..l /\ \A k \in 1..l : k = l \/ k \in 1..Len(tree)
      /\ \A k \in 1..Len(tree) : k \in 1..l
  BY DEF Grown
<1>2. ASSUME NEW k \in 1..Len(tree) PROVE PathTo(big, big[k].word, k)
  <2>1. PathTo(tree, tree[k].word, k)
    BY DEF Grown
  <2>2. PathTo(big, tree[k].word, k)
    BY <1>1, <2>1, PathKept
  <2> HIDE DEF big
  <2> QED
    BY <1>1, <2>2
<1>3. PathTo(big, big[l].word, l)
  <2>1. CASE x.parent = 0
    <3> HIDE DEF big, l
    <3>1. big[l].parent = 0
      BY <1>1, <2>1
    <3> QED
      BY <1>1, <3>1, PathAtRoot
  <2>2. CASE x.parent # 0
    <3>1. x.parent \in 1..Len(tree) /\ PathTo(tree, x.word, x.parent) /\ x.at = Edits!Distance(x.word, tree[x.parent].word)
      BY <2>2
    <3>2. PathTo(big, x.word, l)
      BY <1>1, <3>1, PathBelow
    <3> HIDE DEF big, l
    <3> QED
      BY <1>1, <3>2
  <2> QED
    BY <2>1, <2>2
<1> HIDE DEF big, l
<1>4. Grown(W, big)
  BY <1>1, <1>2, <1>3 DEF Grown
<1>5. WordsOf(big) = WordsOf(tree) \cup {x.word}
  <2>1. \A w : w \in WordsOf(big) <=> w \in WordsOf(tree) \/ w = x.word
    BY <1>1 DEF WordsOf
  <2> QED
    BY <2>1
<1> QED
  BY <1>4, <1>5 DEF big

\* What becomes of a tree to which w is added below a node of its way.
Hung(tree, w, n) == Append(tree, Edits!Node(w, n, Edits!Distance(w, tree[n].word)))
Outcome(tree, w, r) ==
  \/ r = tree /\ w \in WordsOf(tree)
  \/ \E n \in 1..Len(tree) : r = Hung(tree, w, n) /\ PathTo(tree, w, n)

ChildrenAt(tree, w, n) == {m \in DOMAIN tree : tree[m].parent = n /\ tree[m].at = Edits!Distance(w, tree[n].word)}

LEMMA ChildIsOnPath ==
  ASSUME NEW tree, NEW w, NEW n, PathTo(tree, w, n), n # 0, NEW m \in Nat,
         tree[m].parent = n, tree[m].at = Edits!Distance(w, tree[n].word), n < m
  PROVE  PathTo(tree, w, m)
<1>1. PICK A \in SUBSET (1..n) : n \in A /\ \A k \in A : LinkIn(tree, w, A, k)
  BY DEF PathTo
<1> DEFINE B == A \cup {m}
<1>2. n \in 1..n /\ n \in Nat /\ A \subseteq B /\ m \in B /\ n \in B
  BY <1>1
<1>3. n \in 0..(m - 1) /\ m \in 1..m /\ \A k \in 1..n : k \in 1..m
  BY <1>2
<1>4. B \in SUBSET (1..m)
  BY <1>1, <1>3
<1> HIDE DEF B
<1>5. \A k \in A : LinkIn(tree, w, B, k)
  BY <1>1, <1>2, LinkKept
<1>6. LinkIn(tree, w, B, m)
  BY <1>2, <1>3 DEF LinkIn
<1>7. \A k \in B : k \in A \/ k = m
  BY DEF B
<1> QED
  BY <1>2, <1>4, <1>5, <1>6, <1>7 DEF PathTo

\* Where the walk from each node ends.
Walk(tree, w) ==
  CHOOSE f : f = [n \in DOMAIN tree |->
    LET d     == Edits!Distance(w, tree[n].word)
        child == {m \in DOMAIN tree : tree[m].parent = n /\ tree[m].at = d}
    IN  IF d = 0 THEN tree
        ELSE IF child # {} THEN f[CHOOSE m \in child : TRUE]
        ELSE Append(tree, Edits!Node(w, n, d))]

LEMMA GrownIs ==
  ASSUME NEW W, NEW tree, Grown(W, tree)
  PROVE  /\ tree \in Seq(Nodes(W)) /\ DOMAIN tree = 1..Len(tree) /\ Len(tree) \in Nat
         /\ \A n \in 1..Len(tree) : tree[n].word \in W /\ PathTo(tree, tree[n].word, n)
<1> DEFINE N == Nodes(W)
<1>1. tree \in Seq(N) /\ \A n \in 1..Len(tree) : PathTo(tree, tree[n].word, n)
  BY DEF Grown
<1>2. \A x \in N : x.word \in W
  BY DEF Nodes
<1> HIDE DEF N
<1>3. DOMAIN tree = 1..Len(tree) /\ Len(tree) \in Nat /\ \A n \in 1..Len(tree) : tree[n] \in N
  BY <1>1
<1> QED
  BY <1>1, <1>2, <1>3 DEF N

LEMMA WalkEnds ==
  ASSUME NEW C, NEW W \in SUBSET Seq(C), NEW tree, Grown(W, tree), NEW w \in W
  PROVE  \A n \in 1..Len(tree) : PathTo(tree, w, n) => Outcome(tree, w, Walk(tree, w)[n])
<1> DEFINE D == DOMAIN tree
           dist(n) == Edits!Distance(w, tree[n].word)
           kids(n) == ChildrenAt(tree, w, n)
           Cell(f, n) == IF dist(n) = 0 THEN tree
                         ELSE IF kids(n) # {} THEN f[CHOOSE m \in kids(n) : TRUE]
                         ELSE Hung(tree, w, n)
           Eq(f) == f = [n \in D |-> Cell(f, n)]
           it == CHOOSE f : Eq(f)
           Val == {tree} \cup {Hung(tree, w, n) : n \in D}
           rank == [n \in D |-> Len(tree) - n]
           H == [p \in D \X [D -> Val] |-> Cell(p[2], p[1])]
<1>1. /\ tree \in Seq(Nodes(W)) /\ D = 1..Len(tree) /\ Len(tree) \in Nat
      /\ \A n \in D : tree[n].word \in W /\ PathTo(tree, tree[n].word, n)
  BY GrownIs
<1>2. ASSUME NEW n \in D, NEW m \in kids(n)
      PROVE  m \in D /\ n < m /\ n \in Nat /\ m \in Nat /\ tree[m].parent = n /\ tree[m].at = dist(n)
  <2>1. m \in D /\ tree[m].parent = n /\ tree[m].at = dist(n)
    BY DEF ChildrenAt
  <2>2. PICK A \in SUBSET (1..m) : m \in A /\ \A k \in A : LinkIn(tree, tree[m].word, A, k)
    BY <1>1, <2>1 DEF PathTo
  <2>3. tree[m].parent \in 0..(m - 1)
    BY <2>2 DEF LinkIn
  <2> QED
    BY <1>1, <2>1, <2>3
<1>3. ASSUME NEW n \in D, kids(n) # {}
      PROVE  (CHOOSE m \in kids(n) : TRUE) \in kids(n)
  BY <1>3
<1> HIDE DEF kids, dist
<1>4. ASSUME NEW n \in D, NEW f, NEW g, \A y \in D : rank[y] < rank[n] => f[y] = g[y]
      PROVE  Cell(f, n) = Cell(g, n)
  <2>1. CASE kids(n) # {}
    <3> DEFINE m == CHOOSE m \in kids(n) : TRUE
    <3>1. m \in kids(n)
      BY <1>3, <2>1
    <3>2. m \in D /\ n < m /\ n \in Nat /\ m \in Nat
      BY <1>2, <3>1
    <3>3. rank[m] < rank[n]
      BY <1>1, <3>2
    <3>4. f[m] = g[m]
      BY <1>4, <3>2, <3>3
    <3> QED
      BY <2>1, <3>4
  <2>2. CASE kids(n) = {}
    BY <2>2
  <2> QED
    BY <2>1, <2>2
<1>5. ASSUME NEW n \in D, NEW f \in [D -> Val] PROVE Cell(f, n) \in Val
  <2>1. CASE kids(n) # {}
    <3> DEFINE m == CHOOSE m \in kids(n) : TRUE
    <3>1. m \in kids(n)
      BY <1>3, <2>1
    <3>2. m \in D
      BY <1>2, <3>1
    <3>3. f[m] \in Val
      BY <3>2
    <3> QED
      BY <2>1, <3>3
  <2>2. CASE kids(n) = {}
    BY <2>2
  <2> QED
    BY <2>1, <2>2
<1>6. ASSUME NEW n \in D, NEW f \in [D -> Val]
      PROVE  H[<<n, f>>] = Cell(f, n) /\ H[<<n, f>>] \in Val
  <2>1. <<n, f>> \in D \X [D -> Val] /\ <<n, f>>[1] = n /\ <<n, f>>[2] = f
    OBVIOUS
  <2>2. Cell(f, n) \in Val
    BY <1>5
  <2> HIDE DEF Cell, Val
  <2>3. H[<<n, f>>] = Cell(f, n)
    BY <2>1
  <2> QED
    BY <2>2, <2>3
<1> HIDE DEF Val
<1>7. PICK f \in [D -> Val] : \A n \in D : f[n] = H[<<n, f>>]
  <2> DEFINE top == Len(tree)
  <2>1. top \in Nat /\ rank \in [D -> 0..top]
    BY <1>1
  <2>2. Val # {}
    BY DEF Val
  <2>3. H \in [D \X [D -> Val] -> Val]
    <3>1. \A p \in D \X [D -> Val] : p = <<p[1], p[2]>> /\ p[1] \in D /\ p[2] \in [D -> Val]
      OBVIOUS
    <3>2. H = [p \in D \X [D -> Val] |-> H[p]]
      OBVIOUS
    <3> HIDE DEF H, D
    <3>3. \A p \in D \X [D -> Val] : H[p] \in Val
      BY <1>6, <3>1
    <3> QED
      BY <3>2, <3>3
  <2>4. LooksBelow(D, rank, Val, H)
    <3> SUFFICES ASSUME NEW n \in D, NEW f \in [D -> Val], NEW g \in [D -> Val],
                        \A y \in D : rank[y] < rank[n] => f[y] = g[y]
                 PROVE  H[<<n, f>>] = H[<<n, g>>]
      BY DEF LooksBelow
    <3> HIDE DEF Cell, H, D, rank
    <3>1. Cell(f, n) = Cell(g, n)
      BY <1>4
    <3> QED
      BY <1>6, <3>1
  <2> HIDE DEF H, D, rank, top
  <2>5. Recursion(D, top, rank, Val, H)
    BY <2>1, <2>2, <2>3, <2>4 DEF Recursion
  <2>6. \E f \in [D -> Val] : Solves(D, H, f)
    BY <2>5, RecursionExists
  <2> QED
    BY <2>6 DEF Solves
<1>8. Eq(f)
  <2> HIDE DEF Cell, H, D
  <2>1. \A n \in D : f[n] = Cell(f, n)
    BY <1>6, <1>7
  <2> QED
    BY <1>7, <2>1
<1>9. Eq(it)
  <2> HIDE DEF Eq
  <2> QED
    BY <1>8
<1> HIDE DEF it
<1>10. \A n \in D : it[n] = Cell(it, n)
  <2> HIDE DEF Cell, D
  <2> QED
    BY <1>9
<1> DEFINE G == {n \in D : PathTo(tree, w, n) => Outcome(tree, w, it[n])}
<1>11. Upward(D, rank, G)
  <2>1. \A n \in D : rank[n] \in Nat
    BY <1>1
  <2>2. ASSUME NEW n \in D, \A y \in D : rank[y] < rank[n] => y \in G, PathTo(tree, w, n)
        PROVE  Outcome(tree, w, it[n])
    <3>1. CASE dist(n) = 0
      <4>1. w = tree[n].word
        <5>1. w \in Seq(C) /\ tree[n].word \in Seq(C)
          BY <1>1
        <5> QED
          BY <3>1, <5>1, DistanceIs DEF dist
      <4>2. w \in WordsOf(tree)
        BY <1>1, <4>1 DEF WordsOf
      <4>3. it[n] = tree
        BY <1>10, <3>1
      <4> QED
        BY <4>2, <4>3 DEF Outcome
    <3>2. CASE dist(n) # 0 /\ kids(n) # {}
      <4> DEFINE m == CHOOSE m \in kids(n) : TRUE
      <4>1. m \in kids(n)
        BY <1>3, <3>2
      <4>2. it[n] = it[m]
        BY <1>10, <3>2
      <4> HIDE DEF m
      <4>3. m \in D /\ n < m /\ n \in Nat /\ m \in Nat /\ tree[m].parent = n /\ tree[m].at = dist(n)
        BY <1>2, <4>1
      <4>4. rank[m] < rank[n]
        BY <1>1, <4>3
      <4>5. n # 0
        BY <1>1
      <4>6. PathTo(tree, w, m)
        BY <2>2, <4>3, <4>5, ChildIsOnPath DEF dist
      <4>7. m \in G
        BY <2>2, <4>3, <4>4
      <4> QED
        BY <4>2, <4>6, <4>7
    <3>3. CASE dist(n) # 0 /\ kids(n) = {}
      <4>1. it[n] = Hung(tree, w, n)
        BY <1>10, <3>3
      <4> QED
        BY <1>1, <2>2, <4>1 DEF Outcome
    <3> QED
      BY <3>1, <3>2, <3>3
  <2> HIDE DEF rank, D
  <2> QED
    BY <2>1, <2>2 DEF Upward
<1>12. \A n \in D : n \in G
  <2> HIDE DEF G, rank, D
  <2> QED
    BY <1>11, RankInduction
<1>13. \A n \in 1..Len(tree) : PathTo(tree, w, n) => Outcome(tree, w, it[n])
  BY <1>1, <1>12
<1> QED
  BY <1>13 DEF it, Walk, Hung, kids, dist, ChildrenAt

\* Adding a word keeps the tree grown and adds the word.
LEMMA AddIs ==
  ASSUME NEW C, NEW W \in SUBSET Seq(C), NEW tree, Grown(W, tree), NEW w \in W
  PROVE  Grown(W, Edits!Add(tree, w)) /\ WordsOf(Edits!Add(tree, w)) = WordsOf(tree) \cup {w}
<1> DEFINE roots == Edits!Root(tree, w)
           r == Edits!Add(tree, w)
           B == Walk(tree, w)
<1>0. /\ tree \in Seq(Nodes(W)) /\ DOMAIN tree = 1..Len(tree) /\ Len(tree) \in Nat
      /\ \A n \in 1..Len(tree) : tree[n].word \in W
  BY GrownIs
<1>1. r = IF roots = {} THEN Append(tree, Edits!Node(w, 0, 0)) ELSE B[CHOOSE n \in roots : TRUE]
  BY DEF Edits!Add, Walk
<1>2. \A n \in 1..Len(tree) : PathTo(tree, w, n) => Outcome(tree, w, B[n])
  BY WalkEnds
<1> HIDE DEF B, r
<1>3. CASE roots = {}
  <2> DEFINE x == Edits!Node(w, 0, 0)
  <2>1. x \in Nodes(W) /\ x.parent = 0 /\ x.word = w
    BY DEF Edits!Node, Nodes
  <2>2. r = Append(tree, x)
    BY <1>1, <1>3
  <2> HIDE DEF x
  <2>3. Grown(W, Append(tree, x)) /\ WordsOf(Append(tree, x)) = WordsOf(tree) \cup {x.word}
    BY <2>1, GrownAppend
  <2> QED
    BY <2>1, <2>2, <2>3 DEF r
<1>4. CASE roots # {}
  <2> DEFINE n == CHOOSE n \in roots : TRUE
  <2>1. n \in 1..Len(tree) /\ tree[n].parent = 0 /\ Len(tree[n].word) = Len(w)
    <3>1. n \in roots
      BY <1>4
    <3> HIDE DEF n
    <3> QED
      BY <1>0, <3>1 DEF Edits!Root
  <2>2. r = B[n]
    BY <1>1, <1>4
  <2> HIDE DEF n
  <2>3. PathTo(tree, w, n)
    BY <2>1, PathAtRoot
  <2>4. Outcome(tree, w, r)
    BY <1>2, <2>1, <2>2, <2>3
  <2>5. CASE r = tree /\ w \in WordsOf(tree)
    <3>1. WordsOf(tree) = WordsOf(tree) \cup {w}
      BY <2>5
    <3> QED
      BY <2>5, <3>1 DEF r
  <2>6. ASSUME NEW k \in 1..Len(tree), r = Hung(tree, w, k), PathTo(tree, w, k)
        PROVE  Grown(W, r) /\ WordsOf(r) = WordsOf(tree) \cup {w}
    <3> DEFINE x == Edits!Node(w, k, Edits!Distance(w, tree[k].word))
    <3>1. Edits!Distance(w, tree[k].word) \in Nat
      <4>1. w \in Seq(C) /\ tree[k].word \in Seq(C)
        BY <1>0
      <4> QED
        BY <4>1, DistanceIs
    <3>2. x \in Nodes(W) /\ x.parent = k /\ x.word = w /\ x.at = Edits!Distance(w, tree[k].word)
      BY <3>1 DEF Edits!Node, Nodes
    <3>3. r = Append(tree, x)
      BY <2>6 DEF Hung
    <3> HIDE DEF x
    <3>4. x.parent \in 1..Len(tree) /\ PathTo(tree, x.word, x.parent) /\ x.at = Edits!Distance(x.word, tree[x.parent].word)
      BY <2>6, <3>2
    <3>5. Grown(W, Append(tree, x)) /\ WordsOf(Append(tree, x)) = WordsOf(tree) \cup {x.word}
      BY <3>2, <3>4, GrownAppend
    <3> QED
      BY <3>2, <3>3, <3>5
  <2> QED
    BY <2>4, <2>5, <2>6 DEF Outcome, r
<1> QED
  BY <1>3, <1>4

\* The words of a listing, added in their order.
LEMMA BuildIs ==
  ASSUME NEW C, NEW words \in Seq(Seq(C))
  PROVE  /\ Grown(Edits!ToSet(words), Edits!Build(words))
         /\ WordsOf(Edits!Build(words)) = Edits!ToSet(words)
<1> DEFINE S == DOMAIN words
           W == Edits!ToSet(words)
           Val == {t \in Seq(Nodes(W)) : Grown(W, t)}
           c == [s \in SUBSET S |-> Edits!Max(s)]
           h == [p \in S \X Val |-> Edits!Add(p[2], words[p[1]])]
           Eq(g) == g = [s \in SUBSET S |-> IF s = {} THEN <<>>
                                              ELSE LET x == Edits!Max(s) IN Edits!Add(g[s \ {x}], words[x])]
           it == CHOOSE g : Eq(g)
<1>1. Edits!Build(words) = it[S]
  BY DEF Edits!Build, Edits!FoldLeft, Edits!MapThenFoldSet
<1>2. /\ S = 1..Len(words) /\ Len(words) \in Nat /\ IsFiniteSet(S) /\ W \in SUBSET Seq(C)
      /\ \A i \in S : words[i] \in W
  <2>1. S = 1..Len(words) /\ Len(words) \in Nat /\ \A i \in S : words[i] \in Seq(C)
    OBVIOUS
  <2>2. IsFiniteSet(1..Len(words))
    BY <2>1, FS_Interval
  <2>3. W = {words[i] : i \in S}
    BY DEF Edits!ToSet
  <2> HIDE DEF W, S
  <2> QED
    BY <2>1, <2>2, <2>3
<1>3. W = {words[i] : i \in S}
  BY DEF Edits!ToSet
<1> HIDE DEF S, W
<1>4. ASSUME NEW s \in SUBSET S, s # {} PROVE c[s] \in s /\ c[s] = Edits!Max(s)
  <2>1. c[s] = Edits!Max(s)
    OBVIOUS
  <2>2. \E k \in s : \A m \in s : k >= m
    BY <1>2, <1>4, GreatestOf
  <2>3. Edits!Max(s) \in s
    BY <2>2 DEF Edits!Max
  <2> QED
    BY <2>1, <2>3
<1>5. ASSUME NEW x \in S, NEW t \in Val
      PROVE  h[<<x, t>>] = Edits!Add(t, words[x]) /\ h[<<x, t>>] \in Val
             /\ WordsOf(h[<<x, t>>]) = WordsOf(t) \cup {words[x]}
  <2>1. <<x, t>> \in S \X Val /\ <<x, t>>[1] = x /\ <<x, t>>[2] = t
    OBVIOUS
  <2>2. h[<<x, t>>] = Edits!Add(t, words[x])
    BY <2>1
  <2>3. words[x] \in W /\ Grown(W, t)
    BY <1>2
  <2> DEFINE r == Edits!Add(t, words[x])
  <2>4. Grown(W, r) /\ WordsOf(r) = WordsOf(t) \cup {words[x]}
    BY <1>2, <2>3, AddIs
  <2> HIDE DEF r
  <2>5. r \in Val
    BY <2>4 DEF Grown
  <2> HIDE DEF h
  <2>6. h[<<x, t>>] = r
    BY <2>2 DEF r
  <2> QED
    BY <2>2, <2>4, <2>5, <2>6
<1>6. <<>> \in Val /\ WordsOf(<<>>) = {}
  <2>1. <<>> \in Seq(Nodes(W)) /\ Len(<<>>) = 0 /\ 1..0 = {}
    OBVIOUS
  <2>2. Grown(W, <<>>)
    BY <2>1 DEF Grown
  <2>3. WordsOf(<<>>) = {}
    BY <2>1 DEF WordsOf
  <2> QED
    BY <2>1, <2>2, <2>3
<1> HIDE DEF Val, h
<1>7. PICK g \in [SUBSET S -> Val] : FoldOf(S, <<>>, c, h, g)
  <2>1. \A s \in SUBSET S : s # {} => c[s] \in s
    BY <1>4
  <2>2. \A x \in S, t \in Val : h[<<x, t>>] \in Val
    BY <1>5
  <2> HIDE DEF c
  <2>3. \E g \in [SUBSET S -> Val] : FoldOf(S, <<>>, c, h, g)
    BY <1>2, <1>6, <2>1, <2>2, FoldExists
  <2> QED
    BY <2>3
<1>8. Eq(g)
  <2>1. ASSUME NEW s \in SUBSET S
        PROVE g[s] = IF s = {} THEN <<>> ELSE LET x == Edits!Max(s) IN Edits!Add(g[s \ {x}], words[x])
    <3>1. CASE s = {}
      BY <1>7, <3>1 DEF FoldOf
    <3>2. CASE s # {}
      <4> DEFINE x == Edits!Max(s)
      <4>1. c[s] = x /\ x \in s
        BY <1>4, <3>2
      <4>2. g[s] = h[<<c[s], g[s \ {c[s]}]>>]
        BY <1>7, <3>2 DEF FoldOf
      <4> HIDE DEF x, c
      <4>3. x \in S /\ s \ {x} \in SUBSET S
        BY <4>1
      <4>4. g[s] = Edits!Add(g[s \ {x}], words[x])
        BY <1>5, <1>7, <4>1, <4>2, <4>3
      <4> QED
        BY <3>2, <4>4 DEF x
    <3> QED
      BY <3>1, <3>2
  <2> QED
    BY <1>7, <2>1
<1>9. Eq(it)
  <2> HIDE DEF Eq
  <2> QED
    BY <1>8
<1> HIDE DEF it
<1>10. ASSUME NEW s \in SUBSET S
       PROVE  /\ s = {} => it[s] = <<>>
              /\ s # {} => it[s] = Edits!Add(it[s \ {c[s]}], words[c[s]])
  <2>1. it[s] = IF s = {} THEN <<>> ELSE LET x == Edits!Max(s) IN Edits!Add(it[s \ {x}], words[x])
    BY <1>9
  <2>2. c[s] = Edits!Max(s)
    OBVIOUS
  <2> HIDE DEF c
  <2> QED
    BY <2>1, <2>2
<1> HIDE DEF Eq
<1> DEFINE Good(s) == it[s] \in Val /\ WordsOf(it[s]) = {words[i] : i \in s}
           bad == {s \in SUBSET S : ~Good(s)}
<1>11. bad = {}
  <2> SUFFICES ASSUME bad # {} PROVE FALSE
    OBVIOUS
  <2>1. PICK s \in bad : \A r \in bad : r \subseteq s => r = s
    <3>1. bad \subseteq SUBSET S
      OBVIOUS
    <3>2. IsFiniteSet(S) /\ bad # {}
      BY <1>2
    <3> HIDE DEF bad
    <3> QED
      BY <3>1, <3>2, SmallestPart
  <2>2. s \in SUBSET S /\ ~Good(s)
    BY <2>1
  <2>3. \A r \in SUBSET S : r \subseteq s /\ r # s => Good(r)
    BY <2>1
  <2>4. CASE s = {}
    <3>1. it[s] = <<>> /\ {words[i] : i \in s} = {}
      BY <1>10, <2>2, <2>4
    <3> QED
      BY <1>6, <2>2, <3>1
  <2>5. CASE s # {}
    <3> DEFINE x == c[s]
               r == s \ {x}
    <3>1. x \in s /\ x \in S /\ r \in SUBSET S /\ r # s /\ r \subseteq s
      BY <1>4, <2>2, <2>5
    <3>2. it[s] = Edits!Add(it[r], words[x])
      BY <1>10, <2>2, <2>5
    <3>3. Good(r)
      <4> HIDE DEF Good, r
      <4> QED
        BY <2>3, <3>1
    <3>4. {words[i] : i \in s} = {words[i] : i \in r} \cup {words[x]}
      BY <3>1
    <3> HIDE DEF x, r
    <3>5. it[s] \in Val /\ WordsOf(it[s]) = WordsOf(it[r]) \cup {words[x]}
      BY <1>5, <3>1, <3>2, <3>3
    <3> QED
      BY <2>2, <3>3, <3>4, <3>5
  <2> QED
    BY <2>4, <2>5
<1>12. Good(S)
  <2> HIDE DEF Good
  <2> QED
    BY <1>11
<1>13. Grown(W, it[S]) /\ WordsOf(it[S]) = W
  BY <1>3, <1>12 DEF Val
<1> QED
  BY <1>1, <1>13 DEF W

-----------------------------------------------------------------------------
(* The search.                                                             *)

Seen(tree, query, max) ==
  CHOOSE f : f = [n \in DOMAIN tree |->
    LET p == tree[n].parent
    IN  IF p = 0 THEN ~Edits!Distant(Len(query), Len(tree[n].word), max)
        ELSE f[p] /\ ~Edits!Distant(Edits!Distance(query, tree[p].word), tree[n].at, max)]

LEMMA SeenIs ==
  ASSUME NEW C, NEW W \in SUBSET Seq(C), NEW tree, Grown(W, tree), NEW query, NEW max
  PROVE  \A n \in 1..Len(tree) :
           Seen(tree, query, max)[n]
             <=> LET p == tree[n].parent
                 IN  IF p = 0 THEN ~Edits!Distant(Len(query), Len(tree[n].word), max)
                     ELSE Seen(tree, query, max)[p] /\ ~Edits!Distant(Edits!Distance(query, tree[p].word), tree[n].at, max)
<1> DEFINE D == DOMAIN tree
           up(n) == tree[n].parent
           first(n) == ~Edits!Distant(Len(query), Len(tree[n].word), max)
           next(n) == ~Edits!Distant(Edits!Distance(query, tree[up(n)].word), tree[n].at, max)
           Cell(f, n) == IF up(n) = 0 THEN first(n) ELSE f[up(n)] /\ next(n)
           Eq(f) == f = [n \in D |-> Cell(f, n)]
           it == CHOOSE f : Eq(f)
           Val == BOOLEAN
           rank == [n \in D |-> n]
           H == [p \in D \X [D -> Val] |-> Cell(p[2], p[1])]
<1>1. D = 1..Len(tree) /\ Len(tree) \in Nat
  BY GrownIs
<1>2. ASSUME NEW n \in D PROVE up(n) \in 0..(n - 1) /\ (up(n) # 0 => up(n) \in D /\ up(n) < n)
  <2>1. PICK A \in SUBSET (1..n) : n \in A /\ \A k \in A : LinkIn(tree, tree[n].word, A, k)
    BY <1>1, GrownIs DEF PathTo
  <2>2. up(n) \in 0..(n - 1)
    BY <2>1 DEF LinkIn
  <2> HIDE DEF up
  <2> QED
    BY <1>1, <2>2
<1>3. \A n \in D : first(n) \in BOOLEAN /\ next(n) \in BOOLEAN
  OBVIOUS
<1> HIDE DEF up, first, next
<1>4. ASSUME NEW n \in D, NEW f \in [D -> Val]
      PROVE  H[<<n, f>>] = Cell(f, n) /\ H[<<n, f>>] \in Val
  <2>1. <<n, f>> \in D \X [D -> Val] /\ <<n, f>>[1] = n /\ <<n, f>>[2] = f
    OBVIOUS
  <2>2. Cell(f, n) \in Val
    BY <1>2, <1>3
  <2> HIDE DEF Cell, Val
  <2>3. H[<<n, f>>] = Cell(f, n)
    BY <2>1
  <2> QED
    BY <2>2, <2>3
<1>5. PICK f \in [D -> Val] : \A n \in D : f[n] = H[<<n, f>>]
  <2> DEFINE top == Len(tree)
  <2>1. top \in Nat /\ rank \in [D -> 0..top]
    BY <1>1
  <2>2. Val # {}
    OBVIOUS
  <2> HIDE DEF Val
  <2>3. H \in [D \X [D -> Val] -> Val]
    <3>1. \A p \in D \X [D -> Val] : p = <<p[1], p[2]>> /\ p[1] \in D /\ p[2] \in [D -> Val]
      OBVIOUS
    <3>2. H = [p \in D \X [D -> Val] |-> H[p]]
      OBVIOUS
    <3> HIDE DEF H, D
    <3>3. \A p \in D \X [D -> Val] : H[p] \in Val
      BY <1>4, <3>1
    <3> QED
      BY <3>2, <3>3
  <2>4. LooksBelow(D, rank, Val, H)
    <3> SUFFICES ASSUME NEW n \in D, NEW f \in [D -> Val], NEW g \in [D -> Val],
                        \A y \in D : rank[y] < rank[n] => f[y] = g[y]
                 PROVE  H[<<n, f>>] = H[<<n, g>>]
      BY DEF LooksBelow
    <3>1. up(n) # 0 => f[up(n)] = g[up(n)]
      BY <1>2
    <3>2. Cell(f, n) = Cell(g, n)
      BY <3>1
    <3> HIDE DEF Cell, H, D, rank
    <3> QED
      BY <1>4, <3>2
  <2> HIDE DEF H, D, rank, top
  <2>5. Recursion(D, top, rank, Val, H)
    BY <2>1, <2>2, <2>3, <2>4 DEF Recursion
  <2>6. \E f \in [D -> Val] : Solves(D, H, f)
    BY <2>5, RecursionExists
  <2> QED
    BY <2>6 DEF Solves
<1>6. Eq(f)
  <2> HIDE DEF Cell, H, D
  <2>1. \A n \in D : f[n] = Cell(f, n)
    BY <1>4, <1>5
  <2> QED
    BY <1>5, <2>1
<1>7. Eq(it)
  <2> HIDE DEF Eq
  <2> QED
    BY <1>6
<1> HIDE DEF it
<1>8. \A n \in D : it[n] = Cell(it, n)
  <2> HIDE DEF Cell, D
  <2> QED
    BY <1>7
<1>9. it = Seen(tree, query, max)
  BY DEF it, Seen, up, first, next
<1>10. \A n \in 1..Len(tree) : it[n] <=> Cell(it, n)
  BY <1>1, <1>8
<1> QED
  BY <1>9, <1>10 DEF up, first, next

LEMMA SearchIs ==
  ASSUME NEW tree, NEW query, NEW max
  PROVE  Edits!Search(tree, query, max)
           = {tree[n].word : n \in {m \in DOMAIN tree :
                Seen(tree, query, max)[m] /\ Edits!Distance(query, tree[m].word) <= max}}
BY DEF Edits!Search, Seen

LEMMA DistantIs ==
  ASSUME NEW a \in Nat, NEW b \in Nat
  PROVE  Edits!Distant(a, b, 2) <=> a > b + 2 \/ b > a + 2
BY DEF Edits!Distant

\* A search reports words of the listing that are near, and every one of them
\* where the distance is a metric.
LEMMA SearchFinds ==
  ASSUME NEW C, NEW words \in Seq(Seq(C)), NEW query \in Seq(C)
  PROVE  LET found == Edits!Search(Edits!Build(words), query, 2)
             corpus == Edits!ToSet(words)
         IN  /\ \A w \in found : w \in corpus /\ Edits!Distance(query, w) <= 2
             /\ Edits!Metric(corpus \cup {query}) =>
                  \A w \in corpus : Edits!Distance(query, w) <= 2 => w \in found
<1> DEFINE tree == Edits!Build(words)
           corpus == Edits!ToSet(words)
           found == Edits!Search(tree, query, 2)
           seen == Seen(tree, query, 2)
           Dist(v, w) == Edits!Distance(v, w)
<1>1. Grown(corpus, tree) /\ WordsOf(tree) = corpus
  BY BuildIs
<1>2. corpus \in SUBSET Seq(C)
  <2>1. corpus = {words[i] : i \in DOMAIN words}
    BY DEF Edits!ToSet
  <2>2. \A i \in DOMAIN words : words[i] \in Seq(C)
    OBVIOUS
  <2> HIDE DEF corpus
  <2> QED
    BY <2>1, <2>2
<1>3. found = {tree[n].word : n \in {m \in DOMAIN tree : seen[m] /\ Dist(query, tree[m].word) <= 2}}
  BY SearchIs
<1> HIDE DEF tree, corpus, found, seen
<1>4. /\ DOMAIN tree = 1..Len(tree) /\ Len(tree) \in Nat
      /\ \A n \in 1..Len(tree) : tree[n].word \in corpus /\ PathTo(tree, tree[n].word, n)
  BY <1>1, GrownIs
<1>5. \A w \in found : w \in corpus /\ Dist(query, w) <= 2
  <2> HIDE DEF Dist
  <2> QED
    BY <1>3, <1>4
<1>6. ASSUME Edits!Metric(corpus \cup {query}), NEW w \in corpus, Dist(query, w) <= 2
      PROVE  w \in found
  <2>1. PICK m \in 1..Len(tree) : w = tree[m].word
    BY <1>1 DEF WordsOf
  <2>2. PICK A \in SUBSET (1..m) : m \in A /\ \A k \in A : LinkIn(tree, w, A, k)
    BY <1>4, <2>1 DEF PathTo
  <2>3. A \subseteq 1..Len(tree)
    BY <2>2
  <2> DEFINE rank == [k \in A |-> k]
             G == {k \in A : seen[k]}
  <2>4. Upward(A, rank, G)
    <3> SUFFICES ASSUME NEW k \in A, \A y \in A : rank[y] < rank[k] => y \in G PROVE seen[k]
      <4>1. \A k \in A : rank[k] \in Nat
        BY <2>3
      <4>2. \A k \in A : (k \in G) = seen[k] \/ ((k \in G) <=> seen[k])
        OBVIOUS
      <4> HIDE DEF rank
      <4> QED
        BY <4>1, <4>2 DEF Upward
    <3> DEFINE p == tree[k].parent
               q == tree[p].word
    <3>0. k \in 1..Len(tree) /\ k \in Nat
      BY <2>3
    <3>1. p \in 0..(k - 1) /\ (p = 0 => Len(tree[k].word) = Len(w))
      BY <2>2 DEF LinkIn
    <3>2. seen[k] <=> IF p = 0 THEN ~Edits!Distant(Len(query), Len(tree[k].word), 2)
                      ELSE seen[p] /\ ~Edits!Distant(Dist(query, q), tree[k].at, 2)
      BY <1>1, <1>2, <3>0, SeenIs DEF seen
    <3>3. /\ Dist(query, w) \in Nat /\ Dist(query, w) >= Len(query) - Len(w) /\ Dist(query, w) >= Len(w) - Len(query)
          /\ Dist(query, w) = Dist(w, query) /\ Len(w) \in Nat /\ Len(query) \in Nat
      <4>1. w \in Seq(C)
        BY <1>2
      <4> QED
        BY <4>1, DistanceIs
    <3>4. CASE p = 0
      <4>1. ~Edits!Distant(Len(query), Len(w), 2)
        BY <1>6, <3>3, DistantIs
      <4> QED
        BY <3>1, <3>2, <3>4, <4>1
    <3>5. CASE p # 0
      <4>1. p \in A /\ tree[k].at = Dist(w, q)
        BY <2>2, <3>5 DEF LinkIn
      <4>2. p < k /\ p \in 1..Len(tree)
        BY <2>3, <3>0, <3>1, <4>1
      <4>3. seen[p]
        BY <3>0, <3>1, <3>5, <4>1, <4>2
      <4>4. q \in corpus
        BY <1>4, <4>2
      <4> HIDE DEF p, q
      <4>5. Dist(query, q) \in Nat /\ Dist(w, q) \in Nat
        <5>1. q \in Seq(C) /\ w \in Seq(C)
          BY <1>2, <4>4
        <5> QED
          BY <5>1, DistanceIs
      <4>6. /\ Dist(query, q) <= Dist(query, w) + Dist(w, q)
            /\ Dist(w, q) <= Dist(w, query) + Dist(query, q)
        BY <1>6, <4>4 DEF Edits!Metric
      <4> HIDE DEF Dist
      <4>7. ~Edits!Distant(Dist(query, q), Dist(w, q), 2)
        BY <1>6, <3>3, <4>5, <4>6, DistantIs
      <4> QED
        BY <3>2, <3>5, <4>1, <4>3, <4>7
    <3> QED
      BY <3>4, <3>5
  <2>5. \A k \in A : k \in G
    <3> HIDE DEF rank, G
    <3> QED
      BY <2>4, RankInduction
  <2>6. seen[m] /\ m \in DOMAIN tree /\ Dist(query, tree[m].word) <= 2
    BY <1>4, <1>6, <2>1, <2>2, <2>5
  <2> HIDE DEF Dist
  <2> QED
    BY <1>3, <2>1, <2>6
<1>7. /\ \A w \in found : w \in corpus /\ Dist(query, w) <= 2
      /\ Edits!Metric(corpus \cup {query}) => \A w \in corpus : Dist(query, w) <= 2 => w \in found
  BY <1>5, <1>6
<1> QED
  BY <1>7 DEF found, corpus, tree

\* A search reports only near words, in whatever order the tree was built, and
\* all of them wherever the words and the query satisfy the triangle
\* inequality: for any listing of words (analyzers/typosquat/bktree.py).
THEOREM SearchIsExact ==
  ASSUME NEW C, NEW words \in Seq(Seq(C)), NEW query \in Seq(C)
  PROVE  Edits!SearchExact(words, query)
<1> DEFINE found == Edits!Search(Edits!Build(words), query, 2)
           corpus == Edits!ToSet(words)
           near == {w \in corpus : Edits!Distance(query, w) <= 2}
<1>1. /\ \A w \in found : w \in corpus /\ Edits!Distance(query, w) <= 2
      /\ Edits!Metric(corpus \cup {query}) =>
           \A w \in corpus : Edits!Distance(query, w) <= 2 => w \in found
  BY SearchFinds
<1>2. Edits!SearchExact(words, query) <=> found \subseteq near /\ (found = near \/ ~Edits!Metric(corpus \cup {query}))
  BY DEF Edits!SearchExact
<1> HIDE DEF found, corpus
<1> QED
  BY <1>1, <1>2

LEMMA SomeNearest ==
  ASSUME NEW C, NEW q \in Seq(C), NEW ws \in SUBSET Seq(C), ws # {}
  PROVE  Edits!Nearest(q, ws) \subseteq ws /\ Edits!Nearest(q, ws) # {}
<1> DEFINE all == {Edits!Distance(q, w) : w \in ws}
<1>1. all \subseteq Nat
  BY DistanceIs
<1>2. all # {} /\ \A w \in ws : Edits!Distance(q, w) \in all
  OBVIOUS
<1>3. PICK n \in all : \A m \in all : n <= m
  <2> HIDE DEF all
  <2> QED
    BY <1>1, <1>2, LeastOf
<1>4. PICK w \in ws : n = Edits!Distance(q, w)
  BY <1>3
<1>5. w \in Edits!Nearest(q, ws)
  BY <1>2, <1>3, <1>4 DEF Edits!Nearest
<1> QED
  BY <1>5 DEF Edits!Nearest

\* A name is cleared only if nothing of the corpus is near it, as written and
\* as read, and none consists of its parts; whatever is reported is a name of
\* the corpus: for any corpus and any name, wherever they satisfy the triangle
\* inequality (analyzers/typosquat/detector.py TyposquatDetector.analyze).
THEOREM VerdictIsExact ==
  ASSUME NEW C, "a" \in C, NEW words \in Seq(Seq(C)), NEW name \in Seq(C)
  PROVE  Edits!VerdictExact(words, name)
<1> DEFINE corpus == Edits!ToSet(words)
           tree == Edits!Build(words)
           norm == Edits!Normalized(name)
           Perm(w) == Edits!Permuted(Edits!Parts(name), Edits!Parts(w))
           permuted == {w \in corpus : Perm(w)}
           close == {w \in corpus : Edits!KeyboardProximity(name, w)}
           Near(q) == Edits!Search(tree, q, 2)
           v == Edits!Analyze(words, name)
           Close(w) == Edits!Distance(name, w) <= 2 \/ Edits!Distance(norm, w) <= 2 \/ Perm(w)
           metric == Edits!Metric(corpus \cup {name, norm})
<1>1. v = IF name \in corpus THEN Edits!Verdict("AUTHENTIC", {name})
          ELSE IF norm # name /\ norm \in corpus THEN Edits!Verdict("CRITICAL", {norm})
          ELSE IF norm # name /\ Near(norm) # {} THEN Edits!Verdict("CRITICAL", Edits!Nearest(norm, Near(norm)))
          ELSE IF permuted # {} THEN Edits!Verdict("SUSPICIOUS", permuted)
          ELSE IF close # {} THEN Edits!Verdict("HIGH", close)
          ELSE IF Near(name) # {} THEN Edits!Verdict("HIGH", Edits!Nearest(name, Near(name)))
          ELSE Edits!Verdict("AUTHENTIC", {})
  BY DEF Edits!Analyze
<1>2. Edits!VerdictExact(words, name)
        <=> /\ v.canon \subseteq corpus
            /\ v.tier # "AUTHENTIC" => v.canon # {} /\ \A w \in v.canon : Close(w)
            /\ v.tier = "AUTHENTIC" => name \in corpus \/ (\A w \in corpus : ~Close(w)) \/ ~metric
  BY DEF Edits!VerdictExact
<1>3. \A t, c : Edits!Verdict(t, c).tier = t /\ Edits!Verdict(t, c).canon = c
  BY DEF Edits!Verdict
<1>4. corpus \in SUBSET Seq(C)
  <2>1. corpus = {words[i] : i \in DOMAIN words}
    BY DEF Edits!ToSet
  <2>2. \A i \in DOMAIN words : words[i] \in Seq(C)
    OBVIOUS
  <2> HIDE DEF corpus
  <2> QED
    BY <2>1, <2>2
<1>5. norm \in Seq(C)
  <2>1. \A i \in DOMAIN name : norm[i] \in C
    BY DEF Edits!Normalized
  <2>2. norm = [i \in 1..Len(name) |-> norm[i]] /\ Len(name) \in Nat /\ \A i \in 1..Len(name) : i \in DOMAIN name
    BY DEF Edits!Normalized
  <2> HIDE DEF norm
  <2>3. norm \in [1..Len(name) -> C]
    BY <2>1, <2>2
  <2> QED
    BY <2>2, <2>3
<1>6. ASSUME NEW q \in {name, norm}
      PROVE  /\ \A w \in Near(q) : w \in corpus /\ Edits!Distance(q, w) <= 2
             /\ metric => \A w \in corpus : Edits!Distance(q, w) <= 2 => w \in Near(q)
             /\ Near(q) # {} => Edits!Nearest(q, Near(q)) \subseteq Near(q) /\ Edits!Nearest(q, Near(q)) # {}
  <2>1. q \in Seq(C)
    BY <1>5
  <2>2. /\ \A w \in Near(q) : w \in corpus /\ Edits!Distance(q, w) <= 2
        /\ Edits!Metric(corpus \cup {q}) =>
             \A w \in corpus : Edits!Distance(q, w) <= 2 => w \in Near(q)
    BY <2>1, SearchFinds
  <2>3. metric => Edits!Metric(corpus \cup {q})
    BY DEF Edits!Metric
  <2> HIDE DEF corpus, Near, norm, metric
  <2>4. Near(q) \in SUBSET Seq(C)
    BY <1>4, <2>2
  <2>5. Near(q) # {} => Edits!Nearest(q, Near(q)) \subseteq Near(q) /\ Edits!Nearest(q, Near(q)) # {}
    BY <2>1, <2>4, SomeNearest
  <2> QED
    BY <2>2, <2>3, <2>5
<1>7. ASSUME NEW w \in close PROVE w \in corpus /\ Edits!Distance(name, w) <= 2
  <2>1. w \in corpus /\ Edits!KeyboardProximity(name, w)
    OBVIOUS
  <2>2. w \in Seq(C) /\ Len(name) = Len(w) /\ DOMAIN name = 1..Len(name)
    BY <1>4, <2>1 DEF Edits!KeyboardProximity
  <2>3. PICK p \in 1..Len(name) : \A j \in 1..Len(name) : j # p => name[j] = w[j]
    BY <2>1, <2>2 DEF Edits!KeyboardProximity
  <2>4. Edits!Distance(name, w) <= 1
    BY <2>2, <2>3, OnePlace
  <2>5. Edits!Distance(name, w) \in Nat
    BY <2>2, DistanceIs
  <2> QED
    BY <2>1, <2>4, <2>5
<1>8. norm \in corpus => Edits!Distance(norm, norm) <= 2
  BY <1>5, SameWord
<1>9. \A w \in permuted : w \in corpus /\ Close(w)
  OBVIOUS
<1> HIDE DEF corpus, norm, permuted, close, Near, v, metric
<1>10. name \in {name, norm} /\ norm \in {name, norm}
  OBVIOUS
<1>11. CASE name \in corpus
  <2>1. v = Edits!Verdict("AUTHENTIC", {name})
    BY <1>1, <1>11
  <2>2. v.tier = "AUTHENTIC" /\ v.canon = {name}
    BY <1>3, <2>1
  <2> QED
    BY <1>2, <1>11, <2>2
<1>12. CASE name \notin corpus /\ norm # name /\ norm \in corpus
  <2>1. v = Edits!Verdict("CRITICAL", {norm})
    BY <1>1, <1>12
  <2>2. v.tier = "CRITICAL" /\ v.canon = {norm}
    BY <1>3, <2>1
  <2> QED
    BY <1>2, <1>8, <1>12, <2>2
<1>13. CASE name \notin corpus /\ norm # name /\ norm \notin corpus /\ Near(norm) # {}
  <2>1. v = Edits!Verdict("CRITICAL", Edits!Nearest(norm, Near(norm)))
    BY <1>1, <1>13
  <2>2. v.tier = "CRITICAL" /\ v.canon = Edits!Nearest(norm, Near(norm))
    BY <1>3, <2>1
  <2>3. v.canon # {} /\ \A w \in v.canon : w \in corpus /\ Edits!Distance(norm, w) <= 2
    BY <1>6, <1>10, <1>13, <2>2
  <2> QED
    BY <1>2, <2>2, <2>3
<1> DEFINE AsIs == norm = name \/ (norm \notin corpus /\ Near(norm) = {})
<1>14. CASE name \notin corpus /\ AsIs /\ permuted # {}
  <2>1. v = Edits!Verdict("SUSPICIOUS", permuted)
    BY <1>1, <1>14
  <2>2. v.tier = "SUSPICIOUS" /\ v.canon = permuted
    BY <1>3, <2>1
  <2>3. \A w \in v.canon : w \in corpus /\ Close(w)
    BY <1>9, <2>2
  <2> HIDE DEF Close
  <2> QED
    BY <1>2, <1>14, <2>2, <2>3
<1>15. CASE name \notin corpus /\ AsIs /\ permuted = {} /\ close # {}
  <2>1. v = Edits!Verdict("HIGH", close)
    BY <1>1, <1>15
  <2>2. v.tier = "HIGH" /\ v.canon = close
    BY <1>3, <2>1
  <2>3. \A w \in v.canon : w \in corpus /\ Close(w)
    BY <1>7, <2>2
  <2> HIDE DEF Close
  <2> QED
    BY <1>2, <1>15, <2>2, <2>3
<1>16. CASE name \notin corpus /\ AsIs /\ permuted = {} /\ close = {} /\ Near(name) # {}
  <2>1. v = Edits!Verdict("HIGH", Edits!Nearest(name, Near(name)))
    BY <1>1, <1>16
  <2>2. v.tier = "HIGH" /\ v.canon = Edits!Nearest(name, Near(name))
    BY <1>3, <2>1
  <2>3. v.canon # {} /\ \A w \in v.canon : w \in corpus /\ Edits!Distance(name, w) <= 2
    BY <1>6, <1>10, <1>16, <2>2
  <2> QED
    BY <1>2, <2>2, <2>3
<1>17. CASE name \notin corpus /\ AsIs /\ permuted = {} /\ close = {} /\ Near(name) = {}
  <2>1. v = Edits!Verdict("AUTHENTIC", {})
    BY <1>1, <1>17
  <2>2. v.tier = "AUTHENTIC" /\ v.canon = {}
    BY <1>3, <2>1
  <2>3. ASSUME metric, NEW w \in corpus PROVE ~Close(w)
    <3>1. ~(Edits!Distance(name, w) <= 2)
      BY <1>6, <1>10, <1>17, <2>3
    <3>2. ~(Edits!Distance(norm, w) <= 2)
      BY <1>6, <1>10, <1>17, <2>3
    <3>3. ~Perm(w)
      BY <1>17 DEF permuted
    <3> QED
      BY <3>1, <3>2, <3>3
  <2> HIDE DEF Close
  <2> QED
    BY <1>2, <2>2, <2>3
<1> QED
  BY <1>11, <1>12, <1>13, <1>14, <1>15, <1>16, <1>17

-----------------------------------------------------------------------------
(* Conflicting servers.                                                    *)

\* The tools, the names given up and the arguments of a server.
Configured(P, T, N) ==
  [package : P, tools : SUBSET T, disabled : SUBSET N, prefixed : SUBSET N, args : {"given", "absent", "none"}]

\* A configuration of servers with keys in K.
Setting(c, K, E) == K \subseteq Nat /\ c \in [root : {"mcpServers", "context_servers", "bare"}, servers : [K -> E]]

\* Two configurations whose servers declare the same.
DeclareAlike(c, d) ==
  /\ DOMAIN c.servers = DOMAIN d.servers
  /\ \A k \in DOMAIN c.servers : /\ c.servers[k].package = d.servers[k].package
                                 /\ c.servers[k].tools = d.servers[k].tools

ToolsNamed(c, ps, n) == {t \in UNION {Setups!Exposes(c, ps, k) : k \in DOMAIN c.servers} : t.name = n}
CollisionOf(c, ps, n) ==
  [tool      |-> n,
   servers   |-> Setups!Exposing(c, ps, n),
   identical |-> \E h \in {t.hash : t \in ToolsNamed(c, ps, n)} :
                   h # "" /\ {t.hash : t \in ToolsNamed(c, ps, n)} = {h},
   tier      |-> Setups!Tier(Setups!Max({t.risk : t \in ToolsNamed(c, ps, n)}))]
NamesIn(c, ps) == UNION {Setups!NamesOf(Setups!Exposes(c, ps, k)) : k \in DOMAIN c.servers}

LEMMA AuditIs ==
  ASSUME NEW c, NEW ps
  PROVE  Setups!AuditClientConfig(c, ps)
           = {CollisionOf(c, ps, n) : n \in {m \in NamesIn(c, ps) : Cardinality(Setups!Exposing(c, ps, m)) > 1}}
BY Zenon DEF Setups!AuditClientConfig, CollisionOf, NamesIn, ToolsNamed, Setups!Cardinality, Cardinality,
   Setups!IsFiniteSet, IsFiniteSet

LEMMA ExposeAlike ==
  ASSUME NEW c, NEW d, DeclareAlike(c, d), NEW ps
  PROVE  /\ \A k \in DOMAIN c.servers : Setups!Exposes(c, ps, k) = Setups!Exposes(d, ps, k)
         /\ \A n : Setups!Exposing(c, ps, n) = Setups!Exposing(d, ps, n)
         /\ \A n : ToolsNamed(c, ps, n) = ToolsNamed(d, ps, n)
         /\ NamesIn(c, ps) = NamesIn(d, ps)
<1>1. \A k \in DOMAIN c.servers : Setups!Exposes(c, ps, k) = Setups!Exposes(d, ps, k)
  BY Zenon DEF DeclareAlike, Setups!Exposes, Setups!Tools
<1>2. DOMAIN c.servers = DOMAIN d.servers
  BY DEF DeclareAlike
<1>3. ASSUME NEW n PROVE Setups!Exposing(c, ps, n) = Setups!Exposing(d, ps, n)
  <2>1. \A k : k \in Setups!Exposing(c, ps, n)
                 <=> k \in DOMAIN c.servers /\ n \in Setups!NamesOf(Setups!Exposes(c, ps, k))
    BY Zenon DEF Setups!Exposing
  <2>2. \A k : k \in Setups!Exposing(d, ps, n)
                 <=> k \in DOMAIN d.servers /\ n \in Setups!NamesOf(Setups!Exposes(d, ps, k))
    BY Zenon DEF Setups!Exposing
  <2>3. \A k : k \in Setups!Exposing(c, ps, n) <=> k \in Setups!Exposing(d, ps, n)
    BY Zenon, <1>1, <1>2, <2>1, <2>2
  <2> QED
    BY <2>3
<1>4. {Setups!Exposes(c, ps, k) : k \in DOMAIN c.servers} = {Setups!Exposes(d, ps, k) : k \in DOMAIN d.servers}
  <2>1. \A x : x \in {Setups!Exposes(c, ps, k) : k \in DOMAIN c.servers}
                 <=> x \in {Setups!Exposes(d, ps, k) : k \in DOMAIN d.servers}
    BY Zenon, <1>1, <1>2
  <2> QED
    BY Zenon, <2>1
<1>5. \A n : ToolsNamed(c, ps, n) = ToolsNamed(d, ps, n)
  BY Zenon, <1>4 DEF ToolsNamed
<1>6. NamesIn(c, ps) = NamesIn(d, ps)
  <2>1. {Setups!NamesOf(Setups!Exposes(c, ps, k)) : k \in DOMAIN c.servers}
          = {Setups!NamesOf(Setups!Exposes(d, ps, k)) : k \in DOMAIN d.servers}
    <3>1. \A x : x \in {Setups!NamesOf(Setups!Exposes(c, ps, k)) : k \in DOMAIN c.servers}
                   <=> x \in {Setups!NamesOf(Setups!Exposes(d, ps, k)) : k \in DOMAIN d.servers}
      BY Zenon, <1>1, <1>2
    <3> QED
      BY Zenon, <3>1
  <2> QED
    BY Zenon, <2>1 DEF NamesIn
<1> QED
  BY <1>1, <1>3, <1>5, <1>6

LEMMA AuditAlike ==
  ASSUME NEW c, NEW d, DeclareAlike(c, d), NEW ps
  PROVE  Setups!AuditClientConfig(c, ps) = Setups!AuditClientConfig(d, ps)
<1>1. ASSUME NEW n PROVE CollisionOf(c, ps, n) = CollisionOf(d, ps, n)
  <2>1. /\ Setups!Exposing(c, ps, n) = Setups!Exposing(d, ps, n)
        /\ ToolsNamed(c, ps, n) = ToolsNamed(d, ps, n)
    BY ExposeAlike
  <2> QED
    BY Zenon, <2>1 DEF CollisionOf
<1>2. {m \in NamesIn(c, ps) : Cardinality(Setups!Exposing(c, ps, m)) > 1}
        = {m \in NamesIn(d, ps) : Cardinality(Setups!Exposing(d, ps, m)) > 1}
  <2>1. NamesIn(c, ps) = NamesIn(d, ps) /\ \A m : Setups!Exposing(c, ps, m) = Setups!Exposing(d, ps, m)
    BY ExposeAlike
  <2>2. \A m : m \in {x \in NamesIn(c, ps) : Cardinality(Setups!Exposing(c, ps, x)) > 1}
               <=> m \in {x \in NamesIn(d, ps) : Cardinality(Setups!Exposing(d, ps, x)) > 1}
    BY Zenon, <2>1
  <2> QED
    BY Zenon, <2>2
<1> QED
  BY Zenon, <1>1, <1>2, AuditIs

\* What a collision takes from, or adds to, the server of a key.
Told(found, k) == {x.tool : x \in {y \in found : k \in y.servers}}
LostBy(found, k) == {x.tool : x \in {y \in found : k \in y.servers \ {Setups!Min(y.servers)}}}
Prefixing(s, names) ==
  IF names = {} THEN s
    ELSE [s EXCEPT !.prefixed = @ \cup names, !.args = IF @ = "absent" THEN "given" ELSE @]
Ranking(s, names) == [s EXCEPT !.disabled = @ \cup names]

\* What each strategy writes into a layout that it does not leave alone.
PrefixedBy(c, found) == [k \in DOMAIN c.servers |-> Prefixing(c.servers[k], Told(found, k))]
RankedBy(c, found) == [k \in DOMAIN c.servers |-> Ranking(c.servers[k], LostBy(found, k))]

LEMMA ResolveIs ==
  ASSUME NEW c, NEW ps, c.root # "bare"
  PROVE  /\ Setups!ResolveClientConfig(c, ps, "prefix")
              = [c EXCEPT !.servers = PrefixedBy(c, Setups!AuditClientConfig(c, ps))]
         /\ Setups!ResolveClientConfig(c, ps, "priority")
              = [c EXCEPT !.servers = RankedBy(c, Setups!AuditClientConfig(c, ps))]
<1>1. "prefix" # "report" /\ "priority" # "report" /\ "prefix" # "priority"
  OBVIOUS
<1>2. Setups!ResolveClientConfig(c, ps, "prefix")
        = [c EXCEPT !.servers = PrefixedBy(c, Setups!AuditClientConfig(c, ps))]
  BY <1>1 DEF Setups!ResolveClientConfig, PrefixedBy, Prefixing, Told
<1>3. Setups!ResolveClientConfig(c, ps, "priority")
        = [c EXCEPT !.servers = RankedBy(c, Setups!AuditClientConfig(c, ps))]
  BY <1>1 DEF Setups!ResolveClientConfig, RankedBy, Ranking, LostBy
<1> QED
  BY <1>2, <1>3

LEMMA BareIsLeft ==
  ASSUME NEW c, NEW ps, NEW s, c.root = "bare"
  PROVE  Setups!ResolveClientConfig(c, ps, s) = c
BY DEF Setups!ResolveClientConfig

\* One server, rewritten and rewritten again.
LEMMA RewriteOnce ==
  ASSUME NEW P, NEW T, NEW N, NEW s \in Configured(P, T, N), NEW names
  PROVE  /\ Prefixing(s, names).package = s.package /\ Prefixing(s, names).tools = s.tools
         /\ Prefixing(Prefixing(s, names), names) = Prefixing(s, names)
         /\ Ranking(s, names).package = s.package /\ Ranking(s, names).tools = s.tools
         /\ Ranking(s, names).disabled = s.disabled \cup names
         /\ Ranking(Ranking(s, names), names) = Ranking(s, names)
<1> USE DEF Configured
<1>1. CASE names = {}
  <2>1. Prefixing(s, names) = s
    BY <1>1 DEF Prefixing
  <2>2. s.disabled \cup names = s.disabled
    BY <1>1
  <2>3. Ranking(s, names) = s
    BY <2>2 DEF Ranking
  <2> QED
    BY <2>1, <2>2, <2>3
<1>2. CASE names # {}
  <2> DEFINE p == [package |-> s.package, tools |-> s.tools, disabled |-> s.disabled,
                   prefixed |-> s.prefixed \cup names,
                   args |-> IF s.args = "absent" THEN "given" ELSE s.args]
             r == [package |-> s.package, tools |-> s.tools, disabled |-> s.disabled \cup names,
                   prefixed |-> s.prefixed, args |-> s.args]
  <2>1. Prefixing(s, names) = p
    BY <1>2 DEF Prefixing
  <2>2. Ranking(s, names) = r
    BY DEF Ranking
  <2>3. Prefixing(p, names) = p
    <3>1. (s.prefixed \cup names) \cup names = s.prefixed \cup names
      OBVIOUS
    <3> QED
      BY <1>2, <3>1 DEF Prefixing
  <2>4. Ranking(r, names) = r
    <3>1. (s.disabled \cup names) \cup names = s.disabled \cup names
      OBVIOUS
    <3> QED
      BY <3>1 DEF Ranking
  <2> QED
    BY <2>1, <2>2, <2>3, <2>4
<1> QED
  BY <1>1, <1>2

\* What a resolution leaves of a configuration.
LEMMA ResolvedIs ==
  ASSUME NEW c, NEW K, NEW P, NEW T, NEW N, Setting(c, K, Configured(P, T, N)), NEW ps, NEW s \in {"prefix", "priority"},
         c.root # "bare"
  PROVE  LET once  == Setups!ResolveClientConfig(c, ps, s)
             found == Setups!AuditClientConfig(c, ps)
         IN  /\ once = [root |-> c.root, servers |-> IF s = "prefix" THEN PrefixedBy(c, found) ELSE RankedBy(c, found)]
             /\ DeclareAlike(c, once)
<1> DEFINE once == Setups!ResolveClientConfig(c, ps, s)
           found == Setups!AuditClientConfig(c, ps)
           all == IF s = "prefix" THEN PrefixedBy(c, found) ELSE RankedBy(c, found)
<1>1. c.servers \in [K -> Configured(P, T, N)] /\ c = [root |-> c.root, servers |-> c.servers]
  BY DEF Setting
<1>2. once = [c EXCEPT !.servers = all]
  BY ResolveIs
<1> HIDE DEF all
<1>3. once = [root |-> c.root, servers |-> all]
  BY <1>1, <1>2
<1>4. DOMAIN all = DOMAIN c.servers
  BY DEF all, PrefixedBy, RankedBy
<1>5. ASSUME NEW k \in DOMAIN c.servers
      PROVE  all[k].package = c.servers[k].package /\ all[k].tools = c.servers[k].tools
  <2>1. c.servers[k] \in Configured(P, T, N)
    BY <1>1
  <2>2. all[k] = IF s = "prefix" THEN Prefixing(c.servers[k], Told(found, k))
                               ELSE Ranking(c.servers[k], LostBy(found, k))
    BY DEF all, PrefixedBy, RankedBy
  <2> HIDE DEF found
  <2> QED
    BY <2>1, <2>2, RewriteOnce
<1>6. once.servers = all
  BY <1>3
<1>7. DeclareAlike(c, once)
  BY <1>4, <1>5, <1>6 DEF DeclareAlike
<1> QED
  BY <1>3, <1>7 DEF all

\* A second resolution changes nothing, whichever strategy came first, and the
\* same collisions are told (audit/conflict_resolver.py, conflict_detector.py).
THEOREM ResolvesOnceFor ==
  ASSUME NEW c, NEW K, NEW P, NEW T, NEW N, Setting(c, K, Configured(P, T, N)), NEW ps
  PROVE  Setups!ResolvesOnce(c, ps)
<1> SUFFICES ASSUME NEW s \in {"prefix", "priority"}
             PROVE  LET once == Setups!ResolveClientConfig(c, ps, s)
                    IN  /\ Setups!ResolveClientConfig(once, ps, s) = once
                        /\ Setups!AuditClientConfig(once, ps) = Setups!AuditClientConfig(c, ps)
  BY DEF Setups!ResolvesOnce
<1>1. CASE c.root = "bare"
  BY <1>1, BareIsLeft
<1>2. CASE c.root # "bare"
  <2> DEFINE once  == Setups!ResolveClientConfig(c, ps, s)
             found == Setups!AuditClientConfig(c, ps)
             all   == IF s = "prefix" THEN PrefixedBy(c, found) ELSE RankedBy(c, found)
  <2>1. once = [root |-> c.root, servers |-> all] /\ DeclareAlike(c, once)
    BY <1>2, ResolvedIs
  <2>2. Setups!AuditClientConfig(once, ps) = found
    BY <2>1, AuditAlike
  <2>3. once.root # "bare" /\ once.servers = all
    BY <1>2, <2>1
  <2>4. s = "prefix" => PrefixedBy(once, found) = all
    <3> SUFFICES ASSUME s = "prefix" PROVE PrefixedBy(once, found) = all
      OBVIOUS
    <3>1. all = [k \in DOMAIN c.servers |-> Prefixing(c.servers[k], Told(found, k))]
      BY DEF PrefixedBy
    <3>2. \A k \in DOMAIN c.servers : c.servers[k] \in Configured(P, T, N)
      BY DEF Setting
    <3> HIDE DEF all, found
    <3>3. \A k \in DOMAIN c.servers : Prefixing(all[k], Told(found, k)) = all[k]
      BY <3>1, <3>2, RewriteOnce
    <3>4. PrefixedBy(once, found) = [k \in DOMAIN c.servers |-> Prefixing(all[k], Told(found, k))]
      BY <2>3, <3>1 DEF PrefixedBy
    <3> QED
      BY <3>1, <3>3, <3>4
  <2>5. s = "priority" => RankedBy(once, found) = all
    <3> SUFFICES ASSUME s = "priority" PROVE RankedBy(once, found) = all
      OBVIOUS
    <3>1. all = [k \in DOMAIN c.servers |-> Ranking(c.servers[k], LostBy(found, k))]
      BY DEF RankedBy
    <3>2. \A k \in DOMAIN c.servers : c.servers[k] \in Configured(P, T, N)
      BY DEF Setting
    <3> HIDE DEF all, found
    <3>3. \A k \in DOMAIN c.servers : Ranking(all[k], LostBy(found, k)) = all[k]
      BY <3>1, <3>2, RewriteOnce
    <3>4. RankedBy(once, found) = [k \in DOMAIN c.servers |-> Ranking(all[k], LostBy(found, k))]
      BY <2>3, <3>1 DEF RankedBy
    <3> QED
      BY <3>1, <3>3, <3>4
  <2> HIDE DEF all, found, once
  <2>6. [once EXCEPT !.servers = all] = once
    BY <2>1
  <2>7. Setups!ResolveClientConfig(once, ps, s) = once
    BY <2>2, <2>3, <2>4, <2>5, <2>6, ResolveIs
  <2> QED
    BY <2>2, <2>7 DEF once, found
<1> QED
  BY <1>1, <1>2

LEMMA FirstKey ==
  ASSUME NEW N, N \subseteq Nat, N # {}
  PROVE  Setups!Min(N) \in N
<1>1. \E n \in N : \A m \in N : n <= m
  BY LeastOf
<1> QED
  BY <1>1 DEF Setups!Min

\* Of the servers with the same tool only the one of the first key offers it
\* after a resolution by priority, and it still does if it did
\* (audit/conflict_resolver.py).
THEOREM PriorityLeavesOneFor ==
  ASSUME NEW c, NEW K, NEW P, NEW T, NEW N, Setting(c, K, Configured(P, T, N)), NEW ps
  PROVE  Setups!PriorityLeavesOne(c, ps)
<1> DEFINE after == Setups!ResolveClientConfig(c, ps, "priority")
           found == Setups!AuditClientConfig(c, ps)
<1> SUFFICES ASSUME c.root # "bare", NEW x \in found
             PROVE  LET keeper == Setups!Min(x.servers)
                    IN  /\ Setups!Offering(after, ps, x.tool) \subseteq {keeper}
                        /\ keeper \in Setups!Offering(c, ps, x.tool)
                             => Setups!Offering(after, ps, x.tool) = {keeper}
  BY DEF Setups!PriorityLeavesOne
<1> DEFINE n == x.tool
           keeper == Setups!Min(x.servers)
<1>1. after = [root |-> c.root, servers |-> RankedBy(c, found)] /\ DeclareAlike(c, after)
  BY ResolvedIs
<1>2. \A y \in found : y.servers = Setups!Exposing(c, ps, y.tool) /\ Cardinality(y.servers) > 1
  <2> SUFFICES ASSUME NEW y \in found
               PROVE  y.servers = Setups!Exposing(c, ps, y.tool) /\ Cardinality(y.servers) > 1
    OBVIOUS
  <2>1. PICK m \in NamesIn(c, ps) : y = CollisionOf(c, ps, m) /\ Cardinality(Setups!Exposing(c, ps, m)) > 1
    BY AuditIs
  <2>2. y.tool = m /\ y.servers = Setups!Exposing(c, ps, m)
    BY <2>1 DEF CollisionOf
  <2> QED
    BY <2>1, <2>2
<1>3. keeper \in x.servers
  <2>1. x.servers \subseteq DOMAIN c.servers
    BY <1>2 DEF Setups!Exposing
  <2>2. DOMAIN c.servers \subseteq Nat
    BY DEF Setting
  <2>3. x.servers # {}
    BY <1>2, FS_EmptySet
  <2> QED
    BY <2>1, <2>2, <2>3, FirstKey
<1>4. \A k \in DOMAIN c.servers : after.servers[k].disabled = c.servers[k].disabled \cup LostBy(found, k)
  <2> SUFFICES ASSUME NEW k \in DOMAIN c.servers
               PROVE  after.servers[k].disabled = c.servers[k].disabled \cup LostBy(found, k)
    OBVIOUS
  <2>1. c.servers[k] \in Configured(P, T, N)
    BY DEF Setting
  <2>2. after.servers[k] = Ranking(c.servers[k], LostBy(found, k))
    BY <1>1 DEF RankedBy
  <2> HIDE DEF found, after
  <2> QED
    BY <2>1, <2>2, RewriteOnce
<1>5. Setups!Exposing(after, ps, n) = x.servers /\ Setups!Exposing(c, ps, n) = x.servers
  <2>1. Setups!Exposing(c, ps, n) = Setups!Exposing(after, ps, n)
    BY <1>1, ExposeAlike
  <2> QED
    BY <1>2, <2>1
<1>6. \A k \in x.servers : k \in DOMAIN c.servers
  BY <1>2 DEF Setups!Exposing
<1> HIDE DEF after, found
<1>7. \A k \in x.servers : k # keeper => n \in LostBy(found, k)
  BY DEF LostBy
<1>8. n \notin LostBy(found, keeper)
  BY <1>2 DEF LostBy
<1>9. Setups!Offering(after, ps, n) = {k \in x.servers : n \notin after.servers[k].disabled}
  BY <1>5 DEF Setups!Offering
<1>10. Setups!Offering(c, ps, n) = {k \in x.servers : n \notin c.servers[k].disabled}
  BY <1>5 DEF Setups!Offering
<1> HIDE DEF n, keeper
<1>11. Setups!Offering(after, ps, n) \subseteq {keeper}
  BY <1>4, <1>6, <1>7, <1>9
<1>12. ASSUME keeper \in Setups!Offering(c, ps, n)
       PROVE  Setups!Offering(after, ps, n) = {keeper}
  <2>1. keeper \in x.servers /\ n \notin c.servers[keeper].disabled
    BY <1>10, <1>12
  <2>2. n \notin after.servers[keeper].disabled
    BY <1>4, <1>6, <1>8, <2>1
  <2>3. keeper \in Setups!Offering(after, ps, n)
    BY <1>9, <2>1, <2>2
  <2> QED
    BY <1>11, <2>3
<1> QED
  BY <1>11, <1>12 DEF n, keeper

-----------------------------------------------------------------------------
(* A file that receives a server.                                          *)

ReadFrom(es) ==
  [n \in {es[i][1] : i \in DOMAIN es} |-> es[Setups!Max({i \in DOMAIN es : es[i][1] = n})][2]]
Hits(document, key) == {i \in DOMAIN document : document[i].key = key}
Live(document, key) == {i \in DOMAIN document : document[i].key = key /\ ~document[i].comment}
EntriesOf(document, key) ==
  IF Live(document, key) = {} THEN <<>> ELSE document[Setups!Max(Live(document, key))].entries

\* No two sections that are not comments have the same key.
OneOfEach(document) ==
  \A i, j \in DOMAIN document :
    document[i].key = document[j].key /\ ~document[i].comment /\ ~document[j].comment => i = j

LEMMA FileReadIs ==
  ASSUME NEW document, NEW key
  PROVE  Setups!Read(document, key) = ReadFrom(EntriesOf(document, key))
BY Zenon DEF Setups!Read, ReadFrom, EntriesOf, Live

LEMMA MemberIs ==
  ASSUME NEW S, NEW s \in Seq(S), NEW i \in DOMAIN s
  PROVE  s[i] \in S
OBVIOUS

LEMMA MaxIs ==
  ASSUME NEW S, S \subseteq Nat, NEW m \in S, \A k \in S : m >= k
  PROVE  Setups!Max(S) = m
<1>1. Setups!Max(S) \in S /\ \A k \in S : Setups!Max(S) >= k
  BY DEF Setups!Max
<1>2. m >= Setups!Max(S) /\ Setups!Max(S) >= m /\ Setups!Max(S) \in Nat /\ m \in Nat
  BY <1>1
<1> QED
  BY <1>2

\* The entry that a name is read from.
LEMMA LastIs ==
  ASSUME NEW E, NEW es \in Seq(E), NEW n \in {es[i][1] : i \in DOMAIN es}
  PROVE  \E m \in 1..Len(es) :
           /\ es[m][1] = n /\ ReadFrom(es)[n] = es[m][2]
           /\ \A k \in 1..Len(es) : es[k][1] = n => m >= k
<1> DEFINE S == {i \in 1..Len(es) : es[i][1] = n}
<1>1. DOMAIN es = 1..Len(es)
  OBVIOUS
<1>2. S # {} /\ S \subseteq 1..Len(es) /\ Len(es) \in Nat
  BY <1>1
<1>3. PICK m \in S : \A k \in S : m >= k
  BY <1>2, GreatestOf
<1>4. S \subseteq Nat
  BY <1>2
<1>5. Setups!Max(S) = m
  <2> HIDE DEF S
  <2> QED
    BY <1>3, <1>4, MaxIs
<1>6. ReadFrom(es)[n] = es[Setups!Max(S)][2]
  BY <1>1 DEF ReadFrom
<1> QED
  BY <1>3, <1>5, <1>6

LEMMA LastOnly ==
  ASSUME NEW E, NEW es \in Seq(E), NEW m \in 1..Len(es), NEW n, es[m][1] = n,
         \A k \in 1..Len(es) : es[k][1] = n => m >= k
  PROVE  n \in DOMAIN ReadFrom(es) /\ ReadFrom(es)[n] = es[m][2]
<1>1. n \in {es[i][1] : i \in DOMAIN es}
  OBVIOUS
<1>2. DOMAIN ReadFrom(es) = {es[i][1] : i \in DOMAIN es}
  BY DEF ReadFrom
<1>3. PICK l \in 1..Len(es) : /\ es[l][1] = n /\ ReadFrom(es)[n] = es[l][2]
                              /\ \A k \in 1..Len(es) : es[k][1] = n => l >= k
  BY <1>1, LastIs
<1>4. l = m
  BY <1>3
<1> QED
  BY <1>1, <1>2, <1>3, <1>4

\* An entry in front of others is read only where no other has its name.
LEMMA InFront ==
  ASSUME NEW E, NEW es \in Seq(E), NEW e \in E
  PROVE  /\ \A n \in DOMAIN ReadFrom(es) : ReadFrom(<<e>> \o es)[n] = ReadFrom(es)[n]
         /\ e[1] \notin DOMAIN ReadFrom(es) =>
              e[1] \in DOMAIN ReadFrom(<<e>> \o es) /\ ReadFrom(<<e>> \o es)[e[1]] = e[2]
<1> DEFINE fs == <<e>> \o es
<1>1. /\ fs \in Seq(E) /\ Len(fs) = Len(es) + 1 /\ fs[1] = e
      /\ \A k \in 1..Len(es) : fs[k + 1] = es[k]
      /\ \A k \in 2..Len(fs) : k - 1 \in 1..Len(es) /\ fs[k] = es[k - 1]
  OBVIOUS
<1>2. DOMAIN ReadFrom(es) = {es[i][1] : i \in DOMAIN es}
  BY DEF ReadFrom
<1> HIDE DEF fs
<1>3. ASSUME NEW n \in DOMAIN ReadFrom(es)
      PROVE  ReadFrom(fs)[n] = ReadFrom(es)[n]
  <2>1. n \in {es[i][1] : i \in DOMAIN es}
    BY <1>2
  <2>2. PICK m \in 1..Len(es) : /\ es[m][1] = n /\ ReadFrom(es)[n] = es[m][2]
                                /\ \A k \in 1..Len(es) : es[k][1] = n => m >= k
    BY <2>1, LastIs
  <2>3. m + 1 \in 1..Len(fs) /\ fs[m + 1] = es[m]
    BY <1>1
  <2>4. ASSUME NEW k \in 1..Len(fs), fs[k][1] = n PROVE m + 1 >= k
    <3>1. CASE k = 1
      BY <3>1
    <3>2. CASE k # 1
      <4>1. k - 1 \in 1..Len(es) /\ fs[k] = es[k - 1]
        BY <1>1, <3>2
      <4>2. m >= k - 1
        BY <2>2, <2>4, <4>1
      <4> QED
        BY <4>2
    <3> QED
      BY <3>1, <3>2
  <2>5. ReadFrom(fs)[n] = fs[m + 1][2]
    BY <1>1, <2>2, <2>3, <2>4, LastOnly
  <2> QED
    BY <2>2, <2>3, <2>5
<1>4. ASSUME e[1] \notin DOMAIN ReadFrom(es)
      PROVE  e[1] \in DOMAIN ReadFrom(fs) /\ ReadFrom(fs)[e[1]] = e[2]
  <2>1. \A k \in 1..Len(es) : es[k][1] # e[1]
    BY <1>2, <1>4
  <2>2. \A k \in 1..Len(fs) : fs[k][1] = e[1] => 1 >= k
    <3> SUFFICES ASSUME NEW k \in 1..Len(fs), k # 1 PROVE fs[k][1] # e[1]
      OBVIOUS
    <3>1. k - 1 \in 1..Len(es) /\ fs[k] = es[k - 1]
      BY <1>1
    <3> QED
      BY <2>1, <3>1
  <2>3. 1 \in 1..Len(fs) /\ fs[1] = e
    BY <1>1
  <2>4. fs[1][1] = e[1] /\ fs[1][2] = e[2]
    BY <2>3
  <2>5. e[1] \in DOMAIN ReadFrom(fs) /\ ReadFrom(fs)[e[1]] = fs[1][2]
    BY <1>1, <2>2, <2>3, <2>4, LastOnly
  <2> QED
    BY <2>4, <2>5
<1> QED
  BY <1>3, <1>4 DEF fs

\* An export keeps what every other name starts, and its own name starts what
\* the passport says if no server had the name and no comment looks like the
\* section, in a file of any length without two sections of one key
\* (audit/config_exporter.py).
THEOREM ExportAddsFor ==
  ASSUME NEW K, NEW N, NEW C, NEW document \in Seq([key : K, comment : BOOLEAN, entries : Seq(N \X C)]),
         OneOfEach(document), NEW name, NEW passport, NEW client
  PROVE  Setups!ExportAdds(document, name, passport, client)
<1> DEFINE key    == Setups!RootKey(client)
           server == Setups!GenerateServerConfig(client, Setups!ExtractBaseConfig(passport))
           next   == Setups!PatchJsonc(document, key, name, server)
           e      == <<name, server>>
           E      == (N \cup {name}) \X (C \cup {server})
           old    == ReadFrom(EntriesOf(document, key))
           new    == ReadFrom(EntriesOf(next, key))
           shadow == \E i \in DOMAIN document : document[i].key = key /\ document[i].comment
<1>1. server.starts = Setups!ExtractBaseConfig(passport).starts
  BY DEF Setups!GenerateServerConfig
<1>2. next = IF Hits(document, key) = {}
               THEN Append(document, [key |-> key, comment |-> FALSE, entries |-> <<<<name, server>>>>])
               ELSE [document EXCEPT ![Setups!Min(Hits(document, key))].entries = <<<<name, server>>>> \o @]
  BY DEF Setups!PatchJsonc, Hits
<1> HIDE DEF key, server, next
<1> SUFFICES /\ \A n \in DOMAIN old : new[n] = old[n]
             /\ name \notin DOMAIN old /\ ~shadow => name \in DOMAIN new /\ new[name] = server
  BY <1>1, FileReadIs DEF Setups!ExportAdds, key, server, next
<1>3. DOMAIN document = 1..Len(document)
  OBVIOUS
<1>4. \A i \in DOMAIN document : document[i].entries \in Seq(E)
  <2> SUFFICES ASSUME NEW i \in DOMAIN document PROVE document[i].entries \in Seq(E)
    OBVIOUS
  <2>1. document[i].entries \in Seq(N \X C)
    <3>1. document[i] \in [key : K, comment : BOOLEAN, entries : Seq(N \X C)]
      BY MemberIs
    <3> QED
      BY <3>1
  <2>2. \A k \in 1..Len(document[i].entries) : document[i].entries[k] \in E
    BY <2>1
  <2> QED
    BY <2>1, <2>2
<1>5. e \in E /\ e[1] = name /\ e[2] = server /\ <<>> \in Seq(E)
  OBVIOUS
<1>6. EntriesOf(document, key) \in Seq(E)
  <2>1. CASE Live(document, key) = {}
    BY <1>5, <2>1 DEF EntriesOf
  <2>2. CASE Live(document, key) # {}
    <3>1. Setups!Max(Live(document, key)) \in Live(document, key)
      <4>1. Live(document, key) \subseteq 1..Len(document) /\ Len(document) \in Nat
        BY <1>3 DEF Live
      <4>2. \E k \in Live(document, key) : \A m \in Live(document, key) : k >= m
        BY <2>2, <4>1, GreatestOf
      <4> QED
        BY <4>2 DEF Setups!Max
    <3>2. Setups!Max(Live(document, key)) \in DOMAIN document
      BY <3>1 DEF Live
    <3> HIDE DEF E
    <3> QED
      BY <1>4, <2>2, <3>2 DEF EntriesOf
  <2> QED
    BY <2>1, <2>2
<1> HIDE DEF E, e
<1>7. DOMAIN ReadFrom(<<>>) = {}
  BY DEF ReadFrom
<1>8. DOMAIN document = 1..Len(document) /\ Hits(document, key) \subseteq DOMAIN document
      /\ Live(document, key) \subseteq Hits(document, key)
  BY <1>3 DEF Hits, Live
<1>9. CASE Hits(document, key) = {}
  <2> DEFINE l == Len(document) + 1
             s == [key |-> key, comment |-> FALSE, entries |-> <<e>>]
  <2>1. next = Append(document, s)
    BY <1>2, <1>9 DEF e
  <2>2. DOMAIN next = 1..l /\ next[l] = s /\ \A i \in 1..Len(document) : next[i] = document[i]
    <3> HIDE DEF s
    <3> QED
      BY <2>1
  <2>3. Live(next, key) = {l}
    <3>1. \A i \in 1..Len(document) : document[i].key # key
      BY <1>3, <1>9 DEF Hits
    <3>2. next[l].key = key /\ ~next[l].comment
      BY <2>2
    <3>3. \A i \in 1..l : i \in 1..Len(document) \/ i = l
      OBVIOUS
    <3>4. l \in 1..l
      OBVIOUS
    <3> HIDE DEF s, l
    <3>5. \A i : i \in Live(next, key) <=> i = l
      BY <2>2, <3>1, <3>2, <3>3, <3>4 DEF Live
    <3> QED
      BY <3>5
  <2>4. Setups!Max({l}) = l
    <3>1. l \in Nat /\ {l} \subseteq Nat
      OBVIOUS
    <3> HIDE DEF l
    <3> QED
      BY <3>1, MaxIs
  <2>5. EntriesOf(next, key) = <<e>>
    <3>1. next[l].entries = <<e>>
      BY <2>2
    <3> HIDE DEF l, s
    <3> QED
      BY <2>3, <2>4, <3>1 DEF EntriesOf
  <2>6. EntriesOf(document, key) = <<>>
    BY <1>8, <1>9 DEF EntriesOf
  <2>7. <<e>> = <<e>> \o <<>>
    OBVIOUS
  <2>8. DOMAIN old = {}
    BY <1>7, <2>6
  <2>9. new = ReadFrom(<<e>> \o <<>>)
    BY <2>5, <2>7
  <2>10. name \in DOMAIN new /\ new[name] = server
    BY <1>5, <1>7, <2>9, InFront
  <2> QED
    BY <2>8, <2>10
<1>10. CASE Hits(document, key) # {}
  <2> DEFINE h == Setups!Min(Hits(document, key))
  <2>1. h \in Hits(document, key)
    <3>1. Hits(document, key) \subseteq Nat
      BY <1>8
    <3> QED
      BY <1>10, <3>1, FirstKey
  <2>2. h \in DOMAIN document /\ document[h].key = key
    BY <2>1 DEF Hits
  <2>3. next = [document EXCEPT ![h].entries = <<e>> \o @]
    BY <1>2, <1>10 DEF e
  <2> HIDE DEF h
  <2>4. DOMAIN next = DOMAIN document /\ \A i \in DOMAIN document : i # h => next[i] = document[i]
    BY <2>2, <2>3
  <2>5. /\ next[h].key = document[h].key /\ next[h].comment = document[h].comment
        /\ next[h].entries = <<e>> \o document[h].entries
    <3>1. document[h] \in [key : K, comment : BOOLEAN, entries : Seq(N \X C)]
      BY <2>2, MemberIs
    <3>2. next[h] = [document[h] EXCEPT !.entries = <<e>> \o @]
      BY <2>2, <2>3
    <3> QED
      BY <3>1, <3>2
  <2>6. Live(next, key) = Live(document, key)
    <3>1. \A i \in DOMAIN document : next[i].key = document[i].key /\ next[i].comment = document[i].comment
      BY <2>4, <2>5
    <3> QED
      BY <2>4, <3>1 DEF Live
  <2>7. CASE h \in Live(document, key)
    <3>1. Live(document, key) = {h}
      <4>1. \A i \in Live(document, key) : i = h
        BY <2>2, <2>7 DEF Live, OneOfEach
      <4> QED
        BY <2>7, <4>1
    <3>2. Setups!Max({h}) = h
      <4>1. h \in Nat /\ {h} \subseteq Nat
        BY <1>8, <2>2
      <4> QED
        BY <4>1, MaxIs
    <3>3. EntriesOf(next, key) = <<e>> \o EntriesOf(document, key)
      BY <2>5, <2>6, <3>1, <3>2 DEF EntriesOf
    <3>4. new = ReadFrom(<<e>> \o EntriesOf(document, key))
      BY <3>3
    <3> QED
      BY <1>5, <1>6, <3>4, InFront
  <2>8. CASE h \notin Live(document, key)
    <3>1. shadow
      BY <2>2, <2>8 DEF Live
    <3>2. EntriesOf(next, key) = EntriesOf(document, key)
      <4>1. CASE Live(document, key) = {}
        BY <2>6, <4>1 DEF EntriesOf
      <4>2. CASE Live(document, key) # {}
        <5>1. Setups!Max(Live(document, key)) \in Live(document, key)
          <6>1. Live(document, key) \subseteq 1..Len(document) /\ Len(document) \in Nat
            BY <1>8
          <6>2. \E k \in Live(document, key) : \A m \in Live(document, key) : k >= m
            BY <4>2, <6>1, GreatestOf
          <6> QED
            BY <6>2 DEF Setups!Max
        <5>2. next[Setups!Max(Live(document, key))] = document[Setups!Max(Live(document, key))]
          BY <1>8, <2>4, <2>8, <5>1
        <5> QED
          BY <2>6, <4>2, <5>2 DEF EntriesOf
      <4> QED
        BY <4>1, <4>2
    <3> QED
      BY <3>1, <3>2
  <2> QED
    BY <2>7, <2>8
<1> QED
  BY <1>9, <1>10

=============================================================================
