--------------------------- MODULE VersionRanges ---------------------------
(***************************************************************************)
(* The four readings of an OSV version range in this code: the pipeline's  *)
(* is_version_affected, the audit matcher's _is_version_in_ranges, the     *)
(* offline bundle's is_vulnerable, and the union that fusion writes back   *)
(* (AdvisoryFusionEngine._union_ranges).                                   *)
(*                                                                         *)
(* A version is a number; 0 is "0".  An event introduces the defect, ends  *)
(* it, or does both, as some records of the database do.                   *)
(***************************************************************************)
EXTENDS Integers, SequencesExt

CONSTANT MaxVersion

ASSUME VersionRangesAssumption == MaxVersion \in Nat

None     == -1
Versions == 0..MaxVersion
Ends     == {"none", "fixed", "last_affected", "limit"}
Events   == {e \in [intro : Versions \cup {None}, end : Ends, at : Versions] :
               (e.intro = None => e.end # "none") /\ (e.end = "none" => e.at = 0)}

Introduced(v) == [intro |-> v, end |-> "none", at |-> 0]
Ended(kind, v) == [intro |-> None, end |-> kind, at |-> v]

Before(v, kind, at) == IF kind = "last_affected" THEN v <= at ELSE v < at

-----------------------------------------------------------------------------
(* is_version_affected: the events in the order given.                     *)

AfterEvents(v, events) ==
  LET Step(hit, e) == IF e.intro # None THEN hit \/ v >= e.intro
                                        ELSE hit /\ Before(v, e.end, e.at)
  IN  FoldLeft(Step, FALSE, events)

\* Mutant: the last affected version is taken for a fixed one.
IsVersionAffectedFixed(v, ranges) ==
  LET Step(hit, e) == IF e.intro # None THEN hit \/ v >= e.intro ELSE hit /\ v < e.at
      semver == {r \in ranges : r.type = "SEMVER"}
  IN  semver = {} \/ \E r \in semver : FoldLeft(Step, FALSE, r.events)

\* Without SEMVER ranges every version counts as affected.
IsVersionAffected(v, ranges) ==
  LET semver == {r \in ranges : r.type = "SEMVER"}
  IN  semver = {} \/ \E r \in semver : AfterEvents(v, r.events)

-----------------------------------------------------------------------------
(* _is_version_in_ranges: the intervals first, then the version.  Limits   *)
(* are not read.                                                           *)

InRanges(v, ranges) ==
  LET Close(s, fix) == [intro |-> None, last |-> None, done |-> s.done \cup {<<s.intro, fix, s.last>>}]
      Step(s, e) ==
        CASE e.intro # None -> [(IF s.intro # None THEN Close(s, None) ELSE s) EXCEPT !.intro = e.intro]
          [] e.intro = None /\ e.end = "fixed" -> Close(s, e.at)
          [] e.intro = None /\ e.end = "last_affected" -> [s EXCEPT !.last = e.at]
          [] OTHER -> s
      Spans(events) ==
        LET s == FoldLeft(Step, [intro |-> None, last |-> None, done |-> {}], events)
        IN  IF s.intro = None /\ s.last = None THEN s.done ELSE Close(s, None).done
  IN  \E r \in ranges : \E i \in Spans(r.events) :
        /\ i # <<None, None, None>>
        /\ i[1] # None => v >= i[1]
        /\ i[2] # None => v < i[2]
        /\ i[3] # None => v <= i[3]

-----------------------------------------------------------------------------
(* is_vulnerable of query.py: the last event of each kind.                 *)

OfflineVulnerable(v, ranges) ==
  LET Step(s, e) == [intro |-> IF e.intro # None THEN e.intro ELSE s.intro,
                     fix   |-> IF e.end = "fixed" THEN e.at ELSE s.fix,
                     last  |-> IF e.end = "last_affected" THEN e.at ELSE s.last]
      nothing == [intro |-> None, fix |-> None, last |-> None]
  IN  \E r \in ranges :
        LET s == FoldLeft(Step, nothing, r.events)
        IN  /\ s # nothing
            /\ s.intro # None => v >= s.intro
            /\ s.fix # None => v < s.fix
            /\ s.last # None => v <= s.last

-----------------------------------------------------------------------------
(* _union_ranges.                                                          *)

Infinity == [end |-> "none", at |-> MaxVersion + 1]     \* the end of an open interval

\* An interval is kept when it ends; one left open only if it starts after 0.
Intervals(events) ==
  LET Step(s, e) ==
        LET intro == IF e.intro # None THEN e.intro ELSE s.intro
        IN  IF e.end = "none" THEN [s EXCEPT !.intro = intro]
            ELSE [intro |-> 0, done |-> Append(s.done, [from |-> intro, to |-> [end |-> e.end, at |-> e.at]])]
      s == FoldLeft(Step, [intro |-> 0, done |-> <<>>], events)
  IN  IF s.intro = 0 THEN s.done ELSE Append(s.done, [from |-> s.intro, to |-> Infinity])

\* Sorted by their start, equal ones as they came.
Sorted(intervals) ==
  LET Insert(s, x) == LET n == Cardinality({i \in DOMAIN s : s[i].from <= x.from})
                      IN  SubSeq(s, 1, n) \o <<x>> \o SubSeq(s, n + 1, Len(s))
  IN  FoldLeft(Insert, <<>>, intervals)

\* Two overlapping intervals: the greater end, the earlier one of two equal.
Join(last, next) == IF next.to.at > last.to.at THEN [last EXCEPT !.to = next.to] ELSE last

Merged(intervals) ==
  LET Step(m, next) == IF m # <<>> /\ next.from <= Last(m).to.at
                         THEN Front(m) \o <<Join(Last(m), next)>> ELSE Append(m, next)
  IN  FoldLeft(Step, <<>>, Sorted(intervals))

UnionRanges(ranges) ==        \* a sequence of ranges, to a set
  LET All(type) == FoldLeft(LAMBDA s, r : IF r.type = type THEN s \o Intervals(r.events) ELSE s, <<>>, ranges)
      Fused(type, i) ==
        [type |-> type,
         events |-> <<Introduced(i.from)>> \o
                    IF i.to = Infinity THEN <<>> ELSE <<Ended(i.to.end, i.to.at)>>]
  IN  UNION {{Fused(type, i) : i \in ToSet(Merged(All(type)))} : type \in {"SEMVER", "GIT"}}

-----------------------------------------------------------------------------
(* What they are compared with.                                            *)

\* The order of the events does not matter: the defect is in, and no end of it
\* comes between.
OsvAffected(v, events) ==
  \E i \in DOMAIN events :
    /\ events[i].intro # None /\ events[i].intro <= v
    /\ \A j \in DOMAIN events : events[j].end # "none" /\ events[j].at >= events[i].intro =>
         Before(v, events[j].end, events[j].at)

\* Defect in and defect out by turns, in ascending order, in events of their own.
Alternating(events) ==
  /\ \A i \in DOMAIN events : (events[i].intro # None) = (i % 2 = 1) /\ (i % 2 = 1 => events[i].end = "none")
  /\ \A i, j \in DOMAIN events : i < j =>
       (IF i % 2 = 1 THEN events[i].intro ELSE events[i].at) < (IF j % 2 = 1 THEN events[j].intro ELSE events[j].at)

NoLimit(events) == \A i \in DOMAIN events : events[i].end # "limit"

\* The pipeline agrees with OSV where the events alternate in order.
PipelineExact(events) ==
  Alternating(events) /\ events # <<>> =>
    \A v \in Versions : IsVersionAffected(v, {[type |-> "SEMVER", events |-> events]}) = OsvAffected(v, events)

\* So does the audit matcher, which ignores limits: pipeline and audit never
\* disagree on such a range.
MatcherExact(events) ==
  Alternating(events) /\ NoLimit(events) =>
    \A v \in Versions : InRanges(v, {[type |-> "SEMVER", events |-> events]}) = OsvAffected(v, events)

\* The offline bundle agrees on a range of one interval.
OfflineExact(events) ==
  Alternating(events) /\ NoLimit(events) /\ Len(events) <= 2 =>
    \A v \in Versions : OfflineVulnerable(v, {[type |-> "SEMVER", events |-> events]}) = OsvAffected(v, events)

\* One interval that the union can express: it ends, or starts after "0".
Plain(events) == events # <<>> /\ Len(events) <= 2 /\ Alternating(events) /\ (Len(events) = 2 \/ events[1].intro > 0)

FusedAffected(v, a, b) ==
  LET fused == UnionRanges(<<[type |-> "SEMVER", events |-> a], [type |-> "SEMVER", events |-> b]>>)
  IN  fused # {} /\ IsVersionAffected(v, fused)

\* Fusion never widens: what its ranges affect, a source affects.  It does not
\* narrow either, where each source ranges over one interval that ends with a
\* fix, or is open and does not start at "0".
UnionExact(a, b) ==
  Plain(a) /\ Plain(b) =>
    \A v \in Versions :
      LET sources == OsvAffected(v, a) \/ OsvAffected(v, b)
      IN  /\ FusedAffected(v, a, b) => sources
          /\ (\A e \in ToSet(a \o b) : e.end \in {"none", "fixed"}) /\ sources => FusedAffected(v, a, b)

=============================================================================
