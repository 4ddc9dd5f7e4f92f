----------------------------- MODULE Converters -----------------------------
(***************************************************************************)
(* The converters of the advisory sources to OSV (converters/*.py), the    *)
(* relevance filter (filter.py) and the validator (validator.py) a record  *)
(* passes before and after, and the delta detector (delta_detector.py).    *)
(*                                                                         *)
(* Of a source record the model keeps its dates, its description, the      *)
(* words the filter looks for and, for each affected package, what it says *)
(* of versions.  A clause is [op, at]: ">= 2" or "< 3".  Clauses are told  *)
(* apart as the converter tells them; a date or a patch may be None.       *)
(***************************************************************************)
EXTENDS VersionRanges, FiniteSetsExt

Holds(v, c) == CASE c.op = ">=" -> v >= c.at [] c.op = ">" -> v > c.at [] c.op = "<" -> v < c.at
                 [] c.op = "<=" -> v <= c.at [] c.op = "=" -> v = c.at [] c.op = "!=" -> v # c.at

\* What an advisory with these clauses says, first patched in `patched`.
Stated(v, clauses, patched) ==
  (\A i \in DOMAIN clauses : Holds(v, clauses[i])) /\ (patched # None => v < patched)

FirstOf(clauses, op) ==
  LET at == {i \in DOMAIN clauses : clauses[i].op = op} IN IF at = {} THEN None ELSE clauses[Min(at)].at
LastOf(clauses, op) ==
  LET at == {i \in DOMAIN clauses : clauses[i].op = op} IN IF at = {} THEN None ELSE clauses[Max(at)].at
Bounded(clauses) == \E i \in DOMAIN clauses : clauses[i].op \in {"<", "<="}

Opt(e, v) == IF v = None THEN <<>> ELSE <<e>>

-----------------------------------------------------------------------------
(* The ranges of each source, as events.                                   *)

\* GhsaConverter._parse_ghsa_range; "> 1" and "= 1" match no pattern.
GhsaEvents(clauses, patched) ==
  LET intro == IF FirstOf(clauses, ">=") # None THEN FirstOf(clauses, ">=")
                 ELSE IF Bounded(clauses) \/ clauses = <<>> THEN 0 ELSE None
      fix   == IF FirstOf(clauses, "<") # None THEN FirstOf(clauses, "<") ELSE patched
      last  == FirstOf(clauses, "<=")
      all   == Opt(Introduced(intro), intro) \o Opt(Ended("last_affected", last), last) \o Opt(Ended("fixed", fix), fix)
  IN  IF all = <<>> THEN <<Introduced(0)>> ELSE all

\* MarkdownAdvisoryConverter._parse_version_range_events: the patch comes first.
MarkdownEvents(clauses, patched) ==
  LET intro == IF FirstOf(clauses, ">=") # None THEN FirstOf(clauses, ">=") ELSE IF Bounded(clauses) THEN 0 ELSE None
      fix   == IF patched # None THEN patched ELSE FirstOf(clauses, "<")
      last  == FirstOf(clauses, "<=")
      all   == Opt(Introduced(intro), intro) \o Opt(Ended("last_affected", last), last) \o Opt(Ended("fixed", fix), fix)
  IN  IF all = <<>> THEN <<Introduced(0)>> ELSE all

\* GitLabAdvisoryConverter: a range from each alternative, the last clause of a
\* kind, "0" unless a ">=" says otherwise.
GitLabEvents(clauses, patched) ==
  LET intro == IF LastOf(clauses, ">=") # None THEN LastOf(clauses, ">=") ELSE 0
      last  == LastOf(clauses, "<=")
      fix   == IF LastOf(clauses, "<") = None /\ last = None THEN patched ELSE LastOf(clauses, "<")
  IN  <<Introduced(intro)>> \o Opt(Ended("fixed", fix), fix) \o Opt(Ended("last_affected", last), last)

\* Mutant: the version after an excluded one is not introduced again.
PypaEventsToExclusion(clauses) ==
  LET ex == {clauses[i].at : i \in {j \in DOMAIN clauses : clauses[j].op = "!="}}
      lo == IF LastOf(clauses, ">=") # None THEN LastOf(clauses, ">=") ELSE 0
  IN  <<Introduced(lo)>> \o IF ex = {} THEN Opt(Ended("fixed", LastOf(clauses, "<")), LastOf(clauses, "<"))
                                      ELSE <<Ended("fixed", Min(ex))>>

\* decompose_pep440_ranges: the excluded versions cut the range, in order;
\* "> 1" and the version after an excluded one are bumped; "== 1" is not read.
PypaEvents(clauses) ==
  LET lower == {i \in DOMAIN clauses : clauses[i].op \in {">=", ">"}}
      upper == {i \in DOMAIN clauses : clauses[i].op \in {"<", "<="}}
      from  == IF lower = {} THEN 0
                 ELSE LET c == clauses[Max(lower)] IN IF c.op = ">" THEN c.at + 1 ELSE c.at
      cuts  == {clauses[i].at : i \in {j \in DOMAIN clauses : clauses[j].op = "!="}}
      ex    == CHOOSE s \in [1..Cardinality(cuts) -> cuts] : \A i, j \in DOMAIN s : i < j => s[i] < s[j]
      Cut(s, x) == [from |-> x + 1, events |-> s.events \o <<Introduced(s.from), Ended("fixed", x)>>]
      cut   == FoldLeft(Cut, [from |-> from, events |-> <<>>], ex)
      end   == IF upper = {} THEN <<>>
                 ELSE LET c == clauses[Max(upper)]
                      IN  <<Ended(IF c.op = "<" THEN "fixed" ELSE "last_affected", c.at)>>
  IN  cut.events \o <<Introduced(cut.from)>> \o end

\* CveJson5Converter; an entry is [affected, from, less, upto].  A version alone
\* has no end.
Cve5Events(entries) ==
  LET Of(e) == IF ~e.affected THEN <<>>
                 ELSE <<Introduced(e.from)>> \o (IF e.less # None THEN <<Ended("fixed", e.less)>>
                                                  ELSE Opt(Ended("last_affected", e.upto), e.upto))
      all   == FoldLeft(LAMBDA s, e : s \o Of(e), <<>>, entries)
  IN  IF all = <<>> THEN <<Introduced(0)>> ELSE all

\* NvdConverter: an entry is one event, its end beside its start.
NvdEvents(entries) ==
  [i \in DOMAIN entries |->
     LET e == entries[i]
     IN  [intro |-> e.from,
          end |-> IF e.less # None THEN "fixed" ELSE IF e.upto # None THEN "last_affected" ELSE "none",
          at |-> IF e.less # None THEN e.less ELSE IF e.upto # None THEN e.upto ELSE 0]]

\* Two readings of what was written: the pipeline's and the audit matcher's.
Read(v, events) ==
  [pipeline |-> AfterEvents(v, events), audit |-> InRanges(v, {[type |-> "SEMVER", events |-> events]})]

Listed(v, entries) ==
  \E i \in DOMAIN entries : /\ entries[i].affected
                            /\ v >= entries[i].from
                            /\ entries[i].less # None => v < entries[i].less
                            /\ entries[i].upto # None => v <= entries[i].upto
                            /\ entries[i].less = None /\ entries[i].upto = None => v = entries[i].from

Ops(clauses) == {clauses[i].op : i \in DOMAIN clauses}
Ascending(entries) ==
  \A i, j \in DOMAIN entries : i < j /\ entries[i].affected /\ entries[j].affected =>
     entries[j].from > Max({entries[i].from, entries[i].less - 1, entries[i].upto})

\* No converter narrows an advisory written with ">=", ">", "<" and "<=": what
\* the source says is affected is affected for the pipeline and for the audit,
\* except "> 1" on its own, which GitHub's and the Markdown converter lose.  A
\* range of GitHub's comes through exactly where no bound is strict from below;
\* PyPA's specifiers come through exactly if the excluded
\* versions lie within the bounds.
ConversionSound(clauses, patched) ==
  LET ops     == Ops(clauses)
      written == /\ clauses # <<>> /\ ops \cap {"=", "!="} = {}
                 /\ ">" \in ops => Bounded(clauses)
      cuts    == {clauses[i].at : i \in {j \in DOMAIN clauses : clauses[j].op = "!="}}
      within  == /\ clauses # <<>> /\ "=" \notin ops
                 /\ \A x \in cuts, i \in DOMAIN clauses : clauses[i].op # "!=" => Holds(x, clauses[i])
      both(b) == [pipeline |-> b, audit |-> b]
  IN  \A v \in Versions :
        /\ written /\ Stated(v, clauses, patched) =>
             \A events \in {GhsaEvents(clauses, patched), MarkdownEvents(clauses, patched), GitLabEvents(clauses, patched)} :
               Read(v, events) = both(TRUE)
        /\ written /\ ">" \notin ops =>
             Read(v, GhsaEvents(clauses, patched)).pipeline = Stated(v, clauses, IF "<" \in ops THEN None ELSE patched)
        /\ within => Read(v, PypaEvents(clauses)) = both(Stated(v, clauses, None))

\* The affected versions of a CVE List or NVD record whose entries ascend are
\* affected for the pipeline and the audit; of a single NVD entry, the offline
\* bundle reads the end that the others ignore.
EntriesSound(entries) ==
  /\ \A v \in Versions : Ascending(entries) /\ Listed(v, entries) =>
       Read(v, Cve5Events(entries)) = [pipeline |-> TRUE, audit |-> TRUE]
  /\ \A v \in Versions : (\A i \in DOMAIN entries : entries[i].affected) /\ Listed(v, entries) =>
       Read(v, NvdEvents(entries)) = [pipeline |-> TRUE, audit |-> TRUE]

-----------------------------------------------------------------------------
(* McpRelevanceFilter.is_relevant: words of the text, the kind of the      *)
(* package's name, and whether the repository or the raw record match.     *)

IsRelevant(item) ==
  LET excluded == "legacy" \in item.words /\ "protocol" \notin item.words
      text     == item.words \cap {"protocol", "pattern"} # {}
      package  == \/ item.package \in {"scope", "known", "prefixed"}
                  \/ item.package = "suffixed" /\ item.words \cap {"protocol", "context"} # {}
  IN  ~excluded /\ (text \/ package \/ item.repo \/ item.raw)

\* OsvValidator.validate, of what the converters can get wrong.
Validate(record) ==
  /\ record.details # "blank"
  /\ record.published <= record.modified
  /\ record.affected # <<>>
  /\ \A i \in DOMAIN record.affected : \A r \in DOMAIN record.affected[i] :
       record.affected[i][r] # <<>>

Default == 2                    \* 2026-01-01, where a source gives no date
Or(date, other) == IF date = None THEN other ELSE date

\* Mutant: the date of the update is taken as it is.
Cve5AsDated(source) ==
  [published |-> Or(source.published, Default), modified |-> Or(source.modified, Or(source.published, Default)),
   details |-> source.details, affected |-> <<<<Cve5Events(source.entries)>>>>]

\* A record published after its update is published with it.
Cve5Record(source) ==
  LET modified  == IF source.modified = None THEN Or(source.published, Default) ELSE source.modified
      published == Min({Or(source.published, Default), modified})
  IN  [published |-> published, modified |-> modified,
       details   |-> source.details,
       affected  |-> IF source.entries = <<>> THEN <<<<<<Introduced(0)>>>>>> ELSE <<<<Cve5Events(source.entries)>>>>]

NvdRecord(source) ==
  [published |-> Or(source.published, Default), modified |-> Or(source.modified, Or(source.published, Default)),
   details   |-> source.details,
   affected  |-> IF source.listed THEN <<<<NvdEvents(source.entries)>>>> ELSE <<<<<<Introduced(0)>>>>>>]

GhsaRecord(source) ==
  [published |-> Or(source.published, Default), modified |-> Or(source.modified, Or(source.published, Default)),
   details   |-> "given",
   affected  |-> IF source.listed THEN <<<<GhsaEvents(source.clauses, source.patched)>>>> ELSE <<>>]

\* OsvDevConverter: one date stands for the other, the later for the update.  A
\* record without affected packages raises: there is no _extract_remediation.
OsvRecord(source) ==
  LET published == Or(source.published, Or(source.modified, Default))
  IN  [published |-> published,
       modified  |-> Max({Or(source.modified, published), published}),
       details   |-> "given",
       affected  |-> IF source.listed THEN <<<<GhsaEvents(source.clauses, source.patched)>>>> ELSE <<>>]

\* A record about the protocol is never lost between the filter, the converter
\* and the validator, whatever its dates and versions, if it comes from the CVE
\* List with a description, or from OSV.dev with a package; one from NVD or
\* GitHub is lost only for its dates, or a package without versions.
NeverLost(source) ==
  "protocol" \in source.item.words =>
    /\ IsRelevant(source.item)
    /\ source.details = "given" => Validate(Cve5Record(source))
    /\ source.listed => Validate(OsvRecord(source))
    /\ LET ordered == Or(source.published, Default) <= Or(source.modified, Or(source.published, Default))
       IN  /\ Validate(GhsaRecord(source)) = (ordered /\ source.listed)
           /\ source.details = "given" =>
                Validate(NvdRecord(source)) = (ordered /\ (source.listed => source.entries # <<>>))

-----------------------------------------------------------------------------
(* DeltaDetector.evaluate_deltas: records are functions of ids to [ranges, *)
(* versions, severity], ranges a sequence.                                 *)

EvaluateDeltas(old, new) ==
  \/ DOMAIN new \ DOMAIN old # {}
  \/ \E id \in DOMAIN new \cap DOMAIN old : new[id].ranges # old[id].ranges \/ new[id].severity # old[id].severity

\* If no delta is found, every version a new range affects was affected before,
\* except by a list of versions: those are not compared, nor is what is gone.
DeltaSound(old, new) ==
  /\ ~EvaluateDeltas(old, new) =>
       \A id \in DOMAIN new, v \in Versions :
         /\ id \in DOMAIN old
         /\ AfterEvents(v, new[id].ranges) = AfterEvents(v, old[id].ranges)
         /\ new[id].severity = old[id].severity
  /\ EvaluateDeltas(old, new) => new # old

=============================================================================
