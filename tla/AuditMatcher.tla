---------------------------- MODULE AuditMatcher ----------------------------
(***************************************************************************)
(* VulnerabilityMatcher (audit/matcher.py): which advisories are reported  *)
(* for the servers of a client configuration, which pass the severity      *)
(* threshold, and the version ClientConfigFixer (audit/fixer.py) moves a   *)
(* vulnerable server to.                                                   *)
(*                                                                         *)
(* A package name is compared in its normal form, so a name here is a      *)
(* normal form.  A version that does not parse counts as 0.0.0.            *)
(***************************************************************************)
EXTENDS VersionRanges

\* An advisory has an id, aliases, a severity of its own (None for no entry),
\* a CVSS score (-1 for none) and affected blocks, each with a package, an
\* ecosystem, ranges in order, listed versions and a severity.  Severities are
\* 0..4: UNKNOWN, LOW, MEDIUM, HIGH, CRITICAL.
\* A server has a package, an ecosystem, a version (None: unpinned), and
\* whether the user typed it in.

-----------------------------------------------------------------------------
(* Severity.                                                               *)

LevelOfScore(score) ==
  CASE score < 0 -> 0 [] score >= 9 -> 4 [] score >= 7 -> 3 [] score \in 4..6 -> 2 [] OTHER -> 1

\* _extract_severity_info: the advisory's level, else the block's, else the score's.
Severity(adv, block) ==
  LET score == IF adv.score # None THEN adv.score ELSE block.score
  IN  CASE adv.severity # None   -> adv.severity
        [] adv.severity = None /\ block.severity # None -> block.severity
        [] OTHER -> LevelOfScore(score)

NoBlock == [severity |-> None, score |-> None]

-----------------------------------------------------------------------------
(* Matching.                                                               *)

\* The ecosystems a server is held to; a server of another one matches any.
Families ==
  LET cargo == {"cargo", "crates.io", "rust"}
  IN  [npm |-> {"npm", "javascript"}, pypi |-> {"pypi", "python"}, cargo |-> cargo, rust |-> cargo,
       go |-> {"go", "golang"}, golang |-> {"go", "golang"}, maven |-> {"maven", "java"},
       java |-> {"maven", "java"}, docker |-> {"docker", "containers"}, containers |-> {"docker", "containers"}]

Compatible(server, block) ==
  \/ server.ecosystem = "" \/ block.ecosystem = "" \/ server.manual
  \/ server.ecosystem \notin DOMAIN Families
  \/ block.ecosystem \in Families[server.ecosystem]

Blocks(adv, name) == SelectSeq(adv.affected, LAMBDA b : b.package = name)

\* __init__: an advisory is indexed once for every block that names the package.
PackageIndex(advisories, name) ==
  FlattenSeq([i \in DOMAIN advisories |->
                [k \in DOMAIN Blocks(advisories[i], name) |-> advisories[i]]])

\* _find_advisories_for_server: every block of every entry of the index.
FindAdvisories(server, advisories) ==
  FlattenSeq([i \in DOMAIN PackageIndex(advisories, server.package) |->
    LET adv == PackageIndex(advisories, server.package)[i]
        hits == SelectSeq(adv.affected,
                          LAMBDA b : b.package = server.package /\ Compatible(server, b))
    IN  [k \in DOMAIN hits |-> [adv |-> adv, block |-> hits[k]]]])

\* The first fix of the block's ranges, whichever interval it ends.
FixedVersion(block) ==
  LET events == FlattenSeq([r \in DOMAIN block.ranges |-> block.ranges[r].events])
      fixes  == SelectSeq(events, LAMBDA e : e.end = "fixed")
  IN  IF fixes = <<>> THEN None ELSE fixes[1].at

InBlock(v, block) == v \in block.versions \/ InRanges(v, ToSet(block.ranges))

\* _evaluate_vulnerability: an unpinned server is reported, and not confirmed.
Evaluate(server, hit) ==
  IF server.version = None \/ InBlock(server.version, hit.block)
    THEN <<[server |-> server, id |-> hit.adv.id, level |-> Severity(hit.adv, hit.block),
            fixed |-> FixedVersion(hit.block), confirmed |-> server.version # None]>>
    ELSE <<>>

\* In an audit a finding of unknown severity ranks as LOW ...
AuditServers(servers, advisories, threshold) ==
  LET Found(s) == FlattenSeq([h \in DOMAIN FindAdvisories(s, advisories) |->
                                Evaluate(s, FindAdvisories(s, advisories)[h])])
      Rank(f)  == IF f.level = 0 THEN 1 ELSE f.level
  IN  SelectSeq(FlattenSeq([s \in DOMAIN servers |-> Found(servers[s])]), LAMBDA f : Rank(f) >= threshold)

\* ... in a search below LOW.
Search(query, advisories, threshold, ecosystem) ==
  LET Wanted(adv) ==
        /\ threshold > 0 => Severity(adv, NoBlock) >= threshold
        /\ ecosystem # "" =>
             \E b \in ToSet(adv.affected) :
               b.ecosystem = ecosystem
                 \/ (ecosystem \in {"npm", "pypi"} /\ b.ecosystem \in Families[ecosystem])
        /\ \/ query \in {adv.id} \cup adv.aliases
           \/ \E b \in ToSet(adv.affected) : b.package = query
  IN  SelectSeq(advisories, Wanted)

\* get_advisory: the first that has the id, as its own or as an alias.
GetAdvisory(id, advisories) ==
  LET hits == SelectSeq(advisories, LAMBDA adv : id \in {adv.id} \cup adv.aliases)
  IN  IF hits = <<>> THEN <<>> ELSE <<hits[1]>>

\* _calculate_minimum_safe_version: the highest of the fixes.
MinimumSafeVersion(findings) ==
  LET fixes == {f.fixed : f \in ToSet(findings)} \ {None}
  IN  IF fixes = {} THEN None ELSE CHOOSE m \in fixes : \A f \in fixes : f <= m

-----------------------------------------------------------------------------
(* What an audit promises.                                                 *)

\* A reported server really has a block that concerns it, and every block that
\* affects its version is reported: as often as the advisory has blocks of that
\* name, because index and search both go through them.
FindingsExact(server, advisories) ==
  \A i \in DOMAIN advisories :
    LET adv  == advisories[i]
        hits == SelectSeq(adv.affected, LAMBDA b :
                  /\ b.package = server.package
                  /\ Compatible(server, b)
                  /\ server.version = None \/ InBlock(server.version, b))
        told == SelectSeq(AuditServers(<<server>>, advisories, 0), LAMBDA f : f.id = adv.id)
    IN  Len(told) = Len(hits) * Len(Blocks(adv, server.package))

\* A stricter threshold only leaves findings out, and a level that search
\* shows an audit shows too.
ThresholdMonotone(server, advisories) ==
  \A t \in 1..4 :
    LET at(n) == AuditServers(<<server>>, advisories, n)
    IN  /\ ToSet(at(t)) \subseteq ToSet(at(t - 1))
        /\ \A f \in ToSet(at(0)) :
             f.level >= t /\ f.level > 0 => f \in ToSet(at(t))

\* An advisory that an audit reports at a level the advisory itself states is
\* found by a search for the package under the same threshold, and by its id.
SearchAgrees(server, advisories) ==
  \A t \in 1..4 : \A f \in ToSet(AuditServers(<<server>>, advisories, t)) :
    LET named == GetAdvisory(f.id, advisories)
        hits  == Search(server.package, advisories, t, "")
    IN  /\ named # <<>> /\ f.id \in {named[1].id} \cup named[1].aliases
        /\ (\A adv \in ToSet(advisories) : adv.id = f.id => f.level > 0 /\ Severity(adv, NoBlock) = f.level)
             => \E i \in DOMAIN hits : hits[i].id = f.id

\* The version the fixer writes is outside every block it was told about,
\* when each block's defect is one interval that a fix ends.
FixIsSafe(server, advisories) ==
  LET findings == AuditServers(<<server>>, advisories, 0)
      safe     == MinimumSafeVersion(findings)
      OneFixedInterval(b) ==
        b.versions = {} /\ Len(b.ranges) = 1 /\ Len(b.ranges[1].events) = 2
          /\ Alternating(b.ranges[1].events) /\ b.ranges[1].events[2].end = "fixed"
  IN  /\ server.version # None
      /\ safe # None
      /\ \A adv \in ToSet(advisories), b \in UNION {ToSet(a.affected) : a \in ToSet(advisories)} :
           OneFixedInterval(b)
      => \A adv \in ToSet(advisories) :
           (\E f \in ToSet(findings) : f.id = adv.id) =>
             \A b \in ToSet(adv.affected) : server.version # None /\ InBlock(server.version, b)
                /\ b.package = server.package /\ Compatible(server, b) => ~InBlock(safe, b)

=============================================================================
