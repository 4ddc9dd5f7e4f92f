--------------------------- MODULE UnifiedCatalog ---------------------------
(***************************************************************************)
(* build_unified_mcp_security_catalog (catalog.py) and                     *)
(* VulnerabilityCorrelator (fingerprints/correlator.py): the versions of a *)
(* package, which of them are vulnerable, and what to update them to.      *)
(***************************************************************************)
EXTENDS AuditMatcher

\* A passport has a package, an ecosystem and versions in the order recorded.
\* A version record: [version, vulnerable, ids, update, noFix].

-----------------------------------------------------------------------------
(* Remediation.                                                            *)

\* Mutant: the highest safe version.
RemediationHighest(current, records) ==
  LET safe == {r.version : r \in {q \in records : ~q.vulnerable /\ q.version >= current}}
  IN  IF safe = {} THEN None ELSE Max(safe)

\* compute_remediation_target: the lowest safe version from the current one up.
RemediationTarget(current, records) ==
  LET safe == {r.version : r \in {q \in records : ~q.vulnerable /\ q.version >= current}}
  IN  IF safe = {} THEN None ELSE Min(safe)

\* CorrelatedTimeline.get_remediation_for_version: strictly above it; with no
\* such version there is no fix, unless the current one is known to be safe.
RemediationForVersion(current, records) ==
  LET safe  == {r.version : r \in {q \in records : ~q.vulnerable /\ q.version > current}}
      known == {r \in records : r.version = current}
  IN  IF safe # {} THEN [update |-> Min(safe), noFix |-> FALSE]
                   ELSE [update |-> None, noFix |-> known = {} \/ \E r \in known : r.vulnerable]

\* The highest safe version, older than a vulnerable one or not.
RecommendedSafe(records) ==
  LET safe == {r.version : r \in {q \in records : ~q.vulnerable}}
  IN  IF safe = {} THEN None ELSE Max(safe)

WithTargets(records) ==
  {[r EXCEPT !.update = IF r.vulnerable THEN RemediationTarget(r.version, records) ELSE None,
             !.noFix  = r.vulnerable /\ RemediationTarget(r.version, records) = None] : r \in records}

Assessed(v, ids) == [version |-> v, vulnerable |-> ids # {}, ids |-> ids, update |-> None, noFix |-> FALSE]

-----------------------------------------------------------------------------
(* Packages with a passport.                                               *)

\* Equal, or two names of one registry; the catalogue knows fewer of these than
\* the correlator.
CatalogAliases    == {<<"pypi", "pip">>, <<"golang", "go">>}
CorrelatorAliases == {<<"pypi", "pip">>, <<"pypi", "python">>, <<"go", "golang">>, <<"golang", "go">>,
                      <<"npm", "javascript">>, <<"javascript", "npm">>}

SameEcosystem(advisory, passport, names) ==
  advisory = "" \/ passport = "" \/ advisory = passport \/ <<advisory, passport>> \in names

\* The advisories with a block for the package that has the version.
MatchingIds(passport, v, advisories, names) ==
  {adv.id : adv \in {a \in ToSet(PackageIndex(advisories, passport.package)) :
     \E b \in ToSet(Blocks(a, passport.package)) :
       SameEcosystem(b.ecosystem, passport.ecosystem, names) /\ InBlock(v, b)}}

VersionRecords(passport, advisories, names) ==
  {Assessed(v, MatchingIds(passport, v, advisories, names)) : v \in ToSet(passport.versions)}

ProfileOf(package, ecosystem, records, vulnerable) ==
  [package     |-> package,
   ecosystem   |-> ecosystem,
   latest      |-> IF records = {} THEN None ELSE Max({r.version : r \in records}),
   recommended |-> RecommendedSafe(records),
   vulnerable  |-> vulnerable,
   versions    |-> records]

FromPassport(passport, advisories) ==
  LET records == WithTargets(VersionRecords(passport, advisories, CatalogAliases))
  IN  ProfileOf(passport.package, passport.ecosystem, records, \E r \in records : r.vulnerable)

\* correlate_package
CorrelatePackage(passport, advisories) ==
  LET timeline == VersionRecords(passport, advisories, CorrelatorAliases)
      risky    == \E r \in timeline : r.vulnerable
  IN  [package     |-> passport.package,
       timeline    |-> timeline,
       recommended |-> IF risky THEN RecommendedSafe(timeline) ELSE None,
       noFix       |-> risky /\ RecommendedSafe(timeline) = None]

-----------------------------------------------------------------------------
(* Packages that only advisories name.                                     *)

\* The listed versions and the boundaries of all blocks of these advisories,
\* those of other packages too; 1.0.0, here 1, when there is none.
DiscreteVersions(advs) ==
  LET blocks == UNION {ToSet(a.affected) : a \in advs}
      events == UNION {UNION {ToSet(b.ranges[k].events) : k \in DOMAIN b.ranges} : b \in blocks}
      found  == UNION {b.versions : b \in blocks}
                  \cup {e.at : e \in {f \in events : f.end = "fixed"}}
                  \cup {e.intro : e \in {f \in events : f.intro > 0}}
  IN  IF found = {} THEN {1} ELSE found

\* A version counts as affected by any block, whatever package it is about.
Synthesized(package, advisories) ==
  LET advs    == ToSet(PackageIndex(advisories, package))
      first   == PackageIndex(advisories, package)[1]
      Hits(v) == {a.id : a \in {d \in advs : \E b \in ToSet(d.affected) : InBlock(v, b)}}
      records == WithTargets({Assessed(v, Hits(v)) : v \in DiscreteVersions(advs)})
  IN  ProfileOf(package, Blocks(first, package)[1].ecosystem, records, TRUE)

NamedPackages(advisories) ==
  UNION {{b.package : b \in ToSet(a.affected)} : a \in ToSet(advisories)}

\* The passports come from a directory or an archive; the last of a name stays.
UnifiedCatalog(passports, advisories) ==
  {FromPassport(p, advisories) : p \in passports}
    \cup {Synthesized(n, advisories) : n \in NamedPackages(advisories) \ {p.package : p \in passports}}

-----------------------------------------------------------------------------
(* What a reader of the catalogue relies on.                               *)

\* Every package a passport or an advisory names has exactly one profile; a
\* package with advisories and no passport is marked vulnerable, a package with
\* a passport exactly when one of its versions is.
CatalogComplete(passports, advisories) ==
  LET catalog == UnifiedCatalog(passports, advisories)
  IN  /\ {c.package : c \in catalog} = {p.package : p \in passports} \cup NamedPackages(advisories)
      /\ \A c, d \in catalog : c.package = d.package => c = d
      /\ \A c \in catalog :
           (\E r \in c.versions : r.vulnerable) => c.vulnerable

\* An update named for a vulnerable version is a later one that no block of the
\* package has, and the versions between are affected too; where none is named
\* there is no fix.
UpdatesAreSafe(passport, advisories) ==
  LET profile == FromPassport(passport, advisories)
      Hit(v)  == \E a \in ToSet(advisories) : \E b \in ToSet(a.affected) :
                   /\ b.package = passport.package
                   /\ SameEcosystem(b.ecosystem, passport.ecosystem, CatalogAliases) /\ InBlock(v, b)
  IN  \A r \in profile.versions :
        /\ r.update # None => /\ Hit(r.version) /\ ~Hit(r.update) /\ r.update > r.version
                              /\ \A w \in ToSet(passport.versions) : r.version < w /\ w < r.update => Hit(w)
        /\ r.update = None /\ Hit(r.version) =>
             r.noFix /\ \A w \in ToSet(passport.versions) : w >= r.version => Hit(w)

\* Where the catalogue finds a version of a passport vulnerable the correlator
\* does too, and the two recommend the same version when they agree throughout.
CorrelatorAgrees(passport, advisories) ==
  LET profile  == FromPassport(passport, advisories)
      timeline == CorrelatePackage(passport, advisories)
      Risky(records) == {r.version : r \in {q \in records : q.vulnerable}}
  IN  /\ Risky(profile.versions) \subseteq Risky(timeline.timeline)
      /\ Risky(profile.versions) = Risky(timeline.timeline) /\ profile.vulnerable =>
           profile.recommended = timeline.recommended
      /\ \A r \in timeline.timeline :
           LET fix == RemediationForVersion(r.version, timeline.timeline)
           IN  fix.update = None \/ fix.update > r.version

\* What audit_servers reports for a pinned server of the passport's ecosystem
\* the correlator reports for that version.
AuditCorrelates(passport, advisories) ==
  \A v \in ToSet(passport.versions) :
    LET server == [package |-> passport.package, ecosystem |-> passport.ecosystem, version |-> v, manual |-> FALSE]
        told   == {f.id : f \in ToSet(AuditServers(<<server>>, advisories, 0))}
    IN  passport.ecosystem \in DOMAIN Families =>
          MatchingIds(passport, v, advisories, CorrelatorAliases) \subseteq told

=============================================================================
