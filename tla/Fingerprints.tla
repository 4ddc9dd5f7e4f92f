---------------------------- MODULE Fingerprints ----------------------------
(***************************************************************************)
(* Fingerprints of tool sets: FingerprintMatcher (fingerprints/matcher.py) *)
(* names an unknown server, SupplyChainTamperDetector                      *)
(* (audit/tamper_detector.py) compares a server with its passport, and     *)
(* compare_snapshots (audit/drift.py) a scan with a baseline.              *)
(*                                                                         *)
(* A tool is [name, schema, text, props]: equal schemas hash alike, and    *)
(* text is the description, which has a hash of its own.  The hash of a    *)
(* tool set does not depend on the order of the tools.                     *)
(***************************************************************************)
EXTENDS Integers, Sequences, SequencesExt, FiniteSetsExt

\* What canonical_hash of a tool, and of a tool set, tell apart.
Hash(tool) == <<tool.name, tool.schema>>
Hashes(tools) == {Hash(t) : t \in tools}
Names(tools)  == {t.name : t \in tools}

-----------------------------------------------------------------------------
(* match_tools.  A passport is [package, version, tools]; a confidence is  *)
(* a fraction <<n, d>>.                                                    *)

Above(c, d) == c[1] * d[2] > d[1] * c[2]

JaccardOf(s, t) == IF s \cup t = {} THEN <<1, 1>> ELSE <<Cardinality(s \cap t), Cardinality(s \cup t)>>
Plus(c, d)      == <<c[1] * d[2] + d[1] * c[2], c[2] * d[2]>>
Greater(m, n)   == IF m > n THEN m ELSE n

\* Some tool hashes alike, else the shapes of the tools that share a name.
Confidence(tools, passport) ==
  LET same   == Hashes(tools) \cap Hashes(passport.tools)
      shared == Names(tools) \cap Names(passport.tools)
      Props(ts, n) == (CHOOSE t \in ts : t.name = n).props
      total  == FoldSet(LAMBDA n, acc : Plus(acc, JaccardOf(Props(tools, n), Props(passport.tools, n))), <<0, 1>>, shared)
      larger == Greater(Cardinality(Names(tools)), Cardinality(Names(passport.tools)))
  IN  IF same # {} THEN <<Cardinality(same), Greater(Cardinality(Hashes(tools)), Cardinality(Hashes(passport.tools)))>>
                   ELSE <<total[1], total[2] * larger>>

\* Exact matches alone when there are any; else what overlaps, a shape above 0.3.
MatchTools(tools, passports) ==
  LET exact == {p \in passports : p.tools # {} /\ Hashes(p.tools) = Hashes(tools)}
      some  == {p \in passports : Hashes(p.tools) \cap Hashes(tools) # {}}
      shape == {p \in passports \ some : /\ Names(p.tools) \cap Names(tools) # {}
                                         /\ Above(Confidence(tools, p), <<3, 10>>)}
      As(p, k) == [passport |-> p, confidence |-> IF k = "toolset_exact" THEN <<1, 1>> ELSE Confidence(tools, p), kind |-> k]
  IN  CASE tools = {} -> {}
        [] tools # {} /\ exact # {} -> {As(p, "toolset_exact") : p \in exact}
        [] OTHER -> {As(p, "tool_hash") : p \in some} \cup {As(p, "fuzzy_topological") : p \in shape}

\* A server that carries exactly the tools of a passport is told to be that
\* one, and only those; no other match is as sure as that, except one whose
\* tools all have the names and properties of the passport's.
MatchIsSure(tools, passports) ==
  LET found == MatchTools(tools, passports)
      exact == {p \in passports : p.tools # {} /\ Hashes(p.tools) = Hashes(tools)}
  IN  /\ tools # {} /\ exact # {} => {f.passport : f \in found} = exact
      /\ \A f \in found :
           /\ ~Above(f.confidence, <<1, 1>>)
           /\ ~Above(<<1, 1>>, f.confidence) =>
                /\ Names(f.passport.tools) = Names(tools)
                /\ \A t \in tools, u \in f.passport.tools : t.name = u.name => t.props = u.props

-----------------------------------------------------------------------------
(* verify_server_integrity.                                                *)

NoReport(status) == [status |-> status, incidents |-> {}]

\* Mutant: descriptions are not looked at when the hashes agree.
VerifyByHash(live, baseline) ==
  IF live # {} /\ Hashes(live) = Hashes(baseline) THEN NoReport("VERIFIED")
    ELSE [status |-> "TAMPERED", incidents |-> {[kind |-> "SCHEMA", tools |-> Names(live)]}]

\* The server declares `live`; its passport of that version has `baseline`.
\* The schema incident is dropped when no common tool changed.
VerifyIntegrity(live, baseline) ==
  LET reworded == {t.name : t \in {u \in live : \E b \in baseline : b.name = u.name /\ b.text # u.text}}
      changed  == {t.name : t \in {u \in live : \E b \in baseline : b.name = u.name /\ Hash(b) # Hash(u)}}
      added    == Names(live) \ Names(baseline)
      removed  == Names(baseline) \ Names(live)
      Incident(kind, names) == IF names = {} THEN {} ELSE {[kind |-> kind, tools |-> names]}
  IN  CASE live = {} -> NoReport("UNKNOWN")
        [] live # {} /\ Hashes(live) = Hashes(baseline) /\ reworded = {} -> NoReport("VERIFIED")
        [] OTHER ->
             [status    |-> "TAMPERED",
              incidents |-> Incident("SHADOW", added) \cup Incident("MISSING", removed)
                              \cup Incident("SCHEMA", changed) \cup Incident("DESCRIPTION", reworded)]

\* A server is verified exactly when its tools are those of its passport, to
\* the wording; if it is not, each tool that differs is in an incident, and no
\* other is.
TamperExact(live, baseline) ==
  LET report  == VerifyIntegrity(live, baseline)
      Same(t, u) == t.name = u.name /\ t.schema = u.schema /\ t.text = u.text
      culprit == {t.name : t \in {u \in live : ~\E b \in baseline : Same(u, b)}}
                   \cup {b.name : b \in {c \in baseline : ~\E u \in live : Same(u, c)}}
  IN  live # {} =>
        /\ (report.status = "VERIFIED") = (culprit = {})
        /\ UNION {i.tools : i \in report.incidents} = culprit

-----------------------------------------------------------------------------
(* compare_snapshots.  A snapshot is a sequence of servers [name, client,  *)
(* version, command, url]; the url of a remote server is not recorded.     *)

\* build_inventory_snapshot_from_scan
InventoryOf(scan) == [i \in DOMAIN scan |-> [name |-> scan[i].name, client |-> scan[i].client,
                                              version |-> scan[i].version, command |-> scan[i].command]]

\* Of the servers with one name the last counts, whichever client it is of.
ByName(snapshot) ==
  LET last(n) == CHOOSE i \in DOMAIN snapshot : snapshot[i].name = n
                   /\ \A j \in DOMAIN snapshot : j > i => snapshot[j].name # n
  IN  [n \in {snapshot[i].name : i \in DOMAIN snapshot} |-> snapshot[last(n)]]

CompareSnapshots(baseline, current) ==
  LET b == ByName(baseline)
      c == ByName(current)
      Changed(n) == c[n].version # b[n].version \/ c[n].command # b[n].command
  IN  {[name |-> n, status |-> "ADDED"] : n \in DOMAIN c \ DOMAIN b}
        \cup {[name |-> n, status |-> "REMOVED"] : n \in DOMAIN b \ DOMAIN c}
        \cup {[name |-> n, status |-> "MODIFIED"] : n \in {m \in DOMAIN b \cap DOMAIN c : Changed(m)}}

UniqueNames(scan) == \A i, j \in DOMAIN scan : scan[i].name = scan[j].name => i = j

\* Where no two servers share a name, the drift is every server that came, went
\* or runs something else.
DriftExact(before, after) ==
  UniqueNames(before) /\ UniqueNames(after) =>
    LET drift == CompareSnapshots(InventoryOf(before), InventoryOf(after))
        Runs(scan) == {[name |-> scan[i].name, version |-> scan[i].version, command |-> scan[i].command] : i \in DOMAIN scan}
    IN  {d.name : d \in drift} =
          {s.name : s \in (Runs(before) \ Runs(after)) \cup (Runs(after) \ Runs(before))}

=============================================================================
