---------------------------- MODULE MCAlgorithms ----------------------------
(***************************************************************************)
(* Runs the pure algorithms over bounded inputs: one step chooses an       *)
(* algorithm and an input, and the invariants compare what it computes     *)
(* with its reference.                                                     *)
(***************************************************************************)
EXTENDS UnifiedCatalog, Converters

Configs  == INSTANCE ClientConfigs
Analysis == INSTANCE ToolAnalysis
Prints   == INSTANCE Fingerprints
Squats   == INSTANCE Typosquat WITH Adjacent <- {<<"a", "s">>, <<"s", "a">>}, LooksLike <- [c \in {"A"} |-> "a"]
Graph    == INSTANCE DependencyAudit
Starts   == INSTANCE ServerConfigs
Cli      == INSTANCE CommandLine

VARIABLES part, input
vars == <<part, input>>

-----------------------------------------------------------------------------
(* Versions and advisories.                                                *)

I(v) == Introduced(v)
F(v) == Ended("fixed", v)
L(v) == Ended("last_affected", v)
SemVer(events) == [type |-> "SEMVER", events |-> events]

\* Up to two events of any kind, and three that alternate or nearly do.
EventInputs ==
  {<<>>} \cup {<<e>> : e \in Events} \cup (Events \X Events)
    \cup ({I(v) : v \in Versions} \X {F(v) : v \in Versions} \X Events)
AlternatingInputs == {es \in EventInputs : Alternating(es) /\ es # <<>>}

RangeSets == {<<>>, <<SemVer(<<I(0), F(2)>>)>>, <<SemVer(<<I(1), L(2)>>)>>, <<SemVer(<<I(1)>>)>>,
              <<SemVer(<<I(0), F(1), I(2), F(3)>>)>>}
Block(p, e, r, v, s) == [package |-> p, ecosystem |-> e, ranges |-> r, versions |-> v, severity |-> s, score |-> None]
SomeBlocks ==
  {Block("p", "npm", r, {}, None) : r \in RangeSets}
    \cup {Block("p", "pypi", <<SemVer(<<I(0), F(2)>>)>>, {}, 3), Block("p", "", <<SemVer(<<I(0), F(3)>>)>>, {}, 2),
          Block("q", "npm", <<SemVer(<<I(0), F(1)>>)>>, {}, None), Block("p", "npm", <<>>, {3}, 1),
          Block("p", "javascript", <<>>, {0}, 4)}
Adv(id, al, s, sc, bl) == [id |-> id, aliases |-> al, severity |-> s, score |-> sc, affected |-> bl]
Advisories ==
  {<<Adv("a", {}, None, None, bl)>> : bl \in {<<x>> : x \in SomeBlocks} \cup {<<x, y>> : x, y \in SomeBlocks}}
    \cup {<<Adv("a", {}, None, 7, <<x>>), Adv("b", {"a"}, 2, None, <<y>>)>> : x, y \in SomeBlocks}
Servers ==
  {[package |-> "p", ecosystem |-> e, version |-> v, manual |-> FALSE] : e \in {"npm", "", "nuget"}, v \in Versions \cup {None}}
    \cup {[package |-> "p", ecosystem |-> "npm", version |-> 1, manual |-> TRUE]}
Passports == {[package |-> "p", ecosystem |-> e, versions |-> vs] : e \in {"npm", "pypi", "pip"},
                                                                    vs \in {<<0, 1, 2, 3>>, <<2, 0>>, <<1, 3, 2>>}}

\* A lower bound, an excluded version and an upper bound, each of which may be
\* missing, or one exact version; the patch comes after them.
Some(ops) == {<<>>} \cup {<<c>> : c \in [op : ops, at : 1..MaxVersion]}
ClauseInputs ==
  {in \in (({c[1] \o c[2] \o c[3] : c \in Some({">=", ">"}) \X Some({"!="}) \X Some({"<", "<="})} \cup Some({"="}))
              \X (Versions \cup {None})) :
     /\ LastOf(in[1], "<") = None \/ LastOf(in[1], "<") > Max({LastOf(in[1], ">="), LastOf(in[1], ">")})
     /\ LastOf(in[1], "<=") # None =>
          LastOf(in[1], "<=") > LastOf(in[1], ">") /\ LastOf(in[1], "<=") >= LastOf(in[1], ">=")
     /\ in[2] # None => \A i \in DOMAIN in[1] : in[2] >= in[1][i].at + (IF in[1][i].op = "<" THEN 0 ELSE 1)}
Entries ==
  [affected : BOOLEAN, from : Versions, less : {None}, upto : {None}]
    \cup [affected : BOOLEAN, from : 0..1, less : 2..MaxVersion, upto : {None}]
    \cup [affected : BOOLEAN, from : 0..2, less : {None}, upto : 2..MaxVersion]
EntryInputs == {<<>>} \cup {<<e>> : e \in Entries} \cup (Entries \X Entries)

Items == {[words |-> w, package |-> p, repo |-> FALSE, raw |-> FALSE] :
            w \in {{}, {"protocol"}, {"protocol", "legacy"}, {"legacy", "pattern"}}, p \in {"other", "suffixed"}}
Sources ==
  {[item |-> i, published |-> p, modified |-> m, details |-> d, listed |-> l, entries |-> es,
    clauses |-> <<[op |-> "<", at |-> 2]>>, patched |-> None] :
     i \in Items, p, m \in {None, 1, 2, 3}, d \in {"given", "blank"}, l \in BOOLEAN,
     es \in {<<>>, <<[affected |-> TRUE, from |-> 1, less |-> 2, upto |-> None]>>}}
Records == {[ranges |-> r, versions |-> v, severity |-> s] :
              r \in {<<I(0)>>, <<I(0), F(2)>>, <<I(0), F(3)>>}, v \in {{}}, s \in {1, 2}}
Deltas == UNION {[ids -> Records] : ids \in SUBSET {"a", "b"}}

-----------------------------------------------------------------------------
(* Tools, passports and configurations.                                    *)

Conf(p, ts, ds, a) == [package |-> p, tools |-> ts, disabled |-> ds, prefixed |-> {}, args |-> a]
T(n, h, r) == [name |-> n, hash |-> h, risk |-> r]
Confs ==
  {Conf(p, {}, ds, a) : p \in {"known", "empty"}, ds \in {{}, {"x"}}, a \in {"absent", "none"}}
    \cup {Conf("own", ts, ds, "absent") : ts \in SUBSET {T("x", "h", 14), T("x", "k", 0), T("y", "", 10)}, ds \in {{}, {"x"}}}
Known == [n \in {"known", "empty"} |-> IF n = "empty" THEN <<>> ELSE <<{T("x", "h", 14)}, {T("y", "h", 0)}>>]
Layouts ==
  UNION {{[root |-> r, servers |-> [k \in {1, 2} |-> IF k = 1 THEN c ELSE d]] : c, d \in Confs} : r \in {"mcpServers", "bare"}}
    \cup {[root |-> "context_servers", servers |-> s] :
            s \in [1..3 -> {c \in Confs : c.args = "absent" /\ (c.package = "own" => Cardinality(c.tools) = 2)}]}

Section(k, c, es) == [key |-> k, comment |-> c, entries |-> es]
Documents ==
  LET Bodies == {<<>>, <<<<"s", 1>>>>, <<<<"t", 2>>, <<"s", 1>>>>}
  IN  {<<>>} \cup {<<Section(k, c, es)>> : k \in {"mcpServers", "context_servers"}, c \in BOOLEAN, es \in Bodies}
        \cup {<<Section(k, TRUE, <<>>), Section("mcpServers", FALSE, es)>> : k \in {"mcpServers", "context_servers"}, es \in Bodies}
        \cup {<<Section("mcpServers", FALSE, es), Section("mcpServers", TRUE, <<>>)>> : es \in Bodies}
Conns   == {[type |-> t, command |-> c, url |-> u] : t \in {"stdio", "sse", "http"}, c \in {"", "run"}, u \in {"", "url"}}
Exports ==
  {<<[ecosystem |-> e, versions |-> vs], cl>> :
     e \in {"npm", "pypi", "oci"}, cl \in {"claude", "cline", "zed"},
     vs \in {<<<<>>>>} \cup {<<<<c>>>> : c \in Conns} \cup {<<<<>>, <<c, [type |-> "sse", command |-> "", url |-> "url"]>>>> : c \in Conns}}

Param(t, ty, b) == [p |-> [text |-> t, type |-> ty, bounded |-> b]]
None_ == [x \in {} |-> 0]
Tool(n, t, ps, r, m) == [name |-> n, plain |-> n # "b", text |-> t, params |-> ps, declared |-> r # {}, required |-> r, mutating |-> m, output |-> FALSE]
AnyTools ==
  {Tool("a", x[1], None_, {}, x[2]) :
     x \in {{}, {"vague"}, {"command_execution"}, {"content", "write"}, {"prompt", "code"}} \X BOOLEAN}
    \cup {Tool(x[1], {"filesystem_mutation", "write"}, Param(x[2], x[3], x[4]), x[5], FALSE) :
            x \in {"a", "b"} \X {{}, {"vague", "command_execution"}, {"secret", "sql_injection", "ssrf"}}
                    \X {"any", "array", "number"} \X BOOLEAN \X {{}, {"p"}}}
ToolInputs == {<<t>> : t \in AnyTools} \cup (AnyTools \X {x \in AnyTools : x.name = "a" \/ x.required = {"p"}})

Mark(n, s, x, p) == [name |-> n, schema |-> s, text |-> x, props |-> p]
PrintTools == {Mark("a", 1, 1, {1, 2}), Mark("a", 2, 1, {1, 2}), Mark("a", 1, 2, {1, 2}),
               Mark("b", 1, 1, {1}), Mark("b", 2, 1, {2}), Mark("c", 1, 1, {})}
ToolSets == {ts \in SUBSET PrintTools : \A t, u \in ts : t.name = u.name => t = u}
PassportOf(p, ts) == [package |-> p, version |-> 1, tools |-> ts]
PrintPassports ==
  {{}} \cup {{PassportOf("p", ts)} : ts \in {x \in ToolSets : Cardinality(x) \in 1..2}}
    \cup {{PassportOf("p", x[1]), PassportOf("q", x[2])} :
            x \in {s \in ToolSets : Cardinality(s) = 1} \X {s \in ToolSets : Cardinality(s) = 1}}
Inventory == [name : {"a", "b"}, client : {"x", "y"}, version : 1..2, command : {1}, url : {1}]
Scans == {<<>>} \cup {<<s>> : s \in Inventory} \cup (Inventory \X Inventory)

-----------------------------------------------------------------------------
(* Names, dependencies and what a configuration starts.                    *)

\* "ca", "ac" and "abc" in disguise, a permutation, a neighbouring key, a
\* character of another script.
Words == {<<"a", "b", "a">>, <<"a", "b", "c", "a">>, <<"c", "a", "a", "b">>, <<"a", "-", "c">>, <<"c", "-", "a">>,
          <<"s", "b", "a">>, <<"A", "b", "a">>, <<"b">>}

Fun(n, t, a, c, u) == [name |-> n, tool |-> t, async |-> a, calls |-> c, uses |-> u]
FunsOf(n, us) == {Fun(n, t, a, c, u) : t, a \in BOOLEAN, c \in SUBSET {"f", "g"}, u \in us}
Python(fs)   == [js |-> FALSE, tools |-> {}, funs |-> fs, uses |-> {}]
Script(t, u) == [js |-> TRUE, tools |-> t, funs |-> {}, uses |-> u]
TwoFuns   == {Python({f, g}) : f \in FunsOf("f", {{}}), g \in FunsOf("g", {{}, {"p"}})}
SmallFiles == {Python({f}) : f \in FunsOf("g", {{}, {"q"}})} \cup {Script(t, {"q"}) : t \in {{}, {"t"}}}
Trees == {<<a, b>> : a \in TwoFuns, b \in SmallFiles} \cup {<<b, a>> : a, b \in SmallFiles}
ScanFindings == {[dep |-> [name |-> <<p, p>>, ver |-> 1], id |-> 1, severity |-> 3] : p \in {"p", "q"}}

Vuln(i, s, c) == [id |-> i, severity |-> s, score |-> c]
ManifestDeps == {[name |-> <<"p", c>>, spec |-> v] : c \in {"p", "P"}, v \in {<<>>, <<1>>, <<2>>, <<1, 2>>}}
OsvSays ==
  [d \in {Graph!Dep(e.name, v) : e \in ManifestDeps, v \in UNION {{Graph!Version(e.spec), 1, 2} : e \in ManifestDeps}} |->
     IF d.name[2] = "p" THEN (IF d.ver = 1 THEN {Vuln(1, 0, 9)} ELSE {Vuln(2, 2, 0)}) ELSE {Vuln(3, 4, 0), Vuln(4, 0, 0)}]
Manifests == {[kind |-> k, deps |-> <<d, e, f>>] : k \in {"package.json", "list"}, d, e, f \in ManifestDeps}

\* Two servers whose packages end alike, started in every way.
Git    == <<"git">>
McpGit == <<"mcp", "git">>
Pinned(n, op, vs) == {Starts!Word(n, op, v) : v \in vs}
ArgsOf(l) ==
  LET W(op, vs) == UNION {{Starts!Bare(n)} \cup Pinned(n, op, vs) : n \in {Git, McpGit}}
  IN  CASE l = "npx"    -> {<<w>> : w \in W("@", {<<1>>, <<1, 5>>})} \cup {<<Starts!Bare(<<"-y">>), Starts!Bare(Git)>>}
        [] l = "uvx"    -> {<<w>> : w \in W("==", {<<1>>}) \cup W(">=", {<<1>>})}
        [] l = "docker" -> {<<Starts!Bare(<<"run">>), w>> : w \in W(":", {<<1>>})}
        [] l = "python" -> {<<Starts!Bare(<<"-m">>), Starts!Bare(n)>> : n \in {Git, <<"mcp", "_", "git">>}}
        [] l = "node"   -> {<<Starts!Word(Git, ".", <<>>)>>}
        [] l = "other"  -> {<<Starts!Bare(Git)>>}
        [] l = ""       -> {<<>>}
StartEntries ==
  UNION {{[key |-> k, launcher |-> l, args |-> a, env |-> 0, url |-> FALSE] :
            a \in ArgsOf(l), k \in {Starts!Bare(Git), Starts!Bare(<<"x">>)}} :
          l \in {"npx", "uvx", "docker", "python", "node", "other", ""}}
ClientDocs == {[r \in {"mcpServers"} |-> <<a, b>>] : a, b \in StartEntries}
Malicious  == {{}, {Starts!Bare(Git)}, {Starts!Bare(McpGit)}}
\* One advisory that covers everything before its fix, and fixes that differ
\* from version to version.
Started == {<<Starts!PackageOf(e).package, Starts!PackageOf(e).version>> : e \in StartEntries}
FixesAt ==
  [x \in Started |-> CASE x[1].name = Git    -> IF x[2] = <<>> \/ ~Starts!AtLeast(x[2], <<2>>) THEN {<<2>>} ELSE {}
                       [] x[1].name = McpGit -> {<<3>>, <<>>}
                       [] OTHER              -> {}]
FixesBy ==
  [x \in Started |-> CASE x[1].name = Git /\ x[2] = <<1>>    -> {<<2>>}
                       [] x[1].name = Git /\ x[2] = <<1, 5>> -> {<<3>>}
                       [] OTHER                              -> {}]

Running(p, l, as, e) == [key |-> Starts!Bare(<<"x">>), package |-> Starts!Bare(p), version |-> <<>>,
                         ecosystem |-> Starts!EcosystemOf(l), launcher |-> l, args |-> as, env |-> e]
App == Starts!Word(<<"app">>, ".", <<>>)
RunningServers ==
  {Running(p, l, <<Starts!Bare(<<"-y">>), Starts!Bare(p)>>, 1) : p \in {Git, McpGit}, l \in {"npx", "uvx"}}
    \cup {Running(Git, "python", <<Starts!Bare(<<"-m">>), Starts!Bare(Git)>>, e) : e \in 1..2}
    \cup {Running(<<"app">>, "node", <<App>>, 1), Running(<<"x">>, "", <<>>, 1),
          [Running(Git, "npx", <<>>, 1) EXCEPT !.version = <<4>>]}
CacheItem(n, v) == [name |-> n, ver |-> v]
Worlds ==
  {[items |-> it, short |-> {Git} \cap sh, scripts |-> [w \in {App} |-> sc],
    venvs |-> [e \in 1..2 |-> IF e = 1 THEN <<5>> ELSE v],
    answers |-> [l \in {"npx", "uvx", "python", "node"} |-> an],
    said |-> [l \in {"npx", "uvx", "python", "node"} |-> <<7>>], passports |-> [p \in {Starts!Bare(Git)} |-> <<8>>]] :
     it \in {<<>>} \cup {<<CacheItem(n, <<1>>), CacheItem(m, <<2>>)>> : n, m \in {Git, McpGit, <<"mcp", "git", "x">>}},
     sh \in {{}, {Git}}, sc \in {<<>>, <<6>>}, v \in {<<>>, <<9>>}, an \in {"silent", "garbled", "version"}}

-----------------------------------------------------------------------------
(* Commands.                                                               *)

\* An audit with filters, or with gates.
Asked(c, f, d, s, t, e, g) ==
  [command |-> c, from |-> f, diff |-> d, save |-> s, threshold |-> t, minEpss |-> e,
   verify |-> "verify" \in g, strict |-> "strict" \in g, failOnDrift |-> "fail" \in g]
Options ==
  {Asked(c, f, "", "", t, e, {}) :
     c \in {"audit", "audit-config"}, t \in {0, 4}, e \in 0..1,
     f \in {{}, {"config"}, {"package", "config"}, {"all_clients", "global"}, {"global"}}}
    \cup {Asked("audit", {"config"}, d, s, 0, 0, g) : d \in {"", "f"}, s \in {"", "f", "g"}, g \in SUBSET {"verify", "strict", "fail"}}
    \cup {Asked("audit", {}, "f", "", 0, 0, {"fail"})}
High == <<Adv("a", {}, 3, None, <<Block("p", "npm", <<SemVer(<<I(0), F(2)>>)>>, {}, None)>>)>>
Databases == {<<>>, <<<<>>>>, <<High>>}
Launched(v) == [package |-> "p", ecosystem |-> "npm", version |-> v, manual |-> FALSE]
AuditWorlds ==
  {[snapshot |-> s, directory |-> d, baseline |-> b, malware |-> m, tampered |-> t, epss |-> [id \in {"a"} |-> e],
    at |-> [f \in {"package", "config", "all_clients", "global", "standard"} |->
              IF f \in {"package", "all_clients"} THEN <<<<Launched(3)>>>> ELSE c]] :
     s, d \in Databases, b \in {"same", "drifted", "broken"}, m, t \in {{}, {Launched(1)}}, e \in 0..1,
     c \in {<<>>, <<<<Launched(1)>>>>, <<<<Launched(3), Launched(None)>>>>}}

\* One corpus in two orders.
OneOrder == <<<<"a", "b", "a">>, <<"a", "-", "c">>, <<"c", "a", "a", "b">>, <<"a", "b", "c", "a">>>>
Imitated == {OneOrder, Reverse(OneOrder)}
SquatServers ==
  {[command |-> c, args |-> as] : c \in {"npx", "node"}, as \in UNION {{<<w>>, <<<<"-">>, w>>, <<<<"r", "u", "n">>, w, w>>} : w \in Words}}
Verdicts == [c \in Imitated |->
  [w \in Words \cup ToSet(c) \cup {<<"-">>, <<"r", "u", "n">>} |-> Squats!Analyze(c, w)]]
PlainServers == {x \in SquatServers : x.command = "npx" /\ Len(x.args) = 1}
Named(servers) == {servers[i].args[Len(servers[i].args)] : i \in DOMAIN servers}

\* Two directories with two files each; one of the second directory is fixed.
FeedDirs ==
  {[holds |-> [x \in {1, 2} \X {1, 2} |-> IF x[1] = 1 THEN h[x[2]] ELSE IF x[2] = 1 THEN h[3] ELSE 1],
    lists |-> [x \in {1, 2} |-> IF x = 1 THEN l ELSE m], signed |-> s] :
     h \in [1..3 -> 0..2], l \in {<<>>} \cup {<<f>> : f \in UNION {[ns -> 1..2] : ns \in SUBSET {1, 2}}},
     m \in {<<>>, <<[n \in {1} |-> 1]>>}, s \in {{}, {1}}}
FeedOptions ==
  {[feed |-> <<1, n>>, manifest |-> m, bundle |-> b] :
     n \in 1..2, m \in {<<>>, <<1>>, <<2>>}, b \in {"none", "missing", "there"}}

-----------------------------------------------------------------------------
Init == part = "start" /\ input = <<>>

Choose(p, in) == part' = p /\ input' = in

ChooseEvents   == part = "start" /\ \E es \in EventInputs : Choose("events", <<es>>)
ChooseUnion    == part = "start" /\ \E a, b \in AlternatingInputs : Choose("union", <<a, b>>)
ChooseAudit    == part = "start" /\ \E s \in Servers, a \in Advisories : Choose("audit", <<s, a>>)
ChooseCatalog  == part = "start" /\ \E p \in Passports, a \in Advisories : Choose("catalog", <<p, a>>)
ChooseClauses  == part = "start" /\ \E in \in ClauseInputs : Choose("clauses", in)
ChooseEntries  == part = "start" /\ \E es \in EntryInputs : Choose("entries", <<es>>)
ChooseSource   == part = "start" /\ \E s \in Sources : Choose("source", <<s>>)
ChooseDelta    == part = "start" /\ \E old, new \in Deltas : Choose("delta", <<old, new>>)
ChooseConfig   == part = "start" /\ \E c \in Layouts : Choose("config", <<c>>)
ChooseExport   == part = "start" /\ \E d \in Documents, e \in Exports : Choose("export", <<d, e[1], e[2]>>)
ChooseTools    == part = "start" /\ \E ts \in ToolInputs : Choose("tools", <<ts>>)
ChooseMatch    == part = "start" /\ \E ts \in ToolSets, ps \in PrintPassports : Choose("match", <<ts, ps>>)
ChooseTamper   == part = "start" /\ \E a, b \in ToolSets : Choose("tamper", <<a, b>>)
ChooseDrift    == part = "start" /\ \E a, b \in Scans : Choose("drift", <<a, b>>)
ChooseName     == part = "start" /\ \E x, y, z, q \in Words : Choose("name", <<<<x, y, z>>, q>>)
ChooseTree     == part = "start" /\ \E fs \in Trees : Choose("tree", <<fs>>)
ChooseManifest == part = "start" /\ \E m \in Manifests, upto \in 0..3 : Choose("manifest", <<m, upto>>)
ChooseFix      == part = "start" /\ \E d \in ClientDocs, m \in Malicious : Choose("fix", <<d, m>>)
ChooseWorld    == part = "start" /\ \E s, t \in RunningServers, w \in Worlds : Choose("world", <<<<s, t>>, w>>)
ChooseCommand  == part = "start" /\ \E o \in Options, w \in AuditWorlds : Choose("command", <<o, w>>)
ChooseSquats   == part = "start" /\ \E s \in SquatServers, t \in PlainServers, d \in Imitated : Choose("squats", <<<<s, t>>, OneOrder, d>>)
ChooseFeed     == part = "start" /\ \E o \in FeedOptions, d \in FeedDirs : Choose("feed", <<o, d>>)

Next ==
  \/ ChooseEvents \/ ChooseUnion \/ ChooseAudit \/ ChooseCatalog \/ ChooseClauses \/ ChooseEntries \/ ChooseSource
  \/ ChooseDelta \/ ChooseConfig \/ ChooseExport \/ ChooseTools \/ ChooseMatch \/ ChooseTamper \/ ChooseDrift
  \/ ChooseName \/ ChooseTree \/ ChooseManifest \/ ChooseFix \/ ChooseWorld
  \/ ChooseCommand \/ ChooseSquats \/ ChooseFeed

Spec == Init /\ [][Next]_vars

-----------------------------------------------------------------------------
(* One invariant for each question; the operators are explained where they *)
(* are defined.                                                            *)

\* The four readings of a version range agree with OSV and with one another
\* wherever the events alternate, and fusion neither widens nor narrows there
\* (pipeline.py is_version_affected, audit/matcher.py, the offline query.py,
\* dedup/fusion.py).
RangesRead ==
  /\ part = "events" => PipelineExact(input[1]) /\ MatcherExact(input[1]) /\ OfflineExact(input[1])
  /\ part = "union" => UnionExact(input[1], input[2])

\* The converters never narrow what an advisory says, and what has changed for
\* a version is a delta (converters/*.py, delta_detector.py).
ConvertersSound ==
  /\ part = "clauses" => ConversionSound(input[1], input[2])
  /\ part = "entries" => EntriesSound(input[1])
  /\ part = "delta" => DeltaSound(input[1], input[2])

\* A record about the protocol is not lost on its way (filter.py, validator.py).
RecordsKept == part = "source" => NeverLost(input[1])

\* The audit finds what affects a server and nothing else, its fix is one, and
\* so are the catalogue's updates; catalogue, correlator and audit agree.  A
\* dependency is reported for what OSV has of it, and dropped only where no
\* tool reaches it.  A command that ends well found nothing, and a feed it
\* verified is vouched for (audit/matcher.py, audit/fixer.py, catalog.py,
\* correlator.py, transitive.py, analyzers/reachability/call_graph.py, cli.py).
VerdictsAgree ==
  /\ part = "audit" => /\ FindingsExact(input[1], input[2])
                       /\ ThresholdMonotone(input[1], input[2])
                       /\ FixIsSafe(input[1], input[2])
                       /\ SearchAgrees(input[1], input[2])
  /\ part = "catalog" => /\ CatalogComplete({input[1]}, input[2])
                         /\ UpdatesAreSafe(input[1], input[2])
                         /\ CorrelatorAgrees(input[1], input[2])
                         /\ AuditCorrelates(input[1], input[2])
  /\ part = "manifest" => Graph!FindingsFromOsv(input[1], OsvSays, input[2])
  /\ part = "command" => Cli!ZeroMeansClean(input[1], input[2])
  /\ part = "feed" => Cli!VerifiedIsVouched(input[1], input[2])
  /\ part = "tree" => Graph!ReachableKept(input[1], ScanFindings)

\* A resolved configuration offers each tool once and stays resolved, an
\* export or a repair leaves the other servers alone, a repaired server runs
\* what was asked for, and a version that is found out is the server's own
\* (audit/conflict_*.py, audit/config_exporter.py, audit/parsers.py,
\* audit/fixer.py, fingerprints/resolver.py).
ConfigsResolved ==
  /\ part = "config" => Configs!PriorityLeavesOne(input[1], Known) /\ Configs!ResolvesOnce(input[1], Known)
  /\ part = "export" => Configs!ExportAdds(input[1], "s", input[2], input[3])
  /\ part = "fix" => Starts!FixHolds(input[1], FixesAt, input[2]) /\ Starts!FixHolds(input[1], FixesBy, input[2])
  /\ part = "squats" => \/ input[2] # input[3] /\ ~Squats!Metric(Named(input[1]) \cup ToSet(input[2]))
                        \/ Cli!FixSettles(input[1], Verdicts[input[2]], Verdicts[input[3]])
  /\ part = "world" => Starts!EnrichExact(input[1], input[2])

\* A server is rated by its worst tool and is compliant only if it is clean
\* (analyzers/*.py, compliance/owasp.py).
ToolsRated ==
  part = "tools" => Analysis!ProfileIsWorst(ToSet(input[1])) /\ Analysis!CompliantIsClean(input[1])

\* Tools are recognised, found tampered with and seen to drift exactly when
\* they are, to, and do, and a name is found to imitate another exactly when
\* it does (fingerprints/matcher.py, audit/tamper_detector.py, audit/drift.py,
\* analyzers/typosquat/*.py).
PrintsExact ==
  /\ part = "match" => Prints!MatchIsSure(input[1], input[2])
  /\ part = "tamper" => Prints!TamperExact(input[1], input[2])
  /\ part = "drift" => Prints!DriftExact(input[1], input[2])
  /\ part = "name" => Squats!SearchExact(input[1], input[2]) /\ Squats!VerdictExact(input[1], input[2])

=============================================================================
