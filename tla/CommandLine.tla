---------------------------- MODULE CommandLine ----------------------------
(***************************************************************************)
(* The commands of cli.py that pipelines wait for: with which code `audit` *)
(* ends, what `audit-typosquat --fix` makes of a configuration, and what   *)
(* `verify-feed` has verified.  What an audit looks up (the advisories,    *)
(* the malware list, the integrity of a server, the difference to a        *)
(* baseline) is an input here and has modules of its own.                  *)
(***************************************************************************)
EXTENDS AuditMatcher

\* A command ends with the code of the first row that holds.
ExitCode(rows) == rows[Min({i \in DOMAIN rows : rows[i][1]})][2]

-----------------------------------------------------------------------------
(* audit.  Of the options, from is where servers are looked for; of the    *)
(* world, a database and a source of servers is <<what it holds>> or, not  *)
(* there, <<>>.                                                            *)

\* The snapshot if there is one, however old it is.
Database(w) == IF w.snapshot # <<>> THEN w.snapshot ELSE w.directory
AdvisoriesIn(w) == IF Database(w) = <<>> THEN <<>> ELSE Database(w)[1]

\* The first source that was asked for; only all clients go with --global.
Order == <<"package", "custom_config", "client", "all_clients", "global", "config", "standard">>
Source(o) == Order[Min({i \in DOMAIN Order : Order[i] \in o.from \cup {"standard"}})]
At(w, source) == IF w.at[source] = <<>> THEN <<>> ELSE w.at[source][1]
Scanned(o, w) ==
  At(w, Source(o)) \o (IF Source(o) = "all_clients" /\ "global" \in o.from THEN At(w, "global") ELSE <<>>)

\* A baseline saved over the one to compare with is compared with itself.
Drift(o, w) == IF o.diff = "" \/ o.diff = o.save THEN "same" ELSE w.baseline

\* A finding without a score is below every minimum.
Reported(o, w) ==
  SelectSeq(AuditServers(Scanned(o, w), AdvisoriesIn(w), o.threshold),
            LAMBDA f : o.minEpss = 0 \/ w.epss[f.id] >= o.minEpss)

\* The alias audit-config is parsed and no branch is taken for it.
Audit(o, w) ==
  LET servers == ToSet(Scanned(o, w))
  IN  ExitCode(<<
        <<o.command # "audit", 0>>,
        <<Database(w) = <<>>, 2>>,
        <<Source(o) \in {"config", "custom_config"} /\ w.at[Source(o)] = <<>>, 1>>,
        <<Source(o) = "standard" /\ w.at["standard"] = <<>>, 0>>,
        <<o.save # "" /\ o.diff = "", 0>>,
        <<Drift(o, w) = "broken", 1>>,
        <<servers \cap w.malware # {}, 2>>,
        <<o.verify /\ o.strict /\ servers \cap w.tampered # {}, 2>>,
        <<o.failOnDrift /\ Drift(o, w) = "drifted", 2>>,
        <<\E f \in ToSet(Reported(o, w)) : f.level >= 3, 1>>,
        <<TRUE, 0>> >>)

\* An audit that ends well says that what it looked at is clean, unless
\*   - it did nothing: the alias, no configuration, only a baseline to save;
\*   - a filter, or a score that could not be had, hides the finding;
\*   - the snapshot is older than the advisory.
ZeroMeansClean(o, w) ==
  LET Covers(s, adv, b) ==
        /\ b.package = s.package /\ Compatible(s, b)
        /\ s.version = None \/ InBlock(s.version, b)
      Hidden(adv, b) == Severity(adv, b) < o.threshold \/ w.epss[adv.id] < o.minEpss
      known == ToSet(AdvisoriesIn(w)) \cup (IF w.directory = <<>> THEN {} ELSE ToSet(w.directory[1]))
  IN  Audit(o, w) = 0 =>
        \/ o.command = "audit-config"
        \/ o.from = {} /\ w.at["standard"] = <<>>
        \/ o.save # "" /\ o.diff = ""
        \/ /\ o.diff # "" => w.baseline = "same" \/ o.save = o.diff \/ (w.baseline = "drifted" /\ ~o.failOnDrift)
           /\ \A s \in ToSet(Scanned(o, w)) :
                /\ s \notin w.malware
                /\ o.verify /\ o.strict => s \notin w.tampered
                /\ \A adv \in known : \A b \in ToSet(adv.affected) :
                     Covers(s, adv, b) /\ Severity(adv, b) >= 3 =>
                       Hidden(adv, b) \/ (w.snapshot # <<>> /\ adv \notin ToSet(w.snapshot[1]))

-----------------------------------------------------------------------------
(* audit-typosquat.  An argument is a sequence of characters, and verdict  *)
(* what the detector says of one.                                          *)

Skipped(arg) == arg[1] \in {"-", "/"} \/ arg = <<"r", "u", "n">>
Package(server) ==
  IF server.command \in {"npx", "uvx", "docker"} THEN SelectInSeq(server.args, LAMBDA a : ~Skipped(a)) ELSE 0

Rank(tier) == CASE tier = "AUTHENTIC" -> 0 [] tier = "SUSPICIOUS" -> 1 [] tier = "HIGH" -> 2 [] tier = "CRITICAL" -> 3

\* Every argument that reads like the package is replaced.
Corrected(server, verdict) ==
  LET arg == server.args[Package(server)]
      v   == verdict[arg]
  IN  IF Package(server) = 0 THEN server
      ELSE IF v.tier = "AUTHENTIC" THEN server
      ELSE [server EXCEPT !.args = [i \in DOMAIN @ |-> IF @[i] = arg THEN CHOOSE c \in v.canon : TRUE ELSE @[i]]]

AuditTyposquat(servers, verdict) ==
  LET Risk(s) == IF Package(s) = 0 THEN 0 ELSE Rank(verdict[s.args[Package(s)]].tier)
  IN  IF \E i \in DOMAIN servers : Risk(servers[i]) >= 2 THEN 1 ELSE 0

\* A configuration that was fixed is accepted and stays as it is, although
\* another run may add its words to the tree in another order; options are not
\* touched, and one that was accepted starts nothing that is too close, unless
\* another word comes first.
FixSettles(servers, verdict, later) ==
  LET fixed == [i \in DOMAIN servers |-> Corrected(servers[i], verdict)]
      Words(s) == {a \in ToSet(s.args) : ~Skipped(a)}
  IN  /\ AuditTyposquat(fixed, later) = 0
      /\ \A i \in DOMAIN servers :
           /\ Corrected(fixed[i], later) = fixed[i]
           /\ \A k \in DOMAIN fixed[i].args :
                Skipped(servers[i].args[k]) => fixed[i].args[k] = servers[i].args[k]
           /\ AuditTyposquat(servers, verdict) = 0 /\ servers[i].command = "npx" =>
                \A w \in Words(servers[i]) :
                  verdict[w].tier \in {"HIGH", "CRITICAL"} => Words(servers[i]) # {w}

-----------------------------------------------------------------------------
(* verify-feed.  A file is a directory and a name; holds gives its content *)
(* or 0, lists what the manifest.json of a directory says of names, and    *)
(* signed the contents the bundle vouches for.                             *)

\* Whatever the manifest is called, the manifest.json beside it is read, and
\* the files beside it are what is checked.
ManifestState(dir, d) ==
  LET listed == d.lists[dir]
      Missing(n) == d.holds[dir, n] = 0
      Wrong(n)   == d.holds[dir, n] # listed[1][n]
  IN  IF listed = <<>> THEN "unusable"
      ELSE IF \A n \in DOMAIN listed[1] : ~Missing(n) /\ ~Wrong(n) THEN "intact"
      \* the files are taken in the order of the manifest, and the first decides
      ELSE LET first == Min({n \in DOMAIN listed[1] : Missing(n) \/ Wrong(n)})
           IN  IF Missing(first) THEN "unusable" ELSE "mismatch"

VerifyFeed(o, d) ==
  LET state == IF o.manifest = <<>> THEN "none" ELSE ManifestState(o.manifest[1], d)
  IN  ExitCode(<<
        <<d.holds[o.feed] = 0, 3>>,
        <<state = "mismatch", 1>>,
        <<state = "unusable", 3>>,
        <<o.bundle = "missing", 3>>,
        <<o.bundle = "there" /\ d.holds[o.feed] \notin d.signed, 2>>,
        <<TRUE, 0>> >>)

\* A feed that passes is signed if a bundle was given; by the manifest it is
\* vouched for only if it lies beside it and is listed.
VerifiedIsVouched(o, d) ==
  VerifyFeed(o, d) = 0 =>
    /\ o.bundle # "none" => d.holds[o.feed] \in d.signed
    /\ o.manifest # <<>> =>
         LET listed == d.lists[o.manifest[1]]
         IN  /\ listed # <<>>
             /\ o.feed[1] = o.manifest[1] /\ o.feed[2] \in DOMAIN listed[1] =>
                  d.holds[o.feed] = listed[1][o.feed[2]]

=============================================================================
