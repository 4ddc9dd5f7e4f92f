--------------------------- MODULE ServerConfigs ---------------------------
(***************************************************************************)
(* What a client configuration starts (audit/parsers.py), the versions     *)
(* that FingerprintVersionResolver adds (fingerprints/resolver.py), and    *)
(* the edit of its text by ClientConfigFixer (audit/fixer.py).             *)
(*                                                                         *)
(* A word is [name, sep, ver]: parts of a name, an operator or "" and the  *)
(* numbers of a version, as in mcp-git@1.2.  An entry is [key, launcher,   *)
(* args, env, url], key and args words.  A document is a function of the   *)
(* layouts it has to sequences of entries, "bare" for entries at its root. *)
(***************************************************************************)
EXTENDS Integers, Sequences, SequencesExt, FiniteSetsExt

Word(n, s, v) == [name |-> n, sep |-> s, ver |-> v]
Bare(n) == Word(n, "", <<>>)
Unpinned == <<>>

FlagParts == {"-y", "-m", "--from"}
IsFlag(w) == w.name # <<>> /\ w.name[1] \in FlagParts

PyOps == {"==", ">=", "<=", ">", "<", "~=", "@"}
Ops   == [npm |-> {"@"}, PyPI |-> PyOps, Docker |-> {":"}]
Pin   == [npm |-> "@", PyPI |-> "==", Docker |-> ":"]

-----------------------------------------------------------------------------
(* ClientConfigParser                                                      *)

EcosystemOf(launcher) ==
  CASE launcher \in {"npx", "node"}   -> "npm"
    [] launcher \in {"uvx", "python"} -> "PyPI"
    [] launcher = "docker"            -> "Docker"
    [] OTHER                          -> "none"

\* An operator of another launcher is part of the name.
Spec(w, ops) == IF w.sep \in ops THEN [package |-> Bare(w.name), version |-> w.ver]
                                 ELSE [package |-> w, version |-> Unpinned]

Dashed(name) == [i \in DOMAIN name |-> IF name[i] = "_" THEN "-" ELSE name[i]]

\* The package of an entry that names none is the key of the entry.
PackageOf(e) ==
  LET plain   == SelectSeq(e.args, LAMBDA w : ~IsFlag(w))
      images  == SelectSeq(plain, LAMBDA w : w \notin {Bare(<<"run">>), Bare(<<"exec">>), Bare(<<"container">>)})
      modules == {i \in 1..(Len(e.args) - 1) : e.args[i] = Bare(<<"-m">>)}
      key     == [package |-> e.key, version |-> Unpinned]
      Read(ws, ops) == IF ws = <<>> THEN key ELSE Spec(ws[1], ops)
  IN  CASE e.launcher = "npx"    -> Read(plain, Ops.npm)
        [] e.launcher = "uvx"    -> Read(plain, Ops.PyPI)
        [] e.launcher = "docker" -> Read(Reverse(images), Ops.Docker)
        [] e.launcher = "node"   -> IF plain = <<>> THEN key
                                    ELSE [package |-> Bare(plain[1].name), version |-> Unpinned]
        [] e.launcher = "python" ->
             IF modules = {} THEN key
             ELSE LET w == e.args[Min(modules) + 1]
                  IN  [package |-> [w EXCEPT !.name = Dashed(@)], version |-> Unpinned]
        [] OTHER -> key

Server(e) ==
  LET p == PackageOf(e)
  IN  [key |-> e.key, package |-> p.package, version |-> p.version, ecosystem |-> EcosystemOf(e.launcher),
       launcher |-> e.launcher, args |-> e.args, env |-> e.env]

Starts(e) == e.launcher # "" \/ e.args # <<>> \/ e.url

Layouts == <<"mcpServers", "mcp_servers", "context_servers", "servers", "extensions", "mcp", "experimental">>

\* The first layout with an entry, or the root if it holds nothing but entries.
Section(doc) ==
  LET used == {i \in DOMAIN Layouts : Layouts[i] \in DOMAIN doc /\ doc[Layouts[i]] # <<>>}
  IN  CASE used # {} -> doc[Layouts[Min(used)]]
        [] used = {} /\ DOMAIN doc = {"bare"} /\ (\A i \in DOMAIN doc["bare"] : Starts(doc["bare"][i])) -> doc["bare"]
        [] OTHER -> <<>>

ParseDict(doc) ==
  LET es == SelectSeq(Section(doc), Starts) IN [k \in DOMAIN es |-> Server(es[k])]

-----------------------------------------------------------------------------
(* ClientConfigFixer: fixes has the versions that fix what a server has,   *)
(* them, and the text is searched for the package wherever it stands.      *)

AtLeast(v, w) ==
  LET At(x, i) == IF i \in DOMAIN x THEN x[i] ELSE 0
      differ == {i \in 1..Max({Len(v), Len(w)}) : At(v, i) # At(w, i)}
  IN  differ = {} \/ At(v, Min(differ)) > At(w, Min(differ))
Highest(vs) == IF vs \ {Unpinned} = {} THEN Unpinned ELSE CHOOSE v \in vs \ {Unpinned} : \A w \in vs : AtLeast(v, w)

\* re.sub over the whole text: keys, arguments and sections that are not read.
WordsOf(doc) ==
  UNION {UNION {{doc[s][i].key} \cup ToSet(doc[s][i].args) : i \in DOMAIN doc[s]} : s \in DOMAIN doc}
Rewritten(doc, new) ==
  [s \in DOMAIN doc |-> [i \in DOMAIN doc[s] |->
     [doc[s][i] EXCEPT !.key = new[@], !.args = [k \in DOMAIN @ |-> new[@[k]]]]]]

Quarantined == Bare(<<"# QUARANTINED">>)
Quarantine(doc, pkg) ==
  LET Names(w) == w = pkg \/ (pkg.sep = "" /\ w.name = pkg.name /\ w.sep \in {"@", ":", "=="})
  IN  Rewritten(doc, [w \in WordsOf(doc) |-> IF Names(w) THEN Quarantined ELSE w])

\* A pinned version is replaced behind any text that ends in the name, and in
\* front of whatever follows it; an unpinned package is a string of its own.
Pinned(doc, s, safe) ==
  LET Found(w) == IsSuffix(s.package.name, w.name) /\ w.sep \in Ops[s.ecosystem] /\ IsPrefix(s.version, w.ver)
  IN  Rewritten(doc, [w \in WordsOf(doc) |->
        IF Found(w) THEN [w EXCEPT !.ver = safe \o SubSeq(@, Len(s.version) + 1, Len(@))] ELSE w])
Unspecified(doc, s, safe) ==
  Rewritten(doc, [w \in WordsOf(doc) |-> IF w = s.package THEN Word(w.name, Pin[s.ecosystem], safe) ELSE w])

\* Findings are kept by the key of a server.
SafeVersion(servers, s, fixes) ==
  Highest(UNION {fixes[t.package, t.version] : t \in {u \in ToSet(servers) : u.key = s.key}})

Remedied(s, safe) == safe # Unpinned /\ s.ecosystem # "none" /\ ~(s.version # Unpinned /\ AtLeast(s.version, safe))

FixConfig(doc, fixes, malicious) ==
  LET servers == ParseDict(doc)
      Fix(text, s) ==
        LET safe == SafeVersion(servers, s, fixes)
        IN  IF s.package \in malicious THEN Quarantine(text, s.package)
            ELSE IF ~Remedied(s, safe) THEN text
            ELSE IF s.version # Unpinned THEN Pinned(text, s, safe) ELSE Unspecified(text, s, safe)
  IN  FoldLeft(Fix, doc, servers)

-----------------------------------------------------------------------------
(* FingerprintVersionResolver.  world is what it finds: items, the npm     *)
(* packages of the cache, the last changed first; scripts and venvs, the   *)
(* versions next to an argument and on a PYTHONPATH, that it may have;     *)
(* answers of a launched server ("silent", "garbled" or a version), and    *)
(* passports.                                                              *)

Within(part, name) == \E i \in 0..(Len(name) - Len(part)) : SubSeq(name, i + 1, i + Len(part)) = part

\* The name of the package and every argument that is no option, up to "@".
\* A name that contains one of four letters or more will do.
UpToAt(w) == IF w.sep \in {"", "@"} THEN w.name ELSE Append(w.name, w.sep)
Candidates(s) == {s.package.name} \cup {UpToAt(w) : w \in {x \in ToSet(s.args) : ~IsFlag(x)}}
Cached(s, world) ==
  SelectSeq(world.items, LAMBDA it : \E c \in Candidates(s) : it.name = c \/ (c \notin world.short /\ Within(c, it.name)))

Found(v, source, left) == [version |-> v, source |-> source, left |-> left]
Known(f, x) == x \in DOMAIN f /\ f[x] # Unpinned

\* left: the process that was started to be asked is still running.
Resolve(s, world) ==
  LET scripts == SelectSeq(s.args, LAMBDA w : Known(world.scripts, w))
      answer  == IF s.launcher = "" THEN "none" ELSE world.answers[s.launcher]
      left    == answer = "garbled"
  IN  CASE Cached(s, world) # <<>> -> Found(Cached(s, world)[1].ver, "cache", FALSE)
        [] Cached(s, world) = <<>> /\ scripts # <<>> -> Found(world.scripts[scripts[1]], "package.json", FALSE)
        [] OTHER ->
      CASE s.launcher = "python" /\ Known(world.venvs, s.env) -> Found(world.venvs[s.env], "dist-info", FALSE)
        [] ~(s.launcher = "python" /\ Known(world.venvs, s.env)) /\ answer = "version"
             -> Found(world.said[s.launcher], "handshake", FALSE)
        [] OTHER -> IF Known(world.passports, s.package) THEN Found(world.passports[s.package], "passport", left)
                    ELSE Found(Unpinned, "none", left)

\* The memo is kept by command, arguments and package.
MemoKey(s) == <<s.launcher, s.args, s.package>>

EnrichServers(servers, world) ==
  LET First(k) == Min({i \in DOMAIN servers : servers[i].version = Unpinned /\ MemoKey(servers[i]) = MemoKey(servers[k])})
  IN  [k \in DOMAIN servers |->
         IF servers[k].version # Unpinned THEN servers[k]
         ELSE [servers[k] EXCEPT !.version = Resolve(servers[First(k)], world).version]]

-----------------------------------------------------------------------------
(* What reading, repairing and reading again promises.                     *)

Concerns(s, t) == s.package.sep = "" /\ IsSuffix(s.package.name, t.package.name)

\* A repaired configuration, read again, starts the same servers, and
\*  - one with findings runs a version that fixes them all, if its package is
\*    an argument of npx, uvx or docker, unless a repair before it rewrote a
\*    longer version of the package;
\*  - one with a malicious package starts it no more, unless it asks for a
\*    range of versions or for a module that is not spelled like the package;
\*  - one whose package's name does not end in a repaired one is as it was;
\*  - a key changes only where it is the name of a repaired package.
FixHolds(doc, fixes, malicious) ==
  LET before == ParseDict(doc)
      after  == ParseDict(FixConfig(doc, fixes, malicious))
      Mal(s) == s.package \in malicious
      Safe(s) == SafeVersion(before, s, fixes)
      Repaired(s) == Mal(s) \/ (Remedied(s, Safe(s)) /\ fixes[s.package, s.version] # {})
      Others(i)  == {before[j] : j \in {k \in DOMAIN before : k # i /\ (Mal(before[k]) \/ Remedied(before[k], Safe(before[k])))}}
  IN  /\ Len(after) = Len(before)
      /\ \A i \in DOMAIN before :
           LET s == before[i]
               t == after[i]
           IN  /\ /\ Repaired(s) /\ ~Mal(s) /\ s.launcher \in {"npx", "uvx", "docker"} /\ s.package # s.key
                  /\ ~\E o \in Others(i) : Concerns(o, s)
                  => t.version # Unpinned /\ \A v \in fixes[s.package, s.version] : AtLeast(t.version, v)
               /\ Mal(s) /\ s.launcher \in {"npx", "uvx", "docker"} /\ t.package = s.package =>
                    s.version # Unpinned /\ \E w \in ToSet(s.args) : w.name = s.package.name /\ w.sep \notin {"@", ":", "=="}
               /\ ~Repaired(s) /\ (\A o \in Others(i) : ~Concerns(o, s)) =>
                    t.package = s.package /\ t.version = s.version
               /\ t.key # s.key => \E o \in {s} \cup Others(i) : IsSuffix(o.package.name, s.key.name)

\* A server gets the version its own surroundings give, unless an earlier one
\* with its command, arguments and package has another environment or key; one
\* from the cache is that of its package where the package is there, unless a
\* package changed later has one of its words in its name.  A server that was
\* started to be asked is left running only if it answered what is no answer.
EnrichExact(servers, world) ==
  LET rich == EnrichServers(servers, world)
      Alone(k) == \A i \in 1..(k - 1) : MemoKey(servers[i]) = MemoKey(servers[k]) => servers[i].env = servers[k].env
  IN  \A k \in {j \in DOMAIN servers : servers[j].version = Unpinned} :
        LET s   == servers[k]
            r   == Resolve(s, world)
            own == {i \in DOMAIN world.items : world.items[i].name = s.package.name}
        IN  /\ Alone(k) => rich[k].version = r.version
            /\ own # {} => \/ \E i \in own : r.version = world.items[i].ver
                           \/ \E i \in 1..(Min(own) - 1) : \E w \in Candidates(s) : Within(w, world.items[i].name)
            /\ r.left => s.launcher # "" /\ world.answers[s.launcher] = "garbled" /\ r.source \in {"passport", "none"}

=============================================================================
