--------------------------- MODULE ClientConfigs ---------------------------
(***************************************************************************)
(* Client configurations: the audit that finds tools exposed by several    *)
(* servers (audit/conflict_detector.py), the resolver that rewrites the    *)
(* configuration (audit/conflict_resolver.py) and the exporter that adds a *)
(* server to one (audit/config_exporter.py).                               *)
(*                                                                         *)
(* A server is known by its key, a number: keys are compared.  A           *)
(* configuration is [root, servers], root the layout ("mcpServers",        *)
(* "context_servers", "bare") and servers a function of the keys to        *)
(* [package, tools, disabled, prefixed, args]: the tools it declares, the  *)
(* disabledTools, the tools it has a MCP_PREFIX_ variable for, and whether *)
(* --prefix is among its arguments ("given", "absent", or "none" without   *)
(* an argument list).  A tool is [name, hash, risk], hash "" if unknown    *)
(* and risk the score of analyze_tool_security in halves.                  *)
(***************************************************************************)
EXTENDS Integers, Sequences, SequencesExt, FiniteSetsExt

\* load_passport_index is a function of the packages and of the names derived
\* from them to versions, each a set of tools, the newest first.
Tools(passports, server) ==
  IF server.package \notin DOMAIN passports THEN server.tools
    ELSE IF passports[server.package] = <<>> THEN {} ELSE passports[server.package][1]

Tier(score) == CASE score >= 14 -> "critical"
                 [] score \in 10..13 -> "high"
                 [] score \in 5..9 -> "medium"
                 [] score < 5 -> "low"

Exposes(config, passports, key) == Tools(passports, config.servers[key])
NamesOf(tools) == {t.name : t \in tools}

\* The keys of the servers that expose a tool of that name.
Exposing(config, passports, name) ==
  {k \in DOMAIN config.servers : name \in NamesOf(Exposes(config, passports, k))}

\* audit_client_config: one collision for each name several servers expose.
AuditClientConfig(config, passports) ==
  LET named  == UNION {NamesOf(Exposes(config, passports, k)) : k \in DOMAIN config.servers}
      All(n) == {t \in UNION {Exposes(config, passports, k) : k \in DOMAIN config.servers} : t.name = n}
      Collision(n) ==
        [tool      |-> n,
         servers   |-> Exposing(config, passports, n),
         identical |-> \E h \in {t.hash : t \in All(n)} : h # "" /\ {t.hash : t \in All(n)} = {h},
         tier      |-> Tier(Max({t.risk : t \in All(n)}))]
  IN  {Collision(n) : n \in {m \in named : Cardinality(Exposing(config, passports, m)) > 1}}

-----------------------------------------------------------------------------
(* resolve_client_config                                                   *)

\* Mutant: every server of a collision gives the tool up.
ResolveDisablesAll(config, passports, strategy) ==
  LET found == AuditClientConfig(config, passports)
      Lost(k) == {c.tool : c \in {d \in found : k \in d.servers}}
  IN  [config EXCEPT !.servers = [k \in DOMAIN config.servers |->
         [config.servers[k] EXCEPT !.disabled = @ \cup Lost(k)]]]

\* A bare layout is audited and left alone.  "prefix" names the server in the
\* environment and the arguments of every server of a collision; "priority"
\* leaves the tool to the first key.
ResolveClientConfig(config, passports, strategy) ==
  LET found    == AuditClientConfig(config, passports)
      Of(k)    == {c.tool : c \in {d \in found : k \in d.servers}}
      Lost(k)  == {c.tool : c \in {d \in found : k \in d.servers \ {Min(d.servers)}}}
      Prefixed(s, k) == IF Of(k) = {} THEN s
                          ELSE [s EXCEPT !.prefixed = @ \cup Of(k), !.args = IF @ = "absent" THEN "given" ELSE @]
      Ranked(s, k)   == [s EXCEPT !.disabled = @ \cup Lost(k)]
  IN  CASE config.root = "bare" \/ strategy = "report" -> config
        [] config.root # "bare" /\ strategy = "prefix" ->
             [config EXCEPT !.servers = [k \in DOMAIN config.servers |-> Prefixed(config.servers[k], k)]]
        [] config.root # "bare" /\ strategy = "priority" ->
             [config EXCEPT !.servers = [k \in DOMAIN config.servers |-> Ranked(config.servers[k], k)]]

\* The servers a client offers the tool from.
Offering(config, passports, name) ==
  {k \in Exposing(config, passports, name) : name \notin config.servers[k].disabled}

\* Resolving by priority leaves each tool to one server at most, and takes it
\* from the client only where the server that should keep it had it disabled;
\* it never changes which server offers a tool without a rival.
PriorityLeavesOne(config, passports) ==
  LET after == ResolveClientConfig(config, passports, "priority")
  IN  config.root # "bare" =>
        \A c \in AuditClientConfig(config, passports) :
          LET keeper == Min(c.servers) IN
          /\ Offering(after, passports, c.tool) \subseteq {keeper}
          /\ keeper \in Offering(config, passports, c.tool) => Offering(after, passports, c.tool) = {keeper}

\* A second resolution finds nothing to change, whichever strategy came first,
\* and the audit of what it wrote still names the same collisions.
ResolvesOnce(config, passports) ==
  \A s \in {"prefix", "priority"} :
    LET once == ResolveClientConfig(config, passports, s)
    IN  /\ ResolveClientConfig(once, passports, s) = once
        /\ AuditClientConfig(once, passports) = AuditClientConfig(config, passports)

-----------------------------------------------------------------------------
(* extract_base_config and the exporters.  A passport is [ecosystem,       *)
(* versions], versions a sequence of sequences of connections [type,       *)
(* command, url]; "" is a missing command or url.                          *)

\* The first version with connections, or the first; of these the first that
\* is stdio or sse, or the first.
ChosenConnection(passport) ==
  LET vs    == passport.versions
      with  == {i \in DOMAIN vs : vs[i] # <<>>}
      conns == vs[IF with = {} THEN 1 ELSE Min(with)]
      known == {i \in DOMAIN conns : conns[i].type \in {"stdio", "sse"}}
  IN  IF conns = <<>> THEN [type |-> "none", command |-> "", url |-> ""]
        ELSE conns[IF known = {} THEN 1 ELSE Min(known)]

ExtractBaseConfig(passport) ==
  LET conn == ChosenConnection(passport)
      default == CASE passport.ecosystem = "npm" -> "npx"
                   [] passport.ecosystem = "pypi" -> "uvx"
                   [] OTHER -> "package"
      given == conn.type = "stdio" /\ conn.command # ""
  IN  IF conn.type = "sse" THEN [type |-> "sse", starts |-> conn.url]
        ELSE [type |-> "stdio", starts |-> IF given THEN conn.command ELSE default]

\* get_root_key and generate_server_config: only Cline adds fields, only Zed
\* nests the command, and "type" is kept for sse where the layout has it.
RootKey(client) == IF client = "zed" THEN "context_servers" ELSE "mcpServers"
GenerateServerConfig(client, base) ==
  [starts |-> base.starts,
   nested |-> client = "zed" /\ base.type = "stdio",
   type   |-> IF base.type = "sse" /\ client # "zed" THEN "sse" ELSE "absent",
   enabled |-> IF client = "cline" THEN "said" ELSE "absent"]

\* A document is a sequence of sections [key, comment, entries], entries a
\* sequence of <<name, config>>.  What a JSON reader makes of a section: of two
\* entries with one name, the later.
Read(document, key) ==
  LET live == {i \in DOMAIN document : document[i].key = key /\ ~document[i].comment}
      es   == IF live = {} THEN <<>> ELSE document[Max(live)].entries
      last(n) == Max({i \in DOMAIN es : es[i][1] = n})
  IN  [n \in {es[i][1] : i \in DOMAIN es} |-> es[last(n)][2]]

\* patch_jsonc: the server goes first into the first text that looks like the
\* section, or into a section of its own at the end.
PatchJsonc(document, key, name, server) ==
  LET hits == {i \in DOMAIN document : document[i].key = key}
  IN  IF hits = {} THEN Append(document, [key |-> key, comment |-> FALSE, entries |-> <<<<name, server>>>>])
        ELSE [document EXCEPT ![Min(hits)].entries = <<<<name, server>>>> \o @]

\* Exporting a server keeps every other server of the file as it was, and the
\* file then starts the server as its passport says, if no server had its name
\* and no comment above the section looks like one.
ExportAdds(document, name, passport, client) ==
  LET key    == RootKey(client)
      server == GenerateServerConfig(client, ExtractBaseConfig(passport))
      old    == Read(document, key)
      new    == Read(PatchJsonc(document, key, name, server), key)
      shadow == \E i \in DOMAIN document : document[i].key = key /\ document[i].comment
  IN  /\ \A n \in DOMAIN old : new[n] = old[n]
      /\ name \notin DOMAIN old /\ ~shadow => name \in DOMAIN new /\ new[name] = server
      /\ server.starts = ExtractBaseConfig(passport).starts

=============================================================================
