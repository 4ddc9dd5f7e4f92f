---------------------------- MODULE ToolAnalysis ----------------------------
(***************************************************************************)
(* The static analyses of a tool: what it could do                         *)
(* (analyzers/capability_classifier.py), whether a model can use it        *)
(* (analyzers/readiness.py), whether its texts match a threat rule         *)
(* (analyzers/threat_engine.py), and the OWASP score over the two last     *)
(* (compliance/owasp.py).                                                  *)
(*                                                                         *)
(* A text is the set of the pattern classes found in it.  A tool is        *)
(*   [name, plain, text, params, declared, required, mutating, output]     *)
(* name an identifier and plain whether it obeys the naming rules; text    *)
(* the classes of its name and description, "vague" among them if the      *)
(* description is missing or short; params a function to [text, type,      *)
(* bounded], text "" where there is no description; required a set of      *)
(* parameters, if it is declared at all.                                   *)
(***************************************************************************)
EXTENDS Integers, Sequences, SequencesExt, FiniteSetsExt

-----------------------------------------------------------------------------
(* analyze_tool_security and classify_server_security_profile; scores are  *)
(* in halves.                                                              *)

Weight == [command_execution |-> 10, sql_injection |-> 8, filesystem_mutation |-> 6, ssrf |-> 5,
           credential_exposure |-> 4, env_tampering |-> 4, prompt_injection |-> 3]

Texts(tool) == {tool.text} \cup {tool.params[p].text : p \in DOMAIN tool.params}

\* "content" beside "write" in one name and description is a write as well.
Risks(tool) ==
  ((UNION Texts(tool)) \cap DOMAIN Weight)
    \cup (IF \E t \in Texts(tool) : {"content", "write"} \subseteq t THEN {"filesystem_mutation"} ELSE {})

Score(tool) == Min({20, FoldSet(LAMBDA r, acc : acc + Weight[r], 0, Risks(tool))})

TierOf(score) == CASE score >= 14 -> "critical"
                   [] score \in 10..13 -> "high"
                   [] score \in 5..9 -> "medium"
                   [] score < 5 -> "low"

Profile(tools) ==
  [highest  |-> IF tools = {} THEN "low" ELSE TierOf(Max({Score(t) : t \in tools})),
   critical |-> {t \in tools : TierOf(Score(t)) = "critical"},
   high     |-> {t \in tools : TierOf(Score(t)) = "high"}]

-----------------------------------------------------------------------------
(* CapabilityRiskClassifier.classify_tool and SecurityCommentaryEngine.    *)

Category == [command_execution |-> "CRITICAL", credential_exposure |-> "HIGH", env_tampering |-> "HIGH",
             filesystem_mutation |-> "MEDIUM", ssrf |-> "MEDIUM", prompt_injection |-> "MEDIUM"]
Rank == [CRITICAL |-> 4, HIGH |-> 3, MEDIUM |-> 2, SAFE |-> 0]

Categories(tool) == (UNION Texts(tool)) \cap DOMAIN Category

\* A later category raises the severity only where none was high already.
ClassifyTool(tool) ==
  LET Of(c) == IF c = "filesystem_mutation" /\ "write" \in tool.text THEN "HIGH" ELSE Category[c]
      all   == {Of(c) : c \in Categories(tool)} \cup {"SAFE"}
  IN  CHOOSE s \in all : \A r \in all : Rank[s] >= Rank[r]

\* The advice on the file system asks whether the severity is HIGH, not
\* whether the tool writes.
Mitigations(tool) ==
  {IF c = "filesystem_mutation" /\ ClassifyTool(tool) = "HIGH" THEN <<c, "write">> ELSE <<c, "read">> : c \in Categories(tool)}

OverallSeverity(tools) ==
  LET all == {ClassifyTool(t) : t \in tools} \cup {"SAFE"} IN CHOOSE s \in all : \A r \in all : Rank[s] >= Rank[r]

\* The tier of a server is that of its worst tool, low only if each of its
\* tools is, and each risk of each tool has its advice; a tool that could run
\* commands is never fit for an autonomous agent.
ProfileIsWorst(tools) ==
  /\ \A t \in tools : Score(t) <= Max({Score(u) : u \in tools}) /\ Rank[ClassifyTool(t)] <= Rank[OverallSeverity(tools)]
  /\ (Profile(tools).highest \in {"critical", "high"}) = (Profile(tools).critical \cup Profile(tools).high # {})
  /\ \A t \in tools : "command_execution" \in UNION Texts(t) =>
       /\ Profile(tools).highest \in {"critical", "high"}
       /\ OverallSeverity(tools) = "CRITICAL"
  /\ \A t \in tools : \A c \in Categories(t) : \E m \in UNION {Mitigations(u) : u \in tools} : m[1] = c

-----------------------------------------------------------------------------
(* ReadinessLinter                                                         *)

Issue(rule, severity, target) == [rule |-> rule, severity |-> severity, target |-> target]
If(cond, issue) == IF cond THEN {issue} ELSE {}

LintParam(tool, p) ==
  LET q == tool.params[p]
      t == <<tool.name, p>>
  IN  If(q.type = "any", Issue("MCP-R002", "CRITICAL", t))
        \cup If(tool.declared /\ "vague" \in q.text /\ p \in tool.required, Issue("MCP-R004", "WARNING", t))
        \cup If(q.type = "array" /\ ~q.bounded, Issue("MCP-R005", "WARNING", t))
        \cup If(q.type = "number" /\ ~q.bounded, Issue("MCP-R005", "INFO", t))

LintTool(tool) ==
  If("vague" \in tool.text, Issue("MCP-R001", "CRITICAL", <<tool.name>>))
    \cup If(~tool.plain, Issue("MCP-R006", "WARNING", <<tool.name>>))
    \cup If(tool.mutating /\ ~tool.output, Issue("MCP-R007", "WARNING", <<tool.name>>))
    \cup If(DOMAIN tool.params # {} /\ ~tool.declared, Issue("MCP-R003", "CRITICAL", <<tool.name>>))
    \cup UNION {LintParam(tool, p) : p \in DOMAIN tool.params}

\* Issues are counted tool by tool; tools is a sequence.
Count(tools, severity) ==
  FoldSeq(LAMBDA t, acc : acc + Cardinality({i \in LintTool(t) : i.severity = severity}), 0, tools)

LintScore(tools) == Max({0, 100 - 20 * Count(tools, "CRITICAL") - 5 * Count(tools, "WARNING") - Count(tools, "INFO")})

Grade(score) == CASE score >= 90 -> "A" [] score \in 80..89 -> "B" [] score \in 70..79 -> "C"
                  [] score \in 60..69 -> "D" [] score < 60 -> "F"

-----------------------------------------------------------------------------
(* ThreatEngine.  The rules are classes of text too.                       *)

Rules == [prompt |-> [category |-> "PROMPT_INJECTION", severity |-> "CRITICAL"],
          code   |-> [category |-> "CODE_EXECUTION", severity |-> "CRITICAL"],
          hidden |-> [category |-> "PROMPT_INJECTION", severity |-> "HIGH"],
          secret |-> [category |-> "CREDENTIAL_EXFILTRATION", severity |-> "CRITICAL"]]

\* Surfaces have names: of the tools that share one, the last is looked at.
Surfaces(tools) ==
  LET last(n) == Max({i \in DOMAIN tools : tools[i].name = n})
      names   == {tools[i].name : i \in DOMAIN tools}
      params  == UNION {{<<tools[i].name, p>> : p \in DOMAIN tools[i].params} : i \in DOMAIN tools}
      lastP(s) == Max({i \in DOMAIN tools : tools[i].name = s[1] /\ s[2] \in DOMAIN tools[i].params})
  IN  [s \in {<<n>> : n \in names} \cup params |->
         IF Len(s) = 1 THEN tools[last(s[1])].text ELSE tools[lastP(s)].params[s[2]].text]

\* Mutant: the parameters' descriptions are not looked at.
AnalyzeToolsOnly(tools) ==
  LET at == Surfaces(tools)
  IN  UNION {{[rule |-> r, target |-> s] : r \in at[s] \cap DOMAIN Rules} : s \in {x \in DOMAIN at : Len(x) = 1}}

\* analyze: one finding for each rule and surface.
Analyze(tools) ==
  LET at == Surfaces(tools)
  IN  UNION {{[rule |-> r, target |-> s] : r \in at[s] \cap DOMAIN Rules} : s \in DOMAIN at}

-----------------------------------------------------------------------------
(* OwaspComplianceScorer.evaluate                                          *)

Penalty == [CRITICAL |-> 20, HIGH |-> 15, WARNING |-> 5, INFO |-> 1]

OwaspScore(tools) ==
  Max({0, 100 - 20 * Count(tools, "CRITICAL") - 5 * Count(tools, "WARNING") - Count(tools, "INFO")
            - FoldSet(LAMBDA f, acc : acc + Penalty[Rules[f.rule].severity], 0, Analyze(tools))})

OwaspTier(score) == CASE score < 70 -> "NON_COMPLIANT"
                      [] score \in 70..99 -> "PARTIALLY_COMPLIANT"
                      [] score >= 100 -> "COMPLIANT"

UniqueTools(tools) == \A i, j \in DOMAIN tools : tools[i].name = tools[j].name => i = j

\* If no two tools share a name, a server is compliant exactly when no text of
\* any tool matches a rule and the linter has nothing to say; grade A means
\* every tool has a description, every parameter a type; and one more tool
\* never betters a grade, whatever its name.
CompliantIsClean(tools) ==
  /\ UniqueTools(tools) =>
       (OwaspTier(OwaspScore(tools)) = "COMPLIANT") =
          \A i \in DOMAIN tools : /\ LintTool(tools[i]) = {}
                                  /\ (UNION Texts(tools[i])) \cap DOMAIN Rules = {}
  /\ Grade(LintScore(tools)) = "A" =>
       \A i \in DOMAIN tools : /\ "vague" \notin tools[i].text
                               /\ \A p \in DOMAIN tools[i].params : tools[i].params[p].type # "any"
  /\ \A i \in DOMAIN tools : LintScore(tools) <= LintScore(RemoveAt(tools, i))

=============================================================================
