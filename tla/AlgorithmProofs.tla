--------------------------- MODULE AlgorithmProofs ---------------------------
(***************************************************************************)
(* Theorems about the algorithms that MCAlgorithms runs, and of what its   *)
(* invariants say of every input that a step may choose.                   *)
(***************************************************************************)
EXTENDS MCAlgorithms, ReferenceProofs

\* What a step has chosen: an input of the part it names.
Chosen ==
  /\ part = "events" => \E es \in EventInputs : input = <<es>>
  /\ part = "union" => \E a, b \in AlternatingInputs : input = <<a, b>>
  /\ part = "clauses" => input \in ClauseInputs
  /\ part = "entries" => \E es \in EntryInputs : input = <<es>>
  /\ part = "source" => \E s \in Sources : input = <<s>>
  /\ part = "delta" => \E old, new \in Deltas : input = <<old, new>>
  /\ part = "tools" => \E ts \in ToolInputs : input = <<ts>>
  /\ part = "match" => \E ts \in ToolSets, ps \in PrintPassports : input = <<ts, ps>>
  /\ part = "tamper" => \E a, b \in ToolSets : input = <<a, b>>
  /\ part = "drift" => \E a, b \in Scans : input = <<a, b>>
  /\ part = "name" => \E x, y, z, q \in Words : input = <<<<x, y, z>>, q>>

\* Whatever is asked of an algorithm is one of the inputs enumerated for it
\* (the callers of the eleven modules).
THEOREM InputsChosen == Spec => []Chosen
<1>1. Init => Chosen
  BY DEF Init, Chosen
<1>2. Chosen /\ [Next]_vars => Chosen'
  <2> SUFFICES ASSUME Chosen, [Next]_vars PROVE Chosen'
    OBVIOUS
  <2>1. CASE UNCHANGED vars
    BY <2>1 DEF Chosen, vars
  <2>2. CASE ChooseEvents \/ ChooseUnion \/ ChooseAudit \/ ChooseCatalog
    BY <2>2 DEF Chosen, ChooseEvents, ChooseUnion, ChooseAudit, ChooseCatalog, Choose
  <2>3. CASE ChooseClauses \/ ChooseEntries \/ ChooseSource \/ ChooseDelta
    BY <2>3 DEF Chosen, ChooseClauses, ChooseEntries, ChooseSource, ChooseDelta, Choose
  <2>4. CASE ChooseConfig \/ ChooseExport \/ ChooseTools \/ ChooseMatch \/ ChooseTamper
    BY <2>4 DEF Chosen, ChooseConfig, ChooseExport, ChooseTools, ChooseMatch, ChooseTamper, Choose
  <2>5. CASE ChooseDrift \/ ChooseName \/ ChooseTree \/ ChooseManifest \/ ChooseFix
    BY <2>5 DEF Chosen, ChooseDrift, ChooseName, ChooseTree, ChooseManifest, ChooseFix, Choose
  <2>6. CASE ChooseWorld \/ ChooseCommand \/ ChooseSquats \/ ChooseFeed
    BY <2>6 DEF Chosen, ChooseWorld, ChooseCommand, ChooseSquats, ChooseFeed, Choose
  <2> QED
    BY <2>1, <2>2, <2>3, <2>4, <2>5, <2>6 DEF Next
<1> QED
  BY <1>1, <1>2, PTL DEF Spec

LEMMA EventInputsAre == EventInputs \subseteq Seq(Events)
<1>1. \A v \in Versions : I(v) \in Events /\ F(v) \in Events
  BY VersionRangesAssumption DEF I, F, Introduced, Ended, Events, Versions, Ends, None
<1> HIDE DEF I, F, Events
<1>2. {I(v) : v \in Versions} \X {F(v) : v \in Versions} \X Events \subseteq Events \X Events \X Events
  BY <1>1
<1>3. {<<e>> : e \in Events} \subseteq Seq(Events)
  BY ShortSequences
<1> QED
  BY <1>2, <1>3, ShortSequences DEF EventInputs

\* The four readers of a version range and the fusion of two agree with OSV on
\* every range a step may choose (pipeline.py, audit/matcher.py, snapshot.py,
\* dedup/fusion.py).
THEOREM RangesReadHolds == Spec => []RangesRead
<1>1. Chosen => RangesRead
  <2> SUFFICES ASSUME Chosen PROVE RangesRead
    OBVIOUS
  <2>1. ASSUME part = "events" PROVE PipelineExact(input[1]) /\ MatcherExact(input[1]) /\ OfflineExact(input[1])
    <3>1. PICK es \in EventInputs : input = <<es>>
      BY <2>1 DEF Chosen
    <3>2. es \in Seq(Events) /\ input[1] = es
      BY <3>1, EventInputsAre
    <3> QED
      BY <3>2, ReadersAgree, OfflineIsExact
  <2>2. ASSUME part = "union" PROVE UnionExact(input[1], input[2])
    <3>1. PICK a \in AlternatingInputs, b \in AlternatingInputs : input = <<a, b>>
      BY <2>2 DEF Chosen
    <3>2. a \in Seq(Events) /\ b \in Seq(Events) /\ input[1] = a /\ input[2] = b
      BY <3>1, EventInputsAre DEF AlternatingInputs
    <3> QED
      BY <3>2, UnionIsExact
  <2> QED
    BY <2>1, <2>2 DEF RangesRead
<1> QED
  BY <1>1, InputsChosen, PTL

\* A record about the protocol survives converter, filter and validator
\* (converters/*.py, filter.py, validator.py).
THEOREM RecordsKeptHolds == Spec => []RecordsKept
<1>1. Chosen => RecordsKept
  <2> SUFFICES ASSUME Chosen, part = "source" PROVE NeverLost(input[1])
    BY DEF RecordsKept
  <2>1. PICK s \in Sources : input = <<s>>
    BY DEF Chosen
  <2>2. Dated(s)
    BY <2>1 DEF Sources, Dated, None
  <2>3. s.entries \in Seq({[affected |-> TRUE, from |-> 1, less |-> 2, upto |-> None]})
    <3> DEFINE E == {[affected |-> TRUE, from |-> 1, less |-> 2, upto |-> None]}
    <3>1. \A e \in E : <<>> \in Seq(E) /\ <<e>> \in Seq(E)
      OBVIOUS
    <3>2. s.entries \in {<<>>, <<[affected |-> TRUE, from |-> 1, less |-> 2, upto |-> None]>>}
      BY <2>1 DEF Sources
    <3> QED
      BY <3>1, <3>2, Zenon
  <2> QED
    BY <2>1, <2>2, <2>3, NeverLostIs
<1> QED
  BY <1>1, InputsChosen, PTL

LEMMA EntriesAre == Entries \subseteq EntryOf
<1>1. ASSUME NEW e \in [affected : BOOLEAN, from : Versions, less : {None}, upto : {None}] PROVE e \in EntryOf
  BY VersionRangesAssumption DEF EntryOf, None, Versions
<1>2. ASSUME NEW e \in [affected : BOOLEAN, from : 0..1, less : 2..MaxVersion, upto : {None}] PROVE e \in EntryOf
  BY VersionRangesAssumption DEF EntryOf, None
<1>3. ASSUME NEW e \in [affected : BOOLEAN, from : 0..2, less : {None}, upto : 2..MaxVersion] PROVE e \in EntryOf
  BY VersionRangesAssumption DEF EntryOf, None
<1> QED
  BY <1>1, <1>2, <1>3 DEF Entries

LEMMA EntryInputsAre == EntryInputs \subseteq Seq(EntryOf)
<1>1. {<<e>> : e \in Entries} \subseteq Seq(EntryOf)
  <2> HIDE DEF Entries, EntryOf
  <2> QED
    BY EntriesAre, ShortSequences
<1>2. Entries \X Entries \subseteq EntryOf \X EntryOf
  <2> HIDE DEF Entries, EntryOf
  <2> QED
    BY EntriesAre
<1> HIDE DEF Entries, EntryOf
<1> QED
  BY <1>1, <1>2, ShortSequences DEF EntryInputs

-----------------------------------------------------------------------------
(* The inputs of the run.                                                  *)

LEMMA TripleIs ==
  ASSUME NEW a \in Some({">=", ">"}), NEW b \in Some({"!="}), NEW c \in Some({"<", "<="})
  PROVE  a \o b \o c \in Seq(ClauseOf) /\ Simple(a \o b \o c)
<1> DEFINE s == a \o b \o c
<1>1. /\ a \in Seq(ClauseOf) /\ Len(a) \in 0..1 /\ (1 \in DOMAIN a => Kind(a[1].op) = "lower")
      /\ b \in Seq(ClauseOf) /\ Len(b) \in 0..1 /\ (1 \in DOMAIN b => Kind(b[1].op) = "!=")
      /\ c \in Seq(ClauseOf) /\ Len(c) \in 0..1 /\ (1 \in DOMAIN c => Kind(c[1].op) = "upper")
  <2>1. \A ops \in SUBSET ClauseOps : \A d \in Some(ops) :
          d \in Seq(ClauseOf) /\ Len(d) \in 0..1 /\ (1 \in DOMAIN d => d[1].op \in ops)
    <3> SUFFICES ASSUME NEW ops \in SUBSET ClauseOps, NEW d \in Some(ops)
                 PROVE  d \in Seq(ClauseOf) /\ Len(d) \in 0..1 /\ (1 \in DOMAIN d => d[1].op \in ops)
      OBVIOUS
    <3>1. CASE d = <<>>
      BY <3>1
    <3>2. CASE \E k \in [op : ops, at : 1..MaxVersion] : d = <<k>>
      <4>1. PICK k \in [op : ops, at : 1..MaxVersion] : d = <<k>>
        BY <3>2
      <4>2. k \in ClauseOf /\ k.op \in ops
        BY VersionRangesAssumption DEF ClauseOf
      <4> QED
        BY <4>1, <4>2, OneTyped
    <3> QED
      BY <3>1, <3>2 DEF Some
  <2>2. {">=", ">"} \in SUBSET ClauseOps /\ {"!="} \in SUBSET ClauseOps /\ {"<", "<="} \in SUBSET ClauseOps
    BY DEF ClauseOps
  <2>3. /\ a \in Seq(ClauseOf) /\ Len(a) \in 0..1 /\ (1 \in DOMAIN a => a[1].op \in {">=", ">"})
        /\ b \in Seq(ClauseOf) /\ Len(b) \in 0..1 /\ (1 \in DOMAIN b => b[1].op \in {"!="})
        /\ c \in Seq(ClauseOf) /\ Len(c) \in 0..1 /\ (1 \in DOMAIN c => c[1].op \in {"<", "<="})
    BY <2>1, <2>2
  <2> QED
    BY <2>3 DEF Kind
<1>2. /\ a \o b \in Seq(ClauseOf) /\ Len(a \o b) = Len(a) + Len(b)
      /\ \A i \in 1..(Len(a) + Len(b)) : (a \o b)[i] = IF i <= Len(a) THEN a[i] ELSE b[i - Len(a)]
  BY <1>1, ConcatProperties
<1>3. /\ s \in Seq(ClauseOf) /\ Len(s) = Len(a \o b) + Len(c)
      /\ \A i \in 1..(Len(a \o b) + Len(c)) : s[i] = IF i <= Len(a \o b) THEN (a \o b)[i] ELSE c[i - Len(a \o b)]
  BY <1>1, <1>2, ConcatProperties
<1> HIDE DEF s
<1>4. \A i \in DOMAIN s : \/ i = 1 /\ Len(a) = 1 /\ Kind(s[i].op) = "lower"
                          \/ i = Len(a) + 1 /\ Len(b) = 1 /\ Kind(s[i].op) = "!="
                          \/ i = Len(a) + Len(b) + 1 /\ Len(c) = 1 /\ Kind(s[i].op) = "upper"
  <2> SUFFICES ASSUME NEW i \in DOMAIN s
               PROVE  \/ i = 1 /\ Len(a) = 1 /\ Kind(s[i].op) = "lower"
                      \/ i = Len(a) + 1 /\ Len(b) = 1 /\ Kind(s[i].op) = "!="
                      \/ i = Len(a) + Len(b) + 1 /\ Len(c) = 1 /\ Kind(s[i].op) = "upper"
    OBVIOUS
  <2>1. i \in 1..(Len(a) + Len(b) + Len(c))
    BY <1>1, <1>2, <1>3
  <2>2. CASE i <= Len(a)
    <3>1. i = 1 /\ Len(a) = 1 /\ s[i] = a[1]
      BY <1>1, <1>2, <1>3, <2>1, <2>2
    <3> QED
      BY <1>1, <3>1
  <2>3. CASE i > Len(a) /\ i <= Len(a) + Len(b)
    <3>1. i = Len(a) + 1 /\ Len(b) = 1 /\ s[i] = b[1]
      BY <1>1, <1>2, <1>3, <2>1, <2>3
    <3> QED
      BY <1>1, <3>1
  <2>4. CASE i > Len(a) + Len(b)
    <3>1. i = Len(a) + Len(b) + 1 /\ Len(c) = 1 /\ s[i] = c[1]
      BY <1>1, <1>2, <1>3, <2>1, <2>4
    <3> QED
      BY <1>1, <3>1
  <2> QED
    BY <1>1, <2>1, <2>2, <2>3, <2>4
<1>5. Simple(s)
  BY <1>1, <1>4 DEF Simple
<1> QED
  BY <1>3, <1>5 DEF s

LEMMA ClauseInputsAre ==
  ASSUME NEW in \in ClauseInputs
  PROVE  in[1] \in Seq(ClauseOf) /\ Simple(in[1]) /\ in[2] \in Nat \cup {None}
<1>1. /\ in[1] \in {c[1] \o c[2] \o c[3] : c \in Some({">=", ">"}) \X Some({"!="}) \X Some({"<", "<="})} \cup Some({"="})
      /\ in[2] \in Versions \cup {None}
  BY DEF ClauseInputs
<1>2. in[2] \in Nat \cup {None}
  BY <1>1, VersionRangesAssumption DEF Versions
<1>3. CASE in[1] \in Some({"="})
  <2>1. CASE in[1] = <<>>
    <3>1. <<>> \in Seq(ClauseOf) /\ DOMAIN <<>> = {}
      OBVIOUS
    <3>2. in[1] \in Seq(ClauseOf) /\ DOMAIN in[1] = {}
      BY <2>1, <3>1, Zenon
    <3> QED
      BY <1>2, <3>2 DEF Simple
  <2>2. CASE \E k \in [op : {"="}, at : 1..MaxVersion] : in[1] = <<k>>
    <3>1. PICK k \in [op : {"="}, at : 1..MaxVersion] : in[1] = <<k>>
      BY <2>2
    <3>2. k \in ClauseOf
      BY VersionRangesAssumption DEF ClauseOf, ClauseOps
    <3>3. in[1] \in Seq(ClauseOf) /\ DOMAIN in[1] = {1}
      BY <3>1, <3>2, OneTyped, SeqOfOne
    <3> QED
      BY <1>2, <3>3 DEF Simple
  <2> QED
    BY <1>2, <1>3, <2>1, <2>2 DEF Some
<1>4. CASE \E c \in Some({">=", ">"}) \X Some({"!="}) \X Some({"<", "<="}) : in[1] = c[1] \o c[2] \o c[3]
  <2>1. PICK c \in Some({">=", ">"}) \X Some({"!="}) \X Some({"<", "<="}) : in[1] = c[1] \o c[2] \o c[3]
    BY <1>4
  <2>2. c[1] \in Some({">=", ">"}) /\ c[2] \in Some({"!="}) /\ c[3] \in Some({"<", "<="})
    OBVIOUS
  <2>3. c[1] \o c[2] \o c[3] \in Seq(ClauseOf) /\ Simple(c[1] \o c[2] \o c[3])
    BY <2>2, TripleIs
  <2> QED
    BY <1>2, <2>1, <2>3, Zenon
<1> QED
  BY <1>1, <1>3, <1>4

\* The converters never narrow what an advisory says, and what has changed for
\* a version is a delta (converters/*.py, delta_detector.py).
THEOREM ConvertersSoundHolds == Spec => []ConvertersSound
<1>1. Chosen => ConvertersSound
  <2> SUFFICES ASSUME Chosen PROVE ConvertersSound
    OBVIOUS
  <2>1. ASSUME part = "clauses" PROVE ConversionSound(input[1], input[2])
    <3>1. input \in ClauseInputs
      BY <2>1 DEF Chosen
    <3> QED
      BY <3>1, ClauseInputsAre, ConversionIsSound
  <2>2. ASSUME part = "entries" PROVE EntriesSound(input[1])
    <3>1. PICK es \in EntryInputs : input = <<es>>
      BY <2>2 DEF Chosen
    <3>2. input[1] = es /\ es \in Seq(EntryOf)
      BY <3>1, EntryInputsAre
    <3> QED
      BY <3>2, EntriesAreSound
  <2>3. ASSUME part = "delta" PROVE DeltaSound(input[1], input[2])
    BY DeltaIsSound
  <2> QED
    BY <2>1, <2>2, <2>3 DEF ConvertersSound
<1> QED
  BY <1>1, InputsChosen, PTL

-----------------------------------------------------------------------------
(* How a tool is rated.                                                    *)

Weights == {"command_execution", "sql_injection", "filesystem_mutation", "ssrf", "credential_exposure",
            "env_tampering", "prompt_injection"}

LEMMA WeightIs ==
  /\ DOMAIN Analysis!Weight = Weights /\ IsFiniteSet(Weights)
  /\ \A r \in Weights : Analysis!Weight[r] \in 0..10
  /\ Analysis!Weight["command_execution"] = 10
<1>1. IsFiniteSet(Weights)
  <2>1. Weights = {"command_execution"} \cup {"sql_injection"} \cup {"filesystem_mutation"} \cup {"ssrf"}
                    \cup {"credential_exposure"} \cup {"env_tampering"} \cup {"prompt_injection"}
    BY DEF Weights
  <2>2. \A x : IsFiniteSet({x})
    BY FS_Singleton
  <2> QED
    BY <2>1, <2>2, FS_Union
<1> QED
  BY <1>1 DEF Analysis!Weight, Weights

LEMMA RisksAre ==
  ASSUME NEW tool
  PROVE  /\ Analysis!Risks(tool) \subseteq Weights /\ IsFiniteSet(Analysis!Risks(tool))
         /\ "command_execution" \in UNION Analysis!Texts(tool) => "command_execution" \in Analysis!Risks(tool)
<1>1. Analysis!Risks(tool) \subseteq Weights
  BY WeightIs DEF Analysis!Risks, Weights
<1>2. "command_execution" \in UNION Analysis!Texts(tool) => "command_execution" \in Analysis!Risks(tool)
  BY WeightIs DEF Analysis!Risks, Weights
<1> QED
  BY <1>1, <1>2, WeightIs, FS_Subset

\* The score of a tool: at least the weight of each of its risks, 20 at most.
LEMMA ScoreIs ==
  ASSUME NEW tool
  PROVE  /\ Analysis!Score(tool) \in 0..20
         /\ \A r \in Analysis!Risks(tool) : Analysis!Weight[r] <= Analysis!Score(tool)
<1> DEFINE S == Analysis!Risks(tool)
           w == Analysis!Weight
           c == [s \in SUBSET S |-> CHOOSE x \in s : TRUE]
           Eq(g) == g = [s \in SUBSET S |-> IF s = {} THEN 0 ELSE LET x == CHOOSE x \in s : TRUE IN g[s \ {x}] + w[x]]
           it == CHOOSE g : Eq(g)
           sum == it[S]
<1>1. Analysis!Score(tool) = Analysis!Min({20, sum})
  BY DEF Analysis!Score, Analysis!FoldSet, Analysis!MapThenFoldSet
<1> HIDE DEF S, w
<1>2. Terms(S, w, c)
  <2>1. IsFiniteSet(S) /\ \A x \in S : w[x] \in Nat
    BY RisksAre, WeightIs DEF S, w
  <2> QED
    BY <2>1 DEF Terms
<1>3. SumOf(S, w, c, it)
  <2>1. PICK g : g = [s \in SUBSET S |-> g[s]] /\ SumOf(S, w, c, g)
    <3> HIDE DEF c
    <3> QED
      BY <1>2, SumExists
  <2>2. Eq(g)
    BY <2>1 DEF SumOf
  <2>3. Eq(it)
    <3> HIDE DEF Eq
    <3> QED
      BY <2>2
  <2> HIDE DEF it
  <2> QED
    BY <2>3 DEF SumOf
<1>4. sum \in Nat /\ \A x \in S : sum >= w[x]
  <2> HIDE DEF c, it
  <2> QED
    BY <1>2, <1>3, SumBounds
<1> HIDE DEF it, c, Eq, sum
<1>5. Analysis!Min({20, sum}) = IF sum <= 20 THEN sum ELSE 20
  <2>1. Analysis!Min({20, sum}) = CHOOSE x \in {20, sum} : \A y \in {20, sum} : x <= y
    BY DEF Analysis!Min
  <2> QED
    BY <1>4, <2>1
<1>6. \A x \in S : w[x] \in 0..10
  BY RisksAre, WeightIs DEF S, w
<1> QED
  BY <1>1, <1>4, <1>5, <1>6 DEF S, w

\* The worst of some severities.
Severities == {"CRITICAL", "HIGH", "MEDIUM", "SAFE"}
IsWorst(all, s) == s \in all /\ \A r \in all : Analysis!Rank[s] >= Analysis!Rank[r]

LEMMA WorstIs ==
  ASSUME NEW all, all \subseteq Severities, all # {}
  PROVE  /\ IsWorst(all, CHOOSE s \in all : \A r \in all : Analysis!Rank[s] >= Analysis!Rank[r])
         /\ \A s : IsWorst(all, s) /\ "CRITICAL" \in all => s = "CRITICAL"
<1>1. /\ Analysis!Rank["CRITICAL"] = 4 /\ Analysis!Rank["HIGH"] = 3
      /\ Analysis!Rank["MEDIUM"] = 2 /\ Analysis!Rank["SAFE"] = 0
  BY DEF Analysis!Rank
<1>2. \E s : IsWorst(all, s)
  <2>1. CASE "CRITICAL" \in all
    <3>1. IsWorst(all, "CRITICAL")
      BY <1>1, <2>1 DEF IsWorst, Severities
    <3> QED
      BY <3>1
  <2>2. CASE "CRITICAL" \notin all /\ "HIGH" \in all
    <3>1. IsWorst(all, "HIGH")
      BY <1>1, <2>2 DEF IsWorst, Severities
    <3> QED
      BY <3>1
  <2>3. CASE "CRITICAL" \notin all /\ "HIGH" \notin all /\ "MEDIUM" \in all
    <3>1. IsWorst(all, "MEDIUM")
      BY <1>1, <2>3 DEF IsWorst, Severities
    <3> QED
      BY <3>1
  <2>4. CASE "CRITICAL" \notin all /\ "HIGH" \notin all /\ "MEDIUM" \notin all
    <3>0. all = {"SAFE"}
      BY <2>4 DEF Severities
    <3>1. IsWorst(all, "SAFE")
      BY <1>1, <3>0 DEF IsWorst
    <3> QED
      BY <3>1
  <2> QED
    BY <2>1, <2>2, <2>3, <2>4
<1>3. IsWorst(all, CHOOSE s \in all : \A r \in all : Analysis!Rank[s] >= Analysis!Rank[r])
  BY <1>2 DEF IsWorst
<1>4. \A s : IsWorst(all, s) /\ "CRITICAL" \in all => s = "CRITICAL"
  BY <1>1 DEF IsWorst, Severities
<1> QED
  BY <1>3, <1>4

LEMMA ClassIs ==
  ASSUME NEW tool
  PROVE  /\ Analysis!ClassifyTool(tool) \in Severities
         /\ "command_execution" \in UNION Analysis!Texts(tool) => Analysis!ClassifyTool(tool) = "CRITICAL"
<1> DEFINE D == DOMAIN Analysis!Category
           Of(c) == IF c = "filesystem_mutation" /\ "write" \in tool.text THEN "HIGH" ELSE Analysis!Category[c]
           all == {Of(c) : c \in Analysis!Categories(tool)} \cup {"SAFE"}
<1>1. \A c \in D : Analysis!Category[c] \in Severities
  BY DEF Analysis!Category, Severities
<1>2. all \subseteq Severities /\ all # {}
  <2>1. Analysis!Categories(tool) \subseteq D
    BY DEF Analysis!Categories
  <2> HIDE DEF D
  <2> QED
    BY <1>1, <2>1 DEF Severities
<1>3. Analysis!ClassifyTool(tool) = CHOOSE s \in all : \A r \in all : Analysis!Rank[s] >= Analysis!Rank[r]
  BY DEF Analysis!ClassifyTool
<1>4. ASSUME "command_execution" \in UNION Analysis!Texts(tool) PROVE "CRITICAL" \in all
  <2>1. "command_execution" \in Analysis!Categories(tool)
    BY <1>4 DEF Analysis!Categories, Analysis!Category
  <2>2. Of("command_execution") = "CRITICAL"
    BY DEF Analysis!Category
  <2> QED
    BY <2>1, <2>2
<1> HIDE DEF all
<1>5. IsWorst(all, Analysis!ClassifyTool(tool))
  BY <1>2, <1>3, WorstIs
<1> QED
  BY <1>2, <1>4, <1>5, WorstIs DEF IsWorst

\* The severity of a server is that of its worst tool.
LEMMA OverallIs ==
  ASSUME NEW tools
  PROVE  /\ \A t \in tools : Analysis!Rank[Analysis!ClassifyTool(t)] <= Analysis!Rank[Analysis!OverallSeverity(tools)]
         /\ \A t \in tools : "command_execution" \in UNION Analysis!Texts(t) => Analysis!OverallSeverity(tools) = "CRITICAL"
<1> DEFINE all == {Analysis!ClassifyTool(t) : t \in tools} \cup {"SAFE"}
<1>1. all \subseteq Severities /\ all # {}
  BY ClassIs DEF Severities
<1>2. Analysis!OverallSeverity(tools) = CHOOSE s \in all : \A r \in all : Analysis!Rank[s] >= Analysis!Rank[r]
  BY DEF Analysis!OverallSeverity
<1>3. \A t \in tools : /\ Analysis!ClassifyTool(t) \in all
                       /\ "command_execution" \in UNION Analysis!Texts(t) => "CRITICAL" \in all
  BY ClassIs
<1> HIDE DEF all
<1>4. IsWorst(all, Analysis!OverallSeverity(tools))
  BY <1>1, <1>2, WorstIs
<1>5. \A s \in Severities : Analysis!Rank[s] \in Nat
  BY DEF Analysis!Rank, Severities
<1> QED
  BY <1>1, <1>3, <1>4, <1>5, WorstIs DEF IsWorst

\* The tier of a server, and the tools that are of the two worst tiers.
LEMMA TierIs ==
  ASSUME NEW score \in 0..20
  PROVE  /\ Analysis!TierOf(score) \in {"critical", "high"} <=> score >= 10
         /\ Analysis!TierOf(score) \in {"critical", "high", "medium", "low"}
<1>1. CASE score >= 14
  BY <1>1 DEF Analysis!TierOf
<1>2. CASE score \in 10..13
  BY <1>2 DEF Analysis!TierOf
<1>3. CASE score \in 5..9
  BY <1>3 DEF Analysis!TierOf
<1>4. CASE score < 5
  BY <1>4 DEF Analysis!TierOf
<1> QED
  BY <1>1, <1>2, <1>3, <1>4

\* The tier of a server is that of its worst tool, and each risk of each tool
\* has its advice (capability_classifier.py).
THEOREM ProfileIsOfWorst ==
  ASSUME NEW tools, IsFiniteSet(tools)
  PROVE  Analysis!ProfileIsWorst(tools)
<1> DEFINE scores == {Analysis!Score(u) : u \in tools}
           worst == Analysis!Max(scores)
<1>1. tools # {} => worst \in scores /\ \A x \in scores : x <= worst
  <2> SUFFICES ASSUME tools # {} PROVE worst \in scores /\ \A x \in scores : x <= worst
    OBVIOUS
  <2> DEFINE f == [u \in tools |-> Analysis!Score(u)]
  <2>1. f \in Surjection(tools, scores)
    BY DEF Surjection
  <2>2. scores # {} /\ scores \subseteq Int
    BY ScoreIs
  <2>3. IsFiniteSet(scores)
    <3> HIDE DEF f, scores
    <3> QED
      BY <2>1, FS_Surjection
  <2>4. worst = Max(scores)
    BY DEF Analysis!Max, Max
  <2> HIDE DEF scores, worst
  <2> QED
    BY <2>2, <2>3, <2>4, MostOf
<1>2. \A t \in tools : Analysis!Score(t) \in scores /\ Analysis!Score(t) \in 0..20
  BY ScoreIs
<1>3. \A t \in tools : Analysis!Score(t) <= worst
  <2> HIDE DEF scores, worst
  <2> QED
    BY <1>1, <1>2
<1>4. Analysis!Profile(tools).highest = IF tools = {} THEN "low" ELSE Analysis!TierOf(worst)
  BY DEF Analysis!Profile
<1>5. Analysis!Profile(tools).critical \cup Analysis!Profile(tools).high
        = {t \in tools : Analysis!TierOf(Analysis!Score(t)) \in {"critical", "high"}}
  BY DEF Analysis!Profile
<1>6. tools # {} => worst \in 0..20 /\ \E t \in tools : worst = Analysis!Score(t)
  BY <1>1, ScoreIs
<1> HIDE DEF worst
<1>7. Analysis!Profile(tools).highest \in {"critical", "high"}
        <=> \E t \in tools : Analysis!TierOf(Analysis!Score(t)) \in {"critical", "high"}
  <2>1. CASE tools = {}
    BY <1>4, <2>1
  <2>2. CASE tools # {}
    <3>1. Analysis!Profile(tools).highest \in {"critical", "high"} <=> worst >= 10
      BY <1>4, <1>6, <2>2, TierIs
    <3>2. \A t \in tools : Analysis!TierOf(Analysis!Score(t)) \in {"critical", "high"} <=> Analysis!Score(t) >= 10
      BY <1>2, TierIs
    <3> QED
      BY <1>2, <1>3, <1>6, <2>2, <3>1, <3>2
  <2> QED
    BY <2>1, <2>2
<1>8. (Analysis!Profile(tools).highest \in {"critical", "high"})
        = (Analysis!Profile(tools).critical \cup Analysis!Profile(tools).high # {})
  BY <1>5, <1>7
<1>9. ASSUME NEW t \in tools, "command_execution" \in UNION Analysis!Texts(t)
      PROVE  Analysis!Profile(tools).highest \in {"critical", "high"} /\ Analysis!OverallSeverity(tools) = "CRITICAL"
  <2>1. "command_execution" \in Analysis!Risks(t)
    BY <1>9, RisksAre
  <2>2. Analysis!Score(t) >= 10
    BY <2>1, WeightIs, ScoreIs
  <2>3. Analysis!TierOf(Analysis!Score(t)) \in {"critical", "high"}
    BY <1>2, <2>2, TierIs
  <2> QED
    BY <1>7, <1>9, <2>3, OverallIs
<1>10. ASSUME NEW t \in tools, NEW c \in Analysis!Categories(t)
       PROVE  \E m \in UNION {Analysis!Mitigations(u) : u \in tools} : m[1] = c
  <2> DEFINE m == IF c = "filesystem_mutation" /\ Analysis!ClassifyTool(t) = "HIGH" THEN <<c, "write">> ELSE <<c, "read">>
  <2>1. m \in Analysis!Mitigations(t) /\ m[1] = c
    BY DEF Analysis!Mitigations
  <2> HIDE DEF m
  <2> QED
    BY <2>1
<1> QED
  BY <1>3, <1>8, <1>9, <1>10, OverallIs DEF Analysis!ProfileIsWorst, worst

\* Tools have as many parameters as they like, but not more.
Listing(tools) == IsFiniteSet(DOMAIN tools) /\ \A i \in DOMAIN tools : IsFiniteSet(DOMAIN tools[i].params)

LEMMA AnalysisCounts ==
  /\ \A S : Analysis!Cardinality(S) = Cardinality(S)
  /\ \A S : Analysis!Max(S) = Max(S)
BY DEF Analysis!Cardinality, Cardinality, Analysis!IsFiniteSet, IsFiniteSet, Analysis!Max, Max

\* What the linter says of a tool is finite and of one of three severities.
LEMMA LintIs ==
  ASSUME NEW tool, IsFiniteSet(DOMAIN tool.params)
  PROVE  /\ IsFiniteSet(Analysis!LintTool(tool))
         /\ \A x \in Analysis!LintTool(tool) : x.severity \in {"CRITICAL", "WARNING", "INFO"}
         /\ "vague" \in tool.text \/ (\E p \in DOMAIN tool.params : tool.params[p].type = "any") =>
              \E x \in Analysis!LintTool(tool) : x.severity = "CRITICAL"
<1>1. ASSUME NEW S, NEW r, NEW s \in {"CRITICAL", "WARNING", "INFO"}, NEW t,
             S = {} \/ S = {Analysis!Issue(r, s, t)}
      PROVE  /\ IsFiniteSet(S) /\ \A x \in S : x.severity \in {"CRITICAL", "WARNING", "INFO"}
             /\ S # {} => \E x \in S : x.severity = s
  <2>1. Analysis!Issue(r, s, t).severity = s
    BY DEF Analysis!Issue
  <2>2. IsFiniteSet({Analysis!Issue(r, s, t)}) /\ IsFiniteSet({})
    BY FS_Singleton, FS_EmptySet
  <2> QED
    BY <1>1, <2>1, <2>2
<1>2. ASSUME NEW p
      PROVE  /\ IsFiniteSet(Analysis!LintParam(tool, p))
             /\ \A x \in Analysis!LintParam(tool, p) : x.severity \in {"CRITICAL", "WARNING", "INFO"}
             /\ tool.params[p].type = "any" => \E x \in Analysis!LintParam(tool, p) : x.severity = "CRITICAL"
  <2> DEFINE q == tool.params[p]
             t == <<tool.name, p>>
             A == Analysis!If(q.type = "any", Analysis!Issue("MCP-R002", "CRITICAL", t))
             B == Analysis!If(tool.declared /\ "vague" \in q.text /\ p \in tool.required, Analysis!Issue("MCP-R004", "WARNING", t))
             C == Analysis!If(q.type = "array" /\ ~q.bounded, Analysis!Issue("MCP-R005", "WARNING", t))
             D == Analysis!If(q.type = "number" /\ ~q.bounded, Analysis!Issue("MCP-R005", "INFO", t))
  <2>1. Analysis!LintParam(tool, p) = A \cup B \cup C \cup D
    BY DEF Analysis!LintParam
  <2>2. /\ IsFiniteSet(A) /\ IsFiniteSet(B) /\ IsFiniteSet(C) /\ IsFiniteSet(D)
        /\ \A x \in A \cup B \cup C \cup D : x.severity \in {"CRITICAL", "WARNING", "INFO"}
        /\ q.type = "any" => \E x \in A : x.severity = "CRITICAL"
    <3>1. A = {} \/ A = {Analysis!Issue("MCP-R002", "CRITICAL", t)}
      BY DEF Analysis!If
    <3>2. B = {} \/ B = {Analysis!Issue("MCP-R004", "WARNING", t)}
      BY DEF Analysis!If
    <3>3. C = {} \/ C = {Analysis!Issue("MCP-R005", "WARNING", t)}
      BY DEF Analysis!If
    <3>4. D = {} \/ D = {Analysis!Issue("MCP-R005", "INFO", t)}
      BY DEF Analysis!If
    <3>5. q.type = "any" => A # {}
      BY DEF Analysis!If
    <3> HIDE DEF A, B, C, D, t
    <3>6. IsFiniteSet(A) /\ (\A x \in A : x.severity \in {"CRITICAL", "WARNING", "INFO"}) /\ (A # {} => \E x \in A : x.severity = "CRITICAL")
      BY <1>1, <3>1
    <3>7. IsFiniteSet(B) /\ \A x \in B : x.severity \in {"CRITICAL", "WARNING", "INFO"}
      BY <1>1, <3>2
    <3>8. IsFiniteSet(C) /\ \A x \in C : x.severity \in {"CRITICAL", "WARNING", "INFO"}
      BY <1>1, <3>3
    <3>9. IsFiniteSet(D) /\ \A x \in D : x.severity \in {"CRITICAL", "WARNING", "INFO"}
      BY <1>1, <3>4
    <3> QED
      BY <3>5, <3>6, <3>7, <3>8, <3>9
  <2> HIDE DEF A, B, C, D
  <2> QED
    BY <2>1, <2>2, FS_Union
<1> DEFINE A == Analysis!If("vague" \in tool.text, Analysis!Issue("MCP-R001", "CRITICAL", <<tool.name>>))
           B == Analysis!If(~tool.plain, Analysis!Issue("MCP-R006", "WARNING", <<tool.name>>))
           C == Analysis!If(tool.mutating /\ ~tool.output, Analysis!Issue("MCP-R007", "WARNING", <<tool.name>>))
           D == Analysis!If(DOMAIN tool.params # {} /\ ~tool.declared, Analysis!Issue("MCP-R003", "CRITICAL", <<tool.name>>))
           f == [p \in DOMAIN tool.params |-> Analysis!LintParam(tool, p)]
           all == {Analysis!LintParam(tool, p) : p \in DOMAIN tool.params}
<1>3. Analysis!LintTool(tool) = A \cup B \cup C \cup D \cup UNION all
  BY DEF Analysis!LintTool
<1>4. /\ IsFiniteSet(A) /\ IsFiniteSet(B) /\ IsFiniteSet(C) /\ IsFiniteSet(D)
      /\ \A x \in A \cup B \cup C \cup D : x.severity \in {"CRITICAL", "WARNING", "INFO"}
      /\ "vague" \in tool.text => \E x \in A : x.severity = "CRITICAL"
  <2>1. A = {} \/ A = {Analysis!Issue("MCP-R001", "CRITICAL", <<tool.name>>)}
    BY DEF Analysis!If
  <2>2. B = {} \/ B = {Analysis!Issue("MCP-R006", "WARNING", <<tool.name>>)}
    BY DEF Analysis!If
  <2>3. C = {} \/ C = {Analysis!Issue("MCP-R007", "WARNING", <<tool.name>>)}
    BY DEF Analysis!If
  <2>4. D = {} \/ D = {Analysis!Issue("MCP-R003", "CRITICAL", <<tool.name>>)}
    BY DEF Analysis!If
  <2>5. "vague" \in tool.text => A # {}
    BY DEF Analysis!If
  <2> HIDE DEF A, B, C, D
  <2>6. IsFiniteSet(A) /\ (\A x \in A : x.severity \in {"CRITICAL", "WARNING", "INFO"}) /\ (A # {} => \E x \in A : x.severity = "CRITICAL")
    BY <1>1, <2>1
  <2>7. IsFiniteSet(B) /\ \A x \in B : x.severity \in {"CRITICAL", "WARNING", "INFO"}
    BY <1>1, <2>2
  <2>8. IsFiniteSet(C) /\ \A x \in C : x.severity \in {"CRITICAL", "WARNING", "INFO"}
    BY <1>1, <2>3
  <2>9. IsFiniteSet(D) /\ \A x \in D : x.severity \in {"CRITICAL", "WARNING", "INFO"}
    BY <1>1, <2>4
  <2> QED
    BY <2>5, <2>6, <2>7, <2>8, <2>9
<1>5. IsFiniteSet(all)
  <2>1. f \in Surjection(DOMAIN tool.params, all)
    BY DEF Surjection
  <2> HIDE DEF f, all
  <2> QED
    BY <2>1, FS_Surjection
<1>6. \A s \in all : IsFiniteSet(s)
  BY <1>2
<1>7. \A x \in UNION all : x.severity \in {"CRITICAL", "WARNING", "INFO"}
  BY <1>2
<1>8. (\E p \in DOMAIN tool.params : tool.params[p].type = "any") => \E x \in UNION all : x.severity = "CRITICAL"
  BY <1>2
<1> HIDE DEF A, B, C, D, all
<1>9. IsFiniteSet(UNION all)
  BY <1>5, <1>6, FS_UNION
<1>10. IsFiniteSet(A \cup B \cup C \cup D \cup UNION all)
  BY <1>4, <1>9, FS_Union
<1> QED
  BY <1>3, <1>4, <1>7, <1>8, <1>10

\* How many issues of a severity each tool has.
Noted(tools, severity) ==
  [i \in DOMAIN tools |-> Cardinality({x \in Analysis!LintTool(tools[i]) : x.severity = severity})]

LEMMA NotedIs ==
  ASSUME NEW tools, Listing(tools), NEW severity, NEW i \in DOMAIN tools
  PROVE  /\ Noted(tools, severity)[i] \in Nat
         /\ Noted(tools, severity)[i] = 0 <=> \A x \in Analysis!LintTool(tools[i]) : x.severity # severity
<1> DEFINE S == {x \in Analysis!LintTool(tools[i]) : x.severity = severity}
<1>1. Noted(tools, severity)[i] = Cardinality(S)
  BY DEF Noted
<1>2. IsFiniteSet(S)
  BY LintIs, FS_Subset DEF Listing
<1>3. Cardinality(S) \in Nat /\ (Cardinality(S) = 0 <=> S = {})
  <2> HIDE DEF S
  <2> QED
    BY <1>2, FS_CardinalityType, FS_EmptySet
<1> QED
  BY <1>1, <1>3

LEMMA CountIs ==
  ASSUME NEW tools, Listing(tools), NEW severity
  PROVE  SumIs(DOMAIN tools, Noted(tools, severity), Analysis!Count(tools, severity))
<1> DEFINE S == DOMAIN tools
           w == Noted(tools, severity)
           c == [s \in SUBSET S |-> CHOOSE x \in s : TRUE]
           of(i) == Analysis!Cardinality({x \in Analysis!LintTool(tools[i]) : x.severity = severity})
           Eq(g) == g = [s \in SUBSET S |-> IF s = {} THEN 0 ELSE LET x == CHOOSE x \in s : TRUE IN g[s \ {x}] + of(x)]
           it == CHOOSE g : Eq(g)
<1>1. Analysis!Count(tools, severity) = it[S]
  BY DEF Analysis!Count, Analysis!FoldSeq, Analysis!FoldFunction, Analysis!FoldFunctionOnSet, Analysis!MapThenFoldSet
<1>2. \A i \in S : of(i) = w[i]
  BY AnalysisCounts DEF Noted
<1>3. Terms(S, w, c)
  BY NotedIs DEF Terms, Listing
<1> HIDE DEF w, of
<1>4. SumOf(S, w, c, it)
  <2>1. PICK g : g = [s \in SUBSET S |-> g[s]] /\ SumOf(S, w, c, g)
    <3> HIDE DEF c, S
    <3> QED
      BY <1>3, SumExists
  <2>2. Eq(g)
    <3>1. ASSUME NEW s \in SUBSET S PROVE g[s] = IF s = {} THEN 0 ELSE LET x == CHOOSE x \in s : TRUE IN g[s \ {x}] + of(x)
      <4>1. CASE s = {}
        BY <2>1, <4>1 DEF SumOf
      <4>2. CASE s # {}
        <5> DEFINE y == CHOOSE x \in s : TRUE
        <5>1. y \in S /\ c[s] = y
          BY <4>2
        <5>2. g[s] = g[s \ {c[s]}] + w[c[s]]
          BY <2>1, <4>2 DEF SumOf
        <5> HIDE DEF y, c
        <5>3. g[s] = g[s \ {y}] + of(y)
          BY <1>2, <5>1, <5>2
        <5> QED
          BY <4>2, <5>3 DEF y
      <4> QED
        BY <4>1, <4>2
    <3> QED
      BY <2>1, <3>1
  <2>3. Eq(it)
    <3> HIDE DEF Eq
    <3> QED
      BY <2>2
  <2> HIDE DEF it
  <2>4. ASSUME NEW s \in SUBSET S PROVE it[s] = IF s = {} THEN 0 ELSE it[s \ {c[s]}] + w[c[s]]
    <3>1. CASE s = {}
      BY <2>3, <3>1
    <3>2. CASE s # {}
      <4> DEFINE y == CHOOSE x \in s : TRUE
      <4>1. y \in S /\ c[s] = y
        BY <3>2
      <4>2. it[s] = it[s \ {y}] + of(y)
        BY <2>3, <3>2
      <4> HIDE DEF y, c
      <4> QED
        BY <1>2, <3>2, <4>1, <4>2
    <3> QED
      BY <3>1, <3>2
  <2> QED
    BY <2>4 DEF SumOf
<1> QED
  BY <1>1, <1>3, <1>4 DEF SumIs, w

-----------------------------------------------------------------------------
(* The surfaces that the threat engine looks at.                           *)

LEMMA MostOfOne ==
  ASSUME NEW i \in Int
  PROVE  Analysis!Max({i}) = i
BY DEF Analysis!Max

\* Every text of m tools is a surface.
Surfaced(m, tools) ==
  /\ DOMAIN Analysis!Surfaces(tools)
       = {<<tools[i].name>> : i \in 1..m}
           \cup UNION {{<<tools[i].name, p>> : p \in DOMAIN tools[i].params} : i \in 1..m}
  /\ \A i \in 1..m :
       /\ Analysis!Surfaces(tools)[<<tools[i].name>>] = tools[i].text
       /\ \A p \in DOMAIN tools[i].params :
            Analysis!Surfaces(tools)[<<tools[i].name, p>>] = tools[i].params[p].text

\* If no two tools share a name, every text of every tool is a surface.
LEMMA SurfacesAre ==
  ASSUME NEW m \in Nat, NEW tools, DOMAIN tools = 1..m, Analysis!UniqueTools(tools)
  PROVE  Surfaced(m, tools)
<1> DEFINE at == Analysis!Surfaces(tools)
           names == {tools[i].name : i \in DOMAIN tools}
           pairs == UNION {{<<tools[i].name, p>> : p \in DOMAIN tools[i].params} : i \in DOMAIN tools}
           last(n) == Analysis!Max({i \in DOMAIN tools : tools[i].name = n})
           lastP(s) == Analysis!Max({i \in DOMAIN tools : tools[i].name = s[1] /\ s[2] \in DOMAIN tools[i].params})
           D == {<<n>> : n \in names} \cup pairs
<1>1. at = [s \in D |-> IF Len(s) = 1 THEN tools[last(s[1])].text ELSE tools[lastP(s)].params[s[2]].text]
  BY DEF Analysis!Surfaces
<1>2. ASSUME NEW i \in 1..m PROVE last(tools[i].name) = i
  <2>1. {j \in DOMAIN tools : tools[j].name = tools[i].name} = {i}
    BY DEF Analysis!UniqueTools
  <2> QED
    BY <2>1, MostOfOne
<1>3. ASSUME NEW i \in 1..m, NEW p \in DOMAIN tools[i].params PROVE lastP(<<tools[i].name, p>>) = i
  <2>1. {j \in DOMAIN tools : tools[j].name = <<tools[i].name, p>>[1] /\ <<tools[i].name, p>>[2] \in DOMAIN tools[j].params} = {i}
    BY DEF Analysis!UniqueTools
  <2> QED
    BY <2>1, MostOfOne
<1>4. DOMAIN at = D /\ D = {<<tools[i].name>> : i \in 1..m} \cup UNION {{<<tools[i].name, p>> : p \in DOMAIN tools[i].params} : i \in 1..m}
  <2>1. {<<n>> : n \in names} = {<<tools[i].name>> : i \in 1..m}
    OBVIOUS
  <2>2. pairs = UNION {{<<tools[i].name, p>> : p \in DOMAIN tools[i].params} : i \in 1..m}
    OBVIOUS
  <2> HIDE DEF pairs, names
  <2>3. D = {<<tools[i].name>> : i \in 1..m} \cup UNION {{<<tools[i].name, p>> : p \in DOMAIN tools[i].params} : i \in 1..m}
    BY <2>1, <2>2
  <2> HIDE DEF D
  <2> QED
    BY <1>1, <2>3
<1>5. ASSUME NEW s \in D PROVE at[s] = IF Len(s) = 1 THEN tools[last(s[1])].text ELSE tools[lastP(s)].params[s[2]].text
  <2> HIDE DEF D, at, last, lastP
  <2> QED
    BY <1>1
<1> HIDE DEF at, last, lastP
<1>6. ASSUME NEW i \in 1..m PROVE at[<<tools[i].name>>] = tools[i].text
  <2> DEFINE s == <<tools[i].name>>
  <2>1. s \in D /\ Len(s) = 1 /\ s[1] = tools[i].name
    OBVIOUS
  <2> HIDE DEF s, D
  <2>2. at[s] = tools[last(s[1])].text
    BY <1>5, <2>1
  <2>3. at[s] = tools[i].text
    BY <1>2, <2>1, <2>2
  <2> QED
    BY <2>3 DEF s
<1>7. ASSUME NEW i \in 1..m, NEW p \in DOMAIN tools[i].params PROVE at[<<tools[i].name, p>>] = tools[i].params[p].text
  <2> DEFINE s == <<tools[i].name, p>>
  <2>1. s \in D /\ Len(s) # 1 /\ s[2] = p
    OBVIOUS
  <2>2. lastP(s) = i
    BY <1>3
  <2> HIDE DEF s, D
  <2>3. at[s] = tools[lastP(s)].params[s[2]].text
    BY <1>5, <2>1
  <2>4. at[s] = tools[i].params[p].text
    BY <2>1, <2>2, <2>3
  <2> QED
    BY <2>4 DEF s
<1> HIDE DEF D
<1> QED
  BY <1>4, <1>6, <1>7 DEF at, Surfaced

LEMMA RulesAre ==
  /\ IsFiniteSet(DOMAIN Analysis!Rules)
  /\ \A r \in DOMAIN Analysis!Rules :
       Analysis!Penalty[Analysis!Rules[r].severity] \in Nat /\ Analysis!Penalty[Analysis!Rules[r].severity] >= 1
<1>1. DOMAIN Analysis!Rules = {"prompt", "code", "hidden", "secret"}
  BY DEF Analysis!Rules
<1>2. {"prompt", "code", "hidden", "secret"} = {"prompt"} \cup {"code"} \cup {"hidden"} \cup {"secret"}
  OBVIOUS
<1>3. \A x : IsFiniteSet({x})
  BY FS_Singleton
<1>4. IsFiniteSet(DOMAIN Analysis!Rules)
  <2> DEFINE R == DOMAIN Analysis!Rules
  <2>1. R = {"prompt"} \cup {"code"} \cup {"hidden"} \cup {"secret"}
    BY <1>1, <1>2
  <2> HIDE DEF R
  <2>2. IsFiniteSet({"prompt"} \cup {"code"} \cup {"hidden"} \cup {"secret"})
    BY <1>3, FS_Union, Zenon
  <2>3. IsFiniteSet(R)
    BY <2>1, <2>2, Zenon
  <2> QED
    BY <2>3 DEF R
<1>5. /\ Analysis!Rules["prompt"].severity = "CRITICAL" /\ Analysis!Rules["code"].severity = "CRITICAL"
      /\ Analysis!Rules["hidden"].severity = "HIGH" /\ Analysis!Rules["secret"].severity = "CRITICAL"
  BY DEF Analysis!Rules
<1>6. Analysis!Penalty["CRITICAL"] = 20 /\ Analysis!Penalty["HIGH"] = 15
  BY DEF Analysis!Penalty
<1> QED
  BY <1>1, <1>4, <1>5, <1>6

\* The threat engine finds something exactly if a text of a tool matches a
\* rule.
LEMMA FoundIs ==
  ASSUME NEW m \in Nat, NEW tools, DOMAIN tools = 1..m, Listing(tools), Analysis!UniqueTools(tools)
  PROVE  /\ IsFiniteSet(Analysis!Analyze(tools))
         /\ \A f \in Analysis!Analyze(tools) : f.rule \in DOMAIN Analysis!Rules
         /\ Analysis!Analyze(tools) = {} <=>
              \A i \in 1..m : (UNION Analysis!Texts(tools[i])) \cap DOMAIN Analysis!Rules = {}
<1> DEFINE at == Analysis!Surfaces(tools)
           R == DOMAIN Analysis!Rules
           D == DOMAIN at
           one == [i \in 1..m |-> <<tools[i].name>>]
           pairs == [i \in 1..m |-> {<<tools[i].name, p>> : p \in DOMAIN tools[i].params}]
           found == [s \in D |-> {[rule |-> r, target |-> s] : r \in at[s] \cap R}]
<1>1. Analysis!Analyze(tools) = UNION {found[s] : s \in D}
  BY DEF Analysis!Analyze
<1>2. D = {one[i] : i \in 1..m} \cup UNION {pairs[i] : i \in 1..m}
  <2>1. {one[i] : i \in 1..m} = {<<tools[i].name>> : i \in 1..m}
    OBVIOUS
  <2>2. UNION {pairs[i] : i \in 1..m} = UNION {{<<tools[i].name, p>> : p \in DOMAIN tools[i].params} : i \in 1..m}
    OBVIOUS
  <2> QED
    BY <2>1, <2>2, SurfacesAre DEF Surfaced
<1>3. /\ \A i \in 1..m : at[<<tools[i].name>>] = tools[i].text /\ <<tools[i].name>> \in D
      /\ \A i \in 1..m : \A p \in DOMAIN tools[i].params :
           at[<<tools[i].name, p>>] = tools[i].params[p].text /\ <<tools[i].name, p>> \in D
  <2>0. Surfaced(m, tools)
    BY SurfacesAre
  <2>1. \A i \in 1..m : at[<<tools[i].name>>] = tools[i].text
    BY <2>0, Zenon DEF Surfaced
  <2>2. \A i \in 1..m : \A p \in DOMAIN tools[i].params : at[<<tools[i].name, p>>] = tools[i].params[p].text
    BY <2>0, Zenon DEF Surfaced
  <2>3. \A i \in 1..m : <<tools[i].name>> = one[i] /\ \A p \in DOMAIN tools[i].params : <<tools[i].name, p>> \in pairs[i]
    OBVIOUS
  <2> HIDE DEF one, pairs, D, at
  <2>4. \A i \in 1..m : one[i] \in D /\ pairs[i] \subseteq D
    BY <1>2
  <2>5. \A i \in 1..m : <<tools[i].name>> \in D /\ \A p \in DOMAIN tools[i].params : <<tools[i].name, p>> \in D
    BY <2>3, <2>4
  <2> QED
    BY <2>1, <2>2, <2>5
<1>4. ASSUME NEW s \in D
      PROVE  \/ \E i \in 1..m : s = <<tools[i].name>>
             \/ \E i \in 1..m : \E p \in DOMAIN tools[i].params : s = <<tools[i].name, p>>
  BY <1>2
<1>5. IsFiniteSet(1..m)
  BY FS_Interval
<1>6. IsFiniteSet({one[i] : i \in 1..m})
  <2> HIDE DEF one
  <2> QED
    BY <1>5, ImageIsFinite
<1>7. \A i \in 1..m : IsFiniteSet(pairs[i])
  <2> TAKE i \in 1..m
  <2> DEFINE P == DOMAIN tools[i].params
             g == [p \in P |-> <<tools[i].name, p>>]
  <2>1. IsFiniteSet(P)
    BY DEF Listing
  <2>2. pairs[i] = {g[p] : p \in P}
    OBVIOUS
  <2> HIDE DEF g, P, pairs
  <2> QED
    BY <2>1, <2>2, ImageIsFinite
<1>8. IsFiniteSet(UNION {pairs[i] : i \in 1..m})
  <2> HIDE DEF pairs
  <2> QED
    BY <1>5, <1>7, FamilyIsFinite
<1>9. IsFiniteSet(D)
  <2> HIDE DEF one, pairs, D
  <2> QED
    BY <1>2, <1>6, <1>8, FS_Union
<1>10. \A s \in D : IsFiniteSet(found[s])
  <2> TAKE s \in D
  <2> DEFINE P == at[s] \cap R
             g == [r \in P |-> [rule |-> r, target |-> s]]
  <2>1. IsFiniteSet(P)
    BY RulesAre, FS_Subset
  <2>2. found[s] = {g[r] : r \in P}
    OBVIOUS
  <2> HIDE DEF g, P, found
  <2> QED
    BY <2>1, <2>2, ImageIsFinite
<1>11. IsFiniteSet(UNION {found[s] : s \in D})
  <2> HIDE DEF found, D
  <2> QED
    BY <1>9, <1>10, FamilyIsFinite
<1>12. \A f \in UNION {found[s] : s \in D} : f.rule \in R
  <2> HIDE DEF R, D, at
  <2> QED
    OBVIOUS
<1>13. UNION {found[s] : s \in D} = {} <=> \A s \in D : at[s] \cap R = {}
  <2> HIDE DEF R, D, at
  <2>1. ASSUME NEW s \in D, NEW r \in at[s] \cap R PROVE UNION {found[t] : t \in D} # {}
    <3>1. [rule |-> r, target |-> s] \in found[s]
      OBVIOUS
    <3> HIDE DEF found
    <3> QED
      BY <3>1
  <2>2. ASSUME NEW s \in D, at[s] \cap R = {} PROVE found[s] = {}
    BY <2>2
  <2> HIDE DEF found
  <2> QED
    BY <2>1, <2>2
<1>14. (\A s \in D : at[s] \cap R = {}) <=> \A i \in 1..m : (UNION Analysis!Texts(tools[i])) \cap R = {}
  <2> HIDE DEF R, D, at
  <2>1. ASSUME \A s \in D : at[s] \cap R = {}, NEW i \in 1..m, NEW t \in Analysis!Texts(tools[i]) PROVE t \cap R = {}
    <3>1. t = tools[i].text \/ \E p \in DOMAIN tools[i].params : t = tools[i].params[p].text
      BY DEF Analysis!Texts
    <3> QED
      BY <1>3, <2>1, <3>1
  <2>2. ASSUME \A i \in 1..m : (UNION Analysis!Texts(tools[i])) \cap R = {}, NEW s \in D PROVE at[s] \cap R = {}
    <3>1. \E i \in 1..m : at[s] \in Analysis!Texts(tools[i])
      BY <1>3, <1>4 DEF Analysis!Texts
    <3> QED
      BY <2>2, <3>1
  <2> QED
    BY <2>1, <2>2
<1> QED
  BY <1>1, <1>11, <1>12, <1>13, <1>14

LEMMA MostOrZero ==
  ASSUME NEW x \in Int
  PROVE  Analysis!Max({0, x}) = IF x < 0 THEN 0 ELSE x
BY DEF Analysis!Max

\* What every finding costs, together.
LEMMA PenaltyIs ==
  ASSUME NEW m \in Nat, NEW tools, DOMAIN tools = 1..m, Listing(tools), Analysis!UniqueTools(tools)
  PROVE  \E n \in Nat :
           /\ n = 0 <=> Analysis!Analyze(tools) = {}
           /\ Analysis!OwaspScore(tools)
                = Analysis!Max({0, 100 - 20 * Analysis!Count(tools, "CRITICAL") - 5 * Analysis!Count(tools, "WARNING")
                                     - Analysis!Count(tools, "INFO") - n})
<1> DEFINE S == Analysis!Analyze(tools)
           of(f) == Analysis!Penalty[Analysis!Rules[f.rule].severity]
           w == [f \in S |-> of(f)]
           c == [s \in SUBSET S |-> CHOOSE x \in s : TRUE]
           Eq(g) == g = [s \in SUBSET S |-> IF s = {} THEN 0 ELSE LET x == CHOOSE x \in s : TRUE IN g[s \ {x}] + of(x)]
           it == CHOOSE g : Eq(g)
           n == it[S]
<1>1. Analysis!OwaspScore(tools)
        = Analysis!Max({0, 100 - 20 * Analysis!Count(tools, "CRITICAL") - 5 * Analysis!Count(tools, "WARNING")
                             - Analysis!Count(tools, "INFO") - n})
  BY DEF Analysis!OwaspScore, Analysis!FoldSet, Analysis!MapThenFoldSet
<1>2. IsFiniteSet(S) /\ \A f \in S : of(f) \in Nat /\ of(f) >= 1 /\ w[f] = of(f)
  <2>1. IsFiniteSet(S) /\ \A f \in S : f.rule \in DOMAIN Analysis!Rules
    BY FoundIs
  <2> HIDE DEF S
  <2> QED
    BY <2>1, RulesAre
<1> HIDE DEF w, of, S
<1>3. Terms(S, w, c)
  BY <1>2 DEF Terms
<1>4. SumOf(S, w, c, it)
  <2>1. PICK g : g = [s \in SUBSET S |-> g[s]] /\ SumOf(S, w, c, g)
    <3> HIDE DEF c
    <3> QED
      BY <1>3, SumExists
  <2>2. Eq(g)
    <3>1. ASSUME NEW s \in SUBSET S PROVE g[s] = IF s = {} THEN 0 ELSE LET x == CHOOSE x \in s : TRUE IN g[s \ {x}] + of(x)
      <4>1. CASE s = {}
        BY <2>1, <4>1 DEF SumOf
      <4>2. CASE s # {}
        <5> DEFINE y == CHOOSE x \in s : TRUE
        <5>1. y \in S /\ c[s] = y
          BY <4>2
        <5>2. g[s] = g[s \ {c[s]}] + w[c[s]]
          BY <2>1, <4>2 DEF SumOf
        <5> HIDE DEF y, c
        <5>3. g[s] = g[s \ {y}] + of(y)
          BY <1>2, <5>1, <5>2
        <5> QED
          BY <4>2, <5>3 DEF y
      <4> QED
        BY <4>1, <4>2
    <3> QED
      BY <2>1, <3>1
  <2>3. Eq(it)
    <3> HIDE DEF Eq
    <3> QED
      BY <2>2
  <2> HIDE DEF it
  <2>4. ASSUME NEW s \in SUBSET S PROVE it[s] = IF s = {} THEN 0 ELSE it[s \ {c[s]}] + w[c[s]]
    <3>1. CASE s = {}
      BY <2>3, <3>1
    <3>2. CASE s # {}
      <4> DEFINE y == CHOOSE x \in s : TRUE
      <4>1. y \in S /\ c[s] = y
        BY <3>2
      <4>2. it[s] = it[s \ {y}] + of(y)
        BY <2>3, <3>2
      <4> HIDE DEF y, c
      <4> QED
        BY <1>2, <3>2, <4>1, <4>2
    <3> QED
      BY <3>1, <3>2
  <2> QED
    BY <2>4 DEF SumOf
<1>5. SumIs(S, w, n)
  BY <1>3, <1>4 DEF SumIs
<1> HIDE DEF n
<1>6. n \in Nat /\ (\A x \in S : n >= w[x]) /\ ((\A x \in S : w[x] = 0) => n = 0)
  BY <1>5, SumIsAtLeast
<1>7. n = 0 <=> S = {}
  BY <1>2, <1>6
<1> QED
  BY <1>1, <1>6, <1>7 DEF S

\* The linter's counts: none of a severity exactly if no tool has an issue of it.
LEMMA CountsAre ==
  ASSUME NEW tools, Listing(tools), NEW severity
  PROVE  /\ Analysis!Count(tools, severity) \in Nat
         /\ Analysis!Count(tools, severity) = 0 <=>
              \A i \in DOMAIN tools : \A x \in Analysis!LintTool(tools[i]) : x.severity # severity
<1> DEFINE n == Analysis!Count(tools, severity)
           w == Noted(tools, severity)
<1>1. SumIs(DOMAIN tools, w, n)
  BY CountIs
<1>2. \A i \in DOMAIN tools : w[i] \in Nat /\ (w[i] = 0 <=> \A x \in Analysis!LintTool(tools[i]) : x.severity # severity)
  BY NotedIs
<1> HIDE DEF n, w
<1>3. n \in Nat /\ (\A i \in DOMAIN tools : n >= w[i]) /\ ((\A i \in DOMAIN tools : w[i] = 0) => n = 0)
  BY <1>1, SumIsAtLeast
<1>4. n = 0 <=> \A i \in DOMAIN tools : w[i] = 0
  BY <1>2, <1>3
<1> QED
  BY <1>2, <1>3, <1>4 DEF n

\* A server is compliant exactly if nothing was found.
LEMMA CompliantIs ==
  ASSUME NEW m \in Nat, NEW tools, DOMAIN tools = 1..m, Listing(tools), Analysis!UniqueTools(tools)
  PROVE  Analysis!OwaspTier(Analysis!OwaspScore(tools)) = "COMPLIANT" <=>
           \A i \in DOMAIN tools : /\ Analysis!LintTool(tools[i]) = {}
                                   /\ (UNION Analysis!Texts(tools[i])) \cap DOMAIN Analysis!Rules = {}
<1> DEFINE C == Analysis!Count(tools, "CRITICAL")
           W == Analysis!Count(tools, "WARNING")
           N == Analysis!Count(tools, "INFO")
           score == Analysis!OwaspScore(tools)
           none(i) == Analysis!LintTool(tools[i]) = {}
           clean(i) == (UNION Analysis!Texts(tools[i])) \cap DOMAIN Analysis!Rules = {}
<1>1. PICK n \in Nat : /\ n = 0 <=> Analysis!Analyze(tools) = {}
                       /\ score = Analysis!Max({0, 100 - 20 * C - 5 * W - N - n})
  BY PenaltyIs
<1>2. C \in Nat /\ W \in Nat /\ N \in Nat
  BY CountsAre
<1>3. C = 0 /\ W = 0 /\ N = 0 <=> \A i \in DOMAIN tools : none(i)
  <2>1. ASSUME NEW i \in DOMAIN tools, C = 0, W = 0, N = 0 PROVE none(i)
    <3>1. \A x \in Analysis!LintTool(tools[i]) : x.severity \in {"CRITICAL", "WARNING", "INFO"}
      BY LintIs DEF Listing
    <3>2. \A x \in Analysis!LintTool(tools[i]) : x.severity # "CRITICAL" /\ x.severity # "WARNING" /\ x.severity # "INFO"
      BY <2>1, CountsAre
    <3> QED
      BY <3>1, <3>2
  <2>2. ASSUME \A i \in DOMAIN tools : none(i) PROVE C = 0 /\ W = 0 /\ N = 0
    BY <2>2, CountsAre
  <2> HIDE DEF C, W, N, none
  <2> QED
    BY <2>1, <2>2
<1>4. n = 0 <=> \A i \in DOMAIN tools : clean(i)
  BY <1>1, FoundIs
<1> HIDE DEF C, W, N, none, clean
<1>5. score \in Nat /\ score <= 100 /\ (score = 100 <=> C = 0 /\ W = 0 /\ N = 0 /\ n = 0)
  <2> DEFINE x == 100 - 20 * C - 5 * W - N - n
  <2>1. x \in Int /\ x <= 100 /\ (x = 100 <=> C = 0 /\ W = 0 /\ N = 0 /\ n = 0)
    BY <1>2
  <2> HIDE DEF x
  <2>2. score = IF x < 0 THEN 0 ELSE x
    BY <1>1, <2>1, MostOrZero DEF x
  <2> HIDE DEF score
  <2> QED
    BY <2>1, <2>2
<1> HIDE DEF score
<1>6. Analysis!OwaspTier(score) = "COMPLIANT" <=> score = 100
  <2>1. CASE score < 70
    BY <1>5, <2>1 DEF Analysis!OwaspTier
  <2>2. CASE score \in 70..99
    BY <1>5, <2>2 DEF Analysis!OwaspTier
  <2>3. CASE score = 100
    BY <2>3 DEF Analysis!OwaspTier
  <2> QED
    BY <1>5, <2>1, <2>2, <2>3
<1>7. Analysis!OwaspTier(score) = "COMPLIANT" <=> \A i \in DOMAIN tools : none(i) /\ clean(i)
  BY <1>3, <1>4, <1>5, <1>6
<1> QED
  BY <1>7 DEF score, none, clean

\* Grade A leaves no critical issue.
LEMMA GradeIs ==
  ASSUME NEW tools, Listing(tools), Analysis!Grade(Analysis!LintScore(tools)) = "A", NEW i \in DOMAIN tools
  PROVE  /\ "vague" \notin tools[i].text
         /\ \A p \in DOMAIN tools[i].params : tools[i].params[p].type # "any"
<1> DEFINE C == Analysis!Count(tools, "CRITICAL")
           W == Analysis!Count(tools, "WARNING")
           N == Analysis!Count(tools, "INFO")
           x == 100 - 20 * C - 5 * W - N
           score == Analysis!LintScore(tools)
<1>1. C \in Nat /\ W \in Nat /\ N \in Nat
  BY CountsAre
<1>2. score = Analysis!Max({0, x})
  BY DEF Analysis!LintScore
<1> HIDE DEF C, W, N, score
<1>3. x \in Int /\ (x >= 90 => C = 0)
  BY <1>1
<1> HIDE DEF x
<1>4. score = IF x < 0 THEN 0 ELSE x
  BY <1>2, <1>3, MostOrZero
<1>5. score >= 90
  <2>1. score \in Int /\ Analysis!Grade(score) = "A"
    BY <1>3, <1>4 DEF score
  <2>2. CASE score < 60
    BY <2>1, <2>2 DEF Analysis!Grade
  <2>3. CASE score \in 60..69
    BY <2>1, <2>3 DEF Analysis!Grade
  <2>4. CASE score \in 70..79
    BY <2>1, <2>4 DEF Analysis!Grade
  <2>5. CASE score \in 80..89
    BY <2>1, <2>5 DEF Analysis!Grade
  <2> QED
    BY <2>1, <2>2, <2>3, <2>4, <2>5
<1>6. C = 0
  BY <1>3, <1>4, <1>5
<1>7. \A y \in Analysis!LintTool(tools[i]) : y.severity # "CRITICAL"
  BY <1>6, CountsAre DEF C
<1>8. IsFiniteSet(DOMAIN tools[i].params)
  BY DEF Listing
<1> QED
  BY <1>7, <1>8, LintIs

\* A sequence without one of its elements.
LEMMA RemovedIs ==
  ASSUME NEW S, NEW tools \in Seq(S), NEW i \in DOMAIN tools
  PROVE  /\ Analysis!RemoveAt(tools, i) \in Seq(S)
         /\ Len(Analysis!RemoveAt(tools, i)) = Len(tools) - 1
         /\ \A k \in 1..(Len(tools) - 1) :
              Analysis!RemoveAt(tools, i)[k] = IF k < i THEN tools[k] ELSE tools[k + 1]
<1> DEFINE m == Len(tools)
           a == SubSeq(tools, 1, i - 1)
           b == SubSeq(tools, i + 1, m)
<1>1. m \in Nat /\ DOMAIN tools = 1..m /\ i \in 1..m /\ \A k \in 1..m : tools[k] \in S
  OBVIOUS
<1>2. Analysis!RemoveAt(tools, i) = a \o b
  BY DEF Analysis!RemoveAt
<1> HIDE DEF m
<1>3. a \in Seq(S) /\ Len(a) = i - 1 /\ \A k \in 1..(i - 1) : a[k] = tools[k]
  <2>1. 1 \in Int /\ i - 1 \in Int /\ \A k \in 1..(i - 1) : tools[k] \in S
    BY <1>1
  <2>2. /\ a \in Seq(S) /\ Len(a) = (IF 1 <= i - 1 THEN (i - 1) - 1 + 1 ELSE 0)
        /\ \A k \in 1..((i - 1) - 1 + 1) : a[k] = tools[1 + k - 1]
    BY <2>1, SubSeqProperties
  <2> HIDE DEF a
  <2>3. \A k \in 1..(i - 1) : 1 + k - 1 = k /\ k \in 1..((i - 1) - 1 + 1)
    BY <1>1
  <2> QED
    BY <1>1, <2>2, <2>3
<1>4. b \in Seq(S) /\ Len(b) = m - i /\ \A k \in 1..(m - i) : b[k] = tools[i + k]
  <2>1. i + 1 \in Int /\ m \in Int /\ \A k \in (i + 1)..m : tools[k] \in S
    BY <1>1
  <2>2. /\ b \in Seq(S) /\ Len(b) = (IF i + 1 <= m THEN m - (i + 1) + 1 ELSE 0)
        /\ \A k \in 1..(m - (i + 1) + 1) : b[k] = tools[(i + 1) + k - 1]
    BY <2>1, SubSeqProperties
  <2> HIDE DEF b
  <2>3. \A k \in 1..(m - i) : (i + 1) + k - 1 = i + k /\ k \in 1..(m - (i + 1) + 1)
    BY <1>1
  <2> QED
    BY <1>1, <2>2, <2>3
<1> HIDE DEF a, b
<1>5. /\ a \o b \in Seq(S) /\ Len(a \o b) = Len(a) + Len(b)
      /\ \A k \in 1..(Len(a) + Len(b)) : (a \o b)[k] = IF k <= Len(a) THEN a[k] ELSE b[k - Len(a)]
  BY <1>3, <1>4, ConcatProperties
<1>6. Len(a) + Len(b) = m - 1
  BY <1>1, <1>3, <1>4
<1>7. ASSUME NEW k \in 1..(m - 1) PROVE (a \o b)[k] = IF k < i THEN tools[k] ELSE tools[k + 1]
  <2>1. (a \o b)[k] = IF k <= i - 1 THEN a[k] ELSE b[k - (i - 1)]
    BY <1>3, <1>5, <1>6
  <2>2. CASE k < i
    <3>1. k <= i - 1 /\ k \in 1..(i - 1)
      BY <1>1, <2>2
    <3> QED
      BY <1>3, <2>1, <2>2, <3>1
  <2>3. CASE ~ (k < i)
    <3>1. ~ (k <= i - 1) /\ k - (i - 1) \in 1..(m - i) /\ i + (k - (i - 1)) = k + 1
      BY <1>1, <2>3
    <3> QED
      BY <1>4, <2>1, <2>3, <3>1
  <2> QED
    BY <2>2, <2>3
<1> QED
  BY <1>2, <1>5, <1>6, <1>7 DEF m

\* One tool more is counted with what the linter says of it.
LEMMA CountWithout ==
  ASSUME NEW S, NEW tools \in Seq(S), NEW i \in DOMAIN tools, Listing(tools), NEW severity
  PROVE  \E d \in Nat : Analysis!Count(tools, severity) = Analysis!Count(Analysis!RemoveAt(tools, i), severity) + d
<1> DEFINE m == Len(tools)
           less == Analysis!RemoveAt(tools, i)
           w == Noted(tools, severity)
           v == Noted(less, severity)
           n == Analysis!Count(tools, severity)
           p == Analysis!Count(less, severity)
<1>1. m \in Nat /\ DOMAIN tools = 1..m /\ i \in 1..m
  OBVIOUS
<1>2. DOMAIN less = 1..(m - 1) /\ \A k \in 1..(m - 1) : less[k] = IF k < i THEN tools[k] ELSE tools[k + 1]
  <2>1. /\ less \in Seq(S) /\ Len(less) = m - 1
        /\ \A k \in 1..(m - 1) : less[k] = IF k < i THEN tools[k] ELSE tools[k + 1]
    BY RemovedIs
  <2> HIDE DEF less, m
  <2> QED
    BY <2>1
<1> HIDE DEF m, less
<1>3. Listing(less)
  <2>1. IsFiniteSet(1..(m - 1))
    BY <1>1, FS_Interval
  <2>2. ASSUME NEW k \in 1..(m - 1) PROVE IsFiniteSet(DOMAIN less[k].params)
    <3>1. k \in 1..m /\ k + 1 \in 1..m
      BY <1>1
    <3> QED
      BY <1>1, <1>2, <3>1 DEF Listing
  <2> QED
    BY <1>2, <2>1, <2>2 DEF Listing
<1>4. ASSUME NEW k \in 1..(m - 1) PROVE v[k] = IF k < i THEN w[k] ELSE w[k + 1]
  <2>1. k \in 1..m /\ k + 1 \in 1..m
    BY <1>1
  <2>2. v[k] = Cardinality({x \in Analysis!LintTool(less[k]) : x.severity = severity})
    BY <1>2 DEF Noted
  <2>3. \A j \in 1..m : w[j] = Cardinality({x \in Analysis!LintTool(tools[j]) : x.severity = severity})
    BY <1>1 DEF Noted
  <2>4. CASE k < i
    <3>1. less[k] = tools[k]
      BY <1>2, <2>4
    <3> QED
      BY <2>1, <2>2, <2>3, <2>4, <3>1
  <2>5. CASE ~ (k < i)
    <3>1. less[k] = tools[k + 1]
      BY <1>2, <2>5
    <3> QED
      BY <2>1, <2>2, <2>3, <2>5, <3>1
  <2> QED
    BY <2>4, <2>5
<1>5. SumIs(1..m, w, n) /\ SumIs(1..(m - 1), v, p)
  BY <1>1, <1>2, <1>3, CountIs
<1>6. w[i] \in Nat
  BY <1>1, NotedIs
<1> HIDE DEF w, v, n, p
<1>7. n = p + w[i]
  <2>1. \A k \in 1..(m - 1) : v[k] = IF k < i THEN w[k] ELSE w[k + 1]
    BY <1>4
  <2>2. m \in Nat /\ i \in 1..m /\ Without(m, i, w, v, n, p)
    BY <1>1, <1>5, <2>1 DEF Without
  <2> HIDE DEF m, less
  <2> QED
    BY <2>2, SumWithout
<1> QED
  BY <1>6, <1>7 DEF n, p, less

LEMMA ScoresFall ==
  ASSUME NEW x \in Nat, NEW y \in Nat, NEW z \in Nat, NEW a \in Nat, NEW b \in Nat, NEW c \in Nat
  PROVE  /\ 100 - 20 * (x + a) - 5 * (y + b) - (z + c) \in Int
         /\ 100 - 20 * x - 5 * y - z \in Int
         /\ 100 - 20 * (x + a) - 5 * (y + b) - (z + c) <= 100 - 20 * x - 5 * y - z
OBVIOUS

\* One tool more never betters the score.
LEMMA MoreIsNoBetter ==
  ASSUME NEW S, NEW tools \in Seq(S), NEW i \in DOMAIN tools, Listing(tools)
  PROVE  Analysis!LintScore(tools) <= Analysis!LintScore(Analysis!RemoveAt(tools, i))
<1> DEFINE less == Analysis!RemoveAt(tools, i)
           n(s) == Analysis!Count(tools, s)
           p(s) == Analysis!Count(less, s)
           x == 100 - 20 * n("CRITICAL") - 5 * n("WARNING") - n("INFO")
           y == 100 - 20 * p("CRITICAL") - 5 * p("WARNING") - p("INFO")
<1>1. \A s : n(s) \in Nat /\ \E d \in Nat : n(s) = p(s) + d
  BY CountsAre, CountWithout
<1>2. \A s : p(s) \in Nat
  <2>1. Len(tools) \in Nat /\ DOMAIN less = 1..(Len(tools) - 1)
    BY RemovedIs
  <2>2. \A k \in 1..(Len(tools) - 1) : \E j \in DOMAIN tools : less[k] = tools[j]
    <3> TAKE k \in 1..(Len(tools) - 1)
    <3>1. k \in DOMAIN tools /\ k + 1 \in DOMAIN tools
      OBVIOUS
    <3>2. less[k] = IF k < i THEN tools[k] ELSE tools[k + 1]
      BY RemovedIs
    <3> HIDE DEF less
    <3> QED
      BY <3>1, <3>2
  <2>3. IsFiniteSet(DOMAIN less)
    BY <2>1, FS_Interval
  <2> HIDE DEF less
  <2>4. Listing(less)
    BY <2>1, <2>2, <2>3 DEF Listing
  <2> QED
    BY <2>4, CountsAre
<1>3. Analysis!LintScore(tools) = Analysis!Max({0, x}) /\ Analysis!LintScore(less) = Analysis!Max({0, y})
  BY DEF Analysis!LintScore
<1> HIDE DEF less, n, p
<1>4. x \in Int /\ y \in Int /\ x <= y
  <2>1. PICK a \in Nat : n("CRITICAL") = p("CRITICAL") + a
    BY <1>1
  <2>2. PICK b \in Nat : n("WARNING") = p("WARNING") + b
    BY <1>1
  <2>3. PICK c \in Nat : n("INFO") = p("INFO") + c
    BY <1>1
  <2>4. /\ n("CRITICAL") \in Nat /\ n("WARNING") \in Nat /\ n("INFO") \in Nat
        /\ p("CRITICAL") \in Nat /\ p("WARNING") \in Nat /\ p("INFO") \in Nat
    BY <1>1, <1>2
  <2>5. x = 100 - 20 * (p("CRITICAL") + a) - 5 * (p("WARNING") + b) - (p("INFO") + c)
    BY <2>1, <2>2, <2>3
  <2>6. y = 100 - 20 * p("CRITICAL") - 5 * p("WARNING") - p("INFO")
    OBVIOUS
  <2>7. /\ 100 - 20 * (p("CRITICAL") + a) - 5 * (p("WARNING") + b) - (p("INFO") + c) \in Int
        /\ 100 - 20 * p("CRITICAL") - 5 * p("WARNING") - p("INFO") \in Int
        /\ 100 - 20 * (p("CRITICAL") + a) - 5 * (p("WARNING") + b) - (p("INFO") + c)
             <= 100 - 20 * p("CRITICAL") - 5 * p("WARNING") - p("INFO")
    BY <2>4, ScoresFall
  <2> HIDE DEF x, y
  <2> QED
    BY <2>5, <2>6, <2>7, Zenon
<1> HIDE DEF x, y
<1>5. Analysis!LintScore(tools) <= Analysis!LintScore(less)
  BY <1>3, <1>4, MostOrZero
<1> QED
  BY <1>5 DEF less

\* A server without two tools of one name is compliant exactly if nothing was
\* found, grade A leaves no critical issue, and one tool more betters no score
\* (analyzers/readiness.py, analyzers/threat_engine.py, compliance/owasp.py).
THEOREM CompliantIsCleanFor ==
  ASSUME NEW S, NEW tools \in Seq(S), Listing(tools)
  PROVE  Analysis!CompliantIsClean(tools)
<1>1. Len(tools) \in Nat /\ DOMAIN tools = 1..Len(tools)
  OBVIOUS
<1> DEFINE tier == Analysis!OwaspTier(Analysis!OwaspScore(tools))
           none(i) == Analysis!LintTool(tools[i]) = {}
           clean(i) == (UNION Analysis!Texts(tools[i])) \cap DOMAIN Analysis!Rules = {}
           grade == Analysis!Grade(Analysis!LintScore(tools))
<1>2. Analysis!UniqueTools(tools) => ((tier = "COMPLIANT") <=> \A i \in DOMAIN tools : none(i) /\ clean(i))
  BY <1>1, CompliantIs
<1>3. grade = "A" => \A i \in DOMAIN tools : /\ "vague" \notin tools[i].text
                                             /\ \A p \in DOMAIN tools[i].params : tools[i].params[p].type # "any"
  BY GradeIs
<1>4. \A i \in DOMAIN tools : Analysis!LintScore(tools) <= Analysis!LintScore(Analysis!RemoveAt(tools, i))
  BY MoreIsNoBetter
<1>5. Analysis!CompliantIsClean(tools) <=>
        /\ Analysis!UniqueTools(tools) => (tier = "COMPLIANT") = \A i \in DOMAIN tools : none(i) /\ clean(i)
        /\ grade = "A" => \A i \in DOMAIN tools : /\ "vague" \notin tools[i].text
                                                  /\ \A p \in DOMAIN tools[i].params : tools[i].params[p].type # "any"
        /\ \A i \in DOMAIN tools : Analysis!LintScore(tools) <= Analysis!LintScore(Analysis!RemoveAt(tools, i))
  BY DEF Analysis!CompliantIsClean
<1> HIDE DEF tier, none, clean, grade
<1> QED
  BY <1>2, <1>3, <1>4, <1>5

LEMMA ToolInputsAre ==
  /\ ToolInputs \subseteq Seq(AnyTools)
  /\ \A t \in AnyTools : IsFiniteSet(DOMAIN t.params)
<1>1. \A n, t, ps, r, m : Tool(n, t, ps, r, m).params = ps
  BY DEF Tool
<1>2. DOMAIN None_ = {} /\ \A t, ty, b : DOMAIN Param(t, ty, b) = {"p"}
  BY DEF None_, Param
<1>3. IsFiniteSet({}) /\ IsFiniteSet({"p"})
  BY FS_EmptySet, FS_Singleton
<1>4. \A t \in AnyTools : \E n, x, ps, r, m : t = Tool(n, x, ps, r, m) /\ (ps = None_ \/ \E y, ty, b : ps = Param(y, ty, b))
  <2> SUFFICES ASSUME NEW t \in AnyTools
               PROVE  \E n, x, ps, r, m : t = Tool(n, x, ps, r, m) /\ (ps = None_ \/ \E y, ty, b : ps = Param(y, ty, b))
    OBVIOUS
  <2>1. \/ \E x : t = Tool("a", x[1], None_, {}, x[2])
        \/ \E x : t = Tool(x[1], {"filesystem_mutation", "write"}, Param(x[2], x[3], x[4]), x[5], FALSE)
    BY DEF AnyTools
  <2> QED
    BY <2>1, Zenon
<1>5. ASSUME NEW t \in AnyTools PROVE IsFiniteSet(DOMAIN t.params)
  <2> HIDE DEF AnyTools
  <2>1. t.params = None_ \/ \E y, ty, b : t.params = Param(y, ty, b)
    BY <1>1, <1>4
  <2> QED
    BY <1>2, <1>3, <2>1
<1>6. ToolInputs \subseteq Seq(AnyTools)
  <2> DEFINE some == {x \in AnyTools : x.name = "a" \/ x.required = {"p"}}
  <2>1. ToolInputs = {<<t>> : t \in AnyTools} \cup (AnyTools \X some)
    BY DEF ToolInputs
  <2>2. AnyTools \X some \subseteq AnyTools \X AnyTools
    OBVIOUS
  <2>3. \A t \in AnyTools : <<t>> \in Seq(AnyTools)
    BY ShortSequences
  <2>4. AnyTools \X AnyTools \subseteq Seq(AnyTools)
    BY ShortSequences
  <2> HIDE DEF some, AnyTools
  <2> QED
    BY <2>1, <2>2, <2>3, <2>4
<1> QED
  BY <1>5, <1>6

\* Every server a step may choose is rated by its worst tool and is compliant
\* only if it is clean (analyzers/*.py, compliance/owasp.py).
THEOREM ToolsRatedHolds == Spec => []ToolsRated
<1>1. Chosen => ToolsRated
  <2> SUFFICES ASSUME Chosen, part = "tools"
               PROVE  Analysis!ProfileIsWorst(ToSet(input[1])) /\ Analysis!CompliantIsClean(input[1])
    BY DEF ToolsRated
  <2>1. PICK ts \in ToolInputs : input = <<ts>>
    BY DEF Chosen
  <2>2. input[1] = ts /\ ts \in Seq(AnyTools) /\ \A i \in DOMAIN ts : IsFiniteSet(DOMAIN ts[i].params)
    BY <2>1, ToolInputsAre
  <2>3. IsFiniteSet(DOMAIN ts)
    <3>1. Len(ts) \in Nat /\ DOMAIN ts = 1..Len(ts)
      BY <2>2
    <3> QED
      BY <3>1, FS_Interval
  <2>4. IsFiniteSet(ToSet(ts))
    BY <2>3, ImageIsFinite DEF ToSet
  <2>5. Listing(ts)
    BY <2>2, <2>3 DEF Listing
  <2> QED
    BY <2>2, <2>4, <2>5, ProfileIsOfWorst, CompliantIsCleanFor
<1> QED
  BY <1>1, InputsChosen, PTL

-----------------------------------------------------------------------------
(* Fingerprints and names: MCAlgorithms has its own instances of the two   *)
(* modules, which define the same.                                         *)

LEMMA SameParts ==
  ASSUME NEW corpus, NEW name
  PROVE  /\ {w \in corpus : Edits!Permuted(Edits!Parts(name), Edits!Parts(w))}
              = {w \in corpus : Squats!Permuted(Squats!Parts(name), Squats!Parts(w))}
         /\ \A w : Edits!Permuted(Edits!Parts(name), Edits!Parts(w))
                     <=> Squats!Permuted(Squats!Parts(name), Squats!Parts(w))
BY Zenon DEF Edits!Permuted, Edits!Parts, Edits!Count, Edits!SetToSortSeq, Edits!SetToSeq,
     Edits!SortSeq, Edits!IsInjective, Edits!Cardinality,
     Squats!Permuted, Squats!Parts, Squats!Count, Squats!SetToSortSeq, Squats!SetToSeq,
     Squats!SortSeq, Squats!IsInjective, Squats!Cardinality

LEMMA SameClose ==
  ASSUME NEW corpus, NEW name
  PROVE  {w \in corpus : Edits!KeyboardProximity(name, w)}
           = {w \in corpus : Squats!KeyboardProximity(name, w)}
BY Zenon DEF Edits!KeyboardProximity,
     Squats!KeyboardProximity

LEMMA SameNear ==
  ASSUME NEW words, NEW q
  PROVE  Edits!Search(Edits!Build(words), q, 2) = Squats!Search(Squats!Build(words), q, 2)
BY Zenon DEF Edits!Search, Edits!Build, Edits!Add, Edits!Root, Edits!Node, Edits!Distant,
     Edits!Distance, Edits!Min, Edits!Max, Edits!FoldLeft, Edits!MapThenFoldSet,
     Squats!Search, Squats!Build, Squats!Add, Squats!Root, Squats!Node, Squats!Distant,
     Squats!Distance, Squats!Min, Squats!Max, Squats!FoldLeft, Squats!MapThenFoldSet

LEMMA SameNearest ==
  ASSUME NEW q, NEW ws
  PROVE  Edits!Nearest(q, ws) = Squats!Nearest(q, ws)
BY Zenon DEF Edits!Nearest, Edits!Distance, Edits!Min,
     Squats!Nearest, Squats!Distance, Squats!Min

LEMMA SameReading ==
  ASSUME NEW words, NEW name
  PROVE  /\ Edits!ToSet(words) = Squats!ToSet(words)
         /\ Edits!Normalized(name) = Squats!Normalized(name)
BY Zenon DEF Edits!ToSet, Edits!Normalized,
     Squats!ToSet, Squats!Normalized

LEMMA SameDistance ==
  ASSUME NEW ws
  PROVE  /\ \A s, t : Edits!Distance(s, t) = Squats!Distance(s, t)
         /\ Edits!Metric(ws) <=> Squats!Metric(ws)
BY Zenon DEF Edits!Metric, Edits!Distance, Edits!Min,
     Squats!Metric, Squats!Distance, Squats!Min

LEMMA SameSearch ==
  ASSUME NEW words, NEW query
  PROVE  Edits!SearchExact(words, query) <=> Squats!SearchExact(words, query)
<1>1. Edits!Search(Edits!Build(words), query, 2) = Squats!Search(Squats!Build(words), query, 2)
  BY Zenon, SameNear
<1>2. {w \in Edits!ToSet(words) : Edits!Distance(query, w) <= 2}
        = {w \in Squats!ToSet(words) : Squats!Distance(query, w) <= 2}
  <2>1. \A w : Edits!Distance(query, w) <= 2 <=> Squats!Distance(query, w) <= 2
    BY Zenon, SameDistance
  <2>2. Edits!ToSet(words) = Squats!ToSet(words)
    BY Zenon, SameReading
  <2> QED
    BY SMT, <2>1, <2>2
<1>3. Edits!Metric(Edits!ToSet(words) \cup {query}) <=> Squats!Metric(Squats!ToSet(words) \cup {query})
  BY Zenon, SameReading, SameDistance
<1> QED
  BY SMT, <1>1, <1>2, <1>3 DEF Edits!SearchExact, Squats!SearchExact

LEMMA SameAnalysis ==
  ASSUME NEW words, NEW name
  PROVE  Edits!Analyze(words, name) = Squats!Analyze(words, name)
<1>1. {w \in Edits!ToSet(words) : Edits!Permuted(Edits!Parts(name), Edits!Parts(w))}
        = {w \in Squats!ToSet(words) : Squats!Permuted(Squats!Parts(name), Squats!Parts(w))}
  BY Zenon, SameParts, SameReading
<1>2. {w \in Edits!ToSet(words) : Edits!KeyboardProximity(name, w)}
        = {w \in Squats!ToSet(words) : Squats!KeyboardProximity(name, w)}
  BY Zenon, SameClose, SameReading
<1>3. /\ Edits!ToSet(words) = Squats!ToSet(words)
      /\ Edits!Normalized(name) = Squats!Normalized(name)
  BY Zenon, SameReading
<1>4. ASSUME NEW q
      PROVE  /\ Edits!Search(Edits!Build(words), q, 2) = Squats!Search(Squats!Build(words), q, 2)
             /\ Edits!Nearest(q, Edits!Search(Edits!Build(words), q, 2))
                  = Squats!Nearest(q, Squats!Search(Squats!Build(words), q, 2))
  BY Zenon, SameNear, SameNearest
<1>5. ASSUME NEW tier, NEW canon
      PROVE  Edits!Verdict(tier, canon) = Squats!Verdict(tier, canon)
  BY Zenon DEF Edits!Verdict, Squats!Verdict
<1> QED
  BY SMT, <1>1, <1>2, <1>3, <1>4, <1>5 DEF Edits!Analyze, Squats!Analyze

LEMMA SameVerdict ==
  ASSUME NEW words, NEW name
  PROVE  Edits!VerdictExact(words, name) <=> Squats!VerdictExact(words, name)
<1>1. Edits!Analyze(words, name) = Squats!Analyze(words, name)
  BY Zenon, SameAnalysis
<1>2. /\ Edits!ToSet(words) = Squats!ToSet(words)
      /\ Edits!Normalized(name) = Squats!Normalized(name)
  BY Zenon, SameReading
<1>3. \A w : (\/ Edits!Distance(name, w) <= 2
              \/ Edits!Distance(Edits!Normalized(name), w) <= 2
              \/ Edits!Permuted(Edits!Parts(name), Edits!Parts(w)))
         <=> (\/ Squats!Distance(name, w) <= 2
              \/ Squats!Distance(Squats!Normalized(name), w) <= 2
              \/ Squats!Permuted(Squats!Parts(name), Squats!Parts(w)))
  BY Zenon, <1>2, SameDistance, SameParts
<1>4. Edits!Metric(Edits!ToSet(words) \cup {name, Edits!Normalized(name)})
        <=> Squats!Metric(Squats!ToSet(words) \cup {name, Squats!Normalized(name)})
  BY Zenon, <1>2, SameDistance
<1> QED
  BY SMT, <1>1, <1>2, <1>3, <1>4 DEF Edits!VerdictExact, Squats!VerdictExact

LEMMA SameMatch ==
  ASSUME NEW tools, NEW passports
  PROVE  Marks!MatchIsSure(tools, passports) <=> Prints!MatchIsSure(tools, passports)
BY Zenon DEF Marks!MatchIsSure, Marks!MatchTools, Marks!Confidence, Marks!Greater, Marks!Plus,
     Marks!JaccardOf, Marks!Above, Marks!Names, Marks!Hashes, Marks!Hash,
     Marks!FoldSet, Marks!MapThenFoldSet, Marks!Cardinality,
     Prints!MatchIsSure, Prints!MatchTools, Prints!Confidence, Prints!Greater, Prints!Plus,
     Prints!JaccardOf, Prints!Above, Prints!Names, Prints!Hashes, Prints!Hash,
     Prints!FoldSet, Prints!MapThenFoldSet, Prints!Cardinality

LEMMA SameTamper ==
  ASSUME NEW live, NEW baseline
  PROVE  Marks!TamperExact(live, baseline) <=> Prints!TamperExact(live, baseline)
BY Zenon DEF Marks!TamperExact, Marks!VerifyIntegrity, Marks!NoReport, Marks!Names,
     Marks!Hashes, Marks!Hash,
     Prints!TamperExact, Prints!VerifyIntegrity, Prints!NoReport, Prints!Names,
     Prints!Hashes, Prints!Hash

LEMMA SameDrift ==
  ASSUME NEW before, NEW after
  PROVE  Marks!DriftExact(before, after) <=> Prints!DriftExact(before, after)
BY Zenon DEF Marks!DriftExact, Marks!UniqueNames, Marks!CompareSnapshots, Marks!ByName,
     Marks!InventoryOf,
     Prints!DriftExact, Prints!UniqueNames, Prints!CompareSnapshots, Prints!ByName,
     Prints!InventoryOf

-----------------------------------------------------------------------------
(* What a step may choose of these.                                        *)

LEMMA SixAreFinite ==
  ASSUME NEW a, NEW b, NEW c, NEW d, NEW e, NEW f
  PROVE  IsFiniteSet({a, b, c, d, e, f})
<1>1. IsFiniteSet({a}) /\ IsFiniteSet({b}) /\ IsFiniteSet({c})
  BY FS_Singleton
<1>2. IsFiniteSet({d}) /\ IsFiniteSet({e}) /\ IsFiniteSet({f})
  BY FS_Singleton
<1>3. IsFiniteSet({a} \cup {b}) /\ IsFiniteSet({c} \cup {d}) /\ IsFiniteSet({e} \cup {f})
  BY <1>1, <1>2, FS_Union
<1>4. IsFiniteSet(({a} \cup {b}) \cup (({c} \cup {d}) \cup ({e} \cup {f})))
  BY <1>3, FS_Union
<1>5. {a, b, c, d, e, f} = ({a} \cup {b}) \cup (({c} \cup {d}) \cup ({e} \cup {f}))
  OBVIOUS
<1> QED
  BY <1>4, <1>5

LEMMA MarksTell ==
  ASSUME NEW t \in PrintTools, NEW u \in PrintTools
  PROVE  /\ IsFiniteSet(t.props)
         /\ t.name = u.name /\ t.schema = u.schema => t.props = u.props
<1>1. IsFiniteSet({1, 2}) /\ IsFiniteSet({1}) /\ IsFiniteSet({2}) /\ IsFiniteSet({})
  BY FS_EmptySet, FS_Singleton, FS_AddElement
<1>2. t.props \in {{1, 2}, {1}, {2}, {}}
  BY DEF PrintTools, Mark
<1>3. t.name = u.name /\ t.schema = u.schema => t.props = u.props
  BY DEF PrintTools, Mark
<1> QED
  BY <1>1, <1>2, <1>3

LEMMA ToolSetsAre ==
  ASSUME NEW ts \in ToolSets
  PROVE  Declared(ts) /\ \A us \in ToolSets : SchemasTell(ts, us)
<1>1. ts \subseteq PrintTools /\ UniquelyNamed(ts)
  BY DEF ToolSets, UniquelyNamed
<1>2. IsFiniteSet(PrintTools)
  BY SixAreFinite DEF PrintTools
<1>3. IsFiniteSet(ts)
  BY <1>1, <1>2, FS_Subset
<1>4. \A t \in ts : IsFiniteSet(t.props)
  BY <1>1, MarksTell
<1>5. \A us \in ToolSets : us \subseteq PrintTools
  BY DEF ToolSets
<1>6. \A us \in ToolSets : SchemasTell(ts, us)
  BY <1>1, <1>5, MarksTell DEF SchemasTell
<1> QED
  BY <1>1, <1>3, <1>4, <1>6 DEF Declared

LEMMA PrintPassportsAre ==
  ASSUME NEW ps \in PrintPassports, NEW p \in ps
  PROVE  p.tools \in ToolSets
<1>1. \A n, ts : PassportOf(n, ts).tools = ts
  BY DEF PassportOf
<1>2. \/ \E ts \in ToolSets : p = PassportOf("p", ts)
      \/ \E ts \in ToolSets : p = PassportOf("q", ts)
  BY DEF PrintPassports
<1> QED
  BY <1>1, <1>2

LEMMA SpelledIn ==
  ASSUME NEW A, NEW x \in A, NEW y \in A, NEW z \in A, NEW u \in A
  PROVE  <<x>> \in Seq(A) /\ <<x, y, z>> \in Seq(A) /\ <<x, y, z, u>> \in Seq(A)
OBVIOUS

LEMMA WordsAre ==
  ASSUME NEW w \in Words
  PROVE  w \in Seq({"a", "b", "c", "s", "A", "-"})
<1> DEFINE A == {"a", "b", "c", "s", "A", "-"}
<1>1. "a" \in A /\ "b" \in A /\ "c" \in A /\ "s" \in A /\ "A" \in A /\ "-" \in A
  OBVIOUS
<1>2. \/ w = <<"a", "b", "a">> \/ w = <<"a", "b", "c", "a">> \/ w = <<"c", "a", "a", "b">>
      \/ w = <<"a", "-", "c">> \/ w = <<"c", "-", "a">> \/ w = <<"s", "b", "a">>
      \/ w = <<"A", "b", "a">> \/ w = <<"b">>
  BY Zenon DEF Words
<1> HIDE DEF A
<1>3. \A x, y, z, u \in A : <<x>> \in Seq(A) /\ <<x, y, z>> \in Seq(A) /\ <<x, y, z, u>> \in Seq(A)
  BY Zenon, SpelledIn
<1>4. w \in Seq(A)
  BY Zenon, <1>1, <1>2, <1>3
<1> QED
  BY <1>4 DEF A

\* Whatever a step may choose, tools are recognised, found tampered with and
\* seen to drift exactly when they are, to, and do, and a name is found to
\* imitate another exactly when it does (fingerprints/matcher.py,
\* audit/tamper_detector.py, audit/drift.py, analyzers/typosquat/*.py).
THEOREM PrintsExactHolds == Spec => []PrintsExact
<1>1. Chosen => PrintsExact
  <2> SUFFICES ASSUME Chosen PROVE PrintsExact
    OBVIOUS
  <2>1. ASSUME part = "match" PROVE Prints!MatchIsSure(input[1], input[2])
    <3>1. PICK ts \in ToolSets, ps \in PrintPassports : input = <<ts, ps>>
      BY <2>1 DEF Chosen
    <3>2. Comparable(ts, ps)
      BY ToolSetsAre, PrintPassportsAre DEF Comparable
    <3> QED
      BY <3>1, <3>2, MatchIsSureOf, SameMatch
  <2>2. ASSUME part = "tamper" PROVE Prints!TamperExact(input[1], input[2])
    <3>1. PICK a \in ToolSets, b \in ToolSets : input = <<a, b>>
      BY <2>2 DEF Chosen
    <3>2. UniquelyNamed(a) /\ UniquelyNamed(b)
      BY DEF ToolSets, UniquelyNamed
    <3> QED
      BY <3>1, <3>2, TamperIsExact, SameTamper
  <2>3. ASSUME part = "drift" PROVE Prints!DriftExact(input[1], input[2])
    <3>1. PICK a \in Scans, b \in Scans : input = <<a, b>>
      BY <2>3 DEF Chosen
    <3>2. DOMAIN a \subseteq Int /\ DOMAIN b \subseteq Int
      <4>1. \A s \in Scans : DOMAIN s \in {{}, {1}, {1, 2}}
        BY DEF Scans
      <4> QED
        BY <4>1
    <3> QED
      BY <3>1, <3>2, DriftIsExact, SameDrift
  <2>4. ASSUME part = "name" PROVE Squats!SearchExact(input[1], input[2]) /\ Squats!VerdictExact(input[1], input[2])
    <3>1. PICK x \in Words, y \in Words, z \in Words, q \in Words : input = <<<<x, y, z>>, q>>
      BY <2>4 DEF Chosen
    <3> DEFINE C == {"a", "b", "c", "s", "A", "-"}
    <3>2. \A w \in Words : w \in Seq(C)
      BY WordsAre
    <3>3. "a" \in C
      OBVIOUS
    <3> HIDE DEF C
    <3>4. <<x, y, z>> \in Seq(Seq(C)) /\ q \in Seq(C)
      BY <3>2
    <3>5. input[1] = <<x, y, z>> /\ input[2] = q
      BY <3>1
    <3>6. Squats!SearchExact(<<x, y, z>>, q)
      BY <3>4, SearchIsExact, SameSearch
    <3>7. Squats!VerdictExact(<<x, y, z>>, q)
      BY <3>3, <3>4, VerdictIsExact, SameVerdict
    <3> QED
      BY <3>5, <3>6, <3>7
  <2> QED
    BY <2>1, <2>2, <2>3, <2>4 DEF PrintsExact
<1> QED
  BY <1>1, InputsChosen, PTL

=============================================================================
