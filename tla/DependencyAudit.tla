-------------------------- MODULE DependencyAudit --------------------------
(***************************************************************************)
(* `mcp-vuln audit-transitive`: the dependencies of a manifest and their   *)
(* advisories in OSV (transitive.py), and which of them the tools of a     *)
(* server reach (analyzers/reachability/call_graph.py).                    *)
(*                                                                         *)
(* A name is a pair of its lower-case form and its spelling.  A source     *)
(* file is its functions and what each calls, a JavaScript file the tools  *)
(* and the calls found in its text.                                        *)
(***************************************************************************)
EXTENDS Integers, Sequences, SequencesExt, FiniteSetsExt

LOCAL None == 0

-----------------------------------------------------------------------------
(* TransitiveDependencyAuditor                                             *)

Dep(name, ver) == [name |-> name, ver |-> ver]

\* An entry of a manifest has a name and the numbers of its version
\* specification.  One number is taken for the version whatever the operator
\* before it; several run together and are no version.
Garbled == -1
Version(spec) == IF spec = <<>> THEN None ELSE IF Len(spec) = 1 THEN spec[1] ELSE Garbled

\* package.json has one entry for a name, and the one for development wins.
Parsed(manifest) ==
  LET deps == manifest.deps
      IsFirst(i) == \A j \in 1..(i - 1) : deps[j].name # deps[i].name
      Final(n)   == Max({i \in DOMAIN deps : deps[i].name = n})
      firsts     == SetToSortSeq({i \in DOMAIN deps : IsFirst(i)}, <)
  IN  IF manifest.kind = "package.json"
        THEN [k \in DOMAIN firsts |-> Dep(deps[firsts[k]].name, Version(deps[Final(deps[firsts[k]].name)].spec))]
        ELSE [k \in DOMAIN deps |-> Dep(deps[k].name, Version(deps[k].spec))]

Key(d) == <<d.name[1], d.ver>>

Deduped(deps) ==
  FoldLeft(LAMBDA out, d : IF \E k \in DOMAIN out : Key(out[k]) = Key(d) THEN out ELSE Append(out, d), <<>>, deps)

LevelOf(score) == CASE score >= 9 -> 4 [] score \in 7..8 -> 3 [] score \in 4..6 -> 2 [] OTHER -> 1

\* 0 is UNKNOWN
Severity(v) == IF v.severity # None THEN v.severity ELSE IF v.score = None THEN 0 ELSE LevelOf(v.score)

\* osv[d] is what OSV has for a query; the answer is read up to the given
\* place, where it breaks off, or there is none.
AuditDependencies(deps, osv, upto) ==
  LET asked == Deduped(deps)
  IN  UNION {{[dep |-> asked[k], id |-> v.id, severity |-> Severity(v)] : v \in osv[asked[k]]} :
               k \in 1..Min({upto, Len(asked)})}

AuditManifestFile(manifest, osv, upto) == AuditDependencies(Parsed(manifest), osv, upto)

CriticalOrHigh(findings) == \E f \in findings : f.severity >= 3

-----------------------------------------------------------------------------
(* AstReachabilityAnalyzer                                                 *)

Sync(file)  == {f \in file.funs : ~f.async}
Tools(file) == {f \in Sync(file) : f.tool}

\* Without a tool in the file, its functions are taken for entry points; a
\* function that is async is neither seen as a tool nor as a function.
Entries(file) == IF Tools(file) = {} THEN Sync(file) ELSE Tools(file)
Named(file, names) == {f \in Sync(file) : f.name \in names}

\* What the entry points of a file reach in it: a call by name is looked up in
\* the file of the caller alone.
Reached(file) ==
  LET R[k \in 0..Cardinality(file.funs)] ==
        IF k = 0 THEN Entries(file)
        ELSE LET before == R[k - 1] IN before \cup UNION {Named(file, f.calls) : f \in before}
  IN  R[Cardinality(file.funs)]

\* The files in the order they are found.  The calls of a JavaScript file are
\* linked to the tools that are known by then, those of other files included.
Known(files, k) == \E j \in 1..k : IF files[j].js THEN files[j].tools # {} ELSE Entries(files[j]) # {}

ReachablePackages(files) ==
  UNION {IF files[k].js THEN IF Known(files, k) THEN files[k].uses ELSE {}
                        ELSE UNION {f.uses : f \in Reached(files[k])} : k \in DOMAIN files}

Imports(files) == UNION {IF files[k].js THEN files[k].uses ELSE UNION {f.uses : f \in files[k].funs} : k \in DOMAIN files}

EvaluatePackage(files, p) ==
  IF p \in ReachablePackages(files) THEN "REACHABLE"
  ELSE IF p \in Imports(files) THEN "UNREACHABLE_IMPORT" ELSE "NOT_IMPORTED"

AnnotateReachability(findings, files, reachableOnly) ==
  {f \in findings : reachableOnly => EvaluatePackage(files, f.dep.name[1]) = "REACHABLE"}

-----------------------------------------------------------------------------

\* What is reported is what OSV has for an entry of the manifest, and all of it
\* for an entry with one version if the answer is whole, unless another entry
\* of the name takes its place.
FindingsFromOsv(manifest, osv, upto) ==
  LET Of(e)   == Dep(e.name, Version(e.spec))
      entries == ToSet(manifest.deps)
      found   == {<<f.dep, f.id>> : f \in AuditManifestFile(manifest, osv, upto)}
      Shadowed(e) == \E o \in entries : o # e /\ (o.name = e.name \/ Key(Of(o)) = Key(Of(e)))
  IN  /\ \A x \in found : \E e \in entries : x[1] = Of(e) /\ \E v \in osv[Of(e)] : v.id = x[2]
      /\ upto >= Len(manifest.deps) =>
           \A e \in entries : Len(e.spec) = 1 =>
             Shadowed(e) \/ \A v \in osv[Dep(e.name, e.spec[1])] : <<Of(e), v.id>> \in found

\* What the tools of the program really reach: a call by name goes to the file
\* of the caller or else to the others, and async functions run like others.
ReallyReached(files) ==
  LET F  == UNION {{<<k, f>> : f \in files[k].funs} : k \in {j \in DOMAIN files : ~files[j].js}}
      Called(x) == LET own == {y \in F : y[1] = x[1] /\ y[2].name \in x[2].calls}
                   IN  own \cup {y \in F : y[2].name \in x[2].calls \ {z[2].name : z \in own}}
      R[n \in 0..Cardinality(F)] ==
        IF n = 0 THEN {x \in F : x[2].tool}
        ELSE LET before == R[n - 1] IN before \cup UNION {Called(x) : x \in before}
  IN  R[Cardinality(F)]

Used(files) == UNION {x[2].uses : x \in ReallyReached(files)}

\* The analysis is blind to async functions, and to a call from one file to a
\* function of another that has tools of its own.
Blind(files) ==
  \E x \in ReallyReached(files) :
    \/ x[2].async
    \/ x[2] \notin Entries(files[x[1]]) /\ \E y \in ReallyReached(files) : y[1] # x[1] /\ x[2].name \in y[2].calls

JavaScriptLast(files) == SelectSeq(files, LAMBDA f : ~f.js) \o SelectSeq(files, LAMBDA f : f.js)

\* --reachable-only drops no finding in a package that a tool reaches, but for
\* these blind spots; what it drops does not depend on the order in which
\* Python files are found, and JavaScript files only gain by coming last.
ReachableKept(files, findings) ==
  LET kept == AnnotateReachability(findings, files, TRUE)
  IN  /\ \A f \in findings \ kept : f.dep.name[1] \notin Used(files) \/ Blind(files)
      /\ (\A k \in DOMAIN files : ~files[k].js) => AnnotateReachability(findings, Reverse(files), TRUE) = kept
      /\ kept \subseteq AnnotateReachability(findings, JavaScriptLast(files), TRUE)
      /\ \A f \in findings : f.dep.name[1] \in Used(files) => EvaluatePackage(files, f.dep.name[1]) # "NOT_IMPORTED"

=============================================================================
