---------------------------- MODULE CatalogBuild ----------------------------
(***************************************************************************)
(* `mcp-vuln site-build`: build_site_parallel (site_builder.py) evaluates  *)
(* the passports in chunks on a pool of processes, which share the cache   *)
(* of cache.py on disk, adds the packages that only advisories name, and   *)
(* writes the catalogue index and its shards.  The program, or a process   *)
(* of the pool, may die anywhere, and the files it reads may change.       *)
(*                                                                         *)
(* A record is what the evaluation depends on: the revision of the         *)
(* passport, the advisories that match, and the malware mark.              *)
(***************************************************************************)
EXTENDS Naturals, FiniteSets

CONSTANTS
  Packages, Eco,            \* packages and the ecosystem each has a passport in
  Passported,               \* those with a passport to begin with
  Advisories,               \* records [pkg, eco]: eco is "" when the advisory has none
  Workers,                  \* processes of the pool
  MaxChanges, MaxBuilds     \* bounds

CatalogBuildAssumption ==
  /\ Packages \subseteq Nat \ {0} /\ IsFiniteSet(Packages) /\ Passported \subseteq Packages
  /\ \A a \in Advisories : a.pkg \in Packages
  /\ Workers \in Nat \ {0} /\ MaxChanges \in Nat /\ MaxBuilds \in Nat

VARIABLES
  advs, passports,      \* advisory files; the revision of each passport, 0 for none
  buried, malicious,    \* packages with a tombstone; those in the malware index
  disk, torn,           \* the cache: records by key, keys whose file does not parse
  vulns, index, shards, errors,     \* the site: its files, whether build_errors.json is there
  pc, items, quarantine,            \* a build: its step, what it read when it started
  loaded, todo, catalog, warned,    \* by package: advisories its process loaded, not yet
                                    \* evaluated; records so far; something failed
  changes, builds,
  whole, steady, flipped    \* history: the last build ended; nothing changed since it
                            \* started; packages whose mark has ever changed

inputVars == <<advs, passports, buried, malicious, changes, flipped>>
cacheVars == <<disk, torn>>
siteVars  == <<vulns, index, shards, errors>>
buildVars == <<items, quarantine, loaded, todo, catalog, warned>>
vars == <<inputVars, cacheVars, siteVars, buildVars, pc, builds, whole, steady>>

Record == [rev : 0..(MaxChanges + 1), advs : SUBSET Advisories, marked : BOOLEAN]
Key    == [pkg : Packages, rev : 1..(MaxChanges + 1), advs : SUBSET Advisories]
Empty  == [p \in {} |-> [rev |-> 0, advs |-> {}, marked |-> FALSE]]
With(f, x, r) == [y \in DOMAIN f \cup {x} |-> IF y = x THEN r ELSE f[y]]

IsCatalog(f) == DOMAIN f \subseteq Packages /\ \A p \in DOMAIN f : f[p] \in Record

TypeOK ==
  /\ advs \subseteq Advisories /\ passports \in [Packages -> 0..(MaxChanges + 1)]
  /\ buried \subseteq Packages /\ malicious \subseteq Packages /\ flipped \subseteq Packages
  /\ DOMAIN disk \subseteq Key /\ (\A k \in DOMAIN disk : disk[k] \in Record)
  /\ torn \subseteq Key \ DOMAIN disk
  /\ vulns \subseteq Advisories /\ IsCatalog(index) /\ IsCatalog(shards) /\ IsCatalog(catalog)
  /\ pc \in {"idle", "pool", "rest", "index", "shards"}
  /\ items \in [Packages -> 0..(MaxChanges + 1)] /\ quarantine \subseteq Packages
  /\ todo \subseteq Packages /\ DOMAIN loaded \subseteq Packages /\ todo \cap DOMAIN catalog = {}
  /\ {errors, warned, whole, steady} \subseteq BOOLEAN
  /\ changes \in 0..MaxChanges /\ builds \in 0..MaxBuilds

Init ==
  /\ advs = Advisories /\ passports = [p \in Packages |-> IF p \in Passported THEN 1 ELSE 0]
  /\ buried = {} /\ malicious = {} /\ changes = 0 /\ flipped = {}
  /\ disk = Empty /\ torn = {}
  /\ vulns = {} /\ index = Empty /\ shards = Empty /\ errors = FALSE
  /\ pc = "idle" /\ items = [p \in Packages |-> 0] /\ quarantine = {}
  /\ loaded = [p \in {} |-> {}] /\ todo = {} /\ catalog = Empty /\ warned = FALSE
  /\ builds = 0 /\ whole = FALSE /\ steady = FALSE

Named(p, as)   == {a \in as : a.pkg = p}
Matching(p, as) == {a \in Named(p, as) : a.eco \in {"", Eco[p]}}
KeyOf(p, as)   == [pkg |-> p, rev |-> items[p], advs |-> Named(p, as)]
Evaluated(p, as) == [rev |-> items[p], advs |-> Matching(p, as), marked |-> p \in malicious]

-----------------------------------------------------------------------------
(* The synchronisers, which may run beside a build.                        *)

Change ==
  /\ changes < MaxChanges /\ changes' = changes + 1 /\ steady' = FALSE
  /\ \/ /\ \E a \in Advisories : advs' = IF a \in advs THEN advs \ {a} ELSE advs \cup {a}
        /\ UNCHANGED <<passports, buried, malicious, flipped>>
     \/ /\ \E p \in Packages : passports' = [passports EXCEPT ![p] = @ + 1]
        /\ UNCHANGED <<advs, buried, malicious, flipped>>
     \/ /\ \E p \in Packages : buried' = buried \cup {p}
        /\ UNCHANGED <<advs, passports, malicious, flipped>>
     \/ /\ \E p \in Packages :
             /\ malicious' = IF p \in malicious THEN malicious \ {p} ELSE malicious \cup {p}
             /\ flipped' = flipped \cup {p}
        /\ UNCHANGED <<advs, passports, buried>>
  /\ UNCHANGED <<cacheVars, siteVars, buildVars, pc, builds, whole>>

-----------------------------------------------------------------------------
(* A build.                                                                *)

Start ==
  /\ pc = "idle" /\ builds < MaxBuilds /\ builds' = builds + 1 /\ pc' = "pool"
  /\ vulns' = advs /\ quarantine' = malicious
  /\ items' = [p \in Packages |-> IF p \in buried THEN 0 ELSE passports[p]]
  /\ todo' = {p \in Packages : items'[p] # 0}
  /\ loaded' = [p \in {} |-> {}] /\ catalog' = Empty /\ warned' = FALSE
  /\ whole' = FALSE /\ steady' = TRUE
  /\ UNCHANGED <<inputVars, cacheVars, index, shards, errors>>

\* The packages in the order of the file, in chunks of equal length.
Listed     == {p \in Packages : items[p] # 0}
ChunkSize  == IF Cardinality(Listed) < Workers THEN 1 ELSE Cardinality(Listed) \div Workers
ChunkOf(p) == Cardinality({q \in Listed : q < p}) \div ChunkSize
Chunk(p)   == {q \in Listed : ChunkOf(q) = ChunkOf(p)}
Done(p)    == Chunk(p) \cap todo = {}
Running    == {ChunkOf(p) : p \in {q \in DOMAIN loaded : ~Done(q)}}

\* A process of the pool takes a chunk and reads the advisories itself.
Load(p) ==
  /\ pc = "pool" /\ p \in todo \ DOMAIN loaded /\ Cardinality(Running) < Workers
  /\ loaded' = [q \in DOMAIN loaded \cup Chunk(p) |-> IF q \in Chunk(p) THEN advs ELSE loaded[q]]
  /\ UNCHANGED <<inputVars, cacheVars, siteVars, pc, items, quarantine, todo, catalog, warned, builds, whole, steady>>

Evaluate(p) ==
  /\ pc = "pool" /\ p \in todo \cap DOMAIN loaded
  /\ LET k == KeyOf(p, loaded[p])
         r == IF k \in DOMAIN disk THEN disk[k] ELSE Evaluated(p, loaded[p])
     IN  disk' = With(disk, k, r) /\ torn' = torn \ {k} /\ catalog' = With(catalog, p, r)
  /\ todo' = todo \ {p}
  /\ UNCHANGED <<inputVars, siteVars, pc, items, quarantine, loaded, warned, builds, whole, steady>>

\* A package that cannot be evaluated is left out with a warning.
EvaluateFails(p) ==
  /\ pc = "pool" /\ p \in todo \cap DOMAIN loaded
  /\ todo' = todo \ {p} /\ warned' = TRUE
  /\ UNCHANGED <<inputVars, cacheVars, siteVars, pc, items, quarantine, loaded, catalog, builds, whole, steady>>

\* A write of the cache may stop halfway.
MayTear == torn' \in {torn} \cup {torn \cup {k} : k \in {KeyOf(p, loaded[p]) : p \in todo \cap DOMAIN loaded} \ DOMAIN disk}

\* When a process dies the pool is broken: the chunks that are not finished are
\* lost.  Without a pool it is the one chunk.
ProcessDies ==
  /\ pc = "pool"
  /\ \E p \in todo \cap DOMAIN loaded :
       LET lost == IF Workers = 1 THEN Chunk(p) ELSE UNION {Chunk(q) : q \in todo}
       IN  /\ todo' = todo \ lost
           /\ catalog' = [q \in DOMAIN catalog \ lost |-> catalog[q]]
  /\ warned' = TRUE /\ MayTear
  /\ UNCHANGED <<inputVars, disk, siteVars, pc, items, quarantine, loaded, builds, whole, steady>>

\* The packages that advisories name and no passport that was read: one record
\* for a name, marked by the ecosystem of whichever advisory comes first.
Synthesized(p, as, first) ==
  [rev |-> 0, advs |-> Named(p, as), marked |-> first.eco = Eco[p] /\ p \in quarantine]

AddRest ==
  /\ pc = "pool" /\ todo = {} /\ pc' = "index"
  /\ errors' = (errors \/ warned)
  /\ LET rest == {a.pkg : a \in advs} \ Listed
     IN  \E first \in [rest -> advs] :
           /\ \A p \in rest : first[p].pkg = p
           /\ catalog' = [p \in DOMAIN catalog \cup rest |->
                            IF p \in rest THEN Synthesized(p, advs, first[p]) ELSE catalog[p]]
  /\ UNCHANGED <<inputVars, cacheVars, vulns, index, shards, items, quarantine, loaded, todo, warned, builds, whole, steady>>

WriteIndex ==
  /\ pc = "index" /\ pc' = "shards" /\ index' = catalog
  /\ UNCHANGED <<inputVars, cacheVars, vulns, shards, errors, buildVars, builds, whole, steady>>

WriteShards ==
  /\ pc = "shards" /\ pc' = "idle" /\ shards' = catalog /\ whole' = TRUE
  /\ UNCHANGED <<inputVars, cacheVars, vulns, index, errors, buildVars, builds, steady>>

\* The program dies; of the shards a part may have been written.
Die ==
  /\ pc # "idle" /\ pc' = "idle"
  /\ IF pc = "pool" THEN MayTear ELSE UNCHANGED torn
  /\ \E written \in (IF pc = "shards" THEN SUBSET Packages ELSE {{}}) :
       shards' = [p \in (DOMAIN shards \ written) \cup (DOMAIN catalog \cap written) |->
                    IF p \in written THEN catalog[p] ELSE shards[p]]
  /\ todo' = {}
  /\ UNCHANGED <<inputVars, disk, vulns, index, errors, items, quarantine, loaded, catalog, warned, builds, whole, steady>>

Next ==
  \/ Change \/ Start
  \/ \E p \in Packages : Load(p) \/ Evaluate(p) \/ EvaluateFails(p)
  \/ ProcessDies \/ AddRest \/ WriteIndex \/ WriteShards \/ Die

Spec == Init /\ [][Next]_vars

-----------------------------------------------------------------------------

\* The site of a build that came to its end is one catalogue, and if nothing
\* changed meanwhile it is the one an evaluation without a cache gives, but for
\* two things: a mark that had changed before, which the key of the cache
\* leaves out, and packages that the file of errors accounts for.
SiteCurrent ==
  pc = "idle" /\ whole =>
    /\ index = shards
    /\ steady =>
         /\ vulns = advs
         /\ DOMAIN index \subseteq Listed \cup {a.pkg : a \in advs}
         /\ \A p \in Packages :
              IF p \in Listed
                THEN IF p \in DOMAIN index
                       THEN /\ index[p].rev = passports[p] /\ index[p].advs = Matching(p, advs)
                            /\ index[p].marked # (p \in malicious) => p \in flipped
                       ELSE errors
                ELSE Named(p, advs) # {} => p \in DOMAIN index /\ index[p].advs = Named(p, advs)

=============================================================================
