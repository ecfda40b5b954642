--------------------------- MODULE AnalysisProofs ----------------------------
(***************************************************************************)
(* Refreshes of one extension, proved for any number of overlapping        *)
(* refreshes, any versions and packages, any faults and any caps.          *)
(*                                                                         *)
(* What a refresh holds between its requests is related to the listing it  *)
(* saw (TasksOK), what it can make of a package to the bytes published     *)
(* under the version (AnalysisOf, WholePublished), and what its store step *)
(* writes is taken apart once (Stored, Observed).  NothingSlipsIn needs    *)
(* every snapshot announced (AllKnown); TransientIsSilent needs what a row *)
(* has in common with the last listing it showed undamaged (BasisShown).   *)
(***************************************************************************)
EXTENDS Analysis, FiniteSetTheorems, SequenceTheorems, TLAPS

-----------------------------------------------------------------------------
(* The inductive invariant.                                                *)

Forms == {"whole", "broken", "manifest", "none"}

(* A listing as it was read: in part, or all of it.                        *)
Partial(meta, listing) == \A f \in {"version", "publisher"} : meta[f] \in {listing[f], NoVal}
Entire(meta, listing)  == \A f \in {"version", "publisher"} : meta[f] = listing[f]

(* A refresh between the listing and the download.                         *)
Downloading(x) ==
    /\ x = [pc |-> "download", meta |-> x.meta, saw |-> x.saw]
    /\ x.saw.listing \in Listings
    /\ Partial(x.meta, x.saw.listing)
    /\ x.saw.whole => Entire(x.meta, x.saw.listing)
    /\ x.saw.manifest \in {x.saw.listing.version, NoVal}

(* A refresh with what arrived: the version of a package that is there is  *)
(* the one of the listing unless the store has moved on in between.        *)
Storing(x) ==
    /\ x.pc = "store"
    /\ x.saw.listing \in Listings
    /\ Partial(x.meta, x.saw.listing)
    /\ x.saw.whole => Entire(x.meta, x.saw.listing) /\ x.saw.form = "whole"
    /\ x.saw.form \in Forms
    /\ x.saw.form # "none" => x.saw.version \in Versions
    /\ x.saw.form # "none" /\ x.saw.same => x.saw.version = x.saw.listing.version

TasksOK ==
    /\ store \in Listings
    /\ task = [t \in Tasks |-> task[t]]
    /\ \A t \in Tasks : task[t] = Idle \/ Downloading(task[t]) \/ Storing(task[t])

Snapshots == [version : Versions, analysis : {Published[v] : v \in Versions}]

SnapsOK ==
    /\ snaps \in Seq(Snapshots)
    /\ SnapshotTrusted
    /\ snaps # << >> => row.fetched

(* Every snapshot has been announced, not only the newest.                 *)
AllKnown == \A i \in DOMAIN snaps : Capabilities(snaps[i].analysis) \subseteq known

(* What the row has of the last listing it showed undamaged.  A package    *)
(* that cannot be inspected leaves it the permissions of another version.  *)
BasisShown ==
    basis # NoVal =>
        /\ basis \in Listings
        /\ row.fetched
        /\ row.version = basis.version
        /\ basis.publisher # NoVal => row.publisher = basis.publisher
        /\ LET a == Published[basis.version]
           IN a # NoVal => /\ row.permissions = a.permissions
                           /\ HostPermissions(row) = a.host_permissions
                           /\ \E i \in DOMAIN snaps : snaps[i].version = basis.version

ScoreOK == row.fetched => row.risk_score \in 0..100

IInv ==
    /\ TasksOK /\ SnapsOK /\ AllKnown /\ BasisShown /\ ScoreOK
    /\ NothingSlipsIn /\ ManifestKept /\ TransientIsSilent

(* Past its download a refresh is what it says.                            *)
LEMMA AtStore ==
    ASSUME TasksOK, NEW t \in Tasks, task[t].pc = "store"
    PROVE  Storing(task[t])
<1>1. task[t] # Idle
  BY DEF Idle
<1>2. ~Downloading(task[t])
  <2> SUFFICES ASSUME Downloading(task[t]) PROVE FALSE
    OBVIOUS
  <2>1. task[t] = [pc |-> "download", meta |-> task[t].meta, saw |-> task[t].saw]
    BY DEF Downloading
  <2>2. task[t].pc = "download"
    BY <2>1
  <2> QED BY <2>2
<1> QED BY <1>1, <1>2 DEF TasksOK

-----------------------------------------------------------------------------
(* Scores.                                                                 *)

(* The smaller of two numbers, by cases.                                   *)
LEMMA MinOfTwo ==
    ASSUME NEW x \in Int, NEW y \in Int
    PROVE  Min({x, y}) = IF x <= y THEN x ELSE y
<1> DEFINE least == IF x <= y THEN x ELSE y
<1>1. least \in {x, y} /\ \A z \in {x, y} : least <= z
  OBVIOUS
<1>2. \A l \in {x, y} : (\A z \in {x, y} : l <= z) => l = least
  OBVIOUS
<1> HIDE DEF least
<1>3. Min({x, y}) = least
  BY <1>1, <1>2, Zenon DEF Min
<1> QED BY <1>3 DEF least

(* The values of a function on a finite set are finite in number.          *)
LEMMA ImageFinite ==
    ASSUME NEW S, IsFiniteSet(S), NEW f
    PROVE  IsFiniteSet({f[x] : x \in S})
<1> DEFINE T == {f[x] : x \in S}
<1> DEFINE g == [x \in S |-> f[x]]
<1>1. g \in [S -> T] /\ \A y \in T : \E x \in S : g[x] = y
  OBVIOUS
<1>2. g \in Surjection(S, T)
  BY <1>1, Zenon DEF Surjection
<1> QED BY <1>2, FS_Surjection, Zenon

(* Findings are counted, so they must be finite in number.                 *)
LEMMA FindingScore ==
    ASSUME NEW a, IsFiniteSet(a.findings)
    PROVE  _score_code_findings(a) \in Nat
<1> DEFINE of(severity) == {f \in a.findings : _counts_toward_code_behaviour(f) /\ f.severity = severity}
<1>1. \A s : of(s) \subseteq a.findings
  OBVIOUS
<1>2. \A s : Cardinality(of(s)) \in Nat
  BY <1>1, FS_Subset, FS_CardinalityType
<1>3. _score_code_findings(a)
        = 6 * Cardinality(of("critical")) + 4 * Cardinality(of("high")) + 2 * Cardinality(of("medium"))
  BY Zenon DEF _score_code_findings
<1> HIDE DEF of
<1> QED BY <1>2, <1>3

(* score_code_behaviour: the findings add at most 7, the cap is 15.        *)
LEMMA CodeScore ==
    ASSUME NEW a, a # NoVal => IsFiniteSet(a.findings)
    PROVE  score_code_behaviour(a) \in 0..15
<1>1. CASE a = NoVal
  BY <1>1 DEF score_code_behaviour
<1>2. CASE a # NoVal
  <2> DEFINE found == Min({_score_code_findings(a), 7})
  <2> DEFINE sum == (IF a.uses_eval THEN 8 ELSE 0) + (IF a.uses_remote_code THEN 5 ELSE 0)
                      + (IF a.obfuscation >= 6 THEN 5 ELSE IF a.obfuscation >= 3 THEN 3 ELSE 0) + found
  <2>1. found \in 0..7
    BY <1>2, FindingScore, MinOfTwo
  <2>2. score_code_behaviour(a) = Min({sum, 15})
    BY <1>2, Zenon DEF score_code_behaviour
  <2> HIDE DEF found
  <2>3. sum \in Nat
    BY <2>1
  <2> HIDE DEF sum
  <2> QED BY <2>2, <2>3, MinOfTwo
<1> QED BY <1>1, <1>2

(* What each component adds at most.                                       *)
LEMMA ComponentRanges ==
    ASSUME NEW eff, NEW history, NEW verified, NEW a, a # NoVal => IsFiniteSet(a.findings)
    PROVE  /\ score_permissions(eff.permissions, eff.host_permissions) \in 0..25
           /\ score_popularity(eff.install_count, history) \in 0..20
           /\ score_publisher(eff.publisher, eff.publisher_changed, verified) \in 0..15
           /\ score_staleness(eff.last_updated) \in 0..15
           /\ score_code_behaviour(a) \in 0..15
           /\ score_external_domains(a) \in 0..10
<1>1. score_permissions(eff.permissions, eff.host_permissions) \in 0..25
  BY DEF score_permissions
<1>2. score_popularity(eff.install_count, history) \in 0..20
  <2>1. \A c : PopularityBase(c) \in 0..16
    BY DEF PopularityBase
  <2>2. \A c : Min({PopularityBase(c) + 10, 20}) \in 0..20
    BY <2>1, MinOfTwo
  <2> QED BY <2>1, <2>2 DEF score_popularity
<1>3. score_publisher(eff.publisher, eff.publisher_changed, verified) \in 0..15
  <2> DEFINE sum == (IF eff.publisher_changed THEN 8 ELSE 0) + (IF verified = FALSE THEN 4 ELSE 0)
                      + (IF _looks_generic(eff.publisher) THEN 3 ELSE 0)
  <2>1. sum \in 0..15
    OBVIOUS
  <2>2. score_publisher(eff.publisher, eff.publisher_changed, verified) = Min({sum, 15})
    BY Zenon DEF score_publisher
  <2> HIDE DEF sum
  <2> QED BY <2>1, <2>2, MinOfTwo
<1>4. score_staleness(eff.last_updated) \in 0..15
  BY DEF score_staleness
<1>5. score_code_behaviour(a) \in 0..15
  BY CodeScore
<1>6. score_external_domains(a) \in 0..10
  BY DEF score_external_domains
<1> QED BY <1>1, <1>2, <1>3, <1>4, <1>5, <1>6

(* compute_risk_score: whatever the listing and the package look like, the *)
(* components add up to 0..100.  The cap at 100 never bites, so the        *)
(* heuristic that a later decision recovers from the components is the     *)
(* score that was computed, and risk_level has a band for it.              *)
THEOREM ScoreIsSum ==
    ASSUME NEW eff, NEW history, NEW verified, NEW a, a # NoVal => IsFiniteSet(a.findings)
    PROVE  /\ compute_risk_score(eff, history, verified, a) =
                score_permissions(eff.permissions, eff.host_permissions)
                  + score_popularity(eff.install_count, history)
                  + score_publisher(eff.publisher, eff.publisher_changed, verified)
                  + score_staleness(eff.last_updated)
                  + score_code_behaviour(a)
                  + score_external_domains(a)
           /\ compute_risk_score(eff, history, verified, a) \in 0..100
<1> DEFINE sum == score_permissions(eff.permissions, eff.host_permissions)
                    + score_popularity(eff.install_count, history)
                    + score_publisher(eff.publisher, eff.publisher_changed, verified)
                    + score_staleness(eff.last_updated)
                    + score_code_behaviour(a)
                    + score_external_domains(a)
<1>1. compute_risk_score(eff, history, verified, a) = Min({sum, 100})
  BY Zenon DEF compute_risk_score
<1>2. sum \in 0..100
  <2> DEFINE p == score_permissions(eff.permissions, eff.host_permissions)
  <2> DEFINE n == score_popularity(eff.install_count, history)
  <2> DEFINE u == score_publisher(eff.publisher, eff.publisher_changed, verified)
  <2> DEFINE o == score_staleness(eff.last_updated)
  <2> DEFINE c == score_code_behaviour(a)
  <2> DEFINE d == score_external_domains(a)
  <2>1. /\ p \in 0..25 /\ n \in 0..20 /\ u \in 0..15
        /\ o \in 0..15 /\ c \in 0..15 /\ d \in 0..10
    BY ComponentRanges
  <2> HIDE DEF p, n, u, o, c, d
  <2>2. p + n + u + o + c + d \in 0..100
    BY <2>1
  <2> QED BY <2>2 DEF p, n, u, o, c, d
<1> HIDE DEF sum
<1>3. Min({sum, 100}) = sum
  BY <1>2, MinOfTwo
<1> QED BY <1>1, <1>2, <1>3 DEF sum

(* b shows all that a shows.                                               *)
Wider(a, b) ==
    /\ a # NoVal /\ b # NoVal
    /\ IsFiniteSet(b.findings) /\ a.findings \subseteq b.findings
    /\ IsFiniteSet(b.external_domains) /\ a.external_domains \subseteq b.external_domains
    /\ a.uses_eval => b.uses_eval
    /\ a.uses_remote_code => b.uses_remote_code
    /\ a.obfuscation \in Nat /\ b.obfuscation \in Nat /\ a.obfuscation <= b.obfuscation

(* More findings of every severity score no lower.                         *)
LEMMA FindingsWider ==
    ASSUME NEW a, NEW b, Wider(a, b)
    PROVE  /\ _score_code_findings(a) \in Nat /\ _score_code_findings(b) \in Nat
           /\ _score_code_findings(a) <= _score_code_findings(b)
<1> DEFINE of(x, severity) == {f \in x.findings : _counts_toward_code_behaviour(f) /\ f.severity = severity}
<1>1. IsFiniteSet(a.findings) /\ IsFiniteSet(b.findings)
  BY FS_Subset DEF Wider
<1>2. \A s : of(a, s) \subseteq of(b, s) /\ of(b, s) \subseteq b.findings
  BY DEF Wider
<1>3. \A s : /\ Cardinality(of(a, s)) \in Nat /\ Cardinality(of(b, s)) \in Nat
             /\ Cardinality(of(a, s)) <= Cardinality(of(b, s))
  BY <1>1, <1>2, FS_Subset, FS_CardinalityType
<1>4. /\ _score_code_findings(a) = 6 * Cardinality(of(a, "critical")) + 4 * Cardinality(of(a, "high"))
                                     + 2 * Cardinality(of(a, "medium"))
      /\ _score_code_findings(b) = 6 * Cardinality(of(b, "critical")) + 4 * Cardinality(of(b, "high"))
                                     + 2 * Cardinality(of(b, "medium"))
  BY Zenon DEF _score_code_findings
<1> HIDE DEF of
<1> QED BY <1>3, <1>4

(* score_code_behaviour grows with everything it looks at.                 *)
LEMMA CodeWider ==
    ASSUME NEW a, NEW b, Wider(a, b)
    PROVE  score_code_behaviour(a) <= score_code_behaviour(b)
<1> DEFINE found(x) == Min({_score_code_findings(x), 7})
<1> DEFINE evals(x) == IF x.uses_eval THEN 8 ELSE 0
<1> DEFINE remote(x) == IF x.uses_remote_code THEN 5 ELSE 0
<1> DEFINE obfuscated(x) == IF x.obfuscation >= 6 THEN 5 ELSE IF x.obfuscation >= 3 THEN 3 ELSE 0
<1> DEFINE sum(x) == evals(x) + remote(x) + obfuscated(x) + found(x)
<1>1. found(a) \in Nat /\ found(b) \in Nat /\ found(a) <= found(b)
  BY FindingsWider, MinOfTwo
<1>2. evals(a) \in Nat /\ evals(b) \in Nat /\ evals(a) <= evals(b)
  BY DEF Wider
<1>3. remote(a) \in Nat /\ remote(b) \in Nat /\ remote(a) <= remote(b)
  BY DEF Wider
<1>4. obfuscated(a) \in Nat /\ obfuscated(b) \in Nat /\ obfuscated(a) <= obfuscated(b)
  BY DEF Wider
<1>5. score_code_behaviour(a) = Min({sum(a), 15}) /\ score_code_behaviour(b) = Min({sum(b), 15})
  BY Zenon DEF score_code_behaviour, Wider
<1> HIDE DEF found, evals, remote, obfuscated
<1>6. sum(a) \in Nat /\ sum(b) \in Nat /\ sum(a) <= sum(b)
  BY <1>1, <1>2, <1>3, <1>4
<1> HIDE DEF sum
<1> QED BY <1>5, <1>6, MinOfTwo

(* score_external_domains grows with the remote hosts.                     *)
LEMMA DomainsWider ==
    ASSUME NEW a, NEW b, Wider(a, b)
    PROVE  score_external_domains(a) <= score_external_domains(b)
<1> DEFINE parties(x) == {registrable_domain[d] : d \in x.external_domains}
<1>1. IsFiniteSet(parties(b)) /\ parties(a) \subseteq parties(b)
  BY ImageFinite DEF Wider
<1>2. /\ Cardinality(parties(a)) \in Nat /\ Cardinality(parties(b)) \in Nat
      /\ Cardinality(parties(a)) <= Cardinality(parties(b))
  BY <1>1, FS_Subset, FS_CardinalityType
<1> QED BY <1>2 DEF score_external_domains, Wider

(* score_permissions grows with the permissions, whichever list has them.  *)
LEMMA PermissionsWider ==
    ASSUME NEW p, NEW q, NEW h, NEW g, p \cup h \subseteq q \cup g
    PROVE  score_permissions(p, h) <= score_permissions(q, g)
BY DEF score_permissions

(* compute_risk_score: an extension that asks for more, and whose package  *)
(* shows more findings, remote hosts, eval, remote code and obfuscation,   *)
(* never scores lower for it, other things being equal.                    *)
THEOREM MoreIsNoSafer ==
    ASSUME NEW a, NEW b, Wider(a, b), NEW history, NEW verified, NEW eff, NEW more,
           eff.permissions \cup eff.host_permissions \subseteq more.permissions \cup more.host_permissions,
           more.install_count = eff.install_count, more.last_updated = eff.last_updated,
           more.publisher_changed = eff.publisher_changed, more.publisher = eff.publisher
    PROVE  compute_risk_score(eff, history, verified, a) <= compute_risk_score(more, history, verified, b)
<1>1. /\ score_permissions(eff.permissions, eff.host_permissions)
           <= score_permissions(more.permissions, more.host_permissions)
      /\ score_code_behaviour(a) <= score_code_behaviour(b)
      /\ score_external_domains(a) <= score_external_domains(b)
  BY PermissionsWider, CodeWider, DomainsWider
<1>2. IsFiniteSet(a.findings) /\ IsFiniteSet(b.findings)
  BY FS_Subset DEF Wider
<1>3. /\ score_popularity(eff.install_count, history) = score_popularity(more.install_count, history)
      /\ score_publisher(eff.publisher, eff.publisher_changed, verified)
           = score_publisher(more.publisher, more.publisher_changed, verified)
      /\ score_staleness(eff.last_updated) = score_staleness(more.last_updated)
  OBVIOUS
<1>4. /\ score_popularity(more.install_count, history) \in Int
      /\ score_publisher(more.publisher, more.publisher_changed, verified) \in Int
      /\ score_staleness(more.last_updated) \in Int
      /\ score_permissions(eff.permissions, eff.host_permissions) \in Int
      /\ score_permissions(more.permissions, more.host_permissions) \in Int
      /\ score_code_behaviour(a) \in Int /\ score_code_behaviour(b) \in Int
      /\ score_external_domains(a) \in Int /\ score_external_domains(b) \in Int
  BY <1>2, ComponentRanges
<1> QED BY <1>1, <1>2, <1>3, <1>4, ScoreIsSum

-----------------------------------------------------------------------------
(* Packages.                                                               *)

ManifestJson(v) == Package[v].manifests["manifest.json"]

(* _load_manifest: manifest.json is the first candidate.                   *)
LEMMA FirstNamed ==
    ASSUME NEW pkg, "manifest.json" \in DOMAIN pkg.manifests
    PROVE  _load_manifest(pkg) = "manifest.json"
<1> DEFINE at == {i \in DOMAIN Candidates : Candidates[i] \in DOMAIN pkg.manifests}
<1>1. DOMAIN Candidates = 1..3 /\ Candidates[1] = "manifest.json"
  BY DEF Candidates
<1>2. 1 \in at /\ \A i \in at : i \in Nat /\ i >= 1
  BY <1>1
<1>3. Min(at) = 1
  BY <1>2 DEF Min
<1> QED BY <1>1, <1>2, <1>3 DEF _load_manifest, FirstCandidate

(* Every package has a manifest.json, of its own version when it parses.   *)
LEMMA Manifests ==
    ASSUME NEW v \in Versions
    PROVE  /\ v # NoVal
           /\ "manifest.json" \in DOMAIN Package[v].manifests
           /\ ManifestJson(v) # NoVal => ManifestJson(v).version = v
BY VersionAssumption DEF ManifestJson

Fields(a, m, complete) ==
    /\ a.permissions = ApiOf(m, "manifest.json")
    /\ a.host_permissions = HostsOf(m)
    /\ a.version = m.version
    /\ a.complete = complete
    /\ IsFiniteSet(a.findings)

(* A package has finitely many findings, however many are kept.            *)
LEMMA FindingsFinite ==
    ASSUME NEW pkg
    PROVE  IsFiniteSet(AllFindings(pkg))
<1> DEFINE name  == _load_manifest(pkg)
           files == [i \in DOMAIN Scanned(pkg) |-> FileFindings(Scanned(pkg)[i])]
           all   == (IF name = NoVal THEN << >> ELSE ManifestFindings(pkg.manifests[name], name))
                    \o FlattenSeq(files)
<1>1. AllFindings(pkg) = {all[i] : i \in DOMAIN all \cap (1..MaxFindings)}
  BY Zenon DEF AllFindings
<1> HIDE DEF all
<1>2. IsFiniteSet(DOMAIN all \cap (1..MaxFindings))
  <2>1. IsFiniteSet(1..MaxFindings)
    BY CapAssumption, FS_Interval
  <2> QED BY <2>1, FS_Subset
<1> QED BY <1>1, <1>2, ImageFinite

(* What an analysis says is what the manifest says.                        *)
LEMMA AnalysedFields ==
    ASSUME NEW pkg, _load_manifest(pkg) = "manifest.json"
    PROVE  /\ Fields(Analysed(pkg), pkg.manifests["manifest.json"], TRUE)
           /\ Fields([Analysed(pkg) EXCEPT !.complete = FALSE], pkg.manifests["manifest.json"], FALSE)
<1>0. "manifest.json" # NoVal
  BY NameAssumption DEF Candidates
<1> DEFINE m == pkg.manifests["manifest.json"]
<1> DEFINE domains == Capped(UNION {Hosts(f) : f \in Scripts(pkg)}, MaxDomains)
<1> DEFINE evals == \E f \in Scripts(pkg) : f.code \cap {"eval_usage", "new_function_usage"} # {}
<1> DEFINE remote == \E f \in Scripts(pkg) : Remote(f)
<1> DEFINE obfuscation == LET scores == {0} \cup {_obfuscation_score(f) : f \in Scripts(pkg)}
                          IN CHOOSE s \in scores : \A r \in scores : r <= s
<1> DEFINE Rec(c) == [permissions |-> ApiOf(m, "manifest.json"), host_permissions |-> HostsOf(m),
                      external_domains |-> domains, findings |-> AllFindings(pkg), uses_eval |-> evals,
                      uses_remote_code |-> remote, obfuscation |-> obfuscation, version |-> m.version,
                      author |-> m.author, complete |-> c]
<1>1. Analysed(pkg) = Rec(TRUE)
  BY <1>0, Zenon DEF Analysed
<1> HIDE DEF domains, evals, remote, obfuscation
<1>2. [Rec(TRUE) EXCEPT !.complete = FALSE] = Rec(FALSE)
  <2>1. ASSUME NEW c PROVE [Rec(TRUE) EXCEPT !.complete = c] = Rec(c)
    BY SMT
  <2> HIDE DEF Rec
  <2> QED BY <2>1
<1>3. Fields(Rec(TRUE), m, TRUE) /\ Fields(Rec(FALSE), m, FALSE)
  <2>1. IsFiniteSet(AllFindings(pkg))
    BY FindingsFinite
  <2> DEFINE found == AllFindings(pkg)
  <2> HIDE DEF found
  <2>2. found = AllFindings(pkg)
    BY DEF found
  <2> QED BY <2>1, SMT DEF Fields
<1> HIDE DEF Rec
<1> QED BY <1>1, <1>2, <1>3, Zenon

(* The analysis of what arrived of a version.                              *)
LEMMA AnalysisOf ==
    ASSUME NEW v \in Versions, NEW form \in {"whole", "broken", "manifest"},
           Inspection[v][form] # NoVal
    PROVE  /\ form # "broken"
           /\ ManifestJson(v) # NoVal
           /\ Fields(Inspection[v][form], ManifestJson(v), form = "whole")
           /\ Inspection[v][form].version = v
<1> DEFINE s == Served(v)[form]
<1>1. Inspection[v][form] = LET r == inspect_package(s)
                            IN IF r # NoVal /\ form = "manifest" THEN [r EXCEPT !.complete = FALSE] ELSE r
  BY Zenon DEF Inspection
<1>2. inspect_package(s) # NoVal
  BY <1>1
<1>3. ~InspectorError(s) /\ inspect_package(s) = Analysed(s)
  BY <1>2 DEF inspect_package
<1>4. form # "broken"
  <2>1. form = "broken" => s.archive = "broken"
    BY DEF Served
  <2> QED BY <1>3, <2>1 DEF InspectorError
<1>5. "manifest.json" \in DOMAIN s.manifests /\ s.manifests["manifest.json"] = ManifestJson(v)
  <2>1. CASE form = "whole"
    BY <2>1, Manifests DEF Served, ManifestJson
  <2>2. CASE form = "manifest"
    BY <2>2 DEF Served, _manifest_to_zip, ManifestJson
  <2> QED BY <1>4, <2>1, <2>2
<1> HIDE DEF s
<1>6. _load_manifest(s) = "manifest.json"
  BY <1>5, FirstNamed
<1>7. ManifestJson(v) # NoVal
  BY <1>3, <1>5, <1>6, NameAssumption DEF InspectorError, Candidates
<1>8. Fields(Inspection[v][form], ManifestJson(v), form = "whole")
  <2>1. CASE form = "whole"
    <3>1. Inspection[v][form] = Analysed(s)
      BY <1>1, <1>3, <2>1
    <3> QED BY <1>5, <1>6, <2>1, <3>1, AnalysedFields
  <2>2. CASE form = "manifest"
    <3>1. Inspection[v][form] = [Analysed(s) EXCEPT !.complete = FALSE]
      BY <1>1, <1>2, <1>3, <2>2, Zenon
    <3> QED BY <1>5, <1>6, <2>2, <3>1, AnalysedFields, Zenon
  <2> QED BY <1>4, <2>1, <2>2
<1> QED BY <1>4, <1>7, <1>8, Manifests DEF Fields

(* A package that arrived whole is analysed as it was published.           *)
LEMMA WholePublished ==
    ASSUME NEW v \in Versions
    PROVE  Inspection[v]["whole"] = Published[v]
<1>1. Served(v)["whole"] = Package[v]
  BY DEF Served
<1> QED BY <1>1, Zenon DEF Inspection, Published

-----------------------------------------------------------------------------
(* Steps that are not the store.                                           *)
LEMMA TasksStep == IInv /\ [Next]_vars => TasksOK'
<1> SUFFICES ASSUME IInv, [Next]_vars PROVE TasksOK'
  OBVIOUS
<1>0. TasksOK
  BY DEF IInv
<1>1. CASE UNCHANGED vars
  BY <1>0, <1>1 DEF TasksOK, vars
<1>2. CASE Publish
  BY <1>0, <1>2 DEF TasksOK, Publish
<1>3. ASSUME NEW t \in Tasks, NEW x, task' = [task EXCEPT ![t] = x], UNCHANGED store,
             x = Idle \/ Downloading(x) \/ Storing(x)
      PROVE  TasksOK'
  BY <1>0, <1>3 DEF TasksOK
<1>4. ASSUME NEW t \in Tasks, fetch_metadata(t) PROVE TasksOK'
  <2>1. PICK lost \in Losses \cup {{}} :
          task' = [task EXCEPT ![t] =
                [pc |-> "download", meta |-> Parsed(lost),
                 saw |-> [listing |-> store, whole |-> lost = {},
                          manifest |-> IF kind = "edge" /\ "manifest" \notin lost
                                       THEN store.version ELSE NoVal]]]
    BY <1>4 DEF fetch_metadata
  <2> DEFINE x == [pc |-> "download", meta |-> Parsed(lost),
                   saw |-> [listing |-> store, whole |-> lost = {},
                          manifest |-> IF kind = "edge" /\ "manifest" \notin lost
                                       THEN store.version ELSE NoVal]]
  <2>2. Partial(Parsed(lost), store) /\ (lost = {} => Entire(Parsed(lost), store))
    BY DEF Partial, Entire, Parsed
  <2>3. Downloading(x)
    BY <1>0, <2>2 DEF Downloading, TasksOK
  <2> HIDE DEF x
  <2> QED BY <1>3, <1>4, <2>1, <2>3 DEF x, fetch_metadata
<1>5. ASSUME NEW t \in Tasks, FetchError(t) PROVE TasksOK'
  BY <1>3, <1>5 DEF FetchError
<1>6. ASSUME NEW t \in Tasks, download_package(t) PROVE TasksOK'
  <2>0. Downloading(task[t])
    BY <1>0, <1>6 DEF download_package, TasksOK, Storing, Idle
  <2> DEFINE saw == task[t].saw
  <2>1. ASSUME NEW v, NEW form \in Forms, Got(t, v, form),
               form \in {"whole", "broken"} => v = store.version,
               form = "manifest" => v = saw.listing.version
        PROVE  TasksOK'
    <3> DEFINE new == [listing |-> saw.listing, whole |-> saw.whole /\ form = "whole",
                       same |-> saw.listing = store, version |-> v, form |-> form]
    <3> DEFINE x == [pc |-> "store", meta |-> task[t].meta, saw |-> new]
    <3>1. task' = [task EXCEPT ![t] = x]
      BY <2>1, Zenon DEF Got
    <3>2. store.version \in Versions /\ saw.listing.version \in Versions
      BY <1>0, <2>0 DEF TasksOK, Downloading, Listings
    <3>3. Storing(x)
      BY <2>0, <2>1, <3>2 DEF Storing, Downloading, Forms
    <3> HIDE DEF x
    <3> QED BY <1>3, <1>6, <3>1, <3>3 DEF download_package
  <2>2. CASE Got(t, store.version, "whole") \/ Got(t, store.version, "broken")
    BY <2>1, <2>2 DEF Forms
  <2>3. CASE saw.manifest # NoVal /\ Got(t, saw.manifest, "manifest")
    BY <2>0, <2>1, <2>3 DEF Forms, Downloading
  <2>4. CASE Got(t, NoVal, "none")
    BY <2>1, <2>4 DEF Forms
  <2> QED BY <1>6, <2>2, <2>3, <2>4 DEF download_package
<1>7. ASSUME NEW t \in Tasks, fetch_and_store(t) PROVE TasksOK'
  BY <1>3, <1>7 DEF fetch_and_store
<1> QED BY <1>1, <1>2, <1>4, <1>5, <1>6, <1>7 DEF Next

-----------------------------------------------------------------------------
(* The store step.                                                         *)
Arrived(t) == Inspected(task[t].saw)

(* The store step taken apart: row, history and alerts after it, in terms  *)
(* of the listing that was seen and of what arrived.                       *)
LEMMA Stored ==
    ASSUME NEW t \in Tasks, fetch_and_store(t)
    PROVE  LET saw  == task[t].saw
               meta == task[t].meta
               a    == Arrived(t)
               diff == CapabilityDiff(a, row'.version)
               events == Filtered(detect_changes(row', diff), a)
               seen == saw.same /\ saw.listing = basis
           IN /\ row'.fetched = TRUE
              /\ row'.version = Or(ObservedVersion(meta, a), row.version)
              /\ row'.publisher = Or(Or(meta.publisher, row.publisher), IF a # NoVal THEN a.author ELSE NoVal)
              /\ row'.permissions = IF a # NoVal THEN a.permissions ELSE row.permissions
              /\ row'.analysis = Or(a, row.analysis)
              /\ HostPermissions(row') = IF a # NoVal THEN a.host_permissions ELSE HostPermissions(row)
              /\ (a # NoVal => IsFiniteSet(a.findings)) => row'.risk_score \in 0..100
              /\ snaps' = IF Captured(a, row'.version)
                          THEN Append(snaps, [version |-> row'.version, analysis |-> a]) ELSE snaps
              /\ known' = known \cup Announced(row', diff, events)
                            \cup (IF Captured(a, row'.version) /\ snaps = << >> THEN Capabilities(a) ELSE {})
              /\ basis' = IF saw.same /\ saw.whole THEN saw.listing ELSE IF seen THEN basis ELSE NoVal
              /\ report' = [types |-> events, same |-> seen]
<1> DEFINE saw == task[t].saw
           meta == task[t].meta
           a    == Arrived(t)
           history == _stage_install_reading(meta)
           eff  == _effective_values(meta, a)
           score == compute_risk_score(eff, history, NoVal, a)
           new  == _apply_fetch_results(meta, a, eff, score)
<1>1. row' = new
  BY Zenon DEF fetch_and_store, Arrived
<1>2. new.fetched = TRUE /\ new.version = Or(ObservedVersion(meta, a), row.version)
      /\ new.publisher = eff.publisher /\ new.permissions = eff.permissions
      /\ new.analysis = Or(a, row.analysis) /\ new.risk_score = score
  BY DEF _apply_fetch_results
<1>3. eff.publisher = Or(Or(meta.publisher, row.publisher), IF a # NoVal THEN a.author ELSE NoVal)
      /\ eff.permissions = IF a # NoVal THEN a.permissions ELSE row.permissions
  BY DEF _effective_values
<1>4. HostPermissions(new) = IF a # NoVal THEN a.host_permissions ELSE HostPermissions(row)
  BY <1>2 DEF HostPermissions, Or
<1>5. /\ snaps' = IF Captured(a, new.version)
                  THEN Append(snaps, [version |-> new.version, analysis |-> a]) ELSE snaps
      /\ LET diff == CapabilityDiff(a, new.version)
             events == Filtered(detect_changes(new, diff), a)
             seen == saw.same /\ saw.listing = basis
         IN /\ known' = known \cup Announced(new, diff, events)
                            \cup (IF Captured(a, new.version) /\ snaps = << >> THEN Capabilities(a) ELSE {})
            /\ basis' = IF saw.same /\ saw.whole THEN saw.listing ELSE IF seen THEN basis ELSE NoVal
            /\ report' = [types |-> events, same |-> seen]
  BY Zenon DEF fetch_and_store, Arrived
<1>6. (a # NoVal => IsFiniteSet(a.findings)) => score \in 0..100
  BY ScoreIsSum
<1> HIDE DEF saw, meta, a, history, eff, score, new
<1> QED BY <1>1, <1>2, <1>3, <1>4, <1>5, <1>6, Zenon DEF saw, meta, a

(* What is stored of a package that was inspected.                         *)
LEMMA Observed ==
    ASSUME TasksOK, NEW t \in Tasks, task[t].pc = "store", Arrived(t) # NoVal
    PROVE  LET saw == task[t].saw
               a   == Arrived(t)
           IN /\ Storing(task[t])
              /\ saw.version \in Versions
              /\ saw.form \in {"whole", "manifest"}
              /\ ManifestJson(saw.version) # NoVal
              /\ Fields(a, ManifestJson(saw.version), saw.form = "whole")
              /\ saw.form = "whole" => a = Published[saw.version]
              /\ Or(ObservedVersion(task[t].meta, a), row.version) = saw.version
<1> DEFINE saw == task[t].saw
<1>1. Storing(task[t])
  BY DEF TasksOK, Idle, Downloading
<1>2. saw.form # "none" /\ Arrived(t) = Inspection[saw.version][saw.form]
  BY DEF Arrived, Inspected
<1>3. saw.form \in {"whole", "broken", "manifest"} /\ saw.version \in Versions
  BY <1>1, <1>2 DEF Storing, Forms
<1>4. /\ saw.form # "broken"
      /\ ManifestJson(saw.version) # NoVal
      /\ Fields(Arrived(t), ManifestJson(saw.version), saw.form = "whole")
      /\ Arrived(t).version = saw.version
  BY <1>2, <1>3, AnalysisOf
<1>5. saw.form = "whole" => Arrived(t) = Published[saw.version]
  BY <1>2, <1>3, WholePublished
<1>6. Or(ObservedVersion(task[t].meta, Arrived(t)), row.version) = saw.version
  BY <1>3, <1>4, Manifests DEF Or, ObservedVersion
<1> QED BY <1>1, <1>3, <1>4, <1>5, <1>6

(* Everything but the store leaves the row and what is known of it.        *)
Quiet == UNCHANGED <<row, snaps, known, basis, report>>

(* Every step but the store is such a step.                                *)
LEMMA QuietSteps ==
    ASSUME [Next]_vars, \A t \in Tasks : ~fetch_and_store(t)
    PROVE  Quiet
BY DEF Next, vars, Quiet, Publish, fetch_metadata, FetchError, download_package

LEMMA SnapsStep == IInv /\ [Next]_vars => SnapsOK'
<1> SUFFICES ASSUME IInv, [Next]_vars PROVE SnapsOK'
  OBVIOUS
<1>0. TasksOK /\ SnapsOK
  BY DEF IInv
<1>1. CASE Quiet
  BY <1>0, <1>1 DEF SnapsOK, SnapshotTrusted, Quiet
<1>2. ASSUME NEW t \in Tasks, fetch_and_store(t) PROVE SnapsOK'
  <2> DEFINE a == Arrived(t)
  <2>0. task[t].pc = "store" /\ row'.fetched
    BY <1>2, Stored DEF fetch_and_store
  <2>1. CASE ~Captured(a, row'.version)
    <3>1. snaps' = snaps
      BY <1>2, <2>1, Stored
    <3> QED BY <1>0, <2>0, <3>1 DEF SnapsOK, SnapshotTrusted
  <2>2. CASE Captured(a, row'.version)
    <3> DEFINE v == task[t].saw.version
    <3> DEFINE snap == [version |-> v, analysis |-> a]
    <3>1. a # NoVal /\ a.complete /\ \A i \in DOMAIN snaps : snaps[i].version # row'.version
      BY <2>2 DEF Captured
    <3>2. v \in Versions /\ a = Published[v] /\ row'.version = v
      BY <1>0, <1>2, <2>0, <3>1, Observed, Stored DEF Fields
    <3>3. snaps' = Append(snaps, snap)
      BY <1>2, <2>2, <3>2, Stored
    <3>4. snap \in Snapshots /\ snap.version = v /\ snap.analysis = Published[v]
      BY <3>2 DEF Snapshots
    <3> HIDE DEF snap, v, a
    <3>5. /\ snaps' \in Seq(Snapshots)
          /\ DOMAIN snaps' = 1..(Len(snaps) + 1)
          /\ \A i \in DOMAIN snaps : snaps'[i] = snaps[i]
          /\ snaps'[Len(snaps) + 1] = snap
          /\ DOMAIN snaps = 1..Len(snaps) /\ Len(snaps) \in Nat
      BY <1>0, <3>3, <3>4 DEF SnapsOK
    <3>6. SnapshotTrusted'
      BY <1>0, <3>1, <3>2, <3>4, <3>5 DEF SnapsOK, SnapshotTrusted, Published
    <3> QED BY <2>0, <3>5, <3>6 DEF SnapsOK, Snapshots, Published
  <2> QED BY <2>1, <2>2
<1> QED BY <1>1, <1>2, QuietSteps

(* What a step that inserts a snapshot announces.                          *)
LEMMA Told ==
    ASSUME TasksOK, SnapsOK, AllKnown, NEW t \in Tasks, fetch_and_store(t), Captured(Arrived(t), row'.version)
    PROVE  Capabilities(Arrived(t)) \subseteq known'
<1> DEFINE a == Arrived(t)
<1> DEFINE diff == CapabilityDiff(a, row'.version)
<1> DEFINE events == Filtered(detect_changes(row', diff), a)
<1>1. known' = known \cup Announced(row', diff, events)
                  \cup (IF snaps = << >> THEN Capabilities(a) ELSE {})
  BY Stored, Zenon
<1>2. CASE snaps = << >>
  BY <1>1, <1>2
<1>3. CASE snaps # << >>
  <2> DEFINE last == snaps[Len(snaps)].analysis
  <2>1. Len(snaps) \in DOMAIN snaps
    BY <1>3 DEF SnapsOK
  <2>2. Capabilities(last) \subseteq known
    BY <2>1 DEF AllKnown
  <2>3. diff = Capabilities(a) \ Capabilities(last)
    BY <1>3 DEF CapabilityDiff, diff_analysis
  <2>4. CASE diff = {}
    BY <1>1, <2>2, <2>3, <2>4
  <2>5. CASE diff # {}
    <3> HIDE DEF diff
    <3>1. row.fetched
      BY <1>3 DEF SnapsOK
    <3>2. "capability_change" \in detect_changes(row', diff)
      BY <2>5, <3>1, Zenon DEF detect_changes
    <3>3. events = detect_changes(row', diff)
      BY DEF Captured, Filtered
    <3>4. diff \subseteq Announced(row', diff, events)
      BY <3>2, <3>3 DEF Announced
    <3> HIDE DEF events, last
    <3> QED BY <1>1, <2>2, <2>3, <3>4
  <2> QED BY <2>4, <2>5
<1> QED BY <1>2, <1>3

LEMMA KnownStep == IInv /\ [Next]_vars => (AllKnown /\ NothingSlipsIn)'
<1> SUFFICES ASSUME IInv, [Next]_vars PROVE (AllKnown /\ NothingSlipsIn)'
  OBVIOUS
<1>0. TasksOK /\ SnapsOK /\ AllKnown /\ NothingSlipsIn
  BY DEF IInv
<1>1. CASE Quiet
  BY <1>0, <1>1 DEF AllKnown, NothingSlipsIn, Quiet
<1>2. ASSUME NEW t \in Tasks, fetch_and_store(t) PROVE (AllKnown /\ NothingSlipsIn)'
  <2> DEFINE a == Arrived(t)
  <2>0. task[t].pc = "store" /\ known \subseteq known'
    BY <1>2, Stored DEF fetch_and_store
  <2>1. AllKnown'
    <3>1. CASE ~Captured(a, row'.version)
      <4>1. snaps' = snaps
        BY <1>2, <3>1, Stored
      <4> QED BY <1>0, <2>0, <4>1 DEF AllKnown
    <3>2. CASE Captured(a, row'.version)
      <4> DEFINE snap == [version |-> row'.version, analysis |-> a]
      <4>1. snaps' = Append(snaps, snap)
        BY <1>2, <3>2, Stored
      <4>2. snap.analysis = a /\ Capabilities(a) \subseteq known'
        BY <1>0, <1>2, <3>2, Told
      <4> HIDE DEF snap, a
      <4>3. /\ DOMAIN snaps' = 1..(Len(snaps) + 1)
            /\ \A i \in DOMAIN snaps : snaps'[i] = snaps[i]
            /\ snaps'[Len(snaps) + 1] = snap
            /\ DOMAIN snaps = 1..Len(snaps) /\ Len(snaps) \in Nat
        BY <1>0, <4>1 DEF SnapsOK
      <4> QED BY <1>0, <2>0, <4>2, <4>3 DEF AllKnown
    <3> QED BY <3>1, <3>2
  <2>2. NothingSlipsIn'
    <3> SUFFICES ASSUME row'.analysis # NoVal, row'.analysis.complete, snaps' # << >>
                 PROVE  Capabilities(row'.analysis) \subseteq known'
      BY DEF NothingSlipsIn
    <3>1. CASE a = NoVal
      <4>1. row'.analysis = row.analysis /\ snaps' = snaps
        BY <1>2, <3>1, Stored DEF Or, Captured
      <4> QED BY <1>0, <2>0, <4>1 DEF NothingSlipsIn
    <3>2. CASE a # NoVal
      <4>1. row'.analysis = a
        BY <1>2, <3>2, Stored DEF Or
      <4> DEFINE v == task[t].saw.version
      <4>2. v \in Versions /\ a = Published[v] /\ row'.version = v
        BY <1>0, <1>2, <2>0, <3>2, <4>1, Observed, Stored DEF Fields
      <4>3. CASE Captured(a, row'.version)
        BY <1>0, <1>2, <4>1, <4>3, Told
      <4>4. CASE ~Captured(a, row'.version)
        <5>1. PICK i \in DOMAIN snaps : snaps[i].version = v
          BY <3>2, <4>1, <4>2, <4>4, Manifests DEF Captured
        <5>2. snaps[i].analysis = a
          BY <1>0, <4>2, <5>1 DEF SnapsOK, SnapshotTrusted
        <5> QED BY <1>0, <2>0, <4>1, <5>2 DEF AllKnown
      <4> QED BY <4>3, <4>4
    <3> QED BY <3>1, <3>2
  <2> QED BY <2>1, <2>2
<1> QED BY <1>1, <1>2, QuietSteps

LEMMA ManifestStep == IInv /\ [Next]_vars => ManifestKept'
<1> SUFFICES ASSUME IInv, [Next]_vars PROVE ManifestKept'
  OBVIOUS
<1>0. TasksOK /\ ManifestKept
  BY DEF IInv
<1>1. CASE Quiet
  BY <1>0, <1>1 DEF ManifestKept, Quiet, HostPermissions
<1>2. ASSUME NEW t \in Tasks, fetch_and_store(t) PROVE ManifestKept'
  <2> DEFINE a == Arrived(t)
  <2>0. task[t].pc = "store"
    BY <1>2 DEF fetch_and_store
  <2>1. CASE a = NoVal
    <3>1. row'.analysis = row.analysis /\ row'.permissions = row.permissions
          /\ HostPermissions(row') = HostPermissions(row)
      BY <1>2, <2>1, Stored DEF Or
    <3> QED BY <1>0, <3>1 DEF ManifestKept, HostPermissions
  <2>2. CASE a # NoVal
    <3> DEFINE v == task[t].saw.version
    <3> DEFINE m == ManifestJson(v)
    <3>1. /\ v \in Versions
          /\ m # NoVal
          /\ a.permissions = ApiOf(m, "manifest.json")
          /\ a.host_permissions = HostsOf(m)
      BY <1>0, <2>0, <2>2, Observed DEF Fields
    <3>2. row'.permissions = a.permissions /\ HostPermissions(row') = a.host_permissions
      BY <1>2, <2>2, Stored
    <3>3. a.permissions = IF m.vscode THEN {} ELSE m.permissions \ HostPatterns
      BY <3>1 DEF ApiOf, _is_vscode_package
    <3>4. a.host_permissions = m.host_permissions \cup (m.permissions \cap HostPatterns)
      BY <3>1 DEF HostsOf
    <3> QED BY <3>1, <3>2, <3>3, <3>4 DEF ManifestKept, ManifestJson, HostPermissions
  <2> QED BY <2>1, <2>2
<1> QED BY <1>1, <1>2, QuietSteps

(* A snapshot is never taken away.                                         *)
LEMMA SnapshotsStay ==
    ASSUME IInv, [Next]_vars
    PROVE  \A v : (\E i \in DOMAIN snaps : snaps[i].version = v)
                  => (\E i \in DOMAIN snaps' : snaps'[i].version = v)
<1>1. CASE UNCHANGED snaps
  BY <1>1
<1>2. ASSUME NEW snap, snaps' = Append(snaps, snap), snap \in Snapshots
      PROVE  \A i \in DOMAIN snaps : i \in DOMAIN snaps' /\ snaps'[i] = snaps[i]
  BY <1>2 DEF IInv, SnapsOK
<1>3. ASSUME NEW t \in Tasks, fetch_and_store(t), Captured(Arrived(t), row'.version)
      PROVE  \A i \in DOMAIN snaps : i \in DOMAIN snaps' /\ snaps'[i] = snaps[i]
  <2> DEFINE snap == [version |-> row'.version, analysis |-> Arrived(t)]
  <2>1. snaps' = Append(snaps, snap)
    BY <1>3, Stored
  <2>2. snap \in Snapshots
    <3>1. Arrived(t) # NoVal /\ Arrived(t).complete /\ task[t].pc = "store" /\ TasksOK
      BY <1>3 DEF Captured, fetch_and_store, IInv
    <3> DEFINE v == task[t].saw.version
    <3>2. v \in Versions /\ Arrived(t) = Published[v] /\ row'.version = v
      BY <1>3, <3>1, Observed, Stored DEF Fields
    <3> QED BY <3>2 DEF Snapshots
  <2> QED BY <1>2, <2>1, <2>2
<1>4. ASSUME NEW t \in Tasks, fetch_and_store(t), ~Captured(Arrived(t), row'.version)
      PROVE  UNCHANGED snaps
  BY <1>4, Stored
<1> QED BY <1>1, <1>3, <1>4, QuietSteps DEF Quiet

(* A refresh that saw the listing the row shows.                           *)
Seen(t) == task[t].saw.same /\ task[t].saw.listing = basis

(* The values of the row such a refresh may move.                          *)
LEMMA SeenKept ==
    ASSUME IInv, NEW t \in Tasks, fetch_and_store(t), Seen(t)
    PROVE  /\ basis # NoVal
           /\ row.version = basis.version /\ row'.version = basis.version
           /\ row.publisher # NoVal => row'.publisher = row.publisher
           /\ basis.publisher # NoVal => row'.publisher = basis.publisher
           /\ Arrived(t) = NoVal \/ Published[basis.version] # NoVal =>
                 row'.permissions = row.permissions /\ HostPermissions(row') = HostPermissions(row)
           /\ Arrived(t) # NoVal /\ Arrived(t).complete => Published[basis.version] # NoVal
           /\ ~Captured(Arrived(t), row'.version)
<1> DEFINE a == Arrived(t)
<1> DEFINE meta == task[t].meta
<1> DEFINE v == task[t].saw.version
<1>0. task[t].pc = "store" /\ Storing(task[t]) /\ TasksOK
  <2>1. task[t].pc = "store" /\ TasksOK
    BY DEF fetch_and_store, IInv
  <2> QED BY <2>1, AtStore
<1>1. /\ basis \in Listings /\ basis # NoVal
      /\ Partial(meta, basis)
      /\ basis.version \in Versions /\ basis.version # NoVal
  BY <1>0, VersionAssumption DEF Storing, Seen, Listings
<1>2. /\ row.version = basis.version
      /\ basis.publisher # NoVal => row.publisher = basis.publisher
      /\ Published[basis.version] # NoVal =>
            /\ row.permissions = Published[basis.version].permissions
            /\ HostPermissions(row) = Published[basis.version].host_permissions
            /\ \E i \in DOMAIN snaps : snaps[i].version = basis.version
  BY <1>1 DEF IInv, BasisShown
<1>3. a # NoVal => v = basis.version
  <2>1. a # NoVal => task[t].saw.form # "none"
    BY DEF Arrived, Inspected
  <2> QED BY <1>0, <2>1 DEF Storing, Seen
<1>4. row'.version = basis.version
  <2>1. CASE a # NoVal
    BY <1>0, <1>3, <2>1, Stored, Observed
  <2>2. CASE a = NoVal
    BY <1>1, <1>2, <2>2, Stored DEF Or, ObservedVersion, Partial
  <2> QED BY <2>1, <2>2
<1>5. /\ row.publisher # NoVal => row'.publisher = row.publisher
      /\ basis.publisher # NoVal => row'.publisher = basis.publisher
  <2>1. row.publisher # NoVal => row'.publisher = Or(meta.publisher, row.publisher)
    BY Stored DEF Or
  <2> QED BY <1>1, <1>2, <2>1 DEF Or, Partial
<1>6. a # NoVal /\ a.complete => Published[basis.version] # NoVal
  BY <1>0, <1>3, Observed DEF Fields
<1>7. ASSUME a # NoVal, Published[basis.version] # NoVal
      PROVE  a.permissions = Published[basis.version].permissions
             /\ a.host_permissions = Published[basis.version].host_permissions
  <2>1. Fields(a, ManifestJson(v), task[t].saw.form = "whole")
    BY <1>0, <1>7, Observed
  <2>2. Fields(Published[v], ManifestJson(v), TRUE)
    <3>1. v \in Versions /\ Inspection[v]["whole"] = Published[v] /\ Published[v] # NoVal
      BY <1>1, <1>3, <1>7, WholePublished
    <3>2. Fields(Inspection[v]["whole"], ManifestJson(v), TRUE)
      BY ONLY <3>1, AnalysisOf
    <3> QED BY ONLY <3>1, <3>2
  <2> QED BY <1>3, <1>7, <2>1, <2>2 DEF Fields
<1>8. a = NoVal \/ Published[basis.version] # NoVal =>
        row'.permissions = row.permissions /\ HostPermissions(row') = HostPermissions(row)
  BY <1>2, <1>7, Stored
<1>9. ~Captured(a, row'.version)
  BY <1>2, <1>4, <1>6 DEF Captured
<1> QED BY <1>1, <1>2, <1>4, <1>5, <1>6, <1>8, <1>9

LEMMA SilentStep == IInv /\ [Next]_vars => TransientIsSilent'
<1> SUFFICES ASSUME IInv, [Next]_vars PROVE TransientIsSilent'
  OBVIOUS
<1>1. CASE Quiet
  BY <1>1 DEF IInv, TransientIsSilent, Quiet
<1>2. ASSUME NEW t \in Tasks, fetch_and_store(t) PROVE TransientIsSilent'
  <2> DEFINE a == Arrived(t)
  <2> DEFINE diff == CapabilityDiff(a, row'.version)
  <2> DEFINE all == detect_changes(row', diff)
  <2> DEFINE events == Filtered(all, a)
  <2>1. report' = [types |-> events, same |-> Seen(t)]
    BY <1>2, Stored, Zenon DEF Seen
  <2> SUFFICES ASSUME Seen(t) PROVE events \subseteq {"risk_level_change"}
    BY <2>1 DEF TransientIsSilent
  <2>2. /\ row'.version = row.version
        /\ row.publisher # NoVal => row'.publisher = row.publisher
        /\ a = NoVal \/ a.complete =>
              row'.permissions = row.permissions /\ HostPermissions(row') = HostPermissions(row)
        /\ ~Captured(a, row'.version)
    BY <1>2, SeenKept
  <2>3. diff = {}
    BY <2>2 DEF CapabilityDiff
  <2> HIDE DEF diff
  <2>4. /\ all \subseteq {"risk_level_change", "publisher_change", "permission_change",
                           "new_version", "capability_change"}
        /\ "publisher_change" \notin all
        /\ "new_version" \notin all
        /\ "capability_change" \notin all
        /\ a = NoVal \/ a.complete => "permission_change" \notin all
    BY <2>2, <2>3 DEF detect_changes
  <2> HIDE DEF all
  <2>5. /\ events \subseteq all
        /\ a # NoVal /\ ~a.complete => events \subseteq {"publisher_change", "new_version"}
    BY DEF Filtered
  <2> HIDE DEF events, a
  <2> QED BY <2>4, <2>5
<1> QED BY <1>1, <1>2, QuietSteps

LEMMA ScoreStep == IInv /\ [Next]_vars => ScoreOK'
<1> SUFFICES ASSUME IInv, [Next]_vars PROVE ScoreOK'
  OBVIOUS
<1>1. CASE Quiet
  BY <1>1 DEF IInv, ScoreOK, Quiet
<1>2. ASSUME NEW t \in Tasks, fetch_and_store(t) PROVE ScoreOK'
  <2>1. TasksOK /\ task[t].pc = "store"
    BY <1>2 DEF fetch_and_store, IInv
  <2>2. Arrived(t) # NoVal => IsFiniteSet(Arrived(t).findings)
    BY <2>1, Observed DEF Fields
  <2> QED BY <1>2, <2>2, Stored DEF ScoreOK
<1> QED BY <1>1, <1>2, QuietSteps

LEMMA BasisStep == IInv /\ [Next]_vars => BasisShown'
<1> SUFFICES ASSUME IInv, [Next]_vars PROVE BasisShown'
  OBVIOUS
<1>1. CASE Quiet
  BY <1>1 DEF IInv, BasisShown, Quiet, HostPermissions, Published
<1>2. ASSUME NEW t \in Tasks, fetch_and_store(t) PROVE BasisShown'
  <2> DEFINE a == Arrived(t)
  <2> DEFINE saw == task[t].saw
  <2>0. task[t].pc = "store" /\ Storing(task[t]) /\ TasksOK /\ row'.fetched
    <3>1. row'.fetched
      BY <1>2, Stored
    <3>2. task[t].pc = "store" /\ TasksOK
      BY <1>2 DEF fetch_and_store, IInv
    <3> QED BY <3>1, <3>2, AtStore
  <2>1. basis' = IF saw.same /\ saw.whole THEN saw.listing ELSE IF Seen(t) THEN basis ELSE NoVal
    BY <1>2, Stored DEF Seen
  <2>2. CASE saw.same /\ saw.whole
    <3> DEFINE b == saw.listing
    <3> DEFINE p == Published[b.version]
    <3>1. basis' = b /\ b \in Listings /\ b.version \in Versions /\ b.version # NoVal
      BY <2>0, <2>1, <2>2, VersionAssumption DEF Storing, Listings
    <3>2. Entire(task[t].meta, b) /\ saw.form = "whole" /\ saw.version = b.version
      BY <2>0, <2>2 DEF Storing
    <3>3. a = p
      BY <3>1, <3>2, WholePublished DEF Arrived, Inspected
    <3>4. row'.version = b.version
      <4>1. CASE a # NoVal
        BY <1>2, <2>0, <3>2, <4>1, Stored, Observed
      <4>2. CASE a = NoVal
        BY <1>2, <3>1, <3>2, <4>2, Stored DEF Or, ObservedVersion, Entire
      <4> QED BY <4>1, <4>2
    <3>5. b.publisher # NoVal => row'.publisher = b.publisher
      BY <1>2, <3>2, Stored DEF Or, Entire
    <3>6. ASSUME p # NoVal
          PROVE  /\ row'.permissions = p.permissions
                 /\ HostPermissions(row') = p.host_permissions
                 /\ \E i \in DOMAIN snaps' : snaps'[i].version = b.version
      <4>1. row'.permissions = p.permissions /\ HostPermissions(row') = p.host_permissions
        BY <1>2, <3>3, <3>6, Stored
      <4>2. CASE Captured(a, row'.version)
        <5> DEFINE snap == [version |-> row'.version, analysis |-> a]
        <5>1. snaps' = Append(snaps, snap) /\ snap.version = b.version
          BY <1>2, <3>4, <4>2, Stored
        <5>2. snaps \in Seq(Snapshots) /\ snap \in Snapshots
          BY <3>1, <3>3, <3>4 DEF IInv, SnapsOK, Snapshots
        <5> HIDE DEF snap
        <5>3. Len(snaps) + 1 \in DOMAIN snaps' /\ snaps'[Len(snaps) + 1] = snap
          BY <5>1, <5>2
        <5> QED BY <4>1, <5>1, <5>3
      <4>3. CASE ~Captured(a, row'.version)
        <5>1. a.complete
          BY <2>0, <3>2, <3>3, <3>6, Observed DEF Fields
        <5>2. \E i \in DOMAIN snaps : snaps[i].version = b.version
          BY <3>1, <3>3, <3>4, <3>6, <4>3, <5>1 DEF Captured
        <5> QED BY <4>1, <5>2, SnapshotsStay
      <4> QED BY <4>2, <4>3
    <3> HIDE DEF b, a, saw
    <3> QED BY <2>0, <3>1, <3>4, <3>5, <3>6 DEF BasisShown, HostPermissions, Published
  <2>3. CASE ~(saw.same /\ saw.whole) /\ Seen(t)
    <3> DEFINE p == Published[basis.version]
    <3>1. basis' = basis
      BY <2>1, <2>3
    <3>2. /\ basis # NoVal /\ row'.version = basis.version
          /\ basis.publisher # NoVal => row'.publisher = basis.publisher
          /\ p # NoVal => row'.permissions = row.permissions /\ HostPermissions(row') = HostPermissions(row)
      BY <1>2, <2>3, SeenKept
    <3>3. /\ basis \in Listings
          /\ p # NoVal => /\ row.permissions = p.permissions
                          /\ HostPermissions(row) = p.host_permissions
                          /\ \E i \in DOMAIN snaps : snaps[i].version = basis.version
      BY <3>2 DEF IInv, BasisShown
    <3>4. p # NoVal => \E i \in DOMAIN snaps' : snaps'[i].version = basis.version
      <4>1. (\E i \in DOMAIN snaps : snaps[i].version = basis.version)
              => \E i \in DOMAIN snaps' : snaps'[i].version = basis.version
        BY SnapshotsStay
      <4> QED BY <3>3, <4>1
    <3> HIDE DEF a, saw
    <3> QED BY <2>0, <3>1, <3>2, <3>3, <3>4 DEF BasisShown, HostPermissions, Published
  <2>4. CASE ~(saw.same /\ saw.whole) /\ ~Seen(t)
    BY <2>1, <2>4 DEF BasisShown
  <2> QED BY <2>2, <2>3, <2>4
<1> QED BY <1>1, <1>2, QuietSteps

-----------------------------------------------------------------------------
LEMMA InitInv == Init => IInv
<1> SUFFICES ASSUME Init PROVE IInv
  OBVIOUS
<1>1. TasksOK
  BY DEF Init, TasksOK
<1>2. SnapsOK /\ AllKnown
  BY DEF Init, SnapsOK, SnapshotTrusted, AllKnown
<1>3. NothingSlipsIn /\ ManifestKept
  BY DEF Init, NothingSlipsIn, ManifestKept, Unfetched
<1>4. BasisShown /\ TransientIsSilent /\ ScoreOK
  BY DEF Init, BasisShown, TransientIsSilent, ScoreOK, Unfetched
<1> QED BY <1>1, <1>2, <1>3, <1>4 DEF IInv

LEMMA Invariance == Spec => []IInv
<1>1. IInv /\ [Next]_vars => IInv'
  BY TasksStep, SnapsStep, KnownStep, ManifestStep, SilentStep, BasisStep, ScoreStep DEF IInv
<1> QED BY <1>1, InitInv, PTL DEF Spec

(* _capture_package_snapshot: a snapshot is the complete analysis of the   *)
(* bytes published as its version, and a version has one.                  *)
THEOREM SnapshotsTrusted == Spec => []SnapshotTrusted
<1>1. IInv => SnapshotTrusted
  BY DEF IInv, SnapsOK
<1> QED BY <1>1, Invariance, PTL

(* fetch_and_store, detect_changes: no capability of an analysed package   *)
(* gets into the row unannounced, however refreshes overtake each other    *)
(* and whatever the fallback has overwritten before.                       *)
THEOREM NothingSlips == Spec => []NothingSlipsIn
<1>1. IInv => NothingSlipsIn
  BY DEF IInv
<1> QED BY <1>1, Invariance, PTL

(* _effective_values: permissions and hosts are those of one published     *)
(* manifest, through every failure.                                        *)
THEOREM ManifestsKept == Spec => []ManifestKept
<1>1. IInv => ManifestKept
  BY DEF IInv
<1> QED BY <1>1, Invariance, PTL

(* detect_changes and its filter: what is lost on the way raises no alarm  *)
(* but that of the risk level.                                             *)
THEOREM TransientSilent == Spec => []TransientIsSilent
<1>1. IInv => TransientIsSilent
  BY DEF IInv
<1> QED BY <1>1, Invariance, PTL

(* A fetched row has a score within the bands, whatever was fetched: the   *)
(* assumption RiskPosture makes of the scores it is given.                 *)
THEOREM ScoresInRange == Spec => []ScoreOK
<1>1. IInv => ScoreOK
  BY DEF IInv
<1> QED BY <1>1, Invariance, PTL

=============================================================================
