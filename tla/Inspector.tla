------------------------------ MODULE Inspector ------------------------------
(***************************************************************************)
(* The static analysis of a store package: inspect_package of              *)
(* app/inspector.py, over the permission tiers of app/permissions.py.      *)
(*                                                                         *)
(* A package is its archive, the manifest files in it and its other        *)
(* entries in archive order.  What a regular expression finds in an entry  *)
(* is a property of the entry: code is the set of the patterns that match  *)
(* it, urls the hosts its URL literals name.  Titles, details and line     *)
(* numbers are left out, and so are the URL lists, which are only shown.   *)
(***************************************************************************)
EXTENDS Naturals, Sequences, FiniteSets, SequencesExt

CONSTANTS
    NoVal,                  \* None, and what a reader of broken JSON gets
    CRITICAL_PERMISSIONS, HIGH_PERMISSIONS, MEDIUM_PERMISSIONS,
    BROAD_HOST_PATTERNS,
    HostPatterns,           \* permissions spelled http(s)://, *://, file:// or <...>
    StarPatterns,           \* host patterns of the form *://.../*
    SafeDomains,            \* hosts of well-known services
    registrable_domain,     \* host -> the party that registered it
    MaxFindings,            \* _MAX_FINDINGS
    MaxDomains              \* _MAX_EXTERNAL_DOMAINS

ASSUME TierAssumption ==
    /\ CRITICAL_PERMISSIONS \cap HIGH_PERMISSIONS = {}
    /\ HIGH_PERMISSIONS \cap MEDIUM_PERMISSIONS = {}
    /\ BROAD_HOST_PATTERNS \subseteq HostPatterns
    /\ StarPatterns \subseteq HostPatterns

ASSUME CapAssumption == MaxFindings \in Nat

-----------------------------------------------------------------------------
(* The archive and its manifest.  A manifest is NoVal when it is too large,*)
(* no JSON even without its comments, or no object.                        *)

Candidates == <<"manifest.json", "extension/package.json", "package.json">>

(* None is the name of no entry.                                           *)
ASSUME NameAssumption == \A i \in DOMAIN Candidates : Candidates[i] # NoVal

FirstCandidate(names) ==
    LET at == {i \in DOMAIN Candidates : Candidates[i] \in names}
    IN IF at = {} THEN NoVal ELSE Candidates[Min(at)]

(* Mutant: an unparsable manifest gives way to the next candidate.         *)
_load_manifest_Next(pkg) == FirstCandidate({c \in DOMAIN pkg.manifests : pkg.manifests[c] # NoVal})

(* The entry the package is described by: the first candidate present has  *)
(* the word, whether it can be read or not.                                *)
_load_manifest(pkg) == FirstCandidate(DOMAIN pkg.manifests)

InspectorError(pkg) ==
    \/ pkg.archive # "ok"      \* no zip, more than 500 entries, more than 50 MB
    \/ LET name == _load_manifest(pkg) IN name # NoVal /\ pkg.manifests[name] = NoVal

_is_vscode_package(m, name) == name # "manifest.json" \/ m.vscode

(* _extract_manifest_fields: host patterns move out of the API permissions.*)
HostsOf(m) == m.host_permissions \cup (m.permissions \cap HostPatterns)
ApiOf(m, name) == IF _is_vscode_package(m, name) THEN {} ELSE m.permissions \ HostPatterns

_is_broad_host_permission(p) == p \in BROAD_HOST_PATTERNS \cup StarPatterns

-----------------------------------------------------------------------------
(* Findings.                                                               *)

(* at tells findings of one kind apart: the entry, the permission.         *)
Finding(code, severity, source, at) ==
    [code |-> code, severity |-> severity, source |-> source, at |-> at]

PermissionFinding(p) ==
    Finding("high_risk_permission", IF p \in CRITICAL_PERMISSIONS THEN "critical" ELSE "high", "manifest", <<p>>)

(* What a policy of the manifest may show, in the order it is looked for.  *)
CspFindings ==
    << <<"unsafe-eval", "csp_unsafe_eval", "high">>,
       <<"unsafe-inline", "csp_unsafe_inline", "medium">>,
       <<"http:", "csp_insecure_remote_source", "high">>,
       <<"wildcard", "csp_wildcard_script_source", "medium">> >>

_analyse_manifest_risks(m, name) ==
    (IF m.manifest_version < 3 THEN <<Finding("manifest_v2", "medium", "manifest", << >>)>> ELSE << >>)
      \o SetToSeq({Finding("broad_host_access", "critical", "manifest", <<p>>) :
                     p \in {h \in HostsOf(m) : _is_broad_host_permission(h)}})
      \o SetToSeq({PermissionFinding(p) :
                     p \in ApiOf(m, name) \cap (CRITICAL_PERMISSIONS \cup HIGH_PERMISSIONS)})
      \o LET matched == SelectSeq(CspFindings, LAMBDA c : c[1] \in m.csp)
         IN [i \in DOMAIN matched |-> Finding(matched[i][2], matched[i][3], "manifest", << >>)]

ManifestFindings(m, name) ==
    IF _is_vscode_package(m, name) THEN << >> ELSE _analyse_manifest_risks(m, name)

(* The remote calls of a script: each sets uses_remote_code.               *)
RemoteCalls == {"remote_fetch", "remote_xhr", "remote_websocket", "remote_eventsource",
                "remote_send_beacon", "remote_import_scripts"}

_obfuscation_score(f) ==
    (CASE f.names = "single" -> 4 [] f.names = "short" -> 3 [] OTHER -> 0)
      + (IF f.escaped THEN 3 ELSE 0)

(* The severity of a pattern of _analyse_js in this entry.                 *)
Severity(f, pattern) ==
    CASE pattern \in {"eval_usage", "new_function_usage"} -> "high"
      [] pattern = "remote_import_scripts"                -> "critical"
      [] pattern = "dynamic_script_injection"             ->
             IF "remote_src" \in f.code THEN "critical" ELSE "high"
      [] OTHER                                            -> "medium"

_analyse_js(f) ==
    SetToSeq({Finding(p, Severity(f, p), "javascript", <<f.name>>) : p \in f.code \ {"remote_src"}})
      \o (IF _obfuscation_score(f) >= 3
          THEN <<Finding("obfuscated_javascript", IF _obfuscation_score(f) >= 6 THEN "high" ELSE "medium",
                         "javascript", <<f.name>>)>>
          ELSE << >>)

(* _analyse_html: the bodies of executable scripts (data blocks and markup *)
(* are masked), and every remote source such a script is loaded from.      *)
_analyse_html(f) ==
    _analyse_js(f)
      \o SetToSeq({Finding("remote_script_include", "critical", "javascript", <<f.name, h>>) : h \in f.includes})

ScanSuffixes == {"js", "html"}

(* What the manifest refers to is scanned whatever its name.               *)
_script_files(pkg) ==
    SelectSeq(pkg.files, LAMBDA f : f.suffix \in ScanSuffixes \/ (f.referenced /\ _load_manifest(pkg) # NoVal))

(* Entries over 5 MB and entries that cannot be read are skipped.          *)
Scanned(pkg) == SelectSeq(_script_files(pkg), LAMBDA f : f.readable)

FileFindings(f) == IF f.suffix = "html" THEN _analyse_html(f) ELSE _analyse_js(f)

-----------------------------------------------------------------------------
Capped(S, n) == IF Cardinality(S) <= n THEN S ELSE CHOOSE T \in SUBSET S : Cardinality(T) = n

(* _add_finding keeps the first MaxFindings.                               *)
AllFindings(pkg) ==
    LET name  == _load_manifest(pkg)
        files == [i \in DOMAIN Scanned(pkg) |-> FileFindings(Scanned(pkg)[i])]
        all   == (IF name = NoVal THEN << >> ELSE ManifestFindings(pkg.manifests[name], name)) \o FlattenSeq(files)
    IN {all[i] : i \in DOMAIN all \cap (1..MaxFindings)}

Scripts(pkg) == {Scanned(pkg)[i] : i \in DOMAIN Scanned(pkg)}

Remote(f)  == f.code \cap RemoteCalls # {} \/ (f.suffix = "html" /\ f.includes # {})
Hosts(f)   == (f.urls \cup (IF f.suffix = "html" THEN f.includes ELSE {})) \ SafeDomains

(* The result for a package that raises no InspectorError.                 *)
Analysed(pkg) ==
    LET name == _load_manifest(pkg)
        m    == pkg.manifests[name]
    IN [permissions      |-> IF name = NoVal THEN {} ELSE ApiOf(m, name),
        host_permissions |-> IF name = NoVal THEN {} ELSE HostsOf(m),
        external_domains |-> Capped(UNION {Hosts(f) : f \in Scripts(pkg)}, MaxDomains),
        findings         |-> AllFindings(pkg),
        uses_eval        |-> \E f \in Scripts(pkg) : f.code \cap {"eval_usage", "new_function_usage"} # {},
        uses_remote_code |-> \E f \in Scripts(pkg) : Remote(f),
        obfuscation      |-> LET scores == {0} \cup {_obfuscation_score(f) : f \in Scripts(pkg)}
                             IN CHOOSE s \in scores : \A r \in scores : r <= s,
        version          |-> IF name = NoVal THEN NoVal ELSE m.version,
        author           |-> IF name = NoVal THEN NoVal ELSE m.author,
        complete         |-> TRUE]

inspect_package(pkg) == IF InspectorError(pkg) THEN NoVal ELSE Analysed(pkg)

=============================================================================
