----------------------------- MODULE MCAnalysis ------------------------------
(***************************************************************************)
(* Analysis for TLC: a small store.  v1 is modest; v2 asks for more, loads *)
(* a script under a name that is none and talks to a second party; the     *)
(* manifest of v3 cannot be parsed but a package.json lies beside it.      *)
(***************************************************************************)
EXTENDS Analysis, TLC

MCDomain == [a |-> "A", cdn_a |-> "A", b |-> "B", safe |-> "S"]

Manifest(v, permissions, hosts, csp) ==
    [version |-> v, author |-> NoVal, manifest_version |-> 3, vscode |-> FALSE,
     permissions |-> permissions, host_permissions |-> hosts, csp |-> csp]

Script(name, suffix, code, urls) ==
    [name |-> name, suffix |-> suffix, referenced |-> TRUE, readable |-> TRUE,
     code |-> code, urls |-> urls, includes |-> {}, names |-> "plain", escaped |-> FALSE]

MCPackage(v) ==
    CASE v = "v1" -> [archive |-> "ok",
                      manifests |-> [c \in {"manifest.json"} |-> Manifest(v, {"storage"}, {}, {})],
                      files |-> <<Script("bg", "js", {"remote_fetch"}, {"a", "safe"})>>]
      [] v = "v2" -> [archive |-> "ok",
                      manifests |-> [c \in {"manifest.json"} |->
                                        Manifest(v, {"tabs", "<all_urls>"}, {"https://a/*"}, {"unsafe-eval"})],
                      files |-> <<Script("bg", "js", {"remote_fetch"}, {"a", "cdn_a"}),
                                  Script("worker", "other", {"eval_usage", "remote_import_scripts"}, {"b"}),
                                  [Script("page", "html", {}, {}) EXCEPT !.includes = {"b"}, !.names = "single",
                                                                         !.escaped = TRUE],
                                  [Script("big", "js", {"new_function_usage"}, {}) EXCEPT !.readable = FALSE]>>]
      [] v = "v3" -> [archive |-> "ok",
                      manifests |-> [c \in {"manifest.json", "package.json"} |->
                                        IF c = "manifest.json" THEN NoVal ELSE Manifest(v, {}, {}, {})],
                      files |-> <<Script("bg", "js", {}, {})>>]

MCPackages == [v \in Versions |-> MCPackage(v)]

(* The store starts with the modest version and its first publisher.       *)
MCInit == Init /\ store.version = "v1" /\ store.publisher = "p1"

MCSpec == MCInit /\ [][Next]_vars

Symmetry == Permutations(Tasks)

=============================================================================
