------------------------------- MODULE Scoring -------------------------------
(***************************************************************************)
(* The component scores of app/scoring.py and the differences              *)
(* app/package_diff.py reports between two analyses.                       *)
(***************************************************************************)
EXTENDS Inspector, FiniteSetsExt

CONSTANT GenericPublishers  \* names whose every meaningful word is generic, or without letters

score_permissions(permissions, hosts) ==
    LET all == permissions \cup hosts
    IN IF all \cap (CRITICAL_PERMISSIONS \cup BROAD_HOST_PATTERNS) # {} THEN 25
       ELSE IF all \cap HIGH_PERMISSIONS # {} THEN 15
       ELSE IF all \cap MEDIUM_PERMISSIONS # {} THEN 7 ELSE 0

(* history is oldest first; a fall of more than 30 % from the last reading *)
(* but one counts.                                                         *)
Dropped(count, history) ==
    /\ Len(history) >= 2
    /\ LET before == history[Len(history) - 1]
       IN before > 0 /\ count < before /\ 100 * (before - count) > 30 * before

PopularityBase(count) ==
    IF count < 100 THEN 16 ELSE IF count < 1000 THEN 8 ELSE IF count < 10000 THEN 4 ELSE 0

score_popularity(count, history) ==
    IF count = NoVal THEN 10
    ELSE IF Dropped(count, history) THEN Min({PopularityBase(count) + 10, 20})
    ELSE PopularityBase(count)

_looks_generic(publisher) == publisher = NoVal \/ publisher \in GenericPublishers

(* verified is TRUE, FALSE or NoVal.                                       *)
score_publisher(publisher, changed, verified) ==
    Min({(IF changed THEN 8 ELSE 0) + (IF verified = FALSE THEN 4 ELSE 0)
            + (IF _looks_generic(publisher) THEN 3 ELSE 0), 15})

(* days since the last update.                                             *)
score_staleness(days) ==
    IF days = NoVal THEN 10
    ELSE IF days > 365 * 3 THEN 15 ELSE IF days > 365 * 2 THEN 11
    ELSE IF days > 365 THEN 7 ELSE IF days > 180 THEN 4 ELSE 0

_counts_toward_code_behaviour(f) ==
    \/ f.source = "javascript"
    \/ f.code \in {"csp_unsafe_eval", "csp_unsafe_inline", "csp_insecure_remote_source",
                   "csp_wildcard_script_source", "manifest_v2"}

_score_code_findings(a) ==
    LET of(severity) == Cardinality({f \in a.findings : _counts_toward_code_behaviour(f) /\ f.severity = severity})
    IN 6 * of("critical") + 4 * of("high") + 2 * of("medium")

score_code_behaviour(a) ==
    IF a = NoVal THEN 7
    ELSE Min({(IF a.uses_eval THEN 8 ELSE 0) + (IF a.uses_remote_code THEN 5 ELSE 0)
                + (IF a.obfuscation >= 6 THEN 5 ELSE IF a.obfuscation >= 3 THEN 3 ELSE 0)
                + Min({_score_code_findings(a), 7}), 15})

(* Parties, not hosts, are counted.                                        *)
score_external_domains(a) ==
    IF a = NoVal THEN 5
    ELSE LET count == Cardinality({registrable_domain[d] : d \in a.external_domains})
         IN IF count = 0 THEN 0 ELSE IF count <= 2 THEN 3 ELSE IF count <= 5 THEN 6 ELSE 10

compute_risk_score(eff, history, verified, a) ==
    Min({score_permissions(eff.permissions, eff.host_permissions)
           + score_popularity(eff.install_count, history)
           + score_publisher(eff.publisher, eff.publisher_changed, verified)
           + score_staleness(eff.last_updated)
           + score_code_behaviour(a)
           + score_external_domains(a), 100})

risk_level(score) ==
    IF score = NoVal THEN NoVal
    ELSE IF score >= 75 THEN "critical" ELSE IF score >= 50 THEN "high"
    ELSE IF score >= 25 THEN "medium" ELSE "low"

-----------------------------------------------------------------------------
(* What an analysis says the package can do or does: the things a later    *)
(* version may add to.                                                     *)
Capabilities(a) ==
    ({"permission"} \X (a.permissions \cup a.host_permissions))
      \cup ({"domain"} \X a.external_domains)
      \cup ({"finding"} \X a.findings)
      \cup {<<"remote_code", TRUE>> : r \in {a.uses_remote_code} \ {FALSE}}

(* Additions only, removals never alert; {} is None.                       *)
diff_analysis(old, new) == Capabilities(new) \ Capabilities(old)

=============================================================================
