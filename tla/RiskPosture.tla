----------------------------- MODULE RiskPosture -----------------------------
(***************************************************************************)
(* The risk posture of one extension row: the heuristic score an analysis  *)
(* computes, and the effective score, level and detail that the policy of  *)
(* app/scoring.py derives from it, the analyst's override and the threat   *)
(* list.                                                                   *)
(*                                                                         *)
(* Three writers derive the effective posture, each from what it finds in  *)
(* the row under its lock: a refresh (fetch_and_store), the threat list    *)
(* (apply_threat_matches) and the analyst (update_extension_triage).  Only *)
(* the first computes a score; the other two take it from the row.  The    *)
(* store fetch of a refresh is the await between its reading the row and   *)
(* its locking it; several refreshes of the row can be there at once.      *)
(***************************************************************************)
EXTENDS Integers

CONSTANTS
    Fetchers,    \* refresh tasks: the scheduler's cycle, manual refreshes
    Totals       \* component sums an analysis may yield

ASSUME TotalsAssumption == Totals \subseteq 0..100

Overrides == {"none", "allow", "deny"}
Bands     == {"critical", "high", "medium", "low"}
Levels    == Bands \cup {"suppressed", "unknown"}

NoScore == -1      \* NULL
Scores  == 0..100 \cup {NoScore}

(* risk_detail: NULL; an object without the component scores (bare), which *)
(* is what a posture write leaves of NULL; or one with them, sum being     *)
(* their sum.                                                              *)
Details == [kind : {"null", "bare", "full"}, sum : 0..100, total : Scores, level : Levels]

NullDetail == [kind |-> "null", sum |-> 0, total |-> NoScore, level |-> "unknown"]

VARIABLES
    row,        \* the Extension row
    listed,     \* a ThreatListEntry matches it
    task,       \* the refreshes under way
    computed    \* history: the score of the last analysis, NoScore before the first

postureVars == <<row, listed, task, computed>>

Rows == [heuristic : Scores,    \* heuristic_risk_score
         score     : Scores,    \* risk_score
         detail    : Details,   \* risk_detail
         threat    : BOOLEAN,   \* threat_match
         override  : Overrides, \* risk_override
         fetched   : BOOLEAN,   \* last_fetched_at is not NULL
         finding   : BOOLEAN]   \* package_analysis lists the threat_match finding

(* override is the one the refresh loaded before its fetch.                *)
TaskStates == [pc : {"idle", "fetch"}, override : Overrides]

Resting == [pc |-> "idle", override |-> "none"]

TypeOK ==
    /\ row \in Rows
    /\ listed \in BOOLEAN
    /\ task \in [Fetchers -> TaskStates]
    /\ computed \in Scores

-----------------------------------------------------------------------------
(* app/scoring.py.                                                         *)

risk_level(score) ==
    IF score >= 75 THEN "critical"
    ELSE IF score >= 50 THEN "high"
    ELSE IF score >= 25 THEN "medium"
    ELSE "low"

effective_risk_score(heuristic, threat, override) ==
    IF threat \/ override = "deny" THEN 100
    ELSE IF override = "allow" THEN 0
    ELSE heuristic

(* With the callers' "unknown" for None.                                   *)
effective_risk_level(score, threat, override) ==
    IF override = "allow" /\ ~threat THEN "suppressed"
    ELSE IF score = NoScore THEN "unknown"
    ELSE risk_level(score)

(* Mutant: the effective score is taken for the heuristic.                 *)
recover_heuristic_risk_score_Effective(heuristic, score, detail) ==
    IF heuristic # NoScore THEN heuristic ELSE score

recover_heuristic_risk_score(heuristic, score, detail) ==
    IF heuristic # NoScore THEN heuristic
    ELSE IF detail.kind # "null" THEN detail.sum
    ELSE score

-----------------------------------------------------------------------------
(* What every writer does at the end: the effective score and level, in    *)
(* the columns and in the detail.                                          *)
Posture(r, heuristic, detail, override) ==
    LET score == effective_risk_score(heuristic, r.threat, override)
    IN [r EXCEPT !.heuristic = heuristic,
                 !.score     = score,
                 !.detail    = [detail EXCEPT !.total = score,
                                              !.level = effective_risk_level(score, r.threat, override)]]

(* The writers that compute no score.                                      *)
Reposture(r) ==
    Posture(r,
            recover_heuristic_risk_score(r.heuristic, r.score, r.detail),
            [r.detail EXCEPT !.kind = IF @ = "null" THEN "bare" ELSE @],
            r.override)

(* A row as enrolled; as an earlier refresh left it; and as the migration  *)
(* that added heuristic_risk_score left a matched row, whose forced 100    *)
(* says nothing of the heuristic.                                          *)
Placeholder ==
    [heuristic |-> NoScore, score |-> NoScore, detail |-> NullDetail,
     threat |-> FALSE, override |-> "none", fetched |-> FALSE, finding |-> FALSE]

Scored(c) ==
    [heuristic |-> c, score |-> c,
     detail |-> [kind |-> "full", sum |-> c, total |-> c, level |-> risk_level(c)],
     threat |-> FALSE, override |-> "none", fetched |-> TRUE, finding |-> FALSE]

Migrated(c) ==
    [heuristic |-> NoScore, score |-> 100,
     detail |-> [kind |-> "full", sum |-> c, total |-> 100, level |-> "critical"],
     threat |-> TRUE, override |-> "none", fetched |-> TRUE, finding |-> TRUE]

PostureInit ==
    /\ \/ row = Placeholder /\ computed = NoScore /\ listed \in BOOLEAN
       \/ \E c \in Totals :
            /\ computed = c
            /\ \/ row = Scored(c) /\ listed \in BOOLEAN
               \/ row = Migrated(c) /\ listed = TRUE
    /\ task = [t \in Fetchers |-> Resting]

-----------------------------------------------------------------------------
(* update_extension_triage: override is the one the request sets, or the   *)
(* row's own when it sets other fields only.                               *)
update_extension_triage(override) ==
    /\ row' = Reposture([row EXCEPT !.override = override])
    /\ UNCHANGED <<listed, task, computed>>

(* apply_threat_matches on the row, the entries read after its lock.       *)
apply_threat_matches(matches) ==
    row' = Reposture([row EXCEPT !.threat = matches, !.finding = matches])

(* ingest_threatlist, refresh_threat_feed.                                 *)
Ingest ==
    /\ listed' = TRUE
    /\ apply_threat_matches(TRUE)
    /\ UNCHANGED <<task, computed>>

(* apply_existing_threat_posture of a refresh of this row or of another    *)
(* user's row of the same extension.                                       *)
apply_existing_threat_posture ==
    /\ listed
    /\ apply_threat_matches(TRUE)
    /\ UNCHANGED <<listed, task, computed>>

(* fetch_and_store up to its store fetch.                                  *)
BeginFetch(t) ==
    /\ task[t].pc = "idle"
    /\ task' = [task EXCEPT ![t] = [pc |-> "fetch", override |-> row.override]]
    /\ UNCHANGED <<row, listed, computed>>

FetchError(t) ==
    /\ task[t].pc = "fetch"
    /\ task' = [task EXCEPT ![t] = Resting]
    /\ UNCHANGED <<row, listed, computed>>

(* The override the new score is judged by: the row is loaded again with   *)
(* its lock.                                                               *)
(* Mutant: the identity map's copy (no populate_existing).                 *)
LockedOverride_Loaded(t) == task[t].override

LockedOverride(t) == row.override

(* The finding is put into the analysis the row now has, a new one or the  *)
(* one kept because no package could be inspected.                         *)
_apply_threat_finding(r, entries, analysed) == [r EXCEPT !.finding = entries]

(* _apply_fetch_results: the score of the analysis, judged by the policy.  *)
_apply_fetch_results(r, c, t) ==
    Posture([r EXCEPT !.fetched = TRUE], c,
            [kind |-> "full", sum |-> c, total |-> c, level |-> risk_level(c)],
            LockedOverride(t))

(* The locked half of fetch_and_store.                                     *)
fetch_and_store(t) ==
    /\ task[t].pc = "fetch"
    /\ \E c \in Totals, analysed \in BOOLEAN :
          /\ row' = _apply_threat_finding(
                       _apply_fetch_results([row EXCEPT !.threat = listed], c, t), listed, analysed)
          /\ computed' = c
    /\ task' = [task EXCEPT ![t] = Resting]
    /\ UNCHANGED listed

-----------------------------------------------------------------------------
PostureNext ==
    \/ \E o \in Overrides : update_extension_triage(o)
    \/ Ingest \/ apply_existing_threat_posture
    \/ \E t \in Fetchers : BeginFetch(t) \/ FetchError(t) \/ fetch_and_store(t)

PostureSpec == PostureInit /\ [][PostureNext]_postureVars

-----------------------------------------------------------------------------
(* build_extension_query: the risk filters a row is listed under.          *)
Hidden == row.override = "allow" /\ ~row.threat

ListedUnder(band) ==
    IF band = "suppressed" THEN Hidden
    ELSE /\ row.score # NoScore /\ ~Hidden
         /\ CASE band = "critical" -> row.score >= 75
              [] band = "high"     -> row.score >= 50 /\ row.score < 75
              [] band = "medium"   -> row.score >= 25 /\ row.score < 50
              [] band = "low"      -> row.score >= 0  /\ row.score < 25

-----------------------------------------------------------------------------
(* Properties.                                                             *)

(* Whichever of the three writers was last, and whatever it overtook, the  *)
(* stored score and the stored detail are what the policy makes of the     *)
(* row's own heuristic, threat flag and override: no refresh that was      *)
(* fetching while the analyst decided judges by the old decision.          *)
PostureConsistent ==
    /\ row.score = effective_risk_score(row.heuristic, row.threat, row.override)
    /\ row.detail.total = row.score
    /\ row.detail.level = effective_risk_level(row.score, row.threat, row.override)

(* A decision can be taken back: through any sequence of overrides, threat *)
(* matches and refreshes an analysed row keeps the score of its last       *)
(* analysis, in its own column or in the components it is recovered from.  *)
HeuristicKept ==
    row.fetched =>
        \/ row.heuristic = computed
        \/ row.heuristic = NoScore /\ row.detail.kind = "full" /\ row.detail.sum = computed

(* A match is explained by a finding in the stored analysis, also after a  *)
(* refresh has replaced the analysis or found no package to inspect.       *)
MatchExplained == row.threat => row.finding

(* A row is listed under exactly one risk filter, the level it is shown    *)
(* with, and under none while it has no score.                             *)
FilteredOnce ==
    {b \in Bands \cup {"suppressed"} : ListedUnder(b)} = {row.detail.level} \ {"unknown"}

=============================================================================
