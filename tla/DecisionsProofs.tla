--------------------------- MODULE DecisionsProofs ---------------------------
(***************************************************************************)
(* What users decide while work that depends on it is under way: the       *)
(* posture an analyst gives a row while it is being refreshed, and the     *)
(* destinations and rules that are edited while alerts are delivered.      *)
(* Both are proved for any number of tasks and any values of the fields.   *)
(*                                                                         *)
(* RiskPosture.  Every writer ends in Posture, which makes score and       *)
(* detail what the policy says (PostureShape); what is to be shown is that *)
(* it judges by the override and the threat flag it leaves in the row, and *)
(* that the heuristic it puts in is the last one computed.  For the latter *)
(* an analysed row must have a computed score (Analysed), or a NULL        *)
(* heuristic would be taken for one.                                       *)
(*                                                                         *)
(* Destinations.  That partial updates are valid together needs the row    *)
(* lock: what a PATCH read is what the row still is (PatchesHold), and no  *)
(* two hold the same row.  That alerts reach targets of their owner needs  *)
(* that a rule and its destination have one owner (RulesOwned), which      *)
(* deletions keep by taking the rules along, and that a delivery carries   *)
(* only copies of the owner's destinations (FiresOwned).  That what is     *)
(* dialled is public needs what the check left in the delivery             *)
(* (DialsChecked).                                                         *)
(***************************************************************************)
EXTENDS RiskPosture, Destinations, TLAPS

-----------------------------------------------------------------------------
(* The posture of a row.                                                   *)

Analysed == row.fetched => computed # NoScore

PostureInv == TypeOK /\ PostureConsistent /\ HeuristicKept /\ MatchExplained /\ Analysed

-----------------------------------------------------------------------------
(* The policy yields a score and a level.                                  *)
LEMMA PolicyType ==
    ASSUME NEW h \in Scores, NEW th \in BOOLEAN, NEW o \in Overrides
    PROVE  /\ effective_risk_score(h, th, o) \in Scores
           /\ effective_risk_level(effective_risk_score(h, th, o), th, o) \in Levels
BY DEF effective_risk_score, effective_risk_level, risk_level, Scores, NoScore, Levels, Bands

(* What a posture write leaves in the row.                                 *)
LEMMA PostureShape ==
    ASSUME NEW r \in Rows, NEW h \in Scores, NEW d \in Details, NEW o \in Overrides
    PROVE  LET q == Posture(r, h, d, o) IN
           /\ q \in Rows
           /\ q.heuristic = h
           /\ q.score = effective_risk_score(h, r.threat, o)
           /\ q.detail.total = q.score
           /\ q.detail.level = effective_risk_level(q.score, r.threat, o)
           /\ q.detail.kind = d.kind /\ q.detail.sum = d.sum
           /\ q.threat = r.threat /\ q.override = r.override
           /\ q.fetched = r.fetched /\ q.finding = r.finding
<1> DEFINE s == effective_risk_score(h, r.threat, o)
<1> DEFINE l == effective_risk_level(s, r.threat, o)
<1> DEFINE e == [d EXCEPT !.total = s, !.level = l]
<1>1. s \in Scores /\ l \in Levels
  BY PolicyType DEF Rows
<1>2. Posture(r, h, d, o) = [r EXCEPT !.heuristic = h, !.score = s, !.detail = e]
  BY DEF Posture
<1> HIDE DEF s, l
<1>3. e \in Details /\ e.total = s /\ e.level = l /\ e.kind = d.kind /\ e.sum = d.sum
  BY <1>1 DEF Details
<1> HIDE DEF e
<1>4. Posture(r, h, d, o) \in Rows
  BY <1>1, <1>2, <1>3 DEF Rows
<1> QED
  BY <1>2, <1>3, <1>4 DEF Rows, s, l

(* What a writer that computes no score leaves in it.                      *)
LEMMA RepostureShape ==
    ASSUME NEW r \in Rows
    PROVE  LET q == Reposture(r) IN
           /\ q \in Rows
           /\ q.heuristic = recover_heuristic_risk_score(r.heuristic, r.score, r.detail)
           /\ q.score = effective_risk_score(q.heuristic, r.threat, r.override)
           /\ q.detail.total = q.score
           /\ q.detail.level = effective_risk_level(q.score, r.threat, r.override)
           /\ q.detail.sum = r.detail.sum
           /\ q.threat = r.threat /\ q.override = r.override
           /\ q.fetched = r.fetched /\ q.finding = r.finding
<1> DEFINE h == recover_heuristic_risk_score(r.heuristic, r.score, r.detail)
<1> DEFINE d == [r.detail EXCEPT !.kind = IF @ = "null" THEN "bare" ELSE @]
<1>1. h \in Scores
  BY DEF recover_heuristic_risk_score, Rows, Details, Scores
<1>2. d \in Details /\ d.sum = r.detail.sum
  BY DEF Rows, Details
<1>3. r.override \in Overrides
  BY DEF Rows
<1>4. Reposture(r) = Posture(r, h, d, r.override)
  BY DEF Reposture
<1> HIDE DEF h, d
<1>5. QED
  BY <1>1, <1>2, <1>3, <1>4, PostureShape DEF h

-----------------------------------------------------------------------------
(* A row enrolled, refreshed or migrated is a good start.                  *)
LEMMA PostureStart == PostureInit => PostureInv
<1> SUFFICES ASSUME PostureInit PROVE PostureInv
  OBVIOUS
<1>1. task \in [Fetchers -> TaskStates]
  BY DEF PostureInit, Resting, TaskStates, Overrides
<1>2. CASE row = Placeholder /\ computed = NoScore /\ listed \in BOOLEAN
  BY <1>1, <1>2 DEF Placeholder, NullDetail, PostureInv, TypeOK, Rows, Scores, NoScore, Details, Levels, Bands,
       Overrides, PostureConsistent, effective_risk_score, effective_risk_level,
       HeuristicKept, MatchExplained, Analysed
<1>3. ASSUME NEW c \in Totals, computed = c, row = Scored(c), listed \in BOOLEAN
      PROVE  PostureInv
  <2>1. c \in 0..100 /\ c # NoScore
    BY TotalsAssumption DEF NoScore
  <2>2. risk_level(c) \in Levels
    BY <2>1 DEF risk_level, Levels, Bands
  <2>3. Scored(c) \in Rows
    BY <2>1, <2>2 DEF Scored, Rows, Scores, Details, Overrides
  <2> QED
    BY <1>1, <1>3, <2>1, <2>3 DEF Scored, PostureInv, TypeOK, Scores, PostureConsistent,
         effective_risk_score, effective_risk_level, HeuristicKept, MatchExplained, Analysed
<1>4. ASSUME NEW c \in Totals, computed = c, row = Migrated(c), listed = TRUE
      PROVE  PostureInv
  <2>1. c \in 0..100 /\ c # NoScore
    BY TotalsAssumption DEF NoScore
  <2>2. Migrated(c) \in Rows
    BY <2>1 DEF Migrated, Rows, Scores, Details, Overrides, Levels, Bands
  <2> QED
    BY <1>1, <1>4, <2>1, <2>2 DEF Migrated, PostureInv, TypeOK, Scores, NoScore, PostureConsistent,
         effective_risk_score, effective_risk_level, risk_level, HeuristicKept, MatchExplained, Analysed
<1> QED
  BY <1>2, <1>3, <1>4 DEF PostureInit

(* A writer that computes no score keeps the invariant, whatever override, *)
(* flag and finding it first puts into the row.                            *)
LEMMA ReposturePreserves ==
    ASSUME PostureInv, NEW r \in Rows,
           r.heuristic = row.heuristic, r.score = row.score, r.detail = row.detail,
           r.fetched = row.fetched, r.threat => r.finding,
           row' = Reposture(r), UNCHANGED <<task, computed>>, listed' \in BOOLEAN
    PROVE  PostureInv'
<1>1. /\ row' \in Rows
      /\ row'.heuristic = recover_heuristic_risk_score(r.heuristic, r.score, r.detail)
      /\ row'.score = effective_risk_score(row'.heuristic, r.threat, r.override)
      /\ row'.detail.total = row'.score
      /\ row'.detail.level = effective_risk_level(row'.score, r.threat, r.override)
      /\ row'.detail.sum = r.detail.sum
      /\ row'.threat = r.threat /\ row'.override = r.override
      /\ row'.fetched = r.fetched /\ row'.finding = r.finding
  BY RepostureShape
<1>2. TypeOK'
  BY <1>1 DEF PostureInv, TypeOK
<1>3. PostureConsistent'
  BY <1>1 DEF PostureConsistent
<1>4. HeuristicKept' /\ Analysed'
  <2>1. SUFFICES ASSUME row.fetched PROVE row'.heuristic = computed /\ computed # NoScore
    BY <1>1 DEF HeuristicKept, Analysed
  <2>2. CASE row.heuristic = computed
    BY <1>1, <2>1, <2>2 DEF PostureInv, Analysed, recover_heuristic_risk_score
  <2>3. CASE row.heuristic = NoScore /\ row.detail.kind = "full" /\ row.detail.sum = computed
    BY <1>1, <2>1, <2>3 DEF PostureInv, Analysed, recover_heuristic_risk_score
  <2> QED
    BY <2>1, <2>2, <2>3 DEF PostureInv, HeuristicKept
<1>5. MatchExplained'
  BY <1>1 DEF MatchExplained
<1> QED
  BY <1>2, <1>3, <1>4, <1>5 DEF PostureInv

(* Every step keeps the invariant.                                         *)
LEMMA PostureStep == PostureInv /\ [PostureNext]_postureVars => PostureInv'
<1> SUFFICES ASSUME PostureInv, [PostureNext]_postureVars PROVE PostureInv'
  OBVIOUS
<1> USE DEF PostureInv
<1>0. TypeOK
  OBVIOUS
<1>1. ASSUME NEW o \in Overrides, update_extension_triage(o) PROVE PostureInv'
  <2> DEFINE r == [row EXCEPT !.override = o]
  <2>1. /\ r \in Rows
        /\ r.heuristic = row.heuristic /\ r.score = row.score /\ r.detail = row.detail
        /\ r.fetched = row.fetched /\ r.threat = row.threat /\ r.finding = row.finding
    BY <1>0 DEF TypeOK, Rows
  <2>2. row' = Reposture(r) /\ UNCHANGED <<task, computed>> /\ listed' \in BOOLEAN
    BY <1>0, <1>1 DEF update_extension_triage, TypeOK
  <2>3. r.threat => r.finding
    BY <2>1 DEF MatchExplained
  <2> HIDE DEF r
  <2> QED
    BY <2>1, <2>2, <2>3, ReposturePreserves
<1>2. ASSUME apply_threat_matches(TRUE), UNCHANGED <<task, computed>>, listed' \in BOOLEAN
      PROVE  PostureInv'
  <2> DEFINE r == [row EXCEPT !.threat = TRUE, !.finding = TRUE]
  <2>1. /\ r \in Rows
        /\ r.heuristic = row.heuristic /\ r.score = row.score /\ r.detail = row.detail
        /\ r.fetched = row.fetched /\ r.finding = TRUE
    BY <1>0 DEF TypeOK, Rows
  <2>2. row' = Reposture(r)
    BY <1>2 DEF apply_threat_matches
  <2> HIDE DEF r
  <2> QED
    BY <1>2, <2>1, <2>2, ReposturePreserves
<1>3. CASE Ingest
  BY <1>2, <1>3 DEF Ingest
<1>4. CASE apply_existing_threat_posture
  BY <1>0, <1>2, <1>4 DEF apply_existing_threat_posture, TypeOK
<1>5. ASSUME NEW t \in Fetchers, BeginFetch(t) \/ FetchError(t) PROVE PostureInv'
  <2>1. UNCHANGED <<row, listed, computed>>
    BY <1>5 DEF BeginFetch, FetchError
  <2>2. row.override \in Overrides
    BY <1>0 DEF TypeOK, Rows
  <2>3. task' \in [Fetchers -> TaskStates]
    BY <1>0, <1>5, <2>2 DEF BeginFetch, FetchError, TypeOK, TaskStates, Resting, Overrides
  <2> QED
    BY <1>0, <2>1, <2>3 DEF TypeOK, PostureConsistent, HeuristicKept, MatchExplained, Analysed
<1>6. ASSUME NEW t \in Fetchers, fetch_and_store(t) PROVE PostureInv'
  <2>1. PICK c \in Totals, analysed \in BOOLEAN :
           /\ row' = _apply_threat_finding(
                       _apply_fetch_results([row EXCEPT !.threat = listed], c, t), listed, analysed)
           /\ computed' = c
    BY <1>6 DEF fetch_and_store
  <2>2. c \in 0..100 /\ c \in Scores /\ c # NoScore
    BY TotalsAssumption DEF Scores, NoScore
  <2> DEFINE r == [row EXCEPT !.threat = listed, !.fetched = TRUE]
  <2> DEFINE d == [kind |-> "full", sum |-> c, total |-> c, level |-> risk_level(c)]
  <2>3. /\ r \in Rows
        /\ r.threat = listed /\ r.override = row.override /\ r.fetched = TRUE
        /\ row.override \in Overrides
    BY <1>0 DEF TypeOK, Rows
  <2>4. d \in Details
    BY <2>2 DEF Details, risk_level, Levels, Bands
  <2> DEFINE o == row.override
  <2> DEFINE q == Posture(r, c, d, o)
  <2>5. row' = [q EXCEPT !.finding = listed]
    BY <2>1 DEF _apply_threat_finding, _apply_fetch_results, LockedOverride
  <2> HIDE DEF r, d
  <2>6a. /\ q \in Rows /\ q.heuristic = c
         /\ q.score = effective_risk_score(c, r.threat, o)
         /\ q.detail.total = q.score
         /\ q.detail.level = effective_risk_level(q.score, r.threat, o)
         /\ q.threat = r.threat /\ q.override = r.override /\ q.fetched = r.fetched
    <3>1. r \in Rows /\ c \in Scores /\ d \in Details /\ o \in Overrides
      BY <2>2, <2>3, <2>4
    <3> HIDE DEF o, PostureInv
    <3> QED BY ONLY <3>1, PostureShape
  <2>6. /\ q \in Rows /\ q.heuristic = c
        /\ q.score = effective_risk_score(c, listed, row.override)
        /\ q.detail.total = q.score
        /\ q.detail.level = effective_risk_level(q.score, listed, row.override)
        /\ q.threat = listed /\ q.override = row.override /\ q.fetched = TRUE
    <3> HIDE DEF q
    <3> QED BY <2>3, <2>6a
  <2> HIDE DEF q
  <2>7. /\ row' \in Rows /\ row'.heuristic = c /\ row'.score = q.score /\ row'.detail = q.detail
        /\ row'.threat = listed /\ row'.override = row.override
        /\ row'.fetched = TRUE /\ row'.finding = listed
    BY <1>0, <2>5, <2>6 DEF Rows, TypeOK
  <2>8. TypeOK'
    BY <1>0, <1>6, <2>1, <2>2, <2>7 DEF fetch_and_store, TypeOK, TaskStates, Resting, Overrides
  <2>9. PostureConsistent'
    BY <2>6, <2>7 DEF PostureConsistent
  <2>10. HeuristicKept' /\ MatchExplained' /\ Analysed'
    BY <2>1, <2>2, <2>7 DEF HeuristicKept, MatchExplained, Analysed
  <2> QED
    BY <2>8, <2>9, <2>10
<1>7. CASE UNCHANGED postureVars
  BY <1>0, <1>7 DEF postureVars, TypeOK, PostureConsistent, HeuristicKept, MatchExplained, Analysed
<1> QED
  BY <1>1, <1>3, <1>4, <1>5, <1>6, <1>7 DEF PostureNext

(* PostureInv is invariant.                                                *)
LEMMA PostureInvariance == PostureSpec => []PostureInv
<1> QED
  BY PostureStart, PostureStep, PTL DEF PostureSpec

(* The columns keep their types: scores in range or NULL, an override and  *)
(* a level of the known ones.                                              *)
THEOREM PostureTypeCorrect == PostureSpec => []TypeOK
<1>1. PostureInv => TypeOK
  BY DEF PostureInv
<1> QED
  BY <1>1, PostureInvariance, PTL

(* The stored posture is always what the policy makes of the row, and a    *)
(* match is always explained by its finding, whichever of refresh, threat  *)
(* list and analyst wrote last (fetch_and_store, apply_threat_matches,     *)
(* update_extension_triage).                                               *)
THEOREM PostureHolds == PostureSpec => [](PostureConsistent /\ MatchExplained)
<1>1. PostureInv => PostureConsistent /\ MatchExplained
  BY DEF PostureInv
<1> QED
  BY <1>1, PostureInvariance, PTL

(* No override or threat match ever destroys the score of an analysed      *)
(* row's last analysis (heuristic_risk_score,                              *)
(* recover_heuristic_risk_score).                                          *)
THEOREM DecisionsReversible == PostureSpec => []HeuristicKept
<1>1. PostureInv => HeuristicKept
  BY DEF PostureInv
<1> QED
  BY <1>1, PostureInvariance, PTL

(* A row is listed under the one filter of the level it is shown with: the *)
(* bands build_extension_query derives and risk_level never disagree.      *)
THEOREM FilterAgrees == PostureSpec => []FilteredOnce
<1>1. PostureInv => FilteredOnce
  <2> SUFFICES ASSUME PostureInv PROVE FilteredOnce
    OBVIOUS
  <2>1. /\ row.score \in Scores /\ row.threat \in BOOLEAN /\ row.override \in Overrides
        /\ row.detail.level = effective_risk_level(row.score, row.threat, row.override)
    BY DEF PostureInv, TypeOK, Rows, PostureConsistent
  <2>2. CASE Hidden
    BY <2>1, <2>2 DEF FilteredOnce, ListedUnder, Hidden, effective_risk_level, Bands
  <2>3. CASE ~Hidden /\ row.score = NoScore
    BY <2>1, <2>3 DEF FilteredOnce, ListedUnder, Hidden, effective_risk_level, Bands
  <2>4. CASE ~Hidden /\ row.score # NoScore
    <3>1. row.score \in 0..100 /\ row.detail.level = risk_level(row.score)
      BY <2>1, <2>4 DEF Scores, Hidden, effective_risk_level
    <3>2. risk_level(row.score) \in Bands
      BY DEF risk_level, Bands
    <3>3. ASSUME NEW b \in Bands PROVE ListedUnder(b) <=> b = risk_level(row.score)
      <4> DEFINE s == row.score
      <4>1. /\ ListedUnder("critical") <=> s >= 75
            /\ ListedUnder("high")     <=> s >= 50 /\ s < 75
            /\ ListedUnder("medium")   <=> s >= 25 /\ s < 50
            /\ ListedUnder("low")      <=> s >= 0 /\ s < 25
        BY <2>4 DEF ListedUnder
      <4>2. s \in 0..100
        BY <3>1
      <4> HIDE DEF s
      <4>3. /\ risk_level(s) = "critical" <=> s >= 75
            /\ risk_level(s) = "high"     <=> s >= 50 /\ s < 75
            /\ risk_level(s) = "medium"   <=> s >= 25 /\ s < 50
            /\ risk_level(s) = "low"      <=> s >= 0 /\ s < 25
        BY <4>2 DEF risk_level
      <4> QED
        BY <3>3, <4>1, <4>3 DEF Bands, s
    <3>4. ~ListedUnder("suppressed") /\ "suppressed" \notin Bands /\ "unknown" \notin Bands
      BY <2>4 DEF ListedUnder, Bands
    <3> QED
      BY <3>1, <3>2, <3>3, <3>4, Zenon DEF FilteredOnce
  <2> QED
    BY <2>2, <2>3, <2>4
<1> QED
  BY <1>1, PostureInvariance, PTL

-----------------------------------------------------------------------------
(* Destinations, rules and deliveries.                                     *)

RowsOK ==
    /\ dests \in [Dests -> DestRows \cup {NoVal, Gone}]
    /\ rules \in [Rules -> RuleRows \cup {NoVal, Gone}]

Held(q) == patch[q] # NoPatch

PatchesHold ==
    /\ patch \in [Patches -> [dest : Dests, read : DestRows, body : Bodies] \cup {NoPatch}]
    /\ \A q \in Patches : Held(q) => dests[patch[q].dest] = patch[q].read
    /\ \A q, p \in Patches : Held(q) /\ Held(p) /\ patch[q].dest = patch[p].dest => q = p

RulesOwned ==
    \A r \in Rules : Live(rules, r) =>
        Live(dests, rules[r].dest) /\ dests[rules[r].dest].user = rules[r].user

Items == [rule : Rules \cup {NoVal}, dest : Dests, copy : DestRows]

Fires == [pc : {"idle", "next", "dial"}, todo : SUBSET Items, cur : Items \cup {NoVal},
          ip : Public \cup {NoVal}, done : SUBSET [user : Users, rule : Rules, dest : Dests, ok : BOOLEAN]]

(* A delivery of the user holds only what is the user's.                   *)
FiresOwned ==
    \A u \in Users :
        /\ \A item \in fire[u].todo : item.copy.user = u
        /\ fire[u].pc = "dial" => fire[u].cur \in Items /\ fire[u].cur.copy.user = u

(* What is about to be dialled has passed the checks.                      *)
DialsChecked ==
    \A u \in Users : fire[u].pc = "dial" /\ fire[u].cur.copy.kind = "jira" =>
        fire[u].cur.copy.target.scheme = "https"

FiresOK == fire \in [Users -> Fires] /\ FiresOwned /\ DialsChecked

IInv == RowsOK /\ PatchesHold /\ RulesOwned /\ FiresOK /\ JointlyValid /\ PinnedPublic /\ OwnersOnly

-----------------------------------------------------------------------------
(* Rows and what becomes of them.                                          *)

(* A live row is a row.                                                    *)
LEMMA LiveRows ==
    ASSUME RowsOK
    PROVE  /\ \A d \in Dests : Live(dests, d) <=> dests[d] \in DestRows
           /\ \A r \in Rules : Live(rules, r) <=> rules[r] \in RuleRows
BY RowAssumption DEF RowsOK, Live

(* A PATCH makes a row of the same owner; when it touches neither kind,    *)
(* target nor config it leaves them as they are.                           *)
LEMMA ResultRow ==
    ASSUME PatchesHold, NEW q \in Patches, Held(q)
    PROVE  /\ Result(q) \in DestRows
           /\ Result(q).user = patch[q].read.user
           /\ ~Checked(q) => (Shaped(Result(q)) <=> Shaped(patch[q].read))
<1> DEFINE r == patch[q].read
<1> DEFINE b == patch[q].body
<1>1. r \in DestRows /\ b \in Bodies
  BY DEF PatchesHold, Held
<1>2. b \in [kind : Kinds \cup {NoVal}, target : Targets \cup {NoVal},
             config : Configs \cup {NoVal}, enabled : BOOLEAN \cup {NoVal}]
  BY <1>1, BodyAssumption
<1>3. Result(q) = [f \in DOMAIN r |-> IF f \in DOMAIN b /\ b[f] # NoVal THEN b[f] ELSE r[f]]
  BY DEF Result
<1> HIDE DEF r, b
<1>4. DOMAIN r = {"user", "kind", "target", "config", "enabled"}
      /\ DOMAIN b = {"kind", "target", "config", "enabled"}
  BY <1>1, <1>2 DEF DestRows
<1>5. Result(q) = [user |-> r.user,
                   kind |-> IF b.kind # NoVal THEN b.kind ELSE r.kind,
                   target |-> IF b.target # NoVal THEN b.target ELSE r.target,
                   config |-> IF b.config # NoVal THEN b.config ELSE r.config,
                   enabled |-> IF b.enabled # NoVal THEN b.enabled ELSE r.enabled]
  BY <1>3, <1>4
<1>6. Result(q) \in DestRows /\ Result(q).user = r.user
  BY <1>1, <1>2, <1>5 DEF DestRows
<1>7. ASSUME ~Checked(q)
      PROVE  Result(q).kind = r.kind /\ Result(q).target = r.target /\ Result(q).config = r.config
  BY <1>5, <1>7 DEF Checked, b
<1>8. ~Checked(q) => (Shaped(Result(q)) <=> Shaped(r))
  BY <1>7 DEF Shaped
<1> QED BY <1>6, <1>8 DEF r

(* Under the lock the columns that differ make the row the result.         *)
LEMMA CommitWrites ==
    ASSUME RowsOK, PatchesHold, NEW q \in Patches, PatchCommit(q)
    PROVE  LET d == patch[q].dest IN
           \/ UNCHANGED dests
           \/ /\ d \in Dests /\ Live(dests, d)
              /\ dests' = [dests EXCEPT ![d] = Result(q)]
              /\ Checked(q) => _validate_destination(Result(q))
<1> DEFINE d == patch[q].dest
<1>1. d \in Dests /\ dests[d] = patch[q].read /\ patch[q].read \in DestRows
  BY DEF PatchCommit, PatchesHold, Held
<1>2. Result(q) = [f \in DOMAIN dests[d] |-> IF Result(q)[f] # patch[q].read[f] THEN Result(q)[f] ELSE dests[d][f]]
  BY <1>1 DEF Result
<1> QED BY <1>1, <1>2 DEF PatchCommit

-----------------------------------------------------------------------------
(* The tables and the requests on them.                                    *)

(* The steps that touch no table and no PATCH.                             *)
Delivering == \E u \in Users : \/ fire_alerts(u) \/ Send(u) \/ Dial(u) \/ CommitLog(u)
                               \/ \E d \in Dests : test_destination(u, d)

LEMMA DeliveringQuiet == Move \/ Delivering \/ UNCHANGED vars => UNCHANGED <<dests, rules, patch>>
BY DEF Move, Delivering, fire_alerts, Send, Dial, CommitLog, test_destination, vars

LEMMA RowsStep == IInv /\ [Next]_vars => RowsOK'
<1> SUFFICES ASSUME IInv, [Next]_vars PROVE RowsOK'
  OBVIOUS
<1> USE DEF RowsOK
<1>0. RowsOK /\ PatchesHold
  BY DEF IInv
<1>1. CASE Move \/ Delivering \/ UNCHANGED vars
  BY <1>0, <1>1, DeliveringQuiet
<1>2. ASSUME NEW q \in Patches, PatchCommit(q) PROVE RowsOK'
  <2>1. Held(q) /\ UNCHANGED rules
    BY <1>2 DEF PatchCommit, Held
  <2> QED BY <1>0, <1>2, <2>1, CommitWrites, ResultRow
<1>3. ASSUME NEW u \in Users, NEW d \in Dests, create_destination(u, d) PROVE RowsOK'
  BY <1>0, <1>3 DEF create_destination, DestRows
<1>4. ASSUME NEW u \in Users, NEW d \in Dests, delete_destination(u, d) PROVE RowsOK'
  BY <1>0, <1>4 DEF delete_destination
<1>5. ASSUME NEW u \in Users, NEW d \in Dests, NEW q \in Patches, PatchRead(q, u, d) PROVE RowsOK'
  BY <1>0, <1>5 DEF PatchRead
<1>6. ASSUME NEW u \in Users, NEW d \in Dests, NEW r \in Rules, create_rule(u, r, d) PROVE RowsOK'
  BY <1>0, <1>6 DEF create_rule, RuleRows
<1>7. ASSUME NEW u \in Users, NEW r \in Rules, update_rule(u, r) PROVE RowsOK'
  <2>1. rules[r] \in RuleRows
    BY <1>0, <1>7, LiveRows DEF update_rule, get_owned_or_404
  <2> QED BY <1>0, <1>7, <2>1 DEF update_rule, RuleRows
<1>8. ASSUME NEW u \in Users, NEW r \in Rules, delete_rule(u, r) PROVE RowsOK'
  BY <1>0, <1>8 DEF delete_rule
<1> QED BY <1>1, <1>2, <1>3, <1>4, <1>5, <1>6, <1>7, <1>8 DEF Next, Delivering

(* The lock: no step changes a row that a PATCH has read but its own       *)
(* commit.                                                                 *)
LEMMA PatchesStep == IInv /\ [Next]_vars => PatchesHold'
<1> SUFFICES ASSUME IInv, [Next]_vars PROVE PatchesHold'
  OBVIOUS
<1> USE DEF PatchesHold, Held
<1>0. RowsOK /\ PatchesHold
  BY DEF IInv
<1>1. CASE Move \/ Delivering \/ UNCHANGED vars
  BY <1>0, <1>1, DeliveringQuiet
<1>2. ASSUME NEW q \in Patches, PatchCommit(q) PROVE PatchesHold'
  <2>1. patch' = [patch EXCEPT ![q] = NoPatch]
    BY <1>2 DEF PatchCommit
  <2>2. \A d \in Dests : d # patch[q].dest => dests'[d] = dests[d]
    BY <1>0, <1>2, CommitWrites DEF RowsOK
  <2>3. \A p \in Patches \ {q} : Held(p) => patch[p].dest # patch[q].dest
    BY <1>0, <1>2 DEF PatchCommit
  <2> QED BY <1>0, <2>1, <2>2, <2>3
<1>3. ASSUME NEW u \in Users, NEW d \in Dests, create_destination(u, d) PROVE PatchesHold'
  <2>1. dests[d] \notin DestRows
    BY <1>3, RowAssumption DEF create_destination
  <2>2. UNCHANGED patch /\ \A e \in Dests : e # d => dests'[e] = dests[e]
    BY <1>0, <1>3 DEF create_destination, RowsOK
  <2> QED BY <1>0, <2>1, <2>2
<1>4. ASSUME NEW u \in Users, NEW d \in Dests, delete_destination(u, d) PROVE PatchesHold'
  BY <1>0, <1>4 DEF delete_destination, Locked, RowsOK
<1>5. ASSUME NEW u \in Users, NEW d \in Dests, NEW q \in Patches, PatchRead(q, u, d) PROVE PatchesHold'
  <2>1. dests[d] \in DestRows
    BY <1>0, <1>5, LiveRows DEF PatchRead, LockForUpdate, get_owned_or_404
  <2>2. PICK body \in Bodies : patch' = [patch EXCEPT ![q] = [dest |-> d, read |-> dests[d], body |-> body]]
    BY <1>5 DEF PatchRead
  <2>3. UNCHANGED dests /\ \A p \in Patches : patch[p].dest # d
    BY <1>5 DEF PatchRead, LockForUpdate, Locked
  <2> QED BY <1>0, <2>1, <2>2, <2>3
<1>6. ASSUME NEW u \in Users, NEW d \in Dests, NEW r \in Rules, create_rule(u, r, d) PROVE PatchesHold'
  BY <1>0, <1>6 DEF create_rule
<1>7. ASSUME NEW u \in Users, NEW r \in Rules, update_rule(u, r) \/ delete_rule(u, r) PROVE PatchesHold'
  BY <1>0, <1>7 DEF update_rule, delete_rule
<1> QED BY <1>1, <1>2, <1>3, <1>4, <1>5, <1>6, <1>7 DEF Next, Delivering

(* A rule and its destination have one owner.                              *)
LEMMA RulesStep == IInv /\ [Next]_vars => RulesOwned'
<1> SUFFICES ASSUME IInv, [Next]_vars PROVE RulesOwned'
  OBVIOUS
<1> USE DEF RulesOwned
<1>0. RowsOK /\ PatchesHold /\ RulesOwned
  BY DEF IInv
<1>1. CASE Move \/ Delivering \/ UNCHANGED vars
  BY <1>0, <1>1, DeliveringQuiet DEF Live
<1>2. ASSUME NEW q \in Patches, PatchCommit(q) PROVE RulesOwned'
  <2>1. Held(q) /\ UNCHANGED rules
    BY <1>2 DEF PatchCommit, Held
  <2>2. CASE UNCHANGED dests
    BY <1>0, <2>1, <2>2 DEF Live
  <2>3. CASE dests' = [dests EXCEPT ![patch[q].dest] = Result(q)]
    <3>1. Result(q) \notin {NoVal, Gone} /\ Result(q).user = dests[patch[q].dest].user
      BY <1>0, <2>1, ResultRow, RowAssumption DEF PatchesHold
    <3> QED BY <1>0, <2>1, <2>3, <3>1, LiveRows DEF Live, RowsOK, RuleRows
  <2> QED BY <1>0, <1>2, <2>2, <2>3, CommitWrites
<1>3. ASSUME NEW u \in Users, NEW d \in Dests, create_destination(u, d) PROVE RulesOwned'
  <2>1. UNCHANGED rules /\ ~Live(dests, d) /\ \A e \in Dests : e # d => dests'[e] = dests[e]
    BY <1>0, <1>3 DEF create_destination, RowsOK, Live
  <2> QED BY <1>0, <2>1, LiveRows DEF Live, RuleRows
<1>4. ASSUME NEW u \in Users, NEW d \in Dests, delete_destination(u, d) PROVE RulesOwned'
  <2>1. \A e \in Dests : e # d => dests'[e] = dests[e]
    BY <1>0, <1>4 DEF delete_destination, RowsOK
  <2>2. \A r \in Rules : \/ rules'[r] = Gone
                         \/ rules'[r] = rules[r] /\ ~(Live(rules, r) /\ rules[r].dest = d)
    BY <1>4 DEF delete_destination
  <2> QED BY <1>0, <2>1, <2>2, LiveRows DEF Live, RuleRows
<1>5. ASSUME NEW u \in Users, NEW d \in Dests, NEW q \in Patches, PatchRead(q, u, d) PROVE RulesOwned'
  BY <1>0, <1>5 DEF PatchRead, Live
<1>6. ASSUME NEW u \in Users, NEW d \in Dests, NEW r \in Rules, create_rule(u, r, d) PROVE RulesOwned'
  BY <1>0, <1>6 DEF create_rule, RuleMayTarget, get_owned_or_404, Live, RowsOK
<1>7. ASSUME NEW u \in Users, NEW r \in Rules, update_rule(u, r) PROVE RulesOwned'
  <2>1. rules[r] \in RuleRows /\ rules[r].user = u /\ UNCHANGED dests
    BY <1>0, <1>7, LiveRows DEF update_rule, get_owned_or_404
  <2>2. \A x \in Rules : x # r => rules'[x] = rules[x]
    BY <1>0, <1>7 DEF update_rule, RowsOK
  <2>3. /\ rules'[r].user = u
        /\ \/ rules'[r].dest = rules[r].dest
           \/ Live(dests, rules'[r].dest) /\ dests[rules'[r].dest].user = u
    BY <1>0, <1>7, <2>1 DEF update_rule, RuleMayTarget, get_owned_or_404, RowsOK, RuleRows
  <2>4. Live(rules, r)
    BY <1>7 DEF update_rule, get_owned_or_404
  <2> QED BY <1>0, <2>1, <2>2, <2>3, <2>4 DEF Live
<1>8. ASSUME NEW u \in Users, NEW r \in Rules, delete_rule(u, r) PROVE RulesOwned'
  BY <1>0, <1>8 DEF delete_rule, Live, RowsOK
<1> QED BY <1>1, <1>2, <1>3, <1>4, <1>5, <1>6, <1>7, <1>8 DEF Next, Delivering

(* What is stored is valid together.                                       *)
LEMMA JointlyStep == IInv /\ [Next]_vars => JointlyValid'
<1> SUFFICES ASSUME IInv, [Next]_vars PROVE JointlyValid'
  OBVIOUS
<1> USE DEF JointlyValid
<1>0. RowsOK /\ PatchesHold /\ JointlyValid
  BY DEF IInv
<1>1. CASE UNCHANGED dests
  BY <1>0, <1>1 DEF Live
<1>2. ASSUME NEW q \in Patches, PatchCommit(q) PROVE JointlyValid'
  <2>1. Held(q)
    BY <1>2 DEF PatchCommit, Held
  <2>2. CASE dests' = [dests EXCEPT ![patch[q].dest] = Result(q)]
             /\ Live(dests, patch[q].dest) /\ (Checked(q) => _validate_destination(Result(q)))
    <3>1. patch[q].dest \in Dests /\ Shaped(patch[q].read)
      BY <1>0, <2>1, <2>2 DEF PatchesHold, Held
    <3>2. Shaped(Result(q))
      BY <1>0, <2>1, <2>2, <3>1, ResultRow DEF _validate_destination
    <3> QED BY <1>0, <2>2, <3>1, <3>2 DEF Live, RowsOK
  <2> QED BY <1>0, <1>1, <1>2, <2>2, CommitWrites
<1>3. ASSUME NEW u \in Users, NEW d \in Dests, create_destination(u, d) PROVE JointlyValid'
  BY <1>0, <1>3 DEF create_destination, _validate_destination, Live, RowsOK
<1>4. ASSUME NEW u \in Users, NEW d \in Dests, delete_destination(u, d) PROVE JointlyValid'
  BY <1>0, <1>4 DEF delete_destination, Live, RowsOK
<1>5. CASE Move \/ Delivering \/ UNCHANGED vars
  BY <1>1, <1>5, DeliveringQuiet
<1>6. ASSUME NEW u \in Users, NEW d \in Dests,
             (\E q \in Patches : PatchRead(q, u, d)) \/ (\E r \in Rules : create_rule(u, r, d))
      PROVE  JointlyValid'
  BY <1>1, <1>6 DEF PatchRead, create_rule
<1>7. ASSUME NEW u \in Users, NEW r \in Rules, update_rule(u, r) \/ delete_rule(u, r) PROVE JointlyValid'
  BY <1>1, <1>7 DEF update_rule, delete_rule
<1> QED BY <1>2, <1>3, <1>4, <1>5, <1>6, <1>7 DEF Next, Delivering

-----------------------------------------------------------------------------
(* Deliveries.                                                             *)

(* What a step of a user's delivery leaves in it.                          *)
FireOK(u, f) ==
    /\ f \in Fires
    /\ \A item \in f.todo : item.copy.user = u
    /\ f.pc = "dial" => f.cur \in Items /\ f.cur.copy.user = u
    /\ f.pc = "dial" /\ f.cur.copy.kind = "jira" => f.cur.copy.target.scheme = "https"

LEMMA FiresOKEach == FiresOK <=> fire \in [Users -> Fires] /\ \A u \in Users : FireOK(u, fire[u])
BY DEF FiresOK, FireOK, FiresOwned, DialsChecked

LEMMA OneFire ==
    ASSUME FiresOK, NEW u \in Users, NEW f, FireOK(u, f), fire' = [fire EXCEPT ![u] = f]
    PROVE  FiresOK'
BY DEF FiresOK, FireOK, FiresOwned, DialsChecked

LEMMA LogRowType ==
    ASSUME NEW u \in Users, NEW item \in Items, NEW ok \in BOOLEAN
    PROVE  LogRow(u, item, ok) \subseteq [user : Users, rule : Rules, dest : Dests, ok : BOOLEAN]
BY DEF LogRow, Items

LEMMA FiresStep == IInv /\ [Next]_vars => FiresOK'
<1> SUFFICES ASSUME IInv, [Next]_vars PROVE FiresOK'
  OBVIOUS
<1>0. RowsOK /\ RulesOwned /\ FiresOK /\ \A u \in Users : FireOK(u, fire[u])
  BY FiresOKEach DEF IInv
<1>1. CASE UNCHANGED fire
  BY <1>0, <1>1 DEF FiresOK, FiresOwned, DialsChecked
<1>2. ASSUME NEW u \in Users, fire_alerts(u) PROVE FiresOK'
  <2> DEFINE live == {x \in Rules : /\ Live(rules, x) /\ rules[x].user = u /\ rules[x].enabled
                                    /\ dests[rules[x].dest].enabled}
  <2> DEFINE todo == {[rule |-> r, dest |-> rules[r].dest, copy |-> dests[rules[r].dest]] : r \in live}
  <2> DEFINE f == [Quiet EXCEPT !.pc = "next", !.todo = todo]
  <2>1. \A r \in live : /\ rules[r].dest \in Dests
                        /\ dests[rules[r].dest] \in DestRows
                        /\ dests[rules[r].dest].user = u
    BY <1>0, LiveRows DEF RulesOwned, RuleRows
  <2>2. todo \subseteq Items /\ \A item \in todo : item.copy.user = u
    BY <2>1 DEF Items
  <2>3. fire' = [fire EXCEPT ![u] = f]
    BY <1>2 DEF fire_alerts
  <2> HIDE DEF todo
  <2>4. FireOK(u, f)
    BY <2>2 DEF FireOK, Fires, Quiet
  <2> QED BY <1>0, <2>3, <2>4, OneFire
<1>3. ASSUME NEW u \in Users, NEW d \in Dests, test_destination(u, d) PROVE FiresOK'
  <2> DEFINE item == [rule |-> NoVal, dest |-> d, copy |-> dests[d]]
  <2> DEFINE f == [Quiet EXCEPT !.pc = "next", !.todo = {item}]
  <2>1. dests[d] \in DestRows /\ dests[d].user = u
    BY <1>0, <1>3, LiveRows DEF test_destination, get_owned_or_404
  <2>2. item \in Items /\ item.copy.user = u
    BY <2>1 DEF Items
  <2>3. fire' = [fire EXCEPT ![u] = f]
    BY <1>3 DEF test_destination
  <2> HIDE DEF item
  <2>4. FireOK(u, f)
    BY <2>2 DEF FireOK, Fires, Quiet
  <2> QED BY <1>0, <2>3, <2>4, OneFire
<1>4. ASSUME NEW u \in Users, Send(u) PROVE FiresOK'
  <2>0. fire[u] \in Fires /\ fire[u].pc = "next" /\ FireOK(u, fire[u])
    BY <1>0, <1>4 DEF Send, FiresOK
  <2>1. PICK item \in fire[u].todo :
          LET d    == item.copy
              fit  == IF d.kind = "email" THEN smtp
                      ELSE ~_needs_https(d.kind, d.target) /\ validate_webhook_url(d.target)
              rest == [fire[u] EXCEPT !.todo = @ \ {item}]
          IN \/ fire' = [fire EXCEPT ![u] = [rest EXCEPT !.done = @ \cup LogRow(u, item, FALSE)]]
             \/ /\ fit
                /\ \E ip \in IF d.kind = "email" THEN {NoVal} ELSE _resolve_host(d.target.host) :
                      fire' = [fire EXCEPT ![u] = [rest EXCEPT !.pc = "dial", !.cur = item, !.ip = ip]]
    BY <1>4 DEF Send
  <2>2. item \in Items /\ item.copy \in DestRows /\ item.copy.user = u
    BY <2>0 DEF FireOK, Fires, Items
  <2> DEFINE rest == [fire[u] EXCEPT !.todo = @ \ {item}]
  <2>3. rest \in Fires /\ rest.pc = "next" /\ \A i \in rest.todo : i.copy.user = u
    BY <2>0 DEF FireOK, Fires
  <2> HIDE DEF rest
  <2>4. CASE fire' = [fire EXCEPT ![u] = [rest EXCEPT !.done = @ \cup LogRow(u, item, FALSE)]]
    <3> DEFINE f == [rest EXCEPT !.done = @ \cup LogRow(u, item, FALSE)]
    <3>1. LogRow(u, item, FALSE) \subseteq [user : Users, rule : Rules, dest : Dests, ok : BOOLEAN]
      BY <2>2, LogRowType
    <3>2. FireOK(u, f)
      BY <2>3, <3>1 DEF FireOK, Fires
    <3> QED BY <1>0, <2>4, <3>2, OneFire
  <2>5. ASSUME NEW ip, fire' = [fire EXCEPT ![u] = [rest EXCEPT !.pc = "dial", !.cur = item, !.ip = ip]],
               IF item.copy.kind = "email" THEN ip = NoVal
               ELSE /\ ip \in _resolve_host(item.copy.target.host)
                    /\ ~_needs_https(item.copy.kind, item.copy.target)
                    /\ validate_webhook_url(item.copy.target)
        PROVE  FiresOK'
    <3> DEFINE f == [rest EXCEPT !.pc = "dial", !.cur = item, !.ip = ip]
    <3>1. ip \in Public \cup {NoVal}
      BY <2>5 DEF validate_webhook_url
    <3>2. item.copy.kind = "jira" => item.copy.target.scheme = "https"
      BY <2>5 DEF _needs_https
    <3>3. f \in Fires /\ f.pc = "dial" /\ f.cur = item /\ f.todo = rest.todo
      BY <2>2, <2>3, <3>1 DEF Fires
    <3>4. FireOK(u, f)
      BY <2>2, <2>3, <3>2, <3>3 DEF FireOK
    <3> QED BY <1>0, <2>5, <3>4, OneFire
  <2> QED BY <2>1, <2>4, <2>5 DEF rest
<1>5. ASSUME NEW u \in Users, Dial(u) PROVE FiresOK'
  <2>0. fire[u] \in Fires /\ fire[u].pc = "dial" /\ FireOK(u, fire[u]) /\ fire[u].cur \in Items
    BY <1>0, <1>5 DEF Dial, FiresOK, FireOK
  <2>1. PICK ok \in BOOLEAN : Finish(u, fire[u].cur, ok)
    BY <1>5 DEF Dial
  <2> DEFINE L == LogRow(u, fire[u].cur, ok)
  <2> DEFINE f == [fire[u] EXCEPT !.pc = "next", !.cur = NoVal, !.ip = NoVal, !.done = @ \cup L]
  <2>2. L \subseteq [user : Users, rule : Rules, dest : Dests, ok : BOOLEAN]
    BY <2>0, LogRowType
  <2>3. fire' = [fire EXCEPT ![u] = f]
    BY <1>0, <2>1 DEF Finish, FiresOK, Fires
  <2> HIDE DEF L
  <2>4. FireOK(u, f)
    BY <2>0, <2>2 DEF FireOK, Fires
  <2> QED BY <1>0, <2>3, <2>4, OneFire
<1>6. ASSUME NEW u \in Users, CommitLog(u) PROVE FiresOK'
  <2>1. FireOK(u, Quiet)
    BY DEF FireOK, Fires, Quiet
  <2> QED BY <1>0, <1>6, <2>1, OneFire DEF CommitLog
<1>7. CASE Move \/ UNCHANGED vars \/ \E q \in Patches : PatchCommit(q)
  BY <1>1, <1>7 DEF Move, vars, PatchCommit
<1>8. ASSUME NEW u \in Users, NEW d \in Dests,
             \/ create_destination(u, d) \/ delete_destination(u, d)
             \/ (\E q \in Patches : PatchRead(q, u, d)) \/ (\E r \in Rules : create_rule(u, r, d))
      PROVE  FiresOK'
  BY <1>1, <1>8 DEF create_destination, delete_destination, PatchRead, create_rule
<1>9. ASSUME NEW u \in Users, NEW r \in Rules, update_rule(u, r) \/ delete_rule(u, r) PROVE FiresOK'
  BY <1>1, <1>9 DEF update_rule, delete_rule
<1> QED BY <1>2, <1>3, <1>4, <1>5, <1>6, <1>7, <1>8, <1>9 DEF Next

(* What leaves: to a public address, a credential over https, the user's.  *)
LEMMA WireStep == IInv /\ [Next]_vars => (PinnedPublic /\ OwnersOnly)'
<1> SUFFICES ASSUME IInv, [Next]_vars PROVE (PinnedPublic /\ OwnersOnly)'
  OBVIOUS
<1>0. PinnedPublic /\ OwnersOnly /\ FiresOK
  BY DEF IInv
<1>1. CASE UNCHANGED wire
  BY <1>0, <1>1 DEF PinnedPublic, OwnersOnly
<1>2. ASSUME NEW u \in Users, Dial(u) PROVE (PinnedPublic /\ OwnersOnly)'
  <2> DEFINE c == fire[u].cur.copy
  <2>1. fire[u].ip \in Public \cup {NoVal} /\ c.user = u /\ (c.kind = "jira" => c.target.scheme = "https")
    BY <1>0, <1>2 DEF Dial, FiresOK, FiresOwned, DialsChecked, Fires
  <2> DEFINE w == [user |-> u, to |-> c.target, owner |-> c.user, ip |-> fire[u].ip,
                   credential |-> c.kind = "jira"]
  <2>2. wire' = wire \cup {w}
    BY <1>2 DEF Dial, Addresses
  <2>3. w.ip = fire[u].ip /\ w.to = c.target /\ w.owner = c.user /\ w.user = u
        /\ w.credential = (c.kind = "jira")
    OBVIOUS
  <2> HIDE DEF w, c
  <2>4. (w.ip # NoVal => w.ip \in Public) /\ (w.credential => w.to.scheme = "https") /\ w.owner = w.user
    BY <2>1, <2>3
  <2> QED BY <1>0, <2>2, <2>4 DEF PinnedPublic, OwnersOnly
<1>3. CASE Move \/ UNCHANGED vars \/ \E q \in Patches : PatchCommit(q)
  BY <1>1, <1>3 DEF Move, vars, PatchCommit
<1>4. ASSUME NEW u \in Users, NEW d \in Dests,
             \/ create_destination(u, d) \/ delete_destination(u, d) \/ test_destination(u, d)
             \/ (\E q \in Patches : PatchRead(q, u, d)) \/ (\E r \in Rules : create_rule(u, r, d))
      PROVE  UNCHANGED wire
  BY <1>4 DEF create_destination, delete_destination, test_destination, PatchRead, create_rule
<1>5. ASSUME NEW u \in Users, NEW r \in Rules, update_rule(u, r) \/ delete_rule(u, r) PROVE UNCHANGED wire
  BY <1>5 DEF update_rule, delete_rule
<1>6. ASSUME NEW u \in Users, fire_alerts(u) \/ Send(u) \/ CommitLog(u) PROVE UNCHANGED wire
  BY <1>6 DEF fire_alerts, Send, CommitLog
<1> QED BY <1>1, <1>2, <1>3, <1>4, <1>5, <1>6 DEF Next

-----------------------------------------------------------------------------
(* The theorems.                                                           *)

LEMMA InitInv == Init => IInv
<1> SUFFICES ASSUME Init PROVE IInv
  OBVIOUS
<1>1. RowsOK /\ PatchesHold
  BY DEF Init, RowsOK, PatchesHold, Held
<1>2. RulesOwned /\ JointlyValid
  BY DEF Init, RulesOwned, JointlyValid, Live
<1>3. FiresOK
  BY DEF Init, FiresOK, Fires, FiresOwned, DialsChecked, Quiet
<1>4. PinnedPublic /\ OwnersOnly
  BY DEF Init, PinnedPublic, OwnersOnly
<1> QED BY <1>1, <1>2, <1>3, <1>4 DEF IInv

LEMMA Invariant == Spec => []IInv
<1>1. IInv /\ [Next]_vars => IInv'
  BY RowsStep, PatchesStep, RulesStep, FiresStep, JointlyStep, WireStep DEF IInv
<1> QED BY <1>1, InitInv, PTL DEF Spec

(* Rows keep their columns, and a PATCH under way holds what the row is.   *)
THEOREM LockHolds == Spec => [](RowsOK /\ PatchesHold)
<1>1. IInv => RowsOK /\ PatchesHold
  BY DEF IInv
<1> QED BY <1>1, Invariant, PTL

(* update_destination: however many partial updates interleave, a stored   *)
(* destination is one its kind's sender accepts as a whole.                *)
THEOREM StoredValid == Spec => []JointlyValid
<1>1. IInv => JointlyValid
  BY DEF IInv
<1> QED BY <1>1, Invariant, PTL

(* send_pinned_request: whatever names resolve to and whenever that        *)
(* changes, only public addresses are dialled and a credential travels     *)
(* over https.                                                             *)
THEOREM DialsPublic == Spec => []PinnedPublic
<1>1. IInv => PinnedPublic
  BY DEF IInv
<1> QED BY <1>1, Invariant, PTL

(* fire_alerts: alerts reach targets of the extension's owner only,        *)
(* although the owners of rule and destination are never compared.         *)
THEOREM OwnTargetsOnly == Spec => []OwnersOnly
<1>1. IInv => OwnersOnly
  BY DEF IInv
<1> QED BY <1>1, Invariant, PTL

=============================================================================
