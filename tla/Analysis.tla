------------------------------ MODULE Analysis -------------------------------
(***************************************************************************)
(* What refreshes of one extension make of the listings and packages a     *)
(* store serves: the fetchers of app/fetchers, and fetch_and_store of      *)
(* app/services.py with its keep-stale rules, its package snapshots and    *)
(* its change events.                                                      *)
(*                                                                         *)
(* The listing and the package are two requests, between which the store   *)
(* may publish another version; a listing may be parsed in part, a         *)
(* download may fail or arrive broken, and the Edge fetcher then falls     *)
(* back to a package made of the manifest in the listing.  The rest of     *)
(* fetch_and_store runs under the row lock and is one step.  Threat        *)
(* matches and analyst decisions (RiskPosture) and the delivery of the     *)
(* events (AlertPipeline) are modelled elsewhere.                          *)
(***************************************************************************)
EXTENDS Scoring

CONSTANTS
    Tasks,        \* the scheduler and manual refreshes of the same extension
    Versions,     \* versions the store may publish
    Package,      \* version -> the package published under it (external)
    Publishers, Counts, Ages,   \* publisher names, install counts, days since an update
    Stores,       \* browser stores: "chrome", "edge"
    Losses,       \* sets of listing fields that may be missing from an answer
    MaxEdits,     \* bound: changes in the store
    MaxFaults     \* bound: listings damaged, downloads failed or broken, rollbacks

(* A version is the identity of its bytes: whatever manifest a package is  *)
(* described by carries the version it is published under.  The packages   *)
(* are those of browser stores, which all have a manifest.json.  None is   *)
(* no version and no listing.                                              *)
Listings == [version : Versions, publisher : Publishers, install_count : Counts, last_updated : Ages]

ASSUME VersionAssumption ==
    /\ NoVal \notin Versions \cup Listings
    /\ \A v \in Versions : \A c \in DOMAIN Package[v].manifests :
          Package[v].manifests[c] # NoVal => Package[v].manifests[c].version = v
    /\ \A v \in Versions : "manifest.json" \in DOMAIN Package[v].manifests

VARIABLES
    kind,       \* Extension.store
    store,      \* what the store serves (environment)
    row,        \* the Extension row
    counts,     \* InstallCountHistory, oldest first; only the last two are ever read
    snaps,      \* PackageSnapshot rows, oldest first
    task,       \* local state of every refresh
    known,      \* history: capabilities of the first snapshot or of a change event
    basis,      \* history: the listing the row shows undamaged, or NoVal
    report,     \* history: event types of the last refresh, and whether it saw the basis
    edits, faults

vars == <<kind, store, row, counts, snaps, task, known, basis, report, edits, faults>>

Unfetched == [fetched |-> FALSE, version |-> NoVal, publisher |-> NoVal, install_count |-> NoVal,
              last_updated |-> NoVal, permissions |-> {}, analysis |-> NoVal, risk_score |-> NoVal]

Idle == [pc |-> "idle", meta |-> NoVal, saw |-> NoVal]

Init ==
    /\ kind \in Stores
    /\ store \in Listings
    /\ row = Unfetched
    /\ counts = << >> /\ snaps = << >>
    /\ task = [t \in Tasks |-> Idle]
    /\ known = {} /\ basis = NoVal
    /\ report = [types |-> {}, same |-> FALSE]
    /\ edits = 0 /\ faults = 0

Lose(n) == faults + n <= MaxFaults /\ faults' = faults + n

(* The store publishes a version, or a figure of the listing changes.      *)
Publish ==
    /\ edits < MaxEdits /\ edits' = edits + 1
    /\ \E listing \in Listings :
          /\ Cardinality({f \in DOMAIN store : store[f] # listing[f]}) = 1
          /\ store' = listing
    /\ UNCHANGED <<kind, row, counts, snaps, task, known, basis, report, faults>>

-----------------------------------------------------------------------------
(* The fetchers.                                                           *)

(* A page or answer of which the fields in lost could not be parsed.  Edge *)
(* has the manifest of the version in the same answer.                     *)
Parsed(lost) ==
    [f \in {"version", "publisher", "install_count", "last_updated"} |->
        IF f \in lost THEN NoVal ELSE store[f]]

fetch_metadata(t) ==
    /\ task[t].pc = "idle"
    /\ \E lost \in Losses \cup {{}} :
          /\ "manifest" \in lost => kind = "edge"
          /\ Lose(IF lost = {} THEN 0 ELSE 1)
          /\ task' = [task EXCEPT ![t] =
                [pc |-> "download", meta |-> Parsed(lost),
                 saw |-> [listing |-> store, whole |-> lost = {},
                          manifest |-> IF kind = "edge" /\ "manifest" \notin lost THEN store.version ELSE NoVal]]]
    /\ UNCHANGED <<kind, store, row, counts, snaps, known, basis, report, edits>>

(* The row is gone when it is locked, or the caller's commit fails: the    *)
(* refresh is rolled back.                                                 *)
FetchError(t) ==
    /\ task[t].pc = "store"
    /\ Lose(1)
    /\ task' = [task EXCEPT ![t] = Idle]
    /\ UNCHANGED <<kind, store, row, counts, snaps, known, basis, report, edits>>

(* _manifest_to_zip: the manifest of the listing and nothing else.         *)
_manifest_to_zip(v) ==
    [archive   |-> "ok",
     manifests |-> [c \in {"manifest.json"} |-> Package[v].manifests["manifest.json"]],
     files     |-> << >>]

(* What arrives of the package of a version: all of it, bytes that are no  *)
(* archive, or the manifest-only package.                                  *)
Served(v) ==
    [whole    |-> Package[v],
     broken   |-> [archive |-> "broken", manifests |-> << >>, files |-> << >>],
     manifest |-> _manifest_to_zip(v)]

Got(t, v, form) ==
    task' = [task EXCEPT ![t] =
                [pc |-> "store", meta |-> @.meta,
                 saw |-> [listing |-> @.saw.listing, whole |-> @.saw.whole /\ form = "whole",
                          same |-> @.saw.listing = store, version |-> v, form |-> form]]]

(* _get_package_bytes: the package served now.  When it fails the refresh  *)
(* goes on without one, Edge with the manifest it has.                     *)
download_package(t) ==
    /\ task[t].pc = "download"
    /\ \/ Got(t, store.version, "whole") /\ UNCHANGED faults
       \/ Got(t, store.version, "broken") /\ Lose(1)
       \/ /\ IF task[t].saw.manifest # NoVal
             THEN Got(t, task[t].saw.manifest, "manifest") ELSE Got(t, NoVal, "none")
          /\ Lose(1)
    /\ UNCHANGED <<kind, store, row, counts, snaps, known, basis, report, edits>>

-----------------------------------------------------------------------------
(* fetch_and_store, from the row lock on.                                  *)

(* The inspection of everything that can arrive.  An analysis of less than *)
(* the package is marked.                                                  *)
Inspection ==
    [v \in Versions |-> [form \in {"whole", "broken", "manifest"} |->
        LET a == inspect_package(Served(v)[form])
        IN IF a # NoVal /\ form = "manifest" THEN [a EXCEPT !.complete = FALSE] ELSE a]]

Inspected(saw) == IF saw.form = "none" THEN NoVal ELSE Inspection[saw.version][saw.form]

Or(a, b) == IF a # NoVal THEN a ELSE b

(* The readings score_popularity sees, the one of this fetch included.     *)
_stage_install_reading(meta) ==
    IF meta.install_count = NoVal THEN counts
    ELSE LET all == Append(counts, meta.install_count)
         IN SubSeq(all, IF Len(all) > 2 THEN Len(all) - 1 ELSE 1, Len(all))

HostPermissions(r) == IF r.analysis = NoVal THEN {} ELSE r.analysis.host_permissions

(* What is scored and stored: what is missing keeps its stored value.      *)
_effective_values(meta, a) ==
    [permissions       |-> IF a # NoVal THEN a.permissions ELSE row.permissions,
     host_permissions  |-> IF a # NoVal THEN a.host_permissions ELSE HostPermissions(row),
     publisher_changed |-> row.fetched /\ row.publisher # NoVal /\ meta.publisher \notin {NoVal, row.publisher},
     publisher         |-> Or(Or(meta.publisher, row.publisher), IF a # NoVal THEN a.author ELSE NoVal),
     install_count     |-> Or(meta.install_count, row.install_count),
     last_updated      |-> Or(meta.last_updated, row.last_updated)]

(* Mutant: the store's version goes before the one in the package.         *)
ObservedVersion_Listed(meta, a) == Or(meta.version, IF a # NoVal THEN a.version ELSE NoVal)

(* The version is the one of the inspected bytes when there are any.       *)
ObservedVersion(meta, a) == Or(IF a # NoVal THEN a.version ELSE NoVal, meta.version)

_apply_fetch_results(meta, a, eff, score) ==
    [fetched       |-> TRUE,
     version       |-> Or(ObservedVersion(meta, a), row.version),
     publisher     |-> eff.publisher,
     install_count |-> eff.install_count,
     last_updated  |-> eff.last_updated,
     permissions   |-> eff.permissions,
     analysis      |-> Or(a, row.analysis),
     risk_score    |-> score]

(* _capture_package_snapshot inserts: a complete analysis, once a version. *)
Captured(a, version) ==
    /\ a # NoVal /\ a.complete /\ version # NoVal
    /\ \A i \in DOMAIN snaps : snaps[i].version # version

(* Mutant: compared with the row's analysis, which may be a degraded one.  *)
CapabilityDiff_Row(a, version) ==
    IF Captured(a, version) /\ snaps # << >> THEN diff_analysis(row.analysis, a) ELSE {}

(* Mutant: reported whether or not a snapshot was inserted.                *)
CapabilityDiff_Always(a, version) ==
    IF a # NoVal /\ a.complete /\ snaps # << >> THEN diff_analysis(snaps[1].analysis, a) ELSE {}

(* The difference is taken from the newest snapshot, when one is inserted. *)
CapabilityDiff(a, version) ==
    IF Captured(a, version) /\ snaps # << >> THEN diff_analysis(snaps[Len(snaps)].analysis, a) ELSE {}

(* detect_changes, the types only; then the filter on degraded analyses.   *)
detect_changes(new, diff) ==
    {e \in {"risk_level_change", "publisher_change", "permission_change", "new_version", "capability_change"} :
        /\ row.fetched
        /\ CASE e = "risk_level_change" -> risk_level(row.risk_score) # risk_level(new.risk_score)
             [] e = "publisher_change"  -> row.publisher # NoVal /\ new.publisher \notin {NoVal, row.publisher}
             [] e = "permission_change" ->
                    row.permissions \cup HostPermissions(row) # new.permissions \cup HostPermissions(new)
             [] e = "new_version"       -> row.version # NoVal /\ new.version \notin {NoVal, row.version}
             [] e = "capability_change" -> diff # {}}

Filtered(events, a) ==
    IF a # NoVal /\ ~a.complete THEN events \cap {"publisher_change", "new_version"} ELSE events

(* History: the capabilities an operator has been told of.                 *)
Announced(new, diff, events) ==
    (IF "capability_change" \in events THEN diff ELSE {})
      \cup (IF "permission_change" \in events
            THEN {"permission"} \X (new.permissions \cup HostPermissions(new)) ELSE {})

fetch_and_store(t) ==
    /\ task[t].pc = "store"
    /\ LET saw     == task[t].saw
           meta    == task[t].meta
           a       == Inspected(saw)
           history == _stage_install_reading(meta)
           eff     == _effective_values(meta, a)
           new     == _apply_fetch_results(meta, a, eff, compute_risk_score(eff, history, NoVal, a))
           diff    == CapabilityDiff(a, new.version)
           events  == Filtered(detect_changes(new, diff), a)
           seen    == saw.same /\ saw.listing = basis
       IN /\ row' = new
          /\ counts' = history
          /\ snaps' = IF Captured(a, new.version)
                      THEN Append(snaps, [version |-> new.version, analysis |-> a]) ELSE snaps
          /\ known' = known \cup Announced(new, diff, events)
                            \cup (IF Captured(a, new.version) /\ snaps = << >> THEN Capabilities(a) ELSE {})
          /\ basis' = IF saw.same /\ saw.whole THEN saw.listing ELSE IF seen THEN basis ELSE NoVal
          /\ report' = [types |-> events, same |-> seen]
    /\ task' = [task EXCEPT ![t] = Idle]
    /\ UNCHANGED <<kind, store, edits, faults>>

Next ==
    \/ Publish
    \/ \E t \in Tasks : fetch_metadata(t) \/ FetchError(t) \/ download_package(t) \/ fetch_and_store(t)

Spec == Init /\ [][Next]_vars

-----------------------------------------------------------------------------
(* Once there is a trusted snapshot, everything a complete analysis of the *)
(* row says the extension can do or does was in the first snapshot or has  *)
(* been announced: by a permission change or by the capability change of a *)
(* later version.  Fallback packages, downloads that overtake each other   *)
(* and versions that come back open no way around the alert, although a    *)
(* fallback package overwrites the permissions silently.                   *)
NothingSlipsIn ==
    row.analysis # NoVal /\ row.analysis.complete /\ snaps # << >> => Capabilities(row.analysis) \subseteq known

(* The analysis of the bytes published under each version.                 *)
Published == [v \in Versions |-> inspect_package(Package[v])]

(* A snapshot is evidence of the version it is filed under: it is the      *)
(* complete analysis of the bytes published as that version, even when the *)
(* listing and the download straddle a release or the listing names no     *)
(* version, and a version has one.                                         *)
SnapshotTrusted ==
    /\ \A i \in DOMAIN snaps : snaps[i].analysis = Published[snaps[i].version]
    /\ \A i, j \in DOMAIN snaps : snaps[i].version = snaps[j].version => i = j

(* Keep-stale: the permissions and hosts of a row that has ever been       *)
(* analysed are those of one published manifest, together.  A failed or    *)
(* broken download, an unparsable manifest beside a readable package.json  *)
(* or a partial listing erases none of them and mixes none.                *)
ManifestKept ==
    row.analysis # NoVal =>
        \E v \in Versions :
            LET m == Package[v].manifests["manifest.json"]
            IN /\ m # NoVal
               /\ row.permissions = IF m.vscode THEN {} ELSE m.permissions \ HostPatterns
               /\ HostPermissions(row) = m.host_permissions \cup (m.permissions \cap HostPatterns)

(* A refresh that sees the listing the row already shows undamaged reports *)
(* no change of publisher, permissions, version or capabilities, whatever  *)
(* was lost on the way.  The risk level is not among them: a missing       *)
(* package is scored at the midpoint of what it hides.                     *)
TransientIsSilent == report.same => report.types \subseteq {"risk_level_change"}

=============================================================================
