------------------------------- MODULE Outbox --------------------------------
(***************************************************************************)
(* What the alert pipeline promises the owner of an extension: every       *)
(* change is recorded together with the state that shows it, told at least *)
(* once, and forgotten only when it is settled - told and put on record,   *)
(* or waived because nobody asked to be told.  Nothing is told that did    *)
(* not happen, nothing is on record as told that was not.  How tasks,      *)
(* transactions and retries bring that about is left to AlertPipeline,     *)
(* which implements this specification.                                    *)
(***************************************************************************)
CONSTANT Changes   \* the change events of the extension

VARIABLES
    open,      \* the extension is on record
    happened,  \* changes that are committed
    pending,   \* changes still to be settled
    told,      \* changes a sender was given
    recorded,  \* changes on record as told
    waived     \* changes nobody asked to be told

vars == <<open, happened, pending, told, recorded, waived>>

Init ==
    /\ open = TRUE
    /\ happened \in SUBSET Changes /\ pending = happened
    /\ told = {} /\ recorded = {} /\ waived = {}

(* Changes are committed and become pending in one step.                   *)
Commit(E) ==
    /\ open
    /\ happened' = happened \cup E /\ pending' = pending \cup E
    /\ UNCHANGED <<open, told, recorded, waived>>

(* One that happened is told, possibly again.                              *)
Tell(e) ==
    /\ e \in happened
    /\ told' = told \cup {e}
    /\ UNCHANGED <<open, happened, pending, recorded, waived>>

(* Changes that were all told go on record.                                *)
Record(E) ==
    /\ E \subseteq told
    /\ recorded' = recorded \cup E
    /\ UNCHANGED <<open, happened, pending, told, waived>>

Waive(E) ==
    /\ E \subseteq happened
    /\ waived' = waived \cup E
    /\ UNCHANGED <<open, happened, pending, told, recorded>>

Forget(E) ==
    /\ E \subseteq recorded \cup waived
    /\ pending' = pending \ E
    /\ UNCHANGED <<open, happened, told, recorded, waived>>

(* The extension is deleted with all that is pending.                      *)
Close ==
    /\ open /\ open' = FALSE /\ pending' = {}
    /\ UNCHANGED <<happened, told, recorded, waived>>

Next ==
    \/ \E E \in SUBSET Changes : Commit(E) \/ Record(E) \/ Waive(E) \/ Forget(E)
    \/ \E e \in Changes : Tell(e)
    \/ Close

Spec == Init /\ [][Next]_vars

=============================================================================
