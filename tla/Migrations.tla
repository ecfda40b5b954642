----------------------------- MODULE Migrations ------------------------------
(***************************************************************************)
(* init_db (app/database.py): the schema is brought to the release's head  *)
(* in one transaction, from whatever database the process finds.           *)
(* Revisions are numbered: 0 no schema (or no stamp), 1 the baseline that  *)
(* predates Alembic, 2 the first migration (which makes the timestamps     *)
(* aware of their zone), and so on.                                        *)
(***************************************************************************)
EXTENDS Naturals

CONSTANT Releases  \* the head revision of each release that may be started

ASSUME ReleasesAssumption == Releases \subseteq Nat \ {0, 1}

VARIABLES
    db,    \* committed: the schema there is, and the stamp of alembic_version
    head,  \* of the release that is started
    work   \* what the transaction has made of db, or NoWork

mvars == <<db, head, work>>

Database(tables, stamp) == [tables |-> tables, stamp |-> stamp]

NoWork == Database(0, 0)

(* A database no release would leave as it is is one of: none at all; the  *)
(* baseline schema unstamped, or stamped at a head it never reached;       *)
(* tables dropped under a stamp; a schema built by the models of some      *)
(* release and never stamped.                                              *)
Databases ==
    {Database(0, 0)} \cup {Database(1, s) : s \in {0, 1} \cup Releases}
        \cup UNION {{Database(0, s), Database(s, 0), Database(s, s)} : s \in Releases}

_schema_matches_head(d) == d.tables = head

_has_post_baseline_schema(d) == d.tables >= 2

_is_falsely_stamped_baseline(d) == d.stamp > 1 /\ d.tables = 1

(* The unstamped schema of another release than this one. *)
Refused(d) == d.stamp = 0 /\ d.tables > 0
              /\ ~_schema_matches_head(d) /\ _has_post_baseline_schema(d)

(* Mutant: a database that predates Alembic is stamped at head. *)
Adopted_Head(d) ==
    CASE d.stamp = 0 /\ d.tables > 0 -> [d EXCEPT !.stamp = head]
      [] d.stamp > 0 /\ d.tables = 0 -> [d EXCEPT !.stamp = 0]
      [] OTHER -> d

(* The stamp before the upgrade: the head for a schema that is there; the  *)
(* baseline for one that predates Alembic or was stamped falsely; none     *)
(* for a stamp without a schema.                                           *)
Adopted(d) ==
    CASE d.stamp = 0 /\ d.tables > 0 /\ _schema_matches_head(d) -> [d EXCEPT !.stamp = head]
      [] d.stamp = 0 /\ d.tables > 0 /\ ~_schema_matches_head(d) -> [d EXCEPT !.stamp = 1]
      [] d.stamp > 0 /\ d.tables = 0 -> [d EXCEPT !.stamp = 0]
      [] d.tables > 0 /\ _is_falsely_stamped_baseline(d) -> [d EXCEPT !.stamp = 1]
      [] OTHER -> d

(* One migration: its DDL fails on a schema it was not written for. *)
Migrated(d) == Database(d.tables + 1, d.stamp + 1)

MigrationsInit == /\ db \in Databases
                  /\ head \in Releases
                  /\ work = NoWork

(* A stamp of a later release is a revision this one lacks: every stamp    *)
(* command and the upgrade fail on it.                                     *)
CannotStart == Refused(db) \/ db.stamp > head

Inspect == /\ work' = Adopted(db)
           /\ ~CannotStart
           /\ UNCHANGED <<db, head>>

Upgrade == /\ work.stamp < head
           /\ work.tables = work.stamp
           /\ work' = Migrated(work)
           /\ UNCHANGED <<db, head>>

CommitSchema == /\ work.stamp = head
                /\ db' = work
                /\ work' = NoWork
                /\ UNCHANGED head

=============================================================================
