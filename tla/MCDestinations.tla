--------------------------- MODULE MCDestinations ----------------------------
(***************************************************************************)
(* Destinations for TLC: one name that moves, a public address as a target *)
(* of its own, and a mailbox.                                              *)
(***************************************************************************)
EXTENDS Destinations, TLC

MCTargets == {[scheme |-> "http",   host |-> "name", proper |-> TRUE],
              [scheme |-> "https",  host |-> "name", proper |-> TRUE],
              [scheme |-> "mailto", host |-> "box",  proper |-> TRUE],
              [scheme |-> "https",  host |-> "name", proper |-> FALSE]}

Body(kind, target, config, enabled) == [kind |-> kind, target |-> target, config |-> config, enabled |-> enabled]

(* A change of kind with what it needs, changes of one field, a switch.    *)
MCBodies ==
    {Body("email", [scheme |-> "mailto", host |-> "box", proper |-> TRUE], NoVal, NoVal),
     Body("jira", NoVal, "secret_ref", NoVal),
     Body(NoVal, [scheme |-> "http", host |-> "name", proper |-> TRUE], NoVal, NoVal),
     Body(NoVal, NoVal, NoVal, FALSE)}

Symmetry == Permutations(Patches) \cup Permutations(Users) \cup Permutations(Dests)

=============================================================================
