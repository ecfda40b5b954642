------------------------------ MODULE MCSignOn -------------------------------
(***************************************************************************)
(* SignOn for TLC: two providers, two identities and two addresses.        *)
(***************************************************************************)
EXTENDS SignOn, TLC

CONSTANTS p1, p2, i1, i2, e1, e2, t1, t2, root, d8, d32, staff

MCRoleMap == (staff :> "admin")

(* Every identity has derived names of its own, but for the one a local    *)
(* account may squat.                                                      *)
MCDerived == [k \in Emails \X Idents \X {8, 32} |-> IF k[3] = 8 THEN d8 ELSE d32]

Claim(p, i, e, v, g, t) ==
    [provider |-> p, ident |-> i, email |-> e, verified |-> v, groups |-> g, tenant |-> t]

(* p1 tells tenants apart, p2 has none.  One person whose address and      *)
(* groups change; the same pair from another tenant and from another       *)
(* provider; another person who is given the first one's address; an       *)
(* unverified address.                                                     *)
MCClaims ==
    { Claim(p1, i1, e1, TRUE,  {staff}, t1),
      Claim(p1, i1, e2, TRUE,  {},      t1),
      Claim(p1, i1, e2, FALSE, {staff}, t2),
      Claim(p2, i1, e2, TRUE,  {staff}, None),
      Claim(p2, i2, e1, TRUE,  {staff}, None) }

(* A local account named like an address, and one that squats the names    *)
(* derived from it.                                                        *)
MCForms ==
    { [name |-> e1,  email |-> None, role |-> "admin"],
      [name |-> d32, email |-> e2,   role |-> "auditor"] }

Symmetry == Permutations(Tasks)

=============================================================================
