----------------------------- MODULE MCOrganization -----------------------------
(* Instances of Organization for TLC. *)
EXTENDS Organization, TLC

CONSTANTS u1, u2, u3, s1, s2

Symmetry == Permutations(User) \cup Permutations(Session)
=============================================================================
