------------------------- MODULE MCUserAdministration -------------------------
(* The instance of UserAdministration that TLC checks.                     *)
EXTENDS UserAdministration, TLC

Symmetry == Permutations(Clients) \cup Permutations(RoleNames) \cup Permutations(Keys)
=============================================================================
