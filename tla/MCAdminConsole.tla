--------------------------- MODULE MCAdminConsole ----------------------------
(* The instance of AdminConsole that TLC checks.  Whichever slot SomeFree  *)
(* gives, the free ones are alike, and so are the states that follow.      *)
EXTENDS AdminConsole, TLC

Symmetry == Permutations(Slots) \cup Permutations(Users)
=============================================================================
