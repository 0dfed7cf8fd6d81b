--------------------------- MODULE MCPasswordLogin ----------------------------
(* The instance of PasswordLogin that TLC checks.                          *)
EXTENDS PasswordLogin, TLC

Symmetry == Permutations(Clients) \cup Permutations(Passwords)
=============================================================================
