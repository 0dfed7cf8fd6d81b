----------------------- MODULE MCCredentialTransactions -----------------------
(* The instances of CredentialTransactions that TLC checks.                *)
EXTENDS CredentialTransactions, TLC

Symmetry ==
  Permutations(Clients) \cup Permutations(Sessions) \cup Permutations(Tokens)
    \cup Permutations(Resets) \cup Permutations(Passwords)
=============================================================================
