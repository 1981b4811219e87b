--------------------------- MODULE MCPasswordReset ---------------------------
(* Small instances of PasswordReset for TLC.                                *)
EXTENDS PasswordReset, TLC

CONSTANTS u1, u2, a, b, c, r1, r2, r3, r4

Interchangeable ==
  Permutations(Users) \cup Permutations(Tokens) \cup Permutations(Requests)
=============================================================================
