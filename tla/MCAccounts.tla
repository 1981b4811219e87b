----------------------------- MODULE MCAccounts -----------------------------
(* Small instances of Accounts for TLC.                                     *)
EXTENDS Accounts, TLC

CONSTANTS e1, c1, r1, r2, r3, s1, s2
=============================================================================
