----------------------------- MODULE MCSessions -----------------------------
(* Small instances of Sessions for TLC.                                     *)
EXTENDS Sessions, TLC

CONSTANTS u1, a, b, c, r1, r2, r3

Interchangeable == Permutations(Tokens) \cup Permutations(Requests)
=============================================================================
