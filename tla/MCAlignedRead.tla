---------------------------- MODULE MCAlignedRead ----------------------------
(* AlignedRead for TLC: the legs are alike, and so are the accounts. *)
EXTENDS AlignedRead, TLC

Alike == Permutations(Legs) \cup Permutations(Accounts)
=============================================================================
