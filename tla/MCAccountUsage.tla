--------------------------- MODULE MCAccountUsage ---------------------------
(* Interchangeable accounts and Threads for AccountUsage. *)
EXTENDS AccountUsage, TLC

Symmetry == Permutations(Accounts) \cup Permutations(Threads)
=============================================================================
