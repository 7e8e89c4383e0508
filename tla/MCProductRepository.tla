------------------------ MODULE MCProductRepository ------------------------
(***************************************************************************)
(* Small instances of ProductRepository for TLC.                           *)
(***************************************************************************)
EXTENDS ProductRepository, TLC

(* No definition tells the members of these sets apart. *)
Symmetry == Permutations(Runs) \cup Permutations(Callers) \cup
            Permutations(Subjects) \cup Permutations(Keys) \cup
            Permutations(Contents) \cup Permutations(Threads)
=============================================================================
