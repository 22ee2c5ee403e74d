----------------------------- MODULE MCJobPool -----------------------------
(* Small instances of JobPool for TLC.                                     *)
EXTENDS JobPool, TLC

\* The threads of the pool are interchangeable.
Symmetry == Permutations(Workers)

=============================================================================
