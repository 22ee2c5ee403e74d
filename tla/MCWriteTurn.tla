---------------------------- MODULE MCWriteTurn ----------------------------
(* Small instances of WriteTurn for TLC.                                   *)
EXTENDS WriteTurn, TLC

\* The workspace's turn is taken again inside itself, another inside it once.
MCDepth == [v \in Turns |-> IF v = Workspace THEN 2 ELSE 1]

\* Threads and instances are interchangeable, the turns are not.
Symmetry == Permutations(Threads) \cup Permutations(Instances)

=============================================================================
