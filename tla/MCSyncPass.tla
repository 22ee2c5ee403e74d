----------------------------- MODULE MCSyncPass -----------------------------
(* Small instances of SyncPass for TLC.                                    *)
EXTENDS SyncPass

CONSTANTS d1, d2

\* Three changes without a fault; two with one and a pull that is asked for;
\* two with a conflict that is settled and released, the release broken off or
\* not; one with a release and a fault; two on two notes with a fault.
MCBounds ==
    {[docs |-> {d1}, changes |-> 3, retries |-> 0, pulls |-> 0, breaks |-> 0, faults |-> 0],
     [docs |-> {d1}, changes |-> 2, retries |-> 0, pulls |-> 1, breaks |-> 0, faults |-> 1],
     [docs |-> {d1}, changes |-> 2, retries |-> 1, pulls |-> 0, breaks |-> 1, faults |-> 0],
     [docs |-> {d1}, changes |-> 1, retries |-> 1, pulls |-> 0, breaks |-> 0, faults |-> 1],
     [docs |-> {d1, d2}, changes |-> 2, retries |-> 0, pulls |-> 0, breaks |-> 0, faults |-> 1]}

\* The replicas are interchangeable.
Symmetry == Permutations(Replicas)

=============================================================================
