-------------------------- MODULE MCSnapshotApply --------------------------
(* Small instances of SnapshotApply for TLC.                               *)
EXTENDS SnapshotApply

Orderly(written, crashes, cuts) ==
    [reorders |-> FALSE, edits |-> written, stops |-> crashes, losses |-> cuts]

\* Crashes and a power loss for the applier alone, the same with writers who
\* ignore the lock, and power losses on a file system that keeps no order.
AllWorlds ==
    {Orderly({}, 2, 1), Orderly(Edits, 2, 1),
     [reorders |-> TRUE, edits |-> {}, stops |-> 0, losses |-> 2]}

\* Crashes alone, among writers who ignore the lock.
EditedWorld == {Orderly(Edits, 2, 0)}

=============================================================================
