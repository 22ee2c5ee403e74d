-------------------------- MODULE MCRenameRecovery --------------------------
(* Small instances of RenameRecovery for TLC.                              *)
EXTENDS RenameRecovery

CONSTANTS a, b, n, moving, linking

\* A note at a, that may link to itself, another at n that links to it, and
\* nothing at b.
Backlinks ==
    {[p \in {a, b, n} |->
         CASE p = a -> [note |-> moving, edits |-> 0, link |-> link]
           [] p = n -> [note |-> linking, edits |-> 0, link |-> a]
           [] p = b -> None] : link \in {a, None}}

\* Either two renames with everything that may go wrong, or three among crashes
\* and a refusal.
Worlds == {[crashes |-> 2, faults |-> 1, refusals |-> 1, changes |-> 1,
            overtaken |-> 1, renames |-> 2],
           [crashes |-> 2, faults |-> 0, refusals |-> 1, changes |-> 0,
            overtaken |-> 0, renames |-> 3]}
Within(w) == [crashes : 0..w.crashes, faults : 0..w.faults, refusals : 0..w.refusals,
              changes : 0..w.changes,
              overtaken : 0..w.overtaken, renames : 0..w.renames]
WithinWorlds == UNION {Within(w) : w \in Worlds}

=============================================================================
