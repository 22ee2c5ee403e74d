--------------------------- MODULE AtomicReplace ---------------------------
(***************************************************************************)
(* What the snapshot applier of fub-kernel/src/snapshot.rs promises to     *)
(* those that use its lock: the vault has the content it had or the one of *)
(* a transaction, whole; and a transaction takes the place of exactly the  *)
(* content it was made against, in one step.  A crash is not a step here:  *)
(* it shows nothing.                                                       *)
(***************************************************************************)
CONSTANTS
    Transactions,  \* the transactions, each with the content it publishes
    Original,      \* what the vault has at the start
    Absent

VARIABLES
    vault,   \* the content of the vault
    base     \* transaction -> the content it was made against

Contents == Transactions \cup {Original}

Init == vault = Original /\ base = [t \in Transactions |-> Absent]

Ask(t, b) ==
    /\ base[t] = Absent
    /\ base' = [base EXCEPT ![t] = b]
    /\ UNCHANGED vault

Replace(t) ==
    /\ vault = base[t]
    /\ vault' = t
    /\ UNCHANGED base

Next == \E t \in Transactions : (\E b \in Contents : Ask(t, b)) \/ Replace(t)

Spec == Init /\ [][Next]_<<vault, base>>

=============================================================================
