--------------------------- MODULE VersionVectors ---------------------------
(* The version vectors of fub-services (sync/causality.rs): a counter for  *)
(* each replica, a replica that is not in the map counting for zero.       *)
EXTENDS Naturals

CONSTANT Replicas

Vectors == [Replicas -> Nat]

Nowhere == [r \in Replicas |-> 0]

\* Every counter of a is in b: a is Equal to b or Dominated by it.
Below(a, b) == \A r \in Replicas : a[r] <= b[r]

Dominates(a, b) == Below(b, a) /\ ~Below(a, b)

Concurrent(a, b) == ~Below(a, b) /\ ~Below(b, a)

\* The highest counter of each replica.
Merge(a, b) == [r \in Replicas |-> IF a[r] < b[r] THEN b[r] ELSE a[r]]

=============================================================================
