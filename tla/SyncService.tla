---------------------------- MODULE SyncService ----------------------------
(* What the sync service does with the operations it is sent               *)
(* (fub-services, sync/mod.rs): the folded state of one vault, the fold of *)
(* one operation into it, the answer to a push and a page of a pull, as    *)
(* operators. The requests of a vault are served one at a time, under its  *)
(* lock, so each is a step of the module that extends this one.            *)
(*                                                                         *)
(* An operation is a record: its id, the replica it is by, the document,   *)
(* its vector and the text it carries, Gone when it deletes. Keys, sizes,  *)
(* retention, quotas, trash and renames (which no client sends) are left   *)
(* out.                                                                    *)
EXTENDS VersionVectors, SequencesExt

CONSTANTS
    Docs,
    NoVector        \* no tombstone, no snapshot

ASSUME DocsAssumption == IsFiniteSet(Docs)

\* A document that is not there, and the text of a deletion.
Gone == 0

\* An id is that of a replica and its number.
Ids == Replicas \X Nat
Ops == [id : Ids, by : Replicas, doc : Docs, vv : Vectors, text : Nat]

\* The folded state of a vault: for each document the chain of its versions
\* and its tombstone, the ids that were folded and the vector of the server.
States == [chain : [Docs -> Seq(Ops)],
           tomb : [Docs -> Vectors \cup {NoVector}],
           seen : SUBSET Ids,
           vv : Vectors]

\* The operations of a sequence that are in S, in their order.
Keeping(S, ops) ==
    FoldLeft(LAMBDA some, op : IF op \in S THEN Append(some, op) ELSE some, <<>>, ops)

Latest(s, d) == Last(s.chain[d])

Stored(s) == UNION {Range(s.chain[d]) : d \in Docs}

Folded(s, op) == op.id \in s.seen \/ \E old \in Range(s.chain[op.doc]) : old.id = op.id

\* Under the tombstone of a deletion it has not seen.
Buried(s, op) ==
    /\ op.text # Gone
    /\ s.tomb[op.doc] # NoVector
    /\ ~Dominates(op.vv, s.tomb[op.doc])

\* The last version knows the operation already.
Stale(s, op) == s.chain[op.doc] # <<>> /\ Below(op.vv, Latest(s, op.doc).vv)

\* The operation and the last version do not know each other.
Races(s, op) ==
    /\ s.chain[op.doc] # <<>>
    /\ Concurrent(op.vv, Latest(s, op.doc).vv)
    /\ op.text = Gone => Latest(s, op.doc).text # Gone

\* A deletion looks at the vectors first, a write at the tombstone.
Held(s, op) == Buried(s, op)
Skipped(s, op) == ~Held(s, op) /\ Stale(s, op)

Store(s, op) ==
    [chain |-> [s.chain EXCEPT ![op.doc] = Append(@, op)],
     tomb |-> [s.tomb EXCEPT ![op.doc] = IF op.text = Gone THEN op.vv ELSE NoVector],
     seen |-> s.seen \cup {op.id},
     vv |-> Merge(s.vv, op.vv)]

Fold(s, op) ==
    IF Skipped(s, op) THEN [s EXCEPT !.seen = @ \cup {op.id}] ELSE Store(s, op)

-----------------------------------------------------------------------------
(* The answer to a push. *)

Answer(s) == [state |-> s, ack |-> {}, conflicts |-> {}, log |-> <<>>, held |-> FALSE]

\* One more operation of the log of a replica: what a crash kept from the
\* folded state. One that is held ends the request; a conflict is recorded
\* in the state and not in the answer.
ReplayOne(a, op) ==
    IF a.held \/ Folded(a.state, op) THEN a
    ELSE IF Held(a.state, op) THEN [a EXCEPT !.held = TRUE]
    ELSE [a EXCEPT !.state = Fold(@, op)]

Replay(s, log) == FoldLeft(ReplayOne, Answer(s), log)

\* Mutant: an operation that is held is acknowledged.
TakeHeld(a, op) ==
    IF Folded(a.state, op) THEN [a EXCEPT !.ack = @ \cup {op.id}]
    ELSE IF Held(a.state, op) THEN [a EXCEPT !.ack = @ \cup {op.id}, !.conflicts = @ \cup {op.doc}]
    ELSE IF Skipped(a.state, op)
    THEN [a EXCEPT !.ack = @ \cup {op.id}, !.state = Fold(@, op)]
    ELSE [a EXCEPT !.ack = @ \cup {op.id}, !.state = Fold(@, op),
                   !.log = Append(@, op),
                   !.conflicts = IF Races(a.state, op) THEN @ \cup {op.doc} ELSE @]

\* One more operation of the batch: a duplicate and a stale one are
\* acknowledged, one that is held is a conflict, the others are stored.
TakeOne(a, op) ==
    IF Folded(a.state, op) THEN [a EXCEPT !.ack = @ \cup {op.id}]
    ELSE IF Held(a.state, op) THEN [a EXCEPT !.conflicts = @ \cup {op.doc}]
    ELSE IF Skipped(a.state, op)
    THEN [a EXCEPT !.ack = @ \cup {op.id}, !.state = Fold(@, op)]
    ELSE [a EXCEPT !.ack = @ \cup {op.id}, !.state = Fold(@, op),
                   !.log = Append(@, op),
                   !.conflicts = IF Races(a.state, op) THEN @ \cup {op.doc} ELSE @]

Push(s, log, batch) ==
    LET replayed == Replay(s, log) IN
        IF replayed.held THEN replayed ELSE FoldLeft(TakeOne, replayed, batch)

-----------------------------------------------------------------------------
(* A page of a pull: the versions that are not known to who asks, in the   *)
(* order of the documents and of their chains.                             *)

UnknownOf(s, since, d) ==
    Keeping({op \in Range(s.chain[d]) : ~Below(op.vv, since)}, s.chain[d])

Unknown(s, since) ==
    FoldLeft(LAMBDA all, d : all \o UnknownOf(s, since, d), <<>>, SetToSeq(Docs))

Page(s, since, offset, size) ==
    LET all == Unknown(s, since)
        last == IF offset + size < Len(all) THEN offset + size ELSE Len(all)
    IN  [ops |-> SubSeq(all, offset + 1, last), more |-> last < Len(all), vv |-> s.vv]

=============================================================================
