------------------------------ MODULE LiveHost ------------------------------
(* The state of a live session on the PC (fub-live, host/session.rs) and   *)
(* the queue of a connection (host/outbox.rs), as operators that take the  *)
(* state of the session as a record and return it. A writer is paired; its *)
(* commits wait until the shell answers, and what the shell changes is     *)
(* logged for who enters.                                                  *)
(*                                                                         *)
(* The document is a sequence of changes: a counter seq stands for its     *)
(* first seq changes, a snapshot for all of them, an operation and the     *)
(* echo of a commit for the one its counter names.                         *)
EXTENDS Integers, Sequences, FiniteSets, FiniteSetsExt, SequencesExt

CONSTANTS
    MaxCommits,     \* commits the writer makes
    MaxConns,       \* connections it opens
    RetainedNacks,  \* RETAINED_NACKS
    LogSoft,        \* LOG_SOFT_BYTES, in changes
    LogHard,        \* LOG_HARD_BYTES
    OutboxItems     \* OUTBOX_ITEMS

ASSUME HostAssumption ==
    /\ MaxCommits \in Nat /\ MaxConns \in Nat \ {0}
    /\ {RetainedNacks, LogSoft, LogHard, OutboxItems} \subseteq Nat

Commits == 1..MaxCommits
Conns == 1..MaxConns

NoConn == 0
NoToken == 0

\* A message for the writer: c is a commit, or the lastC of a welcome; n is
\* the counter of the document, or the token of a welcome. "same" is the ack
\* of a duplicate, which changes nothing.
Msg(t, c, n) == [t |-> t, c |-> c, n |-> n]

Answers == [t : {"ack", "same", "nack"}, c : Commits, n : Nat]
Changes == [t : {"snapshot", "ops"}, c : {0}, n : Nat]
Words == Changes \cup Answers   \* what the shell says
Messages == [t : {"welcome"}, c : 0..MaxCommits, n : Nat] \cup Words

\* A set of numbers in their order.
InOrder(S) ==
    CHOOSE q \in [1..Cardinality(S) -> S] : \A i, j \in DOMAIN q : i < j => q[i] < q[j]

-----------------------------------------------------------------------------
(* The queue of a connection.                                              *)

EmptyBox == [items |-> <<>>, close |-> "open"]
Boxes == [items : Seq(Messages),
          close : {"open", "lost", "replaced", "congested", "rejected", "closing",
                   "violation", "bye", "over"}]

\* Without the snapshots and the operations.
Lasting(items) ==
    FoldLeft(LAMBDA kept, m : IF m.t \in {"snapshot", "ops"} THEN kept ELSE Append(kept, m),
             <<>>, items)

\* A snapshot makes the snapshots and the operations before it useless; a
\* queue that is too long empties and closes.
Push(b, m) ==
    LET kept == IF m.t = "snapshot" THEN Lasting(b.items) ELSE b.items
    IN  IF b.close # "open" THEN b
        ELSE IF Len(kept) >= OutboxItems THEN [items |-> <<>>, close |-> "congested"]
        ELSE [b EXCEPT !.items = Append(kept, m)]

PushAll(b, ms) == FoldLeft(Push, b, ms)

\* The first request to close is the one that counts.
CloseBox(b, code, drain) ==
    IF b.close # "open" THEN b
    ELSE [items |-> IF drain THEN b.items ELSE <<>>, close |-> code]

-----------------------------------------------------------------------------
(* What the host has dealt with, and the answers it keeps.                 *)

\* The commits before the first that waits, or all that were received.
Treated(h) == IF h.pending = {} THEN h.max ELSE Min(h.pending) - 1

LastC(h) == Max({h.last, Treated(h)})

\* A slip: a refusal goes with the acks.
PruneAll(h) == [h EXCEPT !.answers = {a \in @ : a.c > LastC(h)}]

\* An ack is of no use at or below lastC; of the nacks there, the last ones
\* are kept. `forgot` is history: the refusals that are kept no longer.
Prune(h) ==
    LET low == LastC(h)
        kept == {a \in h.answers : a.t = "nack" \/ a.c > low}
        old == {a \in kept : a.c <= low}
        gone == {a \in old : Cardinality({b \in old : b.c > a.c}) >= RetainedNacks}
    IN  [h EXCEPT !.answers = kept \ gone, !.forgot = @ \cup {a.c : a \in gone}]

Remember(h, a) == [h EXCEPT !.answers = {b \in @ : b.c # a.c} \cup {a}]

-----------------------------------------------------------------------------
(* The transitions of the session.                                         *)

\* The shell has answered a commit: with no writer paired nobody is told.
Answer(h, m) ==
    LET done == [h EXCEPT !.pending = @ \ {m.c}]
    IN  IF h.paired THEN Prune(Remember(done, m)) ELSE done

\* The log of the changes after the last snapshot: past the second bound it
\* is thrown away, and who enters waits for a snapshot.
AppendLog(h, n) ==
    IF h.logState = "stale" THEN h
    ELSE IF Len(h.log) >= LogHard THEN [h EXCEPT !.log = <<>>, !.logState = "stale"]
    ELSE [h EXCEPT !.log = Append(@, n),
                   !.logState = IF Len(h.log) >= LogSoft THEN "wanted" ELSE @]

\* An answer nobody waits for, or a counter that goes back: an error, and
\* nothing changes.
SendFails(h, m) ==
    \/ h.ended
    \/ m.t \in {"ack", "same", "nack"} /\ m.c \notin h.pending
    \/ m.t \in {"ack", "ops", "snapshot"} /\ m.n < h.seq

\* A slip: the change an ack tells of is not logged.
SendUnlogged(h, m) ==
    LET noted ==
            IF m.t = "ack" THEN [h EXCEPT !.seq = m.n]
            ELSE IF m.t = "ops" THEN AppendLog([h EXCEPT !.seq = m.n], m.n)
            ELSE IF m.t = "snapshot"
                 THEN [h EXCEPT !.seq = m.n, !.snap = m.n, !.log = <<>>, !.logState = "fresh"]
                 ELSE h
    IN  IF m.t \in {"ack", "same", "nack"} THEN Answer(noted, m) ELSE noted

\* A message of the shell.
Send(h, m) ==
    LET noted ==
            IF m.t \in {"ack", "ops"} THEN AppendLog([h EXCEPT !.seq = m.n], m.n)
            ELSE IF m.t = "snapshot"
                 THEN [h EXCEPT !.seq = m.n, !.snap = m.n, !.log = <<>>, !.logState = "fresh"]
                 ELSE h
    IN  IF m.t \in {"ack", "same", "nack"} THEN Answer(noted, m) ELSE noted

\* The token of a hello counts if it is the current one or the one of the
\* last resume, until the new connection has spoken.
Accepts(h, token) == h.paired /\ token \in {h.token, h.previous}

\* A slip: the token before ends with the welcome that replaces it.
AdmitAtOnce(h, k, token) ==
    LET bound == [h EXCEPT !.previous = NoToken, !.token = h.admitted + 1,
                           !.admitted = @ + 1, !.last = LastC(h)]
    IN  [Prune(bound) EXCEPT !.conn = k, !.confirmed = FALSE, !.connLast = 0]

\* The hello of connection k: the new token is the number of the admission.
Admit(h, k, token) ==
    LET bound == [h EXCEPT !.previous = token, !.token = h.admitted + 1,
                           !.admitted = @ + 1, !.last = LastC(h)]
    IN  [Prune(bound) EXCEPT !.conn = k, !.confirmed = FALSE, !.connLast = 0]

\* What who enters is sent: the welcome, the document, and the refusals its
\* lastC may hide from it.
Entrance(h) ==
    LET low == {a \in h.answers : a.t = "nack" /\ a.c <= h.last}
        order == InOrder({a.c : a \in low})
    IN  <<Msg("welcome", h.last, h.token)>>
            \o (IF h.logState = "stale" THEN <<>>
                ELSE <<Msg("snapshot", 0, h.snap)>>
                         \o [i \in 1..Len(h.log) |-> Msg("ops", 0, h.log[i])])
            \o [i \in 1..Len(order) |-> CHOOSE a \in low : a.c = order[i]]

\* The first message on a connection ends the token before it.
Confirm(h) == IF h.confirmed THEN h ELSE [h EXCEPT !.confirmed = TRUE, !.previous = NoToken]

\* A commit that is no longer to be taken: it does not follow the one before
\* it on the connection, or lastC has passed it and no answer is left.
BreaksOrder(h, c) ==
    \/ c <= h.connLast
    \/ /\ c \notin h.pending
       /\ \A a \in h.answers : a.c # c
       /\ c <= h.last

AnswersTo(h, c) == {a \in h.answers : a.c = c}

\* Neither waiting nor answered: it goes to the shell.
IsNew(h, c) == c \notin h.pending /\ AnswersTo(h, c) = {}

Receive(h, c) ==
    IF IsNew(h, c)
    THEN [h EXCEPT !.connLast = c, !.max = Max({@, c}), !.pending = @ \cup {c}]
    ELSE [h EXCEPT !.connLast = c]

\* Nobody is paired any more.
Unbind(h) == [h EXCEPT !.paired = FALSE, !.conn = NoConn, !.token = NoToken,
                       !.previous = NoToken, !.answers = {}, !.confirmed = FALSE,
                       !.connLast = 0]

\* Connection k is over: only the one in force counts.
Closed(h, k, resumable) ==
    IF h.conn # k THEN h
    ELSE IF resumable /\ ~h.ended THEN [h EXCEPT !.conn = NoConn, !.connLast = 0, !.confirmed = FALSE]
    ELSE Unbind(h)

FirstSession ==
    [paired |-> TRUE, token |-> 1, previous |-> NoToken, admitted |-> 1, conn |-> 1,
     confirmed |-> FALSE, connLast |-> 0, max |-> 0, last |-> 0, answers |-> {},
     forgot |-> {}, pending |-> {}, seq |-> 0, snap |-> 0, log |-> <<>>,
     logState |-> "fresh", ended |-> FALSE]

Sessions ==
    [paired : BOOLEAN, token : Nat, previous : Nat, admitted : Nat,
     conn : Conns \cup {NoConn}, confirmed : BOOLEAN, connLast : 0..MaxCommits,
     max : 0..MaxCommits, last : 0..MaxCommits, answers : SUBSET Answers,
     forgot : SUBSET Commits, pending : SUBSET Commits, seq : Nat, snap : Nat,
     log : Seq(Nat), logState : {"fresh", "wanted", "stale"}, ended : BOOLEAN]
=============================================================================
