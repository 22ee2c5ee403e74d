------------------------------ MODULE SyncPass ------------------------------
(* The job sync.pass of fub-host (remote/bundle.rs) on every replica of a  *)
(* vault, and the service they share: what changed is written in a durable *)
(* outbox, pushed, acknowledged and retired; then what the others sent is  *)
(* pulled a page at a time and applied to the notes, each by comparison    *)
(* with the revision that was synced last.                                 *)
(*                                                                         *)
(* A revision is the hash of the bytes: here it is the text itself. The    *)
(* user goes on writing during a pass. Every answer may get lost, the host *)
(* may stop between any two steps, and the service may stop between its    *)
(* log and its state. Conflict copies and the trash of a replica are the   *)
(* set of the texts they keep; that copies are notes to be synced in turn  *)
(* is left out, and so are the modes of one direction only.                *)
EXTENDS SyncService

CONSTANTS
    PageSize,       \* PULL_MAX_OPS
    MaxRestarts,    \* how often a pull starts again, three in the code
    Bounds          \* bounds, one of which a behaviour has: the notes the
                    \* users touch, how often they write or remove one, how
                    \* many conflicts they release and pulls they ask for,
                    \* how many releases break off and how many other
                    \* faults there are

ASSUME NumbersAssumption == PageSize \in Nat /\ MaxRestarts \in Nat

ASSUME BoundsAssumption ==
    Bounds \subseteq [docs : SUBSET Docs, changes : Nat, retries : Nat, pulls : Nat,
                     breaks : Nat, faults : Nat]

VARIABLES
    vault,      \* state.json of the service
    log,        \* queue-<replica>.jsonl of the service
    note,       \* the notes of each replica
    kept,       \* texts in the conflict copies and the trash of each replica
    outbox,     \* outbox.jsonl
    cursor,     \* cursor.json
    blocked,    \* conflicts.json
    job,        \* the pass of each replica
    minted,     \* operations each replica has made
    left,       \* what is left of the bound
    owed,       \* the texts whose user has neither replaced nor removed them
    lapsed,     \* texts the service acknowledged and stored nowhere
    amiss       \* documents about which the replicas may differ in the end

service == <<vault, log>>
replica == <<note, kept, outbox, cursor, blocked, minted>>
history == <<left, owed, lapsed, amiss>>
vars == <<service, replica, job, history>>

\* Each write has a text of its own.
Texts == Nat \ {Gone}

NoPass == [at |-> "idle", acked |-> {}, told |-> {}, page |-> <<>>, more |-> FALSE,
           snap |-> NoVector, offset |-> 0, restarts |-> 0, looked |-> Gone,
           held |-> FALSE]

\* The first operation of a note the replicas have synced already.
FirstOp(r, d) == [id |-> <<r, 1>>, by |-> r, doc |-> d, vv |-> [Nowhere EXCEPT ![r] = 1],
                  text |-> 1]

\* A vault no replica has anything in, or one note one of them has made and
\* all have synced.
Start(b, S, o) ==
    LET first == IF S = {} THEN Nowhere ELSE [Nowhere EXCEPT ![o] = 1]
        text == [d \in Docs |-> IF d \in S THEN 1 ELSE Gone]
    IN  /\ vault = [chain |-> [d \in Docs |-> IF d \in S THEN <<FirstOp(o, d)>> ELSE <<>>],
                    tomb |-> [d \in Docs |-> NoVector],
                    seen |-> IF S = {} THEN {} ELSE {<<o, 1>>},
                    vv |-> first]
        /\ cursor = [r \in Replicas |-> [vv |-> first, applied |-> {}, synced |-> text]]
        /\ note = [r \in Replicas |-> text]
        /\ minted = first
        /\ log = [r \in Replicas |-> <<>>]
        /\ kept = [r \in Replicas |-> {}]
        /\ outbox = [r \in Replicas |-> <<>>]
        /\ blocked = [r \in Replicas |-> {}]
        /\ job = [r \in Replicas |-> NoPass]
        /\ left = b
        /\ owed = IF S = {} THEN {} ELSE {1}
        /\ lapsed = {} /\ amiss = {}

Init == \E b \in Bounds : \E S \in {{}} \cup {{d} : d \in b.docs}, o \in Replicas : Start(b, S, o)

\* The pass of r goes on at another step.
Goto(r, where) == job' = [job EXCEPT ![r].at = where]

\* It ends, well or not: what it had in memory is gone.
EndPass(r) == job' = [job EXCEPT ![r] = NoPass]

Fault == left.faults > 0 /\ left' = [left EXCEPT !.faults = @ - 1]

-----------------------------------------------------------------------------
(* The users. *)

Change(r, d, text) ==
    /\ left.changes > 0 /\ d \in left.docs
    /\ left' = [left EXCEPT !.changes = @ - 1]
    /\ note' = [note EXCEPT ![r][d] = text]
    /\ owed' = (owed \ {note[r][d]}) \cup ({text} \ {Gone})
    /\ UNCHANGED <<service, kept, outbox, cursor, blocked, minted, job, lapsed>>

Edit(r, d) == Change(r, d, left.changes + 1) /\ UNCHANGED amiss

\* What the service has last of the document is not asked for twice.
Pulled(r, d) ==
    /\ vault.chain[d] # <<>>
    /\ Below(Latest(vault, d).vv, cursor[r].vv) \/ Latest(vault, d).id \in cursor[r].applied

\* The removal of a note that is not taken for synced is not sent.
Unsent(r, d) == cursor[r].synced[d] = Gone /\ Pulled(r, d)

Delete(r, d) ==
    /\ note[r][d] # Gone
    /\ Change(r, d, Gone)
    /\ amiss' = IF Unsent(r, d) THEN amiss \cup {d} ELSE amiss

\* The user settles a conflict by bringing back the text that was synced last,
\* and may release it then.
Restore(r, d) ==
    /\ left.retries > 0
    /\ d \in blocked[r] /\ cursor[r].synced[d] \notin {Gone, note[r][d]}
    /\ note' = [note EXCEPT ![r][d] = cursor[r].synced[d]]
    /\ owed' = (owed \ {note[r][d]}) \cup {cursor[r].synced[d]}
    /\ UNCHANGED <<service, kept, outbox, cursor, blocked, minted, job, left, lapsed, amiss>>

\* sync.retry: the conflict of the document, if it has one, is released...
Retry(r, d) ==
    /\ job[r].at = "idle" /\ d \in left.docs
    /\ left.retries > 0
    /\ left' = [left EXCEPT !.retries = @ - 1]
    /\ blocked' = [blocked EXCEPT ![r] = @ \ {d}]
    /\ IF note[r][d] = Gone
       THEN /\ amiss' = IF Unsent(r, d) THEN amiss \cup {d} ELSE amiss
            /\ UNCHANGED job
       ELSE /\ job' = [job EXCEPT ![r].at = "forget", ![r].told = {d}]
            /\ UNCHANGED amiss
    /\ UNCHANGED <<service, note, kept, outbox, cursor, minted, owed, lapsed>>

\* ...and in a write of its own a note that was there is no longer taken for
\* synced (mark_retry).
Forget(r) ==
    /\ job[r].at = "forget"
    /\ cursor' = [cursor EXCEPT ![r].synced =
                    [d \in Docs |-> IF d \in job[r].told THEN Gone ELSE @[d]]]
    /\ amiss' = amiss \cup {d \in job[r].told : note[r][d] = Gone /\ Pulled(r, d)}
    /\ EndPass(r)
    /\ UNCHANGED <<service, note, kept, outbox, blocked, minted, left, owed, lapsed>>

\* The host stops in between, or the second write fails: the note is not in
\* conflict any more and is taken for synced as before.
BreakOff(r) ==
    /\ job[r].at = "forget"
    /\ left.breaks > 0
    /\ left' = [left EXCEPT !.breaks = @ - 1]
    /\ amiss' = amiss \cup {d \in job[r].told : note[r][d] = cursor[r].synced[d]}
    /\ EndPass(r)
    /\ UNCHANGED <<service, replica, owed, lapsed>>

-----------------------------------------------------------------------------
(* The way out. *)

\* All that this replica knows: the last pull and its own operations.
Knows(r) ==
    [s \in Replicas |-> Max({cursor[r].vv[s]} \cup {op.vv[s] : op \in Range(outbox[r])})]

\* Notes that are not as they were synced, but for those in conflict and
\* those that are in the outbox already; the ones that are there go first.
ToSend(r) ==
    LET changed == {d \in Docs : /\ note[r][d] # cursor[r].synced[d]
                                 /\ d \notin blocked[r]
                                 /\ \A op \in Range(outbox[r]) : op.doc # d}
    IN  SetToSeq({d \in changed : note[r][d] # Gone})
            \o SetToSeq({d \in changed : note[r][d] = Gone})

Collect(r) ==
    /\ job[r].at = "idle"
    /\ outbox' = [outbox EXCEPT ![r] = @ \o
            [i \in 1..Len(ToSend(r)) |->
                [id |-> <<r, minted[r] + i>>, by |-> r, doc |-> ToSend(r)[i],
                 vv |-> [Knows(r) EXCEPT ![r] = @ + i],
                 text |-> note[r][ToSend(r)[i]]]]]
    /\ minted' = [minted EXCEPT ![r] = @ + Len(ToSend(r))]
    /\ Goto(r, IF outbox'[r] = <<>> THEN "pull" ELSE "push")
    /\ UNCHANGED <<service, note, kept, cursor, blocked, history>>

\* A pass of the way in alone (sync.pull-now).
PullNow(r) ==
    /\ job[r].at = "idle"
    /\ left.pulls > 0
    /\ left' = [left EXCEPT !.pulls = @ - 1]
    /\ Goto(r, "pull")
    /\ UNCHANGED <<service, replica, owed, lapsed, amiss>>

ToPush(r) == Push(vault, log[r], outbox[r])

Logged(r) == [log EXCEPT ![r] = @ \o ToPush(r).log]

\* The service logs what it stores, saves its state and answers; the
\* conflicts of the answer are written down first.
PushAnswered(r) ==
    /\ job[r].at = "push" /\ ~ToPush(r).held
    /\ vault' = ToPush(r).state
    /\ log' = Logged(r)
    /\ blocked' = [blocked EXCEPT ![r] = @ \cup ToPush(r).conflicts]
    /\ job' = [job EXCEPT ![r].acked = ToPush(r).ack, ![r].told = ToPush(r).conflicts,
                          ![r].at = IF ToPush(r).ack = {} THEN "pull" ELSE "mark"]
    /\ UNCHANGED <<note, kept, outbox, cursor, minted, history>>

\* The log holds an operation that the state no longer takes: the request is
\* refused, and the pass ends with it.
PushRefused(r) ==
    /\ job[r].at = "push" /\ ToPush(r).held
    /\ EndPass(r)
    /\ UNCHANGED <<service, replica, history>>

\* The service has done its part and the answer gets lost.
PushAnswerLost(r) ==
    /\ job[r].at = "push" /\ ~ToPush(r).held
    /\ Fault
    /\ vault' = ToPush(r).state
    /\ log' = Logged(r)
    /\ EndPass(r)
    /\ UNCHANGED <<replica, owed, lapsed, amiss>>

\* The service stops between the log and the state, or cannot save it.
PushUnsaved(r) ==
    /\ job[r].at = "push" /\ ~ToPush(r).held
    /\ Fault
    /\ log' = Logged(r)
    /\ EndPass(r)
    /\ UNCHANGED <<vault, replica, owed, lapsed, amiss>>

Acked(r) == {op \in Range(outbox[r]) : op.id \in job[r].acked}

\* The service stored the operation after one that it does not know: the
\* answer has a conflict only when the two were next to each other and it was
\* not lost.
Untold(op) ==
    \E i, j \in DOMAIN vault.chain[op.doc] :
        /\ i < j /\ vault.chain[op.doc][j] = op
        /\ ~Below(vault.chain[op.doc][i].vv, op.vv)

\* What was stored after the operation has been pulled already.
Outdated(r, op) ==
    \E i, j \in DOMAIN vault.chain[op.doc] :
        LET later == vault.chain[op.doc][j] IN
            /\ i < j /\ vault.chain[op.doc][i] = op
            /\ later.id \in cursor[r].applied \/ Below(later.vv, cursor[r].vv)

\* What was acknowledged without a conflict is synced as it was sent; a
\* removal only if the note has not come back.
Mark(r) ==
    /\ job[r].at = "mark"
    /\ amiss' = amiss \cup {d \in Docs \ job[r].told :
                              \E op \in Acked(r) : op.doc = d /\ (Untold(op) \/ Outdated(r, op))}
    /\ cursor' = [cursor EXCEPT ![r].synced = [d \in Docs |->
            IF \E op \in Acked(r) : /\ op.doc = d /\ d \notin job[r].told
                                    /\ op.text = Gone => note[r][d] = Gone
            THEN (CHOOSE op \in Acked(r) : op.doc = d).text
            ELSE @[d]]]
    /\ Goto(r, "count")
    /\ UNCHANGED <<service, note, kept, outbox, blocked, minted, left, owed, lapsed>>

\* Mutant: the outbox is emptied before the counter is durable.
CountNothing(r) ==
    /\ job[r].at = "count"
    /\ Goto(r, "ack")
    /\ UNCHANGED <<service, replica, history>>

\* The own counter is made durable before the outbox is emptied.
Count(r) ==
    /\ job[r].at = "count"
    /\ cursor' = [cursor EXCEPT ![r].vv[r] =
                    CHOOSE n \in {@} \cup {op.vv[r] : op \in Acked(r)} :
                        \A op \in Acked(r) : n >= op.vv[r] /\ n >= @]
    /\ Goto(r, "ack")
    /\ UNCHANGED <<service, note, kept, outbox, blocked, minted, history>>

Without(ops, ids) == Keeping({op \in Range(ops) : op.id \notin ids}, ops)

\* The service takes out of its log what was acknowledged.
AckPush(r) ==
    /\ job[r].at = "ack"
    /\ log' = [log EXCEPT ![r] = Without(@, job[r].acked)]
    /\ \/ Goto(r, "drain") /\ UNCHANGED left
       \/ Fault /\ EndPass(r)
    /\ UNCHANGED <<vault, replica, owed, lapsed, amiss>>

Drain(r) ==
    /\ job[r].at = "drain"
    /\ outbox' = [outbox EXCEPT ![r] = Without(@, job[r].acked)]
    /\ lapsed' = lapsed \cup {op.text : op \in Acked(r) \ Stored(vault)}
    /\ Goto(r, "pull")
    /\ UNCHANGED <<service, note, kept, cursor, blocked, minted, left, owed, amiss>>

-----------------------------------------------------------------------------
(* The way in. *)

\* The first page, or the next one.
AsksPage(r) ==
    \/ job[r].at = "pull"
    \/ job[r].at = "apply" /\ job[r].page = <<>> /\ job[r].more

Asked(r) == Page(vault, cursor[r].vv, job[r].offset, PageSize)

\* The pages after the first belong to one vector of the service.
SnapshotGone(r) == job[r].offset > 0 /\ job[r].snap # vault.vv

PullPage(r) ==
    /\ AsksPage(r) /\ ~SnapshotGone(r)
    /\ job' = [job EXCEPT ![r].at = "apply", ![r].page = Asked(r).ops,
                          ![r].more = Asked(r).more, ![r].snap = Asked(r).vv,
                          ![r].offset = @ + Len(Asked(r).ops)]
    /\ UNCHANGED <<service, replica, history>>

PullAgain(r) ==
    /\ AsksPage(r) /\ SnapshotGone(r)
    /\ IF job[r].restarts < MaxRestarts
       THEN job' = [job EXCEPT ![r].at = "pull", ![r].offset = 0, ![r].snap = NoVector,
                               ![r].restarts = @ + 1]
       ELSE EndPass(r)
    /\ UNCHANGED <<service, replica, history>>

Op(r) == Head(job[r].page)
Doc(r) == Op(r).doc
Prior(r) == cursor[r].synced[Doc(r)]
Current(r) == job[r].looked

\* The revision of the note is read before anything is decided.
Look(r) ==
    /\ job[r].at = "apply" /\ job[r].page # <<>>
    /\ job' = IF Op(r).id \in cursor[r].applied
              THEN [job EXCEPT ![r].page = Tail(@)]
              ELSE [job EXCEPT ![r].at = "act", ![r].looked = note[r][Doc(r)]]
    /\ UNCHANGED <<service, replica, history>>

\* Nothing is done and nothing acknowledged: the cursor stays where it is.
Hold(r) ==
    /\ job' = [job EXCEPT ![r].at = "apply", ![r].page = Tail(@), ![r].looked = Gone,
                          ![r].held = TRUE]
    /\ UNCHANGED <<note, kept, blocked>>

Own(r) == Op(r).by = r
OwnHeld(r) == Own(r) /\ Doc(r) \in blocked[r]
OwnOlder(r) == Own(r) /\ ~OwnHeld(r) /\ Current(r) # Prior(r)
Foreign(r) == ~OwnHeld(r) /\ ~OwnOlder(r)

\* The own upload is older than the note.
ActOwn(r) ==
    \/ OwnHeld(r) /\ Hold(r)
    \/ OwnOlder(r) /\ Goto(r, "applied") /\ UNCHANGED <<note, kept, blocked>>

\* A note goes to the trash only as it was synced and looked at.
ActRemoval(r) ==
    /\ Foreign(r) /\ Op(r).text = Gone
    /\ \/ /\ Current(r) = Gone
          /\ Goto(r, "applied")
          /\ UNCHANGED <<note, kept, blocked>>
       \/ /\ Current(r) # Gone
          /\ Current(r) # Prior(r) \/ note[r][Doc(r)] # Current(r)
          /\ Hold(r)
       \/ /\ Current(r) # Gone
          /\ Current(r) = Prior(r) /\ note[r][Doc(r)] = Current(r)
          /\ note' = [note EXCEPT ![r][Doc(r)] = Gone]
          /\ kept' = [kept EXCEPT ![r] = @ \cup {Current(r)}]
          /\ Goto(r, "settle")
          /\ UNCHANGED blocked

\* Mutant: the note is replaced whatever was synced last.
ActWriteOver(r) ==
    /\ Foreign(r) /\ Op(r).text # Gone
    /\ note' = [note EXCEPT ![r][Doc(r)] = Op(r).text]
    /\ Goto(r, "settle")
    /\ UNCHANGED <<kept, blocked>>

\* A note that changed since it was synced stays, and the text that came goes
\* into a copy beside it; one that did not is replaced, if it still is what
\* was looked at.
ActWrite(r) ==
    /\ Foreign(r) /\ Op(r).text # Gone
    /\ \/ /\ note[r][Doc(r)] # Current(r)
          /\ IF Current(r) # Gone /\ note[r][Doc(r)] = Gone
             THEN EndPass(r) /\ UNCHANGED <<note, kept, blocked>>
             ELSE Hold(r)
       \/ /\ note[r][Doc(r)] = Current(r)
          /\ Current(r) = Op(r).text
          /\ Goto(r, "settle")
          /\ UNCHANGED <<note, kept, blocked>>
       \/ /\ note[r][Doc(r)] = Current(r)
          /\ Current(r) \notin {Gone, Prior(r), Op(r).text}
          /\ kept' = [kept EXCEPT ![r] = @ \cup {Op(r).text}]
          /\ blocked' = [blocked EXCEPT ![r] = @ \cup {Doc(r)}]
          /\ Goto(r, "applied")
          /\ UNCHANGED note
       \/ /\ note[r][Doc(r)] = Current(r)
          /\ Current(r) \in {Gone, Prior(r)} \ {Op(r).text}
          /\ note' = [note EXCEPT ![r][Doc(r)] = Op(r).text]
          /\ Goto(r, "settle")
          /\ UNCHANGED <<kept, blocked>>

\* A later operation of the document is there already: it was applied while
\* this one was held, or it is r's own and its conflict was released.
Overtaken(r) ==
    \E i, j \in DOMAIN vault.chain[Doc(r)] :
        LET later == vault.chain[Doc(r)][j] IN
            /\ i < j /\ vault.chain[Doc(r)][i] = Op(r)
            /\ later.id \in cursor[r].applied \/ later.by = r

Act(r) ==
    /\ job[r].at = "act"
    /\ ActOwn(r) \/ ActRemoval(r) \/ ActWrite(r)
    /\ amiss' = IF note' # note /\ Overtaken(r) THEN amiss \cup {Doc(r)} ELSE amiss
    /\ UNCHANGED <<service, outbox, cursor, minted, left, owed, lapsed>>

\* The note is synced as the operation left it.
Settle(r) ==
    /\ job[r].at = "settle"
    /\ cursor' = [cursor EXCEPT ![r].synced[Doc(r)] = Op(r).text]
    /\ Goto(r, "applied")
    /\ UNCHANGED <<service, note, kept, outbox, blocked, minted, history>>

MarkApplied(r) ==
    /\ job[r].at = "applied"
    /\ cursor' = [cursor EXCEPT ![r].applied = @ \cup {Op(r).id}]
    /\ job' = [job EXCEPT ![r].at = "apply", ![r].page = Tail(@), ![r].looked = Gone]
    /\ UNCHANGED <<service, note, kept, outbox, blocked, minted, history>>

AckPull(r) ==
    /\ job[r].at = "apply" /\ job[r].page = <<>> /\ ~job[r].more
    /\ log' = [log EXCEPT ![r] = Without(@, cursor[r].applied)]
    /\ \/ Goto(r, "advance") /\ UNCHANGED left
       \/ Fault /\ EndPass(r)
    /\ UNCHANGED <<vault, replica, owed, lapsed, amiss>>

\* Mutant: the cursor moves over what was held.
AdvanceAnyway(r) ==
    /\ job[r].at = "advance"
    /\ cursor' = [cursor EXCEPT ![r].vv = Merge(@, job[r].snap), ![r].applied = {}]
    /\ EndPass(r)
    /\ UNCHANGED <<service, note, kept, outbox, blocked, minted, history>>

\* The cursor moves to the vector the pages belong to, unless something of
\* them was held.
Advance(r) ==
    /\ job[r].at = "advance"
    /\ cursor' = IF job[r].held THEN cursor
                 ELSE [cursor EXCEPT ![r].vv = Merge(@, job[r].snap), ![r].applied = {}]
    /\ EndPass(r)
    /\ UNCHANGED <<service, note, kept, outbox, blocked, minted, history>>

\* The host stops, a write fails, or a request gets lost on the way there.
Fail(r) ==
    /\ job[r].at \notin {"idle", "forget"}
    /\ Fault
    /\ EndPass(r)
    /\ UNCHANGED <<service, replica, owed, lapsed, amiss>>

-----------------------------------------------------------------------------
PassStep(r) ==
    \/ Collect(r) \/ PullNow(r) \/ Forget(r)
    \/ PushAnswered(r) \/ PushRefused(r)
    \/ Mark(r) \/ Count(r) \/ AckPush(r) \/ Drain(r)
    \/ PullPage(r) \/ PullAgain(r)
    \/ Look(r) \/ Act(r) \/ Settle(r) \/ MarkApplied(r)
    \/ AckPull(r) \/ Advance(r)

Next ==
    \E r \in Replicas :
        \/ PassStep(r)
        \/ PushAnswerLost(r) \/ PushUnsaved(r) \/ Fail(r) \/ BreakOff(r)
        \/ \E d \in Docs : Edit(r, d) \/ Delete(r, d) \/ Restore(r, d) \/ Retry(r, d)

Spec == Init /\ [][Next]_vars

-----------------------------------------------------------------------------
Steps == {"idle", "push", "mark", "count", "ack", "drain", "pull", "apply", "act",
          "settle", "applied", "advance", "forget"}

\* Every variable has its type.
TypeOK ==
    /\ vault \in States
    /\ log \in [Replicas -> Seq(Ops)]
    /\ note \in [Replicas -> [Docs -> Texts \cup {Gone}]]
    /\ kept \in [Replicas -> SUBSET Texts]
    /\ outbox \in [Replicas -> Seq(Ops)]
    /\ cursor \in [Replicas -> [vv : Vectors, applied : SUBSET Ids,
                                synced : [Docs -> Texts \cup {Gone}]]]
    /\ blocked \in [Replicas -> SUBSET Docs]
    /\ job \in [Replicas -> [at : Steps, acked : SUBSET Ids, told : SUBSET Docs,
                             page : Seq(Ops), more : BOOLEAN,
                             snap : Vectors \cup {NoVector}, offset : Nat,
                             restarts : 0..MaxRestarts, looked : Texts \cup {Gone},
                             held : BOOLEAN]]
    /\ minted \in [Replicas -> Nat]
    /\ owed \subseteq Texts /\ lapsed \subseteq Texts \cup {Gone}
    /\ amiss \subseteq Docs

Everywhere ==
    (UNION {{note[r][d] : d \in Docs} \cup kept[r]
             \cup {op.text : op \in Range(outbox[r])} : r \in Replicas})
    \cup {op.text : op \in Stored(vault)}

\* A text its user has neither replaced nor removed is in a note, in a copy or
\* in the trash of some replica, on its way or in the chains of the service,
\* whatever is lost or stops ("never replace a locally divergent original",
\* apply_remote_op). But for the writes in lapsed: the service passes over one
\* that the last version seems to know, acknowledges it and stores nothing.
NoTextLost == owed \ lapsed \subseteq Everywhere

\* Nothing is left to do, by any replica or by its user.
Quiet ==
    \A r \in Replicas :
        /\ job[r].at = "idle"
        /\ outbox[r] = <<>> /\ blocked[r] = {}
        /\ note[r] = cursor[r].synced
        /\ Below(vault.vv, cursor[r].vv)

Agree(d) ==
    \A r \in Replicas :
        note[r][d] = IF vault.chain[d] = <<>> THEN Gone ELSE Latest(vault, d).text

\* Replicas that have nothing left to do have all what the service has: no
\* operation is passed over by a cursor (advance_cursor), none is taken for
\* synced that is not. But for the documents in amiss: an operation stored
\* after one it does not know and acknowledged with no conflict (Untold) or
\* after it was outdated (Outdated), a held one overtaken by a later one
\* (Overtaken), a removal that is not sent (Unsent), a release that breaks off
\* with the text that was synced back in the note (BreakOff).
QuietAgrees == Quiet => \A d \in Docs \ amiss : Agree(d)

Travelling ==
    (UNION {Range(log[r]) \cup Range(outbox[r]) \cup Range(job[r].page) : r \in Replicas})
        \cup Stored(vault)

\* No replica gives one counter to two operations ("a crash after push but
\* before pull must not reuse the same counter", run_pass_on): what is Below a
\* cursor would hide the second.
OneCounterEach ==
    \A x, y \in Travelling : x.by = y.by /\ x.vv[x.by] = y.vv[x.by] => x = y

\* An operation leaves an outbox only when the service has it in its chains,
\* though the answer was lost or the state not saved ("Server ack means WAL
\* committed; only then can local queued entries be retired", run_pass_on), or
\* has in their place a version that knows it: of those it passes over what
\* run_pass_on says is not so, and their texts are in lapsed.
RetiredIsStored ==
    [][\A r \in Replicas : \A op \in Range(outbox[r]) \ Range(outbox'[r]) :
          \/ op \in Stored(vault)
          \/ \E later \in Range(vault.chain[op.doc]) : Below(op.vv, later.vv)]_vars

=============================================================================
