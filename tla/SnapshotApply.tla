--------------------------- MODULE SnapshotApply ---------------------------
(***************************************************************************)
(* The replacement of a whole vault by a snapshot, and the recovery that   *)
(* every opening of the vault runs first: fub-kernel/src/snapshot.rs.      *)
(*                                                                         *)
(* The state of the disk is what is in the directory that holds the vault: *)
(* the live root and, for each transaction, its staging, old and rejected  *)
(* containers and its record.  A directory is its content: Torn when part  *)
(* of it is missing.  `disk` is what the running programs see; `after` is  *)
(* the set of the disks that a power loss may leave, any of the changes    *)
(* made since the last fsync being lost.                                   *)
(*                                                                         *)
(* The file lock lets in one applier or one recovery at a time and goes    *)
(* with the process that has it: pc is the step of whoever is inside.      *)
(***************************************************************************)
EXTENDS Naturals, FiniteSets

CONSTANTS
    Transactions,  \* the transactions, each with the content it publishes
    Edits,         \* contents that writers outside the lock give the root
    Original,      \* what the vault has at the start
    Torn,          \* a directory part of which is missing
    Absent,        \* no directory, no record, no transaction
    Worlds         \* what the vault may be exposed to, bounds included

ASSUME AbsentIsNothing ==
    /\ Absent \notin Transactions \cup Edits \cup {Original, Torn}
    /\ Absent \notin {"Prepared", "OldMoved", "Published"}
ASSUME TornIsNotWhole == Torn \notin Transactions \cup Edits \cup {Original}
\* A world: whether its file system may keep a later change and lose an
\* earlier one, the contents somebody outside the lock may write, the bound of
\* the crashes and the errors left to recovery, that of the power losses.
ASSUME WorldsAssumption ==
    Worlds \subseteq [reorders : BOOLEAN, edits : SUBSET Edits, stops : Nat, losses : Nat]

Whole == Transactions \cup Edits \cup {Original}
Phases == {"Prepared", "OldMoved", "Published"}

Root == <<"root">>
Staging(t) == <<"staging", t>>
Old(t) == <<"old", t>>
Rejected(t) == <<"rejected", t>>
Record(t) == <<"record", t>>
Directories == {Root} \cup ({"staging", "old", "rejected"} \X Transactions)
Records == {"record"} \X Transactions
Disks == {d \in [Directories \cup Records -> Whole \cup {Torn, Absent} \cup Phases] :
              /\ \A p \in Directories : d[p] \in Whole \cup {Torn, Absent}
              /\ \A p \in Records : d[p] \in Phases \cup {Absent}}

\* Before the commit a failure undoes what was done.
Precommit == {"syncStaging", "prepare", "syncPrepared", "write", "syncTree",
              "oldMoved", "syncOldMoved"}
Commit == {"moveOld", "syncMoved", "published", "syncPublished", "publish",
           "syncRoot", "finalOld", "finalRecord", "finalSync"}
Recovery == {"recover", "dropOld", "dropStaging", "dropRecord", "dropSync",
             "restore", "syncRestored", "complete", "completeMove",
             "syncCompleted", "verify", "reject", "syncRejected"}
Steps == {"idle", "check", "create", "recheck", "abort", "abortRecord"}
             \cup Precommit \cup Commit \cup Recovery

VARIABLES
    disk,      \* place -> what is there
    after,     \* the disks a power loss may leave
    had,       \* the transactions whose content the root has had
    pc,        \* the step of who has the lock
    applying,  \* the transaction that is being applied
    tx,        \* the transaction the step is about
    base,      \* transaction -> SnapshotBundle.base_revision
    world,     \* the world this vault is in
    edits,     \* the contents already given to the root from outside
    stops,     \* the crashes and errors so far
    losses     \* the power losses so far

bounds == <<world, edits, stops, losses>>
\* Nobody writes the vault outside the lock.
Undisturbed == world.edits = {}

vars == <<disk, after, had, pc, applying, tx, base, bounds>>
request == <<applying, base, bounds>>

TypeOK ==
    /\ disk \in Disks /\ \A d \in after : d \in Disks
    /\ disk \in after
    /\ had \subseteq Transactions
    /\ pc \in Steps
    /\ applying \in Transactions \cup {Absent}
    /\ tx \in Transactions \cup {Absent}
    /\ base \in [Transactions -> Whole \cup {Absent}]
    /\ world \in Worlds /\ edits \subseteq world.edits
    /\ stops \in 0..world.stops /\ losses \in 0..world.losses

Init ==
    /\ disk = [p \in Directories \cup Records |-> IF p = Root THEN Original ELSE Absent]
    /\ after = {disk} /\ had = {Original} \cap Transactions
    /\ pc = "idle"
    /\ applying = Absent /\ tx = Absent
    /\ base = [t \in Transactions |-> Absent]
    /\ world \in Worlds /\ edits = {} /\ stops = 0 /\ losses = 0

-----------------------------------------------------------------------------
(* The changes of the disk, each of which a power loss may undo.           *)

Put(d, p, c) == [d EXCEPT ![p] = c]
Tear(d, p) == IF d[p] = Absent THEN d ELSE [d EXCEPT ![p] = Torn]
Move(d, p, q) ==
    IF d[p] = Absent \/ d[q] # Absent THEN d
    ELSE [d EXCEPT ![q] = d[p], ![p] = Absent]

\* The names in the parent directory: what its fsync makes durable.
Names(d) == <<{p \in Directories : d[p] # Absent}, [p \in Records |-> d[p]]>>
\* The disks that may come to have the next change too.
UpToDate == {d \in after : world.reorders \/ Names(d) = Names(disk)}

Puts(p, c) == /\ disk' = Put(disk, p, c)
              /\ after' = after \cup {Put(d, p, c) : d \in UpToDate}
              /\ UNCHANGED had
Tears(p)   == /\ disk' = Tear(disk, p)
              /\ after' = after \cup {Tear(d, p) : d \in UpToDate}
              /\ UNCHANGED had
\* The root has a content now, maybe one of a transaction.
Remembers == had' = had \cup ({disk'[Root]} \cap Transactions)
\* fs::rename of a directory on a name that has nothing.
Moves(p, q) == /\ disk[p] # Absent /\ disk[q] = Absent
               /\ disk' = Move(disk, p, q)
               /\ after' = after \cup {Move(d, p, q) : d \in UpToDate}
               /\ Remembers

SyncParent == /\ after' = {d \in after : Names(d) = Names(disk)}
              /\ UNCHANGED <<disk, had>>
\* What is in a directory.
SyncTree(p) == /\ after' = {IF d[p] = Absent THEN d ELSE Put(d, p, disk[p]) : d \in after}
               /\ UNCHANGED <<disk, had>>

Go(step) == pc' = step /\ UNCHANGED <<tx, request>>
At(step) == pc = step
Syncs(step, next) == At(step) /\ SyncParent /\ Go(next)

\* remove_dir_if_exists: not one step, but as many as the files.
RemoveDir(step, p, next) ==
    /\ At(step)
    /\ \/ disk[p] \in Whole /\ Tears(p) /\ Go(step)
       \/ disk[p] \in {Torn, Absent} /\ Puts(p, Absent) /\ Go(next)
RemoveRecord(step, next) == At(step) /\ Puts(Record(tx), Absent) /\ Go(next)

Pending(r) == disk[Record(r)] # Absent

-----------------------------------------------------------------------------
(* Slips the properties are for: no action below uses these.  Each stands  *)
(* for the action whose name it extends.                                   *)

\* Applies without having recovered what another left behind.
BeginAtOnce(t, b) ==
    /\ At("idle") /\ disk[Root] # Absent
    /\ base[t] = Absent
    /\ base' = [base EXCEPT ![t] = b]
    /\ applying' = t /\ tx' = t
    /\ pc' = "check"
    /\ UNCHANGED <<disk, after, had, bounds>>

\* The old root goes before the new one is durable.
SyncRootNot == At("syncRoot") /\ UNCHANGED <<disk, after, had>> /\ Go("finalOld")

\* A publication already marked is undone.
FindUnpublishedUndone(r) ==
    /\ At("recover") /\ disk[Record(r)] = "Published"
    /\ disk[Root] = Absent /\ disk[Old(r)] # Absent /\ disk[Staging(r)] # Absent
    /\ tx' = r /\ pc' = "restore"
    /\ UNCHANGED <<disk, after, had, request>>

\* The record is left where it is.
DropRecordNot == At("dropRecord") /\ UNCHANGED <<disk, after, had>> /\ Go("dropSync")

\* Any root is taken for the one that has been published.
FindMoveDoneByAny(r) ==
    /\ At("recover") /\ disk[Record(r)] = "OldMoved"
    /\ disk[Root] # Absent /\ disk[Old(r)] # Absent
    /\ tx' = r /\ pc' = "dropOld"
    /\ UNCHANGED <<disk, after, had, request>>

-----------------------------------------------------------------------------
(* SnapshotApplier::apply.                                                 *)

\* The lock is taken and what another left behind is recovered first; the
\* base revision is that of a capture made before, whatever it was.
Begin(t, b) ==
    /\ At("idle") /\ disk[Root] # Absent
    /\ base[t] = Absent
    /\ base' = [base EXCEPT ![t] = b]
    /\ applying' = t
    /\ pc' = "recover"
    /\ UNCHANGED <<disk, after, had, tx, bounds>>

\* BaseRevisionStale, before anything has been written, and the other errors
\* of the capture.
FindStale ==
    /\ At("check") /\ disk[Root] # base[tx]
    /\ pc' = "idle" /\ applying' = Absent
    /\ UNCHANGED <<disk, after, had, tx, base, bounds>>

CheckBase ==
    /\ At("check") /\ disk[Root] = base[tx]
    /\ UNCHANGED <<disk, after, had>> /\ Go("create")

CreateStaging == At("create") /\ Puts(Staging(tx), Torn) /\ Go("syncStaging")
SyncStaging == Syncs("syncStaging", "prepare")

\* persist_record is an atomic replacement and the fsync of the directory.
PersistPrepared ==
    At("prepare") /\ Puts(Record(tx), "Prepared") /\ Go("syncPrepared")
SyncPrepared == Syncs("syncPrepared", "write")

\* The files are made durable one by one, their directories are not yet.
WriteStaging ==
    /\ At("write")
    /\ disk' = Put(disk, Staging(tx), tx)
    /\ after' = after \cup {Put(disk, Staging(tx), c) : c \in {tx, Torn}}
    /\ UNCHANGED had
    /\ Go("syncTree")
SyncStaged == At("syncTree") /\ SyncTree(Staging(tx)) /\ Go("recheck")

\* The last look at the base; an error of the capture leaves it to recovery.
Recheck ==
    /\ At("recheck") /\ UNCHANGED <<disk, after, had>>
    /\ IF disk[Root] = base[tx] THEN Go("oldMoved") ELSE Go("abort")

PersistOldMoved ==
    At("oldMoved") /\ Puts(Record(tx), "OldMoved") /\ Go("syncOldMoved")
SyncOldMoved == Syncs("syncOldMoved", "moveOld")
MoveOld == At("moveOld") /\ Moves(Root, Old(tx)) /\ Go("syncMoved")
SyncMoved == Syncs("syncMoved", "published")

PersistPublished ==
    At("published") /\ Puts(Record(tx), "Published") /\ Go("syncPublished")
SyncPublished == Syncs("syncPublished", "publish")
Publish == At("publish") /\ Moves(Staging(tx), Root) /\ Go("syncRoot")
SyncRoot == Syncs("syncRoot", "finalOld")

\* finalize_record.
FinalizeOld == RemoveDir("finalOld", Old(tx), "finalRecord")
FinalizeRecord == RemoveRecord("finalRecord", "finalSync")
FinalSync ==
    /\ At("finalSync") /\ SyncParent
    /\ pc' = "idle" /\ applying' = Absent
    /\ UNCHANGED <<tx, base, bounds>>

\* abort_precommit; it syncs nothing.
Fail == pc \in Precommit /\ UNCHANGED <<disk, after, had>> /\ Go("abort")
AbortStaging == RemoveDir("abort", Staging(tx), "abortRecord")
AbortRecord ==
    /\ At("abortRecord") /\ Puts(Record(tx), Absent)
    /\ pc' = "idle" /\ applying' = Absent
    /\ UNCHANGED <<tx, base, bounds>>

-----------------------------------------------------------------------------
(* recover_locked.                                                         *)

\* SnapshotApplier::recover: each opening of the vault does it first.
Open ==
    /\ At("idle")
    /\ Go("recover") /\ UNCHANGED <<disk, after, had>>

\* No record is left: an apply goes on, an opening opens the vault.
FindNothing ==
    /\ At("recover") /\ \A r \in Transactions : ~Pending(r)
    /\ tx' = applying
    /\ pc' = IF applying = Absent THEN "idle" ELSE "check"
    /\ UNCHANGED <<disk, after, had, request>>

\* The next record, and the step its recovery goes on with.
Takes(r, phase, step) ==
    /\ At("recover") /\ disk[Record(r)] = phase
    /\ tx' = r /\ pc' = step
    /\ UNCHANGED <<disk, after, had, request>>
Has(p) == disk[p] # Absent

FindPrepared(r) == Takes(r, "Prepared", "dropStaging")

\* OldMoved: the root is the old one still, or has to be so again.
FindMoveDone(r) ==
    Has(Root) /\ Has(Old(r)) /\ disk[Root] = r /\ Takes(r, "OldMoved", "dropOld")
FindNotMoved(r) ==
    Has(Root) /\ ~Has(Old(r)) /\ Takes(r, "OldMoved", "dropStaging")
FindMoved(r) ==
    ~Has(Root) /\ Has(Old(r)) /\ Takes(r, "OldMoved", "restore")

\* Published: with the root...
FindPublished(r) ==
    disk[Root] = r /\ Takes(r, "Published", "dropOld")
FindOldRoot(r) ==
    /\ Has(Root) /\ disk[Root] # r
    /\ ~Has(Old(r)) /\ Has(Staging(r)) /\ Takes(r, "Published", "dropStaging")
FindSpoilt(r) ==
    Has(Root) /\ disk[Root] # r /\ Has(Old(r)) /\ Takes(r, "Published", "reject")
\* ...and without.
FindRejected(r) ==
    /\ ~Has(Root) /\ Has(Old(r)) /\ ~Has(Staging(r))
    /\ Takes(r, "Published", "restore")
FindUnpublished(r) ==
    /\ ~Has(Root) /\ Has(Old(r)) /\ Has(Staging(r))
    /\ Takes(r, "Published", "complete")

\* RecoveryNeeded.
Refuse(r) ==
    /\ At("recover")
    /\ \/ /\ disk[Record(r)] = "OldMoved"
          /\ IF Has(Root) THEN Has(Old(r)) /\ disk[Root] # r ELSE ~Has(Old(r))
       \/ /\ disk[Record(r)] = "Published" /\ ~Has(Old(r))
          /\ disk[Root] # r /\ (Has(Root) => ~Has(Staging(r)))
    /\ pc' = "idle" /\ tx' = r /\ applying' = Absent
    /\ UNCHANGED <<disk, after, had, base, bounds>>

DropOld == RemoveDir("dropOld", Old(tx), "dropStaging")
DropStaging == RemoveDir("dropStaging", Staging(tx), "dropRecord")
DropRecord == RemoveRecord("dropRecord", "dropSync")
DropSync == Syncs("dropSync", "recover")

\* The old root comes back.
Restore == At("restore") /\ Moves(Old(tx), Root) /\ Go("syncRestored")
SyncRestored == Syncs("syncRestored", "dropStaging")

\* The publication is carried through, and looked at.
Complete == At("complete") /\ SyncTree(Staging(tx)) /\ Go("completeMove")
CompleteMove ==
    At("completeMove") /\ Moves(Staging(tx), Root) /\ Go("syncCompleted")
SyncCompleted == Syncs("syncCompleted", "verify")
Verify ==
    /\ At("verify") /\ UNCHANGED <<disk, after, had>>
    /\ IF disk[Root] = tx THEN Go("dropOld") ELSE Go("reject")

\* roll_back_published.
Reject == At("reject") /\ Moves(Root, Rejected(tx)) /\ Go("syncRejected")
SyncRejected == Syncs("syncRejected", "restore")

\* A rename on a name that somebody has taken meanwhile, here and in an
\* apply: RecoveryNeeded.
FindTaken ==
    /\ \/ pc \in {"publish", "restore", "completeMove"} /\ Has(Root)
       \/ At("reject") /\ Has(Rejected(tx))
    /\ pc' = "idle" /\ applying' = Absent
    /\ UNCHANGED <<disk, after, had, tx, base, bounds>>

-----------------------------------------------------------------------------
(* The world.                                                              *)

\* The process dies, or returns an error that leaves the rest to recovery.
Stop ==
    /\ pc # "idle" /\ stops < world.stops
    /\ stops' = stops + 1
    /\ pc' = "idle" /\ applying' = Absent
    /\ UNCHANGED <<disk, after, had, tx, base, world, edits, losses>>

PowerLoss ==
    /\ losses < world.losses
    /\ losses' = losses + 1
    /\ disk' \in after /\ after' = {disk'} /\ Remembers
    /\ pc' = "idle" /\ applying' = Absent
    /\ UNCHANGED <<tx, base, world, edits, stops>>

\* The system writes back what it has in memory.
WriteBack ==
    /\ after # {disk} /\ after' = {disk}
    /\ UNCHANGED <<disk, had, pc, applying, tx, base, bounds>>

\* Somebody who does not use the lock changes the vault or puts one where
\* there was none, and at once makes that durable with the names leading to
\* it: a write that its writer has not synced is nothing the applier could
\* keep.  Between the last look at the base and the move that uses it nothing
\* can see such a change: the decision leaves it out of what is guaranteed
\* (decisions/0202), and so does this action.
Unseen == {"oldMoved", "syncOldMoved", "moveOld"}
Edit(e) ==
    /\ pc \notin Unseen /\ e \in world.edits \ edits
    /\ disk' = Put(disk, Root, e) /\ Remembers
    /\ after' = {Put(d, Root, e) : d \in {o \in after : Names(o) = Names(disk)}}
    /\ edits' = edits \cup {e}
    /\ UNCHANGED <<pc, applying, tx, base, world, stops, losses>>

Apply ==
    \/ FindStale \/ CheckBase \/ CreateStaging \/ SyncStaging
    \/ PersistPrepared \/ SyncPrepared \/ WriteStaging \/ SyncStaged \/ Recheck
    \/ PersistOldMoved \/ SyncOldMoved \/ MoveOld \/ SyncMoved
    \/ PersistPublished \/ SyncPublished \/ Publish \/ SyncRoot
    \/ FinalizeOld \/ FinalizeRecord \/ FinalSync \/ AbortStaging \/ AbortRecord

Recover ==
    \/ FindNothing
    \/ \E r \in Transactions :
          \/ FindPrepared(r) \/ FindMoveDone(r) \/ FindNotMoved(r) \/ FindMoved(r)
          \/ FindPublished(r) \/ FindOldRoot(r) \/ FindSpoilt(r)
          \/ FindRejected(r) \/ FindUnpublished(r) \/ Refuse(r)
    \/ DropOld \/ DropStaging \/ DropRecord \/ DropSync \/ Restore \/ SyncRestored
    \/ FindTaken \/ Complete \/ CompleteMove \/ SyncCompleted \/ Verify \/ Reject \/ SyncRejected

Next ==
    \/ \E t \in Transactions, b \in Transactions \cup world.edits \cup {Original} :
          Begin(t, b)
    \/ Open \/ Apply \/ Recover \/ Fail
    \/ Stop \/ PowerLoss \/ WriteBack \/ \E e \in Edits : Edit(e)

Spec == Init /\ [][Next]_vars

\* Who has the lock goes on, and the vault is opened again.
FairSpec == Spec /\ WF_vars(Apply \/ Recover) /\ WF_vars(Open)

-----------------------------------------------------------------------------
(* Properties.                                                             *)

\* There is never more than one transaction to recover, whatever a power
\* loss takes away: every apply recovers the one before it first.
OneRecord ==
    \A d \in after : \A r, s \in Transactions :
        d[Record(r)] # Absent /\ d[Record(s)] # Absent => r = s

\* All-or-old-or-new for who uses the lock: whatever a crash or a power loss
\* leaves, the root is whole, or it is missing and there is a record by which
\* recovery has it back whole.
AllOrOldOrNew ==
    Undisturbed =>
        \A d \in after :
            \/ d[Root] \in Whole
            \/ /\ d[Root] = Absent
               /\ \E t \in Transactions :
                    \/ d[Record(t)] \in {"OldMoved", "Published"} /\ d[Old(t)] \in Whole
                    \/ /\ d[Record(t)] = "Published"
                       /\ d[Old(t)] = Torn /\ d[Staging(t)] = t

\* What the vault has had in it, and what others have put there, is never
\* lost, neither by an apply, nor by a recovery, nor by the power: only the
\* content a transaction was made against goes, from its old container, and
\* only once the root has had the content that takes its place.
Guarded == {Root} \cup ({"old", "rejected"} \X Transactions)
NothingLost ==
    [][edits' = edits =>
        \A p \in Guarded :
            disk[p] \in Whole =>
                \/ disk[p] \in {disk'[q] : q \in Directories}
                \/ \E t \in had : p = Old(t) /\ disk[p] = base[t]]_vars

\* Recovery converges: after the last crash the vault is whole and open, and
\* no record is left.
Reopens ==
    Undisturbed => <>[](disk[Root] \in Whole /\ \A t \in Transactions : ~Pending(t))

\* Without the roll back "a vault stayed closed for ever: every opening
\* repeated the same recovery and received the same RecoveryNeeded"
\* (roll_back_published): with it, no vault it has rolled back is refused.
RolledBackReopens ==
    [][\A r \in Transactions : Refuse(r) => ~Has(Rejected(r))]_vars

-----------------------------------------------------------------------------
(* What the transactions promise: AtomicReplace.                           *)

\* The content the next opening of the vault shows.
Shown(d) ==
    IF d[Root] # Absent THEN d[Root]
    ELSE LET t == CHOOSE r \in Transactions : d[Record(r)] # Absent
         IN  IF d[Record(t)] = "Published" /\ d[Staging(t)] # Absent
             THEN d[Staging(t)] ELSE d[Old(t)]

\* Alone with a file system that keeps the order of the changes of a directory,
\* every step of the applier is one of AtomicReplace or shows nothing.  A
\* transaction is in effect when no power loss takes it away.
Vault ==
    LET shown == {Shown(d) : d \in after}
    IN  IF shown = {Shown(disk)} THEN Shown(disk)
        ELSE base[CHOOSE t \in Transactions : t \in shown /\ base[t] \in shown]

Promise == INSTANCE AtomicReplace WITH vault <- Vault
Atomic ==
    /\ Promise!Init
    /\ [][Undisturbed /\ ~world.reorders => [Promise!Next]_<<Vault, base>>]_vars

=============================================================================
