--------------------------- MODULE SnapshotProofs ---------------------------
(***************************************************************************)
(* What SnapshotApply says for a small instance, proved for any            *)
(* transactions, contents, crashes, errors, power losses and writers       *)
(* outside the lock.  OneRecord holds in every world; what is said of the  *)
(* contents holds where the file system keeps the order of the changes of  *)
(* a directory: a power loss then leaves a disk the vault has been through, *)
(* with the contents of its directories as old or older.  The last part    *)
(* shows that SnapshotApply implements AtomicReplace.                      *)
(***************************************************************************)
EXTENDS SnapshotApply, Sequences, TLAPS

\* The steps about a transaction, those of an apply until the old root is
\* moved and until the new one is in its place, those of a failed apply.
About == Steps \ {"idle", "recover"}
Early == {"check", "create"}
Staged == {"prepare", "syncPrepared", "write", "syncTree", "recheck", "oldMoved",
           "syncOldMoved", "moveOld", "syncMoved", "published", "syncPublished", "publish"}
Written == {"recheck", "oldMoved", "syncOldMoved", "moveOld", "syncMoved", "published",
            "syncPublished", "publish"}
Unmoved == {"check", "create", "syncStaging", "prepare", "syncPrepared", "write", "syncTree",
            "recheck", "oldMoved", "syncOldMoved", "moveOld"}
Brought == {"check", "create", "syncStaging", "prepare", "syncPrepared", "write", "syncTree",
            "recheck", "oldMoved", "syncOldMoved", "moveOld", "syncMoved", "published"}
Aborting == {"abort", "abortRecord"}
Unpublished == (Unmoved \ Early) \cup {"syncMoved", "published"} \cup Aborting
Emptied == {"dropStaging", "dropRecord", "finalRecord", "syncRestored"} \cup Aborting
Final == {"syncRoot", "finalOld", "finalRecord", "finalSync"}
Rooted == (Unmoved \ {"check"}) \cup Aborting \cup Final
             \cup {"dropOld", "dropStaging", "dropRecord", "syncRestored", "verify", "syncCompleted"}

NoRecord(d) == \A r \in Transactions : d[Record(r)] = Absent
OnlyOf(d, t) == \A r \in Transactions : r # t => d[Record(r)] = Absent

\* There is one record, of the transaction that is being applied if there is one.
RecordsOK ==
    /\ OneRecord
    /\ pc \in Early \cup {"syncStaging"} => NoRecord(disk)
    /\ pc = "prepare" => \A d \in after : NoRecord(d)
    /\ pc \in Staged \cup Final => \A d \in after : OnlyOf(d, tx)

SInv == TypeOK /\ (pc \in About => tx \in Transactions) /\ RecordsOK

-----------------------------------------------------------------------------
\* What each disk that a power loss may leave says by itself.
Sound(d) ==
    /\ \A t \in Transactions :
          /\ d[Old(t)] \in Whole => d[Old(t)] = base[t]
          /\ d[Staging(t)] \in {Absent, Torn, t}
          /\ d[Old(t)] # Absent => d[Record(t)] \in {"OldMoved", "Published"}
          /\ d[Staging(t)] = Torn /\ d[Record(t)] = "Published" =>
                d[Old(t)] = Absent /\ d[Root] # Absent
Secure(d) ==
    /\ \/ d[Root] \in Whole
       \/ /\ d[Root] = Absent
          /\ \E t \in Transactions :
               \/ d[Record(t)] \in {"OldMoved", "Published"} /\ d[Old(t)] \in Whole
               \/ /\ d[Record(t)] = "Published"
                  /\ d[Old(t)] = Torn /\ d[Staging(t)] = t
    /\ \A t \in Transactions :
          d[Record(t)] = "Published" /\ d[Root] # Absent /\ d[Old(t)] # Absent => d[Root] = t

\* What d, an earlier state of the disk, has of what e has.
Gone(d, e) ==
    \E t \in Transactions :
        \/ d[Staging(t)] # Absent /\ e[Staging(t)] = Absent
        \/ e[Rejected(t)] # Absent /\ d[Rejected(t)] = Absent
Keeps(d, e) ==
    /\ \A p \in Guarded : e[p] \in Whole => \E q \in Directories : d[q] = e[p]
    /\ e[Root] \in Whole /\ d[Root] # Absent => d[Root] = e[Root] \/ Gone(d, e)
    /\ \A t \in Transactions :
          /\ e[Root] = Absent /\ d[Root] # Absent /\ e[Old(t)] \in Whole =>
                d[Root] = e[Old(t)] \/ Gone(d, e)
          /\ e[Old(t)] \in Whole /\ d[Old(t)] # Absent => d[Old(t)] = e[Old(t)]
          /\ d[Rejected(t)] # Absent => e[Rejected(t)] # Absent
          /\ d[Rejected(t)] # Absent /\ e[Rejected(t)] \in Whole => d[Rejected(t)] = e[Rejected(t)]
          /\ e[Record(t)] # Absent /\ e[Staging(t)] # Absent => d[Staging(t)] # Absent

\* A transaction that has left nothing on the disk.
Fresh(t) ==
    \A d \in after : /\ d[Staging(t)] = Absent /\ d[Old(t)] = Absent
                     /\ d[Rejected(t)] = Absent /\ d[Record(t)] = Absent
FreshOK ==
    /\ \A t \in Transactions : base[t] = Absent => Fresh(t)
    /\ pc \in About => base[tx] # Absent
    /\ pc = "idle" => applying = Absent
    /\ applying # Absent => base[applying] # Absent
    /\ pc \in Recovery /\ applying # Absent => Fresh(applying)
    /\ pc \in Recovery \ {"recover"} => tx # applying
    /\ pc \in Early => Fresh(tx)
    /\ pc \in Unmoved => \A d \in after : d[Old(tx)] = Absent /\ d[Rejected(tx)] = Absent

\* What each step knows of the places of its transaction.
StepOK ==
    /\ pc \in Unseen => disk[Root] = base[tx]
    /\ pc = "syncStaging" => disk[Staging(tx)] # Absent
    /\ pc \in Staged => \A d \in after : d[Staging(tx)] # Absent
    /\ pc = "syncTree" => disk[Staging(tx)] = tx
    /\ pc \in Written \cup {"completeMove"} => \A d \in after : d[Staging(tx)] = tx
    /\ pc \in {"complete", "completeMove"} =>
          disk[Staging(tx)] # Absent /\ disk[Record(tx)] = "Published"
    /\ pc \in {"complete", "completeMove", "syncCompleted", "verify", "reject"} =>
          disk[Old(tx)] # Absent
    /\ pc \in Unpublished => disk[Record(tx)] # "Published"
    /\ pc \in {"syncOldMoved", "moveOld"} => disk[Record(tx)] = "OldMoved"
    /\ pc \in {"syncPublished", "publish"} => disk[Record(tx)] = "Published"
    /\ pc \in {"dropOld", "dropStaging", "dropRecord", "syncRestored"}
             /\ disk[Record(tx)] = "Published" => disk[Root] # Absent
    /\ pc \in Emptied => disk[Old(tx)] = Absent

\* In a file system that keeps the order.
Kept ==
    /\ \A d \in after : Sound(d) /\ Keeps(d, disk)
    /\ FreshOK /\ StepOK
OInv == SInv /\ ~world.reorders /\ Kept

\* And when nobody writes the vault from outside.
Secured ==
    /\ \A d \in after : Secure(d)
    /\ pc \notin {"reject", "syncRejected"}
    /\ pc \in {"syncMoved", "published", "syncPublished", "publish"} => disk[Root] = Absent
    /\ pc \in Rooted => disk[Root] # Absent
    /\ pc \in {"syncCompleted", "verify"} => disk[Root] = tx
    /\ pc = "restore" => disk[Record(tx)] = "OldMoved" \/ disk[Staging(tx)] = Absent

-----------------------------------------------------------------------------
(* The places of a disk and the changes at each.                            *)

LEMMA Places ==
    /\ Root \in Directories /\ Root \in Guarded /\ Guarded \subseteq Directories
    /\ \A t \in Transactions :
          /\ Staging(t) \in Directories /\ Old(t) \in Directories /\ Rejected(t) \in Directories
          /\ Old(t) \in Guarded /\ Rejected(t) \in Guarded /\ Record(t) \in Records
          /\ Root \notin {Staging(t), Old(t), Rejected(t)} /\ Staging(t) \notin Guarded
    /\ \A s, t \in Transactions :
          /\ Staging(t) # Old(s) /\ Staging(t) # Rejected(s) /\ Old(t) # Rejected(s)
          /\ s # t => Staging(s) # Staging(t) /\ Old(s) # Old(t) /\ Rejected(s) # Rejected(t)
                      /\ Record(s) # Record(t)
    /\ Directories \cap Records = {}
    /\ \A p \in Guarded : p = Root \/ \E t \in Transactions : p \in {Old(t), Rejected(t)}
<1>1. \A a, b : <<"root">> # <<a, b>>
  <2>1. Len(<<"root">>) = 1 /\ \A a, b : Len(<<a, b>>) = 2
    OBVIOUS
  <2> QED
    BY <2>1
<1> QED
  BY <1>1 DEF Root, Staging, Old, Rejected, Record, Directories, Records, Guarded

LEMMA Contents ==
    /\ Absent \notin Whole /\ Torn \notin Whole /\ Absent # Torn /\ Absent \notin Phases
    /\ Transactions \subseteq Whole /\ Edits \subseteq Whole /\ Original \in Whole
  BY AbsentIsNothing, TornIsNotWhole DEF Whole, Phases

LEMMA DiskIs ==
    ASSUME NEW d \in Disks
    PROVE  /\ \A p \in Directories : d[p] \in Whole \cup {Torn, Absent}
           /\ \A t \in Transactions : d[Record(t)] \in Phases \cup {Absent}
  BY Places DEF Disks

LEMMA PutIs ==
    ASSUME NEW d \in Disks, NEW p \in Directories \cup Records, NEW c
    PROVE  /\ Put(d, p, c)[p] = c
           /\ \A q \in Directories \cup Records : q # p => Put(d, p, c)[q] = d[q]
           /\ p \in Directories /\ c \in Whole \cup {Torn, Absent} => Put(d, p, c) \in Disks
           /\ p \in Records /\ c \in Phases \cup {Absent} => Put(d, p, c) \in Disks
<1>1. d \in [Directories \cup Records -> Whole \cup {Torn, Absent} \cup Phases]
  BY DEF Disks
<1>2. Put(d, p, c)[p] = c /\ \A q \in Directories \cup Records : q # p => Put(d, p, c)[q] = d[q]
  BY <1>1 DEF Put
<1>3. c \in Whole \cup {Torn, Absent} \cup Phases =>
        Put(d, p, c) \in [Directories \cup Records -> Whole \cup {Torn, Absent} \cup Phases]
  BY <1>1 DEF Put
<1> QED
  BY <1>2, <1>3, Places DEF Disks

LEMMA TearIs ==
    ASSUME NEW d \in Disks, NEW p \in Directories
    PROVE  /\ Tear(d, p)[p] = IF d[p] = Absent THEN Absent ELSE Torn
           /\ \A q \in Directories \cup Records : q # p => Tear(d, p)[q] = d[q]
           /\ Tear(d, p) \in Disks
<1>1. Tear(d, p) = IF d[p] = Absent THEN d ELSE Put(d, p, Torn)
  BY DEF Tear, Put
<1> QED
  BY <1>1, PutIs

LEMMA MoveIs ==
    ASSUME NEW d \in Disks, NEW p \in Directories, NEW q \in Directories, p # q
    PROVE  /\ Move(d, p, q) \in Disks
           /\ d[p] # Absent /\ d[q] = Absent =>
                 /\ Move(d, p, q)[p] = Absent /\ Move(d, p, q)[q] = d[p]
                 /\ \A r \in Directories \cup Records : r \notin {p, q} => Move(d, p, q)[r] = d[r]
<1>1. CASE d[p] # Absent /\ d[q] = Absent
  <2>1. Move(d, p, q) = Put(Put(d, q, d[p]), p, Absent)
    BY <1>1 DEF Move, Put
  <2>2. Put(d, q, d[p]) \in Disks
    BY PutIs, DiskIs
  <2> QED
    BY <1>1, <2>1, <2>2, PutIs
<1>2. CASE ~(d[p] # Absent /\ d[q] = Absent)
  BY <1>2 DEF Move
<1> QED
  BY <1>1, <1>2

-----------------------------------------------------------------------------
(* The changes a step may make, of all of which the disk is the latest.     *)

Tx == pc \in About => tx \in Transactions

Same == UNCHANGED <<disk, after, had>>
\* A record is written, or removed.
Marks ==
    \/ pc = "prepare" /\ Puts(Record(tx), "Prepared")
    \/ pc = "oldMoved" /\ Puts(Record(tx), "OldMoved")
    \/ pc = "published" /\ pc' = "syncPublished" /\ Puts(Record(tx), "Published")
    \/ pc \in {"finalRecord", "dropRecord", "abortRecord"} /\ Puts(Record(tx), Absent)
\* A directory is removed, file by file and then altogether.
Removes(p) ==
    \/ disk[p] \in Whole /\ Tears(p)
    \/ disk[p] \in {Torn, Absent} /\ Puts(p, Absent)
Writes ==
    /\ disk' = Put(disk, Staging(tx), tx)
    /\ after' = after \cup {Put(disk, Staging(tx), c) : c \in {tx, Torn}}
    /\ UNCHANGED had
Settles ==
    /\ disk' \in after /\ after' = {disk'} /\ (disk' = disk \/ pc' = "idle")
    /\ Remembers \/ UNCHANGED <<disk, had>>
Disturbs ==
    /\ pc \notin Unseen
    /\ \E e \in world.edits \ edits :
          /\ disk' = Put(disk, Root, e) /\ Remembers /\ edits' = edits \cup {e}
          /\ after' = {Put(d, Root, e) : d \in {o \in after : Names(o) = Names(disk)}}

Changes ==
    \/ Same \/ Settles \/ SyncParent \/ Marks
    \/ pc \in {"syncTree", "complete"} /\ SyncTree(Staging(tx))
    \/ pc = "create" /\ Puts(Staging(tx), Torn)
    \/ pc = "write" /\ Writes
    \/ pc \in {"abort", "dropStaging"} /\ Removes(Staging(tx))
    \/ pc \in {"finalOld", "dropOld"} /\ Removes(Old(tx))
    \/ pc = "moveOld" /\ Moves(Root, Old(tx))
    \/ pc \in {"publish", "completeMove"} /\ Moves(Staging(tx), Root)
    \/ pc = "restore" /\ Moves(Old(tx), Root)
    \/ pc = "reject" /\ Moves(Root, Rejected(tx))
    \/ Disturbs

\* Every step makes one of these changes.
LEMMA EveryChange ==
    ASSUME TypeOK, [Next]_vars
    PROVE  Changes
<1>1. CASE \E t \in Transactions, b \in Transactions \cup world.edits \cup {Original} : Begin(t, b)
  BY <1>1 DEF Begin, Same, Changes
<1>2. CASE Open \/ Fail \/ Stop
  BY <1>2 DEF Open, Fail, Stop, Go, Same, Changes
<1>3. CASE PowerLoss
  BY <1>3 DEF PowerLoss, Settles, Changes
<1>4. CASE WriteBack
  BY <1>4 DEF WriteBack, TypeOK, Settles, Changes
<1>5. ASSUME NEW e \in Edits, Edit(e)
      PROVE  Disturbs
  BY <1>5 DEF Edit, Disturbs
<1>6. CASE Apply
  <2>1. CASE FindStale \/ CheckBase \/ Recheck
    BY <2>1 DEF FindStale, CheckBase, Recheck, Same, Changes
  <2>2. CASE SyncStaging \/ SyncPrepared \/ SyncOldMoved \/ SyncMoved \/ SyncPublished \/ SyncRoot
             \/ FinalSync
    BY <2>2 DEF SyncStaging, SyncPrepared, SyncOldMoved, SyncMoved, SyncPublished, SyncRoot,
                FinalSync, Syncs, Changes
  <2>3. CASE PersistPrepared \/ PersistOldMoved \/ PersistPublished \/ FinalizeRecord \/ AbortRecord
    BY <2>3 DEF PersistPrepared, PersistOldMoved, PersistPublished, FinalizeRecord, AbortRecord,
                RemoveRecord, At, Go, Marks, Changes
  <2>4. CASE CreateStaging \/ WriteStaging \/ SyncStaged \/ MoveOld \/ Publish
    BY <2>4 DEF CreateStaging, WriteStaging, SyncStaged, MoveOld, Publish, At, Writes, Changes
  <2>5. CASE FinalizeOld \/ AbortStaging
    BY <2>5 DEF FinalizeOld, AbortStaging, RemoveDir, At, Removes, Changes
  <2> QED
    BY <1>6, <2>1, <2>2, <2>3, <2>4, <2>5 DEF Apply
<1>7. CASE Recover
  <2>1. CASE FindNothing \/ FindTaken \/ Verify
    BY <2>1 DEF FindNothing, FindTaken, Verify, Same, Changes
  <2>2. ASSUME NEW r \in Transactions,
               \/ FindPrepared(r) \/ FindMoveDone(r) \/ FindNotMoved(r) \/ FindMoved(r)
               \/ FindPublished(r) \/ FindOldRoot(r) \/ FindSpoilt(r)
               \/ FindRejected(r) \/ FindUnpublished(r) \/ Refuse(r)
        PROVE  Same
    BY <2>2 DEF FindPrepared, FindMoveDone, FindNotMoved, FindMoved, FindPublished, FindOldRoot,
                FindSpoilt, FindRejected, FindUnpublished, Refuse, Takes, Same
  <2>3. CASE DropOld \/ DropStaging \/ DropRecord \/ DropSync
    BY <2>3 DEF DropOld, DropStaging, DropRecord, DropSync, RemoveDir, RemoveRecord, Syncs, At,
                Removes, Marks, Changes
  <2>4. CASE Restore \/ SyncRestored \/ Complete \/ CompleteMove \/ SyncCompleted \/ Reject \/ SyncRejected
    BY <2>4 DEF Restore, SyncRestored, Complete, CompleteMove, SyncCompleted, Reject, SyncRejected,
                Syncs, At, Changes
  <2> QED
    BY <1>7, <2>1, <2>2, <2>3, <2>4 DEF Recover, Changes
<1>8. CASE UNCHANGED vars
  BY <1>8 DEF vars, Same, Changes
<1> QED
  BY <1>1, <1>2, <1>3, <1>4, <1>5, <1>6, <1>7, <1>8 DEF Next, Changes

\* Each gives disks, of which the disk is one.
LEMMA DisksStep ==
    ASSUME TypeOK, Tx, Changes
    PROVE  disk' \in Disks /\ disk' \in after' /\ \A d \in after' : d \in Disks
<1>0. /\ disk \in Disks /\ disk \in after /\ \A d \in after : d \in Disks
      /\ UpToDate \subseteq after /\ disk \in UpToDate
  BY DEF TypeOK, UpToDate
<1>1. ASSUME NEW p \in Directories \cup Records, NEW c, Puts(p, c),
             \/ p \in Directories /\ c \in Whole \cup {Torn, Absent}
             \/ p \in Records /\ c \in Phases \cup {Absent}
      PROVE  disk' \in Disks /\ disk' \in after' /\ \A d \in after' : d \in Disks
  <2>1. \A d \in Disks : Put(d, p, c) \in Disks
    BY <1>1, PutIs
  <2> QED
    BY <1>0, <1>1, <2>1 DEF Puts
<1>2. ASSUME NEW p \in Directories, Tears(p)
      PROVE  disk' \in Disks /\ disk' \in after' /\ \A d \in after' : d \in Disks
  <2>1. \A d \in Disks : Tear(d, p) \in Disks
    BY TearIs
  <2> QED
    BY <1>0, <1>2, <2>1 DEF Tears
<1>3. ASSUME NEW p \in Directories, NEW q \in Directories, p # q, Moves(p, q)
      PROVE  disk' \in Disks /\ disk' \in after' /\ \A d \in after' : d \in Disks
  <2>1. \A d \in Disks : Move(d, p, q) \in Disks
    BY <1>3, MoveIs
  <2> QED
    BY <1>0, <1>3, <2>1 DEF Moves
<1>4. ASSUME NEW p \in Directories, Removes(p)
      PROVE  disk' \in Disks /\ disk' \in after' /\ \A d \in after' : d \in Disks
  BY <1>1, <1>2, <1>4 DEF Removes
<1>5. CASE Same \/ Settles \/ SyncParent
  BY <1>0, <1>5 DEF Same, Settles, SyncParent
<1>6. CASE Marks
  <2>1. tx \in Transactions /\ Record(tx) \in Records
    BY <1>6, Places DEF Marks, Tx, About, Steps, Precommit, Commit, Recovery
  <2> QED
    BY <1>1, <1>6, <2>1 DEF Marks, Phases
<1>7. CASE pc \in {"syncTree", "complete"} /\ SyncTree(Staging(tx))
  <2>1. tx \in Transactions /\ Staging(tx) \in Directories
    BY <1>7, Places DEF Tx, About, Steps, Precommit, Recovery
  <2>2. \A d \in Disks : Put(d, Staging(tx), disk[Staging(tx)]) \in Disks
    BY <1>0, <2>1, PutIs, DiskIs
  <2>3. Put(disk, Staging(tx), disk[Staging(tx)]) = disk
    BY <1>0, <2>1 DEF Put, Disks
  <2> QED
    BY <1>0, <1>7, <2>2, <2>3 DEF SyncTree
<1>8. CASE pc = "create" /\ Puts(Staging(tx), Torn)
  <2>1. tx \in Transactions /\ Staging(tx) \in Directories
    BY <1>8, Places DEF Tx, About, Steps
  <2> QED
    BY <1>1, <1>8, <2>1
<1>9. CASE pc = "write" /\ Writes
  <2>1. tx \in Transactions /\ Staging(tx) \in Directories
    BY <1>9, Places DEF Tx, About, Steps, Precommit
  <2>2. \A c \in {tx, Torn} : Put(disk, Staging(tx), c) \in Disks
    BY <1>0, <2>1, PutIs, Contents
  <2> QED
    BY <1>0, <1>9, <2>2 DEF Writes
<1>10. CASE \/ pc \in {"abort", "dropStaging"} /\ Removes(Staging(tx))
            \/ pc \in {"finalOld", "dropOld"} /\ Removes(Old(tx))
  <2>1. tx \in Transactions /\ Staging(tx) \in Directories /\ Old(tx) \in Directories
    BY <1>10, Places DEF Tx, About, Steps, Commit, Recovery
  <2> QED
    BY <1>4, <1>10, <2>1
<1>11. CASE \/ pc = "moveOld" /\ Moves(Root, Old(tx))
            \/ pc \in {"publish", "completeMove"} /\ Moves(Staging(tx), Root)
            \/ pc = "restore" /\ Moves(Old(tx), Root)
            \/ pc = "reject" /\ Moves(Root, Rejected(tx))
  <2>1. /\ tx \in Transactions /\ Staging(tx) \in Directories /\ Old(tx) \in Directories
        /\ Rejected(tx) \in Directories /\ Root \in Directories
        /\ Root \notin {Staging(tx), Old(tx), Rejected(tx)}
    BY <1>11, Places DEF Tx, About, Steps, Commit, Recovery
  <2> QED
    BY <1>3, <1>11, <2>1
<1>12. CASE Disturbs
  <2>1. PICK e \in world.edits \ edits :
           /\ disk' = Put(disk, Root, e)
           /\ after' = {Put(d, Root, e) : d \in {o \in after : Names(o) = Names(disk)}}
    BY <1>12 DEF Disturbs
  <2>2. e \in Whole
    BY <2>1, WorldsAssumption DEF TypeOK, Whole
  <2>3. \A d \in Disks : Put(d, Root, e) \in Disks
    BY <2>2, PutIs, Places
  <2> QED
    BY <1>0, <2>1, <2>3
<1> QED
  BY <1>5, <1>6, <1>7, <1>8, <1>9, <1>10, <1>11, <1>12 DEF Changes

\* What the root has had is remembered, by whatever step it gets it.
LEMMA Remembered ==
    ASSUME TypeOK, Tx, Changes
    PROVE  Remembers \/ (had' = had /\ disk'[Root] = disk[Root])
<1>0. disk \in Disks /\ Root \in Directories
  BY Places DEF TypeOK
<1>1. CASE Same \/ SyncParent \/ SyncTree(Staging(tx)) \/ Settles \/ Disturbs
  BY <1>1 DEF Same, SyncParent, SyncTree, Settles, Disturbs
<1>2. CASE Marks
  <2>1. Record(tx) \in Records /\ Root # Record(tx)
    BY <1>2, Places DEF Marks, Tx, About, Steps, Precommit, Commit, Recovery
  <2>2. \A c : Put(disk, Record(tx), c)[Root] = disk[Root]
    BY <1>0, <2>1, PutIs
  <2> QED
    BY <1>2, <2>2 DEF Marks, Puts
<1>3. CASE \/ pc = "create" /\ Puts(Staging(tx), Torn)
           \/ pc = "write" /\ Writes
           \/ pc \in {"abort", "dropStaging"} /\ Removes(Staging(tx))
           \/ pc \in {"finalOld", "dropOld"} /\ Removes(Old(tx))
  <2>1. tx \in Transactions
    BY <1>3 DEF Tx, About, Steps, Precommit, Commit, Recovery
  <2>2. ASSUME NEW p \in {Staging(tx), Old(tx)}
        PROVE  /\ \A c : Put(disk, p, c)[Root] = disk[Root]
               /\ Tear(disk, p)[Root] = disk[Root]
    <3>1. p \in Directories /\ Root # p
      BY <2>1, <2>2, Places
    <3>2. \A c : Put(disk, p, c)[Root] = disk[Root]
      BY <1>0, <3>1, PutIs
    <3>3. Tear(disk, p)[Root] = disk[Root]
      BY <1>0, <3>1, TearIs
    <3> QED
      BY <3>2, <3>3
  <2> QED
    BY <1>3, <2>2 DEF Puts, Writes, Removes, Tears
<1>4. CASE \/ pc = "moveOld" /\ Moves(Root, Old(tx))
           \/ pc \in {"publish", "completeMove"} /\ Moves(Staging(tx), Root)
           \/ pc = "restore" /\ Moves(Old(tx), Root)
           \/ pc = "reject" /\ Moves(Root, Rejected(tx))
  BY <1>4 DEF Moves
<1> QED
  BY <1>1, <1>2, <1>3, <1>4 DEF Changes

\* The places each touches.
Touches(p) ==
    \/ p = Record(tx) /\ Marks
    \/ p = Staging(tx) /\ pc \in {"create", "write", "syncTree", "publish", "abort", "dropStaging",
                                  "complete", "completeMove"}
    \/ p = Old(tx) /\ pc \in {"moveOld", "finalOld", "dropOld", "restore"}
    \/ p = Rejected(tx) /\ pc = "reject"
    \/ p = Root /\ (pc \in {"moveOld", "publish", "completeMove", "restore", "reject"} \/ Disturbs)
Like(d, e) == \A p \in Directories \cup Records : Touches(p) \/ d[p] = e[p]

\* What is elsewhere is as it was on some disk, and on the disk itself as long
\* as there is power.
LEMMA Frame ==
    ASSUME TypeOK, Tx, Changes
    PROVE  /\ \A d \in after' : \E e \in after : Like(d, e)
           /\ pc' # "idle" => Like(disk', disk)
<1>0. /\ disk \in Disks /\ disk \in after /\ \A d \in after : d \in Disks
      /\ UpToDate \subseteq after /\ disk \in UpToDate
  BY DEF TypeOK, UpToDate
<1>1. ASSUME NEW p \in Directories \cup Records, NEW c, NEW d \in Disks, Touches(p)
      PROVE  Like(Put(d, p, c), d)
  BY <1>1, PutIs DEF Like
<1>2. ASSUME NEW p \in Directories, NEW d \in Disks, Touches(p)
      PROVE  Like(Tear(d, p), d)
  BY <1>2, TearIs DEF Like
<1>3. ASSUME NEW p \in Directories, NEW q \in Directories, p # q, NEW d \in Disks,
             Touches(p), Touches(q)
      PROVE  Like(Move(d, p, q), d)
  <2>1. CASE d[p] # Absent /\ d[q] = Absent
    BY <1>3, <2>1, MoveIs DEF Like
  <2>2. CASE ~(d[p] # Absent /\ d[q] = Absent)
    BY <2>2 DEF Move, Like
  <2> QED
    BY <2>1, <2>2
<1>4. \A d : Like(d, d)
  BY DEF Like
<1> DEFINE Framed == /\ \A d \in after' : \E e \in after : Like(d, e)
                     /\ pc' # "idle" => Like(disk', disk)
<1>5. ASSUME NEW p \in Directories \cup Records, NEW c, Puts(p, c), Touches(p)
      PROVE  Framed
  BY <1>0, <1>1, <1>4, <1>5 DEF Puts
<1>6. ASSUME NEW p \in Directories, Removes(p), Touches(p)
      PROVE  Framed
  BY <1>0, <1>2, <1>4, <1>5, <1>6 DEF Removes, Tears
<1>7. ASSUME NEW p \in Directories, NEW q \in Directories, p # q, Moves(p, q),
             Touches(p), Touches(q)
      PROVE  Framed
  BY <1>0, <1>3, <1>4, <1>7 DEF Moves
<1>8. CASE Same \/ SyncParent \/ Settles
  BY <1>0, <1>4, <1>8 DEF Same, SyncParent, Settles
<1>9. CASE Marks
  <2>1. tx \in Transactions /\ Record(tx) \in Records
    BY <1>9, Places DEF Marks, Tx, About, Steps, Precommit, Commit, Recovery
  <2> QED
    BY <1>5, <1>9, <2>1 DEF Marks, Touches
<1>10. CASE pc \in {"syncTree", "complete"} /\ SyncTree(Staging(tx))
  <2>1. Staging(tx) \in Directories /\ Touches(Staging(tx))
    BY <1>10, Places DEF Touches, Tx, About, Steps, Precommit, Recovery
  <2> QED
    BY <1>0, <1>1, <1>4, <1>10, <2>1 DEF SyncTree
<1>11. CASE pc = "write" /\ Writes
  <2>1. Staging(tx) \in Directories /\ Touches(Staging(tx))
    BY <1>11, Places DEF Touches, Tx, About, Steps, Precommit
  <2> QED
    BY <1>0, <1>1, <1>4, <1>11, <2>1 DEF Writes
<1>12. CASE \/ pc = "create" /\ Puts(Staging(tx), Torn)
            \/ pc \in {"abort", "dropStaging"} /\ Removes(Staging(tx))
            \/ pc \in {"finalOld", "dropOld"} /\ Removes(Old(tx))
  <2>1. Staging(tx) \in Directories /\ Old(tx) \in Directories
    BY <1>12, Places DEF Tx, About, Steps, Precommit, Commit, Recovery
  <2> QED
    BY <1>5, <1>6, <1>12, <2>1 DEF Touches
<1>13. CASE \/ pc = "moveOld" /\ Moves(Root, Old(tx))
            \/ pc \in {"publish", "completeMove"} /\ Moves(Staging(tx), Root)
            \/ pc = "restore" /\ Moves(Old(tx), Root)
            \/ pc = "reject" /\ Moves(Root, Rejected(tx))
  <2>1. /\ Staging(tx) \in Directories /\ Old(tx) \in Directories
        /\ Rejected(tx) \in Directories /\ Root \in Directories
        /\ Root \notin {Staging(tx), Old(tx), Rejected(tx)}
    BY <1>13, Places DEF Tx, About, Steps, Commit, Recovery
  <2> QED
    BY <1>7, <1>13, <2>1 DEF Touches
<1>14. CASE Disturbs
  <2>1. Root \in Directories /\ Touches(Root)
    BY <1>14, Places DEF Touches
  <2>2. \A e, d \in Disks : Like(Put(d, Root, e), d)
    BY <1>1, <2>1
  <2> QED
    BY <1>0, <1>1, <1>14, <2>1, <2>2 DEF Disturbs
<1> QED
  BY <1>8, <1>9, <1>10, <1>11, <1>12, <1>13, <1>14 DEF Changes

-----------------------------------------------------------------------------
(* The types.                                                               *)

Bounded ==
    /\ world \in Worlds /\ edits \subseteq world.edits
    /\ stops \in 0..world.stops /\ losses \in 0..world.losses
    /\ applying \in Transactions \cup {Absent}
    /\ base \in [Transactions -> Whole \cup {Absent}]

LEMMA StepsTyped ==
    ASSUME TypeOK, Tx, [Next]_vars
    PROVE  /\ pc' \in Steps /\ tx' \in Transactions \cup {Absent} /\ Bounded'
           /\ pc' \in About => tx' \in Transactions
<1>0. /\ Bounded /\ tx \in Transactions \cup {Absent} /\ pc \in Steps
      /\ pc \in About => tx \in Transactions
  BY DEF TypeOK, Bounded, Tx
<1>1. ASSUME NEW step, Go(step), step \in About => pc \in About, step \in Steps
      PROVE  pc' \in Steps /\ tx' \in Transactions \cup {Absent} /\ Bounded'
             /\ (pc' \in About => tx' \in Transactions)
  BY <1>0, <1>1 DEF Go, request, bounds, Bounded
<1>2. ASSUME NEW step, Go(step), step \in Steps, pc \in About
      PROVE  pc' \in Steps /\ tx' \in Transactions \cup {Absent} /\ Bounded'
             /\ (pc' \in About => tx' \in Transactions)
  BY <1>1, <1>2
<1>3. ASSUME pc' = "idle", tx' \in Transactions \cup {Absent}, applying' = Absent,
             UNCHANGED <<base, bounds>>
      PROVE  pc' \in Steps /\ tx' \in Transactions \cup {Absent} /\ Bounded'
             /\ (pc' \in About => tx' \in Transactions)
  BY <1>0, <1>3 DEF Bounded, bounds, About, Steps
<1>4. ASSUME NEW t \in Transactions, NEW b \in Transactions \cup world.edits \cup {Original},
             Begin(t, b)
      PROVE  pc' \in Steps /\ tx' \in Transactions \cup {Absent} /\ Bounded'
             /\ (pc' \in About => tx' \in Transactions)
  <2>1. b \in Whole
    BY <1>0, WorldsAssumption DEF Bounded, Whole
  <2>2. base' \in [Transactions -> Whole \cup {Absent}]
    BY <1>0, <1>4, <2>1 DEF Begin, Bounded
  <2> QED
    BY <1>0, <1>4, <2>2 DEF Begin, Bounded, bounds, About, Steps, Recovery
<1>5. CASE Open
  BY <1>1, <1>5 DEF Open, About, Steps, Recovery
<1>6. CASE Fail
  BY <1>2, <1>6 DEF Fail, About, Steps, Precommit
<1>7. CASE Stop \/ PowerLoss
  <2>1. world \in [reorders : BOOLEAN, edits : SUBSET Edits, stops : Nat, losses : Nat]
    BY <1>0, WorldsAssumption DEF Bounded
  <2> QED
    BY <1>0, <1>7, <2>1 DEF Stop, PowerLoss, Bounded, About, Steps
<1>8. CASE WriteBack \/ UNCHANGED vars
  BY <1>0, <1>8 DEF WriteBack, vars, Bounded, bounds
<1>9. ASSUME NEW e \in Edits, Edit(e)
      PROVE  pc' \in Steps /\ tx' \in Transactions \cup {Absent} /\ Bounded'
             /\ (pc' \in About => tx' \in Transactions)
  BY <1>0, <1>9 DEF Edit, Bounded
<1>10. CASE Apply
  <2>1. CASE FindStale \/ FinalSync \/ AbortRecord
    BY <1>0, <1>3, <2>1 DEF FindStale, FinalSync, AbortRecord
  <2>2. CASE CheckBase \/ CreateStaging \/ SyncStaging \/ PersistPrepared \/ SyncPrepared
             \/ WriteStaging \/ SyncStaged
    BY <1>2, <2>2 DEF CheckBase, CreateStaging, SyncStaging, PersistPrepared, SyncPrepared,
           WriteStaging, SyncStaged, Syncs, At, About, Steps, Precommit
  <2>3. CASE Recheck
    BY <1>2, <2>3 DEF Recheck, At, About, Steps, Precommit
  <2>4. CASE PersistOldMoved \/ SyncOldMoved \/ MoveOld \/ SyncMoved \/ PersistPublished
             \/ SyncPublished \/ Publish \/ SyncRoot \/ FinalizeRecord
    BY <1>2, <2>4 DEF PersistOldMoved, SyncOldMoved, MoveOld, SyncMoved, PersistPublished,
           SyncPublished, Publish, SyncRoot, FinalizeRecord, RemoveRecord, Syncs, At,
           About, Steps, Precommit, Commit
  <2>5. CASE FinalizeOld \/ AbortStaging
    BY <1>2, <2>5 DEF FinalizeOld, AbortStaging, RemoveDir, At, About, Steps, Commit
  <2> QED
    BY <1>10, <2>1, <2>2, <2>3, <2>4, <2>5 DEF Apply
<1>11. CASE Recover
  <2>1. CASE FindNothing
    BY <1>0, <2>1 DEF FindNothing, request, bounds, Bounded, About, Steps
  <2>2. ASSUME NEW r \in Transactions, NEW phase, NEW step \in Recovery, Takes(r, phase, step)
        PROVE  pc' \in Steps /\ tx' \in Transactions \cup {Absent} /\ Bounded'
               /\ (pc' \in About => tx' \in Transactions)
    BY <1>0, <2>2 DEF Takes, request, bounds, Bounded, Steps
  <2>3. ASSUME NEW r \in Transactions,
               \/ FindPrepared(r) \/ FindMoveDone(r) \/ FindNotMoved(r) \/ FindMoved(r)
               \/ FindPublished(r) \/ FindOldRoot(r) \/ FindSpoilt(r)
               \/ FindRejected(r) \/ FindUnpublished(r)
        PROVE  pc' \in Steps /\ tx' \in Transactions \cup {Absent} /\ Bounded'
               /\ (pc' \in About => tx' \in Transactions)
    BY <2>2, <2>3 DEF FindPrepared, FindMoveDone, FindNotMoved, FindMoved, FindPublished,
           FindOldRoot, FindSpoilt, FindRejected, FindUnpublished, Recovery
  <2>4. ASSUME NEW r \in Transactions, Refuse(r)
        PROVE  pc' \in Steps /\ tx' \in Transactions \cup {Absent} /\ Bounded'
               /\ (pc' \in About => tx' \in Transactions)
    BY <1>3, <2>4 DEF Refuse
  <2>5. CASE FindTaken
    BY <1>0, <1>3, <2>5 DEF FindTaken
  <2>6. CASE DropOld \/ DropStaging \/ DropRecord
    BY <1>2, <2>6 DEF DropOld, DropStaging, DropRecord, RemoveDir, RemoveRecord, At,
           About, Steps, Recovery
  <2>7. CASE DropSync
    BY <1>1, <2>7 DEF DropSync, Syncs, At, About, Steps, Recovery
  <2>8. CASE Restore \/ SyncRestored \/ Complete \/ CompleteMove \/ SyncCompleted \/ Reject \/ SyncRejected
    BY <1>2, <2>8 DEF Restore, SyncRestored, Complete, CompleteMove, SyncCompleted, Reject,
           SyncRejected, Syncs, At, About, Steps, Recovery
  <2>9. CASE Verify
    BY <1>2, <2>9 DEF Verify, At, About, Steps, Recovery
  <2> QED
    BY <1>11, <2>1, <2>3, <2>4, <2>5, <2>6, <2>7, <2>8, <2>9 DEF Recover
<1> QED
  BY <1>4, <1>5, <1>6, <1>7, <1>8, <1>9, <1>10, <1>11 DEF Next

LEMMA TypeStep ==
    ASSUME TypeOK, Tx, [Next]_vars
    PROVE  TypeOK' /\ Tx'
<1>1. had' \subseteq Transactions
  BY EveryChange, Remembered DEF TypeOK, Remembers
<1> QED
  BY <1>1, EveryChange, DisksStep, StepsTyped DEF TypeOK, Tx, Bounded

LEMMA TypeInit ==
    ASSUME Init
    PROVE  TypeOK /\ Tx
<1>1. disk \in Disks
  <2>1. Original \in Whole /\ Root \in Directories /\ Directories \cap Records = {}
    BY Places, Contents
  <2> QED
    BY <2>1 DEF Init, Disks
<1>2. world \in [reorders : BOOLEAN, edits : SUBSET Edits, stops : Nat, losses : Nat]
  BY WorldsAssumption DEF Init
<1> QED
  BY <1>1, <1>2 DEF Init, TypeOK, Tx, About, Steps

\* The types of SnapshotApply.
THEOREM TypeCorrect == Spec => []TypeOK
<1>1. Init => TypeOK /\ Tx
  BY TypeInit
<1>2. TypeOK /\ Tx /\ [Next]_vars => TypeOK' /\ Tx'
  BY TypeStep
<1> QED
  BY <1>1, <1>2, PTL DEF Spec

-----------------------------------------------------------------------------
(* One record.                                                              *)

SameRecords(d, e) == \A r \in Transactions : d[Record(r)] = e[Record(r)]

LEMMA PutsNoRecord ==
    ASSUME NEW p \in Directories, NEW c, NEW d \in Disks
    PROVE  SameRecords(Put(d, p, c), d)
<1>1. \A r \in Transactions : Record(r) \in Records /\ Record(r) # p
  BY Places
<1> QED
  BY <1>1, PutIs DEF SameRecords

\* A change of the directories changes no record.
LEMMA RecordsStay ==
    ASSUME TypeOK, Tx, Changes
    PROVE  Marks \/ \A d \in after' : \E e \in after : SameRecords(d, e)
<1>1. ASSUME ~Marks, NEW d, NEW e, Like(d, e)
      PROVE  SameRecords(d, e)
  <2>1. CASE pc \in About
    <3>1. tx \in Transactions
      BY <2>1 DEF Tx
    <3>2. ASSUME NEW r \in Transactions
          PROVE  Record(r) \in Records /\ ~Touches(Record(r))
      BY <1>1, <3>1, Places DEF Touches
    <3> QED
      BY <1>1, <3>2 DEF Like, SameRecords
  <2>2. CASE pc \notin About
    <3>1. ASSUME NEW r \in Transactions
          PROVE  Record(r) \in Records /\ ~Touches(Record(r))
      BY <1>1, <2>2, Places DEF Touches, TypeOK, About, Steps, Precommit, Commit, Recovery
    <3> QED
      BY <1>1, <3>1 DEF Like, SameRecords
  <2> QED
    BY <2>1, <2>2
<1> QED
  BY <1>1, Frame

LEMMA OneRecordStep ==
    ASSUME SInv, Changes
    PROVE  OneRecord'
<1>0. TypeOK /\ Tx /\ OneRecord
  BY DEF SInv, Tx, RecordsOK
<1>1. CASE ~Marks
  <2>1. \A d \in after' : \E e \in after : SameRecords(d, e)
    BY <1>0, <1>1, RecordsStay
  <2> QED
    BY <1>0, <2>1 DEF OneRecord, SameRecords
<1>2. CASE Marks
  <2>1. tx \in Transactions /\ Record(tx) \in Records
    BY <1>0, <1>2, Places DEF Marks, Tx, About, Steps, Precommit, Commit, Recovery
  <2>2. PICK c \in Phases \cup {Absent} :
           /\ Puts(Record(tx), c)
           /\ c # Absent => pc \in {"prepare", "oldMoved", "published"}
    BY <1>2 DEF Marks, Phases
  <2>3. ASSUME NEW d \in after
        PROVE  /\ Put(d, Record(tx), c)[Record(tx)] = c
               /\ \A r \in Transactions : r # tx =>
                     Put(d, Record(tx), c)[Record(r)] = d[Record(r)]
    BY <1>0, <2>1, PutIs, Places DEF TypeOK
  <2>4. \A d \in after' : d \in after \/ \E e \in after : d = Put(e, Record(tx), c)
    BY <2>2 DEF Puts, UpToDate
  <2>5. c = Absent \/ \A d \in after, r \in Transactions : r # tx => d[Record(r)] = Absent
    BY <2>2 DEF SInv, RecordsOK, NoRecord, OnlyOf, Staged
  <2>6. ASSUME NEW d \in after', NEW r \in Transactions, NEW s \in Transactions,
               d[Record(r)] # Absent, d[Record(s)] # Absent
        PROVE  r = s
    <3>1. CASE d \in after
      BY <1>0, <2>6, <3>1 DEF OneRecord
    <3>2. CASE d \notin after
      <4>1. PICK e \in after : d = Put(e, Record(tx), c)
        BY <2>4, <3>2
      <4>2. c = Absent => e[Record(r)] # Absent /\ e[Record(s)] # Absent
        BY <2>3, <2>6, <4>1
      <4>3. c # Absent => r = tx /\ s = tx
        BY <2>3, <2>5, <2>6, <4>1
      <4> QED
        BY <1>0, <4>2, <4>3 DEF OneRecord
    <3> QED
      BY <3>1, <3>2
  <2> QED
    BY <2>6 DEF OneRecord
<1> QED
  BY <1>1, <1>2

\* What is said of the steps of an apply.
Recorded ==
    /\ pc \in Early \cup {"syncStaging"} => NoRecord(disk)
    /\ pc = "prepare" => \A d \in after : NoRecord(d)
    /\ pc \in Staged \cup Final => \A d \in after : OnlyOf(d, tx)

LEMMA RecordedStep ==
    ASSUME SInv, Changes, [Next]_vars
    PROVE  Recorded'
<1>0. /\ TypeOK /\ Tx /\ OneRecord /\ Recorded
      /\ disk \in Disks /\ \A d \in after : d \in Disks
  BY DEF SInv, Tx, RecordsOK, Recorded, TypeOK
<1>1. ASSUME pc' \notin Early \cup {"syncStaging", "prepare"} \cup Staged \cup Final
      PROVE  Recorded'
  BY <1>1 DEF Recorded
<1>2. ASSUME pc \in Staged \cup Final \cup {"prepare"}, pc' \in (Staged \cup Final) \ {"prepare"}, tx' = tx
      PROVE  Recorded'
  <2>1. tx \in Transactions /\ \A d \in after : d \in Disks /\ OnlyOf(d, tx)
    BY <1>0, <1>2 DEF TypeOK, Tx, Recorded, NoRecord, OnlyOf, Staged, Final, About, Steps,
                      Precommit, Commit
  <2>2. CASE ~Marks
    <3>1. \A d \in after' : \E e \in after : SameRecords(d, e)
      BY <1>0, <2>2, RecordsStay
    <3>2. \A d \in after' : OnlyOf(d, tx)
      BY <2>1, <3>1 DEF SameRecords, OnlyOf
    <3> QED
      BY <1>2, <3>2 DEF Recorded, Early, Staged, Final
  <2>3. CASE Marks
    <3>1. PICK c : Puts(Record(tx), c)
      BY <2>3 DEF Marks
    <3>2. \A d \in Disks : OnlyOf(d, tx) => OnlyOf(Put(d, Record(tx), c), tx)
      BY <2>1, PutIs, Places DEF OnlyOf
    <3>3. \A d \in after' : OnlyOf(d, tx)
      BY <2>1, <3>1, <3>2 DEF Puts, UpToDate
    <3> QED
      BY <1>2, <3>3 DEF Recorded, Early, Staged, Final
  <2> QED
    BY <2>2, <2>3
<1>3. CASE UNCHANGED vars \/ WriteBack
  BY <1>0, <1>3 DEF vars, WriteBack, Recorded, TypeOK
<1>4. ASSUME NEW e \in Edits, Edit(e)
      PROVE  Recorded'
  <2>1. /\ SameRecords(disk', disk) /\ pc' = pc /\ tx' = tx
        /\ \A d \in after' : \E o \in after : SameRecords(d, o)
    BY <1>0, <1>4, PutsNoRecord, Places DEF Edit
  <2> QED
    BY <1>0, <2>1 DEF Recorded, NoRecord, OnlyOf, SameRecords
<1>5. CASE FindNothing
  BY <1>5 DEF FindNothing, Pending, Recorded, NoRecord, Early, Staged, Final
<1>6. CASE CheckBase
  BY <1>0, <1>6 DEF CheckBase, At, Go, Recorded, Early, Staged, Final
<1>7. CASE CreateStaging
  <2>1. tx \in Transactions /\ NoRecord(disk)
    BY <1>0, <1>7 DEF CreateStaging, At, Tx, About, Steps, Recorded, Early
  <2>2. SameRecords(disk', disk)
    BY <1>0, <1>7, <2>1, PutsNoRecord, Places DEF CreateStaging, Puts
  <2> QED
    BY <1>7, <2>1, <2>2 DEF CreateStaging, Go, Recorded, NoRecord, SameRecords, Early, Staged, Final
<1>8. CASE SyncStaging
  <2>1. \A d \in after' : Names(d) = Names(disk) /\ d \in Disks
    BY <1>0, <1>8 DEF SyncStaging, Syncs, SyncParent
  <2>2. NoRecord(disk)
    BY <1>0, <1>8 DEF SyncStaging, Syncs, At, Recorded
  <2>3. \A d \in after' : NoRecord(d)
    BY <2>1, <2>2, Places DEF Names, NoRecord
  <2> QED
    BY <1>8, <2>3 DEF SyncStaging, Syncs, Go, Recorded, NoRecord, OnlyOf, Early, Staged, Final
<1>9. CASE Apply
  <2>1. CASE FindStale \/ AbortStaging \/ AbortRecord \/ FinalSync
    BY <1>1, <2>1 DEF FindStale, AbortStaging, AbortRecord, FinalSync, RemoveDir, At, Go,
           Early, Staged, Final
  <2>2. CASE PersistPrepared \/ SyncPrepared \/ WriteStaging \/ SyncStaged
    BY <1>2, <2>2 DEF PersistPrepared, SyncPrepared, WriteStaging, SyncStaged, Syncs, At, Go,
           Staged
  <2>3. CASE Recheck
    BY <1>1, <1>2, <2>3 DEF Recheck, At, Go, Early, Staged, Final
  <2>4. CASE PersistOldMoved \/ SyncOldMoved \/ MoveOld \/ SyncMoved \/ PersistPublished
             \/ SyncPublished
    BY <1>2, <2>4 DEF PersistOldMoved, SyncOldMoved, MoveOld, SyncMoved, PersistPublished,
           SyncPublished, Syncs, At, Go, Staged
  <2>5. CASE Publish \/ SyncRoot \/ FinalizeOld \/ FinalizeRecord
    BY <1>2, <2>5 DEF Publish, SyncRoot, FinalizeOld, FinalizeRecord, RemoveDir, RemoveRecord,
           Syncs, At, Go, Staged, Final
  <2> QED
    BY <1>6, <1>7, <1>8, <1>9, <2>1, <2>2, <2>3, <2>4, <2>5 DEF Apply
<1>10. CASE Recover
  <2>1. ASSUME NEW r \in Transactions,
               \/ FindPrepared(r) \/ FindMoveDone(r) \/ FindNotMoved(r) \/ FindMoved(r)
               \/ FindPublished(r) \/ FindOldRoot(r) \/ FindSpoilt(r)
               \/ FindRejected(r) \/ FindUnpublished(r) \/ Refuse(r)
        PROVE  Recorded'
    BY <1>1, <2>1 DEF FindPrepared, FindMoveDone, FindNotMoved, FindMoved, FindPublished,
           FindOldRoot, FindSpoilt, FindRejected, FindUnpublished, Refuse, Takes,
           Early, Staged, Final
  <2>2. CASE DropOld \/ DropStaging \/ DropRecord \/ DropSync \/ FindTaken
    BY <1>1, <2>2 DEF DropOld, DropStaging, DropRecord, DropSync, FindTaken, RemoveDir,
           RemoveRecord, Syncs, At, Go, Early, Staged, Final
  <2>3. CASE Restore \/ SyncRestored \/ Complete \/ CompleteMove \/ SyncCompleted \/ Verify
             \/ Reject \/ SyncRejected
    BY <1>1, <2>3 DEF Restore, SyncRestored, Complete, CompleteMove, SyncCompleted, Verify,
           Reject, SyncRejected, Syncs, Go, Early, Staged, Final
  <2> QED
    BY <1>5, <1>10, <2>1, <2>2, <2>3 DEF Recover
<1>11. ASSUME NEW t \in Transactions, NEW b \in Transactions \cup world.edits \cup {Original},
              Begin(t, b)
       PROVE  Recorded'
  BY <1>1, <1>11 DEF Begin, Early, Staged, Final
<1>12. CASE Open \/ Fail \/ Stop \/ PowerLoss
  BY <1>1, <1>12 DEF Open, Fail, Stop, PowerLoss, Go, Early, Staged, Final
<1> QED
  BY <1>3, <1>4, <1>9, <1>10, <1>11, <1>12 DEF Next

LEMMA SInvStep ==
    ASSUME SInv, [Next]_vars
    PROVE  SInv'
<1>1. TypeOK /\ Tx
  BY DEF SInv, Tx
<1>2. TypeOK' /\ Tx' /\ Changes
  BY <1>1, TypeStep, EveryChange
<1>3. OneRecord' /\ Recorded'
  BY <1>2, OneRecordStep, RecordedStep
<1> QED
  BY <1>2, <1>3 DEF SInv, Tx, RecordsOK, Recorded

LEMMA SInvInit ==
    ASSUME Init
    PROVE  SInv
<1>1. TypeOK /\ Tx
  BY TypeInit
<1>2. \A r \in Transactions : disk[Record(r)] = Absent
  BY Places DEF Init
<1>3. OneRecord
  BY <1>2 DEF Init, OneRecord
<1> QED
  BY <1>1, <1>3 DEF Init, SInv, Tx, RecordsOK, Early, Staged, Final

\* Whatever a power loss takes away, also where the file system may keep a
\* later change and lose an earlier one, there is one transaction to recover
\* at most: recover_locked goes through the records one by one, and the
\* recovery of one says nothing of another.
THEOREM OneToRecover == Spec => []OneRecord
<1>1. Init => SInv
  BY SInvInit
<1>2. SInv /\ [Next]_vars => SInv'
  BY SInvStep
<1>3. SInv => OneRecord
  BY DEF SInv, RecordsOK
<1> QED
  BY <1>1, <1>2, <1>3, PTL DEF Spec

-----------------------------------------------------------------------------
(* Disks with the same names, and the contents that one keeps of another.   *)

Match(d, e) ==
    /\ \A p \in Directories : d[p] = Absent <=> e[p] = Absent
    /\ \A t \in Transactions : d[Record(t)] = e[Record(t)]
    /\ \A p \in Guarded : e[p] \in Whole => d[p] = e[p]

\* The places of one transaction are none of another's.
LEMMA PlacesOf ==
    ASSUME NEW t \in Transactions
    PROVE  /\ {Root, Staging(t), Old(t), Rejected(t)} \subseteq Directories
           /\ {Root, Old(t), Rejected(t)} \subseteq Guarded /\ Staging(t) \notin Guarded
           /\ Root # Staging(t) /\ Root # Old(t) /\ Root # Rejected(t)
           /\ Staging(t) # Old(t) /\ Staging(t) # Rejected(t) /\ Old(t) # Rejected(t)
           /\ Record(t) \in Records
           /\ \A s \in Transactions \ {t} :
                 /\ {Staging(s), Old(s), Rejected(s)} \subseteq Directories
                 /\ Record(s) \in Records /\ Record(s) # Record(t)
                 /\ Staging(s) \notin {Root, Staging(t), Old(t), Rejected(t)}
                 /\ Old(s) \notin {Root, Staging(t), Old(t), Rejected(t)}
                 /\ Rejected(s) \notin {Root, Staging(t), Old(t), Rejected(t)}
  BY Places

LEMMA MatchKeeps ==
    ASSUME NEW d \in Disks, NEW e \in Disks, Match(d, e)
    PROVE  Keeps(d, e)
<1>1. \A p \in Guarded : e[p] \in Whole => \E q \in Directories : d[q] = e[p]
  BY Places DEF Match
<1>2. e[Root] \in Whole /\ d[Root] # Absent => d[Root] = e[Root] \/ Gone(d, e)
  BY Places DEF Match
<1>3. ASSUME NEW t \in Transactions
      PROVE  /\ e[Root] = Absent /\ d[Root] # Absent /\ e[Old(t)] \in Whole =>
                    d[Root] = e[Old(t)] \/ Gone(d, e)
             /\ e[Old(t)] \in Whole /\ d[Old(t)] # Absent => d[Old(t)] = e[Old(t)]
             /\ d[Rejected(t)] # Absent => e[Rejected(t)] # Absent
             /\ d[Rejected(t)] # Absent /\ e[Rejected(t)] \in Whole => d[Rejected(t)] = e[Rejected(t)]
             /\ e[Record(t)] # Absent /\ e[Staging(t)] # Absent => d[Staging(t)] # Absent
  BY PlacesOf DEF Match
<1> QED
  BY <1>1, <1>2, <1>3 DEF Keeps

LEMMA MatchPut ==
    ASSUME NEW d \in Disks, NEW e \in Disks, Match(d, e), NEW p \in Directories \cup Records, NEW c
    PROVE  Match(Put(d, p, c), Put(e, p, c))
<1>1. /\ Put(d, p, c)[p] = c /\ Put(e, p, c)[p] = c
      /\ \A q \in Directories \cup Records : q # p =>
            Put(d, p, c)[q] = d[q] /\ Put(e, p, c)[q] = e[q]
  BY PutIs
<1> QED
  BY <1>1, Places DEF Match

LEMMA MatchTear ==
    ASSUME NEW d \in Disks, NEW e \in Disks, Match(d, e), NEW p \in Directories
    PROVE  Match(Tear(d, p), Tear(e, p))
<1>1. CASE d[p] = Absent
  BY <1>1 DEF Match, Tear
<1>2. CASE d[p] # Absent
  <2>1. e[p] # Absent
    BY <1>2 DEF Match
  <2> QED
    BY <1>2, <2>1, MatchPut DEF Tear, Put
<1> QED
  BY <1>1, <1>2

LEMMA MatchMove ==
    ASSUME NEW d \in Disks, NEW e \in Disks, Match(d, e),
           NEW p \in Directories, NEW q \in Directories, p # q, e[p] # Absent, e[q] = Absent,
           e[p] \in Whole => d[p] = e[p]
    PROVE  Match(Move(d, p, q), Move(e, p, q))
<1>1. d[p] # Absent /\ d[q] = Absent
  BY DEF Match
<1>2. /\ Move(d, p, q)[p] = Absent /\ Move(d, p, q)[q] = d[p]
      /\ Move(e, p, q)[p] = Absent /\ Move(e, p, q)[q] = e[p]
      /\ \A r \in Directories \cup Records : r \notin {p, q} =>
            Move(d, p, q)[r] = d[r] /\ Move(e, p, q)[r] = e[r]
  BY <1>1, MoveIs
<1>3. \A r \in Directories : Move(d, p, q)[r] = Absent <=> Move(e, p, q)[r] = Absent
  BY <1>1, <1>2 DEF Match
<1>4. \A t \in Transactions : Move(d, p, q)[Record(t)] = Move(e, p, q)[Record(t)]
  BY <1>2, Places DEF Match
<1>5. ASSUME NEW r \in Guarded, Move(e, p, q)[r] \in Whole
      PROVE  Move(d, p, q)[r] = Move(e, p, q)[r]
  BY <1>2, <1>5, Places, Contents DEF Match
<1> QED
  BY <1>3, <1>4, <1>5 DEF Match

\* A disk whose names are those of now has all that is whole now.
LEMMA UpToDateIs ==
    ASSUME OInv, NEW d \in UpToDate
    PROVE  d \in after /\ d \in Disks /\ disk \in Disks /\ Sound(d) /\ Match(d, disk)
<1>1. d \in after /\ d \in Disks /\ disk \in Disks /\ Sound(d) /\ Keeps(d, disk) /\ Names(d) = Names(disk)
  BY DEF OInv, SInv, TypeOK, UpToDate, Kept
<1>2. \A p \in Directories : d[p] = Absent <=> disk[p] = Absent
  BY <1>1 DEF Names
<1>3. \A t \in Transactions : d[Record(t)] = disk[Record(t)]
  BY <1>1, Places DEF Names
<1>4. ~Gone(d, disk)
  BY <1>2, PlacesOf DEF Gone
<1>5. ASSUME NEW p \in Guarded, disk[p] \in Whole
      PROVE  d[p] = disk[p]
  <2>1. d[p] # Absent
    BY <1>2, <1>5, Places, Contents
  <2>2. CASE p = Root
    BY <1>1, <1>4, <1>5, <2>1, <2>2 DEF Keeps
  <2>3. ASSUME NEW t \in Transactions, p \in {Old(t), Rejected(t)}
        PROVE  d[p] = disk[p]
    BY <1>1, <1>5, <2>1, <2>3 DEF Keeps
  <2> QED
    BY <2>2, <2>3, Places
<1> QED
  BY <1>1, <1>2, <1>3, <1>5 DEF Match

-----------------------------------------------------------------------------
(* What the changes leave of Sound.                                         *)

SoundAt(d, t) ==
    /\ d[Old(t)] \in Whole => d[Old(t)] = base[t]
    /\ d[Staging(t)] \in {Absent, Torn, t}
    /\ d[Old(t)] # Absent => d[Record(t)] \in {"OldMoved", "Published"}
    /\ d[Staging(t)] = Torn /\ d[Record(t)] = "Published" =>
          d[Old(t)] = Absent /\ d[Root] # Absent

LEMMA SoundIs ==
    ASSUME NEW d
    PROVE  Sound(d) <=> \A t \in Transactions : SoundAt(d, t)
  BY DEF Sound, SoundAt

LEMMA SoundRecord ==
    ASSUME NEW d \in Disks, NEW t \in Transactions, Sound(d), NEW c \in Phases \cup {Absent},
           d[Old(t)] # Absent => c \in {"OldMoved", "Published"},
           c = "Published" => d[Staging(t)] # Torn
    PROVE  Sound(Put(d, Record(t), c))
<1>1. \A s \in Transactions : SoundAt(d, s)
  BY SoundIs
<1>2. /\ Put(d, Record(t), c)[Record(t)] = c
      /\ \A p \in Directories : Put(d, Record(t), c)[p] = d[p]
      /\ \A s \in Transactions \ {t} : Put(d, Record(t), c)[Record(s)] = d[Record(s)]
  BY PutIs, Places
<1>3. SoundAt(Put(d, Record(t), c), t)
  BY <1>1, <1>2, PlacesOf DEF SoundAt
<1>4. ASSUME NEW s \in Transactions \ {t}
      PROVE  SoundAt(Put(d, Record(t), c), s)
  BY <1>1, <1>2, PlacesOf DEF SoundAt
<1> QED
  BY <1>3, <1>4, SoundIs

LEMMA SoundStaging ==
    ASSUME NEW d \in Disks, NEW t \in Transactions, Sound(d), NEW c \in {Absent, Torn, t},
           c = Torn /\ d[Record(t)] = "Published" => d[Old(t)] = Absent /\ d[Root] # Absent
    PROVE  Sound(Put(d, Staging(t), c))
<1>1. \A s \in Transactions : SoundAt(d, s)
  BY SoundIs
<1>2. /\ Put(d, Staging(t), c)[Staging(t)] = c
      /\ \A p \in Directories \cup Records : p # Staging(t) => Put(d, Staging(t), c)[p] = d[p]
  BY PutIs, PlacesOf
<1>3. SoundAt(Put(d, Staging(t), c), t)
  BY <1>1, <1>2, PlacesOf, Places, Contents DEF SoundAt
<1>4. ASSUME NEW s \in Transactions \ {t}
      PROVE  SoundAt(Put(d, Staging(t), c), s)
  <2>1. /\ Put(d, Staging(t), c)[Old(s)] = d[Old(s)]
        /\ Put(d, Staging(t), c)[Staging(s)] = d[Staging(s)]
        /\ Put(d, Staging(t), c)[Record(s)] = d[Record(s)]
        /\ Put(d, Staging(t), c)[Root] = d[Root]
    BY <1>2, PlacesOf, Places
  <2> QED
    BY <1>1, <2>1 DEF SoundAt
<1> QED
  BY <1>3, <1>4, SoundIs

LEMMA SoundOld ==
    ASSUME NEW d \in Disks, NEW t \in Transactions, Sound(d), NEW c \in {Absent, Torn},
           c = Torn => d[Old(t)] # Absent
    PROVE  Sound(Put(d, Old(t), c))
<1>1. \A s \in Transactions : SoundAt(d, s)
  BY SoundIs
<1>2. /\ Put(d, Old(t), c)[Old(t)] = c
      /\ \A p \in Directories \cup Records : p # Old(t) => Put(d, Old(t), c)[p] = d[p]
  BY PutIs, PlacesOf
<1>3. SoundAt(Put(d, Old(t), c), t)
  <2>1. /\ Put(d, Old(t), c)[Staging(t)] = d[Staging(t)]
        /\ Put(d, Old(t), c)[Record(t)] = d[Record(t)]
        /\ Put(d, Old(t), c)[Root] = d[Root]
    BY <1>2, PlacesOf, Places
  <2> QED
    BY <1>1, <1>2, <2>1, Contents DEF SoundAt
<1>4. ASSUME NEW s \in Transactions \ {t}
      PROVE  SoundAt(Put(d, Old(t), c), s)
  <2>1. /\ Put(d, Old(t), c)[Old(s)] = d[Old(s)]
        /\ Put(d, Old(t), c)[Staging(s)] = d[Staging(s)]
        /\ Put(d, Old(t), c)[Record(s)] = d[Record(s)]
        /\ Put(d, Old(t), c)[Root] = d[Root]
    BY <1>2, PlacesOf, Places
  <2> QED
    BY <1>1, <2>1 DEF SoundAt
<1> QED
  BY <1>3, <1>4, SoundIs

LEMMA SoundRoot ==
    ASSUME NEW d \in Disks, Sound(d), NEW c,
           c # Absent \/ \A t \in Transactions :
                            ~(d[Staging(t)] = Torn /\ d[Record(t)] = "Published")
    PROVE  Sound(Put(d, Root, c))
<1>1. \A s \in Transactions : SoundAt(d, s)
  BY SoundIs
<1>2. /\ Put(d, Root, c)[Root] = c
      /\ \A p \in Directories \cup Records : p # Root => Put(d, Root, c)[p] = d[p]
  BY PutIs, Places
<1>3. ASSUME NEW s \in Transactions
      PROVE  SoundAt(Put(d, Root, c), s)
  <2>1. /\ Put(d, Root, c)[Old(s)] = d[Old(s)]
        /\ Put(d, Root, c)[Staging(s)] = d[Staging(s)]
        /\ Put(d, Root, c)[Record(s)] = d[Record(s)]
    BY <1>2, PlacesOf, Places
  <2> QED
    BY <1>1, <1>2, <2>1 DEF SoundAt
<1> QED
  BY <1>3, SoundIs

\* A move of the root into the old container of its transaction.
LEMMA SoundMoveOld ==
    ASSUME NEW d \in Disks, NEW t \in Transactions, Sound(d),
           d[Root] = base[t], d[Root] # Absent, d[Old(t)] = Absent, d[Record(t)] = "OldMoved",
           \A s \in Transactions \ {t} : d[Record(s)] = Absent
    PROVE  Sound(Move(d, Root, Old(t)))
<1>1. \A s \in Transactions : SoundAt(d, s)
  BY SoundIs
<1>2. /\ Move(d, Root, Old(t))[Root] = Absent /\ Move(d, Root, Old(t))[Old(t)] = base[t]
      /\ \A p \in Directories \cup Records : p \notin {Root, Old(t)} =>
            Move(d, Root, Old(t))[p] = d[p]
  BY MoveIs, PlacesOf
<1>3. SoundAt(Move(d, Root, Old(t)), t)
  <2>1. /\ Move(d, Root, Old(t))[Staging(t)] = d[Staging(t)]
        /\ Move(d, Root, Old(t))[Record(t)] = d[Record(t)]
    BY <1>2, PlacesOf, Places
  <2> QED
    BY <1>1, <1>2, <2>1 DEF SoundAt
<1>4. ASSUME NEW s \in Transactions \ {t}
      PROVE  SoundAt(Move(d, Root, Old(t)), s)
  <2>1. /\ Move(d, Root, Old(t))[Old(s)] = d[Old(s)]
        /\ Move(d, Root, Old(t))[Staging(s)] = d[Staging(s)]
        /\ Move(d, Root, Old(t))[Record(s)] = d[Record(s)]
    BY <1>2, PlacesOf, Places
  <2> QED
    BY <1>1, <2>1, Contents DEF SoundAt, Phases
<1> QED
  BY <1>3, <1>4, SoundIs

\* A move of the new content, or of the old, in the place of the root.
LEMMA SoundMoveIn ==
    ASSUME NEW d \in Disks, NEW t \in Transactions, Sound(d), NEW p \in {Staging(t), Old(t)},
           d[p] # Absent, d[Root] = Absent
    PROVE  Sound(Move(d, p, Root))
<1>1. \A s \in Transactions : SoundAt(d, s)
  BY SoundIs
<1>2. /\ Move(d, p, Root)[p] = Absent /\ Move(d, p, Root)[Root] # Absent
      /\ \A q \in Directories \cup Records : q \notin {p, Root} => Move(d, p, Root)[q] = d[q]
  BY MoveIs, PlacesOf
<1>3. \A s \in Transactions : Move(d, p, Root)[Record(s)] = d[Record(s)]
  BY <1>2, PlacesOf, Places
<1>4. SoundAt(Move(d, p, Root), t)
  <2>1. CASE p = Staging(t)
    <3>1. Move(d, p, Root)[Old(t)] = d[Old(t)]
      BY <1>2, <2>1, PlacesOf
    <3> QED
      BY <1>1, <1>2, <1>3, <2>1, <3>1, Contents DEF SoundAt
  <2>2. CASE p = Old(t)
    <3>1. Move(d, p, Root)[Staging(t)] = d[Staging(t)]
      BY <1>2, <2>2, PlacesOf
    <3> QED
      BY <1>1, <1>2, <1>3, <2>2, <3>1, Contents DEF SoundAt
  <2> QED
    BY <2>1, <2>2
<1>5. ASSUME NEW s \in Transactions \ {t}
      PROVE  SoundAt(Move(d, p, Root), s)
  <2>1. /\ Move(d, p, Root)[Old(s)] = d[Old(s)]
        /\ Move(d, p, Root)[Staging(s)] = d[Staging(s)]
    BY <1>2, PlacesOf
  <2> QED
    BY <1>1, <1>2, <1>3, <2>1 DEF SoundAt
<1> QED
  BY <1>4, <1>5, SoundIs

\* A move of the root out of the way.
LEMMA SoundReject ==
    ASSUME NEW d \in Disks, NEW t \in Transactions, Sound(d), d[Root] # Absent,
           d[Rejected(t)] = Absent, d[Old(t)] # Absent,
           \A s \in Transactions \ {t} : d[Record(s)] = Absent
    PROVE  Sound(Move(d, Root, Rejected(t)))
<1>1. \A s \in Transactions : SoundAt(d, s)
  BY SoundIs
<1>2. /\ Move(d, Root, Rejected(t))[Root] = Absent
      /\ \A p \in Directories \cup Records : p \notin {Root, Rejected(t)} =>
            Move(d, Root, Rejected(t))[p] = d[p]
  BY MoveIs, PlacesOf
<1>3. ASSUME NEW s \in Transactions
      PROVE  SoundAt(Move(d, Root, Rejected(t)), s)
  <2>1. /\ Move(d, Root, Rejected(t))[Old(s)] = d[Old(s)]
        /\ Move(d, Root, Rejected(t))[Staging(s)] = d[Staging(s)]
        /\ Move(d, Root, Rejected(t))[Record(s)] = d[Record(s)]
    BY <1>2, PlacesOf, Places
  <2>2. s # t => d[Record(s)] = Absent
    OBVIOUS
  <2> QED
    BY <1>1, <2>1, <2>2, Contents DEF SoundAt, Phases
<1> QED
  BY <1>3, SoundIs

-----------------------------------------------------------------------------
(* What an earlier state of the disk still has of the disk that changes.    *)

KeepsAt(d, e, t) ==
    /\ e[Root] = Absent /\ d[Root] # Absent /\ e[Old(t)] \in Whole =>
          d[Root] = e[Old(t)] \/ Gone(d, e)
    /\ e[Old(t)] \in Whole /\ d[Old(t)] # Absent => d[Old(t)] = e[Old(t)]
    /\ d[Rejected(t)] # Absent => e[Rejected(t)] # Absent
    /\ d[Rejected(t)] # Absent /\ e[Rejected(t)] \in Whole => d[Rejected(t)] = e[Rejected(t)]
    /\ e[Record(t)] # Absent /\ e[Staging(t)] # Absent => d[Staging(t)] # Absent
KeepsRoot(d, e) ==
    e[Root] \in Whole /\ d[Root] # Absent => d[Root] = e[Root] \/ Gone(d, e)
Found(d, c) == \E q \in Directories : d[q] = c

LEMMA KeepsIs ==
    ASSUME NEW d, NEW e
    PROVE  Keeps(d, e) <=> /\ \A p \in Guarded : e[p] \in Whole => Found(d, e[p])
                           /\ KeepsRoot(d, e)
                           /\ \A t \in Transactions : KeepsAt(d, e, t)
  BY DEF Keeps, KeepsAt, KeepsRoot, Found

\* Nothing that is gone comes back but what has been made anew.
LEMMA GoneStays ==
    ASSUME NEW d, NEW e, NEW f, Gone(d, e),
           \A s \in Transactions :
              /\ d[Staging(s)] # Absent /\ e[Staging(s)] = Absent => f[Staging(s)] = Absent
              /\ e[Rejected(s)] # Absent => f[Rejected(s)] # Absent
    PROVE  Gone(d, f)
  BY DEF Gone

LEMMA KeepsRecord ==
    ASSUME NEW d \in Disks, NEW e \in Disks, NEW t \in Transactions, Keeps(d, e),
           NEW c, c # Absent => d[Staging(t)] # Absent
    PROVE  Keeps(d, Put(e, Record(t), c))
<1> DEFINE f == Put(e, Record(t), c)
<1>1. /\ \A p \in Guarded : e[p] \in Whole => Found(d, e[p])
      /\ KeepsRoot(d, e)
      /\ \A s \in Transactions : KeepsAt(d, e, s)
  BY KeepsIs
<1>2. \A q \in Directories \cup Records : q # Record(t) => f[q] = e[q]
  BY PutIs, PlacesOf
<1>3. /\ f[Root] = e[Root] /\ f[Staging(t)] = e[Staging(t)] /\ f[Old(t)] = e[Old(t)]
      /\ f[Rejected(t)] = e[Rejected(t)]
  BY <1>2, PlacesOf, Places
<1>4. \A s \in Transactions \ {t} :
        /\ f[Staging(s)] = e[Staging(s)] /\ f[Old(s)] = e[Old(s)]
        /\ f[Rejected(s)] = e[Rejected(s)] /\ f[Record(s)] = e[Record(s)]
  BY <1>2, PlacesOf, Places
<1> HIDE DEF f
<1>5. Gone(d, e) => Gone(d, f)
  <2>1. \A s \in Transactions :
           /\ d[Staging(s)] # Absent /\ e[Staging(s)] = Absent => f[Staging(s)] = Absent
           /\ e[Rejected(s)] # Absent => f[Rejected(s)] # Absent
    BY <1>3, <1>4
  <2> QED
    BY <2>1, GoneStays
<1>6. ASSUME NEW p \in Guarded, f[p] \in Whole
      PROVE  Found(d, f[p])
  BY <1>1, <1>2, <1>6, PlacesOf, Places, Contents
<1>7. KeepsRoot(d, f)
  BY <1>1, <1>3, <1>5, Contents DEF KeepsRoot
<1>8. KeepsAt(d, f, t)
  <2>1. f[Record(t)] # Absent => d[Staging(t)] # Absent
    BY PutIs, PlacesOf DEF f
  <2> QED
    BY <1>1, <1>3, <1>5, <2>1 DEF KeepsAt
<1>9. ASSUME NEW s \in Transactions \ {t}
      PROVE  KeepsAt(d, f, s)
  BY <1>1, <1>3, <1>4, <1>5, Contents DEF KeepsAt
<1> QED
  BY <1>6, <1>7, <1>8, <1>9, KeepsIs DEF f

LEMMA KeepsStaging ==
    ASSUME NEW d \in Disks, NEW e \in Disks, NEW t \in Transactions, Keeps(d, e),
           NEW c,
           \/ c = Absent \/ e[Staging(t)] # Absent
           \/ d[Staging(t)] = Absent /\ e[Record(t)] = Absent
    PROVE  Keeps(d, Put(e, Staging(t), c))
<1> DEFINE f == Put(e, Staging(t), c)
<1>1. /\ \A p \in Guarded : e[p] \in Whole => Found(d, e[p])
      /\ KeepsRoot(d, e)
      /\ \A s \in Transactions : KeepsAt(d, e, s)
  BY KeepsIs
<1>2. /\ f[Staging(t)] = c
      /\ \A q \in Directories \cup Records : q # Staging(t) => f[q] = e[q]
  BY PutIs, PlacesOf
<1>3. /\ f[Root] = e[Root] /\ f[Old(t)] = e[Old(t)] /\ f[Rejected(t)] = e[Rejected(t)]
      /\ f[Record(t)] = e[Record(t)] /\ f[Staging(t)] = c
  BY <1>2, PlacesOf, Places
<1>4. \A s \in Transactions \ {t} :
        /\ f[Staging(s)] = e[Staging(s)] /\ f[Old(s)] = e[Old(s)]
        /\ f[Rejected(s)] = e[Rejected(s)] /\ f[Record(s)] = e[Record(s)]
  BY <1>2, PlacesOf, Places
<1> HIDE DEF f
<1>5. Gone(d, e) => Gone(d, f)
  <2>1. \A s \in Transactions :
           /\ d[Staging(s)] # Absent /\ e[Staging(s)] = Absent => f[Staging(s)] = Absent
           /\ e[Rejected(s)] # Absent => f[Rejected(s)] # Absent
    BY <1>3, <1>4
  <2> QED
    BY <2>1, GoneStays
<1>6. ASSUME NEW p \in Guarded, f[p] \in Whole
      PROVE  Found(d, f[p])
  BY <1>1, <1>2, <1>6, PlacesOf, Places, Contents
<1>7. KeepsRoot(d, f)
  BY <1>1, <1>3, <1>5, Contents DEF KeepsRoot
<1>8. KeepsAt(d, f, t)
  BY <1>1, <1>3, <1>5, Contents DEF KeepsAt
<1>9. ASSUME NEW s \in Transactions \ {t}
      PROVE  KeepsAt(d, f, s)
  BY <1>1, <1>3, <1>4, <1>5, Contents DEF KeepsAt
<1> QED
  BY <1>6, <1>7, <1>8, <1>9, KeepsIs DEF f

LEMMA KeepsOld ==
    ASSUME NEW d \in Disks, NEW e \in Disks, NEW t \in Transactions, Keeps(d, e),
           NEW c \in {Torn, Absent}
    PROVE  Keeps(d, Put(e, Old(t), c))
<1> DEFINE f == Put(e, Old(t), c)
<1>1. /\ \A p \in Guarded : e[p] \in Whole => Found(d, e[p])
      /\ KeepsRoot(d, e)
      /\ \A s \in Transactions : KeepsAt(d, e, s)
  BY KeepsIs
<1>2. /\ f[Old(t)] = c
      /\ \A q \in Directories \cup Records : q # Old(t) => f[q] = e[q]
  BY PutIs, PlacesOf
<1>3. /\ f[Root] = e[Root] /\ f[Staging(t)] = e[Staging(t)] /\ f[Rejected(t)] = e[Rejected(t)]
      /\ f[Record(t)] = e[Record(t)] /\ f[Old(t)] = c
  BY <1>2, PlacesOf, Places
<1>4. \A s \in Transactions \ {t} :
        /\ f[Staging(s)] = e[Staging(s)] /\ f[Old(s)] = e[Old(s)]
        /\ f[Rejected(s)] = e[Rejected(s)] /\ f[Record(s)] = e[Record(s)]
  BY <1>2, PlacesOf, Places
<1> HIDE DEF f
<1>5. Gone(d, e) => Gone(d, f)
  <2>1. \A s \in Transactions :
           /\ d[Staging(s)] # Absent /\ e[Staging(s)] = Absent => f[Staging(s)] = Absent
           /\ e[Rejected(s)] # Absent => f[Rejected(s)] # Absent
    BY <1>3, <1>4
  <2> QED
    BY <2>1, GoneStays
<1>6. ASSUME NEW p \in Guarded, f[p] \in Whole
      PROVE  Found(d, f[p])
  BY <1>1, <1>2, <1>6, PlacesOf, Places, Contents
<1>7. KeepsRoot(d, f)
  BY <1>1, <1>3, <1>5, Contents DEF KeepsRoot
<1>8. KeepsAt(d, f, t)
  BY <1>1, <1>3, <1>5, Contents DEF KeepsAt
<1>9. ASSUME NEW s \in Transactions \ {t}
      PROVE  KeepsAt(d, f, s)
  BY <1>1, <1>3, <1>4, <1>5, Contents DEF KeepsAt
<1> QED
  BY <1>6, <1>7, <1>8, <1>9, KeepsIs DEF f

\* The root goes into the old container: what an earlier disk has in its root
\* may be that.
LEMMA KeepsMoveOld ==
    ASSUME NEW d \in Disks, NEW e \in Disks, NEW t \in Transactions, Keeps(d, e),
           e[Root] # Absent, e[Old(t)] = Absent, d[Old(t)] = Absent,
           \A s \in Transactions \ {t} : e[Old(s)] = Absent
    PROVE  Keeps(d, Move(e, Root, Old(t)))
<1> DEFINE f == Move(e, Root, Old(t))
<1>1. /\ \A p \in Guarded : e[p] \in Whole => Found(d, e[p])
      /\ KeepsRoot(d, e)
      /\ \A s \in Transactions : KeepsAt(d, e, s)
  BY KeepsIs
<1>2. /\ f[Root] = Absent /\ f[Old(t)] = e[Root]
      /\ \A q \in Directories \cup Records : q \notin {Root, Old(t)} => f[q] = e[q]
  <2>1. Root \in Directories /\ Old(t) \in Directories /\ Root # Old(t)
    BY PlacesOf
  <2> QED
    BY <2>1, MoveIs
<1>3. /\ f[Root] = Absent /\ f[Old(t)] = e[Root] /\ f[Staging(t)] = e[Staging(t)]
      /\ f[Rejected(t)] = e[Rejected(t)] /\ f[Record(t)] = e[Record(t)]
  BY <1>2, PlacesOf, Places
<1>4. \A s \in Transactions \ {t} :
        /\ f[Staging(s)] = e[Staging(s)] /\ f[Old(s)] = e[Old(s)]
        /\ f[Rejected(s)] = e[Rejected(s)] /\ f[Record(s)] = e[Record(s)]
  BY <1>2, PlacesOf, Places
<1> HIDE DEF f
<1>5. Gone(d, e) => Gone(d, f)
  <2>1. \A s \in Transactions :
           /\ d[Staging(s)] # Absent /\ e[Staging(s)] = Absent => f[Staging(s)] = Absent
           /\ e[Rejected(s)] # Absent => f[Rejected(s)] # Absent
    BY <1>3, <1>4
  <2> QED
    BY <2>1, GoneStays
<1>6. ASSUME NEW p \in Guarded, f[p] \in Whole
      PROVE  Found(d, f[p])
  BY <1>1, <1>2, <1>6, PlacesOf, Places, Contents
<1>7. KeepsRoot(d, f)
  BY <1>1, <1>3, <1>5, Contents DEF KeepsRoot
<1>8. KeepsAt(d, f, t)
  BY <1>1, <1>3, <1>5, Contents DEF KeepsAt, KeepsRoot
<1>9. ASSUME NEW s \in Transactions \ {t}
      PROVE  KeepsAt(d, f, s)
  BY <1>1, <1>3, <1>4, <1>5, Contents DEF KeepsAt
<1> QED
  BY <1>6, <1>7, <1>8, <1>9, KeepsIs DEF f

\* The new content goes into the place of the root: an earlier disk has it in
\* its staging container, and has a root that may be another.
LEMMA KeepsPublish ==
    ASSUME NEW d \in Disks, NEW e \in Disks, NEW t \in Transactions, Keeps(d, e),
           e[Root] = Absent, e[Staging(t)] = t, d[Staging(t)] = t
    PROVE  Keeps(d, Move(e, Staging(t), Root))
<1> DEFINE f == Move(e, Staging(t), Root)
<1>1. /\ \A p \in Guarded : e[p] \in Whole => Found(d, e[p])
      /\ KeepsRoot(d, e)
      /\ \A s \in Transactions : KeepsAt(d, e, s)
  BY KeepsIs
<1>2. /\ f[Staging(t)] = Absent /\ f[Root] = e[Staging(t)]
      /\ \A q \in Directories \cup Records : q \notin {Staging(t), Root} => f[q] = e[q]
  BY MoveIs, PlacesOf, Contents
<1>3. /\ f[Staging(t)] = Absent /\ f[Root] = t /\ f[Old(t)] = e[Old(t)]
      /\ f[Rejected(t)] = e[Rejected(t)] /\ f[Record(t)] = e[Record(t)]
  BY <1>2, PlacesOf, Places
<1>4. \A s \in Transactions \ {t} :
        /\ f[Staging(s)] = e[Staging(s)] /\ f[Old(s)] = e[Old(s)]
        /\ f[Rejected(s)] = e[Rejected(s)] /\ f[Record(s)] = e[Record(s)]
  BY <1>2, PlacesOf, Places
<1> HIDE DEF f
<1>5. Gone(d, e) => Gone(d, f)
  <2>1. \A s \in Transactions :
           /\ d[Staging(s)] # Absent /\ e[Staging(s)] = Absent => f[Staging(s)] = Absent
           /\ e[Rejected(s)] # Absent => f[Rejected(s)] # Absent
    BY <1>3, <1>4
  <2> QED
    BY <2>1, GoneStays
<1>6. ASSUME NEW p \in Guarded, f[p] \in Whole
      PROVE  Found(d, f[p])
  <2>1. CASE p = Root
    BY <1>3, <2>1, PlacesOf DEF Found
  <2>2. CASE p # Root
    <3>1. f[p] = e[p]
      BY <1>2, <2>2, PlacesOf, Places
    <3> QED
      BY <1>1, <1>6, <3>1
  <2> QED
    BY <2>1, <2>2
<1>7. KeepsRoot(d, f)
  <2>1. Gone(d, f)
    BY <1>3, Contents DEF Gone
  <2> QED
    BY <2>1 DEF KeepsRoot
<1>8. KeepsAt(d, f, t)
  BY <1>1, <1>3, <1>5, Contents DEF KeepsAt
<1>9. ASSUME NEW s \in Transactions \ {t}
      PROVE  KeepsAt(d, f, s)
  BY <1>1, <1>3, <1>4, <1>5, Contents DEF KeepsAt
<1> QED
  BY <1>6, <1>7, <1>8, <1>9, KeepsIs DEF f

\* The old content comes back.
LEMMA KeepsRestore ==
    ASSUME NEW d \in Disks, NEW e \in Disks, NEW t \in Transactions, Keeps(d, e),
           e[Root] = Absent, e[Old(t)] # Absent
    PROVE  Keeps(d, Move(e, Old(t), Root))
<1> DEFINE f == Move(e, Old(t), Root)
<1>1. /\ \A p \in Guarded : e[p] \in Whole => Found(d, e[p])
      /\ KeepsRoot(d, e)
      /\ \A s \in Transactions : KeepsAt(d, e, s)
  BY KeepsIs
<1>2. /\ f[Old(t)] = Absent /\ f[Root] = e[Old(t)]
      /\ \A q \in Directories \cup Records : q \notin {Old(t), Root} => f[q] = e[q]
  <2>1. Old(t) \in Directories /\ Root \in Directories /\ Old(t) # Root
    BY PlacesOf
  <2> QED
    BY <2>1, MoveIs
<1>3. /\ f[Old(t)] = Absent /\ f[Root] = e[Old(t)] /\ f[Staging(t)] = e[Staging(t)]
      /\ f[Rejected(t)] = e[Rejected(t)] /\ f[Record(t)] = e[Record(t)]
  BY <1>2, PlacesOf, Places
<1>4. \A s \in Transactions \ {t} :
        /\ f[Staging(s)] = e[Staging(s)] /\ f[Old(s)] = e[Old(s)]
        /\ f[Rejected(s)] = e[Rejected(s)] /\ f[Record(s)] = e[Record(s)]
  BY <1>2, PlacesOf, Places
<1> HIDE DEF f
<1>5. Gone(d, e) => Gone(d, f)
  <2>1. \A s \in Transactions :
           /\ d[Staging(s)] # Absent /\ e[Staging(s)] = Absent => f[Staging(s)] = Absent
           /\ e[Rejected(s)] # Absent => f[Rejected(s)] # Absent
    BY <1>3, <1>4
  <2> QED
    BY <2>1, GoneStays
<1>6. ASSUME NEW p \in Guarded, f[p] \in Whole
      PROVE  Found(d, f[p])
  BY <1>1, <1>2, <1>6, PlacesOf, Places, Contents
<1>7. KeepsRoot(d, f)
  BY <1>1, <1>3, <1>5, Contents DEF KeepsRoot, KeepsAt
<1>8. KeepsAt(d, f, t)
  BY <1>1, <1>3, <1>5, Contents DEF KeepsAt
<1>9. ASSUME NEW s \in Transactions \ {t}
      PROVE  KeepsAt(d, f, s)
  BY <1>1, <1>3, <1>4, <1>5, Contents DEF KeepsAt
<1> QED
  BY <1>6, <1>7, <1>8, <1>9, KeepsIs DEF f

\* The root goes out of the way: no earlier disk has anything there.
LEMMA KeepsReject ==
    ASSUME NEW d \in Disks, NEW e \in Disks, NEW t \in Transactions, Keeps(d, e),
           e[Root] # Absent, e[Rejected(t)] = Absent
    PROVE  Keeps(d, Move(e, Root, Rejected(t)))
<1> DEFINE f == Move(e, Root, Rejected(t))
<1>1. /\ \A p \in Guarded : e[p] \in Whole => Found(d, e[p])
      /\ KeepsRoot(d, e)
      /\ \A s \in Transactions : KeepsAt(d, e, s)
  BY KeepsIs
<1>2. /\ f[Root] = Absent /\ f[Rejected(t)] = e[Root]
      /\ \A q \in Directories \cup Records : q \notin {Root, Rejected(t)} => f[q] = e[q]
  <2>1. Root \in Directories /\ Rejected(t) \in Directories /\ Root # Rejected(t)
    BY PlacesOf
  <2> QED
    BY <2>1, MoveIs
<1>3. /\ f[Root] = Absent /\ f[Rejected(t)] = e[Root] /\ f[Staging(t)] = e[Staging(t)]
      /\ f[Old(t)] = e[Old(t)] /\ f[Record(t)] = e[Record(t)]
  BY <1>2, PlacesOf, Places
<1>4. \A s \in Transactions \ {t} :
        /\ f[Staging(s)] = e[Staging(s)] /\ f[Old(s)] = e[Old(s)]
        /\ f[Rejected(s)] = e[Rejected(s)] /\ f[Record(s)] = e[Record(s)]
  BY <1>2, PlacesOf, Places
<1> HIDE DEF f
<1>5. Gone(d, e) => Gone(d, f)
  <2>1. \A s \in Transactions :
           /\ d[Staging(s)] # Absent /\ e[Staging(s)] = Absent => f[Staging(s)] = Absent
           /\ e[Rejected(s)] # Absent => f[Rejected(s)] # Absent
    BY <1>3, <1>4
  <2> QED
    BY <2>1, GoneStays
<1>6. ASSUME NEW p \in Guarded, f[p] \in Whole
      PROVE  Found(d, f[p])
  BY <1>1, <1>2, <1>6, PlacesOf, Places, Contents
<1>10. Gone(d, f)
  <2>1. d[Rejected(t)] = Absent
    BY <1>1 DEF KeepsAt
  <2> QED
    BY <1>3, <2>1 DEF Gone
<1>7. KeepsRoot(d, f)
  BY <1>1, <1>3, <1>5, Contents DEF KeepsRoot
<1>8. KeepsAt(d, f, t)
  BY <1>1, <1>3, <1>5, <1>10, Contents DEF KeepsAt
<1>9. ASSUME NEW s \in Transactions \ {t}
      PROVE  KeepsAt(d, f, s)
  BY <1>1, <1>3, <1>4, <1>5, <1>10, Contents DEF KeepsAt
<1> QED
  BY <1>6, <1>7, <1>8, <1>9, KeepsIs DEF f

\* The files of a staging container become durable.
LEMMA KeepsSynced ==
    ASSUME NEW d \in Disks, NEW e \in Disks, NEW t \in Transactions, Keeps(d, e),
           d[Staging(t)] \in {Torn, t}
    PROVE  Keeps(Put(d, Staging(t), t), e)
<1> DEFINE f == Put(d, Staging(t), t)
<1>1. /\ \A p \in Guarded : e[p] \in Whole => Found(d, e[p])
      /\ KeepsRoot(d, e)
      /\ \A s \in Transactions : KeepsAt(d, e, s)
  BY KeepsIs
<1>2. /\ f[Staging(t)] = t
      /\ \A q \in Directories \cup Records : q # Staging(t) => f[q] = d[q]
  BY PutIs, PlacesOf
<1>3. /\ f[Root] = d[Root]
      /\ \A s \in Transactions : f[Old(s)] = d[Old(s)] /\ f[Rejected(s)] = d[Rejected(s)]
      /\ \A s \in Transactions : f[Staging(s)] # Absent <=> d[Staging(s)] # Absent
  BY <1>2, PlacesOf, Places, Contents
<1> HIDE DEF f
<1>4. Gone(d, e) => Gone(f, e)
  BY <1>3 DEF Gone
<1>5. ASSUME NEW p \in Guarded, e[p] \in Whole
      PROVE  Found(f, e[p])
  <2>1. PICK q \in Directories : d[q] = e[p]
    BY <1>1, <1>5 DEF Found
  <2>2. f[q] = d[q]
    BY <1>2, <1>5, <2>1, Contents
  <2> QED
    BY <2>1, <2>2 DEF Found
<1>6. KeepsRoot(f, e)
  BY <1>1, <1>3, <1>4 DEF KeepsRoot
<1>7. ASSUME NEW s \in Transactions
      PROVE  KeepsAt(f, e, s)
  BY <1>1, <1>3, <1>4 DEF KeepsAt
<1> QED
  BY <1>5, <1>6, <1>7, KeepsIs DEF f

-----------------------------------------------------------------------------
(* Every change leaves disks that are sound and keep what the disk has.     *)

Good(d) == Sound(d) /\ Keeps(d, disk')

LEMMA GoodPuts ==
    ASSUME OInv, NEW p \in Directories \cup Records, NEW c, Puts(p, c), disk' \in Disks,
           \A d \in after' : d \in Disks,
           \A d \in UpToDate : Sound(Put(d, p, c)),
           \A d \in after : Keeps(d, Put(disk, p, c))
    PROVE  \A d \in after' : Good(d)
<1>1. ASSUME NEW d \in UpToDate
      PROVE  Good(Put(d, p, c))
  <2>1. Match(Put(d, p, c), disk')
    BY UpToDateIs, MatchPut DEF Puts
  <2>2. Put(d, p, c) \in Disks
    BY DEF Puts
  <2> QED
    BY <2>1, <2>2, MatchKeeps DEF Good
<1> QED
  BY <1>1 DEF Puts, Good, OInv, Kept

LEMMA GoodTears ==
    ASSUME OInv, NEW p \in Directories, Tears(p), disk' \in Disks, disk[p] # Absent,
           \A d \in after' : d \in Disks,
           \A d \in UpToDate : Sound(Put(d, p, Torn)),
           \A d \in after : Keeps(d, Put(disk, p, Torn))
    PROVE  \A d \in after' : Good(d)
<1>1. ASSUME NEW d \in UpToDate
      PROVE  Good(Tear(d, p))
  <2>1. Match(Tear(d, p), disk')
    BY UpToDateIs, MatchTear DEF Tears
  <2>2. Tear(d, p) \in Disks
    BY DEF Tears
  <2>3. Sound(Tear(d, p))
    BY UpToDateIs DEF Match, Tear, Put
  <2> QED
    BY <2>1, <2>2, <2>3, MatchKeeps DEF Good
<1>2. disk' = Put(disk, p, Torn)
  BY DEF Tears, Tear, Put
<1> QED
  BY <1>1, <1>2 DEF Tears, Good, OInv, Kept

LEMMA GoodMoves ==
    ASSUME OInv, NEW p \in Directories, NEW q \in Directories, p # q, Moves(p, q), disk' \in Disks,
           \A d \in after' : d \in Disks,
           \A d \in UpToDate : disk[p] \in Whole => d[p] = disk[p],
           \A d \in UpToDate : Sound(Move(d, p, q)),
           \A d \in after : Keeps(d, Move(disk, p, q))
    PROVE  \A d \in after' : Good(d)
<1>1. ASSUME NEW d \in UpToDate
      PROVE  Good(Move(d, p, q))
  <2>1. Match(Move(d, p, q), disk')
    BY UpToDateIs, MatchMove DEF Moves
  <2>2. Move(d, p, q) \in Disks
    BY DEF Moves
  <2> QED
    BY <2>1, <2>2, MatchKeeps DEF Good
<1> QED
  BY <1>1 DEF Moves, Good, OInv, Kept

LEMMA GoodStep ==
    ASSUME OInv, Changes
    PROVE  \A d \in after' : Good(d)
<1>0. /\ disk \in Disks /\ disk \in after /\ \A d \in after : d \in Disks
      /\ \A d \in after : Sound(d) /\ Keeps(d, disk)
      /\ FreshOK /\ StepOK /\ TypeOK /\ Tx /\ RecordsOK
      /\ UpToDate \subseteq after
  BY DEF OInv, SInv, TypeOK, Kept, Tx, UpToDate
<1>00. disk' \in Disks /\ disk' \in after' /\ \A d \in after' : d \in Disks
  BY <1>0, DisksStep
<1>1. CASE Same \/ SyncParent
  BY <1>0, <1>1 DEF Same, SyncParent, Good
<1>2. CASE Settles
  <2>1. Match(disk', disk')
    BY DEF Match
  <2>2. Keeps(disk', disk')
    BY <1>00, <2>1, MatchKeeps
  <2> QED
    BY <1>0, <1>2, <2>2 DEF Settles, Good
<1>3. CASE Marks
  <2>1. tx \in Transactions /\ Record(tx) \in Directories \cup Records
    BY <1>0, <1>3, Places DEF Marks, Tx, About, Steps, Precommit, Commit, Recovery
  <2>2. PICK c \in Phases \cup {Absent} :
           /\ Puts(Record(tx), c)
           /\ \/ c = "Prepared" /\ pc = "prepare"
              \/ c = "OldMoved" /\ pc = "oldMoved"
              \/ c = "Published" /\ pc = "published"
              \/ c = Absent /\ pc \in {"finalRecord", "dropRecord", "abortRecord"}
    BY <1>3 DEF Marks, Phases
  <2>3. ASSUME NEW d \in UpToDate
        PROVE  Sound(Put(d, Record(tx), c))
    <3>1. d \in after /\ d \in Disks /\ Sound(d) /\ Match(d, disk)
      BY UpToDateIs
    <3>2. d[Old(tx)] # Absent => c \in {"OldMoved", "Published"}
      <4>1. c = "Prepared" => d[Old(tx)] = Absent
        BY <1>0, <2>2, <3>1, Contents DEF FreshOK, Unmoved, Phases
      <4>2. c = Absent => d[Old(tx)] = Absent
        BY <1>0, <2>1, <2>2, <3>1, PlacesOf, Contents DEF StepOK, Emptied, Aborting, Match, Phases
      <4> QED
        BY <4>1, <4>2 DEF Phases
    <3>3. c = "Published" => d[Staging(tx)] # Torn
      <4>1. c = "Published" => d[Staging(tx)] = tx
        BY <1>0, <2>2, <3>1, Contents DEF StepOK, Written, Phases
      <4> QED
        BY <2>1, <4>1, Contents
    <3> QED
      BY <2>1, <3>1, <3>2, <3>3, SoundRecord
  <2>4. \A d \in after : Keeps(d, Put(disk, Record(tx), c))
    <3>1. c # Absent => \A d \in after : d[Staging(tx)] # Absent
      BY <1>0, <2>2 DEF StepOK, Staged
    <3> QED
      BY <1>0, <2>1, <3>1, KeepsRecord
  <2> QED
    BY <1>00, <2>1, <2>2, <2>3, <2>4, GoodPuts
<1>4. CASE pc \in {"syncTree", "complete"} /\ SyncTree(Staging(tx))
  <2>1. tx \in Transactions
    BY <1>0, <1>4 DEF Tx, About, Steps, Precommit, Recovery
  <2>2. disk[Staging(tx)] = tx
    <3>1. CASE pc = "syncTree"
      BY <1>0, <3>1 DEF StepOK
    <3>2. CASE pc = "complete"
      <4>1. disk[Staging(tx)] # Absent /\ disk[Record(tx)] = "Published" /\ disk[Old(tx)] # Absent
        BY <1>0, <3>2 DEF StepOK
      <4>2. SoundAt(disk, tx)
        BY <1>0, <2>1, SoundIs
      <4> QED
        BY <4>1, <4>2 DEF SoundAt
    <3> QED
      BY <1>4, <3>1, <3>2
  <2>3. ASSUME NEW d \in after, d[Staging(tx)] # Absent
        PROVE  Sound(Put(d, Staging(tx), tx)) /\ Keeps(Put(d, Staging(tx), tx), disk)
    <3>1. d \in Disks /\ Sound(d) /\ Keeps(d, disk)
      BY <1>0
    <3>2. d[Staging(tx)] \in {Torn, tx}
      BY <2>1, <2>3, <3>1 DEF Sound
    <3>3. Sound(Put(d, Staging(tx), tx))
      BY <2>1, <3>1, Contents, SoundStaging
    <3> QED
      BY <1>0, <2>1, <3>1, <3>2, <3>3, KeepsSynced
  <2> QED
    BY <1>0, <1>4, <2>2, <2>3 DEF SyncTree, Good
<1>5. CASE pc = "create" /\ Puts(Staging(tx), Torn)
  <2>1. tx \in Transactions /\ Staging(tx) \in Directories \cup Records /\ Fresh(tx)
    BY <1>0, <1>5, Places DEF Tx, About, Steps, FreshOK, Early
  <2>2. ASSUME NEW d \in UpToDate
        PROVE  Sound(Put(d, Staging(tx), Torn))
    <3>1. d[Record(tx)] # "Published"
      BY <1>0, <2>1, Contents DEF Fresh, Phases
    <3> QED
      BY <2>1, <3>1, UpToDateIs, SoundStaging
  <2>3. \A d \in after : Keeps(d, Put(disk, Staging(tx), Torn))
    BY <1>0, <2>1, KeepsStaging DEF Fresh
  <2> QED
    BY <1>00, <1>5, <2>1, <2>2, <2>3, GoodPuts
<1>6. CASE pc = "write" /\ Writes
  <2>1. tx \in Transactions /\ Staging(tx) \in Directories \cup Records
    BY <1>0, <1>6, Places DEF Tx, About, Steps, Precommit
  <2>2. disk[Staging(tx)] # Absent /\ disk[Record(tx)] # "Published"
    BY <1>0, <1>6 DEF StepOK, Staged, Unpublished, Unmoved, Early
  <2>3. \A d \in after : Keeps(d, disk')
    BY <1>0, <1>6, <2>1, <2>2, KeepsStaging DEF Writes
  <2>4. ASSUME NEW c \in {tx, Torn}
        PROVE  Good(Put(disk, Staging(tx), c))
    <3>1. Sound(Put(disk, Staging(tx), c))
      BY <1>0, <2>1, <2>2, SoundStaging
    <3>2. Put(disk, Staging(tx), c) \in after'
      BY <1>6, <2>4 DEF Writes
    <3>3. Match(Put(disk, Staging(tx), c), disk')
      <4>1. /\ disk'[Staging(tx)] = tx /\ Put(disk, Staging(tx), c)[Staging(tx)] = c
            /\ \A q \in Directories \cup Records : q # Staging(tx) =>
                  disk'[q] = disk[q] /\ Put(disk, Staging(tx), c)[q] = disk[q]
        BY <1>0, <1>6, <2>1, PutIs DEF Writes
      <4> QED
        BY <2>1, <4>1, PlacesOf, Places, Contents DEF Match
    <3> QED
      BY <1>00, <3>1, <3>2, <3>3, MatchKeeps DEF Good
  <2> QED
    BY <1>0, <1>6, <2>3, <2>4 DEF Writes, Good
<1>7. CASE pc \in {"abort", "dropStaging"} /\ Removes(Staging(tx))
  <2>1. tx \in Transactions /\ Staging(tx) \in Directories
    BY <1>0, <1>7, Places DEF Tx, About, Steps, Recovery
  <2>2. ASSUME NEW d \in UpToDate, NEW c \in {Absent, Torn}
        PROVE  Sound(Put(d, Staging(tx), c))
    <3>1. d \in Disks /\ Sound(d) /\ Match(d, disk)
      BY UpToDateIs
    <3>2. d[Record(tx)] = "Published" => d[Old(tx)] = Absent /\ d[Root] # Absent
      <4>1. disk[Record(tx)] = "Published" => disk[Old(tx)] = Absent /\ disk[Root] # Absent
        BY <1>0, <1>7 DEF StepOK, Unpublished, Aborting, Emptied
      <4> QED
        BY <2>1, <3>1, <4>1, PlacesOf DEF Match
    <3> QED
      BY <2>1, <3>1, <3>2, SoundStaging
  <2>3. \A c \in {Absent, Torn} : c = Absent \/ disk[Staging(tx)] # Absent =>
           \A d \in after : Keeps(d, Put(disk, Staging(tx), c))
    BY <1>0, <2>1, KeepsStaging
  <2>4. CASE disk[Staging(tx)] \in Whole /\ Tears(Staging(tx))
    BY <1>00, <2>1, <2>2, <2>3, <2>4, GoodTears, Contents
  <2>5. CASE Puts(Staging(tx), Absent)
    BY <1>00, <2>1, <2>2, <2>3, <2>5, GoodPuts
  <2> QED
    BY <1>7, <2>4, <2>5 DEF Removes
<1>8. CASE pc \in {"finalOld", "dropOld"} /\ Removes(Old(tx))
  <2>1. tx \in Transactions /\ Old(tx) \in Directories
    BY <1>0, <1>8, Places DEF Tx, About, Steps, Commit, Recovery
  <2>2. ASSUME NEW d \in UpToDate, NEW c \in {Absent, Torn}, c = Torn => disk[Old(tx)] # Absent
        PROVE  Sound(Put(d, Old(tx), c))
    BY <2>1, <2>2, UpToDateIs, SoundOld DEF Match
  <2>3. \A c \in {Absent, Torn}, d \in after : Keeps(d, Put(disk, Old(tx), c))
    BY <1>0, <2>1, KeepsOld
  <2>4. CASE disk[Old(tx)] \in Whole /\ Tears(Old(tx))
    BY <1>00, <2>1, <2>2, <2>3, <2>4, GoodTears, Contents
  <2>5. CASE Puts(Old(tx), Absent)
    BY <1>00, <2>1, <2>2, <2>3, <2>5, GoodPuts, Contents
  <2> QED
    BY <1>8, <2>4, <2>5 DEF Removes
<1>9. CASE pc = "moveOld" /\ Moves(Root, Old(tx))
  <2>1. tx \in Transactions /\ Old(tx) \in Directories /\ Root \in Directories /\ Root # Old(tx)
    BY <1>0, <1>9, PlacesOf DEF Tx, About, Steps, Commit
  <2>2. /\ disk[Root] = base[tx] /\ disk[Root] # Absent /\ disk[Old(tx)] = Absent
        /\ disk[Record(tx)] = "OldMoved" /\ \A d \in after : d[Old(tx)] = Absent
        /\ \A d \in after, s \in Transactions \ {tx} : d[Record(s)] = Absent
    BY <1>0, <1>9 DEF StepOK, Unseen, Moves, FreshOK, Unmoved, RecordsOK, OnlyOf, Staged
  <2>3. disk[Root] \in Whole
    BY <1>0, <2>1, <2>2 DEF TypeOK
  <2>4. \A d \in UpToDate : d[Root] = disk[Root]
    BY <2>3, UpToDateIs, Places DEF Match
  <2>5. \A d \in UpToDate : Sound(Move(d, Root, Old(tx)))
    BY <1>0, <2>1, <2>2, <2>4, UpToDateIs, SoundMoveOld DEF Match
  <2>6. \A s \in Transactions \ {tx} : disk[Old(s)] = Absent
    BY <1>0, <2>2, Contents DEF Sound, Phases
  <2>7. \A d \in after : Keeps(d, Move(disk, Root, Old(tx)))
    BY <1>0, <2>1, <2>2, <2>6, KeepsMoveOld
  <2> QED
    BY <1>00, <1>9, <2>1, <2>4, <2>5, <2>7, GoodMoves
<1>10. CASE pc \in {"publish", "completeMove"} /\ Moves(Staging(tx), Root)
  <2>1. tx \in Transactions /\ Staging(tx) \in Directories /\ Root \in Directories /\ Root # Staging(tx)
    BY <1>0, <1>10, PlacesOf DEF Tx, About, Steps, Commit, Recovery
  <2>2. \A d \in after : d[Staging(tx)] = tx
    BY <1>0, <1>10 DEF StepOK, Written
  <2>3. disk[Root] = Absent /\ tx # Absent
    BY <1>10, <2>1, Contents DEF Moves
  <2>4. \A d \in UpToDate : Sound(Move(d, Staging(tx), Root))
    BY <1>0, <2>1, <2>2, <2>3, UpToDateIs, SoundMoveIn DEF Match
  <2>5. \A d \in after : Keeps(d, Move(disk, Staging(tx), Root))
    BY <1>0, <2>1, <2>2, <2>3, KeepsPublish
  <2> QED
    BY <1>0, <1>00, <1>10, <2>1, <2>2, <2>4, <2>5, GoodMoves
<1>11. CASE pc = "restore" /\ Moves(Old(tx), Root)
  <2>1. tx \in Transactions /\ Old(tx) \in Directories /\ Old(tx) \in Guarded
        /\ Root \in Directories /\ Root # Old(tx)
    BY <1>0, <1>11, PlacesOf DEF Tx, About, Steps, Recovery
  <2>2. disk[Root] = Absent /\ disk[Old(tx)] # Absent
    BY <1>11 DEF Moves
  <2>3. \A d \in UpToDate : Sound(Move(d, Old(tx), Root))
    BY <2>1, <2>2, UpToDateIs, SoundMoveIn DEF Match
  <2>4. \A d \in after : Keeps(d, Move(disk, Old(tx), Root))
    BY <1>0, <2>1, <2>2, KeepsRestore
  <2>5. \A d \in UpToDate : disk[Old(tx)] \in Whole => d[Old(tx)] = disk[Old(tx)]
    BY <2>1, UpToDateIs DEF Match
  <2> QED
    BY <1>00, <1>11, <2>1, <2>3, <2>4, <2>5, GoodMoves
<1>12. CASE pc = "reject" /\ Moves(Root, Rejected(tx))
  <2>1. tx \in Transactions /\ Rejected(tx) \in Directories /\ Root \in Directories
        /\ Root \in Guarded /\ Root # Rejected(tx) /\ Old(tx) \in Directories
    BY <1>0, <1>12, PlacesOf DEF Tx, About, Steps, Recovery
  <2>2. disk[Root] # Absent /\ disk[Rejected(tx)] = Absent /\ disk[Old(tx)] # Absent
    BY <1>0, <1>12 DEF Moves, StepOK
  <2>3. \A s \in Transactions \ {tx} : disk[Record(s)] = Absent
    <3>1. disk[Record(tx)] # Absent
      BY <1>0, <2>1, <2>2, Contents DEF Sound, Phases
    <3> QED
      BY <1>0, <2>1, <3>1 DEF RecordsOK, OneRecord
  <2>4. \A d \in UpToDate : Sound(Move(d, Root, Rejected(tx)))
    BY <2>1, <2>2, <2>3, UpToDateIs, SoundReject DEF Match
  <2>5. \A d \in after : Keeps(d, Move(disk, Root, Rejected(tx)))
    BY <1>0, <2>1, <2>2, KeepsReject
  <2>6. \A d \in UpToDate : disk[Root] \in Whole => d[Root] = disk[Root]
    BY <2>1, UpToDateIs DEF Match
  <2> QED
    BY <1>00, <1>12, <2>1, <2>4, <2>5, <2>6, GoodMoves
<1>13. CASE Disturbs
  <2>1. PICK e \in world.edits \ edits :
           /\ disk' = Put(disk, Root, e)
           /\ after' = {Put(d, Root, e) : d \in {o \in after : Names(o) = Names(disk)}}
    BY <1>13 DEF Disturbs
  <2>2. e \in Whole
    BY <1>0, <2>1, WorldsAssumption DEF TypeOK, Whole
  <2>3. ASSUME NEW d \in after, Names(d) = Names(disk)
        PROVE  Good(Put(d, Root, e))
    <3>1. d \in UpToDate
      BY <2>3 DEF UpToDate
    <3>2. d \in Disks /\ Sound(d) /\ Match(d, disk)
      BY <3>1, UpToDateIs
    <3>3. Put(d, Root, e) \in Disks /\ Match(Put(d, Root, e), disk')
      BY <1>00, <1>0, <2>1, <2>3, <3>2, MatchPut, Places
    <3>4. Sound(Put(d, Root, e))
      BY <1>0, <2>2, <3>2, SoundRoot, Contents
    <3> QED
      BY <1>00, <3>3, <3>4, MatchKeeps DEF Good
  <2> QED
    BY <2>1, <2>3
<1> QED
  BY <1>1, <1>2, <1>3, <1>4, <1>5, <1>6, <1>7, <1>8, <1>9, <1>10, <1>11, <1>12, <1>13 DEF Changes

-----------------------------------------------------------------------------
(* What a transaction has left, and what each step knows.                   *)

Deeds == {"create", "write", "syncTree", "publish", "abort", "dropStaging", "complete", "completeMove"}
Recorders == {"prepare", "oldMoved", "published", "finalRecord", "dropRecord", "abortRecord"}

\* The frame of a step, at the places of its transaction and of the others.
LEMMA FrameAt ==
    ASSUME TypeOK, Tx, Changes, NEW t \in Transactions
    PROVE  /\ t # tx \/ pc \notin About =>
                 \A d \in after' : \E e \in after :
                    /\ d[Staging(t)] = e[Staging(t)] /\ d[Old(t)] = e[Old(t)]
                    /\ d[Rejected(t)] = e[Rejected(t)] /\ d[Record(t)] = e[Record(t)]
           /\ t = tx /\ pc \notin {"moveOld", "finalOld", "dropOld", "restore", "reject"} =>
                 \A d \in after' : \E e \in after :
                    d[Old(t)] = e[Old(t)] /\ d[Rejected(t)] = e[Rejected(t)]
           /\ t = tx /\ pc \notin Deeds =>
                 \A d \in after' : \E e \in after : d[Staging(t)] = e[Staging(t)]
           /\ t = tx /\ pc' # "idle" /\ pc \notin Deeds => disk'[Staging(t)] = disk[Staging(t)]
           /\ t = tx /\ pc' # "idle" /\ pc \notin {"moveOld", "finalOld", "dropOld", "restore"} =>
                 disk'[Old(t)] = disk[Old(t)]
           /\ t = tx /\ pc' # "idle" /\ pc \notin Recorders => disk'[Record(t)] = disk[Record(t)]
<1>1. ASSUME t # tx \/ pc \notin About
      PROVE  /\ ~Touches(Staging(t)) /\ ~Touches(Old(t)) /\ ~Touches(Rejected(t))
             /\ ~Touches(Record(t))
  <2>1. CASE pc \notin About
    <3>1. pc \in {"idle", "recover"}
      BY <2>1 DEF TypeOK, About
    <3>2. \A p : Touches(p) => p = Root
      BY <3>1 DEF Touches, Marks
    <3> QED
      BY <3>2, PlacesOf, Places
  <2>2. CASE pc \in About
    <3>1. tx \in Transactions \ {t}
      BY <1>1, <2>2 DEF Tx
    <3> QED
      BY <3>1, PlacesOf, Places DEF Touches
  <2> QED
    BY <2>1, <2>2
<1>2. ASSUME t = tx
      PROVE  /\ pc \notin Deeds => ~Touches(Staging(t))
             /\ pc \notin {"moveOld", "finalOld", "dropOld", "restore"} => ~Touches(Old(t))
             /\ pc # "reject" => ~Touches(Rejected(t))
             /\ pc \notin Recorders => ~Touches(Record(t))
  BY <1>2, PlacesOf, Places DEF Touches, Marks, Deeds, Recorders
<1>3. {Staging(t), Old(t), Rejected(t), Record(t)} \subseteq Directories \cup Records
  BY PlacesOf
<1>4. /\ \A d \in after' : \E e \in after : Like(d, e)
      /\ pc' # "idle" => Like(disk', disk)
  BY Frame
<1>5. ASSUME t # tx \/ pc \notin About, NEW d, NEW e, Like(d, e)
      PROVE  /\ d[Staging(t)] = e[Staging(t)] /\ d[Old(t)] = e[Old(t)]
             /\ d[Rejected(t)] = e[Rejected(t)] /\ d[Record(t)] = e[Record(t)]
  BY <1>1, <1>3, <1>5 DEF Like
<1>6. ASSUME t = tx, NEW d, NEW e, Like(d, e)
      PROVE  /\ pc \notin Deeds => d[Staging(t)] = e[Staging(t)]
             /\ pc \notin {"moveOld", "finalOld", "dropOld", "restore"} => d[Old(t)] = e[Old(t)]
             /\ pc # "reject" => d[Rejected(t)] = e[Rejected(t)]
             /\ pc \notin Recorders => d[Record(t)] = e[Record(t)]
  BY <1>2, <1>3, <1>6 DEF Like
<1>7. t # tx \/ pc \notin About =>
         \A d \in after' : \E e \in after :
            /\ d[Staging(t)] = e[Staging(t)] /\ d[Old(t)] = e[Old(t)]
            /\ d[Rejected(t)] = e[Rejected(t)] /\ d[Record(t)] = e[Record(t)]
  BY <1>4, <1>5
<1>8. /\ t = tx /\ pc \notin {"moveOld", "finalOld", "dropOld", "restore", "reject"} =>
            \A d \in after' : \E e \in after :
               d[Old(t)] = e[Old(t)] /\ d[Rejected(t)] = e[Rejected(t)]
      /\ t = tx /\ pc \notin Deeds =>
            \A d \in after' : \E e \in after : d[Staging(t)] = e[Staging(t)]
  BY <1>4, <1>6
<1>9. /\ t = tx /\ pc' # "idle" /\ pc \notin Deeds => disk'[Staging(t)] = disk[Staging(t)]
      /\ t = tx /\ pc' # "idle" /\ pc \notin {"moveOld", "finalOld", "dropOld", "restore"} =>
            disk'[Old(t)] = disk[Old(t)]
      /\ t = tx /\ pc' # "idle" /\ pc \notin Recorders => disk'[Record(t)] = disk[Record(t)]
  BY <1>4, <1>6
<1> QED
  BY <1>7, <1>8, <1>9

\* The kinds of steps, by what becomes of pc, tx, applying and base.
Onward ==
    /\ Go(pc') /\ pc \in About /\ pc' # "idle"
    /\ pc' \in Recovery => pc \in Recovery
    /\ pc' \in Early => pc \in Early /\ Same
    /\ pc' \in Unmoved => pc \in Unmoved \ {"moveOld"}
    /\ pc' \in Brought => pc \in Brought
Quits == pc' = "idle" /\ applying' = Absent /\ base' = base
Taken == \E r \in Transactions :
            /\ disk[Record(r)] # Absent /\ Same /\ At("recover")
            /\ tx' = r /\ pc' \in Recovery \ {"recover"} /\ UNCHANGED request
Begun == \E t \in Transactions, b \in Transactions \cup world.edits \cup {Original} : Begin(t, b)
Stays == /\ UNCHANGED <<pc, tx, applying, base>>
         /\ Same \/ (after' = {disk} /\ disk' = disk) \/ Disturbs

LEMMA Flow ==
    ASSUME TypeOK, [Next]_vars
    PROVE  Onward \/ Quits \/ Taken \/ Begun \/ Open \/ FindNothing \/ Stays
<1>1. CASE Begun
  BY <1>1
<1>2. CASE Open
  BY <1>2
<1>3. CASE Fail
  BY <1>3 DEF Fail, Go, Onward, About, Steps, Precommit, Recovery, Early, Unmoved, Brought
<1>4. CASE Stop \/ PowerLoss
  BY <1>4 DEF Stop, PowerLoss, Quits
<1>5. CASE WriteBack \/ UNCHANGED vars
  BY <1>5 DEF WriteBack, vars, Stays, Same
<1>6. ASSUME NEW e \in Edits, Edit(e)
      PROVE  Stays
  BY <1>6 DEF Edit, Disturbs, Stays
<1>7. CASE Apply
  <2>1. CASE FindStale \/ FinalSync \/ AbortRecord
    BY <2>1 DEF FindStale, FinalSync, AbortRecord, Quits
  <2>2. CASE CheckBase \/ CreateStaging \/ SyncStaging \/ PersistPrepared \/ SyncPrepared
    BY <2>2 DEF CheckBase, CreateStaging, SyncStaging, PersistPrepared, SyncPrepared, Syncs, At, Go,
           Onward, About, Steps, Precommit, Recovery, Early, Unmoved, Brought, Same
  <2>3. CASE WriteStaging \/ SyncStaged \/ Recheck \/ PersistOldMoved \/ SyncOldMoved
    BY <2>3 DEF WriteStaging, SyncStaged, Recheck, PersistOldMoved, SyncOldMoved, Syncs, At, Go,
           Onward, About, Steps, Precommit, Recovery, Early, Unmoved, Brought, Same
  <2>4. CASE MoveOld \/ SyncMoved \/ PersistPublished \/ SyncPublished \/ Publish \/ SyncRoot
    BY <2>4 DEF MoveOld, SyncMoved, PersistPublished, SyncPublished, Publish, SyncRoot, Syncs, At,
           Go, Onward, About, Steps, Commit, Recovery, Early, Unmoved, Brought, Same
  <2>5. CASE FinalizeRecord \/ FinalizeOld \/ AbortStaging
    BY <2>5 DEF FinalizeRecord, FinalizeOld, AbortStaging, RemoveDir, RemoveRecord, At, Go,
           Onward, About, Steps, Commit, Recovery, Early, Unmoved, Brought, Same
  <2> QED
    BY <1>7, <2>1, <2>2, <2>3, <2>4, <2>5 DEF Apply
<1>8. CASE Recover
  <2>1. ASSUME NEW r \in Transactions, NEW phase \in Phases, NEW step \in Recovery \ {"recover"},
               Takes(r, phase, step)
        PROVE  Taken
    <3>1. disk[Record(r)] # Absent
      BY <2>1, Contents DEF Takes
    <3> QED
      BY <2>1, <3>1 DEF Takes, Taken, Same
  <2>2. ASSUME NEW r \in Transactions,
               \/ FindPrepared(r) \/ FindMoveDone(r) \/ FindNotMoved(r) \/ FindMoved(r)
               \/ FindPublished(r) \/ FindOldRoot(r) \/ FindSpoilt(r)
               \/ FindRejected(r) \/ FindUnpublished(r)
        PROVE  Taken
    BY <2>1, <2>2 DEF FindPrepared, FindMoveDone, FindNotMoved, FindMoved, FindPublished,
           FindOldRoot, FindSpoilt, FindRejected, FindUnpublished, Recovery, Phases
  <2>3. ASSUME NEW r \in Transactions, Refuse(r)
        PROVE  Quits
    BY <2>3 DEF Refuse, Quits
  <2>4. CASE FindTaken
    BY <2>4 DEF FindTaken, Quits
  <2>5. CASE DropOld \/ DropStaging \/ DropRecord \/ DropSync \/ Verify
    BY <2>5 DEF DropOld, DropStaging, DropRecord, DropSync, Verify, RemoveDir, RemoveRecord, Syncs,
           At, Go, Onward, About, Steps, Recovery, Early, Unmoved, Brought, Same
  <2>6. CASE Restore \/ SyncRestored \/ Complete \/ CompleteMove \/ SyncCompleted \/ Reject \/ SyncRejected
    BY <2>6 DEF Restore, SyncRestored, Complete, CompleteMove, SyncCompleted, Reject,
           SyncRejected, Syncs, At, Go, Onward, About, Steps, Recovery, Early, Unmoved, Brought, Same
  <2> QED
    BY <1>8, <2>2, <2>3, <2>4, <2>5, <2>6 DEF Recover
<1> QED
  BY <1>1, <1>2, <1>3, <1>4, <1>5, <1>6, <1>7, <1>8 DEF Next, Begun

\* What a transaction has left, nothing, stays nothing while another is at work.
LEMMA FreshStays ==
    ASSUME TypeOK, Tx, Changes, NEW t \in Transactions, Fresh(t), t # tx \/ pc \notin About
    PROVE  Fresh(t)'
<1>1. \A d \in after' : \E e \in after :
         /\ d[Staging(t)] = e[Staging(t)] /\ d[Old(t)] = e[Old(t)]
         /\ d[Rejected(t)] = e[Rejected(t)] /\ d[Record(t)] = e[Record(t)]
  BY FrameAt
<1>2. \A d \in after' : /\ d[Staging(t)] = Absent /\ d[Old(t)] = Absent
                        /\ d[Rejected(t)] = Absent /\ d[Record(t)] = Absent
  BY <1>1 DEF Fresh
<1> QED
  BY <1>2 DEF Fresh

LEMMA FreshStep ==
    ASSUME OInv, Changes, [Next]_vars
    PROVE  FreshOK'
<1>0. /\ TypeOK /\ Tx /\ FreshOK
      /\ disk \in after
      /\ applying \in Transactions \cup {Absent}
      /\ pc \in About => tx \in Transactions
      /\ "recover" \in Recovery /\ "idle" \notin About /\ "recover" \notin About
      /\ "idle" \notin Recovery /\ Early \subseteq About /\ Unmoved \subseteq About
      /\ Recovery \ {"recover"} \subseteq About /\ Early \subseteq Unmoved
      /\ (Recovery \cap Unmoved) = {}
  BY DEF OInv, SInv, TypeOK, Tx, Kept, About, Steps, Precommit, Commit, Recovery, Early, Unmoved
<1>1. ASSUME base' = base
      PROVE  \A t \in Transactions : base'[t] = Absent => Fresh(t)'
  BY <1>0, <1>1, FreshStays DEF FreshOK
<1>2. CASE Quits
  BY <1>0, <1>1, <1>2 DEF Quits, FreshOK
<1>3. CASE Begun
  <2>1. PICK t \in Transactions, b \in Transactions \cup world.edits \cup {Original} : Begin(t, b)
    BY <1>3 DEF Begun
  <2>2. b # Absent
    BY <1>0, <2>1, WorldsAssumption, Contents DEF TypeOK, Whole
  <2>3. base'[t] = b /\ \A s \in Transactions \ {t} : base'[s] = base[s]
    BY <1>0, <2>1 DEF Begin, TypeOK
  <2>4. Fresh(t) /\ base[t] = Absent
    BY <1>0, <2>1 DEF Begin, FreshOK
  <2>5. \A s \in Transactions : base'[s] = Absent => Fresh(s)'
    BY <1>0, <2>1, <2>2, <2>3 DEF Begin, FreshOK, Fresh
  <2>6. pc' = "recover" /\ applying' = t /\ Fresh(t)'
    BY <2>1, <2>4 DEF Begin, Fresh
  <2> QED
    BY <1>0, <2>2, <2>3, <2>5, <2>6 DEF FreshOK
<1>4. CASE Open
  <2>1. pc' = "recover" /\ base' = base /\ applying' = Absent
    BY <1>0, <1>4 DEF Open, At, Go, request, FreshOK
  <2> QED
    BY <1>0, <1>1, <2>1 DEF FreshOK
<1>5. CASE FindNothing
  <2>1. /\ pc = "recover" /\ Same /\ base' = base /\ applying' = applying /\ tx' = applying
        /\ \/ applying = Absent /\ pc' = "idle"
           \/ applying # Absent /\ pc' = "check"
    <3>1. pc = "recover" /\ Same /\ base' = base /\ applying' = applying /\ tx' = applying
      BY <1>5 DEF FindNothing, At, request, Same
    <3>2. pc' = IF applying = Absent THEN "idle" ELSE "check"
      BY <1>5 DEF FindNothing
    <3> QED
      BY <3>1, <3>2
  <2>2. applying # Absent => Fresh(applying)' /\ base[applying] # Absent
    BY <1>0, <2>1 DEF FreshOK, Fresh, Same
  <2>3. CASE applying = Absent /\ pc' = "idle"
    BY <1>0, <1>1, <2>1, <2>3 DEF FreshOK
  <2>4. CASE applying # Absent /\ pc' = "check"
    <3>1. pc' \in Early /\ pc' \in Unmoved /\ pc' \notin Recovery /\ pc' # "idle"
      BY <2>4 DEF Early, Unmoved, Recovery
    <3> QED
      BY <1>0, <1>1, <2>1, <2>2, <2>4, <3>1 DEF FreshOK, Fresh
  <2> QED
    BY <2>1, <2>3, <2>4
<1>6. CASE Taken
  <2>1. PICK r \in Transactions :
            /\ disk[Record(r)] # Absent /\ Same /\ pc = "recover"
            /\ tx' = r /\ pc' \in Recovery \ {"recover"} /\ UNCHANGED request
    BY <1>6 DEF Taken, At
  <2>2. ~Fresh(r)
    BY <1>0, <2>1 DEF Fresh
  <2>3. base[r] # Absent /\ r # applying
    BY <1>0, <2>1, <2>2, Contents DEF FreshOK
  <2>4. applying # Absent => Fresh(applying)'
    BY <1>0, <2>1 DEF FreshOK, Fresh, Same, request
  <2>5. base' = base /\ applying' = applying /\ pc' \notin Unmoved /\ pc' # "idle"
    BY <1>0, <2>1 DEF request
  <2> QED
    BY <1>0, <1>1, <2>1, <2>3, <2>4, <2>5 DEF FreshOK
<1>7. CASE Onward
  <2>1. tx' = tx /\ applying' = applying /\ base' = base /\ tx \in Transactions
    BY <1>0, <1>7 DEF Onward, Go, request
  <2>2. base'[tx'] # Absent /\ (applying' # Absent => base'[applying'] # Absent)
    BY <1>0, <1>7, <2>1 DEF FreshOK, Onward
  <2>3. pc' \in Recovery => pc \in Recovery \ {"recover"}
    BY <1>0, <1>7 DEF Onward
  <2>4. pc' \in Recovery /\ applying' # Absent => tx' # applying' /\ Fresh(applying)'
    BY <1>0, <2>1, <2>3, FreshStays DEF FreshOK
  <2>5. pc' \in Early => Fresh(tx)'
    BY <1>0, <1>7, <2>1 DEF Onward, FreshOK, Same, Fresh
  <2>6. pc' \in Unmoved => \A d \in after' : d[Old(tx)] = Absent /\ d[Rejected(tx)] = Absent
    <3>1. pc' \in Unmoved => pc \in Unmoved \ {"moveOld"}
      BY <1>7 DEF Onward
    <3>2. pc' \in Unmoved => pc \notin {"moveOld", "finalOld", "dropOld", "restore", "reject"}
      BY <3>1 DEF Unmoved
    <3> QED
      BY <1>0, <2>1, <3>1, <3>2, FrameAt DEF FreshOK
  <2> QED
    BY <1>0, <1>1, <1>7, <2>1, <2>2, <2>3, <2>4, <2>5, <2>6 DEF FreshOK, Onward, Fresh
<1>8. CASE Stays
  <2>1. pc' = pc /\ tx' = tx /\ applying' = applying /\ base' = base
    BY <1>8 DEF Stays
  <2>2. \A d \in after' : \E e \in after : \A t \in Transactions :
           /\ d[Staging(t)] = e[Staging(t)] /\ d[Old(t)] = e[Old(t)]
           /\ d[Rejected(t)] = e[Rejected(t)] /\ d[Record(t)] = e[Record(t)]
    <3>1. CASE Same \/ (after' = {disk} /\ disk' = disk)
      BY <1>0, <3>1 DEF Same
    <3>2. CASE Disturbs
      <4>1. PICK e : \A d \in after' : \E o \in after : d = Put(o, Root, e)
        BY <3>2 DEF Disturbs
      <4>2. \A o \in after : o \in Disks
        BY <1>0 DEF TypeOK
      <4>3. \A o \in after : \A p \in Directories \cup Records :
               p # Root => Put(o, Root, e)[p] = o[p]
        BY <4>2, PutIs, Places
      <4>4. \A o \in after : \A t \in Transactions :
               /\ Put(o, Root, e)[Staging(t)] = o[Staging(t)]
               /\ Put(o, Root, e)[Old(t)] = o[Old(t)]
               /\ Put(o, Root, e)[Rejected(t)] = o[Rejected(t)]
               /\ Put(o, Root, e)[Record(t)] = o[Record(t)]
        BY <4>3, PlacesOf, Places
      <4> QED
        BY <4>1, <4>4
    <3> QED
      BY <1>8, <3>1, <3>2 DEF Stays
  <2>3. \A t \in Transactions : Fresh(t) => Fresh(t)'
    <3>1. ASSUME NEW t \in Transactions, Fresh(t)
          PROVE  \A d \in after' : /\ d[Staging(t)] = Absent /\ d[Old(t)] = Absent
                                   /\ d[Rejected(t)] = Absent /\ d[Record(t)] = Absent
      BY <2>2, <3>1 DEF Fresh
    <3> QED
      BY <3>1 DEF Fresh
  <2>4. pc \in Unmoved => \A d \in after' : d[Old(tx)] = Absent /\ d[Rejected(tx)] = Absent
    BY <1>0, <2>2 DEF FreshOK
  <2>5. pc \in Early => Fresh(tx)'
    BY <1>0, <2>1, <2>3 DEF FreshOK, Fresh
  <2>6. pc \in Recovery /\ applying # Absent => Fresh(applying)'
    BY <1>0, <2>1, <2>3 DEF FreshOK, Fresh
  <2> QED
    BY <1>0, <1>1, <2>1, <2>4, <2>5, <2>6 DEF FreshOK, Fresh
<1> QED
  BY <1>0, <1>2, <1>3, <1>4, <1>5, <1>6, <1>7, <1>8, Flow

\* The facts a step leaves at the places of its transaction.
StagingSame == /\ disk'[Staging(tx)] = disk[Staging(tx)]
               /\ \A d \in after' : \E e \in after : d[Staging(tx)] = e[Staging(tx)]
OldSame == disk'[Old(tx)] = disk[Old(tx)]
RecordSame == disk'[Record(tx)] = disk[Record(tx)]
RootSame == disk'[Root] = disk[Root]

LEMMA SamePlaces ==
    ASSUME TypeOK, Tx, Changes, pc \in About, pc' # "idle", edits' = edits
    PROVE  /\ tx \in Transactions
           /\ pc \notin Deeds => StagingSame
           /\ pc \notin {"moveOld", "finalOld", "dropOld", "restore"} => OldSame
           /\ pc \notin Recorders => RecordSame
           /\ pc \notin {"moveOld", "publish", "completeMove", "restore", "reject"} => RootSame
<1>1. tx \in Transactions
  BY DEF Tx
<1>2. ~Disturbs
  BY DEF Disturbs
<1>3. Like(disk', disk)
  BY Frame
<1>4. pc \notin {"moveOld", "publish", "completeMove", "restore", "reject"} => ~Touches(Root)
  BY <1>1, <1>2, PlacesOf, Places DEF Touches
<1>5. pc \notin {"moveOld", "publish", "completeMove", "restore", "reject"} => RootSame
  BY <1>3, <1>4, Places DEF Like, RootSame
<1>6. /\ pc \notin Deeds => StagingSame
      /\ pc \notin {"moveOld", "finalOld", "dropOld", "restore"} => OldSame
      /\ pc \notin Recorders => RecordSame
  BY <1>1, FrameAt DEF StagingSame, OldSame, RecordSame
<1> QED
  BY <1>1, <1>5, <1>6

\* Each step of an apply.
LEMMA KnownApply ==
    ASSUME OInv, Changes, Apply
    PROVE  StepOK'
<1>0. /\ TypeOK /\ Tx /\ FreshOK /\ StepOK /\ RecordsOK
      /\ disk \in Disks /\ disk \in after /\ \A d \in after : d \in Disks
      /\ \A d \in after : Sound(d) /\ Keeps(d, disk)
      /\ disk' \in Disks /\ disk' \in after' /\ \A d \in after' : d \in Disks
      /\ UpToDate \subseteq after
  BY DisksStep DEF OInv, SInv, TypeOK, Tx, Kept, UpToDate
<1>1. CASE FindStale \/ AbortRecord \/ FinalSync
  BY <1>1 DEF FindStale, AbortRecord, FinalSync, StepOK, Unseen, Staged, Written, Unpublished, Unmoved, Early, Aborting, Emptied
<1>2. CASE CheckBase
  BY <1>2 DEF CheckBase, Go, StepOK, Unseen, Staged, Written, Unpublished, Unmoved, Early, Aborting, Emptied
<1>3. CASE CreateStaging
  <2>1. /\ pc = "create" /\ pc' = "syncStaging" /\ tx' = tx /\ edits' = edits /\ tx \in Transactions
        /\ OldSame /\ RecordSame /\ RootSame
    <3>1. pc = "create" /\ pc' = "syncStaging" /\ tx' = tx /\ edits' = edits
      BY <1>3 DEF CreateStaging, At, Go, request, bounds
    <3>2. pc \in About /\ pc' # "idle"
      BY <3>1 DEF About, Steps, Precommit, Commit, Recovery
    <3> QED
      BY <1>0, <3>1, <3>2, SamePlaces DEF Deeds, Recorders
  <2>2. disk'[Staging(tx)] # Absent
    <3>1. disk' = Put(disk, Staging(tx), Torn) /\ Staging(tx) \in Directories
      BY <1>3, <2>1, PlacesOf DEF CreateStaging, Puts
    <3> QED
      BY <1>0, <3>1, PutIs, Contents
  <2>3. disk'[Record(tx)] # "Published"
    BY <1>0, <2>1, Contents DEF RecordsOK, NoRecord, Early, RecordSame, Phases
  <2> QED
    BY <1>0, <2>1, <2>2, <2>3, Contents DEF StepOK, Unseen, Staged, Written, Unpublished, Unmoved, Early, Aborting, Emptied, OldSame, RecordSame, RootSame
<1>4. CASE SyncStaging
  <2>1. /\ pc = "syncStaging" /\ pc' = "prepare" /\ tx' = tx /\ edits' = edits /\ tx \in Transactions
        /\ StagingSame /\ OldSame /\ RecordSame /\ RootSame
    <3>1. pc = "syncStaging" /\ pc' = "prepare" /\ tx' = tx /\ edits' = edits
      BY <1>4 DEF SyncStaging, Syncs, At, Go, request, bounds
    <3>2. pc \in About /\ pc' # "idle"
      BY <3>1 DEF About, Steps, Precommit, Commit, Recovery
    <3> QED
      BY <1>0, <3>1, <3>2, SamePlaces DEF Deeds, Recorders
  <2>2. \A d \in after' : d \in after /\ (d[Staging(tx)] = Absent <=> disk[Staging(tx)] = Absent)
    BY <1>0, <1>4, <2>1, PlacesOf DEF SyncStaging, Syncs, SyncParent, Names
  <2> QED
    BY <1>0, <2>1, <2>2, Contents DEF StepOK, Unseen, Staged, Written, Unpublished, Unmoved, Early, Aborting, Emptied, StagingSame, OldSame, RecordSame, RootSame
<1>5. CASE PersistPrepared
  <2>1. /\ pc = "prepare" /\ pc' = "syncPrepared" /\ tx' = tx /\ edits' = edits /\ tx \in Transactions
        /\ StagingSame /\ OldSame /\ RootSame
    <3>1. pc = "prepare" /\ pc' = "syncPrepared" /\ tx' = tx /\ edits' = edits
      BY <1>5 DEF PersistPrepared, At, Go, request, bounds
    <3>2. pc \in About /\ pc' # "idle"
      BY <3>1 DEF About, Steps, Precommit, Commit, Recovery
    <3> QED
      BY <1>0, <3>1, <3>2, SamePlaces DEF Deeds, Recorders
  <2>2. disk'[Record(tx)] = "Prepared"
    BY <1>0, <1>5, <2>1, PutIs, PlacesOf DEF PersistPrepared, Puts
  <2> QED
    BY <1>0, <2>1, <2>2, Contents DEF StepOK, Unseen, Staged, Written, Unpublished, Unmoved, Early, Aborting, Emptied, StagingSame, OldSame, RootSame
<1>6. CASE SyncPrepared
  <2>1. /\ pc = "syncPrepared" /\ pc' = "write" /\ tx' = tx /\ edits' = edits /\ tx \in Transactions
        /\ StagingSame /\ OldSame /\ RecordSame /\ RootSame
    <3>1. pc = "syncPrepared" /\ pc' = "write" /\ tx' = tx /\ edits' = edits
      BY <1>6 DEF SyncPrepared, Syncs, At, Go, request, bounds
    <3>2. pc \in About /\ pc' # "idle"
      BY <3>1 DEF About, Steps, Precommit, Commit, Recovery
    <3> QED
      BY <1>0, <3>1, <3>2, SamePlaces DEF Deeds, Recorders
  <2> QED
    BY <1>0, <2>1, Contents DEF StepOK, Unseen, Staged, Written, Unpublished, Unmoved, Early, Aborting, Emptied, StagingSame, OldSame, RecordSame, RootSame
<1>7. CASE WriteStaging
  <2>1. /\ pc = "write" /\ pc' = "syncTree" /\ tx' = tx /\ edits' = edits /\ tx \in Transactions
        /\ OldSame /\ RecordSame /\ RootSame
    <3>1. pc = "write" /\ pc' = "syncTree" /\ tx' = tx /\ edits' = edits
      BY <1>7 DEF WriteStaging, At, Go, request, bounds
    <3>2. pc \in About /\ pc' # "idle"
      BY <3>1 DEF About, Steps, Precommit, Commit, Recovery
    <3> QED
      BY <1>0, <3>1, <3>2, SamePlaces DEF Deeds, Recorders
  <2>2. disk'[Staging(tx)] = tx /\ \A d \in after' : d[Staging(tx)] # Absent
    <3>1. \A d \in after : d[Staging(tx)] # Absent
      BY <1>0, <2>1 DEF StepOK, Staged
    <3>2. \A c : Put(disk, Staging(tx), c)[Staging(tx)] = c
      BY <1>0, <2>1, PutIs, PlacesOf
    <3> QED
      BY <1>7, <2>1, <3>1, <3>2, Contents DEF WriteStaging
  <2> QED
    BY <1>0, <2>1, <2>2, Contents DEF StepOK, Unseen, Staged, Written, Unpublished, Unmoved, Early, Aborting, Emptied, OldSame, RecordSame, RootSame
<1>8. CASE SyncStaged
  <2>1. /\ pc = "syncTree" /\ pc' = "recheck" /\ tx' = tx /\ edits' = edits /\ tx \in Transactions
        /\ OldSame /\ RecordSame /\ RootSame
    <3>1. pc = "syncTree" /\ pc' = "recheck" /\ tx' = tx /\ edits' = edits
      BY <1>8 DEF SyncStaged, At, Go, request, bounds
    <3>2. pc \in About /\ pc' # "idle"
      BY <3>1 DEF About, Steps, Precommit, Commit, Recovery
    <3> QED
      BY <1>0, <3>1, <3>2, SamePlaces DEF Deeds, Recorders
  <2>2. \A d \in after' : d[Staging(tx)] = tx
    <3>1. disk[Staging(tx)] = tx /\ \A d \in after : d[Staging(tx)] # Absent
      BY <1>0, <2>1 DEF StepOK, Staged
    <3>2. \A d \in Disks : Put(d, Staging(tx), tx)[Staging(tx)] = tx
      BY <2>1, PutIs, PlacesOf
    <3> QED
      BY <1>0, <1>8, <3>1, <3>2 DEF SyncStaged, SyncTree
  <2> QED
    BY <1>0, <2>1, <2>2, Contents DEF StepOK, Unseen, Staged, Written, Unpublished, Unmoved, Early, Aborting, Emptied, OldSame, RecordSame, RootSame
<1>9. CASE Recheck /\ disk[Root] = base[tx]
  <2>1. /\ pc = "recheck" /\ pc' = "oldMoved" /\ tx' = tx /\ edits' = edits /\ tx \in Transactions
        /\ StagingSame /\ OldSame /\ RecordSame /\ RootSame
    <3>1. pc = "recheck" /\ pc' = "oldMoved" /\ tx' = tx /\ edits' = edits
      BY <1>9 DEF Recheck, At, Go, request, bounds
    <3>2. pc \in About /\ pc' # "idle"
      BY <3>1 DEF About, Steps, Precommit, Commit, Recovery
    <3> QED
      BY <1>0, <3>1, <3>2, SamePlaces DEF Deeds, Recorders
  <2>2. disk[Root] = base[tx] /\ base' = base
    BY <1>9 DEF Recheck, Go, request
  <2> QED
    BY <1>0, <2>1, <2>2, Contents DEF StepOK, Unseen, Staged, Written, Unpublished, Unmoved, Early, Aborting, Emptied, StagingSame, OldSame, RecordSame, RootSame
<1>10. CASE Recheck /\ disk[Root] # base[tx]
  <2>1. /\ pc = "recheck" /\ pc' = "abort" /\ tx' = tx /\ edits' = edits /\ tx \in Transactions
        /\ StagingSame /\ OldSame /\ RecordSame /\ RootSame
    <3>1. pc = "recheck" /\ pc' = "abort" /\ tx' = tx /\ edits' = edits
      BY <1>10 DEF Recheck, At, Go, request, bounds
    <3>2. pc \in About /\ pc' # "idle"
      BY <3>1 DEF About, Steps, Precommit, Commit, Recovery
    <3> QED
      BY <1>0, <3>1, <3>2, SamePlaces DEF Deeds, Recorders
  <2>2. disk[Old(tx)] = Absent
    BY <1>0, <2>1 DEF FreshOK, Unmoved
  <2> QED
    BY <1>0, <2>1, <2>2, Contents DEF StepOK, Unseen, Staged, Written, Unpublished, Unmoved, Early, Aborting, Emptied, StagingSame, OldSame, RecordSame, RootSame
<1>11. CASE PersistOldMoved
  <2>1. /\ pc = "oldMoved" /\ pc' = "syncOldMoved" /\ tx' = tx /\ edits' = edits /\ tx \in Transactions
        /\ StagingSame /\ OldSame /\ RootSame
    <3>1. pc = "oldMoved" /\ pc' = "syncOldMoved" /\ tx' = tx /\ edits' = edits
      BY <1>11 DEF PersistOldMoved, At, Go, request, bounds
    <3>2. pc \in About /\ pc' # "idle"
      BY <3>1 DEF About, Steps, Precommit, Commit, Recovery
    <3> QED
      BY <1>0, <3>1, <3>2, SamePlaces DEF Deeds, Recorders
  <2>2. disk'[Record(tx)] = "OldMoved"
    BY <1>0, <1>11, <2>1, PutIs, PlacesOf DEF PersistOldMoved, Puts
  <2>3. base' = base
    BY <1>11 DEF PersistOldMoved, Go, request
  <2> QED
    BY <1>0, <2>1, <2>3, <2>2, Contents DEF StepOK, Unseen, Staged, Written, Unpublished, Unmoved, Early, Aborting, Emptied, StagingSame, OldSame, RootSame
<1>12. CASE SyncOldMoved
  <2>1. /\ pc = "syncOldMoved" /\ pc' = "moveOld" /\ tx' = tx /\ edits' = edits /\ tx \in Transactions
        /\ StagingSame /\ OldSame /\ RecordSame /\ RootSame
    <3>1. pc = "syncOldMoved" /\ pc' = "moveOld" /\ tx' = tx /\ edits' = edits
      BY <1>12 DEF SyncOldMoved, Syncs, At, Go, request, bounds
    <3>2. pc \in About /\ pc' # "idle"
      BY <3>1 DEF About, Steps, Precommit, Commit, Recovery
    <3> QED
      BY <1>0, <3>1, <3>2, SamePlaces DEF Deeds, Recorders
  <2>2. base' = base
    BY <1>12 DEF SyncOldMoved, Syncs, Go, request
  <2> QED
    BY <1>0, <2>1, <2>2, Contents DEF StepOK, Unseen, Staged, Written, Unpublished, Unmoved, Early, Aborting, Emptied, StagingSame, OldSame, RecordSame, RootSame
<1>13. CASE MoveOld
  <2>1. /\ pc = "moveOld" /\ pc' = "syncMoved" /\ tx' = tx /\ edits' = edits /\ tx \in Transactions
        /\ StagingSame /\ RecordSame
    <3>1. pc = "moveOld" /\ pc' = "syncMoved" /\ tx' = tx /\ edits' = edits
      BY <1>13 DEF MoveOld, At, Go, request, bounds
    <3>2. pc \in About /\ pc' # "idle"
      BY <3>1 DEF About, Steps, Precommit, Commit, Recovery
    <3> QED
      BY <1>0, <3>1, <3>2, SamePlaces DEF Deeds, Recorders
  <2> QED
    BY <1>0, <2>1, Contents DEF StepOK, Unseen, Staged, Written, Unpublished, Unmoved, Early, Aborting, Emptied, StagingSame, RecordSame
<1>14. CASE SyncMoved
  <2>1. /\ pc = "syncMoved" /\ pc' = "published" /\ tx' = tx /\ edits' = edits /\ tx \in Transactions
        /\ StagingSame /\ OldSame /\ RecordSame /\ RootSame
    <3>1. pc = "syncMoved" /\ pc' = "published" /\ tx' = tx /\ edits' = edits
      BY <1>14 DEF SyncMoved, Syncs, At, Go, request, bounds
    <3>2. pc \in About /\ pc' # "idle"
      BY <3>1 DEF About, Steps, Precommit, Commit, Recovery
    <3> QED
      BY <1>0, <3>1, <3>2, SamePlaces DEF Deeds, Recorders
  <2> QED
    BY <1>0, <2>1, Contents DEF StepOK, Unseen, Staged, Written, Unpublished, Unmoved, Early, Aborting, Emptied, StagingSame, OldSame, RecordSame, RootSame
<1>15. CASE PersistPublished
  <2>1. /\ pc = "published" /\ pc' = "syncPublished" /\ tx' = tx /\ edits' = edits /\ tx \in Transactions
        /\ StagingSame /\ OldSame /\ RootSame
    <3>1. pc = "published" /\ pc' = "syncPublished" /\ tx' = tx /\ edits' = edits
      BY <1>15 DEF PersistPublished, At, Go, request, bounds
    <3>2. pc \in About /\ pc' # "idle"
      BY <3>1 DEF About, Steps, Precommit, Commit, Recovery
    <3> QED
      BY <1>0, <3>1, <3>2, SamePlaces DEF Deeds, Recorders
  <2>2. disk'[Record(tx)] = "Published"
    BY <1>0, <1>15, <2>1, PutIs, PlacesOf DEF PersistPublished, Puts
  <2> QED
    BY <1>0, <2>1, <2>2, Contents DEF StepOK, Unseen, Staged, Written, Unpublished, Unmoved, Early, Aborting, Emptied, StagingSame, OldSame, RootSame
<1>16. CASE SyncPublished
  <2>1. /\ pc = "syncPublished" /\ pc' = "publish" /\ tx' = tx /\ edits' = edits /\ tx \in Transactions
        /\ StagingSame /\ OldSame /\ RecordSame /\ RootSame
    <3>1. pc = "syncPublished" /\ pc' = "publish" /\ tx' = tx /\ edits' = edits
      BY <1>16 DEF SyncPublished, Syncs, At, Go, request, bounds
    <3>2. pc \in About /\ pc' # "idle"
      BY <3>1 DEF About, Steps, Precommit, Commit, Recovery
    <3> QED
      BY <1>0, <3>1, <3>2, SamePlaces DEF Deeds, Recorders
  <2> QED
    BY <1>0, <2>1, Contents DEF StepOK, Unseen, Staged, Written, Unpublished, Unmoved, Early, Aborting, Emptied, StagingSame, OldSame, RecordSame, RootSame
<1>17. CASE Publish \/ SyncRoot \/ FinalizeRecord
  BY <1>17 DEF Publish, SyncRoot, FinalizeRecord, RemoveRecord, Syncs, Go, StepOK, Unseen, Staged, Written, Unpublished, Unmoved, Early, Aborting, Emptied
<1>18. CASE FinalizeOld
  <2>1. tx' = tx /\ tx \in Transactions /\ pc' \in {"finalOld", "finalRecord"}
    BY <1>0, <1>18 DEF FinalizeOld, RemoveDir, At, Go, Tx, About, Steps, Commit
  <2>2. pc' = "finalRecord" => disk'[Old(tx)] = Absent
    BY <1>0, <1>18, <2>1, PutIs, PlacesOf DEF FinalizeOld, RemoveDir, At, Go, Puts
  <2> QED
    BY <2>1, <2>2 DEF StepOK, Unseen, Staged, Written, Unpublished, Unmoved, Early, Aborting, Emptied
<1>19. CASE AbortStaging
  <2>1. /\ pc = "abort" /\ pc' \in {"abort", "abortRecord"} /\ tx' = tx /\ edits' = edits /\ tx \in Transactions
        /\ OldSame /\ RecordSame /\ RootSame
    <3>1. pc = "abort" /\ pc' \in {"abort", "abortRecord"} /\ tx' = tx /\ edits' = edits
      BY <1>19 DEF AbortStaging, RemoveDir, At, Go, request, bounds
    <3>2. pc \in About /\ pc' # "idle"
      BY <3>1 DEF About, Steps, Precommit, Commit, Recovery
    <3> QED
      BY <1>0, <3>1, <3>2, SamePlaces DEF Deeds, Recorders
  <2> QED
    BY <1>0, <2>1, Contents DEF StepOK, Unseen, Staged, Written, Unpublished, Unmoved, Early, Aborting, Emptied, OldSame, RecordSame, RootSame
<1> QED
  BY <1>1, <1>2, <1>3, <1>4, <1>5, <1>6, <1>7, <1>8, <1>9, <1>10, <1>11, <1>12, <1>13, <1>14, <1>15, <1>16, <1>17, <1>18, <1>19 DEF Apply

\* A failure before the commit.
LEMMA KnownFail ==
    ASSUME OInv, Changes, Fail
    PROVE  StepOK'
<1>0. /\ TypeOK /\ Tx /\ FreshOK /\ StepOK /\ RecordsOK
      /\ disk \in Disks /\ disk \in after /\ \A d \in after : d \in Disks
      /\ \A d \in after : Sound(d) /\ Keeps(d, disk)
      /\ disk' \in Disks /\ disk' \in after' /\ \A d \in after' : d \in Disks
      /\ UpToDate \subseteq after
  BY DisksStep DEF OInv, SInv, TypeOK, Tx, Kept, UpToDate
<1>1. CASE Fail
  <2>1. pc \in Precommit /\ pc' = "abort" /\ tx' = tx /\ disk' = disk
    BY <1>1 DEF Fail, Go
  <2>2. pc \in Unpublished /\ pc \in Unmoved
    BY <2>1 DEF Precommit, Unpublished, Unmoved, Early
  <2>3. disk[Record(tx)] # "Published" /\ disk[Old(tx)] = Absent
    BY <1>0, <2>2 DEF StepOK, FreshOK
  <2> QED
    BY <2>1, <2>3 DEF StepOK, Unseen, Staged, Written, Unpublished, Unmoved, Early, Aborting, Emptied
<1> QED
  BY <1>1

\* Each step of a recovery.
LEMMA KnownRecover ==
    ASSUME OInv, Changes, Recover
    PROVE  StepOK'
<1>0. /\ TypeOK /\ Tx /\ FreshOK /\ StepOK /\ RecordsOK
      /\ disk \in Disks /\ disk \in after /\ \A d \in after : d \in Disks
      /\ \A d \in after : Sound(d) /\ Keeps(d, disk)
      /\ disk' \in Disks /\ disk' \in after' /\ \A d \in after' : d \in Disks
      /\ UpToDate \subseteq after
  BY DisksStep DEF OInv, SInv, TypeOK, Tx, Kept, UpToDate
<1>1. CASE FindNothing
  BY <1>1 DEF FindNothing, StepOK, Unseen, Staged, Written, Unpublished, Unmoved, Early, Aborting, Emptied
<1>2. CASE FindTaken
  BY <1>2 DEF FindTaken, StepOK, Unseen, Staged, Written, Unpublished, Unmoved, Early, Aborting, Emptied
<1>3. CASE \E r \in Transactions : Refuse(r)
  BY <1>3 DEF Refuse, StepOK, Unseen, Staged, Written, Unpublished, Unmoved, Early, Aborting, Emptied
<1>4. CASE \E r \in Transactions : FindPrepared(r)
  <2>1. PICK r \in Transactions :
            /\ FindPrepared(r) /\ disk[Record(r)] = "Prepared" /\ tx' = r /\ pc' = "dropStaging" /\ disk' = disk
    BY <1>4 DEF FindPrepared, Takes
  <2>2. disk[Old(r)] = Absent
    BY <1>0, <2>1 DEF Sound
  <2> QED
    BY <2>1, <2>2 DEF FindPrepared, Has, StepOK, Unseen, Staged, Written, Unpublished, Unmoved, Early, Aborting, Emptied
<1>5. CASE \E r \in Transactions : FindMoveDone(r)
  <2>1. PICK r \in Transactions :
            /\ FindMoveDone(r) /\ disk[Record(r)] = "OldMoved" /\ tx' = r /\ pc' = "dropOld" /\ disk' = disk
    BY <1>5 DEF FindMoveDone, Takes
  <2> QED
    BY <2>1 DEF FindMoveDone, Has, StepOK, Unseen, Staged, Written, Unpublished, Unmoved, Early, Aborting, Emptied
<1>6. CASE \E r \in Transactions : FindNotMoved(r)
  <2>1. PICK r \in Transactions :
            /\ FindNotMoved(r) /\ disk[Record(r)] = "OldMoved" /\ tx' = r /\ pc' = "dropStaging" /\ disk' = disk
    BY <1>6 DEF FindNotMoved, Takes
  <2> QED
    BY <2>1 DEF FindNotMoved, Has, StepOK, Unseen, Staged, Written, Unpublished, Unmoved, Early, Aborting, Emptied
<1>7. CASE \E r \in Transactions : FindMoved(r)
  <2>1. PICK r \in Transactions :
            /\ FindMoved(r) /\ disk[Record(r)] = "OldMoved" /\ tx' = r /\ pc' = "restore" /\ disk' = disk
    BY <1>7 DEF FindMoved, Takes
  <2> QED
    BY <2>1 DEF FindMoved, Has, StepOK, Unseen, Staged, Written, Unpublished, Unmoved, Early, Aborting, Emptied
<1>8. CASE \E r \in Transactions : FindPublished(r)
  <2>1. PICK r \in Transactions :
            /\ FindPublished(r) /\ disk[Record(r)] = "Published" /\ tx' = r /\ pc' = "dropOld" /\ disk' = disk
    BY <1>8 DEF FindPublished, Takes
  <2>2. disk[Root] # Absent
    BY <2>1, Contents DEF FindPublished
  <2> QED
    BY <2>1, <2>2 DEF FindPublished, Has, StepOK, Unseen, Staged, Written, Unpublished, Unmoved, Early, Aborting, Emptied
<1>9. CASE \E r \in Transactions : FindOldRoot(r)
  <2>1. PICK r \in Transactions :
            /\ FindOldRoot(r) /\ disk[Record(r)] = "Published" /\ tx' = r /\ pc' = "dropStaging" /\ disk' = disk
    BY <1>9 DEF FindOldRoot, Takes
  <2> QED
    BY <2>1 DEF FindOldRoot, Has, StepOK, Unseen, Staged, Written, Unpublished, Unmoved, Early, Aborting, Emptied
<1>10. CASE \E r \in Transactions : FindSpoilt(r)
  <2>1. PICK r \in Transactions :
            /\ FindSpoilt(r) /\ disk[Record(r)] = "Published" /\ tx' = r /\ pc' = "reject" /\ disk' = disk
    BY <1>10 DEF FindSpoilt, Takes
  <2> QED
    BY <2>1 DEF FindSpoilt, Has, StepOK, Unseen, Staged, Written, Unpublished, Unmoved, Early, Aborting, Emptied
<1>11. CASE \E r \in Transactions : FindRejected(r)
  <2>1. PICK r \in Transactions :
            /\ FindRejected(r) /\ disk[Record(r)] = "Published" /\ tx' = r /\ pc' = "restore" /\ disk' = disk
    BY <1>11 DEF FindRejected, Takes
  <2> QED
    BY <2>1 DEF FindRejected, Has, StepOK, Unseen, Staged, Written, Unpublished, Unmoved, Early, Aborting, Emptied
<1>12. CASE \E r \in Transactions : FindUnpublished(r)
  <2>1. PICK r \in Transactions :
            /\ FindUnpublished(r) /\ disk[Record(r)] = "Published" /\ tx' = r /\ pc' = "complete" /\ disk' = disk
    BY <1>12 DEF FindUnpublished, Takes
  <2> QED
    BY <2>1 DEF FindUnpublished, Has, StepOK, Unseen, Staged, Written, Unpublished, Unmoved, Early, Aborting, Emptied
<1>13. CASE DropOld
  <2>1. /\ pc = "dropOld" /\ pc' \in {"dropOld", "dropStaging"} /\ tx' = tx /\ edits' = edits
        /\ tx \in Transactions /\ RecordSame /\ RootSame
    <3>1. pc = "dropOld" /\ pc' \in {"dropOld", "dropStaging"} /\ tx' = tx /\ edits' = edits
      BY <1>13 DEF DropOld, RemoveDir, At, Go, request, bounds
    <3>2. pc \in About /\ pc' # "idle"
      BY <3>1 DEF About, Steps, Recovery
    <3> QED
      BY <1>0, <3>1, <3>2, SamePlaces DEF Recorders
  <2>2. pc' = "dropStaging" => disk'[Old(tx)] = Absent
    BY <1>0, <1>13, <2>1, PutIs, PlacesOf DEF DropOld, RemoveDir, Go, Puts
  <2> QED
    BY <1>0, <2>1, <2>2 DEF RecordSame, RootSame, StepOK, Unseen, Staged, Written, Unpublished, Unmoved, Early, Aborting, Emptied
<1>14. CASE DropStaging
  <2>1. /\ pc = "dropStaging" /\ pc' \in {"dropStaging", "dropRecord"} /\ tx' = tx /\ edits' = edits /\ tx \in Transactions
        /\ OldSame /\ RecordSame /\ RootSame
    <3>1. pc = "dropStaging" /\ pc' \in {"dropStaging", "dropRecord"} /\ tx' = tx /\ edits' = edits
      BY <1>14 DEF DropStaging, RemoveDir, At, Go, request, bounds
    <3>2. pc \in About /\ pc' # "idle"
      BY <3>1 DEF About, Steps, Precommit, Commit, Recovery
    <3> QED
      BY <1>0, <3>1, <3>2, SamePlaces DEF Deeds, Recorders
  <2> QED
    BY <1>0, <2>1, Contents DEF StepOK, Unseen, Staged, Written, Unpublished, Unmoved, Early, Aborting, Emptied, OldSame, RecordSame, RootSame
<1>15. CASE DropRecord \/ DropSync \/ Reject \/ SyncRejected
  BY <1>15 DEF DropRecord, DropSync, Reject, SyncRejected, RemoveRecord, Syncs, Go, StepOK, Unseen, Staged, Written, Unpublished, Unmoved, Early, Aborting, Emptied
<1>16. CASE Restore
  <2>1. pc' = "syncRestored" /\ tx' = tx /\ tx \in Transactions
    BY <1>0, <1>16 DEF Restore, At, Go, Tx, About, Steps, Recovery
  <2>2. disk'[Old(tx)] = Absent /\ disk'[Root] # Absent
    BY <1>0, <1>16, <2>1, MoveIs, PlacesOf DEF Restore, Moves
  <2> QED
    BY <2>1, <2>2 DEF StepOK, Unseen, Staged, Written, Unpublished, Unmoved, Early, Aborting, Emptied
<1>17. CASE SyncRestored
  <2>1. /\ pc = "syncRestored" /\ pc' = "dropStaging" /\ tx' = tx /\ edits' = edits /\ tx \in Transactions
        /\ StagingSame /\ OldSame /\ RecordSame /\ RootSame
    <3>1. pc = "syncRestored" /\ pc' = "dropStaging" /\ tx' = tx /\ edits' = edits
      BY <1>17 DEF SyncRestored, Syncs, At, Go, request, bounds
    <3>2. pc \in About /\ pc' # "idle"
      BY <3>1 DEF About, Steps, Precommit, Commit, Recovery
    <3> QED
      BY <1>0, <3>1, <3>2, SamePlaces DEF Deeds, Recorders
  <2> QED
    BY <1>0, <2>1, Contents DEF StepOK, Unseen, Staged, Written, Unpublished, Unmoved, Early, Aborting, Emptied, StagingSame, OldSame, RecordSame, RootSame
<1>18. CASE Complete
  <2>1. /\ pc = "complete" /\ pc' = "completeMove" /\ tx' = tx /\ edits' = edits /\ tx \in Transactions
        /\ OldSame /\ RecordSame /\ RootSame
    <3>1. pc = "complete" /\ pc' = "completeMove" /\ tx' = tx /\ edits' = edits
      BY <1>18 DEF Complete, At, Go, request, bounds
    <3>2. pc \in About /\ pc' # "idle"
      BY <3>1 DEF About, Steps, Precommit, Commit, Recovery
    <3> QED
      BY <1>0, <3>1, <3>2, SamePlaces DEF Deeds, Recorders
  <2>2. /\ disk[Staging(tx)] # Absent /\ disk[Record(tx)] = "Published" /\ disk[Old(tx)] # Absent
        /\ disk[Staging(tx)] = tx
    BY <1>0, <2>1 DEF StepOK, Sound
  <2>3. \A d \in after : d[Staging(tx)] # Absent
    BY <1>0, <2>1, <2>2, Contents DEF Keeps, Phases
  <2>4. \A d \in after' : d[Staging(tx)] = tx
    <3>1. \A d \in Disks : Put(d, Staging(tx), tx)[Staging(tx)] = tx
      BY <2>1, PutIs, PlacesOf
    <3> QED
      BY <1>0, <1>18, <2>2, <2>3, <3>1 DEF Complete, SyncTree
  <2> QED
    BY <1>0, <2>1, <2>2, <2>3, <2>4, Contents DEF StepOK, Unseen, Staged, Written, Unpublished, Unmoved, Early, Aborting, Emptied, OldSame, RecordSame, RootSame
<1>19. CASE CompleteMove
  <2>1. /\ pc = "completeMove" /\ pc' = "syncCompleted" /\ tx' = tx /\ edits' = edits /\ tx \in Transactions
        /\ OldSame
    <3>1. pc = "completeMove" /\ pc' = "syncCompleted" /\ tx' = tx /\ edits' = edits
      BY <1>19 DEF CompleteMove, At, Go, request, bounds
    <3>2. pc \in About /\ pc' # "idle"
      BY <3>1 DEF About, Steps, Precommit, Commit, Recovery
    <3> QED
      BY <1>0, <3>1, <3>2, SamePlaces DEF Deeds, Recorders
  <2> QED
    BY <1>0, <2>1, Contents DEF StepOK, Unseen, Staged, Written, Unpublished, Unmoved, Early, Aborting, Emptied, OldSame
<1>20. CASE SyncCompleted
  <2>1. /\ pc = "syncCompleted" /\ pc' = "verify" /\ tx' = tx /\ edits' = edits /\ tx \in Transactions
        /\ StagingSame /\ OldSame /\ RecordSame /\ RootSame
    <3>1. pc = "syncCompleted" /\ pc' = "verify" /\ tx' = tx /\ edits' = edits
      BY <1>20 DEF SyncCompleted, Syncs, At, Go, request, bounds
    <3>2. pc \in About /\ pc' # "idle"
      BY <3>1 DEF About, Steps, Precommit, Commit, Recovery
    <3> QED
      BY <1>0, <3>1, <3>2, SamePlaces DEF Deeds, Recorders
  <2> QED
    BY <1>0, <2>1, Contents DEF StepOK, Unseen, Staged, Written, Unpublished, Unmoved, Early, Aborting, Emptied, StagingSame, OldSame, RecordSame, RootSame
<1>21. CASE Verify /\ disk[Root] = tx
  <2>1. /\ pc = "verify" /\ pc' = "dropOld" /\ tx' = tx /\ edits' = edits /\ tx \in Transactions
        /\ StagingSame /\ OldSame /\ RecordSame /\ RootSame
    <3>1. pc = "verify" /\ pc' = "dropOld" /\ tx' = tx /\ edits' = edits
      BY <1>21 DEF Verify, At, Go, request, bounds
    <3>2. pc \in About /\ pc' # "idle"
      BY <3>1 DEF About, Steps, Precommit, Commit, Recovery
    <3> QED
      BY <1>0, <3>1, <3>2, SamePlaces DEF Deeds, Recorders
  <2> QED
    BY <1>0, <2>1, <1>21, Contents DEF StepOK, Unseen, Staged, Written, Unpublished, Unmoved, Early, Aborting, Emptied, StagingSame, OldSame, RecordSame, RootSame
<1>22. CASE Verify /\ disk[Root] # tx
  <2>1. /\ pc = "verify" /\ pc' = "reject" /\ tx' = tx /\ edits' = edits /\ tx \in Transactions
        /\ StagingSame /\ OldSame /\ RecordSame /\ RootSame
    <3>1. pc = "verify" /\ pc' = "reject" /\ tx' = tx /\ edits' = edits
      BY <1>22 DEF Verify, At, Go, request, bounds
    <3>2. pc \in About /\ pc' # "idle"
      BY <3>1 DEF About, Steps, Precommit, Commit, Recovery
    <3> QED
      BY <1>0, <3>1, <3>2, SamePlaces DEF Deeds, Recorders
  <2> QED
    BY <1>0, <2>1, Contents DEF StepOK, Unseen, Staged, Written, Unpublished, Unmoved, Early, Aborting, Emptied, StagingSame, OldSame, RecordSame, RootSame
<1> QED
  BY <1>1, <1>2, <1>3, <1>4, <1>5, <1>6, <1>7, <1>8, <1>9, <1>10, <1>11, <1>12, <1>13, <1>14, <1>15, <1>16, <1>17, <1>18, <1>19, <1>20, <1>21, <1>22 DEF Recover

\* A begin, an opening, a stop, a power loss and what is done from outside.
LEMMA KnownElse ==
    ASSUME OInv, Changes, Begun \/ Open \/ Stop \/ PowerLoss \/ WriteBack \/ UNCHANGED vars
           \/ \E e \in Edits : Edit(e)
    PROVE  StepOK'
<1>0. /\ TypeOK /\ Tx /\ FreshOK /\ StepOK /\ RecordsOK
      /\ disk \in Disks /\ disk \in after /\ \A d \in after : d \in Disks
      /\ \A d \in after : Sound(d) /\ Keeps(d, disk)
      /\ disk' \in Disks /\ disk' \in after' /\ \A d \in after' : d \in Disks
      /\ UpToDate \subseteq after
  BY DisksStep DEF OInv, SInv, TypeOK, Tx, Kept, UpToDate
<1>1. CASE Begun \/ Open \/ Stop \/ PowerLoss
  BY <1>1 DEF Begun, Begin, Open, Stop, PowerLoss, Go, StepOK, Unseen, Staged, Written, Unpublished, Unmoved, Early, Aborting, Emptied
<1>2. CASE WriteBack \/ UNCHANGED vars
  <2>1. /\ disk' = disk /\ pc' = pc /\ tx' = tx /\ base' = base
        /\ \A d \in after' : d \in after
    BY <1>0, <1>2 DEF WriteBack, vars
  <2> QED
    BY <1>0, <2>1 DEF StepOK
<1>3. CASE \E e \in Edits : Edit(e)
  <2>1. PICK e \in world.edits \ edits :
            /\ pc \notin Unseen /\ disk' = Put(disk, Root, e)
            /\ \A d \in after' : \E o \in after : d = Put(o, Root, e)
            /\ pc' = pc /\ tx' = tx /\ base' = base
    BY <1>3 DEF Edit
  <2>2. e \in Whole
    BY <1>0, <2>1, WorldsAssumption DEF TypeOK, Whole
  <2>3. disk'[Root] # Absent /\ \A p \in Directories \cup Records : p # Root => disk'[p] = disk[p]
    BY <1>0, <2>1, <2>2, PutIs, Places, Contents
  <2>4. CASE pc \in About
    <3>1. tx \in Transactions
      BY <1>0, <2>4 DEF Tx
    <3>2. /\ disk'[Staging(tx)] = disk[Staging(tx)] /\ disk'[Old(tx)] = disk[Old(tx)]
          /\ disk'[Record(tx)] = disk[Record(tx)]
      BY <2>3, <3>1, PlacesOf, Places
    <3>3. \A d \in after' : \E o \in after : d[Staging(tx)] = o[Staging(tx)]
      <4>1. \A o \in after : Put(o, Root, e)[Staging(tx)] = o[Staging(tx)]
        BY <1>0, <3>1, PutIs, PlacesOf, Places
      <4> QED
        BY <2>1, <4>1
    <3> QED
      BY <1>0, <2>1, <2>3, <3>2, <3>3 DEF StepOK
  <2>5. CASE pc \notin About
    <3>1. pc \in {"idle", "recover"}
      BY <1>0, <2>5 DEF TypeOK, About
    <3> QED
      BY <2>1, <3>1 DEF StepOK, Unseen, Staged, Written, Unpublished, Unmoved, Early, Aborting, Emptied
  <2> QED
    BY <2>4, <2>5
<1> QED
  BY <1>1, <1>2, <1>3

LEMMA StepStep ==
    ASSUME OInv, Changes, [Next]_vars
    PROVE  StepOK'
  BY KnownApply, KnownFail, KnownRecover, KnownElse DEF Next, Begun

-----------------------------------------------------------------------------
(* Nothing is lost.                                                         *)

LEMMA WorldStays ==
    ASSUME [Next]_vars
    PROVE  world' = world
<1>1. CASE Begun \/ Open \/ Fail \/ Stop \/ PowerLoss \/ WriteBack \/ UNCHANGED vars
  BY <1>1 DEF Begun, Begin, Open, Fail, Stop, PowerLoss, WriteBack, vars, Go, request, bounds
<1>2. CASE \E e \in Edits : Edit(e)
  BY <1>2 DEF Edit
<1>3. CASE Apply
  <2>1. CASE FindStale \/ CheckBase \/ CreateStaging \/ SyncStaging \/ PersistPrepared
             \/ SyncPrepared \/ WriteStaging \/ SyncStaged \/ Recheck
    BY <2>1 DEF FindStale, CheckBase, CreateStaging, SyncStaging, PersistPrepared, SyncPrepared,
           WriteStaging, SyncStaged, Recheck, Syncs, Go, request, bounds
  <2>2. CASE PersistOldMoved \/ SyncOldMoved \/ MoveOld \/ SyncMoved \/ PersistPublished
             \/ SyncPublished \/ Publish \/ SyncRoot \/ FinalizeOld \/ FinalizeRecord
             \/ FinalSync \/ AbortStaging \/ AbortRecord
    BY <2>2 DEF PersistOldMoved, SyncOldMoved, MoveOld, SyncMoved, PersistPublished,
           SyncPublished, Publish, SyncRoot, FinalizeOld, FinalizeRecord, FinalSync,
           AbortStaging, AbortRecord, RemoveDir, RemoveRecord, Syncs, Go, request, bounds
  <2> QED
    BY <1>3, <2>1, <2>2 DEF Apply
<1>4. CASE Recover
  <2>1. CASE FindNothing \/ FindTaken \/ \E r \in Transactions : Refuse(r)
    BY <2>1 DEF FindNothing, FindTaken, Refuse, request, bounds
  <2>2. ASSUME NEW r \in Transactions,
               \/ FindPrepared(r) \/ FindMoveDone(r) \/ FindNotMoved(r) \/ FindMoved(r)
               \/ FindPublished(r) \/ FindOldRoot(r) \/ FindSpoilt(r)
               \/ FindRejected(r) \/ FindUnpublished(r)
        PROVE  world' = world
    BY <2>2 DEF FindPrepared, FindMoveDone, FindNotMoved, FindMoved, FindPublished, FindOldRoot,
           FindSpoilt, FindRejected, FindUnpublished, Takes, request, bounds
  <2>3. CASE DropOld \/ DropStaging \/ DropRecord \/ DropSync \/ Restore \/ SyncRestored
             \/ Complete \/ CompleteMove \/ SyncCompleted \/ Verify \/ Reject \/ SyncRejected
    BY <2>3 DEF DropOld, DropStaging, DropRecord, DropSync, Restore, SyncRestored, Complete,
           CompleteMove, SyncCompleted, Verify, Reject, SyncRejected, RemoveDir, RemoveRecord,
           Syncs, Go, request, bounds
  <2> QED
    BY <1>4, <2>1, <2>2, <2>3 DEF Recover
<1> QED
  BY <1>1, <1>2, <1>3, <1>4 DEF Next, Begun

LEMMA KeptStep ==
    ASSUME OInv, [Next]_vars
    PROVE  OInv'
<1>0. TypeOK /\ Tx /\ FreshOK
  BY DEF OInv, SInv, Tx, Kept
<1>1. Changes
  BY <1>0, EveryChange
<1>2. \A d \in after' : Sound(d) /\ Keeps(d, disk')
  BY <1>1, GoodStep DEF Good
<1>3. ASSUME NEW d \in after', base' = base
      PROVE  Sound(d)'
  BY <1>2, <1>3 DEF Sound
<1>4. ASSUME NEW d \in after', Begun
      PROVE  Sound(d)'
  <2>1. PICK t \in Transactions, b \in Transactions \cup world.edits \cup {Original} : Begin(t, b)
    BY <1>4 DEF Begun
  <2>2. Fresh(t) /\ after' = after /\ \A s \in Transactions \ {t} : base'[s] = base[s]
    BY <1>0, <2>1 DEF Begin, FreshOK, TypeOK
  <2>3. d[Old(t)] \notin Whole
    BY <2>2, Contents DEF Fresh
  <2>4. \A s \in Transactions : d[Old(s)] \in Whole => d[Old(s)] = base'[s]
    BY <1>2, <2>2, <2>3 DEF Sound
  <2> QED
    BY <1>2, <2>4 DEF Sound
<1>5. base' = base \/ Begun
  BY <1>0, Flow DEF Onward, Quits, Taken, Open, FindNothing, Stays, Go, request
<1>6. FreshOK' /\ StepOK'
  BY <1>1, FreshStep, StepStep
<1>7. (\A d \in after : Sound(d) /\ Keeps(d, disk))'
  <2>1. \A d \in after' : Sound(d)'
    BY <1>3, <1>4, <1>5
  <2>2. \A d \in after' : Keeps(d, disk')
    BY <1>2
  <2> QED
    BY <2>1, <2>2 DEF Keeps, Gone
<1>8. Kept'
  BY <1>6, <1>7 DEF Kept
<1> QED
  BY <1>8, SInvStep, WorldStays DEF OInv

LEMMA KeptInit ==
    ASSUME Init, ~world.reorders
    PROVE  OInv
<1>1. SInv
  BY SInvInit
<1>2. /\ disk[Root] = Original /\ after = {disk} /\ disk \in Disks
      /\ \A t \in Transactions : /\ disk[Staging(t)] = Absent /\ disk[Old(t)] = Absent
                                 /\ disk[Rejected(t)] = Absent /\ disk[Record(t)] = Absent
  BY <1>1, PlacesOf, Places DEF Init, SInv, TypeOK
<1>3. Sound(disk)
  BY <1>2, Contents DEF Sound
<1>4. Match(disk, disk)
  BY DEF Match
<1>5. Keeps(disk, disk)
  BY <1>2, <1>4, MatchKeeps
<1>6. FreshOK
  BY <1>2 DEF Init, FreshOK, Fresh, About, Steps, Recovery, Early, Unmoved
<1>7. StepOK
  BY DEF Init, StepOK, Unseen, Staged, Written, Unpublished, Unmoved, Early, Aborting, Emptied
<1> QED
  BY <1>1, <1>2, <1>3, <1>5, <1>6, <1>7 DEF OInv, Kept

\* Who drops an old container does so for a content the root has had.
HadOK ==
    /\ disk[Root] \in Transactions => disk[Root] \in had
    /\ pc \in {"syncRoot", "finalOld", "dropOld"} => tx \in had
HInv == OInv /\ HadOK

LEMMA HadStep ==
    ASSUME HInv, [Next]_vars
    PROVE  HadOK'
<1>0. /\ TypeOK /\ Tx /\ StepOK /\ HadOK /\ Changes
      /\ disk \in Disks /\ disk \in after
  BY EveryChange DEF HInv, OInv, SInv, TypeOK, Tx, Kept
<1>1. had \subseteq had' /\ (disk'[Root] \in Transactions => disk'[Root] \in had')
  BY <1>0, Remembered DEF Remembers, HadOK
<1> SUFFICES ASSUME pc' \in {"syncRoot", "finalOld", "dropOld"}
             PROVE  tx' \in had'
  BY <1>1 DEF HadOK
<1>2. ASSUME pc \in {"syncRoot", "finalOld", "dropOld"}, tx' = tx
      PROVE  tx' \in had'
  BY <1>0, <1>1, <1>2 DEF HadOK
<1>3. CASE Begun \/ Open \/ Fail \/ Stop \/ PowerLoss
  BY <1>3 DEF Begun, Begin, Open, Fail, Stop, PowerLoss, Go
<1>4. CASE WriteBack \/ UNCHANGED vars
  BY <1>2, <1>4 DEF WriteBack, vars
<1>5. CASE \E e \in Edits : Edit(e)
  BY <1>2, <1>5 DEF Edit
<1>6. CASE Apply
  <2>1. CASE FindStale \/ CheckBase \/ CreateStaging \/ SyncStaging \/ PersistPrepared
             \/ SyncPrepared \/ WriteStaging \/ SyncStaged \/ Recheck
    BY <2>1 DEF FindStale, CheckBase, CreateStaging, SyncStaging, PersistPrepared, SyncPrepared,
           WriteStaging, SyncStaged, Recheck, Syncs, Go
  <2>2. CASE PersistOldMoved \/ SyncOldMoved \/ MoveOld \/ SyncMoved \/ PersistPublished
             \/ SyncPublished \/ FinalizeRecord \/ FinalSync \/ AbortStaging \/ AbortRecord
    BY <2>2 DEF PersistOldMoved, SyncOldMoved, MoveOld, SyncMoved, PersistPublished,
           SyncPublished, FinalizeRecord, FinalSync, AbortStaging, AbortRecord, RemoveDir,
           RemoveRecord, Syncs, At, Go
  <2>3. CASE SyncRoot \/ FinalizeOld
    BY <1>2, <2>3 DEF SyncRoot, FinalizeOld, RemoveDir, Syncs, At, Go
  <2>4. CASE Publish
    <3>1. /\ tx \in Transactions /\ Staging(tx) \in Directories /\ Root \in Directories
          /\ Root # Staging(tx) /\ disk[Staging(tx)] = tx
      BY <1>0, <2>4, PlacesOf DEF Publish, At, Tx, About, Steps, Commit, StepOK, Written
    <3>2. disk'[Root] = tx /\ tx' = tx
      BY <1>0, <2>4, <3>1, MoveIs DEF Publish, Moves, Go
    <3> QED
      BY <1>1, <3>1, <3>2
  <2> QED
    BY <1>6, <2>1, <2>2, <2>3, <2>4 DEF Apply
<1>7. CASE Recover
  <2>1. CASE FindNothing \/ FindTaken \/ \E r \in Transactions : Refuse(r)
    BY <2>1 DEF FindNothing, FindTaken, Refuse
  <2>2. ASSUME NEW r \in Transactions,
               \/ FindPrepared(r) \/ FindNotMoved(r) \/ FindMoved(r) \/ FindOldRoot(r)
               \/ FindSpoilt(r) \/ FindRejected(r) \/ FindUnpublished(r)
        PROVE  FALSE
    BY <2>2 DEF FindPrepared, FindNotMoved, FindMoved, FindOldRoot, FindSpoilt, FindRejected,
           FindUnpublished, Takes
  <2>3. ASSUME NEW r \in Transactions, FindMoveDone(r) \/ FindPublished(r)
        PROVE  tx' \in had'
    BY <1>1, <2>3 DEF FindMoveDone, FindPublished, Takes
  <2>4. CASE DropStaging \/ DropRecord \/ DropSync \/ Restore \/ SyncRestored
             \/ Complete \/ CompleteMove \/ SyncCompleted \/ Reject \/ SyncRejected
    BY <2>4 DEF DropStaging, DropRecord, DropSync, Restore, SyncRestored, Complete,
           CompleteMove, SyncCompleted, Reject, SyncRejected, RemoveDir, RemoveRecord,
           Syncs, At, Go
  <2>5. CASE DropOld
    BY <1>2, <2>5 DEF DropOld, RemoveDir, At, Go
  <2>6. CASE Verify
    <3>1. tx \in Transactions /\ disk[Root] = tx /\ tx' = tx /\ disk' = disk
      BY <1>0, <2>6 DEF Verify, At, Go, Tx, About, Steps, Recovery
    <3> QED
      BY <1>1, <3>1
  <2> QED
    BY <1>7, <2>1, <2>2, <2>3, <2>4, <2>5, <2>6 DEF Recover
<1> QED
  BY <1>3, <1>4, <1>5, <1>6, <1>7 DEF Next, Begun

LEMMA NoLossStep ==
    ASSUME HInv, [Next]_vars, edits' = edits, NEW p \in Guarded, disk[p] \in Whole
    PROVE  \/ disk[p] \in {disk'[q] : q \in Directories}
           \/ \E t \in had : p = Old(t) /\ disk[p] = base[t]
<1>0. /\ TypeOK /\ Tx /\ disk \in Disks /\ disk \in after /\ p \in Directories
      /\ \A d \in after : Sound(d) /\ Keeps(d, disk)
  BY Places DEF HInv, OInv, SInv, TypeOK, Tx, Kept
<1>1. Changes /\ disk' \in Disks
  BY <1>0, EveryChange, DisksStep
<1>2. SUFFICES \/ \E q \in Directories : disk'[q] = disk[p]
               \/ \E t \in had : p = Old(t) /\ disk[p] = base[t]
  OBVIOUS
<1>3. CASE Same \/ SyncParent \/ SyncTree(Staging(tx))
  BY <1>0, <1>3 DEF Same, SyncParent, SyncTree
<1>4. CASE Settles
  BY <1>0, <1>4 DEF Settles, Keeps
<1>5. CASE Marks
  <2>1. tx \in Transactions
    BY <1>0, <1>5 DEF Marks, Tx, About, Steps, Precommit, Commit, Recovery
  <2>2. p # Record(tx) /\ Record(tx) \in Records
    BY <1>0, <2>1, Places
  <2>3. \A c : Put(disk, Record(tx), c)[p] = disk[p]
    BY <1>0, <2>2, PutIs
  <2> QED
    BY <1>0, <1>5, <2>3 DEF Marks, Puts
<1>6. CASE \/ pc = "create" /\ Puts(Staging(tx), Torn)
           \/ pc = "write" /\ Writes
           \/ pc \in {"abort", "dropStaging"} /\ Removes(Staging(tx))
  <2>1. tx \in Transactions
    BY <1>0, <1>6 DEF Tx, About, Steps, Precommit, Recovery
  <2>2. p # Staging(tx) /\ Staging(tx) \in Directories
    BY <2>1, PlacesOf
  <2>3. /\ \A c : Put(disk, Staging(tx), c)[p] = disk[p]
        /\ Tear(disk, Staging(tx))[p] = disk[p]
    BY <1>0, <2>2, PutIs, TearIs
  <2> QED
    BY <1>0, <1>6, <2>3 DEF Puts, Writes, Removes, Tears
<1>7. CASE pc \in {"finalOld", "dropOld"} /\ Removes(Old(tx))
  <2>1. tx \in Transactions /\ Old(tx) \in Directories
    BY <1>0, <1>7, Places DEF Tx, About, Steps, Commit, Recovery
  <2>2. CASE p = Old(tx)
    <3>1. tx \in had
      BY <1>7 DEF HInv, HadOK
    <3> QED
      BY <1>0, <2>1, <2>2, <3>1 DEF Sound
  <2>3. CASE p # Old(tx)
    <3>1. /\ \A c : Put(disk, Old(tx), c)[p] = disk[p]
          /\ Tear(disk, Old(tx))[p] = disk[p]
      BY <1>0, <2>1, <2>3, PutIs, TearIs
    <3> QED
      BY <1>0, <1>7, <3>1 DEF Puts, Removes, Tears
  <2> QED
    BY <2>2, <2>3
<1>8. ASSUME NEW a \in Directories, NEW b \in Directories, a # b, Moves(a, b)
      PROVE  \E q \in Directories : disk'[q] = disk[p]
  <2>1. p # b
    BY <1>8, Contents DEF Moves
  <2>2. /\ disk \in Disks /\ p \in Directories
        /\ disk[a] # Absent /\ disk[b] = Absent /\ disk' = Move(disk, a, b)
    BY <1>0, <1>8 DEF Moves
  <2>3. Move(disk, a, b)[b] = disk[a] /\ (p # a => Move(disk, a, b)[p] = disk[p])
    BY <1>8, <2>1, <2>2, MoveIs
  <2> QED
    BY <2>2, <2>3
<1>9. CASE \/ pc = "moveOld" /\ Moves(Root, Old(tx))
           \/ pc \in {"publish", "completeMove"} /\ Moves(Staging(tx), Root)
           \/ pc = "restore" /\ Moves(Old(tx), Root)
           \/ pc = "reject" /\ Moves(Root, Rejected(tx))
  <2>1. tx \in Transactions
    BY <1>0, <1>9 DEF Tx, About, Steps, Commit, Recovery
  <2> QED
    BY <1>8, <1>9, <2>1, PlacesOf
<1>10. CASE Disturbs
  BY <1>10 DEF Disturbs
<1> QED
  BY <1>1, <1>3, <1>4, <1>5, <1>6, <1>7, <1>9, <1>10 DEF Changes

\* Where the order of the changes of a directory is kept, whoever writes the
\* vault and whenever the process or the power goes, no step of an apply or of
\* a recovery loses a content: of the root, of an old container or of a rejected
\* one.  Only the content an apply was made against may go from its container,
\* and only when the root has had the content that takes its place.
THEOREM NothingIsLost == Spec /\ ~world.reorders => NothingLost
<1>1. Init /\ ~world.reorders => HInv
  <2>1. Init => HadOK
    BY Places DEF Init, HadOK
  <2> QED
    BY <2>1, KeptInit DEF HInv
<1>2. HInv /\ [Next]_vars => HInv'
  BY KeptStep, HadStep DEF HInv
<1>3. HInv /\ [Next]_vars =>
         [edits' = edits =>
            \A p \in Guarded :
                disk[p] \in Whole =>
                    \/ disk[p] \in {disk'[q] : q \in Directories}
                    \/ \E t \in had : p = Old(t) /\ disk[p] = base[t]]_vars
  BY NoLossStep
<1> QED
  BY <1>1, <1>2, <1>3, PTL DEF Spec, NothingLost

-----------------------------------------------------------------------------
(* All, or old, or new.                                                     *)

Covered(d) ==
    \/ d[Root] \in Whole
    \/ /\ d[Root] = Absent
       /\ \E t \in Transactions :
            \/ d[Record(t)] \in {"OldMoved", "Published"} /\ d[Old(t)] \in Whole
            \/ /\ d[Record(t)] = "Published"
               /\ d[Old(t)] = Torn /\ d[Staging(t)] = t
Replaced(d) ==
    \A t \in Transactions :
       d[Record(t)] = "Published" /\ d[Root] # Absent /\ d[Old(t)] # Absent => d[Root] = t

LEMMA SecureIs ==
    ASSUME NEW d
    PROVE  Secure(d) <=> Covered(d) /\ Replaced(d)
  BY DEF Secure, Covered, Replaced

\* A change elsewhere than at the root.
LEMMA SecureElsewhere ==
    ASSUME NEW d, NEW f, Secure(d), d[Root] # Absent, f[Root] = d[Root],
           \A t \in Transactions :
              f[Record(t)] = "Published" /\ f[Old(t)] # Absent =>
                 d[Record(t)] = "Published" /\ d[Old(t)] # Absent
    PROVE  Secure(f)
<1>1. Covered(d) /\ Replaced(d)
  BY SecureIs
<1>2. Covered(f)
  BY <1>1 DEF Covered
<1>3. Replaced(f)
  BY <1>1 DEF Replaced
<1> QED
  BY <1>2, <1>3, SecureIs

LEMMA SecureStep ==
    ASSUME OInv, Undisturbed, Secured, Changes
    PROVE  \A d \in after' : Secure(d)
<1>0. /\ disk \in Disks /\ disk \in after /\ \A d \in after : d \in Disks
      /\ \A d \in after : Sound(d) /\ Keeps(d, disk) /\ Secure(d)
      /\ FreshOK /\ StepOK /\ TypeOK /\ Tx /\ RecordsOK
      /\ UpToDate \subseteq after
  BY DEF OInv, SInv, TypeOK, Kept, Tx, UpToDate, Secured
<1>1. CASE Same \/ SyncParent \/ Settles
  BY <1>0, <1>1 DEF Same, SyncParent, Settles
<1>2. \A d \in UpToDate : /\ d \in Disks /\ Sound(d) /\ Match(d, disk) /\ Secure(d)
                          /\ (d[Root] = Absent <=> disk[Root] = Absent)
  BY <1>0, UpToDateIs, Places DEF Match
<1>3. CASE Marks
  <2>1. tx \in Transactions
    BY <1>0, <1>3 DEF Marks, Tx, About, Steps, Precommit, Commit, Recovery
  <2>2. PICK c \in Phases \cup {Absent} :
           /\ Puts(Record(tx), c)
           /\ \/ c = "Published" /\ pc = "published"
              \/ c # "Published" /\ pc \in Rooted
    BY <1>3, Contents DEF Marks, Phases, Rooted, Unmoved, Aborting, Final
  <2>3. ASSUME NEW d \in UpToDate
        PROVE  Secure(Put(d, Record(tx), c))
    <3> DEFINE f == Put(d, Record(tx), c)
    <3>1. /\ f[Record(tx)] = c /\ f[Root] = d[Root]
          /\ \A s \in Transactions : f[Old(s)] = d[Old(s)] /\ f[Staging(s)] = d[Staging(s)]
          /\ \A s \in Transactions \ {tx} : f[Record(s)] = d[Record(s)]
      BY <1>2, <2>1, PutIs, PlacesOf, Places
    <3> HIDE DEF f
    <3>2. CASE c # "Published" /\ pc \in Rooted
      <4>1. d[Root] # Absent
        BY <1>2, <3>2 DEF Secured
      <4> QED
        BY <1>2, <3>1, <3>2, <4>1, SecureElsewhere DEF f
    <3>3. CASE c = "Published" /\ pc = "published"
      <4>1. d[Root] = Absent /\ Covered(d)
        BY <1>2, <3>3, SecureIs DEF Secured
      <4>2. PICK t \in Transactions :
               \/ d[Record(t)] \in {"OldMoved", "Published"} /\ d[Old(t)] \in Whole
               \/ /\ d[Record(t)] = "Published"
                  /\ d[Old(t)] = Torn /\ d[Staging(t)] = t
        BY <4>1, Contents DEF Covered
      <4>3. t = tx
        BY <1>0, <3>3, <4>2, Contents DEF RecordsOK, OnlyOf, Staged, Phases
      <4>4. Covered(f)
        BY <2>1, <3>1, <3>3, <4>1, <4>2, <4>3 DEF Covered
      <4>5. Replaced(f)
        BY <3>1, <4>1 DEF Replaced
      <4> QED
        BY <4>4, <4>5, SecureIs DEF f
    <3> QED
      BY <2>2, <3>2, <3>3
  <2> QED
    BY <1>0, <2>2, <2>3 DEF Puts
<1>4. CASE pc \in {"syncTree", "complete"} /\ SyncTree(Staging(tx))
  <2>1. tx \in Transactions
    BY <1>0, <1>4 DEF Tx, About, Steps, Precommit, Recovery
  <2>2. disk[Staging(tx)] = tx
    <3>1. CASE pc = "syncTree"
      BY <1>0, <3>1 DEF StepOK
    <3>2. CASE pc = "complete"
      <4>1. disk[Staging(tx)] # Absent /\ disk[Record(tx)] = "Published" /\ disk[Old(tx)] # Absent
        BY <1>0, <3>2 DEF StepOK
      <4> QED
        BY <1>0, <2>1, <4>1 DEF Sound
    <3> QED
      BY <1>4, <3>1, <3>2
  <2>3. ASSUME NEW d \in after
        PROVE  Secure(Put(d, Staging(tx), tx))
    <3> DEFINE f == Put(d, Staging(tx), tx)
    <3>1. /\ f[Staging(tx)] = tx /\ f[Root] = d[Root]
          /\ \A s \in Transactions : f[Old(s)] = d[Old(s)] /\ f[Record(s)] = d[Record(s)]
          /\ \A s \in Transactions \ {tx} : f[Staging(s)] = d[Staging(s)]
      BY <1>0, <2>1, PutIs, PlacesOf, Places
    <3> HIDE DEF f
    <3>2. Covered(d) /\ Replaced(d)
      BY <1>0, SecureIs
    <3>3. Covered(f)
      BY <2>1, <3>1, <3>2 DEF Covered
    <3>4. Replaced(f)
      BY <3>1, <3>2 DEF Replaced
    <3> QED
      BY <3>3, <3>4, SecureIs DEF f
  <2> QED
    BY <1>0, <1>4, <2>2, <2>3 DEF SyncTree
<1>5. ASSUME NEW d \in UpToDate, tx \in Transactions, pc \in Rooted, NEW c,
             NEW p \in {Staging(tx), Old(tx)}, p = Old(tx) /\ c # Absent => d[p] # Absent
      PROVE  Secure(Put(d, p, c))
  <2>1. p \in Directories /\ p # Root
    BY <1>5, PlacesOf
  <2>2. /\ Put(d, p, c)[Root] = d[Root]
        /\ \A s \in Transactions : Put(d, p, c)[Record(s)] = d[Record(s)]
        /\ \A s \in Transactions : Put(d, p, c)[Old(s)] # Absent => d[Old(s)] # Absent
    BY <1>2, <1>5, <2>1, PutIs, PlacesOf, Places
  <2>3. d[Root] # Absent
    BY <1>2, <1>5 DEF Secured
  <2> QED
    BY <1>2, <2>2, <2>3, SecureElsewhere
<1>6. ASSUME pc \in Rooted, tx \in Transactions, NEW p \in {Staging(tx), Old(tx)}, Removes(p)
      PROVE  \A d \in after' : Secure(d)
  <2>1. CASE Tears(p)
    <3>1. \A d \in UpToDate : Secure(Tear(d, p))
      BY <1>2, <1>5, <1>6 DEF Tear, Put
    <3> QED
      BY <1>0, <2>1, <3>1 DEF Tears
  <2>2. CASE Puts(p, Absent)
    <3>1. \A d \in UpToDate : Secure(Put(d, p, Absent))
      BY <1>5, <1>6
    <3> QED
      BY <1>0, <2>2, <3>1 DEF Puts
  <2> QED
    BY <1>6, <2>1, <2>2 DEF Removes
<1>7. CASE \/ pc \in {"abort", "dropStaging"} /\ Removes(Staging(tx))
           \/ pc \in {"finalOld", "dropOld"} /\ Removes(Old(tx))
  <2>1. tx \in Transactions /\ pc \in Rooted
    BY <1>0, <1>7 DEF Tx, About, Steps, Commit, Recovery, Rooted, Aborting, Final
  <2> QED
    BY <1>6, <1>7, <2>1
<1>8. CASE \/ pc = "create" /\ Puts(Staging(tx), Torn)
           \/ pc = "write" /\ Writes
  <2>1. tx \in Transactions /\ pc \in Rooted /\ Staging(tx) # Old(tx)
    BY <1>0, <1>8, PlacesOf DEF Tx, About, Steps, Precommit, Rooted, Unmoved
  <2>2. disk \in UpToDate
    BY <1>0 DEF UpToDate
  <2>3. \A d \in UpToDate, c \in {tx, Torn} : Secure(Put(d, Staging(tx), c))
    BY <1>5, <2>1
  <2> QED
    BY <1>0, <1>8, <2>2, <2>3 DEF Puts, Writes
<1>9. CASE pc = "moveOld" /\ Moves(Root, Old(tx))
  <2>1. tx \in Transactions /\ Old(tx) \in Directories /\ Root \in Directories /\ Root # Old(tx)
        /\ Root \in Guarded
    BY <1>0, <1>9, PlacesOf DEF Tx, About, Steps, Commit
  <2>2. disk[Root] # Absent /\ disk[Old(tx)] = Absent /\ disk[Record(tx)] = "OldMoved"
    BY <1>0, <1>9 DEF Moves, StepOK
  <2>3. ASSUME NEW d \in UpToDate
        PROVE  Secure(Move(d, Root, Old(tx)))
    <3> DEFINE f == Move(d, Root, Old(tx))
    <3>1. d[Root] # Absent /\ d[Old(tx)] = Absent /\ d[Record(tx)] = "OldMoved"
      BY <1>2, <2>1, <2>2 DEF Match
    <3>2. d[Root] \in Whole
      BY <1>2, <3>1, SecureIs DEF Covered
    <3>3. f[Root] = Absent /\ f[Old(tx)] \in Whole /\ f[Record(tx)] = "OldMoved"
      <4>1. /\ f[Root] = Absent /\ f[Old(tx)] = d[Root]
            /\ \A q \in Directories \cup Records : q \notin {Root, Old(tx)} => f[q] = d[q]
        BY <1>2, <2>1, <3>1, MoveIs
      <4>2. Record(tx) \in Records /\ Record(tx) \notin {Root, Old(tx)}
        BY <2>1, Places
      <4> QED
        BY <3>1, <3>2, <4>1, <4>2
    <3> HIDE DEF f
    <3>4. Secure(f)
      BY <2>1, <3>3 DEF Secure
    <3> QED
      BY <3>4 DEF f
  <2> QED
    BY <1>0, <1>9, <2>3 DEF Moves
<1>10. CASE pc \in {"publish", "completeMove"} /\ Moves(Staging(tx), Root)
  <2>1. tx \in Transactions /\ Staging(tx) \in Directories /\ Root \in Directories /\ Root # Staging(tx)
    BY <1>0, <1>10, PlacesOf DEF Tx, About, Steps, Commit, Recovery
  <2>2. \A d \in after : d[Staging(tx)] = tx
    BY <1>0, <1>10 DEF StepOK, Written
  <2>3. disk[Root] = Absent /\ tx # Absent /\ tx \in Whole
    BY <1>10, <2>1, Contents DEF Moves
  <2>4. \A d \in UpToDate, s \in Transactions \ {tx} : d[Record(s)] = Absent
    <3>1. CASE pc = "publish"
      BY <1>0, <3>1 DEF RecordsOK, OnlyOf, Staged
    <3>2. CASE pc = "completeMove"
      <4>1. disk[Record(tx)] # Absent
        BY <1>0, <3>2, Contents DEF StepOK, Phases
      <4> QED
        BY <1>0, <1>2, <2>1, <4>1 DEF RecordsOK, OneRecord, Match
    <3> QED
      BY <1>10, <3>1, <3>2
  <2>5. ASSUME NEW d \in UpToDate
        PROVE  Secure(Move(d, Staging(tx), Root))
    <3> DEFINE f == Move(d, Staging(tx), Root)
    <3>1. d[Root] = Absent /\ d[Staging(tx)] = tx
      BY <1>0, <1>2, <2>2, <2>3
    <3>2. f[Root] = tx /\ \A s \in Transactions : f[Record(s)] = d[Record(s)]
      <4>1. /\ f[Root] = d[Staging(tx)]
            /\ \A q \in Directories \cup Records : q \notin {Root, Staging(tx)} => f[q] = d[q]
        BY <1>2, <2>1, <2>3, <3>1, MoveIs
      <4>2. \A s \in Transactions : Record(s) \in Records /\ Record(s) \notin {Root, Staging(tx)}
        BY <2>1, Places
      <4> QED
        BY <3>1, <4>1, <4>2
    <3>3. \A s \in Transactions : f[Record(s)] = "Published" => s = tx
      BY <2>4, <3>2, Contents DEF Phases
    <3> HIDE DEF f
    <3>4. Secure(f)
      BY <2>3, <3>2, <3>3 DEF Secure
    <3> QED
      BY <3>4 DEF f
  <2> QED
    BY <1>0, <1>10, <2>5 DEF Moves
<1>11. CASE pc = "restore" /\ Moves(Old(tx), Root)
  <2>1. tx \in Transactions /\ Old(tx) \in Directories /\ Staging(tx) \in Directories
        /\ Root \in Directories /\ Root # Old(tx)
    BY <1>0, <1>11, PlacesOf DEF Tx, About, Steps, Recovery
  <2>2. /\ disk[Root] = Absent /\ disk[Old(tx)] # Absent
        /\ disk[Record(tx)] = "OldMoved" \/ disk[Staging(tx)] = Absent
    BY <1>11 DEF Moves, Secured
  <2>3. ASSUME NEW d \in UpToDate
        PROVE  Secure(Move(d, Old(tx), Root))
    <3> DEFINE f == Move(d, Old(tx), Root)
    <3>1. /\ d[Root] = Absent /\ d[Old(tx)] # Absent
          /\ d[Record(tx)] = "OldMoved" \/ d[Staging(tx)] = Absent
      BY <1>2, <2>1, <2>2 DEF Match
    <3>2. d[Record(tx)] # Absent
      BY <1>2, <2>1, <3>1, Contents DEF Sound, Phases
    <3>3. PICK t \in Transactions :
             \/ d[Record(t)] \in {"OldMoved", "Published"} /\ d[Old(t)] \in Whole
             \/ /\ d[Record(t)] = "Published"
                /\ d[Old(t)] = Torn /\ d[Staging(t)] = t
      BY <1>2, <3>1, SecureIs, Contents DEF Covered
    <3>4. \A s \in Transactions : d[Record(s)] # Absent => s = tx
      BY <1>0, <2>1, <3>2 DEF RecordsOK, OneRecord
    <3>5. t = tx
      BY <3>3, <3>4, Contents DEF Phases
    <3>6. d[Old(tx)] \in Whole
      BY <3>1, <3>3, <3>5, Contents
    <3>7. /\ f[Root] \in Whole /\ f[Old(tx)] = Absent
          /\ \A s \in Transactions : f[Record(s)] = d[Record(s)]
      <4>1. /\ f[Root] = d[Old(tx)] /\ f[Old(tx)] = Absent
            /\ \A q \in Directories \cup Records : q \notin {Root, Old(tx)} => f[q] = d[q]
        BY <1>2, <2>1, <3>1, MoveIs
      <4>2. \A s \in Transactions : Record(s) \in Records /\ Record(s) \notin {Root, Old(tx)}
        BY <2>1, Places
      <4> QED
        BY <3>6, <4>1, <4>2
    <3> HIDE DEF f
    <3>8. \A s \in Transactions : f[Record(s)] = "Published" => f[Old(s)] = Absent
      BY <3>4, <3>7, Contents DEF Phases
    <3>9. Secure(f)
      BY <3>7, <3>8 DEF Secure
    <3> QED
      BY <3>9 DEF f
  <2> QED
    BY <1>0, <1>11, <2>3 DEF Moves
<1>12. CASE pc = "reject" /\ Moves(Root, Rejected(tx))
  BY <1>12 DEF Secured
<1>13. CASE Disturbs
  BY <1>13 DEF Disturbs, Undisturbed
<1> QED
  BY <1>1, <1>3, <1>4, <1>7, <1>8, <1>9, <1>10, <1>11, <1>12, <1>13 DEF Changes

\* What is said of the steps.
Standing ==
    /\ pc \notin {"reject", "syncRejected"}
    /\ pc \in {"syncMoved", "published", "syncPublished", "publish"} => disk[Root] = Absent
    /\ pc \in Rooted => disk[Root] # Absent
    /\ pc \in {"syncCompleted", "verify"} => disk[Root] = tx
    /\ pc = "restore" => disk[Record(tx)] = "OldMoved" \/ disk[Staging(tx)] = Absent

\* Each step of an apply.
LEMMA StandingApply ==
    ASSUME OInv, Undisturbed, Secured, Changes, Apply
    PROVE  Standing'
<1>0. /\ TypeOK /\ Tx /\ FreshOK /\ StepOK /\ RecordsOK /\ Standing
      /\ disk \in Disks /\ disk \in after
      /\ Sound(disk) /\ Secure(disk)
  BY DEF OInv, SInv, TypeOK, Tx, Kept, Secured, Standing
<1>1. CASE FindStale \/ AbortRecord \/ FinalSync
  BY <1>1 DEF FindStale, AbortRecord, FinalSync, Standing, Rooted, Unmoved, Early, Aborting, Final
<1>2. CASE CheckBase
  <2>1. disk' = disk /\ disk[Root] # Absent /\ pc' = "create"
    BY <1>0, <1>2 DEF CheckBase, At, Go, FreshOK, About, Steps
  <2> QED
    BY <2>1 DEF Standing, Rooted, Unmoved, Early, Aborting, Final
<1>3. CASE CreateStaging \/ SyncStaging \/ PersistPrepared \/ SyncPrepared \/ WriteStaging \/ SyncStaged
  <2>1. /\ pc \in About /\ tx' = tx /\ edits' = edits
        /\ \/ pc = "create" /\ pc' \in {"syncStaging"}
           \/ pc = "syncStaging" /\ pc' \in {"prepare"}
           \/ pc = "prepare" /\ pc' \in {"syncPrepared"}
           \/ pc = "syncPrepared" /\ pc' \in {"write"}
           \/ pc = "write" /\ pc' \in {"syncTree"}
           \/ pc = "syncTree" /\ pc' \in {"recheck"}
    BY <1>3 DEF CreateStaging, SyncStaging, PersistPrepared, SyncPrepared,
           WriteStaging, SyncStaged, Syncs, At, Go, request, bounds, About, Steps, Precommit, Commit, Recovery
  <2>2. RootSame
    BY <1>0, <2>1, SamePlaces
  <2> QED
    BY <1>0, <2>1, <2>2 DEF RootSame, Standing, Rooted, Unmoved, Early, Aborting, Final
<1>4. CASE Recheck \/ PersistOldMoved \/ SyncOldMoved \/ SyncMoved \/ PersistPublished \/ SyncPublished
  <2>1. /\ pc \in About /\ tx' = tx /\ edits' = edits
        /\ \/ pc = "recheck" /\ pc' \in {"oldMoved", "abort"}
           \/ pc = "oldMoved" /\ pc' \in {"syncOldMoved"}
           \/ pc = "syncOldMoved" /\ pc' \in {"moveOld"}
           \/ pc = "syncMoved" /\ pc' \in {"published"}
           \/ pc = "published" /\ pc' \in {"syncPublished"}
           \/ pc = "syncPublished" /\ pc' \in {"publish"}
    BY <1>4 DEF Recheck, PersistOldMoved, SyncOldMoved, SyncMoved,
           PersistPublished, SyncPublished, Syncs, At, Go, request, bounds, About, Steps, Precommit, Commit, Recovery
  <2>2. RootSame
    BY <1>0, <2>1, SamePlaces
  <2> QED
    BY <1>0, <2>1, <2>2 DEF RootSame, Standing, Rooted, Unmoved, Early, Aborting, Final
<1>5. CASE SyncRoot \/ FinalizeOld \/ FinalizeRecord \/ AbortStaging
  <2>1. /\ pc \in About /\ tx' = tx /\ edits' = edits
        /\ \/ pc = "syncRoot" /\ pc' \in {"finalOld"}
           \/ pc = "finalOld" /\ pc' \in {"finalOld", "finalRecord"}
           \/ pc = "finalRecord" /\ pc' \in {"finalSync"}
           \/ pc = "abort" /\ pc' \in {"abort", "abortRecord"}
    BY <1>5 DEF SyncRoot, FinalizeOld, FinalizeRecord, AbortStaging, RemoveDir,
           RemoveRecord, Syncs, At, Go, request, bounds, About, Steps, Precommit, Commit, Recovery
  <2>2. RootSame
    BY <1>0, <2>1, SamePlaces
  <2> QED
    BY <1>0, <2>1, <2>2 DEF RootSame, Standing, Rooted, Unmoved, Early, Aborting, Final
<1>6. CASE MoveOld
  <2>1. tx \in Transactions /\ pc' = "syncMoved"
    BY <1>0, <1>6 DEF MoveOld, At, Go, Tx, About, Steps, Commit
  <2>2. disk'[Root] = Absent
    BY <1>0, <1>6, <2>1, MoveIs, PlacesOf DEF MoveOld, Moves
  <2> QED
    BY <2>1, <2>2 DEF Standing, Rooted, Unmoved, Early, Aborting, Final
<1>7. CASE Publish
  <2>1. tx \in Transactions /\ pc' = "syncRoot"
    BY <1>0, <1>7 DEF Publish, At, Go, Tx, About, Steps, Commit
  <2>2. disk'[Root] # Absent
    BY <1>0, <1>7, <2>1, MoveIs, PlacesOf DEF Publish, Moves
  <2> QED
    BY <2>1, <2>2 DEF Standing, Rooted, Unmoved, Early, Aborting, Final
<1> QED
  BY <1>1, <1>2, <1>3, <1>4, <1>5, <1>6, <1>7 DEF Apply

\* Each step of a recovery.
LEMMA StandingRecover ==
    ASSUME OInv, Undisturbed, Secured, Changes, Recover
    PROVE  Standing'
<1>0. /\ TypeOK /\ Tx /\ FreshOK /\ StepOK /\ RecordsOK /\ Standing
      /\ disk \in Disks /\ disk \in after
      /\ Sound(disk) /\ Secure(disk)
  BY DEF OInv, SInv, TypeOK, Tx, Kept, Secured, Standing
<1>1. CASE FindNothing
  BY <1>1 DEF FindNothing, Standing, Rooted, Unmoved, Early, Aborting, Final
<1>2. CASE FindTaken
  BY <1>2 DEF FindTaken, Standing, Rooted, Unmoved, Early, Aborting, Final
<1>3. CASE \E r \in Transactions : Refuse(r)
  BY <1>3 DEF Refuse, Standing, Rooted, Unmoved, Early, Aborting, Final
<1>4. CASE \E r \in Transactions : FindPrepared(r)
  <2>1. PICK r \in Transactions :
            disk[Record(r)] = "Prepared" /\ pc' = "dropStaging" /\ disk' = disk
    BY <1>4 DEF FindPrepared, Takes
  <2>2. \A s \in Transactions : disk[Record(s)] # Absent => s = r
    BY <1>0, <2>1, Contents DEF RecordsOK, OneRecord, Phases
  <2>3. disk[Root] # Absent
    BY <1>0, <2>1, <2>2, Contents DEF Secure, Phases
  <2> QED
    BY <2>1, <2>3 DEF Standing, Rooted, Unmoved, Early, Aborting, Final
<1>5. CASE \E r \in Transactions : \/ FindMoveDone(r) \/ FindNotMoved(r)
                                    \/ FindPublished(r) \/ FindOldRoot(r)
  <2>1. pc' \in {"dropOld", "dropStaging"} /\ disk' = disk /\ disk[Root] # Absent
    BY <1>5, Contents DEF FindMoveDone, FindNotMoved, FindPublished, FindOldRoot, Takes, Has
  <2> QED
    BY <2>1 DEF Standing, Rooted, Unmoved, Early, Aborting, Final
<1>6. CASE \E r \in Transactions : FindMoved(r) \/ FindRejected(r) \/ FindUnpublished(r)
  <2>1. PICK r \in Transactions :
            /\ disk' = disk /\ tx' = r /\ pc' \in {"restore", "complete"}
            /\ pc' = "restore" => disk[Record(r)] = "OldMoved" \/ disk[Staging(r)] = Absent
    BY <1>6 DEF FindMoved, FindRejected, FindUnpublished, Takes, Has
  <2> QED
    BY <2>1 DEF Standing, Rooted, Unmoved, Early, Aborting, Final
<1>7. CASE \E r \in Transactions : FindSpoilt(r)
  BY <1>0, <1>7 DEF FindSpoilt, Takes, Has, Secure
<1>8. CASE DropOld \/ DropStaging \/ SyncRestored \/ SyncCompleted
  <2>1. /\ pc \in About /\ tx' = tx /\ edits' = edits
        /\ \/ pc = "dropOld" /\ pc' \in {"dropOld", "dropStaging"}
           \/ pc = "dropStaging" /\ pc' \in {"dropStaging", "dropRecord"}
           \/ pc = "syncRestored" /\ pc' \in {"dropStaging"}
           \/ pc = "syncCompleted" /\ pc' \in {"verify"}
    BY <1>8 DEF DropOld, DropStaging, SyncRestored, SyncCompleted, RemoveDir, Syncs, At, Go, request, bounds, About, Steps, Precommit, Commit, Recovery
  <2>2. RootSame
    BY <1>0, <2>1, SamePlaces
  <2> QED
    BY <1>0, <2>1, <2>2 DEF RootSame, Standing, Rooted, Unmoved, Early, Aborting, Final
<1>9. CASE DropRecord \/ DropSync \/ Complete
  BY <1>9 DEF DropRecord, DropSync, Complete, RemoveRecord, Syncs, Go, Standing, Rooted, Unmoved, Early, Aborting, Final
<1>10. CASE Reject \/ SyncRejected
  BY <1>0, <1>10 DEF Reject, SyncRejected, Syncs, At, Standing
<1>11. CASE Verify
  <2>1. pc = "verify" /\ disk' = disk /\ tx' = tx /\ tx \in Transactions
    BY <1>0, <1>11 DEF Verify, At, Go, Tx, About, Steps, Recovery
  <2>2. disk[Root] = tx
    BY <1>0, <2>1 DEF Standing
  <2>3. pc' = "dropOld" /\ disk'[Root] # Absent
    BY <1>11, <2>1, <2>2, Contents DEF Verify, Go
  <2> QED
    BY <2>3 DEF Standing, Rooted, Unmoved, Early, Aborting, Final
<1>12. CASE Restore
  <2>1. tx \in Transactions /\ pc' = "syncRestored"
    BY <1>0, <1>12 DEF Restore, At, Go, Tx, About, Steps, Recovery
  <2>2. disk'[Root] # Absent
    BY <1>0, <1>12, <2>1, MoveIs, PlacesOf DEF Restore, Moves
  <2> QED
    BY <2>1, <2>2 DEF Standing, Rooted, Unmoved, Early, Aborting, Final
<1>13. CASE CompleteMove
  <2>1. tx \in Transactions /\ pc = "completeMove" /\ pc' = "syncCompleted" /\ tx' = tx
    BY <1>0, <1>13 DEF CompleteMove, At, Go, Tx, About, Steps, Recovery
  <2>2. disk[Staging(tx)] = tx
    BY <1>0, <2>1 DEF StepOK
  <2>3. disk'[Root] = tx
    BY <1>0, <1>13, <2>1, <2>2, MoveIs, PlacesOf DEF CompleteMove, Moves
  <2> QED
    BY <2>1, <2>3, Contents DEF Standing, Rooted, Unmoved, Early, Aborting, Final
<1> QED
  BY <1>1, <1>2, <1>3, <1>4, <1>5, <1>6, <1>7, <1>8, <1>9, <1>10, <1>11, <1>12, <1>13 DEF Recover

\* The other steps.
LEMMA StandingElse ==
    ASSUME OInv, Undisturbed, Secured, Changes, Fail \/ Begun \/ Open \/ Stop \/ PowerLoss \/ WriteBack \/ UNCHANGED vars
           \/ \E e \in Edits : Edit(e)
    PROVE  Standing'
<1>0. /\ TypeOK /\ Tx /\ FreshOK /\ StepOK /\ RecordsOK /\ Standing
      /\ disk \in Disks /\ disk \in after
      /\ Sound(disk) /\ Secure(disk)
  BY DEF OInv, SInv, TypeOK, Tx, Kept, Secured, Standing
<1>1. CASE Fail
  <2>1. pc \in Precommit /\ pc' = "abort" /\ disk' = disk
    BY <1>1 DEF Fail, Go
  <2> QED
    BY <1>0, <2>1 DEF Precommit, Standing, Rooted, Unmoved, Early, Aborting, Final
<1>2. CASE Begun \/ Open \/ Stop \/ PowerLoss
  BY <1>2 DEF Begun, Begin, Open, Stop, PowerLoss, Go, Standing, Rooted, Unmoved, Early, Aborting, Final
<1>3. CASE WriteBack \/ UNCHANGED vars
  BY <1>0, <1>3 DEF WriteBack, vars, Standing
<1>4. CASE \E e \in Edits : Edit(e)
  BY <1>4 DEF Edit, Undisturbed
<1> QED
  BY <1>1, <1>2, <1>3, <1>4

Alone == OInv /\ (Undisturbed => Secured)

LEMMA AloneStep ==
    ASSUME Alone, [Next]_vars
    PROVE  Alone'
<1>1. OInv' /\ Changes /\ world' = world
  BY KeptStep, WorldStays, EveryChange DEF Alone, OInv, SInv
<1>2. ASSUME Undisturbed
      PROVE  Secured'
  <2>1. Standing'
    BY <1>1, <1>2, StandingApply, StandingRecover, StandingElse DEF Alone, Next, Begun
  <2>2. \A d \in after' : Secure(d)
    BY <1>1, <1>2, SecureStep DEF Alone
  <2>3. (\A d \in after : Secure(d))'
    BY <2>2 DEF Secure
  <2> QED
    BY <2>1, <2>3 DEF Secured, Standing
<1>3. Undisturbed' = Undisturbed
  BY <1>1 DEF Undisturbed
<1> QED
  BY <1>1, <1>2, <1>3 DEF Alone

LEMMA AloneInit ==
    ASSUME Init, ~world.reorders
    PROVE  Alone
<1>1. OInv
  BY KeptInit
<1>2. disk[Root] = Original /\ after = {disk} /\ \A t \in Transactions : disk[Old(t)] = Absent
  BY PlacesOf, Places DEF Init
<1>3. Secure(disk)
  BY <1>2, Contents DEF Secure
<1>4. Standing
  BY <1>2 DEF Init, Standing, Rooted, Unmoved, Early, Aborting, Final
<1> QED
  BY <1>1, <1>2, <1>3, <1>4 DEF Alone, Secured, Standing

\* Where the order of the changes of a directory is kept and nobody writes the
\* vault from outside, whatever a crash or a power loss leaves the root is
\* whole, or missing with a record by which recovery has it back whole.
THEOREM OldOrNew == Spec /\ ~world.reorders => []AllOrOldOrNew
<1>1. Init /\ ~world.reorders => Alone
  BY AloneInit
<1>2. Alone /\ [Next]_vars => Alone'
  BY AloneStep
<1>3. Alone => AllOrOldOrNew
  BY DEF Alone, Secured, Secure, AllOrOldOrNew
<1> QED
  BY <1>1, <1>2, <1>3, PTL DEF Spec

-----------------------------------------------------------------------------
(***************************************************************************)
(* SnapshotApply implements AtomicReplace for those that use the lock, on  *)
(* a file system that keeps the order of the changes of a directory: every *)
(* step is one of AtomicReplace through the mapping of SnapshotApply, the  *)
(* content that the next opening shows, or shows nothing.                  *)
(*                                                                         *)
(* What is shown changes in one step only, when the record of a            *)
(* transaction goes to Published, and until that is durable a power loss   *)
(* may take it back: the disks then show the content of the transaction or *)
(* its base.  That these two tell which transaction it is takes the past   *)
(* of what is shown: a base is never a transaction yet to come.            *)
(***************************************************************************)

\* All show the same, or the content of a transaction and its base.
One == \A d \in after : Shown(d) = Shown(disk)
Two(t) == /\ Shown(disk) = t /\ base[t] # Absent
          /\ base[t] \in Transactions => base[base[t]] \notin {base[t], t}
          /\ \A d \in after : Shown(d) \in {t, base[t]}

\* What is shown has a base before it, that is no transaction yet to come.
Coming == Recovery \cup Brought
PastOf(s) ==
    s \in Transactions =>
        /\ base[s] # Absent /\ base[s] # s
        /\ base[s] \in Transactions => base[base[s]] # Absent
        /\ pc \in Coming /\ applying # Absent => s # applying /\ base[s] # applying

\* All show the same, or what a mark that is not durable yet replaces.
Said == One \/ \E t \in Transactions : Two(t)
Past == \A d \in after : PastOf(Shown(d))
AtMark == pc = "published" => One
\* An apply is about the transaction it was asked.
Named == pc \in Brought => tx = applying /\ applying # Absent

ShownOK == Said /\ Past /\ AtMark /\ Named
AtomicInv == OInv /\ Undisturbed /\ Secured /\ ShownOK

-----------------------------------------------------------------------------
(* What a disk shows.                                                       *)

\* Brought back by way of t's record: the new content, or the base.
Brings(d, t) ==
    /\ d[Record(t)] # Absent
    /\ IF d[Record(t)] = "Published" /\ d[Staging(t)] # Absent
       THEN d[Staging(t)] = t /\ Shown(d) = t
       ELSE d[Old(t)] = base[t] /\ Shown(d) = base[t]

Unique(d) == \A r, s \in Transactions : d[Record(r)] # Absent /\ d[Record(s)] # Absent => r = s
Proper(d) == d \in Disks /\ Sound(d) /\ Secure(d) /\ Unique(d)

\* Without a root there is one record, and it is the one that is used.
LEMMA ShownIs ==
    ASSUME NEW d, Proper(d), d[Root] = Absent
    PROVE  \E t \in Transactions : Brings(d, t)
<1>1. PICK t \in Transactions :
         \/ d[Record(t)] \in {"OldMoved", "Published"} /\ d[Old(t)] \in Whole
         \/ /\ d[Record(t)] = "Published"
            /\ d[Old(t)] = Torn /\ d[Staging(t)] = t
  BY Contents DEF Proper, Secure
<1>2. d[Record(t)] # Absent
  BY <1>1, Contents DEF Phases
<1>3. (CHOOSE r \in Transactions : d[Record(r)] # Absent) = t
  BY <1>2 DEF Proper, Unique
<1>4. Shown(d) = IF d[Record(t)] = "Published" /\ d[Staging(t)] # Absent
                 THEN d[Staging(t)] ELSE d[Old(t)]
  <2> DEFINE u == CHOOSE r \in Transactions : d[Record(r)] # Absent
  <2>1. Shown(d) = IF d[Record(u)] = "Published" /\ d[Staging(u)] # Absent
                   THEN d[Staging(u)] ELSE d[Old(u)]
    BY DEF Shown
  <2>2. u = t
    BY <1>3
  <2> HIDE DEF u
  <2> QED
    BY <2>1, <2>2
<1>5. CASE d[Record(t)] = "Published" /\ d[Staging(t)] # Absent
  <2>1. d[Staging(t)] = t
    BY <1>5 DEF Proper, Sound
  <2> QED
    BY <1>2, <1>4, <1>5, <2>1 DEF Brings
<1>6. CASE ~(d[Record(t)] = "Published" /\ d[Staging(t)] # Absent)
  <2>1. d[Old(t)] = base[t]
    BY <1>1, <1>6, Contents DEF Proper, Sound
  <2> QED
    BY <1>2, <1>4, <1>6, <2>1 DEF Brings
<1> QED
  BY <1>5, <1>6

LEMMA BroughtBy ==
    ASSUME NEW d, Proper(d), d[Root] = Absent, NEW t \in Transactions, d[Record(t)] # Absent
    PROVE  Brings(d, t)
<1>1. PICK s \in Transactions : Brings(d, s)
  BY ShownIs
<1>2. s = t
  BY <1>1 DEF Brings, Proper, Unique
<1> QED
  BY <1>1, <1>2

LEMMA ShownRoot ==
    ASSUME NEW d, d[Root] # Absent
    PROVE  Shown(d) = d[Root]
  BY DEF Shown

\* Disks with the same root, or none and the same record and stagings, show the
\* same, whatever is lost of their contents.
LEMMA ShownAlike ==
    ASSUME NEW d, NEW f, Proper(d), Proper(f),
           \/ d[Root] # Absent /\ f[Root] = d[Root]
           \/ /\ d[Root] = Absent /\ f[Root] = Absent
              /\ \A t \in Transactions :
                    /\ f[Record(t)] = d[Record(t)]
                    /\ f[Staging(t)] = Absent <=> d[Staging(t)] = Absent
    PROVE  Shown(f) = Shown(d)
<1>1. CASE d[Root] # Absent /\ f[Root] = d[Root]
  BY <1>1, ShownRoot
<1>2. CASE /\ d[Root] = Absent /\ f[Root] = Absent
           /\ \A t \in Transactions :
                 /\ f[Record(t)] = d[Record(t)]
                 /\ f[Staging(t)] = Absent <=> d[Staging(t)] = Absent
  <2>1. PICK t \in Transactions : Brings(d, t)
    BY <1>2, ShownIs
  <2>2. f[Record(t)] # Absent
    BY <1>2, <2>1 DEF Brings
  <2>3. Brings(f, t)
    BY <1>2, <2>2, BroughtBy
  <2> QED
    BY <1>2, <2>1, <2>3 DEF Brings
<1> QED
  BY <1>1, <1>2

LEMMA AllProper ==
    ASSUME OInv, Secured
    PROVE  disk \in after /\ disk \in UpToDate /\ \A d \in after : Proper(d)
  BY DEF OInv, SInv, TypeOK, Kept, RecordsOK, OneRecord, Secured, Proper, Unique, UpToDate

LEMMA ProperStep ==
    ASSUME OInv, Undisturbed, Secured, Changes
    PROVE  disk' \in after' /\ \A d \in after' : Proper(d)
<1>1. TypeOK /\ Tx
  BY DEF OInv, SInv, Tx
<1>2. disk' \in after' /\ \A d \in after' : d \in Disks
  BY <1>1, DisksStep
<1>3. \A d \in after' : Sound(d)
  BY GoodStep DEF Good
<1>4. \A d \in after' : Secure(d)
  BY SecureStep
<1>5. \A d \in after' : Unique(d)
  BY OneRecordStep DEF OInv, OneRecord, Unique
<1> QED
  BY <1>2, <1>3, <1>4, <1>5 DEF Proper

\* A disk with the names of now shows what is shown now.
LEMMA UpToDateShows ==
    ASSUME OInv, Secured, NEW d \in UpToDate
    PROVE  Shown(d) = Shown(disk)
<1>1. Proper(d) /\ Proper(disk) /\ Match(d, disk)
  BY AllProper, UpToDateIs
<1>2. d[Root] = Absent <=> disk[Root] = Absent
  BY <1>1, Places DEF Match
<1>3. disk[Root] # Absent => d[Root] = disk[Root]
  BY <1>1, Places DEF Match, Proper, Secure
<1>4. \A t \in Transactions : /\ d[Record(t)] = disk[Record(t)]
                              /\ d[Staging(t)] = Absent <=> disk[Staging(t)] = Absent
  BY <1>1, PlacesOf DEF Match
<1> QED
  BY <1>1, <1>2, <1>3, <1>4, ShownAlike

-----------------------------------------------------------------------------
(* What is shown changes with the mark of the publication only.             *)

\* Each disk shows what a disk showed; the mark makes those that have it show
\* the new content.
Unshown ==
    /\ \A f \in after' : \E d \in after : Shown(f) = Shown(d)
    /\ Shown(disk') = Shown(disk) \/ after' = {disk'}
Published ==
    /\ pc = "published" /\ pc' = "syncPublished" /\ tx \in Transactions
    /\ Shown(disk) = base[tx] /\ Shown(disk') = tx
    /\ \A f \in after' : f \in after \/ Shown(f) = tx

LEMMA ShownStep ==
    ASSUME OInv, Undisturbed, Secured, Changes
    PROVE  Unshown \/ Published
<1>0. /\ disk \in Disks /\ disk \in after /\ disk \in UpToDate /\ \A d \in after : Proper(d)
      /\ FreshOK /\ StepOK /\ TypeOK /\ Tx /\ RecordsOK
      /\ UpToDate \subseteq after
  BY AllProper DEF OInv, SInv, TypeOK, Kept, Tx, UpToDate
<1>00. disk' \in after' /\ \A f \in after' : Proper(f)
  BY ProperStep
<1>1. CASE Same \/ SyncParent \/ Settles
  BY <1>0, <1>1 DEF Same, SyncParent, Settles, Unshown
<1>2. \A d \in UpToDate : /\ d \in Disks /\ Proper(d) /\ Match(d, disk)
                          /\ (d[Root] = Absent <=> disk[Root] = Absent)
  BY <1>0, UpToDateIs, Places DEF Match
<1>3. ASSUME pc \in Rooted, NEW p \in Directories \cup Records, p # Root,
             \/ \E c : Puts(p, c)
             \/ p \in Directories /\ Tears(p)
      PROVE  Unshown
  <2>1. \A d \in UpToDate : d[Root] # Absent
    BY <1>2, <1>3 DEF Secured
  <2>2. ASSUME NEW c, NEW d \in UpToDate
        PROVE  Shown(Put(d, p, c)) = Shown(d)
    <3>1. Put(d, p, c)[Root] = d[Root]
      BY <1>2, <1>3, PutIs, Places
    <3> QED
      BY <2>1, <3>1, ShownRoot
  <2>3. ASSUME NEW d \in UpToDate, p \in Directories
        PROVE  Shown(Tear(d, p)) = Shown(d)
    BY <2>2 DEF Tear, Put
  <2> QED
    BY <1>0, <1>3, <2>2, <2>3 DEF Puts, Tears, Unshown
<1>4. CASE Marks
  <2>1. tx \in Transactions /\ Record(tx) \in Records /\ Record(tx) # Root
    BY <1>0, <1>4, Places DEF Marks, Tx, About, Steps, Precommit, Commit, Recovery
  <2>2. CASE pc # "published"
    <3>1. pc \in Rooted /\ \E c : Puts(Record(tx), c)
      BY <1>4, <2>2 DEF Marks, Rooted, Unmoved, Aborting, Final
    <3> QED
      BY <1>3, <2>1, <3>1
  <2>3. CASE pc = "published"
    <3>1. pc' = "syncPublished" /\ Puts(Record(tx), "Published")
      BY <1>4, <2>3 DEF Marks
    <3>2. ASSUME NEW d \in UpToDate
          PROVE  /\ Shown(d) = base[tx]
                 /\ Shown(Put(d, Record(tx), "Published")) = tx
      <4> DEFINE f == Put(d, Record(tx), "Published")
      <4>1. /\ f[Record(tx)] = "Published" /\ f[Root] = d[Root]
            /\ f[Staging(tx)] = d[Staging(tx)] /\ f \in after'
        BY <1>2, <2>1, <3>1, PutIs, PlacesOf, Places DEF Puts
      <4>2. d[Root] = Absent /\ d[Staging(tx)] = tx /\ tx # Absent
        BY <1>0, <1>2, <2>1, <2>3, Contents DEF Secured, StepOK, Written
      <4>3. d[Record(tx)] # "Published"
        BY <1>0, <1>2, <2>1, <2>3 DEF StepOK, Unpublished, Match
      <4>4. PICK t \in Transactions : Brings(d, t)
        BY <1>2, <4>2, ShownIs
      <4>5. t = tx
        BY <1>0, <2>3, <4>4 DEF Brings, RecordsOK, OnlyOf, Staged
      <4>6. Shown(d) = base[tx]
        BY <4>3, <4>4, <4>5 DEF Brings
      <4> HIDE DEF f
      <4>7. Brings(f, tx)
        BY <1>00, <2>1, <4>1, <4>2, BroughtBy, Contents DEF Phases
      <4>8. Shown(f) = tx
        BY <4>1, <4>2, <4>7 DEF Brings
      <4> QED
        BY <4>6, <4>8 DEF f
    <3> QED
      BY <1>0, <2>1, <2>3, <3>1, <3>2 DEF Puts, Published
  <2> QED
    BY <2>2, <2>3
<1>5. CASE \/ pc \in {"abort", "dropStaging"} /\ Removes(Staging(tx))
           \/ pc \in {"finalOld", "dropOld"} /\ Removes(Old(tx))
           \/ pc = "create" /\ Puts(Staging(tx), Torn)
  <2>1. /\ pc \in Rooted /\ tx \in Transactions
        /\ Staging(tx) \in Directories /\ Staging(tx) # Root
        /\ Old(tx) \in Directories /\ Old(tx) # Root
    BY <1>0, <1>5, PlacesOf DEF Tx, About, Steps, Commit, Recovery, Rooted, Unmoved, Aborting, Final
  <2> QED
    BY <1>3, <1>5, <2>1 DEF Removes
<1>6. CASE pc = "write" /\ Writes
  <2>1. /\ pc \in Rooted /\ Staging(tx) \in Directories /\ Staging(tx) # Root
    BY <1>0, <1>6, PlacesOf DEF Tx, About, Steps, Precommit, Rooted, Unmoved
  <2>2. disk[Root] # Absent
    BY <2>1 DEF Secured
  <2>3. \A c : Shown(Put(disk, Staging(tx), c)) = Shown(disk)
    <3>1. \A c : Put(disk, Staging(tx), c)[Root] = disk[Root]
      BY <1>0, <2>1, PutIs, Places
    <3> QED
      BY <2>2, <3>1, ShownRoot
  <2> QED
    BY <1>0, <1>6, <2>3 DEF Writes, Unshown
<1>7. CASE pc \in {"syncTree", "complete"} /\ SyncTree(Staging(tx))
  <2>1. /\ tx \in Transactions /\ Staging(tx) \in Directories /\ Staging(tx) # Root
        /\ disk[Staging(tx)] # Absent
    BY <1>0, <1>7, PlacesOf DEF Tx, About, Steps, Precommit, Recovery, StepOK, Staged
  <2>2. ASSUME NEW d \in after, d[Staging(tx)] # Absent, Put(d, Staging(tx), disk[Staging(tx)]) \in after'
        PROVE  Shown(Put(d, Staging(tx), disk[Staging(tx)])) = Shown(d)
    <3> DEFINE f == Put(d, Staging(tx), disk[Staging(tx)])
    <3>1. d \in Disks /\ Proper(d) /\ Proper(f)
      BY <1>0, <1>00, <2>2 DEF Proper
    <3>2. /\ f[Staging(tx)] = disk[Staging(tx)]
          /\ \A q \in Directories \cup Records : q # Staging(tx) => f[q] = d[q]
      BY <2>1, <3>1, PutIs
    <3>3. /\ f[Root] = d[Root]
          /\ \A t \in Transactions :
                /\ f[Record(t)] = d[Record(t)]
                /\ t # tx => f[Staging(t)] = d[Staging(t)]
      BY <2>1, <3>2, PlacesOf, Places
    <3> HIDE DEF f
    <3>4. Shown(f) = Shown(d)
      BY <2>1, <2>2, <3>1, <3>2, <3>3, ShownAlike
    <3> QED
      BY <3>4 DEF f
  <2> QED
    BY <1>0, <1>7, <2>2 DEF SyncTree, Unshown
<1>8. ASSUME NEW p \in Directories, NEW q \in Directories, Moves(p, q),
             \A d \in UpToDate : Shown(Move(d, p, q)) = Shown(d)
      PROVE  Unshown
  BY <1>0, <1>8 DEF Moves, Unshown
<1>9. CASE pc = "moveOld" /\ Moves(Root, Old(tx))
  <2>1. tx \in Transactions /\ Old(tx) \in Directories /\ Root \in Directories /\ Root # Old(tx)
        /\ Root \in Guarded
    BY <1>0, <1>9, PlacesOf DEF Tx, About, Steps, Commit
  <2>2. /\ disk[Root] # Absent /\ disk[Old(tx)] = Absent
        /\ disk[Root] = base[tx] /\ disk[Record(tx)] = "OldMoved"
    BY <1>0, <1>9 DEF Moves, StepOK, Unseen
  <2>3. ASSUME NEW d \in UpToDate
        PROVE  Shown(Move(d, Root, Old(tx))) = Shown(d)
    <3> DEFINE f == Move(d, Root, Old(tx))
    <3>1. /\ d[Root] # Absent /\ d[Old(tx)] = Absent /\ d[Record(tx)] = "OldMoved"
          /\ Proper(d) /\ Proper(f)
      BY <1>00, <1>2, <1>9, <2>1, <2>2 DEF Match, Moves
    <3>2. /\ f[Root] = Absent
          /\ \A r \in Directories \cup Records : r \notin {Root, Old(tx)} => f[r] = d[r]
      BY <1>2, <2>1, <3>1, MoveIs
    <3>3. Record(tx) \in Records /\ Record(tx) \notin {Root, Old(tx)}
      BY <2>1, Places
    <3>4. f[Record(tx)] = "OldMoved"
      BY <3>1, <3>2, <3>3
    <3>5. Shown(d) = disk[Root]
      <4>1. disk[Root] \in Whole
        BY <1>0, <2>2 DEF Proper, Secure
      <4>2. d[Root] = disk[Root]
        BY <1>2, <2>1, <4>1 DEF Match
      <4> QED
        BY <3>1, <4>2, ShownRoot
    <3> HIDE DEF f
    <3>6. Brings(f, tx)
      BY <2>1, <3>1, <3>2, <3>4, BroughtBy, Contents DEF Phases
    <3>7. Shown(f) = base[tx]
      BY <3>4, <3>6 DEF Brings
    <3> QED
      BY <2>2, <3>5, <3>7 DEF f
  <2> QED
    BY <1>8, <1>9, <2>1, <2>3
<1>10. CASE pc \in {"publish", "completeMove"} /\ Moves(Staging(tx), Root)
  <2>1. tx \in Transactions /\ Staging(tx) \in Directories /\ Root \in Directories /\ Root # Staging(tx)
    BY <1>0, <1>10, PlacesOf DEF Tx, About, Steps, Commit, Recovery
  <2>2. \A d \in after : d[Staging(tx)] = tx
    BY <1>0, <1>10 DEF StepOK, Written
  <2>3. /\ disk[Root] = Absent /\ tx # Absent /\ disk[Record(tx)] = "Published"
    BY <1>0, <1>10, <2>1, Contents DEF Moves, StepOK
  <2>4. ASSUME NEW d \in UpToDate
        PROVE  Shown(Move(d, Staging(tx), Root)) = Shown(d)
    <3> DEFINE f == Move(d, Staging(tx), Root)
    <3>1. d[Root] = Absent /\ d[Staging(tx)] = tx /\ d[Record(tx)] = "Published"
      BY <1>0, <1>2, <2>1, <2>2, <2>3 DEF Match
    <3>2. Brings(d, tx)
      BY <1>2, <2>1, <3>1, BroughtBy, Contents DEF Phases
    <3>3. Shown(d) = tx
      BY <2>3, <3>1, <3>2 DEF Brings
    <3>4. f[Root] = tx
      BY <1>2, <2>1, <2>3, <3>1, MoveIs
    <3> HIDE DEF f
    <3>5. Shown(f) = tx
      BY <2>3, <3>4, ShownRoot
    <3> QED
      BY <3>3, <3>5 DEF f
  <2> QED
    BY <1>8, <1>10, <2>1, <2>4
<1>11. CASE pc = "restore" /\ Moves(Old(tx), Root)
  <2>1. tx \in Transactions /\ Old(tx) \in Directories /\ Staging(tx) \in Directories
        /\ Root \in Directories /\ Root # Old(tx)
    BY <1>0, <1>11, PlacesOf DEF Tx, About, Steps, Recovery
  <2>2. /\ disk[Root] = Absent /\ disk[Old(tx)] # Absent
        /\ disk[Record(tx)] = "OldMoved" \/ disk[Staging(tx)] = Absent
    BY <1>11 DEF Moves, Secured
  <2>3. ASSUME NEW d \in UpToDate
        PROVE  Shown(Move(d, Old(tx), Root)) = Shown(d)
    <3> DEFINE f == Move(d, Old(tx), Root)
    <3>1. /\ d[Root] = Absent /\ d[Old(tx)] # Absent
          /\ d[Record(tx)] = "OldMoved" \/ d[Staging(tx)] = Absent
      BY <1>2, <2>1, <2>2 DEF Match
    <3>2. d[Record(tx)] # Absent
      BY <1>2, <2>1, <3>1, Contents DEF Proper, Sound, Phases
    <3>3. Brings(d, tx)
      BY <1>2, <2>1, <3>1, <3>2, BroughtBy
    <3>4. Shown(d) = d[Old(tx)]
      BY <3>1, <3>3 DEF Brings
    <3>5. f[Root] = d[Old(tx)]
      BY <1>2, <2>1, <3>1, MoveIs
    <3> HIDE DEF f
    <3>6. Shown(f) = d[Old(tx)]
      BY <3>1, <3>5, ShownRoot
    <3> QED
      BY <3>4, <3>6 DEF f
  <2> QED
    BY <1>8, <1>11, <2>1, <2>3
<1>12. CASE pc = "reject" /\ Moves(Root, Rejected(tx))
  BY <1>12 DEF Secured
<1>13. CASE Disturbs
  BY <1>13 DEF Disturbs, Undisturbed
<1> QED
  BY <1>1, <1>4, <1>5, <1>6, <1>7, <1>9, <1>10, <1>11, <1>12, <1>13 DEF Changes

-----------------------------------------------------------------------------
(* What the disks show together.                                            *)

\* What steps say of the base: it is given once.
BaseGiven == \A s \in Transactions : base[s] # Absent => base'[s] = base[s]

LEMMA BaseStep ==
    ASSUME OInv, [Next]_vars
    PROVE  BaseGiven /\ (base' = base \/ (Begun /\ Same))
<1>1. TypeOK
  BY DEF OInv, SInv
<1>2. base' = base \/ Begun
  BY <1>1, Flow DEF Onward, Quits, Taken, Open, FindNothing, Stays, Go, request
<1>3. CASE Begun
  BY <1>1, <1>3 DEF Begun, Begin, BaseGiven, TypeOK, Same
<1> QED
  BY <1>2, <1>3 DEF BaseGiven

\* A base that is given stays, and so does what is past.
LEMMA PastStays ==
    ASSUME OInv, [Next]_vars, NEW s, PastOf(s),
           s \in Transactions => base[s] \in Whole \cup {Absent}
    PROVE  PastOf(s)'
<1>0. TypeOK /\ FreshOK /\ BaseGiven
  BY BaseStep DEF OInv, SInv, Kept
<1> SUFFICES ASSUME s \in Transactions
             PROVE  /\ base'[s] # Absent /\ base'[s] # s
                    /\ base'[s] \in Transactions => base'[base'[s]] # Absent
                    /\ pc' \in Coming /\ applying' # Absent => s # applying' /\ base'[s] # applying'
  BY DEF PastOf
<1>1. /\ base[s] # Absent /\ base[s] # s
      /\ base[s] \in Transactions => base[base[s]] # Absent
      /\ pc \in Coming /\ applying # Absent => s # applying /\ base[s] # applying
  BY DEF PastOf
<1>2. /\ base'[s] = base[s]
      /\ base[s] \in Transactions => base'[base[s]] = base[base[s]]
  BY <1>0, <1>1 DEF BaseGiven
<1>3. pc' \in Coming /\ applying' # Absent => s # applying' /\ base[s] # applying'
  <2>1. CASE Begun
    <3>1. applying' \in Transactions /\ base[applying'] = Absent
      BY <2>1 DEF Begun, Begin
    <3> QED
      BY <1>1, <3>1
  <2>2. CASE Onward
    <3>1. applying' = applying /\ (pc' \in Coming => pc \in Coming)
      BY <2>2 DEF Onward, Go, request, Coming
    <3> QED
      BY <1>1, <3>1
  <2>3. CASE Open
    BY <1>0, <2>3 DEF Open, Go, At, request, FreshOK
  <2>4. CASE FindNothing \/ Taken
    <3>1. applying' = applying /\ pc \in Coming
      BY <2>4 DEF FindNothing, Taken, At, request, Coming, Recovery
    <3> QED
      BY <1>1, <3>1
  <2>5. CASE Stays
    BY <1>1, <2>5 DEF Stays
  <2>6. CASE Quits
    BY <2>6 DEF Quits
  <2> QED
    BY <1>0, <2>1, <2>2, <2>3, <2>4, <2>5, <2>6, Flow
<1> QED
  BY <1>1, <1>2, <1>3

\* The step an apply is in, and the transaction it has been asked.
LEMMA NamedStep ==
    ASSUME TypeOK, Named, [Next]_vars
    PROVE  Named'
<1>1. CASE Onward \/ Stays
  BY <1>1 DEF Onward, Stays, Go, request, Named
<1>2. CASE Quits \/ Taken \/ Begun \/ Open
  <2>1. pc' \in Recovery \cup {"idle"}
    BY <1>2 DEF Quits, Taken, Begun, Begin, Open, Go, Recovery
  <2> QED
    BY <2>1 DEF Named, Brought, Recovery
<1>3. CASE FindNothing
  BY <1>3 DEF FindNothing, Named, Brought, request
<1> QED
  BY <1>1, <1>2, <1>3, Flow

\* An apply comes to the mark from the durable move of the root only.
LEMMA ToTheMark ==
    ASSUME TypeOK, [Next]_vars, pc' = "published"
    PROVE  SyncMoved \/ Stays
<1>1. CASE Begun \/ Open \/ Fail \/ Stop \/ PowerLoss
  BY <1>1 DEF Begun, Begin, Open, Fail, Stop, PowerLoss, Go
<1>2. CASE WriteBack \/ UNCHANGED vars
  BY <1>2 DEF WriteBack, vars, Stays, Same
<1>3. ASSUME NEW e \in Edits, Edit(e)
      PROVE  Stays
  BY <1>3 DEF Edit, Disturbs, Stays
<1>4. CASE Apply
  <2>1. CASE FindStale \/ CheckBase \/ CreateStaging \/ SyncStaging \/ PersistPrepared
             \/ SyncPrepared \/ WriteStaging \/ SyncStaged \/ Recheck
    BY <2>1 DEF FindStale, CheckBase, CreateStaging, SyncStaging, PersistPrepared, SyncPrepared,
           WriteStaging, SyncStaged, Recheck, Syncs, Go
  <2>2. CASE PersistOldMoved \/ SyncOldMoved \/ MoveOld \/ PersistPublished \/ SyncPublished
             \/ Publish \/ SyncRoot \/ FinalizeOld \/ FinalizeRecord \/ FinalSync
             \/ AbortStaging \/ AbortRecord
    BY <2>2 DEF PersistOldMoved, SyncOldMoved, MoveOld, PersistPublished, SyncPublished,
           Publish, SyncRoot, FinalizeOld, FinalizeRecord, FinalSync, AbortStaging,
           AbortRecord, RemoveDir, RemoveRecord, Syncs, At, Go
  <2> QED
    BY <1>4, <2>1, <2>2 DEF Apply
<1>5. CASE Recover
  <2>1. CASE FindNothing \/ FindTaken \/ \E r \in Transactions : Refuse(r)
    BY <2>1 DEF FindNothing, FindTaken, Refuse
  <2>2. ASSUME NEW r \in Transactions,
               \/ FindPrepared(r) \/ FindMoveDone(r) \/ FindNotMoved(r) \/ FindMoved(r)
               \/ FindPublished(r) \/ FindOldRoot(r) \/ FindSpoilt(r)
               \/ FindRejected(r) \/ FindUnpublished(r)
        PROVE  FALSE
    BY <2>2 DEF FindPrepared, FindMoveDone, FindNotMoved, FindMoved, FindPublished, FindOldRoot,
           FindSpoilt, FindRejected, FindUnpublished, Takes
  <2>3. CASE DropOld \/ DropStaging \/ DropRecord \/ DropSync \/ Restore \/ SyncRestored
             \/ Complete \/ CompleteMove \/ SyncCompleted \/ Verify \/ Reject \/ SyncRejected
    BY <2>3 DEF DropOld, DropStaging, DropRecord, DropSync, Restore, SyncRestored, Complete,
           CompleteMove, SyncCompleted, Verify, Reject, SyncRejected, RemoveDir, RemoveRecord,
           Syncs, At, Go
  <2> QED
    BY <1>5, <2>1, <2>2, <2>3 DEF Recover
<1> QED
  BY <1>1, <1>2, <1>3, <1>4, <1>5 DEF Next, Begun

\* There all disks show the same: the one root, or the base that record brings.
LEMMA OneAtMark ==
    ASSUME OInv, Secured, Undisturbed, AtMark, [Next]_vars
    PROVE  AtMark'
<1> SUFFICES ASSUME pc' = "published"
             PROVE  \A d \in after' : Shown(d) = Shown(disk')
  BY DEF AtMark, One
<1>1. TypeOK
  BY DEF OInv, SInv
<1>2. CASE SyncMoved
  <2>1. disk' = disk /\ after' \subseteq UpToDate
    BY <1>2 DEF SyncMoved, Syncs, SyncParent, UpToDate
  <2> QED
    BY <2>1, UpToDateShows
<1>3. CASE Stays
  <2>1. One
    BY <1>3 DEF Stays, AtMark
  <2> QED
    BY <1>3, <2>1 DEF Stays, Same, Disturbs, Undisturbed, One
<1> QED
  BY <1>1, <1>2, <1>3, ToTheMark

LEMMA SaidStep ==
    ASSUME AtomicInv, [Next]_vars
    PROVE  Said' /\ Past'
<1>0. /\ OInv /\ Undisturbed /\ Secured /\ Said /\ Past /\ AtMark /\ Named
      /\ TypeOK /\ FreshOK /\ BaseGiven /\ disk \in after
  BY BaseStep DEF AtomicInv, ShownOK, Said, Past, AtMark, Named, OInv, SInv, Kept, TypeOK
<1>00. Changes /\ disk' \in after'
  BY <1>0, EveryChange, ProperStep
<1>1. CASE Unshown
  <2>1. ASSUME NEW f \in after'
        PROVE  PastOf(Shown(f))'
    <3>1. PICK d \in after : Shown(f) = Shown(d)
      BY <1>1 DEF Unshown
    <3>2. PastOf(Shown(d)) /\ (Shown(d) \in Transactions => base[Shown(d)] \in Whole \cup {Absent})
      BY <1>0 DEF Past, TypeOK
    <3>3. PastOf(Shown(d))'
      BY <1>0, <3>2, PastStays
    <3> QED
      BY <3>1, <3>3
  <2>2. ASSUME One
        PROVE  Said'
    <3>1. \A f \in after' : Shown(f) = Shown(disk)
      BY <1>1, <2>2 DEF Unshown, One
    <3>2. \A f \in after' : Shown(f) = Shown(disk')
      BY <1>00, <3>1
    <3> QED
      BY <3>2 DEF Said, One
  <2>3. ASSUME NEW t \in Transactions, Two(t)
        PROVE  Said'
    <3>1. CASE after' = {disk'}
      BY <3>1 DEF Said, One
    <3>2. CASE Shown(disk') = Shown(disk)
      <4>1. /\ Shown(disk') = t /\ base[t] # Absent
            /\ base[t] \in Transactions => base[base[t]] \notin {Absent, base[t], t}
            /\ \A f \in after' : Shown(f) \in {t, base[t]}
        BY <1>0, <1>1, <2>3, <3>2 DEF Two, Unshown, Past, PastOf
      <4>2. /\ base'[t] = base[t]
            /\ base[t] \in Transactions => base'[base[t]] = base[base[t]]
        BY <1>0, <4>1 DEF BaseGiven
      <4>3. Two(t)'
        BY <4>1, <4>2 DEF Two
      <4> QED
        BY <4>3 DEF Said
    <3> QED
      BY <1>1, <3>1, <3>2 DEF Unshown
  <2> QED
    BY <1>0, <2>1, <2>2, <2>3 DEF Said, Past
<1>2. CASE Published
  <2>1. /\ tx \in Transactions /\ tx = applying /\ tx # Absent
        /\ base[tx] # Absent /\ Shown(disk) = base[tx] /\ Shown(disk') = tx
        /\ \A d \in after : Shown(d) = base[tx]
        /\ \A f \in after' : Shown(f) \in {tx, base[tx]}
    BY <1>0, <1>2, Contents DEF Published, Named, AtMark, One, Brought, FreshOK, About, Steps, Commit
  <2>2. /\ PastOf(base[tx]) /\ base[tx] # tx
        /\ base[tx] \in Transactions => base[base[tx]] \notin {Absent, base[tx], tx}
    BY <1>0, <1>2, <2>1 DEF Past, PastOf, Published, Coming, Brought
  <2>3. base' = base
    BY <1>0, <1>2, BaseStep DEF Begun, Begin, At, Published
  <2>4. PICK t \in Transactions, b \in Whole \cup {Absent} : t = tx /\ b = base[tx]
    BY <1>0, <2>1 DEF TypeOK
  <2>5. Two(t)'
    BY <2>1, <2>2, <2>3, <2>4 DEF Two
  <2>6. PastOf(t)' /\ PastOf(b)'
    BY <1>2, <2>1, <2>2, <2>3, <2>4 DEF PastOf, Published, Coming, Brought, Recovery
  <2>7. \A f \in after' : PastOf(Shown(f))'
    BY <2>1, <2>4, <2>6
  <2> QED
    BY <2>5, <2>7 DEF Said, Past
<1> QED
  BY <1>0, <1>00, <1>1, <1>2, ShownStep

-----------------------------------------------------------------------------
(* The content of the vault, as the mapping has it.                         *)

VaultOf(all, d, b) ==
    LET shown == {Shown(e) : e \in all}
    IN  IF shown = {Shown(d)} THEN Shown(d)
        ELSE b[CHOOSE t \in Transactions : t \in shown /\ b[t] \in shown]

LEMMA VaultOfOne ==
    ASSUME NEW all, NEW d \in all, NEW b, \A e \in all : Shown(e) = Shown(d)
    PROVE  VaultOf(all, d, b) = Shown(d)
<1>1. {Shown(e) : e \in all} = {Shown(d)}
  OBVIOUS
<1> QED
  BY <1>1 DEF VaultOf

\* While a mark is not durable the vault has the content it takes the place of.
LEMMA VaultOfTwo ==
    ASSUME NEW all, NEW d \in all, NEW b, NEW t \in Transactions, Shown(d) = t,
           b[t] \in Transactions => b[b[t]] \notin {b[t], t},
           \A e \in all : Shown(e) \in {t, b[t]},
           NEW f \in all, Shown(f) # Shown(d)
    PROVE  VaultOf(all, d, b) = b[t]
<1> DEFINE shown == {Shown(e) : e \in all}
           u == CHOOSE r \in Transactions : r \in shown /\ b[r] \in shown
<1>1. shown = {t, b[t]} /\ b[t] # t
  OBVIOUS
<1>2. shown # {Shown(d)}
  BY <1>1
<1>3. VaultOf(all, d, b) = b[u]
  BY <1>2 DEF VaultOf
<1> HIDE DEF shown
<1>4. u \in Transactions /\ u \in shown /\ b[u] \in shown
  <2>1. \E r \in Transactions : r \in shown /\ b[r] \in shown
    BY <1>1
  <2> QED
    BY <2>1
<1> HIDE DEF u
<1>5. u = t
  BY <1>1, <1>4
<1> QED
  BY <1>3, <1>5

LEMMA VaultIs ==
    /\ Vault = VaultOf(after, disk, base)
    /\ Vault' = VaultOf(after', disk', base')
  BY DEF Vault, VaultOf

-----------------------------------------------------------------------------
(* The steps of AtomicReplace.                                              *)

\* An apply is asked: nothing is shown.
LEMMA AsksIs ==
    ASSUME AtomicInv, Begun, [Next]_vars
    PROVE  Promise!Next
<1>0. /\ TypeOK /\ disk \in after /\ Said /\ Past /\ Undisturbed /\ BaseGiven
  BY BaseStep DEF AtomicInv, ShownOK, Said, Past, OInv, SInv, TypeOK
<1>1. PICK t \in Transactions, b \in Transactions \cup {Original} :
         /\ base[t] = Absent /\ base' = [base EXCEPT ![t] = b]
         /\ disk' = disk /\ after' = after
  BY <1>0 DEF Begun, Begin, Undisturbed
<1>2. Vault' = Vault
  <2>1. CASE One
    BY <1>0, <1>1, <2>1, VaultIs, VaultOfOne DEF One
  <2>2. ASSUME NEW s \in Transactions, Two(s), ~One
        PROVE  Vault' = Vault
    <3>1. PICK f \in after : Shown(f) # Shown(disk)
      BY <2>2 DEF One
    <3>2. /\ Shown(disk) = s /\ base[s] # Absent
          /\ base[s] \in Transactions => base[base[s]] \notin {Absent, base[s], s}
          /\ \A d \in after : Shown(d) \in {s, base[s]}
      BY <1>0, <2>2 DEF Two, Past, PastOf
    <3>3. /\ base'[s] = base[s]
          /\ base[s] \in Transactions => base'[base[s]] = base[base[s]]
      BY <1>0, <3>2 DEF BaseGiven
    <3>4. Vault = base[s]
      BY <1>0, <3>1, <3>2, VaultIs, VaultOfTwo
    <3>5. /\ base'[s] \in Transactions => base'[base'[s]] \notin {base'[s], s}
          /\ \A d \in after : Shown(d) \in {s, base'[s]}
      BY <3>2, <3>3
    <3>6. VaultOf(after, disk, base') = base'[s]
      BY <1>0, <3>1, <3>2, <3>5, VaultOfTwo
    <3> QED
      BY <1>1, <3>3, <3>4, <3>6, VaultIs
  <2> QED
    BY <1>0, <2>1, <2>2 DEF Said
<1> QED
  BY <1>1, <1>2 DEF Promise!Next, Promise!Ask, Promise!Contents

\* A change of the disk: the content a transaction was made against goes for
\* its own, in one step, or nothing is shown.
LEMMA ReplacesIs ==
    ASSUME AtomicInv, AtomicInv', [Next]_vars, base' = base
    PROVE  (\E t \in Transactions : Promise!Replace(t)) \/ Vault' = Vault
<1>0. /\ disk \in after /\ Said /\ AtMark /\ disk' \in after' /\ Said'
      /\ Unshown \/ Published
  <2>1. TypeOK
    BY DEF AtomicInv, OInv, SInv
  <2> QED
    BY <2>1, EveryChange, ShownStep, ProperStep
       DEF AtomicInv, ShownOK, Said, AtMark, OInv, SInv, TypeOK
<1>1. One => Vault = Shown(disk)
  BY <1>0, VaultIs, VaultOfOne DEF One
<1>2. ASSUME NEW t \in Transactions, Two(t), ~One
      PROVE  Vault = base[t]
  <2>1. PICK f \in after : Shown(f) # Shown(disk)
    BY <1>2 DEF One
  <2> QED
    BY <1>0, <1>2, <2>1, VaultIs, VaultOfTwo DEF Two
<1>3. (\A f \in after' : Shown(f) = Shown(disk')) => Vault' = Shown(disk')
  BY <1>0, VaultIs, VaultOfOne
<1>4. ASSUME NEW t \in Transactions, Shown(disk') = t,
             ~\A f \in after' : Shown(f) = Shown(disk')
      PROVE  Vault' = base[t]
  <2>1. PICK f \in after' : Shown(f) # Shown(disk')
    BY <1>4
  <2>2. PICK s \in Transactions : Two(s)'
    BY <1>0, <2>1 DEF Said, One
  <2>3. /\ Shown(disk') = s
        /\ base[s] \in Transactions => base[base[s]] \notin {base[s], s}
        /\ \A d \in after' : Shown(d) \in {s, base[s]}
    BY <2>2 DEF Two
  <2>4. s = t
    BY <1>4, <2>3
  <2> QED
    BY <1>0, <2>1, <2>3, <2>4, VaultIs, VaultOfTwo
<1>5. CASE Published
  <2>1. /\ tx \in Transactions /\ Vault = base[tx] /\ Shown(disk') = tx
    BY <1>0, <1>1, <1>5 DEF Published, AtMark
  <2>2. Vault' = tx \/ Vault' = base[tx]
    BY <1>3, <1>4, <2>1
  <2> QED
    BY <2>1, <2>2 DEF Promise!Replace
<1>6. CASE Unshown /\ One
  <2>1. \A f \in after' : Shown(f) = Shown(disk)
    BY <1>6 DEF Unshown, One
  <2> QED
    BY <1>0, <1>1, <1>3, <1>6, <2>1
<1>7. ASSUME NEW t \in Transactions, Unshown, Two(t), ~One
      PROVE  Promise!Replace(t) \/ Vault' = Vault
  <2>1. Vault = base[t] /\ Shown(disk') \in {t, base[t]}
    BY <1>0, <1>2, <1>7 DEF Unshown, Two
  <2>2. CASE \A f \in after' : Shown(f) = Shown(disk')
    BY <1>3, <2>1, <2>2 DEF Promise!Replace
  <2>3. CASE ~\A f \in after' : Shown(f) = Shown(disk')
    <3>1. Shown(disk') = t
      BY <1>7, <2>3 DEF Unshown, Two
    <3> QED
      BY <1>4, <2>1, <2>3, <3>1
  <2> QED
    BY <2>2, <2>3
<1> QED
  BY <1>0, <1>5, <1>6, <1>7 DEF Said

-----------------------------------------------------------------------------
(* The refinement.                                                          *)

Ordered == Undisturbed /\ ~world.reorders
Implementing == Ordered => AtomicInv

LEMMA AtomicStep ==
    ASSUME Implementing, [Next]_vars
    PROVE  /\ Implementing'
           /\ Ordered => [Promise!Next]_<<Vault, base>>
<1>1. Ordered' = Ordered
  BY WorldStays DEF Ordered, Undisturbed
<1>2. ASSUME Ordered
      PROVE  AtomicInv' /\ [Promise!Next]_<<Vault, base>>
  <2>1. AtomicInv
    BY <1>2 DEF Implementing
  <2>2. TypeOK /\ AtMark /\ Named /\ OInv /\ Secured /\ Undisturbed
    BY <2>1 DEF AtomicInv, ShownOK, AtMark, Named, OInv, SInv
  <2>3. OInv' /\ Undisturbed' /\ Secured'
    <3>1. Alone'
      BY <2>2, AloneStep DEF Alone
    <3>2. Undisturbed'
      BY <1>1, <1>2 DEF Ordered
    <3> QED
      BY <3>1, <3>2 DEF Alone
  <2>4. Said' /\ Past' /\ AtMark' /\ Named'
    BY <2>1, <2>2, SaidStep, OneAtMark, NamedStep
  <2>5. AtomicInv'
    BY <2>3, <2>4 DEF AtomicInv, ShownOK, Said, Past, AtMark, Named
  <2>6. CASE Begun
    BY <2>1, <2>5, <2>6, AsksIs
  <2>7. CASE base' = base
    BY <2>1, <2>5, <2>7, ReplacesIs DEF Promise!Next
  <2> QED
    BY <2>2, <2>5, <2>6, <2>7, BaseStep
<1> QED
  BY <1>1, <1>2 DEF Implementing

LEMMA AtomicInit ==
    ASSUME Init, Original \notin Transactions
    PROVE  Implementing /\ Promise!Init
<1>1. disk[Root] = Original /\ after = {disk}
  BY Places DEF Init
<1>2. \A d \in after : Shown(d) = Original
  BY <1>1, ShownRoot, Contents
<1>3. Vault = Original
  BY <1>1, <1>2, VaultIs, VaultOfOne
<1>4. Promise!Init
  BY <1>3 DEF Init, Promise!Init
<1>5. ASSUME Ordered
      PROVE  AtomicInv
  <2>1. OInv /\ Secured
    BY <1>5, AloneInit DEF Alone, Ordered
  <2>2. One /\ \A d \in after : PastOf(Shown(d))
    BY <1>1, <1>2 DEF One, PastOf
  <2>3. pc \notin Brought
    BY DEF Init, Brought
  <2>4. ShownOK
    BY <2>2, <2>3 DEF ShownOK, Said, Past, AtMark, Named, Brought
  <2> QED
    BY <1>5, <2>1, <2>4 DEF AtomicInv, Ordered
<1> QED
  BY <1>4, <1>5 DEF Implementing

\* Alone with a file system that keeps the order of the changes of a directory,
\* SnapshotApplier replaces the vault in one step: whatever the crashes, the
\* errors, the power losses and the recoveries, each step of it is a Replace or
\* an Ask of AtomicReplace, or shows nothing.  The content the vault starts with
\* is to be told from those the transactions publish.
THEOREM Implements == Original \notin Transactions => (Spec => Atomic)
<1> SUFFICES ASSUME Original \notin Transactions
             PROVE  Spec => Atomic
  OBVIOUS
<1>1. Init => Implementing /\ Promise!Init
  BY AtomicInit
<1>2. Implementing /\ [Next]_vars => Implementing'
  BY AtomicStep
<1>3. Implementing /\ [Next]_vars =>
         [Undisturbed /\ ~world.reorders => [Promise!Next]_<<Vault, base>>]_vars
  BY AtomicStep DEF Ordered
<1> QED
  BY <1>1, <1>2, <1>3, PTL DEF Spec, Atomic
================================================================================
