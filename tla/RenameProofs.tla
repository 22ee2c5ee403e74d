---------------------------- MODULE RenameProofs ----------------------------
(***************************************************************************)
(* What RenameRecovery says for a small instance, proved for every one: any *)
(* paths and notes, any number of crashes, faults, refusals and changes.    *)
(*                                                                         *)
(* A content is bounded by the changes there have been so far, so the types *)
(* are families: XBy(n) is what may be there after n changes of others.     *)
(* The steps of Fub keep n, and those of others add one to it.  What makes  *)
(* NoTextLost more than a type is in RewritesBy: an edit gives back the     *)
(* note and the text it is for, in whatever intent it was kept meanwhile.   *)
(***************************************************************************)
EXTENDS RenameRecovery, TLAPS

ContentsBy(n) == [note : Notes, edits : 0..n, link : Paths \cup {None}]
FileBy(n) == ContentsBy(n) \cup {None}
RewritesBy(n) ==
    {w \in [doc : Paths, base : ContentsBy(n), result : ContentsBy(n)] :
        w.result.note = w.base.note /\ w.result.edits = w.base.edits}
IntentsBy(n) == [from : Paths, to : Paths, pre : ContentsBy(n),
                 state : {"Active", "Cancelled"}, rewrites : SUBSET RewritesBy(n)]
OperationsBy(n) == [from : Paths, to : Paths, pre : FileBy(n), rewrites : SUBSET RewritesBy(n),
                    moved : SUBSET Kinds, failed : BOOLEAN, why : Reasons]

\* An intent is known by its two paths and its preimage.
OneEach == \A r, s \in intents : Same(r, s) => r = s

\* A step of a rename has a rename, and from the plan on what it has read.
HasOperation(n) ==
    /\ pc \in Forward \cup Backward => op \in OperationsBy(n)
    /\ pc \in (Forward \cup Backward) \ {"read"} => op.pre \in ContentsBy(n)

InvBy(n) ==
    /\ file \in [Paths -> FileBy(n)] /\ known \in [Paths -> FileBy(n)]
    /\ intents \subseteq IntentsBy(n)
    /\ OneEach
    /\ at \in [Kinds -> Places]
    /\ pc \in Steps
    /\ op \in OperationsBy(n) \cup {None}
    /\ HasOperation(n)
    /\ left \subseteq RewritesBy(n)
    /\ todo \subseteq IntentsBy(n) /\ handled \in IntentsBy(n) \cup {None}

IInv == spent \in Budgets /\ InvBy(spent.changes)

Kept == Texts(file) \subseteq Texts(file')

-----------------------------------------------------------------------------
(* What may be there after some changes may be there after more.           *)

\* Every type grows with the changes.
LEMMA MoreChanges ==
    ASSUME NEW m \in Nat, NEW n \in Nat, m <= n
    PROVE  /\ ContentsBy(m) \subseteq ContentsBy(n)
           /\ FileBy(m) \subseteq FileBy(n)
           /\ RewritesBy(m) \subseteq RewritesBy(n)
           /\ IntentsBy(m) \subseteq IntentsBy(n)
           /\ OperationsBy(m) \subseteq OperationsBy(n)
<1>1. ContentsBy(m) \subseteq ContentsBy(n)
  BY DEF ContentsBy
<1>2. FileBy(m) \subseteq FileBy(n)
  BY <1>1 DEF FileBy
<1>3. RewritesBy(m) \subseteq RewritesBy(n)
  BY <1>1 DEF RewritesBy
<1>4. IntentsBy(m) \subseteq IntentsBy(n)
  BY <1>1, <1>3 DEF IntentsBy
<1>5. OperationsBy(m) \subseteq OperationsBy(n)
  BY <1>2, <1>3 DEF OperationsBy
<1> QED
  BY <1>1, <1>2, <1>3, <1>4, <1>5

-----------------------------------------------------------------------------
(* What the helpers of the actions give.                                   *)

\* The bound of the changes bounds them all.
LEMMA ContentsByAll == \A n \in 0..MaxChanges : ContentsBy(n) \subseteq Contents
BY BoundsAssumption DEF ContentsBy, Contents

\* The places the steps of a rename put data at.
LEMMA PlacesType ==
    /\ "organization" \in Kinds /\ "space" \in Kinds /\ "draft" \in Kinds
    /\ \A p \in Paths : p \in Places /\ Aside(p) \in Places
    /\ Gone \in Places
BY DEF Kinds, Places

\* The rename in progress, and what a step changes of it.
LEMMA OperationType ==
    ASSUME NEW n \in 0..MaxChanges, op \in OperationsBy(n)
    PROVE  /\ op.from \in Paths /\ op.to \in Paths /\ op.pre \in FileBy(n)
           /\ op.rewrites \subseteq RewritesBy(n)
           /\ op.moved \subseteq Kinds /\ op.why \in Reasons
           /\ [op EXCEPT !.failed = TRUE] \in OperationsBy(n)
           /\ \A k \in Kinds : [op EXCEPT !.moved = @ \cup {k}] \in OperationsBy(n)
           /\ \A f \in FileBy(n) : [op EXCEPT !.pre = f] \in OperationsBy(n)
           /\ \A R \in SUBSET RewritesBy(n) : [op EXCEPT !.rewrites = R] \in OperationsBy(n)
BY DEF OperationsBy

\* A rename that begins has the paths it was asked for.
LEMMA BeginType ==
    ASSUME NEW n \in 0..MaxChanges, NEW from \in Paths, NEW to \in Paths, NEW why \in Reasons,
           Begin(from, to, why)
    PROVE  op' \in OperationsBy(n)
BY DEF OperationsBy, FileBy, Begin

\* The intent of a rename that has read its file.
LEMMA IntentType ==
    ASSUME NEW n \in 0..MaxChanges, op \in OperationsBy(n), op.pre \in ContentsBy(n),
           NEW state \in {"Active", "Cancelled"}
    PROVE  Intent(state) \in IntentsBy(n)
BY DEF Intent, IntentsBy, OperationsBy

\* Taking an intent out leaves one of each, and so does putting it back.
LEMMA WithoutOne ==
    ASSUME NEW n \in 0..MaxChanges, intents \subseteq IntentsBy(n), OneEach, NEW r
    PROVE  /\ Without(r) \subseteq IntentsBy(n)
           /\ \A s \in Without(r) : ~Same(s, r)
           /\ \A s, t \in Without(r) : Same(s, t) => s = t
BY DEF Without, OneEach

\* Where a rename that ends leaves the turn.
LEMMA EndsSomewhere ==
    ASSUME NEW why, NEW well, Ends(why, well)
    PROVE  /\ pc' \in {"idle", "clear", "scan"}
           /\ op' = None /\ left' = {} /\ todo' = todo /\ handled' = handled
BY DEF Ends, opening

\* Data that move stay at a place.
LEMMA PutType ==
    ASSUME at \in [Kinds -> Places], NEW kind \in Kinds, NEW place \in Places,
           Put(kind, place)
    PROVE  at' \in [Kinds -> Places]
BY DEF Put

\* A file that moves to a free name takes its text along.
LEMMA MovesKeep ==
    ASSUME NEW n \in 0..MaxChanges, file \in [Paths -> FileBy(n)],
           NEW from \in Paths, NEW to \in Paths, Moves(from, to)
    PROVE  file' \in [Paths -> FileBy(n)] /\ Kept
<1>1. file' \in [Paths -> FileBy(n)]
  BY DEF Moves, FileBy
<1>2. ASSUME NEW p \in Paths, file[p] # None
      PROVE  \E q \in Paths : file'[q] = file[p]
  <2>1. CASE p = from
    BY <2>1, <1>2 DEF Moves, Is
  <2>2. CASE p # from
    BY <2>2, <1>2 DEF Moves, Is
  <2> QED
    BY <2>1, <2>2
<1> QED
  BY <1>1, <1>2 DEF Kept, Texts, Here

\* An edit that lands leaves the text that was there.
LEMMA EditKeeps ==
    ASSUME NEW n \in 0..MaxChanges, file \in [Paths -> FileBy(n)],
           NEW w \in RewritesBy(n), Lands(w),
           file' = [file EXCEPT ![w.doc] = w.result]
    PROVE  file' \in [Paths -> FileBy(n)] /\ Kept
<1> USE DEF RewritesBy
<1>1. file' \in [Paths -> FileBy(n)]
  BY DEF FileBy
<1>2. w.doc \in Paths /\ w.result # None
  BY NoneAssumption, BoundsAssumption, ContentsByAll
<1> QED
  BY <1>1, <1>2 DEF Kept, Texts, Here, Lands

\* Marking an intent takes the place of the one that was there.
LEMMA MarkType ==
    ASSUME NEW n \in 0..MaxChanges, InvBy(n),
           NEW step \in {"cancel", "cancelAfter"}, NEW next \in {"undoOrganization", "drop"},
           MarkCancelled(step, next)
    PROVE  InvBy(n)' /\ Kept
<1> USE DEF InvBy, HasOperation, At, opening, disk, Kept, Steps, Forward, Backward
<1>1. op \in OperationsBy(n) /\ op.pre \in ContentsBy(n)
  BY DEF MarkCancelled
<1>2. Intent("Cancelled") \in IntentsBy(n)
  BY <1>1, IntentType
<1>3. \A s : Same(s, Intent("Cancelled")) <=> Same(s, op)
  BY DEF Same, Intent
<1>4. CASE /\ intents' = Without(op) \cup {Intent("Cancelled")}
           /\ Go(next) /\ UNCHANGED left
  <2>1. intents' \subseteq IntentsBy(n)
    BY <1>2, <1>4, WithoutOne
  <2>2. \A r, s \in intents' : Same(r, s) => r = s
    BY <1>3, <1>4, WithoutOne DEF Same
  <2> QED
    BY <1>1, <1>4, <2>1, <2>2 DEF MarkCancelled, Go, OneEach
<1>5. CASE Fails /\ UNCHANGED intents
  BY <1>5, EndsSomewhere DEF MarkCancelled, Fails, OneEach
<1> QED
  BY <1>4, <1>5 DEF MarkCancelled

-----------------------------------------------------------------------------
(* The steps of Fub.                                                       *)

\* A step of Fub keeps the types and loses no text.
LEMMA OwnStep ==
    ASSUME NEW n \in 0..MaxChanges, InvBy(n),
           \/ Renaming \/ Recovering \/ Open \/ Close \/ Crash \/ Sync
           \/ \E p, q \in Paths : p # q /\ Request(p, q)
    PROVE  InvBy(n)' /\ Kept
<1> USE DEF InvBy, HasOperation, At, opening, disk, OneEach, Kept, Steps, Forward, Backward
<1>1. ASSUME ReadSource PROVE InvBy(n)' /\ Kept
  <2>1. op \in OperationsBy(n) /\ file[op.from] \in FileBy(n)
    BY <1>1, OperationType DEF ReadSource
  <2>2. CASE Is(op.from)
    <3>1. file[op.from] \in ContentsBy(n)
      BY <2>1, <2>2 DEF Is, FileBy
    <3>2. op' \in OperationsBy(n) /\ op'.pre \in ContentsBy(n)
      BY <1>1, <2>1, <2>2, <3>1, OperationType DEF ReadSource, OperationsBy
    <3> QED
      BY <1>1, <2>2, <3>2 DEF ReadSource
  <2>3. CASE ~Is(op.from)
    BY <1>1, <2>3, EndsSomewhere DEF ReadSource, Fails
  <2> QED
    BY <2>2, <2>3
<1>2. ASSUME PlanRewrites PROVE InvBy(n)' /\ Kept
  <2>1. op \in OperationsBy(n)
    BY <1>2 DEF PlanRewrites
  <2>2. CASE Fails
    BY <1>2, <2>2, EndsSomewhere DEF PlanRewrites, Fails
  <2>3. CASE /\ \A s \in Sources : Is(s)
             /\ op' = [op EXCEPT !.rewrites = Plan]
             /\ pc' = "persist" /\ UNCHANGED <<left, opening>>
    <3>1. Plan \subseteq RewritesBy(n)
      BY <2>1, <2>3, OperationType DEF Plan, Sources, RewritesBy, ContentsBy, Is, FileBy
    <3>2. op' \in OperationsBy(n) /\ op'.pre = op.pre
      BY <2>1, <2>3, <3>1, OperationType DEF OperationsBy
    <3> QED
      BY <1>2, <2>3, <3>2 DEF PlanRewrites
  <2> QED
    BY <1>2, <2>2, <2>3 DEF PlanRewrites
<1>3. ASSUME Persist PROVE InvBy(n)' /\ Kept
  <2>1. op \in OperationsBy(n) /\ op.pre \in ContentsBy(n)
    BY <1>3 DEF Persist
  <2>2. Intent("Active") \in IntentsBy(n)
    BY <2>1, IntentType
  <2>3. CASE Fails /\ UNCHANGED intents
    BY <1>3, <2>3, EndsSomewhere DEF Persist, Fails
  <2>4. CASE /\ \A r \in intents : Same(r, Intent("Active")) => r = Intent("Active")
             /\ intents' = intents \cup {Intent("Active")}
             /\ Go("organization") /\ UNCHANGED left
    <3>1. intents' \subseteq IntentsBy(n) /\ OneEach'
      BY <2>2, <2>4 DEF Same
    <3> QED
      BY <1>3, <2>1, <2>4, <3>1 DEF Persist, Go
  <2> QED
    BY <1>3, <2>3, <2>4 DEF Persist
<1>4. ASSUME MoveOrganization PROVE InvBy(n)' /\ Kept
  <2>1. op \in OperationsBy(n) /\ op.pre \in ContentsBy(n)
    BY <1>4 DEF MoveOrganization
  <2>2. at' \in [Kinds -> Places]
    BY <1>4, <2>1, PlacesType, OperationType DEF MoveOrganization, Put, Keep, Go
  <2>3. op' \in OperationsBy(n) /\ op'.pre \in ContentsBy(n)
    BY <1>4, <2>1, PlacesType, OperationType DEF MoveOrganization, Put, Keep, Go, OperationsBy
  <2>4. /\ UNCHANGED <<file, known, intents, left, todo, handled>>
        /\ pc' \in {"space"}
    BY <1>4 DEF MoveOrganization, Put, Keep, Go
  <2> QED
    BY <2>1, <2>2, <2>3, <2>4
<1>5. ASSUME MoveSpace PROVE InvBy(n)' /\ Kept
  <2>1. op \in OperationsBy(n) /\ op.pre \in ContentsBy(n)
    BY <1>5 DEF MoveSpace
  <2>2. at' \in [Kinds -> Places]
    BY <1>5, <2>1, PlacesType, OperationType DEF MoveSpace, Put, Keep, Go, Strand
  <2>3. op' \in OperationsBy(n) /\ op'.pre \in ContentsBy(n)
    BY <1>5, <2>1, PlacesType, OperationType DEF MoveSpace, Put, Keep, Go, Strand, OperationsBy
  <2>4. /\ UNCHANGED <<file, known, intents, left, todo, handled>>
        /\ pc' \in {"land", "draft"}
    BY <1>5 DEF MoveSpace, Put, Keep, Go, Strand
  <2> QED
    BY <2>1, <2>2, <2>3, <2>4
<1>6. ASSUME LandSpace PROVE InvBy(n)' /\ Kept
  <2>1. op \in OperationsBy(n) /\ op.pre \in ContentsBy(n)
    BY <1>6 DEF LandSpace
  <2>2. at' \in [Kinds -> Places]
    BY <1>6, <2>1, PlacesType, OperationType DEF LandSpace, Tracked, Put, Strand
  <2>3. op' \in OperationsBy(n) /\ op'.pre \in ContentsBy(n)
    BY <1>6, <2>1, PlacesType, OperationType DEF LandSpace, Tracked, Put, Strand, OperationsBy
  <2>4. /\ UNCHANGED <<file, known, intents, left, todo, handled>>
        /\ pc' \in {"draft"}
    BY <1>6 DEF LandSpace, Tracked, Put, Strand
  <2> QED
    BY <2>1, <2>2, <2>3, <2>4
<1>7. ASSUME MoveDraft PROVE InvBy(n)' /\ Kept
  <2>1. op \in OperationsBy(n) /\ op.pre \in ContentsBy(n)
    BY <1>7 DEF MoveDraft
  <2>2. at' \in [Kinds -> Places]
    BY <1>7, <2>1, PlacesType, OperationType DEF MoveDraft, Tracked, Put, Keep, Go
  <2>3. op' \in OperationsBy(n) /\ op'.pre \in ContentsBy(n)
    BY <1>7, <2>1, PlacesType, OperationType DEF MoveDraft, Tracked, Put, Keep, Go, OperationsBy
  <2>4. /\ UNCHANGED <<file, known, intents, left, todo, handled>>
        /\ pc' \in {"undoOrganization", "move"}
    BY <1>7 DEF MoveDraft, Tracked, Put, Keep, Go
  <2> QED
    BY <2>1, <2>2, <2>3, <2>4
<1>8. ASSUME MoveFile PROVE InvBy(n)' /\ Kept
  <2>1. op \in OperationsBy(n) /\ op.pre \in ContentsBy(n) /\ op.from \in Paths /\ op.to \in Paths
    BY <1>8, OperationType DEF MoveFile
  <2>2. file' \in [Paths -> FileBy(n)] /\ Kept
    BY <1>8, <2>1, MovesKeep DEF MoveFile
  <2>3. /\ UNCHANGED <<at, known, intents, op, left, todo, handled>>
        /\ pc' \in {"commit", "undoOrganization"}
    BY <1>8 DEF MoveFile, Go
  <2> QED
    BY <2>1, <2>2, <2>3
<1>9. ASSUME Commit PROVE InvBy(n)' /\ Kept
  <2>1. op \in OperationsBy(n) /\ op.pre \in ContentsBy(n)
    BY <1>9 DEF Commit
  <2>2. known' \in [Paths -> FileBy(n)] /\ left' \subseteq RewritesBy(n)
    BY <1>9, <2>1, OperationType DEF Commit, FileBy
  <2> QED
    BY <1>9, <2>1, <2>2 DEF Commit, Go
<1>10. ASSUME Refuse PROVE InvBy(n)' /\ Kept
  BY <1>10 DEF Refuse, Keep, Go
<1>11. ASSUME NEW w \in left, Rewrite(w) PROVE InvBy(n)' /\ Kept
  <2>1. op \in OperationsBy(n) /\ op.pre \in ContentsBy(n) /\ w \in RewritesBy(n)
    BY <1>11 DEF Rewrite, Publish
  <2>2. op' \in OperationsBy(n) /\ op'.pre \in ContentsBy(n)
    BY <1>11, <2>1, OperationType DEF Rewrite, Publish, OperationsBy
  <2>3. file' \in [Paths -> FileBy(n)] /\ Kept
    BY <1>11, <2>1, EditKeeps DEF Rewrite, Publish, Apply
  <2>4. known' \in [Paths -> FileBy(n)]
    BY <1>11, <2>1 DEF Rewrite, Publish, Apply, RewritesBy, FileBy
  <2>5. UNCHANGED <<at, intents, pc, todo, handled>> /\ left' \subseteq RewritesBy(n)
    BY <1>11 DEF Rewrite, Publish
  <2> QED
    BY <2>1, <2>2, <2>3, <2>4, <2>5
<1>12. ASSUME RewritesEnd PROVE InvBy(n)' /\ Kept
  <2>1. CASE Fails
    BY <1>12, <2>1, EndsSomewhere DEF RewritesEnd, Fails
  <2>2. CASE Go("complete") /\ UNCHANGED left
    BY <1>12, <2>2 DEF RewritesEnd, Go
  <2> QED
    BY <1>12, <2>1, <2>2 DEF RewritesEnd
<1>13. ASSUME Complete PROVE InvBy(n)' /\ Kept
  <2>1. intents' \subseteq IntentsBy(n) /\ OneEach'
    BY <1>13, WithoutOne DEF Complete
  <2>2. /\ pc' \in {"idle", "clear", "scan"}
        /\ op' = None /\ left' = {} /\ todo' = todo /\ handled' = handled
    BY <1>13, EndsSomewhere DEF Complete, Fails
  <2> QED
    BY <1>13, <2>1, <2>2 DEF Complete
<1>14. ASSUME Verify PROVE InvBy(n)' /\ Kept
  <2>1. CASE Fails
    BY <1>14, <2>1, EndsSomewhere DEF Verify, Fails
  <2>2. CASE Go("cancelAfter") /\ UNCHANGED left
    BY <1>14, <2>2 DEF Verify, Go
  <2> QED
    BY <1>14, <2>1, <2>2 DEF Verify
<1>15. ASSUME CancelMoved PROVE InvBy(n)' /\ Kept
  BY <1>15, MarkType, PutType DEF CancelMoved
<1>16. ASSUME CancelUnmoved PROVE InvBy(n)' /\ Kept
  BY <1>16, MarkType, PutType DEF CancelUnmoved
<1>17. ASSUME UndoOrganization PROVE InvBy(n)' /\ Kept
  <2>1. op \in OperationsBy(n) /\ op.pre \in ContentsBy(n)
    BY <1>17 DEF UndoOrganization
  <2>2. at' \in [Kinds -> Places]
    BY <1>17, <2>1, PlacesType, OperationType DEF UndoOrganization, Put, Keep, Go
  <2>3. op' \in OperationsBy(n) /\ op'.pre \in ContentsBy(n)
    BY <1>17, <2>1, PlacesType, OperationType DEF UndoOrganization, Put, Keep, Go, OperationsBy
  <2>4. /\ UNCHANGED <<file, known, intents, left, todo, handled>>
        /\ pc' \in {"undoSpace"}
    BY <1>17 DEF UndoOrganization, Put, Keep, Go
  <2> QED
    BY <2>1, <2>2, <2>3, <2>4
<1>18. ASSUME UndoSpace PROVE InvBy(n)' /\ Kept
  <2>1. op \in OperationsBy(n) /\ op.pre \in ContentsBy(n)
    BY <1>18 DEF UndoSpace
  <2>2. at' \in [Kinds -> Places]
    BY <1>18, <2>1, PlacesType, OperationType DEF UndoSpace, Put, Keep, Go
  <2>3. op' \in OperationsBy(n) /\ op'.pre \in ContentsBy(n)
    BY <1>18, <2>1, PlacesType, OperationType DEF UndoSpace, Put, Keep, Go, OperationsBy
  <2>4. /\ UNCHANGED <<file, known, intents, left, todo, handled>>
        /\ pc' \in {"undoLand", "undoDraft"}
    BY <1>18 DEF UndoSpace, Put, Keep, Go
  <2> QED
    BY <2>1, <2>2, <2>3, <2>4
<1>19. ASSUME UndoLand PROVE InvBy(n)' /\ Kept
  <2>1. op \in OperationsBy(n) /\ op.pre \in ContentsBy(n)
    BY <1>19 DEF UndoLand
  <2>2. at' \in [Kinds -> Places]
    BY <1>19, <2>1, PlacesType, OperationType DEF UndoLand, Put, Go
  <2>3. op' \in OperationsBy(n) /\ op'.pre \in ContentsBy(n)
    BY <1>19, <2>1, PlacesType, OperationType DEF UndoLand, Put, Go, OperationsBy
  <2>4. /\ UNCHANGED <<file, known, intents, left, todo, handled>>
        /\ pc' \in {"undoDraft"}
    BY <1>19 DEF UndoLand, Put, Go
  <2> QED
    BY <2>1, <2>2, <2>3, <2>4
<1>20. ASSUME UndoDraft PROVE InvBy(n)' /\ Kept
  <2>1. op \in OperationsBy(n) /\ op.pre \in ContentsBy(n)
    BY <1>20 DEF UndoDraft
  <2>2. at' \in [Kinds -> Places]
    BY <1>20, <2>1, PlacesType, OperationType DEF UndoDraft, Put, Keep, Go
  <2>3. op' \in OperationsBy(n) /\ op'.pre \in ContentsBy(n)
    BY <1>20, <2>1, PlacesType, OperationType DEF UndoDraft, Put, Keep, Go, OperationsBy
  <2>4. /\ UNCHANGED <<file, known, intents, left, todo, handled>>
        /\ pc' \in {"moveBack", "cancel"}
    BY <1>20 DEF UndoDraft, Put, Keep, Go
  <2> QED
    BY <2>1, <2>2, <2>3, <2>4
<1>21. ASSUME MoveBack PROVE InvBy(n)' /\ Kept
  <2>1. op \in OperationsBy(n) /\ op.pre \in ContentsBy(n) /\ op.from \in Paths /\ op.to \in Paths
    BY <1>21, OperationType DEF MoveBack
  <2>2. file' \in [Paths -> FileBy(n)] /\ Kept
    BY <1>21, <2>1, MovesKeep DEF MoveBack
  <2>3. UNCHANGED <<at, known, intents, todo, handled>>
    BY <1>21, EndsSomewhere DEF MoveBack, Go, Fails
  <2>4. CASE Fails
    BY <2>2, <2>3, <2>4, EndsSomewhere DEF Fails
  <2>5. CASE Go("drop") /\ UNCHANGED left
    BY <2>1, <2>2, <2>3, <2>5 DEF Go
  <2> QED
    BY <1>21, <2>4, <2>5 DEF MoveBack
<1>22. ASSUME Drop PROVE InvBy(n)' /\ Kept
  <2>1. intents' \subseteq IntentsBy(n) /\ OneEach'
    BY <1>22, WithoutOne DEF Drop
  <2>2. /\ pc' \in {"idle", "clear", "scan"}
        /\ op' = None /\ left' = {} /\ todo' = todo /\ handled' = handled
    BY <1>22, EndsSomewhere DEF Drop, Fails
  <2> QED
    BY <1>22, <2>1, <2>2 DEF Drop
<1>23. ASSUME NEW r \in todo, Resume(r) PROVE InvBy(n)' /\ Kept
  <2>1. r.from \in Paths /\ r.to \in Paths /\ r \in IntentsBy(n) /\ "resume" \in Reasons
    BY DEF IntentsBy, Reasons
  <2>2. op' \in OperationsBy(n)
    BY <1>23, <2>1, BeginType DEF Resume
  <2> QED
    BY <1>23, <2>1, <2>2 DEF Resume, Takes, Begin
<1>24. ASSUME NEW r \in todo, Return(r) PROVE InvBy(n)' /\ Kept
  <2>1. r.from \in Paths /\ r.to \in Paths /\ r \in IntentsBy(n) /\ "return" \in Reasons
    BY DEF IntentsBy, Reasons
  <2>2. op' \in OperationsBy(n)
    BY <1>24, <2>1, BeginType DEF Return
  <2> QED
    BY <1>24, <2>1, <2>2 DEF Return, Takes, Begin
<1>25. ASSUME NEW r \in todo, Forget(r) PROVE InvBy(n)' /\ Kept
  BY <1>25 DEF Forget, Takes, GoesOn
<1>26. ASSUME NEW r \in todo, TakeReplay(r) PROVE InvBy(n)' /\ Kept
  <2>1. r.rewrites \subseteq RewritesBy(n) /\ r \in IntentsBy(n)
    BY DEF IntentsBy
  <2> QED
    BY <1>26, <2>1 DEF TakeReplay, Takes, GoesOn
<1>27. ASSUME NEW r \in todo, Leave(r) PROVE InvBy(n)' /\ Kept
  BY <1>27 DEF Leave, Takes, GoesOn
<1>28. ASSUME NEW w \in left, Replay(w) PROVE InvBy(n)' /\ Kept
  <2>1. w \in RewritesBy(n)
    OBVIOUS
  <2>2. file' \in [Paths -> FileBy(n)] /\ Kept
    BY <1>28, <2>1, EditKeeps DEF Replay, Publish, Apply
  <2>3. known' \in [Paths -> FileBy(n)]
    BY <1>28, <2>1 DEF Replay, Publish, Apply, RewritesBy, FileBy
  <2>4. /\ UNCHANGED <<at, intents, op, todo, handled>> /\ left' \subseteq RewritesBy(n)
        /\ pc' \in {"replay", "scan"}
    BY <1>28 DEF Replay, Publish
  <2> QED
    BY <2>2, <2>3, <2>4
<1>29. ASSUME ReplayEnds PROVE InvBy(n)' /\ Kept
  BY <1>29 DEF ReplayEnds, GoesOn
<1>30. ASSUME Clear PROVE InvBy(n)' /\ Kept
  <2>1. intents' \subseteq IntentsBy(n) /\ OneEach'
    BY <1>30, WithoutOne DEF Clear
  <2> QED
    BY <1>30, <2>1 DEF Clear
<1>31. ASSUME RecoveryEnds PROVE InvBy(n)' /\ Kept
  BY <1>31 DEF RecoveryEnds, GoesOn
<1>32. ASSUME Collect PROVE InvBy(n)' /\ Kept
  BY <1>32, PlacesType DEF Collect
<1>33. ASSUME NEW p \in Paths, NEW q \in Paths, Request(p, q) PROVE InvBy(n)' /\ Kept
  <2>1. op' \in OperationsBy(n)
    BY <1>33, BeginType DEF Request, Reasons
  <2> QED
    BY <1>33, <2>1 DEF Request, Begin
<1>34. ASSUME Open PROVE InvBy(n)' /\ Kept
  BY <1>34 DEF Open
<1>35. ASSUME Close PROVE InvBy(n)' /\ Kept
  BY <1>35 DEF Close, Stops, FileBy
<1>36. ASSUME Crash PROVE InvBy(n)' /\ Kept
  BY <1>36 DEF Crash, Stops, FileBy
<1>37. ASSUME Sync PROVE InvBy(n)' /\ Kept
  BY <1>37 DEF Sync
<1> QED
  BY <1>1, <1>2, <1>3, <1>4, <1>5, <1>6, <1>7, <1>8, <1>9, <1>10, <1>11, <1>12, <1>13, <1>14,
     <1>15, <1>16, <1>17, <1>18, <1>19, <1>20, <1>21, <1>22, <1>23, <1>24, <1>25, <1>26, <1>27,
     <1>28, <1>29, <1>30, <1>31, <1>32, <1>33, <1>34, <1>35, <1>36, <1>37
  DEF Renaming, Recovering

-----------------------------------------------------------------------------
(* The steps of others, and what is spent.                                 *)

\* With one more change there may be all there was, and one text more.
LEMMA MoreChangesInv ==
    ASSUME NEW m \in 0..MaxChanges, NEW n \in 0..MaxChanges, m <= n, InvBy(m)
    PROVE  InvBy(n)
<1>1. m \in Nat /\ n \in Nat
  BY BoundsAssumption
<1> QED
  BY <1>1, MoreChanges DEF InvBy, HasOperation

\* A step of another program adds one to the changes.
LEMMA OthersStep ==
    ASSUME NEW n \in 0..MaxChanges, n + 1 <= MaxChanges, InvBy(n),
           NEW p \in Paths, Change(p) \/ Appear(p)
    PROVE  InvBy(n + 1)'
<1>1. n \in Nat /\ n + 1 \in 0..MaxChanges
  BY BoundsAssumption
<1>2. InvBy(n + 1)
  BY <1>1, MoreChangesInv
<1>3. file' \in [Paths -> FileBy(n + 1)]
  <2>1. file \in [Paths -> FileBy(n)] /\ file \in [Paths -> FileBy(n + 1)]
    BY <1>2 DEF InvBy
  <2>2. CASE Change(p)
    <3>1. file[p] \in ContentsBy(n)
      BY <2>1, <2>2 DEF Change, Is, FileBy
    <3>2. [file[p] EXCEPT !.edits = @ + 1] \in ContentsBy(n + 1)
      BY <1>1, <3>1 DEF ContentsBy
    <3>3. file' = [file EXCEPT ![p] = [file[p] EXCEPT !.edits = @ + 1]]
      BY <2>1, <2>2 DEF Change
    <3> QED
      BY <2>1, <3>2, <3>3 DEF FileBy
  <2>3. CASE Appear(p)
    <3>1. [note |-> Stranger, edits |-> 0, link |-> None] \in ContentsBy(n + 1)
      <4>1. Stranger \in Notes
        BY DEF Notes
      <4>2. 0 \in 0..(n + 1)
        BY <1>1
      <4> QED
        BY <4>1, <4>2 DEF ContentsBy
    <3>2. file' = [file EXCEPT ![p] = [note |-> Stranger, edits |-> 0, link |-> None]]
      BY <2>3 DEF Appear
    <3> QED
      BY <2>1, <3>1, <3>2 DEF FileBy
  <2> QED
    BY <2>2, <2>3
<1>4. UNCHANGED <<intents, at, known, pc, op, left, todo, handled>>
  BY DEF Change, Appear, Others, opening
<1> QED
  BY <1>2, <1>3, <1>4 DEF InvBy, HasOperation, OneEach

\* Only others spend changes, also those an edit overtakes.
LEMMA Spent ==
    ASSUME spent \in Budgets
    PROVE  /\ Fault => spent' \in Budgets /\ spent'.changes = spent.changes
           /\ Spend("crashes") => spent' \in Budgets /\ spent'.changes = spent.changes
           /\ Spend("refusals") => spent' \in Budgets /\ spent'.changes = spent.changes
           /\ Spend("renames") => spent' \in Budgets /\ spent'.changes = spent.changes
           /\ Spend("changes") =>
                 /\ spent' \in Budgets
                 /\ spent'.changes = spent.changes + 1 /\ spent.changes < MaxChanges
                 /\ spent'.overtaken = spent.overtaken
           /\ Overtakes =>
                 /\ spent' \in Budgets
                 /\ spent'.changes = spent.changes + 1 /\ spent.changes < MaxChanges
<1>1. ASSUME NEW b \in Budgets
      PROVE  b \in [crashes : Nat, faults : Nat, refusals : Nat, changes : 0..MaxChanges,
                    overtaken : Nat, renames : Nat]
  BY BoundsAssumption
<1>2. MaxChanges \in Nat
  BY BoundsAssumption
<1>3. /\ Fault => spent' \in Budgets /\ spent'.changes = spent.changes
      /\ Spend("crashes") => spent' \in Budgets /\ spent'.changes = spent.changes
      /\ Spend("refusals") => spent' \in Budgets /\ spent'.changes = spent.changes
      /\ Spend("renames") => spent' \in Budgets /\ spent'.changes = spent.changes
  BY <1>1 DEF Fault, Spend
<1>4. Spend("changes") =>
         /\ spent' \in Budgets
         /\ spent'.changes = spent.changes + 1 /\ spent.changes < MaxChanges
         /\ spent'.overtaken = spent.overtaken
  BY <1>1, <1>2 DEF Spend
<1>5. Overtakes =>
         /\ spent' \in Budgets
         /\ spent'.changes = spent.changes + 1 /\ spent.changes < MaxChanges
  <2> SUFFICES ASSUME Overtakes
               PROVE  /\ spent' \in Budgets
                      /\ spent'.changes = spent.changes + 1 /\ spent.changes < MaxChanges
    OBVIOUS
  <2>1. spent' \in Budgets /\ spent'.changes = spent.changes + 1
    BY <1>1 DEF Overtakes
  <2>2. spent.changes \in Nat /\ spent'.changes \in 0..MaxChanges
    BY <1>1, <2>1
  <2> QED
    BY <1>2, <2>1, <2>2
<1> QED
  BY <1>3, <1>4, <1>5

\* A step of Fub adds none, or the one its edit overtakes.
LEMMA OwnSpent ==
    ASSUME spent \in Budgets,
           \/ Renaming \/ Recovering \/ Open \/ Close \/ Crash \/ Sync
           \/ \E p, q \in Paths : p # q /\ Request(p, q)
    PROVE  /\ spent' \in Budgets
           /\ \/ spent'.changes = spent.changes
              \/ spent'.changes = spent.changes + 1 /\ spent.changes < MaxChanges
<1> DEFINE Frugal == spent' = spent \/ Fault \/ Spend("refusals") \/ Overtakes
<1>1. CASE Renaming
  <2>1. ReadSource \/ PlanRewrites \/ Persist \/ MoveOrganization \/ MoveSpace \/ LandSpace
            \/ MoveDraft \/ MoveFile => Frugal
    BY DEF ReadSource, PlanRewrites, Persist, MoveOrganization, MoveSpace, LandSpace, Tracked,
           MoveDraft, MoveFile
  <2>2. Commit \/ Refuse \/ (\E w \in left : Rewrite(w)) \/ RewritesEnd \/ Complete => Frugal
    BY DEF Commit, Refuse, Rewrite, Publish, RewritesEnd, Complete
  <2>3. Verify \/ CancelMoved \/ CancelUnmoved \/ UndoOrganization \/ UndoSpace \/ UndoLand
            \/ UndoDraft \/ MoveBack \/ Drop => Frugal
    BY DEF Verify, CancelMoved, CancelUnmoved, MarkCancelled, UndoOrganization, UndoSpace,
           UndoLand, UndoDraft, MoveBack, Drop
  <2> QED
    BY <1>1, <2>1, <2>2, <2>3, Spent DEF Renaming
<1>2. CASE Recovering
  <2>1. Frugal
    BY <1>2 DEF Recovering, Resume, Return, Forget, TakeReplay, Leave, Takes, Replay, Publish,
                ReplayEnds, Clear, RecoveryEnds, Collect
  <2> QED
    BY <2>1, Spent
<1>3. CASE Open \/ Close \/ Crash \/ Sync \/ \E p, q \in Paths : p # q /\ Request(p, q)
  BY <1>3, Spent DEF Open, Close, Crash, Sync, Request
<1> QED
  BY <1>1, <1>2, <1>3

-----------------------------------------------------------------------------
(* The theorems.                                                           *)

\* The invariant at the start.
LEMMA InitIInv == Init => IInv
<1> SUFFICES ASSUME Init PROVE IInv
  OBVIOUS
<1> USE StartsAssumption, BoundsAssumption
<1>1. spent \in Budgets /\ spent.changes = 0
  BY BoundsAssumption DEF Init, Nothing
<1>2. file \in [Paths -> FileBy(0)]
  <2>1. ASSUME NEW p \in Paths PROVE file[p] \in FileBy(0)
    BY DEF Init, File, Contents, FileBy, ContentsBy, Here
  <2> QED
    BY <2>1 DEF Init
<1>3. at \in [Kinds -> Places]
  <2>1. Home \in Paths
    BY DEF Init, Here
  <2> QED
    BY <2>1, PlacesType DEF Init
<1>4. InvBy(0)
  BY <1>2, <1>3 DEF Init, InvBy, OneEach, HasOperation, Steps, Forward, Backward
<1> QED
  BY <1>1, <1>4 DEF IInv

\* The invariant in a step, and the texts in one that is not a change by others.
LEMMA StepIInv ==
    ASSUME IInv, [Next]_vars
    PROVE  IInv' /\ (Kept \/ \E p \in Paths : Change(p) \/ Appear(p))
<1> DEFINE n == spent.changes
<1>1. n \in 0..MaxChanges
  BY BoundsAssumption DEF IInv
<1>2. CASE \/ Renaming \/ Recovering \/ Open \/ Close \/ Crash \/ Sync
           \/ \E p, q \in Paths : p # q /\ Request(p, q)
  <2>1. /\ spent' \in Budgets
        /\ spent'.changes = n \/ (spent'.changes = n + 1 /\ n < MaxChanges)
    BY <1>2, OwnSpent DEF IInv
  <2>2. InvBy(n)
    BY DEF IInv
  <2> HIDE DEF n
  <2>3. \A k : k = n => InvBy(k)' /\ Kept
    BY <1>1, <1>2, <2>2, OwnStep
  <2>4. CASE spent'.changes = n
    BY <2>1, <2>3, <2>4 DEF IInv
  <2>5. CASE spent'.changes = n + 1 /\ n < MaxChanges
    <3>1. n \in Nat /\ n + 1 \in Nat /\ n <= n + 1
      BY <1>1, BoundsAssumption
    <3>2. \A k : k = n + 1 => InvBy(k)'
      BY <2>3, <3>1, MoreChanges DEF InvBy, HasOperation
    <3> QED
      BY <2>1, <2>3, <2>5, <3>2 DEF IInv
  <2> QED
    BY <2>1, <2>4, <2>5
<1>3. ASSUME NEW p \in Paths, Change(p) \/ Appear(p) PROVE IInv'
  <2>1. spent' \in Budgets /\ spent'.changes = n + 1 /\ n < MaxChanges
    BY <1>3, Spent DEF IInv, Change, Appear
  <2>2. InvBy(n)
    BY DEF IInv
  <2> QED
    BY <1>1, <1>3, <2>1, <2>2, OthersStep, BoundsAssumption DEF IInv
<1>4. CASE UNCHANGED vars
  BY <1>4 DEF vars, IInv, InvBy, HasOperation, OneEach, Kept
<1> QED
  BY <1>2, <1>3, <1>4 DEF Next

\* The invariant holds in every state of every instance.
THEOREM Inductive == Spec => []IInv
<1>1. Init => IInv
  BY InitIInv
<1>2. IInv /\ [Next]_vars => IInv'
  BY StepIInv
<1> QED
  BY <1>1, <1>2, PTL DEF Spec

\* Every variable has its type, for every value of the constants.
THEOREM TypeCorrect == Spec => []TypeOK
<1>1. ASSUME IInv PROVE TypeOK
  <2> DEFINE n == spent.changes
  <2>1. n \in Nat /\ MaxChanges \in Nat /\ n <= MaxChanges
    BY <1>1, BoundsAssumption DEF IInv
  <2>2. /\ ContentsBy(n) \subseteq Contents /\ FileBy(n) \subseteq File
        /\ RewritesBy(n) \subseteq Rewrites
    BY <2>1 DEF ContentsBy, Contents, FileBy, File, RewritesBy, Rewrites
  <2>3. IntentsBy(n) \subseteq Intents /\ OperationsBy(n) \subseteq Operations
    BY <2>2 DEF IntentsBy, Intents, OperationsBy, Operations
  <2>4. spent \in Budgets /\ InvBy(n)
    BY <1>1 DEF IInv
  <2> HIDE DEF n
  <2>5. file \in [Paths -> File] /\ known \in [Paths -> File]
    BY <2>2, <2>4 DEF InvBy
  <2> QED
    BY <2>2, <2>3, <2>4, <2>5 DEF InvBy, OneEach, Same, TypeOK
<1> QED
  BY <1>1, Inductive, PTL

\* No rename, undoing or recovery ever writes over a text that was on the disk
\* when Fub compared (apply_edit_detached_inner, rename_no_replace): whatever
\* crashes, faults and changes of other programs there are, a step leaves every
\* text somewhere, unless another program changes a note.  A text written between
\* the comparison and the renaming of an edit is not on the disk at either end
\* of the step, and nothing is said of it.
THEOREM NoTextEverLost == Spec => NoTextLost
<1>1. IInv /\ [Next]_vars
          => [spent'.changes - spent.changes = spent'.overtaken - spent.overtaken
                 => Texts(file) \subseteq Texts(file')]_vars
  <2> SUFFICES ASSUME IInv, Next,
                      spent'.changes - spent.changes = spent'.overtaken - spent.overtaken
               PROVE  Kept
    BY DEF Kept
  <2>1. ASSUME NEW p \in Paths, Change(p) \/ Appear(p) PROVE FALSE
    <3>1. spent'.changes = spent.changes + 1 /\ spent'.overtaken = spent.overtaken
      BY <2>1, Spent DEF IInv, Change, Appear
    <3>2. spent.changes \in Nat /\ spent.overtaken \in Nat
      BY BoundsAssumption DEF IInv
    <3> QED
      BY <3>1, <3>2
  <2> QED
    BY <2>1, StepIInv
<1> QED
  BY <1>1, Inductive, PTL DEF Spec, NoTextLost

-----------------------------------------------------------------------------
(* A cancelled intent is not made after all.  A note is at one path and its *)
(* texts only go on, so what an intent remembers is never newer than what a *)
(* rename reads later: the file that is about to move is the one a          *)
(* cancelled intent was for only if it is the one that was read, and then   *)
(* the two are the same intent, which is not cancelled.                     *)

InProgress == Forward \cup Backward
ToMove == {"plan", "persist", "organization", "space", "land", "draft", "move"}

NoteOnce == \A p, q \in Here(file) : file[p].note = file[q].note => p = q

\* The note of a content is somewhere, as it was or changed since.
Recalled(c) == \E p \in Here(file) : file[p].note = c.note /\ c.edits <= file[p].edits

Remembered ==
    /\ \A r \in intents : Recalled(r.pre)
    /\ pc \in InProgress \ {"read"} => Recalled(op.pre)

Elsewhere ==
    /\ \A r \in intents \cup todo : r.from # r.to
    /\ pc \in InProgress => op.from # op.to

\* What was read is still there, or was changed since, and is not older than
\* what the intents remember of the note.
ReadLast ==
    pc \in ToMove =>
        /\ Is(op.from) /\ file[op.from].note = op.pre.note
        /\ file[op.from] = op.pre \/ op.pre.edits < file[op.from].edits
        /\ \A r \in intents : r.pre.note = op.pre.note => r.pre.edits <= op.pre.edits

Announced == pc \in ToMove \ {"plan", "persist"} => Intent("Active") \in intents

MoveInv == NoteOnce /\ Remembered /\ Elsewhere /\ ReadLast /\ Announced

\* The ways a file, the intents, and the rename in progress change.
Edits == \E w \in left : Lands(w) /\ file' = [file EXCEPT ![w.doc] = w.result]

\* A file changes by a move, by one back, by an edit, or by others.
LEMMA FileSteps ==
    ASSUME [Next]_vars
    PROVE  \/ file' = file
           \/ At("move") /\ pc' = "commit" /\ Moves(op.from, op.to)
           \/ At("moveBack") /\ pc' = "drop" /\ Moves(op.to, op.from)
           \/ pc \in {"rewrite", "replay"} /\ pc' = pc /\ Edits
           \/ \E p \in Paths : Change(p) \/ Appear(p)
<1>1. CASE Renaming
  <2>1. ReadSource \/ PlanRewrites \/ Persist \/ Commit \/ Refuse \/ RewritesEnd \/ Complete
            \/ Verify \/ CancelMoved \/ CancelUnmoved \/ Drop => file' = file
    BY DEF ReadSource, PlanRewrites, Persist, Commit, Refuse, RewritesEnd, Complete, Verify,
           CancelMoved, CancelUnmoved, MarkCancelled, Drop, Keep, disk
  <2>2. MoveOrganization \/ MoveSpace \/ LandSpace \/ MoveDraft \/ UndoOrganization
            \/ UndoSpace \/ UndoLand \/ UndoDraft => file' = file
    BY DEF MoveOrganization, MoveSpace, LandSpace, Tracked, MoveDraft, UndoOrganization,
           UndoSpace, UndoLand, UndoDraft, Put, Keep, disk
  <2>3. MoveFile => \/ file' = file
                    \/ At("move") /\ pc' = "commit" /\ Moves(op.from, op.to)
    BY DEF MoveFile, Go
  <2>4. MoveBack => \/ file' = file
                    \/ At("moveBack") /\ pc' = "drop" /\ Moves(op.to, op.from)
    BY DEF MoveBack, Go
  <2>5. ASSUME NEW w \in left, Rewrite(w)
        PROVE  file' = file \/ (pc \in {"rewrite", "replay"} /\ pc' = pc /\ Edits)
    BY <2>5 DEF Rewrite, Publish, Apply, Edits, At
  <2> QED
    BY <1>1, <2>1, <2>2, <2>3, <2>4, <2>5 DEF Renaming
<1>2. CASE Recovering
  <2>1. ASSUME NEW w \in left, Replay(w)
        PROVE  file' = file \/ (pc \in {"rewrite", "replay"} /\ pc' = pc /\ Edits)
    BY <2>1 DEF Replay, Publish, Apply, Edits, At
  <2>2. ASSUME NEW r \in todo, Resume(r) \/ Return(r) \/ Forget(r) \/ TakeReplay(r) \/ Leave(r)
        PROVE  file' = file
    BY <2>2 DEF Resume, Return, Forget, TakeReplay, Leave, Begin, GoesOn, disk
  <2>3. ReplayEnds \/ Clear \/ RecoveryEnds \/ Collect => file' = file
    BY DEF ReplayEnds, Clear, RecoveryEnds, Collect, GoesOn, disk
  <2> QED
    BY <1>2, <2>1, <2>2, <2>3 DEF Recovering
<1>3. Open \/ Close \/ Crash \/ Sync \/ (\E p, q \in Paths : p # q /\ Request(p, q)) => file' = file
  BY DEF Open, Close, Crash, Stops, Sync, Request, Begin, disk
<1>4. UNCHANGED vars => file' = file
  BY DEF vars
<1> QED
  BY <1>1, <1>2, <1>3, <1>4 DEF Next

\* Intents go, one is written before a move, one is marked as cancelled.
LEMMA IntentSteps ==
    ASSUME [Next]_vars
    PROVE  \/ intents' \subseteq intents
           \/ /\ pc = "persist" /\ op' = op /\ file' = file
              /\ intents' = intents \cup {Intent("Active")}
           \/ /\ pc \in {"cancel", "cancelAfter"} /\ pc' \notin ToMove \cup {"read"} /\ file' = file
              /\ intents' = Without(op) \cup {Intent("Cancelled")}
<1>1. CASE Renaming
  <2>1. ReadSource \/ PlanRewrites \/ Commit \/ Refuse \/ RewritesEnd \/ Complete
            \/ Verify \/ Drop \/ MoveFile \/ MoveBack => intents' \subseteq intents
    BY DEF ReadSource, PlanRewrites, Commit, Refuse, RewritesEnd, Complete, Verify,
           Drop, MoveFile, MoveBack, Keep, disk, Without
  <2>2. MoveOrganization \/ MoveSpace \/ LandSpace \/ MoveDraft \/ UndoOrganization
            \/ UndoSpace \/ UndoLand \/ UndoDraft \/ (\E w \in left : Rewrite(w))
            => intents' \subseteq intents
    BY DEF MoveOrganization, MoveSpace, LandSpace, Tracked, MoveDraft, UndoOrganization,
           UndoSpace, UndoLand, UndoDraft, Put, Keep, disk, Rewrite, Publish
  <2>3. Persist => \/ intents' \subseteq intents
                   \/ /\ pc = "persist" /\ op' = op /\ file' = file
                      /\ intents' = intents \cup {Intent("Active")}
    BY DEF Persist, Go, At
  <2>4. CancelMoved \/ CancelUnmoved =>
           \/ intents' \subseteq intents
           \/ /\ pc \in {"cancel", "cancelAfter"} /\ pc' \notin ToMove \cup {"read"} /\ file' = file
              /\ intents' = Without(op) \cup {Intent("Cancelled")}
    BY DEF CancelMoved, CancelUnmoved, MarkCancelled, Go, At, ToMove
  <2> QED
    BY <1>1, <2>1, <2>2, <2>3, <2>4 DEF Renaming
<1>2. CASE Recovering
  <2>1. ASSUME NEW r \in todo, Resume(r) \/ Return(r) \/ Forget(r) \/ TakeReplay(r) \/ Leave(r)
        PROVE  intents' = intents
    BY <2>1 DEF Resume, Return, Forget, TakeReplay, Leave, Begin, GoesOn, disk
  <2>2. ReplayEnds \/ Clear \/ RecoveryEnds \/ Collect \/ (\E w \in left : Replay(w))
            => intents' \subseteq intents
    BY DEF ReplayEnds, Clear, RecoveryEnds, Collect, Replay, Publish, GoesOn, disk, Without
  <2> QED
    BY <1>2, <2>1, <2>2 DEF Recovering
<1>3. Open \/ Close \/ Crash \/ Sync \/ (\E p, q \in Paths : p # q /\ Request(p, q))
          => intents' = intents
  BY DEF Open, Close, Crash, Stops, Sync, Request, Begin, disk
<1>4. (\E p \in Paths : Change(p) \/ Appear(p)) \/ UNCHANGED vars => intents' = intents
  BY DEF Change, Appear, Others, vars
<1> QED
  BY <1>1, <1>2, <1>3, <1>4 DEF Next

\* A rename begins, reads its file, or goes on with what it has read.
LEMMA OperationSteps ==
    ASSUME IInv, [Next]_vars, pc' \in InProgress
    PROVE  \/ /\ pc' = "read"
              /\ \/ \E p, q \in Paths : p # q /\ op'.from = p /\ op'.to = q
                 \/ \E r \in todo : {op'.from, op'.to} = {r.from, r.to}
                 \/ pc = "read" /\ op' = op
           \/ pc = "read" /\ pc' = "plan" /\ Is(op.from) /\ op' = [op EXCEPT !.pre = file[op.from]]
           \/ /\ pc \in InProgress \ {"read"} /\ pc' # "read"
              /\ op'.from = op.from /\ op'.to = op.to /\ op'.pre = op.pre
              /\ pc # "plan" => op'.rewrites = op.rewrites
              /\ pc' \in ToMove => pc \in ToMove
              /\ pc = "plan" => pc' \in {"plan", "persist"}
              /\ pc = "persist" /\ pc' # "persist" => Intent("Active") \in intents'
<1> DEFINE n == spent.changes
           Same4 == op'.from = op.from /\ op'.to = op.to /\ op'.pre = op.pre
                        /\ op'.rewrites = op.rewrites
<1>0. pc \in InProgress => op \in OperationsBy(n)
  BY DEF IInv, InvBy, HasOperation, InProgress
<1> HIDE DEF n
<1>1. CASE Renaming
  <2> USE DEF At, InProgress, Forward, Backward, ToMove
  <2>1. ReadSource => /\ pc = "read" /\ pc' = "plan" /\ Is(op.from)
                      /\ op' = [op EXCEPT !.pre = file[op.from]]
    BY EndsSomewhere DEF ReadSource, Fails
  <2>2. PlanRewrites => /\ pc = "plan" /\ pc' = "persist"
                        /\ op'.from = op.from /\ op'.to = op.to /\ op'.pre = op.pre
    BY <1>0, EndsSomewhere DEF PlanRewrites, Fails, OperationsBy
  <2>3. Persist => pc = "persist" /\ pc' = "organization" /\ Same4 /\ Intent("Active") \in intents'
    BY EndsSomewhere DEF Persist, Fails, Go
  <2>4. MoveOrganization \/ MoveSpace \/ LandSpace \/ MoveDraft \/ MoveFile
            => /\ pc \in {"organization", "space", "land", "draft", "move"}
               /\ pc' \notin {"read", "plan", "persist"} /\ Same4
    BY <1>0 DEF MoveOrganization, MoveSpace, LandSpace, Tracked, MoveDraft, MoveFile, Strand, Go,
                OperationsBy
  <2>5. Commit \/ Refuse \/ (\E w \in left : Rewrite(w)) \/ RewritesEnd \/ Complete
            => /\ pc \in {"commit", "rewrite", "complete"}
               /\ pc' \in {"rewrite", "complete", "verify"} /\ Same4
    BY <1>0, EndsSomewhere
       DEF Commit, Refuse, Rewrite, Publish, RewritesEnd, Complete, Fails, Go, OperationsBy
  <2>6. Verify \/ CancelMoved \/ CancelUnmoved \/ MoveBack \/ Drop
            => /\ pc \in {"verify", "cancelAfter", "cancel", "moveBack", "drop"}
               /\ pc' \in {"cancelAfter", "undoOrganization", "drop"} /\ Same4
    BY EndsSomewhere DEF Verify, CancelMoved, CancelUnmoved, MarkCancelled, MoveBack, Drop,
                         Fails, Go
  <2>7. UndoOrganization \/ UndoSpace \/ UndoLand \/ UndoDraft
            => /\ pc \in {"undoOrganization", "undoSpace", "undoLand", "undoDraft"}
               /\ pc' \in {"undoSpace", "undoLand", "undoDraft", "moveBack", "cancel"} /\ Same4
    BY DEF UndoOrganization, UndoSpace, UndoLand, UndoDraft, Go
  <2> QED
    BY <1>1, <2>1, <2>2, <2>3, <2>4, <2>5, <2>6, <2>7 DEF Renaming
<1>2. CASE Recovering
  <2>1. ASSUME NEW r \in todo, Resume(r) \/ Return(r)
        PROVE  pc' = "read" /\ {op'.from, op'.to} = {r.from, r.to}
    BY <2>1 DEF Resume, Return, Begin
  <2>2. ASSUME NEW r \in todo, Forget(r) \/ TakeReplay(r) \/ Leave(r)
        PROVE  pc' \notin InProgress
    BY <2>2 DEF Forget, TakeReplay, Leave, GoesOn, InProgress, Forward, Backward
  <2>3. ReplayEnds \/ Clear \/ RecoveryEnds \/ Collect \/ (\E w \in left : Replay(w))
            => pc' \notin InProgress
    BY DEF ReplayEnds, Clear, RecoveryEnds, Collect, Replay, Publish, GoesOn, At, InProgress,
           Forward, Backward
  <2> QED
    BY <1>2, <2>1, <2>2, <2>3 DEF Recovering
<1>3. CASE Open \/ Close \/ Crash
  BY <1>3 DEF Open, Close, Crash, Stops, InProgress, Forward, Backward
<1>4. ASSUME NEW p \in Paths, NEW q \in Paths, p # q, Request(p, q)
      PROVE  pc' = "read" /\ op'.from = p /\ op'.to = q
  BY <1>4 DEF Request, Begin
<1>5. CASE Sync \/ (\E p \in Paths : Change(p) \/ Appear(p)) \/ UNCHANGED vars
  <2>1. pc' = pc /\ op' = op
    BY <1>5 DEF Sync, Change, Appear, Others, vars
  <2> QED
    BY <2>1 DEF InProgress, ToMove
<1> QED
  BY <1>1, <1>2, <1>3, <1>4, <1>5 DEF Next

\* No step makes a text older than it was, or drops one.
LEMMA Onward ==
    ASSUME IInv, [Next]_vars, NEW p \in Here(file)
    PROVE  \E q \in Here(file') : file'[q].note = file[p].note /\ file[p].edits <= file'[q].edits
<1>1. file \in [Paths -> FileBy(spent.changes)] /\ spent.changes \in 0..MaxChanges
  BY BoundsAssumption DEF IInv, InvBy
<1>2. file[p] \in ContentsBy(spent.changes) /\ file[p].edits \in Nat
  BY <1>1, BoundsAssumption DEF Here, FileBy, ContentsBy
<1>3. CASE Kept
  <2>1. <<file[p].note, file[p].edits>> \in Texts(file')
    BY <1>3 DEF Kept, Texts
  <2> QED
    BY <1>2, <2>1 DEF Texts
<1>4. ASSUME NEW q \in Paths, Change(q) \/ Appear(q)
      PROVE  /\ p \in Here(file') /\ file'[p].note = file[p].note
             /\ file[p].edits <= file'[p].edits
  <2>1. CASE Appear(q)
    BY <1>1, <1>2, <2>1 DEF Appear, Here, Is
  <2>2. CASE Change(q)
    <3>1. file' = [file EXCEPT ![q] = [file[q] EXCEPT !.edits = @ + 1]]
      BY <2>2, <1>1 DEF Change
    <3>2. CASE q # p
      BY <1>1, <1>2, <3>1, <3>2 DEF Here
    <3>3. CASE q = p
      <4>1. file'[p] = [file[p] EXCEPT !.edits = @ + 1]
        BY <1>1, <3>1, <3>3 DEF Here
      <4>2. /\ file'[p].note = file[p].note /\ file'[p].edits = file[p].edits + 1
            /\ file'[p] \in [note : Notes, edits : Nat, link : Paths \cup {None}]
        BY <1>2, <4>1, BoundsAssumption DEF ContentsBy
      <4>3. file'[p] # None
        <5>1. spent.changes < MaxChanges
          BY <2>2, Spent DEF IInv, Change
        <5>2. file'[p].edits \in 0..MaxChanges
          BY <1>1, <1>2, <4>2, <5>1, BoundsAssumption DEF ContentsBy
        <5> QED
          BY <4>2, <5>2, NoneAssumption DEF Contents
      <4> QED
        BY <1>2, <4>2, <4>3 DEF Here
    <3> QED
      BY <3>2, <3>3
  <2> QED
    BY <1>4, <2>1, <2>2
<1> QED
  BY <1>3, <1>4, StepIInv

\* What is remembered of a note stays remembered.
LEMMA StillRecalled ==
    ASSUME IInv, [Next]_vars, NEW c \in Contents, Recalled(c)
    PROVE  Recalled(c)'
<1>1. PICK p \in Here(file) : file[p].note = c.note /\ c.edits <= file[p].edits
  BY DEF Recalled
<1>2. PICK q \in Here(file') : file'[q].note = file[p].note /\ file[p].edits <= file'[q].edits
  BY Onward
<1>3. /\ file \in [Paths -> FileBy(spent.changes)] /\ file' \in [Paths -> FileBy(spent'.changes)]
      /\ spent.changes \in 0..MaxChanges /\ spent'.changes \in 0..MaxChanges
  BY StepIInv, BoundsAssumption DEF IInv, InvBy
<1>4. c.edits \in Nat /\ file[p].edits \in Nat /\ file'[q].edits \in Nat
  BY <1>3, BoundsAssumption DEF Here, FileBy, ContentsBy, Contents
<1>5. c.edits <= file'[q].edits
  BY <1>1, <1>2, <1>4
<1> QED
  BY <1>1, <1>2, <1>5 DEF Recalled

\* A note is at one path.
LEMMA NoteOnceStep ==
    ASSUME IInv, NoteOnce, [Next]_vars
    PROVE  NoteOnce'
<1>0. file \in [Paths -> FileBy(spent.changes)]
  BY DEF IInv, InvBy
<1>1. CASE file' = file
  BY <1>1 DEF NoteOnce
<1>2. ASSUME NEW from \in Paths, NEW to \in Paths, Moves(from, to) PROVE NoteOnce'
  BY <1>0, <1>2 DEF NoteOnce, Moves, Here, Is
<1>3. CASE Edits
  <2>1. PICK w \in left : Lands(w) /\ file' = [file EXCEPT ![w.doc] = w.result]
    BY <1>3 DEF Edits
  <2>2. w.doc \in Paths /\ w.result.note = file[w.doc].note /\ file[w.doc] # None
    BY <2>1, NoneAssumption, ContentsByAll, BoundsAssumption DEF Lands, IInv, InvBy, RewritesBy
  <2> QED
    BY <1>0, <2>1, <2>2 DEF NoteOnce, Here
<1>4. ASSUME NEW p \in Paths, Change(p) PROVE NoteOnce'
  <2>1. file' = [file EXCEPT ![p] = [file[p] EXCEPT !.edits = @ + 1]] /\ file[p] # None
    BY <1>0, <1>4 DEF Change, Is
  <2>2. [file[p] EXCEPT !.edits = @ + 1].note = file[p].note
    BY <1>0, <2>1 DEF FileBy, ContentsBy
  <2> QED
    BY <1>0, <2>1, <2>2 DEF NoteOnce, Here
<1>5. ASSUME NEW p \in Paths, Appear(p) PROVE NoteOnce'
  <2>1. /\ file' = [file EXCEPT ![p] = [note |-> Stranger, edits |-> 0, link |-> None]]
        /\ \A q \in Here(file) : file[q].note # Stranger
    BY <1>5 DEF Appear, Is, Here
  <2> QED
    BY <1>0, <2>1 DEF NoteOnce, Here
<1>6. At("move") \/ At("moveBack") => op.from \in Paths /\ op.to \in Paths
  BY OperationType, BoundsAssumption DEF At, IInv, InvBy, HasOperation, Forward, Backward
<1> QED
  BY <1>1, <1>2, <1>3, <1>4, <1>5, <1>6, FileSteps

\* Intents and the rename in progress remember texts of notes that are there.
LEMMA RememberedStep ==
    ASSUME IInv, NoteOnce, Remembered, [Next]_vars
    PROVE  Remembered'
<1>0. /\ \A r \in intents : r.pre \in Contents
      /\ pc \in InProgress \ {"read"} => op.pre \in Contents
  BY ContentsByAll, BoundsAssumption DEF IInv, InvBy, HasOperation, InProgress, IntentsBy
<1>1. ASSUME NEW c \in Contents, Recalled(c)
      PROVE  \E p \in Here(file') : file'[p].note = c.note /\ c.edits <= file'[p].edits
  <2>1. Recalled(c)'
    BY <1>1, StillRecalled
  <2> QED
    BY <2>1 DEF Recalled
<1> DEFINE Again(c) == \E p \in Here(file') : file'[p].note = c.note /\ c.edits <= file'[p].edits
<1>2. /\ \A r \in intents : Again(r.pre)
      /\ pc \in InProgress \ {"read"} => Again(op.pre)
  BY <1>0, <1>1 DEF Remembered
<1> HIDE DEF Again
<1>3. \A r \in intents' : Again(r.pre)
  <2>1. CASE intents' \subseteq intents
    BY <1>2, <2>1
  <2>2. CASE pc = "persist" /\ intents' = intents \cup {Intent("Active")}
    BY <1>2, <2>2 DEF Intent, InProgress, Forward
  <2>3. CASE pc \in {"cancel", "cancelAfter"} /\ intents' = Without(op) \cup {Intent("Cancelled")}
    BY <1>2, <2>3 DEF Intent, Without, InProgress, Backward
  <2> QED
    BY <2>1, <2>2, <2>3, IntentSteps
<1>4. ASSUME pc' \in InProgress \ {"read"} PROVE Again(op'.pre)
  <2>1. CASE pc = "read" /\ pc' = "plan" /\ Is(op.from) /\ op' = [op EXCEPT !.pre = file[op.from]]
    <3>1. op.from \in Here(file) /\ op'.pre = file[op.from]
      BY <2>1, OperationType DEF IInv, InvBy, HasOperation, InProgress, Forward,
                                 OperationsBy, Is, Here
    <3>2. file[op.from] \in Contents /\ file[op.from].edits \in Nat
      BY <3>1, ContentsByAll, BoundsAssumption
      DEF IInv, InvBy, FileBy, Here, Contents
    <3>3. Recalled(file[op.from])
      BY <3>1, <3>2 DEF Recalled
    <3> QED
      BY <1>1, <3>1, <3>2, <3>3 DEF Again
  <2>2. CASE pc \in InProgress \ {"read"} /\ op'.pre = op.pre
    BY <1>2, <2>2
  <2> QED
    BY <1>4, <2>1, <2>2, OperationSteps
<1> QED
  BY <1>3, <1>4 DEF Remembered, Recalled, Again

\* What the steps before the move leave alone.
LEMMA ReadSteps ==
    ASSUME [Next]_vars, pc = "read", pc' = "plan"
    PROVE  file' = file /\ intents' = intents
<1> USE DEF At
<1>1. CASE Renaming
  <2>1. ReadSource => file' = file /\ intents' = intents
    BY DEF ReadSource, disk
  <2>2. ~(PlanRewrites \/ Persist \/ Commit \/ Refuse \/ RewritesEnd \/ Complete
             \/ Verify \/ CancelMoved \/ CancelUnmoved \/ Drop)
    BY DEF PlanRewrites, Persist, Commit, Refuse, RewritesEnd, Complete, Verify,
           CancelMoved, CancelUnmoved, MarkCancelled, Drop
  <2>3. ~(MoveOrganization \/ MoveSpace \/ LandSpace \/ MoveDraft \/ MoveFile
             \/ UndoOrganization \/ UndoSpace \/ UndoLand \/ UndoDraft \/ MoveBack
             \/ \E w \in left : Rewrite(w))
    BY DEF MoveOrganization, MoveSpace, LandSpace, MoveDraft, MoveFile, UndoOrganization,
           UndoSpace, UndoLand, UndoDraft, MoveBack, Rewrite, Publish
  <2> QED
    BY <1>1, <2>1, <2>2, <2>3 DEF Renaming
<1>2. ~Recovering
  BY DEF Recovering, Resume, Return, Forget, TakeReplay, Leave, Takes, Replay, Publish, ReplayEnds,
         Clear, RecoveryEnds, Collect
<1>3. ~(Open \/ Close \/ Crash \/ \E p, q \in Paths : p # q /\ Request(p, q))
  BY DEF Open, Close, Crash, Stops, Request
<1>4. ~(Sync \/ (\E p \in Paths : Change(p) \/ Appear(p)) \/ UNCHANGED vars)
  BY DEF Sync, Change, Appear, Others, vars
<1> QED
  BY <1>1, <1>2, <1>3, <1>4 DEF Next

\* The opening looks at intents that were on the disk.
LEMMA TodoSteps ==
    ASSUME [Next]_vars
    PROVE  todo' \subseteq todo \cup intents
<1>1. CASE Renaming
  <2>1. ReadSource \/ PlanRewrites \/ Persist \/ Commit \/ Refuse \/ RewritesEnd \/ Complete
            \/ Verify \/ CancelMoved \/ CancelUnmoved \/ Drop => todo' = todo
    BY EndsSomewhere DEF ReadSource, PlanRewrites, Persist, Commit, Refuse, RewritesEnd, Complete,
           Verify, CancelMoved, CancelUnmoved, MarkCancelled, Drop, Fails, Go, opening
  <2>2. MoveOrganization \/ MoveSpace \/ LandSpace \/ MoveDraft \/ MoveFile => todo' = todo
    BY DEF MoveOrganization, MoveSpace, LandSpace, Tracked, Strand, MoveDraft, MoveFile, Go, opening
  <2>3. UndoOrganization \/ UndoSpace \/ UndoLand \/ UndoDraft => todo' = todo
    BY DEF UndoOrganization, UndoSpace, UndoLand, UndoDraft, Go, opening
  <2>4. MoveBack \/ (\E w \in left : Rewrite(w)) => todo' = todo
    BY EndsSomewhere DEF MoveBack, Rewrite, Publish, Go, Fails, opening
  <2> QED
    BY <1>1, <2>1, <2>2, <2>3, <2>4 DEF Renaming
<1>2. CASE Recovering
  <2>1. ASSUME NEW r \in todo, Resume(r) \/ Return(r) \/ Forget(r) \/ TakeReplay(r) \/ Leave(r)
        PROVE  todo' \subseteq todo
    BY <2>1 DEF Resume, Return, Forget, TakeReplay, Leave, Takes
  <2>2. ReplayEnds \/ Clear \/ RecoveryEnds \/ Collect \/ (\E w \in left : Replay(w))
            => todo' = todo
    BY DEF ReplayEnds, Clear, RecoveryEnds, Collect, Replay, Publish, GoesOn, opening
  <2> QED
    BY <1>2, <2>1, <2>2 DEF Recovering
<1>3. Open \/ Close \/ Crash \/ Sync \/ (\E p, q \in Paths : p # q /\ Request(p, q))
          => todo' \subseteq todo \cup intents
  BY DEF Open, Close, Crash, Stops, Sync, Request, Begin, opening
<1>4. (\E p \in Paths : Change(p) \/ Appear(p)) \/ UNCHANGED vars => todo' = todo
  BY DEF Change, Appear, Others, opening, vars
<1> QED
  BY <1>1, <1>2, <1>3, <1>4 DEF Next

\* While the data and the file move the intents stay.
LEMMA MovingSteps ==
    ASSUME [Next]_vars, pc \in ToMove \ {"plan", "persist"}, pc' \in ToMove
    PROVE  intents' = intents
<1> USE DEF At, ToMove
<1>1. CASE Renaming
  <2>1. ~(ReadSource \/ PlanRewrites \/ Persist \/ Commit \/ Refuse \/ RewritesEnd \/ Complete
             \/ Verify \/ CancelMoved \/ CancelUnmoved \/ Drop \/ MoveBack)
    BY DEF ReadSource, PlanRewrites, Persist, Commit, Refuse, RewritesEnd, Complete, Verify,
           CancelMoved, CancelUnmoved, MarkCancelled, Drop, MoveBack
  <2>2. MoveOrganization \/ MoveSpace \/ LandSpace \/ MoveDraft \/ MoveFile => intents' = intents
    BY DEF MoveOrganization, MoveSpace, LandSpace, Tracked, MoveDraft, MoveFile, Put, Keep, disk
  <2>3. ~(UndoOrganization \/ UndoSpace \/ UndoLand \/ UndoDraft \/ \E w \in left : Rewrite(w))
    BY DEF UndoOrganization, UndoSpace, UndoLand, UndoDraft, Rewrite, Publish
  <2> QED
    BY <1>1, <2>1, <2>2, <2>3 DEF Renaming
<1>2. ~Recovering
  BY DEF Recovering, Resume, Return, Forget, TakeReplay, Leave, Takes, Replay, Publish, ReplayEnds,
         Clear, RecoveryEnds, Collect
<1>3. Open \/ Close \/ Crash \/ Sync \/ (\E p, q \in Paths : p # q /\ Request(p, q))
          => intents' = intents
  BY DEF Open, Close, Crash, Stops, Sync, Request, Begin, disk
<1>4. (\E p \in Paths : Change(p) \/ Appear(p)) \/ UNCHANGED vars => intents' = intents
  BY DEF Change, Appear, Others, vars
<1> QED
  BY <1>1, <1>2, <1>3, <1>4 DEF Next

\* A change of the text leaves a file.
LEMMA ChangeKeeps ==
    ASSUME IInv, NEW p \in Paths, Change(p)
    PROVE  file'[p] # None
<1>1. file \in [Paths -> FileBy(spent.changes)] /\ spent.changes \in 0..MaxChanges
  BY BoundsAssumption DEF IInv, InvBy
<1>2. file[p] \in ContentsBy(spent.changes) /\ file'[p] = [file[p] EXCEPT !.edits = @ + 1]
  BY <1>1 DEF Change, Is, FileBy
<1>3. file'[p] \in Contents
  <2>1. file[p].edits + 1 \in 0..MaxChanges
    <3>1. spent.changes < MaxChanges
      BY Spent DEF IInv, Change
    <3> QED
      BY <1>1, <1>2, <3>1, BoundsAssumption DEF ContentsBy
  <2> QED
    BY <1>2, <2>1 DEF ContentsBy, Contents
<1> QED
  BY <1>3, NoneAssumption

\* No rename is from a path to itself.
LEMMA ElsewhereStep ==
    ASSUME IInv, Elsewhere, [Next]_vars
    PROVE  Elsewhere'
<1>1. ASSUME NEW r \in todo' PROVE r.from # r.to
  <2>1. todo' \subseteq todo \cup intents
    BY TodoSteps
  <2> QED
    BY <2>1 DEF Elsewhere
<1>2. ASSUME NEW r \in intents' PROVE r.from # r.to
  <2>1. pc \in {"persist", "cancel", "cancelAfter"} => op.from # op.to
    BY DEF Elsewhere, InProgress, Forward, Backward
  <2>2. CASE intents' \subseteq intents
    BY <2>2 DEF Elsewhere
  <2>3. CASE pc = "persist" /\ intents' = intents \cup {Intent("Active")}
    BY <2>1, <2>3 DEF Elsewhere, Intent
  <2>4. CASE pc \in {"cancel", "cancelAfter"} /\ intents' = Without(op) \cup {Intent("Cancelled")}
    BY <2>1, <2>4 DEF Elsewhere, Intent, Without
  <2> QED
    BY <2>2, <2>3, <2>4, IntentSteps
<1>3. ASSUME pc' \in InProgress PROVE op'.from # op'.to
  <2>1. CASE \E r \in todo : {op'.from, op'.to} = {r.from, r.to}
    BY <2>1 DEF Elsewhere
  <2>2. CASE pc = "read" /\ pc' = "plan" /\ Is(op.from) /\ op' = [op EXCEPT !.pre = file[op.from]]
    BY <2>2 DEF Elsewhere, InProgress, Forward, IInv, InvBy, HasOperation, OperationsBy
  <2>3. CASE pc \in InProgress /\ op'.from = op.from /\ op'.to = op.to
    BY <2>3 DEF Elsewhere
  <2>4. pc = "read" => pc \in InProgress
    BY DEF InProgress, Forward
  <2> QED
    BY <1>3, <2>1, <2>2, <2>3, <2>4, OperationSteps
<1> QED
  BY <1>1, <1>2, <1>3 DEF Elsewhere

\* Up to the move the file is the one that was read, or that with changes.
LEMMA ReadLastStep ==
    ASSUME IInv, NoteOnce, Remembered, ReadLast, [Next]_vars
    PROVE  ReadLast'
<1> SUFFICES ASSUME pc' \in ToMove
             PROVE  /\ Is(op.from)' /\ file'[op'.from].note = op'.pre.note
                    /\ file'[op'.from] = op'.pre \/ op'.pre.edits < file'[op'.from].edits
                    /\ \A r \in intents' : r.pre.note = op'.pre.note => r.pre.edits <= op'.pre.edits
  BY DEF ReadLast
<1>1. pc' \in InProgress /\ pc' \notin {"read", "commit", "drop", "rewrite", "replay"}
  BY DEF ToMove, InProgress, Forward
<1>2. /\ file \in [Paths -> FileBy(spent.changes)] /\ spent.changes \in Nat
      /\ pc \in InProgress => op \in OperationsBy(spent.changes)
      /\ intents \subseteq IntentsBy(spent.changes)
  BY BoundsAssumption DEF IInv, InvBy, HasOperation, InProgress
<1>3. CASE pc = "read" /\ pc' = "plan" /\ Is(op.from) /\ op' = [op EXCEPT !.pre = file[op.from]]
  <2>1. op'.from = op.from /\ op'.pre = file[op.from] /\ op.from \in Paths
    BY <1>2, <1>3 DEF InProgress, Forward, OperationsBy
  <2>2. file' = file /\ intents' = intents
    BY <1>3, ReadSteps
  <2>3. ASSUME NEW r \in intents, r.pre.note = file[op.from].note
        PROVE  r.pre.edits <= file[op.from].edits
    <3>1. PICK p \in Here(file) : file[p].note = r.pre.note /\ r.pre.edits <= file[p].edits
      BY DEF Remembered, Recalled
    <3>2. p = op.from
      BY <1>3, <2>1, <2>3, <3>1 DEF NoteOnce, Here, Is
    <3> QED
      BY <3>1, <3>2
  <2> QED
    BY <1>3, <2>1, <2>2, <2>3 DEF Is
<1>4. CASE /\ pc \in InProgress \ {"read"} /\ pc \in ToMove
           /\ op'.from = op.from /\ op'.to = op.to /\ op'.pre = op.pre
  <2>1. /\ op.from \in Paths /\ Is(op.from) /\ file[op.from].note = op.pre.note
        /\ file[op.from] = op.pre \/ op.pre.edits < file[op.from].edits
        /\ \A r \in intents : r.pre.note = op.pre.note => r.pre.edits <= op.pre.edits
        /\ op.pre \in ContentsBy(spent.changes)
    BY <1>2, <1>4 DEF ReadLast, OperationsBy, IInv, InvBy, HasOperation, InProgress
  <2>2. \A r \in intents' : r.pre.note = op'.pre.note => r.pre.edits <= op'.pre.edits
    <3>1. CASE intents' \subseteq intents
      BY <1>4, <2>1, <3>1
    <3>2. CASE intents' = intents \cup {Intent("Active")}
      BY <1>2, <1>4, <2>1, <3>2 DEF Intent, ContentsBy
    <3> QED
      BY <3>1, <3>2, IntentSteps
  <2>3. CASE file' = file
    BY <1>4, <2>1, <2>2, <2>3 DEF Is
  <2>4. ASSUME NEW p \in Paths, Change(p) \/ Appear(p)
        PROVE  /\ Is(op.from)' /\ file'[op'.from].note = op'.pre.note
               /\ file'[op'.from] = op'.pre \/ op'.pre.edits < file'[op'.from].edits
    <3>1. file[op.from] \in ContentsBy(spent.changes)
      BY <1>2, <2>1 DEF Is, FileBy
    <3>2. CASE p # op.from \/ Appear(p)
      <4>1. file'[op.from] = file[op.from]
        BY <1>2, <2>1, <2>4, <3>2 DEF Change, Appear
      <4> QED
        BY <1>4, <2>1, <4>1 DEF Is
    <3>3. CASE p = op.from /\ Change(p)
      <4>1. file'[op.from] = [file[op.from] EXCEPT !.edits = @ + 1]
        BY <1>2, <2>1, <3>3 DEF Change
      <4>2. /\ file'[op.from].note = file[op.from].note
            /\ file'[op.from].edits = file[op.from].edits + 1
        BY <3>1, <4>1 DEF ContentsBy
      <4>3. op.pre.edits < file'[op.from].edits
        BY <1>2, <2>1, <3>1, <4>2 DEF ContentsBy
      <4>4. file'[op.from] # None
        BY <2>1, <3>3, ChangeKeeps
      <4> QED
        BY <1>4, <2>1, <4>2, <4>3, <4>4 DEF Is
    <3> QED
      BY <2>4, <3>2, <3>3
  <2>5. ~Edits \/ pc \notin {"rewrite", "replay"}
    BY <1>4 DEF ToMove
  <2> QED
    BY <1>1, <1>4, <2>2, <2>3, <2>4, <2>5, FileSteps DEF ToMove
<1> QED
  BY <1>1, <1>3, <1>4, OperationSteps

\* A rename about to move anything has its intent on the disk, and active.
LEMMA AnnouncedStep ==
    ASSUME IInv, Announced, [Next]_vars
    PROVE  Announced'
<1> SUFFICES ASSUME pc' \in ToMove \ {"plan", "persist"}
             PROVE  Intent("Active")' \in intents'
  BY DEF Announced
<1> USE DEF ToMove, InProgress, Forward
<1>1. /\ pc \in InProgress \ {"read", "plan"}
      /\ op'.from = op.from /\ op'.to = op.to /\ op'.pre = op.pre /\ op'.rewrites = op.rewrites
      /\ pc \in ToMove
      /\ pc = "persist" => Intent("Active") \in intents'
  BY OperationSteps
<1>2. Intent("Active")' = Intent("Active")
  BY <1>1 DEF Intent
<1>3. CASE pc # "persist"
  <2>1. Intent("Active") \in intents
    BY <1>1, <1>3 DEF Announced
  <2>2. intents' = intents
    BY <1>1, <1>3, MovingSteps
  <2> QED
    BY <1>2, <2>1, <2>2
<1> QED
  BY <1>1, <1>2, <1>3

\* At the start there are no intents.
LEMMA InitMoveInv == Init => MoveInv
<1> SUFFICES ASSUME Init PROVE MoveInv
  OBVIOUS
<1>1. NoteOnce
  BY StartsAssumption DEF Init, NoteOnce
<1>2. Remembered /\ Elsewhere /\ ReadLast /\ Announced
  BY DEF Init, Remembered, Elsewhere, ReadLast, Announced, InProgress, ToMove, Forward, Backward
<1> QED
  BY <1>1, <1>2 DEF MoveInv

\* A step that moves a file does not make the move of a cancelled intent.
LEMMA CancelledStaysStep ==
    ASSUME IInv, MoveInv, [Next]_vars, At("move"), NEW r \in intents,
           r.state = "Cancelled", file[r.from] = r.pre
    PROVE  file'[r.to] # r.pre
<1>1. /\ file \in [Paths -> FileBy(spent.changes)] /\ spent.changes \in Nat
      /\ op \in OperationsBy(spent.changes) /\ r \in IntentsBy(spent.changes)
      /\ OneEach /\ r.pre \in Contents /\ op.pre \in ContentsBy(spent.changes)
  BY BoundsAssumption, ContentsByAll
  DEF IInv, InvBy, HasOperation, At, Forward, IntentsBy
<1>2. /\ r.from \in Here(file) /\ r.from \in Paths /\ r.to \in Paths /\ r.from # r.to
      /\ file[r.to] # r.pre
  BY <1>1, NoneAssumption DEF MoveInv, NoteOnce, Elsewhere, Here, IntentsBy
<1>3. CASE file' = file
  BY <1>2, <1>3
<1>4. ASSUME NEW p \in Paths, Change(p) \/ Appear(p) PROVE file'[r.to] # r.pre
  <2>1. CASE Appear(p)
    BY <1>1, <1>2, <2>1 DEF Appear, Is, Here
  <2>2. CASE Change(p)
    <3>1. CASE p # r.to
      BY <1>1, <1>2, <2>2, <3>1 DEF Change
    <3>2. CASE p = r.to
      <4>1. file'[p] = [file[p] EXCEPT !.edits = @ + 1] /\ file[p] # None
        BY <1>1, <2>2 DEF Change, Is
      <4>2. file'[p].note = file[p].note
        BY <1>1, <4>1 DEF FileBy, ContentsBy
      <4>3. file[p].note # r.pre.note
        BY <1>1, <1>2, <3>2, <4>1 DEF MoveInv, NoteOnce, Here
      <4> QED
        BY <3>2, <4>2, <4>3
    <3> QED
      BY <3>1, <3>2
  <2> QED
    BY <1>4, <2>1, <2>2
<1>5. CASE Moves(op.from, op.to)
  <2>1. op.from \in Paths /\ op.to \in Paths /\ op.from # op.to /\ Intent("Active") \in intents
        /\ Is(op.from)
    BY <1>1 DEF MoveInv, Elsewhere, Announced, ReadLast, ToMove, InProgress, Forward, At,
                OperationsBy
  <2>2. SUFFICES ASSUME file'[r.to] = r.pre PROVE FALSE
    OBVIOUS
  <2>3. op.to = r.to /\ file[op.from] = r.pre
    BY <1>1, <1>2, <1>5, <2>1, <2>2, NoneAssumption DEF Moves
  <2>4. op.from = r.from
    BY <1>2, <2>1, <2>3 DEF MoveInv, NoteOnce, Here
  <2>5. /\ file[op.from].note = op.pre.note
        /\ file[op.from] = op.pre \/ op.pre.edits < file[op.from].edits
        /\ r.pre.note = op.pre.note => r.pre.edits <= op.pre.edits
    BY DEF MoveInv, ReadLast, ToMove, At
  <2>6. r.pre.edits \in Nat /\ op.pre.edits \in Nat
    BY <1>1, BoundsAssumption DEF Contents, ContentsBy
  <2>7. r.pre = op.pre
    BY <2>3, <2>5, <2>6
  <2>8. Same(r, Intent("Active"))
    BY <2>3, <2>4, <2>7 DEF Same, Intent
  <2>9. r = Intent("Active")
    BY <1>1, <2>1, <2>8 DEF OneEach
  <2> QED
    BY <2>9 DEF Intent
<1> QED
  BY <1>3, <1>4, <1>5, FileSteps DEF At

\* An intent that is marked as cancelled is never carried out, by no rename,
\* not even one that is asked for again (mark_cancelled: "a crash can then
\* never replay the rejected forward rename").
THEOREM CancelledAlwaysStays == Spec => CancelledStays
<1>1. Init => IInv /\ MoveInv
  BY InitIInv, InitMoveInv
<1>2. IInv /\ MoveInv /\ [Next]_vars => (IInv /\ MoveInv)'
  BY StepIInv, NoteOnceStep, RememberedStep, ElsewhereStep, ReadLastStep, AnnouncedStep DEF MoveInv
<1>3. IInv /\ MoveInv /\ [Next]_vars
         => [\A r \in intents :
                At("move") /\ r.state = "Cancelled" /\ file[r.from] = r.pre
                    => file'[r.to] # r.pre]_vars
  BY CancelledStaysStep
<1> QED
  BY <1>1, <1>2, <1>3, PTL DEF Spec, CancelledStays

-----------------------------------------------------------------------------
(* A link that leads nowhere is known of.  Of the files only what links     *)
(* they have matters, of the index only which links it has them for; a      *)
(* rename rewrites what the index has, so what makes the property true is   *)
(* where the two may differ: an edit has failed after it was on the disk,   *)
(* or a file has moved and the move was refused.                            *)

\* What links there are, and what links the index has, by note.
Links == {<<file[p].note, file[p].link>> : p \in {q \in Here(file) : file[q].link # None}}
Cards == {<<known[p].note, known[p].link>> : p \in Here(known)}
NotesOf(r) == {w.base.note : w \in r.rewrites}

\* The steps after the commit of a rename, those before it that have a plan,
\* and of these the ones that have written the intent.
Committed == {"rewrite", "complete"}
Uncommitted == InProgress \ ({"read", "plan"} \cup Committed)
Past == Uncommitted \ {"persist"}
Undoing == {"undoOrganization", "undoSpace", "undoLand", "undoDraft"}
\* The file is at its new path, and the rename is not committed.
Moved == \/ pc \in {"commit", "verify", "cancelAfter", "moveBack"}
         \/ pc \in Undoing /\ Intent("Cancelled") \in intents

\* The opening has still to make the move of the intent, or its edits; it has
\* still to deal with the intent, or a rename has.
Ahead(r) == \/ \E y \in todo : Same(y, r) /\ y.state = "Active"
            \/ pc = "replay" /\ Same(handled, r)
LookedAt(r) == \/ \E y \in todo : Same(y, r)
               \/ pc \in {"replay", "clear"} /\ Same(handled, r)
               \/ pc \in Past /\ Same(op, r)

\* The intent knows of the link of the note, should it lead nowhere.
Covers(r, x) ==
    \/ x[2] = r.from /\ (x[1] \in NotesOf(r) \/ (r.state = "Cancelled" /\ ~Ahead(r)))
    \/ x[2] = r.to /\ r.state = "Active" /\ x[1] \in NotesOf(r)
\* The intent accounts for the index having another link of the note.
Excuses(r, x, l) ==
    \/ r.state = "Active" /\ r.to = x[2] /\ r.from = l /\ x[1] \in NotesOf(r)
    \/ r.state = "Cancelled" /\ r.from = x[2] /\ r.to = l
IsCard(k, x) == /\ k[1] = x[1]
                /\ k[2] = x[2] \/ \E r \in intents : ~LookedAt(r) /\ Excuses(r, x, k[2])

Covered == \A x \in Links : Is(x[2]) \/ \E r \in intents : Covers(r, x)
Followed == pc # "closed" => \A x \in Links : \E k \in Cards : IsCard(k, x)
\* A file at a path the index has another note at has no link.
Displaced ==
    \A p \in Here(known) : Is(p) => file[p].note = known[p].note \/ file[p].link = None

\* An edit takes a link from the one path to the other.
MadeFor(r) == \A w \in r.rewrites : w.base.link = r.from /\ w.result.link = r.to
Made == /\ \A r \in intents \cup todo : MadeFor(r)
        /\ pc \in Uncommitted \cup Committed => MadeFor(op)
        /\ pc \in Committed => left \subseteq op.rewrites
        /\ pc = "replay" => MadeFor(handled) /\ left \subseteq handled.rewrites

\* What is planned covers every link to the path that is left, as far as no
\* other intent does; no link leads to the new one that no other covers.
Other(r) == IF pc = "persist" THEN r # Intent("Active") ELSE ~Same(r, op)
Planned ==
    pc \in Uncommitted =>
        /\ \A k \in Cards, x \in Links : k[1] = x[1] /\ k[2] = op.from => x[2] = op.from
        /\ \A p \in Here(known) : known[p].link = op.from =>
              \E w \in op.rewrites : w.doc = IF p = op.from THEN op.to ELSE p
        /\ \A w \in op.rewrites : \E p \in Here(known) :
              known[p].link = op.from /\ w.doc = IF p = op.from THEN op.to ELSE p
        /\ \A v, w \in op.rewrites : v.doc = w.doc => v = w
        /\ \A x \in Links : \/ x[2] \notin {op.from, op.to}
                            \/ x[2] = op.from /\ x[1] \in NotesOf(op)
                            \/ \E r \in intents : Other(r) /\ Covers(r, x)
\* The same of the edits that are left, unless one has failed.
Rewriting ==
    pc \in Committed =>
        /\ \A w \in left : w.doc \in Here(known) /\ known[w.doc].link = op.from
        /\ \A v, w \in left : v.doc = w.doc => v = w
        /\ pc = "complete" => ~op.failed /\ left = {}
        /\ ~op.failed =>
              /\ \A p \in Here(known) : known[p].link = op.from => \E w \in left : w.doc = p
              /\ \A x \in Links : x[2] = op.from =>
                    \/ \E w \in left : w.base.note = x[1]
                    \/ \E r \in intents : ~Same(r, op) /\ Covers(r, x)
Replaying ==
    pc \in {"replay", "clear"} =>
        /\ handled \in Intents /\ handled.from # handled.to
        /\ pc = "replay" => handled.state = "Active"
        /\ handled.state = "Cancelled" => Is(handled.from)
        /\ handled.state = "Active" =>
              /\ Is(handled.to)
              /\ pc = "clear" => left = {}
              /\ \A x \in Links : x[2] = handled.from =>
                    \/ \E w \in left : w.base.note = x[1]
                    \/ \E r \in intents : ~Same(r, handled) /\ Covers(r, x)

\* Where the file of the rename is, and what the index has of it.
Carried ==
    /\ pc \in InProgress \ Committed => known[op.from] # None /\ known[op.to] = None
    /\ pc \in Uncommitted \cup {"plan"} => known[op.from].note = op.pre.note \/ op.pre.link = None
    /\ pc \in ToMove => file[op.from].link = op.pre.link
    /\ Moved => Is(op.to) /\ file[op.to].note = op.pre.note /\ file[op.to].link = op.pre.link
    /\ pc \in Committed => Is(op.to)
    /\ pc \in Undoing \cup {"cancel", "drop"} /\ ~Moved => Is(op.from)
\* The intent of the rename is on the disk.
OwnStays ==
    /\ pc \in {"commit", "verify", "cancelAfter", "cancel"} \cup Committed
          => Intent("Active") \in intents
    /\ pc \in Undoing => Intent("Active") \in intents \/ Intent("Cancelled") \in intents
    /\ pc \in {"moveBack", "drop"} => Intent("Cancelled") \in intents

Opposite(r, s) == r.from = s.to /\ r.to = s.from /\ r.pre = s.pre
OfOpening == pc \in InProgress /\ op.why # "request"
Outside == pc \in {"idle", "collect", "closed"} \/ (pc \in InProgress /\ op.why = "request")

\* The opening looks at an intent once, and remembers it as it is.
OneLook ==
    /\ Outside => todo = {}
    /\ \A r, s \in todo : Same(r, s) => r = s
    /\ OfOpening \/ pc \in {"replay", "clear"} => \A r \in todo : ~Same(r, handled)
TodoRecalled == \A r \in todo : Recalled(r.pre)
Unchanged ==
    /\ \A r \in todo : r.state = "Cancelled" => r \in intents
    /\ pc = "clear" /\ handled.state = "Cancelled" => handled \in intents
    /\ \A r \in todo, s \in intents : Same(s, r) => s.rewrites = r.rewrites
    /\ pc \in {"replay", "clear"} =>
          \A s \in intents : Same(s, handled) => s.rewrites = handled.rewrites
\* A rename of the opening is about an intent to come only if it makes the
\* move of a cancelled one back, and then once.
Missing(r) == r.state = "Active" /\ \A s \in intents : ~Same(s, r)
Once ==
    /\ \A r, s \in todo : Missing(r) => ~Opposite(s, r)
    /\ \A r \in todo : Missing(r) /\ OfOpening /\ pc \in {"read", "plan", "persist"}
                          => ~Opposite(handled, r)
    /\ \A r \in todo : pc \in InProgress \ {"read"} /\ Same(r, op) =>
          /\ op.why = "return" /\ Opposite(handled, r)
          /\ pc \in Past \cup Committed => r.state = "Active"
HandledOK ==
    OfOpening =>
        /\ handled \in Intents
        /\ op.why = "return" => /\ handled \in intents /\ handled.state = "Cancelled"
                                /\ op.from = handled.to /\ op.to = handled.from
        /\ op.why = "resume" => op.from = handled.from /\ op.to = handled.to
        /\ pc = "read" =>
              /\ Is(op.from) /\ file[op.from].note = handled.pre.note
              /\ file[op.from] = handled.pre \/ handled.pre.edits < file[op.from].edits
              /\ \A r \in todo : r.pre.note = handled.pre.note => r.pre.edits <= handled.pre.edits

LinkParts == /\ Covered /\ Followed /\ Displaced /\ Made /\ Planned /\ Rewriting /\ Replaying
             /\ Carried /\ OwnStays /\ OneLook /\ Unchanged /\ Once /\ HandledOK
LinkInv == LinkParts /\ TodoRecalled

-----------------------------------------------------------------------------
(* Links, and how they change.                                             *)

\* An edit that a rename has planned: what it changes is the link.
Edit(w) == /\ w \in Rewrites
           /\ w.result.note = w.base.note /\ w.result.edits = w.base.edits

\* What the types say of the parts.
LEMMA Parts ==
    ASSUME IInv
    PROVE  /\ file \in [Paths -> File] /\ known \in [Paths -> File]
           /\ \A p \in Here(file) : p \in Paths /\ Is(p) /\ file[p] \in Contents
           /\ \A p \in Here(known) : p \in Paths /\ known[p] \in Contents
           /\ intents \subseteq Intents /\ todo \subseteq Intents
           /\ \A w \in left : Edit(w)
           /\ pc \in InProgress => op \in Operations /\ \A w \in op.rewrites : Edit(w)
           /\ pc \in InProgress \ {"read"} => op.pre \in Contents
           /\ OneEach
           /\ pc \in Steps
<1> DEFINE m == spent.changes
<1>1. m \in 0..MaxChanges /\ m \in Nat /\ MaxChanges \in Nat /\ InvBy(m)
  BY BoundsAssumption DEF IInv
<1> HIDE DEF m
<1>2. /\ ContentsBy(m) \subseteq Contents /\ FileBy(m) \subseteq File
      /\ RewritesBy(m) \subseteq Rewrites
  BY <1>1 DEF ContentsBy, Contents, FileBy, File, RewritesBy, Rewrites
<1>3. IntentsBy(m) \subseteq Intents /\ OperationsBy(m) \subseteq Operations
  BY <1>2 DEF IntentsBy, Intents, OperationsBy, Operations
<1>4. \A w \in RewritesBy(m) : Edit(w)
  BY <1>2 DEF RewritesBy, Edit
<1>5. file \in [Paths -> File] /\ known \in [Paths -> File]
  BY <1>1, <1>2 DEF InvBy
<1>6. \A p \in Here(file) : p \in Paths /\ Is(p) /\ file[p] \in Contents
  BY <1>5 DEF Here, File, Is
<1>7. \A p \in Here(known) : p \in Paths /\ known[p] \in Contents
  BY <1>5 DEF Here, File
<1>8. pc \in InProgress => op \in OperationsBy(m)
  BY <1>1 DEF InvBy, HasOperation, InProgress
<1>9. pc \in InProgress => op \in Operations /\ \A w \in op.rewrites : Edit(w)
  BY <1>3, <1>4, <1>8 DEF OperationsBy
<1>10. pc \in InProgress \ {"read"} => op.pre \in Contents
  BY <1>1, <1>2 DEF InvBy, HasOperation, InProgress
<1>11. /\ intents \subseteq Intents /\ todo \subseteq Intents /\ OneEach /\ pc \in Steps
       /\ \A w \in left : Edit(w)
  BY <1>1, <1>3, <1>4 DEF InvBy
<1> QED
  BY <1>5, <1>6, <1>7, <1>9, <1>10, <1>11

\* A note has one link.
LEMMA OneLink ==
    ASSUME NoteOnce, NEW x \in Links, NEW p \in Here(file), file[p].note = x[1]
    PROVE  x = <<file[p].note, file[p].link>> /\ file[p].link # None
<1>1. PICK q \in Here(file) : file[q].link # None /\ x = <<file[q].note, file[q].link>>
  BY DEF Links
<1>2. file[p].note = file[q].note
  BY <1>1
<1>3. p = q
  BY <1>2 DEF NoteOnce
<1> QED
  BY <1>1, <1>3

\* Every link is of a note that is there.
LEMMA SomeLink ==
    ASSUME NEW x \in Links
    PROVE  \E p \in Here(file) : /\ file[p].link # None
                                 /\ x[1] = file[p].note /\ x[2] = file[p].link
                                 /\ x = <<file[p].note, file[p].link>>
BY DEF Links
LEMMA SomeCard ==
    ASSUME NEW k \in Cards
    PROVE  \E p \in Here(known) : /\ k[1] = known[p].note /\ k[2] = known[p].link
                                  /\ k = <<known[p].note, known[p].link>>
BY DEF Cards

\* What covers a link goes on doing it, unless an opening is to make the move.
LEMMA CoverStays ==
    ASSUME NEW r, NEW x, Covers(r, x), Ahead(r)' => Ahead(r)
    PROVE  Covers(r, x)'
BY DEF Covers

\* No link leads nowhere that did not, and what covered one is still there.
LEMMA CoveredFrame ==
    ASSUME Covered, Links' \subseteq Links,
           \A x \in Links : Is(x[2]) => file'[x[2]] # None,
           intents \subseteq intents',
           \A r \in intents : Ahead(r)' => Ahead(r)
    PROVE  Covered'
<1> SUFFICES ASSUME NEW x \in Links'
             PROVE  file'[x[2]] # None \/ \E r \in intents' : Covers(r, x)'
  BY DEF Covered, Is
<1>1. CASE Is(x[2])
  BY <1>1
<1>2. ASSUME NEW r \in intents, Covers(r, x) PROVE \E s \in intents' : Covers(s, x)'
  <2>1. Covers(r, x)'
    BY <1>2, CoverStays
  <2> QED
    BY <2>1
<1> QED
  BY <1>1, <1>2 DEF Covered

\* The index has what it had, and no intent is looked at that was not.
LEMMA FollowedFrame ==
    ASSUME Followed, pc # "closed", Links' \subseteq Links, Cards \subseteq Cards',
           intents \subseteq intents',
           \A r \in intents : LookedAt(r)' => LookedAt(r)
    PROVE  Followed'
<1>1. ASSUME NEW x \in Links', NEW k \in Cards, IsCard(k, x) PROVE IsCard(k, x)'
  BY <1>1 DEF IsCard, Excuses
<1> QED
  BY <1>1 DEF Followed

\* Files and index as they were have the links they had.
LEMMA SameLinks ==
    /\ file' = file => Links' = Links
    /\ known' = known => Cards' = Cards
BY DEF Links, Cards, Here

-----------------------------------------------------------------------------
(* What other programs do leaves every link, and what the opening looks at  *)
(* is remembered.                                                          *)

\* The old file of a path, and what it is after a change of another program.
LEMMA OtherFiles ==
    ASSUME IInv, NEW p \in Paths, Change(p) \/ Appear(p), NEW q \in Paths
    PROVE  \/ /\ q \in Here(file) /\ q \in Here(file')
              /\ file'[q].note = file[q].note /\ file'[q].link = file[q].link
              /\ file'[q] = file[q] \/ file[q].edits < file'[q].edits
           \/ q \notin Here(file) /\ q \notin Here(file')
           \/ q \notin Here(file) /\ q \in Here(file') /\ file'[q].link = None
<1>1. /\ file \in [Paths -> File]
      /\ \A s \in Here(file) : file[s] \in Contents /\ file[s].edits \in Nat
  BY Parts, BoundsAssumption DEF Contents
<1>2. CASE Change(p)
  <2>1. file'[p] # None /\ file[p] # None
    BY <1>2, ChangeKeeps DEF Change, Is
  <2>2. file' = [file EXCEPT ![p] = [file[p] EXCEPT !.edits = @ + 1]]
    BY <1>1, <1>2 DEF Change
  <2>3. CASE q # p
    BY <1>1, <2>2, <2>3 DEF Here
  <2>4. CASE q = p
    <3>1. q \in Here(file) /\ q \in Here(file') /\ file[q] \in Contents /\ file[q].edits \in Nat
      BY <1>1, <2>1, <2>4 DEF Here
    <3>2. file'[q] = [file[q] EXCEPT !.edits = @ + 1]
      BY <1>1, <2>2, <2>4
    <3>3. /\ file'[q].note = file[q].note /\ file'[q].link = file[q].link
          /\ file'[q].edits = file[q].edits + 1
      BY <3>1, <3>2 DEF Contents
    <3> QED
      BY <3>1, <3>3
  <2> QED
    BY <2>3, <2>4
<1>3. CASE Appear(p)
  <2>1. /\ file[p] = None
        /\ file' = [file EXCEPT ![p] = [note |-> Stranger, edits |-> 0, link |-> None]]
    BY <1>3 DEF Appear, Is
  <2> QED
    BY <1>1, <2>1 DEF Here
<1> QED
  BY <1>2, <1>3

\* No link comes or goes.
LEMMA OtherLinks ==
    ASSUME IInv, NEW p \in Paths, Change(p) \/ Appear(p)
    PROVE  Links' = Links
<1>1. ASSUME NEW x \in Links PROVE x \in Links'
  <2>1. PICK q \in Here(file) : file[q].link # None /\ x = <<file[q].note, file[q].link>>
    BY SomeLink
  <2>2. q \in Here(file') /\ file'[q].note = file[q].note /\ file'[q].link = file[q].link
    BY <2>1, OtherFiles DEF Here
  <2> QED
    BY <2>1, <2>2 DEF Links
<1>2. ASSUME NEW x \in Links' PROVE x \in Links
  <2>1. PICK q \in Here(file') : file'[q].link # None /\ x = <<file'[q].note, file'[q].link>>
    BY DEF Links
  <2>2. q \in Here(file) /\ file'[q].note = file[q].note /\ file'[q].link = file[q].link
    BY <2>1, OtherFiles DEF Here
  <2> QED
    BY <2>1, <2>2 DEF Links
<1> QED
  BY <1>1, <1>2

\* The notes of the intents the opening looks at are somewhere.
LEMMA TodoRecalledStep ==
    ASSUME IInv, Remembered, TodoRecalled, [Next]_vars
    PROVE  TodoRecalled'
<1>1. ASSUME NEW r \in todo' PROVE Recalled(r.pre)'
  <2>1. r \in todo \cup intents /\ r.pre \in Contents
    BY TodoSteps, Parts DEF Intents
  <2>2. Recalled(r.pre)
    BY <2>1 DEF Remembered, TodoRecalled
  <2>3. \A c \in Contents : Recalled(c) => Recalled(c)'
    BY StillRecalled
  <2>4. PICK c \in Contents : c = r.pre
    BY <2>1
  <2>5. Recalled(c)'
    BY <2>2, <2>3, <2>4
  <2> QED
    BY <2>4, <2>5 DEF Recalled
<1>2. \A r \in todo' : \E q \in Here(file') :
          file'[q].note = r.pre.note /\ r.pre.edits <= file'[q].edits
  BY <1>1 DEF Recalled
<1> QED
  BY <1>2 DEF TodoRecalled, Recalled

\* A link leads to a path.
LEMMA LinkPaths ==
    ASSUME IInv, NEW x \in Links
    PROVE  x[2] \in Paths
<1>1. PICK p \in Here(file) : file[p].link # None /\ x[2] = file[p].link
  BY SomeLink
<1>2. file[p] \in Contents
  BY Parts
<1> QED
  BY <1>1, <1>2 DEF Contents

\* A change of another program leaves all that is about links.
LEMMA OtherStep ==
    ASSUME IInv, MoveInv, LinkInv, NEW p \in Paths, Change(p) \/ Appear(p)
    PROVE  LinkParts'
<1>0. /\ intents' = intents /\ known' = known /\ pc' = pc /\ op' = op /\ left' = left
      /\ todo' = todo /\ handled' = handled
  BY DEF Change, Appear, Others, opening
<1>1. Links' = Links /\ Cards' = Cards
  BY <1>0, OtherLinks, SameLinks
<1>2. \A q \in Paths : Is(q) => file'[q] # None
  BY OtherFiles DEF Here, Is
<1>3. \A r : (Ahead(r)' <=> Ahead(r)) /\ (LookedAt(r)' <=> LookedAt(r))
  BY <1>0 DEF Ahead, LookedAt, Same
<1>4. ASSUME NEW r, NEW x, Covers(r, x) PROVE Covers(r, x)'
  BY <1>3, <1>4, CoverStays
<1>5. pc \in InProgress => op.from \in Paths /\ op.to \in Paths /\ op.why \in Reasons
  BY Parts DEF Operations
<1>6. Covered'
  BY <1>0, <1>1, <1>2, <1>3, LinkPaths, CoveredFrame DEF LinkInv, LinkParts
<1>7. Followed'
  <2>1. CASE pc = "closed"
    BY <1>0, <2>1 DEF Followed
  <2>2. CASE pc # "closed"
    BY <1>0, <1>1, <1>3, <2>2, FollowedFrame DEF LinkInv, LinkParts
  <2> QED
    BY <2>1, <2>2
<1>8. Displaced'
  BY <1>0, OtherFiles DEF LinkInv, LinkParts, Displaced, Here, Is
<1>9. Made' /\ OwnStays'
  BY <1>0 DEF LinkInv, LinkParts, Made, MadeFor, OwnStays, Intent
<1>10. OneLook' /\ Unchanged' /\ Once'
  BY <1>0 DEF LinkInv, LinkParts, OneLook, Unchanged, Once, Outside, OfOpening, Same, Missing,
              Opposite
<1>11. Planned'
  <2>1. \A r \in intents : Other(r)' <=> Other(r)
    BY <1>0 DEF Other, Intent, Same
  <2> QED
    BY <1>0, <1>1, <1>4, <2>1 DEF LinkInv, LinkParts, Planned, NotesOf
<1>12. Rewriting'
  <2>1. \A r : Same(r, op') <=> Same(r, op)
    BY <1>0
  <2> QED
    BY <1>0, <1>1, <1>4, <2>1 DEF LinkInv, LinkParts, Rewriting
<1>13. Replaying'
  <2>1. handled \in Intents => handled.from \in Paths /\ handled.to \in Paths
    BY DEF Intents
  <2> QED
    BY <1>0, <1>1, <1>2, <1>4, <2>1 DEF LinkInv, LinkParts, Replaying, Is, Same
<1>14. Carried'
  <2>1. Moved' <=> Moved
    BY <1>0 DEF Moved, Intent
  <2>2. pc \in ToMove => Is(op.from)
    BY DEF MoveInv, ReadLast
  <2>3. pc \in ToMove \/ Moved \/ pc \in Committed \cup Undoing \cup {"cancel", "drop"}
            => op.from \in Paths /\ op.to \in Paths
    BY <1>5 DEF ToMove, Moved, Committed, Undoing, InProgress, Forward, Backward
  <2>4. ASSUME NEW q \in Paths, Is(q)
        PROVE  file'[q] # None /\ file'[q].note = file[q].note /\ file'[q].link = file[q].link
    BY <2>4, OtherFiles DEF Here, Is
  <2> QED
    BY <1>0, <2>1, <2>2, <2>3, <2>4 DEF LinkInv, LinkParts, Carried, Is
<1>15. HandledOK'
  <2> SUFFICES ASSUME OfOpening
               PROVE  HandledOK'
    BY <1>0 DEF HandledOK, OfOpening
  <2>1. handled \in Intents
    BY DEF LinkInv, LinkParts, HandledOK
  <2>2. ASSUME pc = "read"
        PROVE  /\ file'[op.from] # None /\ file'[op.from].note = handled.pre.note
               /\ file'[op.from] = handled.pre \/ handled.pre.edits < file'[op.from].edits
    <3>1. /\ op.from \in Paths /\ Is(op.from) /\ file[op.from].note = handled.pre.note
          /\ file[op.from] = handled.pre \/ handled.pre.edits < file[op.from].edits
      BY <1>5, <2>2 DEF LinkInv, LinkParts, HandledOK, InProgress, Forward
    <3>2. /\ file'[op.from] # None /\ file'[op.from].note = file[op.from].note
          /\ file'[op.from] = file[op.from] \/ file[op.from].edits < file'[op.from].edits
      BY <3>1, OtherFiles DEF Here, Is
    <3>3. file[op.from].edits \in Nat /\ handled.pre.edits \in Nat /\ file'[op.from].edits \in Nat
      <4>1. /\ file' \in [Paths -> FileBy(spent'.changes)]
            /\ spent'.changes \in 0..MaxChanges
        BY StepIInv, BoundsAssumption DEF Next, IInv, InvBy
      <4>2. file'[op.from].edits \in Nat
        BY <3>1, <3>2, <4>1, BoundsAssumption DEF FileBy, ContentsBy
      <4>3. file[op.from].edits \in Nat /\ handled.pre.edits \in Nat
        BY <2>1, <3>1, Parts, BoundsAssumption DEF Is, Here, Contents, Intents
      <4> QED
        BY <4>2, <4>3
    <3> QED
      BY <3>1, <3>2, <3>3
  <2> QED
    BY <1>0, <2>1, <2>2 DEF LinkInv, LinkParts, HandledOK, OfOpening, Is
<1> QED
  BY <1>6, <1>7, <1>8, <1>9, <1>10, <1>11, <1>12, <1>13, <1>14, <1>15 DEF LinkParts

-----------------------------------------------------------------------------
(* Steps that change neither a link, nor the index, nor an intent.         *)

\* An operation gives up, or ends without having changed anything.
LEMMA RestStep ==
    ASSUME IInv, MoveInv, LinkInv,
           file' = file, intents' = intents, pc # "closed",
           pc' \in {"idle", "scan", "collect", "closed"},
           todo' \subseteq todo, pc' # "scan" => todo' = {},
           known' = known \/ (pc' = "closed" /\ known' = [p \in Paths |-> None])
    PROVE  LinkParts'
<1> USE DEF InProgress, Uncommitted, Committed, Past, Forward, Backward
<1>1. /\ pc' \notin InProgress /\ pc' \notin {"replay", "clear"}
      /\ pc' \notin ToMove /\ pc' \notin Undoing
  BY DEF ToMove, Undoing
<1>2. \A r : (Ahead(r)' => Ahead(r)) /\ (LookedAt(r)' => LookedAt(r))
  BY <1>1 DEF Ahead, LookedAt
<1>3. Covered'
  <2>1. \A x \in Links : Is(x[2]) => file'[x[2]] # None
    BY DEF Is
  <2> QED
    BY <1>2, <2>1, SameLinks, CoveredFrame DEF LinkInv, LinkParts
<1>4. Followed'
  <2>1. CASE pc' = "closed"
    BY <2>1 DEF Followed
  <2>2. CASE pc' # "closed"
    BY <1>2, <2>2, SameLinks, FollowedFrame DEF LinkInv, LinkParts
  <2> QED
    BY <2>1, <2>2
<1>5. Displaced'
  <2>1. CASE known' = known
    BY <2>1 DEF LinkInv, LinkParts, Displaced, Here, Is
  <2>2. CASE known' = [p \in Paths |-> None]
    BY <2>2 DEF Displaced, Here
  <2> QED
    BY <2>1, <2>2
<1>6. Made'
  BY <1>1 DEF LinkInv, LinkParts, Made, MadeFor
<1>7. Planned' /\ Rewriting' /\ Replaying'
  BY <1>1 DEF Planned, Rewriting, Replaying
<1>8. Carried' /\ OwnStays'
  BY <1>1 DEF Carried, OwnStays, Moved, Undoing
<1>9. OneLook' /\ Once' /\ HandledOK'
  BY <1>1 DEF LinkInv, LinkParts, OneLook, Once, HandledOK, Outside, OfOpening, Same, Missing,
              Opposite
<1>10. Unchanged'
  BY <1>1 DEF LinkInv, LinkParts, Unchanged, Same
<1> QED
  BY <1>3, <1>4, <1>5, <1>6, <1>7, <1>8, <1>9, <1>10 DEF LinkParts

\* A rename that has its plan stays the one the opening has begun.
LEMMA OpeningGoesOn ==
    ASSUME LinkInv, intents' = intents, todo' = todo, handled' = handled,
           op'.from = op.from, op'.to = op.to, op'.pre = op.pre, op'.why = op.why,
           pc \in InProgress \ {"read"}, pc' \in InProgress \ {"read"},
           pc' \in Past \cup Committed => pc \in Past \cup Committed,
           pc' \in {"plan", "persist"} => pc \in {"plan", "persist"}
    PROVE  OneLook' /\ Unchanged' /\ Once' /\ HandledOK'
<1>1. /\ pc' \notin {"replay", "clear", "idle", "collect", "closed", "read"}
      /\ pc \notin {"replay", "clear", "idle", "collect", "closed", "read"}
  BY DEF InProgress, Forward, Backward
<1>2. /\ (OfOpening' <=> OfOpening) /\ (Outside' <=> Outside)
      /\ \A r : (Same(r, op') <=> Same(r, op)) /\ (Missing(r)' <=> Missing(r))
  BY <1>1 DEF OfOpening, Outside, Same, Missing
<1>3. OneLook'
  BY <1>1, <1>2 DEF LinkInv, LinkParts, OneLook, Same
<1>4. Unchanged'
  BY <1>1 DEF LinkInv, LinkParts, Unchanged, Same
<1>5. Once'
  BY <1>1, <1>2 DEF LinkInv, LinkParts, Once, Opposite
<1>6. HandledOK'
  BY <1>1, <1>2 DEF LinkInv, LinkParts, HandledOK
<1> QED
  BY <1>3, <1>4, <1>5, <1>6

\* A rename with an intent goes on to its next step.
LEMMA QuietStep ==
    ASSUME IInv, MoveInv, LinkInv,
           file' = file, intents' = intents, known' = known, todo' = todo, handled' = handled,
           op'.from = op.from, op'.to = op.to, op'.pre = op.pre, op'.why = op.why,
           op'.rewrites = op.rewrites,
           pc \in Past, pc' \in Past
    PROVE  /\ Covered' /\ Followed' /\ Displaced' /\ Made' /\ Planned' /\ Rewriting'
           /\ Replaying' /\ OneLook' /\ Unchanged' /\ Once' /\ HandledOK'
<1>1. /\ pc \notin {"replay", "clear", "closed", "read", "plan", "persist"} \cup Committed
      /\ pc' \notin {"replay", "clear", "closed", "read", "plan", "persist"} \cup Committed
      /\ pc \in InProgress /\ pc' \in InProgress /\ pc \in Uncommitted /\ pc' \in Uncommitted
  BY DEF Past, Uncommitted, InProgress, Forward, Backward
<1>2. /\ \A r : Same(r, op') <=> Same(r, op)
      /\ \A r : Same(op', r) <=> Same(op, r)
  BY DEF Same
<1>3. \A r : (Ahead(r)' <=> Ahead(r)) /\ (LookedAt(r)' <=> LookedAt(r))
  BY <1>1, <1>2 DEF Ahead, LookedAt
<1>4. Links' = Links /\ Cards' = Cards
  BY SameLinks
<1>5. Covered' /\ Followed'
  <2>1. \A x \in Links : Is(x[2]) => file'[x[2]] # None
    BY DEF Is
  <2> QED
    BY <1>1, <1>3, <1>4, <2>1, CoveredFrame, FollowedFrame DEF LinkInv, LinkParts
<1>6. Displaced'
  BY DEF LinkInv, LinkParts, Displaced, Here, Is
<1>7. Made'
  BY <1>1 DEF LinkInv, LinkParts, Made, MadeFor
<1>8. Planned'
  <2>1. ASSUME NEW r, NEW x, Covers(r, x) PROVE Covers(r, x)'
    BY <1>3, <2>1, CoverStays
  <2>2. \A r \in intents : Other(r)' <=> Other(r)
    BY <1>1, <1>2 DEF Other
  <2> QED
    BY <1>1, <1>4, <2>1, <2>2 DEF LinkInv, LinkParts, Planned, NotesOf
<1>9. Rewriting' /\ Replaying'
  BY <1>1 DEF Rewriting, Replaying
<1>10. OneLook' /\ Unchanged' /\ Once' /\ HandledOK'
  BY <1>1, OpeningGoesOn
<1> QED
  BY <1>5, <1>6, <1>7, <1>8, <1>9, <1>10

\* The steps that only move what is beside the file, and where they lead.
LEMMA StillSteps ==
    ASSUME IInv,
           \/ MoveOrganization \/ MoveSpace \/ LandSpace \/ MoveDraft \/ Refuse
           \/ UndoOrganization \/ UndoSpace \/ UndoLand \/ UndoDraft
           \/ MoveFile /\ pc' # "commit"
           \/ Verify /\ pc' = "cancelAfter"
    PROVE  /\ file' = file /\ intents' = intents /\ known' = known
           /\ todo' = todo /\ handled' = handled
           /\ op'.from = op.from /\ op'.to = op.to /\ op'.pre = op.pre /\ op'.why = op.why
           /\ op'.rewrites = op.rewrites
           /\ \/ pc \in ToMove \ {"plan", "persist"} /\ pc' \in ToMove \ {"plan", "persist"}
              \/ pc \in {"draft", "move"} /\ pc' = "undoOrganization"
              \/ pc = "commit" /\ pc' = "verify"
              \/ pc = "verify" /\ pc' = "cancelAfter"
              \/ pc \in Undoing /\ pc' \in Undoing
              \/ pc = "undoDraft" /\ pc' = "moveBack" /\ Intent("Cancelled") \in intents
              \/ pc = "undoDraft" /\ pc' = "cancel" /\ Intent("Cancelled") \notin intents
<1>0. pc \in InProgress => op \in OperationsBy(spent.changes)
  BY DEF IInv, InvBy, HasOperation, InProgress
<1> USE DEF At, opening, Go, Keep, Put, disk, ToMove, Undoing, InProgress, Forward, Backward
<1>1. CASE MoveOrganization
  BY <1>1 DEF MoveOrganization
<1>2. CASE MoveSpace
  BY <1>0, <1>2 DEF MoveSpace, Strand, OperationsBy
<1>3. CASE LandSpace
  BY <1>0, <1>3 DEF LandSpace, Tracked, Strand, OperationsBy
<1>4. CASE MoveDraft
  BY <1>0, <1>4 DEF MoveDraft, Tracked, OperationsBy
<1>5. CASE Refuse
  BY <1>5 DEF Refuse
<1>6. CASE UndoOrganization \/ UndoSpace \/ UndoLand
  BY <1>6 DEF UndoOrganization, UndoSpace, UndoLand
<1>7. CASE UndoDraft
  BY <1>7 DEF UndoDraft
<1>8. CASE MoveFile /\ pc' # "commit"
  BY <1>8 DEF MoveFile
<1>9. CASE Verify /\ pc' = "cancelAfter"
  BY <1>9, EndsSomewhere DEF Verify, Fails
<1> QED
  BY <1>1, <1>2, <1>3, <1>4, <1>5, <1>6, <1>7, <1>8, <1>9

\* These steps leave what is about links.
LEMMA StillStep ==
    ASSUME IInv, MoveInv, LinkInv,
           \/ MoveOrganization \/ MoveSpace \/ LandSpace \/ MoveDraft \/ Refuse
           \/ UndoOrganization \/ UndoSpace \/ UndoLand \/ UndoDraft
           \/ MoveFile /\ pc' # "commit"
           \/ Verify /\ pc' = "cancelAfter"
    PROVE  LinkParts'
<1>1. /\ file' = file /\ intents' = intents /\ known' = known
      /\ todo' = todo /\ handled' = handled
      /\ op'.from = op.from /\ op'.to = op.to /\ op'.pre = op.pre /\ op'.why = op.why
      /\ op'.rewrites = op.rewrites
  BY StillSteps
<1>2. \/ pc \in ToMove \ {"plan", "persist"} /\ pc' \in ToMove \ {"plan", "persist"}
      \/ pc \in {"draft", "move"} /\ pc' = "undoOrganization"
      \/ pc = "commit" /\ pc' = "verify"
      \/ pc = "verify" /\ pc' = "cancelAfter"
      \/ pc \in Undoing /\ pc' \in Undoing
      \/ pc = "undoDraft" /\ pc' = "moveBack" /\ Intent("Cancelled") \in intents
      \/ pc = "undoDraft" /\ pc' = "cancel" /\ Intent("Cancelled") \notin intents
  BY StillSteps
<1>3. pc \in Past /\ pc' \in Past
  BY <1>2 DEF Past, Uncommitted, Committed, InProgress, Forward, Backward, ToMove, Undoing
<1>4. \A s \in {"Active", "Cancelled"} : Intent(s)' = Intent(s)
  BY <1>1 DEF Intent
<1>5. /\ known[op.from] # None /\ known[op.to] = None
      /\ known[op.from].note = op.pre.note \/ op.pre.link = None
      /\ pc \in ToMove => file[op.from].link = op.pre.link
      /\ Moved => Is(op.to) /\ file[op.to].note = op.pre.note /\ file[op.to].link = op.pre.link
      /\ pc \in Undoing \cup {"cancel", "drop"} /\ ~Moved => Is(op.from)
      /\ pc \in ToMove => Is(op.from)
  BY <1>3 DEF LinkInv, LinkParts, Carried, Past, Uncommitted, MoveInv, ReadLast, Committed
<1>6. ~(Intent("Active") \in intents /\ Intent("Cancelled") \in intents)
  <2>1. Same(Intent("Active"), Intent("Cancelled"))
    BY DEF Same, Intent
  <2>2. Intent("Active") # Intent("Cancelled")
    BY DEF Intent
  <2> QED
    BY <2>1, <2>2, Parts DEF OneEach
<1>7. Carried' /\ OwnStays'
  <2> DEFINE C == Intent("Cancelled") \in intents
             A == Intent("Active") \in intents
  <2>1. /\ pc \in ToMove \ {"plan", "persist"} => A
        /\ pc \in {"commit", "verify", "cancelAfter", "cancel"} => A
        /\ pc \in Undoing => A \/ C
    BY DEF MoveInv, Announced, LinkInv, LinkParts, OwnStays
  <2>2. (Intent("Cancelled") \in intents)' <=> C
    BY <1>1, <1>4
  <2>3. (Intent("Active") \in intents)' <=> A
    BY <1>1, <1>4
  <2>4. /\ Moved <=> pc \in {"commit", "verify", "cancelAfter", "moveBack"} \/ (pc \in Undoing /\ C)
        /\ Moved' <=> \/ pc' \in {"commit", "verify", "cancelAfter", "moveBack"}
                      \/ pc' \in Undoing /\ C
    BY <2>2 DEF Moved
  <2> HIDE DEF C, A
  <2>5. /\ ~(A /\ C)
    BY <1>6 DEF A, C
  <2>6. Moved' => Is(op.to) /\ file[op.to].note = op.pre.note /\ file[op.to].link = op.pre.link
    <3>1. Moved' => Moved
      BY <1>2, <2>1, <2>4, <2>5 DEF ToMove, Undoing, C
    <3> QED
      BY <1>5, <3>1
  <2>7. pc' \in Undoing \cup {"cancel", "drop"} /\ ~Moved' => Is(op.from)
    BY <1>2, <1>5, <2>1, <2>4, <2>5 DEF ToMove, Undoing, C
  <2>8. pc' \in ToMove => pc \in ToMove
    BY <1>2 DEF ToMove, Undoing
  <2>9. Carried'
    BY <1>1, <1>3, <1>5, <2>6, <2>7, <2>8 DEF Carried, Past, Uncommitted, Is
  <2>10. OwnStays'
    BY <1>2, <2>1, <2>2, <2>3 DEF OwnStays, ToMove, Undoing, Committed, C, A
  <2> QED
    BY <2>9, <2>10
<1> QED
  BY <1>1, <1>3, <1>7, QuietStep DEF LinkParts

-----------------------------------------------------------------------------
(* A rename begins.                                                        *)

\* Whoever asks, nothing but the rename is new.
LEMMA BeginStep ==
    ASSUME IInv, MoveInv, LinkInv, NEW from \in Paths, NEW to \in Paths, NEW why \in Reasons,
           Begin(from, to, why), pc \in {"idle", "scan"}, todo' \subseteq todo
    PROVE  /\ Covered' /\ Followed' /\ Displaced' /\ Made' /\ Planned' /\ Rewriting'
           /\ Replaying' /\ Carried' /\ OwnStays'
<1>0. /\ file' = file /\ intents' = intents /\ known' = known /\ pc' = "read"
      /\ op'.from = from /\ op'.to = to /\ known[from] # None /\ known[to] = None
  BY DEF Begin, disk
<1>1. /\ pc' \notin Uncommitted \cup Committed \cup Past \cup {"replay", "clear", "plan"}
      /\ pc' \notin ToMove \cup Undoing
      /\ pc' \notin {"commit", "verify", "cancelAfter", "cancel", "moveBack", "drop"}
  BY <1>0 DEF Past, Uncommitted, Committed, ToMove, Undoing
<1>2. \A r : (Ahead(r)' => Ahead(r)) /\ (LookedAt(r)' => LookedAt(r))
  BY <1>1 DEF Ahead, LookedAt
<1>3. Covered' /\ Followed'
  <2>1. \A x \in Links : Is(x[2]) => file'[x[2]] # None
    BY <1>0 DEF Is
  <2> QED
    BY <1>0, <1>2, <2>1, SameLinks, CoveredFrame, FollowedFrame DEF LinkInv, LinkParts
<1>4. Displaced'
  BY <1>0 DEF LinkInv, LinkParts, Displaced, Here, Is
<1>5. Made'
  BY <1>0, <1>1 DEF LinkInv, LinkParts, Made, MadeFor
<1>6. Planned' /\ Rewriting' /\ Replaying' /\ OwnStays'
  BY <1>1 DEF Planned, Rewriting, Replaying, OwnStays
<1>7. Carried'
  BY <1>0, <1>1 DEF Carried, Moved
<1> QED
  BY <1>3, <1>4, <1>5, <1>6, <1>7

\* Somebody asks for a rename.
LEMMA RequestStep ==
    ASSUME IInv, MoveInv, LinkInv, NEW p \in Paths, NEW q \in Paths, Request(p, q)
    PROVE  LinkParts'
<1>1. /\ Begin(p, q, "request") /\ pc = "idle" /\ todo' = todo /\ handled' = handled
      /\ pc' = "read" /\ intents' = intents /\ op'.why = "request" /\ "request" \in Reasons
  BY DEF Request, At, opening, Begin, disk, Reasons
<1>2. OneLook' /\ Unchanged' /\ Once' /\ HandledOK'
  <2>1. todo = {} /\ Outside
    BY <1>1 DEF LinkInv, LinkParts, OneLook, Outside
  <2>2. ~OfOpening' /\ pc' \notin {"replay", "clear"}
    BY <1>1 DEF OfOpening
  <2> QED
    BY <1>1, <2>1, <2>2 DEF OneLook, Unchanged, Once, HandledOK
<1> QED
  BY <1>1, <1>2, BeginStep DEF LinkParts

\* The opening makes a rename of its own: it makes a move or makes one back.
LEMMA RecoverStep ==
    ASSUME IInv, MoveInv, LinkInv, NEW r \in todo, Resume(r) \/ Return(r)
    PROVE  LinkParts'
<1>1. /\ pc = "scan" /\ todo' = todo \ {r} /\ handled' = r
      /\ pc' = "read" /\ intents' = intents /\ file' = file
      /\ \/ /\ op'.from = r.from /\ op'.to = r.to /\ op'.why = "resume"
            /\ Begin(r.from, r.to, "resume")
            /\ Position(r) = "Source"
         \/ /\ op'.from = r.to /\ op'.to = r.from /\ op'.why = "return"
            /\ Begin(r.to, r.from, "return")
            /\ Position(r) = "Rollback"
  BY DEF Resume, Return, Takes, At, Begin, disk
<1>2. /\ r \in Intents /\ r.from \in Paths /\ r.to \in Paths /\ r.pre \in Contents
      /\ "resume" \in Reasons /\ "return" \in Reasons
  BY Parts DEF Intents, Reasons
<1>3. /\ Position(r) = "Source" => file[r.from] = r.pre
      /\ Position(r) = "Rollback" => file[r.to] = r.pre /\ r.state = "Cancelled"
  BY DEF Position
<1>4. file'[op'.from] = r.pre /\ op'.from \in Paths
  BY <1>1, <1>2, <1>3
<1>5. OfOpening' /\ ~Outside'
  BY <1>1 DEF OfOpening, Outside, InProgress, Forward
<1>6. OneLook'
  BY <1>1, <1>5 DEF LinkInv, LinkParts, OneLook, Same
<1>7. Unchanged'
  BY <1>1 DEF LinkInv, LinkParts, Unchanged, Same
<1>8. Once'
  BY <1>1, <1>5 DEF LinkInv, LinkParts, Once, Missing, Opposite, Same
<1>9. HandledOK'
  <2>1. op'.why = "return" => /\ r \in intents /\ r.state = "Cancelled"
                              /\ op'.from = r.to /\ op'.to = r.from
    BY <1>1, <1>3 DEF LinkInv, LinkParts, Unchanged
  <2>2. op'.why = "resume" => op'.from = r.from /\ op'.to = r.to
    BY <1>1
  <2>3. file'[op'.from] # None
    BY <1>2, <1>4, NoneAssumption
  <2>4. ASSUME NEW s \in todo, s.pre.note = r.pre.note PROVE s.pre.edits <= r.pre.edits
    <3>1. PICK p \in Here(file) : file[p].note = s.pre.note /\ s.pre.edits <= file[p].edits
      BY DEF LinkInv, LinkParts, TodoRecalled, Recalled
    <3>2. op'.from \in Here(file) /\ file[op'.from] = r.pre
      BY <1>1, <1>4, <2>3 DEF Here
    <3>3. p = op'.from
      BY <2>4, <3>1, <3>2 DEF MoveInv, NoteOnce
    <3> QED
      BY <3>1, <3>2, <3>3
  <2> QED
    BY <1>1, <1>2, <1>4, <2>1, <2>2, <2>3, <2>4 DEF HandledOK, Is
<1> QED
  BY <1>1, <1>2, <1>6, <1>7, <1>8, <1>9, BeginStep DEF LinkParts

\* The rename reads its file.
LEMMA ReadStep ==
    ASSUME IInv, MoveInv, LinkInv, ReadSource, pc' = "plan"
    PROVE  LinkParts'
<1>1. /\ pc = "read" /\ file' = file /\ intents' = intents /\ known' = known
      /\ todo' = todo /\ handled' = handled
      /\ Is(op.from) /\ op' = [op EXCEPT !.pre = file[op.from]]
  BY EndsSomewhere DEF ReadSource, At, disk, opening, Fails
<1>2. /\ op \in Operations /\ op.from \in Paths /\ op.to \in Paths /\ op.why \in Reasons
      /\ op.from \in Here(file) /\ file[op.from] \in Contents
  BY <1>1, Parts DEF InProgress, Forward, Operations, Here, Is
<1>3. op'.from = op.from /\ op'.to = op.to /\ op'.why = op.why /\ op'.pre = file[op.from]
  BY <1>1, <1>2 DEF Operations
<1>4. /\ pc' \notin Uncommitted \cup Committed \cup Past \cup {"replay", "clear"}
      /\ pc' \notin Undoing
      /\ pc' \notin {"commit", "verify", "cancelAfter", "cancel", "moveBack", "drop"}
      /\ pc' \in ToMove
  BY <1>1 DEF Past, Uncommitted, Committed, ToMove, Undoing
<1>5. \A r : (Ahead(r)' => Ahead(r)) /\ (LookedAt(r)' => LookedAt(r))
  BY <1>1, <1>4 DEF Ahead, LookedAt
<1>6. Covered' /\ Followed'
  <2>1. \A x \in Links : Is(x[2]) => file'[x[2]] # None
    BY <1>1 DEF Is
  <2> QED
    BY <1>1, <1>5, <2>1, SameLinks, CoveredFrame, FollowedFrame DEF LinkInv, LinkParts
<1>7. Displaced'
  BY <1>1 DEF LinkInv, LinkParts, Displaced, Here, Is
<1>8. Made'
  BY <1>1, <1>4 DEF LinkInv, LinkParts, Made, MadeFor
<1>9. Planned' /\ Rewriting' /\ Replaying' /\ OwnStays'
  BY <1>4 DEF Planned, Rewriting, Replaying, OwnStays
<1>10. Carried'
  <2>1. known[op.from] # None /\ known[op.to] = None
    BY <1>1 DEF LinkInv, LinkParts, Carried, InProgress, Forward, Committed
  <2>2. file[op.from].note = known[op.from].note \/ file[op.from].link = None
    BY <1>1, <1>2, <2>1 DEF LinkInv, LinkParts, Displaced, Here
  <2> QED
    BY <1>1, <1>3, <1>4, <2>1, <2>2 DEF Carried, Moved
<1>11. (OfOpening' <=> OfOpening) /\ (Outside' <=> Outside)
  BY <1>1, <1>3 DEF OfOpening, Outside, InProgress, Forward
<1>12. OneLook' /\ Unchanged'
  BY <1>1, <1>4, <1>11 DEF LinkInv, LinkParts, OneLook, Unchanged, Same
<1>13. ASSUME NEW r \in todo, Same(r, op')
       PROVE  op.why = "return" /\ Opposite(handled, r)
  <2>1. OfOpening /\ pc = "read"
    <3>1. ~Outside
      BY DEF LinkInv, LinkParts, OneLook
    <3> QED
      BY <1>1, <3>1 DEF Outside, OfOpening, InProgress, Forward
  <2>2. /\ handled \in Intents
        /\ op.why = "return" => op.from = handled.to /\ op.to = handled.from
        /\ op.why = "resume" => op.from = handled.from /\ op.to = handled.to
        /\ file[op.from].note = handled.pre.note
        /\ file[op.from] = handled.pre \/ handled.pre.edits < file[op.from].edits
        /\ r.pre.note = handled.pre.note => r.pre.edits <= handled.pre.edits
        /\ ~Same(r, handled)
    BY <2>1 DEF LinkInv, LinkParts, HandledOK, OneLook
  <2>3. r.from = op.from /\ r.to = op.to /\ r.pre = file[op.from]
    BY <1>3, <1>13 DEF Same
  <2>4. handled.pre.edits \in Nat /\ file[op.from].edits \in Nat
    BY <1>2, <2>2, Parts, BoundsAssumption DEF Intents, Contents
  <2>5. handled.pre = r.pre
    BY <2>2, <2>3, <2>4
  <2>6. op.why # "resume"
    BY <2>2, <2>3, <2>5 DEF Same
  <2>7. op.why = "return"
    BY <1>2, <2>1, <2>6 DEF OfOpening, Reasons
  <2> QED
    BY <2>2, <2>3, <2>5, <2>7 DEF Opposite
<1>14. Once'
  BY <1>1, <1>3, <1>4, <1>11, <1>13 DEF LinkInv, LinkParts, Once, Missing, Opposite, Same
<1>15. HandledOK'
  BY <1>1, <1>3, <1>11 DEF LinkInv, LinkParts, HandledOK
<1> QED
  BY <1>6, <1>7, <1>8, <1>9, <1>10, <1>12, <1>14, <1>15 DEF LinkParts

-----------------------------------------------------------------------------
(* The plan, and the intent that announces it.                             *)

\* What is planned: one edit for each note that the index has a link of.
LEMMA PlanIs ==
    ASSUME IInv, MoveInv, Displaced, pc = "plan", known[op.to] = None,
           \A s \in Sources : Is(s) /\ file[s].link = op.from
    PROVE  /\ \A s \in Sources :
                 /\ s \in Here(file) /\ s \in Here(known) /\ s # op.to
                 /\ file[s].note = known[s].note /\ known[s].link = op.from
                 /\ <<file[s].note, op.from>> \in Links
           /\ \A w \in Plan : \E s \in Sources :
                 /\ w.doc = (IF s = op.from THEN op.to ELSE s)
                 /\ w.base = file[s] /\ w.result = [file[s] EXCEPT !.link = op.to]
                 /\ w.base.note = known[s].note
                 /\ w.base.link = op.from /\ w.result.link = op.to
           /\ \A s \in Sources : \E w \in Plan :
                 /\ w.doc = (IF s = op.from THEN op.to ELSE s)
                 /\ w.base.note = known[s].note
           /\ \A p \in Here(known) : known[p].link = op.from => p \in Sources
<1>1. op.from \in Paths /\ op.from # None
  BY Parts, NoneAssumption DEF InProgress, Forward, Operations
<1>2. ASSUME NEW s \in Sources
      PROVE  /\ s \in Here(file) /\ s \in Here(known) /\ s # op.to /\ file[s] \in Contents
             /\ file[s].note = known[s].note /\ known[s].link = op.from
             /\ <<file[s].note, op.from>> \in Links
  <2>1. s \in Paths /\ known[s] # None /\ known[s].link = op.from /\ file[s] # None
    BY DEF Sources, Is
  <2>2. s \in Here(file) /\ s \in Here(known) /\ s # op.to /\ file[s] \in Contents
    BY <2>1, Parts DEF Here
  <2>3. file[s].note = known[s].note
    BY <1>1, <2>2 DEF Displaced, Is, Here
  <2>4. <<file[s].note, op.from>> \in Links
    BY <1>1, <2>2 DEF Links
  <2> QED
    BY <2>1, <2>2, <2>3, <2>4
<1>3. ASSUME NEW w \in Plan
      PROVE  \E s \in Sources :
                 /\ w.doc = (IF s = op.from THEN op.to ELSE s)
                 /\ w.base = file[s] /\ w.result = [file[s] EXCEPT !.link = op.to]
                 /\ w.base.note = known[s].note
                 /\ w.base.link = op.from /\ w.result.link = op.to
  <2>1. PICK s \in Sources :
            w = [doc    |-> IF s = op.from THEN op.to ELSE s,
                 base   |-> file[s],
                 result |-> [file[s] EXCEPT !.link = op.to]]
    BY DEF Plan
  <2>2. [file[s] EXCEPT !.link = op.to].link = op.to
    BY <1>2 DEF Contents
  <2>3. /\ w.doc = (IF s = op.from THEN op.to ELSE s)
        /\ w.base = file[s] /\ w.result = [file[s] EXCEPT !.link = op.to]
    BY <2>1
  <2>4. w.base.link = op.from /\ w.result.link = op.to /\ w.base.note = known[s].note
    BY <1>2, <2>2, <2>3
  <2> QED
    BY <2>3, <2>4
<1>4. ASSUME NEW s \in Sources
      PROVE  \E w \in Plan : /\ w.doc = (IF s = op.from THEN op.to ELSE s)
                             /\ w.base.note = known[s].note
  <2> DEFINE w == [doc    |-> IF s = op.from THEN op.to ELSE s,
                   base   |-> file[s],
                   result |-> [file[s] EXCEPT !.link = op.to]]
  <2>1. w \in Plan
    BY DEF Plan
  <2>2. w.doc = (IF s = op.from THEN op.to ELSE s) /\ w.base.note = known[s].note
    BY <1>2
  <2> HIDE DEF w
  <2> QED
    BY <2>1, <2>2
<1>5. \A p \in Here(known) : known[p].link = op.from => p \in Sources
  BY DEF Here, Sources
<1> QED
  BY <1>2, <1>3, <1>4, <1>5

\* The plan covers every link to the path, as far as no other intent does.
LEMMA PlanStep ==
    ASSUME IInv, MoveInv, LinkInv, PlanRewrites, pc' = "persist"
    PROVE  LinkParts'
<1>1. /\ pc = "plan" /\ file' = file /\ intents' = intents /\ known' = known
      /\ todo' = todo /\ handled' = handled
      /\ ~Is(op.to) /\ \A s \in Sources : Is(s) /\ file[s].link = op.from
      /\ op' = [op EXCEPT !.rewrites = Plan]
  BY EndsSomewhere DEF PlanRewrites, At, disk, opening, Fails
<1>2. /\ op \in Operations /\ op.from \in Paths /\ op.to \in Paths /\ op.why \in Reasons
      /\ op.from # op.to
  BY <1>1, Parts DEF InProgress, Forward, Operations, MoveInv, Elsewhere
<1>3. /\ op'.from = op.from /\ op'.to = op.to /\ op'.why = op.why /\ op'.pre = op.pre
      /\ op'.rewrites = Plan
  BY <1>1, <1>2 DEF Operations
<1>4. /\ pc' \in Uncommitted /\ pc' \in ToMove
      /\ pc' \notin Committed \cup Past \cup Undoing
      /\ pc' \notin {"replay", "clear", "commit", "verify", "cancelAfter", "cancel",
                     "moveBack", "drop"}
  BY <1>1 DEF Past, Uncommitted, Committed, ToMove, Undoing, InProgress, Forward
<1>5. \A r : (Ahead(r)' => Ahead(r)) /\ (LookedAt(r)' => LookedAt(r))
  BY <1>1, <1>4 DEF Ahead, LookedAt
<1>6. known[op.from] # None /\ known[op.to] = None
  BY <1>1 DEF LinkInv, LinkParts, Carried, InProgress, Forward, Committed
<1>7. Covered' /\ Followed'
  <2>1. \A x \in Links : Is(x[2]) => file'[x[2]] # None
    BY <1>1 DEF Is
  <2> QED
    BY <1>1, <1>5, <2>1, SameLinks, CoveredFrame, FollowedFrame DEF LinkInv, LinkParts
<1>8. Displaced'
  BY <1>1 DEF LinkInv, LinkParts, Displaced, Here, Is
<1>9. /\ \A s \in Sources :
            /\ s \in Here(file) /\ s \in Here(known) /\ s # op.to
            /\ file[s].note = known[s].note /\ known[s].link = op.from
            /\ <<file[s].note, op.from>> \in Links
      /\ \A w \in Plan : \E s \in Sources :
            /\ w.doc = (IF s = op.from THEN op.to ELSE s)
            /\ w.base = file[s] /\ w.result = [file[s] EXCEPT !.link = op.to]
            /\ w.base.note = known[s].note
            /\ w.base.link = op.from /\ w.result.link = op.to
      /\ \A s \in Sources : \E w \in Plan :
            /\ w.doc = (IF s = op.from THEN op.to ELSE s)
            /\ w.base.note = known[s].note
      /\ \A p \in Here(known) : known[p].link = op.from => p \in Sources
  BY <1>1, <1>6, PlanIs DEF LinkInv, LinkParts
<1>10. Made'
  <2>1. MadeFor(op)'
    BY <1>3, <1>9 DEF MadeFor
  <2> QED
    BY <1>1, <1>4, <2>1 DEF LinkInv, LinkParts, Made, MadeFor
<1>11. Rewriting' /\ Replaying' /\ OwnStays'
  BY <1>4 DEF Rewriting, Replaying, OwnStays
<1>12. Carried'
  BY <1>1, <1>3, <1>4 DEF LinkInv, LinkParts, Carried, Moved, InProgress, Forward, Committed, ToMove
<1>13. OneLook' /\ Unchanged' /\ Once' /\ HandledOK'
  BY <1>1, <1>3, <1>4, OpeningGoesOn DEF Past, Committed, InProgress, Forward
<1>14. Planned'
  <2>0. /\ Links' = Links /\ Cards' = Cards
        /\ \A r : Other(r)' <=> r # [from |-> op.from, to |-> op.to, pre |-> op.pre,
                                     state |-> "Active", rewrites |-> Plan]
    BY <1>1, <1>3, SameLinks DEF Other, Intent
  <2>1. ASSUME NEW k \in Cards, NEW x \in Links, k[1] = x[1], k[2] = op.from
        PROVE  x[2] = op.from
    <3>1. PICK p \in Here(known) : k[1] = known[p].note /\ k[2] = known[p].link
      BY SomeCard
    <3>2. p \in Sources /\ p \in Here(file) /\ file[p].note = x[1] /\ file[p].link = op.from
      <4>1. p \in Sources
        BY <1>9, <2>1, <3>1
      <4>2. p \in Here(file) /\ p # op.to /\ file[p].note = x[1]
        BY <1>9, <2>1, <3>1, <4>1
      <4>3. PICK w \in Plan : w.doc = IF p = op.from THEN op.to ELSE p
        BY <1>9, <4>1
      <4>4. PICK s \in Sources : /\ w.doc = (IF s = op.from THEN op.to ELSE s)
                                /\ w.base = file[s] /\ w.base.link = op.from
        BY <1>9
      <4>5. s # op.to
        BY <1>9
      <4>6. s = p
        BY <4>2, <4>3, <4>4, <4>5
      <4> QED
        BY <4>1, <4>2, <4>4, <4>6
    <3> QED
      BY <3>2, OneLink DEF MoveInv
  <2>2. \A p \in Here(known) : known[p].link = op.from =>
              \E w \in Plan : w.doc = IF p = op.from THEN op.to ELSE p
    BY <1>9
  <2>3. \A w \in Plan : \E p \in Here(known) :
              known[p].link = op.from /\ w.doc = IF p = op.from THEN op.to ELSE p
    <3>1. \A w \in Plan : \E s \in Sources : w.doc = IF s = op.from THEN op.to ELSE s
      BY <1>9
    <3>2. \A s \in Sources : s \in Here(known) /\ known[s].link = op.from
      BY <1>9
    <3> QED
      BY <3>1, <3>2
  <2>4. ASSUME NEW v \in Plan, NEW w \in Plan, v.doc = w.doc
        PROVE  v = w
    <3>1. PICK s \in Sources :
              v = [doc    |-> IF s = op.from THEN op.to ELSE s,
                   base   |-> file[s],
                   result |-> [file[s] EXCEPT !.link = op.to]]
      BY DEF Plan
    <3>2. PICK t \in Sources :
              w = [doc    |-> IF t = op.from THEN op.to ELSE t,
                   base   |-> file[t],
                   result |-> [file[t] EXCEPT !.link = op.to]]
      BY DEF Plan
    <3>3. s = t
      <4>1. (IF s = op.from THEN op.to ELSE s) = (IF t = op.from THEN op.to ELSE t)
        BY <2>4, <3>1, <3>2
      <4>2. s # op.to /\ t # op.to
        BY <1>9
      <4> QED
        BY <4>1, <4>2
    <3> QED
      BY <3>1, <3>2, <3>3
  <2>5. ASSUME NEW x \in Links, x[2] \in {op.from, op.to}
        PROVE  \/ x[2] = op.from /\ \E w \in Plan : w.base.note = x[1]
               \/ \E r \in intents :
                     /\ Covers(r, x)
                     /\ r # [from |-> op.from, to |-> op.to, pre |-> op.pre,
                             state |-> "Active", rewrites |-> Plan]
    <3> DEFINE mine == [from |-> op.from, to |-> op.to, pre |-> op.pre,
                        state |-> "Active", rewrites |-> Plan]
    <3>0. /\ mine.from = op.from /\ mine.to = op.to /\ mine.state = "Active"
          /\ mine.rewrites = Plan
      OBVIOUS
    <3> HIDE DEF mine
    <3>1. CASE x[2] = op.to
      <4>1. PICK r \in intents : Covers(r, x)
        BY <1>1, <3>1 DEF LinkInv, LinkParts, Covered
      <4>2. r # mine
        <5>1. SUFFICES ASSUME r = mine PROVE FALSE
          OBVIOUS
        <5>2. x[1] \in NotesOf(mine)
          BY <1>2, <3>0, <3>1, <4>1, <5>1 DEF Covers
        <5>3. PICK w \in Plan : w.base.note = x[1]
          BY <3>0, <5>2 DEF NotesOf
        <5>4. PICK s \in Sources : w.base = file[s]
          BY <1>9
        <5>5. s \in Here(file) /\ file[s].note = x[1] /\ file[s].link = op.from
          BY <1>1, <1>9, <5>3, <5>4
        <5>6. x[2] = op.from
          BY <5>5, OneLink DEF MoveInv
        <5> QED
          BY <1>2, <3>1, <5>6
      <4> QED
        BY <4>1, <4>2 DEF mine
    <3>2. CASE x[2] = op.from
      <4>1. PICK k \in Cards : IsCard(k, x)
        BY <1>1 DEF LinkInv, LinkParts, Followed
      <4>2. CASE k[2] = x[2]
        <5>1. PICK p \in Here(known) : k[1] = known[p].note /\ k[2] = known[p].link
          BY SomeCard
        <5>2. p \in Sources /\ known[p].note = x[1]
          BY <1>9, <3>2, <4>1, <4>2, <5>1 DEF IsCard
        <5> QED
          BY <1>9, <3>2, <5>2
      <4>3. ASSUME NEW r \in intents, ~LookedAt(r), Excuses(r, x, k[2])
            PROVE  Covers(r, x) /\ r # mine
        <5>1. ~Ahead(r)
          BY <4>3 DEF Ahead, LookedAt
        <5>2. CASE r.state = "Active" /\ r.to = x[2] /\ x[1] \in NotesOf(r)
          BY <1>2, <3>0, <3>2, <5>2 DEF Covers
        <5>3. CASE r.state = "Cancelled" /\ r.from = x[2]
          BY <3>0, <5>1, <5>3 DEF Covers
        <5> QED
          BY <4>3, <5>2, <5>3 DEF Excuses
      <4> QED
        BY <4>1, <4>2, <4>3 DEF IsCard, mine
    <3> QED
      BY <2>5, <3>1, <3>2
  <2>6. ASSUME NEW r \in intents, NEW x, Covers(r, x) PROVE Covers(r, x)'
    BY <1>5, <2>6, CoverStays
  <2>7. \A x \in Links : x[2] = op.from /\ (\E w \in Plan : w.base.note = x[1])
            => x[1] \in NotesOf(op)'
    BY <1>3 DEF NotesOf
  <2> QED
    BY <1>1, <1>3, <1>4, <2>0, <2>1, <2>2, <2>3, <2>4, <2>5, <2>6, <2>7 DEF Planned
<1> QED
  BY <1>7, <1>8, <1>10, <1>11, <1>12, <1>13, <1>14 DEF LinkParts

-----------------------------------------------------------------------------
(* The intent is written and marked, the file moves.                       *)

\* The steps of a rename that has a plan, by name.
LEMMA PastIs ==
    ASSUME pc \in Past
    PROVE  /\ pc \in InProgress /\ pc \in Uncommitted /\ pc \notin Committed
           /\ pc \notin {"replay", "clear", "closed", "read", "plan", "persist"}
BY DEF Past, Uncommitted, Committed, InProgress, Forward, Backward

\* The rename is announced: if it was already, the intent is the same.
LEMMA PersistStep ==
    ASSUME IInv, MoveInv, LinkInv, Persist, pc' = "organization"
    PROVE  LinkParts'
<1> DEFINE mine == Intent("Active")
<1>1. /\ pc = "persist" /\ file' = file /\ known' = known /\ op' = op
      /\ todo' = todo /\ handled' = handled
      /\ \A r \in intents : Same(r, mine) => r = mine
      /\ intents' = intents \cup {mine}
  BY EndsSomewhere DEF Persist, At, Go, opening, Fails
<1>2. /\ op \in Operations /\ op.from \in Paths /\ op.to \in Paths /\ op.why \in Reasons
      /\ op.from # op.to
  BY <1>1, Parts DEF InProgress, Forward, Operations, MoveInv, Elsewhere
<1>3. /\ mine.from = op.from /\ mine.to = op.to /\ mine.pre = op.pre
      /\ mine.state = "Active" /\ mine.rewrites = op.rewrites
      /\ Intent("Active")' = mine
      /\ \A r : Same(r, mine) <=> Same(r, op)
  BY <1>1 DEF Intent, Same
<1> HIDE DEF mine
<1>4. /\ pc' \in Past /\ pc' \in Uncommitted /\ pc' \in ToMove
      /\ pc' \notin Committed \cup Undoing
      /\ pc' \notin {"replay", "clear", "commit", "verify", "cancelAfter", "cancel", "moveBack",
                     "drop", "persist", "read", "plan", "closed"}
      /\ pc \in Uncommitted /\ pc \in ToMove /\ pc \in InProgress /\ pc \notin Past \cup Committed
      /\ pc' \in InProgress
  BY <1>1 DEF Past, Uncommitted, Committed, ToMove, Undoing, InProgress, Forward
<1>5. /\ \A r : Ahead(r)' => Ahead(r)
      /\ \A r : LookedAt(r)' => LookedAt(r) \/ Same(op, r)
  BY <1>1, <1>4 DEF Ahead, LookedAt
<1>6. Links' = Links /\ Cards' = Cards
  BY <1>1, SameLinks
<1>7. Covered'
  <2>1. \A x \in Links : Is(x[2]) => file'[x[2]] # None
    BY <1>1 DEF Is
  <2> QED
    BY <1>1, <1>5, <1>6, <2>1, CoveredFrame DEF LinkInv, LinkParts
<1>8. ASSUME NEW r \in intents, NEW x, Covers(r, x) PROVE Covers(r, x)'
  BY <1>5, <1>8, CoverStays
<1>9. Followed'
  <2>1. ASSUME NEW x \in Links PROVE \E k \in Cards : IsCard(k, x)'
    <3>1. PICK k \in Cards : IsCard(k, x)
      BY <1>1 DEF LinkInv, LinkParts, Followed
    <3>2. CASE k[2] = x[2]
      BY <3>1, <3>2 DEF IsCard
    <3>3. ASSUME NEW r \in intents, ~LookedAt(r), Excuses(r, x, k[2]) PROVE IsCard(k, x)'
      <4>1. CASE ~LookedAt(r)'
        BY <1>1, <3>1, <3>3, <4>1 DEF IsCard, Excuses
      <4>2. CASE Same(op, r)
        <5>1. r = mine
          BY <1>1, <1>3, <4>2 DEF Same
        <5>2. k[1] = x[1] /\ k[2] = op.from /\ x[2] = op.to
          BY <1>3, <3>1, <3>3, <5>1 DEF Excuses, IsCard
        <5>3. x[2] = op.from
          BY <1>1, <1>4, <5>2 DEF LinkInv, LinkParts, Planned
        <5> QED
          BY <1>2, <5>2, <5>3
      <4> QED
        BY <1>5, <3>3, <4>1, <4>2
    <3> QED
      BY <3>1, <3>2, <3>3 DEF IsCard
  <2> QED
    BY <1>6, <2>1 DEF Followed
<1>10. Displaced'
  BY <1>1 DEF LinkInv, LinkParts, Displaced, Here, Is
<1>11. Made'
  <2>1. MadeFor(mine)
    BY <1>3, <1>4 DEF LinkInv, LinkParts, Made, MadeFor
  <2> QED
    BY <1>1, <1>4, <2>1 DEF LinkInv, LinkParts, Made, MadeFor
<1>12. Planned'
  <2>1. \A r \in intents : Other(r) => Other(r)'
    BY <1>1, <1>3 DEF Other, mine
  <2> QED
    BY <1>1, <1>4, <1>6, <1>8, <2>1 DEF LinkInv, LinkParts, Planned, NotesOf
<1>13. Rewriting' /\ Replaying' /\ OwnStays'
  BY <1>4 DEF Rewriting, Replaying, OwnStays
<1>14. Carried'
  BY <1>1, <1>4 DEF LinkInv, LinkParts, Carried, Moved, Is
<1>15. (OfOpening' <=> OfOpening) /\ (Outside' <=> Outside)
  BY <1>1, <1>4 DEF OfOpening, Outside
<1>16. OneLook' /\ HandledOK'
  BY <1>1, <1>4, <1>15 DEF LinkInv, LinkParts, OneLook, HandledOK, Same
<1>17. ASSUME NEW r \in todo, Same(r, op)
       PROVE  mine \in intents /\ r.state = "Active"
  <2>1. OfOpening
    <3>1. ~Outside
      BY DEF LinkInv, LinkParts, OneLook
    <3> QED
      BY <1>1, <1>4, <3>1 DEF Outside, OfOpening
  <2>2. op.why = "return" /\ Opposite(handled, r)
    BY <1>1, <1>4, <1>17 DEF LinkInv, LinkParts, Once
  <2>3. ~Missing(r)
    BY <1>1, <2>1, <2>2 DEF LinkInv, LinkParts, Once
  <2>4. r.state # "Cancelled"
    <3>1. SUFFICES ASSUME r.state = "Cancelled" PROVE FALSE
      OBVIOUS
    <3>2. r \in intents
      BY <3>1 DEF LinkInv, LinkParts, Unchanged
    <3> QED
      BY <1>1, <1>3, <1>17, <3>1, <3>2
  <2>5. r.state = "Active"
    BY <2>4, Parts DEF Intents
  <2>6. PICK s \in intents : Same(s, r)
    BY <2>3, <2>5 DEF Missing
  <2>7. s = mine
    BY <1>1, <1>3, <1>17, <2>6 DEF Same
  <2> QED
    BY <2>5, <2>6, <2>7
<1>18. Unchanged'
  <2>1. ASSUME NEW r \in todo, Same(mine, r) PROVE mine.rewrites = r.rewrites
    <3>1. Same(r, op)
      BY <1>3, <2>1 DEF Same
    <3>2. mine \in intents
      BY <1>17, <3>1
    <3> QED
      BY <2>1, <3>2 DEF LinkInv, LinkParts, Unchanged
  <2> QED
    BY <1>1, <1>4, <2>1 DEF LinkInv, LinkParts, Unchanged, Same
<1>19. Once'
  BY <1>1, <1>4, <1>15, <1>17 DEF LinkInv, LinkParts, Once, Missing, Opposite, Same
<1> QED
  BY <1>7, <1>9, <1>10, <1>11, <1>12, <1>13, <1>14, <1>16, <1>18, <1>19 DEF LinkParts

\* The intent of a rename is marked: what it covered it goes on covering.
LEMMA MarkStep ==
    ASSUME IInv, MoveInv, LinkInv,
           \/ CancelMoved /\ pc' = "undoOrganization"
           \/ CancelUnmoved /\ pc' = "drop"
    PROVE  LinkParts'
<1> DEFINE mine == Intent("Cancelled")
<1>1. /\ \/ pc = "cancelAfter" /\ pc' = "undoOrganization"
         \/ pc = "cancel" /\ pc' = "drop"
      /\ file' = file /\ known' = known /\ op' = op
      /\ todo' = todo /\ handled' = handled
      /\ intents' = Without(op) \cup {mine}
  BY EndsSomewhere DEF CancelMoved, CancelUnmoved, MarkCancelled, At, Go, opening, Fails
<1>2. /\ pc \in Past /\ pc' \in Past /\ pc \in Uncommitted /\ pc' \in Uncommitted
      /\ pc \in InProgress /\ pc' \in InProgress
      /\ pc' \notin Committed \cup ToMove /\ pc \notin Committed
      /\ pc \notin {"replay", "clear", "persist", "read", "plan", "closed"}
      /\ pc' \notin {"replay", "clear", "persist", "read", "plan", "closed"}
  BY <1>1 DEF Past, Uncommitted, Committed, ToMove, InProgress, Forward, Backward
<1>3. /\ op \in Operations /\ op.from \in Paths /\ op.to \in Paths /\ op.why \in Reasons
      /\ op.from # op.to
  BY <1>2, Parts DEF Operations, MoveInv, Elsewhere
<1>4. /\ mine.from = op.from /\ mine.to = op.to /\ mine.pre = op.pre
      /\ mine.state = "Cancelled" /\ mine.rewrites = op.rewrites
      /\ Intent("Cancelled")' = mine
      /\ \A r : Same(r, mine) <=> Same(r, op)
      /\ \A r : Same(mine, r) <=> Same(op, r)
  BY <1>1 DEF Intent, Same
<1>5. Intent("Active") \in intents
  BY <1>1 DEF LinkInv, LinkParts, OwnStays
<1> HIDE DEF mine
<1>6. /\ \A r : Ahead(r)' => Ahead(r)
      /\ \A r : LookedAt(r)' <=> LookedAt(r)
  BY <1>1, <1>2, <1>4 DEF Ahead, LookedAt
<1>7. Links' = Links /\ Cards' = Cards
  BY <1>1, SameLinks
<1>8. ASSUME NEW r, NEW x, Covers(r, x) PROVE Covers(r, x)'
  BY <1>6, <1>8, CoverStays
<1>9. Covered'
  <2>1. ASSUME NEW x \in Links, ~Is(x[2]) PROVE \E r \in intents' : Covers(r, x)'
    <3>1. PICK r \in intents : Covers(r, x)
      BY <2>1 DEF LinkInv, LinkParts, Covered
    <3>2. CASE ~Same(r, op)
      BY <1>1, <1>8, <3>1, <3>2 DEF Without
    <3>3. CASE Same(r, op)
      <4>1. x[2] \in {op.from, op.to}
        BY <3>1, <3>3 DEF Covers, Same
      <4>2. CASE x[2] = op.from /\ x[1] \in NotesOf(op)
        <5>1. x[1] \in NotesOf(mine)
          BY <1>4, <4>2 DEF NotesOf
        <5>2. PICK s \in intents' : s = mine
          BY <1>1
        <5>3. Covers(s, x)'
          BY <1>4, <4>2, <5>1, <5>2 DEF Covers
        <5> QED
          BY <5>3
      <4>3. ASSUME NEW s \in intents, ~Same(s, op), Covers(s, x)
            PROVE  s \in intents' /\ Covers(s, x)'
        BY <1>1, <1>8, <4>3 DEF Without
      <4> QED
        BY <1>2, <4>1, <4>2, <4>3 DEF LinkInv, LinkParts, Planned, Other
    <3> QED
      BY <3>2, <3>3
  <2> QED
    BY <1>1, <1>7, <2>1 DEF Covered, Is
<1>10. Followed'
  <2>1. ASSUME NEW x \in Links, NEW k \in Cards, IsCard(k, x) PROVE IsCard(k, x)'
    <3>1. ASSUME NEW r \in intents, ~LookedAt(r) PROVE r \in intents' /\ ~LookedAt(r)'
      <4>1. ~Same(r, op)
        BY <1>2, <3>1 DEF LookedAt, Same
      <4> QED
        BY <1>1, <1>6, <3>1, <4>1 DEF Without
    <3> QED
      BY <2>1, <3>1 DEF IsCard, Excuses
  <2> QED
    BY <1>2, <1>7, <2>1 DEF LinkInv, LinkParts, Followed
<1>11. Displaced'
  BY <1>1 DEF LinkInv, LinkParts, Displaced, Here, Is
<1>12. Made'
  <2>1. MadeFor(mine)
    BY <1>2, <1>4 DEF LinkInv, LinkParts, Made, MadeFor
  <2> QED
    BY <1>1, <1>2, <2>1 DEF LinkInv, LinkParts, Made, MadeFor, Without
<1>13. Planned'
  <2>1. \A r \in intents : Other(r) => Other(r)' /\ r \in intents'
    BY <1>1, <1>2 DEF Other, Without
  <2> QED
    BY <1>1, <1>2, <1>7, <1>8, <2>1 DEF LinkInv, LinkParts, Planned, NotesOf
<1>14. Rewriting' /\ Replaying'
  BY <1>2 DEF Rewriting, Replaying
<1>15. Carried' /\ OwnStays'
  <2>1. (Intent("Cancelled") \in intents)'
    BY <1>1, <1>4
  <2>2. Moved => Is(op.to) /\ file[op.to].note = op.pre.note /\ file[op.to].link = op.pre.link
    BY DEF LinkInv, LinkParts, Carried
  <2>3. /\ pc = "cancelAfter" => Moved
        /\ pc = "cancel" => ~Moved
        /\ pc' = "undoOrganization" => Moved'
        /\ pc' = "drop" => ~Moved'
    BY <2>1 DEF Moved, Undoing
  <2>4. OwnStays'
    BY <1>1, <1>2, <2>1 DEF OwnStays, Undoing
  <2>5. /\ known[op.from] # None /\ known[op.to] = None
        /\ known[op.from].note = op.pre.note \/ op.pre.link = None
        /\ pc = "cancel" => Is(op.from)
    BY <1>1, <1>2, <2>3 DEF LinkInv, LinkParts, Carried
  <2>6. pc' = "drop" => Is(op.from)
    BY <1>1, <2>5
  <2>7. Moved' => Is(op.to) /\ file[op.to].note = op.pre.note /\ file[op.to].link = op.pre.link
    BY <1>1, <2>2, <2>3
  <2>8. pc' \in Undoing \cup {"cancel", "drop"} /\ ~Moved' => pc' = "drop"
    BY <1>1, <2>3
  <2> HIDE DEF Moved
  <2>9. Carried'
    BY <1>1, <1>2, <2>5, <2>6, <2>7, <2>8 DEF Carried, Is
  <2> QED
    BY <2>4, <2>9
<1>16. (OfOpening' <=> OfOpening) /\ (Outside' <=> Outside)
  BY <1>1, <1>2 DEF OfOpening, Outside
<1>17. OneLook'
  BY <1>1, <1>2, <1>16 DEF LinkInv, LinkParts, OneLook, Same
<1>18. HandledOK'
  <2>1. OfOpening /\ op.why = "return" => handled \in intents'
    <3>1. SUFFICES ASSUME OfOpening, op.why = "return" PROVE handled \in intents'
      OBVIOUS
    <3>2. handled \in intents /\ op.from = handled.to /\ op.to = handled.from
      BY <3>1 DEF LinkInv, LinkParts, HandledOK
    <3>3. ~Same(handled, op)
      BY <1>3, <3>2 DEF Same
    <3> QED
      BY <1>1, <3>2, <3>3 DEF Without
  <2> QED
    BY <1>1, <1>2, <1>16, <2>1 DEF LinkInv, LinkParts, HandledOK
<1>19. Unchanged'
  <2>1. \A r \in todo : r.state = "Cancelled" => r \in intents'
    <3>1. ASSUME NEW r \in todo, r.state = "Cancelled" PROVE r \in intents'
      <4>1. r \in intents
        BY <3>1 DEF LinkInv, LinkParts, Unchanged
      <4>2. ~Same(r, op)
        BY <1>2, <3>1 DEF LinkInv, LinkParts, Once
      <4> QED
        BY <1>1, <4>1, <4>2 DEF Without
    <3> QED
      BY <3>1
  <2>2. ASSUME NEW r \in todo, Same(mine, r) PROVE mine.rewrites = r.rewrites
    <3>1. Same(Intent("Active"), r) /\ Intent("Active").rewrites = op.rewrites
      BY <1>4, <2>2 DEF Same, Intent
    <3>2. op.rewrites = r.rewrites
      BY <1>5, <3>1 DEF LinkInv, LinkParts, Unchanged
    <3> QED
      BY <1>4, <3>2
  <2>3. \A r \in todo, s \in intents' : Same(s, r) => s.rewrites = r.rewrites
    BY <1>1, <2>2 DEF LinkInv, LinkParts, Unchanged, Without
  <2> QED
    BY <1>1, <1>2, <2>1, <2>3 DEF Unchanged, Same
<1>20. Once'
  <2>1. ASSUME NEW r, Missing(r)' PROVE Missing(r)
    <3>1. ASSUME NEW s \in intents PROVE \E t \in intents' : Same(t, r) \/ ~Same(s, r)
      <4>1. CASE Same(s, op)
        BY <1>1, <1>4, <4>1 DEF Same
      <4>2. CASE ~Same(s, op)
        BY <1>1, <4>2 DEF Without
      <4> QED
        BY <4>1, <4>2
    <3> QED
      BY <2>1, <3>1 DEF Missing, Same
  <2> QED
    BY <1>1, <1>2, <2>1 DEF LinkInv, LinkParts, Once, Opposite, Same
<1> QED
  BY <1>9, <1>10, <1>11, <1>12, <1>13, <1>14, <1>15, <1>17, <1>18, <1>19, <1>20 DEF LinkParts

-----------------------------------------------------------------------------
(* The file moves, and the index follows.                                  *)

\* A file that moves takes its link along.
LEMMA MovedLinks ==
    ASSUME IInv, NEW from \in Paths, NEW to \in Paths, from # to, Moves(from, to)
    PROVE  /\ Links' = Links
           /\ file'[from] = None /\ file'[to] = file[from]
           /\ \A q \in Paths \ {from, to} : file'[q] = file[q]
           /\ file[from] # None /\ file[to] = None
<1>1. file \in [Paths -> File]
  BY Parts
<1>2. /\ file'[from] = None /\ file'[to] = file[from]
      /\ \A q \in Paths \ {from, to} : file'[q] = file[q]
      /\ file[from] # None /\ file[to] = None
  BY <1>1 DEF Moves, Is
<1>3. ASSUME NEW x \in Links PROVE x \in Links'
  <2>1. PICK p \in Here(file) : file[p].link # None /\ x = <<file[p].note, file[p].link>>
    BY SomeLink
  <2>2. PICK q \in Paths : file'[q] = file[p]
    BY <1>2, <2>1 DEF Here
  <2> QED
    BY <2>1, <2>2 DEF Links, Here
<1>4. ASSUME NEW x \in Links' PROVE x \in Links
  <2>1. PICK p \in Here(file') : file'[p].link # None /\ x = <<file'[p].note, file'[p].link>>
    BY DEF Links
  <2>2. PICK q \in Paths : file[q] = file'[p]
    BY <1>2, <2>1 DEF Here
  <2> QED
    BY <2>1, <2>2 DEF Links, Here
<1> QED
  BY <1>2, <1>3, <1>4

\* The file moves: the links to its old path are those of the plan, or others
\* know of them.
LEMMA MoveStep ==
    ASSUME IInv, MoveInv, LinkInv, MoveFile, pc' = "commit"
    PROVE  LinkParts'
<1>1. /\ pc = "move" /\ Moves(op.from, op.to) /\ intents' = intents /\ known' = known /\ op' = op
      /\ todo' = todo /\ handled' = handled
  BY DEF MoveFile, At, Go, opening
<1>2. /\ pc \in Past /\ pc' \in Past /\ pc \in ToMove \ {"plan", "persist"}
      /\ pc \in Uncommitted /\ pc' \in Uncommitted /\ pc \in InProgress /\ pc' \in InProgress
      /\ pc \notin Committed /\ pc' \notin Committed \cup ToMove \cup Undoing
  BY <1>1 DEF Past, Uncommitted, Committed, ToMove, InProgress, Forward, Backward, Undoing
<1>3. /\ op.from \in Paths /\ op.to \in Paths /\ op.from # op.to
      /\ Intent("Active") \in intents
      /\ Is(op.from) /\ file[op.from].note = op.pre.note /\ file[op.from].link = op.pre.link
      /\ known[op.from] # None /\ known[op.to] = None
      /\ known[op.from].note = op.pre.note \/ op.pre.link = None
  BY <1>2, Parts DEF Operations, MoveInv, Elsewhere, Announced, ReadLast, LinkInv, LinkParts,
                     Carried
<1>4. /\ Links' = Links
      /\ file'[op.from] = None /\ file'[op.to] = file[op.from]
      /\ \A q \in Paths \ {op.from, op.to} : file'[q] = file[q]
      /\ file[op.from] # None /\ file[op.to] = None
  BY <1>1, <1>3, MovedLinks
<1>5. Cards' = Cards
  BY <1>1, SameLinks
<1>6. \A r : (Ahead(r)' <=> Ahead(r)) /\ (LookedAt(r)' <=> LookedAt(r))
  BY <1>1, <1>2 DEF Ahead, LookedAt, Same
<1>7. ASSUME NEW r, NEW x, Covers(r, x) PROVE Covers(r, x)'
  BY <1>6, <1>7, CoverStays
<1>8. Covered'
  <2>1. ASSUME NEW x \in Links, file'[x[2]] = None PROVE \E r \in intents : Covers(r, x)
    <3>1. x[2] \in Paths
      BY LinkPaths
    <3>2. CASE x[2] = op.from
      <4>1. CASE x[1] \in NotesOf(op)
        <5>1. Intent("Active").from = op.from /\ x[1] \in NotesOf(Intent("Active"))
          BY <4>1 DEF Intent, NotesOf
        <5> QED
          BY <1>3, <3>2, <5>1 DEF Covers
      <4>2. CASE x[1] \notin NotesOf(op)
        BY <1>2, <3>2, <4>2 DEF LinkInv, LinkParts, Planned
      <4> QED
        BY <4>1, <4>2
    <3>3. CASE x[2] # op.from
      <4>1. file[x[2]] = None
        BY <1>4, <2>1, <3>1, <3>3
      <4> QED
        BY <4>1 DEF LinkInv, LinkParts, Covered, Is
    <3> QED
      BY <3>2, <3>3
  <2> QED
    BY <1>1, <1>4, <1>7, <2>1 DEF Covered, Is
<1>9. Followed'
  <2>1. pc # "closed"
    BY <1>1
  <2> QED
    BY <1>1, <1>4, <1>5, <1>6, <2>1, FollowedFrame DEF LinkInv, LinkParts
<1>10. Displaced'
  <2>1. ASSUME NEW p \in Here(known), file'[p] # None
        PROVE  file'[p].note = known[p].note \/ file'[p].link = None
    <3>1. p \in Paths \ {op.from, op.to}
      BY <1>3, <1>4, <2>1 DEF Here
    <3> QED
      BY <1>4, <2>1, <3>1 DEF LinkInv, LinkParts, Displaced, Is
  <2> QED
    BY <1>1, <2>1 DEF Displaced, Is
<1>11. Made'
  BY <1>1, <1>2 DEF LinkInv, LinkParts, Made, MadeFor
<1>12. Planned'
  <2>1. \A r \in intents : Other(r)' <=> Other(r)
    BY <1>1 DEF Other, Same
  <2> QED
    BY <1>1, <1>2, <1>4, <1>5, <1>7, <2>1 DEF LinkInv, LinkParts, Planned, NotesOf
<1>13. Rewriting' /\ Replaying'
  BY <1>2 DEF Rewriting, Replaying
<1>14. Carried' /\ OwnStays'
  <2>1. Intent("Active")' = Intent("Active")
    BY <1>1 DEF Intent
  <2>2. OwnStays'
    BY <1>1, <1>2, <1>3, <2>1 DEF OwnStays, Undoing
  <2>3. Carried'
    BY <1>1, <1>2, <1>3, <1>4 DEF Carried, Is
  <2> QED
    BY <2>2, <2>3
<1>15. OneLook' /\ Unchanged' /\ Once' /\ HandledOK'
  BY <1>1, <1>2, OpeningGoesOn
<1> QED
  BY <1>8, <1>9, <1>10, <1>11, <1>12, <1>13, <1>14, <1>15 DEF LinkParts

\* The file moves back: no link to the new path was there that is not known of.
LEMMA MoveBackStep ==
    ASSUME IInv, MoveInv, LinkInv, MoveBack, pc' = "drop"
    PROVE  LinkParts'
<1>1. /\ pc = "moveBack" /\ Moves(op.to, op.from) /\ intents' = intents /\ known' = known
      /\ op' = op /\ todo' = todo /\ handled' = handled
  BY EndsSomewhere DEF MoveBack, At, Go, opening, Fails
<1>2. /\ pc \in Past /\ pc' \in Past
      /\ pc \in Uncommitted /\ pc' \in Uncommitted /\ pc \in InProgress /\ pc' \in InProgress
      /\ pc \notin Committed /\ pc' \notin Committed \cup ToMove \cup Undoing
  BY <1>1 DEF Past, Uncommitted, Committed, ToMove, InProgress, Forward, Backward, Undoing
<1>3. /\ op.from \in Paths /\ op.to \in Paths /\ op.from # op.to
      /\ Intent("Cancelled") \in intents
      /\ file[op.to].note = op.pre.note /\ file[op.to].link = op.pre.link
      /\ known[op.from] # None /\ known[op.to] = None
      /\ known[op.from].note = op.pre.note \/ op.pre.link = None
  BY <1>1, <1>2, Parts DEF Operations, MoveInv, Elsewhere, LinkInv, LinkParts, OwnStays,
                           Carried, Moved
<1>4. /\ Links' = Links
      /\ file'[op.to] = None /\ file'[op.from] = file[op.to]
      /\ \A q \in Paths \ {op.from, op.to} : file'[q] = file[q]
      /\ file[op.to] # None /\ file[op.from] = None
  BY <1>1, <1>3, MovedLinks
<1>5. Cards' = Cards
  BY <1>1, SameLinks
<1>6. \A r : (Ahead(r)' <=> Ahead(r)) /\ (LookedAt(r)' <=> LookedAt(r))
  BY <1>1, <1>2 DEF Ahead, LookedAt, Same
<1>7. ASSUME NEW r, NEW x, Covers(r, x) PROVE Covers(r, x)'
  BY <1>6, <1>7, CoverStays
<1>8. Covered'
  <2>1. ASSUME NEW x \in Links, file'[x[2]] = None PROVE \E r \in intents : Covers(r, x)
    <3>1. x[2] \in Paths
      BY LinkPaths
    <3>2. CASE x[2] = op.to
      BY <1>2, <1>3, <3>2 DEF LinkInv, LinkParts, Planned
    <3>3. CASE x[2] # op.to
      <4>1. file[x[2]] = None
        BY <1>4, <2>1, <3>1, <3>3
      <4> QED
        BY <4>1 DEF LinkInv, LinkParts, Covered, Is
    <3> QED
      BY <3>2, <3>3
  <2> QED
    BY <1>1, <1>4, <1>7, <2>1 DEF Covered, Is
<1>9. Followed'
  <2>1. pc # "closed"
    BY <1>1
  <2> QED
    BY <1>1, <1>4, <1>5, <1>6, <2>1, FollowedFrame DEF LinkInv, LinkParts
<1>10. Displaced'
  <2>1. ASSUME NEW p \in Here(known), file'[p] # None
        PROVE  file'[p].note = known[p].note \/ file'[p].link = None
    <3>1. CASE p = op.from
      BY <1>3, <1>4, <3>1
    <3>2. CASE p # op.from
      <4>1. p \in Paths \ {op.from, op.to}
        BY <1>3, <3>2 DEF Here
      <4> QED
        BY <1>4, <2>1, <4>1 DEF LinkInv, LinkParts, Displaced, Is
    <3> QED
      BY <3>1, <3>2
  <2> QED
    BY <1>1, <2>1 DEF Displaced, Is
<1>11. Made'
  BY <1>1, <1>2 DEF LinkInv, LinkParts, Made, MadeFor
<1>12. Planned'
  <2>1. \A r \in intents : Other(r)' <=> Other(r)
    BY <1>1 DEF Other, Same
  <2> QED
    BY <1>1, <1>2, <1>4, <1>5, <1>7, <2>1 DEF LinkInv, LinkParts, Planned, NotesOf
<1>13. Rewriting' /\ Replaying'
  BY <1>2 DEF Rewriting, Replaying
<1>14. Carried' /\ OwnStays'
  <2>1. Intent("Cancelled")' = Intent("Cancelled")
    BY <1>1 DEF Intent
  <2>2. OwnStays'
    BY <1>1, <1>2, <1>3, <2>1 DEF OwnStays, Undoing
  <2>3. /\ ~Moved' /\ Is(op.from)'
    BY <1>1, <1>2, <1>4 DEF Moved, Is
  <2>4. Carried'
    BY <1>1, <1>2, <1>3, <2>3 DEF Carried
  <2> QED
    BY <2>2, <2>4
<1>15. OneLook' /\ Unchanged' /\ Once' /\ HandledOK'
  BY <1>1, <1>2, OpeningGoesOn
<1> QED
  BY <1>8, <1>9, <1>10, <1>11, <1>12, <1>13, <1>14, <1>15 DEF LinkParts

\* The commit takes the plan over: the edits to do are those of it.
LEMMA CommitStep ==
    ASSUME IInv, MoveInv, LinkInv, Commit
    PROVE  LinkParts'
<1>1. /\ pc = "commit" /\ pc' = "rewrite" /\ file' = file /\ intents' = intents /\ op' = op
      /\ todo' = todo /\ handled' = handled
      /\ known[op.from] = op.pre /\ left' = op.rewrites
      /\ known' = [known EXCEPT ![op.to] = op.pre, ![op.from] = None]
  BY DEF Commit, At, Go, opening, disk
<1>2. /\ pc \in Past /\ pc \in Uncommitted /\ pc \in InProgress /\ pc' \in InProgress
      /\ pc \notin Committed /\ pc' \in Committed
      /\ pc' \notin Uncommitted \cup Past \cup ToMove \cup Undoing
  BY <1>1 DEF Past, Uncommitted, Committed, ToMove, InProgress, Forward, Backward, Undoing
<1>3. /\ op.from \in Paths /\ op.to \in Paths /\ op.from # op.to
      /\ Intent("Active") \in intents
      /\ Is(op.to) /\ file[op.to].note = op.pre.note
      /\ known[op.from] # None /\ known[op.to] = None
  BY <1>1, <1>2, Parts DEF Operations, MoveInv, Elsewhere, LinkInv, LinkParts, OwnStays,
                           Carried, Moved
<1>4. /\ known \in [Paths -> File]
      /\ known'[op.to] = op.pre /\ known'[op.from] = None /\ op.pre # None
      /\ \A q \in Paths \ {op.from, op.to} : known'[q] = known[q]
  BY <1>1, <1>3, Parts
<1>5. Links' = Links
  BY <1>1, SameLinks
<1>6. /\ \A r : Ahead(r)' <=> Ahead(r)
      /\ \A r : LookedAt(r)' => LookedAt(r)
  BY <1>1, <1>2 DEF Ahead, LookedAt, Same
<1>7. ASSUME NEW r, NEW x, Covers(r, x) PROVE Covers(r, x)'
  BY <1>6, <1>7, CoverStays
<1>8. Covered'
  <2>1. \A x \in Links : Is(x[2]) => file'[x[2]] # None
    BY <1>1 DEF Is
  <2> QED
    BY <1>1, <1>5, <1>6, <2>1, CoveredFrame DEF LinkInv, LinkParts
<1>9. Followed'
  <2>1. ASSUME NEW k \in Cards PROVE k \in Cards'
    <3>1. PICK p \in Here(known) : k = <<known[p].note, known[p].link>>
      BY SomeCard
    <3>2. PICK q \in Paths : known'[q] = known[p]
      BY <1>1, <1>3, <1>4, <3>1 DEF Here
    <3> QED
      BY <3>1, <3>2 DEF Cards, Here
  <2>2. pc # "closed"
    BY <1>1
  <2> QED
    BY <1>1, <1>5, <1>6, <2>1, <2>2, FollowedFrame DEF LinkInv, LinkParts
<1>10. Displaced'
  <2>1. ASSUME NEW p \in Here(known'), file[p] # None
        PROVE  file[p].note = known'[p].note \/ file[p].link = None
    <3>1. CASE p = op.to
      BY <1>3, <1>4, <3>1
    <3>2. CASE p # op.to
      <4>1. p \in Paths \ {op.from, op.to} /\ p \in Here(known) /\ known'[p] = known[p]
        BY <1>4, <2>1, <3>2 DEF Here
      <4> QED
        BY <2>1, <4>1 DEF LinkInv, LinkParts, Displaced, Is
    <3> QED
      BY <3>1, <3>2
  <2> QED
    BY <1>1, <2>1 DEF Displaced, Is
<1>11. Made'
  BY <1>1, <1>2 DEF LinkInv, LinkParts, Made, MadeFor
<1>12. Rewriting'
  <2>1. ASSUME NEW w \in op.rewrites
        PROVE  w.doc \in Here(known') /\ known'[w.doc].link = op.from
    <3>1. PICK p \in Here(known) :
              known[p].link = op.from /\ w.doc = IF p = op.from THEN op.to ELSE p
      BY <1>2 DEF LinkInv, LinkParts, Planned
    <3>2. CASE p = op.from
      BY <1>1, <1>3, <1>4, <3>1, <3>2 DEF Here
    <3>3. CASE p # op.from
      BY <1>3, <1>4, <3>1, <3>3 DEF Here
    <3> QED
      BY <3>2, <3>3
  <2>2. \A v, w \in op.rewrites : v.doc = w.doc => v = w
    BY <1>2 DEF LinkInv, LinkParts, Planned
  <2>3. ASSUME NEW p \in Here(known'), known'[p].link = op.from
        PROVE  \E w \in op.rewrites : w.doc = p
    <3>1. CASE p = op.to
      <4>1. op.from \in Here(known) /\ known[op.from].link = op.from
        BY <1>1, <1>3, <1>4, <2>3, <3>1 DEF Here
      <4> QED
        BY <1>2, <3>1, <4>1 DEF LinkInv, LinkParts, Planned
    <3>2. CASE p # op.to
      <4>1. p \in Here(known) /\ known[p].link = op.from /\ p # op.from
        BY <1>4, <2>3, <3>2 DEF Here
      <4> QED
        BY <1>2, <4>1 DEF LinkInv, LinkParts, Planned
    <3> QED
      BY <3>1, <3>2
  <2>4. ASSUME NEW x \in Links, x[2] = op.from
        PROVE  \/ \E w \in op.rewrites : w.base.note = x[1]
               \/ \E r \in intents : ~Same(r, op) /\ Covers(r, x)
    BY <1>2, <1>3, <2>4, PastIs DEF LinkInv, LinkParts, Planned, NotesOf, Other
  <2>5. \A r : Same(r, op)' <=> Same(r, op)
    BY <1>1 DEF Same
  <2> QED
    BY <1>1, <1>5, <1>7, <2>1, <2>2, <2>3, <2>4, <2>5 DEF Rewriting
<1>13. Planned' /\ Replaying'
  BY <1>1, <1>2 DEF Planned, Replaying
<1>14. Carried' /\ OwnStays'
  <2>1. Intent("Active")' = Intent("Active")
    BY <1>1 DEF Intent
  <2>2. OwnStays'
    BY <1>1, <1>2, <1>3, <2>1 DEF OwnStays, Undoing
  <2>3. Carried'
    BY <1>1, <1>2, <1>3 DEF Carried, Is, Moved
  <2> QED
    BY <2>2, <2>3
<1>15. OneLook' /\ Unchanged' /\ Once' /\ HandledOK'
  BY <1>1, <1>2, OpeningGoesOn
<1> QED
  BY <1>8, <1>9, <1>10, <1>11, <1>12, <1>13, <1>14, <1>15 DEF LinkParts

-----------------------------------------------------------------------------
(* The edits.                                                              *)

\* An edit changes one link, to the path the note has moved to.
LEMMA EditedLinks ==
    ASSUME IInv, NoteOnce, NEW w, Edit(w), Lands(w),
           file' = [file EXCEPT ![w.doc] = w.result]
    PROVE  /\ w.doc \in Here(file) /\ w.doc \in Paths /\ file[w.doc] = w.base
           /\ file'[w.doc] = w.result /\ w.result # None
           /\ \A q \in Paths : (file'[q] # None <=> file[q] # None)
           /\ \A q \in Paths : q # w.doc => file'[q] = file[q]
           /\ w.result.note = w.base.note
           /\ \A x \in Links' :
                 \/ x = <<w.base.note, w.result.link>>
                 \/ x \in Links /\ x[1] # w.base.note
<1>1. file \in [Paths -> File]
  BY Parts
<1>2. /\ w.doc \in Paths /\ w.base \in Contents /\ w.result \in Contents
      /\ w.result.note = w.base.note
  BY DEF Edit, Rewrites
<1>3. w.base # None /\ w.result # None
  BY <1>2, NoneAssumption
<1>4. w.doc \in Here(file) /\ file[w.doc] = w.base
  BY <1>2, <1>3 DEF Lands, Here
<1>5. /\ file'[w.doc] = w.result
      /\ \A q \in Paths : q # w.doc => file'[q] = file[q]
  BY <1>1, <1>2
<1>6. \A q \in Paths : (file'[q] # None <=> file[q] # None)
  BY <1>3, <1>4, <1>5
<1>7. ASSUME NEW x \in Links', x # <<w.base.note, w.result.link>>
      PROVE  x \in Links /\ x[1] # w.base.note
  <2>1. PICK p \in Here(file') : file'[p].link # None /\ x = <<file'[p].note, file'[p].link>>
    BY DEF Links
  <2>2. p # w.doc /\ p \in Paths
    BY <1>2, <1>5, <1>7, <2>1 DEF Here
  <2>3. p \in Here(file) /\ file'[p] = file[p]
    BY <1>5, <2>1, <2>2 DEF Here
  <2>4. x \in Links
    BY <2>1, <2>3 DEF Links
  <2>5. file[p].note # file[w.doc].note
    BY <1>4, <2>2, <2>3 DEF NoteOnce
  <2> QED
    BY <1>4, <2>1, <2>3, <2>4, <2>5
<1> QED
  BY <1>2, <1>3, <1>4, <1>5, <1>6, <1>7

\* The index follows an edit, and has the links of the other notes still.
LEMMA EditedCards ==
    ASSUME IInv, Displaced, NEW w, Edit(w), Lands(w), w.base.link # None,
           known' = [known EXCEPT ![w.doc] = w.result]
    PROVE  /\ known'[w.doc] = w.result /\ w.doc \in Here(known')
           /\ \A q \in Paths : q # w.doc => known'[q] = known[q]
           /\ <<w.base.note, w.result.link>> \in Cards'
           /\ \A k \in Cards : k[1] # w.base.note => k \in Cards'
<1>1. known \in [Paths -> File]
  BY Parts
<1>2. /\ w.doc \in Paths /\ w.base \in Contents /\ w.result \in Contents
      /\ w.result.note = w.base.note
  BY DEF Edit, Rewrites
<1>3. w.base # None /\ w.result # None /\ file[w.doc] = w.base
  BY <1>2, NoneAssumption DEF Lands
<1>4. /\ known'[w.doc] = w.result
      /\ \A q \in Paths : q # w.doc => known'[q] = known[q]
  BY <1>1, <1>2
<1>5. w.doc \in Here(known')
  BY <1>2, <1>3, <1>4 DEF Here
<1>6. <<w.base.note, w.result.link>> \in Cards'
  BY <1>2, <1>4, <1>5 DEF Cards
<1>7. ASSUME NEW k \in Cards, k[1] # w.base.note PROVE k \in Cards'
  <2>1. PICK p \in Here(known) : k[1] = known[p].note /\ k = <<known[p].note, known[p].link>>
    BY SomeCard
  <2>2. p # w.doc
    BY <1>3, <1>7, <2>1 DEF Displaced, Is
  <2>3. p \in Here(known') /\ known'[p] = known[p]
    BY <1>4, <2>1, <2>2 DEF Here
  <2> QED
    BY <2>1, <2>3 DEF Cards
<1> QED
  BY <1>4, <1>5, <1>6, <1>7

\* What an edit that is on the disk leaves: its link leads to a file.
LEMMA EditedCovered ==
    ASSUME IInv, MoveInv, LinkInv, NEW w, Edit(w), Lands(w), w.result.link \in Paths,
           Is(w.result.link), file' = [file EXCEPT ![w.doc] = w.result], intents' = intents,
           \A r : Ahead(r)' => Ahead(r)
    PROVE  Covered'
<1>1. /\ \A q \in Paths : (file'[q] # None <=> file[q] # None)
      /\ \A x \in Links' : \/ x = <<w.base.note, w.result.link>>
                           \/ x \in Links /\ x[1] # w.base.note
  BY EditedLinks DEF MoveInv
<1>2. ASSUME NEW x \in Links', file'[x[2]] = None PROVE \E r \in intents : Covers(r, x)'
  <2>1. x \in Links
    BY <1>1, <1>2 DEF Is
  <2>2. x[2] \in Paths
    BY <2>1, LinkPaths
  <2>3. PICK r \in intents : Covers(r, x)
    BY <1>1, <1>2, <2>1, <2>2 DEF LinkInv, LinkParts, Covered, Is
  <2>4. Covers(r, x)'
    BY <2>3, CoverStays
  <2> QED
    BY <2>4
<1> QED
  BY <1>2 DEF Covered, Is

\* The index and the files both have an edit that has been made.
LEMMA EditedFollowed ==
    ASSUME IInv, MoveInv, LinkInv, NEW w, Edit(w), Lands(w), w.base.link # None, pc # "closed",
           file' = [file EXCEPT ![w.doc] = w.result],
           known' = [known EXCEPT ![w.doc] = w.result], intents' = intents,
           \A r : LookedAt(r)' => LookedAt(r)
    PROVE  Followed' /\ Displaced'
<1>1. /\ w.doc \in Paths /\ file'[w.doc] = w.result
      /\ \A q \in Paths : q # w.doc => file'[q] = file[q]
      /\ \A x \in Links' : \/ x = <<w.base.note, w.result.link>>
                           \/ x \in Links /\ x[1] # w.base.note
  BY EditedLinks DEF MoveInv
<1>2. /\ known'[w.doc] = w.result
      /\ \A q \in Paths : q # w.doc => known'[q] = known[q]
      /\ <<w.base.note, w.result.link>> \in Cards'
      /\ \A k \in Cards : k[1] # w.base.note => k \in Cards'
  BY EditedCards DEF LinkInv, LinkParts
<1>3. ASSUME NEW x \in Links' PROVE \E k \in Cards' : IsCard(k, x)'
  <2>1. CASE x = <<w.base.note, w.result.link>>
    BY <1>2, <2>1 DEF IsCard
  <2>2. CASE x \in Links /\ x[1] # w.base.note
    <3>1. PICK k \in Cards : IsCard(k, x)
      BY <2>2 DEF LinkInv, LinkParts, Followed
    <3>2. k \in Cards'
      BY <1>2, <2>2, <3>1 DEF IsCard
    <3>3. IsCard(k, x)'
      BY <3>1 DEF IsCard, Excuses
    <3> QED
      BY <3>2, <3>3
  <2> QED
    BY <1>1, <2>1, <2>2
<1>4. Followed'
  BY <1>3 DEF Followed
<1>5. Displaced'
  BY <1>1, <1>2 DEF LinkInv, LinkParts, Displaced, Here, Is
<1> QED
  BY <1>4, <1>5

\* An edit of a rename changes a link to the old path into one to the new.
LEMMA RewriteParts ==
    ASSUME IInv, MoveInv, LinkInv, NEW w \in left, Rewrite(w)
    PROVE  /\ pc = "rewrite" /\ pc' = "rewrite" /\ left' = left \ {w}
           /\ intents' = intents /\ todo' = todo /\ handled' = handled
           /\ op'.from = op.from /\ op'.to = op.to /\ op'.pre = op.pre /\ op'.why = op.why
           /\ op'.rewrites = op.rewrites
           /\ \/ /\ Lands(w) /\ Apply(w) /\ op' = op
              \/ /\ op'.failed = TRUE /\ UNCHANGED <<file, known>>
              \/ /\ op'.failed = TRUE /\ Lands(w) /\ UNCHANGED known
                 /\ file' = [file EXCEPT ![w.doc] = w.result]
           /\ Edit(w) /\ w.base.link = op.from /\ w.result.link = op.to
           /\ op.from \in Paths /\ op.to \in Paths /\ op.from # op.to /\ op.from # None
           /\ Is(op.to) /\ known[w.doc].link = op.from /\ w.doc \in Here(known)
           /\ w \in op.rewrites /\ Intent("Active") \in intents
<1>1. /\ pc = "rewrite" /\ pc' = "rewrite" /\ left' = left \ {w}
      /\ intents' = intents /\ todo' = todo /\ handled' = handled
  BY DEF Rewrite, Publish, At, opening
<1>2. pc \in InProgress /\ pc \in Committed
  BY <1>1 DEF InProgress, Committed, Forward
<1>3. op \in Operations /\ op.from \in Paths /\ op.to \in Paths /\ op.from # op.to
  BY <1>2, Parts DEF Operations, MoveInv, Elsewhere
<1>4. op' = op \/ op' = [op EXCEPT !.failed = TRUE]
  BY DEF Rewrite, Publish
<1>5. /\ op'.from = op.from /\ op'.to = op.to /\ op'.pre = op.pre /\ op'.why = op.why
      /\ op'.rewrites = op.rewrites
  BY <1>3, <1>4 DEF Operations
<1>6. [op EXCEPT !.failed = TRUE].failed = TRUE
  BY <1>3 DEF Operations
<1>7. \/ /\ Lands(w) /\ Apply(w) /\ op' = op
      \/ /\ op'.failed = TRUE /\ UNCHANGED <<file, known>>
      \/ /\ op'.failed = TRUE /\ Lands(w) /\ UNCHANGED known
         /\ file' = [file EXCEPT ![w.doc] = w.result]
  BY <1>6 DEF Rewrite, Publish
<1>8. w \in op.rewrites /\ MadeFor(op) /\ Intent("Active") \in intents /\ Is(op.to)
  BY <1>2 DEF LinkInv, LinkParts, Made, OwnStays, Carried
<1>9. w.base.link = op.from /\ w.result.link = op.to
  BY <1>8 DEF MadeFor
<1>10. known[w.doc].link = op.from /\ w.doc \in Here(known)
  BY <1>2 DEF LinkInv, LinkParts, Rewriting
<1>11. Edit(w)
  BY Parts
<1> QED
  BY <1>1, <1>3, <1>5, <1>7, <1>8, <1>9, <1>10, <1>11, NoneAssumption

\* What every edit of a rename leaves, done or not.
LEMMA RewriteRest ==
    ASSUME IInv, MoveInv, LinkInv, NEW w \in left, Rewrite(w)
    PROVE  /\ Made' /\ Planned' /\ Replaying' /\ OwnStays' /\ OneLook' /\ Unchanged' /\ Once'
           /\ HandledOK'
           /\ (Is(op.to)' => Carried')
           /\ \A r : (Ahead(r)' <=> Ahead(r)) /\ (LookedAt(r)' <=> LookedAt(r))
<1>1. /\ pc = "rewrite" /\ pc' = "rewrite" /\ left' = left \ {w}
      /\ intents' = intents /\ todo' = todo /\ handled' = handled
      /\ op'.from = op.from /\ op'.to = op.to /\ op'.pre = op.pre /\ op'.why = op.why
      /\ op'.rewrites = op.rewrites
  BY RewriteParts
<1>2. /\ pc \in InProgress /\ pc' \in InProgress /\ pc \in Committed /\ pc' \in Committed
      /\ pc' \notin Uncommitted \cup Past \cup ToMove \cup Undoing
      /\ pc \notin Past
  BY <1>1 DEF Past, Uncommitted, Committed, ToMove, InProgress, Forward, Undoing
<1>3. Made'
  BY <1>1, <1>2 DEF LinkInv, LinkParts, Made, MadeFor
<1>4. Planned' /\ Replaying'
  BY <1>1, <1>2 DEF Planned, Replaying
<1>5. OwnStays'
  <2>1. Intent("Active")' = Intent("Active")
    BY <1>1 DEF Intent
  <2> QED
    BY <1>1, <1>2, <2>1 DEF LinkInv, LinkParts, OwnStays, Undoing
<1>6. OneLook' /\ Unchanged' /\ Once' /\ HandledOK'
  BY <1>1, <1>2, OpeningGoesOn
<1>7. Is(op.to)' => Carried'
  BY <1>1, <1>2 DEF Carried, Moved
<1>8. \A r : (Ahead(r)' <=> Ahead(r)) /\ (LookedAt(r)' <=> LookedAt(r))
  BY <1>1, <1>2 DEF Ahead, LookedAt, Same
<1> QED
  BY <1>3, <1>4, <1>5, <1>6, <1>7, <1>8

\* An edit is made.
LEMMA RewriteLands ==
    ASSUME IInv, MoveInv, LinkInv, NEW w \in left, Rewrite(w), Lands(w), Apply(w), op' = op
    PROVE  LinkParts'
<1>1. /\ pc = "rewrite" /\ pc' = "rewrite" /\ left' = left \ {w} /\ intents' = intents
      /\ Edit(w) /\ w.base.link = op.from /\ w.result.link = op.to
      /\ op.from \in Paths /\ op.to \in Paths /\ op.from # op.to /\ op.from # None
      /\ Is(op.to) /\ w.doc \in Here(known)
  BY RewriteParts
<1>2. /\ file' = [file EXCEPT ![w.doc] = w.result]
      /\ known' = [known EXCEPT ![w.doc] = w.result]
  BY DEF Apply
<1>3. /\ Made' /\ Planned' /\ Replaying' /\ OwnStays' /\ OneLook' /\ Unchanged' /\ Once'
      /\ HandledOK' /\ (Is(op.to)' => Carried')
      /\ \A r : (Ahead(r)' <=> Ahead(r)) /\ (LookedAt(r)' <=> LookedAt(r))
  BY RewriteRest
<1>4. /\ \A q \in Paths : (file'[q] # None <=> file[q] # None)
      /\ \A x \in Links' : \/ x = <<w.base.note, w.result.link>>
                           \/ x \in Links /\ x[1] # w.base.note
  BY <1>1, <1>2, EditedLinks DEF MoveInv
<1>5. Carried'
  BY <1>1, <1>3, <1>4 DEF Is
<1>6. Covered'
  BY <1>1, <1>2, <1>3, EditedCovered
<1>7. Followed' /\ Displaced'
  BY <1>1, <1>2, <1>3, EditedFollowed
<1>8. Rewriting'
  <2>0. /\ known'[w.doc] = w.result /\ w.doc \in Here(known') /\ w.doc \in Paths
        /\ \A q \in Paths : q # w.doc => known'[q] = known[q]
    BY <1>1, <1>2, EditedCards DEF LinkInv, LinkParts, Here
  <2>1. pc \in Committed
    BY <1>1 DEF Committed
  <2>2. ASSUME NEW v \in left' PROVE v.doc \in Here(known') /\ known'[v.doc].link = op.from
    <3>1. v \in left /\ v.doc # w.doc
      BY <1>1, <2>1 DEF LinkInv, LinkParts, Rewriting
    <3>2. v.doc \in Here(known) /\ known[v.doc].link = op.from
      BY <2>1, <3>1 DEF LinkInv, LinkParts, Rewriting
    <3> QED
      BY <2>0, <3>1, <3>2 DEF Here
  <2>3. ASSUME ~op.failed, NEW p \in Here(known'), known'[p].link = op.from
        PROVE  \E v \in left' : v.doc = p
    <3>1. p # w.doc
      BY <1>1, <2>0, <2>3
    <3>2. p \in Here(known) /\ known[p].link = op.from
      BY <2>0, <2>3, <3>1 DEF Here
    <3>3. PICK v \in left : v.doc = p
      BY <2>1, <2>3, <3>2 DEF LinkInv, LinkParts, Rewriting
    <3> QED
      BY <1>1, <3>1, <3>3
  <2>4. ASSUME ~op.failed, NEW x \in Links', x[2] = op.from
        PROVE  \/ \E v \in left' : v.base.note = x[1]
               \/ \E r \in intents : ~Same(r, op) /\ Covers(r, x)'
    <3>1. x \in Links /\ x[1] # w.base.note
      BY <1>1, <1>4, <2>4
    <3>2. \/ \E v \in left : v.base.note = x[1]
          \/ \E r \in intents : ~Same(r, op) /\ Covers(r, x)
      BY <2>1, <2>4, <3>1 DEF LinkInv, LinkParts, Rewriting
    <3>3. \A r : Covers(r, x) => Covers(r, x)'
      BY <1>3 DEF Covers
    <3> QED
      BY <1>1, <3>1, <3>2, <3>3
  <2>5. \A v, u \in left' : v.doc = u.doc => v = u
    BY <1>1, <2>1 DEF LinkInv, LinkParts, Rewriting
  <2>6. \A r : Same(r, op)' <=> Same(r, op)
    BY DEF Same
  <2> QED
    BY <1>1, <2>2, <2>3, <2>4, <2>5, <2>6 DEF Rewriting
<1> QED
  BY <1>3, <1>5, <1>6, <1>7, <1>8 DEF LinkParts

\* An edit fails, and is not on the disk.
LEMMA RewriteFails ==
    ASSUME IInv, MoveInv, LinkInv, NEW w \in left, Rewrite(w), UNCHANGED <<file, known>>,
           op'.failed = TRUE
    PROVE  LinkParts'
<1>1. /\ pc = "rewrite" /\ pc' = "rewrite" /\ left' = left \ {w} /\ intents' = intents
      /\ op'.from = op.from /\ Is(op.to) /\ op'.to = op.to
  BY RewriteParts
<1>2. /\ Made' /\ Planned' /\ Replaying' /\ OwnStays' /\ OneLook' /\ Unchanged' /\ Once'
      /\ HandledOK' /\ (Is(op.to)' => Carried')
      /\ \A r : (Ahead(r)' <=> Ahead(r)) /\ (LookedAt(r)' <=> LookedAt(r))
  BY RewriteRest
<1>3. Covered' /\ Followed'
  <2>1. \A x \in Links : Is(x[2]) => file'[x[2]] # None
    BY DEF Is
  <2>2. pc # "closed"
    BY <1>1
  <2> QED
    BY <1>1, <1>2, <2>1, <2>2, SameLinks, CoveredFrame, FollowedFrame DEF LinkInv, LinkParts
<1>4. Displaced'
  BY DEF LinkInv, LinkParts, Displaced, Here, Is
<1>5. Carried'
  BY <1>1, <1>2 DEF Is
<1>6. Rewriting'
  BY <1>1 DEF LinkInv, LinkParts, Rewriting, Committed
<1> QED
  BY <1>2, <1>3, <1>4, <1>5, <1>6 DEF LinkParts

\* An edit fails after it is on the disk: an intent tells why the index has
\* the link to the old path, that of the rename or the one it takes back.
LEMMA RewriteHalf ==
    ASSUME IInv, MoveInv, LinkInv, NEW w \in left, Rewrite(w), Lands(w), UNCHANGED known,
           op'.failed = TRUE, file' = [file EXCEPT ![w.doc] = w.result]
    PROVE  LinkParts'
<1>1. /\ pc = "rewrite" /\ pc' = "rewrite" /\ left' = left \ {w} /\ intents' = intents
      /\ op'.from = op.from /\ op'.to = op.to /\ todo' = todo /\ handled' = handled
      /\ Edit(w) /\ w.base.link = op.from /\ w.result.link = op.to
      /\ op.from \in Paths /\ op.to \in Paths /\ op.from # op.to /\ op.from # None
      /\ Is(op.to) /\ known[w.doc].link = op.from /\ w.doc \in Here(known)
      /\ w \in op.rewrites /\ Intent("Active") \in intents
  BY RewriteParts
<1>2. /\ Made' /\ Planned' /\ Replaying' /\ OwnStays' /\ OneLook' /\ Unchanged' /\ Once'
      /\ HandledOK' /\ (Is(op.to)' => Carried')
      /\ \A r : (Ahead(r)' <=> Ahead(r)) /\ (LookedAt(r)' <=> LookedAt(r))
  BY RewriteRest
<1>3. /\ \A q \in Paths : (file'[q] # None <=> file[q] # None)
      /\ \A x \in Links' : \/ x = <<w.base.note, w.result.link>>
                           \/ x \in Links /\ x[1] # w.base.note
      /\ w.doc \in Here(file) /\ file[w.doc] = w.base /\ file'[w.doc] = w.result
      /\ \A q \in Paths : q # w.doc => file'[q] = file[q]
      /\ w.result.note = w.base.note
  BY <1>1, EditedLinks DEF MoveInv
<1>4. Carried'
  BY <1>1, <1>2, <1>3 DEF Is
<1>5. Covered'
  BY <1>1, <1>2, EditedCovered
<1>6. known[w.doc].note = w.base.note
  BY <1>1, <1>3 DEF LinkInv, LinkParts, Displaced, Here, Is
<1>7. \E r \in intents : ~LookedAt(r) /\ Excuses(r, <<w.base.note, op.to>>, op.from)
  <2> DEFINE mine == Intent("Active")
  <2>1. /\ mine.state = "Active" /\ mine.from = op.from /\ mine.to = op.to
        /\ mine.rewrites = op.rewrites /\ mine.pre = op.pre
    BY DEF Intent
  <2>2. mine \in intents
    BY <1>1
  <2> HIDE DEF mine
  <2>3. CASE \A y \in todo : ~Same(y, mine)
    <3>1. ~LookedAt(mine)
      BY <1>1, <2>3 DEF LookedAt, Past, Uncommitted, Committed
    <3>2. w.base.note \in NotesOf(mine)
      BY <1>1, <2>1 DEF NotesOf
    <3>3. Excuses(mine, <<w.base.note, op.to>>, op.from)
      BY <2>1, <3>2 DEF Excuses
    <3> QED
      BY <2>2, <3>1, <3>3
  <2>4. ASSUME NEW y \in todo, Same(y, mine)
        PROVE  \E r \in intents : ~LookedAt(r) /\ Excuses(r, <<w.base.note, op.to>>, op.from)
    <3>1. Same(y, op)
      BY <2>1, <2>4 DEF Same
    <3>2. op.why = "return"
      BY <1>1, <3>1 DEF LinkInv, LinkParts, Once, InProgress, Forward
    <3>3. OfOpening
      BY <1>1, <3>2 DEF OfOpening, InProgress, Forward
    <3>4. /\ handled \in intents /\ handled.state = "Cancelled"
          /\ op.from = handled.to /\ op.to = handled.from
      BY <3>2, <3>3 DEF LinkInv, LinkParts, HandledOK
    <3>5. \A r \in todo : ~Same(r, handled)
      BY <3>3 DEF LinkInv, LinkParts, OneLook
    <3>6. ~LookedAt(handled)
      BY <1>1, <3>5 DEF LookedAt, Past, Uncommitted, Committed
    <3>7. Excuses(handled, <<w.base.note, op.to>>, op.from)
      BY <3>4 DEF Excuses
    <3> QED
      BY <3>4, <3>6, <3>7
  <2> QED
    BY <2>3, <2>4
<1>8. Followed'
  <2>1. ASSUME NEW x \in Links' PROVE \E k \in Cards : IsCard(k, x)'
    <3>1. CASE x = <<w.base.note, w.result.link>>
      <4>1. <<w.base.note, op.from>> \in Cards
        BY <1>1, <1>6 DEF Cards
      <4>2. PICK r \in intents : ~LookedAt(r) /\ Excuses(r, <<w.base.note, op.to>>, op.from)
        BY <1>7
      <4>3. PICK k \in Cards : k = <<w.base.note, op.from>>
        BY <4>1
      <4>4. /\ k[1] = x[1] /\ k[2] = op.from /\ Excuses(r, x, k[2]) /\ ~LookedAt(r)'
            /\ r \in intents'
        BY <1>1, <1>2, <3>1, <4>2, <4>3
      <4>5. IsCard(k, x)'
        BY <4>4 DEF IsCard, Excuses
      <4> QED
        BY <4>5
    <3>2. CASE x \in Links
      <4>1. PICK k \in Cards : IsCard(k, x)
        BY <1>1, <3>2 DEF LinkInv, LinkParts, Followed
      <4>2. IsCard(k, x)'
        BY <1>1, <1>2, <4>1 DEF IsCard, Excuses
      <4> QED
        BY <4>2
    <3> QED
      BY <1>3, <3>1, <3>2
  <2>2. Cards' = Cards
    BY SameLinks
  <2> QED
    BY <2>1, <2>2 DEF Followed
<1>9. Displaced'
  <2>1. ASSUME NEW p \in Here(known), file'[p] # None
        PROVE  file'[p].note = known[p].note \/ file'[p].link = None
    <3>1. CASE p = w.doc
      BY <1>3, <1>6, <3>1
    <3>2. CASE p # w.doc
      BY <1>3, <2>1, <3>2 DEF LinkInv, LinkParts, Displaced, Is, Here
    <3> QED
      BY <3>1, <3>2
  <2> QED
    BY <2>1 DEF Displaced, Is
<1>10. Rewriting'
  BY <1>1 DEF LinkInv, LinkParts, Rewriting, Committed
<1> QED
  BY <1>2, <1>4, <1>5, <1>8, <1>9, <1>10 DEF LinkParts

\* An edit of a rename, whatever becomes of it.
LEMMA RewriteStep ==
    ASSUME IInv, MoveInv, LinkInv, NEW w \in left, Rewrite(w)
    PROVE  LinkParts'
BY RewriteParts, RewriteLands, RewriteFails, RewriteHalf

-----------------------------------------------------------------------------
(* An intent goes: what it covered leads somewhere, or others know of it.  *)

\* All edits are made.
LEMMA RewritesEndStep ==
    ASSUME IInv, MoveInv, LinkInv, RewritesEnd, pc' = "complete"
    PROVE  LinkParts'
<1>1. /\ pc = "rewrite" /\ left = {} /\ ~op.failed /\ left' = left /\ op' = op
      /\ file' = file /\ intents' = intents /\ known' = known
      /\ todo' = todo /\ handled' = handled
  BY EndsSomewhere DEF RewritesEnd, At, Go, opening, disk, Fails
<1>2. /\ pc \in InProgress /\ pc' \in InProgress /\ pc \in Committed /\ pc' \in Committed
      /\ pc' \notin Uncommitted \cup Past \cup ToMove \cup Undoing
      /\ pc \notin Past /\ pc # "closed"
  BY <1>1 DEF Past, Uncommitted, Committed, ToMove, InProgress, Forward, Undoing
<1>3. \A r : (Ahead(r)' <=> Ahead(r)) /\ (LookedAt(r)' <=> LookedAt(r))
  BY <1>1, <1>2 DEF Ahead, LookedAt, Same
<1>4. Covered' /\ Followed'
  <2>1. \A x \in Links : Is(x[2]) => file'[x[2]] # None
    BY <1>1 DEF Is
  <2> QED
    BY <1>1, <1>2, <1>3, <2>1, SameLinks, CoveredFrame, FollowedFrame DEF LinkInv, LinkParts
<1>5. Displaced'
  BY <1>1 DEF LinkInv, LinkParts, Displaced, Here, Is
<1>6. Made'
  BY <1>1, <1>2 DEF LinkInv, LinkParts, Made, MadeFor
<1>7. Planned' /\ Replaying'
  BY <1>1, <1>2 DEF Planned, Replaying
<1>8. Rewriting'
  <2>1. Links' = Links
    BY <1>1, SameLinks
  <2>2. ASSUME NEW r, NEW x, Covers(r, x) PROVE Covers(r, x)'
    BY <1>3, <2>2, CoverStays
  <2> QED
    BY <1>1, <1>2, <2>1, <2>2 DEF LinkInv, LinkParts, Rewriting, Same
<1>9. OwnStays' /\ Carried'
  <2>1. Intent("Active")' = Intent("Active")
    BY <1>1 DEF Intent
  <2>2. OwnStays'
    BY <1>1, <1>2, <2>1 DEF LinkInv, LinkParts, OwnStays, Undoing
  <2>3. Carried'
    BY <1>1, <1>2 DEF LinkInv, LinkParts, Carried, Moved, Is
  <2> QED
    BY <2>2, <2>3
<1>10. OneLook' /\ Unchanged' /\ Once' /\ HandledOK'
  BY <1>1, <1>2, OpeningGoesOn
<1> QED
  BY <1>4, <1>5, <1>6, <1>7, <1>8, <1>9, <1>10 DEF LinkParts

\* What an intent that goes covered is covered by others, or leads somewhere.
LEMMA RemovedCovered ==
    ASSUME Covered, NEW gone, file' = file, intents' = Without(gone),
           \A r : Ahead(r)' => Ahead(r),
           \A x \in Links, r \in intents :
               ~Is(x[2]) /\ Same(r, gone) /\ Covers(r, x)
                   => \E s \in intents : ~Same(s, gone) /\ Covers(s, x)
    PROVE  Covered'
<1>1. Links' = Links
  BY SameLinks
<1>2. ASSUME NEW x \in Links, ~Is(x[2]) PROVE \E r \in intents' : Covers(r, x)'
  <2>1. PICK r \in intents : Covers(r, x) /\ ~Same(r, gone)
    BY <1>2 DEF Covered
  <2>2. Covers(r, x)' /\ r \in intents'
    BY <2>1, CoverStays DEF Without
  <2> QED
    BY <2>2
<1> QED
  BY <1>1, <1>2 DEF Covered, Is

\* What an intent excused that goes is not there to be excused.
LEMMA RemovedFollowed ==
    ASSUME Followed, pc # "closed", NEW gone, file' = file, known' = known,
           intents' = Without(gone),
           \A x \in Links, k \in Cards, r \in intents :
               ~LookedAt(r) /\ Excuses(r, x, k[2])
                   => ~Same(r, gone) /\ ~LookedAt(r)'
    PROVE  Followed'
<1>1. Links' = Links /\ Cards' = Cards
  BY SameLinks
<1>2. ASSUME NEW x \in Links, NEW k \in Cards, IsCard(k, x) PROVE IsCard(k, x)'
  BY <1>2 DEF IsCard, Excuses, Without
<1> QED
  BY <1>1, <1>2 DEF Followed

\* The opening does not miss an intent that goes, but where it makes the move
\* of it back.
LEMMA RemovedOpening ==
    ASSUME IInv, LinkInv, NEW gone, intents' = Without(gone), todo' = todo, handled' = handled,
           pc' \in {"idle", "scan", "clear"}, pc' = "idle" => todo = {},
           \A r \in todo : Same(r, gone) =>
               r.state = "Active" /\ \A s \in todo : ~Opposite(s, r),
           pc' = "clear" => /\ \A r \in todo : ~Same(r, handled)
                            /\ handled \in intents /\ ~Same(handled, gone)
    PROVE  OneLook' /\ Unchanged' /\ Once' /\ HandledOK'
<1>1. pc' \notin InProgress /\ pc' \notin {"replay", "collect", "closed"}
  BY DEF InProgress, Forward, Backward
<1>2. OneLook'
  BY <1>1 DEF LinkInv, LinkParts, OneLook, Outside, OfOpening, Same
<1>3. Unchanged'
  <2>1. \A r \in todo : r.state = "Cancelled" => r \in intents'
    BY DEF LinkInv, LinkParts, Unchanged, Without
  <2>2. \A r \in todo, s \in intents' : Same(s, r) => s.rewrites = r.rewrites
    BY DEF LinkInv, LinkParts, Unchanged, Without
  <2>3. pc' = "clear" => handled \in intents' /\ \A s \in intents' : Same(s, handled) => s = handled
    BY Parts DEF Without, OneEach
  <2> QED
    BY <1>1, <2>1, <2>2, <2>3 DEF Unchanged, Same
<1>4. Once'
  <2>1. ASSUME NEW r \in todo, NEW s \in todo, Missing(r)' PROVE ~Opposite(s, r)
    <3>1. CASE Same(r, gone)
      BY <3>1
    <3>2. CASE ~Same(r, gone)
      <4>1. Missing(r)
        <5>1. ASSUME NEW t \in intents, Same(t, r) PROVE t \in intents'
          BY <3>2, <5>1 DEF Without, Same
        <5> QED
          BY <2>1, <5>1 DEF Missing, Same
      <4> QED
        BY <4>1 DEF LinkInv, LinkParts, Once
    <3> QED
      BY <3>1, <3>2
  <2> QED
    BY <1>1, <2>1 DEF Once, Opposite, OfOpening
<1>5. HandledOK'
  BY <1>1 DEF HandledOK, OfOpening
<1> QED
  BY <1>2, <1>3, <1>4, <1>5

\* What is left vacuous when the turn is with nobody's rename.
LEMMA RemovedRest ==
    ASSUME IInv, LinkInv, NEW gone, intents' = Without(gone), file' = file, known' = known,
           todo' = todo, pc' \in {"idle", "scan", "clear"}
    PROVE  Displaced' /\ Made' /\ Planned' /\ Rewriting' /\ Carried' /\ OwnStays'
<1>1. /\ pc' \notin Uncommitted \cup Committed \cup ToMove \cup Undoing \cup InProgress
      /\ pc' # "replay"
      /\ pc' \notin {"plan", "commit", "verify", "cancelAfter", "cancel", "moveBack", "drop"}
  BY DEF Uncommitted, Committed, ToMove, Undoing, InProgress, Forward, Backward
<1>2. Displaced'
  BY DEF LinkInv, LinkParts, Displaced, Here, Is
<1>3. Made'
  BY <1>1 DEF LinkInv, LinkParts, Made, MadeFor, Without
<1>4. Planned' /\ Rewriting' /\ Carried' /\ OwnStays'
  BY <1>1 DEF Planned, Rewriting, Carried, OwnStays, Moved
<1> QED
  BY <1>2, <1>3, <1>4

\* The rename is done: no link to the old path is left that it covered.
LEMMA CompleteStep ==
    ASSUME IInv, MoveInv, LinkInv, At("complete"), intents' = Without(op), Ends(op.why, TRUE),
           UNCHANGED <<file, at, known>>
    PROVE  LinkParts'
<1>1. /\ pc = "complete" /\ todo' = todo /\ handled' = handled
      /\ left' = {} /\ file' = file /\ known' = known
  BY EndsSomewhere DEF At
<1>2. /\ pc \in InProgress /\ pc \in Committed /\ pc \notin Past /\ pc # "closed"
  BY <1>1 DEF Past, Uncommitted, Committed, InProgress, Forward
<1>3. /\ op.from \in Paths /\ op.to \in Paths /\ op.from # op.to /\ op.why \in Reasons
      /\ Is(op.to) /\ Intent("Active") \in intents
      /\ ~op.failed /\ left = {}
      /\ \A p \in Here(known) : known[p].link # op.from
      /\ \A x \in Links : x[2] = op.from => \E r \in intents : ~Same(r, op) /\ Covers(r, x)
  <2>1. /\ op.from \in Paths /\ op.to \in Paths /\ op.from # op.to /\ op.why \in Reasons
        /\ Is(op.to) /\ Intent("Active") \in intents
    BY <1>2, Parts DEF Operations, MoveInv, Elsewhere, LinkInv, LinkParts, OwnStays, Carried
  <2>2. ~op.failed /\ left = {}
    BY <1>1, <1>2 DEF LinkInv, LinkParts, Rewriting
  <2> QED
    BY <1>2, <2>1, <2>2 DEF LinkInv, LinkParts, Rewriting
<1>4. /\ pc' \in {"idle", "scan", "clear"}
      /\ pc' = "idle" => op.why = "request"
      /\ pc' = "clear" => op.why = "return"
  BY <1>3 DEF Ends, Reasons
<1>5. op.why # "request" => OfOpening
  BY <1>2 DEF OfOpening
<1>6. /\ op.why = "return" => /\ handled \in Intents /\ handled \in intents
                              /\ handled.state = "Cancelled"
                              /\ op.from = handled.to /\ op.to = handled.from
                              /\ ~Same(handled, op)
                              /\ \A r \in todo : ~Same(r, handled)
      /\ op.why = "request" => todo = {}
  <2>1. op.why = "request" => todo = {}
    BY <1>2 DEF LinkInv, LinkParts, OneLook, Outside
  <2>2. op.why = "return" => /\ handled \in Intents /\ handled \in intents
                             /\ handled.state = "Cancelled"
                             /\ op.from = handled.to /\ op.to = handled.from
                             /\ \A r \in todo : ~Same(r, handled)
    BY <1>5 DEF LinkInv, LinkParts, OneLook, HandledOK
  <2> QED
    BY <1>3, <2>1, <2>2 DEF Same
<1>7. \A r \in intents : Same(r, op) => r = Intent("Active")
  <2>1. \A r : Same(r, op) => Same(r, Intent("Active"))
    BY DEF Same, Intent
  <2> QED
    BY <1>3, <2>1, Parts DEF OneEach
<1>8. Covered'
  <2>1. \A r : Ahead(r)' => Ahead(r)
    BY <1>1, <1>4 DEF Ahead
  <2>2. ASSUME NEW x \in Links, NEW r \in intents, ~Is(x[2]), Same(r, op), Covers(r, x)
        PROVE  \E s \in intents : ~Same(s, op) /\ Covers(s, x)
    <3>1. x[2] = op.from
      BY <1>3, <2>2 DEF Covers, Same
    <3> QED
      BY <1>3, <3>1
  <2> QED
    BY <1>1, <2>1, <2>2, RemovedCovered DEF LinkInv, LinkParts
<1>9. Followed'
  <2>1. ASSUME NEW x \in Links, NEW k \in Cards, NEW r \in intents,
               ~LookedAt(r), Excuses(r, x, k[2])
        PROVE  ~Same(r, op) /\ ~LookedAt(r)'
    <3>1. k[2] # op.from
      BY <1>3, SomeCard
    <3>2. ~Same(r, op)
      <4>1. Intent("Active").from = op.from /\ Intent("Active").state = "Active"
        BY DEF Intent
      <4> QED
        BY <1>7, <2>1, <3>1, <4>1 DEF Excuses
    <3>3. ~LookedAt(r)'
      <4>1. pc' = "clear" => ~Same(handled, r)
        <5>1. SUFFICES ASSUME pc' = "clear", Same(handled, r) PROVE FALSE
          OBVIOUS
        <5>2. r = handled
          BY <1>4, <1>6, <5>1, Parts DEF OneEach
        <5> QED
          BY <1>4, <1>6, <2>1, <3>1, <5>1, <5>2 DEF Excuses
      <4>2. pc' \notin Past /\ pc' # "replay"
        BY <1>4 DEF Past, Uncommitted, InProgress, Forward, Backward
      <4> QED
        BY <1>1, <2>1, <4>1, <4>2 DEF LookedAt, Same
    <3> QED
      BY <3>2, <3>3
  <2> QED
    BY <1>1, <1>2, <2>1, RemovedFollowed DEF LinkInv, LinkParts
<1>10. Replaying'
  BY <1>1, <1>3, <1>4, <1>6 DEF Replaying, Is
<1>11. OneLook' /\ Unchanged' /\ Once' /\ HandledOK'
  <2>1. ASSUME NEW r \in todo, Same(r, op)
        PROVE  r.state = "Active" /\ \A s \in todo : ~Opposite(s, r)
    <3>1. op.why = "return" /\ Opposite(handled, r) /\ r.state = "Active"
      BY <1>1, <1>2, <2>1 DEF LinkInv, LinkParts, Once
    <3>2. ASSUME NEW s \in todo, Opposite(s, r) PROVE FALSE
      BY <1>6, <3>1, <3>2 DEF Opposite, Same
    <3> QED
      BY <3>1, <3>2
  <2> QED
    BY <1>1, <1>4, <1>6, <2>1, RemovedOpening
<1>12. Displaced' /\ Made' /\ Planned' /\ Rewriting' /\ Carried' /\ OwnStays'
  BY <1>1, <1>4, RemovedRest
<1> QED
  BY <1>8, <1>9, <1>10, <1>11, <1>12 DEF LinkParts

\* The rename is undone: the links to its old path lead to the file again.
LEMMA DropStep ==
    ASSUME IInv, MoveInv, LinkInv, Drop, intents' = Without(op)
    PROVE  LinkParts'
<1>1. /\ pc = "drop" /\ todo' = todo /\ handled' = handled
      /\ left' = {} /\ file' = file /\ known' = known /\ Fails
  BY EndsSomewhere DEF At, Drop, Fails
<1>2. /\ pc \in InProgress /\ pc \in Past /\ pc \in Uncommitted /\ pc \notin Committed
      /\ pc \notin {"closed", "replay", "clear", "read", "plan", "persist"} \cup Undoing
  BY <1>1 DEF Past, Uncommitted, Committed, InProgress, Backward, Undoing
<1>3. /\ op.from \in Paths /\ op.to \in Paths /\ op.from # op.to /\ op.why \in Reasons
      /\ Is(op.from)
  BY <1>1, <1>2, Parts DEF Operations, MoveInv, Elsewhere, LinkInv, LinkParts, Carried, Moved
<1>4. /\ pc' \in {"idle", "scan"}
      /\ pc' = "idle" => op.why = "request"
  BY <1>1, <1>3 DEF Ends, Fails, Reasons
<1>5. /\ \A r : Ahead(r)' => Ahead(r)
      /\ \A r : LookedAt(r)' => LookedAt(r)
  BY <1>1, <1>4 DEF Ahead, LookedAt, Past, Uncommitted, InProgress, Forward, Backward
<1>6. Covered'
  <2>1. ASSUME NEW x \in Links, NEW r \in intents, ~Is(x[2]), Same(r, op), Covers(r, x)
        PROVE  \E s \in intents : ~Same(s, op) /\ Covers(s, x)
    <3>1. x[2] = op.to
      BY <1>3, <2>1 DEF Covers, Same
    <3> QED
      BY <1>2, <1>3, <3>1 DEF LinkInv, LinkParts, Planned, Other
  <2> QED
    BY <1>1, <1>5, <2>1, RemovedCovered DEF LinkInv, LinkParts
<1>7. Followed'
  <2>1. \A r \in intents : ~LookedAt(r) => ~Same(r, op)
    BY <1>2 DEF LookedAt, Same
  <2> QED
    BY <1>1, <1>2, <1>5, <2>1, RemovedFollowed DEF LinkInv, LinkParts
<1>8. OneLook' /\ Unchanged' /\ Once' /\ HandledOK'
  <2>1. op.why = "request" => todo = {}
    BY <1>2 DEF LinkInv, LinkParts, OneLook, Outside
  <2>2. ASSUME NEW r \in todo, Same(r, op)
        PROVE  r.state = "Active" /\ \A s \in todo : ~Opposite(s, r)
    <3>1. op.why = "return" /\ Opposite(handled, r) /\ r.state = "Active"
      BY <1>1, <1>2, <2>2 DEF LinkInv, LinkParts, Once
    <3>2. \A s \in todo : ~Same(s, handled)
      BY <1>2, <3>1 DEF LinkInv, LinkParts, OneLook, OfOpening
    <3>3. ASSUME NEW s \in todo, Opposite(s, r) PROVE FALSE
      BY <3>1, <3>2, <3>3 DEF Opposite, Same
    <3> QED
      BY <3>1, <3>3
  <2> QED
    BY <1>1, <1>4, <2>1, <2>2, RemovedOpening
<1>9. Displaced' /\ Made' /\ Planned' /\ Rewriting' /\ Carried' /\ OwnStays'
  BY <1>1, <1>4, RemovedRest
<1>10. Replaying'
  BY <1>4 DEF Replaying
<1> QED
  BY <1>6, <1>7, <1>8, <1>9, <1>10 DEF LinkParts

\* The opening is done with an intent: its file is at the path its links have.
LEMMA ClearStep ==
    ASSUME IInv, MoveInv, LinkInv, Clear, intents' = Without(handled)
    PROVE  LinkParts'
<1>1. /\ pc = "clear" /\ pc' = "scan" /\ todo' = todo /\ handled' = handled
      /\ file' = file /\ known' = known
  BY DEF At, Clear, opening
<1>2. /\ handled \in Intents /\ handled.from # handled.to
      /\ handled.state = "Cancelled" => Is(handled.from)
      /\ handled.state = "Active" =>
            /\ Is(handled.to)
            /\ \A x \in Links : x[2] = handled.from =>
                  \E r \in intents : ~Same(r, handled) /\ Covers(r, x)
      /\ handled.state = "Cancelled" => handled \in intents
      /\ \A r \in todo : ~Same(r, handled)
  BY <1>1 DEF LinkInv, LinkParts, Replaying, Unchanged, OneLook
<1>3. handled.state \in {"Active", "Cancelled"}
  BY <1>2 DEF Intents
<1>4. /\ \A r : Ahead(r)' => Ahead(r)
      /\ \A r : LookedAt(r)' => LookedAt(r)
      /\ LookedAt(handled)
  BY <1>1 DEF Ahead, LookedAt, Past, Uncommitted, InProgress, Forward, Backward, Same
<1>5. Covered'
  <2>1. ASSUME NEW x \in Links, NEW r \in intents, ~Is(x[2]), Same(r, handled), Covers(r, x)
        PROVE  \E s \in intents : ~Same(s, handled) /\ Covers(s, x)
    <3>1. CASE handled.state = "Cancelled"
      <4>1. r = handled
        BY <1>2, <2>1, <3>1, Parts DEF OneEach
      <4> QED
        BY <1>2, <2>1, <3>1, <4>1 DEF Covers
    <3>2. CASE handled.state = "Active"
      <4>1. x[2] = handled.from
        BY <1>2, <2>1, <3>2 DEF Covers, Same
      <4> QED
        BY <1>2, <3>2, <4>1
    <3> QED
      BY <1>3, <3>1, <3>2
  <2> QED
    BY <1>1, <1>4, <2>1, RemovedCovered DEF LinkInv, LinkParts
<1>6. Followed'
  <2>1. \A r \in intents : ~LookedAt(r) => ~Same(r, handled)
    BY <1>1 DEF LookedAt, Same
  <2>2. pc # "closed"
    BY <1>1
  <2> QED
    BY <1>1, <1>4, <2>1, <2>2, RemovedFollowed DEF LinkInv, LinkParts
<1>7. OneLook' /\ Unchanged' /\ Once' /\ HandledOK'
  BY <1>1, <1>2, RemovedOpening
<1>8. Displaced' /\ Made' /\ Planned' /\ Rewriting' /\ Carried' /\ OwnStays'
  BY <1>1, RemovedRest
<1>9. Replaying'
  BY <1>1 DEF Replaying
<1> QED
  BY <1>5, <1>6, <1>7, <1>8, <1>9 DEF LinkParts

-----------------------------------------------------------------------------
(* The opening: the index is read, and the edits are made again.           *)

\* What is vacuous while nobody's rename is in progress.
LEMMA NoRename ==
    ASSUME pc' \in {"idle", "scan", "replay", "clear"}
    PROVE  /\ Planned' /\ Rewriting' /\ Carried' /\ OwnStays' /\ HandledOK'
           /\ pc' \notin Uncommitted \cup Committed \cup Past
           /\ ~OfOpening' /\ pc' \notin InProgress
<1>1. /\ pc' \notin Uncommitted \cup Committed \cup ToMove \cup Undoing \cup InProgress \cup Past
      /\ pc' \notin {"plan", "commit", "verify", "cancelAfter", "cancel", "moveBack", "drop"}
  BY DEF Uncommitted, Committed, ToMove, Undoing, InProgress, Past, Forward, Backward
<1>2. ~OfOpening'
  BY <1>1 DEF OfOpening
<1> QED
  BY <1>1, <1>2 DEF Planned, Rewriting, Carried, OwnStays, Moved, HandledOK

\* With the files read the index has every link, and no intent is looked at yet.
LEMMA OpenStep ==
    ASSUME IInv, MoveInv, LinkInv, Open
    PROVE  LinkParts'
<1>1. /\ pc = "closed" /\ pc' = "scan" /\ known' = file /\ todo' = intents
      /\ file' = file /\ intents' = intents
  BY DEF Open, At, disk
<1>2. OneEach
  BY Parts
<1>3. Covered'
  <2>1. Links' = Links
    BY <1>1, SameLinks
  <2>2. ASSUME NEW x, NEW r \in intents, Covers(r, x) PROVE Covers(r, x)'
    <3>1. Ahead(r)' => r.state = "Active"
      BY <1>1, <1>2 DEF Ahead, Same, OneEach
    <3> QED
      BY <2>2, <3>1 DEF Covers
  <2> QED
    BY <1>1, <2>1, <2>2 DEF LinkInv, LinkParts, Covered, Is
<1>4. Followed'
  <2>1. ASSUME NEW x \in Links' PROVE x \in Cards'
    BY <1>1 DEF Links, Cards
  <2> QED
    BY <2>1 DEF Followed, IsCard
<1>5. Displaced'
  BY <1>1 DEF Displaced
<1>6. Planned' /\ Rewriting' /\ Carried' /\ OwnStays' /\ HandledOK' /\ ~OfOpening'
      /\ pc' \notin Uncommitted \cup Committed \cup Past /\ pc' \notin InProgress
  BY <1>1, NoRename
<1>7. Made' /\ Replaying'
  BY <1>1, <1>6 DEF LinkInv, LinkParts, Made, MadeFor, Replaying
<1>8. OneLook' /\ Unchanged' /\ Once'
  <2>1. OneLook'
    BY <1>1, <1>2, <1>6 DEF OneLook, Outside, OneEach
  <2>2. Unchanged'
    BY <1>1, <1>2 DEF Unchanged, OneEach
  <2>3. Once'
    BY <1>1, <1>6 DEF Once, Missing, Same
  <2> QED
    BY <2>1, <2>2, <2>3
<1> QED
  BY <1>3, <1>4, <1>5, <1>6, <1>7, <1>8 DEF LinkParts

\* What others have done comes into the index.
LEMMA SyncStep ==
    ASSUME IInv, MoveInv, LinkInv, Sync
    PROVE  LinkParts'
<1>1. /\ pc = "idle" /\ pc' = "idle" /\ known' = file /\ todo' = todo /\ handled' = handled
      /\ file' = file /\ intents' = intents /\ op' = op
  BY DEF Sync, At, disk, opening
<1>2. Covered'
  <2>1. \A x \in Links : Is(x[2]) => file'[x[2]] # None
    BY <1>1 DEF Is
  <2>2. \A r : Ahead(r)' => Ahead(r)
    BY <1>1 DEF Ahead
  <2> QED
    BY <1>1, <2>1, <2>2, SameLinks, CoveredFrame DEF LinkInv, LinkParts
<1>3. Followed'
  <2>1. ASSUME NEW x \in Links' PROVE x \in Cards'
    BY <1>1 DEF Links, Cards
  <2> QED
    BY <2>1 DEF Followed, IsCard
<1>4. Displaced'
  BY <1>1 DEF Displaced
<1>5. Planned' /\ Rewriting' /\ Carried' /\ OwnStays' /\ HandledOK' /\ ~OfOpening'
      /\ pc' \notin Uncommitted \cup Committed \cup Past /\ pc' \notin InProgress
  BY <1>1, NoRename
<1>6. Made' /\ Replaying'
  BY <1>1, <1>5 DEF LinkInv, LinkParts, Made, MadeFor, Replaying
<1>7. todo = {}
  BY <1>1 DEF LinkInv, LinkParts, OneLook, Outside
<1>8. OneLook' /\ Unchanged' /\ Once'
  BY <1>1, <1>5, <1>7 DEF OneLook, Unchanged, Once
<1> QED
  BY <1>2, <1>3, <1>4, <1>5, <1>6, <1>8 DEF LinkParts

\* The opening takes an intent that has nothing to undo, or edits to make.
LEMMA TakeStep ==
    ASSUME IInv, MoveInv, LinkInv, NEW r \in todo, Forget(r) \/ TakeReplay(r)
    PROVE  LinkParts'
<1>1. /\ pc = "scan" /\ todo' = todo \ {r} /\ handled' = r /\ file' = file
      /\ intents' = intents /\ known' = known
      /\ \/ pc' = "clear" /\ Position(r) = "Cancelled"
         \/ pc' = "replay" /\ Position(r) = "Destination" /\ left' = r.rewrites
  BY DEF Forget, TakeReplay, Takes, GoesOn, At, disk
<1>2. /\ r \in Intents /\ r.from \in Paths /\ r.to \in Paths /\ r.pre \in Contents
      /\ \A y \in todo' : ~Same(y, r)
  BY <1>1, Parts DEF Intents, LinkInv, LinkParts, OneLook
<1>3. /\ Position(r) = "Cancelled" => r.state = "Cancelled" /\ Is(r.from)
      /\ Position(r) = "Destination" => r.state = "Active" /\ Is(r.to) /\ ~Is(r.from)
  BY <1>2, NoneAssumption DEF Position, Is
<1>4. r.from # r.to
  BY DEF MoveInv, Elsewhere
<1>5. Planned' /\ Rewriting' /\ Carried' /\ OwnStays' /\ HandledOK' /\ ~OfOpening'
      /\ pc' \notin Uncommitted \cup Committed \cup Past /\ pc' \notin InProgress
  BY <1>1, NoRename
<1>6. /\ \A s : Ahead(s)' => Ahead(s)
      /\ \A s : LookedAt(s)' => LookedAt(s)
  BY <1>1, <1>3, <1>5 DEF Ahead, LookedAt
<1>7. Links' = Links /\ Cards' = Cards
  BY <1>1, SameLinks
<1>8. Covered' /\ Followed'
  <2>1. \A x \in Links : Is(x[2]) => file'[x[2]] # None
    BY <1>1 DEF Is
  <2>2. pc # "closed"
    BY <1>1
  <2> QED
    BY <1>1, <1>6, <1>7, <2>1, <2>2, CoveredFrame, FollowedFrame DEF LinkInv, LinkParts
<1>9. Displaced'
  BY <1>1 DEF LinkInv, LinkParts, Displaced, Here, Is
<1>10. Made'
  <2>1. MadeFor(r)
    BY DEF LinkInv, LinkParts, Made
  <2> QED
    BY <1>1, <1>5, <2>1 DEF LinkInv, LinkParts, Made, MadeFor
<1>11. Replaying'
  <2>1. CASE pc' = "clear"
    BY <1>1, <1>2, <1>3, <1>4, <2>1 DEF Replaying, Is
  <2>2. CASE pc' = "replay"
    <3>1. ASSUME NEW x \in Links, x[2] = r.from
          PROVE  \/ \E w \in r.rewrites : w.base.note = x[1]
                 \/ \E s \in intents : ~Same(s, r) /\ Covers(s, x)
      <4>1. PICK s \in intents : Covers(s, x)
        BY <1>1, <1>3, <2>2, <3>1 DEF LinkInv, LinkParts, Covered
      <4>2. CASE Same(s, r)
        <5>1. s.rewrites = r.rewrites
          BY <4>2 DEF LinkInv, LinkParts, Unchanged
        <5>2. Ahead(s)
          BY <1>1, <1>3, <2>2, <4>2 DEF Ahead, Same
        <5>3. x[1] \in NotesOf(s)
          BY <1>4, <3>1, <4>1, <4>2, <5>2 DEF Covers, Same
        <5> QED
          BY <5>1, <5>3 DEF NotesOf
      <4>3. CASE ~Same(s, r)
        BY <4>1, <4>3
      <4> QED
        BY <4>2, <4>3
    <3>2. ASSUME NEW s \in intents, NEW x, Covers(s, x) PROVE Covers(s, x)'
      BY <1>6, <3>2, CoverStays
    <3>3. r.state = "Active" /\ Is(r.to)
      BY <1>1, <1>3, <2>2
    <3>4. \A s : Same(s, handled)' <=> Same(s, r)
      BY <1>1 DEF Same
    <3> QED
      BY <1>1, <1>2, <1>4, <1>7, <2>2, <3>1, <3>2, <3>3, <3>4 DEF Replaying, Is
  <2> QED
    BY <1>1, <2>1, <2>2
<1>12. OneLook' /\ Unchanged' /\ Once'
  <2>1. OneLook'
    BY <1>1, <1>2, <1>5 DEF LinkInv, LinkParts, OneLook, Outside, OfOpening, Same
  <2>2. Unchanged'
    BY <1>1 DEF LinkInv, LinkParts, Unchanged, Same
  <2>3. Once'
    BY <1>1, <1>5 DEF LinkInv, LinkParts, Once, Missing, Opposite, Same
  <2> QED
    BY <2>1, <2>2, <2>3
<1> QED
  BY <1>5, <1>8, <1>9, <1>10, <1>11, <1>12 DEF LinkParts

\* All edits of an intent are there.
LEMMA ReplayEndsStep ==
    ASSUME IInv, MoveInv, LinkInv, ReplayEnds
    PROVE  LinkParts'
<1>1. /\ pc = "replay" /\ pc' = "clear" /\ left = {} /\ left' = {} /\ file' = file
      /\ intents' = intents /\ known' = known /\ todo' = todo /\ handled' = handled
  BY DEF ReplayEnds, GoesOn, At, disk, opening
<1>2. Planned' /\ Rewriting' /\ Carried' /\ OwnStays' /\ HandledOK' /\ ~OfOpening'
      /\ pc' \notin Uncommitted \cup Committed \cup Past /\ pc' \notin InProgress
  BY <1>1, NoRename
<1>3. /\ \A s : Ahead(s)' => Ahead(s)
      /\ \A s : LookedAt(s)' => LookedAt(s)
  BY <1>1, <1>2 DEF Ahead, LookedAt, Same
<1>4. Links' = Links
  BY <1>1, SameLinks
<1>5. Covered' /\ Followed'
  <2>1. \A x \in Links : Is(x[2]) => file'[x[2]] # None
    BY <1>1 DEF Is
  <2>2. pc # "closed"
    BY <1>1
  <2> QED
    BY <1>1, <1>3, <2>1, <2>2, SameLinks, CoveredFrame, FollowedFrame DEF LinkInv, LinkParts
<1>6. Displaced'
  BY <1>1 DEF LinkInv, LinkParts, Displaced, Here, Is
<1>7. Made'
  BY <1>1, <1>2 DEF LinkInv, LinkParts, Made, MadeFor
<1>8. Replaying'
  <2>1. ASSUME NEW s \in intents, NEW x, Covers(s, x) PROVE Covers(s, x)'
    BY <1>3, <2>1, CoverStays
  <2> QED
    BY <1>1, <1>4, <2>1 DEF LinkInv, LinkParts, Replaying, Is, Same
<1>9. OneLook'
  BY <1>1, <1>2 DEF LinkInv, LinkParts, OneLook, Outside, Same
<1>10. Unchanged'
  BY <1>1 DEF LinkInv, LinkParts, Unchanged, Replaying, Same
<1>11. Once'
  BY <1>1, <1>2 DEF LinkInv, LinkParts, Once, Missing, Opposite, Same
<1> QED
  BY <1>2, <1>5, <1>6, <1>7, <1>8, <1>9, <1>10, <1>11 DEF LinkParts

\* An edit of an intent is made again, or is there already.
LEMMA ReplayStep ==
    ASSUME IInv, MoveInv, LinkInv, NEW w \in left, Replay(w), pc' = "replay"
    PROVE  LinkParts'
<1>1. /\ pc = "replay" /\ left' = left \ {w} /\ intents' = intents
      /\ todo' = todo /\ handled' = handled
      /\ \/ file[w.doc] = w.result /\ file' = file /\ known' = known
         \/ /\ Lands(w) /\ file' = [file EXCEPT ![w.doc] = w.result]
            /\ known' = [known EXCEPT ![w.doc] = w.result]
  BY DEF Replay, Publish, Apply, At, opening
<1>2. /\ handled \in Intents /\ handled.from \in Paths /\ handled.to \in Paths
      /\ handled.from # handled.to /\ handled.state = "Active" /\ Is(handled.to)
      /\ handled.from # None /\ handled.to # None
      /\ Edit(w) /\ w.base.link = handled.from /\ w.result.link = handled.to
      /\ w.result.note = w.base.note /\ w.doc \in Paths
  <2>1. /\ handled \in Intents /\ handled.from # handled.to /\ handled.state = "Active"
        /\ Is(handled.to)
    BY <1>1 DEF LinkInv, LinkParts, Replaying
  <2>2. w.base.link = handled.from /\ w.result.link = handled.to
    BY <1>1 DEF LinkInv, LinkParts, Made, MadeFor
  <2>3. Edit(w) /\ w.result.note = w.base.note /\ w.doc \in Paths
    BY Parts DEF Edit, Rewrites
  <2> QED
    BY <2>1, <2>2, <2>3, NoneAssumption DEF Intents
<1>3. Planned' /\ Rewriting' /\ Carried' /\ OwnStays' /\ HandledOK' /\ ~OfOpening'
      /\ pc' \notin Uncommitted \cup Committed \cup Past /\ pc' \notin InProgress
  BY NoRename
<1>4. \A s : (Ahead(s)' <=> Ahead(s)) /\ (LookedAt(s)' => LookedAt(s))
  BY <1>1, <1>3 DEF Ahead, LookedAt, Same
<1>5. Made'
  BY <1>1, <1>3 DEF LinkInv, LinkParts, Made, MadeFor
<1>6. OneLook'
  BY <1>1, <1>3 DEF LinkInv, LinkParts, OneLook, Outside, Same
<1>7. Unchanged'
  BY <1>1 DEF LinkInv, LinkParts, Unchanged, Same
<1>8. Once'
  BY <1>1, <1>3 DEF LinkInv, LinkParts, Once, Missing, Opposite, Same
<1>9. \A s \in intents : \A x : Covers(s, x) => Covers(s, x)'
  <2>1. ASSUME NEW s \in intents, NEW x, Covers(s, x) PROVE Covers(s, x)'
    BY <1>4, <2>1, CoverStays
  <2> QED
    BY <2>1
<1>10. /\ Covered' /\ Followed' /\ Displaced' /\ Is(handled.to)'
       /\ \A x \in Links' : x[2] = handled.from => x \in Links /\ x[1] # w.base.note
  <2>1. CASE file[w.doc] = w.result /\ file' = file /\ known' = known
    <3>1. Links' = Links
      BY <2>1, SameLinks
    <3>2. Covered' /\ Followed'
      <4>1. \A x \in Links : Is(x[2]) => file'[x[2]] # None
        BY <2>1 DEF Is
      <4>2. pc # "closed"
        BY <1>1
      <4> QED
        BY <1>1, <1>4, <2>1, <4>1, <4>2, SameLinks, CoveredFrame, FollowedFrame
           DEF LinkInv, LinkParts
    <3>3. Displaced'
      BY <2>1 DEF LinkInv, LinkParts, Displaced, Here, Is
    <3>4. ASSUME NEW x \in Links, x[2] = handled.from PROVE x[1] # w.base.note
      <4>1. SUFFICES ASSUME x[1] = w.base.note PROVE FALSE
        OBVIOUS
      <4>2. w.doc \in Here(file) /\ file[w.doc].note = x[1] /\ file[w.doc].link = handled.to
        <5>1. w.result # None
          BY <1>2, NoneAssumption DEF Edit, Rewrites
        <5> QED
          BY <1>2, <2>1, <4>1, <5>1 DEF Here
      <4>3. x[2] = handled.to
        BY <4>2, OneLink DEF MoveInv
      <4> QED
        BY <1>2, <3>4, <4>3
    <3> QED
      BY <1>1, <1>2, <2>1, <3>1, <3>2, <3>3, <3>4 DEF Is
  <2>2. CASE /\ Lands(w) /\ file' = [file EXCEPT ![w.doc] = w.result]
             /\ known' = [known EXCEPT ![w.doc] = w.result]
    <3>1. /\ \A q \in Paths : (file'[q] # None <=> file[q] # None)
          /\ \A x \in Links' : \/ x = <<w.base.note, w.result.link>>
                               \/ x \in Links /\ x[1] # w.base.note
      BY <1>2, <2>2, EditedLinks DEF MoveInv
    <3>2. Covered'
      BY <1>1, <1>2, <1>4, <2>2, EditedCovered
    <3>3. Followed' /\ Displaced'
      <4>1. pc # "closed" /\ w.base.link # None
        BY <1>1, <1>2
      <4> QED
        BY <1>1, <1>2, <1>4, <2>2, <4>1, EditedFollowed
    <3> QED
      BY <1>1, <1>2, <3>1, <3>2, <3>3 DEF Is
  <2> QED
    BY <1>1, <2>1, <2>2
<1>11. Replaying'
  <2>1. ASSUME NEW x \in Links', x[2] = handled.from
        PROVE  \/ \E v \in left' : v.base.note = x[1]
               \/ \E r \in intents : ~Same(r, handled) /\ Covers(r, x)'
    <3>1. x \in Links /\ x[1] # w.base.note
      BY <1>10, <2>1
    <3>2. \/ \E v \in left : v.base.note = x[1]
          \/ \E r \in intents : ~Same(r, handled) /\ Covers(r, x)
      BY <1>1, <1>2, <2>1, <3>1 DEF LinkInv, LinkParts, Replaying
    <3> QED
      BY <1>1, <1>9, <3>1, <3>2
  <2>2. \A r : Same(r, handled)' <=> Same(r, handled)
    BY <1>1 DEF Same
  <2> QED
    BY <1>1, <1>2, <1>10, <2>1, <2>2 DEF Replaying
<1> QED
  BY <1>3, <1>5, <1>6, <1>7, <1>8, <1>10, <1>11 DEF LinkParts

-----------------------------------------------------------------------------
(* All the steps.                                                          *)

\* A rename fails, or ends without having changed anything.
LEMMA FailStep ==
    ASSUME IInv, MoveInv, LinkInv, Fails, pc \in InProgress,
           file' = file, intents' = intents, known' = known
    PROVE  LinkParts'
<1>1. op.why \in Reasons /\ pc # "closed"
  BY Parts DEF Operations, InProgress, Forward, Backward
<1>2. /\ todo' = todo
      /\ pc' = IF op.why = "request" THEN "idle" ELSE "scan"
  BY <1>1 DEF Fails, Ends, opening, Reasons
<1>3. op.why = "request" => todo = {}
  BY DEF LinkInv, LinkParts, OneLook, Outside
<1> QED
  BY <1>1, <1>2, <1>3, RestStep

\* The steps of a rename.
LEMMA RenamingStep ==
    ASSUME IInv, MoveInv, LinkInv, Renaming
    PROVE  LinkParts'
<1> USE DEF At, InProgress, Forward, Backward
<1>1. CASE ReadSource
  <2>1. CASE Is(op.from)
    BY <1>1, <2>1, ReadStep DEF ReadSource
  <2>2. CASE ~Is(op.from)
    BY <1>1, <2>2, FailStep DEF ReadSource, disk
  <2> QED
    BY <2>1, <2>2
<1>2. CASE PlanRewrites
  BY <1>2, PlanStep, FailStep DEF PlanRewrites, disk
<1>3. CASE Persist
  BY <1>3, PersistStep, FailStep DEF Persist, Go
<1>4. CASE MoveOrganization \/ MoveSpace \/ LandSpace \/ MoveDraft \/ Refuse
  BY <1>4, StillStep
<1>5. CASE UndoOrganization \/ UndoSpace \/ UndoLand \/ UndoDraft
  BY <1>5, StillStep
<1>6. CASE MoveFile
  BY <1>6, StillStep, MoveStep
<1>7. CASE Commit
  BY <1>7, CommitStep
<1>8. CASE \E w \in left : Rewrite(w)
  BY <1>8, RewriteStep
<1>9. CASE RewritesEnd
  BY <1>9, RewritesEndStep, FailStep DEF RewritesEnd, Go, disk
<1>10. CASE Complete
  BY <1>10, CompleteStep, FailStep DEF Complete
<1>11. CASE Verify
  BY <1>11, StillStep, FailStep DEF Verify, Go, disk
<1>12. CASE CancelMoved
  BY <1>12, MarkStep, FailStep DEF CancelMoved, MarkCancelled, Go
<1>13. CASE CancelUnmoved
  BY <1>13, MarkStep, FailStep DEF CancelUnmoved, MarkCancelled, Go
<1>14. CASE MoveBack
  BY <1>14, MoveBackStep, FailStep DEF MoveBack, Go
<1>15. CASE Drop
  BY <1>15, DropStep, FailStep DEF Drop
<1> QED
  BY <1>1, <1>2, <1>3, <1>4, <1>5, <1>6, <1>7, <1>8, <1>9, <1>10, <1>11, <1>12, <1>13, <1>14,
     <1>15 DEF Renaming

\* The steps of an opening.
LEMMA RecoveringStep ==
    ASSUME IInv, MoveInv, LinkInv, Recovering
    PROVE  LinkParts'
<1> USE DEF At, GoesOn, disk, opening
<1>1. CASE \E r \in todo : Resume(r) \/ Return(r)
  BY <1>1, RecoverStep
<1>2. CASE \E r \in todo : Forget(r) \/ TakeReplay(r)
  BY <1>2, TakeStep
<1>3. CASE \E r \in todo : Leave(r)
  BY <1>3, RestStep DEF Leave, Takes
<1>4. CASE \E w \in left : Replay(w)
  BY <1>4, ReplayStep, RestStep DEF Replay, Publish
<1>5. CASE ReplayEnds
  BY <1>5, ReplayEndsStep
<1>6. CASE Clear
  BY <1>6, ClearStep, RestStep DEF Clear
<1>7. CASE RecoveryEnds
  BY <1>7, RestStep DEF RecoveryEnds
<1>8. CASE Collect
  <2>1. todo = {}
    BY <1>8 DEF Collect, LinkInv, LinkParts, OneLook, Outside
  <2> QED
    BY <1>8, <2>1, RestStep DEF Collect
<1> QED
  BY <1>1, <1>2, <1>3, <1>4, <1>5, <1>6, <1>7, <1>8 DEF Recovering

\* Nothing happens.
LEMMA NothingStep ==
    ASSUME LinkInv, UNCHANGED vars
    PROVE  LinkParts'
<1>1. /\ file' = file /\ known' = known /\ intents' = intents /\ pc' = pc /\ op' = op
      /\ left' = left /\ todo' = todo /\ handled' = handled
  BY DEF vars
<1>2. /\ \A r : Ahead(r)' <=> Ahead(r)
      /\ \A r : LookedAt(r)' <=> LookedAt(r)
      /\ \A r : Other(r)' <=> Other(r)
      /\ \A r : Missing(r)' <=> Missing(r)
      /\ Links' = Links /\ Cards' = Cards
  BY <1>1 DEF Ahead, LookedAt, Other, Missing, Links, Cards, Same, Intent, Here
<1>3. /\ \A r, x : Covers(r, x)' <=> Covers(r, x)
      /\ \A k, x : IsCard(k, x)' <=> IsCard(k, x)
      /\ Moved' <=> Moved
      /\ OfOpening' <=> OfOpening
      /\ Outside' <=> Outside
  BY <1>1, <1>2 DEF Covers, IsCard, Excuses, Moved, OfOpening, Outside, Intent, NotesOf
<1>4. Covered' /\ Followed' /\ Displaced'
  BY <1>1, <1>2, <1>3 DEF LinkInv, LinkParts, Covered, Followed, Displaced, Here, Is
<1>5. Made' /\ Planned'
  BY <1>1, <1>2, <1>3 DEF LinkInv, LinkParts, Made, MadeFor, Planned, Here, NotesOf
<1>6. Rewriting' /\ Replaying'
  BY <1>1, <1>2, <1>3 DEF LinkInv, LinkParts, Rewriting, Replaying, Here, Is, Same
<1>7. Carried' /\ OwnStays'
  BY <1>1, <1>3 DEF LinkInv, LinkParts, Carried, OwnStays, Intent, Is
<1>8. OneLook' /\ Unchanged'
  BY <1>1, <1>3 DEF LinkInv, LinkParts, OneLook, Unchanged, Same
<1>9. Once' /\ HandledOK'
  BY <1>1, <1>2, <1>3 DEF LinkInv, LinkParts, Once, HandledOK, Same, Opposite, Is
<1> QED
  BY <1>4, <1>5, <1>6, <1>7, <1>8, <1>9 DEF LinkParts

\* What is about links is kept by every step.
LEMMA LinkInvStep ==
    ASSUME IInv, MoveInv, LinkInv, [Next]_vars
    PROVE  LinkInv'
<1>1. LinkParts'
  <2>1. CASE \E p, q \in Paths : p # q /\ Request(p, q)
    BY <2>1, RequestStep
  <2>2. CASE Renaming
    BY <2>2, RenamingStep
  <2>3. CASE Recovering
    BY <2>3, RecoveringStep
  <2>4. CASE Open
    BY <2>4, OpenStep
  <2>5. CASE Close \/ Crash
    BY <2>5, RestStep DEF Close, Crash, Stops, At, disk
  <2>6. CASE Sync
    BY <2>6, SyncStep
  <2>7. CASE \E p \in Paths : Change(p) \/ Appear(p)
    BY <2>7, OtherStep
  <2>8. CASE UNCHANGED vars
    BY <2>8, NothingStep
  <2> QED
    BY <2>1, <2>2, <2>3, <2>4, <2>5, <2>6, <2>7, <2>8 DEF Next
<1>2. TodoRecalled'
  BY TodoRecalledStep DEF MoveInv, LinkInv
<1> QED
  BY <1>1, <1>2 DEF LinkInv

\* A vault to start from in which no link leads nowhere.
NothingDangles(f) == \A p \in Here(f) : f[p].link = None \/ f[p].link \in Here(f)

LEMMA InitLinkInv ==
    ASSUME Init, NothingDangles(file)
    PROVE  LinkInv
<1>1. known = file /\ intents = {} /\ pc = "idle" /\ todo = {}
  BY DEF Init
<1>2. pc \notin Uncommitted \cup Committed \cup Past \cup InProgress \cup ToMove \cup Undoing
  BY <1>1 DEF Uncommitted, Committed, Past, InProgress, ToMove, Undoing, Forward, Backward
<1>3. Covered
  BY DEF Covered, Links, NothingDangles, Here, Is
<1>4. Followed
  BY <1>1 DEF Followed, Links, Cards, IsCard, Here
<1>5. Displaced /\ Made /\ Planned /\ Rewriting /\ Replaying
  BY <1>1, <1>2 DEF Displaced, Made, Planned, Rewriting, Replaying
<1>6. Carried /\ OwnStays
  BY <1>1, <1>2 DEF Carried, OwnStays, Moved
<1>7. OneLook /\ TodoRecalled /\ Unchanged /\ Once /\ HandledOK
  BY <1>1, <1>2 DEF OneLook, TodoRecalled, Unchanged, Once, HandledOK, OfOpening
<1> QED
  BY <1>3, <1>4, <1>5, <1>6, <1>7 DEF LinkInv, LinkParts

\* A link that leads nowhere is one some intent on the disk tells of, however
\* renames, refusals, crashes, faults, openings and changes of other programs
\* follow each other (PreparedExplicitRename::invoke, rollback and
\* recover_explicit_renames): the intent goes only when no note has the old link
\* any more, or a marked one when its file is back.  A vault that has a link to
\* nowhere to begin with has it with no intent, so it is one that has none.
THEOREM DanglingAlwaysKnown ==
    ASSUME \A f \in Starts : NothingDangles(f)
    PROVE  Spec => []DanglingIsKnown
<1>1. Init => IInv /\ MoveInv /\ LinkInv
  BY InitIInv, InitMoveInv, InitLinkInv DEF Init
<1>2. IInv /\ MoveInv /\ LinkInv /\ [Next]_vars => (IInv /\ MoveInv /\ LinkInv)'
  <2>1. IInv /\ MoveInv /\ [Next]_vars => (IInv /\ MoveInv)'
    BY StepIInv, NoteOnceStep, RememberedStep, ElsewhereStep, ReadLastStep, AnnouncedStep
       DEF MoveInv
  <2> QED
    BY <2>1, LinkInvStep
<1>3. LinkInv => DanglingIsKnown
  <2> SUFFICES ASSUME LinkInv, NEW p \in Paths, Is(p), file[p].link # None
               PROVE  \/ Is(file[p].link)
                      \/ \E r \in intents : file[p].link \in {r.from, r.to}
    BY DEF DanglingIsKnown
  <2>1. <<file[p].note, file[p].link>> \in Links
    BY DEF Links, Here, Is
  <2> QED
    BY <2>1 DEF LinkInv, LinkParts, Covered, Covers
<1> QED
  BY <1>1, <1>2, <1>3, PTL DEF Spec

-----------------------------------------------------------------------------
(* The data of a note when nobody else is in the way: no other program has  *)
(* changed a file, no call to the storage has failed.  Then the disk is     *)
(* never in a state that an opening cannot make whole, and the space is     *)
(* where its note is, or on its way along with a move an intent tells of.   *)

\* The file of a rename is where it was, or where it goes to.
Early(r) == file[r.from] = r.pre /\ ~Is(r.to)
Late(r) == file[r.to] = r.pre /\ ~Is(r.from)
NoLinkTo(q) == \A p \in Here(file) : file[p].link # q
PlanFor(from, to) ==
    {[doc |-> p, base |-> file[p], result |-> [file[p] EXCEPT !.link = to]] :
        p \in {q \in Here(file) : file[q].link = from}}

\* A link leads to another note, or to where the file of an intent has been:
\* the edit for it is still to do, or the file is to come back.
Leads(p) == file[p].link = None \/ (file[p].link # p /\ Is(file[p].link))
Bent(r, p) ==
    /\ Late(r) /\ p # r.to /\ file[p].link = r.from
    /\ r.state = "Active" => \E w \in r.rewrites : w.doc = p
Straight == \A p \in Here(file) : Leads(p) \/ \E r \in intents : Bent(r, p)

\* There is one intent, or a marked one with that of the same move made back,
\* which has nothing to edit.
Pair == \A r, s \in intents : r # s =>
            /\ Opposite(r, s)
            /\ r.state = "Active" <=> s.state = "Cancelled"
            /\ r.state = "Active" => r.rewrites = {}
ActiveOK ==
    \A r \in intents : r.state = "Active" =>
        /\ Early(r) \/ Late(r)
        /\ Early(r) => r.rewrites = PlanFor(r.from, r.to)
        /\ Late(r) => \A w \in r.rewrites : w.doc # r.to /\ file[w.doc] \in {w.base, w.result}
        /\ \A v, w \in r.rewrites : v.doc = w.doc => v = w
CancelledOK ==
    \A r \in intents : r.state = "Cancelled" => Early(r) \/ (Late(r) /\ NoLinkTo(r.to))
DiskOK == Straight /\ Pair /\ ActiveOK /\ CancelledOK

\* The steps with no intent yet, with the file where it was, with the file
\* moved, and with a marked intent and the file still to come back.
Starting == {"read", "plan", "persist"}
Readying == {"organization", "space", "land", "draft", "move"}
Standing == {"commit", "verify", "cancelAfter"}
Retreating == Undoing \cup {"moveBack"}

\* The index is what is there, but between a move and its commit.
KnownOK ==
    /\ pc \notin Standing \cup Retreating \cup {"closed"} => known = file
    /\ pc \in Standing \cup Retreating =>
          known = [file EXCEPT ![op.from] = op.pre, ![op.to] = None]

\* The rename in progress, and its own intent.
OpOK ==
    pc \in InProgress =>
        /\ pc # "cancel" /\ ~op.failed
        /\ pc \in Starting => Is(op.from) /\ ~Is(op.to) /\ op.moved = {}
        /\ pc = "read" => op.pre = None
        /\ pc \in {"plan", "persist"} => op.pre = file[op.from]
        /\ pc = "persist" => op.rewrites = PlanFor(op.from, op.to)
        /\ pc \in Readying => Intent("Active") \in intents /\ Early(op)
        /\ pc \in Standing \cup Committed => Intent("Active") \in intents /\ Late(op)
        /\ pc \in Standing => /\ op.why = "request" => NoLinkTo(op.to)
                              /\ \A w \in op.rewrites : file[w.doc] = w.base
        /\ pc \in Retreating => Intent("Cancelled") \in intents /\ Late(op)
        /\ pc = "drop" => Intent("Cancelled") \in intents /\ Early(op)
        /\ pc \in Retreating \cup {"verify", "cancelAfter", "drop"} => op.why = "request"
        /\ pc \in Committed =>
              \A w \in op.rewrites : file[w.doc] = IF w \in left THEN w.base ELSE w.result
        /\ pc = "complete" => left = {}

\* An intent there is belongs to who has the turn: a rename that was asked for,
\* or the opening, which has it before it or is at it.
Whose ==
    /\ pc \in {"idle", "collect"} => intents = {}
    /\ pc \in InProgress /\ op.why = "request" =>
          \A r \in intents : pc \notin Starting /\ Same(r, op)
    /\ pc = "scan" => intents \subseteq todo
    /\ OfOpening => /\ handled \in intents
                    /\ \A r \in intents : r \in todo \/ r = handled \/ Same(r, op)
                    /\ op.why = "resume" => handled.state = "Active"
                    /\ pc \in Starting =>
                          IF op.why = "resume" THEN Early(handled) ELSE Late(handled)
    /\ pc \in {"replay", "clear"} => \A r \in intents : r \in todo \/ r = handled
    /\ pc = "replay" =>
          /\ Late(handled)
          /\ \A w \in handled.rewrites :
                w.doc # handled.to /\ (file[w.doc] = w.result \/ (w \in left /\ file[w.doc] = w.base))
          /\ handled \in intents \/ (intents = {} /\ handled.rewrites = {})
    /\ pc = "clear" /\ handled \in intents => \A p \in Here(file) : ~Bent(handled, p)

\* What the opening has before it is there, but for the intent of a move back
\* it has just made, which comes after the marked one.
Looking ==
    /\ \A r \in todo \ intents :
          /\ r.state = "Active" /\ Late(r) /\ r.rewrites = {}
          /\ \/ pc = "scan" /\ intents = {}
             \/ pc = "clear" /\ intents \subseteq {handled}
    /\ \A r, s \in todo \ intents : r = s

\* The space is at its note, or an intent tells where it goes.
AtOwner == at["space"] \in Here(file) /\ file[at["space"]].note = Owner
Astray(r) ==
    /\ r.pre.note = Owner
    /\ \/ r.state = "Active" /\ Early(r) /\ at["space"] \in {Aside(r.from), r.to}
       \/ r.state = "Cancelled" /\ Late(r) /\ at["space"] \in {Aside(r.to), r.from}
Landed == {"idle", "collect", "replay", "clear", "undoOrganization", "undoSpace", "drop"}
              \cup Standing \cup Committed
SpaceOK ==
    /\ AtOwner \/ \E r \in intents : Astray(r)
    /\ pc \in Landed => AtOwner
    /\ pc \in Past /\ op.pre.note = Owner =>
          /\ pc \in {"organization", "space"} /\ op.why = "request" => at["space"] = op.from
          /\ pc = "land" => at["space"] = Aside(op.from)
          /\ pc \in {"draft", "move"} => at["space"] = op.to
          /\ pc \in {"draft", "move", "undoOrganization", "undoSpace"} \cup Standing
                /\ op.why = "request" => "space" \in op.moved
          /\ pc = "undoLand" => at["space"] = Aside(op.to)
          /\ pc \in {"undoDraft", "moveBack"} => at["space"] = op.from
    /\ pc \in Past /\ op.pre.note # Owner => "space" \notin op.moved /\ pc \notin {"land", "undoLand"}

Tidy == DiskOK /\ KnownOK /\ OpOK /\ Whose /\ Looking /\ SpaceOK

\* What is used of the budget.
LEMMA SpentSteps ==
    ASSUME [Next]_vars
    PROVE  \/ spent' = spent \/ Fault \/ Overtakes
           \/ \E what \in {"crashes", "refusals", "changes", "renames"} : Spend(what)
<1>1. CASE Renaming
  <2>1. ReadSource \/ PlanRewrites \/ Persist \/ MoveOrganization \/ MoveSpace \/ LandSpace
            \/ MoveDraft \/ MoveFile => spent' = spent \/ Fault
    BY DEF ReadSource, PlanRewrites, Persist, MoveOrganization, MoveSpace, LandSpace, Tracked,
           MoveDraft, MoveFile
  <2>2. Commit \/ Refuse \/ (\E w \in left : Rewrite(w)) \/ RewritesEnd \/ Complete
            => spent' = spent \/ Fault \/ Overtakes \/ Spend("refusals")
    BY DEF Commit, Refuse, Rewrite, Publish, RewritesEnd, Complete
  <2>3. Verify \/ CancelMoved \/ CancelUnmoved \/ UndoOrganization \/ UndoSpace \/ UndoLand
            \/ UndoDraft \/ MoveBack \/ Drop => spent' = spent \/ Fault
    BY DEF Verify, CancelMoved, CancelUnmoved, MarkCancelled, UndoOrganization, UndoSpace,
           UndoLand, UndoDraft, MoveBack, Drop
  <2> QED
    BY <1>1, <2>1, <2>2, <2>3 DEF Renaming
<1>2. CASE Recovering
  BY <1>2 DEF Recovering, Resume, Return, Forget, TakeReplay, Leave, Takes, Replay, Publish,
              ReplayEnds, Clear, RecoveryEnds, Collect
<1>3. CASE Open \/ Close \/ Crash \/ Sync \/ (\E p, q \in Paths : p # q /\ Request(p, q))
           \/ (\E p \in Paths : Change(p) \/ Appear(p)) \/ UNCHANGED vars
  BY <1>3 DEF Open, Close, Crash, Sync, Request, Change, Appear, vars
<1> QED
  BY <1>1, <1>2, <1>3 DEF Next

\* Nobody has been in the way before either, and nobody is in this step.
LEMMA CalmSteps ==
    ASSUME spent \in Budgets, [Next]_vars, Calm'
    PROVE  Calm /\ ~Fault /\ ~Spend("changes") /\ ~Overtakes
<1>1. /\ spent.faults \in Nat /\ spent.changes \in Nat
      /\ spent \in [crashes : Nat, faults : Nat, refusals : Nat, changes : 0..MaxChanges,
                    overtaken : Nat, renames : Nat]
  BY BoundsAssumption
<1>2. spent'.changes = 0 /\ spent'.faults = 0
  BY DEF Calm
<1>3. ~Fault /\ ~Spend("changes") /\ ~Overtakes
  <2>1. ~Fault /\ ~Spend("changes")
    BY <1>1, <1>2 DEF Fault, Spend
  <2>2. Overtakes => spent'.changes = spent.changes + 1
    BY <1>1 DEF Overtakes
  <2> QED
    BY <1>1, <1>2, <2>1, <2>2
<1>4. ASSUME NEW what \in {"crashes", "refusals", "renames"}, Spend(what) PROVE Calm
  BY <1>1, <1>2, <1>4 DEF Spend, Calm
<1>5. spent' = spent => Calm
  BY <1>2 DEF Calm
<1> QED
  BY <1>3, <1>4, <1>5, SpentSteps

\* What is said of the files and the intents only.
LEMMA DiskStays ==
    ASSUME DiskOK, file' = file, intents' = intents
    PROVE  DiskOK'
<1>1. \A r, p : Bent(r, p)' <=> Bent(r, p)
  BY DEF Bent, Late, Is
<1>2. \A p : Leads(p)' <=> Leads(p)
  BY DEF Leads, Is
<1>3. \A r : (Early(r)' <=> Early(r)) /\ (Late(r)' <=> Late(r))
  BY DEF Early, Late, Is
<1>4. \A q : NoLinkTo(q)' <=> NoLinkTo(q)
  BY DEF NoLinkTo, Here
<1>5. \A p, q : PlanFor(p, q)' = PlanFor(p, q)
  BY DEF PlanFor, Here
<1>6. Straight'
  BY <1>1, <1>2 DEF DiskOK, Straight, Here
<1>7. Pair'
  BY DEF DiskOK, Pair
<1>8. ActiveOK'
  BY <1>3, <1>5 DEF DiskOK, ActiveOK
<1>9. CancelledOK'
  BY <1>3, <1>4 DEF DiskOK, CancelledOK
<1> QED
  BY <1>6, <1>7, <1>8, <1>9 DEF DiskOK

\* A rename is at its old path or at its new one.
LEMMA NotBoth ==
    ASSUME NEW r, NEW s, r.pre # None, r.pre = s.pre,
           (r.from = s.from /\ r.to = s.to /\ Late(s)) \/ (r.from = s.to /\ r.to = s.from /\ Early(s))
    PROVE  ~Early(r)
BY DEF Early, Late, Is

\* With an intent for another note the space is at its own.
LEMMA NotOwners ==
    ASSUME Tidy, NEW x \in intents, x.pre.note # Owner
    PROVE  AtOwner
<1>1. \A r \in intents : r.pre = x.pre
  BY DEF Tidy, DiskOK, Pair, Opposite
<1> QED
  BY <1>1 DEF Tidy, SpaceOK, Astray

\* There is one path the owner of the space is at.
LEMMA OwnerPath ==
    ASSUME NoteOnce, AtOwner, NEW p \in Here(file)
    PROVE  file[p].note = Owner <=> at["space"] = p
BY DEF NoteOnce, AtOwner

\* A space that is at its note stays there while neither moves.
LEMMA OwnerStays ==
    ASSUME AtOwner, file' = file, at'["space"] = at["space"]
    PROVE  AtOwner'
BY DEF AtOwner, Here

\* A rename with an intent goes on: what is said of anything but the space.
LEMMA QuietOK ==
    ASSUME IInv, Tidy,
           file' = file, intents' = intents, known' = known, todo' = todo, handled' = handled,
           op'.from = op.from, op'.to = op.to, op'.pre = op.pre, op'.why = op.why,
           op'.rewrites = op.rewrites, op'.failed = op.failed,
           \/ pc \in Readying /\ pc' \in Readying
           \/ pc \in Standing /\ pc' \in Standing
           \/ pc \in Retreating /\ pc' \in Retreating,
           pc' \in {"verify", "cancelAfter"} => op.why = "request"
    PROVE  DiskOK' /\ KnownOK' /\ OpOK' /\ Whose' /\ Looking'
<1> USE DEF Readying, Standing, Retreating, Undoing, Starting, Committed, InProgress, Forward,
            Backward
<1>1. DiskOK'
  BY DiskStays DEF Tidy
<1>2. KnownOK'
  BY DEF Tidy, KnownOK
<1>3. /\ \A state : Intent(state)' = Intent(state)
      /\ (Early(op)' <=> Early(op)) /\ (Late(op)' <=> Late(op))
      /\ \A q : NoLinkTo(q)' <=> NoLinkTo(q)
  BY DEF Intent, Early, Late, NoLinkTo, Is, Here
<1>4. OpOK'
  <2>1. pc \in Readying /\ pc' \in Readying => OpOK'
    BY <1>3 DEF Tidy, OpOK
  <2>2. pc \in Standing /\ pc' \in Standing => OpOK'
    BY <1>3 DEF Tidy, OpOK
  <2>3. pc \in Retreating /\ pc' \in Retreating => OpOK'
    BY <1>3 DEF Tidy, OpOK
  <2> QED
    BY <2>1, <2>2, <2>3
<1>5. \A r : Same(r, op)' <=> Same(r, op)
  BY DEF Same
<1>6. (OfOpening' <=> OfOpening) /\ pc' \in InProgress /\ pc \in InProgress
  BY DEF OfOpening
<1>7. Whose'
  BY <1>5, <1>6 DEF Tidy, Whose, OfOpening
<1>8. Looking'
  BY DEF Tidy, Looking
<1> QED
  BY <1>1, <1>2, <1>4, <1>7, <1>8

-----------------------------------------------------------------------------
(* A rename begins, for somebody or for an intent, and its plan is made.    *)

\* What an opening finds of an intent.
LEMMA Positions ==
    ASSUME NEW r \in Intents
    PROVE  /\ Position(r) = "Source" => r.state = "Active" /\ Early(r)
           /\ Position(r) = "Destination" => r.state = "Active" /\ Late(r)
           /\ Position(r) = "Cancelled" => r.state = "Cancelled" /\ Early(r)
           /\ Position(r) = "Rollback" => r.state = "Cancelled" /\ Late(r)
           /\ Position(r) = "Conflict" => ~Early(r) /\ ~Late(r)
           /\ r.state \in {"Active", "Cancelled"}
BY DEF Position, Early, Late, Intents

\* An intent that still has a move before it is there, and so are the others.
LEMMA TakenIs ==
    ASSUME IInv, Tidy, pc = "scan", NEW r \in todo, r.state = "Cancelled" \/ Early(r)
    PROVE  r \in intents /\ todo \subseteq intents
<1>1. r.pre # None
  BY Parts, NoneAssumption DEF Intents
<1>2. r \in intents
  BY <1>1 DEF Tidy, Looking, Early, Late, Is
<1> QED
  BY <1>2 DEF Tidy, Looking

\* A rename is asked for.
LEMMA RequestTidy ==
    ASSUME IInv, Tidy, NEW p \in Paths, NEW q \in Paths, p # q, Request(p, q)
    PROVE  Tidy'
<1> USE DEF InProgress, Forward, Backward, Starting, Readying, Standing, Retreating, Undoing,
            Committed, Landed, Past, Uncommitted
<1>1. /\ pc = "idle" /\ pc' = "read" /\ file' = file /\ intents' = intents /\ at' = at
      /\ known' = known /\ todo' = todo /\ handled' = handled
      /\ known[p] # None /\ known[q] = None
      /\ op'.from = p /\ op'.to = q /\ op'.moved = {} /\ op'.failed = FALSE
      /\ op'.why = "request" /\ op'.pre = None
  BY DEF Request, Begin, At, disk, opening
<1>2. intents = {} /\ known = file /\ AtOwner
  BY <1>1 DEF Tidy, Whose, KnownOK, SpaceOK
<1>3. DiskOK'
  BY <1>1, DiskStays DEF Tidy
<1>4. KnownOK' /\ OpOK'
  BY <1>1, <1>2 DEF KnownOK, OpOK, Is
<1>5. Whose'
  BY <1>1, <1>2 DEF Whose, OfOpening
<1>6. Looking'
  BY <1>1 DEF Tidy, Looking
<1>7. SpaceOK'
  BY <1>1, <1>2, OwnerStays DEF SpaceOK
<1> QED
  BY <1>3, <1>4, <1>5, <1>6, <1>7 DEF Tidy

\* The opening begins the rename of an intent, or that of a marked one back.
LEMMA RecoverTidy ==
    ASSUME IInv, Tidy, NEW r \in todo, Resume(r) \/ Return(r)
    PROVE  Tidy'
<1> USE DEF InProgress, Forward, Backward, Starting, Readying, Standing, Retreating, Undoing,
            Committed, Landed, Past, Uncommitted
<1>1. /\ pc = "scan" /\ pc' = "read" /\ file' = file /\ intents' = intents /\ at' = at
      /\ known' = known /\ todo' = todo \ {r} /\ handled' = r
      /\ op'.moved = {} /\ op'.failed = FALSE /\ op'.pre = None
      /\ known[op'.from] # None /\ known[op'.to] = None
  BY DEF Resume, Return, Takes, Begin, At, disk
<1>2. \/ op'.why = "resume" /\ Position(r) = "Source"
      \/ op'.why = "return" /\ Position(r) = "Rollback"
  BY DEF Resume, Return, Begin
<1>3. r \in Intents
  BY Parts
<1>4. \/ op'.why = "resume" /\ r.state = "Active" /\ Early(r)
      \/ op'.why = "return" /\ r.state = "Cancelled" /\ Late(r)
  BY <1>2, <1>3, Positions
<1>5. r \in intents /\ todo \subseteq intents
  BY <1>1, <1>4, TakenIs
<1>6. known = file /\ intents \subseteq todo
  BY <1>1 DEF Tidy, Whose, KnownOK
<1>7. DiskOK'
  BY <1>1, DiskStays DEF Tidy
<1>8. KnownOK' /\ OpOK'
  BY <1>1, <1>6 DEF KnownOK, OpOK, Is
<1>9. Whose'
  <2>1. op'.why # "request"
    BY <1>4
  <2>2. IF op'.why = "resume" THEN Early(handled)' ELSE Late(handled)'
    BY <1>1, <1>4 DEF Early, Late, Is
  <2>3. op'.why = "resume" => handled'.state = "Active"
    BY <1>1, <1>4
  <2> QED
    BY <1>1, <1>5, <1>6, <2>1, <2>2, <2>3 DEF Whose, OfOpening
<1>10. Looking'
  BY <1>1, <1>5 DEF Looking
<1>11. SpaceOK'
  BY <1>1, OwnerStays DEF Tidy, SpaceOK, Astray, Early, Late, Is
<1> QED
  BY <1>7, <1>8, <1>9, <1>10, <1>11 DEF Tidy

\* The file is read: it is there.
LEMMA ReadTidy ==
    ASSUME IInv, Tidy, ReadSource
    PROVE  Tidy'
<1> USE DEF InProgress, Forward, Backward, Starting, Readying, Standing, Retreating, Undoing,
            Committed, Landed, Past, Uncommitted
<1>1. pc = "read" /\ Is(op.from) /\ op \in Operations
  BY Parts DEF ReadSource, At, Tidy, OpOK
<1>2. /\ pc' = "plan" /\ file' = file /\ intents' = intents /\ at' = at
      /\ known' = known /\ todo' = todo /\ handled' = handled
      /\ op' = [op EXCEPT !.pre = file[op.from]]
  BY <1>1 DEF ReadSource, disk, opening
<1>3. /\ op'.from = op.from /\ op'.to = op.to /\ op'.pre = file[op.from]
      /\ op'.moved = op.moved /\ op'.failed = op.failed /\ op'.why = op.why
  BY <1>1, <1>2 DEF Operations
<1>4. DiskOK'
  BY <1>2, DiskStays DEF Tidy
<1>5. KnownOK' /\ OpOK'
  BY <1>1, <1>2, <1>3 DEF Tidy, KnownOK, OpOK, Is
<1>6. Whose'
  <2>1. OfOpening' <=> OfOpening
    BY <1>1, <1>2, <1>3 DEF OfOpening
  <2>2. \A s \in intents : op.why = "request" => FALSE
    BY <1>1 DEF Tidy, Whose
  <2>3. OfOpening => \A s \in intents : s \in todo \/ s = handled \/ Same(s, op)'
    <3>1. ASSUME OfOpening, NEW s \in intents, Same(s, op) PROVE FALSE
      <4>1. s.pre \in Contents /\ op.pre = None
        BY <1>1, Parts DEF Intents, Tidy, OpOK
      <4> QED
        BY <3>1, <4>1, NoneAssumption DEF Same
    <3> QED
      BY <3>1 DEF Tidy, Whose
  <2> QED
    BY <1>1, <1>2, <1>3, <2>1, <2>2, <2>3 DEF Tidy, Whose, Early, Late, Is
<1>7. Looking'
  BY <1>1, <1>2 DEF Tidy, Looking
<1>8. SpaceOK'
  BY <1>1, <1>2, OwnerStays DEF Tidy, SpaceOK, Astray, Early, Late, Is
<1> QED
  BY <1>4, <1>5, <1>6, <1>7, <1>8 DEF Tidy

\* No note links to itself while it moves.
LEMMA SourceStraight ==
    ASSUME Tidy, NEW p \in Here(file)
    PROVE  file[p].link # p
BY NoneAssumption DEF Tidy, DiskOK, Straight, Leads, Bent, Late, Is, Here

\* The plan is for what is there.
LEMMA PlanTidy ==
    ASSUME IInv, Tidy, PlanRewrites
    PROVE  Tidy'
<1> USE DEF InProgress, Forward, Backward, Starting, Readying, Standing, Retreating, Undoing,
            Committed, Landed, Past, Uncommitted
<1>1. pc = "plan" /\ Is(op.from) /\ ~Is(op.to) /\ op \in Operations /\ known = file
  BY Parts DEF PlanRewrites, At, Tidy, OpOK, KnownOK
<1>2. /\ pc' = "persist" /\ file' = file /\ intents' = intents /\ at' = at
      /\ known' = known /\ todo' = todo /\ handled' = handled
      /\ op' = [op EXCEPT !.rewrites = Plan]
  BY <1>1 DEF PlanRewrites, disk, opening
<1>3. /\ op'.from = op.from /\ op'.to = op.to /\ op'.pre = op.pre /\ op'.rewrites = Plan
      /\ op'.moved = op.moved /\ op'.failed = op.failed /\ op'.why = op.why
  BY <1>1, <1>2 DEF Operations
<1>4. Plan = PlanFor(op.from, op.to)
  <2>1. op.from \in Here(file)
    BY <1>1 DEF Is, Here, Operations
  <2>2. Sources = {q \in Here(file) : file[q].link = op.from} /\ op.from \notin Sources
    BY <1>1, <2>1, SourceStraight DEF Sources, Here
  <2> QED
    BY <2>2 DEF Plan, PlanFor
<1>5. PlanFor(op.from, op.to)' = PlanFor(op.from, op.to)
  BY <1>2, <1>3 DEF PlanFor, Here
<1>6. DiskOK'
  BY <1>2, DiskStays DEF Tidy
<1>7. KnownOK' /\ OpOK'
  BY <1>1, <1>2, <1>3, <1>4, <1>5 DEF Tidy, KnownOK, OpOK, Is
<1>8. Whose'
  <2>1. \A s : Same(s, op)' <=> Same(s, op)
    BY <1>3 DEF Same
  <2>2. OfOpening' <=> OfOpening
    BY <1>1, <1>2, <1>3 DEF OfOpening
  <2> QED
    BY <1>1, <1>2, <1>3, <2>1, <2>2 DEF Tidy, Whose, Early, Late, Is
<1>9. Looking'
  BY <1>1, <1>2 DEF Tidy, Looking
<1>10. SpaceOK'
  BY <1>1, <1>2, OwnerStays DEF Tidy, SpaceOK, Astray, Early, Late, Is
<1> QED
  BY <1>6, <1>7, <1>8, <1>9, <1>10 DEF Tidy

\* An intent that is there for these paths and this file is the one to write.
LEMMA PersistIs ==
    ASSUME IInv, MoveInv, LinkInv, Tidy, pc = "persist", NEW r \in intents, Same(r, op)
    PROVE  r = Intent("Active")
<1> USE DEF InProgress, Forward, Backward, Starting
<1>1. /\ r \in Intents /\ op \in Operations /\ OneEach
      /\ op.pre \in Contents /\ op.pre # None /\ op.pre = file[op.from] /\ Is(op.from)
      /\ ~Is(op.to)
      /\ op.rewrites = PlanFor(op.from, op.to) /\ op.from # op.to
  BY Parts, NoneAssumption DEF Tidy, OpOK, MoveInv, Elsewhere
<1>2. r.from = op.from /\ r.to = op.to /\ r.pre = op.pre
  BY DEF Same
<1>3. OfOpening /\ handled \in intents /\ handled \in Intents /\ op.why \in {"resume", "return"}
  <2>1. op.why # "request"
    BY DEF Tidy, Whose
  <2>2. OfOpening
    BY <2>1 DEF OfOpening
  <2> QED
    BY <1>1, <2>1, <2>2 DEF Tidy, Whose, LinkInv, LinkParts, HandledOK, Operations, Reasons
<1>4. r.state = "Active" /\ r.rewrites = op.rewrites
  <2>1. CASE op.why = "resume"
    <3>1. /\ handled.state = "Active" /\ Early(handled)
          /\ handled.from = op.from /\ handled.to = op.to
      BY <1>3, <2>1 DEF Tidy, Whose, LinkInv, LinkParts, HandledOK
    <3>2. handled.pre = op.pre
      BY <1>1, <3>1 DEF Early
    <3>3. r = handled
      BY <1>1, <1>2, <1>3, <3>1, <3>2 DEF OneEach, Same
    <3> QED
      BY <1>1, <1>3, <3>1, <3>3 DEF Tidy, DiskOK, ActiveOK
  <2>2. CASE op.why = "return"
    <3>1. /\ handled.state = "Cancelled" /\ Late(handled)
          /\ op.from = handled.to /\ op.to = handled.from
      BY <1>3, <2>2 DEF Tidy, Whose, LinkInv, LinkParts, HandledOK
    <3>2. r.state = "Active" /\ r.rewrites = {}
      <4>1. r # handled
        BY <1>1, <1>2, <3>1
      <4>2. r.state = "Active" <=> handled.state = "Cancelled"
        BY <1>3, <4>1 DEF Tidy, DiskOK, Pair
      <4> QED
        BY <1>3, <3>1, <4>1, <4>2 DEF Tidy, DiskOK, Pair
    <3>3. NoLinkTo(op.from)
      <4>1. ~Early(handled)
        BY <1>1, <3>1 DEF Early
      <4> QED
        BY <1>3, <3>1, <4>1 DEF Tidy, DiskOK, CancelledOK
    <3>4. op.rewrites = {}
      BY <1>1, <3>3 DEF NoLinkTo, PlanFor
    <3> QED
      BY <3>2, <3>4
  <2> QED
    BY <1>3, <2>1, <2>2
<1>5. r = [from |-> r.from, to |-> r.to, pre |-> r.pre, state |-> r.state, rewrites |-> r.rewrites]
  BY <1>1 DEF Intents
<1> QED
  BY <1>2, <1>4, <1>5 DEF Intent

\* The intent that is written, and the others.
LEMMA PersistPair ==
    ASSUME IInv, MoveInv, LinkInv, Tidy, pc = "persist", NEW r \in intents, r # Intent("Active")
    PROVE  /\ r.state = "Cancelled" /\ op.rewrites = {}
           /\ r.from = op.to /\ r.to = op.from /\ r.pre = op.pre
<1> USE DEF InProgress, Forward, Backward, Starting
<1>1. /\ r \in Intents /\ op \in Operations /\ OneEach
      /\ op.pre \in Contents /\ op.pre # None /\ op.pre = file[op.from] /\ Is(op.from)
      /\ ~Is(op.to)
      /\ op.rewrites = PlanFor(op.from, op.to) /\ op.from # op.to
  BY Parts, NoneAssumption DEF Tidy, OpOK, MoveInv, Elsewhere
<1>2. ~Same(r, op)
  BY PersistIs
<1>3. OfOpening /\ handled \in intents /\ handled \in Intents /\ op.why \in {"resume", "return"}
  <2>1. op.why # "request"
    BY DEF Tidy, Whose
  <2>2. OfOpening
    BY <2>1 DEF OfOpening
  <2> QED
    BY <1>1, <2>1, <2>2 DEF Tidy, Whose, LinkInv, LinkParts, HandledOK, Operations, Reasons
<1>4. CASE op.why = "resume"
  <2>1. /\ handled.state = "Active" /\ Early(handled)
        /\ handled.from = op.from /\ handled.to = op.to
    BY <1>3, <1>4 DEF Tidy, Whose, LinkInv, LinkParts, HandledOK
  <2>2. handled.pre = op.pre
    BY <1>1, <2>1 DEF Early
  <2>3. r # handled
    BY <1>2, <2>1, <2>2 DEF Same
  <2>4. /\ Opposite(r, handled) /\ handled.rewrites = {}
        /\ handled.state = "Active" <=> r.state = "Cancelled"
    BY <1>3, <2>1, <2>3 DEF Tidy, DiskOK, Pair
  <2>5. op.rewrites = handled.rewrites
    BY <1>1, <1>3, <2>1 DEF Tidy, DiskOK, ActiveOK
  <2> QED
    BY <2>1, <2>2, <2>4, <2>5 DEF Opposite
<1>5. CASE op.why = "return"
  <2>1. /\ handled.state = "Cancelled" /\ Late(handled)
        /\ op.from = handled.to /\ op.to = handled.from
    BY <1>3, <1>5 DEF Tidy, Whose, LinkInv, LinkParts, HandledOK
  <2>2. handled.pre = op.pre
    BY <1>1, <2>1 DEF Late
  <2>3. r = handled
    BY <1>2, <1>3, <2>1, <2>2 DEF Tidy, DiskOK, Pair, Opposite, Same
  <2>4. NoLinkTo(op.from)
    <3>1. ~Early(handled)
      BY <1>1, <2>1 DEF Early
    <3> QED
      BY <1>3, <2>1, <3>1 DEF Tidy, DiskOK, CancelledOK
  <2>5. op.rewrites = {}
    BY <1>1, <2>4 DEF NoLinkTo, PlanFor
  <2> QED
    BY <1>5, <2>1, <2>2, <2>3, <2>5
<1> QED
  BY <1>3, <1>4, <1>5

\* The intent is written.
LEMMA PersistTidy ==
    ASSUME IInv, MoveInv, LinkInv, Tidy, ~Fault, Persist
    PROVE  Tidy'
<1> USE DEF InProgress, Forward, Backward, Starting, Readying, Standing, Retreating, Undoing,
            Committed, Landed, Past, Uncommitted
<1> DEFINE mine == Intent("Active")
<1>1. /\ pc = "persist" /\ op \in Operations /\ op.pre \in Contents /\ known = file
      /\ Is(op.from) /\ ~Is(op.to) /\ op.pre = file[op.from] /\ op.from # op.to
      /\ op.rewrites = PlanFor(op.from, op.to) /\ op.moved = {} /\ ~op.failed
  BY Parts DEF Persist, At, Tidy, OpOK, KnownOK, MoveInv, Elsewhere
<1>2. \A r \in intents : Same(r, mine) => r = mine
  <2>1. \A r : Same(r, mine) <=> Same(r, op)
    BY DEF Same, Intent
  <2> QED
    BY <1>1, <2>1, PersistIs
<1>3. /\ pc' = "organization" /\ intents' = intents \cup {mine}
      /\ op' = op /\ file' = file /\ at' = at /\ known' = known
      /\ todo' = todo /\ handled' = handled /\ left' = left
  BY <1>2 DEF Persist, Go, opening
<1>4. /\ mine.from = op.from /\ mine.to = op.to /\ mine.pre = op.pre
      /\ mine.state = "Active" /\ mine.rewrites = op.rewrites
  BY DEF Intent
<1>5. \A r \in intents : r = mine \/ (/\ r.state = "Cancelled" /\ mine.rewrites = {}
                                       /\ r.from = op.to /\ r.to = op.from /\ r.pre = op.pre)
  BY <1>1, <1>4, PersistPair
<1>6. Intent("Active")' = mine
  BY <1>3 DEF Intent
<1> HIDE DEF mine
<1>7. DiskOK'
  <2>1. /\ \A r, p : Bent(r, p)' <=> Bent(r, p)
        /\ \A p : Leads(p)' <=> Leads(p)
        /\ \A r : (Early(r)' <=> Early(r)) /\ (Late(r)' <=> Late(r))
        /\ \A q : NoLinkTo(q)' <=> NoLinkTo(q)
        /\ \A p, q : PlanFor(p, q)' = PlanFor(p, q)
    BY <1>3 DEF Bent, Late, Early, Leads, NoLinkTo, PlanFor, Is, Here
  <2>2. Straight'
    BY <1>3, <2>1 DEF Tidy, DiskOK, Straight, Here
  <2>3. Pair'
    <3>1. ASSUME NEW r \in intents, NEW s \in intents, r # s
          PROVE  /\ Opposite(r, s)
                 /\ r.state = "Active" <=> s.state = "Cancelled"
                 /\ r.state = "Active" => r.rewrites = {}
      BY <3>1 DEF Tidy, DiskOK, Pair
    <3>2. ASSUME NEW r \in intents, r # mine
          PROVE  /\ Opposite(r, mine) /\ Opposite(mine, r)
                 /\ r.state = "Cancelled" /\ mine.rewrites = {}
      BY <1>4, <1>5, <3>2 DEF Opposite
    <3> QED
      BY <1>3, <1>4, <3>1, <3>2 DEF Pair
  <2>4. ActiveOK'
    <3>1. /\ Early(mine) /\ ~Late(mine) /\ mine.rewrites = PlanFor(mine.from, mine.to)
          /\ \A v, w \in mine.rewrites : v.doc = w.doc => v = w
      BY <1>1, <1>4 DEF Early, Late, PlanFor, Is
    <3> QED
      BY <1>3, <2>1, <3>1 DEF Tidy, DiskOK, ActiveOK
  <2>5. CancelledOK'
    BY <1>3, <1>4, <2>1 DEF Tidy, DiskOK, CancelledOK
  <2> QED
    BY <2>2, <2>3, <2>4, <2>5 DEF DiskOK
<1>8. KnownOK' /\ OpOK'
  BY <1>1, <1>3, <1>6 DEF KnownOK, OpOK, Early, Is
<1>9. Whose'
  <2>1. /\ Same(mine, op)
        /\ \A s : Same(s, op)' <=> Same(s, op)
        /\ OfOpening' <=> OfOpening
    BY <1>1, <1>3, <1>4 DEF Same, OfOpening
  <2> QED
    BY <1>1, <1>3, <2>1 DEF Tidy, Whose, OfOpening
<1>10. Looking'
  BY <1>1, <1>3 DEF Tidy, Looking
<1>11. SpaceOK'
  <2>1. AtOwner' \/ \E r \in intents' : Astray(r)'
    BY <1>3 DEF Tidy, SpaceOK, Astray, AtOwner, Early, Late, Is, Here
  <2>2. ASSUME op.pre.note = Owner, op.why = "request" PROVE at["space"] = op.from
    <3>1. intents = {}
      BY <1>1, <2>2 DEF Tidy, Whose
    <3>2. AtOwner /\ op.from \in Here(file)
      BY <1>1, <3>1 DEF Tidy, SpaceOK, Is, Here, Operations
    <3> QED
      BY <1>1, <2>2, <3>2, OwnerPath DEF MoveInv
  <2> QED
    BY <1>1, <1>3, <2>1, <2>2 DEF SpaceOK
<1> QED
  BY <1>7, <1>8, <1>9, <1>10, <1>11 DEF Tidy

-----------------------------------------------------------------------------
(* The data go before the file, and the space with them.                   *)

\* What is known while a rename has an intent.
LEMMA UnderWay ==
    ASSUME IInv, MoveInv, Tidy, pc \in Past \cup Committed
    PROVE  /\ op \in Operations /\ op.pre \in Contents /\ op.pre # None
           /\ op.from \in Paths /\ op.to \in Paths /\ op.from # op.to
           /\ at \in [Kinds -> Places] /\ "space" \in Kinds
           /\ Intent("Active") \in intents \/ Intent("Cancelled") \in intents
           /\ op.pre.note # Owner => AtOwner
<1> USE DEF InProgress, Forward, Backward, Readying, Standing, Retreating, Undoing, Committed,
            Past, Uncommitted
<1>1. /\ op \in Operations /\ op.pre \in Contents /\ op.pre # None
      /\ op.from \in Paths /\ op.to \in Paths /\ op.from # op.to
      /\ at \in [Kinds -> Places] /\ "space" \in Kinds
  BY Parts, PlacesType, NoneAssumption DEF MoveInv, Elsewhere, IInv, InvBy, Operations
<1>2. Intent("Active") \in intents \/ Intent("Cancelled") \in intents
  BY DEF Tidy, OpOK
<1>3. op.pre.note # Owner => AtOwner
  BY <1>2, NotOwners DEF Intent
<1> QED
  BY <1>1, <1>2, <1>3

\* Where the space may be before the file moves.
LEMMA SpaceAt ==
    ASSUME IInv, MoveInv, Tidy, pc \in Readying
    PROVE  IF op.pre.note = Owner THEN at["space"] \in {op.from, Aside(op.from), op.to}
           ELSE at["space"] \notin {op.from, Aside(op.from)}
<1> USE DEF InProgress, Forward, Backward, Readying, Past, Uncommitted, Committed
<1> DEFINE mine == Intent("Active")
<1>1. /\ mine \in intents /\ Early(op) /\ op.pre \in Contents /\ op.pre # None
      /\ op.from \in Paths
      /\ op.pre.note # Owner => AtOwner
  BY UnderWay DEF Tidy, OpOK
<1>2. /\ mine.from = op.from /\ mine.to = op.to /\ mine.pre = op.pre /\ mine.state = "Active"
  BY DEF Intent
<1>3. op.from \in Here(file) /\ file[op.from] = op.pre
  BY <1>1 DEF Early, Here
<1>4. AtOwner => (op.pre.note = Owner <=> at["space"] = op.from)
  BY <1>3, OwnerPath DEF MoveInv
<1> HIDE DEF mine
<1>5. CASE op.pre.note # Owner
  <2>1. at["space"] \in Paths
    BY <1>1, <1>5 DEF AtOwner, Here
  <2> QED
    BY <1>1, <1>4, <1>5, <2>1, PlacesAssumption
<1>6. ASSUME op.pre.note = Owner, ~AtOwner
      PROVE  at["space"] \in {Aside(op.from), op.to}
  <2>1. PICK r \in intents : Astray(r)
    BY <1>6 DEF Tidy, SpaceOK
  <2>2. CASE r = mine
    BY <1>2, <2>1, <2>2 DEF Astray
  <2>3. CASE r # mine
    <3>1. Opposite(r, mine) /\ (mine.state = "Active" <=> r.state = "Cancelled")
      BY <1>1, <2>3 DEF Tidy, DiskOK, Pair
    <3> QED
      BY <1>2, <2>1, <3>1 DEF Astray, Opposite
  <2> QED
    BY <2>2, <2>3
<1> QED
  BY <1>4, <1>5, <1>6

\* The space stays where it is.
LEMMA SpaceStays ==
    ASSUME Tidy, file' = file, intents' = intents, at'["space"] = at["space"]
    PROVE  AtOwner' \/ \E r \in intents' : Astray(r)'
BY DEF Tidy, SpaceOK, Astray, AtOwner, Early, Late, Is, Here

\* The entry in the organization, the space, and the draft go.
LEMMA MoveOrganizationTidy ==
    ASSUME IInv, MoveInv, Tidy, ~Fault, MoveOrganization
    PROVE  Tidy'
<1> USE DEF Readying, Standing, Retreating, Undoing, Committed, Landed, Past, Uncommitted,
            InProgress, Forward, Backward
<1>1. /\ pc = "organization" /\ pc' = "space" /\ op' = op
      /\ file' = file /\ intents' = intents /\ known' = known
      /\ todo' = todo /\ handled' = handled
      /\ at' = at \/ at' = [at EXCEPT !["organization"] = op.to]
  BY DEF MoveOrganization, At, Go, Put, Keep, disk, opening
<1>2. at'["space"] = at["space"]
  BY <1>1, UnderWay
<1>3. DiskOK' /\ KnownOK' /\ OpOK' /\ Whose' /\ Looking'
  BY <1>1, QuietOK
<1>4. SpaceOK'
  BY <1>1, <1>2, SpaceStays DEF Tidy, SpaceOK
<1> QED
  BY <1>3, <1>4 DEF Tidy

\* The space of the note goes aside while the intent tells where the note goes.
LEMMA MoveSpaceTidy ==
    ASSUME IInv, MoveInv, Tidy, ~Fault, MoveSpace
    PROVE  Tidy'
<1> USE DEF Readying, Standing, Retreating, Undoing, Committed, Landed, Past, Uncommitted,
            InProgress, Forward, Backward
<1>1. /\ pc = "space" /\ op' = op /\ file' = file /\ intents' = intents /\ known' = known
      /\ todo' = todo /\ handled' = handled
      /\ \/ at["space"] = op.from /\ pc' = "land" /\ at' = [at EXCEPT !["space"] = Aside(op.from)]
         \/ at["space"] = Aside(op.from) /\ pc' = "land" /\ at' = at
         \/ at["space"] \notin {op.from, Aside(op.from)} /\ pc' = "draft" /\ at' = at
  BY DEF MoveSpace, At, Go, Put, Keep, disk, opening
<1>2. IF op.pre.note = Owner THEN at["space"] \in {op.from, Aside(op.from), op.to}
      ELSE at["space"] \notin {op.from, Aside(op.from)}
  BY <1>1, SpaceAt
<1>3. DiskOK' /\ KnownOK' /\ OpOK' /\ Whose' /\ Looking'
  BY <1>1, QuietOK
<1>4. /\ op.from # op.to /\ op.from \in Paths /\ op.to \in Paths
      /\ at \in [Kinds -> Places] /\ "space" \in Kinds
      /\ Intent("Active") \in intents /\ Early(op)
  BY <1>1, UnderWay DEF Tidy, OpOK
<1>5. CASE pc' = "land"
  <2>1. op.pre.note = Owner /\ at'["space"] = Aside(op.from)
    BY <1>1, <1>2, <1>4, <1>5
  <2>2. Astray(Intent("Active"))'
    BY <1>1, <1>4, <2>1 DEF Astray, Intent, Early, Is
  <2>3. \E r \in intents' : Astray(r)'
    <3>1. Intent("Active")' = Intent("Active")
      BY <1>1 DEF Intent
    <3> QED
      BY <1>1, <1>4, <2>2, <3>1
  <2> QED
    BY <1>1, <1>3, <1>5, <2>1, <2>3 DEF Tidy, SpaceOK
<1>6. CASE pc' = "draft"
  <2>1. at'["space"] = at["space"] /\ at["space"] \notin {op.from, Aside(op.from)}
    BY <1>1, <1>6
  <2>2. op.pre.note = Owner => at["space"] = op.to /\ op.why # "request"
    BY <1>1, <1>2, <2>1 DEF Tidy, SpaceOK
  <2> QED
    BY <1>1, <1>3, <1>6, <2>1, <2>2, SpaceStays DEF Tidy, SpaceOK
<1> QED
  BY <1>1, <1>5, <1>6

\* A space that was aside lands at the new place of its note.
LEMMA LandSpaceTidy ==
    ASSUME IInv, MoveInv, Tidy, ~Fault, LandSpace
    PROVE  Tidy'
<1> USE DEF Readying, Standing, Retreating, Undoing, Committed, Landed, Past, Uncommitted,
            InProgress, Forward, Backward
<1>1. /\ pc = "land" /\ pc' = "draft" /\ op' = [op EXCEPT !.moved = @ \cup {"space"}]
      /\ file' = file /\ intents' = intents /\ known' = known
      /\ todo' = todo /\ handled' = handled /\ at' = [at EXCEPT !["space"] = op.to]
  BY DEF LandSpace, At, Tracked, Put, opening
<1>2. /\ op \in Operations
      /\ at \in [Kinds -> Places] /\ "space" \in Kinds
      /\ Intent("Active") \in intents /\ Early(op) /\ op.pre.note = Owner
  BY <1>1, UnderWay DEF Tidy, OpOK, SpaceOK
<1>3. /\ op'.from = op.from /\ op'.to = op.to /\ op'.pre = op.pre /\ op'.rewrites = op.rewrites
      /\ op'.failed = op.failed /\ op'.why = op.why
      /\ "space" \in op'.moved /\ at'["space"] = op.to
  BY <1>1, <1>2 DEF Operations
<1>4. DiskOK' /\ KnownOK' /\ OpOK' /\ Whose' /\ Looking'
  BY <1>1, <1>3, QuietOK
<1>5. \E r \in intents' : Astray(r)'
  <2>1. PICK r \in intents : r = Intent("Active")
    BY <1>2
  <2>2. Astray(r)'
    BY <1>1, <1>2, <1>3, <2>1 DEF Astray, Intent, Early, Is
  <2> QED
    BY <1>1, <2>2
<1> QED
  BY <1>1, <1>2, <1>3, <1>4, <1>5 DEF Tidy, SpaceOK

\* The draft moves, which the invariant says nothing of.
LEMMA MoveDraftTidy ==
    ASSUME IInv, MoveInv, Tidy, ~Fault, MoveDraft
    PROVE  Tidy'
<1> USE DEF Readying, Standing, Retreating, Undoing, Committed, Landed, Past, Uncommitted,
            InProgress, Forward, Backward
<1>1. pc = "draft" /\ op \in Operations /\ ~op.failed
  BY Parts DEF MoveDraft, At, Tidy, OpOK
<1>2. /\ pc' = "move" /\ file' = file /\ intents' = intents /\ known' = known
      /\ todo' = todo /\ handled' = handled
      /\ op' = op \/ op' = [op EXCEPT !.moved = @ \cup {"draft"}]
      /\ at' = at \/ at' = [at EXCEPT !["draft"] = op.to]
  BY <1>1 DEF MoveDraft, Tracked, Go, Put, Keep, disk, opening
<1>3. /\ op'.from = op.from /\ op'.to = op.to /\ op'.pre = op.pre /\ op'.rewrites = op.rewrites
      /\ op'.failed = op.failed /\ op'.why = op.why
      /\ "space" \in op'.moved <=> "space" \in op.moved
  BY <1>1, <1>2 DEF Operations
<1>4. at'["space"] = at["space"]
  BY <1>1, <1>2, UnderWay
<1>5. DiskOK' /\ KnownOK' /\ OpOK' /\ Whose' /\ Looking'
  BY <1>1, <1>2, <1>3, QuietOK
<1>6. SpaceOK'
  BY <1>1, <1>2, <1>3, <1>4, SpaceStays DEF Tidy, SpaceOK
<1> QED
  BY <1>5, <1>6 DEF Tidy

-----------------------------------------------------------------------------
(* The file goes, and the workspace takes the rename in or refuses it.     *)

\* The other intent beside one that is to be made.
LEMMA OtherIntent ==
    ASSUME IInv, Tidy, NEW x \in intents, x.state = "Active", NEW r \in intents, r # x
    PROVE  /\ r.state = "Cancelled" /\ x.rewrites = {}
           /\ r.from = x.to /\ r.to = x.from /\ r.pre = x.pre
<1>1. Opposite(r, x) /\ Opposite(x, r) /\ (x.state = "Active" <=> r.state = "Cancelled")
      /\ x.rewrites = {}
  BY DEF Tidy, DiskOK, Pair
<1> QED
  BY <1>1 DEF Opposite

\* A plan is for the notes whose link leads to the old path.
LEMMA PlanForIs ==
    ASSUME NEW from, NEW to
    PROVE  /\ \A w \in PlanFor(from, to) :
                 w.doc \in Here(file) /\ file[w.doc].link = from /\ w.base = file[w.doc]
           /\ \A p \in Here(file) : file[p].link = from => \E w \in PlanFor(from, to) : w.doc = p
           /\ \A v, w \in PlanFor(from, to) : v.doc = w.doc => v = w
<1>1. ASSUME NEW p \in Here(file), file[p].link = from
      PROVE  \E w \in PlanFor(from, to) : w.doc = p
  <2> DEFINE w == [doc |-> p, base |-> file[p], result |-> [file[p] EXCEPT !.link = to]]
  <2>1. w \in PlanFor(from, to) /\ w.doc = p
    BY <1>1 DEF PlanFor
  <2> QED
    BY <2>1
<1>2. \A w \in PlanFor(from, to) :
          /\ w.doc \in Here(file) /\ file[w.doc].link = from /\ w.base = file[w.doc]
          /\ w = [doc |-> w.doc, base |-> file[w.doc],
                  result |-> [file[w.doc] EXCEPT !.link = to]]
  BY DEF PlanFor
<1> QED
  BY <1>1, <1>2

\* What moves in the files when the one of an intent does.
LEMMA MoveDisk ==
    ASSUME IInv, MoveInv, Tidy, NEW x \in intents, x.state = "Active", Early(x),
           x.from # x.to, x.pre # None,
           Moves(x.from, x.to), intents' = intents
    PROVE  /\ DiskOK' /\ Late(x)'
           /\ \A w \in x.rewrites : file'[w.doc] = w.base
           /\ (\A r \in intents : r = x) => NoLinkTo(x.to)'
           /\ \A q \in Here(file') : q = x.to \/ (q \in Here(file) /\ q # x.from /\ file'[q] = file[q])
           /\ \A q \in Here(file) : q = x.from \/ (q \in Here(file') /\ q # x.to /\ file'[q] = file[q])
<1>1. /\ x \in Intents /\ x.from \in Paths /\ x.to \in Paths /\ x.pre \in Contents
      /\ file \in [Paths -> File]
      /\ \A p \in Here(file) : p \in Paths /\ Is(p) /\ file[p] \in Contents
  BY Parts DEF Intents
<1>2. /\ file[x.from] = x.pre /\ file[x.to] = None /\ x.from \in Here(file)
      /\ file'[x.from] = None /\ file'[x.to] = x.pre
      /\ \A q \in Paths \ {x.from, x.to} : file'[q] = file[q]
  BY <1>1, MovedLinks DEF Early, Is, Here
<1>3. /\ \A q \in Here(file') : q = x.to \/ (q \in Here(file) /\ q # x.from /\ file'[q] = file[q])
      /\ \A q \in Here(file) : q = x.from \/ (q \in Here(file') /\ q # x.to /\ file'[q] = file[q])
      /\ x.to \in Here(file')
  BY <1>1, <1>2 DEF Here
<1>4. /\ x.rewrites = PlanFor(x.from, x.to) /\ ~Late(x)
      /\ \A v, w \in x.rewrites : v.doc = w.doc => v = w
  BY <1>2 DEF Tidy, DiskOK, ActiveOK, Late, Is
<1>5. \A r \in intents : r # x => /\ r.state = "Cancelled" /\ x.rewrites = {}
                                  /\ r.from = x.to /\ r.to = x.from /\ r.pre = x.pre
  BY OtherIntent
<1>6. /\ Late(x)' /\ ~Early(x)'
  BY <1>2 DEF Late, Early, Is
<1>7. \A r \in intents : r # x => Early(r)'
  BY <1>2, <1>5 DEF Early, Is
<1>8. x.pre.link = None \/ (x.pre.link \in Here(file') \ {x.from, x.to})
  <2>1. \A r \in intents : ~Bent(r, x.from)
    BY <1>4, <1>5 DEF Bent
  <2>2. Leads(x.from)
    BY <1>2, <2>1 DEF Tidy, DiskOK, Straight
  <2>3. x.pre.link \in Paths \cup {None}
    BY <1>1 DEF Contents
  <2> QED
    BY <1>2, <1>3, <2>2, <2>3 DEF Leads, Is, Here
<1>9. ASSUME NEW p \in Here(file), p # x.from, p # x.to
      PROVE  \/ file[p].link = x.from
             \/ file[p].link = None \/ (file[p].link # p /\ file[p].link \in Here(file') \ {x.to})
             \/ file[p].link = x.to /\ \E r \in intents : r # x
  <2>1. file[p].link \in Paths \cup {None}
    BY <1>1 DEF Contents
  <2>2. CASE Leads(p)
    BY <1>2, <1>3, <2>1, <2>2 DEF Leads, Is, Here
  <2>3. ASSUME NEW r \in intents, Bent(r, p)
        PROVE  r # x /\ file[p].link = x.to
    BY <1>4, <1>5, <2>3 DEF Bent
  <2> QED
    BY <2>2, <2>3 DEF Tidy, DiskOK, Straight
<1>10. Straight'
  <2> SUFFICES ASSUME NEW p \in Here(file')
               PROVE  Leads(p)' \/ \E r \in intents' : Bent(r, p)'
    BY DEF Straight
  <2>1. CASE p = x.to
    BY <1>2, <1>8, <2>1 DEF Leads, Is, Here
  <2>2. CASE p # x.to
    <3>1. p \in Here(file) /\ p # x.from /\ file'[p] = file[p]
      BY <1>3, <2>2
    <3>2. CASE file[p].link = x.from
      <4>1. \E w \in x.rewrites : w.doc = p
        BY <1>4, <3>1, <3>2, PlanForIs
      <4>2. Bent(x, p)'
        BY <1>6, <2>2, <3>1, <3>2, <4>1 DEF Bent
      <4> QED
        BY <4>2
    <3>3. CASE file[p].link # x.from
      BY <1>3, <1>9, <2>2, <3>1, <3>3 DEF Leads, Is, Here
    <3> QED
      BY <3>2, <3>3
  <2> QED
    BY <2>1, <2>2
<1>11. Pair'
  BY DEF Tidy, DiskOK, Pair
<1>12. \A w \in x.rewrites : w.doc # x.to /\ file'[w.doc] = w.base
  BY <1>1, <1>2, <1>3, <1>4, <1>8, PlanForIs, NoneAssumption DEF Here
<1>13. ActiveOK'
  BY <1>4, <1>5, <1>6, <1>12 DEF ActiveOK
<1>14. CancelledOK'
  BY <1>5, <1>7 DEF CancelledOK
<1>15. ASSUME \A r \in intents : r = x, NEW p \in Here(file')
       PROVE  file'[p].link # x.to
  <2>1. CASE p = x.to
    <3>1. x.to # None
      BY <1>1, NoneAssumption
    <3> QED
      BY <1>2, <1>8, <2>1, <3>1
  <2>2. CASE p # x.to
    <3>1. x.to # None
      BY <1>1, NoneAssumption
    <3> QED
      BY <1>3, <1>9, <1>15, <2>2, <3>1
  <2> QED
    BY <2>1, <2>2
<1> QED
  BY <1>3, <1>6, <1>10, <1>11, <1>12, <1>13, <1>14, <1>15 DEF DiskOK, NoLinkTo

\* With the file moved the intent is a late one, its links still to be edited.
LEMMA MoveFileTidy ==
    ASSUME IInv, MoveInv, Tidy, ~Fault, MoveFile
    PROVE  Tidy'
<1> USE DEF Readying, Standing, Retreating, Undoing, Committed, Landed, Past, Uncommitted,
            InProgress, Forward, Backward, Starting
<1> DEFINE mine == Intent("Active")
<1>1. /\ pc = "move" /\ Early(op) /\ mine \in intents /\ ~op.failed /\ known = file
      /\ op.from \in Paths /\ op.to \in Paths /\ op.from # op.to
      /\ op.pre \in Contents /\ op.pre # None
      /\ op.pre.note # Owner => AtOwner
  BY UnderWay DEF MoveFile, At, Tidy, OpOK, KnownOK
<1>2. /\ pc' = "commit" /\ Moves(op.from, op.to) /\ intents' = intents /\ op' = op
      /\ known' = known /\ todo' = todo /\ handled' = handled /\ at' = at
  BY <1>1 DEF MoveFile, Go, opening, Early, Is
<1>3. /\ mine.from = op.from /\ mine.to = op.to /\ mine.pre = op.pre /\ mine.state = "Active"
      /\ mine.rewrites = op.rewrites /\ Early(mine) /\ mine' = mine
  BY <1>1, <1>2 DEF Intent, Early
<1> HIDE DEF mine
<1>4. /\ DiskOK' /\ Late(mine)'
      /\ \A w \in mine.rewrites : file'[w.doc] = w.base
      /\ (\A r \in intents : r = mine) => NoLinkTo(mine.to)'
      /\ \A q \in Here(file) : q = op.from \/ (q \in Here(file') /\ q # op.to /\ file'[q] = file[q])
  BY <1>1, <1>2, <1>3, MoveDisk
<1>5. Late(op)' /\ file'[op.to] = op.pre /\ file'[op.from] = None
  BY <1>2, <1>3, <1>4 DEF Late, Is
<1>6. KnownOK'
  <2>1. /\ file \in [Paths -> File]
        /\ file' = [file EXCEPT ![op.to] = file[op.from], ![op.from] = None]
    BY <1>2, Parts DEF Moves
  <2>2. file[op.from] = op.pre /\ file[op.to] = None
    BY <1>1 DEF Early, Is
  <2>3. file = [file' EXCEPT ![op.from] = op.pre, ![op.to] = None]
    BY <1>1, <2>1, <2>2
  <2> QED
    BY <1>1, <1>2, <2>3 DEF KnownOK
<1>7. OpOK'
  <2>1. op.why = "request" => NoLinkTo(op.to)'
    <3>1. op.why = "request" => \A r \in intents : r = mine
      <4>1. op.why = "request" => \A r \in intents : Same(r, mine)
        BY <1>1, <1>3 DEF Tidy, Whose, Same
      <4> QED
        BY <1>1, <4>1, Parts DEF OneEach
    <3> QED
      BY <1>2, <1>3, <1>4, <3>1 DEF NoLinkTo
  <2>2. Intent("Active")' \in intents'
    BY <1>1, <1>2, <1>3 DEF mine
  <2> QED
    BY <1>1, <1>2, <1>3, <1>4, <1>5, <2>1, <2>2 DEF OpOK, NoLinkTo
<1>8. Whose'
  <2>1. \A s : Same(s, op)' <=> Same(s, op)
    BY <1>2 DEF Same
  <2>2. OfOpening' <=> OfOpening
    BY <1>1, <1>2 DEF OfOpening
  <2> QED
    BY <1>1, <1>2, <2>1, <2>2 DEF Tidy, Whose
<1>9. Looking'
  BY <1>1, <1>2 DEF Tidy, Looking
<1>10. AtOwner'
  <2>1. CASE op.pre.note = Owner
    <3>1. at["space"] = op.to
      BY <1>1, <2>1 DEF Tidy, SpaceOK
    <3> QED
      BY <1>1, <1>2, <1>5, <2>1, <3>1 DEF AtOwner, Here
  <2>2. CASE op.pre.note # Owner
    <3>1. AtOwner /\ op.from \in Here(file) /\ file[op.from] = op.pre
      BY <1>1, <2>2 DEF Early, Here
    <3>2. at["space"] # op.from
      BY <2>2, <3>1, OwnerPath DEF MoveInv
    <3> QED
      BY <1>2, <1>4, <3>1, <3>2 DEF AtOwner
  <2> QED
    BY <2>1, <2>2
<1>11. SpaceOK'
  BY <1>1, <1>2, <1>10 DEF Tidy, SpaceOK
<1> QED
  BY <1>4, <1>6, <1>7, <1>8, <1>9, <1>11 DEF Tidy

\* The index follows.
LEMMA CommitTidy ==
    ASSUME IInv, MoveInv, Tidy, Commit
    PROVE  Tidy'
<1> USE DEF Readying, Standing, Retreating, Undoing, Committed, Landed, Past, Uncommitted,
            InProgress, Forward, Backward, Starting
<1>1. /\ pc = "commit" /\ Late(op) /\ Intent("Active") \in intents /\ ~op.failed
      /\ op.from \in Paths /\ op.to \in Paths /\ op.from # op.to
      /\ known = [file EXCEPT ![op.from] = op.pre, ![op.to] = None]
      /\ \A w \in op.rewrites : file[w.doc] = w.base
      /\ file \in [Paths -> File]
  BY Parts, UnderWay DEF Commit, At, Tidy, OpOK, KnownOK
<1>2. /\ pc' = "rewrite" /\ file' = file /\ intents' = intents /\ op' = op /\ at' = at
      /\ todo' = todo /\ handled' = handled /\ left' = op.rewrites
      /\ known' = [known EXCEPT ![op.to] = op.pre, ![op.from] = None]
  BY DEF Commit, Go, disk, opening
<1>3. DiskOK'
  BY <1>2, DiskStays DEF Tidy
<1>4. known' = file
  BY <1>1, <1>2 DEF Late, Is
<1>5. KnownOK'
  BY <1>2, <1>4 DEF KnownOK
<1>6. OpOK'
  <2>1. Late(op)' /\ Intent("Active")' = Intent("Active")
    BY <1>1, <1>2 DEF Late, Is, Intent
  <2> QED
    BY <1>1, <1>2, <2>1 DEF OpOK
<1>7. Whose'
  <2>1. \A s : Same(s, op)' <=> Same(s, op)
    BY <1>2 DEF Same
  <2>2. OfOpening' <=> OfOpening
    BY <1>1, <1>2 DEF OfOpening
  <2> QED
    BY <1>1, <1>2, <2>1, <2>2 DEF Tidy, Whose
<1>8. Looking'
  BY <1>1, <1>2 DEF Tidy, Looking
<1>9. SpaceOK'
  BY <1>1, <1>2, OwnerStays DEF Tidy, SpaceOK
<1> QED
  BY <1>3, <1>5, <1>6, <1>7, <1>8, <1>9 DEF Tidy

\* The workspace does not take a rename that somebody asked for, and what is
\* to be undone is looked at.
LEMMA RefuseTidy ==
    ASSUME IInv, MoveInv, Tidy, ~Fault, Refuse \/ Verify
    PROVE  Tidy'
<1> USE DEF Readying, Standing, Retreating, Undoing, Committed, Landed, Past, Uncommitted,
            InProgress, Forward, Backward, Starting
<1>1. /\ pc \in {"commit", "verify"} /\ Late(op)
      /\ op.from \in Paths /\ op.to \in Paths /\ op.from # op.to
      /\ known = [file EXCEPT ![op.from] = op.pre, ![op.to] = None]
      /\ file \in [Paths -> File]
  BY Parts, UnderWay DEF Refuse, Verify, At, Tidy, OpOK, KnownOK
<1>2. known[op.from] = op.pre /\ file[op.to] = op.pre
  BY <1>1 DEF Late
<1>3. /\ op.why = "request"
      /\ \/ pc = "commit" /\ pc' = "verify"
         \/ pc = "verify" /\ pc' = "cancelAfter"
      /\ file' = file /\ intents' = intents /\ op' = op /\ at' = at /\ known' = known
      /\ todo' = todo /\ handled' = handled
  BY <1>2 DEF Refuse, Verify, At, Go, Keep, disk, opening, Tidy, OpOK
<1>4. DiskOK' /\ KnownOK' /\ OpOK' /\ Whose' /\ Looking'
  BY <1>3, QuietOK
<1>5. SpaceOK'
  BY <1>1, <1>3, SpaceStays, OwnerStays DEF Tidy, SpaceOK
<1> QED
  BY <1>4, <1>5 DEF Tidy

\* The intent of a rename that somebody asked for is the only one.
LEMMA Alone ==
    ASSUME IInv, Tidy, pc \in InProgress \ Starting, op.why = "request",
           NEW state, Intent(state) \in intents
    PROVE  intents = {Intent(state)}
<1>1. \A r \in intents : Same(r, Intent(state))
  BY DEF Tidy, Whose, Same, Intent
<1> QED
  BY <1>1, Parts DEF OneEach

\* The intent is marked: what it told of it still tells.
LEMMA CancelMovedTidy ==
    ASSUME IInv, MoveInv, LinkInv, Tidy, ~Fault, CancelMoved
    PROVE  Tidy'
<1> USE DEF Readying, Standing, Retreating, Undoing, Committed, Landed, Past, Uncommitted,
            InProgress, Forward, Backward, Starting
<1> DEFINE mine == Intent("Active")
           mark == Intent("Cancelled")
<1>1. /\ pc = "cancelAfter" /\ op.why = "request" /\ Late(op) /\ mine \in intents /\ ~op.failed
      /\ op.pre # None /\ NoLinkTo(op.to) /\ AtOwner
      /\ known = [file EXCEPT ![op.from] = op.pre, ![op.to] = None]
  BY UnderWay DEF CancelMoved, MarkCancelled, At, Tidy, OpOK, KnownOK, SpaceOK
<1>2. /\ mine.from = op.from /\ mine.to = op.to /\ mine.pre = op.pre /\ mine.state = "Active"
      /\ mark.from = op.from /\ mark.to = op.to /\ mark.pre = op.pre /\ mark.state = "Cancelled"
  BY DEF Intent
<1>3. intents = {mine}
  BY <1>1, Alone
<1>4. /\ pc' = "undoOrganization" /\ intents' = {mark}
      /\ file' = file /\ op' = op /\ at' = at /\ known' = known
      /\ todo' = todo /\ handled' = handled
  <2>1. Without(op) = {}
    BY <1>2, <1>3 DEF Without, Same
  <2> QED
    BY <2>1 DEF CancelMoved, MarkCancelled, Go, opening
<1>5. mark' = mark
  BY <1>4 DEF Intent
<1>6. Late(mark) /\ NoLinkTo(mark.to)
  BY <1>1, <1>2 DEF Late
<1> HIDE DEF mine, mark
<1>7. DiskOK'
  <2>1. /\ \A r, p : Bent(r, p)' <=> Bent(r, p)
        /\ \A p : Leads(p)' <=> Leads(p)
        /\ \A r : (Early(r)' <=> Early(r)) /\ (Late(r)' <=> Late(r))
        /\ \A q : NoLinkTo(q)' <=> NoLinkTo(q)
    BY <1>4 DEF Bent, Late, Early, Leads, NoLinkTo, Is, Here
  <2>2. \A p : Bent(mine, p) => Bent(mark, p)
    BY <1>2, <1>6 DEF Bent
  <2>3. Straight'
    BY <1>3, <1>4, <2>1, <2>2 DEF Tidy, DiskOK, Straight, Here
  <2>4. Pair' /\ ActiveOK' /\ CancelledOK'
    BY <1>2, <1>4, <1>6, <2>1 DEF Pair, ActiveOK, CancelledOK
  <2> QED
    BY <2>3, <2>4 DEF DiskOK
<1>8. KnownOK'
  BY <1>1, <1>4 DEF KnownOK
<1>9. OpOK'
  <2>1. Late(op)' /\ Intent("Cancelled")' \in intents'
    BY <1>1, <1>4, <1>5 DEF Late, Is, mark
  <2> QED
    BY <1>1, <1>4, <2>1 DEF OpOK
<1>10. Whose'
  <2>1. Same(mark, op)'
    BY <1>2, <1>4, <1>5 DEF Same
  <2> QED
    BY <1>1, <1>4, <1>5, <2>1 DEF Whose, OfOpening
<1>11. Looking'
  <2>1. todo = {}
    BY <1>1 DEF LinkInv, LinkParts, OneLook, Outside
  <2> QED
    BY <1>4, <2>1 DEF Looking
<1>12. SpaceOK'
  BY <1>1, <1>4, OwnerStays DEF Tidy, SpaceOK
<1> QED
  BY <1>7, <1>8, <1>9, <1>10, <1>11, <1>12 DEF Tidy

-----------------------------------------------------------------------------
(* All of it goes back.                                                    *)

\* The data go back under the marked intent, which tells where the space is.
LEMMA UndoTidy ==
    ASSUME IInv, MoveInv, Tidy, ~Fault, UndoOrganization \/ UndoSpace \/ UndoLand \/ UndoDraft
    PROVE  Tidy'
<1> USE DEF Readying, Standing, Retreating, Undoing, Committed, Landed, Past, Uncommitted,
            InProgress, Forward, Backward, Starting
<1> DEFINE mark == Intent("Cancelled")
<1>1. /\ pc \in Undoing /\ op.why = "request" /\ Late(op) /\ mark \in intents
      /\ at \in [Kinds -> Places] /\ "space" \in Kinds
      /\ op.pre.note # Owner => AtOwner
  BY UnderWay DEF UndoOrganization, UndoSpace, UndoLand, UndoDraft, At, Tidy, OpOK
<1>2. /\ mark.from = op.from /\ mark.to = op.to /\ mark.pre = op.pre /\ mark.state = "Cancelled"
  BY DEF Intent
<1>3. /\ file' = file /\ intents' = intents /\ op' = op /\ known' = known
      /\ todo' = todo /\ handled' = handled
      /\ \/ pc = "undoOrganization" /\ pc' = "undoSpace" /\ at'["space"] = at["space"]
         \/ pc = "undoSpace" /\ pc' = "undoLand" /\ "space" \in op.moved
                             /\ at'["space"] = Aside(op.to)
         \/ pc = "undoSpace" /\ pc' = "undoDraft" /\ "space" \notin op.moved /\ at' = at
         \/ pc = "undoLand" /\ pc' = "undoDraft" /\ at'["space"] = op.from
         \/ pc = "undoDraft" /\ pc' = "moveBack" /\ at'["space"] = at["space"]
  <2>1. UndoOrganization => /\ pc = "undoOrganization" /\ pc' = "undoSpace"
                            /\ at'["space"] = at["space"]
    BY <1>1 DEF UndoOrganization, At, Go, Put, Keep, disk
  <2>2. UndoSpace =>
         \/ pc = "undoSpace" /\ pc' = "undoLand" /\ "space" \in op.moved
                             /\ at'["space"] = Aside(op.to)
         \/ pc = "undoSpace" /\ pc' = "undoDraft" /\ "space" \notin op.moved /\ at' = at
    BY <1>1 DEF UndoSpace, At, Go, Put, Keep, disk
  <2>3. UndoLand => pc = "undoLand" /\ pc' = "undoDraft" /\ at'["space"] = op.from
    BY <1>1 DEF UndoLand, At, Go, Put
  <2>4. UndoDraft => /\ pc = "undoDraft" /\ pc' = "moveBack" /\ at'["space"] = at["space"]
    BY <1>1 DEF UndoDraft, At, Go, Put, Keep, disk
  <2>5. /\ file' = file /\ intents' = intents /\ op' = op /\ known' = known
        /\ todo' = todo /\ handled' = handled
    BY DEF UndoOrganization, UndoSpace, UndoLand, UndoDraft, Go, Put, Keep, disk, opening
  <2> QED
    BY <2>1, <2>2, <2>3, <2>4, <2>5
<1>4. DiskOK' /\ KnownOK' /\ OpOK' /\ Whose' /\ Looking'
  BY <1>3, QuietOK
<1> HIDE DEF mark
<1>5. ASSUME pc' \in {"undoLand", "undoDraft"}, op.pre.note = Owner,
             at'["space"] \in {Aside(op.to), op.from}
      PROVE  \E r \in intents' : Astray(r)'
  <2>1. PICK r \in intents : r = mark
    BY <1>1
  <2>2. Astray(r)'
    BY <1>1, <1>2, <1>3, <1>5, <2>1 DEF Astray, Late, Is
  <2> QED
    BY <1>3, <2>2
<1>6. CASE pc' = "undoSpace"
  BY <1>1, <1>3, <1>4, <1>6, OwnerStays DEF Tidy, SpaceOK
<1>7. CASE pc' = "undoLand"
  <2>1. op.pre.note = Owner
    BY <1>3, <1>7 DEF Tidy, SpaceOK
  <2> QED
    BY <1>3, <1>4, <1>5, <1>7, <2>1 DEF Tidy, SpaceOK
<1>8. CASE pc' = "undoDraft"
  <2>1. CASE op.pre.note = Owner
    <3>1. at'["space"] = op.from
      BY <1>1, <1>3, <1>8, <2>1 DEF Tidy, SpaceOK
    <3> QED
      BY <1>3, <1>4, <1>5, <1>8, <2>1, <3>1 DEF Tidy, SpaceOK
  <2>2. CASE op.pre.note # Owner
    <3>1. at'["space"] = at["space"] /\ AtOwner /\ "space" \notin op.moved
      BY <1>1, <1>3, <1>8, <2>2 DEF Tidy, SpaceOK
    <3> QED
      BY <1>3, <1>4, <1>8, <2>2, <3>1, OwnerStays DEF Tidy, SpaceOK
  <2> QED
    BY <2>1, <2>2
<1>9. CASE pc' = "moveBack"
  BY <1>3, <1>4, <1>9, SpaceStays DEF Tidy, SpaceOK
<1> QED
  BY <1>3, <1>6, <1>7, <1>8, <1>9

\* The file comes back: no link leads to the path it leaves.
LEMMA MoveBackTidy ==
    ASSUME IInv, MoveInv, LinkInv, Tidy, ~Fault, MoveBack
    PROVE  Tidy'
<1> USE DEF Readying, Standing, Retreating, Undoing, Committed, Landed, Past, Uncommitted,
            InProgress, Forward, Backward, Starting
<1> DEFINE mark == Intent("Cancelled")
<1>1. /\ pc = "moveBack" /\ op.why = "request" /\ Late(op) /\ mark \in intents /\ ~op.failed
      /\ op.from \in Paths /\ op.to \in Paths /\ op.from # op.to
      /\ op.pre \in Contents /\ op.pre # None
      /\ op.pre.note # Owner => AtOwner
      /\ known = [file EXCEPT ![op.from] = op.pre, ![op.to] = None]
  BY UnderWay DEF MoveBack, At, Tidy, OpOK, KnownOK
<1>2. /\ pc' = "drop" /\ Moves(op.to, op.from) /\ intents' = intents /\ op' = op
      /\ known' = known /\ todo' = todo /\ handled' = handled /\ at' = at
  BY <1>1 DEF MoveBack, Go, opening, Late, Is
<1>3. /\ mark.from = op.from /\ mark.to = op.to /\ mark.pre = op.pre /\ mark.state = "Cancelled"
      /\ Late(mark) /\ mark' = mark /\ intents = {mark}
  BY <1>1, <1>2, Alone DEF Intent, Late
<1> HIDE DEF mark
<1>4. /\ file[op.to] = op.pre /\ file[op.from] = None /\ op.to \in Here(file)
      /\ file'[op.to] = None /\ file'[op.from] = op.pre
      /\ \A q \in Paths \ {op.from, op.to} : file'[q] = file[q]
      /\ file \in [Paths -> File]
      /\ \A p \in Here(file) : p \in Paths /\ file[p] \in Contents
  BY <1>1, <1>2, MovedLinks, Parts DEF Late, Is, Here
<1>5. NoLinkTo(op.to)
  BY <1>1, <1>3, <1>4 DEF Tidy, DiskOK, CancelledOK, Early
<1>6. Early(mark)' /\ Early(op)'
  BY <1>2, <1>3, <1>4 DEF Early, Is
<1>7. DiskOK'
  <2>1. ASSUME NEW p \in Here(file)
        PROVE  \/ file[p].link = None
               \/ /\ file[p].link \in Paths /\ file'[file[p].link] # None
                  /\ p = op.to \/ file[p].link # p
                  /\ p = op.to => file[p].link # op.from
    <3>1. file[p].link \in Paths \cup {None} /\ file[p].link # op.to
      BY <1>4, <1>5 DEF Contents, NoLinkTo
    <3>2. CASE Leads(p)
      BY <1>4, <3>1, <3>2 DEF Leads, Is
    <3>3. CASE Bent(mark, p)
      BY <1>1, <1>3, <1>4, <3>1, <3>3 DEF Bent, Here
    <3> QED
      BY <1>3, <3>2, <3>3 DEF Tidy, DiskOK, Straight
  <2>2. ASSUME NEW p \in Here(file') PROVE Leads(p)'
    <3>1. CASE p = op.from
      BY <1>4, <2>1, <3>1 DEF Leads, Is
    <3>2. CASE p # op.from
      <4>1. p \in Here(file) /\ p # op.to /\ file'[p] = file[p]
        BY <1>4, <3>2 DEF Here
      <4> QED
        BY <2>1, <4>1 DEF Leads, Is
    <3> QED
      BY <3>1, <3>2
  <2>3. Straight'
    BY <2>2 DEF Straight
  <2>4. Pair' /\ ActiveOK' /\ CancelledOK'
    BY <1>2, <1>3, <1>6 DEF Pair, ActiveOK, CancelledOK
  <2> QED
    BY <2>3, <2>4 DEF DiskOK
<1>8. KnownOK'
  <2>1. file' = [file EXCEPT ![op.from] = file[op.to], ![op.to] = None]
    BY <1>2 DEF Moves
  <2> QED
    BY <1>1, <1>2, <1>4, <2>1 DEF KnownOK
<1>9. OpOK'
  <2>1. Intent("Cancelled")' \in intents'
    BY <1>1, <1>2, <1>3 DEF mark
  <2> QED
    BY <1>1, <1>2, <1>6, <2>1 DEF OpOK
<1>10. Whose'
  <2>1. Same(mark, op)'
    BY <1>2, <1>3 DEF Same
  <2> QED
    BY <1>1, <1>2, <1>3, <2>1 DEF Whose, OfOpening
<1>11. Looking'
  BY <1>1, <1>2 DEF Tidy, Looking
<1>12. AtOwner'
  <2>1. CASE op.pre.note = Owner
    <3>1. at["space"] = op.from
      BY <1>1, <2>1 DEF Tidy, SpaceOK
    <3> QED
      BY <1>1, <1>2, <1>4, <2>1, <3>1 DEF AtOwner, Here
  <2>2. CASE op.pre.note # Owner
    <3>1. AtOwner /\ at["space"] # op.to
      BY <1>1, <1>4, <2>2, OwnerPath DEF MoveInv
    <3> QED
      BY <1>2, <1>4, <3>1 DEF AtOwner, Here
  <2> QED
    BY <2>1, <2>2
<1>13. SpaceOK'
  BY <1>1, <1>2, <1>12 DEF Tidy, SpaceOK
<1> QED
  BY <1>7, <1>8, <1>9, <1>10, <1>11, <1>13 DEF Tidy

\* The rename that was asked for has ended, whichever way.
LEMMA EndsTidy ==
    ASSUME IInv, LinkInv, Tidy, pc \in InProgress, op.why = "request",
           Ends(op.why, TRUE) \/ Fails,
           file' = file, at' = at, known' = known, known = file,
           intents' = {}, AtOwner, \A p \in Here(file) : Leads(p)
    PROVE  Tidy'
<1> USE DEF Readying, Standing, Retreating, Undoing, Committed, Landed, Past, Uncommitted,
            InProgress, Forward, Backward, Starting
<1>1. pc' = "idle" /\ todo' = todo /\ todo = {}
  BY DEF Ends, Fails, opening, LinkInv, LinkParts, OneLook, Outside
<1>2. DiskOK'
  <2>1. \A p : Leads(p)' <=> Leads(p)
    BY DEF Leads, Is
  <2> QED
    BY <2>1 DEF DiskOK, Straight, Pair, ActiveOK, CancelledOK, Here
<1>3. KnownOK' /\ OpOK' /\ Whose' /\ Looking'
  BY <1>1 DEF KnownOK, OpOK, Whose, Looking, OfOpening
<1>4. SpaceOK'
  BY <1>1, OwnerStays DEF SpaceOK
<1> QED
  BY <1>2, <1>3, <1>4 DEF Tidy

\* The marked intent goes when its file is back.
LEMMA DropTidy ==
    ASSUME IInv, MoveInv, LinkInv, Tidy, ~Fault, Drop
    PROVE  Tidy'
<1> USE DEF Readying, Standing, Retreating, Undoing, Committed, Landed, Past, Uncommitted,
            InProgress, Forward, Backward, Starting
<1> DEFINE mark == Intent("Cancelled")
<1>1. /\ pc = "drop" /\ op.why = "request" /\ Early(op) /\ mark \in intents /\ AtOwner
      /\ known = file /\ op.pre # None
  BY UnderWay DEF Drop, At, Tidy, OpOK, KnownOK, SpaceOK
<1>2. /\ Fails /\ file' = file /\ at' = at /\ known' = known /\ intents' = Without(op)
  BY DEF Drop
<1>3. intents = {mark} /\ Same(mark, op) /\ Early(mark)
  BY <1>1, Alone DEF Intent, Same, Early
<1>4. intents' = {}
  BY <1>2, <1>3 DEF Without
<1>5. mark.pre = op.pre /\ mark.from = op.from /\ mark.to = op.to
  BY DEF Intent
<1> HIDE DEF mark
<1>6. \A p \in Here(file) : Leads(p)
  <2>1. ~Late(mark)
    BY <1>1, <1>3, <1>5 DEF Early, Late, Is
  <2> QED
    BY <1>3, <2>1 DEF Tidy, DiskOK, Straight, Bent
<1> QED
  BY <1>1, <1>2, <1>4, <1>6, EndsTidy

-----------------------------------------------------------------------------
(* The edits, and the end of a rename that has been made.                  *)

\* An edit of the plan takes a link from the old path to the new one.
LEMMA EditDisk ==
    ASSUME IInv, MoveInv, Tidy, NEW x \in intents, x.state = "Active", Late(x), x.from # x.to,
           NEW w \in x.rewrites, Edit(w), w.result.link = x.to, Lands(w),
           file' = [file EXCEPT ![w.doc] = w.result], intents' = intents
    PROVE  /\ DiskOK' /\ Late(x)'
           /\ file'[w.doc] = w.result
           /\ \A v \in x.rewrites : v = w \/ file'[v.doc] = file[v.doc]
           /\ AtOwner /\ at'["space"] = at["space"] => AtOwner'
<1>1. /\ w.doc \in Paths /\ w.base \in Contents /\ w.result \in Contents
      /\ w.base # None /\ w.result # None /\ w.result.note = w.base.note
      /\ file \in [Paths -> File] /\ x \in Intents /\ x.pre # None /\ x.from \in Paths
      /\ x.to \in Paths
  BY Parts, NoneAssumption DEF Edit, Rewrites, Intents
<1>2. /\ \A v \in x.rewrites : v.doc # x.to /\ file[v.doc] \in {v.base, v.result}
      /\ \A v \in x.rewrites : v.doc = w.doc => v = w
      /\ file[x.to] = x.pre /\ file[x.from] = None /\ file[w.doc] = w.base
  BY DEF Tidy, DiskOK, ActiveOK, Late, Is, Lands
<1>3. /\ file'[w.doc] = w.result /\ \A q : q # w.doc => file'[q] = file[q]
      /\ w.doc # x.to /\ w.doc # x.from
  <2>1. \A q \in Paths : q # w.doc => file'[q] = file[q]
    BY <1>1
  <2>2. \A q : q \notin Paths => file'[q] = file[q]
    BY <1>1
  <2> QED
    BY <1>1, <1>2, <2>1, <2>2
<1>4. Here(file') = Here(file) /\ w.doc \in Here(file)
  BY <1>1, <1>2, <1>3 DEF Here
<1>5. /\ Late(x)' /\ ~Early(x)'
  BY <1>1, <1>2, <1>3 DEF Late, Early, Is
<1>6. \A r \in intents : r # x => /\ r.state = "Cancelled" /\ Early(r)' /\ ~Late(r)
  <2>1. ASSUME NEW r \in intents, r # x
        PROVE  r.state = "Cancelled" /\ r.from = x.to /\ r.to = x.from /\ r.pre = x.pre
    BY <2>1, OtherIntent
  <2> QED
    BY <1>1, <1>2, <1>3, <2>1 DEF Early, Late, Is
<1>7. Straight'
  <2> SUFFICES ASSUME NEW p \in Here(file')
               PROVE  Leads(p)' \/ \E r \in intents' : Bent(r, p)'
    BY DEF Straight
  <2>1. CASE p = w.doc
    BY <1>1, <1>2, <1>3, <2>1 DEF Leads, Is
  <2>2. CASE p # w.doc
    <3>1. p \in Here(file) /\ file'[p] = file[p]
      BY <1>3, <1>4, <2>2
    <3>2. CASE Leads(p)
      <4>1. Leads(p)'
        BY <1>1, <1>3, <3>1, <3>2 DEF Leads, Is
      <4> QED
        BY <4>1
    <3>3. ASSUME NEW r \in intents, Bent(r, p) PROVE Bent(x, p)'
      <4>1. r = x
        BY <1>6, <3>3 DEF Bent
      <4> QED
        BY <1>5, <3>1, <3>3, <4>1 DEF Bent
    <3> QED
      BY <3>1, <3>2, <3>3 DEF Tidy, DiskOK, Straight
  <2> QED
    BY <2>1, <2>2
<1>8. Pair'
  BY DEF Tidy, DiskOK, Pair
<1>9. \A v \in x.rewrites : v = w \/ file'[v.doc] = file[v.doc]
  BY <1>2, <1>3
<1>10. ActiveOK'
  <2>1. \A v \in x.rewrites : v.doc # x.to /\ file'[v.doc] \in {v.base, v.result}
    BY <1>2, <1>3, <1>9
  <2>2. \A v, u \in x.rewrites : v.doc = u.doc => v = u
    BY DEF Tidy, DiskOK, ActiveOK
  <2> QED
    BY <1>5, <1>6, <2>1, <2>2 DEF ActiveOK
<1>11. CancelledOK'
  BY <1>6 DEF CancelledOK
<1>12. AtOwner /\ at'["space"] = at["space"] => AtOwner'
  BY <1>1, <1>2, <1>3, <1>4 DEF AtOwner
<1> QED
  BY <1>3, <1>5, <1>7, <1>8, <1>9, <1>10, <1>11, <1>12 DEF DiskOK

\* An edit makes one more link lead to where its note is now.
LEMMA RewriteTidy ==
    ASSUME IInv, MoveInv, LinkInv, Tidy, ~Fault, NEW w \in left, Rewrite(w)
    PROVE  Tidy'
<1> USE DEF Readying, Standing, Retreating, Undoing, Committed, Landed, Past, Uncommitted,
            InProgress, Forward, Backward, Starting
<1> DEFINE mine == Intent("Active")
<1>1. /\ pc = "rewrite" /\ Late(op) /\ mine \in intents /\ ~op.failed /\ known = file
      /\ AtOwner /\ op.from # op.to
      /\ \A v \in op.rewrites : file[v.doc] = IF v \in left THEN v.base ELSE v.result
  BY UnderWay DEF Rewrite, Publish, At, Tidy, OpOK, KnownOK, SpaceOK
<1>2. w \in op.rewrites /\ w.result.link = op.to /\ Lands(w) /\ Edit(w)
  BY <1>1, Parts DEF LinkInv, LinkParts, Made, MadeFor, Lands
<1>3. /\ pc' = pc /\ file' = [file EXCEPT ![w.doc] = w.result]
      /\ known' = [known EXCEPT ![w.doc] = w.result] /\ intents' = intents /\ op' = op
      /\ left' = left \ {w} /\ at' = at /\ todo' = todo /\ handled' = handled
  BY <1>2 DEF Rewrite, Publish, Apply, opening
<1>4. /\ mine.from = op.from /\ mine.to = op.to /\ mine.pre = op.pre /\ mine.state = "Active"
      /\ mine.rewrites = op.rewrites /\ Late(mine) /\ mine' = mine
  BY <1>1, <1>3 DEF Intent, Late
<1> HIDE DEF mine
<1>5. /\ DiskOK' /\ Late(mine)' /\ file'[w.doc] = w.result
      /\ \A v \in mine.rewrites : v = w \/ file'[v.doc] = file[v.doc]
      /\ AtOwner'
  BY <1>1, <1>2, <1>3, <1>4, EditDisk
<1>6. KnownOK'
  BY <1>1, <1>3 DEF KnownOK
<1>7. OpOK'
  <2>1. Late(op)' /\ Intent("Active")' \in intents'
    BY <1>1, <1>3, <1>4, <1>5 DEF Late, Is, mine
  <2>2. \A v \in op.rewrites : file'[v.doc] = IF v \in left' THEN v.base ELSE v.result
    BY <1>1, <1>3, <1>4, <1>5
  <2> QED
    BY <1>1, <1>3, <2>1, <2>2 DEF OpOK
<1>8. Whose'
  <2>1. \A s : Same(s, op)' <=> Same(s, op)
    BY <1>3 DEF Same
  <2>2. OfOpening' <=> OfOpening
    BY <1>1, <1>3 DEF OfOpening
  <2> QED
    BY <1>1, <1>3, <2>1, <2>2 DEF Tidy, Whose
<1>9. Looking'
  BY <1>1, <1>3 DEF Tidy, Looking
<1>10. SpaceOK'
  BY <1>1, <1>3, <1>5 DEF SpaceOK
<1> QED
  BY <1>5, <1>6, <1>7, <1>8, <1>9, <1>10 DEF Tidy

\* When the edits end none is left to do.
LEMMA RewritesEndTidy ==
    ASSUME IInv, MoveInv, Tidy, RewritesEnd
    PROVE  Tidy'
<1> USE DEF Readying, Standing, Retreating, Undoing, Committed, Landed, Past, Uncommitted,
            InProgress, Forward, Backward, Starting
<1>1. /\ pc = "rewrite" /\ ~op.failed /\ left = {}
  BY DEF RewritesEnd, At, Tidy, OpOK
<1>2. /\ pc' = "complete" /\ file' = file /\ known' = known /\ intents' = intents /\ op' = op
      /\ left' = left /\ at' = at /\ todo' = todo /\ handled' = handled
  BY <1>1 DEF RewritesEnd, Go, disk, opening
<1>3. DiskOK' /\ KnownOK' /\ Looking'
  BY <1>1, <1>2, DiskStays DEF Tidy, KnownOK, Looking
<1>4. OpOK'
  <2>1. (Late(op)' <=> Late(op)) /\ Intent("Active")' = Intent("Active")
    BY <1>2 DEF Late, Is, Intent
  <2> QED
    BY <1>1, <1>2, <2>1 DEF Tidy, OpOK
<1>5. Whose'
  <2>1. \A s : Same(s, op)' <=> Same(s, op)
    BY <1>2 DEF Same
  <2>2. OfOpening' <=> OfOpening
    BY <1>1, <1>2 DEF OfOpening
  <2> QED
    BY <1>1, <1>2, <2>1, <2>2 DEF Tidy, Whose
<1>6. SpaceOK'
  BY <1>1, <1>2, OwnerStays DEF Tidy, SpaceOK
<1> QED
  BY <1>3, <1>4, <1>5, <1>6 DEF Tidy

\* An intent goes that no link needs.
LEMMA GoneDisk ==
    ASSUME DiskOK, file' = file, intents' \subseteq intents,
           \A r \in intents \ intents' : \A p \in Here(file) : ~Bent(r, p)
    PROVE  DiskOK'
<1>1. /\ \A r, p : Bent(r, p)' <=> Bent(r, p)
      /\ \A p : Leads(p)' <=> Leads(p)
      /\ \A r : (Early(r)' <=> Early(r)) /\ (Late(r)' <=> Late(r))
      /\ \A q : NoLinkTo(q)' <=> NoLinkTo(q)
      /\ \A p, q : PlanFor(p, q)' = PlanFor(p, q)
      /\ Here(file') = Here(file)
  BY DEF Bent, Late, Early, Leads, NoLinkTo, PlanFor, Is, Here
<1>2. Straight'
  <2> SUFFICES ASSUME NEW p \in Here(file), ~Leads(p)
               PROVE  \E r \in intents' : Bent(r, p)
    BY <1>1 DEF Straight
  <2> QED
    BY DEF DiskOK, Straight
<1>3. Pair'
  BY DEF DiskOK, Pair
<1>4. ActiveOK' /\ CancelledOK'
  BY <1>1 DEF DiskOK, ActiveOK, CancelledOK
<1> QED
  BY <1>2, <1>3, <1>4 DEF DiskOK

\* The intent of a finished rename goes when no link needs it any more.
LEMMA CompleteTidy ==
    ASSUME IInv, MoveInv, LinkInv, Tidy, ~Fault, Complete
    PROVE  Tidy'
<1> USE DEF Readying, Standing, Retreating, Undoing, Committed, Landed, Past, Uncommitted,
            InProgress, Forward, Backward, Starting
<1> DEFINE mine == Intent("Active")
<1>1. /\ pc = "complete" /\ Late(op) /\ mine \in intents /\ ~op.failed /\ known = file
      /\ AtOwner /\ op.from # op.to /\ op.pre # None
      /\ op.why \in {"request", "resume", "return"}
      /\ \A v \in op.rewrites : file[v.doc] = v.result /\ v.result.link = op.to
  BY UnderWay DEF Complete, At, Tidy, OpOK, KnownOK, SpaceOK, LinkInv, LinkParts, Made, MadeFor,
                 Operations, Reasons
<1>2. /\ intents' = Without(op) /\ Ends(op.why, TRUE) /\ file' = file /\ known' = known
      /\ at' = at /\ todo' = todo /\ handled' = handled
  BY DEF Complete, Ends, opening
<1>3. /\ mine.from = op.from /\ mine.to = op.to /\ mine.pre = op.pre /\ mine.state = "Active"
      /\ mine.rewrites = op.rewrites /\ Late(mine) /\ Same(mine, op)
  BY <1>1 DEF Intent, Late, Same
<1> HIDE DEF mine
<1>4. \A r \in intents : r \in intents' <=> r # mine
  <2>1. \A r \in intents : Same(r, op) => r = mine
    BY <1>1, <1>3, Parts DEF OneEach, Same
  <2> QED
    BY <1>2, <1>3, <2>1 DEF Without
<1>5. \A p \in Here(file) : ~Bent(mine, p)
  BY <1>1, <1>3 DEF Bent
<1>6. intents' \subseteq intents
  BY <1>2 DEF Without
<1>7. DiskOK'
  BY <1>2, <1>4, <1>5, <1>6, GoneDisk DEF Tidy
<1>8. \A r \in intents : r # mine => /\ r.state = "Cancelled" /\ mine.rewrites = {}
                                     /\ r.from = mine.to /\ r.to = mine.from /\ r.pre = mine.pre
  BY <1>1, <1>3, OtherIntent
<1>9. AtOwner'
  BY <1>1, <1>2, OwnerStays
<1>10. op.why # "request" =>
          /\ handled \in intents /\ todo \subseteq intents
          /\ \A r \in intents : r \in todo \/ r = handled \/ r = mine
          /\ \A r \in todo : ~Same(r, handled)
          /\ op.why = "resume" => handled.from = op.from
          /\ op.why = "return" => handled.from = op.to /\ handled.to = op.from
  <2>1. op.why # "request" => OfOpening
    BY <1>1 DEF OfOpening
  <2>2. \A r \in intents : Same(r, op) => r = mine
    BY <1>1, <1>3, Parts DEF OneEach, Same
  <2>3. todo \subseteq intents
    BY <1>1 DEF Tidy, Looking
  <2> QED
    BY <2>1, <2>2, <2>3 DEF Tidy, Whose, LinkInv, LinkParts, HandledOK, OneLook
<1>11. CASE op.why = "request"
  <2>1. intents' = {}
    BY <1>1, <1>4, <1>6, <1>11, Alone DEF mine
  <2>2. \A p \in Here(file) : Leads(p)
    <3>1. intents = {mine}
      BY <1>1, <1>11, Alone DEF mine
    <3> QED
      BY <1>5, <3>1 DEF Tidy, DiskOK, Straight
  <2> QED
    BY <1>1, <1>2, <1>11, <2>1, <2>2, EndsTidy
<1>12. CASE op.why = "resume"
  <2>1. pc' = "scan"
    BY <1>2, <1>12 DEF Ends
  <2>2. handled = mine
    BY <1>1, <1>3, <1>8, <1>10, <1>12
  <2>3. mine \notin todo
    BY <1>10, <1>12, <2>2 DEF Same
  <2>4. KnownOK' /\ OpOK'
    BY <1>1, <1>2, <2>1 DEF KnownOK, OpOK
  <2>5. Whose'
    BY <1>2, <1>4, <1>6, <1>10, <1>12, <2>1, <2>2 DEF Whose, OfOpening
  <2>6. Looking'
    BY <1>2, <1>4, <1>10, <1>12, <2>3 DEF Looking
  <2>7. SpaceOK'
    BY <1>9, <2>1 DEF SpaceOK
  <2> QED
    BY <1>7, <2>4, <2>5, <2>6, <2>7 DEF Tidy
<1>13. CASE op.why = "return"
  <2>1. pc' = "clear"
    BY <1>2, <1>13 DEF Ends
  <2>2. handled # mine
    BY <1>1, <1>3, <1>10, <1>13
  <2>3. \A r \in intents : r # mine => r = handled
    <3>1. \A r \in intents : r # mine => Same(r, handled)
      BY <1>8, <1>10, <1>13, <2>2 DEF Same
    <3> QED
      BY <1>10, <1>13, <3>1, Parts DEF OneEach
  <2>4. intents' = {handled} /\ handled' = handled
    BY <1>2, <1>4, <1>6, <1>10, <1>13, <2>2, <2>3
  <2>5. KnownOK' /\ OpOK'
    BY <1>1, <1>2, <2>1 DEF KnownOK, OpOK
  <2>6. ~Late(handled)'
    BY <1>1, <1>2, <1>3, <1>8, <1>10, <1>13, <2>2 DEF Late, Is
  <2>7. Whose'
    BY <2>1, <2>4, <2>6 DEF Whose, OfOpening, Bent
  <2>8. Looking'
    <3>1. \A r \in todo' \ intents' : r = mine
      BY <1>2, <1>10, <1>13, <2>3, <2>4
    <3>2. Late(mine) /\ mine.state = "Active" /\ mine.rewrites = {}
      BY <1>3, <1>8, <1>10, <1>13, <2>2
    <3>3. \A r : Late(r)' <=> Late(r)
      BY <1>2 DEF Late, Is
    <3> QED
      BY <1>3, <2>1, <2>4, <3>1, <3>2, <3>3 DEF Looking
  <2>9. SpaceOK'
    BY <1>9, <2>1 DEF SpaceOK
  <2> QED
    BY <1>7, <2>5, <2>7, <2>8, <2>9 DEF Tidy
<1> QED
  BY <1>1, <1>11, <1>12, <1>13

-----------------------------------------------------------------------------
(* What the opening does with an intent but rename.                        *)

\* The space is at its note when the move of an intent that is there has been
\* made, or been made back.
LEMMA SettledOwner ==
    ASSUME IInv, Tidy, NEW r \in intents,
           (r.state = "Active" /\ Late(r)) \/ (r.state = "Cancelled" /\ Early(r))
    PROVE  AtOwner
<1>1. r \in Intents /\ r.pre # None
  BY Parts, NoneAssumption DEF Intents
<1>2. ~Astray(r)
  BY <1>1 DEF Astray, Early, Late, Is
<1>3. ASSUME NEW s \in intents, s # r PROVE ~Astray(s)
  <2>1. /\ s.from = r.to /\ s.to = r.from /\ s.pre = r.pre
        /\ r.state = "Active" <=> s.state = "Cancelled"
        /\ s.state = "Active" <=> r.state = "Cancelled"
    BY <1>3 DEF Tidy, DiskOK, Pair, Opposite
  <2> QED
    BY <1>1, <2>1 DEF Astray, Early, Late, Is
<1> QED
  BY <1>2, <1>3 DEF Tidy, SpaceOK

\* A marked intent whose file is back is taken to be cleared.
LEMMA ForgetTidy ==
    ASSUME IInv, Tidy, NEW r \in todo, Forget(r)
    PROVE  Tidy'
<1> USE DEF Readying, Standing, Retreating, Undoing, Committed, Landed, Past, Uncommitted,
            InProgress, Forward, Backward, Starting
<1>1. /\ pc = "scan" /\ pc' = "clear" /\ file' = file /\ intents' = intents /\ at' = at
      /\ known' = known /\ todo' = todo \ {r} /\ handled' = r
      /\ Position(r) = "Cancelled"
  BY DEF Forget, Takes, GoesOn, At, disk
<1>2. r \in Intents /\ r.pre # None /\ r.state = "Cancelled" /\ Early(r)
  BY <1>1, Parts, Positions, NoneAssumption DEF Intents
<1>3. r \in intents /\ todo \subseteq intents /\ intents \subseteq todo
  BY <1>1, <1>2, TakenIs DEF Tidy, Whose
<1>4. DiskOK' /\ KnownOK' /\ OpOK' /\ Looking'
  BY <1>1, <1>3, DiskStays DEF Tidy, KnownOK, OpOK, Looking
<1>5. Whose'
  <2>1. ~Late(handled)'
    BY <1>1, <1>2 DEF Early, Late, Is
  <2> QED
    BY <1>1, <1>3, <2>1 DEF Whose, OfOpening, Bent
<1>6. SpaceOK'
  BY <1>1, <1>2, <1>3, SettledOwner, OwnerStays DEF SpaceOK
<1> QED
  BY <1>4, <1>5, <1>6 DEF Tidy

\* An intent whose file has moved is taken to have its edits done.
LEMMA TakeReplayTidy ==
    ASSUME IInv, Tidy, NEW r \in todo, TakeReplay(r)
    PROVE  Tidy'
<1> USE DEF Readying, Standing, Retreating, Undoing, Committed, Landed, Past, Uncommitted,
            InProgress, Forward, Backward, Starting
<1>1. /\ pc = "scan" /\ pc' = "replay" /\ file' = file /\ intents' = intents /\ at' = at
      /\ known' = known /\ todo' = todo \ {r} /\ handled' = r /\ left' = r.rewrites
      /\ Position(r) = "Destination"
  BY DEF TakeReplay, Takes, GoesOn, At, disk
<1>2. r \in Intents /\ r.state = "Active" /\ Late(r)
  BY <1>1, Parts, Positions
<1>3. intents \subseteq todo
  BY <1>1 DEF Tidy, Whose
<1>4. r \in intents \/ (intents = {} /\ r.rewrites = {} /\ todo = {r})
  BY <1>1 DEF Tidy, Looking
<1>5. DiskOK' /\ KnownOK' /\ OpOK'
  BY <1>1, DiskStays DEF Tidy, KnownOK, OpOK
<1>6. Looking'
  <2>1. todo' \ intents' = {}
    BY <1>1, <1>4 DEF Tidy, Looking
  <2> QED
    BY <2>1 DEF Looking
<1>7. Whose'
  <2>1. Late(handled)'
    BY <1>1, <1>2 DEF Late, Is
  <2>2. \A w \in r.rewrites : w.doc # r.to /\ file[w.doc] \in {w.base, w.result}
    BY <1>2, <1>4 DEF Tidy, DiskOK, ActiveOK
  <2> QED
    BY <1>1, <1>3, <1>4, <2>1, <2>2 DEF Whose, OfOpening
<1>8. AtOwner
  BY <1>2, <1>4, SettledOwner DEF Tidy, SpaceOK
<1>9. SpaceOK'
  BY <1>1, <1>8, OwnerStays DEF SpaceOK
<1> QED
  BY <1>5, <1>6, <1>7, <1>9 DEF Tidy

\* There is no conflict, and no rename that does not begin.
LEMMA LeavesNone ==
    ASSUME IInv, Tidy, NEW r \in todo
    PROVE  ~Leave(r)
<1> SUFFICES ASSUME Leave(r) PROVE FALSE
  OBVIOUS
<1>1. pc = "scan" /\ known = file
  BY DEF Leave, Takes, At, Tidy, KnownOK, Standing, Retreating, Undoing
<1>2. r \in Intents /\ r.pre # None
  BY Parts, NoneAssumption DEF Intents
<1>3. Early(r) \/ Late(r)
  BY <1>2, Positions DEF Tidy, Looking, DiskOK, ActiveOK, CancelledOK
<1>4. \/ Position(r) = "Conflict"
      \/ Position(r) = "Source" /\ (file[r.from] = None \/ file[r.to] # None)
      \/ Position(r) = "Rollback" /\ (file[r.to] = None \/ file[r.from] # None)
  BY <1>1 DEF Leave
<1> QED
  BY <1>2, <1>3, <1>4, Positions DEF Early, Late, Is

\* An edit done by the opening makes one more link lead to its note.
LEMMA ReplayTidy ==
    ASSUME IInv, MoveInv, LinkInv, Tidy, ~Fault, NEW w \in left, Replay(w)
    PROVE  Tidy'
<1> USE DEF Readying, Standing, Retreating, Undoing, Committed, Landed, Past, Uncommitted,
            InProgress, Forward, Backward, Starting
<1>1. /\ pc = "replay" /\ known = file /\ AtOwner /\ Late(handled)
      /\ w \in handled.rewrites /\ w.result.link = handled.to /\ Edit(w)
      /\ handled.state = "Active" /\ handled.from # handled.to
  BY Parts DEF Replay, Publish, At, Tidy, KnownOK, SpaceOK, Whose, LinkInv, LinkParts, Made, MadeFor,
               Replaying
<1>2. /\ handled \in intents
      /\ \A v \in handled.rewrites :
            v.doc # handled.to /\ (file[v.doc] = v.result \/ (v \in left /\ file[v.doc] = v.base))
  BY <1>1 DEF Tidy, Whose
<1>3. /\ pc' = "replay" /\ left' = left \ {w} /\ intents' = intents /\ at' = at
      /\ todo' = todo /\ handled' = handled
      /\ \/ file[w.doc] = w.result /\ file' = file /\ known' = known
         \/ Lands(w) /\ Apply(w)
  BY <1>1, <1>2 DEF Replay, Publish, At, opening
<1>4. /\ DiskOK' /\ Late(handled)' /\ file'[w.doc] = w.result
      /\ \A v \in handled.rewrites : v = w \/ file'[v.doc] = file[v.doc]
      /\ AtOwner' /\ known' = file'
  <2>1. CASE file[w.doc] = w.result /\ file' = file /\ known' = known
    <3>1. DiskOK' /\ AtOwner'
      BY <1>1, <1>3, <2>1, DiskStays, OwnerStays DEF Tidy
    <3> QED
      BY <1>1, <1>3, <2>1, <3>1 DEF Late, Is
  <2>2. CASE Lands(w) /\ Apply(w)
    <3>1. /\ file' = [file EXCEPT ![w.doc] = w.result]
          /\ known' = [known EXCEPT ![w.doc] = w.result]
      BY <2>2 DEF Apply
    <3>2. PICK x \in intents : x = handled
      BY <1>2
    <3>3. /\ DiskOK' /\ Late(x)' /\ file'[w.doc] = w.result
          /\ \A v \in x.rewrites : v = w \/ file'[v.doc] = file[v.doc]
          /\ AtOwner'
      BY <1>1, <1>3, <2>2, <3>1, <3>2, EditDisk
    <3> QED
      BY <1>1, <1>3, <3>1, <3>2, <3>3 DEF Late, Is
  <2> QED
    BY <1>3, <2>1, <2>2
<1>5. KnownOK' /\ OpOK'
  BY <1>3, <1>4 DEF KnownOK, OpOK
<1>6. Looking'
  BY <1>1, <1>3 DEF Tidy, Looking
<1>7. Whose'
  <2>1. \A r \in intents : r \in todo \/ r = handled
    BY <1>1 DEF Tidy, Whose
  <2>2. \A v \in handled.rewrites :
            \/ file'[v.doc] = v.result
            \/ v \in left' /\ file'[v.doc] = v.base
    BY <1>2, <1>3, <1>4
  <2> QED
    BY <1>2, <1>3, <1>4, <2>1, <2>2 DEF Whose, OfOpening
<1>8. SpaceOK'
  BY <1>3, <1>4 DEF SpaceOK
<1> QED
  BY <1>4, <1>5, <1>6, <1>7, <1>8 DEF Tidy

\* When the opening has done the edits no link needs the intent any more.
LEMMA ReplayEndsTidy ==
    ASSUME IInv, LinkInv, Tidy, ReplayEnds
    PROVE  Tidy'
<1> USE DEF Readying, Standing, Retreating, Undoing, Committed, Landed, Past, Uncommitted,
            InProgress, Forward, Backward, Starting
<1>1. /\ pc = "replay" /\ pc' = "clear" /\ left = {} /\ file' = file /\ known' = known
      /\ intents' = intents /\ at' = at /\ todo' = todo /\ handled' = handled
  BY DEF ReplayEnds, At, GoesOn, disk, opening
<1>2. /\ handled.state = "Active" /\ handled.from # handled.to /\ MadeFor(handled)
      /\ \A w \in handled.rewrites : file[w.doc] = w.result
  BY <1>1 DEF LinkInv, LinkParts, Made, Replaying, Tidy, Whose
<1>3. DiskOK' /\ KnownOK' /\ OpOK' /\ Looking'
  BY <1>1, DiskStays DEF Tidy, KnownOK, OpOK, Looking
<1>4. Whose'
  <2>1. \A p : ~Bent(handled, p)'
    BY <1>1, <1>2 DEF Bent, MadeFor
  <2> QED
    BY <1>1, <2>1 DEF Tidy, Whose, OfOpening
<1>5. SpaceOK'
  BY <1>1, OwnerStays DEF Tidy, SpaceOK
<1> QED
  BY <1>3, <1>4, <1>5 DEF Tidy

\* The intent the opening has dealt with goes.
LEMMA ClearTidy ==
    ASSUME IInv, LinkInv, Tidy, ~Fault, Clear
    PROVE  Tidy'
<1> USE DEF Readying, Standing, Retreating, Undoing, Committed, Landed, Past, Uncommitted,
            InProgress, Forward, Backward, Starting
<1>1. /\ pc = "clear" /\ pc' = "scan" /\ file' = file /\ known' = known /\ known = file
      /\ intents' = Without(handled) /\ at' = at /\ todo' = todo /\ handled' = handled /\ AtOwner
  BY DEF Clear, At, opening, Tidy, KnownOK, SpaceOK
<1>2. /\ \A r \in intents : r \in todo \/ r = handled
      /\ \A r \in todo : ~Same(r, handled)
  BY <1>1 DEF Tidy, Whose, LinkInv, LinkParts, OneLook
<1>3. intents' \subseteq intents /\ \A r \in intents : r \in intents' <=> r # handled
  BY <1>1, <1>2 DEF Without, Same
<1>4. DiskOK'
  <2>1. \A r \in intents \ intents' : \A p \in Here(file) : ~Bent(r, p)
    BY <1>1, <1>3 DEF Tidy, Whose
  <2> QED
    BY <1>1, <1>3, <2>1, GoneDisk DEF Tidy
<1>5. KnownOK' /\ OpOK'
  BY <1>1 DEF KnownOK, OpOK
<1>6. Whose'
  BY <1>1, <1>2, <1>3 DEF Whose, OfOpening
<1>7. Looking'
  <2>1. todo \ intents' = todo \ intents
    BY <1>2, <1>3 DEF Same
  <2>2. \A r : Late(r)' <=> Late(r)
    BY <1>1 DEF Late, Is
  <2>3. \A r \in todo \ intents : intents' = {}
    BY <1>1, <1>3 DEF Tidy, Looking
  <2> QED
    BY <1>1, <2>1, <2>2, <2>3 DEF Tidy, Looking
<1>8. SpaceOK'
  BY <1>1, OwnerStays DEF SpaceOK
<1> QED
  BY <1>4, <1>5, <1>6, <1>7, <1>8 DEF Tidy

\* The opening ends: the space is at a note, and stays.
LEMMA OpeningEndsTidy ==
    ASSUME IInv, Tidy, RecoveryEnds \/ Collect
    PROVE  Tidy'
<1> USE DEF Readying, Standing, Retreating, Undoing, Committed, Landed, Past, Uncommitted,
            InProgress, Forward, Backward, Starting
<1>1. /\ \/ pc = "scan" /\ pc' = "collect" /\ todo = {}
         \/ pc = "collect" /\ pc' = "idle"
      /\ file' = file /\ known' = known /\ intents' = intents /\ todo' = todo
  BY DEF RecoveryEnds, Collect, At, GoesOn, disk, opening
<1>2. intents = {} /\ known = file /\ AtOwner
  BY <1>1 DEF Tidy, Whose, KnownOK, SpaceOK
<1>3. at' = at
  BY <1>2 DEF RecoveryEnds, Collect, Collectable, GoesOn, disk, AtOwner, Here, Is
<1>4. DiskOK' /\ KnownOK' /\ OpOK'
  BY <1>1, <1>2, DiskStays DEF Tidy, KnownOK, OpOK
<1>5. Whose' /\ Looking'
  BY <1>1, <1>2 DEF Tidy, Whose, Looking, OfOpening
<1>6. SpaceOK'
  BY <1>1, <1>2, <1>3, OwnerStays DEF SpaceOK
<1> QED
  BY <1>4, <1>5, <1>6 DEF Tidy

-----------------------------------------------------------------------------
(* All the steps.                                                          *)

\* The process goes, is there again, or looks at the files.
LEMMA AroundTidy ==
    ASSUME IInv, LinkInv, Tidy, Open \/ Close \/ Crash \/ Sync
    PROVE  Tidy'
<1> USE DEF Readying, Standing, Retreating, Undoing, Committed, Landed, Past, Uncommitted,
            InProgress, Forward, Backward, Starting
<1>1. ~Sync
  BY DEF Sync, At, Tidy, KnownOK
<1>2. /\ file' = file /\ intents' = intents /\ at' = at
      /\ \/ pc' = "scan" /\ known' = file /\ todo' = intents
         \/ pc' = "closed" /\ todo' = {}
  BY <1>1 DEF Open, Close, Crash, Stops, disk
<1>3. DiskOK' /\ KnownOK' /\ OpOK'
  BY <1>2, DiskStays DEF Tidy, KnownOK, OpOK
<1>4. Whose' /\ Looking'
  BY <1>2 DEF Whose, Looking, OfOpening
<1>5. SpaceOK'
  BY <1>2, SpaceStays DEF SpaceOK
<1> QED
  BY <1>3, <1>4, <1>5 DEF Tidy

\* A step that changes nothing.
LEMMA NothingTidy ==
    ASSUME Tidy, UNCHANGED vars
    PROVE  Tidy'
<1>1. /\ file' = file /\ known' = known /\ intents' = intents /\ at' = at /\ pc' = pc /\ op' = op
      /\ left' = left /\ todo' = todo /\ handled' = handled
  BY DEF vars
<1>2. DiskOK'
  BY <1>1, DiskStays DEF Tidy
<1>3. /\ \A r : (Early(r)' <=> Early(r)) /\ (Late(r)' <=> Late(r)) /\ (Astray(r)' <=> Astray(r))
      /\ \A r, p : Bent(r, p)' <=> Bent(r, p)
      /\ \A q : NoLinkTo(q)' <=> NoLinkTo(q)
      /\ \A p, q : PlanFor(p, q)' = PlanFor(p, q)
      /\ AtOwner' <=> AtOwner
      /\ \A state : Intent(state)' = Intent(state)
      /\ (OfOpening' <=> OfOpening)
      /\ Here(file') = Here(file)
  BY <1>1 DEF Early, Late, Astray, Bent, NoLinkTo, PlanFor, AtOwner, Intent, OfOpening, Is, Here
<1>4. \A r : (Same(r, op)' <=> Same(r, op))
  BY <1>1 DEF Same
<1>5. (Early(op)' <=> Early(op)) /\ (Late(op)' <=> Late(op)) /\ (Late(handled)' <=> Late(handled))
      /\ (Early(handled)' <=> Early(handled)) /\ (NoLinkTo(op.to)' <=> NoLinkTo(op.to))
      /\ PlanFor(op.from, op.to)' = PlanFor(op.from, op.to)
      /\ \A p : Bent(handled, p)' <=> Bent(handled, p)
  BY <1>1 DEF Early, Late, Bent, NoLinkTo, PlanFor, Is, Here
<1>6. KnownOK' /\ OpOK'
  BY <1>1, <1>3, <1>5 DEF Tidy, KnownOK, OpOK, Is
<1>7. Whose'
  BY <1>1, <1>3, <1>4, <1>5 DEF Tidy, Whose
<1>8. Looking' /\ SpaceOK'
  BY <1>1, <1>3 DEF Tidy, Looking, SpaceOK
<1> QED
  BY <1>2, <1>6, <1>7, <1>8 DEF Tidy

\* While nobody is in the way all of it is kept.
LEMMA TidyStep ==
    ASSUME IInv, MoveInv, LinkInv, Tidy, [Next]_vars, Calm'
    PROVE  Tidy'
<1>1. ~Fault /\ ~Spend("changes")
  BY CalmSteps DEF IInv
<1>2. ASSUME NEW p \in Paths, NEW q \in Paths, p # q, Request(p, q) PROVE Tidy'
  BY <1>2, RequestTidy
<1>3. CASE Renaming
  <2>1. ReadSource \/ PlanRewrites \/ Persist => Tidy'
    BY <1>1, ReadTidy, PlanTidy, PersistTidy
  <2>2. MoveOrganization \/ MoveSpace \/ LandSpace \/ MoveDraft \/ MoveFile => Tidy'
    BY <1>1, MoveOrganizationTidy, MoveSpaceTidy, LandSpaceTidy, MoveDraftTidy, MoveFileTidy
  <2>3. Commit \/ Refuse \/ Verify \/ CancelMoved => Tidy'
    BY <1>1, CommitTidy, RefuseTidy, CancelMovedTidy
  <2>4. ~CancelUnmoved
    BY DEF CancelUnmoved, MarkCancelled, At, Tidy, OpOK, InProgress, Backward
  <2>5. (\E w \in left : Rewrite(w)) \/ RewritesEnd \/ Complete => Tidy'
    BY <1>1, RewriteTidy, RewritesEndTidy, CompleteTidy
  <2>6. UndoOrganization \/ UndoSpace \/ UndoLand \/ UndoDraft \/ MoveBack \/ Drop => Tidy'
    BY <1>1, UndoTidy, MoveBackTidy, DropTidy
  <2> QED
    BY <1>3, <2>1, <2>2, <2>3, <2>4, <2>5, <2>6 DEF Renaming
<1>4. CASE Recovering
  <2>1. ASSUME NEW r \in todo, Resume(r) \/ Return(r) \/ Forget(r) \/ TakeReplay(r) \/ Leave(r)
        PROVE  Tidy'
    BY <2>1, RecoverTidy, ForgetTidy, TakeReplayTidy, LeavesNone
  <2>2. (\E w \in left : Replay(w)) \/ ReplayEnds \/ Clear \/ RecoveryEnds \/ Collect => Tidy'
    BY <1>1, ReplayTidy, ReplayEndsTidy, ClearTidy, OpeningEndsTidy
  <2> QED
    BY <1>4, <2>1, <2>2 DEF Recovering
<1>5. Open \/ Close \/ Crash \/ Sync => Tidy'
  BY AroundTidy
<1>6. ~\E p \in Paths : Change(p) \/ Appear(p)
  BY <1>1 DEF Change, Appear
<1>7. UNCHANGED vars => Tidy'
  BY NothingTidy
<1> QED
  BY <1>2, <1>3, <1>4, <1>5, <1>6, <1>7 DEF Next

\* No rename is under way at the start, and each link leads to another note.
LEMMA InitTidy ==
    ASSUME Init, LinksOtherNotes(file)
    PROVE  Tidy
<1>1. /\ known = file /\ intents = {} /\ pc = "idle" /\ todo = {}
      /\ at["space"] = Home /\ Home \in Here(file) /\ file[Home].note = Owner
  BY StartsAssumption, PlacesType DEF Init
<1>2. DiskOK
  BY <1>1 DEF DiskOK, Straight, Pair, ActiveOK, CancelledOK, Leads, LinksOtherNotes, Here, Is
<1>3. KnownOK /\ OpOK
  BY <1>1 DEF KnownOK, OpOK, Standing, Retreating, Undoing, InProgress, Forward, Backward
<1>4. Whose /\ Looking
  BY <1>1 DEF Whose, Looking, OfOpening, InProgress, Forward, Backward
<1>5. SpaceOK
  BY <1>1 DEF SpaceOK, AtOwner, Past, Uncommitted, Committed, InProgress, Forward, Backward
<1> QED
  BY <1>2, <1>3, <1>4, <1>5 DEF Tidy

\* Without others in the way the data of a note are never thrown away, however
\* often the process dies, renames are refused and asked for again, whatever
\* the collection after the recovery finds (collect_doc_data after
\* recover_explicit_renames): there is no conflict to tell of either.  The vault
\* is to begin with one in which each link leads to another note: a note that
\* links to itself is rewritten while it is moved, and then an opening may find
\* at neither path what the intent has told of.
THEOREM SpaceAlwaysKept == Spec => SpaceIsKept
<1> DEFINE Inv == IInv /\ MoveInv /\ LinkInv /\ (Calm => Tidy)
<1>1. Init /\ LinksOtherNotes(file) => Inv
  <2>1. LinksOtherNotes(file) => NothingDangles(file)
    BY DEF LinksOtherNotes, NothingDangles
  <2> QED
    BY <2>1, InitIInv, InitMoveInv, InitLinkInv, InitTidy
<1>2. Inv /\ [Next]_vars => Inv'
  <2>1. IInv /\ MoveInv /\ [Next]_vars => (IInv /\ MoveInv)'
    BY StepIInv, NoteOnceStep, RememberedStep, ElsewhereStep, ReadLastStep, AnnouncedStep
       DEF MoveInv
  <2>2. Inv /\ [Next]_vars /\ Calm' => Tidy'
    BY TidyStep, CalmSteps DEF IInv
  <2> QED
    BY <2>1, <2>2, LinkInvStep
<1>3. Inv => (Calm => at["space"] # Gone)
  <2> SUFFICES ASSUME IInv, Tidy
               PROVE  at["space"] # Gone
    OBVIOUS
  <2>1. CASE AtOwner
    BY <2>1, PlacesAssumption DEF AtOwner, Here
  <2>2. ASSUME NEW r \in intents, Astray(r)
        PROVE  at["space"] # Gone
    <3>1. r.from \in Paths /\ r.to \in Paths
      BY DEF IInv, InvBy, IntentsBy
    <3> QED
      BY <2>2, <3>1, PlacesAssumption DEF Astray
  <2> QED
    BY <2>1, <2>2 DEF Tidy, SpaceOK
<1> HIDE DEF Inv
<1> QED
  BY <1>1, <1>2, <1>3, PTL DEF Spec, SpaceIsKept

=============================================================================
