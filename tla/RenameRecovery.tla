--------------------------- MODULE RenameRecovery ---------------------------
(***************************************************************************)
(* The rename of a note, the intent it leaves on the disk before it moves  *)
(* anything, and the recovery that the opening of a vault runs on the      *)
(* intents it finds: fub-kernel/src/rename_recovery.rs, the explicit       *)
(* rename of fub-kernel/src/workspace.rs, the spaces of docdata.rs, and    *)
(* recover_explicit_renames of fub-host/src/jobs.rs.                       *)
(*                                                                         *)
(* A rename keeps the turn of the vault from its beginning to its end, as  *)
(* the opening and the ingestion of changes do: there is one operation of  *)
(* Fub at a time, pc is its step, and between two of its steps other       *)
(* programs change the files and the process may die.                      *)
(*                                                                         *)
(* A note is who it is, how many times other programs have changed it, and *)
(* the path its link leads to: the revision of a file is this content.     *)
(* The first note has data beside it in three places, each with the path   *)
(* it is kept for.                                                         *)
(***************************************************************************)
EXTENDS Naturals, FiniteSets

CONSTANTS
    Paths,        \* the paths notes may have
    None,         \* no file, no link, no operation
    Starts,       \* what the files may be at the start
    Owner,        \* the note that has data beside it
    Home,         \* the path it has at the start
    Stranger,     \* the note another program may create
    MaxChanges,   \* bound: the changes other programs make
    Budgets       \* bound: how many deaths of the process, calls to the
                  \* storage that fail, commits the workspace refuses, changes,
                  \* those of them overtaken by an edit and renames there may
                  \* be together

Here(f) == {p \in Paths : f[p] # None}
Notes == (UNION {{f[p].note : p \in Here(f)} : f \in Starts}) \cup {Stranger}
Contents == [note : Notes, edits : 0..MaxChanges, link : Paths \cup {None}]
File == Contents \cup {None}

ASSUME NoneAssumption == None \notin Contents \cup Paths
ASSUME StartsAssumption ==
    \A f \in Starts :
        /\ f \in [Paths -> File]
        /\ Home \in Here(f) /\ f[Home].note = Owner
        /\ \A p \in Here(f) : f[p].edits = 0
        /\ \A p, q \in Here(f) : f[p].note = f[q].note => p = q
Nothing == [crashes |-> 0, faults |-> 0, refusals |-> 0, changes |-> 0,
            overtaken |-> 0, renames |-> 0]
ASSUME BoundsAssumption ==
    /\ MaxChanges \in Nat
    /\ Nothing \in Budgets
    /\ Budgets \subseteq [crashes : Nat, faults : Nat, refusals : Nat,
                          changes : 0..MaxChanges, overtaken : Nat, renames : Nat]

\* An edit of a backlink: the content it is for and the one it gives.
Rewrites == [doc : Paths, base : Contents, result : Contents]
Intents == [from : Paths, to : Paths, pre : Contents,
            state : {"Active", "Cancelled"}, rewrites : SUBSET Rewrites]

Kinds == {"organization", "space", "draft"}
Aside(p) == <<"in-progress", p>>
Gone == <<"gone">>
\* No note is called like a space that is moving (`*.in-progress`), and none of
\* these is nowhere.
ASSUME PlacesAssumption == \A p \in Paths : Aside(p) \notin Paths /\ Gone \notin {p, Aside(p)}
Places == Paths \cup {Aside(p) : p \in Paths} \cup {Gone}

\* Who asked: somebody, the recovery of an untouched source, that of a move
\* that was refused.
Reasons == {"request", "resume", "return"}
Operations == [from : Paths, to : Paths, pre : File, rewrites : SUBSET Rewrites,
               moved : SUBSET Kinds, failed : BOOLEAN, why : Reasons]

Forward == {"read", "plan", "persist", "organization", "space", "land", "draft",
            "move", "commit", "rewrite", "complete"}
Backward == {"verify", "cancel", "undoOrganization", "undoSpace", "undoLand",
             "undoDraft", "moveBack", "cancelAfter", "drop"}
Steps == {"closed", "idle", "scan", "replay", "clear", "collect"}
             \cup Forward \cup Backward

VARIABLES
    file,     \* path -> the file there
    known,    \* path -> what the open workspace has in its index
    intents,  \* .fub/rename-recovery
    at,       \* kind of data -> the path the first note's are kept for
    pc,       \* the step of the operation that has the turn
    op,       \* the rename in progress
    left,     \* its rewrites, or those of a replay, still to do
    todo,     \* the intents the opening has still to look at
    handled,  \* the intent it is looking at
    spent     \* what has been used of the budget

vars == <<file, known, intents, at, pc, op, left, todo, handled, spent>>
disk == <<file, intents, at>>
opening == <<todo, handled>>

TypeOK ==
    /\ file \in [Paths -> File] /\ known \in [Paths -> File]
    /\ intents \subseteq Intents
    /\ \A r, s \in intents :
          <<r.from, r.to, r.pre>> = <<s.from, s.to, s.pre>> => r = s
    /\ at \in [Kinds -> Places]
    /\ pc \in Steps
    /\ op \in Operations \cup {None}
    /\ left \subseteq Rewrites
    /\ todo \subseteq Intents /\ handled \in Intents \cup {None}
    /\ spent \in Budgets

Init ==
    /\ file \in Starts /\ known = file
    /\ intents = {}
    /\ at = [k \in Kinds |-> Home]
    /\ pc = "idle" /\ op = None /\ left = {} /\ todo = {} /\ handled = None
    /\ spent = Nothing

-----------------------------------------------------------------------------
(* Helpers.                                                                *)

At(step) == pc = step
Is(p) == file[p] # None
Spend(what) == spent' = [spent EXCEPT ![what] = @ + 1] /\ spent' \in Budgets
\* A call to the storage that does nothing and says so.
Fault == Spend("faults")

\* The intent of the rename in progress: one for each path, path and preimage.
Same(r, s) == r.from = s.from /\ r.to = s.to /\ r.pre = s.pre
Intent(state) == [from |-> op.from, to |-> op.to, pre |-> op.pre,
                  state |-> state, rewrites |-> op.rewrites]
Without(r) == {s \in intents : ~Same(s, r)}

Go(step) == pc' = step /\ UNCHANGED <<op, opening>>

\* The rename ends: with it the request, or this intent of the opening.
Ends(why, well) ==
    /\ op' = None /\ left' = {}
    /\ pc' = CASE why = "request"         -> "idle"
               [] why = "return" /\ well  -> "clear"
               [] OTHER                   -> "scan"
    /\ UNCHANGED opening
Fails == Ends(op.why, FALSE)

\* fs::rename of a file on a name that has none.
Moves(from, to) ==
    /\ Is(from) /\ ~Is(to)
    /\ file' = [file EXCEPT ![to] = file[from], ![from] = None]

\* apply_edit_detached_inner: the content the edit is for is on the disk still.
\* write_if_unchanged compares, then makes the new file and renames it over the
\* old one; the lock is one only Fub's writers take, so what another program
\* writes in between is overtaken: it is on the disk and then it is not.  Fub
\* does nothing else meanwhile, and the change is part of the step.
Lands(w) == file[w.doc] = w.base
Apply(w) == /\ file' = [file EXCEPT ![w.doc] = w.result]
            /\ known' = [known EXCEPT ![w.doc] = w.result]
Overtakes == /\ spent' = [spent EXCEPT !.changes = @ + 1, !.overtaken = @ + 1]
             /\ spent' \in Budgets
Publish(w) == Lands(w) /\ Apply(w) /\ (UNCHANGED spent \/ Overtakes)

-----------------------------------------------------------------------------
(* What happens to the data beside a note: nothing, or a move.            *)

Keep == UNCHANGED <<disk, known, left>>
Put(kind, place) ==
    /\ at' = [at EXCEPT ![kind] = place]
    /\ UNCHANGED <<file, intents, known, left>>

-----------------------------------------------------------------------------
(* Slips the properties are for: no action below uses these.  Each stands  *)
(* for the action whose name it extends.                                   *)

\* The intent that is there is taken, whatever its state is.
PersistTaking ==
    /\ At("persist") /\ UNCHANGED <<file, at, known, left, spent>>
    /\ Go("organization")
    /\ IF \E r \in intents : Same(r, op) THEN UNCHANGED intents
       ELSE intents' = intents \cup {Intent("Active")}

\* A space an interrupted move has left aside is nobody's.
MoveSpaceAgain ==
    /\ At("space") /\ UNCHANGED spent
    /\ IF at["space"] = op.from THEN Put("space", Aside(op.from)) /\ Go("land")
       ELSE Keep /\ Go("draft")

\* rename instead of rename_no_replace.
MoveFileOver ==
    /\ At("move") /\ Is(op.from) /\ Go("commit")
    /\ file' = [file EXCEPT ![op.to] = file[op.from], ![op.from] = None]
    /\ UNCHANGED <<at, intents, known, left, spent>>

\* The intent goes though an edit has failed.
RewritesEndAnyway ==
    /\ At("rewrite") /\ left = {} /\ Go("complete")
    /\ UNCHANGED <<disk, known, left, spent>>

\* The collection comes before the recovery.
OpenCollecting ==
    /\ At("closed") /\ known' = file /\ todo' = {} /\ pc' = "collect"
    /\ UNCHANGED <<disk, op, left, handled, spent>>

-----------------------------------------------------------------------------
(* The rename: PreparedExplicitRename::invoke.                             *)

Begin(from, to, why) ==
    /\ known[from] # None /\ known[to] = None
    /\ op' = [from |-> from, to |-> to, pre |-> None, rewrites |-> {},
              moved |-> {}, failed |-> FALSE, why |-> why]
    /\ pc' = "read"
    /\ UNCHANGED <<disk, known, left>>

Request(from, to) ==
    /\ At("idle") /\ Begin(from, to, "request")
    /\ Spend("renames") /\ UNCHANGED opening

ReadSource ==
    /\ At("read") /\ UNCHANGED <<disk, known, spent>>
    /\ IF Is(op.from)
       THEN /\ op' = [op EXCEPT !.pre = file[op.from]]
            /\ pc' = "plan" /\ UNCHANGED <<left, opening>>
       ELSE Fails

\* The notes whose link leads to the one that moves, itself included, are
\* those the index knows; what is rewritten is what the disk has of them, if
\* the link is still there (rewrite_links of the formats).
Sources == {s \in Paths : known[s] # None /\ known[s].link = op.from}
Plan == {[doc    |-> IF s = op.from THEN op.to ELSE s,
          base   |-> file[s],
          result |-> [file[s] EXCEPT !.link = op.to]] : s \in Sources}
PlanRewrites ==
    /\ At("plan") /\ UNCHANGED <<disk, known, spent>>
    /\ \/ /\ ~Is(op.to) /\ \A s \in Sources : Is(s) /\ file[s].link = op.from
          /\ op' = [op EXCEPT !.rewrites = Plan]
          /\ pc' = "persist" /\ UNCHANGED <<left, opening>>
       \* Something is there already, a file is missing, or the format does
       \* not find the link at the place the index gives.
       \/ /\ Is(op.to) \/ \E s \in Sources : file[s] # known[s]
          /\ Fails

\* rename_recovery::persist: an intent that is there has to be this one.
Persist ==
    /\ At("persist") /\ UNCHANGED <<file, at, known>>
    /\ LET mine == Intent("Active")
           free == \A r \in intents : Same(r, mine) => r = mine
       IN  \/ /\ free /\ intents' = intents \cup {mine}
              /\ Go("organization") /\ UNCHANGED <<left, spent>>
           \/ ~free /\ Fails /\ UNCHANGED <<intents, spent>>
           \/ Fault /\ Fails /\ UNCHANGED intents

Tracked(kind, place, step) ==
    /\ Put(kind, place)
    /\ op' = [op EXCEPT !.moved = @ \cup {kind}]
    /\ pc' = step /\ UNCHANGED <<opening, spent>>
Strand(step) == op' = [op EXCEPT !.failed = TRUE] /\ pc' = step /\ UNCHANGED opening

\* Organization::migrate; a failure is only reported.
MoveOrganization ==
    /\ At("organization") /\ Go("space")
    /\ \/ at["organization"] = op.from /\ Put("organization", op.to) /\ UNCHANGED spent
       \/ at["organization"] # op.from /\ Keep /\ UNCHANGED spent
       \/ at["organization"] = op.from /\ Keep /\ Fault

\* docdata::migrate_between: the space goes aside, then to its place.
MoveSpace ==
    /\ At("space")
    /\ \/ /\ at["space"] = op.from
          /\ Put("space", Aside(op.from)) /\ Go("land") /\ UNCHANGED spent
       \/ at["space"] = Aside(op.from) /\ Keep /\ Go("land") /\ UNCHANGED spent
       \/ /\ at["space"] \notin {op.from, Aside(op.from)}
          /\ Keep /\ Go("draft") /\ UNCHANGED spent
       \/ at["space"] = op.from /\ Keep /\ Fault /\ Strand("draft")
LandSpace ==
    /\ At("land")
    /\ \/ Tracked("space", op.to, "draft")
       \* It goes back to its name, or stays aside.
       \/ /\ Fault /\ Strand("draft")
          /\ \E place \in {op.from, Aside(op.from)} : Put("space", place)

\* Drafts::migrate_tracked; a space that has not followed stops the rename.
MoveDraft ==
    /\ At("draft")
    /\ LET next == IF op.failed THEN "undoOrganization" ELSE "move"
       IN  \/ at["draft"] = op.from /\ Tracked("draft", op.to, next)
           \/ at["draft"] # op.from /\ Keep /\ Go(next) /\ UNCHANGED spent
           \/ at["draft"] = op.from /\ Keep /\ Go(next) /\ Fault

MoveFile ==
    /\ At("move") /\ UNCHANGED <<at, intents, known, left>>
    /\ \/ Moves(op.from, op.to) /\ Go("commit") /\ UNCHANGED spent
       \/ /\ Is(op.to) \/ ~Is(op.from)
          /\ Go("undoOrganization") /\ UNCHANGED <<file, spent>>
       \/ Fault /\ Go("undoOrganization") /\ UNCHANGED file

-----------------------------------------------------------------------------
(* The commit of the workspace and the rewrites.                           *)

Commit ==
    /\ At("commit") /\ known[op.from] = op.pre
    /\ known' = [known EXCEPT ![op.to] = op.pre, ![op.from] = None]
    /\ left' = op.rewrites
    /\ Go("rewrite") /\ UNCHANGED <<disk, spent>>

\* What was read is not what the index has, or the workspace is not the one
\* the rename was prepared for or takes no changes.
Refuse ==
    /\ At("commit") /\ Go("verify") /\ Keep
    /\ \/ known[op.from] # op.pre /\ UNCHANGED spent
       \/ op.why = "request" /\ Spend("refusals")
       \/ op.why # "request" /\ Fault

\* invoke_rewrites: all of them, also after one has failed.
Rewrite(w) ==
    /\ At("rewrite") /\ w \in left /\ left' = left \ {w}
    /\ UNCHANGED <<intents, at, pc, opening>>
    /\ \/ Publish(w) /\ UNCHANGED op
       \/ /\ ~Lands(w) /\ op' = [op EXCEPT !.failed = TRUE]
          /\ UNCHANGED <<file, known, spent>>
       \* The error comes before the edit is on the disk, or after.
       \/ /\ Lands(w) /\ Fault /\ op' = [op EXCEPT !.failed = TRUE]
          /\ file' \in {file, [file EXCEPT ![w.doc] = w.result]} /\ UNCHANGED known
RewritesEnd ==
    /\ At("rewrite") /\ left = {} /\ UNCHANGED <<disk, known, spent>>
    /\ IF op.failed THEN Fails ELSE Go("complete") /\ UNCHANGED left
Complete ==
    /\ At("complete") /\ UNCHANGED <<file, at, known>>
    /\ \/ intents' = Without(op) /\ Ends(op.why, TRUE) /\ UNCHANGED spent
       \/ Fault /\ Fails /\ UNCHANGED intents

-----------------------------------------------------------------------------
(* Undoing: what moved the data beside the note takes them back, and the   *)
(* intent is marked, before that if the file has moved and after if not.   *)

\* ParsedExplicitRename::rollback.
Verify ==
    /\ At("verify") /\ UNCHANGED <<disk, known>>
    /\ \/ file[op.to] = op.pre /\ Go("cancelAfter") /\ UNCHANGED <<left, spent>>
       \/ file[op.to] # op.pre /\ Fails /\ UNCHANGED spent
       \/ Fault /\ Fails
MarkCancelled(step, next) ==
    /\ At(step) /\ UNCHANGED <<file, at, known>>
    /\ \/ /\ intents' = Without(op) \cup {Intent("Cancelled")}
          /\ Go(next) /\ UNCHANGED <<left, spent>>
       \/ Fault /\ Fails /\ UNCHANGED intents
CancelMoved == MarkCancelled("cancelAfter", "undoOrganization")
CancelUnmoved == MarkCancelled("cancel", "drop")

UndoOrganization ==
    /\ At("undoOrganization") /\ Go("undoSpace")
    /\ \/ at["organization"] = op.to /\ Put("organization", op.from) /\ UNCHANGED spent
       \/ at["organization"] # op.to /\ Keep /\ UNCHANGED spent
       \/ at["organization"] = op.to /\ Keep /\ Fault
UndoSpace ==
    /\ At("undoSpace")
    /\ \/ "space" \in op.moved /\ Put("space", Aside(op.to)) /\ Go("undoLand") /\ UNCHANGED spent
       \/ "space" \notin op.moved /\ Keep /\ Go("undoDraft") /\ UNCHANGED spent
       \/ "space" \in op.moved /\ Keep /\ Go("undoDraft") /\ Fault
UndoLand ==
    /\ At("undoLand") /\ Go("undoDraft")
    /\ \/ Put("space", op.from) /\ UNCHANGED spent
       \/ Fault /\ \E place \in {op.to, Aside(op.to)} : Put("space", place)
UndoDraft ==
    /\ At("undoDraft")
    /\ Go(IF Intent("Cancelled") \in intents THEN "moveBack" ELSE "cancel")
    /\ \/ "draft" \in op.moved /\ Put("draft", op.from) /\ UNCHANGED spent
       \/ "draft" \notin op.moved /\ Keep /\ UNCHANGED spent
       \/ "draft" \in op.moved /\ Keep /\ Fault
MoveBack ==
    /\ At("moveBack") /\ UNCHANGED <<at, intents, known>>
    /\ \/ Moves(op.to, op.from) /\ Go("drop") /\ UNCHANGED <<left, spent>>
       \/ /\ Is(op.from) \/ ~Is(op.to)
          /\ Fails /\ UNCHANGED <<file, spent>>
       \/ Fault /\ Fails /\ UNCHANGED file
Drop ==
    /\ At("drop") /\ Fails /\ UNCHANGED <<file, at, known>>
    /\ \/ intents' = Without(op) /\ UNCHANGED spent
       \/ Fault /\ UNCHANGED intents

-----------------------------------------------------------------------------
(* The opening: recover_explicit_renames, then collect_doc_data.           *)

Open ==
    /\ At("closed")
    /\ known' = file /\ todo' = intents
    /\ pc' = "scan" /\ UNCHANGED <<disk, op, left, handled, spent>>

\* PendingRenameRecovery::classify.
Position(r) ==
    LET whereFrom == r.state = "Active" /\ file[r.from] = r.pre /\ ~Is(r.to)
        whereTo   == r.state = "Active" /\ file[r.to] = r.pre /\ ~Is(r.from)
        undone    == r.state = "Cancelled" /\ file[r.from] = r.pre /\ ~Is(r.to)
        toUndo    == r.state = "Cancelled" /\ file[r.to] = r.pre /\ ~Is(r.from)
    IN  CASE whereFrom -> "Source" [] whereTo -> "Destination"
          [] undone -> "Cancelled" [] toUndo -> "Rollback" [] OTHER -> "Conflict"

Takes(r) ==
    /\ At("scan") /\ r \in todo
    /\ todo' = todo \ {r} /\ handled' = r /\ UNCHANGED spent
GoesOn(step) == pc' = step /\ UNCHANGED <<disk, known, op>>

Resume(r) == Takes(r) /\ Position(r) = "Source" /\ Begin(r.from, r.to, "resume")
Return(r) == Takes(r) /\ Position(r) = "Rollback" /\ Begin(r.to, r.from, "return")
Forget(r) == Takes(r) /\ Position(r) = "Cancelled" /\ GoesOn("clear") /\ UNCHANGED left
TakeReplay(r) ==
    Takes(r) /\ Position(r) = "Destination" /\ GoesOn("replay") /\ left' = r.rewrites
\* A conflict, or a rename the workspace does not begin: the intent stays.
Leave(r) ==
    /\ Takes(r) /\ GoesOn("scan") /\ UNCHANGED left
    /\ \/ Position(r) = "Conflict"
       \/ Position(r) = "Source" /\ (known[r.from] = None \/ known[r.to] # None)
       \/ Position(r) = "Rollback" /\ (known[r.to] = None \/ known[r.from] # None)

\* An edit that is there already is not done twice, one that is neither there
\* nor possible ends the replay.
Replay(w) ==
    /\ At("replay") /\ w \in left
    /\ UNCHANGED <<intents, at, op, opening>>
    /\ \/ /\ file[w.doc] = w.result /\ left' = left \ {w}
          /\ UNCHANGED <<file, known, pc, spent>>
       \/ Publish(w) /\ left' = left \ {w} /\ UNCHANGED pc
       \/ /\ \/ file[w.doc] \notin {w.base, w.result} /\ UNCHANGED spent
             \/ Lands(w) /\ Fault
          /\ left' = {} /\ pc' = "scan" /\ UNCHANGED <<file, known>>
ReplayEnds ==
    /\ At("replay") /\ left = {}
    /\ GoesOn("clear") /\ UNCHANGED <<left, opening, spent>>

\* PendingRenameRecovery::clear.
Clear ==
    /\ At("clear") /\ pc' = "scan"
    /\ UNCHANGED <<file, at, known, op, left, opening>>
    /\ \/ intents' = Without(handled) /\ UNCHANGED spent
       \/ Fault /\ UNCHANGED intents

RecoveryEnds ==
    /\ At("scan") /\ todo = {} /\ handled' = None
    /\ GoesOn("collect") /\ UNCHANGED <<todo, left, spent>>

\* The space of a path that is neither in the index nor on the disk goes.
Collectable == at["space"] \in Paths /\ known[at["space"]] = None /\ ~Is(at["space"])
Collect ==
    /\ At("collect") /\ pc' = "idle"
    /\ at' = IF Collectable THEN [at EXCEPT !["space"] = Gone] ELSE at
    /\ UNCHANGED <<file, intents, known, op, left, opening, spent>>

-----------------------------------------------------------------------------
(* The world.                                                              *)

Stops ==
    /\ pc' = "closed" /\ op' = None /\ left' = {} /\ todo' = {} /\ handled' = None
    /\ known' = [p \in Paths |-> None]
    /\ UNCHANGED disk
Close == At("idle") /\ Stops /\ UNCHANGED spent
Crash == ~At("closed") /\ Stops /\ Spend("crashes")

\* The changes made by others come into the index, in one batch.
Sync ==
    /\ At("idle") /\ known # file
    /\ known' = file
    /\ UNCHANGED <<disk, pc, op, left, opening, spent>>

\* Another program changes the text of a note, or creates one.
Others == UNCHANGED <<intents, at, known, pc, op, left, opening>>
Change(p) ==
    /\ Is(p) /\ Spend("changes") /\ Others
    /\ file' = [file EXCEPT ![p].edits = @ + 1]
Appear(p) ==
    /\ ~Is(p) /\ \A q \in Paths : Is(q) => file[q].note # Stranger
    /\ Spend("changes") /\ Others
    /\ file' = [file EXCEPT ![p] = [note |-> Stranger, edits |-> 0, link |-> None]]

Renaming ==
    \/ ReadSource \/ PlanRewrites \/ Persist
    \/ MoveOrganization \/ MoveSpace \/ LandSpace \/ MoveDraft \/ MoveFile
    \/ Commit \/ Refuse \/ (\E w \in left : Rewrite(w)) \/ RewritesEnd \/ Complete
    \/ Verify \/ CancelMoved \/ CancelUnmoved \/ UndoOrganization \/ UndoSpace
    \/ UndoLand \/ UndoDraft \/ MoveBack \/ Drop

Recovering ==
    \/ \E r \in todo : Resume(r) \/ Return(r) \/ Forget(r) \/ TakeReplay(r) \/ Leave(r)
    \/ (\E w \in left : Replay(w)) \/ ReplayEnds \/ Clear \/ RecoveryEnds \/ Collect

Next ==
    \/ \E p, q \in Paths : p # q /\ Request(p, q)
    \/ Renaming \/ Recovering \/ Open \/ Close \/ Crash \/ Sync
    \/ \E p \in Paths : Change(p) \/ Appear(p)

Spec == Init /\ [][Next]_vars

\* A rename and an opening once begun go on, and a closed vault is opened.
FairSpec == Spec /\ WF_vars(Renaming \/ Recovering) /\ WF_vars(Open)

-----------------------------------------------------------------------------
(* Properties.                                                             *)

\* Other programs and the storage are not in the way: renames are made and
\* refused, and the process dies.  The refusal of one the opening makes counts
\* as a fault: what the first attempt moved is not undone with it, and the space
\* is then collected under a path that has no note.
Calm == spent.changes = 0 /\ spent.faults = 0
\* No edit to do is in the note that has been moved.
NoSelfLink == \A r \in intents : \A w \in r.rewrites : w.doc # r.to

\* What Fub never does, neither in a rename nor in undoing or recovering one:
\* write over a text that is not the one it read.  A step takes a text away only
\* if another program changes that note.  What the other program writes in the
\* window of a conditional write is outside the promise: such a text is lost,
\* and `overtaken` counts it (storage.rs:277-281, "best-effort"); the texts that
\* were there before the window are not.
Texts(f) == {<<f[p].note, f[p].edits>> : p \in Here(f)}
NoTextLost ==
    [][spent'.changes - spent.changes = spent'.overtaken - spent.overtaken
          => Texts(file) \subseteq Texts(file')]_vars

\* A link that leads nowhere is one that some intent on the disk knows of.
DanglingIsKnown ==
    \A p \in Paths : Is(p) /\ file[p].link # None =>
        \/ Is(file[p].link)
        \/ \E r \in intents : file[p].link \in {r.from, r.to}

\* "A crash can then never replay the rejected forward rename"
\* (mark_cancelled): no rename, not even one that is asked for again, makes the
\* move of an intent that is marked.
CancelledStays ==
    [][\A r \in intents :
          At("move") /\ r.state = "Cancelled" /\ file[r.from] = r.pre
              => file'[r.to] # r.pre]_vars

\* Without others in the way the data of a note are never thrown away, if at
\* the start each link leads to another note.  A note that links to itself has a
\* rename whose own edit changes what its intent looks for.
LinksOtherNotes(f) ==
    \A p \in Here(f) : f[p].link = None \/ (f[p].link \in Here(f) /\ f[p].link # p)
SpaceIsKept == LinksOtherNotes(file) => [](Calm => at["space"] # Gone)

\* The last crash does not matter: the vault is opened, and the rename is done
\* or undone as a whole, links and side data included, if no rename has to edit
\* the note it moves.
Settled ==
    /\ intents = {}
    /\ \A p \in Paths : Is(p) /\ file[p].link # None => Is(file[p].link)
    /\ \A k \in Kinds : at[k] \in Paths /\ Is(at[k]) /\ file[at[k]].note = Owner
Recovers == []NoSelfLink => <>[](Calm => Settled)

=============================================================================
