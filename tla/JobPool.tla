------------------------------ MODULE JobPool ------------------------------
(***************************************************************************)
(* The job pool of one open vault: who executes what the components ask    *)
(* for, who can stop it, and how everyone who asked gets an answer.        *)
(*                                                                         *)
(*   - the queue, the identities and the bell of the kernel                *)
(*     (fub-kernel/src/dispatcher.rs, workspace.rs);                       *)
(*   - the workers, the flags of cancellation, the count of who is inside  *)
(*     a bundle, the opening done in slices (fub-host/src/runner.rs);      *)
(*   - the threads that invoke a job directly (JobInvoker), switch a       *)
(*     bundle off and on, cancel, and close the vault                      *)
(*     (fub-host/src/session.rs, teardown.rs, registry.rs).                *)
(*                                                                         *)
(* One action is one critical section: of the workspace, of the flags, of  *)
(* the count of who is inside, of the registry of bundles, of the bell, or *)
(* one look at the atomic `stopping`.  Poisoned locks are left out; what   *)
(* breaks a worker here is an error that poisons nothing.                  *)
(*                                                                         *)
(* A job gets its identity as it enters the queue, so the queue and the    *)
(* batches taken from it are in the order of the identities: they are the  *)
(* sets of what is in them, and the first of a batch is its least.         *)
(***************************************************************************)
EXTENDS Naturals, Sequences

CONSTANTS
    Workers,       \* the threads of the pool
    Callers,       \* the threads that hold a JobInvoker
    Switchers,     \* the threads that switch bundles off and on
    Closer,        \* the thread that closes the vault
    Bundles,       \* the bundles the registry knows
    Timed,         \* those that declare an alarm
    Core,          \* the owner of the job of the opening
    Nobody,
    Slices,        \* the slices of the opening
    MaxJobs,       \* bound: the identities the kernel issues
    MaxCancels,    \* bound: the requests to cancel
    MaxSwitches    \* bound: the times each of Switchers acts

ASSUME ThreadsAssumption ==
    /\ Workers \cap Callers = {}
    /\ Closer \notin Workers \cup Callers
    /\ Nobody \notin Switchers \cup {Closer}
ASSUME BundlesAssumption == Timed \subseteq Bundles /\ Core \notin Bundles
ASSUME BoundsAssumption ==
    /\ MaxJobs \in Nat /\ MaxJobs > 1
    /\ MaxCancels \in Nat
    /\ Slices \in Nat
    /\ MaxSwitches \in Nat

Hands == Workers \cup Callers \cup {Closer}
Ids == 1..MaxJobs

VARIABLES
    owners,     \* id -> who asked for it; its length is what has been issued
    queue,      \* Dispatcher.pending_jobs
    current,    \* the workers whose ticket is still the count of the bell
    answers,    \* id -> the JobDone it has had
    closed,     \* Workspace.closed
    declared,   \* the bundles the kernel has a declaration of
    mounted,    \* the bundles the registry has a body of
    turn,       \* who holds the writer turn across several steps
    flags,      \* id -> Flags.live: no flag, a lowered or a raised one
    seen,       \* Flags.seen, 0 for None
    within,     \* InFlight.within
    stopped,    \* InFlight.stopped
    stopping,   \* Shared.stopping
    opening,    \* where the InProgress of the opening is
    slices,     \* the slices it still has
    pc,         \* hand -> the step it is at
    batch,      \* hand -> the jobs it has in its hands
    spc,        \* switcher -> the step it is at
    target,     \* switcher -> the bundle
    switches,   \* switcher -> the times it has acted
    asked,      \* the cancel between its two locks
    cancels,    \* the requests to cancel so far
    withdrawn   \* history: taken from the queue by a bundle's retirement

kernel   == <<owners, queue, current, answers, closed>>
bundles  == <<declared, mounted, turn>>
inflight == <<within, stopped>>
control  == <<pc, batch>>
switch   == <<spc, target, switches>>
cancel   == <<asked, cancels>>
vars     == <<kernel, bundles, flags, seen, inflight, stopping, opening,
              slices, control, switch, cancel, withdrawn>>

Steps == {"top", "ticket", "drain", "look", "sleep", "doze", "claim", "next",
          "flag", "enter", "body", "inside", "leave", "forget", "answer",
          "slice", "working", "break", "warn", "gone",
          "idle",
          "open", "cancel", "ring", "join", "refuse", "close", "unmount",
          "closed"}

TypeOK ==
    /\ owners \in Seq(Bundles \cup {Core}) /\ Len(owners) <= MaxJobs
    /\ queue \subseteq Ids
    /\ current \subseteq Workers
    /\ answers \in [Ids -> Nat]
    /\ closed \in BOOLEAN
    /\ declared \subseteq Bundles
    /\ mounted \subseteq Bundles
    /\ turn \in Switchers \cup {Closer, Nobody}
    /\ flags \in [Ids -> {"none", "down", "up"}]
    /\ seen \in 0..MaxJobs
    /\ within \subseteq Ids
    /\ stopped \subseteq Bundles
    /\ stopping \in BOOLEAN
    /\ opening \in {"waiting", "taken", "spoilt", "over"}
    /\ slices \in Nat
    /\ pc \in [Hands -> Steps]
    /\ batch \in [Hands -> SUBSET Ids]
    /\ spc \in [Switchers -> {"idle", "await", "held", "stopping", "release",
                              "enable", "mounting"}]
    /\ target \in [Switchers -> Bundles \cup {Nobody}]
    /\ switches \in [Switchers -> Nat]
    /\ asked \in [id : 0..MaxJobs, issued : 0..MaxJobs]
    /\ cancels \in Nat
    /\ withdrawn \subseteq Ids

Issued == Len(owners)
OpeningJob == CHOOSE id \in 1..Issued : owners[id] = Core
\* The job in hand: the first of the batch.
Job(h) == CHOOSE id \in batch[h] : \A other \in batch[h] : id <= other
Owner(h) == owners[Job(h)]
Inside(b) == {id \in within : owners[id] = b}

\* JobBell::ring: the count moves past every ticket taken so far.
RingBell == current' = {}
Go(h, step) == pc' = [pc EXCEPT ![h] = step]
\* The flag of a job that is taken in charge: a raised one stays raised.
Claimed(fs, ids) ==
    [id \in Ids |-> IF id \in ids /\ fs[id] = "none" THEN "down" ELSE fs[id]]
Raised(fs, ids) ==
    [id \in Ids |-> IF id \in ids /\ fs[id] # "none" THEN "up" ELSE fs[id]]
Highest(n, ids) ==
    CHOOSE m \in ids \cup {n} : \A k \in ids \cup {n} : k <= m

-----------------------------------------------------------------------------
(* The vault opens with some of its bundles mounted, the others disabled,  *)
(* with the job of the opening issued, and possibly with one that a bundle *)
(* asked for while it was activated, when there was no pool yet.           *)
Init ==
    /\ \E early \in {<<>>} \cup {<<b>> : b \in Bundles} :
        /\ owners = Append(early, Core)
        /\ queue = 1..Len(early)
        /\ declared \in SUBSET Bundles
        /\ \A k \in 1..Len(early) : early[k] \in declared
    /\ current = {}
    /\ answers = [id \in Ids |-> 0]
    /\ closed = FALSE
    /\ mounted = declared
    /\ turn = Nobody
    /\ flags = [id \in Ids |-> "none"]
    /\ seen = 0
    /\ within = {}
    /\ stopped = {}
    /\ stopping = FALSE
    /\ opening = "waiting"
    /\ slices = Slices
    /\ pc = [h \in Hands |-> IF h \in Workers THEN "top"
                             ELSE IF h = Closer THEN "open" ELSE "idle"]
    /\ batch = [h \in Hands |-> {}]
    /\ spc = [g \in Switchers |-> "idle"]
    /\ target = [g \in Switchers |-> Nobody]
    /\ switches = [g \in Switchers |-> 0]
    /\ asked = [id |-> 0, issued |-> 0]
    /\ cancels = 0
    /\ withdrawn = {}

-----------------------------------------------------------------------------
(* Asking for a job.                                                       *)

\* The job enters the queue and nobody is told.
SpawnUnrung(b) ==
    /\ b \in declared /\ ~closed /\ Issued < MaxJobs
    /\ owners' = Append(owners, b)
    /\ queue' = queue \cup {Issued + 1}
    /\ UNCHANGED <<current, answers, closed, bundles, flags, seen, inflight,
                   stopping, opening, slices, control, switch, cancel,
                   withdrawn>>

\* A component that is declared asks for a job: from its own code, from an
\* event handler, from another job.  A vault that is closing refuses.
Spawn(b) ==
    /\ b \in declared
    /\ ~closed
    /\ Issued < MaxJobs
    /\ owners' = Append(owners, b)
    /\ queue' = queue \cup {Issued + 1}
    /\ RingBell
    /\ UNCHANGED <<answers, closed, bundles, flags, seen, inflight, stopping,
                   opening, slices, control, switch, cancel, withdrawn>>

\* A thread of the host invokes a job of a mounted bundle itself: the kernel
\* gives it an identity and no place in the queue.
Invoke(c, b) ==
    /\ pc[c] = "idle"
    /\ b \in mounted
    /\ ~closed
    /\ Issued < MaxJobs
    /\ owners' = Append(owners, b)
    /\ batch' = [batch EXCEPT ![c] = {Issued + 1}]
    /\ Go(c, "flag")
    /\ UNCHANGED <<queue, current, answers, closed, bundles, flags, seen,
                   inflight, stopping, opening, slices, switch,
                   cancel, withdrawn>>

-----------------------------------------------------------------------------
(* The round of a worker.                                                  *)

\* The opening comes first: its token is taken out of its place.
Top(w) ==
    /\ pc[w] = "top"
    /\ \/ stopping /\ Go(w, "gone") /\ UNCHANGED opening
       \/ /\ ~stopping /\ opening = "waiting"
          /\ opening' = "taken"
          /\ Go(w, "slice")
       \/ ~stopping /\ opening # "waiting" /\ Go(w, "ticket") /\ UNCHANGED opening
    /\ UNCHANGED <<kernel, bundles, flags, seen, inflight, stopping, slices,
                   batch, switch, cancel, withdrawn>>

\* The ticket is taken before the queue is.
Ticket(w) ==
    /\ pc[w] = "ticket"
    /\ current' = current \cup {w}
    /\ Go(w, "drain")
    /\ UNCHANGED <<owners, queue, answers, closed, bundles, flags, seen, inflight, stopping, opening,
                   slices, batch, switch, cancel, withdrawn>>

\* take_pending_jobs: the whole queue.
Drain(w) ==
    /\ pc[w] = "drain"
    /\ batch' = [batch EXCEPT ![w] = queue]
    /\ queue' = {}
    /\ Go(w, IF queue = {} THEN "look" ELSE "claim")
    /\ UNCHANGED <<owners, current, answers, closed, bundles, flags, seen,
                   inflight, stopping, opening, slices, switch,
                   cancel, withdrawn>>

\* `stopping` is read at the top of the round only.
LookOnce(w) ==
    /\ pc[w] = "look"
    /\ Go(w, IF declared \cap Timed = {} THEN "sleep" ELSE "doze")
    /\ UNCHANGED <<kernel, bundles, flags, seen, inflight, stopping, opening,
                   slices, batch, switch, cancel, withdrawn>>

\* With nothing to do, `stopping` is read again, after the ticket.
Look(w) ==
    /\ pc[w] = "look"
    /\ Go(w, IF stopping THEN "gone"
             ELSE IF declared \cap Timed = {} THEN "sleep" ELSE "doze")
    /\ UNCHANGED <<kernel, bundles, flags, seen, inflight, stopping, opening,
                   slices, batch, switch, cancel, withdrawn>>

\* wait_beyond and wait_beyond_or: the bell has rung past the ticket.
Wake(w) ==
    /\ pc[w] \in {"sleep", "doze"}
    /\ w \notin current
    /\ Go(w, "top")
    /\ UNCHANGED <<kernel, bundles, flags, seen, inflight, stopping, opening,
                   slices, batch, switch, cancel, withdrawn>>

\* The time of the nearest alarm has come.
Alarm(w) ==
    /\ pc[w] = "doze"
    /\ Go(w, "top")
    /\ UNCHANGED <<kernel, bundles, flags, seen, inflight, stopping, opening,
                   slices, batch, switch, cancel, withdrawn>>

\* The cursors of the alarms cannot be read or written, before the wait or
\* after it: the error leaves the round.
AlarmFails(w) ==
    /\ \/ pc[w] = "look" /\ ~stopping /\ declared \cap Timed # {}
       \/ pc[w] = "doze"
    /\ Go(w, "break")
    /\ UNCHANGED <<kernel, bundles, flags, seen, inflight, stopping, opening,
                   slices, batch, switch, cancel, withdrawn>>

\* The end of `work` after an error: the whole pool stops, then the bell.
Break(w) ==
    /\ pc[w] = "break"
    /\ stopping' = TRUE
    /\ Go(w, "warn")
    /\ UNCHANGED <<kernel, bundles, flags, seen, inflight, opening, slices,
                   batch, switch, cancel, withdrawn>>
Warn(w) ==
    /\ pc[w] = "warn"
    /\ RingBell
    /\ Go(w, "gone")
    /\ UNCHANGED <<owners, queue, answers, closed, bundles, flags, seen,
                   inflight, stopping, opening, slices, batch, switch,
                   cancel, withdrawn>>

\* The flags of a whole batch are born together.
Claim(w) ==
    /\ pc[w] = "claim"
    /\ flags' = Claimed(flags, batch[w])
    /\ seen' = Highest(seen, batch[w])
    /\ Go(w, "next")
    /\ UNCHANGED <<kernel, bundles, inflight, stopping, opening, slices,
                   batch, switch, cancel, withdrawn>>

\* The next job of the batch: executed, with the flag it has had since the
\* claim, or refused by a pool that stops.
NextJob(w) ==
    /\ pc[w] = "next"
    /\ Go(w, IF stopping THEN "forget" ELSE "enter")
    /\ UNCHANGED <<kernel, bundles, flags, seen, inflight, stopping, opening,
                   slices, batch, switch, cancel, withdrawn>>

-----------------------------------------------------------------------------
(* One job, in the hands of a worker or of the thread that invoked it.     *)

\* Shared::flag, for a job that did not pass through a batch.
Flag(h) ==
    /\ pc[h] = "flag"
    /\ flags' = Claimed(flags, {Job(h)})
    /\ seen' = Highest(seen, {Job(h)})
    /\ Go(h, "enter")
    /\ UNCHANGED <<kernel, bundles, inflight, stopping, opening, slices,
                   batch, switch, cancel, withdrawn>>

\* The door of a bundle that is being switched off is not looked at.
EnterAnyway(h) ==
    /\ pc[h] = "enter"
    /\ within' = within \cup {Job(h)}
    /\ Go(h, "body")
    /\ UNCHANGED <<kernel, bundles, flags, seen, stopped, stopping, opening,
                   slices, batch, switch, cancel, withdrawn>>

\* The job is counted inside before the door is looked at.
EnterCounted(h) ==
    /\ pc[h] = "enter"
    /\ within' = within \cup {Job(h)}
    /\ Go(h, IF Owner(h) \in stopped THEN "forget" ELSE "body")
    /\ UNCHANGED <<kernel, bundles, flags, seen, stopped, stopping, opening,
                   slices, batch, switch, cancel, withdrawn>>

\* Shared::enter, announced before the body is taken.
Enter(h) ==
    /\ pc[h] = "enter"
    /\ IF Owner(h) \in stopped
         THEN Go(h, "forget") /\ UNCHANGED within
         ELSE Go(h, "body") /\ within' = within \cup {Job(h)}
    /\ UNCHANGED <<kernel, bundles, flags, seen, stopped, stopping, opening,
                   slices, batch, switch, cancel, withdrawn>>

\* The body is run unless there is none or the flag is up.
Body(h) ==
    /\ pc[h] = "body"
    /\ Go(h, IF Owner(h) \in mounted /\ flags[Job(h)] # "up"
               THEN "inside" ELSE "leave")
    /\ UNCHANGED <<kernel, bundles, flags, seen, inflight, stopping, opening,
                   slices, batch, switch, cancel, withdrawn>>

\* Inside::drop, when run_job has come back, with a result, an error or a
\* panic that was caught, and when there was nothing to run.
Leave(h) ==
    /\ pc[h] \in {"inside", "leave"}
    /\ within' = within \ {Job(h)}
    /\ Go(h, "forget")
    /\ UNCHANGED <<kernel, bundles, flags, seen, stopped, stopping, opening,
                   slices, batch, switch, cancel, withdrawn>>

\* Shared::forget.
Forget(h) ==
    /\ pc[h] = "forget"
    /\ flags' = [flags EXCEPT ![Job(h)] = "none"]
    /\ Go(h, "answer")
    /\ UNCHANGED <<kernel, bundles, seen, inflight, stopping, opening, slices,
                   batch, switch, cancel, withdrawn>>

\* What comes after an answer.
Following(h) ==
    IF h \in Callers THEN "idle"
    ELSE IF h = Closer THEN
        IF Owner(h) = Core THEN "refuse"
        ELSE IF batch[h] # {Job(h)} THEN "forget" ELSE "close"
    ELSE IF Owner(h) = Core /\ opening = "spoilt" THEN "break"
    ELSE IF batch[h] # {Job(h)} THEN "next" ELSE "top"

\* complete_job, under the turn of with_event_drain.
Answer(h) ==
    /\ pc[h] = "answer"
    /\ turn = Nobody
    /\ answers' = [answers EXCEPT ![Job(h)] = @ + 1]
    /\ opening' = IF Owner(h) = Core THEN "over" ELSE opening
    /\ batch' = [batch EXCEPT ![h] = @ \ {Job(h)}]
    /\ Go(h, Following(h))
    /\ UNCHANGED <<owners, queue, current, closed, bundles, flags, seen,
                   inflight, stopping, slices, switch, cancel,
                   withdrawn>>

-----------------------------------------------------------------------------
(* The opening, in the hands of whoever has taken its token.               *)

\* The flag and `stopping` are looked at once for every slice.
Slice(h) ==
    /\ pc[h] = "slice"
    /\ flags' = Claimed(flags, {OpeningJob})
    /\ seen' = Highest(seen, {OpeningJob})
    /\ IF flags[OpeningJob] = "up" \/ stopping \/ slices = 0
         THEN Go(h, "forget") /\ batch' = [batch EXCEPT ![h] = {OpeningJob}]
         ELSE Go(h, "working") /\ UNCHANGED batch
    /\ UNCHANGED <<kernel, bundles, inflight, stopping, opening, slices,
                   switch, cancel, withdrawn>>

\* The slice is in the indices and the token back in its place.
PutBack(w) ==
    /\ pc[w] = "working"
    /\ slices' = slices - 1
    /\ opening' = "waiting"
    /\ Go(w, "top")
    /\ UNCHANGED <<kernel, bundles, flags, seen, inflight, stopping, batch,
                   switch, cancel, withdrawn>>

\* A slice, or the phase that ends the opening, panics or fails: its job is
\* answered all the same, and the error leaves the round of the worker.
Spoil(w) ==
    /\ \/ pc[w] = "working" /\ batch' = [batch EXCEPT ![w] = {OpeningJob}]
       \/ /\ pc[w] = "forget" /\ Owner(w) = Core /\ opening = "taken"
          /\ UNCHANGED batch
    /\ opening' = "spoilt"
    /\ Go(w, "forget")
    /\ UNCHANGED <<kernel, bundles, flags, seen, inflight, stopping, slices,
                   switch, cancel, withdrawn>>

-----------------------------------------------------------------------------
(* Cancelling, from any thread.                                            *)

\* The mark of what has been issued is read under the workspace.
AskCancel(id) ==
    /\ pc[Closer] = "open"
    /\ asked.id = 0
    /\ cancels < MaxCancels
    /\ asked' = [id |-> id, issued |-> Issued]
    /\ cancels' = cancels + 1
    /\ UNCHANGED <<kernel, bundles, flags, seen, inflight, stopping, opening,
                   slices, control, switch, withdrawn>>

\* Whatever is past the mark of the pool gets a flag, issued or not.
CancelUnissued ==
    LET id == asked.id IN
    /\ id # 0
    /\ flags' = [flags EXCEPT ![id] = IF @ # "none" \/ id > seen THEN "up" ELSE @]
    /\ asked' = [id |-> 0, issued |-> 0]
    /\ UNCHANGED <<kernel, bundles, seen, inflight, stopping, opening, slices,
                   control, switch, cancels, withdrawn>>

\* Flags::cancel.
Cancel ==
    LET id == asked.id
        raised == CASE flags[id] # "none" -> "up"
                    [] id > seen /\ id <= asked.issued -> "up"
                    [] OTHER -> "none"
    IN  /\ id # 0
        /\ flags' = [flags EXCEPT ![id] = raised]
        /\ asked' = [id |-> 0, issued |-> 0]
        /\ UNCHANGED <<kernel, bundles, seen, inflight, stopping, opening,
                       slices, control, switch, cancels, withdrawn>>

-----------------------------------------------------------------------------
(* Switching a bundle off and on.                                          *)

SetOff(g, b, step) ==
    /\ spc[g] = "idle"
    /\ pc[Closer] = "open"
    /\ switches[g] < MaxSwitches
    /\ spc' = [spc EXCEPT ![g] = step]
    /\ target' = [target EXCEPT ![g] = b]
    /\ switches' = [switches EXCEPT ![g] = @ + 1]
StepTo(g, step) ==
    /\ spc' = [spc EXCEPT ![g] = step]
    /\ UNCHANGED <<target, switches>>
Done(g) ==
    /\ spc' = [spc EXCEPT ![g] = "idle"]
    /\ target' = [target EXCEPT ![g] = Nobody]
    /\ UNCHANGED switches

\* Shared::shutdown up to its wait: the door is closed and whoever is inside
\* is asked to stop.
Shutdown(g, b) ==
    /\ SetOff(g, b, "await")
    /\ stopped' = stopped \cup {b}
    /\ flags' = Raised(flags, Inside(b))
    /\ UNCHANGED <<kernel, bundles, seen, within, stopping, opening, slices,
                   control, cancel, withdrawn>>

\* Nobody is inside any more: the permit is given.
Permit(g) ==
    /\ spc[g] = "await"
    /\ Inside(target[g]) = {}
    /\ StepTo(g, "held")
    /\ UNCHANGED <<kernel, bundles, flags, seen, inflight, stopping, opening,
                   slices, control, cancel, withdrawn>>

\* The turn is taken and the body out of the registry; a bundle the kernel
\* does not know is left as it is.
RemoveBody(g) ==
    /\ spc[g] = "held"
    /\ turn = Nobody
    /\ IF target[g] \in declared
         THEN turn' = g /\ mounted' = mounted \ {target[g]} /\ StepTo(g, "stopping")
         ELSE UNCHANGED <<turn, mounted>> /\ StepTo(g, "release")
    /\ UNCHANGED <<kernel, declared, flags, seen, inflight, stopping, opening,
                   slices, control, cancel, withdrawn>>

\* The jobs are answered and stay in the queue.
RetireInQueue(b) ==
    LET theirs == {id \in queue : owners[id] = b}
    IN  /\ declared' = declared \ {b}
        /\ UNCHANGED queue
        /\ answers' = [id \in Ids |-> answers[id] + IF id \in theirs THEN 1 ELSE 0]
        /\ withdrawn' = withdrawn \cup theirs

\* The jobs stay where they are.
RetireAlone(b) ==
    /\ declared' = declared \ {b}
    /\ UNCHANGED <<queue, answers, withdrawn>>

\* The declaration of b goes, and its jobs leave the queue with an answer.
Retire(b) ==
    LET theirs == {id \in queue : owners[id] = b}
    IN  /\ declared' = declared \ {b}
        /\ queue' = queue \ theirs
        /\ answers' = [id \in Ids |-> answers[id] + IF id \in theirs THEN 1 ELSE 0]
        /\ withdrawn' = withdrawn \cup theirs

\* The kernel retires what the bundle had, after its deactivate.
Deactivated(g) ==
    /\ spc[g] = "stopping"
    /\ Retire(target[g])
    /\ turn' = Nobody
    /\ StepTo(g, "release")
    /\ UNCHANGED <<owners, current, closed, mounted, flags, seen, inflight,
                   stopping, opening, slices, control, cancel>>

\* ShutDown::drop, after the turn.
Release(g) ==
    /\ spc[g] = "release"
    /\ stopped' = stopped \ {target[g]}
    /\ Done(g)
    /\ UNCHANGED <<kernel, bundles, flags, seen, within, stopping, opening,
                   slices, control, cancel, withdrawn>>

\* The session is let go before the turn is asked for: the vault may close
\* in between.
Enable(g, b) ==
    /\ SetOff(g, b, "enable")
    /\ UNCHANGED <<kernel, bundles, flags, seen, inflight, stopping, opening,
                   slices, control, cancel, withdrawn>>

\* The declaration comes first; the bell says that there are alarms to count.
\* A bundle that is declared already is left as it is.
Declare(g) ==
    /\ spc[g] = "enable"
    /\ turn = Nobody
    /\ IF target[g] \in declared THEN UNCHANGED <<declared, turn>> /\ Done(g)
         ELSE /\ declared' = declared \cup {target[g]}
              /\ turn' = g
              /\ StepTo(g, "mounting")
    /\ IF target[g] \in Timed \ declared THEN RingBell ELSE UNCHANGED current
    /\ UNCHANGED <<owners, queue, answers, closed, mounted, flags, seen,
                   inflight, stopping, opening, slices, control, cancel,
                   withdrawn>>

\* The body enters the registry after it has been activated.
Mount(g) ==
    /\ spc[g] = "mounting"
    /\ mounted' = mounted \cup {target[g]}
    /\ turn' = Nobody
    /\ Done(g)
    /\ UNCHANGED <<kernel, declared, flags, seen, inflight, stopping, opening,
                   slices, control, cancel, withdrawn>>

\* The bundle cannot be activated or registered: its declaration goes.
MountFails(g) ==
    /\ spc[g] = "mounting"
    /\ Retire(target[g])
    /\ turn' = Nobody
    /\ Done(g)
    /\ UNCHANGED <<owners, current, closed, mounted, flags, seen, inflight,
                   stopping, opening, slices, control, cancel>>

-----------------------------------------------------------------------------
(* Closing the vault: JobRunner::stop, then close_session_resources.       *)

\* Who cancels, and who switches a bundle off until its jobs are out, has the
\* sessions in its hands: the session is not taken out of the map meanwhile.
Stop ==
    /\ pc[Closer] = "open"
    /\ \A g \in Switchers : spc[g] # "await"
    /\ asked.id = 0
    /\ stopping' = TRUE
    /\ Go(Closer, "cancel")
    /\ UNCHANGED <<kernel, bundles, flags, seen, inflight, opening, slices,
                   batch, switch, cancel, withdrawn>>

CancelAll ==
    /\ pc[Closer] = "cancel"
    /\ flags' = Raised(flags, Ids)
    /\ Go(Closer, "ring")
    /\ UNCHANGED <<kernel, bundles, seen, inflight, stopping, opening, slices,
                   batch, switch, cancel, withdrawn>>

Ring ==
    /\ pc[Closer] = "ring"
    /\ RingBell
    /\ Go(Closer, "join")
    /\ UNCHANGED <<owners, queue, answers, closed, bundles, flags, seen,
                   inflight, stopping, opening, slices, batch, switch,
                   cancel, withdrawn>>

\* The threads are back: the opening nobody has finished is closed here.
Join ==
    /\ pc[Closer] = "join"
    /\ \A w \in Workers : pc[w] = "gone"
    /\ IF opening = "waiting"
         THEN opening' = "taken" /\ Go(Closer, "slice")
         ELSE UNCHANGED opening /\ Go(Closer, "refuse")
    /\ UNCHANGED <<kernel, bundles, flags, seen, inflight, stopping, slices,
                   batch, switch, cancel, withdrawn>>

\* refuse_pending: the jobs left in the queue are refused one by one.
RefusePending ==
    /\ pc[Closer] = "refuse"
    /\ batch' = [batch EXCEPT ![Closer] = queue]
    /\ queue' = {}
    /\ Go(Closer, IF queue = {} THEN "close" ELSE "forget")
    /\ UNCHANGED <<owners, current, answers, closed, bundles, flags, seen,
                   inflight, stopping, opening, slices, switch,
                   cancel, withdrawn>>

\* prepare_close, under the turn that the whole teardown keeps.
PrepareClose ==
    /\ pc[Closer] = "close"
    /\ turn = Nobody
    /\ turn' = Closer
    /\ closed' = TRUE
    /\ Go(Closer, "unmount")
    /\ UNCHANGED <<owners, queue, current, answers, declared, mounted, flags,
                   seen, inflight, stopping, opening, slices, batch,
                   switch, cancel, withdrawn>>

\* The bundles are unmounted without a permit: the pool has stopped.
Unmount(b) ==
    /\ pc[Closer] = "unmount"
    /\ b \in declared
    /\ mounted' = mounted \ {b}
    /\ Retire(b)
    /\ UNCHANGED <<owners, current, closed, turn, flags, seen, inflight, stopping,
                   opening, slices, control, switch, cancel>>

FinishClose ==
    /\ pc[Closer] = "unmount"
    /\ declared = {}
    /\ turn' = Nobody
    /\ Go(Closer, "closed")
    /\ UNCHANGED <<kernel, declared, mounted, flags, seen, inflight, stopping,
                   opening, slices, batch, switch, cancel, withdrawn>>

-----------------------------------------------------------------------------
Run(h) == Flag(h) \/ Enter(h) \/ Body(h) \/ Leave(h)
          \/ Forget(h) \/ Answer(h) \/ Slice(h)
Round(w) == Top(w) \/ Ticket(w) \/ Drain(w) \/ Look(w) \/ Wake(w) \/ Claim(w)
            \/ NextJob(w) \/ PutBack(w) \/ Break(w) \/ Warn(w)
Closing == CancelAll \/ Ring \/ Join \/ RefusePending \/ PrepareClose
           \/ (\E b \in Bundles : Unmount(b)) \/ FinishClose
Switching(g) == Permit(g) \/ RemoveBody(g) \/ Deactivated(g) \/ Release(g)
                \/ Declare(g) \/ Mount(g)
Asking ==
    \/ \E b \in Bundles : Spawn(b)
    \/ \E c \in Callers, b \in Bundles : Invoke(c, b)
    \/ \E id \in Ids : AskCancel(id)
    \/ \E g \in Switchers, b \in Bundles : Shutdown(g, b) \/ Enable(g, b)
    \/ Stop
Failing(w) == Alarm(w) \/ AlarmFails(w) \/ Spoil(w)

Next ==
    \/ \E h \in Hands : Run(h)
    \/ \E w \in Workers : Round(w) \/ Failing(w)
    \/ \E g \in Switchers : Switching(g) \/ MountFails(g)
    \/ Closing
    \/ Cancel
    \/ Asking

Spec == Init /\ [][Next]_vars

\* Every thread that has begun goes on, and the code of a job comes back.
\* Nobody has to ask for anything, no alarm has to ring, nothing has to fail.
FairSpec ==
    /\ Spec
    /\ \A h \in Hands : WF_vars(Run(h))
    /\ \A w \in Workers : WF_vars(Round(w))
    /\ \A g \in Switchers : WF_vars(Switching(g))
    /\ WF_vars(Closing)
    /\ WF_vars(Cancel)

-----------------------------------------------------------------------------
\* A job has at most one JobDone, whoever it ends with: a worker, the thread
\* that invoked it, the retirement of its bundle or the close.
OneAnswer == \A id \in Ids : answers[id] <= 1

\* Who holds the permit to switch a bundle off finds nobody inside its code,
\* and nobody enters it meanwhile (ShutDown, with one thread that switches).
NobodyInside ==
    \A g \in Switchers : spc[g] \in {"held", "stopping", "release"} =>
        \A h \in Hands : pc[h] = "inside" => Owner(h) # target[g]

\* A worker asleep on the bell has nothing to wake for: no job in the queue,
\* and of a pool that is stopping the bell is still to ring (the ticket).
NoLostRing ==
    \A w \in Workers : pc[w] \in {"sleep", "doze"} /\ w \in current =>
        /\ queue = {}
        /\ stopping => \/ pc[Closer] \in {"cancel", "ring"}
                       \/ \E v \in Workers : pc[v] = "warn"

\* No flag is left behind by a job that has had its answer, except by one
\* that the retirement of its bundle took from the queue (Flags::cancel).
FlagsHaveAJob ==
    \A id \in Ids : flags[id] # "none" =>
        /\ id <= Issued
        /\ answers[id] = 0 \/ id \in withdrawn

\* When the vault is closed every job has had its answer, but for those that
\* a thread of the host invoked and still has in its hands.
ClosedIsAnswered ==
    pc[Closer] = "closed" =>
        \A id \in 1..Issued : answers[id] = 1 \/ \E c \in Callers : id \in batch[c]

\* The pool has stopped and nobody is closing the vault.
Broken == stopping /\ pc[Closer] = "open"

\* Who asks for a job is answered, as long as the pool does not break.
JobsAreAnswered ==
    \A id \in Ids : id <= Issued ~> answers[id] = 1 \/ Broken

\* A close that has begun comes to its end.
CloseEnds == pc[Closer] # "open" ~> pc[Closer] = "closed"

\* Who switches a bundle off gets the permit.
PermitIsGiven == \A g \in Switchers : spc[g] = "await" ~> spc[g] # "await"

\* Who asks for a job is answered, even by a pool that has stopped itself
\* after an error: «da quel momento chi accoda un job riceve il rifiuto invece
\* di aspettare per sempre» (Shared::work).
NobodyWaitsForever == \A id \in Ids : id <= Issued ~> answers[id] = 1
=============================================================================
