# Fub: a verification development

TLA+ models of the parts of Fub whose correctness depends on an order of steps,
the TLC configurations that check them on small instances, and the proofs, checked
by TLAPS, of what holds for every value of the constants. Every definition is
translated from the Rust source; `PROJECT.json` says from which lines.

Six parts are modelled: **who may wait for whom** when component instances and
writer turns are held across foreign code, **the replacement of a vault by a
snapshot** with its recovery, **the job pool** of an open vault, **the rename of a
note** with its recovery, **the synchronisation of a vault** between replicas, and
**the live session** of a writer on another device. Each has several actors or
several lives of the process, and a test reaches only the orders somebody thought
of.

## The system

| Part | State | Operations | What is hard |
|---|---|---|---|
| Wait graph (`fub-host/src/waits.rs`) | who holds each instance, who awaits one, who awaits whose turn | hold, await, look for a cycle, let go | one global section for the check and the registration; an edge recorded earlier may be stale |
| Instance lock (`fub-wasm-host/src/instance_lock.rs`) | a mutex for each component, its poison | `lock_tracked`, the two drops of `HeldInstance` | the mutex and the graph change one after the other |
| Custody (`fub-host/src/custody.rs`) | writer turn (owner, depth, condvar), data lock, poison | `write_turn`, `write_turn_yielding`, `write`, the drop | re-entrance, wakeups, cancellation, a job inside a component that asks for the turn |
| Job runner (`fub-host/src/runner.rs`, `jobs.rs`, `fub-kernel/src/dispatcher.rs`) | queue, threads, alarms, cancellation flags, who is inside a bundle | spawn, claim, complete, cancel, shut a bundle down, stop | one answer for each accepted job; stop against a late ticket |
| Snapshot (`fub-kernel/src/snapshot.rs`) | the live root, staging, old, rejected and record beside it | apply, recover | crash, power loss, I/O error, writers outside the lock |
| Renames and their recovery (`fub-kernel/src/rename_recovery.rs`, `workspace.rs`, `docdata.rs`) | a durable intent, the data beside the note | rename, undo, replay, collect | a crash between the moves and the edits of the backlinks, files changed meanwhile |
| Workspace (`fub-kernel/src/workspace.rs`, `documents.rs`, `vault.rs`) | documents, their revisions, the trash | write, edit, trash, restore | revisions read before a callback and used after it |
| Sessions (`fub-host/src/session.rs`, `teardown.rs`, `vaults.rs`) | a map of open vaults, the current one | open, switch, close | callbacks during a teardown |
| Bundles (`fub-host/src/registry.rs`) | what is declared and mounted | enable, disable | all or nothing with foreign code in the middle |
| Watcher (`fub-host/src/watcher.rs`) | pending changes | coalesce, reconcile | changes that are one's own |
| Managed plugins (`fub-wasm-host/src/managed.rs`) | installed, consented, enabled, revoked | install, consent, enable, revoke | consent given to other bytes |
| Synchronisation (`fub-host/src/remote/bundle.rs`, `fub-services/src/sync`) | outbox, cursor, conflicts on each replica; chains, tombstones, logs on the service | collect, push, acknowledge, pull, apply, retry | lost answers, crashes on both sides, edits during a pass |
| Live sessions (`fub-live`, `apps/client/src/editors/spatial/live`) | tokens, commits in flight, answers kept, the log of the document, the queue of a connection | commit, answer, resume, end | connections that fall, messages lost, repeated and late |
| Account and publish services (`fub-services`) | accounts, sessions, sites | authenticate, publish | requests of one vault or site at a time |
| Formats, features, scene, importers | none beyond their input | parse, convert, render | data, not order |
| Shells (`fub-app`, `fub-cli`, `apps/`) | windows, connections | I/O | presentation |

How they meet: a shell calls the host; the host opens a session, which first
recovers snapshots, then mounts bundles; a save takes the writer turn of the
workspace and calls components through their instance locks; a job runs on a
thread of the runner, inside a component, and asks for the turn to write; the wait
graph keeps the last two from stopping each other. The opening also looks at the
intents of interrupted renames. The pass of the synchronisation is such a job; it
writes notes as any other program does, by comparison with what it read. The shell of
a live session edits the document and the host of it carries commits and changes. The
kernel emits events to a bus, and writes the vault through the storage layer.

What makes each part correct is in `PROJECT.json` under `hazards`, each at the line
where it bites, with the properties that would catch it going wrong.

## The modules

### `WaitGraph`, `CycleWalk`, `WriteTurn`: who may wait for whom

`WaitGraph` has the state of `waits.rs`: `held` (the instance to thread map),
`instWait` (who is blocked on which instance) and `turnWait` (who stands in line
for a turn, and who owned it when they looked last). `InstancesLeadBackTo` and
`ClosesCycle` are the two questions asked of it. They are written as a quantifier
over paths, not as the loops of the code.

`CycleWalk` is those loops, an iteration an action, from every graph whatever, so
that a stale edge or a cycle that does not go through who asks is one of its
initial states. It shows that the loops end and that they answer what `WaitGraph`
says they do; `WriteTurn` then uses the operators.

`WriteTurn` composes the graph with the instance mutexes and with the turns. One
action is one critical section: of a mutex, of the registry of a turn, or of the
graph. So the window between `mutex.lock()` coming back and the wait leaving the
graph is the state `"got"`, that between owning the mutex and the hold being in the
graph is `"locked"`, and that between the hold leaving the graph and the mutex being
free is `"unheld"`. A wait that may refuse keeps the registry while it asks the
graph (`"check"`); the drop of a turn calls `notify_one` after it has let the
registry go (`"leave"`). `pc`, `want` and `mode` are the place, the object and the
door (`write_turn`: `"plain"`; `write` inside a component: `"yielding"`; a job's
turn, with its cancellation: `"job"`) of a thread's request. What a thread does
between requests is free: foreign code may ask for anything `MayAsk` allows, give
back in any order, panic, or never return. Its requests are not counted: it asks
again as often as it likes, and `MaxDepth` bounds only how often it has each turn at once. A
thread of the pool that has ended a cancelled job goes on with another (`Forget`), so a
cancellation does not last for ever either.

Two rules of use in the callers are guards of the model, both stated in it:
`write_turn` is not called inside a component except by the owner of that turn
(`write` is the door that chooses), and a thread that has a turn other than the
workspace's has the workspace's too, or asks for nothing meanwhile (`MayAsk`).

Left out: the data `RwLock` and its poison, `make_way` and the count of who stands
in line (a courtesy among threads, it changes no owner), `try_write_turn` (used by
the benches alone).

### `AtomicReplace`, `SnapshotApply`: a vault changes in one step or not at all

`AtomicReplace` is the promise: a content, requests made against a content, and one
step that replaces it if it is still that one.

`SnapshotApply` is `SnapshotApplier::apply` and `recover_locked`, one action for
each change of the disk and each fsync. `disk` is what programs see. `after` is the
set of the disks a power loss may leave: each change adds to it the same change made
on the disks that may come to have it, each fsync takes out those that differ in
what was synced. In a world that does not reorder a later change of names is durable only
if the earlier ones are, as on a journalling file system; in one that does each change is
on its own. A directory is its content, `Torn` when part of it is missing, so that the
deletion of a tree is many steps; a content is the identity of a manifest digest.

The world is `Stop` (a crash of the process, or an error that leaves the rest to
recovery), `Fail` (an error before the commit, undone by `abort_precommit`),
`PowerLoss`, `WriteBack` and `Edit` (a program that does not use the lock). An `Edit`
may come at any moment, also in the middle of a publication or of a recovery that nobody
has synced, with two restrictions. Between the last look at the base and the rename that
uses it nothing can see it: the decision record 0202 leaves it out of what is guaranteed, and
so does the guard `Unseen`. And it is durable at once, with the names that lead to it: what
its own writer has not synced a power loss may take whatever the applier does, so nothing
could be said of it. `had` remembers the transactions whose content the root has had: only
when it has may the content a transaction was made against go (`NothingLost`).

`MCSnapshotApply` has one instance for three worlds: crashes and a power loss for the
applier alone (`Orderly({}, 2, 1)`), the same among writers outside the lock, one of
whom writes the very content to publish (`Orderly(Edits, 2, 1)`), and power losses on a
file system that keeps no order. A behaviour belongs to one of them from `Init` on.

Left out: the container format (manifest, digests, classes of files, loading and
saving a bundle), records of other schemas, which recovery skips, and malformed
ones, which it refuses without touching the disk.

### `JobPool`, `MCJobPool`: every job is answered once

One open vault, from the start of its pool to its close. `owners`, `queue`, `answers`
and `closed` are the kernel's (`dispatcher.rs`, `workspace.rs`); `flags` and `seen` are
`Flags`, `within` and `stopped` are `InFlight`, `stopping` and `opening` the fields of
`Shared` (`runner.rs`); `declared` and `mounted` are what the kernel and the registry
say of a bundle. `pc` and `batch` are the place of a worker, of a thread that invokes a
job itself and of the thread that closes, with the jobs each has in its hands; `spc`
and `target` those of a thread that switches a bundle off or on. An action is one
critical section: of the workspace, of the flags, of `InFlight`, of the registry, of
the bell, or one look at `stopping`. So a worker's round is `Top`, `Ticket`, `Drain`,
then `Look` and sleep, or `Claim` and for each job `NextJob`, `Enter`, `Body`, `Leave`,
`Forget`, `Answer`: whoever acts in between acts in between.

`queue` and the batches in hand are sets of identities: the kernel issues identities in
the order of the queue and nothing puts a job back, so the least identity is the first of
the queue, and that is how a thread chooses its next (`Job`).

The count of the bell is abstracted to `current`, the workers whose ticket is still the
count: a ring empties it. The writer turn is a guard, `turn = Nobody`, in the steps that
take it and let it go at once (`Answer`), and a variable in those that keep it across
foreign code (switching a bundle, the close). The reading of the registry and the issue
of an identity by who invokes a job are one step: whether the bundle is still mounted
is asked again in `Body`. An alarm is a wakeup that may come at any time. What may go
wrong without poisoning anything is an action: the cursors of the alarms
(`AlarmFails`), any phase of the opening (`Spoil`), the activation of a bundle
(`MountFails`).

Two rules of the callers are guards of `Stop`: who cancels, and who waits for the jobs
of a bundle to be out, has the map of the sessions for reading, and `close_vault` takes
the session out of it for writing.

Left out: poisoned locks, the start of the workers (`WorkerStartGate`) and its failure,
the arithmetic of alarms and what their files hold, what a job does with its `JobHost`.

### `RenameRecovery`: a rename is done or undone as a whole

`PreparedExplicitRename::invoke` with its rollback, `recover_explicit_renames` and the
collection of the spaces at the opening. A rename keeps the turn of the vault, so there
is one operation of Fub at a time: `pc` is its step, each a change of the disk or a look
at it, and between any two another program may change a file (`Change`, `Appear`), the
storage may fail (`Fault`) and the process may die (`Crash`). `file` is the disk, `known`
the index of the open workspace, `intents` the directory `.fub/rename-recovery`, `at` the
path each kind of data beside the first note is kept for (organization, space of the
features, draft), with the place where a space is put aside in the middle of its move. A
file is who the note is, how often others changed it and where its link leads: its
revision is all three, so an intent whose edit is for another content does not land.

An edit is a conditional write (`write_if_unchanged`), exact among Fub's own writers only:
`storage.rs:277-281` calls it best-effort against a process that ignores the lock, because
`rooted.rs:491-515` compares, writes the new file beside the old one and then renames. What
another program writes in that window is part of `Publish`: it is on the disk for a moment
and the rename takes it away (`Overtakes`, counted by `spent.overtaken`).

The forward steps are `ReadSource` to `Complete`, the backward ones `Verify` to `Drop`;
`Position` is `PendingRenameRecovery::classify`, and what the opening does with each of
its answers is an action.

Left out: attachments and folders (the same protocol), names that differ only in case, what
already occupies a place of the data beside a note, notes renamed by others while the vault is
closed and joined again by their identity, an indexing that is interrupted. An edit replayed by
the opening that fails after its publication is left out as well (it would be met again as one
that is done). The order of the rewrites is left open. `Sync` takes in all the changes of others
in one batch.

### `VersionVectors`, `SyncService`, `SyncPass`: replicas come to agree and lose nothing

`VersionVectors` is `causality.rs`. `SyncService` is the service as operators on the
folded state of a vault: the fold of an operation, the answer to a push (the log of the
replica first, then the batch), a page of a pull. Requests of a vault are served under
its lock, so a request is a step of who sends it.

`SyncPass` is the job of the pass on each replica, between files that survive (`outbox`,
`cursor`, `blocked`, the notes) and what it has in memory (`job`), which `Fail` and every lost
answer throw away. `Collect` is one step where `bundle.rs:940-982` reads the notes there are and
then looks for those that are missing. `PushAnswerLost` and `PushUnsaved` are the two ways in
which the service has done more than the replica knows. The user edits at any point: `Look`
reads the revision of a note, `Act` decides on it and writes only if the note still has it. A
conflict keeps its note out of the pass; the user may settle it by bringing back the text that
was synced (`Restore`) and release it by `sync.retry`, which makes two durable writes: `Retry`
takes the conflict out of `conflicts.json`, `Forget` the note out of those taken for synced, and
between them the host may stop or the write fail (`BreakOff`). Three history variables say what
is owed: `owed`, the texts whose user has neither replaced nor removed them; `lapsed`, those the
service acknowledged and stored nowhere; and `amiss`, the documents for which the code itself
gives up agreement, a release that broke off among them (see *Seen while modelling*). The loops
of the service and of the queue are folds (`Replay`, `Push`, `Keeping`, `Unknown`), so that what
they compute can be proved. `Start` says with what a behaviour begins: a vault nobody has
anything in, or one note that one replica made and all have synced.

Left out: keys, epochs, shares and permissions, sizes and quotas, retention (with the pruning of
a chain at `MAX_VERSIONS_PER_DOC`, `versions.rs:167-170`), the trash and the restore of a
version on the service, a user who brings back an old text outside of a conflict, renames (no
client sends them), the one-way modes, `sync.push-now`, the pause, conflict copies as notes to
be synced in turn, a torn log and its quarantine.

### `LiveHost`, `LiveSession`: a commit is applied once and its fate is told

`LiveHost` is `host/session.rs` and the queue of `host/outbox.rs` as operators on the
state of the session: `Admit` (a hello, the new token, the old one valid until the first
message), `Receive`, `Send` (what the shell says), `Prune` (which answers are kept),
`AppendLog` (the log for who enters, with its two bounds), `Push` (a snapshot makes what
precedes it useless, a full queue closes the connection).

`LiveSession` composes it with `LiveClient`, the network, the task of each connection and
`LiveSession` of the shell. `up` is what the client has sent on a connection; `Lose` cuts
its end, and the host may read the rest long after another attempt has begun. `box` is
what the host has queued, and a loss takes it away. `events` are the events for the shell,
`sending` its calls, each an asynchronous step in the order of the calls; an event `gone`
makes it ask which commits wait (`Reconcile`, one step: the events that come meanwhile
stay in their order behind it, so what the question finds a commit of is answered once).
The document is the sequence of its changes, so a counter names a prefix: `client.seen` is
how far the writer's is in step, -1 when a gap has spoilt it.

Left out: the pairing and its secret, a second writer, commits over the limit of size,
what is counted in bytes (the cap on the answers the host keeps, `session.rs:959-968`, which
may drop some above `lastC`), the shell's bound of 4096 answers remembered, the bound of
pending commits and the pace (4006), the branches of `liveStatus` and `liveStop` for calls that
fail (`session.ts:402-412`), ink, views and
clocks (one message without effect but that the connection is alive), a document that
closes or becomes read only, an engine that cannot be edited, the registry of `fub-app`.

### Slips

`WriteTurn`, `SnapshotApply` and `RenameRecovery` under *Slips the properties are for*, and
the other modules beside each action, have variants of actions with a plausible mistake;
none is part of a specification, and each makes the property it was written for fail.

## The runs

| Run | Configuration | What it asks |
|---|---|---|
| `cycle_walk` | `CycleWalk.cfg`: 3 threads, 2 instances, every graph (998,784 states) | `FindsTheCycle`: the loops answer what the operators say. `Ends`: they end, cycles elsewhere included |
| `write_turn` | `MCWriteTurn.cfg`: 3 threads, 2 instances, 2 turns, the workspace's up to twice at once, panics, symmetry (1,328,906 states) | `OneWriter`, `GraphIsTrue`, `NoHopelessWait`, `NoLostWakeup`, `RefusedInACycle`, and `IInv`, the invariant of the proofs |
| `write_turn_live` | `MCWriteTurnLive.cfg`: 2 threads, 2 instances, 1 turn, no symmetry (18,496 states) | `StuckIsAnswered`, `CancelledStopsWaiting`, `AskIsAnswered` |
| `snapshot` | `MCSnapshotApply.cfg`: 2 transactions, three worlds: 2 stops and 1 power loss, alone and among 2 outside contents; 2 power losses with reordering and no stop (511,859 states) | `OneRecord`, `AllOrOldOrNew` (the fsyncs are where they have to be), `NothingLost`, `Atomic` (the refinement of `AtomicReplace`), `Reopens`; every branch of recovery is taken |
| `snapshot_stuck` | `MCSnapshotApplyStuck.cfg`: 2 stops among outside contents | violated: `RolledBackReopens` |
| `job_pool` | `MCJobPool.cfg`: 2 workers, 1 thread that invokes, 1 that switches the bundle, 3 jobs with the opening, 1 cancel, the close, symmetry (4,089,273 states) | `OneAnswer`, `NobodyInside`, `NoLostRing`, `FlagsHaveAJob`, `ClosedIsAnswered` |
| `job_pool_live` | `MCJobPoolLive.cfg`: 2 workers, 1 thread that switches, 3 jobs, the close, no symmetry (232,978 states) | `JobsAreAnswered`, `CloseEnds`, `PermitIsGiven` |
| `job_pool_broken` | `MCJobPoolBroken.cfg`: 1 worker | violated: `NobodyWaitsForever` |
| `rename` | `MCRenameRecovery.cfg`: a note that may link to itself and one that links to it, 2 crashes and 1 refusal with either 2 renames, 1 fault and 1 change by another program (also in the window of a conditional write) or 3 renames (941,971 states) | `DanglingIsKnown`, `SpaceIsKept`, `NoTextLost`, `CancelledStays`, and that the vault settles: `Recovers` |
| `sync` | `MCSyncPass.cfg`: 2 replicas, pages of one operation, five worlds: 3 changes; 2 with a fault and a pull; 2 with a conflict settled and released, the release broken off or not; 1 with a release and a fault; 2 on 2 notes with a fault; symmetry (1,763,492 states) | `NoTextLost`, `QuietAgrees`, `OneCounterEach`, `RetiredIsStored` |
| `live` | `MCLiveSession.cfg`: five worlds: 2 commits in flight over 2 connections; 1 refused over 3; 1 beside a change on the PC; a session either side ends; 2 commits one after the other (965,176 states) | `NothingLost`, `Truthful`, `InStep`, `NotTurnedAway`, `StopCollects`, `NobodyStuck` |
| `live_resent` | `MCLiveSessionRace.cfg`: 1 commit, 2 connections | violated: `NoOrphan` |

`TypeOK` of `WriteTurn` is checked in its run and proved; those of `SnapshotApply`,
`JobPool`, `RenameRecovery` and `SyncPass` are proved. `CycleWalk`, `AtomicReplace` and
`LiveSession` state theirs, and it holds on the instances of the table; the runs are kept
for the other properties.

**Why the bounds are enough.** Two threads and two instances make the shortest cycle
of instances, a turn and an instance the shortest mixed one; the third thread is the
bystander through whose edge a walk passes, and the one that takes a lock in
somebody's gap. `MaxDepth` lets a thread have
the workspace's turn twice at once, which is a turn and the same turn again inside (a deeper one
is a count and nothing else), and another turn once inside it. Requests are not bounded. Deadlock checking is off in
`WriteTurn` because foreign code may stop for good, and hopeless waits are `NoHopelessWait`'s
business. (`CycleWalk` stops when it has answered.) Two turns are
the workspace's and one taken inside it. For the snapshots, two transactions are one
to be interrupted and one that comes after; two stops are a crash of an apply and one
of the recovery of it; three would be a recovery of a recovery of a recovery, whose
disk is one that two already reach. `MaxLosses` counts power losses on top of these.
In `JobPool` two workers
are one that sleeps or works and one that stops, breaks or empties the queue meanwhile;
three jobs are the opening, one that is asked for early and one that is asked for late,
or two of one batch. The bundle may be off when the vault opens. One switch and one
cancel meet each of these at any point; the queue and the hands are not bounded except
by the identities. Threads of `JobPool` may stop for good, so deadlock is not checked:
`CloseEnds` says that who closes is not one of them.

In `RenameRecovery` two renames are one to be interrupted and one asked for again, or back, and
a third, where neither the storage nor others interfere, is one that an intent left over by the
first two meets; two crashes are one of the rename and one of its recovery; three paths are
those of the note, of its new name and of who links to it, which also lets a stranger appear at
the new name. In `SyncPass` three changes are two replicas that write the same note and a third
write while one of them applies; a fault is enough to lose an answer after the service has
acted; two changes make the conflict that is settled and released, and the release meets another
fault only where there is one change; and the second note makes a pull have two pages, with a
change between them. In `LiveSession` three connections are one whose welcome is lost, one
abandoned whose hello arrives late, and one that is good; two commits are one answered and one
that waits below or above it; one nack kept of two shows the bound, a log of one change passes
both bounds, and a queue of three items fills up (`congested` is reached, so are a log thrown
away, a refusal no longer kept and a late hello). In `sync` and `live` a behaviour may end when
the bounds are spent and deadlock is not checked; in `rename` the vault can always be closed and
opened, and it is. The proofs have none of these bounds.

The world of `snapshot` in which the file system reorders allows no stop of the process
alone. With one, recovery finds in
memory a rename that nothing has synced and removes the old root on the strength of
it, and a file system that keeps the removal and loses the rename leaves neither root;
`on-disk-layout.md` puts file systems without durable renames outside the guarantee,
so this is noted here and is not a finding.

**Fairness.** `Running` (in `LiveSpec`): a thread that is not waiting for a lock goes on (weak
fairness of `Step`), and the timeout of a yielding wait fires (`YIELD_TICK`, 10 ms). A look at a
turn needs strong fairness, because the waits that tick take the registry mutex again and again,
each for an instant: the mutex is free infinitely often, not for ever. Nothing is assumed of
foreign code, except where a property says so: `AskIsAnswered` has `Returning` (guards are
dropped in the end) as its hypothesis, and for each thread that the others ask for nothing more
from some point on (`LeftAlone`): while they go on, they may pass before it for ever (see *Seen
while modelling*). `StuckIsAnswered` needs neither: of threads that wait for one another one
leaves its wait, with what it asked for or with a refusal; looking again and going back to sleep
does not count. `FairSpec` of `SnapshotApply`: who has the lock goes on, and the vault is opened
again; crashes are bounded and not fair. `FairSpec` of `JobPool`: a thread that has begun goes
on, and the code of a job returns, as `stop` and `shutdown` declare they need
(`runner.rs:938-942`, `1598-1601`). Nobody has to ask, cancel, switch or close; no alarm has to
ring and nothing has to fail. Weak fairness is enough for `Answer`, which needs the turn,
because `MaxSwitches` bounds how often others take it; a thread among others that ask for it
without end has no such guarantee. `FairSpec` of `RenameRecovery`: a rename and an opening that
have begun go on, and a closed vault is opened; crashes, faults and other programs are bounded
and not fair. `SyncPass` and `LiveSession` assume none. For a live session `NobodyStuck` stands
in the place of a leads-to: whenever a commit is without its fate some task has a step to take
(`Works`, which leaves out losses, edits and ends); each of these steps uses up a message, a
connection or a wait, so they come to an end, and with the fairness of the tasks the commit
comes to its fate.

## What is proved

`WriteTurnProofs` holds, for any `Threads`, `Instances`, `Turns` and `MaxDepth`:

- `TypeCorrect`, `OneWriterAlways`, `GraphAlwaysTrue`, `NoLostWakeupAlways`,
  `NoHopelessWaitAlways`, each `Spec => []P`;
- `RefusedOnlyInACycle`, the action property.

They rest on the assumptions of the modules on their constants (distinct null values,
`Workspace` a turn, the threads that panic are threads, `MaxDepth` a natural number for each turn)
and on `Inductive`: `Spec => []IInv`.

Why `IInv` is needed: none of the properties is inductive. `GraphIsTrue` says who
holds an instance, and to keep it one has to know what each step is about (`WantOK`)
and that a mutex and the graph differ only while the holder is between the two
(`HoldOK`, `WaitOK`). `NoHopelessWait` follows from four facts: no set of threads waits
for instances of its own (`NoInstanceCycle`), who parks without being able to refuse
is not inside an instance (`PlainOK`), nobody waits for a turn of its own and no turn
is given back under the eyes of a check (`ParkOK`), and who waits and has any turn has
the workspace's (`OrderOK`). The argument: in a stuck set without a yielding wait,
look at a member that is blocked on an instance; its holder is in the set, is not
parked plainly (`PlainOK`) unless it owns that turn (`ParkOK`), so it is blocked too:
the blocked members alone would be a cycle of instances, which `NoInstanceCycle`
excludes; and if nobody is blocked all are parked for turns, whose owners all have the
workspace's turn, which only one of them can have (`OrderOK`), and that one waits for
itself. `NoInstanceCycle` is kept because `AwaitInstance` checks and registers in one
section of the graph, and `GraphIsTrue` lets the graph stand for the mutexes.

`WriteTurnProofs` proves the preservation of each part by each action; TLC checks
`IInv` too (`write_turn`).

`CycleWalkProofs` holds, for any `Threads`, any `Instances` and any graph of the type, the
cyclic and the stale ones included:

- `TheLoopsAreRight`, the invariant `FindsTheCycle`.

`WaitGraph` says that the links lead from the start to `me` when every set of threads that
has the start and is closed under the links has `me`. Two facts about the loop make it answer
that. `Ahead`: such a set has where the loop is; so when the loop is at `me`, it is right to
say yes. `Behind`: what the loop has seen has not met `me`, has the start, and leads to what
it has seen or to where it is; so when it comes to one it has seen, or to nobody, the set of
what it has seen (with where it is) is closed, has the start and not `me`, and it is right to
say no. Without the set `seen` the second would be lost on a cycle elsewhere.

`RenameProofs` holds, for any `Paths`, any notes and any bounds:

- `TypeCorrect`, `Spec => []TypeOK`, by the inductive `IInv`;
- `NoTextEverLost`, the action property `NoTextLost`: no step takes away a text that was there
  before it, but what another program writes in the window of a conditional write, which comes
  and goes within `Publish`;
- `CancelledAlwaysStays`, the action property `CancelledStays`;
- `DanglingAlwaysKnown`, the invariant `DanglingIsKnown`, for a vault that has no link to
  nowhere to begin with (one it has is in no intent, so the property would not hold then);
- `SpaceAlwaysKept`, the property `SpaceIsKept`, whose hypothesis is that each link leads to
  another note to begin with (`LinksOtherNotes`; with one that leads to its own note the rest is
  false, see *Seen while modelling*).

They assume that `None` is neither a content nor a path, that every budget is of natural numbers
with at most `MaxChanges` changes, and of the start that no note is at two paths, that nothing
has been changed yet and that the note with data is at `Home`; and that the name a space has
while it moves is that of no note (`PlacesAssumption`: no note of the model is called
`*.in-progress`; the code lets one be, and `docdata.rs:492-495` says the price is that its space
is never collected).

A content counts the changes others made, so its type grows: `XBy(n)` is what may be there after
`n` of them, and `IInv` says that everything is within the changes so far. What makes
`NoTextLost` follow is a part of `RewritesBy`: an edit, in an intent or in the hands of a
rename, gives a content of the same note and the same text as the one it is for, so where it
lands (`Lands`) it drops nothing of what was there; the other writers of files are moves to a
free name.

`CancelledStays` is not a matter of the guards of a rename, which does not look at the other
intents before it moves: `Persist` lets the intent in only if there is none with the same
paths and preimage and another state, and the argument is that no other cancelled intent
can be for the file that moves. `MoveInv` says it: a note is at one path (`NoteOnce`), its
texts only go on, so no intent remembers a newer one than what is there (`Remembered`), and
none a newer one than what the rename has read (`ReadLast`). Between the reading and the
move the file can only become newer. So the file that moves is the preimage of a cancelled
intent only if it is what the rename has read; then the paths are the same too, and the
intent is the rename's own, which is active (`Announced`). Both hold on the instance of `rename`.

`DanglingIsKnown` has an invariant of its own, `LinkInv`, because a rename rewrites the links
the index has (`Sources`), not those on the disk. `Covered` is what is wanted: a link that leads
nowhere is to the old path of an intent that has an edit for its note, or that is cancelled, or
to the new path of one whose edits have been made. The intent goes at the end of the edits, so
the edits have to be for all such links, and the index may lack one: after an edit that failed
when it was on the disk, and between the move and its refusal. `Followed` says how far apart the
two may be: where a note has a link the index does not have for it, an intent the opening is not
looking at accounts for it. So the plan covers every link to the old path that no other intent
covers (`Planned`), what is left of the edits keeps covering them (`Rewriting`, `Replaying`),
and the rename may take its intent away. The rest is about the opening, which works through a
list it has read at its start while the renames it makes write and remove intents: `OneLook`,
`Unchanged` and `Once` say that what is on the list is what is on the disk, except for the
intent of a move made back, and `HandledOK` which rename belongs to which intent. TLC checks
`LinkInv` on the instance of `rename` too.

`SpaceIsKept` is about steps with no other program and no failing call so far (`Calm`), and then
much more is true: whatever crashes and refusals there are, an opening finds no conflict and can
make the disk whole. That is the invariant `Tidy`, which the theorem uses while the run is calm.
`Straight`: a link leads to another note, or to where the file of an intent has been, with the
edit for it in the intent. `Pair`: there is one intent, or a marked one and that of the same move
made back, which has no edits. `ActiveOK` and `CancelledOK`: the file of an intent is at its old
path, with the edits the index would plan today, or at its new one, with each edit done or
still possible; so `classify` never answers with a conflict (`LeavesNone`), and a rename made
again has the intent that is there and not another. `Whose` and `Looking` say whose the intents
are: of the rename that was asked for, or of the opening, which has each of them before it
or is at it, so with none left there is no intent. `SpaceOK`, last: the space is at its note, or an
intent tells where it is going (`Astray`), and from each such place the steps of a rename,
resumed or back, take it to the note. When the collection comes there is no intent, so the space
is at its note. A note that links to itself breaks `ActiveOK` with the first edit: its text is the
preimage no more, and the file of the intent is then at neither path. The parts of `Tidy` were
model-checked before they were proved, with four crashes and four renames too.

`JobPoolProofs` holds, for any workers, callers, switchers and bundles and any bounds:

- `TypeCorrect`; `AnsweredOnce`, `NoRingIsLost`, `FlagsAreOfJobs`, `ClosedOwesNothing`,
  the invariants `OneAnswer`, `NoLostRing`, `FlagsHaveAJob`, `ClosedIsAnswered`;
- `PermitMeansAlone`, the invariant `NobodyInside`, where one thread switches bundles
  (`OneSwitcher`): two share one mark in `stopped`, and with two it is false (see *Seen while
  modelling*, `runner.rs:260`); the run has one.

The core of `IInv` is that a job is in one place (`OnePlace`): in the queue, in one pair of
hands, or answered. `StepsOK` says at which steps a thread has jobs in hand, `OpeningOK` that
the opening has one job and one token, which goes from hand to hand. These give `OneAnswer`.
`BellOK` is the bell: a ticket that is still good between the look and the sleep says that
nothing was put in the queue since, because what puts something there empties `current` in the
same section. `SeenOK` is why a cancel leaves no flag behind: what is taken in charge is under
the mark, and the flag goes before the answer is given. `Somewhere` and `ClosingOK` follow the
close: workers are gone before what is left is refused, and only jobs of declared bundles wait.

`SnapshotProofs` holds, for any transactions, outside contents and worlds:

- `TypeCorrect`, and `OneToRecover`, the invariant `OneRecord`, in every world;
- `NothingIsLost`, the action property `NothingLost` (the one content that goes is that a
  transaction was made against, from its old container, when the root has had the new one), and
  `OldOrNew`, the invariant `AllOrOldOrNew`, where the file system keeps the order of the changes;
- `Implements`, the refinement of `AtomicReplace` (`Atomic`), if the content the vault begins
  with is not one a transaction publishes, or the abstract step could not be told.

The hypothesis on the order is that of `on-disk-layout.md`; the worlds without it stay with
TLC, but for `OneRecord`, which holds there too: a record is made when no disk of `after` has
another (`RecordsOK`). Elsewhere the invariant is about pairs: `Keeps(d, disk)` says what a
disk `d` a power loss may leave has of what programs see, through which the loss of a
step is a step back to a disk that still has it; `Sound` and `Secure` are what each disk says
by itself, `FreshOK` that a transaction begins with nothing of its own there, `StepOK` what
each step knows. `Secured` adds, where nobody writes from outside, that the root is whole
or the record that has it back is there. For the refinement what is shown changes with
the record `Published` only, and `after` may hold both sides of it: a power loss then is the
replacement undone before anybody could see it, or a stutter.

`SyncProofs` holds, for any replicas and documents, any size of a page and any bounds:

- `TypeCorrect`, `CountersAreUnique` (`OneCounterEach`), `RetiredAreStored`
  (`RetiredIsStored`), `NoTextIsLost` (`NoTextLost`), by `Invariant`, `Spec => []IInv`.

It rests on `FoldFacts`, which proves once what a `FoldLeft` computes for every sequence: there
is a run of the operator from the start to the result (`Iterates`), and what the operator keeps
holds at the end (`FoldKeeps`). Induction is done there on a set of numbers that holds zero and
successors, by the well-foundedness of `<`; `SyncProofs` instantiates it for each of the folds.
What a push does to the service is then one set, `After(s, L)`: the chains only grow, by
operations of the log and of the batch, what is stored counts as folded (`Sound`), and what is
acknowledged is covered: in a chain, or known to a version of one (`Covered`, `MoreCovered`); an
operation only counted as seen would not be enough. `IdsOK` ties the acknowledgements a pass has
in hand to operations of its outbox that are covered. `CountersOK` is the invariant behind
`OneCounterEach`: an operation that is about is in the outbox of its maker, or its counter is in
its durable cursor; the order of `Count` before `AckPush` and `Drain` is what keeps it, and the
mutant that does not count breaks it. `PassOK` says that what a pass holds in memory is stored,
so that what it writes over a note is not the only copy; `SyncedOK`, that a text taken for
synced is in a chain or in an outbox, so that a note that equals it may be replaced. TLC checks
this `IInv` on the instance of `sync` too.

`LiveProofs` holds, for any number of commits, connections and queue places, any bounds of
the answers and the log kept, and any worlds:

- `TypeCorrect`; `AnswersAreTrue` (`Truthful`), `TheEndCollects` (`StopCollects`),
  `ClientsAreLetIn` (`NotTurnedAway`), `CommitsAreKept` (`NothingLost`), by `Invariant`,
  `Spec => []IInv`;
- `WriterIsInStep` (`InStep`), by `IInv` and `Tracked`.

It assumes of the constants that the bounds are natural numbers, that there is a connection
at least, and that a world asks for no more commits and connections than there are
(`HostAssumption`, `BoundsAssumption`).

`IInv` has a part for each thing the protocol relies on without saying it. `Keeper`: the
host keeps the answer of every commit after `lastC` that it has treated, which is what
`prune` may not touch. `Wired`: a connection is a queue of one client and one host, its
welcome comes first in its queue, and what is unread before the welcome is the hello.
`Counted` and `Ordered`: on the connection in force the unread commits rise and come after
what was dealt with, so the next is the one the host waits for or one it has an answer for;
it is what makes a `violation` impossible, and it needs `host.connLast < client.next` rather
than a bound by what the host has, because a commit sent again moves `connLast` also when it
is answered from those kept. `Tokens`: the token the client will show is the last one or the
one before, as long as the hellos are read in their order; where one is read late (`late`)
nothing is claimed, as in the property. `Decided`: every answer, kept, queued, or being sent,
is the outcome the shell recorded (`Right`), and an outcome is recorded once (`Sound`).
`Heard` and `Followed`: each commit the host has is in an event or answered, and each commit
up to the client's next is pending or answered; `Following` says the commits sent have the
earlier ones before them. `Refusals`: a refusal that the writer has not heard is before
`lastC` and among the answers, or forgotten. TLC checks this `IInv` on the instance of `live`
too; the counters of the connections, `Wired` and `Ordered`, were each strengthened by a
counterexample of an earlier form.

`Tracked` is about the text. A document is the sequence of its changes and a counter says how
many a place has, so it is enough that each message waiting somewhere takes the counter of
where it goes from what is there to what should be: `Through(R, x, q, y)` says that the
messages of `q` lead from `x` to `y`, each by a step of `R`. `Owing`: what the shell has still
to say leads the host's counter to the shell's document, and answers a pending commit once.
`Logged`: the log leads from the snapshot to the counter, unless it was thrown away, and no
answer kept is ahead of it. `Stepped`: what is queued leads the writer that reads it
from what it has to what the host has, or a snapshot is wanted or on its way (`Excuse`). A
snapshot read takes the writer to its number wherever it was, an `ack` or a change takes it
one on only if it is the next, which is why dropping what is queued before a snapshot, and
echoing the answer of a commit sent again, leave no gap. With an empty queue `Stepped` is `InStep`.

Only model-checked:

- liveness, and `NobodyStuck` of `LiveSession`: fairness and ENABLED are out of the prover's reach;
- `QuietAgrees` of `SyncPass`, whose invariant has to follow each version from the log to
  every replica, with all the exceptions of `amiss`;
- the contents in `SnapshotApply` where the file system keeps no order.

Induction by the theorems of the library takes an operator as a parameter, which the provers
cannot instantiate; `FoldFacts` does without, with a set, and reaches the folds. It does not
reach definitions that recur in two arguments or over a graph.

## Findings

1. `snapshot.rs:834-836` says that without the roll back a vault would stay closed for
   ever. A crash between the rename that puts the old root back and the removal of the
   record does that (`snapshot_stuck`): no branch of recovery is for that state.
2. `runner.rs:1189-1190` says that when the pool stops itself who asks for a job is
   refused instead of waiting for ever. That is so for a poisoned vault, where asking
   fails too. Any other error that leaves the round, an unreadable `timers.json` for one,
   stops the pool as well, and `enqueue_job` refuses only on `closed`: the job is accepted
   and nobody answers it until the vault is closed (`job_pool_broken`).
3. `live-session.md:265-267` says of a commit that is sent again while it waits that the
   answer will come, and `session.rs:524-526` that it is not handed to the shell twice.
   `prune` forgets an ack as soon as the commit is treated, also above the `lastC` of the
   last welcome, which is the one the writer goes by: when the shell answers between the
   welcome and the commit being sent again, the host takes it for new and waits for an
   answer the shell, which remembers it, never gives (`live_resent`). If the first ack was
   lost with the connection, the writer waits too, until the session ends. With `prune`
   measuring from `binding.last_c` the property holds in every world of `live`.

### Seen while modelling

These are behaviours of the models that no run states as a property; the ones of a
`PROJECT.json` hazard without a property are among them.

*Waiting.* `waits.rs:46-47` says that who finds a cycle through a turn holds an instance, "by
construction". A thread that holds none may find one: the owner recorded by a parked wait is
that of its last tick, the turn changes hands, and the walk of a native job follows the stale
edge back to itself. It receives `host.turn.cycle` without a cycle. And nothing hands a turn
over: `notify_one` wakes up one sleeper (`custody.rs:561`), and a thread that asks at that
moment may have the turn first, so one that sleeps may do so for ever while others keep asking.
`AskIsAnswered` without `LeftAlone` is violated in this way, by two threads.

*Snapshots.* `snapshot.rs:778-779` says the previous root is still whole when recovery puts
it back. The code looks only at whether it is a directory; it may be the rest of one that
`finalize_record` was deleting when the process died, if another program changed the
published root. A crash between the creation of the staging and its record leaves a
container no recovery knows of (`472`); the recovery that completes a roll back after a
crash between its two renames does not report what was set aside (`854`).

*Jobs.* The mark `seen` runs ahead of the queue when a job is invoked directly, and a
cancel of a job still in the queue is then ignored (`runner.rs:152`); two threads that
switch off the same bundle share one mark, and the first to finish opens the door under the
other (`260`); `stop` does not wait for jobs invoked directly (`1580`); a bundle may be
enabled in a vault that has just been closed (`session.rs:2606`); its body enters the
registry after its activation, and a job the activation asks for may be drawn before
(`registry.rs:893`).

*Renames.* `Recovers` has two conditions, `NoSelfLink` and `Calm`, and `SpaceIsKept` has
`LinksOtherNotes` and `Calm`; each stands for something the code does otherwise. `NoTextLost`
excepts the window of a conditional write, where the text of another program is lost
(`rooted.rs:491-515`). When the note links to itself and its own edit has
landed, a plain crash makes the intent a conflict for ever: the preimage is no longer at
either path. It stays one until the user renames the note back: then it is the intent of
a rename to resume again, and if the rename of another name is interrupted after the space
has moved, the opening resumes the old one first, the new one becomes a conflict, and the
collection deletes the space under the name that nobody has (`classify` looks
at where the files are, not at when the intent is from). With a fourth path, four crashes and
four renames the first of these is enough: the note that links has meanwhile another name, so
the resumed rename has another plan, `persist` refuses it for the intent that is there, and the
space that has gone ahead is collected, though no intent is in conflict. When the refusal of a
rename the opening makes, resumed or back, does not undo what the first attempt
moved, the collection that follows the recovery deletes the space of a living note. Also: a
replay takes up the edits of an old intent after the user has renamed the note back; the
roll back moves the data beside the note before the intent is marked as cancelled; a
recovery that moves several notes reports conflicts for those it rewrote itself.

*Synchronisation.* The documents in `amiss`, for which `QuietAgrees` does not promise agreement:
`Untold`, the service compares an operation only with the last of the chain and a conflict in an
answer that is lost is not told again, since the retry is a duplicate; `Outdated`, a pull
without a push applies a later version, and the older operation still in the outbox is then
acknowledged and marked as synced; `Overtaken`, a removal that was held is applied in a later
pass, over a version newer than it, and so is an own operation whose conflict was released;
`Unsent`, the removal of a note never taken for synced is not sent; `BreakOff`, the release of a
conflict makes two durable writes (`bundle.rs:360-365`), and if the host stops between them
after the user has brought the synced text back, the note is in no conflict, equals what is
taken for synced and has nothing to send or to pull, while the service has another text. The
same comes about outside a conflict when a pulled removal finds the note gone already, the user
then brings the old text back, and the mark of the synced text is still there; the model lets a
user bring back an old text only in a conflict. The texts in `lapsed`, which `NoTextLost`
excepts: b removes a note, a applies the removal and stops before its cursor advances, then
writes the note again and a second one. The push of a is held for the first, whose vector does
not know the removal, and stores the second, with the higher counter. b pulls that, makes the
note again, and its vector now covers a's counter. When a sends its first write again, `fold_op`
finds that the last version knows it (`mod.rs:836-839`) and acknowledges it without storing it;
a marks it as synced and retires it, and the pull puts b's text over the note, with no copy.
`bundle.rs:1032` says «Server ack means WAL committed», which is not so here (nothing is logged
for an operation passed over), and the comment of `apply_remote_op` that a local original that
differs is never replaced, which is not so either. `NoTextLost` without the exception is
violated in this way, and so is `RetiredIsStored` without its second case. And: an operation in
the log that the service does not hold in its state and no longer takes, because another replica
deleted the note meanwhile, refuses every further push of that replica (`PushRefused`); to
release a conflict has no effect while the operation is in the outbox.

*Live sessions.* A hello the client had given up, read after that of a later attempt,
replaces the good connection, and the client, told 4003, does not try again (`late`, which
`NotTurnedAway` excepts). The window of commits in flight is wider than the refusals kept
for a welcome, so a writer with many refusals may not hear of the oldest (`forgot`, which
`NothingLost` excepts). Commits answered while the session is being ended may be reported
back though they were applied: the answers sent after the host has ended fail.

## Not modelled

Formats, features, scene, importers, the contract and the SDK are functions of their input:
data, with tests against examples, and no order of steps to get wrong. Shells and remote
clients are I/O and presentation. Vendored and generated code is left aside. Of the parts
with a state, those not modelled yet are in the plan; what is left out of each part that is
modelled is listed with its module. The size of the repository is mostly in the first
group: the models cover the protocols, not the share of the lines.

## The plan

In order of what matters most:

1. `ManagedPlugins`, `Bundles`, `Sessions`: protocols of a few states.
2. `CustodyData`: the data lock over `WriteTurn`; `DocumentWrite`: a document written by
   comparison with its revision, its journal and its draft.
3. The abstract specification of `JobPool` (a set of accepted jobs, each answered once) and
   of `LiveSession` (a sequence of commits, each applied once or refused), with refinements.

The runs are kept few: a new module brings one for its safety and one for its liveness,
and the small ones of a component are merged when a property does not need its own
bounds.
