----------------------------- MODULE WriteTurn -----------------------------
(***************************************************************************)
(* The two kinds of lock a thread of the host may hold across foreign      *)
(* code, and the graph of waits that keeps them from stopping each other:  *)
(*                                                                         *)
(*   - the mutex of a component's instance, taken only through             *)
(*     lock_tracked (fub-wasm-host/src/instance_lock.rs);                  *)
(*   - the writer turn of a Custody, re-entrant, with its condvar          *)
(*     (fub-host/src/custody.rs);                                          *)
(*   - the graph of who holds and who awaits what, WaitGraph              *)
(*     (fub-host/src/waits.rs).                                            *)
(*                                                                         *)
(* A save takes the turn and then asks for instances (parser, hooks,       *)
(* indices, handlers); a job is inside an instance and then asks for the   *)
(* turn.  The graph lets the one that is inside a component give way.      *)
(*                                                                         *)
(* One action is one critical section: of an instance's mutex, of the      *)
(* registry mutex of a turn, or of the global mutex of the graph.  A       *)
(* section of the graph inside one of the registry is a step of its own    *)
(* only where two of them happen under the same registry lock.             *)
(***************************************************************************)
EXTENDS WaitGraph, Naturals

CONSTANTS
    Turns,      \* the custodies whose writer turn is held across callbacks
    Workspace,  \* the one of Turns that is taken first
    MayPanic,   \* the threads whose foreign code may panic
    MaxDepth    \* bound: turn -> how many times a thread has it at once

ASSUME TurnsAssumption == Workspace \in Turns /\ Nothing \notin Turns
ASSUME PanicAssumption == MayPanic \subseteq Threads
ASSUME DepthAssumption == MaxDepth \in [Turns -> Nat]

Modes == {"plain", "yielding", "job"}

Steps == {"run",       \* in foreign or host code, asking for nothing
          "tried",     \* try_lock answered WouldBlock
          "blocked",   \* the wait is in the graph, mutex.lock() not back yet
          "got",       \* mutex.lock() is back, the wait still in the graph
          "spoilt",    \* mutex.lock() is back with the poison
          "locked",    \* owns the mutex, the hold not yet in the graph
          "unheld",    \* the hold is out of the graph, the mutex still owned
          "look",      \* about to look at the turn, under its registry
          "check",     \* has registered its wait, keeps the registry
          "parked",    \* in the condvar of the turn
          "leave"}     \* has freed the turn, notify_one not called yet

VARIABLES
    pc,         \* thread -> the step it is at
    want,       \* thread -> the instance or the turn the step is about
    mode,       \* thread -> the way it asks for the turn
    mutex,      \* instance -> the thread that owns the mutex
    poisoned,   \* the instances whose mutex is poisoned
    owner,      \* turn -> WriterTurnState.owner
    depth,      \* turn -> WriterTurnState.depth
    guards,     \* thread -> turn -> the WriteTurn values it has alive
    registry,   \* turn -> the thread that keeps the registry between steps
    cancelled,  \* the threads whose job has been cancelled
    unwinding   \* the threads that are unwinding from a panic

locks   == <<mutex, poisoned>>
turns   == <<owner, depth, guards, registry>>
graph   == <<held, instWait, turnWait>>
control == <<pc, want, mode>>
outside == <<cancelled, unwinding>>
vars    == <<control, locks, turns, graph, outside>>

TypeOK ==
    /\ pc \in [Threads -> Steps]
    /\ want \in [Threads -> Instances \cup Turns \cup {Nothing}]
    /\ mode \in [Threads -> Modes]
    /\ mutex \in [Instances -> Threads \cup {Nobody}]
    /\ poisoned \subseteq Instances
    /\ owner \in [Turns -> Threads \cup {Nobody}]
    /\ depth \in [Turns -> Nat]
    /\ guards \in [Threads -> [Turns -> Nat]]
    /\ registry \in [Turns -> Threads \cup {Nobody}]
    /\ held \in [Instances -> Threads \cup {Nobody}]
    /\ instWait \in [Threads -> Instances \cup {Nothing}]
    /\ turnWait \in [Threads -> Threads \cup {Nobody}]
    /\ cancelled \subseteq Threads
    /\ unwinding \subseteq Threads

\* A thread that has a turn other than the workspace's, and not the
\* workspace's, has it for a look at the data: it runs no foreign code and
\* asks for nothing until it has given it back.
MayAsk(t) ==
    /\ pc[t] = "run"
    /\ t \notin unwinding
    /\ \A v \in Turns : owner[v] = t => owner[Workspace] = t

\* What bounds the re-entrance: a thread asks again for a turn of its own, but
\* not for ever without giving one back.
MayAskTurn(t, v) == MayAsk(t) /\ guards[t][v] < MaxDepth[v]

Go(t, step) == pc' = [pc EXCEPT ![t] = step]
Asks(t, what, step) ==
    /\ Go(t, step)
    /\ want' = [want EXCEPT ![t] = what]
\* The thread goes on with what it was doing.
Back(t) ==
    /\ Go(t, "run")
    /\ want' = [want EXCEPT ![t] = Nothing]
    /\ mode' = [mode EXCEPT ![t] = "plain"]

-----------------------------------------------------------------------------
Init ==
    /\ pc = [t \in Threads |-> "run"]
    /\ want = [t \in Threads |-> Nothing]
    /\ mode = [t \in Threads |-> "plain"]
    /\ mutex = [i \in Instances |-> Nobody]
    /\ poisoned = {}
    /\ owner = [v \in Turns |-> Nobody]
    /\ depth = [v \in Turns |-> 0]
    /\ guards = [t \in Threads |-> [v \in Turns |-> 0]]
    /\ registry = [v \in Turns |-> Nobody]
    /\ held = [i \in Instances |-> Nobody]
    /\ instWait = [t \in Threads |-> Nothing]
    /\ turnWait = [t \in Threads |-> Nobody]
    /\ cancelled = {}
    /\ unwinding = {}

-----------------------------------------------------------------------------
(* Slips the properties are for: no action below uses these.  Each stands  *)
(* for the action whose name it extends.                                   *)

\* Refuses an instance because its holder waits for another.
RefuseInstanceHastily(t) ==
    /\ pc[t] = "tried"
    /\ \E u \in Threads : mutex[want[t]] = u /\ NextByInstance[u] # Nobody
    /\ Back(t)
    /\ UNCHANGED <<locks, turns, graph, outside>>

\* Waits for the mutex without asking the graph.
AwaitInstanceUnasked(t) ==
    /\ pc[t] = "tried"
    /\ instWait' = [instWait EXCEPT ![t] = want[t]]
    /\ Go(t, "blocked")
    /\ UNCHANGED <<want, mode, locks, turns, held, turnWait, outside>>

\* write_turn from inside a component.
WriteTurnInside(t, v) ==
    /\ MayAskTurn(t, v)
    /\ Asks(t, v, "look")
    /\ mode' = [mode EXCEPT ![t] = "plain"]
    /\ UNCHANGED <<locks, turns, graph, outside>>

\* A turn taken again counts one.
TakeTurnOnce(t) ==
    LET v == want[t] IN
    /\ pc[t] = "look" /\ registry[v] = Nobody
    /\ owner[v] \in {Nobody, t}
    /\ owner' = [owner EXCEPT ![v] = t]
    /\ depth' = [depth EXCEPT ![v] = 1]
    /\ guards' = [guards EXCEPT ![t][v] = @ + 1]
    /\ turnWait' = [turnWait EXCEPT ![t] = Nobody]
    /\ Back(t)
    /\ UNCHANGED <<locks, registry, held, instWait, outside>>

\* A cancelled wait stays in the graph.
StopWaitingLeaked(t) ==
    /\ pc[t] = "look" /\ registry[want[t]] = Nobody
    /\ owner[want[t]] \notin {Nobody, t}
    /\ mode[t] = "job" /\ t \in cancelled
    /\ Back(t)
    /\ UNCHANGED <<locks, turns, graph, outside>>

\* Registers the wait without having looked at the cancellation.
AwaitTurnUnstopped(t) ==
    LET v == want[t] IN
    /\ pc[t] = "look" /\ registry[v] = Nobody
    /\ owner[v] \notin {Nobody, t}
    /\ mode[t] # "plain"
    /\ turnWait' = [turnWait EXCEPT ![t] = owner[v]]
    /\ registry' = [registry EXCEPT ![v] = t]
    /\ Go(t, "check")
    /\ UNCHANGED <<want, mode, locks, owner, depth, guards, held, instWait, outside>>

\* Registers the turn, not the thread that owns it.
AwaitTurnMisfiled(t) ==
    LET v == want[t] IN
    /\ pc[t] = "look" /\ registry[v] = Nobody
    /\ owner[v] \notin {Nobody, t}
    /\ mode[t] # "plain" /\ ~(mode[t] = "job" /\ t \in cancelled)
    /\ turnWait' = [turnWait EXCEPT ![t] = v]
    /\ registry' = [registry EXCEPT ![v] = t]
    /\ Go(t, "check")
    /\ UNCHANGED <<want, mode, locks, owner, depth, guards, held, instWait, outside>>

\* Asks the graph when it begins to wait, and never again.
AwaitTurnOnce(t) ==
    LET v == want[t] IN
    /\ pc[t] = "look" /\ registry[v] = Nobody
    /\ owner[v] \notin {Nobody, t}
    /\ mode[t] # "plain" /\ ~(mode[t] = "job" /\ t \in cancelled)
    /\ turnWait' = [turnWait EXCEPT ![t] = owner[v]]
    /\ IF turnWait[t] = Nobody
       THEN registry' = [registry EXCEPT ![v] = t] /\ Go(t, "check")
       ELSE registry' = registry /\ Go(t, "parked")
    /\ UNCHANGED <<want, mode, locks, owner, depth, guards, held, instWait, outside>>

\* No notify_one.
DropTurnSilently(t, v) ==
    /\ pc[t] = "run"
    /\ guards[t][v] > 0 /\ registry[v] = Nobody
    /\ depth[v] = 1
    /\ owner' = [owner EXCEPT ![v] = Nobody]
    /\ depth' = [depth EXCEPT ![v] = @ - 1]
    /\ guards' = [guards EXCEPT ![t][v] = @ - 1]
    /\ UNCHANGED <<control, locks, registry, graph, outside>>

-----------------------------------------------------------------------------
(* An instance: lock_tracked, and the drop of HeldInstance.                *)

\* try_lock, when the mutex is free.
TakeFreeInstance(t, i) ==
    /\ MayAsk(t)
    /\ mutex[i] = Nobody /\ i \notin poisoned
    /\ mutex' = [mutex EXCEPT ![i] = t]
    /\ Asks(t, i, "locked")
    /\ UNCHANGED <<mode, poisoned, turns, graph, outside>>

\* try_lock, when it is not: WouldBlock.  A free poisoned mutex answers
\* Poisoned instead, and the caller is back where it was.
FindInstanceTaken(t, i) ==
    /\ MayAsk(t)
    /\ mutex[i] # Nobody
    /\ Asks(t, i, "tried")
    /\ UNCHANGED <<mode, locks, turns, graph, outside>>

\* try_wait_instance finds the cycle: Unavailable::Cycle.
RefuseInstance(t) ==
    /\ pc[t] = "tried"
    /\ InstancesLeadBackTo(want[t], t)
    /\ Back(t)
    /\ UNCHANGED <<locks, turns, graph, outside>>

\* try_wait_instance, in the same section of the graph, registers the wait.
AwaitInstance(t) ==
    /\ pc[t] = "tried"
    /\ ~InstancesLeadBackTo(want[t], t)
    /\ instWait' = [instWait EXCEPT ![t] = want[t]]
    /\ Go(t, "blocked")
    /\ UNCHANGED <<want, mode, locks, turns, held, turnWait, outside>>

\* mutex.lock() returns.
LockInstance(t) ==
    /\ pc[t] = "blocked"
    /\ mutex[want[t]] = Nobody /\ want[t] \notin poisoned
    /\ mutex' = [mutex EXCEPT ![want[t]] = t]
    /\ Go(t, "got")
    /\ UNCHANGED <<want, mode, poisoned, turns, graph, outside>>

\* It returns the poison: map_err gives the mutex back at once.
FindPoison(t) ==
    /\ pc[t] = "blocked"
    /\ mutex[want[t]] = Nobody /\ want[t] \in poisoned
    /\ Go(t, "spoilt")
    /\ UNCHANGED <<want, mode, locks, turns, graph, outside>>

\* The drop of InstanceWait, with the mutex in hand...
EndInstanceWait(t) ==
    /\ pc[t] = "got"
    /\ instWait' = [instWait EXCEPT ![t] = Nothing]
    /\ Go(t, "locked")
    /\ UNCHANGED <<want, mode, locks, turns, held, turnWait, outside>>

\* ...and on the way out with Unavailable::Poisoned.
RefuseSpoilt(t) ==
    /\ pc[t] = "spoilt"
    /\ instWait' = [instWait EXCEPT ![t] = Nothing]
    /\ Back(t)
    /\ UNCHANGED <<locks, turns, held, turnWait, outside>>

\* hold_instance.
HoldInstance(t) ==
    /\ pc[t] = "locked"
    /\ held' = [held EXCEPT ![want[t]] = t]
    /\ Back(t)
    /\ UNCHANGED <<locks, turns, instWait, turnWait, outside>>

\* The drop of InstanceHold, which comes first...
UnholdInstance(t, i) ==
    /\ pc[t] = "run" /\ held[i] = t
    /\ held' = [held EXCEPT ![i] = Nobody]
    /\ Go(t, "unheld")
    /\ want' = [want EXCEPT ![t] = i]
    /\ UNCHANGED <<mode, locks, turns, instWait, turnWait, outside>>

\* ...and that of the MutexGuard, which poisons a mutex left by a panic.
UnlockInstance(t) ==
    /\ pc[t] = "unheld"
    /\ mutex' = [mutex EXCEPT ![want[t]] = Nobody]
    /\ poisoned' = IF t \in unwinding THEN poisoned \cup {want[t]} ELSE poisoned
    /\ Back(t)
    /\ UNCHANGED <<turns, graph, outside>>

-----------------------------------------------------------------------------
(* A turn: acquire_turn, by its three doors, and the drop of WriteTurn.    *)

\* write_turn cannot refuse: it is not for who is inside a component, unless
\* the turn is already its own.
WriteTurn(t, v) ==
    /\ MayAskTurn(t, v)
    /\ HoldsInstance(t) => owner[v] = t
    /\ Asks(t, v, "look")
    /\ mode' = [mode EXCEPT ![t] = "plain"]
    /\ UNCHANGED <<locks, turns, graph, outside>>

\* write: the door depends on whether the thread is inside a component.
Write(t, v) ==
    /\ MayAskTurn(t, v)
    /\ Asks(t, v, "look")
    /\ mode' = [mode EXCEPT ![t] = IF HoldsInstance(t) THEN "yielding" ELSE "plain"]
    /\ UNCHANGED <<locks, turns, graph, outside>>

\* JobHost::turn and writing_until: write_turn_yielding with the flag of the
\* job as `stopped`; a job already cancelled does not even queue.
JobTurn(t) ==
    /\ MayAskTurn(t, Workspace)
    /\ t \notin cancelled
    /\ Asks(t, Workspace, "look")
    /\ mode' = [mode EXCEPT ![t] = "job"]
    /\ UNCHANGED <<locks, turns, graph, outside>>

\* The turn is free, or mine already.
TakeTurn(t) ==
    LET v == want[t] IN
    /\ pc[t] = "look" /\ registry[v] = Nobody
    /\ owner[v] \in {Nobody, t}
    /\ owner' = [owner EXCEPT ![v] = t]
    /\ depth' = [depth EXCEPT ![v] = IF owner[v] = t THEN @ + 1 ELSE 1]
    /\ guards' = [guards EXCEPT ![t][v] = @ + 1]
    /\ turnWait' = [turnWait EXCEPT ![t] = Nobody]
    /\ Back(t)
    /\ UNCHANGED <<locks, registry, held, instWait, outside>>

\* The turn is another's and this door cannot refuse: into the condvar.
ParkPlainly(t) ==
    /\ pc[t] = "look" /\ registry[want[t]] = Nobody
    /\ owner[want[t]] \notin {Nobody, t}
    /\ mode[t] = "plain"
    /\ Go(t, "parked")
    /\ UNCHANGED <<want, mode, locks, turns, graph, outside>>

\* `stopped()?`: the job has been cancelled.
StopWaiting(t) ==
    /\ pc[t] = "look" /\ registry[want[t]] = Nobody
    /\ owner[want[t]] \notin {Nobody, t}
    /\ mode[t] = "job" /\ t \in cancelled
    /\ turnWait' = [turnWait EXCEPT ![t] = Nobody]
    /\ Back(t)
    /\ UNCHANGED <<locks, turns, held, instWait, outside>>

\* wait_turn the first time, now_owned_by the others; the registry is kept.
AwaitTurn(t) ==
    LET v == want[t] IN
    /\ pc[t] = "look" /\ registry[v] = Nobody
    /\ owner[v] \notin {Nobody, t}
    /\ mode[t] # "plain" /\ ~(mode[t] = "job" /\ t \in cancelled)
    /\ turnWait' = [turnWait EXCEPT ![t] = owner[v]]
    /\ registry' = [registry EXCEPT ![v] = t]
    /\ Go(t, "check")
    /\ UNCHANGED <<want, mode, locks, owner, depth, guards, held, instWait, outside>>

\* closes_cycle says yes: Conflict, host.turn.cycle.
RefuseTurn(t) ==
    /\ pc[t] = "check"
    /\ ClosesCycle(owner[want[t]], t)
    /\ turnWait' = [turnWait EXCEPT ![t] = Nobody]
    /\ registry' = [registry EXCEPT ![want[t]] = Nobody]
    /\ Back(t)
    /\ UNCHANGED <<locks, owner, depth, guards, held, instWait, outside>>

\* closes_cycle says no: wait_timeout frees the registry as it parks.
ParkYielding(t) ==
    /\ pc[t] = "check"
    /\ ~ClosesCycle(owner[want[t]], t)
    /\ registry' = [registry EXCEPT ![want[t]] = Nobody]
    /\ Go(t, "parked")
    /\ UNCHANGED <<want, mode, locks, owner, depth, guards, graph, outside>>

\* YIELD_TICK is over for a wait that may refuse.  A plain one wakes up here
\* only when the condvar does so for no reason.
Tick(t) ==
    /\ pc[t] = "parked"
    /\ Go(t, "look")
    /\ UNCHANGED <<want, mode, locks, turns, graph, outside>>

\* The drop of a WriteTurn, when the depth does not come to zero...
DropInnerTurn(t, v) ==
    /\ pc[t] = "run"
    /\ guards[t][v] > 0 /\ registry[v] = Nobody
    /\ depth[v] > 1
    /\ depth' = [depth EXCEPT ![v] = @ - 1]
    /\ guards' = [guards EXCEPT ![t][v] = @ - 1]
    /\ UNCHANGED <<control, owner, locks, registry, graph, outside>>

\* ...and when it does: the turn is free...
DropTurn(t, v) ==
    /\ pc[t] = "run"
    /\ guards[t][v] > 0 /\ registry[v] = Nobody
    /\ depth[v] = 1
    /\ owner' = [owner EXCEPT ![v] = Nobody]
    /\ depth' = [depth EXCEPT ![v] = @ - 1]
    /\ guards' = [guards EXCEPT ![t][v] = @ - 1]
    /\ Go(t, "leave")
    /\ want' = [want EXCEPT ![t] = v]
    /\ UNCHANGED <<mode, locks, registry, graph, outside>>

\* ...and notify_one, out of the registry, wakes one that is in the condvar...
NotifyOne(t, u) ==
    /\ pc[t] = "leave" /\ pc[u] = "parked" /\ want[u] = want[t]
    /\ pc' = [pc EXCEPT ![t] = "run", ![u] = "look"]
    /\ want' = [want EXCEPT ![t] = Nothing]
    /\ UNCHANGED <<mode, locks, turns, graph, outside>>

\* ...or nobody, if nobody is.
NotifyNobody(t) ==
    /\ pc[t] = "leave"
    /\ \A u \in Threads : ~(pc[u] = "parked" /\ want[u] = want[t])
    /\ Back(t)
    /\ UNCHANGED <<locks, turns, graph, outside>>

-----------------------------------------------------------------------------
(* What comes from outside: a cancellation, a panic in foreign code.       *)

\* Only a job that stands in line can tell: elsewhere the flag has no effect
\* on the locks.
Cancel(t) ==
    /\ mode[t] = "job" /\ t \notin cancelled
    /\ cancelled' = cancelled \cup {t}
    /\ UNCHANGED <<control, locks, turns, graph, unwinding>>

Panic(t) ==
    /\ t \in MayPanic \ unwinding
    /\ pc[t] = "run" /\ HoldsInstance(t)
    /\ unwinding' = unwinding \cup {t}
    /\ UNCHANGED <<control, locks, turns, graph, cancelled>>

\* Everything has been dropped: the panic is caught at the bottom.
Caught(t) ==
    /\ t \in unwinding /\ pc[t] = "run"
    /\ ~HoldsInstance(t) /\ \A v \in Turns : guards[t][v] = 0
    /\ unwinding' = unwinding \ {t}
    /\ UNCHANGED <<control, locks, turns, graph, cancelled>>

\* A thread of the pool is done with a job, and forgets its flag: the next one
\* it draws is not cancelled.
Forget(t) ==
    /\ t \in cancelled \ unwinding /\ pc[t] = "run"
    /\ ~HoldsInstance(t) /\ \A v \in Turns : guards[t][v] = 0
    /\ cancelled' = cancelled \ {t}
    /\ UNCHANGED <<control, locks, turns, graph, unwinding>>

\* What a thread does by itself once it has begun a request or a release.
Step(t) ==
    \/ RefuseInstance(t) \/ AwaitInstance(t) \/ LockInstance(t)
    \/ FindPoison(t) \/ EndInstanceWait(t) \/ RefuseSpoilt(t)
    \/ HoldInstance(t) \/ UnlockInstance(t)
    \/ TakeTurn(t) \/ ParkPlainly(t) \/ StopWaiting(t) \/ AwaitTurn(t)
    \/ RefuseTurn(t) \/ ParkYielding(t)
    \/ (\E u \in Threads : NotifyOne(t, u)) \/ NotifyNobody(t) \/ Caught(t)

GiveBack(t) ==
    \/ \E i \in Instances : UnholdInstance(t, i)
    \/ \E v \in Turns : DropInnerTurn(t, v) \/ DropTurn(t, v)

Ask(t) ==
    \/ \E i \in Instances : TakeFreeInstance(t, i) \/ FindInstanceTaken(t, i)
    \/ \E v \in Turns : WriteTurn(t, v) \/ Write(t, v)
    \/ JobTurn(t)

Next ==
    \E t \in Threads :
        Step(t) \/ GiveBack(t) \/ Ask(t) \/ Tick(t)
        \/ Cancel(t) \/ Panic(t) \/ Forget(t)

Spec == Init /\ [][Next]_vars

\* The scheduler runs every thread, and the timeout of a yielding wait fires.
\* A look at the turn needs strong fairness: the waits that tick take the
\* registry again and again, each for an instant out of ten milliseconds.
YieldingTick(t) == mode[t] # "plain" /\ Tick(t)
Look(t) == TakeTurn(t) \/ ParkPlainly(t) \/ StopWaiting(t) \/ AwaitTurn(t)
Running ==
    \A t \in Threads :
        WF_vars(Step(t)) /\ SF_vars(Look(t)) /\ WF_vars(YieldingTick(t))

\* Foreign code returns: the guards a thread has are dropped in the end.
Returning == \A t \in Threads : SF_vars(GiveBack(t))

LiveSpec == Spec /\ Running

-----------------------------------------------------------------------------
(* Properties.                                                             *)

Waiting(t) == pc[t] \in {"tried", "blocked", "look", "check", "parked"}
Yielding(t) == pc[t] = "parked" /\ mode[t] # "plain"

\* Asleep, t cannot go on before u does something.
WaitsFor(t, u) ==
    \/ pc[t] = "blocked" /\ mutex[want[t]] = u
    \/ pc[t] = "parked" /\ owner[want[t]] = u

Stuck(S) == S # {} /\ \A t \in S : \E u \in S : WaitsFor(t, u)

\* Two threads never have a writer turn at once, however re-entrant the
\* acquisitions, and the count of the turn is that of its owner's guards:
\* what the debug_asserts in the drop of WriteTurn rest on.
OneWriter ==
    \A v \in Turns :
        /\ \A t \in Threads :
               guards[t][v] = IF owner[v] = t THEN depth[v] ELSE 0
        /\ owner[v] = Nobody <=> depth[v] = 0

\* The graph never lies about an instance: who it says holds one owns its
\* mutex (that is why the hold is dropped before the mutex is), a thread that
\* is in foreign code has in it all it owns, and no wait outlives its cause.
GraphIsTrue ==
    /\ \A i \in Instances : held[i] # Nobody => mutex[i] = held[i]
    /\ \A i \in Instances, t \in Threads :
           mutex[i] = t /\ pc[t] \notin {"got", "locked", "unheld"} => held[i] = t
    /\ \A t \in Threads :
           /\ instWait[t] # Nothing =>
                  pc[t] \in {"blocked", "got", "spoilt"} /\ instWait[t] = want[t]
           /\ turnWait[t] # Nobody => pc[t] \in {"look", "check", "parked"}

\* Whatever threads wait for one another, one of them is a wait that may
\* refuse: no set of threads is asleep for ever.  In particular neither
\* instances alone nor plain waits for the turns can make such a set.
NoHopelessWait ==
    \A S \in SUBSET Threads : Stuck(S) => \E t \in S : Yielding(t)

\* A free turn with somebody asleep in its condvar has somebody awake who is
\* going to take it or to call notify_one.
NoLostWakeup ==
    \A v \in Turns :
        owner[v] = Nobody /\ (\E t \in Threads : pc[t] = "parked" /\ want[t] = v)
            => \E t \in Threads : pc[t] \in {"look", "leave"} /\ want[t] = v

\* What `blocked` threads wait for, whatever the graph says.
ReallyNext ==
    [x \in Threads |-> IF pc[x] = "blocked" THEN mutex[want[x]] ELSE Nobody]

\* An instance is refused only to a thread that would wait for itself: the
\* chain of those that are really blocked, from the owner of the mutex on,
\* comes back to it.
RefusedInACycle ==
    [][\A t \in Threads :
          pc[t] = "tried" /\ pc'[t] = "run" =>
              /\ mutex[want[t]] # Nobody
              /\ LeadsTo(mutex[want[t]], t, ReallyNext)]_vars

\* However the foreign code behaves, threads that wait for one another do not
\* do so for ever: one of them is answered.  To wake up, look and sleep again is
\* not an answer: somebody has to see the cycle and to give way.
StuckIsAnswered ==
    \A S \in (SUBSET Threads) \ {{}} :
        Stuck(S) ~> \E t \in S : ~Waiting(t)

\* A cancelled job stops standing in line for the turn, even if the turn is
\* never given back.
CancelledStopsWaiting ==
    \A t \in Threads :
        t \in cancelled /\ mode[t] = "job" ~> mode[t] # "job"

\* A request, of an instance or of a turn, is answered once the other threads
\* ask for nothing more, if foreign code returns: the last to wait is not
\* forgotten.  While they ask they may pass before it, again and again: neither
\* a mutex nor notify_one hands anything over.
LeftAlone(t) == <>[][\A u \in Threads \ {t} : ~Ask(u)]_vars
AskIsAnswered ==
    Returning => \A t \in Threads : LeftAlone(t) => (Waiting(t) ~> ~Waiting(t))

-----------------------------------------------------------------------------
(* The inductive invariant: what makes the properties above hold.          *)

\* What each step is about.
WantOK ==
    \A t \in Threads :
        /\ pc[t] \in {"tried", "blocked", "got", "spoilt", "locked", "unheld"}
               => want[t] \in Instances
        /\ pc[t] \in {"look", "check", "parked", "leave"} => want[t] \in Turns

\* A mutex and the graph differ about its holder only while the holder is
\* between the two, and a poisoned mutex is never taken again.
HoldOK ==
    /\ \A i \in Instances :
           /\ held[i] # Nobody => mutex[i] = held[i]
           /\ i \in poisoned => mutex[i] = Nobody
    /\ \A i \in Instances, t \in Threads :
           mutex[i] = t => \/ held[i] = t
                          \/ (pc[t] \in {"got", "locked", "unheld"} /\ want[t] = i)
    /\ \A t \in Threads :
           pc[t] \in {"got", "locked", "unheld"} =>
               mutex[want[t]] = t /\ held[want[t]] = Nobody

\* A wait for an instance is in the graph from before mutex.lock() to after.
WaitOK ==
    \A t \in Threads :
        /\ instWait[t] = IF pc[t] \in {"blocked", "got", "spoilt"}
                         THEN want[t] ELSE Nothing
        /\ pc[t] = "spoilt" => want[t] \in poisoned
        /\ turnWait[t] # Nobody => pc[t] \in {"look", "check", "parked"}

\* Nobody waits for a turn of its own, and the turn cannot be given back
\* under the eyes of a thread that is checking.
ParkOK ==
    \A t \in Threads :
        /\ pc[t] \in {"check", "parked"} => owner[want[t]] # t
        /\ pc[t] = "check" => /\ owner[want[t]] # Nobody
                              /\ registry[want[t]] = t
                              /\ mode[t] # "plain"

\* A wait that cannot refuse is not inside an instance.
PlainOK ==
    \A t \in Threads :
        pc[t] \in {"look", "parked"} /\ mode[t] = "plain" =>
            owner[want[t]] = t \/ \A i \in Instances : mutex[i] # t

\* Who waits and has a turn has the workspace's.
OrderOK ==
    \A t \in Threads :
        pc[t] \in {"tried", "blocked", "look", "check", "parked"} =>
            \A v \in Turns : owner[v] = t => owner[Workspace] = t

\* No set of threads waits for instances of its own.
NoInstanceCycle ==
    \A S \in SUBSET Threads :
        S # {} => \E t \in S : ~(pc[t] = "blocked" /\ mutex[want[t]] \in S)

IInv ==
    /\ TypeOK /\ WantOK /\ HoldOK /\ WaitOK /\ OneWriter /\ ParkOK
    /\ PlainOK /\ OrderOK /\ NoInstanceCycle /\ NoLostWakeup

=============================================================================
