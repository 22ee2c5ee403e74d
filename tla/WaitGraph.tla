----------------------------- MODULE WaitGraph -----------------------------
(***************************************************************************)
(* The graph of who holds and who awaits what between the component        *)
(* instances and the writer turns: fub-host/src/waits.rs.  It is behind    *)
(* one global mutex that is a leaf, so every question here is asked of one *)
(* state of the graph.                                                     *)
(***************************************************************************)
EXTENDS FiniteSets

CONSTANTS
    Threads,    \* the threads that save, run jobs, commands and handlers
    Instances,  \* the component instances: each is one Mutex<Instance>
    Nobody,     \* no thread
    Nothing     \* no instance

ASSUME AbsentAssumption == Nobody \notin Threads /\ Nothing \notin Instances

VARIABLES
    held,       \* Graph.held: instance -> the thread that holds it
    instWait,   \* Graph.instance_waits: thread -> the instance it awaits
    turnWait    \* Graph.turn_waits: thread -> the owner of the turn it awaits

GraphTypeOK ==
    /\ held \in [Instances -> Threads \cup {Nobody}]
    /\ instWait \in [Threads -> Instances \cup {Nothing}]
    /\ turnWait \in [Threads -> Threads \cup {Nobody}]

\* The thread that holds the instance `at` waits for: one link of the chain.
NextByInstance ==
    [at \in Threads |->
        IF instWait[at] = Nothing THEN Nobody ELSE held[instWait[at]]]

\* The same, going on through the waits for a turn.
NextByAny ==
    [at \in Threads |->
        IF instWait[at] # Nothing THEN held[instWait[at]] ELSE turnWait[at]]

\* The thread `me` is one of those the walk along `next` from `from` comes to:
\* every set of threads that has `from` and is closed under `next` has `me`.
\* It says what the loops of the code find without the loops, so that it can
\* be reasoned about; CycleWalk runs the loops against it.
LeadsTo(from, me, next) ==
    \A S \in SUBSET Threads :
        (/\ from \in S
         /\ \A x \in S : next[x] # Nobody => next[x] \in S) => me \in S

\* Graph::instances_lead_back_to.
InstancesLeadBackTo(token, me) ==
    held[token] # Nobody /\ LeadsTo(held[token], me, NextByInstance)

\* closes_cycle.
ClosesCycle(from, me) == LeadsTo(from, me, NextByAny)

\* holds_instance.
HoldsInstance(t) == \E i \in Instances : held[i] = t

=============================================================================
