----------------------------- MODULE CycleWalk -----------------------------
(***************************************************************************)
(* The two loops of fub-host/src/waits.rs that look for a cycle, one       *)
(* iteration a step, on a graph that does not change: they run under its   *)
(* mutex.  The graph is any one of the type, the stale and the cyclic ones *)
(* included: what the loop answers must not depend on the graph being in   *)
(* good order.                                                             *)
(***************************************************************************)
EXTENDS WaitGraph

VARIABLES
    walk,    \* which of the two loops: "instances" or "any"
    me,      \* the thread that asks
    first,   \* the owner of the turn, the instance asked for
    at,      \* the thread the loop has come to
    seen,    \* the threads it has been at
    answer   \* "walking", "yes" or "no"

vars == <<held, instWait, turnWait, walk, me, first, at, seen, answer>>

TypeOK ==
    /\ GraphTypeOK
    /\ walk \in {"instances", "any"}
    /\ me \in Threads
    /\ first \in Threads \cup Instances
    /\ at \in Threads \cup {Nobody}
    /\ seen \subseteq Threads
    /\ answer \in {"walking", "yes", "no"}

\* instances_lead_back_to starts from the holder of the token, and answers
\* no at once if there is none; closes_cycle starts from the owner it is given.
Init ==
    /\ GraphTypeOK
    /\ me \in Threads
    /\ seen = {}
    /\ \/ walk = "any" /\ first \in Threads /\ at = first
       \/ walk = "instances" /\ first \in Instances /\ at = held[first]
    /\ answer = IF at = Nobody THEN "no" ELSE "walking"

Answer(a) == answer' = a /\ UNCHANGED <<at, seen>>

\* The link followed from here.
Following == IF walk = "any" THEN NextByAny[at] ELSE NextByInstance[at]

\* `at == me`.
Arrive == at = me /\ Answer("yes")

(* Slips the properties are for, in the place of ComeBack and Advance.     *)
\* Takes any cycle for one that goes through me.
ComeBackGuilty == at # me /\ at \in seen /\ Answer("yes")
\* Forgets where it has been.
AdvanceBlind ==
    /\ at # me /\ at \notin seen /\ Following # Nobody
    /\ at' = Following
    /\ UNCHANGED <<seen, answer>>
\* `!seen.insert(at)`: a cycle that does not go through me.
ComeBack == at # me /\ at \in seen /\ Answer("no")

\* Nothing to follow from here.
RunOut == at # me /\ at \notin seen /\ Following = Nobody /\ Answer("no")

Advance ==
    /\ at # me /\ at \notin seen /\ Following # Nobody
    /\ seen' = seen \cup {at}
    /\ at' = Following
    /\ UNCHANGED answer

Next ==
    /\ answer = "walking"
    /\ Arrive \/ ComeBack \/ RunOut \/ Advance
    /\ UNCHANGED <<held, instWait, turnWait, walk, me, first>>

Spec == Init /\ [][Next]_vars /\ WF_vars(Next)

-----------------------------------------------------------------------------
\* The loop answers what the operators of WaitGraph say, on every graph: the
\* `seen` set stops it exactly when nothing new can be found.
FindsTheCycle ==
    answer # "walking" =>
        answer = "yes" <=> IF walk = "any"
                           THEN ClosesCycle(first, me)
                           ELSE InstancesLeadBackTo(first, me)

\* It always comes to an answer, on graphs with cycles that do not go through
\* me too; it runs under a lock everybody needs.
Ends == <>(answer # "walking")

=============================================================================
