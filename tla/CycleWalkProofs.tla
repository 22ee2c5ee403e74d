-------------------------- MODULE CycleWalkProofs --------------------------
(***************************************************************************)
(* The loops of waits.rs answer what WaitGraph asks of the graph, for any  *)
(* threads, any instances and any graph.  What they have been at leads     *)
(* nowhere but to itself and to where they are (Behind), so when they stop *)
(* it is a set closed under the links that has not met `me`; and whatever  *)
(* closed set has the start has where they are (Ahead).                    *)
(***************************************************************************)
EXTENDS CycleWalk, TLAPS

Link == IF walk = "any" THEN NextByAny ELSE NextByInstance
Start == IF walk = "any" THEN first ELSE held[first]
Closed(S) == \A x \in S : Link[x] # Nobody => Link[x] \in S

\* Who asks about what.
Asked == /\ walk = "any" => first \in Threads
         /\ walk = "instances" => first \in Instances
Ahead == \A S \in SUBSET Threads : Start \in S /\ Closed(S) => at \in S
Behind == /\ me \notin seen
          /\ \A x \in seen : Link[x] \in seen \cup {at}
          /\ Start \in seen \cup {at}
Walking == answer = "walking" => at \in Threads /\ Start \in Threads /\ Ahead /\ Behind

IInv == TypeOK /\ Asked /\ Walking /\ FindsTheCycle

\* What is asked, in the words of the invariant.
LEMMA Question ==
    ASSUME TypeOK, Asked, Start \in Threads
    PROVE  (IF walk = "any" THEN ClosesCycle(first, me) ELSE InstancesLeadBackTo(first, me))
           <=> \A S \in SUBSET Threads : Start \in S /\ Closed(S) => me \in S
<1>1. CASE walk = "any"
  BY <1>1 DEF Start, Link, Closed, ClosesCycle, LeadsTo
<1>2. CASE walk # "any"
  <2>1. held[first] # Nobody
    BY <1>2, AbsentAssumption DEF Start
  <2> QED
    BY <1>2, <2>1 DEF Start, Link, Closed, InstancesLeadBackTo, LeadsTo
<1> QED
  BY <1>1, <1>2

\* A link leads to a thread or nowhere.
LEMMA Links ==
    ASSUME TypeOK
    PROVE  /\ Link \in [Threads -> Threads \cup {Nobody}]
           /\ at # Nobody => Following = Link[at]
<1>1. NextByAny \in [Threads -> Threads \cup {Nobody}]
  BY DEF TypeOK, GraphTypeOK, NextByAny
<1>2. NextByInstance \in [Threads -> Threads \cup {Nobody}]
  BY DEF TypeOK, GraphTypeOK, NextByInstance
<1> QED
  BY <1>1, <1>2 DEF Link, Following

LEMMA Begins == Init => IInv
<1> SUFFICES ASSUME Init PROVE IInv
  OBVIOUS
<1>1. held \in [Instances -> Threads \cup {Nobody}]
  BY DEF Init, GraphTypeOK
<1>2. TypeOK /\ Asked
  BY <1>1 DEF Init, TypeOK, Asked
<1>3. at = Start /\ seen = {}
  BY DEF Init, Start
<1>4. CASE at = Nobody
  <2>1. walk = "instances" /\ held[first] = Nobody /\ answer = "no"
    BY <1>4, AbsentAssumption DEF Init
  <2> QED
    BY <1>2, <2>1 DEF IInv, Walking, FindsTheCycle, InstancesLeadBackTo
<1>5. CASE at # Nobody
  <2>1. at \in Threads /\ answer = "walking"
    BY <1>2, <1>5 DEF Init, TypeOK
  <2> QED
    BY <1>2, <1>3, <2>1 DEF IInv, Walking, Ahead, Behind, FindsTheCycle
<1> QED
  BY <1>4, <1>5

LEMMA GoesOn == IInv /\ [Next]_vars => IInv'
<1> SUFFICES ASSUME IInv, [Next]_vars PROVE IInv'
  OBVIOUS
<1>1. CASE UNCHANGED vars
  BY <1>1 DEF vars, IInv, TypeOK, GraphTypeOK, Asked, Walking, Ahead, Behind, Start, Closed, Link,
              NextByAny, NextByInstance, FindsTheCycle, ClosesCycle, InstancesLeadBackTo, LeadsTo
<1>2. CASE Next
  <2> USE <1>2
  <2>1. UNCHANGED <<held, instWait, turnWait, walk, me, first>> /\ answer = "walking"
    BY DEF Next
  <2>2. /\ at \in Threads /\ Start \in Threads /\ Ahead /\ Behind
        /\ TypeOK /\ Asked
    BY <2>1 DEF IInv, Walking
  <2>3. Asked' /\ Start' = Start /\ Link' = Link /\ \A S : Closed(S)' <=> Closed(S)
    BY <2>1, <2>2 DEF Asked, Start, Link, NextByAny, NextByInstance, Closed
  <2>4. Link \in [Threads -> Threads \cup {Nobody}] /\ Following = Link[at]
    BY <2>2, Links, AbsentAssumption
  <2>5. ASSUME TypeOK', answer' \in {"yes", "no"},
               answer' = "yes" <=> \A S \in SUBSET Threads : Start \in S /\ Closed(S) => me \in S
        PROVE  IInv'
    <3>1. (IF walk = "any" THEN ClosesCycle(first, me) ELSE InstancesLeadBackTo(first, me))'
          <=> (IF walk = "any" THEN ClosesCycle(first, me) ELSE InstancesLeadBackTo(first, me))
      BY <2>1 DEF ClosesCycle, InstancesLeadBackTo, LeadsTo, NextByAny, NextByInstance
    <3>2. FindsTheCycle'
      BY <2>2, <2>5, <3>1, Question DEF FindsTheCycle
    <3> QED
      BY <2>3, <2>5, <3>2 DEF IInv, Walking
  <2>6. CASE Arrive
    <3>1. TypeOK' /\ answer' = "yes" /\ at = me
      BY <2>1, <2>2, <2>6 DEF Arrive, Answer, TypeOK, GraphTypeOK
    <3> QED
      BY <2>2, <2>5, <3>1 DEF Ahead
  \* Whoever stops elsewhere has a closed set without me.
  <2>7. ASSUME NEW S \in SUBSET Threads, Start \in S, Closed(S), me \notin S,
               Answer("no")
        PROVE  IInv'
    <3>1. TypeOK' /\ answer' = "no"
      BY <2>1, <2>2, <2>7 DEF Answer, TypeOK, GraphTypeOK
    <3> QED
      BY <2>5, <2>7, <3>1
  <2>8. CASE ComeBack
    <3>1. at \in seen /\ Answer("no") /\ seen \subseteq Threads
      BY <2>2, <2>8 DEF ComeBack, TypeOK
    <3>2. Start \in seen /\ Closed(seen) /\ me \notin seen
      BY <2>2, <3>1 DEF Behind, Closed
    <3> QED
      BY <2>7, <3>1, <3>2
  <2>9. CASE RunOut
    <3> DEFINE S == seen \cup {at}
    <3>1. at # me /\ Link[at] = Nobody /\ Answer("no") /\ S \in SUBSET Threads
      BY <2>2, <2>4, <2>9 DEF RunOut, TypeOK
    <3>2. Start \in S /\ Closed(S) /\ me \notin S
      BY <2>2, <3>1 DEF Behind, Closed
    <3> QED
      BY <2>7, <3>1, <3>2
  <2>10. CASE Advance
    <3>1. /\ at # me /\ at' = Link[at] /\ Link[at] \in Threads
          /\ seen' = seen \cup {at} /\ answer' = answer
      BY <2>2, <2>4, <2>10 DEF Advance
    <3>2. TypeOK'
      BY <2>1, <2>2, <3>1 DEF TypeOK, GraphTypeOK
    <3>3. Ahead'
      <4> SUFFICES ASSUME NEW S \in SUBSET Threads, Start \in S, Closed(S)
                   PROVE  Link[at] \in S
        BY <2>3, <3>1 DEF Ahead
      <4> QED
        BY <2>2, <3>1, AbsentAssumption DEF Ahead, Closed
    <3>4. Behind'
      <4>1. me' \notin seen'
        BY <2>1, <2>2, <3>1 DEF Behind
      <4>2. \A x \in seen' : Link'[x] \in seen' \cup {at'}
        BY <2>2, <2>3, <3>1 DEF Behind
      <4>3. Start' \in seen' \cup {at'}
        BY <2>2, <2>3, <3>1 DEF Behind
      <4> QED
        BY <4>1, <4>2, <4>3 DEF Behind
    <3> QED
      BY <2>1, <2>2, <2>3, <3>1, <3>2, <3>3, <3>4 DEF IInv, Walking, FindsTheCycle
  <2> QED
    BY <2>6, <2>8, <2>9, <2>10 DEF Next
<1> QED
  BY <1>1, <1>2

\* On every graph, cyclic or stale, the loop with its `seen` set answers
\* whether the links lead from the start back to the thread that asks
\* (waits.rs closes_cycle and instances_lead_back_to).
THEOREM TheLoopsAreRight == Spec => []FindsTheCycle
<1>1. IInv => FindsTheCycle
  BY DEF IInv
<1> QED
  BY <1>1, Begins, GoesOn, PTL DEF Spec
=============================================================================
