---------------------------- MODULE JobPoolProofs ----------------------------
(***************************************************************************)
(* What JobPool says for a small instance, proved for any workers, callers, *)
(* switchers and bundles, any number of jobs, slices, cancels and switches. *)
(*                                                                         *)
(* A job is in one place at a time: in the queue, in one hand, answered, or, *)
(* for the job of the opening, in the token of the opening.  IInv says so,  *)
(* and what each hand knows of the job it has.                              *)
(***************************************************************************)
EXTENDS JobPool, WellFoundedInduction, TLAPS

\* A step with a job in hand, and one with the token of the opening and none.
Holding == {"claim", "next", "flag", "enter", "body", "inside", "leave", "forget", "answer"}
Opens == {"slice", "working"}
WorkerSteps == {"top", "ticket", "drain", "look", "sleep", "doze", "claim", "next", "enter",
                "body", "inside", "leave", "forget", "answer", "slice", "working",
                "break", "warn", "gone"}
CallerSteps == {"idle", "flag", "enter", "body", "inside", "leave", "forget", "answer"}
CloserSteps == {"open", "cancel", "ring", "join", "slice", "refuse", "forget", "answer",
                "close", "unmount", "closed"}

Jobs == 1..Issued
Answered == {id \in Ids : answers[id] # 0}

\* The job of the opening, and who has its token.
IsOpening(id) == id \in Jobs /\ owners[id] = Core
Token(h) == pc[h] \in Opens \/ \E id \in batch[h] : IsOpening(id)

\* The steps of each thread, and whether it has jobs at each.
StepsOK ==
    /\ \A w \in Workers : pc[w] \in WorkerSteps
    /\ \A c \in Callers : pc[c] \in CallerSteps
    /\ pc[Closer] \in CloserSteps
    /\ \A h \in Hands : batch[h] # {} <=> pc[h] \in Holding
    /\ pc[Closer] # "open" => stopping
    /\ \A h \in Hands : pc[h] = "working" => slices > 0
    /\ \A g \in Switchers : spc[g] # "idle" => target[g] \in Bundles

\* A job is in one place.
OnePlace ==
    /\ queue \subseteq Jobs /\ \A h \in Hands : batch[h] \subseteq Jobs
    /\ within \subseteq Jobs /\ Answered \subseteq Jobs
    /\ \A id \in Ids : answers[id] <= 1
    /\ queue \cap Answered = {}
    /\ \A h \in Hands : batch[h] \cap (queue \cup Answered) = {}
    /\ \A h, k \in Hands : h # k => batch[h] \cap batch[k] = {}
    /\ \A c \in Callers : \A id, other \in batch[c] : id = other

\* The opening has one job and one token.
OpeningOK ==
    /\ \E id \in Jobs : IsOpening(id)
    /\ \A id, other \in Jobs : IsOpening(id) /\ IsOpening(other) => id = other
    /\ \A id \in Jobs : IsOpening(id) =>
          /\ id \notin queue
          /\ opening = "over" <=> id \in Answered
          /\ \A h \in Hands : id \in batch[h] => batch[h] = {id} /\ pc[h] \in {"forget", "answer"}
    /\ opening \in {"taken", "spoilt"} <=> \E h \in Hands : Token(h)
    /\ \A h, k \in Hands : Token(h) /\ Token(k) => h = k
    /\ \A c \in Callers : ~Token(c)

\* What is taken in charge is below the mark, and an answer comes after the
\* flag has gone.
Charged(h) ==
    \/ h \in Workers /\ pc[h] \in Holding \ {"claim"}
    \/ h \in Callers /\ pc[h] \in Holding \ {"flag"}
SeenOK ==
    /\ asked.id # 0 => pc[Closer] = "open" /\ asked.issued <= Issued
    /\ \A h \in Hands : Charged(h) => \A id \in batch[h] : id <= seen
    /\ \A h \in Hands : pc[h] = "working" => \A id \in Jobs : IsOpening(id) => id <= seen
    /\ pc[Closer] = "open" => \A id \in Answered \ withdrawn : id <= seen
    /\ \A h \in Hands : pc[h] = "answer" => flags[Job(h)] = "none"
    /\ FlagsHaveAJob

\* Who is counted inside.
WithinOK ==
    \A h \in Hands : pc[h] \in {"body", "inside", "leave"} => Job(h) \in within

\* The permit, where one thread switches.
PermitOK ==
    /\ \A g \in Switchers :
          spc[g] \in {"await", "held", "stopping", "release"} => target[g] \in stopped
    /\ \A g \in Switchers : spc[g] \in {"held", "stopping", "release"} =>
          \A id \in within : owners[id] # target[g]

BellOK ==
    /\ NoLostRing
    /\ \A w \in Workers : pc[w] = "look" /\ w \in current => queue = {}

\* A job that is not answered is somewhere, and after the close nowhere.
Somewhere ==
    \A id \in Jobs :
        \/ id \in Answered \/ id \in queue
        \/ \E h \in Hands : id \in batch[h]
        \/ IsOpening(id)
ClosingOK ==
    /\ \A id \in queue : owners[id] \in declared
    /\ pc[Closer] \notin {"open", "cancel", "ring", "join"} =>
          \A w \in Workers : pc[w] = "gone"
    /\ pc[Closer] \in {"refuse", "close", "unmount", "closed"} => opening = "over"
    /\ pc[Closer] \in {"unmount", "closed"} => closed
    /\ pc[Closer] = "closed" => queue = {}
    /\ pc[Closer] \in {"forget", "answer"} =>
          opening = "over" \/ \E id \in batch[Closer] : IsOpening(id)

IInv == /\ TypeOK /\ StepsOK /\ OnePlace /\ OpeningOK /\ SeenOK /\ WithinOK
        /\ BellOK /\ Somewhere /\ ClosingOK

-----------------------------------------------------------------------------
(* The least of a batch and the highest of a set of jobs.                  *)

LEMMA LeastExists ==
    ASSUME NEW S \in SUBSET Nat, S # {}
    PROVE  \E m \in S : \A k \in S : m <= k
<1>1. IsWellFoundedOn(OpToRel(<, Nat), Nat)
  BY NatLessThanWellFounded, Zenon
<1>2. PICK x \in S : \A y \in S : ~(<<y, x>> \in OpToRel(<, Nat))
  BY <1>1, WFMin, Zenon
<1>3. ASSUME NEW y \in S PROVE x <= y
  <2>1. y < x => <<y, x>> \in OpToRel(<, Nat)
    BY Zenon DEF OpToRel
  <2>2. ~(y < x)
    BY <1>2, <2>1, Zenon
  <2> QED
    BY <2>2, SMT
<1> QED
  BY <1>3

LEMMA JobInHand ==
    ASSUME NEW h \in Hands, batch[h] \subseteq Ids, batch[h] # {}
    PROVE  Job(h) \in batch[h]
<1>1. batch[h] \in SUBSET Nat
  BY BoundsAssumption DEF Ids
<1>2. \E m \in batch[h] : \A k \in batch[h] : m <= k
  BY <1>1, LeastExists
<1> QED
  BY <1>2 DEF Job

LEMMA HighestIs ==
    ASSUME NEW n \in 0..MaxJobs, NEW ids \in SUBSET Ids
    PROVE  /\ Highest(n, ids) \in 0..MaxJobs
           /\ n <= Highest(n, ids) /\ \A k \in ids : k <= Highest(n, ids)
<1> DEFINE S == {MaxJobs - k : k \in ids \cup {n}}
<1>1. S \in SUBSET Nat /\ S # {}
  BY BoundsAssumption DEF Ids
<1>2. PICK m \in S : \A k \in S : m <= k
  BY <1>1, LeastExists
<1>3. PICK top \in ids \cup {n} : m = MaxJobs - top
  OBVIOUS
<1>4. \A k \in ids \cup {n} : k <= top
  BY <1>2, <1>3, BoundsAssumption DEF Ids
<1>5. Highest(n, ids) \in ids \cup {n} /\ \A k \in ids \cup {n} : k <= Highest(n, ids)
  BY <1>4 DEF Highest
<1> HIDE DEF S
<1>6. ids \cup {n} \subseteq 0..MaxJobs
  BY BoundsAssumption DEF Ids
<1> QED
  BY <1>5, <1>6

-----------------------------------------------------------------------------
(* What IInv says of the job a hand has, and of that of the opening.       *)

LEMMA HandFacts ==
    ASSUME IInv
    PROVE  /\ MaxJobs \in Nat /\ Issued \in 0..MaxJobs /\ Jobs \subseteq Ids
           /\ Ids = 1..MaxJobs
           /\ \A h \in Hands : batch[h] \subseteq Jobs
           /\ \A h \in Hands : pc[h] \in Holding =>
                 /\ Job(h) \in batch[h] /\ Job(h) \in Jobs /\ Job(h) \in Ids
                 /\ Owner(h) \in Bundles \cup {Core}
<1>1. MaxJobs \in Nat /\ Issued \in 0..MaxJobs /\ Jobs \subseteq Ids /\ Ids = 1..MaxJobs
  BY BoundsAssumption DEF IInv, TypeOK, Issued, Jobs, Ids
<1>2. \A h \in Hands : batch[h] \subseteq Jobs
  BY DEF IInv, OnePlace
<1>3. ASSUME NEW h \in Hands, pc[h] \in Holding
      PROVE  Job(h) \in batch[h]
  BY <1>1, <1>2, <1>3, JobInHand DEF IInv, StepsOK
<1>4. \A id \in Jobs : owners[id] \in Bundles \cup {Core}
  BY DEF IInv, TypeOK, Jobs, Issued
<1> QED
  BY <1>1, <1>2, <1>3, <1>4 DEF Owner

LEMMA OpeningFacts ==
    ASSUME IInv
    PROVE  /\ IsOpening(OpeningJob) /\ OpeningJob \in Jobs /\ owners[OpeningJob] = Core
           /\ \A id : IsOpening(id) <=> id = OpeningJob
<1>1. PICK id \in Jobs : IsOpening(id)
  BY DEF IInv, OpeningOK
<1>2. OpeningJob \in Jobs /\ owners[OpeningJob] = Core
  BY <1>1 DEF IsOpening, OpeningJob, Jobs
<1>3. \A other : IsOpening(other) => other = OpeningJob
  BY <1>2 DEF IInv, OpeningOK, IsOpening
<1> QED
  BY <1>2, <1>3 DEF IsOpening

LEMMA JobKept == \A h : batch'[h] = batch[h] => Job(h)' = Job(h)
  BY DEF Job

\* Who has the token of the opening and no job yet.
LEMMA TokenFacts ==
    ASSUME IInv, NEW h \in Hands, pc[h] \in Opens
    PROVE  /\ opening \in {"taken", "spoilt"} /\ OpeningJob \notin queue
           /\ OpeningJob \notin Answered /\ batch[h] = {}
           /\ \A k \in Hands : OpeningJob \notin batch[k]
           /\ \A k \in Hands : k # h => ~Token(k)
<1>1. Token(h) /\ batch[h] = {}
  BY DEF Token, Opens, Holding, IInv, StepsOK
<1>2. opening \in {"taken", "spoilt"} /\ \A k \in Hands : k # h => ~Token(k)
  BY <1>1 DEF IInv, OpeningOK
<1>3. OpeningJob \notin queue /\ OpeningJob \notin Answered
  BY <1>2, OpeningFacts DEF IInv, OpeningOK
<1>4. ASSUME NEW k \in Hands PROVE OpeningJob \notin batch[k]
  BY <1>1, <1>2, OpeningFacts DEF Token
<1> QED
  BY <1>1, <1>2, <1>3, <1>4

-----------------------------------------------------------------------------
(* The owners only grow, and the job of the opening stays the same.         *)

LEMMA OwnersGrow ==
    ASSUME [Next]_vars
    PROVE  \/ owners' = owners
           \/ \E b \in Bundles : owners' = Append(owners, b) /\ Issued < MaxJobs
<1> DEFINE G == \/ owners' = owners
               \/ \E b \in Bundles : owners' = Append(owners, b) /\ Issued < MaxJobs
<1>1. ASSUME NEW h \in Hands, Run(h) PROVE G
  BY <1>1 DEF Run, Flag, Enter, Body, Leave, Forget, Answer, Slice, kernel
<1>2. ASSUME NEW w \in Workers, Round(w) \/ Failing(w) PROVE G
  BY <1>2 DEF Round, Failing, Top, Ticket, Drain, Look, Wake, Alarm, AlarmFails, Break, Warn,
              Claim, NextJob, PutBack, Spoil, kernel
<1>3. ASSUME NEW g \in Switchers, Switching(g) \/ MountFails(g) PROVE G
  BY <1>3 DEF Switching, Permit, RemoveBody, Deactivated, Release, Declare, Mount, MountFails,
              kernel
<1>4. ASSUME Closing PROVE G
  BY <1>4 DEF Closing, CancelAll, Ring, Join, RefusePending, PrepareClose, Unmount, FinishClose,
              kernel
<1>5. ASSUME Asking PROVE G
  BY <1>5 DEF Asking, Spawn, Invoke, AskCancel, Shutdown, Enable, Stop, kernel
<1>6. Cancel => G
  BY DEF Cancel, kernel
<1>7. UNCHANGED vars => G
  BY DEF vars, kernel
<1> QED
  BY <1>1, <1>2, <1>3, <1>4, <1>5, <1>6, <1>7 DEF Next

LEMMA OwnersKept ==
    ASSUME IInv, [Next]_vars
    PROVE  /\ Issued \in Nat /\ Issued <= Issued' /\ Jobs \subseteq Jobs' /\ Jobs' \subseteq Ids
           /\ \A id \in Jobs : owners'[id] = owners[id]
           /\ \A id \in Jobs' \ Jobs : owners'[id] # Core
           /\ \A id : IsOpening(id)' <=> IsOpening(id)
<1>1. owners \in Seq(Bundles \cup {Core}) /\ Issued \in 0..MaxJobs /\ Issued = Len(owners)
  BY HandFacts DEF IInv, TypeOK, Issued
<1>2. CASE owners' = owners
  BY <1>1, <1>2, BoundsAssumption DEF IsOpening, Jobs, Issued, Ids
<1>3. CASE owners' # owners
  <2>1. PICK b \in Bundles : owners' = Append(owners, b) /\ Issued < MaxJobs
    BY <1>3, OwnersGrow
  <2>2. /\ Issued' = Issued + 1 /\ owners'[Issued + 1] = b
        /\ \A id \in 1..Issued : owners'[id] = owners[id]
    BY <1>1, <2>1 DEF Issued
  <2>3. Jobs' = Jobs \cup {Issued + 1} /\ Issued + 1 \notin Jobs
    BY <1>1, <2>2 DEF Jobs
  <2> QED
    BY <1>1, <2>1, <2>2, <2>3, BundlesAssumption, BoundsAssumption DEF IsOpening, Jobs, Ids
<1> QED
  BY <1>2, <1>3

-----------------------------------------------------------------------------
(* One part of the invariant at a time, every step.                        *)

\* Every step keeps the types.
LEMMA TypeStep ==
    ASSUME IInv, [Next]_vars
    PROVE  TypeOK'
<1> USE DEF TypeOK, kernel, bundles, inflight, control, switch, cancel, Go, Hands, Steps
<1>0. TypeOK
  BY DEF IInv
<1>1. ASSUME NEW b \in Bundles, Spawn(b) PROVE TypeOK'
  <2>1. owners' \in Seq(Bundles \cup {Core}) /\ Len(owners') = Issued + 1 /\ Issued + 1 <= MaxJobs
    BY <1>0, <1>1, BoundsAssumption DEF Spawn, Issued
  <2>2. Issued + 1 \in Ids
    BY <2>1, <1>0, BoundsAssumption DEF Issued, Ids
  <2> QED
    BY <1>0, <1>1, <2>1, <2>2 DEF Spawn, RingBell
<1>2. ASSUME NEW c \in Callers, NEW b \in Bundles, Invoke(c, b) PROVE TypeOK'
  BY <1>0, <1>2, BoundsAssumption DEF Invoke, Issued, Ids
<1>3. ASSUME NEW w \in Workers, Top(w) PROVE TypeOK'
  BY <1>0, <1>3 DEF Top
<1>4. ASSUME NEW w \in Workers, Ticket(w) PROVE TypeOK'
  BY <1>0, <1>4 DEF Ticket
<1>5. ASSUME NEW w \in Workers, Drain(w) PROVE TypeOK'
  BY <1>0, <1>5 DEF Drain
<1>6. ASSUME NEW w \in Workers, Look(w) PROVE TypeOK'
  BY <1>0, <1>6 DEF Look
<1>7. ASSUME NEW w \in Workers, Wake(w) PROVE TypeOK'
  BY <1>0, <1>7 DEF Wake
<1>8. ASSUME NEW w \in Workers, Alarm(w) PROVE TypeOK'
  BY <1>0, <1>8 DEF Alarm
<1>9. ASSUME NEW w \in Workers, AlarmFails(w) PROVE TypeOK'
  BY <1>0, <1>9 DEF AlarmFails
<1>10. ASSUME NEW w \in Workers, Break(w) PROVE TypeOK'
  BY <1>0, <1>10 DEF Break
<1>11. ASSUME NEW w \in Workers, Warn(w) PROVE TypeOK'
  BY <1>0, <1>11 DEF Warn, RingBell
<1>12. ASSUME NEW w \in Workers, Claim(w) PROVE TypeOK'
  BY <1>0, <1>12, HighestIs DEF Claim, Claimed
<1>13. ASSUME NEW w \in Workers, NextJob(w) PROVE TypeOK'
  BY <1>0, <1>13 DEF NextJob
<1>14. ASSUME NEW h \in Hands, Flag(h) PROVE TypeOK'
  BY <1>0, <1>14, HighestIs, HandFacts DEF Flag, Claimed, Holding
<1>15. ASSUME NEW h \in Hands, Enter(h) PROVE TypeOK'
  <2>1. within' \subseteq Ids
    BY <1>0, <1>15, HandFacts DEF Enter, Holding
  <2>2. pc' \in [Hands -> Steps]
    <3>1. pc' = [pc EXCEPT ![h] = "forget"] \/ pc' = [pc EXCEPT ![h] = "body"]
      BY <1>15 DEF Enter
    <3> QED
      BY <1>0, <3>1
  <2> QED
    BY <1>0, <1>15, <2>1, <2>2 DEF Enter
<1>16. ASSUME NEW h \in Hands, Body(h) PROVE TypeOK'
  BY <1>0, <1>16 DEF Body
<1>17. ASSUME NEW h \in Hands, Leave(h) PROVE TypeOK'
  BY <1>0, <1>17 DEF Leave
<1>18. ASSUME NEW h \in Hands, Forget(h) PROVE TypeOK'
  BY <1>0, <1>18 DEF Forget
<1>19. ASSUME NEW h \in Hands, Answer(h) PROVE TypeOK'
  BY <1>0, <1>19, HandFacts DEF Answer, Following, Holding
<1>20. ASSUME NEW h \in Hands, Slice(h) PROVE TypeOK'
  <2>1. OpeningJob \in Ids
    BY HandFacts, OpeningFacts
  <2>2. seen' \in 0..MaxJobs
    BY <1>0, <1>20, <2>1, HighestIs DEF Slice
  <2>3. flags' \in [Ids -> {"none", "down", "up"}]
    BY <1>0, <1>20 DEF Slice, Claimed
  <2>4. pc' \in [Hands -> Steps]
    BY <1>0, <1>20 DEF Slice
  <2>5. batch' \in [Hands -> SUBSET Ids]
    <3>1. batch' = batch \/ batch' = [batch EXCEPT ![h] = {OpeningJob}]
      BY <1>20 DEF Slice
    <3> QED
      BY <1>0, <2>1, <3>1
  <2> QED
    BY <1>0, <1>20, <2>2, <2>3, <2>4, <2>5 DEF Slice
<1>21. ASSUME NEW w \in Workers, PutBack(w) PROVE TypeOK'
  BY <1>0, <1>21 DEF PutBack, IInv, StepsOK
<1>22. ASSUME NEW w \in Workers, Spoil(w) PROVE TypeOK'
  <2>1. OpeningJob \in Ids
    BY HandFacts, OpeningFacts
  <2>2. batch' \in [Hands -> SUBSET Ids]
    <3>1. batch' = batch \/ batch' = [batch EXCEPT ![w] = {OpeningJob}]
      BY <1>22 DEF Spoil
    <3>2. w \in Hands /\ {OpeningJob} \in SUBSET Ids
      BY <2>1
    <3> QED
      BY <1>0, <3>1, <3>2
  <2> QED
    BY <1>0, <1>22, <2>2 DEF Spoil
<1>23. ASSUME NEW id \in Ids, AskCancel(id) PROVE TypeOK'
  <2>1. asked' \in [id : 0..MaxJobs, issued : 0..MaxJobs]
    BY <1>23, HandFacts DEF AskCancel
  <2> QED
    BY <1>0, <1>23, <2>1 DEF AskCancel
<1>24. ASSUME Cancel PROVE TypeOK'
  BY <1>0, <1>24, BoundsAssumption DEF Cancel, Ids
<1>25. ASSUME NEW g \in Switchers, NEW b \in Bundles, Shutdown(g, b) PROVE TypeOK'
  BY <1>0, <1>25 DEF Shutdown, SetOff, Raised
<1>26. ASSUME NEW g \in Switchers, Permit(g) PROVE TypeOK'
  BY <1>0, <1>26 DEF Permit, StepTo
<1>27. ASSUME NEW g \in Switchers, RemoveBody(g) PROVE TypeOK'
  BY <1>0, <1>27 DEF RemoveBody, StepTo
<1>28. ASSUME NEW g \in Switchers, Deactivated(g) PROVE TypeOK'
  BY <1>0, <1>28 DEF Deactivated, Retire, StepTo
<1>29. ASSUME NEW g \in Switchers, Release(g) PROVE TypeOK'
  BY <1>0, <1>29 DEF Release, Done
<1>30. ASSUME NEW g \in Switchers, NEW b \in Bundles, Enable(g, b) PROVE TypeOK'
  BY <1>0, <1>30 DEF Enable, SetOff
<1>31. ASSUME NEW g \in Switchers, Declare(g) PROVE TypeOK'
  <2>1. target[g] \in Bundles
    BY <1>31 DEF Declare, IInv, StepsOK
  <2>2. /\ declared' \subseteq Bundles /\ turn' \in Switchers \cup {Closer, Nobody}
        /\ spc' \in [Switchers -> {"idle", "await", "held", "stopping", "release",
                                    "enable", "mounting"}]
        /\ target' \in [Switchers -> Bundles \cup {Nobody}]
        /\ switches' = switches
    BY <1>0, <1>31, <2>1 DEF Declare, StepTo, Done
  <2>3. current' \subseteq Workers
    BY <1>0, <1>31 DEF Declare, RingBell
  <2> QED
    BY <1>0, <1>31, <2>2, <2>3 DEF Declare
<1>32. ASSUME NEW g \in Switchers, Mount(g) PROVE TypeOK'
  BY <1>0, <1>32 DEF Mount, Done, IInv, StepsOK
<1>33. ASSUME NEW g \in Switchers, MountFails(g) PROVE TypeOK'
  BY <1>0, <1>33 DEF MountFails, Retire, Done
<1>34. ASSUME Stop PROVE TypeOK'
  BY <1>0, <1>34 DEF Stop
<1>35. ASSUME CancelAll PROVE TypeOK'
  BY <1>0, <1>35 DEF CancelAll, Raised
<1>36. ASSUME Ring PROVE TypeOK'
  BY <1>0, <1>36 DEF Ring, RingBell
<1>37. ASSUME Join PROVE TypeOK'
  BY <1>0, <1>37 DEF Join
<1>38. ASSUME RefusePending PROVE TypeOK'
  BY <1>0, <1>38 DEF RefusePending
<1>39. ASSUME PrepareClose PROVE TypeOK'
  BY <1>0, <1>39 DEF PrepareClose
<1>40. ASSUME NEW b \in Bundles, Unmount(b) PROVE TypeOK'
  BY <1>0, <1>40 DEF Unmount, Retire
<1>41. ASSUME FinishClose PROVE TypeOK'
  BY <1>0, <1>41 DEF FinishClose
<1>42. CASE UNCHANGED vars
  BY <1>0, <1>42 DEF vars
<1> QED
  BY <1>1, <1>2, <1>3, <1>4, <1>5, <1>6, <1>7, <1>8, <1>9, <1>10, <1>11, <1>12, <1>13, <1>14,
     <1>15, <1>16, <1>17, <1>18, <1>19, <1>20, <1>21, <1>22, <1>23, <1>24, <1>25, <1>26, <1>27,
     <1>28, <1>29, <1>30, <1>31, <1>32, <1>33, <1>34, <1>35, <1>36, <1>37, <1>38, <1>39, <1>40,
     <1>41, <1>42
  DEF Next, Run, Round, Closing, Switching, Asking, Failing

\* Every step moves a thread to a step of its own, and has jobs where it says.
LEMMA StepsOKStep ==
    ASSUME IInv, [Next]_vars
    PROVE  StepsOK'
<1> USE DEF StepsOK, WorkerSteps, CallerSteps, CloserSteps, Holding, Hands, Go, kernel, bundles,
            inflight, control, switch, cancel
<1>0. TypeOK /\ StepsOK
  BY DEF IInv
<1>t. /\ pc \in [Hands -> Steps] /\ batch \in [Hands -> SUBSET Ids] /\ slices \in Nat
     /\ spc \in [Switchers -> {"idle", "await", "held", "stopping", "release",
                              "enable", "mounting"}]
     /\ target \in [Switchers -> Bundles \cup {Nobody}]
  BY DEF IInv, TypeOK
<1>1. ASSUME NEW c \in Callers, NEW b \in Bundles, Invoke(c, b) PROVE StepsOK'
  BY <1>0, <1>t, ThreadsAssumption, HandFacts, <1>1 DEF Invoke
<1>2. ASSUME NEW w \in Workers, Top(w) PROVE StepsOK'
  BY <1>0, <1>t, ThreadsAssumption, HandFacts, <1>2 DEF Top
<1>3. ASSUME NEW w \in Workers, Ticket(w) PROVE StepsOK'
  BY <1>0, <1>t, ThreadsAssumption, HandFacts, <1>3 DEF Ticket
<1>4. ASSUME NEW w \in Workers, Drain(w) PROVE StepsOK'
  BY <1>0, <1>t, ThreadsAssumption, HandFacts, <1>4 DEF Drain
<1>5. ASSUME NEW w \in Workers, Look(w) PROVE StepsOK'
  BY <1>0, <1>t, ThreadsAssumption, HandFacts, <1>5 DEF Look
<1>6. ASSUME NEW w \in Workers, Wake(w) PROVE StepsOK'
  BY <1>0, <1>t, ThreadsAssumption, HandFacts, <1>6 DEF Wake
<1>7. ASSUME NEW w \in Workers, Alarm(w) PROVE StepsOK'
  BY <1>0, <1>t, ThreadsAssumption, HandFacts, <1>7 DEF Alarm
<1>8. ASSUME NEW w \in Workers, AlarmFails(w) PROVE StepsOK'
  BY <1>0, <1>t, ThreadsAssumption, HandFacts, <1>8 DEF AlarmFails
<1>9. ASSUME NEW w \in Workers, Break(w) PROVE StepsOK'
  BY <1>0, <1>t, ThreadsAssumption, HandFacts, <1>9 DEF Break
<1>10. ASSUME NEW w \in Workers, Warn(w) PROVE StepsOK'
  BY <1>0, <1>t, ThreadsAssumption, HandFacts, <1>10 DEF Warn, RingBell
<1>11. ASSUME NEW w \in Workers, Claim(w) PROVE StepsOK'
  BY <1>0, <1>t, ThreadsAssumption, HandFacts, <1>11 DEF Claim, Claimed
<1>12. ASSUME NEW w \in Workers, NextJob(w) PROVE StepsOK'
  BY <1>0, <1>t, ThreadsAssumption, HandFacts, <1>12 DEF NextJob
<1>13. ASSUME NEW h \in Hands, Flag(h) PROVE StepsOK'
  BY <1>0, <1>t, ThreadsAssumption, HandFacts, <1>13 DEF Flag, Claimed
<1>14. ASSUME NEW h \in Hands, Enter(h) PROVE StepsOK'
  BY <1>0, <1>t, ThreadsAssumption, HandFacts, <1>14 DEF Enter
<1>15. ASSUME NEW h \in Hands, Body(h) PROVE StepsOK'
  BY <1>0, <1>t, ThreadsAssumption, HandFacts, <1>15 DEF Body
<1>16. ASSUME NEW h \in Hands, Leave(h) PROVE StepsOK'
  BY <1>0, <1>t, ThreadsAssumption, HandFacts, <1>16 DEF Leave
<1>17. ASSUME NEW h \in Hands, Forget(h) PROVE StepsOK'
  BY <1>0, <1>t, ThreadsAssumption, HandFacts, <1>17 DEF Forget
<1>18. ASSUME NEW h \in Hands, Answer(h) PROVE StepsOK'
  <2>1. Owner(h) = Core => batch[h] = {Job(h)}
    BY <1>18, HandFacts, OpeningFacts DEF IInv, OpeningOK, Owner, Answer, IsOpening
  <2>2. pc[h] = "answer" /\ Job(h) \in batch[h] /\ batch'[h] = batch[h] \ {Job(h)}
        /\ pc'[h] = Following(h) /\ h \in Hands
    BY <1>t, <1>18, HandFacts DEF Answer
  <2>3. /\ h \in Workers => pc'[h] \in WorkerSteps
        /\ h \in Callers => pc'[h] \in CallerSteps
        /\ h = Closer => pc'[h] \in CloserSteps \ {"open"}
        /\ pc'[h] # "working"
    BY <2>2, ThreadsAssumption DEF Following
  <2>4. h \in Callers => batch[h] = {Job(h)}
    BY <2>2 DEF IInv, OnePlace
  <2>5. batch'[h] # {} <=> pc'[h] \in Holding
    BY <2>1, <2>2, <2>4, ThreadsAssumption DEF Following
  <2>6. \A k \in Hands \ {h} : batch'[k] = batch[k] /\ pc'[k] = pc[k]
    BY <1>t, <1>18 DEF Answer
  <2> QED
    BY <1>0, <1>18, <2>2, <2>3, <2>5, <2>6, ThreadsAssumption DEF Answer
<1>19. ASSUME NEW h \in Hands, Slice(h) PROVE StepsOK'
  BY <1>0, <1>t, ThreadsAssumption, HandFacts, <1>19 DEF Slice, Claimed
<1>20. ASSUME NEW w \in Workers, PutBack(w) PROVE StepsOK'
  <2>1. \A k \in Hands : pc[k] = "working" => k = w
    BY <1>20 DEF IInv, OpeningOK, Token, Opens, PutBack
  <2> QED
    BY <1>0, <1>t, <1>20, <2>1, ThreadsAssumption DEF PutBack
<1>21. ASSUME NEW w \in Workers, Spoil(w) PROVE StepsOK'
  BY <1>0, <1>t, ThreadsAssumption, HandFacts, <1>21 DEF Spoil
<1>22. ASSUME NEW g \in Switchers, NEW b \in Bundles, Shutdown(g, b) PROVE StepsOK'
  BY <1>0, <1>t, ThreadsAssumption, HandFacts, <1>22 DEF Shutdown, SetOff, Raised
<1>23. ASSUME NEW g \in Switchers, Permit(g) PROVE StepsOK'
  BY <1>0, <1>t, ThreadsAssumption, HandFacts, <1>23 DEF Permit, StepTo
<1>24. ASSUME NEW g \in Switchers, RemoveBody(g) PROVE StepsOK'
  BY <1>0, <1>t, ThreadsAssumption, HandFacts, <1>24 DEF RemoveBody, StepTo
<1>25. ASSUME NEW g \in Switchers, Deactivated(g) PROVE StepsOK'
  BY <1>0, <1>t, ThreadsAssumption, HandFacts, <1>25 DEF Deactivated, Retire, StepTo
<1>26. ASSUME NEW g \in Switchers, Release(g) PROVE StepsOK'
  BY <1>0, <1>t, ThreadsAssumption, HandFacts, <1>26 DEF Release, Done
<1>27. ASSUME NEW g \in Switchers, NEW b \in Bundles, Enable(g, b) PROVE StepsOK'
  BY <1>0, <1>t, ThreadsAssumption, HandFacts, <1>27 DEF Enable, SetOff
<1>28. ASSUME NEW g \in Switchers, Declare(g) PROVE StepsOK'
  BY <1>0, <1>t, ThreadsAssumption, HandFacts, <1>28 DEF Declare, StepTo, Done, RingBell
<1>29. ASSUME NEW g \in Switchers, Mount(g) PROVE StepsOK'
  BY <1>0, <1>t, ThreadsAssumption, HandFacts, <1>29 DEF Mount, Done
<1>30. ASSUME NEW g \in Switchers, MountFails(g) PROVE StepsOK'
  BY <1>0, <1>t, ThreadsAssumption, HandFacts, <1>30 DEF MountFails, Retire, Done
<1>31. ASSUME Stop PROVE StepsOK'
  BY <1>0, <1>t, ThreadsAssumption, HandFacts, <1>31 DEF Stop
<1>32. ASSUME CancelAll PROVE StepsOK'
  BY <1>0, <1>t, ThreadsAssumption, HandFacts, <1>32 DEF CancelAll, Raised
<1>33. ASSUME Ring PROVE StepsOK'
  BY <1>0, <1>t, ThreadsAssumption, HandFacts, <1>33 DEF Ring, RingBell
<1>34. ASSUME Join PROVE StepsOK'
  BY <1>0, <1>t, ThreadsAssumption, HandFacts, <1>34 DEF Join
<1>35. ASSUME RefusePending PROVE StepsOK'
  BY <1>0, <1>t, ThreadsAssumption, HandFacts, <1>35 DEF RefusePending
<1>36. ASSUME PrepareClose PROVE StepsOK'
  BY <1>0, <1>t, ThreadsAssumption, HandFacts, <1>36 DEF PrepareClose
<1>37. ASSUME FinishClose PROVE StepsOK'
  BY <1>0, <1>t, ThreadsAssumption, HandFacts, <1>37 DEF FinishClose
<1>38. CASE \/ UNCHANGED vars
            \/ \E b \in Bundles : Spawn(b)
            \/ \E id \in Ids : AskCancel(id)
            \/ Cancel
            \/ \E b \in Bundles : Unmount(b)
  <2>1. UNCHANGED <<pc, batch, slices, stopping, spc, target>>
    BY <1>38 DEF vars, AskCancel, Cancel, Retire, RingBell, Spawn, Unmount
  <2> QED
    BY <1>0, <1>t, ThreadsAssumption, HandFacts, <2>1
<1> HIDE DEF StepsOK, WorkerSteps, CallerSteps, CloserSteps, Holding, Hands
<1> QED
  <2>1. ASSUME NEW h \in Hands, Run(h) PROVE StepsOK'
    BY <2>1, <1>13, <1>14, <1>15, <1>16, <1>17, <1>18, <1>19 DEF Run
  <2>2. ASSUME NEW w \in Workers, Round(w) \/ Failing(w) PROVE StepsOK'
    BY <2>2, <1>2, <1>3, <1>4, <1>5, <1>6, <1>7, <1>8, <1>9, <1>10, <1>11, <1>12, <1>20, <1>21
    DEF Round, Failing
  <2>3. ASSUME NEW g \in Switchers, Switching(g) \/ MountFails(g) PROVE StepsOK'
    BY <2>3, <1>23, <1>24, <1>25, <1>26, <1>28, <1>29, <1>30 DEF Switching
  <2>4. ASSUME Closing PROVE StepsOK'
    BY <2>4, <1>32, <1>33, <1>34, <1>35, <1>36, <1>37, <1>38 DEF Closing
  <2>5. ASSUME Asking PROVE StepsOK'
    BY <2>5, <1>1, <1>22, <1>27, <1>31, <1>38 DEF Asking
  <2> QED
    BY <2>1, <2>2, <2>3, <2>4, <2>5, <1>38 DEF Next

\* Every step leaves a job in one place: who takes the queue takes it whole,
\* who answers takes out of a batch or of the queue what it answers.
LEMMA OnePlaceStep ==
    ASSUME IInv, [Next]_vars
    PROVE  OnePlace'
<1> USE DEF OnePlace, Answered, Go, kernel, bundles, inflight, control, switch, cancel
<1>0. TypeOK /\ OnePlace
  BY DEF IInv
<1>t. /\ batch \in [Hands -> SUBSET Ids] /\ answers \in [Ids -> Nat]
     /\ owners \in Seq(Bundles \cup {Core})
  BY DEF IInv, TypeOK
<1>j. owners' = owners => Jobs' = Jobs
  BY DEF Jobs, Issued
<1>1. ASSUME NEW b \in Bundles, Spawn(b) PROVE OnePlace'
  <2>1. Issued \in Nat /\ Issued' = Issued + 1
    BY <1>t, <1>1 DEF Spawn, Issued
  <2>2. Jobs' = Jobs \cup {Issued + 1} /\ Issued + 1 \notin Jobs /\ Issued + 1 \in Ids
    BY <2>1, <1>1, BoundsAssumption DEF Jobs, Ids, Spawn
  <2> QED
    BY <1>0, <1>t, <1>1, <2>2, ThreadsAssumption, HandFacts DEF Spawn
<1>2. ASSUME NEW c \in Callers, NEW b \in Bundles, Invoke(c, b) PROVE OnePlace'
  <2>1. Issued \in Nat /\ Issued' = Issued + 1
    BY <1>t, <1>2 DEF Invoke, Issued
  <2>2. Jobs' = Jobs \cup {Issued + 1} /\ Issued + 1 \notin Jobs /\ Issued + 1 \in Ids
    BY <2>1, <1>2, BoundsAssumption DEF Jobs, Ids, Invoke
  <2> QED
    BY <1>0, <1>t, <1>2, <2>2, ThreadsAssumption, HandFacts DEF Invoke
<1>3. ASSUME NEW w \in Workers, Drain(w) PROVE OnePlace'
  BY <1>0, <1>t, <1>j, ThreadsAssumption, HandFacts, <1>3 DEF Drain
<1>4. ASSUME NEW h \in Hands, Enter(h) PROVE OnePlace'
  BY <1>0, <1>t, <1>j, ThreadsAssumption, HandFacts, <1>4 DEF Enter, Holding
<1>5. ASSUME NEW h \in Hands, Leave(h) PROVE OnePlace'
  BY <1>0, <1>t, <1>j, ThreadsAssumption, HandFacts, <1>5 DEF Leave, Holding
<1>6. ASSUME NEW h \in Hands, Answer(h) PROVE OnePlace'
  <2>1. Job(h) \in batch[h] /\ Job(h) \in Jobs /\ Job(h) \in Ids
    BY <1>6, HandFacts DEF Answer, Holding
  <2>2. answers' = [answers EXCEPT ![Job(h)] = 1] /\ Answered' = Answered \cup {Job(h)}
    <3>1. answers[Job(h)] = 0
      BY <1>0, <1>6, <2>1
    <3>2. answers' = [answers EXCEPT ![Job(h)] = 1]
      BY <1>t, <1>6, <3>1 DEF Answer
    <3> QED
      BY <1>t, <2>1, <3>2
  <2> QED
    BY <1>0, <1>t, <1>j, <1>6, <2>1, <2>2, ThreadsAssumption DEF Answer
<1>7. ASSUME NEW h \in Hands, Slice(h) PROVE OnePlace'
  <2>1. OpeningJob \in Jobs /\ OpeningJob \in Ids
    BY HandFacts, OpeningFacts
  <2>2. CASE pc[h] = "slice"
    <3>1. /\ OpeningJob \notin queue /\ OpeningJob \notin Answered
          /\ \A k \in Hands : OpeningJob \notin batch[k]
      BY <2>2, TokenFacts DEF Opens, Hands
    <3>2. batch' = batch \/ batch' = [batch EXCEPT ![h] = {OpeningJob}]
      BY <1>7 DEF Slice
    <3>3. h \notin Callers /\ h \in Hands
      BY <2>2 DEF IInv, StepsOK, CallerSteps, Hands
    <3>4. UNCHANGED <<queue, within, answers, owners>> /\ Jobs' = Jobs
      BY <1>j, <1>7 DEF Slice
    <3>5. \A k \in Hands : \/ batch'[k] = batch[k]
                           \/ k = h /\ batch'[k] = {OpeningJob}
      BY <1>t, <3>2
    <3> DEFINE done == {id \in Ids : answers[id] # 0}
    <3>6. \A k \in Hands : batch[k] \subseteq Jobs /\ batch[k] \cap (queue \cup done) = {}
      BY <1>0
    <3>7. \A k, l \in Hands : k # l => batch[k] \cap batch[l] = {}
      BY <1>0
    <3>8. OpeningJob \notin done
      BY <3>1
    <3> HIDE DEF done
    <3>9. \A k \in Hands : batch'[k] \subseteq Jobs /\ batch'[k] \cap (queue \cup done) = {}
      BY <2>1, <3>1, <3>5, <3>6, <3>8
    <3>10. \A k, l \in Hands : k # l => batch'[k] \cap batch'[l] = {}
      BY <3>1, <3>5, <3>7
    <3>11. \A c \in Callers : batch'[c] = batch[c]
      BY <3>3, <3>5 DEF Hands
    <3> USE DEF done
    <3> QED
      BY <1>0, <3>4, <3>9, <3>10, <3>11
  <2>3. CASE pc[h] # "slice"
    BY <1>0, <1>t, <1>j, <1>7, <2>3, ThreadsAssumption DEF Slice
  <2> QED
    BY <2>2, <2>3
<1>8. ASSUME NEW w \in Workers, Spoil(w) PROVE OnePlace'
  <2>1. OpeningJob \in Jobs /\ OpeningJob \in Ids
    BY HandFacts, OpeningFacts
  <2>2. CASE pc[w] = "working"
    <3>1. /\ OpeningJob \notin queue /\ OpeningJob \notin Answered
          /\ \A k \in Hands : OpeningJob \notin batch[k]
      BY <2>2, TokenFacts DEF Opens, Hands
    <3>2. batch' = batch \/ batch' = [batch EXCEPT ![w] = {OpeningJob}]
      BY <1>8 DEF Spoil
    <3>3. w \notin Callers /\ w \in Hands
      BY <2>2 DEF IInv, StepsOK, CallerSteps, Hands
    <3>4. UNCHANGED <<queue, within, answers, owners>> /\ Jobs' = Jobs
      BY <1>j, <1>8 DEF Spoil
    <3>5. \A k \in Hands : \/ batch'[k] = batch[k]
                           \/ k = w /\ batch'[k] = {OpeningJob}
      BY <1>t, <3>2
    <3> DEFINE done == {id \in Ids : answers[id] # 0}
    <3>6. \A k \in Hands : batch[k] \subseteq Jobs /\ batch[k] \cap (queue \cup done) = {}
      BY <1>0
    <3>7. \A k, l \in Hands : k # l => batch[k] \cap batch[l] = {}
      BY <1>0
    <3>8. OpeningJob \notin done
      BY <3>1
    <3> HIDE DEF done
    <3>9. \A k \in Hands : batch'[k] \subseteq Jobs /\ batch'[k] \cap (queue \cup done) = {}
      BY <2>1, <3>1, <3>5, <3>6, <3>8
    <3>10. \A k, l \in Hands : k # l => batch'[k] \cap batch'[l] = {}
      BY <3>1, <3>5, <3>7
    <3>11. \A c \in Callers : batch'[c] = batch[c]
      BY <3>3, <3>5 DEF Hands
    <3> USE DEF done
    <3> QED
      BY <1>0, <3>4, <3>9, <3>10, <3>11
  <2>3. CASE pc[w] # "working"
    BY <1>0, <1>t, <1>j, <1>8, <2>3, ThreadsAssumption DEF Spoil
  <2> QED
    BY <2>2, <2>3
<1>9. ASSUME NEW g \in Switchers, Deactivated(g) PROVE OnePlace'
  <2> DEFINE theirs == {id \in queue : owners[id] = target[g]}
  <2>1. /\ theirs \subseteq queue /\ queue' = queue \ theirs /\ theirs \subseteq Ids
        /\ answers' = [id \in Ids |-> answers[id] + IF id \in theirs THEN 1 ELSE 0]
    BY <1>0, <1>9, HandFacts DEF Retire, Deactivated
  <2> HIDE DEF theirs
  <2>2. \A id \in theirs : answers[id] = 0
    BY <1>0, <2>1
  <2>3. (\A id \in Ids : answers'[id] <= 1) /\ Answered' = Answered \cup theirs
    BY <1>0, <1>t, <2>1, <2>2
  <2> QED
    BY <1>0, <1>t, <1>j, <1>9, <2>1, <2>3, ThreadsAssumption DEF Deactivated
<1>10. ASSUME NEW g \in Switchers, MountFails(g) PROVE OnePlace'
  <2> DEFINE theirs == {id \in queue : owners[id] = target[g]}
  <2>1. /\ theirs \subseteq queue /\ queue' = queue \ theirs /\ theirs \subseteq Ids
        /\ answers' = [id \in Ids |-> answers[id] + IF id \in theirs THEN 1 ELSE 0]
    BY <1>0, <1>10, HandFacts DEF Retire, MountFails
  <2> HIDE DEF theirs
  <2>2. \A id \in theirs : answers[id] = 0
    BY <1>0, <2>1
  <2>3. (\A id \in Ids : answers'[id] <= 1) /\ Answered' = Answered \cup theirs
    BY <1>0, <1>t, <2>1, <2>2
  <2> QED
    BY <1>0, <1>t, <1>j, <1>10, <2>1, <2>3, ThreadsAssumption DEF MountFails
<1>11. ASSUME RefusePending PROVE OnePlace'
  BY <1>0, <1>t, <1>j, ThreadsAssumption, HandFacts, <1>11 DEF RefusePending
<1>12. ASSUME NEW b \in Bundles, Unmount(b) PROVE OnePlace'
  <2> DEFINE theirs == {id \in queue : owners[id] = b}
  <2>1. /\ theirs \subseteq queue /\ queue' = queue \ theirs /\ theirs \subseteq Ids
        /\ answers' = [id \in Ids |-> answers[id] + IF id \in theirs THEN 1 ELSE 0]
    BY <1>0, <1>12, HandFacts DEF Retire, Unmount
  <2> HIDE DEF theirs
  <2>2. \A id \in theirs : answers[id] = 0
    BY <1>0, <2>1
  <2>3. (\A id \in Ids : answers'[id] <= 1) /\ Answered' = Answered \cup theirs
    BY <1>0, <1>t, <2>1, <2>2
  <2> QED
    BY <1>0, <1>t, <1>j, <1>12, <2>1, <2>3, ThreadsAssumption DEF Unmount
<1>13. CASE \/ UNCHANGED vars
            \/ \E w \in Workers : Top(w)
            \/ \E w \in Workers : Ticket(w)
            \/ \E w \in Workers : Look(w)
            \/ \E w \in Workers : Wake(w)
            \/ \E w \in Workers : Alarm(w)
            \/ \E w \in Workers : AlarmFails(w)
            \/ \E w \in Workers : Break(w)
            \/ \E w \in Workers : Warn(w)
            \/ \E w \in Workers : Claim(w)
            \/ \E w \in Workers : NextJob(w)
            \/ \E h \in Hands : Flag(h)
            \/ \E h \in Hands : Body(h)
            \/ \E h \in Hands : Forget(h)
            \/ \E w \in Workers : PutBack(w)
            \/ \E id \in Ids : AskCancel(id)
            \/ Cancel
            \/ \E g \in Switchers, b \in Bundles : Shutdown(g, b)
            \/ \E g \in Switchers : Permit(g)
            \/ \E g \in Switchers : RemoveBody(g)
            \/ \E g \in Switchers : Release(g)
            \/ \E g \in Switchers, b \in Bundles : Enable(g, b)
            \/ \E g \in Switchers : Declare(g)
            \/ \E g \in Switchers : Mount(g)
            \/ Stop
            \/ CancelAll
            \/ Ring
            \/ Join
            \/ PrepareClose
            \/ FinishClose
  <2>1. UNCHANGED <<queue, batch, within, answers, owners>>
    BY <1>13 DEF vars, Alarm, AlarmFails, AskCancel, Body, Break, Cancel, CancelAll, Claim,
       Claimed, Declare, Done, Enable, FinishClose, Flag, Forget, Join, Look, Mount, NextJob,
       Permit, PrepareClose, PutBack, Raised, Release, RemoveBody, Ring, RingBell, SetOff,
       Shutdown, StepTo, Stop, Ticket, Top, Wake, Warn
  <2> QED
    BY <1>0, <1>t, <1>j, ThreadsAssumption, HandFacts, <2>1
<1> HIDE DEF OnePlace, Answered
<1> QED
  <2>1. ASSUME NEW h \in Hands, Run(h) PROVE OnePlace'
    BY <2>1, <1>4, <1>5, <1>6, <1>7, <1>13 DEF Run
  <2>2. ASSUME NEW w \in Workers, Round(w) \/ Failing(w) PROVE OnePlace'
    BY <2>2, <1>3, <1>8, <1>13 DEF Round, Failing
  <2>3. ASSUME NEW g \in Switchers, Switching(g) \/ MountFails(g) PROVE OnePlace'
    BY <2>3, <1>9, <1>10, <1>13 DEF Switching
  <2>4. ASSUME Closing PROVE OnePlace'
    BY <2>4, <1>11, <1>12, <1>13 DEF Closing
  <2>5. ASSUME Asking PROVE OnePlace'
    BY <2>5, <1>1, <1>2, <1>13 DEF Asking
  <2> QED
    BY <2>1, <2>2, <2>3, <2>4, <2>5, <1>13 DEF Next

\* Every step leaves the opening with one job and one token: the token is
\* taken where it waits, and only who has it turns it into the job in hand.
LEMMA OpeningOKStep ==
    ASSUME IInv, [Next]_vars
    PROVE  OpeningOK'
<1> USE DEF Holding, Go, kernel, bundles, inflight, control, switch, cancel
<1>0. OpeningOK
  BY DEF IInv
<1>t. /\ pc \in [Hands -> Steps] /\ batch \in [Hands -> SUBSET Ids] /\ answers \in [Ids -> Nat]
     /\ opening \in {"waiting", "taken", "spoilt", "over"}
  BY DEF IInv, TypeOK
<1>1. PICK o \in Jobs : \A id : IsOpening(id) <=> id = o
  BY OpeningFacts
<1>2. o \in Jobs' /\ o \in Ids /\ \A id : IsOpening(id)' <=> id = o
  BY <1>1, OwnersKept, HandFacts
<1>s. /\ \A h \in Hands : batch[h] # {} <=> pc[h] \in Holding
      /\ \A c \in Callers : pc[c] \in CallerSteps
  BY DEF IInv, StepsOK
<1> DEFINE T(h) == pc[h] \in Opens \/ o \in batch[h]
           Good ==
              /\ o \notin queue
              /\ opening = "over" <=> answers[o] # 0
              /\ \A h \in Hands : o \in batch[h] =>
                    batch[h] = {o} /\ pc[h] \in {"forget", "answer"}
              /\ opening \in {"taken", "spoilt"} <=> \E h \in Hands : T(h)
              /\ \A h, k \in Hands : T(h) /\ T(k) => h = k
              /\ \A c \in Callers : ~T(c)
<1>3. Good
  BY <1>0, <1>1, <1>2 DEF OpeningOK, Token, Answered
<1>4. SUFFICES Good'
  BY <1>2 DEF OpeningOK, Token, Answered
<1> USE DEF Opens
<1>5. ASSUME NEW b \in Bundles, Spawn(b) PROVE Good'
  <2>1. o # Issued + 1
    BY <1>1, HandFacts DEF Jobs
  <2> QED
    BY <1>t, <1>3, <1>s, <1>5, <2>1, ThreadsAssumption, HandFacts DEF Spawn
<1>6. ASSUME NEW c \in Callers, NEW b \in Bundles, Invoke(c, b) PROVE Good'
  <2>1. o # Issued + 1
    BY <1>1, HandFacts DEF Jobs
  <2> QED
    BY <1>t, <1>3, <1>s, <1>6, <2>1, ThreadsAssumption, HandFacts DEF Invoke
<1>7. ASSUME NEW w \in Workers, Top(w) PROVE Good'
  <2>1. /\ pc'[w] # "slice" => opening' = opening
        /\ pc'[w] = "slice" => opening = "waiting" /\ opening' = "taken"
        /\ pc'[w] \in {"gone", "slice", "ticket"} /\ batch[w] = {} /\ pc[w] \notin Opens
        /\ UNCHANGED <<queue, batch, answers>> /\ w \notin Callers
        /\ \A k \in Hands : k # w => pc'[k] = pc[k]
    BY <1>t, <1>s, <1>7, ThreadsAssumption DEF Top, Hands
  <2>2. \A k \in Hands : k # w => T(k)' = T(k)
    BY <2>1
  <2>3. T(w)' = (pc'[w] = "slice") /\ ~T(w) /\ w \in Hands
    BY <2>1 DEF Hands
  <2>4. pc'[w] = "slice" => \A k \in Hands : ~T(k)
    BY <1>3, <2>1
  <2>5. \A k \in Hands : o \in batch'[k] => batch'[k] = {o} /\ pc'[k] \in {"forget", "answer"}
    BY <1>3, <2>1
  <2> HIDE DEF T
  <2> QED
    BY <1>3, <2>1, <2>2, <2>3, <2>4, <2>5 DEF Hands
<1>8. ASSUME NEW w \in Workers, Ticket(w) PROVE Good'
  BY <1>0, <1>t, <1>2, <1>3, <1>s, HandFacts, ThreadsAssumption, <1>8 DEF Ticket
<1>9. ASSUME NEW w \in Workers, Drain(w) PROVE Good'
  BY <1>0, <1>t, <1>2, <1>3, <1>s, HandFacts, ThreadsAssumption, <1>9 DEF Drain
<1>10. ASSUME NEW w \in Workers, Look(w) PROVE Good'
  BY <1>0, <1>t, <1>2, <1>3, <1>s, HandFacts, ThreadsAssumption, <1>10 DEF Look
<1>11. ASSUME NEW w \in Workers, Wake(w) PROVE Good'
  BY <1>0, <1>t, <1>2, <1>3, <1>s, HandFacts, ThreadsAssumption, <1>11 DEF Wake
<1>12. ASSUME NEW w \in Workers, Alarm(w) PROVE Good'
  BY <1>0, <1>t, <1>2, <1>3, <1>s, HandFacts, ThreadsAssumption, <1>12 DEF Alarm
<1>13. ASSUME NEW w \in Workers, AlarmFails(w) PROVE Good'
  BY <1>0, <1>t, <1>2, <1>3, <1>s, HandFacts, ThreadsAssumption, <1>13 DEF AlarmFails
<1>14. ASSUME NEW w \in Workers, Break(w) PROVE Good'
  BY <1>0, <1>t, <1>2, <1>3, <1>s, HandFacts, ThreadsAssumption, <1>14 DEF Break
<1>15. ASSUME NEW w \in Workers, Warn(w) PROVE Good'
  BY <1>0, <1>t, <1>2, <1>3, <1>s, HandFacts, ThreadsAssumption, <1>15 DEF Warn, RingBell
<1>16. ASSUME NEW w \in Workers, Claim(w) PROVE Good'
  BY <1>0, <1>t, <1>2, <1>3, <1>s, HandFacts, ThreadsAssumption, <1>16 DEF Claim, Claimed
<1>17. ASSUME NEW w \in Workers, NextJob(w) PROVE Good'
  BY <1>0, <1>t, <1>2, <1>3, <1>s, HandFacts, ThreadsAssumption, <1>17 DEF NextJob
<1>18. ASSUME NEW h \in Hands, Flag(h) PROVE Good'
  BY <1>0, <1>t, <1>2, <1>3, <1>s, HandFacts, ThreadsAssumption, <1>18 DEF Flag, Claimed
<1>19. ASSUME NEW h \in Hands, Enter(h) PROVE Good'
  <2>1. pc[h] = "enter" /\ pc'[h] \in {"forget", "body"} /\ o \notin batch[h]
    BY <1>t, <1>3, <1>19 DEF Enter
  <2>2. UNCHANGED <<queue, batch, answers, opening>> /\ \A k \in Hands : k # h => pc'[k] = pc[k]
    BY <1>t, <1>19 DEF Enter
  <2>3. \A k \in Hands : T(k)' = T(k)
    BY <2>1, <2>2
  <2>4. \A k \in Hands : o \in batch'[k] => batch'[k] = {o} /\ pc'[k] \in {"forget", "answer"}
    BY <1>3, <2>1, <2>2
  <2> HIDE DEF T
  <2> QED
    BY <1>3, <1>s, <2>2, <2>3, <2>4 DEF Hands
<1>20. ASSUME NEW h \in Hands, Body(h) PROVE Good'
  BY <1>0, <1>t, <1>2, <1>3, <1>s, HandFacts, ThreadsAssumption, <1>20 DEF Body
<1>21. ASSUME NEW h \in Hands, Leave(h) PROVE Good'
  BY <1>0, <1>t, <1>2, <1>3, <1>s, HandFacts, ThreadsAssumption, <1>21 DEF Leave
<1>22. ASSUME NEW h \in Hands, Forget(h) PROVE Good'
  BY <1>0, <1>t, <1>2, <1>3, <1>s, HandFacts, ThreadsAssumption, <1>22 DEF Forget
<1>23. ASSUME NEW h \in Hands, Answer(h) PROVE Good'
  <2>1. pc[h] = "answer" /\ Job(h) \in batch[h] /\ Job(h) \in Jobs /\ Job(h) \in Ids
    BY <1>23, HandFacts DEF Answer
  <2>2. Owner(h) = Core <=> Job(h) = o
    BY <1>1, <2>1 DEF Owner, IsOpening
  <2>3. /\ queue' = queue /\ answers'[o] = IF Job(h) = o THEN answers[o] + 1 ELSE answers[o]
        /\ opening' = IF Job(h) = o THEN "over" ELSE opening
        /\ \A k \in Hands : k # h => pc'[k] = pc[k] /\ batch'[k] = batch[k]
        /\ batch'[h] = batch[h] \ {Job(h)} /\ pc'[h] \notin Opens
    BY <1>t, <1>2, <1>23, <2>1, <2>2 DEF Answer, Following
  <2>4. o \in batch[h] => batch[h] = {o} /\ Job(h) = o
    BY <1>3, <2>1
  <2>5. \A k \in Hands : k # h => T(k)' = T(k)
    BY <2>3
  <2>6. ~T(h)' /\ (T(h) <=> Job(h) = o) /\ (T(h) => h \notin Callers)
    BY <1>3, <2>1, <2>3, <2>4
  <2>7. \A k \in Hands : o \in batch'[k] => batch'[k] = {o} /\ pc'[k] \in {"forget", "answer"}
    BY <1>3, <2>3, <2>4
  <2>8. answers[o] \in Nat /\ answers[o] + 1 # 0
    BY <1>t, <1>2
  <2> HIDE DEF T
  <2> QED
    BY <1>3, <1>s, <2>3, <2>5, <2>6, <2>7, <2>8 DEF Hands
<1>24. ASSUME NEW h \in Hands, Slice(h) PROVE Good'
  <2>1. /\ pc[h] = "slice" /\ T(h) /\ h \notin Callers /\ OpeningJob = o
        /\ \A k \in Hands : k # h => ~T(k)
    BY <1>1, <1>3, <1>s, <1>24, OpeningFacts DEF Slice, CallerSteps
  <2>2. /\ UNCHANGED <<queue, answers, opening>>
        /\ \A k \in Hands : k # h => pc'[k] = pc[k] /\ batch'[k] = batch[k]
        /\ \/ pc'[h] = "working" /\ batch'[h] = batch[h]
           \/ pc'[h] = "forget" /\ batch'[h] = {o}
    BY <1>t, <1>2, <1>24, <2>1 DEF Slice
  <2>3. \A k \in Hands : T(k)' <=> k = h
    BY <2>1, <2>2
  <2>4. \A k \in Hands : o \in batch'[k] => batch'[k] = {o} /\ pc'[k] \in {"forget", "answer"}
    BY <1>3, <1>s, <2>1, <2>2
  <2> HIDE DEF T
  <2> QED
    BY <1>3, <2>1, <2>2, <2>3, <2>4 DEF Hands
<1>25. ASSUME NEW w \in Workers, PutBack(w) PROVE Good'
  <2>1. /\ pc[w] = "working" /\ T(w) /\ w \in Hands /\ o \notin batch[w]
        /\ opening \in {"taken", "spoilt"} /\ \A k \in Hands : k # w => ~T(k)
    BY <1>3, <1>s, <1>25 DEF PutBack, Hands
  <2>2. /\ UNCHANGED <<queue, batch, answers>> /\ opening' = "waiting" /\ pc'[w] = "top"
        /\ \A k \in Hands : k # w => pc'[k] = pc[k]
    BY <1>t, <1>25, <2>1 DEF PutBack
  <2>3. \A k \in Hands : ~T(k)'
    BY <2>1, <2>2
  <2>4. \A k \in Hands : o \in batch'[k] => batch'[k] = {o} /\ pc'[k] \in {"forget", "answer"}
    BY <1>3, <2>1, <2>2
  <2> HIDE DEF T
  <2> QED
    BY <1>3, <1>s, <2>1, <2>2, <2>3, <2>4, ThreadsAssumption DEF Hands
<1>26. ASSUME NEW w \in Workers, Spoil(w) PROVE Good'
  <2>1. w \in Hands /\ w \notin Callers /\ OpeningJob = o
    BY <1>1, OpeningFacts, ThreadsAssumption DEF Hands
  <2>2. pc[w] = "forget" /\ Owner(w) = Core => batch[w] = {o}
    BY <1>1, <1>3, <2>1, HandFacts DEF Owner, IsOpening
  <2>3. /\ UNCHANGED <<queue, answers>> /\ opening' = "spoilt" /\ pc'[w] = "forget"
        /\ \A k \in Hands : k # w => pc'[k] = pc[k] /\ batch'[k] = batch[k]
        /\ batch'[w] = {o} /\ T(w)
    BY <1>t, <1>2, <1>26, <2>1, <2>2 DEF Spoil
  <2>4. \A k \in Hands : T(k)' <=> k = w
    BY <1>3, <2>1, <2>3
  <2>5. \A k \in Hands : o \in batch'[k] => batch'[k] = {o} /\ pc'[k] \in {"forget", "answer"}
    BY <1>3, <2>3
  <2> HIDE DEF T
  <2> QED
    BY <1>3, <1>s, <2>1, <2>3, <2>4, <2>5, ThreadsAssumption DEF Hands
<1>27. ASSUME NEW g \in Switchers, Deactivated(g) PROVE Good'
  BY <1>0, <1>t, <1>2, <1>3, <1>s, HandFacts, ThreadsAssumption, <1>27 DEF Deactivated, Retire,
     StepTo
<1>28. ASSUME NEW g \in Switchers, MountFails(g) PROVE Good'
  BY <1>0, <1>t, <1>2, <1>3, <1>s, HandFacts, ThreadsAssumption, <1>28 DEF MountFails, Retire,
     Done
<1>29. ASSUME Stop PROVE Good'
  BY <1>0, <1>t, <1>2, <1>3, <1>s, HandFacts, ThreadsAssumption, <1>29 DEF Stop
<1>30. ASSUME CancelAll PROVE Good'
  BY <1>0, <1>t, <1>2, <1>3, <1>s, HandFacts, ThreadsAssumption, <1>30 DEF CancelAll, Raised
<1>31. ASSUME Ring PROVE Good'
  BY <1>0, <1>t, <1>2, <1>3, <1>s, HandFacts, ThreadsAssumption, <1>31 DEF Ring, RingBell
<1>32. ASSUME Join PROVE Good'
  <2>1. /\ pc[Closer] = "join" /\ ~T(Closer) /\ Closer \in Hands /\ o \notin batch[Closer]
        /\ UNCHANGED <<queue, batch, answers>>
        /\ \A k \in Hands : k # Closer => pc'[k] = pc[k]
        /\ \/ opening = "waiting" /\ opening' = "taken" /\ pc'[Closer] = "slice"
           \/ opening' = opening /\ pc'[Closer] = "refuse"
    BY <1>t, <1>3, <1>s, <1>32 DEF Join, Hands
  <2>2. \A k \in Hands : T(k)' <=> T(k) \/ (k = Closer /\ pc'[Closer] = "slice")
    BY <2>1
  <2>3. \A k \in Hands : o \in batch'[k] => batch'[k] = {o} /\ pc'[k] \in {"forget", "answer"}
    BY <1>3, <2>1
  <2> HIDE DEF T
  <2> QED
    BY <1>3, <1>s, <2>1, <2>2, <2>3, ThreadsAssumption DEF Hands
<1>33. ASSUME RefusePending PROVE Good'
  BY <1>0, <1>t, <1>2, <1>3, <1>s, HandFacts, ThreadsAssumption, <1>33 DEF RefusePending
<1>34. ASSUME PrepareClose PROVE Good'
  BY <1>0, <1>t, <1>2, <1>3, <1>s, HandFacts, ThreadsAssumption, <1>34 DEF PrepareClose
<1>35. ASSUME NEW b \in Bundles, Unmount(b) PROVE Good'
  BY <1>0, <1>t, <1>2, <1>3, <1>s, HandFacts, ThreadsAssumption, <1>35 DEF Unmount, Retire
<1>36. ASSUME FinishClose PROVE Good'
  BY <1>0, <1>t, <1>2, <1>3, <1>s, HandFacts, ThreadsAssumption, <1>36 DEF FinishClose
<1>37. CASE \/ UNCHANGED vars
            \/ \E id \in Ids : AskCancel(id)
            \/ Cancel
            \/ \E g \in Switchers, b \in Bundles : Shutdown(g, b)
            \/ \E g \in Switchers : Permit(g)
            \/ \E g \in Switchers : RemoveBody(g)
            \/ \E g \in Switchers : Release(g)
            \/ \E g \in Switchers, b \in Bundles : Enable(g, b)
            \/ \E g \in Switchers : Declare(g)
            \/ \E g \in Switchers : Mount(g)
  <2>1. UNCHANGED <<pc, batch, queue, answers, opening>>
    BY <1>37 DEF vars, AskCancel, Cancel, Declare, Done, Enable, Mount, Permit, Raised, Release,
       RemoveBody, RingBell, SetOff, Shutdown, StepTo
  <2> QED
    BY <1>0, <1>t, <1>2, <1>3, <1>s, HandFacts, ThreadsAssumption, <2>1
<1> HIDE DEF Holding, Opens, Good
<1> QED
  <2>1. ASSUME NEW h \in Hands, Run(h) PROVE Good'
    BY <2>1, <1>18, <1>19, <1>20, <1>21, <1>22, <1>23, <1>24 DEF Run
  <2>2. ASSUME NEW w \in Workers, Round(w) \/ Failing(w) PROVE Good'
    BY <2>2, <1>7, <1>8, <1>9, <1>10, <1>11, <1>12, <1>13, <1>14, <1>15, <1>16, <1>17, <1>25,
       <1>26 DEF Round, Failing
  <2>3. ASSUME NEW g \in Switchers, Switching(g) \/ MountFails(g) PROVE Good'
    BY <2>3, <1>27, <1>28, <1>37 DEF Switching
  <2>4. ASSUME Closing PROVE Good'
    BY <2>4, <1>30, <1>31, <1>32, <1>33, <1>34, <1>35, <1>36 DEF Closing
  <2>5. ASSUME Asking PROVE Good'
    BY <2>5, <1>5, <1>6, <1>29, <1>37 DEF Asking
  <2> QED
    BY <2>1, <2>2, <2>3, <2>4, <2>5, <1>37 DEF Next

\* Every step keeps the mark above what was taken in charge, and a flag with a
\* job that still has to be answered or that was taken from the queue.
LEMMA SeenOKStep ==
    ASSUME IInv, [Next]_vars
    PROVE  SeenOK'
<1> USE DEF Go, kernel, bundles, inflight, control, switch, cancel
<1>0. OnePlace
  BY DEF IInv
<1>t. /\ pc \in [Hands -> Steps] /\ batch \in [Hands -> SUBSET Ids] /\ answers \in [Ids -> Nat]
     /\ flags \in [Ids -> {"none", "down", "up"}] /\ seen \in 0..MaxJobs /\ withdrawn \subseteq Ids
     /\ asked \in [id : 0..MaxJobs, issued : 0..MaxJobs]
  BY DEF IInv, TypeOK
<1>1. PICK o \in Jobs : \A id : IsOpening(id) <=> id = o
  BY OpeningFacts
<1>2. o \in Jobs' /\ o \in Ids /\ \A id : IsOpening(id)' <=> id = o
  BY <1>1, OwnersKept, HandFacts
<1> DEFINE Good ==
              /\ asked.id # 0 => pc[Closer] = "open" /\ asked.issued <= Issued
              /\ \A h \in Hands : Charged(h) => \A id \in batch[h] : id <= seen
              /\ \A h \in Hands : pc[h] = "working" => o <= seen
              /\ pc[Closer] = "open" =>
                    \A id \in Ids : answers[id] # 0 => id \in withdrawn \/ id <= seen
              /\ \A h \in Hands : pc[h] = "answer" => flags[Job(h)] = "none"
              /\ FlagsHaveAJob
<1>3. Good
  BY <1>1 DEF IInv, SeenOK, Answered
<1>4. SUFFICES Good'
  BY <1>2 DEF SeenOK, Answered
<1>5. /\ Issued \in Nat /\ Issued' \in Nat /\ Issued <= Issued' /\ MaxJobs \in Nat
      /\ Ids = 1..MaxJobs /\ (owners' = owners => Issued' = Issued)
  BY OwnersKept, HandFacts DEF Issued, Jobs
<1>6. \A h \in Hands : pc[h] \in Holding => Job(h) \in batch[h] /\ Job(h) \in Ids
                                         /\ Job(h) <= Issued
  BY HandFacts DEF Jobs
<1>7. \A h \in Hands : batch[h] # {} <=> pc[h] \in Holding
  BY DEF IInv, StepsOK
<1>8. /\ Closer \in Hands /\ Closer \notin Workers \cup Callers
      /\ Workers \subseteq Hands /\ Callers \subseteq Hands /\ Workers \cap Callers = {}
  BY ThreadsAssumption DEF Hands
<1>9. \A h \in Hands : batch'[h] = batch[h] => Job(h)' = Job(h)
  BY JobKept
<1>10. /\ \A h \in Hands : \A id \in batch[h] : id \in Ids /\ id <= Issued /\ answers[id] = 0
       /\ \A h, k \in Hands : h # k => batch[h] \cap batch[k] = {}
       /\ \A id \in queue : id \in Ids /\ answers[id] = 0
  BY <1>5, HandFacts DEF IInv, OnePlace, Answered, Jobs
<1> USE DEF Holding, Charged, FlagsHaveAJob
<1>m. ASSUME NEW w \in Hands,
             UNCHANGED <<asked, owners, batch, seen, answers, withdrawn, flags>>,
             \A h \in Hands : h # w => pc'[h] = pc[h],
             pc'[w] \notin {"open", "working", "answer"},
             Charged(w)' => Charged(w) \/ batch[w] = {},
             w = Closer => asked.id = 0 \/ pc[Closer] # "open"
      PROVE  Good'
  BY <1>3, <1>5, <1>8, <1>9, <1>m
<1>11. ASSUME NEW b \in Bundles, Spawn(b) PROVE Good'
  BY <1>t, <1>3, <1>5, <1>9, <1>11 DEF Spawn, RingBell
<1>12. ASSUME NEW c \in Callers, NEW b \in Bundles, Invoke(c, b) PROVE Good'
  <2>1. /\ UNCHANGED <<asked, seen, answers, withdrawn, flags>> /\ pc'[c] = "flag"
        /\ \A h \in Hands : h # c => pc'[h] = pc[h] /\ batch'[h] = batch[h]
    BY <1>t, <1>8, <1>12 DEF Invoke
  <2>2. \A h \in Hands : Charged(h)' => \A id \in batch'[h] : id <= seen'
    BY <1>3, <1>8, <2>1
  <2>3. \A h \in Hands : pc'[h] = "answer" => flags'[Job(h)'] = "none"
    BY <1>3, <1>9, <2>1
  <2>4. FlagsHaveAJob'
    BY <1>3, <1>5, <2>1
  <2> QED
    BY <1>t, <1>3, <1>5, <1>8, <2>1, <2>2, <2>3, <2>4
<1>13. ASSUME NEW w \in Workers, Top(w) PROVE Good'
  BY <1>8, <1>t, <1>m, <1>13 DEF Top
<1>14. ASSUME NEW w \in Workers, Ticket(w) PROVE Good'
  BY <1>8, <1>t, <1>m, <1>14 DEF Ticket
<1>15. ASSUME NEW w \in Workers, Drain(w) PROVE Good'
  <2>1. /\ UNCHANGED <<asked, owners, seen, answers, withdrawn, flags>> /\ w \in Hands
        /\ pc[w] # "open" /\ pc'[w] \in {"look", "claim", "close", "forget"}
        /\ ~Charged(w)'
        /\ \A h \in Hands : h # w => pc'[h] = pc[h] /\ batch'[h] = batch[h]
    BY <1>t, <1>8, <1>15 DEF Drain
  <2> QED
    BY <1>3, <1>5, <1>8, <1>9, <2>1
<1>16. ASSUME NEW w \in Workers, Look(w) PROVE Good'
  BY <1>8, <1>t, <1>m, <1>16 DEF Look
<1>17. ASSUME NEW w \in Workers, Wake(w) PROVE Good'
  BY <1>8, <1>t, <1>m, <1>17 DEF Wake
<1>18. ASSUME NEW w \in Workers, Alarm(w) PROVE Good'
  BY <1>8, <1>t, <1>m, <1>18 DEF Alarm
<1>19. ASSUME NEW w \in Workers, AlarmFails(w) PROVE Good'
  BY <1>8, <1>t, <1>m, <1>19 DEF AlarmFails
<1>20. ASSUME NEW w \in Workers, Break(w) PROVE Good'
  BY <1>8, <1>t, <1>m, <1>20 DEF Break
<1>21. ASSUME NEW w \in Workers, Warn(w) PROVE Good'
  BY <1>8, <1>t, <1>m, <1>21 DEF Warn, RingBell
<1>22. ASSUME NEW w \in Workers, Claim(w) PROVE Good'
  <2> DEFINE ids == batch[w]
  <2>0. pc[w] = "flag" => w \in Callers
    BY <1>8 DEF IInv, StepsOK, Hands, WorkerSteps, CloserSteps
  <2>1. ids \subseteq batch[w] /\ ids \subseteq Ids /\ w \in Hands /\ pc[w] \in {"claim", "flag"}
        /\ \A id \in batch[w] : id \in ids \/ id <= seen
    BY <1>3, <1>6, <1>8, <1>10, <1>22, <2>0 DEF Claim, IInv, OnePlace
  <2>2. seen' = Highest(seen, ids) /\ flags' = Claimed(flags, ids)
        /\ UNCHANGED <<asked, owners, batch, answers, withdrawn>>
        /\ pc'[w] \in {"next", "enter"} /\ \A k \in Hands : k # w => pc'[k] = pc[k]
    BY <1>t, <2>1, <1>22 DEF Claim
  <2> HIDE DEF ids
  <2>3. seen' \in Nat /\ seen <= seen' /\ \A id \in ids : id <= seen'
    BY <1>t, <1>5, <2>1, <2>2, HighestIs
  <2>4. \A id \in Ids : flags'[id] # flags[id] => id \in ids
    BY <1>t, <2>2 DEF Claimed
  <2>5. \A k \in Hands : pc[k] = "answer" => flags'[Job(k)] = flags[Job(k)]
    BY <1>6, <1>10, <2>1, <2>4
  <2>6. \A id \in batch[w] : id <= seen'
    BY <1>5, <1>t, <1>10, <2>1, <2>3
  <2>7. \A id \in Ids : id <= seen => id <= seen'
    BY <1>5, <1>t, <2>3
  <2>8. FlagsHaveAJob'
    BY <1>3, <1>5, <1>10, <2>1, <2>2, <2>4
  <2>9. \A k \in Hands : Charged(k)' => \A id \in batch'[k] : id <= seen'
    BY <1>3, <1>10, <2>1, <2>2, <2>6, <2>7
  <2>10. o <= seen => o <= seen'
    BY <1>2, <2>7
  <2> QED
    BY <1>3, <1>5, <1>8, <1>9, <2>1, <2>2, <2>5, <2>7, <2>8, <2>9, <2>10
<1>23. ASSUME NEW w \in Workers, NextJob(w) PROVE Good'
  BY <1>8, <1>t, <1>m, <1>23 DEF NextJob
<1>24. ASSUME NEW h \in Hands, Flag(h) PROVE Good'
  <2> DEFINE ids == {Job(h)}
  <2>0. pc[h] = "flag" => h \in Callers
    BY <1>8 DEF IInv, StepsOK, Hands, WorkerSteps, CloserSteps
  <2>1. ids \subseteq batch[h] /\ ids \subseteq Ids /\ h \in Hands /\ pc[h] \in {"claim", "flag"}
        /\ \A id \in batch[h] : id \in ids \/ id <= seen
    BY <1>3, <1>6, <1>8, <1>10, <1>24, <2>0 DEF Flag, IInv, OnePlace
  <2>2. seen' = Highest(seen, ids) /\ flags' = Claimed(flags, ids)
        /\ UNCHANGED <<asked, owners, batch, answers, withdrawn>>
        /\ pc'[h] \in {"next", "enter"} /\ \A k \in Hands : k # h => pc'[k] = pc[k]
    BY <1>t, <2>1, <1>24 DEF Flag
  <2> HIDE DEF ids
  <2>3. seen' \in Nat /\ seen <= seen' /\ \A id \in ids : id <= seen'
    BY <1>t, <1>5, <2>1, <2>2, HighestIs
  <2>4. \A id \in Ids : flags'[id] # flags[id] => id \in ids
    BY <1>t, <2>2 DEF Claimed
  <2>5. \A k \in Hands : pc[k] = "answer" => flags'[Job(k)] = flags[Job(k)]
    BY <1>6, <1>10, <2>1, <2>4
  <2>6. \A id \in batch[h] : id <= seen'
    BY <1>5, <1>t, <1>10, <2>1, <2>3
  <2>7. \A id \in Ids : id <= seen => id <= seen'
    BY <1>5, <1>t, <2>3
  <2>8. FlagsHaveAJob'
    BY <1>3, <1>5, <1>10, <2>1, <2>2, <2>4
  <2>9. \A k \in Hands : Charged(k)' => \A id \in batch'[k] : id <= seen'
    BY <1>3, <1>10, <2>1, <2>2, <2>6, <2>7
  <2>10. o <= seen => o <= seen'
    BY <1>2, <2>7
  <2> QED
    BY <1>3, <1>5, <1>8, <1>9, <2>1, <2>2, <2>5, <2>7, <2>8, <2>9, <2>10
<1>25. ASSUME NEW h \in Hands, Enter(h) PROVE Good'
  BY <1>8, <1>t, <1>m, <1>25 DEF Enter
<1>26. ASSUME NEW h \in Hands, Body(h) PROVE Good'
  BY <1>8, <1>t, <1>m, <1>26 DEF Body
<1>27. ASSUME NEW h \in Hands, Leave(h) PROVE Good'
  BY <1>8, <1>t, <1>m, <1>27 DEF Leave
<1>28. ASSUME NEW h \in Hands, Forget(h) PROVE Good'
  <2>1. /\ UNCHANGED <<asked, owners, batch, seen, answers, withdrawn>> /\ pc[h] = "forget"
        /\ pc'[h] = "answer" /\ \A k \in Hands : k # h => pc'[k] = pc[k]
        /\ flags' = [flags EXCEPT ![Job(h)] = "none"]
    BY <1>t, <1>28 DEF Forget
  <2>2. Job(h) \in Ids /\ \A id \in Ids : flags'[id] = IF id = Job(h) THEN "none" ELSE flags[id]
    BY <1>t, <1>6, <2>1
  <2>3. (\A k \in Hands : pc[k] = "answer" => flags[Job(k)] = "none")'
    BY <1>3, <1>6, <1>9, <2>1, <2>2
  <2> QED
    BY <1>3, <1>5, <1>8, <2>1, <2>2, <2>3
<1>29. ASSUME NEW h \in Hands, Answer(h) PROVE Good'
  <2>1. /\ UNCHANGED <<asked, owners, seen, flags, withdrawn>> /\ pc[h] = "answer"
        /\ pc'[h] = Following(h) /\ batch'[h] = batch[h] \ {Job(h)}
        /\ \A k \in Hands : k # h => pc'[k] = pc[k] /\ batch'[k] = batch[k]
        /\ answers' = [answers EXCEPT ![Job(h)] = @ + 1]
    BY <1>t, <1>29 DEF Answer
  <2>2. Job(h) \in Ids /\ Job(h) \in batch[h] /\ flags[Job(h)] = "none"
        /\ \A id \in Ids : id # Job(h) => answers'[id] = answers[id]
    BY <1>t, <1>3, <1>6, <2>1
  <2>3. pc'[h] \notin {"open", "working", "answer"}
    BY <2>1 DEF Following
  <2>4. h # Closer => Job(h) <= seen
    BY <1>3, <2>1, <2>2 DEF Hands
  <2>5. Charged(h)' => Charged(h)
    BY <2>1
  <2>6. h = Closer => pc[Closer] # "open"
    BY <2>1
  <2> QED
    BY <1>3, <1>5, <1>8, <1>9, <2>1, <2>2, <2>3, <2>4, <2>5, <2>6
<1>30. ASSUME NEW h \in Hands, Slice(h) PROVE Good'
  <2>1. /\ pc[h] = "slice" /\ OpeningJob = o /\ answers[o] = 0 /\ batch[h] = {}
        /\ \A k \in Hands : o \notin batch[k]
    BY <1>1, <1>2, <1>30, OpeningFacts, TokenFacts DEF Slice, Opens, Answered
  <2>2. /\ UNCHANGED <<asked, owners, answers, withdrawn>>
        /\ seen' = Highest(seen, {o}) /\ flags' = Claimed(flags, {o})
        /\ pc'[h] \in {"forget", "working"} /\ batch'[h] \in {{}, {o}}
        /\ \A k \in Hands : k # h => pc'[k] = pc[k] /\ batch'[k] = batch[k]
    BY <1>t, <1>30, <2>1 DEF Slice
  <2>3. seen' \in Nat /\ seen <= seen' /\ o <= seen'
    BY <1>t, <1>2, <1>5, <2>2, HighestIs
  <2>4. \A id \in Ids : flags'[id] # flags[id] => id = o
    BY <1>t, <2>2 DEF Claimed
  <2>5. \A k \in Hands : pc[k] = "answer" => flags'[Job(k)] = flags[Job(k)]
    BY <1>6, <2>1, <2>4
  <2>6. \A id \in Ids : id <= seen => id <= seen'
    BY <1>5, <1>t, <2>3
  <2>7. o <= Issued
    BY <1>5 DEF Jobs
  <2>8. h = Closer => pc[Closer] # "open" /\ pc'[Closer] # "open"
    BY <2>1, <2>2
  <2>9. \A k \in Hands : Charged(k)' => \A id \in batch'[k] : id <= seen'
    BY <1>3, <1>10, <2>2, <2>3, <2>6
  <2> QED
    BY <1>2, <1>3, <1>5, <1>8, <1>9, <2>1, <2>2, <2>3, <2>4, <2>5, <2>6, <2>7, <2>8, <2>9
<1>31. ASSUME NEW w \in Workers, PutBack(w) PROVE Good'
  BY <1>7, <1>8, <1>t, <1>m, <1>31 DEF PutBack
<1>32. ASSUME NEW w \in Workers, Spoil(w) PROVE Good'
  <2>1. OpeningJob = o /\ w \in Hands /\ w # Closer
    BY <1>1, <1>8, OpeningFacts
  <2>2. /\ UNCHANGED <<asked, owners, seen, answers, withdrawn, flags>> /\ pc'[w] = "forget"
        /\ \A k \in Hands : k # w => pc'[k] = pc[k] /\ batch'[k] = batch[k]
        /\ \/ pc[w] = "working" /\ batch'[w] = {o}
           \/ pc[w] = "forget" /\ batch'[w] = batch[w]
    BY <1>t, <1>32, <2>1 DEF Spoil
  <2>3. \A id \in batch'[w] : id <= seen
    BY <1>3, <1>8, <2>1, <2>2
  <2> QED
    BY <1>3, <1>5, <1>8, <1>9, <2>1, <2>2, <2>3
<1>33. ASSUME NEW id \in Ids, AskCancel(id) PROVE Good'
  BY <1>3, <1>5, <1>9, <1>33 DEF AskCancel
<1>34. ASSUME Cancel PROVE Good'
  <2> DEFINE a == asked.id
  <2>1. /\ a \in Ids /\ pc[Closer] = "open" /\ asked.issued <= Issued /\ asked.issued \in Nat
        /\ asked'.id = 0 /\ UNCHANGED <<owners, pc, batch, seen, answers, withdrawn>>
        /\ \A id \in Ids : id # a => flags'[id] = flags[id]
        /\ flags'[a] # "none" => flags[a] # "none" \/ (a > seen /\ a <= asked.issued)
    BY <1>t, <1>3, <1>5, <1>34 DEF Cancel
  <2>2. flags'[a] # "none" => a <= Issued /\ (answers[a] = 0 \/ a \in withdrawn)
    BY <1>t, <1>3, <1>5, <2>1
  <2>3. ASSUME NEW h \in Hands, pc[h] = "answer" PROVE flags'[Job(h)] = "none"
    <3>1. h # Closer /\ Job(h) \in Ids /\ Job(h) <= seen /\ flags[Job(h)] = "none"
      BY <1>3, <1>6, <1>8, <2>1, <2>3 DEF Hands
    <3> QED
      BY <1>5, <1>t, <2>1, <3>1
  <2> QED
    BY <1>3, <1>5, <1>9, <2>1, <2>2, <2>3
<1>35. ASSUME NEW g \in Switchers, NEW b \in Bundles, Shutdown(g, b) PROVE Good'
  <2>1. /\ UNCHANGED <<asked, owners, batch, seen, answers, withdrawn>>
        /\ \A id \in Ids : flags'[id] # "none" <=> flags[id] # "none"
    BY <1>t, <1>35 DEF Shutdown, Raised, SetOff
  <2>2. /\ \A h \in Hands : h # Closer => pc'[h] = pc[h]
        /\ pc'[Closer] = pc[Closer] \/ (pc[Closer] = "cancel" /\ pc'[Closer] = "ring")
    BY <1>t, <1>8, <1>35 DEF Shutdown, Raised, SetOff
  <2> QED
    BY <1>3, <1>5, <1>6, <1>8, <1>9, <2>1, <2>2
<1>36. ASSUME NEW g \in Switchers, Deactivated(g) PROVE Good'
  <2> DEFINE theirs == {id \in queue : owners[id] = target[g]}
  <2>1. /\ answers' = [id \in Ids |-> answers[id] + IF id \in theirs THEN 1 ELSE 0]
        /\ withdrawn' = withdrawn \cup theirs
        /\ UNCHANGED <<asked, owners, pc, batch, seen, flags>>
    BY <1>36 DEF Retire, Deactivated
  <2> HIDE DEF theirs
  <2>2. \A id \in Ids : id \in withdrawn' \/ answers'[id] = answers[id]
    BY <1>t, <2>1
  <2>3. withdrawn \subseteq withdrawn'
    BY <2>1
  <2> QED
    BY <1>3, <1>5, <1>9, <2>1, <2>2, <2>3
<1>37. ASSUME NEW g \in Switchers, MountFails(g) PROVE Good'
  <2> DEFINE theirs == {id \in queue : owners[id] = target[g]}
  <2>1. /\ answers' = [id \in Ids |-> answers[id] + IF id \in theirs THEN 1 ELSE 0]
        /\ withdrawn' = withdrawn \cup theirs
        /\ UNCHANGED <<asked, owners, pc, batch, seen, flags>>
    BY <1>37 DEF Retire, MountFails
  <2> HIDE DEF theirs
  <2>2. \A id \in Ids : id \in withdrawn' \/ answers'[id] = answers[id]
    BY <1>t, <2>1
  <2>3. withdrawn \subseteq withdrawn'
    BY <2>1
  <2> QED
    BY <1>3, <1>5, <1>9, <2>1, <2>2, <2>3
<1>38. ASSUME Stop PROVE Good'
  BY <1>8, <1>t, <1>m, <1>38 DEF Stop
<1>39. ASSUME CancelAll PROVE Good'
  <2>1. /\ UNCHANGED <<asked, owners, batch, seen, answers, withdrawn>>
        /\ \A id \in Ids : flags'[id] # "none" <=> flags[id] # "none"
    BY <1>t, <1>39 DEF CancelAll, Raised
  <2>2. /\ \A h \in Hands : h # Closer => pc'[h] = pc[h]
        /\ pc'[Closer] = pc[Closer] \/ (pc[Closer] = "cancel" /\ pc'[Closer] = "ring")
    BY <1>t, <1>8, <1>39 DEF CancelAll, Raised
  <2> QED
    BY <1>3, <1>5, <1>6, <1>8, <1>9, <2>1, <2>2
<1>40. ASSUME Ring PROVE Good'
  BY <1>8, <1>t, <1>m, <1>40 DEF Ring, RingBell
<1>41. ASSUME Join PROVE Good'
  BY <1>8, <1>t, <1>m, <1>41 DEF Join
<1>42. ASSUME RefusePending PROVE Good'
  <2>1. /\ UNCHANGED <<asked, owners, seen, answers, withdrawn, flags>> /\ Closer \in Hands
        /\ pc[Closer] # "open" /\ pc'[Closer] \in {"look", "claim", "close", "forget"}
        /\ ~Charged(Closer)'
        /\ \A h \in Hands : h # Closer => pc'[h] = pc[h] /\ batch'[h] = batch[h]
    BY <1>t, <1>8, <1>42 DEF RefusePending
  <2> QED
    BY <1>3, <1>5, <1>8, <1>9, <2>1
<1>43. ASSUME PrepareClose PROVE Good'
  BY <1>8, <1>t, <1>m, <1>43 DEF PrepareClose
<1>44. ASSUME NEW b \in Bundles, Unmount(b) PROVE Good'
  <2> DEFINE theirs == {id \in queue : owners[id] = b}
  <2>1. /\ answers' = [id \in Ids |-> answers[id] + IF id \in theirs THEN 1 ELSE 0]
        /\ withdrawn' = withdrawn \cup theirs
        /\ UNCHANGED <<asked, owners, pc, batch, seen, flags>>
    BY <1>44 DEF Retire, Unmount
  <2> HIDE DEF theirs
  <2>2. \A id \in Ids : id \in withdrawn' \/ answers'[id] = answers[id]
    BY <1>t, <2>1
  <2>3. withdrawn \subseteq withdrawn'
    BY <2>1
  <2> QED
    BY <1>3, <1>5, <1>9, <2>1, <2>2, <2>3
<1>45. ASSUME FinishClose PROVE Good'
  BY <1>8, <1>t, <1>m, <1>45 DEF FinishClose
<1>46. CASE \/ UNCHANGED vars
            \/ \E g \in Switchers : Permit(g)
            \/ \E g \in Switchers : RemoveBody(g)
            \/ \E g \in Switchers : Release(g)
            \/ \E g \in Switchers, b \in Bundles : Enable(g, b)
            \/ \E g \in Switchers : Declare(g)
            \/ \E g \in Switchers : Mount(g)
  <2>1. UNCHANGED <<asked, pc, owners, batch, seen, answers, withdrawn, flags>>
    BY <1>46 DEF vars, Declare, Done, Enable, Mount, Permit, Release, RemoveBody, RingBell,
       SetOff, StepTo
  <2> QED
    BY <1>0, <1>t, <1>3, <1>5, <1>9, <2>1
<1> HIDE DEF Good, Holding, Charged, FlagsHaveAJob
<1> QED
  <2>1. ASSUME NEW h \in Hands, Run(h) PROVE Good'
    BY <2>1, <1>24, <1>25, <1>26, <1>27, <1>28, <1>29, <1>30 DEF Run
  <2>2. ASSUME NEW w \in Workers, Round(w) \/ Failing(w) PROVE Good'
    BY <2>2, <1>13, <1>14, <1>15, <1>16, <1>17, <1>18, <1>19, <1>20, <1>21, <1>22, <1>23, <1>31,
       <1>32 DEF Round, Failing
  <2>3. ASSUME NEW g \in Switchers, Switching(g) \/ MountFails(g) PROVE Good'
    BY <2>3, <1>36, <1>37, <1>46 DEF Switching
  <2>4. ASSUME Closing PROVE Good'
    BY <2>4, <1>39, <1>40, <1>41, <1>42, <1>43, <1>44, <1>45 DEF Closing
  <2>5. ASSUME Asking PROVE Good'
    BY <2>5, <1>11, <1>12, <1>33, <1>35, <1>38, <1>46 DEF Asking
  <2> QED
    BY <2>1, <2>2, <2>3, <2>4, <2>5, <1>34, <1>46 DEF Next

\* Every step keeps who is in the code of a bundle among those counted inside.
LEMMA WithinOKStep ==
    ASSUME IInv, [Next]_vars
    PROVE  WithinOK'
<1> USE DEF WithinOK, Holding, Go, kernel, bundles, inflight, control, switch, cancel
<1>0. WithinOK
  BY DEF IInv
<1>t. /\ pc \in [Hands -> Steps] /\ batch \in [Hands -> SUBSET Ids]
  BY DEF IInv, TypeOK
<1>1. \A h \in Hands : batch'[h] = batch[h] => Job(h)' = Job(h)
  BY JobKept
<1>2. \A h \in Hands : pc[h] \in Holding => Job(h) \in batch[h]
  BY HandFacts
<1>3. \A h, k \in Hands : h # k => batch[h] \cap batch[k] = {}
  BY DEF IInv, OnePlace
<1>4. Workers \subseteq Hands /\ Callers \subseteq Hands /\ Closer \in Hands
  BY DEF Hands
<1>5. ASSUME NEW c \in Callers, NEW b \in Bundles, Invoke(c, b) PROVE WithinOK'
  BY <1>0, <1>t, <1>t, <1>1, <1>2, <1>3, <1>4, <1>5 DEF Invoke
<1>6. ASSUME NEW w \in Workers, Top(w) PROVE WithinOK'
  BY <1>0, <1>t, <1>t, <1>1, <1>2, <1>3, <1>4, <1>6 DEF Top
<1>7. ASSUME NEW w \in Workers, Ticket(w) PROVE WithinOK'
  BY <1>0, <1>t, <1>t, <1>1, <1>2, <1>3, <1>4, <1>7 DEF Ticket
<1>8. ASSUME NEW w \in Workers, Drain(w) PROVE WithinOK'
  BY <1>0, <1>t, <1>t, <1>1, <1>2, <1>3, <1>4, <1>8 DEF Drain
<1>9. ASSUME NEW w \in Workers, Look(w) PROVE WithinOK'
  BY <1>0, <1>t, <1>t, <1>1, <1>2, <1>3, <1>4, <1>9 DEF Look
<1>10. ASSUME NEW w \in Workers, Wake(w) PROVE WithinOK'
  BY <1>0, <1>t, <1>t, <1>1, <1>2, <1>3, <1>4, <1>10 DEF Wake
<1>11. ASSUME NEW w \in Workers, Alarm(w) PROVE WithinOK'
  BY <1>0, <1>t, <1>t, <1>1, <1>2, <1>3, <1>4, <1>11 DEF Alarm
<1>12. ASSUME NEW w \in Workers, AlarmFails(w) PROVE WithinOK'
  BY <1>0, <1>t, <1>t, <1>1, <1>2, <1>3, <1>4, <1>12 DEF AlarmFails
<1>13. ASSUME NEW w \in Workers, Break(w) PROVE WithinOK'
  BY <1>0, <1>t, <1>t, <1>1, <1>2, <1>3, <1>4, <1>13 DEF Break
<1>14. ASSUME NEW w \in Workers, Warn(w) PROVE WithinOK'
  BY <1>0, <1>t, <1>t, <1>1, <1>2, <1>3, <1>4, <1>14 DEF Warn, RingBell
<1>15. ASSUME NEW w \in Workers, Claim(w) PROVE WithinOK'
  BY <1>0, <1>t, <1>t, <1>1, <1>2, <1>3, <1>4, <1>15 DEF Claim, Claimed
<1>16. ASSUME NEW w \in Workers, NextJob(w) PROVE WithinOK'
  BY <1>0, <1>t, <1>t, <1>1, <1>2, <1>3, <1>4, <1>16 DEF NextJob
<1>17. ASSUME NEW h \in Hands, Flag(h) PROVE WithinOK'
  BY <1>0, <1>t, <1>t, <1>1, <1>2, <1>3, <1>4, <1>17 DEF Flag, Claimed
<1>18. ASSUME NEW h \in Hands, Enter(h) PROVE WithinOK'
  BY <1>0, <1>t, <1>t, <1>1, <1>2, <1>3, <1>4, <1>18 DEF Enter
<1>19. ASSUME NEW h \in Hands, Body(h) PROVE WithinOK'
  BY <1>0, <1>t, <1>t, <1>1, <1>2, <1>3, <1>4, <1>19 DEF Body
<1>20. ASSUME NEW h \in Hands, Leave(h) PROVE WithinOK'
  BY <1>0, <1>t, <1>t, <1>1, <1>2, <1>3, <1>4, <1>20 DEF Leave
<1>21. ASSUME NEW h \in Hands, Forget(h) PROVE WithinOK'
  BY <1>0, <1>t, <1>t, <1>1, <1>2, <1>3, <1>4, <1>21 DEF Forget
<1>22. ASSUME NEW h \in Hands, Answer(h) PROVE WithinOK'
  <2>1. within' = within /\ pc'[h] \notin {"body", "inside", "leave"}
        /\ \A k \in Hands : k # h => pc'[k] = pc[k] /\ batch'[k] = batch[k]
    BY <1>t, <1>22 DEF Answer, Following
  <2> QED
    BY <1>0, <1>1, <2>1
<1>23. ASSUME NEW h \in Hands, Slice(h) PROVE WithinOK'
  BY <1>0, <1>t, <1>t, <1>1, <1>2, <1>3, <1>4, <1>23 DEF Slice, Claimed
<1>24. ASSUME NEW w \in Workers, PutBack(w) PROVE WithinOK'
  BY <1>0, <1>t, <1>t, <1>1, <1>2, <1>3, <1>4, <1>24 DEF PutBack
<1>25. ASSUME NEW w \in Workers, Spoil(w) PROVE WithinOK'
  BY <1>0, <1>t, <1>t, <1>1, <1>2, <1>3, <1>4, <1>25 DEF Spoil
<1>26. ASSUME Stop PROVE WithinOK'
  BY <1>0, <1>t, <1>t, <1>1, <1>2, <1>3, <1>4, <1>26 DEF Stop
<1>27. ASSUME CancelAll PROVE WithinOK'
  BY <1>0, <1>t, <1>t, <1>1, <1>2, <1>3, <1>4, <1>27 DEF CancelAll, Raised
<1>28. ASSUME Ring PROVE WithinOK'
  BY <1>0, <1>t, <1>t, <1>1, <1>2, <1>3, <1>4, <1>28 DEF Ring, RingBell
<1>29. ASSUME Join PROVE WithinOK'
  BY <1>0, <1>t, <1>t, <1>1, <1>2, <1>3, <1>4, <1>29 DEF Join
<1>30. ASSUME RefusePending PROVE WithinOK'
  BY <1>0, <1>t, <1>t, <1>1, <1>2, <1>3, <1>4, <1>30 DEF RefusePending
<1>31. ASSUME PrepareClose PROVE WithinOK'
  BY <1>0, <1>t, <1>t, <1>1, <1>2, <1>3, <1>4, <1>31 DEF PrepareClose
<1>32. ASSUME FinishClose PROVE WithinOK'
  BY <1>0, <1>t, <1>t, <1>1, <1>2, <1>3, <1>4, <1>32 DEF FinishClose
<1>33. CASE \/ UNCHANGED vars
            \/ \E b \in Bundles : Spawn(b)
            \/ \E id \in Ids : AskCancel(id)
            \/ Cancel
            \/ \E g \in Switchers, b \in Bundles : Shutdown(g, b)
            \/ \E g \in Switchers : Permit(g)
            \/ \E g \in Switchers : RemoveBody(g)
            \/ \E g \in Switchers : Deactivated(g)
            \/ \E g \in Switchers : Release(g)
            \/ \E g \in Switchers, b \in Bundles : Enable(g, b)
            \/ \E g \in Switchers : Declare(g)
            \/ \E g \in Switchers : Mount(g)
            \/ \E g \in Switchers : MountFails(g)
            \/ \E b \in Bundles : Unmount(b)
  <2>1. UNCHANGED <<within, pc, batch>>
    BY <1>33 DEF vars, AskCancel, Cancel, Deactivated, Declare, Done, Enable, Mount, MountFails,
       Permit, Raised, Release, RemoveBody, Retire, RingBell, SetOff, Shutdown, Spawn, StepTo,
       Unmount
  <2> QED
    BY <1>0, <1>t, <1>t, <1>1, <1>2, <1>3, <1>4, <2>1
<1> HIDE DEF WithinOK, Holding
<1> QED
  <2>1. ASSUME NEW h \in Hands, Run(h) PROVE WithinOK'
    BY <2>1, <1>17, <1>18, <1>19, <1>20, <1>21, <1>22, <1>23 DEF Run
  <2>2. ASSUME NEW w \in Workers, Round(w) \/ Failing(w) PROVE WithinOK'
    BY <2>2, <1>6, <1>7, <1>8, <1>9, <1>10, <1>11, <1>12, <1>13, <1>14, <1>15, <1>16, <1>24,
       <1>25 DEF Round, Failing
  <2>3. ASSUME NEW g \in Switchers, Switching(g) \/ MountFails(g) PROVE WithinOK'
    BY <2>3, <1>33 DEF Switching
  <2>4. ASSUME Closing PROVE WithinOK'
    BY <2>4, <1>27, <1>28, <1>29, <1>30, <1>31, <1>32, <1>33 DEF Closing
  <2>5. ASSUME Asking PROVE WithinOK'
    BY <2>5, <1>5, <1>26, <1>33 DEF Asking
  <2> QED
    BY <2>1, <2>2, <2>3, <2>4, <2>5, <1>33 DEF Next

\* Every step keeps the ticket: it is taken before the queue is drained, and
\* whoever puts a job in the queue or stops the pool rings after it.
LEMMA BellOKStep ==
    ASSUME IInv, [Next]_vars
    PROVE  BellOK'
<1> USE DEF BellOK, NoLostRing, Go, kernel, bundles, inflight, control, switch, cancel
<1>0. BellOK
  BY DEF IInv
<1>t. /\ pc \in [Hands -> Steps] /\ current \subseteq Workers
  BY DEF IInv, TypeOK
<1>1. pc[Closer] # "open" => stopping
  BY DEF IInv, StepsOK
<1>2. /\ Workers \subseteq Hands /\ Callers \subseteq Hands
      /\ Closer \in Hands /\ Closer \notin Workers
  BY ThreadsAssumption DEF Hands
<1>3. \A w \in Workers : pc[w] \in WorkerSteps
  BY DEF IInv, StepsOK
<1>4. ASSUME NEW b \in Bundles, Spawn(b) PROVE BellOK'
  BY <1>0, <1>t, <1>t, <1>1, <1>2, <1>4 DEF Spawn, RingBell
<1>5. ASSUME NEW c \in Callers, NEW b \in Bundles, Invoke(c, b) PROVE BellOK'
  BY <1>0, <1>t, <1>t, <1>1, <1>2, <1>5 DEF Invoke
<1>6. ASSUME NEW w \in Workers, Top(w) PROVE BellOK'
  BY <1>0, <1>t, <1>t, <1>1, <1>2, <1>6 DEF Top
<1>7. ASSUME NEW w \in Workers, Ticket(w) PROVE BellOK'
  BY <1>0, <1>t, <1>t, <1>1, <1>2, <1>7 DEF Ticket
<1>8. ASSUME NEW w \in Workers, Drain(w) PROVE BellOK'
  BY <1>0, <1>t, <1>t, <1>1, <1>2, <1>8 DEF Drain
<1>9. ASSUME NEW w \in Workers, Look(w) PROVE BellOK'
  BY <1>0, <1>t, <1>t, <1>1, <1>2, <1>9 DEF Look
<1>10. ASSUME NEW w \in Workers, Wake(w) PROVE BellOK'
  BY <1>0, <1>t, <1>t, <1>1, <1>2, <1>10 DEF Wake
<1>11. ASSUME NEW w \in Workers, Alarm(w) PROVE BellOK'
  BY <1>0, <1>t, <1>t, <1>1, <1>2, <1>11 DEF Alarm
<1>12. ASSUME NEW w \in Workers, AlarmFails(w) PROVE BellOK'
  BY <1>0, <1>t, <1>t, <1>1, <1>2, <1>12 DEF AlarmFails
<1>13. ASSUME NEW w \in Workers, Break(w) PROVE BellOK'
  BY <1>0, <1>t, <1>t, <1>1, <1>2, <1>13 DEF Break
<1>14. ASSUME NEW w \in Workers, Warn(w) PROVE BellOK'
  BY <1>0, <1>t, <1>t, <1>1, <1>2, <1>14 DEF Warn, RingBell
<1>15. ASSUME NEW w \in Workers, Claim(w) PROVE BellOK'
  BY <1>0, <1>t, <1>t, <1>1, <1>2, <1>15 DEF Claim, Claimed
<1>16. ASSUME NEW w \in Workers, NextJob(w) PROVE BellOK'
  BY <1>0, <1>t, <1>t, <1>1, <1>2, <1>16 DEF NextJob
<1>17. ASSUME NEW h \in Hands, Flag(h) PROVE BellOK'
  BY <1>0, <1>t, <1>t, <1>1, <1>2, <1>17 DEF Flag, Claimed
<1>18. ASSUME NEW h \in Hands, Enter(h) PROVE BellOK'
  BY <1>0, <1>t, <1>t, <1>1, <1>2, <1>18 DEF Enter
<1>19. ASSUME NEW h \in Hands, Body(h) PROVE BellOK'
  BY <1>0, <1>t, <1>t, <1>1, <1>2, <1>19 DEF Body
<1>20. ASSUME NEW h \in Hands, Leave(h) PROVE BellOK'
  BY <1>0, <1>t, <1>t, <1>1, <1>2, <1>20 DEF Leave
<1>21. ASSUME NEW h \in Hands, Forget(h) PROVE BellOK'
  BY <1>0, <1>t, <1>t, <1>1, <1>2, <1>21 DEF Forget
<1>22. ASSUME NEW h \in Hands, Answer(h) PROVE BellOK'
  BY <1>0, <1>t, <1>t, <1>1, <1>2, <1>22 DEF Answer, Following, Following
<1>23. ASSUME NEW h \in Hands, Slice(h) PROVE BellOK'
  BY <1>0, <1>t, <1>t, <1>1, <1>2, <1>23 DEF Slice, Claimed
<1>24. ASSUME NEW w \in Workers, PutBack(w) PROVE BellOK'
  BY <1>0, <1>t, <1>t, <1>1, <1>2, <1>24 DEF PutBack
<1>25. ASSUME NEW w \in Workers, Spoil(w) PROVE BellOK'
  BY <1>0, <1>t, <1>t, <1>1, <1>2, <1>25 DEF Spoil
<1>26. ASSUME NEW g \in Switchers, Deactivated(g) PROVE BellOK'
  BY <1>0, <1>t, <1>t, <1>1, <1>2, <1>26 DEF Deactivated, Retire, StepTo
<1>27. ASSUME NEW g \in Switchers, Declare(g) PROVE BellOK'
  BY <1>0, <1>t, <1>t, <1>1, <1>2, <1>27 DEF Declare, StepTo, Done, RingBell
<1>28. ASSUME NEW g \in Switchers, MountFails(g) PROVE BellOK'
  BY <1>0, <1>t, <1>t, <1>1, <1>2, <1>28 DEF MountFails, Retire, Done
<1>29. ASSUME Stop PROVE BellOK'
  BY <1>0, <1>t, <1>t, <1>1, <1>2, <1>29 DEF Stop
<1>30. ASSUME CancelAll PROVE BellOK'
  BY <1>0, <1>t, <1>t, <1>1, <1>2, <1>30 DEF CancelAll, Raised
<1>31. ASSUME Ring PROVE BellOK'
  BY <1>0, <1>t, <1>t, <1>1, <1>2, <1>31 DEF Ring, RingBell
<1>32. ASSUME Join PROVE BellOK'
  BY <1>0, <1>t, <1>t, <1>1, <1>2, <1>32 DEF Join
<1>33. ASSUME RefusePending PROVE BellOK'
  BY <1>0, <1>t, <1>t, <1>1, <1>2, <1>33 DEF RefusePending
<1>34. ASSUME PrepareClose PROVE BellOK'
  BY <1>0, <1>t, <1>t, <1>1, <1>2, <1>34 DEF PrepareClose
<1>35. ASSUME NEW b \in Bundles, Unmount(b) PROVE BellOK'
  BY <1>0, <1>t, <1>t, <1>1, <1>2, <1>35 DEF Unmount, Retire
<1>36. ASSUME FinishClose PROVE BellOK'
  BY <1>0, <1>t, <1>t, <1>1, <1>2, <1>36 DEF FinishClose
<1>37. CASE \/ UNCHANGED vars
            \/ \E id \in Ids : AskCancel(id)
            \/ Cancel
            \/ \E g \in Switchers, b \in Bundles : Shutdown(g, b)
            \/ \E g \in Switchers : Permit(g)
            \/ \E g \in Switchers : RemoveBody(g)
            \/ \E g \in Switchers : Release(g)
            \/ \E g \in Switchers, b \in Bundles : Enable(g, b)
            \/ \E g \in Switchers : Mount(g)
  <2>1. UNCHANGED <<pc, current, queue, stopping>>
    BY <1>37 DEF vars, AskCancel, Cancel, Done, Enable, Mount, Permit, Raised, Release,
       RemoveBody, SetOff, Shutdown, StepTo
  <2> QED
    BY <1>0, <1>t, <1>t, <1>1, <1>2, <2>1
<1> HIDE DEF BellOK, NoLostRing
<1> QED
  <2>1. ASSUME NEW h \in Hands, Run(h) PROVE BellOK'
    BY <2>1, <1>17, <1>18, <1>19, <1>20, <1>21, <1>22, <1>23 DEF Run
  <2>2. ASSUME NEW w \in Workers, Round(w) \/ Failing(w) PROVE BellOK'
    BY <2>2, <1>6, <1>7, <1>8, <1>9, <1>10, <1>11, <1>12, <1>13, <1>14, <1>15, <1>16, <1>24,
       <1>25 DEF Round, Failing
  <2>3. ASSUME NEW g \in Switchers, Switching(g) \/ MountFails(g) PROVE BellOK'
    BY <2>3, <1>26, <1>27, <1>28, <1>37 DEF Switching
  <2>4. ASSUME Closing PROVE BellOK'
    BY <2>4, <1>30, <1>31, <1>32, <1>33, <1>34, <1>35, <1>36 DEF Closing
  <2>5. ASSUME Asking PROVE BellOK'
    BY <2>5, <1>4, <1>5, <1>29, <1>37 DEF Asking
  <2> QED
    BY <2>1, <2>2, <2>3, <2>4, <2>5, <1>37 DEF Next

\* No step loses a job: what leaves the queue or a batch is in a hand or answered.
LEMMA SomewhereStep ==
    ASSUME IInv, [Next]_vars
    PROVE  Somewhere'
<1> USE DEF Somewhere, Answered, Holding, Go, kernel, bundles, inflight, control, switch, cancel
<1>0. Somewhere
  BY DEF IInv
<1>t. /\ pc \in [Hands -> Steps] /\ batch \in [Hands -> SUBSET Ids] /\ answers \in [Ids -> Nat]
     /\ owners \in Seq(Bundles \cup {Core})
  BY DEF IInv, TypeOK
<1>1. Jobs \subseteq Ids /\ Jobs \subseteq Jobs' /\ \A id : IsOpening(id)' <=> IsOpening(id)
  BY OwnersKept, HandFacts
<1>2. \A h \in Hands : pc[h] \in Holding => Job(h) \in batch[h]
  BY HandFacts
<1>3. Workers \subseteq Hands /\ Callers \subseteq Hands /\ Closer \in Hands
  BY DEF Hands
<1>4. owners' = owners => Jobs' = Jobs
  BY DEF Jobs, Issued
<1>5. \A h \in Hands : batch[h] # {} <=> pc[h] \in Holding
  BY DEF IInv, StepsOK
<1>6. ASSUME NEW b \in Bundles, Spawn(b) PROVE Somewhere'
  <2>1. Jobs' = Jobs \cup {Issued + 1}
    BY <1>t, <1>6, HandFacts DEF Spawn, Jobs, Issued
  <2> QED
    BY <1>0, <1>1, <1>3, <1>5, <1>t, <1>6, <2>1 DEF Spawn
<1>7. ASSUME NEW c \in Callers, NEW b \in Bundles, Invoke(c, b) PROVE Somewhere'
  <2>1. Jobs' = Jobs \cup {Issued + 1}
    BY <1>t, <1>7, HandFacts DEF Invoke, Jobs, Issued
  <2> QED
    BY <1>0, <1>1, <1>3, <1>5, <1>t, <1>7, <2>1 DEF Invoke
<1>8. ASSUME NEW w \in Workers, Drain(w) PROVE Somewhere'
  BY <1>0, <1>t, <1>t, <1>1, <1>2, <1>3, <1>4, <1>5, <1>8 DEF Drain
<1>9. ASSUME NEW h \in Hands, Answer(h) PROVE Somewhere'
  BY <1>0, <1>t, <1>t, <1>1, <1>2, <1>3, <1>4, <1>5, <1>9 DEF Answer, Following
<1>10. ASSUME NEW h \in Hands, Slice(h) PROVE Somewhere'
  BY <1>0, <1>t, <1>t, <1>1, <1>2, <1>3, <1>4, <1>5, <1>10 DEF Slice, Claimed
<1>11. ASSUME NEW w \in Workers, Spoil(w) PROVE Somewhere'
  BY <1>0, <1>t, <1>t, <1>1, <1>2, <1>3, <1>4, <1>5, <1>11 DEF Spoil
<1>12. ASSUME NEW g \in Switchers, Deactivated(g) PROVE Somewhere'
  BY <1>0, <1>t, <1>t, <1>1, <1>2, <1>3, <1>4, <1>5, <1>12 DEF Deactivated, Retire, StepTo
<1>13. ASSUME NEW g \in Switchers, MountFails(g) PROVE Somewhere'
  BY <1>0, <1>t, <1>t, <1>1, <1>2, <1>3, <1>4, <1>5, <1>13 DEF MountFails, Retire, Done
<1>14. ASSUME RefusePending PROVE Somewhere'
  BY <1>0, <1>t, <1>t, <1>1, <1>2, <1>3, <1>4, <1>5, <1>14 DEF RefusePending
<1>15. ASSUME NEW b \in Bundles, Unmount(b) PROVE Somewhere'
  BY <1>0, <1>t, <1>t, <1>1, <1>2, <1>3, <1>4, <1>5, <1>15 DEF Unmount, Retire
<1>16. CASE \/ UNCHANGED vars
            \/ \E w \in Workers : Top(w)
            \/ \E w \in Workers : Ticket(w)
            \/ \E w \in Workers : Look(w)
            \/ \E w \in Workers : Wake(w)
            \/ \E w \in Workers : Alarm(w)
            \/ \E w \in Workers : AlarmFails(w)
            \/ \E w \in Workers : Break(w)
            \/ \E w \in Workers : Warn(w)
            \/ \E w \in Workers : Claim(w)
            \/ \E w \in Workers : NextJob(w)
            \/ \E h \in Hands : Flag(h)
            \/ \E h \in Hands : Enter(h)
            \/ \E h \in Hands : Body(h)
            \/ \E h \in Hands : Leave(h)
            \/ \E h \in Hands : Forget(h)
            \/ \E w \in Workers : PutBack(w)
            \/ \E id \in Ids : AskCancel(id)
            \/ Cancel
            \/ \E g \in Switchers, b \in Bundles : Shutdown(g, b)
            \/ \E g \in Switchers : Permit(g)
            \/ \E g \in Switchers : RemoveBody(g)
            \/ \E g \in Switchers : Release(g)
            \/ \E g \in Switchers, b \in Bundles : Enable(g, b)
            \/ \E g \in Switchers : Declare(g)
            \/ \E g \in Switchers : Mount(g)
            \/ Stop
            \/ CancelAll
            \/ Ring
            \/ Join
            \/ PrepareClose
            \/ FinishClose
  <2>1. UNCHANGED <<owners, batch, queue, answers>>
    BY <1>16 DEF vars, Alarm, AlarmFails, AskCancel, Body, Break, Cancel, CancelAll, Claim,
       Claimed, Declare, Done, Enable, Enter, FinishClose, Flag, Forget, Join, Leave, Look,
       Mount, NextJob, Permit, PrepareClose, PutBack, Raised, Release, RemoveBody, Ring,
       RingBell, SetOff, Shutdown, StepTo, Stop, Ticket, Top, Wake, Warn
  <2> QED
    BY <1>0, <1>t, <1>t, <1>1, <1>2, <1>3, <1>4, <1>5, <2>1
<1> HIDE DEF Somewhere, Answered, Holding
<1> QED
  <2>1. ASSUME NEW h \in Hands, Run(h) PROVE Somewhere'
    BY <2>1, <1>9, <1>10, <1>16 DEF Run
  <2>2. ASSUME NEW w \in Workers, Round(w) \/ Failing(w) PROVE Somewhere'
    BY <2>2, <1>8, <1>11, <1>16 DEF Round, Failing
  <2>3. ASSUME NEW g \in Switchers, Switching(g) \/ MountFails(g) PROVE Somewhere'
    BY <2>3, <1>12, <1>13, <1>16 DEF Switching
  <2>4. ASSUME Closing PROVE Somewhere'
    BY <2>4, <1>14, <1>15, <1>16 DEF Closing
  <2>5. ASSUME Asking PROVE Somewhere'
    BY <2>5, <1>6, <1>7, <1>16 DEF Asking
  <2> QED
    BY <2>1, <2>2, <2>3, <2>4, <2>5, <1>16 DEF Next

\* Every step of the close finds done what the steps before it have done.
LEMMA ClosingOKStep ==
    ASSUME IInv, [Next]_vars
    PROVE  ClosingOK'
<1> USE DEF ClosingOK, Holding, Go, kernel, bundles, inflight, control, switch, cancel
<1>0. ClosingOK
  BY DEF IInv
<1>t. /\ pc \in [Hands -> Steps] /\ batch \in [Hands -> SUBSET Ids] /\ queue \subseteq Ids
  BY DEF IInv, TypeOK
<1>1. PICK o \in Jobs : \A id : IsOpening(id) <=> id = o
  BY OpeningFacts
<1>2. /\ Jobs \subseteq Jobs' /\ \A id : IsOpening(id)' <=> id = o
      /\ \A id \in Jobs : owners'[id] = owners[id]
  BY <1>1, OwnersKept
<1>3. /\ Workers \subseteq Hands /\ Callers \subseteq Hands
      /\ Closer \in Hands /\ Closer \notin Workers \cup Callers
  BY ThreadsAssumption DEF Hands
<1>4. queue \subseteq Jobs /\ Jobs \subseteq Ids /\ Jobs = 1..Issued
  BY HandFacts DEF IInv, OnePlace, Jobs
<1>5. \A h \in Hands : batch[h] # {} <=> pc[h] \in Holding
  BY DEF IInv, StepsOK
<1>6. \A h \in Hands : pc[h] \in Holding => Job(h) \in batch[h]
  BY HandFacts
<1>7. pc[Closer] \notin {"enter", "inside", "leave"} /\ (\A w \in Workers : pc[w] \in WorkerSteps)
      /\ (pc[Closer] # "open" => stopping)
  BY DEF IInv, StepsOK, CloserSteps
<1>8. /\ \A h \in Hands : o \in batch[h] => batch[h] = {o}
      /\ opening \in {"taken", "spoilt"} => \E h \in Hands : pc[h] \in Opens \/ o \in batch[h]
      /\ opening \in {"waiting", "taken", "spoilt", "over"}
      /\ \A c \in Callers : pc[c] \notin Opens /\ o \notin batch[c]
  BY <1>1 DEF IInv, OpeningOK, Token, TypeOK, Hands
<1>9. ASSUME NEW b \in Bundles, Spawn(b) PROVE ClosingOK'
  <2>1. /\ queue' = queue \cup {Issued + 1} /\ owners'[Issued + 1] = b /\ b \in declared
        /\ UNCHANGED <<declared, pc, batch, closed, opening>> /\ ~closed
    BY <1>9, HandFacts DEF Spawn, Issued, IInv, TypeOK
  <2> QED
    BY <1>0, <1>1, <1>2, <1>4, <2>1
<1>10. ASSUME NEW c \in Callers, NEW b \in Bundles, Invoke(c, b) PROVE ClosingOK'
  BY <1>0, <1>t, <1>t, <1>1, <1>2, <1>3, <1>4, <1>5, <1>6, <1>7, <1>10 DEF Invoke
<1>11. ASSUME NEW w \in Workers, Top(w) PROVE ClosingOK'
  BY <1>0, <1>t, <1>t, <1>1, <1>2, <1>3, <1>4, <1>5, <1>6, <1>7, <1>11 DEF Top
<1>12. ASSUME NEW w \in Workers, Ticket(w) PROVE ClosingOK'
  BY <1>0, <1>t, <1>t, <1>1, <1>2, <1>3, <1>4, <1>5, <1>6, <1>7, <1>12 DEF Ticket
<1>13. ASSUME NEW w \in Workers, Drain(w) PROVE ClosingOK'
  BY <1>0, <1>t, <1>t, <1>1, <1>2, <1>3, <1>4, <1>5, <1>6, <1>7, <1>13 DEF Drain
<1>14. ASSUME NEW w \in Workers, Look(w) PROVE ClosingOK'
  BY <1>0, <1>t, <1>t, <1>1, <1>2, <1>3, <1>4, <1>5, <1>6, <1>7, <1>14 DEF Look
<1>15. ASSUME NEW w \in Workers, Wake(w) PROVE ClosingOK'
  BY <1>0, <1>t, <1>t, <1>1, <1>2, <1>3, <1>4, <1>5, <1>6, <1>7, <1>15 DEF Wake
<1>16. ASSUME NEW w \in Workers, Alarm(w) PROVE ClosingOK'
  BY <1>0, <1>t, <1>t, <1>1, <1>2, <1>3, <1>4, <1>5, <1>6, <1>7, <1>16 DEF Alarm
<1>17. ASSUME NEW w \in Workers, AlarmFails(w) PROVE ClosingOK'
  BY <1>0, <1>t, <1>t, <1>1, <1>2, <1>3, <1>4, <1>5, <1>6, <1>7, <1>17 DEF AlarmFails
<1>18. ASSUME NEW w \in Workers, Break(w) PROVE ClosingOK'
  BY <1>0, <1>t, <1>t, <1>1, <1>2, <1>3, <1>4, <1>5, <1>6, <1>7, <1>18 DEF Break
<1>19. ASSUME NEW w \in Workers, Warn(w) PROVE ClosingOK'
  BY <1>0, <1>t, <1>t, <1>1, <1>2, <1>3, <1>4, <1>5, <1>6, <1>7, <1>19 DEF Warn, RingBell
<1>20. ASSUME NEW w \in Workers, Claim(w) PROVE ClosingOK'
  BY <1>0, <1>t, <1>t, <1>1, <1>2, <1>3, <1>4, <1>5, <1>6, <1>7, <1>20 DEF Claim, Claimed
<1>21. ASSUME NEW w \in Workers, NextJob(w) PROVE ClosingOK'
  BY <1>0, <1>t, <1>t, <1>1, <1>2, <1>3, <1>4, <1>5, <1>6, <1>7, <1>21 DEF NextJob
<1>22. ASSUME NEW h \in Hands, Flag(h) PROVE ClosingOK'
  BY <1>0, <1>t, <1>t, <1>1, <1>2, <1>3, <1>4, <1>5, <1>6, <1>7, <1>22 DEF Flag, Claimed
<1>23. ASSUME NEW h \in Hands, Enter(h) PROVE ClosingOK'
  BY <1>0, <1>t, <1>t, <1>1, <1>2, <1>3, <1>4, <1>5, <1>6, <1>7, <1>23 DEF Enter
<1>24. ASSUME NEW h \in Hands, Body(h) PROVE ClosingOK'
  BY <1>0, <1>t, <1>t, <1>1, <1>2, <1>3, <1>4, <1>5, <1>6, <1>7, <1>24 DEF Body
<1>25. ASSUME NEW h \in Hands, Leave(h) PROVE ClosingOK'
  BY <1>0, <1>t, <1>t, <1>1, <1>2, <1>3, <1>4, <1>5, <1>6, <1>7, <1>25 DEF Leave
<1>26. ASSUME NEW h \in Hands, Forget(h) PROVE ClosingOK'
  BY <1>0, <1>t, <1>t, <1>1, <1>2, <1>3, <1>4, <1>5, <1>6, <1>7, <1>26 DEF Forget
<1>27. ASSUME NEW h \in Hands, Answer(h) PROVE ClosingOK'
  <2>1. /\ UNCHANGED <<queue, owners, declared, closed>> /\ pc[h] = "answer"
        /\ pc'[h] = Following(h) /\ batch'[h] = batch[h] \ {Job(h)}
        /\ \A k \in Hands : k # h => pc'[k] = pc[k] /\ batch'[k] = batch[k]
        /\ opening' = IF Owner(h) = Core THEN "over" ELSE opening
    BY <1>t, <1>27 DEF Answer
  <2>2. Job(h) \in batch[h] /\ (Owner(h) = Core <=> Job(h) = o)
    BY <1>1, <1>6, <2>1, HandFacts DEF Owner, IsOpening
  <2>3. CASE h = Closer
    <3>1. opening' = "over"
      BY <1>0, <1>1, <1>8, <2>1, <2>2, <2>3
    <3>2. pc'[h] \in {"refuse", "forget", "close"}
      BY <1>3, <2>1, <2>3 DEF Following
    <3> QED
      BY <1>0, <1>1, <1>2, <1>3, <2>1, <2>3, <3>1, <3>2
  <2>4. CASE h # Closer
    <3>1. h \in Workers => pc[Closer] \in {"open", "cancel", "ring", "join"}
      BY <1>0, <2>1
    <3> QED
      BY <1>0, <1>1, <1>2, <1>3, <2>1, <2>4, <3>1
  <2> QED
    BY <2>3, <2>4
<1>28. ASSUME NEW h \in Hands, Slice(h) PROVE ClosingOK'
  <2>1. /\ UNCHANGED <<queue, owners, declared, closed, opening>> /\ pc[h] = "slice"
        /\ \A k \in Hands : k # h => pc'[k] = pc[k] /\ batch'[k] = batch[k]
        /\ stopping => pc'[h] = "forget" /\ batch'[h] = {o}
        /\ pc'[h] \in {"forget", "working"}
    BY <1>t, <1>1, <1>28, OpeningFacts DEF Slice
  <2>2. h \in Workers \/ h = Closer
    BY <1>8, <2>1 DEF Hands, Opens
  <2>3. h \in Workers => pc[Closer] \in {"open", "cancel", "ring", "join"}
    BY <1>0, <2>1
  <2>4. h = Closer => pc'[h] = "forget" /\ o \in batch'[h]
    BY <1>7, <2>1
  <2> QED
    BY <1>0, <1>1, <1>2, <1>3, <2>1, <2>2, <2>3, <2>4
<1>29. ASSUME NEW w \in Workers, PutBack(w) PROVE ClosingOK'
  BY <1>0, <1>t, <1>t, <1>1, <1>2, <1>3, <1>4, <1>5, <1>6, <1>7, <1>29 DEF PutBack
<1>30. ASSUME NEW w \in Workers, Spoil(w) PROVE ClosingOK'
  BY <1>0, <1>t, <1>t, <1>1, <1>2, <1>3, <1>4, <1>5, <1>6, <1>7, <1>30 DEF Spoil
<1>31. ASSUME NEW g \in Switchers, Deactivated(g) PROVE ClosingOK'
  BY <1>0, <1>t, <1>t, <1>1, <1>2, <1>3, <1>4, <1>5, <1>6, <1>7, <1>31 DEF Deactivated, Retire,
     StepTo
<1>32. ASSUME NEW g \in Switchers, Declare(g) PROVE ClosingOK'
  BY <1>0, <1>t, <1>t, <1>1, <1>2, <1>3, <1>4, <1>5, <1>6, <1>7, <1>32 DEF Declare, StepTo,
     Done, RingBell
<1>33. ASSUME NEW g \in Switchers, MountFails(g) PROVE ClosingOK'
  BY <1>0, <1>t, <1>t, <1>1, <1>2, <1>3, <1>4, <1>5, <1>6, <1>7, <1>33 DEF MountFails, Retire,
     Done
<1>34. ASSUME Stop PROVE ClosingOK'
  BY <1>0, <1>t, <1>t, <1>1, <1>2, <1>3, <1>4, <1>5, <1>6, <1>7, <1>34 DEF Stop
<1>35. ASSUME CancelAll PROVE ClosingOK'
  BY <1>0, <1>t, <1>t, <1>1, <1>2, <1>3, <1>4, <1>5, <1>6, <1>7, <1>35 DEF CancelAll, Raised
<1>36. ASSUME Ring PROVE ClosingOK'
  BY <1>0, <1>t, <1>t, <1>1, <1>2, <1>3, <1>4, <1>5, <1>6, <1>7, <1>36 DEF Ring, RingBell
<1>37. ASSUME Join PROVE ClosingOK'
  <2>1. /\ pc[Closer] = "join" /\ \A w \in Workers : pc[w] = "gone"
        /\ UNCHANGED <<queue, owners, declared, closed, batch>>
        /\ (opening = "waiting" => pc'[Closer] = "slice")
        /\ (opening # "waiting" => pc'[Closer] = "refuse" /\ opening' = opening)
        /\ \A k \in Hands : k # Closer => pc'[k] = pc[k]
    BY <1>t, <1>3, <1>37 DEF Join
  <2>2. opening \notin {"taken", "spoilt"}
    BY <1>5, <1>8, <2>1 DEF Hands, Opens
  <2> QED
    BY <1>0, <1>1, <1>2, <1>3, <1>8, <2>1, <2>2
<1>38. ASSUME RefusePending PROVE ClosingOK'
  BY <1>0, <1>t, <1>t, <1>1, <1>2, <1>3, <1>4, <1>5, <1>6, <1>7, <1>38 DEF RefusePending
<1>39. ASSUME PrepareClose PROVE ClosingOK'
  BY <1>0, <1>t, <1>t, <1>1, <1>2, <1>3, <1>4, <1>5, <1>6, <1>7, <1>39 DEF PrepareClose
<1>40. ASSUME NEW b \in Bundles, Unmount(b) PROVE ClosingOK'
  BY <1>0, <1>t, <1>t, <1>1, <1>2, <1>3, <1>4, <1>5, <1>6, <1>7, <1>40 DEF Unmount, Retire
<1>41. ASSUME FinishClose PROVE ClosingOK'
  BY <1>0, <1>t, <1>t, <1>1, <1>2, <1>3, <1>4, <1>5, <1>6, <1>7, <1>41 DEF FinishClose
<1>42. CASE \/ UNCHANGED vars
            \/ \E id \in Ids : AskCancel(id)
            \/ Cancel
            \/ \E g \in Switchers, b \in Bundles : Shutdown(g, b)
            \/ \E g \in Switchers : Permit(g)
            \/ \E g \in Switchers : RemoveBody(g)
            \/ \E g \in Switchers : Release(g)
            \/ \E g \in Switchers, b \in Bundles : Enable(g, b)
            \/ \E g \in Switchers : Mount(g)
  <2>1. UNCHANGED <<pc, owners, batch, queue, declared, closed, opening>>
    BY <1>42 DEF vars, AskCancel, Cancel, Done, Enable, Mount, Permit, Raised, Release,
       RemoveBody, SetOff, Shutdown, StepTo
  <2> QED
    BY <1>0, <1>t, <1>t, <1>1, <1>2, <1>3, <1>4, <1>5, <1>6, <1>7, <2>1
<1> HIDE DEF ClosingOK, Holding
<1> QED
  <2>1. ASSUME NEW h \in Hands, Run(h) PROVE ClosingOK'
    BY <2>1, <1>22, <1>23, <1>24, <1>25, <1>26, <1>27, <1>28 DEF Run
  <2>2. ASSUME NEW w \in Workers, Round(w) \/ Failing(w) PROVE ClosingOK'
    BY <2>2, <1>11, <1>12, <1>13, <1>14, <1>15, <1>16, <1>17, <1>18, <1>19, <1>20, <1>21, <1>29,
       <1>30 DEF Round, Failing
  <2>3. ASSUME NEW g \in Switchers, Switching(g) \/ MountFails(g) PROVE ClosingOK'
    BY <2>3, <1>31, <1>32, <1>33, <1>42 DEF Switching
  <2>4. ASSUME Closing PROVE ClosingOK'
    BY <2>4, <1>35, <1>36, <1>37, <1>38, <1>39, <1>40, <1>41 DEF Closing
  <2>5. ASSUME Asking PROVE ClosingOK'
    BY <2>5, <1>9, <1>10, <1>34, <1>42 DEF Asking
  <2> QED
    BY <2>1, <2>2, <2>3, <2>4, <2>5, <1>42 DEF Next

\* One thread at a time switches bundles off and on.
OneSwitcher == \A g, k \in Switchers : g = k

\* Every step keeps whoever has a bundle to switch off alone with it, where one
\* thread switches: the door is marked before the count is looked at.
LEMMA PermitOKStep ==
    ASSUME IInv, PermitOK, OneSwitcher, [Next]_vars
    PROVE  PermitOK'
<1> USE DEF PermitOK, Go, kernel, bundles, inflight, control, switch, cancel
<1>0. TypeOK
  BY DEF IInv
<1>t. /\ spc \in [Switchers -> {"idle", "await", "held", "stopping", "release",
                              "enable", "mounting"}]
     /\ target \in [Switchers -> Bundles \cup {Nobody}]
  BY DEF IInv, TypeOK
<1>1. \A id \in within : id \in Jobs /\ owners'[id] = owners[id]
  BY OwnersKept DEF IInv, OnePlace
<1>2. \A g, k \in Switchers : g = k
  BY DEF OneSwitcher
<1>3. ASSUME NEW b \in Bundles, Spawn(b) PROVE PermitOK'
  BY <1>0, <1>t, <1>t, <1>1, <1>2, <1>3 DEF Spawn, RingBell
<1>4. ASSUME NEW c \in Callers, NEW b \in Bundles, Invoke(c, b) PROVE PermitOK'
  BY <1>0, <1>t, <1>t, <1>1, <1>2, <1>4 DEF Invoke
<1>5. ASSUME NEW h \in Hands, Enter(h) PROVE PermitOK'
  BY <1>0, <1>t, <1>t, <1>1, <1>2, <1>5 DEF Enter, Owner
<1>6. ASSUME NEW h \in Hands, Leave(h) PROVE PermitOK'
  BY <1>0, <1>t, <1>t, <1>1, <1>2, <1>6 DEF Leave
<1>7. ASSUME NEW g \in Switchers, NEW b \in Bundles, Shutdown(g, b) PROVE PermitOK'
  BY <1>0, <1>t, <1>t, <1>1, <1>2, <1>7 DEF Shutdown, SetOff, Raised, Inside
<1>8. ASSUME NEW g \in Switchers, Permit(g) PROVE PermitOK'
  BY <1>0, <1>t, <1>t, <1>1, <1>2, <1>8 DEF Permit, StepTo, Inside
<1>9. ASSUME NEW g \in Switchers, RemoveBody(g) PROVE PermitOK'
  BY <1>0, <1>t, <1>t, <1>1, <1>2, <1>9 DEF RemoveBody, StepTo
<1>10. ASSUME NEW g \in Switchers, Deactivated(g) PROVE PermitOK'
  BY <1>0, <1>t, <1>t, <1>1, <1>2, <1>10 DEF Deactivated, Retire, StepTo
<1>11. ASSUME NEW g \in Switchers, Release(g) PROVE PermitOK'
  BY <1>0, <1>t, <1>t, <1>1, <1>2, <1>11 DEF Release, Done
<1>12. ASSUME NEW g \in Switchers, NEW b \in Bundles, Enable(g, b) PROVE PermitOK'
  BY <1>0, <1>t, <1>t, <1>1, <1>2, <1>12 DEF Enable, SetOff
<1>13. ASSUME NEW g \in Switchers, Declare(g) PROVE PermitOK'
  BY <1>0, <1>t, <1>t, <1>1, <1>2, <1>13 DEF Declare, StepTo, Done, RingBell
<1>14. ASSUME NEW g \in Switchers, Mount(g) PROVE PermitOK'
  BY <1>0, <1>t, <1>t, <1>1, <1>2, <1>14 DEF Mount, Done
<1>15. ASSUME NEW g \in Switchers, MountFails(g) PROVE PermitOK'
  BY <1>0, <1>t, <1>t, <1>1, <1>2, <1>15 DEF MountFails, Retire, Done
<1>16. CASE \/ UNCHANGED vars
            \/ \E w \in Workers : Top(w)
            \/ \E w \in Workers : Ticket(w)
            \/ \E w \in Workers : Drain(w)
            \/ \E w \in Workers : Look(w)
            \/ \E w \in Workers : Wake(w)
            \/ \E w \in Workers : Alarm(w)
            \/ \E w \in Workers : AlarmFails(w)
            \/ \E w \in Workers : Break(w)
            \/ \E w \in Workers : Warn(w)
            \/ \E w \in Workers : Claim(w)
            \/ \E w \in Workers : NextJob(w)
            \/ \E h \in Hands : Flag(h)
            \/ \E h \in Hands : Body(h)
            \/ \E h \in Hands : Forget(h)
            \/ \E h \in Hands : Answer(h)
            \/ \E h \in Hands : Slice(h)
            \/ \E w \in Workers : PutBack(w)
            \/ \E w \in Workers : Spoil(w)
            \/ \E id \in Ids : AskCancel(id)
            \/ Cancel
            \/ Stop
            \/ CancelAll
            \/ Ring
            \/ Join
            \/ RefusePending
            \/ PrepareClose
            \/ \E b \in Bundles : Unmount(b)
            \/ FinishClose
  <2>1. UNCHANGED <<spc, target, stopped, within, owners>>
    BY <1>16 DEF vars, Alarm, AlarmFails, Answer, AskCancel, Body, Break, Cancel, CancelAll,
       Claim, Claimed, Drain, FinishClose, Flag, Following, Forget, Join, Look, NextJob,
       PrepareClose, PutBack, Raised, RefusePending, Retire, Ring, RingBell, Slice, Spoil, Stop,
       Ticket, Top, Unmount, Wake, Warn
  <2> QED
    BY <1>0, <1>t, <1>t, <1>1, <1>2, <2>1
<1> HIDE DEF PermitOK
<1> QED
  <2>1. ASSUME NEW h \in Hands, Run(h) PROVE PermitOK'
    BY <2>1, <1>5, <1>6, <1>16 DEF Run
  <2>2. ASSUME NEW w \in Workers, Round(w) \/ Failing(w) PROVE PermitOK'
    BY <2>2, <1>16 DEF Round, Failing
  <2>3. ASSUME NEW g \in Switchers, Switching(g) \/ MountFails(g) PROVE PermitOK'
    BY <2>3, <1>8, <1>9, <1>10, <1>11, <1>13, <1>14, <1>15 DEF Switching
  <2>4. ASSUME Closing PROVE PermitOK'
    BY <2>4, <1>16 DEF Closing
  <2>5. ASSUME Asking PROVE PermitOK'
    BY <2>5, <1>3, <1>4, <1>7, <1>12, <1>16 DEF Asking
  <2> QED
    BY <2>1, <2>2, <2>3, <2>4, <2>5, <1>16 DEF Next

-----------------------------------------------------------------------------

\* The jobs of the start: the opening is the last that has been issued.
LEMMA FirstJobs ==
    ASSUME NEW e \in Seq(Bundles), Len(e) = 0 \/ Len(e) = 1,
           owners = Append(e, Core), queue = 1..Len(e), \A k \in 1..Len(e) : e[k] \in declared
    PROVE  \E o \in 1..2 : /\ Issued = o /\ Jobs = 1..o /\ owners[o] = Core
                           /\ queue = 1..(o - 1) /\ \A k \in queue : owners[k] \in declared
                           /\ \A k \in queue : owners[k] # Core
                           /\ owners \in Seq(Bundles \cup {Core})
<1>1. Len(owners) = Len(e) + 1 /\ owners[Len(e) + 1] = Core
  OBVIOUS
<1>2. \A k \in 1..Len(e) : owners[k] = e[k] /\ e[k] \in Bundles
  OBVIOUS
<1>3. owners \in Seq(Bundles \cup {Core})
  OBVIOUS
<1> DEFINE o == Len(e) + 1
<1>4. o \in 1..2 /\ o - 1 = Len(e)
  OBVIOUS
<1> QED
  BY <1>1, <1>2, <1>3, <1>4, BundlesAssumption DEF Issued, Jobs

\* The vault opens with the job of the opening waiting and at most one in the queue.
LEMMA InitIInv == Init => IInv
<1> SUFFICES ASSUME Init PROVE IInv
  OBVIOUS
<1>1. PICK early \in {<<>>} \cup {<<b>> : b \in Bundles} :
         /\ owners = Append(early, Core) /\ queue = 1..Len(early)
         /\ declared \in SUBSET Bundles /\ \A k \in 1..Len(early) : early[k] \in declared
  BY DEF Init
<1>2. early \in Seq(Bundles) /\ (Len(early) = 0 \/ Len(early) = 1)
  <2>1. CASE early = <<>>
    BY <2>1
  <2>2. CASE early # <<>>
    BY <1>1, <2>2
  <2> QED
    BY <2>1, <2>2
<1>3. PICK o \in 1..2 : /\ Issued = o /\ Jobs = 1..o /\ owners[o] = Core
                        /\ queue = 1..(o - 1) /\ \A k \in queue : owners[k] \in declared
                        /\ \A k \in queue : owners[k] # Core
                        /\ owners \in Seq(Bundles \cup {Core})
  BY <1>1, <1>2, FirstJobs
<1>4. /\ \A w \in Workers : pc[w] = "top"
      /\ \A c \in Callers : pc[c] = "idle"
      /\ pc[Closer] = "open" /\ \A h \in Hands : pc[h] \in {"top", "idle", "open"}
      /\ \A h \in Hands : batch[h] = {}
      /\ \A id \in Ids : answers[id] = 0 /\ flags[id] = "none"
      /\ Answered = {} /\ within = {} /\ Jobs \subseteq Ids
  <2>1. /\ \A w \in Workers : pc[w] = "top"
        /\ \A c \in Callers : pc[c] = "idle"
        /\ pc[Closer] = "open" /\ \A h \in Hands : pc[h] \in {"top", "idle", "open"}
    BY ThreadsAssumption DEF Init, Hands
  <2>2. \A h \in Hands : batch[h] = {}
    BY DEF Init
  <2>3. (\A id \in Ids : answers[id] = 0 /\ flags[id] = "none") /\ Answered = {}
    BY DEF Init, Answered
  <2>4. Jobs \subseteq Ids /\ within = {}
    BY <1>3, BoundsAssumption DEF Ids, Init
  <2> QED
    BY <2>1, <2>2, <2>3, <2>4
<1>5. TypeOK
  <2>1. declared \subseteq Bundles /\ queue \subseteq Ids
    BY <1>1, <1>3, BoundsAssumption DEF Ids
  <2>2. /\ pc \in [Hands -> Steps] /\ batch \in [Hands -> SUBSET Ids]
        /\ answers \in [Ids -> Nat] /\ flags \in [Ids -> {"none", "down", "up"}]
    BY ThreadsAssumption DEF Init, Steps
  <2>3. /\ owners \in Seq(Bundles \cup {Core}) /\ Len(owners) <= MaxJobs
        /\ seen \in 0..MaxJobs /\ asked \in [id : 0..MaxJobs, issued : 0..MaxJobs]
    BY <1>3, BoundsAssumption DEF Init, Issued
  <2> QED
    BY <2>1, <2>2, <2>3, BoundsAssumption DEF Init, TypeOK
<1>6. StepsOK
  BY <1>4 DEF Init, StepsOK, WorkerSteps, CallerSteps, CloserSteps, Holding
<1>7. OnePlace
  BY <1>3, <1>4 DEF OnePlace, Hands
<1>8. \A id : IsOpening(id) <=> id = o
  <2>1. \A k \in Jobs : k # o => k \in queue
    BY <1>3
  <2> QED
    BY <1>3, <2>1 DEF IsOpening
<1>9. OpeningOK
  <2>1. \A h \in Hands : ~Token(h)
    BY <1>4 DEF Token, Opens
  <2>2. opening = "waiting" /\ o \notin queue /\ o \in Jobs
    BY <1>3 DEF Init
  <2> QED
    BY <1>4, <1>8, <2>1, <2>2 DEF OpeningOK, Hands
<1>10. SeenOK
  BY <1>4 DEF Init, SeenOK, Charged, Holding, FlagsHaveAJob
<1>11. WithinOK /\ BellOK
  BY <1>4 DEF WithinOK, BellOK, NoLostRing
<1>12. Somewhere
  BY <1>3, <1>8 DEF Somewhere
<1>13. ClosingOK
  BY <1>3, <1>4 DEF ClosingOK
<1> QED
  BY <1>5, <1>6, <1>7, <1>9, <1>10, <1>11, <1>12, <1>13 DEF IInv

-----------------------------------------------------------------------------
(* The invariant, and what follows from it.                                *)

\* Every step keeps all of the invariant.
LEMMA Inductive == IInv /\ [Next]_vars => IInv'
<1> SUFFICES ASSUME IInv, [Next]_vars PROVE IInv'
  OBVIOUS
<1> QED
  BY TypeStep, StepsOKStep, OnePlaceStep, OpeningOKStep, SeenOKStep, WithinOKStep, BellOKStep,
     SomewhereStep, ClosingOKStep DEF IInv

LEMMA Invariance == Spec => []IInv
<1>1. IInv /\ [Next]_vars => IInv'
  BY Inductive
<1> QED
  BY <1>1, InitIInv, PTL DEF Spec

\* The variables have their types in every state the pool can reach.
THEOREM TypeCorrect == Spec => []TypeOK
<1>1. IInv => TypeOK
  BY DEF IInv
<1> QED
  BY <1>1, Invariance, PTL

\* A job never has two answers: not from a worker and the retirement of its
\* bundle, not from a worker and the close, not from the two ends of an opening.
THEOREM AnsweredOnce == Spec => []OneAnswer
<1>1. IInv => OneAnswer
  BY DEF IInv, OnePlace, OneAnswer
<1> QED
  BY <1>1, Invariance, PTL

\* A worker never sleeps on a bell that has rung for a job or for the stop:
\* the ticket is taken before the queue is looked at.
THEOREM NoRingIsLost == Spec => []NoLostRing
<1>1. IInv => NoLostRing
  BY DEF IInv, BellOK
<1> QED
  BY <1>1, Invariance, PTL

\* The flags of cancellation do not pile up: a flag is of a job still to be
\* answered, or of one that the retirement of its bundle took from the queue.
THEOREM FlagsAreOfJobs == Spec => []FlagsHaveAJob
<1>1. IInv => FlagsHaveAJob
  BY DEF IInv, SeenOK
<1> QED
  BY <1>1, Invariance, PTL

\* A closed vault owes an answer to nobody but those who invoked a job themselves.
THEOREM ClosedOwesNothing == Spec => []ClosedIsAnswered
<1>1. ASSUME IInv, pc[Closer] = "closed", NEW id \in 1..Issued
      PROVE  answers[id] = 1 \/ \E c \in Callers : id \in batch[c]
  <2>1. id \in Jobs /\ id \in Ids
    BY <1>1, HandFacts DEF Jobs
  <2>2. queue = {} /\ opening = "over" /\ \A w \in Workers : batch[w] = {}
    BY <1>1 DEF IInv, ClosingOK, StepsOK, Holding, Hands
  <2>3. batch[Closer] = {}
    BY <1>1 DEF IInv, StepsOK, Holding, Hands
  <2>4. IsOpening(id) => id \in Answered
    BY <1>1, <2>1, <2>2 DEF IInv, OpeningOK
  <2>5. id \in Answered \/ \E c \in Callers : id \in batch[c]
    BY <1>1, <2>1, <2>2, <2>3, <2>4 DEF IInv, Somewhere, Hands
  <2>6. id \in Answered => answers[id] = 1
    BY <1>1, <2>1 DEF IInv, TypeOK, OnePlace, Answered
  <2> QED
    BY <2>5, <2>6
<1>2. IInv => ClosedIsAnswered
  BY <1>1 DEF ClosedIsAnswered
<1> QED
  BY <1>2, Invariance, PTL

\* Whoever has the permit to switch a bundle off finds nobody in its code,
\* where one thread switches: with two, the permit of one opens the door that
\* the other has marked.
THEOREM PermitMeansAlone == OneSwitcher => (Spec => []NobodyInside)
<1> SUFFICES ASSUME OneSwitcher PROVE Spec => []NobodyInside
  OBVIOUS
<1>1. Init => PermitOK
  BY DEF Init, PermitOK
<1>2. IInv /\ PermitOK /\ [Next]_vars => PermitOK'
  BY PermitOKStep
<1>3. ASSUME IInv, PermitOK PROVE NobodyInside
  <2>1. ASSUME NEW g \in Switchers, spc[g] \in {"held", "stopping", "release"},
               NEW h \in Hands, pc[h] = "inside"
        PROVE  Owner(h) # target[g]
    <3>1. Job(h) \in within
      BY <1>3, <2>1 DEF IInv, WithinOK
    <3> QED
      BY <1>3, <2>1, <3>1 DEF PermitOK, Owner
  <2> QED
    BY <2>1 DEF NobodyInside
<1>4. IInv /\ PermitOK => NobodyInside
  BY <1>3
<1> QED
  BY <1>1, <1>2, <1>4, Invariance, PTL DEF Spec
=============================================================================

