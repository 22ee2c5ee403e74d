-------------------------- MODULE WriteTurnProofs --------------------------
(***************************************************************************)
(* What WriteTurn says for a small instance, proved for every one.  IInv is *)
(* the inductive invariant; each of its conjuncts has a lemma that says no  *)
(* step breaks it, with one case per action.  The argument that matters is  *)
(* that of CycleStep and HopefulState: the check and the registration of a  *)
(* wait for an instance are one section of the graph, the graph never lies  *)
(* about the instances, and a wait that cannot refuse is never inside one.  *)
(***************************************************************************)
EXTENDS WriteTurn, TLAPS

\* Every step keeps the types, and what each step of a thread is about.
LEMMA TypeStep ==
    ASSUME TypeOK, WantOK, [Next]_vars
    PROVE  TypeOK' /\ WantOK'
<1> USE AbsentAssumption, TurnsAssumption DEF TypeOK, WantOK, Modes, Steps
<1>1. ASSUME NEW t \in Threads, NEW i \in Instances, TakeFreeInstance(t, i) PROVE TypeOK' /\ WantOK'
  BY <1>1 DEF TakeFreeInstance, MayAsk, Asks, Go, outside, turns, graph
<1>2. ASSUME NEW t \in Threads, NEW i \in Instances, FindInstanceTaken(t, i) PROVE TypeOK' /\ WantOK'
  BY <1>2 DEF FindInstanceTaken, MayAsk, Asks, Go, outside, locks, turns, graph
<1>3. ASSUME NEW t \in Threads, RefuseInstance(t) PROVE TypeOK' /\ WantOK'
  BY <1>3 DEF RefuseInstance, Back, Go, locks, turns, graph, outside
<1>4. ASSUME NEW t \in Threads, AwaitInstance(t) PROVE TypeOK' /\ WantOK'
  BY <1>4 DEF AwaitInstance, Go, locks, turns, outside
<1>5. ASSUME NEW t \in Threads, LockInstance(t) PROVE TypeOK' /\ WantOK'
  BY <1>5 DEF LockInstance, Go, turns, graph, outside
<1>6. ASSUME NEW t \in Threads, FindPoison(t) PROVE TypeOK' /\ WantOK'
  BY <1>6 DEF FindPoison, Go, locks, turns, graph, outside
<1>7. ASSUME NEW t \in Threads, EndInstanceWait(t) PROVE TypeOK' /\ WantOK'
  BY <1>7 DEF EndInstanceWait, Go, locks, turns, outside
<1>8. ASSUME NEW t \in Threads, RefuseSpoilt(t) PROVE TypeOK' /\ WantOK'
  BY <1>8 DEF RefuseSpoilt, Back, Go, locks, turns, outside
<1>9. ASSUME NEW t \in Threads, HoldInstance(t) PROVE TypeOK' /\ WantOK'
  BY <1>9 DEF HoldInstance, Back, Go, locks, turns, outside
<1>10. ASSUME NEW t \in Threads, NEW i \in Instances, UnholdInstance(t, i) PROVE TypeOK' /\ WantOK'
  BY <1>10 DEF UnholdInstance, Go, locks, turns, outside
<1>11. ASSUME NEW t \in Threads, UnlockInstance(t) PROVE TypeOK' /\ WantOK'
  BY <1>11 DEF UnlockInstance, Back, Go, turns, graph, outside
<1>12. ASSUME NEW t \in Threads, NEW v \in Turns, WriteTurn(t, v) PROVE TypeOK' /\ WantOK'
  BY <1>12 DEF WriteTurn, MayAskTurn, MayAsk, Asks, Go, outside, locks, turns, graph
<1>13. ASSUME NEW t \in Threads, NEW v \in Turns, Write(t, v) PROVE TypeOK' /\ WantOK'
  BY <1>13 DEF Write, MayAskTurn, MayAsk, Asks, Go, outside, locks, turns, graph
<1>14. ASSUME NEW t \in Threads, JobTurn(t) PROVE TypeOK' /\ WantOK'
  BY <1>14 DEF JobTurn, MayAskTurn, MayAsk, Asks, Go, outside, locks, turns, graph
<1>15. ASSUME NEW t \in Threads, TakeTurn(t) PROVE TypeOK' /\ WantOK'
  BY <1>15 DEF TakeTurn, Back, Go, locks, outside
<1>16. ASSUME NEW t \in Threads, ParkPlainly(t) PROVE TypeOK' /\ WantOK'
  BY <1>16 DEF ParkPlainly, Go, locks, turns, graph, outside
<1>17. ASSUME NEW t \in Threads, StopWaiting(t) PROVE TypeOK' /\ WantOK'
  BY <1>17 DEF StopWaiting, Back, Go, locks, turns, outside
<1>18. ASSUME NEW t \in Threads, AwaitTurn(t) PROVE TypeOK' /\ WantOK'
  BY <1>18 DEF AwaitTurn, Go, locks, outside
<1>19. ASSUME NEW t \in Threads, RefuseTurn(t) PROVE TypeOK' /\ WantOK'
  BY <1>19 DEF RefuseTurn, Back, Go, locks, outside
<1>20. ASSUME NEW t \in Threads, ParkYielding(t) PROVE TypeOK' /\ WantOK'
  BY <1>20 DEF ParkYielding, Go, locks, graph, outside
<1>21. ASSUME NEW t \in Threads, Tick(t) PROVE TypeOK' /\ WantOK'
  BY <1>21 DEF Tick, Go, locks, turns, graph, outside
<1>22. ASSUME NEW t \in Threads, NEW v \in Turns, DropInnerTurn(t, v) PROVE TypeOK' /\ WantOK'
  BY <1>22 DEF DropInnerTurn, locks, graph, control, outside
<1>23. ASSUME NEW t \in Threads, NEW v \in Turns, DropTurn(t, v) PROVE TypeOK' /\ WantOK'
  BY <1>23 DEF DropTurn, Go, locks, graph, outside
<1>24. ASSUME NEW t \in Threads, NEW u \in Threads, NotifyOne(t, u) PROVE TypeOK' /\ WantOK'
  BY <1>24 DEF NotifyOne, locks, turns, graph, outside
<1>25. ASSUME NEW t \in Threads, NotifyNobody(t) PROVE TypeOK' /\ WantOK'
  BY <1>25 DEF NotifyNobody, Back, Go, locks, turns, graph, outside
<1>26. ASSUME NEW t \in Threads, Cancel(t) PROVE TypeOK' /\ WantOK'
  BY <1>26 DEF Cancel, locks, turns, graph, control
<1>27. ASSUME NEW t \in Threads, Panic(t) PROVE TypeOK' /\ WantOK'
  BY <1>27 DEF Panic, locks, turns, graph, control
<1>28. ASSUME NEW t \in Threads, Caught(t) PROVE TypeOK' /\ WantOK'
  BY <1>28 DEF Caught, locks, turns, graph, control
<1>30. ASSUME NEW t \in Threads, Forget(t) PROVE TypeOK' /\ WantOK'
  BY <1>30 DEF Forget, locks, turns, graph, control
<1>29. CASE UNCHANGED vars
  BY <1>29 DEF vars, control, locks, turns, graph, outside
<1> QED
  BY <1>1, <1>2, <1>3, <1>4, <1>5, <1>6, <1>7, <1>8, <1>9, <1>10, <1>11, <1>12, <1>13, <1>14, <1>15, <1>16, <1>17, <1>18, <1>19, <1>20, <1>21, <1>22, <1>23, <1>24, <1>25, <1>26, <1>27, <1>28, <1>29, <1>30 DEF Next, Step, GiveBack, Ask

\* Every step keeps the mutexes and the graph in agreement about the holders.
LEMMA HoldStep ==
    ASSUME TypeOK, WantOK, HoldOK, [Next]_vars
    PROVE  HoldOK'
<1> USE AbsentAssumption, TurnsAssumption DEF TypeOK, WantOK, HoldOK, Steps
<1>1. ASSUME NEW t \in Threads, NEW i \in Instances, TakeFreeInstance(t, i) PROVE HoldOK'
  <2> USE DEF TakeFreeInstance, MayAsk, Asks, Go, outside, turns, graph
  <2>1. held[i] = Nobody
    BY <1>1 DEF HoldOK
  <2>2. ASSUME NEW j \in Instances
        PROVE  (held'[j] # Nobody => mutex'[j] = held'[j]) /\ (j \in poisoned' => mutex'[j] = Nobody)
    BY <1>1, <2>1, <2>2 DEF HoldOK
  <2>3. ASSUME NEW j \in Instances, NEW u \in Threads, mutex'[j] = u
        PROVE  held'[j] = u \/ (pc'[u] \in {"got", "locked", "unheld"} /\ want'[u] = j)
    BY <1>1, <2>3 DEF HoldOK
  <2>4. ASSUME NEW u \in Threads, pc'[u] \in {"got", "locked", "unheld"}
        PROVE  mutex'[want'[u]] = u /\ held'[want'[u]] = Nobody
    BY <1>1, <2>1, <2>4 DEF HoldOK, WantOK
  <2> QED BY <2>2, <2>3, <2>4 DEF HoldOK
<1>2. ASSUME NEW t \in Threads, NEW i \in Instances, FindInstanceTaken(t, i) PROVE HoldOK'
  BY <1>2 DEF FindInstanceTaken, MayAsk, Asks, Go, outside, locks, turns, graph
<1>3. ASSUME NEW t \in Threads, RefuseInstance(t) PROVE HoldOK'
  BY <1>3 DEF RefuseInstance, Back, Go, locks, turns, graph, outside
<1>4. ASSUME NEW t \in Threads, AwaitInstance(t) PROVE HoldOK'
  BY <1>4 DEF AwaitInstance, Go, locks, turns, outside
<1>5. ASSUME NEW t \in Threads, LockInstance(t) PROVE HoldOK'
  BY <1>5 DEF LockInstance, Go, turns, graph, outside
<1>6. ASSUME NEW t \in Threads, FindPoison(t) PROVE HoldOK'
  BY <1>6 DEF FindPoison, Go, locks, turns, graph, outside
<1>7. ASSUME NEW t \in Threads, EndInstanceWait(t) PROVE HoldOK'
  BY <1>7 DEF EndInstanceWait, Go, locks, turns, outside
<1>8. ASSUME NEW t \in Threads, RefuseSpoilt(t) PROVE HoldOK'
  BY <1>8 DEF RefuseSpoilt, Back, Go, locks, turns, outside
<1>9. ASSUME NEW t \in Threads, HoldInstance(t) PROVE HoldOK'
  BY <1>9 DEF HoldInstance, Back, Go, locks, turns, outside
<1>10. ASSUME NEW t \in Threads, NEW i \in Instances, UnholdInstance(t, i) PROVE HoldOK'
  BY <1>10 DEF UnholdInstance, Go, locks, turns, outside
<1>11. ASSUME NEW t \in Threads, UnlockInstance(t) PROVE HoldOK'
  BY <1>11 DEF UnlockInstance, Back, Go, turns, graph, outside
<1>12. ASSUME NEW t \in Threads, NEW v \in Turns, WriteTurn(t, v) PROVE HoldOK'
  BY <1>12 DEF WriteTurn, MayAskTurn, MayAsk, Asks, Go, outside, locks, turns, graph
<1>13. ASSUME NEW t \in Threads, NEW v \in Turns, Write(t, v) PROVE HoldOK'
  BY <1>13 DEF Write, MayAskTurn, MayAsk, Asks, Go, outside, locks, turns, graph
<1>14. ASSUME NEW t \in Threads, JobTurn(t) PROVE HoldOK'
  BY <1>14 DEF JobTurn, MayAskTurn, MayAsk, Asks, Go, outside, locks, turns, graph
<1>15. ASSUME NEW t \in Threads, TakeTurn(t) PROVE HoldOK'
  BY <1>15 DEF TakeTurn, Back, Go, locks, outside
<1>16. ASSUME NEW t \in Threads, ParkPlainly(t) PROVE HoldOK'
  BY <1>16 DEF ParkPlainly, Go, locks, turns, graph, outside
<1>17. ASSUME NEW t \in Threads, StopWaiting(t) PROVE HoldOK'
  BY <1>17 DEF StopWaiting, Back, Go, locks, turns, outside
<1>18. ASSUME NEW t \in Threads, AwaitTurn(t) PROVE HoldOK'
  BY <1>18 DEF AwaitTurn, Go, locks, outside
<1>19. ASSUME NEW t \in Threads, RefuseTurn(t) PROVE HoldOK'
  BY <1>19 DEF RefuseTurn, Back, Go, locks, outside
<1>20. ASSUME NEW t \in Threads, ParkYielding(t) PROVE HoldOK'
  BY <1>20 DEF ParkYielding, Go, locks, graph, outside
<1>21. ASSUME NEW t \in Threads, Tick(t) PROVE HoldOK'
  BY <1>21 DEF Tick, Go, locks, turns, graph, outside
<1>22. ASSUME NEW t \in Threads, NEW v \in Turns, DropInnerTurn(t, v) PROVE HoldOK'
  BY <1>22 DEF DropInnerTurn, locks, graph, control, outside
<1>23. ASSUME NEW t \in Threads, NEW v \in Turns, DropTurn(t, v) PROVE HoldOK'
  BY <1>23 DEF DropTurn, Go, locks, graph, outside
<1>24. ASSUME NEW t \in Threads, NEW u \in Threads, NotifyOne(t, u) PROVE HoldOK'
  BY SMTT(30), <1>24 DEF NotifyOne, locks, turns, graph, outside
<1>25. ASSUME NEW t \in Threads, NotifyNobody(t) PROVE HoldOK'
  BY <1>25 DEF NotifyNobody, Back, Go, locks, turns, graph, outside
<1>26. ASSUME NEW t \in Threads, Cancel(t) PROVE HoldOK'
  BY <1>26 DEF Cancel, locks, turns, graph, control
<1>27. ASSUME NEW t \in Threads, Panic(t) PROVE HoldOK'
  BY <1>27 DEF Panic, locks, turns, graph, control
<1>28. ASSUME NEW t \in Threads, Caught(t) PROVE HoldOK'
  BY <1>28 DEF Caught, locks, turns, graph, control
<1>30. ASSUME NEW t \in Threads, Forget(t) PROVE HoldOK'
  BY <1>30 DEF Forget, locks, turns, graph, control
<1>29. CASE UNCHANGED vars
  BY <1>29 DEF vars, control, locks, turns, graph, outside
<1> QED
  BY <1>1, <1>2, <1>3, <1>4, <1>5, <1>6, <1>7, <1>8, <1>9, <1>10, <1>11, <1>12, <1>13, <1>14, <1>15, <1>16, <1>17, <1>18, <1>19, <1>20, <1>21, <1>22, <1>23, <1>24, <1>25, <1>26, <1>27, <1>28, <1>29, <1>30 DEF Next, Step, GiveBack, Ask

\* Every step keeps the waits of the graph in agreement with the threads.
LEMMA WaitStep ==
    ASSUME TypeOK, WantOK, WaitOK, [Next]_vars
    PROVE  WaitOK'
<1> USE AbsentAssumption, TurnsAssumption DEF TypeOK, WantOK, WaitOK, Steps
<1>1. ASSUME NEW t \in Threads, NEW i \in Instances, TakeFreeInstance(t, i) PROVE WaitOK'
  BY <1>1 DEF TakeFreeInstance, MayAsk, Asks, Go, outside, turns, graph
<1>2. ASSUME NEW t \in Threads, NEW i \in Instances, FindInstanceTaken(t, i) PROVE WaitOK'
  BY <1>2 DEF FindInstanceTaken, MayAsk, Asks, Go, outside, locks, turns, graph
<1>3. ASSUME NEW t \in Threads, RefuseInstance(t) PROVE WaitOK'
  BY <1>3 DEF RefuseInstance, Back, Go, locks, turns, graph, outside
<1>4. ASSUME NEW t \in Threads, AwaitInstance(t) PROVE WaitOK'
  BY <1>4 DEF AwaitInstance, Go, locks, turns, outside
<1>5. ASSUME NEW t \in Threads, LockInstance(t) PROVE WaitOK'
  BY <1>5 DEF LockInstance, Go, turns, graph, outside
<1>6. ASSUME NEW t \in Threads, FindPoison(t) PROVE WaitOK'
  BY <1>6 DEF FindPoison, Go, locks, turns, graph, outside
<1>7. ASSUME NEW t \in Threads, EndInstanceWait(t) PROVE WaitOK'
  BY <1>7 DEF EndInstanceWait, Go, locks, turns, outside
<1>8. ASSUME NEW t \in Threads, RefuseSpoilt(t) PROVE WaitOK'
  BY <1>8 DEF RefuseSpoilt, Back, Go, locks, turns, outside
<1>9. ASSUME NEW t \in Threads, HoldInstance(t) PROVE WaitOK'
  BY <1>9 DEF HoldInstance, Back, Go, locks, turns, outside
<1>10. ASSUME NEW t \in Threads, NEW i \in Instances, UnholdInstance(t, i) PROVE WaitOK'
  BY <1>10 DEF UnholdInstance, Go, locks, turns, outside
<1>11. ASSUME NEW t \in Threads, UnlockInstance(t) PROVE WaitOK'
  BY <1>11 DEF UnlockInstance, Back, Go, turns, graph, outside
<1>12. ASSUME NEW t \in Threads, NEW v \in Turns, WriteTurn(t, v) PROVE WaitOK'
  BY <1>12 DEF WriteTurn, MayAskTurn, MayAsk, Asks, Go, outside, locks, turns, graph
<1>13. ASSUME NEW t \in Threads, NEW v \in Turns, Write(t, v) PROVE WaitOK'
  BY <1>13 DEF Write, MayAskTurn, MayAsk, Asks, Go, outside, locks, turns, graph
<1>14. ASSUME NEW t \in Threads, JobTurn(t) PROVE WaitOK'
  BY <1>14 DEF JobTurn, MayAskTurn, MayAsk, Asks, Go, outside, locks, turns, graph
<1>15. ASSUME NEW t \in Threads, TakeTurn(t) PROVE WaitOK'
  BY <1>15 DEF TakeTurn, Back, Go, locks, outside
<1>16. ASSUME NEW t \in Threads, ParkPlainly(t) PROVE WaitOK'
  BY <1>16 DEF ParkPlainly, Go, locks, turns, graph, outside
<1>17. ASSUME NEW t \in Threads, StopWaiting(t) PROVE WaitOK'
  BY <1>17 DEF StopWaiting, Back, Go, locks, turns, outside
<1>18. ASSUME NEW t \in Threads, AwaitTurn(t) PROVE WaitOK'
  BY <1>18 DEF AwaitTurn, Go, locks, outside
<1>19. ASSUME NEW t \in Threads, RefuseTurn(t) PROVE WaitOK'
  BY <1>19 DEF RefuseTurn, Back, Go, locks, outside
<1>20. ASSUME NEW t \in Threads, ParkYielding(t) PROVE WaitOK'
  BY <1>20 DEF ParkYielding, Go, locks, graph, outside
<1>21. ASSUME NEW t \in Threads, Tick(t) PROVE WaitOK'
  BY <1>21 DEF Tick, Go, locks, turns, graph, outside
<1>22. ASSUME NEW t \in Threads, NEW v \in Turns, DropInnerTurn(t, v) PROVE WaitOK'
  BY <1>22 DEF DropInnerTurn, locks, graph, control, outside
<1>23. ASSUME NEW t \in Threads, NEW v \in Turns, DropTurn(t, v) PROVE WaitOK'
  BY <1>23 DEF DropTurn, Go, locks, graph, outside
<1>24. ASSUME NEW t \in Threads, NEW u \in Threads, NotifyOne(t, u) PROVE WaitOK'
  BY <1>24 DEF NotifyOne, locks, turns, graph, outside
<1>25. ASSUME NEW t \in Threads, NotifyNobody(t) PROVE WaitOK'
  BY <1>25 DEF NotifyNobody, Back, Go, locks, turns, graph, outside
<1>26. ASSUME NEW t \in Threads, Cancel(t) PROVE WaitOK'
  BY <1>26 DEF Cancel, locks, turns, graph, control
<1>27. ASSUME NEW t \in Threads, Panic(t) PROVE WaitOK'
  BY <1>27 DEF Panic, locks, turns, graph, control
<1>28. ASSUME NEW t \in Threads, Caught(t) PROVE WaitOK'
  BY <1>28 DEF Caught, locks, turns, graph, control
<1>30. ASSUME NEW t \in Threads, Forget(t) PROVE WaitOK'
  BY <1>30 DEF Forget, locks, turns, graph, control
<1>29. CASE UNCHANGED vars
  BY <1>29 DEF vars, control, locks, turns, graph, outside
<1> QED
  BY <1>1, <1>2, <1>3, <1>4, <1>5, <1>6, <1>7, <1>8, <1>9, <1>10, <1>11, <1>12, <1>13, <1>14, <1>15, <1>16, <1>17, <1>18, <1>19, <1>20, <1>21, <1>22, <1>23, <1>24, <1>25, <1>26, <1>27, <1>28, <1>29, <1>30 DEF Next, Step, GiveBack, Ask

\* Every step keeps the count of a turn equal to the guards of its owner.
LEMMA TurnStep ==
    ASSUME TypeOK, WantOK, OneWriter, [Next]_vars
    PROVE  OneWriter'
<1> USE AbsentAssumption, TurnsAssumption DEF TypeOK, WantOK, OneWriter
<1>1. ASSUME NEW t \in Threads, NEW i \in Instances, TakeFreeInstance(t, i) PROVE OneWriter'
  BY <1>1 DEF TakeFreeInstance, MayAsk, Asks, Go, outside, turns, graph
<1>2. ASSUME NEW t \in Threads, NEW i \in Instances, FindInstanceTaken(t, i) PROVE OneWriter'
  BY <1>2 DEF FindInstanceTaken, MayAsk, Asks, Go, outside, locks, turns, graph
<1>3. ASSUME NEW t \in Threads, RefuseInstance(t) PROVE OneWriter'
  BY <1>3 DEF RefuseInstance, Back, Go, locks, turns, graph, outside
<1>4. ASSUME NEW t \in Threads, AwaitInstance(t) PROVE OneWriter'
  BY <1>4 DEF AwaitInstance, Go, locks, turns, outside
<1>5. ASSUME NEW t \in Threads, LockInstance(t) PROVE OneWriter'
  BY <1>5 DEF LockInstance, Go, turns, graph, outside
<1>6. ASSUME NEW t \in Threads, FindPoison(t) PROVE OneWriter'
  BY <1>6 DEF FindPoison, Go, locks, turns, graph, outside
<1>7. ASSUME NEW t \in Threads, EndInstanceWait(t) PROVE OneWriter'
  BY <1>7 DEF EndInstanceWait, Go, locks, turns, outside
<1>8. ASSUME NEW t \in Threads, RefuseSpoilt(t) PROVE OneWriter'
  BY <1>8 DEF RefuseSpoilt, Back, Go, locks, turns, outside
<1>9. ASSUME NEW t \in Threads, HoldInstance(t) PROVE OneWriter'
  BY <1>9 DEF HoldInstance, Back, Go, locks, turns, outside
<1>10. ASSUME NEW t \in Threads, NEW i \in Instances, UnholdInstance(t, i) PROVE OneWriter'
  BY <1>10 DEF UnholdInstance, Go, locks, turns, outside
<1>11. ASSUME NEW t \in Threads, UnlockInstance(t) PROVE OneWriter'
  BY <1>11 DEF UnlockInstance, Back, Go, turns, graph, outside
<1>12. ASSUME NEW t \in Threads, NEW v \in Turns, WriteTurn(t, v) PROVE OneWriter'
  BY <1>12 DEF WriteTurn, MayAskTurn, MayAsk, Asks, Go, outside, locks, turns, graph
<1>13. ASSUME NEW t \in Threads, NEW v \in Turns, Write(t, v) PROVE OneWriter'
  BY <1>13 DEF Write, MayAskTurn, MayAsk, Asks, Go, outside, locks, turns, graph
<1>14. ASSUME NEW t \in Threads, JobTurn(t) PROVE OneWriter'
  BY <1>14 DEF JobTurn, MayAskTurn, MayAsk, Asks, Go, outside, locks, turns, graph
<1>15. ASSUME NEW t \in Threads, TakeTurn(t) PROVE OneWriter'
  BY <1>15 DEF TakeTurn, Back, Go, locks, outside
<1>16. ASSUME NEW t \in Threads, ParkPlainly(t) PROVE OneWriter'
  BY <1>16 DEF ParkPlainly, Go, locks, turns, graph, outside
<1>17. ASSUME NEW t \in Threads, StopWaiting(t) PROVE OneWriter'
  BY <1>17 DEF StopWaiting, Back, Go, locks, turns, outside
<1>18. ASSUME NEW t \in Threads, AwaitTurn(t) PROVE OneWriter'
  BY <1>18 DEF AwaitTurn, Go, locks, outside
<1>19. ASSUME NEW t \in Threads, RefuseTurn(t) PROVE OneWriter'
  BY <1>19 DEF RefuseTurn, Back, Go, locks, outside
<1>20. ASSUME NEW t \in Threads, ParkYielding(t) PROVE OneWriter'
  BY <1>20 DEF ParkYielding, Go, locks, graph, outside
<1>21. ASSUME NEW t \in Threads, Tick(t) PROVE OneWriter'
  BY <1>21 DEF Tick, Go, locks, turns, graph, outside
<1>22. ASSUME NEW t \in Threads, NEW v \in Turns, DropInnerTurn(t, v) PROVE OneWriter'
  BY <1>22 DEF DropInnerTurn, locks, graph, control, outside
<1>23. ASSUME NEW t \in Threads, NEW v \in Turns, DropTurn(t, v) PROVE OneWriter'
  BY <1>23 DEF DropTurn, Go, locks, graph, outside
<1>24. ASSUME NEW t \in Threads, NEW u \in Threads, NotifyOne(t, u) PROVE OneWriter'
  BY <1>24 DEF NotifyOne, locks, turns, graph, outside
<1>25. ASSUME NEW t \in Threads, NotifyNobody(t) PROVE OneWriter'
  BY <1>25 DEF NotifyNobody, Back, Go, locks, turns, graph, outside
<1>26. ASSUME NEW t \in Threads, Cancel(t) PROVE OneWriter'
  BY <1>26 DEF Cancel, locks, turns, graph, control
<1>27. ASSUME NEW t \in Threads, Panic(t) PROVE OneWriter'
  BY <1>27 DEF Panic, locks, turns, graph, control
<1>28. ASSUME NEW t \in Threads, Caught(t) PROVE OneWriter'
  BY <1>28 DEF Caught, locks, turns, graph, control
<1>30. ASSUME NEW t \in Threads, Forget(t) PROVE OneWriter'
  BY <1>30 DEF Forget, locks, turns, graph, control
<1>29. CASE UNCHANGED vars
  BY <1>29 DEF vars, control, locks, turns, graph, outside
<1> QED
  BY <1>1, <1>2, <1>3, <1>4, <1>5, <1>6, <1>7, <1>8, <1>9, <1>10, <1>11, <1>12, <1>13, <1>14, <1>15, <1>16, <1>17, <1>18, <1>19, <1>20, <1>21, <1>22, <1>23, <1>24, <1>25, <1>26, <1>27, <1>28, <1>29, <1>30 DEF Next, Step, GiveBack, Ask

\* No step makes a thread wait for a turn of its own.
LEMMA ParkStep ==
    ASSUME TypeOK, WantOK, OneWriter, ParkOK, [Next]_vars
    PROVE  ParkOK'
<1> USE AbsentAssumption, TurnsAssumption DEF TypeOK, WantOK, OneWriter, ParkOK
<1>1. ASSUME NEW t \in Threads, NEW i \in Instances, TakeFreeInstance(t, i) PROVE ParkOK'
  BY <1>1 DEF TakeFreeInstance, MayAsk, Asks, Go, outside, turns, graph
<1>2. ASSUME NEW t \in Threads, NEW i \in Instances, FindInstanceTaken(t, i) PROVE ParkOK'
  BY <1>2 DEF FindInstanceTaken, MayAsk, Asks, Go, outside, locks, turns, graph
<1>3. ASSUME NEW t \in Threads, RefuseInstance(t) PROVE ParkOK'
  BY <1>3 DEF RefuseInstance, Back, Go, locks, turns, graph, outside
<1>4. ASSUME NEW t \in Threads, AwaitInstance(t) PROVE ParkOK'
  BY <1>4 DEF AwaitInstance, Go, locks, turns, outside
<1>5. ASSUME NEW t \in Threads, LockInstance(t) PROVE ParkOK'
  BY <1>5 DEF LockInstance, Go, turns, graph, outside
<1>6. ASSUME NEW t \in Threads, FindPoison(t) PROVE ParkOK'
  BY <1>6 DEF FindPoison, Go, locks, turns, graph, outside
<1>7. ASSUME NEW t \in Threads, EndInstanceWait(t) PROVE ParkOK'
  BY <1>7 DEF EndInstanceWait, Go, locks, turns, outside
<1>8. ASSUME NEW t \in Threads, RefuseSpoilt(t) PROVE ParkOK'
  BY <1>8 DEF RefuseSpoilt, Back, Go, locks, turns, outside
<1>9. ASSUME NEW t \in Threads, HoldInstance(t) PROVE ParkOK'
  BY <1>9 DEF HoldInstance, Back, Go, locks, turns, outside
<1>10. ASSUME NEW t \in Threads, NEW i \in Instances, UnholdInstance(t, i) PROVE ParkOK'
  BY <1>10 DEF UnholdInstance, Go, locks, turns, outside
<1>11. ASSUME NEW t \in Threads, UnlockInstance(t) PROVE ParkOK'
  BY <1>11 DEF UnlockInstance, Back, Go, turns, graph, outside
<1>12. ASSUME NEW t \in Threads, NEW v \in Turns, WriteTurn(t, v) PROVE ParkOK'
  BY <1>12 DEF WriteTurn, MayAskTurn, MayAsk, Asks, Go, outside, locks, turns, graph
<1>13. ASSUME NEW t \in Threads, NEW v \in Turns, Write(t, v) PROVE ParkOK'
  BY <1>13 DEF Write, MayAskTurn, MayAsk, Asks, Go, outside, locks, turns, graph
<1>14. ASSUME NEW t \in Threads, JobTurn(t) PROVE ParkOK'
  BY <1>14 DEF JobTurn, MayAskTurn, MayAsk, Asks, Go, outside, locks, turns, graph
<1>15. ASSUME NEW t \in Threads, TakeTurn(t) PROVE ParkOK'
  BY <1>15 DEF TakeTurn, Back, Go, locks, outside
<1>16. ASSUME NEW t \in Threads, ParkPlainly(t) PROVE ParkOK'
  BY <1>16 DEF ParkPlainly, Go, locks, turns, graph, outside
<1>17. ASSUME NEW t \in Threads, StopWaiting(t) PROVE ParkOK'
  BY <1>17 DEF StopWaiting, Back, Go, locks, turns, outside
<1>18. ASSUME NEW t \in Threads, AwaitTurn(t) PROVE ParkOK'
  BY <1>18 DEF AwaitTurn, Go, locks, outside
<1>19. ASSUME NEW t \in Threads, RefuseTurn(t) PROVE ParkOK'
  BY <1>19 DEF RefuseTurn, Back, Go, locks, outside
<1>20. ASSUME NEW t \in Threads, ParkYielding(t) PROVE ParkOK'
  BY <1>20 DEF ParkYielding, Go, locks, graph, outside
<1>21. ASSUME NEW t \in Threads, Tick(t) PROVE ParkOK'
  BY <1>21 DEF Tick, Go, locks, turns, graph, outside
<1>22. ASSUME NEW t \in Threads, NEW v \in Turns, DropInnerTurn(t, v) PROVE ParkOK'
  BY <1>22 DEF DropInnerTurn, locks, graph, control, outside
<1>23. ASSUME NEW t \in Threads, NEW v \in Turns, DropTurn(t, v) PROVE ParkOK'
  BY <1>23 DEF DropTurn, Go, locks, graph, outside
<1>24. ASSUME NEW t \in Threads, NEW u \in Threads, NotifyOne(t, u) PROVE ParkOK'
  BY <1>24 DEF NotifyOne, locks, turns, graph, outside
<1>25. ASSUME NEW t \in Threads, NotifyNobody(t) PROVE ParkOK'
  BY <1>25 DEF NotifyNobody, Back, Go, locks, turns, graph, outside
<1>26. ASSUME NEW t \in Threads, Cancel(t) PROVE ParkOK'
  BY <1>26 DEF Cancel, locks, turns, graph, control
<1>27. ASSUME NEW t \in Threads, Panic(t) PROVE ParkOK'
  BY <1>27 DEF Panic, locks, turns, graph, control
<1>28. ASSUME NEW t \in Threads, Caught(t) PROVE ParkOK'
  BY <1>28 DEF Caught, locks, turns, graph, control
<1>30. ASSUME NEW t \in Threads, Forget(t) PROVE ParkOK'
  BY <1>30 DEF Forget, locks, turns, graph, control
<1>29. CASE UNCHANGED vars
  BY <1>29 DEF vars, control, locks, turns, graph, outside
<1> QED
  BY <1>1, <1>2, <1>3, <1>4, <1>5, <1>6, <1>7, <1>8, <1>9, <1>10, <1>11, <1>12, <1>13, <1>14, <1>15, <1>16, <1>17, <1>18, <1>19, <1>20, <1>21, <1>22, <1>23, <1>24, <1>25, <1>26, <1>27, <1>28, <1>29, <1>30 DEF Next, Step, GiveBack, Ask

\* No step puts a wait that cannot refuse inside an instance.
LEMMA PlainStep ==
    ASSUME TypeOK, WantOK, HoldOK, OneWriter, ParkOK, PlainOK, [Next]_vars
    PROVE  PlainOK'
<1> USE AbsentAssumption, TurnsAssumption DEF TypeOK, WantOK, HoldOK, OneWriter, ParkOK, PlainOK
<1>1. ASSUME NEW t \in Threads, NEW i \in Instances, TakeFreeInstance(t, i) PROVE PlainOK'
  BY <1>1 DEF TakeFreeInstance, MayAsk, Asks, Go, outside, turns, graph
<1>2. ASSUME NEW t \in Threads, NEW i \in Instances, FindInstanceTaken(t, i) PROVE PlainOK'
  BY <1>2 DEF FindInstanceTaken, MayAsk, Asks, Go, outside, locks, turns, graph
<1>3. ASSUME NEW t \in Threads, RefuseInstance(t) PROVE PlainOK'
  BY <1>3 DEF RefuseInstance, Back, Go, locks, turns, graph, outside
<1>4. ASSUME NEW t \in Threads, AwaitInstance(t) PROVE PlainOK'
  BY <1>4 DEF AwaitInstance, Go, locks, turns, outside
<1>5. ASSUME NEW t \in Threads, LockInstance(t) PROVE PlainOK'
  BY <1>5 DEF LockInstance, Go, turns, graph, outside
<1>6. ASSUME NEW t \in Threads, FindPoison(t) PROVE PlainOK'
  BY <1>6 DEF FindPoison, Go, locks, turns, graph, outside
<1>7. ASSUME NEW t \in Threads, EndInstanceWait(t) PROVE PlainOK'
  BY <1>7 DEF EndInstanceWait, Go, locks, turns, outside
<1>8. ASSUME NEW t \in Threads, RefuseSpoilt(t) PROVE PlainOK'
  BY <1>8 DEF RefuseSpoilt, Back, Go, locks, turns, outside
<1>9. ASSUME NEW t \in Threads, HoldInstance(t) PROVE PlainOK'
  BY <1>9 DEF HoldInstance, Back, Go, locks, turns, outside
<1>10. ASSUME NEW t \in Threads, NEW i \in Instances, UnholdInstance(t, i) PROVE PlainOK'
  BY <1>10 DEF UnholdInstance, Go, locks, turns, outside
<1>11. ASSUME NEW t \in Threads, UnlockInstance(t) PROVE PlainOK'
  BY <1>11 DEF UnlockInstance, Back, Go, turns, graph, outside
<1>12. ASSUME NEW t \in Threads, NEW v \in Turns, WriteTurn(t, v) PROVE PlainOK'
  <2>1. owner[v] = t \/ mode'[t] # "plain" \/ \A i \in Instances : held[i] # t
    BY <1>12 DEF WriteTurn, MayAskTurn, MayAsk, Asks, Go, outside, locks, turns, graph, HoldsInstance
  <2>2. owner[v] = t \/ mode'[t] # "plain" \/ \A i \in Instances : mutex[i] # t
    BY <1>12, <2>1 DEF WriteTurn, MayAskTurn, MayAsk, Asks, Go, outside, locks, turns, graph, HoldOK
  <2> SUFFICES ASSUME NEW u \in Threads, pc'[u] \in {"look", "parked"}, mode'[u] = "plain"
               PROVE  owner'[want'[u]] = u \/ \A i \in Instances : mutex'[i] # u
    BY DEF PlainOK
  <2>3. CASE u = t
    BY <1>12, <2>2, <2>3 DEF WriteTurn, MayAskTurn, MayAsk, Asks, Go, outside, locks, turns, graph
  <2>4. CASE u # t
    BY <1>12, <2>4 DEF WriteTurn, MayAskTurn, MayAsk, Asks, Go, outside, locks, turns, graph, PlainOK
  <2> QED BY <2>3, <2>4
<1>13. ASSUME NEW t \in Threads, NEW v \in Turns, Write(t, v) PROVE PlainOK'
  <2>1. owner[v] = t \/ mode'[t] # "plain" \/ \A i \in Instances : held[i] # t
    BY <1>13 DEF Write, MayAskTurn, MayAsk, Asks, Go, outside, locks, turns, graph, HoldsInstance
  <2>2. owner[v] = t \/ mode'[t] # "plain" \/ \A i \in Instances : mutex[i] # t
    BY <1>13, <2>1 DEF Write, MayAskTurn, MayAsk, Asks, Go, outside, locks, turns, graph, HoldOK
  <2> SUFFICES ASSUME NEW u \in Threads, pc'[u] \in {"look", "parked"}, mode'[u] = "plain"
               PROVE  owner'[want'[u]] = u \/ \A i \in Instances : mutex'[i] # u
    BY DEF PlainOK
  <2>3. CASE u = t
    BY <1>13, <2>2, <2>3 DEF Write, MayAskTurn, MayAsk, Asks, Go, outside, locks, turns, graph
  <2>4. CASE u # t
    BY <1>13, <2>4 DEF Write, MayAskTurn, MayAsk, Asks, Go, outside, locks, turns, graph, PlainOK
  <2> QED BY <2>3, <2>4
<1>14. ASSUME NEW t \in Threads, JobTurn(t) PROVE PlainOK'
  BY <1>14 DEF JobTurn, MayAskTurn, MayAsk, Asks, Go, outside, locks, turns, graph
<1>15. ASSUME NEW t \in Threads, TakeTurn(t) PROVE PlainOK'
  BY <1>15 DEF TakeTurn, Back, Go, locks, outside
<1>16. ASSUME NEW t \in Threads, ParkPlainly(t) PROVE PlainOK'
  BY <1>16 DEF ParkPlainly, Go, locks, turns, graph, outside
<1>17. ASSUME NEW t \in Threads, StopWaiting(t) PROVE PlainOK'
  BY <1>17 DEF StopWaiting, Back, Go, locks, turns, outside
<1>18. ASSUME NEW t \in Threads, AwaitTurn(t) PROVE PlainOK'
  BY <1>18 DEF AwaitTurn, Go, locks, outside
<1>19. ASSUME NEW t \in Threads, RefuseTurn(t) PROVE PlainOK'
  BY <1>19 DEF RefuseTurn, Back, Go, locks, outside
<1>20. ASSUME NEW t \in Threads, ParkYielding(t) PROVE PlainOK'
  BY <1>20 DEF ParkYielding, Go, locks, graph, outside
<1>21. ASSUME NEW t \in Threads, Tick(t) PROVE PlainOK'
  BY <1>21 DEF Tick, Go, locks, turns, graph, outside
<1>22. ASSUME NEW t \in Threads, NEW v \in Turns, DropInnerTurn(t, v) PROVE PlainOK'
  BY <1>22 DEF DropInnerTurn, locks, graph, control, outside
<1>23. ASSUME NEW t \in Threads, NEW v \in Turns, DropTurn(t, v) PROVE PlainOK'
  BY <1>23 DEF DropTurn, Go, locks, graph, outside
<1>24. ASSUME NEW t \in Threads, NEW u \in Threads, NotifyOne(t, u) PROVE PlainOK'
  BY <1>24 DEF NotifyOne, locks, turns, graph, outside
<1>25. ASSUME NEW t \in Threads, NotifyNobody(t) PROVE PlainOK'
  BY <1>25 DEF NotifyNobody, Back, Go, locks, turns, graph, outside
<1>26. ASSUME NEW t \in Threads, Cancel(t) PROVE PlainOK'
  BY <1>26 DEF Cancel, locks, turns, graph, control
<1>27. ASSUME NEW t \in Threads, Panic(t) PROVE PlainOK'
  BY <1>27 DEF Panic, locks, turns, graph, control
<1>28. ASSUME NEW t \in Threads, Caught(t) PROVE PlainOK'
  BY <1>28 DEF Caught, locks, turns, graph, control
<1>30. ASSUME NEW t \in Threads, Forget(t) PROVE PlainOK'
  BY <1>30 DEF Forget, locks, turns, graph, control
<1>29. CASE UNCHANGED vars
  BY <1>29 DEF vars, control, locks, turns, graph, outside
<1> QED
  BY <1>1, <1>2, <1>3, <1>4, <1>5, <1>6, <1>7, <1>8, <1>9, <1>10, <1>11, <1>12, <1>13, <1>14, <1>15, <1>16, <1>17, <1>18, <1>19, <1>20, <1>21, <1>22, <1>23, <1>24, <1>25, <1>26, <1>27, <1>28, <1>29, <1>30 DEF Next, Step, GiveBack, Ask

\* No step makes a thread wait with an inner turn and without the first.
LEMMA OrderStep ==
    ASSUME TypeOK, WantOK, OneWriter, OrderOK, [Next]_vars
    PROVE  OrderOK'
<1> USE AbsentAssumption, TurnsAssumption DEF TypeOK, WantOK, OneWriter, OrderOK
<1>1. ASSUME NEW t \in Threads, NEW i \in Instances, TakeFreeInstance(t, i) PROVE OrderOK'
  BY <1>1 DEF TakeFreeInstance, MayAsk, Asks, Go, outside, turns, graph
<1>2. ASSUME NEW t \in Threads, NEW i \in Instances, FindInstanceTaken(t, i) PROVE OrderOK'
  BY <1>2 DEF FindInstanceTaken, MayAsk, Asks, Go, outside, locks, turns, graph
<1>3. ASSUME NEW t \in Threads, RefuseInstance(t) PROVE OrderOK'
  BY <1>3 DEF RefuseInstance, Back, Go, locks, turns, graph, outside
<1>4. ASSUME NEW t \in Threads, AwaitInstance(t) PROVE OrderOK'
  BY <1>4 DEF AwaitInstance, Go, locks, turns, outside
<1>5. ASSUME NEW t \in Threads, LockInstance(t) PROVE OrderOK'
  BY <1>5 DEF LockInstance, Go, turns, graph, outside
<1>6. ASSUME NEW t \in Threads, FindPoison(t) PROVE OrderOK'
  BY <1>6 DEF FindPoison, Go, locks, turns, graph, outside
<1>7. ASSUME NEW t \in Threads, EndInstanceWait(t) PROVE OrderOK'
  BY <1>7 DEF EndInstanceWait, Go, locks, turns, outside
<1>8. ASSUME NEW t \in Threads, RefuseSpoilt(t) PROVE OrderOK'
  BY <1>8 DEF RefuseSpoilt, Back, Go, locks, turns, outside
<1>9. ASSUME NEW t \in Threads, HoldInstance(t) PROVE OrderOK'
  BY <1>9 DEF HoldInstance, Back, Go, locks, turns, outside
<1>10. ASSUME NEW t \in Threads, NEW i \in Instances, UnholdInstance(t, i) PROVE OrderOK'
  BY <1>10 DEF UnholdInstance, Go, locks, turns, outside
<1>11. ASSUME NEW t \in Threads, UnlockInstance(t) PROVE OrderOK'
  BY <1>11 DEF UnlockInstance, Back, Go, turns, graph, outside
<1>12. ASSUME NEW t \in Threads, NEW v \in Turns, WriteTurn(t, v) PROVE OrderOK'
  BY <1>12 DEF WriteTurn, MayAskTurn, MayAsk, Asks, Go, outside, locks, turns, graph
<1>13. ASSUME NEW t \in Threads, NEW v \in Turns, Write(t, v) PROVE OrderOK'
  BY <1>13 DEF Write, MayAskTurn, MayAsk, Asks, Go, outside, locks, turns, graph
<1>14. ASSUME NEW t \in Threads, JobTurn(t) PROVE OrderOK'
  BY <1>14 DEF JobTurn, MayAskTurn, MayAsk, Asks, Go, outside, locks, turns, graph
<1>15. ASSUME NEW t \in Threads, TakeTurn(t) PROVE OrderOK'
  BY <1>15 DEF TakeTurn, Back, Go, locks, outside
<1>16. ASSUME NEW t \in Threads, ParkPlainly(t) PROVE OrderOK'
  BY <1>16 DEF ParkPlainly, Go, locks, turns, graph, outside
<1>17. ASSUME NEW t \in Threads, StopWaiting(t) PROVE OrderOK'
  BY <1>17 DEF StopWaiting, Back, Go, locks, turns, outside
<1>18. ASSUME NEW t \in Threads, AwaitTurn(t) PROVE OrderOK'
  BY <1>18 DEF AwaitTurn, Go, locks, outside
<1>19. ASSUME NEW t \in Threads, RefuseTurn(t) PROVE OrderOK'
  BY <1>19 DEF RefuseTurn, Back, Go, locks, outside
<1>20. ASSUME NEW t \in Threads, ParkYielding(t) PROVE OrderOK'
  BY <1>20 DEF ParkYielding, Go, locks, graph, outside
<1>21. ASSUME NEW t \in Threads, Tick(t) PROVE OrderOK'
  BY <1>21 DEF Tick, Go, locks, turns, graph, outside
<1>22. ASSUME NEW t \in Threads, NEW v \in Turns, DropInnerTurn(t, v) PROVE OrderOK'
  BY <1>22 DEF DropInnerTurn, locks, graph, control, outside
<1>23. ASSUME NEW t \in Threads, NEW v \in Turns, DropTurn(t, v) PROVE OrderOK'
  BY <1>23 DEF DropTurn, Go, locks, graph, outside
<1>24. ASSUME NEW t \in Threads, NEW u \in Threads, NotifyOne(t, u) PROVE OrderOK'
  BY <1>24 DEF NotifyOne, locks, turns, graph, outside
<1>25. ASSUME NEW t \in Threads, NotifyNobody(t) PROVE OrderOK'
  BY <1>25 DEF NotifyNobody, Back, Go, locks, turns, graph, outside
<1>26. ASSUME NEW t \in Threads, Cancel(t) PROVE OrderOK'
  BY <1>26 DEF Cancel, locks, turns, graph, control
<1>27. ASSUME NEW t \in Threads, Panic(t) PROVE OrderOK'
  BY <1>27 DEF Panic, locks, turns, graph, control
<1>28. ASSUME NEW t \in Threads, Caught(t) PROVE OrderOK'
  BY <1>28 DEF Caught, locks, turns, graph, control
<1>30. ASSUME NEW t \in Threads, Forget(t) PROVE OrderOK'
  BY <1>30 DEF Forget, locks, turns, graph, control
<1>29. CASE UNCHANGED vars
  BY <1>29 DEF vars, control, locks, turns, graph, outside
<1> QED
  BY <1>1, <1>2, <1>3, <1>4, <1>5, <1>6, <1>7, <1>8, <1>9, <1>10, <1>11, <1>12, <1>13, <1>14, <1>15, <1>16, <1>17, <1>18, <1>19, <1>20, <1>21, <1>22, <1>23, <1>24, <1>25, <1>26, <1>27, <1>28, <1>29, <1>30 DEF Next, Step, GiveBack, Ask

\* A step that frees no turn, parks nobody and leaves those who are to take
\* a turn or to notify where they are, loses no wakeup.
LEMMA WakeupFrame ==
    ASSUME NoLostWakeup, UNCHANGED owner,
           \A x \in Threads : pc'[x] = "parked" => pc[x] = "parked" /\ want'[x] = want[x],
           \A x \in Threads : pc[x] \in {"look", "leave"} => pc'[x] = pc[x] /\ want'[x] = want[x]
    PROVE  NoLostWakeup'
<1> SUFFICES ASSUME NEW w \in Turns, NEW p \in Threads, owner[w] = Nobody,
                    pc'[p] = "parked", want'[p] = w
             PROVE  \E x \in Threads : pc'[x] \in {"look", "leave"} /\ want'[x] = w
  BY DEF NoLostWakeup
<1>1. PICK x \in Threads : pc[x] \in {"look", "leave"} /\ want[x] = w
  BY DEF NoLostWakeup
<1> QED BY <1>1

\* No step loses a wakeup.
LEMMA WakeupStep ==
    ASSUME TypeOK, WantOK, ParkOK, OneWriter, NoLostWakeup, [Next]_vars
    PROVE  NoLostWakeup'
<1> USE AbsentAssumption, TurnsAssumption DEF TypeOK, WantOK, ParkOK, OneWriter
<1>1. ASSUME NEW t \in Threads, NEW i \in Instances, TakeFreeInstance(t, i) PROVE NoLostWakeup'
  BY <1>1, WakeupFrame DEF TakeFreeInstance, MayAsk, Asks, Go, outside, turns, graph
<1>2. ASSUME NEW t \in Threads, NEW i \in Instances, FindInstanceTaken(t, i) PROVE NoLostWakeup'
  BY <1>2, WakeupFrame DEF FindInstanceTaken, MayAsk, Asks, Go, outside, locks, turns, graph
<1>3. ASSUME NEW t \in Threads, RefuseInstance(t) PROVE NoLostWakeup'
  BY <1>3, WakeupFrame DEF RefuseInstance, Back, Go, locks, turns, graph, outside
<1>4. ASSUME NEW t \in Threads, AwaitInstance(t) PROVE NoLostWakeup'
  BY <1>4, WakeupFrame DEF AwaitInstance, Go, locks, turns, outside
<1>5. ASSUME NEW t \in Threads, LockInstance(t) PROVE NoLostWakeup'
  BY <1>5, WakeupFrame DEF LockInstance, Go, turns, graph, outside
<1>6. ASSUME NEW t \in Threads, FindPoison(t) PROVE NoLostWakeup'
  BY <1>6, WakeupFrame DEF FindPoison, Go, locks, turns, graph, outside
<1>7. ASSUME NEW t \in Threads, EndInstanceWait(t) PROVE NoLostWakeup'
  BY <1>7, WakeupFrame DEF EndInstanceWait, Go, locks, turns, outside
<1>8. ASSUME NEW t \in Threads, RefuseSpoilt(t) PROVE NoLostWakeup'
  BY <1>8, WakeupFrame DEF RefuseSpoilt, Back, Go, locks, turns, outside
<1>9. ASSUME NEW t \in Threads, HoldInstance(t) PROVE NoLostWakeup'
  BY <1>9, WakeupFrame DEF HoldInstance, Back, Go, locks, turns, outside
<1>10. ASSUME NEW t \in Threads, NEW i \in Instances, UnholdInstance(t, i) PROVE NoLostWakeup'
  BY <1>10, WakeupFrame DEF UnholdInstance, Go, locks, turns, outside
<1>11. ASSUME NEW t \in Threads, UnlockInstance(t) PROVE NoLostWakeup'
  BY <1>11, WakeupFrame DEF UnlockInstance, Back, Go, turns, graph, outside
<1>12. ASSUME NEW t \in Threads, NEW v \in Turns, WriteTurn(t, v) PROVE NoLostWakeup'
  BY <1>12, WakeupFrame DEF WriteTurn, MayAskTurn, MayAsk, Asks, Go, outside, locks, turns, graph
<1>13. ASSUME NEW t \in Threads, NEW v \in Turns, Write(t, v) PROVE NoLostWakeup'
  BY <1>13, WakeupFrame DEF Write, MayAskTurn, MayAsk, Asks, Go, outside, locks, turns, graph
<1>14. ASSUME NEW t \in Threads, JobTurn(t) PROVE NoLostWakeup'
  BY <1>14, WakeupFrame DEF JobTurn, MayAskTurn, MayAsk, Asks, Go, outside, locks, turns, graph
<1>15. ASSUME NEW t \in Threads, TakeTurn(t) PROVE NoLostWakeup'
  <2> SUFFICES ASSUME NEW w \in Turns, NEW p \in Threads, owner'[w] = Nobody,
                      pc'[p] = "parked", want'[p] = w
               PROVE  \E x \in Threads : pc'[x] \in {"look", "leave"} /\ want'[x] = w
    BY DEF NoLostWakeup
  <2>1. w # want[t] /\ owner[w] = Nobody /\ pc[p] = "parked" /\ want[p] = w
    BY <1>15 DEF TakeTurn, Back, Go, locks, outside
  <2>2. PICK x \in Threads : pc[x] \in {"look", "leave"} /\ want[x] = w
    BY <2>1 DEF NoLostWakeup
  <2> QED BY <1>15, <2>1, <2>2 DEF TakeTurn, Back, Go, locks, outside
<1>16. ASSUME NEW t \in Threads, ParkPlainly(t) PROVE NoLostWakeup'
  <2> SUFFICES ASSUME NEW w \in Turns, NEW p \in Threads, owner'[w] = Nobody,
                      pc'[p] = "parked", want'[p] = w
               PROVE  \E x \in Threads : pc'[x] \in {"look", "leave"} /\ want'[x] = w
    BY DEF NoLostWakeup
  <2>1. w # want[t] /\ owner[w] = Nobody
    BY <1>16 DEF ParkPlainly, Go, locks, turns, graph, outside
  <2>2. pc[p] = "parked" /\ want[p] = w
    BY <1>16, <2>1 DEF ParkPlainly, Go, locks, turns, graph, outside
  <2>3. PICK x \in Threads : pc[x] \in {"look", "leave"} /\ want[x] = w
    BY <2>1, <2>2 DEF NoLostWakeup
  <2> QED BY <1>16, <2>1, <2>3 DEF ParkPlainly, Go, locks, turns, graph, outside
<1>17. ASSUME NEW t \in Threads, StopWaiting(t) PROVE NoLostWakeup'
  <2> SUFFICES ASSUME NEW w \in Turns, NEW p \in Threads, owner'[w] = Nobody,
                      pc'[p] = "parked", want'[p] = w
               PROVE  \E x \in Threads : pc'[x] \in {"look", "leave"} /\ want'[x] = w
    BY DEF NoLostWakeup
  <2>1. w # want[t] /\ owner[w] = Nobody /\ pc[p] = "parked" /\ want[p] = w
    BY <1>17 DEF StopWaiting, Back, Go, locks, turns, outside
  <2>2. PICK x \in Threads : pc[x] \in {"look", "leave"} /\ want[x] = w
    BY <2>1 DEF NoLostWakeup
  <2> QED BY <1>17, <2>1, <2>2 DEF StopWaiting, Back, Go, locks, turns, outside
<1>18. ASSUME NEW t \in Threads, AwaitTurn(t) PROVE NoLostWakeup'
  BY <1>18 DEF AwaitTurn, Go, locks, outside, NoLostWakeup
<1>19. ASSUME NEW t \in Threads, RefuseTurn(t) PROVE NoLostWakeup'
  BY SMTT(30), <1>19 DEF RefuseTurn, Back, Go, locks, outside, NoLostWakeup
<1>20. ASSUME NEW t \in Threads, ParkYielding(t) PROVE NoLostWakeup'
  BY SMTT(30), <1>20 DEF ParkYielding, Go, locks, graph, outside, NoLostWakeup
<1>21. ASSUME NEW t \in Threads, Tick(t) PROVE NoLostWakeup'
  BY <1>21 DEF Tick, Go, locks, turns, graph, outside, NoLostWakeup
<1>22. ASSUME NEW t \in Threads, NEW v \in Turns, DropInnerTurn(t, v) PROVE NoLostWakeup'
  BY <1>22, WakeupFrame DEF DropInnerTurn, locks, graph, control, outside
<1>23. ASSUME NEW t \in Threads, NEW v \in Turns, DropTurn(t, v) PROVE NoLostWakeup'
  <2> SUFFICES ASSUME NEW w \in Turns, NEW p \in Threads, owner'[w] = Nobody,
                      pc'[p] = "parked", want'[p] = w
               PROVE  \E x \in Threads : pc'[x] \in {"look", "leave"} /\ want'[x] = w
    BY DEF NoLostWakeup
  <2>1. CASE w = v
    BY <1>23, <2>1 DEF DropTurn, Go, locks, graph, outside
  <2>2. CASE w # v
    <3>1. owner[w] = Nobody /\ pc[p] = "parked" /\ want[p] = w
      BY <1>23, <2>2 DEF DropTurn, Go, locks, graph, outside
    <3>2. PICK x \in Threads : pc[x] \in {"look", "leave"} /\ want[x] = w
      BY <3>1 DEF NoLostWakeup
    <3> QED BY <1>23, <3>2 DEF DropTurn, Go, locks, graph, outside
  <2> QED BY <2>1, <2>2
<1>24. ASSUME NEW t \in Threads, NEW u \in Threads, NotifyOne(t, u) PROVE NoLostWakeup'
  <2> SUFFICES ASSUME NEW w \in Turns, NEW p \in Threads, owner'[w] = Nobody,
                      pc'[p] = "parked", want'[p] = w
               PROVE  \E x \in Threads : pc'[x] \in {"look", "leave"} /\ want'[x] = w
    BY DEF NoLostWakeup
  <2>1. owner[w] = Nobody /\ pc[p] = "parked" /\ want[p] = w
    BY <1>24 DEF NotifyOne, locks, turns, graph, outside
  <2>2. CASE want[t] = w
    BY <1>24, <2>2 DEF NotifyOne, locks, turns, graph, outside
  <2>3. CASE want[t] # w
    <3>1. PICK x \in Threads : pc[x] \in {"look", "leave"} /\ want[x] = w
      BY <2>1 DEF NoLostWakeup
    <3> QED BY <1>24, <2>3, <3>1 DEF NotifyOne, locks, turns, graph, outside
  <2> QED BY <2>2, <2>3
<1>25. ASSUME NEW t \in Threads, NotifyNobody(t) PROVE NoLostWakeup'
  <2> SUFFICES ASSUME NEW w \in Turns, NEW p \in Threads, owner'[w] = Nobody,
                      pc'[p] = "parked", want'[p] = w
               PROVE  \E x \in Threads : pc'[x] \in {"look", "leave"} /\ want'[x] = w
    BY DEF NoLostWakeup
  <2>1. owner[w] = Nobody /\ pc[p] = "parked" /\ want[p] = w
    BY <1>25 DEF NotifyNobody, Back, Go, locks, turns, graph, outside
  <2>2. want[t] # w
    BY <1>25, <2>1 DEF NotifyNobody, Back, Go, locks, turns, graph, outside
  <2>3. PICK x \in Threads : pc[x] \in {"look", "leave"} /\ want[x] = w
    BY <2>1 DEF NoLostWakeup
  <2> QED BY <1>25, <2>2, <2>3 DEF NotifyNobody, Back, Go, locks, turns, graph, outside
<1>26. ASSUME NEW t \in Threads, Cancel(t) PROVE NoLostWakeup'
  BY <1>26, WakeupFrame DEF Cancel, locks, turns, graph, control
<1>27. ASSUME NEW t \in Threads, Panic(t) PROVE NoLostWakeup'
  BY <1>27, WakeupFrame DEF Panic, locks, turns, graph, control
<1>28. ASSUME NEW t \in Threads, Caught(t) PROVE NoLostWakeup'
  BY <1>28, WakeupFrame DEF Caught, locks, turns, graph, control
<1>30. ASSUME NEW t \in Threads, Forget(t) PROVE NoLostWakeup'
  BY <1>30, WakeupFrame DEF Forget, locks, turns, graph, control
<1>29. CASE UNCHANGED vars
  BY <1>29 DEF vars, control, locks, turns, graph, outside, NoLostWakeup
<1> QED
  BY <1>1, <1>2, <1>3, <1>4, <1>5, <1>6, <1>7, <1>8, <1>9, <1>10, <1>11, <1>12, <1>13, <1>14, <1>15, <1>16, <1>17, <1>18, <1>19, <1>20, <1>21, <1>22, <1>23, <1>24, <1>25, <1>26, <1>27, <1>28, <1>29, <1>30 DEF Next, Step, GiveBack, Ask

\* A step that puts no thread to wait for an instance, and gives a mutex only
\* to threads that are not waiting for one, closes no cycle.
LEMMA CycleFrame ==
    ASSUME NoInstanceCycle,
           \A x \in Threads : pc'[x] = "blocked" =>
               /\ pc[x] = "blocked" /\ want'[x] = want[x]
               /\ mutex'[want[x]] \in Threads /\ pc'[mutex'[want[x]]] = "blocked"
                      => mutex'[want[x]] = mutex[want[x]]
    PROVE  NoInstanceCycle'
<1> SUFFICES ASSUME NEW S \in SUBSET Threads, S # {},
                    \A x \in S : pc'[x] = "blocked" /\ mutex'[want'[x]] \in S
             PROVE  FALSE
  BY DEF NoInstanceCycle
<1>1. \A x \in S : pc[x] = "blocked" /\ mutex[want[x]] \in S
  OBVIOUS
<1> QED BY <1>1 DEF NoInstanceCycle

\* No step closes a cycle of waits for instances.  The one that could is
\* AwaitInstance: if it closed one, the set of the threads in it, less those
\* the walk from the holder did not come to, would have been a cycle before.
LEMMA CycleStep ==
    ASSUME TypeOK, WantOK, HoldOK, WaitOK, NoInstanceCycle, [Next]_vars
    PROVE  NoInstanceCycle'
<1> USE AbsentAssumption, TurnsAssumption DEF TypeOK, WantOK
<1>1. ASSUME NEW t \in Threads, NEW i \in Instances, TakeFreeInstance(t, i) PROVE NoInstanceCycle'
  BY <1>1, CycleFrame DEF TakeFreeInstance, MayAsk, Asks, Go, outside, turns, graph
<1>2. ASSUME NEW t \in Threads, NEW i \in Instances, FindInstanceTaken(t, i) PROVE NoInstanceCycle'
  BY <1>2, CycleFrame DEF FindInstanceTaken, MayAsk, Asks, Go, outside, locks, turns, graph
<1>3. ASSUME NEW t \in Threads, RefuseInstance(t) PROVE NoInstanceCycle'
  BY <1>3, CycleFrame DEF RefuseInstance, Back, Go, locks, turns, graph, outside
<1>4. ASSUME NEW t \in Threads, AwaitInstance(t) PROVE NoInstanceCycle'
  <2> SUFFICES ASSUME NEW S \in SUBSET Threads, S # {},
                      \A x \in S : pc'[x] = "blocked" /\ mutex'[want'[x]] \in S
               PROVE  FALSE
    BY DEF NoInstanceCycle
  <2> USE <1>4 DEF AwaitInstance, Go, locks, turns
  <2>1. t \in S
    <3> SUFFICES ASSUME t \notin S PROVE FALSE
      OBVIOUS
    <3> QED BY DEF NoInstanceCycle
  <2>2. \A x \in S : \/ x = t
                     \/ pc[x] = "blocked" /\ mutex[want[x]] \in S /\ NextByInstance[x] = held[want[x]]
    BY DEF WaitOK, NextByInstance
  <2>3. \A i \in Instances : mutex[i] \in S => held[i] = mutex[i]
    BY <2>2 DEF HoldOK
  <2>4. held[want[t]] \in S
    BY <2>1, <2>3
  <2>5. PICK C \in SUBSET Threads :
            /\ held[want[t]] \in C /\ t \notin C
            /\ \A x \in C : NextByInstance[x] # Nobody => NextByInstance[x] \in C
    BY <2>4 DEF InstancesLeadBackTo, LeadsTo
  <2>6. ASSUME NEW x \in S \cap C
        PROVE  pc[x] = "blocked" /\ mutex[want[x]] \in S \cap C
    <3>1. /\ pc[x] = "blocked" /\ mutex[want[x]] \in S
          /\ NextByInstance[x] = held[want[x]]
      BY <2>2, <2>5
    <3>2. held[want[x]] = mutex[want[x]]
      BY <2>3, <3>1 DEF WantOK
    <3> QED BY <2>5, <3>1, <3>2
  <2>7. S \cap C # {} /\ S \cap C \in SUBSET Threads
    BY <2>4, <2>5
  <2> QED BY <2>6, <2>7 DEF NoInstanceCycle
<1>5. ASSUME NEW t \in Threads, LockInstance(t) PROVE NoInstanceCycle'
  BY <1>5, CycleFrame DEF LockInstance, Go, turns, graph, outside
<1>6. ASSUME NEW t \in Threads, FindPoison(t) PROVE NoInstanceCycle'
  BY <1>6, CycleFrame DEF FindPoison, Go, locks, turns, graph, outside
<1>7. ASSUME NEW t \in Threads, EndInstanceWait(t) PROVE NoInstanceCycle'
  BY <1>7, CycleFrame DEF EndInstanceWait, Go, locks, turns, outside
<1>8. ASSUME NEW t \in Threads, RefuseSpoilt(t) PROVE NoInstanceCycle'
  BY <1>8, CycleFrame DEF RefuseSpoilt, Back, Go, locks, turns, outside
<1>9. ASSUME NEW t \in Threads, HoldInstance(t) PROVE NoInstanceCycle'
  BY <1>9, CycleFrame DEF HoldInstance, Back, Go, locks, turns, outside
<1>10. ASSUME NEW t \in Threads, NEW i \in Instances, UnholdInstance(t, i) PROVE NoInstanceCycle'
  BY <1>10, CycleFrame DEF UnholdInstance, Go, locks, turns, outside
<1>11. ASSUME NEW t \in Threads, UnlockInstance(t) PROVE NoInstanceCycle'
  BY <1>11, CycleFrame DEF UnlockInstance, Back, Go, turns, graph, outside
<1>12. ASSUME NEW t \in Threads, NEW v \in Turns, WriteTurn(t, v) PROVE NoInstanceCycle'
  BY <1>12, CycleFrame DEF WriteTurn, MayAskTurn, MayAsk, Asks, Go, outside, locks, turns, graph
<1>13. ASSUME NEW t \in Threads, NEW v \in Turns, Write(t, v) PROVE NoInstanceCycle'
  BY <1>13, CycleFrame DEF Write, MayAskTurn, MayAsk, Asks, Go, outside, locks, turns, graph
<1>14. ASSUME NEW t \in Threads, JobTurn(t) PROVE NoInstanceCycle'
  BY <1>14, CycleFrame DEF JobTurn, MayAskTurn, MayAsk, Asks, Go, outside, locks, turns, graph
<1>15. ASSUME NEW t \in Threads, TakeTurn(t) PROVE NoInstanceCycle'
  BY <1>15, CycleFrame DEF TakeTurn, Back, Go, locks, outside
<1>16. ASSUME NEW t \in Threads, ParkPlainly(t) PROVE NoInstanceCycle'
  BY <1>16, CycleFrame DEF ParkPlainly, Go, locks, turns, graph, outside
<1>17. ASSUME NEW t \in Threads, StopWaiting(t) PROVE NoInstanceCycle'
  BY <1>17, CycleFrame DEF StopWaiting, Back, Go, locks, turns, outside
<1>18. ASSUME NEW t \in Threads, AwaitTurn(t) PROVE NoInstanceCycle'
  BY <1>18, CycleFrame DEF AwaitTurn, Go, locks, outside
<1>19. ASSUME NEW t \in Threads, RefuseTurn(t) PROVE NoInstanceCycle'
  BY <1>19, CycleFrame DEF RefuseTurn, Back, Go, locks, outside
<1>20. ASSUME NEW t \in Threads, ParkYielding(t) PROVE NoInstanceCycle'
  BY <1>20, CycleFrame DEF ParkYielding, Go, locks, graph, outside
<1>21. ASSUME NEW t \in Threads, Tick(t) PROVE NoInstanceCycle'
  BY <1>21, CycleFrame DEF Tick, Go, locks, turns, graph, outside
<1>22. ASSUME NEW t \in Threads, NEW v \in Turns, DropInnerTurn(t, v) PROVE NoInstanceCycle'
  BY <1>22, CycleFrame DEF DropInnerTurn, locks, graph, control, outside
<1>23. ASSUME NEW t \in Threads, NEW v \in Turns, DropTurn(t, v) PROVE NoInstanceCycle'
  BY <1>23, CycleFrame DEF DropTurn, Go, locks, graph, outside
<1>24. ASSUME NEW t \in Threads, NEW u \in Threads, NotifyOne(t, u) PROVE NoInstanceCycle'
  BY <1>24, CycleFrame DEF NotifyOne, locks, turns, graph, outside
<1>25. ASSUME NEW t \in Threads, NotifyNobody(t) PROVE NoInstanceCycle'
  BY <1>25, CycleFrame DEF NotifyNobody, Back, Go, locks, turns, graph, outside
<1>26. ASSUME NEW t \in Threads, Cancel(t) PROVE NoInstanceCycle'
  BY <1>26, CycleFrame DEF Cancel, locks, turns, graph, control
<1>27. ASSUME NEW t \in Threads, Panic(t) PROVE NoInstanceCycle'
  BY <1>27, CycleFrame DEF Panic, locks, turns, graph, control
<1>28. ASSUME NEW t \in Threads, Caught(t) PROVE NoInstanceCycle'
  BY <1>28, CycleFrame DEF Caught, locks, turns, graph, control
<1>30. ASSUME NEW t \in Threads, Forget(t) PROVE NoInstanceCycle'
  BY <1>30, CycleFrame DEF Forget, locks, turns, graph, control
<1>29. CASE UNCHANGED vars
  BY <1>29, CycleFrame DEF vars, control, locks, turns, graph, outside
<1> QED
  BY <1>1, <1>2, <1>3, <1>4, <1>5, <1>6, <1>7, <1>8, <1>9, <1>10, <1>11, <1>12, <1>13, <1>14, <1>15, <1>16, <1>17, <1>18, <1>19, <1>20, <1>21, <1>22, <1>23, <1>24, <1>25, <1>26, <1>27, <1>28, <1>29, <1>30 DEF Next, Step, GiveBack, Ask

\* Only try_wait_instance takes a thread back from a WouldBlock.
LEMMA RefusalStep ==
    ASSUME TypeOK, NEW r \in Threads, [Next]_vars, pc[r] = "tried", pc'[r] = "run"
    PROVE  RefuseInstance(r)
<1> USE DEF TypeOK
<1>1. ASSUME NEW t \in Threads, NEW i \in Instances, TakeFreeInstance(t, i) PROVE RefuseInstance(r)
  BY <1>1 DEF TakeFreeInstance, MayAsk, Asks, Go, outside
<1>2. ASSUME NEW t \in Threads, NEW i \in Instances, FindInstanceTaken(t, i) PROVE RefuseInstance(r)
  BY <1>2 DEF FindInstanceTaken, MayAsk, Asks, Go, outside
<1>3. ASSUME NEW t \in Threads, RefuseInstance(t) PROVE RefuseInstance(r)
  <2>1. r = t
    BY <1>3 DEF RefuseInstance, Back, Go
  <2> QED BY <1>3, <2>1
<1>4. ASSUME NEW t \in Threads, AwaitInstance(t) PROVE RefuseInstance(r)
  BY <1>4 DEF AwaitInstance, Go
<1>5. ASSUME NEW t \in Threads, LockInstance(t) PROVE RefuseInstance(r)
  BY <1>5 DEF LockInstance, Go
<1>6. ASSUME NEW t \in Threads, FindPoison(t) PROVE RefuseInstance(r)
  BY <1>6 DEF FindPoison, Go
<1>7. ASSUME NEW t \in Threads, EndInstanceWait(t) PROVE RefuseInstance(r)
  BY <1>7 DEF EndInstanceWait, Go
<1>8. ASSUME NEW t \in Threads, RefuseSpoilt(t) PROVE RefuseInstance(r)
  BY <1>8 DEF RefuseSpoilt, Back, Go
<1>9. ASSUME NEW t \in Threads, HoldInstance(t) PROVE RefuseInstance(r)
  BY <1>9 DEF HoldInstance, Back, Go
<1>10. ASSUME NEW t \in Threads, NEW i \in Instances, UnholdInstance(t, i) PROVE RefuseInstance(r)
  BY <1>10 DEF UnholdInstance, Go
<1>11. ASSUME NEW t \in Threads, UnlockInstance(t) PROVE RefuseInstance(r)
  BY <1>11 DEF UnlockInstance, Back, Go
<1>12. ASSUME NEW t \in Threads, NEW v \in Turns, WriteTurn(t, v) PROVE RefuseInstance(r)
  BY <1>12 DEF WriteTurn, MayAskTurn, MayAsk, Asks, Go, outside
<1>13. ASSUME NEW t \in Threads, NEW v \in Turns, Write(t, v) PROVE RefuseInstance(r)
  BY <1>13 DEF Write, MayAskTurn, MayAsk, Asks, Go, outside
<1>14. ASSUME NEW t \in Threads, JobTurn(t) PROVE RefuseInstance(r)
  BY <1>14 DEF JobTurn, MayAskTurn, MayAsk, Asks, Go, outside
<1>15. ASSUME NEW t \in Threads, TakeTurn(t) PROVE RefuseInstance(r)
  BY <1>15 DEF TakeTurn, Back, Go
<1>16. ASSUME NEW t \in Threads, ParkPlainly(t) PROVE RefuseInstance(r)
  BY <1>16 DEF ParkPlainly, Go
<1>17. ASSUME NEW t \in Threads, StopWaiting(t) PROVE RefuseInstance(r)
  BY <1>17 DEF StopWaiting, Back, Go
<1>18. ASSUME NEW t \in Threads, AwaitTurn(t) PROVE RefuseInstance(r)
  BY <1>18 DEF AwaitTurn, Go
<1>19. ASSUME NEW t \in Threads, RefuseTurn(t) PROVE RefuseInstance(r)
  BY <1>19 DEF RefuseTurn, Back, Go
<1>20. ASSUME NEW t \in Threads, ParkYielding(t) PROVE RefuseInstance(r)
  BY <1>20 DEF ParkYielding, Go
<1>21. ASSUME NEW t \in Threads, Tick(t) PROVE RefuseInstance(r)
  BY <1>21 DEF Tick, Go
<1>22. ASSUME NEW t \in Threads, NEW v \in Turns, DropInnerTurn(t, v) PROVE RefuseInstance(r)
  BY <1>22 DEF DropInnerTurn, control
<1>23. ASSUME NEW t \in Threads, NEW v \in Turns, DropTurn(t, v) PROVE RefuseInstance(r)
  BY <1>23 DEF DropTurn, Go
<1>24. ASSUME NEW t \in Threads, NEW u \in Threads, NotifyOne(t, u) PROVE RefuseInstance(r)
  BY <1>24 DEF NotifyOne
<1>25. ASSUME NEW t \in Threads, NotifyNobody(t) PROVE RefuseInstance(r)
  BY <1>25 DEF NotifyNobody, Back, Go
<1>26. ASSUME NEW t \in Threads, Cancel(t) PROVE RefuseInstance(r)
  BY <1>26 DEF Cancel, control
<1>27. ASSUME NEW t \in Threads, Panic(t) PROVE RefuseInstance(r)
  BY <1>27 DEF Panic, control
<1>28. ASSUME NEW t \in Threads, Caught(t) PROVE RefuseInstance(r)
  BY <1>28 DEF Caught, control
<1>30. ASSUME NEW t \in Threads, Forget(t) PROVE RefuseInstance(r)
  BY <1>30 DEF Forget, control
<1>29. CASE UNCHANGED vars
  BY <1>29 DEF vars, control
<1> QED
  BY <1>1, <1>2, <1>3, <1>4, <1>5, <1>6, <1>7, <1>8, <1>9, <1>10, <1>11, <1>12, <1>13, <1>14, <1>15, <1>16, <1>17, <1>18, <1>19, <1>20, <1>21, <1>22, <1>23, <1>24, <1>25, <1>26, <1>27, <1>28, <1>29, <1>30 DEF Next, Step, GiveBack, Ask

\* The initial state is in the invariant.
LEMMA InitIInv ==
    ASSUME Init
    PROVE  IInv
<1> USE AbsentAssumption, TurnsAssumption DEF Init
<1>1. TypeOK /\ WantOK
  BY DEF TypeOK, WantOK, Steps, Modes
<1>2. HoldOK /\ WaitOK /\ OneWriter
  BY DEF HoldOK, WaitOK, OneWriter
<1>3. ParkOK /\ PlainOK /\ OrderOK
  BY DEF ParkOK, PlainOK, OrderOK
<1>4. NoInstanceCycle /\ NoLostWakeup
  BY DEF NoInstanceCycle, NoLostWakeup
<1> QED BY <1>1, <1>2, <1>3, <1>4 DEF IInv

\* Every step keeps it.
LEMMA StepIInv ==
    ASSUME IInv, [Next]_vars
    PROVE  IInv'
<1> USE DEF IInv
<1>1. TypeOK' /\ WantOK'
  BY TypeStep
<1>2. HoldOK' /\ WaitOK' /\ OneWriter'
  BY HoldStep, WaitStep, TurnStep
<1>3. ParkOK' /\ PlainOK' /\ OrderOK'
  BY ParkStep, PlainStep, OrderStep
<1>4. NoInstanceCycle' /\ NoLostWakeup'
  BY CycleStep, WakeupStep
<1> QED BY <1>1, <1>2, <1>3, <1>4

\* The inductive invariant holds in every behaviour: for any number of
\* threads, instances, turns and requests.
THEOREM Inductive == Spec => []IInv
<1>1. Init => IInv
  BY InitIInv
<1>2. IInv /\ [Next]_vars => IInv'
  BY StepIInv
<1> QED BY <1>1, <1>2, PTL DEF Spec

-----------------------------------------------------------------------------
(* The properties.                                                         *)

\* The variables of the host's locks and of the graph keep their types.
THEOREM TypeCorrect == Spec => []TypeOK
<1>1. IInv => TypeOK
  BY DEF IInv
<1> QED BY <1>1, Inductive, PTL

\* Two threads never have a writer turn at once, and the count of a turn is
\* that of its owner's guards: custody.rs, acquire_turn and the drop.
THEOREM OneWriterAlways == Spec => []OneWriter
<1>1. IInv => OneWriter
  BY DEF IInv
<1> QED BY <1>1, Inductive, PTL

\* The graph of waits.rs never lies about an instance.
THEOREM GraphAlwaysTrue == Spec => []GraphIsTrue
<1>1. ASSUME IInv PROVE GraphIsTrue
  <2> USE <1>1, AbsentAssumption DEF IInv, TypeOK
  <2>1. \A i \in Instances : held[i] # Nobody => mutex[i] = held[i]
    BY DEF HoldOK
  <2>2. \A i \in Instances, t \in Threads :
            mutex[i] = t /\ pc[t] \notin {"got", "locked", "unheld"} => held[i] = t
    BY DEF HoldOK
  <2>3. \A t \in Threads :
            /\ instWait[t] # Nothing =>
                   pc[t] \in {"blocked", "got", "spoilt"} /\ instWait[t] = want[t]
            /\ turnWait[t] # Nobody => pc[t] \in {"look", "check", "parked"}
    BY DEF WaitOK
  <2> QED BY <2>1, <2>2, <2>3 DEF GraphIsTrue
<1> QED BY <1>1, Inductive, PTL

\* A free turn with somebody in its condvar has somebody on the way to take it
\* or to notify: the notify_one in the drop of WriteTurn is enough.
THEOREM NoLostWakeupAlways == Spec => []NoLostWakeup
<1>1. IInv => NoLostWakeup
  BY DEF IInv
<1> QED BY <1>1, Inductive, PTL

\* If threads that only wait wait for one another, and none of them may
\* refuse, then those that wait for an instance do so by themselves.
LEMMA HopefulState ==
    ASSUME IInv
    PROVE  NoHopelessWait
<1> SUFFICES ASSUME NEW S \in SUBSET Threads, Stuck(S), \A t \in S : ~Yielding(t)
             PROVE  FALSE
  BY DEF NoHopelessWait
<1> USE DEF IInv
<1> DEFINE B == {t \in S : pc[t] = "blocked"}
<1>1. \A t \in S : \/ pc[t] = "blocked" /\ mutex[want[t]] \in S
                   \/ pc[t] = "parked" /\ mode[t] = "plain" /\ owner[want[t]] \in S
  BY DEF Stuck, WaitsFor, Yielding
<1>2. \A t \in B : mutex[want[t]] \in B
  <2> SUFFICES ASSUME NEW t \in B, mutex[want[t]] \notin B
               PROVE  FALSE
    OBVIOUS
  <2> DEFINE u == mutex[want[t]]
  <2>1. want[t] \in Instances
    BY DEF WantOK
  <2>2. u \in S /\ pc[u] = "parked" /\ mode[u] = "plain"
    BY <1>1
  <2>3. owner[want[u]] # u
    BY <2>2 DEF ParkOK
  <2>4. \A i \in Instances : mutex[i] # u
    BY <2>2, <2>3 DEF PlainOK
  <2> QED BY <2>1, <2>4
<1>3. B # {}
  <2> SUFFICES ASSUME B = {} PROVE FALSE
    OBVIOUS
  <2>1. \A t \in S : pc[t] = "parked" /\ owner[want[t]] \in S /\ want[t] \in Turns
    BY <1>1 DEF WantOK
  <2>2. PICK t \in S : TRUE
    BY DEF Stuck
  <2> DEFINE u == owner[want[t]]
             w == owner[want[u]]
  <2>3. u \in S /\ w \in S
    BY <2>1, <2>2
  <2>4. owner[Workspace] = u /\ owner[Workspace] = w
    BY <2>1, <2>2, <2>3 DEF OrderOK
  <2>5. w # u
    BY <2>1, <2>3 DEF ParkOK
  <2> QED BY <2>4, <2>5
<1> QED BY <1>2, <1>3 DEF NoInstanceCycle

\* Whatever threads wait for one another, one of them may refuse: the promise
\* of waits.rs, for any number of threads, instances and turns.
THEOREM NoHopelessWaitAlways == Spec => []NoHopelessWait
<1>1. IInv => NoHopelessWait
  BY HopefulState
<1> QED BY <1>1, Inductive, PTL

\* An instance is refused only to a thread that would wait for itself.
THEOREM RefusedOnlyInACycle == Spec => RefusedInACycle
<1> DEFINE Real(t) == /\ mutex[want[t]] # Nobody
                      /\ LeadsTo(mutex[want[t]], t, ReallyNext)
<1>1. ASSUME IInv, [Next]_vars, NEW t \in Threads, pc[t] = "tried", pc'[t] = "run"
      PROVE  Real(t)
  <2> USE <1>1, AbsentAssumption DEF IInv
  <2>1. held[want[t]] # Nobody /\ LeadsTo(held[want[t]], t, NextByInstance)
    BY RefusalStep DEF RefuseInstance, InstancesLeadBackTo
  <2>2. want[t] \in Instances /\ mutex[want[t]] = held[want[t]]
    BY <2>1 DEF WantOK, HoldOK
  <2>3. ASSUME NEW x \in Threads, NextByInstance[x] # Nobody
        PROVE  ReallyNext[x] = NextByInstance[x]
    <3>1. instWait[x] # Nothing /\ NextByInstance[x] = held[instWait[x]]
      BY <2>3 DEF NextByInstance
    <3>2. pc[x] \in {"blocked", "got", "spoilt"} /\ instWait[x] = want[x]
      BY <3>1 DEF WaitOK
    <3>3. want[x] \in Instances /\ mutex[want[x]] = held[want[x]] /\ held[want[x]] # Nobody
      BY <2>3, <3>1, <3>2 DEF WantOK, HoldOK
    <3>4. pc[x] = "blocked"
      BY <3>2, <3>3 DEF WaitOK, HoldOK
    <3> QED BY <3>1, <3>2, <3>3, <3>4 DEF ReallyNext
  <2>4. LeadsTo(mutex[want[t]], t, ReallyNext)
    BY <2>1, <2>2, <2>3 DEF LeadsTo
  <2> QED BY <2>1, <2>2, <2>4
<1>2. IInv /\ [Next]_vars =>
          [\A t \in Threads : pc[t] = "tried" /\ pc'[t] = "run" => Real(t)]_vars
  BY <1>1
<1> QED BY <1>2, Inductive, PTL DEF Spec, RefusedInACycle

=============================================================================
