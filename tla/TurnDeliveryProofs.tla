------------------------- MODULE TurnDeliveryProofs -------------------------
(***************************************************************************)
(* TLAPS proofs about what TurnLifecycle promises for the input of a turn  *)
(* and for the goal: no item is ever in two places, and a goal that was    *)
(* paused is not continued.                                                *)
(***************************************************************************)
EXTENDS TurnLifecycleProofs, FiniteSetTheorems

Running    == {"run", "flush", "remove"}
Early      == {"unborn", "made"} \union Running \union {"leftover", "emit"}
Protected  == {"goal_check"} \union Starting
Continuing == {"goal_candidate", "goal_reserve", "goal_reread"} \union Protected

\* How far the turns are: a task in the active turn has not finished, one that was
\* drained never gets to clear a turn, and a turn that does not exist yet holds
\* no input.
TasksUnderWay ==
    /\ \A t \in Turns :
          /\ pc[t] \in {"unborn", "made"} \union Running => ts[t] = NoTS
          /\ pc[t] = "leftover" => ts[t] # NoTS
          /\ pc[t] = "unborn" => input[t] = {}
    /\ \A t \in tasks : pc[t] \in Running
    /\ \A a \in Actors : \A v \in victims[a] :
          pc[v] \in Running \union Stopped \/ (pc[v] = "emit" /\ ts[v] = NoTS)

\* The continuation lock is held by an actor that is continuing the goal.
LockHeld == \A a \in Actors : contLock = a => pc[a] \in Continuing

----------------------------------------------------------------------------
(* The progress of the turns *)

\* A step of an actor that is not running a turn; it may create one.
Elsewhere(a) ==
    /\ UNCHANGED <<tasks, victims>>
    /\ pc[a] \notin Early \union Stopped /\ pc'[a] \notin Early
    /\ \A b \in Actors \ {a} :
          /\ ts'[b] = ts[b]
          /\ pc'[b] = pc[b] \/ (pc[b] = "unborn" /\ pc'[b] = "made")
    /\ \A t \in Turns : pc'[t] = "unborn" => input'[t] = input[t]

LEMMA ElsewhereStep ==
    ASSUME TasksUnderWay, TypeOK, NEW a \in Actors, Elsewhere(a)
    PROVE  TasksUnderWay'
<1> USE ActorFacts DEF Running, Early, Stopped, Elsewhere
<1>1. victims \in [Actors -> SUBSET Turns] /\ tasks \subseteq Turns
  BY DEF TypeOK
<1>2. a \notin tasks /\ \A b \in Actors : a \notin victims[b]
  BY DEF TasksUnderWay
<1>3. ASSUME NEW t \in Turns
      PROVE  /\ pc'[t] \in {"unborn", "made"} \union Running => ts'[t] = NoTS
             /\ pc'[t] = "leftover" => ts'[t] # NoTS
             /\ pc'[t] = "unborn" => input'[t] = {}
  <2>1. CASE t = a
    BY <2>1
  <2>2. CASE t # a
    BY <2>2 DEF TasksUnderWay
  <2> QED
    BY <2>1, <2>2
<1>4. \A t \in tasks' : pc'[t] \in Running
  BY <1>1, <1>2 DEF TasksUnderWay
<1>5. ASSUME NEW b \in Actors, NEW v \in victims'[b]
      PROVE  pc'[v] \in Running \union Stopped \/ (pc'[v] = "emit" /\ ts'[v] = NoTS)
  <2>1. v \in Turns /\ v # a /\ v \in victims[b]
    BY <1>1, <1>2
  <2> QED
    BY <2>1 DEF TasksUnderWay
<1> QED
  BY <1>3, <1>4, <1>5 DEF TasksUnderWay

\* Every step keeps what is known of the progress of the turns.
LEMMA UnderWayStep ==
    IndInv /\ TypeOK' /\ TasksUnderWay /\ [Next]_vars => TasksUnderWay'
<1> SUFFICES ASSUME IndInv, TypeOK', TasksUnderWay, [Next]_vars PROVE TasksUnderWay'
  OBVIOUS
<1>a. TypeOK /\ SafeInv
  BY DEF IndInv
<1> USE <1>a, ActorFacts, FreshTurnFact, ActorAssumption
    DEF Running, Stopped, Aborters, Goto, turnVars, storeVars, goalVars,
        taskVars, frameVars
<1>p. /\ pc \in [Actors -> Labels] /\ ts \in [Actors -> TurnStates \union {NoTS}]
      /\ victims \in [Actors -> SUBSET Turns] /\ tasks \subseteq Turns
      /\ input \in [Turns -> SUBSET UserMsgs]
  BY DEF TypeOK
<1>u. ASSUME UNCHANGED <<tasks, victims, pc, ts, input>> PROVE TasksUnderWay'
  BY <1>u DEF TasksUnderWay
<1>1. ASSUME NEW m \in UserMsgs, UserInput(m) PROVE TasksUnderWay'
  <2>1. Elsewhere(Loop)
    BY <1>1, <1>p DEF UserInput, Elsewhere, Early
  <2> QED
    BY <2>1, ElsewhereStep
<1>2. CASE StandaloneTask
  <2>1. Elsewhere(Loop)
    BY <1>2, <1>p DEF StandaloneTask, Elsewhere, Early
  <2> QED
    BY <2>1, ElsewhereStep
<1>3. ASSUME NEW m \in Mail, InterAgentCommunication(m) PROVE TasksUnderWay'
  <2>1. Elsewhere(Loop)
    BY <1>3, <1>p DEF InterAgentCommunication, Elsewhere, Early
  <2> QED
    BY <2>1, ElsewhereStep
<1>4. ASSUME NEW n \in Notes, InjectResponseItems(n) PROVE TasksUnderWay'
  <2>1. Elsewhere(Loop)
    BY <1>4, <1>p DEF InjectResponseItems, Elsewhere, Early
  <2> QED
    BY <2>1, ElsewhereStep
<1>5. CASE Interrupt
  <2>1. Elsewhere(Loop)
    BY <1>5, <1>p DEF Interrupt, Elsewhere, Early
  <2> QED
    BY <2>1, ElsewhereStep
<1>6. ASSUME NEW t \in Turns, AbortTurnIfActive(t) PROVE TasksUnderWay'
  BY <1>6, <1>p DEF AbortTurnIfActive, TakeActiveTurn, TasksUnderWay
<1>7. CASE ContinueActiveGoalIfIdle
  <2>1. Elsewhere(Host)
    BY <1>7, <1>p DEF ContinueActiveGoalIfIdle, Elsewhere, Early
  <2> QED
    BY <2>1, ElsewhereStep
<1>8. CASE QueueForNextTurn
  <2>1. Elsewhere(Loop)
    BY <1>8, <1>p DEF QueueForNextTurn, Elsewhere, Early
  <2> QED
    BY <2>1, ElsewhereStep
<1>9. CASE AbortAllTasks
  BY <1>9, <1>p DEF AbortAllTasks, TakeActiveTurn, TasksUnderWay
<1>10. ASSUME NEW a \in Aborters, CancelToken(a) PROVE TasksUnderWay'
  <2>1. Elsewhere(a)
    BY <1>10, <1>p DEF CancelToken, Elsewhere, Early
  <2> QED
    BY <2>1, ElsewhereStep
<1>11. ASSUME NEW a \in Aborters, StopTask(a) PROVE TasksUnderWay'
  <2>1. PICK v \in victims[a] \intersect cancelled :
          pc' = [pc EXCEPT ![a] = "abort_emit", ![v] = IF @ = "done" THEN "done" ELSE "dead"]
    BY <1>11 DEF StopTask
  <2>2. /\ a \notin Turns /\ v \in Turns /\ pc'[v] \in Stopped
        /\ \A t \in Turns : t # v => pc'[t] = pc[t]
    BY <2>1, <1>p
  <2>3. v \notin tasks
    BY <2>1 DEF SafeInv, TasksHaveOneOwner
  <2>4. UNCHANGED <<tasks, victims, ts, input>>
    BY <1>11 DEF StopTask
  <2> QED
    BY <2>2, <2>3, <2>4, <1>p DEF TasksUnderWay
<1>12. ASSUME NEW a \in Aborters, EmitTurnAborted(a) PROVE TasksUnderWay'
  <2>1. \A b \in Actors : victims'[b] \subseteq victims[b]
    BY <1>12, <1>p DEF EmitTurnAborted
  <2>2. /\ UNCHANGED <<tasks, ts, input>>
        /\ \A t \in Turns : pc'[t] = pc[t]
    BY <1>12, <1>p DEF EmitTurnAborted
  <2> QED
    BY <2>1, <2>2, <1>p DEF TasksUnderWay
<1>13. ASSUME NEW a \in Aborters, PauseGoal(a) PROVE TasksUnderWay'
  <2>1. Elsewhere(a)
    BY <1>13, <1>p DEF PauseGoal, Elsewhere, Early
  <2> QED
    BY <2>1, ElsewhereStep
<1>14. ASSUME NEW a \in Aborters, ClearPending(a) PROVE TasksUnderWay'
  <2>1. Elsewhere(a)
    BY <1>14, <1>p DEF ClearPending, Elsewhere, Early
  <2> QED
    BY <2>1, ElsewhereStep
<1>15. ASSUME NEW a \in Actors, HasPendingWork(a) PROVE TasksUnderWay'
  <2>1. Elsewhere(a)
    BY <1>15, <1>p DEF HasPendingWork, AfterPendingWork, Elsewhere, Early
  <2> QED
    BY <2>1, ElsewhereStep
<1>16. ASSUME NEW a \in Actors, ReserveTurn(a) PROVE TasksUnderWay'
  <2>1. UNCHANGED <<victims, ts, input>> /\ UNCHANGED tasks
    BY <1>16 DEF ReserveTurn, GetOrInsert, SafeInv, NoTurnNoTasks
  <2>2. Elsewhere(a)
    BY <1>16, <1>p, <2>1 DEF ReserveTurn, AfterPendingWork, Elsewhere, Early
  <2> QED
    BY <2>2, ElsewhereStep
<1>17. ASSUME NEW a \in Actors, StartTake(a) PROVE TasksUnderWay'
  <2>1. Elsewhere(a)
    BY <1>17, <1>p DEF StartTake, Elsewhere, Early
  <2> QED
    BY <2>1, ElsewhereStep
<1>18. ASSUME NEW a \in Actors, StartInsert(a) PROVE TasksUnderWay'
  <2>1. UNCHANGED <<victims, input>> /\ UNCHANGED tasks
    BY <1>18 DEF StartInsert, GetOrInsert, SafeInv, NoTurnNoTasks
  <2>2. Elsewhere(a)
    BY <1>18, <1>p, <2>1 DEF StartInsert, Elsewhere, Early
  <2> QED
    BY <2>2, ElsewhereStep
<1>19. ASSUME NEW a \in Actors, StartPush(a) PROVE TasksUnderWay'
  <2>1. Elsewhere(a)
    BY <1>19, <1>p DEF StartPush, Elsewhere, Early
  <2> QED
    BY <2>1, ElsewhereStep
<1>20. ASSUME NEW a \in Actors, StartAdd(a) PROVE TasksUnderWay'
  <2>1. /\ sub[a] \in Turns /\ sub[a] # a /\ pc[sub[a]] = "made"
        /\ \A b \in Actors : sub[a] \notin victims[b]
    BY <1>20 DEF StartAdd, SafeInv, SubsAreFresh, TasksAreSpawned, HoldsSub, Starting
  <2>2. /\ tasks' = tasks \union {sub[a]}
        /\ UNCHANGED <<victims, ts, input>>
    BY <1>20 DEF StartAdd, GetOrInsert, SafeInv, NoTurnNoTasks
  <2>3. /\ pc'[sub[a]] = "run" /\ pc'[a] \in {"goal_lock", "idle", "done"}
        /\ \A b \in Actors : b # a /\ b # sub[a] => pc'[b] = pc[b]
    BY <1>20, <1>p, <2>1 DEF StartAdd, AfterPendingWork, Finished
  <2>4. a \notin tasks /\ \A b \in Actors : a \notin victims[b]
    BY <1>20 DEF StartAdd, TasksUnderWay
  <2> QED
    BY <1>p, <2>1, <2>2, <2>3, <2>4 DEF TasksUnderWay
<1>21. ASSUME NEW a \in Turns \union {Host}, AcquireContinuation(a) PROVE TasksUnderWay'
  <2>1. Elsewhere(a)
    BY <1>21, <1>p DEF AcquireContinuation, Elsewhere, Early
  <2> QED
    BY <2>1, ElsewhereStep
<1>22. ASSUME NEW a \in Turns \union {Host}, GoalCandidate(a) PROVE TasksUnderWay'
  <2>1. Elsewhere(a)
    BY <1>22, <1>p DEF GoalCandidate, Finished, Elsewhere, Early
  <2> QED
    BY <2>1, ElsewhereStep
<1>23. ASSUME NEW a \in Turns \union {Host}, GoalReserve(a) PROVE TasksUnderWay'
  <2>1. UNCHANGED <<victims, input>> /\ UNCHANGED tasks
    BY <1>23 DEF GoalReserve, GetOrInsert, SafeInv, NoTurnNoTasks
  <2>2. Elsewhere(a)
    BY <1>23, <1>p, <2>1 DEF GoalReserve, Finished, Elsewhere, Early
  <2> QED
    BY <2>2, ElsewhereStep
<1>24. ASSUME NEW a \in Turns \union {Host}, GoalReread(a) PROVE TasksUnderWay'
  <2>1. Elsewhere(a)
    BY <1>24, <1>p DEF GoalReread, ReleaseReservation, Finished, Elsewhere, Early
  <2> QED
    BY <2>1, ElsewhereStep
<1>25. ASSUME NEW a \in Turns \union {Host}, GoalCheck(a) PROVE TasksUnderWay'
  <2>1. Elsewhere(a)
    BY <1>25, <1>p DEF GoalCheck, ReleaseReservation, Finished, Elsewhere, Early
  <2> QED
    BY <2>1, ElsewhereStep
<1>26. ASSUME NEW t \in Turns, RecordInput(t) PROVE TasksUnderWay'
  BY <1>26, <1>u DEF RecordInput
<1>27. ASSUME NEW t \in Turns, DrainInput(t) PROVE TasksUnderWay'
  BY <1>27, <1>u DEF DrainInput
<1>28. ASSUME NEW t \in Turns, SetMailboxPhase(t) PROVE TasksUnderWay'
  BY <1>28, <1>u DEF SetMailboxPhase
<1>29. ASSUME NEW t \in Turns, RunReturn(t) PROVE TasksUnderWay'
  BY <1>29, <1>p DEF RunReturn, TasksUnderWay
<1>30. ASSUME NEW t \in Turns, CompleteGoal(t) PROVE TasksUnderWay'
  BY <1>30, <1>u DEF CompleteGoal
<1>31. ASSUME NEW t \in Turns, CheckCancelled(t) PROVE TasksUnderWay'
  <2>1. t \in tasks => t \notin cancelled
    BY DEF SafeInv, TasksHaveOneOwner
  <2> QED
    BY <1>31, <1>p, <2>1 DEF CheckCancelled, TasksUnderWay
<1>32. ASSUME NEW t \in Turns, RemoveTask(t) PROVE TasksUnderWay'
  <2>1. /\ tasks' = tasks \ {t} /\ UNCHANGED <<victims, input>>
        /\ \A b \in Actors : b # t => pc'[b] = pc[b] /\ ts'[b] = ts[b]
    BY <1>32, <1>p DEF RemoveTask
  <2>2. CASE ~NoTask /\ tasks = {t}
    <3>1. pc'[t] = "leftover" /\ ts'[t] # NoTS
      BY <1>32, <1>p, <2>2 DEF RemoveTask, NoTask
    <3>2. \A b \in Actors : t \notin victims[b]
      BY <2>2 DEF SafeInv, TasksHaveOneOwner
    <3> QED
      BY <1>p, <2>1, <3>1, <3>2 DEF TasksUnderWay
  <2>3. CASE ~(~NoTask /\ tasks = {t})
    <3>1. pc'[t] = "emit" /\ ts'[t] = ts[t]
      BY <1>32, <1>p, <2>3 DEF RemoveTask
    <3>2. ts[t] = NoTS
      BY <1>32 DEF RemoveTask, TasksUnderWay
    <3> QED
      BY <1>p, <2>1, <3>1, <3>2 DEF TasksUnderWay
  <2> QED
    BY <2>2, <2>3
<1>33. ASSUME NEW t \in Turns, RecordLeftover(t) PROVE TasksUnderWay'
  <2>1. /\ UNCHANGED <<tasks, victims, ts, input>> /\ pc[t] = "leftover" /\ pc'[t] = "emit"
        /\ \A b \in Actors : b # t => pc'[b] = pc[b]
    BY <1>33, <1>p DEF RecordLeftover
  <2> QED
    BY <1>p, <2>1 DEF TasksUnderWay
<1>34. ASSUME NEW t \in Turns, EmitTurnComplete(t) PROVE TasksUnderWay'
  BY <1>34, <1>p DEF EmitTurnComplete, TasksUnderWay
<1>35. ASSUME NEW t \in Turns, ClearActiveTurn(t) PROVE TasksUnderWay'
  <2>1. Elsewhere(t)
    BY <1>35, <1>p DEF ClearActiveTurn, Elsewhere, Early
  <2> QED
    BY <2>1, ElsewhereStep
<1>36. CASE UNCHANGED vars
  BY <1>36, <1>u DEF vars
<1> QED
  BY <1>1, <1>2, <1>3, <1>4, <1>5, <1>6, <1>7, <1>8, <1>9, <1>10, <1>11, <1>12, <1>13,
     <1>14, <1>15, <1>16, <1>17, <1>18, <1>19, <1>20, <1>21, <1>22, <1>23, <1>24,
     <1>25, <1>26, <1>27, <1>28, <1>29, <1>30, <1>31, <1>32, <1>33, <1>34, <1>35, <1>36
  DEF Next, Environment, Abort, StartTask, Continue, RunTask, OnTaskFinished

----------------------------------------------------------------------------
(* The continuation lock *)

\* The holder of the lock goes on with the continuation, and an active goal is only
\* paused while nobody holds the lock.
KeepsLock ==
    /\ UNCHANGED contLock
    /\ goal' \in {goal, "active", "complete"} \/ contLock = NoActor
    /\ \A a \in Actors : contLock = a =>
          \/ pc'[a] = pc[a]
          \/ /\ pc'[a] \in Continuing
             /\ pc'[a] \in Protected => pc[a] \in Protected \/ goal' = "active"

\* Every step keeps the lock with an actor that continues the goal, and the goal
\* unpaused once that actor has read it again.
LEMMA LockStep ==
    IndInv /\ TasksUnderWay /\ LockHeld /\ PausedGoalNotContinued /\ [Next]_vars
    => LockHeld' /\ PausedGoalNotContinued'
<1> SUFFICES ASSUME IndInv, TasksUnderWay, LockHeld, PausedGoalNotContinued, [Next]_vars
             PROVE  LockHeld' /\ PausedGoalNotContinued'
  OBVIOUS
<1> DEFINE Goal == LockHeld' /\ PausedGoalNotContinued'
<1>p. /\ pc \in [Actors -> Labels] /\ contLock \in Actors \union {NoActor}
      /\ victims \in [Actors -> SUBSET Turns]
  BY DEF IndInv, TypeOK
<1>k. ASSUME KeepsLock PROVE Goal
  BY <1>k, ActorAssumption
     DEF KeepsLock, LockHeld, PausedGoalNotContinued, Continuing, Protected, Starting
<1>r. ASSUME contLock' = NoActor PROVE Goal
  BY <1>r, ActorAssumption DEF LockHeld, PausedGoalNotContinued
<1>h. \A a \in Actors : pc[a] \notin Continuing => contLock # a
  BY DEF LockHeld
<1> SUFFICES Goal
  OBVIOUS
<1> HIDE DEF Goal
<1> USE <1>p, <1>h, ActorFacts, FreshTurnFact, ActorAssumption
    DEF Continuing, Protected, Starting, Aborters, Goto, turnVars, storeVars, goalVars,
        taskVars, frameVars
<1>1. ASSUME NEW m \in UserMsgs, UserInput(m) PROVE Goal
  <2>1. KeepsLock
    BY <1>1 DEF KeepsLock, UserInput
  <2> QED
    BY <2>1, <1>k
<1>2. CASE StandaloneTask
  <2>1. KeepsLock
    BY <1>2 DEF KeepsLock, StandaloneTask
  <2> QED
    BY <2>1, <1>k
<1>3. ASSUME NEW m \in Mail, InterAgentCommunication(m) PROVE Goal
  <2>1. KeepsLock
    BY <1>3 DEF KeepsLock, InterAgentCommunication
  <2> QED
    BY <2>1, <1>k
<1>4. ASSUME NEW n \in Notes, InjectResponseItems(n) PROVE Goal
  <2>1. KeepsLock
    BY <1>4 DEF KeepsLock, InjectResponseItems
  <2> QED
    BY <2>1, <1>k
<1>5. CASE Interrupt
  <2>1. KeepsLock
    BY <1>5 DEF KeepsLock, Interrupt
  <2> QED
    BY <2>1, <1>k
<1>6. ASSUME NEW t \in Turns, AbortTurnIfActive(t) PROVE Goal
  <2>1. KeepsLock
    BY <1>6 DEF KeepsLock, AbortTurnIfActive
  <2> QED
    BY <2>1, <1>k
<1>7. CASE ContinueActiveGoalIfIdle
  <2>1. KeepsLock
    BY <1>7 DEF KeepsLock, ContinueActiveGoalIfIdle
  <2> QED
    BY <2>1, <1>k
<1>8. CASE QueueForNextTurn
  <2>1. KeepsLock
    BY <1>8 DEF KeepsLock, QueueForNextTurn
  <2> QED
    BY <2>1, <1>k
<1>9. CASE AbortAllTasks
  <2>1. KeepsLock
    BY <1>9 DEF KeepsLock, AbortAllTasks
  <2> QED
    BY <2>1, <1>k
<1>10. ASSUME NEW a \in Aborters, CancelToken(a) PROVE Goal
  <2>1. KeepsLock
    BY <1>10 DEF KeepsLock, CancelToken
  <2> QED
    BY <2>1, <1>k
<1>11. ASSUME NEW a \in Aborters, StopTask(a) PROVE Goal
  <2>1. PICK v \in victims[a] :
          pc' = [pc EXCEPT ![a] = "abort_emit", ![v] = IF @ = "done" THEN "done" ELSE "dead"]
    BY <1>11 DEF StopTask
  <2>2. v \in Turns /\ pc[v] \notin Continuing
    BY <2>1 DEF TasksUnderWay, Running, Stopped
  <2>3. contLock # a /\ contLock # v
    BY <1>11, <2>2 DEF StopTask
  <2>4. KeepsLock
    BY <1>11, <2>1, <2>2, <2>3 DEF KeepsLock, StopTask
  <2> QED
    BY <2>4, <1>k
<1>12. ASSUME NEW a \in Aborters, EmitTurnAborted(a) PROVE Goal
  <2>1. KeepsLock
    BY <1>12 DEF KeepsLock, EmitTurnAborted
  <2> QED
    BY <2>1, <1>k
<1>13. ASSUME NEW a \in Aborters, PauseGoal(a) PROVE Goal
  <2>1. KeepsLock
    BY <1>13 DEF KeepsLock, PauseGoal
  <2> QED
    BY <2>1, <1>k
<1>14. ASSUME NEW a \in Aborters, ClearPending(a) PROVE Goal
  <2>1. KeepsLock
    BY <1>14 DEF KeepsLock, ClearPending
  <2> QED
    BY <2>1, <1>k
<1>15. ASSUME NEW a \in Actors, HasPendingWork(a) PROVE Goal
  <2>1. KeepsLock
    BY <1>15 DEF KeepsLock, HasPendingWork
  <2> QED
    BY <2>1, <1>k
<1>16. ASSUME NEW a \in Actors, ReserveTurn(a) PROVE Goal
  <2>1. KeepsLock
    BY <1>16 DEF KeepsLock, ReserveTurn
  <2> QED
    BY <2>1, <1>k
<1>17. ASSUME NEW a \in Actors, StartTake(a) PROVE Goal
  <2>1. KeepsLock
    BY <1>17 DEF KeepsLock, StartTake
  <2> QED
    BY <2>1, <1>k
<1>18. ASSUME NEW a \in Actors, StartInsert(a) PROVE Goal
  <2>1. KeepsLock
    BY <1>18 DEF KeepsLock, StartInsert
  <2> QED
    BY <2>1, <1>k
<1>19. ASSUME NEW a \in Actors, StartPush(a) PROVE Goal
  <2>1. KeepsLock
    BY <1>19 DEF KeepsLock, StartPush
  <2> QED
    BY <2>1, <1>k
<1>20. ASSUME NEW a \in Actors, StartAdd(a) PROVE Goal
  <2>1. CASE contLock = a
    BY <1>20, <2>1, <1>r DEF StartAdd
  <2>2. CASE contLock # a
    <3>1. sub[a] \in Turns /\ pc[sub[a]] = "made"
      BY <1>20 DEF StartAdd, IndInv, SafeInv, SubsAreFresh, HoldsSub
    <3>2. KeepsLock
      BY <1>20, <2>2, <3>1 DEF KeepsLock, StartAdd
    <3> QED
      BY <3>2, <1>k
  <2> QED
    BY <2>1, <2>2
<1>21. ASSUME NEW a \in Turns \union {Host}, AcquireContinuation(a) PROVE Goal
  BY <1>21 DEF AcquireContinuation, Goal, LockHeld, PausedGoalNotContinued
<1>22. ASSUME NEW a \in Turns \union {Host}, GoalCandidate(a) PROVE Goal
  <2>1. contLock' = NoActor \/ KeepsLock
    BY <1>22 DEF KeepsLock, GoalCandidate
  <2> QED
    BY <2>1, <1>k, <1>r
<1>23. ASSUME NEW a \in Turns \union {Host}, GoalReserve(a) PROVE Goal
  <2>1. contLock' = NoActor \/ KeepsLock
    BY <1>23 DEF KeepsLock, GoalReserve
  <2> QED
    BY <2>1, <1>k, <1>r
<1>24. ASSUME NEW a \in Turns \union {Host}, GoalReread(a) PROVE Goal
  <2>1. contLock' = NoActor \/ KeepsLock
    BY <1>24 DEF KeepsLock, GoalReread, ReleaseReservation
  <2> QED
    BY <2>1, <1>k, <1>r
<1>25. ASSUME NEW a \in Turns \union {Host}, GoalCheck(a) PROVE Goal
  <2>1. contLock' = NoActor \/ KeepsLock
    BY <1>25 DEF KeepsLock, GoalCheck, ReleaseReservation
  <2> QED
    BY <2>1, <1>k, <1>r
<1>26. ASSUME NEW t \in Turns, RunTask(t) PROVE Goal
  <2>1. KeepsLock
    BY <1>26 DEF KeepsLock, RunTask, RecordInput, DrainInput, SetMailboxPhase, RunReturn,
                 CompleteGoal
  <2> QED
    BY <2>1, <1>k
<1>27. ASSUME NEW t \in Turns, OnTaskFinished(t) PROVE Goal
  <2>1. KeepsLock
    BY <1>27 DEF KeepsLock, OnTaskFinished, CheckCancelled, RemoveTask, RecordLeftover,
                 EmitTurnComplete, ClearActiveTurn
  <2> QED
    BY <2>1, <1>k
<1>28. CASE UNCHANGED vars
  <2>1. KeepsLock
    BY <1>28 DEF KeepsLock, vars
  <2> QED
    BY <2>1, <1>k
<1> QED
  BY <1>1, <1>2, <1>3, <1>4, <1>5, <1>6, <1>7, <1>8, <1>9, <1>10, <1>11, <1>12, <1>13,
     <1>14, <1>15, <1>16, <1>17, <1>18, <1>19, <1>20, <1>21, <1>22, <1>23, <1>24,
     <1>25, <1>26, <1>27, <1>28
  DEF Next, Environment, Abort, StartTask, Continue

----------------------------------------------------------------------------
(* Where an item is *)

\* Somebody still refers to the turn state s.
Referred(s) == s \in TurnStates /\ (s = active \/ \E a \in Actors : ts[a] = s)

\* Item i is at place <<k, x>>.
Held(i, k, x) ==
    \/ k = "queued" /\ x = i /\ i \in queued
    \/ k = "mailbox" /\ x = i /\ i \in mailbox
    \/ k = "pending" /\ Referred(x) /\ i \in pending[x]
    \/ k = "bag" /\ x \in Actors /\ i \in bag[x]
    \/ k = "input" /\ x \in Turns /\ pc[x] = "made" /\ i \in input[x]

\* Item i is in one place at most, and in none unless the session holds it.
AtOnePlace(i) ==
    /\ \A k, x, l, y : Held(i, k, x) /\ Held(i, l, y) => k = l /\ x = y
    /\ \A k, x : Held(i, k, x) => fate[i] = "held"

\* What a step may do with an item: leave it, take it away, move it from <<k, x>> to
\* <<l, y>>, or bring it into the session.
Calm(i) ==
    /\ fate'[i] = fate[i]
    /\ i \in queued' => i \in queued
    /\ i \in mailbox' => i \in mailbox
    /\ \A s \in TurnStates : Referred(s)' /\ i \in pending'[s] => Referred(s) /\ i \in pending[s]
    /\ \A a \in Actors : i \in bag'[a] => i \in bag[a]
    /\ \A t \in Turns : pc'[t] = "made" /\ i \in input'[t] => pc[t] = "made" /\ i \in input[t]

Dropped(i, k, x) ==
    /\ Held(i, k, x)
    /\ \A l, y : Held(i, l, y)' => Held(i, l, y) /\ ~(l = k /\ y = x)

Moved(i, k, x, l, y) ==
    /\ Held(i, k, x) /\ fate'[i] = fate[i]
    /\ \A m, z : Held(i, m, z)' => (m = l /\ z = y) \/ (Held(i, m, z) /\ ~(m = k /\ z = x))

Sent(i, k, x) ==
    /\ fate[i] = "unsent"
    /\ \A l, y : Held(i, l, y)' => Held(i, l, y) \/ (l = k /\ y = x /\ fate'[i] = "held")

LEMMA CalmStep ==
    ASSUME NEW i, AtOnePlace(i), Calm(i)
    PROVE  AtOnePlace(i)'
<1>1. \A k, x : Held(i, k, x)' => Held(i, k, x)
  BY DEF Held, Calm, Referred
<1> QED
  BY <1>1 DEF AtOnePlace, Calm

LEMMA DroppedStep ==
    ASSUME NEW i, AtOnePlace(i), NEW k, NEW x, Dropped(i, k, x)
    PROVE  AtOnePlace(i)'
<1>1. \A l, y : ~Held(i, l, y)'
  BY DEF AtOnePlace, Dropped
<1> QED
  BY <1>1 DEF AtOnePlace

LEMMA MovedStep ==
    ASSUME NEW i, AtOnePlace(i), NEW k, NEW x, NEW l, NEW y, Moved(i, k, x, l, y)
    PROVE  AtOnePlace(i)'
<1>1. \A m, z : Held(i, m, z)' => m = l /\ z = y
  BY DEF AtOnePlace, Moved
<1>2. fate'[i] = "held"
  BY DEF AtOnePlace, Moved
<1> QED
  BY <1>1, <1>2 DEF AtOnePlace

LEMMA SentStep ==
    ASSUME NEW i, AtOnePlace(i), NEW k, NEW x, Sent(i, k, x)
    PROVE  AtOnePlace(i)'
<1>1. \A l, y : Held(i, l, y)' => l = k /\ y = x /\ fate'[i] = "held"
  BY DEF AtOnePlace, Sent
<1> QED
  BY <1>1 DEF AtOnePlace

----------------------------------------------------------------------------
(* The turn states somebody refers to *)

\* No new reference, or only to the active turn.
LEMMA RefsKept ==
    ASSUME active' \in {active, NoTS}, \A a \in Actors : ts'[a] \in {ts[a], active, NoTS}
    PROVE  \A s \in TurnStates : Referred(s)' => Referred(s)
BY ActorAssumption DEF Referred

\* get_or_insert_with refers to the active turn, or to a new one without input.
LEMMA InsertKeeps ==
    ASSUME TypeOK, NEW r \in TurnStates, NEW T, GetOrInsert(r, T),
           \A a \in Actors : ts'[a] \in {ts[a], r}
    PROVE  \A s \in TurnStates : \A i :
              Referred(s)' /\ i \in pending'[s] => Referred(s) /\ i \in pending[s]
<1>p. pending \in [TurnStates -> SUBSET Items]
  BY DEF TypeOK
<1>1. CASE active # NoTS /\ r = active /\ UNCHANGED pending
  BY <1>1 DEF GetOrInsert, Referred
<1>2. CASE active = NoTS /\ pending' = [pending EXCEPT ![r] = {}]
  BY <1>2, <1>p DEF GetOrInsert, Referred
<1> QED
  BY <1>1, <1>2 DEF GetOrInsert

----------------------------------------------------------------------------
(* Every step keeps every item in one place *)

LEMMA ItemStep ==
    ASSUME IndInv, IndInv', TasksUnderWay, [Next]_vars, NEW i \in Tracked, AtOnePlace(i)
    PROVE  AtOnePlace(i)'
<1>a. TypeOK /\ SafeInv
  BY DEF IndInv
<1>p. /\ pc \in [Actors -> Labels] /\ ts \in [Actors -> TurnStates \union {NoTS}]
      /\ active \in TurnStates \union {NoTS} /\ tasks \subseteq Turns
      /\ pending \in [TurnStates -> SUBSET Items] /\ bag \in [Actors -> SUBSET Items]
      /\ input \in [Turns -> SUBSET UserMsgs] /\ victims \in [Actors -> SUBSET Turns]
  BY <1>a DEF TypeOK
<1>g. i # GoalPrompt
  BY ItemAssumption
<1> USE <1>a, <1>p, <1>g, ActorFacts, FreshTurnFact, ActorAssumption
    DEF Aborters, Goto, turnVars, storeVars, goalVars, taskVars, frameVars
<1>c. ASSUME active' \in {active, NoTS},
             \A b \in Actors : ts'[b] \in {ts[b], active, NoTS},
             \A s \in TurnStates : i \in pending'[s] => i \in pending[s],
             \A u \in Turns : pc'[u] = "made" => pc[u] = "made" \/ input[u] = {},
             UNCHANGED <<queued, mailbox, fate, bag, input>>
      PROVE  AtOnePlace(i)'
  <2>1. \A s \in TurnStates : Referred(s)' => Referred(s)
    BY <1>c, RefsKept
  <2>2. Calm(i)
    BY <1>c, <2>1 DEF Calm
  <2> QED
    BY <2>2, CalmStep
<1>d. ASSUME NEW a \in Actors, UNCHANGED <<active, ts, fate, input>>, TakePendingInput,
             \/ queued' = {} /\ bag'[a] = queued \union PendingInput
             \/ queued' = queued /\ bag'[a] = PendingInput,
             \A b \in Actors \ {a} : bag'[b] = bag[b],
             \A t \in Turns : pc'[t] = "made" => pc[t] = "made"
      PROVE  AtOnePlace(i)'
  <2>1. \A s : Referred(s)' <=> Referred(s)
    BY <1>d DEF Referred
  <2>2. /\ \A s \in TurnStates : pending'[s] = IF s = active THEN {} ELSE pending[s]
        /\ mailbox' = IF AcceptsMail THEN {} ELSE mailbox
        /\ i \in queued' => i \in queued
    BY <1>d DEF TakePendingInput
  <2>3. \A s : Referred(s) => s \in TurnStates
    BY DEF Referred
  <2>4. CASE i \in TurnPending
    <3>1. Held(i, "pending", active)
      BY <2>4 DEF Held, TurnPending, Referred
    <3>2. Moved(i, "pending", active, "bag", a)
      BY <1>d, <2>1, <2>2, <2>3, <3>1 DEF Moved, Held
    <3> QED
      BY <3>2, MovedStep
  <2>5. CASE i \in mailbox /\ AcceptsMail
    <3>1. Moved(i, "mailbox", i, "bag", a)
      BY <1>d, <2>1, <2>2, <2>3, <2>5 DEF Moved, Held
    <3> QED
      BY <3>1, MovedStep
  <2>6. CASE i \in queued /\ queued' = {}
    <3>1. Moved(i, "queued", i, "bag", a)
      BY <1>d, <2>1, <2>2, <2>3, <2>6 DEF Moved, Held
    <3> QED
      BY <3>1, MovedStep
  <2>7. CASE i \notin bag'[a]
    <3>1. Calm(i)
      BY <1>d, <2>1, <2>2, <2>7 DEF Calm
    <3> QED
      BY <3>1, CalmStep
  <2> QED
    BY <1>d, <2>4, <2>5, <2>6, <2>7 DEF PendingInput
<1>1. ASSUME NEW m \in UserMsgs, UserInput(m) PROVE AtOnePlace(i)'
  <2>1. UNCHANGED <<active, ts, queued, mailbox, bag>> /\ fate[m] = "unsent"
    BY <1>1 DEF UserInput
  <2>2. \A j \in Tracked : j # m => fate'[j] = fate[j]
    BY <1>1 DEF UserInput, Fated
  <2>3. CASE ~NoTask
    <3>1. active \in TurnStates /\ UNCHANGED <<pc, input>>
      BY <1>1, <2>3 DEF UserInput, NoTask
    <3>2. \/ /\ \A s \in TurnStates :
                   pending'[s] = IF s = active THEN pending[s] \union {m} ELSE pending[s]
             /\ fate'[m] = "held"
          \/ UNCHANGED pending
      BY <1>1, <2>3, <3>1 DEF UserInput, Fated, Tracked
    <3>3. \A s : Referred(s)' <=> Referred(s)
      BY <2>1 DEF Referred
    <3>4. CASE i = m
      <4>1. Sent(i, "pending", active)
        BY <2>1, <3>1, <3>2, <3>3, <3>4 DEF Sent, Held, Referred
      <4> QED
        BY <4>1, SentStep
    <3>5. CASE i # m
      <4>1. \A s \in TurnStates : i \in pending'[s] => i \in pending[s]
        BY <3>2, <3>5
      <4>2. Calm(i)
        BY <2>1, <2>2, <3>1, <3>3, <3>5, <4>1 DEF Calm
      <4> QED
        BY <4>2, CalmStep
    <3> QED
      BY <3>4, <3>5
  <2>4. CASE NoTask
    <3>1. /\ HasFreshTurn /\ UNCHANGED pending /\ fate'[m] = "held"
          /\ input'[FreshTurn] = {m}
          /\ \A t \in Turns : t # FreshTurn => input'[t] = input[t] /\ pc'[t] = pc[t]
      BY <1>1, <2>4 DEF UserInput, Fated, Tracked
    <3>2. \A s : Referred(s)' <=> Referred(s)
      BY <2>1 DEF Referred
    <3>3. CASE i = m
      <4>1. Sent(i, "input", FreshTurn)
        BY <2>1, <3>1, <3>2, <3>3 DEF Sent, Held
      <4> QED
        BY <4>1, SentStep
    <3>4. CASE i # m
      <4>1. Calm(i)
        BY <2>1, <2>2, <3>1, <3>2, <3>4 DEF Calm
      <4> QED
        BY <4>1, CalmStep
    <3> QED
      BY <3>3, <3>4
  <2> QED
    BY <2>3, <2>4
<1>2. CASE StandaloneTask
  <2>1. /\ active' \in {active, NoTS}
        /\ \A b \in Actors : ts'[b] \in {ts[b], active, NoTS}
    BY <1>2 DEF StandaloneTask
  <2>2. \A s \in TurnStates : i \in pending'[s] => i \in pending[s]
    BY <1>2 DEF StandaloneTask
  <2>3. \A u \in Turns : pc'[u] = "made" => pc[u] = "made" \/ input[u] = {}
    BY <1>2 DEF StandaloneTask, TasksUnderWay
  <2>4. UNCHANGED <<queued, mailbox, fate, bag, input>>
    BY <1>2 DEF StandaloneTask
  <2> QED
    BY <1>c, <2>1, <2>2, <2>3, <2>4
<1>3. ASSUME NEW m \in Mail, InterAgentCommunication(m) PROVE AtOnePlace(i)'
  <2>1. /\ UNCHANGED <<active, ts, pending, queued, bag, input>>
        /\ fate[m] = "unsent" /\ mailbox' = mailbox \union {m}
        /\ \A t \in Turns : pc'[t] = pc[t]
    BY <1>3 DEF InterAgentCommunication
  <2>2. \A j \in Tracked : fate'[j] = IF j = m THEN "held" ELSE fate[j]
    BY <1>3 DEF InterAgentCommunication, Fated
  <2>3. \A s : Referred(s)' <=> Referred(s)
    BY <2>1 DEF Referred
  <2>4. CASE i = m
    <3>1. Sent(i, "mailbox", i)
      BY <2>1, <2>2, <2>3, <2>4 DEF Sent, Held
    <3> QED
      BY <3>1, SentStep
  <2>5. CASE i # m
    <3>1. Calm(i)
      BY <2>1, <2>2, <2>3, <2>5 DEF Calm
    <3> QED
      BY <3>1, CalmStep
  <2> QED
    BY <2>4, <2>5
<1>4. ASSUME NEW n \in Notes, InjectResponseItems(n) PROVE AtOnePlace(i)'
  <2>1. /\ UNCHANGED <<active, ts, queued, mailbox, input>> /\ fate[n] = "unsent"
        /\ \A t \in Turns : pc'[t] = pc[t]
    BY <1>4 DEF InjectResponseItems
  <2>2. \A j \in Tracked : fate'[j] = IF j = n THEN "held" ELSE fate[j]
    BY <1>4 DEF InjectResponseItems, Fated
  <2>3. \A s : Referred(s)' <=> Referred(s)
    BY <2>1 DEF Referred
  <2>4. CASE active # NoTS
    <3>1. /\ UNCHANGED bag /\ active \in TurnStates
          /\ \A s \in TurnStates :
                pending'[s] = IF s = active THEN pending[s] \union {n} ELSE pending[s]
      BY <1>4, <2>4 DEF InjectResponseItems
    <3>2. CASE i = n
      <4>1. Sent(i, "pending", active)
        BY <2>1, <2>2, <2>3, <3>1, <3>2 DEF Sent, Held, Referred
      <4> QED
        BY <4>1, SentStep
    <3>3. CASE i # n
      <4>1. Calm(i)
        BY <2>1, <2>2, <2>3, <3>1, <3>3 DEF Calm
      <4> QED
        BY <4>1, CalmStep
    <3> QED
      BY <3>2, <3>3
  <2>5. CASE active = NoTS
    <3>1. /\ UNCHANGED pending
          /\ \A b \in Actors : bag'[b] = IF b = Loop THEN {n} ELSE bag[b]
      BY <1>4, <2>5 DEF InjectResponseItems
    <3>2. CASE i = n
      <4>1. Sent(i, "bag", Loop)
        BY <2>1, <2>2, <2>3, <3>1, <3>2 DEF Sent, Held
      <4> QED
        BY <4>1, SentStep
    <3>3. CASE i # n
      <4>1. Calm(i)
        BY <2>1, <2>2, <2>3, <3>1, <3>3 DEF Calm
      <4> QED
        BY <4>1, CalmStep
    <3> QED
      BY <3>2, <3>3
  <2> QED
    BY <2>4, <2>5
<1>5. CASE Interrupt
  <2>1. /\ active' \in {active, NoTS}
        /\ \A b \in Actors : ts'[b] \in {ts[b], active, NoTS}
    BY <1>5 DEF Interrupt
  <2>2. \A s \in TurnStates : i \in pending'[s] => i \in pending[s]
    BY <1>5 DEF Interrupt
  <2>3. \A u \in Turns : pc'[u] = "made" => pc[u] = "made" \/ input[u] = {}
    BY <1>5 DEF Interrupt
  <2>4. UNCHANGED <<queued, mailbox, fate, bag, input>>
    BY <1>5 DEF Interrupt
  <2> QED
    BY <1>c, <2>1, <2>2, <2>3, <2>4
<1>6. ASSUME NEW t \in Turns, AbortTurnIfActive(t) PROVE AtOnePlace(i)'
  <2>1. /\ active' \in {active, NoTS}
        /\ \A b \in Actors : ts'[b] \in {ts[b], active, NoTS}
    BY <1>6 DEF AbortTurnIfActive, TakeActiveTurn
  <2>2. \A s \in TurnStates : i \in pending'[s] => i \in pending[s]
    BY <1>6 DEF AbortTurnIfActive, TakeActiveTurn
  <2>3. \A u \in Turns : pc'[u] = "made" => pc[u] = "made" \/ input[u] = {}
    BY <1>6 DEF AbortTurnIfActive, TakeActiveTurn
  <2>4. UNCHANGED <<queued, mailbox, fate, bag, input>>
    BY <1>6 DEF AbortTurnIfActive, TakeActiveTurn
  <2> QED
    BY <1>c, <2>1, <2>2, <2>3, <2>4
<1>7. CASE ContinueActiveGoalIfIdle
  <2>1. /\ active' \in {active, NoTS}
        /\ \A b \in Actors : ts'[b] \in {ts[b], active, NoTS}
    BY <1>7 DEF ContinueActiveGoalIfIdle
  <2>2. \A s \in TurnStates : i \in pending'[s] => i \in pending[s]
    BY <1>7 DEF ContinueActiveGoalIfIdle
  <2>3. \A u \in Turns : pc'[u] = "made" => pc[u] = "made" \/ input[u] = {}
    BY <1>7 DEF ContinueActiveGoalIfIdle
  <2>4. UNCHANGED <<queued, mailbox, fate, bag, input>>
    BY <1>7 DEF ContinueActiveGoalIfIdle
  <2> QED
    BY <1>c, <2>1, <2>2, <2>3, <2>4
<1>8. CASE QueueForNextTurn
  <2>1. /\ UNCHANGED <<active, ts, pending, mailbox, input, fate>>
        /\ queued' = queued \union bag[Loop]
        /\ \A b \in Actors : bag'[b] = IF b = Loop THEN {} ELSE bag[b]
        /\ \A t \in Turns : pc'[t] = pc[t]
    BY <1>8 DEF QueueForNextTurn
  <2>2. \A s : Referred(s)' <=> Referred(s)
    BY <2>1 DEF Referred
  <2>3. CASE i \in bag[Loop]
    <3>1. Moved(i, "bag", Loop, "queued", i)
      BY <2>1, <2>2, <2>3 DEF Moved, Held
    <3> QED
      BY <3>1, MovedStep
  <2>4. CASE i \notin bag[Loop]
    <3>1. Calm(i)
      BY <2>1, <2>2, <2>4 DEF Calm
    <3> QED
      BY <3>1, CalmStep
  <2> QED
    BY <2>3, <2>4
<1>9. CASE AbortAllTasks
  <2>1. /\ active' \in {active, NoTS}
        /\ \A b \in Actors : ts'[b] \in {ts[b], active, NoTS}
    BY <1>9 DEF AbortAllTasks, TakeActiveTurn
  <2>2. \A s \in TurnStates : i \in pending'[s] => i \in pending[s]
    BY <1>9 DEF AbortAllTasks, TakeActiveTurn
  <2>3. \A u \in Turns : pc'[u] = "made" => pc[u] = "made" \/ input[u] = {}
    BY <1>9 DEF AbortAllTasks, TakeActiveTurn
  <2>4. UNCHANGED <<queued, mailbox, fate, bag, input>>
    BY <1>9 DEF AbortAllTasks, TakeActiveTurn
  <2> QED
    BY <1>c, <2>1, <2>2, <2>3, <2>4
<1>10. ASSUME NEW a \in Aborters, CancelToken(a) PROVE AtOnePlace(i)'
  <2>1. /\ active' \in {active, NoTS}
        /\ \A b \in Actors : ts'[b] \in {ts[b], active, NoTS}
    BY <1>10 DEF CancelToken
  <2>2. \A s \in TurnStates : i \in pending'[s] => i \in pending[s]
    BY <1>10 DEF CancelToken
  <2>3. \A u \in Turns : pc'[u] = "made" => pc[u] = "made" \/ input[u] = {}
    BY <1>10 DEF CancelToken
  <2>4. UNCHANGED <<queued, mailbox, fate, bag, input>>
    BY <1>10 DEF CancelToken
  <2> QED
    BY <1>c, <2>1, <2>2, <2>3, <2>4
<1>11. ASSUME NEW a \in Aborters, StopTask(a) PROVE AtOnePlace(i)'
  <2>1. PICK v \in victims[a] \intersect cancelled :
          /\ pc' = [pc EXCEPT ![a] = "abort_emit", ![v] = IF @ = "done" THEN "done" ELSE "dead"]
          /\ fate' = Fated(bag[v], "aborted")
          /\ bag' = [bag EXCEPT ![v] = {}]
    BY <1>11 DEF StopTask
  <2>2. UNCHANGED <<active, ts, pending, queued, mailbox, input>>
    BY <1>11 DEF StopTask
  <2>3. /\ v \in Actors
        /\ \A b \in Actors : bag'[b] = IF b = v THEN {} ELSE bag[b]
        /\ \A t \in Turns : pc'[t] = "made" => pc[t] = "made"
        /\ i \notin bag[v] => fate'[i] = fate[i]
    BY <2>1 DEF Fated
  <2>4. \A s : Referred(s)' <=> Referred(s)
    BY <2>2 DEF Referred
  <2>5. CASE i \in bag[v]
    <3>1. Dropped(i, "bag", v)
      BY <2>2, <2>3, <2>4, <2>5 DEF Dropped, Held
    <3> QED
      BY <3>1, DroppedStep
  <2>6. CASE i \notin bag[v]
    <3>1. Calm(i)
      BY <2>2, <2>3, <2>4, <2>6 DEF Calm
    <3> QED
      BY <3>1, CalmStep
  <2> QED
    BY <2>5, <2>6
<1>12. ASSUME NEW a \in Aborters, EmitTurnAborted(a) PROVE AtOnePlace(i)'
  <2>1. /\ active' \in {active, NoTS}
        /\ \A b \in Actors : ts'[b] \in {ts[b], active, NoTS}
    BY <1>12 DEF EmitTurnAborted
  <2>2. \A s \in TurnStates : i \in pending'[s] => i \in pending[s]
    BY <1>12 DEF EmitTurnAborted
  <2>3. \A u \in Turns : pc'[u] = "made" => pc[u] = "made" \/ input[u] = {}
    BY <1>12 DEF EmitTurnAborted
  <2>4. UNCHANGED <<queued, mailbox, fate, bag, input>>
    BY <1>12 DEF EmitTurnAborted
  <2> QED
    BY <1>c, <2>1, <2>2, <2>3, <2>4
<1>13. ASSUME NEW a \in Aborters, PauseGoal(a) PROVE AtOnePlace(i)'
  <2>1. /\ active' \in {active, NoTS}
        /\ \A b \in Actors : ts'[b] \in {ts[b], active, NoTS}
    BY <1>13 DEF PauseGoal
  <2>2. \A s \in TurnStates : i \in pending'[s] => i \in pending[s]
    BY <1>13 DEF PauseGoal
  <2>3. \A u \in Turns : pc'[u] = "made" => pc[u] = "made" \/ input[u] = {}
    BY <1>13 DEF PauseGoal
  <2>4. UNCHANGED <<queued, mailbox, fate, bag, input>>
    BY <1>13 DEF PauseGoal
  <2> QED
    BY <1>c, <2>1, <2>2, <2>3, <2>4
<1>14. ASSUME NEW a \in Aborters, ClearPending(a) PROVE AtOnePlace(i)'
  <2>1. /\ UNCHANGED <<active, queued, mailbox, input, bag>>
        /\ \A b \in Actors : ts'[b] \in {ts[b], NoTS}
        /\ \A t \in Turns : pc'[t] = "made" => pc[t] = "made"
    BY <1>14 DEF ClearPending
  <2>2. \A s \in TurnStates : Referred(s)' => Referred(s)
    BY <2>1, RefsKept
  <2>3. CASE ts[a] # NoTS /\ i \in pending[ts[a]]
    <3>1. Referred(ts[a])
      BY <2>3 DEF Referred
    <3>2. \A s \in TurnStates : pending'[s] = IF s = ts[a] THEN {} ELSE pending[s]
      BY <1>14, <2>3 DEF ClearPending
    <3>3. \A s : Referred(s)' => s \in TurnStates /\ Referred(s)
      BY <2>2 DEF Referred
    <3>4. Dropped(i, "pending", ts[a])
      BY <2>1, <2>3, <3>1, <3>2, <3>3 DEF Dropped, Held
    <3> QED
      BY <3>4, DroppedStep
  <2>4. CASE ~(ts[a] # NoTS /\ i \in pending[ts[a]])
    <3>1. /\ \A s \in TurnStates : pending'[s] \in {pending[s], {}}
          /\ fate'[i] = fate[i]
      BY <1>14, <2>4 DEF ClearPending, Fated
    <3>2. Calm(i)
      BY <2>1, <2>2, <3>1 DEF Calm
    <3> QED
      BY <3>2, CalmStep
  <2> QED
    BY <2>3, <2>4
<1>15. ASSUME NEW a \in Actors, HasPendingWork(a) PROVE AtOnePlace(i)'
  <2>1. /\ active' \in {active, NoTS}
        /\ \A b \in Actors : ts'[b] \in {ts[b], active, NoTS}
    BY <1>15 DEF HasPendingWork, AfterPendingWork
  <2>2. \A s \in TurnStates : i \in pending'[s] => i \in pending[s]
    BY <1>15 DEF HasPendingWork, AfterPendingWork
  <2>3. \A u \in Turns : pc'[u] = "made" => pc[u] = "made" \/ input[u] = {}
    BY <1>15 DEF HasPendingWork, AfterPendingWork
  <2>4. UNCHANGED <<queued, mailbox, fate, bag, input>>
    BY <1>15 DEF HasPendingWork, AfterPendingWork
  <2> QED
    BY <1>c, <2>1, <2>2, <2>3, <2>4
<1>16. ASSUME NEW a \in Actors, ReserveTurn(a) PROVE AtOnePlace(i)'
  <2>1. UNCHANGED <<queued, mailbox, fate, bag, input, ts>>
    BY <1>16 DEF ReserveTurn
  <2>2. \A t \in Turns : pc'[t] = "made" => pc[t] = "made" \/ input[t] = {}
    BY <1>16 DEF ReserveTurn, AfterPendingWork, TasksUnderWay
  <2>3. \A s \in TurnStates :
           Referred(s)' /\ i \in pending'[s] => Referred(s) /\ i \in pending[s]
    <3>1. CASE UNCHANGED turnVars
      BY <2>1, <3>1 DEF Referred
    <3>2. CASE \E r \in TurnStates : GetOrInsert(r, {})
      BY <2>1, <3>2, InsertKeeps
    <3> QED
      BY <1>16, <3>1, <3>2 DEF ReserveTurn
  <2>4. Calm(i)
    BY <2>1, <2>2, <2>3 DEF Calm
  <2> QED
    BY <2>4, CalmStep
<1>17. ASSUME NEW a \in Actors, StartTake(a) PROVE AtOnePlace(i)'
  <2>1. /\ UNCHANGED <<active, ts, fate, input>> /\ queued' = {} /\ TakePendingInput
        /\ \A b \in Actors : bag'[b] = IF b = a THEN queued \union PendingInput ELSE bag[b]
        /\ \A t \in Turns : pc'[t] = "made" => pc[t] = "made"
    BY <1>17 DEF StartTake
  <2> QED
    BY <2>1, <1>d
<1>18. ASSUME NEW a \in Actors, StartInsert(a) PROVE AtOnePlace(i)'
  <2>1. UNCHANGED <<queued, mailbox, fate, bag, input>>
    BY <1>18 DEF StartInsert
  <2>2. \A t \in Turns : pc'[t] = "made" => pc[t] = "made"
    BY <1>18 DEF StartInsert
  <2>3. PICK r \in TurnStates :
          /\ GetOrInsert(r, IF active = NoTS THEN {} ELSE tasks)
          /\ ts' = [ts EXCEPT ![a] = r]
    BY <1>18 DEF StartInsert
  <2>4. \A b \in Actors : ts'[b] \in {ts[b], r}
    BY <2>3
  <2>5. \A s \in TurnStates :
           Referred(s)' /\ i \in pending'[s] => Referred(s) /\ i \in pending[s]
    BY <2>3, <2>4, InsertKeeps
  <2>6. Calm(i)
    BY <2>1, <2>2, <2>5 DEF Calm
  <2> QED
    BY <2>6, CalmStep
<1>19. ASSUME NEW a \in Actors, StartPush(a) PROVE AtOnePlace(i)'
  <2>1. /\ UNCHANGED <<active, queued, mailbox, input, fate>>
        /\ \A b \in Actors : ts'[b] \in {ts[b], NoTS}
        /\ \A b \in Actors : bag'[b] = IF b = a THEN {} ELSE bag[b]
        /\ \A t \in Turns : pc'[t] = "made" => pc[t] = "made"
    BY <1>19 DEF StartPush
  <2>2. \A s \in TurnStates :
           pending'[s] = IF s = ts[a] THEN pending[s] \union bag[a] ELSE pending[s]
    BY <1>19 DEF StartPush
  <2>3. \A s : Referred(s)' => s \in TurnStates /\ Referred(s)
    BY <2>1, RefsKept DEF Referred
  <2>4. CASE i \in bag[a]
    <3>1. Moved(i, "bag", a, "pending", ts[a])
      BY <2>1, <2>2, <2>3, <2>4 DEF Moved, Held
    <3> QED
      BY <3>1, MovedStep
  <2>5. CASE i \notin bag[a]
    <3>1. Calm(i)
      BY <2>1, <2>2, <2>3, <2>5 DEF Calm
    <3> QED
      BY <3>1, CalmStep
  <2> QED
    BY <2>4, <2>5
<1>20. ASSUME NEW a \in Actors, StartAdd(a) PROVE AtOnePlace(i)'
  <2>1. sub[a] \in Turns /\ pc[sub[a]] = "made"
    BY <1>20 DEF StartAdd, SafeInv, SubsAreFresh, HoldsSub, Starting
  <2>2. /\ UNCHANGED <<queued, mailbox, fate, input, ts>>
        /\ \A b \in Actors : bag'[b] = IF b = sub[a] THEN input[b] ELSE bag[b]
        /\ \A t \in Turns : pc'[t] = "made" => pc[t] = "made" /\ t # sub[a]
    BY <1>20, <2>1 DEF StartAdd, AfterPendingWork, Finished
  <2>3. PICK r \in TurnStates :
          GetOrInsert(r, (IF active = NoTS THEN {} ELSE tasks) \union {sub[a]})
    BY <1>20 DEF StartAdd
  <2>4. \A s \in TurnStates :
           Referred(s)' /\ i \in pending'[s] => Referred(s) /\ i \in pending[s]
    BY <2>2, <2>3, InsertKeeps
  <2>5. CASE i \in input[sub[a]]
    <3>1. \A s : Referred(s)' => s \in TurnStates
      BY DEF Referred
    <3>2. Moved(i, "input", sub[a], "bag", sub[a])
      BY <2>1, <2>2, <2>4, <2>5, <3>1 DEF Moved, Held
    <3> QED
      BY <3>2, MovedStep
  <2>6. CASE i \notin input[sub[a]]
    <3>1. Calm(i)
      BY <2>1, <2>2, <2>4, <2>6 DEF Calm
    <3> QED
      BY <3>1, CalmStep
  <2> QED
    BY <2>5, <2>6
<1>21. ASSUME NEW a \in Turns \union {Host}, AcquireContinuation(a) PROVE AtOnePlace(i)'
  <2>1. /\ active' \in {active, NoTS}
        /\ \A b \in Actors : ts'[b] \in {ts[b], active, NoTS}
    BY <1>21 DEF AcquireContinuation
  <2>2. \A s \in TurnStates : i \in pending'[s] => i \in pending[s]
    BY <1>21 DEF AcquireContinuation
  <2>3. \A u \in Turns : pc'[u] = "made" => pc[u] = "made" \/ input[u] = {}
    BY <1>21 DEF AcquireContinuation
  <2>4. UNCHANGED <<queued, mailbox, fate, bag, input>>
    BY <1>21 DEF AcquireContinuation
  <2> QED
    BY <1>c, <2>1, <2>2, <2>3, <2>4
<1>22. ASSUME NEW a \in Turns \union {Host}, GoalCandidate(a) PROVE AtOnePlace(i)'
  <2>1. /\ active' \in {active, NoTS}
        /\ \A b \in Actors : ts'[b] \in {ts[b], active, NoTS}
    BY <1>22 DEF GoalCandidate, Finished
  <2>2. \A s \in TurnStates : i \in pending'[s] => i \in pending[s]
    BY <1>22 DEF GoalCandidate, Finished
  <2>3. \A u \in Turns : pc'[u] = "made" => pc[u] = "made" \/ input[u] = {}
    BY <1>22 DEF GoalCandidate, Finished
  <2>4. UNCHANGED <<queued, mailbox, fate, bag, input>>
    BY <1>22 DEF GoalCandidate, Finished
  <2> QED
    BY <1>c, <2>1, <2>2, <2>3, <2>4
<1>23. ASSUME NEW a \in Turns \union {Host}, GoalReserve(a) PROVE AtOnePlace(i)'
  <2>1. UNCHANGED <<queued, mailbox, fate, bag, input>>
    BY <1>23 DEF GoalReserve
  <2>2. \A t \in Turns : pc'[t] = "made" => pc[t] = "made"
    BY <1>23 DEF GoalReserve, Finished
  <2>3. \A s \in TurnStates :
           Referred(s)' /\ i \in pending'[s] => Referred(s) /\ i \in pending[s]
    <3>1. CASE UNCHANGED <<turnVars, ts>>
      BY <3>1 DEF Referred
    <3>2. ASSUME NEW r \in TurnStates, GetOrInsert(r, {}), ts' = [ts EXCEPT ![a] = r]
          PROVE  \A s \in TurnStates :
                    Referred(s)' /\ i \in pending'[s] => Referred(s) /\ i \in pending[s]
      <4>1. \A b \in Actors : ts'[b] \in {ts[b], r}
        BY <3>2
      <4> QED
        BY <3>2, <4>1, InsertKeeps
    <3> QED
      BY <1>23, <3>1, <3>2 DEF GoalReserve
  <2>4. Calm(i)
    BY <2>1, <2>2, <2>3 DEF Calm
  <2> QED
    BY <2>4, CalmStep
<1>24. ASSUME NEW a \in Turns \union {Host}, GoalReread(a) PROVE AtOnePlace(i)'
  <2>1. /\ active' \in {active, NoTS}
        /\ \A b \in Actors : ts'[b] \in {ts[b], active, NoTS}
    BY <1>24 DEF GoalReread, ReleaseReservation, Finished
  <2>2. \A s \in TurnStates : i \in pending'[s] => i \in pending[s]
    BY <1>24 DEF GoalReread, ReleaseReservation, Finished
  <2>3. \A u \in Turns : pc'[u] = "made" => pc[u] = "made" \/ input[u] = {}
    BY <1>24 DEF GoalReread, ReleaseReservation, Finished
  <2>4. UNCHANGED <<queued, mailbox, fate, bag, input>>
    BY <1>24 DEF GoalReread, ReleaseReservation, Finished
  <2> QED
    BY <1>c, <2>1, <2>2, <2>3, <2>4
<1>25. ASSUME NEW a \in Turns \union {Host}, GoalCheck(a) PROVE AtOnePlace(i)'
  <2>1. /\ active' \in {active, NoTS}
        /\ \A b \in Actors : ts'[b] \in {ts[b], active, NoTS}
    BY <1>25 DEF GoalCheck, ReleaseReservation, Finished
  <2>2. \A s \in TurnStates : i \in pending'[s] => i \in pending[s]
    BY <1>25 DEF GoalCheck, ReleaseReservation, Finished
  <2>3. \A u \in Turns : pc'[u] = "made" => pc[u] = "made" \/ input[u] = {}
    BY <1>25 DEF GoalCheck, ReleaseReservation, Finished, TasksUnderWay
  <2>4. UNCHANGED <<queued, mailbox, fate, bag, input>>
    BY <1>25 DEF GoalCheck, ReleaseReservation, Finished
  <2> QED
    BY <1>c, <2>1, <2>2, <2>3, <2>4
<1>26. ASSUME NEW t \in Turns, RecordInput(t) PROVE AtOnePlace(i)'
  <2>1. /\ UNCHANGED <<active, ts, queued, mailbox, input, pc>>
        /\ \A b \in Actors : bag'[b] = IF b = t THEN {} ELSE bag[b]
    BY <1>26 DEF RecordInput
  <2>2. \A s : Referred(s)' <=> Referred(s)
    BY <2>1 DEF Referred
  <2>3. ASSUME \A s \in TurnStates : i \in pending'[s] => i \in pending[s],
               i \notin bag[t] => fate'[i] = fate[i]
        PROVE  AtOnePlace(i)'
    <3>1. CASE i \in bag[t]
      <4>1. \A s : Referred(s) => s \in TurnStates
        BY DEF Referred
      <4>2. Dropped(i, "bag", t)
        BY <2>1, <2>2, <2>3, <3>1, <4>1 DEF Dropped, Held
      <4> QED
        BY <4>2, DroppedStep
    <3>2. CASE i \notin bag[t]
      <4>1. Calm(i)
        BY <2>1, <2>2, <2>3, <3>2 DEF Calm
      <4> QED
        BY <4>1, CalmStep
    <3> QED
      BY <3>1, <3>2
  <2>4. CASE fate' = Fated(bag[t], "recorded") /\ UNCHANGED pending
    <3>1. i \notin bag[t] => fate'[i] = fate[i]
      BY <2>4 DEF Fated
    <3> QED
      BY <2>3, <2>4, <3>1
  <2>5. ASSUME NEW b \in bag[t] \intersect UserMsgs, NEW acc \in SUBSET (bag[t] \ {b}),
               fate' = [j \in Tracked |->
                          CASE j = b -> "refused"
                            [] j \in acc -> "recorded"
                            [] j \in bag[t] \ (acc \union {b}) /\ active = NoTS -> "aborted"
                            [] OTHER -> fate[j]],
               pending' = IF active = NoTS THEN pending
                          ELSE [pending EXCEPT ![active] =
                                  pending[active] \union (bag[t] \ (acc \union {b}))]
        PROVE  AtOnePlace(i)'
    <3> DEFINE rest == bag[t] \ (acc \union {b})
    <3>1. \/ i = b
          \/ i \in acc
          \/ i \in rest
          \/ i # b /\ i \notin acc /\ i \notin rest /\ i \notin bag[t]
      BY <2>5
    <3>2. fate'[i] = CASE i = b -> "refused"
                       [] i \in acc -> "recorded"
                       [] i \in rest /\ active = NoTS -> "aborted"
                       [] OTHER -> fate[i]
      BY <2>5
    <3>3. \A s \in TurnStates :
            pending'[s] = IF s = active THEN pending[s] \union rest ELSE pending[s]
      BY <2>5, ActorAssumption
    <3>4. i \notin bag[t] => i # b /\ i \notin acc /\ i \notin rest
      BY <2>5
    <3> HIDE DEF rest
    <3>5. CASE i \in rest /\ active # NoTS
      <4>1. i \in bag[t] /\ i # b /\ i \notin acc
        BY <3>5, <2>5 DEF rest
      <4>2. fate'[i] = fate[i]
        BY <3>2, <3>5, <4>1
      <4>3. \A s : Referred(s) => s \in TurnStates
        BY DEF Referred
      <4>4. Moved(i, "bag", t, "pending", active)
        BY <2>1, <2>2, <3>3, <4>1, <4>2, <4>3 DEF Moved, Held
      <4> QED
        BY <4>4, MovedStep
    <3>6. CASE ~(i \in rest /\ active # NoTS)
      <4>1. \A s \in TurnStates : i \in pending'[s] => i \in pending[s]
        BY <3>3, <3>6, ActorAssumption
      <4>2. i \notin bag[t] => fate'[i] = fate[i]
        BY <3>2, <3>4
      <4> QED
        BY <2>3, <4>1, <4>2
    <3> QED
      BY <3>5, <3>6
  <2> QED
    BY <1>26, <2>4, <2>5 DEF RecordInput
<1>27. ASSUME NEW t \in Turns, DrainInput(t) PROVE AtOnePlace(i)'
  <2>1. /\ UNCHANGED <<active, ts, fate, input, queued>> /\ TakePendingInput
        /\ \A b \in Actors : bag'[b] = IF b = t THEN PendingInput ELSE bag[b]
        /\ UNCHANGED pc
    BY <1>27 DEF DrainInput
  <2> QED
    BY <2>1, <1>d
<1>28. ASSUME NEW t \in Turns, SetMailboxPhase(t) PROVE AtOnePlace(i)'
  <2>1. /\ active' \in {active, NoTS}
        /\ \A b \in Actors : ts'[b] \in {ts[b], active, NoTS}
    BY <1>28 DEF SetMailboxPhase
  <2>2. \A s \in TurnStates : i \in pending'[s] => i \in pending[s]
    BY <1>28 DEF SetMailboxPhase
  <2>3. \A u \in Turns : pc'[u] = "made" => pc[u] = "made" \/ input[u] = {}
    BY <1>28 DEF SetMailboxPhase
  <2>4. UNCHANGED <<queued, mailbox, fate, bag, input>>
    BY <1>28 DEF SetMailboxPhase
  <2> QED
    BY <1>c, <2>1, <2>2, <2>3, <2>4
<1>29. ASSUME NEW t \in Turns, RunReturn(t) PROVE AtOnePlace(i)'
  <2>1. /\ active' \in {active, NoTS}
        /\ \A b \in Actors : ts'[b] \in {ts[b], active, NoTS}
    BY <1>29 DEF RunReturn
  <2>2. \A s \in TurnStates : i \in pending'[s] => i \in pending[s]
    BY <1>29 DEF RunReturn
  <2>3. \A u \in Turns : pc'[u] = "made" => pc[u] = "made" \/ input[u] = {}
    BY <1>29 DEF RunReturn
  <2>4. UNCHANGED <<queued, mailbox, fate, bag, input>>
    BY <1>29 DEF RunReturn
  <2> QED
    BY <1>c, <2>1, <2>2, <2>3, <2>4
<1>30. ASSUME NEW t \in Turns, CompleteGoal(t) PROVE AtOnePlace(i)'
  <2>1. /\ active' \in {active, NoTS}
        /\ \A b \in Actors : ts'[b] \in {ts[b], active, NoTS}
    BY <1>30 DEF CompleteGoal
  <2>2. \A s \in TurnStates : i \in pending'[s] => i \in pending[s]
    BY <1>30 DEF CompleteGoal
  <2>3. \A u \in Turns : pc'[u] = "made" => pc[u] = "made" \/ input[u] = {}
    BY <1>30 DEF CompleteGoal
  <2>4. UNCHANGED <<queued, mailbox, fate, bag, input>>
    BY <1>30 DEF CompleteGoal
  <2> QED
    BY <1>c, <2>1, <2>2, <2>3, <2>4
<1>31. ASSUME NEW t \in Turns, CheckCancelled(t) PROVE AtOnePlace(i)'
  <2>1. /\ active' \in {active, NoTS}
        /\ \A b \in Actors : ts'[b] \in {ts[b], active, NoTS}
    BY <1>31 DEF CheckCancelled
  <2>2. \A s \in TurnStates : i \in pending'[s] => i \in pending[s]
    BY <1>31 DEF CheckCancelled
  <2>3. \A u \in Turns : pc'[u] = "made" => pc[u] = "made" \/ input[u] = {}
    BY <1>31 DEF CheckCancelled
  <2>4. UNCHANGED <<queued, mailbox, fate, bag, input>>
    BY <1>31 DEF CheckCancelled
  <2> QED
    BY <1>c, <2>1, <2>2, <2>3, <2>4
<1>32. ASSUME NEW t \in Turns, RemoveTask(t) PROVE AtOnePlace(i)'
  <2>1. /\ active' \in {active, NoTS}
        /\ \A b \in Actors : ts'[b] \in {ts[b], active, NoTS}
    BY <1>32 DEF RemoveTask
  <2>2. \A s \in TurnStates : i \in pending'[s] => i \in pending[s]
    BY <1>32 DEF RemoveTask
  <2>3. \A u \in Turns : pc'[u] = "made" => pc[u] = "made" \/ input[u] = {}
    BY <1>32 DEF RemoveTask
  <2>4. UNCHANGED <<queued, mailbox, fate, bag, input>>
    BY <1>32 DEF RemoveTask
  <2> QED
    BY <1>c, <2>1, <2>2, <2>3, <2>4
<1>33. ASSUME NEW t \in Turns, RecordLeftover(t) PROVE AtOnePlace(i)'
  <2>1. /\ UNCHANGED <<active, ts, queued, mailbox, input, bag>>
        /\ \A s \in TurnStates : pending'[s] = IF s = ts[t] THEN {} ELSE pending[s]
        /\ \A u \in Turns : pc'[u] = "made" => pc[u] = "made"
    BY <1>33 DEF RecordLeftover
  <2>2. ts[t] \in TurnStates /\ Referred(ts[t])
    BY <1>33 DEF RecordLeftover, TasksUnderWay, Referred
  <2>3. \A s : Referred(s)' => s \in TurnStates /\ Referred(s)
    BY <2>1 DEF Referred
  <2>4. CASE i \in pending[ts[t]]
    <3>1. Dropped(i, "pending", ts[t])
      BY <2>1, <2>2, <2>3, <2>4 DEF Dropped, Held
    <3> QED
      BY <3>1, DroppedStep
  <2>5. CASE i \notin pending[ts[t]]
    <3>1. PICK blocked \in SUBSET (pending[ts[t]] \intersect UserMsgs) :
             fate' = [j \in Tracked |->
                        CASE j \in blocked -> "refused"
                          [] j \in pending[ts[t]] \ blocked -> "recorded"
                          [] OTHER -> fate[j]]
      BY <1>33 DEF RecordLeftover
    <3>2. fate'[i] = fate[i]
      BY <2>5, <3>1
    <3>3. Calm(i)
      BY <2>1, <2>3, <3>2 DEF Calm
    <3> QED
      BY <3>3, CalmStep
  <2> QED
    BY <2>4, <2>5
<1>34. ASSUME NEW t \in Turns, EmitTurnComplete(t) PROVE AtOnePlace(i)'
  <2>1. /\ active' \in {active, NoTS}
        /\ \A b \in Actors : ts'[b] \in {ts[b], active, NoTS}
    BY <1>34 DEF EmitTurnComplete
  <2>2. \A s \in TurnStates : i \in pending'[s] => i \in pending[s]
    BY <1>34 DEF EmitTurnComplete
  <2>3. \A u \in Turns : pc'[u] = "made" => pc[u] = "made" \/ input[u] = {}
    BY <1>34 DEF EmitTurnComplete
  <2>4. UNCHANGED <<queued, mailbox, fate, bag, input>>
    BY <1>34 DEF EmitTurnComplete
  <2> QED
    BY <1>c, <2>1, <2>2, <2>3, <2>4
<1>35. ASSUME NEW t \in Turns, ClearActiveTurn(t) PROVE AtOnePlace(i)'
  <2>1. /\ active' \in {active, NoTS}
        /\ \A b \in Actors : ts'[b] \in {ts[b], active, NoTS}
    BY <1>35 DEF ClearActiveTurn
  <2>2. \A s \in TurnStates : i \in pending'[s] => i \in pending[s]
    BY <1>35 DEF ClearActiveTurn
  <2>3. \A u \in Turns : pc'[u] = "made" => pc[u] = "made" \/ input[u] = {}
    BY <1>35 DEF ClearActiveTurn
  <2>4. UNCHANGED <<queued, mailbox, fate, bag, input>>
    BY <1>35 DEF ClearActiveTurn
  <2> QED
    BY <1>c, <2>1, <2>2, <2>3, <2>4
<1>36. CASE UNCHANGED vars
  <2>1. /\ active' \in {active, NoTS}
        /\ \A b \in Actors : ts'[b] \in {ts[b], active, NoTS}
    BY <1>36 DEF vars
  <2>2. \A s \in TurnStates : i \in pending'[s] => i \in pending[s]
    BY <1>36 DEF vars
  <2>3. \A u \in Turns : pc'[u] = "made" => pc[u] = "made" \/ input[u] = {}
    BY <1>36 DEF vars
  <2>4. UNCHANGED <<queued, mailbox, fate, bag, input>>
    BY <1>36 DEF vars
  <2> QED
    BY <1>c, <2>1, <2>2, <2>3, <2>4
<1> QED
  BY <1>1, <1>2, <1>3, <1>4, <1>5, <1>6, <1>7, <1>8, <1>9, <1>10, <1>11, <1>12, <1>13,
     <1>14, <1>15, <1>16, <1>17, <1>18, <1>19, <1>20, <1>21, <1>22, <1>23, <1>24,
     <1>25, <1>26, <1>27, <1>28, <1>29, <1>30, <1>31, <1>32, <1>33, <1>34, <1>35, <1>36
  DEF Next, Environment, Abort, StartTask, Continue, RunTask, OnTaskFinished

----------------------------------------------------------------------------
(* Theorems *)

\* The inductive invariant, next to that of TurnLifecycleProofs.
DeliveryInv ==
    /\ TasksUnderWay
    /\ LockHeld
    /\ PausedGoalNotContinued
    /\ \A i \in Tracked : AtOnePlace(i)

\* Every reachable state satisfies the inductive invariant.
THEOREM DeliveryInvariance == Spec => [](IndInv /\ DeliveryInv)
<1>1. Init => DeliveryInv
  <2> SUFFICES ASSUME Init PROVE DeliveryInv
    OBVIOUS
  <2> USE ActorFacts, ActorAssumption DEF Init
  <2>1. TasksUnderWay
    BY DEF TasksUnderWay, Running
  <2>2. LockHeld /\ PausedGoalNotContinued
    BY DEF LockHeld, PausedGoalNotContinued
  <2>3. \A i \in Tracked : AtOnePlace(i)
    <3>1. \A i, k, x : ~Held(i, k, x)
      BY DEF Held, Referred
    <3> QED
      BY <3>1 DEF AtOnePlace
  <2> QED
    BY <2>1, <2>2, <2>3 DEF DeliveryInv
<1>2. IndInv /\ IndInv' /\ DeliveryInv /\ [Next]_vars => DeliveryInv'
  <2> SUFFICES ASSUME IndInv, IndInv', DeliveryInv, [Next]_vars PROVE DeliveryInv'
    OBVIOUS
  <2>1. TasksUnderWay'
    BY UnderWayStep DEF DeliveryInv, IndInv
  <2>2. LockHeld' /\ PausedGoalNotContinued'
    BY LockStep DEF DeliveryInv
  <2>3. \A i \in Tracked : AtOnePlace(i)'
    BY ItemStep DEF DeliveryInv
  <2> QED
    BY <2>1, <2>2, <2>3 DEF DeliveryInv
<1> QED
  BY Invariance, <1>1, <1>2, PTL DEF Spec

\* An interrupt never pauses the goal while maybe_start_goal_continuation_turn, which
\* has read it as active, is starting its turn: the pause waits for the lock.
THEOREM PauseWaitsForLock == Spec => []PausedGoalNotContinued
<1>1. DeliveryInv => PausedGoalNotContinued
  BY DEF DeliveryInv
<1> QED
  BY DeliveryInvariance, <1>1, PTL

\* The set of places of an item, one by one.
LEMMA PlacesFact ==
    ASSUME TypeOK, NEW i, NEW p \in Places(i)
    PROVE  \E k, x : p = <<k, x>> /\ Held(i, k, x)
<1>1. \A s \in LiveTS : Referred(s)
  BY DEF LiveTS, Referred, TypeOK
<1>2. CASE p \in {<<"queued", i>> : j \in {i} \intersect queued}
  BY <1>2 DEF Held
<1>3. CASE p \in {<<"mailbox", i>> : j \in {i} \intersect mailbox}
  BY <1>3 DEF Held
<1>4. CASE p \in {<<"pending", s>> : s \in {r \in LiveTS : i \in pending[r]}}
  <2>1. PICK s \in LiveTS : p = <<"pending", s>> /\ i \in pending[s]
    BY <1>4
  <2>2. Held(i, "pending", s)
    BY <1>1, <2>1 DEF Held
  <2> QED
    BY <2>1, <2>2
<1>5. CASE p \in {<<"bag", a>> : a \in {b \in Actors : i \in bag[b]}}
  BY <1>5 DEF Held
<1>6. CASE p \in {<<"input", t>> : t \in {u \in Turns : pc[u] = "made" /\ i \in input[u]}}
  BY <1>6 DEF Held
<1> QED
  BY <1>2, <1>3, <1>4, <1>5, <1>6 DEF Places

\* With any number of turns, messages, notes and mail, no item is in two places of the
\* session, and one that was recorded, refused or dropped is in none.
THEOREM OneDelivery == Spec => []ItemsDeliveredOnce
<1>1. IndInv /\ DeliveryInv => ItemsDeliveredOnce
  <2> SUFFICES ASSUME IndInv, DeliveryInv, NEW i \in Tracked
               PROVE  /\ Cardinality(Places(i)) <= 1
                      /\ fate[i] # "held" => Places(i) = {}
    BY DEF ItemsDeliveredOnce
  <2>1. TypeOK /\ AtOnePlace(i)
    BY DEF IndInv, DeliveryInv
  <2>2. \A p, q \in Places(i) : p = q
    BY <2>1, PlacesFact DEF AtOnePlace
  <2>3. fate[i] # "held" => Places(i) = {}
    BY <2>1, PlacesFact DEF AtOnePlace
  <2>4. CASE Places(i) = {}
    BY <2>3, <2>4, FS_EmptySet
  <2>5. ASSUME NEW p \in Places(i) PROVE Cardinality(Places(i)) <= 1
    <3>1. Places(i) = {p}
      BY <2>2
    <3>2. Cardinality({p}) = 1
      BY FS_Singleton
    <3> QED
      BY <3>1, <3>2
  <2> QED
    BY <2>3, <2>4, <2>5
<1> QED
  BY DeliveryInvariance, <1>1, PTL
=============================================================================
