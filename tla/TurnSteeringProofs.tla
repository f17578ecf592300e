------------------------- MODULE TurnSteeringProofs -------------------------
(***************************************************************************)
(* TLAPS proofs about a session in which only the submission loop starts   *)
(* turns: nothing is queued for the next turn, no mail is marked           *)
(* trigger_turn and no goal is active.  Then there is one task at a time,  *)
(* and no input the session accepted is lost.                              *)
(***************************************************************************)
EXTENDS TurnDeliveryProofs

LoopStartsAlone ==
    /\ Notes = {} /\ TriggerMail = {}
    /\ "active" \notin InitGoals /\ MaxOps["host"] = 0

Reserving == {"pend_reserve", "goal_reserve", "goal_reread", "goal_check"}
Drained   == {"abort_next", "abort_wait", "abort_emit", "abort_clear"}

\* Nobody but the loop starts a turn, and what it replaces it has drained first.
OneStarter ==
    /\ queued = {} /\ goal # "active" /\ pc[Loop] # "queue"
    /\ \A a \in Actors : pc[a] \notin Reserving /\ (pc[a] \in Starting => a = Loop)
    /\ pc[Guardian] \in Aborting => reason[Guardian] = "Interrupted"
    /\ pc[Loop] \in Starting \union Drained => tasks = {}
    /\ \A t, u \in tasks : t = u

----------------------------------------------------------------------------
(* One task at a time *)

\* A step that adds no task.
AddsNoTask ==
    /\ tasks' \subseteq tasks /\ UNCHANGED queued /\ goal' # "active" /\ pc'[Loop] # "queue"
    /\ \A a \in Actors : pc'[a] \notin Reserving /\ (pc'[a] \in Starting => a = Loop)
    /\ pc'[Guardian] \in Aborting => reason'[Guardian] = "Interrupted"
    /\ \/ pc'[Loop] \notin Starting \union Drained
       \/ pc[Loop] \in Starting \union Drained
       \/ tasks' = {}

\* Every step keeps the loop the only starter, with one task at most.
LEMMA OneStarterStep ==
    LoopStartsAlone /\ IndInv /\ OneStarter /\ [Next]_vars => OneStarter'
<1> SUFFICES ASSUME LoopStartsAlone, IndInv, OneStarter, [Next]_vars PROVE OneStarter'
  OBVIOUS
<1>a. TypeOK /\ SafeInv
  BY DEF IndInv
<1>p. /\ pc \in [Actors -> Labels] /\ tasks \subseteq Turns
      /\ victims \in [Actors -> SUBSET Turns] /\ ops \in [OpKinds -> Nat]
      /\ reason \in [Actors -> {"Replaced", "Interrupted"}]
      /\ mailbox \intersect TriggerMail = {}
  BY <1>a DEF TypeOK, LoopStartsAlone
<1>k. ASSUME AddsNoTask PROVE OneStarter'
  BY <1>k DEF AddsNoTask, OneStarter
<1>o. /\ queued = {} /\ goal # "active" /\ pc[Loop] # "queue"
      /\ \A a \in Actors : pc[a] \notin Reserving /\ (pc[a] \in Starting => a = Loop)
      /\ pc[Guardian] \in Aborting => reason[Guardian] = "Interrupted"
      /\ pc[Loop] \in Starting \union Drained => tasks = {}
  BY DEF OneStarter
<1> USE <1>p, <1>o, ActorFacts, FreshTurnFact, ActorAssumption
    DEF Reserving, Drained, Starting, Aborting, Aborters, Goto, turnVars, storeVars,
        goalVars, taskVars, frameVars
<1>1. ASSUME NEW m \in UserMsgs, UserInput(m) PROVE OneStarter'
  <2>1. AddsNoTask
    BY <1>1 DEF AddsNoTask, UserInput
  <2> QED
    BY <2>1, <1>k
<1>2. CASE StandaloneTask
  <2>1. AddsNoTask
    BY <1>2 DEF AddsNoTask, StandaloneTask
  <2> QED
    BY <2>1, <1>k
<1>3. ASSUME NEW m \in Mail, InterAgentCommunication(m) PROVE OneStarter'
  <2>1. AddsNoTask
    BY <1>3 DEF AddsNoTask, InterAgentCommunication
  <2> QED
    BY <2>1, <1>k
<1>4. ASSUME NEW n \in Notes, InjectResponseItems(n) PROVE FALSE
  BY <1>4 DEF LoopStartsAlone
<1>5. CASE Interrupt
  <2>1. AddsNoTask
    BY <1>5 DEF AddsNoTask, Interrupt
  <2> QED
    BY <2>1, <1>k
<1>6. ASSUME NEW t \in Turns, AbortTurnIfActive(t) PROVE OneStarter'
  <2>1. AddsNoTask
    BY <1>6 DEF AddsNoTask, AbortTurnIfActive, TakeActiveTurn
  <2> QED
    BY <2>1, <1>k
<1>7. ASSUME ContinueActiveGoalIfIdle PROVE FALSE
  BY <1>7 DEF ContinueActiveGoalIfIdle, LoopStartsAlone, OpKinds
<1>8. ASSUME QueueForNextTurn PROVE FALSE
  BY <1>8 DEF QueueForNextTurn
<1>9. CASE AbortAllTasks
  <2>1. AddsNoTask
    BY <1>9 DEF AddsNoTask, AbortAllTasks, TakeActiveTurn
  <2> QED
    BY <2>1, <1>k
<1>10. ASSUME NEW a \in Aborters, Abort(a) PROVE OneStarter'
  <2>1. CASE CancelToken(a) \/ EmitTurnAborted(a)
    <3>1. AddsNoTask
      BY <2>1 DEF AddsNoTask, CancelToken, EmitTurnAborted
    <3> QED
      BY <3>1, <1>k
  <2>2. CASE StopTask(a)
    <3>1. PICK v \in victims[a] :
            pc' = [pc EXCEPT ![a] = "abort_emit", ![v] = IF @ = "done" THEN "done" ELSE "dead"]
      BY <2>2 DEF StopTask
    <3>2. AddsNoTask
      BY <2>2, <3>1 DEF AddsNoTask, StopTask
    <3> QED
      BY <3>2, <1>k
  <2>3. CASE PauseGoal(a)
    <3>1. AddsNoTask
      BY <2>3 DEF AddsNoTask, PauseGoal
    <3> QED
      BY <3>1, <1>k
  <2>4. CASE ClearPending(a)
    <3>1. AddsNoTask
      BY <2>4 DEF AddsNoTask, ClearPending
    <3> QED
      BY <3>1, <1>k
  <2> QED
    BY <1>10, <2>1, <2>2, <2>3, <2>4 DEF Abort
<1>11. ASSUME NEW a \in Actors, HasPendingWork(a) PROVE OneStarter'
  <2>1. AddsNoTask
    BY <1>11 DEF AddsNoTask, HasPendingWork, AfterPendingWork, TriggerPending
  <2> QED
    BY <2>1, <1>k
<1>12. ASSUME NEW a \in Actors, ReserveTurn(a) PROVE FALSE
  BY <1>12 DEF ReserveTurn
<1>13. ASSUME NEW a \in Actors, StartTake(a) PROVE OneStarter'
  <2>1. /\ a = Loop /\ pc'[Loop] = "start_insert" /\ queued' = {}
        /\ UNCHANGED <<tasks, goal, reason>>
        /\ \A b \in Actors : b # Loop => pc'[b] = pc[b]
    BY <1>13 DEF StartTake
  <2>2. UNCHANGED queued /\ goal' # "active" /\ pc[Loop] \in Starting
    BY <1>13, <2>1 DEF StartTake
  <2>3. \A b \in Actors : pc'[b] \notin Reserving /\ (pc'[b] \in Starting => b = Loop)
    BY <2>1
  <2>4. pc'[Guardian] \in Aborting => reason'[Guardian] = "Interrupted"
    BY <2>1
  <2>5. tasks' \subseteq tasks /\ pc'[Loop] # "queue"
    BY <2>1
  <2>6. AddsNoTask
    BY <2>2, <2>3, <2>4, <2>5 DEF AddsNoTask
  <2> QED
    BY <2>6, <1>k
<1>14. ASSUME NEW a \in Actors, StartInsert(a) PROVE OneStarter'
  <2>1. AddsNoTask
    BY <1>14 DEF AddsNoTask, StartInsert, GetOrInsert
  <2> QED
    BY <2>1, <1>k
<1>15. ASSUME NEW a \in Actors, StartPush(a) PROVE OneStarter'
  <2>1. AddsNoTask
    BY <1>15 DEF AddsNoTask, StartPush
  <2> QED
    BY <2>1, <1>k
<1>16. ASSUME NEW a \in Actors, StartAdd(a) PROVE OneStarter'
  <2>1. a = Loop /\ tasks = {}
    BY <1>16 DEF StartAdd
  <2>2. sub[a] \in Turns /\ sub[a] # a
    BY <1>a, <1>16 DEF StartAdd, SafeInv, SubsAreFresh, HoldsSub
  <2>3. tasks' = {sub[a]} /\ UNCHANGED <<queued, goal, reason>>
    BY <1>16, <2>1 DEF StartAdd, GetOrInsert
  <2>4. /\ pc'[Loop] = "idle" /\ pc'[sub[a]] = "run"
        /\ \A b \in Actors : b # Loop /\ b # sub[a] => pc'[b] = pc[b]
    BY <1>16, <2>1, <2>2 DEF StartAdd, AfterPendingWork, Finished
  <2>5. \A b \in Actors : pc'[b] \notin Reserving \union Starting
    BY <2>4
  <2>6. pc'[Guardian] \in Aborting => reason'[Guardian] = "Interrupted"
    BY <2>2, <2>3, <2>4
  <2> QED
    BY <2>3, <2>4, <2>5, <2>6 DEF OneStarter
<1>17. ASSUME NEW a \in Turns \union {Host}, Continue(a) PROVE OneStarter'
  <2>1. AcquireContinuation(a) \/ GoalCandidate(a)
    BY <1>17 DEF Continue, GoalReserve, GoalReread, GoalCheck
  <2>2. AddsNoTask
    BY <2>1 DEF AddsNoTask, AcquireContinuation, GoalCandidate, Finished
  <2> QED
    BY <2>2, <1>k
<1>18. ASSUME NEW t \in Turns, RunTask(t) PROVE OneStarter'
  <2>1. AddsNoTask
    BY <1>18 DEF AddsNoTask, RunTask, RecordInput, DrainInput, SetMailboxPhase, RunReturn,
                 CompleteGoal
  <2> QED
    BY <2>1, <1>k
<1>19. ASSUME NEW t \in Turns, OnTaskFinished(t) PROVE OneStarter'
  <2>1. AddsNoTask
    BY <1>19 DEF AddsNoTask, OnTaskFinished, CheckCancelled, RemoveTask, RecordLeftover,
                 EmitTurnComplete, ClearActiveTurn
  <2> QED
    BY <2>1, <1>k
<1>20. CASE UNCHANGED vars
  BY <1>20 DEF OneStarter, vars
<1> QED
  BY <1>1, <1>2, <1>3, <1>4, <1>5, <1>6, <1>7, <1>8, <1>9, <1>10, <1>11, <1>12, <1>13,
     <1>14, <1>15, <1>16, <1>17, <1>18, <1>19, <1>20
  DEF Next, Environment, StartTask

----------------------------------------------------------------------------
(* The turn states *)

Ending   == {"leftover", "emit", "clear"}
Emptied  == Drained \union {"start_take", "start_insert"}
Pushing  == {"start_push", "start_add"}

\* Who refers to a turn state.  Between the drain of the old turn and the insertion of
\* the new one there is no active turn; an active turn without a task is the loop's new
\* one or that of a turn that is ending; a turn that is ending has no task beside it.
Anchored ==
    /\ pc[Loop] \in Emptied => active = NoTS
    /\ pc[Loop] \in Pushing => active # NoTS /\ \A t \in Turns : ts[t] # active
    /\ pc[Loop] = "start_push" => ts[Loop] = active
    /\ active # NoTS /\ tasks = {} /\ pc[Loop] \notin Pushing => \E t \in Turns : ts[t] = active
    /\ \A t \in Turns : ts[t] # NoTS => pc[t] \in Ending /\ (ts[t] = active => tasks = {})
    /\ ts[Host] = NoTS
    /\ ts[Guardian] # NoTS => pc[Guardian] \in Drained
    /\ ts[Loop] # NoTS => pc[Loop] \in Drained \union {"start_push"}

\* A step that changes no reference to a turn state.
KeepsRefs ==
    /\ UNCHANGED <<active, tasks, ts>>
    /\ \A t \in Turns : ts[t] # NoTS => pc'[t] \in Ending
    /\ pc'[Loop] \in Emptied => pc[Loop] \in Emptied
    /\ pc'[Loop] \in Pushing <=> pc[Loop] \in Pushing
    /\ pc'[Loop] = "start_push" => pc[Loop] = "start_push"
    /\ ts[Guardian] # NoTS => pc'[Guardian] \in Drained
    /\ ts[Loop] # NoTS => pc'[Loop] \in Drained \union {"start_push"}

\* Every step keeps what is known of the references.
LEMMA AnchoredStep ==
    IndInv /\ TasksUnderWay /\ OneStarter /\ OneStarter' /\ Anchored /\ [Next]_vars
    => Anchored'
<1> SUFFICES ASSUME IndInv, TasksUnderWay, OneStarter, OneStarter', Anchored, [Next]_vars
             PROVE  Anchored'
  OBVIOUS
<1>a. TypeOK /\ SafeInv
  BY DEF IndInv
<1>p. /\ pc \in [Actors -> Labels] /\ tasks \subseteq Turns
      /\ victims \in [Actors -> SUBSET Turns]
      /\ ts \in [Actors -> TurnStates \union {NoTS}] /\ active \in TurnStates \union {NoTS}
  BY <1>a DEF TypeOK
<1>k. ASSUME KeepsRefs PROVE Anchored'
  BY <1>k, ActorFacts DEF KeepsRefs, Anchored
<1>o. /\ pc[Loop] # "queue" /\ pc'[Loop] # "queue"
      /\ \A a \in Actors : pc[a] \notin Reserving /\ (pc[a] \in Starting => a = Loop)
      /\ \A a \in Actors : pc'[a] \notin Reserving /\ (pc'[a] \in Starting => a = Loop)
      /\ pc[Loop] \in Starting \union Drained => tasks = {}
  BY DEF OneStarter
<1>n. /\ pc[Loop] \in Emptied => active = NoTS
      /\ pc[Loop] \in Pushing => active # NoTS /\ \A t \in Turns : ts[t] # active
      /\ \A t \in Turns : ts[t] # NoTS => pc[t] \in Ending /\ (ts[t] = active => tasks = {})
      /\ ts[Host] = NoTS
      /\ ts[Guardian] # NoTS => pc[Guardian] \in Drained
      /\ ts[Loop] # NoTS => pc[Loop] \in Drained \union {"start_push"}
  BY DEF Anchored
<1> USE <1>p, <1>o, <1>n, ActorFacts, FreshTurnFact, ActorAssumption
    DEF Reserving, Drained, Starting, Emptied, Pushing, Ending, Aborters, Goto, turnVars,
        storeVars, goalVars, taskVars, frameVars
<1>1. ASSUME NEW m \in UserMsgs, UserInput(m) PROVE Anchored'
  <2>1. KeepsRefs
    BY <1>1 DEF KeepsRefs, UserInput
  <2> QED
    BY <2>1, <1>k
<1>2. CASE StandaloneTask
  <2>1. KeepsRefs
    BY <1>2 DEF KeepsRefs, StandaloneTask
  <2> QED
    BY <2>1, <1>k
<1>3. ASSUME NEW m \in Mail, InterAgentCommunication(m) PROVE Anchored'
  <2>1. KeepsRefs
    BY <1>3 DEF KeepsRefs, InterAgentCommunication
  <2> QED
    BY <2>1, <1>k
<1>4. ASSUME NEW n \in Notes, InjectResponseItems(n) PROVE Anchored'
  <2>1. KeepsRefs
    BY <1>4 DEF KeepsRefs, InjectResponseItems
  <2> QED
    BY <2>1, <1>k
<1>5. CASE Interrupt
  <2>1. KeepsRefs
    BY <1>5 DEF KeepsRefs, Interrupt
  <2> QED
    BY <2>1, <1>k
<1>6. ASSUME NEW t \in Turns, AbortTurnIfActive(t) PROVE Anchored'
  <2>1. /\ active' = NoTS /\ pc'[Guardian] = "abort_next"
        /\ \A b \in Actors : b # Guardian => pc'[b] = pc[b] /\ ts'[b] = ts[b]
        /\ tasks # {}
    BY <1>6 DEF AbortTurnIfActive, TakeActiveTurn
  <2> QED
    BY <2>1 DEF Anchored
<1>7. CASE ContinueActiveGoalIfIdle
  <2>1. KeepsRefs
    BY <1>7 DEF KeepsRefs, ContinueActiveGoalIfIdle
  <2> QED
    BY <2>1, <1>k
<1>8. ASSUME QueueForNextTurn PROVE FALSE
  BY <1>8 DEF QueueForNextTurn
<1>9. CASE AbortAllTasks
  <2>1. /\ active' = NoTS /\ pc'[Loop] = "abort_next"
        /\ \A b \in Actors : b # Loop => pc'[b] = pc[b] /\ ts'[b] = ts[b]
    BY <1>9 DEF AbortAllTasks, TakeActiveTurn
  <2> QED
    BY <2>1 DEF Anchored
<1>10. ASSUME NEW a \in Aborters, Abort(a) PROVE Anchored'
  <2>1. CASE CancelToken(a) \/ EmitTurnAborted(a) \/ PauseGoal(a)
    <3>1. KeepsRefs
      BY <2>1 DEF KeepsRefs, CancelToken, EmitTurnAborted, PauseGoal
    <3> QED
      BY <3>1, <1>k
  <2>2. CASE StopTask(a)
    <3>1. PICK v \in victims[a] :
            pc' = [pc EXCEPT ![a] = "abort_emit", ![v] = IF @ = "done" THEN "done" ELSE "dead"]
      BY <2>2 DEF StopTask
    <3>2. v \in Turns /\ ts[v] = NoTS
      BY <3>1 DEF TasksUnderWay, Running, Stopped
    <3>3. KeepsRefs
      BY <2>2, <3>1, <3>2 DEF KeepsRefs, StopTask
    <3> QED
      BY <3>3, <1>k
  <2>3. CASE ClearPending(a)
    <3>1. /\ UNCHANGED <<active, tasks>> /\ pc[a] = "abort_clear"
          /\ pc'[a] \in {"start_take", "pend_check", "idle"} /\ ts'[a] = NoTS
          /\ \A b \in Actors : b # a => pc'[b] = pc[b] /\ ts'[b] = ts[b]
      BY <2>3 DEF ClearPending
    <3>2. a = Guardian => pc'[a] # "start_take"
      OBVIOUS
    <3> QED
      BY <3>1, <3>2 DEF Anchored
  <2> QED
    BY <1>10, <2>1, <2>2, <2>3 DEF Abort
<1>11. ASSUME NEW a \in Actors, HasPendingWork(a) PROVE Anchored'
  <2>1. pc'[a] \in {"goal_lock", "idle"}
    BY <1>11 DEF HasPendingWork, AfterPendingWork
  <2>2. KeepsRefs
    BY <1>11, <2>1 DEF KeepsRefs, HasPendingWork
  <2> QED
    BY <2>2, <1>k
<1>12. ASSUME NEW a \in Actors, ReserveTurn(a) PROVE FALSE
  BY <1>12 DEF ReserveTurn
<1>13. ASSUME NEW a \in Actors, StartTake(a) PROVE Anchored'
  <2>1. KeepsRefs
    BY <1>13 DEF KeepsRefs, StartTake
  <2> QED
    BY <2>1, <1>k
<1>14. ASSUME NEW a \in Actors, StartInsert(a) PROVE Anchored'
  <2>1. a = Loop /\ active = NoTS
    BY <1>14 DEF StartInsert
  <2>2. /\ active' \in TurnStates /\ \A b \in Actors : ts[b] # active'
        /\ ts'[Loop] = active' /\ \A b \in Actors : b # Loop => ts'[b] = ts[b]
        /\ pc'[Loop] = "start_push" /\ \A b \in Actors : b # Loop => pc'[b] = pc[b]
    BY <1>14, <2>1 DEF StartInsert, GetOrInsert, HasFreshTS, FreshTS
  <2> QED
    BY <2>1, <2>2 DEF Anchored
<1>15. ASSUME NEW a \in Actors, StartPush(a) PROVE Anchored'
  <2>1. a = Loop
    BY <1>15 DEF StartPush
  <2>2. /\ UNCHANGED <<active, tasks>>
        /\ ts'[Loop] = NoTS /\ \A b \in Actors : b # Loop => ts'[b] = ts[b]
        /\ pc'[Loop] = "start_add" /\ \A b \in Actors : b # Loop => pc'[b] = pc[b]
    BY <1>15, <2>1 DEF StartPush
  <2>3. pc[Loop] = "start_push"
    BY <1>15, <2>1 DEF StartPush
  <2> QED
    BY <2>2, <2>3 DEF Anchored
<1>16. ASSUME NEW a \in Actors, StartAdd(a) PROVE Anchored'
  <2>1. a = Loop /\ active # NoTS /\ \A t \in Turns : ts[t] # active
    BY <1>16 DEF StartAdd
  <2>2. sub[a] \in Turns /\ pc[sub[a]] = "made"
    BY <1>a, <1>16 DEF StartAdd, SafeInv, SubsAreFresh, HoldsSub
  <2>3. UNCHANGED <<active, ts>> /\ tasks' # {}
    BY <1>16, <2>1 DEF StartAdd, GetOrInsert
  <2>4. /\ pc'[Loop] = "idle"
        /\ \A b \in Actors : b # Loop /\ b # sub[a] => pc'[b] = pc[b]
    BY <1>16, <2>1, <2>2 DEF StartAdd, AfterPendingWork, Finished
  <2>5. ts[Loop] = NoTS
    BY <1>16, <2>1 DEF StartAdd
  <2>6. ts[sub[a]] = NoTS
    BY <2>2 DEF TasksUnderWay
  <2> QED
    BY <2>1, <2>2, <2>3, <2>4, <2>5, <2>6 DEF Anchored
<1>17. ASSUME NEW a \in Turns \union {Host}, Continue(a) PROVE Anchored'
  <2>1. AcquireContinuation(a) \/ GoalCandidate(a)
    BY <1>17 DEF Continue, GoalReserve, GoalReread, GoalCheck
  <2>2. KeepsRefs
    BY <2>1 DEF KeepsRefs, AcquireContinuation, GoalCandidate, Finished
  <2> QED
    BY <2>2, <1>k
<1>18. ASSUME NEW t \in Turns, RunTask(t) PROVE Anchored'
  <2>1. KeepsRefs
    BY <1>18 DEF KeepsRefs, RunTask, RecordInput, DrainInput, SetMailboxPhase, RunReturn,
                 CompleteGoal
  <2> QED
    BY <2>1, <1>k
<1>19. ASSUME NEW t \in Turns, CheckCancelled(t) \/ RecordLeftover(t) \/ EmitTurnComplete(t)
       PROVE  Anchored'
  <2>1. KeepsRefs
    BY <1>19 DEF KeepsRefs, CheckCancelled, RecordLeftover, EmitTurnComplete
  <2> QED
    BY <2>1, <1>k
<1>20. ASSUME NEW t \in Turns, RemoveTask(t) PROVE Anchored'
  <2>1. /\ UNCHANGED active /\ tasks' = tasks \ {t} /\ pc[t] = "remove" /\ t \in Actors
        /\ \A b \in Actors : b # t => pc'[b] = pc[b] /\ ts'[b] = ts[b]
        /\ t # Loop /\ t # Guardian /\ t # Host
    BY <1>20 DEF RemoveTask
  <2>2. CASE ~NoTask /\ tasks = {t}
    <3>1. active # NoTS /\ ts'[t] = active /\ pc'[t] = "leftover" /\ tasks' = {}
      BY <1>20, <2>1, <2>2 DEF RemoveTask, NoTask
    <3>2. pc[Loop] \notin Pushing /\ pc[Loop] \notin Emptied
      BY <2>2, <3>1
    <3> QED
      BY <2>1, <3>1, <3>2 DEF Anchored
  <2>3. CASE ~(~NoTask /\ tasks = {t})
    <3>1. ts'[t] = ts[t] /\ pc'[t] = "emit"
      BY <1>20, <2>1, <2>3 DEF RemoveTask
    <3>2. active # NoTS /\ tasks' = {} => tasks = {}
      BY <2>1, <2>3 DEF NoTask
    <3> QED
      BY <2>1, <3>1, <3>2 DEF Anchored
  <2> QED
    BY <2>2, <2>3
<1>21. ASSUME NEW t \in Turns, ClearActiveTurn(t) PROVE Anchored'
  <2>1. /\ UNCHANGED tasks /\ ts'[t] = NoTS
        /\ \A b \in Actors : b # t => pc'[b] = pc[b] /\ ts'[b] = ts[b]
        /\ t # Loop /\ t # Guardian /\ t # Host
        /\ active' = IF active = ts[t] /\ tasks = {} THEN NoTS ELSE active
    BY <1>21 DEF ClearActiveTurn
  <2>2. CASE active = ts[t] /\ tasks = {}
    <3>1. pc[Loop] \notin Pushing
      BY <2>2
    <3> QED
      BY <2>1, <2>2, <3>1 DEF Anchored
  <2>3. CASE ~(active = ts[t] /\ tasks = {})
    BY <2>1, <2>3 DEF Anchored
  <2> QED
    BY <2>2, <2>3
<1>22. CASE UNCHANGED vars
  <2>1. KeepsRefs
    BY <1>22 DEF KeepsRefs, vars
  <2> QED
    BY <2>1, <1>k
<1> QED
  BY <1>1, <1>2, <1>3, <1>4, <1>5, <1>6, <1>7, <1>8, <1>9, <1>10, <1>11, <1>12, <1>13,
     <1>14, <1>15, <1>16, <1>17, <1>18, <1>19, <1>20, <1>21, <1>22
  DEF Next, Environment, StartTask, OnTaskFinished

----------------------------------------------------------------------------
(* What the actors have in hand *)

\* A turn that has not been spawned has no input in hand, the loop only between the
\* take and the push of start_task, and a guardian that never aborted has no victims.
EmptyHands ==
    /\ \A t \in Turns : pc[t] \in {"unborn", "made"} => bag[t] = {}
    /\ pc[Loop] \notin {"start_insert", "start_push"} => bag[Loop] = {}
    /\ ops["guardian"] = 0 => victims[Guardian] = {}

\* A step that gives nobody anything.
GivesNothing ==
    /\ \A a \in Actors : bag'[a] \in {bag[a], {}}
    /\ \A t \in Turns : pc'[t] \in {"unborn", "made"} => pc[t] \in {"unborn", "made"}
    /\ \/ pc[Loop] \notin {"start_insert", "start_push"}
       \/ pc'[Loop] \in {"start_insert", "start_push"}
       \/ bag'[Loop] = {}
    /\ ops'["guardian"] = 0 => ops["guardian"] = 0 /\ victims'[Guardian] \subseteq victims[Guardian]

\* Every step keeps those hands empty.
LEMMA HandsStep ==
    LoopStartsAlone /\ IndInv /\ OneStarter /\ EmptyHands /\ [Next]_vars => EmptyHands'
<1> SUFFICES ASSUME LoopStartsAlone, IndInv, OneStarter, EmptyHands, [Next]_vars
             PROVE  EmptyHands'
  OBVIOUS
<1>a. TypeOK /\ SafeInv
  BY DEF IndInv
<1>p. /\ pc \in [Actors -> Labels] /\ bag \in [Actors -> SUBSET Items]
      /\ victims \in [Actors -> SUBSET Turns] /\ ops \in [OpKinds -> Nat]
      /\ "guardian" \in OpKinds
  BY <1>a DEF TypeOK, OpKinds
<1>k. ASSUME GivesNothing PROVE EmptyHands'
  BY <1>k, ActorFacts DEF GivesNothing, EmptyHands
<1>o. /\ pc[Loop] # "queue"
      /\ \A a \in Actors : pc[a] \notin Reserving /\ (pc[a] \in Starting => a = Loop)
  BY DEF OneStarter
<1> USE <1>p, <1>o, ActorFacts, FreshTurnFact, ActorAssumption
    DEF Reserving, Starting, Aborters, Goto, turnVars, storeVars, goalVars, taskVars, frameVars
<1>1. ASSUME NEW m \in UserMsgs, UserInput(m) PROVE EmptyHands'
  <2>1. GivesNothing
    BY <1>1 DEF GivesNothing, UserInput
  <2> QED
    BY <2>1, <1>k
<1>2. CASE StandaloneTask
  <2>1. ops'["guardian"] = ops["guardian"]
    BY <1>2 DEF StandaloneTask
  <2>2. GivesNothing
    BY <1>2, <2>1 DEF GivesNothing, StandaloneTask
  <2> QED
    BY <2>2, <1>k
<1>3. ASSUME NEW m \in Mail, InterAgentCommunication(m) PROVE EmptyHands'
  <2>1. GivesNothing
    BY <1>3 DEF GivesNothing, InterAgentCommunication
  <2> QED
    BY <2>1, <1>k
<1>4. ASSUME NEW n \in Notes, InjectResponseItems(n) PROVE FALSE
  BY <1>4 DEF LoopStartsAlone
<1>5. CASE Interrupt
  <2>1. ops'["guardian"] = ops["guardian"]
    BY <1>5 DEF Interrupt
  <2>2. GivesNothing
    BY <1>5, <2>1 DEF GivesNothing, Interrupt
  <2> QED
    BY <2>2, <1>k
<1>6. ASSUME NEW t \in Turns, AbortTurnIfActive(t) PROVE EmptyHands'
  <2>1. ops'["guardian"] = ops["guardian"] + 1
    BY <1>6 DEF AbortTurnIfActive
  <2>2. ops'["guardian"] # 0
    BY <2>1
  <2>3. GivesNothing
    BY <1>6, <2>2 DEF GivesNothing, AbortTurnIfActive
  <2> QED
    BY <2>3, <1>k
<1>7. CASE ContinueActiveGoalIfIdle
  <2>1. ops'["guardian"] = ops["guardian"]
    BY <1>7 DEF ContinueActiveGoalIfIdle
  <2>2. GivesNothing
    BY <1>7, <2>1 DEF GivesNothing, ContinueActiveGoalIfIdle
  <2> QED
    BY <2>2, <1>k
<1>8. ASSUME QueueForNextTurn PROVE FALSE
  BY <1>8 DEF QueueForNextTurn
<1>9. CASE AbortAllTasks
  <2>1. GivesNothing
    BY <1>9 DEF GivesNothing, AbortAllTasks, TakeActiveTurn
  <2> QED
    BY <2>1, <1>k
<1>10. ASSUME NEW a \in Aborters, Abort(a) PROVE EmptyHands'
  <2>1. CASE CancelToken(a) \/ PauseGoal(a)
    <3>1. GivesNothing
      BY <2>1 DEF GivesNothing, CancelToken, PauseGoal
    <3> QED
      BY <3>1, <1>k
  <2>2. CASE StopTask(a)
    <3>1. PICK v \in victims[a] :
            /\ pc' = [pc EXCEPT ![a] = "abort_emit", ![v] = IF @ = "done" THEN "done" ELSE "dead"]
            /\ bag' = [bag EXCEPT ![v] = {}]
      BY <2>2 DEF StopTask
    <3>2. GivesNothing
      BY <2>2, <3>1 DEF GivesNothing, StopTask
    <3> QED
      BY <3>2, <1>k
  <2>3. CASE EmitTurnAborted(a)
    <3>1. victims'[Guardian] \subseteq victims[Guardian]
      BY <2>3 DEF EmitTurnAborted
    <3>2. GivesNothing
      BY <2>3, <3>1 DEF GivesNothing, EmitTurnAborted
    <3> QED
      BY <3>2, <1>k
  <2>4. CASE ClearPending(a)
    <3>1. /\ UNCHANGED <<bag, victims, ops>> /\ pc[a] = "abort_clear"
          /\ \A b \in Actors : b # a => pc'[b] = pc[b]
      BY <2>4 DEF ClearPending
    <3>2. GivesNothing
      BY <3>1 DEF GivesNothing
    <3> QED
      BY <3>2, <1>k
  <2> QED
    BY <1>10, <2>1, <2>2, <2>3, <2>4 DEF Abort
<1>11. ASSUME NEW a \in Actors, HasPendingWork(a) PROVE EmptyHands'
  <2>1. GivesNothing
    BY <1>11 DEF GivesNothing, HasPendingWork, AfterPendingWork
  <2> QED
    BY <2>1, <1>k
<1>12. ASSUME NEW a \in Actors, ReserveTurn(a) PROVE FALSE
  BY <1>12 DEF ReserveTurn
<1>13. ASSUME NEW a \in Actors, StartTake(a) PROVE EmptyHands'
  <2>1. /\ a = Loop /\ pc'[Loop] = "start_insert" /\ UNCHANGED <<victims, ops>>
        /\ \A b \in Actors : b # Loop => pc'[b] = pc[b] /\ bag'[b] = bag[b]
    BY <1>13 DEF StartTake
  <2> QED
    BY <2>1 DEF EmptyHands
<1>14. ASSUME NEW a \in Actors, StartInsert(a) PROVE EmptyHands'
  <2>1. GivesNothing
    BY <1>14 DEF GivesNothing, StartInsert
  <2> QED
    BY <2>1, <1>k
<1>15. ASSUME NEW a \in Actors, StartPush(a) PROVE EmptyHands'
  <2>1. GivesNothing
    BY <1>15 DEF GivesNothing, StartPush
  <2> QED
    BY <2>1, <1>k
<1>16. ASSUME NEW a \in Actors, StartAdd(a) PROVE EmptyHands'
  <2>1. a = Loop /\ pc[Loop] = "start_add"
    BY <1>16 DEF StartAdd
  <2>2. sub[a] \in Turns
    BY <1>a, <1>16 DEF StartAdd, SafeInv, SubsAreFresh, HoldsSub
  <2>3. /\ UNCHANGED <<victims, ops>> /\ pc'[sub[a]] = "run"
        /\ \A b \in Actors : b # sub[a] => bag'[b] = bag[b]
        /\ \A b \in Actors : b # Loop /\ b # sub[a] => pc'[b] = pc[b]
    BY <1>16, <2>1, <2>2 DEF StartAdd
  <2> QED
    BY <2>1, <2>2, <2>3 DEF EmptyHands
<1>17. ASSUME NEW a \in Turns \union {Host}, Continue(a) PROVE EmptyHands'
  <2>1. AcquireContinuation(a) \/ GoalCandidate(a)
    BY <1>17 DEF Continue, GoalReserve, GoalReread, GoalCheck
  <2>2. GivesNothing
    BY <2>1 DEF GivesNothing, AcquireContinuation, GoalCandidate, Finished
  <2> QED
    BY <2>2, <1>k
<1>18. ASSUME NEW t \in Turns, RunTask(t) PROVE EmptyHands'
  <2>1. CASE RecordInput(t) \/ SetMailboxPhase(t) \/ RunReturn(t) \/ CompleteGoal(t)
    <3>1. GivesNothing
      BY <2>1 DEF GivesNothing, RecordInput, SetMailboxPhase, RunReturn, CompleteGoal
    <3> QED
      BY <3>1, <1>k
  <2>2. CASE DrainInput(t)
    <3>1. /\ UNCHANGED <<victims, ops, pc>> /\ pc[t] = "run"
          /\ \A b \in Actors : b # t => bag'[b] = bag[b]
      BY <2>2 DEF DrainInput
    <3> QED
      BY <3>1 DEF EmptyHands
  <2> QED
    BY <1>18, <2>1, <2>2 DEF RunTask
<1>19. ASSUME NEW t \in Turns, OnTaskFinished(t) PROVE EmptyHands'
  <2>1. GivesNothing
    BY <1>19 DEF GivesNothing, OnTaskFinished, CheckCancelled, RemoveTask, RecordLeftover,
                 EmitTurnComplete, ClearActiveTurn
  <2> QED
    BY <2>1, <1>k
<1>20. CASE UNCHANGED vars
  BY <1>20 DEF EmptyHands, vars
<1> QED
  BY <1>1, <1>2, <1>3, <1>4, <1>5, <1>6, <1>7, <1>8, <1>9, <1>10, <1>11, <1>12, <1>13,
     <1>14, <1>15, <1>16, <1>17, <1>18, <1>19, <1>20
  DEF Next, Environment, StartTask

----------------------------------------------------------------------------
(* What an ending turn has recorded *)

\* Where a hook may block an input, the guardian has not aborted a turn.
Careful == HooksMayBlock => ops["guardian"] = 0

Recording == {"emit", "clear"}

\* The turn state of a turn that has recorded its leftovers stays empty: on_task_finished
\* drops it without another look.
Recorded ==
    Careful => \A t \in Turns : ts[t] # NoTS /\ pc[t] \in Recording =>
                                    pending[ts[t]] \intersect Tracked = {}

\* A step that adds nothing to what such a turn has recorded.
AddsNoLeftover ==
    /\ ops'["guardian"] = 0 => ops["guardian"] = 0
    /\ \A t \in Turns : ts'[t] # NoTS /\ pc'[t] \in Recording =>
          /\ ts'[t] = ts[t] /\ pc[t] \in Recording
          /\ pending'[ts[t]] \intersect Tracked \subseteq pending[ts[t]]

\* Every step keeps those turn states empty.
LEMMA RecordedStep ==
    LoopStartsAlone /\ IndInv /\ TasksUnderWay /\ OneStarter /\ Anchored /\ EmptyHands
      /\ Recorded /\ [Next]_vars
    => Recorded' /\ (Careful' => Careful)
<1> SUFFICES ASSUME LoopStartsAlone, IndInv, TasksUnderWay, OneStarter, Anchored,
                    EmptyHands, Recorded, [Next]_vars
             PROVE  Recorded' /\ (Careful' => Careful)
  OBVIOUS
<1> DEFINE Goal == Recorded' /\ (Careful' => Careful)
<1>a. TypeOK /\ SafeInv
  BY DEF IndInv
<1>p. /\ pc \in [Actors -> Labels] /\ bag \in [Actors -> SUBSET Items] /\ tasks \subseteq Turns
      /\ victims \in [Actors -> SUBSET Turns] /\ ops \in [OpKinds -> Nat]
      /\ ts \in [Actors -> TurnStates \union {NoTS}] /\ active \in TurnStates \union {NoTS}
      /\ pending \in [TurnStates -> SUBSET Items] /\ "guardian" \in OpKinds
  BY <1>a DEF TypeOK, OpKinds
<1>k. ASSUME AddsNoLeftover PROVE Goal
  BY <1>k DEF AddsNoLeftover, Recorded, Careful
<1>o. /\ pc[Loop] # "queue"
      /\ \A a \in Actors : pc[a] \notin Reserving /\ (pc[a] \in Starting => a = Loop)
  BY DEF OneStarter
<1>n. /\ pc[Loop] \in Emptied => active = NoTS
      /\ pc[Loop] \in Pushing => active # NoTS /\ \A t \in Turns : ts[t] # active
      /\ pc[Loop] = "start_push" => ts[Loop] = active
      /\ \A t \in Turns : ts[t] # NoTS => pc[t] \in Ending /\ (ts[t] = active => tasks = {})
  BY DEF Anchored
<1>w. \A t \in Turns : pc[t] \in {"unborn", "made"} \union Running => ts[t] = NoTS
  BY DEF TasksUnderWay
<1> SUFFICES Goal
  OBVIOUS
<1> HIDE DEF Goal
<1> USE <1>p, <1>o, <1>n, <1>w, ActorFacts, FreshTurnFact, ActorAssumption
    DEF Reserving, Starting, Aborters, Recording, Ending, Emptied, Pushing, Drained, Running,
        Goto, turnVars, storeVars, goalVars, taskVars, frameVars
<1>1. ASSUME NEW m \in UserMsgs, UserInput(m) PROVE Goal
  <2>1. UNCHANGED <<ts, ops>> /\ \A t \in Turns : ts[t] # NoTS => pc'[t] = pc[t]
    BY <1>1 DEF UserInput
  <2>2. \A t \in Turns : ts[t] # NoTS => pending'[ts[t]] = pending[ts[t]]
    <3>1. CASE NoTask
      BY <1>1, <3>1 DEF UserInput
    <3>2. CASE ~NoTask
      <4>1. \A s \in TurnStates : s # active => pending'[s] = pending[s]
        BY <1>1, <3>2 DEF UserInput
      <4> QED
        BY <3>2, <4>1 DEF NoTask
    <3> QED
      BY <3>1, <3>2
  <2>3. AddsNoLeftover
    BY <2>1, <2>2 DEF AddsNoLeftover
  <2> QED
    BY <2>3, <1>k
<1>2. CASE StandaloneTask
  <2>1. ops'["guardian"] = ops["guardian"]
    BY <1>2 DEF StandaloneTask
  <2>2. AddsNoLeftover
    BY <1>2, <2>1 DEF AddsNoLeftover, StandaloneTask
  <2> QED
    BY <2>2, <1>k
<1>3. ASSUME NEW m \in Mail, InterAgentCommunication(m) PROVE Goal
  <2>1. AddsNoLeftover
    BY <1>3 DEF AddsNoLeftover, InterAgentCommunication
  <2> QED
    BY <2>1, <1>k
<1>4. ASSUME NEW n \in Notes, InjectResponseItems(n) PROVE FALSE
  BY <1>4 DEF LoopStartsAlone
<1>5. CASE Interrupt
  <2>1. ops'["guardian"] = ops["guardian"]
    BY <1>5 DEF Interrupt
  <2>2. AddsNoLeftover
    BY <1>5, <2>1 DEF AddsNoLeftover, Interrupt
  <2> QED
    BY <2>2, <1>k
<1>6. ASSUME NEW t \in Turns, AbortTurnIfActive(t) PROVE Goal
  <2>1. ops'["guardian"] = ops["guardian"] + 1
    BY <1>6 DEF AbortTurnIfActive
  <2>2. ops'["guardian"] # 0
    BY <2>1
  <2>3. AddsNoLeftover
    BY <1>6, <2>2 DEF AddsNoLeftover, AbortTurnIfActive, TakeActiveTurn
  <2> QED
    BY <2>3, <1>k
<1>7. CASE ContinueActiveGoalIfIdle
  <2>1. ops'["guardian"] = ops["guardian"]
    BY <1>7 DEF ContinueActiveGoalIfIdle
  <2>2. AddsNoLeftover
    BY <1>7, <2>1 DEF AddsNoLeftover, ContinueActiveGoalIfIdle
  <2> QED
    BY <2>2, <1>k
<1>8. ASSUME QueueForNextTurn PROVE FALSE
  BY <1>8 DEF QueueForNextTurn
<1>9. CASE AbortAllTasks
  <2>1. AddsNoLeftover
    BY <1>9 DEF AddsNoLeftover, AbortAllTasks, TakeActiveTurn
  <2> QED
    BY <2>1, <1>k
<1>10. ASSUME NEW a \in Aborters, Abort(a) PROVE Goal
  <2>1. CASE CancelToken(a) \/ PauseGoal(a) \/ EmitTurnAborted(a)
    <3>1. AddsNoLeftover
      BY <2>1 DEF AddsNoLeftover, CancelToken, PauseGoal, EmitTurnAborted
    <3> QED
      BY <3>1, <1>k
  <2>2. CASE StopTask(a)
    <3>1. PICK v \in victims[a] :
            pc' = [pc EXCEPT ![a] = "abort_emit", ![v] = IF @ = "done" THEN "done" ELSE "dead"]
      BY <2>2 DEF StopTask
    <3>2. AddsNoLeftover
      BY <2>2, <3>1 DEF AddsNoLeftover, StopTask
    <3> QED
      BY <3>2, <1>k
  <2>3. CASE ClearPending(a)
    <3>1. /\ UNCHANGED ops /\ a \notin Turns
          /\ \A b \in Actors : b # a => pc'[b] = pc[b] /\ ts'[b] = ts[b]
          /\ \A s \in TurnStates : pending'[s] \subseteq pending[s]
      BY <2>3 DEF ClearPending
    <3>2. AddsNoLeftover
      BY <3>1 DEF AddsNoLeftover
    <3> QED
      BY <3>2, <1>k
  <2> QED
    BY <1>10, <2>1, <2>2, <2>3 DEF Abort
<1>11. ASSUME NEW a \in Actors, HasPendingWork(a) PROVE Goal
  <2>1. AddsNoLeftover
    BY <1>11 DEF AddsNoLeftover, HasPendingWork, AfterPendingWork
  <2> QED
    BY <2>1, <1>k
<1>12. ASSUME NEW a \in Actors, ReserveTurn(a) PROVE FALSE
  BY <1>12 DEF ReserveTurn
<1>13. ASSUME NEW a \in Actors, StartTake(a) PROVE Goal
  <2>1. /\ UNCHANGED <<ts, ops>> /\ a = Loop
        /\ \A b \in Actors : b # a => pc'[b] = pc[b]
        /\ \A s \in TurnStates : pending'[s] \subseteq pending[s]
    BY <1>13 DEF StartTake, TakePendingInput
  <2>2. AddsNoLeftover
    BY <2>1 DEF AddsNoLeftover
  <2> QED
    BY <2>2, <1>k
<1>14. ASSUME NEW a \in Actors, StartInsert(a) PROVE Goal
  <2>1. /\ UNCHANGED ops /\ a = Loop
        /\ \A b \in Actors : b # a => pc'[b] = pc[b] /\ ts'[b] = ts[b]
        /\ \A s \in TurnStates : pending'[s] \subseteq pending[s]
    BY <1>14 DEF StartInsert, GetOrInsert
  <2>2. AddsNoLeftover
    BY <2>1 DEF AddsNoLeftover
  <2> QED
    BY <2>2, <1>k
<1>15. ASSUME NEW a \in Actors, StartPush(a) PROVE Goal
  <2>1. a = Loop /\ pc[Loop] = "start_push"
    BY <1>15 DEF StartPush
  <2>2. /\ UNCHANGED ops /\ ts[Loop] = active
        /\ \A b \in Actors : b # a => pc'[b] = pc[b] /\ ts'[b] = ts[b]
        /\ \A s \in TurnStates : s # active => pending'[s] = pending[s]
    BY <1>15, <2>1 DEF StartPush
  <2>3. AddsNoLeftover
    BY <2>1, <2>2 DEF AddsNoLeftover
  <2> QED
    BY <2>3, <1>k
<1>16. ASSUME NEW a \in Actors, StartAdd(a) PROVE Goal
  <2>1. a = Loop /\ pc[Loop] = "start_add"
    BY <1>16 DEF StartAdd
  <2>2. sub[a] \in Turns
    BY <1>a, <1>16 DEF StartAdd, SafeInv, SubsAreFresh, HoldsSub
  <2>3. /\ UNCHANGED <<ops, ts, pending>> /\ pc'[sub[a]] = "run"
        /\ \A b \in Actors : b # Loop /\ b # sub[a] => pc'[b] = pc[b]
    BY <1>16, <2>1, <2>2 DEF StartAdd, GetOrInsert
  <2>4. AddsNoLeftover
    BY <2>1, <2>2, <2>3 DEF AddsNoLeftover
  <2> QED
    BY <2>4, <1>k
<1>17. ASSUME NEW a \in Turns \union {Host}, Continue(a) PROVE Goal
  <2>1. AcquireContinuation(a) \/ GoalCandidate(a)
    BY <1>17 DEF Continue, GoalReserve, GoalReread, GoalCheck
  <2>2. AddsNoLeftover
    BY <2>1 DEF AddsNoLeftover, AcquireContinuation, GoalCandidate, Finished
  <2> QED
    BY <2>2, <1>k
<1>18. ASSUME NEW t \in Turns, RecordInput(t) PROVE Goal
  <2>1. UNCHANGED <<ts, pc, ops, active, tasks>> /\ pc[t] = "run"
    BY <1>18 DEF RecordInput
  <2>2. CASE UNCHANGED pending
    <3>1. AddsNoLeftover
      BY <2>1, <2>2 DEF AddsNoLeftover
    <3> QED
      BY <3>1, <1>k
  <2>3. CASE Careful /\ ~(UNCHANGED pending)
    <3>1. /\ HooksMayBlock /\ active # NoTS
          /\ \A s \in TurnStates : s # active => pending'[s] = pending[s]
      BY <1>18, <2>3 DEF RecordInput
    <3>2. victims[Guardian] = {}
      BY <2>3, <3>1 DEF Careful, EmptyHands
    <3>3. t \in tasks \/ t \in victims[Loop]
      BY <1>a, <2>1, <3>2 DEF SafeInv, TurnsStayInterruptible
    <3>4. t \in victims[Loop] => pc[Loop] \in Emptied
      BY <1>a DEF SafeInv, TasksHaveOneOwner
    <3>5. t \in tasks
      BY <3>1, <3>3, <3>4
    <3>6. \A u \in Turns : ts[u] # NoTS => ts[u] # active
      BY <3>5
    <3>7. AddsNoLeftover
      BY <2>1, <3>1, <3>6 DEF AddsNoLeftover
    <3> QED
      BY <3>7, <1>k
  <2>4. CASE ~Careful
    <3>1. Careful' <=> Careful
      BY <2>1 DEF Careful
    <3> QED
      BY <2>4, <3>1 DEF Recorded, Goal
  <2> QED
    BY <2>2, <2>3, <2>4
<1>19. ASSUME NEW t \in Turns, DrainInput(t) PROVE Goal
  <2>1. /\ UNCHANGED <<ts, ops, pc>>
        /\ \A s \in TurnStates : pending'[s] \subseteq pending[s]
    BY <1>19 DEF DrainInput, TakePendingInput
  <2>2. AddsNoLeftover
    BY <2>1 DEF AddsNoLeftover
  <2> QED
    BY <2>2, <1>k
<1>20. ASSUME NEW t \in Turns, SetMailboxPhase(t) \/ RunReturn(t) \/ CompleteGoal(t)
       PROVE  Goal
  <2>1. AddsNoLeftover
    BY <1>20 DEF AddsNoLeftover, SetMailboxPhase, RunReturn, CompleteGoal
  <2> QED
    BY <2>1, <1>k
<1>21. ASSUME NEW t \in Turns,
              CheckCancelled(t) \/ RemoveTask(t) \/ EmitTurnComplete(t) \/ ClearActiveTurn(t)
       PROVE  Goal
  <2>1. AddsNoLeftover
    BY <1>21 DEF AddsNoLeftover, CheckCancelled, RemoveTask, EmitTurnComplete, ClearActiveTurn
  <2> QED
    BY <2>1, <1>k
<1>22. ASSUME NEW t \in Turns, RecordLeftover(t) PROVE Goal
  <2>1. /\ UNCHANGED <<ts, ops>> /\ \A u \in Turns : u # t => pc'[u] = pc[u]
        /\ \A s \in TurnStates : pending'[s] = IF s = ts[t] THEN {} ELSE pending[s]
    BY <1>22 DEF RecordLeftover
  <2>2. Careful' <=> Careful
    BY <2>1 DEF Careful
  <2>3. ASSUME Careful, NEW u \in Turns, ts[u] # NoTS, pc'[u] \in Recording
        PROVE  pending'[ts[u]] \intersect Tracked = {}
    <3>1. CASE ts[u] = ts[t]
      BY <2>1, <2>3, <3>1
    <3>2. CASE ts[u] # ts[t]
      BY <2>1, <2>3, <3>2 DEF Recorded
    <3> QED
      BY <3>1, <3>2
  <2> QED
    BY <2>1, <2>2, <2>3 DEF Recorded, Goal
<1>23. CASE UNCHANGED vars
  <2>1. AddsNoLeftover
    BY <1>23 DEF AddsNoLeftover, vars
  <2> QED
    BY <2>1, <1>k
<1> QED
  BY <1>1, <1>2, <1>3, <1>4, <1>5, <1>6, <1>7, <1>8, <1>9, <1>10, <1>11, <1>12, <1>13,
     <1>14, <1>15, <1>16, <1>17, <1>18, <1>19, <1>20, <1>21, <1>22, <1>23
  DEF Next, Environment, StartTask, RunTask, OnTaskFinished

----------------------------------------------------------------------------
(* Every item stays somewhere *)

Kept(i) == fate[i] = "held" => \E k, x : Held(i, k, x)

\* A step that leaves an item where it is.
Stays(i) ==
    /\ fate'[i] = fate[i]
    /\ i \in queued => i \in queued'
    /\ i \in mailbox => i \in mailbox'
    /\ \A s \in TurnStates : Referred(s) /\ i \in pending[s] => Referred(s)' /\ i \in pending'[s]
    /\ \A a \in Actors : i \in bag[a] => i \in bag'[a]
    /\ \A t \in Turns : pc[t] = "made" /\ i \in input[t] => pc'[t] = "made" /\ i \in input'[t]

LEMMA StaysStep ==
    ASSUME NEW i, Kept(i), Stays(i)
    PROVE  Kept(i)'
<1> SUFFICES ASSUME fate'[i] = "held" PROVE \E k, x : Held(i, k, x)'
  BY DEF Kept
<1>1. PICK k, x : Held(i, k, x)
  BY DEF Kept, Stays
<1>2. Held(i, k, x)'
  BY <1>1 DEF Held, Stays, Referred
<1> QED
  BY <1>2

\* Without a guardian that interferes with hooks, every step keeps every item.
LEMMA KeptStep ==
    ASSUME LoopStartsAlone, IndInv, TasksUnderWay, OneStarter, Anchored, EmptyHands,
           Recorded, Careful, [Next]_vars, NEW i \in Tracked, Kept(i)
    PROVE  Kept(i)'
<1>a. TypeOK /\ SafeInv
  BY DEF IndInv
<1>p. /\ pc \in [Actors -> Labels] /\ ts \in [Actors -> TurnStates \union {NoTS}]
      /\ active \in TurnStates \union {NoTS} /\ tasks \subseteq Turns
      /\ pending \in [TurnStates -> SUBSET Items] /\ bag \in [Actors -> SUBSET Items]
      /\ input \in [Turns -> SUBSET UserMsgs] /\ victims \in [Actors -> SUBSET Turns]
  BY <1>a DEF TypeOK
<1>o. /\ pc[Loop] # "queue"
      /\ \A a \in Actors : pc[a] \notin Reserving /\ (pc[a] \in Starting => a = Loop)
  BY DEF OneStarter
<1>r. \A s : Referred(s) => s \in TurnStates
  BY <1>p DEF Referred
<1> USE <1>p, <1>o, ActorFacts, FreshTurnFact, ActorAssumption
    DEF Reserving, Starting, Aborters, Goto, turnVars, storeVars, goalVars, taskVars, frameVars
<1>c. ASSUME UNCHANGED <<active, ts, pending, queued, mailbox, fate, bag, input>>,
             \A t \in Turns : pc[t] = "made" => pc'[t] = "made"
      PROVE  Kept(i)'
  <2>1. Stays(i)
    BY <1>c DEF Stays, Referred
  <2> QED
    BY <2>1, StaysStep
<1>h. ASSUME NEW k, NEW x, Held(i, k, x)' PROVE Kept(i)'
  BY <1>h DEF Kept
<1>f. ASSUME fate'[i] # "held" PROVE Kept(i)'
  BY <1>f DEF Kept
<1>d. ASSUME NEW a \in Actors, UNCHANGED <<active, ts, fate, input>>, TakePendingInput,
             bag[a] = {}, PendingInput \subseteq bag'[a], queued' = queued,
             \A b \in Actors \ {a} : bag'[b] = bag[b],
             \A t \in Turns : pc[t] = "made" => pc'[t] = "made"
      PROVE  Kept(i)'
  <2>1. /\ \A s \in TurnStates : pending'[s] = IF s = active THEN {} ELSE pending[s]
        /\ mailbox' = IF AcceptsMail THEN {} ELSE mailbox
    BY <1>d DEF TakePendingInput
  <2>2. CASE i \in PendingInput
    <3>1. Held(i, "bag", a)'
      BY <1>d, <2>2 DEF Held
    <3> QED
      BY <3>1, <1>h
  <2>3. CASE i \notin PendingInput
    <3>1. i \in mailbox => i \in mailbox'
      BY <2>1, <2>3 DEF PendingInput
    <3>2. \A s \in TurnStates : i \in pending[s] => i \in pending'[s]
      BY <2>1, <2>3 DEF PendingInput, TurnPending
    <3>3. Stays(i)
      BY <1>d, <3>1, <3>2 DEF Stays, Referred
    <3> QED
      BY <3>3, StaysStep
  <2> QED
    BY <2>2, <2>3
<1>1. ASSUME NEW m \in UserMsgs, UserInput(m) PROVE Kept(i)'
  <2>1. UNCHANGED <<active, ts, queued, mailbox, bag>> /\ fate[m] = "unsent"
    BY <1>1 DEF UserInput
  <2>2. \A j \in Tracked : j # m => fate'[j] = fate[j]
    BY <1>1 DEF UserInput, Fated
  <2>3. CASE ~NoTask
    <3>1. active \in TurnStates /\ UNCHANGED <<pc, input>>
      BY <1>1, <2>3 DEF UserInput, NoTask
    <3>2. \/ /\ \A s \in TurnStates :
                   pending'[s] = IF s = active THEN pending[s] \union {m} ELSE pending[s]
             /\ fate'[m] = "held"
          \/ UNCHANGED pending /\ fate'[m] = "refused"
      BY <1>1, <2>3, <3>1 DEF UserInput, Fated, Tracked
    <3>3. CASE i = m
      <4>1. CASE fate'[m] = "held"
        <5>1. Held(i, "pending", active)'
          BY <2>1, <3>1, <3>2, <3>3, <4>1 DEF Held, Referred
        <5> QED
          BY <5>1, <1>h
      <4> QED
        BY <3>3, <4>1, <1>f
    <3>4. CASE i # m
      <4>1. Stays(i)
        BY <2>1, <2>2, <3>1, <3>2, <3>4 DEF Stays, Referred
      <4> QED
        BY <4>1, StaysStep
    <3> QED
      BY <3>3, <3>4
  <2>4. CASE NoTask
    <3>1. /\ HasFreshTurn /\ UNCHANGED pending
          /\ input'[FreshTurn] = {m} /\ pc'[FreshTurn] = "made"
          /\ \A t \in Turns : t # FreshTurn => input'[t] = input[t] /\ pc'[t] = pc[t]
      BY <1>1, <2>4 DEF UserInput
    <3>2. CASE i = m
      <4>1. PICK f \in Turns : f = FreshTurn
        BY <3>1
      <4>2. Held(i, "input", f)'
        BY <3>1, <3>2, <4>1 DEF Held
      <4> QED
        BY <4>2, <1>h
    <3>3. CASE i # m
      <4>1. pc[FreshTurn] = "unborn"
        BY <3>1
      <4>2. Stays(i)
        BY <2>1, <2>2, <3>1, <3>3, <4>1 DEF Stays, Referred
      <4> QED
        BY <4>2, StaysStep
    <3> QED
      BY <3>2, <3>3
  <2> QED
    BY <2>3, <2>4
<1>2. CASE StandaloneTask
  <2>1. \A t \in Turns : pc[t] = "made" => pc'[t] = "made"
    BY <1>2 DEF StandaloneTask
  <2> QED
    BY <1>2, <2>1, <1>c DEF StandaloneTask
<1>3. ASSUME NEW m \in Mail, InterAgentCommunication(m) PROVE Kept(i)'
  <2>1. /\ UNCHANGED <<active, ts, pending, queued, bag, input>>
        /\ mailbox' = mailbox \union {m}
        /\ \A t \in Turns : pc'[t] = pc[t]
    BY <1>3 DEF InterAgentCommunication
  <2>2. i # m => fate'[i] = fate[i]
    BY <1>3 DEF InterAgentCommunication, Fated
  <2>3. CASE i = m
    <3>1. Held(i, "mailbox", i)'
      BY <2>1, <2>3 DEF Held
    <3> QED
      BY <3>1, <1>h
  <2>4. CASE i # m
    <3>1. Stays(i)
      BY <2>1, <2>2, <2>4 DEF Stays, Referred
    <3> QED
      BY <3>1, StaysStep
  <2> QED
    BY <2>3, <2>4
<1>4. ASSUME NEW n \in Notes, InjectResponseItems(n) PROVE FALSE
  BY <1>4 DEF LoopStartsAlone
<1>5. CASE Interrupt
  BY <1>5, <1>c DEF Interrupt
<1>6. ASSUME NEW t \in Turns, AbortTurnIfActive(t) PROVE Kept(i)'
  <2>1. /\ UNCHANGED <<pending, queued, mailbox, fate, bag, input>>
        /\ \A b \in Actors : b # Guardian => ts'[b] = ts[b]
        /\ ts'[Guardian] = active /\ pc[Guardian] = "idle"
        /\ \A u \in Turns : pc'[u] = pc[u]
    BY <1>6 DEF AbortTurnIfActive, TakeActiveTurn, NoTask
  <2>2. ts[Guardian] = NoTS
    BY <2>1 DEF Anchored, Drained
  <2>3. \A s \in TurnStates : Referred(s) => Referred(s)'
    BY <2>1, <2>2 DEF Referred
  <2>4. Stays(i)
    BY <2>1, <2>3 DEF Stays
  <2> QED
    BY <2>4, StaysStep
<1>7. CASE ContinueActiveGoalIfIdle
  BY <1>7, <1>c DEF ContinueActiveGoalIfIdle
<1>8. ASSUME QueueForNextTurn PROVE FALSE
  BY <1>8 DEF QueueForNextTurn
<1>9. CASE AbortAllTasks
  <2>1. /\ UNCHANGED <<pending, queued, mailbox, fate, bag, input>>
        /\ \A b \in Actors : b # Loop => ts'[b] = ts[b]
        /\ pc[Loop] = "abort_take"
        /\ \A u \in Turns : pc'[u] = pc[u]
    BY <1>9 DEF AbortAllTasks, TakeActiveTurn
  <2>2. ts[Loop] = NoTS
    BY <2>1 DEF Anchored, Drained
  <2>3. active # NoTS => ts'[Loop] = active \/ \E t \in Turns : ts'[t] = active
    <3>1. CASE NoTask
      BY <2>1, <3>1 DEF Anchored, Pushing, NoTask
    <3>2. CASE ~NoTask
      BY <1>9, <3>2 DEF AbortAllTasks, TakeActiveTurn
    <3> QED
      BY <3>1, <3>2
  <2>4. \A s \in TurnStates : Referred(s) => Referred(s)'
    BY <2>1, <2>2, <2>3 DEF Referred
  <2>5. Stays(i)
    BY <2>1, <2>4 DEF Stays
  <2> QED
    BY <2>5, StaysStep
<1>10. ASSUME NEW a \in Aborters, CancelToken(a) \/ EmitTurnAborted(a) \/ PauseGoal(a)
       PROVE  Kept(i)'
  BY <1>10, <1>c DEF CancelToken, EmitTurnAborted, PauseGoal
<1>11. ASSUME NEW a \in Aborters, StopTask(a) PROVE Kept(i)'
  <2>1. PICK v \in victims[a] \intersect cancelled :
          /\ pc' = [pc EXCEPT ![a] = "abort_emit", ![v] = IF @ = "done" THEN "done" ELSE "dead"]
          /\ fate' = Fated(bag[v], "aborted")
          /\ bag' = [bag EXCEPT ![v] = {}]
    BY <1>11 DEF StopTask
  <2>2. UNCHANGED <<active, ts, pending, queued, mailbox, input>>
    BY <1>11 DEF StopTask
  <2>3. v \in Turns /\ pc[v] # "made"
    BY <2>1 DEF TasksUnderWay, Running, Stopped
  <2>4. /\ \A b \in Actors : b # v => bag'[b] = bag[b]
        /\ \A t \in Turns : pc[t] = "made" => pc'[t] = "made"
        /\ fate'[i] = IF i \in bag[v] THEN "aborted" ELSE fate[i]
    BY <2>1, <2>3 DEF Fated
  <2>5. CASE i \in bag[v]
    BY <2>4, <2>5, <1>f
  <2>6. CASE i \notin bag[v]
    <3>1. Stays(i)
      BY <2>2, <2>3, <2>4, <2>6 DEF Stays, Referred
    <3> QED
      BY <3>1, StaysStep
  <2> QED
    BY <2>5, <2>6
<1>12. ASSUME NEW a \in Aborters, ClearPending(a) PROVE Kept(i)'
  <2>1. /\ UNCHANGED <<active, queued, mailbox, input, bag>>
        /\ \A b \in Actors : b # a => ts'[b] = ts[b]
        /\ \A t \in Turns : pc'[t] = pc[t]
    BY <1>12 DEF ClearPending
  <2>2. CASE ts[a] # NoTS /\ i \in pending[ts[a]]
    <3>1. fate'[i] = "aborted"
      BY <1>12, <2>2 DEF ClearPending, Fated
    <3> QED
      BY <3>1, <1>f
  <2>3. CASE ~(ts[a] # NoTS /\ i \in pending[ts[a]])
    <3>1. /\ \A s \in TurnStates : s # ts[a] => pending'[s] = pending[s]
          /\ fate'[i] = fate[i]
      BY <1>12, <2>3 DEF ClearPending, Fated
    <3>2. \A s \in TurnStates : Referred(s) /\ s # ts[a] => Referred(s)'
      BY <2>1 DEF Referred
    <3>3. Stays(i)
      BY <2>1, <2>3, <3>1, <3>2 DEF Stays
    <3> QED
      BY <3>3, StaysStep
  <2> QED
    BY <2>2, <2>3
<1>13. ASSUME NEW a \in Actors, HasPendingWork(a) PROVE Kept(i)'
  BY <1>13, <1>c DEF HasPendingWork
<1>14. ASSUME NEW a \in Actors, ReserveTurn(a) PROVE FALSE
  BY <1>14 DEF ReserveTurn
<1>15. ASSUME NEW a \in Actors, StartTake(a) PROVE Kept(i)'
  <2>1. a = Loop /\ pc[Loop] = "start_take" /\ queued = {}
    BY <1>15 DEF StartTake, OneStarter
  <2>2. bag[a] = {}
    BY <2>1 DEF EmptyHands
  <2>3. /\ UNCHANGED <<active, ts, fate, input>> /\ queued' = queued /\ TakePendingInput
        /\ PendingInput \subseteq bag'[a]
        /\ \A b \in Actors \ {a} : bag'[b] = bag[b]
        /\ \A t \in Turns : pc[t] = "made" => pc'[t] = "made"
    BY <1>15, <2>1 DEF StartTake
  <2> QED
    BY <2>2, <2>3, <1>d
<1>16. ASSUME NEW a \in Actors, StartInsert(a) PROVE Kept(i)'
  <2>1. a = Loop /\ pc[Loop] = "start_insert"
    BY <1>16 DEF StartInsert
  <2>2. active = NoTS /\ ts[Loop] = NoTS
    BY <2>1 DEF Anchored, Emptied, Drained
  <2>3. /\ UNCHANGED <<queued, mailbox, fate, bag, input>>
        /\ \A b \in Actors : b # Loop => ts'[b] = ts[b]
        /\ \A t \in Turns : pc'[t] = pc[t]
    BY <1>16, <2>1 DEF StartInsert
  <2>4. \A s \in TurnStates : Referred(s) => Referred(s)' /\ pending'[s] = pending[s]
    BY <1>16, <2>1, <2>2, <2>3 DEF StartInsert, GetOrInsert, HasFreshTS, FreshTS, Referred
  <2>5. Stays(i)
    BY <2>3, <2>4 DEF Stays
  <2> QED
    BY <2>5, StaysStep
<1>17. ASSUME NEW a \in Actors, StartPush(a) PROVE Kept(i)'
  <2>1. a = Loop /\ pc[Loop] = "start_push"
    BY <1>17 DEF StartPush
  <2>2. active \in TurnStates /\ ts[Loop] = active
    BY <2>1 DEF Anchored, Pushing
  <2>3. /\ UNCHANGED <<active, queued, mailbox, fate, input>>
        /\ \A b \in Actors : b # Loop => ts'[b] = ts[b] /\ bag'[b] = bag[b]
        /\ \A t \in Turns : pc'[t] = pc[t]
        /\ \A s \in TurnStates :
              pending'[s] = IF s = active THEN pending[s] \union bag[Loop] ELSE pending[s]
    BY <1>17, <2>1, <2>2 DEF StartPush
  <2>4. \A s \in TurnStates : Referred(s) => Referred(s)'
    BY <2>2, <2>3 DEF Referred
  <2>5. CASE i \in bag[Loop]
    <3>1. Held(i, "pending", active)'
      BY <2>2, <2>3, <2>5 DEF Held, Referred
    <3> QED
      BY <3>1, <1>h
  <2>6. CASE i \notin bag[Loop]
    <3>1. Stays(i)
      BY <2>3, <2>4, <2>6 DEF Stays
    <3> QED
      BY <3>1, StaysStep
  <2> QED
    BY <2>5, <2>6
<1>18. ASSUME NEW a \in Actors, StartAdd(a) PROVE Kept(i)'
  <2>1. a = Loop /\ pc[Loop] = "start_add"
    BY <1>18 DEF StartAdd
  <2>2. active # NoTS
    BY <2>1 DEF Anchored, Pushing
  <2>3. sub[a] \in Turns /\ pc[sub[a]] = "made"
    BY <1>a, <1>18 DEF StartAdd, SafeInv, SubsAreFresh, HoldsSub
  <2>4. bag[sub[a]] = {}
    BY <2>3 DEF EmptyHands
  <2>5. /\ UNCHANGED <<active, pending, queued, mailbox, fate, input, ts>>
        /\ \A b \in Actors : bag'[b] = IF b = sub[a] THEN input[b] ELSE bag[b]
        /\ \A t \in Turns : t # sub[a] => pc'[t] = pc[t]
    BY <1>18, <2>1, <2>2, <2>3 DEF StartAdd, GetOrInsert
  <2>6. CASE i \in input[sub[a]]
    <3>1. PICK t \in Turns : t = sub[a]
      BY <2>3
    <3>2. Held(i, "bag", t)'
      BY <2>5, <2>6, <3>1 DEF Held
    <3> QED
      BY <3>2, <1>h
  <2>7. CASE i \notin input[sub[a]]
    <3>1. Stays(i)
      BY <2>4, <2>5, <2>7 DEF Stays, Referred
    <3> QED
      BY <3>1, StaysStep
  <2> QED
    BY <2>6, <2>7
<1>19. ASSUME NEW a \in Turns \union {Host}, Continue(a) PROVE Kept(i)'
  <2>1. AcquireContinuation(a) \/ GoalCandidate(a)
    BY <1>19 DEF Continue, GoalReserve, GoalReread, GoalCheck
  <2> QED
    BY <2>1, <1>c DEF AcquireContinuation, GoalCandidate, Finished
<1>20. ASSUME NEW t \in Turns, RecordInput(t) PROVE Kept(i)'
  <2>1. /\ UNCHANGED <<active, ts, queued, mailbox, input, pc>>
        /\ \A b \in Actors : b # t => bag'[b] = bag[b]
    BY <1>20 DEF RecordInput
  <2>2. CASE fate' = Fated(bag[t], "recorded") /\ UNCHANGED pending
    <3>1. fate'[i] = IF i \in bag[t] THEN "recorded" ELSE fate[i]
      BY <2>2 DEF Fated
    <3>2. CASE i \in bag[t]
      BY <3>1, <3>2, <1>f
    <3>3. CASE i \notin bag[t]
      <4>1. Stays(i)
        BY <2>1, <2>2, <3>1, <3>3 DEF Stays, Referred
      <4> QED
        BY <4>1, StaysStep
    <3> QED
      BY <3>2, <3>3
  <2>3. ASSUME NEW b \in bag[t] \intersect UserMsgs, NEW acc \in SUBSET (bag[t] \ {b}),
               fate' = [j \in Tracked |->
                          CASE j = b -> "refused"
                            [] j \in acc -> "recorded"
                            [] j \in bag[t] \ (acc \union {b}) /\ active = NoTS -> "aborted"
                            [] OTHER -> fate[j]],
               pending' = IF active = NoTS THEN pending
                          ELSE [pending EXCEPT ![active] =
                                  pending[active] \union (bag[t] \ (acc \union {b}))]
        PROVE  Kept(i)'
    <3> DEFINE rest == bag[t] \ (acc \union {b})
    <3>1. fate'[i] = CASE i = b -> "refused"
                       [] i \in acc -> "recorded"
                       [] i \in rest /\ active = NoTS -> "aborted"
                       [] OTHER -> fate[i]
      BY <2>3
    <3>2. \A s \in TurnStates :
            pending'[s] = IF s = active THEN pending[s] \union rest ELSE pending[s]
      BY <2>3
    <3>3. i \in bag[t] <=> i = b \/ i \in acc \/ i \in rest
      BY <2>3
    <3> HIDE DEF rest
    <3>4. CASE i = b \/ i \in acc \/ (i \in rest /\ active = NoTS)
      <4>1. fate'[i] # "held"
        BY <3>1, <3>4
      <4> QED
        BY <4>1, <1>f
    <3>5. CASE i \in rest /\ active # NoTS
      <4>1. Held(i, "pending", active)'
        BY <2>1, <3>2, <3>5 DEF Held, Referred
      <4> QED
        BY <4>1, <1>h
    <3>6. CASE i \notin bag[t]
      <4>1. fate'[i] = fate[i]
        BY <3>1, <3>3, <3>6
      <4>2. Stays(i)
        BY <2>1, <3>2, <3>6, <4>1 DEF Stays, Referred
      <4> QED
        BY <4>2, StaysStep
    <3> QED
      BY <3>3, <3>4, <3>5, <3>6
  <2> QED
    BY <1>20, <2>2, <2>3 DEF RecordInput
<1>21. ASSUME NEW t \in Turns, DrainInput(t) PROVE Kept(i)'
  <2>1. /\ UNCHANGED <<active, ts, fate, input>> /\ queued' = queued /\ TakePendingInput
        /\ bag[t] = {} /\ PendingInput \subseteq bag'[t]
        /\ \A b \in Actors \ {t} : bag'[b] = bag[b]
        /\ UNCHANGED pc
    BY <1>21 DEF DrainInput
  <2> QED
    BY <2>1, <1>d
<1>22. ASSUME NEW t \in Turns,
              SetMailboxPhase(t) \/ RunReturn(t) \/ CompleteGoal(t) \/ CheckCancelled(t)
                \/ EmitTurnComplete(t)
       PROVE  Kept(i)'
  <2>1. /\ UNCHANGED <<active, ts, pending, queued, mailbox, fate, bag, input>>
        /\ \A u \in Turns : pc[u] = "made" => pc'[u] = "made"
    BY <1>22 DEF SetMailboxPhase, RunReturn, CompleteGoal, CheckCancelled, EmitTurnComplete
  <2> QED
    BY <2>1, <1>c
<1>23. ASSUME NEW t \in Turns, RemoveTask(t) PROVE Kept(i)'
  <2>1. /\ UNCHANGED <<active, pending, queued, mailbox, fate, bag, input>>
        /\ pc[t] = "remove"
        /\ \A b \in Actors : b # t => ts'[b] = ts[b]
        /\ \A u \in Turns : pc[u] = "made" => pc'[u] = "made"
    BY <1>23 DEF RemoveTask
  <2>2. ts[t] = NoTS
    BY <2>1 DEF TasksUnderWay, Running
  <2>3. \A s \in TurnStates : Referred(s) => Referred(s)'
    BY <2>1, <2>2 DEF Referred
  <2>4. Stays(i)
    BY <2>1, <2>3 DEF Stays
  <2> QED
    BY <2>4, StaysStep
<1>24. ASSUME NEW t \in Turns, RecordLeftover(t) PROVE Kept(i)'
  <2>1. /\ UNCHANGED <<active, ts, queued, mailbox, input, bag>>
        /\ \A s \in TurnStates : s # ts[t] => pending'[s] = pending[s]
        /\ \A u \in Turns : pc[u] = "made" => pc'[u] = "made"
    BY <1>24 DEF RecordLeftover
  <2>2. PICK blocked \in SUBSET (pending[ts[t]] \intersect UserMsgs) :
           fate' = [j \in Tracked |->
                      CASE j \in blocked -> "refused"
                        [] j \in pending[ts[t]] \ blocked -> "recorded"
                        [] OTHER -> fate[j]]
    BY <1>24 DEF RecordLeftover
  <2>3. CASE i \in pending[ts[t]]
    <3>1. fate'[i] # "held"
      BY <2>2, <2>3
    <3> QED
      BY <3>1, <1>f
  <2>4. CASE i \notin pending[ts[t]]
    <3>1. fate'[i] = fate[i]
      BY <2>2, <2>4
    <3>2. Stays(i)
      BY <2>1, <2>4, <3>1 DEF Stays, Referred
    <3> QED
      BY <3>2, StaysStep
  <2> QED
    BY <2>3, <2>4
<1>25. ASSUME NEW t \in Turns, ClearActiveTurn(t) PROVE Kept(i)'
  <2>1. /\ UNCHANGED <<pending, queued, mailbox, fate, bag, input>>
        /\ active' \in {active, NoTS} /\ (active' # active => active = ts[t])
        /\ \A b \in Actors : b # t => ts'[b] = ts[b]
        /\ pc[t] = "clear"
        /\ \A u \in Turns : pc[u] = "made" => pc'[u] = "made"
    BY <1>25 DEF ClearActiveTurn
  <2>2. ts[t] # NoTS => i \notin pending[ts[t]]
    BY <2>1 DEF Recorded, Recording
  <2>3. \A s \in TurnStates : Referred(s) /\ s # ts[t] => Referred(s)'
    BY <2>1 DEF Referred
  <2>4. Stays(i)
    BY <2>1, <2>2, <2>3 DEF Stays
  <2> QED
    BY <2>4, StaysStep
<1>26. CASE UNCHANGED vars
  BY <1>26, <1>c DEF vars
<1> QED
  BY <1>1, <1>2, <1>3, <1>4, <1>5, <1>6, <1>7, <1>8, <1>9, <1>10, <1>11, <1>12, <1>13,
     <1>14, <1>15, <1>16, <1>17, <1>18, <1>19, <1>20, <1>21, <1>22, <1>23, <1>24, <1>25,
     <1>26
  DEF Next, Environment, Abort, StartTask, RunTask, OnTaskFinished

----------------------------------------------------------------------------
(* Theorems *)

\* The inductive invariant, next to those of TurnLifecycleProofs and TurnDeliveryProofs.
SteeringInv ==
    /\ OneStarter
    /\ Anchored
    /\ EmptyHands
    /\ Recorded
    /\ Careful => \A i \in Tracked : Kept(i)

\* While only the submission loop starts turns, every reachable state satisfies the
\* inductive invariant.
THEOREM SteeringInvariance == LoopStartsAlone => (Spec => [](IndInv /\ SteeringInv))
<1> SUFFICES ASSUME LoopStartsAlone PROVE Spec => [](IndInv /\ SteeringInv)
  OBVIOUS
<1>1. Init => SteeringInv
  <2> SUFFICES ASSUME Init PROVE SteeringInv
    OBVIOUS
  <2> USE ActorFacts, ActorAssumption DEF Init
  <2>1. OneStarter
    BY DEF OneStarter, LoopStartsAlone, Reserving, Starting, Aborting, Drained
  <2>2. Anchored
    BY DEF Anchored, Emptied, Pushing, Ending, Drained
  <2>3. EmptyHands
    BY DEF EmptyHands
  <2>4. Recorded
    BY DEF Recorded
  <2>5. \A i \in Tracked : Kept(i)
    BY DEF Kept
  <2> QED
    BY <2>1, <2>2, <2>3, <2>4, <2>5 DEF SteeringInv
<1>2. IndInv /\ DeliveryInv /\ SteeringInv /\ [Next]_vars => SteeringInv'
  <2> SUFFICES ASSUME IndInv, DeliveryInv, SteeringInv, [Next]_vars PROVE SteeringInv'
    OBVIOUS
  <2>1. /\ TasksUnderWay /\ OneStarter /\ Anchored /\ EmptyHands /\ Recorded
        /\ Careful => \A i \in Tracked : Kept(i)
    BY DEF SteeringInv, DeliveryInv
  <2>2. OneStarter'
    BY <2>1, OneStarterStep
  <2>3. Anchored'
    BY <2>1, <2>2, AnchoredStep
  <2>4. EmptyHands'
    BY <2>1, HandsStep
  <2>5. Recorded' /\ (Careful' => Careful)
    BY <2>1, RecordedStep
  <2>6. ASSUME Careful', NEW i \in Tracked PROVE Kept(i)'
    BY <2>1, <2>5, <2>6, KeptStep
  <2> QED
    BY <2>2, <2>3, <2>4, <2>5, <2>6 DEF SteeringInv
<1> QED
  BY DeliveryInvariance, <1>1, <1>2, PTL DEF Spec

\* "A session has at most 1 running task at a time" holds for any number of turns and
\* messages while only the submission loop starts turns: it has drained the active turn
\* before start_task adds the new task to it.
THEOREM OneTask == LoopStartsAlone => (Spec => []AtMostOneRunningTask)
<1> SUFFICES ASSUME LoopStartsAlone PROVE Spec => []AtMostOneRunningTask
  OBVIOUS
<1>1. SteeringInv => AtMostOneRunningTask
  <2> SUFFICES ASSUME SteeringInv PROVE Cardinality(tasks) <= 1
    BY DEF AtMostOneRunningTask
  <2>1. \A t, u \in tasks : t = u
    BY DEF SteeringInv, OneStarter
  <2>2. CASE tasks = {}
    BY <2>2, FS_EmptySet
  <2>3. ASSUME NEW t \in tasks PROVE Cardinality(tasks) <= 1
    <3>1. tasks = {t}
      BY <2>1
    <3>2. Cardinality({t}) = 1
      BY FS_Singleton
    <3> QED
      BY <3>1, <3>2
  <2> QED
    BY <2>2, <2>3
<1> QED
  BY SteeringInvariance, <1>1, PTL

\* While only the submission loop starts turns, no input the session accepted is lost,
\* with any number of turns, messages and mail, of interrupts and of guardian aborts:
\* what no turn will read any more has been recorded, refused or dropped by an abort.
THEOREM NoInputLost == LoopStartsAlone => (Spec => []NoAcceptedInputLost)
<1> SUFFICES ASSUME LoopStartsAlone PROVE Spec => []NoAcceptedInputLost
  OBVIOUS
<1>1. IndInv /\ SteeringInv => NoAcceptedInputLost
  <2> SUFFICES ASSUME IndInv, SteeringInv, Careful, NEW i \in Tracked, fate[i] = "held"
               PROVE  Places(i) # {}
    BY DEF NoAcceptedInputLost, Careful
  <2>1. PICK k, x : Held(i, k, x)
    BY DEF SteeringInv, Kept
  <2>2. Referred(x) => x \in LiveTS
    BY ActorAssumption DEF LiveTS, Referred
  <2>3. CASE k = "queued" /\ x = i /\ i \in queued
    BY <2>3 DEF Places
  <2>4. CASE k = "mailbox" /\ x = i /\ i \in mailbox
    BY <2>4 DEF Places
  <2>5. CASE k = "pending" /\ Referred(x) /\ i \in pending[x]
    BY <2>2, <2>5 DEF Places
  <2>6. CASE k = "bag" /\ x \in Actors /\ i \in bag[x]
    BY <2>6 DEF Places
  <2>7. CASE k = "input" /\ x \in Turns /\ pc[x] = "made" /\ i \in input[x]
    BY <2>7 DEF Places
  <2> QED
    BY <2>1, <2>3, <2>4, <2>5, <2>6, <2>7 DEF Held
<1> QED
  BY SteeringInvariance, <1>1, PTL
=============================================================================
