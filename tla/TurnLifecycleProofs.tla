------------------------ MODULE TurnLifecycleProofs ------------------------
(***************************************************************************)
(* TLAPS proofs about TurnLifecycle, for any set of turns, items and turn  *)
(* states and any bounds on what the environment repeats.                  *)
(***************************************************************************)
EXTENDS TurnLifecycle, TLAPS

Starting == {"start_take", "start_insert", "start_push", "start_add"}
Aborting == {"abort_take", "abort_next", "abort_wait", "abort_emit", "abort_clear"}
Stopped  == {"done", "dead"}
Aborters == {Loop, Guardian}

\* a is committed to starting turn sub[a], at once or after an abort.
HoldsSub(a) ==
    pc[a] \in Starting \/ (pc[a] \in Aborting /\ reason[a] = "Replaced")

\* An active turn that is None has no tasks.
NoTurnNoTasks == active = NoTS => tasks = {}

\* A turn that is being started has been created, has not been spawned, and is
\* started by one actor only.
SubsAreFresh ==
    /\ \A a \in Actors : HoldsSub(a) => sub[a] \in Turns /\ pc[sub[a]] = "made"
    /\ \A a, b \in Actors : HoldsSub(a) /\ HoldsSub(b) /\ sub[a] = sub[b] => a = b

\* Tasks that were added to an active turn have been spawned.
TasksAreSpawned ==
    \A t \in Turns : pc[t] \in {"unborn", "made"} =>
        /\ t \notin tasks /\ t \notin cancelled /\ t \notin aborted
        /\ \A a \in Actors : t \notin victims[a]

\* A task is in one ActiveTurn, or drained by one aborter; a cancelled one is not
\* in the active turn any more.
TasksHaveOneOwner ==
    /\ \A a \in Actors : victims[a] # {} =>
          a \in Aborters /\ pc[a] \in {"abort_next", "abort_wait", "abort_emit"}
    /\ \A t \in tasks : t \notin cancelled /\ \A a \in Actors : t \notin victims[a]
    /\ \A a, b \in Actors : \A t \in Turns :
          t \in victims[a] /\ t \in victims[b] => a = b

\* handle_task_abort runs for one drained task at a time, and the task is stopped
\* before its TurnAborted event is sent.
OneAbortAtATime ==
    \A a \in Aborters : \A v \in victims[a] : v \in cancelled =>
        /\ pc[a] # "abort_next"
        /\ pc[a] = "abort_emit" => pc[v] \in Stopped
        /\ \A w \in victims[a] : w \in cancelled => v = w

\* The inductive invariant.
SafeInv ==
    /\ NoTurnNoTasks
    /\ SubsAreFresh
    /\ TasksAreSpawned
    /\ TasksHaveOneOwner
    /\ OneAbortAtATime
    /\ AbortedTurnsStop
    /\ TurnsStayInterruptible

----------------------------------------------------------------------------
(* Facts the cases below share *)

\* While a turn is left, the turn a creator picks is one that does not exist yet.
LEMMA FreshTurnFact ==
    HasFreshTurn => FreshTurn \in Turns /\ pc[FreshTurn] = "unborn"
BY DEF HasFreshTurn, FreshTurn

\* The callers are actors, are not turns, and the two aborters differ.
LEMMA ActorFacts ==
    /\ Loop \in Actors /\ Host \in Actors /\ Guardian \in Actors
    /\ Turns \subseteq Actors
    /\ Loop \notin Turns /\ Host \notin Turns /\ Guardian \notin Turns
    /\ Loop # Guardian
BY ActorAssumption DEF Actors, Callers

----------------------------------------------------------------------------
(* Type correctness *)

\* Every step keeps the types, given that start_task starts a turn.
LEMMA TypeStep == TypeOK /\ SubsAreFresh /\ [Next]_vars => TypeOK'
<1> SUFFICES ASSUME TypeOK, SubsAreFresh, [Next]_vars PROVE TypeOK'
  OBVIOUS
<1> USE ActorFacts, FreshTurnFact, ItemAssumption
    DEF OpKinds, Items, Tracked, Labels, TypeOK, Aborters, Goto,
        turnVars, storeVars, goalVars, taskVars, frameVars
<1>1. ASSUME NEW m \in UserMsgs, UserInput(m) PROVE TypeOK'
  <2>1. fate' \in [Tracked -> {"unsent", "held", "recorded", "refused", "aborted"}]
    BY <1>1 DEF UserInput, Fated
  <2>2. /\ pending' \in [TurnStates -> SUBSET Items]
        /\ phase' \in [TurnStates -> {"CurrentTurn", "NextTurn"}]
    BY SMTT(60), <1>1 DEF UserInput, NoTask
  <2>3. /\ kind' \in [Turns -> {"Regular", "Standalone"}]
        /\ input' \in [Turns -> SUBSET UserMsgs]
    <3>1. \/ UNCHANGED <<kind, input>>
          \/ /\ HasFreshTurn
             /\ kind' = [kind EXCEPT ![FreshTurn] = "Regular"]
             /\ input' = [input EXCEPT ![FreshTurn] = {m}]
      BY <1>1 DEF UserInput
    <3> QED
      BY SMTT(60), <3>1
  <2>4. /\ sub' \in [Actors -> Turns \union {NoTurn}]
        /\ reason' \in [Actors -> {"Replaced", "Interrupted"}]
    <3>1. \/ UNCHANGED <<sub, reason>>
          \/ /\ HasFreshTurn
             /\ sub' = [sub EXCEPT ![Loop] = FreshTurn]
             /\ reason' = [reason EXCEPT ![Loop] = "Replaced"]
      BY <1>1 DEF UserInput
    <3> QED
      BY SMTT(60), <3>1
  <2>5. pc' \in [Actors -> Labels]
    BY <1>1 DEF UserInput
  <2> QED
    BY <1>1, <2>1, <2>2, <2>3, <2>4, <2>5 DEF UserInput
<1>2. CASE StandaloneTask
  BY SMTT(60), <1>2 DEF StandaloneTask
<1>3. ASSUME NEW m \in Mail, InterAgentCommunication(m) PROVE TypeOK'
  BY SMTT(60), <1>3 DEF InterAgentCommunication, Fated
<1>4. ASSUME NEW n \in Notes, InjectResponseItems(n) PROVE TypeOK'
  BY SMTT(60), <1>4 DEF InjectResponseItems, Fated
<1>5. CASE Interrupt
  BY <1>5 DEF Interrupt
<1>6. ASSUME NEW t \in Turns, AbortTurnIfActive(t) PROVE TypeOK'
  BY <1>6 DEF AbortTurnIfActive, TakeActiveTurn
<1>7. CASE ContinueActiveGoalIfIdle
  BY <1>7 DEF ContinueActiveGoalIfIdle
<1>8. CASE QueueForNextTurn
  BY <1>8 DEF QueueForNextTurn
<1>9. CASE AbortAllTasks
  BY <1>9 DEF AbortAllTasks, TakeActiveTurn
<1>10. ASSUME NEW a \in Aborters, CancelToken(a) PROVE TypeOK'
  BY <1>10 DEF CancelToken
<1>11. ASSUME NEW a \in Aborters, StopTask(a) PROVE TypeOK'
  BY SMTT(60), <1>11 DEF StopTask, Fated
<1>12. ASSUME NEW a \in Aborters, EmitTurnAborted(a) PROVE TypeOK'
  BY SMTT(60), <1>12 DEF EmitTurnAborted
<1>13. ASSUME NEW a \in Aborters, PauseGoal(a) PROVE TypeOK'
  BY <1>13 DEF PauseGoal
<1>14. ASSUME NEW a \in Aborters, ClearPending(a) PROVE TypeOK'
  BY SMTT(60), <1>14 DEF ClearPending, Fated
<1>15. ASSUME NEW a \in Actors, HasPendingWork(a) PROVE TypeOK'
  BY SMTT(60), <1>15 DEF HasPendingWork, AfterPendingWork
<1>16. ASSUME NEW a \in Actors, ReserveTurn(a) PROVE TypeOK'
  BY SMTT(60), <1>16 DEF ReserveTurn, AfterPendingWork, GetOrInsert
<1>17. ASSUME NEW a \in Actors, StartTake(a) PROVE TypeOK'
  BY <1>17 DEF StartTake, TakePendingInput, PendingInput, TurnPending, AcceptsMail
<1>18. ASSUME NEW a \in Actors, StartInsert(a) PROVE TypeOK'
  BY SMTT(60), <1>18 DEF StartInsert, GetOrInsert
<1>19. ASSUME NEW a \in Actors, StartPush(a) PROVE TypeOK'
  <2>1. pending' \in [TurnStates -> SUBSET Items]
    <3>1. \A u \in TurnStates : pending[u] \union bag[a] \in SUBSET Items
      OBVIOUS
    <3>2. pending' = [pending EXCEPT ![ts[a]] = @ \union bag[a]]
      BY <1>19 DEF StartPush
    <3>3. pending \in [TurnStates -> SUBSET Items]
      OBVIOUS
    <3> QED
      BY ZenonT(30), <3>1, <3>2, <3>3
  <2>2. bag' \in [Actors -> SUBSET Items] /\ pc' \in [Actors -> Labels]
    BY <1>19 DEF StartPush
  <2> QED
    BY <1>19, <2>1, <2>2 DEF StartPush
<1>20. ASSUME NEW a \in Actors, StartAdd(a) PROVE TypeOK'
  <2>1. sub[a] \in Turns
    BY <1>20 DEF StartAdd, SubsAreFresh, HoldsSub, Starting
  <2>2. /\ active' \in TurnStates \union {NoTS}
        /\ tasks' \subseteq Turns
        /\ pending' \in [TurnStates -> SUBSET Items]
        /\ phase' \in [TurnStates -> {"CurrentTurn", "NextTurn"}]
    BY SMTT(60), <1>20, <2>1 DEF StartAdd, GetOrInsert
  <2>3. /\ bag' \in [Actors -> SUBSET Items]
        /\ pc' \in [Actors -> Labels]
        /\ sub' \in [Actors -> Turns \union {NoTurn}]
        /\ contLock' \in Actors \union {NoActor}
    BY <1>20, <2>1 DEF StartAdd, AfterPendingWork, Finished
  <2> QED
    BY <1>20, <2>2, <2>3 DEF StartAdd
<1>21. ASSUME NEW a \in Turns \union {Host}, AcquireContinuation(a) PROVE TypeOK'
  BY <1>21 DEF AcquireContinuation
<1>22. ASSUME NEW a \in Turns \union {Host}, GoalCandidate(a) PROVE TypeOK'
  BY <1>22 DEF GoalCandidate, Finished
<1>23. ASSUME NEW a \in Turns \union {Host}, GoalReserve(a) PROVE TypeOK'
  BY SMTT(60), <1>23 DEF GoalReserve, Finished, GetOrInsert
<1>24. ASSUME NEW a \in Turns \union {Host}, GoalReread(a) PROVE TypeOK'
  BY SMTT(60), <1>24 DEF GoalReread, Finished, ReleaseReservation
<1>25. ASSUME NEW a \in Turns \union {Host}, GoalCheck(a) PROVE TypeOK'
  <2>1. /\ active' \in TurnStates \union {NoTS}
        /\ contLock' \in Actors \union {NoActor}
        /\ ts' \in [Actors -> TurnStates \union {NoTS}]
    BY SMTT(60), <1>25 DEF GoalCheck, ReleaseReservation
  <2>2. pc' \in [Actors -> Labels]
    BY <1>25 DEF GoalCheck, ReleaseReservation, Finished
  <2>3. kind' \in [Turns -> {"Regular", "Standalone"}]
    BY <1>25 DEF GoalCheck
  <2>4. ops' \in [OpKinds -> Nat]
    BY <1>25 DEF GoalCheck
  <2>5. sub' \in [Actors -> Turns \union {NoTurn}]
    <3>1. \/ UNCHANGED sub
          \/ HasFreshTurn /\ sub' = [sub EXCEPT ![a] = FreshTurn]
      BY <1>25 DEF GoalCheck
    <3> QED
      BY <3>1
  <2> QED
    BY <1>25, <2>1, <2>2, <2>3, <2>4, <2>5 DEF GoalCheck
<1>26. ASSUME NEW t \in Turns, RecordInput(t) PROVE TypeOK'
  BY SMTT(60), <1>26 DEF RecordInput, Fated
<1>27. ASSUME NEW t \in Turns, DrainInput(t) PROVE TypeOK'
  BY SMTT(60), <1>27 DEF DrainInput, TakePendingInput, PendingInput, TurnPending, AcceptsMail
<1>28. ASSUME NEW t \in Turns, SetMailboxPhase(t) PROVE TypeOK'
  BY <1>28 DEF SetMailboxPhase
<1>29. ASSUME NEW t \in Turns, RunReturn(t) PROVE TypeOK'
  BY <1>29 DEF RunReturn
<1>30. ASSUME NEW t \in Turns, CompleteGoal(t) PROVE TypeOK'
  BY <1>30 DEF CompleteGoal
<1>31. ASSUME NEW t \in Turns, CheckCancelled(t) PROVE TypeOK'
  BY <1>31 DEF CheckCancelled
<1>32. ASSUME NEW t \in Turns, RemoveTask(t) PROVE TypeOK'
  BY <1>32 DEF RemoveTask
<1>33. ASSUME NEW t \in Turns, RecordLeftover(t) PROVE TypeOK'
  <2>1. fate' \in [Tracked -> {"unsent", "held", "recorded", "refused", "aborted"}]
    <3>1. PICK blocked \in SUBSET (pending[ts[t]] \intersect UserMsgs) :
             fate' = [i \in Tracked |->
                        CASE i \in blocked -> "refused"
                          [] i \in pending[ts[t]] \ blocked -> "recorded"
                          [] OTHER -> fate[i]]
      BY <1>33 DEF RecordLeftover
    <3>2. ASSUME NEW i \in Tracked
          PROVE  fate'[i] \in {"unsent", "held", "recorded", "refused", "aborted"}
      <4>1. fate[i] \in {"unsent", "held", "recorded", "refused", "aborted"}
        OBVIOUS
      <4>2. fate'[i] = CASE i \in blocked -> "refused"
                         [] i \in pending[ts[t]] \ blocked -> "recorded"
                         [] OTHER -> fate[i]
        BY SMTT(60), <3>1
      <4> QED
        BY <4>1, <4>2
    <3> QED
      BY <3>1, <3>2
  <2>2. /\ pending' \in [TurnStates -> SUBSET Items]
        /\ pc' \in [Actors -> Labels]
    BY <1>33 DEF RecordLeftover
  <2> QED
    BY <1>33, <2>1, <2>2 DEF RecordLeftover
<1>34. ASSUME NEW t \in Turns, EmitTurnComplete(t) PROVE TypeOK'
  BY <1>34 DEF EmitTurnComplete
<1>35. ASSUME NEW t \in Turns, ClearActiveTurn(t) PROVE TypeOK'
  BY <1>35 DEF ClearActiveTurn
<1>36. CASE UNCHANGED vars
  BY <1>36 DEF vars
<1> QED
  BY ZenonT(60), <1>1, <1>2, <1>3, <1>4, <1>5, <1>6, <1>7, <1>8, <1>9, <1>10, <1>11, <1>12,
     <1>13, <1>14, <1>15, <1>16, <1>17, <1>18, <1>19, <1>20, <1>21, <1>22, <1>23, <1>24,
     <1>25, <1>26, <1>27, <1>28, <1>29, <1>30, <1>31, <1>32, <1>33, <1>34, <1>35, <1>36
  DEF Next, Environment, Abort, StartTask, Continue, RunTask, OnTaskFinished, Aborters

----------------------------------------------------------------------------
(* The inductive invariant *)

\* A step that touches nothing the invariant speaks of.
LEMMA UntouchedStep ==
    ASSUME SafeInv,
           UNCHANGED <<active, tasks, pc, sub, victims, reason, cancelled, aborted>>
    PROVE  SafeInv'
BY DEF SafeInv, NoTurnNoTasks, SubsAreFresh, TasksAreSpawned, TasksHaveOneOwner,
       OneAbortAtATime, AbortedTurnsStop, TurnsStayInterruptible, HoldsSub

\* Most steps only move one actor to another label: no task changes hands and no
\* actor takes on a turn to start.
Quiet(a) ==
    /\ UNCHANGED <<tasks, sub, victims, reason, cancelled, aborted>>
    /\ \A b \in Actors : b # a => pc'[b] = pc[b]
    /\ active' = NoTS => tasks = {}
    /\ HoldsSub(a)' => HoldsSub(a)
    /\ pc[a] \notin {"unborn", "made", "abort_wait", "abort_emit"} \union Stopped
    /\ pc[a] = "abort_next" => victims[a] = {}
    /\ pc'[a] \notin {"unborn", "made", "abort_next", "abort_wait", "abort_emit"}
    /\ pc'[a] \in {"run", "flush"} => pc[a] = "run"

LEMMA QuietStep ==
    ASSUME SafeInv, TypeOK, TypeOK', NEW a \in Actors, Quiet(a)
    PROVE  SafeInv'
<1> USE ActorFacts DEF TypeOK, Aborters, Stopped, Quiet
<1>1. NoTurnNoTasks'
  BY DEF NoTurnNoTasks
<1>2. \A b \in Actors : HoldsSub(b)' => HoldsSub(b)
  BY DEF HoldsSub
<1>3. SubsAreFresh'
  BY <1>2 DEF SafeInv, SubsAreFresh
<1>4. victims[a] = {}
  BY DEF SafeInv, TasksHaveOneOwner
<1>5. TasksAreSpawned' /\ AbortedTurnsStop' /\ TurnsStayInterruptible'
  BY DEF SafeInv, TasksAreSpawned, AbortedTurnsStop, TurnsStayInterruptible
<1>6. TasksHaveOneOwner'
  BY <1>4 DEF SafeInv, TasksHaveOneOwner
<1>7. OneAbortAtATime'
  BY <1>4 DEF SafeInv, OneAbortAtATime
<1> QED
  BY <1>1, <1>3, <1>5, <1>6, <1>7 DEF SafeInv

\* The steps that create a turn hand it to one actor, which will start it.
Creates(a, t) ==
    /\ pc[t] = "unborn" /\ pc[a] \in {"idle", "pend_reserve", "goal_check"}
    /\ UNCHANGED <<tasks, victims, cancelled, aborted>>
    /\ pc'[t] = "made" /\ \A b \in Actors \ {a, t} : pc'[b] = pc[b]
    /\ sub' = [sub EXCEPT ![a] = t]
    /\ \A b \in Actors \ {a} : reason'[b] = reason[b]
    /\ \/ pc'[a] = "start_take"
       \/ pc'[a] = "abort_take" /\ reason'[a] = "Replaced"
    /\ active' = NoTS => tasks = {}

LEMMA CreateStep ==
    ASSUME SafeInv, TypeOK, TypeOK', NEW a \in Actors, NEW t \in Turns, Creates(a, t)
    PROVE  SafeInv'
<1> USE ActorFacts DEF TypeOK, Aborters, Stopped, Creates
<1>1. a # t /\ t \notin Aborters
  OBVIOUS
<1>0. victims[a] = {}
  BY DEF SafeInv, TasksHaveOneOwner
<1>2. \A b \in Actors : b # a /\ HoldsSub(b)' => HoldsSub(b) /\ sub[b] # t /\ b # t
  <2>1. \A b \in Actors : b # a /\ HoldsSub(b)' => HoldsSub(b) /\ b # t
    BY <1>1 DEF HoldsSub, Starting, Aborting
  <2> QED
    BY <2>1 DEF SafeInv, SubsAreFresh
<1>3. SubsAreFresh'
  BY <1>1, <1>2 DEF SafeInv, SubsAreFresh
<1>4. NoTurnNoTasks' /\ TasksAreSpawned' /\ AbortedTurnsStop' /\ TurnsStayInterruptible'
  BY <1>0, <1>1
  DEF SafeInv, NoTurnNoTasks, TasksAreSpawned, AbortedTurnsStop, TurnsStayInterruptible
<1>5. TasksHaveOneOwner'
  BY <1>0, <1>1 DEF SafeInv, TasksHaveOneOwner
<1>6. ASSUME NEW b \in Aborters, NEW v \in victims[b], v \in cancelled
      PROVE  /\ pc'[b] # "abort_next"
             /\ pc'[b] = "abort_emit" => pc'[v] \in Stopped
  <2>1. b # a /\ b # t
    BY <1>0, <1>1, <1>6
  <2>2. pc'[b] = pc[b]
    BY <2>1
  <2>3. pc[b] = "abort_emit" => pc[v] \in {"done", "dead"} /\ v \in Turns
    BY <1>6 DEF SafeInv, OneAbortAtATime
  <2> QED
    BY <1>6, <2>2, <2>3 DEF SafeInv, OneAbortAtATime
<1>7. OneAbortAtATime'
  BY <1>6 DEF SafeInv, OneAbortAtATime
<1> QED
  BY <1>3, <1>4, <1>5, <1>7 DEF SafeInv

\* Every step of the session keeps the invariant.
LEMMA SafeStep == SafeInv /\ TypeOK /\ TypeOK' /\ [Next]_vars => SafeInv'
<1> SUFFICES ASSUME SafeInv, TypeOK, TypeOK', [Next]_vars PROVE SafeInv'
  OBVIOUS
<1> USE ActorFacts, FreshTurnFact, ActorAssumption
    DEF HoldsSub, Starting, Aborting, Stopped, Aborters, SafeInv, TypeOK, Goto,
        turnVars, storeVars, goalVars, taskVars, frameVars
<1>1. ASSUME NEW m \in UserMsgs, UserInput(m) PROVE SafeInv'
  <2>1. CASE NoTask
    <3>1. HasFreshTurn /\ Creates(Loop, FreshTurn)
      BY <1>1, <2>1 DEF Creates, NoTurnNoTasks, UserInput, Fated
    <3> QED
      BY <3>1, CreateStep
  <2>2. CASE ~NoTask
    BY <1>1, <2>2, UntouchedStep DEF UserInput, Fated
  <2> QED
    BY <2>1, <2>2
<1>2. CASE StandaloneTask
  <2>1. HasFreshTurn /\ Creates(Loop, FreshTurn)
    BY <1>2 DEF Creates, NoTurnNoTasks, StandaloneTask
  <2> QED
    BY <2>1, CreateStep
<1>3. ASSUME NEW m \in Mail, InterAgentCommunication(m) PROVE SafeInv'
  <2>1. CASE UNCHANGED pc
    BY <1>3, <2>1, UntouchedStep DEF InterAgentCommunication, Fated, NoTurnNoTasks
  <2>2. CASE pc' = [pc EXCEPT ![Loop] = "pend_check"]
    <3>1. Quiet(Loop)
      BY <1>3, <2>2 DEF Quiet, NoTurnNoTasks, InterAgentCommunication, Fated
    <3> QED
      BY <3>1, QuietStep
  <2> QED
    BY <1>3, <2>1, <2>2 DEF InterAgentCommunication
<1>4. ASSUME NEW n \in Notes, InjectResponseItems(n) PROVE SafeInv'
  <2>1. CASE UNCHANGED pc
    BY <1>4, <2>1, UntouchedStep DEF InjectResponseItems, Fated, NoTurnNoTasks
  <2>2. CASE pc' = [pc EXCEPT ![Loop] = "queue"]
    <3>1. Quiet(Loop)
      BY <1>4, <2>2 DEF Quiet, NoTurnNoTasks, InjectResponseItems, Fated
    <3> QED
      BY <3>1, QuietStep
  <2> QED
    BY <1>4, <2>1, <2>2 DEF InjectResponseItems
<1>5. CASE Interrupt
  <2> USE <1>5 DEF Interrupt
  <2>1. NoTurnNoTasks'
    BY DEF NoTurnNoTasks
  <2>2. SubsAreFresh'
    BY DEF SubsAreFresh
  <2>3. TasksAreSpawned'
    BY DEF TasksAreSpawned
  <2>4. TasksHaveOneOwner'
    BY DEF TasksHaveOneOwner
  <2>5. OneAbortAtATime'
    BY DEF OneAbortAtATime
  <2>6. AbortedTurnsStop'
    BY DEF AbortedTurnsStop
  <2>7. TurnsStayInterruptible'
    BY DEF TurnsStayInterruptible
  <2> QED
    BY <2>1, <2>2, <2>3, <2>4, <2>5, <2>6, <2>7
<1>6. ASSUME NEW t \in Turns, AbortTurnIfActive(t) PROVE SafeInv'
  <2> USE <1>6 DEF AbortTurnIfActive, TakeActiveTurn
  <2>1. NoTurnNoTasks'
    BY DEF NoTurnNoTasks
  <2>2. SubsAreFresh'
    BY DEF SubsAreFresh
  <2>3. TasksAreSpawned'
    BY DEF TasksAreSpawned
  <2>4. TasksHaveOneOwner'
    BY DEF TasksHaveOneOwner
  <2>5. OneAbortAtATime'
    BY DEF OneAbortAtATime, TasksHaveOneOwner
  <2>6. AbortedTurnsStop'
    BY DEF AbortedTurnsStop
  <2>7. TurnsStayInterruptible'
    <3>1. victims[Guardian] = {}
      BY DEF TasksHaveOneOwner
    <3>2. victims' = [victims EXCEPT ![Guardian] = tasks]
      BY DEF NoTurnNoTasks
    <3> QED
      BY <3>1, <3>2 DEF TurnsStayInterruptible
  <2> QED
    BY <2>1, <2>2, <2>3, <2>4, <2>5, <2>6, <2>7
<1>7. CASE ContinueActiveGoalIfIdle
  <2>1. Quiet(Host)
    BY <1>7 DEF Quiet, NoTurnNoTasks, ContinueActiveGoalIfIdle
  <2> QED
    BY <2>1, QuietStep
<1>8. CASE QueueForNextTurn
  <2>1. Quiet(Loop)
    BY <1>8 DEF Quiet, NoTurnNoTasks, QueueForNextTurn
  <2> QED
    BY <2>1, QuietStep
<1>9. CASE AbortAllTasks
  <2> USE <1>9 DEF AbortAllTasks, TakeActiveTurn
  <2>1. NoTurnNoTasks'
    BY DEF NoTurnNoTasks
  <2>2. SubsAreFresh'
    BY DEF SubsAreFresh
  <2>3. TasksAreSpawned'
    BY DEF TasksAreSpawned
  <2>4. TasksHaveOneOwner'
    BY DEF TasksHaveOneOwner
  <2>5. OneAbortAtATime'
    BY DEF OneAbortAtATime, TasksHaveOneOwner
  <2>6. AbortedTurnsStop'
    BY DEF AbortedTurnsStop
  <2>7. TurnsStayInterruptible'
    <3>1. victims[Loop] = {}
      BY DEF TasksHaveOneOwner
    <3>2. victims' = [victims EXCEPT ![Loop] = tasks]
      BY DEF NoTurnNoTasks
    <3> QED
      BY <3>1, <3>2 DEF TurnsStayInterruptible
  <2> QED
    BY <2>1, <2>2, <2>3, <2>4, <2>5, <2>6, <2>7
<1>10. ASSUME NEW a \in Aborters, CancelToken(a) PROVE SafeInv'
  <2> USE <1>10 DEF CancelToken
  <2>1. NoTurnNoTasks'
    BY DEF NoTurnNoTasks
  <2>2. SubsAreFresh'
    BY DEF SubsAreFresh
  <2>3. TasksAreSpawned'
    BY DEF TasksAreSpawned
  <2>4. TasksHaveOneOwner'
    BY DEF TasksHaveOneOwner
  <2>5. OneAbortAtATime'
    BY DEF OneAbortAtATime, TasksHaveOneOwner
  <2>6. AbortedTurnsStop'
    BY DEF AbortedTurnsStop
  <2>7. TurnsStayInterruptible'
    BY DEF TurnsStayInterruptible
  <2> QED
    BY <2>1, <2>2, <2>3, <2>4, <2>5, <2>6, <2>7
<1>11. ASSUME NEW a \in Aborters, StopTask(a) PROVE SafeInv'
  <2> USE <1>11 DEF StopTask, Fated
  <2>v. PICK v \in victims[a] \intersect cancelled :
          pc' = [pc EXCEPT ![a] = "abort_emit", ![v] = IF @ = "done" THEN "done" ELSE "dead"]
    OBVIOUS
  <2>w. v \in Turns /\ v # a /\ pc'[v] \in {"done", "dead"} /\ pc[v] \notin {"unborn", "made"}
    BY <2>v DEF TasksAreSpawned
  <2>1. NoTurnNoTasks'
    BY <2>v, <2>w DEF NoTurnNoTasks
  <2>2. SubsAreFresh'
    BY SMTT(60), <2>v, <2>w DEF SubsAreFresh
  <2>3. TasksAreSpawned'
    BY <2>v, <2>w DEF TasksAreSpawned
  <2>4. TasksHaveOneOwner'
    BY <2>v, <2>w DEF TasksHaveOneOwner
  <2>5. OneAbortAtATime'
    BY <2>v, <2>w DEF OneAbortAtATime
  <2>6. AbortedTurnsStop'
    BY <2>v, <2>w DEF AbortedTurnsStop
  <2>7. TurnsStayInterruptible'
    BY <2>v, <2>w DEF TurnsStayInterruptible
  <2> QED
    BY <2>1, <2>2, <2>3, <2>4, <2>5, <2>6, <2>7
<1>12. ASSUME NEW a \in Aborters, EmitTurnAborted(a) PROVE SafeInv'
  <2> USE <1>12 DEF EmitTurnAborted
  <2>1. NoTurnNoTasks'
    BY DEF NoTurnNoTasks
  <2>2. SubsAreFresh'
    BY DEF SubsAreFresh
  <2>3. TasksAreSpawned'
    BY DEF TasksAreSpawned
  <2>4. TasksHaveOneOwner'
    BY DEF TasksHaveOneOwner
  <2>5. OneAbortAtATime'
    BY DEF OneAbortAtATime
  <2>6. AbortedTurnsStop'
    BY DEF AbortedTurnsStop, OneAbortAtATime
  <2>7. TurnsStayInterruptible'
    BY DEF TurnsStayInterruptible, OneAbortAtATime
  <2> QED
    BY <2>1, <2>2, <2>3, <2>4, <2>5, <2>6, <2>7
<1>13. ASSUME NEW a \in Aborters, PauseGoal(a) PROVE SafeInv'
  <2>1. Quiet(a)
    BY <1>13 DEF Quiet, NoTurnNoTasks, PauseGoal
  <2> QED
    BY <2>1, QuietStep
<1>14. ASSUME NEW a \in Aborters, ClearPending(a) PROVE SafeInv'
  <2>1. Quiet(a)
    BY <1>14 DEF Quiet, NoTurnNoTasks, ClearPending, Fated
  <2> QED
    BY <2>1, QuietStep
<1>15. ASSUME NEW a \in Actors, HasPendingWork(a) PROVE SafeInv'
  <2>1. Quiet(a)
    BY <1>15 DEF Quiet, NoTurnNoTasks, HasPendingWork, AfterPendingWork
  <2> QED
    BY <2>1, QuietStep
<1>16. ASSUME NEW a \in Actors, ReserveTurn(a) PROVE SafeInv'
  <2>1. CASE active = NoTS
    <3>1. tasks = {} /\ UNCHANGED tasks
      BY <1>16, <2>1 DEF ReserveTurn, AfterPendingWork, GetOrInsert, NoTurnNoTasks
    <3>2. HasFreshTurn /\ Creates(a, FreshTurn)
      BY <1>16, <2>1, <3>1 DEF Creates, ReserveTurn
    <3> QED
      BY <3>2, CreateStep
  <2>2. CASE active # NoTS
    <3>1. Quiet(a)
      BY <1>16, <2>2 DEF Quiet, NoTurnNoTasks, ReserveTurn, AfterPendingWork, GetOrInsert
    <3> QED
      BY <3>1, QuietStep
  <2> QED
    BY <2>1, <2>2
<1>17. ASSUME NEW a \in Actors, StartTake(a) PROVE SafeInv'
  <2>1. Quiet(a)
    BY <1>17
         DEF Quiet, NoTurnNoTasks, StartTake, TakePendingInput, PendingInput,
             TurnPending, AcceptsMail
  <2> QED
    BY <2>1, QuietStep
<1>18. ASSUME NEW a \in Actors, StartInsert(a) PROVE SafeInv'
  <2>1. Quiet(a)
    BY <1>18 DEF Quiet, NoTurnNoTasks, StartInsert, GetOrInsert
  <2> QED
    BY <2>1, QuietStep
<1>19. ASSUME NEW a \in Actors, StartPush(a) PROVE SafeInv'
  <2>1. Quiet(a)
    BY <1>19 DEF Quiet, NoTurnNoTasks, StartPush
  <2> QED
    BY <2>1, QuietStep
<1>20. ASSUME NEW a \in Actors, StartAdd(a) PROVE SafeInv'
  <2> USE <1>20 DEF StartAdd, GetOrInsert, AfterPendingWork, Finished
  <2>t. /\ sub[a] \in Turns /\ sub[a] # a /\ pc[sub[a]] = "made"
        /\ sub[a] \notin cancelled /\ sub[a] \notin aborted
        /\ \A b \in Actors : sub[a] \notin victims[b]
    BY DEF SubsAreFresh, TasksAreSpawned
  <2>u. tasks' = tasks \union {sub[a]} /\ UNCHANGED <<victims, cancelled, aborted>>
    BY DEF NoTurnNoTasks
  <2>p. /\ pc'[sub[a]] = "run" /\ pc'[a] \in {"goal_lock", "idle", "done"}
        /\ \A b \in Actors : b # a /\ b # sub[a] => pc'[b] = pc[b]
    BY <2>t
  <2>e. victims[a] = {}
    BY DEF TasksHaveOneOwner
  <2>1. NoTurnNoTasks'
    BY DEF NoTurnNoTasks
  <2>2. SubsAreFresh'
    BY DEF SubsAreFresh
  <2>3. TasksAreSpawned'
    BY DEF TasksAreSpawned
  <2>4. TasksHaveOneOwner'
    BY DEF TasksHaveOneOwner, TasksAreSpawned, SubsAreFresh
  <2>5. OneAbortAtATime'
    BY <1>20, <2>t, <2>u, <2>p, <2>e DEF OneAbortAtATime
  <2>6. AbortedTurnsStop'
    BY <1>20, <2>t, <2>u, <2>p, <2>e DEF AbortedTurnsStop
  <2>7. TurnsStayInterruptible'
    BY <1>20, <2>t, <2>u, <2>p, <2>e DEF TurnsStayInterruptible
  <2> QED
    BY <2>1, <2>2, <2>3, <2>4, <2>5, <2>6, <2>7
<1>21. ASSUME NEW a \in Turns \union {Host}, AcquireContinuation(a) PROVE SafeInv'
  <2>1. Quiet(a)
    BY <1>21 DEF Quiet, NoTurnNoTasks, AcquireContinuation
  <2> QED
    BY <2>1, QuietStep
<1>22. ASSUME NEW a \in Turns \union {Host}, GoalCandidate(a) PROVE SafeInv'
  <2>1. Quiet(a)
    BY <1>22 DEF Quiet, NoTurnNoTasks, GoalCandidate, Finished
  <2> QED
    BY <2>1, QuietStep
<1>23. ASSUME NEW a \in Turns \union {Host}, GoalReserve(a) PROVE SafeInv'
  <2>1. CASE active = NoTS
    <3>1. tasks = {} /\ UNCHANGED tasks
      BY <1>23, <2>1 DEF GoalReserve, Finished, GetOrInsert, NoTurnNoTasks
    <3>2. Quiet(a)
      BY <1>23, <2>1, <3>1 DEF Quiet, GoalReserve, Finished
    <3> QED
      BY <3>2, QuietStep
  <2>2. CASE active # NoTS
    <3>1. Quiet(a)
      BY <1>23, <2>2 DEF Quiet, NoTurnNoTasks, GoalReserve, Finished, GetOrInsert
    <3> QED
      BY <3>1, QuietStep
  <2> QED
    BY <2>1, <2>2
<1>24. ASSUME NEW a \in Turns \union {Host}, GoalReread(a) PROVE SafeInv'
  <2>1. Quiet(a)
    BY <1>24 DEF Quiet, NoTurnNoTasks, GoalReread, Finished, ReleaseReservation
  <2> QED
    BY <2>1, QuietStep
<1>25. ASSUME NEW a \in Turns \union {Host}, GoalCheck(a) PROVE SafeInv'
  <2>1. CASE active = ts[a] /\ tasks = {}
    <3>1. HasFreshTurn /\ Creates(a, FreshTurn)
      BY <1>25, <2>1
           DEF Creates, NoTurnNoTasks, GoalCheck, Finished, ReleaseReservation
    <3> QED
      BY <3>1, CreateStep
  <2>2. CASE ~(active = ts[a] /\ tasks = {})
    <3>1. Quiet(a)
      BY <1>25, <2>2
           DEF Quiet, NoTurnNoTasks, GoalCheck, Finished, ReleaseReservation
    <3> QED
      BY <3>1, QuietStep
  <2> QED
    BY <2>1, <2>2
<1>26. ASSUME NEW t \in Turns, RecordInput(t) PROVE SafeInv'
  BY <1>26, UntouchedStep DEF RecordInput
<1>27. ASSUME NEW t \in Turns, DrainInput(t) PROVE SafeInv'
  BY <1>27, UntouchedStep DEF DrainInput
<1>28. ASSUME NEW t \in Turns, SetMailboxPhase(t) PROVE SafeInv'
  BY <1>28, UntouchedStep DEF SetMailboxPhase
<1>29. ASSUME NEW t \in Turns, RunReturn(t) PROVE SafeInv'
  <2>1. Quiet(t)
    BY <1>29 DEF Quiet, NoTurnNoTasks, RunReturn
  <2> QED
    BY <2>1, QuietStep
<1>30. ASSUME NEW t \in Turns, CompleteGoal(t) PROVE SafeInv'
  BY <1>30, UntouchedStep DEF CompleteGoal
<1>31. ASSUME NEW t \in Turns, CheckCancelled(t) PROVE SafeInv'
  <2>1. Quiet(t)
    BY <1>31 DEF Quiet, NoTurnNoTasks, CheckCancelled
  <2> QED
    BY <2>1, QuietStep
<1>32. ASSUME NEW t \in Turns, RemoveTask(t) PROVE SafeInv'
  <2> USE <1>32 DEF RemoveTask
  <2>1. NoTurnNoTasks'
    BY DEF NoTurnNoTasks
  <2>2. SubsAreFresh'
    BY SMTT(60) DEF SubsAreFresh
  <2>3. TasksAreSpawned'
    BY DEF TasksAreSpawned
  <2>4. TasksHaveOneOwner'
    BY DEF TasksHaveOneOwner
  <2>5. OneAbortAtATime'
    BY DEF OneAbortAtATime
  <2>6. AbortedTurnsStop'
    BY DEF AbortedTurnsStop
  <2>7. TurnsStayInterruptible'
    BY DEF TurnsStayInterruptible
  <2> QED
    BY <2>1, <2>2, <2>3, <2>4, <2>5, <2>6, <2>7
<1>33. ASSUME NEW t \in Turns, RecordLeftover(t) PROVE SafeInv'
  <2>1. Quiet(t)
    BY <1>33 DEF Quiet, NoTurnNoTasks, RecordLeftover
  <2> QED
    BY <2>1, QuietStep
<1>34. ASSUME NEW t \in Turns, EmitTurnComplete(t) PROVE SafeInv'
  <2>1. Quiet(t)
    BY <1>34 DEF Quiet, NoTurnNoTasks, EmitTurnComplete
  <2> QED
    BY <2>1, QuietStep
<1>35. ASSUME NEW t \in Turns, ClearActiveTurn(t) PROVE SafeInv'
  <2>1. Quiet(t)
    BY <1>35 DEF Quiet, NoTurnNoTasks, ClearActiveTurn
  <2> QED
    BY <2>1, QuietStep
<1>36. CASE UNCHANGED vars
  BY <1>36, UntouchedStep DEF vars
<1> QED
  BY <1>1, <1>2, <1>3, <1>4, <1>5, <1>6, <1>7, <1>8, <1>9, <1>10, <1>11, <1>12, <1>13,
     <1>14, <1>15, <1>16, <1>17, <1>18, <1>19, <1>20, <1>21, <1>22, <1>23, <1>24, <1>25,
     <1>26, <1>27, <1>28, <1>29, <1>30, <1>31, <1>32, <1>33, <1>34, <1>35, <1>36
  DEF Next, Environment, Abort, StartTask, Continue, RunTask, OnTaskFinished

----------------------------------------------------------------------------
(* Theorems *)

IndInv == TypeOK /\ SafeInv

\* A new session, idle and without turns, satisfies the inductive invariant.
LEMMA IndInit == Init => IndInv
<1> SUFFICES ASSUME Init PROVE IndInv
  OBVIOUS
<1> USE ActorFacts, ItemAssumption DEF Init
<1>1. TypeOK
  BY DEF TypeOK, Labels, OpKinds, Items
<1>2. SafeInv
  BY DEF SafeInv, NoTurnNoTasks, SubsAreFresh, HoldsSub, Starting, Aborting,
         TasksAreSpawned, TasksHaveOneOwner, Aborters, OneAbortAtATime,
         AbortedTurnsStop, TurnsStayInterruptible
<1> QED
  BY <1>1, <1>2 DEF IndInv

\* Every reachable state of the session satisfies the inductive invariant.
THEOREM Invariance == Spec => []IndInv
<1>1. IndInv /\ [Next]_vars => IndInv'
  BY TypeStep, SafeStep DEF IndInv, SafeInv
<1> QED
  BY IndInit, <1>1, PTL DEF Spec

\* The types hold in every reachable state, in particular start_task always has
\* a turn to start.
THEOREM TypeCorrect == Spec => []TypeOK
BY Invariance, PTL DEF IndInv

\* With any number of turns, aborters and items, a task that still runs its turn
\* can be reached by an interrupt (start_task, on_task_finished, abort_all_tasks).
THEOREM Interruptible == Spec => []TurnsStayInterruptible
<1>1. IndInv => TurnsStayInterruptible
  BY DEF IndInv, SafeInv
<1> QED
  BY Invariance, <1>1, PTL

\* With any number of turns, nothing of a turn runs after handle_task_abort has
\* sent its TurnAborted event.
THEOREM AbortIsFinal == Spec => []AbortedTurnsStop
<1>1. IndInv => AbortedTurnsStop
  BY DEF IndInv, SafeInv
<1> QED
  BY Invariance, <1>1, PTL
=============================================================================
