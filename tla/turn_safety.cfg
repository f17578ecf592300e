SPECIFICATION Spec
CONSTANTS
    Turns = {t1, t2, t3}
    TurnStates = {s1, s2, s3, s4}
    UserMsgs = {u1}
    Notes = {n1}
    Mail = {m1}
    TriggerMail = {m1}
    GoalPrompt = goalPrompt
    Loop = loop
    Host = host
    Guardian = guardian
    NoTS = noTS
    NoActor = noActor
    NoTurn = noTurn
    InitGoals = {"none", "active"}
    HooksMayBlock = FALSE
    MaxOps <- GoalSetThenInterrupt
INVARIANT TurnsStayInterruptible
 
INVARIANT ItemsDeliveredOnce
INVARIANT TypeOK
INVARIANT PausedGoalNotContinued
CONSTRAINT GoalOrMail
CHECK_DEADLOCK FALSE
