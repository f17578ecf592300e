SPECIFICATION FairSpec
CONSTANTS
    Turns = {t1, t2, t3}
    TurnStates = {s1, s2, s3, s4}
    UserMsgs = {u1}
    Notes = {}
    Mail = {m1}
    TriggerMail = {m1}
    GoalPrompt = goalPrompt
    Loop = loop
    Host = host
    Guardian = guardian
    NoTS = noTS
    NoActor = noActor
    NoTurn = noTurn
    InitGoals = {"none"}
    HooksMayBlock = FALSE
    MaxOps <- OneGuardian
PROPERTY EveryTurnEnds
PROPERTY TriggerMailWakesSession
CHECK_DEADLOCK FALSE
