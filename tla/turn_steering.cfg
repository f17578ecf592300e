SPECIFICATION Spec
CONSTANTS
    Turns = {t1, t2}
    TurnStates = {s1, s2, s3, s4}
    UserMsgs = {u1, u2, u3}
    Notes = {}
    Mail = {}
    TriggerMail = {}
    GoalPrompt = goalPrompt
    Loop = loop
    Host = host
    Guardian = guardian
    NoTS = noTS
    NoActor = noActor
    NoTurn = noTurn
    InitGoals = {"none"}
    HooksMayBlock = TRUE
    MaxOps <- OneStandaloneOneGuardian
INVARIANT AtMostOneRunningTask
 
CHECK_DEADLOCK FALSE
