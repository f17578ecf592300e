--------------------------- MODULE TurnLifecycle ---------------------------
(***************************************************************************)
(* The turn lifecycle of a Codex session (codex-rs/core): how turns are    *)
(* started, steered, finished, interrupted and replaced, and how input     *)
(* that arrives between them is kept.                                      *)
(*                                                                         *)
(* The session keeps one `active_turn : Mutex<Option<ActiveTurn>>`.  An    *)
(* ActiveTurn is a map of running tasks and an Arc to a TurnState that     *)
(* holds pending input.  The actors below take that mutex for a few lines  *)
(* at a time and await in between; every action is one such critical       *)
(* section together with the sequential code around it.                    *)
(*                                                                         *)
(*   Loop      the submission loop, one Op at a time                       *)
(*   Host      the app server, calling into the thread directly            *)
(*   Guardian  the task spawned by the guardian's circuit breaker          *)
(*   t \in Turns  the tokio task of turn t, which runs the turn, then      *)
(*             `on_task_finished`, then looks for the next turn to start   *)
(***************************************************************************)
EXTENDS Integers, FiniteSets

CONSTANTS
    Turns,       \* sub ids, each used for one turn
    TurnStates,  \* identities of Arc<Mutex<TurnState>>
    UserMsgs,    \* inputs of Op::UserInput
    Notes,       \* response items injected or queued for the next turn
    Mail,        \* inter-agent communications
    TriggerMail, \* those sent with trigger_turn
    GoalPrompt,  \* the developer message of a goal continuation turn
    Loop, Host, Guardian,
    NoTS, NoActor, NoTurn,
    InitGoals,   \* status of the goal of the thread that is started or resumed
    HooksMayBlock, \* whether a user-prompt-submit hook may refuse an input
    MaxOps       \* how often each operation the environment repeats happens

OpKinds == {"interrupt", "standalone", "guardian", "host", "continuation"}
Tracked == UserMsgs \union Notes \union Mail
Items   == Tracked \union {GoalPrompt}
Callers == {Loop, Host, Guardian}
Actors  == Turns \union Callers

ASSUME ActorAssumption ==
    /\ Turns \intersect Callers = {}
    /\ Loop # Host /\ Loop # Guardian /\ Host # Guardian
    /\ NoActor \notin Actors /\ NoTurn \notin Turns /\ NoTS \notin TurnStates
ASSUME ItemAssumption ==
    /\ TriggerMail \subseteq Mail
    /\ GoalPrompt \notin Tracked
    /\ InitGoals \subseteq {"none", "active", "paused", "complete"}
    /\ HooksMayBlock \in BOOLEAN
    /\ MaxOps \in [OpKinds -> Nat]

VARIABLES
    active,    \* the TurnState of active_turn, NoTS when it is None
    tasks,     \* the keys of active_turn.tasks
    pending,   \* TurnState -> pending_input
    phase,     \* TurnState -> mailbox_delivery_phase
    queued,    \* idle_pending_input
    mailbox,   \* mail sent and not yet drained
    goal,      \* status of the thread goal in the state db
    contLock,  \* holder of goal_runtime.continuation_lock
    kind,      \* turn -> task kind
    input,     \* turn -> the `input` argument of its start_task
    cancelled, \* turns whose cancellation token is cancelled
    completed, \* turns with a TurnComplete event
    aborted,   \* turns with a TurnAborted event
    pc,        \* where each actor is
    sub,       \* actor -> the turn it is starting
    ts,        \* actor -> the Arc<TurnState> it holds
    bag,       \* actor -> input items it has in hand
    victims,   \* actor -> tasks it drained and has not finished aborting
    reason,    \* actor -> reason of the abort it runs
    ops,       \* how often each repeatable operation has happened
    fate       \* item -> what became of it (history variable)

turnVars  == <<active, tasks, pending, phase>>
storeVars == <<queued, mailbox, fate>>
goalVars  == <<goal, contLock>>
taskVars  == <<kind, input, cancelled, completed, aborted>>
frameVars == <<sub, ts, bag, victims, reason>>
vars == <<turnVars, storeVars, goalVars, taskVars, frameVars, pc, ops>>

----------------------------------------------------------------------------
(* Helpers *)

\* What became of a set of items.
Fated(S, f) == [i \in Tracked |-> IF i \in S THEN f ELSE fate[i]]

HasFreshTurn == \E t \in Turns : pc[t] = "unborn"
FreshTurn    == CHOOSE t \in Turns : pc[t] = "unborn"

\* An ActiveTurn nobody refers to yet: ActiveTurn::default().
HasFreshTS == \E s \in TurnStates : s # active /\ \A a \in Actors : ts[a] # s
FreshTS    == CHOOSE s \in TurnStates : s # active /\ \A a \in Actors : ts[a] # s

NoTask == active = NoTS \/ tasks = {}
TriggerPending == mailbox \intersect TriggerMail # {}

\* active_turn.get_or_insert_with(ActiveTurn::default): s is the TurnState the
\* caller finds there, newly created or not.
GetOrInsert(s, newTasks) ==
    /\ active' = s
    /\ tasks'  = newTasks
    /\ \/ /\ active # NoTS /\ s = active
          /\ UNCHANGED <<pending, phase>>
       \/ /\ active = NoTS /\ HasFreshTS /\ s = FreshTS
          /\ pending' = [pending EXCEPT ![s] = {}]
          /\ phase'   = [phase EXCEPT ![s] = "CurrentTurn"]

TurnPending == IF active = NoTS THEN {} ELSE pending[active]
AcceptsMail == active = NoTS \/ phase[active] = "CurrentTurn"

HasPendingInput == TurnPending # {} \/ (AcceptsMail /\ mailbox # {})

\* get_pending_input takes from whatever turn is active, then drains the mail.
PendingInput == TurnPending \union (IF AcceptsMail THEN mailbox ELSE {})
\* Mutant: the pending input is copied, not taken.
TakePendingInputCopies ==
    /\ UNCHANGED pending
    /\ mailbox' = IF AcceptsMail THEN {} ELSE mailbox

TakePendingInput ==
    /\ pending' = IF active = NoTS THEN pending
                                   ELSE [pending EXCEPT ![active] = {}]
    /\ mailbox' = IF AcceptsMail THEN {} ELSE mailbox

\* After maybe_start_turn_for_pending_work: maybe_continue_goal_if_idle_runtime
\* goes on to the goal, the submission loop and the guardian are done.
AfterPendingWork(a) == IF a \in Turns \union {Host} THEN "goal_lock" ELSE "idle"
Finished(a) == IF a \in Turns THEN "done" ELSE "idle"

Goto(a, label) == pc' = [pc EXCEPT ![a] = label]

----------------------------------------------------------------------------
(* Operations of the submission loop *)

\* user_input_or_turn_inner: steer the active task, else spawn a new one.
\* tasks.first() is the oldest entry of an IndexMap; the model lets any task
\* of the active turn be first, which only matters when there are two.
UserInput(m) ==
    /\ pc[Loop] = "idle" /\ fate[m] = "unsent"
    /\ \/ /\ ~NoTask
          /\ \E first \in tasks :
                \/ /\ kind[first] = "Regular"
                   /\ pending' = [pending EXCEPT ![active] = @ \union {m}]
                   /\ phase' = [phase EXCEPT ![active] = "CurrentTurn"]
                   /\ fate' = Fated({m}, "held")
                \/ /\ kind[first] = "Standalone"
                   /\ fate' = Fated({m}, "refused")
                   /\ UNCHANGED <<pending, phase>>
          /\ UNCHANGED <<kind, input, sub, reason, pc>>
       \/ /\ NoTask /\ HasFreshTurn
          /\ kind'   = [kind EXCEPT ![FreshTurn] = "Regular"]
          /\ input'  = [input EXCEPT ![FreshTurn] = {m}]
          /\ sub'    = [sub EXCEPT ![Loop] = FreshTurn]
          /\ reason' = [reason EXCEPT ![Loop] = "Replaced"]
          /\ pc'     = [pc EXCEPT ![Loop] = "abort_take", ![FreshTurn] = "made"]
          /\ fate'   = Fated({m}, "held")
          /\ UNCHANGED <<pending, phase>>
    /\ UNCHANGED <<active, tasks, queued, mailbox, goalVars, cancelled, completed,
                   aborted, ts, bag, victims, ops>>

\* compact, review and an idle user shell command: spawn_task without steering.
StandaloneTask ==
    /\ pc[Loop] = "idle" /\ HasFreshTurn
    /\ ops["standalone"] < MaxOps["standalone"]
    /\ ops'    = [ops EXCEPT !["standalone"] = @ + 1]
    /\ kind'   = [kind EXCEPT ![FreshTurn] = "Standalone"]
    /\ sub'    = [sub EXCEPT ![Loop] = FreshTurn]
    /\ reason' = [reason EXCEPT ![Loop] = "Replaced"]
    /\ pc'     = [pc EXCEPT ![Loop] = "abort_take", ![FreshTurn] = "made"]
    /\ UNCHANGED <<turnVars, storeVars, goalVars, input, cancelled, completed,
                   aborted, ts, bag, victims>>

\* inter_agent_communication: mail marked trigger_turn may wake the session.
InterAgentCommunication(m) ==
    /\ pc[Loop] = "idle" /\ fate[m] = "unsent"
    /\ fate'    = Fated({m}, "held")
    /\ mailbox' = mailbox \union {m}
    /\ IF m \in TriggerMail THEN Goto(Loop, "pend_check") ELSE UNCHANGED pc
    /\ UNCHANGED <<turnVars, queued, goalVars, taskVars, frameVars, ops>>

\* approve_guardian_denied_action: inject_response_items into the active turn;
\* when there is none the items come back ...
InjectResponseItems(n) ==
    /\ pc[Loop] = "idle" /\ fate[n] = "unsent"
    /\ fate' = Fated({n}, "held")
    /\ \/ /\ active # NoTS
          /\ pending' = [pending EXCEPT ![active] = @ \union {n}]
          /\ UNCHANGED <<pc, bag>>
       \/ /\ active = NoTS
          /\ bag' = [bag EXCEPT ![Loop] = {n}]
          /\ Goto(Loop, "queue")
          /\ UNCHANGED pending
    /\ UNCHANGED <<active, tasks, phase, queued, mailbox, goalVars, taskVars,
                   sub, ts, victims, reason, ops>>

\* ... and queue_response_items_for_next_turn keeps them for the next turn.
QueueForNextTurn ==
    /\ pc[Loop] = "queue"
    /\ queued' = queued \union bag[Loop]
    /\ bag' = [bag EXCEPT ![Loop] = {}]
    /\ Goto(Loop, "idle")
    /\ UNCHANGED <<turnVars, mailbox, fate, goalVars, taskVars, sub, ts, victims,
                   reason, ops>>

\* Op::Interrupt, and an approval answered with Abort.
Interrupt ==
    /\ pc[Loop] = "idle"
    /\ ops["interrupt"] < MaxOps["interrupt"]
    /\ ops'    = [ops EXCEPT !["interrupt"] = @ + 1]
    /\ reason' = [reason EXCEPT ![Loop] = "Interrupted"]
    /\ Goto(Loop, "abort_take")
    /\ UNCHANGED <<turnVars, storeVars, goalVars, taskVars, sub, ts, bag, victims>>

----------------------------------------------------------------------------
(* abort_all_tasks and abort_turn_if_active *)

\* take_active_turn and drain_tasks.  A turn taken without tasks is dropped.
TakeActiveTurn(a) ==
    /\ victims' = [victims EXCEPT ![a] = IF active = NoTS THEN {} ELSE tasks]
    /\ ts' = [ts EXCEPT ![a] = IF NoTask THEN NoTS ELSE active]
    /\ active' = NoTS /\ tasks' = {}
    /\ UNCHANGED <<pending, phase>>

\* Mutant: spawn_task does not abort the tasks it replaces.
AbortAllTasksSkipped ==
    /\ pc[Loop] = "abort_take"
    /\ Goto(Loop, "abort_next")
    /\ UNCHANGED <<turnVars, storeVars, goalVars, taskVars, frameVars, ops>>

AbortAllTasks ==
    /\ pc[Loop] = "abort_take"
    /\ TakeActiveTurn(Loop)
    /\ Goto(Loop, "abort_next")
    /\ UNCHANGED <<storeVars, goalVars, taskVars, sub, bag, reason, ops>>

\* The guardian's circuit breaker interrupts a turn it saw running.
AbortTurnIfActive(t) ==
    /\ pc[Guardian] = "idle" /\ ops["guardian"] < MaxOps["guardian"]
    /\ active # NoTS /\ t \in tasks
    /\ ops'    = [ops EXCEPT !["guardian"] = @ + 1]
    /\ reason' = [reason EXCEPT ![Guardian] = "Interrupted"]
    /\ TakeActiveTurn(Guardian)
    /\ Goto(Guardian, "abort_next")
    /\ UNCHANGED <<storeVars, goalVars, taskVars, sub, bag>>

\* handle_task_abort, one drained task after the other: cancel its token.
CancelToken(a) ==
    /\ pc[a] = "abort_next"
    /\ \E v \in victims[a] :
          cancelled' = cancelled \union {v}
    /\ Goto(a, "abort_wait")
    /\ UNCHANGED <<turnVars, storeVars, goalVars, kind, input, completed, aborted,
                   frameVars, ops>>

\* Mutant: handle.abort() is forgotten when the wait times out.
StopTaskOnlyWaits(a) ==
    /\ pc[a] = "abort_wait"
    /\ Goto(a, "abort_emit")
    /\ UNCHANGED <<turnVars, storeVars, goalVars, taskVars, frameVars, ops>>

\* Wait for `done`, at most 100 ms; then handle.abort() stops the task at its
\* next await, and what it has in hand is dropped with it.
StopTask(a) ==
    /\ pc[a] = "abort_wait"
    /\ \E v \in victims[a] \intersect cancelled :
          /\ pc'   = [pc EXCEPT ![a] = "abort_emit",
                                ![v] = IF @ = "done" THEN "done" ELSE "dead"]
          /\ fate' = Fated(bag[v], "aborted")
          /\ bag'  = [bag EXCEPT ![v] = {}]
    /\ UNCHANGED <<turnVars, queued, mailbox, goalVars, taskVars, sub, ts, victims,
                   reason, ops>>

\* Mutant: no TurnAborted for a task that stopped by itself within the 100 ms.
EmitTurnAbortedIfKilled(a) ==
    /\ pc[a] = "abort_emit"
    /\ \E v \in victims[a] \intersect cancelled :
          /\ aborted' = IF pc[v] = "dead" THEN aborted \union {v} ELSE aborted
          /\ victims' = [victims EXCEPT ![a] = @ \ {v}]
    /\ Goto(a, "abort_next")
    /\ UNCHANGED <<turnVars, storeVars, goalVars, kind, input, cancelled, completed,
                   sub, ts, bag, reason, ops>>

\* The interrupted-turn marker is flushed and TurnAborted is sent.
EmitTurnAborted(a) ==
    /\ pc[a] = "abort_emit"
    /\ \E v \in victims[a] \intersect cancelled :
          /\ aborted' = aborted \union {v}
          /\ victims' = [victims EXCEPT ![a] = @ \ {v}]
    /\ Goto(a, "abort_next")
    /\ UNCHANGED <<turnVars, storeVars, goalVars, kind, input, cancelled, completed,
                   sub, ts, bag, reason, ops>>

\* Mutant: the goal is paused without the continuation lock.
PauseGoalUnlocked(a) ==
    /\ pc[a] = "abort_next" /\ victims[a] = {}
    /\ goal' = IF reason[a] = "Interrupted" /\ goal = "active" THEN "paused" ELSE goal
    /\ Goto(a, "abort_clear")
    /\ UNCHANGED <<turnVars, storeVars, contLock, taskVars, frameVars, ops>>

\* All drained tasks are aborted.  GoalRuntimeEvent::TaskAborted: an interrupt
\* pauses an active goal, under the continuation lock.  ts is NoTS when no task
\* was aborted.
PauseGoal(a) ==
    /\ pc[a] = "abort_next" /\ victims[a] = {}
    /\ \/ /\ reason[a] = "Interrupted" /\ contLock = NoActor
          /\ goal' = IF goal = "active" THEN "paused" ELSE goal
       \/ /\ reason[a] = "Replaced"
          /\ UNCHANGED goal
    /\ Goto(a, "abort_clear")
    /\ UNCHANGED <<turnVars, storeVars, contLock, taskVars, frameVars, ops>>

\* clear_pending on the turn that was aborted, then what follows the abort:
\* start_task of spawn_task, or the pending work an interrupt left behind.
ClearPending(a) ==
    /\ pc[a] = "abort_clear"
    /\ LET had == ts[a] # NoTS IN
          /\ pending' = IF had THEN [pending EXCEPT ![ts[a]] = {}] ELSE pending
          /\ fate' = IF had THEN Fated(pending[ts[a]], "aborted") ELSE fate
          /\ Goto(a, CASE reason[a] = "Replaced" -> "start_take"
                       [] reason[a] = "Interrupted" /\ had -> "pend_check"
                       [] OTHER -> "idle")
    /\ ts' = [ts EXCEPT ![a] = NoTS]
    /\ UNCHANGED <<active, tasks, phase, queued, mailbox, goalVars, taskVars, sub,
                   bag, victims, reason, ops>>

----------------------------------------------------------------------------
(* maybe_start_turn_for_pending_work *)

HasPendingWork(a) ==
    /\ pc[a] = "pend_check"
    /\ Goto(a, IF queued = {} /\ ~TriggerPending THEN AfterPendingWork(a)
                                                 ELSE "pend_reserve")
    /\ UNCHANGED <<turnVars, storeVars, goalVars, taskVars, frameVars, ops>>

\* The idle session is reserved with an ActiveTurn that has no task yet.
ReserveTurn(a) ==
    /\ pc[a] = "pend_reserve"
    /\ \/ /\ active # NoTS
          /\ Goto(a, AfterPendingWork(a))
          /\ UNCHANGED <<turnVars, kind, sub>>
       \/ /\ active = NoTS /\ HasFreshTurn
          /\ \E s \in TurnStates : GetOrInsert(s, {})
          /\ kind' = [kind EXCEPT ![FreshTurn] = "Regular"]
          /\ sub'  = [sub EXCEPT ![a] = FreshTurn]
          /\ pc'   = [pc EXCEPT ![a] = "start_take", ![FreshTurn] = "made"]
    /\ UNCHANGED <<storeVars, goalVars, input, cancelled, completed, aborted, ts,
                   bag, victims, reason, ops>>

----------------------------------------------------------------------------
(* start_task *)

\* take_queued_response_items_for_next_turn and get_pending_input.
StartTake(a) ==
    /\ pc[a] = "start_take"
    /\ bag' = [bag EXCEPT ![a] = queued \union PendingInput]
    /\ queued' = {}
    /\ TakePendingInput
    /\ Goto(a, "start_insert")
    /\ UNCHANGED <<active, tasks, phase, fate, goalVars, taskVars, sub, ts, victims,
                   reason, ops>>

\* The first lock: find or create the active turn and keep its turn_state.
StartInsert(a) ==
    /\ pc[a] = "start_insert"
    /\ \E s \in TurnStates :
          /\ GetOrInsert(s, IF active = NoTS THEN {} ELSE tasks)
          /\ ts' = [ts EXCEPT ![a] = s]
    /\ Goto(a, "start_push")
    /\ UNCHANGED <<storeVars, goalVars, taskVars, sub, bag, victims, reason, ops>>

\* push_pending_input of everything taken, on the turn_state that was kept.
StartPush(a) ==
    /\ pc[a] = "start_push"
    /\ pending' = [pending EXCEPT ![ts[a]] = @ \union bag[a]]
    /\ bag' = [bag EXCEPT ![a] = {}]
    /\ ts'  = [ts EXCEPT ![a] = NoTS]
    /\ Goto(a, "start_add")
    /\ UNCHANGED <<active, tasks, phase, storeVars, goalVars, taskVars, sub, victims,
                   reason, ops>>

\* The second lock: spawn the tokio task and add_task to the active turn.  A
\* goal continuation gives the continuation lock back when it returns.
StartAdd(a) ==
    /\ pc[a] = "start_add"
    /\ LET t == sub[a] IN
          /\ \E s \in TurnStates :
                GetOrInsert(s, (IF active = NoTS THEN {} ELSE tasks) \union {t})
          /\ bag' = [bag EXCEPT ![t] = input[t]]
          /\ pc'  = [pc EXCEPT ![t] = "run",
                               ![a] = IF contLock = a THEN Finished(a)
                                      ELSE AfterPendingWork(a)]
    /\ sub' = [sub EXCEPT ![a] = NoTurn]
    /\ contLock' = IF contLock = a THEN NoActor ELSE contLock
    /\ UNCHANGED <<storeVars, goal, taskVars, ts, victims, reason, ops>>

----------------------------------------------------------------------------
(* The body of a task *)

\* run_turn records the input it has in hand; inspect_pending_input may block
\* one user message, and what follows it is put back with prepend_pending_input.
RecordInput(t) ==
    /\ pc[t] = "run" /\ bag[t] # {}
    /\ \/ /\ fate' = Fated(bag[t], "recorded")
          /\ UNCHANGED pending
       \/ /\ HooksMayBlock
          /\ \E b \in bag[t] \intersect UserMsgs :
             \E acc \in SUBSET (bag[t] \ {b}) :
                LET rest == bag[t] \ (acc \union {b}) IN
                /\ fate' = [i \in Tracked |->
                              CASE i = b -> "refused"
                                [] i \in acc -> "recorded"
                                [] i \in rest /\ active = NoTS -> "aborted"
                                [] OTHER -> fate[i]]
                /\ pending' = IF active = NoTS THEN pending
                              ELSE [pending EXCEPT ![active] = @ \union rest]
    /\ bag' = [bag EXCEPT ![t] = {}]
    /\ UNCHANGED <<active, tasks, phase, queued, mailbox, goalVars, taskVars, pc, sub,
                   ts, victims, reason, ops>>

\* get_pending_input between two sampling requests of a regular turn.
DrainInput(t) ==
    /\ pc[t] = "run" /\ bag[t] = {} /\ kind[t] = "Regular"
    /\ PendingInput # {}
    /\ bag' = [bag EXCEPT ![t] = PendingInput]
    /\ TakePendingInput
    /\ UNCHANGED <<active, tasks, phase, queued, fate, goalVars, taskVars, pc, sub, ts,
                   victims, reason, ops>>

\* defer_mailbox_delivery_to_next_turn on a final message, and
\* accept_mailbox_delivery_for_current_turn on a tool call.
SetMailboxPhase(t) ==
    /\ pc[t] = "run" /\ bag[t] = {} /\ kind[t] = "Regular"
    /\ active # NoTS /\ t \in tasks
    /\ \E p \in {"CurrentTurn", "NextTurn"} :
          /\ p = "NextTurn" => pending[active] = {}
          /\ phase[active] # p
          /\ phase' = [phase EXCEPT ![active] = p]
    /\ UNCHANGED <<active, tasks, pending, storeVars, goalVars, taskVars, frameVars, pc,
                   ops>>

\* RegularTask::run returns once nothing is pending, a cancelled or a standalone
\* task whenever it stops; then the rollout is flushed.
RunReturn(t) ==
    /\ pc[t] = "run" /\ bag[t] = {}
    /\ kind[t] = "Regular" /\ t \notin cancelled => ~HasPendingInput
    /\ Goto(t, "flush")
    /\ UNCHANGED <<turnVars, storeVars, goalVars, taskVars, frameVars, ops>>

\* Only a task that has not been cancelled by now calls on_task_finished.
CheckCancelled(t) ==
    /\ pc[t] = "flush"
    /\ Goto(t, IF t \in cancelled THEN "done" ELSE "remove")
    /\ UNCHANGED <<turnVars, storeVars, goalVars, taskVars, frameVars, ops>>

----------------------------------------------------------------------------
(* on_task_finished *)

\* remove_task, which also detaches the task from its handle; the task that
\* empties the turn goes on to clear it.
RemoveTask(t) ==
    /\ pc[t] = "remove"
    /\ tasks' = tasks \ {t}
    /\ IF ~NoTask /\ tasks = {t}
       THEN ts' = [ts EXCEPT ![t] = active] /\ Goto(t, "leftover")
       ELSE UNCHANGED ts /\ Goto(t, "emit")
    /\ UNCHANGED <<active, pending, phase, storeVars, goalVars, taskVars, sub, bag,
                   victims, reason, ops>>

\* Mutant: input that arrived too late for the turn is dropped.
RecordLeftoverDrops(t) ==
    /\ pc[t] = "leftover"
    /\ pending' = [pending EXCEPT ![ts[t]] = {}]
    /\ Goto(t, "emit")
    /\ UNCHANGED <<active, tasks, phase, storeVars, goalVars, taskVars, frameVars, ops>>

\* take_pending_input of the turn that ended: what no request will read any
\* more is recorded, or blocked by a hook.
RecordLeftover(t) ==
    /\ pc[t] = "leftover"
    /\ \E blocked \in SUBSET (pending[ts[t]] \intersect UserMsgs) :
          /\ HooksMayBlock \/ blocked = {}
          /\ fate' = [i \in Tracked |->
                        CASE i \in blocked -> "refused"
                          [] i \in pending[ts[t]] \ blocked -> "recorded"
                          [] OTHER -> fate[i]]
    /\ pending' = [pending EXCEPT ![ts[t]] = {}]
    /\ Goto(t, "emit")
    /\ UNCHANGED <<active, tasks, phase, queued, mailbox, goalVars, taskVars, frameVars,
                   ops>>

\* The goal's TurnFinished accounting, and the TurnComplete event.
EmitTurnComplete(t) ==
    /\ pc[t] = "emit"
    /\ completed' = completed \union {t}
    /\ Goto(t, IF ts[t] # NoTS THEN "clear" ELSE "done")
    /\ UNCHANGED <<turnVars, storeVars, goalVars, kind, input, cancelled, aborted,
                   frameVars, ops>>

\* Mutant: whatever turn is active is cleared.
ClearActiveTurnAlways(t) ==
    /\ pc[t] = "clear"
    /\ active' = NoTS /\ tasks' = {}
    /\ Goto(t, "pend_check")
    /\ ts' = [ts EXCEPT ![t] = NoTS]
    /\ UNCHANGED <<pending, phase, storeVars, goalVars, taskVars, sub, bag, victims,
                   reason, ops>>

\* Mutant: MaybeContinueIfIdle is not applied after the turn is cleared.
ClearActiveTurnQuietly(t) ==
    /\ pc[t] = "clear"
    /\ active' = IF active = ts[t] /\ tasks = {} THEN NoTS ELSE active
    /\ Goto(t, "done")
    /\ ts' = [ts EXCEPT ![t] = NoTS]
    /\ UNCHANGED <<tasks, pending, phase, storeVars, goalVars, taskVars, sub, bag,
                   victims, reason, ops>>

\* The active turn is cleared only if it is still this one and has no task.
ClearActiveTurn(t) ==
    /\ pc[t] = "clear"
    /\ IF active = ts[t] /\ tasks = {}
       THEN active' = NoTS /\ Goto(t, "pend_check")
       ELSE UNCHANGED active /\ Goto(t, "done")
    /\ ts' = [ts EXCEPT ![t] = NoTS]
    /\ UNCHANGED <<tasks, pending, phase, storeVars, goalVars, taskVars, sub, bag,
                   victims, reason, ops>>

----------------------------------------------------------------------------
(* Goal continuation *)

\* GoalRuntimeEvent::MaybeContinueIfIdle from the app server (resume, or a goal
\* set to active from outside).
ContinueActiveGoalIfIdle ==
    /\ pc[Host] = "idle" /\ ops["host"] < MaxOps["host"]
    /\ ops'  = [ops EXCEPT !["host"] = @ + 1]
    /\ goal' \in {goal, "active"}
    /\ Goto(Host, "pend_check")
    /\ UNCHANGED <<turnVars, storeVars, contLock, taskVars, frameVars>>

AcquireContinuation(a) ==
    /\ pc[a] = "goal_lock" /\ contLock = NoActor
    /\ contLock' = a
    /\ Goto(a, "goal_candidate")
    /\ UNCHANGED <<turnVars, storeVars, goal, taskVars, frameVars, ops>>

\* goal_continuation_candidate_if_active.  The goal's budget is the number of
\* continuation turns it may have.  A state db that cannot be read gives no
\* candidate either.
GoalCandidate(a) ==
    /\ pc[a] = "goal_candidate"
    /\ \/ /\ active = NoTS /\ queued = {} /\ ~TriggerPending
          /\ goal = "active" /\ ops["continuation"] < MaxOps["continuation"]
          /\ Goto(a, "goal_reserve")
          /\ UNCHANGED contLock
       \/ /\ Goto(a, Finished(a))
          /\ contLock' = NoActor
    /\ UNCHANGED <<turnVars, storeVars, goal, taskVars, frameVars, ops>>

GoalReserve(a) ==
    /\ pc[a] = "goal_reserve"
    /\ \/ /\ active # NoTS
          /\ contLock' = NoActor
          /\ Goto(a, Finished(a))
          /\ UNCHANGED <<turnVars, ts>>
       \/ /\ active = NoTS
          /\ \E s \in TurnStates :
                GetOrInsert(s, {}) /\ ts' = [ts EXCEPT ![a] = s]
          /\ Goto(a, "goal_reread")
          /\ UNCHANGED contLock
    /\ UNCHANGED <<storeVars, goal, taskVars, sub, bag, victims, reason, ops>>

\* clear_reserved_goal_continuation_turn, and out.
ReleaseReservation(a) ==
    /\ active' = IF active = ts[a] /\ tasks = {} THEN NoTS ELSE active
    /\ ts' = [ts EXCEPT ![a] = NoTS]
    /\ contLock' = NoActor
    /\ Goto(a, Finished(a))

\* Mutant: the continuation prompt is sent as mail.
GoalRereadAsMail(a) ==
    /\ pc[a] = "goal_reread" /\ goal = "active"
    /\ mailbox' = mailbox \union {GoalPrompt}
    /\ Goto(a, "goal_check")
    /\ UNCHANGED <<turnVars, queued, fate, goalVars, taskVars, frameVars, ops>>

\* The goal is read again, and the continuation prompt goes to the reserved turn
\* unless the goal changed or the read failed.
GoalReread(a) ==
    /\ pc[a] = "goal_reread"
    /\ \/ /\ goal = "active"
          /\ pending' = [pending EXCEPT ![ts[a]] = @ \union {GoalPrompt}]
          /\ Goto(a, "goal_check")
          /\ UNCHANGED <<active, contLock, ts>>
       \/ /\ ReleaseReservation(a)
          /\ UNCHANGED pending
    /\ UNCHANGED <<tasks, phase, storeVars, goal, taskVars, sub, bag, victims, reason,
                   ops>>

\* still_reserved, checked once more before start_task.
GoalCheck(a) ==
    /\ pc[a] = "goal_check"
    /\ \/ /\ active = ts[a] /\ tasks = {} /\ HasFreshTurn
          /\ ops'  = [ops EXCEPT !["continuation"] = @ + 1]
          /\ kind' = [kind EXCEPT ![FreshTurn] = "Regular"]
          /\ sub'  = [sub EXCEPT ![a] = FreshTurn]
          /\ ts'   = [ts EXCEPT ![a] = NoTS]
          /\ pc'   = [pc EXCEPT ![a] = "start_take", ![FreshTurn] = "made"]
          /\ UNCHANGED <<active, contLock>>
       \/ /\ ~(active = ts[a] /\ tasks = {})
          /\ ReleaseReservation(a)
          /\ UNCHANGED <<ops, kind, sub>>
    /\ UNCHANGED <<tasks, pending, phase, storeVars, goal, input, cancelled, completed,
                   aborted, bag, victims, reason>>

\* The update_goal tool, called by a running turn.
CompleteGoal(t) ==
    /\ pc[t] = "run" /\ goal = "active"
    /\ goal' = "complete"
    /\ UNCHANGED <<turnVars, storeVars, contLock, taskVars, frameVars, pc, ops>>

----------------------------------------------------------------------------
Init ==
    /\ active = NoTS /\ tasks = {}
    /\ pending = [s \in TurnStates |-> {}]
    /\ phase = [s \in TurnStates |-> "CurrentTurn"]
    /\ queued = {} /\ mailbox = {}
    /\ goal \in InitGoals /\ contLock = NoActor
    /\ kind = [t \in Turns |-> "Regular"]
    /\ input = [t \in Turns |-> {}]
    /\ cancelled = {} /\ completed = {} /\ aborted = {}
    /\ pc = [a \in Actors |-> IF a \in Turns THEN "unborn" ELSE "idle"]
    /\ sub = [a \in Actors |-> NoTurn]
    /\ ts = [a \in Actors |-> NoTS]
    /\ bag = [a \in Actors |-> {}]
    /\ victims = [a \in Actors |-> {}]
    /\ reason = [a \in Actors |-> "Replaced"]
    /\ ops = [k \in OpKinds |-> 0]
    /\ fate = [i \in Tracked |-> "unsent"]

Environment ==
    \/ \E m \in UserMsgs : UserInput(m)
    \/ StandaloneTask
    \/ \E m \in Mail : InterAgentCommunication(m)
    \/ \E n \in Notes : InjectResponseItems(n)
    \/ Interrupt
    \/ \E t \in Turns : AbortTurnIfActive(t)
    \/ ContinueActiveGoalIfIdle

Abort(a) ==
    \/ CancelToken(a) \/ StopTask(a) \/ EmitTurnAborted(a)
    \/ PauseGoal(a) \/ ClearPending(a)

StartTask(a) ==
    \/ HasPendingWork(a) \/ ReserveTurn(a)
    \/ StartTake(a) \/ StartInsert(a) \/ StartPush(a) \/ StartAdd(a)

Continue(a) ==
    \/ AcquireContinuation(a) \/ GoalCandidate(a) \/ GoalReserve(a)
    \/ GoalReread(a) \/ GoalCheck(a)

OnTaskFinished(t) ==
    \/ CheckCancelled(t) \/ RemoveTask(t) \/ RecordLeftover(t)
    \/ EmitTurnComplete(t) \/ ClearActiveTurn(t)

RunTask(t) ==
    \/ RecordInput(t) \/ DrainInput(t) \/ SetMailboxPhase(t) \/ RunReturn(t)
    \/ CompleteGoal(t)

Next ==
    \/ Environment
    \/ QueueForNextTurn
    \/ AbortAllTasks
    \/ \E a \in {Loop, Guardian} : Abort(a)
    \/ \E a \in Actors : StartTask(a)
    \/ \E a \in Turns \union {Host} : Continue(a)
    \/ \E t \in Turns : RunTask(t) \/ OnTaskFinished(t)

Spec == Init /\ [][Next]_vars

(***************************************************************************)
(* Every actor is a future the tokio runtime polls until it finishes, and  *)
(* every mutex it waits for is fair, so a step that stays possible is      *)
(* taken.  That a turn returns at all is an assumption on the model: it    *)
(* cannot ask for follow-ups forever.                                      *)
(***************************************************************************)
Fairness ==
    /\ WF_vars(QueueForNextTurn)
    /\ WF_vars(AbortAllTasks)
    /\ \A a \in {Loop, Guardian} : WF_vars(Abort(a))
    /\ \A a \in Actors : WF_vars(StartTask(a))
    /\ \A a \in Turns \union {Host} : WF_vars(Continue(a))
    /\ \A t \in Turns : /\ WF_vars(RecordInput(t))
                        /\ WF_vars(OnTaskFinished(t))
                        /\ SF_vars(DrainInput(t))
                        /\ SF_vars(RunReturn(t))

FairSpec == Spec /\ Fairness

----------------------------------------------------------------------------
(* Properties *)

Labels ==
    {"unborn", "made", "run", "flush", "remove", "leftover", "emit", "clear",
     "pend_check", "pend_reserve", "start_take", "start_insert", "start_push",
     "start_add", "goal_lock", "goal_candidate", "goal_reserve", "goal_reread",
     "goal_check", "abort_take", "abort_next", "abort_wait", "abort_emit",
     "abort_clear", "queue", "idle", "done", "dead"}

\* Type invariant of the session's turn state and of the actors' locals.
TypeOK ==
    /\ active \in TurnStates \union {NoTS}
    /\ tasks \subseteq Turns
    /\ pending \in [TurnStates -> SUBSET Items]
    /\ phase \in [TurnStates -> {"CurrentTurn", "NextTurn"}]
    /\ queued \subseteq Items /\ mailbox \subseteq Mail
    /\ goal \in {"none", "active", "paused", "complete"}
    /\ contLock \in Actors \union {NoActor}
    /\ kind \in [Turns -> {"Regular", "Standalone"}]
    /\ input \in [Turns -> SUBSET UserMsgs]
    /\ cancelled \subseteq Turns /\ completed \subseteq Turns /\ aborted \subseteq Turns
    /\ pc \in [Actors -> Labels]
    /\ sub \in [Actors -> Turns \union {NoTurn}]
    /\ ts \in [Actors -> TurnStates \union {NoTS}]
    /\ bag \in [Actors -> SUBSET Items]
    /\ victims \in [Actors -> SUBSET Turns]
    /\ reason \in [Actors -> {"Replaced", "Interrupted"}]
    /\ ops \in [OpKinds -> Nat]
    /\ fate \in [Tracked -> {"unsent", "held", "recorded", "refused", "aborted"}]

\* Safety.  A task that is still running its turn is in active_turn.tasks or in
\* the hands of an actor that is aborting it: no interleaving of start_task,
\* on_task_finished and abort_all_tasks leaves a running task that a later
\* interrupt cannot reach.
TurnsStayInterruptible ==
    \A t \in Turns : pc[t] \in {"run", "flush"} =>
        t \in tasks \/ \E a \in {Loop, Guardian} : t \in victims[a]

\* Where an item is: in one of the session's stores, in the pending input of a
\* turn that somebody still refers to, in the hands of an actor, or an argument
\* of a start_task that has not spawned its task yet.
LiveTS == ({active} \union {ts[a] : a \in Actors}) \ {NoTS}
Places(i) ==
    {<<"queued", i>> : j \in {i} \intersect queued}
      \union {<<"mailbox", i>> : j \in {i} \intersect mailbox}
      \union {<<"pending", s>> : s \in {r \in LiveTS : i \in pending[r]}}
      \union {<<"bag", a>> : a \in {b \in Actors : i \in bag[b]}}
      \union {<<"input", t>> : t \in {u \in Turns : pc[u] = "made" /\ i \in input[u]}}

\* Safety.  An item is never in two places, and once it has been recorded in the
\* history, refused by a hook or dropped by an abort it is nowhere else: the
\* takes and pushes of start_task, run_turn and on_task_finished never deliver
\* one message twice.
ItemsDeliveredOnce ==
    \A i \in Tracked : /\ Cardinality(Places(i)) <= 1
                       /\ fate[i] # "held" => Places(i) = {}

\* Safety.  An input the session accepted, and that no abort dropped, is still
\* somewhere a turn will find it.  It fails when items can be injected while a
\* turn without a task is active, and when a hook blocks one of the messages in
\* the hands of a turn the guardian is aborting: the others are put back into
\* whatever turn is active by then, which may have recorded its leftovers.
NoAcceptedInputLost ==
    (HooksMayBlock => ops["guardian"] = 0) =>
        \A i \in Tracked : fate[i] = "held" => Places(i) # {}

\* Safety.  "A session has at most 1 running task at a time": start_task finds
\* no other task in the active turn.
AtMostOneRunningTask == Cardinality(tasks) <= 1

\* Safety.  After TurnAborted nothing of the turn runs any more: the task is
\* stopped before the event is sent, and no interleaving revives it.
AbortedTurnsStop == \A t \in aborted : pc[t] \in {"done", "dead"}

\* Safety.  Once maybe_start_goal_continuation_turn has read the goal again, and
\* until its turn has been started, an interrupt does not pause the goal behind
\* its back: both hold the continuation lock.
PausedGoalNotContinued ==
    \A a \in Actors :
        /\ contLock = a
        /\ pc[a] \in {"goal_check", "start_take", "start_insert", "start_push", "start_add"}
        => goal # "paused"

\* Liveness.  A turn whose task was started ends with a TurnComplete or a
\* TurnAborted event.
EveryTurnEnds ==
    \A t \in Turns : pc[t] = "run" ~> t \in completed \union aborted

\* Liveness.  Mail marked trigger_turn does not stay in the mailbox of an idle
\* session: a turn is started that drains it.
TriggerMailWakesSession ==
    \A m \in TriggerMail : m \in mailbox ~> m \notin mailbox
=============================================================================
