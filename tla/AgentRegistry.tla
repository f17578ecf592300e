--------------------------- MODULE AgentRegistry ---------------------------
(***************************************************************************)
(* The sub-agents of a Codex session tree (codex-rs/core/src/agent): the   *)
(* AgentRegistry that limits their number and hands out paths and          *)
(* nicknames, used by AgentControl to spawn, resume, message and close     *)
(* agents whose threads live in the ThreadManager.                         *)
(*                                                                         *)
(* A caller is one tool call of some agent; calls of different agents run  *)
(* in parallel.  An action is one atomic operation on `total_count`, one   *)
(* critical section of `active_agents` or of the manager's `threads` map,  *)
(* or the wait between them; a call may be cancelled wherever it awaits.   *)
(***************************************************************************)
EXTENDS Integers, FiniteSets

CONSTANTS
    Callers,     \* tool calls in flight
    Agents,      \* thread ids of sub-agents
    RootThread,  \* the thread of the root agent
    Paths,       \* agent paths
    RootPath,    \* AgentPath::ROOT
    NoPath,      \* a sub-agent without a path is filed under its thread id
    Vacant,      \* no entry in agent_tree
    Reserved,    \* an entry whose agent_id is None
    Names,       \* nickname candidates
    NoNick,
    Limits,      \* the values of agents.max_threads that are considered
    NoLimit,     \* max_threads = None
    MaxResumes   \* bound: how many resumes are started

Threads == Agents \union {RootThread}
Keys    == Paths \union {RootPath} \union Agents
Nicks   == Names \X Nat   \* a name and its ordinal: format_agent_nickname

ASSUME CallersFinite == IsFiniteSet(Callers) /\ IsFiniteSet(Keys)
ASSUME NamesApart ==
    /\ RootThread \notin Agents /\ RootPath \notin Paths \union Agents
    /\ Paths \intersect Agents = {}
    /\ NoPath \notin Keys /\ Vacant \notin Threads /\ Reserved \notin Threads
    /\ Vacant # Reserved /\ NoNick \notin Nicks
ASSUME LimitAssumption ==
    /\ Limits \subseteq Nat \union {NoLimit} /\ NoLimit \notin Nat
    /\ MaxResumes \in Nat

VARIABLES
    total,    \* total_count
    agent,    \* key of agent_tree -> its agent_id, Reserved or Vacant
    nickOf,   \* key of agent_tree -> its agent_nickname
    used,     \* used_agent_nicknames
    resets,   \* nickname_reset_count
    threads,  \* the manager's map: "running", "stopped" (its loop has ended) or "absent"
    parent,   \* agent -> parent_thread_id of its session source
    pathOf,   \* agent -> agent_path of its session source
    stored,   \* agent -> nickname in the state db, NoNick when it was never spawned
    fresh,    \* agents whose thread id has not been given out
    known,    \* agents that were committed once: their id can be a tool's argument
    pc,       \* where each caller is
    call,     \* caller -> the locals of its call
    limit,    \* agents.max_threads, from the configuration of the session
    resumes   \* number of resumes started

registry == <<total, agent, nickOf, used, resets>>
manager  == <<threads, parent, pathOf, stored, fresh, known>>
steady   == <<limit, resumes>>
vars     == <<registry, manager, pc, call, steady>>

\* The locals of a call.
NoCall ==
    [seen   |-> 0,           \* `current` of the compare-exchange loop
     target |-> RootThread,  \* the thread it spawns, resumes, messages or closes
     from   |-> RootThread,  \* parent_thread_id of the thread it spawns
     path   |-> NoPath,      \* reserved_agent_path
     nick   |-> NoNick,      \* reserved_agent_nickname
     todo   |-> {}]          \* descendants still to shut down

Goto(c, label) == pc' = [pc EXCEPT ![c] = label]
Call(c, locals) == call' = [call EXCEPT ![c] = locals]
Return(c) == Goto(c, "idle") /\ Call(c, NoCall)

Live == {t \in Agents : threads[t] # "absent"}

----------------------------------------------------------------------------
(* spawn_agent and resume_agent: the slot *)

\* The spawn_agent tool; the id is the one the new thread will get.
Spawn(c, t, p, who) ==
    /\ pc[c] = "idle" /\ t \in fresh /\ threads[who] = "running"
    /\ fresh' = fresh \ {t}
    /\ Call(c, [NoCall EXCEPT !.target = t, !.from = who, !.path = p])
    /\ Goto(c, "load")
    /\ UNCHANGED <<registry, threads, parent, pathOf, stored, known, steady>>

\* The resume_agent tool finds the agent NotFound; resume_agent_from_rollout does
\* the same for each open descendant that get_thread does not find.
Resume(c, t, who) ==
    /\ pc[c] = "idle" /\ t \in known /\ threads[t] = "absent"
    /\ threads[who] = "running"
    /\ resumes < MaxResumes
    /\ resumes' = resumes + 1
    /\ Call(c, [NoCall EXCEPT !.target = t, !.from = who])
    /\ Goto(c, "load")
    /\ UNCHANGED <<registry, manager, limit>>

\* reserve_spawn_slot: without a limit the count is simply incremented.
LoadCount(c) ==
    /\ pc[c] = "load"
    /\ \/ /\ limit = NoLimit
          /\ total' = total + 1
          /\ Goto(c, "prepare")
          /\ UNCHANGED call
       \/ /\ limit # NoLimit
          /\ Call(c, [call[c] EXCEPT !.seen = total])
          /\ Goto(c, "cas")
          /\ UNCHANGED total
    /\ UNCHANGED <<agent, nickOf, used, resets, manager, steady>>

\* Mutant: the new count is stored without comparing.
CompareExchangeStores(c) ==
    /\ pc[c] = "cas"
    /\ \/ /\ call[c].seen >= limit
          /\ Return(c)
          /\ UNCHANGED total
       \/ /\ call[c].seen < limit
          /\ total' = call[c].seen + 1
          /\ Goto(c, "prepare")
          /\ UNCHANGED call
    /\ UNCHANGED <<agent, nickOf, used, resets, manager, steady>>

\* try_increment_spawned; compare_exchange_weak may fail although the count has
\* not changed.
CompareExchange(c) ==
    /\ pc[c] = "cas"
    /\ \/ /\ call[c].seen >= limit
          /\ Return(c)
          /\ UNCHANGED total
       \/ /\ call[c].seen < limit /\ total = call[c].seen
          /\ total' = total + 1
          /\ Call(c, [call[c] EXCEPT !.seen = 0])
          /\ Goto(c, "prepare")
       \/ /\ call[c].seen < limit
          /\ Call(c, [call[c] EXCEPT !.seen = total])
          /\ UNCHANGED <<total, pc>>
    /\ UNCHANGED <<agent, nickOf, used, resets, manager, steady>>

----------------------------------------------------------------------------
(* prepare_thread_spawn *)

\* register_root_thread, for a child of the root.
RegisterRoot(c) ==
    /\ pc[c] = "prepare"
    /\ agent' = IF call[c].from = RootThread /\ agent[RootPath] = Vacant
                THEN [agent EXCEPT ![RootPath] = RootThread] ELSE agent
    /\ Goto(c, "path")
    /\ UNCHANGED <<total, nickOf, used, resets, manager, call, steady>>

\* Mutant: a path that is already taken is taken over.
ReservePathOverwrites(c) ==
    /\ pc[c] = "path"
    /\ agent' = IF call[c].path = NoPath THEN agent
                ELSE [agent EXCEPT ![call[c].path] = Reserved]
    /\ Goto(c, "nickname")
    /\ UNCHANGED <<total, nickOf, used, resets, manager, call, steady>>

\* reserve_agent_path: an error drops the reservation, which holds no path yet.
ReservePath(c) ==
    /\ pc[c] = "path"
    /\ LET p == call[c].path IN
       \/ /\ p = NoPath
          /\ Goto(c, "nickname")
          /\ UNCHANGED <<agent, call>>
       \/ /\ p # NoPath /\ agent[p] = Vacant
          /\ agent' = [agent EXCEPT ![p] = Reserved]
          /\ Goto(c, "nickname")
          /\ UNCHANGED call
       \/ /\ p # NoPath /\ agent[p] # Vacant
          /\ Call(c, [call[c] EXCEPT !.path = NoPath])
          /\ Goto(c, "drop")
          /\ UNCHANGED agent
    /\ UNCHANGED <<total, nickOf, used, resets, manager, steady>>

Available(name) == <<name, resets>> \notin used

\* Mutant: the pool is cleared without advancing the ordinal.
ReserveAgentNicknameSameOrdinal(n) ==
    \E name \in Names :
       /\ n = <<name, resets>>
       /\ IF \E other \in Names : Available(other)
          THEN Available(name) /\ used' = used \union {n}
          ELSE used' = {n}
       /\ UNCHANGED resets

\* reserve_agent_nickname without a preference: a name that is not used, or, when
\* all are, any name of a new pool with the next ordinal.
ReserveAgentNickname(n) ==
    \E name \in Names :
       \/ /\ Available(name)
          /\ n = <<name, resets>>
          /\ used' = used \union {n}
          /\ UNCHANGED resets
       \/ /\ \A other \in Names : ~Available(other)
          /\ n = <<name, resets + 1>>
          /\ used' = {n}
          /\ resets' = resets + 1

\* The name of a resumed agent comes from the state db, if that can be read.
ReserveNickname(c) ==
    /\ pc[c] = "nickname"
    /\ LET preferred == stored[call[c].target] IN
       /\ \E n \in Names \X {resets, resets + 1} \union {preferred} :
             /\ \/ n = preferred /\ preferred # NoNick /\ used' = used \union {n} /\ UNCHANGED resets
                \/ ReserveAgentNickname(n)
             /\ Call(c, [call[c] EXCEPT !.nick = n])
       /\ Goto(c, IF preferred = NoNick THEN "create" ELSE "check")
    /\ UNCHANGED <<total, agent, nickOf, manager, steady>>

----------------------------------------------------------------------------
(* spawn_thread_with_source and finalize_thread_spawn *)

\* A resumed thread that is already running is returned as it is; one whose loop
\* has ended is removed first; a thread that cannot be read ends the resume.
CheckResumed(c) ==
    /\ pc[c] = "check"
    /\ \/ /\ threads[call[c].target] = "running"
          /\ Goto(c, "recommit")
          /\ UNCHANGED threads
       \/ /\ threads[call[c].target] # "running"
          /\ threads' = [threads EXCEPT ![call[c].target] = "absent"]
          /\ Goto(c, "create")
       \/ /\ Goto(c, "drop")
          /\ UNCHANGED threads
    /\ UNCHANGED <<registry, parent, pathOf, stored, fresh, known, call, steady>>

\* Codex::spawn, and the insertion of the new thread into the manager's map.  A
\* new agent is committed at once; a resumed one first gets the goal's resume
\* effects.
CreateThread(c) ==
    /\ pc[c] = "create"
    /\ LET t == call[c].target IN
       \/ /\ threads[t] = "absent"
          /\ threads' = [threads EXCEPT ![t] = "running"]
          /\ parent'  = [parent EXCEPT ![t] = call[c].from]
          /\ pathOf'  = [pathOf EXCEPT ![t] = call[c].path]
          /\ stored'  = [stored EXCEPT ![t] = call[c].nick]
          /\ Goto(c, IF stored[t] = NoNick THEN "commit" ELSE "effects")
       \/ /\ Goto(c, "drop")
          /\ UNCHANGED <<threads, parent, pathOf, stored>>
    /\ UNCHANGED <<registry, fresh, known, call, steady>>

\* apply_goal_resume_runtime_effects.
ResumeEffects(c) ==
    /\ pc[c] = "effects"
    /\ Goto(c, "recommit")
    /\ UNCHANGED <<registry, manager, call, steady>>

\* SpawnReservation::commit and register_spawned_thread: the agent is filed under
\* its path, or under its thread id.  A spawned agent then gets its first input.
Commit(c) ==
    /\ pc[c] \in {"commit", "recommit"}
    /\ LET key == IF call[c].path = NoPath THEN call[c].target ELSE call[c].path IN
          /\ agent'  = [agent EXCEPT ![key] = call[c].target]
          /\ nickOf' = [nickOf EXCEPT ![key] = call[c].nick]
    /\ used'  = used \union {call[c].nick}
    /\ known' = known \union {call[c].target}
    /\ \/ /\ pc[c] = "commit"
          /\ Goto(c, "send")
          /\ Call(c, [NoCall EXCEPT !.target = call[c].target])
       \/ pc[c] = "recommit" /\ Return(c)
    /\ UNCHANGED <<total, resets, threads, parent, pathOf, stored, fresh, steady>>

----------------------------------------------------------------------------
(* Dropping a reservation, by an error or because the call is cancelled *)

\* The turn is interrupted where the call awaits: its future is dropped, and with
\* it a reservation that was not committed.  At `prepare` it holds no path yet.
Cancel(c) ==
    /\ \/ /\ pc[c] = "prepare"
          /\ Goto(c, "drop")
          /\ Call(c, NoCall)
       \/ /\ pc[c] \in {"check", "create", "effects"}
          /\ Goto(c, "drop")
          /\ UNCHANGED call
       \/ /\ pc[c] \in {"send", "close", "shutdown", "remove"}
          /\ Return(c)
    /\ UNCHANGED <<registry, manager, steady>>

\* Drop: release_reserved_agent_path ...
ReleaseReservedPath(c) ==
    /\ pc[c] = "drop"
    /\ LET p == call[c].path IN
          agent' = IF p # NoPath /\ agent[p] = Reserved
                   THEN [agent EXCEPT ![p] = Vacant] ELSE agent
    /\ Goto(c, "uncount")
    /\ Call(c, NoCall)
    /\ UNCHANGED <<total, nickOf, used, resets, manager, steady>>

\* ... and the slot is given back.
DropSlot(c) ==
    /\ pc[c] = "uncount"
    /\ total' = total - 1
    /\ Return(c)
    /\ UNCHANGED <<agent, nickOf, used, resets, manager, steady>>

----------------------------------------------------------------------------
(* send_input, close_agent, shutdown_live_agent *)

\* The first input of a new agent, or any message to an agent: a thread whose loop
\* has ended answers InternalAgentDied and is removed.
SendInput(c) ==
    /\ pc[c] = "send"
    /\ \/ /\ threads[call[c].target] = "stopped"
          /\ Goto(c, "remove")
          /\ UNCHANGED call
       \/ /\ threads[call[c].target] # "stopped"
          /\ Return(c)
    /\ UNCHANGED <<registry, manager, steady>>

SendToAgent(c, t) ==
    /\ pc[c] = "idle" /\ t \in known \union {RootThread} /\ threads[t] = "stopped"
    /\ Call(c, [NoCall EXCEPT !.target = t])
    /\ Goto(c, "send")
    /\ UNCHANGED <<registry, manager, steady>>

\* live_thread_spawn_descendants: the least set of threads of the manager that
\* holds the children of t and the children of its members.
Children(t) == {d \in Live : parent[d] = t}
Descendants(t) ==
    {d \in Live : \A S \in SUBSET Live :
        Children(t) \subseteq S /\ (\A s \in S : Children(s) \subseteq S) => d \in S}

\* close_agent of an agent that the manager has.
CloseAgent(c, t) ==
    /\ pc[c] = "idle" /\ t \in Live \intersect known
    /\ Call(c, [NoCall EXCEPT !.target = t, !.todo = Descendants(t) \ {t}])
    /\ Goto(c, "close")
    /\ UNCHANGED <<registry, manager, steady>>

\* shutdown_agent_tree goes on with the next descendant.
NextShutdown(c) ==
    \/ call[c].todo = {} /\ Return(c)
    \/ /\ \E t \in call[c].todo :
             Call(c, [call[c] EXCEPT !.target = t, !.todo = @ \ {t}])
       /\ Goto(c, "shutdown")

\* shutdown_live_agent: the thread is told to stop and waited for.  When its
\* rollout cannot be flushed nothing is shut down; the error ends the close unless
\* it is the first thread's.
Shutdown(c) ==
    /\ pc[c] \in {"close", "shutdown"}
    /\ LET t == call[c].target IN
       \/ /\ threads' = [threads EXCEPT ![t] = IF @ = "absent" THEN "absent" ELSE "stopped"]
          /\ Goto(c, "remove")
          /\ UNCHANGED call
       \/ /\ threads[t] # "absent"
          /\ IF pc[c] = "close" THEN NextShutdown(c) ELSE Return(c)
          /\ UNCHANGED threads
    /\ UNCHANGED <<registry, parent, pathOf, stored, fresh, known, steady>>

\* Mutant: the thread of a released agent stays in the manager.
RemoveThreadForgotten(c) ==
    /\ pc[c] = "remove"
    /\ Goto(c, "release")
    /\ UNCHANGED <<registry, manager, call, steady>>

RemoveThread(c) ==
    /\ pc[c] = "remove"
    /\ threads' = [threads EXCEPT ![call[c].target] = "absent"]
    /\ Goto(c, "release")
    /\ UNCHANGED <<registry, parent, pathOf, stored, fresh, known, call, steady>>

\* Mutant: a thread another call has released already is subtracted again.
ReleaseEntryTwice(c) ==
    /\ pc[c] = "release"
    /\ agent' = [k \in Keys |-> IF agent[k] = call[c].target THEN Vacant ELSE agent[k]]
    /\ Goto(c, "release_count")
    /\ UNCHANGED <<total, nickOf, used, resets, manager, call, steady>>

\* release_spawned_thread removes one entry of the thread, if there is one; the
\* root's is not counted.
ReleaseEntry(c) ==
    /\ pc[c] = "release"
    /\ \/ \E k \in Keys :
             /\ agent[k] = call[c].target
             /\ agent' = [agent EXCEPT ![k] = Vacant]
             /\ IF k = RootPath THEN NextShutdown(c)
                                ELSE Goto(c, "release_count") /\ UNCHANGED call
       \/ /\ \A k \in Keys : agent[k] # call[c].target
          /\ NextShutdown(c)
          /\ UNCHANGED agent
    /\ UNCHANGED <<total, nickOf, used, resets, manager, steady>>

ReleaseSlot(c) ==
    /\ pc[c] = "release_count"
    /\ total' = total - 1
    /\ NextShutdown(c)
    /\ UNCHANGED <<agent, nickOf, used, resets, manager, steady>>

\* The submission loop of a thread ends by itself.
ThreadStops(t) ==
    /\ threads[t] = "running"
    /\ threads' = [threads EXCEPT ![t] = "stopped"]
    /\ UNCHANGED <<registry, parent, pathOf, stored, fresh, known, pc, call, steady>>

----------------------------------------------------------------------------
Init ==
    /\ total = 0
    /\ agent = [k \in Keys |-> Vacant] /\ nickOf = [k \in Keys |-> NoNick]
    /\ used = {} /\ resets = 0
    /\ threads = [t \in Threads |-> IF t = RootThread THEN "running" ELSE "absent"]
    /\ parent = [t \in Agents |-> RootThread] /\ pathOf = [t \in Agents |-> NoPath]
    /\ stored = [t \in Agents |-> NoNick]
    /\ fresh = Agents /\ known = {}
    /\ pc = [c \in Callers |-> "idle"]
    /\ call = [c \in Callers |-> NoCall]
    /\ limit \in Limits /\ resumes = 0

StartCall(c) ==
    \/ \E t \in Agents, p \in Paths \union {NoPath}, who \in Threads : Spawn(c, t, p, who)
    \/ \E t \in Agents, who \in Threads : Resume(c, t, who)
    \/ \E t \in Threads : SendToAgent(c, t)
    \/ \E t \in Agents : CloseAgent(c, t)

Reserve(c) ==
    \/ LoadCount(c) \/ CompareExchange(c)
    \/ RegisterRoot(c) \/ ReservePath(c) \/ ReserveNickname(c)

Start(c) ==
    \/ CheckResumed(c) \/ CreateThread(c) \/ ResumeEffects(c) \/ Commit(c) \/ SendInput(c)

GiveBack(c) == ReleaseReservedPath(c) \/ DropSlot(c)

Stop(c) == Shutdown(c) \/ RemoveThread(c) \/ ReleaseEntry(c) \/ ReleaseSlot(c)

Next ==
    \/ \E c \in Callers :
          StartCall(c) \/ Reserve(c) \/ Start(c) \/ Cancel(c) \/ GiveBack(c) \/ Stop(c)
    \/ \E t \in Threads : ThreadStops(t)

Spec == Init /\ [][Next]_vars

----------------------------------------------------------------------------
(* Properties *)

Labels == {"idle", "load", "cas", "prepare", "path", "nickname", "check", "create",
           "effects", "commit", "recommit", "send", "drop", "uncount", "close",
           "shutdown", "remove", "release", "release_count"}

Frame == [seen : Nat, target : Threads, from : Threads, path : Paths \union {NoPath},
          nick : Nicks \union {NoNick}, todo : SUBSET Agents]

\* Type invariant of the registry, the manager's map and the calls in flight; the
\* count is a usize and is never decremented below zero.
TypeOK ==
    /\ total \in Nat
    /\ agent \in [Keys -> Threads \union {Vacant, Reserved}]
    /\ nickOf \in [Keys -> Nicks \union {NoNick}]
    /\ used \subseteq Nicks \union {NoNick} /\ resets \in Nat
    /\ threads \in [Threads -> {"running", "stopped", "absent"}]
    /\ parent \in [Agents -> Threads] /\ pathOf \in [Agents -> Paths \union {NoPath}]
    /\ stored \in [Agents -> Nicks \union {NoNick}]
    /\ fresh \subseteq Agents /\ known \subseteq Agents
    /\ pc \in [Callers -> Labels] /\ limit \in Limits /\ resumes \in Nat
    /\ call \in [Callers -> Frame]

\* The slots in use: reservations, agents in the tree, and agents that have left
\* the tree and are still to be subtracted.
Holding    == {c \in Callers : pc[c] \in {"prepare", "path", "nickname", "check", "create",
                                          "effects", "commit", "recommit", "drop", "uncount"}}
Owing      == {c \in Callers : pc[c] = "release_count"}
Registered == {k \in Keys \ {RootPath} : agent[k] \in Threads}
SlotsInUse == Cardinality(Holding) + Cardinality(Owing) + Cardinality(Registered)

\* Safety.  total_count covers every slot in use and stays within max_threads, so
\* that no interleaving of reservations, drops, commits and releases registers
\* more agents than the limit.
SlotsWithinLimit ==
    /\ SlotsInUse <= total
    /\ limit # NoLimit => total <= limit

\* Safety.  The count is exactly the slots in use, as long as no agent is resumed:
\* no cancellation, refusal or shutdown loses one.  A resume of an agent that is
\* already running takes a slot and files the agent under the key it has.
CountIsExact == resumes = 0 => total = SlotsInUse

\* Safety.  "Total number of sub-agents (i.e. threads) per user session": no more
\* threads than max_threads, as long as no agent is resumed.  A resume cancelled
\* after its thread was created gives the slot back and leaves the thread.
ThreadsWithinLimit == limit # NoLimit /\ resumes = 0 => Cardinality(Live) <= limit

\* Safety.  A spawn succeeds again after shutdown: when no call is in flight and
\* every agent has been shut down, all slots have been given back.  It fails when
\* an agent is shut down between its creation and its registration.
SlotsReturned ==
    Live = {} /\ (\A c \in Callers : pc[c] = "idle") => total = 0

\* Safety.  Two agents in the tree never have the same nickname, across pool
\* resets, failed spawns and resumed agents.
NicknamesUnique ==
    \A j, k \in Registered : agent[j] # agent[k] => nickOf[j] # nickOf[k]

\* Safety.  Two threads of the manager never have the same agent path: a path is
\* free again only when the thread that had it has left the manager.
PathsUnique ==
    \A t, u \in Live : pathOf[t] = pathOf[u] /\ pathOf[t] # NoPath => t = u
=============================================================================
