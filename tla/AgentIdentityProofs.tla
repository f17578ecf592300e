------------------------ MODULE AgentIdentityProofs ------------------------
(***************************************************************************)
(* TLAPS proofs about AgentRegistry, for any calls, agents, paths, names   *)
(* and limits: the paths and the nicknames of agents are unique, and while *)
(* no agent is resumed the count is exact and bounds the threads.          *)
(***************************************************************************)
EXTENDS AgentRegistryProofs

----------------------------------------------------------------------------
(* The inductive invariant *)

\* A thread of the agent has been created once.
Born(t) == stored[t] # NoNick

\* The awaits of a call before it creates its thread, of a resume once it knows so, and of
\* a call once it holds its path.
Before   == {"load", "cas", "prepare", "path", "nickname", "create"}
Resuming == {"check", "effects", "recommit"}
Holds    == {"nickname", "check", "create", "effects", "commit", "recommit", "drop"}
Stopping == {"idle", "uncount", "send", "close", "shutdown", "remove", "release",
             "release_count"}

\* An agent that is not born has no thread, and only the call that spawns it knows it.
Unborn ==
    /\ \A t \in Agents : ~Born(t) =>
          /\ threads[t] = "absent" /\ t \notin known
          /\ \A c \in Callers : t \notin call[c].todo
          /\ \A c \in Callers : call[c].target = t => pc[c] \in Before \union {"drop"}
    /\ \A t \in fresh : ~Born(t) /\ \A c \in Callers : call[c].target # t

\* A call spawns an agent that nobody else spawns or resumes, or resumes one that was
\* committed once, which then has no path.
Spawners ==
    /\ \A c \in Callers :
          /\ pc[c] \in Before => (Born(call[c].target) <=> call[c].target \in known)
          /\ pc[c] \in Resuming => call[c].target \in known
          /\ pc[c] = "commit" => Born(call[c].target) /\ call[c].target \notin known
          /\ pc[c] \in Spawning /\ call[c].target \in known => call[c].path = NoPath
    /\ \A c, d \in Callers :
          /\ pc[c] \in Spawning /\ pc[d] \in Spawning
          /\ call[c].target = call[d].target /\ call[c].target \notin known
          => c = d

\* A path is reserved for one call, and then is the path of its agent until the thread has
\* left the manager.
Holder(c, p) == pc[c] \in Holds /\ call[c].path = p
PathsHeld ==
    /\ \A c \in Callers, p \in Paths : Holder(c, p) => agent[p] = Reserved
    /\ \A c, d \in Callers, p \in Paths : Holder(c, p) /\ Holder(d, p) => c = d
    /\ \A t \in Live : pathOf[t] # NoPath =>
          \/ agent[pathOf[t]] = t
          \/ \E c \in Callers :
                pc[c] = "commit" /\ call[c].target = t /\ call[c].path = pathOf[t]
    /\ \A c \in Callers : pc[c] = "release" /\ call[c].target \in Live =>
          pathOf[call[c].target] = NoPath

\* A nickname is borne by one agent: stored, reserved for its call, or filed in the tree.
Bears(t, n) ==
    \/ t \in Agents /\ stored[t] = n
    \/ \E c \in Callers : call[c].target = t /\ call[c].nick = n
    \/ \E k \in Registered : agent[k] = t /\ nickOf[k] = n
NicksBorne ==
    /\ \A t, u \in Threads, n \in Nicks : Bears(t, n) /\ Bears(u, n) => t = u
    /\ \A t \in Threads, n \in Nicks : Bears(t, n) =>
          n[2] <= resets /\ (n[2] = resets => n \in used)
    /\ \A c \in Callers : pc[c] \in Stopping => call[c].nick = NoNick
    /\ \A c \in Callers : pc[c] \in {"create", "check", "effects", "commit", "recommit"} =>
          call[c].nick # NoNick
    /\ \A k \in Registered : nickOf[k] # NoNick

\* The entries of the tree under an agent's id, and, while no agent is resumed, where each
\* thread is counted.
Placed ==
    /\ \A t \in Agents : agent[t] # Vacant => t \in known
    /\ resumes = 0 =>
          /\ \A c \in Callers : pc[c] \in Spawning => call[c].target \notin known
          /\ \A c \in Callers : pc[c] = "release" => call[c].target \notin Live
          /\ \A t \in Live : \/ \E c \in Callers : pc[c] = "commit" /\ call[c].target = t
                             \/ \E k \in Registered : agent[k] = t

IdInv == Unborn /\ Spawners /\ PathsHeld /\ NicksBorne /\ Placed /\ CountIsExact

----------------------------------------------------------------------------
(* The steps, by what they do to the calls, the tree and the manager *)

Others(c) == \A b \in Callers \ {c} : pc'[b] = pc[b] /\ call'[b] = call[b]
Same(c) ==
    /\ call'[c].target = call[c].target /\ call'[c].path = call[c].path
    /\ call'[c].nick = call[c].nick /\ call'[c].todo = call[c].todo
Cleared(c) ==
    /\ call'[c].target = RootThread /\ call'[c].path = NoPath
    /\ call'[c].nick = NoNick /\ call'[c].todo = {}
NamesKept == UNCHANGED <<nickOf, used, resets>>

\* A step of a call that concerns nobody else: it goes on, gives up its path, ends, turns to
\* the next thread of a shutdown, or starts without taking a new agent.
GoesOn(c) ==
    /\ Same(c) /\ UNCHANGED resumes
    /\ \/ pc[c] \in {"load", "cas", "prepare"} /\ pc'[c] \in {"cas", "prepare", "path"}
       \/ pc[c] = "path" /\ call[c].path = NoPath /\ pc'[c] = "nickname"
       \/ pc[c] \in {"check", "effects"} /\ pc'[c] = "recommit"
       \/ pc[c] \in {"check", "create", "effects"} /\ pc'[c] = "drop"
       \/ pc[c] = "send" /\ pc'[c] = "remove"
GivesUp(c) ==
    /\ pc[c] = "path" /\ pc'[c] = "drop" /\ UNCHANGED resumes
    /\ call'[c].target = call[c].target /\ call'[c].path = NoPath
    /\ call'[c].nick = call[c].nick /\ call'[c].todo = call[c].todo
Ends(c) ==
    /\ pc[c] # "commit" /\ pc'[c] \in {"idle", "drop", "uncount"} /\ Cleared(c)
    /\ UNCHANGED resumes
TurnsTo(c) ==
    /\ pc[c] \in {"close", "release", "release_count"} /\ pc'[c] = "shutdown"
    /\ call'[c].target \in call[c].todo /\ call'[c].todo \subseteq call[c].todo
    /\ call'[c].path = call[c].path /\ call'[c].nick = call[c].nick /\ UNCHANGED resumes
Starts(c) ==
    /\ pc[c] = "idle" /\ call'[c].path = NoPath /\ call'[c].nick = NoNick
    /\ \/ /\ pc'[c] = "load" /\ call'[c].target \in known /\ call'[c].todo = {}
          /\ resumes' = resumes + 1
       \/ /\ pc'[c] = "send" /\ call'[c].target \in known \union {RootThread}
          /\ call'[c].todo = {} /\ UNCHANGED resumes
       \/ /\ pc'[c] = "close" /\ call'[c].target \in Live /\ call'[c].todo \subseteq Live
          /\ UNCHANGED resumes
Moves(c) ==
    /\ Others(c) /\ NamesKept /\ UNCHANGED manager
    /\ \A k \in Keys \ {RootPath} : agent'[k] = agent[k]
    /\ GoesOn(c) \/ GivesUp(c) \/ Ends(c) \/ TurnsTo(c) \/ Starts(c)

\* The steps that take an agent, take or give back a path, and take a nickname.
Spawns(c) ==
    /\ Others(c) /\ pc[c] = "idle" /\ pc'[c] = "load"
    /\ call'[c].target \in fresh /\ fresh' = fresh \ {call'[c].target}
    /\ call'[c].nick = NoNick /\ call'[c].todo = {}
    /\ NamesKept /\ UNCHANGED <<agent, threads, pathOf, stored, known, resumes>>
TakesPath(c) ==
    /\ Others(c) /\ Same(c) /\ pc[c] = "path" /\ pc'[c] = "nickname"
    /\ call[c].path \in Paths /\ agent[call[c].path] = Vacant
    /\ agent' = [agent EXCEPT ![call[c].path] = Reserved]
    /\ NamesKept /\ UNCHANGED <<manager, resumes>>
FreesPath(c) ==
    /\ Others(c) /\ Cleared(c) /\ pc[c] = "drop" /\ pc'[c] = "uncount"
    /\ call[c].path \in Paths /\ agent[call[c].path] = Reserved
    /\ agent' = [agent EXCEPT ![call[c].path] = Vacant]
    /\ NamesKept /\ UNCHANGED <<manager, resumes>>
TakesName(c) ==
    /\ Others(c) /\ pc[c] = "nickname"
    /\ pc'[c] = IF stored[call[c].target] = NoNick THEN "create" ELSE "check"
    /\ call'[c].target = call[c].target /\ call'[c].path = call[c].path
    /\ call'[c].todo = call[c].todo /\ call'[c].nick \in Nicks
    /\ \/ /\ call'[c].nick = stored[call[c].target]
          /\ used' = used \union {call'[c].nick} /\ resets' = resets
       \/ /\ call'[c].nick[2] = resets /\ call'[c].nick \notin used
          /\ used' = used \union {call'[c].nick} /\ resets' = resets
       \/ /\ call'[c].nick[2] = resets + 1
          /\ used' = {call'[c].nick} /\ resets' = resets + 1
    /\ UNCHANGED <<agent, nickOf, manager, resumes>>

\* The steps that change the manager's map or file agents.
StopsThread(c) ==
    /\ Others(c) /\ Same(c)
    /\ \/ pc[c] = "check" /\ pc'[c] = "create"
       \/ pc[c] \in {"close", "shutdown"} /\ pc'[c] = "remove"
       \/ pc[c] = "remove" /\ pc'[c] = "release" /\ threads'[call[c].target] = "absent"
    /\ \A t \in Threads : threads[t] = "absent" => threads'[t] = "absent"
    /\ NamesKept /\ UNCHANGED <<agent, pathOf, stored, fresh, known, resumes>>
Creates(c) ==
    /\ Others(c) /\ Same(c) /\ pc[c] = "create"
    /\ pc'[c] = IF stored[call[c].target] = NoNick THEN "commit" ELSE "effects"
    /\ threads[call[c].target] = "absent"
    /\ threads' = [threads EXCEPT ![call[c].target] = "running"]
    /\ pathOf' = [pathOf EXCEPT ![call[c].target] = call[c].path]
    /\ stored' = [stored EXCEPT ![call[c].target] = call[c].nick]
    /\ NamesKept /\ UNCHANGED <<agent, fresh, known, resumes>>
Commits(c) ==
    /\ Others(c)
    /\ \/ pc[c] = "commit" /\ pc'[c] = "send" /\ call'[c].target = call[c].target
       \/ pc[c] = "recommit" /\ pc'[c] = "idle" /\ call'[c].target = RootThread
    /\ call'[c].path = NoPath /\ call'[c].nick = NoNick /\ call'[c].todo = {}
    /\ agent' = [agent EXCEPT ![FiledAt(c)] = call[c].target]
    /\ nickOf' = [nickOf EXCEPT ![FiledAt(c)] = call[c].nick]
    /\ used' = used \union {call[c].nick} /\ resets' = resets
    /\ known' = known \union {call[c].target}
    /\ UNCHANGED <<threads, pathOf, stored, fresh, resumes>>
Unfiles(c) ==
    /\ Others(c) /\ Same(c) /\ pc[c] = "release" /\ pc'[c] = "release_count"
    /\ \E k \in Keys \ {RootPath} :
          agent[k] = call[c].target /\ agent' = [agent EXCEPT ![k] = Vacant]
    /\ NamesKept /\ UNCHANGED <<manager, resumes>>

Affects(c) ==
    \/ Moves(c) \/ Spawns(c) \/ TakesPath(c) \/ FreesPath(c) \/ TakesName(c)
    \/ StopsThread(c) \/ Creates(c) \/ Commits(c) \/ Unfiles(c)

\* The locals of a call after each kind of assignment.
LEMMA Locals ==
    ASSUME NEW f \in Frame
    PROVE  /\ /\ NoCall.target = RootThread /\ NoCall.path = NoPath
              /\ NoCall.nick = NoNick /\ NoCall.todo = {}
           /\ \A n : LET g == [f EXCEPT !.seen = n] IN
                 /\ g.target = f.target /\ g.path = f.path /\ g.nick = f.nick
                 /\ g.todo = f.todo
           /\ \A n : LET g == [f EXCEPT !.nick = n] IN
                 /\ g.target = f.target /\ g.path = f.path /\ g.nick = n
                 /\ g.todo = f.todo
           /\ \A p : LET g == [f EXCEPT !.path = p] IN
                 /\ g.target = f.target /\ g.path = p /\ g.nick = f.nick
                 /\ g.todo = f.todo
           /\ \A t : LET g == [f EXCEPT !.target = t, !.todo = @ \ {t}] IN
                 /\ g.target = t /\ g.path = f.path /\ g.nick = f.nick
                 /\ g.todo \subseteq f.todo
           /\ \A t, w, p : LET g == [NoCall EXCEPT !.target = t, !.from = w, !.path = p] IN
                 /\ g.target = t /\ g.path = p /\ g.nick = NoNick /\ g.todo = {}
           /\ \A t, w : LET g == [NoCall EXCEPT !.target = t, !.from = w] IN
                 /\ g.target = t /\ g.path = NoPath /\ g.nick = NoNick /\ g.todo = {}
           /\ \A t : LET g == [NoCall EXCEPT !.target = t] IN
                 /\ g.target = t /\ g.path = NoPath /\ g.nick = NoNick /\ g.todo = {}
           /\ \A t, S : LET g == [NoCall EXCEPT !.target = t, !.todo = S] IN
                 /\ g.target = t /\ g.path = NoPath /\ g.nick = NoNick /\ g.todo = S
BY DEF Frame, NoCall

\* Only the locals of one call change in a step of that call.
LEMMA OneCall ==
    ASSUME TypeOK, NEW c \in Callers, NEW f, NEW l,
           pc' = [pc EXCEPT ![c] = l], call' = [call EXCEPT ![c] = f]
    PROVE  Others(c) /\ pc'[c] = l /\ call'[c] = f
BY DEF TypeOK, Others

\* The same for a step that leaves the locals alone.
LEMMA SameCall ==
    ASSUME TypeOK, NEW c \in Callers, NEW l, pc' = [pc EXCEPT ![c] = l], UNCHANGED call
    PROVE  Others(c) /\ pc'[c] = l /\ Same(c)
BY DEF TypeOK, Others, Same

\* The end of a call, and the next thread of a shutdown.
LEMMA Leaves ==
    ASSUME TypeOK, NEW c \in Callers
    PROVE  /\ Return(c) => Others(c) /\ pc'[c] = "idle" /\ Cleared(c)
           /\ NextShutdown(c) =>
                 /\ Others(c)
                 /\ \/ pc'[c] = "idle" /\ Cleared(c)
                    \/ /\ pc'[c] = "shutdown" /\ call'[c].target \in call[c].todo
                       /\ call'[c].todo \subseteq call[c].todo
                       /\ call'[c].path = call[c].path /\ call'[c].nick = call[c].nick
<1>f. call[c] \in Frame
  BY DEF TypeOK
<1>1. ASSUME Return(c) PROVE Others(c) /\ pc'[c] = "idle" /\ Cleared(c)
  <2>1. Others(c) /\ pc'[c] = "idle" /\ call'[c] = NoCall
    BY <1>1, OneCall DEF Return, Goto, Call
  <2> QED
    BY <1>f, <2>1, Locals DEF Cleared
<1>2. ASSUME NEW t \in call[c].todo,
             Call(c, [call[c] EXCEPT !.target = t, !.todo = @ \ {t}]), Goto(c, "shutdown")
      PROVE  /\ Others(c) /\ pc'[c] = "shutdown" /\ call'[c].target \in call[c].todo
             /\ call'[c].todo \subseteq call[c].todo
             /\ call'[c].path = call[c].path /\ call'[c].nick = call[c].nick
  <2> DEFINE f == [call[c] EXCEPT !.target = t, !.todo = @ \ {t}]
  <2>1. /\ f.target = t /\ f.path = call[c].path /\ f.nick = call[c].nick
        /\ f.todo \subseteq call[c].todo
    BY <1>f, Locals
  <2>2. call' = [call EXCEPT ![c] = f] /\ pc' = [pc EXCEPT ![c] = "shutdown"]
    BY <1>2 DEF Call, Goto
  <2> HIDE DEF f
  <2>3. Others(c) /\ pc'[c] = "shutdown" /\ call'[c] = f
    BY <2>2, OneCall
  <2> QED
    BY <2>1, <2>3
<1> QED
  BY <1>1, <1>2 DEF NextShutdown

\* Every step is one of these.
LEMMA Cases ==
    IndInv /\ [Next]_vars =>
       \/ UNCHANGED vars
       \/ \E c \in Callers : Affects(c)
       \/ \E t \in Threads : ThreadStops(t)
<1> SUFFICES ASSUME TypeOK, TargetsAreAgents, Next
             PROVE  (\E c \in Callers : Affects(c)) \/ \E t \in Threads : ThreadStops(t)
  BY DEF IndInv
<1> USE DEF registry, manager, steady
<1>f. ASSUME NEW c \in Callers PROVE call[c] \in Frame
  BY DEF TypeOK
<1>2. ASSUME NEW c \in Callers, StartCall(c) PROVE Affects(c)
  <2>1. ASSUME NEW t \in Agents, NEW p \in Paths \union {NoPath}, NEW who \in Threads,
               Spawn(c, t, p, who)
        PROVE  Spawns(c)
    <3> DEFINE f == [NoCall EXCEPT !.target = t, !.from = who, !.path = p]
    <3>1. f.target = t /\ f.path = p /\ f.nick = NoNick /\ f.todo = {}
      BY <1>f, Locals
    <3>2. call' = [call EXCEPT ![c] = f] /\ pc' = [pc EXCEPT ![c] = "load"]
      BY <2>1 DEF Spawn, Call, Goto
    <3> HIDE DEF f
    <3>3. Others(c) /\ pc'[c] = "load" /\ call'[c] = f
      BY <3>2, OneCall
    <3> QED
      BY <2>1, <3>1, <3>3 DEF Spawn, Spawns, NamesKept
  <2>2. ASSUME NEW t \in Agents, NEW who \in Threads, Resume(c, t, who) PROVE Moves(c)
    <3> DEFINE f == [NoCall EXCEPT !.target = t, !.from = who]
    <3>1. f.target = t /\ f.path = NoPath /\ f.nick = NoNick /\ f.todo = {}
      BY <1>f, Locals
    <3>2. call' = [call EXCEPT ![c] = f] /\ pc' = [pc EXCEPT ![c] = "load"]
      BY <2>2 DEF Resume, Call, Goto
    <3> HIDE DEF f
    <3>3. Others(c) /\ pc'[c] = "load" /\ call'[c] = f
      BY <3>2, OneCall
    <3> QED
      BY <2>2, <3>1, <3>3 DEF Resume, Moves, Starts, NamesKept
  <2>3. ASSUME NEW t \in Threads, SendToAgent(c, t) PROVE Moves(c)
    <3> DEFINE f == [NoCall EXCEPT !.target = t]
    <3>1. f.target = t /\ f.path = NoPath /\ f.nick = NoNick /\ f.todo = {}
      BY <1>f, Locals
    <3>2. call' = [call EXCEPT ![c] = f] /\ pc' = [pc EXCEPT ![c] = "send"]
      BY <2>3 DEF SendToAgent, Call, Goto
    <3> HIDE DEF f
    <3>3. Others(c) /\ pc'[c] = "send" /\ call'[c] = f
      BY <3>2, OneCall
    <3> QED
      BY <2>3, <3>1, <3>3 DEF SendToAgent, Moves, Starts, NamesKept
  <2>4. ASSUME NEW t \in Agents, CloseAgent(c, t) PROVE Moves(c)
    <3> DEFINE S == Descendants(t) \ {t}
               f == [NoCall EXCEPT !.target = t, !.todo = S]
    <3>s. S \subseteq Live
      BY DEF Descendants
    <3>2. call' = [call EXCEPT ![c] = f] /\ pc' = [pc EXCEPT ![c] = "close"]
      BY <2>4 DEF CloseAgent, Call, Goto
    <3> HIDE DEF S
    <3>1. f.target = t /\ f.path = NoPath /\ f.nick = NoNick /\ f.todo = S
      BY <1>f, Locals
    <3> HIDE DEF f
    <3>3. Others(c) /\ pc'[c] = "close" /\ call'[c] = f
      BY <3>2, OneCall
    <3> QED
      BY <2>4, <3>1, <3>3, <3>s DEF CloseAgent, Moves, Starts, NamesKept
  <2> QED
    BY <1>2, <2>1, <2>2, <2>3, <2>4 DEF StartCall, Affects
<1>3. ASSUME NEW c \in Callers, LoadCount(c) \/ CompareExchange(c) PROVE Moves(c)
  <2>1. ASSUME NEW n, NEW l, pc' = [pc EXCEPT ![c] = l],
               call' = [call EXCEPT ![c] = [call[c] EXCEPT !.seen = n]]
        PROVE  Others(c) /\ pc'[c] = l /\ Same(c)
    <3> DEFINE f == [call[c] EXCEPT !.seen = n]
    <3>1. /\ f.target = call[c].target /\ f.path = call[c].path /\ f.nick = call[c].nick
          /\ f.todo = call[c].todo
      BY <1>f, Locals
    <3>2. call' = [call EXCEPT ![c] = f]
      BY <2>1
    <3> HIDE DEF f
    <3>3. Others(c) /\ pc'[c] = l /\ call'[c] = f
      BY <2>1, <3>2, OneCall
    <3> QED
      BY <3>1, <3>3 DEF Same
  <2>2. CASE LoadCount(c)
    <3>1. /\ Others(c) /\ Same(c) /\ pc[c] = "load" /\ pc'[c] \in {"prepare", "cas"}
      BY <2>1, <2>2, SameCall DEF LoadCount, Goto, Call
    <3> QED
      BY <2>2, <3>1 DEF LoadCount, Moves, GoesOn, NamesKept
  <2>3. CASE CompareExchange(c)
    <3>1. pc[c] = "cas" /\ UNCHANGED <<agent, nickOf, used, resets, manager, steady>>
      BY <2>3 DEF CompareExchange
    <3>2. CASE Return(c)
      BY <3>1, <3>2, Leaves DEF Moves, Ends, NamesKept
    <3>3. CASE Call(c, [call[c] EXCEPT !.seen = 0]) /\ Goto(c, "prepare")
      <4>1. Others(c) /\ pc'[c] = "prepare" /\ Same(c)
        BY <2>1, <3>3 DEF Call, Goto
      <4> QED
        BY <3>1, <4>1 DEF Moves, GoesOn, NamesKept
    <3>4. CASE Call(c, [call[c] EXCEPT !.seen = total]) /\ UNCHANGED pc
      <4>1. pc' = [pc EXCEPT ![c] = "cas"]
        BY <3>1, <3>4 DEF TypeOK
      <4>2. Others(c) /\ pc'[c] = "cas" /\ Same(c)
        BY <2>1, <3>4, <4>1 DEF Call
      <4> QED
        BY <3>1, <4>2 DEF Moves, GoesOn, NamesKept
    <3> QED
      BY <2>3, <3>2, <3>3, <3>4 DEF CompareExchange
  <2> QED
    BY <1>3, <2>2, <2>3
<1>4. ASSUME NEW c \in Callers, RegisterRoot(c) PROVE Moves(c)
  <2>1. Others(c) /\ pc'[c] = "path" /\ Same(c)
    BY <1>4, SameCall DEF RegisterRoot, Goto
  <2>2. \A k \in Keys \ {RootPath} : agent'[k] = agent[k]
    BY <1>4 DEF RegisterRoot, TypeOK
  <2> QED
    BY <1>4, <2>1, <2>2 DEF RegisterRoot, Moves, GoesOn, NamesKept
<1>5. ASSUME NEW c \in Callers, ReservePath(c) PROVE Affects(c)
  <2>0. /\ pc[c] = "path" /\ UNCHANGED <<nickOf, used, resets, manager, steady>>
        /\ call[c].path \in Paths \union {NoPath}
    BY <1>5, <1>f, FrameFields DEF ReservePath
  <2>1. CASE call[c].path = NoPath /\ Goto(c, "nickname") /\ UNCHANGED <<agent, call>>
    <3>1. Others(c) /\ pc'[c] = "nickname" /\ Same(c)
      BY <2>1, SameCall DEF Goto
    <3> QED
      BY <2>0, <2>1, <3>1 DEF Affects, Moves, GoesOn, NamesKept
  <2>2. CASE /\ call[c].path # NoPath /\ agent[call[c].path] = Vacant
             /\ agent' = [agent EXCEPT ![call[c].path] = Reserved]
             /\ Goto(c, "nickname") /\ UNCHANGED call
    <3>1. Others(c) /\ pc'[c] = "nickname" /\ Same(c)
      BY <2>2, SameCall DEF Goto
    <3> QED
      BY <2>0, <2>2, <3>1 DEF Affects, TakesPath, NamesKept
  <2>3. CASE /\ Call(c, [call[c] EXCEPT !.path = NoPath]) /\ Goto(c, "drop")
             /\ UNCHANGED agent
    <3> DEFINE f == [call[c] EXCEPT !.path = NoPath]
    <3>1. /\ f.target = call[c].target /\ f.path = NoPath /\ f.nick = call[c].nick
          /\ f.todo = call[c].todo
      BY <1>f, Locals
    <3>2. call' = [call EXCEPT ![c] = f] /\ pc' = [pc EXCEPT ![c] = "drop"]
      BY <2>3 DEF Call, Goto
    <3> HIDE DEF f
    <3>3. Others(c) /\ pc'[c] = "drop" /\ call'[c] = f
      BY <3>2, OneCall
    <3> QED
      BY <2>0, <2>3, <3>1, <3>3 DEF Affects, Moves, GivesUp, NamesKept
  <2> QED
    BY <1>5, <2>1, <2>2, <2>3 DEF ReservePath
<1>6. ASSUME NEW c \in Callers, ReserveNickname(c) PROVE TakesName(c)
  <2>0. /\ pc[c] = "nickname" /\ call[c].target \in Agents
        /\ UNCHANGED <<agent, nickOf, manager, steady>>
        /\ Goto(c, IF stored[call[c].target] = NoNick THEN "create" ELSE "check")
        /\ stored[call[c].target] \in Nicks \union {NoNick}
    BY <1>6 DEF ReserveNickname, TypeOK, TargetsAreAgents, Spawning
  <2>1. PICK n \in Names \X {resets, resets + 1} \union {stored[call[c].target]} :
           /\ \/ /\ n = stored[call[c].target] /\ stored[call[c].target] # NoNick
                 /\ used' = used \union {n} /\ UNCHANGED resets
              \/ ReserveAgentNickname(n)
           /\ Call(c, [call[c] EXCEPT !.nick = n])
    BY <1>6 DEF ReserveNickname
  <2>2. /\ n \in Nicks
        /\ \/ n = stored[call[c].target] /\ used' = used \union {n} /\ resets' = resets
           \/ /\ n[2] = resets /\ n \notin used
              /\ used' = used \union {n} /\ resets' = resets
           \/ n[2] = resets + 1 /\ used' = {n} /\ resets' = resets + 1
    <3>1. CASE /\ n = stored[call[c].target] /\ n # NoNick
               /\ used' = used \union {n} /\ resets' = resets
      BY <2>0, <3>1
    <3>2. CASE ReserveAgentNickname(n)
      <4>1. PICK name \in Names :
               \/ /\ <<name, resets>> \notin used /\ n = <<name, resets>>
                  /\ used' = used \union {n} /\ resets' = resets
               \/ n = <<name, resets + 1>> /\ used' = {n} /\ resets' = resets + 1
        BY <3>2 DEF ReserveAgentNickname, Available
      <4>2. resets \in Nat /\ resets + 1 \in Nat
        BY DEF TypeOK
      <4> QED
        BY <4>1, <4>2 DEF Nicks
    <3> QED
      BY <2>1, <3>1, <3>2
  <2> DEFINE f == [call[c] EXCEPT !.nick = n]
             l == IF stored[call[c].target] = NoNick THEN "create" ELSE "check"
  <2>3. /\ f.target = call[c].target /\ f.path = call[c].path /\ f.nick = n
        /\ f.todo = call[c].todo
    BY <1>f, Locals
  <2>4. call' = [call EXCEPT ![c] = f] /\ pc' = [pc EXCEPT ![c] = l]
    BY <2>0, <2>1 DEF Call, Goto
  <2> HIDE DEF f
  <2>5. Others(c) /\ pc'[c] = l /\ call'[c] = f
    BY <2>4, OneCall
  <2> QED
    BY <2>0, <2>2, <2>3, <2>5 DEF TakesName
<1>7. ASSUME NEW c \in Callers, CheckResumed(c) PROVE Affects(c)
  <2>0. /\ pc[c] = "check" /\ UNCHANGED <<registry, parent, pathOf, stored, fresh, known, steady>>
        /\ UNCHANGED call
    BY <1>7 DEF CheckResumed
  <2>1. CASE Goto(c, "recommit") /\ UNCHANGED threads
    <3>1. Others(c) /\ pc'[c] = "recommit" /\ Same(c)
      BY <2>0, <2>1, SameCall DEF Goto
    <3> QED
      BY <2>0, <2>1, <3>1 DEF Affects, Moves, GoesOn, NamesKept
  <2>2. CASE /\ threads' = [threads EXCEPT ![call[c].target] = "absent"]
             /\ Goto(c, "create")
    <3>1. Others(c) /\ pc'[c] = "create" /\ Same(c)
      BY <2>0, <2>2, SameCall DEF Goto
    <3>2. \A t \in Threads : threads[t] = "absent" => threads'[t] = "absent"
      BY <2>2 DEF TypeOK
    <3> QED
      BY <2>0, <3>1, <3>2 DEF Affects, StopsThread, NamesKept
  <2>3. CASE Goto(c, "drop") /\ UNCHANGED threads
    <3>1. Others(c) /\ pc'[c] = "drop" /\ Same(c)
      BY <2>0, <2>3, SameCall DEF Goto
    <3> QED
      BY <2>0, <2>3, <3>1 DEF Affects, Moves, GoesOn, NamesKept
  <2> QED
    BY <1>7, <2>1, <2>2, <2>3 DEF CheckResumed
<1>8. ASSUME NEW c \in Callers, CreateThread(c) PROVE Affects(c)
  <2>0. pc[c] = "create" /\ UNCHANGED <<registry, fresh, known, call, steady>>
    BY <1>8 DEF CreateThread
  <2>1. CASE /\ threads[call[c].target] = "absent"
             /\ threads' = [threads EXCEPT ![call[c].target] = "running"]
             /\ pathOf'  = [pathOf EXCEPT ![call[c].target] = call[c].path]
             /\ stored'  = [stored EXCEPT ![call[c].target] = call[c].nick]
             /\ Goto(c, IF stored[call[c].target] = NoNick THEN "commit" ELSE "effects")
    <3>1. /\ Others(c) /\ Same(c)
          /\ pc'[c] = IF stored[call[c].target] = NoNick THEN "commit" ELSE "effects"
      BY <2>0, <2>1, SameCall DEF Goto
    <3> QED
      BY <2>0, <2>1, <3>1 DEF Affects, Creates, NamesKept
  <2>2. CASE Goto(c, "drop") /\ UNCHANGED <<threads, parent, pathOf, stored>>
    <3>1. Others(c) /\ pc'[c] = "drop" /\ Same(c)
      BY <2>0, <2>2, SameCall DEF Goto
    <3> QED
      BY <2>0, <2>2, <3>1 DEF Affects, Moves, GoesOn, NamesKept
  <2> QED
    BY <1>8, <2>1, <2>2 DEF CreateThread
<1>9. ASSUME NEW c \in Callers, ResumeEffects(c) PROVE Moves(c)
  <2>1. Others(c) /\ pc'[c] = "recommit" /\ Same(c)
    BY <1>9, SameCall DEF ResumeEffects, Goto
  <2> QED
    BY <1>9, <2>1 DEF ResumeEffects, Moves, GoesOn, NamesKept
<1>10. ASSUME NEW c \in Callers, Commit(c) PROVE Commits(c)
  <2>0. /\ agent' = [agent EXCEPT ![FiledAt(c)] = call[c].target]
        /\ nickOf' = [nickOf EXCEPT ![FiledAt(c)] = call[c].nick]
        /\ used' = used \union {call[c].nick} /\ resets' = resets
        /\ known' = known \union {call[c].target}
        /\ UNCHANGED <<threads, pathOf, stored, fresh, resumes>>
    BY <1>10 DEF Commit, FiledAt
  <2>1. CASE /\ pc[c] = "commit" /\ Goto(c, "send")
             /\ Call(c, [NoCall EXCEPT !.target = call[c].target])
    <3> DEFINE t == call[c].target
               f == [NoCall EXCEPT !.target = t]
    <3>2. call' = [call EXCEPT ![c] = f] /\ pc' = [pc EXCEPT ![c] = "send"]
      BY <2>1 DEF Call, Goto
    <3> HIDE DEF t
    <3>1. f.target = t /\ f.path = NoPath /\ f.nick = NoNick /\ f.todo = {}
      BY <1>f, Locals
    <3> HIDE DEF f
    <3>3. Others(c) /\ pc'[c] = "send" /\ call'[c] = f
      BY <3>2, OneCall
    <3> QED
      BY <2>0, <2>1, <3>1, <3>3 DEF Commits, t
  <2>2. CASE pc[c] = "recommit" /\ Return(c)
    BY <2>0, <2>2, Leaves DEF Commits, Cleared
  <2> QED
    BY <1>10, <2>1, <2>2 DEF Commit
<1>11. ASSUME NEW c \in Callers, SendInput(c) PROVE Moves(c)
  <2>0. pc[c] = "send" /\ UNCHANGED <<registry, manager, steady>>
    BY <1>11 DEF SendInput
  <2>1. CASE Goto(c, "remove") /\ UNCHANGED call
    <3>1. Others(c) /\ pc'[c] = "remove" /\ Same(c)
      BY <2>1, SameCall DEF Goto
    <3> QED
      BY <2>0, <3>1 DEF Moves, GoesOn, NamesKept
  <2>2. CASE Return(c)
    BY <2>0, <2>2, Leaves DEF Moves, Ends, NamesKept
  <2> QED
    BY <1>11, <2>1, <2>2 DEF SendInput
<1>12. ASSUME NEW c \in Callers, Cancel(c) PROVE Moves(c)
  <2>0. UNCHANGED <<registry, manager, steady>>
    BY <1>12 DEF Cancel
  <2>1. CASE pc[c] = "prepare" /\ Goto(c, "drop") /\ Call(c, NoCall)
    <3>1. Others(c) /\ pc'[c] = "drop" /\ call'[c] = NoCall
      BY <2>1, OneCall DEF Goto, Call
    <3>2. Cleared(c)
      BY <1>f, <3>1, Locals DEF Cleared
    <3> QED
      BY <2>0, <2>1, <3>1, <3>2 DEF Moves, Ends, NamesKept
  <2>2. CASE pc[c] \in {"check", "create", "effects"} /\ Goto(c, "drop") /\ UNCHANGED call
    <3>1. Others(c) /\ pc'[c] = "drop" /\ Same(c)
      BY <2>2, SameCall DEF Goto
    <3> QED
      BY <2>0, <2>2, <3>1 DEF Moves, GoesOn, NamesKept
  <2>3. CASE pc[c] \in {"send", "close", "shutdown", "remove"} /\ Return(c)
    BY <2>0, <2>3, Leaves DEF Moves, Ends, NamesKept
  <2> QED
    BY <1>12, <2>1, <2>2, <2>3 DEF Cancel
<1>13. ASSUME NEW c \in Callers, ReleaseReservedPath(c) PROVE Affects(c)
  <2>0. /\ pc[c] = "drop" /\ UNCHANGED <<nickOf, used, resets, manager, steady>>
        /\ call[c].path \in Paths \union {NoPath}
    BY <1>13, <1>f, FrameFields DEF ReleaseReservedPath
  <2>1. Others(c) /\ pc'[c] = "uncount" /\ call'[c] = NoCall
    BY <1>13, OneCall DEF ReleaseReservedPath, Goto, Call
  <2>2. Cleared(c)
    BY <1>f, <2>1, Locals DEF Cleared
  <2>3. CASE call[c].path # NoPath /\ agent[call[c].path] = Reserved
    <3>1. agent' = [agent EXCEPT ![call[c].path] = Vacant]
      BY <1>13, <2>3 DEF ReleaseReservedPath
    <3> QED
      BY <2>0, <2>1, <2>2, <2>3, <3>1 DEF Affects, FreesPath, NamesKept
  <2>4. CASE ~(call[c].path # NoPath /\ agent[call[c].path] = Reserved)
    <3>1. agent' = agent
      BY <1>13, <2>4 DEF ReleaseReservedPath
    <3> QED
      BY <2>0, <2>1, <2>2, <3>1 DEF Affects, Moves, Ends, NamesKept
  <2> QED
    BY <2>3, <2>4
<1>14. ASSUME NEW c \in Callers, DropSlot(c) PROVE Moves(c)
  BY <1>14, Leaves DEF DropSlot, Moves, Ends, NamesKept
<1>15. ASSUME NEW c \in Callers, Shutdown(c) PROVE Affects(c)
  <2>0. /\ pc[c] \in {"close", "shutdown"}
        /\ UNCHANGED <<registry, parent, pathOf, stored, fresh, known, steady>>
    BY <1>15 DEF Shutdown
  <2>1. CASE /\ threads' = [threads EXCEPT ![call[c].target] =
                               IF threads[call[c].target] = "absent" THEN "absent" ELSE "stopped"]
             /\ Goto(c, "remove") /\ UNCHANGED call
    <3>1. Others(c) /\ pc'[c] = "remove" /\ Same(c)
      BY <2>1, SameCall DEF Goto
    <3>2. \A t \in Threads : threads[t] = "absent" => threads'[t] = "absent"
      BY <2>1 DEF TypeOK
    <3> QED
      BY <2>0, <3>1, <3>2 DEF Affects, StopsThread, NamesKept
  <2>2. CASE NextShutdown(c) /\ pc[c] = "close" /\ UNCHANGED threads
    BY <2>0, <2>2, Leaves DEF Affects, Moves, Ends, TurnsTo, NamesKept
  <2>3. CASE Return(c) /\ UNCHANGED threads
    BY <2>0, <2>3, Leaves DEF Affects, Moves, Ends, NamesKept
  <2> QED
    BY <1>15, <2>1, <2>2, <2>3 DEF Shutdown
<1>16. ASSUME NEW c \in Callers, RemoveThread(c) PROVE Affects(c)
  <2>1. Others(c) /\ pc'[c] = "release" /\ Same(c)
    BY <1>16, SameCall DEF RemoveThread, Goto
  <2>2. /\ \A t \in Threads : threads[t] = "absent" => threads'[t] = "absent"
        /\ threads'[call[c].target] = "absent"
    BY <1>16, <1>f, FrameFields DEF RemoveThread, TypeOK
  <2> QED
    BY <1>16, <2>1, <2>2 DEF RemoveThread, Affects, StopsThread, NamesKept
<1>17. ASSUME NEW c \in Callers, ReleaseEntry(c) PROVE Affects(c)
  <2>0. pc[c] = "release" /\ UNCHANGED <<nickOf, used, resets, manager, steady>>
    BY <1>17 DEF ReleaseEntry
  <2>1. ASSUME NEW k \in Keys \ {RootPath}, agent[k] = call[c].target,
               agent' = [agent EXCEPT ![k] = Vacant],
               Goto(c, "release_count"), UNCHANGED call
        PROVE  Affects(c)
    <3>1. Others(c) /\ pc'[c] = "release_count" /\ Same(c)
      BY <2>1, SameCall DEF Goto
    <3> QED
      BY <2>0, <2>1, <3>1 DEF Affects, Unfiles, NamesKept
  <2>2. CASE NextShutdown(c) /\ \A k \in Keys \ {RootPath} : agent'[k] = agent[k]
    BY <2>0, <2>2, Leaves DEF Affects, Moves, Ends, TurnsTo, NamesKept
  <2> QED
    BY <1>17, <2>1, <2>2 DEF ReleaseEntry, TypeOK
<1>18. ASSUME NEW c \in Callers, ReleaseSlot(c) PROVE Moves(c)
  BY <1>18, Leaves DEF ReleaseSlot, Moves, Ends, TurnsTo, NamesKept
<1>19. ASSUME NEW c \in Callers,
              StartCall(c) \/ Reserve(c) \/ Start(c) \/ Cancel(c) \/ GiveBack(c) \/ Stop(c)
       PROVE  Affects(c)
  <2>1. CASE StartCall(c) \/ Reserve(c)
    BY <1>2, <1>3, <1>4, <1>5, <1>6, <2>1 DEF Reserve, Affects
  <2>2. CASE Start(c) \/ Cancel(c)
    BY <1>7, <1>8, <1>9, <1>10, <1>11, <1>12, <2>2 DEF Start, Affects
  <2>3. CASE GiveBack(c) \/ Stop(c)
    BY <1>13, <1>14, <1>15, <1>16, <1>17, <1>18, <2>3 DEF GiveBack, Stop, Affects
  <2> QED
    BY <1>19, <2>1, <2>2, <2>3
<1> QED
  BY <1>19 DEF Next

----------------------------------------------------------------------------
(* Agents and the calls that work on them *)

\* An agent is known only to the call that spawns it until it is committed: the id of its
\* thread is new, and it can be resumed, messaged or closed only once it is in the tree.
LEMMA SpawnersStep ==
    ASSUME TypeOK, TypeOK', TargetsAreAgents, Unborn, Spawners, NicksBorne,
           NEW c \in Callers, Affects(c)
    PROVE  Unborn' /\ Spawners'
<1> USE NamesApart DEF Threads, Born, Before, Spawning, Resuming
<1>t. /\ \A b \in Callers : call[b].target \in Threads /\ call'[b].target \in Threads
      /\ \A b \in Callers : call[b].todo \subseteq Agents
  <2>1. \A b \in Callers : call[b] \in Frame /\ call'[b] \in Frame
    BY DEF TypeOK
  <2> QED
    BY <2>1, FrameFields
<1>l. \A t \in Live : t \in Agents /\ stored[t] # NoNick
  BY DEF Live, Unborn
<1>k. \A t \in known : t \in Agents /\ stored[t] # NoNick
  BY DEF TypeOK, Unborn
<1>a. fresh \subseteq Agents /\ known \subseteq Agents
  BY DEF TypeOK
<1>e. ASSUME Others(c), Cleared(c), pc'[c] \in {"idle", "drop", "uncount"},
             UNCHANGED <<threads, pathOf, stored, fresh, known>>
      PROVE  Unborn' /\ Spawners'
  <2>1. Unborn'
    BY <1>a, <1>e DEF Others, Cleared, Unborn
  <2>2. Spawners'
    BY <1>a, <1>e DEF Others, Cleared, Spawners
  <2> QED
    BY <2>1, <2>2
\* A call that goes on with its agent, which it resumes only when that is known.
<1>g. ASSUME Others(c), UNCHANGED <<stored, fresh, known>>,
             \A t \in Agents : threads[t] = "absent" => threads'[t] = "absent",
             call'[c].target = call[c].target, call'[c].path \in {call[c].path, NoPath},
             call'[c].todo = call[c].todo, pc'[c] # "commit",
             pc'[c] \in Spawning => pc[c] \in Spawning,
             pc'[c] \in Before => pc[c] \in Before \union Resuming,
             pc'[c] \in Resuming => call[c].target \in known,
             pc[c] \in Before /\ call[c].target \notin known => pc'[c] \in Before \union {"drop"},
             pc[c] # "drop"
      PROVE  Unborn' /\ Spawners'
  <2>1. Unborn'
    <3>1. ASSUME NEW t \in Agents, stored[t] = NoNick
          PROVE  /\ threads'[t] = "absent" /\ t \notin known
                 /\ \A b \in Callers : t \notin call'[b].todo
                 /\ \A b \in Callers : call'[b].target = t => pc'[b] \in Before \union {"drop"}
      <4>1. /\ threads[t] = "absent" /\ t \notin known
            /\ \A b \in Callers : t \notin call[b].todo
            /\ \A b \in Callers : call[b].target = t => pc[b] \in Before \union {"drop"}
        BY <3>1 DEF Unborn
      <4> QED
        BY <1>g, <4>1 DEF Others
    <3>2. \A t \in fresh : stored[t] = NoNick /\ \A b \in Callers : call'[b].target # t
      BY <1>g DEF Unborn, Others
    <3> QED
      BY <1>g, <3>1, <3>2 DEF Unborn
  <2>2. Spawners'
    <3>1. ASSUME NEW b \in Callers
          PROVE  /\ pc'[b] \in Before =>
                       (stored[call'[b].target] # NoNick <=> call'[b].target \in known)
                 /\ pc'[b] \in Resuming => call'[b].target \in known
                 /\ pc'[b] = "commit" =>
                       stored[call'[b].target] # NoNick /\ call'[b].target \notin known
                 /\ pc'[b] \in Spawning /\ call'[b].target \in known => call'[b].path = NoPath
      <4>1. CASE b = c
        BY <1>g, <1>k, <4>1 DEF Spawners
      <4>2. CASE b # c
        BY <1>g, <4>2 DEF Spawners, Others
      <4> QED
        BY <4>1, <4>2
    <3>2. \A b \in Callers : /\ call'[b].target = call[b].target
                             /\ pc'[b] \in Spawning => pc[b] \in Spawning
      BY <1>g DEF Others
    <3>3. ASSUME NEW b \in Callers, NEW d \in Callers, pc'[b] \in Spawning,
                 pc'[d] \in Spawning, call'[b].target = call'[d].target,
                 call'[b].target \notin known
          PROVE  b = d
      <4>1. /\ pc[b] \in Spawning /\ pc[d] \in Spawning
            /\ call[b].target = call[d].target /\ call[b].target \notin known
        BY <3>2, <3>3
      <4> QED
        BY <4>1 DEF Spawners
    <3> QED
      BY <1>g, <3>1, <3>3 DEF Spawners
  <2> QED
    BY <2>1, <2>2
<1>1. CASE Moves(c)
  <2>0. Others(c) /\ UNCHANGED <<threads, pathOf, stored, fresh, known>>
    BY <1>1 DEF Moves, manager
  <2>1. CASE GoesOn(c)
    <3>1. /\ Same(c)
          /\ \/ pc[c] \in Before /\ pc'[c] \in Before \union {"drop"}
             \/ pc[c] \in Resuming /\ pc'[c] \in {"recommit", "drop"}
             \/ pc[c] = "send" /\ pc'[c] = "remove"
      BY <2>1 DEF GoesOn
    <3>2. pc[c] \in Resuming => call[c].target \in known
      BY DEF Spawners
    <3> QED
      BY <1>g, <2>0, <3>1, <3>2 DEF Same
  <2>2. CASE GivesUp(c)
    BY <1>g, <2>0, <2>2 DEF GivesUp
  <2>3. CASE Ends(c)
    BY <1>e, <2>0, <2>3 DEF Ends
  <2>4. CASE TurnsTo(c)
    <3>1. /\ pc'[c] = "shutdown" /\ call'[c].todo \subseteq call[c].todo
          /\ call'[c].target \in Agents /\ stored[call'[c].target] # NoNick
      BY <1>t, <2>4 DEF TurnsTo, Unborn
    <3>2. Unborn'
      BY <1>a, <2>0, <3>1 DEF Others, Unborn
    <3>3. Spawners'
      BY <1>a, <2>0, <3>1 DEF Others, Spawners
    <3> QED
      BY <3>2, <3>3
  <2>5. CASE Starts(c)
    <3>1. /\ pc'[c] = "load" => call'[c].target \in known
          /\ pc'[c] \in {"load", "send", "close"} /\ call'[c].path = NoPath
          /\ call'[c].target \in known \union Live \union {RootThread}
          /\ call'[c].todo \subseteq Live
      BY <2>5 DEF Starts
    <3>2. Unborn'
      BY <1>a, <1>k, <1>l, <2>0, <3>1 DEF Others, Unborn
    <3>3. Spawners'
      BY <1>a, <1>k, <1>l, <2>0, <3>1 DEF Others, Spawners
    <3> QED
      BY <3>2, <3>3
  <2> QED
    BY <1>1, <2>1, <2>2, <2>3, <2>4, <2>5 DEF Moves
<1>2. CASE Spawns(c)
  <2> DEFINE u == call'[c].target
  <2>1. /\ Others(c) /\ pc'[c] = "load" /\ u \in fresh /\ fresh' = fresh \ {u}
        /\ call'[c].todo = {} /\ UNCHANGED <<threads, stored, known>>
    BY <1>2 DEF Spawns
  <2>2. /\ u \in Agents /\ stored[u] = NoNick /\ u \notin known
        /\ \A b \in Callers : call[b].target # u
    BY <1>a, <2>1 DEF Unborn
  <2>3. Unborn'
    BY <1>a, <2>1, <2>2 DEF Others, Unborn
  <2>4. Spawners'
    BY <2>1, <2>2 DEF Others, Spawners
  <2> QED
    BY <2>3, <2>4
<1>3. CASE TakesPath(c)
  BY <1>3, <1>g DEF TakesPath, Same, manager
<1>4. CASE FreesPath(c)
  BY <1>4, <1>e DEF FreesPath, manager
<1>5. CASE TakesName(c)
  <2>1. /\ Others(c) /\ UNCHANGED <<threads, stored, fresh, known>> /\ pc[c] = "nickname"
        /\ call'[c].target = call[c].target /\ call'[c].path = call[c].path
        /\ call'[c].todo = call[c].todo
        /\ pc'[c] = "create" \/ (pc'[c] = "check" /\ stored[call[c].target] # NoNick)
    BY <1>5 DEF TakesName, manager
  <2>2. stored[call[c].target] # NoNick <=> call[c].target \in known
    BY <2>1 DEF Spawners
  <2> QED
    BY <1>g, <2>1, <2>2
<1>6. CASE StopsThread(c)
  <2>1. pc[c] = "check" => call[c].target \in known
    BY DEF Spawners
  <2> QED
    BY <1>6, <1>g, <2>1 DEF StopsThread, Same
<1>7. CASE Creates(c)
  <2>1. call[c].target \in Agents /\ call[c].nick # NoNick
    BY <1>7 DEF Creates, TargetsAreAgents, NicksBorne
  <2> QED
    <3>1. /\ stored'[call[c].target] # NoNick /\ threads[call[c].target] = "absent"
          /\ \A t \in Agents \ {call[c].target} :
                stored'[t] = stored[t] /\ threads'[t] = threads[t]
          /\ Others(c) /\ Same(c) /\ UNCHANGED <<fresh, known>>
          /\ pc[c] = "create"
          /\ \/ stored[call[c].target] = NoNick /\ pc'[c] = "commit"
             \/ stored[call[c].target] # NoNick /\ pc'[c] = "effects"
      BY <1>7, <2>1 DEF Creates, TypeOK
    <3>2. Unborn'
      BY <1>a, <1>t, <2>1, <3>1 DEF Others, Same, Unborn
    <3>3. Spawners'
      <4>1. ASSUME NEW d \in Callers, pc[d] \in Spawning, call[d].target = call[c].target,
                   stored[call[c].target] = NoNick
            PROVE  c = d
        <5>1. call[c].target \notin known /\ pc[c] \in Spawning
          BY <3>1, <4>1 DEF Spawners
        <5> QED
          BY <4>1, <5>1 DEF Spawners
      <4>2. ASSUME NEW d \in Callers, d # c
            PROVE  /\ pc[d] \in Before =>
                         (stored'[call[d].target] # NoNick <=> call[d].target \in known)
                   /\ pc[d] = "commit" => stored'[call[d].target] # NoNick
        <5>1. CASE call[d].target = call[c].target
          BY <3>1, <4>1, <4>2, <5>1 DEF Spawners
        <5>2. CASE call[d].target # call[c].target
          <6>1. pc[d] \in Spawning => stored'[call[d].target] = stored[call[d].target]
            BY <3>1, <5>2 DEF TargetsAreAgents
          <6> QED
            BY <6>1 DEF Spawners
        <5> QED
          BY <5>1, <5>2
      <4>3. /\ \A d \in Callers \ {c} : pc'[d] = pc[d] /\ call'[d] = call[d]
            /\ call'[c].target = call[c].target /\ call'[c].path = call[c].path
        BY <3>1 DEF Others, Same
      <4>4. stored[call[c].target] # NoNick <=> call[c].target \in known
        BY <3>1 DEF Spawners
      <4> QED
        BY <3>1, <4>2, <4>3, <4>4 DEF Spawners
    <3> QED
      BY <3>2, <3>3
<1>8. CASE Commits(c)
  <2> DEFINE u == call[c].target
  <2>1. /\ Others(c) /\ UNCHANGED <<threads, stored, fresh>> /\ known' = known \union {u}
        /\ pc[c] \in {"commit", "recommit"} /\ call'[c].todo = {}
        /\ \/ pc'[c] = "send" /\ call'[c].target = u
           \/ pc'[c] = "idle" /\ call'[c].target = RootThread
    BY <1>8 DEF Commits
  <2>2. u \in Agents /\ stored[u] # NoNick /\ pc[c] \in Spawning
    BY <1>k, <2>1 DEF TargetsAreAgents, Spawners
  <2>3. \A b \in Callers \ {c} : pc[b] \in Spawning /\ call[b].target = u => u \in known
    BY <2>2 DEF Spawners
  <2>4. Unborn'
    BY <1>a, <2>1, <2>2 DEF Others, Unborn
  <2>5. Spawners'
    <3>1. \A b \in Callers : pc'[b] \in Spawning =>
             /\ b # c /\ pc'[b] = pc[b] /\ call'[b] = call[b]
             /\ call[b].target \in known' <=> call[b].target \in known
      BY <2>1, <2>3 DEF Others
    <3>2. ASSUME NEW b \in Callers, pc'[b] \in Spawning
          PROVE  /\ pc'[b] \in Before =>
                       (stored'[call'[b].target] # NoNick <=> call'[b].target \in known')
                 /\ pc'[b] \in Resuming => call'[b].target \in known'
                 /\ pc'[b] = "commit" =>
                       stored'[call'[b].target] # NoNick /\ call'[b].target \notin known'
                 /\ call'[b].target \in known' => call'[b].path = NoPath
      BY <2>1, <3>1, <3>2 DEF Spawners
    <3>3. \A b, d \in Callers :
             /\ pc'[b] \in Spawning /\ pc'[d] \in Spawning
             /\ call'[b].target = call'[d].target /\ call'[b].target \notin known'
             => b = d
      BY <3>1 DEF Spawners
    <3> QED
      BY <3>2, <3>3 DEF Spawners
  <2> QED
    BY <2>4, <2>5
<1>9. CASE Unfiles(c)
  BY <1>9, <1>g DEF Unfiles, Same, manager
<1> QED
  BY <1>1, <1>2, <1>3, <1>4, <1>5, <1>6, <1>7, <1>8, <1>9 DEF Affects

----------------------------------------------------------------------------
(* Paths *)

\* The path of an agent is reserved for its call until it is filed, and filed until the
\* thread is gone: a path is free only when no thread has it.
LEMMA PathsStep ==
    ASSUME TypeOK, TypeOK', TargetsAreAgents, Unborn, Spawners, PathsHeld,
           NEW c \in Callers, Affects(c)
    PROVE  PathsHeld'
<1> USE NamesApart DEF Threads, Live, Holder, Holds
<1>t. /\ Paths \subseteq Keys /\ agent \in [Keys -> Threads \union {Vacant, Reserved}]
      /\ \A b \in Callers : call[b].target \in Threads
      /\ \A b \in Callers : call[b].path \in Paths \union {NoPath}
      /\ pathOf \in [Agents -> Paths \union {NoPath}]
  <2>1. \A b \in Callers : call[b] \in Frame
    BY DEF TypeOK
  <2> QED
    BY <2>1, FrameFields DEF TypeOK, Keys
\* A step that leaves the paths of the tree and of the threads, and keeps no path for c.
<1>k. ASSUME Others(c), \A p \in Paths : agent'[p] = agent[p], UNCHANGED pathOf,
             pc[c] # "commit", pc'[c] # "commit",
             \A t \in Agents : threads[t] = "absent" => threads'[t] = "absent",
             pc'[c] = "release" => threads'[call'[c].target] = "absent",
             \A p \in Paths : Holder(c, p)' => Holder(c, p)
      PROVE  PathsHeld'
  <2>1. \A b \in Callers, p \in Paths : Holder(b, p)' => Holder(b, p)
    BY <1>k DEF Others
  <2>2. \A t \in Live' : t \in Live
    BY <1>k
  <2> HIDE DEF Holder
  <2>3. \A b \in Callers, p \in Paths : Holder(b, p)' => agent'[p] = Reserved
    BY <1>k, <2>1 DEF PathsHeld
  <2>4. \A b, d \in Callers, p \in Paths : Holder(b, p)' /\ Holder(d, p)' => b = d
    BY <2>1 DEF PathsHeld
  <2>5. ASSUME NEW t \in Live', pathOf'[t] # NoPath
        PROVE  \/ agent'[pathOf'[t]] = t
               \/ \E b \in Callers :
                     pc'[b] = "commit" /\ call'[b].target = t /\ call'[b].path = pathOf'[t]
    <3>1. t \in Live /\ pathOf[t] # NoPath /\ pathOf[t] \in Paths
      BY <1>k, <1>t, <2>2, <2>5
    <3>2. CASE agent[pathOf[t]] = t
      BY <1>k, <3>1, <3>2
    <3>3. CASE \E b \in Callers :
                  pc[b] = "commit" /\ call[b].target = t /\ call[b].path = pathOf[t]
      BY <1>k, <3>3 DEF Others
    <3> QED
      BY <3>1, <3>2, <3>3 DEF PathsHeld
  <2>6. ASSUME NEW b \in Callers, pc'[b] = "release", call'[b].target \in Live'
        PROVE  pathOf'[call'[b].target] = NoPath
    <3>1. CASE b = c
      BY <1>k, <2>6, <3>1
    <3>2. CASE b # c
      BY <1>k, <2>2, <2>6, <3>2 DEF Others, PathsHeld
    <3> QED
      BY <3>1, <3>2
  <2> QED
    BY <2>3, <2>4, <2>5, <2>6 DEF PathsHeld, Holder
<1>1. CASE Moves(c)
  <2>0. /\ Others(c) /\ UNCHANGED <<pathOf, threads>>
        /\ \A p \in Paths : agent'[p] = agent[p]
    BY <1>1 DEF Moves, manager, Keys
  <2>1. /\ pc[c] # "commit" /\ pc'[c] \notin {"commit", "release"}
        /\ \A p \in Paths : Holder(c, p)' => Holder(c, p)
    BY <1>1, <1>t DEF Moves, GoesOn, GivesUp, Ends, TurnsTo, Starts, Same, Cleared
  <2> QED
    BY <1>k, <2>0, <2>1
<1>2. CASE Spawns(c)
  BY <1>2, <1>k DEF Spawns
<1>5. CASE TakesName(c)
  BY <1>5, <1>k DEF TakesName, manager
<1>6. CASE StopsThread(c)
  BY <1>6, <1>k DEF StopsThread, Same
\* A step that changes one path of the tree, which is not an agent's before or after.
<1>p. ASSUME NEW q \in Paths, agent[q] \in {Vacant, Reserved}, agent'[q] \in {Vacant, Reserved},
             \A p \in Paths \ {q} : agent'[p] = agent[p], UNCHANGED <<pathOf, threads>>,
             Others(c), pc[c] # "commit", pc'[c] \notin {"commit", "release"}
      PROVE  /\ \A t \in Live' : pathOf'[t] # NoPath =>
                   \/ agent'[pathOf'[t]] = t
                   \/ \E b \in Callers : /\ pc'[b] = "commit" /\ call'[b].target = t
                                         /\ call'[b].path = pathOf'[t]
             /\ \A b \in Callers : pc'[b] = "release" /\ call'[b].target \in Live' =>
                   pathOf'[call'[b].target] = NoPath
  <2>1. ASSUME NEW t \in Live', pathOf'[t] # NoPath
        PROVE  \/ agent'[pathOf'[t]] = t
               \/ \E b \in Callers :
                     pc'[b] = "commit" /\ call'[b].target = t /\ call'[b].path = pathOf'[t]
    <3>1. t \in Live /\ pathOf[t] # NoPath /\ pathOf[t] \in Paths
      BY <1>p, <1>t, <2>1
    <3>2. CASE agent[pathOf[t]] = t
      BY <1>p, <3>1, <3>2
    <3>3. CASE \E b \in Callers :
                  pc[b] = "commit" /\ call[b].target = t /\ call[b].path = pathOf[t]
      BY <1>p, <3>3 DEF Others
    <3> QED
      BY <3>1, <3>2, <3>3 DEF PathsHeld
  <2>2. ASSUME NEW b \in Callers, pc'[b] = "release", call'[b].target \in Live'
        PROVE  pathOf'[call'[b].target] = NoPath
    BY <1>p, <2>2 DEF Others, PathsHeld
  <2> QED
    BY <2>1, <2>2
<1>3. CASE TakesPath(c)
  <2> DEFINE q == call[c].path
  <2>1. /\ q \in Paths /\ agent[q] = Vacant /\ agent'[q] = Reserved
        /\ \A p \in Paths \ {q} : agent'[p] = agent[p]
        /\ UNCHANGED <<pathOf, threads>> /\ Others(c) /\ pc[c] = "path" /\ pc'[c] = "nickname"
        /\ call'[c].path = q
    BY <1>3, <1>t DEF TakesPath, manager, Same
  <2>2. \A b \in Callers : ~Holder(b, q)
    BY <2>1 DEF PathsHeld
  <2>3. \A b \in Callers, p \in Paths : Holder(b, p)' => Holder(b, p) \/ (b = c /\ p = q)
    BY <2>1 DEF Others
  <2>4. \A b \in Callers, p \in Paths : Holder(b, p)' => agent'[p] = Reserved
    BY <2>1, <2>2, <2>3 DEF PathsHeld
  <2>5. \A b, d \in Callers, p \in Paths : Holder(b, p)' /\ Holder(d, p)' => b = d
    BY <2>2, <2>3 DEF PathsHeld
  <2> QED
    BY <1>p, <2>1, <2>4, <2>5 DEF PathsHeld
<1>4. CASE FreesPath(c)
  <2> DEFINE q == call[c].path
  <2>1. /\ q \in Paths /\ agent[q] = Reserved /\ agent'[q] = Vacant
        /\ \A p \in Paths \ {q} : agent'[p] = agent[p]
        /\ UNCHANGED <<pathOf, threads>> /\ Others(c) /\ pc[c] = "drop" /\ pc'[c] = "uncount"
    BY <1>4, <1>t DEF FreesPath, manager
  <2>2. Holder(c, q)
    BY <2>1
  <2>3. \A b \in Callers, p \in Paths : Holder(b, p)' => Holder(b, p) /\ b # c
    BY <2>1 DEF Others
  <2>4. \A b \in Callers, p \in Paths : Holder(b, p)' => agent'[p] = Reserved
    BY <2>1, <2>2, <2>3 DEF PathsHeld
  <2>5. \A b, d \in Callers, p \in Paths : Holder(b, p)' /\ Holder(d, p)' => b = d
    BY <2>3 DEF PathsHeld
  <2> QED
    BY <1>p, <2>1, <2>4, <2>5 DEF PathsHeld
<1>7. CASE Creates(c)
  <2> DEFINE u == call[c].target
  <2>0. /\ u \in Agents /\ threads[u] = "absent" /\ Others(c) /\ Same(c) /\ pc[c] = "create"
        /\ \A t \in Agents \ {u} : threads'[t] = threads[t] /\ pathOf'[t] = pathOf[t]
        /\ pathOf'[u] = call[c].path /\ UNCHANGED agent
        /\ pc'[c] \in {"commit", "effects"}
        /\ call[c].path # NoPath => pc'[c] = "commit"
    <3>1. /\ u \in Agents /\ threads[u] = "absent" /\ Others(c) /\ Same(c) /\ pc[c] = "create"
          /\ \A t \in Agents \ {u} : threads'[t] = threads[t] /\ pathOf'[t] = pathOf[t]
          /\ pathOf'[u] = call[c].path /\ UNCHANGED agent
          /\ pc'[c] \in {"commit", "effects"}
          /\ stored[u] = NoNick => pc'[c] = "commit"
      BY <1>7 DEF Creates, TypeOK, TargetsAreAgents, Spawning
    <3>2. call[c].path # NoPath => stored[u] = NoNick
      BY <3>1 DEF Spawners, Spawning, Before, Born
    <3> QED
      BY <3>1, <3>2
  <2>1. \A b \in Callers, p \in Paths : Holder(b, p)' => Holder(b, p)
    BY <2>0 DEF Others, Same
  <2>2. ASSUME NEW t \in Live', pathOf'[t] # NoPath
        PROVE  \/ agent'[pathOf'[t]] = t
               \/ \E b \in Callers :
                     pc'[b] = "commit" /\ call'[b].target = t /\ call'[b].path = pathOf'[t]
    <3>1. CASE t = u
      BY <2>0, <2>2, <3>1 DEF Same
    <3>2. CASE t # u
      <4>1. t \in Live /\ pathOf'[t] = pathOf[t] /\ pathOf[t] # NoPath
        BY <2>0, <2>2, <3>2
      <4>2. CASE agent[pathOf[t]] = t
        BY <2>0, <4>1, <4>2
      <4>3. CASE \E b \in Callers :
                    pc[b] = "commit" /\ call[b].target = t /\ call[b].path = pathOf[t]
        BY <2>0, <4>1, <4>3 DEF Others
      <4> QED
        BY <4>1, <4>2, <4>3 DEF PathsHeld
    <3> QED
      BY <3>1, <3>2
  <2>3. ASSUME NEW b \in Callers, pc'[b] = "release", call'[b].target \in Live'
        PROVE  pathOf'[call'[b].target] = NoPath
    <3>1. b # c /\ pc[b] = "release" /\ call'[b].target = call[b].target
      BY <2>0, <2>3 DEF Others
    <3>2. CASE call[b].target = u
      <4>1. stored[u] # NoNick
        BY <2>0, <3>1, <3>2 DEF Unborn, Born, Before
      <4>2. u \in known
        BY <2>0, <4>1 DEF Spawners, Before, Born
      <4> QED
        BY <2>0, <3>1, <3>2, <4>2 DEF Spawners, Spawning
    <3>3. CASE call[b].target # u
      BY <2>0, <2>3, <3>1, <3>3 DEF PathsHeld
    <3> QED
      BY <3>2, <3>3
  <2>4. \A b \in Callers, p \in Paths : Holder(b, p)' => agent'[p] = Reserved
    BY <2>0, <2>1 DEF PathsHeld
  <2>5. \A b, d \in Callers, p \in Paths : Holder(b, p)' /\ Holder(d, p)' => b = d
    BY <2>1 DEF PathsHeld
  <2> QED
    BY <2>2, <2>3, <2>4, <2>5 DEF PathsHeld
<1>8. CASE Commits(c)
  <2> DEFINE u == call[c].target
             q == call[c].path
  <2>0. /\ u \in Agents /\ Others(c) /\ UNCHANGED <<pathOf, threads>>
        /\ pc[c] \in {"commit", "recommit"} /\ pc'[c] \in {"send", "idle"}
        /\ agent' = [agent EXCEPT ![FiledAt(c)] = u]
        /\ pc[c] = "recommit" => q = NoPath
    BY <1>8 DEF Commits, TargetsAreAgents, Spawning, Spawners, Resuming
  <2>1. /\ q = NoPath => \A p \in Paths : agent'[p] = agent[p]
        /\ q # NoPath => /\ q \in Paths /\ agent'[q] = u /\ agent[q] = Reserved
                         /\ \A p \in Paths \ {q} : agent'[p] = agent[p]
    BY <1>t, <2>0 DEF FiledAt, PathsHeld
  <2>2. \A b \in Callers, p \in Paths : Holder(b, p)' => Holder(b, p) /\ b # c
    BY <2>0 DEF Others
  <2>3. \A b \in Callers, p \in Paths : Holder(b, p)' => p # q
    BY <2>0, <2>2 DEF PathsHeld
  <2>4. \A b \in Callers, p \in Paths : Holder(b, p)' => agent'[p] = Reserved
    BY <2>1, <2>2, <2>3 DEF PathsHeld
  <2>5. \A b, d \in Callers, p \in Paths : Holder(b, p)' /\ Holder(d, p)' => b = d
    BY <2>2 DEF PathsHeld
  <2>6. ASSUME NEW t \in Live', pathOf'[t] # NoPath
        PROVE  \/ agent'[pathOf'[t]] = t
               \/ \E b \in Callers :
                     pc'[b] = "commit" /\ call'[b].target = t /\ call'[b].path = pathOf'[t]
    <3>1. t \in Live /\ pathOf[t] # NoPath /\ pathOf[t] \in Paths /\ t \in Agents
      BY <1>t, <2>0, <2>6
    <3>2. CASE agent[pathOf[t]] = t
      BY <2>0, <2>1, <3>1, <3>2
    <3>3. CASE \E b \in Callers :
                  pc[b] = "commit" /\ call[b].target = t /\ call[b].path = pathOf[t]
      <4>1. PICK b \in Callers :
               pc[b] = "commit" /\ call[b].target = t /\ call[b].path = pathOf[t]
        BY <3>3
      <4>2. CASE b = c
        BY <2>0, <2>1, <3>1, <4>1, <4>2
      <4>3. CASE b # c
        BY <2>0, <4>1, <4>3 DEF Others
      <4> QED
        BY <4>2, <4>3
    <3> QED
      BY <3>1, <3>2, <3>3 DEF PathsHeld
  <2>7. ASSUME NEW b \in Callers, pc'[b] = "release", call'[b].target \in Live'
        PROVE  pathOf'[call'[b].target] = NoPath
    BY <2>0, <2>7 DEF Others, PathsHeld
  <2> QED
    BY <2>4, <2>5, <2>6, <2>7 DEF PathsHeld
<1>9. CASE Unfiles(c)
  <2>0. /\ Others(c) /\ Same(c) /\ UNCHANGED <<pathOf, threads>>
        /\ pc[c] = "release" /\ pc'[c] = "release_count"
    BY <1>9 DEF Unfiles, manager
  <2>1. PICK k \in Keys \ {RootPath} :
           agent[k] = call[c].target /\ agent' = [agent EXCEPT ![k] = Vacant]
    BY <1>9 DEF Unfiles
  <2>2. \A b \in Callers, p \in Paths : Holder(b, p)' => Holder(b, p)
    BY <2>0 DEF Others
  <2>3. \A b \in Callers, p \in Paths : Holder(b, p)' => agent'[p] = Reserved
    BY <1>t, <2>1, <2>2 DEF PathsHeld
  <2>4. \A b, d \in Callers, p \in Paths : Holder(b, p)' /\ Holder(d, p)' => b = d
    BY <2>2 DEF PathsHeld
  <2>5. ASSUME NEW t \in Live', pathOf'[t] # NoPath
        PROVE  \/ agent'[pathOf'[t]] = t
               \/ \E b \in Callers :
                     pc'[b] = "commit" /\ call'[b].target = t /\ call'[b].path = pathOf'[t]
    <3>1. t \in Live /\ pathOf[t] # NoPath /\ pathOf[t] \in Paths
      BY <1>t, <2>0, <2>5
    <3>2. CASE agent[pathOf[t]] = t
      <4>1. k # pathOf[t]
        BY <2>0, <2>1, <3>1, <3>2 DEF PathsHeld
      <4> QED
        BY <1>t, <2>0, <2>1, <3>1, <3>2, <4>1
    <3>3. CASE \E b \in Callers :
                  pc[b] = "commit" /\ call[b].target = t /\ call[b].path = pathOf[t]
      BY <2>0, <3>3 DEF Others
    <3> QED
      BY <3>1, <3>2, <3>3 DEF PathsHeld
  <2>6. ASSUME NEW b \in Callers, pc'[b] = "release", call'[b].target \in Live'
        PROVE  pathOf'[call'[b].target] = NoPath
    BY <2>0, <2>6 DEF Others, PathsHeld
  <2> QED
    BY <2>3, <2>4, <2>5, <2>6 DEF PathsHeld
<1> QED
  BY <1>1, <1>2, <1>3, <1>4, <1>5, <1>6, <1>7, <1>8, <1>9 DEF Affects

----------------------------------------------------------------------------
(* Nicknames *)

\* A nickname is taken when nobody bears it: its ordinal is the present one and it is not
\* in the pool of used names, or its ordinal is new.
LEMMA NicksStep ==
    ASSUME TypeOK, TypeOK', TargetsAreAgents, NicksBorne, NEW c \in Callers, Affects(c)
    PROVE  NicksBorne'
<1> USE NamesApart DEF Threads, Stopping
<1> DEFINE Named == {"create", "check", "effects", "commit", "recommit"}
           Unique == \A t, u \in Threads, n \in Nicks : Bears(t, n) /\ Bears(u, n) => t = u
           Pooled == \A t \in Threads, n \in Nicks : Bears(t, n) =>
                        n[2] <= resets /\ (n[2] = resets => n \in used)
<1>0. Unique /\ Pooled
  BY DEF NicksBorne
<1>t. /\ Paths \subseteq Keys /\ agent \in [Keys -> Threads \union {Vacant, Reserved}]
      /\ stored \in [Agents -> Nicks \union {NoNick}] /\ resets \in Nat
      /\ nickOf \in [Keys -> Nicks \union {NoNick}]
      /\ \A b \in Callers : call[b].target \in Threads /\ call'[b].target \in Threads
      /\ \A b \in Callers : call[b].nick \in Nicks \union {NoNick}
      /\ \A n \in Nicks : n[2] \in Nat
  <2>1. \A b \in Callers : call[b] \in Frame /\ call'[b] \in Frame
    BY DEF TypeOK
  <2>2. \A n \in Nicks : n[2] \in Nat
    BY DEF Nicks
  <2> QED
    BY <2>1, <2>2, FrameFields DEF TypeOK, Keys
\* The names of the tree and of the calls that have one, in a step of c.
<1>r. ASSUME \A k \in Registered' : k \in Registered /\ nickOf'[k] = nickOf[k], Others(c),
             pc'[c] \in Stopping => call'[c].nick = NoNick,
             pc'[c] \in Named => call'[c].nick # NoNick
      PROVE  /\ \A b \in Callers : pc'[b] \in Stopping => call'[b].nick = NoNick
             /\ \A b \in Callers : pc'[b] \in Named => call'[b].nick # NoNick
             /\ \A k \in Registered' : nickOf'[k] # NoNick
  BY <1>r DEF Others, NicksBorne
\* A step in which nobody bears a name it did not bear.
<1>k. ASSUME \A t \in Threads, n \in Nicks : Bears(t, n)' => Bears(t, n),
             used \subseteq used', resets' = resets
      PROVE  Unique' /\ Pooled'
  <2> HIDE DEF Bears
  <2>1. Unique'
    BY <1>0, <1>k
  <2>2. Pooled'
    BY <1>0, <1>k
  <2> QED
    BY <2>1, <2>2
\* A step that leaves the stored names and at most takes entries from the tree.
<1>s. ASSUME Others(c), UNCHANGED stored,
             \A k \in Registered' : /\ k \in Registered /\ agent'[k] = agent[k]
                                    /\ nickOf'[k] = nickOf[k],
             \/ call'[c].nick \notin Nicks
             \/ call'[c].target = call[c].target /\ call'[c].nick = call[c].nick
      PROVE  \A t \in Threads, n \in Nicks : Bears(t, n)' => Bears(t, n)
  <2> SUFFICES ASSUME NEW t \in Threads, NEW n \in Nicks, Bears(t, n)' PROVE Bears(t, n)
    OBVIOUS
  <2>1. CASE t \in Agents /\ stored'[t] = n
    BY <1>s, <2>1 DEF Bears
  <2>2. CASE \E b \in Callers : call'[b].target = t /\ call'[b].nick = n
    <3>1. PICK b \in Callers : call'[b].target = t /\ call'[b].nick = n
      BY <2>2
    <3>2. call[b].target = t /\ call[b].nick = n
      BY <1>s, <3>1 DEF Others
    <3> QED
      BY <3>2 DEF Bears
  <2>3. CASE \E k \in Registered' : agent'[k] = t /\ nickOf'[k] = n
    BY <1>s, <2>3 DEF Bears
  <2> QED
    BY <2>1, <2>2, <2>3 DEF Bears
<1> HIDE DEF Unique, Pooled, Named
<1>q. ASSUME Unique', Pooled',
             \A b \in Callers : pc'[b] \in Stopping => call'[b].nick = NoNick,
             \A b \in Callers : pc'[b] \in Named => call'[b].nick # NoNick,
             \A k \in Registered' : nickOf'[k] # NoNick
      PROVE  NicksBorne'
  BY <1>q DEF NicksBorne, Unique, Pooled, Named
<1>u. ASSUME Others(c), UNCHANGED <<stored, nickOf, used, resets>>,
             \A k \in Registered' : k \in Registered /\ agent'[k] = agent[k],
             \/ call'[c].nick = NoNick /\ pc'[c] \notin Named
             \/ /\ call'[c].target = call[c].target /\ call'[c].nick = call[c].nick
                /\ pc'[c] \in Stopping => pc[c] \in Stopping
                /\ pc'[c] \in Named => pc[c] \in Named
      PROVE  NicksBorne'
  <2>1. Unique' /\ Pooled'
    BY <1>k, <1>s, <1>u
  <2>2. /\ pc'[c] \in Stopping => call'[c].nick = NoNick
        /\ pc'[c] \in Named => call'[c].nick # NoNick
    BY <1>u DEF NicksBorne, Named
  <2> QED
    BY <1>q, <1>r, <1>u, <2>1, <2>2
<1>1. CASE Moves(c)
  <2>0. /\ Others(c) /\ UNCHANGED <<stored, nickOf, used, resets>>
        /\ \A k \in Registered' : k \in Registered /\ agent'[k] = agent[k]
    BY <1>1 DEF Moves, manager, NamesKept, Registered
  <2>1. CASE GoesOn(c) \/ GivesUp(c)
    BY <1>u, <2>0, <2>1 DEF GoesOn, GivesUp, Same, Named
  <2>2. CASE Ends(c) \/ Starts(c)
    BY <1>u, <2>0, <2>2 DEF Ends, Starts, Cleared, Named
  <2>3. CASE TurnsTo(c)
    <3>1. call'[c].nick = NoNick /\ pc'[c] \notin Named
      BY <2>3 DEF TurnsTo, NicksBorne, Named
    <3> QED
      BY <1>u, <2>0, <3>1
  <2> QED
    BY <1>1, <2>1, <2>2, <2>3 DEF Moves
<1>2. CASE Spawns(c)
  BY <1>2, <1>u DEF Spawns, NamesKept, Registered, Named
<1>3. CASE TakesPath(c)
  BY <1>3, <1>t, <1>u DEF TakesPath, Same, NamesKept, Registered, Named, manager
<1>4. CASE FreesPath(c)
  BY <1>4, <1>t, <1>u DEF FreesPath, Cleared, NamesKept, Registered, Named, manager
<1>6. CASE StopsThread(c)
  BY <1>6, <1>u DEF StopsThread, Same, NamesKept, Registered, Named
<1>9. CASE Unfiles(c)
  <2>1. PICK k \in Keys \ {RootPath} : agent' = [agent EXCEPT ![k] = Vacant]
    BY <1>9 DEF Unfiles
  <2>2. \A j \in Registered' : j \in Registered /\ agent'[j] = agent[j]
    BY <1>t, <2>1 DEF Registered
  <2> QED
    BY <1>9, <1>u, <2>2 DEF Unfiles, Same, NamesKept, Named, manager
<1>5. CASE TakesName(c)
  <2> DEFINE u == call[c].target
             m == call'[c].nick
  <2>0. /\ Others(c) /\ UNCHANGED <<agent, nickOf, stored>> /\ pc'[c] \in {"create", "check"}
        /\ call'[c].target = u /\ m \in Nicks /\ u \in Agents
        /\ \/ m = stored[u] /\ used' = used \union {m} /\ resets' = resets
           \/ /\ m[2] = resets /\ m \notin used
              /\ used' = used \union {m} /\ resets' = resets
           \/ m[2] = resets + 1 /\ used' = {m} /\ resets' = resets + 1
    BY <1>5 DEF TakesName, manager, TargetsAreAgents, Spawning
  <2>1. \A t \in Threads, n \in Nicks : Bears(t, n)' => Bears(t, n) \/ (t = u /\ n = m)
    <3> SUFFICES ASSUME NEW t \in Threads, NEW n \in Nicks, Bears(t, n)'
                 PROVE  Bears(t, n) \/ (t = u /\ n = m)
      OBVIOUS
    <3>1. CASE \E b \in Callers : call'[b].target = t /\ call'[b].nick = n
      <4>1. PICK b \in Callers : call'[b].target = t /\ call'[b].nick = n
        BY <3>1
      <4>2. CASE b = c
        BY <2>0, <4>1, <4>2
      <4>3. CASE b # c
        BY <2>0, <4>1, <4>3 DEF Others, Bears
      <4> QED
        BY <4>2, <4>3
    <3>2. CASE ~(\E b \in Callers : call'[b].target = t /\ call'[b].nick = n)
      BY <2>0, <3>2 DEF Bears, Registered
    <3> QED
      BY <3>1, <3>2
  <2>2. \A t \in Threads : Bears(t, m) => t = u
    <3>1. CASE m = stored[u]
      <4>1. Bears(u, m)
        BY <2>0, <3>1 DEF Bears
      <4> QED
        BY <1>0, <2>0, <4>1 DEF Unique
    <3>2. CASE m[2] = resets /\ m \notin used
      BY <1>0, <2>0, <3>2 DEF Pooled
    <3>3. CASE m[2] = resets + 1
      BY <1>0, <1>t, <2>0, <3>3 DEF Pooled
    <3> QED
      BY <2>0, <3>1, <3>2, <3>3
  <2>3. u \in Threads
    BY <2>0
  <2>4. Unique'
    <3> SUFFICES ASSUME NEW t \in Threads, NEW v \in Threads, NEW n \in Nicks,
                        Bears(t, n)', Bears(v, n)'
                 PROVE  t = v
      BY DEF Unique
    <3> QED
      BY <1>0, <2>1, <2>2 DEF Unique
  <2>5. Pooled'
    <3> SUFFICES ASSUME NEW t \in Threads, NEW n \in Nicks, Bears(t, n)'
                 PROVE  n[2] <= resets' /\ (n[2] = resets' => n \in used')
      BY DEF Pooled
    <3>1. CASE n = m
      <4>1. m \in used' /\ (m[2] = resets \/ m[2] = resets' \/ m = stored[u])
        BY <2>0
      <4>2. m = stored[u] => m[2] <= resets
        BY <1>0, <2>0, <2>3 DEF Pooled, Bears
      <4> QED
        BY <1>t, <2>0, <3>1, <4>1, <4>2
    <3>2. CASE n # m
      <4>1. n[2] <= resets /\ (n[2] = resets => n \in used) /\ n[2] \in Nat
        BY <1>0, <1>t, <2>1, <3>2 DEF Pooled
      <4> QED
        BY <1>t, <2>0, <4>1
    <3> QED
      BY <3>1, <3>2
  <2>6. /\ \A b \in Callers : pc'[b] \in Stopping => call'[b].nick = NoNick
        /\ \A b \in Callers : pc'[b] \in Named => call'[b].nick # NoNick
        /\ \A k \in Registered' : nickOf'[k] # NoNick
    BY <1>r, <2>0 DEF Registered
  <2> QED
    BY <1>q, <2>4, <2>5, <2>6
<1>7. CASE Creates(c)
  <2> DEFINE u == call[c].target
  <2>0. /\ Others(c) /\ Same(c) /\ UNCHANGED <<agent, nickOf, used, resets>>
        /\ u \in Agents /\ stored' = [stored EXCEPT ![u] = call[c].nick]
        /\ pc[c] = "create" /\ pc'[c] \in {"commit", "effects"}
    BY <1>7 DEF Creates, NamesKept, TargetsAreAgents, Spawning
  <2>1. \A t \in Threads, n \in Nicks : Bears(t, n)' => Bears(t, n)
    <3> SUFFICES ASSUME NEW t \in Threads, NEW n \in Nicks, Bears(t, n)' PROVE Bears(t, n)
      OBVIOUS
    <3>1. CASE t \in Agents /\ stored'[t] = n
      <4>1. CASE t = u
        <5>1. call[c].target = t /\ call[c].nick = n
          BY <1>t, <2>0, <3>1, <4>1
        <5> QED
          BY <5>1 DEF Bears
      <4>2. CASE t # u
        BY <1>t, <2>0, <3>1, <4>2 DEF Bears
      <4> QED
        BY <4>1, <4>2
    <3>2. CASE \E b \in Callers : call'[b].target = t /\ call'[b].nick = n
      <4>1. PICK b \in Callers : call'[b].target = t /\ call'[b].nick = n
        BY <3>2
      <4>2. call[b].target = t /\ call[b].nick = n
        BY <2>0, <4>1 DEF Others, Same
      <4> QED
        BY <4>2 DEF Bears
    <3>3. CASE \E k \in Registered' : agent'[k] = t /\ nickOf'[k] = n
      BY <2>0, <3>3 DEF Bears, Registered
    <3> QED
      BY <3>1, <3>2, <3>3 DEF Bears
  <2>2. Unique' /\ Pooled'
    BY <1>k, <2>0, <2>1
  <2>3. call'[c].nick # NoNick
    BY <2>0 DEF NicksBorne, Same
  <2> QED
    BY <1>q, <1>r, <2>0, <2>2, <2>3 DEF Registered
<1>8. CASE Commits(c)
  <2> DEFINE u == call[c].target
             key == FiledAt(c)
  <2>0. /\ Others(c) /\ UNCHANGED stored /\ resets' = resets /\ used \subseteq used'
        /\ pc[c] \in {"commit", "recommit"} /\ pc'[c] \in {"send", "idle"}
        /\ call'[c].nick = NoNick /\ call[c].nick # NoNick
        /\ agent' = [agent EXCEPT ![key] = u] /\ nickOf' = [nickOf EXCEPT ![key] = call[c].nick]
    BY <1>8 DEF Commits, NicksBorne
  <2>1. \A k \in Registered' : \/ k = key /\ agent'[k] = u /\ nickOf'[k] = call[c].nick
                               \/ /\ k \in Registered /\ agent'[k] = agent[k]
                                  /\ nickOf'[k] = nickOf[k]
    BY <1>t, <2>0 DEF Registered
  <2>2. \A t \in Threads, n \in Nicks : Bears(t, n)' => Bears(t, n)
    <3> SUFFICES ASSUME NEW t \in Threads, NEW n \in Nicks, Bears(t, n)' PROVE Bears(t, n)
      OBVIOUS
    <3>1. CASE t \in Agents /\ stored'[t] = n
      BY <2>0, <3>1 DEF Bears
    <3>2. CASE \E b \in Callers : call'[b].target = t /\ call'[b].nick = n
      BY <2>0, <3>2 DEF Others, Bears
    <3>3. CASE \E k \in Registered' : agent'[k] = t /\ nickOf'[k] = n
      <4>1. PICK k \in Registered' : agent'[k] = t /\ nickOf'[k] = n
        BY <3>3
      <4>2. CASE agent'[k] = u /\ nickOf'[k] = call[c].nick
        <5>1. call[c].target = t /\ call[c].nick = n
          BY <4>1, <4>2
        <5> QED
          BY <5>1 DEF Bears
      <4>3. CASE k \in Registered /\ agent'[k] = agent[k] /\ nickOf'[k] = nickOf[k]
        BY <4>1, <4>3 DEF Bears
      <4> QED
        BY <2>1, <4>2, <4>3
    <3> QED
      BY <3>1, <3>2, <3>3 DEF Bears
  <2>3. Unique' /\ Pooled'
    BY <1>k, <2>0, <2>2
  <2>4. \A k \in Registered' : nickOf'[k] # NoNick
    BY <2>0, <2>1 DEF NicksBorne
  <2>5. /\ \A b \in Callers : pc'[b] \in Stopping => call'[b].nick = NoNick
        /\ \A b \in Callers : pc'[b] \in Named => call'[b].nick # NoNick
    BY <2>0 DEF Others, NicksBorne, Named
  <2> QED
    BY <1>q, <2>3, <2>4, <2>5
<1> QED
  BY <1>1, <1>2, <1>3, <1>4, <1>5, <1>6, <1>7, <1>8, <1>9 DEF Affects

----------------------------------------------------------------------------
(* The count while no agent is resumed *)

\* An agent is filed where no agent is: its path is reserved, or its id is not in the tree.
LEMMA FiledOnce ==
    ASSUME TypeOK, TargetsAreAgents, Spawners, PathsHeld, Placed, resumes = 0,
           NEW c \in Callers, pc[c] \in {"commit", "recommit"}
    PROVE  /\ pc[c] = "commit" /\ FiledAt(c) \in Keys \ {RootPath}
           /\ agent[FiledAt(c)] \in {Vacant, Reserved}
<1>1. call[c].target \in Agents /\ call[c].path \in Paths \union {NoPath}
  <2>1. call[c] \in Frame
    BY DEF TypeOK
  <2> QED
    BY <2>1, FrameFields DEF TargetsAreAgents, Spawning
<1>2. call[c].target \notin known /\ pc[c] = "commit"
  BY DEF Placed, Spawning, Spawners, Resuming
<1>3. CASE call[c].path = NoPath
  BY <1>1, <1>2, <1>3, NamesApart DEF FiledAt, Keys, Placed
<1>4. CASE call[c].path # NoPath
  <2>1. Holder(c, call[c].path) /\ call[c].path \in Paths
    BY <1>1, <1>2, <1>4 DEF Holder, Holds
  <2> QED
    BY <1>2, <1>4, <2>1, NamesApart DEF FiledAt, Keys, PathsHeld
<1> QED
  BY <1>3, <1>4

\* Each thread is counted: by the call that is about to file it, or in the tree.
LEMMA PlacedStep ==
    ASSUME TypeOK, TypeOK', TargetsAreAgents, Unborn, Spawners, PathsHeld, Placed,
           NEW c \in Callers, Affects(c)
    PROVE  Placed' /\ (resumes' = 0 => resumes = 0)
<1> USE NamesApart DEF Threads, Live
<1>t. /\ Paths \subseteq Keys /\ agent \in [Keys -> Threads \union {Vacant, Reserved}]
      /\ Agents \subseteq Keys \ {RootPath} /\ resumes \in Nat /\ known \subseteq Agents
      /\ fresh \subseteq Agents
      /\ \A b \in Callers : call[b].target \in Threads
  <2>1. \A b \in Callers : call[b] \in Frame
    BY DEF TypeOK
  <2> QED
    BY <2>1, FrameFields DEF TypeOK, Keys
\* A step that files no agent, starts no thread and leaves the entries of live threads.
<1>k. ASSUME Others(c), UNCHANGED known,
             \A t \in Agents : agent[t] = Vacant => agent'[t] = Vacant,
             resumes' = resumes,
             pc[c] # "commit",
             pc'[c] \in Spawning => \/ pc[c] \in Spawning /\ call'[c].target = call[c].target
                                    \/ call'[c].target \notin known,
             pc'[c] = "release" => call'[c].target \notin Live',
             Live' \subseteq Live,
             resumes = 0 => \A k \in Registered : agent[k] \in Live =>
                               k \in Registered' /\ agent'[k] = agent[k]
      PROVE  Placed'
  <2>1. \A t \in Agents : agent'[t] # Vacant => t \in known'
    BY <1>k DEF Placed
  <2> SUFFICES ASSUME resumes = 0
               PROVE  /\ \A b \in Callers : pc'[b] \in Spawning => call'[b].target \notin known'
                      /\ \A b \in Callers : pc'[b] = "release" => call'[b].target \notin Live'
                      /\ \A t \in Live' :
                            \/ \E b \in Callers : pc'[b] = "commit" /\ call'[b].target = t
                            \/ \E k \in Registered' : agent'[k] = t
    BY <1>k, <2>1 DEF Placed
  <2> HIDE DEF Live
  <2>2. \A b \in Callers : pc'[b] \in Spawning => call'[b].target \notin known'
    BY <1>k DEF Placed, Others
  <2>3. \A b \in Callers : pc'[b] = "release" => call'[b].target \notin Live'
    BY <1>k DEF Placed, Others
  <2>4. ASSUME NEW t \in Live'
        PROVE  \/ \E b \in Callers : pc'[b] = "commit" /\ call'[b].target = t
               \/ \E k \in Registered' : agent'[k] = t
    <3>1. t \in Live
      BY <1>k
    <3>2. CASE \E b \in Callers : pc[b] = "commit" /\ call[b].target = t
      BY <1>k, <3>2 DEF Others
    <3>3. CASE \E k \in Registered : agent[k] = t
      BY <1>k, <3>1, <3>3
    <3> QED
      BY <3>1, <3>2, <3>3 DEF Placed
  <2> QED
    BY <2>2, <2>3, <2>4
<1>1. CASE Moves(c)
  <2>0. /\ Others(c) /\ UNCHANGED <<known, threads>>
        /\ \A k \in Keys \ {RootPath} : agent'[k] = agent[k]
    BY <1>1 DEF Moves, manager
  <2>1. CASE resumes' = resumes + 1
    BY <1>t, <2>0, <2>1 DEF Placed
  <2>2. CASE resumes' = resumes
    <3>1. pc[c] # "commit" /\ pc'[c] # "release"
      BY <1>1 DEF Moves, GoesOn, GivesUp, Ends, TurnsTo, Starts
    <3>2. pc'[c] \in Spawning => pc[c] \in Spawning /\ call'[c].target = call[c].target
      BY <1>1, <1>t, <2>2 DEF Moves, GoesOn, GivesUp, Ends, TurnsTo, Starts, Same, Spawning
    <3>3. Registered' = Registered /\ \A k \in Registered : agent'[k] = agent[k]
      BY <2>0 DEF Registered
    <3> QED
      BY <1>k, <1>t, <2>0, <2>2, <3>1, <3>2, <3>3
  <2> QED
    BY <1>1, <2>1, <2>2 DEF Moves, GoesOn, GivesUp, Ends, TurnsTo, Starts
<1>2. CASE Spawns(c)
  <2>1. call'[c].target \notin known
    BY <1>2, <1>t DEF Spawns, Unborn
  <2> QED
    BY <1>2, <1>k, <2>1 DEF Spawns, Registered
<1>3. CASE TakesPath(c)
  BY <1>3, <1>k, <1>t DEF TakesPath, Same, Registered, Spawning, manager
<1>4. CASE FreesPath(c)
  BY <1>4, <1>k, <1>t DEF FreesPath, Registered, Spawning, manager
<1>5. CASE TakesName(c)
  BY <1>5, <1>k DEF TakesName, Registered, Spawning, manager
<1>6. CASE StopsThread(c)
  BY <1>6, <1>k DEF StopsThread, Same, Registered, Spawning
<1>9. CASE Unfiles(c)
  <2>1. PICK k \in Keys \ {RootPath} :
           agent[k] = call[c].target /\ agent' = [agent EXCEPT ![k] = Vacant]
    BY <1>9 DEF Unfiles
  <2>2. resumes = 0 => call[c].target \notin Live
    BY <1>9 DEF Unfiles, Placed
  <2>3. resumes = 0 => \A j \in Registered : agent[j] \in Live =>
                          j \in Registered' /\ agent'[j] = agent[j]
    BY <1>t, <2>1, <2>2 DEF Registered
  <2>4. \A t \in Agents : agent[t] = Vacant => agent'[t] = Vacant
    BY <1>t, <2>1
  <2> QED
    BY <1>9, <1>k, <2>3, <2>4 DEF Unfiles, Spawning, manager
<1>7. CASE Creates(c)
  <2> DEFINE u == call[c].target
  <2>0. /\ u \in Agents /\ Others(c) /\ Same(c) /\ UNCHANGED <<agent, known, resumes>>
        /\ \A t \in Agents \ {u} : threads'[t] = threads[t]
        /\ pc[c] = "create" /\ pc'[c] \in {"commit", "effects"}
        /\ stored[u] = NoNick => pc'[c] = "commit"
    BY <1>7 DEF Creates, TypeOK, TargetsAreAgents, Spawning
  <2>1. Registered' = Registered
    BY <2>0 DEF Registered
  <2>2. ASSUME resumes = 0
        PROVE  /\ \A b \in Callers : pc'[b] \in Spawning => call'[b].target \notin known'
               /\ \A b \in Callers : pc'[b] = "release" => call'[b].target \notin Live'
               /\ \A t \in Live' :
                     \/ \E b \in Callers : pc'[b] = "commit" /\ call'[b].target = t
                     \/ \E k \in Registered' : agent'[k] = t
    <3>1. u \notin known /\ stored[u] = NoNick
      BY <2>0, <2>2 DEF Placed, Spawners, Spawning, Before, Born
    <3>2. \A b \in Callers : pc'[b] \in Spawning => call'[b].target \notin known'
      BY <2>0, <2>2, <3>1 DEF Placed, Others, Same
    <3>3. \A b \in Callers : pc[b] = "release" => call[b].target # u
      BY <2>0, <3>1 DEF Unborn, Born, Before
    <3>4. \A b \in Callers : pc'[b] = "release" => call'[b].target \notin Live'
      BY <2>0, <2>2, <3>3 DEF Placed, Others
    <3>5. ASSUME NEW t \in Live'
          PROVE  \/ \E b \in Callers : pc'[b] = "commit" /\ call'[b].target = t
                 \/ \E k \in Registered' : agent'[k] = t
      <4>1. CASE t = u
        BY <2>0, <3>1, <4>1 DEF Same
      <4>2. CASE t # u
        <5>1. t \in Live
          BY <2>0, <4>2
        <5> HIDE DEF Live
        <5>2. CASE \E b \in Callers : pc[b] = "commit" /\ call[b].target = t
          BY <2>0, <5>2 DEF Others
        <5>3. CASE \E k \in Registered : agent[k] = t
          BY <2>0, <2>1, <5>3
        <5> QED
          BY <2>2, <5>1, <5>2, <5>3 DEF Placed
      <4> QED
        BY <4>1, <4>2
    <3> QED
      BY <3>2, <3>4, <3>5
  <2> QED
    BY <2>0, <2>2 DEF Placed
<1>8. CASE Commits(c)
  <2> DEFINE u == call[c].target
             key == FiledAt(c)
  <2>0. /\ u \in Agents /\ Others(c) /\ UNCHANGED <<threads, resumes>>
        /\ known' = known \union {u} /\ agent' = [agent EXCEPT ![key] = u]
        /\ pc[c] \in {"commit", "recommit"} /\ pc'[c] \in {"send", "idle"}
    BY <1>8 DEF Commits, TargetsAreAgents, Spawning
  <2>1. \A t \in Agents : agent'[t] # Vacant => t \in known'
    <3>1. call[c].path \in Paths \union {NoPath}
      <4>1. call[c] \in Frame
        BY DEF TypeOK
      <4> QED
        BY <4>1, FrameFields
    <3>2. \A t \in Agents : t = key => t = u
      BY <3>1 DEF FiledAt
    <3> QED
      BY <1>t, <2>0, <3>2 DEF Placed
  <2>2. ASSUME resumes = 0
        PROVE  /\ \A b \in Callers : pc'[b] \in Spawning => call'[b].target \notin known'
               /\ \A b \in Callers : pc'[b] = "release" => call'[b].target \notin Live'
               /\ \A t \in Live' :
                     \/ \E b \in Callers : pc'[b] = "commit" /\ call'[b].target = t
                     \/ \E k \in Registered' : agent'[k] = t
    <3>1. pc[c] = "commit" /\ key \in Keys \ {RootPath} /\ agent[key] \in {Vacant, Reserved}
      BY <2>0, <2>2, FiledOnce
    <3>2. /\ key \in Registered' /\ agent'[key] = u
          /\ \A k \in Registered : k \in Registered' /\ agent'[k] = agent[k]
      BY <1>t, <2>0, <3>1 DEF Registered
    <3>3. u \notin known
      BY <2>2, <3>1 DEF Placed, Spawning
    <3>4. \A b \in Callers \ {c} : pc[b] \in Spawning => call[b].target # u
      BY <3>1, <3>3 DEF Spawners, Spawning
    <3>5. \A b \in Callers : pc'[b] \in Spawning => call'[b].target \notin known'
      BY <2>0, <2>2, <3>4 DEF Placed, Others, Spawning
    <3>6. \A b \in Callers : pc'[b] = "release" => call'[b].target \notin Live'
      BY <2>0, <2>2 DEF Placed, Others
    <3>7. ASSUME NEW t \in Live'
          PROVE  \/ \E b \in Callers : pc'[b] = "commit" /\ call'[b].target = t
                 \/ \E k \in Registered' : agent'[k] = t
      <4>1. t \in Live
        BY <2>0
      <4> HIDE DEF Live
      <4>2. CASE t = u
        BY <3>2, <4>2
      <4>3. CASE t # u /\ \E b \in Callers : pc[b] = "commit" /\ call[b].target = t
        BY <2>0, <4>3 DEF Others
      <4>4. CASE \E k \in Registered : agent[k] = t
        BY <3>2, <4>4
      <4> QED
        BY <2>2, <4>1, <4>2, <4>3, <4>4 DEF Placed
    <3> QED
      BY <3>5, <3>6, <3>7
  <2> QED
    BY <2>0, <2>1, <2>2 DEF Placed
<1>10. resumes' = 0 => resumes = 0
  BY <1>t DEF Affects, Moves, GoesOn, GivesUp, Ends, TurnsTo, Starts, Spawns, TakesPath,
              FreesPath, TakesName, StopsThread, Creates, Commits, Unfiles
<1> QED
  BY <1>1, <1>2, <1>3, <1>4, <1>5, <1>6, <1>7, <1>8, <1>9, <1>10 DEF Affects

\* A set each of whose members some member of S is mapped to is no larger than S.
LEMMA Covered ==
    ASSUME NEW S, NEW T, NEW f, IsFiniteSet(S), \A t \in T : \E s \in S : f[s] = t
    PROVE  IsFiniteSet(T) /\ Cardinality(T) \in Nat /\ Cardinality(T) <= Cardinality(S)
<1> DEFINE D == {s \in S : f[s] \in T}
           g == [s \in D |-> f[s]]
<1>1. IsFiniteSet(D) /\ Cardinality(D) <= Cardinality(S)
  BY FS_Subset
<1>2. g \in Surjection(D, T)
  BY DEF Surjection
<1>3. IsFiniteSet(T) /\ Cardinality(T) <= Cardinality(D)
  BY <1>1, <1>2, FS_Surjection
<1> QED
  BY <1>1, <1>3, FS_CardinalityType

\* While no agent is resumed there are no more threads than slots in use.
LEMMA ThreadsCounted ==
    ASSUME TypeOK, Placed, resumes = 0
    PROVE  Cardinality(Live) \in Nat /\ Cardinality(Live) <= SlotsInUse
<1> DEFINE InTree == {t \in Live : \E k \in Registered : agent[k] = t}
           target == [c \in Callers |-> call[c].target]
           Filing == {t \in Live : \E c \in Holding : target[c] = t}
<1>1. Live = InTree \union Filing
  <2>1. \A c \in Callers : pc[c] = "commit" => c \in Holding /\ target[c] = call[c].target
    BY DEF Holding
  <2> QED
    BY <2>1 DEF Placed
<1>2. /\ IsFiniteSet(InTree) /\ Cardinality(InTree) \in Nat
      /\ Cardinality(InTree) <= Cardinality(Registered)
  <2>1. \A t \in InTree : \E k \in Registered : agent[k] = t
    OBVIOUS
  <2> QED
    BY <2>1, SlotsFinite, Covered
<1>3. /\ IsFiniteSet(Filing) /\ Cardinality(Filing) \in Nat
      /\ Cardinality(Filing) <= Cardinality(Holding)
  <2>1. \A t \in Filing : \E c \in Holding : target[c] = t
    OBVIOUS
  <2> HIDE DEF target
  <2> QED
    BY <2>1, SlotsFinite, Covered
<1> HIDE DEF InTree, Filing
<1>4. /\ IsFiniteSet(Live) /\ Cardinality(Live) \in Nat
      /\ Cardinality(InTree \intersect Filing) \in Nat
      /\ Cardinality(Live) =
            Cardinality(InTree) + Cardinality(Filing) - Cardinality(InTree \intersect Filing)
  <2>1. /\ IsFiniteSet(Live)
        /\ Cardinality(Live) =
              Cardinality(InTree) + Cardinality(Filing) - Cardinality(InTree \intersect Filing)
    BY <1>1, <1>2, <1>3, FS_Union
  <2>2. IsFiniteSet(InTree \intersect Filing)
    BY <1>2, FS_Subset
  <2> QED
    BY <2>1, <2>2, FS_CardinalityType
<1> QED
  BY <1>2, <1>3, <1>4, SlotsFinite DEF SlotsInUse

----------------------------------------------------------------------------
\* A session tree starts with no agent: no path is reserved and no nickname is taken.
LEMMA IdInit == Init => IdInv
<1> SUFFICES ASSUME Init PROVE IdInv
  OBVIOUS
<1> USE NamesApart DEF Init, Threads
<1>0. /\ \A c \in Callers : pc[c] = "idle" /\ call[c] = NoCall
      /\ Live = {} /\ Registered = {} /\ \A t \in Agents : stored[t] = NoNick
      /\ NoCall.target = RootThread /\ NoCall.nick = NoNick /\ NoCall.todo = {}
      /\ NoCall.path = NoPath
  BY DEF Live, Registered, NoCall
<1>1. Unborn
  BY <1>0 DEF Unborn, Born, Before
<1>2. Spawners
  BY <1>0 DEF Spawners, Before, Resuming, Spawning
<1>3. PathsHeld
  BY <1>0 DEF PathsHeld, Holder, Holds
<1>4. NicksBorne
  BY <1>0 DEF NicksBorne, Bears, Stopping
<1>5. Placed
  <2>1. \A t \in Agents : agent[t] = Vacant
    BY DEF Keys
  <2> QED
    BY <1>0, <2>1 DEF Placed, Spawning
<1>6. CountIsExact
  <2>1. Holding = {} /\ Owing = {}
    BY DEF Holding, Owing
  <2> QED
    BY <1>0, <2>1, FS_EmptySet DEF CountIsExact, SlotsInUse
<1> QED
  BY <1>1, <1>2, <1>3, <1>4, <1>5, <1>6 DEF IdInv

\* A step keeps the count exact: an agent that is not resumed is filed once.
LEMMA ExactStep ==
    ASSUME IndInv, Spawners, PathsHeld, Placed, CountIsExact, [Next]_vars,
           resumes' = 0 => resumes = 0
    PROVE  CountIsExact'
<1> SUFFICES ASSUME resumes = 0 PROVE total' = SlotsInUse'
  BY DEF CountIsExact
<1>1. ExactKept
  BY LimitStep
<1>2. ASSUME NEW c \in Callers, Commit(c) PROVE FiledAt(c) \notin Registered
  <2>1. agent[FiledAt(c)] \in {Vacant, Reserved}
    BY <1>2, FiledOnce DEF IndInv, Commit
  <2> QED
    BY <2>1, NamesApart DEF Registered
<1> QED
  BY <1>1, <1>2 DEF ExactKept, Refiles, CountIsExact

\* Every step keeps the invariant.
LEMMA IdStep == IndInv /\ IndInv' /\ IdInv /\ [Next]_vars => IdInv'
<1> SUFFICES ASSUME IndInv, IndInv', IdInv, [Next]_vars PROVE IdInv'
  OBVIOUS
<1>1. TypeOK /\ TypeOK' /\ TargetsAreAgents
  BY DEF IndInv
<1>2. ASSUME NEW c \in Callers, Affects(c)
      PROVE  /\ Unborn' /\ Spawners' /\ PathsHeld' /\ NicksBorne' /\ Placed'
             /\ resumes' = 0 => resumes = 0
  BY <1>1, <1>2, SpawnersStep, PathsStep, NicksStep, PlacedStep DEF IdInv
<1>3. ASSUME UNCHANGED vars \/ \E t \in Threads : ThreadStops(t)
      PROVE  /\ Unborn' /\ Spawners' /\ PathsHeld' /\ NicksBorne' /\ Placed'
             /\ resumes' = 0 => resumes = 0
  <2>1. /\ UNCHANGED <<agent, nickOf, used, resets, pathOf, stored, fresh, known, pc, call>>
        /\ UNCHANGED resumes
    BY <1>3 DEF vars, registry, manager, steady, ThreadStops
  <2>2. \A t \in Agents : threads'[t] = "absent" <=> threads[t] = "absent"
    BY <1>1, <1>3 DEF vars, manager, ThreadStops, TypeOK, Threads
  <2>3. Live' = Live /\ Registered' = Registered
    BY <2>1, <2>2 DEF Live, Registered
  <2>4. Unborn' /\ Spawners'
    BY <2>1, <2>2 DEF IdInv, Unborn, Spawners, Born
  <2>5. PathsHeld' /\ Placed'
    BY <2>1, <2>3 DEF IdInv, PathsHeld, Holder, Placed
  <2>6. NicksBorne'
    BY <2>1, <2>3 DEF IdInv, NicksBorne, Bears
  <2> QED
    BY <2>1, <2>4, <2>5, <2>6
<1>4. /\ Unborn' /\ Spawners' /\ PathsHeld' /\ NicksBorne' /\ Placed'
      /\ resumes' = 0 => resumes = 0
  BY <1>2, <1>3, Cases
<1>5. CountIsExact'
  BY <1>4, ExactStep DEF IdInv
<1> QED
  BY <1>4, <1>5 DEF IdInv

\* The invariant holds in every state.
THEOREM IdInvariance == Spec => [](IndInv /\ IdInv)
<1>1. IndInv /\ IdInv /\ [Next]_vars => (IndInv /\ IdInv)'
  <2>1. IndInv /\ [Next]_vars => IndInv'
    BY TypeStep, LimitStep DEF IndInv
  <2> QED
    BY <2>1, IdStep
<1> QED
  BY <1>1, IndInit, IdInit, PTL DEF Spec

\* No two threads of the manager ever have the same agent path, whatever spawns, resumes,
\* cancellations and shutdowns overlap: a path is given out again only when the thread that
\* had it is gone.
THEOREM UniquePaths == Spec => []PathsUnique
<1>1. ASSUME TypeOK, PathsHeld PROVE PathsUnique
  <2> SUFFICES ASSUME NEW t \in Live, NEW u \in Live, pathOf[t] = pathOf[u],
                      pathOf[t] # NoPath
               PROVE  t = u
    BY DEF PathsUnique
  <2> DEFINE p == pathOf[t]
  <2>1. p \in Paths /\ t \in Threads /\ u \in Threads
    BY <1>1 DEF TypeOK, Live, Threads
  <2>2. ASSUME NEW v \in {t, u}
        PROVE  agent[p] = v \/ \E c \in Callers : call[c].target = v /\ Holder(c, p)
    BY <1>1 DEF PathsHeld, Holder, Holds
  <2>3. \A c \in Callers : Holder(c, p) => agent[p] = Reserved
    BY <1>1, <2>1 DEF PathsHeld
  <2>4. \A c, d \in Callers : Holder(c, p) /\ Holder(d, p) => c = d
    BY <1>1, <2>1 DEF PathsHeld
  <2>5. Reserved \notin {t, u}
    BY <2>1, NamesApart
  <2> HIDE DEF Holder
  <2> QED
    BY <2>2, <2>3, <2>4, <2>5
<1>2. IndInv /\ IdInv => PathsUnique
  BY <1>1 DEF IndInv, IdInv
<1> QED
  BY <1>2, IdInvariance, PTL

\* No two agents of the tree ever have the same nickname: across resets of the pool, failed
\* spawns and resumed agents that get their stored name back.
THEOREM UniqueNicknames == Spec => []NicknamesUnique
<1>1. ASSUME TypeOK, NicksBorne PROVE NicknamesUnique
  <2> SUFFICES ASSUME NEW j \in Registered, NEW k \in Registered, nickOf[j] = nickOf[k]
               PROVE  agent[j] = agent[k]
    BY DEF NicknamesUnique
  <2>1. /\ agent[j] \in Threads /\ agent[k] \in Threads /\ nickOf[j] \in Nicks
    BY <1>1 DEF TypeOK, Registered, NicksBorne
  <2>2. Bears(agent[j], nickOf[j]) /\ Bears(agent[k], nickOf[j])
    BY DEF Bears
  <2> QED
    BY <1>1, <2>1, <2>2 DEF NicksBorne
<1>2. IndInv /\ IdInv => NicknamesUnique
  BY <1>1 DEF IndInv, IdInv
<1> QED
  BY <1>2, IdInvariance, PTL

\* As long as no agent is resumed no slot is lost: total_count is the number of reservations,
\* of agents in the tree, and of agents about to be subtracted.
THEOREM ExactCount == Spec => []CountIsExact
<1>1. IndInv /\ IdInv => CountIsExact
  BY DEF IdInv
<1> QED
  BY <1>1, IdInvariance, PTL

\* As long as no agent is resumed the manager never has more sub-agent threads than
\* max_threads, the ones whose registration is under way included.
THEOREM ThreadLimit == Spec => []ThreadsWithinLimit
<1>1. ASSUME IndInv, Placed PROVE ThreadsWithinLimit
  <2> SUFFICES ASSUME limit # NoLimit, resumes = 0 PROVE Cardinality(Live) <= limit
    BY DEF ThreadsWithinLimit
  <2>1. Cardinality(Live) \in Nat /\ Cardinality(Live) <= SlotsInUse
    BY <1>1, ThreadsCounted DEF IndInv
  <2>2. SlotsInUse <= total /\ total <= limit /\ total \in Nat /\ limit \in Nat
    BY <1>1, LimitAssumption DEF IndInv, SlotsWithinLimit, TypeOK
  <2>3. SlotsInUse \in Nat
    BY SlotsFinite DEF SlotsInUse
  <2> QED
    BY <2>1, <2>2, <2>3
<1>2. IndInv /\ IdInv => ThreadsWithinLimit
  BY <1>1 DEF IdInv
<1> QED
  BY <1>2, IdInvariance, PTL
=============================================================================
