------------------------ MODULE AgentRegistryProofs ------------------------
(***************************************************************************)
(* TLAPS proofs about AgentRegistry, for any finite set of calls and paths *)
(* and any limit, including none: every slot in use is counted, and the    *)
(* count never passes max_threads.                                         *)
(***************************************************************************)
EXTENDS AgentRegistry, FiniteSetTheorems, TLAPS

\* Calls that spawn or resume an agent, up to its registration.
Spawning == {"load", "cas", "prepare", "path", "nickname", "check", "create", "effects",
             "commit", "recommit"}

\* What such a call works on is a sub-agent, never the root.
TargetsAreAgents ==
    \A c \in Callers : pc[c] \in Spawning => call[c].target \in Agents

\* The inductive invariant.
IndInv == TypeOK /\ TargetsAreAgents /\ SlotsWithinLimit

----------------------------------------------------------------------------
(* The slots in use *)

\* Each kind of slot is finite, so that its cardinality is a number.
LEMMA SlotsFinite ==
    /\ IsFiniteSet(Holding) /\ IsFiniteSet(Owing) /\ IsFiniteSet(Registered)
    /\ Cardinality(Holding) \in Nat /\ Cardinality(Owing) \in Nat
    /\ Cardinality(Registered) \in Nat
<1>1. Holding \subseteq Callers /\ Owing \subseteq Callers /\ Registered \subseteq Keys
  BY DEF Holding, Owing, Registered
<1>2. IsFiniteSet(Holding) /\ IsFiniteSet(Owing) /\ IsFiniteSet(Registered)
  BY <1>1, CallersFinite, FS_Subset
<1> QED
  BY <1>2, FS_CardinalityType

\* One more slot of a kind at most adds one to it.
LEMMA AddOne ==
    ASSUME NEW S, NEW x, IsFiniteSet(S)
    PROVE  /\ Cardinality(S \union {x}) \in Nat
           /\ Cardinality(S \union {x}) <= Cardinality(S) + 1
           /\ x \notin S => Cardinality(S \union {x}) = Cardinality(S) + 1
<1>1. Cardinality(S) \in Nat
  BY FS_CardinalityType
<1>2. Cardinality(S \union {x}) = IF x \in S THEN Cardinality(S) ELSE Cardinality(S) + 1
  BY FS_AddElement
<1> QED
  BY <1>1, <1>2

\* One slot less of a kind subtracts one, and there was one.
LEMMA RemoveOne ==
    ASSUME NEW S, NEW x \in S, IsFiniteSet(S)
    PROVE  /\ Cardinality(S \ {x}) \in Nat
           /\ Cardinality(S \ {x}) = Cardinality(S) - 1
           /\ Cardinality(S) >= 1
<1>1. Cardinality(S) \in Nat
  BY FS_CardinalityType
<1>2. IsFiniteSet(S \ {x}) /\ Cardinality(S \ {x}) = Cardinality(S) - 1
  BY FS_RemoveElement
<1>3. Cardinality(S \ {x}) \in Nat
  BY <1>2, FS_CardinalityType
<1> QED
  BY <1>1, <1>2, <1>3
----------------------------------------------------------------------------
(* Type correctness *)

\* The locals of a call, field by field.
LEMMA FrameFields ==
    ASSUME NEW f \in Frame
    PROVE  /\ f.seen \in Nat /\ f.target \in Threads /\ f.from \in Threads
           /\ f.path \in Paths \union {NoPath} /\ f.nick \in Nicks \union {NoNick}
           /\ f.todo \subseteq Agents
BY DEF Frame

\* The locals of a call that begins.
LEMMA NewFrames ==
    /\ NoCall \in Frame
    /\ \A t \in Threads : [NoCall EXCEPT !.target = t] \in Frame
    /\ \A t, w \in Threads, p \in Paths \union {NoPath} :
          LET f == [NoCall EXCEPT !.target = t, !.from = w, !.path = p]
          IN  f \in Frame /\ f.target = t
    /\ \A t, w \in Threads :
          LET f == [NoCall EXCEPT !.target = t, !.from = w] IN f \in Frame /\ f.target = t
    /\ \A t \in Threads, S \in SUBSET Agents :
          [NoCall EXCEPT !.target = t, !.todo = S] \in Frame
BY NamesApart DEF Frame, NoCall, Threads

\* The updates the actions make to the locals of a call.
LEMMA FrameUpdates ==
    ASSUME NEW f \in Frame
    PROVE  /\ \A n \in Nat :
                 [f EXCEPT !.seen = n] \in Frame /\ [f EXCEPT !.seen = n].target = f.target
           /\ [f EXCEPT !.path = NoPath] \in Frame
           /\ \A n \in Nicks \union {NoNick} :
                 [f EXCEPT !.nick = n] \in Frame /\ [f EXCEPT !.nick = n].target = f.target
           /\ \A t \in Agents : [f EXCEPT !.target = t, !.todo = @ \ {t}] \in Frame
BY DEF Frame, Threads

\* Every step keeps the types: the count has been incremented for whoever
\* decrements it, and agents are filed under paths or sub-agent ids.
LEMMA TypeStep == IndInv /\ [Next]_vars => TypeOK' /\ TargetsAreAgents'
<1> SUFFICES ASSUME TypeOK, TargetsAreAgents, SlotsWithinLimit, [Next]_vars
             PROVE  TypeOK' /\ TargetsAreAgents'
  BY DEF IndInv
<1> USE NamesApart, LimitAssumption
    DEF TypeOK, TargetsAreAgents, Labels, Spawning, Threads, Goto, Call, Return, registry,
        manager, steady
<1>0. NoCall \in Frame
  BY NewFrames
<1>1. CASE UNCHANGED vars
  BY <1>1 DEF vars
<1>2. ASSUME NEW c \in Callers, StartCall(c) PROVE TypeOK' /\ TargetsAreAgents'
  <2>1. ASSUME NEW t \in Agents, NEW p \in Paths \union {NoPath}, NEW who \in Threads,
               Spawn(c, t, p, who)
        PROVE  TypeOK' /\ TargetsAreAgents'
    <3>1. LET f == [NoCall EXCEPT !.target = t, !.from = who, !.path = p]
          IN  f \in Frame /\ f.target = t
      BY NewFrames
    <3> QED
      BY <2>1, <3>1 DEF Spawn
  <2>2. ASSUME NEW t \in Agents, NEW who \in Threads, Resume(c, t, who)
        PROVE  TypeOK' /\ TargetsAreAgents'
    <3>1. LET f == [NoCall EXCEPT !.target = t, !.from = who] IN f \in Frame /\ f.target = t
      BY NewFrames
    <3> QED
      BY <2>2, <3>1 DEF Resume
  <2>3. ASSUME NEW t \in Threads, SendToAgent(c, t) PROVE TypeOK' /\ TargetsAreAgents'
    <3>1. [NoCall EXCEPT !.target = t] \in Frame
      BY NewFrames
    <3> QED
      BY <2>3, <3>1 DEF SendToAgent
  <2>4. ASSUME NEW t \in Agents, CloseAgent(c, t) PROVE TypeOK' /\ TargetsAreAgents'
    <3>1. Descendants(t) \ {t} \subseteq Agents
      BY DEF Descendants, Live
    <3>2. [NoCall EXCEPT !.target = t, !.todo = Descendants(t) \ {t}] \in Frame
      BY <3>1, NewFrames
    <3> QED
      BY <2>4, <3>2 DEF CloseAgent
  <2> QED
    BY <1>2, <2>1, <2>2, <2>3, <2>4 DEF StartCall
<1>3. ASSUME NEW c \in Callers, Reserve(c) PROVE TypeOK' /\ TargetsAreAgents'
  <2>1. CASE LoadCount(c)
    <3>1. LET f == [call[c] EXCEPT !.seen = total] IN f \in Frame /\ f.target = call[c].target
      BY FrameUpdates
    <3> QED
      <4>1. CASE limit = NoLimit
        BY <2>1, <4>1 DEF LoadCount
      <4>2. CASE limit # NoLimit
        <5>1. /\ call' = [call EXCEPT ![c] = [call[c] EXCEPT !.seen = total]]
              /\ pc' = [pc EXCEPT ![c] = "cas"] /\ total' = total /\ pc[c] = "load"
          BY <2>1, <4>2 DEF LoadCount
        <5>2. call' \in [Callers -> Frame] /\ pc' \in [Callers -> Labels]
          BY <3>1, <5>1
        <5>3. \A b \in Callers : call'[b].target = call[b].target
          BY <3>1, <5>1
        <5>4. TargetsAreAgents'
          BY <5>1, <5>3
        <5> QED
          BY <2>1, <5>1, <5>2, <5>4 DEF LoadCount
      <4> QED
        BY <4>1, <4>2
  <2>2. CASE CompareExchange(c)
    <3>1. \A n \in {0, total} : LET f == [call[c] EXCEPT !.seen = n]
                                IN  f \in Frame /\ f.target = call[c].target
      <4>1. call[c] \in Frame /\ {0, total} \subseteq Nat
        OBVIOUS
      <4> QED
        BY ZenonT(60), <4>1, FrameUpdates
    <3> QED
      <4>1. call' \in [Callers -> Frame] /\ total' \in Nat
        BY <1>0, <2>2, <3>1 DEF CompareExchange
      <4>2. TargetsAreAgents'
        <5>1. pc[c] = "cas" /\ \A b \in Callers \ {c} : call'[b] = call[b] /\ pc'[b] = pc[b]
          BY <2>2 DEF CompareExchange
        <5>2. pc'[c] = "idle" \/ call'[c].target = call[c].target
          BY <2>2, <3>1 DEF CompareExchange
        <5> QED
          BY <5>1, <5>2
      <4> QED
        BY <2>2, <4>1, <4>2 DEF CompareExchange
  <2>3. CASE RegisterRoot(c)
    BY <2>3 DEF RegisterRoot
  <2>4. CASE ReservePath(c)
    <3>1. [call[c] EXCEPT !.path = NoPath] \in Frame
      BY FrameUpdates
    <3> QED
      BY <2>4, <3>1 DEF ReservePath
  <2>5. CASE ReserveNickname(c)
    <3>1. call[c].target \in Agents /\ pc[c] = "nickname"
      BY <2>5 DEF ReserveNickname
    <3>2. PICK n \in Names \X {resets, resets + 1} \union {stored[call[c].target]} :
             /\ \/ /\ n = stored[call[c].target] /\ used' = used \union {n}
                   /\ UNCHANGED resets
                \/ ReserveAgentNickname(n)
             /\ Call(c, [call[c] EXCEPT !.nick = n])
      BY <2>5 DEF ReserveNickname
    <3>3. n \in Nicks \union {NoNick}
      BY <3>1, <3>2 DEF Nicks
    <3>4. used' \subseteq Nicks \union {NoNick} /\ resets' \in Nat
      BY <3>2, <3>3 DEF ReserveAgentNickname
    <3>5. LET f == [call[c] EXCEPT !.nick = n] IN f \in Frame /\ f.target = call[c].target
      BY <3>3, FrameUpdates
    <3> QED
      BY <2>5, <3>1, <3>2, <3>4, <3>5 DEF ReserveNickname
  <2> QED
    BY <1>3, <2>1, <2>2, <2>3, <2>4, <2>5 DEF Reserve
<1>4. ASSUME NEW c \in Callers, Start(c) PROVE TypeOK' /\ TargetsAreAgents'
  <2>1. CASE CheckResumed(c)
    BY <2>1 DEF CheckResumed
  <2>2. CASE CreateThread(c)
    <3>1. /\ call[c].from \in Threads /\ call[c].path \in Paths \union {NoPath}
          /\ call[c].nick \in Nicks \union {NoNick}
      BY FrameFields
    <3> QED
      BY <2>2, <3>1 DEF CreateThread
  <2>3. CASE ResumeEffects(c)
    BY <2>3 DEF ResumeEffects
  <2>4. CASE Commit(c)
    <3>1. call[c].target \in Agents /\ call[c].nick \in Nicks \union {NoNick}
      BY <2>4, FrameFields DEF Commit
    <3>2. NoCall \in Frame /\ [NoCall EXCEPT !.target = call[c].target] \in Frame
      BY <3>1, NewFrames
    <3> QED
      <4>1. call' \in [Callers -> Frame] /\ pc' \in [Callers -> Labels] /\ TargetsAreAgents'
        BY <2>4, <3>2 DEF Commit
      <4>2. /\ agent' \in [Keys -> Threads \union {Vacant, Reserved}]
            /\ nickOf' \in [Keys -> Nicks \union {NoNick}]
            /\ used' \subseteq Nicks \union {NoNick} /\ known' \subseteq Agents
        BY <2>4, <3>1 DEF Commit
      <4> QED
        BY <2>4, <4>1, <4>2 DEF Commit
  <2>5. CASE SendInput(c)
    BY <1>0, <2>5 DEF SendInput
  <2> QED
    BY <1>4, <2>1, <2>2, <2>3, <2>4, <2>5 DEF Start
<1>5. ASSUME NEW c \in Callers, Cancel(c) PROVE TypeOK' /\ TargetsAreAgents'
  BY <1>0, <1>5 DEF Cancel
<1>6. ASSUME NEW c \in Callers, GiveBack(c) PROVE TypeOK' /\ TargetsAreAgents'
  <2>1. CASE ReleaseReservedPath(c)
    BY <1>0, <2>1 DEF ReleaseReservedPath
  <2>2. CASE DropSlot(c)
    <3>1. total >= 1
      <4>1. c \in Holding
        BY <2>2 DEF DropSlot, Holding
      <4>2. Cardinality(Holding) >= 1
        BY <4>1, SlotsFinite, RemoveOne
      <4> QED
        BY <4>2, SlotsFinite DEF SlotsWithinLimit, SlotsInUse
    <3> QED
      BY <1>0, <2>2, <3>1 DEF DropSlot
  <2> QED
    BY <1>6, <2>1, <2>2 DEF GiveBack
<1>7. ASSUME NEW c \in Callers, Stop(c) PROVE TypeOK' /\ TargetsAreAgents'
  <2>0. ASSUME NextShutdown(c)
        PROVE  /\ call' \in [Callers -> Frame] /\ pc' \in [Callers -> Labels]
               /\ pc' = [pc EXCEPT ![c] = "idle"] \/ pc' = [pc EXCEPT ![c] = "shutdown"]
               /\ \A b \in Callers \ {c} : call'[b] = call[b]
    <3>1. \A t \in call[c].todo : [call[c] EXCEPT !.target = t, !.todo = @ \ {t}] \in Frame
      BY FrameFields, FrameUpdates
    <3>2. CASE call[c].todo = {} /\ Return(c)
      BY <1>0, <3>2
    <3>3. CASE /\ \E t \in call[c].todo :
                     Call(c, [call[c] EXCEPT !.target = t, !.todo = @ \ {t}])
               /\ Goto(c, "shutdown")
      <4>1. PICK t \in call[c].todo :
               call' = [call EXCEPT ![c] = [call[c] EXCEPT !.target = t, !.todo = @ \ {t}]]
        BY <3>3
      <4>2. [call[c] EXCEPT !.target = t, !.todo = @ \ {t}] \in Frame
        BY <3>1
      <4> HIDE DEF Call
      <4>3. call' \in [Callers -> Frame] /\ \A b \in Callers \ {c} : call'[b] = call[b]
        BY <4>1, <4>2
      <4> QED
        BY <3>3, <4>3
    <3> QED
      BY <2>0, <3>2, <3>3 DEF NextShutdown
  <2>1. CASE Shutdown(c)
    <3>1. /\ call' \in [Callers -> Frame] /\ pc' \in [Callers -> Labels]
          /\ threads' \in [Threads -> {"running", "stopped", "absent"}]
      BY <1>0, <2>0, <2>1 DEF Shutdown
    <3>2. TargetsAreAgents'
      BY <2>0, <2>1 DEF Shutdown
    <3> QED
      BY <2>1, <3>1, <3>2 DEF Shutdown
  <2>2. CASE RemoveThread(c)
    BY <2>2 DEF RemoveThread
  <2>3. CASE ReleaseEntry(c)
    <3>1. CASE NextShutdown(c)
      BY <2>0, <2>3, <3>1 DEF ReleaseEntry
    <3>2. CASE ~NextShutdown(c)
      BY <2>3, <3>2 DEF ReleaseEntry
    <3> QED
      BY <3>1, <3>2
  <2>4. CASE ReleaseSlot(c)
    <3>1. total >= 1
      <4>1. c \in Owing
        BY <2>4 DEF ReleaseSlot, Owing
      <4>2. Cardinality(Owing) >= 1
        BY <4>1, SlotsFinite, RemoveOne
      <4> QED
        BY <4>2, SlotsFinite DEF SlotsWithinLimit, SlotsInUse
    <3> QED
      BY <2>0, <2>4, <3>1 DEF ReleaseSlot
  <2> QED
    BY <1>7, <2>1, <2>2, <2>3, <2>4 DEF Stop
<1>8. ASSUME NEW t \in Threads, ThreadStops(t) PROVE TypeOK' /\ TargetsAreAgents'
  BY <1>8 DEF ThreadStops
<1> QED
  BY <1>1, <1>2, <1>3, <1>4, <1>5, <1>6, <1>7, <1>8 DEF Next

----------------------------------------------------------------------------
(* The limit *)

\* The configuration of a session does not change.
LEMMA LimitFixed == [Next]_vars => limit' = limit
<1> USE DEF steady
<1>1. ASSUME NEW c \in Callers, StartCall(c) \/ Cancel(c) PROVE limit' = limit
  BY <1>1 DEF StartCall, Spawn, Resume, SendToAgent, CloseAgent, Cancel
<1>2. ASSUME NEW c \in Callers, Reserve(c) PROVE limit' = limit
  BY <1>2 DEF Reserve, LoadCount, CompareExchange, RegisterRoot, ReservePath, ReserveNickname
<1>3. ASSUME NEW c \in Callers, Start(c) PROVE limit' = limit
  BY <1>3 DEF Start, CheckResumed, CreateThread, ResumeEffects, Commit, SendInput
<1>4. ASSUME NEW c \in Callers, GiveBack(c) \/ Stop(c) PROVE limit' = limit
  BY <1>4 DEF GiveBack, ReleaseReservedPath, DropSlot, Stop, Shutdown, RemoveThread,
              ReleaseEntry, ReleaseSlot
<1>5. ASSUME NEW t \in Threads, ThreadStops(t) PROVE limit' = limit
  BY <1>5 DEF ThreadStops
<1> QED
  BY <1>1, <1>2, <1>3, <1>4, <1>5 DEF Next, vars

\* Where a call files its agent; it refiles one when the key holds an agent already.
FiledAt(c) == IF call[c].path = NoPath THEN call[c].target ELSE call[c].path
Refiles == \E c \in Callers : Commit(c) /\ FiledAt(c) \in Registered

\* A step that refiles no agent keeps an exact count exact.
ExactKept == total = SlotsInUse /\ ~Refiles => total' = SlotsInUse'
LimitKept == SlotsWithinLimit' /\ ExactKept

\* No step uses a slot that is not counted, or counts past the limit; only to file an
\* agent under a key that already holds one loses a slot.
LEMMA LimitStep == IndInv /\ [Next]_vars => SlotsWithinLimit' /\ ExactKept
<1> SUFFICES ASSUME TypeOK, TargetsAreAgents, SlotsWithinLimit, [Next]_vars
             PROVE  LimitKept
  BY DEF IndInv, LimitKept
<1> USE NamesApart, LimitAssumption
<1>l. limit' = limit
  BY LimitFixed
<1> USE <1>l
<1>s. /\ IsFiniteSet(Holding) /\ IsFiniteSet(Owing) /\ IsFiniteSet(Registered)
      /\ Cardinality(Holding) \in Nat /\ Cardinality(Owing) \in Nat
      /\ Cardinality(Registered) \in Nat
  BY SlotsFinite
<1>k. ASSUME Holding' = Holding, Owing' = Owing, Registered' = Registered, total' = total
      PROVE  LimitKept
  BY <1>k DEF LimitKept, ExactKept, SlotsWithinLimit, SlotsInUse
<1>1. CASE UNCHANGED vars
  BY <1>1, <1>k DEF vars, registry, Holding, Owing, Registered
<1>2. ASSUME NEW c \in Callers, StartCall(c) PROVE LimitKept
  <2>1. /\ pc[c] = "idle" /\ UNCHANGED <<agent, total>>
        /\ \E l \in {"load", "send", "close"} : pc' = [pc EXCEPT ![c] = l]
    BY <1>2 DEF StartCall, Spawn, Resume, SendToAgent, CloseAgent, registry, Goto
  <2>2. Holding' = Holding /\ Owing' = Owing /\ Registered' = Registered
    BY <2>1 DEF TypeOK, Holding, Owing, Registered
  <2> QED
    BY <1>k, <2>1, <2>2
<1>3. ASSUME NEW c \in Callers, Reserve(c) PROVE LimitKept
  <2>1. ASSUME pc[c] \in {"load", "cas"}, pc' = [pc EXCEPT ![c] = "prepare"],
               total' = total + 1, limit # NoLimit => total < limit,
               UNCHANGED agent
        PROVE  LimitKept
    <3>1. Holding' = Holding \union {c} /\ Owing' = Owing /\ Registered' = Registered
      BY <2>1 DEF TypeOK, Holding, Owing, Registered
    <3>2. /\ Cardinality(Holding') \in Nat
          /\ Cardinality(Holding') = Cardinality(Holding) + 1
      BY <1>s, <2>1, <3>1, AddOne DEF Holding
    <3> QED
      BY <1>s, <2>1, <3>1, <3>2 DEF LimitKept, ExactKept, TypeOK, SlotsWithinLimit, SlotsInUse
  <2>2. CASE LoadCount(c)
    <3>1. CASE limit = NoLimit
      BY <2>1, <2>2, <3>1 DEF LoadCount, Goto
    <3>2. CASE limit # NoLimit
      <4>1. /\ pc[c] = "load" /\ pc' = [pc EXCEPT ![c] = "cas"] /\ UNCHANGED <<total, agent>>
        BY <2>2, <3>2 DEF LoadCount, Goto
      <4> QED
        BY <1>k, <4>1 DEF TypeOK, Holding, Owing, Registered
    <3> QED
      BY <3>1, <3>2
  <2>3. CASE CompareExchange(c)
    <3>1. CASE total = call[c].seen /\ call[c].seen < limit /\ total' = total + 1
      <4>1. total # total + 1 /\ total < limit
        BY <3>1 DEF TypeOK
      <4>2. /\ pc[c] = "cas" /\ pc' = [pc EXCEPT ![c] = "prepare"] /\ UNCHANGED agent
        BY <2>3, <3>1, <4>1 DEF CompareExchange, Goto
      <4> QED
        BY <2>1, <3>1, <4>1, <4>2
    <3>2. CASE total' = total
      <4>1. /\ pc[c] = "cas" /\ UNCHANGED agent
            /\ \E l \in {"idle", "cas"} : pc' = [pc EXCEPT ![c] = l]
        BY <2>3, <3>2 DEF TypeOK, CompareExchange, Goto, Return
      <4> QED
        BY <1>k, <3>2, <4>1 DEF TypeOK, Holding, Owing, Registered
    <3> QED
      BY <2>3, <3>1, <3>2 DEF CompareExchange
  <2>4. CASE RegisterRoot(c)
    <3>1. /\ \A k \in Keys \ {RootPath} : agent'[k] = agent[k]
          /\ pc[c] = "prepare" /\ pc' = [pc EXCEPT ![c] = "path"] /\ total' = total
      BY <2>4 DEF RegisterRoot, Goto, TypeOK
    <3> QED
      BY <1>k, <3>1 DEF TypeOK, Holding, Owing, Registered
  <2>5. CASE ReservePath(c)
    <3>1. /\ \E l \in {"nickname", "drop"} : pc' = [pc EXCEPT ![c] = l]
          /\ pc[c] = "path" /\ total' = total
      BY <2>5 DEF ReservePath, Goto
    <3>2. \A k \in Keys : agent'[k] = agent[k] \/ (agent[k] = Vacant /\ agent'[k] = Reserved)
      BY <2>5 DEF ReservePath, TypeOK
    <3>3. Registered' = Registered
      BY <3>2 DEF Registered, Threads
    <3> QED
      BY <1>k, <3>1, <3>3 DEF TypeOK, Holding, Owing
  <2>6. CASE ReserveNickname(c)
    <3>1. /\ \E l \in {"create", "check"} : pc' = [pc EXCEPT ![c] = l]
          /\ pc[c] = "nickname" /\ UNCHANGED <<total, agent>>
      BY <2>6 DEF ReserveNickname, Goto
    <3> QED
      BY <1>k, <3>1 DEF TypeOK, Holding, Owing, Registered
  <2> QED
    BY <1>3, <2>2, <2>3, <2>4, <2>5, <2>6 DEF Reserve
<1>4. ASSUME NEW c \in Callers, Start(c) PROVE LimitKept
  <2>1. CASE CheckResumed(c) \/ CreateThread(c) \/ ResumeEffects(c)
    <3>1. /\ pc[c] \in {"check", "create", "effects"} /\ UNCHANGED <<total, agent>>
          /\ \E l \in {"create", "effects", "commit", "recommit", "drop"} :
                pc' = [pc EXCEPT ![c] = l]
      BY <2>1 DEF CheckResumed, CreateThread, ResumeEffects, Goto, registry
    <3> QED
      BY <1>k, <3>1 DEF TypeOK, Holding, Owing, Registered
  <2>2. CASE Commit(c)
    <3>1. /\ pc[c] \in {"commit", "recommit"} /\ total' = total
          /\ \E l \in {"send", "idle"} : pc' = [pc EXCEPT ![c] = l]
          /\ agent' = [agent EXCEPT ![FiledAt(c)] = call[c].target]
      BY <2>2 DEF Commit, Goto, Return, FiledAt
    <3>2. c \in Holding /\ Holding' = Holding \ {c} /\ Owing' = Owing
      BY <3>1 DEF TypeOK, Holding, Owing
    <3> DEFINE key == FiledAt(c)
    <3>3. /\ call[c].target \in Agents
          /\ key \in Keys \ {RootPath}
      <4>1. call[c].target \in Agents /\ call[c].path \in Paths \union {NoPath}
        BY <3>1, FrameFields DEF TypeOK, TargetsAreAgents, Spawning
      <4> QED
        BY <4>1 DEF FiledAt, Keys
    <3>4. Registered' = Registered \union {key}
      BY <3>1, <3>3 DEF TypeOK, Registered, Threads
    <3> HIDE DEF key
    <3>5. Cardinality(Holding') = Cardinality(Holding) - 1
      BY <1>s, <3>2, RemoveOne
    <3>6. /\ Cardinality(Registered') \in Nat
          /\ Cardinality(Registered') <= Cardinality(Registered) + 1
          /\ key \notin Registered => Cardinality(Registered') = Cardinality(Registered) + 1
      BY <1>s, <3>4, AddOne
    <3>7. key \in Registered => Refiles
      BY <2>2 DEF Refiles, key
    <3> QED
      BY <1>s, <3>1, <3>2, <3>5, <3>6, <3>7
      DEF LimitKept, ExactKept, TypeOK, SlotsWithinLimit, SlotsInUse
  <2>3. CASE SendInput(c)
    <3>1. /\ pc[c] = "send" /\ UNCHANGED <<total, agent>>
          /\ \E l \in {"remove", "idle"} : pc' = [pc EXCEPT ![c] = l]
      BY <2>3 DEF SendInput, Goto, Return, registry
    <3> QED
      BY <1>k, <3>1 DEF TypeOK, Holding, Owing, Registered
  <2> QED
    BY <1>4, <2>1, <2>2, <2>3 DEF Start
<1>5. ASSUME NEW c \in Callers, Cancel(c) PROVE LimitKept
  <2>1. /\ UNCHANGED <<total, agent>>
        /\ \/ /\ pc[c] \in {"prepare", "check", "create", "effects"}
              /\ pc' = [pc EXCEPT ![c] = "drop"]
           \/ /\ pc[c] \in {"send", "close", "shutdown", "remove"}
              /\ pc' = [pc EXCEPT ![c] = "idle"]
    BY <1>5 DEF Cancel, Goto, Return, registry
  <2> QED
    BY <1>k, <2>1 DEF TypeOK, Holding, Owing, Registered
<1>6. ASSUME NEW c \in Callers, GiveBack(c) PROVE LimitKept
  <2>1. CASE ReleaseReservedPath(c)
    <3>1. pc[c] = "drop" /\ pc' = [pc EXCEPT ![c] = "uncount"] /\ total' = total
      BY <2>1 DEF ReleaseReservedPath, Goto
    <3>2. \A k \in Keys : agent'[k] = agent[k] \/ (agent[k] = Reserved /\ agent'[k] = Vacant)
      BY <2>1 DEF ReleaseReservedPath, TypeOK
    <3>3. Registered' = Registered
      BY <3>2 DEF Registered, Threads
    <3> QED
      BY <1>k, <3>1, <3>3 DEF TypeOK, Holding, Owing
  <2>2. CASE DropSlot(c)
    <3>1. /\ pc[c] = "uncount" /\ pc' = [pc EXCEPT ![c] = "idle"]
          /\ total' = total - 1 /\ UNCHANGED agent
      BY <2>2 DEF DropSlot, Goto, Return
    <3>2. /\ c \in Holding /\ Holding' = Holding \ {c} /\ Owing' = Owing
          /\ Registered' = Registered
      BY <3>1 DEF TypeOK, Holding, Owing, Registered
    <3>3. Cardinality(Holding') = Cardinality(Holding) - 1
      BY <1>s, <3>2, RemoveOne
    <3> QED
      BY <1>s, <3>1, <3>2, <3>3 DEF LimitKept, ExactKept, TypeOK, SlotsWithinLimit, SlotsInUse
  <2> QED
    BY <1>6, <2>1, <2>2 DEF GiveBack
<1>7. ASSUME NEW c \in Callers, Stop(c) PROVE LimitKept
  <2>n. ASSUME NextShutdown(c)
        PROVE  \E l \in {"idle", "shutdown"} : pc' = [pc EXCEPT ![c] = l]
    BY <2>n DEF NextShutdown, Goto, Return
  <2>1. CASE Shutdown(c) \/ RemoveThread(c)
    <3>1. /\ pc[c] \in {"close", "shutdown", "remove"} /\ UNCHANGED <<total, agent>>
          /\ \E l \in {"idle", "shutdown", "remove", "release"} : pc' = [pc EXCEPT ![c] = l]
      BY <2>1, <2>n DEF Shutdown, RemoveThread, Goto, Return, registry
    <3> QED
      BY <1>k, <3>1 DEF TypeOK, Holding, Owing, Registered
  <2>2. CASE ReleaseEntry(c)
    <3>1. pc[c] = "release" /\ total' = total
      BY <2>2 DEF ReleaseEntry
    <3>2. ASSUME NEW k \in Keys \ {RootPath}, agent[k] = call[c].target,
                 agent' = [agent EXCEPT ![k] = Vacant],
                 pc' = [pc EXCEPT ![c] = "release_count"]
          PROVE  LimitKept
      <4>1. call[c].target \in Threads
        BY FrameFields DEF TypeOK
      <4>2. /\ k \in Registered /\ Registered' = Registered \ {k}
            /\ Holding' = Holding /\ Owing' = Owing \union {c}
        BY <3>1, <3>2, <4>1 DEF TypeOK, Holding, Owing, Registered, Threads
      <4>3. Cardinality(Registered') = Cardinality(Registered) - 1
        BY <1>s, <4>2, RemoveOne
      <4>4. Cardinality(Owing') \in Nat /\ Cardinality(Owing') = Cardinality(Owing) + 1
        BY <1>s, <3>1, <4>2, AddOne DEF Owing
      <4> QED
        BY <1>s, <3>1, <4>2, <4>3, <4>4
        DEF LimitKept, ExactKept, TypeOK, SlotsWithinLimit, SlotsInUse
    <3>3. CASE /\ \E l \in {"idle", "shutdown"} : pc' = [pc EXCEPT ![c] = l]
               /\ \A k \in Keys \ {RootPath} : agent'[k] = agent[k]
      BY <1>k, <3>1, <3>3 DEF TypeOK, Holding, Owing, Registered
    <3> QED
      BY <2>2, <2>n, <3>2, <3>3 DEF ReleaseEntry, Goto, TypeOK
  <2>3. CASE ReleaseSlot(c)
    <3>1. /\ pc[c] = "release_count" /\ total' = total - 1 /\ UNCHANGED agent
          /\ \E l \in {"idle", "shutdown"} : pc' = [pc EXCEPT ![c] = l]
      BY <2>3, <2>n DEF ReleaseSlot
    <3>2. /\ c \in Owing /\ Owing' = Owing \ {c} /\ Holding' = Holding
          /\ Registered' = Registered
      BY <3>1 DEF TypeOK, Holding, Owing, Registered
    <3>3. Cardinality(Owing') = Cardinality(Owing) - 1
      BY <1>s, <3>2, RemoveOne
    <3> QED
      BY <1>s, <3>1, <3>2, <3>3 DEF LimitKept, ExactKept, TypeOK, SlotsWithinLimit, SlotsInUse
  <2> QED
    BY <1>7, <2>1, <2>2, <2>3 DEF Stop
<1>8. ASSUME NEW t \in Threads, ThreadStops(t) PROVE LimitKept
  BY <1>8, <1>k DEF ThreadStops, registry, Holding, Owing, Registered
<1> QED
  BY <1>1, <1>2, <1>3, <1>4, <1>5, <1>6, <1>7, <1>8 DEF Next

----------------------------------------------------------------------------
\* A session tree starts with the root thread and no slot in use.
LEMMA IndInit == Init => IndInv
<1> SUFFICES ASSUME Init PROVE IndInv
  OBVIOUS
<1>1. TypeOK /\ TargetsAreAgents
  BY NewFrames, LimitAssumption, NamesApart
  DEF Init, TypeOK, TargetsAreAgents, Spawning, Labels, Threads, Nicks
<1>2. Holding = {} /\ Owing = {} /\ Registered = {}
  BY NamesApart DEF Init, Holding, Owing, Registered
<1>3. SlotsWithinLimit
  BY <1>2, FS_EmptySet, LimitAssumption DEF Init, SlotsWithinLimit, SlotsInUse
<1> QED
  BY <1>1, <1>3 DEF IndInv

\* The inductive invariant holds in every state.
THEOREM Invariance == Spec => []IndInv
<1>1. IndInv /\ [Next]_vars => IndInv'
  BY TypeStep, LimitStep DEF IndInv
<1> QED
  BY <1>1, IndInit, PTL DEF Spec

\* Type correctness of the registry and of the calls in flight: in particular
\* total_count is never decremented below zero, where a usize would wrap.
THEOREM TypeCorrect == Spec => []TypeOK
<1>1. IndInv => TypeOK
  BY DEF IndInv
<1> QED
  BY <1>1, Invariance, PTL

\* However reservations, commits, cancellations and releases of parallel calls
\* interleave, total_count covers every slot in use and stays within max_threads.
THEOREM LimitHolds == Spec => []SlotsWithinLimit
<1>1. IndInv => SlotsWithinLimit
  BY DEF IndInv
<1> QED
  BY <1>1, Invariance, PTL
=============================================================================
