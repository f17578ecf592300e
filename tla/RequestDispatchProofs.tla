----------------------- MODULE RequestDispatchProofs -----------------------
(***************************************************************************)
(* TLAPS proofs about RequestDispatch, for any connections, keys and       *)
(* number of requests: conflicting requests run one after the other in the *)
(* order of their arrival, and a closed connection leaves nothing behind.  *)
(***************************************************************************)
EXTENDS RequestDispatch, SequenceTheorems, FiniteSetTheorems, WellFoundedInduction, TLAPS

----------------------------------------------------------------------------
(* The inductive invariant *)

RequestType == [conn : Connections \union {NoConn}, key : Keys \union {NoKey},
                access : {"exclusive", "shared"}]

Sent(r)    == st[r] # "unsent"
Taken(r)   == st[r] \notin {"unsent", "queued"}
Scoped(r)  == req[r].key # NoKey
Shared(r)  == req[r].access = "shared"
Active(d)  == drain[d] \in {"take", "join"}

\* What the requests, the queues, the tasks and the processor are made of.
Types ==
    /\ req \in [Requests -> RequestType] /\ st \in [Requests -> States]
    /\ queue \in [Keys -> Seq(Requests) \union {NoQueue}]
    /\ drain \in [Requests -> {"none", "take", "join", "ended"}]
    /\ batch \in [Requests -> SUBSET Requests]
    /\ accepting \in [Connections -> BOOLEAN] /\ open \subseteq Connections
    /\ loop \in {"recv", "close", "wait", "drain", "ended", "forced"}
    /\ closing \in Connections \union {NoConn}
    /\ closing # NoConn <=> loop \in {"close", "wait"}
    /\ contexts \union resources \union callbacks \subseteq Requests
    /\ panics \in 0..MaxPanics

\* Requests arrive in the order of their numbers; one that has not arrived is nowhere.
Arrivals ==
    /\ \A r, s \in Requests : r < s /\ Sent(s) => Sent(r)
    /\ \A r \in Requests : ~Sent(r) => req[r] = NoRequest /\ drain[r] = "none"

\* A queue holds the requests of its key that wait, the earliest first.
Queued ==
    /\ \A k \in Keys : queue[k] # NoQueue =>
          /\ \A i \in 1..Len(queue[k]) :
                st[queue[k][i]] = "queued" /\ req[queue[k][i]].key = k
          /\ \A i, j \in 1..Len(queue[k]) : i < j => queue[k][i] < queue[k][j]
    /\ \A r \in Requests : st[r] = "queued" =>
          /\ req[r].key \in Keys /\ queue[req[r].key] # NoQueue
          /\ \E i \in 1..Len(queue[req[r].key]) : queue[req[r].key][i] = r

\* Every key with a task has an entry and no second task.
OneDrain ==
    /\ \A d \in Requests : Active(d) => req[d].key \in Keys /\ queue[req[d].key] # NoQueue
    /\ \A d, e \in Requests : Active(d) /\ Active(e) /\ req[d].key = req[e].key => d = e

\* A batch is of one key, and is one request or shared reads only; a request that runs
\* or is about to is in the batch of a task that waits for it.
Batches ==
    /\ \A d \in Requests : drain[d] # "join" => batch[d] = {}
    /\ \A d \in Requests : \A r \in batch[d] : Taken(r) /\ req[r].key = req[d].key
    /\ \A d \in Requests : \A r, s \in batch[d] : r = s \/ (Shared(r) /\ Shared(s))
    /\ \A r \in Requests : Taken(r) /\ Scoped(r) /\ ~Ended(r) =>
          \E d \in Requests : r \in batch[d]

\* No request overtakes one of its key in the queue, nor, unless both are shared reads,
\* one that has left it and has not ended.
InOrder ==
    \A r, s \in Requests :
        /\ r < s /\ req[r].key = req[s].key /\ Scoped(s) /\ Taken(s)
        => Taken(r) /\ (Ended(r) \/ (Shared(r) /\ Shared(s)))

Order == Arrivals /\ Queued /\ OneDrain /\ Batches /\ InOrder

\* The gate of a connection that is closed is shut, also while its handlers end.
Gates ==
    /\ closing \notin open
    /\ \A c \in Connections \ open :
          accepting[c] => c = closing /\ loop = "close"

Closed == Gates /\ ClosedLeavesNothing

IndInv == Types /\ Order /\ Closed

----------------------------------------------------------------------------
(* The requests that a task takes *)

\* A set of positions has a largest one: the intervals from them to the end are finite
\* sets, and one of them has no other inside it.
LEMMA LargestPosition ==
    ASSUME NEW m \in Nat, NEW T \in SUBSET (1..m), T # {}
    PROVE  \E x \in T : \A y \in T : y <= x
<1> DEFINE U == {x..m : x \in T}
<1>1. IsFiniteSet(1..m)
  BY FS_Interval
<1>2. IsWellFoundedOn(StrictSubsetOrdering(1..m), SUBSET (1..m))
  BY <1>1, FS_FiniteSubsetsOfFinite, FS_StrictSubsetOrderingWellFounded
<1>3. U \subseteq SUBSET (1..m) /\ U # {}
  <2>1. \A x \in T : x..m \subseteq 1..m
    OBVIOUS
  <2> QED
    BY <2>1, Zenon
<1> HIDE DEF U
<1>4. PICK u \in U : \A v \in U : ~(<<v, u>> \in StrictSubsetOrdering(1..m))
  BY <1>2, <1>3, WFMin
<1>5. PICK x \in T : u = x..m
  BY <1>4 DEF U
<1>6. ASSUME NEW y \in T, x < y PROVE FALSE
  <2>1. y..m \in U /\ y..m \subseteq x..m /\ x \in x..m /\ x \notin y..m
    BY <1>6 DEF U
  <2>2. <<y..m, u>> \in StrictSubsetOrdering(1..m)
    BY <1>3, <1>4, <1>5, <2>1 DEF StrictSubsetOrdering
  <2> QED
    BY <1>4, <2>1, <2>2
<1> QED
  BY <1>6

\* drain takes at least one request, and several only when all are shared reads.
LEMMA LengthFacts ==
    ASSUME NEW q \in Seq(Requests), q # <<>>
    PROVE  /\ Length(q) \in 1..Len(q)
           /\ Length(q) = 1 \/ \A i \in 1..Length(q) : Shared(q[i])
<1> DEFINE P(n) == /\ n = 1 \/ \A i \in 1..n : req[q[i]].access = "shared"
                   /\ \/ n = Len(q) \/ req[q[1]].access # "shared"
                      \/ req[q[n + 1]].access # "shared"
           T == {n \in 1..Len(q) : \A i \in 1..n : req[q[i]].access = "shared"}
<1>1. Len(q) \in Nat \ {0}
  BY EmptySeq
<1>2. \E n \in 1..Len(q) : P(n)
  <2>1. CASE req[q[1]].access # "shared"
    BY <1>1, <2>1
  <2>2. CASE req[q[1]].access = "shared"
    <3>1. 1 \in T /\ T \in SUBSET (1..Len(q))
      BY <1>1, <2>2
    <3>2. PICK n \in T : \A y \in T : y <= n
      BY <1>1, <3>1, LargestPosition
    <3>3. CASE n = Len(q)
      BY <3>2, <3>3
    <3>4. CASE n # Len(q)
      <4>1. n + 1 \in 1..Len(q) /\ n + 1 \notin T
        BY <1>1, <3>2, <3>4
      <4>2. req[q[n + 1]].access # "shared"
        BY <1>1, <3>2, <4>1
      <4> QED
        BY <3>2, <4>2
    <3> QED
      BY <3>3, <3>4
  <2> QED
    BY <2>1, <2>2
<1>3. Length(q) = CHOOSE n \in 1..Len(q) : P(n)
  BY DEF Length
<1>4. Length(q) \in 1..Len(q) /\ P(Length(q))
  BY <1>2, <1>3
<1> QED
  BY <1>4 DEF Shared

\* The task d takes the first n requests of the queue q, the set B, and leaves the rest.
Takes(d, q, n, B, rest) ==
    /\ q = queue[Key(d)] /\ q # NoQueue /\ Len(q) \in Nat /\ n \in 1..Len(q)
    /\ n = 1 \/ \A i \in 1..n : Shared(q[i])
    /\ B = {q[i] : i \in 1..n} /\ \A i \in 1..Len(q) : q[i] \in Requests
    /\ Len(rest) = Len(q) - n /\ \A i \in 1..Len(rest) : rest[i] = q[n + i]
    /\ queue' = [queue EXCEPT ![Key(d)] = rest] /\ batch' = [batch EXCEPT ![d] = B]
    /\ st' = [r \in Requests |-> IF r \in B THEN "ready" ELSE st[r]]
    /\ drain[d] = "take" /\ drain' = [drain EXCEPT ![d] = "join"]
    /\ UNCHANGED <<req, gates, tables, panics>>

\* What one look at a queue takes from it and leaves in it.
LEMMA TakeFacts ==
    ASSUME Types, NEW d \in Requests, Key(d) \in Keys, TakeBatch(d)
    PROVE  \E q \in Seq(Requests), n \in Nat, B \in SUBSET Requests, rest \in Seq(Requests) :
              Takes(d, q, n, B, rest)
<1> DEFINE q == queue[Key(d)]
           n == Length(q)
           rest == SubSeq(q, n + 1, Len(q))
<1>1. q \in Seq(Requests) /\ q # <<>> /\ q # NoQueue
  BY DEF Types, TakeBatch
<1>2. n \in 1..Len(q) /\ (n = 1 \/ \A i \in 1..n : Shared(q[i]))
  BY <1>1, LengthFacts
<1>3. Len(q) \in Nat /\ \A i \in 1..Len(q) : q[i] \in Requests
  BY <1>1, ElementOfSeq, LenProperties
<1>4. /\ batch' = [batch EXCEPT ![d] = {q[i] : i \in 1..n}]
      /\ queue' = [queue EXCEPT ![Key(d)] = rest]
      /\ st' = [r \in Requests |-> IF r \in batch'[d] THEN "ready" ELSE st[r]]
      /\ drain[d] = "take" /\ drain' = [drain EXCEPT ![d] = "join"]
      /\ UNCHANGED <<req, gates, tables, panics>>
  BY DEF TakeBatch
<1> HIDE DEF q, n
<1>5. /\ rest \in Seq(Requests) /\ Len(rest) = Len(q) - n
      /\ \A i \in 1..Len(rest) : rest[i] = q[n + i]
  <2>1. n + 1 \in Int /\ Len(q) \in Int /\ \A i \in n + 1..Len(q) : q[i] \in Requests
    BY <1>2, <1>3
  <2>2. /\ rest \in Seq(Requests)
        /\ Len(rest) = IF n + 1 <= Len(q) THEN Len(q) - (n + 1) + 1 ELSE 0
        /\ \A i \in 1..Len(q) - (n + 1) + 1 : rest[i] = q[n + 1 + i - 1]
    BY <2>1, SubSeqProperties
  <2> HIDE DEF rest
  <2> QED
    BY <1>2, <1>3, <2>2
<1> HIDE DEF rest
<1>6. batch'[d] = {q[i] : i \in 1..n} /\ {q[i] : i \in 1..n} \in SUBSET Requests
  BY <1>2, <1>3, <1>4 DEF Types
<1>7. q = queue[Key(d)] /\ n \in Nat
  BY <1>2, <1>3 DEF q
<1> USE <1>1, <1>5, <1>6, <1>7
<1> WITNESS q \in Seq(Requests), n \in Nat, {q[i] : i \in 1..n} \in SUBSET Requests,
            rest \in Seq(Requests)
<1> QED
  BY <1>1, <1>2, <1>3, <1>4, <1>5, <1>6, <1>7 DEF Takes

----------------------------------------------------------------------------
(* The invariant: types *)

\* Init establishes all of it.
LEMMA IndInit == Init => IndInv
<1> SUFFICES ASSUME Init PROVE IndInv
  OBVIOUS
<1> USE DispatchAssumption DEF Init
<1>1. Types
  BY DEF Types, RequestType, NoRequest, States
<1>2. Order
  BY DEF Order, Arrivals, Queued, OneDrain, Batches, InOrder, Active, Sent, Taken
<1>3. Closed
  BY DEF Closed, Gates, ClosedLeavesNothing, NoRequest
<1> QED
  BY <1>1, <1>2, <1>3 DEF IndInv

\* Every step keeps the types.
LEMMA TypeStep == IndInv /\ [Next]_vars => Types'
<1> SUFFICES ASSUME IndInv, [Next]_vars PROVE Types'
  OBVIOUS
<1> USE DispatchAssumption DEF IndInv, queues, gates, tables, Becomes
<1>1. CASE UNCHANGED vars
  BY <1>1 DEF vars, Types
<1>2. ASSUME NEW c \in Connections, NEW r \in Requests, NEW s \in Scopes,
             ProcessRequest(c, r, s[1], s[2])
      PROVE  Types'
  <2>1. /\ s[1] \in Keys \union {NoKey} /\ s[2] \in {"exclusive", "shared"}
    BY DEF Scopes
  <2>2. req' \in [Requests -> RequestType]
    BY <1>2, <2>1 DEF ProcessRequest, Types, RequestType
  <2>3. st' \in [Requests -> States]
    BY <1>2 DEF ProcessRequest, Enqueue, Types, States
  <2>4. queue' \in [Keys -> Seq(Requests) \union {NoQueue}]
    <3>1. <<r>> \in Seq(Requests) /\ \A q \in Seq(Requests) : Append(q, r) \in Seq(Requests)
      BY AppendProperties
    <3>2. \/ UNCHANGED queue
          \/ \E v \in Seq(Requests) : queue' = [queue EXCEPT ![s[1]] = v]
      <4>1. CASE s[1] \in Keys /\ queue[s[1]] # NoQueue
        <5>1. Append(queue[s[1]], r) \in Seq(Requests)
          BY <3>1, <4>1 DEF Types
        <5>2. queue' = [queue EXCEPT ![s[1]] = Append(queue[s[1]], r)]
          BY <1>2, <4>1 DEF ProcessRequest, Enqueue
        <5> QED
          BY <5>1, <5>2
      <4>2. CASE s[1] \in Keys /\ queue[s[1]] = NoQueue
        BY <1>2, <3>1, <4>2 DEF ProcessRequest, Enqueue
      <4>3. CASE s[1] \notin Keys
        BY <1>2, <4>3 DEF ProcessRequest
      <4> QED
        BY <4>1, <4>2, <4>3
    <3> QED
      BY <3>2 DEF Types
  <2>5. /\ drain' \in [Requests -> {"none", "take", "join", "ended"}]
        /\ batch' \in [Requests -> SUBSET Requests]
    BY <1>2 DEF ProcessRequest, Enqueue, Types
  <2> QED
    BY <1>2, <2>2, <2>3, <2>4, <2>5 DEF ProcessRequest, Types
<1>3. ASSUME NEW d \in Requests, TakeBatch(d) PROVE Types'
  <2>1. Key(d) \in Keys
    BY <1>3 DEF TakeBatch, Order, OneDrain, Active, Key
  <2>2. PICK q \in Seq(Requests), n \in Nat, B \in SUBSET Requests, rest \in Seq(Requests) :
           Takes(d, q, n, B, rest)
    BY <1>3, <2>1, TakeFacts
  <2>3. st' \in [Requests -> States] /\ batch' \in [Requests -> SUBSET Requests]
    BY <2>2 DEF Takes, Types, States
  <2> QED
    BY <2>2, <2>3 DEF Takes, Types
<1>4. ASSUME NEW r \in Requests, Drain(r) \/ Handler(r) \/ Ask(r) \/ Answer(r) PROVE Types'
  BY <1>3, <1>4 DEF Drain, Handler, BatchEnds, DrainEnds, Run, TimesOut, CancelRequest,
     Respond, Ask, Answer, Types, States
<1>5. ASSUME NEW r \in Requests, Panic(r) PROVE Types'
  BY <1>5 DEF Panic, Types, States
<1>6. CASE Processor \/ Finish \/ SecondSignal \/ \E c \in Connections : ConnectionClosed(c)
  BY <1>6 DEF Processor, CloseGate, CleanUp, Drained, Finish, SecondSignal, ConnectionClosed,
     Types
<1> QED
  BY <1>1, <1>2, <1>4, <1>5, <1>6 DEF Next

----------------------------------------------------------------------------
(* The invariant: the order of the requests of a key *)

LEMMA RequestNumbers == Requests \subseteq Nat
BY DispatchAssumption DEF Requests

\* A handler goes on, or is skipped, or ends: the requests that wait are left alone, and
\* what has ended stays so.
HandlerMoves(r) ==
    /\ UNCHANGED <<req, queue, drain, batch>>
    /\ \/ UNCHANGED st
       \/ \E x \in States \ {"unsent", "queued"} :
             Taken(r) /\ ~Ended(r) /\ st' = [st EXCEPT ![r] = x]

LEMMA HandlerEffects ==
    ASSUME NEW r \in Requests, Types, Handler(r) \/ Ask(r) \/ Answer(r)
    PROVE  HandlerMoves(r)
<1> USE DEF Becomes, HandlerMoves, queues, States, Taken, Ended, Types
<1>1. CASE Run(r)
  BY <1>1 DEF Run
<1>2. CASE TimesOut(r) \/ CancelRequest(r)
  BY <1>2 DEF TimesOut, CancelRequest
<1>3. CASE Respond(r) \/ Ask(r)
  BY <1>3 DEF Respond, Ask
<1>4. CASE Answer(r)
  BY <1>4 DEF Answer
<1> QED
  BY <1>1, <1>2, <1>3, <1>4 DEF Handler

LEMMA HandlerOrder ==
    ASSUME Types, Order, NEW r \in Requests, HandlerMoves(r)
    PROVE  Order'
<1>1. /\ UNCHANGED <<req, queue, drain, batch>>
      /\ \A s \in Requests : /\ Sent(s)' <=> Sent(s)
                             /\ Taken(s)' <=> Taken(s)
                             /\ st'[s] = "queued" <=> st[s] = "queued"
                             /\ Ended(s) => Ended(s)'
  BY DEF HandlerMoves, Sent, Taken, Ended, States, Types
<1>2. Arrivals' /\ OneDrain'
  BY <1>1 DEF Order, Arrivals, OneDrain, Active
<1>3. Queued'
  <2>1. \A k \in Keys : queue[k] # NoQueue =>
           \A i \in 1..Len(queue[k]) : queue[k][i] \in Requests
    BY ElementOfSeq DEF Types
  <2> QED
    BY <1>1, <2>1 DEF Order, Queued
<1>4. Batches'
  <2>1. \A d \in Requests : \A s \in batch[d] : s \in Requests
    BY DEF Types
  <2> QED
    BY <1>1, <2>1 DEF Order, Batches, Scoped, Shared
<1>5. InOrder'
  BY <1>1 DEF Order, InOrder, Scoped, Shared
<1> QED
  BY <1>2, <1>3, <1>4, <1>5 DEF Order

\* A batch has been joined.
LEMMA BatchEndsOrder == ASSUME Types, Order, NEW d \in Requests, BatchEnds(d) PROVE Order'
<1>1. /\ UNCHANGED <<req, st, queue>> /\ drain[d] = "join" /\ \A r \in batch[d] : Ended(r)
      /\ drain' \in [Requests -> {"none", "take", "join", "ended"}]
      /\ batch' \in [Requests -> SUBSET Requests]
      /\ batch'[d] = {} /\ drain'[d] = "take"
      /\ \A e \in Requests : e # d => batch'[e] = batch[e] /\ drain'[e] = drain[e]
  BY DEF BatchEnds, Types
<1>2. Arrivals' /\ Queued' /\ InOrder'
  BY <1>1 DEF Order, Arrivals, Queued, InOrder, Sent, Taken, Ended, Scoped, Shared
<1>3. OneDrain'
  BY <1>1 DEF Order, OneDrain, Active
<1>4. Batches'
  BY <1>1 DEF Order, Batches, Taken, Ended, Scoped, Shared
<1> QED
  BY <1>2, <1>3, <1>4 DEF Order

\* The task returns and takes the entry with it.
LEMMA DrainEndsOrder == ASSUME Types, Order, NEW d \in Requests, DrainEnds(d) PROVE Order'
<1>1. /\ UNCHANGED <<req, st, batch>> /\ drain[d] = "take" /\ req[d].key \in Keys
      /\ drain'[d] = "ended" /\ \A e \in Requests : e # d => drain'[e] = drain[e]
      /\ queue[req[d].key] = <<>> /\ queue'[req[d].key] = NoQueue
      /\ \A k \in Keys : k # req[d].key => queue'[k] = queue[k]
  BY DEF DrainEnds, Types, Order, OneDrain, Active, Key
<1>2. Len(queue[req[d].key]) = 0
  BY <1>1
<1>3. Arrivals' /\ InOrder'
  BY <1>1 DEF Order, Arrivals, InOrder, Sent, Taken, Ended, Scoped, Shared
<1>4. Queued'
  BY <1>1, <1>2 DEF Order, Queued
<1>5. OneDrain'
  BY <1>1 DEF Order, OneDrain, Active
<1>6. Batches'
  BY <1>1 DEF Order, Batches, Taken, Ended, Scoped, Shared
<1> QED
  BY <1>3, <1>4, <1>5, <1>6 DEF Order

\* A task takes the next batch: what leaves the queue is ahead of what stays, and what was
\* ahead of it has ended, since the only task of the key had no batch.
LEMMA TakeBatchOrder == ASSUME Types, Order, NEW d \in Requests, TakeBatch(d) PROVE Order'
<1>0. drain[d] = "take" /\ Key(d) \in Keys /\ Active(d)
  BY DEF TakeBatch, Order, OneDrain, Active, Key
<1>1. PICK q \in Seq(Requests), n \in Nat, B \in SUBSET Requests, rest \in Seq(Requests) :
         Takes(d, q, n, B, rest)
  BY <1>0, TakeFacts
<1>a. PICK k \in Keys : k = req[d].key
  BY <1>0 DEF Key
<1>2. /\ k = req[d].key /\ q = queue[k] /\ q # NoQueue /\ Len(q) \in Nat /\ n \in 1..Len(q)
      /\ n = 1 \/ \A i \in 1..n : Shared(q[i])
      /\ B = {q[i] : i \in 1..n} /\ \A i \in 1..Len(q) : q[i] \in Requests
      /\ Len(rest) = Len(q) - n /\ \A i \in 1..Len(rest) : rest[i] = q[n + i]
      /\ req' = req
  BY <1>1, <1>a DEF Takes, Key
<1>3. /\ queue'[k] = rest /\ \A x \in Keys : x # k => queue'[x] = queue[x]
      /\ batch'[d] = B /\ drain'[d] = "join"
      /\ \A e \in Requests : e # d => batch'[e] = batch[e] /\ drain'[e] = drain[e]
      /\ \A r \in Requests : st'[r] = IF r \in B THEN "ready" ELSE st[r]
      /\ queue' \in [Keys -> Seq(Requests) \union {NoQueue}]
  BY <1>1, <1>a DEF Takes, Key, Types
<1>4. rest # NoQueue /\ batch[d] = {}
  BY <1>0, DispatchAssumption DEF Order, Batches
<1>5. /\ \A i \in 1..Len(q) : st[q[i]] = "queued" /\ req[q[i]].key = k
      /\ \A i, j \in 1..Len(q) : i < j => q[i] < q[j]
      /\ \A r \in B : st[r] = "queued" /\ req[r].key = k
  <2>1. /\ \A i \in 1..Len(q) : st[q[i]] = "queued" /\ req[q[i]].key = k
        /\ \A i, j \in 1..Len(q) : i < j => q[i] < q[j]
    BY <1>2 DEF Order, Queued
  <2>2. ASSUME NEW r \in B PROVE st[r] = "queued" /\ req[r].key = k
    <3>1. PICK i \in 1..n : r = q[i]
      BY <1>2
    <3>2. i \in 1..Len(q)
      BY <1>2
    <3> QED
      BY <2>1, <3>1, <3>2
  <2> QED
    BY <2>1, <2>2
<1>6. /\ \A r \in Requests : Sent(r)' <=> Sent(r)
      /\ \A r \in Requests : Taken(r)' <=> Taken(r) \/ r \in B
      /\ \A r \in Requests : Ended(r)' <=> Ended(r)
      /\ \A r \in Requests : st'[r] = "queued" <=> st[r] = "queued" /\ r \notin B
  BY <1>3, <1>5 DEF Sent, Taken, Ended
<1>7. Arrivals'
  <2>1. \A r \in Requests : Sent(r) => r = d \/ drain'[r] = drain[r]
    BY <1>3
  <2>2. Sent(d)
    BY <1>0 DEF Order, Arrivals
  <2> QED
    BY <1>2, <1>3, <1>6, <2>1, <2>2 DEF Order, Arrivals
<1>8. Queued'
  <2>1. ASSUME NEW i \in 1..Len(rest)
        PROVE  st'[rest[i]] = "queued" /\ req[rest[i]].key = k
    <3>1. n + i \in 1..Len(q) /\ rest[i] = q[n + i]
      BY <1>2, <2>1
    <3>2. \A j \in 1..n : q[j] # q[n + i]
      <4>1. ASSUME NEW j \in 1..n PROVE q[j] # q[n + i]
        <5>1. j \in 1..Len(q) /\ j < n + i
          BY <1>2, <3>1
        <5>2. q[j] < q[n + i] /\ q[j] \in Nat /\ q[n + i] \in Nat
          BY <1>2, <1>5, <3>1, <5>1, RequestNumbers
        <5> QED
          BY <5>2
      <4> QED
        BY <4>1
    <3>3. q[n + i] \notin B /\ q[n + i] \in Requests
      BY <1>2, <3>1, <3>2
    <3> QED
      BY <1>5, <1>6, <3>1, <3>3
  <2>2. ASSUME NEW i \in 1..Len(rest), NEW j \in 1..Len(rest), i < j
        PROVE  rest[i] < rest[j]
    <3>1. n + i \in 1..Len(q) /\ n + j \in 1..Len(q) /\ n + i < n + j
      BY <1>2, <2>2
    <3> QED
      BY <1>2, <1>5, <3>1
  <2>3. ASSUME NEW x \in Keys, x # k, queue[x] # NoQueue, NEW i \in 1..Len(queue[x])
        PROVE  st'[queue[x][i]] = "queued" /\ req[queue[x][i]].key = x
    <3>1. queue[x][i] \in Requests
      BY <2>3, ElementOfSeq DEF Types
    <3>2. st[queue[x][i]] = "queued" /\ req[queue[x][i]].key = x
      BY <2>3 DEF Order, Queued
    <3> QED
      BY <1>5, <1>6, <2>3, <3>1, <3>2
  <2>4. ASSUME NEW r \in Requests, st'[r] = "queued"
        PROVE  /\ req[r].key \in Keys /\ queue'[req[r].key] # NoQueue
               /\ \E i \in 1..Len(queue'[req[r].key]) : queue'[req[r].key][i] = r
    <3>1. st[r] = "queued" /\ r \notin B
      BY <1>6, <2>4
    <3>2. CASE req[r].key = k
      <4>1. PICK i \in 1..Len(q) : q[i] = r
        <5>1. \E i \in 1..Len(queue[req[r].key]) : queue[req[r].key][i] = r
          BY <3>1 DEF Order, Queued
        <5>2. queue[req[r].key] = q
          BY <1>2, <3>2
        <5> QED
          BY <5>1, <5>2
      <4>2. i \notin 1..n
        BY <1>2, <3>1, <4>1
      <4>3. i - n \in 1..Len(rest) /\ rest[i - n] = r
        <5>1. i - n \in 1..Len(rest) /\ n + (i - n) = i
          BY <1>2, <4>1, <4>2
        <5> QED
          BY <1>2, <4>1, <5>1
      <4> QED
        BY <1>2, <1>3, <1>4, <3>2, <4>3
    <3>3. CASE req[r].key # k
      BY <1>3, <3>1, <3>3 DEF Order, Queued
    <3> QED
      BY <3>2, <3>3
  <2>5. \A x \in Keys : queue'[x] # NoQueue =>
           /\ \A i \in 1..Len(queue'[x]) :
                 st'[queue'[x][i]] = "queued" /\ req[queue'[x][i]].key = x
           /\ \A i, j \in 1..Len(queue'[x]) : i < j => queue'[x][i] < queue'[x][j]
    <3>1. ASSUME NEW x \in Keys, x # k, queue[x] # NoQueue
          PROVE  \A i, j \in 1..Len(queue[x]) : i < j => queue[x][i] < queue[x][j]
      BY <3>1 DEF Order, Queued
    <3> QED
      BY <1>3, <2>1, <2>2, <2>3, <3>1
  <2> QED
    BY <1>2, <2>4, <2>5 DEF Queued
<1>9. OneDrain'
  BY <1>0, <1>2, <1>3, <1>4 DEF Order, OneDrain, Active
<1>10. Batches'
  <2>1. \A e \in Requests : drain'[e] # "join" => batch'[e] = {}
    BY <1>3 DEF Order, Batches
  <2>2. \A e \in Requests : \A r \in batch'[e] : Taken(r)' /\ req[r].key = req[e].key
    <3>1. \A r \in B : Taken(r)' /\ req[r].key = req[d].key
      BY <1>2, <1>5, <1>6
    <3>2. ASSUME NEW e \in Requests, e # d, NEW r \in batch[e]
          PROVE  Taken(r)' /\ req[r].key = req[e].key
      <4>1. r \in Requests /\ Taken(r) /\ req[r].key = req[e].key
        BY <3>2 DEF Order, Batches, Types
      <4> QED
        BY <1>6, <4>1
    <3> QED
      BY <1>3, <3>1, <3>2
  <2>3. \A r, s \in B : r = s \/ (Shared(r) /\ Shared(s))
    BY <1>2
  <2>4. \A e \in Requests : \A r, s \in batch'[e] : r = s \/ (Shared(r) /\ Shared(s))
    BY <1>3, <2>3 DEF Order, Batches
  <2>5. ASSUME NEW r \in Requests, Taken(r)', Scoped(r), ~Ended(r)
        PROVE  \E e \in Requests : r \in batch'[e]
    BY <1>3, <1>4, <1>6, <2>5 DEF Order, Batches
  <2> QED
    BY <1>2, <1>6, <2>1, <2>2, <2>4, <2>5 DEF Batches, Scoped, Shared
<1>11. InOrder'
  <2> SUFFICES ASSUME NEW r \in Requests, NEW s \in Requests, r < s,
                      req[r].key = req[s].key, Scoped(s), Taken(s)'
               PROVE  Taken(r)' /\ (Ended(r)' \/ (Shared(r) /\ Shared(s)))
    BY <1>2 DEF InOrder, Scoped, Shared
  <2>1. CASE s \notin B
    BY <1>6, <2>1 DEF Order, InOrder
  <2>2. CASE s \in B
    <3>1. PICK i \in 1..n : s = q[i]
      BY <1>2, <2>2
    <3>2. Sent(r) /\ req[r].key = k
      BY <1>5, <2>2 DEF Order, Arrivals, Sent
    <3>3. CASE st[r] = "queued"
      <4>1. PICK j \in 1..Len(q) : q[j] = r
        <5>1. \E j \in 1..Len(queue[req[r].key]) : queue[req[r].key][j] = r
          BY <3>3 DEF Order, Queued
        <5>2. queue[req[r].key] = q
          BY <1>2, <3>2
        <5> QED
          BY <5>1, <5>2
      <4>2. j \in 1..n /\ j # i
        <5>1. i \in 1..Len(q) /\ q[i] \in Nat /\ q[j] \in Nat
          <6>1. i \in 1..Len(q)
            BY <1>2
          <6>2. q[i] \in Requests /\ q[j] \in Requests
            BY <1>2, <6>1
          <6> QED
            BY <6>1, <6>2, RequestNumbers
        <5>2. ~(i < j) /\ i # j
          BY <1>5, <3>1, <4>1, <5>1
        <5> QED
          BY <1>2, <3>1, <4>1, <5>2
      <4>3. r \in B /\ Shared(r) /\ Shared(s)
        BY <1>2, <3>1, <4>1, <4>2
      <4> QED
        BY <1>6, <4>3
    <3>4. CASE Taken(r)
      <4>1. ASSUME ~Ended(r) PROVE FALSE
        <5>1. PICK e \in Requests : r \in batch[e]
          BY <3>2, <3>4, <4>1 DEF Order, Batches, Scoped
        <5>2. Active(e) /\ req[e].key = k
          BY <3>2, <5>1 DEF Order, Batches, Active
        <5> QED
          BY <1>0, <1>2, <1>4, <5>1, <5>2 DEF Order, OneDrain
      <4> QED
        BY <1>6, <3>4, <4>1
    <3> QED
      BY <3>2, <3>3, <3>4 DEF Sent, Taken
  <2> QED
    BY <2>1, <2>2
<1> QED
  BY <1>7, <1>8, <1>9, <1>10, <1>11 DEF Order

\* A handler panics: its task goes with its whole batch.
LEMMA PanicOrder == ASSUME Types, Order, NEW r \in Requests, Panic(r) PROVE Order'
<1> DEFINE tasks == {d \in Requests : drain[d] = "join" /\ r \in batch[d]}
           lost  == UNION {batch[d] : d \in tasks}
<1>1. /\ UNCHANGED <<req, queue>> /\ st[r] \in {"running", "answered"}
      /\ st' = [s \in Requests |-> IF s = r THEN "panicked"
                                   ELSE IF s \in lost /\ ~Ended(s) THEN "dropped" ELSE st[s]]
      /\ drain' = [d \in Requests |-> IF d \in tasks THEN "ended" ELSE drain[d]]
      /\ batch' = [d \in Requests |-> IF d \in tasks THEN {} ELSE batch[d]]
  BY DEF Panic
<1>2. \A s \in lost : Taken(s)
  BY DEF Order, Batches
<1>3. \A d \in tasks : drain[d] = "join" /\ \A s \in batch[d] : s \in lost
  OBVIOUS
<1> HIDE DEF tasks, lost
<1>4. \A s \in Requests : /\ Sent(s)' <=> Sent(s)
                          /\ Taken(s)' <=> Taken(s)
                          /\ st'[s] = "queued" <=> st[s] = "queued"
                          /\ Ended(s) => Ended(s)'
                          /\ s \in lost => Ended(s)'
  BY <1>1, <1>2 DEF Sent, Taken, Ended
<1>5. \A d \in Requests : \/ d \in tasks /\ drain'[d] = "ended" /\ batch'[d] = {}
                          \/ d \notin tasks /\ drain'[d] = drain[d] /\ batch'[d] = batch[d]
  BY <1>1
<1>6. Arrivals'
  BY <1>1, <1>3, <1>4, <1>5 DEF Order, Arrivals
<1>7. Queued'
  <2>1. \A k \in Keys : queue[k] # NoQueue =>
           \A i \in 1..Len(queue[k]) : queue[k][i] \in Requests
    BY ElementOfSeq DEF Types
  <2> QED
    BY <1>1, <1>4, <2>1 DEF Order, Queued
<1>8. OneDrain'
  BY <1>1, <1>5 DEF Order, OneDrain, Active
<1>9. Batches'
  <2>1. \A d \in Requests : \A s \in batch[d] : s \in Requests
    BY DEF Types
  <2>2. ASSUME NEW s \in Requests, Taken(s)', Scoped(s), ~Ended(s)'
        PROVE  \E d \in Requests : s \in batch'[d]
    <3>1. PICK d \in Requests : s \in batch[d]
      BY <1>4, <2>2 DEF Order, Batches
    <3>2. d \notin tasks
      BY <1>3, <1>4, <2>2, <3>1
    <3> QED
      BY <1>5, <3>1, <3>2
  <2>3. \A d \in Requests : drain'[d] # "join" => batch'[d] = {}
    BY <1>5 DEF Order, Batches
  <2>4. \A d \in Requests : \A s \in batch'[d] : Taken(s)' /\ req[s].key = req[d].key
    BY <1>4, <1>5, <2>1 DEF Order, Batches
  <2>5. \A d \in Requests : \A s, t \in batch'[d] : s = t \/ (Shared(s) /\ Shared(t))
    BY <1>5 DEF Order, Batches
  <2> QED
    BY <1>1, <2>2, <2>3, <2>4, <2>5 DEF Batches, Scoped, Shared
<1>10. InOrder'
  BY <1>1, <1>4 DEF Order, InOrder, Scoped, Shared
<1> QED
  BY <1>6, <1>7, <1>8, <1>9, <1>10 DEF Order

\* A request arrives after all that have arrived: it goes to the end of its queue, or runs
\* by itself.
LEMMA ProcessOrder ==
    ASSUME Types, Order, NEW c \in Connections, NEW r \in Requests, NEW s \in Scopes,
           ProcessRequest(c, r, s[1], s[2])
    PROVE  Order'
<1>a. PICK k \in Keys \union {NoKey}, a \in {"exclusive", "shared"} : k = s[1] /\ a = s[2]
  BY DEF Scopes
<1> DEFINE new == [conn |-> c, key |-> k, access |-> a]
<1>1. /\ st[r] = "unsent" /\ \A t \in Requests : t < r => st[t] # "unsent"
      /\ req' = [req EXCEPT ![r] = new]
      /\ (k \in Keys /\ Enqueue(r, k)) \/ (k = NoKey /\ Becomes(r, "ready") /\ UNCHANGED queues)
  BY <1>a DEF ProcessRequest
<1>2. /\ req'[r] = new /\ req'[r].key = k
      /\ \A t \in Requests : t # r => req'[t] = req[t] /\ st'[t] = st[t]
      /\ batch' = batch
      /\ st'[r] = IF k \in Keys THEN "queued" ELSE "ready"
  BY <1>1, DispatchAssumption DEF Types, Enqueue, Becomes, queues
<1> HIDE DEF new
<1>3. \A t \in Requests : st[t] # "unsent" => t < r
  <2>1. \A t \in Requests : t \in Nat
    BY RequestNumbers
  <2> QED
    BY <1>1, <2>1 DEF Order, Arrivals, Sent
<1>4. \A t \in Requests : Taken(t) => t < r /\ t # r
  <2>1. \A t \in Requests : t \in Nat
    BY RequestNumbers
  <2> QED
    BY <1>1, <1>3, <2>1 DEF Taken
<1>5. drain[r] = "none" /\ req[r] = NoRequest
  BY <1>1 DEF Order, Arrivals, Sent
<1>6. \A k2 \in Keys : queue[k2] # NoQueue =>
         /\ queue[k2] \in Seq(Requests) /\ Len(queue[k2]) \in Nat
         /\ \A i \in 1..Len(queue[k2]) :
               queue[k2][i] \in Requests /\ queue[k2][i] < r /\ queue[k2][i] # r
  <2>1. \A k2 \in Keys : queue[k2] # NoQueue =>
           \A i \in 1..Len(queue[k2]) : queue[k2][i] \in Requests
    BY ElementOfSeq DEF Types
  <2>2. \A k2 \in Keys : queue[k2] # NoQueue =>
           queue[k2] \in Seq(Requests) /\ Len(queue[k2]) \in Nat
    BY LenProperties DEF Types
  <2>3. \A k2 \in Keys : queue[k2] # NoQueue =>
           \A i \in 1..Len(queue[k2]) : st[queue[k2][i]] = "queued"
    BY DEF Order, Queued
  <2> QED
    BY <1>1, <1>3, <2>1, <2>2, <2>3
<1>7. \A d \in Requests : \A t \in batch[d] : t \in Requests /\ t # r
  BY <1>4 DEF Order, Batches, Types
<1>8. /\ \A t \in Requests : Sent(t)' <=> Sent(t) \/ t = r
      /\ \A t \in Requests : t # r => (Taken(t)' <=> Taken(t)) /\ (Ended(t)' <=> Ended(t))
      /\ \A t \in Requests : t # r => /\ Scoped(t)' <=> Scoped(t)
                                      /\ Shared(t)' <=> Shared(t)
      /\ Taken(r)' => ~Scoped(r)'
  BY <1>1, <1>2 DEF Sent, Taken, Ended, Scoped, Shared
<1>9. Arrivals'
  <2>1. \A t \in Requests : t # r => drain'[t] = drain[t]
    BY <1>1 DEF Enqueue, queues, Types
  <2>2. \A t \in Requests : t \in Nat
    BY RequestNumbers
  <2>3. \A t, u \in Requests : t < u /\ Sent(u)' => Sent(t)'
    BY <1>1, <1>3, <1>8, <2>2 DEF Sent
  <2> QED
    BY <1>2, <1>8, <2>1, <2>3 DEF Order, Arrivals
<1>10. InOrder'
  <2> SUFFICES ASSUME NEW t \in Requests, NEW u \in Requests, t < u,
                      req'[t].key = req'[u].key, Scoped(u)', Taken(u)'
               PROVE  Taken(t)' /\ (Ended(t)' \/ (Shared(t)' /\ Shared(u)'))
    BY DEF InOrder
  <2>1. u # r /\ Taken(u)
    BY <1>8
  <2>2. t # r
    BY <1>4, <2>1, RequestNumbers
  <2> QED
    BY <1>2, <1>8, <2>1, <2>2 DEF Order, InOrder
<1>11. ASSUME Active(r)' => k \in Keys /\ queue[k] = NoQueue /\ queue'[k] # NoQueue,
              \A t \in Requests : t # r => drain'[t] = drain[t],
              \A k2 \in Keys : queue[k2] # NoQueue => queue'[k2] # NoQueue,
              Active(r)' \/ drain'[r] = "none"
       PROVE  OneDrain' /\ Batches'
  <2>1. OneDrain'
    BY <1>2, <1>5, <1>11 DEF Order, OneDrain, Active
  <2>2. \A d \in Requests : drain'[d] # "join" => batch'[d] = {}
    BY <1>2, <1>5, <1>11 DEF Order, Batches
  <2>3. \A d \in Requests : \A t \in batch[d] : d # r
    BY <1>5 DEF Order, Batches
  <2>4. \A d \in Requests : \A t \in batch'[d] : Taken(t)' /\ req'[t].key = req'[d].key
    BY <1>2, <1>7, <1>8, <2>3 DEF Order, Batches
  <2>5. \A d \in Requests : \A t, u \in batch'[d] : t = u \/ (Shared(t)' /\ Shared(u)')
    BY <1>2, <1>7, <1>8 DEF Order, Batches
  <2>6. \A t \in Requests : Taken(t)' /\ Scoped(t)' /\ ~Ended(t)' =>
           \E d \in Requests : t \in batch'[d]
    BY <1>2, <1>8 DEF Order, Batches
  <2> QED
    BY <2>1, <2>2, <2>4, <2>5, <2>6 DEF Batches
<1>12. CASE k = NoKey
  <2>1. UNCHANGED queues /\ k \notin Keys /\ st'[r] = "ready"
    BY <1>1, <1>2, <1>12, DispatchAssumption
  <2>2. OneDrain' /\ Batches'
    BY <1>5, <1>11, <2>1 DEF queues, Active
  <2>3. Queued'
    BY <1>1, <1>2, <1>6, <2>1 DEF Order, Queued, queues
  <2> QED
    BY <1>9, <1>10, <2>2, <2>3 DEF Order
<1>13. CASE k \in Keys
  <2>1. PICK q \in Seq(Requests), m \in Nat :
           /\ queue' = [queue EXCEPT ![k] = q] /\ Len(q) = m + 1 /\ q[m + 1] = r
           /\ queue[k] # NoQueue => m = Len(queue[k]) /\ \A i \in 1..m : q[i] = queue[k][i]
           /\ queue[k] = NoQueue => m = 0
    <3>1. CASE queue[k] # NoQueue
      <4>1. /\ queue' = [queue EXCEPT ![k] = Append(queue[k], r)]
        BY <1>1, <1>13, <3>1, DispatchAssumption DEF Enqueue
      <4>2. /\ Append(queue[k], r) \in Seq(Requests)
            /\ Len(Append(queue[k], r)) = Len(queue[k]) + 1
            /\ Append(queue[k], r)[Len(queue[k]) + 1] = r
            /\ \A i \in 1..Len(queue[k]) : Append(queue[k], r)[i] = queue[k][i]
        BY <1>6, <1>13, <3>1, AppendProperties
      <4> QED
        BY <1>6, <1>13, <3>1, <4>1, <4>2
    <3>2. CASE queue[k] = NoQueue
      <4>1. queue' = [queue EXCEPT ![k] = <<r>>]
        BY <1>1, <1>13, <3>2, DispatchAssumption DEF Enqueue
      <4>2. <<r>> \in Seq(Requests) /\ Len(<<r>>) = 0 + 1 /\ <<r>>[0 + 1] = r
        OBVIOUS
      <4> QED
        BY <3>2, <4>1, <4>2
    <3> QED
      BY <3>1, <3>2
  <2>2. /\ queue'[k] = q /\ q # NoQueue
        /\ \A k2 \in Keys : k2 # k => queue'[k2] = queue[k2]
    BY <1>13, <2>1, DispatchAssumption DEF Types
  <2>3. /\ \A t \in Requests : t # r => drain'[t] = drain[t]
        /\ drain'[r] = drain[r] \/ (drain'[r] = "take" /\ queue[k] = NoQueue)
    BY <1>1, <1>13, DispatchAssumption DEF Enqueue, Types
  <2>4. OneDrain' /\ Batches'
    BY <1>5, <1>11, <1>13, <2>2, <2>3 DEF Active
  <2>5. Queued'
    <3>1. ASSUME NEW i \in 1..Len(q) PROVE st'[q[i]] = "queued" /\ req'[q[i]].key = k
      <4>1. CASE i = m + 1
        BY <1>2, <1>13, <2>1, <4>1
      <4>2. CASE i # m + 1
        <5>1. /\ queue[k] # NoQueue /\ i \in 1..Len(queue[k]) /\ q[i] = queue[k][i]
          BY <2>1, <4>2
        <5> QED
          BY <1>2, <1>6, <1>13, <5>1 DEF Order, Queued
      <4> QED
        BY <4>1, <4>2
    <3>2. ASSUME NEW i \in 1..Len(q), NEW j \in 1..Len(q), i < j PROVE q[i] < q[j]
      <4>1. queue[k] # NoQueue /\ i \in 1..m /\ q[i] = queue[k][i]
        BY <2>1, <3>2
      <4>2. CASE j = m + 1
        BY <1>6, <1>13, <2>1, <4>1, <4>2
      <4>3. CASE j # m + 1
        <5>1. j \in 1..m /\ q[j] = queue[k][j]
          BY <2>1, <4>1, <4>3
        <5> QED
          BY <1>13, <2>1, <3>2, <4>1, <5>1 DEF Order, Queued
      <4> QED
        BY <4>2, <4>3
    <3>3. ASSUME NEW k2 \in Keys, k2 # k, queue[k2] # NoQueue
          PROVE  /\ \A i \in 1..Len(queue[k2]) :
                       st'[queue[k2][i]] = "queued" /\ req'[queue[k2][i]].key = k2
                 /\ \A i, j \in 1..Len(queue[k2]) : i < j => queue[k2][i] < queue[k2][j]
      BY <1>2, <1>6, <3>3 DEF Order, Queued
    <3>4. ASSUME NEW t \in Requests, st'[t] = "queued"
          PROVE  /\ req'[t].key \in Keys /\ queue'[req'[t].key] # NoQueue
                 /\ \E i \in 1..Len(queue'[req'[t].key]) : queue'[req'[t].key][i] = t
      <4>1. CASE t = r
        <5>1. m + 1 \in 1..Len(q)
          BY <2>1
        <5> QED
          BY <1>2, <1>13, <2>1, <2>2, <4>1, <5>1
      <4>2. CASE t # r
        <5>1. /\ st[t] = "queued" /\ req'[t] = req[t]
          BY <1>2, <3>4, <4>2
        <5>2. /\ req[t].key \in Keys /\ queue[req[t].key] # NoQueue
              /\ \E i \in 1..Len(queue[req[t].key]) : queue[req[t].key][i] = t
          BY <5>1 DEF Order, Queued
        <5>3. CASE req[t].key # k
          BY <2>2, <5>1, <5>2, <5>3
        <5>4. CASE req[t].key = k
          <6>1. PICK i \in 1..m : q[i] = t
            BY <2>1, <5>2, <5>4
          <6>2. i \in 1..Len(q)
            BY <2>1
          <6> QED
            BY <1>13, <2>2, <5>1, <5>4, <6>1, <6>2
        <5> QED
          BY <5>3, <5>4
      <4> QED
        BY <4>1, <4>2
    <3>5. \A k2 \in Keys : queue'[k2] # NoQueue =>
             /\ \A i \in 1..Len(queue'[k2]) :
                   st'[queue'[k2][i]] = "queued" /\ req'[queue'[k2][i]].key = k2
             /\ \A i, j \in 1..Len(queue'[k2]) : i < j => queue'[k2][i] < queue'[k2][j]
      BY <2>2, <3>1, <3>2, <3>3
    <3> QED
      BY <3>4, <3>5 DEF Queued
  <2> QED
    BY <1>9, <1>10, <2>4, <2>5 DEF Order
<1> QED
  BY <1>12, <1>13

\* Every step keeps the order.
LEMMA OrderStep == IndInv /\ [Next]_vars => Order'
<1> SUFFICES ASSUME Types, Order, [Next]_vars PROVE Order'
  BY DEF IndInv
<1>1. ASSUME UNCHANGED <<req, st, queue, drain, batch>> PROVE Order'
  BY <1>1 DEF Order, Arrivals, Queued, OneDrain, Batches, InOrder, Sent, Taken, Ended, Scoped,
     Shared, Active
<1>2. CASE UNCHANGED vars
  BY <1>1, <1>2 DEF vars, queues
<1>3. ASSUME NEW r \in Requests, Drain(r) PROVE Order'
  BY <1>3, TakeBatchOrder, BatchEndsOrder, DrainEndsOrder DEF Drain
<1>4. ASSUME NEW r \in Requests, Handler(r) \/ Ask(r) \/ Answer(r) PROVE Order'
  BY <1>4, HandlerEffects, HandlerOrder
<1>5. CASE Processor \/ Finish \/ SecondSignal \/ \E c \in Connections : ConnectionClosed(c)
  BY <1>1, <1>5 DEF Processor, CloseGate, CleanUp, Drained, Finish, SecondSignal,
     ConnectionClosed, queues
<1> QED
  BY <1>2, <1>3, <1>4, <1>5, PanicOrder, ProcessOrder DEF Next

----------------------------------------------------------------------------
(* The invariant: what a connection leaves *)

\* The events of connections: closing one shuts its gate, waits and cleans up.
LEMMA ProcessorClosed ==
    ASSUME Types, Closed,
           Processor \/ Finish \/ SecondSignal \/ \E c \in Connections : ConnectionClosed(c)
    PROVE  Closed'
<1> USE DispatchAssumption DEF Closed, Gates, ClosedLeavesNothing, InFlight, Types, queues,
        tables
<1>1. CASE CloseGate
  BY <1>1 DEF CloseGate
<1>2. CASE CleanUp
  <2>1. /\ loop = "wait" /\ closing' = NoConn /\ loop' = "recv"
        /\ \A r \in Requests : req[r].conn = closing =>
              ~InFlight(r) /\ r \notin contexts' /\ r \notin resources'
        /\ contexts' \subseteq contexts /\ resources' \subseteq resources
        /\ UNCHANGED <<req, st, accepting, open>>
    BY <1>2 DEF CleanUp, InFlightOf
  <2> QED
    BY <2>1
<1>3. CASE Drained \/ SecondSignal
  BY <1>3 DEF Drained, SecondSignal
<1>4. CASE Finish
  BY <1>4 DEF Finish
<1>5. ASSUME NEW c \in Connections, ConnectionClosed(c) PROVE Closed'
  BY <1>5 DEF ConnectionClosed
<1> QED
  BY <1>1, <1>2, <1>3, <1>4, <1>5 DEF Processor

\* The tasks: a handler starts only behind an open gate.
LEMMA TaskClosed ==
    ASSUME Types, Order, Closed, NEW r \in Requests,
           Drain(r) \/ Handler(r) \/ Ask(r) \/ Answer(r) \/ Panic(r)
    PROVE  Closed'
<1> USE DispatchAssumption DEF Closed, Gates, ClosedLeavesNothing, queues, gates, tables
<1>1. UNCHANGED <<req, gates>>
  BY DEF Drain, TakeBatch, BatchEnds, DrainEnds, Handler, Run, TimesOut, CancelRequest,
     Respond, Ask, Answer, Panic
<1>2. ASSUME \A s \in Requests : InFlight(s)' => InFlight(s), UNCHANGED <<contexts, resources>>
      PROVE  Closed'
  BY <1>1, <1>2
<1>3. CASE Drain(r)
  <2>1. CASE TakeBatch(r)
    BY <1>2, <2>1 DEF TakeBatch, InFlight
  <2>2. CASE BatchEnds(r) \/ DrainEnds(r)
    BY <1>2, <2>2 DEF BatchEnds, DrainEnds, InFlight
  <2> QED
    BY <1>3, <2>1, <2>2 DEF Drain
<1>4. CASE Run(r)
  <2>1. \A s \in Requests : InFlight(s)' => InFlight(s) \/ accepting[req[s].conn]
    BY <1>4 DEF Run, Becomes, InFlight, Types
  <2>2. UNCHANGED <<contexts, resources>>
    BY <1>4 DEF Run
  <2> QED
    BY <1>1, <2>1, <2>2
<1>5. CASE TimesOut(r) \/ CancelRequest(r) \/ Ask(r) \/ Answer(r)
  BY <1>2, <1>5 DEF TimesOut, CancelRequest, Ask, Answer, Becomes, InFlight, Types
<1>6. CASE Respond(r)
  <2>1. /\ InFlight(r) /\ contexts' \subseteq contexts /\ resources' \subseteq resources \union {r}
        /\ \A s \in Requests : InFlight(s)' => InFlight(s)
    BY <1>6 DEF Respond, Becomes, InFlight, Types
  <2> QED
    BY <1>1, <2>1
<1>7. CASE Panic(r)
  BY <1>2, <1>7 DEF Panic, InFlight, Types
<1> QED
  BY <1>3, <1>4, <1>5, <1>6, <1>7 DEF Handler

\* Every step keeps what holds of closed connections.
LEMMA ClosedStep == IndInv /\ [Next]_vars => Closed'
<1> SUFFICES ASSUME Types, Order, Closed, [Next]_vars PROVE Closed'
  BY DEF IndInv
<1>1. CASE UNCHANGED vars
  BY <1>1 DEF vars, queues, gates, tables, Closed, Gates, ClosedLeavesNothing, InFlight
<1>2. ASSUME NEW c \in Connections, NEW r \in Requests, NEW s \in Scopes,
             ProcessRequest(c, r, s[1], s[2])
      PROVE  Closed'
  <2>1. /\ req'[r].conn = c /\ c \in open /\ UNCHANGED <<gates, resources>>
        /\ \A t \in Requests : t # r => req'[t] = req[t] /\ st'[t] = st[t]
        /\ contexts' = contexts \union {r}
    BY <1>2 DEF ProcessRequest, Enqueue, Becomes, Types
  <2> QED
    BY <2>1 DEF Closed, Gates, ClosedLeavesNothing, InFlight, gates
<1> QED
  BY <1>1, <1>2, ProcessorClosed, TaskClosed DEF Next

----------------------------------------------------------------------------
(* Theorems *)

\* The invariant holds in every reachable state.
LEMMA Invariance == Spec => []IndInv
<1>1. IndInv /\ [Next]_vars => IndInv'
  BY TypeStep, OrderStep, ClosedStep DEF IndInv
<1> QED
  BY IndInit, <1>1, PTL DEF Spec

\* The requests, the queues, the tasks and the processor keep their types, and a request
\* is in a queue exactly while it is queued.
THEOREM TypeCorrect == Spec => []TypeOK
<1>1. IndInv => TypeOK
  <2> SUFFICES ASSUME Types, Order PROVE TypeOK
    BY DEF IndInv
  <2> DEFINE U == UNION {{queue[k][i] : i \in DOMAIN queue[k]} :
                            k \in {k \in Keys : queue[k] # NoQueue}}
  <2>1. \A k \in Keys : queue[k] # NoQueue =>
           /\ DOMAIN queue[k] = 1..Len(queue[k])
           /\ \A i \in 1..Len(queue[k]) : queue[k][i] \in Requests
    BY ElementOfSeq, LenProperties DEF Types
  <2>2. ASSUME NEW r \in U PROVE r \in Requests /\ st[r] = "queued"
    <3>1. PICK k \in Keys : queue[k] # NoQueue /\ r \in {queue[k][i] : i \in DOMAIN queue[k]}
      BY <2>2
    <3> QED
      BY <2>1, <3>1 DEF Order, Queued
  <2>3. ASSUME NEW r \in Requests, st[r] = "queued" PROVE r \in U
    <3>1. PICK k \in Keys : k = req[r].key /\ queue[k] # NoQueue
      BY <2>3 DEF Order, Queued
    <3>2. r \in {queue[k][i] : i \in DOMAIN queue[k]}
      BY <2>1, <2>3, <3>1 DEF Order, Queued
    <3> QED
      BY <3>1, <3>2
  <2>4. {r \in Requests : st[r] = "queued"} = U
    BY <2>2, <2>3
  <2> HIDE DEF U
  <2> QED
    BY <2>4 DEF Types, TypeOK, RequestType, U
<1> QED
  BY <1>1, Invariance, PTL

\* Requests of a key that conflict run one after the other, in the order of their
\* arrival, however the queue's task takes them in batches, is joined, ends and is spawned
\* anew, and whoever panics.
THEOREM KeyedRequestsInOrder == Spec => []ConflictsInOrder
<1>1. IndInv => ConflictsInOrder
  BY DEF IndInv, Order, InOrder, ConflictsInOrder, Scoped, Shared, Taken, InFlight
<1> QED
  BY <1>1, Invariance, PTL

\* A connection that has been closed has no handler running, now or later, and has left no
\* request context, watch, command or process.
THEOREM ConnectionsCleanedUp == Spec => []ClosedLeavesNothing
<1>1. IndInv => ClosedLeavesNothing
  BY DEF IndInv, Closed
<1> QED
  BY <1>1, Invariance, PTL
=============================================================================
