-------------------------- MODULE RequestDispatch --------------------------
(***************************************************************************)
(* How the app server (codex-rs/app-server) runs the requests of its       *)
(* clients.  One processor task takes the events of all connections in     *)
(* turn.  A request with a serialization scope is put into the queue of    *)
(* its key, which one drain task empties; any other request gets a task of *)
(* its own.  A handler runs behind the gate of its connection, may ask the *)
(* clients something and wait for the answer, and leaves connection-scoped *)
(* resources behind, which the processor removes when the connection has   *)
(* closed.                                                                 *)
(*                                                                         *)
(* An action is what a task does between two awaits.  Connections are      *)
(* initialized, and requests are numbered in the order of their arrival.   *)
(***************************************************************************)
EXTENDS Naturals, Sequences, FiniteSets

CONSTANTS
    Connections,
    Keys,         \* RequestSerializationQueueKey
    NoKey,        \* a request without a serialization scope
    NoQueue,      \* no entry for a key in the map of queues
    NoConn,
    MaxRequests,  \* bound: how many requests arrive
    Offers,       \* bound: request -> the connections, keys and accesses it may have
    MaxAsking,    \* bound: how many handlers wait for an answer, or have had one
    MaxPanics     \* bound: how many handlers panic

Requests == 1..MaxRequests
\* RequestSerializationQueueKey::from_scope: shared reads have a key.
Scopes == {<<NoKey, "exclusive">>} \union (Keys \X {"exclusive", "shared"})

ASSUME DispatchAssumption ==
    /\ MaxRequests \in Nat /\ MaxAsking \in Nat /\ MaxPanics \in Nat
    /\ NoKey \notin Keys /\ NoConn \notin Connections /\ NoQueue \notin Seq(Requests)
    /\ Offers \in [Requests -> SUBSET (Connections \X Scopes)]

VARIABLES
    req,        \* request -> its connection, key and access
    st,         \* request -> how far it is
    queue,      \* key -> its VecDeque, or NoQueue
    drain,      \* request -> the drain task that its enqueue spawned
    batch,      \* drain task -> the requests it has joined
    accepting,  \* connection -> `accepting` of its gate
    open,       \* the processor's `connections`
    loop,       \* where the processor is
    closing,    \* the connection it is closing
    contexts,   \* requests with an entry in request_contexts
    resources,  \* requests whose watch, command or process is registered
    callbacks,  \* requests whose question has an entry in request_id_to_callback
    panics

queues == <<queue, drain, batch>>
gates  == <<accepting, open, loop, closing>>
tables == <<contexts, resources, callbacks>>
vars   == <<req, st, queues, gates, tables, panics>>

\* Between gate.run's token and its drop, a handler is in flight.
InFlight(r) == st[r] \in {"running", "asking", "timed_out", "answered"}
Ended(r)    == st[r] \in {"done", "skipped", "panicked", "dropped"}
InFlightOf(c) == {r \in Requests : InFlight(r) /\ req[r].conn = c}
Becomes(r, s) == st' = [st EXCEPT ![r] = s]
Up == loop \notin {"ended", "forced"}   \* else the process has exited, with every task

----------------------------------------------------------------------------
(* process_request *)

\* RequestSerializationQueues::enqueue: whoever makes the entry spawns the drain task.
Enqueue(r, k) ==
    /\ Becomes(r, "queued")
    /\ \/ /\ queue[k] # NoQueue
          /\ queue' = [queue EXCEPT ![k] = Append(@, r)]
          /\ UNCHANGED drain
       \/ /\ queue[k] = NoQueue
          /\ queue' = [queue EXCEPT ![k] = <<r>>]
          /\ drain' = [drain EXCEPT ![r] = "take"]
    /\ UNCHANGED batch

\* run_request_with_context, dispatch_initialized_client_request.
ProcessRequest(c, r, k, access) ==
    /\ loop = "recv" /\ c \in open
    /\ st[r] = "unsent" /\ \A s \in Requests : s < r => st[s] # "unsent"
    /\ req' = [req EXCEPT ![r] = [conn |-> c, key |-> k, access |-> access]]
    /\ contexts' = contexts \union {r}
    /\ \/ k \in Keys /\ Enqueue(r, k)
       \/ k = NoKey /\ Becomes(r, "ready") /\ UNCHANGED queues
    /\ UNCHANGED <<gates, resources, callbacks, panics>>

----------------------------------------------------------------------------
(* RequestSerializationQueues::drain, by the task d *)

Key(d) == req[d].key

\* The requests taken together: the first one, with the shared reads that follow it.
Length(q) ==
    CHOOSE n \in 1..Len(q) :
        /\ n = 1 \/ \A i \in 1..n : req[q[i]].access = "shared"
        /\ n = Len(q) \/ req[q[1]].access # "shared" \/ req[q[n + 1]].access # "shared"

\* Mutant: of several shared reads only the first leaves the queue.
TakeBatchKeepsReads(d) ==
    /\ drain[d] = "take" /\ queue[Key(d)] \notin {NoQueue, <<>>}
    /\ LET q == queue[Key(d)]
       IN  /\ batch' = [batch EXCEPT ![d] = {q[i] : i \in 1..Length(q)}]
           /\ queue' = [queue EXCEPT ![Key(d)] = Tail(q)]
           /\ st' = [r \in Requests |-> IF r \in batch'[d] THEN "ready" ELSE st[r]]
    /\ drain' = [drain EXCEPT ![d] = "join"]
    /\ UNCHANGED <<req, gates, tables, panics>>

\* Mutant: the entry is removed with the last request, not by the next look.
TakeBatchRemovesKey(d) ==
    /\ drain[d] = "take" /\ queue[Key(d)] \notin {NoQueue, <<>>}
    /\ LET q == queue[Key(d)]
           n == Length(q)
       IN  /\ batch' = [batch EXCEPT ![d] = {q[i] : i \in 1..n}]
           /\ queue' = [queue EXCEPT ![Key(d)] = IF n = Len(q) THEN NoQueue
                                                 ELSE SubSeq(q, n + 1, Len(q))]
           /\ st' = [r \in Requests |-> IF r \in batch'[d] THEN "ready" ELSE st[r]]
    /\ drain' = [drain EXCEPT ![d] = "join"]
    /\ UNCHANGED <<req, gates, tables, panics>>

\* The queue is looked at under its lock.
TakeBatch(d) ==
    /\ drain[d] = "take" /\ queue[Key(d)] \notin {NoQueue, <<>>}
    /\ LET q == queue[Key(d)]
           n == Length(q)
       IN  /\ batch' = [batch EXCEPT ![d] = {q[i] : i \in 1..n}]
           /\ queue' = [queue EXCEPT ![Key(d)] = SubSeq(q, n + 1, Len(q))]
           /\ st' = [r \in Requests |-> IF r \in batch'[d] THEN "ready" ELSE st[r]]
    /\ drain' = [drain EXCEPT ![d] = "join"]
    /\ UNCHANGED <<req, gates, tables, panics>>

\* join_all: every request of the batch has run, or has been skipped.
BatchEnds(d) ==
    /\ drain[d] = "join" /\ \A r \in batch[d] : Ended(r)
    /\ drain' = [drain EXCEPT ![d] = "take"] /\ batch' = [batch EXCEPT ![d] = {}]
    /\ UNCHANGED <<req, st, queue, gates, tables, panics>>

\* Mutant: the task returns and leaves the empty queue.
DrainEndsKeepingKey(d) ==
    /\ drain[d] = "take" /\ queue[Key(d)] = <<>>
    /\ drain' = [drain EXCEPT ![d] = "ended"]
    /\ UNCHANGED <<req, st, queue, batch, gates, tables, panics>>

\* The queue is empty: the entry is removed and the task returns.
DrainEnds(d) ==
    /\ drain[d] = "take" /\ queue[Key(d)] = <<>>
    /\ queue' = [queue EXCEPT ![Key(d)] = NoQueue]
    /\ drain' = [drain EXCEPT ![d] = "ended"]
    /\ UNCHANGED <<req, st, batch, gates, tables, panics>>

----------------------------------------------------------------------------
(* ConnectionRpcGate::run and the handler *)

Run(r) ==
    /\ st[r] = "ready"
    /\ Becomes(r, IF accepting[req[r].conn] THEN "running" ELSE "skipped")
    /\ UNCHANGED <<req, queues, gates, tables, panics>>

\* ExternalAuthRefreshBridge::refresh: the callback is registered and every client is
\* asked.
Ask(r) ==
    /\ st[r] = "running" /\ Up
    /\ Cardinality({s \in Requests : st[s] \in {"asking", "timed_out", "answered"}}) < MaxAsking
    /\ Becomes(r, "asking")
    /\ callbacks' = callbacks \union {r}
    /\ UNCHANGED <<req, queues, gates, contexts, resources, panics>>

\* process_response and process_error: the answer reaches a handler that still waits.
Answer(r) ==
    /\ loop = "recv" /\ open # {} /\ r \in callbacks
    /\ callbacks' = callbacks \ {r}
    /\ Becomes(r, IF st[r] = "asking" THEN "answered" ELSE st[r])
    /\ UNCHANGED <<req, queues, gates, contexts, resources, panics>>

\* Mutant: the question has no timeout.
NeverTimesOut(r) == FALSE /\ UNCHANGED vars

TimesOut(r) ==
    /\ st[r] = "asking"
    /\ Becomes(r, "timed_out")
    /\ UNCHANGED <<req, queues, gates, tables, panics>>

CancelRequest(r) ==
    /\ st[r] = "timed_out"
    /\ Becomes(r, "answered")
    /\ callbacks' = callbacks \ {r}
    /\ UNCHANGED <<req, queues, gates, contexts, resources, panics>>

\* The handler answers its request and drops its token; some that are no shared read
\* start a watch, a command or a process of the connection.
Respond(r) ==
    /\ st[r] \in {"running", "answered"}
    /\ Becomes(r, "done")
    /\ contexts' = contexts \ {r}
    /\ \/ UNCHANGED resources
       \/ req[r].access = "exclusive" /\ resources' = resources \union {r}
    /\ UNCHANGED <<req, queues, gates, callbacks, panics>>

\* A handler panics.  The drain task unwinds: the other requests of its batch are
\* dropped, and the entry of its key stays in the map.
Panic(r) ==
    /\ st[r] \in {"running", "answered"} /\ Up /\ panics < MaxPanics
    /\ panics' = panics + 1
    /\ LET tasks == {d \in Requests : drain[d] = "join" /\ r \in batch[d]}
           lost  == UNION {batch[d] : d \in tasks}
       IN  /\ st' = [s \in Requests |-> IF s = r THEN "panicked"
                                        ELSE IF s \in lost /\ ~Ended(s) THEN "dropped"
                                        ELSE st[s]]
           /\ drain' = [d \in Requests |-> IF d \in tasks THEN "ended" ELSE drain[d]]
           /\ batch' = [d \in Requests |-> IF d \in tasks THEN {} ELSE batch[d]]
    /\ UNCHANGED <<req, queue, gates, tables>>

----------------------------------------------------------------------------
(* connection_closed, and the end of the processor *)

\* TransportEvent::ConnectionClosed.
ConnectionClosed(c) ==
    /\ loop = "recv" /\ c \in open
    /\ open' = open \ {c}
    /\ closing' = c /\ loop' = "close"
    /\ UNCHANGED <<req, st, queues, accepting, tables, panics>>

\* ConnectionRpcGate::shutdown: the processor then waits for the tokens.
CloseGate ==
    /\ loop = "close"
    /\ accepting' = [accepting EXCEPT ![closing] = FALSE]
    /\ loop' = "wait"
    /\ UNCHANGED <<req, st, queues, open, closing, tables, panics>>

\* Mutant: the gate does not wait for the handlers that have a token.
CleanUpAtOnce ==
    /\ loop = "wait"
    /\ LET gone == {r \in Requests : req[r].conn = closing}
       IN  contexts' = contexts \ gone /\ resources' = resources \ gone
    /\ closing' = NoConn /\ loop' = "recv"
    /\ UNCHANGED <<req, st, queues, accepting, open, callbacks, panics>>

\* MessageProcessor::connection_closed: the request contexts, the watches, the commands
\* and the processes of the connection.
CleanUp ==
    /\ loop = "wait" /\ InFlightOf(closing) = {}
    /\ LET gone == {r \in Requests : req[r].conn = closing}
       IN  contexts' = contexts \ gone /\ resources' = resources \ gone
    /\ closing' = NoConn /\ loop' = "recv"
    /\ UNCHANGED <<req, st, queues, accepting, open, callbacks, panics>>

\* The loop is left: by a signal, once no turn is running, or with the last connection.
Finish ==
    /\ loop = "recv"
    /\ loop' = "drain"
    /\ accepting' = [c \in Connections |-> accepting[c] /\ c \notin open]
    /\ UNCHANGED <<req, st, queues, open, closing, tables, panics>>

\* All gates are shut; the threads are shut down as well.
Drained ==
    /\ loop = "drain" /\ \A c \in open : InFlightOf(c) = {}
    /\ loop' = "ended"
    /\ UNCHANGED <<req, st, queues, accepting, open, closing, tables, panics>>

\* The second signal.
SecondSignal ==
    /\ loop = "recv"
    /\ loop' = "forced"
    /\ UNCHANGED <<req, st, queues, accepting, open, closing, tables, panics>>

----------------------------------------------------------------------------
NoRequest == [conn |-> NoConn, key |-> NoKey, access |-> "exclusive"]

Init ==
    /\ req = [r \in Requests |-> NoRequest] /\ st = [r \in Requests |-> "unsent"]
    /\ queue = [k \in Keys |-> NoQueue]
    /\ drain = [r \in Requests |-> "none"] /\ batch = [r \in Requests |-> {}]
    /\ accepting = [c \in Connections |-> TRUE] /\ open = Connections
    /\ loop = "recv" /\ closing = NoConn
    /\ contexts = {} /\ resources = {} /\ callbacks = {}
    /\ panics = 0

Drain(d)   == Up /\ (TakeBatch(d) \/ BatchEnds(d) \/ DrainEnds(d))
Handler(r) == Up /\ (Run(r) \/ TimesOut(r) \/ CancelRequest(r) \/ Respond(r))
Processor  == CloseGate \/ CleanUp \/ Drained

Next ==
    \/ \E c \in Connections :
          \/ ConnectionClosed(c)
          \/ \E r \in Requests, s \in Scopes :
                <<c, s>> \in Offers[r] /\ ProcessRequest(c, r, s[1], s[2])
    \/ \E r \in Requests : Drain(r) \/ Handler(r) \/ Ask(r) \/ Answer(r) \/ Panic(r)
    \/ Processor \/ Finish \/ SecondSignal

Spec == Init /\ [][Next]_vars

(***************************************************************************)
(* The tasks are scheduled, a handler ends, and the clock reaches the      *)
(* timeout of a question.  Clients need not answer, and the events they    *)
(* cause get no fairness.                                                  *)
(***************************************************************************)
Fairness ==
    /\ \A r \in Requests : WF_vars(Drain(r)) /\ WF_vars(Handler(r))
    /\ WF_vars(Processor)

FairSpec == Spec /\ Fairness

----------------------------------------------------------------------------
(* Properties *)

States == {"unsent", "queued", "ready", "running", "asking", "timed_out", "answered",
           "done", "skipped", "panicked", "dropped"}

\* Type invariant of the requests, the queues, the gates and the processor; a request
\* is in a queue exactly while it is queued.
TypeOK ==
    /\ req \in [Requests -> [conn : Connections \union {NoConn}, key : Keys \union {NoKey},
                             access : {"exclusive", "shared"}]]
    /\ st \in [Requests -> States]
    /\ queue \in [Keys -> Seq(Requests) \union {NoQueue}]
    /\ {r \in Requests : st[r] = "queued"} =
          UNION {{queue[k][i] : i \in DOMAIN queue[k]} : k \in {k \in Keys : queue[k] # NoQueue}}
    /\ drain \in [Requests -> {"none", "take", "join", "ended"}]
    /\ batch \in [Requests -> SUBSET Requests]
    /\ accepting \in [Connections -> BOOLEAN] /\ open \subseteq Connections
    /\ loop \in {"recv", "close", "wait", "drain", "ended", "forced"}
    /\ closing \in Connections \union {NoConn}
    /\ closing # NoConn <=> loop \in {"close", "wait"}
    /\ contexts \union resources \union callbacks \subseteq Requests
    /\ panics \in 0..MaxPanics

\* Safety.  Two requests of a key that are not both shared reads run one after the
\* other, in the order of their arrival: a handler starts only when every earlier one it
\* conflicts with has ended, whichever task drains the queue.
ConflictsInOrder ==
    \A r, s \in Requests :
        /\ r < s /\ req[r].key = req[s].key /\ req[s].key # NoKey
        /\ ~(req[r].access = "shared" /\ req[s].access = "shared")
        /\ InFlight(s) \/ st[s] = "done"
        => Ended(r)

\* Safety.  When a connection has been closed, no handler of it is running, or can start
\* from a queue later, and nothing it made is left: no request context, watch, command or
\* process.
ClosedLeavesNothing ==
    \A r \in Requests :
        req[r].conn \in Connections \ (open \union {closing}) =>
            ~InFlight(r) /\ r \notin contexts \union resources

\* Liveness.  Every request that was accepted is run to its end or is skipped, also one
\* queued behind a closed connection's, unless a handler has panicked or the server has
\* ended.
EveryRequestEnds ==
    \A r \in Requests : st[r] # "unsent" ~> Ended(r) \/ panics > 0 \/ ~Up

\* Liveness.  The processor gets back to its events: a handler that it waits for while it
\* closes a connection never needs the processor, not even when it has asked a client
\* whose answer only the processor can deliver.
ProcessorReturns ==
    loop \in {"close", "wait", "drain"} ~> loop \in {"recv", "ended"}
============================================================================
