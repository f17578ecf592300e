--------------------------- MODULE SharedSession ---------------------------
(***************************************************************************)
(* Shared sessions: the transcript several desktops keep on the workspace  *)
(* server (server/src/sessions.ts), and the part of the desktop's renderer *)
(* (desktop/src/renderer/App.tsx) that opens, creates, renames and         *)
(* synchronises them.                                                      *)
(*                                                                         *)
(* The server stores snapshots under ever larger revisions and refuses one *)
(* whose baseRevision is not the latest.  The renderer is single threaded, *)
(* but each of its async functions is suspended at every await; a call is  *)
(* one such function, an action runs it from one await to the next.  The   *)
(* transactions of the server run between them.                            *)
(***************************************************************************)
EXTENDS Integers, Sequences, FiniteSets

CONSTANTS
    Devices,
    Sessions,     \* ids of shared sessions
    Existing,     \* those created by a client that sent no snapshot
    Threads,      \* ids of local Codex threads
    Edits,        \* contributions to a transcript: a user message and its turn
    Sync,         \* the call that runs the queued synchronisations of a device
    UserCalls,    \* calls of a device that the user starts
    NoSession, NoThread, NoKey, NoCall, NoDevice,
    MaxSwitches,  \* bound: sessions opened, created or left, by all devices together
    MaxRenames,   \* bound: renames
    MaxDeletes,   \* bound: deletions
    NetworkFails  \* whether requests and answers may be lost

Calls  == Devices \X (UserCalls \union {Sync})
Device(c) == c[1]

ASSUME SessionAssumption ==
    /\ Existing \subseteq Sessions /\ Sync \notin UserCalls
    /\ NoSession \notin Sessions /\ NoThread \notin Threads /\ NoDevice \notin Devices
    /\ NoCall \notin Calls
    /\ MaxSwitches \in Nat /\ MaxRenames \in Nat /\ MaxDeletes \in Nat
    /\ NetworkFails \in BOOLEAN

VARIABLES
    snap,     \* session -> its latest snapshot; revision 0 when it has none
    bound,    \* session -> local_thread_id of its row
    exists,   \* sessions with a row
    deleted,  \* sessions whose row was deleted
    lock,     \* session -> the call whose transaction holds the lock on its row
    lastRev,  \* the BIGSERIAL of messages
    owner,    \* thread -> the device that has its rollout
    turns,    \* thread -> the edits in its turns
    ui,       \* device -> the refs and the state of its renderer
    job,      \* call -> where it is and what it carries
    shared,   \* edits that have been in a snapshot (history variable)
    renames, deletes

server == <<snap, bound, exists, deleted, lock, lastRev>>
local  == <<owner, turns>>
bounds == <<renames, deletes>>
vars   == <<server, local, ui, job, shared, bounds>>

NoSnapshot == [rev |-> 0, blocks |-> {}, thread |-> NoThread, by |-> NoCall]
NoJob == [pc |-> "idle", kind |-> "sync", s |-> NoSession, seq |-> 0, base |-> 0,
          rev |-> 0, blocks |-> {}, thread |-> NoThread, row |-> NoThread, key |-> NoKey]
FreshUI ==
    [list    |-> [s \in Existing |-> NoThread],  \* sharedSessions: their local_thread_id
     session |-> NoSession,  \* activeSharedSession and its ref
     base    |-> 0,          \* activeSharedSnapshotRevision, 0 when null
     blocks  |-> {}, thread |-> NoThread,
     seq     |-> 0,          \* switchThreadSeq
     timer   |-> FALSE,      \* sharedSyncTimer is running
     lastKey |-> NoKey,      \* lastSharedSnapshotKey
     wantKey |-> NoKey,      \* inFlightSharedSnapshotKey
     queue   |-> <<>>,       \* sharedSnapshotSyncQueue
     warned  |-> FALSE]      \* enterpriseError: the session changed elsewhere

\* The effect after blocks were set: the timer is cleared, and started anew when
\* there is something to synchronise.
Render(u) == [u EXCEPT !.timer = u.session # NoSession /\ u.blocks # {}]
\* The effect after session or thread were set, to a new value or to the same.
Rerender(d, u) ==
    IF u.session = ui[d].session /\ u.thread = ui[d].thread THEN u ELSE Render(u)
Listed(u, s, t) == [x \in DOMAIN u.list \union {s} |-> IF x = s THEN t ELSE u.list[x]]
Relisted(u, s, t) == IF s \in DOMAIN u.list THEN Listed(u, s, t) ELSE u.list
Key(u) == [s |-> u.session, t |-> u.thread, b |-> u.blocks]

SetUI(d, u)  == ui' = [ui EXCEPT ![d] = u]
SetJob(c, j) == job' = [job EXCEPT ![c] = j]
End(c)       == SetJob(c, NoJob)

\* The thread that thread/start creates.
HasFreshThread == \E t \in Threads : owner[t] = NoDevice
FreshThread    == CHOOSE t \in Threads : owner[t] = NoDevice

Switches == Cardinality({p \in Devices \X (1..MaxSwitches) : p[2] <= ui[p[1]].seq})

\* Another switch has begun since the call did: seq !== switchThreadSeq.current.
Stale(c) == job[c].seq # ui[Device(c)].seq

----------------------------------------------------------------------------
(* The server: PATCH is one transaction, DELETE one statement *)

\* Only a PATCH that carries a snapshot is compared with the latest one.  Renaming
\* a session that is not shown sends none.
Refused(c) == job[c].kind # "retitle" /\ job[c].base # snap[job[c].s].rev

\* Mutant: the revision is compared without the lock on the session's row.
TxBeginUnlocked(c) ==
    /\ job[c].pc = "patch"
    /\ SetJob(c, [job[c] EXCEPT !.pc = IF Refused(c) THEN "conflict" ELSE "insert"])
    /\ UNCHANGED <<server, local, ui, shared, bounds>>

\* UPDATE takes the row lock, writeSnapshot compares the revisions; a conflict
\* rolls back and answers 409, a session without a row is answered 404.
TxBegin(c) ==
    /\ job[c].pc = "patch" /\ lock[job[c].s] = NoCall
    /\ \/ /\ job[c].s \in exists /\ ~Refused(c)
          /\ lock' = [lock EXCEPT ![job[c].s] = c]
          /\ SetJob(c, [job[c] EXCEPT !.pc = "insert"])
       \/ /\ job[c].s \in exists /\ Refused(c)
          /\ SetJob(c, [job[c] EXCEPT !.pc = "conflict"])
          /\ UNCHANGED lock
       \/ /\ job[c].s \notin exists
          /\ SetJob(c, [job[c] EXCEPT !.pc = "failed"])
          /\ UNCHANGED lock
    /\ UNCHANGED <<snap, bound, exists, deleted, lastRev, local, ui, shared, bounds>>

\* INSERT under the next revision, COMMIT and the answer.
TxCommit(c) ==
    /\ job[c].pc = "insert"
    /\ LET s == job[c].s IN
       /\ bound' = [bound EXCEPT ![s] = job[c].row]
       /\ lock'  = [lock EXCEPT ![s] = NoCall]
       /\ \/ /\ job[c].kind # "retitle"
             /\ snap' = [snap EXCEPT ![s] = [rev |-> lastRev + 1, blocks |-> job[c].blocks,
                                             thread |-> job[c].thread, by |-> c]]
             /\ lastRev' = lastRev + 1
             /\ shared' = shared \union job[c].blocks
             /\ SetJob(c, [job[c] EXCEPT !.pc = "answered", !.rev = lastRev + 1])
          \/ /\ job[c].kind = "retitle"
             /\ SetJob(c, [job[c] EXCEPT !.pc = "answered"])
             /\ UNCHANGED <<snap, lastRev, shared>>
    /\ UNCHANGED <<exists, deleted, local, ui, bounds>>

\* Mutant: the row is only marked deleted.
DeleteRowMarks(c) ==
    /\ job[c].pc = "delete" /\ lock[job[c].s] = NoCall
    /\ deleted' = deleted \union {job[c].s}
    /\ SetJob(c, [job[c] EXCEPT !.pc = "answered"])
    /\ UNCHANGED <<snap, exists, bound, lock, lastRev, local, ui, shared, bounds>>

\* DELETE waits for the lock on the row; the snapshots go with it.
DeleteRow(c) ==
    /\ job[c].pc = "delete" /\ lock[job[c].s] = NoCall
    /\ \/ /\ job[c].s \in exists
          /\ exists'  = exists \ {job[c].s}
          /\ deleted' = deleted \union {job[c].s}
          /\ snap'    = [snap EXCEPT ![job[c].s] = NoSnapshot]
          /\ SetJob(c, [job[c] EXCEPT !.pc = "answered"])
       \/ /\ job[c].s \notin exists
          /\ SetJob(c, [job[c] EXCEPT !.pc = "failed"])
          /\ UNCHANGED <<exists, deleted, snap>>
    /\ UNCHANGED <<bound, lock, lastRev, local, ui, shared, bounds>>

\* A request or an answer is lost: fetch rejects.
Lose(c) ==
    /\ NetworkFails
    /\ job[c].pc \in {"patch", "delete", "answered", "read_row", "opened", "post", "created"}
    /\ SetJob(c, [job[c] EXCEPT !.pc = "failed"])
    /\ UNCHANGED <<server, local, ui, shared, bounds>>

\* An answer that is not ok, or none: only a conflict of a synchronisation leaves
\* a mark.
Fail(c) ==
    /\ job[c].pc \in {"conflict", "failed"}
    /\ SetUI(Device(c), [ui[Device(c)] EXCEPT
                            !.warned = @ \/ (job[c].kind = "sync" /\ job[c].pc = "conflict")])
    /\ End(c)
    /\ UNCHANGED <<server, local, shared, bounds>>

----------------------------------------------------------------------------
(* switchSharedSession *)

OpenStart(c, s) ==
    /\ job[c].pc = "idle" /\ c[2] # Sync
    /\ LET u == ui[Device(c)] IN
          /\ s \in DOMAIN u.list /\ Switches < MaxSwitches
          /\ SetUI(Device(c), Render([u EXCEPT !.seq = @ + 1, !.blocks = {}]))
          /\ SetJob(c, [NoJob EXCEPT !.pc = "read_row", !.kind = "open", !.s = s,
                                     !.seq = u.seq + 1])
    /\ UNCHANGED <<server, local, shared, bounds>>

\* GET reads the session's row, then its latest snapshot.
ReadRow(c) ==
    /\ job[c].pc = "read_row"
    /\ \/ /\ job[c].s \in exists
          /\ SetJob(c, [job[c] EXCEPT !.pc = "read_snapshot", !.thread = bound[job[c].s]])
       \/ /\ job[c].s \notin exists
          /\ SetJob(c, [job[c] EXCEPT !.pc = "failed"])
    /\ UNCHANGED <<server, local, ui, shared, bounds>>

ReadSnapshot(c) ==
    /\ job[c].pc = "read_snapshot"
    /\ LET latest == snap[job[c].s] IN
          SetJob(c, [job[c] EXCEPT !.pc = "opened", !.rev = latest.rev,
                                   !.blocks = latest.blocks,
                                   !.thread = IF @ = NoThread THEN latest.thread ELSE @])
    /\ UNCHANGED <<server, local, ui, shared, bounds>>

\* The answer makes the session the active one, unless another switch has begun.
OpenApply(c) ==
    /\ job[c].pc = "opened"
    /\ \/ /\ Stale(c)
          /\ End(c)
          /\ UNCHANGED ui
       \/ /\ ~Stale(c)
          /\ SetUI(Device(c), Rerender(Device(c), [ui[Device(c)] EXCEPT
                                    !.session = job[c].s, !.base = job[c].rev,
                                    !.lastKey = NoKey]))
          /\ SetJob(c, [job[c] EXCEPT !.pc = IF job[c].thread = NoThread THEN "start"
                                                                         ELSE "resume"])
    /\ UNCHANGED <<server, local, shared, bounds>>

\* thread/resume: a thread of this device that has turns is shown instead of the
\* snapshot.
OpenResume(c) ==
    /\ job[c].pc = "resume"
    /\ LET d == Device(c)
           t == job[c].thread
           u == [ui[d] EXCEPT !.thread = t]
       IN
       \/ Stale(c) /\ End(c) /\ UNCHANGED ui
       \/ /\ ~Stale(c) /\ owner[t] = d /\ turns[t] # {}
          /\ SetUI(d, Render([u EXCEPT !.blocks = turns[t]]))
          /\ End(c)
       \/ /\ ~Stale(c) /\ owner[t] = d /\ turns[t] = {}
          /\ SetUI(d, Rerender(d, u))
          /\ SetJob(c, [job[c] EXCEPT !.pc = "start"])
       \/ /\ ~Stale(c) /\ owner[t] # d
          /\ SetJob(c, [job[c] EXCEPT !.pc = "start"])
          /\ UNCHANGED ui
    /\ UNCHANGED <<server, local, shared, bounds>>

\* thread/start, and the PATCH that binds the session to the new thread.
OpenBind(c) ==
    /\ job[c].pc = "start" /\ HasFreshThread
    /\ owner' = [owner EXCEPT ![FreshThread] = Device(c)]
    /\ LET u == ui[Device(c)] IN
       \/ Stale(c) /\ End(c) /\ UNCHANGED ui
       \/ /\ ~Stale(c)
          /\ SetUI(Device(c), Rerender(Device(c), [u EXCEPT !.thread = FreshThread]))
          /\ SetJob(c, [job[c] EXCEPT !.pc = "patch", !.base = u.base,
                                      !.thread = FreshThread, !.row = FreshThread])
    /\ UNCHANGED <<server, turns, shared, bounds>>

OpenDone(c) ==
    /\ job[c].pc = "answered" /\ job[c].kind = "open"
    /\ LET u == ui[Device(c)] IN
          SetUI(Device(c), Render([u EXCEPT !.base = job[c].rev, !.blocks = job[c].blocks,
                                            !.list = Relisted(u, job[c].s, job[c].row)]))
    /\ End(c)
    /\ UNCHANGED <<server, local, shared, bounds>>

----------------------------------------------------------------------------
(* createSharedSession *)

CreateStart(c) ==
    /\ job[c].pc = "idle" /\ c[2] # Sync /\ exists \union deleted # Sessions
    /\ LET u == ui[Device(c)] IN
          /\ Switches < MaxSwitches
          /\ SetUI(Device(c), Render([u EXCEPT !.seq = @ + 1, !.blocks = {}]))
          /\ SetJob(c, [NoJob EXCEPT !.pc = "create", !.kind = "create", !.seq = u.seq + 1])
    /\ UNCHANGED <<server, local, shared, bounds>>

CreateThread(c) ==
    /\ job[c].pc = "create" /\ HasFreshThread
    /\ owner' = [owner EXCEPT ![FreshThread] = Device(c)]
    /\ \/ Stale(c) /\ End(c) /\ UNCHANGED ui
       \/ /\ ~Stale(c)
          /\ SetUI(Device(c), Rerender(Device(c), [ui[Device(c)] EXCEPT !.thread = FreshThread]))
          /\ SetJob(c, [job[c] EXCEPT !.pc = "post", !.thread = FreshThread])
    /\ UNCHANGED <<server, turns, shared, bounds>>

\* POST inserts the row and the first snapshot in one transaction.
Post(c) ==
    /\ job[c].pc = "post"
    /\ \E s \in Sessions \ (exists \union deleted) :
          /\ exists' = exists \union {s}
          /\ snap'   = [snap EXCEPT ![s] = [rev |-> lastRev + 1, blocks |-> {},
                                            thread |-> job[c].thread, by |-> c]]
          /\ bound'  = [bound EXCEPT ![s] = job[c].thread]
          /\ SetJob(c, [job[c] EXCEPT !.pc = "created", !.s = s, !.rev = lastRev + 1])
    /\ lastRev' = lastRev + 1
    /\ UNCHANGED <<deleted, lock, local, ui, shared, bounds>>

CreateDone(c) ==
    /\ job[c].pc = "created"
    /\ LET u == ui[Device(c)] IN
          SetUI(Device(c), Rerender(Device(c), [u EXCEPT
             !.session = job[c].s, !.base = job[c].rev,
             !.lastKey = [s |-> job[c].s, t |-> job[c].thread, b |-> {}],
             !.list = Listed(u, job[c].s, job[c].thread)]))
    /\ End(c)
    /\ UNCHANGED <<server, local, shared, bounds>>

----------------------------------------------------------------------------
(* Editing, leaving, renaming, deleting *)

\* A turn on the thread of the renderer; its blocks are shown as they come.
Edit(d, e) ==
    /\ \A t \in Threads : e \notin turns[t]
    /\ ui[d].session # NoSession /\ ui[d].thread # NoThread
    /\ turns' = [turns EXCEPT ![ui[d].thread] = @ \union {e}]
    /\ SetUI(d, Render([ui[d] EXCEPT !.blocks = @ \union {e}]))
    /\ UNCHANGED <<server, owner, job, shared, bounds>>

\* What leaving a session resets.
Left(u) == [u EXCEPT !.session = NoSession, !.base = 0, !.thread = NoThread,
                     !.blocks = {}, !.timer = FALSE, !.seq = @ + 1]

\* selectSharedWorkspace: the active session is left and the list is read again.
SelectSharedWorkspace(d) ==
    /\ Switches < MaxSwitches
    /\ SetUI(d, [Left(ui[d]) EXCEPT !.list = [s \in exists |-> bound[s]], !.warned = FALSE])
    /\ UNCHANGED <<server, local, job, shared, bounds>>

\* renameThread: a PATCH outside the queue, with the snapshot when the session is
\* the active one; the row gets the thread that the list shows.
Rename(c, s) ==
    /\ job[c].pc = "idle" /\ c[2] # Sync /\ s \in DOMAIN ui[Device(c)].list
    /\ renames < MaxRenames
    /\ renames' = renames + 1
    /\ LET u == ui[Device(c)]
           j == [NoJob EXCEPT !.pc = "patch", !.s = s, !.row = u.list[s]]
       IN  SetJob(c, IF s = u.session
                     THEN [j EXCEPT !.kind = "rename", !.base = u.base, !.blocks = u.blocks,
                                    !.thread = u.thread]
                     ELSE [j EXCEPT !.kind = "retitle"])
    /\ UNCHANGED <<server, local, ui, shared, deletes>>

\* The key stored after a rename has the new title, which no synchronisation sends.
RenameDone(c) ==
    /\ job[c].pc = "answered" /\ job[c].kind \in {"rename", "retitle"}
    /\ IF job[c].kind = "rename"
       THEN SetUI(Device(c), [ui[Device(c)] EXCEPT !.base = job[c].rev, !.lastKey = NoKey])
       ELSE UNCHANGED ui
    /\ End(c)
    /\ UNCHANGED <<server, local, shared, bounds>>

DeleteStart(c, s) ==
    /\ job[c].pc = "idle" /\ c[2] # Sync /\ s \in DOMAIN ui[Device(c)].list
    /\ deletes < MaxDeletes
    /\ deletes' = deletes + 1
    /\ SetJob(c, [NoJob EXCEPT !.pc = "delete", !.kind = "delete", !.s = s])
    /\ UNCHANGED <<server, local, ui, shared, renames>>

DeleteDone(c) ==
    /\ job[c].pc = "answered" /\ job[c].kind = "delete"
    /\ LET u == [ui[Device(c)] EXCEPT !.list = [s \in DOMAIN @ \ {job[c].s} |-> @[s]]] IN
          SetUI(Device(c), IF u.session = job[c].s THEN Left(u) ELSE u)
    /\ End(c)
    /\ UNCHANGED <<server, local, shared, bounds>>

----------------------------------------------------------------------------
(* The synchronisation of the active session *)

\* Mutant: nothing is queued while a synchronisation is in flight.
TimerFiresSkipsWhenBusy(d) ==
    /\ ui[d].timer
    /\ LET u == [ui[d] EXCEPT !.timer = FALSE]
           k == Key(u)
       IN  SetUI(d, IF k = u.lastKey \/ job[<<d, Sync>>].pc # "idle" THEN u
                    ELSE [u EXCEPT !.wantKey = k, !.queue = Append(@, k)])
    /\ UNCHANGED <<server, local, job, shared, bounds>>

\* 800 ms after the last change the snapshot is queued, unless it was the last sent.
TimerFires(d) ==
    /\ ui[d].timer
    /\ LET u == [ui[d] EXCEPT !.timer = FALSE]
           k == Key(u)
       IN  SetUI(d, IF k = u.lastKey THEN u
                    ELSE [u EXCEPT !.wantKey = k, !.queue = Append(@, k)])
    /\ UNCHANGED <<server, local, job, shared, bounds>>

\* The next queued snapshot: dropped when the session is no longer active or the
\* snapshot was sent already, else sent on top of the revision known by now.
SyncStart(d) ==
    /\ job[<<d, Sync>>].pc = "idle" /\ ui[d].queue # <<>>
    /\ LET u == ui[d]
           k == Head(u.queue)
       IN
       /\ SetUI(d, [u EXCEPT !.queue = Tail(@)])
       /\ IF k.s # u.session \/ k = u.lastKey THEN UNCHANGED job
          ELSE SetJob(<<d, Sync>>, [NoJob EXCEPT !.pc = "patch", !.s = k.s, !.base = u.base,
                                                 !.blocks = k.b, !.thread = k.t,
                                                 !.row = k.t, !.key = k])
    /\ UNCHANGED <<server, local, shared, bounds>>

\* Mutant: the revision in the answer is not kept.
SyncDoneKeepsBase(d) ==
    /\ job[<<d, Sync>>].pc = "answered"
    /\ SetUI(d, [ui[d] EXCEPT !.lastKey = IF ui[d].wantKey = job[<<d, Sync>>].key
                                          THEN ui[d].wantKey ELSE @])
    /\ End(<<d, Sync>>)
    /\ UNCHANGED <<server, local, shared, bounds>>

\* The revision in the answer becomes the base, whichever session is shown by now.
SyncDone(d) ==
    /\ job[<<d, Sync>>].pc = "answered"
    /\ LET j == job[<<d, Sync>>]
           u == [ui[d] EXCEPT !.base = j.rev, !.list = Relisted(ui[d], j.s, j.row)]
       IN  SetUI(d, IF u.wantKey = j.key THEN [u EXCEPT !.lastKey = j.key] ELSE u)
    /\ End(<<d, Sync>>)
    /\ UNCHANGED <<server, local, shared, bounds>>

----------------------------------------------------------------------------
Init ==
    /\ snap = [s \in Sessions |-> NoSnapshot] /\ bound = [s \in Sessions |-> NoThread]
    /\ exists = Existing /\ deleted = {}
    /\ lock = [s \in Sessions |-> NoCall] /\ lastRev = 0
    /\ owner = [t \in Threads |-> NoDevice] /\ turns = [t \in Threads |-> {}]
    /\ ui = [d \in Devices |-> FreshUI] /\ job = [c \in Calls |-> NoJob]
    /\ shared = {}
    /\ renames = 0 /\ deletes = 0

Request(c) == TxBegin(c) \/ TxCommit(c) \/ DeleteRow(c)

Open(c) ==
    \/ ReadRow(c) \/ ReadSnapshot(c) \/ OpenApply(c) \/ OpenResume(c) \/ OpenBind(c)
    \/ OpenDone(c)

Create(c) == CreateThread(c) \/ Post(c) \/ CreateDone(c)

Answer(c) == RenameDone(c) \/ DeleteDone(c) \/ Fail(c)

User(c) ==
    \/ CreateStart(c)
    \/ \E s \in Sessions : OpenStart(c, s) \/ Rename(c, s) \/ DeleteStart(c, s)

Synchronise(d) == TimerFires(d) \/ SyncStart(d) \/ SyncDone(d)

Next ==
    \/ \E c \in Calls :
          User(c) \/ Request(c) \/ Open(c) \/ Create(c) \/ Answer(c) \/ Lose(c)
    \/ \E d \in Devices :
          \/ Synchronise(d) \/ SelectSharedWorkspace(d)
          \/ \E e \in Edits : Edit(d, e)

Spec == Init /\ [][Next]_vars

(***************************************************************************)
(* The server answers every request, and a renderer keeps running: its     *)
(* timers fire and a promise that is settled continues.  What the user     *)
(* does, and losses on the network, get no fairness.                       *)
(***************************************************************************)
Fairness ==
    /\ \A c \in Calls : WF_vars(Request(c) \/ Open(c) \/ Create(c) \/ Answer(c))
    /\ \A d \in Devices : WF_vars(Synchronise(d))

FairSpec == Spec /\ Fairness

----------------------------------------------------------------------------
(* Properties *)

KeyType      == [s : Sessions, t : Threads \union {NoThread}, b : SUBSET Edits]
Lists        == UNION {[S -> Threads \union {NoThread}] : S \in SUBSET Sessions}
SnapshotType == [rev : Nat, blocks : SUBSET Edits, thread : Threads \union {NoThread},
                 by : Calls \union {NoCall}]
UIType       == [list : Lists, session : Sessions \union {NoSession}, base : Nat,
                 blocks : SUBSET Edits, thread : Threads \union {NoThread}, seq : Nat,
                 timer : BOOLEAN, lastKey : KeyType \union {NoKey},
                 wantKey : KeyType \union {NoKey}, queue : Seq(KeyType), warned : BOOLEAN]
JobType      == [pc : {"idle", "read_row", "read_snapshot", "opened", "resume", "start",
                       "create", "post", "created", "patch", "insert", "delete", "answered",
                       "conflict", "failed"},
                 kind : {"sync", "open", "create", "rename", "retitle", "delete"},
                 s : Sessions \union {NoSession}, seq : Nat, base : Nat, rev : Nat,
                 blocks : SUBSET Edits, thread : Threads \union {NoThread},
                 row : Threads \union {NoThread}, key : KeyType \union {NoKey}]

\* Type invariant of the server's tables, the renderers and the calls in flight.
TypeOK ==
    /\ snap \in [Sessions -> SnapshotType] /\ bound \in [Sessions -> Threads \union {NoThread}]
    /\ exists \subseteq Sessions /\ deleted \subseteq Sessions \ exists
    /\ lock \in [Sessions -> Calls \union {NoCall}] /\ lastRev \in Nat
    /\ owner \in [Threads -> Devices \union {NoDevice}]
    /\ turns \in [Threads -> SUBSET Edits] /\ shared \subseteq Edits
    /\ ui \in [Devices -> UIType] /\ job \in [Calls -> JobType]
    /\ renames \in 0..MaxRenames /\ deletes \in 0..MaxDeletes

\* What a client of the store sees of a call: the request while the server has not
\* answered it, then the answer.  A PATCH without a snapshot, a DELETE and a GET leave
\* no revision.
Patching(c) == job[c].pc \in {"patch", "insert"} /\ job[c].kind # "retitle"
Accepted(c) ==
    \/ job[c].pc = "created"
    \/ job[c].pc = "answered" /\ job[c].kind \in {"open", "rename", "sync"}

ClientView(c) ==
    CASE Patching(c) -> [st |-> "asked", key |-> job[c].s, base |-> job[c].base,
                         data |-> <<job[c].blocks, job[c].thread>>]
      [] Accepted(c) -> [st |-> "accepted", rev |-> job[c].rev]
      [] job[c].pc = "conflict" -> [st |-> "refused"]
      [] OTHER -> [st |-> "idle"]

Store == INSTANCE RevisionStore WITH
    Keys <- Sessions, Clients <- Calls, Initial <- Existing,
    Data <- (SUBSET Edits) \X (Threads \union {NoThread}), NoData <- <<{}, NoThread>>,
    live <- exists, gone <- deleted, last <- lastRev,
    latest <- [s \in Sessions |-> [rev |-> snap[s].rev,
                                   data |-> <<snap[s].blocks, snap[s].thread>>]],
    req <- [c \in Calls |-> ClientView(c)]

\* Refinement.  The server's two-statement transactions, its row locks and its
\* deletions implement a compare-and-set register per session: a snapshot is only ever
\* replaced by one whose sender had it as its base, a refused PATCH had another base
\* than the latest in the instant of the refusal, revisions only grow, and a device is
\* answered with the revision its own snapshot was stored under.
ImplementsRevisionStore == Store!Spec

\* Safety.  A transaction that has passed the check is not overtaken by a deletion:
\* no snapshot is written for a session that has no row.
SnapshotsHaveSessions ==
    \A s \in Sessions : snap[s].rev # 0 => s \in exists

\* Safety.  The queue does its work: in a device that stays in the session it has
\* opened, a synchronisation is never refused because of an earlier one of the same
\* device.  Opening a session again adopts the revision that GET read, however old it
\* is by then, and the next synchronisation is refused.
QueueKeepsOrder ==
    [][\A c \in Calls :
          /\ job[c].pc = "patch" /\ job'[c].pc = "conflict"
          /\ c[2] = Sync /\ ui[Device(c)].seq = 1
          => snap[job[c].s].by # c]_vars

\* Safety.  "Keep local PATCHes in order so a newer render uses the revision
\* returned by the previous PATCH": a device is not refused because of a snapshot
\* it wrote itself.
NoFalseConflict ==
    [][\A c \in Calls : job[c].pc = "patch" /\ job'[c].pc = "conflict" =>
          \A x \in UserCalls \union {Sync} : snap[job[c].s].by # <<Device(c), x>>]_vars

\* Liveness.  What a device shows gets into the shared transcript, or the user is
\* told to reopen the session, or leaves it.
EditsGetShared ==
    \A d \in Devices, s \in Sessions, e \in Edits :
        (ui[d].session = s /\ e \in ui[d].blocks) ~>
        (e \in shared \/ ui[d].warned \/ ui[d].session # s \/ e \notin ui[d].blocks)
=============================================================================
