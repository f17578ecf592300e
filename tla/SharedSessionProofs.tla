------------------------- MODULE SharedSessionProofs -------------------------
(***************************************************************************)
(* TLAPS proofs about SharedSession, for any devices, sessions, threads,   *)
(* edits and calls and every bound: the server's transactions implement a  *)
(* compare-and-set register per session, and the queue of a renderer does  *)
(* not make it conflict with itself.                                       *)
(***************************************************************************)
EXTENDS SharedSession, SequenceTheorems, TLAPS

----------------------------------------------------------------------------
(* The inductive invariant *)

\* What holds of one renderer, r being the last revision given out: it knows no other
\* revision, and its timer runs only while a session is shown.
Sound(u, r) == u \in UIType /\ u.base <= r /\ (u.timer => u.session # NoSession)

\* The awaits of a call that opens a session, and of those that are about one.
Opening   == {"read_row", "read_snapshot", "opened", "resume", "start"}
OfSession == Opening \union {"patch", "insert", "delete", "answered", "created"}

\* What holds of one call: it carries no other revision either, and at each await it is
\* of the kind that gets there.
SoundCall(j, r) ==
    /\ j \in JobType /\ j.base <= r /\ j.rev <= r
    /\ j.pc \in OfSession => j.s \in Sessions
    /\ j.pc \in Opening => j.kind = "open"
    /\ j.pc \in {"patch", "insert"} => j.kind \in {"open", "rename", "retitle", "sync"}
    /\ j.pc = "delete" => j.kind = "delete"
    /\ j.pc = "resume" => j.thread # NoThread

ClientsSound ==
    /\ \A d \in Devices : Sound(ui[d], lastRev)
    /\ \A c \in Calls : SoundCall(job[c], lastRev)

\* Between its two statements a transaction holds the row, which is there, and the
\* snapshot it has compared with is still the latest.
TransactionsIsolated ==
    \A c \in Calls : job[c].pc = "insert" =>
        /\ lock[job[c].s] = c /\ job[c].s \in exists
        /\ job[c].kind # "retitle" => job[c].base = snap[job[c].s].rev

ServerSound ==
    /\ TransactionsIsolated /\ SnapshotsHaveSessions
    /\ \A s \in Sessions : snap[s].rev <= lastRev

IndInv == TypeOK /\ ClientsSound /\ ServerSound
----------------------------------------------------------------------------
(* The records of the renderers *)

\* The fields of a renderer's state.
LEMMA UIFields ==
    ASSUME NEW u \in UIType
    PROVE  /\ u.list \in Lists /\ u.session \in Sessions \union {NoSession} /\ u.base \in Nat
           /\ u.blocks \in SUBSET Edits /\ u.thread \in Threads \union {NoThread}
           /\ u.seq \in Nat /\ u.timer \in BOOLEAN /\ u.lastKey \in KeyType \union {NoKey}
           /\ u.wantKey \in KeyType \union {NoKey} /\ u.queue \in Seq(KeyType)
           /\ u.warned \in BOOLEAN
BY DEF UIType

\* A list is a function from some of the sessions.
LEMMA ListFields ==
    ASSUME NEW l \in Lists
    PROVE  /\ DOMAIN l \subseteq Sessions
           /\ \A s \in DOMAIN l : l[s] \in Threads \union {NoThread}
           /\ l = [s \in DOMAIN l |-> l[s]]
BY DEF Lists

\* Every function from some of the sessions to threads is a list.
LEMMA ListIntro ==
    ASSUME NEW S \in SUBSET Sessions, NEW l \in [S -> Threads \union {NoThread}]
    PROVE  l \in Lists
BY DEF Lists

\* The updates of the list of sessions.
LEMMA ListUpdates ==
    ASSUME NEW u \in UIType, NEW s \in Sessions, NEW t \in Threads \union {NoThread}
    PROVE  /\ Listed(u, s, t) \in Lists /\ Relisted(u, s, t) \in Lists
           /\ [x \in DOMAIN u.list \ {s} |-> u.list[x]] \in Lists
<1>1. /\ DOMAIN u.list \subseteq Sessions /\ u.list \in Lists
      /\ \A x \in DOMAIN u.list : u.list[x] \in Threads \union {NoThread}
  BY UIFields, ListFields
<1>2. Listed(u, s, t) \in [DOMAIN u.list \union {s} -> Threads \union {NoThread}]
  BY <1>1 DEF Listed
<1>3. Listed(u, s, t) \in Lists
  BY <1>1, <1>2, ListIntro
<1>4. [x \in DOMAIN u.list \ {s} |-> u.list[x]]
      \in [DOMAIN u.list \ {s} -> Threads \union {NoThread}]
  BY <1>1
<1>5. [x \in DOMAIN u.list \ {s} |-> u.list[x]] \in Lists
  BY <1>1, <1>4, ListIntro
<1> QED
  BY <1>1, <1>3, <1>5 DEF Relisted

\* Updates of the state of a renderer that show neither another session nor start its
\* timer.
LEMMA UIUpdates ==
    ASSUME NEW u \in UIType
    PROVE  /\ \A b \in BOOLEAN : [u EXCEPT !.warned = b] \in UIType
           /\ \A n \in Nat : [u EXCEPT !.seq = n, !.blocks = {}] \in UIType
           /\ \A t \in Threads : [u EXCEPT !.thread = t] \in UIType
           /\ \A b \in SUBSET Edits : [u EXCEPT !.blocks = b] \in UIType
           /\ \A r \in Nat, b \in SUBSET Edits, l \in Lists :
                 [u EXCEPT !.base = r, !.blocks = b, !.list = l] \in UIType
           /\ \A r \in Nat, k \in KeyType \union {NoKey} :
                 [u EXCEPT !.base = r, !.lastKey = k] \in UIType
           /\ \A r \in Nat, l \in Lists : [u EXCEPT !.base = r, !.list = l] \in UIType
           /\ \A l \in Lists : [u EXCEPT !.list = l] \in UIType
           /\ [u EXCEPT !.timer = FALSE] \in UIType
           /\ \A k \in KeyType, q \in Seq(KeyType) :
                 [u EXCEPT !.wantKey = k, !.queue = q] \in UIType
           /\ \A q \in Seq(KeyType) : [u EXCEPT !.queue = q] \in UIType
           /\ \A k \in KeyType \union {NoKey} : [u EXCEPT !.lastKey = k] \in UIType
<1>1. \A b \in BOOLEAN : [u EXCEPT !.warned = b] \in UIType
  BY DEF UIType
<1>2. \A n \in Nat : [u EXCEPT !.seq = n, !.blocks = {}] \in UIType
  BY DEF UIType
<1>3. \A t \in Threads : [u EXCEPT !.thread = t] \in UIType
  BY DEF UIType
<1>4. \A b \in SUBSET Edits : [u EXCEPT !.blocks = b] \in UIType
  BY DEF UIType
<1>5. \A r \in Nat, b \in SUBSET Edits, l \in Lists :
         [u EXCEPT !.base = r, !.blocks = b, !.list = l] \in UIType
  BY DEF UIType
<1>6. \A r \in Nat, k \in KeyType \union {NoKey} :
         [u EXCEPT !.base = r, !.lastKey = k] \in UIType
  BY DEF UIType
<1>7. \A r \in Nat, l \in Lists : [u EXCEPT !.base = r, !.list = l] \in UIType
  BY DEF UIType
<1>8. \A l \in Lists : [u EXCEPT !.list = l] \in UIType
  BY DEF UIType
<1>9. [u EXCEPT !.timer = FALSE] \in UIType
  BY DEF UIType
<1>10. \A k \in KeyType, q \in Seq(KeyType) : [u EXCEPT !.wantKey = k, !.queue = q] \in UIType
  BY DEF UIType
<1>11. \A q \in Seq(KeyType) : [u EXCEPT !.queue = q] \in UIType
  BY DEF UIType
<1>12. \A k \in KeyType \union {NoKey} : [u EXCEPT !.lastKey = k] \in UIType
  BY DEF UIType
<1> QED
  BY <1>1, <1>2, <1>3, <1>4, <1>5, <1>6, <1>7, <1>8, <1>9, <1>10, <1>11, <1>12

\* What the updates leave of the fields the invariant looks at.
LEMMA UIEffects ==
    ASSUME NEW u \in UIType
    PROVE  /\ \A b : LET v == [u EXCEPT !.warned = b]
                     IN  v.base = u.base /\ v.session = u.session /\ v.timer = u.timer
           /\ \A n : [u EXCEPT !.seq = n, !.blocks = {}].base = u.base
           /\ \A t : LET v == [u EXCEPT !.thread = t]
                     IN  v.base = u.base /\ v.session = u.session /\ v.timer = u.timer
           /\ \A b : [u EXCEPT !.blocks = b].base = u.base
           /\ \A r, b, l : [u EXCEPT !.base = r, !.blocks = b, !.list = l].base = r
           /\ \A r, k : LET v == [u EXCEPT !.base = r, !.lastKey = k]
                        IN  v.base = r /\ v.session = u.session /\ v.timer = u.timer
           /\ \A r, l : LET v == [u EXCEPT !.base = r, !.list = l]
                        IN  v.base = r /\ v.session = u.session /\ v.timer = u.timer
           /\ \A l : LET v == [u EXCEPT !.list = l]
                     IN  v.base = u.base /\ v.session = u.session /\ v.timer = u.timer
           /\ LET v == [u EXCEPT !.timer = FALSE]
              IN  /\ v.base = u.base /\ v.timer = FALSE /\ v.session = u.session
                  /\ v.thread = u.thread /\ v.blocks = u.blocks
           /\ \A k, q : LET v == [u EXCEPT !.wantKey = k, !.queue = q]
                        IN  v.base = u.base /\ v.timer = u.timer
           /\ \A q : LET v == [u EXCEPT !.queue = q]
                     IN  v.base = u.base /\ v.session = u.session /\ v.timer = u.timer
           /\ \A k : LET v == [u EXCEPT !.lastKey = k]
                     IN  v.base = u.base /\ v.session = u.session /\ v.timer = u.timer
BY DEF UIType

\* A renderer that has just run its effect.
LEMMA Rendered ==
    ASSUME NEW u \in UIType, NEW r \in Nat, u.base <= r
    PROVE  Sound(Render(u), r)
<1> DEFINE b == u.session # NoSession /\ u.blocks # {}
<1>1. b \in BOOLEAN /\ (b => u.session # NoSession)
  OBVIOUS
<1>2. Render(u) = [u EXCEPT !.timer = b]
  BY DEF Render
<1> HIDE DEF b
<1>3. LET v == [u EXCEPT !.timer = b]
      IN  v \in UIType /\ v.base = u.base /\ v.session = u.session /\ v.timer = b
  BY <1>1 DEF UIType
<1> QED
  BY <1>1, <1>2, <1>3 DEF Sound

\* The effect that runs only after a change of the session or the thread.
LEMMA Rerendered ==
    ASSUME NEW d \in Devices, NEW r \in Nat, Sound(ui[d], r),
           NEW u \in UIType, u.base <= r, u.timer = ui[d].timer
    PROVE  Sound(Rerender(d, u), r)
BY Rendered DEF Rerender, Sound

\* A renderer that leaves its session.
LEMMA LeftSound ==
    ASSUME NEW u \in UIType, NEW r \in Nat
    PROVE  /\ Left(u) \in UIType /\ Sound(Left(u), r)
           /\ \A l \in Lists : Sound([Left(u) EXCEPT !.list = l, !.warned = FALSE], r)
<1>1. ASSUME NEW n \in Nat
      PROVE  LET v == [u EXCEPT !.session = NoSession, !.base = 0, !.thread = NoThread,
                                !.blocks = {}, !.timer = FALSE, !.seq = n]
             IN  v \in UIType /\ v.base = 0 /\ v.timer = FALSE
  BY DEF UIType
<1>2. u.seq + 1 \in Nat
  BY UIFields
<1>3. Left(u) \in UIType /\ Left(u).base = 0 /\ Left(u).timer = FALSE
  BY <1>1, <1>2 DEF Left
<1>4. ASSUME NEW v \in UIType, NEW l \in Lists
      PROVE  LET w == [v EXCEPT !.list = l, !.warned = FALSE]
             IN  w \in UIType /\ w.base = v.base /\ w.timer = v.timer
  BY DEF UIType
<1>5. ASSUME NEW v \in UIType, v.base = 0, v.timer = FALSE PROVE Sound(v, r)
  <2>1. v.base <= r
    BY <1>5
  <2> QED
    BY <1>5, <2>1, Zenon DEF Sound
<1>6. ASSUME NEW l \in Lists
      PROVE  Sound([Left(u) EXCEPT !.list = l, !.warned = FALSE], r)
  <2> DEFINE w == [Left(u) EXCEPT !.list = l, !.warned = FALSE]
  <2>1. w \in UIType /\ w.base = 0 /\ w.timer = FALSE
    BY <1>3, <1>4
  <2> QED
    BY <1>5, <2>1
<1> QED
  BY <1>3, <1>5, <1>6

----------------------------------------------------------------------------
(* The records of the calls *)

\* The fields of a call.
LEMMA JobFields ==
    ASSUME NEW j \in JobType
    PROVE  /\ j.s \in Sessions \union {NoSession} /\ j.seq \in Nat /\ j.base \in Nat
           /\ j.rev \in Nat /\ j.blocks \in SUBSET Edits
           /\ j.thread \in Threads \union {NoThread} /\ j.row \in Threads \union {NoThread}
           /\ j.key \in KeyType \union {NoKey}
BY DEF JobType

\* No call.
LEMMA NoJobType ==
    /\ NoJob \in JobType /\ NoJob.pc = "idle" /\ NoJob.kind = "sync" /\ NoJob.base = 0
    /\ NoJob.rev = 0
BY DEF NoJob, JobType

\* A call that only goes on.
LEMMA JobGoesOn ==
    ASSUME NEW j \in JobType,
           NEW p \in {"resume", "start", "insert", "answered", "conflict", "failed"}
    PROVE  LET k == [j EXCEPT !.pc = p]
           IN  /\ k \in JobType /\ k.pc = p /\ k.kind = j.kind /\ k.s = j.s /\ k.base = j.base
               /\ k.rev = j.rev /\ k.thread = j.thread /\ k.blocks = j.blocks
BY DEF JobType

----------------------------------------------------------------------------
(* The steps of the renderers *)

\* A renderer runs from one await to the next: its state stays sound.
UIStep ==
    \/ UNCHANGED ui
    \/ \E d \in Devices : \E u \in UIType : Sound(u, lastRev) /\ ui' = [ui EXCEPT ![d] = u]

\* Awaits at which the store knows nothing of the call.
Unasked == Opening \union {"idle", "create", "post", "delete", "failed"}

\* One of its calls goes on, or ends, or sends its PATCH.
JobStep ==
    \/ UNCHANGED job
    \/ \E c \in Calls : \E j \in JobType :
          /\ SoundCall(j, lastRev) /\ job' = [job EXCEPT ![c] = j]
          /\ j.pc \in Unasked \/ (j.pc = "patch" /\ job[c].pc \in {"idle", "start"})

\* The server is left alone, and the rest keeps its type.
ClientStep ==
    /\ UIStep /\ JobStep /\ UNCHANGED <<server, shared>>
    /\ owner' \in [Threads -> Devices \union {NoDevice}]
    /\ turns' \in [Threads -> SUBSET Edits]
    /\ renames' \in 0..MaxRenames /\ deletes' \in 0..MaxDeletes

\* What the invariant gives for a device and for a call of it.
LEMMA Given ==
    ASSUME TypeOK, ClientsSound
    PROVE  /\ \A d \in Devices : ui[d] \in UIType /\ Sound(ui[d], lastRev)
           /\ \A d \in Devices : ui[d].base <= lastRev
           /\ \A c \in Calls : job[c] \in JobType /\ SoundCall(job[c], lastRev)
           /\ \A c \in Calls : Device(c) \in Devices
           /\ \A d \in Devices : <<d, Sync>> \in Calls
           /\ lastRev \in Nat
BY DEF TypeOK, ClientsSound, Sound, Calls, Device

\* A call that ends.
LEMMA Ends ==
    ASSUME NEW c \in Calls, lastRev \in Nat, End(c)
    PROVE  JobStep
<1>1. SoundCall(NoJob, lastRev)
  BY NoJobType DEF SoundCall, OfSession, Opening
<1> QED
  BY <1>1, NoJobType DEF End, SetJob, JobStep, Unasked

\* A call that fails.
LEMMA Fails ==
    ASSUME TypeOK, ClientsSound, NEW c \in Calls, SetJob(c, [job[c] EXCEPT !.pc = "failed"])
    PROVE  JobStep
<1> DEFINE j == [job[c] EXCEPT !.pc = "failed"]
<1>1. /\ j \in JobType /\ j.pc = "failed" /\ j.base = job[c].base /\ j.rev = job[c].rev
  BY Given, JobGoesOn
<1>2. SoundCall(j, lastRev)
  BY <1>1, Given DEF SoundCall, OfSession, Opening
<1> HIDE DEF j
<1>3. job' = [job EXCEPT ![c] = j]
  BY DEF SetJob, j
<1> QED
  BY <1>1, <1>2, <1>3 DEF JobStep, Unasked

\* The answers that end a call.
LEMMA AnswerSteps ==
    ASSUME TypeOK, ClientsSound, NEW c \in Calls,
           Fail(c) \/ Lose(c) \/ OpenDone(c) \/ CreateDone(c) \/ RenameDone(c) \/ DeleteDone(c)
    PROVE  ClientStep
<1> USE DEF SetUI, server, local, bounds
<1> DEFINE d == Device(c)
           u == ui[Device(c)]
           j == job[c]
<1>0. /\ d \in Devices /\ u \in UIType /\ Sound(u, lastRev) /\ u.base <= lastRev
      /\ j \in JobType /\ SoundCall(j, lastRev) /\ lastRev \in Nat
      /\ j.rev \in Nat /\ j.rev <= lastRev /\ j.blocks \in SUBSET Edits
      /\ j.row \in Threads \union {NoThread} /\ j.thread \in Threads \union {NoThread}
  BY Given, JobFields DEF SoundCall
<1>1. UNCHANGED <<server, local, shared, bounds>>
  BY DEF Fail, Lose, OpenDone, CreateDone, RenameDone, DeleteDone
<1>2. UIStep /\ JobStep => ClientStep
  BY <1>1 DEF ClientStep, TypeOK
<1>3. CASE Lose(c)
  BY <1>2, <1>3, Fails DEF Lose, UIStep
<1>4. End(c) => JobStep
  BY <1>0, Ends
<1>5. ASSUME NEW v, Sound(v, lastRev), ui' = [ui EXCEPT ![Device(c)] = v] PROVE UIStep
  BY <1>0, <1>5 DEF UIStep, Sound
<1>6. CASE Fail(c)
  <2> DEFINE b == u.warned \/ (job[c].kind = "sync" /\ job[c].pc = "conflict")
             v == [u EXCEPT !.warned = b]
  <2>1. b \in BOOLEAN
    OBVIOUS
  <2>2. ui' = [ui EXCEPT ![Device(c)] = v]
    BY <1>6 DEF Fail
  <2> HIDE DEF b
  <2>3. v \in UIType /\ v.base = u.base /\ v.session = u.session /\ v.timer = u.timer
    BY <1>0, <2>1, UIUpdates, UIEffects
  <2>4. Sound(v, lastRev)
    BY <1>0, <2>3 DEF Sound
  <2> QED
    BY <1>2, <1>4, <1>5, <1>6, <2>2, <2>4 DEF Fail
<1>7. CASE OpenDone(c)
  <2> DEFINE l == Relisted(u, j.s, j.row)
             v == [u EXCEPT !.base = j.rev, !.blocks = j.blocks, !.list = l]
  <2>1. j.s \in Sessions
    BY <1>0, <1>7 DEF OpenDone, SoundCall, OfSession
  <2>2. l \in Lists
    BY <1>0, <2>1, ListUpdates
  <2>3. v \in UIType /\ v.base = j.rev
    <3> HIDE DEF u, j, l
    <3>1. v \in UIType
      BY <1>0, <2>2, UIUpdates
    <3> QED
      BY <1>0, <3>1, UIEffects
  <2>4. Sound(Render(v), lastRev)
    BY <1>0, <2>3, Rendered
  <2>5. ui' = [ui EXCEPT ![Device(c)] = Render(v)] /\ End(c)
    BY <1>7 DEF OpenDone
  <2> QED
    BY <1>2, <1>4, <1>5, <2>4, <2>5
<1>8. CASE CreateDone(c)
  <2> DEFINE k == [s |-> j.s, t |-> j.thread, b |-> {}]
             l == Listed(u, j.s, j.thread)
             v == [u EXCEPT !.session = j.s, !.base = j.rev, !.lastKey = k, !.list = l]
  <2>1. j.s \in Sessions
    BY <1>0, <1>8 DEF CreateDone, SoundCall, OfSession
  <2>2. l \in Lists /\ k \in KeyType
    BY <1>0, <2>1, ListUpdates DEF KeyType
  <2>3. v \in UIType /\ v.base = j.rev /\ v.timer = u.timer
    <3>1. /\ u \in UIType /\ j.s \in Sessions /\ j.rev \in Nat /\ l \in Lists
          /\ k \in KeyType \union {NoKey}
      BY <1>0, <2>1, <2>2
    <3> HIDE DEF u, j, l, k
    <3> QED
      BY <3>1 DEF UIType
  <2>4. Sound(Rerender(d, v), lastRev)
    BY <1>0, <2>3, Rerendered
  <2>5. ui' = [ui EXCEPT ![Device(c)] = Rerender(d, v)] /\ End(c)
    BY <1>8 DEF CreateDone
  <2> QED
    BY <1>2, <1>4, <1>5, <2>4, <2>5
<1>9. CASE RenameDone(c)
  <2> DEFINE v == [u EXCEPT !.base = j.rev, !.lastKey = NoKey]
  <2>1. v \in UIType /\ v.base = j.rev /\ v.session = u.session /\ v.timer = u.timer
    <3> HIDE DEF u, j
    <3>1. v \in UIType
      BY <1>0, UIUpdates
    <3> QED
      BY <1>0, <3>1, UIEffects
  <2>2. Sound(v, lastRev)
    BY <1>0, <2>1 DEF Sound
  <2>3. (UNCHANGED ui \/ ui' = [ui EXCEPT ![Device(c)] = v]) /\ End(c)
    BY <1>9 DEF RenameDone
  <2> QED
    BY <1>2, <1>4, <1>5, <2>2, <2>3 DEF UIStep
<1>10. CASE DeleteDone(c)
  <2> DEFINE l == [s \in DOMAIN u.list \ {j.s} |-> u.list[s]]
             v == [u EXCEPT !.list = l]
  <2>1. j.s \in Sessions
    BY <1>0, <1>10 DEF DeleteDone, SoundCall, OfSession
  <2>2. l \in Lists
    BY <1>0, <2>1, ListUpdates
  <2>3. v \in UIType /\ v.base = u.base /\ v.session = u.session /\ v.timer = u.timer
    BY <1>0, <2>2, UIUpdates, UIEffects
  <2>4. Sound(v, lastRev) /\ Sound(Left(v), lastRev)
    BY <1>0, <2>3, LeftSound DEF Sound
  <2>5. /\ ui' = [ui EXCEPT ![Device(c)] = v] \/ ui' = [ui EXCEPT ![Device(c)] = Left(v)]
        /\ End(c)
    BY <1>10 DEF DeleteDone
  <2> QED
    BY <1>2, <1>4, <1>5, <2>4, <2>5
<1> QED
  BY <1>3, <1>6, <1>7, <1>8, <1>9, <1>10

\* A fresh thread is one.
LEMMA FreshThreads == ASSUME HasFreshThread PROVE FreshThread \in Threads
BY DEF HasFreshThread, FreshThread

\* switchSharedSession and createSharedSession begin.
LEMMA StartSteps ==
    ASSUME TypeOK, ClientsSound, NEW c \in Calls, NEW s \in Sessions,
           OpenStart(c, s) \/ CreateStart(c)
    PROVE  ClientStep
<1> USE DEF SetUI, SetJob, server, local, bounds
<1> DEFINE d == Device(c)
           u == ui[Device(c)]
           n == u.seq + 1
           v == [u EXCEPT !.seq = n, !.blocks = {}]
<1>0. /\ d \in Devices /\ u \in UIType /\ u.base <= lastRev /\ lastRev \in Nat /\ n \in Nat
  BY Given, UIFields
<1>1. UNCHANGED <<server, local, shared, bounds>> /\ ui' = [ui EXCEPT ![d] = Render(v)]
  BY DEF OpenStart, CreateStart
<1>2. UIStep /\ JobStep => ClientStep
  BY <1>1 DEF ClientStep, TypeOK
<1>3. UIStep
  <2>1. v \in UIType /\ v.base = u.base
    <3> HIDE DEF u, n
    <3>1. v \in UIType
      BY <1>0, UIUpdates
    <3> QED
      BY <1>0, <3>1, UIEffects
  <2>2. Sound(Render(v), lastRev)
    BY <1>0, <2>1, Rendered
  <2> QED
    BY <1>0, <1>1, <2>2 DEF UIStep, Sound
<1>4. CASE OpenStart(c, s)
  <2> DEFINE j == [NoJob EXCEPT !.pc = "read_row", !.kind = "open", !.s = s, !.seq = n]
  <2>1. job' = [job EXCEPT ![c] = j]
    BY <1>4 DEF OpenStart
  <2>2. /\ j \in JobType /\ j.pc = "read_row" /\ j.kind = "open" /\ j.s = s /\ j.base = 0
        /\ j.rev = 0
    <3> HIDE DEF n
    <3> QED
      BY <1>0 DEF JobType, NoJob
  <2> HIDE DEF j
  <2>3. SoundCall(j, lastRev)
    BY <1>0, <2>2 DEF SoundCall, Opening
  <2> QED
    BY <1>2, <1>3, <2>1, <2>2, <2>3 DEF JobStep, Unasked, Opening
<1>5. CASE CreateStart(c)
  <2> DEFINE j == [NoJob EXCEPT !.pc = "create", !.kind = "create", !.seq = n]
  <2>1. job' = [job EXCEPT ![c] = j]
    BY <1>5 DEF CreateStart
  <2>2. j \in JobType /\ j.pc = "create" /\ j.base = 0 /\ j.rev = 0
    <3> HIDE DEF n
    <3> QED
      BY <1>0 DEF JobType, NoJob
  <2> HIDE DEF j
  <2>3. SoundCall(j, lastRev)
    BY <1>0, <2>2 DEF SoundCall, Opening, OfSession
  <2> QED
    BY <1>2, <1>3, <2>1, <2>2, <2>3 DEF JobStep, Unasked
<1> QED
  BY <1>4, <1>5

\* GET reads the row and the latest snapshot.
LEMMA ReadSteps ==
    ASSUME TypeOK, ClientsSound, \A s \in Sessions : snap[s].rev <= lastRev,
           NEW c \in Calls, ReadRow(c) \/ ReadSnapshot(c)
    PROVE  ClientStep
<1> USE DEF SetJob, server, local, bounds
<1>0. /\ job[c] \in JobType /\ SoundCall(job[c], lastRev) /\ lastRev \in Nat
      /\ job[c].kind = "open" /\ job[c].s \in Sessions
      /\ job[c].thread \in Threads \union {NoThread}
  BY Given, JobFields DEF SoundCall, ReadRow, ReadSnapshot, OfSession, Opening
<1>1. UNCHANGED <<server, local, ui, shared, bounds>>
  BY DEF ReadRow, ReadSnapshot
<1>2. JobStep => ClientStep
  BY <1>1 DEF ClientStep, UIStep, TypeOK
<1>3. CASE ReadRow(c) /\ job[c].s \in exists
  <2> DEFINE t == bound[job[c].s]
             j == [job[c] EXCEPT !.pc = "read_snapshot", !.thread = t]
  <2>1. job' = [job EXCEPT ![c] = j] /\ t \in Threads \union {NoThread}
    BY <1>0, <1>3 DEF ReadRow, TypeOK
  <2>2. /\ j \in JobType /\ j.pc = "read_snapshot" /\ j.kind = "open" /\ j.s = job[c].s
        /\ j.base = job[c].base /\ j.rev = job[c].rev
    <3> HIDE DEF t
    <3> QED
      BY <1>0, <2>1 DEF JobType
  <2> HIDE DEF j
  <2>3. SoundCall(j, lastRev)
    BY <1>0, <2>2 DEF SoundCall, Opening
  <2> QED
    BY <1>2, <2>1, <2>2, <2>3 DEF JobStep, Unasked, Opening
<1>4. CASE ReadRow(c) /\ job[c].s \notin exists
  BY <1>2, <1>4, Fails DEF ReadRow
<1>5. CASE ReadSnapshot(c)
  <2> DEFINE r == snap[job[c].s].rev
             b == snap[job[c].s].blocks
             t == IF job[c].thread = NoThread THEN snap[job[c].s].thread ELSE job[c].thread
             j == [job[c] EXCEPT !.pc = "opened", !.rev = r, !.blocks = b, !.thread = t]
  <2>1. job' = [job EXCEPT ![c] = j]
    BY <1>5 DEF ReadSnapshot
  <2>2. /\ r \in Nat /\ r <= lastRev /\ b \in SUBSET Edits
        /\ t \in Threads \union {NoThread}
    BY <1>0 DEF TypeOK, SnapshotType
  <2>3. /\ j \in JobType /\ j.pc = "opened" /\ j.kind = "open" /\ j.s = job[c].s
        /\ j.base = job[c].base /\ j.rev = r
    <3> HIDE DEF r, b, t
    <3> QED
      BY <1>0, <2>2 DEF JobType
  <2> HIDE DEF j
  <2>4. SoundCall(j, lastRev)
    BY <1>0, <2>2, <2>3 DEF SoundCall, Opening
  <2> QED
    BY <1>2, <2>1, <2>3, <2>4 DEF JobStep, Unasked, Opening
<1> QED
  BY <1>3, <1>4, <1>5

\* The answer to GET is applied, the thread of the session is resumed or replaced.
LEMMA OpenSteps ==
    ASSUME TypeOK, ClientsSound, NEW c \in Calls,
           OpenApply(c) \/ OpenResume(c) \/ OpenBind(c) \/ CreateThread(c)
    PROVE  ClientStep
<1> USE DEF SetUI, SetJob, server, local, bounds
<1> DEFINE d == Device(c)
           u == ui[Device(c)]
           j == job[c]
<1>0. /\ d \in Devices /\ u \in UIType /\ Sound(u, lastRev) /\ u.base \in Nat
      /\ u.base <= lastRev /\ j \in JobType /\ SoundCall(j, lastRev) /\ lastRev \in Nat
      /\ j.rev \in Nat /\ j.rev <= lastRev /\ j.thread \in Threads \union {NoThread}
  BY Given, JobFields, UIFields DEF SoundCall
<1>1. UNCHANGED <<server, turns, shared, bounds>>
  BY DEF OpenApply, OpenResume, OpenBind, CreateThread
<1>2. ASSUME UIStep, JobStep PROVE ClientStep
  <2>1. owner' \in [Threads -> Devices \union {NoDevice}]
    BY <1>0 DEF TypeOK, OpenApply, OpenResume, OpenBind, CreateThread
  <2> QED
    BY <1>1, <1>2, <2>1 DEF ClientStep, TypeOK
<1>3. End(c) => JobStep
  BY <1>0, Ends
<1>4. ASSUME NEW v, Sound(v, lastRev), ui' = [ui EXCEPT ![Device(c)] = v] PROVE UIStep
  BY <1>0, <1>4 DEF UIStep, Sound
<1>5. ASSUME NEW p \in {"start", "resume"}, j.pc \in Opening,
             p = "resume" => j.thread # NoThread, job' = [job EXCEPT ![c] = [j EXCEPT !.pc = p]]
      PROVE  JobStep
  <2> DEFINE k == [j EXCEPT !.pc = p]
  <2>1. /\ k \in JobType /\ k.pc = p /\ k.kind = j.kind /\ k.s = j.s /\ k.base = j.base
        /\ k.rev = j.rev /\ k.thread = j.thread
    BY <1>0 DEF JobType
  <2>2. SoundCall(k, lastRev)
    <3> HIDE DEF k, j
    <3> QED
      BY <1>0, <1>5, <2>1 DEF SoundCall, Opening, OfSession
  <2>3. job' = [job EXCEPT ![c] = k] /\ k.pc \in Unasked
    BY <1>5, <2>1 DEF Unasked, Opening
  <2> HIDE DEF k
  <2> QED
    BY <2>1, <2>2, <2>3 DEF JobStep
\* A thread is shown.
<1>6. ASSUME NEW t \in Threads
      PROVE  /\ [u EXCEPT !.thread = t] \in UIType
             /\ [u EXCEPT !.thread = t].base = u.base
             /\ Sound(Rerender(d, [u EXCEPT !.thread = t]), lastRev)
  <2> DEFINE v == [u EXCEPT !.thread = t]
  <2>1. v \in UIType /\ v.base = u.base /\ v.timer = u.timer
    <3> HIDE DEF u
    <3> QED
      BY <1>0 DEF UIType
  <2> QED
    BY <1>0, <2>1, Rerendered
<1>7. CASE Stale(c) /\ End(c) /\ UNCHANGED ui
  BY <1>2, <1>3, <1>7 DEF UIStep
<1>8. CASE OpenApply(c) /\ ~Stale(c)
  <2> DEFINE v == [u EXCEPT !.session = j.s, !.base = j.rev, !.lastKey = NoKey]
             p == IF j.thread = NoThread THEN "start" ELSE "resume"
  <2>1. j.s \in Sessions /\ j.pc \in Opening
    BY <1>0, <1>8 DEF OpenApply, SoundCall, OfSession, Opening
  <2>2. v \in UIType /\ v.base = j.rev /\ v.timer = u.timer
    <3> HIDE DEF u, j
    <3> QED
      BY <1>0, <2>1 DEF UIType
  <2>3. Sound(Rerender(d, v), lastRev)
    BY <1>0, <2>2, Rerendered
  <2>4. /\ ui' = [ui EXCEPT ![Device(c)] = Rerender(d, v)]
        /\ job' = [job EXCEPT ![c] = [j EXCEPT !.pc = p]]
    BY <1>8 DEF OpenApply
  <2>5. UIStep
    BY <1>4, <2>3, <2>4
  <2>6. JobStep
    BY <1>5, <2>1, <2>4
  <2> QED
    BY <1>2, <2>5, <2>6
<1>9. CASE OpenResume(c) /\ ~Stale(c)
  <2> DEFINE t == j.thread
             v == [u EXCEPT !.thread = t]
             w == [v EXCEPT !.blocks = turns[t]]
  <2>1. t \in Threads /\ turns[t] \in SUBSET Edits /\ j.pc \in Opening
    BY <1>0, <1>9 DEF OpenResume, SoundCall, TypeOK, Opening
  <2>2. \/ ui' = [ui EXCEPT ![Device(c)] = Render(w)] /\ End(c)
        \/ /\ ui' = [ui EXCEPT ![Device(c)] = Rerender(d, v)] \/ UNCHANGED ui
           /\ job' = [job EXCEPT ![c] = [j EXCEPT !.pc = "start"]]
    BY <1>9 DEF OpenResume
  <2>3. v \in UIType /\ v.base = u.base /\ Sound(Rerender(d, v), lastRev)
    BY <1>6, <2>1
  <2>4. w \in UIType /\ w.base = v.base
    <3> HIDE DEF v, t
    <3> QED
      BY <2>1, <2>3 DEF UIType
  <2>5. Sound(Render(w), lastRev)
    BY <1>0, <2>3, <2>4, Rendered
  <2>6. UIStep
    BY <1>4, <2>2, <2>3, <2>5 DEF UIStep
  <2>7. JobStep
    BY <1>3, <1>5, <2>1, <2>2
  <2> QED
    BY <1>2, <2>6, <2>7
<1>10. CASE OpenBind(c) /\ ~Stale(c)
  <2> DEFINE t == FreshThread
             k == [j EXCEPT !.pc = "patch", !.base = u.base, !.thread = t, !.row = t]
  <2>1. t \in Threads
    BY <1>10, FreshThreads DEF OpenBind
  <2>2. j.pc = "start" /\ j.kind = "open" /\ j.s \in Sessions
    BY <1>0, <1>10 DEF OpenBind, SoundCall, Opening, OfSession
  <2>3. /\ k \in JobType /\ k.pc = "patch" /\ k.kind = j.kind /\ k.s = j.s
        /\ k.base = u.base /\ k.rev = j.rev
    <3> HIDE DEF u, j, t
    <3> QED
      BY <1>0, <2>1 DEF JobType
  <2>4. /\ ui' = [ui EXCEPT ![Device(c)] = Rerender(d, [u EXCEPT !.thread = t])]
        /\ job' = [job EXCEPT ![c] = k]
    BY <1>10 DEF OpenBind
  <2>5. UIStep
    BY <1>4, <1>6, <2>1, <2>4
  <2>6. SoundCall(k, lastRev)
    <3> HIDE DEF k, u, j
    <3> QED
      BY <1>0, <2>2, <2>3 DEF SoundCall, Opening, OfSession
  <2>7. JobStep
    <3> HIDE DEF k
    <3> QED
      BY <2>2, <2>3, <2>4, <2>6 DEF JobStep
  <2> QED
    BY <1>2, <2>5, <2>7
<1>11. CASE CreateThread(c) /\ ~Stale(c)
  <2> DEFINE t == FreshThread
             k == [j EXCEPT !.pc = "post", !.thread = t]
  <2>1. t \in Threads
    BY <1>11, FreshThreads DEF CreateThread
  <2>2. k \in JobType /\ k.pc = "post" /\ k.base = j.base /\ k.rev = j.rev
    <3> HIDE DEF j, t
    <3> QED
      BY <1>0, <2>1 DEF JobType
  <2>3. /\ ui' = [ui EXCEPT ![Device(c)] = Rerender(d, [u EXCEPT !.thread = t])]
        /\ job' = [job EXCEPT ![c] = k]
    BY <1>11 DEF CreateThread
  <2>4. UIStep
    BY <1>4, <1>6, <2>1, <2>3
  <2>5. SoundCall(k, lastRev)
    <3> HIDE DEF k, j
    <3> QED
      BY <1>0, <2>2 DEF SoundCall, Opening, OfSession
  <2>6. JobStep
    <3> HIDE DEF k
    <3> QED
      BY <2>2, <2>3, <2>5 DEF JobStep, Unasked
  <2> QED
    BY <1>2, <2>4, <2>6
<1> QED
  BY <1>7, <1>8, <1>9, <1>10, <1>11 DEF OpenApply, OpenResume, OpenBind, CreateThread

\* Renaming and deleting begin; the renderer is left alone.
LEMMA RequestSteps ==
    ASSUME TypeOK, ClientsSound, NEW c \in Calls, NEW s \in Sessions,
           Rename(c, s) \/ DeleteStart(c, s)
    PROVE  ClientStep
<1> USE DEF SetJob, server, local, bounds
<1> DEFINE u == ui[Device(c)]
<1>0. /\ u \in UIType /\ u.base \in Nat /\ u.base <= lastRev /\ lastRev \in Nat
      /\ u.blocks \in SUBSET Edits /\ u.thread \in Threads \union {NoThread}
      /\ u.list \in Lists
  BY Given, UIFields
<1>1. /\ UNCHANGED <<server, local, ui, shared>>
      /\ renames' \in 0..MaxRenames /\ deletes' \in 0..MaxDeletes
  BY SessionAssumption DEF Rename, DeleteStart, TypeOK
<1>2. JobStep => ClientStep
  BY <1>1 DEF ClientStep, UIStep, TypeOK
<1>3. CASE DeleteStart(c, s)
  <2> DEFINE k == [NoJob EXCEPT !.pc = "delete", !.kind = "delete", !.s = s]
  <2>1. /\ k \in JobType /\ k.pc = "delete" /\ k.kind = "delete" /\ k.s = s /\ k.base = 0
        /\ k.rev = 0
    BY DEF JobType, NoJob
  <2>2. job' = [job EXCEPT ![c] = k]
    BY <1>3 DEF DeleteStart
  <2> HIDE DEF k
  <2>3. SoundCall(k, lastRev)
    BY <1>0, <2>1 DEF SoundCall, Opening
  <2> QED
    BY <1>2, <2>1, <2>2, <2>3 DEF JobStep, Unasked
<1>4. CASE Rename(c, s)
  <2> DEFINE t == u.list[s]
             j == [NoJob EXCEPT !.pc = "patch", !.s = s, !.row = t]
             k == [j EXCEPT !.kind = "rename", !.base = u.base, !.blocks = u.blocks,
                            !.thread = u.thread]
             h == [j EXCEPT !.kind = "retitle"]
  <2>1. t \in Threads \union {NoThread} /\ job[c].pc = "idle"
    BY <1>0, <1>4, ListFields DEF Rename
  <2>2. job' = [job EXCEPT ![c] = k] \/ job' = [job EXCEPT ![c] = h]
    BY <1>4 DEF Rename
  <2>3. /\ j \in JobType /\ j.pc = "patch" /\ j.s = s /\ j.base = 0 /\ j.rev = 0
    <3> HIDE DEF t
    <3> QED
      BY <2>1 DEF JobType, NoJob
  <2> HIDE DEF j
  <2>4. /\ k \in JobType /\ k.pc = "patch" /\ k.kind = "rename" /\ k.s = s /\ k.base = u.base
        /\ k.rev = 0
    <3> HIDE DEF u
    <3> QED
      BY <1>0, <2>3 DEF JobType
  <2>5. /\ h \in JobType /\ h.pc = "patch" /\ h.kind = "retitle" /\ h.s = s /\ h.base = 0
        /\ h.rev = 0
    BY <2>3 DEF JobType
  <2> HIDE DEF k, h
  <2>6. SoundCall(k, lastRev) /\ SoundCall(h, lastRev)
    <3> HIDE DEF u
    <3> QED
      BY <1>0, <2>4, <2>5 DEF SoundCall, Opening
  <2> QED
    BY <1>2, <2>1, <2>2, <2>4, <2>5, <2>6 DEF JobStep
<1> QED
  BY <1>3, <1>4

\* A turn is shown; the session is left.
LEMMA DeviceSteps ==
    ASSUME TypeOK, ClientsSound, NEW d \in Devices,
           (\E e \in Edits : Edit(d, e)) \/ SelectSharedWorkspace(d)
    PROVE  ClientStep
<1> USE DEF SetUI, server, local, bounds
<1> DEFINE u == ui[d]
<1>0. /\ u \in UIType /\ Sound(u, lastRev) /\ u.base <= lastRev /\ lastRev \in Nat
      /\ u.blocks \in SUBSET Edits /\ u.thread \in Threads \union {NoThread}
  BY Given, UIFields
<1>1. /\ UNCHANGED <<server, owner, job, shared, bounds>>
      /\ turns' \in [Threads -> SUBSET Edits]
  <2>1. ASSUME NEW e \in Edits, Edit(d, e) PROVE turns' \in [Threads -> SUBSET Edits]
    <3>1. u.thread \in Threads
      BY <1>0, <2>1 DEF Edit
    <3> QED
      BY <2>1, <3>1 DEF Edit, TypeOK
  <2> QED
    BY <2>1 DEF Edit, SelectSharedWorkspace, TypeOK
<1>2. UIStep => ClientStep
  BY <1>1 DEF ClientStep, JobStep, TypeOK
<1>3. ASSUME NEW v, Sound(v, lastRev), ui' = [ui EXCEPT ![d] = v] PROVE UIStep
  BY <1>3 DEF UIStep, Sound
<1>4. ASSUME NEW e \in Edits, Edit(d, e) PROVE ClientStep
  <2> DEFINE b == u.blocks \union {e}
             v == [u EXCEPT !.blocks = b]
  <2>1. ui' = [ui EXCEPT ![d] = Render(v)] /\ b \in SUBSET Edits
    BY <1>0, <1>4 DEF Edit
  <2>2. v \in UIType /\ v.base = u.base
    <3> HIDE DEF u, b
    <3> QED
      BY <1>0, <2>1 DEF UIType
  <2> QED
    BY <1>0, <1>2, <1>3, <2>1, <2>2, Rendered
<1>5. CASE SelectSharedWorkspace(d)
  <2> DEFINE l == [s \in exists |-> bound[s]]
             v == [Left(u) EXCEPT !.list = l, !.warned = FALSE]
  <2>1. ui' = [ui EXCEPT ![d] = v]
    BY <1>5 DEF SelectSharedWorkspace
  <2>2. l \in [exists -> Threads \union {NoThread}] /\ exists \in SUBSET Sessions
    BY DEF TypeOK
  <2> HIDE DEF l
  <2>3. l \in Lists
    BY <2>2, ListIntro
  <2>4. Sound(v, lastRev)
    BY <1>0, <2>3, LeftSound
  <2> QED
    BY <1>2, <1>3, <2>1, <2>4
<1> QED
  BY <1>4, <1>5

\* The timer queues a snapshot of the session that is shown, the queue sends it, and
\* its answer is applied.
LEMMA SyncSteps ==
    ASSUME TypeOK, ClientsSound, NEW d \in Devices, Synchronise(d)
    PROVE  ClientStep
<1> USE DEF SetUI, SetJob, server, local, bounds
<1> DEFINE u == ui[d]
           c == <<d, Sync>>
           j == job[<<d, Sync>>]
<1>0. /\ u \in UIType /\ Sound(u, lastRev) /\ u.base \in Nat /\ u.base <= lastRev
      /\ lastRev \in Nat /\ c \in Calls /\ j \in JobType /\ SoundCall(j, lastRev)
      /\ j.rev \in Nat /\ j.rev <= lastRev /\ j.row \in Threads \union {NoThread}
      /\ j.key \in KeyType \union {NoKey} /\ u.queue \in Seq(KeyType)
  BY Given, UIFields, JobFields DEF SoundCall
<1>1. UNCHANGED <<server, local, shared, bounds>>
  BY DEF Synchronise, TimerFires, SyncStart, SyncDone
<1>2. UIStep /\ JobStep => ClientStep
  BY <1>1 DEF ClientStep, TypeOK
<1>3. ASSUME NEW v, Sound(v, lastRev), ui' = [ui EXCEPT ![d] = v] PROVE UIStep
  BY <1>3 DEF UIStep, Sound
<1>4. CASE TimerFires(d)
  <2> DEFINE v == [u EXCEPT !.timer = FALSE]
             k == Key(v)
             q == Append(v.queue, k)
             w == [v EXCEPT !.wantKey = k, !.queue = q]
  <2>1. /\ ui' = [ui EXCEPT ![d] = v] \/ ui' = [ui EXCEPT ![d] = w]
        /\ UNCHANGED job /\ u.session # NoSession
    BY <1>0, <1>4 DEF TimerFires, Sound
  <2>2. /\ v \in UIType /\ v.base = u.base /\ v.session = u.session /\ v.queue = u.queue
        /\ v.timer = FALSE
    <3> HIDE DEF u
    <3> QED
      BY <1>0 DEF UIType
  <2> HIDE DEF v
  <2>3. k \in KeyType
    <3>1. /\ v.session \in Sessions /\ v.thread \in Threads \union {NoThread}
          /\ v.blocks \in SUBSET Edits
      BY <2>1, <2>2, UIFields
    <3> QED
      BY <3>1 DEF Key, KeyType
  <2>4. q \in Seq(KeyType)
    BY <1>0, <2>2, <2>3, AppendProperties
  <2> HIDE DEF k, q
  <2>5. w \in UIType /\ w.base = v.base /\ w.timer = v.timer
    BY <2>2, <2>3, <2>4 DEF UIType
  <2> HIDE DEF w
  <2>6. Sound(v, lastRev) /\ Sound(w, lastRev)
    BY <1>0, <2>2, <2>5, Zenon DEF Sound
  <2> QED
    BY <1>2, <1>3, <2>1, <2>6 DEF JobStep
<1>5. CASE SyncStart(d)
  <2> DEFINE k == Head(u.queue)
             q == Tail(u.queue)
             v == [u EXCEPT !.queue = q]
             h == [NoJob EXCEPT !.pc = "patch", !.s = k.s, !.base = u.base, !.blocks = k.b,
                                !.thread = k.t, !.row = k.t, !.key = k]
  <2>1. k \in KeyType /\ q \in Seq(KeyType)
    BY <1>0, <1>5, HeadTailProperties DEF SyncStart
  <2>2. /\ ui' = [ui EXCEPT ![d] = v] /\ j.pc = "idle"
        /\ UNCHANGED job \/ job' = [job EXCEPT ![c] = h]
    BY <1>5 DEF SyncStart
  <2>3. v \in UIType /\ v.base = u.base /\ v.session = u.session /\ v.timer = u.timer
    <3> HIDE DEF u, q
    <3> QED
      BY <1>0, <2>1 DEF UIType
  <2>4. Sound(v, lastRev)
    BY <1>0, <2>3 DEF Sound
  <2>5. /\ k.s \in Sessions /\ k.b \in SUBSET Edits /\ k.t \in Threads \union {NoThread}
    BY <2>1 DEF KeyType
  <2>6. /\ h \in JobType /\ h.pc = "patch" /\ h.kind = "sync" /\ h.s = k.s
        /\ h.base = u.base /\ h.rev = 0
    <3> HIDE DEF u, k
    <3> QED
      BY <1>0, <2>1, <2>5 DEF JobType, NoJob
  <2> HIDE DEF h
  <2>7. SoundCall(h, lastRev)
    <3> HIDE DEF u, k
    <3> QED
      BY <1>0, <2>5, <2>6 DEF SoundCall, Opening
  <2>8. JobStep
    BY <1>0, <2>2, <2>6, <2>7 DEF JobStep
  <2>9. UIStep
    BY <1>3, <2>2, <2>4
  <2> QED
    BY <1>2, <2>8, <2>9
<1>6. CASE SyncDone(d)
  <2> DEFINE l == Relisted(u, j.s, j.row)
             v == [u EXCEPT !.base = j.rev, !.list = l]
             w == [v EXCEPT !.lastKey = j.key]
  <2>1. /\ ui' = [ui EXCEPT ![d] = v] \/ ui' = [ui EXCEPT ![d] = w]
        /\ End(c)
    BY <1>6 DEF SyncDone
  <2>2. j.s \in Sessions
    BY <1>0, <1>6 DEF SyncDone, SoundCall, OfSession
  <2>3. l \in Lists
    BY <1>0, <2>2, ListUpdates
  <2>4. v \in UIType /\ v.base = j.rev /\ v.session = u.session /\ v.timer = u.timer
    <3> HIDE DEF u, j, l
    <3> QED
      BY <1>0, <2>3 DEF UIType
  <2> HIDE DEF v
  <2>5. w \in UIType /\ w.base = v.base /\ w.session = v.session /\ w.timer = v.timer
    <3> HIDE DEF j
    <3> QED
      BY <1>0, <2>4 DEF UIType
  <2> HIDE DEF w
  <2>6. Sound(v, lastRev) /\ Sound(w, lastRev)
    BY <1>0, <2>4, <2>5 DEF Sound
  <2> QED
    BY <1>0, <1>2, <1>3, <2>1, <2>6, Ends
<1> QED
  BY <1>4, <1>5, <1>6 DEF Synchronise

----------------------------------------------------------------------------
(* The invariant *)

\* A step of a renderer keeps it: no call gets between the statements of a transaction
\* by one.
LEMMA ClientStepSound == IndInv /\ ClientStep => IndInv'
<1> SUFFICES ASSUME TypeOK, ClientsSound, ServerSound, ClientStep PROVE IndInv'
  BY DEF IndInv
<1> USE DEF server
<1>1. ui' \in [Devices -> UIType] /\ \A d \in Devices : Sound(ui'[d], lastRev)
  BY DEF ClientStep, UIStep, TypeOK, ClientsSound
<1>2. job' \in [Calls -> JobType] /\ \A c \in Calls : SoundCall(job'[c], lastRev)
  BY DEF ClientStep, JobStep, TypeOK, ClientsSound
<1>3. \A c \in Calls : job'[c].pc = "insert" => job'[c] = job[c]
  BY DEF ClientStep, JobStep, Unasked, Opening, TypeOK
<1>4. TypeOK'
  BY <1>1, <1>2 DEF ClientStep, TypeOK
<1>5. ClientsSound'
  BY <1>1, <1>2 DEF ClientStep, ClientsSound
<1>6. ServerSound'
  BY <1>3 DEF ClientStep, ServerSound, TransactionsIsolated, SnapshotsHaveSessions
<1> QED
  BY <1>4, <1>5, <1>6 DEF IndInv

\* The revisions only grow, so that what was sound stays sound.
LEMMA SoundGrows ==
    ASSUME NEW r \in Nat, NEW n \in Nat, r <= n
    PROVE  /\ \A u : Sound(u, r) => Sound(u, n)
           /\ \A j : SoundCall(j, r) => SoundCall(j, n)
<1>1. ASSUME NEW u, Sound(u, r) PROVE Sound(u, n)
  <2>1. u.base <= n
    BY <1>1, UIFields DEF Sound
  <2> QED
    BY <1>1, <2>1 DEF Sound
<1>2. ASSUME NEW j, SoundCall(j, r) PROVE SoundCall(j, n)
  <2>1. j.base <= n /\ j.rev <= n
    BY <1>2, JobFields DEF SoundCall
  <2> QED
    BY <1>2, <2>1 DEF SoundCall
<1> QED
  BY <1>1, <1>2

\* The first statement of a PATCH takes the row lock only if nobody has it.
LEMMA TxBeginSound == ASSUME IndInv, NEW c \in Calls, TxBegin(c) PROVE IndInv'
<1> USE DEF IndInv, SetJob, local, bounds
<1> DEFINE s == job[c].s
<1>0. /\ job[c] \in JobType /\ SoundCall(job[c], lastRev) /\ s \in Sessions
      /\ job[c].kind \in {"open", "rename", "retitle", "sync"} /\ lastRev \in Nat
  BY Given DEF TxBegin, SoundCall, OfSession
<1>1. PICK p \in {"insert", "conflict", "failed"} :
         /\ job' = [job EXCEPT ![c] = [job[c] EXCEPT !.pc = p]]
         /\ p = "insert" => s \in exists /\ ~Refused(c) /\ lock' = [lock EXCEPT ![s] = c]
         /\ p # "insert" => UNCHANGED lock
         /\ UNCHANGED <<snap, bound, exists, deleted, lastRev, local, ui, shared, bounds>>
         /\ lock[s] = NoCall
  <2>1. UNCHANGED <<snap, bound, exists, deleted, lastRev, local, ui, shared, bounds>>
        /\ lock[s] = NoCall
    BY DEF TxBegin
  <2>2. CASE s \in exists /\ ~Refused(c)
    BY <2>1, <2>2 DEF TxBegin
  <2>3. CASE s \in exists /\ Refused(c)
    BY <2>1, <2>3 DEF TxBegin
  <2>4. CASE s \notin exists
    BY <2>1, <2>4 DEF TxBegin
  <2> QED
    BY <2>2, <2>3, <2>4
<1> DEFINE k == [job[c] EXCEPT !.pc = p]
<1>2. /\ k \in JobType /\ k.pc = p /\ k.kind = job[c].kind /\ k.s = s /\ k.base = job[c].base
      /\ k.rev = job[c].rev
  BY <1>0 DEF JobType
<1>3. SoundCall(k, lastRev)
  <2> HIDE DEF k
  <2> QED
    BY <1>0, <1>2 DEF SoundCall, Opening, OfSession
<1>4. job' = [job EXCEPT ![c] = k]
  BY <1>1
<1> HIDE DEF k
<1>5. /\ job' \in [Calls -> JobType] /\ job'[c] = k
      /\ \A x \in Calls : x # c => job'[x] = job[x]
  BY <1>2, <1>4 DEF TypeOK
<1>6. TypeOK'
  BY <1>0, <1>1, <1>5 DEF TypeOK
<1>7. ClientsSound'
  BY <1>1, <1>3, <1>5 DEF ClientsSound
<1>8. TransactionsIsolated'
  <2>1. NoCall \notin Calls
    BY SessionAssumption
  <2>2. ASSUME NEW x \in Calls, x # c, job[x].pc = "insert"
        PROVE  job[x].s # s /\ lock'[job[x].s] = x
    BY <1>0, <1>1, <2>1, <2>2 DEF ServerSound, TransactionsIsolated, TypeOK
  <2>3. ASSUME p = "insert"
        PROVE  lock'[s] = c /\ (k.kind # "retitle" => k.base = snap[s].rev)
    BY <1>0, <1>1, <1>2, <2>3 DEF Refused, TypeOK
  <2> QED
    BY <1>1, <1>2, <1>5, <2>2, <2>3 DEF ServerSound, TransactionsIsolated
<1> QED
  BY <1>1, <1>6, <1>7, <1>8 DEF ServerSound, SnapshotsHaveSessions

\* The second statement writes for the session whose row is locked.
LEMMA TxCommitSound == ASSUME IndInv, NEW c \in Calls, TxCommit(c) PROVE IndInv'
<1> USE DEF IndInv, SetJob, local, bounds
<1> DEFINE s == job[c].s
           n == [rev |-> lastRev + 1, blocks |-> job[c].blocks, thread |-> job[c].thread,
                 by |-> c]
<1>0. /\ job[c] \in JobType /\ SoundCall(job[c], lastRev) /\ s \in Sessions
      /\ lastRev \in Nat /\ job[c].blocks \in SUBSET Edits
      /\ job[c].thread \in Threads \union {NoThread} /\ job[c].row \in Threads \union {NoThread}
      /\ job[c].base \in Nat /\ job[c].rev \in Nat /\ s \in exists /\ lock[s] = c
      /\ job[c].pc = "insert"
  BY Given, JobFields DEF TxCommit, SoundCall, OfSession, ServerSound, TransactionsIsolated
<1>1. /\ UNCHANGED <<exists, deleted, local, ui, bounds>>
      /\ bound' = [bound EXCEPT ![s] = job[c].row] /\ lock' = [lock EXCEPT ![s] = NoCall]
  BY DEF TxCommit
<1> DEFINE r == IF job[c].kind = "retitle" THEN job[c].rev ELSE lastRev + 1
<1>2. /\ \/ job' = [job EXCEPT ![c] = [job[c] EXCEPT !.pc = "answered", !.rev = r]]
         \/ /\ job' = [job EXCEPT ![c] = [job[c] EXCEPT !.pc = "answered"]]
            /\ r = job[c].rev
      /\ \/ /\ snap' = [snap EXCEPT ![s] = n] /\ lastRev' = lastRev + 1 /\ r = lastRev'
            /\ shared' = shared \union job[c].blocks
         \/ UNCHANGED <<snap, lastRev, shared>> /\ r <= lastRev
      /\ r \in Nat
  <2>1. CASE job[c].kind # "retitle"
    <3>1. r = lastRev + 1 /\ r \in Nat
      BY <1>0, <2>1
    <3>2. /\ job' = [job EXCEPT ![c] = [job[c] EXCEPT !.pc = "answered", !.rev = lastRev + 1]]
          /\ snap' = [snap EXCEPT ![s] = n] /\ lastRev' = lastRev + 1
          /\ shared' = shared \union job[c].blocks
      BY <2>1 DEF TxCommit
    <3>3. job' = [job EXCEPT ![c] = [job[c] EXCEPT !.pc = "answered", !.rev = r]]
      BY <3>1, <3>2
    <3>4. r = lastRev'
      BY <3>1, <3>2
    <3> HIDE DEF n, r
    <3> QED
      BY <3>1, <3>2, <3>3, <3>4
  <2>2. CASE job[c].kind = "retitle"
    BY <1>0, <2>2 DEF TxCommit, SoundCall
  <2> QED
    BY <2>1, <2>2
<1> HIDE DEF r
<1>3. lastRev' \in Nat /\ lastRev <= lastRev' /\ r <= lastRev'
  BY <1>0, <1>2
<1>4. /\ job' \in [Calls -> JobType] /\ job'[c].pc = "answered" /\ job'[c].s = s
      /\ job'[c].base = job[c].base /\ job'[c].rev = r
      /\ \A x \in Calls : x # c => job'[x] = job[x]
  <2>1. LET k == [job[c] EXCEPT !.pc = "answered", !.rev = r]
        IN  k \in JobType /\ k.pc = "answered" /\ k.s = s /\ k.base = job[c].base /\ k.rev = r
    BY <1>0, <1>2 DEF JobType
  <2>2. LET k == [job[c] EXCEPT !.pc = "answered"]
        IN  /\ k \in JobType /\ k.pc = "answered" /\ k.s = s /\ k.base = job[c].base
            /\ k.rev = job[c].rev
    BY <1>0 DEF JobType
  <2> QED
    BY <1>2, <2>1, <2>2 DEF TypeOK
<1>5. ClientsSound'
  <2>1. SoundCall(job'[c], lastRev')
    <3>1. job'[c].base <= lastRev' /\ job'[c].rev <= lastRev' /\ job'[c] \in JobType
      BY <1>0, <1>3, <1>4 DEF SoundCall
    <3> QED
      BY <1>0, <1>4, <3>1 DEF SoundCall, Opening, OfSession
  <2> QED
    BY <1>0, <1>1, <1>3, <1>4, <2>1, SoundGrows DEF ClientsSound
<1>6. n \in SnapshotType
  BY <1>0 DEF SnapshotType
<1> HIDE DEF n
<1>7. snap' \in [Sessions -> SnapshotType] /\ shared' \subseteq Edits
  BY <1>0, <1>2, <1>6 DEF TypeOK
<1>8. TypeOK'
  BY <1>0, <1>1, <1>3, <1>4, <1>7 DEF TypeOK
<1>9. /\ \A x \in Sessions : x # s => snap'[x] = snap[x]
      /\ snap'[s] = snap[s] \/ snap'[s].rev = lastRev'
  BY <1>0, <1>2 DEF TypeOK, n
<1>10. ServerSound'
  <2>1. \A x \in Sessions : snap'[x].rev <= lastRev'
    <3>1. \A x \in Sessions : snap[x].rev \in Nat /\ snap[x].rev <= lastRev
      BY DEF ServerSound, TypeOK, SnapshotType
    <3> QED
      BY <1>0, <1>3, <1>9, <3>1
  <2>2. SnapshotsHaveSessions'
    BY <1>0, <1>1, <1>9 DEF ServerSound, SnapshotsHaveSessions
  <2>3. TransactionsIsolated'
    <3>1. ASSUME NEW x \in Calls, x # c, job[x].pc = "insert"
          PROVE  job[x].s # s /\ lock'[job[x].s] = x /\ job[x].s \in Sessions
      BY <1>0, <1>1, <3>1 DEF ServerSound, TransactionsIsolated, TypeOK, ClientsSound,
         SoundCall, OfSession
    <3> QED
      BY <1>1, <1>4, <1>9, <3>1 DEF ServerSound, TransactionsIsolated
  <2> QED
    BY <2>1, <2>2, <2>3 DEF ServerSound
<1> QED
  BY <1>5, <1>8, <1>10

\* A deletion waits for the lock: no transaction is between its statements.
LEMMA DeleteRowSound == ASSUME IndInv, NEW c \in Calls, DeleteRow(c) PROVE IndInv'
<1> USE DEF IndInv, SetJob, local, bounds
<1> DEFINE s == job[c].s
<1>0. /\ job[c] \in JobType /\ SoundCall(job[c], lastRev) /\ s \in Sessions
      /\ lastRev \in Nat /\ lock[s] = NoCall /\ NoCall \notin Calls
  BY Given, SessionAssumption DEF DeleteRow, SoundCall, OfSession
<1>1. /\ UNCHANGED <<bound, lock, lastRev, local, ui, shared, bounds>>
      /\ \/ /\ exists' = exists \ {s} /\ deleted' = deleted \union {s}
            /\ snap' = [snap EXCEPT ![s] = NoSnapshot]
         \/ UNCHANGED <<exists, deleted, snap>>
  BY DEF DeleteRow
<1>2. PICK p \in {"answered", "failed"} :
         job' = [job EXCEPT ![c] = [job[c] EXCEPT !.pc = p]]
  BY DEF DeleteRow
<1> DEFINE k == [job[c] EXCEPT !.pc = p]
<1>3. /\ k \in JobType /\ k.pc = p /\ k.s = s /\ k.base = job[c].base /\ k.rev = job[c].rev
  BY <1>0 DEF JobType
<1>4. job' = [job EXCEPT ![c] = k]
  BY <1>2
<1> HIDE DEF k
<1>5. /\ job' \in [Calls -> JobType] /\ job'[c] = k
      /\ \A x \in Calls : x # c => job'[x] = job[x]
  BY <1>3, <1>4 DEF TypeOK
<1>6. SoundCall(k, lastRev)
  BY <1>0, <1>3 DEF SoundCall, Opening, OfSession
<1>7. NoSnapshot \in SnapshotType /\ NoSnapshot.rev = 0
  BY DEF NoSnapshot, SnapshotType
<1>8. snap' \in [Sessions -> SnapshotType]
  BY <1>0, <1>1, <1>7 DEF TypeOK
<1>9. TypeOK'
  BY <1>0, <1>1, <1>5, <1>8 DEF TypeOK
<1>10. ClientsSound'
  BY <1>1, <1>5, <1>6 DEF ClientsSound
<1>11. /\ \A x \in Sessions : x # s => snap'[x] = snap[x] /\ (x \in exists' <=> x \in exists)
       /\ (snap'[s] = snap[s] /\ exists' = exists) \/ snap'[s].rev = 0
  BY <1>0, <1>1, <1>7 DEF TypeOK
<1>12. ServerSound'
  <2>1. \A x \in Sessions : snap'[x].rev <= lastRev'
    BY <1>0, <1>1, <1>11 DEF ServerSound
  <2>2. SnapshotsHaveSessions'
    BY <1>11 DEF ServerSound, SnapshotsHaveSessions
  <2>3. TransactionsIsolated'
    <3>1. ASSUME NEW x \in Calls, x # c, job[x].pc = "insert"
          PROVE  job[x].s # s /\ job[x].s \in Sessions
      BY <1>0, <3>1 DEF ServerSound, TransactionsIsolated, ClientsSound, SoundCall, OfSession
    <3> QED
      BY <1>1, <1>3, <1>5, <1>11, <3>1 DEF ServerSound, TransactionsIsolated
  <2> QED
    BY <2>1, <2>2, <2>3 DEF ServerSound
<1> QED
  BY <1>9, <1>10, <1>12

\* A new session is not one that a transaction works on.
LEMMA PostSound == ASSUME IndInv, NEW c \in Calls, Post(c) PROVE IndInv'
<1> USE DEF IndInv, SetJob, local, bounds
<1>0. /\ job[c] \in JobType /\ SoundCall(job[c], lastRev) /\ lastRev \in Nat
      /\ job[c].thread \in Threads \union {NoThread} /\ job[c].base \in Nat
  BY Given, JobFields
<1> DEFINE r == lastRev + 1
           n == [rev |-> r, blocks |-> {}, thread |-> job[c].thread, by |-> c]
<1>1. PICK s \in Sessions \ (exists \union deleted) :
         /\ exists' = exists \union {s} /\ snap' = [snap EXCEPT ![s] = n]
         /\ bound' = [bound EXCEPT ![s] = job[c].thread]
         /\ job' = [job EXCEPT ![c] = [job[c] EXCEPT !.pc = "created", !.s = s, !.rev = r]]
  BY DEF Post
<1>2. lastRev' = r /\ UNCHANGED <<deleted, lock, local, ui, shared, bounds>>
  BY DEF Post
<1>3. r \in Nat /\ lastRev <= r /\ n \in SnapshotType /\ n.rev = r
  BY <1>0 DEF SnapshotType
<1> DEFINE k == [job[c] EXCEPT !.pc = "created", !.s = s, !.rev = r]
<1> HIDE DEF n, r
<1>4. k \in JobType /\ k.pc = "created" /\ k.s = s /\ k.base = job[c].base /\ k.rev = r
  BY <1>0, <1>3 DEF JobType
<1>5. job' = [job EXCEPT ![c] = k]
  BY <1>1
<1> HIDE DEF k
<1>6. /\ job' \in [Calls -> JobType] /\ job'[c] = k
      /\ \A x \in Calls : x # c => job'[x] = job[x]
  BY <1>4, <1>5 DEF TypeOK
<1>7. ClientsSound'
  <2>1. SoundCall(k, lastRev')
    <3>1. k.base <= lastRev' /\ k.rev <= lastRev'
      BY <1>0, <1>2, <1>3, <1>4 DEF SoundCall
    <3> QED
      BY <1>4, <3>1 DEF SoundCall, Opening, OfSession
  <2> QED
    BY <1>0, <1>2, <1>3, <1>6, <2>1, SoundGrows DEF ClientsSound
<1>8. TypeOK'
  BY <1>0, <1>1, <1>2, <1>3, <1>6 DEF TypeOK
<1>9. /\ \A x \in Sessions : x # s => snap'[x] = snap[x]
      /\ snap'[s].rev = r
  BY <1>1, <1>3 DEF TypeOK
<1>10. ServerSound'
  <2>1. \A x \in Sessions : snap'[x].rev <= lastRev'
    <3>1. \A x \in Sessions : snap[x].rev \in Nat /\ snap[x].rev <= lastRev
      BY DEF ServerSound, TypeOK, SnapshotType
    <3> QED
      BY <1>0, <1>2, <1>3, <1>9, <3>1
  <2>2. SnapshotsHaveSessions'
    BY <1>1, <1>9 DEF ServerSound, SnapshotsHaveSessions
  <2>3. TransactionsIsolated'
    <3>1. ASSUME NEW x \in Calls, x # c, job[x].pc = "insert"
          PROVE  job[x].s # s /\ job[x].s \in Sessions
      BY <1>1, <3>1 DEF ServerSound, TransactionsIsolated, ClientsSound, SoundCall, OfSession
    <3> QED
      BY <1>1, <1>2, <1>4, <1>6, <1>9, <3>1 DEF ServerSound, TransactionsIsolated
  <2> QED
    BY <2>1, <2>2, <2>3 DEF ServerSound
<1> QED
  BY <1>7, <1>8, <1>10

\* Every step is one of a renderer, or one of the four transactions.
LEMMA StepKinds ==
    ASSUME IndInv, [Next]_vars
    PROVE  \/ ClientStep
           \/ \E c \in Calls : TxBegin(c) \/ TxCommit(c) \/ DeleteRow(c) \/ Post(c)
<1> USE DEF IndInv
<1>1. CASE UNCHANGED vars
  BY <1>1 DEF vars, server, local, bounds, ClientStep, UIStep, JobStep, TypeOK
<1>2. ASSUME NEW c \in Calls,
             User(c) \/ Open(c) \/ CreateThread(c) \/ CreateDone(c) \/ Answer(c) \/ Lose(c)
      PROVE  ClientStep
  <2>1. CASE User(c)
    <3>1. CASE CreateStart(c)
      <4>1. PICK s : s \in Sessions
        BY <3>1 DEF CreateStart, TypeOK
      <4> QED
        BY <3>1, <4>1, StartSteps
    <3> QED
      BY <2>1, <3>1, StartSteps, RequestSteps DEF User
  <2>2. CASE Open(c)
    BY <2>2, ReadSteps, OpenSteps, AnswerSteps DEF Open, ServerSound
  <2>3. CASE CreateThread(c) \/ CreateDone(c) \/ Answer(c) \/ Lose(c)
    BY <2>3, OpenSteps, AnswerSteps DEF Answer
  <2> QED
    BY <1>2, <2>1, <2>2, <2>3
<1>3. ASSUME NEW d \in Devices, NEW e \in Edits, Edit(d, e) PROVE ClientStep
  BY <1>3, DeviceSteps
<1>4. ASSUME NEW d \in Devices, Synchronise(d) PROVE ClientStep
  BY <1>4, SyncSteps
<1>5. ASSUME NEW d \in Devices, SelectSharedWorkspace(d) PROVE ClientStep
  BY <1>5, DeviceSteps
<1> QED
  BY <1>1, <1>2, <1>3, <1>4, <1>5 DEF Next, Request, Create

\* Init establishes the invariant.
LEMMA IndInit == Init => IndInv
<1> SUFFICES ASSUME Init PROVE IndInv
  OBVIOUS
<1>1. FreshUI \in UIType /\ FreshUI.base = 0 /\ FreshUI.timer = FALSE
  <2>1. [s \in Existing |-> NoThread] \in Lists
    BY SessionAssumption, ListIntro
  <2>2. <<>> \in Seq(KeyType)
    BY EmptySeq
  <2> DEFINE l == [s \in Existing |-> NoThread]
  <2> HIDE DEF l
  <2> QED
    BY <2>1, <2>2 DEF FreshUI, UIType, l
<1>2. NoSnapshot \in SnapshotType /\ NoSnapshot.rev = 0
  BY DEF NoSnapshot, SnapshotType
<1>3. TypeOK
  BY <1>1, <1>2, NoJobType, SessionAssumption DEF Init, TypeOK
<1>4. ClientsSound
  <2>1. Sound(FreshUI, 0)
    <3>1. FreshUI.base <= 0
      BY <1>1
    <3> QED
      BY <1>1, <3>1, Zenon DEF Sound
  <2>2. SoundCall(NoJob, 0)
    BY NoJobType DEF SoundCall, Opening, OfSession
  <2> QED
    BY <2>1, <2>2 DEF Init, ClientsSound
<1>5. ServerSound
  BY <1>2, NoJobType DEF Init, ServerSound, TransactionsIsolated, SnapshotsHaveSessions
<1> QED
  BY <1>3, <1>4, <1>5 DEF IndInv

\* The invariant holds in every reachable state.
LEMMA Invariance == Spec => []IndInv
<1>1. IndInv /\ [Next]_vars => IndInv'
  BY StepKinds, ClientStepSound, TxBeginSound, TxCommitSound, DeleteRowSound, PostSound
<1> QED
  BY IndInit, <1>1, PTL DEF Spec

----------------------------------------------------------------------------
(* The refinement: every step is a step of the store, or leaves it alone *)

\* ClientView as a function of the call's record, and the variables req and latest of
\* the abstract specification.
View(j) ==
    CASE j.pc \in {"patch", "insert"} /\ j.kind # "retitle" ->
            [st |-> "asked", key |-> j.s, base |-> j.base, data |-> <<j.blocks, j.thread>>]
      [] \/ j.pc = "created"
         \/ j.pc = "answered" /\ j.kind \in {"open", "rename", "sync"} ->
            [st |-> "accepted", rev |-> j.rev]
      [] j.pc = "conflict" -> [st |-> "refused"]
      [] OTHER -> [st |-> "idle"]

Views   == [c \in Calls |-> ClientView(c)]
Latests == [s \in Sessions |-> [rev |-> snap[s].rev,
                                data |-> <<snap[s].blocks, snap[s].thread>>]]

\* What the store sees of a call at each await.
LEMMA ViewCases ==
    ASSUME NEW j
    PROVE  /\ j.pc \in Unasked => View(j) = [st |-> "idle"]
           /\ j.pc \in {"patch", "insert"} /\ j.kind # "retitle" =>
                 View(j) = [st |-> "asked", key |-> j.s, base |-> j.base,
                            data |-> <<j.blocks, j.thread>>]
           /\ j.pc \in {"patch", "insert", "answered"} /\ j.kind = "retitle" =>
                 View(j) = [st |-> "idle"]
           /\ j.pc = "answered" /\ j.kind = "delete" => View(j) = [st |-> "idle"]
           /\ \/ j.pc = "created"
              \/ j.pc = "answered" /\ j.kind \in {"open", "rename", "sync"}
              => View(j) = [st |-> "accepted", rev |-> j.rev]
           /\ j.pc = "conflict" => View(j) = [st |-> "refused"]
BY DEF View, Unasked, Opening

\* A step of one call changes what the store sees of that call only.
LEMMA ViewSteps ==
    /\ \A c \in Calls : Views[c] = View(job[c])
    /\ \A c \in Calls : \A j :
          job \in [Calls -> JobType] /\ job' = [job EXCEPT ![c] = j] =>
             Views' = [Views EXCEPT ![c] = View(j)] /\ Views'[c] = View(j)
    /\ UNCHANGED job => UNCHANGED Views
<1>1. \A c \in Calls : ClientView(c) = View(job[c])
  BY DEF ClientView, View, Patching, Accepted
<1>2. \A c \in Calls : ClientView(c)' = View(job'[c])
  BY DEF ClientView, View, Patching, Accepted
<1>3. Views = [c \in Calls |-> View(job[c])] /\ Views' = [c \in Calls |-> View(job'[c])]
  BY <1>1, <1>2 DEF Views
<1>4. UNCHANGED job => UNCHANGED Views
  BY <1>3
<1>5. ASSUME NEW c \in Calls, NEW j, job \in [Calls -> JobType],
             job' = [job EXCEPT ![c] = j]
      PROVE  Views' = [Views EXCEPT ![c] = View(j)] /\ Views'[c] = View(j)
  <2>1. \A x \in Calls : job'[x] = IF x = c THEN j ELSE job[x]
    BY <1>5
  <2>2. \A x \in Calls : View(job'[x]) = IF x = c THEN View(j) ELSE View(job[x])
    BY <2>1
  <2> QED
    BY <1>3, <2>2
<1> QED
  BY <1>3, <1>4, <1>5

\* A step that changes what the store sees of one call and nothing else, to nothing.
LEMMA StoreFinishes ==
    ASSUME NEW c \in Calls, UNCHANGED <<exists, deleted, Latests, lastRev>>,
           Views' = [Views EXCEPT ![c] = [st |-> "idle"]]
    PROVE  [Store!Next]_Store!vars
<1> USE DEF Views, Latests
<1>1. CASE Views[c] = [st |-> "idle"]
  <2>1. Views' = Views
    BY <1>1
  <2> QED
    BY <2>1 DEF Store!vars
<1>2. CASE Views[c] # [st |-> "idle"]
  BY <1>2 DEF Store!Next, Store!Finish, Store!Idle
<1> QED
  BY <1>1, <1>2

\* The renderers only ask, take answers and give up.
LEMMA ClientRefines == IndInv /\ ClientStep => [Store!Next]_Store!vars
<1> SUFFICES ASSUME IndInv, ClientStep PROVE [Store!Next]_Store!vars
  OBVIOUS
<1>1. UNCHANGED <<exists, deleted, Latests, lastRev>>
  BY DEF ClientStep, server, Latests
<1>2. CASE UNCHANGED job
  <2>1. Views' = Views
    BY <1>2, ViewSteps
  <2> QED
    BY <1>1, <2>1 DEF Store!vars, Views, Latests
<1>3. ASSUME NEW c \in Calls, NEW j \in JobType, SoundCall(j, lastRev),
             job' = [job EXCEPT ![c] = j],
             j.pc \in Unasked \/ (j.pc = "patch" /\ job[c].pc \in {"idle", "start"})
      PROVE  [Store!Next]_Store!vars
  <2>1. Views' = [Views EXCEPT ![c] = View(j)] /\ Views'[c] = View(j)
    BY <1>3, ViewSteps DEF IndInv, TypeOK
  <2>2. CASE j.pc \in Unasked \/ j.kind = "retitle"
    BY <1>1, <1>3, <2>1, <2>2, ViewCases, StoreFinishes
  <2>3. CASE j.pc = "patch" /\ j.kind # "retitle"
    <3> DEFINE v == [st |-> "asked", key |-> j.s, base |-> j.base,
                     data |-> <<j.blocks, j.thread>>]
    <3>1. View(j) = v
      BY <2>3, ViewCases
    <3>2. Views[c] = [st |-> "idle"]
      BY <1>3, <2>3, ViewCases, ViewSteps DEF Unasked, Opening
    <3>3. v \in Store!Request /\ v.base <= lastRev
      <4>1. j.s \in Sessions /\ j.base \in Nat /\ j.base <= lastRev
            /\ j.blocks \in SUBSET Edits /\ j.thread \in Threads \union {NoThread}
        BY <1>3, <2>3, JobFields DEF SoundCall, OfSession
      <4> QED
        BY <4>1 DEF Store!Request
    <3> HIDE DEF v
    <3>4. Store!Ask(c)
      BY <1>1, <2>1, <3>1, <3>2, <3>3 DEF Store!Ask, Store!Idle, Views, Latests
    <3> QED
      BY <3>4 DEF Store!Next
  <2> QED
    BY <1>3, <2>2, <2>3
<1> QED
  BY <1>2, <1>3 DEF ClientStep, JobStep

\* The first statement of a PATCH: the store sees a refusal or nothing.
LEMMA TxBeginRefines ==
    ASSUME IndInv, NEW c \in Calls, TxBegin(c)
    PROVE  [Store!Next]_Store!vars
<1> USE DEF SetJob
<1>0. /\ job \in [Calls -> JobType] /\ job[c] \in JobType /\ job[c].pc = "patch"
      /\ job[c].s \in Sessions /\ Views[c] = View(job[c])
  BY Given, ViewSteps DEF IndInv, TypeOK, TxBegin, SoundCall, OfSession
<1>1. UNCHANGED <<exists, deleted, Latests, lastRev>>
  BY DEF TxBegin, Latests
<1>2. ASSUME NEW p \in {"insert", "conflict", "failed"},
             job' = [job EXCEPT ![c] = [job[c] EXCEPT !.pc = p]]
      PROVE  \E k \in JobType :
                /\ k.pc = p /\ k.kind = job[c].kind /\ k.s = job[c].s /\ k.base = job[c].base
                /\ k.blocks = job[c].blocks /\ k.thread = job[c].thread
                /\ Views' = [Views EXCEPT ![c] = View(k)]
  <2> DEFINE k == [job[c] EXCEPT !.pc = p]
  <2>1. /\ k \in JobType /\ k.pc = p /\ k.kind = job[c].kind /\ k.s = job[c].s
        /\ k.base = job[c].base /\ k.blocks = job[c].blocks /\ k.thread = job[c].thread
    BY <1>0 DEF JobType
  <2>2. job' = [job EXCEPT ![c] = k]
    BY <1>2
  <2> HIDE DEF k
  <2> QED
    BY <1>0, <2>1, <2>2, ViewSteps
<1>3. CASE job[c].s \in exists /\ ~Refused(c)
  <2>1. PICK k \in JobType :
           /\ k.pc = "insert" /\ k.kind = job[c].kind /\ k.s = job[c].s /\ k.base = job[c].base
           /\ k.blocks = job[c].blocks /\ k.thread = job[c].thread
           /\ Views' = [Views EXCEPT ![c] = View(k)]
    BY <1>2, <1>3 DEF TxBegin
  <2>2. View(k) = View(job[c])
    BY <1>0, <2>1, ViewCases
  <2>3. Views' = Views
    BY <1>0, <2>1, <2>2 DEF Views
  <2> QED
    BY <1>1, <2>3 DEF Store!vars, Views, Latests
<1>4. CASE job[c].s \in exists /\ Refused(c)
  <2>1. Views' = [Views EXCEPT ![c] = [st |-> "refused"]]
    <3>1. PICK k \in JobType : k.pc = "conflict" /\ Views' = [Views EXCEPT ![c] = View(k)]
      BY <1>2, <1>4 DEF TxBegin
    <3> QED
      BY <3>1, ViewCases
  <2>2. /\ Views[c].st = "asked" /\ Views[c].key = job[c].s /\ Views[c].base = job[c].base
        /\ job[c].base # Latests[job[c].s].rev
    BY <1>0, <1>4, ViewCases DEF Refused, Latests
  <2>3. Store!Refuse(c)
    BY <1>1, <1>4, <2>1, <2>2 DEF Store!Refuse, Views, Latests
  <2> QED
    BY <2>3 DEF Store!Next
<1>5. CASE job[c].s \notin exists
  <2>1. PICK k \in JobType : k.pc = "failed" /\ Views' = [Views EXCEPT ![c] = View(k)]
    BY <1>2, <1>5 DEF TxBegin
  <2>2. View(k) = [st |-> "idle"]
    BY <2>1, ViewCases DEF Unasked
  <2> QED
    BY <1>1, <2>1, <2>2, StoreFinishes
<1> QED
  BY <1>3, <1>4, <1>5

\* The second one: the store sees the snapshot accepted, in this instant and on top of
\* the revision compared with in the first.
LEMMA TxCommitRefines ==
    ASSUME IndInv, NEW c \in Calls, TxCommit(c)
    PROVE  [Store!Next]_Store!vars
<1> USE DEF SetJob
<1> DEFINE s == job[c].s
<1>0. /\ job \in [Calls -> JobType] /\ job[c] \in JobType /\ job[c].pc = "insert"
      /\ s \in Sessions /\ Views[c] = View(job[c]) /\ lastRev \in Nat /\ s \in exists
      /\ job[c].kind \in {"open", "rename", "retitle", "sync"}
      /\ job[c].kind # "retitle" => job[c].base = snap[s].rev
      /\ snap \in [Sessions -> SnapshotType]
  BY Given, ViewSteps
     DEF IndInv, TypeOK, TxCommit, SoundCall, OfSession, ServerSound, TransactionsIsolated
<1>1. UNCHANGED <<exists, deleted>>
  BY DEF TxCommit
<1>2. CASE job[c].kind = "retitle"
  <2> DEFINE k == [job[c] EXCEPT !.pc = "answered"]
  <2>1. k.pc = "answered" /\ k.kind = "retitle"
    BY <1>0, <1>2, JobGoesOn
  <2>2. job' = [job EXCEPT ![c] = k]
    BY <1>2 DEF TxCommit
  <2> HIDE DEF k
  <2>3. Views' = [Views EXCEPT ![c] = [st |-> "idle"]]
    <3>1. View(k) = [st |-> "idle"]
      BY <2>1, ViewCases
    <3>2. Views' = [Views EXCEPT ![c] = View(k)]
      BY <1>0, <2>2, ViewSteps
    <3> QED
      BY <3>1, <3>2
  <2>4. UNCHANGED <<Latests, lastRev>>
    BY <1>2 DEF TxCommit, Latests
  <2> QED
    BY <1>1, <2>3, <2>4, StoreFinishes
<1>3. CASE job[c].kind # "retitle"
  <2> DEFINE r == lastRev + 1
             k == [job[c] EXCEPT !.pc = "answered", !.rev = r]
             n == [rev |-> r, blocks |-> job[c].blocks, thread |-> job[c].thread, by |-> c]
             d == <<job[c].blocks, job[c].thread>>
  <2>1. /\ job' = [job EXCEPT ![c] = k] /\ snap' = [snap EXCEPT ![s] = n] /\ lastRev' = r
    BY <1>3 DEF TxCommit
  <2>2. r \in Nat
    BY <1>0
  <2>3. n.rev = r /\ <<n.blocks, n.thread>> = d
    OBVIOUS
  <2> HIDE DEF r
  <2>4. k.pc = "answered" /\ k.kind = job[c].kind /\ k.rev = r
    BY <1>0, <2>2 DEF JobType
  <2> HIDE DEF k, n
  <2>5. Views' = [Views EXCEPT ![c] = [st |-> "accepted", rev |-> r]]
    <3>1. View(k) = [st |-> "accepted", rev |-> r]
      BY <1>0, <1>3, <2>4, ViewCases
    <3>2. Views' = [Views EXCEPT ![c] = View(k)]
      BY <1>0, <2>1, ViewSteps
    <3> QED
      BY <3>1, <3>2
  <2>6. Latests' = [Latests EXCEPT ![s] = [rev |-> r, data |-> d]]
    BY <1>0, <2>1, <2>3 DEF Latests
  <2>7. Views[c] = [st |-> "asked", key |-> s, base |-> job[c].base, data |-> d]
    BY <1>0, <1>3, ViewCases
  <2>8. Latests[s].rev = job[c].base
    BY <1>0, <1>3 DEF Latests
  <2>9. Store!Accept(c)
    <3> HIDE DEF d
    <3>1. /\ Views[c].st = "asked" /\ Views[c].key = s /\ Views[c].data = d
          /\ Views[c].base = job[c].base
      BY <2>7
    <3>2. /\ Views' = [Views EXCEPT ![c] = [st |-> "accepted", rev |-> lastRev + 1]]
          /\ Latests' = [Latests EXCEPT ![Views[c].key] =
                            [rev |-> lastRev + 1, data |-> Views[c].data]]
          /\ lastRev' = lastRev + 1 /\ Views[c].key \in exists
          /\ Views[c].base = Latests[Views[c].key].rev
      BY <1>0, <2>1, <2>5, <2>6, <2>8, <3>1 DEF r
    <3> QED
      BY <1>1, <3>1, <3>2 DEF Store!Accept, Store!Write, Views, Latests
  <2> QED
    BY <2>9 DEF Store!Next
<1> QED
  BY <1>2, <1>3

\* A deletion takes the session and its snapshots away, in one instant.
LEMMA DeleteRowRefines ==
    ASSUME IndInv, NEW c \in Calls, DeleteRow(c)
    PROVE  [Store!Next]_Store!vars
<1> USE DEF SetJob
<1>0. /\ job \in [Calls -> JobType] /\ job[c] \in JobType /\ job[c].pc = "delete"
      /\ job[c].s \in Sessions /\ job[c].kind = "delete"
      /\ snap \in [Sessions -> SnapshotType]
  BY Given DEF IndInv, TypeOK, DeleteRow, SoundCall, OfSession
<1>a. PICK s \in Sessions : s = job[c].s
  BY <1>0
<1>1. ASSUME NEW p \in {"answered", "failed"},
             job' = [job EXCEPT ![c] = [job[c] EXCEPT !.pc = p]]
      PROVE  Views' = [Views EXCEPT ![c] = [st |-> "idle"]]
  <2> DEFINE k == [job[c] EXCEPT !.pc = p]
  <2>1. k.pc = p /\ k.kind = "delete"
    BY <1>0 DEF JobType
  <2>2. job' = [job EXCEPT ![c] = k]
    BY <1>1
  <2> HIDE DEF k
  <2>3. View(k) = [st |-> "idle"]
    BY <2>1, ViewCases DEF Unasked
  <2>4. Views' = [Views EXCEPT ![c] = View(k)]
    BY <1>0, <2>2, ViewSteps
  <2> QED
    BY <2>3, <2>4
<1>2. CASE s \in exists
  <2>1. /\ exists' = exists \ {s} /\ deleted' = deleted \union {s} /\ lastRev' = lastRev
        /\ snap' = [snap EXCEPT ![s] = NoSnapshot]
        /\ job' = [job EXCEPT ![c] = [job[c] EXCEPT !.pc = "answered"]]
    BY <1>a, <1>2 DEF DeleteRow
  <2>2. Views[c] = [st |-> "idle"]
    BY <1>0, ViewSteps, ViewCases DEF Unasked
  <2>3. Views' = Views
    BY <1>1, <2>1, <2>2 DEF Views
  <2>4. NoSnapshot.rev = 0 /\ <<NoSnapshot.blocks, NoSnapshot.thread>> = <<{}, NoThread>>
    BY DEF NoSnapshot
  <2>5. Latests' = [Latests EXCEPT ![s] = [rev |-> 0, data |-> <<{}, NoThread>>]]
    BY <1>0, <2>1, <2>4 DEF Latests
  <2>6. Store!Delete(s)
    BY <1>2, <2>1, <2>3, <2>5 DEF Store!Delete, Store!Nothing, Views, Latests
  <2> QED
    BY <2>6 DEF Store!Next
<1>3. CASE s \notin exists
  <2>1. Views' = [Views EXCEPT ![c] = [st |-> "idle"]]
    BY <1>a, <1>1, <1>3 DEF DeleteRow
  <2>2. UNCHANGED <<exists, deleted, Latests, lastRev>>
    BY <1>a, <1>3 DEF DeleteRow, Latests
  <2> QED
    BY <2>1, <2>2, StoreFinishes
<1> QED
  BY <1>2, <1>3

\* POST makes a session with its first snapshot under a new revision.
LEMMA PostRefines ==
    ASSUME IndInv, NEW c \in Calls, Post(c)
    PROVE  [Store!Next]_Store!vars
<1> USE DEF SetJob, local, bounds
<1>0. /\ job \in [Calls -> JobType] /\ job[c] \in JobType /\ job[c].pc = "post"
      /\ lastRev \in Nat /\ snap \in [Sessions -> SnapshotType]
      /\ job[c].thread \in Threads \union {NoThread}
  BY Given, JobFields DEF IndInv, TypeOK, Post
<1> DEFINE r == lastRev + 1
           n == [rev |-> r, blocks |-> {}, thread |-> job[c].thread, by |-> c]
<1>1. PICK s \in Sessions \ (exists \union deleted) :
         /\ exists' = exists \union {s} /\ snap' = [snap EXCEPT ![s] = n]
         /\ bound' = [bound EXCEPT ![s] = job[c].thread]
         /\ job' = [job EXCEPT ![c] = [job[c] EXCEPT !.pc = "created", !.s = s, !.rev = r]]
  BY DEF Post
<1>2. lastRev' = r /\ deleted' = deleted
  BY DEF Post
<1> DEFINE d == <<{}, job[c].thread>>
<1>3. r \in Nat /\ n.rev = r /\ <<n.blocks, n.thread>> = d
  BY <1>0
<1> DEFINE k == [job[c] EXCEPT !.pc = "created", !.s = s, !.rev = r]
<1> HIDE DEF r, n
<1>4. k.pc = "created" /\ k.rev = r
  BY <1>0, <1>3 DEF JobType
<1>5. job' = [job EXCEPT ![c] = k]
  BY <1>1
<1> HIDE DEF k
<1>6. View(k) = [st |-> "accepted", rev |-> r]
  BY <1>4, ViewCases
<1>7. Views' = [Views EXCEPT ![c] = [st |-> "accepted", rev |-> r]]
  <2>1. Views' = [Views EXCEPT ![c] = View(k)]
    BY <1>0, <1>5, ViewSteps
  <2> QED
    BY <1>6, <2>1
<1>8. Latests' = [Latests EXCEPT ![s] = [rev |-> r, data |-> d]]
  BY <1>0, <1>1, <1>3 DEF Latests
<1>9. d \in (SUBSET Edits) \X (Threads \union {NoThread})
  BY <1>0
<1>10. Views[c] = [st |-> "idle"]
  BY <1>0, ViewSteps, ViewCases DEF Unasked
<1> HIDE DEF d
<1>11. Store!Create(c)
  <2>0. PICK x \in (SUBSET Edits) \X (Threads \union {NoThread}) : x = d
    BY <1>9
  <2>1. Store!Write(s, x)
    BY <1>2, <1>8, <2>0 DEF Store!Write, Latests, r
  <2>2. Views' = [Views EXCEPT ![c] = [st |-> "accepted", rev |-> lastRev + 1]]
    BY <1>7 DEF r
  <2> QED
    BY <1>1, <1>2, <1>10, <2>1, <2>2 DEF Store!Create, Store!Idle, Views
<1> QED
  BY <1>11 DEF Store!Next

\* The initial states are initial states of the store.
LEMMA InitRefines == Init => Store!Init
<1> SUFFICES ASSUME Init PROVE Store!Init
  OBVIOUS
<1>1. \A c \in Calls : ClientView(c) = [st |-> "idle"]
  BY NoJobType, ViewSteps, ViewCases DEF Init, Views, Unasked
<1>2. NoSnapshot.rev = 0 /\ <<NoSnapshot.blocks, NoSnapshot.thread>> = <<{}, NoThread>>
  BY DEF NoSnapshot
<1>3. /\ Views = [c \in Calls |-> [st |-> "idle"]]
      /\ Latests = [s \in Sessions |-> [rev |-> 0, data |-> <<{}, NoThread>>]]
  BY <1>1, <1>2 DEF Init, Views, Latests
<1> QED
  BY <1>3 DEF Init, Store!Init, Store!Nothing, Store!Idle, Views, Latests

----------------------------------------------------------------------------
(* The order of the synchronisations of one device *)

Mine(d) == {c \in Calls : Device(c) = d}

\* A PATCH with a snapshot is under way, or its answer is; a call opens a session or
\* makes one, and waits for the one it shows.
Sending(j)  == j.pc \in {"patch", "insert"} /\ j.kind \in {"open", "rename", "sync"}
Told(j)     == j.pc = "answered" /\ j.kind \in {"open", "rename", "sync"}
Switching(j) == j.pc # "idle" /\ j.kind \in {"open", "create"}
Binding     == {"resume", "start"}
Awaiting    == {"read_row", "read_snapshot", "opened", "create", "post", "created"}

\* The queue only synchronises, and only a creation creates.
CallKinds ==
    \A c \in Calls :
        /\ c[2] = Sync => job[c].kind = "sync"
        /\ job[c].pc \in {"create", "post", "created"} => job[c].kind = "create"

\* Nothing was opened yet.
NothingOpened(d) ==
    ui[d].session = NoSession /\ \A c \in Mine(d) : ~Switching(job[c])

\* The calls of the device are about the session it shows: a PATCH has no newer base
\* than the renderer knows, an answer that is not applied yet brings a newer one.
CallsFollow(d) ==
    \A c \in Mine(d) :
        /\ job[c].pc \in Awaiting => ui[d].session = NoSession
        /\ job[c].pc \in Binding \/ Sending(job[c]) \/ Told(job[c]) =>
              job[c].s = ui[d].session
        /\ Sending(job[c]) => job[c].base <= ui[d].base
        /\ Told(job[c]) => job[c].rev > ui[d].base
        /\ Told(job[c]) /\ job[c].s \in exists => job[c].rev <= snap[job[c].s].rev

\* One call switches, and one PATCH has an answer that is not applied yet.
OneOfEach(d) ==
    \A c, x \in Mine(d) :
        \/ Switching(job[c]) /\ Switching(job[x])
        \/ Told(job[c]) /\ Told(job[x])
        => c = x

\* The latest snapshot, when the device's queue has written it, is one the renderer
\* knows or will know before the queue goes on.
LatestKnown(d) ==
    \A s \in Sessions : snap[s].by = <<d, Sync>> =>
        /\ s = ui[d].session /\ s \in exists
        /\ \/ Told(job[<<d, Sync>>]) /\ job[<<d, Sync>>].rev = snap[s].rev
           \/ /\ ui[d].base = snap[s].rev
              /\ Sending(job[<<d, Sync>>]) => job[<<d, Sync>>].base = ui[d].base

FirstStay(d) ==
    /\ ui[d].seq = 0 => NothingOpened(d)
    /\ ui[d].seq <= 1 => CallsFollow(d) /\ OneOfEach(d) /\ LatestKnown(d)

QueueInv == CallKinds /\ \A d \in Devices : FirstStay(d)

\* A step in which the server's tables change only in ways the device does not mind: no
\* snapshot of its queue appears, no revision gets smaller.
ServerCalm(d) ==
    \A s \in Sessions :
        /\ snap'[s].by = <<d, Sync>> => snap'[s] = snap[s] /\ (s \in exists => s \in exists')
        /\ s \in exists' => \/ s \in exists /\ snap[s].rev <= snap'[s].rev
                            \/ lastRev <= snap'[s].rev

\* A call goes on without an answer coming or being applied; a PATCH it sends has the base of
\* the renderer.
Mild(j, k, u) ==
    /\ Switching(k) => Switching(j)
    /\ k.pc \in Awaiting => j.pc \in Awaiting
    /\ k.pc \in Binding => j.pc \in Binding /\ k.s = j.s
    /\ Sending(k) => \/ Sending(j) /\ k.s = j.s /\ k.base = j.base
                     \/ k.s = u.session /\ k.base = u.base
                     \/ j.pc \in Binding /\ k.s = j.s /\ k.base = u.base
    /\ Told(j) \/ Told(k) => k = j

SameStay(d) ==
    ui'[d].session = ui[d].session /\ ui'[d].base = ui[d].base /\ ui'[d].seq = ui[d].seq

Calm(d) == ServerCalm(d) /\ SameStay(d) /\ \A c \in Mine(d) : Mild(job[c], job'[c], ui[d])

\* The numbers the argument compares.
LEMMA Numbers ==
    ASSUME IndInv
    PROVE  /\ \A d \in Devices : ui[d].base \in Nat /\ ui[d].seq \in Nat
           /\ \A d \in Devices : ui[d].base <= lastRev /\ <<d, Sync>> \in Mine(d)
           /\ \A c \in Calls : /\ job[c].base \in Nat /\ job[c].rev \in Nat
                               /\ job[c].rev <= lastRev
           /\ \A s \in Sessions : snap[s].rev \in Nat /\ snap[s].rev <= lastRev
           /\ lastRev \in Nat
<1>1. \A s \in Sessions : snap[s].rev \in Nat /\ snap[s].rev <= lastRev
  BY DEF IndInv, TypeOK, SnapshotType, ServerSound
<1>2. \A d \in Devices : ui[d].base \in Nat /\ ui[d].seq \in Nat /\ ui[d].base <= lastRev
  BY Given, UIFields DEF IndInv
<1>3. \A c \in Calls : job[c].base \in Nat /\ job[c].rev \in Nat /\ job[c].rev <= lastRev
  BY Given, JobFields DEF IndInv, SoundCall
<1>4. \A d \in Devices : <<d, Sync>> \in Mine(d)
  BY DEF Mine, Calls, Device
<1> QED
  BY <1>1, <1>2, <1>3, <1>4 DEF IndInv, TypeOK

\* A calm step keeps what holds of the device.
LEMMA CalmKept ==
    ASSUME IndInv, IndInv', NEW d \in Devices, FirstStay(d), Calm(d)
    PROVE  FirstStay(d)'
<1>0. /\ \A c \in Mine(d) : c \in Calls
      /\ <<d, Sync>> \in Mine(d) /\ Mine(d)' = Mine(d)
  BY Numbers DEF Mine
<1>1. SameStay(d) /\ ServerCalm(d) /\ \A c \in Mine(d) : Mild(job[c], job'[c], ui[d])
  BY DEF Calm
<1>2. ASSUME ui[d].seq = 0 PROVE NothingOpened(d)'
  BY <1>0, <1>1, <1>2 DEF FirstStay, NothingOpened, SameStay, Mild
<1>3. ASSUME ui[d].seq <= 1 PROVE CallsFollow(d)' /\ OneOfEach(d)' /\ LatestKnown(d)'
  <2>1. CallsFollow(d) /\ OneOfEach(d) /\ LatestKnown(d)
    BY <1>3 DEF FirstStay
  <2>2. ASSUME NEW c \in Mine(d)
        PROVE  /\ job'[c].pc \in Awaiting => ui'[d].session = NoSession
               /\ job'[c].pc \in Binding \/ Sending(job'[c]) \/ Told(job'[c]) =>
                     job'[c].s = ui'[d].session
               /\ Sending(job'[c]) => job'[c].base <= ui'[d].base
               /\ Told(job'[c]) => job'[c].rev > ui'[d].base
               /\ Told(job'[c]) /\ job'[c].s \in exists' => job'[c].rev <= snap'[job'[c].s].rev
    <3>1. Mild(job[c], job'[c], ui[d])
      BY <1>1
    <3>2. /\ job'[c].pc \in Awaiting => ui'[d].session = NoSession
          /\ job'[c].pc \in Binding \/ Sending(job'[c]) \/ Told(job'[c]) =>
                job'[c].s = ui'[d].session
      BY <1>1, <2>1, <3>1 DEF Mild, SameStay, CallsFollow
    <3>3. Sending(job'[c]) => job'[c].base <= ui'[d].base
      BY <1>1, <2>1, <3>1, Numbers DEF Mild, SameStay, CallsFollow
    <3>4. Told(job'[c]) => job'[c].rev > ui'[d].base
      BY <1>1, <2>1, <3>1 DEF Mild, SameStay, CallsFollow
    <3>5. ASSUME Told(job'[c]), job'[c].s \in exists'
          PROVE  job'[c].rev <= snap'[job'[c].s].rev
      <4>1. job'[c] = job[c] /\ Told(job[c])
        BY <3>1, <3>5 DEF Mild
      <4>2. PICK s \in Sessions : s = job[c].s
        BY <1>0, <3>5, <4>1, Given DEF IndInv, SoundCall, OfSession, Told
      <4>3. \/ s \in exists /\ snap[s].rev <= snap'[s].rev
            \/ lastRev <= snap'[s].rev
        BY <1>1, <3>5, <4>1, <4>2 DEF ServerCalm
      <4>4. /\ s \in exists => job[c].rev <= snap[s].rev
            /\ job[c].rev \in Nat /\ snap[s].rev \in Nat /\ lastRev \in Nat
            /\ job[c].rev <= lastRev
        BY <1>0, <2>1, <4>1, <4>2, Numbers DEF CallsFollow
      <4>5. snap'[s].rev \in Nat
        BY DEF IndInv, TypeOK, SnapshotType
      <4> QED
        BY <4>1, <4>2, <4>3, <4>4, <4>5
    <3> QED
      BY <3>2, <3>3, <3>4, <3>5
  <2>3. CallsFollow(d)'
    BY <1>0, <2>2 DEF CallsFollow
  <2>4. OneOfEach(d)'
    BY <1>0, <1>1, <2>1 DEF OneOfEach, Mild
  <2>5. ASSUME NEW s \in Sessions, snap'[s].by = <<d, Sync>>
        PROVE  /\ s = ui'[d].session /\ s \in exists'
               /\ \/ Told(job'[<<d, Sync>>]) /\ job'[<<d, Sync>>].rev = snap'[s].rev
                  \/ /\ ui'[d].base = snap'[s].rev
                     /\ Sending(job'[<<d, Sync>>]) => job'[<<d, Sync>>].base = ui'[d].base
    <3> DEFINE y == <<d, Sync>>
    <3>1. snap'[s] = snap[s] /\ (s \in exists => s \in exists')
      BY <1>1, <2>5 DEF ServerCalm
    <3>2. snap[s].by = y
      BY <2>5, <3>1
    <3>3. Mild(job[y], job'[y], ui[d])
      BY <1>0, <1>1
    <3> HIDE DEF y
    <3>4. /\ s = ui[d].session /\ s \in exists
          /\ \/ Told(job[y]) /\ job[y].rev = snap[s].rev
             \/ /\ ui[d].base = snap[s].rev
                /\ Sending(job[y]) => job[y].base = ui[d].base
      BY <2>1, <3>2 DEF LatestKnown, y
    <3>5. \/ Told(job'[y]) /\ job'[y].rev = snap'[s].rev
          \/ /\ ui'[d].base = snap'[s].rev
             /\ Sending(job'[y]) => job'[y].base = ui'[d].base
      BY <1>1, <3>1, <3>3, <3>4 DEF SameStay, Mild
    <3> QED
      BY <1>1, <3>1, <3>4, <3>5 DEF SameStay, y
  <2>6. LatestKnown(d)'
    BY <2>5 DEF LatestKnown
  <2> QED
    BY <2>3, <2>4, <2>6
<1> QED
  BY <1>1, <1>2, <1>3 DEF FirstStay, SameStay

\* A switch begins, or the session is left: with the first one nothing else is under way.
LEMMA SwitchKept ==
    ASSUME IndInv, IndInv', NEW d \in Devices, FirstStay(d), ServerCalm(d),
           ui'[d].seq = ui[d].seq + 1,
           ui[d].seq = 0 => ui'[d].session = NoSession,
           \A c \in Mine(d) : Told(job'[c]) => job'[c] = job[c],
           \A c \in Mine(d) : Sending(job'[c]) => job'[c] = job[c],
           \A c \in Mine(d) : job'[c].pc \in Binding => job'[c] = job[c],
           \A c, x \in Mine(d) : Switching(job'[c]) /\ Switching(job'[x]) =>
                                     c = x \/ Switching(job[c]) \/ Switching(job[x])
    PROVE  FirstStay(d)'
<1>0. /\ \A c \in Mine(d) : c \in Calls
      /\ <<d, Sync>> \in Mine(d) /\ Mine(d)' = Mine(d) /\ ui[d].seq \in Nat
  BY Numbers DEF Mine
<1>1. ui'[d].seq # 0
  BY <1>0
<1>2. ASSUME ui'[d].seq <= 1 PROVE CallsFollow(d)' /\ OneOfEach(d)' /\ LatestKnown(d)'
  <2>1. ui[d].seq = 0
    BY <1>0, <1>2
  <2>2. /\ NothingOpened(d) /\ CallsFollow(d) /\ LatestKnown(d) /\ ui'[d].session = NoSession
    BY <2>1 DEF FirstStay
  <2>3. ASSUME NEW c \in Mine(d)
        PROVE  ~Told(job[c]) /\ ~Sending(job[c]) /\ job[c].pc \notin Binding
    <3>1. job[c].pc \in Binding \/ Sending(job[c]) \/ Told(job[c]) => job[c].s = NoSession
      BY <2>2 DEF CallsFollow, NothingOpened
    <3>2. job[c].pc \in Binding \/ Sending(job[c]) \/ Told(job[c]) => job[c].s \in Sessions
      BY <1>0, Given DEF IndInv, SoundCall, OfSession, Opening, Told, Sending, Binding
    <3> QED
      BY <3>1, <3>2, SessionAssumption
  <2>4. ASSUME NEW c \in Mine(d)
        PROVE  ~Told(job'[c]) /\ ~Sending(job'[c]) /\ job'[c].pc \notin Binding
    BY <2>3
  <2>5. CallsFollow(d)'
    BY <1>0, <2>2, <2>4 DEF CallsFollow
  <2>6. OneOfEach(d)'
    BY <1>0, <2>2, <2>4 DEF OneOfEach, NothingOpened
  <2>7. LatestKnown(d)'
    <3>1. ASSUME NEW s \in Sessions, snap'[s].by = <<d, Sync>> PROVE FALSE
      <4>1. snap[s].by = <<d, Sync>>
        BY <3>1 DEF ServerCalm
      <4>2. s = NoSession
        BY <2>2, <4>1 DEF LatestKnown, NothingOpened
      <4> QED
        BY <4>2, SessionAssumption
    <3> QED
      BY <3>1 DEF LatestKnown
  <2> QED
    BY <2>5, <2>6, <2>7
<1> QED
  BY <1>1, <1>2 DEF FirstStay

\* The session that was opened or made is shown: until then the device had none, so no
\* other call of it is about one.
LEMMA OpenedKept ==
    ASSUME IndInv, IndInv', NEW d \in Devices, FirstStay(d), CallKinds, NEW c \in Mine(d),
           ServerCalm(d), ui'[d].seq = ui[d].seq, ui'[d].session = job[c].s,
           job[c].pc \in {"opened", "created"},
           Switching(job'[c]) => job'[c].pc \in Binding /\ job'[c].s = job[c].s,
           job'[c].pc \in Binding \/ job'[c].pc = "idle",
           \A x \in Mine(d) \ {c} : job'[x] = job[x]
    PROVE  FirstStay(d)'
<1>0. /\ \A x \in Mine(d) : x \in Calls
      /\ <<d, Sync>> \in Mine(d) /\ Mine(d)' = Mine(d) /\ ui[d].seq \in Nat
  BY Numbers DEF Mine
<1>1. Switching(job[c]) /\ job[c].s \in Sessions
  BY <1>0, Given DEF IndInv, SoundCall, OfSession, Opening, CallKinds, Switching
<1>2. ui[d].seq # 0
  BY <1>1 DEF FirstStay, NothingOpened
<1>3. ASSUME ui[d].seq <= 1 PROVE CallsFollow(d)' /\ OneOfEach(d)' /\ LatestKnown(d)'
  <2>1. /\ CallsFollow(d) /\ OneOfEach(d) /\ LatestKnown(d)
    BY <1>3 DEF FirstStay
  <2>2. ui[d].session = NoSession
    BY <2>1 DEF CallsFollow, Awaiting
  <2>3. ASSUME NEW x \in Mine(d)
        PROVE  ~Told(job[x]) /\ ~Sending(job[x]) /\ job[x].pc \notin Binding
    <3>1. job[x].pc \in Binding \/ Sending(job[x]) \/ Told(job[x]) => job[x].s = NoSession
      BY <2>1, <2>2 DEF CallsFollow
    <3>2. job[x].pc \in Binding \/ Sending(job[x]) \/ Told(job[x]) => job[x].s \in Sessions
      BY <1>0, Given DEF IndInv, SoundCall, OfSession, Opening, Told, Sending, Binding
    <3> QED
      BY <3>1, <3>2, SessionAssumption
  <2>4. ASSUME NEW x \in Mine(d), x # c PROVE job'[x].pc \notin Awaiting /\ ~Switching(job'[x])
    <3>1. ~Switching(job[x])
      BY <1>1, <2>1, <2>4 DEF OneOfEach
    <3>2. job[x].pc \in Awaiting => Switching(job[x])
      BY <1>0, Given DEF IndInv, SoundCall, Opening, CallKinds, Switching, Awaiting
    <3> QED
      BY <2>4, <3>1, <3>2
  <2>5. ~Told(job'[c]) /\ ~Sending(job'[c]) /\ job'[c].pc \notin Awaiting
    BY DEF Told, Sending, Binding, Awaiting
  <2>6. job'[c].pc \in Binding => job'[c].s = job[c].s
    <3>1. job'[c].pc \in Binding => Switching(job'[c])
      BY <1>0, Given DEF IndInv, ClientsSound, SoundCall, Opening, Switching, Binding
    <3> QED
      BY <3>1
  <2>7. CallsFollow(d)'
    BY <1>0, <2>3, <2>4, <2>5, <2>6 DEF CallsFollow
  <2>8. OneOfEach(d)'
    BY <1>0, <2>3, <2>4, <2>5 DEF OneOfEach
  <2>9. LatestKnown(d)'
    <3>1. ASSUME NEW s \in Sessions, snap'[s].by = <<d, Sync>> PROVE FALSE
      <4>1. snap[s].by = <<d, Sync>>
        BY <3>1 DEF ServerCalm
      <4>2. s = NoSession
        BY <2>1, <2>2, <4>1 DEF LatestKnown
      <4> QED
        BY <4>2, SessionAssumption
    <3> QED
      BY <3>1 DEF LatestKnown
  <2> QED
    BY <2>7, <2>8, <2>9
<1> QED
  BY <1>2, <1>3 DEF FirstStay

\* An answer is applied: it is the only one, and newer than what the renderer knew.
LEMMA AnsweredKept ==
    ASSUME IndInv, IndInv', NEW d \in Devices, FirstStay(d), NEW c \in Mine(d),
           UNCHANGED <<snap, exists>>, ui'[d].seq = ui[d].seq,
           ui'[d].session = ui[d].session, ui'[d].base = job[c].rev,
           Told(job[c]), job'[c].pc = "idle",
           \A x \in Mine(d) \ {c} : job'[x] = job[x]
    PROVE  FirstStay(d)'
<1>0. /\ \A x \in Mine(d) : x \in Calls
      /\ <<d, Sync>> \in Mine(d) /\ Mine(d)' = Mine(d) /\ ui[d].seq \in Nat
  BY Numbers DEF Mine
<1>1. ~Told(job'[c]) /\ ~Sending(job'[c]) /\ ~Switching(job'[c])
      /\ job'[c].pc \notin Awaiting /\ job'[c].pc \notin Binding
  BY DEF Told, Sending, Switching, Awaiting, Binding
<1>2. ASSUME ui[d].seq = 0 PROVE NothingOpened(d)'
  BY <1>0, <1>1, <1>2 DEF FirstStay, NothingOpened
<1>3. ASSUME ui[d].seq <= 1 PROVE CallsFollow(d)' /\ OneOfEach(d)' /\ LatestKnown(d)'
  <2>1. /\ CallsFollow(d) /\ OneOfEach(d) /\ LatestKnown(d)
    BY <1>3 DEF FirstStay
  <2>2. /\ job[c].rev > ui[d].base /\ job[c].rev \in Nat /\ ui[d].base \in Nat
        /\ job[c].s = ui[d].session
        /\ job[c].s \in exists => job[c].rev <= snap[job[c].s].rev
    BY <1>0, <2>1, Numbers DEF CallsFollow
  <2>3. ASSUME NEW x \in Mine(d), x # c PROVE ~Told(job[x])
    BY <2>1, <2>3 DEF OneOfEach
  <2>4. ASSUME NEW x \in Mine(d)
        PROVE  /\ ~Told(job'[x])
               /\ job'[x].pc \in Awaiting => ui'[d].session = NoSession
               /\ job'[x].pc \in Binding \/ Sending(job'[x]) => job'[x].s = ui'[d].session
               /\ Sending(job'[x]) => job'[x].base <= ui'[d].base
    <3>1. CASE x = c
      BY <1>1, <3>1
    <3>2. CASE x # c
      <4>1. job'[x] = job[x] /\ ~Told(job[x]) /\ job[x].base \in Nat
        BY <1>0, <2>3, <3>2, Numbers
      <4>2. /\ job[x].pc \in Awaiting => ui[d].session = NoSession
            /\ job[x].pc \in Binding \/ Sending(job[x]) => job[x].s = ui[d].session
            /\ Sending(job[x]) => job[x].base <= ui[d].base
        BY <2>1 DEF CallsFollow
      <4> QED
        BY <2>2, <4>1, <4>2
    <3> QED
      BY <3>1, <3>2
  <2>5. CallsFollow(d)'
    BY <1>0, <2>4 DEF CallsFollow
  <2>6. OneOfEach(d)'
    BY <1>0, <1>1, <2>1, <2>4 DEF OneOfEach
  <2>7. ASSUME NEW s \in Sessions, snap[s].by = <<d, Sync>>
        PROVE  /\ s = ui[d].session /\ s \in exists /\ c = <<d, Sync>>
               /\ job[c].rev = snap[s].rev
    <3>1. /\ s = ui[d].session /\ s \in exists
          /\ \/ Told(job[<<d, Sync>>]) /\ job[<<d, Sync>>].rev = snap[s].rev
             \/ ui[d].base = snap[s].rev
      BY <2>1, <2>7 DEF LatestKnown
    <3>2. ui[d].base # snap[s].rev
      BY <2>2, <3>1, Numbers
    <3> QED
      BY <1>0, <2>3, <3>1, <3>2
  <2>8. LatestKnown(d)'
    BY <1>1, <2>7 DEF LatestKnown
  <2> QED
    BY <2>5, <2>6, <2>8
<1> QED
  BY <1>2, <1>3 DEF FirstStay

\* A snapshot of the device is stored: its base was the latest revision, so no answer of
\* the device was under way.
LEMMA StoredKept ==
    ASSUME IndInv, IndInv', NEW d \in Devices, FirstStay(d), NEW c \in Mine(d),
           UNCHANGED <<exists, ui>>, job[c].pc = "insert", Sending(job[c]),
           job'[c].pc = "answered", job'[c].kind = job[c].kind, job'[c].s = job[c].s,
           job'[c].rev = lastRev + 1,
           snap'[job[c].s].rev = lastRev + 1, snap'[job[c].s].by = c,
           \A s \in Sessions \ {job[c].s} : snap'[s] = snap[s],
           \A x \in Mine(d) \ {c} : job'[x] = job[x]
    PROVE  FirstStay(d)'
<1>0. /\ \A x \in Mine(d) : x \in Calls
      /\ <<d, Sync>> \in Mine(d) /\ Mine(d)' = Mine(d) /\ ui[d].seq \in Nat
  BY Numbers DEF Mine
<1>a. PICK s \in Sessions : s = job[c].s
  BY <1>0, Given DEF IndInv, SoundCall, OfSession
<1>1. /\ Told(job'[c]) /\ ~Sending(job'[c]) /\ Switching(job'[c]) = Switching(job[c])
      /\ job'[c].pc \notin Awaiting /\ job'[c].pc \notin Binding
  BY DEF Told, Sending, Switching, Awaiting, Binding
<1>2. ASSUME ui[d].seq = 0 PROVE NothingOpened(d)'
  BY <1>0, <1>1, <1>2 DEF FirstStay, NothingOpened
<1>3. ASSUME ui[d].seq <= 1 PROVE CallsFollow(d)' /\ OneOfEach(d)' /\ LatestKnown(d)'
  <2>1. /\ CallsFollow(d) /\ OneOfEach(d) /\ LatestKnown(d)
    BY <1>3 DEF FirstStay
  <2>2. /\ s = ui[d].session /\ s \in exists
        /\ job[c].base <= ui[d].base /\ job[c].base = snap[s].rev
        /\ job[c].base \in Nat /\ ui[d].base \in Nat /\ ui[d].base <= lastRev /\ lastRev \in Nat
    BY <1>0, <1>a, <2>1, Numbers
       DEF CallsFollow, IndInv, ServerSound, TransactionsIsolated, Sending
  <2>3. ASSUME NEW x \in Mine(d) PROVE ~Told(job[x])
    <3>1. SUFFICES ASSUME Told(job[x]) PROVE FALSE
      OBVIOUS
    <3>2. job[x].rev > ui[d].base /\ job[x].rev <= snap[s].rev /\ job[x].rev \in Nat
      BY <1>0, <2>1, <2>2, <3>1, Numbers DEF CallsFollow
    <3> QED
      BY <2>2, <3>2
  <2>4. ASSUME NEW x \in Mine(d)
        PROVE  /\ job'[x].pc \in Awaiting => ui[d].session = NoSession
               /\ job'[x].pc \in Binding \/ Sending(job'[x]) \/ Told(job'[x]) =>
                     job'[x].s = ui[d].session
               /\ Sending(job'[x]) => job'[x].base <= ui[d].base
               /\ Told(job'[x]) => x = c
    <3>1. CASE x = c
      BY <1>a, <1>1, <2>2, <3>1
    <3>2. CASE x # c
      BY <2>1, <2>3, <3>2 DEF CallsFollow
    <3> QED
      BY <3>1, <3>2
  <2>5. job'[c].rev > ui[d].base /\ job'[c].rev <= snap'[job'[c].s].rev
    BY <2>2
  <2>6. CallsFollow(d)'
    BY <1>0, <2>4, <2>5 DEF CallsFollow
  <2>7. OneOfEach(d)'
    <3>1. ASSUME NEW x \in Mine(d) PROVE Switching(job'[x]) => Switching(job[x])
      BY <1>1
    <3> QED
      BY <1>0, <2>1, <2>4, <3>1 DEF OneOfEach
  <2>8. ASSUME NEW t \in Sessions, snap'[t].by = <<d, Sync>>
        PROVE  t = s /\ c = <<d, Sync>>
    <3>1. CASE t = s
      BY <1>a, <2>8, <3>1
    <3>2. CASE t # s
      <4>1. snap[t].by = <<d, Sync>>
        BY <1>a, <2>8, <3>2
      <4> QED
        BY <2>1, <2>2, <3>2, <4>1 DEF LatestKnown
    <3> QED
      BY <3>1, <3>2
  <2>9. LatestKnown(d)'
    BY <1>a, <1>1, <2>2, <2>8 DEF LatestKnown
  <2> QED
    BY <2>6, <2>7, <2>9
<1> QED
  BY <1>2, <1>3 DEF FirstStay
----------------------------------------------------------------------------
(* The steps, as the queue sees them *)

\* A renderer whose session, base revision and switches stay.
Alike(v, u) == v.session = u.session /\ v.base = u.base /\ v.seq = u.seq

\* What a call becomes is of the kind its slot and its await allow.
OfKind(c, k) ==
    /\ c[2] = Sync => k.kind = "sync"
    /\ k.pc \in {"create", "post", "created"} => k.kind = "create"

Quiet == UNCHANGED <<snap, exists>>

\* A call goes on, and nothing else changes but what its renderer shows.
GoesOn(c) ==
    /\ \E k : /\ job' = [job EXCEPT ![c] = k] /\ OfKind(c, k)
             /\ Mild(job[c], k, ui[Device(c)])
    /\ \/ UNCHANGED ui
       \/ \E v : ui' = [ui EXCEPT ![Device(c)] = v] /\ Alike(v, ui[Device(c)])

\* The tables of the server do not change.
LEMMA QuietIsCalm == ASSUME IndInv, Quiet, NEW d \in Devices PROVE ServerCalm(d)
BY Numbers DEF Quiet, ServerCalm

\* What an assignment to one renderer or one call leaves.
LEMMA Sets ==
    ASSUME IndInv
    PROVE  /\ \A d \in Devices : \A v : ui' = [ui EXCEPT ![d] = v] =>
                 ui'[d] = v /\ \A x \in Devices \ {d} : ui'[x] = ui[x]
           /\ \A c \in Calls : \A k : job' = [job EXCEPT ![c] = k] =>
                 job'[c] = k /\ \A x \in Calls \ {c} : job'[x] = job[x]
BY DEF IndInv, TypeOK

\* Nothing happens to a device.
LEMMA Elsewhere ==
    ASSUME IndInv, IndInv', NEW d \in Devices, FirstStay(d), ServerCalm(d),
           ui'[d] = ui[d], \A c \in Mine(d) : job'[c] = job[c]
    PROVE  FirstStay(d)'
<1>1. \A c \in Mine(d) : Mild(job[c], job'[c], ui[d])
  BY DEF Mild
<1>2. Calm(d)
  BY <1>1 DEF Calm, SameStay
<1> QED
  BY <1>2, CalmKept

\* A step of one call, by what it does to its device.
LEMMA CallStep ==
    ASSUME IndInv, IndInv', QueueInv, NEW c \in Calls, NEW k, job' = [job EXCEPT ![c] = k],
           OfKind(c, k), \A d \in Devices \ {Device(c)} : ui'[d] = ui[d] /\ ServerCalm(d),
           FirstStay(Device(c))'
    PROVE  QueueInv'
<1>1. CallKinds'
  BY Sets DEF QueueInv, CallKinds, OfKind
<1>2. ASSUME NEW d \in Devices PROVE FirstStay(d)'
  <2>1. CASE d = Device(c)
    BY <2>1
  <2>2. CASE d # Device(c)
    <3>1. \A x \in Mine(d) : job'[x] = job[x]
      BY <2>2, Sets DEF Mine
    <3> QED
      BY <2>2, <3>1, Elsewhere DEF QueueInv
  <2> QED
    BY <2>1, <2>2
<1> QED
  BY <1>1, <1>2 DEF QueueInv

\* A step in which a call of one device goes on.
LEMMA GoesOnKept ==
    ASSUME IndInv, IndInv', QueueInv, NEW c \in Calls, GoesOn(c),
           \A d \in Devices : ServerCalm(d)
    PROVE  QueueInv'
<1> DEFINE d == Device(c)
<1>0. d \in Devices
  BY Given DEF IndInv
<1>1. PICK k : /\ job' = [job EXCEPT ![c] = k] /\ OfKind(c, k) /\ Mild(job[c], k, ui[d])
  BY DEF GoesOn
<1>2. SameStay(d) /\ \A x \in Devices \ {d} : ui'[x] = ui[x]
  BY <1>0, Sets DEF GoesOn, Alike, SameStay
<1>3. ASSUME NEW x \in Mine(d) PROVE Mild(job[x], job'[x], ui[d])
  <2>1. CASE x = c
    BY <1>1, <2>1, Sets
  <2>2. CASE x # c
    <3>1. job'[x] = job[x]
      BY <1>1, <2>2, Sets DEF Mine
    <3> QED
      BY <3>1 DEF Mild
  <2> QED
    BY <2>1, <2>2
<1>4. Calm(d)
  BY <1>0, <1>2, <1>3 DEF Calm
<1>5. FirstStay(d)'
  BY <1>0, <1>4, CalmKept DEF QueueInv
<1> QED
  BY <1>1, <1>2, <1>5, CallStep

\* The renderer changes what it shows, or its queue.
LEMMA ShowsKept ==
    ASSUME IndInv, IndInv', QueueInv, NEW d \in Devices, NEW v, Quiet, UNCHANGED job,
           ui' = [ui EXCEPT ![d] = v], Alike(v, ui[d])
    PROVE  QueueInv'
<1>1. CallKinds'
  BY DEF QueueInv, CallKinds
<1>2. ASSUME NEW x \in Devices PROVE FirstStay(x)'
  <2>1. Calm(x)
    <3>1. SameStay(x)
      BY Sets DEF SameStay, Alike
    <3>2. \A c \in Mine(x) : Mild(job[c], job'[c], ui[x])
      BY DEF Mild
    <3> QED
      BY <3>1, <3>2, QuietIsCalm DEF Calm
  <2> QED
    BY <2>1, CalmKept DEF QueueInv
<1> QED
  BY <1>1, <1>2 DEF QueueInv

\* The fields of the renderer that its updates leave.
LEMMA Unmoved ==
    ASSUME NEW u \in UIType
    PROVE  /\ \A b : Alike([u EXCEPT !.warned = b], u)
           /\ \A t : Alike([u EXCEPT !.thread = t], u)
           /\ \A b : Alike([u EXCEPT !.blocks = b], u)
           /\ \A l : Alike([u EXCEPT !.list = l], u)
           /\ Alike([u EXCEPT !.timer = FALSE], u)
           /\ \A q : Alike([u EXCEPT !.queue = q], u)
           /\ \A k, q : Alike([u EXCEPT !.wantKey = k, !.queue = q], u)
           /\ Alike(Render(u), u) /\ \A d : Alike(Rerender(d, u), u)
<1>1. ASSUME NEW b PROVE Alike([u EXCEPT !.timer = b], u)
  BY DEF UIType, Alike
<1>2. Alike(Render(u), u)
  BY <1>1 DEF Render
<1>3. \A d : Alike(Rerender(d, u), u)
  BY <1>2 DEF Rerender, Alike
<1> QED
  BY <1>1, <1>2, <1>3 DEF UIType, Alike

\* What the fields of a call are when it goes on to another await.
LEMMA Moved ==
    ASSUME NEW j \in JobType,
           NEW p \in {"read_snapshot", "opened", "post", "created", "resume", "start", "patch",
                      "insert", "answered", "conflict", "failed"}
    PROVE  /\ LET k == [j EXCEPT !.pc = p]
              IN  k.pc = p /\ k.kind = j.kind /\ k.s = j.s /\ k.base = j.base
           /\ \A t : LET k == [j EXCEPT !.pc = p, !.thread = t]
                     IN  k.pc = p /\ k.kind = j.kind /\ k.s = j.s
           /\ \A r, b, t : LET k == [j EXCEPT !.pc = p, !.rev = r, !.blocks = b, !.thread = t]
                           IN  k.pc = p /\ k.kind = j.kind /\ k.s = j.s
           /\ \A b, t, w : LET k == [j EXCEPT !.pc = p, !.base = b, !.thread = t, !.row = w]
                           IN  k.pc = p /\ k.kind = j.kind /\ k.s = j.s /\ k.base = b
           /\ \A s, r : LET k == [j EXCEPT !.pc = p, !.s = s, !.rev = r]
                        IN  k.pc = p /\ k.kind = j.kind
           /\ \A r : LET k == [j EXCEPT !.pc = p, !.rev = r]
                     IN  k.pc = p /\ k.kind = j.kind /\ k.s = j.s /\ k.rev = r
BY DEF JobType

\* A call that only waits for something else afterwards.
LEMMA MildMoves ==
    ASSUME NEW c \in Calls, CallKinds, NEW k, NEW u,
           k.kind = job[c].kind, ~Told(job[c]),
           \/ k.pc \in {"conflict", "failed"} /\ job[c].pc # "idle"
           \/ k.pc = "insert" /\ job[c].pc = "patch" /\ k.s = job[c].s /\ k.base = job[c].base
           \/ k.pc = "answered" /\ job[c].kind \in {"retitle", "delete"}
           \/ /\ k.pc \in {"read_snapshot", "opened"}
              /\ job[c].pc \in {"read_row", "read_snapshot"}
           \/ /\ k.pc \in {"post", "created"} /\ job[c].pc \in {"create", "post"}
           \/ k.pc \in Binding /\ job[c].pc \in Binding /\ k.s = job[c].s
           \/ k.pc = "patch" /\ job[c].pc \in Binding /\ k.s = job[c].s /\ k.base = u.base
    PROVE  OfKind(c, k) /\ Mild(job[c], k, u)
<1>1. OfKind(c, k)
  BY DEF CallKinds, OfKind, Binding
<1>2. Mild(job[c], k, u)
  BY DEF Mild, Switching, Awaiting, Binding, Sending, Told
<1> QED
  BY <1>1, <1>2

\* A call that ends without having brought a revision.
LEMMA EndsMildly ==
    ASSUME NEW c \in Calls, NEW u, ~Told(job[c])
    PROVE  OfKind(c, NoJob) /\ Mild(job[c], NoJob, u)
BY NoJobType DEF OfKind, Mild, Switching, Awaiting, Binding, Sending, Told

\* The first statement of a PATCH.
LEMMA TxBeginKeeps ==
    ASSUME IndInv, IndInv', QueueInv, NEW c \in Calls, TxBegin(c)
    PROVE  QueueInv'
<1>0. job[c] \in JobType /\ CallKinds /\ job[c].pc = "patch" /\ ~Told(job[c])
  BY Given DEF IndInv, QueueInv, TxBegin, Told
<1>1. Quiet /\ UNCHANGED ui
  BY DEF TxBegin, Quiet
<1>2. PICK p \in {"insert", "conflict", "failed"} :
         job' = [job EXCEPT ![c] = [job[c] EXCEPT !.pc = p]]
  BY DEF TxBegin, SetJob
<1> DEFINE k == [job[c] EXCEPT !.pc = p]
<1>3. k.pc = p /\ k.kind = job[c].kind /\ k.s = job[c].s /\ k.base = job[c].base
  BY <1>0, Moved
<1>4. job' = [job EXCEPT ![c] = k]
  BY <1>2
<1> HIDE DEF k
<1>5. OfKind(c, k) /\ Mild(job[c], k, ui[Device(c)])
  BY <1>0, <1>3, MildMoves
<1> QED
  BY <1>1, <1>4, <1>5, GoesOnKept, QuietIsCalm DEF GoesOn

\* The second one.
LEMMA TxCommitKeeps ==
    ASSUME IndInv, IndInv', QueueInv, NEW c \in Calls, TxCommit(c)
    PROVE  QueueInv'
<1>0. /\ job[c] \in JobType /\ CallKinds /\ job[c].pc = "insert" /\ ~Told(job[c])
      /\ job[c].kind \in {"open", "rename", "retitle", "sync"} /\ job[c].s \in Sessions
      /\ snap \in [Sessions -> SnapshotType] /\ Device(c) \in Devices /\ c \in Mine(Device(c))
  BY Given DEF IndInv, QueueInv, TxCommit, Told, SoundCall, OfSession, TypeOK, Mine
<1>1. UNCHANGED <<exists, ui>>
  BY DEF TxCommit
<1>2. CASE job[c].kind = "retitle"
  <2> DEFINE k == [job[c] EXCEPT !.pc = "answered"]
  <2>1. k.pc = "answered" /\ k.kind = job[c].kind
    BY <1>0, Moved
  <2>2. job' = [job EXCEPT ![c] = k] /\ Quiet
    BY <1>2 DEF TxCommit, SetJob, Quiet
  <2> HIDE DEF k
  <2>3. OfKind(c, k) /\ Mild(job[c], k, ui[Device(c)])
    BY <1>0, <1>2, <2>1, MildMoves
  <2> QED
    BY <1>1, <2>2, <2>3, GoesOnKept, QuietIsCalm DEF GoesOn
<1>3. CASE job[c].kind # "retitle"
  <2> DEFINE r == lastRev + 1
             k == [job[c] EXCEPT !.pc = "answered", !.rev = r]
             n == [rev |-> r, blocks |-> job[c].blocks, thread |-> job[c].thread, by |-> c]
             s == job[c].s
  <2>1. job' = [job EXCEPT ![c] = k] /\ snap' = [snap EXCEPT ![s] = n]
    BY <1>3 DEF TxCommit, SetJob
  <2>2. n.rev = r /\ n.by = c
    OBVIOUS
  <2>3. k.pc = "answered" /\ k.kind = job[c].kind /\ k.s = job[c].s /\ k.rev = r
    BY <1>0, Moved
  <2> HIDE DEF k, n
  <2>4. snap'[s] = n /\ \A x \in Sessions \ {s} : snap'[x] = snap[x]
    BY <1>0, <2>1
  <2>5. OfKind(c, k)
    BY <1>0, <2>3 DEF OfKind, CallKinds
  <2>6. ASSUME NEW d \in Devices \ {Device(c)} PROVE ServerCalm(d)
    <3>1. c # <<d, Sync>>
      BY DEF Device
    <3>2. ASSUME NEW x \in Sessions
          PROVE  /\ snap'[x].by = <<d, Sync>> => snap'[x] = snap[x]
                 /\ snap[x].rev <= snap'[x].rev
      <4>1. snap[x].rev \in Nat /\ snap[x].rev <= lastRev /\ lastRev \in Nat
        BY Numbers
      <4>2. CASE x = s
        BY <2>2, <2>4, <3>1, <4>1, <4>2
      <4>3. CASE x # s
        BY <2>4, <4>1, <4>3
      <4> QED
        BY <4>2, <4>3
    <3> QED
      BY <1>1, <3>2 DEF ServerCalm
  <2>7. Sending(job[c])
    BY <1>0, <1>3 DEF Sending
  <2>8. FirstStay(Device(c))'
    <3>1. job'[c] = k /\ \A x \in Mine(Device(c)) \ {c} : job'[x] = job[x]
      BY <2>1, Sets DEF Mine
    <3>2. FirstStay(Device(c))
      BY <1>0 DEF QueueInv
    <3> QED
      BY <1>0, <1>1, <2>2, <2>3, <2>4, <2>7, <3>1, <3>2, StoredKept
  <2> QED
    BY <1>1, <2>1, <2>5, <2>6, <2>8, CallStep
<1> QED
  BY <1>2, <1>3

\* A deletion takes snapshots away, the queue's own too.
LEMMA DeleteRowKeeps ==
    ASSUME IndInv, IndInv', QueueInv, NEW c \in Calls, DeleteRow(c)
    PROVE  QueueInv'
<1>0. /\ job[c] \in JobType /\ CallKinds /\ job[c].pc = "delete" /\ ~Told(job[c])
      /\ job[c].kind = "delete" /\ job[c].s \in Sessions /\ snap \in [Sessions -> SnapshotType]
  BY Given DEF IndInv, QueueInv, DeleteRow, Told, SoundCall, OfSession, TypeOK
<1>1. UNCHANGED ui
  BY DEF DeleteRow
<1>2. PICK p \in {"answered", "failed"} : job' = [job EXCEPT ![c] = [job[c] EXCEPT !.pc = p]]
  BY DEF DeleteRow, SetJob
<1> DEFINE k == [job[c] EXCEPT !.pc = p]
<1>3. k.pc = p /\ k.kind = job[c].kind
  BY <1>0, Moved
<1>4. job' = [job EXCEPT ![c] = k]
  BY <1>2
<1> HIDE DEF k
<1>5. OfKind(c, k) /\ Mild(job[c], k, ui[Device(c)])
  BY <1>0, <1>3, MildMoves
<1>6. ASSUME NEW d \in Devices PROVE ServerCalm(d)
  <2>1. CASE job[c].s \notin exists
    BY <2>1, QuietIsCalm DEF DeleteRow, Quiet
  <2>2. CASE job[c].s \in exists
    <3>1. /\ exists' = exists \ {job[c].s} /\ snap' = [snap EXCEPT ![job[c].s] = NoSnapshot]
      BY <2>2 DEF DeleteRow
    <3>2. NoSnapshot.by # <<d, Sync>>
      BY SessionAssumption DEF NoSnapshot, Calls
    <3>3. /\ snap'[job[c].s] = NoSnapshot
          /\ \A s \in Sessions \ {job[c].s} : snap'[s] = snap[s] /\ snap[s].rev <= snap'[s].rev
      BY <1>0, <3>1, Numbers
    <3> QED
      BY <3>1, <3>2, <3>3 DEF ServerCalm
  <2> QED
    BY <2>1, <2>2
<1> QED
  BY <1>1, <1>4, <1>5, <1>6, GoesOnKept DEF GoesOn

\* A new session has a new revision, and is not of the queue.
LEMMA PostKeeps ==
    ASSUME IndInv, IndInv', QueueInv, NEW c \in Calls, Post(c)
    PROVE  QueueInv'
<1>0. /\ job[c] \in JobType /\ CallKinds /\ job[c].pc = "post" /\ ~Told(job[c])
      /\ snap \in [Sessions -> SnapshotType]
  BY Given DEF IndInv, QueueInv, Post, Told, TypeOK
<1> DEFINE r == lastRev + 1
           n == [rev |-> r, blocks |-> {}, thread |-> job[c].thread, by |-> c]
<1>1. PICK s \in Sessions \ (exists \union deleted) :
         /\ exists' = exists \union {s} /\ snap' = [snap EXCEPT ![s] = n]
         /\ job' = [job EXCEPT ![c] = [job[c] EXCEPT !.pc = "created", !.s = s, !.rev = r]]
  BY DEF Post, SetJob
<1>2. UNCHANGED ui
  BY DEF Post
<1> DEFINE k == [job[c] EXCEPT !.pc = "created", !.s = s, !.rev = r]
<1>3. k.pc = "created" /\ k.kind = job[c].kind
  BY <1>0, Moved
<1>4. job' = [job EXCEPT ![c] = k]
  BY <1>1
<1>a. n.rev = lastRev + 1 /\ n.by = c
  OBVIOUS
<1> HIDE DEF k, n
<1>5. OfKind(c, k) /\ Mild(job[c], k, ui[Device(c)])
  BY <1>0, <1>3, MildMoves
<1>6. ASSUME NEW d \in Devices PROVE ServerCalm(d)
  <2>1. c # <<d, Sync>>
    BY <1>0 DEF CallKinds
  <2>2. /\ snap'[s] = n
        /\ \A x \in Sessions \ {s} : snap'[x] = snap[x] /\ snap[x].rev <= snap'[x].rev
    BY <1>0, <1>1, Numbers
  <2>3. lastRev <= n.rev
    BY <1>a, Numbers
  <2> QED
    BY <1>1, <1>a, <2>1, <2>2, <2>3 DEF ServerCalm
<1> QED
  BY <1>2, <1>4, <1>5, <1>6, GoesOnKept DEF GoesOn
\* What GET reads, and failures.
LEMMA ReadsKeep ==
    ASSUME IndInv, IndInv', QueueInv, NEW c \in Calls, ReadRow(c) \/ ReadSnapshot(c)
    PROVE  QueueInv'
<1>0. /\ job[c] \in JobType /\ CallKinds /\ job[c].pc \in {"read_row", "read_snapshot"}
      /\ ~Told(job[c])
  BY Given DEF IndInv, QueueInv, ReadRow, ReadSnapshot, Told
<1>1. Quiet /\ UNCHANGED ui
  BY DEF ReadRow, ReadSnapshot, Quiet, server
<1>2. PICK k : /\ job' = [job EXCEPT ![c] = k] /\ k.kind = job[c].kind
               /\ k.pc \in {"read_snapshot", "opened", "failed"}
  <2>1. CASE ReadRow(c)
    <3>1. CASE job[c].s \in exists
      <4> DEFINE k == [job[c] EXCEPT !.pc = "read_snapshot", !.thread = bound[job[c].s]]
      <4>1. k.pc = "read_snapshot" /\ k.kind = job[c].kind
        BY <1>0, Moved
      <4>2. job' = [job EXCEPT ![c] = k]
        BY <2>1, <3>1 DEF ReadRow, SetJob
      <4> QED
        BY <4>1, <4>2
    <3>2. CASE job[c].s \notin exists
      <4> DEFINE k == [job[c] EXCEPT !.pc = "failed"]
      <4>1. k.pc = "failed" /\ k.kind = job[c].kind
        BY <1>0, Moved
      <4>2. job' = [job EXCEPT ![c] = k]
        BY <2>1, <3>2 DEF ReadRow, SetJob
      <4> QED
        BY <4>1, <4>2
    <3> QED
      BY <3>1, <3>2
  <2>2. CASE ReadSnapshot(c)
    <3> DEFINE l == snap[job[c].s]
               t == IF job[c].thread = NoThread THEN l.thread ELSE job[c].thread
               k == [job[c] EXCEPT !.pc = "opened", !.rev = l.rev, !.blocks = l.blocks,
                                   !.thread = t]
    <3>1. job' = [job EXCEPT ![c] = k]
      BY <2>2 DEF ReadSnapshot, SetJob
    <3> HIDE DEF l, t
    <3>2. k.pc = "opened" /\ k.kind = job[c].kind
      BY <1>0, Moved
    <3> QED
      BY <3>1, <3>2
  <2> QED
    BY <2>1, <2>2
<1>3. OfKind(c, k) /\ Mild(job[c], k, ui[Device(c)])
  BY <1>0, <1>2, MildMoves
<1> QED
  BY <1>1, <1>2, <1>3, GoesOnKept, QuietIsCalm DEF GoesOn

\* A refusal or a failure ends the call and may leave a warning.
LEMMA FailKeeps ==
    ASSUME IndInv, IndInv', QueueInv, NEW c \in Calls, Fail(c)
    PROVE  QueueInv'
<1>0. ui[Device(c)] \in UIType /\ ~Told(job[c])
  BY Given DEF IndInv, Fail, Told
<1>1. PICK b : ui' = [ui EXCEPT ![Device(c)] = [ui[Device(c)] EXCEPT !.warned = b]]
  BY DEF Fail, SetUI
<1>2. Alike([ui[Device(c)] EXCEPT !.warned = b], ui[Device(c)])
  BY <1>0, Unmoved
<1>3. OfKind(c, NoJob) /\ Mild(job[c], NoJob, ui[Device(c)])
  BY <1>0, EndsMildly
<1>4. Quiet /\ job' = [job EXCEPT ![c] = NoJob]
  BY DEF Fail, Quiet, server, End, SetJob
<1> QED
  BY <1>1, <1>2, <1>3, <1>4, GoesOnKept, QuietIsCalm DEF GoesOn

\* A session is being opened or made.
LEMMA StartsKeep ==
    ASSUME IndInv, IndInv', QueueInv, NEW c \in Calls,
           CreateStart(c) \/ \E s \in Sessions : OpenStart(c, s)
    PROVE  QueueInv'
<1> DEFINE d == Device(c)
           u == ui[d]
           v == [u EXCEPT !.seq = @ + 1, !.blocks = {}]
<1>0. /\ d \in Devices /\ u \in UIType /\ FirstStay(d) /\ c \in Mine(d) /\ c[2] # Sync
      /\ ~Switching(job[c])
  BY Given DEF IndInv, QueueInv, Mine, CreateStart, OpenStart, Switching
<1>1. Quiet /\ ui' = [ui EXCEPT ![d] = Render(v)]
  BY DEF CreateStart, OpenStart, Quiet, server, SetUI
<1>2. v.session = u.session /\ v.seq = u.seq + 1 /\ v \in UIType
  <2>1. u.seq + 1 \in Nat
    BY <1>0, UIFields
  <2> HIDE DEF u
  <2>2. v \in UIType
    BY <1>0, <2>1, UIUpdates
  <2> QED
    BY <1>0, <2>2 DEF UIType
<1>3. Alike(Render(v), v)
  BY <1>2, Unmoved
<1>4. /\ ui'[d].seq = ui[d].seq + 1 /\ ui'[d].session = ui[d].session
      /\ \A x \in Devices \ {d} : ui'[x] = ui[x]
  BY <1>0, <1>1, <1>2, <1>3, Sets DEF Alike
<1>5. PICK k : /\ job' = [job EXCEPT ![c] = k] /\ OfKind(c, k)
               /\ k.pc \in {"read_row", "create"}
  <2>1. CASE CreateStart(c)
    <3> DEFINE k == [NoJob EXCEPT !.pc = "create", !.kind = "create", !.seq = u.seq + 1]
    <3>1. k.pc = "create" /\ k.kind = "create"
      BY DEF NoJob
    <3>2. job' = [job EXCEPT ![c] = k]
      BY <2>1 DEF CreateStart, SetJob
    <3> QED
      BY <1>0, <3>1, <3>2 DEF OfKind
  <2>2. ASSUME NEW s \in Sessions, OpenStart(c, s)
        PROVE  \E k : /\ job' = [job EXCEPT ![c] = k] /\ OfKind(c, k)
                      /\ k.pc \in {"read_row", "create"}
    <3> DEFINE k == [NoJob EXCEPT !.pc = "read_row", !.kind = "open", !.s = s,
                                  !.seq = u.seq + 1]
    <3>1. k.pc = "read_row" /\ k.kind = "open"
      BY DEF NoJob
    <3>2. job' = [job EXCEPT ![c] = k]
      BY <2>2 DEF OpenStart, SetJob
    <3> QED
      BY <1>0, <3>1, <3>2 DEF OfKind
  <2> QED
    BY <2>1, <2>2
<1>6. job'[c] = k /\ \A x \in Mine(d) \ {c} : job'[x] = job[x]
  BY <1>5, Sets DEF Mine
<1>7. ~Told(job'[c]) /\ ~Sending(job'[c]) /\ job'[c].pc \notin Binding
  BY <1>5, <1>6 DEF Told, Sending, Binding
<1>8. ui[d].seq = 0 => ui'[d].session = NoSession
  BY <1>0, <1>4 DEF FirstStay, NothingOpened
<1>9. FirstStay(d)'
  <2>1. ServerCalm(d)
    BY <1>0, <1>1, QuietIsCalm
  <2>2. /\ \A x \in Mine(d) : Told(job'[x]) => job'[x] = job[x]
        /\ \A x \in Mine(d) : Sending(job'[x]) => job'[x] = job[x]
        /\ \A x \in Mine(d) : job'[x].pc \in Binding => job'[x] = job[x]
    BY <1>6, <1>7
  <2>3. \A x, y \in Mine(d) : Switching(job'[x]) /\ Switching(job'[y]) =>
                                  x = y \/ Switching(job[x]) \/ Switching(job[y])
    BY <1>6
  <2> QED
    BY <1>0, <1>4, <1>8, <2>1, <2>2, <2>3, SwitchKept
<1> QED
  BY <1>1, <1>4, <1>5, <1>9, CallStep, QuietIsCalm

\* The session that GET has answered is shown.
LEMMA OpenApplyKeeps ==
    ASSUME IndInv, IndInv', QueueInv, NEW c \in Calls, OpenApply(c)
    PROVE  QueueInv'
<1> DEFINE d == Device(c)
           u == ui[d]
<1>0. /\ d \in Devices /\ u \in UIType /\ FirstStay(d) /\ c \in Mine(d) /\ CallKinds
      /\ job[c] \in JobType /\ job[c].pc = "opened" /\ ~Told(job[c])
  BY Given DEF IndInv, QueueInv, Mine, OpenApply, Told
<1>1. Quiet
  BY DEF OpenApply, Quiet, server
<1>2. CASE Stale(c)
  <2>1. OfKind(c, NoJob) /\ Mild(job[c], NoJob, ui[d])
    BY <1>0, EndsMildly
  <2>2. UNCHANGED ui /\ job' = [job EXCEPT ![c] = NoJob]
    BY <1>2 DEF OpenApply, End, SetJob
  <2> QED
    BY <1>1, <2>1, <2>2, GoesOnKept, QuietIsCalm DEF GoesOn
<1>3. CASE ~Stale(c)
  <2> DEFINE v == [u EXCEPT !.session = job[c].s, !.base = job[c].rev, !.lastKey = NoKey]
  <2>1. ui' = [ui EXCEPT ![d] = Rerender(d, v)]
    BY <1>3 DEF OpenApply, SetUI
  <2>2. v.session = job[c].s /\ v.seq = u.seq /\ v \in UIType
    <3>1. job[c].s \in Sessions \union {NoSession} /\ job[c].rev \in Nat
      BY <1>0, JobFields
    <3> HIDE DEF u
    <3> QED
      BY <1>0, <3>1 DEF UIType
  <2> HIDE DEF v
  <2>3. Alike(Rerender(d, v), v)
    BY <2>2, Unmoved
  <2>4. /\ ui'[d].session = job[c].s /\ ui'[d].seq = ui[d].seq
        /\ \A x \in Devices \ {d} : ui'[x] = ui[x]
    BY <1>0, <2>1, <2>2, <2>3, Sets DEF Alike
  <2>5. PICK p \in {"resume", "start"} : job' = [job EXCEPT ![c] = [job[c] EXCEPT !.pc = p]]
    BY <1>3 DEF OpenApply, SetJob
  <2> DEFINE k == [job[c] EXCEPT !.pc = p]
  <2>6. k.pc = p /\ k.kind = job[c].kind /\ k.s = job[c].s
    BY <1>0, Moved
  <2>7. job' = [job EXCEPT ![c] = k]
    BY <2>5
  <2> HIDE DEF k
  <2>8. job'[c] = k /\ \A x \in Mine(d) \ {c} : job'[x] = job[x]
    BY <2>7, Sets DEF Mine
  <2>9. OfKind(c, k)
    BY <1>0, <2>6 DEF OfKind, CallKinds
  <2>10. job'[c].pc \in Binding /\ job'[c].s = job[c].s
    BY <2>6, <2>8 DEF Binding
  <2>11. FirstStay(d)'
    BY <1>0, <1>1, <2>4, <2>8, <2>10, OpenedKept, QuietIsCalm
  <2> QED
    BY <1>1, <2>4, <2>7, <2>9, <2>11, CallStep, QuietIsCalm
<1> QED
  BY <1>2, <1>3

\* So is the one that POST has made.
LEMMA CreateDoneKeeps ==
    ASSUME IndInv, IndInv', QueueInv, NEW c \in Calls, CreateDone(c)
    PROVE  QueueInv'
<1> DEFINE d == Device(c)
           u == ui[d]
           j == job[c]
           l == Listed(u, j.s, j.thread)
           k == [s |-> j.s, t |-> j.thread, b |-> {}]
           v == [u EXCEPT !.session = j.s, !.base = j.rev, !.lastKey = k, !.list = l]
<1>0. /\ d \in Devices /\ u \in UIType /\ FirstStay(d) /\ c \in Mine(d) /\ CallKinds
      /\ j \in JobType /\ j.pc = "created" /\ j.s \in Sessions /\ ~Told(j)
  BY Given DEF IndInv, QueueInv, Mine, CreateDone, Told, SoundCall, OfSession
<1>1. Quiet /\ ui' = [ui EXCEPT ![d] = Rerender(d, v)] /\ job' = [job EXCEPT ![c] = NoJob]
  BY DEF CreateDone, Quiet, server, SetUI, End, SetJob
<1>2. v.session = j.s /\ v.seq = u.seq /\ v \in UIType
  <2>1. /\ j.rev \in Nat /\ j.thread \in Threads \union {NoThread}
    BY <1>0, JobFields
  <2>2. l \in Lists /\ k \in KeyType \union {NoKey}
    BY <1>0, <2>1, ListUpdates DEF KeyType
  <2> HIDE DEF u, j, l, k
  <2> QED
    BY <1>0, <2>1, <2>2 DEF UIType
<1> HIDE DEF v
<1>3. Alike(Rerender(d, v), v)
  BY <1>2, Unmoved
<1>4. /\ ui'[d].session = job[c].s /\ ui'[d].seq = ui[d].seq
      /\ \A x \in Devices \ {d} : ui'[x] = ui[x]
  BY <1>0, <1>1, <1>2, <1>3, Sets DEF Alike
<1>5. job'[c] = NoJob /\ \A x \in Mine(d) \ {c} : job'[x] = job[x]
  BY <1>1, Sets DEF Mine
<1>6. OfKind(c, NoJob) /\ job'[c].pc = "idle" /\ ~Switching(job'[c])
  BY <1>5, NoJobType DEF OfKind, Switching
<1>7. FirstStay(d)'
  BY <1>0, <1>1, <1>4, <1>5, <1>6, OpenedKept, QuietIsCalm
<1> QED
  BY <1>1, <1>4, <1>6, <1>7, CallStep, QuietIsCalm
\* The thread of the session is resumed or made.
LEMMA ThreadsKeep ==
    ASSUME IndInv, IndInv', QueueInv, NEW c \in Calls,
           OpenResume(c) \/ OpenBind(c) \/ CreateThread(c)
    PROVE  QueueInv'
<1> DEFINE d == Device(c)
           u == ui[d]
<1>0. /\ d \in Devices /\ u \in UIType /\ CallKinds /\ job[c] \in JobType
      /\ job[c].pc \in {"resume", "start", "create"} /\ ~Told(job[c])
  BY Given DEF IndInv, QueueInv, OpenResume, OpenBind, CreateThread, Told
<1>1. Quiet
  BY DEF OpenResume, OpenBind, CreateThread, Quiet, server
<1>2. /\ \A t \in Threads : [u EXCEPT !.thread = t] \in UIType
      /\ \A t \in Threads : Alike([u EXCEPT !.thread = t], u)
      /\ \A v \in UIType : Alike(v, u) => Alike(Render(v), u) /\ Alike(Rerender(d, v), u)
  <2>1. ASSUME NEW v \in UIType, Alike(v, u) PROVE Alike(Render(v), u) /\ Alike(Rerender(d, v), u)
    <3>1. Alike(Render(v), v) /\ Alike(Rerender(d, v), v)
      BY Unmoved
    <3> QED
      BY <2>1, <3>1 DEF Alike
  <2> QED
    BY <1>0, <2>1, UIUpdates, Unmoved
<1>3. ASSUME job' = [job EXCEPT ![c] = NoJob] \/ \E k : /\ job' = [job EXCEPT ![c] = k]
                                                         /\ OfKind(c, k) /\ Mild(job[c], k, u),
             UNCHANGED ui \/ \E v : ui' = [ui EXCEPT ![d] = v] /\ Alike(v, u)
      PROVE  QueueInv'
  <2>1. OfKind(c, NoJob) /\ Mild(job[c], NoJob, u)
    BY <1>0, EndsMildly
  <2> QED
    BY <1>1, <1>3, <2>1, GoesOnKept, QuietIsCalm DEF GoesOn
<1>4. CASE OpenResume(c)
  <2> DEFINE t == job[c].thread
             v == [u EXCEPT !.thread = t]
             w == [v EXCEPT !.blocks = turns[t]]
             k == [job[c] EXCEPT !.pc = "start"]
  <2>1. job[c].pc = "resume" /\ t \in Threads /\ turns[t] \in SUBSET Edits
    BY <1>0, <1>4, JobFields, Given DEF OpenResume, IndInv, SoundCall, TypeOK
  <2>2. v \in UIType /\ Alike(v, u)
    BY <1>2, <2>1
  <2> HIDE DEF v
  <2>3. w \in UIType /\ Alike(w, v)
    BY <2>1, <2>2, UIUpdates, Unmoved
  <2> HIDE DEF w
  <2>4. Alike(Render(w), u) /\ Alike(Rerender(d, v), u)
    BY <1>2, <2>2, <2>3 DEF Alike
  <2>5. k.pc = "start" /\ k.kind = job[c].kind /\ k.s = job[c].s
    BY <1>0, Moved
  <2>6. /\ job' = [job EXCEPT ![c] = NoJob] \/ job' = [job EXCEPT ![c] = k]
        /\ \/ UNCHANGED ui \/ ui' = [ui EXCEPT ![d] = Render(w)]
           \/ ui' = [ui EXCEPT ![d] = Rerender(d, v)]
    BY <1>4 DEF OpenResume, End, SetJob, SetUI, v, w
  <2> HIDE DEF k
  <2>7. OfKind(c, k) /\ Mild(job[c], k, u)
    BY <1>0, <2>1, <2>5, MildMoves DEF Binding
  <2> QED
    BY <1>3, <2>4, <2>6, <2>7
<1>5. CASE OpenBind(c)
  <2> DEFINE t == FreshThread
             v == [u EXCEPT !.thread = t]
             k == [job[c] EXCEPT !.pc = "patch", !.base = u.base, !.thread = t, !.row = t]
  <2>1. job[c].pc = "start" /\ t \in Threads
    BY <1>5, FreshThreads DEF OpenBind
  <2>2. Alike(Rerender(d, v), u)
    BY <1>2, <2>1
  <2>3. /\ \/ job' = [job EXCEPT ![c] = NoJob] \/ job' = [job EXCEPT ![c] = k]
        /\ UNCHANGED ui \/ ui' = [ui EXCEPT ![d] = Rerender(d, v)]
    BY <1>5 DEF OpenBind, End, SetJob, SetUI
  <2>4. k.pc = "patch" /\ k.kind = job[c].kind /\ k.s = job[c].s /\ k.base = u.base
    <3> HIDE DEF u, t
    <3> QED
      BY <1>0, Moved
  <2> HIDE DEF k, v
  <2>5. OfKind(c, k) /\ Mild(job[c], k, u)
    BY <1>0, <2>1, <2>4, MildMoves DEF Binding
  <2> QED
    BY <1>3, <2>2, <2>3, <2>5
<1>6. CASE CreateThread(c)
  <2> DEFINE t == FreshThread
             v == [u EXCEPT !.thread = t]
             k == [job[c] EXCEPT !.pc = "post", !.thread = t]
  <2>1. job[c].pc = "create" /\ t \in Threads
    BY <1>6, FreshThreads DEF CreateThread
  <2>2. Alike(Rerender(d, v), u)
    BY <1>2, <2>1
  <2>3. /\ \/ job' = [job EXCEPT ![c] = NoJob] \/ job' = [job EXCEPT ![c] = k]
        /\ UNCHANGED ui \/ ui' = [ui EXCEPT ![d] = Rerender(d, v)]
    BY <1>6 DEF CreateThread, End, SetJob, SetUI
  <2>4. k.pc = "post" /\ k.kind = job[c].kind
    <3> HIDE DEF t
    <3> QED
      BY <1>0, Moved
  <2> HIDE DEF k, v
  <2>5. OfKind(c, k) /\ Mild(job[c], k, u)
    BY <1>0, <2>1, <2>4, MildMoves
  <2> QED
    BY <1>3, <2>2, <2>3, <2>5
<1> QED
  BY <1>4, <1>5, <1>6

\* A rename sends the base the renderer knows; a deletion, or a new title alone, sends none.
LEMMA RequestsKeep ==
    ASSUME IndInv, IndInv', QueueInv, NEW c \in Calls, NEW s \in Sessions,
           Rename(c, s) \/ DeleteStart(c, s)
    PROVE  QueueInv'
<1> DEFINE u == ui[Device(c)]
<1>0. job[c].pc = "idle" /\ c[2] # Sync /\ ~Told(job[c])
  BY DEF Rename, DeleteStart, Told
<1>1. Quiet /\ UNCHANGED ui
  BY DEF Rename, DeleteStart, Quiet, server
<1>2. PICK k : /\ job' = [job EXCEPT ![c] = k]
               /\ \/ k.pc = "patch" /\ k.kind = "retitle"
                  \/ k.pc = "delete" /\ k.kind = "delete"
                  \/ /\ k.pc = "patch" /\ k.kind = "rename" /\ k.s = u.session
                     /\ k.base = u.base
  <2>1. CASE Rename(c, s)
    <3> DEFINE w == u.list[s]
               i == [NoJob EXCEPT !.pc = "patch", !.s = s, !.row = w]
               k1 == [i EXCEPT !.kind = "rename", !.base = u.base, !.blocks = u.blocks,
                               !.thread = u.thread]
               k2 == [i EXCEPT !.kind = "retitle"]
    <3>1. \/ s = u.session /\ job' = [job EXCEPT ![c] = k1]
          \/ job' = [job EXCEPT ![c] = k2]
      BY <2>1 DEF Rename, SetJob
    <3> HIDE DEF u, w
    <3>2. /\ k1.pc = "patch" /\ k1.kind = "rename" /\ k1.s = s /\ k1.base = u.base
          /\ k2.pc = "patch" /\ k2.kind = "retitle"
      BY DEF NoJob
    <3> HIDE DEF k1, k2
    <3> QED
      BY <3>1, <3>2
  <2>2. CASE DeleteStart(c, s)
    <3> DEFINE k == [NoJob EXCEPT !.pc = "delete", !.kind = "delete", !.s = s]
    <3>1. k.pc = "delete" /\ k.kind = "delete"
      BY DEF NoJob
    <3>2. job' = [job EXCEPT ![c] = k]
      BY <2>2 DEF DeleteStart, SetJob
    <3> QED
      BY <3>1, <3>2
  <2> QED
    BY <2>1, <2>2
<1>3. OfKind(c, k) /\ Mild(job[c], k, u)
  BY <1>0, <1>2 DEF OfKind, Mild, Switching, Awaiting, Binding, Sending, Told
<1> QED
  BY <1>1, <1>2, <1>3, GoesOnKept, QuietIsCalm DEF GoesOn

\* Answers are applied: of a PATCH with a snapshot, the revision it was stored under.
LEMMA AnswersKeep ==
    ASSUME IndInv, IndInv', QueueInv, NEW c \in Calls, NEW v,
           Quiet, Told(job[c]), job' = [job EXCEPT ![c] = NoJob],
           ui' = [ui EXCEPT ![Device(c)] = v], v.base = job[c].rev,
           v.session = ui[Device(c)].session, v.seq = ui[Device(c)].seq
    PROVE  QueueInv'
<1> DEFINE d == Device(c)
<1>0. /\ d \in Devices /\ FirstStay(d) /\ c \in Mine(d)
  BY Given DEF IndInv, QueueInv, Mine
<1>1. ui'[d] = v /\ \A x \in Devices \ {d} : ui'[x] = ui[x]
  BY <1>0, Sets
<1>2. job'[c] = NoJob /\ \A x \in Mine(d) \ {c} : job'[x] = job[x]
  BY Sets DEF Mine
<1>3. OfKind(c, NoJob) /\ job'[c].pc = "idle"
  BY <1>2, NoJobType DEF OfKind
<1>4. FirstStay(d)'
  BY <1>0, <1>1, <1>2, <1>3, AnsweredKept DEF Quiet
<1> QED
  BY <1>1, <1>3, <1>4, CallStep, QuietIsCalm
LEMMA DonesKeep ==
    ASSUME IndInv, IndInv', QueueInv, NEW c \in Calls, OpenDone(c) \/ RenameDone(c)
    PROVE  QueueInv'
<1> DEFINE d == Device(c)
           u == ui[d]
           j == job[c]
<1>0. /\ u \in UIType /\ j \in JobType /\ j.rev \in Nat /\ j.blocks \in SUBSET Edits
      /\ j.pc = "answered" /\ j.s \in Sessions /\ j.row \in Threads \union {NoThread}
  BY Given, JobFields DEF IndInv, OpenDone, RenameDone, SoundCall, OfSession
<1>1. Quiet /\ job' = [job EXCEPT ![c] = NoJob]
  BY DEF OpenDone, RenameDone, Quiet, server, End, SetJob
<1>2. CASE OpenDone(c)
  <2> DEFINE l == Relisted(u, j.s, j.row)
             v == [u EXCEPT !.base = j.rev, !.blocks = j.blocks, !.list = l]
  <2>1. l \in Lists
    BY <1>0, ListUpdates
  <2>2. ui' = [ui EXCEPT ![d] = Render(v)] /\ Told(j)
    BY <1>0, <1>2 DEF OpenDone, SetUI, Told
  <2> HIDE DEF u, j, l
  <2>3. v \in UIType
    BY <1>0, <2>1, UIUpdates
  <2>4. v.base = j.rev /\ v.session = u.session /\ v.seq = u.seq
    BY <1>0 DEF UIType
  <2> HIDE DEF v
  <2>5. Alike(Render(v), v)
    BY <2>3, Unmoved
  <2>6. /\ Render(v).base = job[c].rev /\ Render(v).session = ui[Device(c)].session
        /\ Render(v).seq = ui[Device(c)].seq /\ Told(job[c])
        /\ ui' = [ui EXCEPT ![Device(c)] = Render(v)]
    BY <2>2, <2>4, <2>5 DEF Alike, u, j
  <2> QED
    BY <1>1, <2>6, AnswersKeep
<1>3. CASE RenameDone(c) /\ j.kind = "rename"
  <2> DEFINE v == [u EXCEPT !.base = j.rev, !.lastKey = NoKey]
  <2>1. ui' = [ui EXCEPT ![d] = v] /\ Told(j)
    BY <1>0, <1>3 DEF RenameDone, SetUI, Told
  <2>2. v.base = j.rev /\ v.session = u.session /\ v.seq = u.seq
    <3> HIDE DEF u, j
    <3> QED
      BY <1>0 DEF UIType
  <2> HIDE DEF v
  <2> QED
    BY <1>1, <2>1, <2>2, AnswersKeep
<1>4. CASE RenameDone(c) /\ j.kind # "rename"
  <2>1. UNCHANGED ui /\ ~Told(j)
    BY <1>4 DEF RenameDone, Told
  <2>2. OfKind(c, NoJob) /\ Mild(job[c], NoJob, ui[Device(c)])
    BY <2>1, EndsMildly
  <2> QED
    BY <1>1, <2>1, <2>2, GoesOnKept, QuietIsCalm DEF GoesOn
<1> QED
  BY <1>2, <1>3, <1>4

\* The deleted session is left if it is the one shown; that is not the first switch.
LEMMA DeleteDoneKeeps ==
    ASSUME IndInv, IndInv', QueueInv, NEW c \in Calls, DeleteDone(c)
    PROVE  QueueInv'
<1> DEFINE d == Device(c)
           u == ui[d]
           l == [s \in DOMAIN u.list \ {job[c].s} |-> u.list[s]]
           v == [u EXCEPT !.list = l]
<1>0. /\ d \in Devices /\ u \in UIType /\ FirstStay(d) /\ c \in Mine(d)
      /\ job[c].s \in Sessions /\ ~Told(job[c])
  BY Given DEF IndInv, QueueInv, Mine, DeleteDone, Told, SoundCall, OfSession
<1>1. Quiet /\ job' = [job EXCEPT ![c] = NoJob]
  BY DEF DeleteDone, Quiet, server, End, SetJob
<1>2. ui' = [ui EXCEPT ![d] = IF v.session = job[c].s THEN Left(v) ELSE v]
  BY DEF DeleteDone, SetUI
<1>3. Alike(v, u) /\ v \in UIType
  <2>1. l \in Lists
    BY <1>0, ListUpdates
  <2> HIDE DEF u, l
  <2> QED
    BY <1>0, <2>1, UIUpdates, Unmoved
<1>4. OfKind(c, NoJob) /\ Mild(job[c], NoJob, ui[d])
  BY <1>0, EndsMildly
<1> HIDE DEF v
<1>5. CASE v.session # job[c].s
  <2>1. ui' = [ui EXCEPT ![d] = v]
    BY <1>2, <1>5
  <2> QED
    BY <1>1, <1>3, <1>4, <2>1, GoesOnKept, QuietIsCalm DEF GoesOn
<1>6. CASE v.session = job[c].s
  <2>1. Left(v).seq = v.seq + 1 /\ v.seq \in Nat
    BY <1>3 DEF Left, UIType
  <2>2. ui'[d] = Left(v) /\ \A x \in Devices \ {d} : ui'[x] = ui[x]
    BY <1>0, <1>2, <1>6, Sets
  <2>3. ui[d].seq # 0
    BY <1>0, <1>3, <1>6, SessionAssumption DEF FirstStay, NothingOpened, Alike
  <2>4. ui'[d].seq # 0 /\ ~(ui'[d].seq <= 1)
    BY <1>3, <2>1, <2>2, <2>3 DEF Alike
  <2>5. FirstStay(d)'
    BY <2>4 DEF FirstStay
  <2> QED
    BY <1>1, <1>4, <2>2, <2>5, CallStep, QuietIsCalm
<1> QED
  BY <1>5, <1>6

\* Editing, the timer, and leaving a workspace.
LEMMA DeviceKeeps ==
    ASSUME IndInv, IndInv', QueueInv, NEW d \in Devices,
           TimerFires(d) \/ SelectSharedWorkspace(d) \/ \E e \in Edits : Edit(d, e)
    PROVE  QueueInv'
<1> DEFINE u == ui[d]
<1>0. u \in UIType /\ FirstStay(d)
  BY Given DEF IndInv, QueueInv
<1>1. Quiet /\ UNCHANGED job
  BY DEF TimerFires, SelectSharedWorkspace, Edit, Quiet, server
<1>2. CASE TimerFires(d)
  <2> DEFINE v == [u EXCEPT !.timer = FALSE]
             w == [v EXCEPT !.wantKey = Key(v), !.queue = Append(v.queue, Key(v))]
  <2>1. ui' = [ui EXCEPT ![d] = v] \/ ui' = [ui EXCEPT ![d] = w]
    BY <1>2 DEF TimerFires, SetUI
  <2>2. v \in UIType /\ Alike(v, u)
    BY <1>0, UIUpdates, Unmoved
  <2> HIDE DEF v
  <2>3. Alike(w, v)
    BY <2>2, Unmoved
  <2> HIDE DEF w
  <2>4. Alike(w, u)
    BY <2>2, <2>3 DEF Alike
  <2> QED
    BY <1>1, <2>1, <2>2, <2>4, ShowsKept
<1>3. ASSUME NEW e \in Edits, Edit(d, e) PROVE QueueInv'
  <2> DEFINE b == u.blocks \union {e}
             v == [u EXCEPT !.blocks = b]
  <2>1. ui' = [ui EXCEPT ![d] = Render(v)]
    BY <1>3 DEF Edit, SetUI
  <2>2. v \in UIType /\ Alike(v, u)
    <3>1. b \in SUBSET Edits
      BY <1>0, UIFields
    <3> HIDE DEF b
    <3> QED
      BY <1>0, <3>1, UIUpdates, Unmoved
  <2> HIDE DEF v
  <2>3. Alike(Render(v), v)
    BY <2>2, Unmoved
  <2>4. Alike(Render(v), u)
    BY <2>2, <2>3 DEF Alike
  <2> QED
    BY <1>1, <2>1, <2>4, ShowsKept
<1>4. CASE SelectSharedWorkspace(d)
  <2> DEFINE l == [s \in exists |-> bound[s]]
             v == [Left(u) EXCEPT !.list = l, !.warned = FALSE]
  <2>1. ui' = [ui EXCEPT ![d] = v]
    BY <1>4 DEF SelectSharedWorkspace, SetUI
  <2>2. Left(u).seq = u.seq + 1 /\ Left(u).session = NoSession /\ Left(u) \in UIType
    <3>1. Left(u) \in UIType
      BY <1>0, LeftSound
    <3> QED
      BY <1>0, <3>1 DEF Left, UIType
  <2>3. v.seq = u.seq + 1 /\ v.session = NoSession
    <3> DEFINE x == Left(u)
    <3>1. x \in UIType /\ x.seq = u.seq + 1 /\ x.session = NoSession
      BY <2>2
    <3> HIDE DEF x, l
    <3>2. LET y == [x EXCEPT !.list = l, !.warned = FALSE]
          IN  y.seq = x.seq /\ y.session = x.session
      BY <3>1 DEF UIType
    <3> QED
      BY <3>1, <3>2 DEF x
  <2> HIDE DEF v
  <2>4. ui'[d] = v /\ \A x \in Devices \ {d} : ui'[x] = ui[x]
    BY <2>1, Sets
  <2>5. FirstStay(d)'
    <3>1. ServerCalm(d)
      BY <1>1, QuietIsCalm
    <3>2. \A x \in Mine(d) : job'[x] = job[x]
      BY <1>1
    <3>3. \A x, y \in Mine(d) : Switching(job'[x]) /\ Switching(job'[y]) =>
                                    x = y \/ Switching(job[x]) \/ Switching(job[y])
      BY <1>1
    <3>4. ui'[d].seq = ui[d].seq + 1 /\ ui'[d].session = NoSession
      BY <2>3, <2>4
    <3> QED
      BY <1>0, <3>1, <3>2, <3>3, <3>4, SwitchKept
  <2>6. CallKinds'
    BY <1>1 DEF QueueInv, CallKinds
  <2>7. ASSUME NEW x \in Devices \ {d} PROVE FirstStay(x)'
    BY <1>1, <2>4, QuietIsCalm, Elsewhere DEF QueueInv
  <2> QED
    BY <2>5, <2>6, <2>7 DEF QueueInv
<1> QED
  BY <1>2, <1>3, <1>4

\* The queue sends on top of the base it finds, and applies the answer.
LEMMA SyncKeeps ==
    ASSUME IndInv, IndInv', QueueInv, NEW d \in Devices, SyncStart(d) \/ SyncDone(d)
    PROVE  QueueInv'
<1> DEFINE u == ui[d]
           y == <<d, Sync>>
<1>0. /\ u \in UIType /\ y \in Calls /\ Device(y) = d /\ job[y] \in JobType /\ CallKinds
      /\ job[y].kind = "sync" /\ y[2] = Sync
  BY Given DEF IndInv, QueueInv, Device, CallKinds
<1>1. Quiet
  BY DEF SyncStart, SyncDone, Quiet, server
<1>2. CASE SyncStart(d)
  <2> DEFINE q == Head(u.queue)
             v == [u EXCEPT !.queue = Tail(u.queue)]
             k == [NoJob EXCEPT !.pc = "patch", !.s = q.s, !.base = u.base, !.blocks = q.b,
                                !.thread = q.t, !.row = q.t, !.key = q]
  <2>1. Alike(v, u) /\ ui' = [ui EXCEPT ![d] = v] /\ job[y].pc = "idle"
    BY <1>0, <1>2, Unmoved DEF SyncStart, SetUI
  <2>2. CASE UNCHANGED job
    BY <1>1, <2>1, <2>2, ShowsKept
  <2>3. CASE ~UNCHANGED job
    <3>1. job' = [job EXCEPT ![y] = k] /\ q.s = u.session
      BY <1>2, <2>3 DEF SyncStart, SetJob
    <3> HIDE DEF q, u
    <3>2. k.pc = "patch" /\ k.kind = "sync" /\ k.s = q.s /\ k.base = u.base
      BY DEF NoJob
    <3> HIDE DEF k, v
    <3>3. OfKind(y, k) /\ Mild(job[y], k, u)
      BY <1>0, <2>1, <3>1, <3>2 DEF OfKind, Mild, Switching, Awaiting, Binding, Sending, Told
    <3>4. GoesOn(y)
      BY <1>0, <2>1, <3>1, <3>3 DEF GoesOn, u
    <3> QED
      BY <1>0, <1>1, <3>4, GoesOnKept, QuietIsCalm
  <2> QED
    BY <2>2, <2>3
<1>3. CASE SyncDone(d)
  <2> DEFINE j == job[y]
             l == Relisted(u, j.s, j.row)
             v == [u EXCEPT !.base = j.rev, !.list = l]
             w == [v EXCEPT !.lastKey = j.key]
  <2>1. ui' = [ui EXCEPT ![d] = v] \/ ui' = [ui EXCEPT ![d] = w]
    BY <1>3 DEF SyncDone, SetUI
  <2>2. Told(j) /\ job' = [job EXCEPT ![y] = NoJob]
    BY <1>0, <1>3 DEF SyncDone, End, SetJob, Told
  <2>3. /\ v.base = j.rev /\ v.session = u.session /\ v.seq = u.seq
        /\ w.base = j.rev /\ w.session = u.session /\ w.seq = u.seq
    <3> HIDE DEF u, j, l
    <3> QED
      BY <1>0 DEF UIType
  <2> HIDE DEF v, w
  <2>4. ASSUME NEW x \in {v, w}, ui' = [ui EXCEPT ![d] = x] PROVE QueueInv'
    <3>1. /\ x.base = job[y].rev /\ x.session = ui[Device(y)].session
          /\ x.seq = ui[Device(y)].seq /\ ui' = [ui EXCEPT ![Device(y)] = x]
      BY <1>0, <2>3, <2>4
    <3> QED
      BY <1>0, <1>1, <2>2, <3>1, AnswersKeep
  <2> QED
    BY <2>1, <2>4
<1> QED
  BY <1>2, <1>3

\* Every step but a loss keeps the invariant.
LEMMA QueueStep ==
    ASSUME ~NetworkFails, IndInv, IndInv', QueueInv, [Next]_vars
    PROVE  QueueInv'
<1>1. CASE UNCHANGED vars
  <2>1. Quiet /\ UNCHANGED <<job, ui>>
    BY <1>1 DEF vars, server, Quiet
  <2>2. ASSUME NEW d \in Devices PROVE FirstStay(d)'
    BY <2>1, Elsewhere, QuietIsCalm DEF QueueInv
  <2> QED
    BY <2>1, <2>2 DEF QueueInv, CallKinds
<1>2. ASSUME NEW c \in Calls, User(c) \/ Request(c) \/ Open(c) PROVE QueueInv'
  BY <1>2, StartsKeep, RequestsKeep, TxBeginKeeps, TxCommitKeeps, DeleteRowKeeps, ReadsKeep,
     OpenApplyKeeps, ThreadsKeep, DonesKeep DEF User, Request, Open
<1>3. ASSUME NEW c \in Calls, Create(c) \/ Answer(c) \/ Lose(c) PROVE QueueInv'
  BY <1>3, ThreadsKeep, PostKeeps, CreateDoneKeeps, DonesKeep, DeleteDoneKeeps, FailKeeps
     DEF Create, Answer, Lose
<1>4. ASSUME NEW d \in Devices,
             Synchronise(d) \/ SelectSharedWorkspace(d) \/ \E e \in Edits : Edit(d, e)
      PROVE  QueueInv'
  BY <1>4, DeviceKeeps, SyncKeeps DEF Synchronise
<1> QED
  BY <1>1, <1>2, <1>3, <1>4 DEF Next

\* Init establishes it.
LEMMA QueueInit == ASSUME Init PROVE QueueInv
<1>1. /\ \A c \in Calls : job[c] = NoJob
      /\ \A d \in Devices : ui[d].session = NoSession
      /\ \A s \in Sessions : snap[s].by = NoCall
  BY DEF Init, FreshUI, NoSnapshot
<1>2. /\ ~Switching(NoJob) /\ ~Told(NoJob) /\ ~Sending(NoJob) /\ NoJob.pc = "idle"
      /\ NoJob.kind = "sync" /\ NoJob.pc \notin Awaiting /\ NoJob.pc \notin Binding
  BY NoJobType DEF Switching, Told, Sending, Awaiting, Binding
<1>3. CallKinds
  BY <1>1, <1>2 DEF CallKinds
<1>4. ASSUME NEW d \in Devices PROVE FirstStay(d)
  <2>1. \A c \in Mine(d) : c \in Calls
    BY DEF Mine
  <2>2. NothingOpened(d) /\ CallsFollow(d) /\ OneOfEach(d)
    BY <1>1, <1>2, <2>1 DEF NothingOpened, CallsFollow, OneOfEach
  <2>3. LatestKnown(d)
    <3>1. NoCall # <<d, Sync>>
      BY SessionAssumption DEF Calls
    <3> QED
      BY <1>1, <3>1 DEF LatestKnown
  <2> QED
    BY <2>2, <2>3 DEF FirstStay
<1> QED
  BY <1>3, <1>4 DEF QueueInv

\* A synchronisation that is refused does not find its own snapshot.
LEMMA NotRefused ==
    ASSUME IndInv, QueueInv, [Next]_vars, NEW c \in Calls,
           job[c].pc = "patch", job'[c].pc = "conflict", c[2] = Sync,
           ui[Device(c)].seq = 1
    PROVE  snap[job[c].s].by # c
<1> DEFINE d == Device(c)
<1>0. /\ d \in Devices /\ c = <<d, Sync>> /\ c \in Mine(d) /\ job[c].kind = "sync"
      /\ job[c].s \in Sessions /\ Sending(job[c]) /\ ~Told(job[c])
  BY Given DEF IndInv, QueueInv, CallKinds, Mine, Device, Calls, SoundCall, OfSession, Sending,
               Told
<1>1. job[c].base # snap[job[c].s].rev
  <2>1. ~ClientStep
    BY Sets DEF ClientStep, JobStep, Unasked, Opening
  <2>2. ASSUME NEW x \in Calls, TxBegin(x) \/ TxCommit(x) \/ DeleteRow(x) \/ Post(x)
        PROVE  TxBegin(c)
    <3>1. x = c
      <4>1. \E k : job' = [job EXCEPT ![x] = k]
        <5>1. TxBegin(x) \/ TxCommit(x) \/ DeleteRow(x) => \E k : job' = [job EXCEPT ![x] = k]
          BY DEF TxBegin, TxCommit, DeleteRow, SetJob
        <5>2. Post(x) => \E k : job' = [job EXCEPT ![x] = k]
          BY DEF Post, SetJob
        <5> QED
          BY <2>2, <5>1, <5>2
      <4> QED
        BY <4>1, Sets
    <3> QED
      BY <2>2, <3>1 DEF TxCommit, DeleteRow, Post
  <2>3. TxBegin(c)
    BY <2>1, <2>2, StepKinds
  <2>4. ~Refused(c) => \E p \in {"insert", "failed"} :
                           job' = [job EXCEPT ![c] = [job[c] EXCEPT !.pc = p]]
    BY <2>3 DEF TxBegin, SetJob
  <2>5. ASSUME NEW p \in {"insert", "failed"},
               job' = [job EXCEPT ![c] = [job[c] EXCEPT !.pc = p]]
        PROVE  FALSE
    <3> DEFINE k == [job[c] EXCEPT !.pc = p]
    <3>1. k.pc = p
      BY Given, Moved DEF IndInv
    <3>2. job'[c] = k
      BY <2>5, Sets
    <3> QED
      BY <3>1, <3>2
  <2> QED
    BY <2>4, <2>5 DEF Refused
<1>2. LatestKnown(d) /\ CallsFollow(d)
  BY <1>0 DEF QueueInv, FirstStay
<1> QED
  BY <1>0, <1>1, <1>2 DEF LatestKnown

----------------------------------------------------------------------------
(* Theorems *)

\* The server's tables, the renderers and the calls in flight keep their types: no
\* revision, snapshot key, thread or lock is ever anything else.
THEOREM TypeCorrect == Spec => []TypeOK
BY Invariance, PTL DEF IndInv

\* No snapshot outlives its session, or is written for one that was deleted while the
\* PATCH was under way: DELETE waits for the row lock that writeSnapshot holds.
THEOREM SnapshotsOfSessions == Spec => []SnapshotsHaveSessions
<1>1. IndInv => SnapshotsHaveSessions
  BY DEF IndInv, ServerSound
<1> QED
  BY <1>1, Invariance, PTL

\* The transactions of sessions.ts implement a compare-and-set register per session.
THEOREM Refinement == Spec => ImplementsRevisionStore
<1>1. IndInv /\ [Next]_vars => [Store!Next]_Store!vars
  BY StepKinds, ClientRefines, TxBeginRefines, TxCommitRefines, DeleteRowRefines, PostRefines
<1> QED
  BY <1>1, InitRefines, Invariance, PTL DEF Spec, ImplementsRevisionStore, Store!Spec

\* While no request is lost, the queue of App.tsx does what it is for in the first session
\* a device opens: no synchronisation is refused because of an earlier one.  A lost answer
\* leaves the renderer with an old base, whatever the queue does.
THEOREM QueueOrder == ~NetworkFails => (Spec => QueueKeepsOrder)
<1> SUFFICES ASSUME ~NetworkFails PROVE Spec => QueueKeepsOrder
  OBVIOUS
<1>1. Init => QueueInv
  BY QueueInit
<1>2. IndInv /\ IndInv' /\ QueueInv /\ [Next]_vars => QueueInv'
  BY QueueStep
<1> DEFINE Step == \A c \in Calls :
                      /\ job[c].pc = "patch" /\ job'[c].pc = "conflict"
                      /\ c[2] = Sync /\ ui[Device(c)].seq = 1
                      => snap[job[c].s].by # c
<1>3. IndInv /\ QueueInv /\ [Next]_vars => [Step]_vars
  BY NotRefused
<1> QED
  BY <1>1, <1>2, <1>3, Invariance, PTL DEF Spec, QueueKeepsOrder
=============================================================================
