-------------------------- MODULE MemoryJobsProofs --------------------------
(***************************************************************************)
(* TLAPS proofs about MemoryJobs, for any finite set of threads, any set   *)
(* of workers and every bound: the ownership tokens keep what is stored    *)
(* and what is marked consistent, whatever the crashes and the leases do.  *)
(***************************************************************************)
EXTENDS MemoryJobs, FiniteSetTheorems, TLAPS

----------------------------------------------------------------------------
(* The inductive invariants *)

\* A worker has one version of a thread in mind, from its scan to the last result.
OneVersionPerThread ==
    \A w \in Workers :
        /\ pc[w] # "phase1" => todo[w] = {} /\ held[w] = {}
        /\ \A t \in Threads, u, v \in Versions :
              {<<t, u>>, <<t, v>>} \subseteq todo[w] \union held[w] => u = v

\* A row that runs was claimed for a version newer than anything stored for its thread,
\* and has an attempt left.
RunningRows ==
    \A t \in Threads :
        /\ job[t].status = "none" => job[t].input = 0
        /\ job[t].status = "running" =>
              /\ out[t].ver < job[t].input /\ job[t].done < job[t].input
              /\ job[t].tries > 0

\* The token stands for the version: whoever owns a row holds the version it was claimed
\* for.
TokenMatchesInput ==
    \A w \in Workers, t \in Threads, v \in Versions :
        Owned(job[t], w) /\ <<t, v>> \in held[w] => v = job[t].input

\* Phase 1: the stage-1 rows.
Phase1Inv == OneVersionPerThread /\ RunningRows /\ TokenMatchesInput /\ OutputMatchesWatermark

\* The labels of the steps on the workspace: all of phase 2 but the agent.
WorkspaceSteps == {"prepare", "load", "sync", "diff", "reset", "succeed"}

\* Who works on the workspace owns the global row, under a lease that has not run out.
LockHeld ==
    \A w \in Workers : pc[w] \in WorkspaceSteps => Owned(global, w) /\ global.live

\* As long as the lock was not lost, the workspace is what its owner put there.
InputsInPlace ==
    \A w \in Workers :
        /\ pc[w] \in {"diff", "agent", "reset"} /\ Owned(global, w) => files = sel[w]
        /\ pc[w] = "succeed" => base = sel[w]

\* Phase 2: the lock and the workspace, until the memories are reset.
Phase2Inv ==
    resets = 0 => ~clearing /\ LockHeld /\ InputsInPlace /\ SelectionInBaseline

IndInv == TypeOK /\ Phase1Inv /\ RunningWithinCap /\ Phase2Inv

----------------------------------------------------------------------------
(* Type correctness *)

\* The fields of a stage-1 row.
LEMMA JobFields ==
    ASSUME NEW r \in JobRow
    PROVE  /\ r.status \in {"none", "running", "done", "error"}
           /\ r.owner \in Workers \union {Orphan} /\ r.live \in BOOLEAN
           /\ r.waiting \in BOOLEAN /\ r.tries \in 0..Retries
           /\ r.input \in 0..MaxVersion /\ r.done \in 0..MaxVersion
BY DEF JobRow

\* The updates the transactions make to a stage-1 row.
LEMMA JobUpdates ==
    ASSUME NEW r \in JobRow
    PROVE  /\ [r EXCEPT !.live = FALSE] \in JobRow
           /\ [r EXCEPT !.waiting = FALSE] \in JobRow
           /\ [r EXCEPT !.status = "done", !.live = FALSE, !.done = r.input] \in JobRow
           /\ \A n \in 0..Retries : [r EXCEPT !.status = "error", !.live = FALSE,
                                              !.waiting = TRUE, !.tries = n] \in JobRow
           /\ \A w \in Workers : Disowned(r, w) \in JobRow
<1>1. [r EXCEPT !.live = FALSE] \in JobRow /\ [r EXCEPT !.waiting = FALSE] \in JobRow
  BY DEF JobRow
<1>2. [r EXCEPT !.status = "done", !.live = FALSE, !.done = r.input] \in JobRow
  BY DEF JobRow
<1>3. ASSUME NEW n \in 0..Retries
      PROVE  [r EXCEPT !.status = "error", !.live = FALSE, !.waiting = TRUE,
                       !.tries = n] \in JobRow
  BY DEF JobRow
<1>4. ASSUME NEW w \in Workers PROVE Disowned(r, w) \in JobRow
  BY DEF JobRow, Disowned
<1> QED
  BY <1>1, <1>2, <1>3, <1>4

\* A claim.
LEMMA JobRowClaimed ==
    ASSUME NEW r \in JobRow, NEW w \in Workers, NEW v \in Versions, NEW n \in 0..Retries
    PROVE  LET q == [r EXCEPT !.status = "running", !.owner = w, !.live = TRUE,
                              !.waiting = FALSE, !.tries = n, !.input = v]
           IN  /\ q \in JobRow /\ q.status = "running" /\ q.owner = w /\ q.input = v
               /\ q.done = r.done /\ q.tries = n
<1>1. v \in 0..MaxVersion
  BY MemoryAssumption DEF Versions
<1> QED
  BY <1>1 DEF JobRow

\* The fields of the global row.
LEMMA GlobalFields ==
    ASSUME NEW r \in GlobalRow
    PROVE  /\ r.owner \in Workers \union {Orphan} /\ r.live \in BOOLEAN
           /\ r.waiting \in BOOLEAN /\ r.cooling \in BOOLEAN
BY DEF GlobalRow

\* The updates the transactions make to the global row.
LEMMA GlobalUpdates ==
    ASSUME NEW r \in GlobalRow
    PROVE  /\ [r EXCEPT !.live = TRUE] \in GlobalRow
           /\ [r EXCEPT !.live = FALSE] \in GlobalRow
           /\ [r EXCEPT !.waiting = FALSE, !.cooling = FALSE] \in GlobalRow
           /\ [r EXCEPT !.status = "pending", !.waiting = FALSE] \in GlobalRow
           /\ [r EXCEPT !.status = "done", !.live = FALSE, !.cooling = TRUE] \in GlobalRow
           /\ [r EXCEPT !.status = "error", !.live = FALSE, !.waiting = TRUE] \in GlobalRow
           /\ \A w \in Workers :
                 /\ [r EXCEPT !.status = "running", !.owner = w, !.live = TRUE] \in GlobalRow
                 /\ Disowned(r, w) \in GlobalRow
BY DEF GlobalRow, Disowned

\* The rows that are not there.
LEMMA NoRows == NoJob \in JobRow /\ NoGlobal \in GlobalRow /\ NoOutput \in OutputRow
BY MemoryAssumption DEF NoJob, NoGlobal, NoOutput, JobRow, GlobalRow, OutputRow

\* Init establishes the inductive invariant.
LEMMA IndInit == Init => IndInv
<1> SUFFICES ASSUME Init PROVE IndInv
  OBVIOUS
<1>1. TypeOK
  <2>1. 1 \in Versions /\ 0 \in 0..MaxFaults /\ 0 \in 0..MaxResets
    BY MemoryAssumption DEF Versions
  <2>2. job \in [Threads -> JobRow] /\ out \in [Threads -> OutputRow] /\ global \in GlobalRow
    BY NoRows DEF Init
  <2>3. /\ pc \in [Workers -> Labels] /\ todo \in [Workers -> SUBSET Snapshots]
        /\ held \in [Workers -> SUBSET Snapshots] /\ sel \in [Workers -> SUBSET Snapshots]
    BY DEF Init, Labels
  <2> QED
    BY <2>1, <2>2, <2>3 DEF Init, TypeOK
<1>2. Phase1Inv
  BY MemoryAssumption DEF Init, Phase1Inv, OneVersionPerThread, RunningRows,
     TokenMatchesInput, OutputMatchesWatermark, NoJob, NoOutput, Owned
<1>3. RunningWithinCap
  <2>1. Running = {}
    BY DEF Init, Running, Active, NoJob
  <2> QED
    BY <2>1, FS_EmptySet, MemoryAssumption DEF RunningWithinCap
<1>4. Phase2Inv
  BY DEF Init, Phase2Inv, LockHeld, WorkspaceSteps, InputsInPlace, SelectionInBaseline,
     NoGlobal
<1> QED
  BY <1>1, <1>2, <1>3, <1>4 DEF IndInv

\* Every step keeps the types: a row that fails had an attempt left.
LEMMA TypeStep == TypeOK /\ RunningRows /\ [Next]_vars => TypeOK'
<1> SUFFICES ASSUME TypeOK, RunningRows, [Next]_vars PROVE TypeOK'
  OBVIOUS
<1> USE MemoryAssumption
    DEF TypeOK, Labels, Goto, Leave, Fault, tables, workspace, locals, bounds
<1>1. CASE UNCHANGED vars
  BY <1>1 DEF vars
<1>2. Enqueued \in GlobalRow
  BY GlobalUpdates DEF Enqueued
<1>3. ASSUME Prune PROVE out' \in [Threads -> OutputRow]
  BY <1>3, NoRows DEF Prune
<1>4. ASSUME NEW w \in Workers, NEW t \in Threads, NEW v \in Versions,
             Claim(w, t, v) \/ Succeeded(w, t, v) \/ SucceededNoOutput(w, t, v)
             \/ Failed(w, t, v)
      PROVE  TypeOK'
  <2>0. job[t] \in JobRow /\ out[t] \in OutputRow /\ <<t, v>> \in Snapshots
        /\ v \in 0..MaxVersion
    BY DEF Snapshots, Versions
  <2>1. CASE Claim(w, t, v)
    <3> DEFINE n == IF v > job[t].input THEN Retries ELSE job[t].tries
    <3>1. n \in 0..Retries
      BY <2>0, JobFields
    <3>2. [job[t] EXCEPT !.status = "running", !.owner = w, !.live = TRUE,
                         !.waiting = FALSE, !.tries = n, !.input = v] \in JobRow
      BY <2>0, <3>1, JobRowClaimed
    <3>3. job' \in [Threads -> JobRow] /\ held' \in [Workers -> SUBSET Snapshots]
      BY <2>0, <2>1, <3>2 DEF Claim
    <3>4. todo' \in [Workers -> SUBSET Snapshots]
      BY <2>1 DEF Claim
    <3> QED
      BY <2>1, <3>3, <3>4 DEF Claim
  <2>2. ASSUME Owned(job[t], w), DoneJob(t) PROVE job' \in [Threads -> JobRow]
    BY <2>0, <2>2, JobUpdates DEF DoneJob
  <2>3. ASSUME Finished(w, t, v) PROVE held' \in [Workers -> SUBSET Snapshots]
    BY <2>3 DEF Finished
  <2>4. CASE Succeeded(w, t, v)
    <3>1. ASSUME out' = [out EXCEPT ![t].ver = IF v >= @ THEN v ELSE @]
          PROVE  out' \in [Threads -> OutputRow]
      BY <2>0, <3>1 DEF OutputRow
    <3> QED
      BY <1>2, <2>2, <2>3, <2>4, <3>1 DEF Succeeded, Finished
  <2>5. CASE SucceededNoOutput(w, t, v)
    BY <1>2, <2>2, <2>3, <2>5, NoRows DEF SucceededNoOutput, Finished
  <2>6. CASE Failed(w, t, v)
    <3>1. ASSUME Owned(job[t], w)
          PROVE  [job[t] EXCEPT !.status = "error", !.live = FALSE, !.waiting = TRUE,
                                !.tries = job[t].tries - 1] \in JobRow
      <4>1. job[t].tries - 1 \in 0..Retries
        BY <2>0, <3>1, JobFields DEF RunningRows, Owned
      <4> QED
        BY <2>0, <4>1, JobUpdates
    <3> QED
      BY <2>0, <2>3, <2>6, <3>1 DEF Failed, Finished
  <2> QED
    BY <1>4, <2>1, <2>4, <2>5, <2>6
<1>5. ASSUME NEW w \in Workers, Phase1Error(w) \/ Crash(w) \/ Scan(w) PROVE TypeOK'
  <2>1. CASE Phase1Error(w)
    <3>0. \A t \in Threads : Disowned(job[t], w) \in JobRow
      BY JobUpdates
    <3>1. job' \in [Threads -> JobRow]
      BY <2>1, <3>0 DEF Phase1Error
    <3> QED
      BY <2>1, <3>1 DEF Phase1Error
  <2>2. CASE Crash(w)
    <3>1. job' \in [Threads -> JobRow]
      BY <2>2, JobUpdates DEF Crash
    <3>2. global' \in GlobalRow
      BY <2>2, GlobalUpdates DEF Crash
    <3> QED
      BY <2>2, <3>1, <3>2 DEF Crash
  <2>3. CASE Scan(w)
    BY <2>3 DEF Scan, Snapshots
  <2> QED
    BY <1>5, <2>1, <2>2, <2>3
<1>6. ASSUME NEW w \in Workers, Phase2(w) PROVE TypeOK'
  <2>0. /\ [global EXCEPT !.live = TRUE] \in GlobalRow
        /\ [global EXCEPT !.status = "done", !.live = FALSE, !.cooling = TRUE] \in GlobalRow
        /\ [global EXCEPT !.status = "error", !.live = FALSE, !.waiting = TRUE] \in GlobalRow
    BY GlobalUpdates
  <2>1. CASE ClaimGlobal(w)
    <3>1. [global EXCEPT !.status = "running", !.owner = w, !.live = TRUE] \in GlobalRow
      BY GlobalUpdates
    <3> QED
      BY <2>1, <3>1 DEF ClaimGlobal
  <2>2. CASE Prepare(w)
    BY <2>2 DEF Prepare
  <2>3. CASE LoadSelection(w)
    <3>1. ASSUME NEW inputs \in SUBSET {t \in Threads : mode[t] = "enabled" /\ out[t].ver # 0}
          PROVE  {<<t, out[t].ver>> : t \in inputs} \in SUBSET Snapshots
      BY DEF Snapshots, Versions, OutputRow
    <3> QED
      BY <2>3, <3>1 DEF LoadSelection
  <2>4. CASE SyncInputs(w) \/ Diff(w)
    BY <2>4 DEF SyncInputs, Diff
  <2>5. CASE DiffFails(w)
    BY <2>5, <2>0 DEF DiffFails, FailGlobal
  <2>6. CASE AgentCompleted(w) \/ ResetBaseline(w)
    BY <2>6, <2>0 DEF AgentCompleted, ResetBaseline
  <2>7. CASE SucceedGlobal(w)
    <3> DEFINE marked(t) ==
                  [out[t] EXCEPT !.sel = IF <<t, out[t].ver>> \in sel[w] THEN out[t].ver ELSE 0]
    <3>1. \A t \in Threads : marked(t) \in OutputRow
      BY DEF OutputRow
    <3>2. out' \in [Threads -> OutputRow]
      <4>1. out' = out \/ out' = [t \in Threads |-> marked(t)]
        BY <2>7 DEF SucceedGlobal
      <4> QED
        <5> HIDE DEF marked
        <5> QED
          BY <3>1, <4>1
    <3>3. global' \in GlobalRow
      BY <2>0, <2>7 DEF SucceedGlobal
    <3> QED
      BY <2>7, <3>2, <3>3 DEF SucceedGlobal
  <2> QED
    BY <1>6, <2>1, <2>2, <2>3, <2>4, <2>5, <2>6, <2>7 DEF Phase2
<1>7. ASSUME NEW w \in Workers,
             Start(w) \/ StartLimited(w) \/ AgentEdits(w) \/ Heartbeat(w) \/ Phase2Error(w)
      PROVE  TypeOK'
  <2>0. /\ [global EXCEPT !.live = TRUE] \in GlobalRow
        /\ [global EXCEPT !.status = "error", !.live = FALSE, !.waiting = TRUE] \in GlobalRow
    BY GlobalUpdates
  <2>1. CASE Start(w) \/ StartLimited(w)
    BY <1>3, <2>1 DEF Start, StartLimited
  <2>2. CASE AgentEdits(w) \/ Heartbeat(w)
    BY <2>0, <2>2 DEF AgentEdits, Heartbeat
  <2>3. CASE Phase2Error(w)
    BY <2>0, <2>3 DEF Phase2Error, FailGlobal
  <2> QED
    BY <1>7, <2>1, <2>2, <2>3
<1>8. ASSUME NEW t \in Threads, Update(t) \/ Pollute(t) \/ Clock(t) PROVE TypeOK'
  <2>1. CASE Update(t)
    BY <2>1 DEF Update, Versions
  <2>2. CASE Pollute(t)
    BY <1>2, <2>2 DEF Pollute
  <2>3. CASE Clock(t)
    <3>1. [job[t] EXCEPT !.live = FALSE] \in JobRow /\ [job[t] EXCEPT !.waiting = FALSE] \in JobRow
      BY JobUpdates
    <3>2. CASE JobLeaseExpires(t)
      BY <3>1, <3>2 DEF JobLeaseExpires
    <3>3. CASE JobRetryElapses(t)
      BY <3>1, <3>3 DEF JobRetryElapses
    <3> QED
      BY <2>3, <3>2, <3>3 DEF Clock
  <2> QED
    BY <1>8, <2>1, <2>2, <2>3
<1>9. CASE GlobalLeaseExpires \/ GlobalDelayElapses
  <2>1. /\ [global EXCEPT !.live = FALSE] \in GlobalRow
        /\ [global EXCEPT !.waiting = FALSE, !.cooling = FALSE] \in GlobalRow
    BY GlobalUpdates
  <2>2. CASE GlobalLeaseExpires
    BY <2>1, <2>2 DEF GlobalLeaseExpires
  <2>3. CASE GlobalDelayElapses
    BY <2>1, <2>3 DEF GlobalDelayElapses
  <2> QED
    BY <1>9, <2>2, <2>3
<1>10. CASE ClearMemoryData \/ ClearMemoryRoot \/ ClearingFails
  <2>1. CASE ClearMemoryData
    BY <2>1, NoRows DEF ClearMemoryData
  <2>2. CASE ClearMemoryRoot
    BY <2>2 DEF ClearMemoryRoot
  <2>3. CASE ClearingFails
    <3>1. clearing' \in BOOLEAN
      BY <2>3 DEF ClearingFails
    <3>2. faults' \in 0..MaxFaults /\ resets' \in 0..MaxResets
      BY <2>3 DEF ClearingFails
    <3> QED
      BY <2>3, <3>1, <3>2 DEF ClearingFails
  <2> QED
    BY <1>10, <2>1, <2>2, <2>3
<1> QED
  BY <1>1, <1>4, <1>5, <1>6, <1>7, <1>8, <1>9, <1>10 DEF Next, Phase1

----------------------------------------------------------------------------
(* Phase 1 *)

\* What the updates of a stage-1 row leave in it.
LEMMA JobEffects ==
    ASSUME NEW r \in JobRow
    PROVE  /\ LET q == [r EXCEPT !.live = FALSE]
              IN  /\ ~q.live /\ q.status = r.status /\ q.owner = r.owner
                  /\ q.tries = r.tries /\ q.input = r.input /\ q.done = r.done
           /\ LET q == [r EXCEPT !.waiting = FALSE]
              IN  /\ q.live = r.live /\ q.status = r.status /\ q.owner = r.owner
                  /\ q.tries = r.tries /\ q.input = r.input /\ q.done = r.done
           /\ LET q == [r EXCEPT !.status = "done", !.live = FALSE, !.done = r.input]
              IN  q.status = "done" /\ q.input = r.input /\ q.done = r.input
           /\ \A n : LET q == [r EXCEPT !.status = "error", !.live = FALSE,
                                        !.waiting = TRUE, !.tries = n]
                     IN  q.status = "error" /\ q.input = r.input /\ q.done = r.done
           /\ \A w : LET q == Disowned(r, w)
                     IN  /\ q.live = r.live /\ q.status = r.status
                         /\ q.owner = IF r.owner = w THEN Orphan ELSE r.owner
                         /\ q.tries = r.tries /\ q.input = r.input /\ q.done = r.done
BY DEF JobRow, Disowned

\* The invariant of phase 1 looks at the rows, the versions of the memories and the
\* claims only, and memories may go.
LEMMA Phase1Quiet ==
    ASSUME Phase1Inv, UNCHANGED <<job, todo, held>>,
           \A t \in Threads : out'[t].ver \in {0, out[t].ver},
           TypeOK,
           \A w \in Workers : pc'[w] = "phase1" \/ pc[w] # "phase1"
                              \/ (todo[w] = {} /\ held[w] = {})
    PROVE  Phase1Inv'
<1>1. OneVersionPerThread'
  BY DEF Phase1Inv, OneVersionPerThread
<1>2. RunningRows'
  <2>1. \A t \in Threads : job[t] \in JobRow
    BY DEF TypeOK
  <2> QED
    BY <2>1, JobFields DEF Phase1Inv, RunningRows
<1>3. TokenMatchesInput'
  BY DEF Phase1Inv, TokenMatchesInput, Owned
<1>4. OutputMatchesWatermark'
  BY DEF Phase1Inv, OutputMatchesWatermark
<1> QED
  BY <1>1, <1>2, <1>3, <1>4 DEF Phase1Inv

\* A step that changes no row but that of one thread, and makes no claim.
LEMMA Phase1OneRow ==
    ASSUME Phase1Inv, TypeOK, UNCHANGED <<todo, pc>>, NEW t \in Threads,
           \A w \in Workers : held'[w] \subseteq held[w],
           \A u \in Threads \ {t} : job'[u] = job[u] /\ out'[u] = out[u],
           job'[t].status \in {"done", "error"},
           out'[t].ver # 0 => out'[t].ver = job'[t].done
    PROVE  Phase1Inv'
<1>1. OneVersionPerThread'
  BY DEF Phase1Inv, OneVersionPerThread
<1>2. RunningRows'
  BY DEF Phase1Inv, RunningRows
<1>3. TokenMatchesInput'
  BY DEF Phase1Inv, TokenMatchesInput, Owned
<1>4. OutputMatchesWatermark'
  BY DEF Phase1Inv, OutputMatchesWatermark
<1> QED
  BY <1>1, <1>2, <1>3, <1>4 DEF Phase1Inv

\* A step that leaves each row with what it had, or with less: an owner or a lease.
LEMMA Phase1SameRows ==
    ASSUME Phase1Inv, TypeOK, UNCHANGED out,
           \A w \in Workers : held'[w] \subseteq held[w] /\ todo'[w] \subseteq todo[w],
           \A w \in Workers : pc'[w] = pc[w] \/ (todo'[w] = {} /\ held'[w] = {}),
           \A u \in Threads : /\ job'[u].status = job[u].status
                              /\ job'[u].owner \in {job[u].owner, Orphan}
                              /\ job'[u].tries = job[u].tries /\ job'[u].done = job[u].done
                              /\ job'[u].input = job[u].input
    PROVE  Phase1Inv'
<1>1. OneVersionPerThread'
  BY DEF Phase1Inv, OneVersionPerThread
<1>2. RunningRows'
  BY DEF Phase1Inv, RunningRows
<1>3. TokenMatchesInput'
  BY MemoryAssumption DEF Phase1Inv, TokenMatchesInput, Owned
<1>4. OutputMatchesWatermark'
  BY DEF Phase1Inv, OutputMatchesWatermark
<1> QED
  BY <1>1, <1>2, <1>3, <1>4 DEF Phase1Inv

\* A claim is for a version newer than the stored one, and leaves its worker with the
\* version of the row.
LEMMA ClaimStep ==
    ASSUME TypeOK, Phase1Inv, NEW w \in Workers, NEW t \in Threads, NEW v \in Versions,
           Claim(w, t, v)
    PROVE  Phase1Inv'
<1> USE DEF TypeOK
<1>0. /\ job[t] \in JobRow /\ out[t] \in OutputRow /\ v \in 1..MaxVersion /\ v \in Nat
      /\ pc[w] = "phase1" /\ <<t, v>> \in todo[w] /\ UNCHANGED <<out, pc>>
  BY MemoryAssumption DEF Claim, Versions
<1>1. OneVersionPerThread'
  <2>1. ASSUME NEW x \in Workers
        PROVE  /\ todo'[x] \union held'[x] \subseteq todo[x] \union held[x]
               /\ x # w => todo'[x] = todo[x] /\ held'[x] = held[x]
    BY <1>0 DEF Claim
  <2> QED
    BY <1>0, <2>1 DEF Phase1Inv, OneVersionPerThread
<1>2. CASE ~Claimable(t, v)
  <2>1. UNCHANGED <<job, held>>
    BY <1>2 DEF Claim
  <2> QED
    BY <1>0, <1>1, <2>1 DEF Phase1Inv, RunningRows, TokenMatchesInput,
       OutputMatchesWatermark, Owned
<1>3. CASE Claimable(t, v)
  <2> DEFINE n == IF v > job[t].input THEN Retries ELSE job[t].tries
  <2>1. /\ job' = [job EXCEPT ![t] = [job[t] EXCEPT !.status = "running", !.owner = w,
                        !.live = TRUE, !.waiting = FALSE, !.tries = n, !.input = v]]
        /\ held' = [held EXCEPT ![w] = @ \union {<<t, v>>}]
    BY <1>3 DEF Claim
  <2>2. n \in 0..Retries /\ n > 0
    <3>1. job[t].tries \in 0..Retries /\ job[t].input \in 0..MaxVersion
      BY <1>0, JobFields
    <3>2. job[t].tries > 0 \/ v > job[t].input
      BY <1>0, <1>3, <3>1 DEF Claimable, Phase1Inv, RunningRows
    <3> QED
      BY <3>1, <3>2, MemoryAssumption
  <2>3. /\ job'[t].status = "running" /\ job'[t].owner = w /\ job'[t].input = v
        /\ job'[t].done = job[t].done /\ job'[t].tries = n
    <3> DEFINE q == [job[t] EXCEPT !.status = "running", !.owner = w, !.live = TRUE,
                                   !.waiting = FALSE, !.tries = n, !.input = v]
    <3>1. n \in 0..Retries /\ job[t] \in JobRow
      BY <1>0, <2>2
    <3>2. job'[t] = q
      BY <2>1
    <3> HIDE DEF n
    <3>3. /\ q.status = "running" /\ q.owner = w /\ q.input = v /\ q.done = job[t].done
          /\ q.tries = n
      BY <3>1 DEF JobRow
    <3> QED
      BY <3>2, <3>3
  <2>4. \A u \in Threads \ {t} : job'[u] = job[u]
    BY <2>1
  <2>5. out[t].ver < v /\ job[t].done < v
    <3>1. out[t].ver \in 0..MaxVersion /\ job[t].done \in 0..MaxVersion
      BY <1>0, JobFields DEF OutputRow
    <3> QED
      BY <1>0, <1>3, <3>1 DEF Claimable, UpToDate
  <2>6. RunningRows'
    BY <1>0, <2>2, <2>3, <2>4, <2>5 DEF Phase1Inv, RunningRows
  <2>7. TokenMatchesInput'
    <3> SUFFICES ASSUME NEW x \in Workers, NEW u \in Threads, NEW y \in Versions,
                        Owned(job'[u], x), <<u, y>> \in held'[x]
                 PROVE  y = job'[u].input
      BY DEF TokenMatchesInput
    <3>1. CASE u # t
      BY <2>1, <2>4, <3>1 DEF Phase1Inv, TokenMatchesInput
    <3>2. CASE u = t
      <4>1. x = w
        BY <2>3, <3>2 DEF Owned
      <4>2. <<t, y>> \in held[w] \/ y = v
        BY <2>1, <3>2, <4>1
      <4> QED
        BY <1>0, <2>3, <3>2, <4>2 DEF Phase1Inv, OneVersionPerThread
    <3> QED
      BY <3>1, <3>2
  <2>8. OutputMatchesWatermark'
    BY <1>0, <2>3, <2>4 DEF Phase1Inv, OutputMatchesWatermark
  <2> QED
    BY <1>1, <2>6, <2>7, <2>8 DEF Phase1Inv
<1> QED
  BY <1>2, <1>3

\* A result is stored by the owner of the row only, for the version of the row.
LEMMA ResultStep ==
    ASSUME TypeOK, Phase1Inv, NEW w \in Workers, NEW t \in Threads, NEW v \in Versions,
           Succeeded(w, t, v) \/ SucceededNoOutput(w, t, v) \/ Failed(w, t, v)
    PROVE  Phase1Inv'
<1> USE DEF TypeOK
<1>0. /\ job[t] \in JobRow /\ out[t] \in OutputRow /\ v \in Nat
      /\ out[t].ver \in Nat /\ job[t].input \in Nat
  BY MemoryAssumption, JobFields DEF OutputRow, Versions
<1>1. /\ <<t, v>> \in held[w] /\ UNCHANGED <<pc, todo>>
      /\ \A x \in Workers : held'[x] \subseteq held[x]
  BY DEF Succeeded, SucceededNoOutput, Failed, Finished
<1>2. CASE ~Owned(job[t], w)
  <2>1. UNCHANGED <<job, out>>
    BY <1>2 DEF Succeeded, SucceededNoOutput, Failed, tables
  <2> QED
    BY <1>1, <2>1, Phase1SameRows
<1>3. CASE Owned(job[t], w) /\ Failed(w, t, v)
  <2>1. /\ job' = [job EXCEPT ![t] = [job[t] EXCEPT !.status = "error", !.live = FALSE,
                                        !.waiting = TRUE, !.tries = job[t].tries - 1]]
        /\ UNCHANGED out
    BY <1>3 DEF Failed
  <2>2. job'[t].status = "error" /\ job'[t].done = job[t].done /\ job'[t].input = job[t].input
    BY <1>0, <2>1, JobEffects
  <2> QED
    BY <1>1, <2>1, <2>2, Phase1OneRow DEF Phase1Inv, OutputMatchesWatermark
<1>4. CASE Owned(job[t], w) /\ ~Failed(w, t, v)
  <2>1. DoneJob(t)
    BY <1>4 DEF Succeeded, SucceededNoOutput
  <2>2. job'[t].status = "done" /\ job'[t].done = job[t].input
    BY <1>0, <2>1, JobEffects DEF DoneJob
  <2>3. \A u \in Threads \ {t} : job'[u] = job[u] /\ out'[u] = out[u]
    BY <1>4, <2>1 DEF Succeeded, SucceededNoOutput, DoneJob
  <2>4. v = job[t].input /\ out[t].ver < job[t].input
    BY <1>1, <1>4 DEF Phase1Inv, TokenMatchesInput, RunningRows, Owned
  <2>5. out'[t].ver = v \/ out'[t].ver = 0
    BY <1>0, <1>4, <2>4 DEF Succeeded, SucceededNoOutput, OutputRow, NoOutput
  <2> QED
    BY <1>1, <2>2, <2>3, <2>4, <2>5, Phase1OneRow
<1> QED
  BY <1>2, <1>3, <1>4

\* Every step keeps the invariant of phase 1.
LEMMA Phase1Step == TypeOK /\ Phase1Inv /\ [Next]_vars => Phase1Inv'
<1> SUFFICES ASSUME TypeOK, Phase1Inv, [Next]_vars PROVE Phase1Inv'
  OBVIOUS
<1> USE DEF Goto, Leave, tables, workspace, locals
<1>0. \A t \in Threads : job[t] \in JobRow
  BY DEF TypeOK
<1>1. CASE UNCHANGED vars
  BY <1>1, Phase1Quiet DEF vars
<1>2. ASSUME NEW w \in Workers, Start(w) \/ StartLimited(w) PROVE Phase1Inv'
  <2>1. \A t \in Threads : out'[t].ver \in {0, out[t].ver}
    BY <1>2 DEF Start, StartLimited, Prune, NoOutput
  <2> QED
    BY <1>2, <2>1, Phase1Quiet DEF Start, StartLimited, TypeOK
<1>3. ASSUME NEW w \in Workers, Scan(w) PROVE Phase1Inv'
  <2>1. held[w] = {} /\ UNCHANGED <<job, out, held>>
    BY <1>3 DEF Scan, Phase1Inv, OneVersionPerThread
  <2>2. OneVersionPerThread'
    BY <1>3, <2>1 DEF Scan, TypeOK, Phase1Inv, OneVersionPerThread
  <2> QED
    BY <2>1, <2>2 DEF Phase1Inv, RunningRows, TokenMatchesInput, OutputMatchesWatermark, Owned
<1>4. ASSUME NEW w \in Workers, NEW t \in Threads, NEW v \in Versions,
             Claim(w, t, v) \/ Succeeded(w, t, v) \/ SucceededNoOutput(w, t, v)
             \/ Failed(w, t, v)
      PROVE  Phase1Inv'
  BY <1>4, ClaimStep, ResultStep
<1>5. ASSUME NEW w \in Workers, Phase1Error(w) PROVE Phase1Inv'
  <2>1. \A x \in Workers : held'[x] \subseteq held[x] /\ todo'[x] \subseteq todo[x]
    BY <1>5 DEF Phase1Error, TypeOK
  <2>2. \A u \in Threads : job'[u] = job[u] \/ job'[u] = Disowned(job[u], w)
    BY <1>5 DEF Phase1Error
  <2> QED
    BY <1>0, <1>5, <2>1, <2>2, JobEffects, Phase1SameRows DEF Phase1Error
<1>6. ASSUME NEW w \in Workers, Crash(w) PROVE Phase1Inv'
  <2>1. \A x \in Workers : /\ held'[x] \subseteq held[x] /\ todo'[x] \subseteq todo[x]
                           /\ pc'[x] = pc[x] \/ (todo'[x] = {} /\ held'[x] = {})
    BY <1>6 DEF Crash, TypeOK
  <2>2. \A u \in Threads : job'[u] = Disowned(job[u], w)
    BY <1>6 DEF Crash
  <2> QED
    BY <1>0, <1>6, <2>1, <2>2, JobEffects, Phase1SameRows DEF Crash
<1>7. ASSUME NEW w \in Workers, SucceedGlobal(w) PROVE Phase1Inv'
  <2>1. \A t \in Threads : out'[t].ver = out[t].ver
    <3> SUFFICES ASSUME NEW t \in Threads PROVE out'[t].ver = out[t].ver
      OBVIOUS
    <3> DEFINE n == IF <<t, out[t].ver>> \in sel[w] THEN out[t].ver ELSE 0
    <3>1. out'[t] = out[t] \/ out'[t] = [out[t] EXCEPT !.sel = n]
      BY <1>7 DEF SucceedGlobal
    <3>2. out[t] \in OutputRow
      BY DEF TypeOK
    <3> HIDE DEF n
    <3> QED
      BY <3>1, <3>2 DEF OutputRow
  <2> QED
    BY <1>7, <2>1, Phase1Quiet DEF SucceedGlobal, TypeOK
<1>8. ASSUME NEW w \in Workers,
             \/ ClaimGlobal(w) \/ Prepare(w) \/ LoadSelection(w) \/ SyncInputs(w) \/ Diff(w)
             \/ DiffFails(w) \/ AgentCompleted(w) \/ ResetBaseline(w)
             \/ AgentEdits(w) \/ Heartbeat(w) \/ Phase2Error(w)
      PROVE  Phase1Inv'
  <2>1. /\ UNCHANGED <<job, out, todo, held>>
        /\ \A x \in Workers : pc'[x] = pc[x] \/ pc[x] # "phase1"
                              \/ (todo[x] = {} /\ held[x] = {})
    BY <1>8 DEF ClaimGlobal, Prepare, LoadSelection, SyncInputs, Diff, DiffFails, FailGlobal,
       AgentCompleted, ResetBaseline, AgentEdits, Heartbeat, Phase2Error, TypeOK
  <2> QED
    BY <2>1, Phase1Quiet
<1>9. ASSUME NEW t \in Threads, Update(t) \/ Pollute(t) PROVE Phase1Inv'
  BY <1>9, Phase1Quiet DEF Update, Pollute
<1>10. ASSUME NEW t \in Threads, Clock(t) PROVE Phase1Inv'
  <2>1. \A u \in Threads : \/ job'[u] = job[u]
                           \/ job'[u] = [job[u] EXCEPT !.live = FALSE]
                           \/ job'[u] = [job[u] EXCEPT !.waiting = FALSE]
    BY <1>10 DEF Clock, JobLeaseExpires, JobRetryElapses, TypeOK
  <2>2. UNCHANGED <<out, pc, todo, held>>
    BY <1>10 DEF Clock, JobLeaseExpires, JobRetryElapses
  <2>3. \A u \in Threads : /\ job'[u].status = job[u].status /\ job'[u].owner = job[u].owner
                           /\ job'[u].tries = job[u].tries /\ job'[u].done = job[u].done
                           /\ job'[u].input = job[u].input
    <3> TAKE u \in Threads
    <3>1. job[u] \in JobRow
      BY <1>0
    <3>2. CASE job'[u] = [job[u] EXCEPT !.live = FALSE]
      BY <3>1, <3>2, JobEffects
    <3>3. CASE job'[u] = [job[u] EXCEPT !.waiting = FALSE]
      BY <3>1, <3>3, JobEffects
    <3> QED
      BY <2>1, <3>2, <3>3
  <2> QED
    BY <2>2, <2>3, Phase1SameRows
<1>11. CASE GlobalLeaseExpires \/ GlobalDelayElapses \/ ClearMemoryRoot \/ ClearingFails
  BY <1>11, Phase1Quiet DEF GlobalLeaseExpires, GlobalDelayElapses, ClearMemoryRoot,
     ClearingFails
<1>12. CASE ClearMemoryData
  <2>1. /\ UNCHANGED <<pc, todo, held>>
        /\ \A t \in Threads : job'[t] = NoJob /\ out'[t].ver = 0
    BY <1>12 DEF ClearMemoryData, NoOutput
  <2>2. NoJob.status = "none" /\ NoJob.input = 0
    BY DEF NoJob
  <2> QED
    BY <2>1, <2>2 DEF Phase1Inv, OneVersionPerThread, RunningRows, TokenMatchesInput,
       OutputMatchesWatermark, Owned
<1> QED
  BY <1>1, <1>2, <1>3, <1>4, <1>5, <1>6, <1>7, <1>8, <1>9, <1>10, <1>11, <1>12
     DEF Next, Phase1, Phase2

\* Only a claim makes a row active, and it counts the active rows first.
LEMMA CapStep == TypeOK /\ RunningWithinCap /\ [Next]_vars => RunningWithinCap'
<1> SUFFICES ASSUME TypeOK, RunningWithinCap, [Next]_vars PROVE RunningWithinCap'
  OBVIOUS
<1>0. /\ IsFiniteSet(Running) /\ Cardinality(Running) \in Nat
      /\ \A t \in Threads : job[t] \in JobRow
  BY MemoryAssumption, FS_Subset, FS_CardinalityType DEF Running, TypeOK
<1>1. ASSUME \A t \in Threads : Active(job'[t]) => Active(job[t]) PROVE RunningWithinCap'
  <2>1. Running' \subseteq Running
    BY <1>1 DEF Running
  <2>2. Cardinality(Running') \in Nat /\ Cardinality(Running') <= Cardinality(Running)
    BY <1>0, <2>1, FS_Subset, FS_CardinalityType
  <2> QED
    BY <1>0, <2>2, MemoryAssumption DEF RunningWithinCap
<1>2. ASSUME NEW w \in Workers, NEW t \in Threads, NEW v \in Versions, Claim(w, t, v)
      PROVE  RunningWithinCap'
  <2>1. CASE ~Claimable(t, v)
    BY <1>1, <1>2, <2>1 DEF Claim
  <2>2. CASE Claimable(t, v)
    <3>1. Cardinality(Running) < MaxClaimed
      BY <2>2 DEF Claimable
    <3>2. Running' \subseteq Running \union {t}
      BY <1>2, <2>2 DEF Claim, Running, TypeOK
    <3>3. /\ IsFiniteSet(Running \union {t}) /\ Cardinality(Running \union {t}) \in Nat
          /\ Cardinality(Running \union {t}) <= Cardinality(Running) + 1
      <4>1. /\ IsFiniteSet(Running \union {t})
            /\ Cardinality(Running \union {t}) = IF t \in Running THEN Cardinality(Running)
                                                 ELSE Cardinality(Running) + 1
        BY <1>0, FS_AddElement
      <4> QED
        BY <1>0, <4>1, FS_CardinalityType
    <3>4. /\ Cardinality(Running') \in Nat
          /\ Cardinality(Running') <= Cardinality(Running \union {t})
      BY <3>2, <3>3, FS_Subset, FS_CardinalityType
    <3> QED
      BY <1>0, <3>1, <3>3, <3>4, MemoryAssumption DEF RunningWithinCap
  <2> QED
    BY <2>1, <2>2
<1>3. ASSUME NEW w \in Workers, NEW t \in Threads, NEW v \in Versions,
             Succeeded(w, t, v) \/ SucceededNoOutput(w, t, v) \/ Failed(w, t, v)
      PROVE  RunningWithinCap'
  <2>1. \/ UNCHANGED job \/ DoneJob(t)
        \/ job' = [job EXCEPT ![t] = [job[t] EXCEPT !.status = "error", !.live = FALSE,
                                        !.waiting = TRUE, !.tries = job[t].tries - 1]]
    BY <1>3 DEF Succeeded, SucceededNoOutput, Failed, tables
  <2>2. CASE DoneJob(t)
    <3>1. job'[t].status = "done"
      BY <1>0, <2>2, JobEffects DEF DoneJob, TypeOK
    <3> QED
      BY <1>1, <2>2, <3>1 DEF DoneJob, Active, TypeOK
  <2>3. CASE job' = [job EXCEPT ![t] = [job[t] EXCEPT !.status = "error", !.live = FALSE,
                                        !.waiting = TRUE, !.tries = job[t].tries - 1]]
    <3>1. job'[t].status = "error"
      BY <1>0, <2>3, JobEffects DEF TypeOK
    <3> QED
      BY <1>1, <2>3, <3>1 DEF Active, TypeOK
  <2> QED
    BY <1>1, <2>1, <2>2, <2>3
<1>4. ASSUME NEW w \in Workers, Phase1Error(w) \/ Crash(w) PROVE RunningWithinCap'
  <2>1. \A u \in Threads : job'[u] = job[u] \/ job'[u] = Disowned(job[u], w)
    BY <1>4 DEF Phase1Error, Crash
  <2> QED
    BY <1>0, <1>1, <2>1, JobEffects DEF Active
<1>5. ASSUME NEW t \in Threads, Clock(t) PROVE RunningWithinCap'
  <2>1. \A u \in Threads : \/ job'[u] = job[u]
                           \/ job'[u] = [job[u] EXCEPT !.live = FALSE]
                           \/ job'[u] = [job[u] EXCEPT !.waiting = FALSE]
    BY <1>5 DEF Clock, JobLeaseExpires, JobRetryElapses, TypeOK
  <2>2. \A u \in Threads : Active(job'[u]) => Active(job[u])
    <3> TAKE u \in Threads
    <3>1. CASE job'[u] = [job[u] EXCEPT !.live = FALSE]
      BY <1>0, <3>1, JobEffects DEF Active
    <3>2. CASE job'[u] = [job[u] EXCEPT !.waiting = FALSE]
      BY <1>0, <3>2, JobEffects DEF Active
    <3> QED
      BY <2>1, <3>1, <3>2
  <2> QED
    BY <1>1, <2>2
<1>6. CASE ClearMemoryData
  BY <1>1, <1>6 DEF ClearMemoryData, NoJob, Active
<1>7. CASE UNCHANGED job
  BY <1>1, <1>7
<1>8. ASSUME \/ UNCHANGED vars \/ GlobalLeaseExpires \/ GlobalDelayElapses
             \/ ClearMemoryRoot \/ ClearingFails
             \/ \E w \in Workers : Start(w) \/ StartLimited(w) \/ Scan(w) \/ Phase2(w)
                                   \/ AgentEdits(w) \/ Heartbeat(w) \/ Phase2Error(w)
             \/ \E t \in Threads : Update(t) \/ Pollute(t)
      PROVE  UNCHANGED job
  BY <1>8 DEF vars, tables, GlobalLeaseExpires, GlobalDelayElapses, ClearMemoryRoot,
     ClearingFails, Start, StartLimited, Scan, Phase2, ClaimGlobal, Prepare, LoadSelection,
     SyncInputs, Diff, DiffFails, FailGlobal, AgentCompleted, ResetBaseline, SucceedGlobal,
     AgentEdits, Heartbeat, Phase2Error, Update, Pollute
<1> QED
  BY <1>2, <1>3, <1>4, <1>5, <1>6, <1>7, <1>8 DEF Next, Phase1

----------------------------------------------------------------------------
(* Phase 2 *)

\* What the updates of the global row leave in it.
LEMMA GlobalEffects ==
    ASSUME NEW r \in GlobalRow
    PROVE  /\ \A b : LET q == [r EXCEPT !.live = b]
                     IN  q.live = b /\ q.status = r.status /\ q.owner = r.owner
           /\ LET q == [r EXCEPT !.waiting = FALSE, !.cooling = FALSE]
              IN  q.live = r.live /\ q.status = r.status /\ q.owner = r.owner
           /\ [r EXCEPT !.status = "pending", !.waiting = FALSE].status = "pending"
           /\ [r EXCEPT !.status = "done", !.live = FALSE, !.cooling = TRUE].status = "done"
           /\ [r EXCEPT !.status = "error", !.live = FALSE, !.waiting = TRUE].status = "error"
           /\ \A w : LET q == [r EXCEPT !.status = "running", !.owner = w, !.live = TRUE]
                     IN  q.live /\ q.status = "running" /\ q.owner = w
           /\ \A w : LET q == Disowned(r, w)
                     IN  /\ q.live = r.live /\ q.status = r.status
                         /\ q.owner = IF r.owner = w THEN Orphan ELSE r.owner
BY DEF GlobalRow, Disowned

\* A step that neither touches the workspace nor brings a worker to it, nor takes the
\* lock from who has it.
LEMMA Phase2Quiet ==
    ASSUME LockHeld, InputsInPlace, resets = 0, SelectionInBaseline,
           UNCHANGED <<files, base>>,
           \A w \in Workers : \/ pc'[w] = pc[w] /\ sel'[w] = sel[w]
                              \/ pc'[w] \notin WorkspaceSteps \union {"agent"},
           \A w \in Workers : pc'[w] \in WorkspaceSteps /\ Owned(global, w) /\ global.live
                              => Owned(global', w) /\ global'.live,
           \A w \in Workers : pc'[w] \in WorkspaceSteps \union {"agent"} /\ Owned(global', w)
                              => Owned(global, w),
           global'.status = "done" => global.status = "done",
           \A t \in Threads : out'[t].sel \in {0, out[t].sel}
    PROVE  LockHeld' /\ InputsInPlace' /\ SelectionInBaseline'
<1>1. LockHeld'
  BY DEF LockHeld, WorkspaceSteps
<1>2. InputsInPlace'
  BY DEF InputsInPlace, WorkspaceSteps
<1>3. SelectionInBaseline'
  BY DEF SelectionInBaseline
<1> QED
  BY <1>1, <1>2, <1>3

\* Every step keeps the invariant of phase 2.  With the lock held, two workers are never
\* both at the workspace; once it was lost, the heartbeat after the agent finds out.
LEMMA Phase2Step == TypeOK /\ Phase2Inv /\ [Next]_vars => Phase2Inv'
<1> SUFFICES ASSUME TypeOK, Phase2Inv, [Next]_vars, resets' = 0
             PROVE  ~clearing' /\ LockHeld' /\ InputsInPlace' /\ SelectionInBaseline'
  BY DEF Phase2Inv
<1> DEFINE Goal == ~clearing' /\ LockHeld' /\ InputsInPlace' /\ SelectionInBaseline'
<1> USE DEF Goto, Leave, tables, workspace, locals, bounds
<1>0. resets = 0 /\ UNCHANGED resets
  <2>1. resets \in Nat /\ (resets' = resets \/ resets' = resets + 1)
    <3>1. CASE ClearMemoryData
      BY <3>1 DEF ClearMemoryData, TypeOK
    <3>2. CASE UNCHANGED vars
      BY <3>2 DEF vars, TypeOK
    <3>3. ASSUME NEW w \in Workers,
                 Start(w) \/ StartLimited(w) \/ Phase1(w) \/ Phase1Error(w) \/ Crash(w)
          PROVE  UNCHANGED resets
      BY <3>3 DEF Start, StartLimited, Phase1, Scan, Claim, Succeeded, SucceededNoOutput,
         Failed, Finished, Phase1Error, Crash, Fault
    <3>4. ASSUME NEW w \in Workers, Phase2(w) \/ AgentEdits(w) \/ Heartbeat(w) \/ Phase2Error(w)
          PROVE  UNCHANGED resets
      BY <3>4 DEF Phase2, ClaimGlobal, Prepare, LoadSelection, SyncInputs, Diff, DiffFails,
         AgentCompleted, ResetBaseline, SucceedGlobal, AgentEdits, Heartbeat, Phase2Error, Fault
    <3>5. ASSUME \/ \E t \in Threads : Update(t) \/ Pollute(t) \/ Clock(t)
                 \/ GlobalLeaseExpires \/ GlobalDelayElapses \/ ClearMemoryRoot \/ ClearingFails
          PROVE  UNCHANGED resets
      BY <3>5 DEF Update, Pollute, Clock, JobLeaseExpires, JobRetryElapses, GlobalLeaseExpires,
         GlobalDelayElapses, ClearMemoryRoot, ClearingFails, Fault
    <3> QED
      BY <3>1, <3>2, <3>3, <3>4, <3>5 DEF Next, TypeOK
  <2> QED
    BY <2>1
<1>1. ~clearing /\ LockHeld /\ InputsInPlace /\ SelectionInBaseline
  BY <1>0 DEF Phase2Inv
<1>2. /\ global \in GlobalRow /\ pc \in [Workers -> Labels]
      /\ sel \in [Workers -> SUBSET Snapshots] /\ Orphan \notin Workers
  BY MemoryAssumption DEF TypeOK
<1>3. /\ Enqueued.status = "done" => global.status = "done"
      /\ \A w \in Workers : Owned(Enqueued, w) <=> Owned(global, w)
      /\ \A w \in Workers : Owned(global, w) => Enqueued.live = global.live
  BY <1>2, GlobalEffects DEF Enqueued, Owned
\* Steps that leave the workspace, the lock and everyone's place in phase 2 alone.
<1>4. ASSUME UNCHANGED <<files, base, clearing>>,
             \A w \in Workers : \/ pc'[w] = pc[w] /\ sel'[w] = sel[w]
                                \/ pc'[w] \notin WorkspaceSteps \union {"agent"},
             global' \in {global, Enqueued},
             \A t \in Threads : out'[t].sel \in {0, out[t].sel}
      PROVE  Goal
  BY <1>0, <1>1, <1>3, <1>4, Phase2Quiet
<1>5. CASE UNCHANGED vars
  BY <1>4, <1>5 DEF vars
<1>6. ASSUME NEW w \in Workers, Start(w) \/ StartLimited(w) \/ Scan(w) \/ Phase1Error(w)
      PROVE  Goal
  <2>1. \A t \in Threads : out'[t].sel \in {0, out[t].sel}
    BY <1>6 DEF Start, StartLimited, Prune, NoOutput, Scan, Phase1Error
  <2>2. \A x \in Workers : pc'[x] = pc[x] \/ pc'[x] \in {"scan", "phase1"}
    BY <1>2, <1>6 DEF Start, StartLimited, Scan, Phase1Error
  <2> QED
    BY <1>4, <1>6, <2>1, <2>2 DEF Start, StartLimited, Scan, Phase1Error, WorkspaceSteps
<1>7. ASSUME NEW w \in Workers, NEW t \in Threads, NEW v \in Versions,
             Claim(w, t, v) \/ Succeeded(w, t, v) \/ SucceededNoOutput(w, t, v)
             \/ Failed(w, t, v)
      PROVE  Goal
  <2>1. \A u \in Threads : out'[u].sel \in {0, out[u].sel}
    BY <1>7 DEF Claim, Succeeded, SucceededNoOutput, Failed, NoOutput, TypeOK, OutputRow
  <2>2. UNCHANGED <<files, base, clearing, pc, sel>> /\ global' \in {global, Enqueued}
    BY <1>7 DEF Claim, Succeeded, SucceededNoOutput, Failed, Finished
  <2> QED
    BY <1>4, <2>1, <2>2
<1>8. ASSUME NEW t \in Threads, Update(t) \/ Pollute(t) \/ Clock(t) PROVE Goal
  BY <1>4, <1>8 DEF Update, Pollute, Clock, JobLeaseExpires, JobRetryElapses
<1>9. ASSUME NEW w \in Workers, Crash(w) PROVE Goal
  <2>1. /\ UNCHANGED <<files, base, clearing, out>> /\ global' = Disowned(global, w)
        /\ \A x \in Workers : IF x = w THEN pc'[x] = "idle"
                              ELSE pc'[x] = pc[x] /\ sel'[x] = sel[x]
    BY <1>2, <1>9 DEF Crash
  <2>2. /\ global'.live = global.live /\ global'.status = global.status
        /\ global'.owner = IF global.owner = w THEN Orphan ELSE global.owner
    BY <1>2, <2>1, GlobalEffects
  <2> QED
    BY <1>0, <1>1, <1>2, <2>1, <2>2, Phase2Quiet DEF Owned, WorkspaceSteps
<1>10. ASSUME NEW w \in Workers, DiffFails(w) \/ Phase2Error(w) PROVE Goal
  <2>1. /\ UNCHANGED <<files, base, clearing, out>>
        /\ \A x \in Workers : IF x = w THEN pc'[x] = "idle"
                              ELSE pc'[x] = pc[x] /\ sel'[x] = sel[x]
        /\ IF Owned(global, w)
           THEN global' = [global EXCEPT !.status = "error", !.live = FALSE, !.waiting = TRUE]
           ELSE global' = global
    BY <1>2, <1>10 DEF DiffFails, Phase2Error, FailGlobal
  <2>2. IF Owned(global, w) THEN global'.status = "error" ELSE global' = global
    <3>1. [global EXCEPT !.status = "error", !.live = FALSE, !.waiting = TRUE].status = "error"
      BY <1>2, GlobalEffects
    <3> QED
      BY <2>1, <3>1
  <2> QED
    BY <1>0, <1>1, <2>1, <2>2, Phase2Quiet DEF Owned, WorkspaceSteps

<1>11. ASSUME NEW w \in Workers, Heartbeat(w) PROVE Goal
  <2>1. /\ UNCHANGED <<files, base, clearing, out>>
        /\ \A x \in Workers : \/ pc'[x] = pc[x] /\ sel'[x] = sel[x]
                              \/ pc'[x] = "idle"
        /\ global' = [global EXCEPT !.live = TRUE] \/ global' = global
    BY <1>2, <1>11 DEF Heartbeat
  <2>2. /\ global'.status = global.status /\ global'.owner = global.owner
        /\ global'.live = TRUE \/ global'.live = global.live
    <3>1. LET q == [global EXCEPT !.live = TRUE]
          IN  q.status = global.status /\ q.owner = global.owner /\ q.live = TRUE
      BY <1>2, GlobalEffects
    <3> QED
      BY <2>1, <3>1
  <2> QED
    BY <1>0, <1>1, <2>1, <2>2, Phase2Quiet DEF Owned, WorkspaceSteps
<1>12. CASE GlobalLeaseExpires
  <2>1. /\ UNCHANGED <<files, base, clearing, out, pc, sel>>
        /\ global' = [global EXCEPT !.live = FALSE]
        /\ global.owner \in Workers => pc[global.owner] = "agent"
    BY <1>2, <1>12 DEF GlobalLeaseExpires
  <2>2. global'.status = global.status /\ global'.owner = global.owner
    BY <1>2, <2>1, GlobalEffects
  <2>3. \A w \in Workers : Owned(global, w) => pc[w] = "agent"
    BY <2>1 DEF Owned
  <2> QED
    BY <1>0, <1>1, <2>1, <2>2, <2>3, Phase2Quiet DEF Owned, WorkspaceSteps
<1>13. CASE GlobalDelayElapses
  <2>1. /\ UNCHANGED <<files, base, clearing, out, pc, sel>>
        /\ global' = [global EXCEPT !.waiting = FALSE, !.cooling = FALSE]
    BY <1>13 DEF GlobalDelayElapses
  <2>2. /\ global'.status = global.status /\ global'.owner = global.owner
        /\ global'.live = global.live
    BY <1>2, <2>1, GlobalEffects
  <2> QED
    BY <1>0, <1>1, <2>1, <2>2, Phase2Quiet DEF Owned
<1>14. ASSUME NEW w \in Workers, AgentEdits(w) PROVE Goal
  BY <1>4, <1>14 DEF AgentEdits
\* The memories have not been reset.
<1>15. CASE ClearMemoryData \/ ClearMemoryRoot \/ ClearingFails
  <2>1. ~ClearMemoryData
    BY <1>0 DEF ClearMemoryData
  <2> QED
    BY <1>1, <1>15, <2>1 DEF ClearMemoryRoot, ClearingFails
<1>16. ASSUME NEW w \in Workers, ClaimGlobal(w) PROVE Goal
  <2>1. CASE global' = global /\ pc' = [pc EXCEPT ![w] = "idle"]
    BY <1>2, <1>4, <1>16, <2>1 DEF ClaimGlobal, WorkspaceSteps
  <2>2. CASE ~Active(global) /\ pc' = [pc EXCEPT ![w] = "prepare"]
    <3>1. global' = [global EXCEPT !.status = "running", !.owner = w, !.live = TRUE]
      BY <1>2, <1>16, <2>2 DEF ClaimGlobal
    <3>2. global'.live /\ global'.status = "running" /\ global'.owner = w
      BY <1>2, <3>1, GlobalEffects
    <3>3. \A x \in Workers : pc[x] \notin WorkspaceSteps
      BY <1>1, <2>2 DEF LockHeld, Owned, Active
    <3>4. UNCHANGED <<files, base, clearing, out, sel>>
      BY <1>2, <1>16, <2>2 DEF ClaimGlobal
    <3>5. LockHeld'
      BY <1>2, <2>2, <3>2, <3>3 DEF LockHeld, Owned, WorkspaceSteps
    <3>6. InputsInPlace'
      BY <1>2, <2>2, <3>2, <3>3, <3>4 DEF InputsInPlace, Owned, WorkspaceSteps
    <3> QED
      BY <1>1, <3>2, <3>4, <3>5, <3>6 DEF SelectionInBaseline
  <2> QED
    BY <1>2, <1>16, <2>1, <2>2 DEF ClaimGlobal
\* The steps on the workspace: nobody else has the lock.
<1>17. ASSUME NEW w \in Workers, pc[w] \in WorkspaceSteps
       PROVE  /\ Owned(global, w) /\ global.live /\ global.status # "done"
              /\ \A x \in Workers \ {w} : ~Owned(global, x) /\ pc[x] \notin WorkspaceSteps
  BY <1>1, <1>17 DEF LockHeld, Owned
<1>18. ASSUME NEW w \in Workers, pc[w] \in WorkspaceSteps,
              UNCHANGED <<global, clearing>>,
              \A x \in Workers \ {w} : pc'[x] = pc[x],
              pc'[w] \in WorkspaceSteps \union {"agent"},
              pc'[w] \in {"diff", "agent", "reset"} => files' = sel'[w],
              pc'[w] = "succeed" => base' = sel'[w]
       PROVE  Goal
  <2>1. LockHeld'
    BY <1>17, <1>18 DEF LockHeld
  <2>2. InputsInPlace'
    BY <1>17, <1>18 DEF InputsInPlace, WorkspaceSteps
  <2>3. SelectionInBaseline'
    BY <1>17, <1>18 DEF SelectionInBaseline
  <2> QED
    BY <1>1, <1>18, <2>1, <2>2, <2>3
<1>19. ASSUME NEW w \in Workers,
              Prepare(w) \/ LoadSelection(w) \/ SyncInputs(w) \/ Diff(w) \/ ResetBaseline(w)
       PROVE  Goal
  <2>1. pc[w] \in WorkspaceSteps /\ UNCHANGED <<global, clearing>>
        /\ \A x \in Workers \ {w} : pc'[x] = pc[x]
    BY <1>2, <1>19 DEF Prepare, LoadSelection, SyncInputs, Diff, ResetBaseline, WorkspaceSteps
  <2>2. Owned(global, w)
    BY <1>17, <2>1
  <2>3. CASE Prepare(w) \/ LoadSelection(w)
    BY <1>2, <1>18, <2>1, <2>3 DEF Prepare, LoadSelection, WorkspaceSteps
  <2>4. CASE SyncInputs(w)
    BY <1>2, <1>18, <2>1, <2>4 DEF SyncInputs, WorkspaceSteps
  <2>5. CASE Diff(w)
    <3>1. files = sel[w]
      BY <1>1, <2>2, <2>5 DEF Diff, InputsInPlace
    <3> QED
      BY <1>2, <1>18, <2>1, <2>5, <3>1 DEF Diff, WorkspaceSteps
  <2>6. CASE ResetBaseline(w)
    <3>1. files = sel[w]
      BY <1>1, <2>2, <2>6 DEF ResetBaseline, InputsInPlace
    <3> QED
      BY <1>2, <1>18, <2>1, <2>6, <3>1 DEF ResetBaseline, WorkspaceSteps
  <2> QED
    BY <1>19, <2>3, <2>4, <2>5, <2>6
<1>20. ASSUME NEW w \in Workers, AgentCompleted(w) PROVE Goal
  <2>1. CASE ~Owned(global, w)
    BY <1>2, <1>4, <1>20, <2>1 DEF AgentCompleted, WorkspaceSteps
  <2>2. CASE Owned(global, w)
    <3>1. /\ pc[w] = "agent" /\ pc' = [pc EXCEPT ![w] = "reset"]
          /\ global' = [global EXCEPT !.live = TRUE]
          /\ UNCHANGED <<files, base, clearing, out, sel>>
      BY <1>20, <2>2 DEF AgentCompleted
    <3>2. global'.live /\ global'.status = global.status /\ global'.owner = global.owner
      BY <1>2, <3>1, GlobalEffects
    <3>3. \A x \in Workers \ {w} : ~Owned(global, x) /\ pc[x] \notin WorkspaceSteps
      BY <1>1, <2>2 DEF LockHeld, Owned
    <3>4. LockHeld'
      BY <1>2, <2>2, <3>1, <3>2, <3>3 DEF LockHeld, Owned
    <3>5. InputsInPlace'
      BY <1>1, <1>2, <2>2, <3>1, <3>2, <3>3 DEF InputsInPlace, Owned, WorkspaceSteps
    <3>6. SelectionInBaseline'
      BY <2>2, <3>2 DEF SelectionInBaseline, Owned
    <3> QED
      BY <1>1, <3>1, <3>4, <3>5, <3>6
  <2> QED
    BY <2>1, <2>2
<1>21. ASSUME NEW w \in Workers, SucceedGlobal(w) PROVE Goal
  <2>1. pc[w] = "succeed" /\ pc[w] \in WorkspaceSteps
    BY <1>21 DEF SucceedGlobal, WorkspaceSteps
  <2>2. Owned(global, w) /\ \A x \in Workers \ {w} : pc[x] \notin WorkspaceSteps
    BY <1>17, <2>1
  <2>3. /\ UNCHANGED <<files, base, clearing>> /\ pc' = [pc EXCEPT ![w] = "idle"]
        /\ global' = [global EXCEPT !.status = "done", !.live = FALSE, !.cooling = TRUE]
        /\ out' = [t \in Threads |-> [out[t] EXCEPT
                        !.sel = IF <<t, out[t].ver>> \in sel[w] THEN out[t].ver ELSE 0]]
    BY <1>21, <2>2 DEF SucceedGlobal
  <2>4. global'.status = "done"
    BY <1>2, <2>3, GlobalEffects
  <2>5. LockHeld' /\ InputsInPlace'
    BY <1>2, <2>2, <2>3, <2>4 DEF LockHeld, InputsInPlace, Owned, WorkspaceSteps
  <2>6. base = sel[w]
    BY <1>1, <2>1 DEF InputsInPlace
  <2>7. SelectionInBaseline'
    <3> SUFFICES ASSUME NEW t \in Threads, out'[t].sel # 0 PROVE <<t, out'[t].sel>> \in base
      BY <2>3 DEF SelectionInBaseline
    <3> DEFINE n == IF <<t, out[t].ver>> \in sel[w] THEN out[t].ver ELSE 0
    <3>1. out'[t] = [out[t] EXCEPT !.sel = n] /\ out[t] \in OutputRow
      BY <2>3 DEF TypeOK
    <3>2. out'[t].sel = n
      BY <3>1 DEF OutputRow
    <3> QED
      BY <2>6, <3>2
  <2> QED
    BY <1>1, <2>3, <2>5, <2>7
<1> QED
  BY <1>5, <1>6, <1>7, <1>8, <1>9, <1>10, <1>11, <1>12, <1>13, <1>14, <1>15, <1>16, <1>19,
     <1>20, <1>21 DEF Next, Phase1, Phase2

----------------------------------------------------------------------------
(* The theorems *)

\* The inductive invariant holds in every reachable state.
LEMMA Invariance == Spec => []IndInv
<1>1. IndInv /\ [Next]_vars => IndInv'
  BY TypeStep, Phase1Step, CapStep, Phase2Step DEF IndInv, Phase1Inv
<1> QED
  BY IndInit, <1>1, PTL DEF Spec

\* The tables, the workspace and the workers keep their types; a row never fails more
\* often than DEFAULT_RETRY_REMAINING allows for one version.
THEOREM TypeCorrect == Spec => []TypeOK
<1>1. IndInv => TypeOK
  BY DEF IndInv
<1> QED
  BY Invariance, <1>1, PTL

\* No more extractions run under a lease than max_rollouts_per_startup, for any number of
\* workers.
THEOREM CapKept == Spec => []RunningWithinCap
<1>1. IndInv => RunningWithinCap
  BY DEF IndInv
<1> QED
  BY Invariance, <1>1, PTL

\* The stored memory of a thread is the one of its last successful extraction, however
\* late the workers that lost their lease come back.
THEOREM StoredMemoryIsLatest == Spec => []OutputMatchesWatermark
<1>1. IndInv => OutputMatchesWatermark
  BY DEF IndInv, Phase1Inv
<1> QED
  BY Invariance, <1>1, PTL

\* Until the memories are reset, the steps on the workspace exclude each other.
THEOREM WorkspaceExclusion == Spec => []WorkspaceStepsExclusive
<1>1. IndInv => WorkspaceStepsExclusive
  BY DEF IndInv, Phase2Inv, LockHeld, WorkspaceSteps, Owned, WorkspaceStepsExclusive
<1> QED
  BY Invariance, <1>1, PTL

\* Until the memories are reset, what a recorded consolidation marks is in the baseline.
THEOREM MarksInBaseline == Spec => []SelectionInBaseline
<1>1. IndInv => SelectionInBaseline
  BY DEF IndInv, Phase2Inv, SelectionInBaseline
<1> QED
  BY Invariance, <1>1, PTL
=============================================================================
